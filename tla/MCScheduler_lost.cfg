SPECIFICATION Spec
CONSTANTS
  Plans <- SmallPlans
  MaxParallelism = 1
  MaxEvents = 1
INVARIANTS NoEventLost
CHECK_DEADLOCK FALSE
