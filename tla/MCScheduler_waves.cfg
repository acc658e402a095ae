SPECIFICATION FairSpec
CONSTANTS
  Plans <- SmallPlans
  MaxParallelism = 3
  MaxEvents = 2
INVARIANTS TraceInPlanOrder BarrierFence EventsInPlanOrder
  FailureDrains ErrorIsPlanOrdered NeverStuckOrDiverged
PROPERTIES EveryRunEnds
CHECK_DEADLOCK FALSE
