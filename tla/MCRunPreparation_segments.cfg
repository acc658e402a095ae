SPECIFICATION Spec
CONSTANTS
  Corpora <- MCReusedIds
  Emission <- MCEmission
  Channels = {"*"}
  ScopedLimits <- MCScopedLimits
CHECK_DEADLOCK FALSE
INVARIANTS SegmentsBelongToScope
