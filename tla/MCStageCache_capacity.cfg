SPECIFICATION Spec
CONSTANTS
  Nodes = {"n1", "n2", "n3"}
  Contents = {"c1"}
  HashOf <- OneBucket
  Values = {"small", "big"}
  NoValue = "none"
  BytesOf <- BigAndSmall
  MaxEntries = 2
  MaxBytes = 3
  MaxQuarantines = 1
  MaxRevision = 2
  MaxSessions = 1
  MaxRuns = 2
  MaxQueue = 2
  MaxKernels = 1
INVARIANTS WithinLimits
PROPERTIES ReportedWritesAreVisible
CHECK_DEADLOCK FALSE
