SPECIFICATION Spec
CONSTANTS
  Nodes = {"n1"}
  Contents = {"c1"}
  HashOf <- OneBucket
  Values = {"out"}
  NoValue = "none"
  BytesOf <- AllSmall
  MaxEntries = 1
  MaxBytes = 2
  MaxQuarantines = 1
  MaxRevision = 3
  MaxSessions = 1
  MaxRuns = 2
  MaxQueue = 1
  MaxKernels = 2
INVARIANTS EvidenceIsUnique
CHECK_DEADLOCK FALSE
