SPECIFICATION Spec
CONSTANTS
  Nodes = {"n1"}
  Contents = {"c1", "c2"}
  HashOf <- OneBucket
  Values = {"out", "other"}
  NoValue = "none"
  BytesOf <- AllSmall
  MaxEntries = 1
  MaxBytes = 2
  MaxQuarantines = 1
  MaxRevision = 3
  MaxSessions = 1
  MaxRuns = 2
  MaxQueue = 2
  MaxKernels = 2
INVARIANTS EvidenceIsCommitted HitServesEvidence QuarantineBars
  VersionNamesContent ReportNamesCommittedEvidence
CHECK_DEADLOCK FALSE
