SPECIFICATION ExecuteRunSpec
CONSTANTS
  Corpora <- MCCorpora
  Emission <- MCEmission
  Channels = {"*"}
  ScopedLimits <- MCScopedLimits
  Scripts <- MCScripts
CHECK_DEADLOCK FALSE
INVARIANTS
  ExecutableIffWellFormed
  LinesGoThroughTheirStages
  UnchangedMeansUnchanged
  LoadsWhatIsPinnedAndReached
  DeltaBringsTheHostUpToDate
  ReferenceAgrees
  ResultIsOfTheText
  GateVouches
  ProjectionsAreSound
  BundlesVerify
