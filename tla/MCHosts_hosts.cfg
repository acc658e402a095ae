SPECIFICATION HostsSpec
CONSTANTS
  NoText = NoText
  Garbled = Garbled
  MaxEdits <- MCMaxEdits
  MaxCalls <- MCMaxCalls
  Texts = {a, b}
  FixtureText = a
  MaxEvents = 3
  narrow = narrow
  wide = wide
  Narrow = {narrow}
  Wide = {wide}
  OpenTexts <- MCOpenTexts
  MaxLength = 3
  MaxOpens = 2
  MaxChangeSets = 2
  CacheSize = 2
  Standard = {"array", "null-object"}
  MaxObjects = 3
  MaxItems = 3
  MaxNodes = 3
  Letters = {"g", "k"}
  Openings <- MCOpenings
  Snippets <- MCSnippets
  MaxPieces = 4
INVARIANTS
  EditsLand
  RunsWhatItSent
  CancelReachesRun
  TextsAreReadAlike
  SnapshotsAreLossless
PROPERTIES
  EveryCallSettles
  PageAnswersEveryEdit
CHECK_DEADLOCK FALSE
