SPECIFICATION FairSpec
CONSTANTS
  a = a  b = b  d1 = d1  d2 = d2  s1 = s1  r1 = r1  r2 = r2
  NoDocument = NoDocument
  NoSource = NoSource
  Documents = {d1}
  Sources = {a, b}
  Subscriptions = {}
  RunIds = {r1, r2}
  Payloads = {"plain", "malformed", "unpostable"}
  Journals = {TRUE, FALSE}
  MaxSessions = 2
  MaxRevision = 2
  MaxCredit = 1
  MaxChunks = 0
  MaxRuns = 3
INVARIANTS InFlightAccounting
PROPERTIES AcceptedCancelIsFinal PublishesHead JournalCommitsOntoCapturedStore EveryRunIsAnswered
