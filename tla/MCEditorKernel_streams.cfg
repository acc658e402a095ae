SPECIFICATION Spec
CONSTANTS
  a = a  b = b  d1 = d1  d2 = d2  s1 = s1  r1 = r1  r2 = r2
  NoDocument = NoDocument
  NoSource = NoSource
  Documents = {d1, d2}
  Sources = {a, b}
  Subscriptions = {s1}
  RunIds = {r1, r2}
  Payloads = {"plain"}
  Journals = {FALSE}
  MaxSessions = 2
  MaxRevision = 2
  MaxCredit = 2
  MaxChunks = 2
  MaxRuns = 2
SYMMETRY Symmetry
INVARIANTS SubscriberInSync HostKnowsBaseline GaplessStream
PROPERTIES CompletionDeliversPaidChunks
