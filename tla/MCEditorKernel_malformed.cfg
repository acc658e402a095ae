SPECIFICATION Spec
CONSTANTS
  a = a  b = b  d1 = d1  d2 = d2  s1 = s1  r1 = r1  r2 = r2
  NoDocument = NoDocument
  NoSource = NoSource
  Documents = {d1}
  Sources = {a}
  Subscriptions = {}
  RunIds = {r1, r2}
  Payloads = {"malformed"}
  Journals = {FALSE}
  MaxSessions = 1
  MaxRevision = 2
  MaxCredit = 1
  MaxChunks = 0
  MaxRuns = 1
INVARIANTS IdleKernelAllowsImport
