SPECIFICATION Spec
CONSTANTS
  Procs = {p1, p2}
  c1 = c1
  Tokens = {t1, t2, t3}
  NoFile = NoFile
  NoToken = NoToken
  NoCred = NoCred
  NoSession = NoSession
  HistoryCred <- MCHistoryCred
  Sessions = {h1}
  HistorySessions = {h1}
  Creds = {c1}
  Tools = {a}
  MaxPending = 1
SYMMETRY Symmetric
CHECK_DEADLOCK FALSE
INVARIANTS
  NoSecondInvocation
