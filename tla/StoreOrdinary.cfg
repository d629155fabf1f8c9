SPECIFICATION Spec
CONSTANTS
  Procs = {p1, p2}
  c1 = c1
  Tokens = {t1, t2, t3}
  NoFile = NoFile
  NoToken = NoToken
  NoCred = NoCred
  NoSession = NoSession
  HistoryCred <- MCHistoryCred
  Sessions = {s1}
  HistorySessions = {}
  Creds = {c1, c2}
  Tools = {a}
  MaxPending = 1
SYMMETRY Symmetric
CHECK_DEADLOCK FALSE
INVARIANTS
  TypeOK
  OneLiveOwner
  OwnerCurrent
  CredentialBound
PROPERTIES
  OnlyOwnerWrites
  GCSparesRenewed
  ParkedToolsSurviveClaims
