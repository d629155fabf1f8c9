\* Two turns of one session.
SPECIFICATION ExecutorSpec
CONSTANTS
  Procs = {p1}
  c1 = c1
  Tokens = {t1, t2}
  NoFile = NoFile
  NoToken = NoToken
  NoCred = NoCred
  NoSession = NoSession
  NoReq = NoReq
  NoFollowUp = NoFollowUp
  HistoryCred <- MCHistoryCred
  Sessions = {s1}
  HistorySessions = {}
  Creds = {c1}
  Account = c1
  Self = p1
  Tools = {a}
  MaxPending = 1
  Requests = {r1, r2}
  Transcripts = {}
  Starters = {r1, r2}
  Leavers = {r1, r2}
  FollowUps = {NoFollowUp}
  Metering = FALSE
  DeleteCompleted = FALSE
  MayRestart = FALSE
SYMMETRY Symmetric
PROPERTIES
  CancelOnlyOwnTurn
\* The requests are finite in number: when all are done nothing is left to do.
CHECK_DEADLOCK FALSE
