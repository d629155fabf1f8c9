\* The same results submitted with and without a follow-up.
SPECIFICATION ExecutorSpec
CONSTANTS
  Procs = {p1}
  c1 = c1
  Tokens = {t1}
  NoFile = NoFile
  NoToken = NoToken
  NoCred = NoCred
  NoSession = NoSession
  NoReq = NoReq
  NoFollowUp = NoFollowUp
  HistoryCred <- MCHistoryCred
  Sessions = {s1}
  HistorySessions = {}
  Creds = {c1}
  Account = c1
  Self = p1
  Tools = {a, b}
  MaxPending = 2
  Requests = {r1, r2, r3}
  Transcripts = {}
  Starters = {r1}
  Leavers = {r1, r2, r3}
  FollowUps = {NoFollowUp, f}
  Metering = FALSE
  DeleteCompleted = FALSE
  MayRestart = FALSE
SYMMETRY Symmetric
PROPERTIES
  ResultsStillPending
\* The requests are finite in number: when all are done nothing is left to do.
CHECK_DEADLOCK FALSE
