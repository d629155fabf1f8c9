\* A turn, a result with or without a follow-up, and clients that leave, to the end.
SPECIFICATION FairSpec
CONSTANTS
  Procs = {p1}
  c1 = c1
  Tokens = {t1, t2, t3}
  NoFile = NoFile
  NoToken = NoToken
  NoCred = NoCred
  NoSession = NoSession
  NoReq = NoReq
  NoFollowUp = NoFollowUp
  HistoryCred <- MCHistoryCred
  Sessions = {s1}
  HistorySessions = {}
  Creds = {c1}
  Account = c1
  Self = p1
  Tools = {a}
  MaxPending = 1
  Requests = {r1, r2}
  Transcripts = {r2}
  Starters = {r1}
  Leavers = {r2}
  FollowUps = {NoFollowUp, f}
  Metering = FALSE
  DeleteCompleted = FALSE
  MayRestart = FALSE
PROPERTIES
  RequestsFinish
  OutputsClose
\* The requests are finite in number: when all are done nothing is left to do.
CHECK_DEADLOCK FALSE
