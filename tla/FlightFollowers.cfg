\* Two requests that submit the same result.
SPECIFICATION FairSpec
CONSTANTS
  Procs = {p1}
  c1 = c1
  Tokens = {t1, t2}
  NoFile = NoFile
  NoToken = NoToken
  NoCred = NoCred
  NoSession = NoSession
  NoReq = NoReq
  NoFollowUp = NoFollowUp
  HistoryCred <- MCHistoryCred
  Sessions = {s1}
  HistorySessions = {}
  Creds = {c1}
  Account = c1
  Self = p1
  Tools = {a}
  MaxPending = 1
  Requests = {r1, r2, r3}
  Transcripts = {}
  Starters = {r1}
  Leavers = {}
  FollowUps = {NoFollowUp}
  Metering = FALSE
  DeleteCompleted = FALSE
  MayRestart = FALSE
PROPERTIES
  FollowersAnswered
\* The requests are finite in number: when all are done nothing is left to do.
CHECK_DEADLOCK FALSE
