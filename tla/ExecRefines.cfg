\* The composition against StateStore, with follow-ups, metering, deletion of
\* completed state and restarts.
SPECIFICATION ExecutorSpec
CONSTANTS
  Procs = {p1}
  c1 = c1
  Tokens = {t1, t2}
  NoFile = NoFile
  NoToken = NoToken
  NoCred = NoCred
  NoSession = NoSession
  NoReq = NoReq
  NoFollowUp = NoFollowUp
  HistoryCred <- MCHistoryCred
  Sessions = {s1}
  HistorySessions = {}
  Creds = {c1}
  Account = c1
  Self = p1
  Tools = {a, b}
  MaxPending = 2
  Requests = {r1, r2}
  Transcripts = {}
  Starters = {r1}
  Leavers = {r1}
  FollowUps = {NoFollowUp, f}
  Metering = TRUE
  DeleteCompleted = TRUE
  MayRestart = TRUE
SYMMETRY Symmetric
INVARIANTS
  IdleAfterRelease
PROPERTIES
  ImplementsStore
\* The requests are finite in number: when all are done nothing is left to do.
CHECK_DEADLOCK FALSE
