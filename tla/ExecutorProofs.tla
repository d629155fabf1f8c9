--------------------------- MODULE ExecutorProofs ---------------------------
(***************************************************************************)
(* Proofs, for any number of requests, sessions, tokens and tools, that    *)
(* the manager and its requests implement StateStore, that a session whose *)
(* lease is held is not idle and has one run that was not told to stop,    *)
(* that completions are sent after their replay was saved, and that a      *)
(* history request is answered by the model once.                          *)
(*                                                                         *)
(* The inductive invariant says what each request holds at each point of   *)
(* its way (RequestOK), what each run has done (RunOK) and who accounts    *)
(* for each held lease (HeldBy).                                           *)
(***************************************************************************)
EXTENDS Executor, StateStoreProofs

\* The points between Reserve and the end of the reservation, those where a
\* claim belongs to the request, and those of Cancel.
Claiming == {"claiming", "claimed", "launch"}
Reserving == {"claim", "followLookup", "unreserve", "failCold"} \cup Claiming
Canceling == {"cancelDelete", "cancelStop", "cancelRelease"}

\* The points where the request works on a session object, and those after
\* it was given an output.
Following == {"follow", "followAgain", "await", "awaitLast", "followLookup"}
Resuming == {"bind", "resume", "billing", "attach", "push"}
ParkTail == {"parkSave", "parkLand", "parkFail", "parkClose"}
Bound == Resuming \cup ParkTail \cup Canceling
Reading == {"push", "bindCold", "consume", "drain", "drainParked", "rebuffer", "park", "cancel"}
           \cup ParkTail \cup Canceling

\* A session that is not a history key.
Ordinary(s) == s \in Sessions \ HistorySessions

\* Where a request is: its session, and where it goes on afterwards.
Where(q) ==
    /\ q.pc \notin {"idle", "begin", "wait", "resolve", "lookup", "fail", "fallback", "done"}
       => q.s \in Sessions
    /\ q.mode # "start" => Ordinary(q.s)
    /\ q.pc = "lookup" => Ordinary(q.s) \/ q.s = NoSession
    /\ q.pc \in {"active", "cold", "launch", "failCold"} \cup Following \cup Resuming \cup ParkTail
       => Ordinary(q.s)
    /\ q.pc = "fail" => q.then \in {"done", "fallback"}
    /\ q.pc \in {"failCold", "unreserve"} =>
         /\ q.then \in {"done", "fallback", "start", "awaitLast"}
         /\ q.then = "awaitLast" => Ordinary(q.s)
    /\ q.pc \in {"park"} \cup ParkTail => q.then \in {"done", "drainParked"}
    /\ q.pc \in {"begin", "resolve", "lookup", "active", "cold", "bind", "resume", "billing", "attach"}
       => q.then = "done"
    /\ q.pc = "wait" => q.lead # NoReq
    /\ q.pc = "idle" => q = IdleReq
    /\ q.pc \in {"begin", "resolve"} => q.s = NoSession

\* What request r holds.
RequestHolds(r) ==
    LET q == req[r] IN
    /\ q.pc \in Reserving => q.s \in starting
    /\ q.pc \in Claiming =>
         /\ q.run \in Tokens /\ lease[q.run].session = q.s /\ run[q.run].ph = "none"
         /\ lease[q.run].st = IF q.pc = "claiming" THEN "claiming" ELSE "owned"
    /\ q.pc = "claimed" => file[q.s] # NoFile
    /\ q.pc \in Bound =>
         q.run \in Tokens /\ lease[q.run].session = q.s /\ run[q.run].ph # "none"
    /\ q.pc = "cancelRelease" => run[q.run].cancelled
    /\ q.pc \in Reading => out[r].s = q.s

\* The output of a history request has no turn boundary and is never replaced.
HistoryOutput(r) ==
    out[r].s \in HistorySessions =>
        /\ req[r].pc \in {"consume", "cancel", "done"} \cup Canceling
        /\ ~out[r].turn

\* No run has an output of a request that has not begun, or of a history
\* request that has not started its run.
NotStarted(q) ==
    \/ q.pc = "idle"
    \/ /\ q.s \in HistorySessions
       /\ q.pc \in {"start", "reserve", "claim", "claiming", "claimed", "unreserve"}
NoOutput(r) == NotStarted(req[r]) => \A t \in Tokens : run[t].out # r /\ run[t].last # r

RequestOK(r) == Where(req[r]) /\ RequestHolds(r) /\ HistoryOutput(r) /\ NoOutput(r)

\* A run of a history key writes to outputs of that key, others do not.
SameKey(s, u) == s = u \/ (s \notin HistorySessions /\ u \notin HistorySessions)

\* A run that went on after saving, without an error, has saved its answer.
AnswerSaved(t) ==
    IF lease[t].session \in HistorySessions
    THEN history[lease[t].session] = t
    ELSE run[t].seg # {} =>
            \E c \in completed : c.batch = run[t].seg /\ c.fu = run[t].fu

RunOK(t) ==
    LET m == run[t]
        s == lease[t].session
    IN  m.ph # "none" =>
        /\ lease[t].st \in {"owned", "released"}
        /\ m.ph \in {"retiring", "delivering", "gone"} => lease[t].st = "released"
        /\ m.ph = "running" /\ ~m.cancelled => lease[t].st = "owned"
        /\ m.ph \in {"saving", "landing", "deleting", "releasing", "retiring", "delivering"}
           => m.closed
        /\ s \in HistorySessions => m.up = {} /\ m.queue = {} /\ m.seg = {}
        /\ m.out # NoReq => SameKey(out[m.out].s, s)
        /\ m.last # NoReq => SameKey(out[m.last].s, s)
        /\ m.ph \in {"landing", "deleting", "releasing", "retiring", "delivering"} /\ ~m.err
           => AnswerSaved(t)

\* A reservation belongs to one request.
ReservedOnce ==
    \A r, q \in Requests :
        req[r].pc \in Reserving /\ req[q].pc \in Reserving /\ req[r].s = req[q].s => r = q

ActiveOK ==
    \A s \in Sessions : active[s] # NoToken =>
        lease[active[s]].session = s /\ run[active[s]].ph # "none"

\* A held lease is of this process, and of the active session, a request that
\* starts one, or a Cancel that took it.
HeldBy(t) ==
    Holds(t) =>
        /\ lease[t].proc = Self
        /\ \/ active[lease[t].session] = t
           \/ \E r \in Requests : req[r].pc \in Claiming \cup Canceling /\ req[r].run = t

\* History keys have no parked tools, replays or flights.
HistoryApart ==
    /\ \A s \in HistorySessions : file[s] # NoFile => file[s].pending = {}
    /\ \A c \in completed : Ordinary(c.s)
    /\ \A r \in Requests : flight[r].st = "replay" => Ordinary(flight[r].s)

\* The completion of a history request came from the run whose snapshot is
\* stored, and that run is over.
HistoryDone(r) ==
    out[r].done /\ out[r].s \in HistorySessions =>
        /\ history[out[r].s] \in Tokens
        /\ run[history[out[r].s]].ph = "gone"

MInv ==
    /\ ManagerTypeOK
    /\ \A r \in Requests : RequestOK(r)
    /\ \A t \in Tokens : RunOK(t)
    /\ ReservedOnce /\ ActiveOK
    /\ \A t \in Tokens : HeldBy(t)
    /\ HistoryApart
    /\ \A r \in Requests : HistoryDone(r)

EInv == IInv /\ MInv

-----------------------------------------------------------------------------
(***************************************************************************)
(* What a step leaves to the requests and runs that take no part in it.    *)
(***************************************************************************)
\* Where Goto leaves the record of a request.
At(q, label) == IF label = "done" THEN [IdleReq EXCEPT !.pc = "done"] ELSE [q EXCEPT !.pc = label]

LEMMA AtIs ==
    ASSUME NEW q \in Req, NEW label \in Labels
    PROVE  /\ At(q, label) \in Req /\ At(q, label).pc = label
           /\ label # "done" => /\ At(q, label).s = q.s /\ At(q, label).run = q.run
                                /\ At(q, label).mode = q.mode /\ At(q, label).then = q.then
                                /\ At(q, label).batch = q.batch /\ At(q, label).fu = q.fu
                                /\ At(q, label).seg = q.seg /\ At(q, label).took = q.took
           /\ label = "done" => At(q, label).mode = "start" /\ At(q, label).s = NoSession
<1>1. IdleReq \in Req
  BY ManagerAssumption DEF IdleReq, Req, Labels
<1> QED BY <1>1 DEF At, Req, IdleReq

LEMMA GotoIs ==
    ASSUME NEW r \in Requests, NEW label
    PROVE  Goto(r, label) = [req EXCEPT ![r] = At(req[r], label)]
BY DEF Goto, At

\* Request q takes no part in the step.
KeepsRequest(q) ==
    /\ req'[q] = req[q]
    /\ out'[q].s = out[q].s /\ (out[q].s \in HistorySessions => out'[q].turn = out[q].turn)
    /\ req[q].pc \in Reserving => req[q].s \in starting'
    /\ req[q].pc \in Claiming => /\ lease'[req[q].run].session = lease[req[q].run].session
                                 /\ lease'[req[q].run].st = lease[req[q].run].st
                                 /\ run'[req[q].run].ph = "none"
    /\ req[q].pc = "claimed" => file'[req[q].s] # NoFile
    /\ req[q].pc \in Bound => /\ lease'[req[q].run].session = lease[req[q].run].session
                              /\ run'[req[q].run].ph # "none"
    /\ req[q].pc = "cancelRelease" => run'[req[q].run].cancelled
    /\ \A t \in Tokens : run'[t].out \in {run[t].out, NoReq} \/ run'[t].out # q
    /\ \A t \in Tokens : run'[t].last \in {run[t].out, run[t].last, NoReq} \/ run'[t].last # q

LEMMA RequestKept ==
    ASSUME NEW q \in Requests, RequestOK(q), KeepsRequest(q) PROVE RequestOK(q)'
<1>1. Where(req[q])' /\ RequestHolds(q)'
  BY DEF RequestOK, KeepsRequest, Where, RequestHolds
<1>2. HistoryOutput(q)'
  BY DEF RequestOK, KeepsRequest, HistoryOutput
<1>3. NoOutput(q)'
  BY ManagerAssumption DEF RequestOK, KeepsRequest, NoOutput, NotStarted
<1> QED BY <1>1, <1>2, <1>3 DEF RequestOK

\* Run u takes no part in the step.
KeepsRun(u) ==
    /\ run'[u].ph = run[u].ph /\ run'[u].closed = run[u].closed
    /\ run'[u].cancelled = run[u].cancelled /\ run'[u].err = run[u].err
    /\ run'[u].out = run[u].out /\ run'[u].last = run[u].last
    /\ run'[u].up = run[u].up /\ run'[u].seg = run[u].seg /\ run'[u].fu = run[u].fu
    /\ run'[u].queue = run[u].queue \/ lease[u].session \notin HistorySessions
    /\ run[u].ph # "none" => lease'[u] = lease[u]

\* Snapshots and replays that are stored stay stored.
KeepsAnswers ==
    /\ \A s \in Sessions : history[s] # NoToken => history'[s] = history[s]
    /\ \A c \in completed : \E d \in completed' : d.batch = c.batch /\ d.fu = c.fu

LEMMA RunKept ==
    ASSUME EInv, NEW u \in Tokens, KeepsRun(u), KeepsAnswers,
           \A q \in Requests : q \in {run[u].out, run[u].last} /\ run[u].ph # "none"
                               => SameKey(out'[q].s, out[q].s)
    PROVE  RunOK(u)'
<1> SUFFICES ASSUME run[u].ph # "none" PROVE RunOK(u)'
  BY DEF RunOK, KeepsRun
<1>1. RunOK(u) /\ run[u] \in Run /\ lease'[u] = lease[u]
  BY DEF EInv, MInv, ManagerTypeOK, KeepsRun
<1>2. lease[u].session \in Sessions
  BY <1>1, HeldIsLease DEF EInv, IInv, RunOK, Lease
<1>3. AnswerSaved(u) => AnswerSaved(u)'
  <2>1. CASE lease[u].session \in HistorySessions
    BY <1>1, <1>2, <2>1, ConstantsAssumption DEF AnswerSaved, KeepsAnswers
  <2>2. CASE lease[u].session \notin HistorySessions
    BY <1>1, <2>2 DEF AnswerSaved, KeepsAnswers, KeepsRun
  <2> QED BY <2>1, <2>2
<1>4. /\ run[u].out # NoReq => run[u].out \in Requests /\ SameKey(out'[run[u].out].s, lease[u].session)
      /\ run[u].last # NoReq => run[u].last \in Requests /\ SameKey(out'[run[u].last].s, lease[u].session)
  BY <1>1 DEF Run, RunOK, SameKey
<1> HIDE DEF AnswerSaved, SameKey
<1> QED BY <1>1, <1>3, <1>4 DEF RunOK, KeepsRun

\* A step of request r that leaves leases, reservations, outputs and replays
\* alone, and changes at most the flight or the queued results of a run.
LEMMA RequestMoves ==
    ASSUME EInv, IInv', NEW r \in Requests, NEW n \in Req, req' = [req EXCEPT ![r] = n],
           UNCHANGED <<lease, history, active, starting, out, completed, issued>>,
           \A s \in Sessions : file[s] # NoFile => file'[s] # NoFile,
           \A s \in HistorySessions : file'[s] # NoFile => file'[s].pending = {},
           flight' \in [Requests -> Flight],
           \A q \in Requests : flight'[q].st = "replay" => Ordinary(flight'[q].s),
           run' \in [Tokens -> Run], \A u \in Tokens : KeepsRun(u),
           Where(n), RequestHolds(r)', HistoryOutput(r)', NotStarted(n) => NotStarted(req[r]),
           n.pc \in Reserving => req[r].pc \in Reserving /\ n.s = req[r].s,
           req[r].pc \in Claiming \cup Canceling =>
              n.pc \in Claiming \cup Canceling /\ n.run = req[r].run
    PROVE  EInv'
<1>1. MInv /\ ManagerTypeOK
  BY DEF EInv, MInv
<1>2. req'[r] = n /\ \A q \in Requests : q # r => req'[q] = req[q]
  BY <1>1 DEF ManagerTypeOK
<1>3. ManagerTypeOK'
  BY <1>1 DEF ManagerTypeOK
<1>4. \A u \in Tokens : /\ run'[u].ph = run[u].ph /\ run'[u].cancelled = run[u].cancelled
                        /\ run'[u].out = run[u].out /\ run'[u].last = run[u].last
  BY DEF KeepsRun
<1>5. ASSUME NEW q \in Requests PROVE RequestOK(q)'
  <2>1. RequestOK(q)
    BY <1>1 DEF MInv
  <2>2. CASE q # r
    <3>1. req[q].pc \in Claiming \cup Bound => req[q].run \in Tokens
      BY <2>1 DEF RequestOK, RequestHolds
    <3>2. req[q].pc = "claimed" => file'[req[q].s] # NoFile
      BY <2>1 DEF RequestOK, RequestHolds, Where
    <3>3. KeepsRequest(q)
      BY <1>2, <1>4, <2>1, <2>2, <3>1, <3>2 DEF KeepsRequest, RequestOK, RequestHolds, Bound, Canceling
    <3> QED BY <2>1, <3>3, RequestKept
  <2>3. CASE q = r
    <3>1. NoOutput(r)'
      BY <1>2, <1>4, <2>1, <2>3 DEF RequestOK, NoOutput, NotStarted
    <3> QED BY <1>2, <2>3, <3>1 DEF RequestOK, Where
  <2> QED BY <2>2, <2>3
<1>6. \A u \in Tokens : RunOK(u)'
  BY RunKept DEF KeepsAnswers, SameKey
<1>7. ReservedOnce'
  BY <1>1, <1>2 DEF MInv, ReservedOnce
<1>8. ActiveOK'
  BY <1>1, <1>4 DEF MInv, ActiveOK, ManagerTypeOK
<1>9. ASSUME NEW u \in Tokens PROVE HeldBy(u)'
  BY <1>1, <1>2 DEF MInv, HeldBy, Holds
<1>10. HistoryApart'
  BY <1>1 DEF MInv, HistoryApart
<1>11. ASSUME NEW q \in Requests PROVE HistoryDone(q)'
  BY <1>1, <1>4 DEF MInv, HistoryDone
<1> QED BY <1>3, <1>5, <1>6, <1>7, <1>8, <1>9, <1>10, <1>11 DEF EInv, MInv

\* A step of run t, which may give up its lease and the id, write to outputs
\* and save its answer.
LEMMA RunMoves ==
    ASSUME EInv, IInv', NEW t \in Tokens, run[t].ph \notin {"none", "gone"},
           NEW n \in Run, run' = [run EXCEPT ![t] = n], n.ph # "none",
           run[t].cancelled => n.cancelled,
           n.out \in {run[t].out, NoReq}, n.last \in {run[t].out, run[t].last, NoReq},
           UNCHANGED <<req, starting>>, RunOK(t)',
           \A u \in Tokens : u # t => lease'[u] = lease[u],
           lease'[t].session = lease[t].session, lease'[t].proc = lease[t].proc,
           lease'[t].st \in {lease[t].st, "released"},
           active' \in [Sessions -> Tokens \cup {NoToken}],
           \A s \in Sessions : active'[s] = active[s] \/
              (active[s] = t /\ active'[s] = NoToken /\ lease'[t].st = "released"),
           out' \in [Requests -> Out],
           \A q \in Requests :
              /\ out'[q].s = out[q].s
              /\ out[q].s \in HistorySessions =>
                   /\ out'[q].turn = out[q].turn
                   /\ out'[q].done => out[q].done \/ (history'[out[q].s] = t /\ n.ph = "gone"),
           KeepsAnswers, completed' \subseteq Completed, \A c \in completed' : Ordinary(c.s),
           issued' \subseteq Tools,
           \A s \in Sessions : file'[s] = file[s] \/ (s = lease[t].session /\ lease[t].st = "owned"),
           \A s \in HistorySessions : file'[s] # NoFile => file'[s].pending = {},
           flight' \in [Requests -> Flight],
           \A q \in Requests : flight'[q].st = "replay" => Ordinary(flight'[q].s)
    PROVE  EInv'
<1>1. MInv /\ ManagerTypeOK
  BY DEF EInv, MInv
<1>2. run'[t] = n /\ \A u \in Tokens : u # t => run'[u] = run[u]
  BY <1>1 DEF ManagerTypeOK
<1>3. ManagerTypeOK'
  BY <1>1 DEF ManagerTypeOK
<1>4. ASSUME NEW q \in Requests PROVE RequestOK(q)'
  <2>1. RequestOK(q) /\ req[q] \in Req
    BY <1>1 DEF MInv, ManagerTypeOK
  <2>2. req[q].pc \in Claiming => req[q].run \in Tokens /\ req[q].run # t
    BY <2>1 DEF RequestOK, RequestHolds
  <2>3. req[q].pc \in Bound => req[q].run \in Tokens /\ run[req[q].run].ph # "none"
    BY <2>1 DEF RequestOK, RequestHolds
  <2>4. \A u \in Tokens : run'[u].out \in {run[u].out, NoReq}
                          /\ run'[u].last \in {run[u].out, run[u].last, NoReq}
    BY <1>2
  <2>5. KeepsRequest(q)
    <3>1. req[q].pc \in Reserving => req[q].s \in starting'
      BY <2>1 DEF RequestOK, RequestHolds
    <3>2. req[q].pc \in Claiming => /\ lease'[req[q].run].session = lease[req[q].run].session
                                    /\ lease'[req[q].run].st = lease[req[q].run].st
                                    /\ run'[req[q].run].ph = "none"
      BY <1>2, <2>1, <2>2 DEF RequestOK, RequestHolds
    <3>3. req[q].pc \in Bound => /\ lease'[req[q].run].session = lease[req[q].run].session
                                 /\ run'[req[q].run].ph # "none"
      BY <1>2, <2>3
    <3>4. req[q].pc = "cancelRelease" => run'[req[q].run].cancelled
      BY <1>2, <2>1, <2>3 DEF RequestOK, RequestHolds, Bound, Canceling
    <3>5. req[q].pc = "claimed" => file'[req[q].s] # NoFile
      <4> SUFFICES ASSUME req[q].pc = "claimed" PROVE file'[req[q].s] # NoFile
        OBVIOUS
      <4>1. /\ req[q].run \in Tokens \ {t} /\ lease[req[q].run].st = "owned"
            /\ lease[req[q].run].session = req[q].s /\ file[req[q].s] # NoFile /\ req[q].s \in Sessions
        BY <2>1, <2>2 DEF RequestOK, RequestHolds, Where, Claiming
      <4>2. OneLiveOwner
        BY LockHeldUnique DEF EInv, IInv
      <4> QED BY <4>1, <4>2 DEF OneLiveOwner, Holds
    <3> QED BY <2>4, <3>1, <3>2, <3>3, <3>4, <3>5 DEF KeepsRequest
  <2> QED BY <2>1, <2>5, RequestKept
<1>5. ASSUME NEW u \in Tokens PROVE RunOK(u)'
  <2>1. CASE u # t
    <3>1. KeepsRun(u)
      BY <1>2, <2>1 DEF KeepsRun
    <3> QED BY <3>1, RunKept DEF SameKey
  <2> QED BY <2>1
<1>6. ReservedOnce'
  BY <1>1 DEF MInv, ReservedOnce
<1>7. ActiveOK'
  BY <1>1, <1>2 DEF MInv, ActiveOK, ManagerTypeOK
<1>8. ASSUME NEW u \in Tokens PROVE HeldBy(u)'
  <2> SUFFICES ASSUME Holds(u)' PROVE HeldBy(u)'
    BY DEF HeldBy
  <2>1. Holds(u) /\ lease'[u].session = lease[u].session /\ lease'[u].proc = lease[u].proc
    BY DEF Holds
  <2>2. HeldBy(u)
    BY <1>1 DEF MInv
  <2>3. lease[u].session \in Sessions
    BY <2>1, HeldIsLease DEF Holds, EInv, IInv, Lease
  <2>4. active[lease[u].session] = u => active'[lease[u].session] = u
    BY <2>3 DEF Holds
  <2> QED BY <2>1, <2>2, <2>4 DEF HeldBy
<1>9. HistoryApart'
  BY DEF HistoryApart
<1>10. ASSUME NEW q \in Requests PROVE HistoryDone(q)'
  <2> SUFFICES ASSUME out'[q].done, out[q].s \in HistorySessions
               PROVE  history'[out[q].s] \in Tokens /\ run'[history'[out[q].s]].ph = "gone"
    BY DEF HistoryDone
  <2>1. CASE out[q].done
    <3>1. history[out[q].s] \in Tokens /\ run[history[out[q].s]].ph = "gone" /\ out[q].s \in Sessions
      BY <1>1, <2>1, ConstantsAssumption DEF MInv, HistoryDone
    <3>2. history'[out[q].s] = history[out[q].s] /\ history[out[q].s] # t
      BY <3>1, ConstantsAssumption DEF KeepsAnswers
    <3> QED BY <1>2, <3>1, <3>2
  <2>2. CASE ~out[q].done
    BY <1>2, <2>2
  <2> QED BY <2>1, <2>2
<1> QED BY <1>3, <1>4, <1>5, <1>6, <1>7, <1>8, <1>9, <1>10 DEF EInv, MInv

-----------------------------------------------------------------------------
(***************************************************************************)
(* Steps of a request between its critical sections.                       *)
(***************************************************************************)
\* Request r may go on as n while it neither holds a claim nor cancels.
Moves(r, n) ==
    /\ n \in Req /\ Where(n)
    /\ req[r].pc \notin Claiming \cup Canceling /\ n.pc \notin Claiming \cup Canceling
    /\ n.pc \in Reserving => req[r].pc \in Reserving /\ n.s = req[r].s
    /\ n.pc \in Bound => n.run \in Tokens /\ lease[n.run].session = n.s /\ run[n.run].ph # "none"
    /\ n.pc \in Reading => out[r].s = n.s
    /\ out[r].s \in HistorySessions => n.pc \in {"consume", "cancel", "done"}
    /\ NotStarted(n) => NotStarted(req[r])

LEMMA MovesKeep ==
    ASSUME EInv, IInv', NEW r \in Requests, NEW n, Moves(r, n), req' = [req EXCEPT ![r] = n],
           UNCHANGED <<lease, history, active, starting, out, completed, issued>>,
           \A s \in Sessions : file[s] # NoFile => file'[s] # NoFile,
           \A s \in HistorySessions : file'[s] # NoFile => file'[s].pending = {},
           flight' \in [Requests -> Flight],
           \A q \in Requests : flight'[q].st = "replay" => Ordinary(flight'[q].s),
           run' \in [Tokens -> Run], \A u \in Tokens : KeepsRun(u)
    PROVE  EInv'
<1>1. RequestOK(r) /\ req'[r] = n
  BY DEF EInv, MInv, ManagerTypeOK
<1>2. RequestHolds(r)'
  <2>1. n.pc \in Reserving => n.s \in starting'
    BY <1>1 DEF Moves, RequestOK, RequestHolds
  <2>2. n.pc \in Bound => /\ n.run \in Tokens /\ lease'[n.run].session = n.s
                          /\ run'[n.run].ph # "none"
    BY DEF Moves, KeepsRun
  <2> QED BY <1>1, <2>1, <2>2 DEF RequestHolds, Moves, Canceling, Claiming
<1>3. HistoryOutput(r)'
  BY <1>1 DEF RequestOK, HistoryOutput, Moves
<1> QED BY <1>1, <1>2, <1>3, RequestMoves DEF Moves

\* The variables a step between critical sections leaves alone.
Elsewhere == <<vars, active, starting, run, flight, out, completed, issued>>

LEMMA StoreQuiet == ASSUME EInv, UNCHANGED vars PROVE IInv'
BY NextIStep DEF EInv

LEMMA QuietMoves ==
    ASSUME EInv, NEW r \in Requests, NEW n, Moves(r, n), req' = [req EXCEPT ![r] = n],
           UNCHANGED Elsewhere
    PROVE  EInv'
<1>1. IInv' /\ UNCHANGED <<vars, active, starting, run, flight, out, completed, issued>>
  BY StoreQuiet DEF Elsewhere
<1>2. MInv /\ ManagerTypeOK /\ HistoryApart
  BY DEF EInv, MInv
<1>3. \A u \in Tokens : KeepsRun(u)
  BY <1>1 DEF KeepsRun, vars
<1> QED BY <1>1, <1>2, <1>3, MovesKeep DEF ManagerTypeOK, HistoryApart, vars

LEMMA RequestIs ==
    ASSUME EInv, NEW r \in Requests
    PROVE  /\ req[r] \in Req /\ Where(req[r]) /\ RequestHolds(r) /\ HistoryOutput(r)
           /\ ~(NoSession \in Sessions) /\ HistorySessions \subseteq Sessions
BY ConstantsAssumption DEF EInv, MInv, ManagerTypeOK, RequestOK

LEMMA StartLookupStep == ASSUME EInv, NEW r \in Requests, StartLookup(r) PROVE EInv'
<1> DEFINE label == IF history[req[r].s] # NoToken THEN "done" ELSE "reserve"
           n == At(req[r], label)
<1>1. req' = [req EXCEPT ![r] = n] /\ UNCHANGED Elsewhere /\ req[r].pc = "start"
  BY GotoIs DEF StartLookup, Elsewhere
<1>2. label \in {"done", "reserve"} /\ label \in Labels
  BY DEF Labels
<1> HIDE DEF label
<1>3. Moves(r, n)
  BY <1>1, <1>2, AtIs, RequestIs DEF Moves, Where, Following, HistoryOutput, NotStarted, Ordinary,
     Claiming, Reserving, Canceling, Bound, Resuming, ParkTail, Reading
<1> QED BY <1>1, <1>3, QuietMoves

\* Where a request goes with nothing in hand, but for its session.
LEMMA GotoMoves ==
    ASSUME EInv, NEW r \in Requests, req[r].pc \notin Claiming \cup Canceling,
           NEW label \in Labels \ (Claiming \cup Canceling),
           label # "done" => Where(At(req[r], label)),
           label \in Reserving => req[r].pc \in Reserving,
           label \in Bound => req[r].pc \in Bound,
           label \in Reading => req[r].pc \in Reading,
           out[r].s \in HistorySessions => label \in {"consume", "cancel", "done"},
           label \in {"start", "reserve"} => NotStarted(req[r]) \/ req[r].s \notin HistorySessions,
           label \in {"claim", "unreserve"} => NotStarted(req[r]) \/ req[r].s \notin HistorySessions,
           label # "idle"
    PROVE  Moves(r, At(req[r], label))
<1> DEFINE n == At(req[r], label)
<1>1. /\ n \in Req /\ n.pc = label
      /\ label # "done" => n.s = req[r].s /\ n.run = req[r].run
      /\ label = "done" => n.mode = "start" /\ n.s = NoSession
  BY AtIs, RequestIs
<1> HIDE DEF n
<1>2. CASE label = "done"
  <2>1. Where(n)
    BY <1>1, <1>2 DEF Where, Following, Resuming, ParkTail
  <2>2. ~NotStarted(n)
    BY <1>1, <1>2, RequestIs DEF NotStarted
  <2>3. n.pc \notin Reserving \cup Bound \cup Reading
    BY <1>1, <1>2 DEF Claiming, Reserving, Canceling, Bound, Resuming, ParkTail, Reading
  <2> QED BY <1>1, <1>2, <2>1, <2>2, <2>3 DEF Moves, n
<1>3. CASE label # "done"
  <2>1. label \in Bound => n.run \in Tokens /\ lease[n.run].session = n.s /\ run[n.run].ph # "none"
    BY <1>1, <1>3, RequestIs DEF RequestHolds
  <2>2. label \in Reading => out[r].s = n.s
    BY <1>1, <1>3, RequestIs DEF RequestHolds
  <2>3. NotStarted(n) => NotStarted(req[r])
    BY <1>1, <1>3 DEF NotStarted, Claiming
  <2> QED BY <1>1, <1>3, <2>1, <2>2, <2>3 DEF Moves, n
<1> QED BY <1>2, <1>3 DEF n

LEMMA ReserveElseStep ==
    ASSUME EInv, NEW r \in Requests, Reserve(r), req' = Goto(r, ReserveElse(r)), starting' = starting
    PROVE  EInv'
<1> DEFINE label == ReserveElse(r)
<1>1. req' = [req EXCEPT ![r] = At(req[r], label)] /\ UNCHANGED Elsewhere
      /\ req[r].pc \in {"reserve", "cold", "follow", "followAgain"}
  BY GotoIs DEF Reserve, Elsewhere
<1>2. /\ req[r].pc = "reserve" => label \in {"start", "done"}
      /\ req[r].pc = "cold" => label = "fail"
      /\ req[r].pc \in {"follow", "followAgain"} => label \in {"await", "awaitLast"}
      /\ label \in Labels
  BY <1>1 DEF ReserveElse, Labels
<1> HIDE DEF label
<1>3. req[r].pc \notin Claiming \cup Canceling /\ label \notin Claiming \cup Canceling
      /\ label \notin Reserving \cup Bound \cup Reading /\ label # "idle"
  BY <1>1, <1>2 DEF Claiming, Reserving, Canceling, Bound, Resuming, ParkTail, Reading
<1>4. label # "done" => Where(At(req[r], label))
  BY <1>1, <1>2, AtIs, RequestIs DEF Where, Following, Resuming, ParkTail
<1>5. out[r].s \in HistorySessions => label = "done"
  BY <1>1, RequestIs DEF HistoryOutput, Canceling
<1>6. label \in {"start", "reserve"} => NotStarted(req[r]) \/ req[r].s \notin HistorySessions
  BY <1>1, <1>2 DEF NotStarted
<1>7. Moves(r, At(req[r], label))
  BY <1>2, <1>3, <1>4, <1>5, <1>6, GotoMoves DEF Reserving
<1> QED BY <1>1, <1>7, QuietMoves

\* The record of a request that gives up its claim.
GivesUp(q, next) ==
    [q EXCEPT !.pc = IF q.mode = "cold" THEN "failCold" ELSE "unreserve", !.then = next]

LEMMA GivesUpIs ==
    ASSUME NEW q \in Req, NEW next \in Labels
    PROVE  /\ GivesUp(q, next) \in Req /\ GivesUp(q, next).pc \in {"failCold", "unreserve"}
           /\ GivesUp(q, next).then = next /\ GivesUp(q, next).s = q.s
           /\ GivesUp(q, next).mode = q.mode /\ GivesUp(q, next).run = q.run
           /\ q.mode # "cold" => GivesUp(q, next).pc = "unreserve"
           /\ q.mode = "cold" => GivesUp(q, next).pc = "failCold"
<1> DEFINE label == IF q.mode = "cold" THEN "failCold" ELSE "unreserve"
<1>1. label \in Labels /\ label \in {"failCold", "unreserve"}
  BY DEF Labels
<1>2. GivesUp(q, next) = [q EXCEPT !.pc = label, !.then = next]
  BY DEF GivesUp
<1> HIDE DEF label
<1>3. /\ GivesUp(q, next) \in Req /\ GivesUp(q, next).pc = label
      /\ GivesUp(q, next).then = next /\ GivesUp(q, next).s = q.s
      /\ GivesUp(q, next).mode = q.mode /\ GivesUp(q, next).run = q.run
  BY <1>1, <1>2 DEF Req
<1> QED BY <1>1, <1>3 DEF label

LEMMA GiveUpClaimIs ==
    ASSUME EInv, NEW r \in Requests, NEW next
    PROVE  GiveUpClaim(r, next) = [req EXCEPT ![r] = GivesUp(req[r], next)]
BY DEF GiveUpClaim, GivesUp, EInv, MInv, ManagerTypeOK

LEMMA ClaimHeldStep == ASSUME EInv, NEW r \in Requests, ClaimHeld(r) PROVE EInv'
<1> DEFINE next == CASE req[r].mode = "follow" -> "awaitLast"
                     [] req[r].s \in HistorySessions -> "start"
                     [] OTHER -> "done"
           n == GivesUp(req[r], next)
<1>1. req' = [req EXCEPT ![r] = n] /\ UNCHANGED Elsewhere /\ req[r].pc = "claim"
  BY GiveUpClaimIs DEF ClaimHeld, Elsewhere
<1>2. next \in {"awaitLast", "start", "done"} /\ next \in Labels
      /\ (next = "awaitLast" => req[r].mode = "follow")
  BY DEF Labels
<1> HIDE DEF next
<1>3. Moves(r, n)
  BY <1>1, <1>2, GivesUpIs, RequestIs DEF Moves, Where, Following, HistoryOutput, NotStarted, Ordinary,
     Claiming, Reserving, Canceling, Bound, Resuming, ParkTail, Reading
<1> QED BY <1>1, <1>3, QuietMoves

\* A replay that answers a request ends it, or is followed by its follow-up.
Answered(q, s, batch, fu, more) ==
    IF q.fu = NoFollowUp \/ fu # NoFollowUp \/ more THEN At(q, "done")
    ELSE [q EXCEPT !.pc = "follow", !.mode = "follow", !.s = s, !.batch = batch]

LEMMA ReplayedIs ==
    ASSUME EInv, NEW r \in Requests, NEW s, NEW batch, NEW fu, NEW more
    PROVE  Replayed(r, s, batch, fu, more) = [req EXCEPT ![r] = Answered(req[r], s, batch, fu, more)]
BY GotoIs DEF Replayed, Answered, EInv, MInv, ManagerTypeOK

LEMMA ReplayedMoves ==
    ASSUME EInv, NEW r \in Requests, req[r].pc \in {"wait", "lookup"},
           NEW s, Ordinary(s), NEW batch \in SUBSET Tools, NEW fu, NEW more
    PROVE  Moves(r, Answered(req[r], s, batch, fu, more))
<1>1. CASE req[r].fu = NoFollowUp \/ fu # NoFollowUp \/ more
  <2>1. Moves(r, At(req[r], "done"))
    BY GotoMoves DEF Labels, Claiming, Reserving, Canceling, Bound, Resuming, ParkTail, Reading
  <2> QED BY <1>1, <2>1 DEF Answered
<1>2. CASE ~(req[r].fu = NoFollowUp \/ fu # NoFollowUp \/ more)
  <2> DEFINE n == [req[r] EXCEPT !.pc = "follow", !.mode = "follow", !.s = s, !.batch = batch]
  <2>1. Answered(req[r], s, batch, fu, more) = n
    BY <1>2 DEF Answered
  <2>2. n \in Req /\ n.pc = "follow" /\ n.s = s /\ n.mode = "follow"
    <3>1. "follow" \in Labels
      BY DEF Labels
    <3>2. req[r] \in Req /\ s \in Sessions
      BY RequestIs DEF Ordinary
    <3> QED BY <3>1, <3>2 DEF Req
  <2> HIDE DEF n
  <2>3. Moves(r, n)
    BY <2>2, RequestIs DEF Moves, Where, Following, HistoryOutput, NotStarted, Ordinary,
       Claiming, Reserving, Canceling, Bound, Resuming, ParkTail, Reading
  <2> QED BY <2>1, <2>3
<1> QED BY <1>1, <1>2

LEMMA FlightIs ==
    ASSUME EInv, NEW q \in Requests
    PROVE  flight[q] \in Flight /\ (flight[q].st = "replay" => Ordinary(flight[q].s))
BY DEF EInv, MInv, ManagerTypeOK, HistoryApart

LEMMA FlightWaitedStep == ASSUME EInv, NEW r \in Requests, FlightWaited(r) PROVE EInv'
<1> DEFINE f == flight[req[r].lead]
           label == IF f.st = "error" THEN "done" ELSE "fallback"
<1>1. UNCHANGED Elsewhere /\ req[r].pc = "wait"
  BY DEF FlightWaited, Elsewhere
<1>2. CASE f.st \in {"error", "notPending"} /\ req' = Goto(r, label)
  <2>1. req' = [req EXCEPT ![r] = At(req[r], label)]
    BY <1>2, GotoIs
  <2>2. label \in {"done", "fallback"}
    OBVIOUS
  <2> HIDE DEF label
  <2>3. Moves(r, At(req[r], label))
    BY <1>1, <2>2, AtIs, RequestIs DEF Moves, Where, Following, HistoryOutput, NotStarted, Ordinary, Labels,
       Claiming, Reserving, Canceling, Bound, Resuming, ParkTail, Reading
  <2> QED BY <1>1, <2>1, <2>3, QuietMoves
<1>3. CASE f.st = "replay" /\ req' = Replayed(r, f.s, f.batch, f.ofFu, f.more)
  <2>1. req[r].lead \in Requests
    BY <1>1, <1>3, RequestIs DEF Where, Req
  <2>2. Ordinary(f.s) /\ f.batch \in SUBSET Tools
    BY <1>3, <2>1, FlightIs DEF Flight
  <2> DEFINE n == Answered(req[r], f.s, f.batch, f.ofFu, f.more)
  <2>3. req' = [req EXCEPT ![r] = n]
    BY <1>3, ReplayedIs
  <2>4. Moves(r, n)
    <3> HIDE DEF f
    <3> QED BY <1>1, <2>2, ReplayedMoves
  <2> QED BY <1>1, <2>3, <2>4, QuietMoves
<1> QED BY <1>2, <1>3 DEF FlightWaited

\* A request that goes on somewhere between the critical sections.
LEMMA FreeMoves ==
    ASSUME EInv, NEW r \in Requests, req[r].pc \notin Claiming \cup Canceling,
           NEW n \in Req, Where(n), n.pc \notin {"idle", "start"} \cup Reserving \cup Bound \cup Reading,
           n.pc = "reserve" => n.s \notin HistorySessions,
           out[r].s \in HistorySessions => n.pc = "done"
    PROVE  Moves(r, n)
<1>1. n.pc \notin Claiming \cup Canceling
  BY DEF Reserving, Bound
<1>2. ~NotStarted(n)
  BY DEF NotStarted, Reserving, Claiming
<1> QED BY <1>1, <1>2 DEF Moves

\* A request whose output is not that of a history key.
LEMMA NotHistoryOutput ==
    ASSUME EInv, NEW r \in Requests, req[r].pc \notin {"consume", "cancel", "done"} \cup Canceling
    PROVE  out[r].s \notin HistorySessions
BY RequestIs DEF HistoryOutput

LEMMA PendingIsOrdinary ==
    ASSUME EInv, NEW ids, NEW s \in Pending(ids)
    PROVE  Ordinary(s) /\ file[s] \in File
BY DEF EInv, IInv, TypeOK, MInv, HistoryApart, Pending, Ordinary

LEMMA ResolvePendingStep == ASSUME EInv, NEW r \in Requests, ResolvePending(r) PROVE EInv'
<1>1. UNCHANGED Elsewhere /\ req[r].pc = "resolve" /\ req[r] \in Req /\ Where(req[r])
  BY RequestIs DEF ResolvePending, Elsewhere
<1>2. out[r].s \notin HistorySessions
  BY <1>1, NotHistoryOutput DEF Canceling
<1>3. req[r].pc \notin Claiming \cup Canceling
  BY <1>1 DEF Claiming, Canceling
<1>4. "lookup" \in Labels /\ "lookup" \notin {"idle", "start"} \cup Reserving \cup Bound \cup Reading
  BY DEF Labels, Claiming, Reserving, Canceling, Bound, Resuming, ParkTail, Reading
<1>5. CASE req' = Goto(r, "lookup")
  <2>1. req' = [req EXCEPT ![r] = At(req[r], "lookup")]
    BY <1>5, GotoIs
  <2>2. Where(At(req[r], "lookup"))
    BY <1>1, <1>4, AtIs DEF Where, Following, Resuming, ParkTail
  <2>3. Moves(r, At(req[r], "lookup"))
    BY <1>1, <1>2, <1>3, <1>4, <2>2, AtIs, FreeMoves
  <2> QED BY <1>1, <2>1, <2>3, QuietMoves
<1>6. ASSUME NEW s \in Pending(req[r].ids), req' = [req EXCEPT ![r].pc = "lookup", ![r].s = s]
      PROVE  EInv'
  <2> DEFINE n == [req[r] EXCEPT !.pc = "lookup", !.s = s]
  <2>1. req' = [req EXCEPT ![r] = n]
    BY <1>6 DEF EInv, MInv, ManagerTypeOK
  <2>2. Ordinary(s) /\ s \in Sessions
    BY <1>6, PendingIsOrdinary DEF Ordinary
  <2>3. n \in Req /\ n.pc = "lookup" /\ n.s = s /\ n.then = req[r].then
    BY <1>1, <1>4, <2>2 DEF Req
  <2> HIDE DEF n
  <2>4. Where(n)
    BY <1>1, <2>2, <2>3 DEF Where, Following, Resuming, ParkTail
  <2>5. Moves(r, n)
    BY <1>2, <1>3, <1>4, <2>3, <2>4, FreeMoves
  <2> QED BY <1>1, <2>1, <2>5, QuietMoves
<1> QED BY <1>5, <1>6 DEF ResolvePending

LEMMA ReadActiveStep == ASSUME EInv, NEW r \in Requests, ReadActive(r) PROVE EInv'
<1> DEFINE t == active[req[r].s]
           n == [req[r] EXCEPT !.run = t, !.mode = IF t = NoToken THEN "cold" ELSE @,
                               !.pc = IF t = NoToken THEN "cold" ELSE "bind"]
<1>1. UNCHANGED Elsewhere /\ req[r].pc = "active" /\ req[r] \in Req /\ Where(req[r])
  BY RequestIs DEF ReadActive, Elsewhere
<1>2. out[r].s \notin HistorySessions
  BY <1>1, NotHistoryOutput DEF Canceling
<1>3. req[r].pc \notin Claiming \cup Canceling
  BY <1>1 DEF Claiming, Canceling
<1>4. req' = [req EXCEPT ![r] = n]
  BY DEF ReadActive, EInv, MInv, ManagerTypeOK
<1>5. Ordinary(req[r].s) /\ t \in Tokens \cup {NoToken} /\ req[r].then = "done"
      /\ (t # NoToken => t \in Tokens /\ lease[t].session = req[r].s /\ run[t].ph # "none")
  BY <1>1 DEF Where, Ordinary, EInv, MInv, ManagerTypeOK, ActiveOK
<1>6. "cold" \in Labels /\ "bind" \in Labels
  BY DEF Labels
<1> HIDE DEF t
<1>7. CASE t = NoToken
  <2>1. n \in Req /\ n.pc = "cold" /\ n.s = req[r].s /\ n.then = "done"
    BY <1>1, <1>5, <1>6, <1>7 DEF Req
  <2> HIDE DEF n
  <2>2. Where(n)
    BY <1>5, <2>1 DEF Where, Following, Resuming, ParkTail, Ordinary
  <2>3. Moves(r, n)
    BY <1>2, <1>3, <2>1, <2>2, FreeMoves DEF Claiming, Reserving, Canceling, Bound, Resuming, ParkTail, Reading
  <2> QED BY <1>1, <1>4, <2>3, QuietMoves
<1>8. CASE t # NoToken
  <2>1. n \in Req /\ n.pc = "bind" /\ n.s = req[r].s /\ n.then = "done" /\ n.run = t
    BY <1>1, <1>5, <1>6, <1>8 DEF Req
  <2> HIDE DEF n
  <2>2. Where(n)
    BY <1>5, <2>1 DEF Where, Following, Resuming, ParkTail, Ordinary
  <2>3. ~NotStarted(n) /\ n.pc \notin Reserving \cup Reading \cup Claiming \cup Canceling
    BY <2>1 DEF NotStarted, Claiming, Reserving, Canceling, Resuming, ParkTail, Reading
  <2>4. Moves(r, n)
    BY <1>2, <1>3, <1>5, <1>8, <2>1, <2>2, <2>3 DEF Moves
  <2> QED BY <1>1, <1>4, <2>4, QuietMoves
<1> QED BY <1>7, <1>8

LEMMA ResumeChecksStep == ASSUME EInv, NEW r \in Requests, ResumeChecks(r) PROVE EInv'
<1> DEFINE m == run[req[r].run]
           fails == [req[r] EXCEPT !.pc = "fail", !.then = "fallback"]
           goes == [req[r] EXCEPT !.pc = "billing", !.res = m.pend]
<1>1. UNCHANGED Elsewhere /\ req[r].pc = "resume" /\ req[r] \in Req /\ Where(req[r]) /\ RequestHolds(r)
  BY RequestIs DEF ResumeChecks, Elsewhere
<1>2. out[r].s \notin HistorySessions
  BY <1>1, NotHistoryOutput DEF Canceling
<1>3. req[r].pc \notin Claiming \cup Canceling
  BY <1>1 DEF Claiming, Canceling
<1>4. /\ req[r].run \in Tokens /\ lease[req[r].run].session = req[r].s /\ run[req[r].run].ph # "none"
      /\ m \in Run /\ Ordinary(req[r].s) /\ req[r].then = "done"
  BY <1>1 DEF RequestHolds, Where, Bound, Resuming, EInv, MInv, ManagerTypeOK
<1>5. req' \in {[req EXCEPT ![r] = At(req[r], "fail")], [req EXCEPT ![r] = fails], [req EXCEPT ![r] = goes]}
  BY GotoIs DEF ResumeChecks, FailsNotPending, EInv, MInv, ManagerTypeOK
<1>6. "fail" \in Labels /\ "fallback" \in Labels /\ "billing" \in Labels
      /\ "fail" \notin {"idle", "start"} \cup Reserving \cup Bound \cup Reading
      /\ "billing" \notin Reserving \cup Reading \cup Claiming \cup Canceling
  BY DEF Labels, Claiming, Reserving, Canceling, Bound, Resuming, ParkTail, Reading
<1>7. Moves(r, At(req[r], "fail"))
  <2> DEFINE n == At(req[r], "fail")
  <2>1. n \in Req /\ n.pc = "fail" /\ n.s = req[r].s /\ n.then = "done" /\ n.mode = req[r].mode
    BY SMTT(30), <1>1, <1>4, <1>6, AtIs
  <2> HIDE DEF n
  <2>2. Where(n)
    BY <1>1, <1>4, <2>1 DEF Where, Following, Resuming, ParkTail
  <2>3. Moves(r, n)
    BY <1>2, <1>3, <1>6, <2>1, <2>2, FreeMoves
  <2> QED BY <2>3 DEF n
<1>8. Moves(r, fails)
  <2>1. fails \in Req /\ fails.pc = "fail" /\ fails.s = req[r].s /\ fails.then = "fallback"
    BY <1>1, <1>6 DEF Req
  <2> HIDE DEF fails
  <2>2. Where(fails)
    BY <1>4, <2>1 DEF Where, Following, Resuming, ParkTail
  <2> QED BY <1>2, <1>3, <1>6, <2>1, <2>2, FreeMoves
<1>9. Moves(r, goes)
  <2>1. goes \in Req /\ goes.pc = "billing" /\ goes.s = req[r].s /\ goes.then = "done" /\ goes.run = req[r].run
    BY <1>1, <1>4, <1>6 DEF Req, Run
  <2> HIDE DEF goes
  <2>2. Where(goes)
    BY <1>4, <2>1 DEF Where, Following, Resuming, ParkTail, Ordinary
  <2>3. ~NotStarted(goes)
    BY <2>1 DEF NotStarted
  <2> QED BY <1>2, <1>3, <1>4, <1>6, <2>1, <2>2, <2>3 DEF Moves
<1> HIDE DEF fails, goes
<1> QED BY <1>1, <1>5, <1>7, <1>8, <1>9, QuietMoves

\* A request that goes on at another label, somewhere between the critical
\* sections.
LEMMA FreeGoto ==
    ASSUME EInv, NEW r \in Requests, req[r].pc \notin Claiming \cup Canceling,
           NEW label, req' = Goto(r, label), UNCHANGED Elsewhere,
           label \in {"lookup", "active", "fail", "fallback", "followAgain", "await", "awaitLast", "done"},
           out[r].s \in HistorySessions => label = "done",
           label = "lookup" => req[r].s = NoSession,
           label = "active" => Ordinary(req[r].s),
           label = "fail" => req[r].then \in {"done", "fallback"},
           label \in {"followAgain", "await", "awaitLast"} => Ordinary(req[r].s),
           label \in {"lookup", "active"} => req[r].then = "done"
    PROVE  EInv'
<1> DEFINE n == At(req[r], label)
<1>1. label \in Labels /\ label \notin {"idle", "start", "reserve"} \cup Reserving \cup Bound \cup Reading
  BY DEF Labels, Claiming, Reserving, Canceling, Bound, Resuming, ParkTail, Reading
<1>2. req' = [req EXCEPT ![r] = n] /\ req[r] \in Req /\ Where(req[r])
  BY GotoIs, RequestIs
<1>3. /\ n \in Req /\ n.pc = label
      /\ label # "done" => n.s = req[r].s /\ n.then = req[r].then /\ n.mode = req[r].mode
      /\ label = "done" => n.mode = "start"
  BY <1>1, <1>2, AtIs
<1> HIDE DEF n
<1>4. Where(n)
  BY <1>2, <1>3 DEF Where, Following, Resuming, ParkTail, Ordinary
<1>5. Moves(r, n)
  BY <1>1, <1>3, <1>4, FreeMoves
<1> QED BY <1>2, <1>5, QuietMoves

LEMMA FollowAwaitsStep ==
    ASSUME EInv, NEW r \in Requests, NEW timeout, FollowAwaits(r, timeout) PROVE EInv'
<1> DEFINE label == IF req[r].pc = "await" /\ (timeout \/ ~FollowUpSaved(r)) THEN "followAgain" ELSE "done"
<1>1. /\ UNCHANGED Elsewhere /\ req[r].pc \in {"await", "awaitLast"} /\ Where(req[r])
      /\ req' = Goto(r, label) /\ label \in {"followAgain", "done"}
  BY RequestIs DEF FollowAwaits, Elsewhere
<1> HIDE DEF label
<1>2. out[r].s \notin HistorySessions
  BY <1>1, NotHistoryOutput DEF Canceling
<1>3. req[r].pc \notin Claiming \cup Canceling /\ Ordinary(req[r].s)
  BY <1>1 DEF Claiming, Canceling, Where, Following
<1> QED BY <1>1, <1>2, <1>3, FreeGoto

LEMMA FollowLookupStep == ASSUME EInv, NEW r \in Requests, FollowLookup(r) PROVE EInv'
<1> DEFINE leaves == [req[r] EXCEPT !.pc = "unreserve", !.then = "done"]
           goes == At(req[r], "claim")
<1>1. UNCHANGED Elsewhere /\ req[r].pc = "followLookup" /\ req[r] \in Req /\ Where(req[r])
  BY RequestIs DEF FollowLookup, Elsewhere
<1>2. out[r].s \notin HistorySessions
  BY <1>1, NotHistoryOutput DEF Canceling
<1>3. req[r].pc \notin Claiming \cup Canceling /\ req[r].pc \in Reserving /\ req[r].s \in Sessions
  BY <1>1 DEF Claiming, Canceling, Reserving, Where
<1>4. req' = [req EXCEPT ![r] = leaves] \/ req' = [req EXCEPT ![r] = goes]
  BY GotoIs DEF FollowLookup, EInv, MInv, ManagerTypeOK
<1>5. \A label \in {"unreserve", "claim"} :
         label \in Labels /\ label \notin Claiming \cup Canceling \cup Bound \cup Reading
  BY DEF Labels, Claiming, Canceling, Bound, Resuming, ParkTail, Reading
<1>6. leaves \in Req /\ leaves.pc = "unreserve" /\ leaves.s = req[r].s /\ leaves.then = "done"
      /\ leaves.mode = req[r].mode
  <2>1. "done" \in Labels
    BY DEF Labels
  <2> QED BY <1>1, <1>5, <2>1 DEF Req
<1>7. goes \in Req /\ goes.pc = "claim" /\ goes.s = req[r].s /\ goes.mode = req[r].mode
  BY <1>1, <1>5, AtIs
<1> HIDE DEF leaves, goes
<1>8. req[r].s \notin HistorySessions
  BY <1>1 DEF Where, Ordinary, Following
<1>9. Where(leaves) /\ Where(goes) /\ ~NotStarted(leaves) /\ ~NotStarted(goes)
  BY <1>1, <1>3, <1>6, <1>7, <1>8 DEF Where, Following, NotStarted, Resuming, ParkTail
<1>10. Moves(r, leaves) /\ Moves(r, goes)
  BY <1>2, <1>3, <1>5, <1>6, <1>7, <1>9 DEF Moves
<1> QED BY <1>1, <1>4, <1>10, QuietMoves

LEMMA BeginStartStep ==
    ASSUME EInv, NEW r \in Requests, NEW s \in Sessions, BeginStart(r, s) PROVE EInv'
<1> DEFINE label == IF s \in HistorySessions THEN "start" ELSE "reserve"
           n == [req[r] EXCEPT !.pc = label, !.s = s]
<1>1. UNCHANGED Elsewhere /\ req[r].pc = "idle" /\ req[r] \in Req /\ Where(req[r])
      /\ req' = [req EXCEPT ![r] = n]
  BY RequestIs DEF BeginStart, Elsewhere, EInv, MInv, ManagerTypeOK
<1>2. out[r].s \notin HistorySessions
  BY <1>1, NotHistoryOutput DEF Canceling
<1>3. req[r].pc \notin Claiming \cup Canceling
  BY <1>1 DEF Claiming, Canceling
<1>4. label \in {"start", "reserve"} /\ label \in Labels
  BY DEF Labels
<1> HIDE DEF label
<1>5. n \in Req /\ n.pc = label /\ n.s = s /\ n.mode = "start"
  <2>1. req[r].mode = "start"
    BY <1>1 DEF Where, IdleReq
  <2> QED BY <1>1, <1>4, <2>1 DEF Req
<1> HIDE DEF n
<1>6. Where(n) /\ n.pc \notin Reserving \cup Claiming \cup Canceling \cup Bound \cup Reading
  BY <1>4, <1>5 DEF Where, Following, Claiming, Reserving, Canceling, Bound, Resuming, ParkTail, Reading
<1>7. Moves(r, n)
  BY <1>1, <1>2, <1>3, <1>5, <1>6 DEF Moves, NotStarted
<1> QED BY <1>1, <1>7, QuietMoves

LEMMA BeginResumeStep ==
    ASSUME EInv, NEW r \in Requests, NEW ids \in SUBSET Tools, NEW fu \in FollowUps, BeginResume(r, ids, fu)
    PROVE  EInv'
<1>1. UNCHANGED Elsewhere /\ req[r].pc = "idle" /\ req[r] \in Req /\ Where(req[r])
  BY RequestIs DEF BeginResume, Elsewhere
<1>2. out[r].s \notin HistorySessions
  BY <1>1, NotHistoryOutput DEF Canceling
<1>3. req[r].pc \notin Claiming \cup Canceling
  BY <1>1 DEF Claiming, Canceling
<1>4. CASE req' = Goto(r, "done")
  BY <1>1, <1>3, <1>4, FreeGoto
<1>5. ASSUME NEW batch \in OriginalPendingBatch(ids),
             req' = [req EXCEPT ![r].pc = "begin", ![r].ids = ids, ![r].batch = batch, ![r].fu = fu]
      PROVE  EInv'
  <2> DEFINE n == [req[r] EXCEPT !.pc = "begin", !.ids = ids, !.batch = batch, !.fu = fu]
  <2>1. req' = [req EXCEPT ![r] = n]
    BY <1>5 DEF EInv, MInv, ManagerTypeOK
  <2>2. batch \in SUBSET Tools
    BY <1>5, PendingIsOrdinary DEF OriginalPendingBatch, File
  <2>3. n \in Req /\ n.pc = "begin" /\ n.s = NoSession /\ n.mode = "start" /\ n.then = "done"
    <3>1. req[r].mode = "start" /\ req[r].s = NoSession /\ req[r].then = "done"
      BY <1>1 DEF Where, IdleReq
    <3>2. "begin" \in Labels
      BY DEF Labels
    <3> QED BY <1>1, <2>2, <3>1, <3>2 DEF Req
  <2> HIDE DEF n
  <2>4. Where(n)
    BY <2>3 DEF Where, Following, Resuming, ParkTail
  <2>5. Moves(r, n)
    BY <1>2, <1>3, <2>3, <2>4, FreeMoves DEF Claiming, Reserving, Canceling, Bound, Resuming, ParkTail, Reading
  <2> QED BY <1>1, <2>1, <2>5, QuietMoves
<1> QED BY <1>4, <1>5 DEF BeginResume

LEMMA FallbackStep == ASSUME EInv, NEW r \in Requests, Fallback(r) PROVE EInv'
<1>1. UNCHANGED Elsewhere /\ req[r].pc = "fallback" /\ req[r] \in Req
  BY RequestIs DEF Fallback, Elsewhere
<1>2. out[r].s \notin HistorySessions
  BY <1>1, NotHistoryOutput DEF Canceling
<1>3. req[r].pc \notin Claiming \cup Canceling
  BY <1>1 DEF Claiming, Canceling
<1>4. CASE req' = Goto(r, "done")
  BY <1>1, <1>3, <1>4, FreeGoto
<1>5. ASSUME NEW s \in Sessions \ HistorySessions,
             req' = [req EXCEPT ![r] = [IdleReq EXCEPT !.pc = "reserve", !.s = s]]
      PROVE  EInv'
  <2> DEFINE n == [IdleReq EXCEPT !.pc = "reserve", !.s = s]
  <2>1. n \in Req /\ n.pc = "reserve" /\ n.s = s /\ n.mode = "start"
    BY <1>5, ManagerAssumption DEF Req, Labels, IdleReq
  <2> HIDE DEF n
  <2>2. Where(n)
    BY <2>1 DEF Where, Following, Resuming, ParkTail
  <2>3. Moves(r, n)
    BY <1>2, <1>3, <2>1, <2>2, FreeMoves DEF Claiming, Reserving, Canceling, Bound, Resuming, ParkTail, Reading
  <2>4. req' = [req EXCEPT ![r] = n]
    BY <1>5 DEF n
  <2> QED BY <1>1, <2>3, <2>4, QuietMoves
<1> QED BY <1>4, <1>5 DEF Fallback

LEMMA ReadTurnEndedStep == ASSUME EInv, NEW r \in Requests, ReadTurnEnded(r) PROVE EInv'
<1> DEFINE then == IF req[r].pc = "drain" THEN "drainParked" ELSE "done"
           n == [req[r] EXCEPT !.pc = "park", !.then = then]
<1>1. /\ UNCHANGED Elsewhere /\ req[r].pc \in {"consume", "drain", "rebuffer"} /\ req[r] \in Req
      /\ Where(req[r]) /\ RequestHolds(r) /\ req' = [req EXCEPT ![r] = n]
      /\ HistoryOutput(r) /\ (out[r].turn \/ req[r].pc = "rebuffer")
  BY RequestIs DEF ReadTurnEnded, Elsewhere, EInv, MInv, ManagerTypeOK
<1>2. out[r].s \notin HistorySessions
  BY <1>1 DEF HistoryOutput, Canceling
<1>3. req[r].pc \notin Claiming \cup Canceling /\ req[r].s \in Sessions /\ out[r].s = req[r].s
  BY <1>1 DEF Claiming, Canceling, Where, RequestHolds, Reading
<1>4. "park" \in Labels /\ then \in Labels /\ then \in {"done", "drainParked"}
  BY DEF Labels
<1> HIDE DEF then
<1>5. n \in Req /\ n.pc = "park" /\ n.then = then /\ n.s = req[r].s /\ n.mode = req[r].mode
  BY <1>1, <1>4 DEF Req
<1> HIDE DEF n
<1>6. Where(n) /\ ~NotStarted(n)
  BY <1>1, <1>3, <1>4, <1>5 DEF Where, NotStarted, Following, Resuming, ParkTail
<1>7. n.pc \notin Reserving \cup Claiming \cup Canceling \cup Bound
  BY <1>5 DEF Claiming, Reserving, Canceling, Bound, Resuming, ParkTail
<1>8. Moves(r, n)
  BY <1>2, <1>3, <1>5, <1>6, <1>7 DEF Moves
<1> QED BY <1>1, <1>8, QuietMoves

\* A reader that goes on reading the same output, or cancels.
LEMMA ReadGoto ==
    ASSUME EInv, NEW r \in Requests, req[r].pc \in Reading, req[r].pc \notin Claiming \cup Canceling,
           NEW label \in {"rebuffer", "cancel", "drainParked", "consume", "drain"},
           req' = Goto(r, label), UNCHANGED Elsewhere,
           out[r].s \in HistorySessions => label \in {"cancel", "consume"}
    PROVE  EInv'
<1> DEFINE n == At(req[r], label)
<1>1. label \in Labels /\ label \notin Reserving \cup Bound \cup Claiming \cup Canceling
  BY DEF Labels, Claiming, Reserving, Canceling, Bound, Resuming, ParkTail
<1>2. req' = [req EXCEPT ![r] = n] /\ req[r] \in Req /\ Where(req[r]) /\ RequestHolds(r)
  BY GotoIs, RequestIs
<1>3. n \in Req /\ n.pc = label /\ n.s = req[r].s /\ n.mode = req[r].mode
  BY <1>1, <1>2, AtIs
<1> HIDE DEF n
<1>4. req[r].s \in Sessions /\ out[r].s = req[r].s
  BY <1>2 DEF Where, RequestHolds, Reading, ParkTail, Canceling
<1>5. Where(n) /\ ~NotStarted(n)
  BY <1>2, <1>3, <1>4 DEF Where, NotStarted, Following, Resuming, ParkTail
<1>6. Moves(r, n)
  BY <1>1, <1>3, <1>4, <1>5 DEF Moves
<1> QED BY <1>2, <1>6, QuietMoves

LEMMA ReadEndStep == ASSUME EInv, NEW r \in Requests, ReadEnd(r) PROVE EInv'
<1>1. UNCHANGED Elsewhere /\ req[r].pc \in {"consume", "drain"} /\ req[r] \in Req /\ Where(req[r]) /\ RequestHolds(r)
  BY RequestIs DEF ReadEnd, Elsewhere
<1>2. req[r].pc \notin Claiming \cup Canceling
  BY <1>1 DEF Claiming, Canceling
<1>3. CASE req' = Goto(r, "done")
  BY <1>1, <1>2, <1>3, FreeGoto
<1>4. CASE req[r].pc = "drain" /\ req' = [req EXCEPT ![r].pc = "follow", ![r].mode = "follow"]
  <2> DEFINE n == [req[r] EXCEPT !.pc = "follow", !.mode = "follow"]
  <2>1. req' = [req EXCEPT ![r] = n]
    BY <1>4 DEF EInv, MInv, ManagerTypeOK
  <2>2. out[r].s \notin HistorySessions
    BY <1>4, NotHistoryOutput DEF Canceling
  <2>3. Ordinary(req[r].s)
    BY <1>1, <1>4, <2>2 DEF Ordinary, Where, RequestHolds, Reading
  <2>4. "follow" \in Labels /\ "follow" \notin {"idle", "start"} \cup Reserving \cup Bound \cup Reading
    BY DEF Labels, Claiming, Reserving, Canceling, Bound, Resuming, ParkTail, Reading
  <2>5. n \in Req /\ n.pc = "follow" /\ n.s = req[r].s
    BY <1>1, <2>4 DEF Req
  <2> HIDE DEF n
  <2>6. Where(n)
    BY <2>3, <2>5 DEF Where, Following, Resuming, ParkTail, Ordinary
  <2>7. Moves(r, n)
    BY <1>2, <2>2, <2>4, <2>5, <2>6, FreeMoves
  <2> QED BY <1>1, <2>1, <2>7, QuietMoves
<1> QED BY <1>3, <1>4 DEF ReadEnd

LEMMA ReadParkedStep == ASSUME EInv, NEW r \in Requests, ReadParked(r) PROVE EInv'
<1>1. UNCHANGED Elsewhere /\ req[r].pc = "drainParked" /\ (req' = Goto(r, "rebuffer") \/ req' = Goto(r, "done"))
  BY DEF ReadParked, Elsewhere
<1>2. req[r].pc \notin Claiming \cup Canceling /\ req[r].pc \in Reading
  BY <1>1 DEF Claiming, Canceling, Reading
<1>3. out[r].s \notin HistorySessions
  BY <1>1, NotHistoryOutput DEF Canceling
<1> QED BY <1>1, <1>2, <1>3, FreeGoto, ReadGoto

LEMMA GiveUpStep == ASSUME EInv, NEW r \in Requests, GiveUp(r) PROVE EInv'
<1>1. /\ UNCHANGED Elsewhere
      /\ req[r].pc \in {"start", "wait", "await", "awaitLast", "drainParked", "consume", "drain", "rebuffer"}
      /\ \/ req' = Goto(r, "done")
         \/ req[r].pc \in {"consume", "drain", "rebuffer"} /\ req' = Goto(r, "cancel")
  BY DEF GiveUp, Elsewhere
<1>2. req[r].pc \notin Claiming \cup Canceling
  BY <1>1 DEF Claiming, Canceling
<1>3. CASE req' = Goto(r, "done")
  BY <1>1, <1>2, <1>3, FreeGoto
<1>4. CASE req[r].pc \in {"consume", "drain", "rebuffer"} /\ req' = Goto(r, "cancel")
  BY <1>1, <1>2, <1>4, ReadGoto DEF Reading
<1> QED BY <1>1, <1>3, <1>4

-----------------------------------------------------------------------------
(***************************************************************************)
(* Steps of a request that touch a flight, the queue of a run or its file. *)
(***************************************************************************)
\* A flight that ends with a result.
LEMMA FlightEnds ==
    ASSUME EInv, NEW q \in Requests \cup {NoReq}, NEW result \in Flight,
           result.st = "replay" => Ordinary(result.s), flight' = EndFlight(q, result)
    PROVE  /\ flight' \in [Requests -> Flight]
           /\ \A p \in Requests : flight'[p].st = "replay" => Ordinary(flight'[p].s)
<1>1. /\ flight \in [Requests -> Flight]
      /\ \A p \in Requests : flight[p].st = "replay" => Ordinary(flight[p].s)
  BY DEF EInv, MInv, ManagerTypeOK, HistoryApart
<1>2. CASE q # NoReq /\ flight[q].st = "open"
  <2> DEFINE f == [result EXCEPT !.batch = flight[q].batch, !.fu = flight[q].fu]
  <2>1. flight' = [flight EXCEPT ![q] = f] /\ q \in Requests
    BY <1>2 DEF EndFlight
  <2>2. f \in Flight /\ f.st = result.st /\ f.s = result.s
    BY <1>1, <2>1 DEF Flight
  <2> HIDE DEF f
  <2> QED BY <1>1, <2>1, <2>2
<1> QED BY <1>1, <1>2 DEF EndFlight

LEMMA Results ==
    /\ FlightError \in Flight /\ FlightError.st # "replay"
    /\ FlightNotPending \in Flight /\ FlightNotPending.st # "replay"
    /\ NoFlight \in Flight /\ NoFlight.st # "replay"
    /\ \A s \in Sessions, batch \in SUBSET Tools, fu \in FollowUps, more \in BOOLEAN :
          FlightReplay(s, batch, fu, more) \in Flight /\ FlightReplay(s, batch, fu, more).s = s
BY ZenonT(60), ManagerAssumption DEF FlightError, FlightNotPending, FlightReplay, NoFlight, Flight

LEMMA FlightMoves ==
    ASSUME EInv, NEW r \in Requests, NEW n, Moves(r, n), req' = [req EXCEPT ![r] = n],
           UNCHANGED <<vars, active, starting, run, out, completed, issued>>,
           flight' \in [Requests -> Flight],
           \A q \in Requests : flight'[q].st = "replay" => Ordinary(flight'[q].s)
    PROVE  EInv'
<1>1. IInv' /\ HistoryApart /\ run \in [Tokens -> Run]
  BY StoreQuiet DEF EInv, MInv, ManagerTypeOK
<1>2. \A u \in Tokens : KeepsRun(u)
  BY DEF KeepsRun, vars
<1> QED BY <1>1, <1>2, MovesKeep DEF HistoryApart, vars

LEMMA BeginFlightStep == ASSUME EInv, NEW r \in Requests, BeginFlight(r) PROVE EInv'
<1>1. /\ UNCHANGED <<vars, active, starting, run, out, completed, issued>>
      /\ req[r].pc = "begin" /\ req[r] \in Req /\ Where(req[r]) /\ flight \in [Requests -> Flight]
      /\ \A q \in Requests : flight[q].st = "replay" => Ordinary(flight[q].s)
  BY RequestIs DEF BeginFlight, EInv, MInv, ManagerTypeOK, HistoryApart
<1>2. out[r].s \notin HistorySessions
  BY <1>1, NotHistoryOutput DEF Canceling
<1>3. req[r].pc \notin Claiming \cup Canceling
  BY <1>1 DEF Claiming, Canceling
<1>4. \A label \in {"resolve", "wait"} :
         label \in Labels /\ label \notin {"idle", "start"} \cup Reserving \cup Bound \cup Reading
  BY DEF Labels, Claiming, Reserving, Canceling, Bound, Resuming, ParkTail, Reading
<1>5. ASSUME req' = Goto(r, "resolve"),
             flight' = [flight EXCEPT ![r] = [NoFlight EXCEPT !.st = "open", !.batch = req[r].batch,
                                                              !.fu = req[r].fu]]
      PROVE  EInv'
  <2> DEFINE n == At(req[r], "resolve")
             f == [NoFlight EXCEPT !.st = "open", !.batch = req[r].batch, !.fu = req[r].fu]
  <2>1. req' = [req EXCEPT ![r] = n]
    BY <1>5, GotoIs
  <2>2. n \in Req /\ n.pc = "resolve" /\ n.s = req[r].s /\ n.then = req[r].then /\ n.mode = req[r].mode
    BY <1>1, <1>4, AtIs
  <2> HIDE DEF n
  <2>3. Where(n)
    BY <1>1, <2>2 DEF Where, Following, Resuming, ParkTail
  <2>4. Moves(r, n)
    BY <1>2, <1>3, <1>4, <2>2, <2>3, FreeMoves
  <2>5. f \in Flight /\ f.st = "open"
    BY <1>1, Results DEF Flight, Req
  <2>6. flight' = [flight EXCEPT ![r] = f]
    BY <1>5
  <2> HIDE DEF f
  <2> QED BY <1>1, <2>1, <2>4, <2>5, <2>6, FlightMoves
<1>6. ASSUME NEW q \in Requests, req' = [req EXCEPT ![r].pc = "wait", ![r].lead = q], flight' = flight
      PROVE  EInv'
  <2> DEFINE n == [req[r] EXCEPT !.pc = "wait", !.lead = q]
  <2>1. req' = [req EXCEPT ![r] = n]
    BY <1>6 DEF EInv, MInv, ManagerTypeOK
  <2>2. n \in Req /\ n.pc = "wait" /\ n.s = req[r].s /\ n.lead = q /\ n.mode = req[r].mode
    BY <1>1, <1>4, <1>6 DEF Req
  <2> HIDE DEF n
  <2>3. Where(n)
    BY <1>1, <1>6, <2>2, ManagerAssumption DEF Where, Following, Resuming, ParkTail
  <2>4. Moves(r, n)
    BY <1>2, <1>3, <1>4, <2>2, <2>3, FreeMoves
  <2> QED BY <1>1, <1>6, <2>1, <2>4, FlightMoves
<1> QED BY <1>5, <1>6 DEF BeginFlight

LEMMA LookupReplayStep == ASSUME EInv, NEW r \in Requests, LookupReplay(r) PROVE EInv'
<1>1. /\ UNCHANGED <<vars, active, starting, run, out, completed, issued>>
      /\ req[r].pc = "lookup" /\ req[r] \in Req /\ Where(req[r])
  BY RequestIs DEF LookupReplay
<1>2. out[r].s \notin HistorySessions
  BY <1>1, NotHistoryOutput DEF Canceling
<1>3. req[r].pc \notin Claiming \cup Canceling
  BY <1>1 DEF Claiming, Canceling
<1>4. ASSUME NEW c \in completed, flight' = EndFlight(r, FlightReplay(c.s, c.batch, c.fu, c.more)),
             req' = Replayed(r, c.s, c.batch, c.fu, c.more)
      PROVE  EInv'
  <2>1. Ordinary(c.s) /\ c.s \in Sessions /\ c.batch \in SUBSET Tools /\ c.fu \in FollowUps /\ c.more \in BOOLEAN
    BY <1>4 DEF EInv, MInv, ManagerTypeOK, HistoryApart, Completed
  <2> DEFINE n == Answered(req[r], c.s, c.batch, c.fu, c.more)
             f == FlightReplay(c.s, c.batch, c.fu, c.more)
  <2>2. req' = [req EXCEPT ![r] = n]
    BY <1>4, ReplayedIs
  <2>3. Moves(r, n)
    BY <1>1, <2>1, ReplayedMoves
  <2>4. f \in Flight /\ f.s = c.s /\ flight' = EndFlight(r, f)
    BY <1>4, <2>1, Results
  <2> HIDE DEF n, f
  <2>5. /\ flight' \in [Requests -> Flight]
        /\ \A p \in Requests : flight'[p].st = "replay" => Ordinary(flight'[p].s)
    BY <2>1, <2>4, FlightEnds
  <2> QED BY <1>1, <2>2, <2>3, <2>5, FlightMoves
<1>5. CASE req[r].s = NoSession /\ req' = FailsNotPending(r) /\ flight' = flight
  <2> DEFINE n == [req[r] EXCEPT !.pc = "fail", !.then = "fallback"]
  <2>1. req' = [req EXCEPT ![r] = n]
    BY <1>5 DEF FailsNotPending, EInv, MInv, ManagerTypeOK
  <2>2. "fail" \in Labels /\ "fallback" \in Labels
        /\ "fail" \notin {"idle", "start"} \cup Reserving \cup Bound \cup Reading
    BY DEF Labels, Claiming, Reserving, Canceling, Bound, Resuming, ParkTail, Reading
  <2>3. n \in Req /\ n.pc = "fail" /\ n.s = req[r].s /\ n.then = "fallback" /\ n.mode = req[r].mode
    BY <1>1, <2>2 DEF Req
  <2> HIDE DEF n
  <2>4. Where(n)
    BY <1>1, <2>3 DEF Where, Following, Resuming, ParkTail
  <2>5. Moves(r, n) /\ UNCHANGED Elsewhere
    BY <1>1, <1>2, <1>3, <1>5, <2>2, <2>3, <2>4, FreeMoves DEF Elsewhere
  <2> QED BY <2>1, <2>5, QuietMoves
<1>6. CASE req[r].s # NoSession /\ req' = Goto(r, "active") /\ flight' = flight
  <2>1. Ordinary(req[r].s) /\ req[r].then = "done"
    BY <1>1, <1>6 DEF Where
  <2>2. UNCHANGED Elsewhere
    BY <1>1, <1>6 DEF Elsewhere
  <2> QED BY <1>2, <1>3, <1>6, <2>1, <2>2, FreeGoto
<1> QED BY <1>4, <1>5, <1>6 DEF LookupReplay, RequestReplays, Replays

LEMMA ResumeFailsStep == ASSUME EInv, NEW r \in Requests, ResumeFails(r) PROVE EInv'
<1> DEFINE label == IF req[r].pc = "fail" THEN req[r].then ELSE "unreserve"
           n == At(req[r], label)
           f == IF req[r].then = "fallback" THEN FlightNotPending ELSE FlightError
<1>1. /\ UNCHANGED <<vars, active, starting, run, out, completed, issued>>
      /\ req[r].pc \in {"fail", "failCold"} /\ req[r] \in Req /\ Where(req[r])
      /\ flight' = EndFlight(r, f) /\ req' = [req EXCEPT ![r] = n]
  BY RequestIs, GotoIs DEF ResumeFails
<1>2. f \in Flight /\ f.st # "replay"
  BY Results
<1> HIDE DEF f
<1>3. /\ flight' \in [Requests -> Flight]
      /\ \A p \in Requests : flight'[p].st = "replay" => Ordinary(flight'[p].s)
  BY <1>1, <1>2, FlightEnds
<1>4. out[r].s \notin HistorySessions
  BY <1>1, NotHistoryOutput DEF Canceling
<1>5. req[r].pc \notin Claiming \cup Canceling
  BY <1>1 DEF Claiming, Canceling
<1>6. CASE req[r].pc = "fail"
  <2>1. label \in {"done", "fallback"} /\ label \in Labels
        /\ label \notin {"idle", "start", "reserve"} \cup Reserving \cup Bound \cup Reading
    BY <1>1, <1>6 DEF Where, Labels, Claiming, Reserving, Canceling, Bound, Resuming, ParkTail, Reading
  <2> HIDE DEF label
  <2>2. n \in Req /\ n.pc = label /\ (label # "done" => n.s = req[r].s /\ n.mode = req[r].mode)
        /\ (label = "done" => n.mode = "start")
    BY <1>1, <2>1, AtIs
  <2> HIDE DEF n
  <2>3. Where(n)
    BY <1>1, <2>1, <2>2 DEF Where, Following, Resuming, ParkTail
  <2>4. Moves(r, n)
    BY <1>4, <1>5, <2>1, <2>2, <2>3, FreeMoves
  <2> QED BY <1>1, <1>3, <2>4, FlightMoves
<1>7. CASE req[r].pc = "failCold"
  <2>1. label = "unreserve" /\ label \in Labels /\ label \notin Claiming \cup Canceling \cup Bound \cup Reading
        /\ req[r].pc \in Reserving
    BY <1>7 DEF Labels, Claiming, Reserving, Canceling, Bound, Resuming, ParkTail, Reading
  <2> HIDE DEF label
  <2>2. n \in Req /\ n.pc = "unreserve" /\ n.s = req[r].s /\ n.mode = req[r].mode /\ n.then = req[r].then
    BY <1>1, <2>1, AtIs
  <2> HIDE DEF n
  <2>3. Where(n)
    BY <1>1, <1>7, <2>2 DEF Where, Following, Resuming, ParkTail
  <2>4. NotStarted(n) => NotStarted(req[r])
    BY <1>1, <1>7, <2>2 DEF NotStarted, Where, Ordinary
  <2>5. Moves(r, n)
    BY <1>4, <1>5, <2>1, <2>2, <2>3, <2>4 DEF Moves
  <2> QED BY <1>1, <1>3, <2>5, FlightMoves
<1> QED BY <1>1, <1>6, <1>7

LEMMA BindFlightStep == ASSUME EInv, NEW r \in Requests, BindFlight(r) PROVE EInv'
<1> DEFINE t == active[req[r].s]
           label == IF req[r].pc = "bind" THEN "resume" ELSE Attached(r)
           n == At(req[r], label)
<1>1. /\ UNCHANGED <<vars, active, starting, flight, out, completed, issued>>
      /\ req[r].pc \in {"bind", "bindCold"} /\ req[r] \in Req /\ Where(req[r]) /\ RequestHolds(r)
      /\ run' = (IF t = NoToken THEN run ELSE [run EXCEPT ![t].flight = r])
      /\ req' = [req EXCEPT ![r] = n]
  BY RequestIs, GotoIs DEF BindFlight
<1>2. out[r].s \notin HistorySessions
  BY <1>1, NotHistoryOutput DEF Canceling
<1>3. req[r].pc \notin Claiming \cup Canceling /\ (req[r].pc = "bindCold" => out[r].s = req[r].s)
      /\ req[r].s \in Sessions
      /\ (req[r].pc = "bind" => /\ req[r].run \in Tokens /\ lease[req[r].run].session = req[r].s
                                /\ run[req[r].run].ph # "none" /\ Ordinary(req[r].s) /\ req[r].then = "done")
  BY <1>1 DEF Claiming, Canceling, Where, RequestHolds, Reading, Bound, Resuming
<1>4. /\ req[r].pc = "bind" => label = "resume"
      /\ req[r].pc = "bindCold" => label \in {"consume", "drain"}
      /\ label \in Labels /\ label \notin Reserving \cup Claiming \cup Canceling
      /\ label = "resume" => label \notin Reading
      /\ label \in {"consume", "drain"} => label \notin Bound
  BY <1>1 DEF Attached, Labels, Claiming, Reserving, Canceling, Bound, Resuming, ParkTail, Reading
<1> HIDE DEF label
<1>5. n \in Req /\ n.pc = label /\ n.s = req[r].s /\ n.mode = req[r].mode /\ n.then = req[r].then /\ n.run = req[r].run
  BY <1>1, <1>4, AtIs
<1> HIDE DEF n
<1>6. Where(n) /\ ~NotStarted(n)
  BY <1>1, <1>3, <1>4, <1>5 DEF Where, NotStarted, Following, Resuming, ParkTail
<1>7. Moves(r, n)
  BY <1>1, <1>2, <1>3, <1>4, <1>5, <1>6 DEF Moves
<1>8. run \in [Tokens -> Run] /\ t \in Tokens \cup {NoToken} /\ HistoryApart /\ flight \in [Requests -> Flight] /\ IInv'
  BY <1>1, <1>3, StoreQuiet DEF EInv, MInv, ManagerTypeOK
<1> HIDE DEF t
<1>9. run' \in [Tokens -> Run] /\ \A u \in Tokens : KeepsRun(u)
  <2>1. CASE t = NoToken
    BY <1>1, <1>8, <2>1 DEF KeepsRun, vars
  <2>2. CASE t # NoToken
    <3>1. run' = [run EXCEPT ![t] = [run[t] EXCEPT !.flight = r]] /\ t \in Tokens
      BY <1>1, <1>8, <2>2
    <3>2. [run[t] EXCEPT !.flight = r] \in Run
      BY <1>8, <3>1 DEF Run
    <3>3. \A u \in Tokens : KeepsRun(u)
      BY <1>1, <1>8, <3>1 DEF KeepsRun, vars, Run
    <3> QED BY <1>8, <3>1, <3>2, <3>3
  <2> QED BY <2>1, <2>2
<1> QED BY <1>1, <1>7, <1>8, <1>9, MovesKeep DEF HistoryApart, vars

LEMMA ResumePushStep == ASSUME EInv, NEW r \in Requests, ResumePush(r) PROVE EInv'
<1> DEFINE t == req[r].run
           label == Attached(r)
           n == At(req[r], label)
<1>1. /\ UNCHANGED <<vars, active, starting, flight, out, completed, issued>>
      /\ req[r].pc = "push" /\ req[r] \in Req /\ Where(req[r]) /\ RequestHolds(r)
      /\ run' = [run EXCEPT ![t].queue = @ \cup req[r].res]
      /\ req' = [req EXCEPT ![r] = n]
  BY RequestIs, GotoIs DEF ResumePush
<1>2. out[r].s \notin HistorySessions
  BY <1>1, NotHistoryOutput DEF Canceling
<1>3. /\ req[r].pc \notin Claiming \cup Canceling /\ out[r].s = req[r].s
      /\ req[r].s \in Sessions /\ t \in Tokens /\ lease[t].session = req[r].s /\ Ordinary(req[r].s)
  BY <1>1 DEF Claiming, Canceling, Where, RequestHolds, Reading, Bound, Resuming
<1>4. /\ label \in {"consume", "drain"}
      /\ label \in Labels /\ label \notin Reserving \cup Claiming \cup Canceling \cup Bound
  BY <1>1 DEF Attached, Labels, Claiming, Reserving, Canceling, Bound, Resuming, ParkTail
<1> HIDE DEF label
<1>5. n \in Req /\ n.pc = label /\ n.s = req[r].s /\ n.mode = req[r].mode
  BY <1>1, <1>4, AtIs
<1> HIDE DEF n
<1>6. Where(n) /\ ~NotStarted(n)
  BY <1>1, <1>3, <1>4, <1>5 DEF Where, NotStarted, Following, Resuming, ParkTail
<1>7. Moves(r, n)
  BY <1>1, <1>2, <1>3, <1>4, <1>5, <1>6 DEF Moves
<1>8. run \in [Tokens -> Run] /\ HistoryApart /\ flight \in [Requests -> Flight] /\ IInv'
      /\ req[r].res \in SUBSET Tools
  BY <1>1, StoreQuiet DEF EInv, MInv, ManagerTypeOK, Req
<1> HIDE DEF t
<1>9. run' \in [Tokens -> Run] /\ \A u \in Tokens : KeepsRun(u)
  <2> DEFINE w == run[t].queue \cup req[r].res
             m == [run[t] EXCEPT !.queue = w]
  <2>1. run' = [run EXCEPT ![t] = m]
    BY <1>1, <1>3, <1>8
  <2>2. m \in Run
    <3>1. w \in SUBSET Tools /\ run[t] \in Run
      BY <1>3, <1>8 DEF Run
    <3> HIDE DEF w
    <3> QED BY <3>1 DEF Run
  <2>3. \A u \in Tokens : KeepsRun(u)
    BY <1>1, <1>3, <1>8, <2>1 DEF KeepsRun, vars, Run, Ordinary
  <2> QED BY <1>3, <1>8, <2>1, <2>2, <2>3
<1> QED BY <1>1, <1>7, <1>8, <1>9, MovesKeep DEF HistoryApart, vars

\* What an owner may write into its session file.
LEMMA OwnerHasFile ==
    ASSUME IInv, NEW t \in Tokens, MayUpdate(t)
    PROVE  /\ lease[t] \in Lease /\ lease[t].session \in Sessions /\ file[lease[t].session] \in File
           /\ lease[t].cred \in Creds
BY HeldIsLease DEF IInv, TypeOK, MayUpdate, Lease

LEMMA BillingIs ==
    ASSUME IInv, NEW t \in Tokens, SetBillingRunID(t)
    PROVE  file' = file /\ UNCHANGED <<lock, lease, history, scan>>
BY OwnerHasFile DEF SetBillingRunID, Write, IInv, TypeOK

LEMMA ResumeBillingStep == ASSUME EInv, IInv', NEW r \in Requests, ResumeBilling(r) PROVE EInv'
<1>1. /\ UNCHANGED <<active, starting, run, flight, out, completed, issued>>
      /\ req[r].pc = "billing" /\ req[r] \in Req /\ Where(req[r]) /\ RequestHolds(r)
  BY RequestIs DEF ResumeBilling
<1>2. out[r].s \notin HistorySessions
  BY <1>1, NotHistoryOutput DEF Canceling
<1>3. /\ req[r].pc \notin Claiming \cup Canceling /\ req[r].run \in Tokens
      /\ lease[req[r].run].session = req[r].s /\ run[req[r].run].ph # "none"
      /\ Ordinary(req[r].s) /\ req[r].s \in Sessions /\ req[r].then = "done"
  BY <1>1 DEF Claiming, Canceling, Where, RequestHolds, Bound, Resuming
<1>4. CASE req' = Goto(r, "fail") /\ UNCHANGED vars
  <2>1. UNCHANGED Elsewhere
    BY <1>1, <1>4 DEF Elsewhere
  <2> QED BY <1>1, <1>2, <1>3, <1>4, <2>1, FreeGoto
<1>5. CASE req' = Goto(r, "attach") /\ UNCHANGED <<file, lease, history>>
  <2> DEFINE n == At(req[r], "attach")
  <2>1. "attach" \in Labels /\ "attach" \notin Reserving \cup Claiming \cup Canceling \cup Reading
    BY DEF Labels, Claiming, Reserving, Canceling, Resuming, ParkTail, Reading
  <2>2. req' = [req EXCEPT ![r] = n]
    BY <1>5, GotoIs
  <2>3. n \in Req /\ n.pc = "attach" /\ n.s = req[r].s /\ n.mode = req[r].mode /\ n.run = req[r].run
        /\ n.then = req[r].then
    BY <1>1, <2>1, AtIs
  <2> HIDE DEF n
  <2>4. Where(n) /\ ~NotStarted(n)
    BY <1>1, <1>3, <2>3 DEF Where, NotStarted, Following, Resuming, ParkTail
  <2>5. Moves(r, n)
    BY <1>2, <1>3, <2>1, <2>3, <2>4 DEF Moves
  <2>6. \A u \in Tokens : KeepsRun(u)
    BY <1>1, <1>5 DEF KeepsRun
  <2>7. HistoryApart /\ flight \in [Requests -> Flight] /\ run \in [Tokens -> Run]
    BY DEF EInv, MInv, ManagerTypeOK
  <2> QED BY <1>1, <1>5, <2>2, <2>5, <2>6, <2>7, MovesKeep DEF HistoryApart
<1>6. ASSUME SetBillingRunID(req[r].run) PROVE UNCHANGED <<file, lease, history>>
  BY <1>3, <1>6, BillingIs DEF EInv
<1> QED BY <1>4, <1>5, <1>6 DEF ResumeBilling, vars

-----------------------------------------------------------------------------
(***************************************************************************)
(* Reservations and claims.                                                *)
(***************************************************************************)
LEMMA ClaimMoves ==
    ASSUME EInv, IInv', NEW r \in Requests, NEW n \in Req, req' = [req EXCEPT ![r] = n],
           UNCHANGED <<history, active, run, flight, out, completed, issued>>,
           starting' \subseteq {s \in Sessions : active[s] = NoToken},
           \A q \in Requests \ {r} : req[q].pc \in Reserving => req[q].s \in starting',
           \A q \in Requests \ {r} : n.pc \in Reserving /\ req[q].pc \in Reserving => req[q].s # n.s,
           \A q \in Requests \ {r} : req[q].pc = "claimed" => file'[req[q].s] # NoFile,
           \A u \in Tokens : \/ lease'[u] = lease[u]
                             \/ /\ run[u].ph = "none"
                                /\ \A q \in Requests \ {r} : req[q].pc \in Claiming => req[q].run # u,
           \A u \in Tokens : Holds(u)' /\ (lease'[u] # lease[u] \/ (req[r].pc \in Claiming /\ req[r].run = u))
                             => lease'[u].proc = Self /\ n.pc \in Claiming /\ n.run = u,
           \A s \in HistorySessions : file'[s] # NoFile => file'[s].pending = {},
           req[r].pc \notin Canceling, out[r].s \notin HistorySessions,
           Where(n), RequestHolds(r)', NotStarted(n) => NotStarted(req[r])
    PROVE  EInv'
<1>1. MInv /\ ManagerTypeOK
  BY DEF EInv, MInv
<1>2. req'[r] = n /\ \A q \in Requests : q # r => req'[q] = req[q]
  BY <1>1 DEF ManagerTypeOK
<1>3. ManagerTypeOK'
  BY <1>1 DEF ManagerTypeOK
<1>4. ASSUME NEW q \in Requests PROVE RequestOK(q)'
  <2>1. RequestOK(q)
    BY <1>1 DEF MInv
  <2>2. CASE q # r
    <3>1. /\ req[q].pc \in Claiming \cup Bound => req[q].run \in Tokens
          /\ req[q].pc \in Claiming => lease'[req[q].run] = lease[req[q].run] /\ run[req[q].run].ph = "none"
          /\ req[q].pc \in Bound => lease'[req[q].run] = lease[req[q].run] /\ run[req[q].run].ph # "none"
      BY <2>1, <2>2 DEF RequestOK, RequestHolds
    <3>2. /\ req[q].pc \in Reserving => req[q].s \in starting'
          /\ req[q].pc = "claimed" => file'[req[q].s] # NoFile
          /\ req[q].pc = "cancelRelease" => run'[req[q].run].cancelled
      BY <2>1, <2>2 DEF RequestOK, RequestHolds
    <3>3. KeepsRequest(q)
      BY <1>2, <2>2, <3>1, <3>2 DEF KeepsRequest
    <3> QED BY <2>1, <3>3, RequestKept
  <2>3. CASE q = r
    <3>1. NoOutput(r)'
      BY <1>2, <2>1, <2>3 DEF RequestOK, NoOutput, NotStarted
    <3>2. HistoryOutput(r)' /\ Where(req[r])'
      BY <1>2 DEF HistoryOutput, Where
    <3> QED BY <2>3, <3>1, <3>2 DEF RequestOK
  <2> QED BY <2>2, <2>3
<1>5. ASSUME NEW u \in Tokens PROVE RunOK(u)'
  <2>1. KeepsRun(u)
    BY DEF KeepsRun
  <2> QED BY <2>1, RunKept DEF KeepsAnswers, SameKey
<1>6. ReservedOnce'
  BY <1>1, <1>2 DEF MInv, ReservedOnce
<1>7. ActiveOK'
  BY <1>1 DEF MInv, ActiveOK, ManagerTypeOK
<1>8. ASSUME NEW u \in Tokens PROVE HeldBy(u)'
  <2> SUFFICES ASSUME Holds(u)' PROVE HeldBy(u)'
    BY DEF HeldBy
  <2>1. CASE lease'[u] # lease[u] \/ (req[r].pc \in Claiming /\ req[r].run = u)
    BY <1>2, <2>1 DEF HeldBy
  <2>2. CASE lease'[u] = lease[u] /\ ~(req[r].pc \in Claiming /\ req[r].run = u)
    <3>1. HeldBy(u) /\ Holds(u)
      BY <1>1, <2>2 DEF MInv, Holds
    <3> QED BY <1>2, <2>2, <3>1 DEF HeldBy
  <2> QED BY <2>1, <2>2
<1>9. HistoryApart'
  BY <1>1 DEF MInv, HistoryApart
<1>10. ASSUME NEW q \in Requests PROVE HistoryDone(q)'
  BY <1>1 DEF MInv, HistoryDone
<1> QED BY <1>3, <1>4, <1>5, <1>6, <1>7, <1>8, <1>9, <1>10 DEF EInv, MInv

\* Requests that reserve hold different sessions and claims.
LEMMA ReservedApart ==
    ASSUME EInv, NEW r \in Requests, NEW q \in Requests, q # r,
           req[r].pc \in Reserving, req[q].pc \in Reserving
    PROVE  /\ req[q].s # req[r].s /\ req[r].s \in starting /\ req[q].s \in starting
           /\ req[r].pc \in Claiming /\ req[q].pc \in Claiming => req[q].run # req[r].run
BY DEF EInv, MInv, ReservedOnce, RequestOK, RequestHolds

LEMMA ReserveStep == ASSUME EInv, NEW r \in Requests, Reserve(r) PROVE EInv'
<1> DEFINE s == req[r].s
           label == ReserveNext(r)
           n == At(req[r], label)
<1>1. /\ req[r].pc \in {"reserve", "cold", "follow", "followAgain"} /\ req[r] \in Req /\ Where(req[r])
      /\ UNCHANGED <<vars, active, run, flight, out, completed, issued>>
  BY RequestIs DEF Reserve
<1>2. CASE active[s] = NoToken /\ s \notin starting
  <2>1. starting' = starting \cup {s} /\ req' = [req EXCEPT ![r] = n]
    BY <1>2, GotoIs DEF Reserve
  <2>2. /\ label \in {"claim", "followLookup"} /\ label \in Labels
        /\ label = "followLookup" => req[r].pc \in {"follow", "followAgain"}
        /\ label = "claim" => req[r].pc \in {"reserve", "cold"}
        /\ label \in Reserving /\ label \notin Claiming \cup Canceling \cup Bound \cup Reading
    BY <1>1 DEF ReserveNext, Labels, Claiming, Reserving, Canceling, Bound, Resuming, ParkTail, Reading
  <2> HIDE DEF label
  <2>3. n \in Req /\ n.pc = label /\ n.s = s /\ n.mode = req[r].mode
    BY <1>1, <2>2, AtIs
  <2> HIDE DEF n
  <2>4. Where(n) /\ s \in Sessions /\ req[r].pc \notin Claiming \cup Canceling
    BY <1>1, <2>2, <2>3 DEF Where, Following, Resuming, ParkTail, Claiming, Canceling, Ordinary
  <2>5. NotStarted(n) => NotStarted(req[r])
    BY <1>1, <2>2, <2>3 DEF NotStarted, Where, Ordinary
  <2>6. out[r].s \notin HistorySessions
    BY <1>1, NotHistoryOutput DEF Canceling
  <2>7. RequestHolds(r)'
    <3>1. req'[r] = n
      BY <2>1 DEF EInv, MInv, ManagerTypeOK
    <3> QED BY <2>1, <2>2, <2>3, <3>1 DEF RequestHolds, Claiming, Canceling
  <2>8. \A q \in Requests \ {r} : req[q].pc \in Reserving => req[q].s \in starting
    BY DEF EInv, MInv, RequestOK, RequestHolds
  <2>9. /\ IInv' /\ starting \subseteq {u \in Sessions : active[u] = NoToken} /\ HistoryApart
        /\ \A q \in Requests : req[q].pc = "claimed" => file[req[q].s] # NoFile
    BY <1>1, StoreQuiet DEF EInv, MInv, ManagerTypeOK, RequestOK, RequestHolds
  <2>10. \A q \in Requests \ {r} : req[q].pc \in Reserving => req[q].s # n.s
    BY <1>2, <2>3, <2>8
  <2> QED BY <1>1, <1>2, <2>1, <2>3, <2>4, <2>5, <2>6, <2>7, <2>8, <2>9, <2>10, ClaimMoves
             DEF HistoryApart, vars
<1>3. CASE ~(active[s] = NoToken /\ s \notin starting)
  <2>1. req' = Goto(r, ReserveElse(r)) /\ starting' = starting
    BY <1>3 DEF Reserve
  <2> QED BY <2>1, ReserveElseStep
<1> QED BY <1>2, <1>3

LEMMA UnreserveStep == ASSUME EInv, NEW r \in Requests, Unreserve(r) PROVE EInv'
<1> DEFINE label == req[r].then
           n == At(req[r], label)
<1>1. /\ req[r].pc = "unreserve" /\ req[r] \in Req /\ Where(req[r]) /\ req' = [req EXCEPT ![r] = n]
      /\ UNCHANGED <<vars, active, run, flight, out, completed, issued>> /\ starting' = starting \ {req[r].s}
  BY RequestIs, GotoIs DEF Unreserve
<1>2. /\ label \in {"done", "fallback", "start", "awaitLast"} /\ label \in Labels
      /\ label = "awaitLast" => Ordinary(req[r].s)
      /\ label \notin Reserving \cup Claiming \cup Canceling \cup Bound \cup Reading
      /\ req[r].pc \in Reserving /\ req[r].s \in Sessions /\ req[r].pc \notin Claiming \cup Canceling
  BY <1>1 DEF Where, Labels, Claiming, Reserving, Canceling, Bound, Resuming, ParkTail, Reading
<1> HIDE DEF label
<1>3. n \in Req /\ n.pc = label /\ (label # "done" => n.s = req[r].s /\ n.mode = req[r].mode)
      /\ (label = "done" => n.mode = "start")
  BY <1>1, <1>2, AtIs
<1> HIDE DEF n
<1>4. Where(n)
  BY <1>1, <1>2, <1>3 DEF Where, Following, Resuming, ParkTail, Ordinary
<1>5. NotStarted(n) => NotStarted(req[r])
  BY <1>1, <1>2, <1>3 DEF NotStarted
<1>6. out[r].s \notin HistorySessions
  BY <1>1, NotHistoryOutput DEF Canceling
<1>7. RequestHolds(r)'
  <2>1. req'[r] = n
    BY <1>1 DEF EInv, MInv, ManagerTypeOK
  <2> QED BY <1>2, <1>3, <2>1 DEF RequestHolds, Claiming, Canceling
<1>8. \A q \in Requests \ {r} : req[q].pc \in Reserving => req[q].s \in starting'
  BY <1>1, <1>2, ReservedApart
<1>9. /\ IInv' /\ starting \subseteq {u \in Sessions : active[u] = NoToken} /\ HistoryApart
      /\ \A q \in Requests : req[q].pc = "claimed" => file[req[q].s] # NoFile
  BY <1>1, StoreQuiet DEF EInv, MInv, ManagerTypeOK, RequestOK, RequestHolds
<1> QED BY <1>1, <1>2, <1>3, <1>4, <1>5, <1>6, <1>7, <1>8, <1>9, ClaimMoves DEF HistoryApart, vars

\* A request with a claim, and its lease.
LEMMA ClaimIs ==
    ASSUME EInv, NEW r \in Requests, req[r].pc \in Claiming
    PROVE  /\ req[r].run \in Tokens /\ lease[req[r].run] \in Lease /\ lease[req[r].run].session = req[r].s
           /\ lease[req[r].run].proc = Self /\ run[req[r].run].ph = "none" /\ req[r].s \in Sessions
           /\ lease[req[r].run].st = IF req[r].pc = "claiming" THEN "claiming" ELSE "owned"
           /\ out[r].s \notin HistorySessions
           /\ req[r].pc \notin Canceling /\ req[r].pc \in Reserving
           /\ req[r].pc = "claimed" => file[req[r].s] \in File
<1>1. /\ req[r].run \in Tokens /\ lease[req[r].run].session = req[r].s /\ run[req[r].run].ph = "none"
      /\ lease[req[r].run].st = IF req[r].pc = "claiming" THEN "claiming" ELSE "owned"
      /\ req[r].pc = "claimed" => file[req[r].s] # NoFile
  BY RequestIs DEF RequestHolds
<1>2. lease[req[r].run] \in Lease /\ Holds(req[r].run)
  BY <1>1, HeldIsLease DEF EInv, IInv, Holds
<1>3. lease[req[r].run].proc = Self
  BY <1>1, <1>2 DEF EInv, MInv, HeldBy
<1>4. req[r].s \in Sessions
  BY <1>1, <1>2 DEF Lease
<1>5. out[r].s \notin HistorySessions
  BY NotHistoryOutput DEF Claiming, Canceling
<1> QED BY <1>1, <1>2, <1>3, <1>4, <1>5 DEF EInv, IInv, TypeOK, Claiming, Canceling, Reserving

\* A request gives up its claim, and its lease is released.
LEMMA ClaimGivenUp ==
    ASSUME EInv, IInv', NEW r \in Requests, req[r].pc \in Claiming,
           NEW next \in {"done", "fallback"}, req' = GiveUpClaim(r, next),
           UNCHANGED <<history, active, starting, run, flight, out, completed, issued>>,
           Drop(req[r].run),
           \A s \in Sessions \ {req[r].s} : file'[s] = file[s],
           file'[req[r].s] \in {file[req[r].s], NoFile}
    PROVE  EInv'
<1> DEFINE t == req[r].run
           n == GivesUp(req[r], next)
<1>1. /\ t \in Tokens /\ run[t].ph = "none" /\ lease[t] \in Lease /\ req[r].s \in Sessions
      /\ out[r].s \notin HistorySessions /\ req[r].pc \in Reserving /\ req[r].pc \notin Canceling
  BY ClaimIs
<1>2. req' = [req EXCEPT ![r] = n] /\ req[r] \in Req /\ Where(req[r])
  BY GiveUpClaimIs, RequestIs
<1>3. next \in Labels
  BY DEF Labels
<1>4. /\ n \in Req /\ n.pc \in {"failCold", "unreserve"} /\ n.then = next /\ n.s = req[r].s
      /\ n.mode = req[r].mode /\ (req[r].mode # "cold" => n.pc = "unreserve")
  BY <1>2, <1>3, GivesUpIs
<1> HIDE DEF n
<1>5. Where(n)
  BY <1>1, <1>2, <1>4 DEF Where, Following, Resuming, ParkTail
<1>6. NotStarted(n) => NotStarted(req[r])
  BY <1>2, <1>4 DEF NotStarted, Where, Ordinary, Claiming, Following
<1>7. n.pc \notin Claiming \cup Canceling \cup Bound \cup Reading /\ n.pc \in Reserving
  BY <1>4 DEF Claiming, Reserving, Canceling, Bound, Resuming, ParkTail, Reading
<1>8. /\ starting \subseteq {s \in Sessions : active[s] = NoToken}
      /\ req[r].s \in starting /\ HistoryApart
      /\ \A q \in Requests : /\ req[q].pc \in Reserving => req[q].s \in starting
                             /\ req[q].pc = "claimed" => file[req[q].s] # NoFile /\ req[q].s \in Sessions
  BY <1>1 DEF EInv, MInv, ManagerTypeOK, RequestOK, RequestHolds, Where, HistoryApart
<1>9. RequestHolds(r)'
  <2>1. req'[r] = n
    BY <1>2 DEF EInv, MInv, ManagerTypeOK
  <2> QED BY <1>4, <1>7, <1>8, <2>1 DEF RequestHolds, Claiming, Canceling
<1>10. \A q \in Requests \ {r} :
          req[q].pc \in Reserving => req[q].s # n.s /\ (req[q].pc \in Claiming => req[q].run # t)
  <2> TAKE q \in Requests \ {r}
  <2> HAVE req[q].pc \in Reserving
  <2>1. CASE req[q].pc \in Claiming
    BY <1>1, <1>4, <2>1, ReservedApart
  <2>2. CASE req[q].pc \notin Claiming
    BY <1>1, <1>4, <2>2, ReservedApart
  <2> QED BY <2>1, <2>2
<1>11. \A q \in Requests \ {r} : req[q].pc = "claimed" => file'[req[q].s] # NoFile
  BY <1>4, <1>8, <1>10 DEF Reserving, Claiming
<1>12. lease' = [lease EXCEPT ![t].st = "released"]
  BY DEF Drop
<1>13. \A u \in Tokens \ {t} : lease'[u] = lease[u]
  BY <1>12 DEF EInv, IInv, TypeOK
<1>14. lease'[t].st = "released"
  BY <1>1, <1>12 DEF EInv, IInv, TypeOK, Lease
<1>15. \A u \in Tokens : \/ lease'[u] = lease[u]
                         \/ /\ run[u].ph = "none"
                            /\ \A q \in Requests \ {r} : req[q].pc \in Claiming => req[q].run # u
  BY <1>1, <1>10, <1>13 DEF Reserving
<1>16. \A u \in Tokens : ~(Holds(u)' /\ (lease'[u] # lease[u] \/ (req[r].pc \in Claiming /\ req[r].run = u)))
  BY <1>13, <1>14 DEF Holds
<1>17. \A s \in HistorySessions : file'[s] # NoFile => file'[s].pending = {}
  BY <1>8, ConstantsAssumption DEF HistoryApart
<1> HIDE DEF t
<1> QED BY <1>1, <1>2, <1>4, <1>5, <1>6, <1>8, <1>9, <1>10, <1>11, <1>15, <1>16, <1>17, ClaimMoves

LEMMA ClaimReturnsStep == ASSUME EInv, IInv', NEW r \in Requests, ClaimReturns(r) PROVE EInv'
<1> DEFINE t == req[r].run
           next == IF req[r].mode = "cold" THEN "fallback" ELSE "done"
<1>1. /\ req[r].pc = "claiming" /\ req' = GiveUpClaim(r, next)
      /\ UNCHANGED <<active, starting, run, flight, out, completed, issued>>
  BY DEF ClaimReturns
<1>2. req[r].pc \in Claiming /\ next \in {"done", "fallback"}
  BY <1>1 DEF Claiming
<1> HIDE DEF next
<1>3. t \in Tokens /\ lease[t].session = req[r].s /\ req[r].s \in Sessions
  BY <1>2, ClaimIs
<1>4. Drop(t) /\ history' = history /\ (file' = file \/ file' = [file EXCEPT ![req[r].s] = Current(req[r].s)])
  BY <1>3 DEF ClaimReturns, ClaimReplay, ClaimRefused
<1>5. /\ \A s \in Sessions \ {req[r].s} : file'[s] = file[s]
      /\ file'[req[r].s] \in {file[req[r].s], NoFile}
  BY <1>3, <1>4 DEF Current, EInv, IInv, TypeOK
<1> QED BY <1>1, <1>2, <1>4, <1>5, ClaimGivenUp

LEMMA ColdMismatchStep == ASSUME EInv, IInv', NEW r \in Requests, ColdMismatch(r) PROVE EInv'
<1>1. req[r].pc \in Claiming
  BY DEF ColdMismatch, Claiming
<1> QED BY <1>1, ClaimGivenUp DEF ColdMismatch, Release

LEMMA FollowReleasesStep ==
    ASSUME EInv, IInv', NEW r \in Requests, FollowClaimed(r), Release(req[r].run), req' = GiveUpClaim(r, "done")
    PROVE  EInv'
<1>1. req[r].pc \in Claiming
  BY DEF FollowClaimed, Claiming
<1> QED BY <1>1, ClaimGivenUp DEF FollowClaimed, Release

LEMMA ClaimAcquireStep == ASSUME EInv, IInv', NEW r \in Requests, ClaimAcquire(r) PROVE EInv'
<1> DEFINE t == NewToken
           s == req[r].s
           n == [req[r] EXCEPT !.pc = "claiming", !.run = t]
           l == [st |-> "claiming", session |-> s, proc |-> Self, cred |-> Account, gen |-> 0]
<1>1. /\ req[r].pc = "claim" /\ req[r] \in Req /\ Where(req[r]) /\ req' = [req EXCEPT ![r] = n]
      /\ UNCHANGED <<file, history, active, starting, run, flight, out, completed, issued>>
      /\ lease' = [lease EXCEPT ![t] = l]
  BY RequestIs DEF ClaimAcquire, Acquire, EInv, MInv, ManagerTypeOK
<1>2. t \in Tokens /\ lease[t] = NoLease
  BY DEF ClaimAcquire, NewToken
<1> HIDE DEF t
<1>3. "claiming" \in Labels /\ "claiming" \in Reserving /\ "claiming" \in Claiming
      /\ "claiming" \notin Canceling \cup Bound \cup Reading /\ req[r].pc \in Reserving
      /\ req[r].pc \notin Claiming \cup Canceling
  BY <1>1 DEF Labels, Claiming, Reserving, Canceling, Bound, Resuming, ParkTail, Reading
<1>4. n \in Req /\ n.pc = "claiming" /\ n.s = s /\ n.mode = req[r].mode /\ n.run = t
  BY <1>1, <1>2, <1>3 DEF Req
<1> HIDE DEF n
<1>5. Where(n) /\ (NotStarted(n) => NotStarted(req[r]))
  BY <1>1, <1>4 DEF Where, NotStarted, Following, Resuming, ParkTail
<1>6. out[r].s \notin HistorySessions
  BY <1>1, NotHistoryOutput DEF Canceling
<1>7. run[t].ph = "none" /\ \A q \in Requests : req[q].pc \in Claiming => req[q].run # t
  BY <1>2 DEF EInv, MInv, RunOK, RequestOK, RequestHolds, NoLease
<1>8. lease'[t] = l /\ \A u \in Tokens \ {t} : lease'[u] = lease[u]
  BY <1>1, <1>2 DEF EInv, IInv, TypeOK
<1>9. /\ starting \subseteq {u \in Sessions : active[u] = NoToken}
      /\ s \in starting /\ HistoryApart
      /\ \A q \in Requests : /\ req[q].pc \in Reserving => req[q].s \in starting
                             /\ req[q].pc = "claimed" => file[req[q].s] # NoFile
  BY <1>3 DEF EInv, MInv, ManagerTypeOK, RequestOK, RequestHolds
<1>10. RequestHolds(r)'
  <2>1. req'[r] = n
    BY <1>1 DEF EInv, MInv, ManagerTypeOK
  <2> QED BY <1>1, <1>2, <1>3, <1>4, <1>7, <1>8, <1>9, <2>1 DEF RequestHolds
<1>11. \A q \in Requests \ {r} : req[q].pc \in Reserving => req[q].s # n.s
  BY <1>3, <1>4, ReservedApart
<1>12. \A u \in Tokens : \/ lease'[u] = lease[u]
                         \/ /\ run[u].ph = "none"
                            /\ \A q \in Requests \ {r} : req[q].pc \in Claiming => req[q].run # u
  BY <1>7, <1>8
<1>13. \A u \in Tokens : Holds(u)' /\ (lease'[u] # lease[u] \/ (req[r].pc \in Claiming /\ req[r].run = u))
                         => lease'[u].proc = Self /\ n.pc \in Claiming /\ n.run = u
  BY <1>3, <1>4, <1>8
<1>14. \A x \in HistorySessions : file'[x] # NoFile => file'[x].pending = {}
  BY <1>1, <1>9 DEF HistoryApart
<1> QED BY <1>1, <1>3, <1>4, <1>5, <1>6, <1>9, <1>10, <1>11, <1>12, <1>13, <1>14, ClaimMoves

\* A request that goes on with its claim.
LEMMA ClaimGoesOn ==
    ASSUME EInv, IInv', NEW r \in Requests, req[r].pc \in Claiming,
           NEW label \in {"claimed", "launch"}, label = "launch" => Ordinary(req[r].s),
           req' = Goto(r, label),
           UNCHANGED <<history, active, starting, run, flight, out, completed, issued>>,
           \A u \in Tokens \ {req[r].run} : lease'[u] = lease[u],
           lease'[req[r].run].session = req[r].s, lease'[req[r].run].proc = Self,
           lease'[req[r].run].st = "owned",
           \A s \in Sessions \ {req[r].s} : file'[s] = file[s], file'[req[r].s] # NoFile,
           req[r].s \in HistorySessions => file'[req[r].s].pending = {}
    PROVE  EInv'
<1> DEFINE t == req[r].run
           s == req[r].s
           n == At(req[r], label)
<1>1. /\ req[r] \in Req /\ Where(req[r]) /\ req' = [req EXCEPT ![r] = n]
      /\ t \in Tokens /\ s \in Sessions /\ run[t].ph = "none" /\ out[r].s \notin HistorySessions
      /\ req[r].pc \in Reserving /\ req[r].pc \notin Canceling
  BY RequestIs, GotoIs, ClaimIs
<1>2. label \in Labels /\ label \in Reserving /\ label \in Claiming /\ label \notin Canceling \cup Bound \cup Reading
  BY DEF Labels, Claiming, Reserving, Canceling, Bound, Resuming, ParkTail, Reading
<1>3. n \in Req /\ n.pc = label /\ n.s = s /\ n.mode = req[r].mode /\ n.run = t
  BY <1>1, <1>2, AtIs
<1> HIDE DEF n
<1>4. Where(n)
  BY <1>1, <1>3 DEF Where, Following, Resuming, ParkTail
<1>5. NotStarted(n) => NotStarted(req[r])
  BY <1>1, <1>3 DEF NotStarted, Where, Ordinary, Claiming
<1>6. /\ starting \subseteq {u \in Sessions : active[u] = NoToken}
      /\ s \in starting /\ HistoryApart
      /\ \A q \in Requests : /\ req[q].pc \in Reserving => req[q].s \in starting
                             /\ req[q].pc = "claimed" => file[req[q].s] # NoFile /\ req[q].s \in Sessions
  BY <1>1 DEF EInv, MInv, ManagerTypeOK, RequestOK, RequestHolds, Where
<1>7. RequestHolds(r)'
  <2>1. req'[r] = n
    BY <1>1 DEF EInv, MInv, ManagerTypeOK
  <2> QED BY <1>1, <1>2, <1>3, <1>6, <2>1 DEF RequestHolds
<1>8. \A q \in Requests \ {r} :
          req[q].pc \in Reserving => req[q].s # s /\ (req[q].pc \in Claiming => req[q].run # t)
  BY <1>1, ReservedApart
<1>9. \A q \in Requests \ {r} : req[q].pc = "claimed" => file'[req[q].s] # NoFile
  BY <1>6, <1>8 DEF Reserving, Claiming
<1>10. \A u \in Tokens : \/ lease'[u] = lease[u]
                         \/ /\ run[u].ph = "none"
                            /\ \A q \in Requests \ {r} : req[q].pc \in Claiming => req[q].run # u
  BY <1>1, <1>8 DEF Reserving
<1>11. \A u \in Tokens : Holds(u)' /\ (lease'[u] # lease[u] \/ (req[r].pc \in Claiming /\ req[r].run = u))
                         => lease'[u].proc = Self /\ n.pc \in Claiming /\ n.run = u
  BY <1>2, <1>3
<1>12. \A x \in HistorySessions : file'[x] # NoFile => file'[x].pending = {}
  BY <1>6, ConstantsAssumption DEF HistoryApart
<1> HIDE DEF t, s
<1> QED BY <1>1, <1>3, <1>4, <1>5, <1>6, <1>7, <1>8, <1>9, <1>10, <1>11, <1>12, ClaimMoves

\* The options a request passes are options its session may be claimed with;
\* for a history key they wipe the state.
LEMMA OptionsAreClaims ==
    ASSUME EInv, NEW r \in Requests, req[r].s \in Sessions, NEW o \in OptionsOf(r)
    PROVE  /\ o \in ClaimOptions(req[r].s)
           /\ req[r].s \in HistorySessions => o.history
<1>1. Where(req[r]) /\ req[r] \in Req
  BY RequestIs
<1>2. /\ req[r].mode = "cold" => o \in ResumeOptions /\ req[r].s \notin HistorySessions
      /\ req[r].mode = "follow" => o \in FollowUpOptions /\ req[r].s \notin HistorySessions
      /\ req[r].mode = "start" /\ req[r].s \in HistorySessions => o \in HistoryOptions
      /\ req[r].mode = "start" /\ req[r].s \notin HistorySessions => o \in StartOptions
      /\ req[r].mode \in {"start", "cold", "follow"}
  BY <1>1 DEF OptionsOf, Where, Ordinary, Req
<1> QED BY <1>2 DEF ClaimOptions, HistoryOptions

LEMMA ClaimCommitsStep == ASSUME EInv, IInv', NEW r \in Requests, ClaimCommits(r) PROVE EInv'
<1> DEFINE t == req[r].run
           s == req[r].s
<1>1. /\ req[r].pc = "claiming" /\ req' = Goto(r, "claimed") /\ req[r].pc \in Claiming
      /\ UNCHANGED <<active, starting, run, flight, out, completed, issued>>
  BY DEF ClaimCommits, Claiming
<1>2. PICK o \in OptionsOf(r) : ClaimCommitted(t, o, TRUE, Metering /\ req[r].mode # "cold", TRUE)
  BY DEF ClaimCommits
<1> DEFINE rec == Claimed(Current(s), lease[t].cred, o, t, TRUE, Metering /\ req[r].mode # "cold")
<1>3. t \in Tokens /\ lease[t] \in Lease /\ lease[t].session = s /\ lease[t].proc = Self /\ s \in Sessions
  BY <1>1, ClaimIs
<1>4. /\ lease' = [lease EXCEPT ![t].st = "owned", ![t].gen = rec.gen]
      /\ file' = [file EXCEPT ![s] = rec] /\ history' = history
      /\ ~Refused(Current(s), lease[t].cred, o)
  BY <1>2, <1>3 DEF ClaimCommitted
<1>5. Current(s) \in File \cup {NoFile} /\ (Current(s) # NoFile => BoundToCredential(Current(s)))
      /\ lease[t].cred \in Creds /\ (Metering /\ req[r].mode # "cold") \in BOOLEAN
  BY <1>3 DEF Current, EInv, IInv, TypeOK, CredentialBound, Lease
<1>6. o \in ClaimOptions(s) /\ (s \in HistorySessions => o.history)
  BY <1>3, OptionsAreClaims
<1>7. rec \in File
  BY <1>3, <1>4, <1>5, <1>6, ClaimedRecord
<1>8. s \in HistorySessions => rec.pending = {}
  BY <1>6 DEF Claimed
<1> HIDE DEF rec
<1>9. /\ \A u \in Tokens \ {t} : lease'[u] = lease[u]
      /\ lease'[t].session = s /\ lease'[t].proc = Self /\ lease'[t].st = "owned"
  BY <1>3, <1>4 DEF EInv, IInv, TypeOK, Lease
<1>10. /\ \A x \in Sessions \ {s} : file'[x] = file[x]
       /\ file'[s] = rec /\ file'[s] # NoFile
  BY <1>3, <1>4, <1>7, NoFileAssumption DEF EInv, IInv, TypeOK
<1> QED BY <1>1, <1>4, <1>8, <1>9, <1>10, ClaimGoesOn

LEMMA FollowClaimedStep == ASSUME EInv, IInv', NEW r \in Requests, FollowClaimed(r) PROVE EInv'
<1> DEFINE t == req[r].run
           s == req[r].s
<1>1. /\ req[r].pc = "claimed" /\ req[r].pc \in Claiming /\ req[r].mode = "follow" /\ Where(req[r])
      /\ UNCHANGED <<active, starting, run, flight, out, completed, issued>>
  BY RequestIs DEF FollowClaimed, Claiming
<1>2. ASSUME NEW some \in BOOLEAN, SaveUsageCarry(t, some), req' = Goto(r, "launch") PROVE EInv'
  <2>1. t \in Tokens /\ lease[t] \in Lease /\ lease[t].session = s /\ lease[t].proc = Self /\ s \in Sessions
        /\ lease[t].st = "owned"
    BY <1>1, ClaimIs
  <2> DEFINE rec == [file[s] EXCEPT !.carry = IF some THEN lease[t].cred ELSE NoCred]
  <2>2. file' = [file EXCEPT ![s] = rec] /\ UNCHANGED <<lease, history>> /\ MayUpdate(t)
    BY <1>2, <2>1 DEF SaveUsageCarry, Write
  <2>3. file[s] \in File /\ lease[t].cred \in Creds
    BY <2>1, <2>2, OwnerHasFile DEF EInv
  <2>4. rec \in File
    BY <2>3 DEF File
  <2>5. Ordinary(s) /\ s \notin HistorySessions
    BY <1>1 DEF Where, Ordinary
  <2> HIDE DEF rec
  <2>6. (\A x \in Sessions \ {s} : file'[x] = file[x]) /\ file'[s] # NoFile
    BY <2>1, <2>2, <2>4, NoFileAssumption DEF EInv, IInv, TypeOK
  <2> QED BY <1>1, <1>2, <2>1, <2>2, <2>5, <2>6, ClaimGoesOn
<1> QED BY <1>2, FollowReleasesStep DEF FollowClaimed

-----------------------------------------------------------------------------
(***************************************************************************)
(* A run is started, and the steps of a request that work on a run.        *)
(***************************************************************************)
LEMMA StartClaimedStep ==
    ASSUME EInv, NEW r \in Requests, req[r].pc \in {"claimed", "launch"},
           NEW new \in Run, NEW next \in {"consume", "bindCold"}, StartClaimed(r, new, next),
           ~new.cancelled, new.last = NoReq,
           req[r].s \in HistorySessions => new.up = {} /\ new.queue = {} /\ new.seg = {} /\ next = "consume"
    PROVE  EInv'
<1> DEFINE t == req[r].run
           s == req[r].s
           n == At(req[r], next)
           m == [new EXCEPT !.ph = "running", !.out = r]
<1>1. req[r].pc \in Claiming /\ req[r].pc # "claiming" /\ MInv /\ ManagerTypeOK
  BY DEF Claiming, EInv, MInv
<1>2. /\ t \in Tokens /\ lease[t] \in Lease /\ lease[t].session = s /\ lease[t].proc = Self
      /\ run[t].ph = "none" /\ s \in Sessions /\ lease[t].st = "owned" /\ out[r].s \notin HistorySessions
      /\ req[r].pc \in Reserving
  BY <1>1, ClaimIs
<1>3. /\ active' = [active EXCEPT ![s] = t] /\ starting' = starting \ {s}
      /\ run' = [run EXCEPT ![t] = m] /\ out' = [out EXCEPT ![r] = NewOut(s)]
      /\ req' = [req EXCEPT ![r] = n] /\ UNCHANGED <<vars, flight, completed, issued>>
      /\ req[r] \in Req /\ Where(req[r])
  BY GotoIs, RequestIs DEF StartClaimed
<1>4. next \in Labels /\ next \in Reading /\ next \notin Reserving \cup Claiming \cup Bound \cup Canceling
  BY DEF Labels, Claiming, Reserving, Canceling, Bound, Resuming, ParkTail, Reading
<1>5. n \in Req /\ n.pc = next /\ n.s = s /\ n.mode = req[r].mode
  BY <1>3, <1>4, AtIs
<1>6. /\ m \in Run /\ m.ph = "running" /\ m.out = r /\ m.last = NoReq /\ ~m.cancelled
      /\ m.up = new.up /\ m.queue = new.queue /\ m.seg = new.seg
  BY DEF Run
<1>7. /\ NewOut(s) \in Out /\ NewOut(s).s = s /\ NewOut(s).turn = FALSE /\ NewOut(s).done = FALSE
  BY <1>2 DEF NewOut, NoOut, Out
<1> HIDE DEF n, m
<1>8. /\ req'[r] = n /\ \A q \in Requests : q # r => req'[q] = req[q]
      /\ run'[t] = m /\ \A u \in Tokens : u # t => run'[u] = run[u]
      /\ out'[r] = NewOut(s) /\ \A q \in Requests : q # r => out'[q] = out[q]
      /\ active'[s] = t /\ \A x \in Sessions : x # s => active'[x] = active[x]
  BY <1>1, <1>2, <1>3 DEF ManagerTypeOK
<1>9. UNCHANGED <<file, lease, history>> /\ IInv'
  BY <1>3, StoreQuiet DEF vars
<1>10. ManagerTypeOK'
  BY <1>1, <1>2, <1>3, <1>5, <1>6, <1>7, <1>8 DEF ManagerTypeOK
<1>11. ASSUME NEW q \in Requests PROVE RequestOK(q)'
  <2>1. RequestOK(q)
    BY <1>1 DEF MInv
  <2>2. CASE q # r
    <3>1. /\ req[q].pc \in Reserving => req[q].s # s /\ req[q].s \in starting
          /\ req[q].pc \in Claiming => req[q].run # t
      BY <1>1, <1>2, <2>2, ReservedApart DEF Reserving
    <3>2. /\ req[q].pc \in Claiming \cup Bound => req[q].run \in Tokens /\ req[q].run # t
          /\ req[q].pc \in Claiming => run[req[q].run].ph = "none"
          /\ req[q].pc \in Bound => run[req[q].run].ph # "none"
          /\ req[q].pc = "claimed" => file[req[q].s] # NoFile
          /\ req[q].pc = "cancelRelease" => run[req[q].run].cancelled /\ req[q].run # t
      BY <1>2, <2>1, <3>1 DEF RequestOK, RequestHolds, Bound, Canceling
    <3>3. /\ \A u \in Tokens : run'[u].out \in {run[u].out, NoReq} \/ run'[u].out # q
          /\ \A u \in Tokens : run'[u].last \in {run[u].out, run[u].last, NoReq} \/ run'[u].last # q
      BY <1>6, <1>8, <2>2
    <3>4. /\ req'[q] = req[q] /\ out'[q] = out[q] /\ (req[q].pc \in Reserving => req[q].s \in starting')
      BY <1>3, <1>8, <2>2, <3>1
    <3>5. /\ req[q].pc \in Claiming => run'[req[q].run].ph = "none"
          /\ req[q].pc \in Bound => run'[req[q].run].ph # "none"
          /\ req[q].pc = "cancelRelease" => run'[req[q].run].cancelled
      BY <1>8, <3>2 DEF Bound, Canceling
    <3>6. KeepsRequest(q)
      BY <1>9, <3>2, <3>3, <3>4, <3>5 DEF KeepsRequest
    <3> QED BY <2>1, <3>6, RequestKept
  <2>3. CASE q = r
    <3>1. Where(n) /\ ~NotStarted(n)
      BY <1>2, <1>3, <1>5 DEF Where, NotStarted, Following, Resuming, ParkTail
    <3>2. Where(req[r])' /\ ~NotStarted(req[r])'
      BY <1>8, <3>1 DEF Where, NotStarted
    <3>3. RequestHolds(r)'
      BY <1>4, <1>5, <1>7, <1>8 DEF RequestHolds, Claiming, Canceling
    <3>4. HistoryOutput(r)'
      BY <1>5, <1>7, <1>8 DEF HistoryOutput
    <3> QED BY <2>3, <3>2, <3>3, <3>4 DEF RequestOK, NoOutput
  <2> QED BY <2>2, <2>3
<1>12. ASSUME NEW u \in Tokens PROVE RunOK(u)'
  <2>1. CASE u = t
    <3>1. run'[u] = m /\ lease'[u] = lease[u] /\ out'[r].s = s /\ lease[u].session = s /\ lease[u].st = "owned"
      BY <1>2, <1>7, <1>8, <1>9, <2>1
    <3>2. s \in HistorySessions => m.up = {} /\ m.queue = {} /\ m.seg = {}
      BY <1>6
    <3> QED BY <1>6, <3>1, <3>2 DEF RunOK, SameKey
  <2>2. CASE u # t
    <3>1. KeepsRun(u) /\ KeepsAnswers
      BY <1>3, <1>8, <1>9, <2>2 DEF KeepsRun, KeepsAnswers
    <3>2. s \in HistorySessions => run[u].out # r /\ run[u].last # r
      <4>1. s \in HistorySessions => req[r].pc = "claimed"
        BY <1>3 DEF Where, Ordinary
      <4> QED BY <1>1, <4>1 DEF MInv, RequestOK, NoOutput, NotStarted
    <3>3. \A q \in Requests : q \in {run[u].out, run[u].last} => SameKey(out'[q].s, out[q].s)
      BY <1>2, <1>7, <1>8, <3>2 DEF SameKey
    <3> QED BY <3>1, <3>3, RunKept
  <2> QED BY <2>1, <2>2
<1>13. ReservedOnce'
  BY <1>1, <1>4, <1>5, <1>8 DEF MInv, ReservedOnce
<1>14. ActiveOK'
  BY <1>1, <1>2, <1>6, <1>8, <1>9 DEF MInv, ActiveOK, ManagerTypeOK
<1>15. ASSUME NEW u \in Tokens PROVE HeldBy(u)'
  <2> SUFFICES ASSUME Holds(u) PROVE HeldBy(u)'
    BY <1>9 DEF HeldBy, Holds
  <2>1. HeldBy(u) /\ lease[u].session \in Sessions
    BY <1>1, HeldIsLease DEF MInv, Holds, EInv, IInv, Lease
  <2>2. CASE u = t
    BY <1>2, <1>8, <1>9, <2>2 DEF HeldBy
  <2>3. CASE u # t
    <3>1. active[s] = NoToken
      BY <1>1, <1>2 DEF MInv, RequestOK, RequestHolds, ManagerTypeOK
    <3>2. active[lease[u].session] = u => active'[lease[u].session] = u
      BY <1>8, <2>1, <3>1, ConstantsAssumption
    <3>3. \A q \in Requests : req[q].run = u => q # r
      BY <2>3
    <3> QED BY <1>8, <1>9, <2>1, <3>2, <3>3 DEF HeldBy
  <2> QED BY <2>2, <2>3
<1>16. HistoryApart'
  BY <1>1, <1>3, <1>9 DEF MInv, HistoryApart
<1>17. ASSUME NEW q \in Requests PROVE HistoryDone(q)'
  <2>1. HistoryDone(q)
    BY <1>1 DEF MInv
  <2>2. CASE q = r
    BY <1>7, <1>8, <2>2 DEF HistoryDone
  <2>3. CASE q # r
    BY <1>2, <1>8, <1>9, <2>1, <2>3 DEF HistoryDone
  <2> QED BY <2>2, <2>3
<1> QED BY <1>9, <1>10, <1>11, <1>12, <1>13, <1>14, <1>15, <1>16, <1>17 DEF EInv, MInv

LEMMA NoRunIs ==
    NoRun \in Run /\ ~NoRun.cancelled /\ NoRun.last = NoReq /\ NoRun.up = {} /\ NoRun.queue = {} /\ NoRun.seg = {}
BY ManagerAssumption DEF NoRun, Run

LEMMA StartRunStep == ASSUME EInv, NEW r \in Requests, StartRun(r) PROVE EInv'
BY NoRunIs, StartClaimedStep DEF StartRun

LEMMA FollowRunStep == ASSUME EInv, NEW r \in Requests, FollowRun(r) PROVE EInv'
<1> DEFINE new == [NoRun EXCEPT !.seg = req[r].batch, !.fu = req[r].fu]
<1>1. req[r].pc = "launch" /\ StartClaimed(r, new, "consume") /\ req[r] \in Req /\ Where(req[r])
  BY RequestIs DEF FollowRun
<1>2. new \in Run /\ ~new.cancelled /\ new.last = NoReq
  BY <1>1, NoRunIs DEF Run, Req
<1>3. req[r].s \notin HistorySessions
  BY <1>1 DEF Where, Ordinary
<1> HIDE DEF new
<1> QED BY <1>1, <1>2, <1>3, StartClaimedStep

LEMMA ColdRunStep == ASSUME EInv, NEW r \in Requests, ColdRun(r) PROVE EInv'
<1> DEFINE f == file[req[r].s]
           seg == IF f.batch \subseteq req[r].batch THEN f.batch ELSE req[r].batch
           new == [NoRun EXCEPT !.pend = f.pending, !.queue = f.pending, !.seg = seg]
<1>1. /\ req[r].pc = "claimed" /\ StartClaimed(r, new, "bindCold") /\ req[r] \in Req /\ Where(req[r])
      /\ req[r].mode = "cold"
  BY RequestIs DEF ColdRun
<1>2. f.pending \in SUBSET Tools /\ f.batch \in SUBSET Tools /\ req[r].batch \in SUBSET Tools
  BY <1>1, ClaimIs DEF File, Req, Claiming
<1>3. seg \in SUBSET Tools
  BY <1>2
<1> HIDE DEF f, seg
<1>4. new \in Run /\ ~new.cancelled /\ new.last = NoReq
  BY <1>2, <1>3, NoRunIs DEF Run
<1>5. req[r].s \notin HistorySessions
  BY <1>1 DEF Where, Ordinary
<1> HIDE DEF new
<1> QED BY <1>1, <1>4, <1>5, StartClaimedStep

\* Request r goes on as n, and the session object of run t becomes m.
WorksOn(r, n, t, m) ==
    /\ req' = [req EXCEPT ![r] = n] /\ run' = [run EXCEPT ![t] = m]
    /\ run[t].ph # "none" /\ m.ph = run[t].ph /\ (run[t].cancelled => m.cancelled)
    /\ m.out \in {run[t].out, NoReq, r} /\ m.last = run[t].last
    /\ UNCHANGED <<starting, history, issued>>
    /\ req[r].pc \notin Reserving /\ n.pc \notin Reserving /\ ~NotStarted(n) /\ Where(n)
    /\ req[r].pc \in Canceling =>
          \/ n.pc \in Canceling /\ n.run = req[r].run
          \/ req[r].run = t /\ lease'[t].st = "released"

\* What a step that works on run t may do to its lease, its file and the
\* outputs, replays and flights.
Touches(r, n, t) ==
    /\ \A u \in Tokens : u # t => lease'[u] = lease[u]
    /\ lease'[t].session = lease[t].session /\ lease'[t].proc = lease[t].proc
    /\ lease'[t].st \in {lease[t].st, "released"}
    /\ active' \in [Sessions -> Tokens \cup {NoToken}]
    /\ \A s \in Sessions : active'[s] = active[s] \/
          (active[s] = t /\ active'[s] = NoToken /\ n.pc \in Canceling /\ n.run = t)
    /\ out' \in [Requests -> Out]
    /\ \A q \in Requests : /\ q # r => out'[q].s = out[q].s
                           /\ SameKey(out'[q].s, out[q].s)
                           /\ out'[q].s \in HistorySessions =>
                                out'[q].turn = out[q].turn /\ (out'[q].done => out[q].done)
    /\ completed' \subseteq Completed /\ (\A c \in completed' : Ordinary(c.s)) /\ KeepsAnswers
    /\ \A s \in Sessions : file'[s] = file[s] \/ (s = lease[t].session /\ lease[t].st = "owned")
    /\ \A s \in HistorySessions : file'[s] # NoFile => file'[s].pending = {}
    /\ flight' \in [Requests -> Flight]
    /\ \A q \in Requests : flight'[q].st = "replay" => Ordinary(flight'[q].s)

LEMMA WorkMoves ==
    ASSUME EInv, IInv', NEW r \in Requests, NEW n \in Req, NEW t \in Tokens, NEW m \in Run,
           WorksOn(r, n, t, m), Touches(r, n, t),
           RequestHolds(r)', HistoryOutput(r)', RunOK(t)'
    PROVE  EInv'
<1> USE DEF WorksOn, Touches
<1>1. MInv /\ ManagerTypeOK
  BY DEF EInv, MInv
<1>2. /\ req'[r] = n /\ \A q \in Requests : q # r => req'[q] = req[q]
      /\ run'[t] = m /\ \A u \in Tokens : u # t => run'[u] = run[u]
  BY <1>1 DEF ManagerTypeOK
<1>3. ManagerTypeOK'
  <2>1. starting' \subseteq {s \in Sessions : active'[s] = NoToken}
    BY <1>1 DEF ManagerTypeOK
  <2> QED BY <1>1, <2>1 DEF ManagerTypeOK
<1>4. ASSUME NEW q \in Requests PROVE RequestOK(q)'
  <2>1. RequestOK(q) /\ req[q] \in Req
    BY <1>1 DEF MInv, ManagerTypeOK
  <2>2. CASE q # r
    <3>1. req[q].pc \in Claiming => req[q].run \in Tokens /\ req[q].run # t
      BY <2>1 DEF RequestOK, RequestHolds
    <3>2. req[q].pc \in Bound => req[q].run \in Tokens /\ run[req[q].run].ph # "none"
      BY <2>1 DEF RequestOK, RequestHolds
    <3>3. /\ \A u \in Tokens : run'[u].out \in {run[u].out, NoReq} \/ run'[u].out # q
          /\ \A u \in Tokens : run'[u].last \in {run[u].out, run[u].last, NoReq} \/ run'[u].last # q
      BY <1>2, <2>2
    <3>4. req[q].pc \in Reserving => req[q].s \in starting'
      BY <2>1 DEF RequestOK, RequestHolds
    <3>5. req[q].pc \in Claiming => /\ lease'[req[q].run].session = lease[req[q].run].session
                                    /\ lease'[req[q].run].st = lease[req[q].run].st
                                    /\ run'[req[q].run].ph = "none"
      BY <1>2, <2>1, <3>1 DEF RequestOK, RequestHolds
    <3>6. req[q].pc \in Bound => /\ lease'[req[q].run].session = lease[req[q].run].session
                                 /\ run'[req[q].run].ph # "none"
      BY <1>2, <3>2
    <3>7. req[q].pc = "cancelRelease" => run'[req[q].run].cancelled
      BY <1>2, <2>1, <3>2 DEF RequestOK, RequestHolds, Bound, Canceling
    <3>8. req[q].pc = "claimed" => file'[req[q].s] # NoFile
      <4> SUFFICES ASSUME req[q].pc = "claimed" PROVE file'[req[q].s] # NoFile
        OBVIOUS
      <4>1. /\ req[q].run \in Tokens \ {t} /\ lease[req[q].run].st = "owned"
            /\ lease[req[q].run].session = req[q].s /\ file[req[q].s] # NoFile /\ req[q].s \in Sessions
        BY <2>1, <3>1 DEF RequestOK, RequestHolds, Where, Claiming
      <4>2. OneLiveOwner
        BY LockHeldUnique DEF EInv, IInv
      <4> QED BY <4>1, <4>2 DEF OneLiveOwner, Holds
    <3>9. /\ req'[q] = req[q] /\ out'[q].s = out[q].s
          /\ out[q].s \in HistorySessions => out'[q].turn = out[q].turn
      BY <1>2, <2>2
    <3>10. KeepsRequest(q)
      BY <3>3, <3>4, <3>5, <3>6, <3>7, <3>8, <3>9 DEF KeepsRequest
    <3> QED BY <2>1, <3>10, RequestKept
  <2>3. CASE q = r
    <3>1. Where(req[r])' /\ ~NotStarted(req[r])'
      BY <1>2 DEF Where, NotStarted
    <3> QED BY <2>3, <3>1 DEF RequestOK, NoOutput
  <2> QED BY <2>2, <2>3
<1>5. ASSUME NEW u \in Tokens PROVE RunOK(u)'
  <2>1. CASE u # t
    <3>1. KeepsRun(u)
      BY <1>2, <2>1 DEF KeepsRun
    <3> QED BY <3>1, RunKept
  <2> QED BY <2>1
<1>6. ReservedOnce'
  BY <1>1, <1>2 DEF MInv, ReservedOnce
<1>7. ActiveOK'
  BY <1>1, <1>2 DEF MInv, ActiveOK, ManagerTypeOK
<1>8. ASSUME NEW u \in Tokens PROVE HeldBy(u)'
  <2> SUFFICES ASSUME Holds(u)' PROVE HeldBy(u)'
    BY DEF HeldBy
  <2>1. Holds(u) /\ lease'[u].session = lease[u].session /\ lease'[u].proc = lease[u].proc
    BY DEF Holds
  <2>2. HeldBy(u) /\ lease[u].session \in Sessions
    BY <1>1, <2>1, HeldIsLease DEF MInv, Holds, EInv, IInv, Lease
  <2>3. CASE active[lease[u].session] = u
    <3>1. active'[lease[u].session] = u \/ (u = t /\ n.pc \in Canceling /\ n.run = t)
      BY <2>2, <2>3
    <3> QED BY <1>2, <2>1, <2>2, <3>1 DEF HeldBy
  <2>4. ASSUME NEW q \in Requests, req[q].pc \in Claiming \cup Canceling, req[q].run = u
        PROVE  HeldBy(u)'
    <3>1. CASE q # r
      BY <1>2, <2>1, <2>2, <2>4, <3>1 DEF HeldBy
    <3>2. CASE q = r
      <4>1. req[r].pc \in Canceling
        BY <2>4, <3>2 DEF Reserving
      <4>2. n.pc \in Canceling /\ n.run = u
        BY <2>4, <3>2, <4>1 DEF Holds
      <4> QED BY <1>2, <2>1, <2>2, <4>2 DEF HeldBy
    <3> QED BY <3>1, <3>2
  <2> QED BY <2>1, <2>2, <2>3, <2>4 DEF HeldBy
<1>9. HistoryApart'
  BY DEF HistoryApart
<1>10. ASSUME NEW q \in Requests PROVE HistoryDone(q)'
  <2> SUFFICES ASSUME out'[q].done, out'[q].s \in HistorySessions
               PROVE  history'[out'[q].s] \in Tokens /\ run'[history'[out'[q].s]].ph = "gone"
    BY DEF HistoryDone
  <2>1. out[q].done /\ out'[q].s = out[q].s
    BY DEF SameKey
  <2>2. history[out[q].s] \in Tokens /\ run[history[out[q].s]].ph = "gone"
    BY <1>1, <2>1 DEF MInv, HistoryDone
  <2> QED BY <1>2, <2>1, <2>2
<1> QED BY <1>3, <1>4, <1>5, <1>6, <1>7, <1>8, <1>9, <1>10 DEF EInv, MInv

\* What the manager's variables are at any time.
LEMMA Stands ==
    ASSUME EInv
    PROVE  /\ active \in [Sessions -> Tokens \cup {NoToken}] /\ run \in [Tokens -> Run]
           /\ req \in [Requests -> Req] /\ out \in [Requests -> Out] /\ flight \in [Requests -> Flight]
           /\ completed \subseteq Completed /\ \A c \in completed : Ordinary(c.s)
           /\ \A q \in Requests : flight[q].st = "replay" => Ordinary(flight[q].s)
           /\ \A s \in HistorySessions : file[s] # NoFile => file[s].pending = {}
           /\ file \in [Sessions -> File \cup {NoFile}] /\ lease \in [Tokens -> Lease \cup {NoLease}]
           /\ issued \subseteq Tools /\ history \in [Sessions -> Tokens \cup {NoToken}]
BY DEF EInv, MInv, ManagerTypeOK, HistoryApart, IInv, TypeOK

LEMMA CloseIs ==
    ASSUME EInv, NEW q \in Requests \cup {NoReq}, NEW how \in {"closed", "failed"}, out' = Close(out, q, how)
    PROVE  /\ out' \in [Requests -> Out]
           /\ \A p \in Requests : out'[p].s = out[p].s /\ out'[p].turn = out[p].turn /\ out'[p].done = out[p].done
<1>1. out \in [Requests -> Out]
  BY Stands
<1>2. CASE q # NoReq /\ out[q].st = "open"
  <2> DEFINE o == [out[q] EXCEPT !.st = how]
  <2>1. out' = [out EXCEPT ![q] = o] /\ q \in Requests
    BY <1>1, <1>2 DEF Close
  <2>2. o \in Out /\ o.s = out[q].s /\ o.turn = out[q].turn /\ o.done = out[q].done
    BY <1>1, <2>1 DEF Out
  <2> HIDE DEF o
  <2> QED BY <1>1, <2>1, <2>2
<1> QED BY <1>1, <1>2 DEF Close

LEMMA WithReplayKeeps ==
    ASSUME EInv, NEW s, Ordinary(s), NEW batch \in SUBSET Tools, NEW fu \in FollowUps, NEW more \in BOOLEAN,
           completed' = WithReplay(s, batch, fu, more), history' = history
    PROVE  /\ completed' \subseteq Completed /\ \A c \in completed' : Ordinary(c.s)
           /\ KeepsAnswers /\ \E c \in completed' : c.batch = batch /\ c.fu = fu
<1> DEFINE d == [s |-> s, batch |-> batch, fu |-> fu, more |-> more]
<1>1. d \in Completed /\ d.s = s /\ d.batch = batch /\ d.fu = fu
  BY DEF Completed, Ordinary
<1>2. completed' = {c \in completed : ~(c.batch = batch /\ c.fu = fu)} \cup {d}
  BY DEF WithReplay
<1> HIDE DEF d
<1>3. KeepsAnswers
  BY <1>1, <1>2 DEF KeepsAnswers
<1> QED BY <1>1, <1>2, <1>3, Stands

\* The run a request works on.
LEMMA BoundIs ==
    ASSUME EInv, NEW r \in Requests, req[r].pc \in Bound
    PROVE  /\ req[r].run \in Tokens /\ lease[req[r].run].session = req[r].s /\ run[req[r].run].ph # "none"
           /\ req[r].pc \in Reading => out[r].s = req[r].s
           /\ req[r].s \in Sessions /\ req[r].pc \notin Reserving /\ RunOK(req[r].run)
           /\ lease[req[r].run] \in Lease
<1>1. /\ req[r].run \in Tokens /\ lease[req[r].run].session = req[r].s /\ run[req[r].run].ph # "none"
      /\ req[r].pc \in Reading => out[r].s = req[r].s
  BY RequestIs DEF RequestHolds
<1>2. req[r].s \in Sessions /\ req[r].pc \notin Reserving
  BY RequestIs DEF Where, Bound, Resuming, ParkTail, Canceling, Reserving, Claiming
<1>3. RunOK(req[r].run)
  BY <1>1 DEF EInv, MInv
<1>4. lease[req[r].run] \in Lease
  BY <1>1, <1>3, HeldIsLease DEF RunOK, EInv, IInv
<1> QED BY <1>1, <1>2, <1>3, <1>4

LEMMA ResumeAttachStep == ASSUME EInv, NEW r \in Requests, ResumeAttach(r) PROVE EInv'
<1>1. /\ req[r].pc = "attach" /\ req[r] \in Req /\ Where(req[r])
      /\ UNCHANGED <<vars, active, starting, flight, completed, issued>>
  BY RequestIs DEF ResumeAttach
<1>2. req[r].pc \in Bound /\ req[r].pc \notin Claiming \cup Canceling
  BY <1>1 DEF Bound, Resuming, Claiming, Canceling
<1>3. out[r].s \notin HistorySessions /\ Ordinary(req[r].s) /\ req[r].then = "done"
  BY <1>1, NotHistoryOutput DEF Canceling, Where, Resuming
<1>4. PICK t \in Tokens : t = req[r].run
  BY <1>2, BoundIs
<1>5. lease[t].session = req[r].s /\ run[t].ph # "none" /\ RunOK(t) /\ req[r].pc \notin Reserving
  BY <1>2, <1>4, BoundIs
<1>6. CASE req' = Goto(r, "fail") /\ UNCHANGED <<run, out>>
  <2>1. UNCHANGED Elsewhere
    BY <1>1, <1>6 DEF Elsewhere
  <2> QED BY <1>2, <1>3, <1>6, <2>1, FreeGoto
<1>7. CASE ~(run[t].closed \/ run[t].out # NoReq)
  <2> DEFINE n == At(req[r], "push")
             m == [run[t] EXCEPT !.out = r, !.seg = req[r].batch, !.fu = NoFollowUp]
             o == NewOut(req[r].s)
  <2>1. /\ run' = [run EXCEPT ![t] = m] /\ out' = [out EXCEPT ![r] = o] /\ req' = [req EXCEPT ![r] = n]
    BY <1>4, <1>7, GotoIs, Stands DEF ResumeAttach
  <2>2. "push" \in Labels /\ "push" \in Reading /\ "push" \in Bound
        /\ "push" \notin Reserving \cup Claiming \cup Canceling
    BY DEF Labels, Claiming, Reserving, Canceling, Bound, Resuming, ParkTail, Reading
  <2>3. n \in Req /\ n.pc = "push" /\ n.s = req[r].s /\ n.mode = req[r].mode /\ n.run = t
    BY <1>1, <1>4, <2>2, AtIs
  <2>4. /\ m \in Run /\ m.ph = run[t].ph /\ m.cancelled = run[t].cancelled /\ m.out = r /\ m.last = run[t].last
        /\ m.up = run[t].up /\ m.queue = run[t].queue /\ m.closed = run[t].closed /\ m.err = run[t].err
    <3>1. req[r].batch \in SUBSET Tools /\ NoFollowUp \in FollowUps /\ run[t] \in Run
      BY <1>1, Stands, ManagerAssumption DEF Req
    <3> QED BY <3>1 DEF Run
  <2>5. o \in Out /\ o.s = req[r].s
    BY <1>1, <1>3 DEF NewOut, NoOut, Out, Ordinary
  <2> HIDE DEF n, m, o
  <2>6. Where(n) /\ ~NotStarted(n)
    BY <1>1, <1>3, <2>3 DEF Where, NotStarted, Following, Resuming, ParkTail, Ordinary
  <2>7. /\ req'[r] = n /\ run'[t] = m /\ out'[r] = o /\ out' \in [Requests -> Out]
        /\ \A q \in Requests : q # r => out'[q] = out[q]
    BY <2>1, <2>5, Stands
  <2>8. UNCHANGED <<file, lease, history>> /\ IInv'
    BY <1>1, StoreQuiet DEF vars
  <2>9. RequestHolds(r)'
    BY <1>4, <1>5, <2>2, <2>3, <2>4, <2>5, <2>7, <2>8 DEF RequestHolds, Canceling, Claiming
  <2>10. HistoryOutput(r)'
    BY <1>3, <2>5, <2>7 DEF HistoryOutput, Ordinary
  <2>11. RunOK(t)'
    <3>1. /\ lease[t].session \notin HistorySessions
          /\ run[t].ph \notin {"saving", "landing", "deleting", "releasing", "retiring", "delivering"}
      BY <1>3, <1>5, <1>7 DEF RunOK, Ordinary
    <3>2. /\ m.out # NoReq => SameKey(out'[m.out].s, lease[t].session)
          /\ m.last # NoReq => SameKey(out'[m.last].s, lease[t].session)
      <4>1. run[t].last # NoReq => run[t].last \in Requests /\ SameKey(out[run[t].last].s, lease[t].session)
        BY <1>5, Stands DEF RunOK, Run
      <4> QED BY <1>3, <1>5, <2>4, <2>5, <2>7, <3>1, <4>1 DEF SameKey, Ordinary
    <3> HIDE DEF SameKey, AnswerSaved
    <3> QED BY <1>5, <2>4, <2>7, <2>8, <3>1, <3>2 DEF RunOK
  <2>12. \A q \in Requests : /\ q # r => out'[q].s = out[q].s
                             /\ SameKey(out'[q].s, out[q].s)
                             /\ out'[q].s \in HistorySessions =>
                                  out'[q].turn = out[q].turn /\ (out'[q].done => out[q].done)
    BY <1>3, <2>5, <2>7 DEF SameKey, Ordinary
  <2>13. KeepsAnswers
    BY <1>1, <2>8 DEF KeepsAnswers
  <2>14. req[r].pc \notin Canceling /\ n.pc \notin Reserving /\ m.out \in {run[t].out, NoReq, r}
    BY <1>2, <2>2, <2>3, <2>4
  <2>15. WorksOn(r, n, t, m)
    BY <1>1, <1>5, <2>1, <2>4, <2>6, <2>8, <2>14 DEF WorksOn
  <2>16. Touches(r, n, t)
    BY <1>1, <2>7, <2>8, <2>12, <2>13, Stands DEF Touches
  <2> QED BY <2>3, <2>4, <2>8, <2>9, <2>10, <2>11, <2>15, <2>16, WorkMoves
<1> QED BY <1>4, <1>6, <1>7 DEF ResumeAttach

\* A write of the owner changes only the file of its session.
LEMMA OwnerTouches ==
    ASSUME IInv, NEW t \in Tokens, NEW p, NEW e, SavePending(t, p) \/ SaveCompleted(t, e) \/ Delete(t)
    PROVE  /\ \A s \in Sessions : file'[s] = file[s] \/ (s = lease[t].session /\ lease[t].st = "owned")
           /\ UNCHANGED <<lease, history>> /\ MayUpdate(t)
<1>1. MayUpdate(t) /\ UNCHANGED <<lease, history>>
  BY DEF SavePending, SaveCompleted, Delete
<1>2. file \in [Sessions -> File \cup {NoFile}] /\ lease[t].st = "owned"
  BY <1>1 DEF IInv, TypeOK, MayUpdate
<1>3. \A s \in Sessions : s # lease[t].session => file'[s] = file[s]
  BY <1>2 DEF SavePending, SaveCompleted, Delete, Write
<1> QED BY <1>1, <1>2, <1>3

LEMMA ParkStep == ASSUME EInv, IInv', NEW r \in Requests, Park(r) PROVE EInv'
<1>1. /\ req[r].pc = "park" /\ req[r] \in Req /\ Where(req[r]) /\ RequestHolds(r)
      /\ UNCHANGED <<active, starting, flight, out, completed, issued>>
  BY RequestIs DEF Park
<1>2. req[r].pc \notin Reserving \cup Claiming \cup Canceling /\ req[r].pc \in Reading
  BY <1>1 DEF Reserving, Claiming, Canceling, Reading
<1>3. out[r].s \notin HistorySessions
  BY <1>1, NotHistoryOutput DEF Canceling
<1>4. /\ out[r].s = req[r].s /\ req[r].s \in Sessions /\ Ordinary(req[r].s)
      /\ req[r].then \in {"done", "drainParked"}
  BY <1>1, <1>2, <1>3 DEF RequestHolds, Where, Ordinary
<1>5. CASE UNCHANGED <<vars, run>> /\ (req' = Goto(r, req[r].then) \/ req' = Goto(r, "cancel"))
  <2>1. UNCHANGED Elsewhere
    BY <1>1, <1>5 DEF Elsewhere
  <2>2. req' = Goto(r, "done") \/ req' = Goto(r, "drainParked") \/ req' = Goto(r, "cancel")
    BY <1>4, <1>5
  <2> QED BY <1>2, <1>3, <2>1, <2>2, FreeGoto, ReadGoto
<1>6. ASSUME NEW t \in Tokens, t = active[req[r].s], ~run[t].closed, SavePending(t, run[t].pend),
             run' = [run EXCEPT ![t].out = NoReq, ![t].seg = {}],
             req' = [req EXCEPT ![r].pc = IF run[t].seg = {} THEN "parkClose" ELSE "parkSave",
                                ![r].run = t, ![r].took = run[t].out,
                                ![r].seg = run[t].seg, ![r].segFu = run[t].fu]
      PROVE  EInv'
  <2> DEFINE label == IF run[t].seg = {} THEN "parkClose" ELSE "parkSave"
             n == [req[r] EXCEPT !.pc = label, !.run = t, !.took = run[t].out,
                                 !.seg = run[t].seg, !.segFu = run[t].fu]
             m == [run[t] EXCEPT !.out = NoReq, !.seg = {}]
  <2>1. req' = [req EXCEPT ![r] = n] /\ run' = [run EXCEPT ![t] = m]
    BY <1>6, Stands
  <2>2. lease[t].session = req[r].s /\ run[t].ph # "none" /\ RunOK(t) /\ run[t] \in Run
    BY <1>4, <1>6, ConstantsAssumption, Stands DEF EInv, MInv, ActiveOK
  <2>3. label \in {"parkClose", "parkSave"} /\ label \in Labels /\ label \in Bound /\ label \in Reading
        /\ label \notin Reserving \cup Claiming \cup Canceling /\ label \in ParkTail
    BY DEF Labels, Claiming, Reserving, Canceling, Bound, Resuming, ParkTail, Reading
  <2> HIDE DEF label
  <2>4. n \in Req /\ n.pc = label /\ n.s = req[r].s /\ n.run = t /\ n.mode = req[r].mode /\ n.then = req[r].then
    <3>1. run[t].out \in Requests \cup {NoReq} /\ run[t].seg \in SUBSET Tools /\ run[t].fu \in FollowUps
      BY <2>2 DEF Run
    <3> QED BY <1>1, <1>6, <2>3, <3>1 DEF Req
  <2>5. /\ m \in Run /\ m.ph = run[t].ph /\ m.cancelled = run[t].cancelled /\ m.out = NoReq /\ m.last = run[t].last
        /\ m.up = run[t].up /\ m.queue = run[t].queue /\ m.closed = run[t].closed /\ m.err = run[t].err
    BY <2>2 DEF Run
  <2> HIDE DEF n, m
  <2>6. Where(n) /\ ~NotStarted(n)
    BY <1>1, <1>4, <2>3, <2>4 DEF Where, NotStarted, Following, Resuming, ParkTail, Ordinary
  <2>7. req'[r] = n /\ run'[t] = m
    BY <2>1, Stands
  <2>8. /\ \A s \in Sessions : file'[s] = file[s] \/ (s = lease[t].session /\ lease[t].st = "owned")
        /\ UNCHANGED <<lease, history>>
    BY <1>6, OwnerTouches DEF EInv
  <2>9. RequestHolds(r)'
    BY <1>1, <1>4, <2>2, <2>3, <2>4, <2>5, <2>7, <2>8 DEF RequestHolds, Canceling, Claiming
  <2>10. HistoryOutput(r)'
    BY <1>1, <1>3 DEF HistoryOutput
  <2>11. RunOK(t)'
    <3>1. /\ lease[t].session \notin HistorySessions
          /\ run[t].ph \notin {"saving", "landing", "deleting", "releasing", "retiring", "delivering"}
      BY <1>4, <1>6, <2>2 DEF RunOK, Ordinary
    <3> HIDE DEF SameKey, AnswerSaved
    <3> QED BY <1>1, <2>2, <2>5, <2>7, <2>8, <3>1 DEF RunOK
  <2>12. WorksOn(r, n, t, m)
    BY <1>1, <1>2, <2>1, <2>2, <2>3, <2>4, <2>5, <2>6, <2>8 DEF WorksOn
  <2>13. \A s \in HistorySessions : file'[s] # NoFile => file'[s].pending = {}
    BY <1>4, <2>2, <2>8, ConstantsAssumption, Stands DEF Ordinary
  <2>14. KeepsAnswers
    BY <1>1, <2>8 DEF KeepsAnswers
  <2>15. Touches(r, n, t)
    BY <1>1, <2>8, <2>13, <2>14, Stands DEF Touches, SameKey
  <2> QED BY <2>4, <2>5, <2>9, <2>10, <2>11, <2>12, <2>15, WorkMoves
<1>7. active[req[r].s] \in Tokens \cup {NoToken}
  BY <1>4, Stands
<1> QED BY <1>5, <1>6, <1>7 DEF Park

\* A request works on the session object of its run without a change to it
\* but its flight.
LEMMA WorkKeeps ==
    ASSUME EInv, IInv', NEW r \in Requests, req[r].pc \in ParkTail \cup Canceling,
           NEW t \in Tokens, t = req[r].run, NEW label, req' = Goto(r, label),
           \/ req[r].pc \in ParkTail
              /\ (label \in {"cancel", "done", "drainParked"} \/ (label \in ParkTail /\ label # "parkSave"))
           \/ req[r].pc = "cancelDelete" /\ label = "cancelStop",
           run' \in {run, [run EXCEPT ![t].flight = NoReq]}, UNCHANGED <<active, starting, lease, history, issued>>,
           out' \in [Requests -> Out],
           \A q \in Requests : out'[q].s = out[q].s /\ out'[q].turn = out[q].turn /\ out'[q].done = out[q].done,
           completed' \subseteq Completed, \A c \in completed' : Ordinary(c.s), KeepsAnswers,
           \A s \in Sessions : file'[s] = file[s] \/ (s = lease[t].session /\ lease[t].st = "owned"),
           \A s \in HistorySessions : file'[s] # NoFile => file'[s].pending = {},
           flight' \in [Requests -> Flight],
           \A q \in Requests : flight'[q].st = "replay" => Ordinary(flight'[q].s)
    PROVE  EInv'
<1> DEFINE n == At(req[r], label)
<1>1. /\ req[r] \in Req /\ Where(req[r]) /\ RequestHolds(r) /\ HistoryOutput(r) /\ req' = [req EXCEPT ![r] = n]
  BY RequestIs, GotoIs
<1>2. req[r].pc \in Bound /\ req[r].pc \in Reading
  BY DEF Bound, Reading
<1>3. /\ lease[t].session = req[r].s /\ run[t].ph # "none" /\ RunOK(t) /\ run[t] \in Run
      /\ out[r].s = req[r].s /\ req[r].s \in Sessions /\ req[r].pc \notin Reserving
  BY <1>2, BoundIs, Stands
<1>4. /\ label \in Labels /\ label \notin Reserving \cup Claiming
      /\ req[r].pc \in ParkTail => label \notin Canceling /\ req[r].pc \notin Canceling
      /\ req[r].pc \notin ParkTail => label \in Canceling
      /\ label \notin {"idle", "park", "parkSave", "cancelRelease", "claimed"} \cup Following \cup Resuming
      /\ label \in Bound => label \in Reading
      /\ label # "done" => label \in Reading
  BY DEF Labels, Claiming, Reserving, Canceling, Bound, Resuming, ParkTail, Reading, Following
<1>5. /\ n \in Req /\ n.pc = label
      /\ label # "done" => n.s = req[r].s /\ n.mode = req[r].mode /\ n.run = t /\ n.then = req[r].then
      /\ label = "done" => n.mode = "start" /\ n.s = NoSession
  BY <1>1, <1>4, AtIs
<1> HIDE DEF n
<1>6. Where(n)
  <2>1. req[r].pc \in ParkTail => Ordinary(req[r].s) /\ req[r].then \in {"done", "drainParked"}
    BY <1>1 DEF Where
  <2>2. label \in ParkTail => req[r].pc \in ParkTail
    BY DEF ParkTail
  <2>3. label \in {"cancel", "done", "drainParked", "cancelStop"} \cup ParkTail
    OBVIOUS
  <2> QED BY <1>1, <1>3, <1>4, <1>5, <2>1, <2>2, <2>3 DEF Where, ParkTail, Following, Resuming
<1>7. ~NotStarted(n)
  BY <1>4, <1>5 DEF NotStarted, Reserving, Claiming, ParkTail
<1>8. PICK m \in Run : /\ run' = [run EXCEPT ![t] = m] /\ m.ph = run[t].ph /\ m.cancelled = run[t].cancelled
                       /\ m.out = run[t].out /\ m.last = run[t].last /\ m.closed = run[t].closed
                       /\ m.err = run[t].err /\ m.up = run[t].up /\ m.seg = run[t].seg /\ m.fu = run[t].fu
                       /\ m.queue = run[t].queue
  <2>1. CASE run' = run
    <3>1. run' = [run EXCEPT ![t] = run[t]]
      BY <2>1, Stands
    <3> QED BY <1>3, <3>1
  <2>2. CASE run' = [run EXCEPT ![t].flight = NoReq]
    <3> DEFINE m == [run[t] EXCEPT !.flight = NoReq]
    <3>1. run' = [run EXCEPT ![t] = m]
      BY <2>2, Stands
    <3>2. /\ m \in Run /\ m.ph = run[t].ph /\ m.cancelled = run[t].cancelled
          /\ m.out = run[t].out /\ m.last = run[t].last /\ m.closed = run[t].closed
          /\ m.err = run[t].err /\ m.up = run[t].up /\ m.seg = run[t].seg /\ m.fu = run[t].fu
          /\ m.queue = run[t].queue
      BY <1>3 DEF Run
    <3> QED BY <3>1, <3>2
  <2> QED BY <2>1, <2>2
<1>9. req'[r] = n /\ run'[t] = m
  BY <1>1, <1>8, Stands
<1>10. RequestHolds(r)'
  <2>1. label \in Bound => label # "done" /\ label \notin {"claiming", "claimed", "cancelRelease"}
    BY <1>4 DEF Bound, Resuming, ParkTail, Canceling, Claiming
  <2>2. label \in Reading => label # "done"
    BY DEF Reading, ParkTail, Canceling
  <2>3. label \in Bound => n.run = t /\ lease'[t].session = n.s /\ run'[t].ph # "none"
    BY <1>3, <1>5, <1>8, <1>9, <2>1
  <2>4. label \in Reading => out'[r].s = n.s
    BY <1>3, <1>5, <2>2
  <2> QED BY <1>4, <1>5, <1>9, <2>3, <2>4 DEF RequestHolds, Claiming
<1>11. HistoryOutput(r)'
  <2>1. out[r].s \in HistorySessions => req[r].pc \in Canceling
    BY <1>1 DEF HistoryOutput, ParkTail, Canceling
  <2>2. out[r].s \in HistorySessions => label \in Canceling /\ ~out[r].turn
    BY <1>1, <1>4, <2>1 DEF HistoryOutput
  <2> QED BY <1>5, <1>9, <2>2 DEF HistoryOutput
<1>12. RunOK(t)'
  <2>1. KeepsRun(t)
    BY <1>8, <1>9 DEF KeepsRun
  <2> QED BY <2>1, RunKept DEF SameKey
<1>13. WorksOn(r, n, t, m)
  BY <1>1, <1>3, <1>4, <1>5, <1>6, <1>7, <1>8, ManagerAssumption DEF WorksOn, Canceling
<1>14. Touches(r, n, t)
  BY Stands DEF Touches, SameKey
<1> QED BY <1>5, <1>10, <1>11, <1>12, <1>13, <1>14, WorkMoves

LEMMA ParkSavesStep == ASSUME EInv, IInv', NEW r \in Requests, ParkSaves(r) PROVE EInv'
<1>1. /\ req[r].pc = "parkSave" /\ req[r] \in Req /\ Where(req[r])
      /\ UNCHANGED <<active, starting, run, flight, issued>>
  BY RequestIs DEF ParkSaves
<1>2. /\ req[r].pc \in Bound /\ req[r].pc \in ParkTail /\ Ordinary(req[r].s)
      /\ "parkLand" \in ParkTail /\ "parkFail" \in ParkTail
  BY <1>1 DEF Bound, ParkTail, Where
<1>3. PICK t \in Tokens : t = req[r].run
  BY <1>2, BoundIs
<1>4. lease[t].session = req[r].s
  BY <1>2, <1>3, BoundIs
<1>5. CASE /\ SaveCompleted(t, FALSE) /\ out' = out /\ req' = Goto(r, "parkLand")
           /\ completed' = WithReplay(req[r].s, req[r].seg, req[r].segFu, file[req[r].s].pending # {})
  <2>1. /\ \A s \in Sessions : file'[s] = file[s] \/ (s = lease[t].session /\ lease[t].st = "owned")
        /\ UNCHANGED <<lease, history>>
    BY <1>5, OwnerTouches DEF EInv
  <2>2. req[r].seg \in SUBSET Tools /\ req[r].segFu \in FollowUps
    BY <1>1 DEF Req
  <2>3. completed' \subseteq Completed /\ (\A c \in completed' : Ordinary(c.s)) /\ KeepsAnswers
    BY <1>2, <1>5, <2>1, <2>2, WithReplayKeeps
  <2>4. \A s \in HistorySessions : file'[s] # NoFile => file'[s].pending = {}
    BY <1>2, <1>4, <2>1, ConstantsAssumption, Stands DEF Ordinary
  <2> QED BY <1>1, <1>2, <1>3, <1>5, <2>1, <2>3, <2>4, WorkKeeps, Stands
<1>6. CASE /\ out' = Close(out, req[r].took, "failed") /\ req' = Goto(r, "parkFail")
           /\ UNCHANGED <<vars, completed>>
  <2>1. req[r].took \in Requests \cup {NoReq}
    BY <1>1 DEF Req
  <2>2. /\ out' \in [Requests -> Out]
        /\ \A p \in Requests : out'[p].s = out[p].s /\ out'[p].turn = out[p].turn /\ out'[p].done = out[p].done
    BY <1>6, <2>1, CloseIs
  <2>3. KeepsAnswers /\ UNCHANGED <<file, lease, history>>
    BY <1>6 DEF KeepsAnswers, vars
  <2> QED BY <1>1, <1>2, <1>3, <1>6, <2>2, <2>3, WorkKeeps, Stands
<1> QED BY <1>3, <1>4, <1>5, <1>6 DEF ParkSaves

LEMMA ParkLandsStep == ASSUME EInv, NEW r \in Requests, ParkLands(r) PROVE EInv'
<1> DEFINE label == IF req[r].pc = "parkFail" THEN "cancel" ELSE "parkClose"
           f == IF req[r].pc = "parkFail" THEN FlightError
                ELSE FlightReplay(lease[req[r].run].session, req[r].seg, req[r].segFu, TRUE)
<1>1. /\ req[r].pc \in {"parkLand", "parkFail"} /\ req[r] \in Req /\ Where(req[r]) /\ IInv'
      /\ UNCHANGED <<vars, active, starting, out, completed, issued>>
      /\ flight' = EndFlight(run[req[r].run].flight, f) /\ run' = [run EXCEPT ![req[r].run].flight = NoReq]
      /\ req' = Goto(r, label)
  BY RequestIs, StoreQuiet DEF ParkLands
<1>2. /\ req[r].pc \in Bound /\ req[r].pc \in ParkTail /\ Ordinary(req[r].s)
      /\ label \in {"cancel", "done", "drainParked"} \/ (label \in ParkTail /\ label # "parkSave")
  BY <1>1 DEF Bound, ParkTail, Where
<1> HIDE DEF label
<1>3. PICK t \in Tokens : t = req[r].run
  BY <1>2, BoundIs
<1>4. lease[t].session = req[r].s /\ run[t].flight \in Requests \cup {NoReq}
  BY <1>2, <1>3, BoundIs, Stands DEF Run
<1>5. f \in Flight /\ (f.st = "replay" => Ordinary(f.s))
  <2>1. req[r].seg \in SUBSET Tools /\ req[r].segFu \in FollowUps /\ req[r].s \in Sessions
    BY <1>1, <1>2 DEF Req, Ordinary
  <2> QED BY <1>2, <1>3, <1>4, <2>1, Results
<1> HIDE DEF f
<1>6. /\ flight' \in [Requests -> Flight]
      /\ \A p \in Requests : flight'[p].st = "replay" => Ordinary(flight'[p].s)
  BY <1>1, <1>3, <1>4, <1>5, FlightEnds
<1>7. KeepsAnswers /\ UNCHANGED <<file, lease, history>>
  BY <1>1 DEF KeepsAnswers, vars
<1> QED BY <1>1, <1>2, <1>3, <1>6, <1>7, WorkKeeps, Stands

LEMMA ParkClosesStep == ASSUME EInv, NEW r \in Requests, ParkCloses(r) PROVE EInv'
<1> DEFINE label == req[r].then
<1>1. /\ req[r].pc = "parkClose" /\ req[r] \in Req /\ Where(req[r]) /\ IInv'
      /\ UNCHANGED <<vars, active, starting, run, flight, completed, issued>>
      /\ out' = Close(out, req[r].took, "closed") /\ req' = Goto(r, label)
  BY RequestIs, StoreQuiet DEF ParkCloses
<1>2. req[r].pc \in Bound /\ req[r].pc \in ParkTail /\ label \in {"cancel", "done", "drainParked"}
  BY <1>1 DEF Bound, ParkTail, Where
<1> HIDE DEF label
<1>3. PICK t \in Tokens : t = req[r].run
  BY <1>2, BoundIs
<1>4. req[r].took \in Requests \cup {NoReq}
  BY <1>1 DEF Req
<1>5. /\ out' \in [Requests -> Out]
      /\ \A p \in Requests : out'[p].s = out[p].s /\ out'[p].turn = out[p].turn /\ out'[p].done = out[p].done
  BY <1>1, <1>4, CloseIs
<1>6. KeepsAnswers /\ UNCHANGED <<file, lease, history>>
  BY <1>1 DEF KeepsAnswers, vars
<1> QED BY <1>1, <1>2, <1>3, <1>5, <1>6, WorkKeeps, Stands

LEMMA CancelDeletesStep == ASSUME EInv, IInv', NEW r \in Requests, CancelDeletes(r) PROVE EInv'
<1>1. /\ req[r].pc = "cancelDelete" /\ req' = Goto(r, "cancelStop")
      /\ UNCHANGED <<active, starting, run, flight, out, completed, issued>>
  BY DEF CancelDeletes
<1>2. req[r].pc \in Bound /\ req[r].pc \in Canceling
  BY <1>1 DEF Bound, Canceling
<1>3. PICK t \in Tokens : t = req[r].run
  BY <1>2, BoundIs
<1>4. Delete(t) \/ UNCHANGED vars
  BY <1>3 DEF CancelDeletes
<1>5. /\ \A s \in Sessions : file'[s] = file[s] \/ (s = lease[t].session /\ lease[t].st = "owned")
      /\ UNCHANGED <<lease, history>>
  BY <1>4, OwnerTouches DEF EInv, vars
<1>6. \A s \in HistorySessions : file'[s] # NoFile => file'[s].pending = {}
  BY <1>4, ConstantsAssumption, Stands DEF Delete, vars
<1>7. KeepsAnswers
  BY <1>1, <1>5 DEF KeepsAnswers
<1> QED BY <1>1, <1>2, <1>3, <1>5, <1>6, <1>7, WorkKeeps, Stands

LEMMA CancelStep == ASSUME EInv, NEW r \in Requests, Cancel(r) PROVE EInv'
<1>1. /\ req[r].pc = "cancel" /\ req[r] \in Req /\ Where(req[r]) /\ RequestHolds(r) /\ HistoryOutput(r) /\ IInv'
      /\ UNCHANGED <<vars, starting, flight, out, completed, issued>>
  BY RequestIs, StoreQuiet DEF Cancel
<1>2. /\ req[r].pc \notin Reserving \cup Claiming \cup Canceling /\ out[r].s = req[r].s /\ req[r].s \in Sessions
  BY <1>1 DEF Reserving, Claiming, Canceling, Reading, RequestHolds, Where
<1>3. CASE req' = Goto(r, "done") /\ UNCHANGED <<active, run>>
  BY <1>1, <1>2, <1>3, FreeGoto DEF Elsewhere
<1>4. ASSUME NEW t \in Tokens, t = active[req[r].s], active' = [active EXCEPT ![req[r].s] = NoToken],
             run' = [run EXCEPT ![t].closed = TRUE, ![t].out = NoReq],
             req' = [req EXCEPT ![r].pc = "cancelDelete", ![r].run = t, ![r].took = run[t].out]
      PROVE  EInv'
  <2> DEFINE n == [req[r] EXCEPT !.pc = "cancelDelete", !.run = t, !.took = run[t].out]
             m == [run[t] EXCEPT !.closed = TRUE, !.out = NoReq]
  <2>1. req' = [req EXCEPT ![r] = n] /\ run' = [run EXCEPT ![t] = m]
    BY <1>4, Stands
  <2>2. lease[t].session = req[r].s /\ run[t].ph # "none" /\ RunOK(t) /\ run[t] \in Run
    BY <1>2, <1>4, ConstantsAssumption, Stands DEF EInv, MInv, ActiveOK
  <2>3. "cancelDelete" \in Labels /\ "cancelDelete" \in Canceling /\ "cancelDelete" \notin Reserving
        /\ "cancelDelete" \notin Claiming
    BY DEF Labels, Claiming, Reserving, Canceling
  <2>4. n \in Req /\ n.pc = "cancelDelete" /\ n.s = req[r].s /\ n.run = t /\ n.mode = req[r].mode
    <3>1. run[t].out \in Requests \cup {NoReq}
      BY <2>2 DEF Run
    <3> QED BY <1>1, <1>4, <2>3, <3>1 DEF Req
  <2>5. /\ m \in Run /\ m.ph = run[t].ph /\ m.cancelled = run[t].cancelled /\ m.out = NoReq /\ m.last = run[t].last
        /\ m.up = run[t].up /\ m.queue = run[t].queue /\ m.closed /\ m.err = run[t].err
        /\ m.seg = run[t].seg /\ m.fu = run[t].fu
    BY <2>2, ManagerAssumption DEF Run
  <2> HIDE DEF n, m
  <2>6. Where(n) /\ ~NotStarted(n)
    BY <1>1, <1>2, <2>4 DEF Where, NotStarted, Following, Resuming, ParkTail
  <2>7. req'[r] = n /\ run'[t] = m /\ UNCHANGED <<file, lease, history>>
    BY <1>1, <2>1, Stands DEF vars
  <2>8. RequestHolds(r)'
    BY <1>1, <1>2, <2>2, <2>3, <2>4, <2>5, <2>7 DEF RequestHolds, Claiming
  <2>9. HistoryOutput(r)'
    BY <1>1, <2>3, <2>4, <2>7 DEF HistoryOutput
  <2>10. RunOK(t)'
    <3>1. AnswerSaved(t)' <=> AnswerSaved(t)
      BY <1>1, <2>5, <2>7 DEF AnswerSaved
    <3>2. \A s : SameKey(out'[run[t].last].s, s) <=> SameKey(out[run[t].last].s, s)
      BY <1>1
    <3> HIDE DEF SameKey, AnswerSaved
    <3> QED BY <1>1, <2>2, <2>5, <2>7, <3>1, <3>2 DEF RunOK
  <2>11. WorksOn(r, n, t, m)
    BY <1>1, <1>2, <2>1, <2>2, <2>3, <2>4, <2>5, <2>6, <2>7 DEF WorksOn
  <2>12. /\ active' \in [Sessions -> Tokens \cup {NoToken}]
         /\ \A s \in Sessions : active'[s] = active[s] \/ (active[s] = t /\ active'[s] = NoToken)
    BY <1>2, <1>4, Stands
  <2>13. KeepsAnswers
    BY <1>1, <2>7 DEF KeepsAnswers
  <2>14. Touches(r, n, t)
    BY <1>1, <2>3, <2>4, <2>7, <2>12, <2>13, Stands DEF Touches, SameKey
  <2> QED BY <1>1, <2>4, <2>5, <2>8, <2>9, <2>10, <2>11, <2>14, WorkMoves
<1>5. active[req[r].s] \in Tokens \cup {NoToken}
  BY <1>2, Stands
<1> QED BY <1>3, <1>4, <1>5 DEF Cancel

LEMMA CancelStopsStep == ASSUME EInv, NEW r \in Requests, CancelStops(r) PROVE EInv'
<1>1. /\ req[r].pc = "cancelStop" /\ req[r] \in Req /\ Where(req[r]) /\ RequestHolds(r) /\ HistoryOutput(r) /\ IInv'
      /\ UNCHANGED <<vars, active, starting, flight, completed, issued>>
      /\ out' = Close(out, req[r].took, "failed")
  BY RequestIs, StoreQuiet DEF CancelStops
<1>2. req[r].pc \in Bound /\ req[r].pc \in Reading /\ req[r].pc \in Canceling
  BY <1>1 DEF Bound, Canceling, Reading
<1>3. PICK t \in Tokens : t = req[r].run
  BY <1>2, BoundIs
<1>4. /\ lease[t].session = req[r].s /\ run[t].ph # "none" /\ RunOK(t) /\ run[t] \in Run
      /\ out[r].s = req[r].s /\ req[r].s \in Sessions /\ req[r].pc \notin Reserving
  BY <1>2, <1>3, BoundIs, Stands
<1> DEFINE n == At(req[r], "cancelRelease")
           m == [run[t] EXCEPT !.cancelled = TRUE]
<1>5. req' = [req EXCEPT ![r] = n] /\ run' = [run EXCEPT ![t] = m]
  BY <1>3, GotoIs, Stands DEF CancelStops
<1>6. "cancelRelease" \in Labels /\ "cancelRelease" \in Canceling /\ "cancelRelease" \notin Reserving
      /\ "cancelRelease" \notin Claiming
  BY DEF Labels, Claiming, Reserving, Canceling
<1>7. n \in Req /\ n.pc = "cancelRelease" /\ n.s = req[r].s /\ n.run = t /\ n.mode = req[r].mode
  BY <1>1, <1>3, <1>6, AtIs
<1>8. /\ m \in Run /\ m.ph = run[t].ph /\ m.cancelled = TRUE /\ m.out = run[t].out /\ m.last = run[t].last
      /\ m.up = run[t].up /\ m.queue = run[t].queue /\ m.closed = run[t].closed /\ m.err = run[t].err
      /\ m.seg = run[t].seg /\ m.fu = run[t].fu
  BY <1>4 DEF Run
<1> HIDE DEF n, m
<1>9. Where(n) /\ ~NotStarted(n)
  BY <1>1, <1>4, <1>7 DEF Where, NotStarted, Following, Resuming, ParkTail
<1>10. req'[r] = n /\ run'[t] = m /\ UNCHANGED <<file, lease, history>>
  BY <1>1, <1>5, Stands DEF vars
<1>11. req[r].took \in Requests \cup {NoReq}
  BY <1>1 DEF Req
<1>12. /\ out' \in [Requests -> Out]
       /\ \A p \in Requests : out'[p].s = out[p].s /\ out'[p].turn = out[p].turn /\ out'[p].done = out[p].done
  BY <1>1, <1>11, CloseIs
<1>13. RequestHolds(r)'
  BY <1>1, <1>4, <1>6, <1>7, <1>8, <1>10, <1>12 DEF RequestHolds, Claiming
<1>14. HistoryOutput(r)'
  BY <1>1, <1>6, <1>7, <1>10, <1>12 DEF HistoryOutput
<1>15. RunOK(t)'
  <2>1. AnswerSaved(t)' <=> AnswerSaved(t)
    BY <1>1, <1>8, <1>10 DEF AnswerSaved
  <2>2. /\ run[t].out # NoReq => out'[run[t].out].s = out[run[t].out].s
        /\ run[t].last # NoReq => out'[run[t].last].s = out[run[t].last].s
    BY <1>4, <1>12 DEF Run
  <2> HIDE DEF SameKey, AnswerSaved
  <2> QED BY <1>4, <1>8, <1>10, <2>1, <2>2 DEF RunOK
<1>16. WorksOn(r, n, t, m)
  BY <1>1, <1>2, <1>3, <1>4, <1>5, <1>6, <1>7, <1>8, <1>9, <1>10 DEF WorksOn
<1>17. KeepsAnswers
  BY <1>1, <1>10 DEF KeepsAnswers
<1>18. Touches(r, n, t)
  BY <1>1, <1>10, <1>12, <1>17, Stands DEF Touches, SameKey
<1> QED BY <1>1, <1>7, <1>8, <1>13, <1>14, <1>15, <1>16, <1>18, WorkMoves

\* The lease of a run is given up.
LEMMA ReleaseIs ==
    ASSUME EInv, NEW t \in Tokens, Release(t) \/ (lease[t].st = "released" /\ UNCHANGED vars), lease[t] \in Lease
    PROVE  /\ \A u \in Tokens : u # t => lease'[u] = lease[u]
           /\ lease'[t].session = lease[t].session /\ lease'[t].proc = lease[t].proc
           /\ lease'[t].st = "released" /\ UNCHANGED <<file, history>>
BY Stands DEF Release, Drop, vars, Lease

LEMMA CancelReleasesStep == ASSUME EInv, IInv', NEW r \in Requests, CancelReleases(r) PROVE EInv'
<1>1. /\ req[r].pc = "cancelRelease" /\ req[r] \in Req /\ Where(req[r]) /\ RequestHolds(r) /\ HistoryOutput(r)
      /\ UNCHANGED <<active, starting, run, flight, out, completed, issued>>
  BY RequestIs DEF CancelReleases
<1>2. req[r].pc \in Bound /\ req[r].pc \in Reading /\ req[r].pc \in Canceling
  BY <1>1 DEF Bound, Canceling, Reading
<1>3. PICK t \in Tokens : t = req[r].run
  BY <1>2, BoundIs
<1>4. /\ lease[t].session = req[r].s /\ run[t].ph # "none" /\ RunOK(t) /\ run[t] \in Run /\ lease[t] \in Lease
      /\ req[r].pc \notin Reserving /\ run[t].cancelled
  BY <1>1, <1>2, <1>3, BoundIs, Stands DEF RequestHolds
<1> DEFINE n == At(req[r], "done")
           m == run[t]
<1>5. req' = [req EXCEPT ![r] = n] /\ run' = [run EXCEPT ![t] = m]
  BY <1>1, GotoIs, Stands DEF CancelReleases
<1>6. "done" \in Labels /\ "done" \notin Reserving \cup Claiming \cup Canceling \cup Bound \cup Reading
  BY DEF Labels, Claiming, Reserving, Canceling, Bound, Resuming, ParkTail, Reading
<1>7. n \in Req /\ n.pc = "done" /\ n.s = NoSession /\ n.mode = "start"
  BY <1>1, <1>6, AtIs
<1> HIDE DEF n
<1>8. Where(n) /\ ~NotStarted(n)
  BY <1>7 DEF Where, NotStarted, Following, Resuming, ParkTail
<1>9. req'[r] = n
  BY <1>5, Stands
<1>10. /\ \A u \in Tokens : u # t => lease'[u] = lease[u]
       /\ lease'[t].session = lease[t].session /\ lease'[t].proc = lease[t].proc
       /\ lease'[t].st = "released" /\ UNCHANGED <<file, history>>
  BY <1>3, <1>4, ReleaseIs DEF CancelReleases
<1>11. RequestHolds(r)'
  BY <1>6, <1>7, <1>9 DEF RequestHolds
<1>12. HistoryOutput(r)'
  BY <1>1, <1>7, <1>9 DEF HistoryOutput
<1>13. RunOK(t)'
  <2>1. AnswerSaved(t)' <=> AnswerSaved(t)
    BY <1>1, <1>10 DEF AnswerSaved
  <2> HIDE DEF SameKey, AnswerSaved
  <2> QED BY <1>1, <1>4, <1>10, <2>1 DEF RunOK
<1>14. WorksOn(r, n, t, m)
  BY <1>1, <1>2, <1>3, <1>4, <1>5, <1>6, <1>7, <1>8, <1>10 DEF WorksOn
<1>15. KeepsAnswers
  BY <1>1, <1>10 DEF KeepsAnswers
<1>16. Touches(r, n, t)
  BY <1>1, <1>10, <1>15, Stands DEF Touches, SameKey
<1> QED BY <1>4, <1>7, <1>11, <1>12, <1>13, <1>14, <1>16, WorkMoves

-----------------------------------------------------------------------------
(***************************************************************************)
(* Steps of a run.                                                         *)
(***************************************************************************)
\* What a step of a run leaves of the outputs.
KeepsOutputs ==
    /\ out' \in [Requests -> Out]
    /\ \A q \in Requests :
          /\ out'[q].s = out[q].s
          /\ out[q].s \in HistorySessions => out'[q].turn = out[q].turn /\ out'[q].done = out[q].done

\* While the runner is at work.
LEMMA RunsOn ==
    ASSUME EInv, IInv', NEW t \in Tokens, Running(t), NEW n \in Run, run' = [run EXCEPT ![t] = n],
           n.ph \in {"running", "returned"}, run[t].cancelled => n.cancelled,
           n.out = run[t].out, n.last = run[t].last, n.seg = run[t].seg,
           lease[t].session \in HistorySessions => n.up = {} /\ n.queue = {},
           UNCHANGED <<lease, history, active, starting, req, flight, completed>>,
           issued' \subseteq Tools, KeepsOutputs,
           \A s \in Sessions : file'[s] = file[s] \/ (s = lease[t].session /\ lease[t].st = "owned"),
           \A s \in HistorySessions : file'[s] # NoFile => file'[s].pending = {}
    PROVE  EInv'
<1>1. run[t].ph \notin {"none", "gone"} /\ RunOK(t) /\ run[t] \in Run /\ run[t].ph = "running"
  BY Stands DEF Running, EInv, MInv
<1>2. run'[t] = n
  BY Stands
<1>3. RunOK(t)'
  <2>1. /\ run[t].out # NoReq => out'[run[t].out].s = out[run[t].out].s
        /\ run[t].last # NoReq => out'[run[t].last].s = out[run[t].last].s
    BY <1>1 DEF Run, KeepsOutputs
  <2> HIDE DEF SameKey, AnswerSaved
  <2> QED BY <1>1, <1>2, <2>1 DEF RunOK
<1>4. KeepsAnswers
  BY DEF KeepsAnswers
<1> QED BY <1>1, <1>3, <1>4, RunMoves, Stands DEF KeepsOutputs

LEMMA EmittedIs ==
    ASSUME EInv, NEW t \in Tokens, NEW o, out' = Emitted(t, o),
           run[t].out # NoReq => /\ o \in Out /\ o.s = out[run[t].out].s /\ o.done = out[run[t].out].done
                                 /\ o.s \in HistorySessions => o.turn = out[run[t].out].turn
    PROVE  KeepsOutputs
<1>1. out \in [Requests -> Out] /\ run[t].out \in Requests \cup {NoReq}
  BY Stands DEF Run
<1>2. CASE run[t].failed \/ run[t].out = NoReq
  BY <1>1, <1>2 DEF Emitted, KeepsOutputs
<1>3. CASE ~(run[t].failed \/ run[t].out = NoReq)
  <2>1. out' = [out EXCEPT ![run[t].out] = o] /\ run[t].out \in Requests
    BY <1>1, <1>3 DEF Emitted
  <2> QED BY <1>1, <1>3, <2>1 DEF KeepsOutputs
<1> QED BY <1>2, <1>3

\* A running run: nothing is pending, queued or covered if its key is a history key.
LEMMA RunIs ==
    ASSUME EInv, NEW t \in Tokens, run[t].ph # "none"
    PROVE  /\ run[t] \in Run /\ RunOK(t) /\ lease[t] \in Lease /\ lease[t].session \in Sessions
           /\ lease[t].session \in HistorySessions => run[t].up = {} /\ run[t].queue = {} /\ run[t].seg = {}
           /\ run[t].out # NoReq => run[t].out \in Requests /\ out[run[t].out] \in Out
                                    /\ SameKey(out[run[t].out].s, lease[t].session)
<1>1. RunOK(t) /\ run[t] \in Run
  BY Stands DEF EInv, MInv
<1>2. lease[t] \in Lease
  BY <1>1, HeldIsLease DEF RunOK, EInv, IInv
<1> HIDE DEF SameKey
<1> QED BY <1>1, <1>2, Stands DEF RunOK, Run, Lease

LEMMA ToolCallStep == ASSUME EInv, NEW t \in Tokens, NEW x \in Tools, ToolCall(t, x) PROVE EInv'
<1>1. /\ Running(t) /\ lease[t].session \notin HistorySessions /\ issued' = issued \cup {x}
      /\ UNCHANGED <<vars, active, starting, req, flight, completed>> /\ IInv'
  BY StoreQuiet DEF ToolCall
<1>2. run[t].ph # "none" /\ run[t] \in Run /\ issued' \subseteq Tools
      /\ UNCHANGED <<file, lease, history>>
  BY <1>1, RunIs, Stands DEF Running, vars
<1>3. run[t].up \cup {x} \in SUBSET Tools /\ run[t].pend \cup {x} \in SUBSET Tools
  BY <1>2 DEF Run
<1>4. CASE run' = [run EXCEPT ![t] = Failed([run[t] EXCEPT !.up = @ \cup {x}])] /\ out' = out
  <2> DEFINE w == run[t].up \cup {x}
             m == [run[t] EXCEPT !.up = w]
             n == Failed(m)
  <2>1. run' = [run EXCEPT ![t] = n]
    BY <1>4, Stands
  <2>2. w \in SUBSET Tools
    BY <1>3
  <2> HIDE DEF w
  <2>3. m \in Run /\ m.ph = run[t].ph /\ m.out = run[t].out /\ m.last = run[t].last /\ m.seg = run[t].seg
    BY <1>2, <2>2 DEF Run
  <2> HIDE DEF m
  <2>4. n \in Run /\ n.ph = run[t].ph /\ n.cancelled = TRUE /\ n.out = run[t].out /\ n.last = run[t].last
        /\ n.seg = run[t].seg
    BY <2>3 DEF Run, Failed
  <2> HIDE DEF n
  <2>5. KeepsOutputs
    BY <1>4, Stands DEF KeepsOutputs
  <2> QED BY <1>1, <1>2, <2>1, <2>4, <2>5, RunsOn, Stands DEF Running
<1>5. CASE /\ run[t].out # NoReq /\ run' = [run EXCEPT ![t].pend = @ \cup {x}, ![t].up = @ \cup {x}]
           /\ out' = Emitted(t, [out[run[t].out] EXCEPT !.tools = @ \cup {x}])
  <2> DEFINE w == run[t].up \cup {x}
             v == run[t].pend \cup {x}
             n == [run[t] EXCEPT !.pend = v, !.up = w]
             y == out[run[t].out].tools \cup {x}
             o == [out[run[t].out] EXCEPT !.tools = y]
  <2>1. run' = [run EXCEPT ![t] = n] /\ out' = Emitted(t, o)
    BY <1>5, Stands
  <2>2. w \in SUBSET Tools /\ v \in SUBSET Tools
    BY <1>3
  <2> HIDE DEF w, v
  <2>3. n \in Run /\ n.ph = run[t].ph /\ n.cancelled = run[t].cancelled /\ n.out = run[t].out
        /\ n.last = run[t].last /\ n.seg = run[t].seg
    BY <1>2, <2>2 DEF Run
  <2> HIDE DEF n
  <2>4. out[run[t].out] \in Out
    BY <1>2, <1>5, RunIs
  <2>5. y \in SUBSET Tools
    BY <2>4 DEF Out
  <2> HIDE DEF y
  <2>6. o \in Out /\ o.s = out[run[t].out].s /\ o.done = out[run[t].out].done /\ o.turn = out[run[t].out].turn
    BY <2>4, <2>5 DEF Out
  <2> HIDE DEF o
  <2>7. KeepsOutputs
    BY <2>1, <2>6, EmittedIs
  <2> QED BY <1>1, <1>2, <2>1, <2>3, <2>7, RunsOn, Stands DEF Running
<1> QED BY <1>4, <1>5 DEF ToolCall

LEMMA HistoryToolCallStep == ASSUME EInv, NEW t \in Tokens, NEW x \in Tools, HistoryToolCall(t, x) PROVE EInv'
<1>1. /\ Running(t) /\ issued' = issued \cup {x}
      /\ UNCHANGED <<vars, active, starting, req, flight, completed>> /\ IInv'
  BY StoreQuiet DEF HistoryToolCall
<1>2. run[t].ph # "none" /\ run[t] \in Run /\ issued' \subseteq Tools /\ UNCHANGED <<file, lease, history>>
      /\ (lease[t].session \in HistorySessions => run[t].up = {} /\ run[t].queue = {})
  BY <1>1, RunIs, Stands DEF Running, vars
<1> DEFINE v == run[t].pend \cup {x}
           term == ~run[t].failed /\ run[t].out # NoReq
           err == run[t].failed \/ run[t].out = NoReq
           n == [run[t] EXCEPT !.ph = "returned", !.pend = v, !.term = term, !.err = err]
           y == out[run[t].out].tools \cup {x}
           o == [out[run[t].out] EXCEPT !.tools = y]
<1>3. run' = [run EXCEPT ![t] = n] /\ out' = Emitted(t, o)
  BY Stands DEF HistoryToolCall
<1>4. v \in SUBSET Tools /\ term \in BOOLEAN /\ err \in BOOLEAN
  BY <1>2 DEF Run
<1> HIDE DEF v, term, err
<1>5. n \in Run /\ n.ph = "returned" /\ n.cancelled = run[t].cancelled /\ n.out = run[t].out
      /\ n.last = run[t].last /\ n.seg = run[t].seg /\ n.up = run[t].up /\ n.queue = run[t].queue
  BY <1>2, <1>4 DEF Run
<1> HIDE DEF n
<1>6. run[t].out # NoReq => /\ o \in Out /\ o.s = out[run[t].out].s /\ o.done = out[run[t].out].done
                            /\ o.turn = out[run[t].out].turn
  <2> SUFFICES ASSUME run[t].out # NoReq
               PROVE  /\ o \in Out /\ o.s = out[run[t].out].s /\ o.done = out[run[t].out].done
                      /\ o.turn = out[run[t].out].turn
    OBVIOUS
  <2>1. out[run[t].out] \in Out
    BY <1>2, RunIs
  <2>2. y \in SUBSET Tools
    BY <2>1 DEF Out
  <2> HIDE DEF y
  <2> QED BY <2>1, <2>2 DEF Out
<1> HIDE DEF o
<1>7. KeepsOutputs
  BY <1>3, <1>6, EmittedIs
<1> QED BY <1>1, <1>2, <1>3, <1>5, <1>7, RunsOn, Stands DEF Running

LEMMA TurnEndedStep == ASSUME EInv, NEW t \in Tokens, TurnEnded(t) PROVE EInv'
<1>1. /\ Running(t) /\ run[t].up # {}
      /\ UNCHANGED <<vars, active, starting, req, flight, completed, issued>> /\ IInv'
  BY StoreQuiet DEF TurnEnded
<1>2. run[t].ph # "none" /\ run[t] \in Run /\ UNCHANGED <<file, lease, history>>
      /\ lease[t].session \notin HistorySessions /\ lease[t].session \in Sessions
  BY <1>1, RunIs DEF Running, vars
<1> DEFINE n == [run[t] EXCEPT !.signaled = TRUE]
           o == [out[run[t].out] EXCEPT !.turn = TRUE]
<1>3. run' = [run EXCEPT ![t] = n] /\ out' = Emitted(t, o)
  BY Stands DEF TurnEnded
<1>4. n \in Run /\ n.ph = run[t].ph /\ n.cancelled = run[t].cancelled /\ n.out = run[t].out
      /\ n.last = run[t].last /\ n.seg = run[t].seg
  BY <1>2 DEF Run
<1> HIDE DEF n
<1>5. run[t].out # NoReq => /\ o \in Out /\ o.s = out[run[t].out].s /\ o.done = out[run[t].out].done
                            /\ o.s \notin HistorySessions
  <2> SUFFICES ASSUME run[t].out # NoReq
               PROVE  /\ o \in Out /\ o.s = out[run[t].out].s /\ o.done = out[run[t].out].done
                      /\ o.s \notin HistorySessions
    OBVIOUS
  <2>1. out[run[t].out] \in Out /\ SameKey(out[run[t].out].s, lease[t].session)
    BY <1>2, RunIs
  <2> QED BY <1>2, <2>1 DEF Out, SameKey
<1> HIDE DEF o
<1>6. KeepsOutputs
  BY <1>3, <1>5, EmittedIs
<1> QED BY <1>1, <1>2, <1>3, <1>4, <1>6, RunsOn, Stands DEF Running

LEMMA ResultAcceptedStep == ASSUME EInv, IInv', NEW t \in Tokens, NEW x \in Tools, ResultAccepted(t, x) PROVE EInv'
<1> DEFINE left == run[t].pend \ {x}
           queue == run[t].queue \ {x}
           up == run[t].up \ {x}
           signaled == run[t].signaled /\ up # {}
           m == [run[t] EXCEPT !.queue = queue, !.pend = left, !.up = up, !.signaled = signaled]
<1>1. /\ Running(t) /\ x \in run[t].queue
      /\ UNCHANGED <<active, starting, req, flight, out, completed, issued>>
      /\ \/ SavePending(t, left) /\ run' = [run EXCEPT ![t] = m]
         \/ run' = [run EXCEPT ![t] = Failed(m)] /\ UNCHANGED vars
  BY DEF ResultAccepted
<1>2. run[t].ph # "none" /\ run[t] \in Run /\ lease[t].session \notin HistorySessions
  BY <1>1, RunIs DEF Running
<1>3. left \in SUBSET Tools /\ queue \in SUBSET Tools /\ up \in SUBSET Tools /\ signaled \in BOOLEAN
  BY <1>2 DEF Run
<1> HIDE DEF left, queue, up, signaled
<1>4. m \in Run /\ m.ph = run[t].ph /\ m.cancelled = run[t].cancelled /\ m.out = run[t].out
      /\ m.last = run[t].last /\ m.seg = run[t].seg
  BY <1>2, <1>3 DEF Run
<1>5. Failed(m) \in Run /\ Failed(m).ph = run[t].ph /\ Failed(m).cancelled = TRUE /\ Failed(m).out = run[t].out
      /\ Failed(m).last = run[t].last /\ Failed(m).seg = run[t].seg
  <2> HIDE DEF m
  <2> QED BY <1>4 DEF Run, Failed
<1> HIDE DEF m
<1>6. PICK n \in Run : /\ run' = [run EXCEPT ![t] = n] /\ n.ph = run[t].ph /\ (run[t].cancelled => n.cancelled)
                       /\ n.out = run[t].out /\ n.last = run[t].last /\ n.seg = run[t].seg
  BY <1>1, <1>4, <1>5
<1>7. /\ \A s \in Sessions : file'[s] = file[s] \/ (s = lease[t].session /\ lease[t].st = "owned")
      /\ UNCHANGED <<lease, history>>
  BY <1>1, OwnerTouches DEF EInv, vars
<1>8. \A s \in HistorySessions : file'[s] # NoFile => file'[s].pending = {}
  BY <1>2, <1>7, ConstantsAssumption, Stands
<1>9. KeepsOutputs
  BY <1>1, Stands DEF KeepsOutputs
<1> QED BY <1>1, <1>2, <1>6, <1>7, <1>8, <1>9, RunsOn, Stands DEF Running

LEMMA FailStateStep == ASSUME EInv, NEW t \in Tokens, FailState(t) PROVE EInv'
<1>1. /\ Running(t) /\ UNCHANGED <<vars, active, starting, req, flight, out, completed, issued>> /\ IInv'
  BY StoreQuiet DEF FailState
<1>2. run[t].ph # "none" /\ run[t] \in Run /\ UNCHANGED <<file, lease, history>>
      /\ (lease[t].session \in HistorySessions => run[t].up = {} /\ run[t].queue = {})
  BY <1>1, RunIs DEF Running, vars
<1> DEFINE n == Failed(run[t])
<1>3. run' = [run EXCEPT ![t] = n]
  BY Stands DEF FailState
<1>4. n \in Run /\ n.ph = run[t].ph /\ n.cancelled = TRUE /\ n.out = run[t].out
      /\ n.last = run[t].last /\ n.seg = run[t].seg /\ n.up = run[t].up /\ n.queue = run[t].queue
  BY <1>2 DEF Run, Failed
<1> HIDE DEF n
<1>5. KeepsOutputs
  BY <1>1, Stands DEF KeepsOutputs
<1> QED BY <1>1, <1>2, <1>3, <1>4, <1>5, RunsOn, Stands DEF Running

LEMMA RunReturnsStep == ASSUME EInv, NEW t \in Tokens, NEW e \in BOOLEAN, RunReturns(t, e) PROVE EInv'
<1>1. /\ Running(t) /\ UNCHANGED <<vars, active, starting, req, flight, out, completed, issued>> /\ IInv'
  BY StoreQuiet DEF RunReturns
<1>2. run[t].ph # "none" /\ run[t] \in Run /\ UNCHANGED <<file, lease, history>>
      /\ (lease[t].session \in HistorySessions => run[t].up = {} /\ run[t].queue = {})
  BY <1>1, RunIs DEF Running, vars
<1> DEFINE term == ~e /\ ~run[t].failed
           err == e \/ run[t].failed
           n == [run[t] EXCEPT !.ph = "returned", !.term = term, !.err = err]
<1>3. run' = [run EXCEPT ![t] = n]
  BY Stands DEF RunReturns
<1>4. term \in BOOLEAN /\ err \in BOOLEAN
  BY <1>2 DEF Run
<1> HIDE DEF term, err
<1>5. n \in Run /\ n.ph = "returned" /\ n.cancelled = run[t].cancelled /\ n.out = run[t].out
      /\ n.last = run[t].last /\ n.seg = run[t].seg /\ n.up = run[t].up /\ n.queue = run[t].queue
  BY <1>2, <1>4 DEF Run
<1> HIDE DEF n
<1>6. KeepsOutputs
  BY <1>1, Stands DEF KeepsOutputs
<1> QED BY <1>1, <1>2, <1>3, <1>5, <1>6, RunsOn, Stands DEF Running

LEMMA RunClosesStep == ASSUME EInv, NEW t \in Tokens, RunCloses(t) PROVE EInv'
<1>1. /\ run[t].ph = "returned" /\ UNCHANGED <<vars, active, starting, req, flight, out, completed, issued>> /\ IInv'
  BY StoreQuiet DEF RunCloses
<1>2. run[t].ph \notin {"none", "gone"} /\ run[t] \in Run /\ RunOK(t) /\ UNCHANGED <<file, lease, history>>
  BY <1>1, RunIs DEF vars
<1> DEFINE n == [run[t] EXCEPT !.ph = "saving", !.closed = TRUE, !.last = run[t].out, !.out = NoReq]
<1>3. run' = [run EXCEPT ![t] = n]
  BY Stands DEF RunCloses
<1>4. n \in Run /\ n.ph = "saving" /\ n.closed /\ n.cancelled = run[t].cancelled /\ n.out = NoReq
      /\ n.last = run[t].out /\ n.seg = run[t].seg /\ n.up = run[t].up /\ n.queue = run[t].queue
  BY <1>2 DEF Run
<1> HIDE DEF n
<1>5. run'[t] = n
  BY <1>3, Stands
<1>6. RunOK(t)'
  <2> HIDE DEF SameKey, AnswerSaved
  <2> QED BY <1>1, <1>2, <1>4, <1>5 DEF RunOK
<1>7. KeepsAnswers
  BY <1>1, <1>2 DEF KeepsAnswers
<1> QED BY <1>1, <1>2, <1>3, <1>4, <1>6, <1>7, RunMoves, Stands

\* A run that goes on to a later phase: what it may do to the store, the
\* flights and the replays.
Finishes(t, n) ==
    /\ run' = [run EXCEPT ![t] = n]
    /\ run[t].ph \notin {"none", "running", "returned", "gone"}
    /\ n.ph \in {"landing", "deleting", "releasing", "retiring", "delivering"}
    /\ n.closed = run[t].closed /\ n.cancelled = run[t].cancelled
    /\ n.out = run[t].out /\ n.last = run[t].last /\ n.seg = run[t].seg /\ n.fu = run[t].fu
    /\ n.up = run[t].up /\ n.queue = run[t].queue
    /\ UNCHANGED <<req, starting, out, issued>>
    /\ \A u \in Tokens : u # t => lease'[u] = lease[u]
    /\ lease'[t].session = lease[t].session /\ lease'[t].proc = lease[t].proc
    /\ lease'[t].st \in {lease[t].st, "released"}
    /\ n.ph \in {"retiring", "delivering"} => lease'[t].st = "released"
    /\ active' \in [Sessions -> Tokens \cup {NoToken}]
    /\ \A s \in Sessions : active'[s] = active[s] \/
          (active[s] = t /\ active'[s] = NoToken /\ lease'[t].st = "released")
    /\ KeepsAnswers /\ completed' \subseteq Completed /\ (\A c \in completed' : Ordinary(c.s))
    /\ \A s \in Sessions : file'[s] = file[s] \/ (s = lease[t].session /\ lease[t].st = "owned")
    /\ \A s \in HistorySessions : file'[s] # NoFile => file'[s].pending = {}
    /\ flight' \in [Requests -> Flight]
    /\ \A q \in Requests : flight'[q].st = "replay" => Ordinary(flight'[q].s)

LEMMA FinishMoves ==
    ASSUME EInv, IInv', NEW t \in Tokens, NEW n \in Run, Finishes(t, n), ~n.err => AnswerSaved(t)'
    PROVE  EInv'
<1>1. run[t].ph \notin {"none", "gone"} /\ RunOK(t) /\ run[t] \in Run /\ lease[t].st \in {"owned", "released"}
  BY RunIs DEF Finishes, RunOK
<1>2. run'[t] = n
  BY Stands DEF Finishes
<1>3. RunOK(t)'
  <2>1. run[t].closed
    BY <1>1 DEF RunOK, Run, Finishes
  <2> HIDE DEF SameKey, AnswerSaved
  <2> QED BY <1>1, <1>2, <2>1 DEF RunOK, Finishes
<1>4. KeepsOutputs
  BY Stands DEF Finishes, KeepsOutputs
<1> QED BY <1>1, <1>3, <1>4, RunMoves, Stands DEF Finishes, KeepsOutputs

\* The run's record as it goes on to phase ph.
LEMMA PhaseIs ==
    ASSUME EInv, NEW t \in Tokens, NEW ph \in {"landing", "deleting", "releasing", "retiring", "delivering"}
    PROVE  LET n == [run[t] EXCEPT !.ph = ph] IN
           /\ n \in Run /\ n.ph = ph /\ n.closed = run[t].closed /\ n.cancelled = run[t].cancelled
           /\ n.out = run[t].out /\ n.last = run[t].last /\ n.seg = run[t].seg /\ n.fu = run[t].fu
           /\ n.up = run[t].up /\ n.queue = run[t].queue /\ n.err = run[t].err
<1>1. run[t] \in Run
  BY Stands
<1> QED BY <1>1 DEF Run

\* An answer that was saved stays saved.
LEMMA AnswerKept ==
    ASSUME EInv, NEW t \in Tokens, run[t].ph # "none", KeepsAnswers, AnswerSaved(t),
           lease'[t].session = lease[t].session, run'[t].seg = run[t].seg, run'[t].fu = run[t].fu
    PROVE  AnswerSaved(t)'
<1>1. lease[t].session \in Sessions
  BY RunIs
<1>2. CASE lease[t].session \in HistorySessions
  BY <1>1, <1>2, ConstantsAssumption DEF AnswerSaved, KeepsAnswers
<1>3. CASE lease[t].session \notin HistorySessions
  BY <1>3 DEF AnswerSaved, KeepsAnswers
<1> QED BY <1>2, <1>3

LEMMA RunLandsStep == ASSUME EInv, NEW t \in Tokens, RunLands(t) PROVE EInv'
<1> DEFINE f == IF run[t].err THEN FlightError
                ELSE IF run[t].seg = {} THEN FlightNotPending
                ELSE FlightReplay(lease[t].session, run[t].seg, run[t].fu, run[t].pend # {})
<1>1. /\ run[t].ph = "landing" /\ UNCHANGED <<vars, active, starting, req, out, completed, issued>> /\ IInv'
      /\ flight' = EndFlight(run[t].flight, f)
  BY StoreQuiet DEF RunLands
<1>2. /\ run[t].ph # "none" /\ run[t] \in Run /\ RunOK(t) /\ UNCHANGED <<file, lease, history>>
      /\ lease[t].session \in HistorySessions => run[t].seg = {}
      /\ lease[t].session \in Sessions /\ (~run[t].err => AnswerSaved(t))
  BY <1>1, RunIs DEF vars, RunOK
<1>3. run[t].flight \in Requests \cup {NoReq} /\ run[t].seg \in SUBSET Tools /\ run[t].fu \in FollowUps
  BY <1>2 DEF Run
<1>4. f \in Flight /\ (f.st = "replay" => Ordinary(f.s))
  BY ZenonT(60), <1>2, <1>3, Results DEF Ordinary
<1> HIDE DEF f
<1>5. /\ flight' \in [Requests -> Flight]
      /\ \A p \in Requests : flight'[p].st = "replay" => Ordinary(flight'[p].s)
  BY <1>1, <1>3, <1>4, FlightEnds
<1> DEFINE n == [run[t] EXCEPT !.flight = NoReq, !.ph = "deleting"]
<1>6. run' = [run EXCEPT ![t] = n]
  BY Stands DEF RunLands
<1>7. /\ n \in Run /\ n.ph = "deleting" /\ n.closed = run[t].closed /\ n.cancelled = run[t].cancelled
      /\ n.out = run[t].out /\ n.last = run[t].last /\ n.seg = run[t].seg /\ n.fu = run[t].fu
      /\ n.up = run[t].up /\ n.queue = run[t].queue /\ n.err = run[t].err
  BY <1>2 DEF Run
<1> HIDE DEF n
<1>8. KeepsAnswers /\ run'[t] = n
  BY <1>1, <1>2, <1>6, Stands DEF KeepsAnswers
<1>9. ~n.err => AnswerSaved(t)'
  BY <1>2, <1>7, <1>8, AnswerKept
<1>10. Finishes(t, n)
  BY <1>1, <1>2, <1>5, <1>6, <1>7, <1>8, Stands DEF Finishes
<1> QED BY <1>1, <1>7, <1>9, <1>10, FinishMoves

LEMMA RunDeletesStep == ASSUME EInv, IInv', NEW t \in Tokens, RunDeletes(t) PROVE EInv'
<1>1. /\ run[t].ph = "deleting" /\ UNCHANGED <<active, starting, req, flight, out, completed, issued>>
      /\ UNCHANGED vars \/ (Delete(t) /\ lease[t].session \notin HistorySessions)
  BY DEF RunDeletes
<1>2. run[t].ph # "none" /\ (~run[t].err => AnswerSaved(t))
  BY <1>1, RunIs DEF RunOK
<1>3. /\ \A s \in Sessions : file'[s] = file[s] \/ (s = lease[t].session /\ lease[t].st = "owned")
      /\ UNCHANGED <<lease, history>>
  BY <1>1, OwnerTouches DEF EInv, vars
<1>4. \A s \in HistorySessions : file'[s] # NoFile => file'[s].pending = {}
  BY <1>1, <1>3, ConstantsAssumption, Stands DEF vars
<1> DEFINE n == [run[t] EXCEPT !.ph = "releasing"]
<1>5. run' = [run EXCEPT ![t] = n]
  BY Stands DEF RunDeletes
<1>6. /\ n \in Run /\ n.ph = "releasing" /\ n.closed = run[t].closed /\ n.cancelled = run[t].cancelled
      /\ n.out = run[t].out /\ n.last = run[t].last /\ n.seg = run[t].seg /\ n.fu = run[t].fu
      /\ n.up = run[t].up /\ n.queue = run[t].queue /\ n.err = run[t].err
  BY PhaseIs
<1> HIDE DEF n
<1>7. KeepsAnswers /\ run'[t] = n
  BY <1>1, <1>3, <1>5, Stands DEF KeepsAnswers
<1>8. ~n.err => AnswerSaved(t)'
  BY <1>2, <1>3, <1>6, <1>7, AnswerKept
<1>9. Finishes(t, n)
  BY <1>1, <1>3, <1>4, <1>5, <1>6, <1>7, Stands DEF Finishes
<1> QED BY <1>6, <1>8, <1>9, FinishMoves

LEMMA RunReleasesStep == ASSUME EInv, IInv', NEW t \in Tokens, RunReleases(t) PROVE EInv'
<1>1. /\ run[t].ph = "releasing" /\ UNCHANGED <<active, starting, req, flight, out, completed, issued>>
      /\ Release(t) \/ (lease[t].st = "released" /\ UNCHANGED vars)
  BY DEF RunReleases
<1>2. run[t].ph # "none" /\ (~run[t].err => AnswerSaved(t)) /\ lease[t] \in Lease
  BY <1>1, RunIs DEF RunOK
<1>3. /\ \A u \in Tokens : u # t => lease'[u] = lease[u]
      /\ lease'[t].session = lease[t].session /\ lease'[t].proc = lease[t].proc
      /\ lease'[t].st = "released" /\ UNCHANGED <<file, history>>
  BY <1>1, <1>2, ReleaseIs
<1> DEFINE n == [run[t] EXCEPT !.ph = "retiring"]
<1>4. run' = [run EXCEPT ![t] = n]
  BY Stands DEF RunReleases
<1>5. /\ n \in Run /\ n.ph = "retiring" /\ n.closed = run[t].closed /\ n.cancelled = run[t].cancelled
      /\ n.out = run[t].out /\ n.last = run[t].last /\ n.seg = run[t].seg /\ n.fu = run[t].fu
      /\ n.up = run[t].up /\ n.queue = run[t].queue /\ n.err = run[t].err
  BY PhaseIs
<1> HIDE DEF n
<1>6. KeepsAnswers /\ run'[t] = n
  BY <1>1, <1>3, <1>4, Stands DEF KeepsAnswers
<1>7. ~n.err => AnswerSaved(t)'
  BY <1>2, <1>3, <1>5, <1>6, AnswerKept
<1>8. Finishes(t, n)
  BY <1>1, <1>3, <1>4, <1>5, <1>6, Stands DEF Finishes
<1> QED BY <1>5, <1>7, <1>8, FinishMoves

LEMMA RunRetiresStep == ASSUME EInv, NEW t \in Tokens, RunRetires(t) PROVE EInv'
<1>1. /\ run[t].ph = "retiring" /\ UNCHANGED <<vars, starting, req, flight, out, completed, issued>> /\ IInv'
      /\ active' = IF active[lease[t].session] = t THEN [active EXCEPT ![lease[t].session] = NoToken] ELSE active
  BY StoreQuiet DEF RunRetires
<1>2. /\ run[t].ph # "none" /\ (~run[t].err => AnswerSaved(t)) /\ lease[t].session \in Sessions
      /\ lease[t].st = "released" /\ UNCHANGED <<file, lease, history>>
  BY <1>1, RunIs DEF RunOK, vars
<1>3. /\ active' \in [Sessions -> Tokens \cup {NoToken}]
      /\ \A s \in Sessions : active'[s] = active[s] \/ (active[s] = t /\ active'[s] = NoToken)
  BY <1>1, <1>2, Stands
<1> DEFINE n == [run[t] EXCEPT !.ph = "delivering"]
<1>4. run' = [run EXCEPT ![t] = n]
  BY Stands DEF RunRetires
<1>5. /\ n \in Run /\ n.ph = "delivering" /\ n.closed = run[t].closed /\ n.cancelled = run[t].cancelled
      /\ n.out = run[t].out /\ n.last = run[t].last /\ n.seg = run[t].seg /\ n.fu = run[t].fu
      /\ n.up = run[t].up /\ n.queue = run[t].queue /\ n.err = run[t].err
  BY PhaseIs
<1> HIDE DEF n
<1>6. KeepsAnswers /\ run'[t] = n
  BY <1>1, <1>2, <1>4, Stands DEF KeepsAnswers
<1>7. ~n.err => AnswerSaved(t)'
  BY <1>2, <1>5, <1>6, AnswerKept
<1>8. Finishes(t, n)
  BY <1>1, <1>2, <1>3, <1>4, <1>5, <1>6, Stands DEF Finishes
<1> QED BY <1>1, <1>5, <1>7, <1>8, FinishMoves

LEMMA RunSavesStep == ASSUME EInv, IInv', NEW t \in Tokens, RunSaves(t) PROVE EInv'
<1>1. /\ run[t].ph = "saving" /\ UNCHANGED <<active, starting, req, flight, out, issued>>
  BY DEF RunSaves
<1>2. /\ run[t].ph # "none" /\ run[t] \in Run /\ RunOK(t) /\ lease[t].session \in Sessions /\ lease[t] \in Lease
      /\ lease[t].session \in HistorySessions => run[t].seg = {}
      /\ run[t].seg \in SUBSET Tools /\ run[t].fu \in FollowUps
  BY <1>1, RunIs DEF Run
<1>3. CASE SaveHistory(t) /\ run' = [run EXCEPT ![t].ph = "landing"] /\ completed' = completed
  <2> DEFINE n == [run[t] EXCEPT !.ph = "landing"]
  <2>1. run' = [run EXCEPT ![t] = n]
    BY <1>3, Stands
  <2>2. /\ n \in Run /\ n.ph = "landing" /\ n.closed = run[t].closed /\ n.cancelled = run[t].cancelled
        /\ n.out = run[t].out /\ n.last = run[t].last /\ n.seg = run[t].seg /\ n.fu = run[t].fu
        /\ n.up = run[t].up /\ n.queue = run[t].queue /\ n.err = run[t].err
    BY PhaseIs
  <2> HIDE DEF n
  <2>3. /\ lease[t].st = "owned" /\ lease[t].session \in HistorySessions /\ lease' = lease
        /\ file[lease[t].session] \in File
    BY <1>2, <1>3, Stands DEF SaveHistory, MayUpdate
  <2>4. history'[lease[t].session] = t /\ \A s \in Sessions : history[s] # NoToken => history'[s] = history[s]
    <3>1. history[lease[t].session] # NoToken => history[lease[t].session] = t
      BY <2>3 DEF EInv, IInv, NoSecondInvocation
    <3> QED BY <1>2, <1>3, <3>1, Stands DEF SaveHistory
  <2>5. \A s \in Sessions : /\ s # lease[t].session => file'[s] = file[s]
                            /\ s = lease[t].session => file'[s] = file[s] \/ file'[s].pending = {}
    <3> DEFINE k == lease[t].session
               g == [file[k] EXCEPT !.ckpt = NoCred, !.pending = {}, !.batch = {},
                                    !.pendBy = NoCred, !.ephemeral = TRUE]
    <3>1. g.pending = {}
      BY <2>3 DEF File
    <3>2. file' = [file EXCEPT ![k] = file[k]] \/ file' = [file EXCEPT ![k] = g]
      BY <1>2, <1>3, Stands DEF SaveHistory, Write
    <3> HIDE DEF g
    <3> QED BY <1>2, <3>1, <3>2, Stands
  <2>6. /\ \A s \in Sessions : file'[s] = file[s] \/ (s = lease[t].session /\ lease[t].st = "owned")
        /\ \A s \in HistorySessions : file'[s] # NoFile => file'[s].pending = {}
    BY <2>3, <2>5, ConstantsAssumption, Stands
  <2>7. KeepsAnswers /\ run'[t] = n
    BY <1>3, <2>1, <2>4, Stands DEF KeepsAnswers
  <2>8. AnswerSaved(t)'
    BY <2>3, <2>4 DEF AnswerSaved
  <2>9. Finishes(t, n)
    BY <1>1, <1>3, <2>1, <2>2, <2>3, <2>6, <2>7, Stands DEF Finishes
  <2> QED BY <2>2, <2>8, <2>9, FinishMoves
<1>4. ASSUME NEW e, SaveCompleted(t, e), run' = [run EXCEPT ![t].ph = "landing"],
             completed' = WithReplay(lease[t].session, run[t].seg, run[t].fu, file[lease[t].session].pending # {})
      PROVE  EInv'
  <2> DEFINE n == [run[t] EXCEPT !.ph = "landing"]
  <2>1. run' = [run EXCEPT ![t] = n]
    BY <1>4, Stands
  <2>2. /\ n \in Run /\ n.ph = "landing" /\ n.closed = run[t].closed /\ n.cancelled = run[t].cancelled
        /\ n.out = run[t].out /\ n.last = run[t].last /\ n.seg = run[t].seg /\ n.fu = run[t].fu
        /\ n.up = run[t].up /\ n.queue = run[t].queue /\ n.err = run[t].err
    BY PhaseIs
  <2> HIDE DEF n
  <2>3. /\ \A s \in Sessions : file'[s] = file[s] \/ (s = lease[t].session /\ lease[t].st = "owned")
        /\ UNCHANGED <<lease, history>> /\ Ordinary(lease[t].session)
    <3>1. /\ \A s \in Sessions : file'[s] = file[s] \/ (s = lease[t].session /\ lease[t].st = "owned")
          /\ UNCHANGED <<lease, history>>
      BY <1>4, OwnerTouches DEF EInv
    <3> QED BY <1>2, <1>4, <3>1 DEF SaveCompleted, Ordinary
  <2>4. /\ completed' \subseteq Completed /\ (\A c \in completed' : Ordinary(c.s))
        /\ KeepsAnswers /\ \E c \in completed' : c.batch = run[t].seg /\ c.fu = run[t].fu
    <3> DEFINE more == file[lease[t].session].pending # {}
    <3>1. more \in BOOLEAN /\ completed' = WithReplay(lease[t].session, run[t].seg, run[t].fu, more)
      BY <1>4
    <3> HIDE DEF more
    <3> QED BY <1>2, <2>3, <3>1, WithReplayKeeps
  <2>5. \A s \in HistorySessions : file'[s] # NoFile => file'[s].pending = {}
    BY <2>3, ConstantsAssumption, Stands DEF Ordinary
  <2>6. run'[t] = n
    BY <2>1, Stands
  <2>7. AnswerSaved(t)'
    BY <2>2, <2>3, <2>4, <2>6 DEF AnswerSaved, Ordinary
  <2>8. Finishes(t, n)
    BY <1>1, <2>1, <2>2, <2>3, <2>4, <2>5, <2>6, Stands DEF Finishes
  <2> QED BY <2>2, <2>7, <2>8, FinishMoves
<1>5. ASSUME NEW save \in BOOLEAN, save <=> ~run[t].err /\ (lease[t].session \in HistorySessions \/ run[t].seg # {}),
             run' = [run EXCEPT ![t].ph = "landing", ![t].err = @ \/ save], UNCHANGED <<vars, completed>>
      PROVE  EInv'
  <2> DEFINE err == run[t].err \/ save
             n == [run[t] EXCEPT !.ph = "landing", !.err = err]
  <2>1. run' = [run EXCEPT ![t] = n]
    BY <1>5, Stands
  <2>2. err \in BOOLEAN /\ (~err => lease[t].session \notin HistorySessions /\ run[t].seg = {})
    BY <1>2, <1>5 DEF Run
  <2> HIDE DEF err
  <2>3. /\ n \in Run /\ n.ph = "landing" /\ n.closed = run[t].closed /\ n.cancelled = run[t].cancelled
        /\ n.out = run[t].out /\ n.last = run[t].last /\ n.seg = run[t].seg /\ n.fu = run[t].fu
        /\ n.up = run[t].up /\ n.queue = run[t].queue /\ n.err = err
    BY <1>2, <2>2 DEF Run
  <2> HIDE DEF n
  <2>4. KeepsAnswers /\ run'[t] = n /\ UNCHANGED <<file, lease, history>>
    BY <1>5, <2>1, Stands DEF KeepsAnswers, vars
  <2>5. ~n.err => AnswerSaved(t)'
    BY <2>2, <2>3, <2>4 DEF AnswerSaved
  <2>6. Finishes(t, n)
    BY <1>1, <1>5, <2>1, <2>3, <2>4, Stands DEF Finishes
  <2> QED BY <2>3, <2>5, <2>6, FinishMoves
<1>6. CASE /\ run' = [run EXCEPT ![t].ph = "landing",
                                 ![t].err = @ \/ (~run[t].err /\ (lease[t].session \in HistorySessions \/ run[t].seg # {}))]
           /\ UNCHANGED <<vars, completed>>
  BY <1>5, <1>6
<1> QED BY <1>3, <1>4, <1>6 DEF RunSaves

\* What delivering does to the outputs.
LEMMA DeliveredIs ==
    ASSUME EInv, NEW t \in Tokens, RunDelivers(t)
    PROVE  /\ out' \in [Requests -> Out]
           /\ \A q \in Requests :
                 /\ out'[q].s = out[q].s /\ out'[q].turn = out[q].turn
                 /\ out'[q].done => out[q].done \/ (q = run[t].last /\ ~run[t].err)
<1>1. run[t] \in Run /\ out \in [Requests -> Out]
  BY Stands
<1>2. CASE run[t].last = NoReq
  BY <1>1, <1>2 DEF RunDelivers
<1>3. CASE run[t].last # NoReq
  <2> DEFINE q == run[t].last
  <2>1. q \in Requests /\ out[q] \in Out
    BY <1>1, <1>3 DEF Run
  <2>2. PICK full \in {FALSE, run[t].term} :
          out' = Close([out EXCEPT ![q].done =
                           @ \/ (~run[t].err /\ run[t].term /\ ~full /\ out[q].st = "open")],
                       q, IF run[t].err \/ full THEN "failed" ELSE "closed")
    BY <1>3 DEF RunDelivers
  <2> DEFINE done == out[q].done \/ (~run[t].err /\ run[t].term /\ ~full /\ out[q].st = "open")
             o == [out[q] EXCEPT !.done = done]
             how == IF run[t].err \/ full THEN "failed" ELSE "closed"
             out1 == [out EXCEPT ![q] = o]
  <2>3. done \in BOOLEAN /\ (done => out[q].done \/ ~run[t].err) /\ how \in {"failed", "closed"}
    BY <1>1, <2>1 DEF Run, Out
  <2>4. out' = Close(out1, q, how)
    BY <1>1, <2>1, <2>2
  <2> HIDE DEF done, how
  <2>5. o \in Out /\ o.s = out[q].s /\ o.turn = out[q].turn /\ o.done = done
    BY <2>1, <2>3 DEF Out
  <2> HIDE DEF o
  <2>6. out1 \in [Requests -> Out] /\ out1[q] = o /\ \A p \in Requests : p # q => out1[p] = out[p]
    BY <1>1, <2>1, <2>5
  <2> HIDE DEF out1
  <2>7. \/ out' = out1
        \/ out' = [out1 EXCEPT ![q] = [o EXCEPT !.st = how]]
    BY <2>1, <2>4, <2>6 DEF Close
  <2>8. LET c == [o EXCEPT !.st = how] IN c \in Out /\ c.s = o.s /\ c.turn = o.turn /\ c.done = o.done
    BY <2>3, <2>5 DEF Out
  <2>9. out' \in [Requests -> Out] /\ (\A p \in Requests : p # q => out'[p] = out[p])
        /\ out'[q].s = out[q].s /\ out'[q].turn = out[q].turn /\ out'[q].done = done
    BY <2>1, <2>5, <2>6, <2>7, <2>8
  <2> QED BY <2>1, <2>3, <2>9
<1> QED BY <1>2, <1>3

LEMMA RunDeliversStep == ASSUME EInv, NEW t \in Tokens, RunDelivers(t) PROVE EInv'
<1>1. /\ run[t].ph = "delivering" /\ run' = [run EXCEPT ![t] = Gone] /\ IInv'
      /\ UNCHANGED <<vars, active, starting, req, flight, completed, issued>>
  BY StoreQuiet DEF RunDelivers
<1>2. /\ run[t].ph \notin {"none", "gone"} /\ run[t] \in Run /\ lease[t].st = "released"
      /\ lease[t].session \in Sessions /\ (~run[t].err => AnswerSaved(t))
      /\ (run[t].last # NoReq => SameKey(out[run[t].last].s, lease[t].session))
      /\ UNCHANGED <<file, lease, history>>
  BY <1>1, RunIs DEF RunOK, vars
<1>3. /\ Gone \in Run /\ Gone.ph = "gone" /\ Gone.cancelled = TRUE /\ Gone.out = NoReq /\ Gone.last = NoReq
      /\ Gone.up = {} /\ Gone.queue = {} /\ Gone.seg = {}
  BY ManagerAssumption DEF Gone, NoRun, Run
<1>4. run'[t] = Gone
  BY <1>1, Stands
<1>5. RunOK(t)'
  <2> HIDE DEF SameKey, AnswerSaved
  <2> QED BY <1>2, <1>3, <1>4 DEF RunOK
<1>6. /\ out' \in [Requests -> Out]
      /\ \A q \in Requests :
            /\ out'[q].s = out[q].s /\ out'[q].turn = out[q].turn
            /\ out'[q].done => out[q].done \/ (q = run[t].last /\ ~run[t].err)
  BY DeliveredIs
<1>7. ASSUME NEW q \in Requests, out[q].s \in HistorySessions, q = run[t].last, ~run[t].err
      PROVE  history'[out[q].s] = t
  BY <1>2, <1>7, ManagerAssumption DEF SameKey, AnswerSaved
<1>8. KeepsAnswers
  BY <1>1, <1>2 DEF KeepsAnswers
<1> HIDE DEF Gone
<1> QED BY ZenonT(60), <1>1, <1>2, <1>3, <1>5, <1>6, <1>7, <1>8, RunMoves, Stands

-----------------------------------------------------------------------------
(***************************************************************************)
(* The process dies and is started again.                                  *)
(***************************************************************************)
LEMMA RestartStep == ASSUME EInv, IInv', Restart PROVE EInv'
<1>1. MInv /\ ManagerTypeOK
  BY DEF EInv, MInv
<1>2. /\ UNCHANGED <<file, history, completed, issued>>
      /\ active' = [s \in Sessions |-> NoToken] /\ starting' = {}
      /\ run' = [t \in Tokens |-> IF run[t].ph = "none" THEN NoRun ELSE Gone]
      /\ req' = [r \in Requests |-> IF req[r].pc = "idle" THEN IdleReq ELSE [IdleReq EXCEPT !.pc = "done"]]
      /\ flight' = [r \in Requests |-> NoFlight]
      /\ out' = [r \in Requests |-> [NoOut EXCEPT !.tools = out[r].tools]]
  BY DEF Restart, Crash
<1>3. \A t \in Tokens : IF Holds(t) THEN /\ lease'[t].st = "released" /\ lease'[t].session = lease[t].session
                                    ELSE lease'[t] = lease[t]
  <2>1. \A t \in Tokens : Holds(t) => lease[t].proc = Self /\ lease[t] \in Lease
    BY <1>1, HeldIsLease DEF MInv, HeldBy, Holds, EInv, IInv
  <2>2. lease' = [t \in Tokens |-> IF Holds(t) /\ lease[t].proc = Self
                                   THEN [lease[t] EXCEPT !.st = "released"] ELSE lease[t]]
    BY DEF Restart, Crash
  <2> QED BY <2>1, <2>2 DEF Lease
<1>4. \A t \in Tokens : ~Holds(t)'
  BY <1>3 DEF Holds
<1>5. /\ NoRun \in Run /\ NoRun.ph = "none" /\ NoRun.out = NoReq /\ NoRun.last = NoReq
      /\ Gone \in Run /\ Gone.ph = "gone" /\ Gone.out = NoReq /\ Gone.last = NoReq
      /\ Gone.up = {} /\ Gone.queue = {} /\ Gone.seg = {}
  BY ManagerAssumption DEF Gone, NoRun, Run
<1>6. /\ IdleReq \in Req /\ IdleReq.pc = "idle" /\ IdleReq.mode = "start"
      /\ [IdleReq EXCEPT !.pc = "done"] \in Req /\ [IdleReq EXCEPT !.pc = "done"].pc = "done"
      /\ [IdleReq EXCEPT !.pc = "done"].mode = "start"
  BY ManagerAssumption DEF IdleReq, Req, Labels
<1>7. NoFlight \in Flight /\ NoFlight.st # "replay"
  BY Results
<1>8. \A r \in Requests : /\ out'[r] \in Out /\ out'[r].s = NoSession /\ ~out'[r].turn /\ ~out'[r].done
  <2> SUFFICES ASSUME NEW r \in Requests
               PROVE  out'[r] \in Out /\ out'[r].s = NoSession /\ ~out'[r].turn /\ ~out'[r].done
    OBVIOUS
  <2>1. out'[r] = [NoOut EXCEPT !.tools = out[r].tools]
    BY <1>2
  <2>2. out[r].tools \in SUBSET Tools
    BY Stands DEF Out
  <2> QED BY <2>1, <2>2 DEF NoOut, Out
<1>9. /\ \A r \in Requests : IF req[r].pc = "idle" THEN req'[r] = IdleReq
                                                   ELSE req'[r] = [IdleReq EXCEPT !.pc = "done"]
      /\ \A t \in Tokens : IF run[t].ph = "none" THEN run'[t] = NoRun ELSE run'[t] = Gone
  BY <1>2
<1>10. ManagerTypeOK'
  <2>1. active' \in [Sessions -> Tokens \cup {NoToken}] /\ starting' \subseteq {s \in Sessions : active'[s] = NoToken}
    BY <1>2
  <2>2. run' \in [Tokens -> Run] /\ req' \in [Requests -> Req] /\ flight' \in [Requests -> Flight]
    <3> HIDE DEF NoRun, Gone, IdleReq
    <3> QED BY <1>2, <1>5, <1>6, <1>7
  <2>3. out' \in [Requests -> Out]
    <3>1. \E f : out' = [r \in Requests |-> f[r]]
      <4> DEFINE f == [r \in Requests |-> [NoOut EXCEPT !.tools = out[r].tools]]
      <4>1. out' = f /\ f = [r \in Requests |-> f[r]]
        BY <1>2
      <4> HIDE DEF f
      <4> QED BY <4>1
    <3> QED BY <1>8, <3>1
  <2> QED BY <1>1, <1>2, <2>1, <2>2, <2>3 DEF ManagerTypeOK
<1> HIDE DEF NoRun, Gone
<1>11. ASSUME NEW r \in Requests PROVE RequestOK(r)'
  <2>1. req'[r].pc \in {"idle", "done"} /\ req'[r].mode = "start" /\ (req'[r].pc = "idle" => req'[r] = IdleReq)
    BY <1>6, <1>9
  <2>2. Where(req'[r])
    BY <2>1 DEF Where, Following, Resuming, ParkTail
  <2>3. req'[r].pc \notin Reserving \cup Claiming \cup Bound \cup Reading \cup {"claimed", "cancelRelease"}
    BY <2>1 DEF Claiming, Reserving, Canceling, Bound, Resuming, ParkTail, Reading
  <2>4. RequestHolds(r)'
    BY <2>3 DEF RequestHolds
  <2>5. HistoryOutput(r)'
    BY <1>8, ConstantsAssumption DEF HistoryOutput
  <2>6. NoOutput(r)'
    BY <1>5, <1>9, ManagerAssumption DEF NoOutput
  <2>7. Where(req[r])'
    BY <2>2 DEF Where
  <2> QED BY <2>4, <2>5, <2>6, <2>7 DEF RequestOK
<1>12. ASSUME NEW t \in Tokens PROVE RunOK(t)'
  <2> SUFFICES ASSUME run[t].ph # "none" PROVE RunOK(t)'
    BY <1>5, <1>9 DEF RunOK
  <2>1. lease[t].st \in {"owned", "released"} /\ run'[t] = Gone
    BY <1>1, <1>9 DEF MInv, RunOK
  <2>2. lease'[t].st = "released"
    BY <1>3, <2>1 DEF Holds
  <2> HIDE DEF SameKey, AnswerSaved
  <2> QED BY <1>5, <2>1, <2>2 DEF RunOK
<1>13. ReservedOnce'
  <2>1. \A r \in Requests : req'[r].pc \notin Reserving
    BY <1>6, <1>9 DEF Claiming, Reserving
  <2> QED BY <2>1 DEF ReservedOnce
<1>14. ActiveOK'
  BY <1>2 DEF ActiveOK
<1>15. \A t \in Tokens : HeldBy(t)'
  BY <1>4 DEF HeldBy
<1>16. HistoryApart'
  <2>1. \A r \in Requests : flight'[r] = NoFlight
    BY <1>2
  <2> QED BY <1>1, <1>2, <1>7, <2>1 DEF MInv, HistoryApart
<1>17. \A r \in Requests : HistoryDone(r)'
  BY <1>8 DEF HistoryDone
<1> QED BY <1>10, <1>11, <1>12, <1>13, <1>14, <1>15, <1>16, <1>17 DEF EInv, MInv

-----------------------------------------------------------------------------
(***************************************************************************)
(* The manager uses the session files only through the store: every step   *)
(* is a step of StateStore or leaves its variables alone.                  *)
(***************************************************************************)
LEMMA OwnerSimulates ==
    ASSUME NEW t \in Tokens, OwnerStep(t) PROVE Next
BY DEF Next

LEMMA StartSimulates == ASSUME EInv, NEW r \in Requests, StartStep(r) PROVE [Next]_vars
<1>1. CASE ClaimAcquire(r)
  <2>1. NewToken \in Tokens /\ Self \in Procs /\ Account \in Creds
    BY <1>1, ManagerAssumption DEF ClaimAcquire, NewToken
  <2>2. req[r].s \in Sessions
    BY <1>1, RequestIs DEF Where, ClaimAcquire
  <2>3. ClaimStep(NewToken)
    BY <1>1, <2>1, <2>2 DEF ClaimStep, ClaimAcquire
  <2> QED BY <2>1, <2>3 DEF Next
<1>2. CASE ClaimReturns(r) \/ ClaimCommits(r)
  <2>1. req[r].pc = "claiming"
    BY <1>2 DEF ClaimReturns, ClaimCommits
  <2>2. /\ req[r].run \in Tokens /\ lease[req[r].run].session = req[r].s /\ req[r].s \in Sessions
        /\ lease[req[r].run].st = "claiming"
    BY <2>1, RequestIs DEF RequestHolds, Claiming, Where
  <2>3. OptionsOf(r) \subseteq ClaimOptions(req[r].s)
    BY <2>1, <2>2, OptionsAreClaims
  <2>4. lease[req[r].run] # NoLease
    BY <2>2 DEF NoLease
  <2>5. PICK t \in Tokens, metered \in BOOLEAN : t = req[r].run /\ metered = (Metering /\ req[r].mode # "cold")
    BY <2>2, ManagerAssumption
  <2>6. CASE ClaimReturns(r)
    <3>1. ClaimReplay(t) \/ \E o \in ClaimOptions(req[r].s) : ClaimRefused(t, o)
      BY <2>3, <2>5, <2>6 DEF ClaimReturns
    <3>2. ClaimStep(t)
      BY <2>2, <2>4, <2>5, <3>1 DEF ClaimStep
    <3> QED BY <3>2 DEF Next
  <2>7. CASE ClaimCommits(r)
    <3>1. PICK o \in ClaimOptions(req[r].s) : ClaimCommitted(t, o, TRUE, metered, TRUE)
      BY <2>3, <2>5, <2>7 DEF ClaimCommits
    <3>2. \E catalog, m, indexed \in BOOLEAN : ClaimCommitted(t, o, catalog, m, indexed)
      BY <3>1
    <3> HIDE DEF ClaimCommitted
    <3>3. ClaimStep(t)
      BY <2>2, <2>4, <2>5, <3>2 DEF ClaimStep
    <3> QED BY <3>3 DEF Next
  <2> QED BY <1>2, <2>6, <2>7
<1>3. CASE StartLookup(r) \/ Reserve(r) \/ Unreserve(r) \/ ClaimHeld(r) \/ StartRun(r)
  BY <1>3 DEF StartLookup, Reserve, Unreserve, ClaimHeld, StartRun, StartClaimed
<1> QED BY <1>1, <1>2, <1>3 DEF StartStep

LEMMA ResumeSimulates == ASSUME EInv, NEW r \in Requests, ResumeStep(r) PROVE [Next]_vars
<1>1. CASE ResumeBilling(r)
  <2>1. req[r].pc \in Bound
    BY <1>1 DEF ResumeBilling, Bound, Resuming
  <2>2. PICK t \in Tokens : t = req[r].run
    BY <2>1, BoundIs
  <2>3. SetBillingRunID(t) \/ UNCHANGED vars
    BY <1>1, <2>2 DEF ResumeBilling
  <2> QED BY <2>3, OwnerSimulates DEF OwnerStep
<1>2. CASE ColdMismatch(r)
  <2>1. req[r].pc \in Claiming
    BY <1>2 DEF ColdMismatch, Claiming
  <2>2. PICK t \in Tokens : t = req[r].run
    BY <2>1, ClaimIs
  <2>3. Release(t)
    BY <1>2, <2>2 DEF ColdMismatch
  <2> QED BY <2>3, OwnerSimulates DEF OwnerStep
<1>3. CASE \/ BeginFlight(r) \/ FlightWaited(r) \/ ResolvePending(r) \/ LookupReplay(r) \/ ReadActive(r)
           \/ BindFlight(r) \/ ResumeChecks(r) \/ ResumeAttach(r) \/ ResumePush(r) \/ ColdRun(r) \/ ResumeFails(r)
  BY <1>3 DEF BeginFlight, FlightWaited, ResolvePending, LookupReplay, ReadActive, BindFlight, ResumeChecks,
              ResumeAttach, ResumePush, ColdRun, ResumeFails, StartClaimed
<1> QED BY <1>1, <1>2, <1>3 DEF ResumeStep

LEMMA FollowSimulates == ASSUME EInv, NEW r \in Requests, FollowStep(r) PROVE [Next]_vars
<1>1. CASE FollowClaimed(r)
  <2>1. req[r].pc \in Claiming
    BY <1>1 DEF FollowClaimed, Claiming
  <2>2. PICK t \in Tokens : t = req[r].run
    BY <2>1, ClaimIs
  <2>3. Release(t) \/ \E some \in BOOLEAN : SaveUsageCarry(t, some)
    BY <1>1, <2>2 DEF FollowClaimed
  <2> QED BY <2>3, OwnerSimulates DEF OwnerStep
<1>2. CASE FollowLookup(r) \/ FollowRun(r) \/ \E timeout \in BOOLEAN : FollowAwaits(r, timeout)
  BY <1>2 DEF FollowLookup, FollowRun, FollowAwaits, StartClaimed
<1> QED BY <1>1, <1>2 DEF FollowStep

LEMMA ParkCancelSimulates == ASSUME EInv, NEW r \in Requests, ParkCancelStep(r) PROVE [Next]_vars
<1>1. CASE Park(r)
  <2>1. req[r].s \in Sessions
    BY <1>1, RequestIs DEF Park, Where
  <2>2. active[req[r].s] \in Tokens \cup {NoToken}
    BY <2>1, Stands
  <2>3. UNCHANGED vars \/ \E t \in Tokens : SavePending(t, run[t].pend)
    BY <1>1, <2>2 DEF Park
  <2>4. \A t \in Tokens : run[t].pend \in SUBSET Tools
    BY Stands DEF Run
  <2> QED BY <2>3, <2>4, OwnerSimulates DEF OwnerStep
<1>2. CASE ParkSaves(r) \/ CancelDeletes(r) \/ CancelReleases(r)
  <2>1. req[r].pc \in Bound
    BY <1>2 DEF ParkSaves, CancelDeletes, CancelReleases, Bound, ParkTail, Canceling
  <2>2. PICK t \in Tokens : t = req[r].run
    BY <2>1, BoundIs
  <2>3. SaveCompleted(t, FALSE) \/ Delete(t) \/ Release(t) \/ UNCHANGED vars
    BY <1>2, <2>2 DEF ParkSaves, CancelDeletes, CancelReleases
  <2> QED BY <2>3, OwnerSimulates DEF OwnerStep
<1>3. CASE ParkLands(r) \/ ParkCloses(r) \/ Cancel(r) \/ CancelStops(r)
  BY <1>3 DEF ParkLands, ParkCloses, Cancel, CancelStops
<1> QED BY <1>1, <1>2, <1>3 DEF ParkCancelStep

LEMMA RunSimulates == ASSUME EInv, NEW t \in Tokens, UpstreamStep(t) \/ FinishStep(t) PROVE [Next]_vars
<1>1. ASSUME NEW x \in Tools, ResultAccepted(t, x) PROVE [Next]_vars
  <2>1. run[t].pend \ {x} \in SUBSET Tools
    BY Stands DEF Run
  <2>2. (\E pending \in SUBSET Tools : SavePending(t, pending)) \/ UNCHANGED vars
    BY <1>1, <2>1 DEF ResultAccepted
  <2> QED BY <2>2, OwnerSimulates DEF OwnerStep
<1>2. CASE RunSaves(t)
  <2>1. (DeleteCompleted /\ run[t].pend = {}) \in BOOLEAN
    BY ManagerAssumption
  <2>2. SaveHistory(t) \/ (\E e \in BOOLEAN : SaveCompleted(t, e)) \/ UNCHANGED vars
    BY <1>2, <2>1 DEF RunSaves
  <2> QED BY <2>2, OwnerSimulates DEF OwnerStep
<1>3. CASE RunDeletes(t) \/ RunReleases(t)
  <2>1. Delete(t) \/ Release(t) \/ UNCHANGED vars
    BY <1>3 DEF RunDeletes, RunReleases
  <2> QED BY <2>1, OwnerSimulates DEF OwnerStep
<1>4. CASE \/ \E x \in Tools : ToolCall(t, x) \/ HistoryToolCall(t, x)
           \/ TurnEnded(t) \/ FailState(t) \/ RunCloses(t) \/ RunLands(t) \/ RunRetires(t) \/ RunDelivers(t)
           \/ \E err \in BOOLEAN : RunReturns(t, err)
  BY <1>4 DEF ToolCall, HistoryToolCall, TurnEnded, FailState, RunCloses, RunLands, RunRetires, RunDelivers,
              RunReturns
<1> QED BY <1>1, <1>2, <1>3, <1>4 DEF UpstreamStep, FinishStep

LEMMA Simulates == EInv /\ [ExecutorNext]_allVars => [Next]_vars
<1> SUFFICES ASSUME EInv, [ExecutorNext]_allVars PROVE [Next]_vars
  OBVIOUS
<1>1. ASSUME NEW r \in Requests, RequestStep(r) PROVE [Next]_vars
  BY <1>1, StartSimulates, ResumeSimulates, FollowSimulates, ParkCancelSimulates DEF RequestStep
<1>2. ASSUME NEW r \in Requests, ReadStep(r) \/ ClientStep(r) PROVE [Next]_vars
  BY <1>2 DEF ReadStep, ClientStep, Fallback, ReadTurnEnded, ReadEnd, ReadParked, BeginStart, BeginResume, GiveUp
<1>3. CASE Restart
  <2>1. Crash(Self) /\ Self \in Procs
    BY <1>3, ManagerAssumption DEF Restart
  <2> QED BY <2>1 DEF Next, StoreStep
<1>4. CASE UNCHANGED allVars
  BY <1>4 DEF allVars
<1> QED BY <1>1, <1>2, <1>3, <1>4, RunSimulates DEF ExecutorNext

-----------------------------------------------------------------------------
(***************************************************************************)
(* The invariance proof.                                                   *)
(***************************************************************************)
LEMMA ExecutorInitial == ExecutorInit => EInv
<1> SUFFICES ASSUME ExecutorInit PROVE EInv
  OBVIOUS
<1>1. IInv
  BY InitIInv DEF ExecutorInit
<1>2. /\ \A s \in Sessions : active[s] = NoToken /\ file[s] = NoFile
      /\ \A t \in Tokens : run[t] = NoRun /\ lease[t] = NoLease
      /\ \A r \in Requests : req[r] = IdleReq /\ flight[r] = NoFlight /\ out[r] = NoOut
      /\ completed = {} /\ issued = {} /\ starting = {}
  BY DEF ExecutorInit, ManagerInit, Init
<1>3. /\ NoRun \in Run /\ NoRun.ph = "none" /\ NoRun.out = NoReq /\ NoRun.last = NoReq
      /\ IdleReq \in Req /\ IdleReq.pc = "idle" /\ IdleReq.mode = "start"
      /\ NoOut \in Out /\ ~NoOut.done /\ NoOut.s = NoSession
  BY ManagerAssumption DEF NoRun, Run, IdleReq, Req, Labels, NoOut, Out
<1>4. NoFlight \in Flight /\ NoFlight.st # "replay"
  BY Results
<1>5. NoLease.st \notin {"claiming", "owned"}
  BY DEF NoLease
<1> HIDE DEF NoRun, IdleReq, NoFlight, NoOut, NoLease
<1>6. ManagerTypeOK
  BY <1>3, <1>4 DEF ExecutorInit, ManagerInit, ManagerTypeOK
<1>7. ASSUME NEW r \in Requests PROVE RequestOK(r) /\ HistoryDone(r)
  <2>1. Where(req[r])
    BY <1>2, <1>3 DEF Where, Following, Resuming, ParkTail
  <2>2. "idle" \notin Reserving \cup Claiming \cup Bound \cup Reading
    BY DEF Claiming, Reserving, Canceling, Bound, Resuming, ParkTail, Reading
  <2>3. RequestHolds(r)
    BY <1>2, <1>3, <2>2 DEF RequestHolds
  <2>4. HistoryOutput(r) /\ HistoryDone(r)
    BY <1>2, <1>3, ConstantsAssumption DEF HistoryOutput, HistoryDone
  <2>5. NoOutput(r)
    BY <1>2, <1>3, ManagerAssumption DEF NoOutput
  <2> QED BY <2>1, <2>3, <2>4, <2>5 DEF RequestOK
<1>8. \A t \in Tokens : RunOK(t) /\ HeldBy(t)
  BY <1>2, <1>3, <1>5 DEF RunOK, HeldBy, Holds
<1>9. ReservedOnce /\ ActiveOK /\ HistoryApart
  <2>1. "idle" \notin Reserving
    BY DEF Reserving, Claiming
  <2> QED BY <1>2, <1>3, <1>4, <2>1, ConstantsAssumption DEF ReservedOnce, ActiveOK, HistoryApart
<1> QED BY <1>1, <1>6, <1>7, <1>8, <1>9 DEF EInv, MInv

LEMMA ExecutorStutters == ASSUME EInv, UNCHANGED allVars PROVE EInv'
<1>1. IInv' /\ UNCHANGED <<file, lease, history>> /\ UNCHANGED managerVars
  BY StoreQuiet DEF allVars, vars
<1>2. MInv'
  <2>1. ManagerTypeOK' /\ ReservedOnce' /\ ActiveOK' /\ HistoryApart'
    BY <1>1 DEF EInv, MInv, ManagerTypeOK, ReservedOnce, ActiveOK, HistoryApart, Ordinary, managerVars
  <2>2. ASSUME NEW r \in Requests PROVE RequestOK(r)' /\ HistoryDone(r)'
    BY <1>1 DEF EInv, MInv, RequestOK, Where, RequestHolds, HistoryOutput, NoOutput, NotStarted,
                HistoryDone, Ordinary, managerVars
  <2>3. ASSUME NEW t \in Tokens PROVE RunOK(t)' /\ HeldBy(t)'
    BY <1>1 DEF EInv, MInv, RunOK, AnswerSaved, SameKey, HeldBy, Holds, Ordinary, managerVars
  <2> QED BY <2>1, <2>2, <2>3 DEF MInv
<1> QED BY <1>1, <1>2 DEF EInv

LEMMA ExecutorStep == EInv /\ [ExecutorNext]_allVars => EInv'
<1> SUFFICES ASSUME EInv, [ExecutorNext]_allVars PROVE EInv'
  OBVIOUS
<1>1. IInv'
  BY Simulates, NextIStep DEF EInv
<1>2. ASSUME NEW r \in Requests, StartStep(r) PROVE EInv'
  BY <1>1, <1>2, StartLookupStep, ReserveStep, UnreserveStep, ClaimHeldStep, ClaimAcquireStep,
     ClaimReturnsStep, ClaimCommitsStep, StartRunStep DEF StartStep
<1>3. ASSUME NEW r \in Requests, ResumeStep(r) PROVE EInv'
  BY <1>1, <1>3, BeginFlightStep, FlightWaitedStep, ResolvePendingStep, LookupReplayStep, ReadActiveStep,
     BindFlightStep, ResumeChecksStep, ResumeBillingStep, ResumeAttachStep, ResumePushStep, ColdRunStep,
     ColdMismatchStep, ResumeFailsStep DEF ResumeStep
<1>4. ASSUME NEW r \in Requests, FollowStep(r) PROVE EInv'
  BY <1>1, <1>4, FollowLookupStep, FollowClaimedStep, FollowRunStep, FollowAwaitsStep DEF FollowStep
<1>5. ASSUME NEW r \in Requests, ParkCancelStep(r) PROVE EInv'
  BY <1>1, <1>5, ParkStep, ParkSavesStep, ParkLandsStep, ParkClosesStep, CancelStep, CancelDeletesStep,
     CancelStopsStep, CancelReleasesStep DEF ParkCancelStep
<1>6. ASSUME NEW r \in Requests, ReadStep(r) PROVE EInv'
  BY <1>6, FallbackStep, ReadTurnEndedStep, ReadEndStep, ReadParkedStep DEF ReadStep
<1>7. ASSUME NEW r \in Requests, ClientStep(r) PROVE EInv'
  BY <1>7, BeginStartStep, BeginResumeStep, GiveUpStep DEF ClientStep
<1>8. ASSUME NEW t \in Tokens, UpstreamStep(t) PROVE EInv'
  BY <1>1, <1>8, ToolCallStep, HistoryToolCallStep, ResultAcceptedStep, TurnEndedStep, FailStateStep,
     RunReturnsStep DEF UpstreamStep
<1>9. ASSUME NEW t \in Tokens, FinishStep(t) PROVE EInv'
  BY <1>1, <1>9, RunClosesStep, RunSavesStep, RunLandsStep, RunDeletesStep, RunReleasesStep, RunRetiresStep,
     RunDeliversStep DEF FinishStep
<1> QED BY <1>1, <1>2, <1>3, <1>4, <1>5, <1>6, <1>7, <1>8, <1>9, RestartStep, ExecutorStutters
        DEF ExecutorNext, RequestStep

-----------------------------------------------------------------------------
(***************************************************************************)
(* Completions.                                                            *)
(***************************************************************************)
\* Only the delivery of a run without an error completes an output.
Delivered(r) ==
    out'[r].done =>
        /\ out'[r].s = out[r].s
        /\ out[r].done \/ \E t \in Tokens : /\ run[t].ph = "delivering" /\ r = run[t].last /\ ~run[t].err

LEMMA NewOutputIs ==
    ASSUME EInv, NEW r \in Requests, NEW s, out' = [out EXCEPT ![r] = NewOut(s)]
    PROVE  \A q \in Requests : Delivered(q)
<1>1. out'[r] = NewOut(s) /\ \A q \in Requests : q # r => out'[q] = out[q]
  BY Stands
<1>2. ~NewOut(s).done
  BY DEF NewOut, NoOut
<1> QED BY <1>1, <1>2 DEF Delivered

LEMMA EmitsNoCompletion ==
    ASSUME EInv, NEW t \in Tokens, NEW o, out' = Emitted(t, o),
           run[t].out # NoReq => o.s = out[run[t].out].s /\ o.done = out[run[t].out].done
    PROVE  \A q \in Requests : Delivered(q)
<1>1. out \in [Requests -> Out] /\ run[t].out \in Requests \cup {NoReq}
  BY Stands DEF Run
<1>2. CASE run[t].failed \/ run[t].out = NoReq
  BY <1>1, <1>2 DEF Emitted, Delivered
<1>3. CASE ~(run[t].failed \/ run[t].out = NoReq)
  BY <1>1, <1>3 DEF Emitted, Delivered
<1> QED BY <1>2, <1>3

LEMMA RunEmits ==
    ASSUME EInv, NEW t \in Tokens, UpstreamStep(t)
    PROVE  \A q \in Requests : Delivered(q)
<1>1. CASE UNCHANGED out
  BY <1>1 DEF Delivered
<1>2. run[t].out # NoReq => out[run[t].out] \in Out
  BY Stands DEF Run
<1>3. ASSUME NEW x, out' = Emitted(t, [out[run[t].out] EXCEPT !.tools = @ \cup {x}])
      PROVE  \A q \in Requests : Delivered(q)
  <2> DEFINE o == [out[run[t].out] EXCEPT !.tools = @ \cup {x}]
  <2>1. run[t].out # NoReq => o.s = out[run[t].out].s /\ o.done = out[run[t].out].done
    BY <1>2 DEF Out
  <2>2. out' = Emitted(t, o)
    BY <1>3
  <2> HIDE DEF o
  <2> QED BY <2>1, <2>2, EmitsNoCompletion
<1>4. CASE out' = Emitted(t, [out[run[t].out] EXCEPT !.turn = TRUE])
  <2> DEFINE o == [out[run[t].out] EXCEPT !.turn = TRUE]
  <2>1. run[t].out # NoReq => o.s = out[run[t].out].s /\ o.done = out[run[t].out].done
    BY <1>2 DEF Out
  <2>2. out' = Emitted(t, o)
    BY <1>4
  <2> HIDE DEF o
  <2> QED BY <2>1, <2>2, EmitsNoCompletion
<1> QED BY <1>1, <1>3, <1>4
        DEF UpstreamStep, ToolCall, HistoryToolCall, ResultAccepted, TurnEnded, FailState, RunReturns

LEMMA RequestEmits ==
    ASSUME EInv, NEW r \in Requests, RequestStep(r)
    PROVE  \A q \in Requests : Delivered(q)
<1>1. CASE UNCHANGED out
  BY <1>1 DEF Delivered
<1>2. CASE StartRun(r) \/ ColdRun(r) \/ FollowRun(r)
  BY <1>2, NewOutputIs DEF StartRun, ColdRun, FollowRun, StartClaimed
<1>3. CASE ResumeAttach(r)
  BY <1>1, <1>3, NewOutputIs DEF ResumeAttach
<1>4. CASE ParkSaves(r) \/ ParkCloses(r) \/ CancelStops(r)
  <2>1. req[r].took \in Requests \cup {NoReq}
    BY Stands DEF Req
  <2>2. UNCHANGED out \/ \E how \in {"closed", "failed"} : out' = Close(out, req[r].took, how)
    BY <1>4 DEF ParkSaves, ParkCloses, CancelStops
  <2> QED BY <1>1, <2>1, <2>2, CloseIs DEF Delivered
<1>5. CASE StartStep(r)
  BY <1>1, <1>2, <1>5 DEF StartStep, StartLookup, Reserve, Unreserve, ClaimHeld, ClaimAcquire, ClaimReturns, ClaimCommits
<1>6. CASE ResumeStep(r)
  BY <1>1, <1>2, <1>3, <1>6 DEF ResumeStep, BeginFlight, FlightWaited, ResolvePending, LookupReplay, ReadActive,
     BindFlight, ResumeChecks, ResumeBilling, ResumePush, ColdMismatch, ResumeFails
<1>7. CASE FollowStep(r)
  BY <1>1, <1>2, <1>7 DEF FollowStep, FollowLookup, FollowClaimed, FollowAwaits
<1>8. CASE ParkCancelStep(r)
  BY <1>1, <1>4, <1>8 DEF ParkCancelStep, Park, ParkLands, Cancel, CancelDeletes, CancelReleases
<1> QED BY <1>5, <1>6, <1>7, <1>8 DEF RequestStep

LEMMA CompletionsDelivered ==
    EInv /\ [ExecutorNext]_allVars => \A r \in Requests : Delivered(r)
<1> SUFFICES ASSUME EInv, [ExecutorNext]_allVars PROVE \A r \in Requests : Delivered(r)
  OBVIOUS
<1>1. CASE UNCHANGED out
  BY <1>1 DEF Delivered
<1>2. ASSUME NEW r \in Requests, ReadStep(r) \/ ClientStep(r) PROVE \A q \in Requests : Delivered(q)
  BY <1>1, <1>2 DEF ReadStep, ClientStep, Fallback, ReadTurnEnded, ReadEnd, ReadParked, BeginStart, BeginResume, GiveUp
<1>3. ASSUME NEW t \in Tokens, FinishStep(t) PROVE \A q \in Requests : Delivered(q)
  <2>1. CASE RunDelivers(t)
    <3>1. run[t].ph = "delivering"
      BY <2>1 DEF RunDelivers
    <3> QED BY <2>1, <3>1, DeliveredIs DEF Delivered
  <2>2. CASE ~RunDelivers(t)
    BY <1>1, <1>3, <2>2 DEF FinishStep, RunCloses, RunSaves, RunLands, RunDeletes, RunReleases, RunRetires
  <2> QED BY <2>1, <2>2
<1>4. CASE Restart
  <2>1. \A r \in Requests : ~out'[r].done
    <3>1. \A r \in Requests : out'[r] = [NoOut EXCEPT !.tools = out[r].tools]
      BY <1>4 DEF Restart
    <3>2. \A r \in Requests : ~([NoOut EXCEPT !.tools = out[r].tools]).done
      BY DEF NoOut
    <3> QED BY <3>1, <3>2
  <2> QED BY <2>1 DEF Delivered
<1>5. CASE UNCHANGED allVars
  BY <1>1, <1>5 DEF allVars, managerVars
<1> QED BY <1>2, <1>3, <1>4, <1>5, RequestEmits, RunEmits DEF ExecutorNext

\* What holds of a run that delivers without an error.
LEMMA DeliveringIs ==
    ASSUME EInv, NEW t \in Tokens, run[t].ph = "delivering", ~run[t].err
    PROVE  /\ lease[t].st = "released" /\ AnswerSaved(t) /\ lease[t].session \in Sessions
           /\ run[t].last # NoReq => SameKey(out[run[t].last].s, lease[t].session)
<1> HIDE DEF AnswerSaved, SameKey
<1> QED BY RunIs DEF RunOK

LEMMA HistoryAnsweredStep ==
    EInv /\ HistoryAnsweredOnce /\ [ExecutorNext]_allVars => HistoryAnsweredOnce'
<1> SUFFICES ASSUME EInv, HistoryAnsweredOnce, [ExecutorNext]_allVars,
                    NEW r \in Requests, NEW q \in Requests, out'[r].done, out'[q].done,
                    out'[r].s = out'[q].s, out'[r].s \in HistorySessions
             PROVE  r = q
  BY DEF HistoryAnsweredOnce
<1>1. Delivered(r) /\ Delivered(q) /\ out[r].s = out[q].s /\ out[r].s \in HistorySessions
  BY CompletionsDelivered DEF Delivered
<1>2. ASSUME NEW p \in Requests, out[p].s = out[r].s, NEW t \in Tokens,
             run[t].ph = "delivering", p = run[t].last, ~run[t].err
      PROVE  history[out[r].s] = t
  BY <1>1, <1>2, DeliveringIs, ManagerAssumption DEF SameKey, AnswerSaved
<1>3. ASSUME NEW p \in Requests, out[p].s = out[r].s, out[p].done
      PROVE  run[history[out[r].s]].ph = "gone"
  BY <1>1, <1>3 DEF EInv, MInv, HistoryDone
<1>4. CASE out[r].done /\ out[q].done
  BY <1>1, <1>4 DEF HistoryAnsweredOnce
<1>5. CASE ~out[r].done
  <2>1. PICK t \in Tokens : run[t].ph = "delivering" /\ r = run[t].last /\ ~run[t].err
    BY <1>1, <1>5 DEF Delivered
  <2>2. history[out[r].s] = t
    BY <1>2, <2>1
  <2>3. ~out[q].done
    BY <1>1, <1>3, <2>1, <2>2
  <2>4. PICK u \in Tokens : run[u].ph = "delivering" /\ q = run[u].last /\ ~run[u].err
    BY <1>1, <2>3 DEF Delivered
  <2>5. u = t
    BY <1>1, <1>2, <2>2, <2>4
  <2> QED BY <2>1, <2>4, <2>5
<1>6. CASE ~out[q].done /\ out[r].done
  <2>1. PICK t \in Tokens : run[t].ph = "delivering" /\ q = run[t].last /\ ~run[t].err
    BY <1>1, <1>6 DEF Delivered
  <2>2. history[out[r].s] = t
    BY <1>1, <1>2, <2>1
  <2> QED BY <1>3, <1>6, <2>1, <2>2
<1> QED BY <1>4, <1>5, <1>6

-----------------------------------------------------------------------------
(***************************************************************************)
(* The results.                                                            *)
(***************************************************************************)
\* The manager's invariant holds in every reachable state, whatever requests,
\* runs, Park, Cancel and restarts interleave.
THEOREM ExecutorInvariance == ExecutorSpec => []EInv
<1> QED BY ExecutorInitial, ExecutorStep, PTL DEF ExecutorSpec

\* Every variable of the manager keeps its type, and a reserved id is never
\* an active one.
THEOREM ManagerTypeCorrect == ExecutorSpec => []ManagerTypeOK
<1>1. EInv => ManagerTypeOK
  BY DEF EInv, MInv
<1> QED BY <1>1, ExecutorInvariance, PTL

\* The manager and its requests implement the store: they touch the session
\* files through claims, the operations of a live owner and crashes only.
THEOREM ExecutorImplementsStore == ExecutorSpec => ImplementsStore
<1>1. ExecutorInit => Init
  BY DEF ExecutorInit
<1> QED BY <1>1, ExecutorInvariance, Simulates, PTL DEF ExecutorSpec, ImplementsStore, Spec

\* A session whose lease is held is active, being started or being cancelled.
THEOREM IdleAfterReleaseHolds == ExecutorSpec => []IdleAfterRelease
<1>1. EInv => IdleAfterRelease
  <2> SUFFICES ASSUME EInv, NEW t \in Tokens, Holds(t)
               PROVE  \/ active[lease[t].session] = t
                      \/ lease[t].session \in starting
                      \/ \E r \in Requests : /\ req[r].pc \in {"cancelDelete", "cancelStop", "cancelRelease"}
                                             /\ req[r].run = t
    BY DEF IdleAfterRelease
  <2>1. HeldBy(t) /\ \A r \in Requests : RequestHolds(r)
    BY RequestIs DEF EInv, MInv
  <2> QED BY <2>1 DEF HeldBy, RequestHolds, Claiming, Reserving, Canceling
<1> QED BY <1>1, ExecutorInvariance, PTL

\* No session has two runs that were not told to stop.
THEOREM OneUncancelledRunHolds == ExecutorSpec => []OneUncancelledRun
<1>1. EInv => OneUncancelledRun
  <2> SUFFICES ASSUME EInv PROVE OneUncancelledRun
    OBVIOUS
  <2>1. \A t \in Tokens : Running(t) /\ ~run[t].cancelled => Holds(t)
    BY DEF EInv, MInv, RunOK, Running, Holds
  <2>2. OneLiveOwner
    BY LockHeldUnique DEF EInv, IInv
  <2> QED BY <2>1, <2>2 DEF OneUncancelledRun, OneLiveOwner
<1> QED BY <1>1, ExecutorInvariance, PTL

\* The model answers at most one request of a history key.
THEOREM HistoryAnsweredOnceHolds == ExecutorSpec => []HistoryAnsweredOnce
<1>1. ExecutorInit => HistoryAnsweredOnce
  <2>1. ~NoOut.done
    BY DEF NoOut
  <2> QED BY <2>1 DEF ExecutorInit, ManagerInit, HistoryAnsweredOnce
<1> QED BY <1>1, ExecutorInvariance, HistoryAnsweredStep, PTL DEF ExecutorSpec

\* A completion is sent only by a run that has saved its answer and released
\* its lease.
THEOREM DoneAfterSavedHolds == ExecutorSpec => DoneAfterSaved
<1> DEFINE Saved(r) ==
      ~out[r].done /\ out'[r].done =>
         \E t \in Tokens :
            /\ run[t].last = r
            /\ lease[t].st = "released"
            /\ IF lease[t].session \in HistorySessions
               THEN history[lease[t].session] # NoToken
               ELSE run[t].seg # {} =>
                      \E c \in completed : /\ c.batch = run[t].seg
                                           /\ c.fu = run[t].fu
<1>1. ASSUME EInv, [ExecutorNext]_allVars, NEW r \in Requests PROVE Saved(r)
  <2> SUFFICES ASSUME ~out[r].done, out'[r].done PROVE Saved(r)
    OBVIOUS
  <2>1. PICK t \in Tokens : run[t].ph = "delivering" /\ r = run[t].last /\ ~run[t].err
    BY <1>1, CompletionsDelivered DEF Delivered
  <2>2. lease[t].st = "released" /\ AnswerSaved(t)
    BY <1>1, <2>1, DeliveringIs
  <2> QED BY <2>1, <2>2, ConstantsAssumption DEF AnswerSaved
<1>2. EInv /\ [ExecutorNext]_allVars => [\A r \in Requests : Saved(r)]_allVars
  BY <1>1
<1> QED BY <1>2, ExecutorInvariance, PTL DEF ExecutorSpec, DoneAfterSaved
=============================================================================
