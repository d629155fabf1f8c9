--------------------------- MODULE FollowUpProofs ---------------------------
(***************************************************************************)
(* Proof that the turn of a follow-up is run once, however many requests   *)
(* carry it.  A follow-up is launched under the lease of its session after *)
(* its replay was looked up there, and a replay is saved only by an owner: *)
(* while the run holds its lease nobody else of that session can save.     *)
(* Across sessions this needs that the batches of two sessions differ,     *)
(* which holds while no submission mixes their calls.                      *)
(***************************************************************************)
EXTENDS ExecutorProofs

\* The phases of a run before its answer is saved.
Early == {"running", "returned", "saving"}

\* No run of session s has saved the answer of this follow-up.
NotSaved(s, batch, fu) ==
    \A c \in completed : ~(c.s = s /\ c.batch = batch /\ c.fu = fu)

\* Run t will save the answer of a follow-up, if nothing goes wrong.
Answering(t) ==
    /\ run[t].ph \in Early /\ lease[t].st = "owned"
    /\ run[t].seg # {} /\ run[t].fu # NoFollowUp

\* The segment of run t is not one of a follow-up, or was taken by Park.
NoFollowUpRun(t) == run[t].seg = {} \/ run[t].fu = NoFollowUp

\* The inductive invariant, on top of EInv.
FInv ==
    /\ \A c \in completed : c.batch # {}
    /\ \A r \in Requests : req[r].pc = "launch" => NotSaved(req[r].s, req[r].batch, req[r].fu)
    /\ \A t \in Tokens : Answering(t) => NotSaved(lease[t].session, run[t].seg, run[t].fu)
    /\ \A r \in Requests :
          req[r].pc = "parkSave" => req[r].seg # {} /\ NoFollowUpRun(req[r].run)

-----------------------------------------------------------------------------
(***************************************************************************)
(* What a step does to leases, runs, requests and replays.                 *)
(***************************************************************************)
LeaseMove(t) ==
    /\ lease[t] # NoLease => lease'[t].session = lease[t].session
    /\ lease'[t].st = "owned" => lease[t].st \in {"claiming", "owned"}

\* A segment is kept, dropped, made one without follow-up, or that of a launch.
RunMove(t) ==
    \/ /\ run'[t].seg = run[t].seg /\ run'[t].fu = run[t].fu
       /\ run'[t].ph \in Early => run[t].ph \in Early
    \/ run'[t].seg = {} \/ run'[t].fu = NoFollowUp
    \/ /\ run[t].ph = "none"
       /\ \E r \in Requests : /\ req[r].pc = "launch" /\ req[r].run = t
                              /\ run'[t].seg = req[r].batch /\ run'[t].fu = req[r].fu

\* Only an owner saves the answer of its segment.
RunLandsOwned(t) ==
    /\ run[t].ph = "saving" /\ run'[t].ph = "landing" /\ ~run'[t].err /\ run[t].seg # {}
    => lease[t].st = "owned"

ReqMove(r) ==
    /\ req'[r].pc = "launch" =>
          \/ req'[r] = req[r]
          \/ /\ completed' = completed
             /\ \A s : NotSaved(s, req'[r].batch, req'[r].fu)
    /\ req'[r].pc = "parkSave" =>
          \/ req'[r] = req[r]
          \/ req'[r].seg # {} /\ run'[req'[r].run].seg = {}

\* A replay is saved by the owner of its session, and is its last answer.
SaveMove ==
    \/ completed' = completed
    \/ \E t \in Tokens :
          /\ lease[t].st = "owned" /\ run[t].ph # "none"
          /\ run'[t].ph \in Early => run'[t].seg = run[t].seg /\ run'[t].fu = run[t].fu /\ NoFollowUpRun(t)
          /\ \A c \in completed' : c \in completed \/ (c.s = lease[t].session /\ c.batch # {})

FollowMoves ==
    /\ \A t \in Tokens : RunMove(t) /\ RunLandsOwned(t)
    /\ \A r \in Requests : ReqMove(r)
    /\ SaveMove

LEMMA LeaseMoves ==
    ASSUME IInv, [Next]_vars, NEW t \in Tokens PROVE LeaseMove(t)
<1> USE DEF LeaseMove
<1>1. lease \in [Tokens -> Lease \cup {NoLease}]
  BY DEF IInv, TypeOK
<1>2. CASE UNCHANGED lease
  BY <1>1, <1>2 DEF Lease, NoLease
<1>3. ASSUME NEW u \in Tokens, lease[u].st # "unused", Drop(u) PROVE LeaseMove(t)
  BY <1>1, <1>3 DEF Drop, Lease, NoLease
<1>4. ASSUME NEW u \in Tokens, ClaimStep(u) PROVE LeaseMove(t)
  <2>1. ASSUME NEW p \in Procs, NEW s \in Sessions, NEW c \in Creds, Acquire(p, s, c, u)
        PROVE  LeaseMove(t)
    BY <1>1, <2>1 DEF Acquire, Lease, NoLease
  <2>2. ASSUME NEW n, lease[u].st = "claiming", lease' = [lease EXCEPT ![u].st = "owned", ![u].gen = n]
        PROVE  LeaseMove(t)
    BY <1>1, <2>2 DEF Lease, NoLease
  <2> QED BY <1>3, <1>4, <2>1, <2>2 DEF ClaimStep, ClaimReplay, ClaimRefused, ClaimCommitted
<1>5. ASSUME NEW u \in Tokens, OwnerStep(u) PROVE LeaseMove(t)
  BY <1>2, <1>3, <1>5 DEF OwnerStep, SaveCheckpoint, SavePending, SaveUsageCarry, SetBillingRunID, SaveCompleted,
     SaveHistory, Delete, Release
<1>6. ASSUME NEW p \in Procs, Crash(p) PROVE LeaseMove(t)
  BY <1>1, <1>6 DEF Crash, Holds, Lease, NoLease
<1>7. CASE StoreStep
  BY <1>2, <1>6, <1>7 DEF StoreStep, DeleteSession, Expire, ExpireHistory, PruneScan, PruneRemove
<1> QED BY <1>2, <1>4, <1>5, <1>7 DEF Next, vars

\* Runs that keep their segment and phase.
LEMMA RunsKept ==
    ASSUME \A t \in Tokens : /\ run'[t].seg = run[t].seg /\ run'[t].fu = run[t].fu
                             /\ run'[t].ph = run[t].ph
    PROVE  \A t \in Tokens : RunMove(t) /\ RunLandsOwned(t)
BY DEF RunMove, RunLandsOwned

\* One run changes.
LEMMA OneRunMoves ==
    ASSUME EInv, NEW t \in Tokens, NEW m, run' = [run EXCEPT ![t] = m],
           \/ m.seg = run[t].seg /\ m.fu = run[t].fu /\ (m.ph \in Early => run[t].ph \in Early)
           \/ m.seg = {} \/ m.fu = NoFollowUp,
           run[t].ph = "saving" => m.ph # "landing"
    PROVE  \A u \in Tokens : RunMove(u) /\ RunLandsOwned(u)
<1>1. run'[t] = m /\ \A u \in Tokens : u # t => run'[u] = run[u]
  BY Stands
<1> QED BY <1>1 DEF RunMove, RunLandsOwned

\* One request changes, and does not come to the launch or the save.
LEMMA OneRequestMoves ==
    ASSUME EInv, NEW r \in Requests, \A q \in Requests : q # r => req'[q] = req[q],
           req'[r].pc \notin {"launch", "parkSave"}
    PROVE  \A q \in Requests : ReqMove(q)
BY DEF ReqMove

\* Goto to another place than the launch or the save.
LEMMA GotoElsewhere ==
    ASSUME EInv, NEW r \in Requests, NEW label \in Labels \ {"launch", "parkSave"}, req' = Goto(r, label)
    PROVE  \A q \in Requests : ReqMove(q)
<1>1. req' = [req EXCEPT ![r] = At(req[r], label)] /\ At(req[r], label).pc = label
  BY GotoIs, AtIs, Stands
<1>2. req'[r].pc = label /\ \A q \in Requests : q # r => req'[q] = req[q]
  BY <1>1, Stands
<1> QED BY <1>2, OneRequestMoves

-----------------------------------------------------------------------------

(***************************************************************************)
(* Requests.                                                               *)
(***************************************************************************)
LEMMA GiveUpClaimElsewhere ==
    ASSUME EInv, NEW r \in Requests, NEW next, req' = GiveUpClaim(r, next)
    PROVE  \A q \in Requests : ReqMove(q)
<1>1. req'[r].pc \in {"failCold", "unreserve"} /\ \A q \in Requests : q # r => req'[q] = req[q]
  BY Stands DEF GiveUpClaim, Req
<1> QED BY <1>1, OneRequestMoves

LEMMA ReplayedElsewhere ==
    ASSUME EInv, NEW r \in Requests, NEW s, NEW batch, NEW fu, NEW more, req' = Replayed(r, s, batch, fu, more)
    PROVE  \A q \in Requests : ReqMove(q)
<1>1. CASE req' = Goto(r, "done")
  BY <1>1, GotoElsewhere DEF Labels
<1>2. CASE req' = [req EXCEPT ![r].pc = "follow", ![r].mode = "follow", ![r].s = s, ![r].batch = batch]
  <2>1. req'[r].pc = "follow" /\ \A q \in Requests : q # r => req'[q] = req[q]
    BY <1>2, Stands DEF Req
  <2> QED BY <2>1, OneRequestMoves
<1> QED BY <1>1, <1>2 DEF Replayed

LEMMA StartElsewhere ==
    ASSUME EInv, NEW r \in Requests, StartStep(r) PROVE \A q \in Requests : ReqMove(q)
<1> USE DEF Labels
<1>1. CASE StartLookup(r) \/ ClaimCommits(r) \/ StartRun(r)
  BY <1>1, GotoElsewhere DEF StartLookup, ClaimCommits, StartRun, StartClaimed
<1>2. CASE Reserve(r)
  <2>1. /\ req[r].pc \in {"reserve", "cold", "follow", "followAgain"}
        /\ req' = Goto(r, ReserveNext(r)) \/ req' = Goto(r, ReserveElse(r))
    BY <1>2 DEF Reserve
  <2>2. ReserveNext(r) \in Labels \ {"launch", "parkSave"} /\ ReserveElse(r) \in Labels \ {"launch", "parkSave"}
    BY <2>1 DEF ReserveNext, ReserveElse
  <2> QED BY <2>1, <2>2, GotoElsewhere
<1>3. CASE Unreserve(r)
  <2>1. req[r].then \in {"done", "fallback", "start", "awaitLast"}
    BY <1>3, RequestIs DEF Unreserve, Where
  <2> QED BY <1>3, <2>1, GotoElsewhere DEF Unreserve
<1>4. CASE ClaimHeld(r) \/ ClaimReturns(r)
  BY <1>4, GiveUpClaimElsewhere DEF ClaimHeld, ClaimReturns
<1>5. CASE ClaimAcquire(r)
  <2>1. req'[r].pc = "claiming" /\ \A q \in Requests : q # r => req'[q] = req[q]
    BY <1>5, Stands DEF ClaimAcquire, Req
  <2> QED BY <2>1, OneRequestMoves
<1> QED BY <1>1, <1>2, <1>3, <1>4, <1>5 DEF StartStep

LEMMA ResumeElsewhere ==
    ASSUME EInv, NEW r \in Requests, ResumeStep(r) PROVE \A q \in Requests : ReqMove(q)
<1> USE DEF Labels
<1>1. ASSUME req' = FailsNotPending(r) PROVE \A q \in Requests : ReqMove(q)
  <2>1. req'[r].pc = "fail" /\ \A q \in Requests : q # r => req'[q] = req[q]
    BY <1>1, Stands DEF FailsNotPending, Req
  <2> QED BY <2>1, OneRequestMoves
<1>2. CASE BeginFlight(r)
  <2>1. CASE req' = Goto(r, "resolve")
    BY <2>1, GotoElsewhere
  <2>2. CASE \E q \in Requests : req' = [req EXCEPT ![r].pc = "wait", ![r].lead = q]
    <3>1. req'[r].pc = "wait" /\ \A q \in Requests : q # r => req'[q] = req[q]
      BY <2>2, Stands DEF Req
    <3> QED BY <3>1, OneRequestMoves
  <2> QED BY <1>2, <2>1, <2>2 DEF BeginFlight
<1>3. CASE FlightWaited(r)
  BY <1>3, GotoElsewhere, ReplayedElsewhere DEF FlightWaited
<1>4. CASE ResolvePending(r)
  <2>1. CASE req' = Goto(r, "lookup")
    BY <2>1, GotoElsewhere
  <2>2. CASE \E s \in Sessions : req' = [req EXCEPT ![r].pc = "lookup", ![r].s = s]
    <3>1. req'[r].pc = "lookup" /\ \A q \in Requests : q # r => req'[q] = req[q]
      BY <2>2, Stands DEF Req
    <3> QED BY <3>1, OneRequestMoves
  <2> QED BY <1>4, <2>1, <2>2 DEF ResolvePending, Pending
<1>5. CASE LookupReplay(r)
  BY <1>1, <1>5, GotoElsewhere, ReplayedElsewhere DEF LookupReplay
<1>6. CASE ReadActive(r)
  <2>1. req'[r].pc \in {"cold", "bind"} /\ \A q \in Requests : q # r => req'[q] = req[q]
    BY <1>6, Stands DEF ReadActive, Req
  <2> QED BY <2>1, OneRequestMoves
<1>7. CASE BindFlight(r) \/ ResumePush(r) \/ ResumeBilling(r) \/ ResumeAttach(r)
  BY <1>7, GotoElsewhere DEF BindFlight, ResumePush, ResumeBilling, ResumeAttach, Attached
<1>8. CASE ResumeChecks(r)
  <2>1. CASE req' = [req EXCEPT ![r].pc = "billing", ![r].res = run[req[r].run].pend]
    <3>1. req'[r].pc = "billing" /\ \A q \in Requests : q # r => req'[q] = req[q]
      BY <2>1, Stands DEF Req
    <3> QED BY <3>1, OneRequestMoves
  <2> QED BY <1>1, <1>8, <2>1, GotoElsewhere DEF ResumeChecks
<1>9. CASE ColdRun(r) \/ ColdMismatch(r)
  BY <1>9, GotoElsewhere, GiveUpClaimElsewhere DEF ColdRun, ColdMismatch, StartClaimed
<1>10. CASE ResumeFails(r)
  <2>1. req[r].pc = "fail" => req[r].then \in {"done", "fallback"}
    BY RequestIs DEF Where
  <2> QED BY <1>10, <2>1, GotoElsewhere DEF ResumeFails
<1> QED BY <1>2, <1>3, <1>4, <1>5, <1>6, <1>7, <1>8, <1>9, <1>10 DEF ResumeStep

\* The launch: under its claim the request found no replay.
LEMMA FollowReqMoves ==
    ASSUME EInv, NEW r \in Requests, FollowStep(r) PROVE \A q \in Requests : ReqMove(q)
<1> USE DEF Labels
<1>1. CASE FollowLookup(r)
  <2>1. CASE req' = [req EXCEPT ![r].pc = "unreserve", ![r].then = "done"]
    <3>1. req'[r].pc = "unreserve" /\ \A q \in Requests : q # r => req'[q] = req[q]
      BY <2>1, Stands DEF Req
    <3> QED BY <3>1, OneRequestMoves
  <2> QED BY <1>1, <2>1, GotoElsewhere DEF FollowLookup
<1>2. CASE FollowRun(r) \/ \E timeout \in BOOLEAN : FollowAwaits(r, timeout)
  BY <1>2, GotoElsewhere DEF FollowRun, FollowAwaits, StartClaimed
<1>3. CASE FollowClaimed(r)
  <2>1. CASE req' = GiveUpClaim(r, "done")
    BY <2>1, GiveUpClaimElsewhere
  <2>2. CASE ~FollowUpSaved(r) /\ req' = Goto(r, "launch")
    <3>1. req' = [req EXCEPT ![r] = At(req[r], "launch")]
      BY <2>2, GotoIs
    <3>2. req'[r].pc = "launch" /\ req'[r].batch = req[r].batch /\ req'[r].fu = req[r].fu
      BY <3>1, Stands, AtIs
    <3>3. \A q \in Requests : q # r => req'[q] = req[q]
      BY <3>1, Stands
    <3>4. \A c \in completed : ~(c.batch = req[r].batch /\ c.fu = req[r].fu)
      BY <2>2 DEF FollowUpSaved, Replays
    <3>5. completed' = completed
      BY <1>3 DEF FollowClaimed
    <3> QED BY <3>2, <3>3, <3>4, <3>5 DEF ReqMove, NotSaved
  <2> QED BY <1>3, <2>1, <2>2 DEF FollowClaimed
<1> QED BY <1>1, <1>2, <1>3 DEF FollowStep

\* Park takes the segment before the request saves it.
LEMMA ParkCancelReqMoves ==
    ASSUME EInv, NEW r \in Requests, ParkCancelStep(r) PROVE \A q \in Requests : ReqMove(q)
<1> USE DEF Labels
<1>1. CASE Park(r)
  <2>1. req[r].then \in {"done", "drainParked"} /\ req[r].s \in Sessions
    BY <1>1, RequestIs DEF Park, Where
  <2>2. CASE req' = Goto(r, req[r].then) \/ req' = Goto(r, "cancel")
    BY <2>1, <2>2, GotoElsewhere
  <2>3. ASSUME NEW t \in Tokens, run' = [run EXCEPT ![t].out = NoReq, ![t].seg = {}],
               NEW m, req' = [req EXCEPT ![r].pc = IF m.seg = {} THEN "parkClose" ELSE "parkSave",
                                         ![r].run = t, ![r].took = m.out, ![r].seg = m.seg, ![r].segFu = m.fu]
        PROVE  \A q \in Requests : ReqMove(q)
    <3> DEFINE pc == IF m.seg = {} THEN "parkClose" ELSE "parkSave"
               n == [req[r] EXCEPT !.pc = pc, !.run = t, !.took = m.out, !.seg = m.seg, !.segFu = m.fu]
    <3>1. run'[t].seg = {}
      <4>1. run'[t] = [run[t] EXCEPT !.out = NoReq, !.seg = {}] /\ run[t] \in Run
        BY <2>3, Stands
      <4> QED BY <4>1 DEF Run
    <3>2. req' = [req EXCEPT ![r] = n] /\ req \in [Requests -> Req]
      BY <2>3, Stands
    <3>3. n.pc = pc /\ n.run = t /\ n.seg = m.seg
      BY <3>2 DEF Req
    <3> HIDE DEF n
    <3>4. req'[r] = n /\ \A q \in Requests : q # r => req'[q] = req[q]
      BY <3>2
    <3> QED BY <3>1, <3>3, <3>4 DEF ReqMove
  <2>4. active[req[r].s] \in Tokens \cup {NoToken}
    BY <2>1, Stands
  <2> QED BY <1>1, <2>2, <2>3, <2>4 DEF Park
<1>2. CASE ParkSaves(r) \/ ParkLands(r) \/ CancelDeletes(r) \/ CancelStops(r) \/ CancelReleases(r)
  BY ZenonT(60), <1>2, GotoElsewhere DEF ParkSaves, ParkLands, CancelDeletes, CancelStops, CancelReleases
<1>3. CASE ParkCloses(r)
  <2>1. req[r].then \in {"done", "drainParked"}
    BY <1>3, RequestIs DEF ParkCloses, Where, ParkTail
  <2> QED BY <1>3, <2>1, GotoElsewhere DEF ParkCloses
<1>4. CASE Cancel(r)
  <2>1. CASE req' = [req EXCEPT ![r].pc = "cancelDelete", ![r].run = active[req[r].s],
                                ![r].took = run[active[req[r].s]].out]
    <3>1. req'[r].pc = "cancelDelete" /\ \A q \in Requests : q # r => req'[q] = req[q]
      BY <2>1, Stands DEF Req
    <3> QED BY <3>1, OneRequestMoves
  <2> QED BY <1>4, <2>1, GotoElsewhere DEF Cancel
<1> QED BY <1>1, <1>2, <1>3, <1>4 DEF ParkCancelStep

LEMMA ReadElsewhere ==
    ASSUME EInv, NEW r \in Requests, ReadStep(r) \/ ClientStep(r) PROVE \A q \in Requests : ReqMove(q)
<1> USE DEF Labels
<1>1. CASE Fallback(r)
  <2>1. ASSUME NEW s, req' = [req EXCEPT ![r] = [IdleReq EXCEPT !.pc = "reserve", !.s = s]]
        PROVE  \A q \in Requests : ReqMove(q)
    <3>1. req'[r].pc = "reserve" /\ \A q \in Requests : q # r => req'[q] = req[q]
      BY <2>1, Stands DEF IdleReq
    <3> QED BY <3>1, OneRequestMoves
  <2> QED BY <1>1, <2>1, GotoElsewhere DEF Fallback
<1>2. CASE ReadTurnEnded(r)
  <2>1. req'[r].pc = "park" /\ \A q \in Requests : q # r => req'[q] = req[q]
    BY <1>2, Stands DEF ReadTurnEnded, Req
  <2> QED BY <2>1, OneRequestMoves
<1>3. CASE ReadEnd(r)
  <2>1. CASE req' = [req EXCEPT ![r].pc = "follow", ![r].mode = "follow"]
    <3>1. req'[r].pc = "follow" /\ \A q \in Requests : q # r => req'[q] = req[q]
      BY <2>1, Stands DEF Req
    <3> QED BY <3>1, OneRequestMoves
  <2> QED BY <1>3, <2>1, GotoElsewhere DEF ReadEnd
<1>4. CASE ReadParked(r) \/ GiveUp(r)
  BY <1>4, GotoElsewhere DEF ReadParked, GiveUp
<1>5. ASSUME NEW s \in Sessions, BeginStart(r, s) PROVE \A q \in Requests : ReqMove(q)
  <2>1. req'[r].pc \in {"start", "reserve"} /\ \A q \in Requests : q # r => req'[q] = req[q]
    BY <1>5, Stands DEF BeginStart, Req
  <2> QED BY <2>1, OneRequestMoves
<1>6. ASSUME NEW ids \in SUBSET Tools, NEW fu \in FollowUps, BeginResume(r, ids, fu)
      PROVE  \A q \in Requests : ReqMove(q)
  <2>1. ASSUME NEW batch, req' = [req EXCEPT ![r].pc = "begin", ![r].ids = ids, ![r].batch = batch, ![r].fu = fu]
        PROVE  \A q \in Requests : ReqMove(q)
    <3>1. req'[r].pc = "begin" /\ \A q \in Requests : q # r => req'[q] = req[q]
      BY <2>1, Stands DEF Req
    <3> QED BY <3>1, OneRequestMoves
  <2> QED BY <1>6, <2>1, GotoElsewhere DEF BeginResume
<1> QED BY <1>1, <1>2, <1>3, <1>4, <1>5, <1>6 DEF ReadStep, ClientStep

-----------------------------------------------------------------------------

(***************************************************************************)
(* Runs and replays under the steps of requests.                           *)
(***************************************************************************)
LEMMA QuietMove ==
    ASSUME UNCHANGED <<run, completed>>
    PROVE  (\A t \in Tokens : RunMove(t) /\ RunLandsOwned(t)) /\ SaveMove
BY RunsKept DEF SaveMove

\* A run that keeps its segment and phase.
LEMMA SegmentKept ==
    ASSUME EInv, NEW t \in Tokens, NEW m, run' = [run EXCEPT ![t] = m],
           m.seg = run[t].seg, m.fu = run[t].fu, m.ph = run[t].ph
    PROVE  \A u \in Tokens : RunMove(u) /\ RunLandsOwned(u)
BY OneRunMoves

\* A new run has no follow-up, except that of a launch.
LEMMA StartRunMoves ==
    ASSUME EInv, NEW r \in Requests, req[r].pc \in Claiming, NEW new \in Run, NEW next, StartClaimed(r, new, next),
           \/ new.fu = NoFollowUp
           \/ req[r].pc = "launch" /\ new.seg = req[r].batch /\ new.fu = req[r].fu
    PROVE  (\A t \in Tokens : RunMove(t) /\ RunLandsOwned(t)) /\ SaveMove
<1> DEFINE m == [new EXCEPT !.ph = "running", !.out = r]
<1>1. req[r].run \in Tokens /\ run[req[r].run].ph = "none"
  BY RequestIs DEF RequestHolds
<1>2. m.fu = new.fu /\ m.seg = new.seg /\ m.ph = "running"
  BY DEF Run
<1>3. run' = [run EXCEPT ![req[r].run] = m] /\ completed' = completed
  BY DEF StartClaimed
<1> HIDE DEF m
<1>4. CASE new.fu = NoFollowUp
  BY <1>1, <1>2, <1>3, <1>4, OneRunMoves DEF SaveMove
<1>5. CASE req[r].pc = "launch" /\ new.seg = req[r].batch /\ new.fu = req[r].fu
  <2>1. run'[req[r].run] = m /\ \A u \in Tokens : u # req[r].run => run'[u] = run[u]
    BY <1>1, <1>3, Stands
  <2> QED BY <1>1, <1>2, <1>3, <1>5, <2>1 DEF RunMove, RunLandsOwned, SaveMove
<1> QED BY <1>4, <1>5

LEMMA StartMoves ==
    ASSUME EInv, NEW r \in Requests, StartStep(r)
    PROVE  (\A t \in Tokens : RunMove(t) /\ RunLandsOwned(t)) /\ SaveMove
<1>1. CASE StartRun(r)
  <2>1. NoRun \in Run /\ NoRun.fu = NoFollowUp
    BY NoRunIs DEF NoRun
  <2> QED BY <1>1, <2>1, StartRunMoves DEF StartRun, Claiming
<1>2. CASE ~StartRun(r)
  BY <1>2, QuietMove DEF StartStep, StartLookup, Reserve, Unreserve, ClaimHeld, ClaimAcquire, ClaimReturns, ClaimCommits
<1> QED BY <1>1, <1>2

LEMMA ResumeMoves ==
    ASSUME EInv, NEW r \in Requests, ResumeStep(r)
    PROVE  (\A t \in Tokens : RunMove(t) /\ RunLandsOwned(t)) /\ SaveMove
<1>1. CASE UNCHANGED <<run, completed>>
  BY <1>1, QuietMove
<1>2. CASE ColdRun(r)
  <2> DEFINE f == file[req[r].s]
             new == [NoRun EXCEPT !.pend = f.pending, !.queue = f.pending,
                                  !.seg = IF f.batch \subseteq req[r].batch THEN f.batch ELSE req[r].batch]
  <2>1. new \in Run /\ new.fu = NoFollowUp /\ req[r].pc \in Claiming
    <3>1. req[r].pc = "claimed"
      BY <1>2 DEF ColdRun
    <3>4. req[r].s \in Sessions /\ f # NoFile /\ req[r] \in Req
      BY <3>1, RequestIs DEF RequestHolds, Where
    <3>5. f \in File /\ req[r].batch \in SUBSET Tools
      BY <3>4, Stands DEF Req
    <3>2. f.pending \in SUBSET Tools /\ f.batch \in SUBSET Tools
      BY <3>5 DEF File
    <3> HIDE DEF f
    <3>3. NoRun \in Run /\ NoRun.fu = NoFollowUp
      BY NoRunIs DEF NoRun
    <3> QED BY <3>1, <3>2, <3>3, <3>5 DEF Run, Claiming
  <2>2. StartClaimed(r, new, "bindCold")
    BY <1>2 DEF ColdRun
  <2> HIDE DEF new
  <2> QED BY <2>1, <2>2, StartRunMoves
<1>3. CASE BindFlight(r)
  <2>1. active[req[r].s] \in Tokens \cup {NoToken} /\ completed' = completed
    BY <1>3, RequestIs, Stands DEF BindFlight, Where
  <2>2. CASE active[req[r].s] # NoToken
    <3> DEFINE t == active[req[r].s]
               m == [run[t] EXCEPT !.flight = r]
    <3>1. t \in Tokens /\ run' = [run EXCEPT ![t] = m] /\ run[t] \in Run
      BY <1>3, <2>1, <2>2, Stands DEF BindFlight
    <3>2. m.seg = run[t].seg /\ m.fu = run[t].fu /\ m.ph = run[t].ph
      BY <3>1 DEF Run
    <3> HIDE DEF t, m
    <3> QED BY <2>1, <3>1, <3>2, SegmentKept DEF SaveMove
  <2> QED BY <1>1, <1>3, <2>1, <2>2 DEF BindFlight
<1>4. CASE ResumeAttach(r) /\ ~UNCHANGED run
  <2> DEFINE t == req[r].run
             m == [run[t] EXCEPT !.out = r, !.seg = req[r].batch, !.fu = NoFollowUp]
  <2>1. t \in Tokens /\ run' = [run EXCEPT ![t] = m] /\ run[t] \in Run /\ completed' = completed
    BY ZenonT(60), <1>4, RequestIs, Stands DEF ResumeAttach, RequestHolds, Bound, Resuming
  <2>2. m.fu = NoFollowUp /\ m.ph = run[t].ph
    BY <2>1 DEF Run
  <2> HIDE DEF t, m
  <2> QED BY <2>1, <2>2, OneRunMoves DEF SaveMove
<1>5. CASE ResumePush(r)
  <2> DEFINE t == req[r].run
             m == [run[t] EXCEPT !.queue = @ \cup req[r].res]
  <2>1. t \in Tokens /\ run' = [run EXCEPT ![t] = m] /\ run[t] \in Run /\ completed' = completed
    BY <1>5, RequestIs, Stands DEF ResumePush, RequestHolds, Bound, Resuming
  <2>2. m.seg = run[t].seg /\ m.fu = run[t].fu /\ m.ph = run[t].ph
    BY <2>1 DEF Run
  <2> HIDE DEF t, m
  <2> QED BY <2>1, <2>2, SegmentKept DEF SaveMove
<1> QED BY <1>1, <1>2, <1>3, <1>4, <1>5 DEF ResumeStep, BeginFlight, FlightWaited, ResolvePending, LookupReplay,
       ReadActive, ResumeChecks, ResumeBilling, ResumeAttach, ColdMismatch, ResumeFails

LEMMA FollowRunMoves ==
    ASSUME EInv, NEW r \in Requests, FollowStep(r)
    PROVE  (\A t \in Tokens : RunMove(t) /\ RunLandsOwned(t)) /\ SaveMove
<1>1. CASE FollowRun(r)
  <2> DEFINE new == [NoRun EXCEPT !.seg = req[r].batch, !.fu = req[r].fu]
  <2>1. req[r] \in Req /\ NoRun \in Run
    BY RequestIs, NoRunIs
  <2>2. new \in Run /\ new.seg = req[r].batch /\ new.fu = req[r].fu
    BY <2>1 DEF Run, Req
  <2>3. req[r].pc = "launch" /\ StartClaimed(r, new, "consume") /\ req[r].pc \in Claiming
    BY <1>1 DEF FollowRun, Claiming
  <2> HIDE DEF new
  <2> QED BY <2>2, <2>3, StartRunMoves
<1>2. CASE ~FollowRun(r)
  BY <1>2, QuietMove DEF FollowStep, FollowLookup, FollowClaimed, FollowAwaits
<1> QED BY <1>1, <1>2

\* A replay that Park or a run saves is one of its session.
LEMMA ReplayIs ==
    ASSUME NEW s, NEW batch, NEW fu, NEW more, completed' = WithReplay(s, batch, fu, more), batch # {}
    PROVE  \A c \in completed' : c \in completed \/ (c.s = s /\ c.batch # {})
BY DEF WithReplay

LEMMA ParkCancelMoves ==
    ASSUME EInv, FInv, NEW r \in Requests, ParkCancelStep(r)
    PROVE  (\A t \in Tokens : RunMove(t) /\ RunLandsOwned(t)) /\ SaveMove
<1>1. CASE UNCHANGED <<run, completed>>
  BY <1>1, QuietMove
<1>2. CASE Park(r) /\ ~UNCHANGED run
  <2> DEFINE t == active[req[r].s]
             m == [run[t] EXCEPT !.out = NoReq, !.seg = {}]
  <2>1. t \in Tokens \cup {NoToken}
    BY <1>2, RequestIs, Stands DEF Park, Where
  <2>2. t \in Tokens /\ run' = [run EXCEPT ![t] = m] /\ run[t] \in Run /\ completed' = completed
    BY ZenonT(60), <1>2, <2>1, Stands DEF Park
  <2>3. m.seg = {} /\ m.ph = run[t].ph
    BY <2>2 DEF Run
  <2> HIDE DEF t, m
  <2> QED BY <2>2, <2>3, OneRunMoves DEF SaveMove
<1>3. CASE ParkSaves(r) /\ ~UNCHANGED completed
  <2> DEFINE t == req[r].run
  <2>1. req[r].pc = "parkSave" /\ run' = run /\ SaveCompleted(t, FALSE)
    BY <1>3 DEF ParkSaves
  <2>2. t \in Tokens /\ run[t].ph # "none"
    BY <2>1, RequestIs DEF RequestHolds, Bound, ParkTail
  <2>3. req[r].seg # {} /\ NoFollowUpRun(t)
    BY <2>1 DEF FInv
  <2>4. lease[t].st = "owned"
    BY <2>1 DEF SaveCompleted, MayUpdate
  <2>5. completed' = WithReplay(lease[t].session, req[r].seg, req[r].segFu, file[lease[t].session].pending # {})
    BY <1>3 DEF ParkSaves
  <2>6. \A c \in completed' : c \in completed \/ (c.s = lease[t].session /\ c.batch # {})
    BY <2>3, <2>5, ReplayIs
  <2> HIDE DEF t
  <2>7. SaveMove
    BY <2>1, <2>2, <2>3, <2>4, <2>6 DEF SaveMove
  <2> QED BY <2>1, <2>7, RunsKept
<1>4. CASE ParkLands(r) \/ CancelStops(r)
  <2> DEFINE t == req[r].run
  <2>1. t \in Tokens /\ run[t] \in Run
    BY <1>4, RequestIs, Stands DEF ParkLands, CancelStops, RequestHolds, Bound, ParkTail, Canceling
  <2>2. completed' = completed
    BY <1>4 DEF ParkLands, CancelStops
  <2>3. CASE run' = [run EXCEPT ![t].flight = NoReq]
    <3> DEFINE m == [run[t] EXCEPT !.flight = NoReq]
    <3>1. run' = [run EXCEPT ![t] = m] /\ m.seg = run[t].seg /\ m.fu = run[t].fu /\ m.ph = run[t].ph
      BY <2>1, <2>3, Stands DEF Run
    <3> HIDE DEF m, t
    <3> QED BY <2>1, <2>2, <3>1, SegmentKept DEF SaveMove
  <2>4. CASE run' = [run EXCEPT ![t].cancelled = TRUE]
    <3> DEFINE m == [run[t] EXCEPT !.cancelled = TRUE]
    <3>1. run' = [run EXCEPT ![t] = m] /\ m.seg = run[t].seg /\ m.fu = run[t].fu /\ m.ph = run[t].ph
      BY <2>1, <2>4, Stands DEF Run
    <3> HIDE DEF m, t
    <3> QED BY <2>1, <2>2, <3>1, SegmentKept DEF SaveMove
  <2> QED BY <1>4, <2>3, <2>4 DEF ParkLands, CancelStops
<1>5. CASE Cancel(r) /\ ~UNCHANGED run
  <2> DEFINE t == active[req[r].s]
             m == [run[t] EXCEPT !.closed = TRUE, !.out = NoReq]
  <2>1. t \in Tokens \cup {NoToken}
    BY <1>5, RequestIs, Stands DEF Cancel, Where
  <2>2. t \in Tokens /\ run' = [run EXCEPT ![t] = m] /\ run[t] \in Run /\ completed' = completed
    BY <1>5, <2>1, Stands DEF Cancel
  <2>3. m.seg = run[t].seg /\ m.fu = run[t].fu /\ m.ph = run[t].ph
    BY <2>2 DEF Run
  <2> HIDE DEF t, m
  <2> QED BY <2>2, <2>3, SegmentKept DEF SaveMove
<1> QED BY <1>1, <1>2, <1>3, <1>4, <1>5 DEF ParkCancelStep, Park, ParkSaves, ParkCloses, Cancel, CancelDeletes, CancelReleases

-----------------------------------------------------------------------------
(***************************************************************************)
(* Runs and replays under the steps of runs.                               *)
(***************************************************************************)
LEMMA UpstreamRunMoves ==
    ASSUME EInv, NEW t \in Tokens, UpstreamStep(t)
    PROVE  (\A u \in Tokens : RunMove(u) /\ RunLandsOwned(u)) /\ SaveMove
<1>1. run[t].ph = "running" /\ run[t] \in Run /\ completed' = completed
  BY Stands DEF UpstreamStep, ToolCall, HistoryToolCall, ResultAccepted, TurnEnded, FailState, RunReturns, Running
<1>2. PICK m : /\ run' = [run EXCEPT ![t] = m] /\ m.seg = run[t].seg /\ m.fu = run[t].fu
               /\ m.ph \in {"running", "returned"}
  <2>1. ASSUME NEW x \in Tools, ToolCall(t, x)
        PROVE  \E m : /\ run' = [run EXCEPT ![t] = m] /\ m.seg = run[t].seg /\ m.fu = run[t].fu
                      /\ m.ph \in {"running", "returned"}
    <3>1. CASE run[t].out = NoReq
      <4> DEFINE m == Failed([run[t] EXCEPT !.up = @ \cup {x}])
      <4>1. run' = [run EXCEPT ![t] = m]
        BY <2>1, <3>1 DEF ToolCall
      <4>2. m.seg = run[t].seg /\ m.fu = run[t].fu /\ m.ph = "running"
        BY <1>1 DEF Failed, Run
      <4> QED BY <4>1, <4>2
    <3>2. CASE run[t].out # NoReq
      <4> DEFINE m == [run[t] EXCEPT !.pend = @ \cup {x}, !.up = @ \cup {x}]
      <4>1. run' = [run EXCEPT ![t] = m]
        BY <2>1, <3>2, Stands DEF ToolCall
      <4>2. m.seg = run[t].seg /\ m.fu = run[t].fu /\ m.ph = "running"
        BY <1>1 DEF Run
      <4> QED BY <4>1, <4>2
    <3> QED BY <3>1, <3>2
  <2>2. ASSUME NEW x \in Tools, HistoryToolCall(t, x)
        PROVE  \E m : /\ run' = [run EXCEPT ![t] = m] /\ m.seg = run[t].seg /\ m.fu = run[t].fu
                      /\ m.ph \in {"running", "returned"}
    <3> DEFINE m == [run[t] EXCEPT !.ph = "returned", !.pend = @ \cup {x},
                        !.term = ~run[t].failed /\ run[t].out # NoReq, !.err = run[t].failed \/ run[t].out = NoReq]
    <3>1. run' = [run EXCEPT ![t] = m]
      BY <2>2, Stands DEF HistoryToolCall
    <3>2. m.seg = run[t].seg /\ m.fu = run[t].fu /\ m.ph = "returned"
      BY <1>1 DEF Run
    <3> QED BY <3>1, <3>2
  <2>3. ASSUME NEW x \in Tools, ResultAccepted(t, x)
        PROVE  \E m : /\ run' = [run EXCEPT ![t] = m] /\ m.seg = run[t].seg /\ m.fu = run[t].fu
                      /\ m.ph \in {"running", "returned"}
    <3> DEFINE m == [run[t] EXCEPT !.queue = @ \ {x}, !.pend = run[t].pend \ {x}, !.up = @ \ {x},
                                   !.signaled = @ /\ run[t].up \ {x} # {}]
    <3>1. run' = [run EXCEPT ![t] = m] \/ run' = [run EXCEPT ![t] = Failed(m)]
      BY <2>3 DEF ResultAccepted
    <3>2. m.seg = run[t].seg /\ m.fu = run[t].fu /\ m.ph = "running"
      BY <1>1 DEF Run
    <3>3. Failed(m).seg = run[t].seg /\ Failed(m).fu = run[t].fu /\ Failed(m).ph = "running"
      BY <1>1 DEF Failed, Run
    <3> QED BY <3>1, <3>2, <3>3
  <2>4. CASE TurnEnded(t)
    <3> DEFINE m == [run[t] EXCEPT !.signaled = TRUE]
    <3>1. run' = [run EXCEPT ![t] = m]
      BY <2>4, Stands DEF TurnEnded
    <3>2. m.seg = run[t].seg /\ m.fu = run[t].fu /\ m.ph = "running"
      BY <1>1 DEF Run
    <3> QED BY <3>1, <3>2
  <2>5. CASE FailState(t)
    <3> DEFINE m == Failed(run[t])
    <3>1. run' = [run EXCEPT ![t] = m]
      BY <2>5 DEF FailState
    <3>2. m.seg = run[t].seg /\ m.fu = run[t].fu /\ m.ph = "running"
      BY <1>1 DEF Failed, Run
    <3> QED BY <3>1, <3>2
  <2>6. ASSUME NEW err \in BOOLEAN, RunReturns(t, err)
        PROVE  \E m : /\ run' = [run EXCEPT ![t] = m] /\ m.seg = run[t].seg /\ m.fu = run[t].fu
                      /\ m.ph \in {"running", "returned"}
    <3> DEFINE m == [run[t] EXCEPT !.ph = "returned", !.term = ~err /\ ~run[t].failed, !.err = err \/ run[t].failed]
    <3>1. run' = [run EXCEPT ![t] = m]
      BY <2>6, Stands DEF RunReturns
    <3>2. m.seg = run[t].seg /\ m.fu = run[t].fu /\ m.ph = "returned"
      BY <1>1 DEF Run
    <3> QED BY <3>1, <3>2
  <2> QED BY <2>1, <2>2, <2>3, <2>4, <2>5, <2>6 DEF UpstreamStep
<1> QED BY <1>1, <1>2, OneRunMoves DEF SaveMove, Early

LEMMA FinishRunMoves ==
    ASSUME EInv, NEW t \in Tokens, FinishStep(t)
    PROVE  (\A u \in Tokens : RunMove(u) /\ RunLandsOwned(u)) /\ SaveMove
<1>1. run[t] \in Run /\ run \in [Tokens -> Run]
  BY Stands
<1>2. CASE RunCloses(t)
  <2> DEFINE m == [run[t] EXCEPT !.ph = "saving", !.closed = TRUE, !.last = run[t].out, !.out = NoReq]
  <2>1. run' = [run EXCEPT ![t] = m] /\ completed' = completed /\ run[t].ph = "returned"
    BY <1>1, <1>2 DEF RunCloses
  <2>2. m.seg = run[t].seg /\ m.fu = run[t].fu /\ m.ph = "saving"
    BY <1>1 DEF Run
  <2> HIDE DEF m
  <2> QED BY <2>1, <2>2, OneRunMoves DEF SaveMove, Early
<1>3. ASSUME completed' = completed, NEW label, label \notin Early \cup {"landing"},
             \/ run' = [run EXCEPT ![t].ph = label]
             \/ run' = [run EXCEPT ![t].flight = NoReq, ![t].ph = label]
      PROVE  (\A u \in Tokens : RunMove(u) /\ RunLandsOwned(u)) /\ SaveMove
  <2> DEFINE m == [run[t] EXCEPT !.ph = label]
             n == [run[t] EXCEPT !.flight = NoReq, !.ph = label]
  <2>1. run' = [run EXCEPT ![t] = m] \/ run' = [run EXCEPT ![t] = n]
    BY <1>1, <1>3
  <2>2. /\ m.seg = run[t].seg /\ m.fu = run[t].fu /\ m.ph = label
        /\ n.seg = run[t].seg /\ n.fu = run[t].fu /\ n.ph = label
    BY <1>1 DEF Run
  <2> HIDE DEF m, n
  <2> QED BY <1>3, <2>1, <2>2, OneRunMoves DEF SaveMove, Early
<1>4. CASE RunLands(t) \/ RunDeletes(t) \/ RunReleases(t) \/ RunRetires(t)
  <2>1. \E label \in {"deleting", "releasing", "retiring", "delivering"} :
           \/ run' = [run EXCEPT ![t].ph = label]
           \/ run' = [run EXCEPT ![t].flight = NoReq, ![t].ph = label]
    BY <1>4 DEF RunLands, RunDeletes, RunReleases, RunRetires
  <2>2. completed' = completed
    BY <1>4 DEF RunLands, RunDeletes, RunReleases, RunRetires
  <2>3. \A label \in {"deleting", "releasing", "retiring", "delivering"} : label \notin Early \cup {"landing"}
    BY DEF Early
  <2> QED BY <1>3, <2>1, <2>2, <2>3
<1>5. CASE RunDelivers(t)
  <2>1. run' = [run EXCEPT ![t] = Gone] /\ completed' = completed
    BY <1>5 DEF RunDelivers
  <2>2. Gone.seg = {} /\ Gone.ph = "gone"
    BY DEF Gone, NoRun
  <2> QED BY <2>1, <2>2, OneRunMoves DEF SaveMove
<1>6. CASE RunSaves(t)
  <2> DEFINE save == ~run[t].err /\ (lease[t].session \in HistorySessions \/ run[t].seg # {})
             m == [run[t] EXCEPT !.ph = "landing"]
             n == [run[t] EXCEPT !.ph = "landing", !.err = @ \/ save]
  <2>1. run[t].ph = "saving" /\ RunOK(t) /\ (lease[t].session \in HistorySessions => run[t].seg = {})
    BY <1>6, RunIs DEF RunSaves
  <2>2. /\ m.seg = run[t].seg /\ m.fu = run[t].fu /\ m.ph = "landing"
        /\ n.seg = run[t].seg /\ n.fu = run[t].fu /\ n.ph = "landing" /\ n.err = (run[t].err \/ save)
    BY <1>1 DEF Run
  <2>3. \/ run' = [run EXCEPT ![t] = m] /\ SaveHistory(t) /\ completed' = completed
        \/ /\ run' = [run EXCEPT ![t] = m] /\ save /\ SaveCompleted(t, DeleteCompleted /\ run[t].pend = {})
           /\ completed' = WithReplay(lease[t].session, run[t].seg, run[t].fu, file[lease[t].session].pending # {})
        \/ run' = [run EXCEPT ![t] = n] /\ completed' = completed
    BY <1>1, <1>6 DEF RunSaves
  <2> HIDE DEF m, n
  <2>4. \A u \in Tokens : u # t => run'[u] = run[u]
    BY <1>1, <2>3
  <2>5. run'[t] \in {m, n} /\ (run'[t] = n \/ (run'[t] = m /\ lease[t].st = "owned"))
    BY <1>1, <2>3 DEF SaveHistory, SaveCompleted, MayUpdate
  <2>6. RunMove(t) /\ RunLandsOwned(t)
    BY <2>1, <2>2, <2>5 DEF RunMove, RunLandsOwned, Early
  <2>7. \A u \in Tokens : u # t => RunMove(u) /\ RunLandsOwned(u)
    BY <2>4 DEF RunMove, RunLandsOwned
  <2>8. CASE completed' # completed
    <3>1. /\ save /\ SaveCompleted(t, DeleteCompleted /\ run[t].pend = {})
          /\ completed' = WithReplay(lease[t].session, run[t].seg, run[t].fu, file[lease[t].session].pending # {})
      BY <2>3, <2>8
    <3>2. run[t].seg # {} /\ lease[t].st = "owned"
      BY <3>1, <2>1 DEF SaveCompleted, MayUpdate
    <3>3. \A c \in completed' : c \in completed \/ (c.s = lease[t].session /\ c.batch # {})
      BY <3>1, <3>2, ReplayIs
    <3>4. run'[t].ph \notin Early
      BY <2>2, <2>5 DEF Early
    <3>5. run[t].ph # "none"
      BY <2>1
    <3> QED BY <2>6, <2>7, <3>2, <3>3, <3>4, <3>5 DEF SaveMove
  <2> QED BY <2>6, <2>7, <2>8 DEF SaveMove
<1> QED BY <1>2, <1>4, <1>5, <1>6 DEF FinishStep

LEMMA RestartMoves ==
    ASSUME EInv, Restart PROVE FollowMoves
<1>1. completed' = completed
  BY DEF Restart
<1>2. Gone.seg = {} /\ Gone.ph = "gone" /\ NoRun.seg = {} /\ NoRun.ph = "none"
  BY DEF Gone, NoRun
<1>3. \A t \in Tokens : run'[t] \in {Gone, NoRun}
  BY DEF Restart
<1>4. \A r \in Requests : req'[r].pc \in {"idle", "done"}
  <2>1. IdleReq.pc = "idle" /\ [IdleReq EXCEPT !.pc = "done"].pc = "done"
    BY DEF IdleReq
  <2>2. \A r \in Requests : req'[r] \in {IdleReq, [IdleReq EXCEPT !.pc = "done"]}
    BY DEF Restart
  <2> QED BY <2>1, <2>2
<1> QED BY <1>1, <1>2, <1>3, <1>4 DEF FollowMoves, RunMove, RunLandsOwned, ReqMove, SaveMove

LEMMA StepMoves ==
    ASSUME EInv, FInv, [ExecutorNext]_allVars PROVE FollowMoves
<1>1. ASSUME NEW r \in Requests, RequestStep(r) PROVE FollowMoves
  BY <1>1, StartElsewhere, ResumeElsewhere, FollowReqMoves, ParkCancelReqMoves, StartMoves, ResumeMoves,
     FollowRunMoves, ParkCancelMoves DEF RequestStep, FollowMoves
<1>2. ASSUME NEW r \in Requests, ReadStep(r) \/ ClientStep(r) PROVE FollowMoves
  <2>1. UNCHANGED <<run, completed>>
    BY <1>2 DEF ReadStep, ClientStep, Fallback, ReadTurnEnded, ReadEnd, ReadParked, BeginStart, BeginResume, GiveUp
  <2> QED BY <1>2, <2>1, ReadElsewhere, QuietMove DEF FollowMoves
<1>3. ASSUME UNCHANGED req PROVE \A r \in Requests : ReqMove(r)
  BY <1>3 DEF ReqMove
<1>4. ASSUME NEW t \in Tokens, UpstreamStep(t) PROVE FollowMoves
  <2>1. UNCHANGED req
    BY <1>4 DEF UpstreamStep, ToolCall, HistoryToolCall, ResultAccepted, TurnEnded, FailState, RunReturns
  <2> QED BY <1>3, <1>4, <2>1, UpstreamRunMoves DEF FollowMoves
<1>5. ASSUME NEW t \in Tokens, FinishStep(t) PROVE FollowMoves
  <2>1. UNCHANGED req
    BY <1>5 DEF FinishStep, RunCloses, RunSaves, RunLands, RunDeletes, RunReleases, RunRetires, RunDelivers
  <2> QED BY <1>3, <1>5, <2>1, FinishRunMoves DEF FollowMoves
<1>6. CASE UNCHANGED allVars
  BY <1>3, <1>6, QuietMove DEF FollowMoves, allVars, managerVars
<1> QED BY <1>1, <1>2, <1>4, <1>5, <1>6, RestartMoves DEF ExecutorNext

-----------------------------------------------------------------------------
(***************************************************************************)
(* The invariant and the result.                                           *)
(***************************************************************************)
LEMMA FollowInitial == ExecutorInit => FInv
<1> SUFFICES ASSUME ExecutorInit PROVE FInv
  OBVIOUS
<1>1. NoRun.ph = "none" /\ IdleReq.pc = "idle"
  BY DEF NoRun, IdleReq
<1>2. completed = {} /\ (\A t \in Tokens : run[t] = NoRun) /\ (\A r \in Requests : req[r] = IdleReq)
  BY DEF ExecutorInit, ManagerInit
<1> QED BY <1>1, <1>2 DEF FInv, Answering, Early

LEMMA FollowStepKeeps == EInv /\ FInv /\ [ExecutorNext]_allVars => FInv'
<1> SUFFICES ASSUME EInv, FInv, [ExecutorNext]_allVars PROVE FInv'
  OBVIOUS
<1>1. FollowMoves
  BY StepMoves
<1>2. \A t \in Tokens : LeaseMove(t)
  BY Simulates, LeaseMoves DEF EInv
<1>3. OneLiveOwner
  BY LockHeldUnique DEF EInv, IInv
\* A replay saved now is not one of a session whose owner does not save.
<1>4. ASSUME NEW t \in Tokens, lease[t].st = "owned", NEW batch, NEW fu, NotSaved(lease[t].session, batch, fu),
             \/ run[t].ph = "none"
             \/ run'[t].ph \in Early /\ ~NoFollowUpRun(t)
      PROVE  NotSaved(lease[t].session, batch, fu)'
  <2> SUFFICES ASSUME NEW c \in completed', c.s = lease'[t].session PROVE ~(c.batch = batch /\ c.fu = fu)
    BY <1>4 DEF NotSaved
  <2>1. lease'[t].session = lease[t].session
    BY <1>2, <1>4 DEF LeaseMove, NoLease
  <2>2. c \in completed
    <3> SUFFICES ASSUME c \notin completed PROVE FALSE
      OBVIOUS
    <3>1. PICK u \in Tokens : /\ lease[u].st = "owned" /\ run[u].ph # "none"
                              /\ run'[u].ph \in Early => NoFollowUpRun(u)
                              /\ c.s = lease[u].session
      BY <1>1 DEF FollowMoves, SaveMove
    <3>2. u = t
      BY <1>3, <1>4, <2>1, <3>1 DEF OneLiveOwner, Holds
    <3> QED BY <1>4, <3>1, <3>2
  <2> QED BY <1>4, <2>1, <2>2 DEF NotSaved
<1>5. \A c \in completed' : c.batch # {}
  BY <1>1 DEF FInv, FollowMoves, SaveMove
<1>6. ASSUME NEW r \in Requests, req'[r].pc = "launch" PROVE NotSaved(req[r].s, req[r].batch, req[r].fu)'
  <2>1. CASE req'[r] = req[r]
    <3>1. /\ req[r].run \in Tokens /\ lease[req[r].run].session = req[r].s /\ run[req[r].run].ph = "none"
          /\ lease[req[r].run].st = "owned"
      BY <1>6, <2>1, RequestIs DEF RequestHolds, Claiming
    <3>2. NotSaved(req[r].s, req[r].batch, req[r].fu)
      BY <1>6, <2>1 DEF FInv
    <3>3. lease'[req[r].run].session = lease[req[r].run].session
      BY <1>2, <3>1 DEF LeaseMove, NoLease
    <3>4. NotSaved(lease[req[r].run].session, req[r].batch, req[r].fu)'
      BY <1>4, <2>1, <3>1, <3>2 DEF NotSaved
    <3> QED BY <2>1, <3>1, <3>3, <3>4 DEF NotSaved
  <2>2. CASE completed' = completed /\ \A s : NotSaved(s, req'[r].batch, req'[r].fu)
    BY <2>2 DEF NotSaved
  <2> QED BY <1>1, <1>6, <2>1, <2>2 DEF FollowMoves, ReqMove
<1>7. ASSUME NEW t \in Tokens, Answering(t)' PROVE NotSaved(lease[t].session, run[t].seg, run[t].fu)'
  <2>1. run'[t].ph \in Early /\ lease'[t].st = "owned" /\ run'[t].seg # {} /\ run'[t].fu # NoFollowUp
    BY <1>7 DEF Answering
  <2>2. lease[t].st \in {"claiming", "owned"}
    BY <1>2, <2>1 DEF LeaseMove
  <2>3. CASE run'[t].seg = run[t].seg /\ run'[t].fu = run[t].fu /\ run[t].ph \in Early
    <3>1. lease[t].st = "owned"
      BY <2>2, <2>3, RunIs DEF RunOK, Early
    <3>2. Answering(t) /\ ~NoFollowUpRun(t)
      BY <2>1, <2>3, <3>1 DEF Answering, NoFollowUpRun
    <3>3. NotSaved(lease[t].session, run[t].seg, run[t].fu)
      BY <3>2 DEF FInv
    <3> QED BY <1>4, <2>1, <2>3, <3>1, <3>2, <3>3 DEF NotSaved
  <2>4. ASSUME NEW r \in Requests, run[t].ph = "none", req[r].pc = "launch", req[r].run = t,
               run'[t].seg = req[r].batch, run'[t].fu = req[r].fu
        PROVE  NotSaved(lease[t].session, run[t].seg, run[t].fu)'
    <3>1. lease[t].session = req[r].s /\ lease[t].st = "owned"
      BY <2>4, RequestIs DEF RequestHolds, Claiming
    <3>2. NotSaved(lease[t].session, req[r].batch, req[r].fu)
      BY <2>4, <3>1 DEF FInv
    <3> QED BY <1>4, <2>4, <3>1, <3>2 DEF NotSaved
  <2> QED BY <1>1, <2>1, <2>3, <2>4 DEF FollowMoves, RunMove
<1>8. ASSUME NEW r \in Requests, req'[r].pc = "parkSave" PROVE (req[r].seg # {} /\ NoFollowUpRun(req[r].run))'
  <2>1. CASE req'[r] = req[r]
    <3>1. req[r].run \in Tokens /\ run[req[r].run].ph # "none"
      BY <1>8, <2>1, RequestIs DEF RequestHolds, Bound, ParkTail
    <3>2. req[r].seg # {} /\ NoFollowUpRun(req[r].run)
      BY <1>8, <2>1 DEF FInv
    <3> QED BY <1>1, <2>1, <3>1, <3>2 DEF FollowMoves, RunMove, NoFollowUpRun
  <2>2. CASE req'[r].seg # {} /\ run'[req'[r].run].seg = {}
    BY <2>2 DEF NoFollowUpRun
  <2> QED BY <1>1, <1>8, <2>1, <2>2 DEF FollowMoves, ReqMove
<1> QED BY <1>5, <1>6, <1>7, <1>8 DEF FInv

LEMMA FollowInvariance == ExecutorSpec => []FInv
BY FollowInitial, FollowStepKeeps, ExecutorInvariance, PTL DEF ExecutorSpec

\* Run t saves the answer of a follow-up.
AnswersFollowUp(t) ==
    /\ run[t].ph = "saving" /\ run'[t].ph = "landing"
    /\ run[t].fu # NoFollowUp /\ ~run'[t].err

LEMMA AnswerIsNew ==
    ASSUME EInv, FInv, [ExecutorNext]_allVars, NEW t \in Tokens, AnswersFollowUp(t)
    PROVE  /\ run[t].seg = {} \/ NotSaved(lease[t].session, run[t].seg, run[t].fu)
           /\ \A c \in completed : c.batch # {}
<1>1. ASSUME run[t].seg # {} PROVE NotSaved(lease[t].session, run[t].seg, run[t].fu)
  <2>1. lease[t].st = "owned"
    BY <1>1, StepMoves DEF FollowMoves, RunLandsOwned, AnswersFollowUp
  <2> QED BY <1>1, <2>1 DEF FInv, Answering, AnswersFollowUp, Early
<1> QED BY <1>1 DEF FInv

\* A session answers a follow-up once: no run saves the answer of a follow-up
\* of which a replay is stored for its session.
FollowUpOncePerSession ==
    [][\A t \in Tokens :
          AnswersFollowUp(t) =>
             \A c \in completed : c.s = lease[t].session /\ c.batch = run[t].seg => c.fu # run[t].fu]_allVars

\* StartFollowUp runs the turn of a follow-up once per session, however many
\* requests carry it and wherever they wait, retry, park or are cancelled.
THEOREM FollowUpOncePerSessionHolds == ExecutorSpec => FollowUpOncePerSession
<1>1. EInv /\ FInv /\ [ExecutorNext]_allVars =>
        [\A t \in Tokens :
           AnswersFollowUp(t) =>
              \A c \in completed : c.s = lease[t].session /\ c.batch = run[t].seg => c.fu # run[t].fu]_allVars
  BY AnswerIsNew DEF NotSaved
<1> QED BY <1>1, FollowInvariance, ExecutorInvariance, PTL DEF ExecutorSpec, FollowUpOncePerSession

-----------------------------------------------------------------------------
(***************************************************************************)
(* Sessions do not mix.  own[x] is the session that call x is issued to.   *)
(***************************************************************************)
\* Every one of these calls is issued to session s.
Of(own, X, s) == \A x \in X : own[x] = s

\* The points where a request leads a flight of its batch, and those where it
\* saves a segment that Park took.
Flying == {"resolve", "lookup", "active", "bind", "bindCold"}
Parking == {"parkSave", "parkLand", "parkFail"}

FileOwned(own, s) ==
    file[s] # NoFile => /\ Of(own, file[s].pending, s) /\ Of(own, file[s].batch, s)
                        /\ file[s].pending # {} => file[s].batch # {}

RunOwned(own, t) ==
    run[t].ph # "none" =>
        /\ Of(own, run[t].pend, lease[t].session) /\ Of(own, run[t].seg, lease[t].session)
        /\ run[t].flight # NoReq => /\ req[run[t].flight].pc \notin {"idle", "begin"}
                                    /\ Of(own, flight[run[t].flight].batch, lease[t].session)

\* A request that knows its session answers a batch of it; one that does not
\* yet answers the ids it was sent.
ReqOwned(own, r) ==
    LET q == req[r] IN
    /\ q.s # NoSession => Of(own, q.batch, q.s)
    /\ q.s = NoSession => q.batch \subseteq q.ids
    /\ q.pc \in Flying \/ q.mode = "cold" => flight[r].batch = q.batch
    /\ q.pc \in Parking => Of(own, q.seg, q.s)

FlightOwned(own, r) == flight[r].st = "replay" => Of(own, flight[r].batch, flight[r].s)

OInv(own) ==
    /\ \A s \in Sessions : FileOwned(own, s)
    /\ \A t \in Tokens : RunOwned(own, t)
    /\ \A r \in Requests : ReqOwned(own, r) /\ FlightOwned(own, r)
    /\ \A c \in completed : Of(own, c.batch, c.s)

\* Nobody submits the ids of several sessions at once.
OneSession(own) == \A r \in Requests : \A x, y \in req[r].ids : own[x] = own[y]

\* A call is issued to the session of the run that asks for it.
Issues(own) ==
    \A t \in Tokens, x \in Tools :
       ToolCall(t, x) \/ HistoryToolCall(t, x) => own[x] = lease[t].session

-----------------------------------------------------------------------------
(***************************************************************************)
(* Files.                                                                  *)
(***************************************************************************)
\* The file of s keeps its tools, or has none.
FileKept(s) ==
    \/ file'[s] = NoFile
    \/ file[s] # NoFile /\ file'[s].pending = file[s].pending /\ file'[s].batch = file[s].batch
    \/ file'[s].pending = {} /\ file'[s].batch = {}

LEMMA FilesKept ==
    ASSUME NEW own, OInv(own), \A s \in Sessions : FileKept(s)
    PROVE  \A s \in Sessions : FileOwned(own, s)'
BY DEF OInv, FileOwned, FileKept, Of

\* One file is replaced.
LEMMA OneFileKept ==
    ASSUME EInv, NEW s, NEW rec, file' = [file EXCEPT ![s] = rec],
           s \in Sessions => \/ rec = NoFile
                             \/ file[s] # NoFile /\ rec.pending = file[s].pending /\ rec.batch = file[s].batch
                             \/ rec.pending = {} /\ rec.batch = {}
    PROVE  \A u \in Sessions : FileKept(u)
<1>1. \A u \in Sessions : u # s => file'[u] = file[u]
  BY Stands
<1>2. s \in Sessions => file'[s] = rec
  BY Stands
<1> QED BY <1>1, <1>2 DEF FileKept

\* No operation of the store but SavePending changes the pending tools of a
\* file that stays.
LEMMA ClaimKeepsFiles ==
    ASSUME EInv, NEW t \in Tokens, lease[t].session \in Sessions, NEW o, NEW catalog, NEW metered,
           ClaimReplay(t) \/ ClaimRefused(t, o) \/ ClaimCommitted(t, o, catalog, metered, TRUE)
    PROVE  \A s \in Sessions : FileKept(s)
<1> DEFINE s == lease[t].session
<1>1. Current(s) = NoFile \/ (Current(s) = file[s] /\ file[s] # NoFile)
  BY DEF Current
<1>2. CASE ClaimReplay(t)
  BY <1>2 DEF ClaimReplay, FileKept
<1>3. CASE ClaimRefused(t, o)
  <2>1. file' = [file EXCEPT ![s] = Current(s)]
    BY <1>3 DEF ClaimRefused
  <2> HIDE DEF s
  <2> QED BY <1>1, <2>1, OneFileKept
<1>4. CASE ClaimCommitted(t, o, catalog, metered, TRUE)
  <2> DEFINE rec == Claimed(Current(s), lease[t].cred, o, t, catalog, metered)
  <2>1. file' = [file EXCEPT ![s] = rec]
    BY <1>4 DEF ClaimCommitted
  <2>2. \/ rec.pending = {} /\ rec.batch = {}
        \/ Current(s) # NoFile /\ rec.pending = Current(s).pending /\ rec.batch = Current(s).batch
    BY DEF Claimed
  <2> HIDE DEF s, rec
  <2> QED BY <1>1, <2>1, <2>2, OneFileKept
<1> QED BY <1>2, <1>3, <1>4

LEMMA OwnerKeepsFiles ==
    ASSUME EInv, NEW t \in Tokens, NEW some,
           \/ SaveUsageCarry(t, some) \/ SetBillingRunID(t) \/ SaveCompleted(t, some) \/ SaveHistory(t)
           \/ Delete(t) \/ Release(t)
    PROVE  \A s \in Sessions : FileKept(s)
<1> DEFINE s == lease[t].session
           f == file[s]
<1>1. CASE Release(t)
  BY <1>1 DEF Release, FileKept
<1>2. CASE Delete(t)
  <2>1. file' = [file EXCEPT ![s] = NoFile]
    BY <1>2 DEF Delete
  <2> QED BY <2>1, OneFileKept
<1>3. CASE SaveUsageCarry(t, some) \/ SetBillingRunID(t) \/ SaveCompleted(t, some) \/ SaveHistory(t)
  <2>1. f # NoFile
    BY <1>3 DEF SaveUsageCarry, SetBillingRunID, SaveCompleted, SaveHistory, MayUpdate
  <2>2. s \in Sessions => f \in File
    BY <2>1, Stands
  <2>3. PICK rec : /\ file' = [file EXCEPT ![s] = rec]
                   /\ s \in Sessions => \/ rec.pending = f.pending /\ rec.batch = f.batch
                                        \/ rec.pending = {} /\ rec.batch = {}
    <3>1. CASE SaveUsageCarry(t, some)
      <4> DEFINE rec == [f EXCEPT !.carry = IF some THEN lease[t].cred ELSE NoCred]
      <4>1. file' = [file EXCEPT ![s] = rec]
        BY <3>1 DEF SaveUsageCarry, Write
      <4>2. s \in Sessions => rec.pending = f.pending /\ rec.batch = f.batch
        <5> HIDE DEF s, f
        <5> QED BY <2>2 DEF File
      <4> QED BY <4>1, <4>2
    <3>2. CASE SetBillingRunID(t)
      BY <3>2 DEF SetBillingRunID, Write
    <3>3. CASE SaveCompleted(t, some)
      <4> DEFINE rec == [f EXCEPT !.ephemeral = @ \/ (some /\ f.pending = {})]
      <4>1. file' = [file EXCEPT ![s] = rec]
        BY <3>3 DEF SaveCompleted
      <4>2. s \in Sessions => rec.pending = f.pending /\ rec.batch = f.batch
        <5> HIDE DEF s, f
        <5> QED BY <2>2 DEF File
      <4> QED BY <4>1, <4>2
    <3>4. CASE SaveHistory(t)
      <4> DEFINE rec == [f EXCEPT !.ckpt = NoCred, !.pending = {}, !.batch = {},
                                  !.pendBy = NoCred, !.ephemeral = TRUE]
      <4>1. file' = [file EXCEPT ![s] = f] \/ (s \in Sessions => file' = [file EXCEPT ![s] = rec])
        BY <3>4, Stands DEF SaveHistory, Write
      <4>2. s \in Sessions
        BY <3>4, ConstantsAssumption DEF SaveHistory
      <4>3. rec.pending = {} /\ rec.batch = {}
        <5> HIDE DEF s, f
        <5> QED BY <2>2, <4>2 DEF File
      <4> QED BY <4>1, <4>2, <4>3
    <3> QED BY <1>3, <3>1, <3>2, <3>3, <3>4
  <2> HIDE DEF s, f
  <2>4. s \in Sessions => \/ f # NoFile /\ rec.pending = f.pending /\ rec.batch = f.batch
                          \/ rec.pending = {} /\ rec.batch = {}
    BY <2>1, <2>3
  <2> QED BY <2>3, <2>4, OneFileKept DEF f
<1> QED BY <1>1, <1>2, <1>3

\* SavePending saves tools of its session.
LEMMA SavesOwned ==
    ASSUME EInv, NEW own, OInv(own), NEW t \in Tokens, NEW X, SavePending(t, X),
           Of(own, X, lease[t].session)
    PROVE  \A s \in Sessions : FileOwned(own, s)'
<1> DEFINE u == lease[t].session
           f == file[u]
           rec == [f EXCEPT !.batch = NextBatch(f, X), !.pending = X,
                            !.pendBy = IF X = {} THEN NoCred ELSE lease[t].cred]
<1>1. file' = [file EXCEPT ![u] = rec] /\ f # NoFile
  BY DEF SavePending, Write, MayUpdate
<1>2. u \in Sessions => f \in File
  BY <1>1, Stands
<1>3. /\ NextBatch(f, X) = X \/ (X # {} /\ NextBatch(f, X) = f.batch /\ f.batch # {})
  BY DEF NextBatch
<1>4. u \in Sessions => rec.pending = X /\ rec.batch = NextBatch(f, X)
  <2> HIDE DEF u, f
  <2> QED BY <1>2 DEF File
<1>5. u \in Sessions => FileOwned(own, u)
  BY DEF OInv
<1> HIDE DEF rec
<1>6. ASSUME NEW s \in Sessions, s = u PROVE FileOwned(own, s)'
  <2>1. file'[s] = rec
    BY <1>1, <1>6, Stands
  <2> QED BY <1>1, <1>3, <1>4, <1>5, <1>6, <2>1 DEF FileOwned, Of
<1>7. ASSUME NEW s \in Sessions, s # u PROVE FileOwned(own, s)'
  <2>1. file'[s] = file[s]
    BY <1>1, <1>7, Stands
  <2> QED BY <2>1 DEF OInv, FileOwned, Of
<1> QED BY <1>6, <1>7

-----------------------------------------------------------------------------
(***************************************************************************)
(* Requests.                                                               *)
(***************************************************************************)
\* Request r takes a step; the others, and the batches of flights that are
\* not just opened, stay.
RequestMove(own, r) ==
    /\ \A q \in Requests : q # r => req'[q] = req[q]
    /\ ReqOwned(own, r)'
    /\ req'[r].pc # "idle" /\ (req'[r].pc = "begin" => req[r].pc = "idle")
    /\ \A q \in Requests : flight'[q].batch = flight[q].batch \/ (q = r /\ req[r].pc = "begin")

LEMMA RecordOwned ==
    ASSUME EInv, NEW own, NEW r \in Requests, NEW n, req' = [req EXCEPT ![r] = n],
           n.pc # "idle", n.pc = "begin" => req[r].pc = "idle",
           \A q \in Requests : flight'[q].batch = flight[q].batch,
           n.s # NoSession => Of(own, n.batch, n.s),
           n.s = NoSession => n.batch \subseteq n.ids,
           n.pc \in Flying \/ n.mode = "cold" => flight[r].batch = n.batch,
           n.pc \in Parking => Of(own, n.seg, n.s)
    PROVE  RequestMove(own, r)
<1>1. req'[r] = n /\ \A q \in Requests : q # r => req'[q] = req[q]
  BY Stands
<1>2. ReqOwned(own, r)'
  BY <1>1 DEF ReqOwned, Of
<1> QED BY <1>1, <1>2 DEF RequestMove

\* The request keeps its session, batch and ids.
LEMMA SameOwned ==
    ASSUME EInv, NEW own, OInv(own), NEW r \in Requests, NEW n, req' = [req EXCEPT ![r] = n],
           n.pc \notin {"idle", "begin"},
           \A q \in Requests : flight'[q].batch = flight[q].batch,
           n.s = req[r].s, n.batch = req[r].batch, n.ids = req[r].ids,
           n.pc \in Flying \/ n.mode = "cold" => req[r].pc \in Flying \/ req[r].mode = "cold",
           n.pc \in Parking => req[r].pc \in Parking /\ n.seg = req[r].seg
    PROVE  RequestMove(own, r)
<1>1. ReqOwned(own, r)
  BY DEF OInv
<1> QED BY <1>1, RecordOwned DEF ReqOwned

LEMMA GotoOwned ==
    ASSUME EInv, NEW own, OInv(own), NEW r \in Requests, NEW label \in Labels \ {"idle", "begin"},
           req' = Goto(r, label),
           \A q \in Requests : flight'[q].batch = flight[q].batch,
           label \in Flying => req[r].pc \in Flying \/ req[r].mode = "cold",
           label \in Parking => req[r].pc \in Parking
    PROVE  RequestMove(own, r)
<1>1. req[r] \in Req
  BY Stands
<1>2. CASE label = "done"
  <2> DEFINE n == [IdleReq EXCEPT !.pc = "done"]
  <2>1. req' = [req EXCEPT ![r] = n]
    BY <1>2, Stands DEF Goto
  <2>2. n.pc = "done" /\ n.s = NoSession /\ n.batch = {} /\ n.ids = {} /\ n.mode = "start"
    BY DEF IdleReq
  <2> HIDE DEF n
  <2> QED BY <2>1, <2>2, RecordOwned DEF Flying, Parking
<1>3. CASE label # "done"
  <2> DEFINE n == [req[r] EXCEPT !.pc = label]
  <2>1. req' = [req EXCEPT ![r] = n]
    BY <1>3, Stands DEF Goto
  <2>2. n.pc = label /\ n.s = req[r].s /\ n.batch = req[r].batch /\ n.ids = req[r].ids /\ n.mode = req[r].mode
        /\ n.seg = req[r].seg
    BY <1>1 DEF Req
  <2> HIDE DEF n
  <2>3. n.pc \in Flying \/ n.mode = "cold" => req[r].pc \in Flying \/ req[r].mode = "cold"
    BY <2>2
  <2>4. n.pc \notin {"idle", "begin"} /\ (n.pc \in Parking => req[r].pc \in Parking /\ n.seg = req[r].seg)
    BY <2>2
  <2> HIDE DEF Flying, Parking
  <2> QED BY <2>1, <2>2, <2>3, <2>4, SameOwned
<1> QED BY <1>2, <1>3

LEMMA GiveUpClaimOwned ==
    ASSUME EInv, NEW own, OInv(own), NEW r \in Requests, NEW next, req' = GiveUpClaim(r, next),
           UNCHANGED flight
    PROVE  RequestMove(own, r)
<1> DEFINE pc == IF req[r].mode = "cold" THEN "failCold" ELSE "unreserve"
           n == [req[r] EXCEPT !.pc = pc, !.then = next]
<1>1. req' = [req EXCEPT ![r] = n] /\ req[r] \in Req
  BY Stands DEF GiveUpClaim
<1>2. n.pc = pc /\ n.s = req[r].s /\ n.batch = req[r].batch /\ n.ids = req[r].ids /\ n.mode = req[r].mode
  BY <1>1 DEF Req
<1> HIDE DEF n
<1> QED BY <1>1, <1>2, SameOwned DEF Flying, Parking

\* A request that is answered by a replay.
LEMMA ReplayedOwned ==
    ASSUME EInv, NEW own, OInv(own), NEW r \in Requests, NEW s, NEW batch, NEW fu, NEW more,
           req' = Replayed(r, s, batch, fu, more), s # NoSession, Of(own, batch, s),
           \A q \in Requests : flight'[q].batch = flight[q].batch
    PROVE  RequestMove(own, r)
<1>1. CASE req' = Goto(r, "done")
  BY <1>1, GotoOwned DEF Labels, Flying, Parking
<1>2. CASE req' = [req EXCEPT ![r].pc = "follow", ![r].mode = "follow", ![r].s = s, ![r].batch = batch]
  <2> DEFINE n == [req[r] EXCEPT !.pc = "follow", !.mode = "follow", !.s = s, !.batch = batch]
  <2>1. req' = [req EXCEPT ![r] = n] /\ req[r] \in Req
    BY <1>2, Stands
  <2>2. n.pc = "follow" /\ n.s = s /\ n.batch = batch /\ n.mode = "follow"
    BY <2>1 DEF Req
  <2> HIDE DEF n
  <2> QED BY <2>1, <2>2, RecordOwned DEF Flying, Parking
<1> QED BY <1>1, <1>2 DEF Replayed

LEMMA StartOwned ==
    ASSUME EInv, NEW own, OInv(own), NEW r \in Requests, StartStep(r) PROVE RequestMove(own, r)
<1> USE DEF Labels, Flying, Parking
<1>1. UNCHANGED flight
  BY DEF StartStep, StartLookup, Reserve, Unreserve, ClaimHeld, ClaimAcquire, ClaimReturns, ClaimCommits,
     StartRun, StartClaimed
<1>2. CASE StartLookup(r) \/ ClaimCommits(r) \/ StartRun(r)
  BY <1>1, <1>2, GotoOwned DEF StartLookup, ClaimCommits, StartRun, StartClaimed
<1>3. CASE Reserve(r)
  <2>1. PICK label \in {"claim", "followLookup", "start", "done", "fail", "await", "awaitLast"} :
           req' = Goto(r, label)
    BY <1>3 DEF Reserve, ReserveNext, ReserveElse
  <2> QED BY <1>1, <2>1, GotoOwned
<1>4. CASE Unreserve(r)
  <2>1. req[r].then \in {"done", "fallback", "start", "awaitLast"}
    BY <1>4, RequestIs DEF Unreserve, Where
  <2> QED BY <1>1, <1>4, <2>1, GotoOwned DEF Unreserve
<1>5. CASE ClaimHeld(r) \/ ClaimReturns(r)
  BY <1>1, <1>5, GiveUpClaimOwned DEF ClaimHeld, ClaimReturns
<1>6. CASE ClaimAcquire(r)
  <2> DEFINE n == [req[r] EXCEPT !.pc = "claiming", !.run = NewToken]
  <2>1. req' = [req EXCEPT ![r] = n] /\ req[r] \in Req
    BY <1>6, Stands DEF ClaimAcquire
  <2>2. n.pc = "claiming" /\ n.s = req[r].s /\ n.batch = req[r].batch /\ n.ids = req[r].ids /\ n.mode = req[r].mode
    BY <2>1 DEF Req
  <2> HIDE DEF n
  <2> QED BY <1>1, <2>1, <2>2, SameOwned
<1> QED BY <1>2, <1>3, <1>4, <1>5, <1>6 DEF StartStep

\* A flight that ends keeps its batch.
LEMMA EndedFlight ==
    ASSUME EInv, NEW own, OInv(own), NEW q \in Requests \cup {NoReq}, NEW result \in Flight,
           flight' = EndFlight(q, result),
           result.st = "replay" /\ q # NoReq => Of(own, flight[q].batch, result.s)
    PROVE  /\ \A p \in Requests : flight'[p].batch = flight[p].batch
           /\ \A p \in Requests : FlightOwned(own, p)'
<1>1. \A p \in Requests : FlightOwned(own, p)
  BY DEF OInv
<1>2. CASE q # NoReq /\ flight[q].st = "open"
  <2> DEFINE f == [result EXCEPT !.batch = flight[q].batch, !.fu = flight[q].fu]
  <2>1. flight' = [flight EXCEPT ![q] = f] /\ q \in Requests
    BY <1>2 DEF EndFlight
  <2>2. f.st = result.st /\ f.s = result.s /\ f.batch = flight[q].batch
    BY DEF Flight
  <2> HIDE DEF f
  <2>3. flight'[q] = f /\ \A p \in Requests : p # q => flight'[p] = flight[p]
    BY <2>1, Stands
  <2> QED BY <1>1, <1>2, <2>1, <2>2, <2>3 DEF FlightOwned, Of
<1>3. CASE flight' = flight
  BY <1>1, <1>3 DEF FlightOwned, Of
<1> QED BY <1>2, <1>3 DEF EndFlight

LEMMA FlightsStay ==
    ASSUME NEW own, OInv(own), UNCHANGED flight
    PROVE  \A p \in Requests : FlightOwned(own, p)'
BY DEF OInv, FlightOwned, Of

LEMMA BeginFlightOwned ==
    ASSUME EInv, NEW own, OInv(own), NEW r \in Requests, BeginFlight(r)
    PROVE  RequestMove(own, r) /\ \A p \in Requests : FlightOwned(own, p)'
<1>1. req[r].pc = "begin" /\ req[r] \in Req /\ Where(req[r]) /\ ReqOwned(own, r)
  BY RequestIs DEF BeginFlight, OInv
<1>2. ASSUME NEW q \in Requests, req' = [req EXCEPT ![r].pc = "wait", ![r].lead = q], UNCHANGED flight
      PROVE  RequestMove(own, r) /\ \A p \in Requests : FlightOwned(own, p)'
  <2> DEFINE n == [req[r] EXCEPT !.pc = "wait", !.lead = q]
  <2>1. req' = [req EXCEPT ![r] = n]
    BY <1>2, Stands
  <2>2. n.pc = "wait" /\ n.s = req[r].s /\ n.batch = req[r].batch /\ n.ids = req[r].ids /\ n.mode = req[r].mode
    BY <1>1 DEF Req
  <2> HIDE DEF n
  <2> QED BY <1>2, <2>1, <2>2, SameOwned, FlightsStay DEF Flying, Parking
<1>3. ASSUME flight' = [flight EXCEPT ![r] = [NoFlight EXCEPT !.st = "open", !.batch = req[r].batch,
                                                              !.fu = req[r].fu]],
             req' = Goto(r, "resolve")
      PROVE  RequestMove(own, r) /\ \A p \in Requests : FlightOwned(own, p)'
  <2> DEFINE f == [NoFlight EXCEPT !.st = "open", !.batch = req[r].batch, !.fu = req[r].fu]
             n == [req[r] EXCEPT !.pc = "resolve"]
  <2>1. f.st = "open" /\ f.batch = req[r].batch
    BY DEF NoFlight
  <2>2. req' = [req EXCEPT ![r] = n]
    BY <1>3, Stands DEF Goto
  <2>3. n.pc = "resolve" /\ n.s = req[r].s /\ n.batch = req[r].batch /\ n.ids = req[r].ids
    BY <1>1 DEF Req
  <2> HIDE DEF f, n
  <2>4. flight'[r] = f /\ \A p \in Requests : p # r => flight'[p] = flight[p]
    BY <1>3, Stands DEF f
  <2>5. req'[r] = n /\ \A p \in Requests : p # r => req'[p] = req[p]
    BY <2>2, Stands
  <2>6. ReqOwned(own, r)'
    BY <1>1, <2>1, <2>3, <2>4, <2>5 DEF ReqOwned, Of, Parking
  <2>7. \A p \in Requests : FlightOwned(own, p)'
    BY <2>1, <2>4 DEF OInv, FlightOwned, Of
  <2> QED BY <1>1, <2>3, <2>4, <2>5, <2>6, <2>7 DEF RequestMove
<1> QED BY <1>2, <1>3 DEF BeginFlight

LEMMA FlightWaitedOwned ==
    ASSUME EInv, NEW own, OInv(own), NEW r \in Requests, FlightWaited(r)
    PROVE  RequestMove(own, r)
<1> DEFINE f == flight[req[r].lead]
<1>1. UNCHANGED flight /\ req[r].pc = "wait"
  BY DEF FlightWaited
<1>2. req[r].lead \in Requests
  BY <1>1, RequestIs DEF Where, Req
<1>3. CASE \E label \in {"done", "fallback"} : req' = Goto(r, label)
  BY <1>1, <1>3, GotoOwned DEF Labels, Flying, Parking
<1>4. CASE f.st = "replay" /\ req' = Replayed(r, f.s, f.batch, f.ofFu, f.more)
  <2>1. Of(own, f.batch, f.s) /\ f.s # NoSession
    BY <1>2, <1>4, FlightIs, ConstantsAssumption DEF OInv, FlightOwned, Ordinary
  <2> HIDE DEF f
  <2> QED BY <1>1, <1>4, <2>1, ReplayedOwned
<1> QED BY <1>3, <1>4 DEF FlightWaited

\* A batch that is answered with ids of one session is of that session.
LEMMA ResolvePendingOwned ==
    ASSUME EInv, NEW own, OInv(own), OneSession(own), NEW r \in Requests, ResolvePending(r)
    PROVE  RequestMove(own, r)
<1>1. UNCHANGED flight /\ req[r].pc = "resolve" /\ req[r] \in Req /\ Where(req[r])
  BY RequestIs DEF ResolvePending
<1>2. req[r].s = NoSession /\ req[r].batch \subseteq req[r].ids /\ flight[r].batch = req[r].batch
  BY <1>1 DEF Where, OInv, ReqOwned, Flying
<1>3. CASE req' = Goto(r, "lookup")
  BY <1>1, <1>3, GotoOwned DEF Labels, Flying, Parking
<1>4. ASSUME NEW s \in Pending(req[r].ids), req' = [req EXCEPT ![r].pc = "lookup", ![r].s = s]
      PROVE  RequestMove(own, r)
  <2> DEFINE n == [req[r] EXCEPT !.pc = "lookup", !.s = s]
  <2>1. s \in Sessions /\ file[s] # NoFile /\ file[s].pending # {} /\ file[s].batch \subseteq req[r].ids
    BY <1>4 DEF Pending
  <2>2. file[s].batch # {} /\ Of(own, file[s].batch, s)
    BY <2>1 DEF OInv, FileOwned
  <2>3. Of(own, req[r].ids, s)
    BY <2>1, <2>2 DEF OneSession, Of
  <2>4. req' = [req EXCEPT ![r] = n]
    BY <1>4, Stands
  <2>5. n.pc = "lookup" /\ n.s = s /\ n.batch = req[r].batch
    BY <1>1 DEF Req
  <2> HIDE DEF n
  <2> QED BY <1>1, <1>2, <2>1, <2>3, <2>4, <2>5, RecordOwned, ConstantsAssumption DEF Of, Parking
<1> QED BY <1>3, <1>4 DEF ResolvePending

\* A replay that is found for ids of one session is of that session.
LEMMA LookupReplayOwned ==
    ASSUME EInv, FInv, NEW own, OInv(own), OneSession(own), NEW r \in Requests, LookupReplay(r)
    PROVE  RequestMove(own, r) /\ \A p \in Requests : FlightOwned(own, p)'
<1> DEFINE ids == IF req[r].s = NoSession THEN req[r].ids ELSE req[r].batch
<1>1. req[r].pc = "lookup" /\ req[r] \in Req /\ Where(req[r]) /\ ReqOwned(own, r)
  BY RequestIs DEF LookupReplay, OInv
<1>2. flight[r].batch = req[r].batch /\ req[r].batch \subseteq ids
  BY <1>1 DEF ReqOwned, Flying
<1>3. \A x, y \in ids : own[x] = own[y]
  BY <1>1 DEF ReqOwned, Of, OneSession
<1>4. ASSUME NEW c \in RequestReplays(ids, req[r].fu),
             flight' = EndFlight(r, FlightReplay(c.s, c.batch, c.fu, c.more)),
             req' = Replayed(r, c.s, c.batch, c.fu, c.more)
      PROVE  RequestMove(own, r) /\ \A p \in Requests : FlightOwned(own, p)'
  <2>1. c \in completed /\ c.batch \subseteq ids
    BY <1>4 DEF RequestReplays, Replays
  <2>2. c.batch # {} /\ Of(own, c.batch, c.s) /\ c \in Completed /\ c.s \in Sessions
    BY <2>1, Stands DEF FInv, OInv, Ordinary
  <2>3. Of(own, flight[r].batch, c.s)
    BY <1>2, <1>3, <2>1, <2>2 DEF Of
  <2> DEFINE result == FlightReplay(c.s, c.batch, c.fu, c.more)
  <2>4. result \in Flight /\ result.s = c.s
    <3>1. c.s \in Sessions /\ c.batch \in SUBSET Tools /\ c.fu \in FollowUps /\ c.more \in BOOLEAN
      BY <2>2 DEF Completed
    <3> QED BY <3>1, Results
  <2> HIDE DEF result
  <2>5. /\ \A p \in Requests : flight'[p].batch = flight[p].batch
        /\ \A p \in Requests : FlightOwned(own, p)'
    BY <1>4, <2>3, <2>4, EndedFlight DEF result
  <2>6. c.s # NoSession
    BY <2>2, ConstantsAssumption
  <2> QED BY <1>4, <2>2, <2>5, <2>6, ReplayedOwned
<1>5. CASE UNCHANGED flight /\ req' = Goto(r, "active")
  BY <1>1, <1>5, GotoOwned, FlightsStay DEF Labels, Flying, Parking
<1>6. CASE UNCHANGED flight /\ req' = FailsNotPending(r)
  <2> DEFINE n == [req[r] EXCEPT !.pc = "fail", !.then = "fallback"]
  <2>1. req' = [req EXCEPT ![r] = n]
    BY <1>6, Stands DEF FailsNotPending
  <2>2. n.pc = "fail" /\ n.s = req[r].s /\ n.batch = req[r].batch /\ n.ids = req[r].ids /\ n.mode = req[r].mode
    BY <1>1 DEF Req
  <2> HIDE DEF n
  <2> QED BY <1>6, <2>1, <2>2, SameOwned, FlightsStay DEF Flying, Parking
<1> QED BY <1>4, <1>5, <1>6 DEF LookupReplay

LEMMA ResumeOwned ==
    ASSUME EInv, FInv, NEW own, OInv(own), OneSession(own), NEW r \in Requests, ResumeStep(r)
    PROVE  RequestMove(own, r) /\ \A p \in Requests : FlightOwned(own, p)'
<1> USE DEF Labels, Flying, Parking
<1>1. req[r] \in Req /\ Where(req[r])
  BY RequestIs
<1>2. ASSUME NEW n, req' = [req EXCEPT ![r] = n], UNCHANGED flight,
             n.pc \notin {"idle", "begin"} \cup Parking,
             n.s = req[r].s, n.batch = req[r].batch, n.ids = req[r].ids,
             n.pc \in Flying \/ n.mode = "cold" => req[r].pc \in Flying \/ req[r].mode = "cold"
      PROVE  RequestMove(own, r) /\ \A p \in Requests : FlightOwned(own, p)'
  BY <1>2, SameOwned, FlightsStay
<1>3. ASSUME NEW label \in Labels \ ({"idle", "begin"} \cup Parking), req' = Goto(r, label), UNCHANGED flight,
             label \in Flying => req[r].pc \in Flying \/ req[r].mode = "cold"
      PROVE  RequestMove(own, r) /\ \A p \in Requests : FlightOwned(own, p)'
  BY <1>3, GotoOwned, FlightsStay
<1>4. CASE BeginFlight(r) \/ LookupReplay(r)
  BY <1>4, BeginFlightOwned, LookupReplayOwned
<1>5. CASE FlightWaited(r) \/ ResolvePending(r)
  <2>1. UNCHANGED flight
    BY <1>5 DEF FlightWaited, ResolvePending
  <2> QED BY <1>5, <2>1, FlightWaitedOwned, ResolvePendingOwned, FlightsStay
<1>6. CASE ReadActive(r)
  <2> DEFINE t == active[req[r].s]
             n == [req[r] EXCEPT !.run = t, !.mode = IF t = NoToken THEN "cold" ELSE @,
                                 !.pc = IF t = NoToken THEN "cold" ELSE "bind"]
  <2>1. req' = [req EXCEPT ![r] = n] /\ UNCHANGED flight /\ req[r].pc = "active"
    BY <1>6, Stands DEF ReadActive
  <2>2. n.pc \in {"cold", "bind"} /\ n.s = req[r].s /\ n.batch = req[r].batch /\ n.ids = req[r].ids
    BY <1>1 DEF Req
  <2> HIDE DEF n
  <2> QED BY <1>2, <2>1, <2>2
<1>7. CASE BindFlight(r) \/ ResumeBilling(r) \/ ResumeAttach(r) \/ ResumePush(r) \/ ColdRun(r)
  BY <1>3, <1>7 DEF BindFlight, ResumeBilling, ResumeAttach, ResumePush, ColdRun, StartClaimed, Attached
<1>8. ASSUME req' = FailsNotPending(r), UNCHANGED flight
      PROVE  RequestMove(own, r) /\ \A p \in Requests : FlightOwned(own, p)'
  <2> DEFINE n == [req[r] EXCEPT !.pc = "fail", !.then = "fallback"]
  <2>1. req' = [req EXCEPT ![r] = n]
    BY <1>8, Stands DEF FailsNotPending
  <2>2. n.pc = "fail" /\ n.s = req[r].s /\ n.batch = req[r].batch /\ n.ids = req[r].ids /\ n.mode = req[r].mode
    BY <1>1 DEF Req
  <2> HIDE DEF n
  <2> QED BY <1>2, <1>8, <2>1, <2>2
<1>9. CASE ResumeChecks(r)
  <2> DEFINE n == [req[r] EXCEPT !.pc = "billing", !.res = run[req[r].run].pend]
  <2>1. UNCHANGED flight /\ (req' = Goto(r, "fail") \/ req' = [req EXCEPT ![r] = n] \/ req' = FailsNotPending(r))
    BY <1>9, Stands DEF ResumeChecks
  <2>2. n.pc = "billing" /\ n.s = req[r].s /\ n.batch = req[r].batch /\ n.ids = req[r].ids /\ n.mode = req[r].mode
    BY <1>1 DEF Req
  <2> HIDE DEF n
  <2> QED BY <1>2, <1>3, <1>8, <2>1, <2>2
<1>10. CASE ColdMismatch(r)
  BY <1>10, GiveUpClaimOwned, FlightsStay DEF ColdMismatch
<1>11. CASE ResumeFails(r)
  <2> DEFINE result == IF req[r].then = "fallback" THEN FlightNotPending ELSE FlightError
  <2>1. flight' = EndFlight(r, result) /\ result \in Flight /\ result.st # "replay"
    BY <1>11, Results DEF ResumeFails
  <2>2. /\ \A p \in Requests : flight'[p].batch = flight[p].batch
        /\ \A p \in Requests : FlightOwned(own, p)'
    BY <2>1, EndedFlight
  <2>3. \E label \in {"done", "fallback", "unreserve"} : req' = Goto(r, label)
    BY <1>1, <1>11 DEF ResumeFails, Where
  <2> QED BY <2>2, <2>3, GotoOwned
<1> QED BY <1>4, <1>5, <1>6, <1>7, <1>9, <1>10, <1>11 DEF ResumeStep

LEMMA FollowOwned ==
    ASSUME EInv, NEW own, OInv(own), NEW r \in Requests, FollowStep(r) PROVE RequestMove(own, r)
<1> USE DEF Labels, Flying, Parking
<1>1. req[r] \in Req /\ UNCHANGED flight
  BY RequestIs DEF FollowStep, FollowLookup, FollowClaimed, FollowRun, FollowAwaits, StartClaimed
<1>2. CASE FollowLookup(r)
  <2> DEFINE n == [req[r] EXCEPT !.pc = "unreserve", !.then = "done"]
  <2>1. req' = [req EXCEPT ![r] = n] \/ req' = Goto(r, "claim")
    BY <1>2, Stands DEF FollowLookup
  <2>2. n.pc = "unreserve" /\ n.s = req[r].s /\ n.batch = req[r].batch /\ n.ids = req[r].ids /\ n.mode = req[r].mode
    BY <1>1 DEF Req
  <2> HIDE DEF n
  <2> QED BY <1>1, <2>1, <2>2, SameOwned, GotoOwned
<1>3. CASE FollowClaimed(r)
  BY <1>1, <1>3, GiveUpClaimOwned, GotoOwned DEF FollowClaimed
<1>4. CASE FollowRun(r) \/ \E timeout \in BOOLEAN : FollowAwaits(r, timeout)
  BY <1>1, <1>4, GotoOwned DEF FollowRun, FollowAwaits, StartClaimed
<1> QED BY <1>2, <1>3, <1>4 DEF FollowStep

LEMMA ParkCancelOwned ==
    ASSUME EInv, NEW own, OInv(own), NEW r \in Requests, ParkCancelStep(r)
    PROVE  RequestMove(own, r) /\ \A p \in Requests : FlightOwned(own, p)'
<1> USE DEF Labels, Flying, Parking
<1>1. req[r] \in Req /\ Where(req[r]) /\ ReqOwned(own, r)
  BY RequestIs DEF OInv
<1>2. ASSUME NEW label \in Labels \ ({"idle", "begin"} \cup Flying), req' = Goto(r, label), UNCHANGED flight,
             label \in Parking => req[r].pc \in Parking
      PROVE  RequestMove(own, r) /\ \A p \in Requests : FlightOwned(own, p)'
  BY <1>2, GotoOwned, FlightsStay
<1>3. CASE Park(r)
  <2> DEFINE t == active[req[r].s]
             pc == IF run[t].seg = {} THEN "parkClose" ELSE "parkSave"
             n == [req[r] EXCEPT !.pc = pc, !.run = t, !.took = run[t].out, !.seg = run[t].seg, !.segFu = run[t].fu]
  <2>1. req[r].pc = "park" /\ req[r].s \in Sessions /\ req[r].then \in {"done", "drainParked"} /\ UNCHANGED flight
    BY <1>1, <1>3 DEF Park, Where
  <2>2. \/ req' = Goto(r, req[r].then) \/ req' = Goto(r, "cancel")
        \/ t # NoToken /\ req' = [req EXCEPT ![r] = n]
    BY <1>3, Stands DEF Park
  <2>3. n.pc = pc /\ n.s = req[r].s /\ n.batch = req[r].batch /\ n.ids = req[r].ids /\ n.mode = req[r].mode
        /\ n.seg = run[t].seg
    BY <1>1 DEF Req
  <2>4. t # NoToken => Of(own, run[t].seg, req[r].s)
    <3>1. t # NoToken => t \in Tokens /\ lease[t].session = req[r].s /\ run[t].ph # "none"
      BY <2>1, Stands DEF EInv, MInv, ActiveOK
    <3> QED BY <3>1 DEF OInv, RunOwned
  <2> HIDE DEF n, t
  <2>5. ASSUME t # NoToken, req' = [req EXCEPT ![r] = n] PROVE RequestMove(own, r)
    BY <1>1, <2>1, <2>3, <2>4, <2>5, RecordOwned DEF ReqOwned
  <2> QED BY <1>2, <2>1, <2>2, <2>5, FlightsStay
<1>4. CASE ParkSaves(r) \/ CancelDeletes(r) \/ CancelStops(r) \/ CancelReleases(r)
  BY <1>2, <1>4 DEF ParkSaves, CancelDeletes, CancelStops, CancelReleases
<1>5. CASE ParkCloses(r)
  <2>1. req[r].then \in {"done", "drainParked"} /\ UNCHANGED flight
    BY <1>1, <1>5 DEF ParkCloses, Where, ParkTail
  <2> QED BY <1>2, <1>5, <2>1 DEF ParkCloses
<1>6. CASE ParkLands(r)
  <2> DEFINE t == req[r].run
             result == IF req[r].pc = "parkFail" THEN FlightError
                       ELSE FlightReplay(lease[t].session, req[r].seg, req[r].segFu, TRUE)
  <2>1. t \in Tokens /\ run[t].ph # "none"
    BY <1>6, RequestIs DEF ParkLands, RequestHolds, Bound, ParkTail
  <2>2. lease[t].session \in Sessions /\ run[t].flight \in Requests \cup {NoReq}
    BY <2>1, RunIs DEF Run
  <2>3. req[r].seg \in SUBSET Tools /\ req[r].segFu \in FollowUps
    BY <1>1 DEF Req
  <2>4. result \in Flight /\ (result.st = "replay" => result.s = lease[t].session)
    BY <2>2, <2>3, Results
  <2>5. run[t].flight # NoReq => Of(own, flight[run[t].flight].batch, lease[t].session)
    BY <2>1 DEF OInv, RunOwned
  <2>6. flight' = EndFlight(run[t].flight, result)
    BY <1>6 DEF ParkLands
  <2> HIDE DEF t, result
  <2>7. /\ \A p \in Requests : flight'[p].batch = flight[p].batch
        /\ \A p \in Requests : FlightOwned(own, p)'
    BY <2>2, <2>4, <2>5, <2>6, EndedFlight
  <2>8. req' = Goto(r, "cancel") \/ req' = Goto(r, "parkClose")
    BY <1>6 DEF ParkLands
  <2> QED BY <2>7, <2>8, GotoOwned
<1>7. CASE Cancel(r)
  <2> DEFINE t == active[req[r].s]
             n == [req[r] EXCEPT !.pc = "cancelDelete", !.run = t, !.took = run[t].out]
  <2>1. UNCHANGED flight /\ (req' = Goto(r, "done") \/ req' = [req EXCEPT ![r] = n]) /\ req[r].pc = "cancel"
    BY <1>7, Stands DEF Cancel
  <2>2. n.pc = "cancelDelete" /\ n.s = req[r].s /\ n.batch = req[r].batch /\ n.ids = req[r].ids
        /\ n.mode = req[r].mode
    BY <1>1 DEF Req
  <2> HIDE DEF n, t
  <2> QED BY <1>2, <2>1, <2>2, SameOwned, FlightsStay
<1> QED BY <1>3, <1>4, <1>5, <1>6, <1>7 DEF ParkCancelStep

\* Executor.prepare: a submission is answered by its own ids, or by the batch
\* of a session that they cover.
LEMMA ReadOwned ==
    ASSUME EInv, NEW own, OInv(own), NEW r \in Requests, ReadStep(r) \/ ClientStep(r)
    PROVE  RequestMove(own, r)
<1> USE DEF Labels, Flying, Parking
<1>1. req[r] \in Req /\ Where(req[r]) /\ UNCHANGED flight
  BY RequestIs DEF ReadStep, ClientStep, Fallback, ReadTurnEnded, ReadEnd, ReadParked, BeginStart, BeginResume, GiveUp
<1>2. CASE Fallback(r)
  <2>1. ASSUME NEW s, req' = [req EXCEPT ![r] = [IdleReq EXCEPT !.pc = "reserve", !.s = s]]
        PROVE  RequestMove(own, r)
    <3> DEFINE n == [IdleReq EXCEPT !.pc = "reserve", !.s = s]
    <3>1. n.pc = "reserve" /\ n.batch = {} /\ n.ids = {} /\ n.mode = "start"
      BY DEF IdleReq
    <3>2. req' = [req EXCEPT ![r] = n]
      BY <2>1
    <3> HIDE DEF n
    <3> QED BY <1>1, <3>1, <3>2, RecordOwned DEF Of
  <2> QED BY <1>1, <1>2, <2>1, GotoOwned DEF Fallback
<1>3. CASE ReadTurnEnded(r)
  <2> DEFINE then == IF req[r].pc = "drain" THEN "drainParked" ELSE "done"
             n == [req[r] EXCEPT !.pc = "park", !.then = then]
  <2>1. req' = [req EXCEPT ![r] = n]
    BY <1>3, Stands DEF ReadTurnEnded
  <2>2. n.pc = "park" /\ n.s = req[r].s /\ n.batch = req[r].batch /\ n.ids = req[r].ids /\ n.mode = req[r].mode
    BY <1>1 DEF Req
  <2> HIDE DEF n
  <2> QED BY <1>1, <2>1, <2>2, SameOwned
<1>4. CASE ReadEnd(r)
  <2> DEFINE n == [req[r] EXCEPT !.pc = "follow", !.mode = "follow"]
  <2>1. req' = [req EXCEPT ![r] = n] \/ req' = Goto(r, "done")
    BY <1>4, Stands DEF ReadEnd
  <2>2. n.pc = "follow" /\ n.s = req[r].s /\ n.batch = req[r].batch /\ n.ids = req[r].ids /\ n.mode = "follow"
    BY <1>1 DEF Req
  <2> HIDE DEF n
  <2> QED BY <1>1, <2>1, <2>2, SameOwned, GotoOwned
<1>5. CASE ReadParked(r) \/ GiveUp(r)
  BY <1>1, <1>5, GotoOwned DEF ReadParked, GiveUp
<1>6. ASSUME NEW s \in Sessions, BeginStart(r, s) PROVE RequestMove(own, r)
  <2> DEFINE pc == IF s \in HistorySessions THEN "start" ELSE "reserve"
             n == [req[r] EXCEPT !.pc = pc, !.s = s]
  <2>1. req' = [req EXCEPT ![r] = n] /\ req[r] = IdleReq
    BY <1>1, <1>6, Stands DEF BeginStart, Where
  <2>2. n.pc = pc /\ n.batch = {} /\ n.ids = {} /\ n.mode = "start"
    BY <2>1 DEF IdleReq
  <2> HIDE DEF n
  <2> QED BY <1>1, <2>1, <2>2, RecordOwned DEF Of
<1>7. ASSUME NEW ids \in SUBSET Tools, NEW fu \in FollowUps, BeginResume(r, ids, fu) PROVE RequestMove(own, r)
  <2>1. req[r] = IdleReq /\ req[r].pc = "idle"
    BY <1>1, <1>7 DEF BeginResume, Where
  <2>2. \A batch \in OriginalPendingBatch(ids) : batch \subseteq ids
    BY DEF OriginalPendingBatch, Pending
  <2>3. ASSUME NEW batch \in OriginalPendingBatch(ids),
               req' = [req EXCEPT ![r].pc = "begin", ![r].ids = ids, ![r].batch = batch, ![r].fu = fu]
        PROVE  RequestMove(own, r)
    <3> DEFINE n == [req[r] EXCEPT !.pc = "begin", !.ids = ids, !.batch = batch, !.fu = fu]
    <3>1. req' = [req EXCEPT ![r] = n]
      BY <2>3, Stands
    <3>2. n.pc = "begin" /\ n.s = NoSession /\ n.batch = batch /\ n.ids = ids /\ n.mode = "start"
      BY <2>1 DEF IdleReq
    <3> HIDE DEF n
    <3> QED BY <1>1, <2>1, <2>2, <2>3, <3>1, <3>2, RecordOwned
  <2> QED BY <1>1, <1>7, <2>3, GotoOwned DEF BeginResume
<1> QED BY <1>2, <1>3, <1>4, <1>5, <1>6, <1>7 DEF ReadStep, ClientStep

-----------------------------------------------------------------------------
(***************************************************************************)
(* Runs under the steps of requests.                                       *)
(***************************************************************************)
\* What run t has after the step is of its session.
RunGets(own, t) ==
    run'[t].ph # "none" =>
        /\ lease[t].st \in {"owned", "released"}
        /\ Of(own, run'[t].pend, lease[t].session) /\ Of(own, run'[t].seg, lease[t].session)
        /\ \/ run'[t].flight = NoReq
           \/ run[t].ph # "none" /\ run'[t].flight = run[t].flight
           \/ \E r \in Requests : /\ run'[t].flight = r /\ req[r].pc \notin {"idle", "begin"}
                                  /\ Of(own, flight[r].batch, lease[t].session)

\* Requests that have begun stay begun, with the batch of their flight.
Frame ==
    \A q \in Requests : req[q].pc \notin {"idle", "begin"} =>
        req'[q].pc \notin {"idle", "begin"} /\ flight'[q].batch = flight[q].batch

LEMMA RunsOwned ==
    ASSUME EInv, NEW own, OInv(own), Frame, NEW t \in Tokens, LeaseMove(t), RunGets(own, t)
    PROVE  RunOwned(own, t)'
<1> SUFFICES ASSUME run'[t].ph # "none" PROVE RunOwned(own, t)'
  BY DEF RunOwned
<1>1. lease'[t].session = lease[t].session
  BY DEF RunGets, LeaseMove, NoLease
<1>2. ASSUME NEW r \in Requests, run'[t].flight = r, req[r].pc \notin {"idle", "begin"},
             Of(own, flight[r].batch, lease[t].session)
      PROVE  RunOwned(own, t)'
  BY <1>1, <1>2 DEF RunGets, Frame, RunOwned, Of
<1>3. CASE run[t].ph # "none" /\ run'[t].flight = run[t].flight /\ run[t].flight # NoReq
  <2>1. run[t].flight \in Requests
    BY <1>3, RunIs DEF Run
  <2> QED BY <1>2, <1>3, <2>1 DEF OInv, RunOwned
<1>4. CASE run'[t].flight = NoReq
  BY <1>1, <1>4 DEF RunGets, RunOwned, Of
<1> QED BY <1>2, <1>3, <1>4 DEF RunGets

LEMMA KeptGets ==
    ASSUME EInv, NEW own, OInv(own), NEW t \in Tokens, run'[t] = run[t] PROVE RunGets(own, t)
BY RunIs DEF RunOK, RunGets, OInv, RunOwned

\* One run changes.
LEMMA OneRunGets ==
    ASSUME EInv, NEW own, OInv(own), NEW t \in Tokens, NEW m, run' = [run EXCEPT ![t] = m],
           lease[t].st \in {"owned", "released"}, Of(own, m.pend, lease[t].session), Of(own, m.seg, lease[t].session),
           \/ m.flight = NoReq
           \/ run[t].ph # "none" /\ m.flight = run[t].flight
           \/ \E r \in Requests : /\ m.flight = r /\ req[r].pc \notin {"idle", "begin"}
                                  /\ Of(own, flight[r].batch, lease[t].session)
    PROVE  \A u \in Tokens : RunGets(own, u)
<1>1. run'[t] = m /\ \A u \in Tokens : u # t => run'[u] = run[u]
  BY Stands
<1>2. RunGets(own, t)
  BY <1>1 DEF RunGets
<1> QED BY <1>1, <1>2, KeptGets

\* A run that has begun, and gets nothing.
LEMMA SameGets ==
    ASSUME EInv, NEW own, OInv(own), NEW t \in Tokens, run[t].ph # "none", NEW m, run' = [run EXCEPT ![t] = m],
           m.pend \subseteq run[t].pend, m.seg \in {run[t].seg, {}}, m.flight \in {run[t].flight, NoReq}
    PROVE  \A u \in Tokens : RunGets(own, u)
<1>1. lease[t].st \in {"owned", "released"} /\ RunOwned(own, t)
  BY RunIs DEF RunOK, OInv
<1> QED BY <1>1, OneRunGets DEF RunOwned, Of

LEMMA StartClaimedGets ==
    ASSUME EInv, NEW own, OInv(own), NEW r \in Requests, req[r].pc \in {"claimed", "launch"},
           NEW new \in Run, NEW next, StartClaimed(r, new, next), new.flight = NoReq,
           Of(own, new.pend, req[r].s), Of(own, new.seg, req[r].s)
    PROVE  \A u \in Tokens : RunGets(own, u)
<1> DEFINE t == req[r].run
           m == [new EXCEPT !.ph = "running", !.out = r]
<1>1. t \in Tokens /\ lease[t].session = req[r].s /\ lease[t].st = "owned"
  BY RequestIs DEF RequestHolds, Claiming
<1>2. m.pend = new.pend /\ m.seg = new.seg /\ m.flight = NoReq
  BY DEF Run
<1>3. run' = [run EXCEPT ![t] = m]
  BY DEF StartClaimed
<1> HIDE DEF t, m
<1> QED BY <1>1, <1>2, <1>3, OneRunGets

LEMMA StartGets ==
    ASSUME EInv, NEW own, OInv(own), NEW r \in Requests, StartStep(r)
    PROVE  \A u \in Tokens : RunGets(own, u)
<1>1. CASE StartRun(r)
  <2>1. NoRun \in Run /\ NoRun.flight = NoReq /\ NoRun.pend = {} /\ NoRun.seg = {}
    BY NoRunIs DEF NoRun
  <2> QED BY <1>1, <2>1, StartClaimedGets DEF StartRun, Of
<1>2. CASE ~StartRun(r)
  BY <1>2, KeptGets DEF StartStep, StartLookup, Reserve, Unreserve, ClaimHeld, ClaimAcquire, ClaimReturns, ClaimCommits
<1> QED BY <1>1, <1>2

LEMMA ResumeGets ==
    ASSUME EInv, NEW own, OInv(own), NEW r \in Requests, ResumeStep(r)
    PROVE  \A u \in Tokens : RunGets(own, u)
<1>1. req[r] \in Req /\ Where(req[r]) /\ ReqOwned(own, r)
  BY RequestIs DEF OInv
<1>2. CASE UNCHANGED run
  BY <1>2, KeptGets
<1>3. CASE ColdRun(r)
  <2> DEFINE f == file[req[r].s]
             seg == IF f.batch \subseteq req[r].batch THEN f.batch ELSE req[r].batch
             new == [NoRun EXCEPT !.pend = f.pending, !.queue = f.pending, !.seg = seg]
  <2>1. req[r].pc = "claimed" /\ StartClaimed(r, new, "bindCold")
    BY <1>3 DEF ColdRun
  <2>2. f # NoFile /\ req[r].s \in Sessions /\ req[r].s # NoSession
    BY <2>1, RequestIs DEF RequestHolds, Where
  <2>3. f \in File
    BY <2>2, Stands
  <2>4. Of(own, f.pending, req[r].s) /\ Of(own, seg, req[r].s)
    BY <1>1, <2>2 DEF OInv, FileOwned, ReqOwned
  <2>5. f.pending \in SUBSET Tools /\ seg \in SUBSET Tools
    BY <1>1, <2>3 DEF File, Req
  <2> HIDE DEF f, seg
  <2>6. NoRun \in Run /\ NoRun.flight = NoReq
    BY NoRunIs DEF NoRun
  <2>7. new \in Run /\ new.flight = NoReq /\ new.pend = f.pending /\ new.seg = seg
    BY <2>5, <2>6 DEF Run
  <2> HIDE DEF new
  <2> QED BY <2>1, <2>4, <2>7, StartClaimedGets
<1>4. CASE BindFlight(r) /\ ~UNCHANGED run
  <2> DEFINE t == active[req[r].s]
             m == [run[t] EXCEPT !.flight = r]
  <2>1. t # NoToken /\ run' = [run EXCEPT ![t] = m] /\ req[r].pc \in {"bind", "bindCold"}
    BY <1>4, Stands DEF BindFlight
  <2>2. req[r].s \in Sessions /\ req[r].s # NoSession
    BY <1>1, <2>1, RequestIs DEF Where
  <2>3. t \in Tokens /\ lease[t].session = req[r].s /\ run[t].ph # "none"
    BY <2>1, <2>2, Stands DEF EInv, MInv, ActiveOK
  <2>4. lease[t].st \in {"owned", "released"} /\ RunOwned(own, t) /\ run[t] \in Run
    BY <2>3, RunIs DEF RunOK, OInv
  <2>5. m.pend = run[t].pend /\ m.seg = run[t].seg /\ m.flight = r
    BY <2>4 DEF Run
  <2>6. Of(own, flight[r].batch, req[r].s)
    BY <1>1, <2>1, <2>2 DEF ReqOwned, Flying
  <2> HIDE DEF t, m
  <2> QED BY <2>1, <2>3, <2>4, <2>5, <2>6, OneRunGets DEF RunOwned
<1>5. CASE ResumeAttach(r) /\ ~UNCHANGED run
  <2> DEFINE t == req[r].run
             m == [run[t] EXCEPT !.out = r, !.seg = req[r].batch, !.fu = NoFollowUp]
  <2>1. run' = [run EXCEPT ![t] = m] /\ req[r].pc = "attach"
    BY ZenonT(60), <1>5, Stands DEF ResumeAttach
  <2>2. t \in Tokens /\ lease[t].session = req[r].s /\ run[t].ph # "none" /\ req[r].s \in Sessions
    BY <2>1, BoundIs DEF Bound, Resuming
  <2>3. lease[t].st \in {"owned", "released"} /\ RunOwned(own, t) /\ run[t] \in Run /\ req[r].s # NoSession
    BY <2>2, RunIs, ConstantsAssumption DEF RunOK, OInv
  <2>4. m.pend = run[t].pend /\ m.seg = req[r].batch /\ m.flight = run[t].flight
    BY <2>3 DEF Run
  <2> HIDE DEF t, m
  <2> QED BY <1>1, <2>1, <2>2, <2>3, <2>4, OneRunGets DEF RunOwned, ReqOwned
<1>6. CASE ResumePush(r)
  <2> DEFINE t == req[r].run
             m == [run[t] EXCEPT !.queue = @ \cup req[r].res]
  <2>1. run' = [run EXCEPT ![t] = m] /\ req[r].pc = "push"
    BY <1>6, Stands DEF ResumePush
  <2>2. t \in Tokens /\ run[t].ph # "none"
    BY <2>1, BoundIs DEF Bound, Resuming
  <2>3. m.pend = run[t].pend /\ m.seg = run[t].seg /\ m.flight = run[t].flight
    BY <2>2, Stands DEF Run
  <2> HIDE DEF t, m
  <2> QED BY <2>1, <2>2, <2>3, SameGets
<1> QED BY <1>2, <1>3, <1>4, <1>5, <1>6 DEF ResumeStep, BeginFlight, FlightWaited, ResolvePending, LookupReplay,
       ReadActive, ResumeChecks, ResumeBilling, ColdMismatch, ResumeFails

LEMMA FollowGets ==
    ASSUME EInv, NEW own, OInv(own), NEW r \in Requests, FollowStep(r)
    PROVE  \A u \in Tokens : RunGets(own, u)
<1>1. CASE FollowRun(r)
  <2> DEFINE new == [NoRun EXCEPT !.seg = req[r].batch, !.fu = req[r].fu]
  <2>1. req[r].pc = "launch" /\ StartClaimed(r, new, "consume")
    BY <1>1 DEF FollowRun
  <2>2. req[r] \in Req /\ req[r].s \in Sessions /\ req[r].s # NoSession
    BY <2>1, RequestIs DEF Where
  <2>3. NoRun \in Run /\ NoRun.flight = NoReq /\ NoRun.pend = {}
    BY NoRunIs DEF NoRun
  <2>4. new \in Run /\ new.flight = NoReq /\ new.pend = {} /\ new.seg = req[r].batch
    BY <2>2, <2>3 DEF Run, Req
  <2>5. Of(own, req[r].batch, req[r].s)
    BY <2>2 DEF OInv, ReqOwned
  <2> HIDE DEF new
  <2> QED BY <2>1, <2>4, <2>5, StartClaimedGets DEF Of
<1>2. CASE ~FollowRun(r)
  BY <1>2, KeptGets DEF FollowStep, FollowLookup, FollowClaimed, FollowAwaits
<1> QED BY <1>1, <1>2

LEMMA ParkCancelGets ==
    ASSUME EInv, NEW own, OInv(own), NEW r \in Requests, ParkCancelStep(r)
    PROVE  \A u \in Tokens : RunGets(own, u)
<1>1. CASE UNCHANGED run
  BY <1>1, KeptGets
<1>2. ASSUME NEW t \in Tokens, run[t].ph # "none",
             \/ run' = [run EXCEPT ![t].out = NoReq, ![t].seg = {}]
             \/ run' = [run EXCEPT ![t].closed = TRUE, ![t].out = NoReq]
             \/ run' = [run EXCEPT ![t].flight = NoReq]
             \/ run' = [run EXCEPT ![t].cancelled = TRUE]
      PROVE  \A u \in Tokens : RunGets(own, u)
  <2> DEFINE a == [run[t] EXCEPT !.out = NoReq, !.seg = {}]
             b == [run[t] EXCEPT !.closed = TRUE, !.out = NoReq]
             c == [run[t] EXCEPT !.flight = NoReq]
             d == [run[t] EXCEPT !.cancelled = TRUE]
  <2>1. \/ run' = [run EXCEPT ![t] = a] \/ run' = [run EXCEPT ![t] = b]
        \/ run' = [run EXCEPT ![t] = c] \/ run' = [run EXCEPT ![t] = d]
    BY <1>2, Stands
  <2>2. run[t] \in Run
    BY Stands
  <2>3. /\ a.pend = run[t].pend /\ a.seg = {} /\ a.flight = run[t].flight
        /\ b.pend = run[t].pend /\ b.seg = run[t].seg /\ b.flight = run[t].flight
    BY <2>2 DEF Run
  <2>4. /\ c.pend = run[t].pend /\ c.seg = run[t].seg /\ c.flight = NoReq
        /\ d.pend = run[t].pend /\ d.seg = run[t].seg /\ d.flight = run[t].flight
    BY <2>2 DEF Run
  <2> HIDE DEF a, b, c, d
  <2>5. CASE run' = [run EXCEPT ![t] = a]
    BY <1>2, <2>3, <2>5, SameGets
  <2>6. CASE run' = [run EXCEPT ![t] = b]
    BY <1>2, <2>3, <2>6, SameGets
  <2>7. CASE run' = [run EXCEPT ![t] = c]
    BY <1>2, <2>4, <2>7, SameGets
  <2>8. CASE run' = [run EXCEPT ![t] = d]
    BY <1>2, <2>4, <2>8, SameGets
  <2> QED BY <2>1, <2>5, <2>6, <2>7, <2>8
<1>3. CASE (Park(r) \/ Cancel(r)) /\ ~UNCHANGED run
  <2> DEFINE t == active[req[r].s]
  <2>1. req[r].pc \in {"park", "cancel"} /\ t # NoToken
    BY <1>3 DEF Park, Cancel
  <2>2. req[r].s \in Sessions
    BY <2>1, RequestIs DEF Where
  <2>3. t \in Tokens /\ run[t].ph # "none"
    BY <2>1, <2>2, Stands DEF EInv, MInv, ActiveOK
  <2> QED BY <1>2, <1>3, <2>3 DEF Park, Cancel
<1>4. CASE ParkLands(r) \/ CancelStops(r)
  <2>1. req[r].run \in Tokens /\ run[req[r].run].ph # "none"
    BY <1>4, BoundIs DEF ParkLands, CancelStops, Bound, ParkTail, Canceling
  <2> QED BY <1>2, <1>4, <2>1 DEF ParkLands, CancelStops
<1> QED BY <1>1, <1>3, <1>4 DEF ParkCancelStep, ParkSaves, ParkCloses, CancelDeletes, CancelReleases

-----------------------------------------------------------------------------
(***************************************************************************)
(* Files and replays under the steps of requests.                          *)
(***************************************************************************)
RepliesOwned(own) == \A c \in completed : Of(own, c.batch, c.s)

LEMMA SavedOwned ==
    ASSUME NEW own, OInv(own), NEW s, NEW batch, NEW fu, NEW more, completed' = WithReplay(s, batch, fu, more),
           Of(own, batch, s)
    PROVE  RepliesOwned(own)'
BY DEF OInv, RepliesOwned, WithReplay, Of

LEMMA StoredSame ==
    ASSUME NEW own, OInv(own), UNCHANGED <<file, completed>>
    PROVE  (\A s \in Sessions : FileOwned(own, s)') /\ RepliesOwned(own)'
BY DEF OInv, FileOwned, RepliesOwned, Of

LEMMA StartStores ==
    ASSUME EInv, NEW own, OInv(own), NEW r \in Requests, StartStep(r)
    PROVE  (\A s \in Sessions : FileOwned(own, s)') /\ RepliesOwned(own)'
<1>1. CASE ClaimReturns(r) \/ ClaimCommits(r)
  <2> DEFINE t == req[r].run
  <2>1. req[r].pc = "claiming" /\ completed' = completed
    BY <1>1 DEF ClaimReturns, ClaimCommits
  <2>2. t \in Tokens /\ lease[t].session \in Sessions
    BY <2>1, RequestIs DEF RequestHolds, Where, Claiming
  <2>3. \E o, metered : ClaimReplay(t) \/ ClaimRefused(t, o) \/ ClaimCommitted(t, o, TRUE, metered, TRUE)
    BY <1>1 DEF ClaimReturns, ClaimCommits
  <2> HIDE DEF t
  <2>4. \A s \in Sessions : FileKept(s)
    BY <2>2, <2>3, ClaimKeepsFiles
  <2> QED BY <2>1, <2>4, FilesKept DEF OInv, RepliesOwned, Of
<1>2. CASE ~(ClaimReturns(r) \/ ClaimCommits(r))
  <2>1. UNCHANGED <<file, completed>>
    BY <1>2 DEF StartStep, StartLookup, Reserve, Unreserve, ClaimHeld, ClaimAcquire, Acquire, StartRun, StartClaimed,
       vars
  <2> QED BY <2>1, StoredSame
<1> QED BY <1>1, <1>2

\* An operation of the owner that saves no pending tools.
LEMMA OwnerStores ==
    ASSUME EInv, NEW own, OInv(own), NEW t \in Tokens, NEW some, UNCHANGED completed,
           \/ SaveUsageCarry(t, some) \/ SetBillingRunID(t) \/ SaveCompleted(t, some) \/ SaveHistory(t)
           \/ Delete(t) \/ Release(t)
    PROVE  (\A s \in Sessions : FileOwned(own, s)') /\ RepliesOwned(own)'
BY OwnerKeepsFiles, FilesKept DEF OInv, RepliesOwned, Of

LEMMA ResumeStores ==
    ASSUME EInv, NEW own, OInv(own), NEW r \in Requests, ResumeStep(r) \/ FollowStep(r)
    PROVE  (\A s \in Sessions : FileOwned(own, s)') /\ RepliesOwned(own)'
<1>1. UNCHANGED completed
  BY DEF ResumeStep, BeginFlight, FlightWaited, ResolvePending, LookupReplay, ReadActive, BindFlight, ResumeChecks,
     ResumeBilling, ResumeAttach, ResumePush, ColdRun, ColdMismatch, ResumeFails, StartClaimed,
     FollowStep, FollowLookup, FollowClaimed, FollowRun, FollowAwaits
<1>2. CASE UNCHANGED vars
  BY <1>1, <1>2, StoredSame DEF vars
<1>3. CASE ~UNCHANGED vars
  <2>1. /\ req[r].pc \in {"billing", "claimed"}
        /\ \/ SetBillingRunID(req[r].run) \/ Release(req[r].run)
           \/ \E some \in BOOLEAN : SaveUsageCarry(req[r].run, some)
    BY <1>3 DEF ResumeStep, BeginFlight, FlightWaited, ResolvePending, LookupReplay, ReadActive, BindFlight,
       ResumeChecks, ResumeBilling, ResumeAttach, ResumePush, ColdRun, ColdMismatch, ResumeFails, StartClaimed,
       FollowStep, FollowLookup, FollowClaimed, FollowRun, FollowAwaits
  <2>2. req[r].run \in Tokens
    BY <2>1, RequestIs DEF RequestHolds, Bound, Resuming, Claiming
  <2> QED BY <1>1, <2>1, <2>2, OwnerStores
<1> QED BY <1>2, <1>3

LEMMA ParkCancelStores ==
    ASSUME EInv, NEW own, OInv(own), NEW r \in Requests, ParkCancelStep(r)
    PROVE  (\A s \in Sessions : FileOwned(own, s)') /\ RepliesOwned(own)'
<1>1. CASE UNCHANGED <<vars, completed>>
  BY <1>1, StoredSame DEF vars
<1>2. CASE Park(r) /\ ~UNCHANGED vars
  <2> DEFINE t == active[req[r].s]
  <2>1. req[r].pc = "park" /\ t # NoToken /\ SavePending(t, run[t].pend) /\ UNCHANGED completed
    BY <1>2 DEF Park
  <2>2. req[r].s \in Sessions
    BY <2>1, RequestIs DEF Where
  <2>3. t \in Tokens /\ run[t].ph # "none"
    BY <2>1, <2>2, Stands DEF EInv, MInv, ActiveOK
  <2>4. Of(own, run[t].pend, lease[t].session)
    BY <2>3 DEF OInv, RunOwned
  <2> HIDE DEF t
  <2> QED BY <2>1, <2>3, <2>4, SavesOwned DEF OInv, RepliesOwned, Of
<1>3. CASE ParkSaves(r) /\ ~UNCHANGED <<vars, completed>>
  <2> DEFINE t == req[r].run
             u == lease[t].session
  <2>1. req[r].pc = "parkSave" /\ SaveCompleted(t, FALSE)
        /\ completed' = WithReplay(u, req[r].seg, req[r].segFu, file[u].pending # {})
    BY <1>3 DEF ParkSaves
  <2>2. t \in Tokens /\ u = req[r].s
    BY <2>1, BoundIs DEF Bound, ParkTail
  <2>3. Of(own, req[r].seg, u)
    BY <2>1, <2>2 DEF OInv, ReqOwned, Parking
  <2>4. RepliesOwned(own)'
    BY <2>1, <2>3, SavedOwned
  <2>5. \A s \in Sessions : FileKept(s)
    BY <2>1, <2>2, OwnerKeepsFiles
  <2> QED BY <2>4, <2>5, FilesKept
<1>4. CASE (CancelDeletes(r) \/ CancelReleases(r)) /\ ~UNCHANGED vars
  <2>1. Delete(req[r].run) \/ Release(req[r].run)
    BY <1>4 DEF CancelDeletes, CancelReleases
  <2>2. req[r].run \in Tokens /\ UNCHANGED completed
    BY <1>4, BoundIs DEF CancelDeletes, CancelReleases, Bound, Canceling
  <2> QED BY <2>1, <2>2, OwnerStores
<1> QED BY <1>1, <1>2, <1>3, <1>4 DEF ParkCancelStep, Park, ParkSaves, ParkLands, ParkCloses, Cancel, CancelDeletes,
       CancelStops, CancelReleases

-----------------------------------------------------------------------------
(***************************************************************************)
(* The steps of runs.                                                      *)
(***************************************************************************)
\* A run that has begun, and gets tools of its session.
LEMMA OwnGets ==
    ASSUME EInv, NEW own, OInv(own), NEW t \in Tokens, run[t].ph # "none", NEW m, run' = [run EXCEPT ![t] = m],
           Of(own, m.pend, lease[t].session), m.seg = run[t].seg, m.flight \in {run[t].flight, NoReq}
    PROVE  \A u \in Tokens : RunGets(own, u)
<1>1. lease[t].st \in {"owned", "released"} /\ RunOwned(own, t)
  BY RunIs DEF RunOK, OInv
<1> QED BY <1>1, OneRunGets DEF RunOwned

LEMMA UpstreamOwned ==
    ASSUME EInv, NEW own, OInv(own), Issues(own), NEW t \in Tokens, UpstreamStep(t)
    PROVE  /\ \A u \in Tokens : RunGets(own, u)
           /\ \A s \in Sessions : FileOwned(own, s)'
           /\ RepliesOwned(own)'
<1> DEFINE u == lease[t].session
           Right == (\A v \in Tokens : RunGets(own, v)) /\ (\A s \in Sessions : FileOwned(own, s)')
                    /\ RepliesOwned(own)'
<1>1. run[t].ph = "running" /\ run[t] \in Run /\ completed' = completed
  BY Stands DEF UpstreamStep, ToolCall, HistoryToolCall, ResultAccepted, TurnEnded, FailState, RunReturns, Running
<1>2. Of(own, run[t].pend, u)
  BY <1>1 DEF OInv, RunOwned
<1>3. ASSUME NEW m, run' = [run EXCEPT ![t] = m], Of(own, m.pend, u), m.seg = run[t].seg,
             m.flight = run[t].flight, \A s \in Sessions : FileOwned(own, s)'
      PROVE  Right
  <2>1. RepliesOwned(own)'
    BY <1>1 DEF OInv, RepliesOwned, Of
  <2> QED BY <1>1, <1>3, <2>1, OwnGets
<1>4. ASSUME UNCHANGED vars PROVE \A s \in Sessions : FileOwned(own, s)'
  BY <1>1, <1>4, StoredSame DEF vars
<1>5. ASSUME NEW x \in Tools, ToolCall(t, x) PROVE Right
  <2>1. own[x] = u /\ UNCHANGED vars
    BY <1>5 DEF Issues, ToolCall
  <2>2. CASE run[t].out = NoReq
    <3> DEFINE m == Failed([run[t] EXCEPT !.up = @ \cup {x}])
    <3>1. run' = [run EXCEPT ![t] = m]
      BY <1>5, <2>2 DEF ToolCall
    <3>2. m.pend = run[t].pend /\ m.seg = run[t].seg /\ m.flight = run[t].flight
      BY <1>1 DEF Failed, Run
    <3> HIDE DEF m, Right, u
    <3> QED BY <1>2, <1>3, <1>4, <2>1, <3>1, <3>2
  <2>3. CASE run[t].out # NoReq
    <3> DEFINE m == [run[t] EXCEPT !.pend = @ \cup {x}, !.up = @ \cup {x}]
    <3>1. run' = [run EXCEPT ![t] = m]
      BY <1>5, <2>3, Stands DEF ToolCall
    <3>2. m.pend = run[t].pend \cup {x} /\ m.seg = run[t].seg /\ m.flight = run[t].flight
      BY <1>1 DEF Run
    <3>3. Of(own, run[t].pend \cup {x}, u)
      BY <1>2, <2>1 DEF Of
    <3> HIDE DEF m, Right, u
    <3> QED BY <1>3, <1>4, <2>1, <3>1, <3>2, <3>3
  <2> QED BY <2>2, <2>3
<1>6. ASSUME NEW x \in Tools, HistoryToolCall(t, x) PROVE Right
  <2>1. own[x] = u /\ UNCHANGED vars
    BY <1>6 DEF Issues, HistoryToolCall
  <2> DEFINE m == [run[t] EXCEPT !.ph = "returned", !.pend = @ \cup {x},
                      !.term = ~run[t].failed /\ run[t].out # NoReq, !.err = run[t].failed \/ run[t].out = NoReq]
  <2>2. run' = [run EXCEPT ![t] = m]
    BY <1>6, Stands DEF HistoryToolCall
  <2>3. m.pend = run[t].pend \cup {x} /\ m.seg = run[t].seg /\ m.flight = run[t].flight
    BY <1>1 DEF Run
  <2>4. Of(own, run[t].pend \cup {x}, u)
    BY <1>2, <2>1 DEF Of
  <2> HIDE DEF m, Right, u
  <2> QED BY <1>3, <1>4, <2>1, <2>2, <2>3, <2>4
<1>7. ASSUME NEW x \in Tools, ResultAccepted(t, x) PROVE Right
  <2> DEFINE left == run[t].pend \ {x}
             m == [run[t] EXCEPT !.queue = @ \ {x}, !.pend = left, !.up = @ \ {x},
                                 !.signaled = @ /\ run[t].up \ {x} # {}]
  <2>1. \/ SavePending(t, left) /\ run' = [run EXCEPT ![t] = m]
        \/ UNCHANGED vars /\ run' = [run EXCEPT ![t] = Failed(m)]
    BY <1>7 DEF ResultAccepted
  <2>2. m.pend = left /\ m.seg = run[t].seg /\ m.flight = run[t].flight
    BY <1>1 DEF Run
  <2>3. Failed(m).pend = left /\ Failed(m).seg = run[t].seg /\ Failed(m).flight = run[t].flight
    BY <1>1 DEF Failed, Run
  <2>4. Of(own, left, u)
    BY <1>2 DEF Of
  <2>5. \A s \in Sessions : FileOwned(own, s)'
    BY <1>4, <2>1, <2>4, SavesOwned
  <2> HIDE DEF m, left, Right, u
  <2> QED BY <1>3, <2>1, <2>2, <2>3, <2>4, <2>5
<1>8. ASSUME TurnEnded(t) \/ FailState(t) \/ \E err \in BOOLEAN : RunReturns(t, err) PROVE Right
  <2>1. UNCHANGED vars
    BY <1>8 DEF TurnEnded, FailState, RunReturns
  <2>2. PICK m : /\ run' = [run EXCEPT ![t] = m] /\ m.pend = run[t].pend /\ m.seg = run[t].seg
                 /\ m.flight = run[t].flight
    <3>1. CASE TurnEnded(t)
      <4> DEFINE m == [run[t] EXCEPT !.signaled = TRUE]
      <4>1. run' = [run EXCEPT ![t] = m]
        BY <3>1, Stands DEF TurnEnded
      <4>2. m.pend = run[t].pend /\ m.seg = run[t].seg /\ m.flight = run[t].flight
        BY <1>1 DEF Run
      <4> QED BY <4>1, <4>2
    <3>2. CASE FailState(t)
      <4> DEFINE m == Failed(run[t])
      <4>1. run' = [run EXCEPT ![t] = m]
        BY <3>2 DEF FailState
      <4>2. m.pend = run[t].pend /\ m.seg = run[t].seg /\ m.flight = run[t].flight
        BY <1>1 DEF Failed, Run
      <4> QED BY <4>1, <4>2
    <3>3. ASSUME NEW err \in BOOLEAN, RunReturns(t, err)
          PROVE  \E m : /\ run' = [run EXCEPT ![t] = m] /\ m.pend = run[t].pend /\ m.seg = run[t].seg
                        /\ m.flight = run[t].flight
      <4> DEFINE m == [run[t] EXCEPT !.ph = "returned", !.term = ~err /\ ~run[t].failed, !.err = err \/ run[t].failed]
      <4>1. run' = [run EXCEPT ![t] = m]
        BY <3>3, Stands DEF RunReturns
      <4>2. m.pend = run[t].pend /\ m.seg = run[t].seg /\ m.flight = run[t].flight
        BY <1>1 DEF Run
      <4> QED BY <4>1, <4>2
    <3> QED BY <1>8, <3>1, <3>2, <3>3
  <2> HIDE DEF Right, u
  <2> QED BY <1>2, <1>3, <1>4, <2>1, <2>2
<1> QED BY <1>5, <1>6, <1>7, <1>8 DEF UpstreamStep

LEMMA FinishOwned ==
    ASSUME EInv, NEW own, OInv(own), NEW t \in Tokens, FinishStep(t)
    PROVE  /\ \A u \in Tokens : RunGets(own, u)
           /\ \A s \in Sessions : FileOwned(own, s)'
           /\ RepliesOwned(own)'
           /\ \A p \in Requests : flight'[p].batch = flight[p].batch
           /\ \A p \in Requests : FlightOwned(own, p)'
<1> DEFINE u == lease[t].session
<1>1. run[t].ph # "none" /\ run[t] \in Run /\ RunOwned(own, t) /\ u \in Sessions
  BY RunIs DEF FinishStep, RunCloses, RunSaves, RunLands, RunDeletes, RunReleases, RunRetires, RunDelivers, OInv
<1>2. \A v \in Tokens : RunGets(own, v)
  <2>1. CASE RunDelivers(t)
    <3>1. run' = [run EXCEPT ![t] = Gone]
      BY <2>1 DEF RunDelivers
    <3>2. Gone.pend = {} /\ Gone.seg = {} /\ Gone.flight = NoReq
      BY DEF Gone, NoRun
    <3> QED BY <1>1, <3>1, <3>2, SameGets
  <2>2. CASE RunCloses(t)
    <3> DEFINE m == [run[t] EXCEPT !.ph = "saving", !.closed = TRUE, !.last = run[t].out, !.out = NoReq]
    <3>1. run' = [run EXCEPT ![t] = m]
      BY <2>2, Stands DEF RunCloses
    <3>2. m.pend = run[t].pend /\ m.seg = run[t].seg /\ m.flight = run[t].flight
      BY <1>1 DEF Run
    <3> HIDE DEF m
    <3> QED BY <1>1, <3>1, <3>2, SameGets
  <2>3. ASSUME NEW label, NEW err, \/ run' = [run EXCEPT ![t].ph = label]
                                   \/ run' = [run EXCEPT ![t].ph = label, ![t].err = err]
                                   \/ run' = [run EXCEPT ![t].flight = NoReq, ![t].ph = label]
        PROVE  \A v \in Tokens : RunGets(own, v)
    <3> DEFINE a == [run[t] EXCEPT !.ph = label]
               b == [run[t] EXCEPT !.ph = label, !.err = err]
               c == [run[t] EXCEPT !.flight = NoReq, !.ph = label]
    <3>1. run' = [run EXCEPT ![t] = a] \/ run' = [run EXCEPT ![t] = b] \/ run' = [run EXCEPT ![t] = c]
      BY <2>3, Stands
    <3>2. /\ a.pend = run[t].pend /\ a.seg = run[t].seg /\ a.flight = run[t].flight
          /\ b.pend = run[t].pend /\ b.seg = run[t].seg /\ b.flight = run[t].flight
          /\ c.pend = run[t].pend /\ c.seg = run[t].seg /\ c.flight = NoReq
      BY <1>1 DEF Run
    <3> HIDE DEF a, b, c
    <3>3. CASE run' = [run EXCEPT ![t] = a]
      BY <1>1, <3>2, <3>3, SameGets
    <3>4. CASE run' = [run EXCEPT ![t] = b]
      BY <1>1, <3>2, <3>4, SameGets
    <3>5. CASE run' = [run EXCEPT ![t] = c]
      BY <1>1, <3>2, <3>5, SameGets
    <3> QED BY <3>1, <3>3, <3>4, <3>5
  <2>4. CASE RunSaves(t)
    <3> DEFINE save == ~run[t].err /\ (lease[t].session \in HistorySessions \/ run[t].seg # {})
               err == run[t].err \/ save
    <3>1. \/ run' = [run EXCEPT ![t].ph = "landing"]
          \/ run' = [run EXCEPT ![t].ph = "landing", ![t].err = err]
      BY <2>4, Stands DEF RunSaves
    <3> HIDE DEF err
    <3> QED BY <2>3, <3>1
  <2>5. CASE RunLands(t) \/ RunDeletes(t) \/ RunReleases(t) \/ RunRetires(t)
    <3>1. \E label : \/ run' = [run EXCEPT ![t].ph = label]
                     \/ run' = [run EXCEPT ![t].flight = NoReq, ![t].ph = label]
      BY <2>5 DEF RunLands, RunDeletes, RunReleases, RunRetires
    <3> QED BY <2>3, <3>1
  <2> QED BY <2>1, <2>2, <2>4, <2>5 DEF FinishStep
<1>3. (\A s \in Sessions : FileOwned(own, s)') /\ RepliesOwned(own)'
  <2>1. CASE UNCHANGED <<vars, completed>>
    BY <2>1, StoredSame DEF vars
  <2>2. CASE RunSaves(t) /\ ~UNCHANGED <<vars, completed>>
    <3> DEFINE eph == DeleteCompleted /\ run[t].pend = {}
    <3>1. \/ SaveHistory(t) /\ UNCHANGED completed
          \/ /\ SaveCompleted(t, eph)
             /\ completed' = WithReplay(u, run[t].seg, run[t].fu, file[u].pending # {})
      BY <2>2 DEF RunSaves
    <3>2. \A s \in Sessions : FileKept(s)
      BY <3>1, OwnerKeepsFiles
    <3>3. RepliesOwned(own)'
      <4>1. Of(own, run[t].seg, u)
        BY <1>1 DEF RunOwned
      <4>2. CASE UNCHANGED completed
        BY <4>2 DEF OInv, RepliesOwned, Of
      <4> HIDE DEF u
      <4> QED BY <3>1, <4>1, <4>2, SavedOwned
    <3> QED BY <3>2, <3>3, FilesKept
  <2>3. CASE ~RunSaves(t) /\ ~UNCHANGED <<vars, completed>>
    <3>1. (Delete(t) \/ Release(t)) /\ UNCHANGED completed
      BY <2>3 DEF FinishStep, RunCloses, RunLands, RunDeletes, RunReleases, RunRetires, RunDelivers
    <3> QED BY <3>1, OwnerStores
  <2> QED BY <2>1, <2>2, <2>3
<1>4. /\ \A p \in Requests : flight'[p].batch = flight[p].batch
      /\ \A p \in Requests : FlightOwned(own, p)'
  <2>1. CASE RunLands(t)
    <3> DEFINE more == run[t].pend # {}
               result == IF run[t].err THEN FlightError
                         ELSE IF run[t].seg = {} THEN FlightNotPending
                         ELSE FlightReplay(u, run[t].seg, run[t].fu, more)
    <3>1. flight' = EndFlight(run[t].flight, result)
      BY <2>1 DEF RunLands
    <3>2. run[t].flight \in Requests \cup {NoReq} /\ run[t].seg \in SUBSET Tools /\ run[t].fu \in FollowUps
      BY <1>1 DEF Run
    <3>3. result \in Flight /\ (result.st = "replay" => result.s = u)
      <4> HIDE DEF u
      <4>1. more \in BOOLEAN
        OBVIOUS
      <4> HIDE DEF more
      <4> QED BY <1>1, <3>2, <4>1, Results
    <3>4. run[t].flight # NoReq => Of(own, flight[run[t].flight].batch, u)
      BY <1>1 DEF RunOwned
    <3> HIDE DEF u, result
    <3> QED BY <3>1, <3>2, <3>3, <3>4, EndedFlight
  <2>2. CASE ~RunLands(t)
    <3>1. UNCHANGED flight
      BY <2>2 DEF FinishStep, RunCloses, RunSaves, RunDeletes, RunReleases, RunRetires, RunDelivers
    <3> QED BY <3>1, FlightsStay
  <2> QED BY <2>1, <2>2
<1> QED BY <1>2, <1>3, <1>4

-----------------------------------------------------------------------------
(***************************************************************************)
(* The invariant and the result.                                           *)
(***************************************************************************)
LEMMA OwnInitial == ASSUME NEW own PROVE ExecutorInit => OInv(own)
<1> SUFFICES ASSUME ExecutorInit PROVE OInv(own)
  OBVIOUS
<1>1. /\ NoRun.ph = "none" /\ NoFlight.st = "none"
      /\ IdleReq.pc = "idle" /\ IdleReq.s = NoSession /\ IdleReq.batch = {} /\ IdleReq.mode = "start"
  BY DEF NoRun, IdleReq, NoFlight
<1>2. /\ completed = {} /\ (\A s \in Sessions : file[s] = NoFile)
      /\ (\A t \in Tokens : run[t] = NoRun)
      /\ (\A r \in Requests : req[r] = IdleReq /\ flight[r] = NoFlight)
  BY DEF ExecutorInit, Init, ManagerInit
<1> QED BY <1>1, <1>2 DEF OInv, FileOwned, RunOwned, ReqOwned, FlightOwned, Flying, Parking

\* A request's step, with the runs, files and replays it leaves.
LEMMA RequestKeepsOwn ==
    ASSUME EInv, NEW own, OInv(own), \A t \in Tokens : LeaseMove(t), NEW r \in Requests, RequestMove(own, r),
           \A p \in Requests : FlightOwned(own, p)', \A t \in Tokens : RunGets(own, t),
           \A s \in Sessions : FileOwned(own, s)', RepliesOwned(own)'
    PROVE  OInv(own)'
<1>1. Frame
  BY DEF Frame, RequestMove
<1>2. \A t \in Tokens : RunOwned(own, t)'
  BY <1>1, RunsOwned
<1>3. ASSUME NEW q \in Requests PROVE ReqOwned(own, q)'
  <2>1. CASE q # r
    BY <2>1 DEF RequestMove, OInv, ReqOwned, Of
  <2> QED BY <2>1 DEF RequestMove
<1> QED BY <1>2, <1>3 DEF OInv, RepliesOwned

\* A run's step.
LEMMA RunKeepsOwn ==
    ASSUME EInv, NEW own, OInv(own), \A t \in Tokens : LeaseMove(t), UNCHANGED req,
           \A p \in Requests : flight'[p].batch = flight[p].batch,
           \A p \in Requests : FlightOwned(own, p)', \A t \in Tokens : RunGets(own, t),
           \A s \in Sessions : FileOwned(own, s)', RepliesOwned(own)'
    PROVE  OInv(own)'
<1>1. \A t \in Tokens : RunOwned(own, t)'
  BY RunsOwned DEF Frame
<1>2. \A q \in Requests : ReqOwned(own, q)'
  BY DEF OInv, ReqOwned, Of
<1> QED BY <1>1, <1>2 DEF OInv, RepliesOwned

LEMMA RestartOwned == ASSUME EInv, NEW own, OInv(own), Restart PROVE OInv(own)'
<1>1. /\ NoRun.pend = {} /\ NoRun.seg = {} /\ NoRun.flight = NoReq
      /\ Gone.pend = {} /\ Gone.seg = {} /\ Gone.flight = NoReq
      /\ NoFlight.st = "none"
  BY DEF NoRun, Gone, NoFlight
<1>2. \A q \in {IdleReq, [IdleReq EXCEPT !.pc = "done"]} :
        q.pc \in {"idle", "done"} /\ q.s = NoSession /\ q.batch = {} /\ q.mode = "start"
  BY DEF IdleReq
<1>3. (\A s \in Sessions : FileOwned(own, s)') /\ RepliesOwned(own)'
  BY StoredSame DEF Restart, Crash
<1>4. \A t \in Tokens : RunOwned(own, t)'
  <2>1. \A t \in Tokens : run'[t] \in {NoRun, Gone}
    BY DEF Restart
  <2> QED BY <1>1, <2>1 DEF RunOwned, Of
<1>5. \A r \in Requests : ReqOwned(own, r)' /\ FlightOwned(own, r)'
  <2>1. \A r \in Requests : req'[r] \in {IdleReq, [IdleReq EXCEPT !.pc = "done"]} /\ flight'[r] = NoFlight
    BY DEF Restart
  <2> QED BY <1>1, <1>2, <2>1 DEF ReqOwned, FlightOwned, Flying, Parking
<1> QED BY <1>3, <1>4, <1>5 DEF OInv, RepliesOwned

LEMMA OwnStepKeeps ==
    ASSUME NEW own PROVE EInv /\ FInv /\ OInv(own) /\ OneSession(own) /\ [ExecutorNext]_allVars /\ [Issues(own)]_allVars
                         => OInv(own)'
<1> SUFFICES ASSUME EInv, FInv, OInv(own), OneSession(own), [ExecutorNext]_allVars, [Issues(own)]_allVars
             PROVE  OInv(own)'
  OBVIOUS
<1>1. \A t \in Tokens : LeaseMove(t)
  BY Simulates, LeaseMoves DEF EInv
<1>2. CASE UNCHANGED allVars
  <2>1. UNCHANGED <<file, completed, run, req, flight>>
    BY <1>2 DEF allVars, vars, managerVars
  <2>2. (\A s \in Sessions : FileOwned(own, s)') /\ RepliesOwned(own)' /\ \A p \in Requests : FlightOwned(own, p)'
    BY <2>1, StoredSame, FlightsStay
  <2> QED BY <1>1, <2>1, <2>2, KeptGets, RunKeepsOwn
<1>3. ASSUME NEW r \in Requests, StartStep(r) PROVE OInv(own)'
  <2>1. UNCHANGED flight
    BY <1>3 DEF StartStep, StartLookup, Reserve, Unreserve, ClaimHeld, ClaimAcquire, ClaimReturns, ClaimCommits,
       StartRun, StartClaimed
  <2> QED BY <1>1, <1>3, <2>1, StartOwned, FlightsStay, StartGets, StartStores, RequestKeepsOwn
<1>4. ASSUME NEW r \in Requests, ResumeStep(r) PROVE OInv(own)'
  BY <1>1, <1>4, ResumeOwned, ResumeGets, ResumeStores, RequestKeepsOwn
<1>5. ASSUME NEW r \in Requests, FollowStep(r) PROVE OInv(own)'
  <2>1. UNCHANGED flight
    BY <1>5 DEF FollowStep, FollowLookup, FollowClaimed, FollowRun, FollowAwaits, StartClaimed
  <2> QED BY <1>1, <1>5, <2>1, FollowOwned, FlightsStay, FollowGets, ResumeStores, RequestKeepsOwn
<1>6. ASSUME NEW r \in Requests, ParkCancelStep(r) PROVE OInv(own)'
  BY <1>1, <1>6, ParkCancelOwned, ParkCancelGets, ParkCancelStores, RequestKeepsOwn
<1>7. ASSUME NEW r \in Requests, ReadStep(r) \/ ClientStep(r) PROVE OInv(own)'
  <2>1. UNCHANGED <<file, completed, run, flight>>
    BY <1>7 DEF ReadStep, ClientStep, Fallback, ReadTurnEnded, ReadEnd, ReadParked, BeginStart, BeginResume, GiveUp,
       vars
  <2>2. \A t \in Tokens : RunGets(own, t)
    BY <2>1, KeptGets
  <2>3. RequestMove(own, r)
    BY <1>7, ReadOwned
  <2> QED BY <1>1, <2>1, <2>2, <2>3, FlightsStay, StoredSame, RequestKeepsOwn
<1>8. ASSUME NEW t \in Tokens, UpstreamStep(t) PROVE OInv(own)'
  <2>1. UNCHANGED <<req, flight>>
    BY <1>8 DEF UpstreamStep, ToolCall, HistoryToolCall, ResultAccepted, TurnEnded, FailState, RunReturns
  <2>2. CASE Issues(own)
    BY <1>1, <1>8, <2>1, <2>2, UpstreamOwned, FlightsStay, RunKeepsOwn
  <2> QED BY <1>2, <2>2
<1>9. ASSUME NEW t \in Tokens, FinishStep(t) PROVE OInv(own)'
  <2>1. UNCHANGED req
    BY <1>9 DEF FinishStep, RunCloses, RunSaves, RunLands, RunDeletes, RunReleases, RunRetires, RunDelivers
  <2> QED BY <1>1, <1>9, <2>1, FinishOwned, RunKeepsOwn
<1> QED BY <1>2, <1>3, <1>4, <1>5, <1>6, <1>7, <1>8, <1>9, RestartOwned DEF ExecutorNext, RequestStep

\* However many requests carry a follow-up, no run saves its answer after
\* another run did, while no submission mixes the calls of two sessions.
THEOREM FollowUpRunsOnceHolds ==
    ASSUME NEW own
    PROVE  ExecutorSpec /\ [][Issues(own)]_allVars /\ []OneSession(own) => FollowUpRunsOnce
<1> DEFINE Once(t) ==
      /\ run[t].ph = "saving" /\ run'[t].ph = "landing"
      /\ run[t].fu # NoFollowUp /\ ~run'[t].err
      => \A c \in completed : c.batch = run[t].seg => c.fu # run[t].fu
<1>1. ASSUME EInv, FInv, OInv(own), [ExecutorNext]_allVars, NEW t \in Tokens PROVE Once(t)
  <2> SUFFICES ASSUME AnswersFollowUp(t), NEW c \in completed, c.batch = run[t].seg PROVE c.fu # run[t].fu
    BY DEF AnswersFollowUp
  <2>1. run[t].seg # {} /\ NotSaved(lease[t].session, run[t].seg, run[t].fu)
    BY <1>1, AnswerIsNew
  <2>2. c.s = lease[t].session
    <3>1. Of(own, run[t].seg, lease[t].session) /\ Of(own, c.batch, c.s)
      BY <1>1 DEF OInv, RunOwned, AnswersFollowUp
    <3> QED BY <2>1, <3>1 DEF Of
  <2> QED BY <2>1, <2>2 DEF NotSaved
<1>2. EInv /\ FInv /\ OInv(own) /\ [ExecutorNext]_allVars => [\A t \in Tokens : Once(t)]_allVars
  BY <1>1
<1>3. ExecutorInit => OInv(own)
  BY OwnInitial
<1>4. EInv /\ FInv /\ OInv(own) /\ OneSession(own) /\ [ExecutorNext]_allVars /\ [Issues(own)]_allVars => OInv(own)'
  BY OwnStepKeeps
<1> QED BY <1>2, <1>3, <1>4, FollowInvariance, ExecutorInvariance, PTL DEF ExecutorSpec, FollowUpRunsOnce
=============================================================================
