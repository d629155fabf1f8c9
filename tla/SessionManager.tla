--------------------------- MODULE SessionManager ---------------------------
(***************************************************************************)
(* SessionManager (cursoragentv1/manager.go, manager_history.go): the      *)
(* in-memory manager of one gateway process, on top of the session files   *)
(* of StateStore.                                                          *)
(*                                                                         *)
(* A managed session is named by the owner token of the claim that started *)
(* it, an output and a resume flight by the request that created them.     *)
(* Every step is one critical section of m.mu or s.mu, or one call of the  *)
(* store, so requests, run goroutines, Park and Cancel interleave wherever *)
(* the code unlocks.  Follow-up texts, results and events are abstracted   *)
(* to what tells requests and replays apart; all requests use one account, *)
(* and the pending index agrees with the files.                            *)
(***************************************************************************)
EXTENDS StateStore

CONSTANTS Requests,         \* HTTP requests
          FollowUps,        \* follow-up texts, NoFollowUp for none
          NoFollowUp, NoReq,
          Self,             \* the process of this manager
          Account,          \* the credential all requests use
          Metering,         \* the callers negotiated turn metering
          DeleteCompleted,  \* RunRequest.DeleteCompletedState
          Transcripts,      \* the requests with a transcript or text to start from
          Starters,         \* bound: the requests that start turns
          Leavers,          \* bound: the requests whose client may go away
          MayRestart        \* bound: the process may die and come back

ASSUME ManagerAssumption ==
    /\ NoFollowUp \in FollowUps
    /\ NoReq \notin Requests
    /\ Self \in Procs
    /\ Account \in Creds
    /\ \A s \in HistorySessions : HistoryCred[s] = Account
    /\ Metering \in BOOLEAN
    /\ DeleteCompleted \in BOOLEAN
    /\ Transcripts \subseteq Requests
    /\ Starters \subseteq Requests
    /\ Leavers \subseteq Requests
    /\ MayRestart \in BOOLEAN

VARIABLES
    active,     \* m.active: the managed session of each id, or NoToken
    starting,   \* m.starting: the reserved ids
    run,        \* every managedSession and its run goroutine
    req,        \* where each request is, and its local variables
    flight,     \* the resumeFlight each request led
    out,        \* the managedOutput each request was handed
    completed,  \* saved CompletedReplays
    issued      \* tool calls the upstream has issued

managerVars == <<active, starting, run, req, flight, out, completed, issued>>

\* managedSession.  up, queue and signaled are the runner's pendingTools, its
\* unread tool results and parkSignaled; seg and fu the batch and follow-up
\* its segment results cover; last and err are locals of run().
Run == [ph: {"none", "running", "returned", "saving", "landing", "deleting",
             "releasing", "retiring", "delivering", "gone"},
        closed: BOOLEAN, cancelled: BOOLEAN, failed: BOOLEAN, err: BOOLEAN,
        out: Requests \cup {NoReq}, last: Requests \cup {NoReq},
        flight: Requests \cup {NoReq},
        pend: SUBSET Tools, up: SUBSET Tools, queue: SUBSET Tools,
        signaled: BOOLEAN, seg: SUBSET Tools, fu: FollowUps, term: BOOLEAN]

NoRun == [ph |-> "none", closed |-> FALSE, cancelled |-> FALSE,
          failed |-> FALSE, err |-> FALSE, out |-> NoReq, last |-> NoReq,
          flight |-> NoReq, pend |-> {}, up |-> {}, queue |-> {},
          signaled |-> FALSE, seg |-> {}, fu |-> NoFollowUp, term |-> FALSE]

Gone == [NoRun EXCEPT !.ph = "gone", !.closed = TRUE, !.cancelled = TRUE]

\* A request: ids are the tool ids it answers, batch the original batch they
\* belong to, run the session object it works on, res the results it will
\* hand to the run, lead the flight it waits for, took, seg and segFu what
\* Park or Cancel took, then where it goes on afterwards.
Labels == {"idle", "start", "reserve", "claim", "claiming", "claimed",
           "unreserve", "begin", "resolve", "lookup", "active", "cold", "bind", "resume",
           "billing", "attach", "push", "bindCold", "fail", "failCold", "fallback", "wait",
           "follow", "followAgain", "await", "awaitLast", "followLookup",
           "launch", "consume", "drain", "drainParked", "rebuffer",
           "park", "parkSave", "parkLand", "parkFail", "parkClose",
           "cancel", "cancelDelete", "cancelStop", "cancelRelease", "done"}

Req == [pc: Labels, mode: {"start", "cold", "follow"},
        s: Sessions \cup {NoSession}, run: Tokens \cup {NoToken},
        ids: SUBSET Tools, batch: SUBSET Tools, fu: FollowUps,
        res: SUBSET Tools, lead: Requests \cup {NoReq},
        took: Requests \cup {NoReq}, seg: SUBSET Tools, segFu: FollowUps,
        then: Labels]

IdleReq == [pc |-> "idle", mode |-> "start", s |-> NoSession, run |-> NoToken,
            ids |-> {}, batch |-> {}, fu |-> NoFollowUp, res |-> {},
            lead |-> NoReq, took |-> NoReq, seg |-> {}, segFu |-> NoFollowUp,
            then |-> "done"]

\* A CompletedReplay; more says that a further batch is pending.
Completed == [s: Sessions, batch: SUBSET Tools, fu: FollowUps, more: BOOLEAN]

\* A flight of one batch and follow-up.  It ends with an error, of which
\* ErrSessionNotPending is told apart, or with the replay of a turn, of which
\* of and ofFu say what it answered.
Flight == [st: {"none", "open", "replay", "error", "notPending"}, s: Sessions \cup {NoSession},
           batch: SUBSET Tools, fu: FollowUps,
           of: SUBSET Tools, ofFu: FollowUps, more: BOOLEAN]

NoFlight == [st |-> "none", s |-> NoSession, batch |-> {}, fu |-> NoFollowUp,
             of |-> {}, ofFu |-> NoFollowUp, more |-> FALSE]

\* An output: the tool calls, the turn boundary and the completion sent on
\* it, and how it was closed.
Out == [st: {"none", "open", "closed", "failed"}, s: Sessions \cup {NoSession},
        tools: SUBSET Tools, turn: BOOLEAN, done: BOOLEAN]

NoOut == [st |-> "none", s |-> NoSession, tools |-> {}, turn |-> FALSE,
          done |-> FALSE]
NewOut(s) == [NoOut EXCEPT !.st = "open", !.s = s]

ManagerTypeOK ==
    /\ active \in [Sessions -> Tokens \cup {NoToken}]
    /\ starting \subseteq {s \in Sessions : active[s] = NoToken}
    /\ run \in [Tokens -> Run]
    /\ req \in [Requests -> Req]
    /\ flight \in [Requests -> Flight]
    /\ out \in [Requests -> Out]
    /\ completed \subseteq Completed
    /\ issued \subseteq Tools

ManagerInit ==
    /\ active = [s \in Sessions |-> NoToken]
    /\ starting = {}
    /\ run = [t \in Tokens |-> NoRun]
    /\ req = [r \in Requests |-> IdleReq]
    /\ flight = [r \in Requests |-> NoFlight]
    /\ out = [r \in Requests |-> NoOut]
    /\ completed = {}
    /\ issued = {}

\* A request that is done forgets its locals.
Goto(r, label) ==
    [req EXCEPT ![r] = IF label = "done" THEN [IdleReq EXCEPT !.pc = "done"]
                       ELSE [@ EXCEPT !.pc = label]]

\* output.close: the first close decides.
Close(o, q, how) ==
    IF q # NoReq /\ o[q].st = "open" THEN [o EXCEPT ![q].st = how] ELSE o

-----------------------------------------------------------------------------
(***************************************************************************)
(* Reservations and claims, shared by Start, the cold path of ResumeTools  *)
(* and StartFollowUp.                                                      *)
(***************************************************************************)

\* Start replays the committed snapshot of a history request, if there is one.
StartLookup(r) ==
    /\ req[r].pc = "start"
    /\ req' = Goto(r, IF history[req[r].s] # NoToken THEN "done" ELSE "reserve")
    /\ UNCHANGED <<vars, active, starting, run, flight, out, completed, issued>>

ReserveNext(r) ==
    IF req[r].pc \in {"reserve", "cold"} THEN "claim" ELSE "followLookup"

\* Where a request goes when the id is taken.  StartHistory tries again.
ReserveElse(r) ==
    CASE req[r].pc = "reserve" ->
             IF req[r].s \in HistorySessions THEN "start" ELSE "done"
      [] req[r].pc = "cold" -> "fail"
      [] req[r].pc = "follow" -> "await"
      [] req[r].pc = "followAgain" -> "awaitLast"

Reserve(r) ==
    LET s == req[r].s IN
    /\ req[r].pc \in {"reserve", "cold", "follow", "followAgain"}
    /\ IF active[s] = NoToken /\ s \notin starting
       THEN /\ starting' = starting \cup {s}
            /\ req' = Goto(r, ReserveNext(r))
       ELSE /\ req' = Goto(r, ReserveElse(r))
            /\ UNCHANGED starting
    /\ UNCHANGED <<vars, active, run, flight, out, completed, issued>>

\* Mutant of Unreserve: a failed request leaks its reservation.
UnreserveLeaks(r) ==
    /\ req[r].pc = "unreserve"
    /\ req' = Goto(r, req[r].then)
    /\ UNCHANGED <<vars, active, starting, run, flight, out, completed, issued>>

\* The deferred releaseReservation of a request that did not start a run.
Unreserve(r) ==
    /\ req[r].pc = "unreserve"
    /\ starting' = starting \ {req[r].s}
    /\ req' = Goto(r, req[r].then)
    /\ UNCHANGED <<vars, active, run, flight, out, completed, issued>>

\* The options of each caller; requests of this manager declare their tools.
OptionsOf(r) ==
    CASE req[r].mode = "cold" -> ResumeOptions
      [] req[r].mode = "follow" -> {o \in FollowUpOptions : ~o.requireCatalog}
      [] req[r].s \in HistorySessions -> HistoryOptions
      [] OTHER -> {o \in StartOptions : ~o.requireExisting}

\* A request that gives up its claim: a resume ends its flight first, and
\* what follows the reservation's release is next.
GiveUpClaim(r, next) ==
    [req EXCEPT ![r].pc = IF req[r].mode = "cold" THEN "failCold" ELSE "unreserve",
                ![r].then = next]

\* Claim returns ErrStateLeaseHeld: StartHistory tries again, StartFollowUp
\* waits for the owner, the others fail.
ClaimHeld(r) ==
    /\ req[r].pc = "claim"
    /\ lock[req[r].s] # NoToken
    /\ req' = GiveUpClaim(r,
                  CASE req[r].mode = "follow" -> "awaitLast"
                    [] req[r].s \in HistorySessions -> "start"
                    [] OTHER -> "done")
    /\ UNCHANGED <<vars, active, starting, run, flight, out, completed, issued>>

\* uuid.NewString: the token of the next claim, one that no claim has used.
NewToken == CHOOSE t \in Tokens : lease[t] = NoLease

ClaimAcquire(r) ==
    /\ req[r].pc = "claim"
    /\ \E t \in Tokens : lease[t] = NoLease
    /\ Acquire(Self, req[r].s, Account, NewToken)
    /\ req' = [req EXCEPT ![r].pc = "claiming", ![r].run = NewToken]
    /\ UNCHANGED <<active, starting, run, flight, out, completed, issued>>

\* Claim replays a history snapshot or refuses the claim; to a resume the
\* refusal is ErrSessionNotPending.
ClaimReturns(r) ==
    /\ req[r].pc = "claiming"
    /\ \/ ClaimReplay(req[r].run)
       \/ \E o \in OptionsOf(r) : ClaimRefused(req[r].run, o)
    /\ req' = GiveUpClaim(r, IF req[r].mode = "cold" THEN "fallback" ELSE "done")
    /\ UNCHANGED <<active, starting, run, flight, out, completed, issued>>

ClaimCommits(r) ==
    /\ req[r].pc = "claiming"
    /\ \E o \in OptionsOf(r) :
          ClaimCommitted(req[r].run, o, TRUE, Metering /\ req[r].mode # "cold", TRUE)
    /\ req' = Goto(r, "claimed")
    /\ UNCHANGED <<active, starting, run, flight, out, completed, issued>>

\* Mutant of StartClaimed: the reservation is kept.
StartClaimedReserved(r, new, next) ==
    LET t == req[r].run
        s == req[r].s
    IN  /\ active' = [active EXCEPT ![s] = t]
        /\ run' = [run EXCEPT ![t] = [new EXCEPT !.ph = "running", !.out = r]]
        /\ out' = [out EXCEPT ![r] = NewOut(s)]
        /\ req' = Goto(r, next)
        /\ UNCHANGED <<vars, starting, flight, completed, issued>>

\* startClaimed: the reservation becomes the active session and its run
\* goroutine starts.  A session already active cannot be met here: the id was
\* reserved.
StartClaimed(r, new, next) ==
    LET t == req[r].run
        s == req[r].s
    IN  /\ active' = [active EXCEPT ![s] = t]
        /\ starting' = starting \ {s}
        /\ run' = [run EXCEPT ![t] = [new EXCEPT !.ph = "running", !.out = r]]
        /\ out' = [out EXCEPT ![r] = NewOut(s)]
        /\ req' = Goto(r, next)
        /\ UNCHANGED <<vars, flight, completed, issued>>

StartRun(r) ==
    /\ req[r].pc = "claimed"
    /\ req[r].mode = "start"
    /\ StartClaimed(r, NoRun, "consume")

-----------------------------------------------------------------------------
(***************************************************************************)
(* ResumeTools.                                                            *)
(***************************************************************************)

\* The sessions whose pending batch the submitted ids cover.
Pending(ids) ==
    {s \in Sessions : /\ file[s] # NoFile
                      /\ file[s].pending # {}
                      /\ file[s].batch \subseteq ids}

\* OriginalPendingBatch: the one pending batch the ids cover, or the ids;
\* ids that cover two batches are ErrPendingAmbiguous.
OriginalPendingBatch(ids) ==
    IF Pending(ids) = {} THEN {ids} ELSE {file[s].batch : s \in Pending(ids)}

\* beginResumeFlight: the request leads a new flight or waits for the one
\* of the same batch and follow-up.
BeginFlight(r) ==
    LET same == {q \in Requests : /\ flight[q].st = "open"
                                  /\ flight[q].batch = req[r].batch
                                  /\ flight[q].fu = req[r].fu}
    IN  /\ req[r].pc = "begin"
        /\ \/ /\ same = {}
              /\ flight' = [flight EXCEPT ![r] =
                     [NoFlight EXCEPT !.st = "open", !.batch = req[r].batch,
                                      !.fu = req[r].fu]]
              /\ req' = Goto(r, "resolve")
           \/ \E q \in same :
              /\ req' = [req EXCEPT ![r].pc = "wait", ![r].lead = q]
              /\ UNCHANGED flight
        /\ UNCHANGED <<vars, active, starting, run, out, completed, issued>>

\* endResumeFlight: only the first result counts.
EndFlight(q, result) ==
    IF q # NoReq /\ flight[q].st = "open"
    THEN [flight EXCEPT ![q] = [result EXCEPT !.batch = flight[q].batch,
                                              !.fu = flight[q].fu]]
    ELSE flight

FlightError == [NoFlight EXCEPT !.st = "error"]

FlightNotPending == [NoFlight EXCEPT !.st = "notPending"]

FlightReplay(s, batch, fu, more) ==
    [NoFlight EXCEPT !.st = "replay", !.s = s, !.of = batch, !.ofFu = fu,
                     !.more = more]

\* A request that is answered by a replay of its batch is done, unless it
\* carries a follow-up that the replay has not answered (maybeChainFollowUp).
Replayed(r, s, batch, fu, more) ==
    IF req[r].fu = NoFollowUp \/ fu # NoFollowUp \/ more
    THEN Goto(r, "done")
    ELSE [req EXCEPT ![r].pc = "follow", ![r].mode = "follow", ![r].s = s,
                     ![r].batch = batch]

\* waitResumeFlight returns.
FlightWaited(r) ==
    LET f == flight[req[r].lead] IN
    /\ req[r].pc = "wait"
    /\ \/ /\ f.st \in {"error", "notPending"}
          /\ req' = Goto(r, IF f.st = "error" THEN "done" ELSE "fallback")
       \/ /\ f.st = "replay"
          /\ req' = Replayed(r, f.s, f.batch, f.ofFu, f.more)
    /\ UNCHANGED <<vars, active, starting, run, flight, out, completed, issued>>

ResolvePending(r) ==
    /\ req[r].pc = "resolve"
    /\ \/ /\ Pending(req[r].ids) = {}
          /\ req' = Goto(r, "lookup")
       \/ \E s \in Pending(req[r].ids) :
             req' = [req EXCEPT ![r].pc = "lookup", ![r].s = s]
    /\ UNCHANGED <<vars, active, starting, run, flight, out, completed, issued>>

\* LookupCompleted: the replay of exactly these ids, or of a batch they
\* cover; the per-tool pointers exist for replays without follow-up only.
Replays(ids, fu) ==
    LET exact == {c \in completed : c.batch = ids /\ c.fu = fu}
        covered == {c \in completed :
                        /\ c.batch \subseteq ids
                        /\ c.fu = fu
                        /\ \E d \in completed : /\ d.batch = c.batch
                                                /\ d.fu = NoFollowUp}
    IN  IF exact # {} THEN exact ELSE covered

\* fail(ErrSessionNotPending), after which prepare may start a turn instead.
FailsNotPending(r) == [req EXCEPT ![r].pc = "fail", ![r].then = "fallback"]

\* lookupRequestReplay: a request with a follow-up may also be answered by
\* the replay of its tool results alone.
RequestReplays(ids, fu) ==
    IF Replays(ids, fu) # {} THEN Replays(ids, fu) ELSE Replays(ids, NoFollowUp)

LookupReplay(r) ==
    LET found == RequestReplays(IF req[r].s = NoSession THEN req[r].ids
                                                        ELSE req[r].batch,
                                req[r].fu)
    IN  /\ req[r].pc = "lookup"
        /\ \/ \E c \in found :
              /\ flight' = EndFlight(r, FlightReplay(c.s, c.batch, c.fu, c.more))
              /\ req' = Replayed(r, c.s, c.batch, c.fu, c.more)
           \/ /\ found = {}
              /\ req' = IF req[r].s = NoSession THEN FailsNotPending(r)
                                                ELSE Goto(r, "active")
              /\ UNCHANGED flight
        /\ UNCHANGED <<vars, active, starting, run, out, completed, issued>>

\* m.active is read once here, and again by bindResumeFlight.
ReadActive(r) ==
    LET t == active[req[r].s] IN
    /\ req[r].pc = "active"
    /\ req' = [req EXCEPT ![r].run = t,
                          ![r].mode = IF t = NoToken THEN "cold" ELSE @,
                          ![r].pc = IF t = NoToken THEN "cold" ELSE "bind"]
    /\ UNCHANGED <<vars, active, starting, run, flight, out, completed, issued>>

\* Where a request with an output goes: one with a follow-up is drained by
\* maybeChainFollowUp before anything is sent downstream.
Attached(r) == IF req[r].fu = NoFollowUp THEN "consume" ELSE "drain"

BindFlight(r) ==
    LET t == active[req[r].s] IN
    /\ req[r].pc \in {"bind", "bindCold"}
    /\ run' = IF t = NoToken THEN run ELSE [run EXCEPT ![t].flight = r]
    /\ req' = Goto(r, IF req[r].pc = "bind" THEN "resume" ELSE Attached(r))
    /\ UNCHANGED <<vars, active, starting, flight, out, completed, issued>>

\* managedSession.resume, first section: the session is parked and the
\* request answers everything that is pending.
ResumeChecks(r) ==
    LET m == run[req[r].run] IN
    /\ req[r].pc = "resume"
    /\ req' = IF m.closed \/ m.out # NoReq THEN Goto(r, "fail")
              ELSE IF m.pend \subseteq req[r].ids
              THEN [req EXCEPT ![r].pc = "billing", ![r].res = m.pend]
              ELSE FailsNotPending(r)
    /\ UNCHANGED <<vars, active, starting, run, flight, out, completed, issued>>

\* SetBillingRunID, between the two sections; a metered run keeps its id.
\* Here and below a save fails when the owner is retired or the write fails.
ResumeBilling(r) ==
    LET t == req[r].run IN
    /\ req[r].pc = "billing"
    /\ \/ /\ SetBillingRunID(t)
          /\ req' = Goto(r, "attach")
       \/ /\ req' = Goto(r, "fail")
          /\ UNCHANGED vars
       \/ /\ MayUpdate(t)
          /\ file[req[r].s].metered
          /\ req' = Goto(r, "attach")
          /\ UNCHANGED vars
    /\ UNCHANGED <<active, starting, run, flight, out, completed, issued>>

\* managedSession.resume, second section: the check is repeated and the
\* request's output attached.
ResumeAttach(r) ==
    LET t == req[r].run IN
    /\ req[r].pc = "attach"
    /\ IF run[t].closed \/ run[t].out # NoReq
       THEN /\ req' = Goto(r, "fail")
            /\ UNCHANGED <<run, out>>
       ELSE /\ run' = [run EXCEPT ![t].out = r, ![t].seg = req[r].batch,
                                  ![t].fu = NoFollowUp]
            /\ out' = [out EXCEPT ![r] = NewOut(req[r].s)]
            /\ req' = Goto(r, "push")
    /\ UNCHANGED <<vars, active, starting, flight, completed, issued>>

\* ... and the results go to the runner.
ResumePush(r) ==
    /\ req[r].pc = "push"
    /\ run' = [run EXCEPT ![req[r].run].queue = @ \cup req[r].res]
    /\ req' = Goto(r, Attached(r))
    /\ UNCHANGED <<vars, active, starting, flight, out, completed, issued>>

\* The cold path continues the run from its saved checkpoint, if the request
\* answers everything that is pending; otherwise it releases the claim.
ColdRun(r) ==
    LET f == file[req[r].s] IN
    /\ req[r].pc = "claimed"
    /\ req[r].mode = "cold"
    /\ f.pending \subseteq req[r].ids
    /\ StartClaimed(r, [NoRun EXCEPT !.pend = f.pending, !.queue = f.pending,
                                     !.seg = IF f.batch \subseteq req[r].batch
                                             THEN f.batch ELSE req[r].batch],
                    "bindCold")

ColdMismatch(r) ==
    /\ req[r].pc = "claimed"
    /\ req[r].mode = "cold"
    /\ ~(file[req[r].s].pending \subseteq req[r].ids)
    /\ Release(req[r].run)
    /\ req' = GiveUpClaim(r, "fallback")
    /\ UNCHANGED <<active, starting, run, flight, out, completed, issued>>

\* fail: the flight ends with the error, before the reservation is released.
ResumeFails(r) ==
    /\ req[r].pc \in {"fail", "failCold"}
    /\ flight' = EndFlight(r, IF req[r].then = "fallback" THEN FlightNotPending
                                                          ELSE FlightError)
    /\ req' = Goto(r, IF req[r].pc = "fail" THEN req[r].then ELSE "unreserve")
    /\ UNCHANGED <<vars, active, starting, run, out, completed, issued>>

-----------------------------------------------------------------------------
(***************************************************************************)
(* StartFollowUp, the turn after the covered tools completed.              *)
(***************************************************************************)

\* Mutant of FollowUpSaved: the replay is not looked up.
FollowUpSavedUnread(r) == req[r].fu = NoFollowUp

\* lookupFollowUpReplay, before the claim and again under it.
FollowUpSaved(r) == Replays(req[r].batch, req[r].fu) # {}

FollowLookup(r) ==
    /\ req[r].pc = "followLookup"
    /\ req' = IF FollowUpSaved(r)
              THEN [req EXCEPT ![r].pc = "unreserve", ![r].then = "done"]
              ELSE Goto(r, "claim")
    /\ UNCHANGED <<vars, active, starting, run, flight, out, completed, issued>>

\* waitFollowUpSnapshot: once the session is idle its replay is there or not,
\* and the wait may time out.  The first wait is followed by another try.
FollowAwaits(r, timeout) ==
    /\ req[r].pc \in {"await", "awaitLast"}
    /\ timeout \/ active[req[r].s] = NoToken
    /\ req' = Goto(r, IF req[r].pc = "await" /\ (timeout \/ ~FollowUpSaved(r))
                      THEN "followAgain" ELSE "done")
    /\ UNCHANGED <<vars, active, starting, run, flight, out, completed, issued>>

\* Under the claim the replay is looked up again; then the carried usage is
\* saved and the follow-up run starts.  A replay, a client that is gone and a
\* failed save release the claim.
FollowClaimed(r) ==
    LET t == req[r].run IN
    /\ req[r].pc = "claimed"
    /\ req[r].mode = "follow"
    /\ \/ /\ Release(t)
          /\ req' = GiveUpClaim(r, "done")
       \/ /\ ~FollowUpSaved(r)
          /\ \E some \in BOOLEAN : SaveUsageCarry(t, some)
          /\ req' = Goto(r, "launch")
    /\ UNCHANGED <<active, starting, run, flight, out, completed, issued>>

FollowRun(r) ==
    /\ req[r].pc = "launch"
    /\ StartClaimed(r, [NoRun EXCEPT !.seg = req[r].batch, !.fu = req[r].fu],
                    "consume")

-----------------------------------------------------------------------------
(***************************************************************************)
(* The run goroutine: Runner.Run calls handleEvent, and run() finishes.    *)
(***************************************************************************)
Running(t) == run[t].ph = "running"

\* emit: nothing is sent once the state failed or while there is no output.
Emitted(t, o) ==
    IF run[t].failed \/ run[t].out = NoReq THEN out
    ELSE [out EXCEPT ![run[t].out] = o]

Failed(m) == [m EXCEPT !.failed = TRUE, !.cancelled = TRUE]

\* EventToolCall of a new tool.  A call after the turn was parked fails the
\* run; the upstream makes none between its turn boundary and that.
ToolCall(t, x) ==
    LET q == run[t].out IN
    /\ Running(t)
    /\ lease[t].session \notin HistorySessions
    /\ x \notin issued
    /\ issued' = issued \cup {x}
    /\ \/ /\ q = NoReq
          /\ run' = [run EXCEPT ![t] = Failed([run[t] EXCEPT !.up = @ \cup {x}])]
          /\ UNCHANGED out
       \/ /\ q # NoReq
          /\ ~out[q].turn
          /\ run' = [run EXCEPT ![t].pend = @ \cup {x}, ![t].up = @ \cup {x}]
          /\ out' = Emitted(t, [out[q] EXCEPT !.tools = @ \cup {x}])
    /\ UNCHANGED <<vars, active, starting, req, flight, completed>>

\* A history run ends with its first tool call: executing it belongs to the
\* next independent request.
HistoryToolCall(t, x) ==
    /\ Running(t)
    /\ lease[t].session \in HistorySessions
    /\ x \notin issued
    /\ issued' = issued \cup {x}
    /\ run' = [run EXCEPT ![t].ph = "returned", ![t].pend = @ \cup {x},
                          ![t].term = ~run[t].failed /\ run[t].out # NoReq,
                          ![t].err = run[t].failed \/ run[t].out = NoReq]
    /\ out' = Emitted(t, [out[run[t].out] EXCEPT !.tools = @ \cup {x}])
    /\ UNCHANGED <<vars, active, starting, req, flight, completed>>

\* The upstream turn ends with caller tools pending: the runner signals the
\* park boundary, once per set of pending tools.
TurnEnded(t) ==
    /\ Running(t)
    /\ run[t].up # {}
    /\ ~run[t].signaled
    /\ run' = [run EXCEPT ![t].signaled = TRUE]
    /\ out' = Emitted(t, [out[run[t].out] EXCEPT !.turn = TRUE])
    /\ UNCHANGED <<vars, active, starting, req, flight, completed, issued>>

\* A result whose call is pending reaches the upstream (a continued run is
\* asked for it again) and EventToolResultAccepted removes it from the pending
\* tools, in memory and in the file.  A result without a call stays queued.
ResultAccepted(t, x) ==
    LET left == run[t].pend \ {x}
        m    == [run[t] EXCEPT !.queue = @ \ {x}, !.pend = left,
                               !.up = @ \ {x},
                               !.signaled = @ /\ run[t].up \ {x} # {}]
    IN  /\ Running(t)
        /\ x \in run[t].queue \cap run[t].pend
        /\ \/ /\ SavePending(t, left)
              /\ run' = [run EXCEPT ![t] = m]
           \/ /\ run' = [run EXCEPT ![t] = Failed(m)]
              /\ UNCHANGED vars
        /\ UNCHANGED <<active, starting, req, flight, out, completed, issued>>

\* failState: a checkpoint that cannot be saved, a full event buffer or
\* snapshot, or caller tools that are disabled.
FailState(t) ==
    /\ Running(t)
    /\ ~run[t].failed
    /\ run' = [run EXCEPT ![t] = Failed(@)]
    /\ UNCHANGED <<vars, active, starting, req, flight, out, completed, issued>>

\* Mutant of RunReturns: EventDone is sent as soon as the runner emits it.
RunReturnsSends(t, err) ==
    /\ Running(t)
    /\ ~err => run[t].up = {}
    /\ run' = [run EXCEPT ![t].ph = "returned", ![t].term = ~err /\ ~run[t].failed,
                          ![t].err = err \/ run[t].failed]
    /\ out' = IF err THEN out ELSE Emitted(t, [out[run[t].out] EXCEPT !.done = TRUE])
    /\ UNCHANGED <<vars, active, starting, req, flight, completed, issued>>

\* Runner.Run returns: after EventDone when nothing is pending upstream, or
\* with an error at any time, the run timeout and a cancelled context
\* included.  A failed state turns either into an error.
RunReturns(t, err) ==
    /\ Running(t)
    /\ ~err => run[t].up = {}
    /\ run' = [run EXCEPT ![t].ph = "returned", ![t].term = ~err /\ ~run[t].failed,
                          ![t].err = err \/ run[t].failed]
    /\ UNCHANGED <<vars, active, starting, req, flight, out, completed, issued>>

\* Mutant of RunCloses: idle is published with the close.
RunClosesIdle(t) ==
    LET s == lease[t].session IN
    /\ run[t].ph = "returned"
    /\ run' = [run EXCEPT ![t].ph = "saving", ![t].closed = TRUE,
                          ![t].last = run[t].out, ![t].out = NoReq]
    /\ active' = IF active[s] = t THEN [active EXCEPT ![s] = NoToken] ELSE active
    /\ UNCHANGED <<vars, starting, req, flight, out, completed, issued>>

\* run() closes the session and takes its output.
RunCloses(t) ==
    /\ run[t].ph = "returned"
    /\ run' = [run EXCEPT ![t].ph = "saving", ![t].closed = TRUE,
                          ![t].last = run[t].out, ![t].out = NoReq]
    /\ UNCHANGED <<vars, active, starting, req, flight, out, completed, issued>>

\* SaveCompleted's replay; an earlier one of the same batch and follow-up is
\* updated.
WithReplay(s, batch, fu, more) ==
    {c \in completed : ~(c.batch = batch /\ c.fu = fu)}
        \cup {[s |-> s, batch |-> batch, fu |-> fu, more |-> more]}

\* run() saves the history snapshot, or the replay of its segment.
RunSaves(t) ==
    LET s    == lease[t].session
        m    == run[t]
        save == ~m.err /\ (s \in HistorySessions \/ m.seg # {})
        eph  == DeleteCompleted /\ m.pend = {}
    IN  /\ m.ph = "saving"
        /\ \/ /\ save
              /\ s \in HistorySessions
              /\ SaveHistory(t)
              /\ run' = [run EXCEPT ![t].ph = "landing"]
              /\ UNCHANGED completed
           \/ /\ save
              /\ SaveCompleted(t, eph)
              /\ completed' = WithReplay(s, m.seg, m.fu, file[s].pending # {})
              /\ run' = [run EXCEPT ![t].ph = "landing"]
           \/ /\ run' = [run EXCEPT ![t].ph = "landing", ![t].err = @ \/ save]
              /\ UNCHANGED <<vars, completed>>
        /\ UNCHANGED <<active, starting, req, flight, out, issued>>

\* finishFlight ends the flight bound to the session.
RunLands(t) ==
    LET m == run[t] IN
    /\ m.ph = "landing"
    /\ flight' = EndFlight(m.flight,
                     IF m.err THEN FlightError
                     ELSE IF m.seg = {} THEN FlightNotPending
                     ELSE FlightReplay(lease[t].session, m.seg, m.fu, m.pend # {}))
    /\ run' = [run EXCEPT ![t].flight = NoReq, ![t].ph = "deleting"]
    /\ UNCHANGED <<vars, active, starting, req, out, completed, issued>>

\* A completed run that answered no tool results leaves no state behind, if
\* the caller asked for that; an error is ignored.
RunDeletes(t) ==
    LET m == run[t] IN
    /\ m.ph = "deleting"
    /\ \/ /\ ~m.err /\ DeleteCompleted /\ m.pend = {} /\ m.seg = {}
          /\ lease[t].session \notin HistorySessions
          /\ MayUpdate(t)
          /\ Delete(t)
       \/ UNCHANGED vars
    /\ run' = [run EXCEPT ![t].ph = "releasing"]
    /\ UNCHANGED <<active, starting, req, flight, out, completed, issued>>

\* Mutant of RunReleases: the flock is dropped, the handle stays usable.
RunReleasesFlock(t) ==
    /\ run[t].ph = "releasing"
    /\ lock' = [lock EXCEPT ![lease[t].session] = IF @ = t THEN NoToken ELSE @]
    /\ run' = [run EXCEPT ![t].ph = "retiring"]
    /\ UNCHANGED <<file, fresh, lease, history, scan, active, starting, req,
                   flight, out, completed, issued>>

RunReleases(t) ==
    /\ run[t].ph = "releasing"
    /\ Release(t) \/ (lease[t].st = "released" /\ UNCHANGED vars)
    /\ run' = [run EXCEPT ![t].ph = "retiring"]
    /\ UNCHANGED <<active, starting, req, flight, out, completed, issued>>

\* Idle is published last, unless another session has taken the id.
RunRetires(t) ==
    LET s == lease[t].session IN
    /\ run[t].ph = "retiring"
    /\ active' = IF active[s] = t THEN [active EXCEPT ![s] = NoToken] ELSE active
    /\ run' = [run EXCEPT ![t].ph = "delivering"]
    /\ UNCHANGED <<vars, starting, req, flight, out, completed, issued>>

\* Mutant of RunDelivers: an error is not delivered and the output stays open.
RunDeliversSilent(t) ==
    LET m == run[t] IN
    /\ m.ph = "delivering"
    /\ out' = IF m.last = NoReq \/ m.err THEN out
              ELSE Close([out EXCEPT ![m.last].done =
                             @ \/ (m.term /\ out[m.last].st = "open")],
                         m.last, "closed")
    /\ run' = [run EXCEPT ![t] = Gone]
    /\ UNCHANGED <<vars, active, starting, req, flight, completed, issued>>

\* The completion is sent, unless the buffer of the output is full, and the
\* output closed.
RunDelivers(t) ==
    LET m == run[t] IN
    /\ m.ph = "delivering"
    /\ \E full \in {FALSE, m.term} :
         out' = IF m.last = NoReq THEN out
                ELSE Close([out EXCEPT ![m.last].done =
                               @ \/ (~m.err /\ m.term /\ ~full /\ out[m.last].st = "open")],
                           m.last, IF m.err \/ full THEN "failed" ELSE "closed")
    /\ run' = [run EXCEPT ![t] = Gone]
    /\ UNCHANGED <<vars, active, starting, req, flight, completed, issued>>

-----------------------------------------------------------------------------
(***************************************************************************)
(* Park and Cancel, which find the session by its id.                      *)
(***************************************************************************)

\* Park with both locks held.  ErrSessionNotPending is no error to the
\* caller; a failed save makes it cancel.
Park(r) ==
    LET t == active[req[r].s]
        m == run[t]
    IN  /\ req[r].pc = "park"
        /\ \/ /\ \/ t = NoToken
                 \/ t # NoToken /\ (m.closed \/ m.pend = {} \/ m.out = NoReq)
              /\ req' = Goto(r, req[r].then)
              /\ UNCHANGED <<vars, run>>
           \/ /\ t # NoToken
              /\ ~m.closed /\ m.pend # {} /\ m.out # NoReq
              /\ \/ /\ req' = Goto(r, "cancel")
                    /\ UNCHANGED <<vars, run>>
                 \/ /\ SavePending(t, m.pend)
                    /\ run' = [run EXCEPT ![t].out = NoReq, ![t].seg = {}]
                    /\ req' = [req EXCEPT
                                 ![r].pc = IF m.seg = {} THEN "parkClose" ELSE "parkSave",
                                 ![r].run = t, ![r].took = m.out,
                                 ![r].seg = m.seg, ![r].segFu = m.fu]
        /\ UNCHANGED <<active, starting, flight, out, completed, issued>>

\* The replay of the parked turn is saved after the locks were dropped.
ParkSaves(r) ==
    LET t == req[r].run
        s == lease[t].session
    IN  /\ req[r].pc = "parkSave"
        /\ \/ /\ SaveCompleted(t, FALSE)
              /\ completed' = WithReplay(s, req[r].seg, req[r].segFu, file[s].pending # {})
              /\ req' = Goto(r, "parkLand")
              /\ UNCHANGED out
           \/ /\ out' = Close(out, req[r].took, "failed")
              /\ req' = Goto(r, "parkFail")
              /\ UNCHANGED <<vars, completed>>
        /\ UNCHANGED <<active, starting, run, flight, issued>>

\* Park's finishFlight; after a failed save Park returns the error.
ParkLands(r) ==
    LET t == req[r].run IN
    /\ req[r].pc \in {"parkLand", "parkFail"}
    /\ flight' = EndFlight(run[t].flight,
                     IF req[r].pc = "parkFail" THEN FlightError
                     ELSE FlightReplay(lease[t].session, req[r].seg,
                                       req[r].segFu, TRUE))
    /\ run' = [run EXCEPT ![t].flight = NoReq]
    /\ req' = Goto(r, IF req[r].pc = "parkFail" THEN "cancel" ELSE "parkClose")
    /\ UNCHANGED <<vars, active, starting, out, completed, issued>>

ParkCloses(r) ==
    /\ req[r].pc = "parkClose"
    /\ out' = Close(out, req[r].took, "closed")
    /\ req' = Goto(r, req[r].then)
    /\ UNCHANGED <<vars, active, starting, run, flight, completed, issued>>

\* Mutant of Cancel: the output is detached but not kept for closing.
CancelForgets(r) ==
    LET t == active[req[r].s] IN
    /\ req[r].pc = "cancel"
    /\ \/ /\ t = NoToken
          /\ req' = Goto(r, "done")
          /\ UNCHANGED <<active, run>>
       \/ /\ t # NoToken
          /\ active' = [active EXCEPT ![req[r].s] = NoToken]
          /\ run' = [run EXCEPT ![t].closed = TRUE, ![t].out = NoReq]
          /\ req' = [req EXCEPT ![r].pc = "cancelDelete", ![r].run = t]
    /\ UNCHANGED <<vars, starting, flight, out, completed, issued>>

\* Cancel takes the session with both locks held ...
Cancel(r) ==
    LET t == active[req[r].s] IN
    /\ req[r].pc = "cancel"
    /\ \/ /\ t = NoToken
          /\ req' = Goto(r, "done")
          /\ UNCHANGED <<active, run>>
       \/ /\ t # NoToken
          /\ active' = [active EXCEPT ![req[r].s] = NoToken]
          /\ run' = [run EXCEPT ![t].closed = TRUE, ![t].out = NoReq]
          /\ req' = [req EXCEPT ![r].pc = "cancelDelete", ![r].run = t,
                                ![r].took = run[t].out]
    /\ UNCHANGED <<vars, starting, flight, out, completed, issued>>

\* Mutant of CancelDeletes: the run's context is not cancelled.
CancelDeletesOnly(r) ==
    LET t == req[r].run IN
    /\ req[r].pc = "cancelDelete"
    /\ IF MayUpdate(t) THEN Delete(t) ELSE UNCHANGED vars
    /\ req' = Goto(r, "cancelRelease")
    /\ UNCHANGED <<active, starting, run, flight, out, completed, issued>>

\* ... deletes its state (an error is kept for the caller), cancels the run and
\* closes its output, and releases the lease last.
CancelDeletes(r) ==
    LET t == req[r].run IN
    /\ req[r].pc = "cancelDelete"
    /\ \/ MayUpdate(t) /\ Delete(t)
       \/ UNCHANGED vars
    /\ req' = Goto(r, "cancelStop")
    /\ UNCHANGED <<active, starting, run, flight, out, completed, issued>>

CancelStops(r) ==
    /\ req[r].pc = "cancelStop"
    /\ run' = [run EXCEPT ![req[r].run].cancelled = TRUE]
    /\ out' = Close(out, req[r].took, "failed")
    /\ req' = Goto(r, "cancelRelease")
    /\ UNCHANGED <<vars, active, starting, flight, completed, issued>>

CancelReleases(r) ==
    LET t == req[r].run IN
    /\ req[r].pc = "cancelRelease"
    /\ Release(t) \/ (lease[t].st = "released" /\ UNCHANGED vars)
    /\ req' = Goto(r, "done")
    /\ UNCHANGED <<active, starting, run, flight, out, completed, issued>>

\* The process dies and is started again: everything in memory is lost.
Restart ==
    /\ MayRestart
    /\ Crash(Self)
    /\ active' = [s \in Sessions |-> NoToken]
    /\ starting' = {}
    /\ run' = [t \in Tokens |-> IF run[t].ph = "none" THEN NoRun
                                ELSE Gone]
    /\ req' = [r \in Requests |-> IF req[r].pc = "idle" THEN IdleReq
                                  ELSE [IdleReq EXCEPT !.pc = "done"]]
    /\ flight' = [r \in Requests |-> NoFlight]
    /\ out' = [r \in Requests |-> [NoOut EXCEPT !.tools = out[r].tools]]
    /\ UNCHANGED <<completed, issued>>

-----------------------------------------------------------------------------
StartStep(r) ==
    \/ StartLookup(r) \/ Reserve(r) \/ Unreserve(r) \/ ClaimHeld(r)
    \/ ClaimAcquire(r) \/ ClaimReturns(r) \/ ClaimCommits(r) \/ StartRun(r)

ResumeStep(r) ==
    \/ BeginFlight(r) \/ FlightWaited(r) \/ ResolvePending(r) \/ LookupReplay(r)
    \/ ReadActive(r) \/ BindFlight(r) \/ ResumeChecks(r) \/ ResumeBilling(r)
    \/ ResumeAttach(r) \/ ResumePush(r) \/ ColdRun(r) \/ ColdMismatch(r)
    \/ ResumeFails(r)

FollowStep(r) ==
    \/ FollowLookup(r) \/ FollowClaimed(r) \/ FollowRun(r)
    \/ \E timeout \in BOOLEAN : FollowAwaits(r, timeout)

ParkCancelStep(r) ==
    \/ Park(r) \/ ParkSaves(r) \/ ParkLands(r) \/ ParkCloses(r)
    \/ Cancel(r) \/ CancelDeletes(r) \/ CancelStops(r) \/ CancelReleases(r)

RequestStep(r) == StartStep(r) \/ ResumeStep(r) \/ FollowStep(r) \/ ParkCancelStep(r)

\* What the upstream and the runner do while a run is going on.
UpstreamStep(t) ==
    \/ \E x \in Tools : ToolCall(t, x) \/ HistoryToolCall(t, x) \/ ResultAccepted(t, x)
    \/ TurnEnded(t)
    \/ FailState(t)
    \/ \E err \in BOOLEAN : RunReturns(t, err)

\* run() after Runner.Run returned.
FinishStep(t) ==
    \/ RunCloses(t) \/ RunSaves(t) \/ RunLands(t) \/ RunDeletes(t)
    \/ RunReleases(t) \/ RunRetires(t) \/ RunDelivers(t)
=============================================================================
