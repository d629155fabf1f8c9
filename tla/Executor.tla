------------------------------ MODULE Executor ------------------------------
(***************************************************************************)
(* Executor (cursoragentv1/executor.go): the HTTP requests that drive the  *)
(* manager of SessionManager, and the composition of both with StateStore. *)
(*                                                                         *)
(* A request starts a turn or submits tool results, then reads its output, *)
(* parks at the turn boundary and cancels when its client goes away.  A    *)
(* request with a follow-up text is first drained by maybeChainFollowUp.   *)
(***************************************************************************)
EXTENDS SessionManager

allVars == <<vars, managerVars>>

\* The tool calls that clients have been sent.
Shown == UNION {out[r].tools : r \in Requests}

\* prepare: a new turn of a session, or of a full-history request.
BeginStart(r, s) ==
    /\ r \in Starters
    /\ req[r].pc = "idle"
    /\ req' = [req EXCEPT ![r].pc = IF s \in HistorySessions THEN "start" ELSE "reserve",
                          ![r].s = s]
    /\ UNCHANGED <<vars, active, starting, run, flight, out, completed, issued>>

\* prepare: results for tool calls, with or without new user text.  Calls
\* ResumeTools, which reads the original batch before anything else.
BeginResume(r, ids, fu) ==
    /\ r \notin Starters
    /\ req[r].pc = "idle"
    /\ ids # {}
    /\ ids \subseteq Shown
    /\ IF Cardinality(OriginalPendingBatch(ids)) > 1
       THEN req' = Goto(r, "done")
       ELSE \E batch \in OriginalPendingBatch(ids) :
               req' = [req EXCEPT ![r].pc = "begin", ![r].ids = ids,
                                  ![r].batch = batch, ![r].fu = fu]
    /\ UNCHANGED <<vars, active, starting, run, flight, out, completed, issued>>

\* prepare after ErrSessionNotPending: a request with new user text, or with
\* its whole transcript (Transcripts), starts an ordinary turn instead of failing.
Fallback(r) ==
    /\ req[r].pc = "fallback"
    /\ \/ /\ req[r].fu # NoFollowUp \/ r \in Transcripts
          /\ \E s \in Sessions \ HistorySessions :
                req' = [req EXCEPT ![r] = [IdleReq EXCEPT !.pc = "reserve", !.s = s]]
       \/ /\ req[r].fu = NoFollowUp /\ r \notin Transcripts
          /\ req' = Goto(r, "done")
    /\ UNCHANGED <<vars, active, starting, run, flight, out, completed, issued>>

\* The turn boundary is read: the executor parks before it delivers the last
\* payload, and a plain stream ends there.
ReadTurnEnded(r) ==
    /\ \/ req[r].pc \in {"consume", "drain"} /\ out[r].turn
       \/ req[r].pc = "rebuffer"
    /\ req' = [req EXCEPT ![r].pc = "park",
                          ![r].then = IF req[r].pc = "drain" THEN "drainParked" ELSE "done"]
    /\ UNCHANGED <<vars, active, starting, run, flight, out, completed, issued>>

\* The completion, or the end of an output that has none.  A drained turn
\* that completed is followed by the follow-up turn.
ReadEnd(r) ==
    /\ req[r].pc \in {"consume", "drain"}
    /\ ~out[r].turn
    /\ \/ req[r].pc = "consume" /\ out[r].done
       \/ out[r].st \in {"closed", "failed"}
    /\ req' = IF req[r].pc = "drain" /\ out[r].st = "closed"
              THEN [req EXCEPT ![r].pc = "follow", ![r].mode = "follow"]
              ELSE Goto(r, "done")
    /\ UNCHANGED <<vars, active, starting, run, flight, out, completed, issued>>

\* The output of a turn parked while draining ends: its events are handed on
\* as a new output, which is consumed like a live one.
ReadParked(r) ==
    /\ req[r].pc = "drainParked"
    /\ out[r].st \in {"closed", "failed"}
    /\ req' = Goto(r, IF out[r].st = "closed" THEN "rebuffer" ELSE "done")
    /\ UNCHANGED <<vars, active, starting, run, flight, out, completed, issued>>

\* The client is gone, the projection fails, or StartHistory has tried for
\* too long.  A parked turn is left alone while it is drained; any other
\* reader cancels.
GiveUp(r) ==
    /\ r \in Leavers
    /\ req[r].pc \in {"start", "wait", "await", "awaitLast", "drainParked",
                      "consume", "drain", "rebuffer"}
    /\ req' = Goto(r, IF req[r].pc \in {"consume", "drain", "rebuffer"}
                      THEN "cancel" ELSE "done")
    /\ UNCHANGED <<vars, active, starting, run, flight, out, completed, issued>>

ReadStep(r) == Fallback(r) \/ ReadTurnEnded(r) \/ ReadEnd(r) \/ ReadParked(r)

ClientStep(r) ==
    \/ \E s \in Sessions : BeginStart(r, s)
    \/ \E ids \in SUBSET Tools, fu \in FollowUps : BeginResume(r, ids, fu)
    \/ GiveUp(r)

ExecutorInit == Init /\ ManagerInit

ExecutorNext ==
    \/ \E r \in Requests : RequestStep(r) \/ ReadStep(r) \/ ClientStep(r)
    \/ \E t \in Tokens : UpstreamStep(t) \/ FinishStep(t)
    \/ Restart

ExecutorSpec == ExecutorInit /\ [][ExecutorNext]_allVars

\* Go schedules every goroutine and returns from every store call, the run
\* timeout ends every run, and waitFollowUpSnapshot has its own timer.
\* Nothing obliges a client to start or to give up, or the upstream to act.
Fairness ==
    /\ \A r \in Requests : WF_allVars(RequestStep(r) \/ ReadStep(r))
    /\ \A t \in Tokens : WF_allVars(FinishStep(t)) /\ WF_allVars(RunReturns(t, TRUE))

FairSpec == ExecutorSpec /\ Fairness

-----------------------------------------------------------------------------
\* The manager and its requests use the session files only through the
\* operations of the store, whatever they interleave and wherever the process
\* dies: the composition implements StateStore.
ImplementsStore == Spec

\* A session has at most one run that has not been told to stop: Cancel stops
\* the old run before it releases the lease a new one needs.
OneUncancelledRun ==
    \A t, u \in Tokens :
        /\ Running(t) /\ ~run[t].cancelled
        /\ Running(u) /\ ~run[u].cancelled
        /\ lease[t].session = lease[u].session
        => t = u

\* "Publish idle only after persistence and lease release have finished": a
\* session whose lease is held is active or being started, or a Cancel that
\* took it has not finished.
IdleAfterRelease ==
    \A t \in Tokens :
        Holds(t) =>
            \/ active[lease[t].session] = t
            \/ lease[t].session \in starting
            \/ \E r \in Requests :
                  /\ req[r].pc \in {"cancelDelete", "cancelStop", "cancelRelease"}
                  /\ req[r].run = t

\* "Completion is visible only after its replay state has been saved": when a
\* request is sent its completion, a replay that answers the same results and
\* follow-up, or the history snapshot, is stored.
DoneAfterSaved ==
    [][\A r \in Requests :
          ~out[r].done /\ out'[r].done =>
             \E t \in Tokens :
                /\ run[t].last = r
                /\ lease[t].st = "released"
                /\ IF lease[t].session \in HistorySessions
                   THEN history[lease[t].session] # NoToken
                   ELSE run[t].seg # {} =>
                          \E c \in completed : /\ c.batch = run[t].seg
                                               /\ c.fu = run[t].fu]_allVars

\* However many requests carry a follow-up, its turn is answered by one run:
\* no run saves the answer of a follow-up that another run has saved before
\* (StartFollowUp, waitFollowUpSnapshot).
FollowUpRunsOnce ==
    [][\A t \in Tokens :
          /\ run[t].ph = "saving" /\ run'[t].ph = "landing"
          /\ run[t].fu # NoFollowUp /\ ~run'[t].err
          => \A c \in completed : c.batch = run[t].seg => c.fu # run[t].fu]_allVars

\* Of all requests with one history key at most one is answered by the model
\* itself; the others get its snapshot.
HistoryAnsweredOnce ==
    \A r, q \in Requests :
        /\ out[r].done /\ out[q].done
        /\ out[r].s = out[q].s
        /\ out[r].s \in HistorySessions
        => r = q

\* Results are handed to a run only for tools that are still pending there,
\* although managedSession.resume drops its lock between check and delivery.
ResultsStillPending ==
    [][\A r \in Requests :
          req[r].pc = "push" /\ req'[r].pc # "push" /\ Running(req[r].run) =>
             req[r].res \subseteq run[req[r].run].pend]_allVars

\* Every output that was handed out is closed in the end, whichever of run,
\* Park and Cancel comes first (the hung output of the cancel/resume race).
OutputsClose ==
    \A r \in Requests : out[r].st = "open" ~> out[r].st # "open"

\* Every request that is not waiting for another one's flight finishes.
RequestsFinish ==
    \A r \in Requests :
        req[r].pc \notin {"idle", "wait"} ~> req[r].pc \in {"done", "wait"}

\* A request that waits for another one's flight is answered.
FollowersAnswered ==
    \A r \in Requests : req[r].pc = "wait" ~> req[r].pc # "wait"

\* A flight ends with the replay of a turn that answered results of its own
\* batch, never with the turn before or after it.
FlightEndsWithOwnTurn ==
    \A r \in Requests :
        flight[r].st = "replay" => flight[r].of \subseteq flight[r].batch

\* A client that goes away does not take down a parked turn.
DisconnectKeepsParkedBatch ==
    [][\A r \in Requests :
          req[r].pc = "cancel" /\ req'[r].pc = "cancelDelete" =>
             LET m == run[active[req[r].s]] IN
             ~(m.ph = "running" /\ ~m.closed /\ m.out = NoReq /\ m.pend # {})]_allVars

\* A request cancels its own turn only.
CancelOnlyOwnTurn ==
    [][\A r \in Requests :
          req[r].pc = "cancel" /\ req'[r].pc = "cancelDelete" =>
             req'[r].took \in {r, NoReq}]_allVars
=============================================================================
