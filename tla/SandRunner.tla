----------------------------- MODULE SandRunner -----------------------------
(***************************************************************************)
(* InferenceRunner.Run (cursoragentv1/inference_runner.go): a turn of the  *)
(* Sand profile.  Unlike Agent v1 each segment is a request of its own:    *)
(* prepare (wait for one tool result when the segment continues a turn),   *)
(* post, read the stream, run the hosted web calls, write the checkpoint,  *)
(* and either end or prepare the next segment.                             *)
(*                                                                         *)
(* The variables shared with Runner are those of one run of the manager.   *)
(***************************************************************************)
EXTENDS Naturals, FiniteSets, Sequences

CONSTANTS Calls, Hosted, Fetches, Requests,
          MaxPendingTools,
          MaxSteps,    \* maxInferenceHostedSteps
          MaxUses,     \* maxInferenceHostedUses
          MaxFrames

VARIABLES req, st, why, open, told, searching, results, toldEver, frames,
          seg   \* the locals of Run and of the current segment

eventVars == <<open, told, searching>>
clientVars == <<results, toldEver>>
vars == <<req, st, why, eventVars, clientVars, frames, seg>>

None == "none"

\* resume: the segment waits for a result; accepted: the result it carries;
\* known: the calls in the checkpoint; calls: incomplete ones; completed: the
\* complete ones; seen: a caller tool was among them; hosted: hosted calls to
\* run, ran: some were run; emitted: an event other than the acceptance;
\* sig: the history carries a signature Cursor minted; newSig: this segment
\* produced one; dropping: signatures are no longer sent; search, fetch and
\* steps count uses and hosted segments.
Segment == [ph: {"prepare", "post", "stream", "execute", "end"},
            resume: BOOLEAN, accepted: Calls \cup {None}, known: SUBSET Calls,
            calls: SUBSET (Calls \cup Hosted), completed: SUBSET Calls, seen: BOOLEAN,
            hosted: Seq(Hosted), ran: BOOLEAN, emitted: BOOLEAN, sig: BOOLEAN,
            newSig: BOOLEAN, dropping: BOOLEAN, search: 0..MaxUses, fetch: 0..MaxUses,
            steps: 0..MaxSteps]

FirstSegment == [ph |-> "prepare", resume |-> req.resume, accepted |-> None,
                 known |-> {}, calls |-> {}, completed |-> {},
                 seen |-> FALSE, hosted |-> <<>>, ran |-> FALSE,
                 emitted |-> FALSE, sig |-> FALSE, newSig |-> FALSE, dropping |-> FALSE,
                 search |-> 0, fetch |-> 0, steps |-> 0]

\* A resumed turn starts from the checkpoint of an earlier run, which has its
\* calls unless that run died between the call and the checkpoint.
Init == \E s \in BOOLEAN, K \in SUBSET results :
          seg = [FirstSegment EXCEPT !.sig = s, !.known = K]

Running == st \in {"opening", "running"}
At(ph) == Running /\ seg.ph = ph

Fail == /\ st' = "failed" /\ why' = "other"
        /\ UNCHANGED <<req, eventVars, clientVars, seg>>

\* The context ends, the request cannot be built or sent, the status is not
\* 200, the stream breaks or carries an error part.  Reading has no timeout.
Broken == Running /\ Fail /\ UNCHANGED frames

Frame == At("stream") /\ frames < MaxFrames /\ frames' = frames + 1

\* prepareInferenceRun: a continued segment takes one result, which has to
\* belong to a call of the checkpoint.
Prepare ==
    /\ At("prepare")
    /\ UNCHANGED <<req, why, eventVars, toldEver, frames>>
    /\ st' = "running"
    /\ IF seg.resume
       THEN \E x \in results \cap seg.known :
              /\ results' = results \ {x}
              /\ seg' = [seg EXCEPT !.ph = "post", !.accepted = x, !.resume = FALSE]
       ELSE /\ seg' = [seg EXCEPT !.ph = "post", !.accepted = None]
            /\ UNCHANGED results

PrepareMismatch ==
    /\ At("prepare") /\ seg.resume
    /\ ~req.results \/ results \ seg.known # {}
    /\ Fail
    /\ UNCHANGED frames

\* The manager delivers the result of a call it has handed to the client.
Submit(x) ==
    /\ Running
    /\ req.results /\ ~req.history
    /\ x \in told
    /\ seg.accepted # x
    /\ results' = results \cup {x}
    /\ UNCHANGED <<req, st, why, eventVars, toldEver, frames, seg>>

\* runInferenceSegment: the upstream answers 200, which accepts the result.
Post ==
    /\ At("post")
    /\ open' = open \ {seg.accepted}
    /\ told' = told \ {seg.accepted}
    /\ seg' = [seg EXCEPT !.ph = "stream", !.accepted = None, !.calls = {}, !.completed = {},
                          !.seen = FALSE, !.hosted = <<>>, !.ran = FALSE, !.newSig = FALSE]
    /\ UNCHANGED <<req, st, why, searching, clientVars, frames>>

\* The upstream refuses the signatures before anything was emitted: the
\* segment is sent once more without them, the result is not accepted again.
RetryWithoutSignatures ==
    /\ Frame
    /\ ~seg.emitted /\ ~seg.dropping /\ seg.sig
    /\ seg' = [seg EXCEPT !.ph = "post", !.accepted = None, !.sig = FALSE, !.dropping = TRUE]
    /\ UNCHANGED <<req, st, why, eventVars, clientVars>>

\* Text, thinking, or the signature that closes a thinking block.
Part(signs) ==
    /\ Frame
    /\ seg' = [seg EXCEPT !.emitted = TRUE, !.newSig = @ \/ signs]
    /\ UNCHANGED <<req, st, why, eventVars, clientVars>>

\* The limits count the calls whose arguments are still streaming.
TooMany(x) ==
    /\ x \notin seg.calls
    /\ \/ Cardinality(seg.calls) >= MaxPendingTools
       \/ req.maxParallel > 0 /\ Cardinality(seg.calls) >= req.maxParallel

Kind(h) == IF h \in Fetches THEN "fetch" ELSE "search"

\* attachInferenceHostedTools: a hosted tool without uses is not declared.
Declared(x) ==
    x \in Hosted => Kind(x) \in req.allow /\ req.maxUses[Kind(x)] > 0

\* A part of a tool call; the last part of a caller tool announces it.
ToolPart(x, final) ==
    /\ Frame
    /\ ~TooMany(x)
    /\ final => Declared(x)
    /\ seg' = [seg EXCEPT
                 !.calls = IF final THEN @ \ {x} ELSE @ \cup {x},
                 !.completed = IF final /\ x \in Calls THEN @ \cup {x} ELSE @,
                 !.seen = @ \/ (final /\ x \in Calls),
                 !.emitted = @ \/ (final /\ x \in Calls),
                 !.hosted = IF final /\ x \in Hosted THEN Append(@, x) ELSE @]
    /\ open' = IF final /\ x \in Calls THEN open \cup {x} ELSE open
    /\ UNCHANGED <<req, st, why, told, searching, clientVars>>

\* A part over the limit, without name, or of an undeclared tool.
ToolPartFails == Frame /\ Fail

Trailer ==
    /\ Frame
    /\ IF seg.calls = {}
       THEN /\ seg' = [seg EXCEPT !.ph = "execute", !.emitted = TRUE]
            /\ UNCHANGED <<req, st, why, eventVars, clientVars>>
       ELSE Fail

Least(m, n) == IF m < n THEN m ELSE n

\* Mutant of MayUse: one use too many.
MayUseOneMore(h) == seg[Kind(h)] <= Least(MaxUses, req.maxUses[Kind(h)])

\* inferenceHostedUseTracker.allow.
MayUse(h) == seg[Kind(h)] < Least(MaxUses, req.maxUses[Kind(h)])

\* executeInferenceHostedCall, one call after the other; each is a request.
\* The search is announced as started and completed at once.
Execute ==
    /\ At("execute")
    /\ seg.hosted # <<>>
    /\ MayUse(Head(seg.hosted))
    /\ seg' = [seg EXCEPT !.hosted = Tail(@), !.ran = TRUE, ![Kind(Head(seg.hosted))] = @ + 1]
    /\ UNCHANGED <<req, st, why, eventVars, clientVars, frames>>

ExecuteFails ==
    /\ At("execute")
    /\ seg.hosted # <<>>
    /\ Fail
    /\ UNCHANGED frames

\* Mutant of Known: the calls of this segment do not get into the checkpoint.
KnownBefore == seg.known

Known == seg.known \cup seg.completed

\* The usage and the checkpoint (not for a history request without hosted
\* calls); invalid arguments make it fail (Broken).
Save ==
    /\ At("execute")
    /\ seg.hosted = <<>>
    /\ seg' = IF ~req.history \/ seg.ran
              THEN [seg EXCEPT !.ph = "end", !.known = Known, !.sig = @ \/ seg.newSig]
              ELSE [seg EXCEPT !.ph = "end"]
    /\ UNCHANGED <<req, st, why, eventVars, clientVars, frames>>

Again(resume) == [seg EXCEPT !.ph = "prepare", !.resume = resume, !.emitted = FALSE]

\* A caller tool was called and the results will come on this run.
EndParks ==
    /\ At("end")
    /\ seg.seen /\ ~req.history
    /\ told' = open
    /\ toldEver' = toldEver \cup open
    /\ seg' = Again(TRUE)
    /\ UNCHANGED <<req, st, why, open, searching, results, frames>>

\* Only hosted tools were called: the model goes on with their results.
EndContinues ==
    /\ At("end")
    /\ ~seg.seen /\ seg.ran
    /\ IF seg.steps + 1 >= MaxSteps
       THEN Fail
       ELSE /\ seg' = [Again(FALSE) EXCEPT !.steps = @ + 1]
            /\ UNCHANGED <<req, st, why, eventVars, clientVars>>
    /\ UNCHANGED frames

\* validateRequired.
RequiredRan ==
    /\ "search" \in req.require => seg.search > 0
    /\ "fetch" \in req.require => seg.fetch > 0
    /\ "any" \in req.require => seg.search + seg.fetch > 0

\* The run returns: with its completion or, for a history request that also
\* ran hosted tools, with the turn boundary only.
EndReturns ==
    /\ At("end")
    /\ IF seg.seen THEN req.history ELSE ~seg.ran
    /\ told' = IF seg.seen THEN open ELSE told
    /\ toldEver' = IF seg.seen THEN toldEver \cup open ELSE toldEver
    /\ IF (seg.seen /\ seg.ran) \/ RequiredRan
       THEN st' = "done" /\ UNCHANGED why
       ELSE st' = "failed" /\ why' = "other"
    /\ UNCHANGED <<req, open, searching, results, frames, seg>>

Next ==
    \/ Broken \/ Prepare \/ PrepareMismatch \/ Post \/ RetryWithoutSignatures
    \/ ToolPartFails \/ Trailer \/ Execute \/ ExecuteFails \/ Save
    \/ EndParks \/ EndContinues \/ EndReturns
    \/ \E signs \in BOOLEAN : Part(signs)
    \/ \E x \in Calls : Submit(x)
    \/ \E x \in req.catalog \cup Hosted, final \in BOOLEAN : ToolPart(x, final)

(***************************************************************************)
(* Properties.                                                             *)
(***************************************************************************)
\* The locals of the run and of its segment (inference_runner.go:40-41,
\* 136-154) keep their types: counters stay below their limits.
SegmentOK == seg \in Segment

\* A call handed to the client can be continued: it is in the checkpoint that
\* was emitted before the boundary, so that its result is recognised whether
\* this run or, after a restart, another one takes it (prepareInferenceRun).
ToldCallsRecoverable ==
    Running /\ ~req.history => told \subseteq seg.known
=============================================================================
