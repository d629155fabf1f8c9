------------------------------- MODULE Runner -------------------------------
(***************************************************************************)
(* Runner.Run (cursoragentv1/runner.go): one Agent v1 run, that is one     *)
(* HTTP/2 stream with the upstream.  The loop selects between the run's    *)
(* context, the idle timer, the channel of tool results and the frames of  *)
(* the stream.  Every iteration is an action; a chunk holds one frame,     *)
(* since the upstream may cut the stream anywhere.                         *)
(*                                                                         *)
(* Texts, arguments and replies are left out.  Every reply is a write that *)
(* may fail, which ends the run.  open, told and searching record the      *)
(* events emitted so far as AgentTurn reads them.                          *)
(***************************************************************************)
EXTENDS Integers, FiniteSets, Functions

CONSTANTS Calls,            \* ids of caller tool calls
          Hosted,           \* ids of hosted web calls
          Fetches,          \* the hosted calls that fetch; the others search
          Blobs,            \* keys of the KV store
          Requests,         \* the run requests considered
          MaxPendingTools,  \* maxPendingTools
          MaxBlob,          \* maxBlobSize
          MaxBlobs,         \* maxBlobStoreSize
          MaxFrames         \* bound: frames the upstream sends in one run

\* A RunRequest.  allow and require hold "search" and "fetch", require also
\* "any" (RequireHostedTool); maxUses limits the uses of each kind (no
\* limit is a number out of reach); catalog holds the calls of declared tools.
Request == [profile: {"agent", "sand", "invalid"}, history: BOOLEAN, resume: BOOLEAN,
            results: BOOLEAN, maxParallel: Nat, allow: SUBSET {"search", "fetch"},
            require: SUBSET {"search", "fetch", "any"}, maxUses: [{"search", "fetch"} -> Nat],
            catalog: SUBSET Calls]

\* The KV store is a map in memory.
ASSUME RunnerAssumption ==
    /\ Requests \subseteq Request
    /\ Fetches \subseteq Hosted
    /\ MaxPendingTools \in Nat /\ MaxBlob \in Nat /\ MaxBlobs \in Nat
    /\ MaxFrames \in Nat
    /\ IsFiniteSet(Blobs)

VARIABLES
    req,            \* the request
    st,             \* "opening", "running", "done", "failed"
    why,            \* the error of a failed run, where a property needs it
    open, told, searching,  \* see AgentTurn
    results,        \* request.ToolResults: results the manager has sent
    toldEver,       \* calls handed to the client so far
    pendingTools, queuedResults, parkSignaled, turnEnded, streamMCP,
    streamEver, execEver,   \* calls announced by a stream or an exec frame
    hosted,         \* openHosted, the ready ones, ids per use, what was executed
    blobs,          \* blobStore: the size of each blob
    blobBytes,
    frames          \* frames read

heardVars == <<turnEnded, streamMCP, streamEver, execEver>>
upstreamVars == <<heardVars, frames>>
toolVars == <<pendingTools, queuedResults, parkSignaled>>
eventVars == <<open, told, searching>>
blobVars == <<blobs, blobBytes>>
clientVars == <<results, toldEver>>
vars == <<req, st, why, eventVars, clientVars, toolVars, upstreamVars, hosted, blobVars>>

Kind(h) == IF h \in Fetches THEN "fetch" ELSE "search"
Total(f) == FoldFunction(+, 0, f)

NoHosted == [open |-> {}, ready |-> {}, search |-> {}, fetch |-> {}, ran |-> {}]

\* A run that has not begun, of any profile.
Fresh ==
    /\ req \in Requests
    /\ st = "opening" /\ why = "none"
    /\ open = {} /\ told = {} /\ searching = {}
    /\ results \in SUBSET req.catalog
    /\ results # {} => req.resume
    /\ toldEver = results
    /\ pendingTools = {} /\ queuedResults = {} /\ parkSignaled = FALSE
    /\ turnEnded = FALSE /\ streamMCP = {} /\ streamEver = {} /\ execEver = {}
    /\ hosted = NoHosted
    /\ blobs \in [Blobs -> 0..(MaxBlob + 1)]
    /\ blobBytes = 0
    /\ frames = 0

Init == Fresh /\ req.profile = "agent"

\* A return with an error.
Fail(w) ==
    /\ st' = "failed"
    /\ why' = w
    /\ UNCHANGED <<req, eventVars, clientVars, toolVars, heardVars, hosted, blobVars>>

\* validateBlobStore.
BlobsValid == /\ \A b \in Blobs : blobs[b] <= MaxBlob
              /\ Total(blobs) <= MaxBlobs

\* Everything before the loop: the payload, the blob budget, the stream.
Open ==
    /\ st = "opening"
    /\ \/ /\ BlobsValid
          /\ st' = "running"
          /\ blobBytes' = Total(blobs)
          /\ UNCHANGED <<req, why, eventVars, clientVars, toolVars, upstreamVars, hosted, blobs>>
       \/ Fail("other") /\ UNCHANGED frames

Running == st = "running"

\* The context of the run ends.
Cancelled == Running /\ Fail("other") /\ UNCHANGED frames

\* Mutant of IdleTimeout: the timer is always set again.
IdleTimeoutRearms == FALSE /\ UNCHANGED vars

\* The idle timer fires.  While a call is pending it is only set again.
IdleTimeout == Running /\ pendingTools = {} /\ Fail("other") /\ UNCHANGED frames

\* A frame of the stream; bounded.
Frame == Running /\ frames < MaxFrames /\ frames' = frames + 1

\* The stream breaks, a frame cannot be decoded, the trailer or a frame
\* carries an error, an exec is aborted or unsupported.
BadFrame == Frame /\ Fail("other")

(***************************************************************************)
(* Tool results.                                                           *)
(***************************************************************************)
\* The manager delivers a result of a call it has handed to the client.  It
\* may come late (manager.go:759-772), for a call that is answered already.
Submit(x) ==
    /\ st \in {"opening", "running"}
    /\ req.results /\ ~req.history
    /\ x \in toldEver
    /\ results' = results \cup {x}
    /\ UNCHANGED <<req, st, why, eventVars, toldEver, toolVars, upstreamVars, hosted, blobVars>>

\* Mutant of SendToolResult: the flag survives the last answer.
SendToolResultParked(x, P) ==
    /\ pendingTools' = P \ {x}
    /\ parkSignaled' = parkSignaled
    /\ open' = open \ {x}
    /\ told' = told \ {x}

\* sendToolResult after a successful write; P is what was pending before it.
SendToolResult(x, P) ==
    /\ pendingTools' = P \ {x}
    /\ parkSignaled' = (parkSignaled /\ P \ {x} # {})
    /\ open' = open \ {x}
    /\ told' = told \ {x}

TakeResult(x) ==
    /\ Running
    /\ x \in results
    /\ \/ /\ x \in pendingTools
          /\ SendToolResult(x, pendingTools)
          /\ results' = results \ {x}
          /\ UNCHANGED <<req, st, why, searching, toldEver, queuedResults, upstreamVars,
                         hosted, blobVars>>
       \/ /\ x \notin pendingTools
          /\ Cardinality(queuedResults) < MaxPendingTools
          /\ queuedResults' = queuedResults \cup {x}
          /\ results' = results \ {x}
          /\ UNCHANGED <<req, st, why, eventVars, toldEver, pendingTools, parkSignaled,
                         upstreamVars, hosted, blobVars>>
       \/ (* the write fails, or too many results are queued *)
          /\ x \in pendingTools \/ Cardinality(queuedResults) >= MaxPendingTools
          /\ Fail("other")
          /\ UNCHANGED frames

(***************************************************************************)
(* Caller tools.                                                           *)
(***************************************************************************)
\* recordStreamMCP.  Partial frames and tools outside the catalog are ignored.
RecordStreamMCP(x) ==
    /\ Frame
    /\ x \in req.catalog \ pendingTools
    /\ streamMCP' = streamMCP \cup {x}
    /\ streamEver' = streamEver \cup {x}
    /\ UNCHANGED <<req, st, why, eventVars, clientVars, toolVars, turnEnded, execEver,
                   hosted, blobVars>>

\* A new call beyond the limit of the gateway or of the client.
TooMany(x) ==
    /\ x \notin pendingTools
    /\ \/ Cardinality(pendingTools) >= MaxPendingTools
       \/ req.maxParallel > 0 /\ Cardinality(pendingTools) >= req.maxParallel

\* The exec frame of a caller tool finds its result queued: it is answered at
\* once and nothing is announced.
AnswerQueued(x) ==
    /\ queuedResults' = queuedResults \ {x}
    /\ SendToolResult(x, pendingTools \cup {x})
    /\ UNCHANGED <<st, toldEver>>

\* Otherwise the call is announced.  A history run ends here; a serial client
\* gets the turn boundary with it.
Announce(x) ==
    LET park == ~req.history /\ req.maxParallel = 1 /\ ~parkSignaled
    IN /\ pendingTools' = pendingTools \cup {x}
       /\ parkSignaled' = (parkSignaled \/ park)
       /\ open' = open \cup {x}
       /\ told' = IF park THEN open' ELSE told
       /\ toldEver' = IF park THEN toldEver \cup open' ELSE toldEver
       /\ st' = IF req.history THEN "done" ELSE st
       /\ UNCHANGED queuedResults

\* Mutant of Queued: the queue is not consulted.
QueuedIgnored(x) == FALSE

Queued(x) == x \in queuedResults

ExecMCP(x) ==
    /\ Frame
    /\ req.results
    /\ ~TooMany(x)
    /\ streamMCP' = streamMCP \ {x}
    /\ execEver' = execEver \cup {x}
    /\ IF Queued(x) THEN AnswerQueued(x) ELSE Announce(x)
    /\ UNCHANGED <<req, why, searching, results, turnEnded, streamEver, hosted, blobVars>>

\* The same frame when it is over a limit or the queued answer cannot be sent.
ExecMCPFails(x) ==
    /\ Frame
    /\ req.results
    /\ TooMany(x) \/ Queued(x)
    /\ Fail("other")

\* Without a result channel the call is rejected: one of the frames that are
\* only answered.  The others are KV reads, the request context, allowlist
\* checks, questions, plans and the rejected execs of the workspace (shell,
\* read, write, delete, list, grep, fetch, diagnostics).
Reply ==
    /\ Frame
    /\ \/ UNCHANGED <<req, st, why, eventVars, clientVars, toolVars, heardVars, hosted, blobVars>>
       \/ Fail("other")

\* turnEnded: a boundary for the calls the client has not been handed yet.
TurnEnded ==
    /\ Frame
    /\ turnEnded' = TRUE
    /\ LET park == pendingTools # {} /\ ~parkSignaled
       IN /\ parkSignaled' = (parkSignaled \/ park)
          /\ told' = IF park THEN open ELSE told
          /\ toldEver' = IF park THEN toldEver \cup open ELSE toldEver
    /\ UNCHANGED <<req, st, why, open, searching, results, pendingTools, queuedResults,
                   streamMCP, streamEver, execEver, hosted, blobVars>>

(***************************************************************************)
(* Hosted web tools and the KV store.                                      *)
(***************************************************************************)
\* applyHostedSearchMessage: started, delta and completed frames.  A start is
\* announced when the arguments are first complete; ready says the frame
\* completes them.
HostedFrame(h, completed, ready) ==
    /\ Frame
    /\ Kind(h) \in req.allow
    /\ LET now == ready \/ h \in hosted.ready
           starts == ~completed /\ now /\ h \notin hosted.ready
       IN /\ hosted' = [hosted EXCEPT
                          !.open = IF completed THEN @ \ {h} ELSE @ \cup {h},
                          !.ready = IF completed THEN @ \ {h} ELSE IF now THEN @ \cup {h} ELSE @,
                          !.ran = IF completed \/ starts THEN @ \cup {Kind(h)} ELSE @]
          /\ searching' = IF completed THEN searching \ {h}
                          ELSE IF starts THEN searching \cup {h} ELSE searching
    /\ UNCHANGED <<req, st, why, open, told, clientVars, toolVars, heardVars, blobVars>>

HostedFrameRefused(h) == Frame /\ Kind(h) \notin req.allow /\ Fail("other")

\* hostedUseTracker.allow, for an id seen before or below max_uses.
Allowed(h) ==
    LET ids == hosted[Kind(h)]
    IN Kind(h) \in req.allow /\ (h \in ids \/ Cardinality(ids) < req.maxUses[Kind(h)])

\* An interaction query for a hosted tool: approved and counted, or rejected
\* (Reply).  hosted[k] holds the ids approved for kind k.
Approve(h) ==
    /\ Frame
    /\ Allowed(h)
    /\ \/ /\ hosted' = [hosted EXCEPT ![Kind(h)] = @ \cup {h}]
          /\ UNCHANGED <<req, st, why, eventVars, clientVars, toolVars, heardVars, blobVars>>
       \/ Fail("other")

\* Mutant of BytesAfter: an overwritten blob is counted twice.
BytesAfterAdded(b, n) == blobBytes + n

BytesAfter(b, n) == blobBytes - blobs[b] + n

\* storeBlob and its reply.
StoreBlob(b, n) ==
    /\ Frame
    /\ \/ /\ n <= MaxBlob
          /\ BytesAfter(b, n) <= MaxBlobs
          /\ blobs' = [blobs EXCEPT ![b] = n]
          /\ blobBytes' = BytesAfter(b, n)
          /\ UNCHANGED <<req, st, why, eventVars, clientVars, toolVars, heardVars, hosted>>
       \/ Fail("other")

(***************************************************************************)
(* The end-of-stream trailer.                                              *)
(***************************************************************************)
RequiredRan ==
    \/ req.resume
    \/ /\ req.require \ {"any"} \subseteq hosted.ran
       /\ "any" \in req.require => hosted.ran # {}

\* Mutant of MayFinish: pending calls do not keep a stream from ending well.
MayFinishPending == turnEnded /\ streamMCP = {} /\ hosted.open = {} /\ RequiredRan

\* Mutant of MayFinish: announced calls without exec are not looked at.
MayFinishUnmatched == turnEnded /\ pendingTools = {} /\ hosted.open = {} /\ RequiredRan

MayFinish == /\ turnEnded
             /\ pendingTools = {}
             /\ streamMCP = {}
             /\ hosted.open = {}
             /\ RequiredRan

Trailer ==
    /\ Frame
    /\ IF MayFinish
       THEN /\ st' = "done"
            /\ UNCHANGED <<req, why, eventVars, clientVars, toolVars, heardVars, hosted, blobVars>>
       ELSE Fail(IF turnEnded /\ pendingTools = {} /\ streamMCP # {}
                 THEN "unmatched" ELSE "other")

Next ==
    \/ Open \/ Cancelled \/ IdleTimeout \/ BadFrame \/ Reply \/ TurnEnded \/ Trailer
    \/ \E x \in Calls : \/ Submit(x) \/ TakeResult(x) \/ RecordStreamMCP(x)
                        \/ ExecMCP(x) \/ ExecMCPFails(x)
    \/ \E h \in Hosted : \/ HostedFrameRefused(h) \/ Approve(h)
                         \/ \E c, r \in BOOLEAN : HostedFrame(h, c, r)
    \/ \E b \in Blobs, n \in 0..(MaxBlob + 1) : StoreBlob(b, n)

Spec == Init /\ [][Next]_vars

(***************************************************************************)
(* Properties.                                                             *)
(***************************************************************************)
\* Type invariant of the run's state (the locals of Run, runner.go:278-286).
TypeOK ==
    /\ req \in Requests
    /\ st \in {"opening", "running", "done", "failed"}
    /\ why \in {"none", "unmatched", "other"}
    /\ open \subseteq Calls /\ told \subseteq Calls /\ searching \subseteq Hosted
    /\ results \subseteq Calls /\ toldEver \subseteq Calls
    /\ pendingTools \subseteq Calls /\ queuedResults \subseteq Calls
    /\ parkSignaled \in BOOLEAN /\ turnEnded \in BOOLEAN
    /\ streamMCP \subseteq Calls /\ streamEver \subseteq Calls /\ execEver \subseteq Calls
    /\ hosted \in [open: SUBSET Hosted, ready: SUBSET Hosted, search: SUBSET Hosted,
                   fetch: SUBSET Hosted, ran: SUBSET {"search", "fetch"}]
    /\ blobs \in [Blobs -> 0..(MaxBlob + 1)]
    /\ blobBytes \in Nat
    /\ frames \in 0..MaxFrames

\* A serial client (every production Agent v1 request, translate.go:150-157)
\* is handed each call it has to answer: no call stays open without a turn
\* boundary, however calls, answers and turnEnded frames interleave.  A call
\* without boundary would leave client and upstream waiting for each other,
\* since the idle timer does not fire while a call is pending.
SerialCallsTold ==
    Running /\ req.profile = "agent" /\ req.maxParallel = 1 => open \subseteq told

\* No call waits for a result that was delivered before it: a result without
\* its call is queued, and the exec frame that arrives later finds it.
NoResultWaitsForItsCall ==
    Running => queuedResults \cap pendingTools = {}

\* A caller tool cannot vanish (recordStreamMCP): a turn that completes has
\* seen the exec of every catalogued call the stream announced, in whatever
\* order exec and announcement came.
NoVanishedCall ==
    st = "done" /\ ~req.history => streamEver \subseteq execEver

\* The budget of the KV store is the sum of its blobs and is respected after
\* any sequence of writes and overwrites (storeBlob, validateBlobStore).
BlobAccounting ==
    Running /\ req.profile = "agent" =>
        /\ blobBytes = Total(blobs)
        /\ blobBytes <= MaxBlobs
        /\ \A b \in Blobs : blobs[b] <= MaxBlob

Turn == INSTANCE AgentTurn WITH handoff <- req.history,
                                st <- IF st = "opening" THEN "running" ELSE st

\* The run emits its events as AgentTurn says: completion only when every
\* call is answered and every search closed (or, for a history request, with
\* the call handed over), and nothing after the end.
ImplementsAgentTurn == Turn!Spec

\* What the trailer reports as "without a matching exec" (runner.go:365-367)
\* had no exec.
UnmatchedHadNoExec ==
    why = "unmatched" => ~(streamMCP \subseteq execEver)
=============================================================================
