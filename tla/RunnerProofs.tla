---------------------------- MODULE RunnerProofs ----------------------------
(***************************************************************************)
(* Proofs about ProfileRunner and Runner for any request, any number of    *)
(* calls and frames and any limits: the safety of a run of either profile, *)
(* and that an Agent v1 run implements AgentTurn.                          *)
(***************************************************************************)
EXTENDS ProfileRunner, SumTheorems, Sequences

\* The calls the manager knows to be open are the pending ones, and a search
\* it knows of is one the trailer still waits for.
Booked == req.profile = "agent" => open = pendingTools /\ searching \subseteq hosted.open

\* The boundary flag belongs to a pending call; calls are counted one by one.
Parked == IsFiniteSet(pendingTools) /\ (parkSignaled => pendingTools # {})

\* A queued result has no pending call.
Unanswered == queuedResults \cap pendingTools = {}

\* A call the stream announced waits for its exec or has had it.  Sand has no
\* such announcements.
Matched == /\ streamEver \subseteq streamMCP \cup execEver
           /\ req.profile # "agent" => streamEver = {}

\* SerialCallsTold, also before the stream is open.
Serial == st \in {"opening", "running"} /\ req.profile = "agent" /\ req.maxParallel = 1
            => open \subseteq told

AInv == /\ TypeOK /\ Booked /\ Parked /\ Unanswered /\ Matched
        /\ Serial /\ NoVanishedCall /\ BlobAccounting

-----------------------------------------------------------------------------
LEMMA TotalIsSum == ASSUME NEW f PROVE Total(f) = SumOf(f)
BY DEF Total, SumOf, FoldFunction, FoldFunctionOnSet, MapThenFoldSet

LEMMA TotalPrime == Total(blobs)' = Total(blobs')
BY DEF Total, FoldFunction, FoldFunctionOnSet, MapThenFoldSet

LEMMA TotalType == ASSUME TypeOK PROVE Total(blobs) \in Nat
<1>1. blobs \in [Blobs -> Nat] /\ IsFiniteSet(Blobs)
  BY RunnerAssumption DEF TypeOK
<1>2. SumOf(blobs) \in Nat
  BY <1>1, SumType
<1> QED BY <1>2, TotalIsSum

LEMMA TotalUpdate ==
    ASSUME TypeOK, NEW b \in Blobs, NEW n \in 0..(MaxBlob + 1)
    PROVE  Total([blobs EXCEPT ![b] = n]) = Total(blobs) - blobs[b] + n
<1>1. blobs \in [Blobs -> Nat] /\ IsFiniteSet(Blobs) /\ n \in Nat
  BY RunnerAssumption DEF TypeOK
<1>2. SumOf([blobs EXCEPT ![b] = n]) = SumOf(blobs) - blobs[b] + n
  BY <1>1, SumUpdate
<1> QED BY <1>2, TotalIsSum

LEMMA KindType == ASSUME NEW h PROVE Kind(h) \in {"search", "fetch"}
BY DEF Kind

LEMMA RequestFields ==
    ASSUME TypeOK
    PROVE  /\ req \in Request /\ req.history \in BOOLEAN /\ req.maxParallel \in Nat
           /\ req.maxUses \in [{"search", "fetch"} -> Nat] /\ req.catalog \subseteq Calls
BY RunnerAssumption DEF TypeOK, Request

LEMMA FreshInvariant == Fresh => AInv
<1> SUFFICES ASSUME Fresh PROVE AInv
  OBVIOUS
<1> USE RunnerAssumption DEF Fresh
<1>1. TypeOK
  <2>1. results \subseteq Calls /\ toldEver \subseteq Calls
    BY DEF Request
  <2>2. hosted \in [open: SUBSET Hosted, ready: SUBSET Hosted, search: SUBSET Hosted,
                    fetch: SUBSET Hosted, ran: SUBSET {"search", "fetch"}]
    BY DEF NoHosted
  <2>3. blobs \in [Blobs -> 0..(MaxBlob + 1)] /\ blobBytes \in Nat /\ frames \in 0..MaxFrames
    OBVIOUS
  <2>4. parkSignaled \in BOOLEAN /\ turnEnded \in BOOLEAN /\ req \in Requests
    OBVIOUS
  <2>5. /\ open \subseteq Calls /\ told \subseteq Calls /\ searching \subseteq Hosted
        /\ pendingTools \subseteq Calls /\ queuedResults \subseteq Calls
        /\ streamMCP \subseteq Calls /\ streamEver \subseteq Calls /\ execEver \subseteq Calls
    OBVIOUS
  <2> QED BY <2>1, <2>2, <2>3, <2>4, <2>5 DEF TypeOK
<1>2. Booked /\ Unanswered /\ Matched
  BY DEF Booked, Unanswered, Matched, NoHosted
<1>3. Parked
  BY FS_EmptySet DEF Parked
<1>4. Serial /\ NoVanishedCall /\ BlobAccounting
  BY DEF Serial, NoVanishedCall, BlobAccounting, Running
<1> QED BY <1>1, <1>2, <1>3, <1>4 DEF AInv

-----------------------------------------------------------------------------
(***************************************************************************)
(* Agent v1.  A step that fails changes nothing but how the run ended.     *)
(***************************************************************************)
LEMMA FailStep ==
    ASSUME AInv, NEW w \in {"unmatched", "other"}, Fail(w), frames' \in 0..MaxFrames
    PROVE  AInv'
<1> USE DEF Fail, eventVars, clientVars, toolVars, heardVars, blobVars
<1>1. TypeOK'
  BY DEF AInv, TypeOK
<1>2. Booked' /\ Parked' /\ Unanswered' /\ Matched'
  BY DEF AInv, Booked, Parked, Unanswered, Matched
<1>3. Serial' /\ NoVanishedCall' /\ BlobAccounting'
  BY DEF Serial, NoVanishedCall, BlobAccounting, Running
<1> QED BY <1>1, <1>2, <1>3 DEF AInv

LEMMA FrameType == ASSUME AInv, Frame PROVE frames' \in 0..MaxFrames
BY RunnerAssumption DEF AInv, TypeOK, Frame

LEMMA OpenStep == ASSUME AInv, Open PROVE AInv'
<1>1. CASE Fail("other") /\ UNCHANGED frames
  BY <1>1, FailStep DEF AInv, TypeOK
<1>2. CASE /\ BlobsValid
           /\ st' = "running"
           /\ blobBytes' = Total(blobs)
           /\ UNCHANGED <<req, why, eventVars, clientVars, toolVars, upstreamVars, hosted, blobs>>
  <2> USE <1>2 DEF eventVars, clientVars, toolVars, upstreamVars, heardVars
  <2>1. Total(blobs) \in Nat
    BY TotalType DEF AInv
  <2>2. TypeOK'
    BY <2>1 DEF AInv, TypeOK
  <2>3. Booked' /\ Parked' /\ Unanswered' /\ Matched'
    BY DEF AInv, Booked, Parked, Unanswered, Matched
  <2>4. BlobAccounting'
    BY <2>1, TotalPrime DEF BlobAccounting, BlobsValid
  <2>5. Serial' /\ NoVanishedCall'
    BY DEF AInv, Serial, NoVanishedCall, Open
  <2> QED BY <2>2, <2>3, <2>4, <2>5 DEF AInv
<1> QED BY <1>1, <1>2 DEF Open

LEMMA SubmitStep == ASSUME AInv, NEW x \in Calls, Submit(x) PROVE AInv'
<1> USE DEF Submit, eventVars, toolVars, upstreamVars, heardVars, blobVars
<1>1. TypeOK'
  BY DEF AInv, TypeOK
<1>2. Booked' /\ Parked' /\ Unanswered' /\ Matched'
  BY DEF AInv, Booked, Parked, Unanswered, Matched
<1>3. Serial' /\ NoVanishedCall' /\ BlobAccounting'
  BY TotalPrime DEF AInv, Serial, NoVanishedCall, BlobAccounting, Running
<1> QED BY <1>1, <1>2, <1>3 DEF AInv

\* An answered call leaves the pending ones and takes the flag with the last.
LEMMA TakeResultStep == ASSUME AInv, req.profile = "agent", NEW x \in Calls, TakeResult(x) PROVE AInv'
<1>1. CASE /\ x \in pendingTools
           /\ SendToolResult(x, pendingTools)
           /\ results' = results \ {x}
           /\ UNCHANGED <<req, st, why, searching, toldEver, queuedResults, upstreamVars,
                          hosted, blobVars>>
  <2> USE <1>1 DEF SendToolResult, upstreamVars, heardVars, blobVars
  <2>1. TypeOK'
    BY DEF AInv, TypeOK
  <2>2. Booked' /\ Unanswered' /\ Matched'
    BY DEF AInv, Booked, Unanswered, Matched
  <2>3. Parked'
    BY FS_RemoveElement DEF AInv, Parked
  <2>4. Serial' /\ NoVanishedCall'
    BY DEF AInv, Serial, NoVanishedCall
  <2>5. BlobAccounting'
    BY TotalPrime DEF AInv, BlobAccounting, Running
  <2> QED BY <2>1, <2>2, <2>3, <2>4, <2>5 DEF AInv
<1>2. CASE /\ x \notin pendingTools
           /\ queuedResults' = queuedResults \cup {x}
           /\ results' = results \ {x}
           /\ UNCHANGED <<req, st, why, eventVars, toldEver, pendingTools, parkSignaled,
                          upstreamVars, hosted, blobVars>>
  <2> USE <1>2 DEF eventVars, upstreamVars, heardVars, blobVars
  <2>1. TypeOK'
    BY DEF AInv, TypeOK
  <2>2. Booked' /\ Parked' /\ Unanswered' /\ Matched'
    BY DEF AInv, Booked, Parked, Unanswered, Matched
  <2>3. Serial' /\ NoVanishedCall' /\ BlobAccounting'
    BY TotalPrime DEF AInv, Serial, NoVanishedCall, BlobAccounting, Running
  <2> QED BY <2>1, <2>2, <2>3 DEF AInv
<1>3. CASE Fail("other") /\ UNCHANGED frames
  BY <1>3, FailStep DEF AInv, TypeOK
<1> QED BY <1>1, <1>2, <1>3 DEF TakeResult

LEMMA RecordStreamMCPStep ==
    ASSUME AInv, req.profile = "agent", NEW x \in Calls, RecordStreamMCP(x) PROVE AInv'
<1> USE DEF RecordStreamMCP, eventVars, clientVars, toolVars, blobVars
<1>1. TypeOK'
  BY FrameType DEF AInv, TypeOK
<1>2. Booked' /\ Parked' /\ Unanswered' /\ Matched'
  BY DEF AInv, Booked, Parked, Unanswered, Matched
<1>3. Serial' /\ NoVanishedCall' /\ BlobAccounting'
  BY TotalPrime DEF AInv, Serial, NoVanishedCall, BlobAccounting, Running, Frame
<1> QED BY <1>1, <1>2, <1>3 DEF AInv

\* A serial client that has a call pending gets no second one.
LEMMA SerialPending ==
    ASSUME AInv, NEW x, ~TooMany(x), req.maxParallel = 1
    PROVE  x \in pendingTools \/ pendingTools = {}
<1>1. Cardinality(pendingTools) \in Nat /\ (Cardinality(pendingTools) = 0 <=> pendingTools = {})
  BY FS_CardinalityType, FS_EmptySet DEF AInv, Parked
<1> QED BY <1>1 DEF TooMany

LEMMA ExecMCPStep ==
    ASSUME AInv, req.profile = "agent", NEW x \in Calls, ExecMCP(x) PROVE AInv'
<1>1. /\ frames' \in 0..MaxFrames /\ st = "running" /\ ~TooMany(x)
      /\ streamMCP' = streamMCP \ {x} /\ execEver' = execEver \cup {x}
      /\ UNCHANGED <<req, why, searching, results, turnEnded, streamEver, hosted, blobs, blobBytes>>
  BY FrameType DEF ExecMCP, Frame, Running, blobVars
<1>2. IsFiniteSet(pendingTools \cup {x}) /\ IsFiniteSet((pendingTools \cup {x}) \ {x})
  BY FS_AddElement, FS_RemoveElement DEF AInv, Parked
<1>3. Matched'
  BY <1>1 DEF AInv, Matched
<1>4. CASE AnswerQueued(x)
  <2> USE <1>1, <1>4 DEF AnswerQueued, SendToolResult
  <2>1. TypeOK'
    BY DEF AInv, TypeOK
  <2>2. Booked' /\ Unanswered'
    BY DEF AInv, Booked, Unanswered
  <2>3. Parked'
    BY <1>2 DEF AInv, Parked
  <2>4. Serial' /\ NoVanishedCall' /\ BlobAccounting'
    BY TotalPrime DEF AInv, Serial, NoVanishedCall, BlobAccounting, Running
  <2> QED BY <1>3, <2>1, <2>2, <2>3, <2>4 DEF AInv
<1>5. CASE Announce(x) /\ ~Queued(x)
  <2> USE <1>1, <1>5 DEF Announce, Queued
  <2>1. TypeOK'
    <3>1. open' \subseteq Calls /\ told' \subseteq Calls /\ toldEver' \subseteq Calls
      BY DEF AInv, TypeOK
    <3>2. parkSignaled' \in BOOLEAN /\ st' \in {"opening", "running", "done", "failed"}
      BY DEF AInv, TypeOK
    <3> QED BY <3>1, <3>2 DEF AInv, TypeOK
  <2>2. Booked' /\ Unanswered'
    BY DEF AInv, Booked, Unanswered
  <2>3. Parked'
    BY <1>2 DEF AInv, Parked
  <2>4. Serial'
    <3> SUFFICES ASSUME ~req.history, req.maxParallel = 1 PROVE open' \subseteq told'
      BY RequestFields DEF AInv, Serial
    <3>1. CASE parkSignaled
      <4>1. x \in pendingTools
        BY <3>1, SerialPending DEF AInv, Parked
      <4> QED BY <3>1, <4>1 DEF AInv, Booked, Serial
    <3>2. CASE ~parkSignaled
      BY <3>2
    <3> QED BY <3>1, <3>2
  <2>5. NoVanishedCall' /\ BlobAccounting'
    BY TotalPrime, RequestFields DEF AInv, NoVanishedCall, BlobAccounting, Running
  <2> QED BY <1>3, <2>1, <2>2, <2>3, <2>4, <2>5 DEF AInv
<1> QED BY <1>4, <1>5 DEF ExecMCP

LEMMA TurnEndedStep == ASSUME AInv, req.profile = "agent", TurnEnded PROVE AInv'
<1> USE DEF TurnEnded, blobVars
<1>1. TypeOK'
  <2>1. told' \subseteq Calls /\ toldEver' \subseteq Calls /\ parkSignaled' \in BOOLEAN
    BY DEF AInv, TypeOK
  <2> QED BY <2>1, FrameType DEF AInv, TypeOK
<1>2. Booked' /\ Parked' /\ Unanswered' /\ Matched'
  BY DEF AInv, Booked, Parked, Unanswered, Matched
<1>3. Serial' /\ NoVanishedCall' /\ BlobAccounting'
  BY TotalPrime DEF AInv, Serial, NoVanishedCall, BlobAccounting, Running, Frame
<1> QED BY <1>1, <1>2, <1>3 DEF AInv

\* Nothing but the hosted calls and the searches of the client change.
LEMMA HostedChange ==
    ASSUME AInv, Frame,
           hosted' \in [open: SUBSET Hosted, ready: SUBSET Hosted, search: SUBSET Hosted,
                        fetch: SUBSET Hosted, ran: SUBSET {"search", "fetch"}],
           searching' \subseteq Hosted,
           req.profile = "agent" => searching' \subseteq hosted'.open,
           UNCHANGED <<req, st, why, open, told, clientVars, toolVars, heardVars, blobVars>>
    PROVE  AInv'
<1> USE DEF clientVars, toolVars, heardVars, blobVars
<1>1. TypeOK'
  BY FrameType DEF AInv, TypeOK
<1>2. Booked' /\ Parked' /\ Unanswered' /\ Matched'
  BY DEF AInv, Booked, Parked, Unanswered, Matched
<1>3. Serial' /\ NoVanishedCall' /\ BlobAccounting'
  BY TotalPrime DEF AInv, Serial, NoVanishedCall, BlobAccounting, Running, Frame
<1> QED BY <1>1, <1>2, <1>3 DEF AInv

LEMMA HostedFrameStep ==
    ASSUME AInv, req.profile = "agent", NEW h \in Hosted,
           NEW completed \in BOOLEAN, NEW ready \in BOOLEAN, HostedFrame(h, completed, ready)
    PROVE  AInv'
<1>1. Kind(h) \in {"search", "fetch"}
  BY KindType
<1>2. hosted \in [open: SUBSET Hosted, ready: SUBSET Hosted, search: SUBSET Hosted,
                  fetch: SUBSET Hosted, ran: SUBSET {"search", "fetch"}]
  BY DEF AInv, TypeOK
<1>3. hosted' \in [open: SUBSET Hosted, ready: SUBSET Hosted, search: SUBSET Hosted,
                   fetch: SUBSET Hosted, ran: SUBSET {"search", "fetch"}]
  BY <1>1, <1>2 DEF HostedFrame
<1>4. hosted'.open = IF completed THEN hosted.open \ {h} ELSE hosted.open \cup {h}
  BY <1>2 DEF HostedFrame
<1>5. searching \subseteq hosted.open /\ searching \subseteq Hosted
  BY DEF AInv, TypeOK, Booked
<1>6. searching' \in {searching, searching \cup {h}, searching \ {h}}
      /\ (completed => searching' = searching \ {h})
  BY DEF HostedFrame
<1>7. searching' \subseteq Hosted /\ searching' \subseteq hosted'.open
  BY <1>4, <1>5, <1>6
<1> QED BY <1>3, <1>7, HostedChange DEF HostedFrame

LEMMA ApproveStep ==
    ASSUME AInv, req.profile = "agent", NEW h \in Hosted, Approve(h) PROVE AInv'
<1>1. CASE Fail("other")
  BY <1>1, FailStep, FrameType DEF Approve
<1>2. CASE /\ hosted' = [hosted EXCEPT ![Kind(h)] = @ \cup {h}]
           /\ UNCHANGED <<req, st, why, eventVars, clientVars, toolVars, heardVars, blobVars>>
  <2>1. Kind(h) \in {"search", "fetch"}
    BY KindType
  <2>2. hosted \in [open: SUBSET Hosted, ready: SUBSET Hosted, search: SUBSET Hosted,
                    fetch: SUBSET Hosted, ran: SUBSET {"search", "fetch"}]
    BY DEF AInv, TypeOK
  <2>3. /\ hosted' \in [open: SUBSET Hosted, ready: SUBSET Hosted, search: SUBSET Hosted,
                        fetch: SUBSET Hosted, ran: SUBSET {"search", "fetch"}]
        /\ hosted'.open = hosted.open
    BY <1>2, <2>1, <2>2
  <2> QED BY <1>2, <2>3, HostedChange DEF Approve, eventVars, AInv, Booked, TypeOK
<1> QED BY <1>1, <1>2 DEF Approve

\* A write keeps the books: what it frees and adds is what the sum changes by.
LEMMA StoreBlobStep ==
    ASSUME AInv, req.profile = "agent", NEW b \in Blobs, NEW n \in 0..(MaxBlob + 1), StoreBlob(b, n)
    PROVE  AInv'
<1>1. CASE Fail("other")
  BY <1>1, FailStep, FrameType DEF StoreBlob
<1>2. CASE /\ n <= MaxBlob
           /\ BytesAfter(b, n) <= MaxBlobs
           /\ blobs' = [blobs EXCEPT ![b] = n]
           /\ blobBytes' = BytesAfter(b, n)
           /\ UNCHANGED <<req, st, why, eventVars, clientVars, toolVars, heardVars, hosted>>
  <2> USE <1>2 DEF eventVars, clientVars, toolVars, heardVars
  <2>1. st = "running" /\ frames' \in 0..MaxFrames
    BY FrameType DEF StoreBlob, Frame, Running
  <2>2. blobBytes = Total(blobs) /\ blobBytes \in Nat
    BY <2>1 DEF AInv, BlobAccounting, Running, TypeOK
  <2>3. blobs' \in [Blobs -> 0..(MaxBlob + 1)]
    BY DEF AInv, TypeOK
  <2>4. Total(blobs') = Total(blobs) - blobs[b] + n
    BY TotalUpdate DEF AInv
  <2>5. blobBytes' = Total(blobs')
    BY <2>2, <2>4 DEF BytesAfter
  <2>6. blobBytes' \in Nat
    <3>1. blobs' \in [Blobs -> Nat] /\ IsFiniteSet(Blobs)
      BY <2>3, RunnerAssumption
    <3>2. SumOf(blobs') \in Nat
      BY <3>1, SumType
    <3> QED BY <2>5, <3>2, TotalIsSum
  <2>7. TypeOK'
    BY <2>1, <2>3, <2>6 DEF AInv, TypeOK
  <2>8. Booked' /\ Parked' /\ Unanswered' /\ Matched' /\ Serial' /\ NoVanishedCall'
    BY DEF AInv, Booked, Parked, Unanswered, Matched, Serial, NoVanishedCall
  <2>9. BlobAccounting'
    <3>1. \A c \in Blobs : blobs'[c] <= MaxBlob
      BY <2>1 DEF AInv, BlobAccounting, Running, TypeOK
    <3> QED BY <2>5, <3>1, TotalPrime DEF BlobAccounting
  <2> QED BY <2>7, <2>8, <2>9 DEF AInv
<1> QED BY <1>1, <1>2 DEF StoreBlob

\* Nothing but the number of frames changes.
LEMMA ReplyStep == ASSUME AInv, Reply PROVE AInv'
<1>1. CASE Fail("other")
  BY <1>1, FailStep, FrameType DEF Reply
<1>2. CASE UNCHANGED <<req, st, why, eventVars, clientVars, toolVars, heardVars, hosted, blobVars>>
  BY <1>2, HostedChange DEF Reply, eventVars, AInv, TypeOK, Booked
<1> QED BY <1>1, <1>2 DEF Reply

\* A turn completes with every announced call matched.
LEMMA TrailerStep == ASSUME AInv, req.profile = "agent", Trailer PROVE AInv'
<1>1. CASE ~MayFinish
  BY <1>1, FailStep, FrameType DEF Trailer
<1>2. CASE MayFinish
  <2>1. /\ st' = "done" /\ frames' \in 0..MaxFrames
        /\ UNCHANGED <<req, why, eventVars, clientVars, toolVars, heardVars, hosted, blobVars>>
    BY <1>2, FrameType DEF Trailer
  <2> USE <2>1 DEF eventVars, clientVars, toolVars, heardVars, blobVars
  <2>2. TypeOK'
    BY DEF AInv, TypeOK
  <2>3. Booked' /\ Parked' /\ Unanswered' /\ Matched'
    BY DEF AInv, Booked, Parked, Unanswered, Matched
  <2>4. Serial' /\ NoVanishedCall' /\ BlobAccounting'
    BY <1>2 DEF AInv, Serial, NoVanishedCall, BlobAccounting, Running, Matched, MayFinish
  <2> QED BY <2>2, <2>3, <2>4 DEF AInv
<1> QED BY <1>1, <1>2

LEMMA AgentStep == ASSUME AInv, req.profile = "agent", Next PROVE AInv'
<1>1. CASE Open \/ Reply \/ TurnEnded \/ Trailer
  BY <1>1, OpenStep, ReplyStep, TurnEndedStep, TrailerStep
<1>2. CASE Cancelled \/ IdleTimeout
  BY <1>2, FailStep DEF Cancelled, IdleTimeout, AInv, TypeOK
<1>3. CASE BadFrame
  BY <1>3, FailStep, FrameType DEF BadFrame
<1>4. ASSUME NEW x \in Calls,
             Submit(x) \/ TakeResult(x) \/ RecordStreamMCP(x) \/ ExecMCP(x) \/ ExecMCPFails(x)
      PROVE  AInv'
  <2>1. CASE ExecMCPFails(x)
    BY <2>1, FailStep, FrameType DEF ExecMCPFails
  <2> QED BY <1>4, <2>1, SubmitStep, TakeResultStep, RecordStreamMCPStep, ExecMCPStep
<1>5. ASSUME NEW h \in Hosted,
             \/ HostedFrameRefused(h) \/ Approve(h)
             \/ \E c, r \in BOOLEAN : HostedFrame(h, c, r)
      PROVE  AInv'
  <2>1. CASE HostedFrameRefused(h)
    BY <2>1, FailStep, FrameType DEF HostedFrameRefused
  <2> QED BY <1>5, <2>1, ApproveStep, HostedFrameStep
<1>6. ASSUME NEW b \in Blobs, NEW n \in 0..(MaxBlob + 1), StoreBlob(b, n) PROVE AInv'
  BY <1>6, StoreBlobStep
<1> QED BY <1>1, <1>2, <1>3, <1>4, <1>5, <1>6 DEF Next

LEMMA AgentStutter == ASSUME AInv, UNCHANGED vars PROVE AInv'
<1> USE DEF vars, eventVars, clientVars, toolVars, upstreamVars, heardVars, blobVars
<1>1. TypeOK'
  BY DEF AInv, TypeOK
<1>2. Booked' /\ Parked' /\ Unanswered' /\ Matched' /\ Serial' /\ NoVanishedCall'
  BY DEF AInv, Booked, Parked, Unanswered, Matched, Serial, NoVanishedCall
<1>3. BlobAccounting'
  BY TotalPrime DEF AInv, BlobAccounting, Running
<1> QED BY <1>1, <1>2, <1>3 DEF AInv

-----------------------------------------------------------------------------
(***************************************************************************)
(* Sand.  A call is in the checkpoint before the client hears of it: calls *)
(* of the segment under way are completed but not announced, and a segment *)
(* is sent again only when nothing was emitted.                            *)
(***************************************************************************)
Checkpointed ==
  req.profile = "sand" /\ ~req.history =>
    /\ told \subseteq seg.known
    /\ open \subseteq seg.known \cup seg.completed
    /\ seg.ph \in {"prepare", "post", "end"} \/ ~seg.emitted => open \subseteq seg.known

PInv == AInv /\ Sand!SegmentOK /\ Checkpointed

\* What a Sand step leaves alone, and the types of the rest.
LEMMA SandFrame ==
    ASSUME PInv, req.profile = "sand", UNCHANGED <<agentVars, req, searching>>,
           st' \in {"opening", "running", "done", "failed"}, why' \in {"none", "unmatched", "other"},
           open' \subseteq Calls, told' \subseteq Calls,
           results' \subseteq Calls, toldEver' \subseteq Calls, frames' \in 0..MaxFrames
    PROVE  AInv'
<1> USE DEF agentVars, toolVars, heardVars, blobVars
<1>1. TypeOK'
  BY DEF PInv, AInv, TypeOK
<1>2. Booked' /\ Parked' /\ Unanswered' /\ Matched'
  BY DEF PInv, AInv, Booked, Parked, Unanswered, Matched
<1>3. Serial' /\ NoVanishedCall' /\ BlobAccounting'
  BY DEF PInv, AInv, Serial, NoVanishedCall, BlobAccounting, Matched
<1> QED BY <1>1, <1>2, <1>3 DEF AInv

LEMMA SandTypes ==
    ASSUME PInv
    PROVE  /\ seg \in Sand!Segment
           /\ st \in {"opening", "running", "done", "failed"} /\ why \in {"none", "unmatched", "other"}
           /\ open \subseteq Calls /\ told \subseteq Calls
           /\ results \subseteq Calls /\ toldEver \subseteq Calls
           /\ frames \in 0..MaxFrames
           /\ req.catalog \subseteq Calls /\ req.maxUses \in [{"search", "fetch"} -> Nat]
           /\ req.resume \in BOOLEAN
           /\ req.history \in BOOLEAN
BY RequestFields DEF PInv, AInv, TypeOK, Sand!SegmentOK, Request

LEMMA SandFrameType == ASSUME PInv, Sand!Frame PROVE frames' \in 0..MaxFrames
BY RunnerAssumption, SandTypes DEF Sand!Frame

LEMMA SandFailStep ==
    ASSUME PInv, req.profile = "sand", UNCHANGED agentVars, Sand!Fail, frames' \in 0..MaxFrames
    PROVE  PInv'
<1> USE DEF Sand!Fail, Sand!eventVars, Sand!clientVars
<1>1. AInv'
  BY SandTypes, SandFrame
<1>2. Sand!SegmentOK' /\ Checkpointed'
  BY DEF PInv, Sand!SegmentOK, Checkpointed, Sand!Segment
<1> QED BY <1>1, <1>2 DEF PInv

LEMMA PrepareStep ==
    ASSUME PInv, req.profile = "sand", UNCHANGED agentVars, Sand!Prepare PROVE PInv'
<1>1. UNCHANGED <<req, why, open, told, searching, toldEver, frames>> /\ st' = "running"
  BY DEF Sand!Prepare, Sand!eventVars
<1>2. seg \in Sand!Segment /\ seg.ph = "prepare" /\ results \subseteq Calls
  BY SandTypes DEF Sand!Prepare, Sand!At
<1>3. PICK x \in Calls \cup {Sand!None} :
        /\ results' \subseteq results
        /\ \/ seg' = [seg EXCEPT !.ph = "post", !.accepted = x, !.resume = FALSE]
           \/ seg' = [seg EXCEPT !.ph = "post", !.accepted = x]
  BY <1>2 DEF Sand!Prepare
<1>4. AInv'
  BY <1>1, <1>2, <1>3, SandTypes, SandFrame
<1>5. seg' \in Sand!Segment
  BY ZenonT(60), <1>2, <1>3 DEF Sand!Segment, Sand!None
<1>6. seg'.ph = "post" /\ seg'.known = seg.known /\ seg'.completed = seg.completed /\ seg'.emitted = seg.emitted
  BY <1>2, <1>3 DEF Sand!Segment
<1>7. Checkpointed'
  BY <1>1, <1>2, <1>6 DEF PInv, Checkpointed
<1> QED BY <1>4, <1>5, <1>7 DEF PInv, Sand!SegmentOK

LEMMA SandSubmitStep ==
    ASSUME PInv, req.profile = "sand", UNCHANGED agentVars, NEW x \in Calls, Sand!Submit(x) PROVE PInv'
<1> USE DEF Sand!Submit, Sand!eventVars
<1>1. AInv'
  BY SandTypes, SandFrame
<1>2. Sand!SegmentOK' /\ Checkpointed'
  BY DEF PInv, Sand!SegmentOK, Checkpointed, Sand!Segment
<1> QED BY <1>1, <1>2 DEF PInv

LEMMA PostStep ==
    ASSUME PInv, req.profile = "sand", UNCHANGED agentVars, Sand!Post PROVE PInv'
<1>1. /\ UNCHANGED <<req, st, why, searching, results, toldEver, frames>>
      /\ open' \subseteq open /\ told' \subseteq told
  BY DEF Sand!Post, Sand!clientVars
<1>2. seg \in Sand!Segment /\ seg.ph = "post"
  BY SandTypes DEF Sand!Post, Sand!At
<1>3. seg' \in Sand!Segment /\ seg'.ph = "stream" /\ seg'.known = seg.known
  <2>1. <<>> \in Seq(Hosted)
    OBVIOUS
  <2> QED BY <1>2, <2>1 DEF Sand!Post, Sand!Segment, Sand!None
<1>4. AInv'
  BY <1>1, SandTypes, SandFrame
<1>5. Checkpointed'
  BY <1>1, <1>2, <1>3 DEF PInv, Checkpointed
<1> QED BY <1>3, <1>4, <1>5 DEF PInv, Sand!SegmentOK

LEMMA RetryStep ==
    ASSUME PInv, req.profile = "sand", UNCHANGED agentVars, Sand!RetryWithoutSignatures PROVE PInv'
<1>1. /\ UNCHANGED <<req, st, why, open, told, searching, results, toldEver>> /\ frames' \in 0..MaxFrames
  BY SandFrameType DEF Sand!RetryWithoutSignatures, Sand!eventVars, Sand!clientVars
<1>2. seg \in Sand!Segment /\ ~seg.emitted
  BY SandTypes DEF Sand!RetryWithoutSignatures
<1>3. /\ seg' \in Sand!Segment /\ seg'.known = seg.known /\ seg'.completed = seg.completed
  BY <1>2 DEF Sand!RetryWithoutSignatures, Sand!Segment
<1>4. AInv'
  BY <1>1, SandTypes, SandFrame
<1>5. Checkpointed'
  BY <1>1, <1>2, <1>3 DEF PInv, Checkpointed
<1> QED BY <1>3, <1>4, <1>5 DEF PInv, Sand!SegmentOK

LEMMA PartStep ==
    ASSUME PInv, req.profile = "sand", UNCHANGED agentVars, NEW signs \in BOOLEAN, Sand!Part(signs)
    PROVE  PInv'
<1>1. /\ UNCHANGED <<req, st, why, open, told, searching, results, toldEver>> /\ frames' \in 0..MaxFrames
  BY SandFrameType DEF Sand!Part, Sand!eventVars, Sand!clientVars
<1>2. seg \in Sand!Segment /\ seg.ph = "stream"
  BY SandTypes DEF Sand!Part, Sand!Frame, Sand!At
<1>3. /\ seg' \in Sand!Segment /\ seg'.known = seg.known /\ seg'.completed = seg.completed
      /\ seg'.ph = "stream" /\ seg'.emitted
  BY <1>2 DEF Sand!Part, Sand!Segment
<1>4. AInv'
  BY <1>1, SandTypes, SandFrame
<1>5. Checkpointed'
  BY <1>1, <1>2, <1>3 DEF PInv, Checkpointed
<1> QED BY <1>3, <1>4, <1>5 DEF PInv, Sand!SegmentOK

LEMMA ToolPartStep ==
    ASSUME PInv, req.profile = "sand", UNCHANGED agentVars,
           NEW x \in req.catalog \cup Hosted, NEW final \in BOOLEAN, Sand!ToolPart(x, final)
    PROVE  PInv'
<1> DEFINE call == final /\ x \in Calls
<1>1. /\ UNCHANGED <<req, st, why, told, searching, results, toldEver>> /\ frames' \in 0..MaxFrames
      /\ open' = IF call THEN open \cup {x} ELSE open
  BY SandFrameType DEF Sand!ToolPart, Sand!clientVars
<1>2. seg \in Sand!Segment /\ seg.ph = "stream" /\ x \in Calls \cup Hosted
  BY SandTypes DEF Sand!ToolPart, Sand!Frame, Sand!At
<1>3. /\ seg'.known = seg.known /\ seg'.ph = "stream"
      /\ seg'.completed = IF call THEN seg.completed \cup {x} ELSE seg.completed
      /\ seg'.emitted = (seg.emitted \/ call)
  BY <1>2 DEF Sand!ToolPart, Sand!Segment
<1>4. seg' \in Sand!Segment
  <2>1. seg.hosted \in Seq(Hosted) /\ (x \in Hosted => Append(seg.hosted, x) \in Seq(Hosted))
    BY <1>2 DEF Sand!Segment
  <2>2. PICK C \in SUBSET (Calls \cup Hosted), D \in SUBSET Calls, H \in Seq(Hosted),
             sn \in BOOLEAN, em \in BOOLEAN :
          seg' = [seg EXCEPT !.calls = C, !.completed = D, !.seen = sn, !.emitted = em, !.hosted = H]
    <3> DEFINE C == IF final THEN seg.calls \ {x} ELSE seg.calls \cup {x}
               D == IF call THEN seg.completed \cup {x} ELSE seg.completed
               H == IF final /\ x \in Hosted THEN Append(seg.hosted, x) ELSE seg.hosted
               sn == seg.seen \/ call
               em == seg.emitted \/ call
    <3>1. C \in SUBSET (Calls \cup Hosted) /\ D \in SUBSET Calls /\ H \in Seq(Hosted)
      BY <1>2, <2>1 DEF Sand!Segment
    <3>2. sn \in BOOLEAN /\ em \in BOOLEAN
      OBVIOUS
    <3>3. seg' = [seg EXCEPT !.calls = C, !.completed = D, !.seen = sn, !.emitted = em, !.hosted = H]
      BY <1>2 DEF Sand!ToolPart, Sand!Segment
    <3> HIDE DEF C, D, H, sn, em
    <3> QED BY <3>1, <3>2, <3>3
  <2> QED BY <1>2, <2>2 DEF Sand!Segment
<1>5. AInv'
  BY <1>1, SandTypes, SandFrame
<1>6. Checkpointed'
  BY <1>1, <1>2, <1>3 DEF PInv, Checkpointed
<1> QED BY <1>4, <1>5, <1>6 DEF PInv, Sand!SegmentOK

LEMMA SandTrailerStep ==
    ASSUME PInv, req.profile = "sand", UNCHANGED agentVars, Sand!Trailer PROVE PInv'
<1>1. CASE seg.calls # {}
  BY <1>1, SandFailStep, SandFrameType DEF Sand!Trailer
<1>2. CASE seg.calls = {}
  <2>1. /\ UNCHANGED <<req, st, why, open, told, searching, results, toldEver>>
        /\ frames' \in 0..MaxFrames
    BY <1>2, SandFrameType DEF Sand!Trailer, Sand!eventVars, Sand!clientVars
  <2>2. seg \in Sand!Segment
    BY SandTypes
  <2>3. /\ seg' \in Sand!Segment /\ seg'.known = seg.known /\ seg'.completed = seg.completed
        /\ seg'.ph = "execute" /\ seg'.emitted
    <3>1. seg' = [seg EXCEPT !.ph = "execute", !.emitted = TRUE]
      BY <1>2 DEF Sand!Trailer
    <3> QED BY <2>2, <3>1 DEF Sand!Segment
  <2>4. AInv'
    BY <2>1, SandTypes, SandFrame
  <2>5. Checkpointed'
    BY <2>1, <2>3 DEF PInv, Checkpointed
  <2> QED BY <2>3, <2>4, <2>5 DEF PInv, Sand!SegmentOK
<1> QED BY <1>1, <1>2

\* The use counters stop at the limit of the request and of the gateway.
LEMMA ExecuteStep ==
    ASSUME PInv, req.profile = "sand", UNCHANGED agentVars, Sand!Execute PROVE PInv'
<1> DEFINE k == Sand!Kind(Head(seg.hosted))
<1>1. UNCHANGED <<req, st, why, open, told, searching, results, toldEver, frames>>
  BY DEF Sand!Execute, Sand!eventVars, Sand!clientVars
<1>2. seg \in Sand!Segment /\ seg.ph = "execute" /\ req.maxUses \in [{"search", "fetch"} -> Nat]
  BY SandTypes DEF Sand!Execute, Sand!At
<1>3. Tail(seg.hosted) \in Seq(Hosted)
  BY <1>2 DEF Sand!Execute, Sand!Segment
<1>4. k \in {"search", "fetch"}
  BY DEF Sand!Kind
<1>5. seg[k] < Sand!Least(MaxUses, req.maxUses[k])
      /\ seg' = [seg EXCEPT !.hosted = Tail(seg.hosted), !.ran = TRUE, ![k] = seg[k] + 1]
  BY <1>2, <1>4 DEF Sand!Execute, Sand!MayUse, Sand!Segment, Sand!Kind
<1>6. /\ seg' \in Sand!Segment /\ seg'.known = seg.known /\ seg'.completed = seg.completed
      /\ seg'.ph = seg.ph /\ seg'.emitted = seg.emitted
  <2>1. CASE k = "search"
    <3>1. seg.search + 1 \in 0..MaxUses
      BY <1>2, <1>5, <2>1, ProfileAssumption DEF Sand!Least, Sand!Segment
    <3>2. seg' = [seg EXCEPT !.hosted = Tail(seg.hosted), !.ran = TRUE, !.search = seg.search + 1]
      BY <1>2, <1>5, <2>1 DEF Sand!Segment
    <3> QED BY <1>2, <1>3, <3>1, <3>2 DEF Sand!Segment
  <2>2. CASE k = "fetch"
    <3>1. seg.fetch + 1 \in 0..MaxUses
      BY <1>2, <1>5, <2>2, ProfileAssumption DEF Sand!Least, Sand!Segment
    <3>2. seg' = [seg EXCEPT !.hosted = Tail(seg.hosted), !.ran = TRUE, !.fetch = seg.fetch + 1]
      BY <1>2, <1>5, <2>2 DEF Sand!Segment
    <3> QED BY <1>2, <1>3, <3>1, <3>2 DEF Sand!Segment
  <2> QED BY <1>4, <2>1, <2>2
<1>7. AInv'
  BY <1>1, SandTypes, SandFrame
<1>8. Checkpointed'
  BY <1>1, <1>6 DEF PInv, Checkpointed
<1> QED BY <1>6, <1>7, <1>8 DEF PInv, Sand!SegmentOK

\* The checkpoint takes in the calls of the segment.
LEMMA SaveStep ==
    ASSUME PInv, req.profile = "sand", UNCHANGED agentVars, Sand!Save PROVE PInv'
<1>1. UNCHANGED <<req, st, why, open, told, searching, results, toldEver, frames>>
  BY DEF Sand!Save, Sand!eventVars, Sand!clientVars
<1>2. seg \in Sand!Segment
  BY SandTypes
<1>3. /\ seg' \in Sand!Segment /\ seg'.ph = "end" /\ seg'.completed = seg.completed
      /\ ~req.history => seg'.known = seg.known \cup seg.completed
  <2>1. CASE ~req.history \/ seg.ran
    <3>1. seg' = [seg EXCEPT !.ph = "end", !.known = seg.known \cup seg.completed,
                             !.sig = seg.sig \/ seg.newSig]
      BY <1>2, <2>1 DEF Sand!Save, Sand!Known, Sand!Segment
    <3> QED BY <1>2, <3>1 DEF Sand!Segment
  <2>2. CASE ~(~req.history \/ seg.ran)
    <3>1. seg' = [seg EXCEPT !.ph = "end"]
      BY <2>2 DEF Sand!Save
    <3> QED BY <1>2, <2>2, <3>1 DEF Sand!Segment
  <2> QED BY <2>1, <2>2
<1>4. AInv'
  BY <1>1, SandTypes, SandFrame
<1>5. Checkpointed'
  BY <1>1, <1>3 DEF PInv, Checkpointed
<1> QED BY <1>3, <1>4, <1>5 DEF PInv, Sand!SegmentOK

LEMMA EndParksStep ==
    ASSUME PInv, req.profile = "sand", UNCHANGED agentVars, Sand!EndParks PROVE PInv'
<1>1. /\ UNCHANGED <<req, st, why, open, searching, results, frames>>
      /\ told' = open /\ toldEver' = toldEver \cup open
  BY DEF Sand!EndParks
<1>2. seg \in Sand!Segment /\ seg.ph = "end"
  BY SandTypes DEF Sand!EndParks, Sand!At
<1>3. seg' \in Sand!Segment /\ seg'.known = seg.known
  BY <1>2 DEF Sand!EndParks, Sand!Again, Sand!Segment
<1>4. AInv'
  BY <1>1, SandTypes, SandFrame
<1>5. Checkpointed'
  BY <1>1, <1>2, <1>3 DEF PInv, Checkpointed
<1> QED BY <1>3, <1>4, <1>5 DEF PInv, Sand!SegmentOK

LEMMA EndContinuesStep ==
    ASSUME PInv, req.profile = "sand", UNCHANGED agentVars, Sand!EndContinues PROVE PInv'
<1>1. CASE seg.steps + 1 >= MaxSteps
  BY <1>1, SandFailStep, SandTypes DEF Sand!EndContinues
<1>2. CASE ~(seg.steps + 1 >= MaxSteps)
  <2>1. UNCHANGED <<req, st, why, open, told, searching, results, toldEver, frames>>
    BY <1>2 DEF Sand!EndContinues, Sand!eventVars, Sand!clientVars
  <2>2. seg \in Sand!Segment /\ seg.ph = "end"
    BY SandTypes DEF Sand!EndContinues, Sand!At
  <2>3. seg.steps + 1 \in 0..MaxSteps
    BY <1>2, <2>2, ProfileAssumption DEF Sand!Segment
  <2>4. seg' \in Sand!Segment /\ seg'.known = seg.known
    <3>1. seg' = [seg EXCEPT !.ph = "prepare", !.resume = FALSE, !.emitted = FALSE,
                             !.steps = seg.steps + 1]
      BY <1>2, <2>2 DEF Sand!EndContinues, Sand!Again, Sand!Segment
    <3> QED BY <2>2, <2>3, <3>1 DEF Sand!Segment
  <2>5. AInv'
    BY <2>1, SandTypes, SandFrame
  <2>6. Checkpointed'
    BY <2>1, <2>2, <2>4 DEF PInv, Checkpointed
  <2> QED BY <2>4, <2>5, <2>6 DEF PInv, Sand!SegmentOK
<1> QED BY <1>1, <1>2

LEMMA EndReturnsStep ==
    ASSUME PInv, req.profile = "sand", UNCHANGED agentVars, Sand!EndReturns PROVE PInv'
<1>1. /\ UNCHANGED <<req, open, searching, results, frames, seg>>
      /\ told' \in {told, open} /\ toldEver' \in {toldEver, toldEver \cup open}
      /\ ~req.history => told' = told
      /\ st' \in {"done", "failed"} /\ why' \in {why, "other"}
  BY DEF Sand!EndReturns
<1>2. AInv'
  BY <1>1, SandTypes, SandFrame
<1>3. Sand!SegmentOK'
  BY <1>1 DEF PInv, Sand!SegmentOK, Sand!Segment
<1>4. Checkpointed'
  BY <1>1 DEF PInv, Checkpointed
<1> QED BY <1>2, <1>3, <1>4 DEF PInv

LEMMA SandStep ==
    ASSUME PInv, req.profile = "sand", UNCHANGED agentVars, Sand!Next PROVE PInv'
<1>1. CASE Sand!Broken \/ Sand!PrepareMismatch \/ Sand!ExecuteFails
  BY <1>1, SandFailStep, SandTypes DEF Sand!Broken, Sand!PrepareMismatch, Sand!ExecuteFails
<1>2. CASE Sand!ToolPartFails
  BY <1>2, SandFailStep, SandFrameType DEF Sand!ToolPartFails
<1>3. CASE Sand!Prepare \/ Sand!Post \/ Sand!RetryWithoutSignatures \/ Sand!Trailer
  BY <1>3, PrepareStep, PostStep, RetryStep, SandTrailerStep
<1>4. CASE Sand!Execute \/ Sand!Save \/ Sand!EndParks \/ Sand!EndContinues \/ Sand!EndReturns
  BY <1>4, ExecuteStep, SaveStep, EndParksStep, EndContinuesStep, EndReturnsStep
<1>5. CASE \E signs \in BOOLEAN : Sand!Part(signs)
  BY <1>5, PartStep
<1>6. CASE \E x \in Calls : Sand!Submit(x)
  BY <1>6, SandSubmitStep
<1>7. CASE \E x \in req.catalog \cup Hosted, final \in BOOLEAN : Sand!ToolPart(x, final)
  BY <1>7, ToolPartStep
<1> QED BY <1>1, <1>2, <1>3, <1>4, <1>5, <1>6, <1>7 DEF Sand!Next

-----------------------------------------------------------------------------
(***************************************************************************)
(* Runs of either profile.                                                 *)
(***************************************************************************)
LEMMA ProfileInitial == ProfileInit => PInv
<1> SUFFICES ASSUME ProfileInit PROVE PInv
  OBVIOUS
<1>1. AInv
  BY FreshInvariant DEF ProfileInit
<1>2. req.resume \in BOOLEAN /\ results \subseteq Calls /\ open = {} /\ told = {}
  BY RequestFields, <1>1 DEF AInv, TypeOK, Request, ProfileInit, Fresh
<1>3. <<>> \in Seq(Hosted)
  OBVIOUS
<1>4. Sand!FirstSegment \in Sand!Segment
  BY <1>2, <1>3, ProfileAssumption DEF Sand!FirstSegment, Sand!Segment, Sand!None
<1>5. seg \in Sand!Segment
  <2>1. CASE req.profile = "sand"
    <3>1. PICK s \in BOOLEAN, K \in SUBSET results :
            seg = [Sand!FirstSegment EXCEPT !.sig = s, !.known = K]
      BY <2>1 DEF ProfileInit, Sand!Init
    <3>2. K \in SUBSET Calls
      BY <1>2, <3>1
    <3> HIDE DEF Sand!FirstSegment
    <3> QED BY <1>4, <3>1, <3>2 DEF Sand!Segment
  <2>2. CASE req.profile # "sand"
    BY <1>4, <2>2 DEF ProfileInit
  <2> QED BY <2>1, <2>2
<1> QED BY <1>1, <1>2, <1>5 DEF PInv, Sand!SegmentOK, Checkpointed

LEMMA RequestKept == ASSUME Next PROVE req' = req
BY DEF Next, Open, Cancelled, IdleTimeout, BadFrame, Reply, TurnEnded, Trailer, Submit, TakeResult,
       RecordStreamMCP, ExecMCP, ExecMCPFails, HostedFrameRefused, Approve, HostedFrame, StoreBlob, Fail

LEMMA ProfileStep == PInv /\ [ProfileNext]_profileVars => PInv'
<1> SUFFICES ASSUME PInv, [ProfileNext]_profileVars PROVE PInv'
  OBVIOUS
<1>1. CASE Agent(Next)
  <2>1. AInv'
    BY <1>1, AgentStep DEF Agent, PInv
  <2>2. Sand!SegmentOK' /\ Checkpointed'
    BY <1>1, RequestKept DEF Agent, PInv, Sand!SegmentOK, Sand!Segment, Checkpointed
  <2> QED BY <2>1, <2>2 DEF PInv
<1>2. CASE req.profile = "sand" /\ Sand!Next /\ UNCHANGED agentVars
  BY <1>2, SandStep
<1>3. CASE Invalid
  <2>1. AInv'
    BY <1>3, FailStep DEF Invalid, PInv, AInv, TypeOK
  <2>2. Sand!SegmentOK' /\ Checkpointed'
    BY <1>3 DEF Invalid, Fail, PInv, Sand!SegmentOK, Sand!Segment, Checkpointed
  <2> QED BY <2>1, <2>2 DEF PInv
<1>4. CASE UNCHANGED profileVars
  <2>1. AInv'
    BY <1>4, AgentStutter DEF profileVars, PInv
  <2>2. Sand!SegmentOK' /\ Checkpointed'
    BY <1>4 DEF profileVars, vars, eventVars, PInv, Sand!SegmentOK, Sand!Segment, Checkpointed
  <2> QED BY <2>1, <2>2 DEF PInv
<1> QED BY <1>1, <1>2, <1>3, <1>4 DEF ProfileNext

-----------------------------------------------------------------------------
(***************************************************************************)
(* The uses of hosted tools.                                               *)
(***************************************************************************)
Kinds == {"search", "fetch"}

\* The approved ids can be counted.
Counted == UsesLimited /\ \A k \in Kinds : IsFiniteSet(hosted[k])

LEMMA CountedInitial == ProfileInit => Counted
<1> SUFFICES ASSUME ProfileInit PROVE Counted
  OBVIOUS
<1>1. req.maxUses \in [Kinds -> Nat] /\ hosted = NoHosted
  <2>1. TypeOK
    BY FreshInvariant DEF ProfileInit, AInv
  <2> QED BY <2>1, RequestFields DEF ProfileInit, Fresh, Kinds
<1>2. seg.search = 0 /\ seg.fetch = 0
  <2>1. Sand!FirstSegment.search = 0 /\ Sand!FirstSegment.fetch = 0
    BY DEF Sand!FirstSegment
  <2>2. CASE seg = Sand!FirstSegment
    BY <2>1, <2>2
  <2>3. CASE Sand!Init
    <3>1. PICK s \in BOOLEAN, K \in SUBSET results :
            seg = [Sand!FirstSegment EXCEPT !.sig = s, !.known = K]
      BY <2>3 DEF Sand!Init
    <3> QED BY <3>1 DEF Sand!FirstSegment
  <2> QED BY <2>2, <2>3 DEF ProfileInit
<1>3. \A k \in Kinds : hosted[k] = {} /\ seg[k] = 0
  BY <1>1, <1>2 DEF Kinds, NoHosted
<1>4. \A k \in Kinds : IsFiniteSet(hosted[k]) /\ Cardinality(hosted[k]) = 0
  BY <1>3, FS_EmptySet
<1>5. ASSUME NEW k \in Kinds PROVE 0 <= req.maxUses[k] /\ 0 <= Sand!Least(MaxUses, req.maxUses[k])
  <2>1. req.maxUses[k] \in Nat
    BY <1>1
  <2> QED BY <2>1, ProfileAssumption DEF Sand!Least
<1> QED BY <1>3, <1>4, <1>5 DEF Counted, UsesLimited, Kinds

\* hostedUseTracker.allow adds an id below the limit of its kind.
LEMMA ApproveCounts == ASSUME PInv, Counted, NEW h \in Hosted, Approve(h), seg' = seg PROVE Counted'
<1>1. CASE UNCHANGED <<req, hosted>>
  BY <1>1 DEF Counted, UsesLimited
<1>2. CASE hosted' = [hosted EXCEPT ![Kind(h)] = hosted[Kind(h)] \cup {h}] /\ req' = req
  <2>1. /\ hosted \in [open: SUBSET Hosted, ready: SUBSET Hosted, search: SUBSET Hosted,
                       fetch: SUBSET Hosted, ran: SUBSET Kinds]
        /\ req.maxUses \in [Kinds -> Nat] /\ Kind(h) \in Kinds
    BY RequestFields, KindType DEF PInv, AInv, TypeOK, Kinds
  <2>2. hosted'[Kind(h)] = hosted[Kind(h)] \cup {h}
    BY <1>2, <2>1 DEF Kinds
  <2>3. \A k \in Kinds : k # Kind(h) => hosted'[k] = hosted[k]
    BY <1>2, <2>1 DEF Kinds
  <2>4. /\ IsFiniteSet(hosted[Kind(h)]) /\ Cardinality(hosted[Kind(h)]) \in Nat
        /\ Cardinality(hosted[Kind(h)]) <= req.maxUses[Kind(h)]
    BY <2>1, FS_CardinalityType DEF Counted, UsesLimited, Kinds
  <2>5. h \in hosted[Kind(h)] \/ Cardinality(hosted[Kind(h)]) < req.maxUses[Kind(h)]
    BY DEF Approve, Allowed
  <2>6. /\ IsFiniteSet(hosted[Kind(h)] \cup {h})
        /\ Cardinality(hosted[Kind(h)] \cup {h}) =
             IF h \in hosted[Kind(h)] THEN Cardinality(hosted[Kind(h)])
             ELSE Cardinality(hosted[Kind(h)]) + 1
    BY <2>4, FS_AddElement
  <2>7. req.maxUses[Kind(h)] \in Nat
    BY <2>1
  <2>8. Cardinality(hosted'[Kind(h)]) <= req.maxUses[Kind(h)] /\ IsFiniteSet(hosted'[Kind(h)])
    BY <2>2, <2>4, <2>5, <2>6, <2>7
  <2> QED BY <1>2, <2>3, <2>8 DEF Counted, UsesLimited, Kinds
<1> QED BY <1>1, <1>2 DEF Approve, Fail

LEMMA AgentCounts == ASSUME PInv, Counted, Next, seg' = seg PROVE Counted'
<1>1. CASE \E h \in Hosted : Approve(h)
  BY <1>1, ApproveCounts
<1>2. CASE \E h \in Hosted, c, r \in BOOLEAN : HostedFrame(h, c, r)
  <2>1. \A k \in Kinds : hosted'[k] = hosted[k]
    BY <1>2 DEF HostedFrame, PInv, AInv, TypeOK, Kinds
  <2> QED BY <1>2, <2>1 DEF HostedFrame, Counted, UsesLimited, Kinds
<1>3. CASE UNCHANGED <<req, hosted>>
  BY <1>3 DEF Counted, UsesLimited
<1> QED BY <1>1, <1>2, <1>3 DEF Next, Open, Cancelled, IdleTimeout, BadFrame, Reply, TurnEnded, Trailer,
           Submit, TakeResult, RecordStreamMCP, ExecMCP, ExecMCPFails, HostedFrameRefused, StoreBlob, Fail

\* inferenceHostedUseTracker.allow is the only step that counts.
LEMMA SandCounts == ASSUME PInv, Counted, Sand!Next, UNCHANGED agentVars PROVE Counted'
<1>1. hosted' = hosted /\ seg \in Sand!Segment /\ req.maxUses \in [Kinds -> Nat]
  BY SandTypes DEF agentVars, Kinds
<1>2. CASE Sand!Execute
  <2> DEFINE k == Sand!Kind(Head(seg.hosted))
  <2>1. /\ req' = req /\ seg[k] < Sand!Least(MaxUses, req.maxUses[k])
        /\ seg' = [seg EXCEPT !.hosted = Tail(seg.hosted), !.ran = TRUE, ![k] = seg[k] + 1]
    BY <1>1, <1>2 DEF Sand!Execute, Sand!MayUse, Sand!Segment, Sand!Kind
  <2>2. k \in Kinds
    BY DEF Sand!Kind, Kinds
  <2>3. seg'[k] = seg[k] + 1 /\ \A j \in Kinds : j # k => seg'[j] = seg[j]
    BY <1>1, <2>1, <2>2 DEF Sand!Segment, Kinds
  <2>4. seg[k] \in Nat /\ req.maxUses[k] \in Nat
    BY <1>1, <2>2, ProfileAssumption DEF Sand!Segment, Kinds
  <2>5. seg'[k] <= Sand!Least(MaxUses, req.maxUses[k])
    BY <2>1, <2>3, <2>4, ProfileAssumption DEF Sand!Least
  <2> QED BY <1>1, <2>1, <2>3, <2>5 DEF Counted, UsesLimited, Kinds
<1>3. CASE seg'.search = seg.search /\ seg'.fetch = seg.fetch /\ req' = req
  BY <1>1, <1>3 DEF Counted, UsesLimited, Kinds
<1> DEFINE Same == seg'.search = seg.search /\ seg'.fetch = seg.fetch /\ req' = req
<1>4. CASE \/ Sand!Broken \/ Sand!PrepareMismatch \/ Sand!ToolPartFails \/ Sand!ExecuteFails
           \/ Sand!EndReturns \/ \E x \in Calls : Sand!Submit(x)
  <2>1. Same
    BY <1>4 DEF Sand!Broken, Sand!PrepareMismatch, Sand!ToolPartFails, Sand!ExecuteFails,
                Sand!EndReturns, Sand!Submit, Sand!Fail
  <2> QED BY <1>3, <2>1
<1>5. CASE Sand!Prepare
  <2>1. Same
    BY <1>1, <1>5 DEF Sand!Prepare, Sand!Segment
  <2> QED BY <1>3, <2>1
<1>6. CASE Sand!Post \/ Sand!RetryWithoutSignatures \/ \E signs \in BOOLEAN : Sand!Part(signs)
  <2>1. Same
    BY <1>1, <1>6 DEF Sand!Post, Sand!RetryWithoutSignatures, Sand!Part, Sand!Segment
  <2> QED BY <1>3, <2>1
<1>7. CASE Sand!Trailer
  <2>1. Same
    BY <1>1, <1>7 DEF Sand!Trailer, Sand!Fail, Sand!Segment
  <2> QED BY <1>3, <2>1
<1>8. CASE Sand!Save \/ Sand!EndParks
  <2>1. Same
    BY <1>1, <1>8 DEF Sand!Save, Sand!EndParks, Sand!Again, Sand!Segment
  <2> QED BY <1>3, <2>1
<1>9. CASE Sand!EndContinues
  <2>1. Same
    BY <1>1, <1>9 DEF Sand!EndContinues, Sand!Again, Sand!Fail, Sand!Segment
  <2> QED BY <1>3, <2>1
<1>10. CASE \E x \in req.catalog \cup Hosted, final \in BOOLEAN : Sand!ToolPart(x, final)
  <2>1. Same
    BY <1>1, <1>10 DEF Sand!ToolPart, Sand!Segment
  <2> QED BY <1>3, <2>1
<1> QED BY <1>2, <1>4, <1>5, <1>6, <1>7, <1>8, <1>9, <1>10 DEF Sand!Next

LEMMA CountedStep == PInv /\ Counted /\ [ProfileNext]_profileVars => Counted'
<1> SUFFICES ASSUME PInv, Counted, [ProfileNext]_profileVars PROVE Counted'
  OBVIOUS
<1>1. CASE Agent(Next)
  BY <1>1, AgentCounts DEF Agent
<1>2. CASE Sand!Next /\ UNCHANGED agentVars
  BY <1>2, SandCounts
<1>3. CASE UNCHANGED <<req, hosted, seg>>
  BY <1>3 DEF Counted, UsesLimited
<1> QED BY <1>1, <1>2, <1>3 DEF ProfileNext, Invalid, Fail, profileVars, vars

\* The inductive invariant of a run of either profile.
THEOREM ProfileInvariance == ProfileSpec => []PInv
BY ProfileInitial, ProfileStep, PTL DEF ProfileSpec

\* The locals of Runner.Run and InferenceRunner.Run have their types, counters
\* stay below their limits, and Agent v1's pending calls are the announced ones.
THEOREM ProfileTypeCorrect == ProfileSpec => []ProfileTypeOK
<1>1. PInv /\ Counted => ProfileTypeOK
  BY DEF PInv, AInv, Booked, Counted, ProfileTypeOK
<1> QED BY <1>1, ProfileInvariance, CountedInitial, CountedStep, PTL DEF ProfileSpec

\* A serial client has been handed every call it has to answer, however calls,
\* answers and turnEnded frames interleave (parkSignaled of Runner.Run).
THEOREM SerialCallsToldHolds == ProfileSpec => []SerialCallsTold
<1>1. PInv => SerialCallsTold
  BY DEF PInv, AInv, Serial, SerialCallsTold, Running
<1> QED BY <1>1, ProfileInvariance, PTL

\* No result is queued while its call waits for it (sendToolResult).
THEOREM NoResultWaitsForItsCallHolds == ProfileSpec => []NoResultWaitsForItsCall
<1>1. PInv => NoResultWaitsForItsCall
  BY DEF PInv, AInv, Unanswered, NoResultWaitsForItsCall
<1> QED BY <1>1, ProfileInvariance, PTL

\* A turn completes only when every announced call has had its exec
\* (recordStreamMCP and the trailer of Runner.Run).
THEOREM NoVanishedCallHolds == ProfileSpec => []NoVanishedCall
<1>1. PInv => NoVanishedCall
  BY DEF PInv, AInv
<1> QED BY <1>1, ProfileInvariance, PTL

\* storeBlob's running total is the sum of the stored blobs and within the
\* budget, after any sequence of writes and overwrites of any finite store.
THEOREM BlobAccountingHolds == ProfileSpec => []BlobAccounting
<1>1. PInv => BlobAccounting
  BY DEF PInv, AInv
<1> QED BY <1>1, ProfileInvariance, PTL

\* Every call a Sand client has been handed is in the checkpoint
\* (prepareInferenceRun finds it), whatever was retried in between.
THEOREM ToldCallsRecoverableHolds == ProfileSpec => []ToldCallsRecoverable
<1>1. PInv => ToldCallsRecoverable
  BY DEF PInv, Checkpointed, ToldCallsRecoverable, Sand!ToldCallsRecoverable
<1> QED BY <1>1, ProfileInvariance, PTL

-----------------------------------------------------------------------------
(***************************************************************************)
(* Agent v1 implements AgentTurn: every iteration of the loop emits one    *)
(* event of the turn, or none.                                             *)
(***************************************************************************)
Turns == AInv /\ req.profile = "agent"

LEMMA TurnInitial == Init => Turns /\ Turn!Init
<1> SUFFICES ASSUME Init PROVE Turns /\ Turn!Init
  OBVIOUS
<1>1. Turns
  BY FreshInvariant DEF Init, Turns
<1>2. req.history \in BOOLEAN
  BY <1>1, RequestFields DEF Turns, AInv
<1> QED BY <1>1, <1>2 DEF Init, Fresh, Turn!Init

LEMMA TurnsKept == Turns /\ [Next]_vars => Turns'
<1> SUFFICES ASSUME Turns, [Next]_vars PROVE Turns'
  OBVIOUS
<1>1. CASE Next
  BY <1>1, AgentStep, RequestKept DEF Turns
<1>2. CASE UNCHANGED vars
  BY <1>2, AgentStutter DEF Turns, vars
<1> QED BY <1>1, <1>2

\* A failed run fails the turn.
LEMMA FailIsTurn ==
    ASSUME NEW w, Fail(w), st \in {"opening", "running"} PROVE Turn!Fail
BY DEF Fail, eventVars, Turn!Fail, Turn!Running

\* Nothing is emitted.
LEMMA Silent ==
    ASSUME UNCHANGED <<req, st, open, told, searching>> PROVE UNCHANGED Turn!vars
BY DEF Turn!vars

LEMMA ExecMCPIsTurn ==
    ASSUME Turns, NEW x \in Calls, ExecMCP(x) PROVE [Turn!Next]_Turn!vars
<1>1. /\ st = "running" /\ UNCHANGED <<req, searching>> /\ req.history \in BOOLEAN
  BY RequestFields DEF ExecMCP, Frame, Running, Turns, AInv
<1>2. CASE AnswerQueued(x)
  <2>1. Turn!Accept(x)
    BY <1>1, <1>2 DEF AnswerQueued, SendToolResult, Turn!Accept, Turn!Running
  <2> QED BY <2>1 DEF Turn!Next
<1>3. CASE Announce(x)
  <2>1. CASE req.history
    <3>1. Turn!HandOff
      BY <1>1, <1>3, <2>1 DEF Announce, Turn!HandOff, Turn!Running
    <3> QED BY <3>1 DEF Turn!Next
  <2>2. CASE ~req.history
    <3>1. Turn!Call(x)
      BY <1>1, <1>3, <2>2 DEF Announce, Turn!Call, Turn!Running
    <3> QED BY <3>1 DEF Turn!Next
  <2> QED BY <2>1, <2>2
<1> QED BY <1>2, <1>3 DEF ExecMCP

LEMMA HostedFrameIsTurn ==
    ASSUME NEW h \in Hosted, NEW c \in BOOLEAN, NEW r \in BOOLEAN, HostedFrame(h, c, r)
    PROVE  [Turn!Next]_Turn!vars
<1>1. /\ st = "running" /\ UNCHANGED <<req, st, open, told>>
      /\ searching' \in {searching, searching \cup {h}, searching \ {h}}
  BY DEF HostedFrame, Frame, Running
<1>2. CASE searching' = searching
  BY <1>1, <1>2, Silent
<1>3. CASE searching' \in {searching \cup {h}, searching \ {h}}
  <2>1. Turn!Search(h)
    BY <1>1, <1>3 DEF Turn!Search, Turn!Running
  <2> QED BY <2>1 DEF Turn!Next
<1> QED BY <1>1, <1>2, <1>3

\* A turn that completes has no call pending and no search open.
LEMMA TrailerIsTurn == ASSUME Turns, Trailer PROVE [Turn!Next]_Turn!vars
<1>1. st = "running"
  BY DEF Trailer, Frame, Running
<1>2. CASE ~MayFinish
  <2>1. Turn!Fail
    BY <1>1, <1>2, FailIsTurn DEF Trailer
  <2> QED BY <2>1 DEF Turn!Next
<1>3. CASE MayFinish
  <2>1. open = {} /\ searching = {}
    BY <1>3 DEF Turns, AInv, Booked, MayFinish
  <2>2. Turn!Finish
    BY <1>1, <1>3, <2>1 DEF Trailer, eventVars, Turn!Finish, Turn!Running
  <2> QED BY <2>2 DEF Turn!Next
<1> QED BY <1>2, <1>3

LEMMA TurnEndedIsTurn == ASSUME Turns, TurnEnded PROVE [Turn!Next]_Turn!vars
<1>1. st = "running" /\ UNCHANGED <<req, st, open, searching>>
  BY DEF TurnEnded, Frame, Running
<1>2. CASE pendingTools # {} /\ ~parkSignaled
  <2>1. Turn!Boundary
    BY <1>1, <1>2 DEF TurnEnded, Turns, AInv, Booked, Turn!Boundary, Turn!Running
  <2> QED BY <2>1 DEF Turn!Next
<1>3. CASE ~(pendingTools # {} /\ ~parkSignaled)
  BY <1>1, <1>3, Silent DEF TurnEnded
<1> QED BY <1>2, <1>3

LEMMA TakeResultIsTurn ==
    ASSUME NEW x \in Calls, TakeResult(x) PROVE [Turn!Next]_Turn!vars
<1>1. st = "running"
  BY DEF TakeResult, Running
<1>2. CASE SendToolResult(x, pendingTools) /\ UNCHANGED <<req, st, searching>>
  <2>1. Turn!Accept(x)
    BY <1>1, <1>2 DEF SendToolResult, Turn!Accept, Turn!Running
  <2> QED BY <2>1 DEF Turn!Next
<1>3. CASE UNCHANGED <<req, st, eventVars>>
  BY <1>3, Silent DEF eventVars
<1>4. CASE Fail("other")
  BY <1>1, <1>4, FailIsTurn DEF Turn!Next
<1> QED BY <1>2, <1>3, <1>4 DEF TakeResult

LEMMA StepIsTurn == Turns /\ [Next]_vars => [Turn!Next]_Turn!vars
<1> SUFFICES ASSUME Turns, [Next]_vars PROVE [Turn!Next]_Turn!vars
  OBVIOUS
<1>1. CASE Open
  <2>1. CASE Fail("other")
    BY <1>1, <2>1, FailIsTurn DEF Open, Turn!Next
  <2>2. CASE st' = "running" /\ UNCHANGED <<req, eventVars>>
    BY <1>1, <2>2 DEF Open, eventVars, Turn!vars
  <2> QED BY <1>1, <2>1, <2>2 DEF Open
<1>2. CASE Cancelled \/ IdleTimeout \/ BadFrame
  BY <1>2, FailIsTurn DEF Cancelled, IdleTimeout, BadFrame, Frame, Running, Turn!Next
<1>3. CASE Reply
  <2>1. CASE Fail("other")
    BY <1>3, <2>1, FailIsTurn DEF Reply, Frame, Running, Turn!Next
  <2>2. CASE UNCHANGED <<req, st, eventVars>>
    BY <2>2, Silent DEF eventVars
  <2> QED BY <1>3, <2>1, <2>2 DEF Reply
<1>4. CASE TurnEnded \/ Trailer
  BY <1>4, TurnEndedIsTurn, TrailerIsTurn
<1>5. ASSUME NEW x \in Calls,
             Submit(x) \/ TakeResult(x) \/ RecordStreamMCP(x) \/ ExecMCP(x) \/ ExecMCPFails(x)
      PROVE  [Turn!Next]_Turn!vars
  <2>1. CASE Submit(x) \/ RecordStreamMCP(x)
    BY <2>1, Silent DEF Submit, RecordStreamMCP, eventVars
  <2>2. CASE ExecMCPFails(x)
    BY <2>2, FailIsTurn DEF ExecMCPFails, Frame, Running, Turn!Next
  <2> QED BY <1>5, <2>1, <2>2, TakeResultIsTurn, ExecMCPIsTurn
<1>6. ASSUME NEW h \in Hosted,
             \/ HostedFrameRefused(h) \/ Approve(h)
             \/ \E c, r \in BOOLEAN : HostedFrame(h, c, r)
      PROVE  [Turn!Next]_Turn!vars
  <2>1. CASE HostedFrameRefused(h) \/ (Approve(h) /\ Fail("other"))
    BY <2>1, FailIsTurn DEF HostedFrameRefused, Approve, Frame, Running, Turn!Next
  <2>2. CASE Approve(h) /\ UNCHANGED <<req, st, eventVars>>
    BY <2>2, Silent DEF eventVars
  <2> QED BY <1>6, <2>1, <2>2, HostedFrameIsTurn DEF Approve
<1>7. ASSUME NEW b \in Blobs, NEW n \in 0..(MaxBlob + 1), StoreBlob(b, n)
      PROVE  [Turn!Next]_Turn!vars
  <2>1. CASE Fail("other")
    BY <1>7, <2>1, FailIsTurn DEF StoreBlob, Frame, Running, Turn!Next
  <2>2. CASE UNCHANGED <<req, st, eventVars>>
    BY <2>2, Silent DEF eventVars
  <2> QED BY <1>7, <2>1, <2>2 DEF StoreBlob
<1>8. CASE UNCHANGED vars
  BY <1>8, Silent DEF vars, eventVars
<1> QED BY <1>1, <1>2, <1>3, <1>4, <1>5, <1>6, <1>7, <1>8 DEF Next

\* An Agent v1 run emits its events as the manager may rely on (runEngine): it
\* completes only with every call answered and every search closed, or hands
\* over the calls of a history request, and emits nothing after its end.
THEOREM AgentImplementsTurn == Spec => ImplementsAgentTurn
<1>1. Spec => []Turns
  BY TurnInitial, TurnsKept, PTL DEF Spec
<1> QED BY <1>1, TurnInitial, StepIsTurn, PTL DEF Spec, ImplementsAgentTurn, Turn!Spec

-----------------------------------------------------------------------------
(***************************************************************************)
(* Sand implements AgentTurn as long as its calls come one at a time.  A   *)
(* segment continues with one result, whatever is open: with a second call *)
(* or a second result about, the turn may go on, and complete, with a call *)
(* that nobody answered (SandParallel.cfg).                                *)
(***************************************************************************)
OneAtATime ==
  req.profile = "sand" /\ ~req.history => \E c \in Calls : open \cup results \subseteq {c}

\* A segment begins with nothing open but the call whose result it carries;
\* what is open later is of this segment.
SandBooks ==
  req.profile = "sand" =>
    /\ searching = {} /\ told \subseteq open
    /\ Sand!Running =>
         /\ seg.ph = "prepare" /\ (req.history \/ ~seg.resume) => open = {}
         /\ seg.ph = "post" => open \subseteq {seg.accepted}
         /\ seg.ph \in {"stream", "execute", "end"} => (seg.seen <=> open # {})
         /\ seg.ph = "stream" /\ seg.seen => seg.emitted

SInv == PInv /\ SandBooks

\* What the books and the turn need of a step that fails or emits nothing.
LEMMA SandFailBooks ==
    ASSUME SInv, req.profile = "sand", Sand!Running, Sand!Fail
    PROVE  SandBooks' /\ [Turn!Next]_Turn!vars
<1>1. SandBooks'
  BY DEF SInv, SandBooks, Sand!Fail, Sand!eventVars, Sand!Running
<1>2. Turn!Fail
  BY DEF Sand!Fail, Sand!eventVars, Sand!Running, Turn!Fail, Turn!Running
<1> QED BY <1>1, <1>2 DEF Turn!Next

\* One result is taken, and it is of the call that is open, if any.
LEMMA PrepareBooks ==
    ASSUME SInv, OneAtATime, req.profile = "sand", Sand!Prepare
    PROVE  SandBooks' /\ [Turn!Next]_Turn!vars
<1>1. /\ UNCHANGED <<req, open, told, searching>> /\ st' = "running"
      /\ st \in {"opening", "running"} /\ seg.ph = "prepare"
  BY DEF Sand!Prepare, Sand!eventVars, Sand!At, Sand!Running
<1>2. seg \in Sand!Segment /\ req.history \in BOOLEAN
  BY SandTypes DEF SInv
<1>3. seg'.ph = "post" /\ open \subseteq {seg'.accepted}
  <2>1. CASE seg.resume
    <3>1. PICK x \in results : seg' = [seg EXCEPT !.ph = "post", !.accepted = x, !.resume = FALSE]
      BY <2>1 DEF Sand!Prepare
    <3>2. seg'.ph = "post" /\ seg'.accepted = x
      BY <1>2, <3>1 DEF Sand!Segment
    <3>3. open \subseteq {x}
      <4>1. CASE req.history
        BY <1>1, <4>1 DEF SInv, SandBooks, Sand!Running
      <4>2. CASE ~req.history
        BY <3>1, <4>2 DEF OneAtATime
      <4> QED BY <4>1, <4>2
    <3> QED BY <3>2, <3>3
  <2>2. CASE ~seg.resume
    <3>1. open = {}
      BY <1>1, <2>2 DEF SInv, SandBooks, Sand!Running
    <3>2. seg' = [seg EXCEPT !.ph = "post", !.accepted = Sand!None]
      BY <2>2 DEF Sand!Prepare
    <3> QED BY <1>2, <3>1, <3>2 DEF Sand!Segment
  <2> QED BY <2>1, <2>2
<1>4. SandBooks'
  BY <1>1, <1>3 DEF SInv, SandBooks
<1>5. UNCHANGED Turn!vars
  BY <1>1 DEF Turn!vars
<1> QED BY <1>4, <1>5

\* The upstream accepts the result: nothing is open any more.
LEMMA PostBooks ==
    ASSUME SInv, req.profile = "sand", Sand!Post
    PROVE  SandBooks' /\ [Turn!Next]_Turn!vars
<1>1. /\ UNCHANGED <<req, st, searching>> /\ Sand!Running /\ seg.ph = "post"
      /\ open' = open \ {seg.accepted} /\ told' = told \ {seg.accepted}
  BY DEF Sand!Post, Sand!At
<1>2. seg \in Sand!Segment /\ open \subseteq Calls
  BY SandTypes DEF SInv
<1>3. open \subseteq {seg.accepted} /\ told \subseteq open
  BY <1>1 DEF SInv, SandBooks
<1>4. seg'.ph = "stream" /\ ~seg'.seen
  BY <1>2 DEF Sand!Post, Sand!Segment
<1>5. SandBooks'
  BY <1>1, <1>3, <1>4 DEF SInv, SandBooks
<1>6. CASE seg.accepted \in Calls
  <2>1. Turn!Accept(seg.accepted)
    BY <1>1 DEF Turn!Accept, Turn!Running, Sand!Running
  <2> QED BY <1>5, <1>6, <2>1 DEF Turn!Next
<1>7. CASE seg.accepted \notin Calls
  <2>1. open' = open /\ told' = told
    BY <1>1, <1>2, <1>3, <1>7
  <2>2. UNCHANGED Turn!vars
    BY <1>1, <2>1, Silent
  <2> QED BY <1>5, <2>2
<1> QED BY <1>6, <1>7

\* Nothing emitted, no call: the segment may be sent again with nothing open.
LEMMA QuietBooks ==
    ASSUME SInv, req.profile = "sand",
           \/ Sand!RetryWithoutSignatures \/ Sand!Execute \/ Sand!Save
           \/ \E signs \in BOOLEAN : Sand!Part(signs)
           \/ \E x \in Calls : Sand!Submit(x)
    PROVE  SandBooks' /\ [Turn!Next]_Turn!vars
<1>1. UNCHANGED <<req, st, open, told, searching>> /\ Sand!Running
  BY DEF Sand!RetryWithoutSignatures, Sand!Execute, Sand!Save, Sand!Part, Sand!Submit,
         Sand!eventVars, Sand!Frame, Sand!At
<1>2. seg \in Sand!Segment
  BY SandTypes DEF SInv
<1>3. CASE Sand!RetryWithoutSignatures
  <2>1. seg.ph = "stream" /\ ~seg.emitted
    BY <1>3 DEF Sand!RetryWithoutSignatures, Sand!Frame, Sand!At
  <2>2. seg'.ph = "post"
    BY <1>2, <1>3 DEF Sand!RetryWithoutSignatures, Sand!Segment
  <2>3. open = {}
    BY <1>1, <1>2, <2>1 DEF SInv, SandBooks, Sand!Segment
  <2> QED BY <1>1, <2>2, <2>3, Silent DEF SInv, SandBooks
<1>4. CASE Sand!Execute
  <2>1. /\ seg.ph = "execute" /\ seg'.ph = "execute" /\ seg'.seen = seg.seen
    BY <1>2, <1>4 DEF Sand!Execute, Sand!At, Sand!Segment, Sand!Kind
  <2> QED BY <1>1, <2>1, Silent DEF SInv, SandBooks, Sand!Running
<1>5. CASE Sand!Save
  <2>1. /\ seg.ph = "execute" /\ seg'.ph = "end" /\ seg'.seen = seg.seen
    BY <1>2, <1>5 DEF Sand!Save, Sand!At, Sand!Segment
  <2> QED BY <1>1, <2>1, Silent DEF SInv, SandBooks, Sand!Running
<1>6. CASE \E signs \in BOOLEAN : Sand!Part(signs)
  <2>1. /\ seg.ph = "stream" /\ seg'.ph = "stream" /\ seg'.seen = seg.seen /\ seg'.emitted
    BY <1>2, <1>6 DEF Sand!Part, Sand!Frame, Sand!At, Sand!Segment
  <2> QED BY <1>1, <2>1, Silent DEF SInv, SandBooks, Sand!Running
<1>7. CASE \E x \in Calls : Sand!Submit(x)
  BY <1>1, <1>7, Silent DEF Sand!Submit, SInv, SandBooks, Sand!Running
<1> QED BY <1>3, <1>4, <1>5, <1>6, <1>7

LEMMA ToolPartBooks ==
    ASSUME SInv, req.profile = "sand", NEW x \in req.catalog \cup Hosted, NEW final \in BOOLEAN,
           Sand!ToolPart(x, final)
    PROVE  SandBooks' /\ [Turn!Next]_Turn!vars
<1>1. /\ UNCHANGED <<req, st, told, searching>> /\ Sand!Running /\ seg.ph = "stream"
      /\ open' = IF final /\ x \in Calls THEN open \cup {x} ELSE open
  BY DEF Sand!ToolPart, Sand!Frame, Sand!At
<1>2. seg \in Sand!Segment
  BY SandTypes DEF SInv
<1>3. CASE final /\ x \in Calls
  <2>1. seg'.ph = "stream" /\ seg'.seen /\ seg'.emitted
    BY <1>1, <1>2, <1>3 DEF Sand!ToolPart, Sand!Segment
  <2>2. SandBooks'
    BY <1>1, <1>3, <2>1 DEF SInv, SandBooks
  <2>3. Turn!Call(x)
    BY <1>1, <1>3 DEF Turn!Call, Turn!Running, Sand!Running
  <2> QED BY <1>3, <2>2, <2>3 DEF Turn!Next
<1>4. CASE ~(final /\ x \in Calls)
  <2>1. seg'.ph = "stream" /\ seg'.seen = seg.seen /\ seg'.emitted = seg.emitted
    BY <1>1, <1>2, <1>4 DEF Sand!ToolPart, Sand!Segment
  <2> QED BY <1>1, <1>4, <2>1, Silent DEF SInv, SandBooks, Sand!Running
<1> QED BY <1>3, <1>4

LEMMA TrailerBooks ==
    ASSUME SInv, req.profile = "sand", Sand!Trailer
    PROVE  SandBooks' /\ [Turn!Next]_Turn!vars
<1>1. Sand!Running /\ seg.ph = "stream" /\ seg \in Sand!Segment
  BY SandTypes DEF Sand!Trailer, Sand!Frame, Sand!At, SInv
<1>2. CASE Sand!Fail
  BY <1>1, <1>2, SandFailBooks
<1>3. CASE seg' = [seg EXCEPT !.ph = "execute", !.emitted = TRUE] /\ UNCHANGED <<req, st, Sand!eventVars>>
  <2>1. seg'.ph = "execute" /\ seg'.seen = seg.seen
    BY <1>1, <1>3 DEF Sand!Segment
  <2> QED BY <1>1, <1>3, <2>1, Silent DEF SInv, SandBooks, Sand!Running, Sand!eventVars
<1> QED BY <1>2, <1>3 DEF Sand!Trailer

\* The end of a segment: with a call the boundary, without one nothing is open.
LEMMA EndBooks ==
    ASSUME SInv, req.profile = "sand", Sand!EndParks \/ Sand!EndContinues \/ Sand!EndReturns
    PROVE  SandBooks' /\ [Turn!Next]_Turn!vars
<1>1. Sand!Running /\ seg.ph = "end"
  BY DEF Sand!EndParks, Sand!EndContinues, Sand!EndReturns, Sand!At
<1>2. seg \in Sand!Segment /\ open \subseteq Calls
  BY SandTypes DEF SInv
<1>3. (seg.seen <=> open # {}) /\ searching = {} /\ told \subseteq open
  BY <1>1 DEF SInv, SandBooks
<1>4. CASE Sand!EndParks
  <2>1. /\ UNCHANGED <<req, st, open, searching>> /\ told' = open
        /\ seg'.ph = "prepare" /\ seg'.resume /\ ~req.history /\ seg.seen
    BY <1>2, <1>4 DEF Sand!EndParks, Sand!Again, Sand!Segment
  <2>2. Turn!Boundary
    BY <1>1, <1>3, <2>1 DEF Turn!Boundary, Turn!Running, Sand!Running
  <2> QED BY <1>3, <2>1, <2>2 DEF SandBooks, Turn!Next
<1>5. CASE Sand!EndContinues /\ Sand!Fail
  BY <1>1, <1>5, SandFailBooks
<1>6. CASE Sand!EndContinues /\ ~Sand!Fail
  <2>1. /\ UNCHANGED <<req, st, open, told, searching>> /\ seg'.ph = "prepare" /\ ~seg.seen
    BY <1>2, <1>6 DEF Sand!EndContinues, Sand!Again, Sand!Segment, Sand!eventVars
  <2> QED BY <1>3, <2>1, Silent DEF SInv, SandBooks
<1>7. CASE Sand!EndReturns
  <2>1. /\ UNCHANGED <<req, open, searching>> /\ told' = (IF seg.seen THEN open ELSE told)
        /\ st' \in {"done", "failed"}
        /\ IF seg.seen THEN req.history ELSE ~seg.ran
    BY <1>7 DEF Sand!EndReturns
  <2>2. SandBooks'
    BY <1>3, <2>1 DEF SandBooks, Sand!Running
  <2>3. CASE st' = "failed"
    <3>1. Turn!Fail
      BY <1>1, <2>1, <2>3 DEF Turn!Fail, Turn!Running, Sand!Running
    <3> QED BY <2>2, <3>1 DEF Turn!Next
  <2>4. CASE st' = "done" /\ seg.seen
    <3>1. PICK x \in Calls : x \in open
      BY <1>2, <1>3, <2>4
    <3>2. open' = open \cup {x}
      BY <2>1, <3>1
    <3>3. Turn!HandOff
      BY <1>1, <2>1, <2>4, <3>2 DEF Turn!HandOff, Turn!Running, Sand!Running
    <3> QED BY <2>2, <3>3 DEF Turn!Next
  <2>5. CASE st' = "done" /\ ~seg.seen
    <3>1. Turn!Finish
      BY <1>1, <1>3, <2>1, <2>5 DEF Turn!Finish, Turn!Running, Sand!Running
    <3> QED BY <2>2, <3>1 DEF Turn!Next
  <2> QED BY <2>1, <2>3, <2>4, <2>5
<1> QED BY <1>4, <1>5, <1>6, <1>7

LEMMA SandIsTurn ==
    ASSUME SInv, OneAtATime, req.profile = "sand", Sand!Next
    PROVE  SandBooks' /\ [Turn!Next]_Turn!vars
<1>1. CASE Sand!Broken \/ Sand!PrepareMismatch \/ Sand!ExecuteFails \/ Sand!ToolPartFails
  BY <1>1, SandFailBooks
     DEF Sand!Broken, Sand!PrepareMismatch, Sand!ExecuteFails, Sand!ToolPartFails, Sand!Frame, Sand!At
<1>2. CASE Sand!Prepare \/ Sand!Post \/ Sand!Trailer
  BY <1>2, PrepareBooks, PostBooks, TrailerBooks
<1>3. CASE \/ Sand!RetryWithoutSignatures \/ Sand!Execute \/ Sand!Save
           \/ \E signs \in BOOLEAN : Sand!Part(signs)
           \/ \E x \in Calls : Sand!Submit(x)
  BY <1>3, QuietBooks
<1>4. CASE Sand!EndParks \/ Sand!EndContinues \/ Sand!EndReturns
  BY <1>4, EndBooks
<1>5. CASE \E x \in req.catalog \cup Hosted, final \in BOOLEAN : Sand!ToolPart(x, final)
  BY <1>5, ToolPartBooks
<1> QED BY <1>1, <1>2, <1>3, <1>4, <1>5 DEF Sand!Next

LEMMA ProfileTurnInitial == ProfileInit => SInv /\ Turn!Init
<1> SUFFICES ASSUME ProfileInit PROVE SInv /\ Turn!Init
  OBVIOUS
<1>1. PInv
  BY ProfileInitial
<1>2. req.history \in BOOLEAN /\ open = {} /\ told = {} /\ searching = {} /\ st = "opening"
  BY <1>1, SandTypes DEF ProfileInit, Fresh
<1>3. req.profile = "sand" => seg.ph = "prepare"
  BY DEF ProfileInit, Sand!Init, Sand!FirstSegment
<1> QED BY <1>1, <1>2, <1>3 DEF SInv, SandBooks, Turn!Init

LEMMA ProfileTurnStep ==
    SInv /\ OneAtATime /\ [ProfileNext]_profileVars => SInv' /\ [Turn!Next]_Turn!vars
<1> SUFFICES ASSUME SInv, OneAtATime, [ProfileNext]_profileVars
             PROVE  SandBooks' /\ [Turn!Next]_Turn!vars
  BY ProfileStep DEF SInv
<1>1. CASE Agent(Next)
  <2>1. Turns
    BY <1>1 DEF Agent, Turns, SInv, PInv
  <2> QED BY <1>1, <2>1, StepIsTurn, RequestKept DEF Agent, SandBooks
<1>2. CASE req.profile = "sand" /\ Sand!Next
  BY <1>2, SandIsTurn
<1>3. CASE Invalid
  <2>1. req' = req /\ Turn!Fail
    BY <1>3, FailIsTurn DEF Invalid, Fail
  <2> QED BY <1>3, <2>1 DEF Invalid, SandBooks, Turn!Next
<1>4. CASE UNCHANGED profileVars
  BY <1>4, Silent DEF profileVars, vars, eventVars, SInv, SandBooks, Sand!Running
<1> QED BY <1>1, <1>2, <1>3, <1>4 DEF ProfileNext

\* A run of either profile emits its events as the manager may rely on.  For
\* Sand this rests on calls coming one at a time, as the gateway's continuation
\* with one result expects (prepareInferenceRun); nothing in the runner makes
\* sure of it.
THEOREM ProfileImplementsTurn == ProfileSpec /\ []OneAtATime => ImplementsAgentTurn
<1>1. ProfileSpec /\ []OneAtATime => []SInv
  BY ProfileTurnInitial, ProfileTurnStep, PTL DEF ProfileSpec
<1> QED BY <1>1, ProfileTurnInitial, ProfileTurnStep, PTL
        DEF ProfileSpec, ImplementsAgentTurn, Turn!Spec
=============================================================================
