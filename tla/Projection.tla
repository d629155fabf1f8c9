----------------------------- MODULE Projection -----------------------------
(***************************************************************************)
(* claudeProjection (cursoragentv1/project_claude.go, project_responses.go)*)
(* turns the events of one output into the client's protocol: Claude       *)
(* Messages, OpenAI Chat (translated from the Claude stream by a library)  *)
(* or OpenAI Responses.  It keeps the body of a non-streaming answer       *)
(* (nonStream) and the usage facts (usage_observation.go) beside the       *)
(* stream.  The manager captures the same events in a snapshot             *)
(* (completed_events.go), from which a retry of the request is answered by *)
(* a new projection.                                                       *)
(*                                                                         *)
(* The projection is a record and each method a function on it; what a     *)
(* method writes is appended to "out", which the executor delivers chunk by*)
(* chunk before it reads the next event.  Text is a sequence of pieces.    *)
(***************************************************************************)
EXTENDS Naturals, Sequences, FiniteSets, SequencesExt

CONSTANTS Formats,     \* subset of {"claude", "chat", "responses"}
          Calls,       \* caller tool calls
          Hosted,      \* hosted web calls
          TokenCounts, \* the counts a usage frame may report
          MaxEvents,   \* bound: events before the one that ends the response
          MaxBytes     \* maxCompletedEventBytes

ASSUME ProjectionAssumption ==
    /\ Formats \subseteq {"claude", "chat", "responses"}
    /\ MaxEvents \in Nat /\ MaxBytes \in Nat
    /\ TokenCounts \subseteq Nat

VARIABLES p,        \* the projection
          snap,     \* the manager's eventSnapshot
          phase,    \* the client: how far its response is
          items,    \* the client: the items it has seen
          upstream  \* what the run has emitted so far

vars == <<p, snap, phase, items, upstream>>

NoIndex == 0

\* The blocks that are written piece by piece.
Blocks == {"text", "thinking"}

NoFacts == [progress |-> 0, tokens |-> 0, searches |-> 0, output |-> 0]

\* newClaudeProjection.  cur holds the index of the open text and thinking
\* block, buf their text so far, body the finished blocks in the order stored.
New(format) ==
    [format |-> format, st |-> "running", started |-> FALSE, next |-> 1,
     cur |-> [b \in Blocks |-> NoIndex], buf |-> [b \in Blocks |-> <<>>],
     calls |-> <<>>, search |-> [h \in Hosted |-> NoIndex],
     body |-> <<>>, facts |-> NoFacts, out |-> <<>>]

\* Claude and Chat requests carry their whole history and become full-history
\* runs; Responses requests do not.
HistoryTurn(format) == format # "responses"

Init ==
    /\ \E f \in Formats : p = New(f)
    /\ snap = [events |-> <<>>, bytes |-> 0, last |-> 0]
    /\ phase = "idle" /\ items = <<>>
    /\ upstream = [n |-> 0, said |-> 0, text |-> <<>>, called |-> {},
                   started |-> {}, searched |-> {}]

-----------------------------------------------------------------------------
(***************************************************************************)
(* The methods that write blocks.                                          *)
(***************************************************************************)
Emit(q, chunk) == [q EXCEPT !.out = Append(@, chunk)]

Store(q, i, kind, text) ==
    [q EXCEPT !.body = Append(@, [i |-> i, kind |-> kind, text |-> text])]

\* start, responsesStart
Start(q) ==
    IF q.started THEN q ELSE Emit([q EXCEPT !.started = TRUE], [k |-> "start"])

\* nextBlock, nextResponsesOutput with the chunk that opens the item.
OpenItem(q, kind, text) ==
    Emit([q EXCEPT !.next = @ + 1],
         [k |-> "open", i |-> q.next, kind |-> kind, text |-> text])

CloseItem(q, i) == Emit(q, [k |-> "close", i |-> i])

\* An item that is written at once: tool calls, and the Claude blocks of
\* hosted calls and of signed thinking.
WholeItem(q, kind, text) ==
    CloseItem(OpenItem(Store(q, q.next, kind, text), kind, text), q.next)

\* responsesEnsureMessage, responsesEnsureReasoning and the Claude equivalents.
Ensure(q, kind) ==
    IF q.cur[kind] # NoIndex THEN q
    ELSE OpenItem([q EXCEPT !.cur[kind] = q.next], kind, <<>>)

\* Mutant of CloseBlock: the text written so far is not reset.
CloseBlockKeepsText(q, kind) ==
    IF q.cur[kind] = NoIndex THEN q
    ELSE CloseItem([Store(q, q.cur[kind], kind, q.buf[kind]) EXCEPT
                      !.cur[kind] = NoIndex], q.cur[kind])

\* Mutant of CloseBlock: the block is closed but still taken to be open.
CloseBlockStaysOpen(q, kind) ==
    IF q.cur[kind] = NoIndex THEN q
    ELSE CloseItem([Store(q, q.cur[kind], kind, q.buf[kind]) EXCEPT
                      !.buf[kind] = <<>>], q.cur[kind])

\* closeText, closeThinking, responsesCloseMessage, responsesCloseReasoning.
CloseBlock(q, kind) ==
    IF q.cur[kind] = NoIndex THEN q
    ELSE CloseItem([Store(q, q.cur[kind], kind, q.buf[kind]) EXCEPT
                      !.cur[kind] = NoIndex, !.buf[kind] = <<>>], q.cur[kind])

CloseBoth(q) == CloseBlock(CloseBlock(q, "thinking"), "text")

Delta(q, kind, text) ==
    Emit(q, [k |-> "delta", i |-> q.cur[kind], text |-> text])

\* finish, responsesFinish: the last chunks.
Finish(q, st) == Emit([q EXCEPT !.st = st], [k |-> "end"])

\* A projection error; the executor sends it and cancels the run.
Reject(q) == Emit([q EXCEPT !.st = "failed"], [k |-> "error"])

-----------------------------------------------------------------------------
(***************************************************************************)
(* One method per event.                                                   *)
(***************************************************************************)
Buffered(q, kind, text) == [q EXCEPT !.buf[kind] = @ \o text]

\* Mutant of OnText: the piece that ends a thinking block is lost.
OnTextAfterThinking(q, e) ==
    IF q.cur["thinking"] # NoIndex THEN CloseBlock(q, "thinking")
    ELSE Delta(Ensure(Start(Buffered(q, "text", e.text)), "text"), "text", e.text)

OnText(q, e) ==
    Delta(Ensure(CloseBlock(Start(Buffered(q, "text", e.text)), "thinking"), "text"),
          "text", e.text)

\* Claude clients get thinking only as a whole, signed block.
OnThinking(q, e) ==
    IF q.format = "claude" THEN Buffered(q, "thinking", e.text)
    ELSE Delta(Ensure(CloseBlock(Start(Buffered(q, "thinking", e.text)), "text"), "thinking"),
               "thinking", e.text)

\* emitSignedThinking drops what is unsigned or empty.
OnThinkingCompleted(q, e) ==
    LET rest == [q EXCEPT !.buf["thinking"] = <<>>]
    IN  IF q.format # "claude" THEN CloseBlock(q, "thinking")
        ELSE IF ~e.signed \/ q.buf["thinking"] = <<>> THEN rest
        ELSE WholeItem(CloseBlock(Start(rest), "text"), "thinking", q.buf["thinking"])

\* projectHostedSearchStarted, responsesSearchStarted: once per call.  The
\* Responses item stays open, the Claude block does not.
OnSearchStarted(q, e) ==
    LET r == [CloseBoth(Start(q)) EXCEPT !.search[e.h] = CloseBoth(Start(q)).next]
    IN  IF q.search[e.h] # NoIndex THEN q
        ELSE IF q.format = "responses" THEN OpenItem(r, "search", <<>>)
        ELSE WholeItem(r, "search", <<>>)

\* Mutant of OnSearchCompleted: a search is taken to have started here.
OnSearchCompletedOnly(q, e) ==
    IF q.format = "responses"
    THEN CloseItem(Store(q, q.search[e.h], "search", <<>>), q.search[e.h])
    ELSE WholeItem(q, "result", <<>>)

\* projectHostedSearchCompleted, responsesSearchCompleted: the start may have
\* been in an earlier response.  An open text block is not closed.
OnSearchCompleted(q, e) ==
    LET r == OnSearchStarted(q, e)
    IN  IF q.format = "responses"
        THEN CloseItem(Store(r, r.search[e.h], "search", <<>>), r.search[e.h])
        ELSE WholeItem(r, "result", <<>>)

OnToolCall(q, e) == [q EXCEPT !.calls = Append(@, e)]

\* The loop of toolHandoff; after[n] is the projection with n calls written.
HandOver(q, calls) ==
    LET after[n \in 0..Len(calls)] ==
            IF n = 0 THEN q ELSE WholeItem(after[n - 1], "call", <<calls[n].c>>)
    IN  after[Len(calls)]

\* toolHandoff; Responses passes the arguments on as they are.
Handoff(q, st) ==
    IF \/ q.calls = <<>>
       \/ q.format # "responses" /\ \E j \in DOMAIN q.calls : ~q.calls[j].ok
    THEN Reject(q)
    ELSE Finish(HandOver(CloseBoth(Start(q)), q.calls), st)

OnDone(q) ==
    IF HistoryTurn(q.format) /\ q.calls # <<>> THEN Handoff(q, "done")
    ELSE Finish(CloseBoth(Start(q)), "done")

\* usageFacts.observe.  A metered request sums the counters of its turns.
Observe(f, e) ==
    CASE e.t = "thinking" -> [f EXCEPT !.progress = @ + (IF e.progress = 0 THEN 1 ELSE e.progress)]
      [] e.t \in {"thinkingCompleted", "searchStarted"} -> [f EXCEPT !.progress = @ + 1]
      [] e.t = "searchCompleted" -> [f EXCEPT !.progress = @ + 1, !.searches = @ + 1]
      [] e.t = "usage" -> [f EXCEPT !.tokens = @ + e.tokens]
      [] e.t = "observation" -> [f EXCEPT !.output = @ + 1]
      [] OTHER -> f

\* handle, handleResponses
Handle(q, e) ==
    LET r == [q EXCEPT !.facts = Observe(@, e)]
    IN  CASE e.t = "text" -> OnText(r, e)
          [] e.t = "thinking" -> OnThinking(r, e)
          [] e.t = "thinkingCompleted" -> OnThinkingCompleted(r, e)
          [] e.t = "searchStarted" -> OnSearchStarted(r, e)
          [] e.t = "searchCompleted" -> OnSearchCompleted(r, e)
          [] e.t = "call" -> OnToolCall(r, e)
          [] e.t = "turnEnded" -> Handoff(r, "parked")
          [] e.t = "done" -> OnDone(r)
          [] OTHER -> r

-----------------------------------------------------------------------------
(***************************************************************************)
(* eventSnapshot.append.  Sizes are those of the JSON encoding: a constant *)
(* per event, the text, and the fields progress_events and tokens when     *)
(* they are not zero.                                                      *)
(***************************************************************************)
\* strconv.Itoa of a number below 10^10.
Digits(n) == 1 + Cardinality({k \in 1..9 : 10^k <= n})

ProgressFieldSize(n) == IF n = 0 THEN 0 ELSE 19 + Digits(n)
TokensFieldSize(n) == IF n = 0 THEN 0 ELSE 10 + Digits(n)
TextSize(e) == IF e.t \in {"text", "thinking"} THEN Len(e.text) ELSE 0
Progress(e) == IF e.t = "thinking" THEN e.progress ELSE 0
Tokens(e) == IF e.t = "usage" THEN e.tokens ELSE 0
SnapshotEventSize(e) ==
    4 + TextSize(e) + ProgressFieldSize(Progress(e)) + TokensFieldSize(Tokens(e))

Combines(a, e) == a.t = e.t /\ e.t \in {"text", "thinking", "usage"}

\* Mutant of Combined: the progress of the event that is merged is lost.
CombinedUncounted(a, e) ==
    IF e.t = "usage" THEN [a EXCEPT !.tokens = @ + e.tokens]
    ELSE [a EXCEPT !.text = @ \o e.text]

\* Adjacent deltas of one kind become one event.
Combined(a, e) ==
    CASE e.t = "usage" -> [a EXCEPT !.tokens = @ + e.tokens]
      [] e.t = "text" -> [a EXCEPT !.text = @ \o e.text]
      [] OTHER -> [a EXCEPT !.text = @ \o e.text,
                            !.progress = (IF @ = 0 THEN 1 ELSE @)
                                         + (IF e.progress = 0 THEN 1 ELSE e.progress)]

\* Mutant of CombinedGrowth: the growth of the progress field is forgotten.
CombinedGrowthOfText(a, e, last) ==
    IF e.t = "usage" THEN SnapshotEventSize(Combined(a, e)) - last ELSE TextSize(e)

\* What combining adds: text is counted by its own size, usage by encoding
\* the event again.
CombinedGrowth(a, e, last) ==
    IF e.t = "usage" THEN SnapshotEventSize(Combined(a, e)) - last
    ELSE TextSize(e) + ProgressFieldSize(Progress(Combined(a, e))) - ProgressFieldSize(Progress(a))

Captured(s, e) ==
    LET n == Len(s.events)
        old == IF s.bytes = 0 THEN 2 ELSE s.bytes
        growth == CombinedGrowth(s.events[n], e, s.last)
        size == SnapshotEventSize(e)
    IN  IF n > 0 /\ Combines(s.events[n], e)
        THEN [events |-> [s.events EXCEPT ![n] = Combined(@, e)],
              bytes |-> old + growth, last |-> s.last + growth]
        ELSE [events |-> Append(s.events, e),
              bytes |-> old + size + (IF n > 0 THEN 1 ELSE 0), last |-> size]

-----------------------------------------------------------------------------
(***************************************************************************)
(* The run emits an event: the manager captures it and sends it on, or, if *)
(* the snapshot would be too large, fails the run.                         *)
(***************************************************************************)
Reading == p.st = "running" /\ p.out = <<>>
MayEmit == Reading /\ upstream.n < MaxEvents

Process(e) ==
    IF Captured(snap, e).bytes > MaxBytes
    THEN p' = Reject(p) /\ UNCHANGED snap
    ELSE snap' = Captured(snap, e) /\ p' = Handle(p, e)

Text ==
    /\ MayEmit
    /\ Process([t |-> "text", text |-> <<upstream.said + 1>>])
    /\ upstream' = [upstream EXCEPT !.n = @ + 1, !.said = @ + 1, !.text = Append(@, upstream.said + 1)]
    /\ UNCHANGED <<phase, items>>

Thinking ==
    /\ MayEmit
    /\ Process([t |-> "thinking", text |-> <<upstream.said + 1>>, progress |-> 0])
    /\ upstream' = [upstream EXCEPT !.n = @ + 1, !.said = @ + 1]
    /\ UNCHANGED <<phase, items>>

ThinkingCompleted(signed) ==
    /\ MayEmit
    /\ Process([t |-> "thinkingCompleted", signed |-> signed])
    /\ upstream' = [upstream EXCEPT !.n = @ + 1]
    /\ UNCHANGED <<phase, items>>

\* A hosted call is announced once; the announcement may have been read by
\* an earlier request of the same turn.
SearchStarted(h) ==
    /\ MayEmit /\ h \notin upstream.started \cup upstream.searched
    /\ Process([t |-> "searchStarted", h |-> h])
    /\ upstream' = [upstream EXCEPT !.n = @ + 1, !.started = @ \cup {h}]
    /\ UNCHANGED <<phase, items>>

SearchCompleted(h) ==
    /\ MayEmit /\ h \notin upstream.searched
    /\ Process([t |-> "searchCompleted", h |-> h])
    /\ upstream' = [upstream EXCEPT !.n = @ + 1, !.searched = @ \cup {h}]
    /\ UNCHANGED <<phase, items>>

\* ok: the arguments are valid JSON.
ToolCall(c, ok) ==
    /\ MayEmit /\ c \notin upstream.called
    /\ Process([t |-> "call", c |-> c, ok |-> ok])
    /\ upstream' = [upstream EXCEPT !.n = @ + 1, !.called = @ \cup {c}]
    /\ UNCHANGED <<phase, items>>

Usage(t, n) ==
    /\ MayEmit
    /\ Process([t |-> t, tokens |-> n])
    /\ upstream' = [upstream EXCEPT !.n = @ + 1]
    /\ UNCHANGED <<phase, items>>

\* The boundary of a turn with open calls, which may be those of an earlier
\* response.
TurnEnded ==
    /\ Reading
    /\ Process([t |-> "turnEnded"])
    /\ UNCHANGED <<phase, items, upstream>>

\* The completion of the run (AgentTurn!Finish and HandOff): calls are left
\* only for a full-history request.
Done ==
    /\ Reading
    /\ upstream.started \subseteq upstream.searched \/ upstream.called # {}
    /\ upstream.called = {} \/ HistoryTurn(p.format)
    /\ Process([t |-> "done"])
    /\ UNCHANGED <<phase, items, upstream>>

\* The output is closed with an error, or ends without a completion.
RunFails ==
    /\ Reading
    /\ p' = Reject(p)
    /\ UNCHANGED <<snap, phase, items, upstream>>

\* The items with one chunk more, as a client reads it.
Receive(its, c) ==
    CASE c.k = "open" -> Append(its, [kind |-> c.kind, text |-> c.text, open |-> TRUE])
      [] c.k = "delta" -> [its EXCEPT ![c.i].text = @ \o c.text]
      [] c.k = "close" -> [its EXCEPT ![c.i].open = FALSE]
      [] OTHER -> its

\* emitStream, continueStream: the next chunk reaches the client.
Deliver ==
    LET c == Head(p.out)
    IN  /\ p.out # <<>>
        /\ p' = [p EXCEPT !.out = Tail(@)]
        /\ phase' = CASE c.k = "start" -> "streaming"
                      [] c.k = "end" -> "ended"
                      [] c.k = "error" -> "broken"
                      [] OTHER -> phase
        /\ items' = Receive(items, c)
        /\ UNCHANGED <<snap, upstream>>

Next ==
    \/ Text \/ Thinking \/ TurnEnded \/ Done \/ RunFails \/ Deliver
    \/ \E signed \in BOOLEAN : ThinkingCompleted(signed)
    \/ \E h \in Hosted : SearchStarted(h) \/ SearchCompleted(h)
    \/ \E c \in Calls, ok \in BOOLEAN : ToolCall(c, ok)
    \/ \E n \in TokenCounts : Usage("usage", n)
    \/ Usage("observation", 0)

Spec == Init /\ [][Next]_vars

-----------------------------------------------------------------------------
(***************************************************************************)
(* Properties.                                                             *)
(***************************************************************************)
Completed == p.st \in {"done", "parked"} /\ p.out = <<>>

\* The text of the items, in their order.
TextOf(its) ==
    LET upTo[n \in 0..Len(its)] ==
            IF n = 0 THEN <<>>
            ELSE upTo[n - 1] \o (IF its[n].kind = "text" THEN its[n].text ELSE <<>>)
    IN  upTo[Len(its)]

\* nonStream, responsesNonStream: Responses sorts the finished items by index.
ByIndex(body) ==
    LET Rank(j) == Cardinality({k \in DOMAIN body : body[k].i <= body[j].i})
    IN  [r \in DOMAIN body |-> body[CHOOSE j \in DOMAIN body : Rank(j) = r]]

Content(x) == [kind |-> x.kind, text |-> x.text]

\* The body of a non-streaming answer.
NonStream(q) ==
    LET shown == IF q.format = "responses" THEN ByIndex(q.body) ELSE q.body
    IN  [j \in DOMAIN shown |-> Content(shown[j])]

\* The finished items of the stream.
Streamed ==
    LET finished == SelectSeq(items, LAMBDA x : ~x.open)
    IN  [j \in DOMAIN finished |-> Content(finished[j])]

\* A new projection that is fed these events.
Replay(format, events) ==
    LET after[n \in 0..Len(events)] ==
            IF n = 0 THEN New(format) ELSE Handle(after[n - 1], events[n])
    IN  after[Len(events)]

\* Type invariant of the projection: at most one of text and thinking is open,
\* and the index in a chunk that opens an item is the one the client gives it
\* (nextBlock, nextResponsesOutput).
TypeOK ==
    /\ p.st \in {"running", "done", "parked", "failed"}
    /\ p.cur["text"] = NoIndex \/ p.cur["thinking"] = NoIndex
    /\ p.out = <<>> => p.next = Len(items) + 1
    /\ p.out # <<>> /\ Head(p.out).k = "open" => Head(p.out).i = Len(items) + 1
    /\ snap.bytes \in Nat /\ phase \in {"idle", "streaming", "ended", "broken"}

Stream == INSTANCE ResponseStream

\* Whatever order the run's events come in, the chunks of every protocol form
\* a response a client can read: see ResponseStream.
ImplementsResponseStream == Stream!Spec

\* The text of the items, in their order, is the text of the run's events:
\* none is lost, repeated or moved by the opening and closing of blocks.
TextOnce == Completed => TextOf(items) = upstream.text

\* A client that streams and one that does not are told the same items: what
\* one is told, the other is told as often.
BodyHasStreamedItems ==
    Completed =>
        LET body == NonStream(p)
            finished == {i \in DOMAIN items : ~items[i].open}
        IN  \A x \in {body[j] : j \in DOMAIN body} \cup {Content(items[i]) : i \in finished} :
               Cardinality({j \in DOMAIN body : body[j] = x})
                 = Cardinality({i \in finished : Content(items[i]) = x})

\* A retry that is answered from the snapshot has the body and the usage facts
\* of the response it repeats, although its events were combined.
ReplayIsSame ==
    Completed => LET q == Replay(p.format, snap.events)
                 IN  q.body = p.body /\ q.facts = p.facts /\ q.st = p.st

\* The running byte count is the size of the snapshot's JSON array, however
\* its events were combined.
SnapshotBytes ==
    snap.events # <<>> =>
        snap.bytes = 1 + FoldFunction(+, 0, [j \in DOMAIN snap.events |-> SnapshotEventSize(snap.events[j]) + 1])

\* The test of interleaved blocks expects the same order in the stream and in
\* the body.  Violated when text comes between the start and the completion
\* of a hosted call: its block is numbered first but stored last.
BodyInStreamOrder == Completed => NonStream(p) = Streamed
=============================================================================
