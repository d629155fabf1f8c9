-------------------------- MODULE ProjectionProofs --------------------------
(***************************************************************************)
(* Proofs about Projection for responses of any length with any number of  *)
(* calls and searches: the chunks of every protocol form a response that a *)
(* client can read (ResponseStream), the byte count of the snapshot is the *)
(* size of its events, a retry from the snapshot repeats the response, and *)
(* the client is told the text of the run once and the same items whether  *)
(* it streams or not.                                                      *)
(*                                                                         *)
(* The chunks not yet delivered are described position by position: what a *)
(* chunk addresses is open where it stands, counting the items the client  *)
(* has and the chunks before it.  The replay is compared field by field    *)
(* (Twin).  The text and the body are compared with the items the client   *)
(* will have once every chunk is delivered (View, Told).                   *)
(***************************************************************************)
EXTENDS Projection, SumTheorems, SequenceTheorems

Kinds == {"text", "thinking", "search", "result", "call"}
Pieces == Seq(Nat \cup Calls)
Item == [kind: Kinds, text: Pieces, open: BOOLEAN]

Mark == [k: {"start", "end", "error"}]
OpenChunk == [k: {"open"}, i: Nat, kind: Kinds, text: Pieces]
DeltaChunk == [k: {"delta"}, i: Nat, text: Pieces \ {<<>>}]
CloseChunk == [k: {"close"}, i: Nat]
Chunk == Mark \cup OpenChunk \cup DeltaChunk \cup CloseChunk

CallEvent == [t: {"call"}, c: Calls, ok: BOOLEAN]
Facts == [progress: Nat, tokens: Nat, searches: Nat, output: Nat]

Proj == [format: {"claude", "chat", "responses"}, st: {"running", "done", "parked", "failed"},
         started: BOOLEAN, next: Nat, cur: [Blocks -> Nat], buf: [Blocks -> Pieces],
         calls: Seq(CallEvent), search: [Hosted -> Nat],
         body: Seq([i: Nat, kind: Kinds, text: Pieces]), facts: Facts, out: Seq(Chunk)]

-----------------------------------------------------------------------------
(***************************************************************************)
(* The client's view, after the first j - 1 of the chunks o.               *)
(***************************************************************************)
Opens(o, k, i) == o[k].k = "open" /\ o[k].i = i
Closes(o, k, i) == o[k].k = "close" /\ o[k].i = i

Opened(o, j, i) == i \in 1..Len(items) \/ \E k \in 1..(j - 1) : Opens(o, k, i)
Closed(o, j, i) ==
    (i \in 1..Len(items) /\ ~items[i].open) \/ \E k \in 1..(j - 1) : Closes(o, k, i)
Live(o, j, i) == Opened(o, j, i) /\ ~Closed(o, j, i)
AtEnd(o, i) == Live(o, Len(o) + 1, i)

\* Item i is or will be of this kind.
Is(o, i, kind) ==
    \/ i \in 1..Len(items) /\ items[i].kind = kind
    \/ \E k \in 1..Len(o) : Opens(o, k, i) /\ o[k].kind = kind

\* Items are opened in the order of their indices, without gaps.
Numbered(o, n) ==
    /\ Len(items) < n /\ (n = Len(items) + 1 \/ \E k \in 1..Len(o) : Opens(o, k, n - 1))
    /\ \A k \in 1..Len(o) : o[k].k = "open" =>
          /\ Len(items) < o[k].i /\ o[k].i < n
          /\ o[k].i = Len(items) + 1 \/ \E l \in 1..(k - 1) : Opens(o, l, o[k].i - 1)
          /\ \A l \in 1..(k - 1) : o[l].k = "open" => o[l].i < o[k].i

\* Text is added to open items, and open items are closed.
Addressed(o) ==
    \A j \in 1..Len(o) : o[j].k \in {"delta", "close"} => Live(o, j, o[j].i)

\* Nothing follows the end, and only searches are open then.
Ended(o) ==
    \A j \in 1..Len(o) :
        /\ o[j].k \in {"end", "error"} => j = Len(o)
        /\ o[j].k = "end" => \A i \in Nat : Live(o, j, i) => Is(o, i, "search")

Readable(o, n) == o \in Seq(Chunk) /\ n \in Nat /\ Numbered(o, n) /\ Addressed(o) /\ Ended(o)

\* The response starts once, before everything but an error.
Phased(q) ==
    /\ ~q.started => /\ phase \in {"idle", "broken"}
                     /\ \A j \in 1..Len(q.out) : q.out[j].k = "error"
                     /\ \A b \in Blocks : q.cur[b] = NoIndex
                     /\ \A h \in Hosted : q.search[h] = NoIndex
    /\ q.started => phase # "idle" \/ (Len(q.out) > 0 /\ q.out[1].k = "start")
    /\ \A j \in 1..Len(q.out) : q.out[j].k = "start" => j = 1 /\ phase = "idle"
    /\ phase \in {"ended", "broken"} => q.out = <<>> /\ q.st # "running"
    /\ q.st = "running" => \A j \in 1..Len(q.out) : q.out[j].k \notin {"end", "error"}

\* What the projection takes to be open is what is open; searched are the
\* hosted calls that were completed.
Owned(q, searched) ==
    /\ q.cur["text"] = NoIndex \/ q.cur["thinking"] = NoIndex
    /\ \A b \in Blocks : q.cur[b] # NoIndex => AtEnd(q.out, q.cur[b]) /\ Is(q.out, q.cur[b], b)
    /\ \A i \in Nat : AtEnd(q.out, i) => (\E b \in Blocks : q.cur[b] = i) \/ Is(q.out, i, "search")
    /\ q.format = "responses" =>
         \A h \in Hosted : q.search[h] # NoIndex =>
            /\ Is(q.out, q.search[h], "search")
            /\ h \notin searched => AtEnd(q.out, q.search[h])
            /\ \A g \in Hosted : q.search[g] = q.search[h] => g = h

Good(q, searched) ==
    /\ q \in Proj /\ Readable(q.out, q.next) /\ Phased(q)
    /\ q.cur["text"] = NoIndex \/ q.cur["thinking"] = NoIndex
    /\ q.st = "running" => Owned(q, searched)

ClientOK == phase \in {"idle", "streaming", "ended", "broken"} /\ items \in Seq(Item)

-----------------------------------------------------------------------------

(***************************************************************************)
(* One chunk more.                                                         *)
(***************************************************************************)
Extends(o2, o, c) ==
    Len(o2) = Len(o) + 1 /\ o2[Len(o) + 1] = c /\ \A k \in 1..Len(o) : o2[k] = o[k]

LEMMA AppendExtends ==
    ASSUME NEW S, NEW o \in Seq(S), NEW c \in S
    PROVE  Append(o, c) \in Seq(S) /\ Extends(Append(o, c), o, c)
BY DEF Extends

\* What the client sees of it.
Seen(o2, o, c) ==
    /\ \A j \in 1..(Len(o) + 1), i \in Nat : Live(o2, j, i) <=> Live(o, j, i)
    /\ \A i \in Nat, kind \in Kinds :
          Is(o2, i, kind) <=> Is(o, i, kind) \/ (c.k = "open" /\ c.i = i /\ c.kind = kind)
    /\ \A i \in Nat : AtEnd(o2, i) <=>
          /\ AtEnd(o, i) \/ (c.k = "open" /\ c.i = i /\ ~Closed(o, Len(o) + 1, i))
          /\ ~(c.k = "close" /\ c.i = i)

LEMMA ViewKept ==
    ASSUME NEW o \in Seq(Chunk), NEW c \in Chunk, NEW o2 \in Seq(Chunk), Extends(o2, o, c)
    PROVE  Seen(o2, o, c)
<1>1. \A k \in 1..Len(o) : o2[k] = o[k]
  BY DEF Extends
<1>2. Len(o2) = Len(o) + 1 /\ o2[Len(o) + 1] = c /\ Len(o) \in Nat
  BY DEF Extends
<1>3. ASSUME NEW j \in 1..(Len(o) + 1), NEW i \in Nat
      PROVE  (Opened(o2, j, i) <=> Opened(o, j, i)) /\ (Closed(o2, j, i) <=> Closed(o, j, i))
  <2>1. \A k \in 1..(j - 1) : o2[k] = o[k]
    BY <1>1, <1>2
  <2> QED BY <2>1 DEF Opened, Closed, Opens, Closes
<1>4. ASSUME NEW i \in Nat, NEW kind \in Kinds
      PROVE  Is(o2, i, kind) <=> Is(o, i, kind) \/ (c.k = "open" /\ c.i = i /\ c.kind = kind)
  <2>1. 1..Len(o2) = 1..Len(o) \cup {Len(o) + 1}
    BY <1>2
  <2> QED BY <1>1, <1>2, <2>1 DEF Is, Opens
<1>5. ASSUME NEW i \in Nat
      PROVE  /\ Opened(o2, Len(o2) + 1, i) <=> Opened(o, Len(o) + 1, i) \/ (c.k = "open" /\ c.i = i)
             /\ Closed(o2, Len(o2) + 1, i) <=> Closed(o, Len(o) + 1, i) \/ (c.k = "close" /\ c.i = i)
  <2>1. /\ 1..((Len(o2) + 1) - 1) = 1..Len(o) \cup {Len(o) + 1}
        /\ 1..((Len(o) + 1) - 1) = 1..Len(o)
    BY <1>2
  <2> QED BY <1>1, <1>2, <2>1 DEF Opened, Closed, Opens, Closes
<1>6. \A j \in 1..(Len(o) + 1), i \in Nat : Live(o2, j, i) <=> Live(o, j, i)
  BY <1>3 DEF Live
<1>7. ASSUME NEW i \in Nat
      PROVE  AtEnd(o2, i) <=>
                 /\ AtEnd(o, i) \/ (c.k = "open" /\ c.i = i /\ ~Closed(o, Len(o) + 1, i))
                 /\ ~(c.k = "close" /\ c.i = i)
  <2> HIDE DEF Opened, Closed
  <2>1. c.k = "open" => c.k # "close"
    OBVIOUS
  <2> QED BY <1>5, <2>1 DEF AtEnd, Live
<1> QED BY <1>4, <1>6, <1>7 DEF Seen

\* Where items are numbered and addressed, what is closed was opened.
LEMMA NewIsFresh ==
    ASSUME ClientOK, NEW o, NEW n, Readable(o, n)
    PROVE  /\ n \in Nat /\ n # NoIndex
           /\ ~Opened(o, Len(o) + 1, n) /\ ~Closed(o, Len(o) + 1, n)
           /\ \A kind \in Kinds : ~Is(o, n, kind)
           /\ ~AtEnd(o, NoIndex)
<1>1. o \in Seq(Chunk) /\ n \in Nat /\ Numbered(o, n) /\ Addressed(o) /\ Len(o) \in Nat /\ Len(items) \in Nat
  BY DEF Readable, ClientOK
<1>2. Len(items) < n /\ \A k \in 1..Len(o) : o[k].k = "open" => Len(items) < o[k].i /\ o[k].i < n
  BY <1>1 DEF Numbered
<1>3. n \notin 1..Len(items) /\ NoIndex \notin 1..Len(items) /\ n # NoIndex
  BY <1>1, <1>2 DEF NoIndex
<1>4. ASSUME NEW j \in 1..(Len(o) + 1)
      PROVE  ~Opened(o, j, n) /\ ~Opened(o, j, NoIndex)
  <2>1. ASSUME NEW k \in 1..(j - 1) PROVE ~Opens(o, k, n) /\ ~Opens(o, k, NoIndex)
    <3>1. k \in 1..Len(o)
      BY <1>1
    <3>2. o[k].k = "open" => o[k].i \in Nat /\ Len(items) < o[k].i /\ o[k].i < n
      BY <1>1, <1>2, <3>1 DEF Chunk, OpenChunk, DeltaChunk, CloseChunk, Mark
    <3>3. o[k].k = "open" => o[k].i # n /\ o[k].i # NoIndex
      BY <1>1, <3>2 DEF NoIndex
    <3> QED BY <3>3 DEF Opens
  <2> QED BY <1>3, <2>1 DEF Opened
<1>5. ~Closed(o, Len(o) + 1, n)
  <2> SUFFICES ASSUME NEW k \in 1..Len(o), Closes(o, k, n) PROVE FALSE
    BY <1>1, <1>3 DEF Closed
  <2>1. Live(o, k, n)
    BY <1>1 DEF Addressed, Closes
  <2> QED BY <1>1, <1>4, <2>1 DEF Live
<1>6. \A kind \in Kinds : ~Is(o, n, kind)
  BY <1>1, <1>2, <1>3 DEF Is, Opens
<1>7. Len(o) + 1 \in 1..(Len(o) + 1)
  BY <1>1
<1> QED BY <1>1, <1>3, <1>4, <1>5, <1>6, <1>7 DEF AtEnd, Live

\* An item is of one kind.
LEMMA OneKind ==
    ASSUME ClientOK, NEW o, NEW n, Readable(o, n), NEW i \in Nat, NEW a \in Kinds, NEW b \in Kinds,
           Is(o, i, a), Is(o, i, b)
    PROVE  a = b
<1>1. o \in Seq(Chunk) /\ Numbered(o, n) /\ Len(o) \in Nat /\ Len(items) \in Nat
  BY DEF Readable, ClientOK
<1>2. \A k \in 1..Len(o) : o[k].k = "open" => Len(items) < o[k].i
  BY <1>1 DEF Numbered
<1>3. CASE i \in 1..Len(items)
  BY <1>1, <1>2, <1>3 DEF Is, Opens
<1>4. CASE i \notin 1..Len(items)
  <2>1. PICK k \in 1..Len(o) : Opens(o, k, i) /\ o[k].kind = a
    BY <1>4 DEF Is
  <2>2. PICK l \in 1..Len(o) : Opens(o, l, i) /\ o[l].kind = b
    BY <1>4 DEF Is
  <2>3. ~(k < l) /\ ~(l < k)
    <3>1. o[k].i = i /\ o[l].i = i /\ o[k].k = "open" /\ o[l].k = "open"
      BY <2>1, <2>2 DEF Opens
    <3>2. k < l => o[k].i < o[l].i
      BY <1>1, <3>1 DEF Numbered
    <3>3. l < k => o[l].i < o[k].i
      BY <1>1, <3>1 DEF Numbered
    <3> QED BY <3>1, <3>2, <3>3
  <2>4. k = l
    BY <1>1, <2>3
  <2> QED BY <2>1, <2>2, <2>4
<1> QED BY <1>3, <1>4

-----------------------------------------------------------------------------
(***************************************************************************)
(* Chunks appended to a response that has not ended.                       *)
(***************************************************************************)
NotOver(o) == \A j \in 1..Len(o) : o[j].k \notin {"end", "error"}

\* The response starts where it did.
Steady(o, o2) ==
    /\ Len(o) > 0 => Len(o2) > 0 /\ o2[1] = o[1]
    /\ \A j \in 1..Len(o2) : o2[j].k = "start" => j \in 1..Len(o) /\ o[j].k = "start"

LEMMA AppendSteady ==
    ASSUME NEW o \in Seq(Chunk), NEW c \in Chunk, NEW o2 \in Seq(Chunk), Extends(o2, o, c),
           c.k # "start"
    PROVE  Steady(o, o2)
<1>1. Len(o) \in Nat /\ Len(o2) = Len(o) + 1 /\ o2[Len(o) + 1] = c /\ \A k \in 1..Len(o) : o2[k] = o[k]
  BY DEF Extends
<1> QED BY <1>1 DEF Steady

\* Appending anything but an end: only the numbering and what the chunk
\* addresses are at stake.
LEMMA AppendReadable ==
    ASSUME NEW o, NEW n, NEW n2 \in Nat, NEW c \in Chunk, NEW o2 \in Seq(Chunk), Extends(o2, o, c),
           Readable(o, n), NotOver(o), Numbered(o2, n2), c.k # "end",
           c.k \in {"delta", "close"} => AtEnd(o, c.i) /\ c.i \in Nat
    PROVE  Readable(o2, n2)
<1>1. /\ o \in Seq(Chunk) /\ Addressed(o) /\ Len(o) \in Nat
      /\ Len(o2) = Len(o) + 1 /\ o2[Len(o) + 1] = c /\ \A k \in 1..Len(o) : o2[k] = o[k]
  BY DEF Readable, Extends
<1>2. \A j \in 1..(Len(o) + 1), i \in Nat : Live(o2, j, i) <=> Live(o, j, i)
  BY <1>1, ViewKept DEF Seen
<1>3. \A j \in 1..Len(o) : o[j].k \in {"delta", "close"} => o[j].i \in Nat
  BY <1>1 DEF Chunk, Mark, OpenChunk, DeltaChunk, CloseChunk
<1>4. Addressed(o2)
  <2> SUFFICES ASSUME NEW j \in 1..Len(o2), o2[j].k \in {"delta", "close"}
               PROVE  Live(o2, j, o2[j].i)
    BY DEF Addressed
  <2>1. CASE j \in 1..Len(o)
    BY <1>1, <1>2, <1>3, <2>1 DEF Addressed
  <2>2. CASE j = Len(o) + 1
    BY <1>1, <1>2, <2>2 DEF AtEnd
  <2> QED BY <1>1, <2>1, <2>2
<1>5. Ended(o2)
  BY <1>1 DEF Ended, NotOver
<1> QED BY <1>4, <1>5 DEF Readable

\* What appending a chunk that opens, closes or extends an item comes to.
Opening(o2, o, n, kind) ==
    /\ Readable(o2, n + 1) /\ NotOver(o2) /\ Steady(o, o2)
    /\ \A i \in Nat : AtEnd(o2, i) <=> AtEnd(o, i) \/ i = n
    /\ \A i \in Nat, b \in Kinds : Is(o2, i, b) <=> Is(o, i, b) \/ (i = n /\ b = kind)

Closing(o2, o, n, j) ==
    /\ Readable(o2, n) /\ NotOver(o2) /\ Steady(o, o2)
    /\ \A i \in Nat : AtEnd(o2, i) <=> AtEnd(o, i) /\ i # j
    /\ \A i \in Nat, b \in Kinds : Is(o2, i, b) <=> Is(o, i, b)

Telling(o2, o, n) ==
    /\ Readable(o2, n) /\ NotOver(o2) /\ Steady(o, o2)
    /\ \A i \in Nat : AtEnd(o2, i) <=> AtEnd(o, i)
    /\ \A i \in Nat, b \in Kinds : Is(o2, i, b) <=> Is(o, i, b)

LEMMA AppendOpen ==
    ASSUME ClientOK, NEW o, NEW n, Readable(o, n), NotOver(o), NEW kind \in Kinds, NEW text \in Pieces
    PROVE  Opening(Append(o, [k |-> "open", i |-> n, kind |-> kind, text |-> text]), o, n, kind)
<1> DEFINE c == [k |-> "open", i |-> n, kind |-> kind, text |-> text]
<1>1. o \in Seq(Chunk) /\ n \in Nat /\ Numbered(o, n) /\ Len(o) \in Nat /\ Len(items) \in Nat
  BY DEF Readable, ClientOK
<1>2. c \in Chunk /\ c.k = "open" /\ c.i = n /\ c.kind = kind
  BY <1>1 DEF Chunk, OpenChunk
<1> HIDE DEF c
<1>3. PICK o2 \in Seq(Chunk) : o2 = Append(o, c) /\ Extends(o2, o, c)
  BY <1>1, <1>2, AppendExtends
<1>4. Len(o2) = Len(o) + 1 /\ o2[Len(o) + 1] = c /\ \A k \in 1..Len(o) : o2[k] = o[k]
  BY <1>3 DEF Extends
<1>5. Numbered(o2, n + 1)
  <2>1. Len(items) < n + 1 /\ Opens(o2, Len(o) + 1, (n + 1) - 1)
    BY <1>1, <1>2, <1>4 DEF Numbered, Opens
  <2>2. ASSUME NEW k \in 1..Len(o2), o2[k].k = "open"
        PROVE  /\ Len(items) < o2[k].i /\ o2[k].i < n + 1
               /\ o2[k].i = Len(items) + 1 \/ \E l \in 1..(k - 1) : Opens(o2, l, o2[k].i - 1)
               /\ \A l \in 1..(k - 1) : o2[l].k = "open" => o2[l].i < o2[k].i
    <3>1. CASE k \in 1..Len(o)
      <4>1. o2[k] = o[k] /\ o[k].i \in Nat /\ \A l \in 1..(k - 1) : l \in 1..Len(o) /\ o2[l] = o[l]
        BY <1>1, <1>4, <2>2, <3>1 DEF Chunk, Mark, OpenChunk, DeltaChunk, CloseChunk
      <4>2. /\ Len(items) < o[k].i /\ o[k].i < n
            /\ o[k].i = Len(items) + 1 \/ \E l \in 1..(k - 1) : Opens(o, l, o[k].i - 1)
            /\ \A l \in 1..(k - 1) : o[l].k = "open" => o[l].i < o[k].i
        BY <1>1, <2>2, <3>1, <4>1 DEF Numbered
      <4>3. \A l \in 1..(k - 1) : Opens(o, l, o[k].i - 1) => Opens(o2, l, o[k].i - 1)
        BY <4>1 DEF Opens
      <4>4. Len(items) < o2[k].i /\ o2[k].i < n + 1
        BY <1>1, <4>1, <4>2
      <4>5. o2[k].i = Len(items) + 1 \/ \E l \in 1..(k - 1) : Opens(o2, l, o2[k].i - 1)
        BY <4>1, <4>2, <4>3
      <4>6. \A l \in 1..(k - 1) : o2[l].k = "open" => o2[l].i < o2[k].i
        BY <4>1, <4>2
      <4> QED BY <4>4, <4>5, <4>6
    <3>2. CASE k = Len(o) + 1
      <4>1. o2[k].i = n /\ 1..(k - 1) = 1..Len(o) /\ \A l \in 1..Len(o) : o2[l] = o[l]
        BY <1>1, <1>2, <1>4, <3>2
      <4>2. /\ Len(items) < n /\ (n = Len(items) + 1 \/ \E l \in 1..Len(o) : Opens(o, l, n - 1))
            /\ \A l \in 1..Len(o) : o[l].k = "open" => o[l].i < n
        BY <1>1 DEF Numbered
      <4>3. (\E l \in 1..Len(o) : Opens(o, l, n - 1)) => \E l \in 1..(k - 1) : Opens(o2, l, n - 1)
        BY <4>1 DEF Opens
      <4> HIDE DEF Opens
      <4>4. Len(items) < o2[k].i /\ o2[k].i < n + 1
        BY <1>1, <4>1, <4>2
      <4>5. o2[k].i = Len(items) + 1 \/ \E l \in 1..(k - 1) : Opens(o2, l, o2[k].i - 1)
        <5>1. n = Len(items) + 1 \/ \E l \in 1..(k - 1) : Opens(o2, l, n - 1)
          BY <4>2, <4>3
        <5>2. o2[k].i = n
          BY <4>1
        <5> QED BY <5>1, <5>2
      <4>6. \A l \in 1..(k - 1) : o2[l].k = "open" => o2[l].i < o2[k].i
        BY <4>1, <4>2
      <4> QED BY <4>4, <4>5, <4>6
    <3> QED BY <1>1, <1>4, <3>1, <3>2
  <2> QED BY <1>1, <1>4, <2>1, <2>2 DEF Numbered
<1>6. Readable(o2, n + 1)
  <2>1. n + 1 \in Nat /\ c.k # "end" /\ c.k \notin {"delta", "close"}
    BY <1>1, <1>2
  <2> QED BY <1>2, <1>3, <1>5, <2>1, AppendReadable
<1>7. NotOver(o2)
  BY <1>1, <1>2, <1>4 DEF NotOver
<1>8. Steady(o, o2)
  BY <1>1, <1>2, <1>3, AppendSteady
<1>9. ~Closed(o, Len(o) + 1, n)
  BY NewIsFresh
<1>10. Seen(o2, o, c)
  BY <1>1, <1>2, <1>3, ViewKept
<1>11. \A i \in Nat : AtEnd(o2, i) <=> AtEnd(o, i) \/ i = n
  BY <1>2, <1>9, <1>10 DEF Seen
<1>12. \A i \in Nat, b \in Kinds : Is(o2, i, b) <=> Is(o, i, b) \/ (i = n /\ b = kind)
  BY <1>2, <1>10 DEF Seen
<1> QED BY <1>3, <1>6, <1>7, <1>8, <1>11, <1>12 DEF c, Opening

\* A chunk that opens nothing leaves the numbering alone.
LEMMA AppendNumbered ==
    ASSUME ClientOK, NEW o, NEW n, Readable(o, n), NEW c \in Chunk, NEW o2 \in Seq(Chunk),
           Extends(o2, o, c), c.k # "open"
    PROVE  Numbered(o2, n)
<1>1. o \in Seq(Chunk) /\ n \in Nat /\ Numbered(o, n) /\ Len(o) \in Nat /\ Len(items) \in Nat
  BY DEF Readable, ClientOK
<1>2. Len(o2) = Len(o) + 1 /\ o2[Len(o) + 1] = c /\ \A k \in 1..Len(o) : o2[k] = o[k]
  BY DEF Extends
<1>3. Len(items) < n /\ (n = Len(items) + 1 \/ \E k \in 1..Len(o2) : Opens(o2, k, n - 1))
  BY <1>1, <1>2 DEF Numbered, Opens
<1>4. ASSUME NEW k \in 1..Len(o2), o2[k].k = "open"
      PROVE  /\ Len(items) < o2[k].i /\ o2[k].i < n
             /\ o2[k].i = Len(items) + 1 \/ \E l \in 1..(k - 1) : Opens(o2, l, o2[k].i - 1)
             /\ \A l \in 1..(k - 1) : o2[l].k = "open" => o2[l].i < o2[k].i
  <2>1. k \in 1..Len(o)
    BY <1>1, <1>2, <1>4
  <2>2. o2[k] = o[k] /\ \A l \in 1..(k - 1) : l \in 1..Len(o) /\ o2[l] = o[l]
    BY <1>1, <1>2, <2>1
  <2> QED BY <1>1, <1>4, <2>1, <2>2 DEF Numbered, Opens
<1> QED BY <1>3, <1>4 DEF Numbered

LEMMA AppendClose ==
    ASSUME ClientOK, NEW o, NEW n, Readable(o, n), NotOver(o), NEW j \in Nat, AtEnd(o, j)
    PROVE  Closing(Append(o, [k |-> "close", i |-> j]), o, n, j)
<1> DEFINE o2 == Append(o, [k |-> "close", i |-> j])
           c == [k |-> "close", i |-> j]
<1>1. o \in Seq(Chunk) /\ n \in Nat /\ Len(o) \in Nat
  BY DEF Readable
<1>2. c \in Chunk /\ c.k = "close" /\ c.i = j
  BY DEF Chunk, CloseChunk
<1>3. o2 \in Seq(Chunk) /\ Extends(o2, o, c)
  BY <1>1, <1>2, AppendExtends
<1> HIDE DEF o2, c
<1>4. Readable(o2, n)
  BY <1>1, <1>2, <1>3, AppendReadable, AppendNumbered
<1>5. NotOver(o2)
  BY <1>1, <1>2, <1>3 DEF NotOver, Extends
<1>6. Steady(o, o2)
  BY <1>1, <1>2, <1>3, AppendSteady
<1>7. Seen(o2, o, c)
  BY <1>1, <1>2, <1>3, ViewKept
<1> QED BY <1>2, <1>4, <1>5, <1>6, <1>7 DEF Seen, o2, Closing

\* Text for an open item.
LEMMA AppendDelta ==
    ASSUME ClientOK, NEW o, NEW n, Readable(o, n), NotOver(o), NEW j \in Nat, AtEnd(o, j),
           NEW text \in Pieces \ {<<>>}
    PROVE  Telling(Append(o, [k |-> "delta", i |-> j, text |-> text]), o, n)
<1> DEFINE o2 == Append(o, [k |-> "delta", i |-> j, text |-> text])
           c == [k |-> "delta", i |-> j, text |-> text]
<1>1. o \in Seq(Chunk) /\ n \in Nat /\ Len(o) \in Nat
  BY DEF Readable
<1>2. c \in Chunk /\ c.k = "delta" /\ c.i = j
  BY DEF Chunk, DeltaChunk
<1>3. o2 \in Seq(Chunk) /\ Extends(o2, o, c)
  BY <1>1, <1>2, AppendExtends
<1> HIDE DEF o2, c
<1>4. Readable(o2, n)
  BY <1>1, <1>2, <1>3, AppendReadable, AppendNumbered
<1>5. NotOver(o2)
  BY <1>1, <1>2, <1>3 DEF NotOver, Extends
<1>6. Steady(o, o2)
  BY <1>1, <1>2, <1>3, AppendSteady
<1>7. Seen(o2, o, c)
  BY <1>1, <1>2, <1>3, ViewKept
<1> QED BY <1>2, <1>4, <1>5, <1>6, <1>7 DEF Seen, o2, Telling

Marking(o2, o, n, c) ==
    /\ Readable(o2, n) /\ Extends(o2, o, c)
    /\ \A i \in Nat : AtEnd(o2, i) <=> AtEnd(o, i)
    /\ \A i \in Nat, b \in Kinds : Is(o2, i, b) <=> Is(o, i, b)

\* The first and the last chunks: a start or an error, and the end once
\* nothing but searches is open.
LEMMA AppendMark ==
    ASSUME ClientOK, NEW o, NEW n, Readable(o, n), NotOver(o), NEW c \in Mark,
           c.k = "end" => \A i \in Nat : AtEnd(o, i) => Is(o, i, "search")
    PROVE  Marking(Append(o, c), o, n, c)
<1>1. o \in Seq(Chunk) /\ n \in Nat /\ Len(o) \in Nat /\ Addressed(o)
  BY DEF Readable
<1>2. c \in Chunk /\ c.k \in {"start", "end", "error"}
  BY DEF Chunk, Mark
<1>3. PICK o2 \in Seq(Chunk) : o2 = Append(o, c) /\ Extends(o2, o, c)
  BY <1>1, <1>2, AppendExtends
<1>4. Numbered(o2, n)
  BY <1>1, <1>2, <1>3, AppendNumbered
<1>5. Seen(o2, o, c)
  BY <1>1, <1>2, <1>3, ViewKept
<1>6. CASE c.k # "end"
  <2>1. Readable(o2, n)
    BY <1>1, <1>2, <1>3, <1>4, <1>6, AppendReadable
  <2> QED BY <1>2, <1>3, <1>5, <2>1 DEF Seen, Marking
<1>7. CASE c.k = "end"
  <2>1. Len(o2) = Len(o) + 1 /\ o2[Len(o) + 1] = c /\ \A l \in 1..Len(o) : o2[l] = o[l]
    BY <1>3 DEF Extends
  <2>2. \A i \in Nat : Live(o2, Len(o2), i) => Is(o2, i, "search")
    BY <1>1, <1>2, <1>5, <1>7, <2>1 DEF AtEnd, Kinds, Seen
  <2>3. Ended(o2)
    <3> SUFFICES ASSUME NEW j \in 1..Len(o2), o2[j].k \in {"end", "error"} PROVE j = Len(o2)
      BY <2>2 DEF Ended
    <3> QED BY <1>1, <2>1 DEF NotOver
  <2>4. \A j \in 1..Len(o) : o[j].k \in {"delta", "close"} => o[j].i \in Nat
    BY <1>1 DEF Chunk, Mark, OpenChunk, DeltaChunk, CloseChunk
  <2>5. Addressed(o2)
    BY <1>1, <1>2, <1>5, <2>1, <2>4 DEF Addressed, Seen
  <2> QED BY <1>1, <1>2, <1>3, <1>4, <1>5, <2>3, <2>5 DEF Readable, Seen, Marking
<1> QED BY <1>6, <1>7

-----------------------------------------------------------------------------
(***************************************************************************)
(* The methods.                                                            *)
(***************************************************************************)
Active(q, searched) == q.st = "running" /\ Good(q, searched)

\* The fields that the client's view depends on.
Same(r, q) ==
    /\ r.format = q.format /\ r.st = q.st /\ r.started = q.started /\ r.next = q.next
    /\ r.cur = q.cur /\ r.search = q.search /\ r.out = q.out

LEMMA SameIsGood ==
    ASSUME NEW searched, NEW q, Active(q, searched), NEW r \in Proj, Same(r, q)
    PROVE  Active(r, searched)
BY DEF Active, Same, Good, Phased, Owned

\* A step of a response that has started.
LEMMA Advance ==
    ASSUME NEW searched, NEW searched2, NEW q, Active(q, searched), q.started,
           NEW r \in Proj, r.st = "running", r.started,
           Steady(q.out, r.out), NotOver(r.out), Readable(r.out, r.next), Owned(r, searched2)
    PROVE  Active(r, searched2)
<1>1. /\ Phased(q) /\ q.st = "running" /\ q.out \in Seq(Chunk) /\ r.out \in Seq(Chunk)
      /\ Len(q.out) \in Nat /\ Len(r.out) \in Nat
  BY DEF Active, Good, Proj
<1>2. phase \notin {"ended", "broken"}
  BY <1>1 DEF Phased
<1>3. phase # "idle" \/ (Len(r.out) > 0 /\ r.out[1].k = "start")
  BY <1>1 DEF Phased, Steady
<1>4. \A j \in 1..Len(r.out) : r.out[j].k = "start" => j = 1 /\ phase = "idle"
  BY <1>1 DEF Phased, Steady
<1>5. Phased(r)
  BY <1>2, <1>3, <1>4 DEF Phased, NotOver
<1>6. r.cur["text"] = NoIndex \/ r.cur["thinking"] = NoIndex
  BY DEF Owned
<1> QED BY <1>5, <1>6 DEF Active, Good

LEMMA ActiveFacts ==
    ASSUME NEW searched, NEW q, Active(q, searched)
    PROVE  /\ q \in Proj /\ q.st = "running" /\ Readable(q.out, q.next) /\ NotOver(q.out)
           /\ Owned(q, searched) /\ q.next \in Nat
BY DEF Active, Good, Phased, NotOver, Proj

LEMMA BufferedGood ==
    ASSUME NEW searched, NEW q, Active(q, searched), NEW kind \in Blocks, NEW text \in Pieces
    PROVE  LET r == Buffered(q, kind, text) IN
           Active(r, searched) /\ Same(r, q)
<1> DEFINE r == Buffered(q, kind, text)
<1>1. q \in Proj
  BY ActiveFacts
<1>2. q.buf \in [Blocks -> Pieces]
  BY <1>1 DEF Proj
<1>3. q.buf[kind] \o text \in Pieces
  BY <1>2 DEF Pieces
<1>4. r = [q EXCEPT !.buf = [q.buf EXCEPT ![kind] = q.buf[kind] \o text]]
  BY <1>1 DEF Buffered, Proj
<1>5. [q.buf EXCEPT ![kind] = q.buf[kind] \o text] \in [Blocks -> Pieces]
  BY <1>2, <1>3
<1>6. r \in Proj /\ Same(r, q)
  BY <1>1, <1>4, <1>5 DEF Proj, Same
<1> QED BY <1>6, SameIsGood

LEMMA StartGood ==
    ASSUME ClientOK, NEW searched, NEW q, Active(q, searched)
    PROVE  LET r == Start(q) IN
           /\ Active(r, searched) /\ r.started
           /\ r.cur = q.cur /\ r.buf = q.buf /\ r.search = q.search /\ r.format = q.format /\ r.calls = q.calls
<1> DEFINE r == Start(q)
<1>1. q \in Proj /\ q.st = "running" /\ Readable(q.out, q.next) /\ NotOver(q.out) /\ Owned(q, searched)
  BY ActiveFacts
<1>2. CASE q.started
  BY <1>2 DEF Start
<1>3. CASE ~q.started
  <2>1. r = [q EXCEPT !.started = TRUE, !.out = Append(q.out, [k |-> "start"])]
    BY <1>1, <1>3 DEF Start, Emit, Proj
  <2>2. /\ r.started /\ r.out = Append(q.out, [k |-> "start"]) /\ r.next = q.next /\ r.cur = q.cur
        /\ r.buf = q.buf /\ r.search = q.search /\ r.format = q.format /\ r.calls = q.calls
        /\ r.st = q.st /\ r.body = q.body /\ r.facts = q.facts
    BY <1>1, <2>1 DEF Proj
  <2>3. /\ Readable(r.out, r.next) /\ Extends(r.out, q.out, [k |-> "start"])
        /\ \A i \in Nat : AtEnd(r.out, i) <=> AtEnd(q.out, i)
        /\ \A i \in Nat, b \in Kinds : Is(r.out, i, b) <=> Is(q.out, i, b)
    <3>1. [k |-> "start"] \in Mark /\ [k |-> "start"].k # "end"
      BY DEF Mark
    <3>2. Marking(r.out, q.out, q.next, [k |-> "start"])
      BY <1>1, <2>2, <3>1, AppendMark
    <3> QED BY <2>2, <3>2 DEF Marking
  <2>4. r \in Proj
    <3>1. r.out \in Seq(Chunk)
      BY <2>3 DEF Readable
    <3> QED BY <1>1, <2>1, <2>2, <3>1 DEF Proj
  <2>5. q.out = <<>> /\ phase = "idle" /\ q.out \in Seq(Chunk)
    <3>1. q.out \in Seq(Chunk) /\ Phased(q)
      BY <1>1 DEF Active, Good, Proj
    <3>2. Len(q.out) = 0
      <4> SUFFICES ASSUME Len(q.out) # 0 PROVE FALSE
        OBVIOUS
      <4>1. 1 \in 1..Len(q.out)
        BY <3>1
      <4> QED BY <1>1, <1>3, <3>1, <4>1 DEF Phased, NotOver
    <3> QED BY <1>1, <1>3, <3>1, <3>2 DEF Phased
  <2>6. Len(r.out) = 1 /\ r.out[1].k = "start"
    BY <2>3, <2>5 DEF Extends
  <2>7. Phased(r)
    BY <1>1, <2>2, <2>5, <2>6 DEF Phased
  <2>8. /\ q.cur \in [Blocks -> Nat] /\ q.search \in [Hosted -> Nat] /\ Blocks \subseteq Kinds
        /\ "search" \in Kinds
    BY <1>1 DEF Proj, Blocks, Kinds
  <2>9. Owned(r, searched)
    <3>1. \A b \in Blocks : q.cur[b] # NoIndex => AtEnd(r.out, q.cur[b]) /\ Is(r.out, q.cur[b], b)
      BY <1>1, <2>3, <2>8 DEF Owned
    <3>2. \A i \in Nat : AtEnd(r.out, i) => (\E b \in Blocks : q.cur[b] = i) \/ Is(r.out, i, "search")
      BY <1>1, <2>3, <2>8 DEF Owned
    <3>3. q.format = "responses" =>
            \A h \in Hosted : q.search[h] # NoIndex =>
               /\ Is(r.out, q.search[h], "search")
               /\ h \notin searched => AtEnd(r.out, q.search[h])
               /\ \A g \in Hosted : q.search[g] = q.search[h] => g = h
      BY <1>1, <2>3, <2>8 DEF Owned
    <3>4. q.cur["text"] = NoIndex \/ q.cur["thinking"] = NoIndex
      BY <1>1 DEF Owned
    <3> QED BY <2>2, <3>1, <3>2, <3>3, <3>4 DEF Owned
  <2> QED BY <1>1, <2>2, <2>3, <2>4, <2>7, <2>9 DEF Active, Good, Owned
<1> QED BY <1>2, <1>3

LEMMA CloseBlockGood ==
    ASSUME ClientOK, NEW searched, NEW q, Active(q, searched), q.started, NEW kind \in Blocks
    PROVE  LET r == CloseBlock(q, kind) IN
           /\ Active(r, searched) /\ r.started /\ r.cur = [q.cur EXCEPT ![kind] = NoIndex]
           /\ r.search = q.search /\ r.format = q.format /\ r.calls = q.calls
<1> DEFINE r == CloseBlock(q, kind)
           j == q.cur[kind]
<1>1. /\ q \in Proj /\ q.st = "running" /\ Readable(q.out, q.next) /\ NotOver(q.out)
      /\ Owned(q, searched)
  BY ActiveFacts
<1>2. /\ q.cur \in [Blocks -> Nat] /\ q.search \in [Hosted -> Nat] /\ Blocks \subseteq Kinds
      /\ "search" \in Kinds /\ j \in Nat /\ NoIndex \in Nat /\ Blocks = {"text", "thinking"}
      /\ q.buf \in [Blocks -> Pieces] /\ q.body \in Seq([i: Nat, kind: Kinds, text: Pieces])
      /\ "search" \notin Blocks
  BY <1>1 DEF Proj, Blocks, Kinds, NoIndex
<1>3. CASE j = NoIndex
  <2>1. [q.cur EXCEPT ![kind] = NoIndex] = q.cur
    BY <1>2, <1>3
  <2> QED BY <1>3, <2>1 DEF CloseBlock
<1>4. CASE j # NoIndex
  <2> DEFINE body == Append(q.body, [i |-> j, kind |-> kind, text |-> q.buf[kind]])
             cur == [q.cur EXCEPT ![kind] = NoIndex]
             buf == [q.buf EXCEPT ![kind] = <<>>]
             out == Append(q.out, [k |-> "close", i |-> j])
  <2>1. r = [q EXCEPT !.body = body, !.cur = cur, !.buf = buf, !.out = out]
    BY <1>1, <1>4 DEF CloseBlock, CloseItem, Store, Emit, Proj
  <2>2. AtEnd(q.out, j)
    BY <1>1, <1>4 DEF Owned
  <2>3. /\ Readable(out, q.next) /\ NotOver(out) /\ Steady(q.out, out)
        /\ \A i \in Nat : AtEnd(out, i) <=> AtEnd(q.out, i) /\ i # j
        /\ \A i \in Nat, b \in Kinds : Is(out, i, b) <=> Is(q.out, i, b)
    <3>1. Closing(out, q.out, q.next, j)
      BY <1>1, <1>2, <2>2, AppendClose
    <3> QED BY <3>1 DEF Closing
  <2>4. cur \in [Blocks -> Nat] /\ buf \in [Blocks -> Pieces] /\ out \in Seq(Chunk)
    BY <1>2, <2>3 DEF Pieces, Readable
  <2>5. body \in Seq([i: Nat, kind: Kinds, text: Pieces])
    BY <1>2
  <2> HIDE DEF body, cur, buf, out, j
  <2>6. r \in Proj
    BY <1>1, <2>1, <2>4, <2>5 DEF Proj
  <2>7. /\ r.out = out /\ r.next = q.next /\ r.cur = cur /\ r.search = q.search
        /\ r.format = q.format /\ r.st = q.st /\ r.started = q.started /\ r.calls = q.calls
    BY <1>1, <2>1 DEF Proj
  <2> HIDE DEF r
  <2>8. cur[kind] = NoIndex /\ \A b \in Blocks : b # kind => cur[b] = q.cur[b]
    BY <1>2 DEF cur
  <2>9. \A h \in Hosted : q.format = "responses" /\ q.search[h] # NoIndex => q.search[h] # j
    <3> SUFFICES ASSUME NEW h \in Hosted, q.format = "responses", q.search[h] # NoIndex,
                        q.search[h] = j
                 PROVE  FALSE
      OBVIOUS
    <3>1. Is(q.out, j, "search") /\ Is(q.out, j, kind)
      BY <1>1, <1>4 DEF Owned, j
    <3> QED BY <1>1, <1>2, <3>1, OneKind
  <2>10. Owned(r, searched)
    <3>1. r.cur["text"] = NoIndex \/ r.cur["thinking"] = NoIndex
      BY <1>1, <1>2, <2>7, <2>8 DEF Owned
    <3>2. ASSUME NEW b \in Blocks, r.cur[b] # NoIndex
          PROVE  AtEnd(r.out, r.cur[b]) /\ Is(r.out, r.cur[b], b)
      <4>1. b # kind /\ r.cur[b] = q.cur[b]
        BY <2>7, <2>8, <3>2
      <4>2. AtEnd(q.out, q.cur[b]) /\ Is(q.out, q.cur[b], b) /\ q.cur[b] \in Nat /\ q.cur[b] # NoIndex
        BY <1>1, <1>2, <3>2, <4>1 DEF Owned
      <4>3. q.cur[kind] = NoIndex
        BY <1>1, <1>2, <4>1, <4>2 DEF Owned
      <4> QED BY <1>4, <4>3 DEF j
    <3>3. ASSUME NEW i \in Nat, AtEnd(r.out, i)
          PROVE  (\E b \in Blocks : r.cur[b] = i) \/ Is(r.out, i, "search")
      <4>1. AtEnd(q.out, i) /\ i # j
        BY <2>3, <2>7, <3>3
      <4>2. (\E b \in Blocks : q.cur[b] = i) \/ Is(q.out, i, "search")
        BY <1>1, <4>1 DEF Owned
      <4> QED BY <1>2, <2>3, <2>7, <2>8, <4>1, <4>2 DEF j
    <3>4. ASSUME r.format = "responses", NEW h \in Hosted, r.search[h] # NoIndex
          PROVE  /\ Is(r.out, r.search[h], "search")
                 /\ h \notin searched => AtEnd(r.out, r.search[h])
                 /\ \A g \in Hosted : r.search[g] = r.search[h] => g = h
      BY <1>1, <1>2, <2>3, <2>7, <2>9, <3>4 DEF Owned
    <3> QED BY <3>1, <3>2, <3>3, <3>4 DEF Owned
  <2>11. Active(r, searched)
    BY <1>1, <2>3, <2>6, <2>7, <2>10, Advance
  <2> QED BY <2>7, <2>11 DEF r, cur
<1> QED BY <1>3, <1>4

\* A block is opened when no other is open.
LEMMA EnsureGood ==
    ASSUME ClientOK, NEW searched, NEW q, Active(q, searched), q.started, NEW kind \in Blocks,
           \A b \in Blocks : b # kind => q.cur[b] = NoIndex
    PROVE  LET r == Ensure(q, kind) IN
           Active(r, searched) /\ r.started /\ r.cur[kind] # NoIndex
<1> DEFINE r == Ensure(q, kind)
           n == q.next
<1>1. /\ q \in Proj /\ q.st = "running" /\ Readable(q.out, n) /\ NotOver(q.out)
      /\ Owned(q, searched) /\ n \in Nat
  BY ActiveFacts
<1>2. /\ q.cur \in [Blocks -> Nat] /\ q.search \in [Hosted -> Nat] /\ Blocks \subseteq Kinds
      /\ "search" \in Kinds /\ NoIndex \in Nat /\ Blocks = {"text", "thinking"}
  BY <1>1 DEF Proj, Blocks, Kinds, NoIndex
<1>3. CASE q.cur[kind] # NoIndex
  BY <1>3 DEF Ensure
<1>4. CASE q.cur[kind] = NoIndex
  <2> DEFINE cur == [q.cur EXCEPT ![kind] = n]
             out == Append(q.out, [k |-> "open", i |-> n, kind |-> kind, text |-> <<>>])
  <2>1. r = [q EXCEPT !.cur = cur, !.next = n + 1, !.out = out]
    BY <1>1, <1>4 DEF Ensure, OpenItem, Emit, Proj
  <2>2. /\ Readable(out, n + 1) /\ NotOver(out) /\ Steady(q.out, out)
        /\ \A i \in Nat : AtEnd(out, i) <=> AtEnd(q.out, i) \/ i = n
        /\ \A i \in Nat, b \in Kinds : Is(out, i, b) <=> Is(q.out, i, b) \/ (i = n /\ b = kind)
    <3>1. <<>> \in Pieces /\ kind \in Kinds
      BY <1>2 DEF Pieces
    <3>2. Opening(out, q.out, n, kind)
      BY <1>1, <3>1, AppendOpen
    <3> QED BY <3>2 DEF Opening
  <2>3. n # NoIndex
    BY <1>1, NewIsFresh
  <2>4. cur \in [Blocks -> Nat] /\ out \in Seq(Chunk) /\ n + 1 \in Nat
    BY <1>1, <1>2, <2>2 DEF Readable
  <2> HIDE DEF cur, out, n
  <2>5. r \in Proj
    BY <1>1, <2>1, <2>4 DEF Proj
  <2>6. /\ r.out = out /\ r.next = n + 1 /\ r.cur = cur /\ r.search = q.search
        /\ r.format = q.format /\ r.st = q.st /\ r.started = q.started
    BY <1>1, <2>1 DEF Proj
  <2> HIDE DEF r
  <2>7. cur[kind] = n /\ \A b \in Blocks : b # kind => cur[b] = NoIndex
    BY <1>2 DEF cur
  <2>8. Owned(r, searched)
    <3>1. r.cur["text"] = NoIndex \/ r.cur["thinking"] = NoIndex
      BY <1>2, <2>6, <2>7
    <3>2. ASSUME NEW b \in Blocks, r.cur[b] # NoIndex
          PROVE  AtEnd(r.out, r.cur[b]) /\ Is(r.out, r.cur[b], b)
      BY <1>1, <1>2, <2>2, <2>6, <2>7, <3>2
    <3>3. ASSUME NEW i \in Nat, AtEnd(r.out, i)
          PROVE  (\E b \in Blocks : r.cur[b] = i) \/ Is(r.out, i, "search")
      <4>1. CASE i = n
        BY <2>6, <2>7, <4>1
      <4>2. CASE i # n
        <5>1. AtEnd(q.out, i)
          BY <2>2, <2>6, <3>3, <4>2
        <5>2. i # NoIndex
          BY <1>1, <5>1, NewIsFresh
        <5>3. (\E b \in Blocks : q.cur[b] = i) \/ Is(q.out, i, "search")
          BY <1>1, <5>1 DEF Owned
        <5>4. Is(q.out, i, "search")
          BY <1>4, <5>2, <5>3
        <5> QED BY <1>2, <2>2, <2>6, <5>4
      <4> QED BY <4>1, <4>2
    <3>4. ASSUME r.format = "responses", NEW h \in Hosted, r.search[h] # NoIndex
          PROVE  /\ Is(r.out, r.search[h], "search")
                 /\ h \notin searched => AtEnd(r.out, r.search[h])
                 /\ \A g \in Hosted : r.search[g] = r.search[h] => g = h
      BY <1>1, <1>2, <2>2, <2>6, <3>4 DEF Owned
    <3> QED BY <3>1, <3>2, <3>3, <3>4 DEF Owned
  <2>9. Active(r, searched)
    BY <1>1, <2>2, <2>5, <2>6, <2>8, Advance
  <2> QED BY <2>3, <2>6, <2>7, <2>9 DEF r
<1> QED BY <1>3, <1>4

LEMMA DeltaGood ==
    ASSUME ClientOK, NEW searched, NEW q, Active(q, searched), q.started, NEW kind \in Blocks,
           q.cur[kind] # NoIndex, NEW text \in Pieces \ {<<>>}
    PROVE  Active(Delta(q, kind, text), searched)
<1> DEFINE r == Delta(q, kind, text)
           j == q.cur[kind]
           out == Append(q.out, [k |-> "delta", i |-> j, text |-> text])
<1>1. /\ q \in Proj /\ q.st = "running" /\ Readable(q.out, q.next) /\ NotOver(q.out)
      /\ Owned(q, searched)
  BY ActiveFacts
<1>2. /\ q.cur \in [Blocks -> Nat] /\ q.search \in [Hosted -> Nat] /\ Blocks \subseteq Kinds
      /\ "search" \in Kinds /\ j \in Nat
  BY <1>1 DEF Proj, Blocks, Kinds
<1>3. r = [q EXCEPT !.out = out]
  BY <1>1 DEF Delta, Emit, Proj
<1>4. AtEnd(q.out, j)
  BY <1>1 DEF Owned
<1>5. /\ Readable(out, q.next) /\ NotOver(out) /\ Steady(q.out, out)
      /\ \A i \in Nat : AtEnd(out, i) <=> AtEnd(q.out, i)
      /\ \A i \in Nat, b \in Kinds : Is(out, i, b) <=> Is(q.out, i, b)
  <2>1. Telling(out, q.out, q.next)
    BY <1>1, <1>2, <1>4, AppendDelta
  <2> QED BY <2>1 DEF Telling
<1>6. out \in Seq(Chunk)
  BY <1>5 DEF Readable
<1> HIDE DEF out, j
<1>7. r \in Proj
  BY <1>1, <1>3, <1>6 DEF Proj
<1>8. /\ r.out = out /\ r.next = q.next /\ r.cur = q.cur /\ r.search = q.search
      /\ r.format = q.format /\ r.st = q.st /\ r.started = q.started
  BY <1>1, <1>3 DEF Proj
<1> HIDE DEF r
<1>9. Owned(r, searched)
  BY <1>1, <1>2, <1>5, <1>8 DEF Owned
<1>10. Active(r, searched)
  BY <1>1, <1>5, <1>7, <1>8, <1>9, Advance
<1> QED BY <1>10 DEF r

LEMMA WholeItemGood ==
    ASSUME ClientOK, NEW searched, NEW q, Active(q, searched), q.started,
           NEW kind \in Kinds, NEW text \in Pieces
    PROVE  LET r == WholeItem(q, kind, text) IN
           /\ Active(r, searched) /\ r.started /\ r.cur = q.cur /\ r.search = q.search
           /\ r.format = q.format /\ r.calls = q.calls
<1> DEFINE r == WholeItem(q, kind, text)
           n == q.next
           body == Append(q.body, [i |-> n, kind |-> kind, text |-> text])
           mid == Append(q.out, [k |-> "open", i |-> n, kind |-> kind, text |-> text])
           out == Append(mid, [k |-> "close", i |-> n])
<1>1. /\ q \in Proj /\ q.st = "running" /\ Readable(q.out, n) /\ NotOver(q.out)
      /\ Owned(q, searched) /\ n \in Nat
  BY ActiveFacts
<1>2. /\ q.cur \in [Blocks -> Nat] /\ q.search \in [Hosted -> Nat] /\ Blocks \subseteq Kinds
      /\ "search" \in Kinds /\ q.body \in Seq([i: Nat, kind: Kinds, text: Pieces])
  BY <1>1 DEF Proj, Blocks, Kinds
<1>3. r = [q EXCEPT !.body = body, !.next = n + 1, !.out = out]
  BY <1>1 DEF WholeItem, CloseItem, OpenItem, Store, Emit, Proj
<1>4. Opening(mid, q.out, n, kind)
  BY <1>1, AppendOpen
<1>5. Closing(out, mid, n + 1, n)
  <2>1. Readable(mid, n + 1) /\ NotOver(mid) /\ AtEnd(mid, n)
    BY <1>1, <1>4 DEF Opening
  <2> HIDE DEF mid
  <2> QED BY <1>1, <2>1, AppendClose
<1>6. body \in Seq([i: Nat, kind: Kinds, text: Pieces])
  BY <1>1, <1>2
<1>7. out \in Seq(Chunk) /\ n + 1 \in Nat /\ q.out \in Seq(Chunk) /\ mid \in Seq(Chunk)
  BY <1>1, <1>4, <1>5 DEF Closing, Opening, Readable
<1> HIDE DEF body, mid, out, n
<1>8. r \in Proj
  BY <1>1, <1>3, <1>6, <1>7 DEF Proj
<1>9. /\ r.out = out /\ r.next = n + 1 /\ r.cur = q.cur /\ r.search = q.search
      /\ r.format = q.format /\ r.st = q.st /\ r.started = q.started /\ r.calls = q.calls
  BY <1>1, <1>3 DEF Proj
<1> HIDE DEF r
<1>10. ~AtEnd(q.out, n)
  BY <1>1, NewIsFresh DEF AtEnd, Live
<1>11. /\ \A i \in Nat : AtEnd(out, i) <=> AtEnd(q.out, i)
       /\ \A i \in Nat, b \in Kinds : Is(q.out, i, b) => Is(out, i, b)
  BY <1>4, <1>5, <1>10 DEF Opening, Closing
<1>12. Steady(q.out, out) /\ NotOver(out) /\ Readable(out, n + 1)
  <2>1. Steady(q.out, mid) /\ Steady(mid, out)
    BY <1>4, <1>5 DEF Opening, Closing
  <2>2. Steady(q.out, out)
    BY <2>1 DEF Steady
  <2> QED BY <1>5, <2>2 DEF Closing
<1>13. Owned(r, searched)
  BY <1>1, <1>2, <1>9, <1>11 DEF Owned
<1>14. Active(r, searched)
  BY <1>1, <1>8, <1>9, <1>12, <1>13, Advance
<1> QED BY <1>9, <1>14 DEF r

\* Outside Responses the index of a search is only a mark that it has started.
LEMMA NotedGood ==
    ASSUME NEW searched, NEW q, Active(q, searched), q.started, q.format # "responses",
           NEW h \in Hosted, NEW n \in Nat
    PROVE  LET r == [q EXCEPT !.search[h] = n] IN
           Active(r, searched) /\ r.started
<1> DEFINE search == [q.search EXCEPT ![h] = n]
           r == [q EXCEPT !.search[h] = n]
<1>1. q \in Proj /\ q.search \in [Hosted -> Nat]
  <2>1. q \in Proj
    BY ActiveFacts
  <2> QED BY <2>1 DEF Proj
<1>2. r = [q EXCEPT !.search = search]
  BY <1>1 DEF Proj
<1>3. search \in [Hosted -> Nat]
  BY <1>1
<1> HIDE DEF search
<1>4. r \in Proj
  BY <1>1, <1>2, <1>3 DEF Proj
<1>5. /\ r.out = q.out /\ r.next = q.next /\ r.cur = q.cur /\ r.started = q.started
      /\ r.format = q.format /\ r.st = q.st
  BY <1>1, <1>2 DEF Proj
<1> HIDE DEF r
<1>6. Active(r, searched)
  <2>1. /\ q.st = "running" /\ Phased(q) /\ Owned(q, searched) /\ Readable(q.out, q.next)
        /\ q.cur["text"] = NoIndex \/ q.cur["thinking"] = NoIndex
    BY DEF Active, Good
  <2>2. Phased(r)
    BY <1>5, <2>1 DEF Phased
  <2>3. Owned(r, searched)
    BY <1>5, <2>1 DEF Owned
  <2> QED BY <1>4, <1>5, <2>1, <2>2, <2>3 DEF Active, Good
<1> QED BY <1>5, <1>6 DEF r

LEMMA SearchOpenGood ==
    ASSUME ClientOK, NEW searched, NEW q, Active(q, searched), q.started, q.format = "responses",
           NEW h \in Hosted, q.search[h] = NoIndex
    PROVE  LET r == OpenItem([q EXCEPT !.search[h] = q.next], "search", <<>>) IN
           Active(r, searched) /\ r.started /\ r.format = q.format /\ r.search[h] # NoIndex
<1> DEFINE n == q.next
           r == OpenItem([q EXCEPT !.search[h] = q.next], "search", <<>>)
           search == [q.search EXCEPT ![h] = n]
           out == Append(q.out, [k |-> "open", i |-> n, kind |-> "search", text |-> <<>>])
<1>1. /\ q \in Proj /\ q.st = "running" /\ Readable(q.out, n) /\ NotOver(q.out)
      /\ Owned(q, searched) /\ n \in Nat
  BY ActiveFacts
<1>2. /\ q.cur \in [Blocks -> Nat] /\ q.search \in [Hosted -> Nat] /\ Blocks \subseteq Kinds
      /\ "search" \in Kinds /\ <<>> \in Pieces
  BY <1>1 DEF Proj, Blocks, Kinds, Pieces
<1>3. r = [q EXCEPT !.search = search, !.next = n + 1, !.out = out]
  BY <1>1 DEF OpenItem, Emit, Proj
<1>4. Opening(out, q.out, n, "search")
  BY <1>1, <1>2, AppendOpen
<1>5. out \in Seq(Chunk) /\ n + 1 \in Nat /\ search \in [Hosted -> Nat]
  BY <1>1, <1>2, <1>4 DEF Opening, Readable
<1>6. search[h] = n /\ \A g \in Hosted : g # h => search[g] = q.search[g]
  BY <1>2
<1> HIDE DEF search, out, n
<1>7. r \in Proj
  BY <1>1, <1>3, <1>5 DEF Proj
<1>8. /\ r.out = out /\ r.next = n + 1 /\ r.cur = q.cur /\ r.search = search
      /\ r.format = q.format /\ r.st = q.st /\ r.started = q.started
  BY <1>1, <1>3 DEF Proj
<1> HIDE DEF r
<1>9. n # NoIndex /\ ~Is(q.out, n, "search")
  BY <1>1, <1>2, NewIsFresh
<1>10. \A g \in Hosted : q.search[g] # n
  BY <1>1, <1>9 DEF Owned
<1>11. Owned(r, searched)
  <2>1. /\ r.cur["text"] = NoIndex \/ r.cur["thinking"] = NoIndex
        /\ \A b \in Blocks : r.cur[b] # NoIndex => AtEnd(r.out, r.cur[b]) /\ Is(r.out, r.cur[b], b)
    BY <1>1, <1>2, <1>4, <1>8 DEF Owned, Opening
  <2>2. ASSUME NEW i \in Nat, AtEnd(r.out, i)
        PROVE  (\E b \in Blocks : r.cur[b] = i) \/ Is(r.out, i, "search")
    BY <1>1, <1>2, <1>4, <1>8, <2>2 DEF Owned, Opening
  <2>3. ASSUME NEW f \in Hosted, r.search[f] # NoIndex
        PROVE  /\ Is(r.out, r.search[f], "search")
               /\ f \notin searched => AtEnd(r.out, r.search[f])
               /\ \A g \in Hosted : r.search[g] = r.search[f] => g = f
    <3>1. CASE f = h
      BY <1>1, <1>2, <1>4, <1>6, <1>8, <1>10, <3>1 DEF Opening
    <3>2. CASE f # h
      <4>1. r.search[f] = q.search[f] /\ q.search[f] \in Nat
        BY <1>2, <1>6, <1>8, <3>2
      <4>2. /\ Is(q.out, q.search[f], "search")
            /\ f \notin searched => AtEnd(q.out, q.search[f])
            /\ \A g \in Hosted : q.search[g] = q.search[f] => g = f
        BY <1>1, <2>3, <4>1 DEF Owned
      <4>3. \A g \in Hosted : search[g] = q.search[f] => g = f
        BY <1>6, <1>10, <4>2
      <4> QED BY <1>2, <1>4, <1>8, <4>1, <4>2, <4>3 DEF Opening
    <3> QED BY <3>1, <3>2
  <2> QED BY <2>1, <2>2, <2>3 DEF Owned
<1>12. Active(r, searched)
  BY <1>1, <1>4, <1>7, <1>8, <1>11, Advance DEF Opening
<1> QED BY <1>6, <1>8, <1>9, <1>12 DEF r

LEMMA SearchCloseGood ==
    ASSUME ClientOK, NEW searched, NEW q, Active(q, searched), q.started, q.format = "responses",
           NEW h \in Hosted, q.search[h] # NoIndex, h \notin searched
    PROVE  Active(CloseItem(Store(q, q.search[h], "search", <<>>), q.search[h]), searched \cup {h})
<1> DEFINE j == q.search[h]
           r == CloseItem(Store(q, q.search[h], "search", <<>>), q.search[h])
           body == Append(q.body, [i |-> j, kind |-> "search", text |-> <<>>])
           out == Append(q.out, [k |-> "close", i |-> j])
<1>1. /\ q \in Proj /\ q.st = "running" /\ Readable(q.out, q.next) /\ NotOver(q.out)
      /\ Owned(q, searched)
  BY ActiveFacts
<1>2. /\ q.cur \in [Blocks -> Nat] /\ q.search \in [Hosted -> Nat] /\ Blocks \subseteq Kinds
      /\ "search" \in Kinds /\ "search" \notin Blocks /\ <<>> \in Pieces /\ j \in Nat
      /\ q.body \in Seq([i: Nat, kind: Kinds, text: Pieces])
  BY <1>1 DEF Proj, Blocks, Kinds, Pieces
<1>3. r = [q EXCEPT !.body = body, !.out = out]
  BY <1>1 DEF CloseItem, Store, Emit, Proj
<1>4. AtEnd(q.out, j) /\ Is(q.out, j, "search")
  BY <1>1 DEF Owned
<1>5. Closing(out, q.out, q.next, j)
  BY <1>1, <1>2, <1>4, AppendClose
<1>6. out \in Seq(Chunk) /\ body \in Seq([i: Nat, kind: Kinds, text: Pieces])
  BY <1>2, <1>5 DEF Closing, Readable
<1> HIDE DEF body, out, j
<1>7. r \in Proj
  BY <1>1, <1>3, <1>6 DEF Proj
<1>8. /\ r.out = out /\ r.next = q.next /\ r.cur = q.cur /\ r.search = q.search
      /\ r.format = q.format /\ r.st = q.st /\ r.started = q.started
  BY <1>1, <1>3 DEF Proj
<1> HIDE DEF r
<1>9. ASSUME NEW b \in Blocks, q.cur[b] # NoIndex PROVE q.cur[b] # j
  <2>1. Is(q.out, q.cur[b], b) /\ b # "search"
    BY <1>1, <1>2, <1>9 DEF Owned
  <2> QED BY <1>1, <1>2, <1>4, <2>1, OneKind
<1>10. Owned(r, searched \cup {h})
  <2>1. /\ r.cur["text"] = NoIndex \/ r.cur["thinking"] = NoIndex
        /\ \A b \in Blocks : r.cur[b] # NoIndex => AtEnd(r.out, r.cur[b]) /\ Is(r.out, r.cur[b], b)
    BY <1>1, <1>2, <1>5, <1>8, <1>9 DEF Owned, Closing
  <2>2. ASSUME NEW i \in Nat, AtEnd(r.out, i)
        PROVE  (\E b \in Blocks : r.cur[b] = i) \/ Is(r.out, i, "search")
    BY <1>1, <1>2, <1>5, <1>8, <2>2 DEF Owned, Closing
  <2>3. ASSUME NEW f \in Hosted, r.search[f] # NoIndex
        PROVE  /\ Is(r.out, r.search[f], "search")
               /\ f \notin searched \cup {h} => AtEnd(r.out, r.search[f])
               /\ \A g \in Hosted : r.search[g] = r.search[f] => g = f
    <3>1. /\ Is(q.out, q.search[f], "search") /\ q.search[f] \in Nat
          /\ f \notin searched => AtEnd(q.out, q.search[f])
          /\ \A g \in Hosted : q.search[g] = q.search[f] => g = f
      BY <1>1, <1>2, <1>8, <2>3 DEF Owned
    <3>2. f # h => q.search[f] # j
      BY <3>1 DEF j
    <3> QED BY <1>2, <1>5, <1>8, <3>1, <3>2 DEF Closing
  <2> QED BY <2>1, <2>2, <2>3 DEF Owned
<1>11. Active(r, searched \cup {h})
  BY <1>1, <1>5, <1>7, <1>8, <1>10, Advance DEF Closing
<1> QED BY <1>11 DEF r

LEMMA FinishGood ==
    ASSUME ClientOK, NEW searched, NEW q, Active(q, searched), q.started,
           \A b \in Blocks : q.cur[b] = NoIndex, NEW st \in {"done", "parked"}
    PROVE  Good(Finish(q, st), searched)
<1> DEFINE r == Finish(q, st)
           out == Append(q.out, [k |-> "end"])
<1>1. /\ q \in Proj /\ q.st = "running" /\ Readable(q.out, q.next) /\ NotOver(q.out)
      /\ Owned(q, searched) /\ Phased(q) /\ Blocks = {"text", "thinking"} /\ NoIndex \in Nat
  BY ActiveFacts DEF Active, Good, Blocks, NoIndex
<1>2. r = [q EXCEPT !.st = st, !.out = out]
  BY <1>1 DEF Finish, Emit, Proj
<1>3. \A i \in Nat : AtEnd(q.out, i) => Is(q.out, i, "search")
  <2>1. ~AtEnd(q.out, NoIndex)
    BY <1>1, NewIsFresh
  <2> QED BY <1>1, <2>1 DEF Owned
<1>4. Readable(out, q.next) /\ Extends(out, q.out, [k |-> "end"])
  <2>1. [k |-> "end"] \in Mark
    BY DEF Mark
  <2>2. Marking(out, q.out, q.next, [k |-> "end"])
    BY <1>1, <1>3, <2>1, AppendMark
  <2> QED BY <2>2 DEF Marking
<1>5. out \in Seq(Chunk) /\ q.out \in Seq(Chunk) /\ [k |-> "end"] \in Chunk
  BY <1>1, <1>4 DEF Readable, Chunk, Mark
<1>6. Steady(q.out, out)
  BY <1>4, <1>5, AppendSteady
<1> HIDE DEF out
<1>7. r \in Proj
  BY <1>1, <1>2, <1>5 DEF Proj
<1>8. /\ r.out = out /\ r.next = q.next /\ r.cur = q.cur /\ r.started = q.started /\ r.st = st
  BY <1>1, <1>2 DEF Proj
<1> HIDE DEF r
<1>9. Phased(r)
  <2>1. phase \notin {"ended", "broken"}
    BY <1>1 DEF Phased
  <2>2. phase # "idle" \/ (Len(r.out) > 0 /\ r.out[1].k = "start")
    BY <1>1, <1>5, <1>6, <1>8 DEF Phased, Steady
  <2>3. \A j \in 1..Len(r.out) : r.out[j].k = "start" => j = 1 /\ phase = "idle"
    BY <1>1, <1>5, <1>6, <1>8 DEF Phased, Steady
  <2> QED BY <1>8, <2>1, <2>2, <2>3 DEF Phased
<1>10. Good(r, searched)
  BY <1>1, <1>4, <1>7, <1>8, <1>9 DEF Good
<1> QED BY <1>10 DEF r

LEMMA RejectGood ==
    ASSUME ClientOK, NEW searched, NEW searched2, NEW q, Active(q, searched)
    PROVE  Good(Reject(q), searched2)
<1> DEFINE r == Reject(q)
           out == Append(q.out, [k |-> "error"])
<1>1. /\ q \in Proj /\ q.st = "running" /\ Readable(q.out, q.next) /\ NotOver(q.out) /\ Phased(q)
      /\ q.cur["text"] = NoIndex \/ q.cur["thinking"] = NoIndex
  BY ActiveFacts DEF Active, Good
<1>2. r = [q EXCEPT !.st = "failed", !.out = out]
  BY <1>1 DEF Reject, Emit, Proj
<1>3. Readable(out, q.next) /\ Extends(out, q.out, [k |-> "error"])
  <2>1. [k |-> "error"] \in Mark /\ [k |-> "error"].k # "end"
    BY DEF Mark
  <2>2. Marking(out, q.out, q.next, [k |-> "error"])
    BY <1>1, <2>1, AppendMark
  <2> QED BY <2>2 DEF Marking
<1>4. out \in Seq(Chunk) /\ q.out \in Seq(Chunk) /\ [k |-> "error"] \in Chunk
  BY <1>1, <1>3 DEF Readable, Chunk, Mark
<1>5. Steady(q.out, out)
  BY <1>3, <1>4, AppendSteady
<1>6. /\ Len(q.out) \in Nat /\ Len(out) = Len(q.out) + 1 /\ out[Len(q.out) + 1].k = "error"
      /\ \A k \in 1..Len(q.out) : out[k] = q.out[k]
  BY <1>3, <1>4 DEF Extends
<1> HIDE DEF out
<1>7. r \in Proj
  BY <1>1, <1>2, <1>4 DEF Proj
<1>8. /\ r.out = out /\ r.next = q.next /\ r.cur = q.cur /\ r.search = q.search
      /\ r.started = q.started /\ r.st = "failed"
  BY <1>1, <1>2 DEF Proj
<1> HIDE DEF r
<1>9. Phased(r)
  <2>1. phase \notin {"ended", "broken"}
    BY <1>1 DEF Phased
  <2>2. r.started => phase # "idle" \/ (Len(r.out) > 0 /\ r.out[1].k = "start")
    BY <1>1, <1>4, <1>5, <1>8 DEF Phased, Steady
  <2>3. \A j \in 1..Len(r.out) : r.out[j].k = "start" => j = 1 /\ phase = "idle"
    BY <1>1, <1>4, <1>5, <1>8 DEF Phased, Steady
  <2>4. ~r.started => /\ phase \in {"idle", "broken"}
                      /\ \A j \in 1..Len(r.out) : r.out[j].k = "error"
                      /\ \A b \in Blocks : r.cur[b] = NoIndex
                      /\ \A h \in Hosted : r.search[h] = NoIndex
    BY <1>1, <1>6, <1>8 DEF Phased
  <2> QED BY <1>8, <2>1, <2>2, <2>3, <2>4 DEF Phased
<1>10. Good(r, searched2)
  BY <1>1, <1>3, <1>7, <1>8, <1>9 DEF Good
<1> QED BY <1>10 DEF r

\* closeThinking and closeText.
LEMMA CloseBothGood ==
    ASSUME ClientOK, NEW searched, NEW q, Active(q, searched), q.started
    PROVE  LET r == CloseBoth(q) IN
           /\ Active(r, searched) /\ r.started /\ \A b \in Blocks : r.cur[b] = NoIndex
           /\ r.search = q.search /\ r.format = q.format /\ r.calls = q.calls
<1> DEFINE a == CloseBlock(q, "thinking")
           r == CloseBlock(a, "text")
<1>1. "thinking" \in Blocks /\ "text" \in Blocks /\ Blocks = {"text", "thinking"}
  BY DEF Blocks
<1>2. /\ Active(a, searched) /\ a.started /\ a.cur = [q.cur EXCEPT !["thinking"] = NoIndex]
      /\ a.search = q.search /\ a.format = q.format /\ a.calls = q.calls
  BY <1>1, CloseBlockGood
<1> HIDE DEF a
<1>3. /\ Active(r, searched) /\ r.started /\ r.cur = [a.cur EXCEPT !["text"] = NoIndex]
      /\ r.search = a.search /\ r.format = a.format /\ r.calls = a.calls
  BY <1>1, <1>2, CloseBlockGood
<1>4. q.cur \in [Blocks -> Nat]
  <2>1. q \in Proj
    BY ActiveFacts
  <2> QED BY <2>1 DEF Proj
<1> HIDE DEF r
<1>5. \A b \in Blocks : r.cur[b] = NoIndex
  BY <1>1, <1>2, <1>3, <1>4
<1>6. r = CloseBoth(q)
  BY DEF r, a, CloseBoth
<1> QED BY <1>2, <1>3, <1>5, <1>6

\* The loop of toolHandoff, as the function it computes: f[n] is the
\* projection after n of the calls.
Written(f, q, calls, m) ==
    f = [n \in 0..m |-> IF n = 0 THEN q ELSE WholeItem(f[n - 1], "call", <<calls[n].c>>)]

LEMMA WrittenExists ==
    ASSUME NEW q, NEW calls, NEW m \in Nat
    PROVE  \E f : Written(f, q, calls, m)
<1> DEFINE Bad == {k \in Nat : ~\E f : Written(f, q, calls, k)}
<1> SUFFICES ASSUME Bad # {} PROVE FALSE
  OBVIOUS
<1>1. PICK k \in Bad : \A l \in Bad : k <= l
  <2>1. Bad \in SUBSET Nat
    OBVIOUS
  <2> HIDE DEF Bad
  <2> QED BY <2>1, LeastExists
<1>2. k # 0
  <2> SUFFICES ASSUME k = 0 PROVE FALSE
    OBVIOUS
  <2>1. Written([n \in 0..0 |-> q], q, calls, 0)
    BY DEF Written
  <2> QED BY <1>1, <2>1
<1>3. k - 1 \in Nat /\ k - 1 \notin Bad
  <2>1. k \in Nat
    OBVIOUS
  <2> HIDE DEF Bad
  <2> QED BY <1>1, <1>2, <2>1
<1>4. PICK f : Written(f, q, calls, k - 1)
  BY <1>3
<1> DEFINE g == [n \in 0..k |-> IF n = 0 THEN q ELSE WholeItem(f[n - 1], "call", <<calls[n].c>>)]
<1>5. \A n \in 0..(k - 1) : n \in 0..k /\ g[n] = f[n]
  <2> SUFFICES ASSUME NEW n \in 0..(k - 1) PROVE n \in 0..k /\ g[n] = f[n]
    OBVIOUS
  <2>1. n \in 0..k
    BY <1>3
  <2>2. f[n] = IF n = 0 THEN q ELSE WholeItem(f[n - 1], "call", <<calls[n].c>>)
    BY <1>4 DEF Written
  <2> QED BY <2>1, <2>2
<1>6. ASSUME NEW n \in 0..k
      PROVE  g[n] = IF n = 0 THEN q ELSE WholeItem(g[n - 1], "call", <<calls[n].c>>)
  <2>1. CASE n = 0
    BY <2>1
  <2>2. CASE n # 0
    <3>1. n - 1 \in 0..(k - 1)
      BY <1>3, <2>2
    <3>2. g[n - 1] = f[n - 1]
      <4> HIDE DEF g
      <4> QED BY <1>5, <3>1
    <3>3. g[n] = WholeItem(f[n - 1], "call", <<calls[n].c>>)
      BY <2>2
    <3> HIDE DEF g
    <3> QED BY <2>2, <3>2, <3>3
  <2> QED BY <2>1, <2>2
<1>7. g = [n \in 0..k |-> g[n]]
  OBVIOUS
<1>8. Written(g, q, calls, k)
  <2> HIDE DEF g
  <2> QED BY <1>6, <1>7 DEF Written
<1> QED BY <1>1, <1>8

LEMMA HandOverGood ==
    ASSUME ClientOK, NEW searched, NEW q, Active(q, searched), q.started,
           \A b \in Blocks : q.cur[b] = NoIndex, NEW calls \in Seq(CallEvent)
    PROVE  LET r == HandOver(q, calls) IN
           Active(r, searched) /\ r.started /\ \A b \in Blocks : r.cur[b] = NoIndex
<1> DEFINE f == CHOOSE g : Written(g, q, calls, Len(calls))
           Sound(n) == Active(f[n], searched) /\ f[n].started /\ f[n].cur = q.cur
           Bad == {n \in 0..Len(calls) : ~Sound(n)}
<1>1. Len(calls) \in Nat
  OBVIOUS
<1>2. HandOver(q, calls) = f[Len(calls)]
  BY DEF HandOver, Written
<1>3. Written(f, q, calls, Len(calls))
  BY <1>1, WrittenExists
<1>4. \A n \in 0..Len(calls) : f[n] = IF n = 0 THEN q ELSE WholeItem(f[n - 1], "call", <<calls[n].c>>)
  <2> HIDE DEF f
  <2> QED BY <1>3 DEF Written
<1> HIDE DEF f
<1>5. Bad = {}
  <2> SUFFICES ASSUME Bad # {} PROVE FALSE
    OBVIOUS
  <2>1. PICK k \in Bad : \A l \in Bad : k <= l
    <3>1. Bad \in SUBSET Nat
      BY <1>1
    <3> HIDE DEF Bad
    <3> QED BY <3>1, LeastExists
  <2>2. k \in 0..Len(calls) /\ ~Sound(k)
    BY <2>1
  <2>3. k # 0
    <3> SUFFICES ASSUME k = 0 PROVE FALSE
      OBVIOUS
    <3>1. f[k] = q
      BY <1>4, <2>2
    <3> QED BY <2>2, <3>1
  <2>4. k - 1 \in 0..Len(calls) /\ k \in 1..Len(calls)
    BY <1>1, <2>2, <2>3
  <2>5. Sound(k - 1)
    <3> SUFFICES ASSUME k - 1 \in Bad PROVE FALSE
      BY <2>4
    <3> HIDE DEF Bad
    <3> QED BY <2>1, <2>2, <1>1
  <2>6. <<calls[k].c>> \in Pieces /\ "call" \in Kinds
    <3>1. calls[k] \in CallEvent
      BY <2>4
    <3> QED BY <3>1 DEF CallEvent, Pieces, Kinds
  <2>7. f[k] = WholeItem(f[k - 1], "call", <<calls[k].c>>)
    BY <1>4, <2>2, <2>3
  <2>8. Sound(k)
    BY <2>5, <2>6, <2>7, WholeItemGood
  <2> QED BY <2>2, <2>8
<1>6. Sound(Len(calls))
  <2>1. Len(calls) \in 0..Len(calls)
    BY <1>1
  <2> QED BY <1>5, <2>1
<1> QED BY <1>2, <1>6

-----------------------------------------------------------------------------
(***************************************************************************)
(* The events.                                                             *)
(***************************************************************************)
Texts == Pieces \ {<<>>}
TextEvent == [t: {"text"}, text: Texts]
ThinkingEvent == [t: {"thinking"}, text: Texts, progress: Nat]
CompletedEvent == [t: {"thinkingCompleted"}, signed: BOOLEAN]
SearchEvent == [t: {"searchStarted", "searchCompleted"}, h: Hosted]
UsageEvent == [t: {"usage", "observation"}, tokens: Nat]
LastEvent == [t: {"turnEnded", "done"}]
Event == TextEvent \cup ThinkingEvent \cup CompletedEvent \cup SearchEvent \cup CallEvent
           \cup UsageEvent \cup LastEvent

\* The hosted calls completed by an event.
Searched(searched, e) == IF e.t = "searchCompleted" THEN searched \cup {e.h} ELSE searched

LEMMA OnTextGood ==
    ASSUME ClientOK, NEW searched, NEW q, Active(q, searched), NEW e \in TextEvent
    PROVE  Active(OnText(q, e), searched)
<1> DEFINE a == Buffered(q, "text", e.text)
           b == Start(a)
           c == CloseBlock(b, "thinking")
           d == Ensure(c, "text")
<1>1. e.text \in Texts /\ Texts = Pieces \ {<<>>} /\ "text" \in Blocks /\ "thinking" \in Blocks
      /\ Blocks = {"text", "thinking"}
  BY DEF TextEvent, Texts, Blocks
<1>2. Active(a, searched)
  BY <1>1, BufferedGood
<1> HIDE DEF a
<1>3. Active(b, searched) /\ b.started
  BY <1>2, StartGood
<1> HIDE DEF b
<1>4. Active(c, searched) /\ c.started /\ c.cur = [b.cur EXCEPT !["thinking"] = NoIndex]
  BY <1>1, <1>3, CloseBlockGood
<1>5. c.cur["thinking"] = NoIndex
  <2>1. b \in Proj
    BY <1>3, ActiveFacts
  <2>2. b.cur \in [Blocks -> Nat]
    BY <2>1 DEF Proj
  <2> HIDE DEF c
  <2> QED BY <1>1, <1>4, <2>2
<1> HIDE DEF c
<1>6. Active(d, searched) /\ d.started /\ d.cur["text"] # NoIndex
  BY <1>1, <1>4, <1>5, EnsureGood
<1> HIDE DEF d
<1>7. Active(Delta(d, "text", e.text), searched)
  BY <1>1, <1>6, DeltaGood
<1> QED BY <1>7 DEF OnText, a, b, c, d

LEMMA OnThinkingGood ==
    ASSUME ClientOK, NEW searched, NEW q, Active(q, searched), NEW e \in ThinkingEvent
    PROVE  Active(OnThinking(q, e), searched)
<1> DEFINE a == Buffered(q, "thinking", e.text)
           b == Start(a)
           c == CloseBlock(b, "text")
           d == Ensure(c, "thinking")
<1>1. e.text \in Texts /\ Texts = Pieces \ {<<>>} /\ "text" \in Blocks /\ "thinking" \in Blocks
      /\ Blocks = {"text", "thinking"}
  BY DEF ThinkingEvent, Texts, Blocks
<1>2. Active(a, searched)
  BY <1>1, BufferedGood
<1> HIDE DEF a
<1>3. Active(b, searched) /\ b.started
  BY <1>2, StartGood
<1> HIDE DEF b
<1>4. Active(c, searched) /\ c.started /\ c.cur = [b.cur EXCEPT !["text"] = NoIndex]
  BY <1>1, <1>3, CloseBlockGood
<1>5. c.cur["text"] = NoIndex
  <2>1. b \in Proj
    BY <1>3, ActiveFacts
  <2>2. b.cur \in [Blocks -> Nat]
    BY <2>1 DEF Proj
  <2> HIDE DEF c
  <2> QED BY <1>1, <1>4, <2>2
<1> HIDE DEF c
<1>6. Active(d, searched) /\ d.started /\ d.cur["thinking"] # NoIndex
  BY <1>1, <1>4, <1>5, EnsureGood
<1> HIDE DEF d
<1>7. Active(Delta(d, "thinking", e.text), searched)
  BY <1>1, <1>6, DeltaGood
<1>8. CASE q.format = "claude"
  BY <1>2, <1>8 DEF OnThinking, a
<1>9. CASE q.format # "claude"
  BY <1>7, <1>9 DEF OnThinking, a, b, c, d
<1> QED BY <1>8, <1>9

\* Outside Claude a thinking block is open only once the response started.
LEMMA OnThinkingCompletedGood ==
    ASSUME ClientOK, NEW searched, NEW q, Active(q, searched), NEW e \in CompletedEvent
    PROVE  Active(OnThinkingCompleted(q, e), searched)
<1> DEFINE rest == [q EXCEPT !.buf["thinking"] = <<>>]
           a == Start(rest)
           b == CloseBlock(a, "text")
<1>1. "text" \in Blocks /\ "thinking" \in Blocks /\ "thinking" \in Kinds
  BY DEF Blocks, Kinds
<1>2. q \in Proj /\ q.buf \in [Blocks -> Pieces]
  <2>1. q \in Proj
    BY ActiveFacts
  <2> QED BY <2>1 DEF Proj
<1>3. Active(rest, searched)
  <2> DEFINE buf == [q.buf EXCEPT !["thinking"] = <<>>]
  <2>1. rest = [q EXCEPT !.buf = buf]
    BY <1>2 DEF Proj
  <2>2. buf \in [Blocks -> Pieces]
    <3>1. <<>> \in Pieces
      BY DEF Pieces
    <3> QED BY <1>1, <1>2, <3>1
  <2> HIDE DEF buf
  <2>3. rest \in Proj /\ Same(rest, q)
    BY <1>2, <2>1, <2>2 DEF Proj, Same
  <2> HIDE DEF rest
  <2> QED BY <2>3, SameIsGood
<1> HIDE DEF rest
<1>4. Active(a, searched) /\ a.started
  BY <1>3, StartGood
<1> HIDE DEF a
<1>5. Active(b, searched) /\ b.started
  BY <1>1, <1>4, CloseBlockGood
<1> HIDE DEF b
<1>6. Active(WholeItem(b, "thinking", q.buf["thinking"]), searched)
  BY <1>1, <1>2, <1>5, WholeItemGood
<1>7. CASE q.format # "claude"
  <2>1. CASE q.started
    BY <1>1, <1>7, <2>1, CloseBlockGood DEF OnThinkingCompleted
  <2>2. CASE ~q.started
    <3>1. q.cur["thinking"] = NoIndex
      BY <1>1, <2>2 DEF Active, Good, Phased
    <3> QED BY <1>7, <3>1 DEF OnThinkingCompleted, CloseBlock
  <2> QED BY <2>1, <2>2
<1>8. CASE q.format = "claude" /\ (~e.signed \/ q.buf["thinking"] = <<>>)
  BY <1>3, <1>8 DEF OnThinkingCompleted, rest
<1>9. CASE q.format = "claude" /\ ~(~e.signed \/ q.buf["thinking"] = <<>>)
  BY <1>6, <1>9 DEF OnThinkingCompleted, rest, a, b
<1> QED BY <1>7, <1>8, <1>9

LEMMA OnSearchStartedGood ==
    ASSUME ClientOK, NEW searched, NEW q, Active(q, searched), NEW e \in SearchEvent
    PROVE  LET r == OnSearchStarted(q, e) IN
           /\ Active(r, searched) /\ r.started /\ r.format = q.format
           /\ q.format = "responses" => r.search[e.h] # NoIndex
<1> DEFINE a == Start(q)
           b == CloseBoth(a)
           r == [b EXCEPT !.search[e.h] = b.next]
<1>1. e.h \in Hosted /\ "search" \in Kinds /\ <<>> \in Pieces
  BY DEF SearchEvent, Kinds, Pieces
<1>2. CASE q.search[e.h] # NoIndex
  <2>1. q.started
    <3>1. Phased(q)
      BY DEF Active, Good
    <3> QED BY <1>1, <1>2, <3>1 DEF Phased
  <2> QED BY <1>2, <2>1 DEF OnSearchStarted
<1>3. CASE q.search[e.h] = NoIndex
  <2>1. Active(a, searched) /\ a.started /\ a.search = q.search /\ a.format = q.format
    BY StartGood
  <2> HIDE DEF a
  <2>2. Active(b, searched) /\ b.started /\ b.search = q.search /\ b.format = q.format
    BY <2>1, CloseBothGood
  <2> HIDE DEF b
  <2>3. b.next \in Nat /\ b \in Proj
    BY <2>2, ActiveFacts
  <2>4. CASE q.format = "responses"
    <3> DEFINE s == OpenItem(r, "search", <<>>)
    <3>1. Active(s, searched) /\ s.started /\ s.format = b.format /\ s.search[e.h] # NoIndex
      BY <1>1, <1>3, <2>2, <2>4, SearchOpenGood
    <3>2. s = OnSearchStarted(q, e)
      BY <1>3, <2>4 DEF OnSearchStarted, a, b
    <3> HIDE DEF s
    <3> QED BY <2>2, <3>1, <3>2
  <2>5. CASE q.format # "responses"
    <3> DEFINE s == WholeItem(r, "search", <<>>)
    <3>1. Active(r, searched) /\ r.started
      BY <1>1, <2>2, <2>3, <2>5, NotedGood
    <3>2. r.format = b.format
      BY <2>3 DEF Proj
    <3>3. s = OnSearchStarted(q, e)
      BY <1>3, <2>5 DEF OnSearchStarted, a, b
    <3> HIDE DEF r
    <3>4. Active(s, searched) /\ s.started /\ s.format = r.format
      BY <1>1, <3>1, WholeItemGood
    <3> HIDE DEF s
    <3> QED BY <2>2, <2>5, <3>2, <3>3, <3>4
  <2> QED BY <2>4, <2>5
<1> QED BY <1>2, <1>3

LEMMA MoreSearched ==
    ASSUME NEW searched, NEW h, NEW q, Active(q, searched)
    PROVE  Active(q, searched \cup {h})
<1>1. Owned(q, searched) /\ q.st = "running" /\ Good(q, searched)
  BY DEF Active, Good
<1>2. Owned(q, searched \cup {h})
  BY <1>1 DEF Owned
<1> QED BY <1>1, <1>2 DEF Active, Good

LEMMA OnSearchCompletedGood ==
    ASSUME ClientOK, NEW searched, NEW q, Active(q, searched), NEW e \in SearchEvent, e.h \notin searched
    PROVE  Active(OnSearchCompleted(q, e), searched \cup {e.h})
<1> DEFINE r == OnSearchStarted(q, e)
<1>1. e.h \in Hosted /\ "result" \in Kinds /\ <<>> \in Pieces
  BY DEF SearchEvent, Kinds, Pieces
<1>2. /\ Active(r, searched) /\ r.started /\ r.format = q.format
      /\ q.format = "responses" => r.search[e.h] # NoIndex
  BY OnSearchStartedGood
<1> HIDE DEF r
<1>3. CASE q.format = "responses"
  <2>1. Active(CloseItem(Store(r, r.search[e.h], "search", <<>>), r.search[e.h]), searched \cup {e.h})
    BY <1>1, <1>2, <1>3, SearchCloseGood
  <2> QED BY <1>3, <2>1 DEF OnSearchCompleted, r
<1>4. CASE q.format # "responses"
  <2>1. Active(WholeItem(r, "result", <<>>), searched)
    BY <1>1, <1>2, WholeItemGood
  <2>2. Active(OnSearchCompleted(q, e), searched)
    BY <1>4, <2>1 DEF OnSearchCompleted, r
  <2> QED BY <2>2, MoreSearched
<1> QED BY <1>3, <1>4

LEMMA OnToolCallGood ==
    ASSUME NEW searched, NEW q, Active(q, searched), NEW e \in CallEvent
    PROVE  Active(OnToolCall(q, e), searched)
<1> DEFINE calls == Append(q.calls, e)
           r == OnToolCall(q, e)
<1>1. q \in Proj
  BY ActiveFacts
<1>2. q.calls \in Seq(CallEvent)
  BY <1>1 DEF Proj
<1>3. r = [q EXCEPT !.calls = calls]
  BY <1>1 DEF OnToolCall, Proj
<1>4. calls \in Seq(CallEvent)
  BY <1>2
<1> HIDE DEF calls
<1>5. r \in Proj /\ Same(r, q)
  BY <1>1, <1>3, <1>4 DEF Proj, Same
<1> HIDE DEF r
<1>6. Active(r, searched)
  BY <1>5, SameIsGood
<1> QED BY <1>6 DEF r

LEMMA HandoffGood ==
    ASSUME ClientOK, NEW searched, NEW q, Active(q, searched), NEW st \in {"done", "parked"}
    PROVE  Good(Handoff(q, st), searched)
<1> DEFINE a == Start(q)
           b == CloseBoth(a)
           c == HandOver(b, q.calls)
<1>1. Active(a, searched) /\ a.started
  BY StartGood
<1> HIDE DEF a
<1>2. Active(b, searched) /\ b.started /\ \A i \in Blocks : b.cur[i] = NoIndex
  BY <1>1, CloseBothGood
<1> HIDE DEF b
<1>3. q.calls \in Seq(CallEvent)
  <2>1. q \in Proj
    BY ActiveFacts
  <2> QED BY <2>1 DEF Proj
<1>4. Active(c, searched) /\ c.started /\ \A i \in Blocks : c.cur[i] = NoIndex
  BY <1>2, <1>3, HandOverGood
<1> HIDE DEF c
<1>5. Good(Finish(c, st), searched)
  BY <1>4, FinishGood
<1>6. Good(Reject(q), searched)
  BY RejectGood
<1> QED BY <1>5, <1>6 DEF Handoff, a, b, c

LEMMA OnDoneGood ==
    ASSUME ClientOK, NEW searched, NEW q, Active(q, searched)
    PROVE  Good(OnDone(q), searched)
<1> DEFINE a == Start(q)
           b == CloseBoth(a)
<1>1. Active(a, searched) /\ a.started
  BY StartGood
<1> HIDE DEF a
<1>2. Active(b, searched) /\ b.started /\ \A i \in Blocks : b.cur[i] = NoIndex
  BY <1>1, CloseBothGood
<1> HIDE DEF b
<1>3. Good(Finish(b, "done"), searched)
  BY <1>2, FinishGood
<1>4. Good(Handoff(q, "done"), searched)
  BY HandoffGood
<1> QED BY <1>3, <1>4 DEF OnDone, a, b

LEMMA ObservedGood ==
    ASSUME NEW searched, NEW q, Active(q, searched), NEW e \in Event
    PROVE  Active([q EXCEPT !.facts = Observe(@, e)], searched)
<1> DEFINE facts == Observe(q.facts, e)
           r == [q EXCEPT !.facts = Observe(@, e)]
<1>1. q \in Proj
  BY ActiveFacts
<1>2. q.facts \in Facts
  BY <1>1 DEF Proj
<1>3. e.t = "thinking" => e.progress \in Nat
  BY DEF Event, TextEvent, ThinkingEvent, CompletedEvent, SearchEvent, CallEvent, UsageEvent, LastEvent
<1>4. e.t = "usage" => e.tokens \in Nat
  BY DEF Event, TextEvent, ThinkingEvent, CompletedEvent, SearchEvent, CallEvent, UsageEvent, LastEvent
<1>5. facts \in Facts
  <2>1. CASE e.t = "thinking"
    <3> DEFINE n == q.facts.progress + (IF e.progress = 0 THEN 1 ELSE e.progress)
    <3>1. facts = [q.facts EXCEPT !.progress = n]
      BY <2>1 DEF Observe
    <3>2. n \in Nat
      BY <1>2, <1>3, <2>1 DEF Facts
    <3> HIDE DEF n, facts
    <3> QED BY <1>2, <3>1, <3>2 DEF Facts
  <2>2. CASE e.t \in {"thinkingCompleted", "searchStarted"}
    BY <1>2, <2>2 DEF Observe, Facts
  <2>3. CASE e.t = "searchCompleted"
    <3>1. facts = [q.facts EXCEPT !.progress = q.facts.progress + 1, !.searches = q.facts.searches + 1]
      BY <1>2, <2>3 DEF Observe, Facts
    <3>2. q.facts.progress + 1 \in Nat /\ q.facts.searches + 1 \in Nat
      BY <1>2 DEF Facts
    <3>3. \A n \in Nat, m \in Nat : [q.facts EXCEPT !.progress = n, !.searches = m] \in Facts
      BY <1>2 DEF Facts
    <3> HIDE DEF facts
    <3> QED BY <3>1, <3>2, <3>3
  <2>4. CASE e.t = "usage"
    BY <1>2, <1>4, <2>4 DEF Observe, Facts
  <2>5. CASE e.t = "observation"
    BY <1>2, <2>5 DEF Observe, Facts
  <2>6. CASE e.t \notin {"thinking", "thinkingCompleted", "searchStarted", "searchCompleted",
                          "usage", "observation"}
    BY <1>2, <2>6 DEF Observe
  <2> QED BY <2>1, <2>2, <2>3, <2>4, <2>5, <2>6
<1>6. r = [q EXCEPT !.facts = facts]
  BY <1>1 DEF Proj
<1> HIDE DEF facts
<1>7. r \in Proj /\ Same(r, q)
  BY <1>1, <1>5, <1>6 DEF Proj, Same
<1> HIDE DEF r
<1>8. Active(r, searched)
  BY <1>7, SameIsGood
<1> QED BY <1>8 DEF r

\* Every event leaves a readable response.
LEMMA HandleGood ==
    ASSUME ClientOK, NEW searched, NEW q, Active(q, searched), NEW e \in Event,
           e.t = "searchCompleted" => e.h \notin searched
    PROVE  Good(Handle(q, e), Searched(searched, e))
<1> DEFINE r == [q EXCEPT !.facts = Observe(@, e)]
<1>1. Active(r, searched)
  BY ObservedGood
<1> HIDE DEF r
<1>2. \A s, x : Active(x, s) => Good(x, s)
  BY DEF Active
<1>3. CASE e \in TextEvent
  <2>1. e.t = "text"
    BY <1>3 DEF TextEvent
  <2>2. Active(OnText(r, e), searched)
    BY <1>1, <1>3, OnTextGood
  <2> QED BY <1>2, <2>1, <2>2 DEF Handle, Searched, r
<1>4. CASE e \in ThinkingEvent
  <2>1. e.t = "thinking"
    BY <1>4 DEF ThinkingEvent
  <2>2. Active(OnThinking(r, e), searched)
    BY <1>1, <1>4, OnThinkingGood
  <2> QED BY <1>2, <2>1, <2>2 DEF Handle, Searched, r
<1>5. CASE e \in CompletedEvent
  <2>1. e.t = "thinkingCompleted"
    BY <1>5 DEF CompletedEvent
  <2>2. Active(OnThinkingCompleted(r, e), searched)
    BY <1>1, <1>5, OnThinkingCompletedGood
  <2> QED BY <1>2, <2>1, <2>2 DEF Handle, Searched, r
<1>6. CASE e \in SearchEvent
  <2>1. CASE e.t = "searchStarted"
    <3>1. Active(OnSearchStarted(r, e), searched)
      BY <1>1, <1>6, OnSearchStartedGood
    <3> QED BY <1>2, <2>1, <3>1 DEF Handle, Searched, r
  <2>2. CASE e.t = "searchCompleted"
    <3>1. Active(OnSearchCompleted(r, e), searched \cup {e.h})
      BY <1>1, <1>6, <2>2, OnSearchCompletedGood
    <3> QED BY <1>2, <2>2, <3>1 DEF Handle, Searched, r
  <2> QED BY <1>6, <2>1, <2>2 DEF SearchEvent
<1>7. CASE e \in CallEvent
  <2>1. e.t = "call"
    BY <1>7 DEF CallEvent
  <2>2. Active(OnToolCall(r, e), searched)
    BY <1>1, <1>7, OnToolCallGood
  <2> QED BY <1>2, <2>1, <2>2 DEF Handle, Searched, r
<1>8. CASE e \in UsageEvent
  <2>1. e.t \in {"usage", "observation"}
    BY <1>8 DEF UsageEvent
  <2> QED BY <1>1, <1>2, <2>1 DEF Handle, Searched, r
<1>9. CASE e \in LastEvent
  <2>1. Good(Handoff(r, "parked"), searched)
    BY <1>1, HandoffGood
  <2>2. Good(OnDone(r), searched)
    BY <1>1, OnDoneGood
  <2>3. CASE e.t = "turnEnded"
    BY <2>1, <2>3 DEF Handle, Searched, r
  <2>4. CASE e.t = "done"
    BY <2>2, <2>4 DEF Handle, Searched, r
  <2> QED BY <1>9, <2>3, <2>4 DEF LastEvent
<1> QED BY <1>3, <1>4, <1>5, <1>6, <1>7, <1>8, <1>9 DEF Event

-----------------------------------------------------------------------------
(***************************************************************************)
(* A chunk reaches the client.                                             *)
(***************************************************************************)
\* The first chunk is for the client as it is: it opens the next item or
\* addresses an open one.
LEMMA HeadFits ==
    ASSUME ClientOK, Readable(p.out, p.next), p.out # <<>>
    PROVE  LET c == p.out[1] IN
           /\ Head(p.out) = c /\ c \in Chunk /\ 1 \in 1..Len(p.out)
           /\ c.k = "open" => /\ c \in OpenChunk /\ c.i = Len(items) + 1
           /\ c.k \in {"delta", "close"} => c.i \in 1..Len(items) /\ items[c.i].open
           /\ c.k = "delta" => c \in DeltaChunk
           /\ c.k \in {"end", "error"} => Len(p.out) = 1
           /\ c.k = "end" => \A i \in 1..Len(items) : items[i].open => items[i].kind = "search"
<1> DEFINE o == p.out
           c == o[1]
<1>1. /\ o \in Seq(Chunk) /\ Len(o) \in Nat /\ Len(o) # 0 /\ items \in Seq(Item) /\ Len(items) \in Nat
      /\ Numbered(o, p.next) /\ Addressed(o) /\ Ended(o)
  BY DEF Readable, ClientOK
<1>2. 1 \in 1..Len(o) /\ Head(o) = c /\ c \in Chunk
  BY <1>1
<1> HIDE DEF o
<1>3. \A i : Live(o, 1, i) => i \in 1..Len(items) /\ items[i].open
  BY DEF Live, Opened, Closed
<1>4. \A i \in 1..Len(items) : items[i].open => Live(o, 1, i)
  BY DEF Live, Opened, Closed
<1>5. c.k = "open" => c \in OpenChunk /\ c.i = Len(items) + 1
  <2>1. c.k = "open" => c \in OpenChunk
    BY <1>2 DEF Chunk, Mark, OpenChunk, DeltaChunk, CloseChunk
  <2>2. 1..(1 - 1) = {}
    OBVIOUS
  <2> QED BY <1>1, <1>2, <2>1, <2>2 DEF Numbered
<1>6. c.k \in {"delta", "close"} => c.i \in 1..Len(items) /\ items[c.i].open
  BY <1>1, <1>2, <1>3 DEF Addressed
<1>7. c.k = "delta" => c \in DeltaChunk
  BY <1>2 DEF Chunk, Mark, OpenChunk, DeltaChunk, CloseChunk
<1>8. c.k \in {"end", "error"} => Len(o) = 1
  BY <1>1, <1>2 DEF Ended
<1>9. ASSUME c.k = "end", NEW i \in 1..Len(items), items[i].open PROVE items[i].kind = "search"
  <2>1. Is(o, i, "search")
    <3>1. Live(o, 1, i) /\ i \in Nat
      BY <1>1, <1>4, <1>9
    <3> QED BY <1>1, <1>2, <1>9, <3>1 DEF Ended
  <2>2. Len(o) = 1 /\ ~Opens(o, 1, i)
    BY <1>8, <1>9 DEF Opens
  <2> QED BY <2>1, <2>2 DEF Is
<1> QED BY <1>2, <1>5, <1>6, <1>7, <1>8, <1>9 DEF o

\* What the client has after it.
Received(c) ==
    /\ items' \in Seq(Item)
    /\ c.k = "open" => Len(items') = Len(items) + 1
    /\ c.k # "open" => Len(items') = Len(items)
    /\ \A i \in 1..Len(items) : /\ i \in 1..Len(items') /\ items'[i].kind = items[i].kind
                                /\ items'[i].open <=> items[i].open /\ ~(c.k = "close" /\ c.i = i)
    /\ c.k = "open" => items'[Len(items) + 1].open /\ items'[Len(items) + 1].kind = c.kind

Moved(c) ==
    phase' = CASE c.k = "start" -> "streaming"
               [] c.k = "end" -> "ended"
               [] c.k = "error" -> "broken"
               [] OTHER -> phase

LEMMA DeliverReceived ==
    ASSUME ClientOK, p \in Proj, Readable(p.out, p.next), Deliver
    PROVE  Received(p.out[1]) /\ Moved(p.out[1]) /\ p.out # <<>> /\ p' = [p EXCEPT !.out = Tail(p.out)]
<1> DEFINE c == p.out[1]
<1>1. p.out # <<>> /\ p' = [p EXCEPT !.out = Tail(p.out)]
  BY DEF Deliver, Proj
<1>2. /\ Head(p.out) = c /\ c \in Chunk
      /\ c.k = "open" => /\ c \in OpenChunk /\ c.i = Len(items) + 1
      /\ c.k \in {"delta", "close"} => c.i \in 1..Len(items) /\ items[c.i].open
      /\ c.k = "delta" => c \in DeltaChunk
  BY <1>1, HeadFits
<1>3. items \in Seq(Item) /\ Len(items) \in Nat /\ \A i \in 1..Len(items) : items[i] \in Item
  BY DEF ClientOK
<1>4. /\ items' = CASE c.k = "open" -> Append(items, [kind |-> c.kind, text |-> c.text, open |-> TRUE])
                    [] c.k = "delta" -> [items EXCEPT ![c.i].text = @ \o c.text]
                    [] c.k = "close" -> [items EXCEPT ![c.i].open = FALSE]
                    [] OTHER -> items
      /\ Moved(c)
  BY <1>2 DEF Deliver, Receive, Moved
<1> SUFFICES Received(c)
  BY <1>1, <1>4
<1> HIDE DEF c
<1>5. CASE c.k = "open"
  <2> DEFINE x == [kind |-> c.kind, text |-> c.text, open |-> TRUE]
  <2>1. x \in Item
    BY <1>2, <1>5 DEF OpenChunk, Item
  <2>2. items' = Append(items, x)
    BY <1>4, <1>5
  <2>3. x.open = TRUE /\ x.kind = c.kind
    OBVIOUS
  <2> HIDE DEF x
  <2>4. /\ items' \in Seq(Item) /\ Len(items') = Len(items) + 1 /\ items'[Len(items) + 1] = x
        /\ \A i \in 1..Len(items) : items'[i] = items[i]
    BY <1>3, <2>1, <2>2
  <2> QED BY <1>3, <1>5, <2>3, <2>4 DEF Received
<1>6. CASE c.k = "delta"
  <2> DEFINE x == [items[c.i] EXCEPT !.text = @ \o c.text]
  <2>1. c.i \in 1..Len(items) /\ items[c.i] \in Item /\ c.text \in Pieces
    BY <1>2, <1>3, <1>6 DEF DeltaChunk
  <2>2. items[c.i].text \o c.text \in Pieces
    BY <2>1 DEF Item, Pieces
  <2>3. x \in Item /\ x.open = items[c.i].open /\ x.kind = items[c.i].kind
    BY <2>1, <2>2 DEF Item
  <2>4. items' = [items EXCEPT ![c.i] = x]
    BY <1>4, <1>6
  <2> HIDE DEF x
  <2>5. /\ items' \in Seq(Item) /\ Len(items') = Len(items)
        /\ \A i \in 1..Len(items) : items'[i] = IF i = c.i THEN x ELSE items[i]
    BY <1>3, <2>1, <2>3, <2>4
  <2> QED BY <1>3, <1>6, <2>3, <2>5 DEF Received
<1>7. CASE c.k = "close"
  <2> DEFINE x == [items[c.i] EXCEPT !.open = FALSE]
  <2>1. c.i \in 1..Len(items) /\ items[c.i] \in Item
    BY <1>2, <1>3, <1>7
  <2>2. x \in Item /\ x.open = FALSE /\ x.kind = items[c.i].kind
    BY <2>1 DEF Item
  <2>3. items' = [items EXCEPT ![c.i] = x]
    BY <1>4, <1>7
  <2> HIDE DEF x
  <2>4. /\ items' \in Seq(Item) /\ Len(items') = Len(items)
        /\ \A i \in 1..Len(items) : items'[i] = IF i = c.i THEN x ELSE items[i]
    BY <1>3, <2>1, <2>2, <2>3
  <2> QED BY <1>3, <1>7, <2>2, <2>4 DEF Received
<1>8. CASE c.k \notin {"open", "delta", "close"}
  <2>1. items' = items
    BY <1>4, <1>8
  <2> QED BY <1>3, <1>8, <2>1 DEF Received
<1> QED BY <1>5, <1>6, <1>7, <1>8

\* The chunks that are left stand one place further on.
Left == /\ Len(p.out') = Len(p.out) - 1 /\ p.out' \in Seq(Chunk)
        /\ \A k \in 1..(Len(p.out) - 1) : p.out'[k] = p.out[k + 1]

LEMMA DeliverLeft ==
    ASSUME p \in Proj, p.out # <<>>, p' = [p EXCEPT !.out = Tail(p.out)]
    PROVE  /\ Left /\ p' \in Proj /\ p'.out = p.out' /\ p.next' = p.next /\ p.cur' = p.cur /\ p.search' = p.search
           /\ p.started' = p.started /\ p.st' = p.st /\ p.format' = p.format
<1>1. p.out \in Seq(Chunk)
  BY DEF Proj
<1>2. /\ p.out' = Tail(p.out) /\ p'.out = p.out' /\ p.next' = p.next /\ p.cur' = p.cur /\ p.search' = p.search
      /\ p.started' = p.started /\ p.st' = p.st /\ p.format' = p.format
  BY DEF Proj
<1>3. Left
  BY <1>1, <1>2 DEF Left
<1>4. p' \in Proj
  BY <1>2, <1>3 DEF Proj, Left
<1> QED BY <1>2, <1>3, <1>4

LEMMA Shifted ==
    ASSUME NEW n \in Nat, n # 0
    PROVE  1..n = {1} \cup {k + 1 : k \in 1..(n - 1)}
<1>1. ASSUME NEW x \in 1..n PROVE x = 1 \/ x \in {k + 1 : k \in 1..(n - 1)}
  <2>1. x # 1 => x - 1 \in 1..(n - 1) /\ x = (x - 1) + 1
    OBVIOUS
  <2> QED BY <2>1
<1>2. ASSUME NEW k \in 1..(n - 1) PROVE k + 1 \in 1..n
  OBVIOUS
<1>3. 1 \in 1..n
  OBVIOUS
<1> QED BY <1>1, <1>2, <1>3

LEMMA DeliverView ==
    ASSUME ClientOK, p.out \in Seq(Chunk), p.out # <<>>, Readable(p.out, p.next), Received(p.out[1]), Left
    PROVE  /\ \A j \in 1..Len(p.out), i \in Nat : Live(p.out, j, i)' <=> Live(p.out, j + 1, i)
           /\ \A i \in Nat, kind \in Kinds : Is(p.out, i, kind)' <=> Is(p.out, i, kind)
<1> DEFINE c == p.out[1]
           n == Len(p.out)
<1>1. /\ n \in Nat /\ n # 0 /\ Len(items) \in Nat /\ Len(items') \in Nat /\ Len(p.out') = n - 1
      /\ \A k \in 1..(n - 1) : p.out'[k] = p.out[k + 1]
  BY DEF Left, ClientOK, Received
<1>2. /\ c.k = "open" => c.i = Len(items) + 1
      /\ c.k \in {"delta", "close"} => c.i \in 1..Len(items) /\ items[c.i].open
  BY HeadFits
<1>3. /\ c.k = "open" => Len(items') = Len(items) + 1
      /\ c.k # "open" => Len(items') = Len(items)
      /\ \A i \in 1..Len(items) : /\ i \in 1..Len(items') /\ items'[i].kind = items[i].kind
                                  /\ items'[i].open <=> items[i].open /\ ~(c.k = "close" /\ c.i = i)
      /\ c.k = "open" => items'[Len(items) + 1].open /\ items'[Len(items) + 1].kind = c.kind
  BY DEF Received
<1>4. \A k \in 1..(n - 1), i \in Nat : /\ Opens(p.out, k, i)' <=> Opens(p.out, k + 1, i)
                                       /\ Closes(p.out, k, i)' <=> Closes(p.out, k + 1, i)
  BY <1>1 DEF Opens, Closes
<1>5. \A i \in Nat : /\ Opens(p.out, 1, i) <=> c.k = "open" /\ c.i = i
                     /\ Closes(p.out, 1, i) <=> c.k = "close" /\ c.i = i
  BY DEF Opens, Closes
<1> HIDE DEF c, n
<1>6. \A i \in Nat : i \in 1..Len(items') <=> i \in 1..Len(items) \/ (c.k = "open" /\ c.i = i)
  BY <1>1, <1>2, <1>3
<1>7. \A i \in Nat : (i \in 1..Len(items') /\ ~items'[i].open)
                        <=> (i \in 1..Len(items) /\ ~items[i].open) \/ (c.k = "close" /\ c.i = i)
  <2> SUFFICES ASSUME NEW i \in Nat
               PROVE  (i \in 1..Len(items') /\ ~items'[i].open)
                        <=> (i \in 1..Len(items) /\ ~items[i].open) \/ (c.k = "close" /\ c.i = i)
    OBVIOUS
  <2>1. CASE i \in 1..Len(items)
    BY <1>3, <2>1
  <2>2. CASE i \notin 1..Len(items)
    <3>1. ~(c.k = "close" /\ c.i = i)
      BY <1>2, <2>2
    <3>2. i \in 1..Len(items') => items'[i].open
      BY <1>2, <1>3, <1>6, <2>2
    <3> QED BY <2>2, <3>1, <3>2
  <2> QED BY <2>1, <2>2
<1>8. ASSUME NEW j \in 1..n, NEW i \in Nat
      PROVE  Live(p.out, j, i)' <=> Live(p.out, j + 1, i)
  <2>1. /\ 1..((j + 1) - 1) = {1} \cup {k + 1 : k \in 1..(j - 1)}
        /\ 1..(j - 1) \subseteq 1..(n - 1)
    <3>1. j \in Nat /\ j # 0 /\ (j + 1) - 1 = j /\ j <= n
      BY <1>1
    <3>2. 1..j = {1} \cup {k + 1 : k \in 1..(j - 1)}
      BY <3>1, Shifted
    <3> QED BY <1>1, <3>1, <3>2
  <2>2. Opened(p.out, j, i)' <=> Opened(p.out, j + 1, i)
    <3>1. (\E k \in 1..((j + 1) - 1) : Opens(p.out, k, i))
            <=> (c.k = "open" /\ c.i = i) \/ \E k \in 1..(j - 1) : Opens(p.out, k, i)'
      <4> HIDE DEF Opens
      <4> QED BY <1>4, <1>5, <2>1
    <3> HIDE DEF Opens
    <3> QED BY <1>6, <3>1 DEF Opened
  <2>3. Closed(p.out, j, i)' <=> Closed(p.out, j + 1, i)
    <3>1. (\E k \in 1..((j + 1) - 1) : Closes(p.out, k, i))
            <=> (c.k = "close" /\ c.i = i) \/ \E k \in 1..(j - 1) : Closes(p.out, k, i)'
      BY <1>4, <1>5, <2>1
    <3> QED BY <1>7, <3>1 DEF Closed
  <2> QED BY <2>2, <2>3 DEF Live
<1>9. ASSUME NEW i \in Nat, NEW kind \in Kinds
      PROVE  Is(p.out, i, kind)' <=> Is(p.out, i, kind)
  <2>1. 1..n = {1} \cup {k + 1 : k \in 1..(n - 1)}
    BY <1>1, Shifted
  <2>2. \A k \in 1..(n - 1) : p.out'[k].kind = p.out[k + 1].kind
    BY <1>1
  <2>3. (\E k \in 1..n : Opens(p.out, k, i) /\ p.out[k].kind = kind)
           <=> \/ c.k = "open" /\ c.i = i /\ c.kind = kind
               \/ \E k \in 1..(n - 1) : Opens(p.out, k, i)' /\ p.out'[k].kind = kind
    <3>1. p.out[1] = c
      BY DEF c
    <3>2. Opens(p.out, 1, i) /\ p.out[1].kind = kind <=> c.k = "open" /\ c.i = i /\ c.kind = kind
      BY <1>5, <3>1
    <3>3. \A k \in 1..(n - 1) : Opens(p.out, k + 1, i) /\ p.out[k + 1].kind = kind
                                 <=> Opens(p.out, k, i)' /\ p.out'[k].kind = kind
      BY <1>4, <2>2
    <3>4. ASSUME NEW k \in 1..n, Opens(p.out, k, i), p.out[k].kind = kind
          PROVE  \/ c.k = "open" /\ c.i = i /\ c.kind = kind
                 \/ \E l \in 1..(n - 1) : Opens(p.out, l, i)' /\ p.out'[l].kind = kind
      BY <2>1, <3>2, <3>3, <3>4
    <3>5. 1 \in 1..n /\ \A k \in 1..(n - 1) : k + 1 \in 1..n
      BY <2>1
    <3> QED BY <3>2, <3>3, <3>4, <3>5
  <2>4. (i \in 1..Len(items') /\ items'[i].kind = kind)
           <=> \/ i \in 1..Len(items) /\ items[i].kind = kind
               \/ c.k = "open" /\ c.i = i /\ c.kind = kind
    <3>1. CASE i \in 1..Len(items)
      BY <1>1, <1>2, <1>3, <3>1
    <3>2. CASE i \notin 1..Len(items)
      BY <1>2, <1>3, <1>6, <3>2
    <3> QED BY <3>1, <3>2
  <2>5. Is(p.out, i, kind)' <=> \/ i \in 1..Len(items') /\ items'[i].kind = kind
                                \/ \E k \in 1..(n - 1) : Opens(p.out, k, i)' /\ p.out'[k].kind = kind
    BY <1>1 DEF Is
  <2>6. Is(p.out, i, kind) <=> \/ i \in 1..Len(items) /\ items[i].kind = kind
                               \/ \E k \in 1..n : Opens(p.out, k, i) /\ p.out[k].kind = kind
    BY DEF Is, n
  <2> QED BY <2>3, <2>4, <2>5, <2>6
<1> QED BY <1>8, <1>9 DEF n

LEMMA DeliverGood ==
    ASSUME ClientOK, Good(p, upstream.searched), Deliver
    PROVE  ClientOK' /\ Good(p, upstream.searched)'
<1> DEFINE c == p.out[1]
           n == Len(p.out)
<1>1. /\ p \in Proj /\ Readable(p.out, p.next) /\ Phased(p)
      /\ p.cur["text"] = NoIndex \/ p.cur["thinking"] = NoIndex
      /\ p.st = "running" => Owned(p, upstream.searched)
  BY DEF Good
<1>2. Received(c) /\ Moved(c) /\ p.out # <<>> /\ p' = [p EXCEPT !.out = Tail(p.out)]
  BY <1>1, DeliverReceived
<1>3. /\ Left /\ p' \in Proj /\ p'.out = p.out' /\ p.next' = p.next /\ p.cur' = p.cur /\ p.search' = p.search
      /\ p.started' = p.started /\ p.st' = p.st /\ p.format' = p.format
  BY <1>1, <1>2, DeliverLeft
<1>4. p.out \in Seq(Chunk) /\ p.next \in Nat /\ p.cur \in [Blocks -> Nat] /\ p.search \in [Hosted -> Nat]
  BY <1>1 DEF Proj
<1>5. /\ \A j \in 1..n, i \in Nat : Live(p.out, j, i)' <=> Live(p.out, j + 1, i)
      /\ \A i \in Nat, kind \in Kinds : Is(p.out, i, kind)' <=> Is(p.out, i, kind)
  BY <1>1, <1>2, <1>3, <1>4, DeliverView
<1>6. /\ n \in Nat /\ n # 0 /\ Len(items) \in Nat /\ Len(items') \in Nat /\ Len(p.out') = n - 1
      /\ \A k \in 1..(n - 1) : p.out'[k] = p.out[k + 1] /\ k + 1 \in 1..n
      /\ c.k = "open" => Len(items') = Len(items) + 1
      /\ c.k # "open" => Len(items') = Len(items)
  BY <1>2, <1>3, <1>4 DEF Left, ClientOK, Received
<1>7. /\ c \in Chunk /\ 1 \in 1..n
      /\ c.k = "open" => c.i = Len(items) + 1
      /\ c.k \in {"end", "error"} => n = 1
  BY <1>1, <1>2, HeadFits
<1>8. upstream' = upstream
  BY DEF Deliver
<1>9. \A k \in 1..n : p.out[k].k \in {"open", "delta", "close"} => p.out[k].i \in Nat
  BY <1>4 DEF Chunk, Mark, OpenChunk, DeltaChunk, CloseChunk
<1>10. ClientOK'
  <2>1. phase' \in {"idle", "streaming", "ended", "broken"}
    BY <1>2 DEF Moved, ClientOK
  <2> QED BY <1>2, <2>1 DEF ClientOK, Received
<1>11. Numbered(p.out, p.next)'
  <2>1. /\ Len(items) < p.next
        /\ p.next = Len(items) + 1 \/ \E k \in 1..n : Opens(p.out, k, p.next - 1)
        /\ \A k \in 1..n : p.out[k].k = "open" =>
              /\ Len(items) < p.out[k].i /\ p.out[k].i < p.next
              /\ p.out[k].i = Len(items) + 1 \/ \E l \in 1..(k - 1) : Opens(p.out, l, p.out[k].i - 1)
              /\ \A l \in 1..(k - 1) : p.out[l].k = "open" => p.out[l].i < p.out[k].i
    BY <1>1 DEF Readable, Numbered
  <2>2. \A k \in 1..(n - 1) : \A i : Opens(p.out, k + 1, i) => Opens(p.out', k, i)
    BY <1>6 DEF Opens
  <2>3. \A i : Opens(p.out, 1, i) <=> c.k = "open" /\ c.i = i
    BY DEF Opens
  <2> HIDE DEF c, n, Opens
  <2>4. Len(items') < p.next /\ (p.next = Len(items') + 1 \/ \E k \in 1..(n - 1) : Opens(p.out', k, p.next - 1))
    <3>1. Len(items') < p.next
      <4>1. CASE c.k = "open"
        <5>1. c.i < p.next
          BY <1>7, <2>1, <4>1 DEF c
        <5> QED BY <1>4, <1>6, <1>7, <4>1, <5>1
      <4> QED BY <1>6, <2>1, <4>1
    <3>2. CASE p.next = Len(items) + 1
      BY <1>4, <1>6, <3>1, <3>2
    <3>3. CASE \E k \in 1..n : Opens(p.out, k, p.next - 1)
      <4>1. PICK k \in 1..n : Opens(p.out, k, p.next - 1)
        BY <3>3
      <4>2. CASE k = 1
        BY <1>4, <1>6, <1>7, <2>3, <3>1, <4>1, <4>2
      <4>3. CASE k # 1
        <5>1. k - 1 \in 1..(n - 1) /\ (k - 1) + 1 = k
          BY <1>6, <4>3
        <5> QED BY <2>2, <3>1, <4>1, <5>1
      <4> QED BY <4>2, <4>3
    <3> QED BY <2>1, <3>2, <3>3
  <2>5. ASSUME NEW k \in 1..(n - 1), p.out'[k].k = "open"
        PROVE  /\ Len(items') < p.out'[k].i /\ p.out'[k].i < p.next
               /\ p.out'[k].i = Len(items') + 1 \/ \E l \in 1..(k - 1) : Opens(p.out', l, p.out'[k].i - 1)
               /\ \A l \in 1..(k - 1) : p.out'[l].k = "open" => p.out'[l].i < p.out'[k].i
    <3> DEFINE x == p.out[k + 1]
    <3>1. k + 1 \in 1..n /\ p.out'[k] = x /\ (k + 1) - 1 = k /\ x.k = "open"
      BY <1>6, <2>5
    <3>2. x.i \in Nat
      BY <1>9, <3>1
    <3>3. /\ Len(items) < x.i /\ x.i < p.next
          /\ x.i = Len(items) + 1 \/ \E l \in 1..k : Opens(p.out, l, x.i - 1)
          /\ \A l \in 1..k : p.out[l].k = "open" => p.out[l].i < x.i
      <4>1. \A m \in 1..n : p.out[m].k = "open" =>
              /\ Len(items) < p.out[m].i /\ p.out[m].i < p.next
              /\ p.out[m].i = Len(items) + 1 \/ \E l \in 1..(m - 1) : Opens(p.out, l, p.out[m].i - 1)
              /\ \A l \in 1..(m - 1) : p.out[l].k = "open" => p.out[l].i < p.out[m].i
        BY <2>1
      <4> QED BY <3>1, <4>1
    <3> HIDE DEF x
    <3>4. c.k = "open" => Len(items) + 1 < x.i
      <4>1. 1 \in 1..k /\ p.out[1] = c
        BY DEF c
      <4> QED BY <1>7, <3>3, <4>1
    <3>5. Len(items') < x.i
      BY <1>6, <3>2, <3>3, <3>4
    <3>6. x.i = Len(items') + 1 \/ \E l \in 1..(k - 1) : Opens(p.out', l, x.i - 1)
      <4>1. CASE x.i = Len(items) + 1
        BY <1>6, <3>2, <3>4, <4>1
      <4>2. CASE \E l \in 1..k : Opens(p.out, l, x.i - 1)
        <5>1. PICK l \in 1..k : Opens(p.out, l, x.i - 1)
          BY <4>2
        <5>2. CASE l = 1
          BY <1>6, <1>7, <2>3, <3>2, <5>1, <5>2
        <5>3. CASE l # 1
          <6>1. l - 1 \in 1..(k - 1) /\ l - 1 \in 1..(n - 1) /\ (l - 1) + 1 = l
            BY <1>6, <5>3
          <6> QED BY <2>2, <5>1, <6>1
        <5> QED BY <5>2, <5>3
      <4> QED BY <3>3, <4>1, <4>2
    <3>7. \A l \in 1..(k - 1) : p.out'[l].k = "open" => p.out'[l].i < x.i
      <4>1. \A l \in 1..(k - 1) : l \in 1..(n - 1) /\ l + 1 \in 1..k
        BY <1>6
      <4> QED BY <1>6, <3>3, <4>1
    <3> QED BY <3>1, <3>3, <3>5, <3>6, <3>7
  <2> QED BY <1>3, <1>6, <2>4, <2>5 DEF Numbered, Opens
<1>12. Addressed(p.out)' /\ Ended(p.out)'
  <2>1. \A j \in 1..(n - 1) : p.out'[j] = p.out[j + 1] /\ j + 1 \in 1..n /\ j \in 1..n
    BY <1>6
  <2>2. Addressed(p.out) /\ Ended(p.out)
    BY <1>1 DEF Readable
  <2>3. ASSUME NEW j \in 1..(n - 1), p.out'[j].k \in {"delta", "close"}
        PROVE  Live(p.out, j, p.out[j].i)'
    <3>1. PICK i \in Nat : i = p.out[j + 1].i
      BY <1>9, <2>1, <2>3
    <3>2. Live(p.out, j + 1, i)
      BY <2>1, <2>2, <2>3, <3>1 DEF Addressed
    <3>3. Live(p.out, j, i)'
      BY <1>5, <2>1, <3>2
    <3>4. i = p.out'[j].i
      BY <2>1, <3>1
    <3> QED BY <3>3, <3>4
  <2>4. Addressed(p.out)'
    BY <1>6, <2>3 DEF Addressed
  <2>5. ASSUME NEW j \in 1..(n - 1)
        PROVE  /\ p.out'[j].k \in {"end", "error"} => j = n - 1
               /\ p.out'[j].k = "end" => \A i \in Nat : Live(p.out, j, i)' => Is(p.out, i, "search")'
    <3>1. "search" \in Kinds
      BY DEF Kinds
    <3>2. p.out[j + 1].k \in {"end", "error"} => j + 1 = n
      BY <2>1, <2>2 DEF Ended
    <3>3. p.out[j + 1].k = "end" => \A i \in Nat : Live(p.out, j + 1, i) => Is(p.out, i, "search")
      BY <2>1, <2>2 DEF Ended
    <3>4. p.out'[j].k \in {"end", "error"} => j = n - 1
      BY <1>6, <2>1, <3>2
    <3>5. \A i \in Nat : (Live(p.out, j, i)' <=> Live(p.out, j + 1, i)) /\ (Is(p.out, i, "search")' <=> Is(p.out, i, "search"))
      BY <1>5, <2>1, <3>1
    <3> QED BY <2>1, <3>3, <3>4, <3>5
  <2>6. Ended(p.out)'
    BY <1>6, <2>5 DEF Ended
  <2> QED BY <2>4, <2>6
<1>13. Readable(p.out, p.next)'
  BY <1>3, <1>4, <1>11, <1>12 DEF Readable, Left
<1>14. Phased(p)'
  <2>1. \A j \in 1..(n - 1) : p.out'[j] = p.out[j + 1] /\ j + 1 \in 1..n /\ j + 1 # 1
    BY <1>6
  <2>2. phase \notin {"ended", "broken"}
    BY <1>1, <1>2 DEF Phased
  <2>3. \A j \in 1..(n - 1) : p.out'[j].k # "start"
    BY <1>1, <2>1 DEF Phased
  <2>4. n = 1 => p.out' = <<>>
    <3>1. p.out' \in Seq(Chunk)
      BY <1>3 DEF Left
    <3> QED BY <1>6, <3>1
  <2>5. p.st = "running" => c.k \notin {"end", "error"} /\ \A j \in 1..(n - 1) : p.out'[j].k \notin {"end", "error"}
    BY <1>1, <1>7, <2>1 DEF Phased
  <2>6. p.started => phase' # "idle"
    <3>1. p.started => phase # "idle" \/ c.k = "start"
      BY <1>1 DEF Phased
    <3> QED BY <1>2, <3>1 DEF Moved
  <2>7. phase' \in {"ended", "broken"} => p.out' = <<>> /\ p.st # "running"
    <3>1. phase' \in {"ended", "broken"} => c.k \in {"end", "error"}
      BY <1>2, <2>2 DEF Moved
    <3> QED BY <1>7, <2>4, <2>5, <3>1
  <2>8. ~p.started => /\ phase' = "broken" /\ p.out' = <<>>
                      /\ \A b \in Blocks : p.cur[b] = NoIndex
                      /\ \A h \in Hosted : p.search[h] = NoIndex
    <3>1. ~p.started => c.k = "error" /\ (\A b \in Blocks : p.cur[b] = NoIndex)
                         /\ \A h \in Hosted : p.search[h] = NoIndex
      BY <1>1, <1>7 DEF Phased
    <3> QED BY <1>2, <1>7, <2>4, <3>1 DEF Moved
  <2> HIDE DEF c, n
  <2>9. Len(<<>>) = 0 /\ 1..0 = {}
    OBVIOUS
  <2>10. ~p.started' => /\ phase' \in {"idle", "broken"}
                        /\ \A j \in 1..Len(p.out') : p.out'[j].k = "error"
                        /\ \A b \in Blocks : p.cur'[b] = NoIndex
                        /\ \A h \in Hosted : p.search'[h] = NoIndex
    BY <1>3, <2>8, <2>9
  <2>11. \A j \in 1..Len(p.out') : p.out'[j].k # "start"
    BY <1>6, <2>3
  <2>12. p.st' = "running" => \A j \in 1..Len(p.out') : p.out'[j].k \notin {"end", "error"}
    BY <1>3, <1>6, <2>5
  <2> QED BY <1>3, <2>6, <2>7, <2>10, <2>11, <2>12 DEF Phased
<1>15. \A i \in Nat : AtEnd(p.out, i)' <=> AtEnd(p.out, i)
  <2>1. PICK m \in Nat : m = n
    BY <1>6
  <2>2. Len(p.out') + 1 = m /\ m \in 1..n /\ m = Len(p.out)
    BY <1>6, <2>1
  <2>3. \A i \in Nat : Live(p.out, m, i)' <=> Live(p.out, m + 1, i)
    BY <1>5, <2>2
  <2>4. \A i \in Nat : AtEnd(p.out, i)' <=> Live(p.out, m, i)'
    BY <2>2 DEF AtEnd, Live, Opened, Closed
  <2>5. \A i \in Nat : AtEnd(p.out, i) <=> Live(p.out, m + 1, i)
    BY <2>2 DEF AtEnd
  <2> QED BY <2>3, <2>4, <2>5
<1>16. p.st = "running" => Owned(p, upstream.searched)'
  <2> SUFFICES ASSUME p.st = "running" PROVE Owned(p, upstream.searched)'
    OBVIOUS
  <2>1. Owned(p, upstream.searched) /\ Blocks \subseteq Kinds /\ "search" \in Kinds
    BY <1>1 DEF Blocks, Kinds
  <2>2. \A b \in Blocks : p.cur[b] # NoIndex => AtEnd(p.out, p.cur[b])' /\ Is(p.out, p.cur[b], b)'
    BY <1>3, <1>4, <1>5, <1>15, <2>1 DEF Owned
  <2> QED BY <1>3, <1>4, <1>5, <1>8, <1>15, <2>1 DEF Owned
<1> QED BY <1>1, <1>3, <1>10, <1>13, <1>14, <1>16 DEF Good

-----------------------------------------------------------------------------
(***************************************************************************)
(* The snapshot.                                                           *)
(***************************************************************************)
Sizes(events) == [j \in DOMAIN events |-> SnapshotEventSize(events[j]) + 1]

SnapshotOK(s) ==
    /\ s.events \in Seq(Event)
    /\ s.events = <<>> => s.bytes = 0
    /\ s.events # <<>> => /\ s.last = SnapshotEventSize(s.events[Len(s.events)])
                          /\ s.bytes = 1 + SumOf(Sizes(s.events))

LEMMA FieldSizes ==
    ASSUME NEW n
    PROVE  ProgressFieldSize(n) \in Nat /\ TokensFieldSize(n) \in Nat
<1>1. IsFiniteSet({k \in 1..9 : 10^k <= n})
  <2> DEFINE S == 1..9
             T == {k \in S : 10^k <= n}
  <2>1. IsFiniteSet(S)
    <3>1. \A m \in Nat : IsFiniteSet(1..m)
      BY FS_Interval
    <3>2. 9 \in Nat
      OBVIOUS
    <3> QED BY <3>1, <3>2, Zenon
  <2> HIDE DEF S
  <2>2. T \in SUBSET S
    BY Zenon
  <2> HIDE DEF T
  <2>3. IsFiniteSet(T)
    BY <2>1, <2>2, FS_Subset
  <2> QED BY <2>3 DEF S, T
<1>2. Cardinality({k \in 1..9 : 10^k <= n}) \in Nat
  BY <1>1, FS_CardinalityType
<1>3. Digits(n) \in Nat
  BY <1>2 DEF Digits
<1> QED BY <1>3 DEF ProgressFieldSize, TokensFieldSize

LEMMA SizeType ==
    ASSUME NEW e \in Event
    PROVE  SnapshotEventSize(e) \in Nat
<1>1. TextSize(e) \in Nat
  BY DEF TextSize, Event, TextEvent, ThinkingEvent, CompletedEvent, SearchEvent, CallEvent, UsageEvent,
         LastEvent, Texts, Pieces
<1> QED BY <1>1, FieldSizes DEF SnapshotEventSize

LEMMA Joined ==
    ASSUME NEW s \in Texts, NEW t \in Texts
    PROVE  s \o t \in Texts /\ Len(s \o t) = Len(s) + Len(t) /\ Len(s) \in Nat /\ Len(t) \in Nat
<1>1. s \in Seq(Nat \cup Calls) /\ t \in Seq(Nat \cup Calls) /\ s # <<>>
  BY DEF Texts, Pieces
<1>2. s \o t \in Seq(Nat \cup Calls) /\ Len(s \o t) = Len(s) + Len(t)
  BY <1>1, ConcatProperties
<1>3. Len(s) \in Nat \ {0} /\ Len(t) \in Nat
  BY <1>1, EmptySeq, LenProperties
<1>4. s \o t # <<>>
  <2>1. Len(s \o t) # 0 /\ Len(<<>>) = 0
    BY <1>2, <1>3
  <2> QED BY <2>1
<1> QED BY <1>2, <1>3, <1>4 DEF Texts, Pieces

\* Growth is the difference of the sizes, so the count stays exact.
LEMMA CombinedSize ==
    ASSUME NEW a \in Event, NEW e \in Event, Combines(a, e)
    PROVE  /\ Combined(a, e) \in Event
           /\ CombinedGrowth(a, e, SnapshotEventSize(a))
                = SnapshotEventSize(Combined(a, e)) - SnapshotEventSize(a)
<1> DEFINE b == Combined(a, e)
<1>1. CASE e.t = "usage"
  <2>1. a \in UsageEvent /\ e \in UsageEvent /\ a.t = "usage"
    BY <1>1 DEF Combines, Event, TextEvent, ThinkingEvent, CompletedEvent, SearchEvent, CallEvent,
                UsageEvent, LastEvent
  <2>2. b = [a EXCEPT !.tokens = a.tokens + e.tokens]
    BY <1>1 DEF Combined
  <2>3. a.tokens + e.tokens \in Nat
    BY <2>1 DEF UsageEvent
  <2> HIDE DEF b
  <2>4. b \in UsageEvent
    BY <2>1, <2>2, <2>3 DEF UsageEvent
  <2> QED BY <1>1, <2>4 DEF CombinedGrowth, Event, b
<1>2. CASE e.t = "text"
  <2>1. a \in TextEvent /\ e \in TextEvent /\ a.t = "text"
    BY <1>2 DEF Combines, Event, TextEvent, ThinkingEvent, CompletedEvent, SearchEvent, CallEvent,
                UsageEvent, LastEvent
  <2>2. b = [a EXCEPT !.text = a.text \o e.text]
    BY <1>2 DEF Combined
  <2>3. a.text \in Texts /\ e.text \in Texts
    BY <2>1 DEF TextEvent
  <2>4. /\ a.text \o e.text \in Texts
        /\ Len(a.text \o e.text) = Len(a.text) + Len(e.text) /\ Len(a.text) \in Nat /\ Len(e.text) \in Nat
    BY <2>3, Joined
  <2> HIDE DEF b
  <2>5. b \in TextEvent /\ b.t = "text" /\ b.text = a.text \o e.text
    BY <2>1, <2>2, <2>4 DEF TextEvent
  <2>6. /\ TextSize(b) = Len(a.text) + Len(e.text) /\ TextSize(a) = Len(a.text) /\ TextSize(e) = Len(e.text)
        /\ Progress(b) = 0 /\ Progress(a) = 0
    BY <1>2, <2>1, <2>4, <2>5 DEF TextSize, Progress
  <2>7. CombinedGrowth(a, e, SnapshotEventSize(a)) = SnapshotEventSize(b) - SnapshotEventSize(a)
    <3>1. CombinedGrowth(a, e, SnapshotEventSize(a))
            = TextSize(e) + ProgressFieldSize(Progress(b)) - ProgressFieldSize(Progress(a))
      BY <1>2 DEF CombinedGrowth, b
    <3>2. Tokens(a) = 0 /\ Tokens(b) = 0 /\ TokensFieldSize(0) = 0 /\ ProgressFieldSize(0) = 0
      BY <1>2, <2>1, <2>5 DEF Tokens, TokensFieldSize, ProgressFieldSize
    <3>3. /\ SnapshotEventSize(a) = 4 + Len(a.text) + 0 + 0
          /\ SnapshotEventSize(b) = 4 + (Len(a.text) + Len(e.text)) + 0 + 0
      BY <2>6, <3>2 DEF SnapshotEventSize
    <3>4. CombinedGrowth(a, e, SnapshotEventSize(a)) = Len(e.text) + 0 - 0
      BY <2>6, <3>1, <3>2
    <3>5. PICK x \in Nat, y \in Nat : x = Len(a.text) /\ y = Len(e.text)
      BY <2>4
    <3>6. y + 0 - 0 = (4 + (x + y) + 0 + 0) - (4 + x + 0 + 0)
      OBVIOUS
    <3> QED BY <3>3, <3>4, <3>5, <3>6
  <2> QED BY <2>5, <2>7 DEF Event, b
<1>3. CASE e.t = "thinking"
  <2> DEFINE n == (IF a.progress = 0 THEN 1 ELSE a.progress) + (IF e.progress = 0 THEN 1 ELSE e.progress)
  <2>1. a \in ThinkingEvent /\ e \in ThinkingEvent /\ a.t = "thinking"
    BY <1>3 DEF Combines, Event, TextEvent, ThinkingEvent, CompletedEvent, SearchEvent, CallEvent,
                UsageEvent, LastEvent
  <2>2. b = [a EXCEPT !.text = a.text \o e.text, !.progress = n]
    BY <1>3, <2>1 DEF Combined, ThinkingEvent
  <2>3. a.text \in Texts /\ e.text \in Texts /\ n \in Nat /\ a.progress \in Nat
    BY <2>1 DEF ThinkingEvent
  <2>4. /\ a.text \o e.text \in Texts
        /\ Len(a.text \o e.text) = Len(a.text) + Len(e.text) /\ Len(a.text) \in Nat /\ Len(e.text) \in Nat
    BY <2>3, Joined
  <2> HIDE DEF b, n
  <2>5. b \in ThinkingEvent /\ b.t = "thinking" /\ b.text = a.text \o e.text /\ b.progress = n
    BY <2>1, <2>2, <2>3, <2>4 DEF ThinkingEvent
  <2>6. /\ TextSize(b) = Len(a.text) + Len(e.text) /\ TextSize(a) = Len(a.text) /\ TextSize(e) = Len(e.text)
        /\ Progress(b) = n /\ Progress(a) = a.progress
    BY <1>3, <2>1, <2>4, <2>5 DEF TextSize, Progress
  <2>7. ProgressFieldSize(n) \in Nat /\ ProgressFieldSize(a.progress) \in Nat
    BY FieldSizes
  <2>8. CombinedGrowth(a, e, SnapshotEventSize(a))
          = TextSize(e) + ProgressFieldSize(Progress(b)) - ProgressFieldSize(Progress(a))
    BY <1>3 DEF CombinedGrowth, b
  <2>9. CombinedGrowth(a, e, SnapshotEventSize(a)) = SnapshotEventSize(b) - SnapshotEventSize(a)
    <3>1. /\ SnapshotEventSize(a) = 4 + Len(a.text) + ProgressFieldSize(a.progress) + 0
          /\ SnapshotEventSize(b) = 4 + (Len(a.text) + Len(e.text)) + ProgressFieldSize(n) + 0
      <4>1. Tokens(a) = 0 /\ Tokens(b) = 0 /\ TokensFieldSize(0) = 0
        BY <1>3, <2>1, <2>5 DEF Tokens, TokensFieldSize
      <4> QED BY <2>6, <4>1 DEF SnapshotEventSize
    <3>2. CombinedGrowth(a, e, SnapshotEventSize(a))
            = Len(e.text) + ProgressFieldSize(n) - ProgressFieldSize(a.progress)
      BY <2>6, <2>8
    <3>3. Len(e.text) + ProgressFieldSize(n) - ProgressFieldSize(a.progress)
            = (4 + (Len(a.text) + Len(e.text)) + ProgressFieldSize(n) + 0)
                - (4 + Len(a.text) + ProgressFieldSize(a.progress) + 0)
      <4>1. PICK x \in Nat : x = Len(a.text)
        BY <2>4
      <4>2. PICK y \in Nat : y = Len(e.text)
        BY <2>4
      <4>3. PICK u \in Nat : u = ProgressFieldSize(a.progress)
        BY <2>7
      <4>4. PICK v \in Nat : v = ProgressFieldSize(n)
        BY <2>7
      <4>5. y + v - u = (4 + (x + y) + v + 0) - (4 + x + u + 0)
        OBVIOUS
      <4> QED BY <4>1, <4>2, <4>3, <4>4, <4>5
    <3> QED BY <3>1, <3>2, <3>3
  <2> QED BY <2>5, <2>9 DEF Event, b
<1> QED BY <1>1, <1>2, <1>3 DEF Combines

LEMMA CapturedOK ==
    ASSUME NEW s, SnapshotOK(s), NEW e \in Event
    PROVE  SnapshotOK(Captured(s, e)) /\ Captured(s, e).events # <<>>
<1> DEFINE ev == s.events
           n == Len(ev)
           size == SnapshotEventSize(e)
<1>1. ev \in Seq(Event) /\ n \in Nat /\ DOMAIN ev = 1..n /\ IsFiniteSet(1..n)
  <2>1. ev \in Seq(Event)
    BY DEF SnapshotOK
  <2>2. n \in Nat /\ DOMAIN ev = 1..n
    BY <2>1
  <2> HIDE DEF n, ev
  <2> QED BY <2>1, <2>2, FS_Interval
<1>2. Sizes(ev) \in [1..n -> Nat]
  <2>1. \A j \in 1..n : SnapshotEventSize(ev[j]) + 1 \in Nat
    BY <1>1, SizeType
  <2> QED BY <1>1, <2>1 DEF Sizes
<1>3. size \in Nat
  BY SizeType
<1>4. SumOf(Sizes(ev)) \in Nat
  BY <1>1, <1>2, SumType
<1>5. ev # <<>> <=> n > 0
  BY <1>1
<1>6. CASE n > 0 /\ Combines(ev[n], e)
  <2> DEFINE a == ev[n]
             b == Combined(ev[n], e)
             ev2 == [ev EXCEPT ![n] = b]
             growth == CombinedGrowth(a, e, s.last)
  <2>1. n \in 1..n /\ a \in Event /\ s.last = SnapshotEventSize(a) /\ s.bytes = 1 + SumOf(Sizes(ev))
    BY <1>1, <1>5, <1>6 DEF SnapshotOK
  <2>2. b \in Event /\ growth = SnapshotEventSize(b) - SnapshotEventSize(a)
    BY <1>6, <2>1, CombinedSize
  <2>3. SnapshotEventSize(a) \in Nat /\ SnapshotEventSize(b) \in Nat
    BY <2>1, <2>2, SizeType
  <2>4. Captured(s, e) = [events |-> ev2, bytes |-> (IF s.bytes = 0 THEN 2 ELSE s.bytes) + growth,
                          last |-> s.last + growth]
    BY <1>6 DEF Captured
  <2> HIDE DEF a, b, growth
  <2>5. ev2 \in Seq(Event) /\ Len(ev2) = n /\ DOMAIN ev2 = 1..n /\ ev2[n] = b /\ ev2 # <<>>
    BY <1>1, <1>5, <2>1, <2>2
  <2>6. Sizes(ev2) = [Sizes(ev) EXCEPT ![n] = SnapshotEventSize(b) + 1]
    BY <1>1, <2>1, <2>5 DEF Sizes
  <2>7. Sizes(ev)[n] = SnapshotEventSize(a) + 1
    BY <1>1, <2>1 DEF Sizes, a
  <2>8. SumOf(Sizes(ev2)) = SumOf(Sizes(ev)) - (SnapshotEventSize(a) + 1) + (SnapshotEventSize(b) + 1)
    <3>1. SnapshotEventSize(b) + 1 \in Nat
      BY <2>3
    <3> DEFINE g == Sizes(ev)
               k == SnapshotEventSize(b) + 1
    <3>2. g \in [1..n -> Nat] /\ k \in Nat /\ n \in 1..n /\ IsFiniteSet(1..n)
      BY <1>1, <1>2, <2>1, <3>1
    <3> HIDE DEF g, k
    <3>3. SumOf([g EXCEPT ![n] = k]) = SumOf(g) - g[n] + k
      BY <3>2, SumUpdate
    <3> QED BY <2>6, <2>7, <3>3 DEF g, k
  <2> HIDE DEF ev2, ev, n
  <2>9. /\ s.last + growth = SnapshotEventSize(b)
        /\ (IF s.bytes = 0 THEN 2 ELSE s.bytes) + growth = 1 + SumOf(Sizes(ev2))
    BY <1>4, <2>1, <2>2, <2>3, <2>8
  <2> QED BY <2>4, <2>5, <2>9 DEF SnapshotOK
<1>7. CASE ~(n > 0 /\ Combines(ev[n], e))
  <2> DEFINE ev2 == Append(ev, e)
  <2>1. Captured(s, e) = [events |-> ev2,
                          bytes |-> (IF s.bytes = 0 THEN 2 ELSE s.bytes) + size + (IF n > 0 THEN 1 ELSE 0),
                          last |-> size]
    BY <1>7 DEF Captured
  <2>2. /\ ev2 \in Seq(Event) /\ Len(ev2) = n + 1 /\ DOMAIN ev2 = 1..(n + 1) /\ ev2[n + 1] = e /\ ev2 # <<>>
        /\ \A j \in 1..n : ev2[j] = ev[j]
    BY <1>1
  <2>3. 1..(n + 1) = 1..n \cup {n + 1} /\ n + 1 \notin 1..n
    BY <1>1
  <2>4. \A j \in 1..(n + 1) : ev2[j] \in Event
    BY <2>2
  <2> HIDE DEF ev2
  <2>5. /\ Sizes(ev2) \in [1..n \cup {n + 1} -> Nat]
        /\ \A j \in 1..n : Sizes(ev2)[j] = Sizes(ev)[j]
        /\ Sizes(ev2)[n + 1] = size + 1
    <3>1. \A j \in 1..(n + 1) : SnapshotEventSize(ev2[j]) + 1 \in Nat
      BY <2>4, SizeType
    <3> QED BY <1>1, <2>2, <2>3, <3>1 DEF Sizes
  <2>6. SumOf(Sizes(ev2)) = SumOf(Sizes(ev)) + (size + 1)
    <3> DEFINE g == Sizes(ev)
               h == Sizes(ev2)
               m == n + 1
    <3>1. OneMore(h, g, 1..n, m)
      BY <1>1, <1>2, <2>3, <2>5 DEF OneMore
    <3> HIDE DEF g, h, m, n
    <3>2. SumOf(h) = SumOf(g) + h[m]
      BY <3>1, SumExtend
    <3> QED BY <2>5, <3>2 DEF g, h, m
  <2>7. s.bytes = IF n > 0 THEN 1 + SumOf(Sizes(ev)) ELSE 0
    BY <1>1, <1>5 DEF SnapshotOK
  <2>8. n = 0 => SumOf(Sizes(ev)) = 0
    BY <1>2, SumEmpty, 1..0 = {}
  <2> HIDE DEF ev, n, size
  <2>9. (IF s.bytes = 0 THEN 2 ELSE s.bytes) + size + (IF n > 0 THEN 1 ELSE 0) = 1 + SumOf(Sizes(ev2))
    BY <1>1, <1>3, <1>4, <2>6, <2>7, <2>8
  <2> QED BY <2>1, <2>2, <2>9 DEF SnapshotOK, size
<1> QED BY <1>6, <1>7

-----------------------------------------------------------------------------
(***************************************************************************)
(* The invariant, and what follows from it.                                *)
(***************************************************************************)
StreamInv ==
    /\ ClientOK /\ Good(p, upstream.searched) /\ SnapshotOK(snap)
    /\ upstream.said \in Nat

LEMMA NewGood ==
    ASSUME NEW f \in {"claude", "chat", "responses"}, phase = "idle", items = <<>>
    PROVE  Good(New(f), {})
<1> DEFINE q == New(f)
<1>1. /\ q.format = f /\ q.st = "running" /\ q.started = FALSE /\ q.next = 1
      /\ q.cur = [b \in Blocks |-> NoIndex] /\ q.search = [h \in Hosted |-> NoIndex] /\ q.out = <<>>
  BY DEF New
<1>2. q \in Proj
  <2>1. NoFacts \in Facts
    BY DEF NoFacts, Facts
  <2>2. NoIndex \in Nat /\ <<>> \in Pieces
    BY DEF NoIndex, Pieces
  <2>3. /\ [b \in Blocks |-> NoIndex] \in [Blocks -> Nat] /\ [b \in Blocks |-> <<>>] \in [Blocks -> Pieces]
        /\ [h \in Hosted |-> NoIndex] \in [Hosted -> Nat]
    BY <2>2
  <2> QED BY <2>1, <2>3 DEF New, Proj
<1> HIDE DEF q
<1>3. Len(q.out) = 0 /\ Len(items) = 0 /\ 1..0 = {} /\ q.out \in Seq(Chunk)
  BY <1>1
<1>4. Readable(q.out, q.next)
  BY <1>1, <1>3 DEF Readable, Numbered, Addressed, Ended
<1>5. \A i : ~AtEnd(q.out, i)
  BY <1>3 DEF AtEnd, Live, Opened
<1>6. "text" \in Blocks /\ "thinking" \in Blocks
  BY DEF Blocks
<1>7. Phased(q)
  BY <1>1, <1>3 DEF Phased
<1>8. Owned(q, {})
  BY <1>1, <1>5, <1>6 DEF Owned
<1>9. Good(q, {})
  BY <1>1, <1>2, <1>4, <1>6, <1>7, <1>8 DEF Good
<1> QED BY <1>9 DEF q

LEMMA StreamInit == Init => StreamInv
<1> SUFFICES ASSUME Init PROVE StreamInv
  OBVIOUS
<1>1. PICK f \in {"claude", "chat", "responses"} : p = New(f)
  BY ProjectionAssumption DEF Init
<1>2. phase = "idle" /\ items = <<>> /\ upstream.searched = {} /\ upstream.said = 0
      /\ snap.events = <<>> /\ snap.bytes = 0
  BY DEF Init
<1>3. ClientOK
  BY <1>2 DEF ClientOK
<1>4. Good(p, upstream.searched)
  BY <1>1, <1>2, NewGood
<1>5. SnapshotOK(snap)
  BY <1>2 DEF SnapshotOK
<1> QED BY <1>2, <1>3, <1>4, <1>5 DEF StreamInv

\* What the client has does not change when the projection writes.
LEMMA ViewStable ==
    ASSUME Good(p', upstream'.searched), ClientOK, UNCHANGED <<phase, items>>
    PROVE  Good(p, upstream.searched)' /\ ClientOK'
<1>1. phase' = phase /\ items' = items
  OBVIOUS
<1>2. ClientOK'
  BY <1>1 DEF ClientOK
<1>3. p' \in Proj /\ (p'.cur["text"] = NoIndex \/ p'.cur["thinking"] = NoIndex)
  BY DEF Good
<1>4. Numbered(p.out, p.next)' <=> Numbered(p'.out, p'.next)
  BY <1>1 DEF Numbered, Opens
<1>5. \A j \in Nat, i \in Nat : Live(p.out, j, i)' <=> Live(p'.out, j, i)
  BY <1>1 DEF Live, Opened, Closed, Opens, Closes
<1>6. \A i \in Nat, kind \in Kinds : Is(p.out, i, kind)' <=> Is(p'.out, i, kind)
  BY <1>1 DEF Is, Opens
<1>7. \A i \in Nat : AtEnd(p.out, i)' <=> AtEnd(p'.out, i)
  BY <1>1 DEF AtEnd, Live, Opened, Closed, Opens, Closes
<1>8. /\ p'.out \in Seq(Chunk) /\ Blocks \subseteq Kinds /\ "search" \in Kinds
      /\ \A j \in 1..Len(p'.out) : p'.out[j].k \in {"open", "delta", "close"} => p'.out[j].i \in Nat
      /\ \A j \in 1..Len(p'.out) : j \in Nat
      /\ p'.cur \in [Blocks -> Nat] /\ p'.search \in [Hosted -> Nat]
  <2>1. /\ p'.out \in Seq(Chunk)
        /\ p'.cur \in [Blocks -> Nat] /\ p'.search \in [Hosted -> Nat]
    BY <1>3 DEF Proj
  <2>2. \A c \in Chunk : c.k \in {"open", "delta", "close"} => c.i \in Nat
    BY DEF Chunk, Mark, OpenChunk, DeltaChunk, CloseChunk
  <2>3. \A j \in 1..Len(p'.out) : p'.out[j] \in Chunk /\ j \in Nat
    BY <2>1, ElementOfSeq, LenProperties
  <2>4. Blocks \subseteq Kinds /\ "search" \in Kinds
    BY DEF Blocks, Kinds
  <2> QED BY <2>1, <2>2, <2>3, <2>4
<1>9. Addressed(p'.out) => Addressed(p.out)'
  BY <1>5, <1>8 DEF Addressed
<1>10. Ended(p'.out) => Ended(p.out)'
  BY <1>5, <1>6, <1>8 DEF Ended
<1>11. Phased(p') => Phased(p)'
  BY <1>1 DEF Phased
<1>12. Owned(p', upstream'.searched) => Owned(p, upstream.searched)'
  BY <1>6, <1>7, <1>8 DEF Owned
<1>13. Readable(p'.out, p'.next) => Readable(p.out, p.next)'
  BY <1>4, <1>9, <1>10 DEF Readable
<1> QED BY <1>2, <1>3, <1>11, <1>12, <1>13 DEF Good

\* An event: the snapshot takes it or the response fails.
LEMMA ProcessGood ==
    ASSUME StreamInv, Reading, NEW e \in Event, e.t = "searchCompleted" => e.h \notin upstream.searched,
           Process(e), UNCHANGED <<phase, items>>,
           upstream'.searched = Searched(upstream.searched, e), upstream'.said \in Nat
    PROVE  StreamInv'
<1>1. ClientOK /\ SnapshotOK(snap) /\ Active(p, upstream.searched)
  BY DEF StreamInv, Active, Reading
<1>2. Good(p', upstream'.searched)
  <2>1. CASE p' = Reject(p)
    BY <1>1, <2>1, RejectGood
  <2>2. CASE p' = Handle(p, e)
    BY <1>1, <2>2, HandleGood
  <2> QED BY <2>1, <2>2 DEF Process
<1>3. SnapshotOK(snap')
  BY <1>1, CapturedOK DEF Process
<1>4. Good(p, upstream.searched)' /\ ClientOK'
  BY <1>1, <1>2, ViewStable
<1>5. SnapshotOK(snap)'
  BY <1>3 DEF SnapshotOK
<1> QED BY <1>4, <1>5 DEF StreamInv

\* The steps of the run.
Emits ==
    \/ Text \/ Thinking \/ TurnEnded \/ Done \/ RunFails
    \/ \E signed \in BOOLEAN : ThinkingCompleted(signed)
    \/ \E h \in Hosted : SearchStarted(h) \/ SearchCompleted(h)
    \/ \E c \in Calls, ok \in BOOLEAN : ToolCall(c, ok)
    \/ \E n \in TokenCounts : Usage("usage", n)
    \/ Usage("observation", 0)

\* An event of the run, as the projection and the snapshot see it.
Emitted(e) ==
    /\ Reading /\ Process(e) /\ UNCHANGED <<phase, items>>
    /\ e.t = "searchCompleted" => e.h \notin upstream.searched
    /\ upstream'.searched = Searched(upstream.searched, e) /\ upstream'.said \in Nat
    /\ e.t = "text" => \E x \in Nat : e.text = <<x>> /\ upstream'.text = Append(upstream.text, x)
    /\ e.t # "text" => upstream'.text = upstream.text

LEMMA EmitsEvent ==
    ASSUME StreamInv, Emits, ~RunFails
    PROVE  \E e \in Event : Emitted(e)
<1>1. upstream.said \in Nat
  BY DEF StreamInv
<1>2. <<upstream.said + 1>> \in Texts
  <2>1. <<upstream.said + 1>> \in Seq(Nat \cup Calls) /\ <<upstream.said + 1>> # <<>>
    BY <1>1
  <2> QED BY <2>1 DEF Texts, Pieces
<1>3. CASE Text
  <2> DEFINE e == [t |-> "text", text |-> <<upstream.said + 1>>]
  <2>1. e \in Event /\ e.t = "text"
    BY <1>2 DEF Event, TextEvent
  <2>2. /\ Process(e) /\ Reading /\ UNCHANGED <<phase, items>>
        /\ upstream' = [upstream EXCEPT !.n = @ + 1, !.said = @ + 1, !.text = Append(@, upstream.said + 1)]
    BY <1>3 DEF Text, MayEmit
  <2>3. e.text = <<upstream.said + 1>> /\ upstream.said + 1 \in Nat
        /\ upstream'.text = Append(upstream.text, upstream.said + 1)
    BY <1>1, <2>2
  <2> HIDE DEF e
  <2>4. upstream'.searched = Searched(upstream.searched, e) /\ upstream'.said \in Nat
    BY <1>1, <2>1, <2>2 DEF Searched
  <2>5. Emitted(e)
    BY <2>1, <2>2, <2>3, <2>4 DEF Emitted
  <2> QED BY <2>1, <2>5
<1>4. CASE Thinking
  <2> DEFINE e == [t |-> "thinking", text |-> <<upstream.said + 1>>, progress |-> 0]
  <2>1. e \in Event /\ e.t = "thinking"
    BY <1>2 DEF Event, ThinkingEvent
  <2>2. /\ Process(e) /\ Reading /\ UNCHANGED <<phase, items>>
        /\ upstream' = [upstream EXCEPT !.n = @ + 1, !.said = @ + 1]
    BY <1>4 DEF Thinking, MayEmit
  <2> HIDE DEF e
  <2>3. /\ upstream'.searched = Searched(upstream.searched, e) /\ upstream'.said \in Nat
        /\ upstream'.text = upstream.text
    BY <1>1, <2>1, <2>2 DEF Searched
  <2>4. Emitted(e)
    BY <2>1, <2>2, <2>3 DEF Emitted
  <2> QED BY <2>1, <2>4
<1>5. CASE TurnEnded \/ Done
  <2>1. PICK t \in {"turnEnded", "done"} : Process([t |-> t]) /\ Reading /\ UNCHANGED <<phase, items, upstream>>
    BY <1>5 DEF TurnEnded, Done
  <2> DEFINE e == [t |-> t]
  <2>2. e \in Event /\ e.t = t
    BY DEF Event, LastEvent
  <2>3. Process(e) /\ Reading /\ UNCHANGED <<phase, items>> /\ upstream' = upstream
    BY <2>1
  <2> HIDE DEF e
  <2>4. upstream'.searched = Searched(upstream.searched, e) /\ e.t \notin {"text", "searchCompleted"}
    BY <2>2, <2>3 DEF Searched
  <2>5. Emitted(e)
    BY <1>1, <2>3, <2>4 DEF Emitted
  <2> QED BY <2>2, <2>5
<1>6. ASSUME NEW signed \in BOOLEAN, ThinkingCompleted(signed)
      PROVE  \E e \in Event : Emitted(e)
  <2> DEFINE e == [t |-> "thinkingCompleted", signed |-> signed]
  <2>1. e \in Event /\ e.t = "thinkingCompleted"
    BY DEF Event, CompletedEvent
  <2>2. /\ Process(e) /\ Reading /\ UNCHANGED <<phase, items>>
        /\ upstream' = [upstream EXCEPT !.n = @ + 1]
    BY <1>6 DEF ThinkingCompleted, MayEmit
  <2> HIDE DEF e
  <2>3. /\ upstream'.searched = Searched(upstream.searched, e) /\ upstream'.said \in Nat
        /\ upstream'.text = upstream.text
    BY <1>1, <2>1, <2>2 DEF Searched
  <2>4. Emitted(e)
    BY <2>1, <2>2, <2>3 DEF Emitted
  <2> QED BY <2>1, <2>4
<1>7. ASSUME NEW h \in Hosted, SearchStarted(h)
      PROVE  \E e \in Event : Emitted(e)
  <2> DEFINE e == [t |-> "searchStarted", h |-> h]
  <2>1. e \in Event /\ e.t = "searchStarted"
    BY DEF Event, SearchEvent
  <2>2. /\ Process(e) /\ Reading /\ UNCHANGED <<phase, items>>
        /\ upstream' = [upstream EXCEPT !.n = @ + 1, !.started = @ \cup {h}]
    BY <1>7 DEF SearchStarted, MayEmit
  <2> HIDE DEF e
  <2>3. /\ upstream'.searched = Searched(upstream.searched, e) /\ upstream'.said \in Nat
        /\ upstream'.text = upstream.text
    BY <1>1, <2>1, <2>2 DEF Searched
  <2>4. Emitted(e)
    BY <2>1, <2>2, <2>3 DEF Emitted
  <2> QED BY <2>1, <2>4
<1>8. ASSUME NEW h \in Hosted, SearchCompleted(h)
      PROVE  \E e \in Event : Emitted(e)
  <2> DEFINE e == [t |-> "searchCompleted", h |-> h]
  <2>1. e \in Event /\ e.t = "searchCompleted" /\ e.h = h
    BY DEF Event, SearchEvent
  <2>2. /\ Process(e) /\ Reading /\ UNCHANGED <<phase, items>> /\ h \notin upstream.searched
        /\ upstream' = [upstream EXCEPT !.n = @ + 1, !.searched = @ \cup {h}]
    BY <1>8 DEF SearchCompleted, MayEmit
  <2> HIDE DEF e
  <2>3. /\ upstream'.searched = Searched(upstream.searched, e) /\ upstream'.said \in Nat
        /\ upstream'.text = upstream.text
    BY <1>1, <2>1, <2>2 DEF Searched
  <2>4. Emitted(e)
    BY <2>1, <2>2, <2>3 DEF Emitted
  <2> QED BY <2>1, <2>4
<1>9. ASSUME NEW c \in Calls, NEW ok \in BOOLEAN, ToolCall(c, ok)
      PROVE  \E e \in Event : Emitted(e)
  <2> DEFINE e == [t |-> "call", c |-> c, ok |-> ok]
  <2>1. e \in Event /\ e.t = "call"
    BY DEF Event, CallEvent
  <2>2. /\ Process(e) /\ Reading /\ UNCHANGED <<phase, items>>
        /\ upstream' = [upstream EXCEPT !.n = @ + 1, !.called = @ \cup {c}]
    BY <1>9 DEF ToolCall, MayEmit
  <2> HIDE DEF e
  <2>3. /\ upstream'.searched = Searched(upstream.searched, e) /\ upstream'.said \in Nat
        /\ upstream'.text = upstream.text
    BY <1>1, <2>1, <2>2 DEF Searched
  <2>4. Emitted(e)
    BY <2>1, <2>2, <2>3 DEF Emitted
  <2> QED BY <2>1, <2>4
<1>10. ASSUME NEW t \in {"usage", "observation"}, NEW n \in TokenCounts \cup {0}, Usage(t, n)
      PROVE  \E e \in Event : Emitted(e)
  <2> DEFINE e == [t |-> t, tokens |-> n]
  <2>1. e \in Event /\ e.t \notin {"text", "searchCompleted"}
    BY ProjectionAssumption DEF Event, UsageEvent
  <2>2. /\ Process(e) /\ Reading /\ UNCHANGED <<phase, items>>
        /\ upstream' = [upstream EXCEPT !.n = @ + 1]
    BY <1>10 DEF Usage, MayEmit
  <2> HIDE DEF e
  <2>3. /\ upstream'.searched = Searched(upstream.searched, e) /\ upstream'.said \in Nat
        /\ upstream'.text = upstream.text
    BY <1>1, <2>1, <2>2 DEF Searched
  <2>4. Emitted(e)
    BY <2>1, <2>2, <2>3 DEF Emitted
  <2> QED BY <2>1, <2>4
<1> QED BY <1>3, <1>4, <1>5, <1>6, <1>7, <1>8, <1>9, <1>10 DEF Emits

LEMMA EmitsGood ==
    ASSUME StreamInv, Emits
    PROVE  StreamInv' /\ UNCHANGED <<phase, items>>
<1>1. CASE RunFails
  <2>1. p' = Reject(p) /\ Reading /\ UNCHANGED <<snap, phase, items, upstream>>
    BY <1>1 DEF RunFails
  <2>2. ClientOK /\ SnapshotOK(snap) /\ Active(p, upstream.searched) /\ upstream.said \in Nat
    BY <2>1 DEF StreamInv, Active, Reading
  <2>3. Good(p', upstream'.searched)
    BY <2>1, <2>2, RejectGood
  <2>4. Good(p, upstream.searched)' /\ ClientOK'
    BY <2>1, <2>2, <2>3, ViewStable
  <2>5. SnapshotOK(snap)'
    BY <2>1, <2>2 DEF SnapshotOK
  <2> QED BY <2>1, <2>2, <2>4, <2>5 DEF StreamInv
<1>2. CASE ~RunFails
  <2>1. PICK e \in Event : Emitted(e)
    BY <1>2, EmitsEvent
  <2>2. /\ Reading /\ Process(e) /\ UNCHANGED <<phase, items>>
        /\ e.t = "searchCompleted" => e.h \notin upstream.searched
        /\ upstream'.searched = Searched(upstream.searched, e) /\ upstream'.said \in Nat
    BY <2>1 DEF Emitted
  <2> QED BY <2>2, ProcessGood
<1> QED BY <1>1, <1>2

LEMMA StreamNext == StreamInv /\ [Next]_vars => StreamInv'
<1> SUFFICES ASSUME StreamInv, [Next]_vars PROVE StreamInv'
  OBVIOUS
<1>1. ClientOK /\ Good(p, upstream.searched) /\ SnapshotOK(snap) /\ upstream.said \in Nat
  BY DEF StreamInv
<1>2. CASE Emits
  BY <1>2, EmitsGood
<1>3. CASE Deliver
  <2>1. ClientOK' /\ Good(p, upstream.searched)'
    BY <1>1, <1>3, DeliverGood
  <2>2. snap' = snap /\ upstream' = upstream
    BY <1>3 DEF Deliver
  <2>3. SnapshotOK(snap)' /\ upstream'.said \in Nat
    BY <1>1, <2>2 DEF SnapshotOK
  <2> QED BY <2>1, <2>3 DEF StreamInv
<1>4. CASE UNCHANGED vars
  <2>1. p' = p /\ snap' = snap /\ phase' = phase /\ items' = items /\ upstream' = upstream
    BY <1>4 DEF vars
  <2>2. Good(p', upstream'.searched)
    BY <1>1, <2>1
  <2>3. Good(p, upstream.searched)' /\ ClientOK'
    BY <1>1, <2>1, <2>2, ViewStable
  <2>4. SnapshotOK(snap)' /\ upstream'.said \in Nat
    BY <1>1, <2>1 DEF SnapshotOK
  <2> QED BY <2>3, <2>4 DEF StreamInv
<1> QED BY <1>2, <1>3, <1>4 DEF Next, Emits

\* The projection, the chunks on their way and the client agree at any time,
\* in whatever order the run's events come and the chunks are delivered.
THEOREM StreamInvariant == Spec => []StreamInv
<1> QED BY StreamInit, StreamNext, PTL DEF Spec

\* At most one of the text and the thinking block is open, and the index in
\* a chunk that opens an item is the one the client gives it (nextBlock,
\* nextResponsesOutput, closeText, closeThinking).
THEOREM TypeCorrect == Spec => []TypeOK
<1>1. ASSUME StreamInv PROVE TypeOK
  <2>1. ClientOK /\ Good(p, upstream.searched) /\ SnapshotOK(snap)
    BY <1>1 DEF StreamInv
  <2>2. /\ p \in Proj /\ Readable(p.out, p.next)
        /\ p.cur["text"] = NoIndex \/ p.cur["thinking"] = NoIndex
    BY <2>1 DEF Good
  <2>3. p.st \in {"running", "done", "parked", "failed"}
    BY <2>2 DEF Proj
  <2>4. p.out = <<>> => p.next = Len(items) + 1
    <3>1. Numbered(p.out, p.next)
      BY <2>2 DEF Readable
    <3>2. Len(<<>>) = 0 /\ 1..0 = {}
      OBVIOUS
    <3> QED BY <3>1, <3>2 DEF Numbered
  <2>5. p.out # <<>> /\ Head(p.out).k = "open" => Head(p.out).i = Len(items) + 1
    BY <2>1, <2>2, HeadFits
  <2>6. snap.bytes \in Nat
    <3>1. snap.events \in Seq(Event) /\ Len(snap.events) \in Nat /\ DOMAIN snap.events = 1..Len(snap.events)
      BY <2>1 DEF SnapshotOK
    <3>2. \A j \in 1..Len(snap.events) : SnapshotEventSize(snap.events[j]) + 1 \in Nat
      BY <3>1, SizeType
    <3>3. Sizes(snap.events) \in [1..Len(snap.events) -> Nat]
      BY <3>1, <3>2 DEF Sizes
    <3>4. IsFiniteSet(1..Len(snap.events))
      BY <3>1, FS_Interval
    <3>5. SumOf(Sizes(snap.events)) \in Nat
      BY <3>3, <3>4, SumType
    <3> QED BY <2>1, <3>5 DEF SnapshotOK
  <2> QED BY <2>1, <2>2, <2>3, <2>4, <2>5, <2>6 DEF TypeOK, ClientOK
<1> QED BY <1>1, StreamInvariant, PTL

\* The running byte count of eventSnapshot.append is the size of the
\* snapshot's JSON array, however its events were combined.
THEOREM SnapshotBytesHolds == Spec => []SnapshotBytes
<1>1. ASSUME StreamInv PROVE SnapshotBytes
  <2>1. snap.events # <<>> => snap.bytes = 1 + SumOf(Sizes(snap.events))
    BY <1>1 DEF StreamInv, SnapshotOK
  <2> QED BY <2>1 DEF SnapshotBytes, SumOf, Sizes
<1> QED BY <1>1, StreamInvariant, PTL

-----------------------------------------------------------------------------
(***************************************************************************)
(* The response the client is sent refines ResponseStream.                 *)
(***************************************************************************)
LEMMA Appended ==
    ASSUME NEW S, NEW s \in Seq(S), NEW t \in Seq(S), t # <<>>
    PROVE  /\ SubSeq(s \o t, Len(s) + 1, Len(s \o t)) = t
           /\ Len(s \o t) > Len(s)
<1>1. s \o t \in Seq(S) /\ Len(s \o t) = Len(s) + Len(t) /\ Len(s) \in Nat /\ Len(t) \in Nat /\ Len(t) # 0
  BY ConcatProperties, EmptySeq, LenProperties
<1>2. \A i \in 1..Len(t) : (s \o t)[Len(s) + i] = t[i]
  BY <1>1, ConcatProperties
<1> DEFINE u == SubSeq(s \o t, Len(s) + 1, Len(s \o t))
<1>3. Len(u) = Len(t) /\ u \in Seq(S) /\ \A i \in 1..Len(t) : u[i] = (s \o t)[Len(s) + i]
  BY <1>1
<1> HIDE DEF u
<1>4. u = t
  BY <1>2, <1>3, SeqEqual
<1> QED BY <1>1, <1>4 DEF u

\* Where the client is when a chunk reaches it.
LEMMA HeadPhase ==
    ASSUME Good(p, upstream.searched), p.out # <<>>
    PROVE  /\ p.out[1].k = "start" => phase = "idle"
           /\ p.out[1].k \notin {"start", "error"} => phase # "idle"
           /\ phase \notin {"ended", "broken"}
<1>1. p.out \in Seq(Chunk) /\ Phased(p)
  BY DEF Good, Proj
<1>2. 1 \in 1..Len(p.out)
  BY <1>1
<1> QED BY <1>1, <1>2 DEF Phased

LEMMA DeliverStep ==
    ASSUME StreamInv, Deliver
    PROVE  Stream!Next
<1> DEFINE c == p.out[1]
<1>1. ClientOK /\ Good(p, upstream.searched) /\ p \in Proj /\ Readable(p.out, p.next)
  BY DEF StreamInv, Good
<1>2. p.out # <<>>
  BY DEF Deliver
<1>3. /\ Head(p.out) = c /\ c \in Chunk
      /\ c.k = "open" => c \in OpenChunk
      /\ c.k \in {"delta", "close"} => c.i \in 1..Len(items) /\ items[c.i].open
      /\ c.k = "delta" => c \in DeltaChunk
      /\ c.k = "end" => \A i \in 1..Len(items) : items[i].open => items[i].kind = "search"
  BY <1>1, <1>2, HeadFits
<1>4. /\ phase \in {"idle", "streaming"}
      /\ c.k = "start" => phase = "idle"
      /\ c.k \notin {"start", "error"} => phase = "streaming"
  BY <1>1, <1>2, HeadPhase DEF ClientOK
<1>5. /\ items' = CASE c.k = "open" -> Append(items, [kind |-> c.kind, text |-> c.text, open |-> TRUE])
                    [] c.k = "delta" -> [items EXCEPT ![c.i].text = @ \o c.text]
                    [] c.k = "close" -> [items EXCEPT ![c.i].open = FALSE]
                    [] OTHER -> items
      /\ phase' = CASE c.k = "start" -> "streaming"
                    [] c.k = "end" -> "ended"
                    [] c.k = "error" -> "broken"
                    [] OTHER -> phase
  BY <1>3 DEF Deliver, Receive
<1>6. items \in Seq(Item) /\ Len(items) \in Nat /\ DOMAIN items = 1..Len(items)
  BY <1>1 DEF ClientOK
<1>7. c.k \in {"start", "end", "error", "open", "delta", "close"}
  BY <1>3 DEF Chunk, Mark, OpenChunk, DeltaChunk, CloseChunk
<1> HIDE DEF c
<1>8. CASE c.k = "start"
  <2>1. Stream!Start
    BY <1>4, <1>5, <1>8 DEF Stream!Start
  <2> QED BY <2>1 DEF Stream!Next
<1>9. CASE c.k = "end"
  <2>1. Stream!End
    BY <1>3, <1>4, <1>5, <1>6, <1>9 DEF Stream!End
  <2> QED BY <2>1 DEF Stream!Next
<1>10. CASE c.k = "error"
  <2>1. Stream!Break
    BY <1>4, <1>5, <1>10 DEF Stream!Break
  <2> QED BY <2>1 DEF Stream!Next
<1>11. CASE c.k = "open"
  <2> DEFINE x == [kind |-> c.kind, text |-> c.text, open |-> TRUE]
  <2>1. x \in Item /\ x = [kind |-> x.kind, text |-> x.text, open |-> TRUE]
    BY <1>3, <1>11 DEF OpenChunk, Item
  <2>2. items' = Append(items, x) /\ phase' = phase /\ phase = "streaming"
    BY <1>4, <1>5, <1>11
  <2> HIDE DEF x
  <2>3. Len(items') = Len(items) + 1 /\ items'[Len(items')] = x
    BY <1>6, <2>1, <2>2
  <2>4. Len(items') > Len(items)
    BY <1>6, <2>3
  <2>5. Stream!Open(x.kind, x.text)
    BY <2>1, <2>2 DEF Stream!Open
  <2> QED BY <2>3, <2>4, <2>5 DEF Stream!Next
<1>12. CASE c.k = "delta"
  <2> DEFINE i == c.i
             s == items[i].text
             t == c.text
             x == [items[i] EXCEPT !.text = s \o t]
  <2>1. i \in DOMAIN items /\ items[i].open /\ items[i] \in Item
    BY <1>3, <1>6, <1>12
  <2>2. s \in Seq(Nat \cup Calls) /\ t \in Seq(Nat \cup Calls) /\ t # <<>>
    BY <1>3, <1>12, <2>1 DEF DeltaChunk, Item, Pieces
  <2>3. items' = [items EXCEPT ![i] = x] /\ phase' = phase /\ phase = "streaming"
    BY <1>4, <1>5, <1>12
  <2>4. x.text = s \o t
    BY <2>1 DEF Item
  <2>5. SubSeq(s \o t, Len(s) + 1, Len(s \o t)) = t /\ Len(s \o t) > Len(s)
    <3> HIDE DEF s, t
    <3> QED BY <2>2, Appended
  <2>6. items'[i] = x /\ DOMAIN items' = DOMAIN items /\ Len(items') = Len(items)
    <3> HIDE DEF i, x
    <3> QED BY <1>6, <2>1, <2>3
  <2>7. items'[i].text = s \o t
    BY <2>4, <2>6
  <2>8. items' = [items EXCEPT ![i].text = @ \o t]
    BY <2>3
  <2>9. Stream!Extend(i, t)
    BY <2>1, <2>3, <2>8 DEF Stream!Extend
  <2>10. /\ Len(items'[i].text) > Len(items[i].text)
         /\ Stream!Extend(i, SubSeq(items'[i].text, Len(items[i].text) + 1, Len(items'[i].text)))
    <3>1. SubSeq(items'[i].text, Len(items[i].text) + 1, Len(items'[i].text)) = t
      BY <2>5, <2>7
    <3> QED BY <2>5, <2>7, <2>9, <3>1
  <2> QED BY <2>1, <2>6, <2>10 DEF Stream!Next
<1>13. CASE c.k = "close"
  <2>1. c.i \in DOMAIN items /\ items[c.i].open
    BY <1>3, <1>6, <1>13
  <2>2. items' = [items EXCEPT ![c.i].open = FALSE] /\ phase' = phase /\ phase = "streaming"
    BY <1>4, <1>5, <1>13
  <2>3. Stream!Close(c.i)
    BY <2>1, <2>2 DEF Stream!Close
  <2> QED BY <2>1, <2>3 DEF Stream!Next
<1> QED BY <1>7, <1>8, <1>9, <1>10, <1>11, <1>12, <1>13

\* The chunks of every protocol form a response that a client can read:
\* what handle, handleResponses, toolHandoff and finish write is a step of
\* ResponseStream, chunk by chunk, and what the run emits changes nothing
\* the client has.
THEOREM StreamRefines == Spec => ImplementsResponseStream
<1>1. Init => Stream!Init
  BY DEF Init, Stream!Init
<1>2. StreamInv /\ [Next]_vars => [Stream!Next]_(Stream!vars)
  <2> SUFFICES ASSUME StreamInv, [Next]_vars PROVE [Stream!Next]_(Stream!vars)
    OBVIOUS
  <2>1. CASE Emits
    <3>1. UNCHANGED <<phase, items>>
      BY <2>1, EmitsGood
    <3> QED BY <3>1 DEF Stream!vars
  <2>2. CASE Deliver
    BY <2>2, DeliverStep
  <2>3. CASE UNCHANGED vars
    BY <2>3 DEF vars, Stream!vars
  <2> QED BY <2>1, <2>2, <2>3 DEF Next, Emits
<1> QED BY <1>1, <1>2, StreamInvariant, PTL DEF Spec, ImplementsResponseStream, Stream!Spec

(***************************************************************************)
(* What the methods do to each field, whatever the client has.             *)
(***************************************************************************)
Full == {q \in Proj : q.next # NoIndex}

\* The fields that writing blocks leaves alone.
Rest(r, q) ==
    /\ r.format = q.format /\ r.st = q.st /\ r.calls = q.calls
    /\ r.search = q.search /\ r.facts = q.facts

Entry == [i: Nat, kind: Kinds, text: Pieces]

LEMMA FullFields ==
    ASSUME NEW q \in Full
    PROVE  /\ q \in Proj /\ q.next \in Nat \ {NoIndex} /\ q.cur \in [Blocks -> Nat] /\ q.buf \in [Blocks -> Pieces]
           /\ q.body \in Seq(Entry) /\ q.out \in Seq(Chunk) /\ q.calls \in Seq(CallEvent)
           /\ q.search \in [Hosted -> Nat] /\ q.started \in BOOLEAN /\ q.facts \in Facts
BY DEF Full, Proj, Entry

LEMMA BlockKinds == Blocks = {"text", "thinking"} /\ Blocks \subseteq Kinds /\ NoIndex \in Nat /\ <<>> \in Pieces
BY DEF Blocks, Kinds, NoIndex, Pieces

StartOut(q) == IF q.started THEN q.out ELSE Append(q.out, [k |-> "start"])

LEMMA StartFields ==
    ASSUME NEW q \in Full
    PROVE  LET r == Start(q) IN
           /\ r \in Full /\ Rest(r, q) /\ r.started = TRUE /\ r.next = q.next /\ r.cur = q.cur
           /\ r.buf = q.buf /\ r.body = q.body /\ r.out = StartOut(q)
<1> DEFINE r == Start(q)
           out == Append(q.out, [k |-> "start"])
<1>1. q \in Proj /\ q.started \in BOOLEAN /\ q.out \in Seq(Chunk) /\ q.next # NoIndex
  BY FullFields
<1>2. CASE q.started
  BY <1>1, <1>2 DEF Start, StartOut, Rest
<1>3. CASE ~q.started
  <2>1. r = [q EXCEPT !.started = TRUE, !.out = out]
    BY <1>1, <1>3 DEF Start, Emit, Proj
  <2>2. out \in Seq(Chunk)
    <3>1. [k |-> "start"] \in Chunk
      BY DEF Chunk, Mark
    <3> QED BY <1>1, <3>1
  <2>3. out = StartOut(q)
    BY <1>3 DEF StartOut
  <2> HIDE DEF r, out
  <2>4. r \in Proj
    BY <1>1, <2>1, <2>2 DEF Proj
  <2>5. /\ Rest(r, q) /\ r.started = TRUE /\ r.next = q.next /\ r.cur = q.cur
        /\ r.buf = q.buf /\ r.body = q.body /\ r.out = out
    BY <1>1, <2>1 DEF Proj, Rest
  <2> QED BY <1>1, <2>3, <2>4, <2>5 DEF Full, r
<1> QED BY <1>2, <1>3

LEMMA BufferedFields ==
    ASSUME NEW q \in Full, NEW kind \in Blocks, NEW text \in Pieces
    PROVE  LET r == Buffered(q, kind, text) IN
           /\ r \in Full /\ Rest(r, q) /\ r.started = q.started /\ r.next = q.next /\ r.cur = q.cur
           /\ r.buf = [q.buf EXCEPT ![kind] = @ \o text] /\ r.body = q.body /\ r.out = q.out
<1> DEFINE r == Buffered(q, kind, text)
           buf == [q.buf EXCEPT ![kind] = q.buf[kind] \o text]
<1>1. q \in Proj /\ q.buf \in [Blocks -> Pieces] /\ q.next # NoIndex
  BY FullFields
<1>2. r = [q EXCEPT !.buf = buf]
  BY <1>1 DEF Buffered, Proj
<1>3. buf \in [Blocks -> Pieces]
  <2>1. q.buf[kind] \o text \in Pieces
    BY <1>1 DEF Pieces
  <2> QED BY <1>1, <2>1
<1> HIDE DEF r, buf
<1>4. r \in Proj
  BY <1>1, <1>2, <1>3 DEF Proj
<1>5. /\ Rest(r, q) /\ r.started = q.started /\ r.next = q.next /\ r.cur = q.cur
      /\ r.buf = buf /\ r.body = q.body /\ r.out = q.out
  BY <1>1, <1>2 DEF Proj, Rest
<1> QED BY <1>1, <1>4, <1>5 DEF Full, r, buf

LEMMA DroppedFields ==
    ASSUME NEW q \in Full, NEW kind \in Blocks
    PROVE  LET r == [q EXCEPT !.buf[kind] = <<>>] IN
           /\ r \in Full /\ Rest(r, q) /\ r.started = q.started /\ r.next = q.next /\ r.cur = q.cur
           /\ r.buf = [q.buf EXCEPT ![kind] = <<>>] /\ r.body = q.body /\ r.out = q.out
<1> DEFINE r == [q EXCEPT !.buf[kind] = <<>>]
           buf == [q.buf EXCEPT ![kind] = <<>>]
<1>1. q \in Proj /\ q.buf \in [Blocks -> Pieces] /\ q.next # NoIndex
  BY FullFields
<1>2. r = [q EXCEPT !.buf = buf]
  BY <1>1 DEF Proj
<1>3. buf \in [Blocks -> Pieces]
  BY <1>1, BlockKinds
<1> HIDE DEF r, buf
<1>4. r \in Proj
  BY <1>1, <1>2, <1>3 DEF Proj
<1>5. /\ Rest(r, q) /\ r.started = q.started /\ r.next = q.next /\ r.cur = q.cur
      /\ r.buf = buf /\ r.body = q.body /\ r.out = q.out
  BY <1>1, <1>2 DEF Proj, Rest
<1> QED BY <1>1, <1>4, <1>5 DEF Full, r, buf

LEMMA CloseBlockFields ==
    ASSUME NEW q \in Full, NEW kind \in Blocks, q.cur[kind] # NoIndex
    PROVE  LET r == CloseBlock(q, kind) IN
           /\ r \in Full /\ Rest(r, q) /\ r.started = q.started /\ r.next = q.next
           /\ r.cur = [q.cur EXCEPT ![kind] = NoIndex] /\ r.buf = [q.buf EXCEPT ![kind] = <<>>]
           /\ r.body = Append(q.body, [i |-> q.cur[kind], kind |-> kind, text |-> q.buf[kind]])
           /\ r.out = Append(q.out, [k |-> "close", i |-> q.cur[kind]])
<1> DEFINE r == CloseBlock(q, kind)
           body == Append(q.body, [i |-> q.cur[kind], kind |-> kind, text |-> q.buf[kind]])
           cur == [q.cur EXCEPT ![kind] = NoIndex]
           buf == [q.buf EXCEPT ![kind] = <<>>]
           out == Append(q.out, [k |-> "close", i |-> q.cur[kind]])
<1>1. /\ q \in Proj /\ q.buf \in [Blocks -> Pieces] /\ q.next # NoIndex /\ q.cur \in [Blocks -> Nat]
      /\ q.out \in Seq(Chunk) /\ q.body \in Seq(Entry)
  BY FullFields
<1>2. r = [q EXCEPT !.body = body, !.cur = cur, !.buf = buf, !.out = out]
  BY <1>1 DEF CloseBlock, CloseItem, Store, Emit, Proj
<1>3. cur \in [Blocks -> Nat] /\ buf \in [Blocks -> Pieces]
  BY <1>1, BlockKinds
<1>4. out \in Seq(Chunk)
  <2>1. [k |-> "close", i |-> q.cur[kind]] \in Chunk
    BY <1>1 DEF Chunk, CloseChunk
  <2> QED BY <1>1, <2>1
<1>5. body \in Seq([i: Nat, kind: Kinds, text: Pieces])
  BY <1>1, BlockKinds DEF Entry
<1> HIDE DEF r, buf, cur, out, body
<1>6. r \in Proj
  BY <1>1, <1>2, <1>3, <1>4, <1>5 DEF Proj
<1>7. /\ Rest(r, q) /\ r.started = q.started /\ r.next = q.next /\ r.cur = cur
      /\ r.buf = buf /\ r.body = body /\ r.out = out
  BY <1>1, <1>2 DEF Proj, Rest
<1> QED BY <1>1, <1>6, <1>7 DEF Full, r, buf, cur, out, body

LEMMA EnsureFields ==
    ASSUME NEW q \in Full, NEW kind \in Blocks, q.cur[kind] = NoIndex
    PROVE  LET r == Ensure(q, kind) IN
           /\ r \in Full /\ Rest(r, q) /\ r.started = q.started /\ r.next = q.next + 1
           /\ r.cur = [q.cur EXCEPT ![kind] = q.next] /\ r.buf = q.buf /\ r.body = q.body
           /\ r.out = Append(q.out, [k |-> "open", i |-> q.next, kind |-> kind, text |-> <<>>])
<1> DEFINE r == Ensure(q, kind)
           cur == [q.cur EXCEPT ![kind] = q.next]
           out == Append(q.out, [k |-> "open", i |-> q.next, kind |-> kind, text |-> <<>>])
<1>1. /\ q \in Proj /\ q.next \in Nat /\ q.next # NoIndex /\ q.cur \in [Blocks -> Nat] /\ q.out \in Seq(Chunk)
  BY FullFields
<1>2. r = [q EXCEPT !.cur = cur, !.next = q.next + 1, !.out = out]
  BY <1>1 DEF Ensure, OpenItem, Emit, Proj
<1>3. cur \in [Blocks -> Nat] /\ q.next + 1 \in Nat /\ q.next + 1 # NoIndex
  BY <1>1 DEF NoIndex
<1>4. out \in Seq(Chunk)
  <2>1. [k |-> "open", i |-> q.next, kind |-> kind, text |-> <<>>] \in Chunk
    BY <1>1, BlockKinds DEF Chunk, OpenChunk
  <2> QED BY <1>1, <2>1
<1> HIDE DEF r, cur, out
<1>5. r \in Proj
  BY <1>1, <1>2, <1>3, <1>4 DEF Proj
<1>6. /\ Rest(r, q) /\ r.started = q.started /\ r.next = q.next + 1 /\ r.cur = cur
      /\ r.buf = q.buf /\ r.body = q.body /\ r.out = out
  BY <1>1, <1>2 DEF Proj, Rest
<1> QED BY <1>3, <1>5, <1>6 DEF Full, r, cur, out

LEMMA DeltaFields ==
    ASSUME NEW q \in Full, NEW kind \in Blocks, NEW text \in Texts
    PROVE  LET r == Delta(q, kind, text) IN
           /\ r \in Full /\ Rest(r, q) /\ r.started = q.started /\ r.next = q.next /\ r.cur = q.cur
           /\ r.buf = q.buf /\ r.body = q.body
           /\ r.out = Append(q.out, [k |-> "delta", i |-> q.cur[kind], text |-> text])
<1> DEFINE r == Delta(q, kind, text)
           out == Append(q.out, [k |-> "delta", i |-> q.cur[kind], text |-> text])
<1>1. q \in Proj /\ q.next # NoIndex /\ q.cur \in [Blocks -> Nat] /\ q.out \in Seq(Chunk)
  BY FullFields
<1>2. r = [q EXCEPT !.out = out]
  BY <1>1 DEF Delta, Emit, Proj
<1>3. out \in Seq(Chunk)
  <2>1. [k |-> "delta", i |-> q.cur[kind], text |-> text] \in Chunk
    BY <1>1 DEF Chunk, DeltaChunk, Texts
  <2> QED BY <1>1, <2>1
<1> HIDE DEF r, out
<1>4. r \in Proj
  BY <1>1, <1>2, <1>3 DEF Proj
<1>5. /\ Rest(r, q) /\ r.started = q.started /\ r.next = q.next /\ r.cur = q.cur
      /\ r.buf = q.buf /\ r.body = q.body /\ r.out = out
  BY <1>1, <1>2 DEF Proj, Rest
<1> QED BY <1>1, <1>4, <1>5 DEF Full, r, out

LEMMA WholeItemFields ==
    ASSUME NEW q \in Full, NEW kind \in Kinds, NEW text \in Pieces
    PROVE  LET r == WholeItem(q, kind, text) IN
           /\ r \in Full /\ Rest(r, q) /\ r.started = q.started /\ r.next = q.next + 1
           /\ r.cur = q.cur /\ r.buf = q.buf
           /\ r.body = Append(q.body, [i |-> q.next, kind |-> kind, text |-> text])
           /\ r.out = Append(Append(q.out, [k |-> "open", i |-> q.next, kind |-> kind, text |-> text]),
                             [k |-> "close", i |-> q.next])
<1> DEFINE r == WholeItem(q, kind, text)
           body == Append(q.body, [i |-> q.next, kind |-> kind, text |-> text])
           out == Append(Append(q.out, [k |-> "open", i |-> q.next, kind |-> kind, text |-> text]),
                         [k |-> "close", i |-> q.next])
<1>1. /\ q \in Proj /\ q.next \in Nat /\ q.next # NoIndex /\ q.body \in Seq(Entry) /\ q.out \in Seq(Chunk)
  BY FullFields
<1>2. r = [q EXCEPT !.body = body, !.next = q.next + 1, !.out = out]
  BY <1>1 DEF WholeItem, CloseItem, OpenItem, Store, Emit, Proj
<1>3. body \in Seq([i: Nat, kind: Kinds, text: Pieces])
  BY <1>1 DEF Entry
<1>4. out \in Seq(Chunk)
  <2>1. [k |-> "open", i |-> q.next, kind |-> kind, text |-> text] \in Chunk
    BY <1>1 DEF Chunk, OpenChunk
  <2>2. [k |-> "close", i |-> q.next] \in Chunk
    BY <1>1 DEF Chunk, CloseChunk
  <2> QED BY <1>1, <2>1, <2>2
<1>5. q.next + 1 \in Nat /\ q.next + 1 # NoIndex
  BY <1>1 DEF NoIndex
<1> HIDE DEF r, body, out
<1>6. r \in Proj
  BY <1>1, <1>2, <1>3, <1>4, <1>5 DEF Proj
<1>7. /\ Rest(r, q) /\ r.started = q.started /\ r.next = q.next + 1 /\ r.cur = q.cur
      /\ r.buf = q.buf /\ r.body = body /\ r.out = out
  BY <1>1, <1>2 DEF Proj, Rest
<1> QED BY <1>5, <1>6, <1>7 DEF Full, r, body, out

LEMMA NotedFields ==
    ASSUME NEW q \in Full, NEW h \in Hosted
    PROVE  LET r == [q EXCEPT !.search[h] = q.next] IN
           /\ r \in Full /\ r.search = [q.search EXCEPT ![h] = q.next]
           /\ r.format = q.format /\ r.st = q.st /\ r.calls = q.calls /\ r.facts = q.facts
           /\ r.started = q.started /\ r.next = q.next /\ r.cur = q.cur
           /\ r.buf = q.buf /\ r.body = q.body /\ r.out = q.out
<1> DEFINE r == [q EXCEPT !.search[h] = q.next]
           search == [q.search EXCEPT ![h] = q.next]
<1>1. q \in Proj /\ q.next \in Nat /\ q.next # NoIndex /\ q.search \in [Hosted -> Nat]
  BY FullFields
<1>2. r = [q EXCEPT !.search = search]
  BY <1>1 DEF Proj
<1>3. search \in [Hosted -> Nat]
  BY <1>1
<1> HIDE DEF r, search
<1>4. r \in Proj
  BY <1>1, <1>2, <1>3 DEF Proj
<1>5. /\ r.search = search
      /\ r.format = q.format /\ r.st = q.st /\ r.calls = q.calls /\ r.facts = q.facts
      /\ r.started = q.started /\ r.next = q.next /\ r.cur = q.cur
      /\ r.buf = q.buf /\ r.body = q.body /\ r.out = q.out
  BY <1>1, <1>2 DEF Proj
<1> QED BY <1>1, <1>4, <1>5 DEF Full, r, search

LEMMA OpenItemFields ==
    ASSUME NEW q \in Full, NEW kind \in Kinds, NEW text \in Pieces
    PROVE  LET r == OpenItem(q, kind, text) IN
           /\ r \in Full /\ Rest(r, q) /\ r.started = q.started /\ r.next = q.next + 1
           /\ r.cur = q.cur /\ r.buf = q.buf /\ r.body = q.body
           /\ r.out = Append(q.out, [k |-> "open", i |-> q.next, kind |-> kind, text |-> text])
<1> DEFINE r == OpenItem(q, kind, text)
           out == Append(q.out, [k |-> "open", i |-> q.next, kind |-> kind, text |-> text])
<1>1. q \in Proj /\ q.next \in Nat /\ q.next # NoIndex /\ q.out \in Seq(Chunk)
  BY FullFields
<1>2. r = [q EXCEPT !.next = q.next + 1, !.out = out]
  BY <1>1 DEF OpenItem, Emit, Proj
<1>3. out \in Seq(Chunk)
  <2>1. [k |-> "open", i |-> q.next, kind |-> kind, text |-> text] \in Chunk
    BY <1>1 DEF Chunk, OpenChunk
  <2> QED BY <1>1, <2>1
<1>4. q.next + 1 \in Nat /\ q.next + 1 # NoIndex
  BY <1>1 DEF NoIndex
<1> HIDE DEF r, out
<1>5. r \in Proj
  BY <1>1, <1>2, <1>3, <1>4 DEF Proj
<1>6. /\ Rest(r, q) /\ r.started = q.started /\ r.next = q.next + 1 /\ r.cur = q.cur
      /\ r.buf = q.buf /\ r.body = q.body /\ r.out = out
  BY <1>1, <1>2 DEF Proj, Rest
<1> QED BY <1>4, <1>5, <1>6 DEF Full, r, out

\* A finished item: what is stored and closed.
LEMMA StoredFields ==
    ASSUME NEW q \in Full, NEW i \in Nat, NEW kind \in Kinds, NEW text \in Pieces
    PROVE  LET r == CloseItem(Store(q, i, kind, text), i) IN
           /\ r \in Full /\ Rest(r, q) /\ r.started = q.started /\ r.next = q.next
           /\ r.cur = q.cur /\ r.buf = q.buf
           /\ r.body = Append(q.body, [i |-> i, kind |-> kind, text |-> text])
           /\ r.out = Append(q.out, [k |-> "close", i |-> i])
<1> DEFINE r == CloseItem(Store(q, i, kind, text), i)
           body == Append(q.body, [i |-> i, kind |-> kind, text |-> text])
           out == Append(q.out, [k |-> "close", i |-> i])
<1>1. q \in Proj /\ q.next # NoIndex /\ q.body \in Seq(Entry) /\ q.out \in Seq(Chunk)
  BY FullFields
<1>2. r = [q EXCEPT !.body = body, !.out = out]
  BY <1>1 DEF CloseItem, Store, Emit, Proj
<1>3. body \in Seq([i: Nat, kind: Kinds, text: Pieces])
  BY <1>1 DEF Entry
<1>4. out \in Seq(Chunk)
  <2>1. [k |-> "close", i |-> i] \in Chunk
    BY DEF Chunk, CloseChunk
  <2> QED BY <1>1, <2>1
<1> HIDE DEF r, body, out
<1>5. r \in Proj
  BY <1>1, <1>2, <1>3, <1>4 DEF Proj
<1>6. /\ Rest(r, q) /\ r.started = q.started /\ r.next = q.next /\ r.cur = q.cur
      /\ r.buf = q.buf /\ r.body = body /\ r.out = out
  BY <1>1, <1>2 DEF Proj, Rest
<1> QED BY <1>1, <1>5, <1>6 DEF Full, r, body, out

\* The last chunk.
Ending(q, st, k) == Emit([q EXCEPT !.st = st], [k |-> k])

LEMMA EndFields ==
    ASSUME NEW q \in Full, NEW st \in {"done", "parked", "failed"}, NEW k \in {"end", "error"}
    PROVE  LET r == Ending(q, st, k) IN
           /\ r \in Full /\ r.st = st /\ r.format = q.format /\ r.calls = q.calls
           /\ r.search = q.search /\ r.facts = q.facts /\ r.started = q.started /\ r.next = q.next
           /\ r.cur = q.cur /\ r.buf = q.buf /\ r.body = q.body
           /\ r.out = Append(q.out, [k |-> k])
<1> DEFINE r == Ending(q, st, k)
           out == Append(q.out, [k |-> k])
<1>1. q \in Proj /\ q.next # NoIndex /\ q.out \in Seq(Chunk)
  BY FullFields
<1>2. r = [q EXCEPT !.st = st, !.out = out]
  BY <1>1 DEF Ending, Emit, Proj
<1>3. out \in Seq(Chunk)
  <2>1. [k |-> k] \in Chunk
    BY DEF Chunk, Mark
  <2> QED BY <1>1, <2>1
<1> HIDE DEF r, out
<1>4. r \in Proj
  BY <1>1, <1>2, <1>3 DEF Proj
<1>5. /\ r.st = st /\ r.format = q.format /\ r.calls = q.calls
      /\ r.search = q.search /\ r.facts = q.facts /\ r.started = q.started /\ r.next = q.next
      /\ r.cur = q.cur /\ r.buf = q.buf /\ r.body = q.body /\ r.out = out
  BY <1>1, <1>2 DEF Proj
<1> QED BY <1>1, <1>4, <1>5 DEF Full, r, out

LEMMA ToolCallFields ==
    ASSUME NEW q \in Full, NEW e \in CallEvent
    PROVE  LET r == OnToolCall(q, e) IN
           /\ r \in Full /\ r.calls = Append(q.calls, e) /\ r.st = q.st /\ r.format = q.format
           /\ r.search = q.search /\ r.facts = q.facts /\ r.started = q.started /\ r.next = q.next
           /\ r.cur = q.cur /\ r.buf = q.buf /\ r.body = q.body /\ r.out = q.out
<1> DEFINE r == OnToolCall(q, e)
           calls == Append(q.calls, e)
<1>1. q \in Proj /\ q.next # NoIndex /\ q.calls \in Seq(CallEvent)
  BY FullFields
<1>2. r = [q EXCEPT !.calls = calls]
  BY <1>1 DEF OnToolCall, Proj
<1>3. calls \in Seq(CallEvent)
  BY <1>1
<1> HIDE DEF r, calls
<1>4. r \in Proj
  BY <1>1, <1>2, <1>3 DEF Proj
<1>5. /\ r.calls = calls /\ r.st = q.st /\ r.format = q.format
      /\ r.search = q.search /\ r.facts = q.facts /\ r.started = q.started /\ r.next = q.next
      /\ r.cur = q.cur /\ r.buf = q.buf /\ r.body = q.body /\ r.out = q.out
  BY <1>1, <1>2 DEF Proj
<1> QED BY <1>1, <1>4, <1>5 DEF Full, r, calls

LEMMA ObservedType ==
    ASSUME NEW f \in Facts, NEW e \in Event
    PROVE  Observe(f, e) \in Facts
<1>1. e.t = "thinking" => e.progress \in Nat
  BY DEF Event, TextEvent, ThinkingEvent, CompletedEvent, SearchEvent, CallEvent, UsageEvent, LastEvent
<1>2. e.t = "usage" => e.tokens \in Nat
  BY DEF Event, TextEvent, ThinkingEvent, CompletedEvent, SearchEvent, CallEvent, UsageEvent, LastEvent
<1> DEFINE facts == Observe(f, e)
<1>3. CASE e.t = "thinking"
  <2> DEFINE n == f.progress + (IF e.progress = 0 THEN 1 ELSE e.progress)
  <2>1. facts = [f EXCEPT !.progress = n]
    BY <1>3 DEF Observe
  <2>2. n \in Nat
    BY <1>1, <1>3 DEF Facts
  <2> HIDE DEF n, facts
  <2>3. facts \in Facts
    BY <2>1, <2>2 DEF Facts
  <2> QED BY <2>3 DEF facts
<1>4. CASE e.t \in {"thinkingCompleted", "searchStarted"}
  BY <1>4 DEF Observe, Facts
<1>5. CASE e.t = "searchCompleted"
  <2>1. facts = [f EXCEPT !.progress = f.progress + 1, !.searches = f.searches + 1]
    BY <1>5 DEF Observe, Facts
  <2>2. f.progress + 1 \in Nat /\ f.searches + 1 \in Nat
    BY DEF Facts
  <2>3. \A n \in Nat, m \in Nat : [f EXCEPT !.progress = n, !.searches = m] \in Facts
    BY DEF Facts
  <2> HIDE DEF facts
  <2>4. facts \in Facts
    BY <2>1, <2>2, <2>3
  <2> QED BY <2>4 DEF facts
<1>6. CASE e.t = "usage"
  BY <1>2, <1>6 DEF Observe, Facts
<1>7. CASE e.t = "observation"
  BY <1>7 DEF Observe, Facts
<1>8. CASE e.t \notin {"thinking", "thinkingCompleted", "searchStarted", "searchCompleted",
                        "usage", "observation"}
  BY <1>8 DEF Observe
<1> QED BY <1>3, <1>4, <1>5, <1>6, <1>7, <1>8

\* handle first takes the facts of the event.
Observed(q, e) == [q EXCEPT !.facts = Observe(@, e)]

LEMMA ObservedFields ==
    ASSUME NEW q \in Full, NEW e \in Event
    PROVE  LET r == Observed(q, e) IN
           /\ r \in Full /\ r.facts = Observe(q.facts, e) /\ r.st = q.st /\ r.format = q.format
           /\ r.search = q.search /\ r.calls = q.calls /\ r.started = q.started /\ r.next = q.next
           /\ r.cur = q.cur /\ r.buf = q.buf /\ r.body = q.body /\ r.out = q.out
<1> DEFINE r == Observed(q, e)
           facts == Observe(q.facts, e)
<1>1. q \in Proj /\ q.next # NoIndex /\ q.facts \in Facts
  BY FullFields
<1>2. r = [q EXCEPT !.facts = facts]
  BY <1>1 DEF Observed, Proj
<1>3. facts \in Facts
  BY <1>1, ObservedType
<1> HIDE DEF r, facts
<1>4. r \in Proj
  BY <1>1, <1>2, <1>3 DEF Proj
<1>5. /\ r.facts = facts /\ r.st = q.st /\ r.format = q.format
      /\ r.search = q.search /\ r.calls = q.calls /\ r.started = q.started /\ r.next = q.next
      /\ r.cur = q.cur /\ r.buf = q.buf /\ r.body = q.body /\ r.out = q.out
  BY <1>1, <1>2 DEF Proj
<1> QED BY <1>1, <1>4, <1>5 DEF Full, r, facts

-----------------------------------------------------------------------------
(***************************************************************************)
(* What a projection writes depends on everything but what it has written  *)
(* before: two that differ in their chunks only stay so.                   *)
(***************************************************************************)
Twin(q, r) ==
    /\ q \in Full /\ r \in Full /\ Rest(r, q) /\ r.started = q.started /\ r.next = q.next
    /\ r.cur = q.cur /\ r.buf = q.buf /\ r.body = q.body

\* Induction up to m, as the choice of a smallest counterexample.
LEMMA UpTo ==
    ASSUME NEW m \in Nat, NEW T, 0 \in T, \A n \in 1..m : n - 1 \in T => n \in T
    PROVE  \A n \in 0..m : n \in T
<1> DEFINE Bad == {n \in 0..m : n \notin T}
<1> SUFFICES ASSUME Bad # {} PROVE FALSE
  OBVIOUS
<1>1. PICK k \in Bad : \A l \in Bad : k <= l
  <2>1. Bad \in SUBSET Nat
    OBVIOUS
  <2> HIDE DEF Bad
  <2> QED BY <2>1, LeastExists
<1>2. k \in 1..m /\ k - 1 \in 0..m
  <2>1. k \in 0..m /\ k # 0
    OBVIOUS
  <2> QED BY <2>1
<1>3. k - 1 \notin Bad
  <2> HIDE DEF Bad
  <2> QED BY <1>1, <1>2
<1> QED BY <1>2, <1>3

LEMMA TwinFields ==
    ASSUME NEW q, NEW r, Twin(q, r)
    PROVE  /\ q \in Full /\ r \in Full /\ r.format = q.format /\ r.st = q.st /\ r.calls = q.calls
           /\ r.search = q.search /\ r.facts = q.facts /\ r.started = q.started /\ r.next = q.next
           /\ r.cur = q.cur /\ r.buf = q.buf /\ r.body = q.body
BY DEF Twin, Rest

LEMMA StartTwin ==
    ASSUME NEW q, NEW r, Twin(q, r)
    PROVE  Twin(Start(q), Start(r))
<1> DEFINE x == Start(q)
           y == Start(r)
<1>1. q \in Full /\ r \in Full
  BY TwinFields
<1>2. /\ x \in Full /\ Rest(x, q) /\ x.started = TRUE /\ x.next = q.next /\ x.cur = q.cur
      /\ x.buf = q.buf /\ x.body = q.body
  BY <1>1, StartFields
<1>3. /\ y \in Full /\ Rest(y, r) /\ y.started = TRUE /\ y.next = r.next /\ y.cur = r.cur
      /\ y.buf = r.buf /\ y.body = r.body
  BY <1>1, StartFields
<1> HIDE DEF x, y
<1>4. Twin(x, y)
  BY <1>2, <1>3, TwinFields DEF Twin, Rest
<1> QED BY <1>4 DEF x, y

LEMMA BufferedTwin ==
    ASSUME NEW q, NEW r, Twin(q, r), NEW kind \in Blocks, NEW text \in Pieces
    PROVE  Twin(Buffered(q, kind, text), Buffered(r, kind, text))
<1> DEFINE x == Buffered(q, kind, text)
           y == Buffered(r, kind, text)
<1>1. q \in Full /\ r \in Full
  BY TwinFields
<1>2. /\ x \in Full /\ Rest(x, q) /\ x.started = q.started /\ x.next = q.next /\ x.cur = q.cur
      /\ x.buf = [q.buf EXCEPT ![kind] = @ \o text] /\ x.body = q.body
  BY <1>1, BufferedFields
<1>3. /\ y \in Full /\ Rest(y, r) /\ y.started = r.started /\ y.next = r.next /\ y.cur = r.cur
      /\ y.buf = [r.buf EXCEPT ![kind] = @ \o text] /\ y.body = r.body
  BY ZenonT(60), <1>1, BufferedFields
<1> HIDE DEF x, y
<1>4. Twin(x, y)
  BY <1>2, <1>3, TwinFields DEF Twin, Rest
<1> QED BY <1>4 DEF x, y

LEMMA DroppedTwin ==
    ASSUME NEW q, NEW r, Twin(q, r), NEW kind \in Blocks
    PROVE  Twin([q EXCEPT !.buf[kind] = <<>>], [r EXCEPT !.buf[kind] = <<>>])
<1> DEFINE x == [q EXCEPT !.buf[kind] = <<>>]
           y == [r EXCEPT !.buf[kind] = <<>>]
<1>1. q \in Full /\ r \in Full
  BY TwinFields
<1>2. /\ x \in Full /\ Rest(x, q) /\ x.started = q.started /\ x.next = q.next /\ x.cur = q.cur
      /\ x.buf = [q.buf EXCEPT ![kind] = <<>>] /\ x.body = q.body
  BY <1>1, DroppedFields
<1>3. /\ y \in Full /\ Rest(y, r) /\ y.started = r.started /\ y.next = r.next /\ y.cur = r.cur
      /\ y.buf = [r.buf EXCEPT ![kind] = <<>>] /\ y.body = r.body
  BY <1>1, DroppedFields
<1> HIDE DEF x, y
<1>4. Twin(x, y)
  BY <1>2, <1>3, TwinFields DEF Twin, Rest
<1> QED BY <1>4 DEF x, y

LEMMA CloseBlockTwin ==
    ASSUME NEW q, NEW r, Twin(q, r), NEW kind \in Blocks
    PROVE  Twin(CloseBlock(q, kind), CloseBlock(r, kind))
<1>1. CASE q.cur[kind] = NoIndex
  BY <1>1 DEF Twin, CloseBlock
<1>2. CASE q.cur[kind] # NoIndex
  <2> DEFINE x == CloseBlock(q, kind)
             y == CloseBlock(r, kind)
  <2>1. q \in Full /\ r \in Full /\ r.cur[kind] # NoIndex
    BY <1>2, TwinFields
  <2>2. /\ x \in Full /\ Rest(x, q) /\ x.started = q.started /\ x.next = q.next
        /\ x.cur = [q.cur EXCEPT ![kind] = NoIndex] /\ x.buf = [q.buf EXCEPT ![kind] = <<>>]
        /\ x.body = Append(q.body, [i |-> q.cur[kind], kind |-> kind, text |-> q.buf[kind]])
    BY <1>2, <2>1, CloseBlockFields
  <2>3. /\ y \in Full /\ Rest(y, r) /\ y.started = r.started /\ y.next = r.next
        /\ y.cur = [r.cur EXCEPT ![kind] = NoIndex] /\ y.buf = [r.buf EXCEPT ![kind] = <<>>]
        /\ y.body = Append(r.body, [i |-> r.cur[kind], kind |-> kind, text |-> r.buf[kind]])
    BY <1>2, <2>1, CloseBlockFields
  <2> HIDE DEF x, y
  <2>4. Twin(x, y)
    BY <2>2, <2>3, TwinFields DEF Twin, Rest
  <2> QED BY <2>4 DEF x, y
<1> QED BY <1>1, <1>2

LEMMA CloseBothTwin ==
    ASSUME NEW q, NEW r, Twin(q, r)
    PROVE  Twin(CloseBoth(q), CloseBoth(r))
<1>1. "text" \in Blocks /\ "thinking" \in Blocks
  BY BlockKinds
<1> QED BY <1>1, CloseBlockTwin DEF CloseBoth

LEMMA EnsureTwin ==
    ASSUME NEW q, NEW r, Twin(q, r), NEW kind \in Blocks
    PROVE  Twin(Ensure(q, kind), Ensure(r, kind))
<1>1. CASE q.cur[kind] # NoIndex
  BY <1>1 DEF Twin, Ensure
<1>2. CASE q.cur[kind] = NoIndex
  <2> DEFINE x == Ensure(q, kind)
             y == Ensure(r, kind)
  <2>1. q \in Full /\ r \in Full /\ r.cur[kind] = NoIndex
    BY <1>2, TwinFields
  <2>2. /\ x \in Full /\ Rest(x, q) /\ x.started = q.started /\ x.next = q.next + 1
        /\ x.cur = [q.cur EXCEPT ![kind] = q.next] /\ x.buf = q.buf /\ x.body = q.body
    BY <1>2, <2>1, EnsureFields
  <2>3. /\ y \in Full /\ Rest(y, r) /\ y.started = r.started /\ y.next = r.next + 1
        /\ y.cur = [r.cur EXCEPT ![kind] = r.next] /\ y.buf = r.buf /\ y.body = r.body
    BY <1>2, <2>1, EnsureFields
  <2> HIDE DEF x, y
  <2>4. Twin(x, y)
    BY <2>2, <2>3, TwinFields DEF Twin, Rest
  <2> QED BY <2>4 DEF x, y
<1> QED BY <1>1, <1>2

LEMMA DeltaTwin ==
    ASSUME NEW q, NEW r, Twin(q, r), NEW kind \in Blocks, NEW text \in Texts
    PROVE  Twin(Delta(q, kind, text), Delta(r, kind, text))
<1> DEFINE x == Delta(q, kind, text)
           y == Delta(r, kind, text)
<1>1. q \in Full /\ r \in Full
  BY TwinFields
<1>2. /\ x \in Full /\ Rest(x, q) /\ x.started = q.started /\ x.next = q.next /\ x.cur = q.cur
      /\ x.buf = q.buf /\ x.body = q.body
  BY <1>1, DeltaFields
<1>3. /\ y \in Full /\ Rest(y, r) /\ y.started = r.started /\ y.next = r.next /\ y.cur = r.cur
      /\ y.buf = r.buf /\ y.body = r.body
  BY <1>1, DeltaFields
<1> HIDE DEF x, y
<1>4. Twin(x, y)
  BY <1>2, <1>3, TwinFields DEF Twin, Rest
<1> QED BY <1>4 DEF x, y

LEMMA WholeItemTwin ==
    ASSUME NEW q, NEW r, Twin(q, r), NEW kind \in Kinds, NEW text \in Pieces
    PROVE  Twin(WholeItem(q, kind, text), WholeItem(r, kind, text))
<1> DEFINE x == WholeItem(q, kind, text)
           y == WholeItem(r, kind, text)
<1>1. q \in Full /\ r \in Full
  BY TwinFields
<1>2. /\ x \in Full /\ Rest(x, q) /\ x.started = q.started /\ x.next = q.next + 1 /\ x.cur = q.cur
      /\ x.buf = q.buf /\ x.body = Append(q.body, [i |-> q.next, kind |-> kind, text |-> text])
  BY <1>1, WholeItemFields
<1>3. /\ y \in Full /\ Rest(y, r) /\ y.started = r.started /\ y.next = r.next + 1 /\ y.cur = r.cur
      /\ y.buf = r.buf /\ y.body = Append(r.body, [i |-> r.next, kind |-> kind, text |-> text])
  BY <1>1, WholeItemFields
<1> HIDE DEF x, y
<1>4. Twin(x, y)
  BY <1>2, <1>3, TwinFields DEF Twin, Rest
<1> QED BY <1>4 DEF x, y

LEMMA NotedTwin ==
    ASSUME NEW q, NEW r, Twin(q, r), NEW h \in Hosted
    PROVE  Twin([q EXCEPT !.search[h] = q.next], [r EXCEPT !.search[h] = r.next])
<1> DEFINE x == [q EXCEPT !.search[h] = q.next]
           y == [r EXCEPT !.search[h] = r.next]
<1>1. q \in Full /\ r \in Full
  BY TwinFields
<1>2. /\ x \in Full /\ x.search = [q.search EXCEPT ![h] = q.next]
      /\ x.format = q.format /\ x.st = q.st /\ x.calls = q.calls /\ x.facts = q.facts
      /\ x.started = q.started /\ x.next = q.next /\ x.cur = q.cur /\ x.buf = q.buf /\ x.body = q.body
  BY <1>1, NotedFields
<1>3. /\ y \in Full /\ y.search = [r.search EXCEPT ![h] = r.next]
      /\ y.format = r.format /\ y.st = r.st /\ y.calls = r.calls /\ y.facts = r.facts
      /\ y.started = r.started /\ y.next = r.next /\ y.cur = r.cur /\ y.buf = r.buf /\ y.body = r.body
  BY <1>1, NotedFields
<1> HIDE DEF x, y
<1>4. Twin(x, y)
  BY <1>2, <1>3, TwinFields DEF Twin, Rest
<1> QED BY <1>4 DEF x, y

LEMMA OpenItemTwin ==
    ASSUME NEW q, NEW r, Twin(q, r), NEW kind \in Kinds, NEW text \in Pieces
    PROVE  Twin(OpenItem(q, kind, text), OpenItem(r, kind, text))
<1> DEFINE x == OpenItem(q, kind, text)
           y == OpenItem(r, kind, text)
<1>1. q \in Full /\ r \in Full
  BY TwinFields
<1>2. /\ x \in Full /\ Rest(x, q) /\ x.started = q.started /\ x.next = q.next + 1
      /\ x.cur = q.cur /\ x.buf = q.buf /\ x.body = q.body
  BY <1>1, OpenItemFields
<1>3. /\ y \in Full /\ Rest(y, r) /\ y.started = r.started /\ y.next = r.next + 1
      /\ y.cur = r.cur /\ y.buf = r.buf /\ y.body = r.body
  BY <1>1, OpenItemFields
<1> HIDE DEF x, y
<1>4. Twin(x, y)
  BY <1>2, <1>3, TwinFields DEF Twin, Rest
<1> QED BY <1>4 DEF x, y

LEMMA StoredTwin ==
    ASSUME NEW q, NEW r, Twin(q, r), NEW i \in Nat, NEW kind \in Kinds, NEW text \in Pieces
    PROVE  Twin(CloseItem(Store(q, i, kind, text), i), CloseItem(Store(r, i, kind, text), i))
<1> DEFINE x == CloseItem(Store(q, i, kind, text), i)
           y == CloseItem(Store(r, i, kind, text), i)
<1>1. q \in Full /\ r \in Full
  BY TwinFields
<1>2. /\ x \in Full /\ Rest(x, q) /\ x.started = q.started /\ x.next = q.next /\ x.cur = q.cur
      /\ x.buf = q.buf /\ x.body = Append(q.body, [i |-> i, kind |-> kind, text |-> text])
  BY ZenonT(60), <1>1, StoredFields
<1>3. /\ y \in Full /\ Rest(y, r) /\ y.started = r.started /\ y.next = r.next /\ y.cur = r.cur
      /\ y.buf = r.buf /\ y.body = Append(r.body, [i |-> i, kind |-> kind, text |-> text])
  BY ZenonT(60), <1>1, StoredFields
<1> HIDE DEF x, y
<1>4. Twin(x, y)
  BY <1>2, <1>3, TwinFields DEF Twin, Rest
<1> QED BY <1>4 DEF x, y

LEMMA EndTwin ==
    ASSUME NEW q, NEW r, Twin(q, r), NEW st \in {"done", "parked", "failed"}, NEW k \in {"end", "error"}
    PROVE  Twin(Ending(q, st, k), Ending(r, st, k))
<1> DEFINE x == Ending(q, st, k)
           y == Ending(r, st, k)
<1>1. q \in Full /\ r \in Full
  BY TwinFields
<1>2. /\ x \in Full /\ x.st = st /\ x.format = q.format /\ x.calls = q.calls
      /\ x.search = q.search /\ x.facts = q.facts /\ x.started = q.started /\ x.next = q.next
      /\ x.cur = q.cur /\ x.buf = q.buf /\ x.body = q.body
  BY <1>1, EndFields
<1>3. /\ y \in Full /\ y.st = st /\ y.format = r.format /\ y.calls = r.calls
      /\ y.search = r.search /\ y.facts = r.facts /\ y.started = r.started /\ y.next = r.next
      /\ y.cur = r.cur /\ y.buf = r.buf /\ y.body = r.body
  BY <1>1, EndFields
<1> HIDE DEF x, y
<1>4. Twin(x, y)
  BY <1>2, <1>3, TwinFields DEF Twin, Rest
<1> QED BY <1>4 DEF x, y

\* The loop of toolHandoff.
LEMMA HandOverSteps ==
    ASSUME NEW q, NEW calls \in Seq(CallEvent)
    PROVE  \E f : /\ HandOver(q, calls) = f[Len(calls)] /\ f[0] = q
                  /\ \A n \in 1..Len(calls) : f[n] = WholeItem(f[n - 1], "call", <<calls[n].c>>)
<1> DEFINE f == CHOOSE g : Written(g, q, calls, Len(calls))
<1>1. Len(calls) \in Nat
  OBVIOUS
<1>2. HandOver(q, calls) = f[Len(calls)]
  BY DEF HandOver, Written
<1>3. Written(f, q, calls, Len(calls))
  BY <1>1, WrittenExists
<1> HIDE DEF f
<1>4. \A n \in 0..Len(calls) : f[n] = IF n = 0 THEN q ELSE WholeItem(f[n - 1], "call", <<calls[n].c>>)
  BY <1>3 DEF Written
<1>5. f[0] = q
  <2>1. 0 \in 0..Len(calls)
    BY <1>1
  <2> QED BY <1>4, <2>1
<1>6. ASSUME NEW n \in 1..Len(calls)
      PROVE  f[n] = WholeItem(f[n - 1], "call", <<calls[n].c>>)
  BY <1>1, <1>4
<1> QED BY <1>2, <1>5, <1>6

LEMMA CallPieces ==
    ASSUME NEW calls \in Seq(CallEvent), NEW n \in 1..Len(calls)
    PROVE  <<calls[n].c>> \in Pieces /\ "call" \in Kinds
<1>1. calls[n] \in CallEvent
  OBVIOUS
<1> QED BY <1>1 DEF CallEvent, Pieces, Kinds

LEMMA HandOverTwin ==
    ASSUME NEW q, NEW r, Twin(q, r), NEW calls \in Seq(CallEvent)
    PROVE  Twin(HandOver(q, calls), HandOver(r, calls))
<1>1. PICK f : /\ HandOver(q, calls) = f[Len(calls)] /\ f[0] = q
               /\ \A n \in 1..Len(calls) : f[n] = WholeItem(f[n - 1], "call", <<calls[n].c>>)
  BY HandOverSteps
<1>2. PICK g : /\ HandOver(r, calls) = g[Len(calls)] /\ g[0] = r
               /\ \A n \in 1..Len(calls) : g[n] = WholeItem(g[n - 1], "call", <<calls[n].c>>)
  BY HandOverSteps
<1> DEFINE T == {n \in 0..Len(calls) : Twin(f[n], g[n])}
<1>3. Len(calls) \in Nat
  OBVIOUS
<1>4. 0 \in T
  BY <1>1, <1>2, <1>3
<1>5. ASSUME NEW n \in 1..Len(calls), n - 1 \in T PROVE n \in T
  <2>1. Twin(f[n - 1], g[n - 1])
    BY <1>5
  <2>2. Twin(WholeItem(f[n - 1], "call", <<calls[n].c>>), WholeItem(g[n - 1], "call", <<calls[n].c>>))
    BY <2>1, CallPieces, WholeItemTwin
  <2>3. Twin(f[n], g[n])
    BY <1>1, <1>2, <2>2
  <2>4. n \in 0..Len(calls)
    BY <1>3
  <2> QED BY <2>3, <2>4
<1>6. Len(calls) \in T
  <2> HIDE DEF T
  <2>1. \A n \in 0..Len(calls) : n \in T
    BY <1>3, <1>4, <1>5, UpTo
  <2> QED BY <1>3, <2>1
<1>7. Twin(f[Len(calls)], g[Len(calls)])
  BY <1>6
<1> QED BY <1>1, <1>2, <1>7

LEMMA OnTextTwin ==
    ASSUME NEW q, NEW r, Twin(q, r), NEW e \in TextEvent
    PROVE  Twin(OnText(q, e), OnText(r, e))
<1>1. e.text \in Texts /\ e.text \in Pieces /\ "text" \in Blocks /\ "thinking" \in Blocks
  BY BlockKinds DEF TextEvent, Texts
<1>2. Twin(Buffered(q, "text", e.text), Buffered(r, "text", e.text))
  BY <1>1, BufferedTwin
<1>3. Twin(Start(Buffered(q, "text", e.text)), Start(Buffered(r, "text", e.text)))
  BY <1>2, StartTwin
<1>4. Twin(CloseBlock(Start(Buffered(q, "text", e.text)), "thinking"),
           CloseBlock(Start(Buffered(r, "text", e.text)), "thinking"))
  BY <1>1, <1>3, CloseBlockTwin
<1>5. Twin(Ensure(CloseBlock(Start(Buffered(q, "text", e.text)), "thinking"), "text"),
           Ensure(CloseBlock(Start(Buffered(r, "text", e.text)), "thinking"), "text"))
  BY <1>1, <1>4, EnsureTwin
<1> QED BY <1>1, <1>5, DeltaTwin DEF OnText

LEMMA OnThinkingTwin ==
    ASSUME NEW q, NEW r, Twin(q, r), NEW e \in ThinkingEvent
    PROVE  Twin(OnThinking(q, e), OnThinking(r, e))
<1>1. e.text \in Texts /\ e.text \in Pieces /\ "text" \in Blocks /\ "thinking" \in Blocks
  BY BlockKinds DEF ThinkingEvent, Texts
<1>2. Twin(Buffered(q, "thinking", e.text), Buffered(r, "thinking", e.text))
  BY <1>1, BufferedTwin
<1>3. Twin(Start(Buffered(q, "thinking", e.text)), Start(Buffered(r, "thinking", e.text)))
  BY <1>2, StartTwin
<1>4. Twin(CloseBlock(Start(Buffered(q, "thinking", e.text)), "text"),
           CloseBlock(Start(Buffered(r, "thinking", e.text)), "text"))
  BY <1>1, <1>3, CloseBlockTwin
<1>5. Twin(Ensure(CloseBlock(Start(Buffered(q, "thinking", e.text)), "text"), "thinking"),
           Ensure(CloseBlock(Start(Buffered(r, "thinking", e.text)), "text"), "thinking"))
  BY <1>1, <1>4, EnsureTwin
<1>6. Twin(Delta(Ensure(CloseBlock(Start(Buffered(q, "thinking", e.text)), "text"), "thinking"), "thinking", e.text),
           Delta(Ensure(CloseBlock(Start(Buffered(r, "thinking", e.text)), "text"), "thinking"), "thinking", e.text))
  BY <1>1, <1>5, DeltaTwin
<1> QED BY <1>2, <1>6, TwinFields DEF OnThinking

LEMMA OnThinkingCompletedTwin ==
    ASSUME NEW q, NEW r, Twin(q, r), NEW e \in CompletedEvent
    PROVE  Twin(OnThinkingCompleted(q, e), OnThinkingCompleted(r, e))
<1> DEFINE x == [q EXCEPT !.buf["thinking"] = <<>>]
           y == [r EXCEPT !.buf["thinking"] = <<>>]
<1>1. "text" \in Blocks /\ "thinking" \in Blocks /\ "thinking" \in Kinds /\ r.format = q.format /\ r.buf = q.buf
  BY BlockKinds, TwinFields
<1>2. q.buf["thinking"] \in Pieces
  BY <1>1, TwinFields, FullFields
<1>3. Twin(x, y)
  BY <1>1, DroppedTwin
<1> HIDE DEF x, y
<1>4. Twin(CloseBlock(q, "thinking"), CloseBlock(r, "thinking"))
  BY <1>1, CloseBlockTwin
<1>5. Twin(CloseBlock(Start(x), "text"), CloseBlock(Start(y), "text"))
  BY <1>1, <1>3, StartTwin, CloseBlockTwin
<1>6. Twin(WholeItem(CloseBlock(Start(x), "text"), "thinking", q.buf["thinking"]),
           WholeItem(CloseBlock(Start(y), "text"), "thinking", q.buf["thinking"]))
  BY <1>1, <1>2, <1>5, WholeItemTwin
<1> QED BY <1>1, <1>3, <1>4, <1>6 DEF OnThinkingCompleted, x, y

LEMMA OnSearchStartedTwin ==
    ASSUME NEW q, NEW r, Twin(q, r), NEW e \in SearchEvent
    PROVE  Twin(OnSearchStarted(q, e), OnSearchStarted(r, e))
<1> DEFINE x == CloseBoth(Start(q))
           y == CloseBoth(Start(r))
           xn == [x EXCEPT !.search[e.h] = x.next]
           yn == [y EXCEPT !.search[e.h] = y.next]
<1>1. e.h \in Hosted /\ "search" \in Kinds /\ <<>> \in Pieces /\ r.search = q.search /\ r.format = q.format
  BY BlockKinds, TwinFields DEF SearchEvent, Kinds
<1>2. Twin(x, y)
  BY StartTwin, CloseBothTwin
<1> HIDE DEF x, y
<1>3. Twin(xn, yn)
  BY <1>1, <1>2, NotedTwin
<1> HIDE DEF xn, yn
<1>4. Twin(OpenItem(xn, "search", <<>>), OpenItem(yn, "search", <<>>))
  BY <1>1, <1>3, OpenItemTwin
<1>5. Twin(WholeItem(xn, "search", <<>>), WholeItem(yn, "search", <<>>))
  BY <1>1, <1>3, WholeItemTwin
<1> QED BY <1>1, <1>4, <1>5 DEF OnSearchStarted, x, y, xn, yn

LEMMA OnSearchCompletedTwin ==
    ASSUME NEW q, NEW r, Twin(q, r), NEW e \in SearchEvent
    PROVE  Twin(OnSearchCompleted(q, e), OnSearchCompleted(r, e))
<1> DEFINE x == OnSearchStarted(q, e)
           y == OnSearchStarted(r, e)
<1>1. e.h \in Hosted /\ "search" \in Kinds /\ "result" \in Kinds /\ <<>> \in Pieces /\ r.format = q.format
  BY BlockKinds, TwinFields DEF SearchEvent, Kinds
<1>2. Twin(x, y)
  BY OnSearchStartedTwin
<1> HIDE DEF x, y
<1>3. y.search = x.search /\ x.search[e.h] \in Nat
  BY <1>1, <1>2, TwinFields, FullFields
<1>4. Twin(CloseItem(Store(x, x.search[e.h], "search", <<>>), x.search[e.h]),
           CloseItem(Store(y, x.search[e.h], "search", <<>>), x.search[e.h]))
  BY <1>1, <1>2, <1>3, StoredTwin
<1>5. Twin(WholeItem(x, "result", <<>>), WholeItem(y, "result", <<>>))
  BY <1>1, <1>2, WholeItemTwin
<1> QED BY <1>1, <1>3, <1>4, <1>5 DEF OnSearchCompleted, x, y

LEMMA HandoffTwin ==
    ASSUME NEW q, NEW r, Twin(q, r), NEW st \in {"done", "parked"}
    PROVE  Twin(Handoff(q, st), Handoff(r, st))
<1> DEFINE x == CloseBoth(Start(q))
           y == CloseBoth(Start(r))
<1>1. r.calls = q.calls /\ r.format = q.format /\ q.calls \in Seq(CallEvent)
  BY TwinFields, FullFields
<1>2. Twin(Reject(q), Reject(r))
  BY EndTwin DEF Reject, Ending
<1>3. Twin(x, y)
  BY StartTwin, CloseBothTwin
<1> HIDE DEF x, y
<1>4. Twin(HandOver(x, q.calls), HandOver(y, q.calls))
  BY <1>1, <1>3, HandOverTwin
<1>5. Twin(Finish(HandOver(x, q.calls), st), Finish(HandOver(y, q.calls), st))
  BY <1>4, EndTwin DEF Finish, Ending
<1> QED BY <1>1, <1>2, <1>5 DEF Handoff, x, y

LEMMA OnDoneTwin ==
    ASSUME NEW q, NEW r, Twin(q, r)
    PROVE  Twin(OnDone(q), OnDone(r))
<1>1. r.calls = q.calls /\ r.format = q.format
  BY TwinFields
<1>2. Twin(Handoff(q, "done"), Handoff(r, "done"))
  BY HandoffTwin
<1>3. Twin(Finish(CloseBoth(Start(q)), "done"), Finish(CloseBoth(Start(r)), "done"))
  BY StartTwin, CloseBothTwin, EndTwin DEF Finish, Ending
<1> QED BY <1>1, <1>2, <1>3 DEF OnDone

LEMMA EventKinds ==
    ASSUME NEW e \in Event
    PROVE  /\ e.t \in {"text", "thinking", "thinkingCompleted", "searchStarted", "searchCompleted", "call",
                       "usage", "observation", "turnEnded", "done"}
           /\ e.t = "text" => e \in TextEvent
           /\ e.t = "thinking" => e \in ThinkingEvent
           /\ e.t = "thinkingCompleted" => e \in CompletedEvent
           /\ e.t \in {"searchStarted", "searchCompleted"} => e \in SearchEvent
           /\ e.t = "call" => e \in CallEvent
           /\ e.t \in {"usage", "observation"} => e \in UsageEvent
BY DEF Event, TextEvent, ThinkingEvent, CompletedEvent, SearchEvent, CallEvent, UsageEvent, LastEvent

LEMMA HandleUnfolds ==
    ASSUME NEW q, NEW e \in Event
    PROVE  LET r == Observed(q, e) IN
           /\ e.t = "text" => Handle(q, e) = OnText(r, e)
           /\ e.t = "thinking" => Handle(q, e) = OnThinking(r, e)
           /\ e.t = "thinkingCompleted" => Handle(q, e) = OnThinkingCompleted(r, e)
           /\ e.t = "searchStarted" => Handle(q, e) = OnSearchStarted(r, e)
           /\ e.t = "searchCompleted" => Handle(q, e) = OnSearchCompleted(r, e)
           /\ e.t = "call" => Handle(q, e) = OnToolCall(r, e)
           /\ e.t = "turnEnded" => Handle(q, e) = Handoff(r, "parked")
           /\ e.t = "done" => Handle(q, e) = OnDone(r)
           /\ e.t \in {"usage", "observation"} => Handle(q, e) = r
BY DEF Handle, Observed

LEMMA OnToolCallTwin ==
    ASSUME NEW q, NEW r, Twin(q, r), NEW e \in CallEvent
    PROVE  Twin(OnToolCall(q, e), OnToolCall(r, e))
<1> DEFINE x == OnToolCall(q, e)
           y == OnToolCall(r, e)
<1>1. q \in Full /\ r \in Full
  BY TwinFields
<1>2. /\ x \in Full /\ x.calls = Append(q.calls, e) /\ x.st = q.st /\ x.format = q.format
      /\ x.search = q.search /\ x.facts = q.facts /\ x.started = q.started /\ x.next = q.next
      /\ x.cur = q.cur /\ x.buf = q.buf /\ x.body = q.body
  BY <1>1, ToolCallFields
<1>3. /\ y \in Full /\ y.calls = Append(r.calls, e) /\ y.st = r.st /\ y.format = r.format
      /\ y.search = r.search /\ y.facts = r.facts /\ y.started = r.started /\ y.next = r.next
      /\ y.cur = r.cur /\ y.buf = r.buf /\ y.body = r.body
  BY <1>1, ToolCallFields
<1> HIDE DEF x, y
<1>4. Twin(x, y)
  BY <1>2, <1>3, TwinFields DEF Twin, Rest
<1> QED BY <1>4 DEF x, y

LEMMA HandleTwin ==
    ASSUME NEW q, NEW r, Twin(q, r), NEW e \in Event
    PROVE  Twin(Handle(q, e), Handle(r, e))
<1> DEFINE x == Observed(q, e)
           y == Observed(r, e)
<1>1. Twin(x, y)
  <2>1. q \in Full /\ r \in Full
    BY TwinFields
  <2>2. /\ x \in Full /\ x.facts = Observe(q.facts, e) /\ x.st = q.st /\ x.format = q.format
        /\ x.search = q.search /\ x.calls = q.calls /\ x.started = q.started /\ x.next = q.next
        /\ x.cur = q.cur /\ x.buf = q.buf /\ x.body = q.body
    BY <2>1, ObservedFields
  <2>3. /\ y \in Full /\ y.facts = Observe(r.facts, e) /\ y.st = r.st /\ y.format = r.format
        /\ y.search = r.search /\ y.calls = r.calls /\ y.started = r.started /\ y.next = r.next
        /\ y.cur = r.cur /\ y.buf = r.buf /\ y.body = r.body
    BY <2>1, ObservedFields
  <2> HIDE DEF x, y
  <2> QED BY <2>2, <2>3, TwinFields DEF Twin, Rest
<1> HIDE DEF x, y
<1>2. e.t = "call" => Twin(OnToolCall(x, e), OnToolCall(y, e))
  BY <1>1, EventKinds, OnToolCallTwin
<1>3. e.t = "text" => Twin(OnText(x, e), OnText(y, e))
  BY <1>1, EventKinds, OnTextTwin
<1>4. e.t = "thinking" => Twin(OnThinking(x, e), OnThinking(y, e))
  BY <1>1, EventKinds, OnThinkingTwin
<1>5. e.t = "thinkingCompleted" => Twin(OnThinkingCompleted(x, e), OnThinkingCompleted(y, e))
  BY <1>1, EventKinds, OnThinkingCompletedTwin
<1>6. e.t = "searchStarted" => Twin(OnSearchStarted(x, e), OnSearchStarted(y, e))
  BY <1>1, EventKinds, OnSearchStartedTwin
<1>7. e.t = "searchCompleted" => Twin(OnSearchCompleted(x, e), OnSearchCompleted(y, e))
  BY <1>1, EventKinds, OnSearchCompletedTwin
<1>8. Twin(Handoff(x, "parked"), Handoff(y, "parked")) /\ Twin(OnDone(x), OnDone(y))
  BY <1>1, HandoffTwin, OnDoneTwin
<1>9. e.t \in {"text", "thinking", "thinkingCompleted", "searchStarted", "searchCompleted", "call",
               "usage", "observation", "turnEnded", "done"} /\ (e.t = "call" => e \in CallEvent)
  BY EventKinds
<1> QED BY <1>1, <1>2, <1>3, <1>4, <1>5, <1>6, <1>7, <1>8, <1>9, HandleUnfolds DEF x, y

-----------------------------------------------------------------------------
(***************************************************************************)
(* Loops that are functions of the number of steps.                        *)
(***************************************************************************)
Iterates(g, S, base, m, step) ==
    g \in [0..m -> S] /\ g[0] = base /\ \A n \in 1..m : g[n] = step[n][g[n - 1]]

LEMMA IterationExists ==
    ASSUME NEW S, NEW base \in S, NEW m \in Nat, NEW step \in [1..m -> [S -> S]]
    PROVE  \E g : Iterates(g, S, base, m, step)
<1> DEFINE Steps(g, n) == g \in [0..n -> S] /\ g[0] = base /\ \A i \in 1..n : g[i] = step[i][g[i - 1]]
           T == {n \in 0..m : \E g : Steps(g, n)}
<1>1. 0 \in T
  <2>1. Steps([n \in 0..0 |-> base], 0)
    OBVIOUS
  <2> HIDE DEF Steps
  <2> QED BY <2>1
<1>2. ASSUME NEW n \in 1..m, n - 1 \in T PROVE n \in T
  <2>1. PICK g : Steps(g, n - 1)
    BY <1>2
  <2> DEFINE h == [i \in 0..n |-> IF i = n THEN step[n][g[n - 1]] ELSE g[i]]
  <2>2. /\ n \in Nat /\ n # 0 /\ n - 1 \in 0..(n - 1) /\ n - 1 \in 0..n /\ 0 \in 0..n /\ n \in 0..n
        /\ \A i \in 1..n : i # n => i \in 1..(n - 1) /\ i - 1 \in 0..(n - 1) /\ i - 1 # n /\ i - 1 \in 0..n /\ i \in 0..n
        /\ \A i \in 0..n : i # n => i \in 0..(n - 1)
    OBVIOUS
  <2>3. g \in [0..(n - 1) -> S] /\ g[n - 1] \in S /\ step[n][g[n - 1]] \in S
    BY <2>1, <2>2
  <2>4. h \in [0..n -> S]
    BY <2>2, <2>3
  <2>5. h[0] = base /\ h[n - 1] = g[n - 1]
    BY <2>1, <2>2
  <2>6. ASSUME NEW i \in 1..n PROVE h[i] = step[i][h[i - 1]]
    <3>1. CASE i = n
      <4>1. h[i] = step[i][g[n - 1]]
        BY <2>2, <3>1
      <4> HIDE DEF h
      <4> QED BY <2>5, <3>1, <4>1
    <3>2. CASE i # n
      <4>1. h[i] = g[i] /\ h[i - 1] = g[i - 1]
        BY <2>2, <3>2
      <4>2. g[i] = step[i][g[i - 1]]
        BY <2>1, <2>2, <3>2
      <4> HIDE DEF h
      <4> QED BY <4>1, <4>2
    <3> QED BY <3>1, <3>2
  <2>7. Steps(h, n)
    <3> HIDE DEF h
    <3> QED BY <2>4, <2>5, <2>6
  <2>8. n \in 0..m
    OBVIOUS
  <2> HIDE DEF Steps, h
  <2> QED BY <2>7, <2>8
<1>3. m \in T
  <2> HIDE DEF T
  <2>1. \A n \in 0..m : n \in T
    BY <1>1, <1>2, UpTo
  <2> QED BY <2>1
<1> QED BY <1>3 DEF Iterates

LEMMA HandleFull ==
    ASSUME NEW q \in Full, NEW e \in Event
    PROVE  Handle(q, e) \in Full
<1>1. Twin(q, q)
  BY DEF Twin, Rest
<1>2. Twin(Handle(q, e), Handle(q, e))
  BY <1>1, HandleTwin
<1> QED BY <1>2, TwinFields

LEMMA NewFull ==
    ASSUME NEW f \in {"claude", "chat", "responses"}
    PROVE  New(f) \in Full
<1> DEFINE q == New(f)
<1>1. q \in Proj
  <2>1. NoFacts \in Facts
    BY DEF NoFacts, Facts
  <2>2. NoIndex \in Nat /\ <<>> \in Pieces
    BY DEF NoIndex, Pieces
  <2>3. /\ [b \in Blocks |-> NoIndex] \in [Blocks -> Nat] /\ [b \in Blocks |-> <<>>] \in [Blocks -> Pieces]
        /\ [h \in Hosted |-> NoIndex] \in [Hosted -> Nat]
    BY <2>2
  <2> QED BY <2>1, <2>3 DEF New, Proj
<1>2. q.next = 1 /\ 1 # NoIndex
  BY DEF New, NoIndex
<1> HIDE DEF q
<1>3. q \in Full
  BY <1>1, <1>2 DEF Full
<1> QED BY <1>3 DEF q

\* Replay, step by step.
LEMMA ReplaySteps ==
    ASSUME NEW f \in {"claude", "chat", "responses"}, NEW ev \in Seq(Event)
    PROVE  \E g : /\ Replay(f, ev) = g[Len(ev)] /\ g[0] = New(f)
                  /\ \A n \in 1..Len(ev) : g[n] = Handle(g[n - 1], ev[n])
<1> DEFINE m == Len(ev)
           Is1(g) == g = [n \in 0..m |-> IF n = 0 THEN New(f) ELSE Handle(g[n - 1], ev[n])]
           step == [n \in 1..m |-> [q \in Full |-> Handle(q, ev[n])]]
           c == CHOOSE g : Is1(g)
<1>1. m \in Nat /\ \A n \in 1..m : ev[n] \in Event
  OBVIOUS
<1>2. Replay(f, ev) = c[m]
  BY DEF Replay
<1>3. \E g : Is1(g)
  <2>1. step \in [1..m -> [Full -> Full]]
    BY <1>1, HandleFull
  <2>2. PICK g : g \in [0..m -> Full] /\ g[0] = New(f) /\ \A n \in 1..m : g[n] = step[n][g[n - 1]]
    <3> HIDE DEF step, m
    <3>1. \E g : Iterates(g, Full, New(f), m, step)
      BY <1>1, <2>1, NewFull, IterationExists
    <3> QED BY <3>1 DEF Iterates
  <2>3. ASSUME NEW n \in 0..m PROVE g[n] = IF n = 0 THEN New(f) ELSE Handle(g[n - 1], ev[n])
    <3>1. CASE n = 0
      BY <2>2, <3>1
    <3>2. CASE n # 0
      <4>1. n \in 1..m /\ n - 1 \in 0..m
        BY <1>1, <3>2
      <4>2. g[n - 1] \in Full /\ g[n] = step[n][g[n - 1]]
        BY <2>2, <4>1
      <4>3. \A q \in Full : step[n][q] = Handle(q, ev[n])
        <5>1. step[n] = [q \in Full |-> Handle(q, ev[n])]
          BY <4>1
        <5> HIDE DEF step
        <5> QED BY <5>1
      <4> HIDE DEF step
      <4> QED BY <3>2, <4>2, <4>3
    <3> QED BY <3>1, <3>2
  <2>4. g = [n \in 0..m |-> g[n]]
    BY <2>2
  <2>5. Is1(g)
    BY <2>3, <2>4
  <2> HIDE DEF Is1
  <2> QED BY <2>5
<1>4. Is1(c)
  <2> HIDE DEF Is1
  <2> QED BY <1>3
<1> HIDE DEF c
<1>5. \A n \in 0..m : c[n] = IF n = 0 THEN New(f) ELSE Handle(c[n - 1], ev[n])
  BY <1>4
<1>6. c[0] = New(f)
  <2>1. 0 \in 0..m
    BY <1>1
  <2> QED BY <1>5, <2>1
<1>7. ASSUME NEW n \in 1..m PROVE c[n] = Handle(c[n - 1], ev[n])
  BY <1>1, <1>5
<1> QED BY <1>2, <1>6, <1>7

\* A replay of one event more.
LEMMA ReplayAppend ==
    ASSUME NEW f \in {"claude", "chat", "responses"}, NEW ev \in Seq(Event), NEW e \in Event
    PROVE  /\ Replay(f, <<>>) = New(f) /\ Replay(f, ev) \in Full
           /\ Replay(f, Append(ev, e)) = Handle(Replay(f, ev), e)
<1> DEFINE m == Len(ev)
           ev2 == Append(ev, e)
<1>1. m \in Nat /\ ev2 \in Seq(Event) /\ Len(ev2) = m + 1 /\ ev2[m + 1] = e /\ \A n \in 1..m : ev2[n] = ev[n]
  OBVIOUS
<1>2. PICK g : /\ Replay(f, ev) = g[m] /\ g[0] = New(f)
               /\ \A n \in 1..m : g[n] = Handle(g[n - 1], ev[n])
  BY ReplaySteps
<1>3. PICK h : /\ Replay(f, ev2) = h[Len(ev2)] /\ h[0] = New(f)
               /\ \A n \in 1..Len(ev2) : h[n] = Handle(h[n - 1], ev2[n])
  BY <1>1, ReplaySteps
<1> DEFINE T == {n \in 0..m : h[n] = g[n] /\ g[n] \in Full}
<1> HIDE DEF ev2
<1>4. 0 \in T
  BY <1>1, <1>2, <1>3, NewFull
<1>5. ASSUME NEW n \in 1..m, n - 1 \in T PROVE n \in T
  <2>1. h[n - 1] = g[n - 1] /\ g[n - 1] \in Full
    BY <1>5
  <2>2. n \in 1..Len(ev2) /\ ev2[n] = ev[n] /\ ev[n] \in Event /\ n \in 0..m
    BY <1>1
  <2>3. h[n] = Handle(h[n - 1], ev[n]) /\ g[n] = Handle(g[n - 1], ev[n])
    BY <1>2, <1>3, <2>2
  <2> QED BY <2>1, <2>2, <2>3, HandleFull
<1>6. m \in T
  <2> HIDE DEF T
  <2>1. \A n \in 0..m : n \in T
    BY <1>1, <1>4, <1>5, UpTo
  <2> QED BY <1>1, <2>1
<1>7. h[m] = g[m] /\ g[m] \in Full
  BY <1>6
<1>8. h[m + 1] = Handle(h[m], e)
  <2>1. m + 1 \in 1..Len(ev2) /\ (m + 1) - 1 = m
    BY <1>1
  <2> QED BY <1>1, <1>3, <2>1
<1>9. Replay(f, <<>>) = New(f)
  <2>1. <<>> \in Seq(Event) /\ Len(<<>>) = 0
    OBVIOUS
  <2>2. PICK x \in Seq(Event) : x = <<>>
    BY <2>1
  <2>3. PICK k : /\ Replay(f, x) = k[Len(x)] /\ k[0] = New(f)
                 /\ \A n \in 1..Len(x) : k[n] = Handle(k[n - 1], x[n])
    BY ReplaySteps
  <2> QED BY <2>1, <2>2, <2>3
<1> QED BY <1>1, <1>2, <1>3, <1>7, <1>8, <1>9 DEF ev2

-----------------------------------------------------------------------------
(***************************************************************************)
(* Combining the events of a snapshot: one event of two pieces does what   *)
(* two events of one piece do.                                             *)
(***************************************************************************)
\* OnText, and OnThinking outside Claude.
Write(q, kind, other, text) ==
    Delta(Ensure(CloseBlock(Start(Buffered(q, kind, text)), other), kind), kind, text)

Between(kind, other) == kind \in Blocks /\ other \in Blocks /\ kind # other

Wrote(r, q, kind, other, text) ==
    /\ r \in Full /\ Rest(r, q) /\ r.started = TRUE
    /\ r.next = (IF q.cur[kind] = NoIndex THEN q.next + 1 ELSE q.next)
    /\ r.cur[kind] = (IF q.cur[kind] = NoIndex THEN q.next ELSE q.cur[kind])
    /\ r.cur[other] = NoIndex
    /\ r.buf[kind] = q.buf[kind] \o text
    /\ r.buf[other] = (IF q.cur[other] = NoIndex THEN q.buf[other] ELSE <<>>)
    /\ r.body = (IF q.cur[other] = NoIndex THEN q.body
                 ELSE Append(q.body, [i |-> q.cur[other], kind |-> other, text |-> q.buf[other]]))

LEMMA WriteFields ==
    ASSUME NEW q \in Full, NEW kind, NEW other, Between(kind, other), NEW text \in Texts
    PROVE  Wrote(Write(q, kind, other, text), q, kind, other, text)
<1> DEFINE a == Buffered(q, kind, text)
           b == Start(a)
           c == CloseBlock(b, other)
           d == Ensure(c, kind)
           r == Delta(d, kind, text)
<1>1. kind \in Blocks /\ other \in Blocks /\ kind # other /\ text \in Pieces
  BY DEF Between, Texts
<1>2. /\ a \in Full /\ Rest(a, q) /\ a.next = q.next /\ a.cur = q.cur
      /\ a.buf = [q.buf EXCEPT ![kind] = @ \o text] /\ a.body = q.body
  BY <1>1, BufferedFields
<1> HIDE DEF a
<1>3. /\ b \in Full /\ Rest(b, a) /\ b.started = TRUE /\ b.next = a.next /\ b.cur = a.cur
      /\ b.buf = a.buf /\ b.body = a.body
  BY <1>2, StartFields
<1> HIDE DEF b
<1>4. b.cur[other] = NoIndex => c = b
  BY DEF CloseBlock
<1>5. b.cur[other] # NoIndex =>
         /\ c \in Full /\ Rest(c, b) /\ c.started = b.started /\ c.next = b.next
         /\ c.cur = [b.cur EXCEPT ![other] = NoIndex] /\ c.buf = [b.buf EXCEPT ![other] = <<>>]
         /\ c.body = Append(b.body, [i |-> b.cur[other], kind |-> other, text |-> b.buf[other]])
  BY <1>1, <1>3, CloseBlockFields
<1> HIDE DEF c
<1>6. c \in Full
  BY <1>3, <1>4, <1>5
<1>7. c.cur[kind] # NoIndex => d = c
  BY DEF Ensure
<1>8. c.cur[kind] = NoIndex =>
         /\ d \in Full /\ Rest(d, c) /\ d.started = c.started /\ d.next = c.next + 1
         /\ d.cur = [c.cur EXCEPT ![kind] = c.next] /\ d.buf = c.buf /\ d.body = c.body
  BY <1>1, <1>6, EnsureFields
<1> HIDE DEF d
<1>9. d \in Full
  BY <1>6, <1>7, <1>8
<1>10. /\ r \in Full /\ Rest(r, d) /\ r.started = d.started /\ r.next = d.next /\ r.cur = d.cur
       /\ r.buf = d.buf /\ r.body = d.body
  BY <1>1, <1>9, DeltaFields
<1>11. r = Write(q, kind, other, text)
  BY DEF Write, a, b, c, d
<1> HIDE DEF r
<1>12. q.cur \in [Blocks -> Nat] /\ q.buf \in [Blocks -> Pieces] /\ b.cur \in [Blocks -> Nat] /\ b.buf \in [Blocks -> Pieces]
  BY <1>3, FullFields
<1>13. /\ b.cur = q.cur /\ b.next = q.next /\ b.body = q.body /\ Rest(b, q)
       /\ b.buf[kind] = q.buf[kind] \o text /\ b.buf[other] = q.buf[other]
  BY <1>1, <1>2, <1>3, <1>12 DEF Rest
<1>14. /\ Rest(c, q) /\ c.started = TRUE /\ c.next = q.next /\ c.cur[other] = NoIndex /\ c.cur[kind] = q.cur[kind]
       /\ c.buf[kind] = q.buf[kind] \o text
       /\ c.buf[other] = (IF q.cur[other] = NoIndex THEN q.buf[other] ELSE <<>>)
       /\ c.body = (IF q.cur[other] = NoIndex THEN q.body
                    ELSE Append(q.body, [i |-> q.cur[other], kind |-> other, text |-> q.buf[other]]))
  <2>1. CASE b.cur[other] = NoIndex
    BY <1>3, <1>4, <1>13, <2>1
  <2>2. CASE b.cur[other] # NoIndex
    <3>1. /\ c.cur[other] = NoIndex /\ c.cur[kind] = b.cur[kind]
          /\ c.buf[kind] = b.buf[kind] /\ c.buf[other] = <<>>
      BY <1>1, <1>5, <1>12, <2>2
    <3>2. Rest(c, q)
      BY <1>5, <1>13, <2>2 DEF Rest
    <3> QED BY <1>3, <1>5, <1>13, <2>2, <3>1, <3>2
  <2> QED BY <2>1, <2>2
<1>15. c.cur \in [Blocks -> Nat] /\ c.next # NoIndex
  BY <1>6, FullFields
<1>16. /\ Rest(d, q) /\ d.started = TRUE /\ d.cur[other] = NoIndex
       /\ d.next = (IF q.cur[kind] = NoIndex THEN q.next + 1 ELSE q.next)
       /\ d.cur[kind] = (IF q.cur[kind] = NoIndex THEN q.next ELSE q.cur[kind])
       /\ d.buf = c.buf /\ d.body = c.body
  BY <1>1, <1>7, <1>8, <1>14, <1>15 DEF Rest
<1>17. Wrote(r, q, kind, other, text)
  BY <1>10, <1>14, <1>16 DEF Rest, Wrote
<1> QED BY <1>11, <1>17

LEMMA WriteTwice ==
    ASSUME NEW q \in Full, NEW kind, NEW other, Between(kind, other), NEW s \in Texts, NEW t \in Texts
    PROVE  Twin(Write(Write(q, kind, other, s), kind, other, t), Write(q, kind, other, s \o t))
<1> DEFINE a == Write(q, kind, other, s)
           b == Write(a, kind, other, t)
           c == Write(q, kind, other, s \o t)
<1>1. s \o t \in Texts
  BY Joined
<1>2. Wrote(a, q, kind, other, s) /\ a \in Full
  <2>1. Wrote(a, q, kind, other, s)
    BY WriteFields
  <2> QED BY <2>1 DEF Wrote
<1>3. Wrote(c, q, kind, other, s \o t) /\ c \in Full
  <2>1. Wrote(c, q, kind, other, s \o t)
    BY <1>1, WriteFields
  <2> QED BY <2>1 DEF Wrote
<1> HIDE DEF a, c
<1>4. Wrote(b, a, kind, other, t) /\ b \in Full
  <2>1. Wrote(b, a, kind, other, t)
    BY <1>2, WriteFields
  <2> QED BY <2>1 DEF Wrote
<1> HIDE DEF b
<1>5. q.next # NoIndex /\ q.buf \in [Blocks -> Pieces]
  BY FullFields
<1>6. (q.buf[kind] \o s) \o t = q.buf[kind] \o (s \o t)
  <2>1. PICK x : x = q.buf[kind]
    OBVIOUS
  <2>2. x \in Seq(Nat \cup Calls) /\ s \in Seq(Nat \cup Calls) /\ t \in Seq(Nat \cup Calls)
    BY <1>5, <2>1 DEF Between, Pieces, Texts
  <2>3. (x \o s) \o t = x \o (s \o t)
    BY <2>2, ConcatAssociative
  <2> QED BY <2>1, <2>3
<1>7. /\ b.next = c.next /\ b.cur[kind] = c.cur[kind] /\ b.cur[other] = c.cur[other]
      /\ b.buf[kind] = c.buf[kind] /\ b.buf[other] = c.buf[other] /\ b.body = c.body /\ b.started = c.started
  BY <1>2, <1>3, <1>4, <1>5, <1>6 DEF Wrote
<1>8. b.cur \in [Blocks -> Nat] /\ c.cur \in [Blocks -> Nat] /\ b.buf \in [Blocks -> Pieces] /\ c.buf \in [Blocks -> Pieces]
  BY <1>3, <1>4, FullFields
<1>9. b.cur = c.cur /\ b.buf = c.buf
  <2>1. \A x \in Blocks : x = kind \/ x = other
    BY DEF Between, Blocks
  <2>2. b.cur = c.cur
    BY <1>7, <1>8, <2>1
  <2>3. b.buf = c.buf
    BY <1>7, <1>8, <2>1
  <2> QED BY <2>2, <2>3
<1>10. Rest(c, b)
  BY <1>2, <1>3, <1>4 DEF Rest, Wrote
<1>11. Twin(b, c)
  BY <1>3, <1>4, <1>7, <1>9, <1>10 DEF Twin
<1> QED BY <1>11 DEF a, b, c

\* Facts taken before or after a write.
LEMMA TwinTransitive ==
    ASSUME NEW q, NEW r, NEW s, Twin(q, r), Twin(r, s)
    PROVE  Twin(q, s)
BY DEF Twin, Rest

LEMMA WriteTwin ==
    ASSUME NEW q, NEW r, Twin(q, r), NEW kind, NEW other, Between(kind, other), NEW text \in Texts
    PROVE  Twin(Write(q, kind, other, text), Write(r, kind, other, text))
<1>1. kind \in Blocks /\ other \in Blocks /\ text \in Pieces
  BY DEF Between, Texts
<1>2. Twin(Buffered(q, kind, text), Buffered(r, kind, text))
  BY <1>1, BufferedTwin
<1>3. Twin(Start(Buffered(q, kind, text)), Start(Buffered(r, kind, text)))
  BY <1>2, StartTwin
<1>4. Twin(CloseBlock(Start(Buffered(q, kind, text)), other),
           CloseBlock(Start(Buffered(r, kind, text)), other))
  BY <1>1, <1>3, CloseBlockTwin
<1>5. Twin(Ensure(CloseBlock(Start(Buffered(q, kind, text)), other), kind),
           Ensure(CloseBlock(Start(Buffered(r, kind, text)), other), kind))
  BY <1>1, <1>4, EnsureTwin
<1> QED BY <1>1, <1>5, DeltaTwin DEF Write

\* Facts may be taken before or after a write.
LEMMA ObserveWrite ==
    ASSUME NEW q \in Full, NEW kind, NEW other, Between(kind, other), NEW text \in Texts, NEW e \in Event
    PROVE  Twin(Observed(Write(q, kind, other, text), e), Write(Observed(q, e), kind, other, text))
<1> DEFINE w == Write(q, kind, other, text)
           u == Observed(w, e)
           x == Observed(q, e)
           v == Write(x, kind, other, text)
<1>1. Wrote(w, q, kind, other, text)
  BY WriteFields
<1>2. w \in Full
  BY <1>1 DEF Wrote
<1> HIDE DEF w
<1>3. /\ u \in Full /\ u.facts = Observe(w.facts, e) /\ u.st = w.st /\ u.format = w.format
      /\ u.search = w.search /\ u.calls = w.calls /\ u.started = w.started /\ u.next = w.next
      /\ u.cur = w.cur /\ u.buf = w.buf /\ u.body = w.body
  BY <1>2, ObservedFields
<1> HIDE DEF u
<1>4. /\ x \in Full /\ x.facts = Observe(q.facts, e) /\ x.st = q.st /\ x.format = q.format
      /\ x.search = q.search /\ x.calls = q.calls /\ x.next = q.next
      /\ x.cur = q.cur /\ x.buf = q.buf /\ x.body = q.body
  BY ObservedFields
<1> HIDE DEF x
<1>5. Wrote(v, x, kind, other, text)
  BY <1>4, WriteFields
<1> HIDE DEF v
<1>6. v \in Full
  BY <1>5 DEF Wrote
<1>7. /\ u.next = v.next /\ u.cur[kind] = v.cur[kind] /\ u.cur[other] = v.cur[other]
      /\ u.buf[kind] = v.buf[kind] /\ u.buf[other] = v.buf[other] /\ u.body = v.body /\ u.started = v.started
  <2>1. /\ w.next = v.next /\ w.cur[kind] = v.cur[kind] /\ w.cur[other] = v.cur[other]
        /\ w.started = v.started
    BY <1>1, <1>4, <1>5 DEF Wrote
  <2>2. w.buf[kind] = v.buf[kind] /\ w.buf[other] = v.buf[other]
    BY <1>1, <1>4, <1>5 DEF Wrote
  <2>3. w.body = v.body
    BY <1>1, <1>4, <1>5 DEF Wrote
  <2> QED BY <1>3, <2>1, <2>2, <2>3
<1>8. Rest(v, u)
  BY <1>1, <1>3, <1>4, <1>5 DEF Wrote, Rest
<1>9. u.cur \in [Blocks -> Nat] /\ v.cur \in [Blocks -> Nat] /\ u.buf \in [Blocks -> Pieces] /\ v.buf \in [Blocks -> Pieces]
  BY <1>3, <1>6, FullFields
<1>10. \A b \in Blocks : b = kind \/ b = other
  BY DEF Between, Blocks
<1>11. u.cur = v.cur /\ u.buf = v.buf
  BY <1>7, <1>9, <1>10
<1>12. Twin(u, v)
  BY <1>3, <1>6, <1>7, <1>8, <1>11 DEF Twin
<1> QED BY <1>12 DEF u, v, w, x

\* Usage and progress add up.
LEMMA SameFacts ==
    ASSUME NEW f \in Facts, NEW g \in Facts, f.progress = g.progress, f.tokens = g.tokens,
           f.searches = g.searches, f.output = g.output
    PROVE  f = g
BY DEF Facts

LEMMA ObserveUsage ==
    ASSUME NEW f \in Facts, NEW e \in Event, e.t = "usage"
    PROVE  LET g == Observe(f, e) IN
           /\ g \in Facts /\ g.tokens = f.tokens + e.tokens
           /\ g.progress = f.progress /\ g.searches = f.searches /\ g.output = f.output
<1>1. Observe(f, e) = [f EXCEPT !.tokens = f.tokens + e.tokens]
  BY DEF Observe
<1> QED BY <1>1, ObservedType DEF Facts

\* A delta without a count is one event.
Counted(e) == IF e.progress = 0 THEN 1 ELSE e.progress

LEMMA ObserveThinking ==
    ASSUME NEW f \in Facts, NEW e \in Event, e.t = "thinking"
    PROVE  LET g == Observe(f, e) IN
           /\ g \in Facts /\ g.progress = f.progress + Counted(e)
           /\ g.tokens = f.tokens /\ g.searches = f.searches /\ g.output = f.output
<1>1. Observe(f, e) = [f EXCEPT !.progress = f.progress + Counted(e)]
  BY DEF Observe, Counted
<1> QED BY <1>1, ObservedType DEF Facts

LEMMA ObserveTwice ==
    ASSUME NEW f \in Facts, NEW a \in Event, NEW e \in Event, Combines(a, e)
    PROVE  Observe(Observe(f, a), e) = Observe(f, Combined(a, e))
<1> DEFINE g == Observe(f, a)
           b == Combined(a, e)
<1>1. g \in Facts /\ b \in Event /\ a.t = e.t
  BY ObservedType, CombinedSize DEF Combines
<1>2. CASE e.t = "text"
  <2>1. a \in TextEvent
    BY <1>1, <1>2, EventKinds
  <2>2. b.t = "text"
    BY <1>1, <1>2, <2>1 DEF Combined, TextEvent
  <2> QED BY <1>1, <1>2, <2>2 DEF Observe
<1>3. CASE e.t = "usage"
  <2>1. a \in UsageEvent /\ e \in UsageEvent
    BY <1>1, <1>3, EventKinds
  <2>2. b.t = "usage" /\ b.tokens = a.tokens + e.tokens
    BY <1>1, <1>3, <2>1 DEF Combined, UsageEvent
  <2>3. a.tokens \in Nat /\ e.tokens \in Nat /\ f.tokens \in Nat
    BY <2>1 DEF UsageEvent, Facts
  <2>4. /\ g.tokens = f.tokens + a.tokens
        /\ g.progress = f.progress /\ g.searches = f.searches /\ g.output = f.output
    BY <1>1, <1>3, ObserveUsage
  <2> HIDE DEF g, b
  <2>5. /\ Observe(g, e) \in Facts /\ Observe(g, e).tokens = g.tokens + e.tokens
        /\ Observe(g, e).progress = g.progress /\ Observe(g, e).searches = g.searches
        /\ Observe(g, e).output = g.output
    BY <1>1, <1>3, ObserveUsage
  <2>6. /\ Observe(f, b) \in Facts /\ Observe(f, b).tokens = f.tokens + b.tokens
        /\ Observe(f, b).progress = f.progress /\ Observe(f, b).searches = f.searches
        /\ Observe(f, b).output = f.output
    BY <1>1, <2>2, ObserveUsage
  <2>7. (f.tokens + a.tokens) + e.tokens = f.tokens + (a.tokens + e.tokens)
    BY <2>3
  <2>8. Observe(g, e) = Observe(f, b)
    BY <2>2, <2>4, <2>5, <2>6, <2>7, SameFacts
  <2> QED BY <2>8 DEF g, b
<1>4. CASE e.t = "thinking"
  <2>1. a \in ThinkingEvent /\ e \in ThinkingEvent
    BY <1>1, <1>4, EventKinds
  <2>2. Counted(a) \in Nat /\ Counted(e) \in Nat /\ Counted(a) # 0 /\ f.progress \in Nat
    BY <2>1 DEF ThinkingEvent, Facts, Counted
  <2>3. b.t = "thinking" /\ b.progress = Counted(a) + Counted(e)
    BY <1>1, <1>4, <2>1 DEF Combined, ThinkingEvent, Counted
  <2>4. Counted(b) = Counted(a) + Counted(e)
    BY <2>2, <2>3 DEF Counted
  <2>5. /\ g.progress = f.progress + Counted(a)
        /\ g.tokens = f.tokens /\ g.searches = f.searches /\ g.output = f.output
    BY <1>1, <1>4, ObserveThinking
  <2> HIDE DEF g, b
  <2>6. /\ Observe(g, e) \in Facts /\ Observe(g, e).progress = g.progress + Counted(e)
        /\ Observe(g, e).tokens = g.tokens /\ Observe(g, e).searches = g.searches
        /\ Observe(g, e).output = g.output
    BY <1>1, <1>4, ObserveThinking
  <2>7. /\ Observe(f, b) \in Facts /\ Observe(f, b).progress = f.progress + Counted(b)
        /\ Observe(f, b).tokens = f.tokens /\ Observe(f, b).searches = f.searches
        /\ Observe(f, b).output = f.output
    BY <1>1, <2>3, ObserveThinking
  <2>8. (f.progress + Counted(a)) + Counted(e) = f.progress + Counted(b)
    BY <2>2, <2>4
  <2>9. Observe(g, e) = Observe(f, b)
    BY <2>5, <2>6, <2>7, <2>8, SameFacts
  <2> QED BY <2>9 DEF g, b
<1> QED BY <1>2, <1>3, <1>4 DEF Combines

LEMMA ObservedTwice ==
    ASSUME NEW q \in Full, NEW a \in Event, NEW e \in Event, Combines(a, e)
    PROVE  Twin(Observed(Observed(q, a), e), Observed(q, Combined(a, e)))
<1> DEFINE x == Observed(q, a)
           y == Observed(x, e)
           z == Observed(q, Combined(a, e))
<1>1. Combined(a, e) \in Event /\ q.facts \in Facts
  BY CombinedSize, FullFields
<1>2. /\ x \in Full /\ x.facts = Observe(q.facts, a) /\ x.st = q.st /\ x.format = q.format
      /\ x.search = q.search /\ x.calls = q.calls /\ x.started = q.started /\ x.next = q.next
      /\ x.cur = q.cur /\ x.buf = q.buf /\ x.body = q.body
  BY ObservedFields
<1> HIDE DEF x
<1>3. /\ y \in Full /\ y.facts = Observe(x.facts, e) /\ y.st = x.st /\ y.format = x.format
      /\ y.search = x.search /\ y.calls = x.calls /\ y.started = x.started /\ y.next = x.next
      /\ y.cur = x.cur /\ y.buf = x.buf /\ y.body = x.body
  BY <1>2, ObservedFields
<1>4. /\ z \in Full /\ z.facts = Observe(q.facts, Combined(a, e)) /\ z.st = q.st /\ z.format = q.format
      /\ z.search = q.search /\ z.calls = q.calls /\ z.started = q.started /\ z.next = q.next
      /\ z.cur = q.cur /\ z.buf = q.buf /\ z.body = q.body
  BY <1>1, ObservedFields
<1> HIDE DEF y, z
<1>5. y.facts = z.facts
  BY <1>1, <1>2, <1>3, <1>4, ObserveTwice
<1>6. Twin(y, z)
  BY <1>2, <1>3, <1>4, <1>5 DEF Twin, Rest
<1> QED BY <1>6 DEF x, y, z

LEMMA BufferTwice ==
    ASSUME NEW q \in Full, NEW s \in Texts, NEW t \in Texts
    PROVE  Twin(Buffered(Buffered(q, "thinking", s), "thinking", t), Buffered(q, "thinking", s \o t))
<1> DEFINE a == Buffered(q, "thinking", s)
           b == Buffered(a, "thinking", t)
           c == Buffered(q, "thinking", s \o t)
<1>1. "thinking" \in Blocks /\ s \in Pieces /\ t \in Pieces /\ s \o t \in Pieces
  BY BlockKinds, Joined DEF Texts
<1>2. /\ a \in Full /\ Rest(a, q) /\ a.started = q.started /\ a.next = q.next /\ a.cur = q.cur
      /\ a.buf = [q.buf EXCEPT !["thinking"] = @ \o s] /\ a.body = q.body
  BY <1>1, BufferedFields
<1>3. /\ c \in Full /\ Rest(c, q) /\ c.started = q.started /\ c.next = q.next /\ c.cur = q.cur
      /\ c.buf = [q.buf EXCEPT !["thinking"] = @ \o (s \o t)] /\ c.body = q.body
  BY ZenonT(60), <1>1, BufferedFields
<1> HIDE DEF a, c
<1>4. /\ b \in Full /\ Rest(b, a) /\ b.started = a.started /\ b.next = a.next /\ b.cur = a.cur
      /\ b.buf = [a.buf EXCEPT !["thinking"] = @ \o t] /\ b.body = a.body
  <2>1. a \in Full /\ t \in Pieces /\ "thinking" \in Blocks
    BY <1>1, <1>2
  <2> QED BY <2>1, BufferedFields
<1> HIDE DEF b
<1>5. q.buf \in [Blocks -> Pieces]
  BY FullFields
<1>6. (q.buf["thinking"] \o s) \o t = q.buf["thinking"] \o (s \o t)
  <2>1. PICK x \in Pieces : x = q.buf["thinking"]
    BY <1>1, <1>5
  <2>2. (x \o s) \o t = x \o (s \o t)
    BY <1>1, ConcatAssociative DEF Pieces
  <2> QED BY <2>1, <2>2
<1>7. b.buf = c.buf
  <2>1. PICK x : x = q.buf["thinking"]
    OBVIOUS
  <2>2. a.buf = [q.buf EXCEPT !["thinking"] = x \o s] /\ c.buf = [q.buf EXCEPT !["thinking"] = x \o (s \o t)]
    BY <1>2, <1>3, <2>1
  <2>3. b.buf = [q.buf EXCEPT !["thinking"] = (x \o s) \o t]
    BY <1>1, <1>4, <1>5, <2>2
  <2> QED BY <1>6, <2>1, <2>2, <2>3
<1>8. Twin(b, c)
  BY <1>2, <1>3, <1>4, <1>7 DEF Twin, Rest
<1> QED BY <1>8 DEF a, b, c

LEMMA CombinedHandled ==
    ASSUME NEW q \in Full, NEW a \in Event, NEW e \in Event, Combines(a, e)
    PROVE  Twin(Handle(Handle(q, a), e), Handle(q, Combined(a, e)))
<1> DEFINE b == Combined(a, e)
           w == Observed(q, a)
           x == Observed(w, e)
           y == Observed(q, b)
<1>1. b \in Event /\ a.t = e.t /\ e.t \in {"text", "thinking", "usage"}
  BY CombinedSize DEF Combines
<1>2. Twin(x, y)
  BY ObservedTwice
<1>3. w \in Full
  BY ObservedFields
<1>4. CASE e.t = "usage"
  <2>1. a \in UsageEvent
    BY <1>1, <1>4, EventKinds
  <2>2. b.t = "usage"
    BY <1>1, <1>4, <2>1 DEF Combined, UsageEvent
  <2> HIDE DEF b, x, y, w
  <2>3. Handle(q, a) = w /\ Handle(q, b) = y /\ Handle(w, e) = x
    BY <1>1, <1>4, <2>2, HandleUnfolds DEF w, x, y
  <2> QED BY <1>2, <2>3 DEF b
<1>5. CASE e.t \in {"text", "thinking"}
  <2>1. a.text \in Texts /\ e.text \in Texts /\ b.t = e.t /\ b.text = a.text \o e.text
    <3>1. CASE e.t = "text"
      <4>1. a \in TextEvent /\ e \in TextEvent
        BY <1>1, <3>1, EventKinds
      <4> QED BY <1>1, <3>1, <4>1 DEF Combined, TextEvent
    <3>2. CASE e.t = "thinking"
      <4>1. a \in ThinkingEvent /\ e \in ThinkingEvent
        BY <1>1, <3>2, EventKinds
      <4> QED BY <1>1, <3>2, <4>1 DEF Combined, ThinkingEvent
    <3> QED BY <1>5, <3>1, <3>2
  <2> HIDE DEF b, x, y, w
  <2>2. PICK s \in Texts : s = a.text
    BY <2>1
  <2>3. PICK t \in Texts : t = e.text
    BY <2>1
  <2>4. y.format = q.format /\ w.format = q.format /\ x \in Full /\ y \in Full
    BY <1>1, <1>2, ObservedFields, TwinFields DEF w, y
  <2>5. ASSUME NEW kind, NEW other, Between(kind, other),
               Handle(q, a) = Write(w, kind, other, s), Handle(q, b) = Write(y, kind, other, s \o t),
               \A r : r \in Full /\ r.format = q.format => Handle(r, e) = Write(Observed(r, e), kind, other, t)
        PROVE  Twin(Handle(Handle(q, a), e), Handle(q, b))
    <3> DEFINE u == Write(w, kind, other, s)
    <3>1. Wrote(u, w, kind, other, s)
      BY <1>3, <2>5, WriteFields
    <3>2. u \in Full /\ u.format = q.format
      BY <2>4, <3>1 DEF Wrote, Rest
    <3>3. Twin(Observed(u, e), Write(x, kind, other, s))
      BY <1>3, <2>5, ObserveWrite DEF x
    <3>4. Handle(u, e) = Write(Observed(u, e), kind, other, t)
      <4> HIDE DEF u
      <4> QED BY <2>5, <3>2
    <3> HIDE DEF u
    <3>5. Twin(Handle(u, e), Write(Write(x, kind, other, s), kind, other, t))
      BY <2>5, <3>3, <3>4, WriteTwin
    <3>6. Twin(Write(Write(x, kind, other, s), kind, other, t), Write(x, kind, other, s \o t))
      BY <2>4, <2>5, WriteTwice
    <3>7. Twin(Write(x, kind, other, s \o t), Write(y, kind, other, s \o t))
      BY <1>2, <2>5, Joined, WriteTwin
    <3>8. Twin(Handle(u, e), Write(x, kind, other, s \o t))
      BY <3>5, <3>6, TwinTransitive
    <3>9. Twin(Handle(u, e), Write(y, kind, other, s \o t))
      BY <3>7, <3>8, TwinTransitive
    <3> QED BY <2>5, <3>9 DEF u
  <2>6. CASE e.t = "text"
    <3>1. Between("text", "thinking")
      BY DEF Between, Blocks
    <3>2. \A r, d : d.t = "text" /\ d \in Event => Handle(r, d) = Write(Observed(r, d), "text", "thinking", d.text)
      BY HandleUnfolds DEF OnText, Write
    <3>3. Handle(q, a) = Write(w, "text", "thinking", s) /\ Handle(q, b) = Write(y, "text", "thinking", s \o t)
      BY <1>1, <2>1, <2>2, <2>3, <2>6, <3>2 DEF w, y
    <3> QED BY <2>3, <2>5, <2>6, <3>1, <3>2, <3>3 DEF b
  <2>7. CASE e.t = "thinking" /\ q.format # "claude"
    <3>1. Between("thinking", "text")
      BY DEF Between, Blocks
    <3>2. ASSUME NEW r \in Full, r.format = q.format, NEW d \in Event, d.t = "thinking"
          PROVE  Handle(r, d) = Write(Observed(r, d), "thinking", "text", d.text)
      <4>1. Observed(r, d).format # "claude"
        BY <2>7, <3>2, ObservedFields
      <4>2. Handle(r, d) = OnThinking(Observed(r, d), d)
        BY <3>2, HandleUnfolds
      <4> QED BY <4>1, <4>2 DEF OnThinking, Write
    <3>3. Handle(q, a) = Write(w, "thinking", "text", s) /\ Handle(q, b) = Write(y, "thinking", "text", s \o t)
      BY <1>1, <2>1, <2>2, <2>3, <2>7, <3>2 DEF w, y
    <3>4. \A r : r \in Full /\ r.format = q.format => Handle(r, e) = Write(Observed(r, e), "thinking", "text", t)
      BY <2>3, <2>7, <3>2
    <3> QED BY <2>5, <3>1, <3>3, <3>4 DEF b
  <2>8. CASE e.t = "thinking" /\ q.format = "claude"
    <3>1. Handle(q, a) = Buffered(w, "thinking", s)
      BY <1>1, <2>2, <2>4, <2>8, HandleUnfolds DEF OnThinking, w
    <3>2. Handle(q, b) = Buffered(y, "thinking", s \o t)
      BY <1>1, <2>1, <2>2, <2>3, <2>4, <2>8, HandleUnfolds DEF OnThinking, y
    <3> DEFINE u == Buffered(w, "thinking", s)
    <3>3. "thinking" \in Blocks /\ s \in Pieces /\ t \in Pieces
      BY BlockKinds DEF Texts
    <3>4. u \in Full /\ u.format = q.format
      BY <1>3, <2>4, <3>3, BufferedFields DEF Rest
    <3> HIDE DEF u
    <3>5. Observed(u, e).format = "claude"
      BY <2>8, <3>4, ObservedFields
    <3>6. Handle(u, e) = Buffered(Observed(u, e), "thinking", t)
      BY <2>3, <2>8, <3>5, HandleUnfolds DEF OnThinking
    <3>7. Twin(Observed(u, e), Buffered(x, "thinking", s))
      <4> DEFINE m == Observed(u, e)
                 n == Buffered(x, "thinking", s)
      <4>1. /\ u \in Full /\ Rest(u, w) /\ u.started = w.started /\ u.next = w.next /\ u.cur = w.cur
            /\ u.buf = [w.buf EXCEPT !["thinking"] = @ \o s] /\ u.body = w.body
        BY SMTT(30), <1>3, <3>3, BufferedFields DEF u
      <4>2. /\ x \in Full /\ x.facts = Observe(w.facts, e) /\ x.st = w.st /\ x.format = w.format
            /\ x.search = w.search /\ x.calls = w.calls /\ x.started = w.started /\ x.next = w.next
            /\ x.cur = w.cur /\ x.buf = w.buf /\ x.body = w.body
        BY <1>3, ObservedFields DEF x
      <4>3. /\ m \in Full /\ m.facts = Observe(u.facts, e) /\ m.st = u.st /\ m.format = u.format
            /\ m.search = u.search /\ m.calls = u.calls /\ m.started = u.started /\ m.next = u.next
            /\ m.cur = u.cur /\ m.buf = u.buf /\ m.body = u.body
        BY <4>1, ObservedFields
      <4>4. /\ n \in Full /\ Rest(n, x) /\ n.started = x.started /\ n.next = x.next /\ n.cur = x.cur
            /\ n.buf = [x.buf EXCEPT !["thinking"] = @ \o s] /\ n.body = x.body
        BY ZenonT(60), <3>3, <4>2, BufferedFields
      <4> HIDE DEF m, n
      <4>5. Twin(m, n)
        BY <4>1, <4>2, <4>3, <4>4 DEF Twin, Rest
      <4> QED BY <4>5 DEF m, n
    <3>8. Twin(Handle(u, e), Buffered(Buffered(x, "thinking", s), "thinking", t))
      BY <3>3, <3>6, <3>7, BufferedTwin
    <3>9. Twin(Buffered(x, "thinking", s \o t), Buffered(y, "thinking", s \o t))
      <4>1. s \o t \in Pieces
        BY Joined DEF Texts
      <4> QED BY <1>2, <3>3, <4>1, BufferedTwin
    <3>10. Twin(Handle(u, e), Buffered(x, "thinking", s \o t))
      BY <2>4, <3>8, BufferTwice, TwinTransitive
    <3>11. Twin(Handle(u, e), Buffered(y, "thinking", s \o t))
      BY <3>9, <3>10, TwinTransitive
    <3> QED BY <3>1, <3>2, <3>11 DEF u, b
  <2> QED BY <1>5, <2>6, <2>7, <2>8
<1> QED BY <1>1, <1>4, <1>5

-----------------------------------------------------------------------------
(***************************************************************************)
(* A projection keeps its protocol.                                        *)
(***************************************************************************)
Keeps(r, q) == r \in Full /\ r.format = q.format

LEMMA WritesKeep ==
    ASSUME NEW q \in Full, NEW kind \in Blocks
    PROVE  /\ Keeps(Start(q), q) /\ Keeps(CloseBlock(q, kind), q) /\ Keeps(CloseBoth(q), q)
           /\ Keeps(CloseBoth(Start(q)), q) /\ Keeps(Ensure(q, kind), q)
<1>1. \A x \in Full : Keeps(Start(x), x)
  BY StartFields DEF Keeps, Rest
<1>2. ASSUME NEW x \in Full, NEW b \in Blocks PROVE Keeps(CloseBlock(x, b), x)
  <2>1. CASE x.cur[b] = NoIndex
    BY <2>1 DEF CloseBlock, Keeps
  <2>2. CASE x.cur[b] # NoIndex
    BY <2>2, CloseBlockFields DEF Keeps, Rest
  <2> QED BY <2>1, <2>2
<1>3. \A x \in Full : Keeps(CloseBoth(x), x)
  BY <1>2, BlockKinds DEF CloseBoth, Keeps
<1>4. Keeps(Ensure(q, kind), q)
  <2>1. CASE q.cur[kind] = NoIndex
    BY <2>1, EnsureFields DEF Keeps, Rest
  <2>2. CASE q.cur[kind] # NoIndex
    BY <2>2 DEF Ensure, Keeps
  <2> QED BY <2>1, <2>2
<1> QED BY <1>1, <1>2, <1>3, <1>4 DEF Keeps

LEMMA ItemsKeep ==
    ASSUME NEW q \in Full, NEW kind \in Kinds, NEW text \in Pieces, NEW i \in Nat
    PROVE  /\ Keeps(WholeItem(q, kind, text), q) /\ Keeps(OpenItem(q, kind, text), q)
           /\ Keeps(CloseItem(Store(q, i, kind, text), i), q)
<1>1. Keeps(WholeItem(q, kind, text), q)
  BY WholeItemFields DEF Keeps, Rest
<1>2. Keeps(OpenItem(q, kind, text), q)
  BY OpenItemFields DEF Keeps, Rest
<1>3. Keeps(CloseItem(Store(q, i, kind, text), i), q)
  BY StoredFields DEF Keeps, Rest
<1> QED BY <1>1, <1>2, <1>3

LEMMA WriteKeeps ==
    ASSUME NEW q \in Full, NEW kind, NEW other, Between(kind, other), NEW text \in Texts
    PROVE  Keeps(Write(q, kind, other, text), q)
<1>1. Wrote(Write(q, kind, other, text), q, kind, other, text)
  BY WriteFields
<1> QED BY <1>1 DEF Wrote, Rest, Keeps

LEMMA HandOverKeeps ==
    ASSUME NEW q \in Full, NEW calls \in Seq(CallEvent)
    PROVE  Keeps(HandOver(q, calls), q)
<1>1. PICK f : /\ HandOver(q, calls) = f[Len(calls)] /\ f[0] = q
               /\ \A n \in 1..Len(calls) : f[n] = WholeItem(f[n - 1], "call", <<calls[n].c>>)
  BY HandOverSteps
<1> DEFINE T == {n \in 0..Len(calls) : Keeps(f[n], q)}
<1>2. Len(calls) \in Nat
  OBVIOUS
<1>3. 0 \in T
  BY <1>1, <1>2 DEF Keeps
<1>4. ASSUME NEW n \in 1..Len(calls), n - 1 \in T PROVE n \in T
  <2>1. f[n - 1] \in Full /\ f[n - 1].format = q.format /\ n \in 0..Len(calls)
    BY <1>2, <1>4 DEF Keeps
  <2>2. Keeps(WholeItem(f[n - 1], "call", <<calls[n].c>>), f[n - 1])
    BY <2>1, CallPieces, ItemsKeep
  <2>3. Keeps(f[n], q)
    BY <1>1, <2>1, <2>2 DEF Keeps
  <2> QED BY <2>1, <2>3
<1>5. Len(calls) \in T
  <2> HIDE DEF T
  <2>1. \A n \in 0..Len(calls) : n \in T
    BY <1>2, <1>3, <1>4, UpTo
  <2> QED BY <1>2, <2>1
<1>6. Keeps(f[Len(calls)], q)
  BY <1>5
<1> QED BY <1>1, <1>6

LEMMA SearchStartedKeeps ==
    ASSUME NEW q \in Full, NEW e \in SearchEvent
    PROVE  Keeps(OnSearchStarted(q, e), q)
<1> DEFINE x == CloseBoth(Start(q))
           xn == [x EXCEPT !.search[e.h] = x.next]
<1>1. e.h \in Hosted /\ "search" \in Kinds /\ <<>> \in Pieces /\ 0 \in Nat
  BY BlockKinds DEF SearchEvent, Kinds
<1>2. x \in Full /\ x.format = q.format
  BY WritesKeep, BlockKinds DEF Keeps
<1> HIDE DEF x
<1>3. xn \in Full /\ xn.format = x.format
  BY <1>1, <1>2, NotedFields
<1> HIDE DEF xn
<1>4. Keeps(OpenItem(xn, "search", <<>>), q) /\ Keeps(WholeItem(xn, "search", <<>>), q)
  BY <1>1, <1>2, <1>3, ItemsKeep DEF Keeps
<1>5. OnSearchStarted(q, e) \in {q, OpenItem(xn, "search", <<>>), WholeItem(xn, "search", <<>>)}
  BY DEF OnSearchStarted, x, xn
<1>6. Keeps(q, q)
  BY DEF Keeps
<1> QED BY <1>4, <1>5, <1>6

LEMMA SearchCompletedKeeps ==
    ASSUME NEW q \in Full, NEW e \in SearchEvent
    PROVE  Keeps(OnSearchCompleted(q, e), q)
<1> DEFINE x == OnSearchStarted(q, e)
<1>1. e.h \in Hosted /\ "search" \in Kinds /\ "result" \in Kinds /\ <<>> \in Pieces
  BY BlockKinds DEF SearchEvent, Kinds
<1>2. x \in Full /\ x.format = q.format
  BY SearchStartedKeeps DEF Keeps
<1> HIDE DEF x
<1>3. x.search[e.h] \in Nat
  BY <1>1, <1>2, FullFields
<1>4. /\ Keeps(CloseItem(Store(x, x.search[e.h], "search", <<>>), x.search[e.h]), q)
      /\ Keeps(WholeItem(x, "result", <<>>), q)
  BY ZenonT(60), <1>1, <1>2, <1>3, ItemsKeep DEF Keeps
<1> QED BY <1>4 DEF OnSearchCompleted, x

LEMMA ThinkingCompletedKeeps ==
    ASSUME NEW q \in Full, NEW e \in CompletedEvent
    PROVE  Keeps(OnThinkingCompleted(q, e), q)
<1> DEFINE x == [q EXCEPT !.buf["thinking"] = <<>>]
           y == CloseBlock(Start(x), "text")
           s == q.buf["thinking"]
<1>1. "text" \in Blocks /\ "thinking" \in Blocks /\ "thinking" \in Kinds /\ s \in Pieces
  BY BlockKinds, FullFields
<1>2. x \in Full /\ x.format = q.format
  BY <1>1, DroppedFields DEF Rest
<1> HIDE DEF x
<1>3. y \in Full /\ y.format = q.format
  BY <1>1, <1>2, WritesKeep DEF Keeps
<1> HIDE DEF y
<1>4. Keeps(WholeItem(y, "thinking", s), q)
  <2> HIDE DEF s
  <2>1. Keeps(WholeItem(y, "thinking", s), y)
    BY <1>1, <1>3, 0 \in Nat, ItemsKeep
  <2> QED BY <1>3, <2>1 DEF Keeps
<1>5. Keeps(CloseBlock(q, "thinking"), q) /\ Keeps(x, q)
  BY <1>1, <1>2, WritesKeep DEF Keeps
<1> QED BY <1>4, <1>5 DEF OnThinkingCompleted, x, y, s

LEMMA HandoffKeeps ==
    ASSUME NEW q \in Full, NEW st \in {"done", "parked"}
    PROVE  Keeps(Handoff(q, st), q) /\ Keeps(OnDone(q), q)
<1> DEFINE x == CloseBoth(Start(q))
<1>1. q.calls \in Seq(CallEvent)
  BY FullFields
<1>2. x \in Full /\ x.format = q.format
  BY WritesKeep, BlockKinds DEF Keeps
<1> HIDE DEF x
<1>3. HandOver(x, q.calls) \in Full /\ HandOver(x, q.calls).format = q.format
  BY <1>1, <1>2, HandOverKeeps DEF Keeps
<1>4. \A y \in Full : \A s \in {"done", "parked", "failed"}, k \in {"end", "error"} :
         Ending(y, s, k) \in Full /\ Ending(y, s, k).format = y.format
  BY EndFields
<1>5. Keeps(Reject(q), q) /\ Keeps(Finish(x, "done"), q)
      /\ \A s \in {"done", "parked"} : Keeps(Finish(HandOver(x, q.calls), s), q)
  BY <1>2, <1>3, <1>4 DEF Reject, Finish, Ending, Keeps
<1>6. \A s \in {"done", "parked"} : Keeps(Handoff(q, s), q)
  BY <1>5 DEF Handoff, x
<1> QED BY <1>5, <1>6 DEF OnDone, x

LEMMA HandleKeeps ==
    ASSUME NEW q \in Full, NEW e \in Event
    PROVE  Keeps(Handle(q, e), q)
<1> DEFINE x == Observed(q, e)
<1>1. x \in Full /\ x.format = q.format
  BY ObservedFields
<1> HIDE DEF x
<1>2. e.t = "text" => Keeps(OnText(x, e), x)
  <2>1. ASSUME e.t = "text" PROVE Keeps(OnText(x, e), x)
    <3>1. Between("text", "thinking") /\ e.text \in Texts
      BY <2>1, EventKinds DEF Between, Blocks, TextEvent
    <3>2. OnText(x, e) = Write(x, "text", "thinking", e.text)
      BY DEF OnText, Write
    <3> QED BY <1>1, <3>1, <3>2, WriteKeeps
  <2> QED BY <2>1
<1>3. e.t = "thinking" => Keeps(OnThinking(x, e), x)
  <2>1. ASSUME e.t = "thinking" PROVE Keeps(OnThinking(x, e), x)
    <3>1. Between("thinking", "text") /\ e.text \in Texts
      BY <2>1, EventKinds DEF Between, Blocks, ThinkingEvent
    <3>2. OnThinking(x, e) \in {Buffered(x, "thinking", e.text), Write(x, "thinking", "text", e.text)}
      BY DEF OnThinking, Write
    <3>3. Keeps(Buffered(x, "thinking", e.text), x)
      BY <1>1, <3>1, BlockKinds, BufferedFields DEF Keeps, Rest, Texts
    <3> QED BY <1>1, <3>1, <3>2, <3>3, WriteKeeps
  <2> QED BY <2>1
<1>4. e.t = "thinkingCompleted" => Keeps(OnThinkingCompleted(x, e), x)
  BY <1>1, EventKinds, ThinkingCompletedKeeps
<1>5. e.t = "searchStarted" => Keeps(OnSearchStarted(x, e), x)
  BY <1>1, EventKinds, SearchStartedKeeps
<1>6. e.t = "searchCompleted" => Keeps(OnSearchCompleted(x, e), x)
  BY <1>1, EventKinds, SearchCompletedKeeps
<1>7. e.t = "call" => Keeps(OnToolCall(x, e), x)
  BY <1>1, EventKinds, ToolCallFields DEF Keeps
<1>8. Keeps(Handoff(x, "parked"), x) /\ Keeps(OnDone(x), x) /\ Keeps(x, x)
  BY <1>1, HandoffKeeps DEF Keeps
<1>9. e.t \in {"text", "thinking", "thinkingCompleted", "searchStarted", "searchCompleted", "call",
               "usage", "observation", "turnEnded", "done"}
  BY EventKinds
<1>10. Keeps(Handle(q, e), x)
  BY <1>2, <1>3, <1>4, <1>5, <1>6, <1>7, <1>8, <1>9, HandleUnfolds DEF x
<1> QED BY <1>1, <1>10 DEF Keeps

-----------------------------------------------------------------------------
(***************************************************************************)
(* The retry.                                                              *)
(***************************************************************************)
LEMMA ReplaceLast ==
    ASSUME NEW S, NEW s \in Seq(S), NEW a \in S, NEW b \in S
    PROVE  [Append(s, a) EXCEPT ![Len(s) + 1] = b] = Append(s, b)
<1> DEFINE n == Len(s) + 1
           u == Append(s, a)
           v == Append(s, b)
           w == [u EXCEPT ![n] = b]
<1>1. /\ n \in 1..n /\ u \in Seq(S) /\ v \in Seq(S) /\ Len(u) = n /\ Len(v) = n /\ v[n] = b
      /\ \A k \in 1..n : k # n => u[k] = s[k] /\ v[k] = s[k]
  OBVIOUS
<1> HIDE DEF u, v
<1>2. u \in [1..n -> S] /\ v \in [1..n -> S]
  BY <1>1
<1>3. w \in [1..n -> S] /\ \A k \in 1..n : w[k] = v[k]
  <2> HIDE DEF n
  <2>1. w \in [1..n -> S] /\ w[n] = b /\ \A k \in 1..n : k # n => w[k] = u[k]
    BY <1>1, <1>2
  <2> HIDE DEF w
  <2> QED BY <1>1, <2>1
<1> HIDE DEF w, n
<1>4. w = v
  <2>1. w = [k \in 1..n |-> w[k]] /\ v = [k \in 1..n |-> v[k]]
    BY <1>2, <1>3
  <2> QED BY <1>3, <2>1
<1> QED BY <1>4 DEF u, v, w, n

LEMMA ReplayCaptured ==
    ASSUME NEW f \in {"claude", "chat", "responses"}, NEW s, SnapshotOK(s), NEW e \in Event
    PROVE  Twin(Handle(Replay(f, s.events), e), Replay(f, Captured(s, e).events))
<1> DEFINE ev == s.events
           n == Len(ev)
<1>1. ev \in Seq(Event) /\ n \in Nat
  BY DEF SnapshotOK
<1>2. CASE n > 0 /\ Combines(ev[n], e)
  <2>1. ev # <<>>
    BY <1>1, <1>2
  <2>2. PICK front \in Seq(Event), a \in Event : ev = Append(front, a)
    BY <1>1, <2>1, SequenceEmptyOrAppend
  <2>3. n = Len(front) + 1 /\ ev[n] = a
    BY <2>2
  <2> DEFINE b == Combined(a, e)
  <2>4. b \in Event /\ Combines(a, e)
    BY <1>2, <2>3, CombinedSize
  <2>5. Captured(s, e).events = [ev EXCEPT ![n] = b]
    BY <1>2, <2>3 DEF Captured
  <2> HIDE DEF b
  <2>6. [ev EXCEPT ![n] = b] = Append(front, b)
    <3>1. [Append(front, a) EXCEPT ![Len(front) + 1] = b] = Append(front, b)
      BY <2>2, <2>4, ReplaceLast
    <3> QED BY <2>2, <2>3, <3>1
  <2> DEFINE q == Replay(f, front)
  <2>7. q \in Full /\ Replay(f, ev) = Handle(q, a) /\ Replay(f, Append(front, b)) = Handle(q, b)
    BY <2>2, <2>4, ReplayAppend
  <2> HIDE DEF q
  <2>8. Twin(Handle(Handle(q, a), e), Handle(q, b))
    BY <2>2, <2>4, <2>7, CombinedHandled DEF b
  <2> QED BY <2>5, <2>6, <2>7, <2>8
<1>3. CASE ~(n > 0 /\ Combines(ev[n], e))
  <2>1. Captured(s, e).events = Append(ev, e)
    BY <1>3 DEF Captured
  <2> DEFINE r == Replay(f, ev)
  <2>2. r \in Full /\ Replay(f, Append(ev, e)) = Handle(r, e)
    BY <1>1, ReplayAppend
  <2>3. Twin(r, r)
    BY <2>2 DEF Twin, Rest
  <2> HIDE DEF r
  <2>4. Twin(Handle(r, e), Handle(r, e))
    BY <2>3, HandleTwin
  <2> QED BY <2>1, <2>2, <2>4 DEF r
<1> QED BY <1>2, <1>3

\* As long as the response has not failed, a replay of the snapshot is the
\* projection but for what it has written.
ReplayInv == p.st # "failed" => Twin(p, Replay(p.format, snap.events))

LEMMA ReplayNext ==
    ASSUME StreamInv, ReplayInv, [Next]_vars
    PROVE  ReplayInv'
<1>1. /\ ClientOK /\ Good(p, upstream.searched) /\ SnapshotOK(snap) /\ p \in Proj
      /\ p.format \in {"claude", "chat", "responses"}
  BY DEF StreamInv, Good, Proj
<1>2. CASE Emits
  <2>1. p' = Reject(p) \/ \E e \in Event : p.st = "running" /\ snap' = Captured(snap, e) /\ p' = Handle(p, e)
    <3>1. CASE RunFails
      BY <3>1 DEF RunFails
    <3>2. CASE ~RunFails
      <4>1. PICK e \in Event : Emitted(e)
        BY <1>2, <3>2, EmitsEvent
      <4> QED BY <4>1 DEF Emitted, Process, Reading
    <3> QED BY <3>1, <3>2
  <2>2. CASE p' = Reject(p)
    <3>1. p'.st = "failed"
      BY <1>1, <2>2 DEF Reject, Emit, Proj
    <3> QED BY <3>1 DEF ReplayInv
  <2>3. ASSUME NEW e \in Event, p.st = "running", snap' = Captured(snap, e), p' = Handle(p, e)
        PROVE  ReplayInv'
    <3> DEFINE r == Replay(p.format, snap.events)
    <3>1. Twin(p, r)
      BY <2>3 DEF ReplayInv
    <3>2. p \in Full
      BY <3>1, TwinFields
    <3>3. p'.format = p.format
      BY <2>3, <3>2, HandleKeeps DEF Keeps
    <3>4. Twin(Handle(r, e), Replay(p.format, Captured(snap, e).events))
      BY <1>1, ReplayCaptured
    <3> HIDE DEF r
    <3>5. Twin(p', Handle(r, e))
      BY <2>3, <3>1, HandleTwin
    <3>6. Twin(p', Replay(p.format, Captured(snap, e).events))
      BY <3>4, <3>5, TwinTransitive
    <3>7. Twin(p', Replay(p'.format, snap'.events))
      BY <2>3, <3>3, <3>6
    <3> QED BY <3>7 DEF ReplayInv
  <2> QED BY <2>1, <2>2, <2>3
<1>3. CASE Deliver
  <2>1. p' = [p EXCEPT !.out = Tail(p.out)] /\ p.out # <<>> /\ snap' = snap
    BY <1>3 DEF Deliver
  <2>2. Tail(p.out) \in Seq(Chunk)
    BY <1>1, <2>1 DEF Proj
  <2> DEFINE o == Tail(p.out)
  <2>3. p' = [p EXCEPT !.out = o] /\ o \in Seq(Chunk)
    BY <2>1, <2>2
  <2> HIDE DEF o
  <2>4. p' \in Proj
    BY <1>1, <2>3 DEF Proj
  <2>5. /\ p'.format = p.format /\ p'.st = p.st /\ p'.started = p.started /\ p'.next = p.next
        /\ p'.cur = p.cur /\ p'.buf = p.buf /\ p'.calls = p.calls /\ p'.search = p.search
        /\ p'.body = p.body /\ p'.facts = p.facts
    BY <1>1, <2>3 DEF Proj
  <2> DEFINE r == Replay(p.format, snap.events)
  <2>6. Twin(p, r) => Twin(p', r)
    <3> HIDE DEF r
    <3> QED BY <2>4, <2>5 DEF Twin, Full, Rest
  <2>7. Replay(p'.format, snap'.events) = r
    BY <2>1, <2>5
  <2> HIDE DEF r
  <2>8. p'.st # "failed" => Twin(p', Replay(p'.format, snap'.events))
    BY <2>5, <2>6, <2>7 DEF ReplayInv, r
  <2> QED BY <2>8 DEF ReplayInv
<1>4. CASE UNCHANGED vars
  BY <1>4 DEF vars, ReplayInv
<1> QED BY <1>2, <1>3, <1>4 DEF Next, Emits

\* A retry that is answered from the snapshot has the body, the usage facts
\* and the end of the response it repeats: eventSnapshot.append combines
\* adjacent deltas, and the projection does with the combined event what it
\* did with the pieces.
THEOREM ReplayIsSameHolds == Spec => []ReplayIsSame
<1>1. Init => ReplayInv
  <2> SUFFICES ASSUME Init PROVE ReplayInv
    OBVIOUS
  <2>1. PICK f \in {"claude", "chat", "responses"} : p = New(f)
    BY ProjectionAssumption DEF Init
  <2>2. p.format = f /\ snap.events = <<>>
    BY <2>1 DEF Init, New
  <2>3. New(f) \in Full
    BY NewFull
  <2>4. Replay(f, <<>>) = New(f)
    <3>1. [t |-> "done"] \in Event /\ <<>> \in Seq(Event)
      BY DEF Event, LastEvent
    <3> QED BY <3>1, ReplayAppend
  <2>5. Twin(p, Replay(p.format, snap.events))
    BY <2>1, <2>2, <2>3, <2>4 DEF Twin, Rest
  <2> QED BY <2>5 DEF ReplayInv
<1>2. ReplayInv => ReplayIsSame
  BY TwinFields DEF ReplayInv, ReplayIsSame, Completed
<1> QED BY <1>1, <1>2, StreamInvariant, ReplayNext, PTL DEF Spec

-----------------------------------------------------------------------------
(***************************************************************************)
(* What a client will have once the chunks o are delivered.                *)
(***************************************************************************)
View(its, o) ==
    LET after[n \in 0..Len(o)] == IF n = 0 THEN its ELSE Receive(after[n - 1], o[n])
    IN  after[Len(o)]

LEMMA ReceiveType ==
    ASSUME NEW its \in Seq(Item), NEW c \in Chunk
    PROVE  Receive(its, c) \in Seq(Item)
<1> DEFINE n == Len(its)
<1>1. n \in Nat /\ its \in [1..n -> Item]
  OBVIOUS
<1>2. \A f \in [1..n -> Item] : f \in Seq(Item)
  BY <1>1
<1>3. CASE c.k = "open"
  <2>1. [kind |-> c.kind, text |-> c.text, open |-> TRUE] \in Item
    BY <1>3 DEF Chunk, Mark, OpenChunk, DeltaChunk, CloseChunk, Item
  <2> QED BY <1>3, <2>1 DEF Receive
<1>4. CASE c.k = "delta"
  <2>1. c.i \in Nat /\ c.text \in Pieces
    BY <1>4 DEF Chunk, Mark, OpenChunk, DeltaChunk, CloseChunk
  <2>2. CASE c.i \in 1..n
    <3> DEFINE t == its[c.i].text \o c.text
               x == [its[c.i] EXCEPT !.text = t]
    <3>1. t \in Pieces
      BY <1>1, <2>1, <2>2 DEF Item, Pieces
    <3> HIDE DEF t
    <3>2. x \in Item
      BY <1>1, <2>2, <3>1 DEF Item
    <3>3. Receive(its, c) = [its EXCEPT ![c.i] = x]
      BY <1>1, <1>4, <2>2 DEF Receive, t
    <3> HIDE DEF x
    <3>4. [its EXCEPT ![c.i] = x] \in [1..n -> Item]
      BY <1>1, <2>2, <3>2
    <3> QED BY <1>2, <3>3, <3>4
  <2>3. CASE c.i \notin 1..n
    <3>1. Receive(its, c) = its
      BY <1>1, <1>4, <2>3 DEF Receive
    <3> QED BY <3>1
  <2> QED BY <2>2, <2>3
<1>5. CASE c.k = "close"
  <2>1. CASE c.i \in 1..n
    <3> DEFINE x == [its[c.i] EXCEPT !.open = FALSE]
    <3>1. x \in Item
      BY <1>1, <2>1 DEF Item
    <3>2. Receive(its, c) = [its EXCEPT ![c.i] = x]
      BY <1>1, <1>5, <2>1 DEF Receive
    <3> HIDE DEF x
    <3>3. [its EXCEPT ![c.i] = x] \in [1..n -> Item]
      BY <1>1, <2>1, <3>1
    <3> QED BY <1>2, <3>2, <3>3
  <2>2. CASE c.i \notin 1..n
    <3>1. Receive(its, c) = its
      BY <1>1, <1>5, <2>2 DEF Receive
    <3> QED BY <3>1
  <2> QED BY <2>1, <2>2
<1>6. CASE c.k \notin {"open", "delta", "close"}
  BY <1>6 DEF Receive
<1> QED BY <1>3, <1>4, <1>5, <1>6

LEMMA ViewSteps ==
    ASSUME NEW its \in Seq(Item), NEW o \in Seq(Chunk)
    PROVE  \E g : /\ View(its, o) = g[Len(o)] /\ g[0] = its
                  /\ \A n \in 1..Len(o) : g[n] = Receive(g[n - 1], o[n])
<1> DEFINE m == Len(o)
           Is1(g) == g = [n \in 0..m |-> IF n = 0 THEN its ELSE Receive(g[n - 1], o[n])]
           step == [n \in 1..m |-> [v \in Seq(Item) |-> Receive(v, o[n])]]
           c == CHOOSE g : Is1(g)
<1>1. m \in Nat /\ \A n \in 1..m : o[n] \in Chunk
  OBVIOUS
<1>2. View(its, o) = c[m]
  BY DEF View
<1>3. \E g : Is1(g)
  <2>1. step \in [1..m -> [Seq(Item) -> Seq(Item)]]
    BY <1>1, ReceiveType
  <2>2. PICK g : /\ g \in [0..m -> Seq(Item)] /\ g[0] = its
                 /\ \A n \in 1..m : g[n] = step[n][g[n - 1]]
    <3> HIDE DEF step, m
    <3>1. \E g : Iterates(g, Seq(Item), its, m, step)
      BY <1>1, <2>1, IterationExists
    <3> QED BY <3>1 DEF Iterates
  <2>3. ASSUME NEW n \in 0..m PROVE g[n] = IF n = 0 THEN its ELSE Receive(g[n - 1], o[n])
    <3>1. CASE n = 0
      BY <2>2, <3>1
    <3>2. CASE n # 0
      <4>1. n \in 1..m /\ n - 1 \in 0..m
        BY <1>1, <3>2
      <4>2. g[n - 1] \in Seq(Item) /\ g[n] = step[n][g[n - 1]]
        BY <2>2, <4>1
      <4>3. \A v \in Seq(Item) : step[n][v] = Receive(v, o[n])
        <5>1. step[n] = [v \in Seq(Item) |-> Receive(v, o[n])]
          BY <4>1
        <5> HIDE DEF step
        <5> QED BY <5>1
      <4> HIDE DEF step
      <4> QED BY <3>2, <4>2, <4>3
    <3> QED BY <3>1, <3>2
  <2>4. g = [n \in 0..m |-> g[n]]
    BY <2>2
  <2>5. Is1(g)
    BY <2>3, <2>4
  <2> HIDE DEF Is1
  <2> QED BY <2>5
<1>4. Is1(c)
  <2> HIDE DEF Is1
  <2> QED BY <1>3
<1> HIDE DEF c
<1>5. \A n \in 0..m : c[n] = IF n = 0 THEN its ELSE Receive(c[n - 1], o[n])
  BY <1>4
<1>6. c[0] = its
  <2>1. 0 \in 0..m
    BY <1>1
  <2> QED BY <1>5, <2>1
<1>7. ASSUME NEW n \in 1..m PROVE c[n] = Receive(c[n - 1], o[n])
  BY <1>1, <1>5
<1> QED BY <1>2, <1>6, <1>7

\* One chunk more at the end.
LEMMA ViewAppend ==
    ASSUME NEW its \in Seq(Item), NEW o \in Seq(Chunk), NEW c \in Chunk
    PROVE  /\ View(its, o) \in Seq(Item)
           /\ View(its, Append(o, c)) = Receive(View(its, o), c)
<1> DEFINE m == Len(o)
           o2 == Append(o, c)
<1>1. m \in Nat /\ o2 \in Seq(Chunk) /\ Len(o2) = m + 1 /\ o2[m + 1] = c /\ \A n \in 1..m : o2[n] = o[n]
  OBVIOUS
<1>2. PICK g : /\ View(its, o) = g[m] /\ g[0] = its
               /\ \A n \in 1..m : g[n] = Receive(g[n - 1], o[n])
  BY ViewSteps
<1>3. PICK h : /\ View(its, o2) = h[Len(o2)] /\ h[0] = its
               /\ \A n \in 1..Len(o2) : h[n] = Receive(h[n - 1], o2[n])
  BY <1>1, ViewSteps
<1> DEFINE T == {n \in 0..m : h[n] = g[n] /\ g[n] \in Seq(Item)}
<1> HIDE DEF o2
<1>4. 0 \in T
  BY <1>1, <1>2, <1>3
<1>5. ASSUME NEW n \in 1..m, n - 1 \in T PROVE n \in T
  <2>1. h[n - 1] = g[n - 1] /\ g[n - 1] \in Seq(Item)
    BY <1>5
  <2>2. n \in 1..Len(o2) /\ o2[n] = o[n] /\ o[n] \in Chunk /\ n \in 0..m
    BY <1>1
  <2>3. h[n] = Receive(h[n - 1], o[n]) /\ g[n] = Receive(g[n - 1], o[n])
    BY <1>2, <1>3, <2>2
  <2> QED BY <2>1, <2>2, <2>3, ReceiveType
<1>6. m \in T
  <2> HIDE DEF T
  <2>1. \A n \in 0..m : n \in T
    BY <1>1, <1>4, <1>5, UpTo
  <2> QED BY <1>1, <2>1
<1>7. h[m] = g[m] /\ g[m] \in Seq(Item)
  BY <1>6
<1>8. h[m + 1] = Receive(h[m], c)
  <2>1. m + 1 \in 1..Len(o2) /\ (m + 1) - 1 = m
    BY <1>1
  <2> QED BY <1>1, <1>3, <2>1
<1> QED BY <1>1, <1>2, <1>3, <1>7, <1>8 DEF o2

LEMMA ViewEmpty ==
    ASSUME NEW its \in Seq(Item)
    PROVE  View(its, <<>>) = its
<1>1. <<>> \in Seq(Chunk) /\ Len(<<>>) = 0
  OBVIOUS
<1>2. PICK o \in Seq(Chunk) : o = <<>>
  BY <1>1
<1>3. PICK g : /\ View(its, o) = g[Len(o)] /\ g[0] = its
               /\ \A n \in 1..Len(o) : g[n] = Receive(g[n - 1], o[n])
  BY ViewSteps
<1> QED BY <1>1, <1>2, <1>3

\* One chunk is delivered.
LEMMA ViewTail ==
    ASSUME NEW its \in Seq(Item), NEW o \in Seq(Chunk), o # <<>>
    PROVE  View(Receive(its, Head(o)), Tail(o)) = View(its, o)
<1> DEFINE m == Len(o)
           o2 == Tail(o)
           its2 == Receive(its, Head(o))
<1>1. /\ m \in Nat /\ m # 0 /\ o2 \in Seq(Chunk) /\ Len(o2) = m - 1 /\ Head(o) = o[1] /\ Head(o) \in Chunk
      /\ \A n \in 1..(m - 1) : o2[n] = o[n + 1]
  OBVIOUS
<1>2. its2 \in Seq(Item)
  BY <1>1, ReceiveType
<1>3. PICK g : /\ View(its, o) = g[m] /\ g[0] = its
               /\ \A n \in 1..m : g[n] = Receive(g[n - 1], o[n])
  BY ViewSteps
<1> HIDE DEF o2, its2
<1>4. PICK h : /\ View(its2, o2) = h[Len(o2)] /\ h[0] = its2
               /\ \A n \in 1..Len(o2) : h[n] = Receive(h[n - 1], o2[n])
  BY <1>1, <1>2, ViewSteps
<1> DEFINE T == {n \in 0..(m - 1) : h[n] = g[n + 1]}
<1>5. 0 \in T
  <2>1. 1 \in 1..m /\ 1 - 1 = 0 /\ 0 \in 0..(m - 1) /\ 0 + 1 = 1
    BY <1>1
  <2>2. g[1] = its2
    BY <1>1, <1>3, <2>1 DEF its2
  <2> QED BY <1>4, <2>1, <2>2
<1>6. ASSUME NEW n \in 1..(m - 1), n - 1 \in T PROVE n \in T
  <2>1. h[n - 1] = g[(n - 1) + 1]
    BY <1>6
  <2>2. /\ n \in 1..Len(o2) /\ o2[n] = o[n + 1] /\ n \in 0..(m - 1) /\ n + 1 \in 1..m
        /\ (n - 1) + 1 = n /\ (n + 1) - 1 = n
    BY <1>1
  <2>3. h[n] = Receive(h[n - 1], o[n + 1])
    BY <1>4, <2>2
  <2>4. g[n + 1] = Receive(g[n], o[n + 1])
    BY <1>3, <2>2
  <2> QED BY <2>1, <2>2, <2>3, <2>4
<1>7. m - 1 \in T
  <2> HIDE DEF T
  <2>1. m - 1 \in Nat
    BY <1>1
  <2>2. \A n \in 0..(m - 1) : n \in T
    BY <1>5, <1>6, <2>1, UpTo
  <2> QED BY <2>1, <2>2
<1>8. h[m - 1] = g[(m - 1) + 1] /\ (m - 1) + 1 = m
  BY <1>1, <1>7
<1> QED BY <1>1, <1>3, <1>4, <1>8 DEF o2, its2

-----------------------------------------------------------------------------
(***************************************************************************)
(* The text of the items.                                                  *)
(***************************************************************************)
Piece(x) == IF x.kind = "text" THEN x.text ELSE <<>>

LEMMA PieceType ==
    ASSUME NEW x \in Item
    PROVE  Piece(x) \in Pieces
BY BlockKinds DEF Piece, Item

LEMMA Joins ==
    /\ \A s, t \in Pieces : s \o t \in Pieces
    /\ \A s, t, u \in Pieces : (s \o t) \o u = s \o (t \o u)
    /\ \A s \in Pieces : s \o <<>> = s /\ <<>> \o s = s
<1>1. \A s, t \in Pieces : s \o t \in Pieces
  BY ConcatProperties DEF Pieces
<1>2. \A s, t, u \in Pieces : (s \o t) \o u = s \o (t \o u)
  BY ConcatAssociative DEF Pieces
<1>3. \A s \in Pieces : s \o <<>> = s /\ <<>> \o s = s
  BY ConcatEmptySeq DEF Pieces
<1> QED BY <1>1, <1>2, <1>3

LEMMA TextSteps ==
    ASSUME NEW its \in Seq(Item)
    PROVE  \E g : /\ TextOf(its) = g[Len(its)] /\ g[0] = <<>>
                  /\ \A n \in 0..Len(its) : g[n] \in Pieces
                  /\ \A n \in 1..Len(its) : g[n] = g[n - 1] \o Piece(its[n])
<1> DEFINE m == Len(its)
           Is1(g) == g = [n \in 0..m |-> IF n = 0 THEN <<>>
                                         ELSE g[n - 1] \o (IF its[n].kind = "text" THEN its[n].text ELSE <<>>)]
           step == [n \in 1..m |-> [s \in Pieces |-> s \o Piece(its[n])]]
           c == CHOOSE g : Is1(g)
<1>1. m \in Nat /\ \A n \in 1..m : Piece(its[n]) \in Pieces
  BY PieceType
<1>2. TextOf(its) = c[m]
  BY DEF TextOf
<1>3. \E g : Is1(g)
  <2>1. step \in [1..m -> [Pieces -> Pieces]]
    BY <1>1, Joins
  <2>2. PICK g : /\ g \in [0..m -> Pieces] /\ g[0] = <<>>
                 /\ \A n \in 1..m : g[n] = step[n][g[n - 1]]
    <3> HIDE DEF step, m
    <3>1. \E g : Iterates(g, Pieces, <<>>, m, step)
      BY <1>1, <2>1, BlockKinds, IterationExists
    <3> QED BY <3>1 DEF Iterates
  <2>3. ASSUME NEW n \in 0..m
        PROVE  g[n] = IF n = 0 THEN <<>> ELSE g[n - 1] \o (IF its[n].kind = "text" THEN its[n].text ELSE <<>>)
    <3>1. CASE n = 0
      BY <2>2, <3>1
    <3>2. CASE n # 0
      <4>1. n \in 1..m /\ n - 1 \in 0..m
        BY <1>1, <3>2
      <4>2. g[n - 1] \in Pieces /\ g[n] = step[n][g[n - 1]]
        BY <2>2, <4>1
      <4>3. \A s \in Pieces : step[n][s] = s \o Piece(its[n])
        <5>1. step[n] = [s \in Pieces |-> s \o Piece(its[n])]
          BY <4>1
        <5> HIDE DEF step
        <5> QED BY <5>1
      <4> HIDE DEF step
      <4>4. g[n] = g[n - 1] \o Piece(its[n])
        BY <4>2, <4>3
      <4> QED BY <3>2, <4>4 DEF Piece
    <3> QED BY <3>1, <3>2
  <2>4. g = [n \in 0..m |-> g[n]]
    BY <2>2
  <2>5. Is1(g)
    BY <2>3, <2>4
  <2> HIDE DEF Is1
  <2> QED BY <2>5
<1>4. Is1(c)
  <2> HIDE DEF Is1
  <2> QED BY <1>3
<1> HIDE DEF c
<1>5. \A n \in 0..m : c[n] = IF n = 0 THEN <<>>
                             ELSE c[n - 1] \o (IF its[n].kind = "text" THEN its[n].text ELSE <<>>)
  BY <1>4
<1>6. c[0] = <<>>
  <2>1. 0 \in 0..m
    BY <1>1
  <2> QED BY <1>5, <2>1
<1>7. ASSUME NEW n \in 1..m PROVE c[n] = c[n - 1] \o Piece(its[n])
  <2>1. n \in 0..m /\ n # 0
    BY <1>1
  <2>2. Piece(its[n]) = IF its[n].kind = "text" THEN its[n].text ELSE <<>>
    BY DEF Piece
  <2> QED BY <1>5, <2>1, <2>2
<1> DEFINE T == {n \in 0..m : c[n] \in Pieces}
<1>8. \A n \in 0..m : n \in T
  <2>1. 0 \in T
    BY <1>1, <1>6, BlockKinds
  <2>2. ASSUME NEW n \in 1..m, n - 1 \in T PROVE n \in T
    <3>1. c[n - 1] \in Pieces /\ n \in 0..m
      BY <2>2
    <3>2. c[n - 1] \o Piece(its[n]) \in Pieces
      BY <1>1, <3>1, Joins
    <3> QED BY <1>7, <3>1, <3>2
  <2> HIDE DEF T
  <2> QED BY <1>1, <2>1, <2>2, UpTo
<1> QED BY <1>2, <1>6, <1>7, <1>8

\* Items that say the same in the same places, and t more in the last place
\* that says anything.
LEMMA TextSame ==
    ASSUME NEW v \in Seq(Item), NEW w \in Seq(Item), Len(w) = Len(v), NEW i \in 1..Len(v), NEW t \in Pieces,
           \A n \in 1..Len(v) : n # i => Piece(w[n]) = Piece(v[n]),
           Piece(w[i]) = Piece(v[i]) \o t,
           t = <<>> \/ \A n \in 1..Len(v) : i < n => Piece(v[n]) = <<>>
    PROVE  TextOf(w) = TextOf(v) \o t
<1> DEFINE m == Len(v)
<1>1. m \in Nat /\ \A n \in 1..m : Piece(v[n]) \in Pieces /\ Piece(w[n]) \in Pieces
  BY PieceType
<1>2. PICK g : /\ TextOf(v) = g[Len(v)] /\ g[0] = <<>>
               /\ \A n \in 0..Len(v) : g[n] \in Pieces
               /\ \A n \in 1..Len(v) : g[n] = g[n - 1] \o Piece(v[n])
  BY TextSteps
<1>3. PICK h : /\ TextOf(w) = h[Len(w)] /\ h[0] = <<>>
               /\ \A n \in 0..Len(w) : h[n] \in Pieces
               /\ \A n \in 1..Len(w) : h[n] = h[n - 1] \o Piece(w[n])
  BY TextSteps
<1> DEFINE T == {n \in 0..m : h[n] = IF n < i THEN g[n] ELSE g[n] \o t}
<1>4. 0 \in T
  <2>1. 0 \in 0..m /\ 0 < i
    BY <1>1
  <2> QED BY <1>2, <1>3, <2>1
<1>5. ASSUME NEW n \in 1..m, n - 1 \in T PROVE n \in T
  <2>1. n \in 0..m /\ n - 1 \in 0..m /\ (n < i \/ n = i \/ i < n) /\ (n <= i => n - 1 < i) /\ (i < n => ~(n - 1 < i) /\ ~(n < i))
    BY <1>1
  <2>2. h[n - 1] = IF n - 1 < i THEN g[n - 1] ELSE g[n - 1] \o t
    BY <1>5
  <2>3. /\ g[n] = g[n - 1] \o Piece(v[n]) /\ h[n] = h[n - 1] \o Piece(w[n])
        /\ g[n - 1] \in Pieces /\ g[n] \in Pieces /\ Piece(v[n]) \in Pieces
    BY <1>1, <1>2, <1>3, <2>1
  <2>4. CASE n < i
    <3>1. Piece(w[n]) = Piece(v[n]) /\ h[n - 1] = g[n - 1]
      BY <2>1, <2>2, <2>4
    <3>2. h[n] = g[n]
      BY <2>3, <3>1
    <3> QED BY <2>1, <2>4, <3>2
  <2>5. CASE n = i
    <3>1. h[n] = g[n - 1] \o (Piece(v[n]) \o t)
      <4>1. Piece(w[n]) = Piece(v[n]) \o t /\ h[n - 1] = g[n - 1]
        BY <2>1, <2>2, <2>5
      <4> QED BY <2>3, <4>1
    <3>2. (g[n - 1] \o Piece(v[n])) \o t = g[n - 1] \o (Piece(v[n]) \o t)
      BY <2>3, Joins
    <3>3. h[n] = g[n] \o t
      BY <2>3, <3>1, <3>2
    <3> QED BY <2>1, <2>5, <3>3
  <2>6. CASE i < n
    <3>1. h[n] = (g[n - 1] \o t) \o Piece(v[n])
      <4>1. Piece(w[n]) = Piece(v[n]) /\ h[n - 1] = g[n - 1] \o t
        BY <2>1, <2>2, <2>6
      <4> QED BY <2>3, <4>1
    <3>2. (g[n - 1] \o t) \o Piece(v[n]) = g[n] \o t
      <4>1. CASE t = <<>>
        BY <2>3, <4>1, Joins
      <4>2. CASE Piece(v[n]) = <<>>
        <5>1. g[n - 1] \o t \in Pieces
          BY <2>3, Joins
        <5> QED BY <2>3, <4>2, <5>1, Joins
      <4> QED BY <2>6, <4>1, <4>2
    <3> QED BY <2>1, <2>6, <3>1, <3>2
  <2> QED BY <2>1, <2>4, <2>5, <2>6
<1>6. m \in T
  <2> HIDE DEF T
  <2>1. \A n \in 0..m : n \in T
    BY <1>1, <1>4, <1>5, UpTo
  <2> QED BY <1>1, <2>1
<1>7. h[m] = g[m] \o t
  <2>1. ~(m < i)
    BY <1>1
  <2> QED BY <1>6, <2>1
<1> QED BY <1>2, <1>3, <1>7

LEMMA TextAppend ==
    ASSUME NEW v \in Seq(Item), NEW x \in Item
    PROVE  TextOf(v) \in Pieces /\ TextOf(Append(v, x)) = TextOf(v) \o Piece(x)
<1> DEFINE m == Len(v)
           w == Append(v, x)
<1>1. m \in Nat /\ w \in Seq(Item) /\ Len(w) = m + 1 /\ w[m + 1] = x /\ \A n \in 1..m : w[n] = v[n]
  OBVIOUS
<1>2. PICK g : /\ TextOf(v) = g[Len(v)] /\ g[0] = <<>>
               /\ \A n \in 0..Len(v) : g[n] \in Pieces
               /\ \A n \in 1..Len(v) : g[n] = g[n - 1] \o Piece(v[n])
  BY TextSteps
<1> HIDE DEF w
<1>3. PICK h : /\ TextOf(w) = h[Len(w)] /\ h[0] = <<>>
               /\ \A n \in 0..Len(w) : h[n] \in Pieces
               /\ \A n \in 1..Len(w) : h[n] = h[n - 1] \o Piece(w[n])
  BY <1>1, TextSteps
<1> DEFINE T == {n \in 0..m : h[n] = g[n]}
<1>4. 0 \in T
  BY <1>1, <1>2, <1>3
<1>5. ASSUME NEW n \in 1..m, n - 1 \in T PROVE n \in T
  <2>1. h[n - 1] = g[n - 1]
    BY <1>5
  <2>2. n \in 1..Len(w) /\ w[n] = v[n] /\ n \in 0..m
    BY <1>1
  <2>3. h[n] = h[n - 1] \o Piece(v[n]) /\ g[n] = g[n - 1] \o Piece(v[n])
    BY <1>2, <1>3, <2>2
  <2> QED BY <2>1, <2>2, <2>3
<1>6. m \in T
  <2> HIDE DEF T
  <2>1. \A n \in 0..m : n \in T
    BY <1>1, <1>4, <1>5, UpTo
  <2> QED BY <1>1, <2>1
<1>7. h[m] = g[m] /\ g[m] \in Pieces
  <2>1. m \in 0..m
    BY <1>1
  <2> QED BY <1>2, <1>6, <2>1
<1>8. h[m + 1] = h[m] \o Piece(x)
  <2>1. m + 1 \in 1..Len(w) /\ (m + 1) - 1 = m
    BY <1>1
  <2> QED BY <1>1, <1>3, <2>1
<1> QED BY <1>1, <1>2, <1>3, <1>7, <1>8 DEF w

LEMMA TextEmpty == TextOf(<<>>) = <<>>
<1>1. <<>> \in Seq(Item) /\ Len(<<>>) = 0
  OBVIOUS
<1>2. PICK v \in Seq(Item) : v = <<>>
  BY <1>1
<1>3. PICK g : /\ TextOf(v) = g[Len(v)] /\ g[0] = <<>>
               /\ \A n \in 0..Len(v) : g[n] \in Pieces
               /\ \A n \in 1..Len(v) : g[n] = g[n - 1] \o Piece(v[n])
  BY TextSteps
<1> QED BY <1>1, <1>2, <1>3

-----------------------------------------------------------------------------
(***************************************************************************)
(* What one chunk does to the items.                                       *)
(***************************************************************************)
Grown(w, v, kind, text, open) ==
    /\ w \in Seq(Item) /\ Len(w) = Len(v) + 1
    /\ \A j \in 1..Len(v) : w[j] = v[j]
    /\ w[Len(v) + 1] = [kind |-> kind, text |-> text, open |-> open]
    /\ kind # "text" \/ text = <<>> => TextOf(w) = TextOf(v)

Shut(w, v, i) ==
    /\ w \in Seq(Item) /\ Len(w) = Len(v) /\ TextOf(w) = TextOf(v)
    /\ \A j \in 1..Len(v) : j # i => w[j] = v[j]
    /\ w[i].kind = v[i].kind /\ w[i].text = v[i].text /\ ~w[i].open

Lengthened(w, v, i, text) ==
    /\ w \in Seq(Item) /\ Len(w) = Len(v)
    /\ \A j \in 1..Len(v) : j # i => w[j] = v[j]
    /\ w[i].kind = v[i].kind /\ w[i].text = v[i].text \o text /\ w[i].open = v[i].open
    /\ v[i].kind # "text" => TextOf(w) = TextOf(v)
    /\ v[i].kind = "text" /\ (\A j \in 1..Len(v) : i < j => v[j].kind # "text") =>
          TextOf(w) = TextOf(v) \o text

LEMMA Appends ==
    ASSUME NEW v \in Seq(Item), NEW kind \in Kinds, NEW text \in Pieces, NEW open \in BOOLEAN
    PROVE  Grown(Append(v, [kind |-> kind, text |-> text, open |-> open]), v, kind, text, open)
<1> DEFINE x == [kind |-> kind, text |-> text, open |-> open]
           w == Append(v, x)
<1>1. x \in Item /\ x.kind = kind /\ x.text = text
  BY DEF Item
<1> HIDE DEF x
<1>2. w \in Seq(Item) /\ Len(w) = Len(v) + 1 /\ (\A j \in 1..Len(v) : w[j] = v[j]) /\ w[Len(v) + 1] = x
  BY <1>1
<1>3. TextOf(v) \in Pieces /\ TextOf(w) = TextOf(v) \o Piece(x)
  BY <1>1, TextAppend
<1>4. kind # "text" \/ text = <<>> => TextOf(w) = TextOf(v)
  <2>1. kind # "text" \/ text = <<>> => Piece(x) = <<>>
    BY <1>1 DEF Piece
  <2> QED BY <1>3, <2>1, Joins
<1> HIDE DEF w
<1>5. Grown(w, v, kind, text, open)
  BY <1>2, <1>4 DEF Grown, x
<1> QED BY <1>5 DEF w, x

LEMMA ReceiveOpen ==
    ASSUME NEW v \in Seq(Item), NEW i, NEW kind \in Kinds, NEW text \in Pieces
    PROVE  Grown(Receive(v, [k |-> "open", i |-> i, kind |-> kind, text |-> text]), v, kind, text, TRUE)
<1> DEFINE c == [k |-> "open", i |-> i, kind |-> kind, text |-> text]
<1>1. Receive(v, c) = Append(v, [kind |-> kind, text |-> text, open |-> TRUE])
  BY DEF Receive
<1> QED BY <1>1, Appends

LEMMA ReceiveClose ==
    ASSUME NEW v \in Seq(Item), NEW i \in 1..Len(v)
    PROVE  Shut(Receive(v, [k |-> "close", i |-> i]), v, i)
<1> DEFINE c == [k |-> "close", i |-> i]
           n == Len(v)
           x == [v[i] EXCEPT !.open = FALSE]
           w == Receive(v, c)
<1>1. n \in Nat /\ v \in [1..n -> Item] /\ v[i] \in Item
  OBVIOUS
<1>2. x \in Item /\ x.kind = v[i].kind /\ x.text = v[i].text /\ ~x.open
  BY <1>1 DEF Item
<1>3. w = [v EXCEPT ![i] = x]
  BY DEF Receive
<1> HIDE DEF x, w
<1>4. w \in [1..n -> Item] /\ w[i] = x /\ \A j \in 1..n : j # i => w[j] = v[j]
  BY <1>1, <1>2, <1>3
<1>5. w \in Seq(Item) /\ Len(w) = n
  BY <1>1, <1>4
<1>6. TextOf(w) = TextOf(v)
  <2>1. /\ \A j \in 1..n : j # i => Piece(w[j]) = Piece(v[j])
        /\ Piece(w[i]) = Piece(v[i])
    BY <1>2, <1>4 DEF Piece
  <2>2. PICK t \in Pieces : t = <<>>
    BY BlockKinds
  <2>3. Piece(w[i]) = Piece(v[i]) \o t
    BY <1>1, <2>1, <2>2, PieceType, Joins
  <2>4. TextOf(w) = TextOf(v) \o t
    BY <1>5, <2>1, <2>2, <2>3, TextSame
  <2>5. TextOf(v) \in Pieces
    BY <1>1, TextAppend
  <2> QED BY <2>2, <2>4, <2>5, Joins
<1>7. Shut(w, v, i)
  BY <1>2, <1>4, <1>5, <1>6 DEF Shut
<1> QED BY <1>7 DEF w

LEMMA ReceiveDelta ==
    ASSUME NEW v \in Seq(Item), NEW i \in 1..Len(v), NEW text \in Pieces
    PROVE  Lengthened(Receive(v, [k |-> "delta", i |-> i, text |-> text]), v, i, text)
<1> DEFINE c == [k |-> "delta", i |-> i, text |-> text]
           n == Len(v)
           t == v[i].text \o text
           x == [v[i] EXCEPT !.text = t]
           w == Receive(v, c)
<1>1. n \in Nat /\ v \in [1..n -> Item] /\ v[i] \in Item
  OBVIOUS
<1>2. t \in Pieces
  BY <1>1, Joins DEF Item
<1>3. w = [v EXCEPT ![i] = x]
  BY DEF Receive
<1>4. x \in Item /\ x.kind = v[i].kind /\ x.text = t /\ x.open = v[i].open
  <2> HIDE DEF t
  <2> QED BY <1>1, <1>2 DEF Item
<1> HIDE DEF x, w
<1>5. w \in [1..n -> Item] /\ w[i] = x /\ \A j \in 1..n : j # i => w[j] = v[j]
  BY <1>1, <1>3, <1>4
<1>6. w \in Seq(Item) /\ Len(w) = n
  BY <1>1, <1>5
<1>7. \A j \in 1..n : j # i => Piece(w[j]) = Piece(v[j])
  BY <1>5
<1>8. ASSUME v[i].kind # "text" PROVE TextOf(w) = TextOf(v)
  <2>1. Piece(w[i]) = Piece(v[i])
    BY <1>4, <1>5, <1>8 DEF Piece
  <2>2. PICK s \in Pieces : s = <<>>
    BY BlockKinds
  <2>3. Piece(w[i]) = Piece(v[i]) \o s
    BY <1>1, <2>1, <2>2, PieceType, Joins
  <2>4. TextOf(w) = TextOf(v) \o s
    BY <1>6, <1>7, <2>2, <2>3, TextSame
  <2>5. TextOf(v) \in Pieces
    BY <1>1, TextAppend
  <2> QED BY <2>2, <2>4, <2>5, Joins
<1>9. ASSUME v[i].kind = "text", \A j \in 1..Len(v) : i < j => v[j].kind # "text"
      PROVE  TextOf(w) = TextOf(v) \o text
  <2>1. Piece(w[i]) = Piece(v[i]) \o text
    BY <1>4, <1>5, <1>9 DEF Piece
  <2>2. \A j \in 1..Len(v) : i < j => Piece(v[j]) = <<>>
    BY <1>9 DEF Piece
  <2> QED BY <1>6, <1>7, <2>1, <2>2, TextSame
<1>10. Lengthened(w, v, i, text)
  BY <1>4, <1>5, <1>6, <1>8, <1>9 DEF Lengthened
<1> QED BY <1>10 DEF w

\* An item that is opened and closed at once.
LEMMA ReceiveWhole ==
    ASSUME NEW v \in Seq(Item), NEW kind \in Kinds, NEW text \in Pieces, kind # "text"
    PROVE  Grown(Receive(Receive(v, [k |-> "open", i |-> Len(v) + 1, kind |-> kind, text |-> text]),
                         [k |-> "close", i |-> Len(v) + 1]), v, kind, text, FALSE)
<1> DEFINE n == Len(v) + 1
           u == Receive(v, [k |-> "open", i |-> n, kind |-> kind, text |-> text])
           w == Receive(u, [k |-> "close", i |-> n])
<1>1. Grown(u, v, kind, text, TRUE)
  BY ReceiveOpen
<1>2. n \in Nat /\ n # 0 /\ \A j \in 1..Len(v) : j # n /\ j \in 1..n
  OBVIOUS
<1> HIDE DEF u
<1>3. u \in Seq(Item) /\ Len(u) = n /\ n \in 1..Len(u)
  BY <1>1, <1>2 DEF Grown
<1>4. Shut(w, u, n)
  BY <1>3, ReceiveClose
<1> HIDE DEF w
<1>5. /\ u[n] = [kind |-> kind, text |-> text, open |-> TRUE] /\ TextOf(u) = TextOf(v)
      /\ \A j \in 1..Len(v) : u[j] = v[j]
  BY <1>1 DEF Grown
<1>6. /\ w \in Seq(Item) /\ Len(w) = n /\ TextOf(w) = TextOf(v) /\ w[n] \in Item
      /\ w[n].kind = kind /\ w[n].text = text /\ ~w[n].open
      /\ \A j \in 1..Len(v) : w[j] = v[j]
  BY <1>2, <1>3, <1>4, <1>5 DEF Shut
<1>7. w[n] = [kind |-> kind, text |-> text, open |-> FALSE]
  BY <1>6 DEF Item
<1>8. Grown(w, v, kind, text, FALSE)
  BY <1>6, <1>7 DEF Grown
<1> QED BY <1>8 DEF u, w

LEMMA ReceiveMark ==
    ASSUME NEW v, NEW k \in {"start", "end", "error"}
    PROVE  Receive(v, [k |-> k]) = v
BY DEF Receive

-----------------------------------------------------------------------------
(***************************************************************************)
(* What the projection keeps beside the stream agrees with the items the   *)
(* client will have.  While a method runs, the text of one block may be    *)
(* kept already and not yet written (kind, text).                          *)
(***************************************************************************)
Current(q, v, kind, text) ==
    /\ \A b \in Blocks : q.cur[b] # NoIndex =>
          /\ q.cur[b] \in 1..Len(v) /\ v[q.cur[b]].kind = b /\ v[q.cur[b]].open
          /\ q.buf[b] = (IF b = kind THEN v[q.cur[b]].text \o text ELSE v[q.cur[b]].text)
    /\ \A b \in Blocks : q.cur[b] = NoIndex /\ (b = "text" \/ q.format # "claude") =>
          q.buf[b] = (IF b = kind THEN text ELSE <<>>)
    /\ q.format = "claude" => q.cur["thinking"] = NoIndex
    /\ q.cur["text"] # NoIndex => \A j \in 1..Len(v) : q.cur["text"] < j => v[j].kind # "text"

\* Every closed item is stored once, as it is.
Kept(body, v) ==
    /\ \A j \in 1..Len(body) : /\ body[j].i \in 1..Len(v) /\ ~v[body[j].i].open
                               /\ v[body[j].i].kind = body[j].kind /\ v[body[j].i].text = body[j].text
    /\ \A j, k \in 1..Len(body) : body[j].i = body[k].i => j = k
    /\ \A i \in 1..Len(v) : ~v[i].open => \E j \in 1..Len(body) : body[j].i = i

\* The items of searches.
Sought(q, v, searched) ==
    q.format = "responses" => \A h \in Hosted : q.search[h] # NoIndex =>
       /\ q.search[h] \in 1..Len(v) /\ v[q.search[h]].kind = "search" /\ v[q.search[h]].text = <<>>
       /\ h \notin searched => v[q.search[h]].open
       /\ \A g \in Hosted : q.search[g] = q.search[h] => g = h

Tells(q, v, said, searched, kind, text) ==
    /\ v \in Seq(Item) /\ q.next = Len(v) + 1 /\ TextOf(v) = said
    /\ Current(q, v, kind, text) /\ Kept(q.body, v) /\ Sought(q, v, searched)

Told(its, q, said, searched, kind, text) ==
    q \in Full /\ Tells(q, View(its, q.out), said, searched, kind, text)

\* Nothing is written and nothing kept is changed.
LEMMA SameTold ==
    ASSUME NEW its, NEW q, NEW r, NEW said, NEW searched, NEW kind, NEW text,
           Told(its, q, said, searched, kind, text),
           r \in Full, View(its, r.out) = View(its, q.out), r.format = q.format, r.search = q.search,
           r.next = q.next, r.cur = q.cur, r.buf = q.buf, r.body = q.body
    PROVE  Told(its, r, said, searched, kind, text)
<1> DEFINE v == View(its, q.out)
<1>1. Tells(q, v, said, searched, kind, text) /\ View(its, r.out) = v
  BY DEF Told
<1> HIDE DEF v
<1>2. Tells(r, v, said, searched, kind, text)
  BY <1>1 DEF Tells, Current, Sought
<1> QED BY <1>1, <1>2 DEF Told

LEMMA StartTold ==
    ASSUME NEW its \in Seq(Item), NEW q, NEW said, NEW searched, NEW kind, NEW text,
           Told(its, q, said, searched, kind, text)
    PROVE  Told(its, Start(q), said, searched, kind, text)
<1> DEFINE r == Start(q)
<1>1. q \in Full
  BY DEF Told
<1>2. /\ r \in Full /\ Rest(r, q) /\ r.next = q.next /\ r.cur = q.cur
      /\ r.buf = q.buf /\ r.body = q.body /\ r.out = StartOut(q)
  BY <1>1, StartFields
<1> HIDE DEF r
<1>3. View(its, StartOut(q)) = View(its, q.out)
  <2>1. [k |-> "start"] \in Chunk /\ q.out \in Seq(Chunk)
    BY <1>1, FullFields DEF Chunk, Mark
  <2>2. View(its, Append(q.out, [k |-> "start"])) = View(its, q.out)
    BY <2>1, ViewAppend, ReceiveMark
  <2> QED BY <2>2 DEF StartOut
<1>4. Told(its, r, said, searched, kind, text)
  BY <1>2, <1>3, SameTold DEF Rest
<1> QED BY <1>4 DEF r

LEMMA EndTold ==
    ASSUME NEW its \in Seq(Item), NEW q, NEW said, NEW searched,
           Told(its, q, said, searched, "none", <<>>),
           NEW st \in {"done", "parked", "failed"}, NEW k \in {"end", "error"}
    PROVE  Told(its, Ending(q, st, k), said, searched, "none", <<>>)
<1> DEFINE r == Ending(q, st, k)
<1>1. q \in Full
  BY DEF Told
<1>2. /\ r \in Full /\ r.format = q.format /\ r.search = q.search /\ r.next = q.next
      /\ r.cur = q.cur /\ r.buf = q.buf /\ r.body = q.body /\ r.out = Append(q.out, [k |-> k])
  <2>1. LET x == Ending(q, st, k)
        IN  /\ x \in Full /\ x.format = q.format /\ x.search = q.search /\ x.next = q.next
            /\ x.cur = q.cur /\ x.buf = q.buf /\ x.body = q.body
            /\ x.out = Append(q.out, [k |-> k])
    <3> HIDE DEF r
    <3> QED BY <1>1, EndFields
  <2> QED BY <2>1
<1> HIDE DEF r
<1>3. View(its, r.out) = View(its, q.out)
  <2>1. [k |-> k] \in Chunk /\ q.out \in Seq(Chunk)
    BY <1>1, FullFields DEF Chunk, Mark
  <2> QED BY <1>2, <2>1, ViewAppend, ReceiveMark
<1>4. Told(its, r, said, searched, "none", <<>>)
  BY <1>2, <1>3, SameTold
<1> QED BY <1>4 DEF r

LEMMA ToolCallTold ==
    ASSUME NEW its, NEW q, NEW said, NEW searched,
           Told(its, q, said, searched, "none", <<>>), NEW e \in CallEvent
    PROVE  Told(its, OnToolCall(q, e), said, searched, "none", <<>>)
<1> DEFINE r == OnToolCall(q, e)
<1>1. q \in Full
  BY DEF Told
<1>2. /\ r \in Full /\ r.format = q.format /\ r.search = q.search /\ r.next = q.next
      /\ r.cur = q.cur /\ r.buf = q.buf /\ r.body = q.body /\ r.out = q.out
  BY <1>1, ToolCallFields
<1> HIDE DEF r
<1>3. Told(its, r, said, searched, "none", <<>>)
  BY <1>2, SameTold
<1> QED BY <1>3 DEF r

LEMMA ObservedTold ==
    ASSUME NEW its, NEW q, NEW said, NEW searched,
           Told(its, q, said, searched, "none", <<>>), NEW e \in Event
    PROVE  Told(its, Observed(q, e), said, searched, "none", <<>>)
<1> DEFINE r == Observed(q, e)
<1>1. q \in Full
  BY DEF Told
<1>2. /\ r \in Full /\ r.format = q.format /\ r.search = q.search /\ r.next = q.next
      /\ r.cur = q.cur /\ r.buf = q.buf /\ r.body = q.body /\ r.out = q.out
  BY <1>1, ObservedFields
<1> HIDE DEF r
<1>3. Told(its, r, said, searched, "none", <<>>)
  BY <1>2, SameTold
<1> QED BY <1>3 DEF r

\* The text of a block is kept before it is written.
LEMMA BufferedTold ==
    ASSUME NEW its \in Seq(Item), NEW q, NEW said, NEW searched,
           Told(its, q, said, searched, "none", <<>>), NEW kind \in Blocks, NEW text \in Pieces
    PROVE  Told(its, Buffered(q, kind, text), said, searched, kind, text)
<1> DEFINE r == Buffered(q, kind, text)
           v == View(its, q.out)
<1>1. q \in Full /\ Tells(q, v, said, searched, "none", <<>>)
  BY DEF Told
<1>2. /\ r \in Full /\ Rest(r, q) /\ r.next = q.next /\ r.cur = q.cur
      /\ r.buf = [q.buf EXCEPT ![kind] = @ \o text] /\ r.body = q.body /\ r.out = q.out
  BY ZenonT(60), <1>1, BufferedFields
<1> HIDE DEF r, v
<1>3. q.buf \in [Blocks -> Pieces] /\ \A b \in Blocks : b # "none"
  BY <1>1, BlockKinds, FullFields
<1>4. r.buf[kind] = q.buf[kind] \o text /\ \A b \in Blocks : b # kind => r.buf[b] = q.buf[b]
  BY <1>2, <1>3
<1>5. <<>> \o text = text
  BY Joins
<1>6. Current(r, v, kind, text)
  <2>1. Current(q, v, "none", <<>>) /\ r.format = q.format /\ r.cur = q.cur
    BY <1>1, <1>2 DEF Tells, Rest
  <2>2. ASSUME NEW b \in Blocks, q.cur[b] # NoIndex
        PROVE  /\ q.cur[b] \in 1..Len(v) /\ v[q.cur[b]].kind = b /\ v[q.cur[b]].open
               /\ r.buf[b] = (IF b = kind THEN v[q.cur[b]].text \o text ELSE v[q.cur[b]].text)
    <3>1. /\ q.cur[b] \in 1..Len(v) /\ v[q.cur[b]].kind = b /\ v[q.cur[b]].open
          /\ q.buf[b] = v[q.cur[b]].text
      BY <1>3, <2>1, <2>2 DEF Current
    <3> QED BY <1>4, <3>1
  <2>3. ASSUME NEW b \in Blocks, q.cur[b] = NoIndex, b = "text" \/ q.format # "claude"
        PROVE  r.buf[b] = (IF b = kind THEN text ELSE <<>>)
    <3>1. q.buf[b] = <<>>
      BY <1>3, <2>1, <2>3 DEF Current
    <3> QED BY <1>4, <1>5, <3>1
  <2>4. /\ q.format = "claude" => q.cur["thinking"] = NoIndex
        /\ q.cur["text"] # NoIndex => \A j \in 1..Len(v) : q.cur["text"] < j => v[j].kind # "text"
    BY <2>1 DEF Current
  <2> QED BY <2>1, <2>2, <2>3, <2>4 DEF Current
<1>7. Sought(r, v, searched)
  BY <1>1, <1>2 DEF Tells, Sought, Rest
<1>8. Tells(r, v, said, searched, kind, text)
  BY <1>1, <1>2, <1>6, <1>7 DEF Tells
<1> QED BY <1>2, <1>8 DEF Told, r, v

\* Claude keeps thinking and does not write it.
LEMMA ThinkingTold ==
    ASSUME NEW its, NEW q, NEW r, NEW said, NEW searched,
           Told(its, q, said, searched, "none", <<>>), q.format = "claude",
           r \in Full, Rest(r, q), r.out = q.out, r.next = q.next, r.cur = q.cur, r.body = q.body,
           r.buf["text"] = q.buf["text"]
    PROVE  Told(its, r, said, searched, "none", <<>>)
<1> DEFINE v == View(its, q.out)
<1>1. Tells(q, v, said, searched, "none", <<>>)
  BY DEF Told
<1> HIDE DEF v
<1>2. Blocks = {"text", "thinking"}
  BY BlockKinds
<1>3. Current(r, v, "none", <<>>)
  BY <1>1, <1>2 DEF Tells, Current, Rest
<1>4. Sought(r, v, searched)
  BY <1>1 DEF Tells, Sought, Rest
<1>5. Tells(r, v, said, searched, "none", <<>>)
  BY <1>1, <1>3, <1>4 DEF Tells
<1> QED BY <1>5 DEF Told, v

LEMMA KeptShut ==
    ASSUME NEW body \in Seq(Entry), NEW v \in Seq(Item), NEW w, NEW i \in 1..Len(v), Kept(body, v), Shut(w, v, i),
           v[i].open
    PROVE  Kept(Append(body, [i |-> i, kind |-> v[i].kind, text |-> v[i].text]), w)
<1> DEFINE x == [i |-> i, kind |-> v[i].kind, text |-> v[i].text]
           m == Len(body)
           new == Append(body, x)
<1>1. m \in Nat /\ Len(new) = m + 1 /\ new[m + 1] = x /\ \A j \in 1..m : new[j] = body[j]
  <2>1. x \in Entry
    <3>1. v[i] \in Item /\ i \in Nat
      OBVIOUS
    <3>2. v[i].kind \in Kinds /\ v[i].text \in Pieces
      BY <3>1 DEF Item
    <3> QED BY <3>1, <3>2 DEF Entry
  <2> HIDE DEF x
  <2> QED BY <2>1
<1>2. x.i = i /\ x.kind = v[i].kind /\ x.text = v[i].text
  OBVIOUS
<1> HIDE DEF x, new
<1>3. ASSUME NEW j \in 1..m
      PROVE  /\ body[j].i # i /\ body[j].i \in 1..Len(w) /\ ~w[body[j].i].open
             /\ w[body[j].i].kind = body[j].kind /\ w[body[j].i].text = body[j].text
  <2>1. /\ body[j].i \in 1..Len(v) /\ ~v[body[j].i].open
        /\ v[body[j].i].kind = body[j].kind /\ v[body[j].i].text = body[j].text
    BY <1>3 DEF Kept
  <2>2. body[j].i # i
    BY <2>1
  <2>3. body[j].i \in 1..Len(w) /\ w[body[j].i] = v[body[j].i]
    BY <2>1, <2>2 DEF Shut
  <2> QED BY <2>1, <2>2, <2>3
<1>4. i \in 1..Len(w) /\ ~w[i].open /\ w[i].kind = x.kind /\ w[i].text = x.text
  BY <1>2 DEF Shut
<1>5. \A j \in 1..(m + 1) : j \in 1..m \/ j = m + 1
  BY <1>1
<1>6. ASSUME NEW j \in 1..Len(new)
      PROVE  /\ new[j].i \in 1..Len(w) /\ ~w[new[j].i].open
             /\ w[new[j].i].kind = new[j].kind /\ w[new[j].i].text = new[j].text
  BY <1>1, <1>2, <1>3, <1>4, <1>5
<1>7. ASSUME NEW j \in 1..Len(new), NEW k \in 1..Len(new), new[j].i = new[k].i
      PROVE  j = k
  <2>1. \A l \in 1..m : new[l].i = body[l].i /\ body[l].i # i
    BY <1>1, <1>3
  <2>2. new[m + 1].i = i
    BY <1>1, <1>2
  <2>3. \A l, n \in 1..m : body[l].i = body[n].i => l = n
    BY DEF Kept
  <2> QED BY <1>1, <1>5, <1>7, <2>1, <2>2, <2>3
<1>8. ASSUME NEW k \in 1..Len(w), ~w[k].open
      PROVE  \E j \in 1..Len(new) : new[j].i = k
  <2>1. CASE k = i
    <3>1. m + 1 \in 1..Len(new)
      BY <1>1
    <3> QED BY <1>1, <1>2, <2>1, <3>1
  <2>2. CASE k # i
    <3>1. k \in 1..Len(v) /\ ~v[k].open
      BY <1>8, <2>2 DEF Shut
    <3>2. PICK j \in 1..m : body[j].i = k
      BY <3>1 DEF Kept
    <3>3. j \in 1..Len(new) /\ new[j].i = k
      BY <1>1, <3>2
    <3> QED BY <3>3
  <2> QED BY <2>1, <2>2
<1>9. Kept(new, w)
  BY <1>6, <1>7, <1>8 DEF Kept
<1> QED BY <1>9 DEF new, x

LEMMA KeptOpened ==
    ASSUME NEW body, NEW v \in Seq(Item), NEW w, NEW kind, NEW text, Kept(body, v),
           Grown(w, v, kind, text, TRUE)
    PROVE  Kept(body, w)
<1> DEFINE n == Len(v)
<1>1. n \in Nat /\ \A k \in 1..(n + 1) : k \in 1..n \/ k = n + 1
  OBVIOUS
<1>2. /\ Len(w) = n + 1 /\ w[n + 1].open /\ (\A j \in 1..n : w[j] = v[j])
      /\ \A j \in 1..n : j \in 1..(n + 1)
  BY <1>1 DEF Grown
<1> HIDE DEF n
<1>3. /\ \A j \in 1..Len(body) : /\ body[j].i \in 1..n /\ ~v[body[j].i].open
                                 /\ v[body[j].i].kind = body[j].kind /\ v[body[j].i].text = body[j].text
      /\ \A i \in 1..n : ~v[i].open => \E j \in 1..Len(body) : body[j].i = i
      /\ \A j, k \in 1..Len(body) : body[j].i = body[k].i => j = k
  BY DEF Kept, n
<1>4. \A j \in 1..Len(body) : /\ body[j].i \in 1..Len(w) /\ ~w[body[j].i].open
                              /\ w[body[j].i].kind = body[j].kind /\ w[body[j].i].text = body[j].text
  BY <1>2, <1>3
<1>5. \A i \in 1..Len(w) : ~w[i].open => \E j \in 1..Len(body) : body[j].i = i
  BY <1>1, <1>2, <1>3
<1> QED BY <1>3, <1>4, <1>5 DEF Kept

LEMMA KeptWhole ==
    ASSUME NEW body \in Seq(Entry), NEW v \in Seq(Item), NEW w, NEW kind \in Kinds, NEW text \in Pieces, Kept(body, v),
           Grown(w, v, kind, text, FALSE)
    PROVE  Kept(Append(body, [i |-> Len(v) + 1, kind |-> kind, text |-> text]), w)
<1> DEFINE n == Len(v)
           x == [i |-> n + 1, kind |-> kind, text |-> text]
           m == Len(body)
           new == Append(body, x)
<1>1. m \in Nat /\ Len(new) = m + 1 /\ new[m + 1] = x /\ \A j \in 1..m : new[j] = body[j]
  <2>1. x \in Entry
    BY DEF Entry
  <2> HIDE DEF x
  <2> QED BY <2>1
<1>2. x.i = n + 1 /\ x.kind = kind /\ x.text = text
  OBVIOUS
<1>3. /\ n \in Nat /\ Len(w) = n + 1 /\ n + 1 \in 1..Len(w) /\ ~w[n + 1].open
      /\ w[n + 1].kind = kind /\ w[n + 1].text = text
      /\ (\A j \in 1..n : w[j] = v[j] /\ j \in 1..Len(w) /\ j # n + 1)
      /\ \A k \in 1..Len(w) : k \in 1..n \/ k = n + 1
  BY DEF Grown
<1> HIDE DEF x, new, n
<1>4. /\ \A j \in 1..m : /\ body[j].i \in 1..n /\ ~v[body[j].i].open
                         /\ v[body[j].i].kind = body[j].kind /\ v[body[j].i].text = body[j].text
      /\ \A i \in 1..n : ~v[i].open => \E j \in 1..m : body[j].i = i
      /\ \A j, k \in 1..m : body[j].i = body[k].i => j = k
  BY DEF Kept, n
<1>5. \A j \in 1..(m + 1) : j \in 1..m \/ j = m + 1
  BY <1>1
<1>6. ASSUME NEW j \in 1..Len(new)
      PROVE  /\ new[j].i \in 1..Len(w) /\ ~w[new[j].i].open
             /\ w[new[j].i].kind = new[j].kind /\ w[new[j].i].text = new[j].text
  BY <1>1, <1>2, <1>3, <1>4, <1>5
<1>7. ASSUME NEW j \in 1..Len(new), NEW k \in 1..Len(new), new[j].i = new[k].i
      PROVE  j = k
  <2>1. \A l \in 1..m : new[l].i = body[l].i /\ body[l].i # n + 1
    BY <1>1, <1>3, <1>4
  <2>2. new[m + 1].i = n + 1
    BY <1>1, <1>2
  <2> QED BY <1>1, <1>4, <1>5, <1>7, <2>1, <2>2
<1>8. ASSUME NEW k \in 1..Len(w), ~w[k].open
      PROVE  \E j \in 1..Len(new) : new[j].i = k
  <2>1. CASE k = n + 1
    <3>1. m + 1 \in 1..Len(new)
      BY <1>1
    <3> QED BY <1>1, <1>2, <2>1, <3>1
  <2>2. CASE k # n + 1
    <3>1. k \in 1..n /\ ~v[k].open
      BY <1>3, <1>8, <2>2
    <3>2. PICK j \in 1..m : body[j].i = k
      BY <1>4, <3>1
    <3>3. j \in 1..Len(new) /\ new[j].i = k
      BY <1>1, <3>2
    <3> QED BY <3>3
  <2> QED BY <2>1, <2>2
<1>9. Kept(new, w)
  BY <1>6, <1>7, <1>8 DEF Kept
<1> QED BY <1>9 DEF new, x, n

LEMMA KeptLengthened ==
    ASSUME NEW body, NEW v, NEW w, NEW i, NEW text, Kept(body, v), Lengthened(w, v, i, text), v[i].open
    PROVE  Kept(body, w)
<1>1. \A j \in 1..Len(body) : body[j].i # i
  BY DEF Kept
<1>2. \A j \in 1..Len(body) : /\ body[j].i \in 1..Len(w) /\ ~w[body[j].i].open
                              /\ w[body[j].i].kind = body[j].kind /\ w[body[j].i].text = body[j].text
  BY <1>1 DEF Kept, Lengthened
<1>3. \A k \in 1..Len(w) : ~w[k].open => \E j \in 1..Len(body) : body[j].i = k
  <2>1. \A k \in 1..Len(w) : k \in 1..Len(v) /\ w[k].open = v[k].open
    BY DEF Lengthened
  <2> QED BY <2>1 DEF Kept
<1>4. \A j, k \in 1..Len(body) : body[j].i = body[k].i => j = k
  BY DEF Kept
<1> QED BY <1>2, <1>3, <1>4 DEF Kept

LEMMA ToldFacts ==
    ASSUME NEW its \in Seq(Item), NEW q, NEW said, NEW searched, NEW kind, NEW text,
           Told(its, q, said, searched, kind, text)
    PROVE  LET v == View(its, q.out) IN
           /\ q \in Full /\ v \in Seq(Item) /\ q.next = Len(v) + 1 /\ TextOf(v) = said
           /\ Current(q, v, kind, text) /\ Kept(q.body, v) /\ Sought(q, v, searched)
BY DEF Told, Tells

LEMMA CloseBlockTold ==
    ASSUME NEW its \in Seq(Item), NEW q, NEW said, NEW searched, NEW kind, NEW text,
           Told(its, q, said, searched, kind, text), NEW b \in Blocks, b # kind
    PROVE  Told(its, CloseBlock(q, b), said, searched, kind, text)
<1> DEFINE r == CloseBlock(q, b)
           i == q.cur[b]
           v == View(its, q.out)
           w == View(its, r.out)
<1>1. CASE i = NoIndex
  BY <1>1 DEF CloseBlock
<1>2. CASE i # NoIndex
  <2>1. /\ q \in Full /\ v \in Seq(Item) /\ q.next = Len(v) + 1 /\ TextOf(v) = said
        /\ Current(q, v, kind, text) /\ Kept(q.body, v) /\ Sought(q, v, searched)
    BY ToldFacts
  <2>2. /\ r \in Full /\ Rest(r, q) /\ r.next = q.next
        /\ r.cur = [q.cur EXCEPT ![b] = NoIndex] /\ r.buf = [q.buf EXCEPT ![b] = <<>>]
        /\ r.body = Append(q.body, [i |-> i, kind |-> b, text |-> q.buf[b]])
        /\ r.out = Append(q.out, [k |-> "close", i |-> i])
    BY <1>2, <2>1, CloseBlockFields
  <2>3. /\ q.cur \in [Blocks -> Nat] /\ q.buf \in [Blocks -> Pieces] /\ q.body \in Seq(Entry)
        /\ q.out \in Seq(Chunk) /\ Blocks = {"text", "thinking"} /\ i \in Nat
    BY <2>1, FullFields, BlockKinds
  <2>4. w = Receive(v, [k |-> "close", i |-> i])
    <3>1. [k |-> "close", i |-> i] \in Chunk
      BY <2>3 DEF Chunk, CloseChunk
    <3> QED BY <2>2, <2>3, <3>1, ViewAppend
  <2>5. i \in 1..Len(v) /\ v[i].kind = b /\ v[i].open /\ q.buf[b] = v[i].text
    BY <1>2, <2>1 DEF Current
  <2>6. Shut(w, v, i)
    BY <2>1, <2>4, <2>5, ReceiveClose
  <2> HIDE DEF r, v, w, i
  <2>7. /\ w \in Seq(Item) /\ r.next = Len(w) + 1 /\ TextOf(w) = said /\ Len(w) = Len(v)
        /\ \A j \in 1..Len(v) : w[j].kind = v[j].kind /\ w[j].text = v[j].text /\ (j # i => w[j] = v[j])
    BY <2>1, <2>2, <2>6 DEF Shut
  <2>8. Kept(r.body, w)
    BY <2>1, <2>2, <2>3, <2>5, <2>6, KeptShut
  <2>9. /\ r.cur[b] = NoIndex /\ r.buf[b] = <<>> /\ r.format = q.format
        /\ \A d \in Blocks : d # b => r.cur[d] = q.cur[d] /\ r.buf[d] = q.buf[d]
    BY <2>2, <2>3 DEF Rest
  <2>10. Current(r, w, kind, text)
    <3>1. ASSUME NEW d \in Blocks, r.cur[d] # NoIndex
          PROVE  /\ r.cur[d] \in 1..Len(w) /\ w[r.cur[d]].kind = d /\ w[r.cur[d]].open
                 /\ r.buf[d] = (IF d = kind THEN w[r.cur[d]].text \o text ELSE w[r.cur[d]].text)
      <4>1. d # b /\ r.cur[d] = q.cur[d] /\ r.buf[d] = q.buf[d]
        BY <2>9, <3>1
      <4>2. /\ q.cur[d] \in 1..Len(v) /\ v[q.cur[d]].kind = d /\ v[q.cur[d]].open
            /\ q.buf[d] = (IF d = kind THEN v[q.cur[d]].text \o text ELSE v[q.cur[d]].text)
        BY <2>1, <3>1, <4>1 DEF Current
      <4>3. w[q.cur[d]] = v[q.cur[d]]
        BY <2>5, <2>7, <4>1, <4>2
      <4> QED BY <2>7, <4>1, <4>2, <4>3
    <3>2. ASSUME NEW d \in Blocks, r.cur[d] = NoIndex, d = "text" \/ r.format # "claude"
          PROVE  r.buf[d] = (IF d = kind THEN text ELSE <<>>)
      <4>1. CASE d = b
        BY <2>9, <4>1
      <4>2. CASE d # b
        BY <2>1, <2>9, <3>2, <4>2 DEF Current
      <4> QED BY <4>1, <4>2
    <3>3. r.format = "claude" => r.cur["thinking"] = NoIndex
      BY <2>1, <2>3, <2>9 DEF Current
    <3>4. r.cur["text"] # NoIndex => \A j \in 1..Len(w) : r.cur["text"] < j => w[j].kind # "text"
      BY <2>1, <2>3, <2>7, <2>9 DEF Current
    <3> QED BY <3>1, <3>2, <3>3, <3>4 DEF Current
  <2>11. Sought(r, w, searched)
    <3>1. r.search = q.search /\ b # "search"
      BY <2>2, <2>3 DEF Rest
    <3>2. \A j \in 1..Len(v) : v[j].kind = "search" => w[j] = v[j]
      BY <2>5, <2>7, <3>1
    <3> QED BY <2>1, <2>7, <2>9, <3>1, <3>2 DEF Sought
  <2>12. Tells(r, w, said, searched, kind, text)
    BY <2>7, <2>8, <2>10, <2>11 DEF Tells
  <2> QED BY <2>2, <2>12 DEF Told, r, w
<1> QED BY <1>1, <1>2

LEMMA CloseBothTold ==
    ASSUME NEW its \in Seq(Item), NEW q, NEW said, NEW searched,
           Told(its, q, said, searched, "none", <<>>)
    PROVE  Told(its, CloseBoth(q), said, searched, "none", <<>>)
<1>1. "text" \in Blocks /\ "thinking" \in Blocks /\ "text" # "none" /\ "thinking" # "none"
  BY BlockKinds
<1>2. Told(its, CloseBlock(q, "thinking"), said, searched, "none", <<>>)
  BY <1>1, CloseBlockTold
<1> QED BY <1>1, <1>2, CloseBlockTold DEF CloseBoth

\* The block whose text is kept is opened.
LEMMA EnsureTold ==
    ASSUME NEW its \in Seq(Item), NEW q, NEW said, NEW searched, NEW kind \in Blocks, NEW text \in Pieces,
           Told(its, q, said, searched, kind, text), kind = "text" \/ q.format # "claude"
    PROVE  /\ Told(its, Ensure(q, kind), said, searched, kind, text)
           /\ Ensure(q, kind).cur[kind] # NoIndex
<1> DEFINE r == Ensure(q, kind)
           v == View(its, q.out)
           w == View(its, r.out)
           n == Len(v)
<1>1. CASE q.cur[kind] # NoIndex
  BY <1>1 DEF Ensure
<1>2. CASE q.cur[kind] = NoIndex
  <2>1. /\ q \in Full /\ v \in Seq(Item) /\ q.next = n + 1 /\ TextOf(v) = said
        /\ Current(q, v, kind, text) /\ Kept(q.body, v) /\ Sought(q, v, searched)
    BY ToldFacts
  <2>2. /\ r \in Full /\ Rest(r, q) /\ r.next = q.next + 1
        /\ r.cur = [q.cur EXCEPT ![kind] = q.next] /\ r.buf = q.buf /\ r.body = q.body
        /\ r.out = Append(q.out, [k |-> "open", i |-> q.next, kind |-> kind, text |-> <<>>])
    BY <1>2, <2>1, EnsureFields
  <2>3. /\ q.cur \in [Blocks -> Nat] /\ q.out \in Seq(Chunk) /\ q.next \in Nat \ {NoIndex}
        /\ Blocks = {"text", "thinking"} /\ Blocks \subseteq Kinds /\ <<>> \in Pieces
    BY <2>1, FullFields, BlockKinds
  <2>4. w = Receive(v, [k |-> "open", i |-> q.next, kind |-> kind, text |-> <<>>])
    <3>1. [k |-> "open", i |-> q.next, kind |-> kind, text |-> <<>>] \in Chunk
      BY <2>3 DEF Chunk, OpenChunk
    <3> QED BY <2>2, <2>3, <3>1, ViewAppend
  <2>5. Grown(w, v, kind, <<>>, TRUE)
    <3>1. v \in Seq(Item) /\ kind \in Kinds /\ <<>> \in Pieces
      BY <2>1, <2>3
    <3> HIDE DEF r, v, w, n
    <3> QED BY <2>4, <3>1, ReceiveOpen
  <2>6. n \in Nat
    BY <2>1
  <2> HIDE DEF r, v, w, n
  <2>7. /\ w \in Seq(Item) /\ Len(w) = n + 1 /\ r.next = Len(w) + 1 /\ TextOf(w) = said
        /\ w[n + 1].kind = kind /\ w[n + 1].text = <<>> /\ w[n + 1].open
        /\ \A j \in 1..n : w[j] = v[j] /\ j \in 1..Len(w)
    BY <2>1, <2>2, <2>5, <2>6 DEF Grown, n
  <2>8. Kept(r.body, w)
    BY <2>1, <2>2, <2>5, KeptOpened
  <2>9. /\ r.cur[kind] = n + 1 /\ n + 1 # NoIndex /\ n + 1 \in 1..Len(w) /\ r.format = q.format
        /\ \A d \in Blocks : d # kind => r.cur[d] = q.cur[d]
    BY <2>1, <2>2, <2>3, <2>6, <2>7 DEF Rest
  <2>10. Current(r, w, kind, text)
    <3>1. ASSUME NEW d \in Blocks, r.cur[d] # NoIndex
          PROVE  /\ r.cur[d] \in 1..Len(w) /\ w[r.cur[d]].kind = d /\ w[r.cur[d]].open
                 /\ r.buf[d] = (IF d = kind THEN w[r.cur[d]].text \o text ELSE w[r.cur[d]].text)
      <4>1. CASE d = kind
        <5>1. q.buf[kind] = text
          BY <1>2, <2>1 DEF Current
        <5>2. text = <<>> \o text
          BY Joins
        <5>3. r.cur[d] = n + 1 /\ r.buf[d] = text
          BY <2>2, <2>9, <4>1, <5>1
        <5>4. w[r.cur[d]].text \o text = text
          BY <2>7, <5>2, <5>3
        <5> QED BY <2>7, <2>9, <4>1, <5>3, <5>4
      <4>2. CASE d # kind
        <5>1. r.cur[d] = q.cur[d]
          BY <2>9, <4>2
        <5>2. /\ q.cur[d] \in 1..n /\ v[q.cur[d]].kind = d /\ v[q.cur[d]].open
              /\ q.buf[d] = v[q.cur[d]].text
          BY <2>1, <3>1, <4>2, <5>1 DEF Current, n
        <5>3. w[q.cur[d]] = v[q.cur[d]] /\ q.cur[d] \in 1..Len(w)
          BY <2>7, <5>2
        <5> QED BY <2>2, <4>2, <5>1, <5>2, <5>3
      <4> QED BY <4>1, <4>2
    <3>2. ASSUME NEW d \in Blocks, r.cur[d] = NoIndex, d = "text" \/ r.format # "claude"
          PROVE  r.buf[d] = (IF d = kind THEN text ELSE <<>>)
      <4>1. d # kind /\ q.cur[d] = NoIndex
        BY <2>9, <3>2
      <4> QED BY <2>1, <2>2, <2>9, <3>2, <4>1 DEF Current
    <3>3. r.format = "claude" => r.cur["thinking"] = NoIndex
      <4>1. r.format = "claude" => kind = "text" /\ q.cur["thinking"] = NoIndex
        BY <2>1, <2>9 DEF Current
      <4> QED BY <2>3, <2>9, <4>1
    <3>4. r.cur["text"] # NoIndex => \A j \in 1..Len(w) : r.cur["text"] < j => w[j].kind # "text"
      <4>1. CASE kind = "text"
        <5>1. \A j \in 1..Len(w) : ~(n + 1 < j)
          BY <2>6, <2>7
        <5> QED BY <2>9, <4>1, <5>1
      <4>2. CASE kind # "text"
        <5>1. r.cur["text"] = q.cur["text"]
          BY <2>3, <2>9, <4>2
        <5>2. q.cur["text"] # NoIndex => \A j \in 1..n : q.cur["text"] < j => v[j].kind # "text"
          BY <2>1 DEF Current, n
        <5>3. \A j \in 1..Len(w) : j \in 1..n \/ j = n + 1
          BY <2>6, <2>7
        <5> QED BY <2>7, <4>2, <5>1, <5>2, <5>3
      <4> QED BY <4>1, <4>2
    <3> QED BY <3>1, <3>2, <3>3, <3>4 DEF Current
  <2>11. Sought(r, w, searched)
    <3>1. r.search = q.search
      BY <2>2 DEF Rest
    <3>2. \A j \in 1..Len(v) : j \in 1..Len(w) /\ w[j] = v[j]
      BY <2>7 DEF n
    <3> QED BY <2>1, <2>9, <3>1, <3>2 DEF Sought
  <2>12. Tells(r, w, said, searched, kind, text)
    BY <2>7, <2>8, <2>10, <2>11 DEF Tells
  <2> QED BY <2>2, <2>9, <2>12 DEF Told, r, w
<1> QED BY <1>1, <1>2

\* The text that was kept is written.
LEMMA DeltaTold ==
    ASSUME NEW its \in Seq(Item), NEW q, NEW said, NEW searched, NEW kind \in Blocks, NEW text \in Texts,
           Told(its, q, said, searched, kind, text), q.cur[kind] # NoIndex
    PROVE  Told(its, Delta(q, kind, text), IF kind = "text" THEN said \o text ELSE said, searched, "none", <<>>)
<1> DEFINE r == Delta(q, kind, text)
           i == q.cur[kind]
           v == View(its, q.out)
           w == View(its, r.out)
           now == IF kind = "text" THEN said \o text ELSE said
<1>1. /\ q \in Full /\ v \in Seq(Item) /\ q.next = Len(v) + 1 /\ TextOf(v) = said
      /\ Current(q, v, kind, text) /\ Kept(q.body, v) /\ Sought(q, v, searched)
  BY ToldFacts
<1>2. /\ r \in Full /\ Rest(r, q) /\ r.next = q.next /\ r.cur = q.cur
      /\ r.buf = q.buf /\ r.body = q.body
      /\ r.out = Append(q.out, [k |-> "delta", i |-> i, text |-> text])
  BY <1>1, DeltaFields
<1>3. /\ q.cur \in [Blocks -> Nat] /\ q.out \in Seq(Chunk) /\ i \in Nat /\ text \in Pieces
      /\ Blocks = {"text", "thinking"}
  BY <1>1, FullFields, BlockKinds DEF Texts
<1>4. w = Receive(v, [k |-> "delta", i |-> i, text |-> text])
  <2>1. [k |-> "delta", i |-> i, text |-> text] \in Chunk
    BY <1>3 DEF Chunk, DeltaChunk, Texts
  <2> QED BY <1>2, <1>3, <2>1, ViewAppend
<1>5. i \in 1..Len(v) /\ v[i].kind = kind /\ v[i].open /\ q.buf[kind] = v[i].text \o text
  BY <1>1 DEF Current
<1>6. Lengthened(w, v, i, text)
  BY <1>1, <1>3, <1>4, <1>5, ReceiveDelta
<1>7. i = q.cur[kind]
  OBVIOUS
<1> HIDE DEF r, v, w, i
<1>8. /\ w \in Seq(Item) /\ r.next = Len(w) + 1 /\ Len(w) = Len(v)
      /\ w[i].text = v[i].text \o text /\ w[i].kind = v[i].kind /\ w[i].open = v[i].open
      /\ \A j \in 1..Len(v) : w[j].kind = v[j].kind /\ w[j].open = v[j].open /\ (j # i => w[j] = v[j])
  BY <1>1, <1>2, <1>6 DEF Lengthened
<1>9. TextOf(w) = now
  <2>1. CASE kind = "text"
    <3>1. \A j \in 1..Len(v) : i < j => v[j].kind # "text"
      BY <1>1, <1>7, <2>1 DEF Current
    <3> QED BY <1>1, <1>5, <1>6, <2>1, <3>1 DEF Lengthened
  <2>2. CASE kind # "text"
    BY <1>1, <1>5, <1>6, <2>2 DEF Lengthened
  <2> QED BY <2>1, <2>2
<1>10. Kept(r.body, w)
  BY <1>1, <1>2, <1>5, <1>6, KeptLengthened
<1>11. r.format = q.format /\ \A d \in Blocks : d # "none"
  BY <1>2, <1>3 DEF Rest
<1>12. Current(r, w, "none", <<>>)
  <2>1. ASSUME NEW d \in Blocks, r.cur[d] # NoIndex
        PROVE  /\ r.cur[d] \in 1..Len(w) /\ w[r.cur[d]].kind = d /\ w[r.cur[d]].open
               /\ r.buf[d] = w[r.cur[d]].text
    <3>1. CASE d = kind
      <4>1. r.cur[d] = i /\ r.buf[d] = q.buf[kind]
        BY <1>2, <1>7, <3>1
      <4> QED BY <1>5, <1>8, <3>1, <4>1
    <3>2. CASE d # kind
      <4>1. /\ q.cur[d] \in 1..Len(v) /\ v[q.cur[d]].kind = d /\ v[q.cur[d]].open
            /\ q.buf[d] = v[q.cur[d]].text
        BY <1>1, <1>2, <2>1, <3>2 DEF Current
      <4>2. w[q.cur[d]] = v[q.cur[d]]
        BY <1>5, <1>8, <3>2, <4>1
      <4> QED BY <1>2, <1>8, <4>1, <4>2
    <3> QED BY <3>1, <3>2
  <2>2. ASSUME NEW d \in Blocks, r.cur[d] = NoIndex, d = "text" \/ r.format # "claude"
        PROVE  r.buf[d] = <<>>
    <3>1. d # kind /\ q.cur[d] = NoIndex
      BY <1>2, <2>2
    <3> QED BY <1>1, <1>2, <1>11, <2>2, <3>1 DEF Current
  <2>3. r.format = "claude" => r.cur["thinking"] = NoIndex
    BY <1>1, <1>2, <1>11 DEF Current
  <2>4. r.cur["text"] # NoIndex => \A j \in 1..Len(w) : r.cur["text"] < j => w[j].kind # "text"
    BY <1>1, <1>2, <1>8 DEF Current
  <2> QED BY <1>11, <2>1, <2>2, <2>3, <2>4 DEF Current
<1>13. Sought(r, w, searched)
  <2>1. r.search = q.search /\ kind # "search"
    BY <1>2, <1>3 DEF Rest
  <2>2. \A j \in 1..Len(v) : v[j].kind = "search" => w[j] = v[j]
    BY <1>5, <1>8, <2>1
  <2>3. ASSUME q.format = "responses", NEW h \in Hosted, q.search[h] # NoIndex
        PROVE  /\ q.search[h] \in 1..Len(w) /\ w[q.search[h]].kind = "search" /\ w[q.search[h]].text = <<>>
               /\ h \notin searched => w[q.search[h]].open
               /\ \A g \in Hosted : q.search[g] = q.search[h] => g = h
    <3>1. /\ q.search[h] \in 1..Len(v) /\ v[q.search[h]].kind = "search" /\ v[q.search[h]].text = <<>>
          /\ h \notin searched => v[q.search[h]].open
          /\ \A g \in Hosted : q.search[g] = q.search[h] => g = h
      BY <1>1, <2>3 DEF Sought
    <3>2. w[q.search[h]] = v[q.search[h]]
      BY <2>2, <3>1
    <3> QED BY <1>8, <3>1, <3>2
  <2> QED BY <1>11, <2>1, <2>3 DEF Sought
<1> HIDE DEF now
<1>14. Tells(r, w, now, searched, "none", <<>>)
  BY <1>8, <1>9, <1>10, <1>12, <1>13 DEF Tells
<1>15. Told(its, r, now, searched, "none", <<>>)
  BY <1>2, <1>14 DEF Told, w
<1> QED BY <1>15 DEF r, now

\* An item of another kind leaves the text and thinking blocks alone.
LEMMA CurrentGrown ==
    ASSUME NEW q, NEW r, NEW v \in Seq(Item), NEW w, NEW kind, NEW text, NEW open,
           Current(q, v, "none", <<>>), Grown(w, v, kind, text, open), kind # "text",
           r.format = q.format, r.cur = q.cur, r.buf = q.buf
    PROVE  Current(r, w, "none", <<>>)
<1> DEFINE n == Len(v)
<1>1. /\ Len(w) = n + 1 /\ w[n + 1].kind = kind
      /\ \A j \in 1..n : w[j] = v[j] /\ j \in 1..Len(w)
      /\ \A j \in 1..Len(w) : j \in 1..n \/ j = n + 1
  BY DEF Grown
<1>2. ASSUME NEW d \in Blocks, q.cur[d] # NoIndex
      PROVE  q.cur[d] \in 1..n /\ w[q.cur[d]] = v[q.cur[d]] /\ q.cur[d] \in 1..Len(w)
  BY <1>1, <1>2 DEF Current
<1>3. "text" \in Blocks
  BY BlockKinds
<1> HIDE DEF n
<1>4. q.cur["text"] # NoIndex => \A j \in 1..Len(w) : q.cur["text"] < j => w[j].kind # "text"
  BY <1>1 DEF Current, n
<1> QED BY <1>2, <1>4 DEF Current

LEMMA SoughtGrown ==
    ASSUME NEW q, NEW r, NEW v \in Seq(Item), NEW w, NEW kind, NEW text, NEW open, NEW searched,
           Sought(q, v, searched), Grown(w, v, kind, text, open),
           r.format = q.format, r.search = q.search
    PROVE  Sought(r, w, searched)
<1> DEFINE n == Len(v)
<1>1. \A j \in 1..n : w[j] = v[j] /\ j \in 1..Len(w)
  BY DEF Grown
<1>2. ASSUME q.format = "responses", NEW h \in Hosted, q.search[h] # NoIndex
      PROVE  /\ q.search[h] \in 1..Len(w) /\ w[q.search[h]].kind = "search" /\ w[q.search[h]].text = <<>>
             /\ h \notin searched => w[q.search[h]].open
             /\ \A g \in Hosted : q.search[g] = q.search[h] => g = h
  <2>1. /\ q.search[h] \in 1..n /\ v[q.search[h]].kind = "search" /\ v[q.search[h]].text = <<>>
        /\ h \notin searched => v[q.search[h]].open
        /\ \A g \in Hosted : q.search[g] = q.search[h] => g = h
    BY <1>2 DEF Sought
  <2> QED BY <1>1, <2>1
<1> QED BY <1>2 DEF Sought

LEMMA WholeItemTold ==
    ASSUME NEW its \in Seq(Item), NEW q, NEW said, NEW searched,
           Told(its, q, said, searched, "none", <<>>), NEW kind \in Kinds, NEW text \in Pieces, kind # "text"
    PROVE  Told(its, WholeItem(q, kind, text), said, searched, "none", <<>>)
<1> DEFINE r == WholeItem(q, kind, text)
           v == View(its, q.out)
           w == View(its, r.out)
           opens == [k |-> "open", i |-> q.next, kind |-> kind, text |-> text]
           closes == [k |-> "close", i |-> q.next]
<1>1. /\ q \in Full /\ v \in Seq(Item) /\ q.next = Len(v) + 1 /\ TextOf(v) = said
      /\ Current(q, v, "none", <<>>) /\ Kept(q.body, v) /\ Sought(q, v, searched)
  BY ToldFacts
<1>2. /\ r \in Full /\ Rest(r, q) /\ r.next = q.next + 1 /\ r.cur = q.cur /\ r.buf = q.buf
      /\ r.body = Append(q.body, [i |-> q.next, kind |-> kind, text |-> text])
      /\ r.out = Append(Append(q.out, opens), closes)
  BY <1>1, WholeItemFields
<1>3. q.out \in Seq(Chunk) /\ q.body \in Seq(Entry) /\ q.next \in Nat
  BY <1>1, FullFields
<1>4. w = Receive(Receive(v, opens), closes)
  <2>1. opens \in Chunk /\ closes \in Chunk
    BY <1>3 DEF Chunk, OpenChunk, CloseChunk
  <2> HIDE DEF opens, closes
  <2>2. Append(q.out, opens) \in Seq(Chunk)
    BY <1>3, <2>1
  <2> QED BY ZenonT(60), <1>2, <1>3, <2>1, <2>2, ViewAppend
<1>5. Grown(w, v, kind, text, FALSE)
  <2> HIDE DEF r, v, w
  <2> QED BY <1>1, <1>4, ReceiveWhole
<1> HIDE DEF r, v, w
<1>6. w \in Seq(Item) /\ r.next = Len(w) + 1 /\ TextOf(w) = said
  BY <1>1, <1>2, <1>5 DEF Grown
<1>7. Kept(r.body, w)
  BY <1>1, <1>2, <1>3, <1>5, KeptWhole
<1>8. r.format = q.format /\ r.search = q.search
  BY <1>2 DEF Rest
<1>9. Current(r, w, "none", <<>>)
  BY <1>1, <1>2, <1>5, <1>8, CurrentGrown
<1>10. Sought(r, w, searched)
  BY <1>1, <1>5, <1>8, SoughtGrown
<1>11. Tells(r, w, said, searched, "none", <<>>)
  BY <1>6, <1>7, <1>9, <1>10 DEF Tells
<1> QED BY <1>2, <1>11 DEF Told, r, w

\* Outside Responses a search has no item that stays open.
LEMMA NotedTold ==
    ASSUME NEW its \in Seq(Item), NEW q, NEW said, NEW searched,
           Told(its, q, said, searched, "none", <<>>), NEW h \in Hosted, q.format # "responses"
    PROVE  Told(its, [q EXCEPT !.search[h] = q.next], said, searched, "none", <<>>)
<1> DEFINE r == [q EXCEPT !.search[h] = q.next]
           v == View(its, q.out)
<1>1. q \in Full /\ Tells(q, v, said, searched, "none", <<>>)
  BY DEF Told
<1>2. /\ r \in Full /\ r.format = q.format /\ r.next = q.next /\ r.cur = q.cur
      /\ r.buf = q.buf /\ r.body = q.body /\ r.out = q.out
  BY <1>1, NotedFields
<1> HIDE DEF r, v
<1>3. Tells(r, v, said, searched, "none", <<>>)
  BY <1>1, <1>2 DEF Tells, Current, Sought
<1> QED BY <1>2, <1>3 DEF Told, r, v

LEMMA SearchOpenTold ==
    ASSUME NEW its \in Seq(Item), NEW q, NEW said, NEW searched,
           Told(its, q, said, searched, "none", <<>>), NEW h \in Hosted, q.search[h] = NoIndex
    PROVE  LET r == OpenItem([q EXCEPT !.search[h] = q.next], "search", <<>>) IN
           Told(its, r, said, searched, "none", <<>>) /\ r.search[h] # NoIndex /\ r.format = q.format
<1> DEFINE a == [q EXCEPT !.search[h] = q.next]
           r == OpenItem(a, "search", <<>>)
           v == View(its, q.out)
           w == View(its, r.out)
           n == Len(v)
           opens == [k |-> "open", i |-> q.next, kind |-> "search", text |-> <<>>]
<1>1. /\ q \in Full /\ v \in Seq(Item) /\ q.next = n + 1 /\ TextOf(v) = said
      /\ Current(q, v, "none", <<>>) /\ Kept(q.body, v) /\ Sought(q, v, searched)
  BY ToldFacts
<1>2. "search" \in Kinds /\ <<>> \in Pieces
  BY BlockKinds DEF Kinds
<1>3. /\ a \in Full /\ a.search = [q.search EXCEPT ![h] = q.next]
      /\ a.format = q.format /\ a.next = q.next /\ a.cur = q.cur
      /\ a.buf = q.buf /\ a.body = q.body /\ a.out = q.out
  BY <1>1, NotedFields
<1> HIDE DEF a
<1>4. /\ r \in Full /\ Rest(r, a) /\ r.next = a.next + 1
      /\ r.cur = a.cur /\ r.buf = a.buf /\ r.body = a.body
      /\ r.out = Append(a.out, [k |-> "open", i |-> a.next, kind |-> "search", text |-> <<>>])
  BY <1>2, <1>3, OpenItemFields
<1>5. /\ r.format = q.format /\ r.search = [q.search EXCEPT ![h] = q.next] /\ r.next = q.next + 1
      /\ r.cur = q.cur /\ r.buf = q.buf /\ r.body = q.body /\ r.out = Append(q.out, opens)
  BY <1>3, <1>4 DEF Rest
<1>6. q.out \in Seq(Chunk) /\ q.search \in [Hosted -> Nat] /\ q.next \in Nat \ {NoIndex} /\ n \in Nat
  BY <1>1, FullFields
<1>7. w = Receive(v, opens)
  <2>1. opens \in Chunk
    BY <1>2, <1>6 DEF Chunk, OpenChunk
  <2> HIDE DEF opens
  <2> QED BY ZenonT(60), <1>5, <1>6, <2>1, ViewAppend
<1>8. Grown(w, v, "search", <<>>, TRUE)
  <2> HIDE DEF r, v, w
  <2> QED BY <1>1, <1>2, <1>7, ReceiveOpen
<1> HIDE DEF r, v, w, n
<1>9. w \in Seq(Item) /\ r.next = Len(w) + 1 /\ TextOf(w) = said
  BY <1>1, <1>5, <1>8 DEF Grown, n
<1>10. Kept(r.body, w)
  BY <1>1, <1>5, <1>8, KeptOpened
<1>11. Current(r, w, "none", <<>>)
  BY <1>1, <1>5, <1>8, CurrentGrown
<1>12. r.search[h] = n + 1 /\ \A g \in Hosted : g # h => r.search[g] = q.search[g]
  BY <1>1, <1>5, <1>6
<1>13. Sought(r, w, searched)
  <2>1. /\ n + 1 \in 1..Len(w) /\ w[n + 1].kind = "search" /\ w[n + 1].text = <<>> /\ w[n + 1].open
        /\ \A j \in 1..n : w[j] = v[j] /\ j \in 1..Len(w) /\ j # n + 1
    BY <1>6, <1>8 DEF Grown, n
  <2>2. ASSUME q.format = "responses", NEW g \in Hosted, q.search[g] # NoIndex
        PROVE  /\ q.search[g] \in 1..n /\ v[q.search[g]].kind = "search" /\ v[q.search[g]].text = <<>>
               /\ g \notin searched => v[q.search[g]].open
               /\ \A f \in Hosted : q.search[f] = q.search[g] => f = g
    BY <1>1, <2>2 DEF Sought, n
  <2>3. ASSUME q.format = "responses", NEW g \in Hosted, r.search[g] # NoIndex
        PROVE  /\ r.search[g] \in 1..Len(w) /\ w[r.search[g]].kind = "search" /\ w[r.search[g]].text = <<>>
               /\ g \notin searched => w[r.search[g]].open
               /\ \A f \in Hosted : r.search[f] = r.search[g] => f = g
    <3>1. CASE g = h
      <4>1. ASSUME NEW f \in Hosted, r.search[f] = n + 1, f # h
            PROVE  FALSE
        <5>1. q.search[f] = n + 1 /\ q.search[f] # NoIndex
          BY <1>6, <1>12, <4>1 DEF NoIndex
        <5>2. q.search[f] \in 1..n
          BY <2>2, <2>3, <5>1
        <5> QED BY <1>6, <5>1, <5>2
      <4> QED BY <1>12, <2>1, <3>1, <4>1
    <3>2. CASE g # h
      <4>1. r.search[g] = q.search[g] /\ q.search[g] \in 1..n
        BY <1>12, <2>2, <2>3, <3>2
      <4>2. \A f \in Hosted : r.search[f] = r.search[g] => f = g
        BY <1>12, <2>1, <2>2, <2>3, <4>1
      <4> QED BY <2>1, <2>2, <2>3, <4>1, <4>2
    <3> QED BY <3>1, <3>2
  <2> QED BY <1>5, <2>3 DEF Sought
<1>14. Tells(r, w, said, searched, "none", <<>>)
  BY <1>9, <1>10, <1>11, <1>13 DEF Tells
<1>15. r.search[h] # NoIndex
  BY <1>1, <1>6, <1>12
<1> QED BY <1>4, <1>5, <1>14, <1>15 DEF Told, r, w, a

\* An item is closed that is not a block.
LEMMA CurrentShut ==
    ASSUME NEW q, NEW r, NEW v \in Seq(Item), NEW w, NEW i \in 1..Len(v),
           Current(q, v, "none", <<>>), Shut(w, v, i), v[i].kind = "search",
           r.format = q.format, r.cur = q.cur, r.buf = q.buf
    PROVE  Current(r, w, "none", <<>>)
<1>1. Len(w) = Len(v) /\ \A j \in 1..Len(v) : w[j].kind = v[j].kind /\ (j # i => w[j] = v[j])
  BY DEF Shut
<1>2. Blocks = {"text", "thinking"}
  BY BlockKinds
<1>3. ASSUME NEW d \in Blocks, r.cur[d] # NoIndex
      PROVE  /\ r.cur[d] \in 1..Len(w) /\ w[r.cur[d]].kind = d /\ w[r.cur[d]].open
             /\ r.buf[d] = w[r.cur[d]].text
  <2>1. /\ q.cur[d] \in 1..Len(v) /\ v[q.cur[d]].kind = d /\ v[q.cur[d]].open
        /\ q.buf[d] = v[q.cur[d]].text
    BY <1>2, <1>3 DEF Current
  <2>2. q.cur[d] # i
    BY <1>2, <2>1
  <2> QED BY <1>1, <2>1, <2>2
<1>4. \A d \in Blocks : r.cur[d] = NoIndex /\ (d = "text" \/ r.format # "claude") => r.buf[d] = <<>>
  BY <1>2 DEF Current
<1>5. r.format = "claude" => r.cur["thinking"] = NoIndex
  BY DEF Current
<1>6. r.cur["text"] # NoIndex => \A j \in 1..Len(w) : r.cur["text"] < j => w[j].kind # "text"
  BY <1>1 DEF Current
<1> QED BY <1>2, <1>3, <1>4, <1>5, <1>6 DEF Current

\* A completed search is closed.
LEMMA SearchCloseTold ==
    ASSUME NEW its \in Seq(Item), NEW q, NEW said, NEW searched,
           Told(its, q, said, searched, "none", <<>>), q.format = "responses",
           NEW h \in Hosted, q.search[h] # NoIndex, h \notin searched
    PROVE  Told(its, CloseItem(Store(q, q.search[h], "search", <<>>), q.search[h]), said,
                searched \cup {h}, "none", <<>>)
<1> DEFINE i == q.search[h]
           r == CloseItem(Store(q, i, "search", <<>>), i)
           v == View(its, q.out)
           w == View(its, r.out)
           closes == [k |-> "close", i |-> i]
<1>1. /\ q \in Full /\ v \in Seq(Item) /\ q.next = Len(v) + 1 /\ TextOf(v) = said
      /\ Current(q, v, "none", <<>>) /\ Kept(q.body, v) /\ Sought(q, v, searched)
  BY ToldFacts
<1>2. "search" \in Kinds /\ <<>> \in Pieces
  BY BlockKinds DEF Kinds
<1>3. /\ q.out \in Seq(Chunk) /\ q.search \in [Hosted -> Nat] /\ q.body \in Seq(Entry) /\ i \in Nat
  BY <1>1, FullFields
<1>4. /\ r \in Full /\ Rest(r, q) /\ r.next = q.next /\ r.cur = q.cur /\ r.buf = q.buf
      /\ r.body = Append(q.body, [i |-> i, kind |-> "search", text |-> <<>>])
      /\ r.out = Append(q.out, closes)
  <2> HIDE DEF i
  <2> QED BY ZenonT(60), <1>1, <1>2, <1>3, StoredFields
<1>5. w = Receive(v, closes)
  <2>1. closes \in Chunk
    BY <1>3 DEF Chunk, CloseChunk
  <2> HIDE DEF closes
  <2> QED BY <1>3, <1>4, <2>1, ViewAppend
<1>6. i \in 1..Len(v) /\ v[i].kind = "search" /\ v[i].text = <<>> /\ v[i].open
  BY <1>1 DEF Sought
<1>7. Shut(w, v, i)
  <2> HIDE DEF i, r, v, w
  <2> QED BY <1>1, <1>5, <1>6, ReceiveClose
<1>8. i = q.search[h]
  OBVIOUS
<1> HIDE DEF i, r, v, w
<1>9. w \in Seq(Item) /\ r.next = Len(w) + 1 /\ TextOf(w) = said
  BY <1>1, <1>4, <1>7 DEF Shut
<1>10. Kept(r.body, w)
  <2>1. Kept(Append(q.body, [i |-> i, kind |-> v[i].kind, text |-> v[i].text]), w)
    BY <1>1, <1>3, <1>6, <1>7, KeptShut
  <2> QED BY <1>4, <1>6, <2>1
<1>11. r.format = q.format /\ r.search = q.search
  BY <1>4 DEF Rest
<1>12. Current(r, w, "none", <<>>)
  BY <1>1, <1>4, <1>6, <1>7, <1>11, CurrentShut
<1>13. Sought(r, w, searched \cup {h})
  <2>1. ASSUME NEW g \in Hosted, q.search[g] # NoIndex
        PROVE  /\ q.search[g] \in 1..Len(w) /\ w[q.search[g]].kind = "search" /\ w[q.search[g]].text = <<>>
               /\ g \notin searched \cup {h} => w[q.search[g]].open
               /\ \A f \in Hosted : q.search[f] = q.search[g] => f = g
    <3>1. /\ q.search[g] \in 1..Len(v) /\ v[q.search[g]].kind = "search" /\ v[q.search[g]].text = <<>>
          /\ g \notin searched => v[q.search[g]].open
          /\ \A f \in Hosted : q.search[f] = q.search[g] => f = g
      BY <1>1, <2>1 DEF Sought
    <3>2. q.search[g] = i => g = h
      BY <1>8, <3>1
    <3>3. Len(w) = Len(v) /\ (q.search[g] # i => w[q.search[g]] = v[q.search[g]])
      BY <1>7, <3>1 DEF Shut
    <3>4. q.search[g] = i => w[q.search[g]].kind = "search" /\ w[q.search[g]].text = <<>>
      BY <1>6, <1>7 DEF Shut
    <3> QED BY <3>1, <3>2, <3>3, <3>4
  <2> QED BY <1>11, <2>1 DEF Sought
<1>14. Tells(r, w, said, searched \cup {h}, "none", <<>>)
  BY <1>9, <1>10, <1>12, <1>13 DEF Tells
<1> QED BY <1>4, <1>14 DEF Told, i, r, w

\* Outside Responses nothing depends on the searches that were completed.
LEMMA OtherSearched ==
    ASSUME NEW its, NEW q, NEW said, NEW searched, NEW searched2, NEW kind, NEW text,
           Told(its, q, said, searched, kind, text), q.format # "responses"
    PROVE  Told(its, q, said, searched2, kind, text)
BY DEF Told, Tells, Sought

LEMMA WriteTold ==
    ASSUME NEW its \in Seq(Item), NEW q, NEW said, NEW searched,
           Told(its, q, said, searched, "none", <<>>), NEW kind, NEW other, Between(kind, other),
           NEW text \in Texts, kind = "text" \/ q.format # "claude"
    PROVE  Told(its, Write(q, kind, other, text), IF kind = "text" THEN said \o text ELSE said,
                searched, "none", <<>>)
<1> DEFINE a == Buffered(q, kind, text)
           b == Start(a)
           c == CloseBlock(b, other)
           d == Ensure(c, kind)
<1>1. kind \in Blocks /\ other \in Blocks /\ other # kind /\ text \in Pieces /\ q \in Full
  BY DEF Between, Texts, Told
<1>2. Told(its, a, said, searched, kind, text) /\ a.format = q.format
  BY <1>1, BufferedTold, BufferedFields DEF Rest
<1> HIDE DEF a
<1>3. a \in Full
  BY <1>2 DEF Told
<1>4. Told(its, b, said, searched, kind, text) /\ b \in Full /\ b.format = q.format
  BY <1>2, <1>3, StartTold, StartFields DEF Rest
<1> HIDE DEF b
<1>5. Told(its, c, said, searched, kind, text) /\ c.format = q.format
  BY <1>1, <1>4, CloseBlockTold, WritesKeep DEF Keeps
<1> HIDE DEF c
<1>6. Told(its, d, said, searched, kind, text) /\ d.cur[kind] # NoIndex
  BY <1>1, <1>5, EnsureTold
<1> HIDE DEF d
<1>7. Told(its, Delta(d, kind, text), IF kind = "text" THEN said \o text ELSE said, searched, "none", <<>>)
  BY <1>1, <1>6, DeltaTold
<1> QED BY <1>7 DEF Write, a, b, c, d

LEMMA OnTextTold ==
    ASSUME NEW its \in Seq(Item), NEW q, NEW said, NEW searched,
           Told(its, q, said, searched, "none", <<>>), NEW e \in TextEvent
    PROVE  Told(its, OnText(q, e), said \o e.text, searched, "none", <<>>)
<1>1. Between("text", "thinking") /\ e.text \in Texts
  BY DEF Between, Blocks, TextEvent
<1>2. OnText(q, e) = Write(q, "text", "thinking", e.text)
  BY DEF OnText, Write
<1> QED BY <1>1, <1>2, WriteTold

LEMMA OnThinkingTold ==
    ASSUME NEW its \in Seq(Item), NEW q, NEW said, NEW searched,
           Told(its, q, said, searched, "none", <<>>), NEW e \in ThinkingEvent
    PROVE  Told(its, OnThinking(q, e), said, searched, "none", <<>>)
<1>1. Between("thinking", "text") /\ e.text \in Texts /\ e.text \in Pieces /\ "thinking" \in Blocks
  BY BlockKinds DEF Between, Blocks, ThinkingEvent, Texts
<1>2. CASE q.format # "claude"
  <2>1. OnThinking(q, e) = Write(q, "thinking", "text", e.text)
    BY <1>2 DEF OnThinking, Write
  <2> QED BY <1>1, <1>2, <2>1, WriteTold
<1>3. CASE q.format = "claude"
  <2> DEFINE r == Buffered(q, "thinking", e.text)
  <2>1. q \in Full
    BY DEF Told
  <2>2. /\ r \in Full /\ Rest(r, q) /\ r.out = q.out /\ r.next = q.next /\ r.cur = q.cur /\ r.body = q.body
        /\ r.buf = [q.buf EXCEPT !["thinking"] = @ \o e.text]
    BY ZenonT(60), <1>1, <2>1, BufferedFields
  <2>3. r.buf["text"] = q.buf["text"]
    BY <2>1, <2>2, FullFields, BlockKinds
  <2> HIDE DEF r
  <2>4. Told(its, r, said, searched, "none", <<>>)
    BY <1>3, <2>2, <2>3, ThinkingTold
  <2> QED BY <1>3, <2>4 DEF OnThinking, r
<1> QED BY <1>2, <1>3

LEMMA OnThinkingCompletedTold ==
    ASSUME NEW its \in Seq(Item), NEW q, NEW said, NEW searched,
           Told(its, q, said, searched, "none", <<>>), NEW e \in CompletedEvent
    PROVE  Told(its, OnThinkingCompleted(q, e), said, searched, "none", <<>>)
<1> DEFINE x == [q EXCEPT !.buf["thinking"] = <<>>]
           y == CloseBlock(Start(x), "text")
           s == q.buf["thinking"]
<1>1. /\ "text" \in Blocks /\ "thinking" \in Blocks /\ "thinking" \in Kinds /\ "thinking" # "text"
      /\ "text" # "none" /\ "thinking" # "none" /\ q \in Full
  BY BlockKinds DEF Told
<1>2. s \in Pieces
  BY <1>1, FullFields
<1>3. CASE q.format # "claude"
  <2>1. Told(its, CloseBlock(q, "thinking"), said, searched, "none", <<>>)
    BY <1>1, CloseBlockTold
  <2> QED BY <1>3, <2>1 DEF OnThinkingCompleted
<1>4. CASE q.format = "claude"
  <2>1. /\ x \in Full /\ Rest(x, q) /\ x.out = q.out /\ x.next = q.next /\ x.cur = q.cur /\ x.body = q.body
        /\ x.buf = [q.buf EXCEPT !["thinking"] = <<>>]
    BY <1>1, DroppedFields
  <2>2. x.buf["text"] = q.buf["text"]
    BY <1>1, <2>1, FullFields
  <2> HIDE DEF x
  <2>3. Told(its, x, said, searched, "none", <<>>)
    BY <1>4, <2>1, <2>2, ThinkingTold
  <2>4. Told(its, Start(x), said, searched, "none", <<>>)
    BY <2>3, StartTold
  <2>5. Told(its, y, said, searched, "none", <<>>)
    BY <1>1, <2>4, CloseBlockTold
  <2> HIDE DEF y, s
  <2>6. Told(its, WholeItem(y, "thinking", s), said, searched, "none", <<>>)
    BY <1>1, <1>2, <2>5, WholeItemTold
  <2>7. OnThinkingCompleted(q, e) \in {x, WholeItem(y, "thinking", s)}
    BY <1>4 DEF OnThinkingCompleted, x, y, s
  <2> QED BY <2>3, <2>6, <2>7
<1> QED BY <1>3, <1>4

\* Closing both blocks does not change which searches were announced.
LEMMA CloseBothSearch ==
    ASSUME NEW q \in Full
    PROVE  LET r == CloseBoth(Start(q)) IN r \in Full /\ r.search = q.search /\ r.format = q.format
<1>1. Start(q) \in Full /\ Start(q).search = q.search
  BY StartFields DEF Rest
<1>2. ASSUME NEW x \in Full, NEW b \in Blocks
      PROVE  CloseBlock(x, b) \in Full /\ CloseBlock(x, b).search = x.search
  <2>1. CASE x.cur[b] = NoIndex
    BY <2>1 DEF CloseBlock
  <2>2. CASE x.cur[b] # NoIndex
    BY <2>2, CloseBlockFields DEF Rest
  <2> QED BY <2>1, <2>2
<1>3. CloseBoth(Start(q)).search = q.search
  BY <1>1, <1>2, BlockKinds DEF CloseBoth
<1> QED BY <1>3, WritesKeep, BlockKinds DEF Keeps

LEMMA OnSearchStartedTold ==
    ASSUME NEW its \in Seq(Item), NEW q, NEW said, NEW searched,
           Told(its, q, said, searched, "none", <<>>), NEW e \in SearchEvent
    PROVE  LET r == OnSearchStarted(q, e) IN
           /\ Told(its, r, said, searched, "none", <<>>) /\ r.format = q.format
           /\ q.format = "responses" => r.search[e.h] # NoIndex
<1> DEFINE x == CloseBoth(Start(q))
           xn == [x EXCEPT !.search[e.h] = x.next]
           r == OnSearchStarted(q, e)
<1>1. e.h \in Hosted /\ "search" \in Kinds /\ <<>> \in Pieces /\ "search" # "text" /\ q \in Full
  BY BlockKinds DEF SearchEvent, Kinds, Told
<1>2. CASE q.search[e.h] # NoIndex
  BY <1>2 DEF OnSearchStarted
<1>3. CASE q.search[e.h] = NoIndex
  <2>1. Told(its, x, said, searched, "none", <<>>)
    BY StartTold, CloseBothTold
  <2>2. x.search = q.search /\ x.format = q.format
    BY <1>1, CloseBothSearch
  <2> HIDE DEF x
  <2>3. CASE q.format = "responses"
    <3>1. r = OpenItem(xn, "search", <<>>)
      BY <1>3, <2>3 DEF OnSearchStarted, x
    <3>2. x.search[e.h] = NoIndex
      BY <1>3, <2>2
    <3> HIDE DEF r
    <3> QED BY ZenonT(60), <1>1, <2>1, <2>2, <3>1, <3>2, SearchOpenTold DEF r
  <2>4. CASE q.format # "responses"
    <3>1. r = WholeItem(xn, "search", <<>>)
      BY <1>3, <2>4 DEF OnSearchStarted, x
    <3>2. Told(its, xn, said, searched, "none", <<>>)
      BY <1>1, <2>1, <2>2, <2>4, NotedTold
    <3> HIDE DEF r, xn
    <3>3. Told(its, r, said, searched, "none", <<>>)
      BY <1>1, <3>1, <3>2, WholeItemTold
    <3>4. r.format = q.format
      BY <1>1, SearchStartedKeeps DEF Keeps, r
    <3> QED BY <2>4, <3>3, <3>4 DEF r
  <2> QED BY <2>3, <2>4
<1> QED BY <1>2, <1>3

LEMMA OnSearchCompletedTold ==
    ASSUME NEW its \in Seq(Item), NEW q, NEW said, NEW searched,
           Told(its, q, said, searched, "none", <<>>), NEW e \in SearchEvent, e.h \notin searched
    PROVE  Told(its, OnSearchCompleted(q, e), said, searched \cup {e.h}, "none", <<>>)
<1> DEFINE x == OnSearchStarted(q, e)
<1>1. e.h \in Hosted /\ "result" \in Kinds /\ <<>> \in Pieces /\ "result" # "text"
  BY BlockKinds DEF SearchEvent, Kinds
<1>2. /\ Told(its, x, said, searched, "none", <<>>) /\ x.format = q.format
      /\ q.format = "responses" => x.search[e.h] # NoIndex
  BY OnSearchStartedTold
<1> HIDE DEF x
<1>3. CASE q.format = "responses"
  <2>1. Told(its, CloseItem(Store(x, x.search[e.h], "search", <<>>), x.search[e.h]), said,
             searched \cup {e.h}, "none", <<>>)
    BY <1>1, <1>2, <1>3, SearchCloseTold
  <2> QED BY <1>3, <2>1 DEF OnSearchCompleted, x
<1>4. CASE q.format # "responses"
  <2>1. Told(its, x, said, searched \cup {e.h}, "none", <<>>)
    BY <1>2, <1>4, OtherSearched
  <2>2. Told(its, WholeItem(x, "result", <<>>), said, searched \cup {e.h}, "none", <<>>)
    BY <1>1, <2>1, WholeItemTold
  <2> QED BY <1>4, <2>2 DEF OnSearchCompleted, x
<1> QED BY <1>3, <1>4

LEMMA HandOverTold ==
    ASSUME NEW its \in Seq(Item), NEW q, NEW said, NEW searched,
           Told(its, q, said, searched, "none", <<>>), NEW calls \in Seq(CallEvent)
    PROVE  Told(its, HandOver(q, calls), said, searched, "none", <<>>)
<1>1. PICK f : /\ HandOver(q, calls) = f[Len(calls)] /\ f[0] = q
               /\ \A n \in 1..Len(calls) : f[n] = WholeItem(f[n - 1], "call", <<calls[n].c>>)
  BY HandOverSteps
<1> DEFINE T == {n \in 0..Len(calls) : Told(its, f[n], said, searched, "none", <<>>)}
<1>2. Len(calls) \in Nat
  OBVIOUS
<1>3. 0 \in T
  BY <1>1, <1>2
<1>4. ASSUME NEW n \in 1..Len(calls), n - 1 \in T PROVE n \in T
  <2>1. Told(its, f[n - 1], said, searched, "none", <<>>) /\ n \in 0..Len(calls)
    BY <1>2, <1>4
  <2>2. <<calls[n].c>> \in Pieces /\ "call" \in Kinds /\ "call" # "text"
    BY CallPieces
  <2>3. Told(its, WholeItem(f[n - 1], "call", <<calls[n].c>>), said, searched, "none", <<>>)
    BY <2>1, <2>2, WholeItemTold
  <2> QED BY <1>1, <2>1, <2>3
<1>5. Len(calls) \in T
  <2> HIDE DEF T
  <2>1. \A n \in 0..Len(calls) : n \in T
    BY <1>2, <1>3, <1>4, UpTo
  <2> QED BY <1>2, <2>1
<1>6. Told(its, f[Len(calls)], said, searched, "none", <<>>)
  BY <1>5
<1> QED BY <1>1, <1>6

LEMMA HandoffTold ==
    ASSUME NEW its \in Seq(Item), NEW q, NEW said, NEW searched,
           Told(its, q, said, searched, "none", <<>>), NEW st \in {"done", "parked"}
    PROVE  /\ Told(its, Handoff(q, st), said, searched, "none", <<>>)
           /\ Told(its, OnDone(q), said, searched, "none", <<>>)
<1> DEFINE x == CloseBoth(Start(q))
<1>1. q.calls \in Seq(CallEvent)
  BY FullFields DEF Told
<1>2. Told(its, Reject(q), said, searched, "none", <<>>)
  BY EndTold DEF Reject, Ending
<1>3. Told(its, x, said, searched, "none", <<>>)
  BY StartTold, CloseBothTold
<1> HIDE DEF x
<1>4. Told(its, HandOver(x, q.calls), said, searched, "none", <<>>)
  BY <1>1, <1>3, HandOverTold
<1>5. \A s \in {"done", "parked"} : Told(its, Finish(HandOver(x, q.calls), s), said, searched, "none", <<>>)
  BY <1>4, EndTold DEF Finish, Ending
<1>6. Told(its, Finish(x, "done"), said, searched, "none", <<>>)
  BY <1>3, EndTold DEF Finish, Ending
<1>7. \A s \in {"done", "parked"} : Told(its, Handoff(q, s), said, searched, "none", <<>>)
  BY <1>2, <1>5 DEF Handoff, x
<1> QED BY <1>6, <1>7 DEF OnDone, x

LEMMA HandleTold ==
    ASSUME NEW its \in Seq(Item), NEW q, NEW said, NEW searched,
           Told(its, q, said, searched, "none", <<>>), NEW e \in Event,
           e.t = "searchCompleted" => e.h \notin searched
    PROVE  Told(its, Handle(q, e), IF e.t = "text" THEN said \o e.text ELSE said,
                Searched(searched, e), "none", <<>>)
<1> DEFINE x == Observed(q, e)
           Now(r) == Told(its, r, said, searched, "none", <<>>)
<1>1. Now(x)
  BY ObservedTold
<1> HIDE DEF x
<1>2. CASE e.t = "text"
  <2>1. Handle(q, e) = OnText(x, e) /\ e \in TextEvent /\ Searched(searched, e) = searched
    BY <1>2, HandleUnfolds, EventKinds DEF x, Searched
  <2> QED BY <1>1, <1>2, <2>1, OnTextTold
<1>3. CASE e.t = "searchCompleted"
  <2>1. /\ Handle(q, e) = OnSearchCompleted(x, e) /\ e \in SearchEvent
        /\ Searched(searched, e) = searched \cup {e.h}
    BY <1>3, HandleUnfolds, EventKinds DEF x, Searched
  <2> QED BY <1>1, <1>3, <2>1, OnSearchCompletedTold
<1>4. CASE e.t \notin {"text", "searchCompleted"}
  <2>1. Searched(searched, e) = searched
    BY <1>4 DEF Searched
  <2>2. e.t = "thinking" => Now(OnThinking(x, e))
    BY <1>1, EventKinds, OnThinkingTold
  <2>3. e.t = "thinkingCompleted" => Now(OnThinkingCompleted(x, e))
    BY <1>1, EventKinds, OnThinkingCompletedTold
  <2>4. e.t = "searchStarted" => Now(OnSearchStarted(x, e))
    BY <1>1, EventKinds, OnSearchStartedTold
  <2>5. e.t = "call" => Now(OnToolCall(x, e))
    BY <1>1, EventKinds, ToolCallTold
  <2>6. Now(Handoff(x, "parked")) /\ Now(OnDone(x))
    BY <1>1, HandoffTold
  <2> HIDE DEF Now
  <2>7. Now(Handle(q, e))
    BY <1>1, <1>4, <2>2, <2>3, <2>4, <2>5, <2>6, EventKinds, HandleUnfolds DEF x
  <2> QED BY <1>4, <2>1, <2>7 DEF Now
<1> QED BY <1>2, <1>3, <1>4

-----------------------------------------------------------------------------
(***************************************************************************)
(* The text and the body of a completed response.                          *)
(***************************************************************************)
\* As long as the response has not failed, the items the client will have are
\* those the projection keeps, with the text the run has emitted.
TellsInv == p.st # "failed" => Told(items, p, upstream.text, upstream.searched, "none", <<>>)

LEMMA NewTold ==
    ASSUME NEW f \in {"claude", "chat", "responses"}
    PROVE  Told(<<>>, New(f), <<>>, {}, "none", <<>>)
<1> DEFINE q == New(f)
<1>1. q \in Full
  BY NewFull
<1>2. /\ q.next = 1 /\ q.cur = [b \in Blocks |-> NoIndex] /\ q.buf = [b \in Blocks |-> <<>>]
      /\ q.search = [h \in Hosted |-> NoIndex] /\ q.body = <<>> /\ q.out = <<>>
  BY DEF New
<1> HIDE DEF q
<1>3. PICK v \in Seq(Item) : v = <<>>
  <2>1. <<>> \in Seq(Item)
    OBVIOUS
  <2> QED BY <2>1
<1>4. Len(v) = 0 /\ Len(q.body) = 0 /\ 1..0 = {} /\ View(<<>>, q.out) = v
  <2>1. View(v, <<>>) = v
    BY ViewEmpty
  <2>2. Len(v) = 0 /\ Len(q.body) = 0 /\ 1..0 = {}
    BY <1>2, <1>3
  <2> QED BY <1>2, <1>3, <2>1, <2>2
<1>5. TextOf(v) = <<>>
  BY <1>3, TextEmpty
<1>6. Current(q, v, "none", <<>>)
  BY <1>2, BlockKinds DEF Current
<1>7. Kept(q.body, v)
  BY <1>4 DEF Kept
<1>8. Sought(q, v, {})
  BY <1>2 DEF Sought
<1>9. Tells(q, v, <<>>, {}, "none", <<>>)
  BY <1>2, <1>4, <1>5, <1>6, <1>7, <1>8 DEF Tells
<1> QED BY <1>1, <1>4, <1>9 DEF Told, q

LEMMA TellsInit == Init => TellsInv
<1> SUFFICES ASSUME Init PROVE TellsInv
  OBVIOUS
<1>1. PICK f \in {"claude", "chat", "responses"} : p = New(f)
  BY ProjectionAssumption DEF Init
<1>2. items = <<>> /\ upstream.text = <<>> /\ upstream.searched = {}
  BY DEF Init
<1>3. Told(<<>>, New(f), <<>>, {}, "none", <<>>)
  BY NewTold
<1> QED BY <1>1, <1>2, <1>3 DEF TellsInv

LEMMA TellsNext ==
    ASSUME StreamInv, TellsInv, [Next]_vars
    PROVE  TellsInv'
<1>1. ClientOK /\ Good(p, upstream.searched) /\ p \in Proj /\ items \in Seq(Item)
  BY DEF StreamInv, Good, ClientOK
<1>2. CASE RunFails
  <2>1. p'.st = "failed"
    BY <1>1, <1>2 DEF RunFails, Reject, Emit, Proj
  <2> QED BY <2>1 DEF TellsInv
<1>3. CASE Emits /\ ~RunFails
  <2>1. PICK e \in Event : Emitted(e)
    BY <1>3, EmitsEvent
  <2>2. /\ p.st = "running" /\ (p' = Reject(p) \/ p' = Handle(p, e)) /\ items' = items
        /\ e.t = "searchCompleted" => e.h \notin upstream.searched
        /\ upstream'.searched = Searched(upstream.searched, e)
        /\ e.t = "text" => \E x \in Nat : e.text = <<x>> /\ upstream'.text = Append(upstream.text, x)
        /\ e.t # "text" => upstream'.text = upstream.text
    BY <2>1 DEF Emitted, Reading, Process
  <2>3. CASE p' = Reject(p)
    <3>1. p'.st = "failed"
      BY <1>1, <2>3 DEF Reject, Emit, Proj
    <3> QED BY <3>1 DEF TellsInv
  <2>4. CASE p' = Handle(p, e)
    <3>1. Told(items, p, upstream.text, upstream.searched, "none", <<>>)
      BY <2>2 DEF TellsInv
    <3>2. Told(items, Handle(p, e), IF e.t = "text" THEN upstream.text \o e.text ELSE upstream.text,
               Searched(upstream.searched, e), "none", <<>>)
      BY <1>1, <2>2, <3>1, HandleTold
    <3>3. upstream'.text = IF e.t = "text" THEN upstream.text \o e.text ELSE upstream.text
      <4>1. ASSUME e.t = "text" PROVE upstream'.text = upstream.text \o e.text
        <5>1. PICK x \in Nat : e.text = <<x>> /\ upstream'.text = Append(upstream.text, x)
          BY <2>2, <4>1
        <5>2. upstream.text \in Pieces
          <6>1. PICK v \in Seq(Item) : TextOf(v) = upstream.text
            BY <3>1 DEF Told, Tells
          <6>2. PICK g : /\ TextOf(v) = g[Len(v)] /\ g[0] = <<>>
                         /\ \A n \in 0..Len(v) : g[n] \in Pieces
                         /\ \A n \in 1..Len(v) : g[n] = g[n - 1] \o Piece(v[n])
            BY TextSteps
          <6>3. Len(v) \in 0..Len(v)
            OBVIOUS
          <6> QED BY <6>1, <6>2, <6>3
        <5>3. \A s \in Pieces, y \in Nat : Append(s, y) = s \o <<y>>
          BY DEF Pieces
        <5> QED BY <5>1, <5>2, <5>3
      <4> QED BY <2>2, <4>1
    <3>4. Told(items', p', upstream'.text, upstream'.searched, "none", <<>>)
      BY <2>2, <2>4, <3>2, <3>3
    <3> QED BY <3>4 DEF TellsInv
  <2> QED BY <2>2, <2>3, <2>4
<1>4. CASE Deliver
  <2>1. /\ p' = [p EXCEPT !.out = Tail(p.out)] /\ p.out # <<>> /\ items' = Receive(items, Head(p.out))
        /\ upstream' = upstream
    BY <1>4 DEF Deliver
  <2>2. p.out \in Seq(Chunk) /\ Tail(p.out) \in Seq(Chunk)
    BY <1>1, <2>1 DEF Proj
  <2> DEFINE o == Tail(p.out)
  <2>3. p' = [p EXCEPT !.out = o] /\ o \in Seq(Chunk)
    BY <2>1, <2>2
  <2>4. View(items', o) = View(items, p.out)
    BY <1>1, <2>1, <2>2, ViewTail
  <2> HIDE DEF o
  <2>5. p' \in Proj
    BY <1>1, <2>3 DEF Proj
  <2>6. /\ p'.format = p.format /\ p'.st = p.st /\ p'.next = p.next /\ p'.cur = p.cur
        /\ p'.buf = p.buf /\ p'.search = p.search /\ p'.body = p.body /\ p'.out = o
    BY <1>1, <2>3 DEF Proj
  <2> DEFINE v == View(items, p.out)
  <2>7. p.st # "failed" => p \in Full /\ Tells(p, v, upstream.text, upstream.searched, "none", <<>>)
    BY DEF TellsInv, Told
  <2>8. View(items', p'.out) = v
    BY <2>4, <2>6
  <2> HIDE DEF v
  <2>9. p \in Full => p' \in Full
    BY <2>5, <2>6 DEF Full
  <2>10. Tells(p, v, upstream.text, upstream.searched, "none", <<>>) =>
           Tells(p', v, upstream.text, upstream.searched, "none", <<>>)
    BY <2>6 DEF Tells, Current, Sought
  <2>11. p'.st # "failed" => Told(items', p', upstream'.text, upstream'.searched, "none", <<>>)
    BY <2>1, <2>6, <2>7, <2>8, <2>9, <2>10 DEF Told
  <2> QED BY <2>11 DEF TellsInv
<1>5. CASE UNCHANGED vars
  BY <1>5 DEF vars, TellsInv
<1> QED BY <1>2, <1>3, <1>4, <1>5 DEF Next, Emits

\* A completed response has the items that the projection kept.
LEMMA CompletedTold ==
    ASSUME StreamInv, TellsInv, Completed
    PROVE  /\ items \in Seq(Item) /\ TextOf(items) = upstream.text
           /\ p.body \in Seq(Entry) /\ Kept(p.body, items)
<1>1. Told(items, p, upstream.text, upstream.searched, "none", <<>>) /\ p.out = <<>>
  BY DEF TellsInv, Completed
<1>2. items \in Seq(Item)
  BY DEF StreamInv, ClientOK
<1>3. View(items, p.out) = items
  BY <1>1, <1>2, ViewEmpty
<1>4. p \in Full /\ Tells(p, items, upstream.text, upstream.searched, "none", <<>>)
  BY <1>1, <1>3 DEF Told
<1> QED BY <1>2, <1>4, FullFields DEF Tells

\* The text of the items, in their order, is the text of the run's events:
\* none is lost, repeated or moved by the opening and closing of blocks (Write),
\* whichever protocol the client speaks.
THEOREM TextOnceHolds == Spec => []TextOnce
<1>1. StreamInv /\ TellsInv => TextOnce
  BY CompletedTold DEF TextOnce
<1> QED BY <1>1, TellsInit, StreamInvariant, TellsNext, PTL DEF Spec

\* nonStream lists every stored item once, in some order.
Lists(perm, n) == perm \in Bijection(1..n, 1..n)

LEMMA Listed ==
    ASSUME NEW n \in Nat, NEW perm, Lists(perm, n)
    PROVE  /\ \A r \in 1..n : perm[r] \in 1..n
           /\ \A r, s \in 1..n : perm[r] = perm[s] => r = s
           /\ \A j \in 1..n : \E r \in 1..n : perm[r] = j
BY DEF Lists, Bijection, Injection, Surjection, IsInjective

LEMMA StoredOrder ==
    ASSUME NEW n \in Nat
    PROVE  Lists([j \in 1..n |-> j], n)
BY DEF Lists, Bijection, Injection, Surjection, IsInjective

\* The order of the indices, which are distinct.
LEMMA IndexOrder ==
    ASSUME NEW body \in Seq(Entry), \A j, k \in 1..Len(body) : body[j].i = body[k].i => j = k
    PROVE  \E perm : /\ Lists(perm, Len(body))
                     /\ ByIndex(body) = [r \in 1..Len(body) |-> body[perm[r]]]
<1> DEFINE n == Len(body)
           S == 1..n
           Upto(j) == {k \in S : body[k].i <= body[j].i}
           rank == [j \in S |-> Cardinality(Upto(j))]
           perm == [r \in S |-> CHOOSE j \in S : Cardinality(Upto(j)) = r]
<1>1. n \in Nat /\ DOMAIN body = S /\ \A j \in S : body[j].i \in Nat
  <2>1. n \in Nat /\ DOMAIN body = S /\ \A j \in S : body[j] \in Entry
    OBVIOUS
  <2> QED BY <2>1 DEF Entry
<1>2. IsFiniteSet(S) /\ Cardinality(S) = n
  <2> HIDE DEF n
  <2> QED BY <1>1, FS_Interval
<1>3. \A j \in S : j \in Upto(j) /\ Upto(j) \subseteq S
  BY <1>1
<1>4. \A j \in S : IsFiniteSet(Upto(j)) /\ Cardinality(Upto(j)) \in S
  <2>1. ASSUME NEW j \in S PROVE IsFiniteSet(Upto(j)) /\ Cardinality(Upto(j)) \in S
    <3>1. Upto(j) \in SUBSET S /\ Upto(j) # {}
      BY <1>3
    <3> HIDE DEF Upto
    <3>2. IsFiniteSet(Upto(j)) /\ Cardinality(Upto(j)) <= n
      BY <1>2, <3>1, FS_Subset
    <3>3. Cardinality(Upto(j)) \in Nat /\ Cardinality(Upto(j)) # 0
      BY <3>1, <3>2, FS_CardinalityType, FS_EmptySet
    <3> QED BY <1>1, <3>2, <3>3
  <2> QED BY <2>1
<1>5. \A j, k \in S : Cardinality(Upto(j)) = Cardinality(Upto(k)) => j = k
  <2>1. ASSUME NEW j \in S, NEW k \in S, body[j].i < body[k].i, Cardinality(Upto(j)) = Cardinality(Upto(k))
        PROVE  FALSE
    <3>1. Upto(j) \in SUBSET Upto(k)
      BY <1>1, <2>1
    <3>2. k \in Upto(k) /\ k \notin Upto(j)
      BY <1>1, <2>1
    <3> HIDE DEF Upto
    <3>3. Upto(k) = Upto(j)
      BY <1>4, <2>1, <3>1, FS_Subset
    <3> QED BY <3>2, <3>3
  <2>2. \A j, k \in S : j = k \/ body[j].i < body[k].i \/ body[k].i < body[j].i
    BY <1>1
  <2> HIDE DEF Upto
  <2> QED BY <2>1, <2>2
<1>6. rank \in Injection(S, S)
  <2> HIDE DEF Upto, S
  <2>1. rank \in [S -> S]
    BY <1>4
  <2>2. IsInjective(rank)
    BY <1>5 DEF IsInjective
  <2> QED BY <2>1, <2>2 DEF Injection
<1>7. \A r \in S : \E j \in S : Cardinality(Upto(j)) = r
  <2>1. rank \in Surjection(S, S)
    <3> HIDE DEF rank, S
    <3> QED BY <1>2, <1>6, FS_Injection
  <2> HIDE DEF Upto
  <2> QED BY <2>1 DEF Surjection
<1>8. \A r \in S : perm[r] \in S /\ Cardinality(Upto(perm[r])) = r
  <2> HIDE DEF Upto, S
  <2> QED BY <1>7
<1>9. perm \in [S -> S]
  <2> HIDE DEF Upto, S
  <2> QED BY <1>8
<1>10. Lists(perm, n)
  <2>1. \A j \in S : perm[Cardinality(Upto(j))] = j
    <3> HIDE DEF Upto, S, perm
    <3> QED BY <1>4, <1>5, <1>8
  <2>2. IsInjective(perm)
    <3> HIDE DEF Upto, S, perm
    <3> QED BY <1>8, <1>9 DEF IsInjective
  <2> HIDE DEF Upto, perm
  <2> QED BY <1>4, <1>9, <2>1, <2>2 DEF Lists, Bijection, Injection, Surjection
<1>11. ByIndex(body) = [r \in S |-> body[perm[r]]]
  <2>1. ByIndex(body) = [r \in S |-> body[CHOOSE j \in S : Cardinality(Upto(j)) = r]]
    BY <1>1 DEF ByIndex
  <2> HIDE DEF Upto, S
  <2> QED BY <2>1
<1> HIDE DEF perm
<1> QED BY <1>10, <1>11

\* Where this content is listed, and where it was streamed.
ListedAt(body, perm, x) == {r \in 1..Len(body) : Content(body[perm[r]]) = x}
StreamedAt(its, x) == {i \in {i \in DOMAIN its : ~its[i].open} : Content(its[i]) = x}

\* What nonStream lists are the closed items, each as often as it was streamed.
LEMMA SameCount ==
    ASSUME NEW body \in Seq(Entry), NEW its \in Seq(Item), Kept(body, its),
           NEW perm, Lists(perm, Len(body)), NEW x
    PROVE  Cardinality(ListedAt(body, perm, x)) = Cardinality(StreamedAt(its, x))
<1> DEFINE n == Len(body)
           A == {r \in 1..n : Content(body[perm[r]]) = x}
           B == {i \in {i \in DOMAIN its : ~its[i].open} : Content(its[i]) = x}
           f == [r \in A |-> body[perm[r]].i]
<1>1. n \in Nat /\ DOMAIN its = 1..Len(its)
  OBVIOUS
<1>2. /\ \A r \in 1..n : perm[r] \in 1..n
      /\ \A r, s \in 1..n : perm[r] = perm[s] => r = s
      /\ \A j \in 1..n : \E r \in 1..n : perm[r] = j
  <2> HIDE DEF n
  <2> QED BY <1>1, Listed DEF n
<1>3. \A j \in 1..n : /\ body[j].i \in 1..Len(its) /\ ~its[body[j].i].open
                      /\ Content(its[body[j].i]) = Content(body[j])
  BY DEF Kept, Content
<1>4. \A j, k \in 1..n : body[j].i = body[k].i => j = k
  BY DEF Kept
<1>5. \A i \in 1..Len(its) : ~its[i].open => \E j \in 1..n : body[j].i = i
  BY DEF Kept
<1> HIDE DEF n
<1>6. f \in [A -> B]
  BY <1>1, <1>2, <1>3
<1>7. IsInjective(f)
  <2>1. ASSUME NEW r \in A, NEW s \in A, f[r] = f[s] PROVE r = s
    <3>1. body[perm[r]].i = body[perm[s]].i
      BY <2>1
    <3> QED BY <1>2, <1>4, <3>1
  <2> QED BY <2>1 DEF IsInjective
<1>8. \A i \in B : \E r \in A : f[r] = i
  <2>1. ASSUME NEW i \in B PROVE \E r \in A : f[r] = i
    <3>1. i \in 1..Len(its) /\ ~its[i].open /\ Content(its[i]) = x
      BY <1>1
    <3>2. PICK j \in 1..n : body[j].i = i
      BY <1>5, <3>1
    <3>3. PICK r \in 1..n : perm[r] = j
      BY <1>2
    <3>4. r \in A
      BY <1>3, <3>1, <3>2, <3>3
    <3> QED BY <3>2, <3>3, <3>4
  <2> QED BY <2>1
<1>9. IsFiniteSet(A)
  <2>1. IsFiniteSet(1..n)
    BY <1>1, FS_Interval
  <2>2. A \in SUBSET (1..n)
    OBVIOUS
  <2> HIDE DEF A
  <2> QED BY <2>1, <2>2, FS_Subset
<1> HIDE DEF A, B, f
<1>10. ExistsBijection(A, B)
  BY <1>6, <1>7, <1>8 DEF ExistsBijection, Bijection, Injection, Surjection
<1>11. Cardinality(B) = Cardinality(A)
  BY <1>9, <1>10, FS_Bijection
<1> QED BY <1>11 DEF A, B, n, ListedAt, StreamedAt

\* A client that streams and one that does not are told the same items: what
\* one is told, the other is told as often (nonStream, responsesNonStream).
THEOREM BodyHasStreamedItemsHolds == Spec => []BodyHasStreamedItems
<1>1. ASSUME StreamInv, TellsInv, Completed
      PROVE  LET body == NonStream(p)
                 finished == {i \in DOMAIN items : ~items[i].open}
             IN  \A x : Cardinality({j \in DOMAIN body : body[j] = x})
                          = Cardinality({i \in finished : Content(items[i]) = x})
  <2> DEFINE n == Len(p.body)
             shown == IF p.format = "responses" THEN ByIndex(p.body) ELSE p.body
  <2>1. items \in Seq(Item) /\ p.body \in Seq(Entry) /\ Kept(p.body, items)
    BY <1>1, CompletedTold
  <2>2. n \in Nat /\ DOMAIN p.body = 1..n
    BY <2>1
  <2>3. PICK perm : Lists(perm, n) /\ shown = [r \in 1..n |-> p.body[perm[r]]]
    <3>1. CASE p.format = "responses"
      <4>1. \A j, k \in 1..Len(p.body) : p.body[j].i = p.body[k].i => j = k
        BY <2>1 DEF Kept
      <4> QED BY <2>1, <3>1, <4>1, IndexOrder
    <3>2. CASE p.format # "responses"
      <4> DEFINE perm == [j \in 1..n |-> j]
      <4>1. Lists(perm, n)
        <5> HIDE DEF n
        <5> QED BY <2>2, StoredOrder
      <4>2. p.body = [r \in 1..n |-> p.body[r]]
        BY <2>1
      <4>3. shown = [r \in 1..n |-> p.body[perm[r]]]
        <5> HIDE DEF n
        <5>1. \A r \in 1..n : perm[r] = r
          OBVIOUS
        <5> HIDE DEF perm
        <5> QED BY <3>2, <4>2, <5>1
      <4> QED BY <4>1, <4>3
    <3> QED BY <3>1, <3>2
  <2>4. DOMAIN NonStream(p) = 1..n /\ \A r \in 1..n : NonStream(p)[r] = Content(p.body[perm[r]])
    <3>1. NonStream(p) = [j \in DOMAIN shown |-> Content(shown[j])]
      BY DEF NonStream
    <3> HIDE DEF shown, n
    <3> QED BY <2>3, <3>1
  <2> DEFINE finished == {i \in DOMAIN items : ~items[i].open}
  <2>5. ASSUME NEW x
        PROVE  Cardinality({j \in DOMAIN NonStream(p) : NonStream(p)[j] = x})
                 = Cardinality({i \in finished : Content(items[i]) = x})
    <3>1. {j \in DOMAIN NonStream(p) : NonStream(p)[j] = x} = {r \in 1..n : Content(p.body[perm[r]]) = x}
      <4> HIDE DEF n
      <4> QED BY <2>4
    <3>2. Cardinality(ListedAt(p.body, perm, x)) = Cardinality(StreamedAt(items, x))
      <4> HIDE DEF shown
      <4> QED BY <2>1, <2>3, SameCount
    <3> QED BY <3>1, <3>2 DEF ListedAt, StreamedAt
  <2> QED BY <2>5
<1>2. StreamInv /\ TellsInv => BodyHasStreamedItems
  BY <1>1 DEF BodyHasStreamedItems
<1> QED BY <1>2, TellsInit, StreamInvariant, TellsNext, PTL DEF Spec
=============================================================================
