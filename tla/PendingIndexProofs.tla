------------------------- MODULE PendingIndexProofs -------------------------
(***************************************************************************)
(* Proofs about PendingIndex for any number of sessions, resolvers, tools  *)
(* and interrupted calls: a settled session stays in the index file of its *)
(* batch, and ResolvePending finds it.  The argument is that an entry is   *)
(* removed only when its session can never be parked on that batch again,  *)
(* since a session uses each tool id once.                                 *)
(***************************************************************************)
EXTENDS PendingIndex, SumTheorems, SequenceTheorems

\* The session has left the batch, for good: a batch is entered with an id
\* never called before.
Dead(b, s) == b \subseteq called[s] /\ state[s].batch # b

LookupType ==
  [pc: {"idle", "index", "states", "repair", "cover", "ambiguous", "none"},
   ids: SUBSET Tools, batch: SUBSET Tools, todo: SUBSET (Tools \cup Sessions),
   invalid: SUBSET Sessions, matches: SUBSET Sessions, candidate: SUBSET Tools,
   covered: BOOLEAN, parked: SUBSET Sessions]

FilesType ==
  /\ state \in [Sessions -> [pending: SUBSET Tools, batch: SUBSET Tools]]
  /\ called \in [Sessions -> SUBSET Tools]
  /\ index \in [Batches -> SUBSET Sessions]
  /\ pointer \in [Tools -> SUBSET Tools]
  /\ holder \in [Batches -> Actors \cup {Nobody}]
  /\ tasks \in [Actors -> Seq(Task)]
  /\ todo \in [Actors -> SUBSET Tools]
  /\ lost \subseteq Sessions /\ rebuild \subseteq Sessions
  /\ lookup \in [Resolvers -> LookupType]

\* A session has a batch exactly while it is parked; the batch need not have
\* its pending tools (PendingCovered).
SessionOK(s) ==
  /\ state[s].batch \subseteq called[s]
  /\ state[s].pending = {} <=> state[s].batch = {}

IndexOK == \A b \in Batches : \A s \in index[b] : b \subseteq called[s]

\* An actor inside mutatePendingIndex holds the lock of its batch.
Locked == \A a \in Actors : todo[a] # {} => ~Idle(a) /\ holder[Current(a).batch] = a

Bounded == \A a \in Actors : Len(tasks[a]) <= Cardinality(Sessions) + 1

\* A removal under way is of a session that has left the batch.
TaskOK(k) == k.batch \subseteq called[k.session] /\ (~k.add => Dead(k.batch, k.session))
TasksOK == \A a \in Actors : \A i \in 1..Len(tasks[a]) : TaskOK(tasks[a][i])

\* The calls a parked session has under way end with the entry of its batch.
OwnOK(s) ==
  /\ \A i \in 1..Len(tasks[s]) : tasks[s][i].session = s
  /\ Parked(s) /\ ~Idle(s) =>
       tasks[s][Len(tasks[s])] = [add |-> TRUE, batch |-> state[s].batch, session |-> s]

ResolversRemove == \A r \in Resolvers : \A i \in 1..Len(tasks[r]) : ~tasks[r][i].add

\* How far the lookup has come with a session that waits for its ids.
OnTrack(l, s) ==
  /\ ~l.covered /\ s \in index[l.ids]
  /\ l.pc \in {"index", "states", "repair", "ambiguous"}
  /\ l.pc # "ambiguous" => l.batch = l.ids
  /\ l.pc = "states" => s \in l.todo \cup l.matches
  /\ l.pc = "repair" => s \in l.matches
  /\ l.pc = "ambiguous" => Cardinality(l.matches) > 1

LookupOK(r) ==
  LET l == lookup[r] IN
  /\ l.pc # "repair" => Idle(r)
  /\ l.pc \in {"index", "states", "repair"} => l.batch \in Batches
  /\ l.pc = "states" =>
       /\ l.todo # {} /\ l.todo \subseteq Sessions
       /\ \A s \in l.todo : l.batch \subseteq called[s]
       /\ \A s \in l.invalid : Dead(l.batch, s)
  /\ l.pc = "cover" => l.todo \subseteq Tools
  /\ l.pc # "idle" =>
       /\ l.ids \in Batches
       /\ \A s \in l.parked : l.ids \subseteq called[s]
       /\ \A s \in l.parked : state[s].batch = l.ids => OnTrack(l, s)

IInv ==
  /\ FilesType
  /\ \A s \in Sessions : SessionOK(s)
  /\ IndexOK /\ Locked /\ Bounded /\ TasksOK
  /\ \A s \in Sessions : OwnOK(s)
  /\ ResolversRemove /\ Findable
  /\ \A r \in Resolvers : LookupOK(r)

-----------------------------------------------------------------------------
LEMMA ActorTypes ==
    /\ Sessions \subseteq Actors /\ Resolvers \subseteq Actors /\ Restart \in Actors
    /\ Nobody \notin Actors
    /\ Cardinality(Sessions) \in Nat /\ (Sessions # {} => Cardinality(Sessions) >= 1)
<1>1. Cardinality(Sessions) \in Nat /\ (Cardinality(Sessions) = 0 <=> Sessions = {})
  BY ActorsAssumption, FS_CardinalityType, FS_EmptySet
<1> QED BY <1>1, ActorsAssumption DEF Actors

LEMMA MinIn == ASSUME NEW S \in SUBSET Tools, S # {} PROVE Min(S) \in S
<1>1. S \in SUBSET Nat
  BY ToolsAssumption
<1>2. \E m \in S : \A n \in S : m <= n
  BY <1>1, LeastExists
<1> QED BY <1>2 DEF Min

LEMMA FirstIn == ASSUME NEW S, S # {} PROVE First(S) \in S
BY DEF First

LEMMA Initial == Init => IInv
<1> SUFFICES ASSUME Init PROVE IInv
  OBVIOUS
<1> USE DEF Init
<1>1. \A a \in Actors : tasks[a] = <<>> /\ Len(tasks[a]) = 0 /\ Idle(a) /\ todo[a] = {}
  BY DEF Idle
<1>2. NoLookup \in LookupType
  BY DEF NoLookup, LookupType
<1>3. tasks \in [Actors -> Seq(Task)]
  OBVIOUS
<1>4. FilesType
  BY <1>2, <1>3 DEF FilesType, Unparked
<1>5. \A s \in Sessions : SessionOK(s) /\ ~Parked(s)
  BY DEF SessionOK, Unparked, Parked
<1>6. IndexOK /\ Findable
  BY <1>5 DEF IndexOK, Findable, Settled
<1>7. Locked /\ Bounded /\ TasksOK /\ ResolversRemove
  BY <1>1, ActorTypes DEF Locked, Bounded, TasksOK, ResolversRemove
<1>8. \A s \in Sessions : OwnOK(s)
  BY <1>1, <1>5, ActorTypes DEF OwnOK
<1>9. \A r \in Resolvers : LookupOK(r)
  BY <1>1, ActorTypes DEF LookupOK, NoLookup
<1> QED BY <1>4, <1>5, <1>6, <1>7, <1>8, <1>9 DEF IInv

-----------------------------------------------------------------------------
(***************************************************************************)
(* Steps of a session.                                                     *)
(***************************************************************************)
\* The calls syncPendingIndex makes for session s that goes from old to new.
SyncCalls(q, s, old, new) ==
  /\ q \in Seq(Task) /\ Len(q) <= 2
  /\ \A i \in 1..Len(q) :
       /\ q[i].session = s
       /\ q[i].add => q[i].batch = new
       /\ ~q[i].add => q[i].batch = old /\ old # new
  /\ new # {} => q # <<>> /\ q[Len(q)] = [add |-> TRUE, batch |-> new, session |-> s]

LEMMA Concat ==
    ASSUME NEW a, NEW b
    PROVE  /\ <<a>> \o <<b>> = <<a, b>> /\ <<a>> \o <<>> = <<a>>
           /\ <<>> \o <<b>> = <<b>> /\ <<>> \o <<>> = <<>>
<1>1. <<a>> \o <<b>> = <<a, b>>
  <2> DEFINE s == <<a>> \o <<b>>
             t == <<a, b>>
  <2>1. <<a>> \in Seq({a, b}) /\ <<b>> \in Seq({a, b}) /\ t \in Seq({a, b})
    OBVIOUS
  <2>2. s \in Seq({a, b}) /\ Len(s) = 2 /\ s[1] = a /\ s[2] = b
    BY <2>1, ConcatProperties
  <2>3. Len(t) = 2 /\ t[1] = a /\ t[2] = b
    OBVIOUS
  <2> HIDE DEF s, t
  <2>4. s = t
    BY <2>1, <2>2, <2>3, SeqEqual
  <2> QED BY <2>4 DEF s, t
<1>2. <<a>> \o <<>> = <<a>>
  OBVIOUS
<1>3. <<>> \o <<b>> = <<b>> /\ <<>> \o <<>> = <<>>
  OBVIOUS
<1> QED BY <1>1, <1>2, <1>3

LEMMA SyncIsCalls ==
    ASSUME NEW s \in Sessions, NEW old \in SUBSET Tools, NEW new \in SUBSET Tools,
           Sync(s, old, new)
    PROVE  \E q : SyncCalls(q, s, old, new) /\ tasks' = [tasks EXCEPT ![s] = q]
<1> DEFINE rem == [add |-> FALSE, batch |-> old, session |-> s]
           ent == [add |-> TRUE, batch |-> new, session |-> s]
<1>1. (old # {} => rem \in Task) /\ (new # {} => ent \in Task)
  <2>1. old # {} => old \in Batches
    BY DEF Batches
  <2>2. new # {} => new \in Batches
    BY DEF Batches
  <2> QED BY <2>1, <2>2 DEF Task
<1>2. CASE old # {} /\ old # new /\ new # {}
  <2> DEFINE q == <<rem, ent>>
  <2>1. <<rem>> \o <<ent>> = q
    BY Concat
  <2>2. tasks' = [tasks EXCEPT ![s] = q]
    BY <1>2, <2>1 DEF Sync
  <2>3. q \in Seq(Task) /\ Len(q) = 2 /\ q[1] = rem /\ q[2] = ent
    BY <1>1, <1>2
  <2>4. SyncCalls(q, s, old, new)
    BY <1>2, <2>3 DEF SyncCalls
  <2> QED BY <2>2, <2>4
<1>3. CASE old # {} /\ old # new /\ new = {}
  <2> DEFINE q == <<rem>>
  <2>1. tasks' = [tasks EXCEPT ![s] = q]
    BY <1>3, Concat DEF Sync
  <2>2. q \in Seq(Task) /\ Len(q) = 1 /\ q[1] = rem
    BY <1>1, <1>3
  <2>3. SyncCalls(q, s, old, new)
    BY <1>3, <2>2 DEF SyncCalls
  <2> QED BY <2>1, <2>3
<1>4. CASE ~(old # {} /\ old # new) /\ new # {}
  <2> DEFINE q == <<ent>>
  <2>1. tasks' = [tasks EXCEPT ![s] = q]
    BY <1>4, Concat DEF Sync
  <2>2. q \in Seq(Task) /\ Len(q) = 1 /\ q[1] = ent
    BY <1>1, <1>4
  <2>3. SyncCalls(q, s, old, new)
    BY <1>4, <2>2 DEF SyncCalls
  <2> QED BY <2>1, <2>3
<1>5. CASE ~(old # {} /\ old # new) /\ new = {}
  <2> DEFINE q == <<>>
  <2>1. tasks' = [tasks EXCEPT ![s] = q]
    BY <1>5, Concat DEF Sync
  <2>2. q \in Seq(Task) /\ Len(q) = 0
    OBVIOUS
  <2>3. SyncCalls(q, s, old, new)
    BY <1>5, <2>2 DEF SyncCalls
  <2> QED BY <2>1, <2>3
<1> QED BY <1>2, <1>3, <1>4, <1>5

\* Session s, idle so far, goes from its state to n; old is the batch it
\* leaves in the index, and the batch it enters has an id not called before.
LEMMA SessionChange ==
    ASSUME IInv, NEW s \in Sessions, Idle(s),
           NEW n \in [pending: SUBSET Tools, batch: SUBSET Tools], NEW c \in SUBSET Tools,
           state' = [state EXCEPT ![s] = n], called' = [called EXCEPT ![s] = c],
           called[s] \subseteq c,
           n.batch \subseteq c, n.pending = {} <=> n.batch = {},
           n.batch \in {{}, state[s].batch} \/ ~(n.batch \subseteq called[s]),
           NEW q, tasks' = [tasks EXCEPT ![s] = q],
           NEW old \in {{}, state[s].batch}, SyncCalls(q, s, old, n.batch),
           UNCHANGED <<indexVars, todo, lost, lookup, rebuild>>
    PROVE  IInv'
<1>1. /\ state'[s] = n /\ called'[s] = c
      /\ \A x \in Sessions : x # s => state'[x] = state[x] /\ called'[x] = called[x]
      /\ \A x \in Sessions : called[x] \subseteq called'[x]
      /\ s \in Actors /\ tasks'[s] = q /\ q \in Seq(Task)
      /\ \A a \in Actors : a # s => tasks'[a] = tasks[a]
  BY ActorTypes DEF IInv, FilesType, SyncCalls
<1>2. \A b \in Batches, x \in Sessions : Dead(b, x) => Dead(b, x)'
  <2> SUFFICES ASSUME NEW b \in Batches, NEW x \in Sessions, Dead(b, x) PROVE Dead(b, x)'
    OBVIOUS
  <2>1. b # {} /\ b \subseteq called[x] /\ state[x].batch # b
    BY DEF Dead, Batches
  <2>2. state'[x].batch # b
    <3>1. CASE x # s
      BY <1>1, <2>1, <3>1
    <3>2. CASE x = s
      BY <1>1, <2>1, <3>2
    <3> QED BY <3>1, <3>2
  <2> QED BY <1>1, <2>1, <2>2 DEF Dead
<1>3. FilesType'
  BY <1>1 DEF IInv, FilesType, indexVars
<1>4. \A x \in Sessions : SessionOK(x)'
  BY <1>1 DEF IInv, SessionOK
<1>5. IndexOK'
  BY <1>1 DEF IInv, IndexOK, FilesType, indexVars
<1>6. Locked'
  <2> SUFFICES ASSUME NEW a \in Actors, todo[a] # {}
               PROVE  ~Idle(a)' /\ holder'[Current(a)'.batch] = a
    BY DEF Locked
  <2>1. ~Idle(a) /\ holder[Current(a).batch] = a /\ a # s
    BY DEF IInv, Locked
  <2> QED BY <1>1, <2>1 DEF Idle, Current, indexVars
<1>7. Bounded'
  BY <1>1, ActorTypes DEF IInv, Bounded, SyncCalls
<1>8. TasksOK'
  <2> SUFFICES ASSUME NEW a \in Actors, NEW i \in 1..Len(tasks'[a]) PROVE TaskOK(tasks[a][i])'
    BY DEF TasksOK
  <2>1. CASE a = s
    <3>1. q[i].session = s /\ (q[i].add => q[i].batch = n.batch)
          /\ (~q[i].add => q[i].batch = old /\ old # n.batch)
      BY <1>1, <2>1 DEF SyncCalls
    <3>2. old \subseteq called[s]
      BY DEF IInv, SessionOK
    <3> QED BY <1>1, <2>1, <3>1, <3>2 DEF TaskOK, Dead
  <2>2. CASE a # s
    <3>1. tasks'[a] = tasks[a] /\ tasks[a][i] \in Task /\ TaskOK(tasks[a][i])
      BY <1>1, <2>2 DEF IInv, FilesType, TasksOK
    <3> QED BY <1>1, <1>2, <3>1 DEF TaskOK, Task
  <2> QED BY <2>1, <2>2
<1>9. \A x \in Sessions : OwnOK(x)'
  <2> SUFFICES ASSUME NEW x \in Sessions PROVE OwnOK(x)'
    OBVIOUS
  <2>1. CASE x = s
    <3>1. Parked(s)' => n.batch # {}
      BY <1>1 DEF Parked
    <3>2. \A i \in 1..Len(q) : q[i].session = s
      BY DEF SyncCalls
    <3>3. n.batch # {} => q[Len(q)] = [add |-> TRUE, batch |-> n.batch, session |-> s]
      BY DEF SyncCalls
    <3>4. OwnOK(s)'
      BY <1>1, <3>1, <3>2, <3>3 DEF OwnOK
    <3> QED BY <2>1, <3>4
  <2>2. CASE x # s
    BY <1>1, <2>2, ActorTypes DEF IInv, OwnOK, Parked, Idle
  <2> QED BY <2>1, <2>2
<1>10. ResolversRemove'
  BY <1>1, ActorTypes, ActorsAssumption DEF IInv, ResolversRemove
<1>11. Findable'
  <2> SUFFICES ASSUME NEW x \in Sessions, Settled(x)' PROVE x \in index'[state'[x].batch]
    BY DEF Findable
  <2>1. x # s
    BY <1>1 DEF Settled, Parked, Idle, SyncCalls
  <2> QED BY <1>1, <2>1, ActorTypes DEF IInv, Findable, Settled, Parked, Idle, indexVars
<1>12. \A r \in Resolvers : LookupOK(r)'
  <2> SUFFICES ASSUME NEW r \in Resolvers PROVE LookupOK(r)'
    OBVIOUS
  <2> DEFINE l == lookup[r]
  <2>1. LookupOK(r) /\ l \in LookupType /\ lookup'[r] = l /\ r # s /\ Idle(r)' = Idle(r)
    BY <1>1, ActorTypes, ActorsAssumption DEF IInv, FilesType, Idle
  <2>2. l.pc = "states" =>
          /\ \A x \in l.todo : l.batch \subseteq called'[x]
          /\ \A x \in l.invalid : Dead(l.batch, x)'
    BY <1>1, <1>2, <2>1 DEF LookupOK, LookupType
  <2>3. l.pc # "idle" => \A x \in l.parked :
          l.ids \subseteq called'[x] /\ (state'[x].batch = l.ids => OnTrack(l, x)')
    <3> SUFFICES ASSUME l.pc # "idle", NEW x \in l.parked
                 PROVE  l.ids \subseteq called'[x] /\ (state'[x].batch = l.ids => OnTrack(l, x)')
      OBVIOUS
    <3>1. x \in Sessions /\ l.ids \in Batches /\ l.ids \subseteq called[x]
          /\ (state[x].batch = l.ids => OnTrack(l, x))
      BY <2>1 DEF LookupOK, LookupType
    <3>2. state'[x].batch = l.ids => state[x].batch = l.ids
      BY <1>2, <3>1 DEF Dead
    <3> QED BY <1>1, <2>1, <3>1, <3>2 DEF OnTrack, indexVars
  <2> QED BY <2>1, <2>2, <2>3 DEF LookupOK
<1> QED BY <1>3, <1>4, <1>5, <1>6, <1>7, <1>8, <1>9, <1>10, <1>11, <1>12 DEF IInv

LEMMA StateType ==
    ASSUME IInv, NEW s \in Sessions
    PROVE  /\ state[s] \in [pending: SUBSET Tools, batch: SUBSET Tools]
           /\ called[s] \in SUBSET Tools /\ SessionOK(s)
BY DEF IInv, FilesType

LEMMA ClaimStep == ASSUME IInv, NEW s \in Sessions, Claim(s) PROVE IInv'
<1>1. PICK q : SyncCalls(q, s, {}, state[s].batch) /\ tasks' = [tasks EXCEPT ![s] = q]
  BY StateType, SyncIsCalls DEF Claim
<1>2. state' = [state EXCEPT ![s] = state[s]] /\ called' = [called EXCEPT ![s] = called[s]]
  BY DEF Claim, sessionVars, IInv, FilesType
<1> QED BY <1>1, <1>2, StateType, SessionChange DEF Claim, SessionOK

\* The batch is kept, or it is entered with a tool not called before.
LEMMA NextBatchIs ==
    ASSUME IInv, NEW s \in Sessions, NEW pending \in StillPending(s)
    PROVE  LET next == NextBatch(s, pending) IN
           /\ next \in SUBSET Tools /\ next \subseteq called[s] \cup pending
           /\ pending = {} <=> next = {}
           /\ next \in {{}, state[s].batch} \/ ~(next \subseteq called[s])
<1> DEFINE old == state[s].pending
           next == NextBatch(s, pending)
<1>1. /\ state[s] \in [pending: SUBSET Tools, batch: SUBSET Tools]
      /\ state[s].batch \subseteq called[s] /\ (old = {} <=> state[s].batch = {})
      /\ pending \in SUBSET Tools /\ (pending \ old) \cap called[s] = {}
  BY StateType DEF SessionOK, StillPending
<1>2. CASE pending = {}
  BY <1>1, <1>2 DEF NextBatch
<1>3. CASE pending # {} /\ next = state[s].batch /\ state[s].batch # {}
  BY <1>1, <1>3
<1>4. CASE pending # {} /\ next = pending /\ ~(pending \subseteq old)
  BY <1>1, <1>4
<1>5. pending \subseteq old => ~(Cardinality(pending) > Cardinality(old))
  <2>1. IsFiniteSet(old)
    BY <1>1, ToolsAssumption, FS_Subset
  <2>2. pending \subseteq old => /\ Cardinality(pending) <= Cardinality(old)
                                /\ Cardinality(pending) \in Nat /\ Cardinality(old) \in Nat
    BY <2>1, FS_Subset, FS_CardinalityType
  <2> QED BY <2>2
<1>6. pending # {} => \/ next = pending /\ ~(pending \subseteq old)
                      \/ next = state[s].batch /\ state[s].batch # {}
  BY <1>1, <1>5 DEF NextBatch
<1> QED BY <1>2, <1>3, <1>4, <1>6

LEMMA SavePendingStep ==
    ASSUME IInv, NEW s \in Sessions, NEW pending \in SUBSET Tools, SavePending(s, pending)
    PROVE  IInv'
<1> DEFINE next == NextBatch(s, pending)
           n == [pending |-> pending, batch |-> next]
           c == called[s] \cup pending
<1>1. /\ next \in SUBSET Tools /\ next \subseteq c
      /\ pending = {} <=> next = {}
      /\ next \in {{}, state[s].batch} \/ ~(next \subseteq called[s])
  BY NextBatchIs DEF SavePending
<1>2. /\ state' = [state EXCEPT ![s] = n] /\ called' = [called EXCEPT ![s] = c]
      /\ Sync(s, state[s].batch, next) /\ Idle(s)
      /\ UNCHANGED <<indexVars, todo, lost, lookup, rebuild>>
  BY DEF SavePending
<1>3. state[s].batch \in SUBSET Tools /\ called[s] \in SUBSET Tools
  BY StateType
<1> HIDE DEF next
<1>4. PICK q : SyncCalls(q, s, state[s].batch, next) /\ tasks' = [tasks EXCEPT ![s] = q]
  BY <1>1, <1>2, <1>3, SyncIsCalls
<1>5. /\ n \in [pending: SUBSET Tools, batch: SUBSET Tools] /\ c \in SUBSET Tools
      /\ n.pending = pending /\ n.batch = next
  BY <1>1, <1>3
<1> HIDE DEF n
<1> QED BY <1>1, <1>2, <1>4, <1>5, SessionChange

\* The state file goes first, the index after it or, in SaveHistory, never.
LEMMA UnparkStep ==
    ASSUME IInv, NEW s \in Sessions, Delete(s) \/ SaveHistory(s) PROVE IInv'
<1>1. /\ Unparked \in [pending: SUBSET Tools, batch: SUBSET Tools]
      /\ Unparked.pending = {} /\ Unparked.batch = {}
  BY DEF Unparked
<1>2. called' = [called EXCEPT ![s] = called[s]] /\ state' = [state EXCEPT ![s] = Unparked] /\ Idle(s)
  BY DEF Delete, SaveHistory, IInv, FilesType
<1>3. UNCHANGED <<indexVars, todo, lost, lookup, rebuild>>
  BY DEF Delete, SaveHistory
<1>4. \E q : /\ SyncCalls(q, s, {}, {}) \/ SyncCalls(q, s, state[s].batch, {})
             /\ tasks' = [tasks EXCEPT ![s] = q]
  <2>1. CASE Delete(s)
    BY <2>1, StateType, SyncIsCalls DEF Delete
  <2>2. CASE SaveHistory(s)
    <3>1. tasks' = [tasks EXCEPT ![s] = <<>>]
      BY <2>2, ActorTypes DEF SaveHistory, Idle, IInv, FilesType
    <3>2. SyncCalls(<<>>, s, {}, {})
      BY DEF SyncCalls
    <3> QED BY <3>1, <3>2
  <2> QED BY <2>1, <2>2
<1>5. PICK q : /\ SyncCalls(q, s, {}, {}) \/ SyncCalls(q, s, state[s].batch, {})
               /\ tasks' = [tasks EXCEPT ![s] = q]
  BY <1>4
<1>6. PICK old \in {{}, state[s].batch} : SyncCalls(q, s, old, Unparked.batch)
  BY <1>1, <1>5
<1>7. /\ Unparked.batch \subseteq called[s]
      /\ Unparked.batch \in {{}, state[s].batch} /\ called[s] \in SUBSET Tools
  BY <1>1, StateType
<1> QED BY <1>1, <1>2, <1>3, <1>5, <1>6, <1>7, SessionChange

-----------------------------------------------------------------------------
(***************************************************************************)
(* Steps of a resolver.                                                    *)
(***************************************************************************)
\* The lookup moves on and nothing else.
LEMMA LookupMoves ==
    ASSUME IInv, NEW r \in Resolvers, NEW n \in LookupType,
           lookup' = [lookup EXCEPT ![r] = n],
           UNCHANGED <<sessionVars, indexVars, tasks, todo, lost, rebuild>>,
           LookupOK(r)'
    PROVE  IInv'
<1> USE DEF sessionVars, indexVars
<1>1. FilesType'
  BY DEF IInv, FilesType
<1>2. (\A s \in Sessions : SessionOK(s)') /\ IndexOK' /\ Locked' /\ Bounded'
  BY DEF IInv, SessionOK, IndexOK, Locked, Bounded, Idle, Current
<1>3. TasksOK' /\ (\A s \in Sessions : OwnOK(s)')
  BY DEF IInv, TasksOK, TaskOK, Dead, OwnOK, Parked, Idle
<1>4. ResolversRemove' /\ Findable'
  BY DEF IInv, ResolversRemove, Findable, Settled, Parked, Idle
<1>5. ASSUME NEW x \in Resolvers PROVE LookupOK(x)'
  <2>1. CASE x = r
    BY <2>1
  <2>2. CASE x # r
    <3>1. lookup'[x] = lookup[x] /\ LookupOK(x)
      BY <2>2 DEF IInv, FilesType
    <3> QED BY <3>1 DEF LookupOK, OnTrack, Dead, Idle
  <2> QED BY <2>1, <2>2
<1> QED BY <1>1, <1>2, <1>3, <1>4, <1>5 DEF IInv

LEMMA LookupIs ==
    ASSUME IInv, NEW r \in Resolvers
    PROVE  /\ lookup[r] \in LookupType /\ LookupOK(r) /\ lookup \in [Resolvers -> LookupType]
           /\ r \in Actors
BY ActorTypes DEF IInv, FilesType

\* A lookup that is over.
LEMMA LookupEnds ==
    ASSUME IInv, NEW r \in Resolvers, Idle(r), lookup' = [lookup EXCEPT ![r] = NoLookup],
           UNCHANGED <<sessionVars, indexVars, tasks, todo, lost, rebuild>>
    PROVE  IInv'
<1>1. NoLookup \in LookupType /\ NoLookup.pc = "idle"
  BY DEF NoLookup, LookupType
<1>2. lookup'[r] = NoLookup
  BY LookupIs
<1>3. LookupOK(r)'
  BY <1>1, <1>2 DEF LookupOK, Idle
<1> QED BY <1>1, <1>3, LookupMoves

LEMMA ResolveStep ==
    ASSUME IInv, NEW r \in Resolvers, NEW ids \in Batches, Resolve(r, ids) PROVE IInv'
<1> DEFINE n == [NoLookup EXCEPT !.pc = "index", !.ids = ids, !.batch = ids, !.parked = Waiting(ids)]
<1>1. Waiting(ids) \in SUBSET Sessions /\ ids \in SUBSET Tools
  BY DEF Waiting, Batches
<1>2. /\ n \in LookupType /\ n.pc = "index" /\ n.ids = ids /\ n.batch = ids
      /\ n.parked = Waiting(ids) /\ ~n.covered
  BY <1>1 DEF NoLookup, LookupType
<1>3. lookup' = [lookup EXCEPT ![r] = n] /\ lookup'[r] = n
      /\ UNCHANGED <<sessionVars, indexVars, tasks, todo, lost, rebuild>>
  BY LookupIs DEF Resolve
<1>4. Idle(r)
  BY LookupIs DEF Resolve, LookupOK
<1>5. \A s \in Waiting(ids) : ids \subseteq called[s] /\ s \in index[ids]
  BY DEF Waiting, IInv, Findable, SessionOK
<1> HIDE DEF n
<1>6. LookupOK(r)'
  BY <1>2, <1>3, <1>4, <1>5 DEF LookupOK, OnTrack, Idle, sessionVars, indexVars
<1> QED BY <1>2, <1>3, <1>6, LookupMoves

\* Without a session on track the exact lookup may end; the covering one
\* follows it once.
LEMMA NotPendingOK ==
    ASSUME IInv, NEW r \in Resolvers, Idle(r), NEW l, l = lookup[r],
           l.pc # "idle", \A s \in l.parked : state[s].batch # l.ids,
           lookup' = [lookup EXCEPT ![r] = NotPending(l)],
           UNCHANGED <<sessionVars, indexVars, tasks, todo, lost, rebuild>>
    PROVE  IInv'
<1> DEFINE n == NotPending(l)
<1>1. l \in LookupType /\ LookupOK(r) /\ l.ids \in SUBSET Tools
  BY LookupIs DEF LookupType
<1>2. /\ n \in LookupType /\ n.pc \in {"none", "cover"} /\ n.ids = l.ids /\ n.parked = l.parked
      /\ n.pc = "cover" => n.todo = l.ids
  BY <1>1 DEF NotPending, LookupType
<1>3. lookup'[r] = n
  BY LookupIs
<1> HIDE DEF n
<1>4. LookupOK(r)'
  <2>1. /\ n.ids \in Batches /\ \A s \in n.parked : n.ids \subseteq called[s]
    BY <1>1, <1>2 DEF LookupOK
  <2> QED BY <1>1, <1>2, <1>3, <2>1 DEF LookupOK, Idle, sessionVars
<1> QED BY <1>2, <1>4, LookupMoves DEF n

LEMMA ReadIndexStep == ASSUME IInv, NEW r \in Resolvers, ReadIndex(r) PROVE IInv'
<1> DEFINE l == lookup[r]
<1>1. /\ l \in LookupType /\ LookupOK(r) /\ l.pc = "index" /\ Idle(r) /\ l.batch \in Batches
      /\ UNCHANGED <<sessionVars, indexVars, tasks, todo, lost, rebuild>>
  BY LookupIs DEF ReadIndex, LookupOK
<1>2. CASE index[l.batch] = {}
  <2>1. \A s \in l.parked : state[s].batch # l.ids
    BY <1>1, <1>2 DEF LookupOK, OnTrack
  <2>2. lookup' = [lookup EXCEPT ![r] = NotPending(l)]
    BY <1>2 DEF ReadIndex
  <2> HIDE DEF l
  <2> QED BY <1>1, <2>1, <2>2, NotPendingOK DEF l
<1>3. CASE index[l.batch] # {}
  <2> DEFINE n == [l EXCEPT !.pc = "states", !.todo = index[l.batch], !.matches = {}, !.invalid = {}]
  <2>1. index[l.batch] \in SUBSET Sessions /\ \A s \in index[l.batch] : l.batch \subseteq called[s]
    BY <1>1 DEF IInv, FilesType, IndexOK
  <2>2. /\ n \in LookupType /\ n.pc = "states" /\ n.ids = l.ids /\ n.parked = l.parked
        /\ n.todo = index[l.batch] /\ n.batch = l.batch /\ n.invalid = {} /\ n.matches = {}
        /\ n.covered = l.covered
    BY <1>1, <2>1 DEF LookupType
  <2>3. lookup' = [lookup EXCEPT ![r] = n] /\ lookup'[r] = n
    BY <1>3, LookupIs DEF ReadIndex
  <2> HIDE DEF n
  <2>4. \A s \in l.parked : state[s].batch = l.ids =>
          ~l.covered /\ s \in index[l.ids] /\ l.batch = l.ids
    BY <1>1 DEF LookupOK, OnTrack
  <2>5. LookupOK(r)'
    BY <1>1, <1>3, <2>1, <2>2, <2>3, <2>4 DEF LookupOK, OnTrack, Idle, sessionVars, indexVars
  <2> QED BY <1>1, <2>2, <2>3, <2>5, LookupMoves
<1> QED BY <1>2, <1>3

LEMMA AnswerStep == ASSUME IInv, NEW r \in Resolvers, Answer(r) PROVE IInv'
<1> DEFINE l == lookup[r]
<1>1. /\ l \in LookupType /\ LookupOK(r) /\ l.pc = "repair" /\ Idle(r)
      /\ UNCHANGED <<sessionVars, indexVars, tasks, todo, lost, rebuild>>
  BY LookupIs DEF Answer
<1>2. \A s \in l.parked : state[s].batch = l.ids => s \in l.matches /\ ~l.covered /\ s \in index[l.ids]
  BY <1>1 DEF LookupOK, OnTrack
<1>3. CASE l.matches = {}
  <2>1. lookup' = [lookup EXCEPT ![r] = NotPending(l)]
    BY <1>3 DEF Answer
  <2>2. \A s \in l.parked : state[s].batch # l.ids
    BY <1>2, <1>3
  <2> HIDE DEF l
  <2> QED BY <1>1, <2>1, <2>2, NotPendingOK DEF l
<1>4. CASE l.matches # {} /\ Cardinality(l.matches) = 1
  BY <1>1, <1>4, LookupEnds DEF Answer
<1>5. CASE l.matches # {} /\ Cardinality(l.matches) # 1
  <2> DEFINE n == [l EXCEPT !.pc = "ambiguous"]
  <2>1. /\ n \in LookupType /\ n.pc = "ambiguous" /\ n.ids = l.ids /\ n.parked = l.parked
        /\ n.matches = l.matches /\ n.covered = l.covered
    BY <1>1 DEF LookupType
  <2>2. lookup' = [lookup EXCEPT ![r] = n] /\ lookup'[r] = n
    BY <1>5, LookupIs DEF Answer
  <2>3. Cardinality(l.matches) > 1
    <3>1. IsFiniteSet(l.matches)
      BY <1>1, ActorsAssumption, FS_Subset DEF LookupType
    <3>2. Cardinality(l.matches) \in Nat /\ Cardinality(l.matches) # 0
      BY <1>5, <3>1, FS_CardinalityType, FS_EmptySet
    <3> QED BY <1>5, <3>2
  <2> HIDE DEF n
  <2>4. LookupOK(r)'
    BY <1>1, <1>2, <2>1, <2>2, <2>3 DEF LookupOK, OnTrack, Idle, sessionVars, indexVars
  <2> QED BY <1>1, <2>1, <2>2, <2>4, LookupMoves
<1> QED BY <1>3, <1>4, <1>5

\* The covering lookup runs when no session was on track, and stays so.
LEMMA CoverMoves ==
    ASSUME IInv, NEW r \in Resolvers, lookup[r].pc = "cover", NEW n \in LookupType,
           n.ids = lookup[r].ids, n.parked = lookup[r].parked,
           n.pc \in {"cover", "ambiguous", "none"} \/ (n.pc = "index" /\ n.batch \in Batches),
           n.pc = "cover" => n.todo \subseteq Tools,
           lookup' = [lookup EXCEPT ![r] = n],
           UNCHANGED <<sessionVars, indexVars, tasks, todo, lost, rebuild>>
    PROVE  IInv'
<1>1. LookupOK(r) /\ lookup'[r] = n
  BY LookupIs
<1>2. /\ Idle(r) /\ n.ids \in Batches
      /\ \A s \in n.parked : n.ids \subseteq called[s] /\ state[s].batch # n.ids
  BY <1>1 DEF LookupOK, OnTrack
<1>3. LookupOK(r)'
  BY <1>1, <1>2 DEF LookupOK, Idle, sessionVars
<1> QED BY <1>3, LookupMoves

LEMMA ReadPointerStep == ASSUME IInv, NEW r \in Resolvers, ReadPointer(r) PROVE IInv'
<1> DEFINE l == lookup[r]
           t == Min(l.todo)
           b == pointer[t]
           usable == b # {} /\ b \subseteq l.ids
           cand == IF usable /\ l.candidate = {} THEN b ELSE l.candidate
           n == IF usable /\ b # cand
                THEN [l EXCEPT !.pc = "ambiguous", !.todo = {}, !.candidate = {}]
                ELSE [l EXCEPT !.todo = @ \ {t}, !.candidate = cand]
<1>1. /\ l \in LookupType /\ l.pc = "cover" /\ l.todo # {} /\ l.todo \in SUBSET Tools
  BY LookupIs DEF ReadPointer, LookupOK
<1>2. t \in Tools /\ b \in SUBSET Tools
  BY <1>1, MinIn DEF IInv, FilesType
<1>3. cand \in SUBSET Tools
  BY <1>1, <1>2 DEF LookupType
<1> HIDE DEF cand, t, b
<1>4. /\ n \in LookupType /\ n.pc \in {"cover", "ambiguous"} /\ n.ids = l.ids /\ n.parked = l.parked
      /\ n.todo \subseteq Tools
  BY <1>1, <1>3 DEF LookupType
<1>5. lookup' = [lookup EXCEPT ![r] = n]
      /\ UNCHANGED <<sessionVars, indexVars, tasks, todo, lost, rebuild>>
  BY DEF ReadPointer, cand, t, b
<1> HIDE DEF n
<1> QED BY <1>1, <1>4, <1>5, CoverMoves

LEMMA CoveringStep == ASSUME IInv, NEW r \in Resolvers, Covering(r) PROVE IInv'
<1> DEFINE l == lookup[r]
           n == IF l.candidate \in {{}, l.ids} THEN [l EXCEPT !.pc = "none", !.candidate = {}]
                ELSE [l EXCEPT !.pc = "index", !.batch = l.candidate, !.covered = TRUE,
                               !.candidate = {}]
<1>1. l \in LookupType /\ l.pc = "cover"
  BY LookupIs DEF Covering
<1>2. l.candidate # {} => l.candidate \in Batches
  BY <1>1 DEF LookupType, Batches
<1>3. /\ n \in LookupType /\ n.ids = l.ids /\ n.parked = l.parked
      /\ n.pc = "none" \/ (n.pc = "index" /\ n.batch \in Batches)
  BY <1>1, <1>2 DEF LookupType
<1>4. lookup' = [lookup EXCEPT ![r] = n]
      /\ UNCHANGED <<sessionVars, indexVars, tasks, todo, lost, rebuild>>
  BY DEF Covering
<1> HIDE DEF n
<1> QED BY <1>1, <1>3, <1>4, CoverMoves

LEMMA RefusedStep == ASSUME IInv, NEW r \in Resolvers, Refused(r) PROVE IInv'
<1>1. Idle(r)
  BY LookupIs DEF Refused, LookupOK
<1> QED BY <1>1, LookupEnds DEF Refused

LEMMA SetToSeqIs ==
    ASSUME NEW S, IsFiniteSet(S)
    PROVE  /\ SetToSeq(S) \in Seq(S) /\ Len(SetToSeq(S)) = Cardinality(S)
           /\ \A i \in 1..Len(SetToSeq(S)) : SetToSeq(S)[i] \in S
<1>1. Cardinality(S) \in Nat /\ ExistsBijection(1..Cardinality(S), S)
  BY FS_CardinalityType
<1>2. \E f \in [1..Cardinality(S) -> S] : IsInjective(f)
  BY <1>1 DEF ExistsBijection, Bijection, Injection
<1>3. SetToSeq(S) \in [1..Cardinality(S) -> S]
  BY <1>2 DEF SetToSeq
<1> HIDE DEF SetToSeq
<1> QED BY <1>1, <1>3

\* The removals of the stale entries.
LEMMA RepairCalls ==
    ASSUME IInv, NEW b \in Batches, NEW bad \in SUBSET Sessions,
           \A x \in bad : Dead(b, x)
    PROVE  LET q == SetToSeq({[add |-> FALSE, batch |-> b, session |-> x] : x \in bad}) IN
           /\ q \in Seq(Task) /\ Len(q) <= Cardinality(Sessions) + 1
           /\ \A i \in 1..Len(q) : ~q[i].add /\ TaskOK(q[i])
<1> DEFINE T == {[add |-> FALSE, batch |-> b, session |-> x] : x \in bad}
           f == [x \in bad |-> [add |-> FALSE, batch |-> b, session |-> x]]
           q == SetToSeq(T)
<1>1. IsFiniteSet(bad) /\ Cardinality(bad) <= Cardinality(Sessions) /\ Cardinality(bad) \in Nat
  BY ActorsAssumption, FS_Subset, FS_CardinalityType
<1>2. f \in Surjection(bad, T)
  BY DEF Surjection
<1>3. IsFiniteSet(T) /\ Cardinality(T) <= Cardinality(bad) /\ Cardinality(T) \in Nat
  <2> HIDE DEF T, f
  <2> QED BY <1>1, <1>2, FS_Surjection, FS_CardinalityType
<1>4. \A k \in T : k \in Task /\ ~k.add /\ TaskOK(k)
  <2> SUFFICES ASSUME NEW x \in bad, NEW k, k = [add |-> FALSE, batch |-> b, session |-> x]
               PROVE  k \in Task /\ ~k.add /\ TaskOK(k)
    OBVIOUS
  <2>1. k \in Task /\ k.add = FALSE /\ k.batch = b /\ k.session = x
    BY DEF Task
  <2>2. Dead(k.batch, k.session)
    BY <2>1
  <2>3. k.batch \subseteq called[k.session]
    BY <2>2 DEF Dead
  <2> QED BY <2>1, <2>2, <2>3 DEF TaskOK
<1>5. q \in Seq(T) /\ Len(q) = Cardinality(T) /\ \A i \in 1..Len(q) : q[i] \in T
  <2> HIDE DEF T
  <2> QED BY <1>3, SetToSeqIs
<1> HIDE DEF T
<1>6. q \in Seq(Task)
  BY <1>4, <1>5
<1>7. Len(q) <= Cardinality(Sessions) + 1
  BY <1>1, <1>3, <1>5, ActorTypes
<1> HIDE DEF q
<1>8. \A i \in 1..Len(q) : ~q[i].add /\ TaskOK(q[i])
  BY <1>4, <1>5
<1> QED BY <1>6, <1>7, <1>8 DEF q, T

LEMMA ReadStateStep == ASSUME IInv, NEW r \in Resolvers, ReadState(r) PROVE IInv'
<1> DEFINE l == lookup[r]
           s == First(l.todo)
           ok == Matches(s, l.batch)
           bad == IF ok THEN l.invalid ELSE l.invalid \cup {s}
           last == l.todo = {s}
           n == [l EXCEPT !.todo = @ \ {s},
                          !.matches = IF ok THEN @ \cup {s} ELSE @,
                          !.invalid = IF last THEN {} ELSE bad,
                          !.pc = IF last THEN "repair" ELSE @]
           q == SetToSeq({[add |-> FALSE, batch |-> l.batch, session |-> x] : x \in bad})
<1>1. /\ l \in LookupType /\ LookupOK(r) /\ r \in Actors /\ l.pc = "states" /\ Idle(r)
      /\ l.batch \in Batches /\ l.todo # {} /\ l.todo \subseteq Sessions
      /\ \A x \in l.todo : l.batch \subseteq called[x]
      /\ \A x \in l.invalid : Dead(l.batch, x)
  BY LookupIs DEF ReadState, LookupOK
<1>2. s \in l.todo /\ s \in Sessions
  BY <1>1, FirstIn
<1>3. UNCHANGED <<sessionVars, indexVars, todo, lost, rebuild>>
  BY DEF ReadState
<1>4. lookup' = [lookup EXCEPT ![r] = n]
      /\ tasks' = IF last THEN [tasks EXCEPT ![r] = q] ELSE tasks
  BY DEF ReadState
<1>5. ~ok => Dead(l.batch, s)
  BY <1>1, <1>2, StateType DEF Matches, Parked, Dead, SessionOK, Batches
<1>6. bad \in SUBSET Sessions /\ \A x \in bad : Dead(l.batch, x)
  BY <1>1, <1>2, <1>5 DEF LookupType
<1> HIDE DEF s, ok, bad
<1>7. /\ n \in LookupType /\ n.pc = (IF last THEN "repair" ELSE "states") /\ n.ids = l.ids
      /\ n.parked = l.parked /\ n.batch = l.batch /\ n.todo = l.todo \ {s} /\ n.covered = l.covered
      /\ n.invalid = (IF last THEN {} ELSE bad)
      /\ n.matches = (IF ok THEN l.matches \cup {s} ELSE l.matches)
  BY <1>1, <1>2, <1>6 DEF LookupType
<1>8. lookup'[r] = n
  BY <1>4, LookupIs
<1>9. \A x \in l.parked : state[x].batch = l.ids =>
        /\ ~l.covered /\ x \in index[l.ids] /\ l.batch = l.ids /\ x \in n.todo \cup n.matches
  <2> SUFFICES ASSUME NEW x \in l.parked, state[x].batch = l.ids
               PROVE  ~l.covered /\ x \in index[l.ids] /\ l.batch = l.ids /\ x \in n.todo \cup n.matches
    OBVIOUS
  <2>1. ~l.covered /\ x \in index[l.ids] /\ l.batch = l.ids /\ x \in l.todo \cup l.matches
    BY <1>1 DEF LookupOK, OnTrack
  <2>2. x = s => ok
    BY <1>2, <1>5, <2>1 DEF Dead
  <2> QED BY <1>7, <2>1, <2>2
<1>10. n.ids \in Batches /\ \A x \in n.parked : n.ids \subseteq called[x]
  BY <1>1, <1>7 DEF LookupOK
<1>11. CASE ~last
  <2>1. n.todo # {} /\ n.pc = "states" /\ tasks' = tasks
    BY <1>2, <1>4, <1>7, <1>11
  <2> HIDE DEF n
  <2>2. LookupOK(r)'
    BY <1>1, <1>3, <1>6, <1>7, <1>8, <1>9, <1>10, <1>11, <2>1
       DEF LookupOK, OnTrack, Idle, Dead, sessionVars, indexVars
  <2> QED BY <1>3, <1>4, <1>7, <2>1, <2>2, LookupMoves
<1>12. CASE last
  <2>1. n.todo = {} /\ n.pc = "repair" /\ tasks' = [tasks EXCEPT ![r] = q]
    BY <1>4, <1>7, <1>12
  <2>2. /\ q \in Seq(Task) /\ Len(q) <= Cardinality(Sessions) + 1
        /\ \A i \in 1..Len(q) : ~q[i].add /\ TaskOK(q[i])
    BY <1>1, <1>6, RepairCalls
  <2> HIDE DEF n, q
  <2>3. tasks'[r] = q /\ (\A a \in Actors : a # r => tasks'[a] = tasks[a]) /\ r \notin Sessions
    BY <1>1, <2>1, ActorsAssumption DEF IInv, FilesType
  <2> USE <1>3 DEF sessionVars, indexVars
  <2>4. FilesType'
    BY <1>4, <1>7, <2>1, <2>2 DEF IInv, FilesType
  <2>5. (\A x \in Sessions : SessionOK(x)') /\ IndexOK'
    BY DEF IInv, SessionOK, IndexOK
  <2>6. Locked'
    <3> SUFFICES ASSUME NEW a \in Actors, todo[a] # {}
                 PROVE  ~Idle(a)' /\ holder'[Current(a)'.batch] = a
      BY DEF Locked
    <3>1. ~Idle(a) /\ holder[Current(a).batch] = a /\ a # r
      BY <1>1 DEF IInv, Locked
    <3> QED BY <2>3, <3>1 DEF Idle, Current
  <2>7. Bounded' /\ ResolversRemove'
    BY <2>2, <2>3, ActorTypes DEF IInv, Bounded, ResolversRemove
  <2>8. TasksOK'
    BY <2>2, <2>3 DEF IInv, TasksOK, TaskOK, Dead
  <2>9. \A x \in Sessions : OwnOK(x)'
    BY <2>3, ActorTypes DEF IInv, OwnOK, Parked, Idle
  <2>10. Findable'
    BY <2>3, ActorTypes DEF IInv, Findable, Settled, Parked, Idle
  <2>11. ASSUME NEW x \in Resolvers PROVE LookupOK(x)'
    <3>1. CASE x = r
      BY <1>1, <1>7, <1>8, <1>9, <1>10, <2>1, <3>1 DEF LookupOK, OnTrack
    <3>2. CASE x # r
      <4>1. lookup'[x] = lookup[x] /\ LookupOK(x) /\ tasks'[x] = tasks[x]
        BY <1>4, <2>3, <3>2, ActorTypes DEF IInv, FilesType
      <4> QED BY <4>1 DEF LookupOK, OnTrack, Dead, Idle
    <3> QED BY <3>1, <3>2
  <2> QED BY <2>4, <2>5, <2>6, <2>7, <2>8, <2>9, <2>10, <2>11 DEF IInv
<1> QED BY <1>11, <1>12

-----------------------------------------------------------------------------
(***************************************************************************)
(* Steps of mutatePendingIndex and of the starting process.                *)
(***************************************************************************)
\* What a returning call leaves of its actor's calls.
LEMMA ReturnLeaves ==
    ASSUME IInv, NEW a \in Actors, ~Idle(a), Return(a)
    PROVE  /\ tasks' \in [Actors -> Seq(Task)]
           /\ Len(tasks'[a]) = Len(tasks[a]) - 1 /\ Len(tasks[a]) \in Nat \ {0}
           /\ \A i \in 1..Len(tasks'[a]) : tasks'[a][i] = tasks[a][i + 1]
           /\ \A x \in Actors : x # a => tasks'[x] = tasks[x]
           /\ Current(a) = tasks[a][1] /\ Current(a) \in Task
           /\ lost' \subseteq lost
<1>1. tasks \in [Actors -> Seq(Task)] /\ tasks[a] \in Seq(Task) /\ tasks[a] # <<>>
  BY DEF IInv, FilesType, Idle
<1>2. /\ Tail(tasks[a]) \in Seq(Task) /\ Len(Tail(tasks[a])) = Len(tasks[a]) - 1
      /\ \A i \in 1..Len(Tail(tasks[a])) : Tail(tasks[a])[i] = tasks[a][i + 1]
      /\ Len(tasks[a]) \in Nat \ {0}
  BY <1>1, HeadTailProperties, EmptySeq, LenProperties
<1>3. tasks' = [tasks EXCEPT ![a] = Tail(tasks[a])]
  BY DEF Return
<1>4. Current(a) = tasks[a][1] /\ Current(a) \in Task
  BY <1>1, <1>2 DEF Current
<1>5. lost' \subseteq lost
  BY DEF Return
<1> QED BY <1>1, <1>2, <1>3, <1>4, <1>5

\* A session whose index comes in step when a call returns: its own last call,
\* or another actor's, entered it in its batch.
LEMMA ReturnSettles ==
    ASSUME IInv, NEW a \in Actors, ~Idle(a), Return(a), UNCHANGED sessionVars,
           NEW s \in Sessions, Settled(s)'
    PROVE  \/ Settled(s)
           \/ Current(a).add /\ Current(a).batch = state[s].batch /\ Current(a).session = s
<1> SUFFICES ASSUME ~Settled(s)
             PROVE  Current(a).add /\ Current(a).batch = state[s].batch /\ Current(a).session = s
  OBVIOUS
<1>1. Parked(s) /\ tasks'[s] = <<>> /\ s \notin lost' /\ s \in Actors
  BY ActorTypes DEF Settled, Parked, Idle, sessionVars
<1>2. CASE a = s
  <2>1. Len(tasks[s]) = 1
    <3>1. Len(tasks'[s]) = 0
      BY <1>1
    <3>2. Len(tasks'[s]) = Len(tasks[s]) - 1 /\ Len(tasks[s]) \in Nat
      BY <1>2, ReturnLeaves
    <3> DEFINE m == Len(tasks'[s])
               k == Len(tasks[s])
    <3> HIDE DEF m, k
    <3>3. m = 0 /\ m = k - 1 /\ k \in Nat
      BY <3>1, <3>2 DEF m, k
    <3>4. k = 1
      BY <3>3
    <3> QED BY <3>4 DEF k
  <2>2. tasks[s][1] = [add |-> TRUE, batch |-> state[s].batch, session |-> s]
    BY <1>1, <1>2, <2>1 DEF IInv, OwnOK
  <2>3. Current(a) = [add |-> TRUE, batch |-> state[s].batch, session |-> s]
    BY <1>2, <2>2, ReturnLeaves
  <2> QED BY <2>3
<1>3. CASE a # s
  <2>1. tasks[s] = <<>>
    BY <1>1, <1>3, ReturnLeaves
  <2>2. s \in lost
    BY <1>1, <2>1 DEF Settled, Idle
  <2>3. Current(a).session = s /\ (a = s \/ Current(a).batch = state[Current(a).session].batch)
        /\ (a = s \/ Current(a).add)
    BY <1>1, <1>3, <2>2 DEF Return
  <2> QED BY <1>3, <2>3
<1> QED BY <1>2, <1>3

\* One step of a call: it keeps the entries of the sessions parked on their
\* batch, and the call that returns has made its own entry.
LEMMA MutateStep ==
    ASSUME IInv, NEW a \in Actors, ~Idle(a), UNCHANGED <<sessionVars, lookup, rebuild>>,
           index' \in [Batches -> SUBSET Sessions], pointer' \in [Tools -> SUBSET Tools],
           holder' \in [Batches -> Actors \cup {Nobody}], todo' \in [Actors -> SUBSET Tools],
           IndexOK', Locked',
           \A s \in Sessions : state[s].batch \in Batches /\ s \in index[state[s].batch]
                               => s \in index'[state[s].batch],
           \/ UNCHANGED <<tasks, lost>>
           \/ Return(a) /\ (Current(a).add => Current(a).session \in index'[Current(a).batch])
    PROVE  IInv'
<1> USE DEF sessionVars
<1>1. /\ tasks' \in [Actors -> Seq(Task)] /\ lost' \subseteq Sessions
      /\ \A x \in Actors : x # a => tasks'[x] = tasks[x]
      /\ \/ tasks'[a] = tasks[a]
         \/ /\ Len(tasks'[a]) = Len(tasks[a]) - 1 /\ Len(tasks[a]) \in Nat \ {0}
            /\ \A i \in 1..Len(tasks'[a]) : tasks'[a][i] = tasks[a][i + 1]
  BY ReturnLeaves DEF IInv, FilesType
<1>2. \A x \in Actors : /\ Len(tasks'[x]) \in Nat /\ Len(tasks[x]) \in Nat
                        /\ Len(tasks'[x]) <= Len(tasks[x])
                        /\ \A i \in 1..Len(tasks'[x]) :
                             \E j \in 1..Len(tasks[x]) : tasks'[x][i] = tasks[x][j]
                        /\ Len(tasks'[x]) > 0 =>
                             tasks'[x][Len(tasks'[x])] = tasks[x][Len(tasks[x])]
  <2> SUFFICES ASSUME NEW x \in Actors
               PROVE  /\ Len(tasks'[x]) \in Nat /\ Len(tasks[x]) \in Nat
                      /\ Len(tasks'[x]) <= Len(tasks[x])
                      /\ \A i \in 1..Len(tasks'[x]) :
                           \E j \in 1..Len(tasks[x]) : tasks'[x][i] = tasks[x][j]
                      /\ Len(tasks'[x]) > 0 =>
                           tasks'[x][Len(tasks'[x])] = tasks[x][Len(tasks[x])]
    OBVIOUS
  <2>1. tasks[x] \in Seq(Task) /\ tasks'[x] \in Seq(Task)
    BY <1>1 DEF IInv, FilesType
  <2>2. Len(tasks'[x]) \in Nat /\ Len(tasks[x]) \in Nat
    BY <2>1, LenProperties
  <2>3. CASE tasks'[x] = tasks[x]
    BY <2>2, <2>3
  <2>4. CASE tasks'[x] # tasks[x]
    <3>1. /\ Len(tasks'[x]) = Len(tasks[x]) - 1
          /\ \A i \in 1..Len(tasks'[x]) : tasks'[x][i] = tasks[x][i + 1]
      BY <1>1, <2>4
    <3> QED BY <2>2, <3>1
  <2> QED BY <2>3, <2>4
<1>3. FilesType'
  BY <1>1 DEF IInv, FilesType
<1>4. \A s \in Sessions : SessionOK(s)'
  BY DEF IInv, SessionOK
<1>5. Bounded'
  BY <1>2, ActorTypes DEF IInv, Bounded
<1>6. TasksOK'
  <2> SUFFICES ASSUME NEW x \in Actors, NEW i \in 1..Len(tasks'[x]) PROVE TaskOK(tasks[x][i])'
    BY DEF TasksOK
  <2>1. PICK j \in 1..Len(tasks[x]) : tasks'[x][i] = tasks[x][j]
    BY <1>2
  <2>2. TaskOK(tasks[x][j])
    BY DEF IInv, TasksOK
  <2> QED BY <2>1, <2>2 DEF TaskOK, Dead
<1>7. ASSUME NEW s \in Sessions PROVE OwnOK(s)'
  <2>1. s \in Actors /\ OwnOK(s)
    BY ActorTypes DEF IInv
  <2>2. \A i \in 1..Len(tasks'[s]) : tasks'[s][i].session = s
    BY <1>2, <2>1 DEF OwnOK
  <2>3. ASSUME Parked(s)', ~Idle(s)'
        PROVE  tasks'[s][Len(tasks'[s])] = [add |-> TRUE, batch |-> state[s].batch, session |-> s]
    <3>1. Len(tasks'[s]) > 0 /\ tasks[s] # <<>>
      BY <1>1, <1>2, <2>1, <2>3, EmptySeq DEF Idle
    <3> QED BY <1>2, <2>1, <2>3, <3>1 DEF OwnOK, Parked, Idle
  <2> QED BY <2>2, <2>3 DEF OwnOK
<1>8. ResolversRemove'
  <2> SUFFICES ASSUME NEW r \in Resolvers, NEW i \in 1..Len(tasks'[r]) PROVE ~tasks'[r][i].add
    BY DEF ResolversRemove
  <2>1. PICK j \in 1..Len(tasks[r]) : tasks'[r][i] = tasks[r][j]
    BY <1>2, ActorTypes
  <2> QED BY <2>1 DEF IInv, ResolversRemove
<1>9. Findable'
  <2> SUFFICES ASSUME NEW s \in Sessions, Settled(s)' PROVE s \in index'[state[s].batch]
    BY DEF Findable
  <2>1. state[s].batch \in Batches
    BY StateType DEF Settled, Parked, SessionOK, Batches
  <2>2. CASE Settled(s)
    BY <2>1, <2>2 DEF IInv, Findable
  <2>3. CASE ~Settled(s)
    <3>1. Return(a) /\ (Current(a).add => Current(a).session \in index'[Current(a).batch])
      BY <2>3 DEF Settled, Parked, Idle
    <3>2. Current(a).add /\ Current(a).batch = state[s].batch /\ Current(a).session = s
      BY <2>3, <3>1, ReturnSettles
    <3> QED BY <3>1, <3>2
  <2> QED BY <2>2, <2>3
<1>10. ASSUME NEW r \in Resolvers PROVE LookupOK(r)'
  <2> DEFINE l == lookup[r]
  <2>1. LookupOK(r) /\ l \in LookupType /\ lookup'[r] = l /\ r \in Actors
    BY LookupIs, ActorTypes
  <2>2. l.pc # "repair" => Idle(r)'
    BY <1>1, <2>1 DEF LookupOK, Idle
  <2>3. l.pc # "idle" => \A s \in l.parked : state[s].batch = l.ids => OnTrack(l, s)'
    BY <2>1 DEF LookupOK, LookupType, OnTrack
  <2> QED BY <2>1, <2>2, <2>3 DEF LookupOK, Dead
<1> QED BY <1>3, <1>4, <1>5, <1>6, <1>7, <1>8, <1>9, <1>10 DEF IInv

\* A batch whose lock is taken is nobody else's.
LEMMA CallAt ==
    ASSUME IInv, NEW a \in Actors, ~Idle(a)
    PROVE  /\ Current(a) \in Task /\ Current(a).batch \in Batches /\ Current(a).session \in Sessions
           /\ Current(a).batch \in SUBSET Tools
           /\ TaskOK(Current(a))
<1>1. tasks[a] \in Seq(Task) /\ tasks[a] # <<>>
  BY DEF IInv, FilesType, Idle
<1>2. Len(tasks[a]) \in Nat \ {0} /\ Current(a) = tasks[a][1] /\ Current(a) \in Task
  BY <1>1, EmptySeq, LenProperties DEF Current
<1>3. 1 \in 1..Len(tasks[a])
  BY <1>2
<1>4. TaskOK(Current(a))
  BY <1>2, <1>3 DEF IInv, TasksOK
<1> QED BY <1>2, <1>4 DEF Task, Batches

LEMMA BeginStep == ASSUME IInv, NEW a \in Actors, Begin(a) PROVE IInv'
<1> DEFINE b == Current(a).batch
           x == Current(a).session
           rest == index[b] \ {x}
<1>1. /\ ~Idle(a) /\ todo[a] = {} /\ holder[b] = Nobody
      /\ UNCHANGED <<sessionVars, lookup, rebuild, pointer>>
  BY DEF Begin
<1>2. /\ Current(a) \in Task /\ b \in Batches /\ b \in SUBSET Tools /\ x \in Sessions
      /\ TaskOK(Current(a)) /\ Nobody # a
  BY <1>1, CallAt, ActorTypes
<1>3. /\ index \in [Batches -> SUBSET Sessions] /\ pointer' \in [Tools -> SUBSET Tools]
      /\ holder \in [Batches -> Actors \cup {Nobody}] /\ todo \in [Actors -> SUBSET Tools]
      /\ IndexOK /\ Locked
  BY <1>1 DEF IInv, FilesType
<1>4. ~Current(a).add => state[x].batch # b
  BY <1>2 DEF TaskOK, Dead
<1> HIDE DEF b, x
<1>5. CASE ~Current(a).add /\ rest # {}
  <2>1. index' = [index EXCEPT ![b] = rest] /\ Return(a) /\ UNCHANGED <<holder, todo>>
    BY <1>5 DEF Begin, b, x
  <2>2. index' \in [Batches -> SUBSET Sessions] /\ IndexOK'
    BY <1>1, <1>2, <1>3, <2>1 DEF IndexOK, sessionVars
  <2>3. \A s \in Sessions : state[s].batch \in Batches /\ s \in index[state[s].batch]
                            => s \in index'[state[s].batch]
    BY <1>2, <1>3, <1>4, <1>5, <2>1
  <2>4. Locked'
    <3> SUFFICES ASSUME NEW y \in Actors, todo[y] # {}
                 PROVE  ~Idle(y)' /\ holder[Current(y)'.batch] = y
      BY <2>1 DEF Locked
    <3>1. y # a
      BY <1>1
    <3>2. tasks'[y] = tasks[y] /\ ~Idle(y) /\ holder[Current(y).batch] = y
      BY <1>1, <1>3, <2>1, <3>1, ReturnLeaves DEF Locked
    <3> QED BY <3>2 DEF Idle, Current
  <2> QED BY <1>1, <1>3, <1>5, <2>1, <2>2, <2>3, <2>4, MutateStep
<1>6. CASE ~(~Current(a).add /\ rest # {})
  <2>1. /\ index' = IF Current(a).add THEN index ELSE [index EXCEPT ![b] = {}]
        /\ holder' = [holder EXCEPT ![b] = a]
        /\ todo' = [todo EXCEPT ![a] = b]
        /\ UNCHANGED <<tasks, lost>>
    BY <1>6 DEF Begin, TakeLock, b, x
  <2>2. index' \in [Batches -> SUBSET Sessions] /\ IndexOK'
    BY <1>1, <1>2, <1>3, <2>1 DEF IndexOK, sessionVars
  <2>3. \A s \in Sessions : state[s].batch \in Batches /\ s \in index[state[s].batch]
                            => s \in index'[state[s].batch]
    BY <1>2, <1>3, <1>4, <1>6, <2>1
  <2>4. Locked'
    <3> SUFFICES ASSUME NEW y \in Actors, todo'[y] # {}
                 PROVE  ~Idle(y) /\ holder'[Current(y).batch] = y
      BY <2>1 DEF Locked, Idle, Current
    <3>1. CASE y = a
      BY <1>1, <1>2, <1>3, <2>1, <3>1 DEF b
    <3>2. CASE y # a
      <4>1. ~Idle(y) /\ holder[Current(y).batch] = y /\ y # Nobody
        BY <1>3, <2>1, <3>2, ActorTypes DEF Locked
      <4>2. Current(y).batch # b /\ Current(y).batch \in Batches
        BY <1>1, <4>1, CallAt DEF b
      <4> QED BY <1>3, <2>1, <4>1, <4>2
    <3> QED BY <3>1, <3>2
  <2>5. holder' \in [Batches -> Actors \cup {Nobody}] /\ todo' \in [Actors -> SUBSET Tools]
    BY <1>2, <1>3, <2>1
  <2> QED BY <1>1, <1>3, <2>1, <2>2, <2>3, <2>4, <2>5, MutateStep
<1> QED BY <1>5, <1>6

LEMMA PointerStep == ASSUME IInv, NEW a \in Actors, Pointer(a) PROVE IInv'
<1> DEFINE b == Current(a).batch
           x == Current(a).session
           t == Min(todo[a])
           after == PointerAfter(Current(a), pointer[t])
<1>1. /\ index \in [Batches -> SUBSET Sessions] /\ pointer \in [Tools -> SUBSET Tools]
      /\ holder \in [Batches -> Actors \cup {Nobody}] /\ todo \in [Actors -> SUBSET Tools]
      /\ IndexOK /\ Locked
  BY DEF IInv, FilesType
<1>2. /\ todo[a] # {} /\ ~Idle(a) /\ holder[b] = a /\ t \in Tools
      /\ UNCHANGED <<sessionVars, lookup, rebuild>>
  BY <1>1, MinIn DEF Pointer, Locked
<1>3. /\ Current(a) \in Task /\ b \in Batches /\ b \in SUBSET Tools /\ x \in Sessions
      /\ TaskOK(Current(a)) /\ Nobody # a
  BY <1>2, CallAt, ActorTypes
<1>4. pointer' \in [Tools -> SUBSET Tools]
  <2>1. after \in SUBSET Tools
    BY <1>1, <1>2, <1>3 DEF PointerAfter
  <2>2. pointer' = [pointer EXCEPT ![t] = after] \/ pointer' = pointer
    BY DEF Pointer
  <2> HIDE DEF after, t
  <2> QED BY <1>1, <2>1, <2>2
<1>5. todo' = [todo EXCEPT ![a] = todo[a] \ {t}] /\ todo' \in [Actors -> SUBSET Tools]
  BY <1>1 DEF Pointer
<1>6. CASE todo[a] = {t}
  <2>1. /\ index' = IF Current(a).add THEN [index EXCEPT ![b] = index[b] \cup {x}] ELSE index
        /\ holder' = [holder EXCEPT ![b] = Nobody]
        /\ Return(a)
    BY <1>6 DEF Pointer
  <2> HIDE DEF b, x, t
  <2>2. index' \in [Batches -> SUBSET Sessions] /\ holder' \in [Batches -> Actors \cup {Nobody}]
    BY <1>1, <1>3, <2>1
  <2>3. IndexOK'
    <3>1. b \subseteq called[x]
      BY <1>3 DEF TaskOK, b, x
    <3> QED BY <1>1, <1>2, <1>3, <2>1, <3>1 DEF IndexOK, sessionVars
  <2>4. /\ \A s \in Sessions : state[s].batch \in Batches /\ s \in index[state[s].batch]
                               => s \in index'[state[s].batch]
        /\ Current(a).add => x \in index'[b]
    BY <1>1, <1>3, <2>1
  <2>5. Locked'
    <3> SUFFICES ASSUME NEW y \in Actors, todo'[y] # {}
                 PROVE  ~Idle(y)' /\ holder'[Current(y)'.batch] = y
      BY DEF Locked
    <3>1. y # a
      BY <1>1, <1>5, <1>6
    <3>2. tasks'[y] = tasks[y] /\ ~Idle(y) /\ holder[Current(y).batch] = y
      BY <1>1, <1>2, <1>5, <2>1, <3>1, ReturnLeaves DEF Locked
    <3>3. Current(y).batch # b /\ Current(y).batch \in Batches
      BY <1>2, <3>1, <3>2, CallAt
    <3> QED BY <1>1, <2>1, <3>2, <3>3 DEF Idle, Current
  <2> QED BY <1>2, <1>4, <1>5, <2>1, <2>2, <2>3, <2>4, <2>5, MutateStep DEF b, x
<1>7. CASE todo[a] # {t}
  <2>1. UNCHANGED <<index, holder, tasks, lost>>
    BY <1>7 DEF Pointer
  <2> HIDE DEF b, x, t
  <2>2. IndexOK'
    BY <1>1, <1>2, <2>1 DEF IndexOK, sessionVars
  <2>3. Locked'
    BY <1>1, <1>2, <1>5, <2>1 DEF Locked, Idle, Current
  <2> QED BY <1>1, <1>2, <1>4, <1>5, <2>1, <2>2, <2>3, MutateStep
<1> QED BY <1>6, <1>7

LEMMA StopStep == ASSUME IInv, NEW a \in Actors, Stop(a) PROVE IInv'
<1> USE DEF sessionVars
<1>1. /\ ~Idle(a) /\ tasks' = [tasks EXCEPT ![a] = <<>>] /\ todo' = [todo EXCEPT ![a] = {}]
      /\ holder' = [b \in Batches |-> IF holder[b] = a THEN Nobody ELSE holder[b]]
      /\ lost' = IF a \in Sessions THEN lost \cup {a} ELSE lost
      /\ lookup' = IF a \in Resolvers THEN [lookup EXCEPT ![a] = NoLookup] ELSE lookup
      /\ rebuild' = IF a = Restart THEN {} ELSE rebuild
      /\ UNCHANGED <<state, called, index, pointer>>
  BY DEF Stop
<1>2. FilesType
  BY DEF IInv
<1>3. /\ tasks'[a] = <<>> /\ Len(tasks'[a]) = 0 /\ Idle(a)'
      /\ \A x \in Actors : x # a => tasks'[x] = tasks[x]
  BY <1>1, <1>2 DEF FilesType, Idle
<1>4. FilesType'
  <2>1. NoLookup \in LookupType
    BY DEF NoLookup, LookupType
  <2>2. <<>> \in Seq(Task)
    OBVIOUS
  <2>3. tasks' \in [Actors -> Seq(Task)] /\ lookup' \in [Resolvers -> LookupType]
    BY <1>1, <1>2, <2>1, <2>2 DEF FilesType
  <2>4. holder' \in [Batches -> Actors \cup {Nobody}] /\ todo' \in [Actors -> SUBSET Tools]
    BY <1>1, <1>2 DEF FilesType
  <2>5. lost' \subseteq Sessions /\ rebuild' \subseteq Sessions
    BY <1>1, <1>2 DEF FilesType
  <2> QED BY <1>1, <1>2, <2>3, <2>4, <2>5 DEF FilesType
<1>5. (\A s \in Sessions : SessionOK(s)') /\ IndexOK'
  BY <1>1 DEF IInv, SessionOK, IndexOK
<1>6. Locked'
  <2> SUFFICES ASSUME NEW x \in Actors, todo'[x] # {}
               PROVE  ~Idle(x)' /\ holder'[Current(x)'.batch] = x
    BY DEF Locked
  <2>1. x # a
    BY <1>1, <1>2 DEF FilesType
  <2>2. ~Idle(x) /\ holder[Current(x).batch] = x
    BY <1>1, <1>2, <2>1 DEF FilesType, IInv, Locked
  <2>3. Current(x).batch \in Batches
    BY <2>2, CallAt
  <2> QED BY <1>1, <1>3, <2>1, <2>2, <2>3 DEF Idle, Current
<1>7. Bounded' /\ TasksOK' /\ ResolversRemove'
  <2>1. Bounded'
    BY <1>3, ActorTypes DEF IInv, Bounded
  <2>2. TasksOK'
    BY <1>1, <1>3 DEF IInv, TasksOK, TaskOK, Dead
  <2>3. ResolversRemove'
    BY <1>3, ActorTypes DEF IInv, ResolversRemove
  <2> QED BY <2>1, <2>2, <2>3
<1>8. ASSUME NEW s \in Sessions PROVE OwnOK(s)'
  BY <1>1, <1>3, ActorTypes DEF IInv, OwnOK, Parked, Idle
<1>9. Findable'
  BY <1>1, <1>3, ActorTypes DEF IInv, Findable, Settled, Parked, Idle
<1>10. ASSUME NEW r \in Resolvers PROVE LookupOK(r)'
  <2>1. CASE r = a
    <3>1. lookup'[r].pc = "idle"
      BY <1>1, <1>2, <2>1 DEF FilesType, NoLookup
    <3> QED BY <1>3, <2>1, <3>1 DEF LookupOK
  <2>2. CASE r # a
    <3>1. lookup'[r] = lookup[r] /\ LookupOK(r) /\ tasks'[r] = tasks[r]
      BY <1>1, <1>2, <1>3, <2>2, ActorTypes DEF IInv, FilesType
    <3> QED BY <1>1, <3>1 DEF LookupOK, OnTrack, Dead, Idle
  <2> QED BY <2>1, <2>2
<1> QED BY <1>4, <1>5, <1>6, <1>7, <1>8, <1>9, <1>10 DEF IInv

\* The starting process reads a state file, or begins to read them all.
LEMMA RebuildMoves ==
    ASSUME IInv, Idle(Restart), UNCHANGED <<sessionVars, indexVars, todo, lookup>>,
           rebuild' \in SUBSET Sessions, lost' \in SUBSET Sessions,
           NEW s \in Sessions, lost' = lost \/ (~Parked(s) /\ lost' = lost \ {s}),
           \/ tasks' = [tasks EXCEPT ![Restart] = <<>>]
           \/ /\ Parked(s)
              /\ tasks' = [tasks EXCEPT ![Restart] =
                             << [add |-> TRUE, batch |-> state[s].batch, session |-> s] >>]
    PROVE  IInv'
<1> USE DEF sessionVars, indexVars
<1> DEFINE k == [add |-> TRUE, batch |-> state[s].batch, session |-> s]
<1>1. Restart \in Actors /\ Restart \notin Sessions /\ Restart \notin Resolvers /\ FilesType
  BY ActorTypes, ActorsAssumption DEF IInv
<1> DEFINE q == tasks'[Restart]
<1>2. tasks' = [tasks EXCEPT ![Restart] = q] /\ (q = <<>> \/ (Parked(s) /\ q = <<k>>))
  BY <1>1 DEF FilesType
<1>3. Parked(s) => k \in Task /\ TaskOK(k)
  <2> SUFFICES ASSUME Parked(s) PROVE k \in Task /\ TaskOK(k)
    OBVIOUS
  <2>1. state[s].batch \in Batches /\ state[s].batch \subseteq called[s]
    BY StateType DEF Parked, SessionOK, Batches
  <2>2. k.add = TRUE /\ k.batch = state[s].batch /\ k.session = s /\ k \in Task
    BY <2>1 DEF Task
  <2> HIDE DEF k
  <2> QED BY <2>1, <2>2 DEF TaskOK
<1> HIDE DEF k, q
<1>4. q \in Seq(Task) /\ Len(q) \in Nat /\ Len(q) <= 1 /\ \A i \in 1..Len(q) : TaskOK(q[i])
  <2>1. CASE q = <<>>
    BY <2>1
  <2>2. CASE Parked(s) /\ q = <<k>>
    <3>1. q \in Seq(Task) /\ Len(q) = 1 /\ q[1] = k
      BY <1>3, <2>2
    <3> QED BY <1>3, <2>2, <3>1
  <2> QED BY <1>2, <2>1, <2>2
<1>5. tasks'[Restart] = q /\ \A x \in Actors : x # Restart => tasks'[x] = tasks[x]
  BY <1>1, <1>2 DEF FilesType, q
<1>6. FilesType'
  BY <1>1, <1>2, <1>4 DEF FilesType
<1>7. (\A x \in Sessions : SessionOK(x)') /\ IndexOK'
  BY DEF IInv, SessionOK, IndexOK
<1>8. Locked'
  <2> SUFFICES ASSUME NEW x \in Actors, todo[x] # {}
               PROVE  ~Idle(x)' /\ holder[Current(x)'.batch] = x
    BY DEF Locked
  <2>1. ~Idle(x) /\ holder[Current(x).batch] = x /\ x # Restart
    BY DEF IInv, Locked
  <2> QED BY <1>5, <2>1 DEF Idle, Current
<1>9. Bounded'
  BY <1>4, <1>5, ActorTypes DEF IInv, Bounded
<1>10. TasksOK'
  BY <1>4, <1>5 DEF IInv, TasksOK, TaskOK, Dead
<1>11. ResolversRemove'
  BY <1>1, <1>5, ActorTypes DEF IInv, ResolversRemove
<1>12. \A x \in Sessions : OwnOK(x)'
  BY <1>1, <1>5, ActorTypes DEF IInv, OwnOK, Parked, Idle
<1>13. Findable'
  BY <1>1, <1>5, ActorTypes DEF IInv, Findable, Settled, Parked, Idle
<1>14. ASSUME NEW r \in Resolvers PROVE LookupOK(r)'
  <2>1. LookupOK(r) /\ tasks'[r] = tasks[r]
    BY <1>1, <1>5, ActorTypes DEF IInv
  <2> QED BY <2>1 DEF LookupOK, OnTrack, Dead, Idle
<1> QED BY <1>6, <1>7, <1>8, <1>9, <1>10, <1>11, <1>12, <1>13, <1>14 DEF IInv

LEMMA RebuildOneStep == ASSUME IInv, RebuildOne PROVE IInv'
<1> DEFINE s == First(rebuild)
<1>1. s \in rebuild /\ rebuild \subseteq Sessions /\ lost \subseteq Sessions
  BY FirstIn DEF RebuildOne, IInv, FilesType
<1>2. /\ Idle(Restart) /\ UNCHANGED <<sessionVars, indexVars, todo, lookup>>
      /\ rebuild' = rebuild \ {s}
      /\ lost' = IF Parked(s) \/ ~Idle(s) THEN lost ELSE lost \ {s}
      /\ tasks' = [tasks EXCEPT ![Restart] =
                     IF Parked(s)
                     THEN << [add |-> TRUE, batch |-> state[s].batch, session |-> s] >>
                     ELSE <<>>]
  BY DEF RebuildOne
<1> HIDE DEF s
<1>3. /\ s \in Sessions /\ rebuild' \in SUBSET Sessions /\ lost' \in SUBSET Sessions
      /\ lost' = lost \/ (~Parked(s) /\ lost' = lost \ {s})
  BY <1>1, <1>2
<1>4. \/ tasks' = [tasks EXCEPT ![Restart] = <<>>]
      \/ /\ Parked(s)
         /\ tasks' = [tasks EXCEPT ![Restart] =
                        << [add |-> TRUE, batch |-> state[s].batch, session |-> s] >>]
  BY <1>2
<1> QED BY <1>2, <1>3, <1>4, RebuildMoves

LEMMA Stutters ==
    ASSUME IInv, UNCHANGED <<sessionVars, indexVars, tasks, todo, lost, lookup>>,
           rebuild' \in SUBSET Sessions
    PROVE  IInv'
<1> USE DEF sessionVars, indexVars
<1>1. FilesType'
  BY DEF IInv, FilesType
<1>2. /\ \A s \in Sessions : SessionOK(s)' /\ OwnOK(s)'
      /\ IndexOK' /\ Locked' /\ Bounded' /\ ResolversRemove'
  BY DEF IInv, SessionOK, OwnOK, IndexOK, Locked, Bounded, ResolversRemove, Parked, Idle, Current
<1>3. TasksOK' /\ Findable'
  BY DEF IInv, TasksOK, TaskOK, Dead, Findable, Settled, Parked, Idle
<1>4. \A r \in Resolvers : LookupOK(r)'
  BY DEF IInv, LookupOK, OnTrack, Dead, Idle
<1> QED BY <1>1, <1>2, <1>3, <1>4 DEF IInv

LEMMA StepKeepsInvariant == IInv /\ [Next]_vars => IInv'
<1> SUFFICES ASSUME IInv, [Next]_vars PROVE IInv'
  OBVIOUS
<1>1. ASSUME NEW s \in Sessions, SessionStep(s) PROVE IInv'
  <2>1. ASSUME NEW P \in SUBSET Tools, SavePending(s, P) PROVE IInv'
    BY <2>1, SavePendingStep
  <2> QED BY <1>1, <2>1, ClaimStep, UnparkStep DEF SessionStep
<1>2. ASSUME NEW r \in Resolvers, ResolverStep(r) PROVE IInv'
  <2>1. ASSUME NEW ids \in Batches, Resolve(r, ids) PROVE IInv'
    BY <2>1, ResolveStep
  <2> QED BY <1>2, <2>1, ReadIndexStep, ReadStateStep, ReadPointerStep, CoveringStep,
             AnswerStep, RefusedStep DEF ResolverStep
<1>3. ASSUME NEW a \in Actors, Begin(a) \/ Pointer(a) \/ Stop(a) PROVE IInv'
  BY <1>3, BeginStep, PointerStep, StopStep
<1>4. CASE RebuildPendingIndex
  BY <1>4, Stutters DEF RebuildPendingIndex
<1>5. CASE RebuildOne
  BY <1>5, RebuildOneStep
<1>6. CASE UNCHANGED vars
  BY <1>6, Stutters DEF vars, IInv, FilesType
<1> QED BY <1>1, <1>2, <1>3, <1>4, <1>5, <1>6 DEF Next

-----------------------------------------------------------------------------
(***************************************************************************)
(* The pointers of a parked batch, while no call has stopped half-way.     *)
(***************************************************************************)
\* The pointers still to be handled are of the batch of the current call.
TodoIn == \A a \in Actors : todo[a] # {} => todo[a] \subseteq Current(a).batch

\* A process starts only when a call has stopped.
Quiet == stops \in Nat /\ (stops = 0 => lost = {} /\ rebuild = {} /\ Idle(Restart))

\* The pointer of t leads to the batch of s, or the call that writes it is
\* under way.
Led(s, t) ==
  \/ pointer[t] = state[s].batch
  \/ ~Idle(s) /\ (todo[s] = {} \/ t \in todo[s] \/ Len(tasks[s]) > 1)

Alone(s, t) == \A o \in Sessions \ {s} : t \notin called[o]

Leads == stops = 0 => \A s \in Sessions : \A t \in state[s].batch : Alone(s, t) => Led(s, t)

LeadInv == TodoIn /\ Quiet /\ Leads

LEMMA InitialLeads == Init => LeadInv
BY ActorTypes DEF Init, LeadInv, TodoIn, Quiet, Leads, Idle, Unparked

\* The calls of the actors other than a are as they were.
LEMMA CallsElsewhere ==
    ASSUME IInv, NEW a \in Actors, NEW q, tasks' = [tasks EXCEPT ![a] = q]
    PROVE  /\ tasks'[a] = q
           /\ \A x \in Actors : x # a => /\ tasks'[x] = tasks[x] /\ Idle(x)' = Idle(x)
                                         /\ Current(x)' = Current(x)
BY DEF IInv, FilesType, Idle, Current

LEMMA LengthOne == \A n \in Nat \ {0} : n = 1 \/ n > 1
OBVIOUS

LEMMA IdleTodo == ASSUME IInv, NEW a \in Actors, Idle(a) PROVE todo[a] = {}
BY DEF IInv, Locked

\* What the operations on a session have in common.
LEMMA SessionMoves ==
    ASSUME IInv, NEW s \in Sessions, SessionStep(s)
    PROVE  /\ Idle(s) /\ UNCHANGED <<pointer, todo, lost, rebuild, stops>>
           /\ \A o \in Sessions : called[o] \subseteq called'[o]
           /\ \A o \in Sessions : o # s => state'[o] = state[o]
           /\ \E q : tasks' = [tasks EXCEPT ![s] = q] /\ (state'[s].batch # {} => q # <<>>)
<1> USE DEF sessionVars, indexVars
<1>1. state \in [Sessions -> [pending: SUBSET Tools, batch: SUBSET Tools]]
      /\ called \in [Sessions -> SUBSET Tools] /\ tasks \in [Actors -> Seq(Task)] /\ s \in Actors
  BY ActorTypes DEF IInv, FilesType
<1>2. CASE Claim(s)
  <2>1. PICK q : SyncCalls(q, s, {}, state[s].batch) /\ tasks' = [tasks EXCEPT ![s] = q]
    BY <1>2, StateType, SyncIsCalls DEF Claim
  <2> QED BY <1>1, <1>2, <2>1 DEF Claim, SyncCalls
<1>3. ASSUME NEW pending \in SUBSET Tools, SavePending(s, pending)
      PROVE  /\ Idle(s) /\ UNCHANGED <<pointer, todo, lost, rebuild, stops>>
             /\ \A o \in Sessions : called[o] \subseteq called'[o]
             /\ \A o \in Sessions : o # s => state'[o] = state[o]
             /\ \E q : tasks' = [tasks EXCEPT ![s] = q] /\ (state'[s].batch # {} => q # <<>>)
  <2> DEFINE next == NextBatch(s, pending)
  <2>1. /\ Idle(s) /\ pending \in StillPending(s) /\ Sync(s, state[s].batch, next)
        /\ state' = [state EXCEPT ![s] = [pending |-> pending, batch |-> next]]
        /\ called' = [called EXCEPT ![s] = called[s] \cup pending]
        /\ UNCHANGED <<pointer, todo, lost, rebuild, stops>>
    BY <1>3 DEF SavePending
  <2>2. next \in SUBSET Tools
    BY <2>1, NextBatchIs
  <2> HIDE DEF next
  <2>3. PICK q : SyncCalls(q, s, state[s].batch, next) /\ tasks' = [tasks EXCEPT ![s] = q]
    BY <1>1, <2>1, <2>2, SyncIsCalls
  <2>4. state'[s].batch = next
    BY <1>1, <2>1
  <2>5. state'[s].batch # {} => q # <<>>
    BY <2>3, <2>4 DEF SyncCalls
  <2> QED BY <1>1, <2>1, <2>3, <2>5
<1>4. CASE Delete(s)
  <2>1. PICK q : tasks' = [tasks EXCEPT ![s] = q]
    BY <1>4 DEF Delete, Sync
  <2> QED BY <1>1, <1>4, <2>1 DEF Delete, Unparked
<1>5. CASE SaveHistory(s)
  <2>1. tasks' = [tasks EXCEPT ![s] = tasks[s]]
    BY <1>1, <1>5 DEF SaveHistory
  <2> QED BY <1>1, <1>5, <2>1 DEF SaveHistory, Unparked
<1> QED BY <1>2, <1>3, <1>4, <1>5 DEF SessionStep

LEMMA SessionLeads == ASSUME IInv, LeadInv, NEW s \in Sessions, SessionStep(s) PROVE LeadInv'
<1>1. PICK q : tasks' = [tasks EXCEPT ![s] = q] /\ (state'[s].batch # {} => q # <<>>)
  BY SessionMoves
<1>2. s \in Actors /\ Restart \in Actors /\ Restart # s /\ Sessions \subseteq Actors
  BY ActorTypes, ActorsAssumption
<1>3. /\ tasks'[s] = q
      /\ \A x \in Actors : x # s => /\ tasks'[x] = tasks[x] /\ Idle(x)' = Idle(x)
                                    /\ Current(x)' = Current(x)
  BY <1>1, <1>2, CallsElsewhere
<1>4. todo' = todo /\ todo[s] = {} /\ pointer' = pointer
      /\ UNCHANGED <<lost, rebuild, stops>>
  BY <1>2, SessionMoves, IdleTodo
<1>5. TodoIn' /\ Quiet'
  BY <1>2, <1>3, <1>4 DEF LeadInv, TodoIn, Quiet
<1>6. Leads'
  <2> SUFFICES ASSUME stops = 0, NEW x \in Sessions, NEW t \in state'[x].batch, Alone(x, t)'
               PROVE  Led(x, t)'
    BY <1>4 DEF Leads
  <2>1. CASE x = s
    BY <1>1, <1>3, <1>4, <2>1 DEF Led, Idle
  <2>2. CASE x # s
    <3>1. state'[x] = state[x] /\ Alone(x, t)
      BY <2>2, SessionMoves DEF Alone
    <3>2. Led(x, t)
      BY <3>1 DEF LeadInv, Leads
    <3> QED BY <1>2, <1>3, <1>4, <2>2, <3>1, <3>2 DEF Led
  <2> QED BY <2>1, <2>2
<1> QED BY <1>5, <1>6 DEF LeadInv

\* A lookup writes nothing; the removals it decides on begin when it is idle.
LEMMA ResolverLeads == ASSUME IInv, LeadInv, NEW r \in Resolvers, ResolverStep(r) PROVE LeadInv'
<1>1. /\ UNCHANGED <<sessionVars, indexVars, todo, lost, rebuild, stops>>
      /\ \/ tasks' = tasks
         \/ Idle(r) /\ \E q : tasks' = [tasks EXCEPT ![r] = q]
  BY DEF ResolverStep, Resolve, ReadIndex, ReadState, ReadPointer, Covering, Answer, Refused,
         IInv, LookupOK
<1>2. r \in Actors /\ Restart \in Actors /\ r # Restart /\ r \notin Sessions /\ Sessions \subseteq Actors
  BY ActorTypes, ActorsAssumption
<1>3. \A x \in Actors : \/ /\ tasks'[x] = tasks[x] /\ Idle(x)' = Idle(x)
                           /\ Current(x)' = Current(x)
                        \/ x = r /\ todo[x] = {}
  BY <1>1, <1>2, CallsElsewhere, IdleTodo DEF Idle, Current
<1>4. TodoIn' /\ Quiet'
  BY <1>1, <1>2, <1>3 DEF LeadInv, TodoIn, Quiet
<1>5. Leads'
  BY <1>1, <1>2, <1>3 DEF LeadInv, Leads, Led, Alone, sessionVars, indexVars
<1> QED BY <1>4, <1>5 DEF LeadInv

\* The last call of a parked session enters its batch, so that a removal is
\* followed by another call.
LEMMA LastCall ==
    ASSUME IInv, NEW s \in Sessions, ~Idle(s), state[s].batch # {}
    PROVE  /\ Len(tasks[s]) \in Nat \ {0}
           /\ Len(tasks[s]) = 1 => Current(s).add /\ Current(s).batch = state[s].batch
<1>1. tasks[s] \in Seq(Task) /\ tasks[s] # <<>> /\ Parked(s) /\ OwnOK(s)
  BY ActorTypes DEF IInv, FilesType, Idle, Parked, SessionOK
<1>2. Len(tasks[s]) \in Nat \ {0} /\ Current(s) = tasks[s][1]
  BY <1>1, EmptySeq, LenProperties DEF Current
<1> QED BY <1>1, <1>2 DEF OwnOK

LEMMA BeginLeads == ASSUME IInv, LeadInv, NEW a \in Actors, Begin(a) PROVE LeadInv'
<1>1. /\ ~Idle(a) /\ todo[a] = {}
      /\ UNCHANGED <<sessionVars, pointer, rebuild, stops>>
  BY DEF Begin
<1>2. Restart \in Actors /\ Sessions \subseteq Actors /\ todo \in [Actors -> SUBSET Tools]
  BY ActorTypes DEF IInv, FilesType
<1>3. CASE /\ ~Current(a).add /\ Return(a) /\ UNCHANGED todo
  <2>1. /\ Len(tasks'[a]) = Len(tasks[a]) - 1 /\ Len(tasks[a]) \in Nat \ {0}
        /\ \A x \in Actors : x # a => tasks'[x] = tasks[x]
        /\ lost' \subseteq lost
    BY <1>1, <1>3, ReturnLeaves
  <2>2. TodoIn' /\ Quiet'
    BY <1>1, <1>2, <1>3, <2>1 DEF LeadInv, TodoIn, Quiet, Idle, Current
  <2>3. ASSUME a \in Sessions, state[a].batch # {} PROVE ~Idle(a)'
    <3>1. Len(tasks[a]) # 1
      BY <1>1, <1>3, <2>3, LastCall
    <3>2. Len(tasks[a]) > 1
      BY <2>1, <3>1, LengthOne
    <3>3. Len(tasks'[a]) # 0
      <4> DEFINE k == Len(tasks[a])
                 m == Len(tasks'[a])
      <4>1. k \in Nat /\ k > 1 /\ m = k - 1
        BY <2>1, <3>2
      <4> HIDE DEF k, m
      <4>2. m # 0
        BY <4>1
      <4> QED BY <4>2 DEF m
    <3> QED BY <3>3 DEF Idle
  <2>4. Leads'
    BY <1>1, <1>2, <1>3, <2>1, <2>3 DEF LeadInv, Leads, Led, Alone, Idle, sessionVars
  <2> QED BY <2>2, <2>4 DEF LeadInv
<1>4. CASE todo' = [todo EXCEPT ![a] = Current(a).batch] /\ UNCHANGED <<tasks, lost>>
  <2>1. TodoIn' /\ Quiet'
    BY <1>1, <1>2, <1>4 DEF LeadInv, TodoIn, Quiet, Idle, Current
  <2>2. ASSUME a \in Sessions, NEW t \in state[a].batch
        PROVE  Len(tasks[a]) > 1 \/ t \in todo'[a]
    <3>1. Len(tasks[a]) \in Nat \ {0}
          /\ (Len(tasks[a]) = 1 => Current(a).batch = state[a].batch)
      BY <1>1, <2>2, LastCall
    <3>2. Len(tasks[a]) = 1 => t \in todo'[a]
      BY <1>2, <1>4, <2>2, <3>1
    <3> QED BY <3>1, <3>2, LengthOne
  <2>3. Leads'
    BY <1>1, <1>2, <1>4, <2>2 DEF LeadInv, Leads, Led, Alone, Idle, sessionVars
  <2> QED BY <2>1, <2>3 DEF LeadInv
<1> QED BY <1>3, <1>4 DEF Begin

\* The pointer of a tool of a session's own batch is written by that session
\* only, and spared by a removal, which is of another batch.
LEMMA PointerSpared ==
    ASSUME IInv, LeadInv, stops = 0, NEW a \in Actors, todo[a] # {},
           NEW s \in Sessions, a # s, NEW t \in state[s].batch, t \in todo[a], Alone(s, t),
           pointer[t] = state[s].batch
    PROVE  PointerAfter(Current(a), pointer[t]) = state[s].batch
<1> DEFINE b == Current(a).batch
           x == Current(a).session
<1>1. ~Idle(a) /\ t \in b
  BY DEF IInv, Locked, LeadInv, TodoIn
<1>2. x \in Sessions /\ TaskOK(Current(a))
  BY <1>1, CallAt
<1>3. x = s
  BY <1>1, <1>2 DEF TaskOK, Alone
<1>4. Len(tasks[a]) \in Nat \ {0} /\ Current(a) = tasks[a][1]
  <2>1. tasks[a] \in Seq(Task) /\ tasks[a] # <<>>
    BY <1>1 DEF IInv, FilesType, Idle
  <2> QED BY <2>1, EmptySeq, LenProperties DEF Current
<1>5. ~Current(a).add
  <2>1. CASE a \in Sessions
    <3>1. 1 \in 1..Len(tasks[a])
      BY <1>4
    <3>2. OwnOK(a)
      BY <2>1 DEF IInv
    <3>3. tasks[a][1].session = a
      BY <3>1, <3>2 DEF OwnOK
    <3> QED BY <1>3, <1>4, <3>3
  <2>2. CASE a \in Resolvers
    BY <1>4, <2>2 DEF IInv, ResolversRemove
  <2>3. CASE a = Restart
    BY <1>1, <2>3 DEF LeadInv, Quiet
  <2> QED BY <2>1, <2>2, <2>3 DEF Actors
<1>6. state[s].batch # b
  BY <1>2, <1>3, <1>5 DEF TaskOK, Dead
<1> QED BY <1>5, <1>6 DEF PointerAfter

LEMMA PointerLeads == ASSUME IInv, LeadInv, NEW a \in Actors, Pointer(a) PROVE LeadInv'
<1> DEFINE t0 == Min(todo[a])
           after == PointerAfter(Current(a), pointer[t0])
<1>1. /\ todo[a] # {} /\ ~Idle(a) /\ t0 \in todo[a] /\ t0 \in Tools
      /\ UNCHANGED <<sessionVars, rebuild>>
  BY MinIn DEF Pointer, IInv, Locked, FilesType
<1>2. /\ Restart \in Actors /\ Sessions \subseteq Actors /\ todo \in [Actors -> SUBSET Tools]
      /\ pointer \in [Tools -> SUBSET Tools] /\ tasks \in [Actors -> Seq(Task)]
      /\ state \in [Sessions -> [pending: SUBSET Tools, batch: SUBSET Tools]]
  BY ActorTypes DEF IInv, FilesType
<1>3. /\ todo' = [todo EXCEPT ![a] = todo[a] \ {t0}]
      /\ IF todo[a] = {t0} THEN Return(a) ELSE UNCHANGED <<tasks, lost>>
      /\ \/ pointer' = [pointer EXCEPT ![t0] = after] /\ UNCHANGED stops
         \/ stops' = stops + 1
  BY DEF Pointer
<1> HIDE DEF t0
<1>4. /\ \A x \in Actors : x # a => tasks'[x] = tasks[x]
      /\ lost' \subseteq lost
      /\ todo'[a] # {} => tasks' = tasks
      /\ Len(tasks[a]) \in Nat \ {0}
      /\ \/ Len(tasks'[a]) = Len(tasks[a])
         \/ todo'[a] = {} /\ Len(tasks'[a]) = Len(tasks[a]) - 1
  <2>1. Len(tasks[a]) \in Nat \ {0}
    BY <1>1, <1>2, EmptySeq, LenProperties DEF Idle
  <2>2. CASE todo[a] = {t0}
    BY <1>1, <1>2, <1>3, <2>2, ReturnLeaves
  <2>3. CASE todo[a] # {t0}
    <3>1. UNCHANGED <<tasks, lost>>
      BY <1>3, <2>3
    <3>2. Len(tasks'[a]) = Len(tasks[a])
      BY <3>1
    <3> QED BY <2>1, <3>1, <3>2
  <2> QED BY <2>2, <2>3
<1>5. TodoIn'
  <2> SUFFICES ASSUME NEW x \in Actors, todo'[x] # {} PROVE todo'[x] \subseteq Current(x)'.batch
    BY DEF TodoIn
  <2>1. todo[x] # {} /\ todo'[x] \subseteq todo[x] /\ tasks'[x] = tasks[x]
    BY <1>2, <1>3, <1>4
  <2> QED BY <2>1 DEF LeadInv, TodoIn, Current
<1>6. Quiet' /\ (stops' = 0 => stops = 0 /\ pointer' = [pointer EXCEPT ![t0] = after])
  BY <1>1, <1>2, <1>3, <1>4 DEF LeadInv, Quiet, Idle
<1>7. Leads'
  <2> SUFFICES ASSUME stops' = 0, NEW s \in Sessions, NEW t \in state[s].batch, Alone(s, t)
               PROVE  Led(s, t)'
    BY <1>1 DEF Leads, Alone, sessionVars
  <2>1. Led(s, t) /\ t \in Tools /\ s \in Actors /\ stops = 0
    BY <1>2, <1>6 DEF LeadInv, Leads
  <2>2. t # t0 => pointer'[t] = pointer[t]
    BY <1>2, <1>6, <2>1
  <2>3. pointer'[t0] = after
    BY <1>1, <1>2, <1>6
  <2> HIDE DEF after
  <2>4. CASE s # a
    <3>1. tasks'[s] = tasks[s] /\ todo'[s] = todo[s]
      BY <1>2, <1>3, <1>4, <2>1, <2>4
    <3>2. pointer[t] = state[s].batch => pointer'[t] = state[s].batch
      BY <1>1, <2>1, <2>2, <2>3, <2>4, PointerSpared DEF after
    <3> QED BY <1>1, <2>1, <3>1, <3>2 DEF Led, Idle, sessionVars
  <2>5. CASE s = a /\ Len(tasks[a]) > 1
    <3>1. ~Idle(a)'
      BY <1>4, <2>5 DEF Idle
    <3> QED BY <1>4, <2>5, <3>1 DEF Led
  <2>6. CASE s = a /\ ~(Len(tasks[a]) > 1)
    <3>1. Current(a).add /\ Current(a).batch = state[s].batch
      <4>1. Len(tasks[a]) = 1
        BY <1>4, <2>6, LengthOne
      <4> QED BY <1>1, <2>6, <4>1, LastCall
    <3>2. CASE t = t0
      BY <1>1, <2>3, <3>1, <3>2 DEF PointerAfter, Led, sessionVars, after
    <3>3. CASE t # t0 /\ pointer[t] = state[s].batch
      BY <1>1, <2>2, <3>3 DEF Led, sessionVars
    <3>4. CASE t # t0 /\ pointer[t] # state[s].batch
      <4>1. t \in todo[a]
        BY <1>1, <2>1, <2>6, <3>4 DEF Led
      <4>2. t \in todo'[a]
        BY <1>2, <1>3, <3>4, <4>1
      <4> QED BY <1>1, <1>4, <2>6, <4>2 DEF Led, Idle
    <3> QED BY <3>2, <3>3, <3>4
  <2> QED BY <2>4, <2>5, <2>6
<1> QED BY <1>5, <1>6, <1>7 DEF LeadInv

LEMMA StepKeepsLead == IInv /\ LeadInv /\ [Next]_vars => LeadInv'
<1> SUFFICES ASSUME IInv, LeadInv, [Next]_vars PROVE LeadInv'
  OBVIOUS
<1>1. ASSUME NEW s \in Sessions, SessionStep(s) PROVE LeadInv'
  BY <1>1, SessionLeads
<1>2. ASSUME NEW r \in Resolvers, ResolverStep(r) PROVE LeadInv'
  BY <1>2, ResolverLeads
<1>3. ASSUME NEW a \in Actors, Begin(a) \/ Pointer(a) PROVE LeadInv'
  BY <1>3, BeginLeads, PointerLeads
<1>4. ASSUME NEW a \in Actors, Stop(a) PROVE LeadInv'
  <2>1. stops' \in Nat /\ stops' # 0
    BY <1>4 DEF Stop, LeadInv, Quiet
  <2>2. \A x \in Actors : todo'[x] # {} => /\ todo'[x] = todo[x]
                                           /\ Current(x)' = Current(x)
    BY <1>4 DEF Stop, IInv, FilesType, Current
  <2>3. TodoIn'
    BY <2>2 DEF LeadInv, TodoIn
  <2> QED BY <2>1, <2>3 DEF LeadInv, Quiet, Leads
<1>5. CASE RebuildPendingIndex \/ RebuildOne
  <2>1. stops \in Nat /\ stops # 0 /\ stops' = stops /\ todo' = todo
    BY <1>5 DEF RebuildPendingIndex, RebuildOne, LeadInv, Quiet
  <2>2. \A x \in Actors : todo[x] # {} => Current(x)' = Current(x)
    <3>1. todo[Restart] = {}
      BY <1>5, ActorTypes, IdleTodo DEF RebuildPendingIndex, RebuildOne
    <3> QED BY <1>5, <3>1 DEF RebuildPendingIndex, RebuildOne, IInv, FilesType, Current
  <2>3. TodoIn'
    BY <2>1, <2>2 DEF LeadInv, TodoIn
  <2> QED BY <2>1, <2>3 DEF LeadInv, Quiet, Leads
<1>6. CASE UNCHANGED vars
  BY <1>6 DEF vars, sessionVars, indexVars, LeadInv, TodoIn, Quiet, Leads, Led, Alone, Idle, Current
<1> QED BY <1>1, <1>2, <1>3, <1>4, <1>5, <1>6 DEF Next

-----------------------------------------------------------------------------
(***************************************************************************)
(* The theorems.                                                           *)
(***************************************************************************)
\* Every behaviour of the pending index keeps the inductive invariant.
THEOREM Invariance == Spec => []IInv
<1> QED BY Initial, StepKeepsInvariant, PTL DEF Spec

\* The files and the calls under way keep their types, an actor has at most
\* one call per session and one more to make, and an actor inside
\* mutatePendingIndex holds the lock of its batch.
THEOREM TypeCorrect == Spec => []TypeOK
<1>1. IInv => TypeOK
  <2> SUFFICES ASSUME IInv, NEW a \in Actors PROVE Range(tasks[a]) \subseteq Task
    BY DEF IInv, FilesType, TypeOK, Bounded, Locked
  <2>1. tasks[a] \in Seq(Task)
    BY DEF IInv, FilesType
  <2> QED BY <2>1, RangeOfSeq
<1> QED BY <1>1, Invariance, PTL

\* A parked session whose last change returned is in the index file of its
\* batch, whatever resolvers and a starting process do without its flock.
THEOREM FindableHolds == Spec => []Findable
<1>1. IInv => Findable
  BY DEF IInv
<1> QED BY <1>1, Invariance, PTL

\* ResolvePending of the batch a session waits for never answers "not
\* pending", and "ambiguous" only when it matched two sessions.
THEOREM ResolveFindsHolds == Spec => []ResolveFinds
<1>1. IInv => ResolveFinds
  <2> SUFFICES ASSUME IInv, NEW r \in Resolvers, lookup[r].pc \in {"none", "ambiguous"},
                      NEW s \in lookup[r].parked \cap Waiting(lookup[r].ids)
               PROVE  Cardinality(lookup[r].matches) > 1
    BY DEF ResolveFinds
  <2>1. LookupOK(r) /\ state[s].batch = lookup[r].ids
    BY DEF IInv, Waiting
  <2>2. OnTrack(lookup[r], s)
    BY <2>1 DEF LookupOK
  <2> QED BY <2>2 DEF OnTrack
<1> QED BY <1>1, Invariance, PTL

\* Until a process starts, the pointers of a parked batch lead to that batch,
\* unless another session used the tool: no late removal takes them away, and
\* growth leaves none behind.
THEOREM BatchPointersLeadHolds == Spec => []BatchPointersLead
<1>1. IInv /\ LeadInv => BatchPointersLead
  BY DEF LeadInv, Leads, Led, Alone, BatchPointersLead, Settled
<1>2. Spec => [](IInv /\ LeadInv)
  BY Initial, InitialLeads, StepKeepsInvariant, StepKeepsLead, PTL DEF Spec
<1> QED BY <1>1, <1>2, PTL
=============================================================================
