---------------------------- MODULE PendingIndex ----------------------------
(***************************************************************************)
(* The pending index of FileStateStore (cursoragentv1/state.go): how a     *)
(* submission of tool results, which names no session, finds the parked    *)
(* session that called the tools.  Beside the state file of each session   *)
(* there is one index file per batch of tool ids, with the sessions parked *)
(* on that batch, and one pointer file per tool id, naming its batch.  All *)
(* are separate files, each written atomically, one after the other.       *)
(*                                                                         *)
(* What changes a session holds its flock (see StateStore) until the index *)
(* is in step, so a session is one actor; a resolver (ResolvePending) and  *)
(* the restart of a process (rebuildPendingIndex) are actors that hold no  *)
(* session's flock.                                                        *)
(* Every actor changes the index through mutatePendingIndex, under a lock  *)
(* per batch, and may stop half-way: the call fails or its process dies.   *)
(*                                                                         *)
(* All sessions share one credential: the fingerprint is part of every key.*)
(***************************************************************************)
EXTENDS Naturals, FiniteSets, Sequences, SequencesExt, FiniteSetsExt

CONSTANTS Sessions, Resolvers,
          Restart,     \* the process that starts while the others run
          Tools,       \* tool call ids; their order is that of the sorted ids
          MayCall,     \* the ids each session is given
          MaxStops,    \* bound: operations that stop half-way
          Nobody

ASSUME ToolsAssumption ==
    /\ Tools \subseteq Nat /\ IsFiniteSet(Tools)
    /\ MayCall \in [Sessions -> SUBSET Tools]

\* Sessions are files of one directory; every actor is a call of its own.
ASSUME ActorsAssumption ==
    /\ IsFiniteSet(Sessions)
    /\ Sessions \cap Resolvers = {} /\ Restart \notin Sessions \cup Resolvers
    /\ Nobody \notin Sessions \cup Resolvers \cup {Restart}

Actors == Sessions \cup Resolvers \cup {Restart}
Batches == (SUBSET Tools) \ {{}}
Task == [add: BOOLEAN, batch: Batches, session: Sessions]

NoLookup == [pc |-> "idle", ids |-> {}, batch |-> {}, todo |-> {}, invalid |-> {},
             matches |-> {}, candidate |-> {}, covered |-> FALSE,
             parked |-> {}]

VARIABLES
    state,    \* the pending tools and the original batch in each state file
    called,   \* the tools each session has called so far
    index,    \* the sessions in the index file of each batch
    pointer,  \* the batch in the pointer file of each tool, {} without a file
    holder,   \* the actor that holds the lock of each batch
    tasks,    \* the mutatePendingIndex calls each actor still has to make
    todo,     \* the pointer files its current call still has to handle
    lost,     \* the sessions whose last change stopped before its index did
    lookup,   \* the locals of each resolver's ResolvePending
    rebuild,  \* the state files the starting process has still to read
    stops

sessionVars == <<state, called>>
indexVars == <<index, pointer, holder>>
vars == <<sessionVars, indexVars, tasks, todo, lost, lookup, rebuild, stops>>

\* Index files list their sessions, and directories their files, sorted.
First(S) == CHOOSE s \in S : TRUE

Idle(a) == tasks[a] = <<>>
Parked(s) == state[s].pending # {}
Unparked == [pending |-> {}, batch |-> {}]

Init ==
    /\ state = [s \in Sessions |-> Unparked]
    /\ called = [s \in Sessions |-> {}]
    /\ index = [b \in Batches |-> {}]
    /\ pointer = [t \in Tools |-> {}]
    /\ holder = [b \in Batches |-> Nobody]
    /\ tasks = [a \in Actors |-> <<>>]
    /\ todo = [a \in Actors |-> {}]
    /\ lost = {}
    /\ lookup = [r \in Resolvers |-> NoLookup]
    /\ rebuild = {}
    /\ stops = 0

-----------------------------------------------------------------------------
(***************************************************************************)
(* The operations on a session.  Each writes the state file and leaves the *)
(* calls of syncPendingIndex that follow as tasks.                         *)
(***************************************************************************)

\* Mutant of Sync: the new batch is indexed under the previous one's name.
SyncKeepsBatch(s, old, new) ==
    LET at == IF old # {} THEN old ELSE new
    IN  tasks' = [tasks EXCEPT ![s] =
            IF new # {} THEN << [add |-> TRUE, batch |-> at, session |-> s] >>
            ELSE IF old # {} THEN << [add |-> FALSE, batch |-> old, session |-> s] >>
            ELSE <<>>]

\* syncPendingIndex: leave the previous batch if it differs, enter the next.
Sync(s, old, new) ==
    tasks' = [tasks EXCEPT ![s] =
        (IF old # {} /\ old # new
         THEN << [add |-> FALSE, batch |-> old, session |-> s] >> ELSE <<>>)
        \o (IF new # {}
            THEN << [add |-> TRUE, batch |-> new, session |-> s] >> ELSE <<>>)]

\* The original batch ids SavePending keeps: those of the last growth.
NextBatch(s, pending) ==
    IF pending = {} THEN {}
    ELSE IF state[s].batch = {} \/ Cardinality(pending) > Cardinality(state[s].pending)
         THEN pending ELSE state[s].batch

\* Claim of a parked session (AllowPending): its batch is indexed again.
Claim(s) ==
    /\ Idle(s) /\ Parked(s)
    /\ Sync(s, {}, state[s].batch)
    /\ UNCHANGED <<sessionVars, indexVars, todo, lost, lookup, rebuild, stops>>

\* The tools handleEvent and Park hand to SavePending.  A call is added in
\* memory only (an id the session never used before), an accepted result is
\* taken out and saved at once: since the last save at most one tool has
\* gone, and any number may have come.
StillPending(s) ==
    {pending \in SUBSET Tools :
        /\ Cardinality(state[s].pending \ pending) <= 1
        /\ pending \ state[s].pending \subseteq MayCall[s] \ called[s]}

SavePending(s, pending) ==
    LET next == NextBatch(s, pending)
    IN  /\ Idle(s) /\ pending \in StillPending(s)
        /\ state' = [state EXCEPT ![s] = [pending |-> pending, batch |-> next]]
        /\ called' = [called EXCEPT ![s] = @ \cup pending]
        /\ Sync(s, state[s].batch, next)
        /\ UNCHANGED <<indexVars, todo, lost, lookup, rebuild, stops>>

\* Delete by the owner; DeleteSession, the expiry check of Claim and
\* pruneExpired of a session nobody owns.  The state file goes first.
Delete(s) ==
    /\ Idle(s) /\ Parked(s)
    /\ state' = [state EXCEPT ![s] = Unparked]
    /\ Sync(s, state[s].batch, {})
    /\ UNCHANGED <<called, indexVars, todo, lost, lookup, rebuild, stops>>

\* SaveHistory at the end of a full-history run that was parked: the state
\* file drops the batch, the index is left as it is.
SaveHistory(s) ==
    /\ Idle(s) /\ Parked(s)
    /\ state' = [state EXCEPT ![s] = Unparked]
    /\ UNCHANGED <<called, indexVars, tasks, todo, lost, lookup, rebuild, stops>>

-----------------------------------------------------------------------------
(***************************************************************************)
(* mutatePendingIndex.                                                     *)
(***************************************************************************)

Current(a) == Head(tasks[a])

\* A call returned: a session's last one puts its index in step again.
Return(a) ==
    LET s == Current(a).session
    IN  /\ tasks' = [tasks EXCEPT ![a] = Tail(@)]
        /\ lost' = IF Len(tasks[a]) = 1 /\ (a = s \/ Current(a).batch = state[s].batch)
                      /\ (a = s \/ Current(a).add)
                   THEN lost \ {s} ELSE lost

\* Mutant of TakeLock: the index is changed without the batch lock.
TakeLockNot(a, b) == UNCHANGED holder

\* acquirePendingIndexLease on the lock file of a batch.
TakeLock(a, b) == holder' = [holder EXCEPT ![b] = a]

\* The batch lock is taken and the index file read.  A removal that leaves
\* sessions writes the file and returns; one that leaves none removes the
\* file and goes on with the pointers, as an addition does before the file.
Begin(a) ==
    LET b == Current(a).batch
        rest == index[b] \ {Current(a).session}
    IN  /\ ~Idle(a) /\ todo[a] = {} /\ holder[b] = Nobody
        /\ IF ~Current(a).add /\ rest # {}
           THEN /\ index' = [index EXCEPT ![b] = rest]
                /\ Return(a)
                /\ UNCHANGED <<holder, todo>>
           ELSE /\ index' = IF Current(a).add THEN index ELSE [index EXCEPT ![b] = {}]
                /\ TakeLock(a, b)
                /\ todo' = [todo EXCEPT ![a] = b]
                /\ UNCHANGED <<tasks, lost>>
        /\ UNCHANGED <<sessionVars, pointer, lookup, rebuild, stops>>

\* Mutant of PointerAfter: a removal does not look whose pointer it is.
PointerAfterAny(task, old) == IF task.add THEN task.batch ELSE {}

\* writeToolBatchPointerAt; removeToolBatchPointer spares another batch's.
PointerAfter(task, old) ==
    IF task.add THEN task.batch
    ELSE IF old = task.batch THEN {} ELSE old

\* The pointers are handled in the order of the ids.  A removal passes over
\* a pointer whose own lock stays taken; an addition fails on it (Stop).
Pointer(a) ==
    /\ todo[a] # {}
    /\ LET t == Min(todo[a])
           after == PointerAfter(Current(a), pointer[t])
           last == todo[a] = {t}
       IN  /\ \/ /\ pointer' = [pointer EXCEPT ![t] = after]
                 /\ UNCHANGED stops
              \/ /\ ~Current(a).add /\ stops < MaxStops
                 /\ stops' = stops + 1
                 /\ UNCHANGED pointer
           /\ todo' = [todo EXCEPT ![a] = @ \ {t}]
           /\ IF last
              THEN /\ index' = IF Current(a).add
                               THEN [index EXCEPT ![Current(a).batch] = @ \cup {Current(a).session}]
                               ELSE index
                   /\ holder' = [holder EXCEPT ![Current(a).batch] = Nobody]
                   /\ Return(a)
              ELSE UNCHANGED <<index, holder, tasks, lost>>
    /\ UNCHANGED <<sessionVars, lookup, rebuild>>

\* A lock stays taken for all attempts, a file operation fails or the process
\* dies: the locks are dropped and the remaining calls are not made.
Stop(a) ==
    /\ stops < MaxStops /\ ~Idle(a)
    /\ stops' = stops + 1
    /\ tasks' = [tasks EXCEPT ![a] = <<>>]
    /\ todo' = [todo EXCEPT ![a] = {}]
    /\ holder' = [b \in Batches |-> IF holder[b] = a THEN Nobody ELSE holder[b]]
    /\ lost' = IF a \in Sessions THEN lost \cup {a} ELSE lost
    /\ IF a \in Resolvers
       THEN lookup' = [lookup EXCEPT ![a] = NoLookup]
       ELSE UNCHANGED lookup
    /\ rebuild' = IF a = Restart THEN {} ELSE rebuild
    /\ UNCHANGED <<state, called, index, pointer>>

-----------------------------------------------------------------------------
(***************************************************************************)
(* newFileStateStore of a process that starts.                             *)
(***************************************************************************)

RebuildPendingIndex ==
    /\ rebuild = {} /\ Idle(Restart) /\ lost # {}
    /\ rebuild' = Sessions
    /\ UNCHANGED <<sessionVars, indexVars, tasks, todo, lost, lookup, stops>>

\* One state file is read, without its flock, and a parked session indexed.
RebuildOne ==
    LET s == First(rebuild) IN
    /\ rebuild # {} /\ Idle(Restart)
    /\ rebuild' = rebuild \ {s}
    /\ tasks' = [tasks EXCEPT ![Restart] =
                    IF Parked(s)
                    THEN << [add |-> TRUE, batch |-> state[s].batch, session |-> s] >>
                    ELSE <<>>]
    /\ lost' = IF Parked(s) \/ ~Idle(s) THEN lost ELSE lost \ {s}
    /\ UNCHANGED <<sessionVars, indexVars, todo, lookup, stops>>

-----------------------------------------------------------------------------
(***************************************************************************)
(* ResolvePending.                                                         *)
(***************************************************************************)

Settled(s) == Parked(s) /\ Idle(s) /\ s \notin lost

\* The sessions that wait for exactly these ids, their index in step.
Waiting(ids) == {s \in Sessions : Settled(s) /\ state[s].batch = ids}

\* Mutant of Resolve: only the covering batch is looked up.
ResolveCovering(r, ids) ==
    /\ lookup[r].pc = "idle"
    /\ ids \subseteq UNION {called[s] : s \in Sessions}
    /\ lookup' = [lookup EXCEPT ![r] =
            [NoLookup EXCEPT !.pc = "cover", !.ids = ids, !.batch = ids, !.todo = ids,
                             !.parked = Waiting(ids)]]
    /\ UNCHANGED <<sessionVars, indexVars, tasks, todo, lost, rebuild, stops>>

\* The client submits results; parked remembers who waits for them, for the
\* property ResolveFinds.
Resolve(r, ids) ==
    /\ lookup[r].pc = "idle"
    /\ ids \subseteq UNION {called[s] : s \in Sessions}
    /\ lookup' = [lookup EXCEPT ![r] =
            [NoLookup EXCEPT !.pc = "index", !.ids = ids, !.batch = ids,
                             !.parked = Waiting(ids)]]
    /\ UNCHANGED <<sessionVars, indexVars, tasks, todo, lost, rebuild, stops>>

\* ErrSessionNotPending of the exact lookup leads to the covering one, once.
NotPending(l) ==
    IF l.covered THEN [l EXCEPT !.pc = "none"]
    ELSE [l EXCEPT !.pc = "cover", !.todo = l.ids]

\* resolvePendingExact reads the index file, without the batch lock.
ReadIndex(r) ==
    LET l == lookup[r]
    IN  /\ l.pc = "index"
        /\ lookup' = [lookup EXCEPT ![r] =
                IF index[l.batch] = {} THEN NotPending(l)
                ELSE [l EXCEPT !.pc = "states", !.todo = index[l.batch],
                               !.matches = {}, !.invalid = {}]]
        /\ UNCHANGED <<sessionVars, indexVars, tasks, todo, lost, rebuild, stops>>

\* A session in the index counts if it is parked on this very batch.
Matches(s, b) == Parked(s) /\ state[s].batch = b

\* One of the sessions' state files is read, without its flock.
ReadState(r) ==
    LET l == lookup[r]
        s == First(l.todo)
        ok == Matches(s, l.batch)
        bad == IF ok THEN l.invalid ELSE l.invalid \cup {s}
    IN  /\ l.pc = "states"
        /\ lookup' = [lookup EXCEPT ![r] =
                [l EXCEPT !.todo = @ \ {s},
                          !.matches = IF ok THEN @ \cup {s} ELSE @,
                          !.invalid = IF l.todo = {s} THEN {} ELSE bad,
                          !.pc = IF l.todo = {s} THEN "repair" ELSE @]]
        /\ tasks' = IF l.todo = {s}
                    THEN [tasks EXCEPT ![r] =
                            SetToSeq({[add |-> FALSE, batch |-> l.batch, session |-> x] : x \in bad})]
                    ELSE tasks
        /\ UNCHANGED <<sessionVars, indexVars, todo, lost, rebuild, stops>>

\* The stale entries are gone and the exact lookup returns; SessionManager
\* has what follows when it found the session.
Answer(r) ==
    LET l == lookup[r]
    IN  /\ l.pc = "repair" /\ Idle(r)
        /\ lookup' = [lookup EXCEPT ![r] =
                IF l.matches = {} THEN NotPending(l)
                ELSE IF Cardinality(l.matches) = 1 THEN NoLookup
                ELSE [l EXCEPT !.pc = "ambiguous"]]
        /\ UNCHANGED <<sessionVars, indexVars, tasks, todo, lost, rebuild, stops>>

\* pendingCoveringBatch reads the pointers of the submitted ids in order; the
\* batches inside the submission must agree.
ReadPointer(r) ==
    LET l == lookup[r]
        t == Min(l.todo)
        b == pointer[t]
        usable == b # {} /\ b \subseteq l.ids
        cand == IF usable /\ l.candidate = {} THEN b ELSE l.candidate
    IN  /\ l.pc = "cover" /\ l.todo # {}
        /\ lookup' = [lookup EXCEPT ![r] =
                IF usable /\ b # cand
                THEN [l EXCEPT !.pc = "ambiguous", !.todo = {}, !.candidate = {}]
                ELSE [l EXCEPT !.todo = @ \ {t}, !.candidate = cand]]
        /\ UNCHANGED <<sessionVars, indexVars, tasks, todo, lost, rebuild, stops>>

\* The covering batch, when it is another one, gets an exact lookup of its own.
Covering(r) ==
    LET l == lookup[r]
    IN  /\ l.pc = "cover" /\ l.todo = {}
        /\ lookup' = [lookup EXCEPT ![r] =
                IF l.candidate \in {{}, l.ids} THEN [l EXCEPT !.pc = "none", !.candidate = {}]
                ELSE [l EXCEPT !.pc = "index", !.batch = l.candidate, !.covered = TRUE,
                               !.candidate = {}]]
        /\ UNCHANGED <<sessionVars, indexVars, tasks, todo, lost, rebuild, stops>>

\* The error is returned.
Refused(r) ==
    /\ lookup[r].pc \in {"ambiguous", "none"}
    /\ lookup' = [lookup EXCEPT ![r] = NoLookup]
    /\ UNCHANGED <<sessionVars, indexVars, tasks, todo, lost, rebuild, stops>>

-----------------------------------------------------------------------------
SessionStep(s) ==
    \/ Claim(s) \/ Delete(s) \/ SaveHistory(s)
    \/ \E P \in SUBSET Tools : SavePending(s, P)

ResolverStep(r) ==
    \/ \E ids \in Batches : Resolve(r, ids)
    \/ ReadIndex(r) \/ ReadState(r) \/ ReadPointer(r) \/ Covering(r) \/ Answer(r) \/ Refused(r)

Next ==
    \/ \E s \in Sessions : SessionStep(s)
    \/ \E r \in Resolvers : ResolverStep(r)
    \/ \E a \in Actors : Begin(a) \/ Pointer(a) \/ Stop(a)
    \/ RebuildPendingIndex \/ RebuildOne

Spec == Init /\ [][Next]_vars

-----------------------------------------------------------------------------
\* Type invariant of the files and of the calls under way; an actor inside
\* mutatePendingIndex holds the lock of its batch.
TypeOK ==
    /\ state \in [Sessions -> [pending: SUBSET Tools, batch: SUBSET Tools]]
    /\ called \in [Sessions -> SUBSET Tools]
    /\ index \in [Batches -> SUBSET Sessions]
    /\ pointer \in [Tools -> SUBSET Tools]
    /\ holder \in [Batches -> Actors \cup {Nobody}]
    /\ \A a \in Actors : /\ Len(tasks[a]) <= Cardinality(Sessions) + 1
                          /\ Range(tasks[a]) \subseteq Task
                          /\ todo[a] # {} => ~Idle(a) /\ holder[Current(a).batch] = a
    /\ lost \subseteq Sessions /\ rebuild \subseteq Sessions

\* A parked session is in the index file of its batch as soon as the change
\* that parked it returned, whatever resolvers and a restarting process
\* remove or add meanwhile on what they read without its flock.
Findable == \A s \in Sessions : Settled(s) => s \in index[state[s].batch]

\* ResolvePending of exactly the batch a session is parked on all along never
\* answers "not pending", and "ambiguous" only for two such sessions.
ResolveFinds ==
    \A r \in Resolvers : LET l == lookup[r] IN
        /\ l.pc \in {"none", "ambiguous"}
        /\ l.parked \cap Waiting(l.ids) # {}
        => Cardinality(l.matches) > 1

\* Until a call stops half-way, the pointers of a parked batch lead to it,
\* so that a submission of its ids among others finds the session: no late
\* removal by a resolver that read an older index file takes them away, and
\* no growth leaves one behind.  (Ids other sessions use as well are left to
\* whoever wrote their pointer last.)
BatchPointersLead ==
    stops = 0 =>
        \A s \in Sessions :
            Settled(s) =>
                \A t \in state[s].batch :
                    pointer[t] = state[s].batch \/ \E o \in Sessions \ {s} : t \in called[o]

\* A parked session is indexed under a batch that has its pending tools.
\* Violated: one save takes out an accepted tool and brings in the calls made
\* meanwhile, and keeps the batch when they are no more than before.
PendingCovered == \A s \in Sessions : state[s].pending \subseteq state[s].batch

\* "A covering set is not authorization to choose one of two live sessions":
\* while nothing is being changed, pendingCoveringBatch finds two different
\* batches in a submission only if two parked sessions wait for its ids.
\* Violated: SaveHistory, and a removal that stops after the index file or
\* passes over a pointer, leave a pointer file that nothing removes again.
AmbiguousMeansTwo ==
    (\A a \in Actors : Idle(a)) /\ lost = {} =>
        \A ids \in Batches :
            Cardinality({pointer[t] : t \in ids} \cap ((SUBSET ids) \ {{}})) > 1
            => Cardinality({s \in Sessions : state[s].pending \cap ids # {}}) > 1
=============================================================================
