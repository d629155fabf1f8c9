----------------------------- MODULE StateStore -----------------------------
(***************************************************************************)
(* The session files of FileStateStore (cursoragentv1/state.go): one JSON  *)
(* file per session, guarded by a flock on a sibling lock file that is     *)
(* held for the whole life of an owner, and fenced by an owner token and a *)
(* generation written inside the file.  Several gateway processes may      *)
(* share the directory; each may crash, which drops its flocks.            *)
(*                                                                         *)
(* A lease is named by the owner token (a fresh uuid) of the Claim that    *)
(* takes it.  Every write happens under the flock, so acquiring the lease, *)
(* deciding the claim and each later update are one step each.  The pending*)
(* index is taken to agree with the files, but for a failed index write.   *)
(***************************************************************************)
EXTENDS Naturals, FiniteSets

CONSTANTS Procs,            \* gateway processes sharing the state directory
          Sessions,         \* session ids
          HistorySessions,  \* the ids historySessionID derives from a request key
          HistoryCred,      \* the credential such an id was derived from
          Creds,            \* credential fingerprints
          Tokens,           \* owner tokens
          Tools,            \* tool call ids
          MaxPending,       \* maxPendingTools
          NoFile, NoToken, NoCred, NoSession

ASSUME ConstantsAssumption ==
    /\ HistorySessions \subseteq Sessions
    /\ HistoryCred \in [HistorySessions -> Creds]
    /\ MaxPending \in Nat
    /\ NoToken \notin Tokens
    /\ NoCred \notin Creds
    /\ NoSession \notin Sessions

(***************************************************************************)
(* What a state file says.  ckpt, pendBy and carry stand for the saved     *)
(* checkpoint, pending tools and usage carry by the credential they were   *)
(* saved under, metered for a BillingRunID of the metered kind, catalog    *)
(* for a non-empty tool catalog digest.                                    *)
(***************************************************************************)
File == [gen: Nat, token: Tokens, cred: Creds,
         ckpt: Creds \cup {NoCred},
         pending: SUBSET Tools, batch: SUBSET Tools,
         pendBy: Creds \cup {NoCred},
         carry: Creds \cup {NoCred},
         metered: BOOLEAN, catalog: BOOLEAN, ephemeral: BOOLEAN]

ASSUME NoFileAssumption == NoFile \notin File

\* The OwnerLease a Claim returns; NoLease is a token not drawn yet.
Lease == [st: {"claiming", "owned", "released"}, session: Sessions,
          proc: Procs, cred: Creds, gen: Nat]

NoLease == [st |-> "unused"]

VARIABLES
    file,     \* the JSON file of each session, or NoFile
    fresh,    \* the file has not outlived its TTL (stateExpired is false)
    lock,     \* the lease that holds each session's flock, or NoToken
    lease,    \* every lease handed out so far
    history,  \* the owner that committed a history snapshot, or NoToken
    scan      \* the file each process's pruneExpired found expired

vars == <<file, fresh, lock, lease, history, scan>>

TypeOK ==
    /\ file \in [Sessions -> File \cup {NoFile}]
    /\ fresh \in [Sessions -> BOOLEAN]
    /\ lock \in [Sessions -> Tokens \cup {NoToken}]
    /\ lease \in [Tokens -> Lease \cup {NoLease}]
    /\ history \in [Sessions -> Tokens \cup {NoToken}]
    /\ scan \in [Procs -> Sessions \cup {NoSession}]

Init ==
    /\ file = [s \in Sessions |-> NoFile]
    /\ fresh = [s \in Sessions |-> TRUE]
    /\ lock = [s \in Sessions |-> NoToken]
    /\ lease = [t \in Tokens |-> NoLease]
    /\ history = [s \in Sessions |-> NoToken]
    /\ scan = [p \in Procs |-> NoSession]

-----------------------------------------------------------------------------
(***************************************************************************)
(* Claim.                                                                  *)
(***************************************************************************)

\* The ClaimOptions each caller of Claim passes: SessionManager.Start for an
\* ordinary session and for a history key, ResumeTools' cold path, and
\* StartFollowUp.
Options == [history: BOOLEAN, allowPending: BOOLEAN, allowCred: BOOLEAN,
            requireExisting: BOOLEAN, requireCatalog: BOOLEAN, reuse: BOOLEAN]

StartOptions ==
    {o \in Options : /\ ~o.history /\ ~o.allowPending
                     /\ o.allowCred = ~o.requireExisting
                     /\ ~o.requireCatalog /\ ~o.reuse}

HistoryOptions ==
    {o \in Options : /\ o.history /\ o.allowPending /\ o.allowCred
                     /\ ~o.requireExisting /\ ~o.requireCatalog /\ ~o.reuse}

ResumeOptions ==
    {o \in Options : /\ ~o.history /\ o.allowPending /\ ~o.allowCred
                     /\ o.requireExisting /\ o.requireCatalog /\ ~o.reuse}

FollowUpOptions ==
    {o \in Options : /\ ~o.history /\ ~o.allowPending /\ ~o.allowCred
                     /\ o.requireExisting}

ClaimOptions(s) ==
    IF s \in HistorySessions
    THEN HistoryOptions
    ELSE StartOptions \cup ResumeOptions \cup FollowUpOptions

Holds(t) == lease[t].st \in {"claiming", "owned"}

\* Mutant of Acquire: the flock is not exclusive.
AcquireShared(p, s, c, t) ==
    /\ lease[t] = NoLease
    /\ s \in HistorySessions => c = HistoryCred[s]
    /\ lock' = [lock EXCEPT ![s] = t]
    /\ lease' = [lease EXCEPT ![t] =
                    [st |-> "claiming", session |-> s, proc |-> p,
                     cred |-> c, gen |-> 0]]
    /\ UNCHANGED <<file, fresh, history, scan>>

\* acquireLease: a non-blocking flock; ErrStateLeaseHeld changes nothing.
Acquire(p, s, c, t) ==
    /\ lease[t] = NoLease
    /\ lock[s] = NoToken
    /\ s \in HistorySessions => c = HistoryCred[s]
    /\ lock' = [lock EXCEPT ![s] = t]
    /\ lease' = [lease EXCEPT ![t] =
                    [st |-> "claiming", session |-> s, proc |-> p,
                     cred |-> c, gen |-> 0]]
    /\ UNCHANGED <<file, fresh, history, scan>>

\* Mutant of Drop: the flock is dropped but the handle not marked released.
DropFlockOnly(t) ==
    /\ lease' = lease
    /\ lock' = [lock EXCEPT ![lease[t].session] = NoToken]

\* releaseHandle: the flock is dropped and the handle marked released.
Drop(t) ==
    /\ lease' = [lease EXCEPT ![t].st = "released"]
    /\ lock' = [lock EXCEPT ![lease[t].session] = NoToken]

\* An expired file is removed before the claim looks at it.
Current(s) == IF fresh[s] THEN file[s] ELSE NoFile

\* Mutant of Refused: AllowPending is ignored.
RefusedButPending(cur, c, o) ==
    \/ cur = NoFile /\ o.requireExisting
    \/ o.requireCatalog /\ (cur # NoFile => ~cur.catalog)
    \/ cur # NoFile /\ cur.cred # c /\ ~o.allowCred

\* The early returns of Claim, in the order of the code.
Refused(cur, c, o) ==
    \/ cur = NoFile /\ o.requireExisting
    \/ cur # NoFile /\ ~o.allowPending /\ cur.pending # {}
    \/ o.requireCatalog /\ (cur # NoFile => ~cur.catalog)
    \/ cur # NoFile /\ cur.cred # c /\ ~o.allowCred

\* Mutant of Claimed: a cold rebuild keeps the other account's checkpoint.
ClaimedKeepsCheckpoint(cur, c, o, t, catalog, metered) ==
    [gen |-> (IF cur = NoFile THEN 0 ELSE cur.gen) + 1,
     token |-> t, cred |-> c,
     ckpt |-> IF cur = NoFile \/ o.history THEN NoCred ELSE cur.ckpt,
     pending |-> IF cur = NoFile \/ o.history THEN {} ELSE cur.pending,
     batch |-> IF cur = NoFile \/ o.history THEN {} ELSE cur.batch,
     pendBy |-> IF cur = NoFile \/ o.history THEN NoCred ELSE cur.pendBy,
     carry |-> NoCred, metered |-> metered, catalog |-> catalog,
     ephemeral |-> FALSE]

\* Mutant of Claimed: the generation counts down.
ClaimedCountsDown(cur, c, o, t, catalog, metered) ==
    [gen |-> (IF cur = NoFile THEN 0 ELSE cur.gen) - 1,
     token |-> t, cred |-> c, ckpt |-> NoCred, pending |-> {}, batch |-> {},
     pendBy |-> NoCred, carry |-> NoCred, metered |-> metered,
     catalog |-> catalog, ephemeral |-> FALSE]

\* The snapshot Claim writes for the new owner t: catalog says whether the
\* caller declared tools, metered whether the caller's NewBillingRunID is
\* metered.
Claimed(cur, c, o, t, catalog, metered) ==
    LET cold == cur # NoFile /\ cur.cred # c
        wipe == cur = NoFile \/ cold \/ o.history
        pending == IF wipe THEN {} ELSE cur.pending
        wasMetered == cur # NoFile /\ ~cold /\ cur.metered
        keep == o.reuse \/ (o.allowPending /\ wasMetered)
    IN  [gen |-> (IF cur = NoFile THEN 0 ELSE cur.gen) + 1,
         token |-> t,
         cred |-> c,
         ckpt |-> IF wipe THEN NoCred ELSE cur.ckpt,
         pending |-> pending,
         batch |-> IF wipe THEN {} ELSE cur.batch,
         pendBy |-> IF wipe THEN NoCred ELSE cur.pendBy,
         carry |-> IF cur # NoFile /\ keep THEN cur.carry ELSE NoCred,
         metered |-> IF keep THEN wasMetered ELSE metered,
         catalog |-> IF ~o.requireCatalog /\ pending = {}
                     THEN catalog ELSE cur # NoFile /\ cur.catalog,
         ephemeral |-> cur # NoFile /\ ~o.history /\ cur.ephemeral]

\* LookupHistory under the lease finds the committed snapshot: Claim returns
\* it and releases.
ClaimReplay(t) ==
    LET s == lease[t].session IN
    /\ lease[t].st = "claiming"
    /\ s \in HistorySessions
    /\ history[s] # NoToken
    /\ Drop(t)
    /\ UNCHANGED <<file, fresh, history, scan>>

ClaimRefused(t, o) ==
    LET s == lease[t].session IN
    /\ lease[t].st = "claiming"
    /\ o.history => history[s] = NoToken
    /\ Refused(Current(s), lease[t].cred, o)
    /\ file' = [file EXCEPT ![s] = Current(s)]
    /\ fresh' = [fresh EXCEPT ![s] = TRUE]
    /\ Drop(t)
    /\ UNCHANGED <<history, scan>>

\* A file whose EphemeralComplete is set and that has nothing pending ages
\* from CompletedAt, any other from UpdatedAt, which every write refreshes.
Refreshes(rec) == ~rec.ephemeral \/ rec.pending # {}

\* writeStateAtomic of a record whose CompletedAt the writer leaves alone.
Write(s, rec) ==
    /\ file' = [file EXCEPT ![s] = rec]
    /\ fresh' = [fresh EXCEPT ![s] = fresh[s] \/ Refreshes(rec)]

\* Mutant of ClaimCommitted: the snapshot is not looked up again under the
\* lease.
ClaimCommittedBlind(t, o, catalog, metered, indexed) ==
    LET s   == lease[t].session
        rec == Claimed(Current(s), lease[t].cred, o, t, catalog, metered)
    IN  /\ lease[t].st = "claiming"
        /\ ~Refused(Current(s), lease[t].cred, o)
        /\ file' = [file EXCEPT ![s] = rec]
        /\ fresh' = [fresh EXCEPT ![s] = TRUE]
        /\ lease' = [lease EXCEPT ![t].st = "owned", ![t].gen = rec.gen]
        /\ UNCHANGED <<lock, history, scan>>

\* The claim commits.  If a pending index write fails after the state was
\* written, Claim returns the error: the state is rotated to an owner that
\* nobody holds.
ClaimCommitted(t, o, catalog, metered, indexed) ==
    LET s   == lease[t].session
        rec == Claimed(Current(s), lease[t].cred, o, t, catalog, metered)
    IN  /\ lease[t].st = "claiming"
        /\ o.history => history[s] = NoToken
        /\ ~Refused(Current(s), lease[t].cred, o)
        /\ file' = [file EXCEPT ![s] = rec]
        /\ fresh' = [fresh EXCEPT ![s] = TRUE]
        /\ IF indexed
           THEN /\ lease' = [lease EXCEPT ![t].st = "owned",
                                          ![t].gen = rec.gen]
                /\ lock' = lock
           ELSE Drop(t)
        /\ UNCHANGED <<history, scan>>

-----------------------------------------------------------------------------
(***************************************************************************)
(* The operations of an owner.                                             *)
(***************************************************************************)
OwnerMatches(rec, t) ==
    /\ rec.token = t
    /\ rec.gen = lease[t].gen
    /\ rec.cred = lease[t].cred

\* Mutant of MayUpdate: withOwner does not look at handle.released.
MayUpdateReleased(t) ==
    /\ lease[t].st \in {"owned", "released"}
    /\ file[lease[t].session] # NoFile
    /\ OwnerMatches(file[lease[t].session], t)

\* withOwner and update: the handle is not released, the file is there and
\* still names this owner.  Anything else is ErrRetiredOwner and no change.
MayUpdate(t) ==
    /\ lease[t].st = "owned"
    /\ file[lease[t].session] # NoFile
    /\ OwnerMatches(file[lease[t].session], t)

SaveCheckpoint(t) ==
    LET s == lease[t].session IN
    /\ MayUpdate(t)
    /\ Write(s, [file[s] EXCEPT !.ckpt = lease[t].cred])
    /\ UNCHANGED <<lock, lease, history, scan>>

\* The batch under which the pending tools are indexed: the ids first saved
\* together, kept while results come in.
NextBatch(rec, pending) ==
    IF pending = {} THEN {}
    ELSE IF rec.batch = {} \/ Cardinality(pending) > Cardinality(rec.pending)
    THEN pending
    ELSE rec.batch

SavePending(t, pending) ==
    LET s == lease[t].session IN
    /\ MayUpdate(t)
    /\ Cardinality(pending) <= MaxPending
    /\ Write(s, [file[s] EXCEPT
                    !.batch = NextBatch(file[s], pending),
                    !.pending = pending,
                    !.pendBy = IF pending = {} THEN NoCred ELSE lease[t].cred])
    /\ UNCHANGED <<lock, lease, history, scan>>

\* SaveUsageCarry of a possibly empty list of usage events.
SaveUsageCarry(t, some) ==
    LET s == lease[t].session IN
    /\ MayUpdate(t)
    /\ Write(s, [file[s] EXCEPT !.carry = IF some THEN lease[t].cred ELSE NoCred])
    /\ UNCHANGED <<lock, lease, history, scan>>

\* A live resume moves an unmetered run to its own billing segment
\* (managedSession.resume); segment ids are never metered.
SetBillingRunID(t) ==
    LET s == lease[t].session IN
    /\ MayUpdate(t)
    /\ ~file[s].metered
    /\ Write(s, file[s])
    /\ UNCHANGED <<lock, lease, history, scan>>

\* SaveCompleted's effect on the session file: an ephemeral session with
\* nothing pending starts its short TTL now.
SaveCompleted(t, ephemeral) ==
    LET s    == lease[t].session
        done == ephemeral /\ file[s].pending = {}
        rec  == [file[s] EXCEPT !.ephemeral = @ \/ done]
    IN  /\ MayUpdate(t)
        /\ s \notin HistorySessions
        /\ file' = [file EXCEPT ![s] = rec]
        /\ fresh' = [fresh EXCEPT ![s] = fresh[s] \/ done \/ Refreshes(rec)]
        /\ UNCHANGED <<lock, lease, history, scan>>

\* SaveHistory commits the snapshot of a finite full-history run, and clears
\* the state it no longer needs; a snapshot already there is kept.
SaveHistory(t) ==
    LET s == lease[t].session IN
    /\ MayUpdate(t)
    /\ s \in HistorySessions
    /\ IF history[s] # NoToken
       THEN Write(s, file[s]) /\ UNCHANGED history
       ELSE /\ history' = [history EXCEPT ![s] = t]
            /\ file' = [file EXCEPT ![s] =
                   [@ EXCEPT !.ckpt = NoCred, !.pending = {}, !.batch = {},
                             !.pendBy = NoCred, !.ephemeral = TRUE]]
            /\ fresh' = [fresh EXCEPT ![s] = TRUE]
    /\ UNCHANGED <<lock, lease, scan>>

\* Delete by the owner; a missing file is success.
Delete(t) ==
    /\ MayUpdate(t)
    /\ file' = [file EXCEPT ![lease[t].session] = NoFile]
    /\ fresh' = [fresh EXCEPT ![lease[t].session] = TRUE]
    /\ UNCHANGED <<lock, lease, history, scan>>

\* Release of an owner; releasing twice does nothing.
Release(t) ==
    /\ lease[t].st = "owned"
    /\ Drop(t)
    /\ UNCHANGED <<file, fresh, history, scan>>

-----------------------------------------------------------------------------
(***************************************************************************)
(* Operations that take the lease only for themselves, time and crashes.   *)
(***************************************************************************)

\* DeleteSession: the lease must be free and the credential the file's own.
DeleteSession(s, c) ==
    /\ lock[s] = NoToken
    /\ file[s] # NoFile
    /\ file[s].cred = c
    /\ file' = [file EXCEPT ![s] = NoFile]
    /\ fresh' = [fresh EXCEPT ![s] = TRUE]
    /\ UNCHANGED <<lock, lease, history, scan>>

\* Time passes the TTL of a session file, or of a history snapshot.
Expire(s) ==
    /\ file[s] # NoFile
    /\ fresh[s]
    /\ fresh' = [fresh EXCEPT ![s] = FALSE]
    /\ UNCHANGED <<file, lock, lease, history, scan>>

ExpireHistory(s) ==
    /\ history[s] # NoToken
    /\ history' = [history EXCEPT ![s] = NoToken]
    /\ UNCHANGED <<file, fresh, lock, lease, scan>>

\* pruneExpired reads a file without its lease and finds it expired ...
PruneScan(p, s) ==
    /\ scan[p] = NoSession
    /\ file[s] # NoFile
    /\ ~fresh[s]
    /\ scan' = [scan EXCEPT ![p] = s]
    /\ UNCHANGED <<file, fresh, lock, lease, history>>

\* Mutant of PruneRemove: the file is not read again under the lease.
PruneRemoveUnread(p) ==
    LET s    == scan[p]
        gone == lock[s] = NoToken
    IN  /\ s # NoSession
        /\ file' = [file EXCEPT ![s] = IF gone THEN NoFile ELSE @]
        /\ fresh' = [fresh EXCEPT ![s] = @ \/ gone]
        /\ scan' = [scan EXCEPT ![p] = NoSession]
        /\ UNCHANGED <<lock, lease, history>>

\* ... skips it if it is leased, and otherwise reads it again under the lease
\* and removes it if it is still expired.
PruneRemove(p) ==
    LET s    == scan[p]
        gone == lock[s] = NoToken /\ file[s] # NoFile /\ ~fresh[s]
    IN  /\ s # NoSession
        /\ file' = [file EXCEPT ![s] = IF gone THEN NoFile ELSE @]
        /\ fresh' = [fresh EXCEPT ![s] = @ \/ gone]
        /\ scan' = [scan EXCEPT ![p] = NoSession]
        /\ UNCHANGED <<lock, lease, history>>

\* A process dies: its flocks are dropped, its owners are gone.
Crash(p) ==
    LET dead == {t \in Tokens : Holds(t) /\ lease[t].proc = p} IN
    /\ lease' = [t \in Tokens |->
                    IF t \in dead THEN [lease[t] EXCEPT !.st = "released"]
                                  ELSE lease[t]]
    /\ lock' = [s \in Sessions |-> IF lock[s] \in dead THEN NoToken ELSE lock[s]]
    /\ scan' = [scan EXCEPT ![p] = NoSession]
    /\ UNCHANGED <<file, fresh, history>>

-----------------------------------------------------------------------------
ClaimStep(t) ==
    \/ \E p \in Procs, s \in Sessions, c \in Creds : Acquire(p, s, c, t)
    \/ ClaimReplay(t)
    \/ \E s \in Sessions :
         /\ lease[t] # NoLease
         /\ lease[t].session = s
         /\ \E o \in ClaimOptions(s) :
              \/ ClaimRefused(t, o)
              \/ \E catalog, metered, indexed \in BOOLEAN :
                    ClaimCommitted(t, o, catalog, metered, indexed)

OwnerStep(t) ==
    \/ SaveCheckpoint(t)
    \/ \E pending \in SUBSET Tools : SavePending(t, pending)
    \/ \E some \in BOOLEAN : SaveUsageCarry(t, some)
    \/ SetBillingRunID(t)
    \/ \E ephemeral \in BOOLEAN : SaveCompleted(t, ephemeral)
    \/ SaveHistory(t)
    \/ Delete(t)
    \/ Release(t)

StoreStep ==
    \/ \E s \in Sessions : \/ \E c \in Creds : DeleteSession(s, c)
                           \/ Expire(s)
                           \/ ExpireHistory(s)
    \/ \E p \in Procs : \/ \E s \in Sessions : PruneScan(p, s)
                        \/ PruneRemove(p)
                        \/ Crash(p)

Next ==
    \/ \E t \in Tokens : ClaimStep(t) \/ OwnerStep(t)
    \/ StoreStep

Spec == Init /\ [][Next]_vars

-----------------------------------------------------------------------------
(***************************************************************************)
(* What the leases and the fencing token promise.                          *)
(***************************************************************************)

\* Two leases of one session are never held at once, whatever processes they
\* belong to and wherever one of them crashes (acquireLease, releaseHandle).
OneLiveOwner ==
    \A t, u \in Tokens :
        Holds(t) /\ Holds(u) /\ lease[t].session = lease[u].session => t = u

\* While an owner holds its lease, the file is gone or still names exactly
\* this owner: ownerMatches never rejects an owner whose handle is live.
OwnerCurrent ==
    \A t \in Tokens :
        lease[t].st = "owned" =>
            \/ file[lease[t].session] = NoFile
            \/ OwnerMatches(file[lease[t].session], t)

\* What a record carries over belongs to the credential it names.
BoundToCredential(rec) ==
    /\ {rec.ckpt, rec.pendBy, rec.carry} \subseteq {NoCred, rec.cred}
    /\ rec.pending # {} => rec.pendBy = rec.cred

\* Nothing saved under one credential is ever readable in a session that has
\* since been claimed by another: checkpoint, pending tools and usage carry
\* belong to the credential the file names (the cold rebuild of Claim).
CredentialBound ==
    \A s \in Sessions : file[s] # NoFile => BoundToCredential(file[s])

\* Once a history run has committed its snapshot no other owner runs the same
\* request while that snapshot lives: "a concurrent retry waits for the
\* committed snapshot, not a second model invocation" (StartHistory, Claim).
NoSecondInvocation ==
    \A t \in Tokens :
        lease[t].st = "owned" /\ history[lease[t].session] # NoToken
            => history[lease[t].session] = t

\* A state file is only ever rewritten by the owner it names while that owner
\* holds its lease, or by the next claim, which holds the lease itself, finds
\* no live owner and raises the generation by one.
WriterIsOwner(s) ==
    file[s] # NoFile /\ file'[s] # NoFile /\ file'[s] # file[s] =>
        \/ /\ file'[s].token = file[s].token
           /\ file'[s].gen = file[s].gen
           /\ lease[file[s].token].st = "owned"
        \/ /\ file'[s].token # file[s].token
           /\ file'[s].token = lock[s]
           /\ lease[file[s].token].st = "released"
           /\ fresh[s] => file'[s].gen = file[s].gen + 1

OnlyOwnerWrites == [][\A s \in Sessions : WriterIsOwner(s)]_vars

\* Garbage collection never removes a state that was renewed between its
\* unlocked look and the removal (pruneExpired reads the file twice).
GCSparesRenewed ==
    [][\A p \in Procs : \A s \in Sessions :
          /\ scan[p] = s /\ scan'[p] = NoSession
          /\ file[s] # NoFile /\ file'[s] = NoFile
          => ~fresh[s]]_vars

\* No claim of any kind drops the parked tool calls of an unexpired ordinary
\* session: only the live owner changes them, and only deletion or the TTL
\* takes them away.
ParkedToolsSurviveClaims ==
    [][\A s \in Sessions \ HistorySessions :
          /\ file[s] # NoFile /\ fresh[s] /\ file[s].pending # {}
          /\ file'[s] # NoFile /\ file'[s].pending # file[s].pending
          => lease[file[s].token].st = "owned"]_vars
=============================================================================
