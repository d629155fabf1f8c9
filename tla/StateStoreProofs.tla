-------------------------- MODULE StateStoreProofs --------------------------
(***************************************************************************)
(* Proofs, for any number of processes, sessions, credentials, tokens and  *)
(* tools, that the leases and fencing tokens of StateStore keep what they  *)
(* promise.                                                                *)
(*                                                                         *)
(* None of the promises is inductive alone.  The strengthening adds how    *)
(* the flock and the leases agree (LockHeld), that the owner a file names  *)
(* is a lease of that session which got past its claim (FileNamesLease),   *)
(* and that only history sessions have snapshots (HistoryOnly).            *)
(***************************************************************************)
EXTENDS StateStore, TLAPS

\* A held lease is the one its session's flock names, and conversely.
LockHeld ==
    /\ \A t \in Tokens : Holds(t) => lock[lease[t].session] = t
    /\ \A s \in Sessions :
         lock[s] # NoToken => Holds(lock[s]) /\ lease[lock[s]].session = s

\* The owner a file names took its lease on this session and got past Claim.
FileNamesLease ==
    \A s \in Sessions :
        file[s] # NoFile =>
            /\ lease[file[s].token].st \in {"owned", "released"}
            /\ lease[file[s].token].session = s

HistoryOnly ==
    \A s \in Sessions \ HistorySessions : history[s] = NoToken

\* The inductive invariant.
IInv ==
    /\ TypeOK
    /\ LockHeld
    /\ FileNamesLease
    /\ OwnerCurrent
    /\ CredentialBound
    /\ HistoryOnly
    /\ NoSecondInvocation

-----------------------------------------------------------------------------
(***************************************************************************)
(* Facts about single states.                                              *)
(***************************************************************************)

\* A drawn token has a lease record.
LEMMA HeldIsLease ==
    ASSUME TypeOK, NEW t \in Tokens, lease[t].st # "unused"
    PROVE  lease[t] \in Lease
BY DEF TypeOK, NoLease

\* Two held leases of one session are the same lease.
LEMMA LockHeldUnique ==
    ASSUME LockHeld
    PROVE  OneLiveOwner
BY DEF LockHeld, OneLiveOwner

\* If a lease is still claiming, the owner its session's file names is
\* retired and is another one.
LEMMA ClaimingFencesOwner ==
    ASSUME IInv, NEW t \in Tokens, lease[t].st = "claiming",
           file[lease[t].session] # NoFile
    PROVE  /\ file[lease[t].session].token # t
           /\ lease[file[lease[t].session].token].st = "released"
<1> DEFINE s == lease[t].session
           u == file[s].token
<1>1. lease[t] \in Lease /\ s \in Sessions
  BY HeldIsLease DEF IInv, Lease
<1>2. u \in Tokens /\ lease[u].st \in {"owned", "released"} /\ lease[u].session = s
  BY <1>1 DEF IInv, TypeOK, FileNamesLease, File
<1>3. u # t
  BY <1>2
<1>4. lease[u].st # "owned"
  BY <1>1, <1>2, <1>3 DEF IInv, LockHeld, Holds
<1> QED BY <1>2, <1>3, <1>4

\* The options callers pass are booleans, and no caller that keeps the billing
\* run accepts another credential.
LEMMA OptionsShape ==
    ASSUME NEW s \in Sessions, NEW o \in ClaimOptions(s)
    PROVE  /\ o.history \in BOOLEAN /\ o.reuse \in BOOLEAN
           /\ o.allowPending \in BOOLEAN /\ o.requireCatalog \in BOOLEAN
           /\ o.allowCred \in BOOLEAN
           /\ o.reuse => ~o.allowCred
BY DEF ClaimOptions, StartOptions, HistoryOptions, ResumeOptions,
       FollowUpOptions, Options

\* What a claim writes is a record of the claiming owner, bound to the
\* credential of the claim.
LEMMA ClaimedRecord ==
    ASSUME NEW cur \in File \cup {NoFile}, NEW c \in Creds, NEW t \in Tokens,
           NEW s \in Sessions, NEW o \in ClaimOptions(s),
           NEW catalog \in BOOLEAN, NEW metered \in BOOLEAN,
           ~Refused(cur, c, o),
           cur # NoFile => BoundToCredential(cur)
    PROVE  LET rec == Claimed(cur, c, o, t, catalog, metered) IN
           /\ rec \in File
           /\ rec.token = t
           /\ rec.cred = c
           /\ BoundToCredential(rec)
           /\ cur # NoFile => rec.gen = cur.gen + 1
<1> DEFINE rec == Claimed(cur, c, o, t, catalog, metered)
<1>1. /\ o.history \in BOOLEAN /\ o.reuse \in BOOLEAN
      /\ o.allowPending \in BOOLEAN /\ o.requireCatalog \in BOOLEAN
      /\ o.allowCred \in BOOLEAN
      /\ o.reuse => ~o.allowCred
  BY OptionsShape
<1>2. CASE cur = NoFile
  BY <1>1, <1>2, NoFileAssumption DEF Claimed, File, BoundToCredential
<1>3. CASE cur # NoFile /\ cur.cred # c
  <2>1. cur \in File /\ ~o.reuse
    BY <1>1, <1>3 DEF Refused
  <2> QED BY <1>1, <1>3, <2>1 DEF Claimed, File, BoundToCredential
<1>4. CASE cur # NoFile /\ cur.cred = c
  <2>1. cur \in File
    BY <1>4
  <2> QED BY <1>1, <1>4, <2>1 DEF Claimed, File, BoundToCredential
<1> QED BY <1>2, <1>3, <1>4
-----------------------------------------------------------------------------
(***************************************************************************)
(* Steps.  IStep is what every step of the store does: it keeps the        *)
(* invariant, and each file is rewritten only by its owner or the next.    *)
(***************************************************************************)
IStep == IInv' /\ \A s \in Sessions : WriterIsOwner(s)

\* A step that leaves files, flocks and leases alone.
LEMMA QuietStep ==
    ASSUME IInv, UNCHANGED <<file, lock, lease>>,
           fresh' \in [Sessions -> BOOLEAN],
           scan' \in [Procs -> Sessions \cup {NoSession}],
           history' \in [Sessions -> Tokens \cup {NoToken}],
           \A s \in Sessions : history'[s] \in {history[s], NoToken}
    PROVE  IStep
<1>1. TypeOK' /\ LockHeld' /\ FileNamesLease'
  BY DEF IInv, TypeOK, LockHeld, Holds, FileNamesLease
<1>2. OwnerCurrent' /\ CredentialBound'
  BY DEF IInv, OwnerCurrent, OwnerMatches, CredentialBound, BoundToCredential
<1>3. HistoryOnly'
  BY DEF IInv, HistoryOnly
<1>4. NoSecondInvocation'
  <2> SUFFICES ASSUME NEW u \in Tokens, lease[u].st = "owned",
                      history'[lease[u].session] # NoToken
               PROVE  history'[lease[u].session] = u
    BY DEF NoSecondInvocation
  <2>1. lease[u] \in Lease /\ lease[u].session \in Sessions
    BY HeldIsLease DEF IInv, Lease
  <2> QED BY <2>1 DEF IInv, NoSecondInvocation
<1>5. \A s \in Sessions : WriterIsOwner(s)
  BY DEF WriterIsOwner
<1> QED BY <1>1, <1>2, <1>3, <1>4, <1>5 DEF IStep, IInv

\* An owner writes its file without touching the fields that name it.
LEMMA OwnerWrites ==
    ASSUME IInv, NEW t \in Tokens, MayUpdate(t),
           NEW rec \in File,
           rec.token = file[lease[t].session].token,
           rec.gen = file[lease[t].session].gen,
           rec.cred = file[lease[t].session].cred,
           BoundToCredential(rec),
           file' = [file EXCEPT ![lease[t].session] = rec],
           fresh' \in [Sessions -> BOOLEAN],
           UNCHANGED <<lock, lease, scan>>,
           \/ history' = history
           \/ /\ lease[t].session \in HistorySessions
              /\ history' = [history EXCEPT ![lease[t].session] = t]
    PROVE  IStep
<1> DEFINE s == lease[t].session
<1>1. lease[t] \in Lease /\ s \in Sessions /\ file[s] \in File /\ file[s].token = t
  BY HeldIsLease DEF IInv, TypeOK, MayUpdate, OwnerMatches, Lease
<1>2. /\ TypeOK'
      /\ \A r \in Sessions \ {s} : file'[r] = file[r]
      /\ file'[s] = rec
  BY <1>1 DEF IInv, TypeOK
<1>3. LockHeld'
  BY DEF IInv, LockHeld, Holds
<1>4. FileNamesLease'
  BY <1>1, <1>2 DEF IInv, FileNamesLease, MayUpdate
<1>5. OwnerCurrent'
  <2> SUFFICES ASSUME NEW u \in Tokens, lease[u].st = "owned",
                      file'[lease[u].session] # NoFile
               PROVE  OwnerMatches(file[lease[u].session], u)'
    BY DEF OwnerCurrent
  <2>1. lease[u] \in Lease /\ lease[u].session \in Sessions
    BY HeldIsLease DEF IInv, Lease
  <2>2. CASE lease[u].session = s
    <3>1. OwnerMatches(file[s], u)
      BY <2>1, <2>2, <1>1 DEF IInv, OwnerCurrent, MayUpdate
    <3> QED BY <3>1, <2>2, <1>2 DEF OwnerMatches
  <2>3. CASE lease[u].session # s
    <3>1. file'[lease[u].session] = file[lease[u].session]
      BY <2>1, <2>3, <1>2
    <3>2. OwnerMatches(file[lease[u].session], u)
      BY <3>1, <2>1 DEF IInv, OwnerCurrent
    <3> QED BY <3>1, <3>2 DEF OwnerMatches
  <2> QED BY <2>2, <2>3
<1>6. CredentialBound'
  BY <1>2 DEF IInv, CredentialBound, BoundToCredential
<1>7. HistoryOnly'
  BY <1>1 DEF IInv, TypeOK, HistoryOnly
<1>8. NoSecondInvocation'
  <2> SUFFICES ASSUME NEW u \in Tokens, lease[u].st = "owned",
                      history'[lease[u].session] # NoToken
               PROVE  history'[lease[u].session] = u
    BY DEF NoSecondInvocation
  <2>1. lease[u] \in Lease /\ lease[u].session \in Sessions
    BY HeldIsLease DEF IInv, Lease
  <2>2. lease[u].session = s => u = t
    BY LockHeldUnique DEF IInv, OneLiveOwner, Holds, MayUpdate
  <2> QED BY <1>1, <2>1, <2>2 DEF IInv, TypeOK, NoSecondInvocation
<1>9. \A r \in Sessions : WriterIsOwner(r)
  BY <1>1, <1>2 DEF WriterIsOwner, MayUpdate
<1> QED BY <1>2, <1>3, <1>4, <1>5, <1>6, <1>7, <1>8, <1>9 DEF IStep, IInv

\* A file disappears while the leases stay as they are.
LEMMA FileRemoved ==
    ASSUME IInv, NEW s \in Sessions,
           file' \in {file, [file EXCEPT ![s] = NoFile]},
           fresh' \in [Sessions -> BOOLEAN],
           scan' \in [Procs -> Sessions \cup {NoSession}],
           UNCHANGED <<lock, lease, history>>
    PROVE  IStep
<1>1. /\ TypeOK'
      /\ \A r \in Sessions : file'[r] \in {file[r], NoFile}
  BY DEF IInv, TypeOK
<1>2. LockHeld' /\ HistoryOnly' /\ NoSecondInvocation'
  BY DEF IInv, LockHeld, Holds, HistoryOnly, NoSecondInvocation
<1>3. FileNamesLease' /\ CredentialBound'
  BY <1>1 DEF IInv, FileNamesLease, CredentialBound, BoundToCredential
<1>4. OwnerCurrent'
  <2> SUFFICES ASSUME NEW u \in Tokens, lease[u].st = "owned",
                      file'[lease[u].session] # NoFile
               PROVE  OwnerMatches(file[lease[u].session], u)'
    BY DEF OwnerCurrent
  <2>1. lease[u] \in Lease /\ lease[u].session \in Sessions
    BY HeldIsLease DEF IInv, Lease
  <2>2. file'[lease[u].session] = file[lease[u].session]
    BY <1>1, <2>1
  <2> QED BY <2>1, <2>2 DEF IInv, OwnerCurrent, OwnerMatches
<1>5. \A r \in Sessions : WriterIsOwner(r)
  BY <1>1 DEF WriterIsOwner
<1> QED BY <1>1, <1>2, <1>3, <1>4, <1>5 DEF IStep, IInv

\* A set of held leases is released, their flocks dropped, and files stay or
\* disappear.
LEMMA LeasesReleased ==
    ASSUME IInv, NEW D \in SUBSET Tokens, \A t \in D : Holds(t),
           lease' = [t \in Tokens |->
                        IF t \in D THEN [lease[t] EXCEPT !.st = "released"]
                                   ELSE lease[t]],
           lock' = [s \in Sessions |-> IF lock[s] \in D THEN NoToken ELSE lock[s]],
           file' \in [Sessions -> File \cup {NoFile}],
           \A s \in Sessions : file'[s] \in {file[s], NoFile},
           fresh' \in [Sessions -> BOOLEAN],
           scan' \in [Procs -> Sessions \cup {NoSession}],
           history' = history
    PROVE  IStep
<1>1. \A t \in D : lease[t] \in Lease
  BY HeldIsLease DEF IInv, Holds
<1>2. \A t \in Tokens :
        /\ lease'[t] \in Lease \cup {NoLease}
        /\ t \in D => /\ lease'[t].st = "released"
                      /\ lease'[t].session = lease[t].session
        /\ t \notin D => lease'[t] = lease[t]
  BY <1>1 DEF IInv, TypeOK, Lease
<1>3. TypeOK'
  BY <1>2 DEF IInv, TypeOK
<1>4. LockHeld'
  <2>1. ASSUME NEW t \in Tokens, Holds(t)' PROVE lock'[lease'[t].session] = t
    <3>1. t \notin D /\ lease'[t] = lease[t] /\ Holds(t)
      BY <1>2, <2>1 DEF Holds
    <3>2. lease[t].session \in Sessions /\ lock[lease[t].session] = t
      BY <3>1, HeldIsLease DEF IInv, LockHeld, Holds, Lease
    <3> QED BY <3>1, <3>2
  <2>2. ASSUME NEW s \in Sessions, lock'[s] # NoToken
        PROVE  Holds(lock[s])' /\ lease'[lock'[s]].session = s
    <3>1. lock'[s] = lock[s] /\ lock[s] \notin D /\ lock[s] # NoToken /\ lock[s] \in Tokens
      BY <2>2 DEF IInv, TypeOK
    <3> QED BY <3>1, <1>2 DEF IInv, LockHeld, Holds
  <2> QED BY <2>1, <2>2 DEF LockHeld
<1>5. FileNamesLease' /\ CredentialBound'
  <2>1. CredentialBound'
    BY DEF IInv, CredentialBound, BoundToCredential
  <2>2. ASSUME NEW s \in Sessions, file'[s] # NoFile
        PROVE  /\ lease'[file'[s].token].st \in {"owned", "released"}
               /\ lease'[file'[s].token].session = s
    <3>1. file'[s] = file[s] /\ file[s].token \in Tokens
      BY <2>2 DEF IInv, TypeOK, File
    <3>2. /\ lease[file[s].token].st \in {"owned", "released"}
          /\ lease[file[s].token].session = s
      BY <2>2, <3>1 DEF IInv, FileNamesLease
    <3> QED BY <1>2, <3>1, <3>2
  <2> QED BY <2>1, <2>2 DEF FileNamesLease
<1>6. OwnerCurrent' /\ NoSecondInvocation'
  <2> SUFFICES ASSUME NEW u \in Tokens, lease'[u].st = "owned"
               PROVE  /\ \/ file'[lease'[u].session] = NoFile
                         \/ OwnerMatches(file[lease[u].session], u)'
                      /\ history'[lease'[u].session] # NoToken =>
                            history'[lease'[u].session] = u
    BY DEF OwnerCurrent, NoSecondInvocation
  <2>1. lease'[u] = lease[u] /\ lease[u].st = "owned"
    BY <1>2
  <2>2. lease[u] \in Lease /\ lease[u].session \in Sessions
    BY <2>1, HeldIsLease DEF IInv, Lease
  <2> QED BY <2>1, <2>2 DEF IInv, OwnerCurrent, OwnerMatches, NoSecondInvocation
<1>7. HistoryOnly' /\ \A s \in Sessions : WriterIsOwner(s)
  BY DEF IInv, HistoryOnly, WriterIsOwner
<1> QED BY <1>3, <1>4, <1>5, <1>6, <1>7 DEF IStep, IInv

\* releaseHandle releases exactly one lease.
LEMMA DropReleasesOne ==
    ASSUME IInv, NEW t \in Tokens, Holds(t), Drop(t)
    PROVE  /\ lease' = [u \in Tokens |->
                           IF u \in {t} THEN [lease[u] EXCEPT !.st = "released"]
                                        ELSE lease[u]]
           /\ lock' = [s \in Sessions |->
                           IF lock[s] \in {t} THEN NoToken ELSE lock[s]]
<1>1. lease[t] \in Lease /\ lease[t].session \in Sessions
  BY HeldIsLease DEF IInv, Holds, Lease
<1>2. \A s \in Sessions : lock[s] = t <=> s = lease[t].session
  BY <1>1, ConstantsAssumption DEF IInv, LockHeld
<1> QED BY <1>1, <1>2 DEF IInv, TypeOK, Drop

\* Releasing one lease keeps the invariant, whether files stay or disappear.
LEMMA DropStep ==
    ASSUME IInv, NEW t \in Tokens, Holds(t), Drop(t),
           file' \in [Sessions -> File \cup {NoFile}],
           \A s \in Sessions : file'[s] \in {file[s], NoFile},
           fresh' \in [Sessions -> BOOLEAN],
           scan' = scan, history' = history
    PROVE  IStep
<1> DEFINE D == {t}
<1>1. D \in SUBSET Tokens /\ \A u \in D : Holds(u)
  OBVIOUS
<1>2. /\ lease' = [u \in Tokens |->
                      IF u \in D THEN [lease[u] EXCEPT !.st = "released"]
                                 ELSE lease[u]]
      /\ lock' = [s \in Sessions |-> IF lock[s] \in D THEN NoToken ELSE lock[s]]
  BY DropReleasesOne
<1>3. scan' \in [Procs -> Sessions \cup {NoSession}]
  BY DEF IInv, TypeOK
<1> HIDE DEF D
<1> QED BY <1>1, <1>2, <1>3, LeasesReleased

\* A free flock is taken.
LEMMA AcquireStep ==
    ASSUME IInv, NEW p \in Procs, NEW s \in Sessions, NEW c \in Creds,
           NEW t \in Tokens, Acquire(p, s, c, t)
    PROVE  IStep
<1> USE DEF Acquire
<1>1. /\ lease'[t] \in Lease /\ lease'[t].st = "claiming"
      /\ lease'[t].session = s
      /\ \A u \in Tokens \ {t} : lease'[u] = lease[u]
      /\ lease[t].st = "unused"
      /\ lock'[s] = t /\ \A r \in Sessions \ {s} : lock'[r] = lock[r]
  BY DEF IInv, TypeOK, Lease, NoLease
<1>2. TypeOK'
  BY <1>1 DEF IInv, TypeOK
<1>3. LockHeld'
  <2>1. ASSUME NEW u \in Tokens, Holds(u)' PROVE lock'[lease'[u].session] = u
    <3>1. CASE u = t
      BY <1>1, <3>1
    <3>2. CASE u # t
      <4>1. lease'[u] = lease[u] /\ Holds(u) /\ lease[u].session \in Sessions
        BY <1>1, <2>1, <3>2, HeldIsLease DEF Holds, IInv, Lease
      <4>2. lock[lease[u].session] = u /\ lease[u].session # s
        BY <4>1, ConstantsAssumption DEF IInv, LockHeld
      <4> QED BY <1>1, <4>1, <4>2
    <3> QED BY <3>1, <3>2
  <2>2. ASSUME NEW r \in Sessions, lock'[r] # NoToken
        PROVE  Holds(lock[r])' /\ lease'[lock'[r]].session = r
    <3>1. CASE r = s
      BY <1>1, <3>1 DEF Holds
    <3>2. CASE r # s
      <4>1. lock'[r] = lock[r] /\ lock[r] \in Tokens /\ Holds(lock[r])
            /\ lease[lock[r]].session = r
        BY <1>1, <2>2, <3>2 DEF IInv, TypeOK, LockHeld
      <4>2. lock[r] # t
        BY <1>1, <4>1 DEF Holds
      <4> QED BY <1>1, <4>1, <4>2 DEF Holds
    <3> QED BY <3>1, <3>2
  <2> QED BY <2>1, <2>2 DEF LockHeld
<1>4. FileNamesLease'
  <2> SUFFICES ASSUME NEW r \in Sessions, file[r] # NoFile
               PROVE  /\ lease'[file[r].token].st \in {"owned", "released"}
                      /\ lease'[file[r].token].session = r
    BY DEF FileNamesLease
  <2>1. /\ file[r].token \in Tokens
        /\ lease[file[r].token].st \in {"owned", "released"}
        /\ lease[file[r].token].session = r
    BY DEF IInv, TypeOK, FileNamesLease, File
  <2> QED BY <1>1, <2>1
<1>5. OwnerCurrent' /\ NoSecondInvocation'
  <2> SUFFICES ASSUME NEW u \in Tokens, lease'[u].st = "owned"
               PROVE  /\ \/ file'[lease'[u].session] = NoFile
                         \/ OwnerMatches(file[lease[u].session], u)'
                      /\ history'[lease'[u].session] # NoToken =>
                            history'[lease'[u].session] = u
    BY DEF OwnerCurrent, NoSecondInvocation
  <2>1. lease'[u] = lease[u]
    BY <1>1
  <2> QED BY <2>1 DEF IInv, OwnerCurrent, OwnerMatches, NoSecondInvocation
<1>6. CredentialBound' /\ HistoryOnly' /\ \A r \in Sessions : WriterIsOwner(r)
  BY DEF IInv, CredentialBound, BoundToCredential, HistoryOnly, WriterIsOwner
<1> QED BY <1>2, <1>3, <1>4, <1>5, <1>6 DEF IStep, IInv

\* A claim commits: the file now names the claiming owner.
LEMMA CommitStep ==
    ASSUME IInv, NEW t \in Tokens, lease[t] # NoLease,
           NEW o \in ClaimOptions(lease[t].session),
           NEW catalog \in BOOLEAN, NEW metered \in BOOLEAN,
           NEW indexed \in BOOLEAN,
           ClaimCommitted(t, o, catalog, metered, indexed)
    PROVE  IStep
<1> DEFINE s   == lease[t].session
           cur == Current(s)
           rec == Claimed(cur, lease[t].cred, o, t, catalog, metered)
<1>1. /\ lease[t] \in Lease /\ s \in Sessions /\ lease[t].cred \in Creds
      /\ lease[t].st = "claiming"
      /\ lock[s] = t
  BY HeldIsLease DEF IInv, ClaimCommitted, Lease, LockHeld, Holds
<1>2. /\ cur \in File \cup {NoFile}
      /\ cur # NoFile => cur = file[s] /\ BoundToCredential(cur)
      /\ fresh[s] => cur = file[s]
  BY <1>1 DEF IInv, TypeOK, Current, CredentialBound
<1>3. ~Refused(cur, lease[t].cred, o)
  BY DEF ClaimCommitted
<1>4. /\ rec \in File /\ rec.token = t /\ rec.cred = lease[t].cred
      /\ BoundToCredential(rec)
      /\ cur # NoFile => rec.gen = cur.gen + 1
  <2> HIDE DEF cur
  <2> QED BY <1>1, <1>2, <1>3, ClaimedRecord
<1> HIDE DEF rec, cur
<1>5. /\ file' = [file EXCEPT ![s] = rec]
      /\ fresh' = [fresh EXCEPT ![s] = TRUE]
      /\ \/ /\ lease' = [lease EXCEPT ![t].st = "owned", ![t].gen = rec.gen]
            /\ lock' = lock
         \/ Drop(t)
      /\ history' = history /\ scan' = scan
  BY DEF ClaimCommitted, rec, cur
<1>6. /\ file'[s] = rec /\ rec # NoFile
      /\ \A r \in Sessions \ {s} : file'[r] = file[r]
  BY <1>1, <1>4, <1>5, NoFileAssumption DEF IInv, TypeOK
<1>7. /\ lease'[t] \in Lease /\ lease'[t].st \in {"owned", "released"}
      /\ lease'[t].session = s /\ lease'[t].cred = lease[t].cred
      /\ lease'[t].st = "owned" => lease'[t].gen = rec.gen /\ lock' = lock
      /\ lease'[t].st = "released" => lock' = [lock EXCEPT ![s] = NoToken]
      /\ \A u \in Tokens \ {t} : lease'[u] = lease[u]
  <2>1. CASE /\ lease' = [lease EXCEPT ![t].st = "owned", ![t].gen = rec.gen]
             /\ lock' = lock
    BY <1>1, <1>4, <2>1 DEF IInv, TypeOK, Lease, File
  <2>2. CASE Drop(t)
    BY <1>1, <2>2 DEF IInv, TypeOK, Lease, Drop
  <2> QED BY <1>5, <2>1, <2>2
<1>8. TypeOK'
  <2>1. lease' \in [Tokens -> Lease \cup {NoLease}] /\ lock' \in [Sessions -> Tokens \cup {NoToken}]
    BY <1>1, <1>5, <1>7 DEF IInv, TypeOK, Drop
  <2> QED BY <1>1, <1>4, <1>5, <2>1 DEF IInv, TypeOK
<1>9. \A u \in Tokens \ {t} : Holds(u) => lease[u].session # s
  BY <1>1 DEF IInv, LockHeld
<1>10. LockHeld'
  <2>1. ASSUME NEW u \in Tokens, Holds(u)' PROVE lock'[lease'[u].session] = u
    <3>1. CASE u = t
      BY <1>1, <1>7, <2>1, <3>1 DEF Holds
    <3>2. CASE u # t
      <4>1. lease'[u] = lease[u] /\ Holds(u) /\ lease[u].session \in Sessions
        BY <1>7, <2>1, <3>2, HeldIsLease DEF Holds, IInv, Lease
      <4>2. lock[lease[u].session] = u /\ lease[u].session # s
        BY <1>9, <3>2, <4>1 DEF IInv, LockHeld
      <4> QED BY <1>7, <4>1, <4>2 DEF IInv, TypeOK
    <3> QED BY <3>1, <3>2
  <2>2. ASSUME NEW r \in Sessions, lock'[r] # NoToken
        PROVE  Holds(lock[r])' /\ lease'[lock'[r]].session = r
    <3>1. CASE r = s
      <4>1. lease'[t].st = "owned" /\ lock'[s] = t
        BY <1>1, <1>7, <2>2, <3>1 DEF IInv, TypeOK
      <4> QED BY <1>7, <3>1, <4>1 DEF Holds
    <3>2. CASE r # s
      <4>1. lock'[r] = lock[r]
        BY <1>7, <3>2 DEF IInv, TypeOK
      <4>2. lock[r] \in Tokens /\ Holds(lock[r]) /\ lease[lock[r]].session = r
        BY <2>2, <4>1 DEF IInv, TypeOK, LockHeld
      <4>3. lock[r] # t
        BY <3>2, <4>2
      <4> QED BY <1>7, <4>1, <4>2, <4>3 DEF Holds
    <3> QED BY <3>1, <3>2
  <2> QED BY <2>1, <2>2 DEF LockHeld
<1>11. FileNamesLease'
  <2> SUFFICES ASSUME NEW r \in Sessions, file'[r] # NoFile
               PROVE  /\ lease'[file'[r].token].st \in {"owned", "released"}
                      /\ lease'[file'[r].token].session = r
    BY DEF FileNamesLease
  <2>1. CASE r = s
    BY <1>4, <1>6, <1>7, <2>1
  <2>2. CASE r # s
    <3>1. /\ file'[r] = file[r] /\ file[r].token \in Tokens
          /\ lease[file[r].token].st \in {"owned", "released"}
          /\ lease[file[r].token].session = r
      BY <1>6, <2>2 DEF IInv, TypeOK, FileNamesLease, File
    <3> QED BY <1>7, <2>2, <3>1
  <2> QED BY <2>1, <2>2
<1>12. OwnerCurrent' /\ NoSecondInvocation'
  <2> SUFFICES ASSUME NEW u \in Tokens, lease'[u].st = "owned"
               PROVE  /\ \/ file'[lease'[u].session] = NoFile
                         \/ OwnerMatches(file[lease[u].session], u)'
                      /\ history'[lease'[u].session] # NoToken =>
                            history'[lease'[u].session] = u
    BY DEF OwnerCurrent, NoSecondInvocation
  <2>1. CASE u = t
    <3>1. OwnerMatches(file[lease[u].session], u)'
      BY <1>4, <1>6, <1>7, <2>1 DEF OwnerMatches
    <3>2. history[s] = NoToken
      BY <1>1 DEF IInv, HistoryOnly, ClaimCommitted, ClaimOptions, HistoryOptions
    <3> QED BY <1>5, <1>7, <2>1, <3>1, <3>2
  <2>2. CASE u # t
    <3>1. lease'[u] = lease[u] /\ lease[u].session \in Sessions
      BY <1>7, <2>2, HeldIsLease DEF IInv, Lease
    <3>2. lease[u].session # s
      BY <1>9, <2>2, <3>1 DEF Holds
    <3>3. file'[lease[u].session] = file[lease[u].session]
      BY <1>6, <3>1, <3>2
    <3> QED BY <1>5, <3>1, <3>3 DEF IInv, OwnerCurrent, OwnerMatches, NoSecondInvocation
  <2> QED BY <2>1, <2>2
<1>13. CredentialBound' /\ HistoryOnly'
  BY <1>4, <1>5, <1>6 DEF IInv, CredentialBound, BoundToCredential, HistoryOnly
<1>14. ASSUME NEW r \in Sessions PROVE WriterIsOwner(r)
  <2>1. CASE r = s
    <3> SUFFICES ASSUME file[s] # NoFile
                 PROVE  /\ rec.token # file[s].token
                        /\ rec.token = lock[s]
                        /\ lease[file[s].token].st = "released"
                        /\ fresh[s] => rec.gen = file[s].gen + 1
      BY <1>6, <2>1 DEF WriterIsOwner
    <3> QED BY <1>1, <1>2, <1>4, ClaimingFencesOwner
  <2>2. CASE r # s
    BY <1>6, <2>2 DEF WriterIsOwner
  <2> QED BY <2>1, <2>2
<1> QED BY <1>8, <1>10, <1>11, <1>12, <1>13, <1>14 DEF IStep, IInv

-----------------------------------------------------------------------------
(***************************************************************************)
(* The theorems.                                                           *)
(***************************************************************************)

\* Initially nothing is stored and nothing is leased.
LEMMA InitIInv == Init => IInv
<1> SUFFICES ASSUME Init PROVE IInv
  OBVIOUS
<1>1. TypeOK
  BY DEF Init, TypeOK
<1>2. \A t \in Tokens : lease[t].st = "unused"
  BY DEF Init, NoLease
<1>3. LockHeld /\ OwnerCurrent /\ NoSecondInvocation
  BY <1>2 DEF Init, LockHeld, Holds, OwnerCurrent, NoSecondInvocation
<1>4. FileNamesLease /\ CredentialBound /\ HistoryOnly
  BY DEF Init, FileNamesLease, CredentialBound, HistoryOnly
<1> QED BY <1>1, <1>3, <1>4 DEF IInv

\* Every step of Claim keeps the invariant.
LEMMA ClaimSteps ==
    ASSUME IInv, NEW t \in Tokens, ClaimStep(t)
    PROVE  IStep
<1>1. CASE \E p \in Procs, s \in Sessions, c \in Creds : Acquire(p, s, c, t)
  BY <1>1, AcquireStep
<1>2. CASE ClaimReplay(t)
  <2>1. Holds(t) /\ Drop(t)
    BY <1>2 DEF ClaimReplay, Holds
  <2>2. UNCHANGED <<file, fresh, history, scan>>
    BY <1>2 DEF ClaimReplay
  <2> QED BY <2>1, <2>2, DropStep DEF IInv, TypeOK
<1>3. ASSUME NEW o \in ClaimOptions(lease[t].session), ClaimRefused(t, o)
      PROVE  IStep
  <2> DEFINE s == lease[t].session
  <2>1. Holds(t) /\ Drop(t) /\ s \in Sessions
    BY <1>3, HeldIsLease DEF ClaimRefused, Holds, IInv, Lease
  <2>2. /\ file' \in [Sessions -> File \cup {NoFile}]
        /\ \A r \in Sessions : file'[r] \in {file[r], NoFile}
    BY <1>3, <2>1 DEF ClaimRefused, Current, IInv, TypeOK
  <2>3. /\ fresh' \in [Sessions -> BOOLEAN]
        /\ history' = history /\ scan' = scan
    BY <1>3, <2>1 DEF ClaimRefused, IInv, TypeOK
  <2> QED BY <2>1, <2>2, <2>3, DropStep
<1> QED BY <1>1, <1>2, <1>3, CommitStep DEF ClaimStep

\* Every operation of an owner keeps the invariant.
LEMMA OwnerSteps ==
    ASSUME IInv, NEW t \in Tokens, OwnerStep(t)
    PROVE  IStep
<1> DEFINE s == lease[t].session
<1>1. CASE Release(t)
  <2>1. Holds(t) /\ Drop(t) /\ UNCHANGED <<file, fresh, history, scan>>
    BY <1>1 DEF Release, Holds
  <2> QED BY <2>1, DropStep DEF IInv, TypeOK
<1>2. ASSUME MayUpdate(t)
      PROVE  /\ s \in Sessions /\ file[s] \in File /\ BoundToCredential(file[s])
             /\ lease[t].cred = file[s].cred /\ lease[t].cred \in Creds
  BY <1>2, HeldIsLease DEF MayUpdate, OwnerMatches, IInv, TypeOK, Lease, CredentialBound
<1>3. CASE SaveCheckpoint(t)
  <2> DEFINE rec == [file[s] EXCEPT !.ckpt = lease[t].cred]
  <2>1. MayUpdate(t) /\ Write(s, rec) /\ UNCHANGED <<lock, lease, history, scan>>
    BY <1>3 DEF SaveCheckpoint
  <2>2. /\ rec \in File /\ BoundToCredential(rec) /\ rec.token = file[s].token
        /\ rec.gen = file[s].gen /\ rec.cred = file[s].cred
    BY <1>2, <2>1 DEF File, BoundToCredential
  <2>3. file' = [file EXCEPT ![s] = rec] /\ fresh' \in [Sessions -> BOOLEAN]
    BY <1>2, <2>1, <2>2 DEF Write, Refreshes, File, IInv, TypeOK
  <2> HIDE DEF rec
  <2> QED BY <2>1, <2>2, <2>3, OwnerWrites
<1>4. ASSUME NEW pending \in SUBSET Tools, SavePending(t, pending)
      PROVE  IStep
  <2> DEFINE rec == [file[s] EXCEPT
                        !.batch = NextBatch(file[s], pending),
                        !.pending = pending,
                        !.pendBy = IF pending = {} THEN NoCred ELSE lease[t].cred]
  <2>1. MayUpdate(t) /\ Write(s, rec) /\ UNCHANGED <<lock, lease, history, scan>>
    BY <1>4 DEF SavePending
  <2>2. NextBatch(file[s], pending) \in SUBSET Tools
    BY <1>2, <2>1 DEF NextBatch, File
  <2>3. /\ rec \in File /\ BoundToCredential(rec) /\ rec.token = file[s].token
        /\ rec.gen = file[s].gen /\ rec.cred = file[s].cred
    BY <1>2, <2>1, <2>2 DEF File, BoundToCredential
  <2>4. file' = [file EXCEPT ![s] = rec] /\ fresh' \in [Sessions -> BOOLEAN]
    BY <1>2, <2>1, <2>3 DEF Write, Refreshes, File, IInv, TypeOK
  <2> HIDE DEF rec
  <2> QED BY <2>1, <2>3, <2>4, OwnerWrites
<1>5. ASSUME NEW some \in BOOLEAN, SaveUsageCarry(t, some)
      PROVE  IStep
  <2> DEFINE rec == [file[s] EXCEPT !.carry = IF some THEN lease[t].cred ELSE NoCred]
  <2>1. MayUpdate(t) /\ Write(s, rec) /\ UNCHANGED <<lock, lease, history, scan>>
    BY <1>5 DEF SaveUsageCarry
  <2>2. /\ rec \in File /\ BoundToCredential(rec) /\ rec.token = file[s].token
        /\ rec.gen = file[s].gen /\ rec.cred = file[s].cred
    BY <1>2, <2>1 DEF File, BoundToCredential
  <2>3. file' = [file EXCEPT ![s] = rec] /\ fresh' \in [Sessions -> BOOLEAN]
    BY <1>2, <2>1, <2>2 DEF Write, Refreshes, File, IInv, TypeOK
  <2> HIDE DEF rec
  <2> QED BY <2>1, <2>2, <2>3, OwnerWrites
<1>6. CASE SetBillingRunID(t)
  <2>1. MayUpdate(t) /\ Write(s, file[s]) /\ UNCHANGED <<lock, lease, history, scan>>
    BY <1>6 DEF SetBillingRunID
  <2>2. file' = [file EXCEPT ![s] = file[s]] /\ fresh' \in [Sessions -> BOOLEAN]
    BY <1>2, <2>1 DEF Write, Refreshes, File, IInv, TypeOK
  <2> QED BY <1>2, <2>1, <2>2, OwnerWrites
<1>7. ASSUME NEW ephemeral \in BOOLEAN, SaveCompleted(t, ephemeral)
      PROVE  IStep
  <2> DEFINE done == ephemeral /\ file[s].pending = {}
             rec  == [file[s] EXCEPT !.ephemeral = @ \/ done]
  <2>1. MayUpdate(t) /\ UNCHANGED <<lock, lease, history, scan>>
    BY <1>7 DEF SaveCompleted
  <2>2. /\ rec \in File /\ BoundToCredential(rec) /\ rec.token = file[s].token
        /\ rec.gen = file[s].gen /\ rec.cred = file[s].cred
    BY <1>2, <2>1 DEF File, BoundToCredential
  <2>3. file' = [file EXCEPT ![s] = rec] /\ fresh' \in [Sessions -> BOOLEAN]
    BY <1>2, <1>7, <2>1, <2>2 DEF SaveCompleted, Refreshes, File, IInv, TypeOK
  <2> HIDE DEF rec
  <2> QED BY <2>1, <2>2, <2>3, OwnerWrites
<1>8. CASE SaveHistory(t)
  <2>1. MayUpdate(t) /\ s \in HistorySessions /\ UNCHANGED <<lock, lease, scan>>
    BY <1>8 DEF SaveHistory
  <2>2. CASE history[s] # NoToken
    <3>1. file' = [file EXCEPT ![s] = file[s]] /\ fresh' \in [Sessions -> BOOLEAN]
          /\ history' = history
      BY <1>2, <1>8, <2>1, <2>2 DEF SaveHistory, Write, Refreshes, File, IInv, TypeOK
    <3> QED BY <1>2, <2>1, <3>1, OwnerWrites
  <2>3. CASE history[s] = NoToken
    <3> DEFINE rec == [file[s] EXCEPT !.ckpt = NoCred, !.pending = {}, !.batch = {},
                                      !.pendBy = NoCred, !.ephemeral = TRUE]
    <3>1. /\ rec \in File /\ BoundToCredential(rec) /\ rec.token = file[s].token
          /\ rec.gen = file[s].gen /\ rec.cred = file[s].cred
      BY <1>2, <2>1 DEF File, BoundToCredential
    <3>2. file' = [file EXCEPT ![s] = rec] /\ fresh' \in [Sessions -> BOOLEAN]
          /\ history' = [history EXCEPT ![s] = t]
      BY <1>2, <1>8, <2>1, <2>3 DEF SaveHistory, IInv, TypeOK
    <3> HIDE DEF rec
    <3> QED BY <2>1, <3>1, <3>2, OwnerWrites
  <2> QED BY <2>2, <2>3
<1>9. CASE Delete(t)
  <2>1. s \in Sessions
    BY <1>2, <1>9 DEF Delete
  <2>2. /\ file' = [file EXCEPT ![s] = NoFile] /\ fresh' \in [Sessions -> BOOLEAN]
        /\ UNCHANGED <<lock, lease, history, scan>>
    BY <1>9, <2>1 DEF Delete, IInv, TypeOK
  <2> QED BY <2>1, <2>2, FileRemoved DEF IInv, TypeOK
<1> QED BY <1>1, <1>3, <1>4, <1>5, <1>6, <1>7, <1>8, <1>9 DEF OwnerStep

\* Deletion, expiry, garbage collection and crashes keep the invariant.
LEMMA StoreSteps ==
    ASSUME IInv, StoreStep
    PROVE  IStep
<1>1. ASSUME NEW s \in Sessions, NEW c \in Creds, DeleteSession(s, c)
      PROVE  IStep
  <2>1. /\ file' = [file EXCEPT ![s] = NoFile] /\ fresh' \in [Sessions -> BOOLEAN]
        /\ UNCHANGED <<lock, lease, history, scan>>
    BY <1>1 DEF DeleteSession, IInv, TypeOK
  <2> QED BY <2>1, FileRemoved DEF IInv, TypeOK
<1>2. ASSUME NEW s \in Sessions, Expire(s)
      PROVE  IStep
  <2>1. /\ UNCHANGED <<file, lock, lease, history, scan>>
        /\ fresh' \in [Sessions -> BOOLEAN]
    BY <1>2 DEF Expire, IInv, TypeOK
  <2> QED BY <2>1, QuietStep DEF IInv, TypeOK
<1>3. ASSUME NEW s \in Sessions, ExpireHistory(s)
      PROVE  IStep
  <2>1. /\ UNCHANGED <<file, fresh, lock, lease, scan>>
        /\ history' \in [Sessions -> Tokens \cup {NoToken}]
        /\ \A r \in Sessions : history'[r] \in {history[r], NoToken}
    BY <1>3 DEF ExpireHistory, IInv, TypeOK
  <2> QED BY <2>1, QuietStep DEF IInv, TypeOK
<1>4. ASSUME NEW p \in Procs, NEW s \in Sessions, PruneScan(p, s)
      PROVE  IStep
  <2>1. /\ UNCHANGED <<file, fresh, lock, lease, history>>
        /\ scan' \in [Procs -> Sessions \cup {NoSession}]
    BY <1>4 DEF PruneScan, IInv, TypeOK
  <2> QED BY <2>1, QuietStep DEF IInv, TypeOK
<1>5. ASSUME NEW p \in Procs, PruneRemove(p)
      PROVE  IStep
  <2>1. scan[p] \in Sessions
    BY <1>5 DEF PruneRemove, IInv, TypeOK
  <2>2. /\ file' \in {file, [file EXCEPT ![scan[p]] = NoFile]}
        /\ fresh' \in [Sessions -> BOOLEAN]
        /\ scan' \in [Procs -> Sessions \cup {NoSession}]
        /\ UNCHANGED <<lock, lease, history>>
    BY <1>5, <2>1 DEF PruneRemove, IInv, TypeOK
  <2> QED BY <2>1, <2>2, FileRemoved
<1>6. ASSUME NEW p \in Procs, Crash(p)
      PROVE  IStep
  <2> DEFINE D == {t \in Tokens : Holds(t) /\ lease[t].proc = p}
  <2>1. /\ lease' = [t \in Tokens |->
                        IF t \in D THEN [lease[t] EXCEPT !.st = "released"]
                                   ELSE lease[t]]
        /\ lock' = [s \in Sessions |-> IF lock[s] \in D THEN NoToken ELSE lock[s]]
        /\ scan' \in [Procs -> Sessions \cup {NoSession}]
        /\ UNCHANGED <<file, fresh, history>>
    BY <1>6 DEF Crash, IInv, TypeOK
  <2>2. D \in SUBSET Tokens /\ \A t \in D : Holds(t)
    OBVIOUS
  <2> HIDE DEF D
  <2> QED BY <2>1, <2>2, LeasesReleased DEF IInv, TypeOK
<1> QED BY <1>1, <1>2, <1>3, <1>4, <1>5, <1>6 DEF StoreStep

\* The invariant is inductive, and every step respects the fencing.
LEMMA NextIStep == IInv /\ [Next]_vars => IInv' /\ [\A s \in Sessions : WriterIsOwner(s)]_vars
<1> SUFFICES ASSUME IInv, [Next]_vars
             PROVE  IInv' /\ [\A s \in Sessions : WriterIsOwner(s)]_vars
  OBVIOUS
<1>1. CASE Next
  <2>1. IStep
    BY <1>1, ClaimSteps, OwnerSteps, StoreSteps DEF Next
  <2> QED BY <2>1 DEF IStep
<1>2. CASE UNCHANGED vars
  <2>1. IStep
    BY <1>2, QuietStep DEF vars, IInv, TypeOK
  <2> QED BY <1>2, <2>1 DEF IStep
<1> QED BY <1>1, <1>2

\* The inductive invariant holds throughout every behaviour of the store.
THEOREM Invariance == Spec => []IInv
<1> QED BY InitIInv, NextIStep, PTL DEF Spec

\* Every file, flock, lease, snapshot and scan of the store keeps its shape.
THEOREM TypeCorrect == Spec => []TypeOK
<1>1. IInv => TypeOK
  BY DEF IInv
<1> QED BY <1>1, Invariance, PTL

\* Mutual exclusion of acquireLease/releaseHandle across processes and
\* crashes: no session ever has two held leases.
THEOREM Exclusive == Spec => []OneLiveOwner
<1>1. IInv => OneLiveOwner
  BY LockHeldUnique DEF IInv
<1> QED BY <1>1, Invariance, PTL

\* The fencing token and the lease agree: ownerMatches never rejects an owner
\* whose handle is live.
THEOREM LiveOwnerIsCurrent == Spec => []OwnerCurrent
<1>1. IInv => OwnerCurrent
  BY DEF IInv
<1> QED BY <1>1, Invariance, PTL

\* Claim never lets one credential read what another saved.
THEOREM CredentialsIsolated == Spec => []CredentialBound
<1>1. IInv => CredentialBound
  BY DEF IInv
<1> QED BY <1>1, Invariance, PTL

\* A history request is not run again while its committed snapshot lives.
THEOREM HistoryRunsOnce == Spec => []NoSecondInvocation
<1>1. IInv => NoSecondInvocation
  BY DEF IInv
<1> QED BY <1>1, Invariance, PTL

\* A retired owner never writes: every rewrite of a state file is by its live
\* owner or by the claim that succeeds a retired one.
THEOREM Fencing == Spec => OnlyOwnerWrites
<1> QED BY Invariance, NextIStep, PTL DEF Spec, OnlyOwnerWrites

\* A claim of an unexpired ordinary session keeps its pending tools: the only
\* options that accept pending tools refuse another credential.
LEMMA ClaimKeepsPending ==
    ASSUME NEW s \in Sessions \ HistorySessions, NEW o \in ClaimOptions(s),
           NEW cur, cur # NoFile, NEW c, NEW t, NEW catalog, NEW metered,
           cur.pending # {}, ~Refused(cur, c, o)
    PROVE  Claimed(cur, c, o, t, catalog, metered).pending = cur.pending
<1>1. o.allowPending /\ (cur.cred = c \/ o.allowCred)
  BY DEF Refused
<1>2. ~o.history /\ (o.allowPending => ~o.allowCred)
  BY DEF ClaimOptions, StartOptions, ResumeOptions, FollowUpOptions, Options
<1> QED BY <1>1, <1>2 DEF Claimed

\* Who takes away or changes the pending tools of an unexpired session.
LEMMA PendingChanges ==
    ASSUME IInv, Next, NEW s \in Sessions \ HistorySessions,
           file[s] # NoFile, fresh[s], file[s].pending # {},
           file'[s] # NoFile, file'[s].pending # file[s].pending
    PROVE  lease[file[s].token].st = "owned"
<1>1. ASSUME NEW t \in Tokens, OwnerStep(t) PROVE lease[file[s].token].st = "owned"
  <2>1. UNCHANGED file \/ MayUpdate(t)
    BY <1>1 DEF OwnerStep, SaveCheckpoint, SavePending, SaveUsageCarry, SetBillingRunID,
                SaveCompleted, SaveHistory, Delete, Release
  <2>2. MayUpdate(t)
    BY <2>1
  <2>3. lease[t].session \in Sessions
    BY <2>2, HeldIsLease DEF MayUpdate, IInv, Lease
  <2>4. s # lease[t].session => file'[s] = file[s]
    BY <1>1, <2>3 DEF OwnerStep, SaveCheckpoint, SavePending, SaveUsageCarry, SetBillingRunID,
                      SaveCompleted, SaveHistory, Delete, Release, Write, IInv, TypeOK
  <2> QED BY <2>2, <2>4 DEF MayUpdate, OwnerMatches
<1>2. ASSUME NEW t \in Tokens, ClaimStep(t) PROVE FALSE
  <2>1. CASE \E p \in Procs, x \in Sessions, c \in Creds : Acquire(p, x, c, t)
    BY <2>1 DEF Acquire
  <2>2. CASE ClaimReplay(t)
    BY <2>2 DEF ClaimReplay
  <2>3. ASSUME NEW o \in ClaimOptions(lease[t].session), lease[t].session \in Sessions,
               ClaimRefused(t, o)
        PROVE  FALSE
    BY <2>3 DEF ClaimRefused, Current, IInv, TypeOK
  <2>4. ASSUME NEW o \in ClaimOptions(lease[t].session), lease[t].session \in Sessions,
               NEW catalog \in BOOLEAN, NEW metered \in BOOLEAN, NEW indexed \in BOOLEAN,
               ClaimCommitted(t, o, catalog, metered, indexed)
        PROVE  FALSE
    <3> DEFINE rec == Claimed(Current(lease[t].session), lease[t].cred, o, t, catalog, metered)
    <3>1. /\ file' = [file EXCEPT ![lease[t].session] = rec]
          /\ ~Refused(Current(lease[t].session), lease[t].cred, o)
      BY <2>4 DEF ClaimCommitted
    <3>2. lease[t].session = s
      BY <2>4, <3>1 DEF IInv, TypeOK
    <3>3. Current(s) = file[s]
      BY DEF Current
    <3>4. rec.pending = file[s].pending
      BY <3>1, <3>2, <3>3, ClaimKeepsPending
    <3> HIDE DEF rec
    <3> QED BY <3>1, <3>2, <3>4 DEF IInv, TypeOK
  <2> QED BY <1>2, <2>1, <2>2, <2>3, <2>4 DEF ClaimStep
<1>3. ASSUME StoreStep PROVE FALSE
  <2>1. ASSUME NEW x \in Sessions, NEW c \in Creds, DeleteSession(x, c) PROVE FALSE
    BY <2>1 DEF DeleteSession, IInv, TypeOK
  <2>2. ASSUME NEW p \in Procs, PruneRemove(p) PROVE FALSE
    BY <2>2 DEF PruneRemove, IInv, TypeOK
  <2> QED BY <1>3, <2>1, <2>2 DEF StoreStep, Expire, ExpireHistory, PruneScan, Crash
<1> QED BY <1>1, <1>2, <1>3 DEF Next

\* No claim of any kind drops the parked tool calls of an unexpired ordinary
\* session; only its live owner changes them.
THEOREM ParkedToolsKept == Spec => ParkedToolsSurviveClaims
<1> DEFINE Keep == \A s \in Sessions \ HistorySessions :
                     /\ file[s] # NoFile /\ fresh[s] /\ file[s].pending # {}
                     /\ file'[s] # NoFile /\ file'[s].pending # file[s].pending
                     => lease[file[s].token].st = "owned"
<1>1. IInv /\ [Next]_vars => [Keep]_vars
  BY PendingChanges
<1> QED BY <1>1, Invariance, PTL DEF Spec, ParkedToolsSurviveClaims

\* pruneExpired never removes a state that was renewed after its first,
\* unlocked look: the file it removes is expired when it is removed.
THEOREM RenewedIsSpared == Spec => GCSparesRenewed
<1> DEFINE Spare == \A p \in Procs : \A s \in Sessions :
                      /\ scan[p] = s /\ scan'[p] = NoSession
                      /\ file[s] # NoFile /\ file'[s] = NoFile
                      => ~fresh[s]
<1>1. ASSUME IInv, Next, NEW p \in Procs, NEW s \in Sessions,
             scan[p] = s, scan'[p] = NoSession, file[s] # NoFile, file'[s] = NoFile
      PROVE  ~fresh[s]
  <2>1. s # NoSession /\ scan \in [Procs -> Sessions \cup {NoSession}]
        /\ file \in [Sessions -> File \cup {NoFile}]
    BY <1>1, ConstantsAssumption DEF IInv, TypeOK
  <2>2. ASSUME NEW t \in Tokens, ClaimStep(t) \/ OwnerStep(t) PROVE FALSE
    <3>1. scan' = scan
      BY <2>2 DEF ClaimStep, Acquire, ClaimReplay, ClaimRefused, ClaimCommitted,
                  OwnerStep, SaveCheckpoint, SavePending, SaveUsageCarry, SetBillingRunID,
                  SaveCompleted, SaveHistory, Delete, Release
    <3> QED BY <1>1, <2>1, <3>1
  <2>3. ASSUME NEW x \in Sessions,
               (\E c \in Creds : DeleteSession(x, c)) \/ Expire(x) \/ ExpireHistory(x)
        PROVE  FALSE
    BY <1>1, <2>1, <2>3 DEF DeleteSession, Expire, ExpireHistory
  <2>4. ASSUME NEW q \in Procs, (\E x \in Sessions : PruneScan(q, x)) \/ Crash(q) PROVE FALSE
    BY <1>1, <2>1, <2>4 DEF PruneScan, Crash
  <2>5. ASSUME NEW q \in Procs, PruneRemove(q) PROVE ~fresh[s]
    BY <1>1, <2>1, <2>5 DEF PruneRemove
  <2> QED BY <1>1, <2>2, <2>3, <2>4, <2>5 DEF Next, StoreStep
<1>2. IInv /\ [Next]_vars => [Spare]_vars
  BY <1>1
<1> QED BY <1>2, Invariance, PTL DEF Spec, GCSparesRenewed
=============================================================================
