# Verification of cursor-agent2api

TLA+ models of the stateful core of `cursoragentv1/`: the session files a
gateway keeps on disk and the index that finds them, the manager that runs
turns in memory, the HTTP requests that drive both, the two runners that speak
to the upstream, the projection of their events into the client's protocol, and
the credentials a run is started with. TLC checks them on small instances, and
TLAPS proves the safety properties of all of them for every value of the
constants.

## The system

A client sends a chat turn. The executor translates it, the session manager
claims the session on disk and starts a run of Cursor's Agent v1 protocol. The
run may ask for tools of the client: the turn is then *parked* (the response
ends, the run stays open, the pending tool calls are saved) and a later request
with the tool results resumes it. That later request carries only tool ids, may
be a duplicate, may carry a new user text (a *follow-up*, run as a second turn
after the tools completed), may arrive when the process that parked the turn is
gone (*cold* resume from the saved checkpoint), and its client may leave at any
moment.

| Component (source) | State | Operations | What makes it correct |
|---|---|---|---|
| State store (`state.go`) | one JSON file per session, its flock, owner token and generation, pending index | Claim, SaveCheckpoint, SavePending, SaveUsageCarry, SaveFollowUp, SetBillingRunID, Delete, Release, DeleteSession, pruneExpired, ResolvePending | one owner per session across processes and crashes; only the owner writes; nothing crosses accounts; parked tools are not lost |
| Snapshots (`completed_state.go`, `completed_request.go`, `segment.go`) | tombstones of completed turns by tool batch and follow-up, or by history key | SaveCompleted, LookupCompleted, SaveHistory, LookupHistory | a retry gets the answer that was given, and no second invocation |
| Session manager (`manager.go`, `manager_history.go`) | `active`, `starting`, `flights`; per session output, pending tools, segment | Start, StartHistory, ResumeTools, StartFollowUp, Park, Cancel, the run goroutine | one live run per session; persistence before publication; every output closed, every waiter answered |
| Executor (`executor.go`) | per request | prepare, bootstrap, continueStream, Execute, maybeChainFollowUp, Refresh | a leaving client takes down its own turn only, and never a parked one |
| Pending index (`state.go`) | an index file per batch of tool ids, a pointer file per tool id, a lock per batch | syncPendingIndex, mutatePendingIndex, ResolvePending, rebuildPendingIndex | a parked session is found by its ids, whatever stopped half-way |
| Agent v1 runner (`runner.go`, `profile_runner.go`) | pending calls, queued results, park signal, announced calls, hosted calls, KV blobs | the select loop: context, idle timer, results, frames | every call is handed over and answered once; a turn completes with nothing open; a silent upstream does not hold it |
| Sand runner (`inference_*.go`) | the segment: history, open calls, hosted calls, use counters | prepare, post, stream, hosted calls, checkpoint, continue | as above; a call is in the checkpoint before the client has it |
| Projection and usage (`project_*.go`, `usage_observation.go`, `completed_events.go`) | open blocks, stored blocks, calls, usage facts; the manager's event snapshot | handle, toolHandoff, nonStream, append | a well-formed stream with all the text; body, stream and replay agree |
| Credentials (`server_config.go`, `Refresh` in `executor.go`) | identity and endpoint caches, shared flights | validateCursorCredentialIdentity, Refresh, resolveCursorAgentBaseURL | a run has a live token of the identity its credential names |
| Transport (`stream.go`, `connect.go`) | one HTTP/2 stream | | |
| Codecs, translation (`wire.go`, `protocol.go`, `media.go`, `translate.go`, `full_history.go`) | none | pure conversions | |
| Plugin ABI, helpers, deployment | none | | |

Components interact by calls under three kinds of lock: the flock of a session
(processes), `m.mu` (the manager's maps) and `s.mu` (one managed session).
`Park`, `resume` and `Cancel` drop their locks around store writes; `run()` is a
goroutine of its own that calls `handleEvent` from the runner. These gaps are
where the hard behaviours live, and `PROJECT.json` lists each as a hazard at its
line.

## Modules

**StateStore** models the session files. `file[s]` is what the JSON says (with
checkpoint, pending tools and usage carry abstracted to the credential they
were saved under), `fresh[s]` whether its TTL has not passed, `lock[s]` the
flock, `lease[t]` the `OwnerLease` named by owner token `t`, `history[s]` the
committed snapshot of a full-history request, `scan[p]` the file that process
`p`'s `pruneExpired` read as expired before it takes its lease. `Claim` is two
steps, `Acquire` (the flock) and one of `ClaimReplay`, `ClaimRefused`,
`ClaimCommitted` (everything under the flock: removal of an expired file, the
refusals in the order of the code, the wipe of a cold rebuild, billing, catalog,
write; `indexed = FALSE` is the failed index write after the state write). Each
owner operation is one action guarded by `MayUpdate` (`withOwner`, `update`).
`Crash(p)` drops the flocks of a process. Lease tokens are never reused.

**SessionManager** (EXTENDS StateStore) is one process' manager. A managed
session is named by the token of its claim, an output and a flight by the
request that created it. One step is one critical section or one store call:
`resume` is `ResumeChecks`, `ResumeBilling`, `ResumeAttach`, `ResumePush`; `run()`
is `RunReturns`, `RunCloses`, `RunSaves`, `RunLands` (finishFlight), `RunDeletes`,
`RunReleases`, `RunRetires`, `RunDelivers`; `Park` is `Park` (both locks held),
`ParkSaves`, `ParkLands`, `ParkCloses`; `Cancel` is `Cancel`, `CancelDeletes`,
`CancelStops`, `CancelReleases`. Store writes may fail, the two `Delete`s whose
error the code drops (`RunDeletes`, `CancelDeletes`) included, and the terminal
send may find the output's buffer full (`RunDelivers`). What the runner does is bounded by what the manager sees: a new tool
call, a turn boundary with tools pending, an accepted result, the end.

**Executor** (EXTENDS SessionManager) adds the life of a request: `BeginStart`,
`BeginResume` (any non-empty set of tool calls that clients were shown),
`Fallback` (prepare's new turn after `ErrSessionNotPending`), reading and draining
an output, parking at the boundary, cancelling when the client goes away.
`ExecutorSpec` is the composition of all three; `ImplementsStore` states that it
implements `StateStore!Spec` (same variables, identity mapping): every step of
manager, requests and restarts is a store operation with the options the code
passes, or leaves the store alone.

**PendingIndex** is the index beside the state files, which StateStore and
SessionManager take to agree with them. `state[s]` has the pending tools and the
original batch of a session, `index[b]` the sessions in the file of batch `b`,
`pointer[t]` the batch in the file of tool `t`, `holder[b]` the batch's lock. An
operation (`Claim`, `SavePending`, `Delete`, `SaveHistory`) writes the state
file and leaves the `mutatePendingIndex` calls that follow as `tasks`. What
`SavePending` is given are the tools `handleEvent` and `Park` hold in memory
(`StillPending`): a call is added there without a save (`manager.go:723`) and an
accepted result is saved at once (`manager.go:735-739`), so since the last save at
most one tool has gone and any number may have come, in one save. `Begin` and
`Pointer` work through them one file at a time, and `Stop` ends an actor's work
anywhere (lock contention, I/O error, crash). `ReadIndex`, `ReadState`,
`ReadPointer` are the unlocked reads of `ResolvePending`, `RebuildOne` those of
`rebuildPendingIndex`. Sessions hold their flock until their index is in step, so
one session is one actor.

**AgentTurn** is the abstract specification of a run (`runEngine`): the events it
may emit and when it may complete. **Runner** is the select loop of `runner.go`,
one action per case and per kind of frame, **SandRunner** the segments of
`inference_runner.go`, **ProfileRunner** the dispatch between them over the
variables both share. `ImplementsAgentTurn` is the refinement
(`INSTANCE AgentTurn WITH handoff <- req.history, st <- ...`): the two runners,
which keep different books, complete under the same conditions. AgentTurn is
what the upstream steps of SessionManager assume of a run.

**ResponseStream** is the abstract specification of a streaming response.
**Projection** is `claudeProjection` as a record `p` with one function per method;
a method appends chunks to `p.out` and `Deliver` hands them to the client
(`phase`, `items`) one at a time. `snap` is the manager's event snapshot.
`ImplementsResponseStream` is the refinement. Chat is the Claude stream passed
through a translation library, so it follows the Claude rules except for
thinking.

**Credentials** is what happens before a run: the identity check with its
cache, `Refresh` with its shared flight, the endpoint lookup with its own flight
and cache. Callers may leave while they select on a flight; a clock ages tokens
and cache entries. A token is its subject and expiry; what the upstream mints
is any token or an error.

**MCStateStore**, **MCExecutor**, **MCProfileRunner**, **MCPendingIndex**,
**MCCredentials** instantiate for TLC (Projection needs no module of its own).
**StateStoreProofs**, **PendingIndexProofs**, **ExecutorProofs**,
**RunnerProofs**, **CredentialsProofs** and **ProjectionProofs** hold the theorems
about the modules they are named after, **FollowUpProofs** those about follow-ups
in SessionManager and Executor, **SumTheorems** what the others need to know of
sums over finite functions. Operators introduced by a comment "Mutant of X" are
wrong variants of X, used only to show that a property notices the mistake.

## Runs

Bounds: the sets of processes, sessions, credentials, owner tokens (= claims in
a behaviour), tools and requests; `MaxPending`; `Starters` (requests that start
turns; the others submit results), `Leavers` (requests whose client may go
away), `MayRestart`. Every request is issued at most once and every tool called
at most once. Deadlock checking is off because a finite set of requests ends
(and in the store, a finite set of tokens).

| Run | Instance | Shows |
|---|---|---|
| store_ordinary | 2 processes, 1 session, 2 credentials, 3 claims, 1 tool | `TypeOK`, `OneLiveOwner`, `OwnerCurrent`, `CredentialBound`, `OnlyOwnerWrites`, `GCSparesRenewed`, `ParkedToolsSurviveClaims` |
| store_history | 2 processes, 1 history key, 3 claims | `NoSecondInvocation` |
| exec_resume | 1 turn, 2 tools, 2 submissions, 2 claims | `ManagerTypeOK`, `DoneAfterSaved` |
| exec_refines | 1 turn, 1 submission with or without follow-up, 2 tools, metering, deletion, restarts | `IdleAfterRelease`, `ImplementsStore` |
| exec_follow_up | 1 turn, 2 submissions with or without the follow-up, 3 claims | `FollowUpRunsOnce` |
| exec_history | 2 requests with one history key, with fairness | `HistoryAnsweredOnce`, `OneUncancelledRun`, `RequestsFinish` |
| exec_fair | 1 turn, 1 submission, 3 claims, with fairness | `RequestsFinish`, `OutputsClose` |
| runners | 9 kinds of request, 2 calls, 2 hosted calls, 2 blobs, 6 frames, with fairness | `ProfileTypeOK`, `SerialCallsTold`, `NoResultWaitsForItsCall`, `NoVanishedCall`, `BlobAccounting`, `ToldCallsRecoverable`, `ImplementsAgentTurn`, `SilentRunEnds` |
| pending_index | 2 sessions, 2 tools of which one id is shared, 1 resolver, 1 restart, 1 stop | `TypeOK`, `Findable`, `ResolveFinds`, `BatchPointersLead` |
| projection | 3 protocols, 5 events, 1 call, 1 hosted call | `TypeOK`, `TextOnce`, `BodyHasStreamedItems`, `ReplayIsSame`, `SnapshotBytes`, `ImplementsResponseStream` |
| credentials | 2 callers, 6 forms of one credential, 2 subjects, 3 instants, with fairness | `TypeOK`, `RunsAsConfigured`, `CachedTokenLasts`, `EveryRequestEnds` |
| parked_batch | 1 turn, 1 submission with or without follow-up, 2 tools | `DisconnectKeepsParkedBatch` is violated, see below |

Three claims are an owner, one that replaces it and one that replaces that one;
sessions share nothing in the store, so one is enough there, and fencing needs
two processes. Two tools make every shape of batch (one, both, one after the
other), two submissions every race of duplicates. In the composition one
session means that `ErrPendingAmbiguous` (ids that cover two sessions' batches)
does not happen. Tokens are handed out in a fixed order there and requests that
submit results are symmetric; runs of liveness properties use no symmetry.

Six frames are enough for two calls with announcement, exec and answer, a
turn boundary and a trailer in any order. The Sand requests of that run have one
caller tool per turn (see SandParallel below), as many hosted calls as the limits
allow and one more; the gateway's own limit is 2, and the limits a request states
differ for search and fetch, below and above that. In the index two tools make a batch that shrinks, grows and
is replaced, and a pending tool that takes another's place in one save; the id shared by two sessions makes batches and pointers collide;
one stop is enough to leave any prefix of the file writes behind. Five events
make every pair of blocks open, interleave and close; `MaxBytes = 40` lets the
snapshot overflow inside these; a usage event reports 1 or 9 tokens
(`TokenCounts`), so a combined count grows a digit. `Digits` is right for numbers
below 10^10. In Credentials a tick stands for ten seconds and
the ten minutes of the caches and the minute of margin are cut to two ticks; one
form of the credential names a subject, others are opaque, lack the key, the
account or the token, and the lifetimes are one below and one above the margin.

### Disagreements found

**parked_batch** (`DisconnectKeepsParkedBatch`) is expected to fail. The
rebuffered output of a turn parked in `maybeChainFollowUp` is consumed as a live
one (`executor.go:384`), so a disconnect cancels the parked batch. Denied by
`executor.go:307-308` and `mixed_cancel_test.go:67`.

These further configurations are counterexamples too, and are kept beside the
runs so that a change of the code can be held against them
(`tlc -config X.cfg <module>` reports the violation):

- **FlightFollowers** (MCExecutor, `FollowersAnswered`). Cold `ResumeTools` starts
  its run, then binds the flight (`manager.go:398-410`). A run that ends in between
  finds no flight to finish; duplicates in `waitResumeFlight` stay there until
  their own context ends. Expected by `lifecycle_test.go:557`.
- **FlightOwnTurn** (MCExecutor, `FlightEndsWithOwnTurn`). `Park` publishes after
  unlocking (`manager.go:504-513`) and ends whatever flight the session has by
  then, which may be the next batch's. Expected by `manager_flight_test.go:96`.
- **CancelTurn** (MCExecutor, `CancelOnlyOwnTurn`). `Cancel` works by session id; a
  client that leaves after its run completed but before the completion was read
  cancels the next request's turn. Compare `executor.go:197`.
- **StaleResults** (MCExecutor, `ResultsStillPending`). `resume` unlocks between
  choosing the results and delivering them (`manager.go:759-772`) and does not
  check the pending tools again. Compare `lifecycle_test.go:176` and `manager.go:22`.
- **SandParallel** (MCProfileRunner, `ImplementsAgentTurn`). A Sand segment
  continues with one result (`inference_runner.go:79-85`): with two caller tools in
  one turn the model goes on without the second result and may complete the turn
  while that call is open.
- **LateAnnouncement** (MCProfileRunner, `UnmatchedHadNoExec`). A call is executed
  and answered, then its stream announcement arrives: `recordStreamMCP` looks only
  at calls that are still pending, and the trailer fails the turn with a call
  "without a matching exec" (`runner.go:365-367`).
- **StalePointer** (MCPendingIndex, `AmbiguousMeansTwo`). `SaveHistory`, and a
  removal that stops after the index file, leave a tool pointer nobody removes; a
  later submission that covers two pointers is refused as ambiguous although one
  session waits for it (compare `adversarial_segment_billing_test.go:139`). A
  submission of exactly the parked batch is still found (`ResolveFinds`).
- **CallOutsideBatch** (MCPendingIndex, `PendingCovered`). The save after an
  accepted result takes that result's tool out and brings in the calls made since
  (`manager.go:723`, `manager.go:735-739`), and `SavePending` keeps the batch ids
  when the pending tools are no more than before (`state.go:442`). Parked on
  {a, b}, a accepted, c called, b accepted: c is pending and the session is indexed
  under {a, b}. A client that submits the result of c alone is answered "not
  pending"; one that repeats a and b with it is found, through the pointers
  (`BatchPointersLead`).
- **BodyOrder** (Projection, `BodyInStreamOrder`). Text between the start and the
  completion of a hosted call: the stream numbers the text block first, the
  Claude body stores it last.

### Fairness

`FairSpec` has weak fairness of each request's own steps and of each run's
finishing steps (goroutines are scheduled and store calls return), and of
`RunReturns(t, TRUE)`: every run has a context with `runTimeout`, and the runner
returns when it ends. The timer of `waitFollowUpSnapshot` is part of
`FollowAwaits`. There is no fairness for clients (`BeginStart`, `BeginResume`,
`GiveUp`), the upstream's calls and results, or restarts.

`ProfileRunner!FairSpec` has weak fairness of opening the stream, of the idle
timer and of taking a result that was sent: the run's own goroutine and a timer.
Nothing is assumed of the upstream or the client. Sand runs have no idle timer,
so `SilentRunEnds` is about Agent v1 only. `Credentials!Spec` has weak fairness
of each caller's steps and of each flight's end: both flights run under a
deadline of their own (20 s, `serverConfigTimeout`), so they end whatever the
upstream does.

`RequestsFinish` excludes requests that wait for another one's flight: those are
`FollowersAnswered`, which the code does not keep.

## Proofs

Every theorem is about arbitrary constants that satisfy the named assumptions of
the module that declares them. An invariant is proved from an inductive one,
which TLC had checked on the instances above before it was proved (that of the
projection with `Nat` cut to 0..200, since it quantifies over indices); the
preservation proofs have one step or lemma per action. Except where a
hypothesis is named below, nothing is assumed of a behaviour.

### Store (`StateStoreProofs`)

Assumptions: the null values are not real ones, history keys are session ids with
one credential each, `MaxPending` is a natural number (`ConstantsAssumption`,
`NoFileAssumption`).

| Theorem | Statement |
|---|---|
| `TypeCorrect` | `Spec => []TypeOK` |
| `Exclusive` | `Spec => []OneLiveOwner` |
| `LiveOwnerIsCurrent` | `Spec => []OwnerCurrent` |
| `CredentialsIsolated` | `Spec => []CredentialBound` |
| `HistoryRunsOnce` | `Spec => []NoSecondInvocation` |
| `Fencing` | `Spec => OnlyOwnerWrites` |
| `ParkedToolsKept` | `Spec => ParkedToolsSurviveClaims` |
| `RenewedIsSpared` | `Spec => GCSparesRenewed` |
| `Invariance` | `Spec => []IInv`, on which the others rest |

None of the invariants is inductive alone. `IInv` adds that a flock and a
held lease name each other (`LockHeld`; `OneLiveOwner` follows from it), that the
owner a file names is a lease of that session which got past its claim
(`FileNamesLease`; without it a claim could not know that the owner it replaces
is released), and that only history sessions have snapshots (`HistoryOnly`).

### Pending index (`PendingIndexProofs`)

Assumptions: tools and sessions are finite sets, actors are distinct
(`ToolsAssumption`, `ActorsAssumption`).

| Theorem | Statement |
|---|---|
| `TypeCorrect` | `Spec => []TypeOK` |
| `BatchPointersLeadHolds` | `Spec => []BatchPointersLead` |
| `FindableHolds` | `Spec => []Findable` |
| `ResolveFindsHolds` | `Spec => []ResolveFinds` |
| `Invariance` | `Spec => []IInv` |

The argument: an entry is removed only when its session is `Dead` for the batch,
that is, all the batch's ids were called and the session is not parked on it.
Dead is for good, because a batch is entered with an id that was never called
before; so a removal that is still under way, or was decided from an old read,
cannot hit a parked session. `IInv` says this of every task under way (`TasksOK`),
that a parked session's own tasks end with its entry (`OwnOK`), that whoever is
inside `mutatePendingIndex` holds the batch's lock (`Locked`), and how far each
lookup has come with the sessions that were parked when it began (`LookupOK`). The
batch need not contain the pending tools (CallOutsideBatch above): `IInv` only says
that the batch's ids were called, and that a session has a batch while it has
pending tools.

`BatchPointersLead` needs `LeadInv` besides: the pointers an actor has still to
handle are of its current call's batch, no process is starting, and each pointer of a
parked session's batch leads to that batch or the call that writes it is under
way. It speaks of behaviours in which no call stopped half-way (`stops = 0`), since a
process that starts may add an old batch again and take over its pointers (compare
StalePointer above); and of ids no other session uses.

### Manager and executor (`ExecutorProofs`, `FollowUpProofs`)

Assumptions: those of the store and `ManagerAssumption` (null values, one account,
one process).

| Theorem | Statement |
|---|---|
| `ExecutorImplementsStore` | `ExecutorSpec => ImplementsStore` |
| `ManagerTypeCorrect` | `ExecutorSpec => []ManagerTypeOK` |
| `IdleAfterReleaseHolds` | `ExecutorSpec => []IdleAfterRelease` |
| `OneUncancelledRunHolds` | `ExecutorSpec => []OneUncancelledRun` |
| `HistoryAnsweredOnceHolds` | `ExecutorSpec => []HistoryAnsweredOnce` |
| `DoneAfterSavedHolds` | `ExecutorSpec => DoneAfterSaved` |
| `FollowUpOncePerSessionHolds` | `ExecutorSpec => FollowUpOncePerSession` |
| `FollowUpRunsOnceHolds` | for every `own`: `ExecutorSpec /\ [][Issues(own)]_allVars /\ []OneSession(own) => FollowUpRunsOnce` |
| `ExecutorInvariance` | `ExecutorSpec => []EInv` |

`EInv` is the store's `IInv` with what each request holds at each point of its way
(`RequestOK`: the reservation, the claim, the session object, the output), what
each run has done (`RunOK`, with `AnswerSaved` from the landing on), that a
reservation is of one request, and that whoever holds a lease is the active
session, a request that starts one or a `Cancel` that took it (`HeldBy`). The
last is what `IdleAfterRelease` needs, and with the store's exclusive lease it
gives `OneUncancelledRun`. That every step of the composition is a store step
follows action by action, the claims from `RequestOK` (a request claims with a
lease of its own), the writes from `MayUpdate`.

For the follow-ups `FInv` adds that a request about to launch one, and a run that
will save its answer, is of a session that has no replay of it: the replay is
looked up under the lease, and only the lease's owner saves replays of its
session (`SaveMove`). `Park` is the exception to watch, since it saves after its
locks were dropped; it has taken the segment by then, so the run cannot save it
again. `FollowUpOncePerSession` follows without a hypothesis.

`FollowUpRunsOnce` speaks of all sessions, and replays are found by batch, without
the session: the proof rests on no two sessions answering the same batch. Let `own[x]` be
the session whose run asks for call `x`. Ids are issued once, so every behaviour
has such a function, and `Issues(own)` only says that `own` is it. `OneSession(own)`
is the one hypothesis about the clients: no submission answers calls of two
sessions at once. The code itself refuses ids that cover two pending batches
(`ErrPendingAmbiguous`), not ids of which a second session has no pending batch or
that cover it in part only. Under the hypothesis `OInv(own)` is inductive: the pending tools and the
batch of a file, of a run, of a request that knows its session, of a saved replay
and of the flight bound to a run are all of one session, and a request that does
not know its session yet has a batch among the ids it was sent. The steps that
matter are those where a session is found for ids: `ResolvePending` and
`LookupReplay`, where a covered batch that is not empty fixes the session of all
ids, and `FlightWaited`, where a follower takes the session and the batch from the
leader's flight.

### Runners (`RunnerProofs`, `SumTheorems`)

Assumptions: limits are natural numbers, the blobs are finitely many
(`RunnerAssumption`, `ProfileAssumption`).

| Theorem | Statement |
|---|---|
| `ProfileTypeCorrect` | `ProfileSpec => []ProfileTypeOK` |
| `SerialCallsToldHolds` | `ProfileSpec => []SerialCallsTold` |
| `NoResultWaitsForItsCallHolds` | `ProfileSpec => []NoResultWaitsForItsCall` |
| `NoVanishedCallHolds` | `ProfileSpec => []NoVanishedCall` |
| `BlobAccountingHolds` | `ProfileSpec => []BlobAccounting` |
| `ToldCallsRecoverableHolds` | `ProfileSpec => []ToldCallsRecoverable` |
| `AgentImplementsTurn` | `Spec => ImplementsAgentTurn` (Agent v1) |
| `ProfileImplementsTurn` | `ProfileSpec /\ []OneAtATime => ImplementsAgentTurn` |
| `ProfileInvariance` | `ProfileSpec => []PInv` |

`ProfileTypeOK` includes `UsesLimited`: the hosted calls of each kind stay within
the request's limit for that kind, and a segment's within the gateway's too. Its
invariant is `Counted`, beside `PInv`. `PInv` relates the books of a run: what is pending, announced, executed, queued
and told (`Booked`, `Parked`, `Unanswered`, `Matched`, `Serial`), and for Sand the
segment and its checkpoint (`SegmentOK`, `Checkpointed`). `BlobAccounting` needs
what an overwrite does to a sum; `SumTheorems` derives that from the fold the model
uses. The refinement of `AgentTurn` holds for Agent v1 as it is. A Sand segment
continues with one result whatever else is open, so its refinement rests on
`OneAtATime` (a Sand turn has one call, or result, at a time): dropping it is the
counterexample of `SandParallel.cfg`.

### Credentials (`CredentialsProofs`)

Assumptions: times are natural numbers, the endpoint lookup's timeout is shorter
than the margin a cached token keeps (`CredentialAssumption`; 20 s and a minute
in the code).

| Theorem | Statement |
|---|---|
| `TypeCorrect` | `Spec => []TypeOK` |
| `RunsAsConfiguredHolds` | `Spec => []RunsAsConfigured` |
| `CachedTokenLastsHolds` | `Spec => CachedTokenLasts` |
| `Invariance` | `Spec => []IInv` |

`IInv` says that a cache entry has a token of the subject it is filed under and
ends a margin before the token does (`CacheSound`), that a request past its
identity check holds a token of its identity (`Checked`), and that the lookup a
cached token waits for ends before the token (`CachedLasts`, `FlightsTimely`).

### Projection (`ProjectionProofs`, `SumTheorems`)

Assumptions: the formats are among the three protocols, token counts are natural
numbers (`ProjectionAssumption`).
The number of events, calls and hosted searches is arbitrary.

| Theorem | Statement |
|---|---|
| `TypeCorrect` | `Spec => []TypeOK` |
| `SnapshotBytesHolds` | `Spec => []SnapshotBytes` |
| `StreamRefines` | `Spec => ImplementsResponseStream` |
| `ReplayIsSameHolds` | `Spec => []ReplayIsSame` |
| `TextOnceHolds` | `Spec => []TextOnce` |
| `BodyHasStreamedItemsHolds` | `Spec => []BodyHasStreamedItems` |
| `StreamInvariant` | `Spec => []StreamInv`, on which the others rest |

A method may write many chunks, which reach the client one by one later, so the
refinement needs to know of every chunk on its way that it will fit. `StreamInv`
says so position by position: counting the client's items and the chunks before
it, what a chunk addresses is open (`Addressed`), items are opened in the order
of their indices (`Numbered`), nothing follows the end, and only searches are
open there (`Ended`); the response starts once and first (`Phased`); and the
blocks and searches the projection's record takes to be open are the ones that are
open after the last chunk (`Owned`). There is one lemma for a chunk appended, one
for each method, in the order the methods call each other, and one for a chunk
delivered, which moves every position by one. A Responses search has an item of its
own for each hosted call, and the item is closed at most once because the run
completes a hosted call once.

`SnapshotBytes` compares the running count with a fold over the events. Combining
changes the last size by exactly the growth that is added, the progress field
included (`CombinedSize`), and `SumTheorems` says what one value changed or one
value more does to the fold, each induction being the choice of a smallest
counterexample.

`ReplayIsSame` follows from an invariant of every state, not of completed ones only
(`ReplayInv`): a new projection fed the snapshot so far agrees with the running one
on all but the chunks it has delivered (`Twin`), until the run fails. Handling an
event respects `Twin`. What is left is the snapshot's combining: handling two events that
`append` combines is handling the combined one (`CombinedHandled`, with `WriteTwice`
for the text and `ObserveTwice` for the usage facts).

`TextOnce` and `BodyHasStreamedItems` follow from `TellsInv`, about the items the
client will have once every chunk on its way is delivered (`View`). A delivery leaves
them as they are (`ViewTail`), so only what the projection does matters: the buffer
of an open block is the text of its open item, and no text item follows that item
(`Current`); every closed item is stored once and as it is (`Kept`); a Responses
search has an item of its own, open until the hosted call completes (`Sought`); the
text items joined are the text the run sent. When the answer is complete `View` is
what the client has and nothing is open. The stored blocks are then in one-to-one
correspondence with the items. The sort of the Responses body is a permutation
because stored indices are distinct (`IndexOrder`). Every step of the way is said about arbitrary
lengths: induction over a sequence is the choice of the smallest prefix that fails
(`UpTo`).

### Only model-checked

- All liveness: `RequestsFinish`, `OutputsClose`, `SilentRunEnds`,
  `EveryRequestEnds`. Fairness and ENABLED are outside the prover.
- The counterexamples above are found by TLC.

## Not modelled

- The generated protobuf types (`gen/agent.pb.go`, four fifths of all lines of the
  repository): message structs without behaviour of their own. Of the
  hand-written code about a third of the lines, tests excluded, are modelled;
  most of the rest is conversion.
- Tombstone files, their pointers and pruning: a replay is stored in one step.
- In the manager: digest conflicts of duplicates with other results, credential
  and metering-version errors (one account, one kind of caller), the pending
  follow-up text (`SaveFollowUp`), a full tool-result queue, replay of usage carry,
  `CancelState`, checkpoints in the composition, expiry in the composition.
- In the index: several credentials (the fingerprint is part of every key) and the
  expiry of a session, which is a `Delete`.
- In the Sand runner: the process-wide memory of refused signatures, model
  parameters, wire encoding. In the projection: citations, annotations, wording.
- Transport (`stream.go`, `connect.go`): framing and pumping of bytes; Runner takes
  one frame at a time and lets any read or write fail. Heartbeats carry no state.
- Codecs, translation, ABI, helpers: conversions without shared state.

## Plan

1. `CompletedReplay`: tombstones, covering lookup, pruning, rebuild.
