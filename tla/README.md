# Remo: TLA+ models of a durable agent runtime

Remo runs agents.  A client's message becomes a *run* of a *thread*; the
mailbox turns it into a *dispatch*, a durable queue entry that some server
claims under a lease, executes and settles.  The run calls models and tools,
leaves background tasks behind, checkpoints its thread and emits events that
reach its clients through an outbox.  These modules model that path and the
protocols it rests on.  Paths below are relative to `src/crates/`.

    RunDispatch            the record of a dispatch and its transitions
      MailboxStore         the mailbox store in memory: a call is atomic
        MCMailboxStore         1 configuration
        MailboxStoreProofs     theorems
        MailboxService     the servers' tasks over that store and the run records
          MCMailboxService     4 configurations
          MailboxServiceProofs theorems
      NatsMailbox          the mailbox store on NATS: a call is many writes
        MCNatsMailbox
        NatsMailboxProofs
    PendingMessages        messages on their way into a run: steering, queueing
      MCPendingMessages
    BackgroundTasks        tasks of a run, its inbox, its end and its wake-up
      MCBackgroundTasks
      BackgroundTasksProofs
    CheckpointRegister     what a thread store promises: an atomic register
    ThreadWal              the buffered thread store, which implements it
      MCThreadWal
      ThreadWalProofs
    EventPipeline          checkpoint, outbox, relay and projection of events
      MCEventPipeline
      EventPipelineProofs
    ModelPool              a pool of models behind circuit breakers
      MCModelPool
      ModelPoolProofs
    McpRegistry            a server of the MCP tool registry
      MCMcpRegistry
      McpRegistryProofs

To check one: `tlc -workers 2 -config MCThreadWal.cfg MCThreadWal` (the service
has `MCServiceQueue.cfg`, `MCServiceAnswers.cfg`, `MCServiceRestart.cfg` and
`MCServiceRecovery.cfg` for `MCMailboxService`).  To prove: `tlapm
MailboxStoreProofs.tla`.

## 1. The system

| Component | State | Operations | Hard behaviour | What makes it correct | Module |
|---|---|---|---|---|---|
| dispatch record (`remo-server-contract/src/contract/mailbox.rs`) | status, epoch, token, lease, attempts, run projection | `mark_*`, `claim`, `record_*` | long sequences of legal calls; off-by-one of the two attempt counters | every record passes `validate_for_persist`; terminal is final | RunDispatch |
| in-memory mailbox store (`remo-stores/src/memory_mailbox.rs`) | dispatches by id, epoch per thread, live channels | enqueue, claim, claim_dispatch, ack, nack, dead_letter, cancel, record_*, extend_lease, supersede_claimed, interrupt, reclaim, purge | late calls of old holders, interrupts while claimed, vacuum | one claim per thread; an interrupt fences what was active | MailboxStore |
| NATS mailbox store (`remo-stores/src/nats_mailbox/`) | the same in key-value buckets, plus claim guard, dedupe locks, index | the same calls, as compare-and-set writes of separate keys | calls interleave, stop half-way, give up | the same promises | NatsMailbox |
| mailbox service: submit (`remo-server/src/mailbox/submit.rs`) | none of its own | submit (interrupt, wait, prepare, write ahead, claim), submit_background | the awaits between its calls; a lost claim to undo | it answers; a refused submit leaves nothing | MailboxService |
| mailbox service: dispatch loop (`signal_loop.rs`, `mailbox.rs`) | worker per thread: Idle, Claiming, Running | try next, claim, spawn, renew, finish | two tasks in the worker, wake-ups that get lost | a busy worker has a task; a claim has one holder and is renewed | MailboxService |
| mailbox service: execution (`dispatch_execution.rs`) | the task | load, check the epoch, record start, run, record result, settle | an interrupt or a reclaim at every await | settled exactly once | MailboxService |
| mailbox service: cancel (`cancel.rs`) | none | cancel, interrupt, live cancel, reconciliation | the run is on another server, or winds down | run records of ended dispatches are closed | MailboxService |
| mailbox service: maintenance (`lifecycle.rs`) | none | run_sweep, run_gc, recover | crash at any step, recovery beside a working server | nothing durable is forgotten | MailboxService |
| active-run registry (`remo-runtime/.../active_registry.rs`, `control.rs`) | slot and cancellation token per thread | register, unregister, cancel, cancel_and_wait | missed notifications | one run per thread, the right run is cancelled | MailboxService |
| pending messages (`mailbox/pending_delivery.rs`, `live_delivery.rs`, `delivery.rs`) | pending partition of a thread | append, freeze, edit, retract, reorder, steer, fall back | a selection that is stale when it is written; a run that ends meanwhile | the answer is true; consumed once, as last edited | PendingMessages |
| run loop (`remo-runtime/src/loop_runner/`) | run lifecycle, messages, tool-call states | step, suspend, resume, checkpoint | cancellation against a decision, a message at the end | the record says how the run ended | parts in five modules |
| background tasks, inbox (`extensions/background/`, `inbox.rs`) | task metadata in two stores, handles, inbox | spawn, cancel, complete, restore, wake up | completion against the end of the parent; spawn against cancel | a waiting run is woken; a cancelled one leaves no task | BackgroundTasks |
| buffered thread store (`nats_buffered_thread/`) | stream, bucket, buffer, inner store | checkpoint, delete, flush, recover | two writers, a crash between WAL and flush | committed writes are ordered and survive | ThreadWal |
| commit coordinator, outbox, relay, projection (`staging_coordinator.rs`, `postgres_outbox.rs`, `outbox_relay.rs`, `protocol_projector.rs`) | drafts, log, outbox, replay log | stage, commit, claim, project, settle | a retry of a commit; at-least-once delivery into a log that wants once | rows complete, faithful, once | EventPipeline |
| provider circuit breaker and pool (`remo-runtime/src/engine/`) | breaker and quarantine per member, session pins | admit, record, switch | half-open calls that never report; one failure told twice | limited probes that end | ModelPool |
| MCP server registry (`remo-ext-mcp/src/manager.rs`) | slot, lease, published catalogue | call, refresh, reconnect, enable, disable, close | a failure of an old connection; a dropped handler | the registry follows the server | McpRegistry |
| SQLite mailbox store, durable run stores | rows | as above | calls of several statements | as above | - |
| state store and phase engine, lifecycle of tool calls | merged state, phases | hooks, reducers | plugins decide | - | - |
| registry and configuration | versions | publish, pin | concurrent publications | compare-and-set | - |
| protocol front ends, extensions, evaluation, UI packages | - | encodings and external I/O | - | - | - |

How they interact: `submit` and the worker call the *mailbox store* and the *run
store* (RunRecord); the execution calls the *runtime*, which takes a registry
slot, writes the run record at its checkpoints and returns a result that the
execution settles in the store.  Before it asks a model, and when it would end,
the run loop *freezes pending messages* and drains its *inbox*, where background
tasks report; each inference goes through a *pool*, each tool call of an MCP tool
through the *registry's* lease.  A *checkpoint* commits messages, run record and
events together; the *thread store* behind it may be the buffered one, and the
events leave through the *outbox*.  `cancel` reaches a run through the registry
of its own server or through the store's live channel.  `run_sweep` and `recover`
look at the store and at the run store, and wake the worker.

## 2. The modules

Each module says in its header what it abstracts; each definition is preceded by
the function it models.  A step is what happens between two points where another
task can tell the difference: a store call, a lock that is taken apart, an await.

### RunDispatch
The record and its transitions as operators on records (`MarkAcked`,
`MarkNackResult`, `MarkExpiredLease`, ...), and `ValidForPersist`, which is
`validate_for_persist`.  Timestamps are reduced to what is compared:
`available` (available_at has passed), `lease` (none, live, lapsed) and
`completed`.  Error and payload fields are left out.  A token is the ordinal of
the claim that issued it, so that an old holder's token differs from the
current one, as UUIDs do.

### MailboxStore
State: `dispatches`, `epoch`; history: `claims` (how often a dispatch was
handed out, hence the next token) and `fenced` (active when its thread was
interrupted).  Every call of `InMemoryMailboxStore` that changes state is an
action; `StoreNext` lets any caller make any call at any time with any token
ever issued, so it is the store under the most general client.  Deadlines pass
by `LeaseLapses` and `BecomesAvailable`.  `HashMap` order is left open in
`FirstInRank` and in the reclaim's batch.  `EpochAfterPurge` is the vacuum that
drops the epoch of a thread with no dispatch left.

### MailboxService
One thread, any servers, and the steps of every task between two awaits.

| Variable | Code |
|---|---|
| `submit[d]` | the program counter of the submit of d, with what its interrupt returned |
| `calls` | cancel() and interrupt() calls after their store call |
| `worker[s]` | `MailboxWorkerStatus` |
| `claiming`, `empty`, `starting` | `dispatch_next_claim`: about to claim, about to revert, about to set Running |
| `exec` | `run_claimed_dispatch` tasks, by claim, server and next step |
| `renewals` | `spawn_lease_renewal` tasks |
| `active`, `cancelled` | the registry slot of the thread and its cancellation token |
| `runs` | RunRecord: status and dispatch_id; Done is split by its reason |
| `maint` | sweep and startup recovery |
| `up`, `lapses`, `crashes`, `called` | processes, and the counters of the bounds |

Some points where the model follows the code closely:

* `submit()` waits for an interrupted run by notification, by a timeout with a
  second look at the registry (`control.rs`), or, if the run is elsewhere, by
  the live channel and by polling the store.  A notification can be missed.
* `TryDispatch` leaves a Claiming or Running worker alone, and
  `RevertClaiming` only reverts Claiming: the worker can be overwritten by an
  inline submit, which sets Running unconditionally (`submit.rs:202`).
* `ExecReleasesWorker` compares dispatch ids, not claims.
* Renewals of a stale claim supersede it and cancel whatever run is active.
* A run that needs a decision waits in place (`RunSuspends`, `RunResumes`),
  with its slot and its claim; cancelled there it leaves its record Waiting
  (`SuspendedRunEnds`, `orchestrator.rs:627`).
* `serve()` awaits the startup recovery before requests (`Serves`,
  `app.rs:715-770`); the alternative `start_lifecycle` is not modelled.
* `ServiceAssumption` fixes two constants of the store as the code does: `claim()`
  is asked for one dispatch (`ClaimLimit`), and a result is Done or Waiting
  (`Results`).
* Ids are unique as with SQLite's primary key: a second insert fails, the
  submit answers with an error and the recovery starts again.  The memory store
  overwrites instead, but cannot be shared by processes.

### NatsMailbox
The same calls where the store is a set of NATS key-value buckets.  `records`,
`epoch`, `guard` (`claim.<thread>`), `lock` (`dedupe.<thread>.<key>`) and `index`
(`idx.<thread>`) are keys of their own; `call[p]` is a call between two accesses
to them.  A call works on a record it read earlier together with the epoch;
`fresh` turns FALSE when another call writes that record, which is how its
compare-and-set fails.  Keys that are read and written in a row are one step.
`Crashes` ends a call anywhere: a dead process, or an I/O error.  A claim's lease
and the guard's lease run out independently, and a claim may be written after
its guard's lease has passed.  `known` is history: the claims that an interrupt
has met and returned to its caller, to be cancelled.

An enqueue puts its lock, the index entry and the record, in this order.  Another
enqueue that finds the lock without a record can tell a dead holder from a slow one
only by the lock's age: five seconds (`ops_write.rs:13`), while the append to the
index may be retried for ten (`ops_write.rs:387`).  So `OvertakesHolder` takes an
enqueue that is under way for dead, and notes it in the history variable `overtaken`.
`EnqueueFails` is an append or a put that fails, or whose reply is lost: the lock is
given back in either case, also when the record was stored (`ops_write.rs:78-88`), which
is noted there too.  `DedupeKeyUnique` is about the other dispatches.

### PendingMessages
A thread's `pending` partition, its `committed` messages, its run `record`s with
`latest` (what `latest_run` answers), the `queue` of dispatches, the run `loop`
with its boundaries (`StepContinues`, `StepMeetsStopCondition`,
`StepEndsNaturally`, ...), and the requests: `submit_live_then_queue` (append, wake
the run, fall back to a run of its own) and the foreground `submit` (preflight,
interrupt, freeze, claim).  A freeze is two steps, the selection from what was read
and the transaction that takes it if nothing changed, repeated up to
`MaxFreezeAttempts` times (8 in the code).  A wake-up may be lost, or delivered and
its acknowledgement lost; then the message is taken back, unless that fails
(`LiveCleanupFails`; it is only logged), and the request falls back.  Any other failure of
the request to the run's server is in doubt (`LiveDeliveryFails`): the caller is told of
it ("failed"), and the message stays pending.  Users edit, retract and reorder at any time.  Starting a queued run
and interrupting are MailboxService's and are one step here.  `RunEnds` merges
the last checkpoint and the drop of the inbox; the version conflict of a
checkpoint is EventPipeline's.

### BackgroundTasks
One manager, as it is shared by the runs of a process, and the runs of one
thread.  The metadata is in the StateStore of the run (`copy`) and in that of the
first run the manager met (`meta`, `bound`): they are two, and the module follows
the code in never joining them.  `spawn` and `future` are the progress of a task,
`sender` the inbox it has captured, `handles` and `signalled` the handle table,
`sweep` the cancellation of a run with its guard, `notices` the events whose inbox
was closed and that become wake dispatches.  A restart (`Crash`) keeps what is
durable: the record, the last checkpoint and the queue.

### ThreadWal and CheckpointRegister
`CheckpointRegister` is what the callers of `checkpoint()` may count on: a
thread's snapshot is a register, a checkpoint replaces the snapshot it has read,
a deletion empties it.  `ThreadWal` has the claims of the writers, the sequence
numbers they reserve, the WAL entries and their commit state, the consumer of the
stream with its redeliveries, the flushers with their watermark, the inner store
(its three writes apart), the deletion with its tombstone, and the recovery of
entries whose writer died.  The two puts of a deletion's tombstone (`hot_meta.rs:309-314`)
are one step, as no property looks between them.  The refinement maps `value` to `Overlay`, what a read
in the mode ReadYourWrites returns; `basis` is a history variable of both, written when
an entry is appended to the stream.

### EventPipeline
`live` events are emitted by a run and buffered as drafts; `RunStep` drains them
into the staging coordinator and commits them with the thread's version check,
with up to `MaxAppends` attempts (8 in the code); `log` and `outbox` are what the transaction
wrote.  A run that is suspended emits a RunFinish (`Suspend`), waits, and emits a
RunStart when it is resumed; an inbox message makes it write a checkpoint meanwhile.

A relay claims a batch, loads the events, projects each with an encoder into rows of
`replay`, and acks or nacks.  The encoder's state is an open text block, a counter and
the terminal guard: after a RunFinish it makes nothing until a RunStart.  The rows of an
event that are its own, not the end of a text block, are one row.  A row is looked up
without a lock (`LooksUp`) and inserted later (`Inserts`), so two relays may race for it;
the loser's insert is refused by the unique index, and its message nacked.  Three
variables are history: `straight` (every encoder has met the events in order),
`swallowed` (events of which a guarded encoder made nothing) and `raced` (events with a
row that another relay stored between lookup and insert).

`Faults` says what may fail or come between: another writer of the thread's messages, a
checkpoint while waiting, the commit (rolled back, or its reply lost), a lookup, an
append with or without effect, a settlement, a lease, a process.

### ModelPool
`circuit` is the breaker of each member, shared by all runs for the life of the
process, `session` and `attempt` the pins of PoolExecutors, `quarantined` the
permanent exclusions, `call` where each inference is: it selects a member, asks the
breaker, opens a stream, drains it, is told of a failure by the stream and by the
loop runner in either order, moves the session, opens another.  `IsAborted` is
the drop of the future at any await.  The summarizer calls without a stream.

### McpRegistry
`slot` is `McpServerSlot`, `lock` its lifecycle lock, `registry` the published
snapshot, `link` the connections by generation, `offered` the server's own
catalogue.  The tasks are callers (`with_runtime_lease`), the periodic refresh, the
watcher of list_changed notices, the host's orders (reconnect, enable, disable)
and `close_all`.  A reconnection and a refresh hold the lock across awaits; a call,
its success and `close_all` do not take it.  `IsDropped` drops the handler of a request at
an await, as axum does when the client goes away.  A connection whose close failed, or
whose handler was dropped with it, is "abandoned" and is not counted as open.

## 3. What is checked

Twelve runs; every one passes.  The comment before a property says what it means
and where the code could break it; the bounds are in the .cfg.

| Run | Instance | Shows |
|---|---|---|
| `store` | 3 dispatches of one thread, two with one dedupe key, 2 attempts, 1 interrupt, a reclaim batch of 1 | StoreTypeOK, OneClaimedPerThread, InterruptFences |
| `queue` | 2 servers with a background dispatch each, 2 attempts; runs finish, suspend, wait for a decision or for tasks, fail in both ways | SingleActiveRun, LostLeaseCancelsOwnRun, AckedRunIsSettled |
| `answers` | 1 server, an inline and a background dispatch, 1 control call, fair | WorkerHasTask, ClaimIsRenewed, RejectedLeavesNothing; SubmitReturns, TerminalRunIsClosed (liveness) |
| `restart` | 2 servers, one inline dispatch, 2 attempts, 1 crash, 1 missed deadline, 1 control call | RenewedIsExecuted, LostSubmitIsRecovered |
| `recovery` | 2 servers, one background dispatch, 2 attempts, 1 crash, 1 missed deadline, fair | QueuedIsServed (liveness) |
| `nats` | 2 dispatches with one dedupe key, 2 concurrent calls, 2 claims, 2 attempts, 1 interrupt, 1 call that dies, outlasts the grace, or whose write fails or loses its reply | OneLiveClaim, InterruptFences, DedupeKeyUnique, IndexCoversActive |
| `pending` | an active run, a live and a foreground request, a task event, 2 steps, 2 user calls | NoPhantomTriggers, ConsumedAsLastEdited, AnswerIsTrue, EarlyIsConsumed |
| `tasks` | 2 tasks, 2 runs, 1 restart of the process | SweepMissesNoLiveTask, SubagentIsNotStuck; DoneTaskStaysDone (action), WaitingRunIsContinued (liveness) |
| `wal` | 2 checkpoints of different runs, 1 deletion, 2 flushers, 1 lapse, 1 fault | WalTypeOK, OnlyCommittedIsSeen, AckedIsStored, FlushedIsWhole; ImplementsRegister (refinement) |
| `events` | 2 relays, batches of 2, up to 5 events of a run that may be suspended and resumed, 2 attempts, 2 faults of 8 kinds | CheckpointCoversEvents, DeliveredIsProjected, RowsAreFaithful, FewFaultsLoseNothing; EventIsSettled (liveness) |
| `pool` | 2 members, a streaming run and the summarizer, threshold 2, 2 switches, 1 stream retry | HalfOpenIsProbed, FailureIsChargedOnce |
| `mcp` | 1 caller, timer, watcher, host, closer; thresholds 2, 2 faults, 1 change of the catalogue, 1 order, 1 dropped handler, fair | FailuresAreItsOwn; RegistryFollowsServer (liveness) |

### The bounds
**Mailbox.** The races are between an old and a new dispatch of one thread, or an old
and a new claim of one dispatch, so two of each; two servers, because a third adds
no new view of a claim ("mine", "another's"); a third dispatch in `store` lets a
dedupe key, a claim and a queue coexist.  Two attempts make a retry and its
exhaustion.  `MaxCalls`, `MaxCrashes` and `MaxLapses` of one place a single
disturbance at every point.  `MaxLapses` counts only deadlines that pass although
the responsible task is alive; the deadlines of tasks that died pass freely.
`MaxEpoch` also counts the interrupt of an inline submit.  `Results` does not
matter to the store.  WorkerHasTask was also checked, without being kept as a
run, on two servers with an inline submit on the first, a background one on the
second, two attempts, a missed deadline and a control call (3.0 million states).
In `nats`, two concurrent calls are an old and a new one; two tokens make a
claim after a claim.

Some properties need the instance they are checked in, because the code does not
give them in general; section 4 lists the cases.  SingleActiveRun,
LostLeaseCancelsOwnRun and AckedRunIsSettled are checked for a queue of background
submits that nobody interrupts, ClaimIsRenewed for one attempt,
RejectedLeavesNothing without missed deadlines, QueuedIsServed without inline
submits and transient failures.  For the first five the theorems of section 5 name
the hypotheses, and say which of them are needed.
InterruptFences of `nats` leaves out the claims that an interrupt has met: their
executions are not fenced by the store, but known to its caller.

**Thread store.** Two checkpoints are a writer and its successor; the deletion
makes a third writer.  `LapseAt` leaves out the two steps in which a deletion, its
watermark read, puts its tombstone and clears the entries: the tombstone is put
whatever has become of the claim, and a checkpoint that commits in between has its
entry taken for a deleted one.  With all steps TLC finds WalTypeOK, AckedIsStored,
FlushedIsWhole and ImplementsRegister violated, and OnlyCommittedIsSeen kept.
`MaxFlushLapses` is 0: two flushers compete and one may crash, but a live one keeps
its claim; with 1, FlushedIsWhole is violated between two writes of the inner
store, which are not fenced by the claim.  Both are hypotheses of the theorems
about ThreadWal that need them.  `MaxFaults` is a crash, an I/O error, a lost ack or a redelivery.

**Messages and tasks.** One live and one foreground request interfere with each
other and with the active run; two live requests with a foreground one were checked by
hand (2.8 to 11 million states, by the numbers of steps and user calls).  Two
freeze attempts make a conflict and a retry, and the exhaustion.  Two tasks are a
task and its child, or two that race; two activations are the run that waits and
the one that is woken.

**Events.** Five events are more than two batches, and let a run be suspended and
resumed; two faults can hit one message twice, which exhausts its attempts, or two
relays.  The two bounds are traded against each other: `Room` gives the number of events
by the number of faults (five without, three with one, two with two), and `StepRoom`
ends the Text and Tool events after the second.  In this instance encoders do meet
events out of order, swallow events, and race for rows.

**Pool.** With one stream and one plain call on one pool every trigger of the
breaker is told by both kinds of caller.  By hand: two streams that share session
and pool (5.3 million states with threshold and switches 1, 13.3 million with 2),
two streams in two pools that share the breaker (10.3 million).

**MCP.** The thresholds are 3 failures and 5 reconnections in the code; 2 of each
keep what they separate, a single failure from a repeated one.

Deadlock is checked in `store`; elsewhere the system rests when everything has been
answered.  Symmetry is used in `wal` and `nats`, which check no liveness that it would
affect: ImplementsRegister is a safety property.

### Fairness
* Mailbox service: weak fairness of every step of every task: tokio runs what can
  run, the intervals of renewal and sweep tick, and deadlines pass.  A run ends
  because its rounds are limited and its calls time out.  A crashed server is
  restarted by its supervisor.  Nobody has to call, to decide on a suspended tool
  call, or to crash.
* Background tasks: weak fairness of each task, of the loop and of the sweep.
  Strong fairness of `EndsNaturally`: the model answers some day without calling a
  tool, since the steps of a run are limited; weak fairness would not do, because
  each step that goes on disables it for a moment.
* Events: weak fairness of each relay (its interval ticks) and of the passage of
  time (a backoff ends, the lease of a claim nobody holds expires).  A run need not go on.
* MCP: weak fairness of each task's next step.  Calls, orders, drops, changes and the
  stop of the timer need not happen.

RegistryFollowsServer has two escapes: `stopped`, for a closed registry refreshes
nothing, and `drops > 0`, for a dropped handler is the difference DroppedIsResumed.
WaitingRunIsContinued lets go of runs whose events were dropped with their inbox
(EventIsSeen below), and of what the bounds cut off.

## 4. Where the code and its documentation differ

None of these is a run.  Each is a definition of the run's module; TLC finds its
violation when it takes the place of the properties in the run's configuration,
changed as the second column says.

| Property | Add to | What happens |
|---|---|---|
| QueuedIsServed | `restart` on OneServer, FairServiceSpec, MaxEpoch 1, MaxAttempts 1, no lapses or calls | A server crashes between the write-ahead enqueue of an inline submit and its claim; the recovery tries the thread while the guard still hides the dispatch; no timer claims it afterwards (`lifecycle.rs:499`).  `mailbox.rs:33-34` promises the sweep. |
| QueuedIsServed | `recovery` with Two dispatches on OneServer, MaxAttempts 1, no lapses or crashes | A background submit finds the worker Claiming and leaves its dispatch to that claim, which had found nothing and is about to revert (`signal_loop.rs:314-317`). |
| OwnerFindsSlotFree | `answers`; needs its inline submit (theorem OwnerFindsSlotFreeHolds) | After interrupt() the renewal supersedes the stale claim while its run still winds down; the next dispatch is claimed, meets the occupied slot and is dead-lettered (`signal_loop.rs:368` against `cancel.rs:73-74`). |
| SingleActiveRun | `queue` with Inline <- One, MaxEpoch 1 | A foreground submit on a second server goes on when the store shows the old claim released; the old run has not ended (`cancel.rs:158` against `mailbox.rs:685-688`). |
| ClaimIsRenewed | `answers` with MaxAttempts 2, Outcomes {"Finished", "Transient"}, MaxCalls 0 | An inline submit leaves a task that claims beside a running execution.  It claims the retry of the dispatch that execution has just nacked; the old execution, about to release the worker, finds its dispatch id there, aborts the renewal of the new claim and sets the worker Idle (`signal_loop.rs:406-416`). |
| ClaimedKeepsItsKey, GuardIsOfClaim | `nats` | The lock of a stale dispatch is released while it is queued; a claim that was under way takes it all the same, and the key has two active dispatches, one of them claimed (`ops_write.rs:251-254`).  A claim that dies between guard and record leaves its guard until the lease ends. |
| InputIsComplete | `pending` | A checkpoint takes the input from the record cached at the claim (`checkpoint.rs:231`, `dispatch_execution.rs:299-310`), and undoes what boundaries added (`pending_delivery.rs:389-392`). |
| ConsumedIsSeen | `pending` | A stop condition is looked at although the inbox brought messages (`orchestrator.rs:595-620` against 336-338). |
| NotBlockedByThePast | `pending` | A live message that is accepted after the last look stays, and blocks steering and foreground submits until it is retracted (`delivery.rs:307`). |
| CancelReachesDescendants | `tasks` | A running task that was spawned by a task which has ended since is not found: the sweep starts from unfinished roots (`run_cancellation.rs:50`). |
| EventIsSeen | `tasks` | A run whose step was cancelled, blocked or terminated does not look at its inbox again: the events in it are dropped (`orchestrator.rs:684`). |
| OrphanIsFailed | `tasks` | `restore_for_thread` skips every task that the manager's store already has (`manager.rs:553`); in the first run of a new process that is the store into which the thread state was just loaded, so a task without a future stays Running (`hook.rs:16`). |
| StoredRunIsLatest | `wal` with ThreeCalls, FirstRunTwice, no deletion, no lapses | A redelivered older entry overwrites the record of its run (`flusher.rs:639` against 13-14). |
| DedupeIsRaceFree | `nats` | The lock of a slow enqueue is purged after five seconds, or given back when a put was stored and its reply lost (see `overtaken` in section 2), and two dispatches of one key are queued (`ops_write.rs:221`, 78-88, against "race-free across nodes", 29). |
| DeliveredHasRows | `events` | A relay that has met a RunFinish, but not the RunStart after it (or meets an earlier event late), makes no rows and acknowledges: the event is delivered with no rows, or with those that the other relay had stored (`encoder.rs:85-92`). |
| FinishIsCommitted | `events` | RunFinish is emitted after the last checkpoint; its draft is in the buffer when the run ends (`orchestrator.rs:698`). |
| RestartLosesNothing | `events` with Faults = {"restart"} | A relay is restarted between two rows of an event; the new encoder, which has not seen the text block open, makes other rows, which conflict with the stored one until the message is dead (`protocol_projector.rs:80` against `protocol_projector_tests.rs:682`). |
| ProbeResolves | `pool` | A probe that ends with an error that does not count, or is aborted before it has a stream, leaves its member half-open for ever (`circuit_breaker.rs:167-168`). |
| NoMemberIsRevisited | `pool` | `select_active` ignores the members an attempt has tried (`pool_executor_stream_tests.rs:409`). |
| DroppedIsResumed | `mcp` | The handler of a reconnect request is dropped in the middle; the slot stays Reconnecting and every refresh passes it by (`manager.rs:1378`, `config_routes.rs:715`). |
| NoticeIsSeen | `mcp` | A list_changed notice is lost when its refresh fails (`refresh_server` answers Ok all the same), when it finds the lock taken, or when two rebuilds are written out of order (`manager.rs:1684-1691`); the periodic refresh repairs it. |
| ClosedStaysClosed | `mcp` | `close_all` does not take the lifecycle lock: a reconnection under way brings its tools back into the closed registry (`manager.rs:2193` against 1274). |

Found in the same way, and recorded as limits of the properties above:

* A nacked dispatch whose backoff ends is not claimed until another submit of
  its thread or a restart.
* A checkpoint of a run that winds down writes Running over a record that
  reconciliation had closed, until the run's last checkpoint
  (`checkpoint.rs:187`).
* An inline submit overwrites the worker of an execution that has not finished;
  that one's renewal is left over and, when it finds its lease lost, cancels
  the run that is active then.
* A run that is cancelled in its RunStart phase, or while it waits for a
  decision, is acked with its record still open.
* `claim()` with a limit above one can claim several dispatches of a thread;
  the service always passes one.
* In the in-memory pending store, `append_and_freeze` keeps the appended entries
  when its selection conflicts (`memory/pending.rs`); Postgres and File roll back,
  and PendingMessages follows them.
* The fallback of a live submit sends the original message again, so an edit or
  a retraction between the append and the failed wake-up is undone, and a message
  that was consumed although its wake-up failed is answered "already consumed".
* The tombstone of a deletion that has lost its claim covers what another run
  has committed since: the committed entry is never stored.
* A live request may be answered with an error although its message stays pending
  and is consumed by the run (`live_delivery.rs:118-121`, `nats_mailbox/mod.rs:577-582`),
  or because a cleanup failed and the message is still the steered run's.  AnswerIsTrue
  says what is left to say of both.
* Of two relays that race for a row the loser gets an I/O error, not the row that is
  there (`postgres_protocol_replay.rs:138`, 354), and its message loses an attempt: a
  dead letter may have had fewer faults than attempts.
* An aborted WAL entry whose ack was lost is refused with a Nak each time it comes
  back, without end.

## 5. What is proved

Each proof module is about the module it is named for, and for any values of its
constants that satisfy the ASSUMEs there (`StoreAssumption`, `NatsAssumption`, ...:
types only, and limits above zero).  Where a theorem names a property of section 3,
the run shows it on an instance, the theorem everywhere.

| Module | Theorem | Says |
|---|---|---|
| MailboxStore | StoreTypeHolds, PersistValidHolds | types; no reachable record fails `validate_for_persist` |
| | InterruptFencesHolds | what was active at an interrupt is never delivered |
| | QueuedIsCurrentHolds | no queued dispatch is stale |
| | HandedOutHolds | at most max_attempts claims of a dispatch |
| | TerminalIsFinalHolds | a terminal record is only purged |
| | StoreDedupeKeyUniqueHolds | no two active dispatches of a thread share a dedupe key |
| | OneClaimedPerThreadHolds | at most one claim per thread, assuming `ClaimLimit = 1` |
| MailboxService | ServiceTypeHolds | types |
| | ServiceUsesStore | the service implements `StoreSpec`: all the above holds of it |
| | ServiceClaimsOne | at most one claim per thread, without an assumption |
| | RenewedIsExecutedHolds | what is renewed is executed |
| | LostSubmitIsRecoveredHolds | a prepared run without a dispatch is found by the recovery |
| | WorkerHasTaskHolds | no crash: a busy worker has a task, a claim one holder |
| | RejectedLeavesNothingHolds | no missed deadline: a refused submit leaves nothing |
| | ClaimIsRenewedHolds | no crash, and one attempt or background submits: a current claim is renewed |
| | LostLeaseCancelsOwnRunHolds | background submits: a lost lease cancels its own run |
| | OwnerFindsSlotFreeHolds | background submits: a run finds its registry slot free |
| | SingleActiveRunHolds | nobody interrupts, no missed deadline, no crash: one active run on all servers |
| | AckedRunIsSettledHolds | moreover no cancel and no agent error: an acked dispatch's run is settled |
| NatsMailbox | NatsTypeHolds | types; every record written passes `validate_for_persist` |
| | OneLiveClaimHolds | one live claim per thread, the one its guard names |
| | NatsInterruptFencesHolds | no claim slips past an interrupt |
| | DedupeKeyUniqueHolds | no two current dispatches with one key, but for an enqueue that was taken for dead or lost its put's reply |
| | IndexCoversActiveHolds | what waits or runs is in the index |
| BackgroundTasks | TasksTypeHolds | types; an inbox has events of its own activation |
| | SweepMissesNoLiveTaskHolds | a cancelled run leaves no task behind whose spawners live |
| | SubagentIsNotStuckHolds | a waiting sub-agent has something to wait for |
| | DoneTaskStaysDoneHolds | no step takes a finished task back |
| | RestoreAddsNothingHolds | `restore_for_thread` changes nothing: why OrphanIsFailed of section 4 fails |
| EventPipeline | PipelineTypeHolds | types |
| | CheckpointCoversEventsHolds | a commit covers what was emitted before; the log is in order |
| | DeliveredIsProjectedHolds | a delivered event has all its rows, once each, if no guarded encoder swallowed it |
| | RowsAreFaithfulHolds | in-order encoders make the rows that one encoder makes |
| | FewFaultsLoseNothingHolds | in-order encoders: each attempt of a dead letter is paid for by a fault or by a row of another relay |
| ThreadWal | WalTypeHolds | types; no two entries share a sequence number (under NoLapseMarking, as all five) |
| | OnlyCommittedIsSeenHolds | nothing but committed checkpoints is read or stored |
| | AckedIsStoredHolds | what the consumer gives up is stored |
| | FlushedIsWholeHolds | until a live flusher loses its claim: the inner store is of one checkpoint |
| | ImplementsRegisterHolds | no live flusher loses its claim: the store implements CheckpointRegister |
| ModelPool | PoolTypeHolds | types and limits |
| | HalfOpenIsProbedHolds | a half-open member is being probed, by no more than its limit |
| | FailureIsChargedOnceHolds | a failure seen twice is charged once |
| McpRegistry | McpTypeHolds | types and limits |
| | FailuresAreItsOwnHolds | a connection is charged with its own failures, once each |
| | ConnectionInUseIsOpenHolds | the connection of a slot is open, and no task is about to close it |
| | OneReconnectsHolds | one task at most makes a connection |

Each rests on the inductive invariant of its module (`StoreIInv`, `ServiceIInv`,
`NatsIInv`, `TasksIInv`, `PipelineIInv`, `WalIInv`, `PoolIInv`, `McpIInv`), itself a theorem
(StoreIInvHolds, NatsInvariant, ...).  TLC has checked each of them as an invariant
of its module's run before it was proved.  Why the properties are not inductive
alone, and what had to be added:

**MailboxStore.**  That an ack of a fenced dispatch supersedes it needs its epoch to
be older than the thread's; that the epoch entry may be dropped needs that nothing
stored is left; that a retry does not exceed max_attempts needs the relation of
attempts and claims in each status.  `RecordOK` says of every dispatch what its record
may be, given the thread's epoch, the number of its claims and whether it is fenced.
There is one lemma per transition (`ClaimedOK`, `SupersededOK`, ...), one per call,
and `PointwiseOK` puts a call's records together; interrupt and purge, which change
the epoch, have proofs of their own.  For the dedupe keys only two facts about steps
are needed: a terminal record stays one, and a record that is not stored is touched by
its own enqueue alone (`OnlyEnqueueAdds`).

**MailboxService.**  A step of a task may do anything that its place allows, on any
server, so the proofs first reduce steps: `StepShape` lists the few shapes that a step
has for claims, workers, renewals and slots (a claim is won, a worker starts it, an
execution moves on or releases the worker, a renewal is lost, a server crashes, ...),
and `CalmStore` what a store call that hands nothing out may do to a record.  The
invariants go through by shape, not by action.  `ServiceIInv` needs no hypothesis: a claim
has one task (`Unique`), on the server of its renewal (`Executed`); a task that is past
its settlement does not hold its claim any more (`DoneLost`); without a crash a claim has its
task (`Held`); slots and executing runs correspond (`SlotInv`); a busy worker has a
task (`WorkerKept`).  On top of it:

* LostSubmitIsRecovered: a run that is prepared and lost was prepared before the
  server's recovery listed the runs (`LostIsFound`, `MaintInv`).
* RejectedLeavesNothing: at each place of a submit, which traces the dispatch has left
  in the store, in its run and in the list of what is to be closed (`SubmitTraces`,
  `TodoStored`).  A missed deadline breaks it (`answers` with MaxLapses 1): the guard of
  the write-ahead lapses, the dispatch is claimed, and the submit loses it.
* LostLeaseCancelsOwnRun, OwnerFindsSlotFree: while no submit is inline the worker is a lock
  (`WorkerLock`): Claiming is held by one task, Running by the claim that is renewed and
  executed.  `OnlyBackground` says so of what was submitted so far.  An inline
  submit sets Running over another claim, and TLC finds both violated in `answers`.
* ClaimIsRenewed: `RenewedInv`.  With the worker as a lock, or with one attempt per
  dispatch, finish_execution cannot meet a newer claim of its dispatch; otherwise see
  section 4.
* SingleActiveRun: while nobody interrupts (`Quiet`) a claim is lost only by its holder
  (`QuietClaims`), so two active runs would be two claims.  With a missed deadline
  TLC finds two (`queue` with MaxLapses 1): the old one runs on until its renewal
  learns of the loss.
* AckedRunIsSettled: `AckedInv`.  Violated with a control call (`queue` with MaxCalls and
  MaxEpoch 1), and with agent errors, which are acked.

Crashes are excluded from WorkerHasTask and ClaimIsRenewed because a crash takes the
tasks away and leaves the claim; from the last two because their proof needs it: `queue`
with a crash is too large to be finished, and TLC found no violation in it.

**NatsMailbox.**  A call acts on what it read some steps ago.  `NatsIInv` has for each
step of a call what it may still rely on: while its compare-and-set would succeed
(`fresh`), the record is the one it read; a token it is about to write, or has given
up, is in no other record, guard or call; a dedupe key or guard that it is about to
delete protects nothing but an overtaken dispatch; an index entry that it is about to delete is of a record that
has ended.  For InterruptFences it says of an interrupt under way that each older live
claim is met, or in the part it has yet to list, scan or look at.

**BackgroundTasks.**  One predicate per task relates its spawn call, future, metadata
and handle.  That the sweep misses nothing needs, between its two looks, where a task
is that it has yet to cancel: it has a handle and its root is on the list, or its spawn
will see the mark.  Descent is a recursive function; facts about it are proved by the
least counterexample (`WFMin`), without induction over data.

**EventPipeline.**  The run's uncommitted drafts are exactly the last events emitted,
in order (`Held0`), which is why a retried commit neither repeats nor loses any.  The
rows of an event are a prefix of what one encoder makes of it (`MadeByOne`, `NoGap`):
its first row tells which encoder (`FirstRowTells`), so two relays cannot mix theirs.
An event that was swallowed has no first row to tell by, hence its exception.  For
FewFaultsLoseNothing every attempt is paid for (`IsPaid`): by a fault, by a row that
another relay stored between lookup and insert (the next race is for a later row, so an
event has no more races than rows), or it is under way with a live lease; the unique
claim tokens (`ClaimsInv`) say whose.  Without a fault each claim is held by one relay,
which nobody races (`SoleInv`).  The
encoder's state after n events is a recursive function again: that it depends on
those events only (`EncoderKept`) is proved by the least counterexample.

**ThreadWal.**  All five theorems assume `NoLapseMarking`: no claim lapses while its
deletion puts the tombstone and clears the entries.  The tombstone is put whatever is
stored by then, so a checkpoint that reserved a number meanwhile would find it given
out again.  `WalIInv` then
says of the numbers that no more are reserved than there are calls that have one (which
bounds them by the number of calls), that the holder of the claim has the greatest, and
that every entry in the stream, or about to be, is at most the reserved one; of an entry,
that a committed one keeps its state in the bucket until its run is in the inner store
and the watermark has passed it, and that an acknowledged one is stored or can never
be committed; of a flusher, that its batch is committed, newer than the watermark it
read, and which runs it has left to write.  None of this depends on flush claims, so the
first three theorems hold when live flushers lose theirs.  `FlushInv` depends on them: a
flusher at work holds the claim, and its projection stays as it was written.  With
`RegisterInv` it says that one call at most may still commit (it is past its last
check of the claim and its entry is not aborted) and that it has read what a read
finds now: whoever takes the claim later recovers the thread first, and the recovery
aborts that entry, or sees it committed.  For the refinement, `OverlayMoves` is the
central lemma: a step leaves what a read finds, or commits, or deletes.

**ModelPool.**  Of a call: the member its stream is of, and whether its failure is
charged yet; of a half-open member: the calls it let in are on their way, or left
without a report (the case of ProbeResolves, section 4).

**McpRegistry.**  The lifecycle lock: between `begins` and `finishes` of a reconnection
the slot has no connection, nobody else holds the lock, and the new generation is unlike
any that a task still uses, reports on or closes.

What stays with TLC: all liveness and with it fairness (TLAPS does not treat ENABLED);
and PendingMessages.

## 6. Hazards that are listed here only

PROJECT.json lists the forty that weigh most.  These are real too:

* Of the differences above: OwnerFindsSlotFree, EventIsSeen, ClaimedKeepsItsKey,
  GuardIsOfClaim, DedupeIsRaceFree, DeliveredHasRows, StoredRunIsLatest, ConsumedIsSeen, FinishIsCommitted,
  RestartLosesNothing, NotBlockedByThePast, OrphanIsFailed, ClosedStaysClosed,
  NoticeIsSeen.
* Mailbox: one store error ends a lease's renewal without cancelling the run
  (`signal_loop.rs:371`); `gc_idle_workers` removes a worker that a task holds a
  reference to (`lifecycle.rs:608`); a run that waits for input is enqueued again
  after its acked dispatch was purged (`lifecycle.rs:345`); runs shared by id
  between dispatches (`cancel.rs:239`); a live cancel before the subscription; an
  interrupt that returns one active dispatch of several.
* NATS and SQLite: a compare-and-set whose reply is lost; SQLite's calls of several
  statements (`sqlite_mailbox/mod.rs:366`).
* Tasks: uniqueness of names under concurrent spawns; a manager that keeps the
  first StateStore it met; an inbox shared by owner.
* Events: the draft cache of 4096; the snapshots of the memory coordinator; a
  COMMIT whose reply is lost; a message whose relay dies each time, for attempts are
  limited by nacks only.

## 7. Not modelled

* Mailbox service: store and run-store I/O errors, run_gc (purge_terminal is in
  MailboxStore), the dispatch-signal consumer, the recovery of orphaned
  background waits and of pending threads, the longer lease of a suspended run,
  runs shared by several dispatches, replayable plans.
* NATS mailbox: the local read cache and its watcher, delivery signals and their
  sweeper, the vacuum, live channels, the exhaustion of five retries.
* SQLite mailbox and the durable run stores: local transactions; their calls have
  the outcomes of the memory store's, apart from the hazard above.
* Pending messages: barriers and granularity One, which the service never sets;
  ResumeInput; the recovery of stale pending entries, the repair of freeze events; the
  errors of the pending store itself, but for those of the cleanup.
* Tasks: names, reports of the tools, messages to a task's own inbox, agents as tasks.
* Thread store: several threads and the hierarchy lock across them, the read mode
  Eventual, the quarantine of poisoned entries, the reply of a compare-and-set
  that is lost, the end of a renewal task on an error, the run records a deletion
  leaves in the cache or drops unflushed.
* Events: the fan-out and webhook lanes, listing, subscriptions and cursors, the
  encoders of the other protocols; AgentEvent::Error, which closes the guard too but is
  forwarded only on request.
* Pool: the LRU limits of sessions and attempts, several live streams of one
  inference, switch policies other than the default; the retries of
  RetryingExecutor are part of an answer.
* MCP: capabilities, resource subscriptions and updates, tool-id conflicts between
  servers, the first connection of several servers, session generations over HTTP,
  two watchers side by side, and the transport below (`transport.rs`).  The server
  has no route to `toggle`; it is modelled as a public operation of the manager.
* State store and phase engine, lifecycle of tool calls, inference: one thread of
  control, and what a phase does depends on plugins.
* Versioned registry and configuration: one compare-and-set, and conversions.
* Protocol front ends, the other extensions, evaluation, doctests, UI: encodings
  and external I/O.

## 8. Plan

1. (done) The mailbox: RunDispatch, MailboxStore with its proofs, MailboxService.
2. (done) The NATS store; pending messages; background tasks; the thread store and
   its refinement; the event pipeline; the model pool; the MCP registry.
3. (done) The proofs of section 5.
4. Proofs to come: of PendingMessages (NoPhantomTriggers and ConsumedAsLastEdited
   first), which is only model-checked.  Two type invariants are checked by no run
   but hold in its instance: ServiceTypeOK, which is proved, and PendingTypeOK.
5. Later: the MCP transport, the SQLite store's statements, the vacuum and the
   sweeper of the NATS store.
