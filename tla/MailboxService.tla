--------------------------- MODULE MailboxService ---------------------------
(***************************************************************************)
(* The mailbox service (remo-server/src/mailbox): the tasks by which the   *)
(* servers that share one MailboxStore accept, claim, execute, renew,      *)
(* cancel, sweep and recover the dispatches of one thread.  Threads have   *)
(* workers, registry slots and dispatches of their own, so one thread is   *)
(* the unit of the model.                                                  *)
(*                                                                         *)
(* A step is the code of a task between two awaits that another task can   *)
(* tell apart: one store call, one write of the run store, or one critical *)
(* section of the worker or of the registry of active runs.  The store     *)
(* calls are MailboxStore's actions; a call that is refused leaves the     *)
(* store alone.  Metrics, events and message appends are left out.         *)
(***************************************************************************)
EXTENDS MailboxStore

CONSTANTS
    Server,         \* the processes that share the store
    HomeOf,         \* the server that takes the submit of a dispatch
    Inline,         \* dispatches submitted by submit(); others by submit_background()
    Run, RunOf,     \* run ids, and the run that a dispatch activates
    Outcomes,       \* how an agent run that is not cancelled may end
    Suspends,       \* may a run wait in place for a decision on a tool call?
    MaxLapses,      \* bound: deadlines that pass although their task is alive
    MaxCrashes,     \* bound: server crashes that are explored
    MaxCalls        \* bound: cancel() and interrupt() calls that are explored

thread == CHOOSE t \in Thread : TRUE

ASSUME ServiceAssumption ==
    /\ Thread = {thread}
    /\ HomeOf \in [Dispatch -> Server]
    /\ Inline \subseteq Dispatch
    /\ RunOf \in [Dispatch -> Run]
    /\ Outcomes \subseteq {"Finished", "AwaitsTasks", "Suspended", "AgentError",
                            "Transient", "Permanent"}
    /\ Suspends \in BOOLEAN
    /\ MaxLapses \in Nat /\ MaxCrashes \in Nat /\ MaxCalls \in Nat
    /\ ClaimLimit = 1       \* what dispatch_next_claim passes
    /\ {"Done", "Waiting"} \subseteq Results    \* what mailbox_run_result makes

VARIABLES
    submit,     \* dispatch -> its submit call
    calls,      \* cancel() and interrupt() calls in progress
    worker,     \* server -> MailboxWorkerStatus of the thread
    claiming,   \* server -> tasks that set Claiming and are about to claim()
    empty,      \* server -> tasks whose claim() was empty, about to revert
    starting,   \* claims won, about to set the worker Running and spawn
    exec,       \* run_claimed_dispatch tasks
    renewals,   \* lease renewal tasks
    active,     \* server -> the claim whose run holds the thread's registry slot
    cancelled,  \* servers whose active run has its cancellation token set
    runs,       \* run id -> run record
    maint,      \* server -> sweep and recovery task
    up,         \* the servers that run
    lapses, crashes, called     \* counters of the bounds

taskVars == <<worker, claiming, empty, starting, renewals>>
runtimeVars == <<active, cancelled>>
hostVars == <<up, lapses, crashes, called>>
serviceVars == <<storeVars, submit, calls, taskVars, exec, runtimeVars, runs,
                 maint, hostVars>>

NoClaim == <<>>
ClaimId == Dispatch \X (1..MaxAttempts)     \* a dispatch and a token of it
Task == [claim : ClaimId, on : Server]

Idle == [status |-> "Idle", claim |-> NoClaim]
Claiming == [status |-> "Claiming", claim |-> NoClaim]
RunningClaim(c) == [status |-> "Running", claim |-> c]

Sweeping == [at |-> "sweeping", todo |-> {}, pick |-> {}, wake |-> "none"]

Open == {"Created", "Running", "Waiting"}
Closed == {"Completed", "Cancelled", "Errored"}     \* RunStatus::Done, by reason

ServiceTypeOK ==
    /\ submit \in [Dispatch -> [at : {"new", "interrupted", "waitRun", "live",
                                      "waitStore", "prepare", "enqueue", "claim",
                                      "undo", "undone", "wake", "done",
                                      "conflict", "failed", "lost"},
                                todo : SUBSET Dispatch, found : SUBSET Dispatch]]
    /\ calls \subseteq [on : Server, byThread : BOOLEAN,
                        todo : SUBSET Dispatch, found : SUBSET Dispatch]
    /\ worker \in [Server -> {Idle, Claiming} \cup {RunningClaim(c) : c \in ClaimId}]
    /\ claiming \in [Server -> Nat] /\ empty \in [Server -> Nat]
    /\ starting \subseteq Task /\ renewals \subseteq Task
    /\ exec \subseteq [claim : ClaimId, on : Server,
                       at : {"load", "epoch", "supersede", "close", "start",
                             "refused", "run", "running", "waiting", "result",
                             "settle", "letter", "release", "next"},
                       outcome : Outcomes \cup {"None", "Cancelled", "Permanent"}]
    /\ active \in [Server -> ClaimId \cup {NoClaim}]
    /\ cancelled \subseteq Server
    /\ runs \in [Run -> [status : {"None"} \cup Open \cup Closed,
                         by : {<<>>} \cup {<<d>> : d \in Dispatch}]]
    /\ maint \in [Server -> [at : {"sweeping", "reclaimed", "wakes", "boot",
                                   "queued", "list", "prepared", "enqueue"},
                             todo : SUBSET Dispatch, pick : SUBSET Dispatch,
                             wake : {"none", "due", "done"}]]
    /\ up \subseteq Server
    /\ lapses \in 0..MaxLapses /\ crashes \in 0..MaxCrashes /\ called \in 0..MaxCalls

ServiceInit ==
    /\ StoreInit
    /\ submit = [d \in Dispatch |-> [at |-> "new", todo |-> {}, found |-> {}]]
    /\ calls = {}
    /\ worker = [s \in Server |-> Idle]
    /\ claiming = [s \in Server |-> 0] /\ empty = [s \in Server |-> 0]
    /\ starting = {} /\ exec = {} /\ renewals = {}
    /\ active = [s \in Server |-> NoClaim] /\ cancelled = {}
    /\ runs = [r \in Run |-> [status |-> "None", by |-> <<>>]]
    /\ maint = [s \in Server |-> Sweeping]
    /\ up = Server /\ lapses = 0 /\ crashes = 0 /\ called = 0

-----------------------------------------------------------------------------
(* What several tasks do.                                                  *)

\* The claim is still the store's, in the thread's epoch.
Owns(d, k) == IsClaimed(d) /\ HasToken(d, k) /\ ~IsStale(d)

\* A store call with token k: A if the token is right, else an error.
StoreCall(A, d, k) == IF IsClaimed(d) /\ HasToken(d, k) THEN A
                      ELSE UNCHANGED storeVars

RunWritten(d, status) ==
    [runs EXCEPT ![RunOf[d]] = [status |-> status, by |-> <<d>>]]

\* mark_{superseded,cancelled}_dispatch_run_cancelled and
\* mark_dead_letter_dispatch_run_error: close the run of d unless it is Done.
RunClosed(d, how) ==
    IF runs[RunOf[d]].status \in Open THEN RunWritten(d, how) ELSE runs

\* A reconciliation that forgets the superseded.
RunReconciledUnlessSuperseded(d) ==
    IF StatusOf(d) = "DeadLetter" THEN RunClosed(d, "Errored")
    ELSE IF StatusOf(d) = "Cancelled" THEN RunClosed(d, "Cancelled") ELSE runs

\* reconcile_terminal_dispatch.
RunReconciled(d) ==
    IF StatusOf(d) = "DeadLetter" THEN RunClosed(d, "Errored")
    ELSE IF StatusOf(d) \in {"Cancelled", "Superseded"}
         THEN RunClosed(d, "Cancelled") ELSE runs

\* try_dispatch_next up to the claim: Idle -> Claiming under the worker lock.
TryDispatch(s) ==
    IF worker[s] = Idle
    THEN /\ worker' = [worker EXCEPT ![s] = Claiming]
         /\ claiming' = [claiming EXCEPT ![s] = @ + 1]
    ELSE UNCHANGED <<worker, claiming>>

\* The lease renewal is spawned with the claim; the worker is set later.
ClaimWon(s, won) ==
    /\ starting' = starting \cup {[claim |-> <<d, claims'[d]>>, on |-> s] : d \in won}
    /\ renewals' = renewals \cup {[claim |-> <<d, claims'[d]>>, on |-> s] : d \in won}

\* executor.cancel(thread): sets the token of whatever run is active on s.
CancelActiveOn(s) ==
    cancelled' = IF active[s] = NoClaim THEN cancelled ELSE cancelled \cup {s}

\* deliver_live_to(target of dispatch a): the servers whose run subscribes it.
SubscribersOf(a) ==
    {s \in Server : active[s] # NoClaim /\ active[s][1] = a}

\* What the task that runs the submit of d does next.
SubmitAt(d, at) == submit' = [submit EXCEPT ![d].at = at]
SubmitIs(d, at) == submit[d].at = at /\ HomeOf[d] \in up

\* serve() awaits the startup recovery before it takes requests.
Serves(s) == s \in up /\ maint[s].at \in {"sweeping", "reclaimed", "wakes"}
SubmitBegins(d) == submit[d].at = "new" /\ Serves(HomeOf[d])

-----------------------------------------------------------------------------
(* submit() and submit_background().                                       *)

SubmitInterrupts(d) ==
    /\ SubmitBegins(d) /\ d \in Inline
    /\ InterruptDetailed(thread)
    /\ submit' = [submit EXCEPT ![d] =
           [at |-> "interrupted", todo |-> {o \in Dispatch : IsQueued(o)},
            found |-> {o \in Dispatch : IsClaimed(o)}]]
    /\ UNCHANGED <<calls, taskVars, exec, runtimeVars, runs, maint, hostVars>>

SubmitClosesSuperseded(d) ==
    /\ SubmitIs(d, "interrupted")
    /\ \E o \in submit[d].todo :
         /\ runs' = RunClosed(o, "Cancelled")
         /\ submit' = [submit EXCEPT ![d].todo = @ \ {o}]
    /\ UNCHANGED <<storeVars, calls, taskVars, exec, runtimeVars, maint, hostVars>>

\* cancel_active_dispatch(.., wait = true): cancel_and_wait_by_thread.
SubmitCancelsActive(d) ==
    /\ SubmitIs(d, "interrupted") /\ submit[d].todo = {} /\ submit[d].found # {}
    /\ SubmitAt(d, IF active[HomeOf[d]] = NoClaim THEN "live" ELSE "waitRun")
    /\ CancelActiveOn(HomeOf[d])
    /\ UNCHANGED <<storeVars, calls, taskVars, exec, active, runs, maint, hostVars>>

\* CANCEL_WAIT_TIMEOUT, and a last look at the slot; the notification itself
\* is in RunEnds.
SubmitRunWaitTimesOut(d) ==
    /\ SubmitIs(d, "waitRun")
    /\ SubmitAt(d, IF active[HomeOf[d]] = NoClaim THEN "waitStore" ELSE "live")
    /\ UNCHANGED <<storeVars, calls, taskVars, exec, runtimeVars, runs, maint,
                   hostVars>>

\* deliver_live_cancel; the acknowledgement of a delivered cancel may be lost.
SubmitCancelsLive(d) ==
    /\ SubmitIs(d, "live")
    /\ \/ SubmitAt(d, "conflict") /\ UNCHANGED cancelled
       \/ \E a \in submit[d].found : \E s \in SubscribersOf(a) :
            /\ cancelled' = cancelled \cup {s}
            /\ \E at \in {"waitStore", "conflict"} : SubmitAt(d, at)
    /\ UNCHANGED <<storeVars, calls, taskVars, exec, active, runs, maint, hostVars>>

\* wait_for_dispatch_not_claimed, or its deadline.
SubmitWaitsForRelease(d) ==
    /\ SubmitIs(d, "waitStore")
    /\ SubmitAt(d, IF \E a \in submit[d].found : IsClaimed(a)
                   THEN "conflict" ELSE "prepare")
    /\ UNCHANGED <<storeVars, calls, taskVars, exec, runtimeVars, runs, maint,
                   hostVars>>

\* prepare_run_for_dispatch: a new run record, or an open one re-activated.
SubmitPreparesRun(d) ==
    LET run == runs[RunOf[d]]
    IN  /\ \/ SubmitIs(d, "prepare")
           \/ SubmitBegins(d) /\ d \notin Inline
           \/ /\ SubmitIs(d, "interrupted")
              /\ submit[d].todo = {} /\ submit[d].found = {}
        /\ IF run.status \in {"None", "Created", "Waiting"}
           THEN /\ runs' = [runs EXCEPT ![RunOf[d]] =
                     [status |-> IF run.status = "Waiting" THEN "Waiting"
                                 ELSE "Created", by |-> <<d>>]]
                /\ SubmitAt(d, "enqueue")
           ELSE SubmitAt(d, "conflict") /\ UNCHANGED runs
        /\ UNCHANGED <<storeVars, calls, taskVars, exec, runtimeVars, maint,
                       hostVars>>

\* The write-ahead enqueue; an inline dispatch is hidden for the claim guard.
\* If a recovery was faster the insert fails on the primary key.
SubmitEnqueues(d) ==
    /\ SubmitIs(d, "enqueue")
    /\ IF IsStored(d) THEN SubmitAt(d, "failed") /\ UNCHANGED storeVars
       ELSE /\ Enqueue(d, d \notin Inline)
            /\ SubmitAt(d, IF d \in Inline THEN "claim" ELSE "wake")
    /\ UNCHANGED <<calls, taskVars, exec, runtimeVars, runs, maint, hostVars>>

SubmitClaims(d) ==
    /\ SubmitIs(d, "claim")
    /\ ClaimDispatch(d) /\ claims'[d] # claims[d]
    /\ ClaimWon(HomeOf[d], {d})
    /\ SubmitAt(d, "done")
    /\ UNCHANGED <<calls, worker, claiming, empty, exec, runtimeVars, runs, maint,
                   hostVars>>

\* A submit that does not expect its dispatch to be ended by another call.
SubmitLosesRacesOnly(d) ==
    /\ SubmitIs(d, "claim")
    /\ IsQueued(d)
    /\ IF IsStale(d) THEN ClaimDispatch(d)
       ELSE ThreadHasClaim(thread) /\ UNCHANGED storeVars
    /\ SubmitAt(d, "undo")
    /\ UNCHANGED <<calls, taskVars, exec, runtimeVars, runs, maint, hostVars>>

\* claim_dispatch answered None: cancelled, superseded or blocked meanwhile.
SubmitLosesClaim(d) ==
    /\ SubmitIs(d, "claim")
    /\ IF IsQueued(d) /\ IsStale(d) THEN ClaimDispatch(d)
       ELSE /\ ~IsQueued(d) \/ ThreadHasClaim(thread)
            /\ UNCHANGED storeVars
    /\ SubmitAt(d, "undo")
    /\ UNCHANGED <<calls, taskVars, exec, runtimeVars, runs, maint, hostVars>>

\* A submit that leaves its unclaimed dispatch queued.
SubmitUndoesNothing(d) ==
    /\ SubmitIs(d, "undo")
    /\ SubmitAt(d, "undone")
    /\ UNCHANGED <<storeVars, calls, taskVars, exec, runtimeVars, runs, maint,
                   hostVars>>

SubmitUndoes(d) ==
    /\ SubmitIs(d, "undo")
    /\ IF IsQueued(d) THEN Cancel(d) ELSE UNCHANGED storeVars
    /\ SubmitAt(d, "undone")
    /\ UNCHANGED <<calls, taskVars, exec, runtimeVars, runs, maint, hostVars>>

SubmitReconciles(d) ==
    /\ SubmitIs(d, "undone")
    /\ runs' = RunReconciled(d)
    /\ SubmitAt(d, "conflict")
    /\ UNCHANGED <<storeVars, calls, taskVars, exec, runtimeVars, maint, hostVars>>

SubmitWakesWorker(d) ==
    /\ SubmitIs(d, "wake")
    /\ TryDispatch(HomeOf[d])
    /\ SubmitAt(d, "done")
    /\ UNCHANGED <<storeVars, calls, empty, starting, renewals, exec, runtimeVars,
                   runs, maint, hostVars>>

SubmitStep(d) ==
    \/ SubmitInterrupts(d) \/ SubmitClosesSuperseded(d) \/ SubmitCancelsActive(d)
    \/ SubmitRunWaitTimesOut(d) \/ SubmitCancelsLive(d) \/ SubmitWaitsForRelease(d)
    \/ SubmitPreparesRun(d) \/ SubmitEnqueues(d) \/ SubmitClaims(d)
    \/ SubmitLosesClaim(d) \/ SubmitUndoes(d) \/ SubmitReconciles(d)
    \/ SubmitWakesWorker(d)

-----------------------------------------------------------------------------
(* dispatch_next_claim: a task that set the worker to Claiming.            *)

ClaimNext(s) ==
    /\ s \in up /\ claiming[s] > 0
    /\ Claim(thread)
    /\ claiming' = [claiming EXCEPT ![s] = @ - 1]
    /\ LET won == {d \in Dispatch : claims'[d] # claims[d]}
       IN  /\ ClaimWon(s, won)
           /\ empty' = IF won = {} THEN [empty EXCEPT ![s] = @ + 1] ELSE empty
    /\ UNCHANGED <<submit, calls, worker, exec, runtimeVars, runs, maint, hostVars>>

\* An empty claim that is not reverted.
RevertLeavesClaiming(s) ==
    /\ s \in up /\ empty[s] > 0
    /\ empty' = [empty EXCEPT ![s] = @ - 1]
    /\ UNCHANGED <<storeVars, submit, calls, worker, claiming, starting, renewals,
                   exec, runtimeVars, runs, maint, hostVars>>

\* revert_claiming_to_idle: only if the worker is still Claiming.
RevertClaiming(s) ==
    /\ s \in up /\ empty[s] > 0
    /\ empty' = [empty EXCEPT ![s] = @ - 1]
    /\ worker' = IF worker[s] = Claiming THEN [worker EXCEPT ![s] = Idle] ELSE worker
    /\ UNCHANGED <<storeVars, submit, calls, claiming, starting, renewals, exec,
                   runtimeVars, runs, maint, hostVars>>

\* The worker becomes Running, whatever it was, and the execution is spawned.
StartExecution(p) ==
    /\ p \in starting /\ p.on \in up
    /\ starting' = starting \ {p}
    /\ worker' = [worker EXCEPT ![p.on] = RunningClaim(p.claim)]
    /\ exec' = exec \cup {[claim |-> p.claim, on |-> p.on, at |-> "load",
                           outcome |-> "None"]}
    /\ UNCHANGED <<storeVars, submit, calls, claiming, empty, renewals, runtimeVars,
                   runs, maint, hostVars>>

-----------------------------------------------------------------------------
(* run_claimed_dispatch.                                                   *)

ExecIs(e, at) == e \in exec /\ e.on \in up /\ e.at = at
ExecAt(e, at) == exec' = (exec \ {e}) \cup {[e EXCEPT !.at = at]}
ExecEnds(e, outcome) ==
    exec' = (exec \ {e}) \cup {[e EXCEPT !.at = "result", !.outcome = outcome]}

\* A step of e that touches the store, the run records or neither.
OnlyExec == UNCHANGED <<submit, calls, taskVars, runtimeVars, maint, hostVars>>

\* The dispatch is loaded: is it still this claim's?
ExecLoads(e) ==
    LET d == e.claim[1]
    IN  /\ ExecIs(e, "load")
        /\ ExecAt(e, IF IsClaimed(d) /\ HasToken(d, e.claim[2]) THEN "epoch"
                     ELSE IF StatusOf(d) = "Superseded" THEN "close" ELSE "release")
        /\ UNCHANGED <<storeVars, runs>> /\ OnlyExec

\* A stale claim that is dropped without being superseded.
ExecDropsStale(e) ==
    /\ ExecIs(e, "epoch")
    /\ ExecAt(e, IF IsStale(e.claim[1]) THEN "release" ELSE "start")
    /\ UNCHANGED <<storeVars, runs>> /\ OnlyExec

ExecChecksEpoch(e) ==
    /\ ExecIs(e, "epoch")
    /\ ExecAt(e, IF IsStale(e.claim[1]) THEN "supersede" ELSE "start")
    /\ UNCHANGED <<storeVars, runs>> /\ OnlyExec

\* Only another holder's token is an error: then the run is not closed.
ExecSupersedes(e) ==
    LET d == e.claim[1]
        k == e.claim[2]
    IN  /\ ExecIs(e, "supersede")
        /\ StoreCall(SupersedeClaimed(d, k), d, k)
        /\ ExecAt(e, IF IsClaimed(d) /\ ~HasToken(d, k) THEN "release" ELSE "close")
        /\ UNCHANGED runs /\ OnlyExec

ExecClosesSuperseded(e) ==
    /\ ExecIs(e, "close")
    /\ runs' = RunClosed(e.claim[1], "Cancelled")
    /\ ExecAt(e, "release")
    /\ UNCHANGED storeVars /\ OnlyExec

\* record_dispatch_start; after it the request may fail to be reconstructed
\* or resolved, which ends the dispatch as a permanent error.
ExecRecordsStart(e) ==
    LET d == e.claim[1]
        k == e.claim[2]
    IN  /\ ExecIs(e, "start")
        /\ StoreCall(RecordDispatchStart(d, k), d, k)
        /\ IF Owns(d, k)
           THEN \/ ExecAt(e, "run")
                \/ "Permanent" \in Outcomes /\ ExecEnds(e, "Permanent")
           ELSE ExecAt(e, "refused")
        /\ UNCHANGED runs /\ OnlyExec

ExecRefused(e) ==
    /\ ExecIs(e, "refused")
    /\ ExecAt(e, IF StatusOf(e.claim[1]) = "Superseded" THEN "close" ELSE "release")
    /\ UNCHANGED <<storeVars, runs>> /\ OnlyExec

\* register_run: one active run per thread, else ThreadAlreadyRunning, which
\* classify_error holds to be permanent.
ExecRegisters(e) ==
    /\ ExecIs(e, "run")
    /\ IF active[e.on] = NoClaim
       THEN /\ active' = [active EXCEPT ![e.on] = e.claim]
            /\ cancelled' = cancelled \ {e.on}
            /\ ExecAt(e, "running")
       ELSE ExecEnds(e, "Permanent") /\ UNCHANGED runtimeVars
    /\ UNCHANGED <<storeVars, submit, calls, taskVars, runs, maint, hostVars>>

\* A checkpoint of the run loop writes the run record, whatever it was.
RunCheckpoints(e) ==
    LET d == e.claim[1]
    IN  /\ ExecIs(e, "running") /\ RunWritten(d, "Running") # runs
        /\ runs' = RunWritten(d, "Running")
        /\ UNCHANGED <<storeVars, exec>> /\ OnlyExec

\* A tool call needs a decision: the step is completed with the run Waiting,
\* and the run waits for it where it is, with its slot and its claim.
RunSuspends(e) ==
    /\ Suspends /\ ExecIs(e, "running")
    /\ runs' = RunWritten(e.claim[1], "Waiting")
    /\ ExecAt(e, "waiting")
    /\ UNCHANGED storeVars /\ OnlyExec

\* The decision has come.  A cancellation that is there too comes first.
RunResumes(e) ==
    /\ ExecIs(e, "waiting") /\ e.on \notin cancelled
    /\ ExecAt(e, "running")
    /\ UNCHANGED <<storeVars, runs>> /\ OnlyExec

\* How a run may end, and the run record it leaves.  One that is cancelled
\* before its first checkpoint, and one that fails, writes no last one.
RunOutcomes(e) == Outcomes \cup {o \in {"Cancelled"} : e.on \in cancelled}

FinalStatus == [Finished |-> "Completed", AwaitsTasks |-> "Waiting",
                Suspended |-> "Waiting", Cancelled |-> "Cancelled"]

LeavesNoRecord(e, outcome) == UNCHANGED runs

LeavesRecord(e, outcome) ==
    \/ /\ outcome \in DOMAIN FinalStatus
       /\ runs' = RunWritten(e.claim[1], FinalStatus[outcome])
    \/ /\ outcome \notin {"Finished", "AwaitsTasks", "Suspended"}
       /\ outcome = "Cancelled" => RunWritten(e.claim[1], "Running") # runs
       /\ UNCHANGED runs

\* The RunSlotGuard drops.
RunFreesSlot(e) ==
    /\ active' = [active EXCEPT ![e.on] = NoClaim]
    /\ cancelled' = cancelled \ {e.on}

\* The waiters of cancel_and_wait_by_thread are notified; one that does not
\* poll the notification yet misses it.
RunNotifiesWaiters(s) ==
    \/ UNCHANGED submit
    \/ submit' = [o \in Dispatch |->
           IF submit[o].at = "waitRun" /\ HomeOf[o] = s
           THEN [submit[o] EXCEPT !.at = "waitStore"] ELSE submit[o]]

\* The last checkpoint, if the run gets to one, then the slot is free.
RunEnds(e) ==
    /\ ExecIs(e, "running")
    /\ \E outcome \in RunOutcomes(e) :
         ExecEnds(e, outcome) /\ LeavesRecord(e, outcome)
    /\ RunFreesSlot(e)
    /\ RunNotifiesWaiters(e.on)
    /\ UNCHANGED <<storeVars, calls, taskVars, maint, hostVars>>

\* A run that is cancelled while it waits is not Done: its last checkpoint
\* writes Waiting once more.
SuspendedRunEnds(e) ==
    /\ ExecIs(e, "waiting") /\ e.on \in cancelled
    /\ ExecEnds(e, "Cancelled")
    /\ runs' = RunWritten(e.claim[1], "Waiting")
    /\ RunFreesSlot(e)
    /\ RunNotifiesWaiters(e.on)
    /\ UNCHANGED <<storeVars, calls, taskVars, maint, hostVars>>

RunStep(e) ==
    RunCheckpoints(e) \/ RunSuspends(e) \/ RunResumes(e)
        \/ RunEnds(e) \/ SuspendedRunEnds(e)

ExecRecordsResult(e) ==
    LET d == e.claim[1]
        k == e.claim[2]
        result == IF e.outcome = "Suspended" THEN "Waiting" ELSE "Done"
    IN  /\ ExecIs(e, "result")
        /\ StoreCall(RecordRunResult(d, k, result), d, k)
        /\ ExecAt(e, "settle")
        /\ UNCHANGED runs /\ OnlyExec

\* classify_error: ack what completed, an agent-level failure included; nack
\* with a backoff what was transient; dead-letter what was permanent.
Settled(outcome, d, k) ==
    CASE outcome = "Transient" -> Nack(d, k, FALSE)
      [] outcome = "Permanent" -> DeadLetter(d, k)
      [] OTHER -> Ack(d, k)

ExecSettles(e) ==
    LET d == e.claim[1]
        k == e.claim[2]
    IN  /\ ExecIs(e, "settle")
        /\ StoreCall(Settled(e.outcome, d, k), d, k)
        /\ ExecAt(e, IF e.outcome = "Permanent" /\ Owns(d, k) THEN "letter"
                     ELSE "release")
        /\ UNCHANGED runs /\ OnlyExec

ExecClosesDeadLetter(e) ==
    /\ ExecIs(e, "letter")
    /\ runs' = RunClosed(e.claim[1], "Errored")
    /\ ExecAt(e, "release")
    /\ UNCHANGED storeVars /\ OnlyExec

\* A finish that aborts the renewal of whatever the worker runs.
ExecReleasesAny(e) ==
    LET c == worker[e.on].claim
    IN  /\ ExecIs(e, "release")
        /\ IF worker[e.on].status = "Running"
           THEN /\ worker' = [worker EXCEPT ![e.on] = Idle]
                /\ renewals' = renewals \ {[claim |-> c, on |-> e.on]}
           ELSE UNCHANGED <<worker, renewals>>
        /\ ExecAt(e, "next")
        /\ UNCHANGED <<storeVars, submit, calls, claiming, empty, starting,
                       runtimeVars, runs, maint, hostVars>>

\* A finish that leaves the renewal alone.
ExecReleaseRenews(e) ==
    /\ ExecIs(e, "release")
    /\ worker' = [worker EXCEPT ![e.on] =
           IF @.status = "Running" /\ @.claim[1] = e.claim[1] THEN Idle ELSE @]
    /\ ExecAt(e, "next")
    /\ UNCHANGED <<storeVars, submit, calls, claiming, empty, starting, renewals,
                   runtimeVars, runs, maint, hostVars>>

\* finish_execution: if the worker runs this dispatch it becomes Idle, and the
\* renewal of the handle it holds is aborted ...
ExecReleasesWorker(e) ==
    LET c == worker[e.on].claim
    IN  /\ ExecIs(e, "release")
        /\ IF worker[e.on].status = "Running" /\ c[1] = e.claim[1]
           THEN /\ worker' = [worker EXCEPT ![e.on] = Idle]
                /\ renewals' = renewals \ {[claim |-> c, on |-> e.on]}
           ELSE UNCHANGED <<worker, renewals>>
        /\ ExecAt(e, "next")
        /\ UNCHANGED <<storeVars, submit, calls, claiming, empty, starting,
                       runtimeVars, runs, maint, hostVars>>

\* ... and then the next dispatch of the thread is tried.
ExecTriesNext(e) ==
    /\ ExecIs(e, "next")
    /\ TryDispatch(e.on)
    /\ exec' = exec \ {e}
    /\ UNCHANGED <<storeVars, submit, calls, empty, starting, renewals, runtimeVars,
                   runs, maint, hostVars>>

ExecStep(e) ==
    \/ ExecLoads(e) \/ ExecChecksEpoch(e) \/ ExecSupersedes(e)
    \/ ExecClosesSuperseded(e) \/ ExecRecordsStart(e) \/ ExecRefused(e)
    \/ ExecRegisters(e) \/ ExecRecordsResult(e) \/ ExecSettles(e)
    \/ ExecClosesDeadLetter(e) \/ ExecReleasesWorker(e) \/ ExecTriesNext(e)

-----------------------------------------------------------------------------
(* spawn_lease_renewal: one tick.                                          *)

\* A lost lease cancels the active run of the thread, and ends the task.
RenewLease(p) ==
    LET d == p.claim[1]
        k == p.claim[2]
    IN  /\ p \in renewals /\ p.on \in up
        /\ StoreCall(ExtendLease(d, k), d, k)
        /\ IF Owns(d, k) THEN UNCHANGED <<cancelled, renewals>>
           ELSE CancelActiveOn(p.on) /\ renewals' = renewals \ {p}
        /\ UNCHANGED <<submit, calls, worker, claiming, empty, starting, exec,
                       active, runs, maint, hostVars>>

-----------------------------------------------------------------------------
(* The control API: cancel() and interrupt().                              *)

CallBegins(c) ==
    /\ Serves(c.on) /\ called < MaxCalls
    /\ calls' = calls \cup {c}
    /\ called' = called + 1
    /\ UNCHANGED <<submit, taskVars, exec, runtimeVars, runs, maint, up, lapses, crashes>>

\* cancel(dispatch id): the store's cancel, then the live channel of a claim.
ApiCancelsDispatch(s, d) ==
    /\ IF IsQueued(d) THEN Cancel(d) ELSE IsClaimed(d) /\ UNCHANGED storeVars
    /\ CallBegins([on |-> s, byThread |-> FALSE,
                   todo |-> IF IsQueued(d) THEN {d} ELSE {},
                   found |-> IF IsQueued(d) THEN {} ELSE {d}])

\* interrupt(thread id).
ApiInterrupts(s) ==
    /\ InterruptDetailed(thread)
    /\ CallBegins([on |-> s, byThread |-> TRUE,
                   todo |-> {o \in Dispatch : IsQueued(o)},
                   found |-> {o \in Dispatch : IsClaimed(o)}])

CallClosesRun(c) ==
    /\ c \in calls /\ c.on \in up
    /\ \E o \in c.todo :
         /\ runs' = RunClosed(o, "Cancelled")
         /\ calls' = (calls \ {c}) \cup {[c EXCEPT !.todo = @ \ {o}]}
    /\ UNCHANGED <<storeVars, submit, taskVars, exec, runtimeVars, maint, hostVars>>

\* executor.cancel(thread) if a run is active here, else the live channel,
\* which may have no subscriber.
CallCancelsActive(c) ==
    /\ c \in calls /\ c.on \in up /\ c.todo = {}
    /\ calls' = calls \ {c}
    /\ IF c.byThread /\ c.found # {} /\ active[c.on] # NoClaim
       THEN cancelled' = cancelled \cup {c.on}
       ELSE \/ UNCHANGED cancelled
            \/ \E a \in c.found : \E s \in SubscribersOf(a) :
                  cancelled' = cancelled \cup {s}
    /\ UNCHANGED <<storeVars, submit, taskVars, exec, active, runs, maint, hostVars>>

CallStep(c) == CallClosesRun(c) \/ CallCancelsActive(c)

-----------------------------------------------------------------------------
(* run_sweep.  The pass over the terminal dispatches ends every sweep.     *)

MaintIs(s, at) == s \in up /\ maint[s].at = at
MaintAt(s, at) == maint' = [maint EXCEPT ![s].at = at]

\* The records that this step of the store changed.
Changed == {d \in Dispatch : dispatches'[d] # dispatches[d]}

SweepReclaims(s) ==
    /\ MaintIs(s, "sweeping")
    /\ ReclaimExpiredLeases
    /\ maint' = [maint EXCEPT ![s] = [@ EXCEPT !.at = "reclaimed", !.todo = Changed]]
    /\ UNCHANGED <<submit, calls, taskVars, exec, runtimeVars, runs, hostVars>>

\* The run of the reclaimed dispatch is closed if the dispatch ended ...
SweepReconcilesReclaimed(s) ==
    /\ MaintIs(s, "reclaimed")
    /\ \E d \in maint[s].todo : runs' = RunReconciled(d)
    /\ MaintAt(s, "wakes")
    /\ UNCHANGED <<storeVars, submit, calls, taskVars, exec, runtimeVars, hostVars>>

\* A sweep that reclaims and wakes nobody.
SweepWakesNobody(s) ==
    /\ MaintIs(s, "wakes")
    /\ maint' = [maint EXCEPT ![s] = Sweeping]
    /\ UNCHANGED <<storeVars, submit, calls, taskVars, exec, runtimeVars, runs,
                   hostVars>>

\* ... or the worker is woken if it was requeued.  The sweep looks at the
\* copy it was returned: a wake for a dispatch that ended meanwhile finds
\* nothing to claim.
SweepWakesWorker(s) ==
    /\ MaintIs(s, "wakes")
    /\ \/ TryDispatch(s)
       \/ /\ \A d \in maint[s].todo : StatusOf(d) \in Terminal
          /\ UNCHANGED <<worker, claiming>>
    /\ maint' = [maint EXCEPT ![s] = Sweeping]
    /\ UNCHANGED <<storeVars, submit, calls, empty, starting, renewals, exec,
                   runtimeVars, runs, hostVars>>

\* reconcile_terminal_dispatches, one dispatch of the list.
SweepReconciles(s, d) ==
    /\ MaintIs(s, "sweeping") \/ MaintIs(s, "queued")
    /\ RunReconciled(d) # runs
    /\ runs' = RunReconciled(d)
    /\ UNCHANGED <<storeVars, submit, calls, taskVars, exec, runtimeVars, maint,
                   hostVars>>

SweepStep(s) ==
    \/ SweepReclaims(s) \/ SweepReconcilesReclaimed(s) \/ SweepWakesWorker(s)
    \/ \E d \in Dispatch : SweepReconciles(s, d)

-----------------------------------------------------------------------------
(* recover(), at start.                                                    *)

RecoverReclaims(s) ==
    /\ MaintIs(s, "boot")
    /\ \/ ReclaimExpiredLeases
       \/ Expired = {} /\ UNCHANGED storeVars
    /\ MaintAt(s, "queued")
    /\ UNCHANGED <<submit, calls, taskVars, exec, runtimeVars, runs, hostVars>>

\* queued_thread_ids: every thread with a queued dispatch is tried.
RecoverWakesQueued(s) ==
    LET queued == \E d \in Dispatch : IsQueued(d)
    IN  /\ MaintIs(s, "queued")
        /\ IF queued THEN TryDispatch(s) ELSE UNCHANGED <<worker, claiming>>
        /\ maint' = [maint EXCEPT ![s] = [@ EXCEPT !.at = "list",
                                   !.wake = IF queued THEN "done" ELSE "none"]]
        /\ UNCHANGED <<storeVars, submit, calls, empty, starting, renewals, exec,
                       runtimeVars, runs, hostVars>>

\* The prepared runs, without those that are new.
WaitingRuns ==
    {d \in Dispatch : runs[RunOf[d]] = [status |-> "Waiting", by |-> <<d>>]}

\* prepared_runs_missing_dispatch_wal: the runs that were given a dispatch
\* and did not start.
PreparedRuns ==
    {d \in Dispatch : /\ runs[RunOf[d]].by = <<d>>
                      /\ runs[RunOf[d]].status \in {"Created", "Waiting"}}

RecoverListsPrepared(s) ==
    /\ MaintIs(s, "list")
    /\ maint' = [maint EXCEPT ![s] = [@ EXCEPT !.at = "prepared", !.todo = PreparedRuns]]
    /\ UNCHANGED <<storeVars, submit, calls, taskVars, exec, runtimeVars, runs,
                   hostVars>>

\* load_dispatch: is the dispatch in the store?
RecoverLoads(s) ==
    /\ MaintIs(s, "prepared")
    /\ \E d \in maint[s].todo :
         maint' = [maint EXCEPT ![s] =
             [maint[s] EXCEPT !.todo = @ \ {d},
                              !.pick = IF IsStored(d) THEN @ ELSE @ \cup {d},
                              !.at = IF IsStored(d) THEN "prepared" ELSE "enqueue"]]
    /\ UNCHANGED <<storeVars, submit, calls, taskVars, exec, runtimeVars, runs,
                   hostVars>>

\* The dispatch is queued again.  If a submit was faster the insert fails on
\* the primary key, and the recovery is retried from its start.
RecoverEnqueues(s) ==
    /\ MaintIs(s, "enqueue")
    /\ \E d \in maint[s].pick :
         IF IsStored(d)
         THEN /\ maint' = [maint EXCEPT ![s] = [Sweeping EXCEPT !.at = "boot"]]
              /\ UNCHANGED storeVars
         ELSE /\ Enqueue(d, TRUE)
              /\ maint' = [maint EXCEPT ![s] =
                     [maint[s] EXCEPT !.at = "prepared", !.pick = {},
                                      !.wake = IF @ = "none" THEN "due" ELSE @]]
    /\ UNCHANGED <<submit, calls, taskVars, exec, runtimeVars, runs, hostVars>>

\* The thread is tried after the last enqueue, unless it was tried before.
RecoverEnds(s) ==
    /\ MaintIs(s, "prepared") /\ maint[s].todo = {}
    /\ IF maint[s].wake = "due" THEN TryDispatch(s) ELSE UNCHANGED <<worker, claiming>>
    /\ maint' = [maint EXCEPT ![s] = Sweeping]
    /\ UNCHANGED <<storeVars, submit, calls, empty, starting, renewals, exec,
                   runtimeVars, runs, hostVars>>

RecoverStep(s) ==
    \/ RecoverReclaims(s) \/ RecoverWakesQueued(s) \/ RecoverListsPrepared(s)
    \/ RecoverLoads(s) \/ RecoverEnqueues(s) \/ RecoverEnds(s)

-----------------------------------------------------------------------------
(* Crash and restart of a server: the store and the run records survive.   *)

Crash(s) ==
    /\ s \in up /\ crashes < MaxCrashes
    /\ up' = up \ {s} /\ crashes' = crashes + 1
    /\ submit' = [d \in Dispatch |->
           IF HomeOf[d] = s /\ submit[d].at \notin {"new", "done", "conflict", "failed"}
           THEN [at |-> "lost", todo |-> {}, found |-> {}] ELSE submit[d]]
    /\ calls' = {c \in calls : c.on # s}
    /\ worker' = [worker EXCEPT ![s] = Idle]
    /\ claiming' = [claiming EXCEPT ![s] = 0] /\ empty' = [empty EXCEPT ![s] = 0]
    /\ starting' = {p \in starting : p.on # s}
    /\ renewals' = {p \in renewals : p.on # s}
    /\ exec' = {e \in exec : e.on # s}
    /\ active' = [active EXCEPT ![s] = NoClaim] /\ cancelled' = cancelled \ {s}
    /\ maint' = [maint EXCEPT ![s] = [Sweeping EXCEPT !.at = "boot"]]
    /\ UNCHANGED <<storeVars, runs, lapses, called>>

Restart(s) ==
    /\ s \notin up /\ up' = up \cup {s}
    /\ UNCHANGED <<storeVars, submit, calls, taskVars, exec, runtimeVars, runs,
                   maint, lapses, crashes, called>>

\* A lease runs out or a dispatch becomes available.  That is late if a task
\* is there that was to renew the lease, or to claim or undo the dispatch.
TimePasses(d) ==
    LET late == \/ \E p \in renewals : p.claim = <<d, dispatches[d].token>>
                \/ submit[d].at \in {"claim", "undo"}
    IN  /\ LeaseLapses(d) \/ BecomesAvailable(d)
        /\ IF late THEN lapses < MaxLapses /\ lapses' = lapses + 1
                   ELSE UNCHANGED lapses
        /\ UNCHANGED <<submit, calls, taskVars, exec, runtimeVars, runs, maint, up,
                       crashes, called>>

ServerStep(s) ==
    \/ ClaimNext(s) \/ RevertClaiming(s) \/ SweepStep(s) \/ RecoverStep(s)

ServiceNext ==
    \/ \E d \in Dispatch : SubmitStep(d) \/ TimePasses(d)
    \/ \E p \in starting : StartExecution(p)
    \/ \E e \in exec : ExecStep(e) \/ RunStep(e)
    \/ \E p \in renewals : RenewLease(p)
    \/ \E c \in calls : CallStep(c)
    \/ \E s \in Server :
         \/ ServerStep(s) \/ Crash(s) \/ Restart(s)
         \/ ApiInterrupts(s) \/ \E d \in Dispatch : ApiCancelsDispatch(s, d)

ServiceSpec == ServiceInit /\ [][ServiceNext]_serviceVars

-----------------------------------------------------------------------------
(* Fairness: the tokio scheduler runs every task that can run, intervals    *)
(* tick and deadlines pass; a crashed server is restarted by its            *)
(* supervisor; an agent run ends, since its rounds are limited and its      *)
(* calls time out.  No caller has to call, nobody has to decide on a        *)
(* suspended tool call, and nothing has to crash.                           *)

Fairness ==
    /\ \A d \in Dispatch :
         /\ WF_serviceVars(submit[d].at # "new" /\ SubmitStep(d)) /\ WF_serviceVars(TimePasses(d))
         /\ \A s \in Server : WF_serviceVars(SweepReconciles(s, d))
    /\ \A c \in ClaimId, s \in Server :
         /\ WF_serviceVars(StartExecution([claim |-> c, on |-> s]))
         /\ WF_serviceVars(RenewLease([claim |-> c, on |-> s]))
         /\ WF_serviceVars(\E e \in exec : e.claim = c /\ e.on = s /\ ExecStep(e))
         /\ WF_serviceVars(\E e \in exec : e.claim = c /\ e.on = s
                                /\ (RunEnds(e) \/ SuspendedRunEnds(e)))
    /\ \A s \in Server :
         /\ WF_serviceVars(ClaimNext(s)) /\ WF_serviceVars(RevertClaiming(s)) /\ WF_serviceVars(Restart(s))
         /\ WF_serviceVars(SweepReclaims(s)) /\ WF_serviceVars(SweepReconcilesReclaimed(s))
         /\ WF_serviceVars(SweepWakesWorker(s)) /\ WF_serviceVars(RecoverStep(s))
    /\ WF_serviceVars(\E c \in calls : CallStep(c))

FairServiceSpec == ServiceSpec /\ Fairness

-----------------------------------------------------------------------------
(* Properties.                                                             *)

\* The tasks that answer for a claim: to spawn its execution, or to execute.
HolderOf(c) ==
    {p \in starting : p.claim = c} \cup
    {e \in exec : e.claim = c /\ e.at \notin {"close", "letter", "release", "next"}}

\* While no server crashes: a worker that is not Idle has a task that will make it
\* Idle again, so no thread is stuck behind a Claiming or Running that nobody owns;
\* and a claimed dispatch has exactly one task that holds its current token, so an
\* ack, nack or dead letter is never skipped and never sent twice.  Neither a claim
\* that raced an inline submit, nor a revert or a stale execution disturbs this.
WorkerHasTask ==
    /\ \A s \in Server :
        /\ worker[s].status = "Running" =>
             \E e \in exec : e.on = s /\ e.claim = worker[s].claim /\ e.at # "next"
        /\ worker[s] = Claiming =>
             claiming[s] + empty[s] > 0 \/ \E p \in starting : p.on = s
    /\ \A d \in Dispatch :
        IsClaimed(d) => Cardinality(HolderOf(<<d, dispatches[d].token>>)) = 1

\* While no deadline is missed, a claim of the current epoch has its lease
\* renewal where it executes, so that it is never reclaimed.
ClaimIsRenewed ==
    \A d \in Dispatch :
        IsClaimed(d) /\ ~IsStale(d) =>
            \E t \in HolderOf(<<d, dispatches[d].token>>) :
                [claim |-> t.claim, on |-> t.on] \in renewals

\* No claim is immortal: a lease is renewed only while a task is there that
\* will settle the claim.  Otherwise it lapses, and a sweep reclaims it.
RenewedIsExecuted ==
    \A p \in renewals :
        IsClaimed(p.claim[1]) /\ HasToken(p.claim[1], p.claim[2]) =>
            HolderOf(p.claim) # {}

\* A run that was prepared by a submit its server did not survive has its
\* dispatch in the store, or the startup recovery of the server is going to
\* find it missing.
LostSubmitIsRecovered ==
    \A d \in Dispatch :
        LET s == HomeOf[d]
        IN  /\ submit[d].at = "lost" /\ ~IsStored(d)
            /\ runs[RunOf[d]].by = <<d>>
            /\ runs[RunOf[d]].status \in {"Created", "Waiting"}
            => \/ s \notin up \/ maint[s].at \in {"boot", "queued", "list"}
               \/ d \in maint[s].todo \cup maint[s].pick

\* The servers together run at most one run of the thread.
SingleActiveRun == Cardinality({s \in Server : active[s] # NoClaim}) <= 1

\* A dispatch whose claim is current when its run is to begin finds the slot
\* of its thread free: none is dead-lettered for ThreadAlreadyRunning.
OwnerFindsSlotFree ==
    \A e \in exec :
        e.at = "run" /\ Owns(e.claim[1], e.claim[2]) => active[e.on] = NoClaim

\* A renewal that finds its lease lost cancels the run of that lease and not
\* a later run of the thread, which holds a lease of its own.
LostLeaseCancelsOwnRun ==
    \A p \in renewals :
        p.on \in up /\ ~Owns(p.claim[1], p.claim[2]) => active[p.on] \in {NoClaim, p.claim}

\* A submit that answered with a conflict leaves nothing to be executed: no
\* active dispatch, and no open run record that names it.
RejectedLeavesNothing ==
    \A d \in Dispatch : submit[d].at = "conflict" =>
        /\ StatusOf(d) \in {"Absent", "Cancelled", "Superseded"}
        /\ runs[RunOf[d]].by = <<d>> => runs[RunOf[d]].status \in Closed

\* An acked dispatch left its run settled: ended, or waiting for input.
AckedRunIsSettled ==
    \A d \in Dispatch :
        StatusOf(d) = "Acked" /\ runs[RunOf[d]].by = <<d>> =>
            runs[RunOf[d]].status \in Closed \cup {"Waiting"}

\* submit() answers: none of its waits is for ever.
SubmitReturns ==
    \A d \in Dispatch :
        submit[d].at # "new" ~> submit[d].at \in {"done", "conflict", "failed", "lost"}

\* A claim ends, its server alive or not.
ClaimIsReleased == \A d \in Dispatch : IsClaimed(d) ~> ~IsClaimed(d)

\* A dispatch that is queued is claimed, or ended.
QueuedIsServed == \A d \in Dispatch : IsQueued(d) ~> ~IsQueued(d)

\* The run of a dispatch that ended without being delivered does not stay
\* open.
TerminalRunIsClosed ==
    \A d \in Dispatch :
        StatusOf(d) \in {"Cancelled", "Superseded", "DeadLetter"} ~>
            runs[RunOf[d]].status \notin Open
=============================================================================
