--------------------------- MODULE BackgroundTasks ---------------------------
(***************************************************************************)
(* BackgroundTaskManager and its BackgroundTaskPlugin, the inbox of a run, *)
(* and the end of the run loop, for the runs of one thread.                *)
(*                                                                         *)
(* A tool of the run, or a task, spawns a task: the manager writes its     *)
(* metadata to a StateStore, starts a future and keeps a handle.  When the *)
(* future returns, the metadata is updated and an event is sent to the     *)
(* inbox of the run that was last bound when the task was spawned.  A run  *)
(* that ends while tasks are running waits: a sub-agent in the process, a  *)
(* top-level run by giving up its worker until a wake dispatch.            *)
(*                                                                         *)
(* The manager is shared by the runs of the process (one plugin instance   *)
(* in the registry) while every run has a StateStore of its own, so the    *)
(* manager is bound to the store of the first run it meets.  Threads are   *)
(* scheduled in parallel: an action is what happens between two accesses   *)
(* to the metadata, the handle table, the inbox or the cancelled run ids.  *)
(***************************************************************************)
EXTENDS Naturals, FiniteSets

CONSTANTS
    MaxTasks,   \* bound: tasks spawned by one process
    MaxRuns,    \* bound: activations of the thread
    MaxCrashes  \* bound: restarts of the process

ASSUME TasksAssumption ==
    MaxTasks \in Nat /\ MaxRuns \in Nat /\ MaxCrashes \in Nat

Task == 0..(MaxTasks - 1)       \* bg_<n>
Loop == MaxTasks                \* the run itself, as a spawner
Submit == MaxTasks              \* the dispatch of a user's request
Recovered == MaxTasks + 1       \* the wake dispatch of recover()

VARIABLES
    origin,     \* RunOrigin of the runs: User (top-level) or Subagent
    run,        \* the current or last activation of the thread
    record,     \* status of the stored run record
    persisted,  \* thread state of the last checkpoint: task -> status
    copy,       \* the task metadata in the StateStore of the run ...
    meta,       \* ... and in the StateStore the manager is bound to
    bound,      \* the activation whose StateStore that is
    counter,    \* next task id
    parent,     \* who spawned a task
    spawn,      \* progress of the spawn call of a task
    future,     \* progress of a task
    sender,     \* the activation whose inbox a task has captured
    handles,    \* tasks with a handle
    signalled,  \* tasks whose cancellation token is cancelled
    inbox,      \* events buffered in the inbox of the current activation
    notices,    \* events whose inbox was closed, wake dispatch to be queued
    wakes,      \* queued dispatches of the thread
    sweep,      \* the cancellation of the run and its guard
    lost,       \* history: events that were dropped with an inbox
    crashes     \* what was spent of MaxCrashes

runVars == <<run, record, persisted, copy>>
metaVars == <<meta, bound>>
spawnVars == <<counter, parent, spawn, sender>>
taskVars == <<future, handles, signalled>>
eventVars == <<inbox, notices, wakes, lost>>
tasksVars == <<origin, runVars, metaVars, spawnVars, taskVars, eventVars, sweep,
               crashes>>

TaskStatus == {"Running", "Completed", "Cancelled", "Failed"}
NoTasks == [t \in Task |-> "None"]
Terminal(status) == status \notin {"None", "Running"}

Active == run.pc # "idle"
LoopAt(pc) == run.pc = pc
LoopGoto(pc) == run' = [run EXCEPT !.pc = pc]

\* The tasks in the StateStore of the current run.
OwnTasks == IF bound = run.id THEN meta ELSE copy

\* has_running
HasRunning == \E t \in Task : meta[t] = "Running"

\* Spawn calls that their caller still awaits.
Spawning(p) == {t \in Task : parent[t] = p /\ spawn[t] \in {"checked", "committed"}}

----------------------------------------------------------------------------
(* The manager: spawn, completion, cancel.                                  *)

\* spawn: an id is taken, and the call refused when the run was cancelled.
SpawnBegins(p) ==
    /\ \/ p = Loop /\ LoopAt("step")
       \/ p \in Task /\ future[p] = "running"
    /\ Spawning(p) = {}
    /\ counter \in Task
    /\ counter' = counter + 1
    /\ IF sweep.marked THEN UNCHANGED <<parent, spawn>>
       ELSE /\ parent' = [parent EXCEPT ![counter] = p]
            /\ spawn' = [spawn EXCEPT ![counter] = "checked"]
    /\ UNCHANGED <<origin, sender, runVars, metaVars, taskVars, eventVars,
                   sweep, crashes>>

\* The metadata is written, the owner inbox captured, the future started.
SpawnCommits(t) ==
    /\ spawn[t] = "checked"
    /\ spawn' = [spawn EXCEPT ![t] = "committed"]
    /\ meta' = [meta EXCEPT ![t] = "Running"]
    /\ future' = [future EXCEPT ![t] = "running"]
    /\ sender' = [sender EXCEPT ![t] = run.id]
    /\ UNCHANGED <<origin, bound, counter, parent, handles, signalled, runVars,
                   eventVars, sweep, crashes>>

\* Mutant: the handle of a task is inserted, and nothing is checked again.
InsertsHandle(t) ==
    /\ spawn[t] = "committed"
    /\ spawn' = [spawn EXCEPT ![t] = "done"]
    /\ handles' = handles \cup {t}
    /\ UNCHANGED <<origin, counter, parent, sender, future, signalled, runVars,
                   metaVars, eventVars, sweep, crashes>>

\* insert_handle_and_cancel_if_parent_run_cancelled
SpawnInserts(t) ==
    /\ spawn[t] = "committed"
    /\ spawn' = [spawn EXCEPT ![t] = "done"]
    /\ handles' = handles \cup {t}
    /\ signalled' = IF sweep.marked THEN signalled \cup {t} ELSE signalled
    /\ UNCHANGED <<origin, counter, parent, sender, future, runVars, metaVars,
                   eventVars, sweep, crashes>>

\* The future of a task returns; how it answers a cancellation is its choice.
Returns(t) ==
    /\ future[t] = "running"
    /\ Spawning(t) = {}
    /\ \E result \in {"Completed"} \cup (IF t \in signalled THEN {"Cancelled"} ELSE {}) :
          future' = [future EXCEPT ![t] = result]
    /\ UNCHANGED <<origin, handles, signalled, runVars, metaVars, spawnVars,
                   eventVars, sweep, crashes>>

Reports(t) ==
    /\ future[t] \in {"Completed", "Cancelled"}
    /\ meta' = [meta EXCEPT ![t] = future[t]]
    /\ future' = [future EXCEPT ![t] = "reported"]
    /\ UNCHANGED <<origin, bound, handles, signalled, runVars, spawnVars,
                   eventVars, sweep, crashes>>

\* Mutant: a closed inbox has no fallback.
SendsToOpenInbox(t) ==
    /\ future[t] = "reported"
    /\ future' = [future EXCEPT ![t] = "sent"]
    /\ inbox' = IF Active /\ sender[t] = run.id THEN inbox \cup {t} ELSE inbox
    /\ UNCHANGED <<origin, handles, signalled, notices, wakes, lost, runVars,
                   metaVars, spawnVars, sweep, crashes>>

\* InboxSender::send; the inbox of a top-level run has a fallback for the
\* time when its receiver is gone, the inbox of a sub-agent has none.
Sends(t) ==
    /\ future[t] = "reported"
    /\ future' = [future EXCEPT ![t] = "sent"]
    /\ IF Active /\ sender[t] = run.id
       THEN inbox' = inbox \cup {t} /\ UNCHANGED notices
       ELSE /\ notices' = IF origin = "User" THEN notices \cup {t} ELSE notices
            /\ UNCHANGED inbox
    /\ UNCHANGED <<origin, handles, signalled, wakes, lost, runVars, metaVars,
                   spawnVars, sweep, crashes>>

\* TaskDoneMailboxNotify: the wake dispatch is submitted by a task of its own.
Notifies(t) ==
    /\ t \in notices
    /\ notices' = notices \ {t}
    /\ wakes' = wakes \cup {t}
    /\ UNCHANGED <<origin, inbox, lost, runVars, metaVars, spawnVars, taskVars,
                   sweep, crashes>>

\* cancel, by a tool of the run.
Cancels(t) ==
    /\ LoopAt("step")
    /\ t \in handles
    /\ ~Terminal(meta[t])
    /\ signalled' = signalled \cup {t}
    /\ UNCHANGED <<origin, future, handles, runVars, metaVars, spawnVars,
                   eventVars, sweep, crashes>>

----------------------------------------------------------------------------
(* Cancellation of a run, and of the descendants of a sub-agent's run.      *)

\* The token of a sub-agent's run is cancelled (that of a top-level run has
\* no other effect here than Stops).
CancelRun ==
    /\ Active /\ origin = "Subagent"
    /\ ~sweep.token
    /\ sweep' = [sweep EXCEPT !.token = TRUE, !.pc = "mark"]
    /\ UNCHANGED <<origin, runVars, metaVars, spawnVars, taskVars, eventVars,
                   crashes>>

\* cancel_descendants_for_run: the run id is remembered ...
SweepMarks ==
    /\ sweep.pc = "mark"
    /\ sweep' = [sweep EXCEPT !.pc = "roots", !.marked = TRUE]
    /\ UNCHANGED <<origin, runVars, metaVars, spawnVars, taskVars, eventVars,
                   crashes>>

\* ... then the live tasks that the run itself spawned are looked up.
SweepFindsRoots ==
    /\ sweep.pc = "roots"
    /\ sweep' = [sweep EXCEPT !.pc = "trees",
           !.roots = {t \in Task : meta[t] = "Running" /\ parent[t] = Loop}]
    /\ UNCHANGED <<origin, runVars, metaVars, spawnVars, taskVars, eventVars,
                   crashes>>

\* task_tree_ids: a task and its descendants, by the metadata.
Known == {t \in Task : meta[t] # "None"}
Ancestors[t \in Task] ==
    IF parent[t] \in 0..(t - 1) THEN {t} \cup Ancestors[parent[t]] ELSE {t}
Tree(root) == {t \in Known : root \in Ancestors[t]}

\* cancel_tree finds the descendants of a root ...
SweepReadsTree(root) ==
    /\ sweep.pc = "trees" /\ sweep.tree = {}
    /\ root \in sweep.roots
    /\ sweep' = [sweep EXCEPT !.roots = @ \ {root}, !.tree = Tree(root)]
    /\ UNCHANGED <<origin, runVars, metaVars, spawnVars, taskVars, eventVars,
                   crashes>>

\* ... and cancels those with a handle that are not terminal.
SweepCancelsTree ==
    /\ sweep.pc = "trees" /\ sweep.tree # {}
    /\ signalled' = signalled \cup
          {t \in sweep.tree \cap handles : ~Terminal(meta[t])}
    /\ sweep' = [sweep EXCEPT !.tree = {}]
    /\ UNCHANGED <<origin, future, handles, runVars, metaVars, spawnVars,
                   eventVars, crashes>>

SweepEnds ==
    /\ sweep.pc = "trees" /\ sweep.tree = {} /\ sweep.roots = {}
    /\ sweep' = [sweep EXCEPT !.pc = "done"]
    /\ UNCHANGED <<origin, runVars, metaVars, spawnVars, taskVars, eventVars,
                   crashes>>

----------------------------------------------------------------------------
(* The run loop, as far as tasks and inbox go.                              *)

\* A dispatch is claimed: the run has a new inbox and a new StateStore, into
\* which the thread state is loaded, and the manager is bound to that store
\* when it has none yet.
Starts(w) ==
    /\ ~Active
    /\ w \in wakes
    /\ run.id < MaxRuns
    /\ run' = [id |-> run.id + 1, pc |-> "start", dispatch |-> w,
               pending |-> FALSE, waits |-> FALSE]
    /\ record' = "Running"
    /\ wakes' = wakes \ {w}
    /\ copy' = persisted
    /\ IF bound = 0 THEN bound' = run.id + 1 /\ meta' = persisted
                    ELSE UNCHANGED metaVars
    /\ UNCHANGED <<origin, persisted, inbox, notices, lost, spawnVars, taskVars,
                   sweep, crashes>>

\* RunStart, restore_for_thread: tasks of the thread state that the manager's
\* store does not have are added, as failed when they ran and have no handle.
RestoredStatus(t) ==
    IF OwnTasks[t] = "Running" /\ t \notin handles THEN "Failed" ELSE OwnTasks[t]

\* Mutant: the thread state replaces what the manager's store has.
ReplacedBySnapshot == [t \in Task |-> IF OwnTasks[t] # "None" THEN RestoredStatus(t) ELSE meta[t]]

Restored == [t \in Task |-> IF meta[t] = "None" THEN RestoredStatus(t) ELSE meta[t]]

Restores ==
    /\ LoopAt("start")
    /\ meta' = Restored
    /\ counter' = LET added == {t \in Task : meta'[t] # meta[t]}
                  IN CHOOSE n \in {counter} \cup {t + 1 : t \in added} :
                        n >= counter /\ \A t \in added : n > t
    /\ LoopGoto("step")
    /\ UNCHANGED <<origin, record, persisted, copy, bound, parent, spawn,
                   sender, taskVars, eventVars, sweep, crashes>>

\* The step is over: the StepEnd hook notes whether tasks are running ...
StepEnds ==
    /\ LoopAt("step")
    /\ Spawning(Loop) = {}
    /\ run' = [run EXCEPT !.pc = "hooked", !.pending = HasRunning]
    /\ UNCHANGED <<origin, record, persisted, copy, metaVars, spawnVars,
                   taskVars, eventVars, sweep, crashes>>

\* ... and the checkpoint stores the thread state.
Checkpoints ==
    /\ LoopAt("hooked")
    /\ LoopGoto("stepped")
    /\ persisted' = IF origin = "User" THEN OwnTasks ELSE persisted
    /\ UNCHANGED <<origin, record, copy, metaVars, spawnVars, taskVars,
                   eventVars, sweep, crashes>>

\* The run had tools to call: events that came meanwhile are read.
Continues ==
    /\ LoopAt("stepped")
    /\ inbox' = {}
    /\ LoopGoto("step")
    /\ UNCHANGED <<origin, record, persisted, copy, notices, wakes, lost,
                   metaVars, spawnVars, taskVars, sweep, crashes>>

\* Mutant: events that are read at the natural end do not keep the run going.
EndsWhateverArrived ==
    /\ LoopAt("stepped")
    /\ run' = IF run.pending /\ origin = "Subagent"
              THEN [run EXCEPT !.pc = "receiving"]
              ELSE [run EXCEPT !.pc = "closing", !.waits = run.pending]
    /\ inbox' = {}
    /\ UNCHANGED <<origin, record, persisted, copy, notices, wakes, lost,
                   metaVars, spawnVars, taskVars, sweep, crashes>>

\* NaturalEnd: go on with the events that came, or wait for the tasks that
\* were running at StepEnd, or end.
EndsNaturally ==
    /\ LoopAt("stepped")
    /\ \/ /\ inbox # {}
          /\ LoopGoto("step")
       \/ /\ inbox = {} /\ run.pending /\ origin = "Subagent"
          /\ LoopGoto("receiving")
       \/ /\ inbox = {} /\ ~(run.pending /\ origin = "Subagent")
          /\ run' = [run EXCEPT !.pc = "closing", !.waits = run.pending]
    /\ inbox' = {}
    /\ UNCHANGED <<origin, record, persisted, copy, notices, wakes, lost,
                   metaVars, spawnVars, taskVars, sweep, crashes>>

\* recv_or_cancel
Receives ==
    /\ LoopAt("receiving")
    /\ \/ inbox # {} /\ LoopGoto("step")
       \/ sweep.token /\ LoopGoto("closing")
    /\ inbox' = IF run'.pc = "step" THEN {} ELSE inbox
    /\ UNCHANGED <<origin, record, persisted, copy, notices, wakes, lost,
                   metaVars, spawnVars, taskVars, sweep, crashes>>

\* The step was cancelled, blocked or terminated.
Stops ==
    /\ LoopAt("stepped")
    /\ LoopGoto("closing")
    /\ UNCHANGED <<origin, record, persisted, copy, metaVars, spawnVars,
                   taskVars, eventVars, sweep, crashes>>

\* The last checkpoint, with the final status of the run ...
Closes ==
    /\ LoopAt("closing")
    /\ LoopGoto("closed")
    /\ record' = IF run.waits THEN "Waiting" ELSE "Done"
    /\ persisted' = IF origin = "User" THEN OwnTasks ELSE persisted
    /\ UNCHANGED <<origin, copy, metaVars, spawnVars, taskVars, eventVars,
                   sweep, crashes>>

\* ... then the loop returns, its inbox is dropped and its dispatch acked.
Drops ==
    /\ LoopAt("closed")
    /\ LoopGoto("idle")
    /\ lost' = lost \cup inbox
    /\ inbox' = {}
    /\ UNCHANGED <<origin, record, persisted, copy, notices, wakes, metaVars,
                   spawnVars, taskVars, sweep, crashes>>

\* The process stops, another one starts: its recovery wakes the run that
\* waits for tasks, unless a dispatch of the thread is queued, as the
\* dispatch of an interrupted activation is.
Crash ==
    /\ origin = "User"
    /\ crashes < MaxCrashes
    /\ crashes' = crashes + 1
    /\ LoopGoto("idle")
    /\ LET queued == wakes \cup (IF Active THEN {run.dispatch} ELSE {})
       IN wakes' = IF queued = {} /\ record = "Waiting"
                   THEN {Recovered} ELSE queued
    /\ meta' = NoTasks /\ bound' = 0
    /\ counter' = 0
    /\ parent' = [t \in Task |-> Loop]
    /\ spawn' = [t \in Task |-> "none"]
    /\ future' = [t \in Task |-> "none"]
    /\ sender' = [t \in Task |-> 0]
    /\ handles' = {} /\ signalled' = {}
    /\ inbox' = {} /\ notices' = {}
    /\ copy' = persisted
    /\ UNCHANGED <<origin, record, persisted, lost, sweep>>

----------------------------------------------------------------------------
TasksInit ==
    /\ origin \in {"User", "Subagent"}
    /\ run = [id |-> 0, pc |-> "idle", dispatch |-> Submit, pending |-> FALSE,
              waits |-> FALSE]
    /\ record = "None"
    /\ persisted = NoTasks /\ copy = NoTasks /\ meta = NoTasks
    /\ bound = 0
    /\ counter = 0
    /\ parent = [t \in Task |-> Loop]
    /\ spawn = [t \in Task |-> "none"]
    /\ future = [t \in Task |-> "none"]
    /\ sender = [t \in Task |-> 0]
    /\ handles = {} /\ signalled = {}
    /\ inbox = {} /\ notices = {} /\ lost = {}
    /\ wakes = {Submit}
    /\ sweep = [token |-> FALSE, marked |-> FALSE, pc |-> "off", roots |-> {},
                tree |-> {}]
    /\ crashes = 0

TaskStep(t) ==
    \/ SpawnCommits(t) \/ SpawnInserts(t) \/ Returns(t) \/ Reports(t)
    \/ Sends(t) \/ Notifies(t)

LoopStep ==
    \/ \E w \in Task \cup {Submit, Recovered} : Starts(w)
    \/ Restores \/ StepEnds \/ Checkpoints \/ Continues \/ EndsNaturally
    \/ Receives \/ Stops \/ Closes \/ Drops

SweepStep ==
    \/ SweepMarks \/ SweepFindsRoots \/ SweepCancelsTree \/ SweepEnds
    \/ \E root \in Task : SweepReadsTree(root)

TasksNext ==
    \/ \E t \in Task : TaskStep(t) \/ Cancels(t)
    \/ \E p \in Task \cup {Loop} : SpawnBegins(p)
    \/ LoopStep \/ SweepStep \/ CancelRun \/ Crash

\* The runtime polls every future that is ready.  A task returns some day,
\* and the model answers some day without calling a tool.
TasksSpec ==
    /\ TasksInit /\ [][TasksNext]_tasksVars
    /\ \A t \in Task : WF_tasksVars(TaskStep(t))
    /\ WF_tasksVars(LoopStep)
    /\ SF_tasksVars(EndsNaturally)
    /\ WF_tasksVars(SweepStep)

----------------------------------------------------------------------------
\* Type invariant; an inbox has events of its own activation only.
TasksTypeOK ==
    /\ run.id \in 0..MaxRuns
    /\ bound \in 0..run.id
    /\ counter \in 0..MaxTasks
    /\ \A t \in Task : {meta[t], copy[t], persisted[t]} \subseteq TaskStatus \cup {"None"}
    /\ signalled \subseteq handles
    /\ \A t \in inbox : sender[t] = run.id /\ future[t] = "sent"
    /\ Active \/ inbox = {}
    /\ wakes \subseteq Task \cup {Submit, Recovered}

\* When the sweep of a cancelled sub-agent run is over, no task escapes it
\* whose spawners were alive, whatever was being spawned meanwhile.
SweepMissesNoLiveTask ==
    sweep.pc = "done" =>
        \A t \in handles :
            (\A a \in Ancestors[t] : meta[a] = "Running") => t \in signalled

\* run_cancellation.rs: "late/recursive spawns cannot escape this sweep".
CancelReachesDescendants ==
    sweep.pc = "done" =>
        \A t \in handles : future[t] = "running" => t \in signalled

\* A sub-agent that waits for task events has one to come.
SubagentIsNotStuck ==
    LoopAt("receiving") =>
        \/ inbox # {} \/ sweep.token
        \/ \E t \in Task : sender[t] = run.id /\ future[t] \notin {"none", "sent"}

\* What a task has reported stays, in this process: no later run of the
\* thread brings back what an older checkpoint says of it.
DoneTaskStaysDone ==
    [][crashes' = 0 => \A t \in Task : Terminal(meta[t]) => meta'[t] = meta[t]]_tasksVars

\* A run that waits for tasks is continued when they are done, unless their
\* events were dropped with its inbox.
WaitingRunIsContinued ==
    (record = "Waiting" /\ ~Active)
        ~> (Active \/ lost # {} \/ crashes # 0 \/ run.id = MaxRuns)

\* orchestrator.rs: "don't terminate with unprocessed messages".
EventIsSeen == origin = "User" => lost = {}

\* hook.rs: "RunStart: restores persisted metadata and performs orphan
\* detection": from then on, a task that is recorded as running has a future.
OrphanIsFailed ==
    Active /\ ~LoopAt("start") =>
        \A t \in Task : meta[t] = "Running" => future[t] # "none"
=============================================================================
