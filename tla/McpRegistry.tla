----------------------------- MODULE McpRegistry -----------------------------
(***************************************************************************)
(* One server of the MCP tool registry (remo-ext-mcp/src/manager.rs): its  *)
(* slot, the connections made for it, the registry that publishes its      *)
(* tools, and the tasks that meet there:                                   *)
(*   - Caller: calls under a lease of the connection (with_runtime_lease:  *)
(*     tool calls, prompts, resources), which report what became of them   *)
(*     and reconnect a server that failed too often,                       *)
(*   - "timer": the periodic refresh,                                      *)
(*   - "watcher": the refresh that a list_changed notice asks for,         *)
(*   - "host": the orders reconnect() and toggle(), one at a time,         *)
(*   - "closer": close_all().                                              *)
(* A reconnection and a refresh run under the lifecycle lock of the slot;  *)
(* a call, its success, and close_all do not.  A step is what happens      *)
(* between two awaits, or under one write lock.                            *)
(*                                                                         *)
(* Abstracted: a catalogue is its number, growing with every change; a     *)
(* connection is its generation; any call to the server may fail, MaxFaults *)
(* times.  The watchers of an old and a new connection are one task.       *)
(* Not here: capabilities, conflicts of tool ids between servers, the      *)
(* numbers that are only shown, the resource updates.                      *)
(***************************************************************************)
EXTENDS Integers, FiniteSets

CONSTANTS
    Caller,
    FailureThreshold,      \* failures in a row that make it reconnect
    MaxReconnectAttempts,  \* failed reconnections in a row that make it give up
    \* bounds of the model
    MaxFaults, MaxChanges, MaxOrders, MaxDrops

ASSUME McpAssumption ==
    /\ FailureThreshold \in Nat \ {0} /\ MaxReconnectAttempts \in Nat \ {0}
    /\ {MaxFaults, MaxChanges, MaxOrders, MaxDrops} \subseteq Nat
    /\ Caller \cap {"timer", "watcher", "host", "closer", "nobody"} = {}

VARIABLES
    slot,      \* McpServerSlot
    lock,      \* who holds its lifecycle_lock
    registry,  \* McpRegistrySnapshot: the published catalogue, 0 for none
    task,      \* per task: the next step, its lease or new connection, what it read
    link,      \* per generation: the connection
    offered,   \* the server's own catalogue
    notice,    \* a list_changed notice waits
    stopped,   \* close_all has stopped the timer
    own,       \* history: failed calls per generation, while it was open
    faults, orders, drops  \* counted for the bounds

mcpVars == <<slot, lock, registry, task, link, offered, notice, stopped, own,
             faults, orders, drops>>

Task == Caller \cup {"timer", "watcher", "host", "closer"}
Kind == {"Discovery", "Rpc"}

\* Bound: a generation is made by an order or after a fault, so that there are
\* always enough.
Generation == 1 .. 1 + MaxFaults + MaxOrders
NoTask == [at |-> "idle", job |-> "none", lease |-> 0, old |-> 0, seen |-> 0]
NoFailures == [k \in Kind |-> 0]

\* build_servers, and the first discovery, which publishes catalogue 1
McpInit ==
    /\ slot = [lifecycle |-> "Connected", runtime |-> 1, published |-> 1,
               attempts |-> 0, failures |-> NoFailures, next |-> 2]
    /\ lock = "nobody"
    /\ registry = 1
    /\ task = [t \in Task |-> NoTask]
    /\ link = [g \in Generation |-> IF g = 1 THEN "open" ELSE "none"]
    /\ offered = 1
    /\ notice = FALSE
    /\ stopped = FALSE
    /\ own = [g \in Generation |-> 0]
    /\ faults = 0 /\ orders = 0 /\ drops = 0

At(t, step) == task[t].at = step
Goes(t, step) == task' = [task EXCEPT ![t].at = step]

\* The task is over; a lock that it holds is released with it.
Ends(t) ==
    /\ task' = [task EXCEPT ![t] = NoTask]
    /\ lock' = IF lock = t THEN "nobody" ELSE lock

\* A call to the server over connection g fails: at once when it is closed.
MayFail(g) ==
    IF link[g] = "open" THEN faults < MaxFaults /\ faults' = faults + 1
    ELSE faults' = faults

SpendsFault == faults < MaxFaults /\ faults' = faults + 1

KeepLink == UNCHANGED <<link, own, faults>>
KeepWorld == UNCHANGED <<offered, notice, stopped, orders, drops>>

----------------------------------------------------------------------------
(* The transitions of a slot. *)

MarkPermanentFailure(s) ==
    [s EXCEPT !.lifecycle = "PermanentlyFailed", !.runtime = 0, !.published = 0]

FinishReconnectFailure(s) ==
    LET failed == [s EXCEPT !.attempts = @ + 1, !.lifecycle = "Disconnected"] IN
    IF failed.attempts >= MaxReconnectAttempts THEN MarkPermanentFailure(failed) ELSE failed

\* Mutant: the state of the transition is left.
KeepsReconnecting(s) == s

FinishReconnectCloseFailure(s) == [s EXCEPT !.lifecycle = "Disconnected"]

BeginReconnect(s) ==
    [s EXCEPT !.lifecycle = IF s.runtime # 0 THEN "Reconnecting" ELSE "Connecting",
              !.runtime = 0, !.next = @ + 1]

FinishReconnectSuccess(s, g, catalogue) ==
    [s EXCEPT !.lifecycle = "Connected", !.runtime = g, !.published = catalogue,
              !.attempts = 0, !.failures = NoFailures]

BeginDisable(s) ==
    IF s.lifecycle = "Disabled" THEN s
    ELSE [s EXCEPT !.lifecycle = "Disabling", !.runtime = 0]

FinishDisable(s) ==
    [s EXCEPT !.lifecycle = "Disabled", !.runtime = 0, !.published = 0,
              !.failures = NoFailures]

Enable(s) ==
    [s EXCEPT !.lifecycle = "Disconnected", !.attempts = 0, !.failures = NoFailures]

\* close_all: budgets and attempts are left
CloseSlot(s) == [s EXCEPT !.lifecycle = "Disabled", !.runtime = 0, !.published = 0]

\* Mutant: the generation is not compared.
HasRuntime(s, g) == s.runtime # 0 /\ s.lifecycle = "Connected"

\* What a task learned over connection g counts for the slot while g is its
\* connection (mark_runtime_operation_result_if_current).
IsCurrentRuntime(s, g) == s.runtime = g /\ s.lifecycle = "Connected"

MarkFailure(s, kind, g) ==
    IF IsCurrentRuntime(s, g) THEN [s EXCEPT !.failures[kind] = @ + 1] ELSE s

MarkSuccess(s, g) ==
    IF IsCurrentRuntime(s, g) THEN [s EXCEPT !.failures["Rpc"] = 0] ELSE s

ApplyCatalog(s, g, catalogue) ==
    IF s.runtime = g
    THEN [s EXCEPT !.published = catalogue, !.failures["Discovery"] = 0,
                   !.attempts = 0, !.lifecycle = "Connected"]
    ELSE s

\* discover_tools
Discover(s) ==
    IF s.lifecycle \in {"Disabled", "Disabling", "PermanentlyFailed"} THEN 0 ELSE s.published

----------------------------------------------------------------------------
(* reconnect_server_locked, run by a task that holds the lock, and what each
   caller does afterwards. *)

\* A call rebuilds the registry whatever came of it, the lock still held; a
\* refresh rebuilds it without the lock; an order gives up after an error.
AfterReconnect(t, succeeded) ==
    IF task[t].job \in {"order", "enable"} /\ ~succeeded THEN Ends(t)
    ELSE /\ Goes(t, "rebuild")
         /\ lock' = IF task[t].job \in {"refresh", "order"} THEN "nobody" ELSE lock

BeginsReconnect(t) ==
    /\ At(t, "begin")
    /\ IF slot.lifecycle = "Disabled" \/ slot.attempts >= MaxReconnectAttempts
       THEN /\ slot' = IF slot.lifecycle = "Disabled" THEN slot
                       ELSE MarkPermanentFailure(slot)
            /\ AfterReconnect(t, FALSE)
       ELSE /\ slot.next \in Generation
            /\ slot' = BeginReconnect(slot)
            /\ task' = [task EXCEPT
                   ![t] = [@ EXCEPT !.at = IF slot.runtime # 0 THEN "closing" ELSE "connecting",
                                    !.lease = slot.next, !.old = slot.runtime]]
            /\ UNCHANGED lock
    /\ KeepLink
    /\ KeepWorld
    /\ UNCHANGED registry

ClosesOld(t) ==
    /\ At(t, "closing")
    /\ \/ /\ link' = [link EXCEPT ![task[t].old] = "closed"]
          /\ Goes(t, "connecting")
          /\ UNCHANGED <<slot, lock, faults>>
       \/ /\ link' = [link EXCEPT ![task[t].old] = "abandoned"]
          /\ slot' = FinishReconnectCloseFailure(slot)
          /\ AfterReconnect(t, FALSE)
          /\ SpendsFault
    /\ KeepWorld
    /\ UNCHANGED <<registry, own>>

\* The backoff, connect_transport and the question for the capabilities
Connects(t) ==
    /\ At(t, "connecting")
    /\ \/ /\ link' = [link EXCEPT ![task[t].lease] = "open"]
          /\ Goes(t, "discovering")
          /\ UNCHANGED <<slot, lock, faults>>
       \/ /\ slot' = FinishReconnectFailure(slot)
          /\ AfterReconnect(t, FALSE)
          /\ SpendsFault
          /\ UNCHANGED link
    /\ KeepWorld
    /\ UNCHANGED <<registry, own>>

Discovers(t) ==
    /\ At(t, "discovering")
    /\ \/ /\ task' = [task EXCEPT ![t].at = "finishing", ![t].seen = offered]
          /\ UNCHANGED <<slot, lock, link, faults>>
       \/ /\ link' = [link EXCEPT ![task[t].lease] = "closed"]
          /\ slot' = FinishReconnectFailure(slot)
          /\ AfterReconnect(t, FALSE)
          /\ SpendsFault
    /\ KeepWorld
    /\ UNCHANGED <<registry, own>>

FinishesReconnect(t) ==
    /\ At(t, "finishing")
    /\ slot' = FinishReconnectSuccess(slot, task[t].lease, task[t].seen)
    /\ AfterReconnect(t, TRUE)
    /\ KeepLink
    /\ KeepWorld
    /\ UNCHANGED registry

\* rebuild_snapshot: the slots are read under one lock, the snapshot is
\* written under another.
ReadsSlots(t) ==
    /\ At(t, "rebuild")
    /\ task' = [task EXCEPT ![t].at = "publish", ![t].seen = Discover(slot)]
    /\ KeepLink
    /\ KeepWorld
    /\ UNCHANGED <<slot, lock, registry>>

Publishes(t) ==
    /\ At(t, "publish")
    /\ registry' = task[t].seen
    /\ IF task[t].job = "disable" THEN Goes(t, "detaching") /\ UNCHANGED lock ELSE Ends(t)
    /\ KeepLink
    /\ KeepWorld
    /\ UNCHANGED slot

----------------------------------------------------------------------------
(* with_runtime_lease *)

Leases(c) ==
    /\ At(c, "idle")
    /\ slot.lifecycle \notin {"Disabled", "PermanentlyFailed"} /\ slot.runtime # 0
    /\ task' = [task EXCEPT ![c] = [NoTask EXCEPT !.at = "called", !.job = "call",
                                                  !.lease = slot.runtime]]
    /\ KeepLink
    /\ KeepWorld
    /\ UNCHANGED <<slot, lock, registry>>

\* The answer; or an error that is not the connection's, which leaves the
\* slot as it is.
IsAnswered(c) ==
    /\ At(c, "called")
    /\ \/ link[task[c].lease] = "open" /\ slot' = MarkSuccess(slot, task[c].lease)
       \/ UNCHANGED slot
    /\ Ends(c)
    /\ KeepLink
    /\ KeepWorld
    /\ UNCHANGED registry

CallFails(c) ==
    /\ At(c, "called")
    /\ MayFail(task[c].lease)
    /\ own' = IF link[task[c].lease] = "open" THEN [own EXCEPT ![task[c].lease] = @ + 1] ELSE own
    /\ Goes(c, "failed")
    /\ KeepWorld
    /\ UNCHANGED <<slot, lock, registry, link>>

\* record_runtime_operation_failure waits for the lock.
RecordsFailure(c) ==
    /\ At(c, "failed") /\ lock = "nobody"
    /\ slot' = MarkFailure(slot, "Rpc", task[c].lease)
    /\ IF IsCurrentRuntime(slot, task[c].lease) THEN Goes(c, "marked") /\ lock' = c ELSE Ends(c)
    /\ KeepLink
    /\ KeepWorld
    /\ UNCHANGED registry

DecidesReconnect(c) ==
    /\ At(c, "marked")
    /\ IF slot.failures["Rpc"] >= FailureThreshold
       THEN Goes(c, "begin") /\ UNCHANGED lock
       ELSE Ends(c)
    /\ KeepLink
    /\ KeepWorld
    /\ UNCHANGED <<slot, registry>>

----------------------------------------------------------------------------
(* refresh_server, by the timer and the watcher; the registry is rebuilt
   after it, also when it did nothing. *)

StartsRefresh(t) ==
    /\ lock' = IF lock = "nobody" /\ slot.lifecycle \in {"Disconnected", "Connected"} THEN t ELSE lock
    /\ task' = [task EXCEPT ![t] =
           [NoTask EXCEPT !.job = "refresh", !.lease = slot.runtime,
                          !.at = IF lock' # t THEN "rebuild"
                                 ELSE IF slot.lifecycle = "Disconnected" THEN "begin"
                                 ELSE "listing"]]

TimerTicks ==
    /\ At("timer", "idle") /\ ~stopped
    /\ StartsRefresh("timer")
    /\ KeepLink
    /\ KeepWorld
    /\ UNCHANGED <<slot, registry>>

\* The notices of a new connection wait until it is in the slot.
WatcherWakes ==
    /\ At("watcher", "idle") /\ notice
    /\ \A g \in Generation : link[g] = "open" => g = slot.runtime
    /\ notice' = FALSE
    /\ StartsRefresh("watcher")
    /\ KeepLink
    /\ UNCHANGED <<slot, registry, offered, stopped, orders, drops>>

Lists(t) ==
    /\ At(t, "listing")
    /\ link[task[t].lease] = "open"
    /\ task' = [task EXCEPT ![t].at = "applying", ![t].seen = offered]
    /\ KeepLink
    /\ KeepWorld
    /\ UNCHANGED <<slot, lock, registry>>

ListFails(t) ==
    LET marked == MarkFailure(slot, "Discovery", task[t].lease)
        again  == marked.failures["Discovery"] >= FailureThreshold IN
    /\ At(t, "listing")
    /\ MayFail(task[t].lease)
    /\ own' = IF link[task[t].lease] = "open" THEN [own EXCEPT ![task[t].lease] = @ + 1] ELSE own
    /\ slot' = marked
    /\ Goes(t, IF again THEN "begin" ELSE "rebuild")
    /\ lock' = IF again THEN lock ELSE "nobody"
    /\ KeepWorld
    /\ UNCHANGED <<registry, link>>

Applies(t) ==
    /\ At(t, "applying")
    /\ slot' = ApplyCatalog(slot, task[t].lease, task[t].seen)
    /\ Goes(t, "rebuild")
    /\ lock' = "nobody"
    /\ KeepLink
    /\ KeepWorld
    /\ UNCHANGED registry

----------------------------------------------------------------------------
(* reconnect, toggle and close_all *)

IsOrdered(job) ==
    /\ At("host", "idle") /\ orders < MaxOrders
    /\ task' = [task EXCEPT !["host"] = [NoTask EXCEPT !.at = "waiting", !.job = job]]
    /\ orders' = orders + 1
    /\ KeepLink
    /\ UNCHANGED <<slot, lock, registry, offered, notice, stopped, drops>>

TakesOrder ==
    /\ At("host", "waiting") /\ lock = "nobody"
    /\ lock' = "host"
    /\ CASE task["host"].job = "order"   -> Goes("host", "begin") /\ UNCHANGED slot
         [] task["host"].job = "enable"  -> Goes("host", "begin") /\ slot' = Enable(slot)
         [] task["host"].job = "disable" ->
                /\ slot' = BeginDisable(slot)
                /\ task' = [task EXCEPT !["host"].at = "rebuild", !["host"].old = slot.runtime]
    /\ KeepLink
    /\ KeepWorld
    /\ UNCHANGED registry

Detaches ==
    /\ At("host", "detaching")
    /\ LET old == task["host"].old IN
       \/ /\ link' = IF old = 0 THEN link ELSE [link EXCEPT ![old] = "closed"]
          /\ UNCHANGED faults
       \/ /\ old # 0 /\ link' = [link EXCEPT ![old] = "abandoned"]
          /\ SpendsFault
    /\ slot' = FinishDisable(slot)
    /\ Ends("host")
    /\ KeepWorld
    /\ UNCHANGED <<registry, own>>

StopsTimer ==
    /\ At("closer", "idle") /\ ~stopped
    /\ stopped' = TRUE
    /\ task' = [task EXCEPT !["closer"].at = "taking", !["closer"].job = "close"]
    /\ KeepLink
    /\ UNCHANGED <<slot, lock, registry, offered, notice, orders, drops>>

\* The tick that runs is awaited, no other task is.
TakesRuntime ==
    /\ At("closer", "taking") /\ At("timer", "idle")
    /\ slot' = CloseSlot(slot)
    /\ task' = [task EXCEPT !["closer"].at = IF slot.runtime = 0 THEN "rebuild" ELSE "detaching",
                            !["closer"].old = slot.runtime]
    /\ KeepLink
    /\ KeepWorld
    /\ UNCHANGED <<lock, registry>>

ClosesTaken ==
    /\ At("closer", "detaching")
    /\ \/ link' = [link EXCEPT ![task["closer"].old] = "closed"] /\ UNCHANGED faults
       \/ link' = [link EXCEPT ![task["closer"].old] = "abandoned"] /\ SpendsFault
    /\ task' = [task EXCEPT !["closer"].at = "rebuild", !["closer"].old = 0]
    /\ KeepWorld
    /\ UNCHANGED <<slot, lock, registry, own>>

----------------------------------------------------------------------------
(* The server, and requests whose futures are dropped at an await: a client
   that goes away ends the handler of its request (config_routes.rs:715). *)

ServerChanges ==
    /\ offered <= MaxChanges
    /\ offered' = offered + 1
    /\ notice' = (notice \/ \E g \in Generation : link[g] = "open")
    /\ KeepLink
    /\ UNCHANGED <<slot, lock, registry, task, stopped, orders, drops>>

\* A connection that only the future held goes with it.
IsDropped(t) ==
    /\ drops < MaxDrops /\ drops' = drops + 1
    /\ task[t].at \in {"called", "failed", "waiting", "closing", "connecting", "discovering",
                       "finishing", "detaching"}
    /\ link' = [g \in Generation |->
           IF \/ At(t, "closing") /\ g = task[t].old
              \/ At(t, "detaching") /\ g = task[t].old
              \/ task[t].at \in {"discovering", "finishing"} /\ g = task[t].lease
           THEN "abandoned" ELSE link[g]]
    /\ Ends(t)
    /\ UNCHANGED <<slot, registry, offered, notice, stopped, own, faults, orders>>

----------------------------------------------------------------------------
\* A step by which a task gets on
Proceeds(t) ==
    \/ BeginsReconnect(t) \/ ClosesOld(t) \/ Connects(t) \/ Discovers(t)
    \/ FinishesReconnect(t) \/ ReadsSlots(t) \/ Publishes(t)
    \/ t \in Caller /\ (IsAnswered(t) \/ CallFails(t) \/ RecordsFailure(t) \/ DecidesReconnect(t))
    \/ t = "timer" /\ TimerTicks
    \/ t = "watcher" /\ WatcherWakes
    \/ t \in {"timer", "watcher"} /\ (Lists(t) \/ ListFails(t) \/ Applies(t))
    \/ t = "host" /\ (TakesOrder \/ Detaches)
    \/ t = "closer" /\ (TakesRuntime \/ ClosesTaken)

McpNext ==
    \/ \E t \in Task : Proceeds(t)
    \/ \E c \in Caller : Leases(c)
    \/ \E job \in {"order", "enable", "disable"} : IsOrdered(job)
    \/ \E t \in Caller \cup {"host"} : IsDropped(t)
    \/ StopsTimer \/ ServerChanges

McpSpec == McpInit /\ [][McpNext]_mcpVars

\* Tokio runs what can run, and the interval of the refresh ticks.
McpFairSpec == McpSpec /\ \A t \in Task : WF_mcpVars(Proceeds(t))

----------------------------------------------------------------------------
(* Properties. *)

Lifecycle == {"Connecting", "Disabled", "Connected", "Reconnecting", "Disabling",
              "Disconnected", "PermanentlyFailed"}

McpTypeOK ==
    /\ slot \in [lifecycle : Lifecycle, runtime : Generation \cup {0},
                 published : 0 .. MaxChanges + 1, attempts : 0 .. MaxReconnectAttempts,
                 failures : [Kind -> Nat], next : Nat]
    /\ lock \in Task \cup {"nobody"}
    /\ registry \in 0 .. offered
    /\ link \in [Generation -> {"none", "open", "closed", "abandoned"}]

\* The failures that a slot counts are those of calls over its present
\* connection: a late failure over an earlier one does not make a healthy
\* connection be replaced.
FailuresAreItsOwn ==
    \A k \in Kind :
        slot.lifecycle = "Connected" => slot.failures[k] <= own[slot.runtime]

Open == {g \in Generation : link[g] = "open"}

\* With the periodic refresh, and when no request was dropped in the middle
\* of its reconnection, the registry ends up offering what the server offers
\* over the one connection that is open, or nothing when the server is
\* disabled or given up, and then none is.
RegistryFollowsServer ==
    <>[]( \/ stopped \/ drops > 0
          \/ slot.lifecycle = "Connected" /\ registry = offered /\ Open = {slot.runtime}
          \/ slot.lifecycle \in {"Disabled", "PermanentlyFailed"} /\ registry = 0 /\ Open = {} )

\* The same, whatever requests were dropped.
DroppedIsResumed ==
    <>[]( \/ stopped
          \/ slot.lifecycle \in {"Connected", "Disabled", "PermanentlyFailed"} )

\* When everything has come to rest, the registry offers what the server
\* offers: its notice was enough (manager.rs:1684-1691).
NoticeIsSeen ==
    (\A t \in Task : At(t, "idle")) /\ ~notice /\ slot.lifecycle = "Connected"
        => registry = offered

\* A closed registry has no connection, until it is ordered otherwise.
ClosedStaysClosed ==
    stopped /\ At("closer", "idle") /\ orders = 0 => slot.runtime = 0
=============================================================================
