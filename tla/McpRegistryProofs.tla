------------------------- MODULE McpRegistryProofs -------------------------
(***************************************************************************)
(* Proofs about McpRegistry, for any callers, thresholds and bounds.       *)
(*                                                                         *)
(* What the inductive invariant rests on is the lifecycle lock: while a    *)
(* task makes a new connection, nobody else does, the slot has none, and   *)
(* the number of the new one is unlike that of any connection that a task  *)
(* still uses or is about to close.                                        *)
(***************************************************************************)
EXTENDS McpRegistry, FiniteSetTheorems, TLAPS

Steps == {"idle", "called", "failed", "marked", "begin", "closing", "connecting", "discovering",
          "finishing", "listing", "applying", "rebuild", "publish", "waiting", "detaching",
          "taking"}

TaskRecord ==
    [at : Steps, job : {"none", "call", "refresh", "order", "enable", "disable", "close"},
     lease : Nat, old : Nat, seen : Nat]

SlotRecord ==
    [lifecycle : Lifecycle, runtime : Generation \cup {0}, published : 0 .. MaxChanges + 1,
     attempts : 0 .. MaxReconnectAttempts, failures : [Kind -> Nat], next : Nat]

\* Steps that are taken under the lifecycle lock, and those without it.
Locked == {"marked", "begin", "closing", "connecting", "discovering", "finishing", "listing",
           "applying"}
Unlocked == {"idle", "called", "failed", "waiting"}

\* A task that stands as x makes a connection, its lease.
Reconnects(x) == x.at \in {"closing", "connecting", "discovering", "finishing"}

\* A task that stands as x uses a connection that was in the slot, its lease.
Uses(x) == x.at \in {"called", "failed", "listing", "applying"}

TaskOK(t, x) ==
    /\ x.at \in Locked => lock = t
    /\ lock = t => x.at \notin Unlocked
    /\ x.seen <= offered
    /\ x.old < slot.next
    /\ x.old = 0 \/ x.old # slot.runtime
    /\ Uses(x) => x.lease \in 1 .. slot.next - 1
    /\ Reconnects(x) =>
          /\ x.lease \in 1 .. slot.next - 1
          /\ slot.runtime = 0 /\ slot.attempts < MaxReconnectAttempts
    /\ x.at \in {"discovering", "finishing"} => link[x.lease] = "open"
    /\ x.at = "waiting" => x.job \in {"order", "enable", "disable"}

\* The connection that y makes is none that x uses, or is about to close.
Apart(y, x) == Reconnects(y) => y.lease # x.old /\ (Uses(x) => y.lease # x.lease)

TasksInv ==
    /\ task \in [Task -> TaskRecord]
    /\ lock \in Task \cup {"nobody"}
    /\ \A t \in Task : TaskOK(t, task[t])
    /\ \A t, u \in Task : Apart(task[u], task[t])

FailedOver(g) == {c \in Caller : task[c].at = "failed" /\ task[c].lease = g}

\* The connection of the slot is open, and its failures are counted once at most.
RuntimeOK ==
    slot.runtime # 0 =>
        /\ slot.runtime < slot.next
        /\ link[slot.runtime] = "open"
        /\ IsFiniteSet(FailedOver(slot.runtime))
        /\ slot.failures["Rpc"] + Cardinality(FailedOver(slot.runtime)) <= own[slot.runtime]
        /\ slot.failures["Discovery"] <= own[slot.runtime]

SlotInv ==
    /\ slot \in SlotRecord
    /\ 2 <= slot.next /\ slot.next <= 2 + MaxFaults + MaxOrders
    /\ slot.published <= offered
    /\ slot.lifecycle = "Connected" => slot.runtime # 0
    /\ slot.lifecycle = "Disabled" => slot.runtime = 0
    /\ RuntimeOK

WorldInv ==
    /\ link \in [Generation -> {"none", "open", "closed", "abandoned"}]
    /\ own \in [Generation -> Nat]
    /\ offered \in 1 .. MaxChanges + 1
    /\ registry \in 0 .. offered

McpIInv == TasksInv /\ SlotInv /\ WorldInv

----------------------------------------------------------------------------
(* The transitions of a slot, but those that count a failure, begin or end  *)
(* a reconnection, leave it with the connection it had, or with none.       *)

Calm(s, n) ==
    /\ n \in SlotRecord /\ n.next = s.next /\ n.published <= offered
    /\ n.runtime \in {0, s.runtime}
    /\ \A k \in Kind : n.failures[k] <= s.failures[k]
    /\ n.lifecycle = "Connected" => n.runtime # 0
    /\ n.lifecycle = "Disabled" => n.runtime = 0

LEMMA Bounds ==
    /\ FailureThreshold \in Nat /\ FailureThreshold > 0
    /\ MaxReconnectAttempts \in Nat /\ MaxReconnectAttempts > 0
    /\ MaxFaults \in Nat /\ MaxChanges \in Nat /\ MaxOrders \in Nat /\ MaxDrops \in Nat
    /\ "nobody" \notin Task
    /\ Caller \cap {"timer", "watcher", "host", "closer"} = {}
BY McpAssumption DEF Task

LEMMA SlotFacts ==
    ASSUME NEW s \in SlotRecord
    PROVE  /\ s.lifecycle \in Lifecycle /\ s.runtime \in Generation \cup {0}
           /\ s.runtime \in Nat /\ s.published \in 0 .. MaxChanges + 1
           /\ s.attempts \in 0 .. MaxReconnectAttempts
           /\ s.attempts \in Nat /\ s.published \in Nat /\ s.next \in Nat
           /\ s.failures \in [Kind -> Nat]
           /\ s.failures["Rpc"] \in Nat /\ s.failures["Discovery"] \in Nat
BY Bounds DEF SlotRecord, Generation, Kind

LEMMA NoFailuresFact ==
    NoFailures \in [Kind -> Nat] /\ \A k \in Kind : NoFailures[k] = 0
BY DEF NoFailures

LEMMA SlotStands == ASSUME SlotInv PROVE Calm(slot, slot)
BY SlotFacts DEF SlotInv, Calm, Kind

LEMMA GivesUpIsCalm ==
    ASSUME SlotInv, WorldInv
    PROVE  /\ Calm(slot, MarkPermanentFailure(slot))
           /\ MarkPermanentFailure(slot).attempts = slot.attempts
<1>1. /\ slot.failures \in [Kind -> Nat] /\ offered \in Nat /\ 0 \in 0 .. MaxChanges + 1
      /\ slot \in SlotRecord
  BY SlotFacts, Bounds DEF SlotInv, WorldInv
<1> DEFINE n == MarkPermanentFailure(slot)
<1>2. /\ n \in SlotRecord /\ n.next = slot.next /\ n.published = 0 /\ n.runtime = 0
      /\ n.failures = slot.failures /\ n.lifecycle = "PermanentlyFailed"
      /\ n.attempts = slot.attempts
  BY <1>1 DEF MarkPermanentFailure, SlotRecord, Lifecycle
<1> HIDE DEF n
<1>3. Calm(slot, n)
  BY <1>1, <1>2 DEF Calm
<1> QED BY <1>2, <1>3 DEF n

LEMMA FailureIsCalm ==
    ASSUME SlotInv, WorldInv, slot.attempts < MaxReconnectAttempts
    PROVE  Calm(slot, FinishReconnectFailure(slot))
<1> DEFINE f == [slot EXCEPT !.attempts = slot.attempts + 1, !.lifecycle = "Disconnected"]
<1>1. /\ slot.failures \in [Kind -> Nat] /\ offered \in Nat /\ 0 \in 0 .. MaxChanges + 1
      /\ slot \in SlotRecord /\ slot.attempts + 1 \in 0 .. MaxReconnectAttempts
      /\ slot.published <= offered
  BY SlotFacts, Bounds DEF SlotInv, WorldInv
<1>2. /\ f \in SlotRecord /\ f.runtime = slot.runtime /\ f.next = slot.next
      /\ f.published = slot.published /\ f.failures = slot.failures
      /\ f.lifecycle = "Disconnected"
  BY <1>1 DEF SlotRecord, Lifecycle
<1>3. FinishReconnectFailure(slot) = f \/ FinishReconnectFailure(slot) = MarkPermanentFailure(f)
  BY DEF FinishReconnectFailure
<1> HIDE DEF f
<1>4. Calm(slot, f)
  BY <1>1, <1>2 DEF Calm, Kind
<1>5. Calm(slot, MarkPermanentFailure(f))
  <2> DEFINE n == MarkPermanentFailure(f)
  <2>1. /\ n \in SlotRecord /\ n.next = f.next /\ n.published = 0 /\ n.runtime = 0
        /\ n.failures = f.failures /\ n.lifecycle = "PermanentlyFailed"
    BY <1>1, <1>2 DEF MarkPermanentFailure, SlotRecord, Lifecycle
  <2> HIDE DEF n
  <2>2. Calm(slot, n)
    BY <1>1, <1>2, <2>1 DEF Calm
  <2> QED BY <2>2 DEF n
<1> QED BY <1>3, <1>4, <1>5

LEMMA OrdersAreCalm ==
    ASSUME SlotInv, WorldInv
    PROVE  /\ Calm(slot, FinishReconnectCloseFailure(slot))
           /\ FinishReconnectCloseFailure(slot).attempts = slot.attempts
           /\ Calm(slot, BeginDisable(slot)) /\ BeginDisable(slot).attempts = slot.attempts
           /\ BeginDisable(slot).runtime = 0
           /\ Calm(slot, FinishDisable(slot)) /\ FinishDisable(slot).attempts = slot.attempts
           /\ Calm(slot, Enable(slot))
           /\ Calm(slot, CloseSlot(slot)) /\ CloseSlot(slot).attempts = slot.attempts
           /\ CloseSlot(slot).runtime = 0
<1>1. /\ slot.failures \in [Kind -> Nat] /\ offered \in Nat /\ 0 \in 0 .. MaxChanges + 1
      /\ 0 \in 0 .. MaxReconnectAttempts
      /\ slot \in SlotRecord /\ slot.published <= offered
      /\ NoFailures \in [Kind -> Nat] /\ \A k \in Kind : NoFailures[k] = 0
      /\ slot.lifecycle = "Disabled" => slot.runtime = 0
  BY SlotFacts, Bounds, NoFailuresFact DEF SlotInv, WorldInv
<1>2. \A k \in Kind : slot.failures[k] <= slot.failures[k] /\ 0 <= slot.failures[k]
  BY <1>1
<1>3. /\ Calm(slot, FinishReconnectCloseFailure(slot))
      /\ FinishReconnectCloseFailure(slot).attempts = slot.attempts
  BY <1>1, <1>2 DEF Calm, FinishReconnectCloseFailure, SlotRecord, Lifecycle
<1>4. /\ Calm(slot, BeginDisable(slot)) /\ BeginDisable(slot).attempts = slot.attempts
      /\ BeginDisable(slot).runtime = 0
  <2>1. CASE slot.lifecycle = "Disabled"
    BY <2>1, <1>1, SlotStands DEF BeginDisable
  <2>2. CASE slot.lifecycle # "Disabled"
    BY <2>2, <1>1, <1>2 DEF Calm, BeginDisable, SlotRecord, Lifecycle
  <2> QED BY <2>1, <2>2
<1>5. Calm(slot, FinishDisable(slot)) /\ FinishDisable(slot).attempts = slot.attempts
  <2> DEFINE n == FinishDisable(slot)
  <2>1. /\ n \in SlotRecord /\ n.next = slot.next /\ n.published = 0 /\ n.runtime = 0
        /\ n.failures = NoFailures /\ n.lifecycle = "Disabled" /\ n.attempts = slot.attempts
    BY <1>1 DEF FinishDisable, SlotRecord, Lifecycle
  <2> HIDE DEF n
  <2>2. Calm(slot, n)
    BY <1>1, <1>2, <2>1 DEF Calm
  <2> QED BY <2>1, <2>2 DEF n
<1>6. Calm(slot, Enable(slot))
  <2> DEFINE n == Enable(slot)
  <2>1. /\ n \in SlotRecord /\ n.next = slot.next /\ n.published = slot.published
        /\ n.runtime = slot.runtime
        /\ n.failures = NoFailures /\ n.lifecycle = "Disconnected"
    BY <1>1 DEF Enable, SlotRecord, Lifecycle
  <2> HIDE DEF n
  <2>2. Calm(slot, n)
    BY <1>1, <1>2, <2>1 DEF Calm
  <2> QED BY <2>2 DEF n
<1>7. /\ Calm(slot, CloseSlot(slot)) /\ CloseSlot(slot).attempts = slot.attempts
      /\ CloseSlot(slot).runtime = 0
  <2> DEFINE n == CloseSlot(slot)
  <2>1. /\ n \in SlotRecord /\ n.next = slot.next /\ n.published = 0 /\ n.runtime = 0
        /\ n.failures = slot.failures /\ n.lifecycle = "Disabled"
        /\ n.attempts = slot.attempts
    BY <1>1 DEF CloseSlot, SlotRecord, Lifecycle
  <2> HIDE DEF n
  <2>2. Calm(slot, n)
    BY <1>1, <1>2, <2>1 DEF Calm
  <2> QED BY <2>1, <2>2 DEF n
<1> QED BY <1>3, <1>4, <1>5, <1>6, <1>7

LEMMA SuccessIsCalm ==
    ASSUME SlotInv, WorldInv, NEW g
    PROVE  Calm(slot, MarkSuccess(slot, g)) /\ MarkSuccess(slot, g).attempts = slot.attempts
<1> DEFINE f == [slot.failures EXCEPT !["Rpc"] = 0]
           n == [slot EXCEPT !.failures = f]
<1>1. slot \in SlotRecord /\ slot.failures \in [Kind -> Nat] /\ slot.published <= offered
  BY SlotFacts DEF SlotInv
<1>2. f \in [Kind -> Nat] /\ \A k \in Kind : f[k] <= slot.failures[k]
  <2>1. \A k \in Kind : slot.failures[k] \in Nat /\ (f[k] = 0 \/ f[k] = slot.failures[k])
    BY <1>1
  <2>2. f \in [Kind -> Nat]
    BY <1>1
  <2> HIDE DEF f
  <2> QED BY <2>1, <2>2
<1>3. MarkSuccess(slot, g) = slot \/ MarkSuccess(slot, g) = n
  BY Zenon DEF MarkSuccess
<1> HIDE DEF f
<1>4. /\ n \in SlotRecord /\ n.next = slot.next /\ n.published = slot.published
      /\ n.runtime = slot.runtime /\ n.failures = f /\ n.lifecycle = slot.lifecycle
      /\ n.attempts = slot.attempts
  BY <1>1, <1>2 DEF SlotRecord
<1> HIDE DEF n
<1>5. Calm(slot, n)
  BY <1>1, <1>2, <1>4 DEF Calm, SlotInv
<1> QED BY <1>3, <1>4, <1>5, SlotStands

LEMMA CatalogIsCalm ==
    ASSUME SlotInv, WorldInv, NEW g, g # 0, NEW catalogue \in Nat, catalogue <= offered
    PROVE  Calm(slot, ApplyCatalog(slot, g, catalogue))
<1> DEFINE f == [slot.failures EXCEPT !["Discovery"] = 0]
           n == [slot EXCEPT !.published = catalogue, !.failures = f,
                             !.attempts = 0, !.lifecycle = "Connected"]
<1>1. /\ slot \in SlotRecord /\ slot.failures \in [Kind -> Nat] /\ slot.published <= offered
      /\ 0 \in 0 .. MaxReconnectAttempts /\ catalogue \in 0 .. MaxChanges + 1
  BY SlotFacts, Bounds DEF SlotInv, WorldInv
<1>2. f \in [Kind -> Nat] /\ \A k \in Kind : f[k] <= slot.failures[k]
  <2>1. \A k \in Kind : slot.failures[k] \in Nat /\ (f[k] = 0 \/ f[k] = slot.failures[k])
    BY <1>1
  <2>2. f \in [Kind -> Nat]
    BY <1>1
  <2> HIDE DEF f
  <2> QED BY <2>1, <2>2
<1>3. ApplyCatalog(slot, g, catalogue) = IF slot.runtime = g THEN n ELSE slot
  BY Zenon DEF ApplyCatalog
<1> HIDE DEF f
<1>4. /\ n \in SlotRecord /\ n.next = slot.next /\ n.published = catalogue
      /\ n.runtime = slot.runtime /\ n.failures = f /\ n.lifecycle = "Connected"
  BY <1>1, <1>2 DEF SlotRecord, Lifecycle
<1> HIDE DEF n
<1>5. slot.runtime = g => Calm(slot, n)
  BY <1>1, <1>2, <1>4 DEF Calm
<1> QED BY <1>3, <1>5, SlotStands

----------------------------------------------------------------------------
(* What every step of a task leaves to the others. *)

\* t takes the lifecycle lock, or gives it back.
LockMoves(t) ==
    \/ lock' = lock
    \/ lock \in {t, "nobody"} /\ lock' \in {t, "nobody"}

\* A connection is closed by the task that made it, or that took it from the slot.
LinksKept(t) ==
    /\ link' \in [Generation -> {"none", "open", "closed", "abandoned"}]
    /\ \A g \in Generation :
          link[g] = "open" =>
              \/ link'[g] = "open"
              \/ g = task[t].old
              \/ Reconnects(task[t]) /\ g = task[t].lease

\* t goes on as x, with a connection that it has already or takes from the slot.
Moves(t, x) ==
    /\ task' = [task EXCEPT ![t] = x]
    /\ x.old = 0 \/ x.old = task[t].old \/ x.old = slot.runtime
    /\ Uses(x) => \/ Uses(task[t]) /\ x.lease = task[t].lease
                  \/ x.lease = slot.runtime
    /\ Reconnects(x) => \/ Reconnects(task[t]) /\ x.lease = task[t].lease
                        \/ x.lease = slot.next

LEMMA TaskFacts ==
    ASSUME McpIInv, NEW t \in Task
    PROVE  /\ task[t] \in TaskRecord /\ TaskOK(t, task[t])
           /\ task[t].at \in Steps /\ task[t].lease \in Nat /\ task[t].old \in Nat
           /\ task[t].seen \in Nat /\ task[t].seen <= offered
           /\ slot \in SlotRecord /\ slot.next \in Nat /\ slot.next >= 2
           /\ slot.runtime \in Nat /\ slot.runtime < slot.next
           /\ slot.attempts \in Nat /\ offered \in Nat
<1>1. task[t] \in TaskRecord /\ TaskOK(t, task[t])
  BY DEF McpIInv, TasksInv
<1>2. slot \in SlotRecord /\ 2 <= slot.next /\ (slot.runtime # 0 => slot.runtime < slot.next)
  BY DEF McpIInv, SlotInv, RuntimeOK
<1>3. offered \in Nat
  BY Bounds DEF McpIInv, WorldInv
<1>4. slot.runtime < slot.next
  BY <1>2, SlotFacts
<1> QED BY <1>1, <1>2, <1>3, <1>4, SlotFacts DEF TaskRecord, TaskOK

LEMMA TasksKept ==
    ASSUME McpIInv, NEW t \in Task, NEW x \in TaskRecord, Moves(t, x), TaskOK(t, x)',
           LockMoves(t), LinksKept(t),
           offered' \in Nat, offered <= offered',
           slot'.next \in Nat, slot.next <= slot'.next,
           \/ slot'.runtime = 0 \/ slot'.runtime = slot.runtime
           \/ Reconnects(task[t]) /\ slot'.runtime = task[t].lease,
           slot'.attempts = slot.attempts \/ lock \in {t, "nobody"}
    PROVE  TasksInv'
<1>1. task' \in [Task -> TaskRecord] /\ task'[t] = x
  BY DEF McpIInv, TasksInv, Moves
<1>2. ASSUME NEW u \in Task, u # t
      PROVE  task'[u] = task[u]
  BY <1>2 DEF McpIInv, TasksInv, Moves
<1>3. lock' \in Task \cup {"nobody"}
  BY DEF McpIInv, TasksInv, LockMoves
<1>4. TaskOK(t, task[t])
  BY TaskFacts
<1>5. ASSUME NEW u \in Task, u # t
      PROVE  TaskOK(u, task[u])'
  <2> PICK y : y = task[u]
    OBVIOUS
  <2>1. /\ y \in TaskRecord /\ TaskOK(u, y) /\ y.lease \in Nat /\ y.old \in Nat
        /\ y.seen \in Nat /\ y.seen <= offered /\ offered \in Nat
        /\ slot.next \in Nat
    BY TaskFacts
  <2>2. u # "nobody" /\ Apart(task[t], y)
    BY Bounds DEF McpIInv, TasksInv
  <2>3. lock = u <=> lock' = u
    BY <1>5, <2>2 DEF LockMoves
  <2>4. y.old < slot'.next
    BY <2>1 DEF TaskOK
  <2>5. y.old = 0 \/ y.old # slot'.runtime
    BY <2>1, <2>2 DEF TaskOK, Apart
  <2>6. Uses(y) => y.lease \in 1 .. slot'.next - 1
    BY <2>1 DEF TaskOK
  <2>7. ASSUME Reconnects(y)
        PROVE  /\ lock = u
               /\ y.lease \in 1 .. slot'.next - 1
               /\ slot'.runtime = 0 /\ slot'.attempts < MaxReconnectAttempts
               /\ ~Reconnects(task[t])
    <3>1. lock = u /\ slot.runtime = 0 /\ slot.attempts < MaxReconnectAttempts
          /\ y.lease \in 1 .. slot.next - 1
      BY <2>1, <2>7 DEF TaskOK, Reconnects, Locked
    <3>2. ~Reconnects(task[t])
      BY <1>4, <1>5, <3>1 DEF TaskOK, Reconnects, Locked
    <3> QED BY <1>5, <2>1, <2>2, <3>1, <3>2
  <2>8. ASSUME y.at \in {"discovering", "finishing"}
        PROVE  link'[y.lease] = "open"
    <3>1. Reconnects(y) /\ link[y.lease] = "open"
      BY <2>1, <2>8 DEF TaskOK, Reconnects
    <3>2. Apart(y, task[t])
      BY DEF McpIInv, TasksInv
    <3>3. y.lease # task[t].old
      BY <3>1, <3>2 DEF Apart
    <3>4. y.lease \in Generation
      <4>1. y.lease \in 1 .. slot.next - 1
        BY <2>1, <3>1 DEF TaskOK
      <4>2. slot.next <= 2 + MaxFaults + MaxOrders
        BY DEF McpIInv, SlotInv
      <4> QED BY <2>1, <4>1, <4>2, Bounds DEF Generation
    <3> QED BY <2>7, <3>1, <3>3, <3>4 DEF LinksKept
  <2>9. y.seen <= offered'
    BY <2>1
  <2>10. TaskOK(u, y)'
    BY <2>1, <2>3, <2>4, <2>5, <2>6, <2>7, <2>8, <2>9 DEF TaskOK
  <2>11. y = task'[u]
    BY <1>2, <1>5
  <2> QED BY <2>10, <2>11
<1>6. ASSUME NEW u \in Task
      PROVE  TaskOK(u, task[u])'
  <2>1. CASE u = t
    BY <2>1, <1>1
  <2>2. CASE u # t
    BY <2>2, <1>5
  <2> QED BY <2>1, <2>2
<1>7. ASSUME NEW u \in Task, NEW v \in Task
      PROVE  Apart(task'[u], task'[v])
  <2>1. Apart(task[u], task[v])
    BY DEF McpIInv, TasksInv
  <2>2. CASE u # t /\ v # t
    BY <2>1, <2>2, <1>2
  <2>3. CASE u # t /\ v = t
    <3>1. task'[u] = task[u] /\ task'[v] = x
      BY <2>3, <1>1, <1>2
    <3>2. Reconnects(task[u]) => slot.runtime = 0 /\ task[u].lease # 0
      BY TaskFacts DEF TaskOK
    <3>3. Reconnects(task[u]) => task[u].lease # x.old
      BY <2>1, <2>3, <3>2 DEF Moves, Apart
    <3>4. Reconnects(task[u]) /\ Uses(x) => task[u].lease # x.lease
      BY <2>1, <2>3, <3>2 DEF Moves, Apart
    <3> QED BY <3>1, <3>3, <3>4 DEF Apart
  <2>4. CASE u = t /\ v # t
    <3>1. task'[v] = task[v] /\ task'[u] = x
      BY <2>4, <1>1, <1>2
    <3>2. /\ task[v].old < slot.next /\ task[v].old \in Nat /\ slot.next \in Nat
          /\ Uses(task[v]) => task[v].lease \in 1 .. slot.next - 1
      BY TaskFacts DEF TaskOK
    <3>3. CASE Reconnects(task[t]) /\ x.lease = task[t].lease
      BY <2>1, <2>4, <3>1, <3>3 DEF Apart
    <3>4. CASE x.lease = slot.next
      BY <3>1, <3>2, <3>4 DEF Apart
    <3>5. CASE ~Reconnects(x)
      BY <3>1, <3>5 DEF Apart
    <3> QED BY <3>3, <3>4, <3>5 DEF Moves
  <2>5. CASE u = t /\ v = t
    <3>1. ~(Reconnects(x) /\ Uses(x))
      BY DEF Reconnects, Uses
    <3>2. /\ task[t].old < slot.next /\ task[t].old \in Nat /\ slot.next \in Nat
          /\ slot.next >= 2 /\ slot.runtime < slot.next /\ slot.runtime \in Nat
      BY TaskFacts DEF TaskOK
    <3>3. CASE Reconnects(task[t]) /\ x.lease = task[t].lease
      <4>1. slot.runtime = 0 /\ x.lease # 0
        BY <3>3, TaskFacts DEF TaskOK
      <4> QED BY <2>1, <2>5, <3>1, <3>3, <4>1, <1>1 DEF Apart, Moves
    <3>4. CASE x.lease = slot.next
      <4>1. x.old # slot.next
        BY <3>2 DEF Moves
      <4> QED BY <2>5, <3>1, <3>4, <4>1, <1>1 DEF Apart
    <3>5. CASE ~Reconnects(x)
      BY <2>5, <1>1, <3>5 DEF Apart
    <3> QED BY <3>3, <3>4, <3>5 DEF Moves
  <2> QED BY <2>2, <2>3, <2>4, <2>5
<1> QED BY <1>1, <1>3, <1>6, <1>7 DEF TasksInv

\* The slot after a calm step: none of the connection's failures is forgotten.
LEMMA SlotKept ==
    ASSUME McpIInv, NEW t \in Task, NEW x \in TaskRecord, Moves(t, x), LinksKept(t),
           Calm(slot, slot'),
           offered' \in Nat, offered <= offered',
           own' \in [Generation -> Nat], \A g \in Generation : own[g] <= own'[g],
           x.at = "failed" => task[t].at = "failed" /\ x.lease = task[t].lease
    PROVE  SlotInv'
<1>1. /\ slot \in SlotRecord /\ slot' \in SlotRecord
      /\ 2 <= slot.next /\ slot.next <= 2 + MaxFaults + MaxOrders
      /\ RuntimeOK /\ offered \in Nat /\ own \in [Generation -> Nat]
  BY Bounds DEF McpIInv, SlotInv, WorldInv, Calm
<1>2. /\ slot'.next = slot.next /\ slot'.published <= offered
      /\ slot'.runtime = 0 \/ slot'.runtime = slot.runtime
      /\ slot'.lifecycle = "Connected" => slot'.runtime # 0
      /\ slot'.lifecycle = "Disabled" => slot'.runtime = 0
      /\ slot'.published \in Nat
  BY <1>1, SlotFacts DEF Calm
<1>3. ASSUME NEW r, r = slot'.runtime, r # 0
      PROVE  /\ r < slot'.next
             /\ link'[r] = "open"
             /\ IsFiniteSet(FailedOver(r)')
             /\ slot'.failures["Rpc"] + Cardinality(FailedOver(r)') <= own'[r]
             /\ slot'.failures["Discovery"] <= own'[r]
  <2>1. /\ r = slot.runtime /\ r \in Generation /\ r < slot.next
        /\ link[r] = "open" /\ IsFiniteSet(FailedOver(r))
        /\ slot.failures["Rpc"] + Cardinality(FailedOver(r)) <= own[r]
        /\ slot.failures["Discovery"] <= own[r]
    BY <1>1, <1>2, <1>3, SlotFacts DEF RuntimeOK
  <2>2. r # task[t].old /\ ~Reconnects(task[t])
    BY <1>3, <2>1, TaskFacts DEF TaskOK
  <2>3. link'[r] = "open"
    BY <2>1, <2>2 DEF LinksKept
  <2>4. FailedOver(r)' \subseteq FailedOver(r)
    <3>1. ASSUME NEW c \in Caller, task'[c].at = "failed", task'[c].lease = r
          PROVE  task[c].at = "failed" /\ task[c].lease = r
      <4>1. c \in Task
        BY DEF Task
      <4>2. CASE c = t
        BY <3>1, <4>1, <4>2 DEF Moves, McpIInv, TasksInv
      <4>3. CASE c # t
        BY <3>1, <4>1, <4>3 DEF Moves, McpIInv, TasksInv
      <4> QED BY <4>2, <4>3
    <3> QED BY <3>1 DEF FailedOver
  <2>5. /\ IsFiniteSet(FailedOver(r)') /\ Cardinality(FailedOver(r)') \in Nat
        /\ Cardinality(FailedOver(r)) \in Nat
        /\ Cardinality(FailedOver(r)') <= Cardinality(FailedOver(r))
    BY <2>1, <2>4, FS_Subset, FS_CardinalityType
  <2>6. /\ slot'.failures["Rpc"] <= slot.failures["Rpc"]
        /\ slot'.failures["Discovery"] <= slot.failures["Discovery"]
        /\ slot'.failures["Rpc"] \in Nat /\ slot'.failures["Discovery"] \in Nat
        /\ slot.failures["Rpc"] \in Nat /\ slot.failures["Discovery"] \in Nat
    BY <1>1, SlotFacts DEF Calm, Kind
  <2>7. own[r] \in Nat /\ own'[r] \in Nat /\ own[r] <= own'[r]
    BY <1>1, <2>1
  <2> QED BY <1>2, <2>1, <2>3, <2>5, <2>6, <2>7
<1>4. RuntimeOK'
  BY <1>3 DEF RuntimeOK
<1>5. slot'.published <= offered'
  BY <1>1, <1>2
<1> QED BY <1>1, <1>2, <1>4, <1>5 DEF SlotInv

\* t is over, or has only the registry to rebuild.
Rests(t, x) ==
    /\ x.at \in {"idle", "rebuild"}
    /\ x.old = 0 \/ x.old = task[t].old
    /\ x.seen = 0 \/ x.seen = task[t].seen
    /\ lock' = t => x.at = "rebuild"
    /\ lock' = lock \/ (lock = t /\ lock' = "nobody")

LEMMA RestsKeeps ==
    ASSUME McpIInv, NEW t \in Task, NEW x \in TaskRecord,
           task' = [task EXCEPT ![t] = x], Rests(t, x), LinksKept(t), Calm(slot, slot'),
           slot'.attempts = slot.attempts \/ lock = t,
           UNCHANGED <<offered, own>>
    PROVE  TasksInv' /\ SlotInv'
<1>1. Moves(t, x)
  BY DEF Moves, Rests, Uses, Reconnects
<1>2. LockMoves(t)
  BY DEF Rests, LockMoves
<1>3. /\ slot'.next = slot.next /\ slot'.next \in Nat
      /\ slot'.runtime = 0 \/ slot'.runtime = slot.runtime
  BY TaskFacts DEF Calm
<1>4. TaskOK(t, x)'
  <2>1. x.old < slot'.next /\ (x.old = 0 \/ x.old # slot'.runtime)
    BY <1>3, TaskFacts DEF Rests, TaskOK
  <2>2. x.seen <= offered'
    BY TaskFacts DEF Rests
  <2> QED BY <2>1, <2>2 DEF TaskOK, Rests, Locked, Unlocked, Uses, Reconnects
<1>5. offered' \in Nat /\ offered <= offered'
  BY TaskFacts
<1>6. own' \in [Generation -> Nat] /\ \A g \in Generation : own[g] <= own'[g]
  <2>1. own \in [Generation -> Nat]
    BY DEF McpIInv, WorldInv
  <2>2. \A g \in Generation : own[g] <= own[g]
    BY <2>1
  <2> QED BY <2>1, <2>2
<1>7. TasksInv'
  BY <1>1, <1>2, <1>3, <1>4, <1>5, TasksKept, TaskFacts
<1>8. SlotInv'
  BY <1>1, <1>5, <1>6, SlotKept DEF Rests
<1> QED BY <1>7, <1>8

LEMMA EndsRests ==
    ASSUME McpIInv, NEW t \in Task, Ends(t)
    PROVE  NoTask \in TaskRecord /\ task' = [task EXCEPT ![t] = NoTask] /\ Rests(t, NoTask)
BY Bounds DEF Ends, NoTask, TaskRecord, Steps, Rests

LEMMA AfterReconnectRests ==
    ASSUME McpIInv, NEW t \in Task, lock = t, NEW b \in BOOLEAN, AfterReconnect(t, b)
    PROVE  \E x \in TaskRecord : task' = [task EXCEPT ![t] = x] /\ Rests(t, x)
<1>1. CASE Ends(t)
  BY <1>1, EndsRests
<1>2. CASE /\ Goes(t, "rebuild")
           /\ lock' = IF task[t].job \in {"refresh", "order"} THEN "nobody" ELSE lock
  <2> DEFINE x == [task[t] EXCEPT !.at = "rebuild"]
  <2>1. x \in TaskRecord /\ x.at = "rebuild" /\ x.old = task[t].old /\ x.seen = task[t].seen
    BY TaskFacts DEF TaskRecord, Steps
  <2>2. task' = [task EXCEPT ![t] = x]
    BY <1>2 DEF Goes
  <2> HIDE DEF x
  <2>3. Rests(t, x)
    BY <1>2, <2>1 DEF Rests
  <2> QED BY <2>1, <2>2, <2>3
<1> QED BY <1>1, <1>2 DEF AfterReconnect

\* Any other step that leaves the slot calm.
LEMMA CalmStepKeeps ==
    ASSUME McpIInv, NEW t \in Task, NEW x \in TaskRecord, Moves(t, x), TaskOK(t, x)',
           LockMoves(t), LinksKept(t), Calm(slot, slot'),
           slot'.attempts = slot.attempts \/ lock \in {t, "nobody"},
           x.at = "failed" => task[t].at = "failed" /\ x.lease = task[t].lease,
           UNCHANGED <<offered, own>>
    PROVE  TasksInv' /\ SlotInv'
<1>1. /\ slot'.next = slot.next /\ slot'.next \in Nat /\ slot.next \in Nat
      /\ slot'.runtime = 0 \/ slot'.runtime = slot.runtime
      /\ offered' \in Nat /\ offered <= offered'
  BY TaskFacts DEF Calm
<1>2. own' \in [Generation -> Nat] /\ \A g \in Generation : own[g] <= own'[g]
  <2>1. own \in [Generation -> Nat]
    BY DEF McpIInv, WorldInv
  <2>2. \A g \in Generation : own[g] <= own[g]
    BY <2>1
  <2> QED BY <2>1, <2>2
<1>3. TasksInv'
  BY <1>1, TasksKept
<1>4. SlotInv'
  BY <1>1, <1>2, SlotKept
<1> QED BY <1>3, <1>4

LEMMA LinksStand ==
    ASSUME McpIInv, NEW t \in Task, link' = link
    PROVE  LinksKept(t)
BY DEF LinksKept, McpIInv, WorldInv

\* A connection that the task has made, or has taken from the slot, is closed.
LEMMA LinkCloses ==
    ASSUME McpIInv, NEW t \in Task, NEW g, NEW v \in {"closed", "abandoned"},
           g = task[t].old \/ (Reconnects(task[t]) /\ g = task[t].lease),
           link' = [link EXCEPT ![g] = v]
    PROVE  LinksKept(t)
BY DEF LinksKept, McpIInv, WorldInv

LEMMA WorldStands ==
    ASSUME McpIInv, UNCHANGED <<offered, own, registry>>, NEW t \in Task, LinksKept(t)
    PROVE  WorldInv'
BY DEF McpIInv, WorldInv, LinksKept

----------------------------------------------------------------------------
(* The reconnection. *)

LEMMA BeginsReconnectKeeps ==
    ASSUME McpIInv, NEW t \in Task, BeginsReconnect(t)
    PROVE  McpIInv'
<1>1. At(t, "begin") /\ KeepLink /\ KeepWorld /\ UNCHANGED registry
  BY DEF BeginsReconnect
<1>2. lock = t
  BY <1>1, TaskFacts DEF At, TaskOK, Locked
<1>3. LinksKept(t) /\ UNCHANGED <<offered, own>>
  BY <1>1, LinksStand DEF KeepLink, KeepWorld
<1>4. WorldInv'
  BY <1>1, <1>3, WorldStands
<1>5. CASE slot.lifecycle = "Disabled" \/ slot.attempts >= MaxReconnectAttempts
  <2>1. AfterReconnect(t, FALSE) /\ slot' \in {slot, MarkPermanentFailure(slot)}
    BY <1>5 DEF BeginsReconnect
  <2>2. Calm(slot, slot') /\ slot'.attempts = slot.attempts
    BY <2>1, SlotStands, GivesUpIsCalm DEF McpIInv
  <2>3. PICK x \in TaskRecord : task' = [task EXCEPT ![t] = x] /\ Rests(t, x)
    BY <1>2, <2>1, AfterReconnectRests
  <2>4. TasksInv' /\ SlotInv'
    BY <1>2, <1>3, <2>2, <2>3, RestsKeeps
  <2> QED BY <1>4, <2>4 DEF McpIInv
<1>6. CASE ~(slot.lifecycle = "Disabled" \/ slot.attempts >= MaxReconnectAttempts)
  <2> PICK x : x = [task[t] EXCEPT !.at = IF slot.runtime # 0 THEN "closing" ELSE "connecting",
                                   !.lease = slot.next, !.old = slot.runtime]
    OBVIOUS
  <2>1. /\ slot.next \in Generation /\ slot' = BeginReconnect(slot)
        /\ task' = [task EXCEPT ![t] = x] /\ lock' = lock
    BY <1>6 DEF BeginsReconnect
  <2>2. /\ x \in TaskRecord /\ x.at \in {"closing", "connecting"} /\ x.lease = slot.next
        /\ x.old = slot.runtime /\ x.seen = task[t].seen
    BY TaskFacts DEF TaskRecord, Steps
  <2>3. /\ slot' \in SlotRecord /\ slot'.runtime = 0 /\ slot'.next = slot.next + 1
        /\ slot'.attempts = slot.attempts /\ slot'.published = slot.published
        /\ slot'.lifecycle \in {"Connecting", "Reconnecting"}
    <3> DEFINE l == IF slot.runtime # 0 THEN "Reconnecting" ELSE "Connecting"
    <3>1. slot' = [slot EXCEPT !.lifecycle = l, !.runtime = 0, !.next = slot.next + 1]
      BY <2>1 DEF BeginReconnect
    <3>2. l \in {"Connecting", "Reconnecting"} /\ slot.next + 1 \in Nat
      BY TaskFacts
    <3> HIDE DEF l
    <3> QED BY <3>1, <3>2, TaskFacts DEF SlotRecord, Lifecycle
  <2>4. slot.attempts < MaxReconnectAttempts
    BY <1>6, TaskFacts, Bounds
  <2>5. Moves(t, x) /\ LockMoves(t)
    BY <2>1, <2>2 DEF Moves, LockMoves, Uses, Reconnects
  <2>6. TaskOK(t, x)'
    <3>1. x.lease \in 1 .. slot'.next - 1 /\ x.old < slot'.next
      BY <2>2, <2>3, TaskFacts
    <3>2. x.seen <= offered'
      BY <1>3, <2>2, TaskFacts
    <3>3. x.at \notin Unlocked /\ ~Uses(x) /\ x.at \notin {"discovering", "finishing"}
      BY <2>2 DEF Unlocked, Uses
    <3>4. lock' = t /\ slot'.runtime = 0 /\ slot'.attempts < MaxReconnectAttempts
      BY <1>2, <2>1, <2>3, <2>4
    <3> QED BY <3>1, <3>2, <3>3, <3>4 DEF TaskOK
  <2>7. TasksInv'
    <3>1. /\ slot'.next \in Nat /\ slot.next <= slot'.next
          /\ offered' \in Nat /\ offered <= offered'
      BY <1>3, <2>3, TaskFacts
    <3> QED BY <1>3, <2>2, <2>3, <2>5, <2>6, <3>1, TasksKept
  <2>8. SlotInv'
    <3>1. 2 <= slot'.next /\ slot'.next <= 2 + MaxFaults + MaxOrders
      BY <2>1, <2>3, TaskFacts, Bounds DEF Generation
    <3>2. slot'.published <= offered'
      BY <1>3, <2>3 DEF McpIInv, SlotInv
    <3> QED BY <2>3, <3>1, <3>2 DEF SlotInv, RuntimeOK
  <2> QED BY <1>4, <2>7, <2>8 DEF McpIInv
<1> QED BY <1>5, <1>6

\* What is known of a task that makes a connection.
LEMMA ReconnectFacts ==
    ASSUME McpIInv, NEW t \in Task, Reconnects(task[t])
    PROVE  /\ lock = t /\ slot.runtime = 0 /\ slot.attempts < MaxReconnectAttempts
           /\ task[t].lease \in 1 .. slot.next - 1 /\ task[t].lease \in Generation
           /\ task[t].lease # task[t].old /\ task[t].old < slot.next
<1>1. /\ lock = t /\ slot.runtime = 0 /\ slot.attempts < MaxReconnectAttempts
      /\ task[t].lease \in 1 .. slot.next - 1 /\ task[t].old < slot.next
  BY TaskFacts DEF TaskOK, Reconnects, Locked
<1>2. task[t].lease \in Generation
  <2>1. slot.next <= 2 + MaxFaults + MaxOrders
    BY DEF McpIInv, SlotInv
  <2> QED BY <1>1, <2>1, TaskFacts, Bounds DEF Generation
<1>3. task[t].lease # task[t].old
  BY DEF McpIInv, TasksInv, Apart
<1> QED BY <1>1, <1>2, <1>3

\* A task that makes a connection goes on with it.
LEMMA ReconnectGoesOn ==
    ASSUME McpIInv, NEW t \in Task, Reconnects(task[t]), NEW x \in TaskRecord,
           Reconnects(x), x.lease = task[t].lease, x.old = task[t].old, x.seen <= offered,
           x.at \in {"discovering", "finishing"} => link'[x.lease] = "open",
           task' = [task EXCEPT ![t] = x], LinksKept(t),
           UNCHANGED <<slot, lock, offered, own>>
    PROVE  TasksInv' /\ SlotInv'
<1>1. Moves(t, x) /\ LockMoves(t)
  BY DEF Moves, LockMoves, Uses, Reconnects
<1>2. TaskOK(t, x)'
  <2>1. ~Uses(x) /\ x.at \notin Unlocked /\ x.at # "waiting"
    BY DEF Uses, Reconnects, Unlocked
  <2>2. x.old = 0 \/ x.old # slot.runtime
    BY TaskFacts DEF TaskOK
  <2> QED BY <2>1, <2>2, ReconnectFacts DEF TaskOK
<1>3. Calm(slot, slot')
  BY SlotStands DEF McpIInv
<1>4. x.at # "failed"
  BY DEF Reconnects
<1> QED BY <1>1, <1>2, <1>3, <1>4, CalmStepKeeps

LEMMA ClosesOldKeeps ==
    ASSUME McpIInv, NEW t \in Task, ClosesOld(t)
    PROVE  McpIInv'
<1>1. task[t].at = "closing" /\ UNCHANGED <<offered, registry, own>>
  BY DEF ClosesOld, At, KeepWorld
<1>2. Reconnects(task[t]) /\ lock = t
  BY <1>1, ReconnectFacts DEF Reconnects
<1>3. CASE /\ link' = [link EXCEPT ![task[t].old] = "closed"] /\ Goes(t, "connecting")
           /\ UNCHANGED <<slot, lock, faults>>
  <2> DEFINE x == [task[t] EXCEPT !.at = "connecting"]
  <2>1. /\ x \in TaskRecord /\ x.at = "connecting" /\ x.lease = task[t].lease
        /\ x.old = task[t].old /\ x.seen = task[t].seen
    BY TaskFacts DEF TaskRecord, Steps
  <2>2. task' = [task EXCEPT ![t] = x]
    BY <1>3 DEF Goes
  <2> HIDE DEF x
  <2>3. LinksKept(t)
    BY <1>3, LinkCloses
  <2>4. Reconnects(x) /\ x.seen <= offered
    BY <2>1, TaskFacts DEF Reconnects
  <2>5. TasksInv' /\ SlotInv'
    BY <1>1, <1>2, <1>3, <2>1, <2>2, <2>3, <2>4, ReconnectGoesOn
  <2> QED BY <1>1, <2>3, <2>5, WorldStands DEF McpIInv
<1>4. CASE /\ link' = [link EXCEPT ![task[t].old] = "abandoned"]
           /\ slot' = FinishReconnectCloseFailure(slot)
           /\ AfterReconnect(t, FALSE)
           /\ SpendsFault
  <2>1. LinksKept(t)
    BY <1>4, LinkCloses
  <2>2. Calm(slot, slot')
    BY <1>4, OrdersAreCalm DEF McpIInv
  <2>3. PICK x \in TaskRecord : task' = [task EXCEPT ![t] = x] /\ Rests(t, x)
    BY <1>2, <1>4, AfterReconnectRests
  <2>4. TasksInv' /\ SlotInv'
    BY <1>1, <1>2, <2>1, <2>2, <2>3, RestsKeeps
  <2> QED BY <1>1, <2>1, <2>4, WorldStands DEF McpIInv
<1> QED BY <1>3, <1>4 DEF ClosesOld

LEMMA ConnectsKeeps ==
    ASSUME McpIInv, NEW t \in Task, Connects(t)
    PROVE  McpIInv'
<1>1. task[t].at = "connecting" /\ UNCHANGED <<offered, registry, own>>
  BY DEF Connects, At, KeepWorld
<1>2. Reconnects(task[t]) /\ lock = t /\ slot.attempts < MaxReconnectAttempts
      /\ task[t].lease \in Generation
  BY <1>1, ReconnectFacts DEF Reconnects
<1>3. CASE /\ link' = [link EXCEPT ![task[t].lease] = "open"] /\ Goes(t, "discovering")
           /\ UNCHANGED <<slot, lock, faults>>
  <2> DEFINE x == [task[t] EXCEPT !.at = "discovering"]
  <2>1. /\ x \in TaskRecord /\ x.at = "discovering" /\ x.lease = task[t].lease
        /\ x.old = task[t].old /\ x.seen = task[t].seen
    BY TaskFacts DEF TaskRecord, Steps
  <2>2. task' = [task EXCEPT ![t] = x]
    BY <1>3 DEF Goes
  <2> HIDE DEF x
  <2>3. LinksKept(t) /\ link'[x.lease] = "open"
    BY <1>2, <1>3, <2>1 DEF LinksKept, McpIInv, WorldInv
  <2>4. Reconnects(x) /\ x.seen <= offered
    BY <2>1, TaskFacts DEF Reconnects
  <2>5. TasksInv' /\ SlotInv'
    BY <1>1, <1>2, <1>3, <2>1, <2>2, <2>3, <2>4, ReconnectGoesOn
  <2> QED BY <1>1, <2>3, <2>5, WorldStands DEF McpIInv
<1>4. CASE /\ slot' = FinishReconnectFailure(slot)
           /\ AfterReconnect(t, FALSE)
           /\ SpendsFault
           /\ UNCHANGED link
  <2>1. LinksKept(t)
    BY <1>4, LinksStand
  <2>2. Calm(slot, slot')
    BY <1>2, <1>4, FailureIsCalm DEF McpIInv
  <2>3. PICK x \in TaskRecord : task' = [task EXCEPT ![t] = x] /\ Rests(t, x)
    BY <1>2, <1>4, AfterReconnectRests
  <2>4. TasksInv' /\ SlotInv'
    BY <1>1, <1>2, <2>1, <2>2, <2>3, RestsKeeps
  <2> QED BY <1>1, <2>1, <2>4, WorldStands DEF McpIInv
<1> QED BY <1>3, <1>4 DEF Connects

LEMMA DiscoversKeeps ==
    ASSUME McpIInv, NEW t \in Task, Discovers(t)
    PROVE  McpIInv'
<1>1. task[t].at = "discovering" /\ UNCHANGED <<offered, registry, own>>
  BY DEF Discovers, At, KeepWorld
<1>2. Reconnects(task[t]) /\ lock = t /\ slot.attempts < MaxReconnectAttempts
  BY <1>1, ReconnectFacts DEF Reconnects
<1>3. CASE /\ task' = [task EXCEPT ![t].at = "finishing", ![t].seen = offered]
           /\ UNCHANGED <<slot, lock, link, faults>>
  <2> DEFINE x == [task[t] EXCEPT !.at = "finishing", !.seen = offered]
  <2>1. /\ x \in TaskRecord /\ x.at = "finishing" /\ x.lease = task[t].lease
        /\ x.old = task[t].old /\ x.seen = offered
    BY TaskFacts DEF TaskRecord, Steps
  <2>2. task' = [task EXCEPT ![t] = x]
    BY <1>3 DEF McpIInv, TasksInv
  <2> HIDE DEF x
  <2>3. LinksKept(t) /\ link'[x.lease] = "open"
    BY <1>1, <1>3, <2>1, LinksStand, TaskFacts DEF TaskOK
  <2>4. Reconnects(x) /\ x.seen <= offered
    BY <2>1, TaskFacts DEF Reconnects
  <2>5. TasksInv' /\ SlotInv'
    BY <1>1, <1>2, <1>3, <2>1, <2>2, <2>3, <2>4, ReconnectGoesOn
  <2> QED BY <1>1, <2>3, <2>5, WorldStands DEF McpIInv
<1>4. CASE /\ link' = [link EXCEPT ![task[t].lease] = "closed"]
           /\ slot' = FinishReconnectFailure(slot)
           /\ AfterReconnect(t, FALSE)
           /\ SpendsFault
  <2>1. LinksKept(t)
    BY <1>2, <1>4, LinkCloses
  <2>2. Calm(slot, slot')
    BY <1>2, <1>4, FailureIsCalm DEF McpIInv
  <2>3. PICK x \in TaskRecord : task' = [task EXCEPT ![t] = x] /\ Rests(t, x)
    BY <1>2, <1>4, AfterReconnectRests
  <2>4. TasksInv' /\ SlotInv'
    BY <1>1, <1>2, <2>1, <2>2, <2>3, RestsKeeps
  <2> QED BY <1>1, <2>1, <2>4, WorldStands DEF McpIInv
<1> QED BY <1>3, <1>4 DEF Discovers

\* The new connection comes into the slot: nobody has failed over it yet.
LEMMA FinishesReconnectKeeps ==
    ASSUME McpIInv, NEW t \in Task, FinishesReconnect(t)
    PROVE  McpIInv'
<1>1. /\ task[t].at = "finishing" /\ UNCHANGED <<offered, registry, own, link>>
      /\ slot' = FinishReconnectSuccess(slot, task[t].lease, task[t].seen)
      /\ AfterReconnect(t, TRUE)
  BY DEF FinishesReconnect, At, KeepWorld, KeepLink
<1>2. /\ Reconnects(task[t]) /\ lock = t
      /\ task[t].lease \in Generation /\ task[t].lease \in 1 .. slot.next - 1
      /\ task[t].lease # task[t].old /\ task[t].old < slot.next
  BY <1>1, ReconnectFacts DEF Reconnects
<1>3. /\ link[task[t].lease] = "open" /\ task[t].seen <= offered /\ task[t].seen \in Nat
  BY <1>1, TaskFacts DEF TaskOK
<1>4. PICK x \in TaskRecord : task' = [task EXCEPT ![t] = x] /\ Rests(t, x)
  BY <1>1, <1>2, AfterReconnectRests
<1>5. /\ slot' \in SlotRecord /\ slot'.next = slot.next /\ slot'.runtime = task[t].lease
      /\ slot'.published = task[t].seen /\ slot'.failures = NoFailures
      /\ slot'.lifecycle = "Connected"
  <2>1. /\ slot \in SlotRecord /\ task[t].seen \in 0 .. MaxChanges + 1
        /\ 0 \in 0 .. MaxReconnectAttempts /\ NoFailures \in [Kind -> Nat]
    BY <1>3, TaskFacts, Bounds, NoFailuresFact DEF McpIInv, WorldInv
  <2> QED BY <1>1, <1>2, <2>1 DEF FinishReconnectSuccess, SlotRecord, Lifecycle
<1>6. LinksKept(t)
  BY <1>1, LinksStand
<1>7. TasksInv'
  <2>1. Moves(t, x) /\ LockMoves(t)
    BY <1>4 DEF Moves, Rests, Uses, Reconnects, LockMoves
  <2>2. TaskOK(t, x)'
    <3>1. x.old < slot'.next /\ (x.old = 0 \/ x.old # slot'.runtime)
      BY <1>2, <1>4, <1>5, TaskFacts DEF Rests
    <3>2. x.seen <= offered'
      BY <1>1, <1>4, TaskFacts DEF Rests
    <3> QED BY <1>4, <3>1, <3>2 DEF TaskOK, Rests, Locked, Unlocked, Uses, Reconnects
  <2> QED BY <1>1, <1>2, <1>5, <1>6, <2>1, <2>2, TasksKept, TaskFacts
<1>8. PICK g : g = task[t].lease
  OBVIOUS
<1>9. FailedOver(g)' = {}
  <2> SUFFICES ASSUME NEW c \in Caller, task'[c].at = "failed", task'[c].lease = g
               PROVE  FALSE
    BY DEF FailedOver
  <2>1. c \in Task
    BY DEF Task
  <2>2. c # t
    BY <1>4 DEF Rests, McpIInv, TasksInv
  <2>3. task'[c] = task[c] /\ Apart(task[t], task[c])
    BY <1>4, <2>1, <2>2 DEF McpIInv, TasksInv
  <2> QED BY <1>2, <1>8, <2>3 DEF Apart, Uses
<1>10. SlotInv'
  <2>1. IsFiniteSet(FailedOver(g)') /\ Cardinality(FailedOver(g)') = 0
    BY <1>9, FS_EmptySet
  <2>2. slot'.failures["Rpc"] = 0 /\ slot'.failures["Discovery"] = 0
    BY <1>5, NoFailuresFact DEF Kind
  <2>3. own[g] \in Nat
    BY <1>2, <1>8 DEF McpIInv, WorldInv
  <2>4. /\ g = slot'.runtime /\ g # 0 /\ g < slot'.next /\ link'[g] = "open"
        /\ slot'.failures["Rpc"] + Cardinality(FailedOver(g)') <= own'[g]
        /\ slot'.failures["Discovery"] <= own'[g]
    BY <1>1, <1>2, <1>3, <1>5, <1>8, <2>1, <2>2, <2>3, TaskFacts
  <2>5. RuntimeOK'
    BY <2>1, <2>4 DEF RuntimeOK
  <2>6. 2 <= slot'.next /\ slot'.next <= 2 + MaxFaults + MaxOrders
    BY <1>5 DEF McpIInv, SlotInv
  <2> QED BY <1>1, <1>3, <1>5, <2>4, <2>5, <2>6 DEF SlotInv
<1>11. WorldInv'
  BY <1>1, <1>6, WorldStands
<1> QED BY <1>7, <1>10, <1>11 DEF McpIInv

----------------------------------------------------------------------------
(* The registry, and the calls under a lease. *)

LEMMA ReadsSlotsKeeps ==
    ASSUME McpIInv, NEW t \in Task, ReadsSlots(t)
    PROVE  McpIInv'
<1>1. /\ task[t].at = "rebuild" /\ UNCHANGED <<offered, registry, own, link, slot, lock>>
  BY DEF ReadsSlots, At, KeepWorld, KeepLink
<1>2. PICK x : x = [task[t] EXCEPT !.at = "publish", !.seen = Discover(slot)]
  OBVIOUS
<1>3. Discover(slot) \in Nat /\ Discover(slot) <= offered
  BY TaskFacts, SlotFacts DEF Discover, McpIInv, SlotInv
<1>4. /\ x \in TaskRecord /\ x.at = "publish" /\ x.old = task[t].old /\ x.seen <= offered
  BY <1>2, <1>3, TaskFacts DEF TaskRecord, Steps
<1>5. task' = [task EXCEPT ![t] = x]
  BY <1>2 DEF ReadsSlots, McpIInv, TasksInv
<1>6. Moves(t, x) /\ LockMoves(t) /\ LinksKept(t) /\ Calm(slot, slot')
  BY <1>1, <1>4, <1>5, LinksStand, SlotStands
     DEF Moves, LockMoves, Uses, Reconnects, McpIInv
<1>7. TaskOK(t, x)'
  <2>1. x.old < slot.next /\ (x.old = 0 \/ x.old # slot.runtime)
    BY <1>4, TaskFacts DEF TaskOK
  <2> QED BY <1>1, <1>4, <2>1 DEF TaskOK, Locked, Unlocked, Uses, Reconnects
<1>8. TasksInv' /\ SlotInv'
  BY <1>1, <1>4, <1>6, <1>7, CalmStepKeeps
<1> QED BY <1>1, <1>6, <1>8, WorldStands DEF McpIInv

LEMMA PublishesKeeps ==
    ASSUME McpIInv, NEW t \in Task, Publishes(t)
    PROVE  McpIInv'
<1>1. /\ task[t].at = "publish" /\ UNCHANGED <<offered, own, link, slot>>
      /\ registry' = task[t].seen
      /\ IF task[t].job = "disable" THEN Goes(t, "detaching") /\ UNCHANGED lock ELSE Ends(t)
  BY DEF Publishes, At, KeepWorld, KeepLink
<1>2. LinksKept(t) /\ Calm(slot, slot')
  BY <1>1, LinksStand, SlotStands DEF McpIInv
<1>3. TasksInv' /\ SlotInv'
  <2>1. CASE Ends(t)
    BY <1>1, <1>2, <2>1, EndsRests, RestsKeeps
  <2>2. CASE Goes(t, "detaching") /\ UNCHANGED lock
    <3>1. PICK x : x = [task[t] EXCEPT !.at = "detaching"]
      OBVIOUS
    <3>2. /\ x \in TaskRecord /\ x.at = "detaching" /\ x.old = task[t].old
          /\ x.seen = task[t].seen
      BY <3>1, TaskFacts DEF TaskRecord, Steps
    <3>3. task' = [task EXCEPT ![t] = x]
      BY <2>2, <3>1 DEF Goes
    <3>4. Moves(t, x) /\ LockMoves(t)
      BY <2>2, <3>2, <3>3 DEF Moves, LockMoves, Uses, Reconnects
    <3>5. TaskOK(t, x)'
      <4>1. /\ x.old < slot.next /\ (x.old = 0 \/ x.old # slot.runtime)
            /\ x.seen <= offered
        BY <3>2, TaskFacts DEF TaskOK
      <4> QED BY <1>1, <3>2, <4>1 DEF TaskOK, Locked, Unlocked, Uses, Reconnects
    <3> QED BY <1>1, <1>2, <3>2, <3>4, <3>5, CalmStepKeeps
  <2> QED BY <1>1, <2>1, <2>2
<1>4. WorldInv'
  <2>1. registry' \in 0 .. offered
    BY <1>1, TaskFacts
  <2> QED BY <1>1, <2>1 DEF McpIInv, WorldInv
<1> QED BY <1>3, <1>4 DEF McpIInv

LEMMA CallersAreTasks == Caller \subseteq Task
BY DEF Task

LEMMA LeasesKeeps ==
    ASSUME McpIInv, NEW c \in Caller, Leases(c)
    PROVE  McpIInv'
<1>1. /\ task[c].at = "idle" /\ slot.runtime # 0
      /\ UNCHANGED <<offered, registry, own, link, slot, lock>>
  BY DEF Leases, At, KeepWorld, KeepLink
<1>2. PICK x : x = [NoTask EXCEPT !.at = "called", !.job = "call", !.lease = slot.runtime]
  OBVIOUS
<1>3. /\ x \in TaskRecord /\ x.at = "called" /\ x.old = 0 /\ x.seen = 0
      /\ x.lease = slot.runtime
  BY <1>2, TaskFacts, CallersAreTasks DEF TaskRecord, Steps, NoTask
<1>4. task' = [task EXCEPT ![c] = x]
  BY <1>2 DEF Leases
<1>5. Moves(c, x) /\ LockMoves(c) /\ LinksKept(c) /\ Calm(slot, slot')
  BY <1>1, <1>3, <1>4, LinksStand, SlotStands, CallersAreTasks
     DEF Moves, LockMoves, Reconnects, McpIInv
<1>6. TaskOK(c, x)'
  <2>1. lock # c
    BY <1>1, TaskFacts, CallersAreTasks DEF TaskOK, Unlocked
  <2>2. x.lease \in 1 .. slot.next - 1 /\ 0 < slot.next /\ x.seen <= offered
    BY <1>1, <1>3, TaskFacts, CallersAreTasks
  <2> QED BY <1>1, <1>3, <2>1, <2>2 DEF TaskOK, Locked, Reconnects
<1>7. TasksInv' /\ SlotInv'
  BY <1>1, <1>3, <1>5, <1>6, CalmStepKeeps, CallersAreTasks
<1> QED BY <1>1, <1>5, <1>7, WorldStands, CallersAreTasks DEF McpIInv

LEMMA IsAnsweredKeeps ==
    ASSUME McpIInv, NEW c \in Caller, IsAnswered(c)
    PROVE  McpIInv'
<1>1. /\ Ends(c) /\ UNCHANGED <<offered, registry, own, link>>
      /\ slot' = slot \/ slot' = MarkSuccess(slot, task[c].lease)
  BY DEF IsAnswered, KeepWorld, KeepLink
<1>2. LinksKept(c) /\ Calm(slot, slot') /\ slot'.attempts = slot.attempts
  BY <1>1, LinksStand, SlotStands, SuccessIsCalm, CallersAreTasks DEF McpIInv
<1>3. TasksInv' /\ SlotInv'
  BY <1>1, <1>2, EndsRests, RestsKeeps, CallersAreTasks
<1> QED BY <1>1, <1>2, <1>3, WorldStands, CallersAreTasks DEF McpIInv

\* What is known of the connection of the slot.
LEMMA RuntimeFacts ==
    ASSUME McpIInv, slot.runtime # 0
    PROVE  /\ slot.runtime \in Generation /\ link[slot.runtime] = "open"
           /\ IsFiniteSet(FailedOver(slot.runtime))
           /\ Cardinality(FailedOver(slot.runtime)) \in Nat
           /\ own[slot.runtime] \in Nat
           /\ slot.failures["Rpc"] \in Nat /\ slot.failures["Discovery"] \in Nat
           /\ slot.failures["Rpc"] + Cardinality(FailedOver(slot.runtime)) <= own[slot.runtime]
           /\ slot.failures["Discovery"] <= own[slot.runtime]
<1>1. slot.runtime \in Generation
  BY SlotFacts DEF McpIInv, SlotInv
<1>2. RuntimeOK /\ own[slot.runtime] \in Nat
  BY <1>1 DEF McpIInv, SlotInv, WorldInv
<1> QED BY <1>1, <1>2, SlotFacts, FS_CardinalityType DEF RuntimeOK, McpIInv, SlotInv

\* The slot after a step that changes it in its count of failures only.
LEMMA CountKept ==
    ASSUME McpIInv, slot' \in SlotRecord, slot'.runtime = slot.runtime,
           slot'.next = slot.next, slot'.published = slot.published,
           slot'.lifecycle = slot.lifecycle, UNCHANGED <<link, offered>>,
           \A r : r = slot.runtime /\ r # 0 =>
              /\ IsFiniteSet(FailedOver(r)')
              /\ slot'.failures["Rpc"] + Cardinality(FailedOver(r)') <= own'[r]
              /\ slot'.failures["Discovery"] <= own'[r]
    PROVE  SlotInv'
<1>1. RuntimeOK'
  BY DEF RuntimeOK, McpIInv, SlotInv
<1> QED BY <1>1 DEF McpIInv, SlotInv

\* A step that changes nobody's connection and leaves the lock, its task or
\* the slot as they may be.
LEMMA CallFailsKeeps ==
    ASSUME McpIInv, NEW c \in Caller, CallFails(c)
    PROVE  McpIInv'
<1> DEFINE g == task[c].lease
<1>1. /\ task[c].at = "called" /\ UNCHANGED <<offered, registry, link, slot, lock>>
      /\ own' = IF link[g] = "open" THEN [own EXCEPT ![g] = @ + 1] ELSE own
      /\ Goes(c, "failed")
  BY DEF CallFails, At, KeepWorld
<1>2. PICK x : x = [task[c] EXCEPT !.at = "failed"]
  OBVIOUS
<1>3. /\ x \in TaskRecord /\ x.at = "failed" /\ x.old = task[c].old /\ x.seen = task[c].seen
      /\ x.lease = task[c].lease /\ task' = [task EXCEPT ![c] = x] /\ c \in Task
  BY <1>1, <1>2, TaskFacts, CallersAreTasks DEF TaskRecord, Steps, Goes
<1>4. own \in [Generation -> Nat] /\ own' \in [Generation -> Nat]
  <2>1. own \in [Generation -> Nat]
    BY DEF McpIInv, WorldInv
  <2>2. \A h \in Generation : own[h] + 1 \in Nat
    BY <2>1
  <2>3. [own EXCEPT ![g] = own[g] + 1] \in [Generation -> Nat]
    BY <2>1, <2>2
  <2>4. own' = own \/ own' = [own EXCEPT ![g] = own[g] + 1]
    BY <1>1
  <2> QED BY <2>1, <2>3, <2>4
<1>5. Moves(c, x) /\ LockMoves(c) /\ LinksKept(c) /\ TaskOK(c, task[c])
  BY <1>1, <1>3, LinksStand, TaskFacts DEF Moves, LockMoves, Uses, Reconnects
<1>6. TaskOK(c, x)'
  <2>1. /\ lock # c /\ x.old < slot.next /\ (x.old = 0 \/ x.old # slot.runtime)
        /\ x.seen <= offered /\ x.lease \in 1 .. slot.next - 1
    BY <1>1, <1>3, <1>5 DEF TaskOK, Unlocked, Uses
  <2> QED BY <1>1, <1>3, <2>1 DEF TaskOK, Locked, Reconnects
<1>7. TasksInv'
  BY <1>1, <1>3, <1>5, <1>6, TasksKept, TaskFacts
<1>8. ASSUME NEW r, r = slot.runtime, r # 0
      PROVE  /\ IsFiniteSet(FailedOver(r)')
             /\ slot'.failures["Rpc"] + Cardinality(FailedOver(r)') <= own'[r]
             /\ slot'.failures["Discovery"] <= own'[r]
  <2>1. /\ r \in Generation /\ link[r] = "open" /\ IsFiniteSet(FailedOver(r))
        /\ Cardinality(FailedOver(r)) \in Nat /\ own[r] \in Nat
        /\ slot.failures["Rpc"] \in Nat /\ slot.failures["Discovery"] \in Nat
        /\ slot.failures["Rpc"] + Cardinality(FailedOver(r)) <= own[r]
        /\ slot.failures["Discovery"] <= own[r]
    BY <1>8, RuntimeFacts
  <2>2. ASSUME NEW d \in Caller, d # c
        PROVE  task'[d] = task[d]
    BY <1>3, <2>2, CallersAreTasks DEF McpIInv, TasksInv
  <2>3. task'[c] = x
    BY <1>3 DEF McpIInv, TasksInv
  <2>4. CASE task[c].lease = r
    <3>1. FailedOver(r)' = FailedOver(r) \cup {c}
      BY <1>1, <1>3, <2>2, <2>3, <2>4 DEF FailedOver
    <3>2. c \notin FailedOver(r)
      BY <1>1 DEF FailedOver
    <3>3. IsFiniteSet(FailedOver(r)')
      BY <2>1, <3>1, FS_AddElement
    <3>4. Cardinality(FailedOver(r)') = Cardinality(FailedOver(r)) + 1
      BY <2>1, <3>1, <3>2, FS_AddElement
    <3>5. own'[r] = own[r] + 1
      BY <1>1, <1>4, <2>1, <2>4
    <3> QED BY <1>1, <2>1, <3>3, <3>4, <3>5
  <2>5. CASE task[c].lease # r
    <3>1. FailedOver(r)' = FailedOver(r)
      BY <1>1, <1>3, <2>2, <2>3, <2>5 DEF FailedOver
    <3>2. own'[r] = own[r]
      BY <1>1, <1>4, <2>1, <2>5
    <3> QED BY <1>1, <2>1, <3>1, <3>2
  <2> QED BY <2>4, <2>5
<1>9. SlotInv'
  BY <1>1, <1>8, CountKept, TaskFacts, <1>3
<1>10. WorldInv'
  BY <1>1, <1>4 DEF McpIInv, WorldInv
<1> QED BY <1>7, <1>9, <1>10 DEF McpIInv

\* The failure of kind k is counted for the connection of the slot.
LEMMA MarkCounts ==
    ASSUME NEW s \in SlotRecord, NEW k \in Kind, NEW g, IsCurrentRuntime(s, g)
    PROVE  /\ MarkFailure(s, k, g) \in SlotRecord
           /\ MarkFailure(s, k, g).runtime = s.runtime /\ MarkFailure(s, k, g).next = s.next
           /\ MarkFailure(s, k, g).published = s.published
           /\ MarkFailure(s, k, g).lifecycle = s.lifecycle
           /\ MarkFailure(s, k, g).attempts = s.attempts
           /\ MarkFailure(s, k, g).failures[k] = s.failures[k] + 1
           /\ \A j \in Kind \ {k} : MarkFailure(s, k, g).failures[j] = s.failures[j]
<1>1. PICK f : f = [s.failures EXCEPT ![k] = s.failures[k] + 1]
  OBVIOUS
<1>2. PICK n : n = [s EXCEPT !.failures = f]
  OBVIOUS
<1>3. s.failures \in [Kind -> Nat]
  BY SlotFacts
<1>4. /\ f \in [Kind -> Nat] /\ f[k] = s.failures[k] + 1
      /\ \A j \in Kind \ {k} : f[j] = s.failures[j]
  BY <1>1, <1>3
<1>5. /\ n \in SlotRecord /\ n.runtime = s.runtime /\ n.next = s.next
      /\ n.published = s.published /\ n.lifecycle = s.lifecycle
      /\ n.attempts = s.attempts /\ n.failures = f
  BY <1>2, <1>4 DEF SlotRecord
<1>6. MarkFailure(s, k, g) = n
  BY <1>1, <1>2 DEF MarkFailure
<1> QED BY <1>4, <1>5, <1>6

LEMMA RecordsFailureKeeps ==
    ASSUME McpIInv, NEW c \in Caller, RecordsFailure(c)
    PROVE  McpIInv'
<1>1. /\ task[c].at = "failed" /\ lock = "nobody" /\ UNCHANGED <<offered, registry, own, link>>
      /\ slot' = MarkFailure(slot, "Rpc", task[c].lease) /\ c \in Task
      /\ IF IsCurrentRuntime(slot, task[c].lease) THEN Goes(c, "marked") /\ lock' = c
         ELSE Ends(c)
  BY CallersAreTasks DEF RecordsFailure, At, KeepWorld, KeepLink
<1>2. LinksKept(c)
  BY <1>1, LinksStand
<1>3. WorldInv'
  BY <1>1, <1>2, WorldStands
<1>4. CASE ~IsCurrentRuntime(slot, task[c].lease)
  <2>1. slot' = slot /\ Ends(c)
    BY <1>1, <1>4 DEF MarkFailure
  <2>2. Calm(slot, slot')
    BY <2>1, SlotStands DEF McpIInv
  <2>3. TasksInv' /\ SlotInv'
    BY <1>1, <1>2, <2>1, <2>2, EndsRests, RestsKeeps
  <2> QED BY <1>3, <2>3 DEF McpIInv
<1>5. CASE IsCurrentRuntime(slot, task[c].lease)
  <2>1. PICK x : x = [task[c] EXCEPT !.at = "marked"]
    OBVIOUS
  <2>2. /\ x \in TaskRecord /\ x.at = "marked" /\ x.old = task[c].old /\ x.seen = task[c].seen
        /\ task' = [task EXCEPT ![c] = x] /\ lock' = c
    BY <1>1, <1>5, <2>1, TaskFacts DEF TaskRecord, Steps, Goes
  <2>3. /\ slot' \in SlotRecord /\ slot'.runtime = slot.runtime /\ slot'.next = slot.next
        /\ slot'.published = slot.published /\ slot'.lifecycle = slot.lifecycle
        /\ slot'.attempts = slot.attempts
        /\ slot'.failures["Rpc"] = slot.failures["Rpc"] + 1
        /\ slot'.failures["Discovery"] = slot.failures["Discovery"]
    BY <1>1, <1>5, MarkCounts, TaskFacts DEF Kind
  <2>4. Moves(c, x) /\ LockMoves(c)
    BY <1>1, <2>2 DEF Moves, LockMoves, Uses, Reconnects
  <2>5. TaskOK(c, x)'
    <3>1. /\ x.old < slot.next /\ (x.old = 0 \/ x.old # slot.runtime) /\ x.seen <= offered
      BY <1>1, <2>2, TaskFacts DEF TaskOK
    <3> QED BY <1>1, <2>2, <2>3, <3>1 DEF TaskOK, Unlocked, Uses, Reconnects
  <2>6. TasksInv'
    <3>1. /\ slot'.next \in Nat /\ slot.next <= slot'.next
          /\ offered' \in Nat /\ offered <= offered'
      BY <1>1, <2>3, TaskFacts
    <3> QED BY <1>1, <1>2, <2>2, <2>3, <2>4, <2>5, <3>1, TasksKept
  <2>7. ASSUME NEW r, r = slot.runtime, r # 0
        PROVE  /\ IsFiniteSet(FailedOver(r)')
               /\ slot'.failures["Rpc"] + Cardinality(FailedOver(r)') <= own'[r]
               /\ slot'.failures["Discovery"] <= own'[r]
    <3>1. /\ IsFiniteSet(FailedOver(r))
          /\ Cardinality(FailedOver(r)) \in Nat /\ own[r] \in Nat
          /\ slot.failures["Rpc"] \in Nat /\ slot.failures["Discovery"] \in Nat
          /\ slot.failures["Rpc"] + Cardinality(FailedOver(r)) <= own[r]
          /\ slot.failures["Discovery"] <= own[r]
      BY <2>7, RuntimeFacts
    <3>2. ASSUME NEW d \in Caller, d # c
          PROVE  task'[d] = task[d]
      BY <2>2, <3>2, CallersAreTasks DEF McpIInv, TasksInv
    <3>3. task'[c] = x
      BY <1>1, <2>2 DEF McpIInv, TasksInv
    <3>4. FailedOver(r)' = FailedOver(r) \ {c}
      BY <2>2, <3>2, <3>3 DEF FailedOver
    <3>5. c \in FailedOver(r)
      BY <1>1, <1>5, <2>7 DEF FailedOver, IsCurrentRuntime
    <3>6. IsFiniteSet(FailedOver(r)')
      BY <3>1, <3>4, FS_RemoveElement
    <3>7. Cardinality(FailedOver(r)') = Cardinality(FailedOver(r)) - 1
      BY <3>1, <3>4, <3>5, FS_RemoveElement
    <3> QED BY <1>1, <2>3, <3>1, <3>6, <3>7
  <2>8. SlotInv'
    BY <1>1, <2>3, <2>7, CountKept
  <2> QED BY <1>3, <2>6, <2>8 DEF McpIInv
<1> QED BY <1>4, <1>5

LEMMA DecidesReconnectKeeps ==
    ASSUME McpIInv, NEW c \in Caller, DecidesReconnect(c)
    PROVE  McpIInv'
<1>1. /\ task[c].at = "marked" /\ UNCHANGED <<offered, registry, own, link, slot>>
      /\ (Goes(c, "begin") /\ UNCHANGED lock) \/ Ends(c)
      /\ c \in Task
  BY CallersAreTasks DEF DecidesReconnect, At, KeepWorld, KeepLink
<1>2. LinksKept(c) /\ Calm(slot, slot')
  BY <1>1, LinksStand, SlotStands DEF McpIInv
<1>3. CASE Ends(c)
  <2>1. TasksInv' /\ SlotInv'
    BY <1>1, <1>2, <1>3, EndsRests, RestsKeeps
  <2> QED BY <1>1, <1>2, <2>1, WorldStands DEF McpIInv
<1>4. CASE Goes(c, "begin") /\ UNCHANGED lock
  <2>1. PICK x : x = [task[c] EXCEPT !.at = "begin"]
    OBVIOUS
  <2>2. /\ x \in TaskRecord /\ x.at = "begin" /\ x.old = task[c].old /\ x.seen = task[c].seen
        /\ task' = [task EXCEPT ![c] = x]
    BY <1>1, <1>4, <2>1, TaskFacts DEF TaskRecord, Steps, Goes
  <2>3. Moves(c, x) /\ LockMoves(c)
    BY <1>4, <2>2 DEF Moves, LockMoves, Uses, Reconnects
  <2>4. TaskOK(c, x)'
    <3>1. /\ x.old < slot.next /\ (x.old = 0 \/ x.old # slot.runtime) /\ x.seen <= offered
          /\ lock = c
      BY <1>1, <2>2, TaskFacts DEF TaskOK, Locked
    <3> QED BY <1>1, <1>4, <2>2, <3>1 DEF TaskOK, Unlocked, Uses, Reconnects
  <2>5. TasksInv' /\ SlotInv'
    BY <1>1, <1>2, <2>2, <2>3, <2>4, CalmStepKeeps
  <2> QED BY <1>1, <1>2, <2>5, WorldStands DEF McpIInv
<1> QED BY <1>1, <1>3, <1>4

----------------------------------------------------------------------------
(* The refresh. *)

LEMMA StartsRefreshKeeps ==
    ASSUME McpIInv, NEW t \in {"timer", "watcher"}, At(t, "idle"), StartsRefresh(t),
           UNCHANGED <<slot, registry, offered, own, link>>
    PROVE  McpIInv'
<1>1. t \in Task /\ task[t].at = "idle" /\ t # "nobody"
  BY DEF Task, At
<1>2. lock # t
  BY <1>1, TaskFacts DEF TaskOK, Unlocked
<1>3. PICK x : x = [NoTask EXCEPT !.job = "refresh", !.lease = slot.runtime,
                          !.at = IF lock' # t THEN "rebuild"
                                 ELSE IF slot.lifecycle = "Disconnected" THEN "begin"
                                 ELSE "listing"]
  OBVIOUS
<1>4. /\ task' = [task EXCEPT ![t] = x]
      /\ lock' = IF lock = "nobody" /\ slot.lifecycle \in {"Disconnected", "Connected"}
                 THEN t ELSE lock
  BY <1>3 DEF StartsRefresh
<1>5. /\ x \in TaskRecord /\ x.old = 0 /\ x.seen = 0 /\ x.lease = slot.runtime
      /\ x.at = IF lock' # t THEN "rebuild"
                ELSE IF slot.lifecycle = "Disconnected" THEN "begin" ELSE "listing"
  BY <1>1, <1>3, TaskFacts DEF TaskRecord, Steps, NoTask
<1>6. LinksKept(t) /\ Calm(slot, slot') /\ LockMoves(t)
  BY <1>1, <1>4, LinksStand, SlotStands DEF McpIInv, LockMoves
<1>7. Moves(t, x)
  BY <1>4, <1>5 DEF Moves, Reconnects
<1>8. TaskOK(t, x)'
  <2>1. x.old < slot.next /\ x.seen <= offered
    BY <1>1, <1>5, TaskFacts
  <2>2. x.at = "listing" => x.lease \in 1 .. slot.next - 1
    <3>1. x.at = "listing" => slot.lifecycle = "Connected"
      BY <1>2, <1>4, <1>5
    <3>2. slot.lifecycle = "Connected" => slot.runtime # 0
      BY DEF McpIInv, SlotInv
    <3> QED BY <1>1, <1>5, <3>1, <3>2, TaskFacts
  <2> QED BY <1>5, <2>1, <2>2 DEF TaskOK, Unlocked, Uses, Reconnects, Locked
<1>9. TasksInv' /\ SlotInv'
  BY <1>1, <1>5, <1>6, <1>7, <1>8, CalmStepKeeps
<1> QED BY <1>1, <1>6, <1>9, WorldStands DEF McpIInv

LEMMA ListsKeeps ==
    ASSUME McpIInv, NEW t \in Task, Lists(t)
    PROVE  McpIInv'
<1>1. /\ task[t].at = "listing" /\ UNCHANGED <<offered, registry, own, link, slot, lock>>
      /\ task' = [task EXCEPT ![t].at = "applying", ![t].seen = offered]
  BY DEF Lists, At, KeepWorld, KeepLink
<1>2. PICK x : x = [task[t] EXCEPT !.at = "applying", !.seen = offered]
  OBVIOUS
<1>3. /\ x \in TaskRecord /\ x.at = "applying" /\ x.old = task[t].old /\ x.seen = offered
      /\ x.lease = task[t].lease
  BY <1>2, TaskFacts DEF TaskRecord, Steps
<1>4. task' = [task EXCEPT ![t] = x]
  BY <1>1, <1>2 DEF McpIInv, TasksInv
<1>5. LinksKept(t) /\ Calm(slot, slot') /\ LockMoves(t) /\ Moves(t, x)
  BY <1>1, <1>3, <1>4, LinksStand, SlotStands
     DEF McpIInv, LockMoves, Moves, Uses, Reconnects
<1>6. TaskOK(t, x)'
  <2>1. /\ x.old < slot.next /\ (x.old = 0 \/ x.old # slot.runtime) /\ x.seen <= offered
        /\ lock = t /\ x.lease \in 1 .. slot.next - 1
    BY <1>1, <1>3, TaskFacts DEF TaskOK, Locked, Uses
  <2> QED BY <1>1, <1>3, <2>1 DEF TaskOK, Unlocked, Reconnects
<1>7. TasksInv' /\ SlotInv'
  BY <1>1, <1>3, <1>5, <1>6, CalmStepKeeps
<1> QED BY <1>1, <1>5, <1>7, WorldStands DEF McpIInv

LEMMA ListFailsKeeps ==
    ASSUME McpIInv, NEW t \in {"timer", "watcher"}, ListFails(t)
    PROVE  McpIInv'
<1> DEFINE g == task[t].lease
           again == MarkFailure(slot, "Discovery", g).failures["Discovery"] >= FailureThreshold
<1>1. /\ task[t].at = "listing" /\ UNCHANGED <<offered, registry, link>>
      /\ own' = IF link[g] = "open" THEN [own EXCEPT ![g] = @ + 1] ELSE own
      /\ slot' = MarkFailure(slot, "Discovery", g)
      /\ Goes(t, IF again THEN "begin" ELSE "rebuild")
      /\ lock' = IF again THEN lock ELSE "nobody"
  BY DEF ListFails, At, KeepWorld
<1>2. t \in Task /\ t \notin Caller
  BY Bounds DEF Task
<1>3. PICK x : x = [task[t] EXCEPT !.at = IF again THEN "begin" ELSE "rebuild"]
  OBVIOUS
<1>4. /\ x \in TaskRecord /\ x.at = (IF again THEN "begin" ELSE "rebuild")
      /\ x.old = task[t].old /\ x.seen = task[t].seen /\ task' = [task EXCEPT ![t] = x]
  <2> HIDE DEF again
  <2> QED BY <1>1, <1>2, <1>3, TaskFacts DEF TaskRecord, Steps, Goes
<1> HIDE DEF again
<1>5. TaskOK(t, task[t]) /\ lock = t
  BY <1>1, <1>2, TaskFacts DEF TaskOK, Locked
<1>6. own \in [Generation -> Nat] /\ own' \in [Generation -> Nat]
  <2>1. own \in [Generation -> Nat]
    BY DEF McpIInv, WorldInv
  <2>2. \A h \in Generation : own[h] + 1 \in Nat
    BY <2>1
  <2>3. [own EXCEPT ![g] = own[g] + 1] \in [Generation -> Nat]
    BY <2>1, <2>2
  <2>4. own' = own \/ own' = [own EXCEPT ![g] = own[g] + 1]
    BY <1>1
  <2> QED BY <2>1, <2>3, <2>4
<1>7. /\ slot' \in SlotRecord /\ slot'.runtime = slot.runtime /\ slot'.next = slot.next
      /\ slot'.published = slot.published /\ slot'.lifecycle = slot.lifecycle
      /\ slot'.attempts = slot.attempts
      /\ slot'.failures["Rpc"] = slot.failures["Rpc"]
      /\ \/ slot'.failures["Discovery"] = slot.failures["Discovery"]
         \/ /\ slot'.failures["Discovery"] = slot.failures["Discovery"] + 1
            /\ slot.runtime = g
  <2>1. CASE IsCurrentRuntime(slot, g)
    <3>1. slot.runtime = g
      BY <2>1 DEF IsCurrentRuntime
    <3> QED BY <1>1, <1>2, <2>1, <3>1, MarkCounts, TaskFacts DEF Kind
  <2>2. CASE ~IsCurrentRuntime(slot, g)
    BY <1>1, <1>2, <2>2, TaskFacts DEF MarkFailure
  <2> QED BY <2>1, <2>2
<1>8. LinksKept(t)
  BY <1>1, <1>2, LinksStand
<1>9. Moves(t, x) /\ LockMoves(t)
  BY <1>1, <1>4, <1>5 DEF Moves, LockMoves, Uses, Reconnects
<1>10. TaskOK(t, x)'
  <2>1. /\ x.old < slot'.next /\ (x.old = 0 \/ x.old # slot'.runtime) /\ x.seen <= offered'
    BY <1>1, <1>2, <1>4, <1>7, TaskFacts DEF TaskOK
  <2>2. x.at = "begin" => lock' = t
    BY <1>1, <1>4, <1>5
  <2> QED BY <1>4, <2>1, <2>2 DEF TaskOK, Locked, Unlocked, Uses, Reconnects
<1>11. TasksInv'
  <2>1. /\ slot'.next \in Nat /\ slot.next <= slot'.next
        /\ offered' \in Nat /\ offered <= offered'
    BY <1>1, <1>2, <1>7, TaskFacts
  <2> QED BY <1>2, <1>4, <1>7, <1>8, <1>9, <1>10, <2>1, TasksKept
<1>12. ASSUME NEW r, r = slot.runtime, r # 0
       PROVE  /\ IsFiniteSet(FailedOver(r)')
              /\ slot'.failures["Rpc"] + Cardinality(FailedOver(r)') <= own'[r]
              /\ slot'.failures["Discovery"] <= own'[r]
  <2>1. /\ r \in Generation /\ link[r] = "open" /\ IsFiniteSet(FailedOver(r))
        /\ Cardinality(FailedOver(r)) \in Nat /\ own[r] \in Nat
        /\ slot.failures["Rpc"] \in Nat /\ slot.failures["Discovery"] \in Nat
        /\ slot.failures["Rpc"] + Cardinality(FailedOver(r)) <= own[r]
        /\ slot.failures["Discovery"] <= own[r]
    BY <1>12, RuntimeFacts
  <2>2. \A d \in Caller : task'[d] = task[d]
    BY <1>2, <1>4, CallersAreTasks DEF McpIInv, TasksInv
  <2>3. FailedOver(r)' = FailedOver(r)
    BY <2>2 DEF FailedOver
  <2>4. own'[r] = own[r] \/ own'[r] = own[r] + 1
    BY <1>1, <1>6, <2>1
  <2>5. r = g => own'[r] = own[r] + 1
    BY <1>1, <1>6, <2>1
  <2> QED BY <1>7, <1>12, <2>1, <2>3, <2>4, <2>5
<1>13. SlotInv'
  BY <1>1, <1>7, <1>12, CountKept
<1>14. WorldInv'
  BY <1>1, <1>6 DEF McpIInv, WorldInv
<1> QED BY <1>11, <1>13, <1>14 DEF McpIInv

LEMMA AppliesKeeps ==
    ASSUME McpIInv, NEW t \in Task, Applies(t)
    PROVE  McpIInv'
<1>1. /\ task[t].at = "applying" /\ UNCHANGED <<offered, registry, own, link>>
      /\ slot' = ApplyCatalog(slot, task[t].lease, task[t].seen)
      /\ Goes(t, "rebuild") /\ lock' = "nobody"
  BY DEF Applies, At, KeepWorld, KeepLink
<1>2. lock = t /\ task[t].lease # 0 /\ task[t].seen \in Nat /\ task[t].seen <= offered
      /\ t # "nobody"
  BY <1>1, TaskFacts, Bounds DEF TaskOK, Locked, Uses
<1>3. LinksKept(t) /\ Calm(slot, slot')
  BY <1>1, <1>2, LinksStand, CatalogIsCalm DEF McpIInv
<1>4. PICK x : x = [task[t] EXCEPT !.at = "rebuild"]
  OBVIOUS
<1>5. /\ x \in TaskRecord /\ x.at = "rebuild" /\ x.old = task[t].old /\ x.seen = task[t].seen
      /\ task' = [task EXCEPT ![t] = x]
  BY <1>1, <1>4, TaskFacts DEF TaskRecord, Steps, Goes
<1>6. Rests(t, x)
  BY <1>1, <1>2, <1>5 DEF Rests
<1>7. TasksInv' /\ SlotInv'
  BY <1>1, <1>2, <1>3, <1>5, <1>6, RestsKeeps
<1> QED BY <1>1, <1>3, <1>7, WorldStands DEF McpIInv

----------------------------------------------------------------------------
(* The orders, the end of the registry, the server. *)

LEMMA IsOrderedKeeps ==
    ASSUME McpIInv, NEW job \in {"order", "enable", "disable"}, IsOrdered(job)
    PROVE  McpIInv'
<1>1. /\ task["host"].at = "idle" /\ UNCHANGED <<offered, registry, own, link, slot, lock>>
      /\ "host" \in Task
  BY DEF IsOrdered, At, KeepLink, Task
<1>2. PICK x : x = [NoTask EXCEPT !.at = "waiting", !.job = job]
  OBVIOUS
<1>3. /\ x \in TaskRecord /\ x.at = "waiting" /\ x.old = 0 /\ x.seen = 0 /\ x.job = job
      /\ task' = [task EXCEPT !["host"] = x]
  BY <1>2 DEF TaskRecord, Steps, NoTask, IsOrdered
<1>4. LinksKept("host") /\ Calm(slot, slot') /\ LockMoves("host") /\ Moves("host", x)
  BY <1>1, <1>3, LinksStand, SlotStands DEF McpIInv, LockMoves, Moves, Uses, Reconnects
<1>5. TaskOK("host", x)'
  <2>1. lock # "host" /\ x.old < slot.next /\ x.seen <= offered
    BY <1>1, <1>3, TaskFacts DEF TaskOK, Unlocked
  <2> QED BY <1>1, <1>3, <2>1 DEF TaskOK, Locked, Uses, Reconnects
<1>6. TasksInv' /\ SlotInv'
  BY <1>1, <1>3, <1>4, <1>5, CalmStepKeeps
<1> QED BY <1>1, <1>4, <1>6, WorldStands DEF McpIInv

LEMMA TakesOrderKeeps ==
    ASSUME McpIInv, TakesOrder
    PROVE  McpIInv'
<1>1. /\ task["host"].at = "waiting" /\ lock = "nobody" /\ lock' = "host"
      /\ UNCHANGED <<offered, registry, own, link>> /\ "host" \in Task
  BY DEF TakesOrder, At, KeepLink, KeepWorld, Task
<1>2. \/ Goes("host", "begin") /\ slot' \in {slot, Enable(slot)}
      \/ /\ slot' = BeginDisable(slot)
         /\ task' = [task EXCEPT !["host"].at = "rebuild", !["host"].old = slot.runtime]
  <2>1. task["host"].job \in {"order", "enable", "disable"}
    BY <1>1, TaskFacts DEF TaskOK
  <2> QED BY <2>1 DEF TakesOrder
<1>3. LinksKept("host") /\ LockMoves("host")
  BY <1>1, LinksStand DEF LockMoves
<1>4. CASE Goes("host", "begin") /\ slot' \in {slot, Enable(slot)}
  <2>1. PICK x : x = [task["host"] EXCEPT !.at = "begin"]
    OBVIOUS
  <2>2. /\ x \in TaskRecord /\ x.at = "begin" /\ x.old = task["host"].old
        /\ x.seen = task["host"].seen /\ task' = [task EXCEPT !["host"] = x]
    BY <1>1, <1>4, <2>1, TaskFacts DEF TaskRecord, Steps, Goes
  <2>3. Calm(slot, slot')
    BY <1>4, SlotStands, OrdersAreCalm DEF McpIInv
  <2>4. Moves("host", x)
    BY <2>2 DEF Moves, Uses, Reconnects
  <2>5. TaskOK("host", x)'
    <3>1. slot'.next = slot.next /\ (slot'.runtime = 0 \/ slot'.runtime = slot.runtime)
      BY <2>3 DEF Calm
    <3>2. x.old < slot'.next /\ (x.old = 0 \/ x.old # slot'.runtime) /\ x.seen <= offered'
      BY <1>1, <2>2, <3>1, TaskFacts DEF TaskOK
    <3> QED BY <1>1, <2>2, <3>2 DEF TaskOK, Unlocked, Uses, Reconnects
  <2>6. TasksInv' /\ SlotInv'
    BY <1>1, <1>3, <2>2, <2>3, <2>4, <2>5, CalmStepKeeps
  <2> QED BY <1>1, <1>3, <2>6, WorldStands DEF McpIInv
<1>5. CASE /\ slot' = BeginDisable(slot)
           /\ task' = [task EXCEPT !["host"].at = "rebuild", !["host"].old = slot.runtime]
  <2>1. PICK x : x = [task["host"] EXCEPT !.at = "rebuild", !.old = slot.runtime]
    OBVIOUS
  <2>2. /\ x \in TaskRecord /\ x.at = "rebuild" /\ x.old = slot.runtime
        /\ x.seen = task["host"].seen /\ task' = [task EXCEPT !["host"] = x]
    BY <1>1, <1>5, <2>1, TaskFacts DEF TaskRecord, Steps, McpIInv, TasksInv
  <2>3. Calm(slot, slot') /\ slot'.runtime = 0 /\ slot'.next = slot.next
    BY <1>5, OrdersAreCalm DEF McpIInv, Calm
  <2>4. Moves("host", x)
    BY <2>2 DEF Moves, Uses, Reconnects
  <2>5. TaskOK("host", x)'
    <3>1. x.old < slot'.next /\ (x.old = 0 \/ x.old # slot'.runtime) /\ x.seen <= offered'
      BY <1>1, <2>2, <2>3, TaskFacts
    <3> QED BY <1>1, <2>2, <3>1 DEF TaskOK, Locked, Unlocked, Uses, Reconnects
  <2>6. TasksInv' /\ SlotInv'
    BY <1>1, <1>3, <2>2, <2>3, <2>4, <2>5, CalmStepKeeps
  <2> QED BY <1>1, <1>3, <2>6, WorldStands DEF McpIInv
<1> QED BY <1>2, <1>4, <1>5

LEMMA DetachesKeeps ==
    ASSUME McpIInv, Detaches
    PROVE  McpIInv'
<1> DEFINE old == task["host"].old
<1>1. /\ Ends("host") /\ UNCHANGED <<offered, registry, own>>
      /\ slot' = FinishDisable(slot) /\ "host" \in Task
      /\ \/ link' = IF old = 0 THEN link ELSE [link EXCEPT ![old] = "closed"]
         \/ link' = [link EXCEPT ![old] = "abandoned"]
  BY DEF Detaches, KeepWorld, Task
<1>2. LinksKept("host")
  <2>1. CASE link' = link
    BY <1>1, <2>1, LinksStand
  <2>2. CASE link' = [link EXCEPT ![old] = "closed"] \/ link' = [link EXCEPT ![old] = "abandoned"]
    BY <1>1, <2>2, LinkCloses
  <2> QED BY <1>1, <2>1, <2>2
<1>3. Calm(slot, slot') /\ slot'.attempts = slot.attempts
  BY <1>1, OrdersAreCalm DEF McpIInv
<1>4. TasksInv' /\ SlotInv'
  BY <1>1, <1>2, <1>3, EndsRests, RestsKeeps
<1> QED BY <1>1, <1>2, <1>4, WorldStands DEF McpIInv

LEMMA StopsTimerKeeps ==
    ASSUME McpIInv, StopsTimer
    PROVE  McpIInv'
<1>1. /\ task["closer"].at = "idle" /\ UNCHANGED <<offered, registry, own, link, slot, lock>>
      /\ "closer" \in Task
      /\ task' = [task EXCEPT !["closer"].at = "taking", !["closer"].job = "close"]
  BY DEF StopsTimer, At, KeepLink, Task
<1>2. PICK x : x = [task["closer"] EXCEPT !.at = "taking", !.job = "close"]
  OBVIOUS
<1>3. /\ x \in TaskRecord /\ x.at = "taking" /\ x.old = task["closer"].old
      /\ x.seen = task["closer"].seen
  BY <1>1, <1>2, TaskFacts DEF TaskRecord, Steps
<1>4. task' = [task EXCEPT !["closer"] = x]
  BY <1>1, <1>2 DEF McpIInv, TasksInv
<1>5. /\ LinksKept("closer") /\ Calm(slot, slot') /\ LockMoves("closer")
      /\ Moves("closer", x)
  BY <1>1, <1>3, <1>4, LinksStand, SlotStands DEF McpIInv, LockMoves, Moves, Uses, Reconnects
<1>6. TaskOK("closer", x)'
  <2>1. x.old < slot.next /\ (x.old = 0 \/ x.old # slot.runtime) /\ x.seen <= offered
    BY <1>1, <1>3, TaskFacts DEF TaskOK
  <2> QED BY <1>1, <1>3, <2>1 DEF TaskOK, Locked, Unlocked, Uses, Reconnects
<1>7. TasksInv' /\ SlotInv'
  BY <1>1, <1>3, <1>5, <1>6, CalmStepKeeps
<1> QED BY <1>1, <1>5, <1>7, WorldStands DEF McpIInv

LEMMA TakesRuntimeKeeps ==
    ASSUME McpIInv, TakesRuntime
    PROVE  McpIInv'
<1> DEFINE at == IF slot.runtime = 0 THEN "rebuild" ELSE "detaching"
<1>1. /\ UNCHANGED <<offered, registry, own, link, lock>> /\ "closer" \in Task
      /\ task' = [task EXCEPT !["closer"].at = at, !["closer"].old = slot.runtime]
      /\ slot' = CloseSlot(slot)
  BY DEF TakesRuntime, KeepLink, KeepWorld, Task
<1>2. at \in {"rebuild", "detaching"}
  OBVIOUS
<1> HIDE DEF at
<1>3. PICK x : x = [task["closer"] EXCEPT !.at = at, !.old = slot.runtime]
  OBVIOUS
<1>4. /\ x \in TaskRecord /\ x.at = at /\ x.old = slot.runtime /\ x.seen = task["closer"].seen
  BY <1>1, <1>2, <1>3, TaskFacts DEF TaskRecord, Steps
<1>5. task' = [task EXCEPT !["closer"] = x]
  BY <1>1, <1>3 DEF McpIInv, TasksInv
<1>6. Calm(slot, slot') /\ slot'.attempts = slot.attempts /\ slot'.runtime = 0
  BY <1>1, OrdersAreCalm DEF McpIInv
<1>7. LinksKept("closer") /\ LockMoves("closer") /\ Moves("closer", x)
  BY <1>1, <1>2, <1>4, <1>5, LinksStand DEF LockMoves, Moves, Uses, Reconnects
<1>8. TaskOK("closer", x)'
  <2>1. x.old < slot'.next /\ (x.old = 0 \/ x.old # slot'.runtime) /\ x.seen <= offered
    BY <1>1, <1>4, <1>6, TaskFacts DEF Calm
  <2> QED BY <1>1, <1>2, <1>4, <2>1 DEF TaskOK, Locked, Unlocked, Uses, Reconnects
<1>9. TasksInv' /\ SlotInv'
  BY <1>1, <1>2, <1>4, <1>6, <1>7, <1>8, CalmStepKeeps
<1> QED BY <1>1, <1>7, <1>9, WorldStands DEF McpIInv

LEMMA ClosesTakenKeeps ==
    ASSUME McpIInv, ClosesTaken
    PROVE  McpIInv'
<1>1. /\ UNCHANGED <<offered, registry, own, slot, lock>> /\ "closer" \in Task
      /\ task["closer"].at = "detaching"
      /\ task' = [task EXCEPT !["closer"].at = "rebuild", !["closer"].old = 0]
      /\ \/ link' = [link EXCEPT ![task["closer"].old] = "closed"]
         \/ link' = [link EXCEPT ![task["closer"].old] = "abandoned"]
  BY DEF ClosesTaken, KeepWorld, Task, At
<1>2. PICK x : x = [task["closer"] EXCEPT !.at = "rebuild", !.old = 0]
  OBVIOUS
<1>3. /\ x \in TaskRecord /\ x.at = "rebuild" /\ x.old = 0 /\ x.seen = task["closer"].seen
  BY <1>1, <1>2, TaskFacts DEF TaskRecord, Steps
<1>4. task' = [task EXCEPT !["closer"] = x]
  BY <1>1, <1>2 DEF McpIInv, TasksInv
<1>5. LinksKept("closer")
  BY <1>1, LinkCloses
<1>6. Rests("closer", x) /\ Calm(slot, slot')
  BY <1>1, <1>3, SlotStands DEF Rests, McpIInv
<1>7. TasksInv' /\ SlotInv'
  BY <1>1, <1>3, <1>4, <1>5, <1>6, RestsKeeps
<1> QED BY <1>1, <1>5, <1>7, WorldStands DEF McpIInv

LEMMA IsDroppedKeeps ==
    ASSUME McpIInv, NEW t \in Caller \cup {"host"}, IsDropped(t)
    PROVE  McpIInv'
<1>1. /\ Ends(t) /\ UNCHANGED <<slot, registry, offered, own>> /\ t \in Task
      /\ link' = [g \in Generation |->
           IF \/ At(t, "closing") /\ g = task[t].old
              \/ At(t, "detaching") /\ g = task[t].old
              \/ task[t].at \in {"discovering", "finishing"} /\ g = task[t].lease
           THEN "abandoned" ELSE link[g]]
  BY DEF IsDropped, Task
<1>2. LinksKept(t)
  BY <1>1 DEF LinksKept, At, Reconnects, McpIInv, WorldInv
<1>3. Calm(slot, slot')
  BY <1>1, SlotStands DEF McpIInv
<1>4. TasksInv' /\ SlotInv'
  BY <1>1, <1>2, <1>3, EndsRests, RestsKeeps
<1> QED BY <1>1, <1>2, <1>4, WorldStands DEF McpIInv

LEMMA ServerChangesKeeps ==
    ASSUME McpIInv, ServerChanges
    PROVE  McpIInv'
<1>1. /\ offered <= MaxChanges /\ offered' = offered + 1
      /\ UNCHANGED <<slot, lock, registry, task, link, own>>
  BY DEF ServerChanges, KeepLink
<1>2. /\ offered \in Nat /\ offered' \in 1 .. MaxChanges + 1 /\ registry \in 0 .. offered
  BY <1>1, Bounds DEF McpIInv, WorldInv
<1>3. WorldInv'
  BY <1>1, <1>2 DEF McpIInv, WorldInv
<1>4. SlotInv'
  <2>1. RuntimeOK'
    BY <1>1 DEF McpIInv, SlotInv, RuntimeOK, FailedOver
  <2>2. slot.published \in Nat
    BY SlotFacts DEF McpIInv, SlotInv
  <2> QED BY <1>1, <1>2, <2>1, <2>2 DEF McpIInv, SlotInv
<1>5. TasksInv'
  <2>1. ASSUME NEW u \in Task
        PROVE  TaskOK(u, task[u])'
    <3>1. TaskOK(u, task[u]) /\ task[u].seen \in Nat
      BY TaskFacts
    <3> QED BY <1>1, <1>2, <3>1 DEF TaskOK
  <2>2. \A u, v \in Task : Apart(task'[v], task'[u])
    BY <1>1 DEF McpIInv, TasksInv
  <2> QED BY <1>1, <2>1, <2>2 DEF McpIInv, TasksInv
<1> QED BY <1>3, <1>4, <1>5 DEF McpIInv

LEMMA McpInitOK == McpInit => McpIInv
<1> SUFFICES ASSUME McpInit
             PROVE  McpIInv
  OBVIOUS
<1>1. NoTask \in TaskRecord /\ NoTask.at = "idle" /\ NoTask.old = 0 /\ NoTask.seen = 0
  BY DEF NoTask, TaskRecord, Steps
<1>2. \A t \in Task : task[t] = NoTask
  BY DEF McpInit
<1>3. slot.next = 2 /\ slot.runtime = 1 /\ lock = "nobody" /\ offered = 1
  BY DEF McpInit
<1>4. TasksInv
  <2>1. ASSUME NEW t \in Task
        PROVE  TaskOK(t, NoTask)
    BY <1>1, <1>3, Bounds DEF TaskOK, Locked, Uses, Reconnects
  <2>2. Apart(NoTask, NoTask)
    BY <1>1 DEF Apart, Reconnects
  <2>3. task \in [Task -> TaskRecord] /\ lock \in Task \cup {"nobody"}
    BY <1>1 DEF McpInit
  <2> QED BY <1>2, <2>1, <2>2, <2>3 DEF TasksInv
<1>5. WorldInv
  BY Bounds DEF McpInit, WorldInv
<1>6. SlotInv
  <2>1. 1 \in Generation /\ 1 \in 0 .. MaxChanges + 1 /\ 0 \in 0 .. MaxReconnectAttempts
    BY Bounds DEF Generation
  <2>2. slot \in SlotRecord
    BY <2>1, NoFailuresFact DEF McpInit, SlotRecord, Lifecycle
  <2>3. FailedOver(1) = {}
    BY <1>1, <1>2, CallersAreTasks DEF FailedOver
  <2>4. IsFiniteSet(FailedOver(1)) /\ Cardinality(FailedOver(1)) = 0
    BY <2>3, FS_EmptySet
  <2>5. /\ slot.failures["Rpc"] = 0 /\ slot.failures["Discovery"] = 0
        /\ own[1] = 0 /\ link[1] = "open"
    BY <2>1, NoFailuresFact DEF McpInit, Kind
  <2>6. RuntimeOK
    BY <1>3, <2>4, <2>5 DEF RuntimeOK
  <2> QED BY <1>3, <2>2, <2>6, Bounds DEF SlotInv, McpInit
<1> QED BY <1>4, <1>5, <1>6 DEF McpIInv

LEMMA ProceedsKeeps ==
    ASSUME McpIInv, NEW t \in Task, Proceeds(t)
    PROVE  McpIInv'
<1>1. CASE \/ BeginsReconnect(t) \/ ClosesOld(t) \/ Connects(t) \/ Discovers(t)
           \/ FinishesReconnect(t) \/ ReadsSlots(t) \/ Publishes(t)
  BY <1>1, BeginsReconnectKeeps, ClosesOldKeeps, ConnectsKeeps, DiscoversKeeps,
     FinishesReconnectKeeps, ReadsSlotsKeeps, PublishesKeeps
<1>2. CASE t \in Caller /\ (IsAnswered(t) \/ CallFails(t) \/ RecordsFailure(t)
                            \/ DecidesReconnect(t))
  BY <1>2, IsAnsweredKeeps, CallFailsKeeps, RecordsFailureKeeps, DecidesReconnectKeeps
<1>3. CASE t \in {"timer", "watcher"} /\ (Lists(t) \/ ListFails(t) \/ Applies(t))
  BY <1>3, ListsKeeps, ListFailsKeeps, AppliesKeeps
<1>4. CASE t = "timer" /\ TimerTicks
  <2>1. /\ At("timer", "idle") /\ StartsRefresh("timer")
        /\ UNCHANGED <<slot, registry, offered, own, link>>
    BY <1>4 DEF TimerTicks, KeepLink, KeepWorld
  <2> QED BY <2>1, StartsRefreshKeeps
<1>5. CASE t = "watcher" /\ WatcherWakes
  <2>1. /\ At("watcher", "idle") /\ StartsRefresh("watcher")
        /\ UNCHANGED <<slot, registry, offered, own, link>>
    BY <1>5 DEF WatcherWakes, KeepLink
  <2> QED BY <2>1, StartsRefreshKeeps
<1>6. CASE \/ t = "host" /\ (TakesOrder \/ Detaches)
           \/ t = "closer" /\ (TakesRuntime \/ ClosesTaken)
  BY <1>6, TakesOrderKeeps, DetachesKeeps, TakesRuntimeKeeps, ClosesTakenKeeps
<1> QED BY <1>1, <1>2, <1>3, <1>4, <1>5, <1>6 DEF Proceeds

LEMMA McpStepOK == McpIInv /\ [McpNext]_mcpVars => McpIInv'
<1> SUFFICES ASSUME McpIInv, [McpNext]_mcpVars
             PROVE  McpIInv'
  OBVIOUS
<1>1. CASE UNCHANGED mcpVars
  BY <1>1 DEF mcpVars, McpIInv, TasksInv, SlotInv, WorldInv, TaskOK, RuntimeOK, FailedOver
<1>2. CASE \E t \in Task : Proceeds(t)
  BY <1>2, ProceedsKeeps
<1>3. CASE \E c \in Caller : Leases(c)
  BY <1>3, LeasesKeeps
<1>4. CASE \E job \in {"order", "enable", "disable"} : IsOrdered(job)
  BY <1>4, IsOrderedKeeps
<1>5. CASE \E t \in Caller \cup {"host"} : IsDropped(t)
  BY <1>5, IsDroppedKeeps
<1>6. CASE StopsTimer \/ ServerChanges
  BY <1>6, StopsTimerKeeps, ServerChangesKeeps
<1> QED BY <1>1, <1>2, <1>3, <1>4, <1>5, <1>6 DEF McpNext

THEOREM McpInvariant == McpSpec => []McpIInv
BY McpInitOK, McpStepOK, PTL DEF McpSpec

\* Types: among others, a slot never counts more attempts than
\* max_reconnect_attempts, whoever reconnects it, and what the registry
\* publishes is never newer than what the server offers.
THEOREM McpTypeHolds == McpSpec => []McpTypeOK
<1>1. McpIInv => McpTypeOK
  BY SlotFacts DEF McpIInv, McpTypeOK, TasksInv, SlotInv, WorldInv, SlotRecord
<1> QED BY <1>1, McpInvariant, PTL

\* The failures that a slot counts are failures of its present connection,
\* each of them counted once at most: neither a late report over an earlier
\* connection, nor one that waited for the lifecycle lock while the connection
\* was replaced, counts against the new one.
THEOREM FailuresAreItsOwnHolds == McpSpec => []FailuresAreItsOwn
<1>1. McpIInv => FailuresAreItsOwn
  <2> SUFFICES ASSUME McpIInv, NEW k \in Kind, slot.lifecycle = "Connected"
               PROVE  slot.failures[k] <= own[slot.runtime]
    BY DEF FailuresAreItsOwn
  <2>1. slot.runtime # 0
    BY DEF McpIInv, SlotInv
  <2> QED BY <2>1, RuntimeFacts DEF Kind
<1> QED BY <1>1, McpInvariant, PTL

\* The connection in the slot, over which calls are made, is an open one, and no
\* task is about to close it: who closes one has taken it from the slot before.
ConnectionInUseIsOpen ==
    slot.runtime # 0 =>
        /\ link[slot.runtime] = "open"
        /\ \A t \in Task :
              task[t].at \in {"closing", "detaching"} => task[t].old # slot.runtime

THEOREM ConnectionInUseIsOpenHolds == McpSpec => []ConnectionInUseIsOpen
<1>1. McpIInv => ConnectionInUseIsOpen
  BY RuntimeFacts, TaskFacts DEF ConnectionInUseIsOpen, TaskOK
<1> QED BY <1>1, McpInvariant, PTL

\* The lifecycle lock: one task at a time makes a connection for the server.
OneReconnects ==
    \A t, u \in Task :
        /\ task[t].at \in {"begin", "closing", "connecting", "discovering", "finishing"}
        /\ task[u].at \in {"begin", "closing", "connecting", "discovering", "finishing"}
        => t = u

THEOREM OneReconnectsHolds == McpSpec => []OneReconnects
<1>1. McpIInv => OneReconnects
  BY TaskFacts DEF OneReconnects, TaskOK, Locked
<1> QED BY <1>1, McpInvariant, PTL

=============================================================================
