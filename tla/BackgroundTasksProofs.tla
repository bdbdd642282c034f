----------------------- MODULE BackgroundTasksProofs -----------------------
(***************************************************************************)
(* Proofs about BackgroundTasks, for any number of tasks, activations and  *)
(* restarts.                                                               *)
(*                                                                         *)
(* The inductive invariant has a part per task, which relates the progress *)
(* of its spawn call, its future, its metadata and its handle; a part for  *)
(* the run, which says that the store of the manager knows every task that *)
(* any checkpoint or any store of a run knows, and what a sub-agent that   *)
(* saw running tasks may still expect; and a part for the sweep of a       *)
(* cancelled run, which says where a task is that it has yet to cancel.    *)
(***************************************************************************)
EXTENDS BackgroundTasks, WellFoundedInduction, TLAPS

Status == TaskStatus \cup {"None"}
Dispatch == Task \cup {Submit, Recovered}

RunRecord ==
    [id : 0 .. MaxRuns,
     pc : {"idle", "start", "step", "hooked", "stepped", "receiving", "closing", "closed"},
     dispatch : Dispatch, pending : BOOLEAN, waits : BOOLEAN]

SweepRecord ==
    [token : BOOLEAN, marked : BOOLEAN, pc : {"off", "mark", "roots", "trees", "done"},
     roots : SUBSET Task, tree : SUBSET Task]

\* The future of a task has started and has not recorded its end.
IsLive(t) == future[t] \in {"running", "Completed", "Cancelled"}

\* A live task, or one whose event has not been sent.
Expected(t) == future[t] \notin {"none", "sent"}

\* A task is spawned by the run, or by an earlier task that has a future.
SpawnerOK(t) ==
    spawn[t] # "none" =>
        parent[t] = Loop \/ (parent[t] \in 0 .. (t - 1) /\ future[parent[t]] # "none")

TaskOK(t) ==
    /\ spawn[t] # "none" => t < counter
    /\ future[t] = "none" <=> spawn[t] \in {"none", "checked"}
    /\ t \in handles <=> spawn[t] = "done"
    /\ IsLive(t) => meta[t] = "Running"
    /\ future[t] \in {"reported", "sent"} => Terminal(meta[t])
    /\ crashes = 0 /\ future[t] = "none" => meta[t] = "None"
    /\ SpawnerOK(t)
    /\ t \in inbox => sender[t] = run.id /\ future[t] = "sent"
    /\ origin = "Subagent" /\ future[t] # "none" => sender[t] = run.id

TypeInv ==
    /\ origin \in {"User", "Subagent"}
    /\ run \in RunRecord
    /\ record \in {"None", "Running", "Waiting", "Done"}
    /\ {meta, copy, persisted} \subseteq [Task -> Status]
    /\ bound \in 0 .. run.id
    /\ counter \in 0 .. MaxTasks
    /\ parent \in [Task -> Task \cup {Loop}]
    /\ spawn \in [Task -> {"none", "checked", "committed", "done"}]
    /\ future \in [Task -> {"none", "running", "Completed", "Cancelled", "reported", "sent"}]
    /\ sender \in [Task -> 0 .. MaxRuns]
    /\ handles \subseteq Task /\ signalled \subseteq handles
    /\ inbox \subseteq Task /\ notices \subseteq Task /\ lost \subseteq Task
    /\ wakes \subseteq Dispatch
    /\ sweep \in SweepRecord
    /\ crashes \in 0 .. MaxCrashes

\* While the manager is bound, its store knows the tasks of every other one.
StoresInv ==
    /\ bound # 0 =>
          \A t \in Task :
              meta[t] = "None" => persisted[t] = "None" /\ (Active => copy[t] = "None")
    /\ bound = 0 => ~Active /\ counter = 0 /\ inbox = {} /\ meta = NoTasks
    /\ bound = 0 /\ crashes = 0 => run.id = 0 /\ persisted = NoTasks

RunInv ==
    /\ ~Active => inbox = {}
    /\ origin = "Subagent" =>
          /\ crashes = 0 /\ notices = {}
          /\ wakes = IF run.id = 0 THEN {Submit} ELSE {}
          /\ run.id \in {0, 1}
          /\ run.pending /\ run.pc \in {"hooked", "stepped", "receiving"} =>
                inbox # {} \/ \E t \in Task : Expected(t)
    /\ LoopAt("receiving") => origin = "Subagent" /\ run.pending

\* A task that the sweep has to cancel still is in the tree it is at, or in
\* the tree of a root that it has not come to.
InReach(t) ==
    /\ t \in handles \ signalled
    /\ \A a \in Ancestors[t] : meta[a] = "Running"

SweepInv ==
    /\ sweep.token <=> sweep.pc # "off"
    /\ sweep.marked <=> sweep.pc \in {"roots", "trees", "done"}
    /\ sweep.token => origin = "Subagent"
    /\ sweep.pc = "done" => sweep.roots = {} /\ sweep.tree = {}
    /\ sweep.pc \in {"off", "mark", "roots"} => sweep.tree = {}
    /\ sweep.pc \in {"trees", "done"} =>
          \A t \in Task : InReach(t) => t \in sweep.tree \/ Ancestors[t] \cap sweep.roots # {}

TasksIInv ==
    /\ TypeInv
    /\ \A t \in Task : TaskOK(t)
    /\ StoresInv
    /\ RunInv
    /\ SweepInv

----------------------------------------------------------------------------
(* The ancestors of a task.                                                 *)

LEMMA Bounds ==
    /\ MaxTasks \in Nat /\ MaxRuns \in Nat /\ MaxCrashes \in Nat
    /\ Task \subseteq Nat /\ \A t \in Task : t < MaxTasks
    /\ Loop \notin Task
BY TasksAssumption DEF Task, Loop

\* The recursion over the spawners p of the tasks.
Lineage(p, f, t) == IF p[t] \in 0 .. (t - 1) THEN {t} \cup f[p[t]] ELSE {t}

\* A property of numbers that some number does not have fails at a least one.
LEMMA LeastOf ==
    ASSUME NEW S \in SUBSET Nat, S # {}
    PROVE  \E k \in S : \A n \in Nat : n < k => n \notin S
<1>1. PICK k \in S : \A n \in S : ~(<<n, k>> \in OpToRel(<, Nat))
  BY NatLessThanWellFounded, WFMin
<1>2. ASSUME NEW n \in Nat, n < k, n \in S
      PROVE  FALSE
  <2>1. <<n, k>> \in OpToRel(<, Nat)
    BY <1>2 DEF OpToRel
  <2> QED BY <2>1, <1>1, <1>2
<1> QED BY <1>2

\* The recursion is well-founded, as a task is spawned by earlier ones only.
LEMMA LineageExists ==
    ASSUME NEW p, NEW n \in Nat
    PROVE  \E f : f = [t \in 0 .. (n - 1) |-> Lineage(p, f, t)]
<1> DEFINE Part(m) == \E f : f = [t \in 0 .. (m - 1) |-> Lineage(p, f, t)]
           Bad == {m \in Nat : ~Part(m)}
<1> SUFFICES Bad = {}
  OBVIOUS
<1> SUFFICES ASSUME Bad # {}
             PROVE  FALSE
  OBVIOUS
<1>1. PICK k \in Bad : \A m \in Nat : m < k => m \notin Bad
  <2>1. Bad \in SUBSET Nat
    OBVIOUS
  <2> HIDE DEF Bad
  <2> QED BY <2>1, LeastOf
<1>2. k \in Nat /\ ~Part(k)
  BY <1>1
<1>3. CASE k = 0
  <2>1. [t \in {} |-> t] = [t \in 0 .. (k - 1) |-> Lineage(p, [u \in {} |-> u], t)]
    BY <1>3
  <2> QED BY <2>1, <1>2
<1>4. CASE k # 0
  <2>1. k - 1 \in Nat /\ k - 1 < k
    BY <1>2, <1>4
  <2>2. Part(k - 1)
    BY <2>1, <1>1
  <2>3. PICK f : f = [t \in 0 .. (k - 1 - 1) |-> Lineage(p, f, t)]
    BY <2>2
  <2> DEFINE g == [t \in 0 .. (k - 1) |-> IF t < k - 1 THEN f[t] ELSE Lineage(p, f, t)]
  <2>4. ASSUME NEW t \in 0 .. (k - 1)
        PROVE  g[t] = Lineage(p, g, t)
    <3>1. g[t] = Lineage(p, f, t)
      <4>1. CASE t < k - 1
        <5>1. t \in 0 .. (k - 1 - 1)
          BY <4>1, <2>1
        <5> QED BY <5>1, <4>1, <2>3
      <4>2. CASE ~(t < k - 1)
        BY <4>2
      <4> QED BY <4>1, <4>2
    <3>2. ASSUME p[t] \in 0 .. (t - 1)
          PROVE  g[p[t]] = f[p[t]]
      BY <3>2, <2>1
    <3> HIDE DEF g
    <3> QED BY <3>1, <3>2 DEF Lineage
  <2>5. g = [t \in 0 .. (k - 1) |-> Lineage(p, g, t)]
    <3>1. DOMAIN g = 0 .. (k - 1) /\ g = [t \in DOMAIN g |-> g[t]]
      OBVIOUS
    <3> HIDE DEF g
    <3> QED BY <3>1, <2>4
  <2> HIDE DEF g
  <2> QED BY <2>5, <1>2
<1> QED BY <1>3, <1>4

LEMMA AncestorsUnfold == \A t \in Task : Ancestors[t] = Lineage(parent, Ancestors, t)
<1>1. \E f : f = [t \in Task |-> Lineage(parent, f, t)]
  BY LineageExists, Bounds DEF Task
<1>2. Ancestors = CHOOSE f : f = [t \in Task |-> Lineage(parent, f, t)]
  BY DEF Ancestors, Lineage
<1>3. Ancestors = [t \in Task |-> Lineage(parent, Ancestors, t)]
  <2> HIDE DEF Ancestors
  <2> QED BY <1>1, <1>2
<1> QED BY <1>3

LEMMA SameAncestors == ASSUME UNCHANGED parent PROVE Ancestors' = Ancestors
BY DEF Ancestors

\* Every ancestor of a task that has a future has one, up to a task of the run.
LEMMA AncestorsStarted ==
    ASSUME TypeInv, \A t \in Task : TaskOK(t), NEW t \in Task, future[t] # "none"
    PROVE  /\ t \in Ancestors[t]
           /\ \A a \in Ancestors[t] : a \in Task /\ future[a] # "none"
           /\ \E r \in Ancestors[t] : parent[r] = Loop
<1> DEFINE OK(u) == /\ u \in Ancestors[u]
                    /\ \A a \in Ancestors[u] : a \in Task /\ future[a] # "none"
                    /\ \E r \in Ancestors[u] : parent[r] = Loop
           Bad == {u \in Task : future[u] # "none" /\ ~OK(u)}
<1> SUFFICES ASSUME Bad # {}
             PROVE  FALSE
  OBVIOUS
<1>1. PICK u \in Bad : \A n \in Nat : n < u => n \notin Bad
  <2>1. Bad \in SUBSET Nat
    BY Bounds
  <2> HIDE DEF Bad
  <2> QED BY <2>1, LeastOf
<1>2. u \in Task /\ future[u] # "none" /\ ~OK(u) /\ u \in Nat
  BY <1>1, Bounds
<1>3. SpawnerOK(u) /\ spawn[u] # "none"
  BY <1>2 DEF TaskOK
<1>4. Ancestors[u] = IF parent[u] \in 0 .. (u - 1) THEN {u} \cup Ancestors[parent[u]] ELSE {u}
  BY <1>2, AncestorsUnfold DEF Lineage
<1>5. CASE parent[u] = Loop
  <2>1. ~(Loop \in 0 .. (u - 1))
    BY <1>2, Bounds DEF Loop
  <2>2. Ancestors[u] = {u}
    BY <2>1, <1>4, <1>5
  <2> QED BY <2>2, <1>2, <1>5
<1>6. CASE parent[u] # Loop
  <2>1. parent[u] \in 0 .. (u - 1) /\ future[parent[u]] # "none"
    BY <1>3, <1>6 DEF SpawnerOK
  <2> DEFINE q == parent[u]
  <2>2. q \in Task /\ q \in Nat /\ q < u
    BY <2>1, <1>2, <1>6 DEF Task, TypeInv
  <2>3. OK(q)
    BY <2>1, <2>2, <1>1
  <2>4. Ancestors[u] = {u} \cup Ancestors[q]
    BY <2>1, <1>4
  <2> QED BY <2>3, <2>4, <1>2
<1> QED BY <1>5, <1>6

----------------------------------------------------------------------------
(* What a step keeps that leaves the tasks, the stores or the sweep alone.  *)

LEMMA TasksStand ==
    ASSUME \A t \in Task : TaskOK(t),
           UNCHANGED <<counter, parent, spawn, sender, future, handles, meta, origin, crashes>>,
           run'.id = run.id, inbox' \subseteq inbox
    PROVE  \A t \in Task : TaskOK(t)'
BY DEF TaskOK, SpawnerOK, IsLive

LEMMA StoresStand ==
    ASSUME StoresInv, UNCHANGED <<bound, meta, copy, persisted, counter, crashes>>,
           run'.id = run.id, Active' => Active, inbox' \subseteq inbox
    PROVE  StoresInv'
BY DEF StoresInv

\* Nobody expects an event that could not be expected before.
LEMMA RunStands ==
    ASSUME RunInv, UNCHANGED <<run, origin, wakes, inbox, crashes>>, notices' \subseteq notices,
           \A t \in Task : Expected(t) => Expected(t)'
    PROVE  RunInv'
BY DEF RunInv, LoopAt, Active

\* Tasks that the sweep has to cancel become fewer as long as none is spawned.
LEMMA SweepStands ==
    ASSUME SweepInv, UNCHANGED <<sweep, origin, parent, handles>>, signalled \subseteq signalled',
           \A t \in Task : \A a \in Ancestors[t] : meta'[a] = "Running" => meta[a] = "Running"
    PROVE  SweepInv'
<1>1. Ancestors' = Ancestors
  BY SameAncestors
<1>2. \A t \in Task : InReach(t)' => InReach(t)
  BY <1>1 DEF InReach
<1> QED BY <1>1, <1>2 DEF SweepInv

\* Until the sweep reads the trees, tasks and metadata do not matter to it.
LEMMA SweepNotBegun ==
    ASSUME SweepInv, UNCHANGED <<sweep, origin>>,
           sweep.pc \in {"off", "mark", "roots"} \/ origin = "User"
    PROVE  SweepInv'
BY DEF SweepInv, TypeInv

----------------------------------------------------------------------------
(* The manager: spawn, completion, cancel.                                  *)

LEMMA SpawnBeginsKeeps ==
    ASSUME TasksIInv, NEW p \in Task \cup {Loop}, SpawnBegins(p)
    PROVE  TasksIInv'
<1>1. /\ TypeInv /\ StoresInv /\ RunInv /\ SweepInv /\ \A t \in Task : TaskOK(t)
      /\ counter \in Task /\ counter' = counter + 1 /\ counter \in Nat /\ counter < MaxTasks
      /\ p \in Task => future[p] = "running"
      /\ UNCHANGED <<origin, sender, run, record, persisted, copy, meta, bound, future, handles,
                     signalled, inbox, notices, wakes, lost, sweep, crashes>>
  BY Bounds DEF TasksIInv, SpawnBegins, runVars, metaVars, taskVars, eventVars, LoopAt
<1>2. counter' \in 0 .. MaxTasks
  BY <1>1, Bounds
<1>3. spawn[counter] = "none"
  BY <1>1 DEF TaskOK
<1>4. bound # 0
  BY <1>1, Bounds DEF StoresInv, SpawnBegins, LoopAt, Active, TaskOK, IsLive, NoTasks
<1>5. \/ UNCHANGED <<parent, spawn>>
      \/ /\ ~sweep.marked
         /\ parent' = [parent EXCEPT ![counter] = p]
         /\ spawn' = [spawn EXCEPT ![counter] = "checked"]
  BY DEF SpawnBegins
<1>6. TypeInv'
  BY <1>1, <1>2, <1>5 DEF TypeInv
<1>7. ASSUME NEW t \in Task
      PROVE  TaskOK(t)'
  <2>1. SpawnerOK(t)'
    <3>1. CASE t = counter /\ p \in Task
      <4>1. spawn[p] # "none" /\ p \in Nat /\ p < counter
        BY <1>1, <3>1, Bounds DEF TaskOK
      <4> QED BY <4>1, <1>1, <1>3, <1>5, <3>1 DEF SpawnerOK, TypeInv
    <3>2. CASE ~(t = counter /\ p \in Task)
      BY <1>1, <1>3, <1>5, <3>2 DEF SpawnerOK, TypeInv, TaskOK
    <3> QED BY <3>1, <3>2
  <2>2. t \in Nat /\ counter \in Nat
    BY <1>1, Bounds
  <2>3. /\ (spawn[t] # "none" => t < counter)'
        /\ (future[t] = "none" <=> spawn[t] \in {"none", "checked"})'
        /\ (t \in handles <=> spawn[t] = "done")'
    BY <1>1, <1>3, <1>5, <2>2 DEF TaskOK, TypeInv
  <2> QED BY <1>1, <2>1, <2>3 DEF TaskOK, IsLive
<1>8. StoresInv'
  BY <1>1, <1>4 DEF StoresInv, Active
<1>9. RunInv'
  BY <1>1, RunStands DEF Expected
<1>10. SweepInv'
  BY <1>1, <1>5, SweepNotBegun, SweepStands DEF SweepInv, TypeInv, SweepRecord
<1> QED BY <1>6, <1>7, <1>8, <1>9, <1>10 DEF TasksIInv

LEMMA SpawnCommitsKeeps ==
    ASSUME TasksIInv, NEW t \in Task, SpawnCommits(t)
    PROVE  TasksIInv'
<1>1. /\ TypeInv /\ StoresInv /\ RunInv /\ SweepInv /\ \A u \in Task : TaskOK(u)
      /\ spawn[t] = "checked" /\ spawn' = [spawn EXCEPT ![t] = "committed"]
      /\ meta' = [meta EXCEPT ![t] = "Running"]
      /\ future' = [future EXCEPT ![t] = "running"]
      /\ sender' = [sender EXCEPT ![t] = run.id]
      /\ UNCHANGED <<origin, bound, counter, parent, handles, signalled, run, record, persisted,
                     copy, inbox, notices, wakes, lost, sweep, crashes>>
  BY DEF TasksIInv, SpawnCommits, runVars, eventVars
<1>2. future[t] = "none" /\ t \notin handles /\ t \notin inbox
  BY <1>1 DEF TaskOK
<1>3. TypeInv'
  BY <1>1 DEF TypeInv, RunRecord, Status, TaskStatus
<1>4. ASSUME NEW u \in Task
      PROVE  TaskOK(u)'
  <2>1. SpawnerOK(u)'
    BY <1>1, <1>2 DEF SpawnerOK, TaskOK, TypeInv, Task
  <2> QED BY <1>1, <1>2, <2>1 DEF TaskOK, IsLive, TypeInv
<1>5. bound # 0
  BY <1>1, Bounds DEF StoresInv, TaskOK, TypeInv
<1>6. StoresInv'
  BY <1>1, <1>5 DEF StoresInv, TypeInv, Active
<1>7. RunInv'
  BY <1>1, RunStands DEF Expected, TypeInv
<1>8. SweepInv'
  <2>1. Ancestors' = Ancestors
    BY <1>1, SameAncestors
  <2>2. \A u \in Task : InReach(u)' => InReach(u)
    <3> SUFFICES ASSUME NEW u \in Task, InReach(u)', NEW a \in Ancestors[u]
                 PROVE  meta[a] = "Running"
      BY <1>1 DEF InReach
    <3>1. u \in handles \ signalled /\ meta'[a] = "Running"
      BY <1>1, <2>1 DEF InReach
    <3>2. future[u] # "none"
      BY <1>1, <3>1 DEF TaskOK
    <3>3. a \in Task /\ future[a] # "none"
      BY <1>1, <3>2, AncestorsStarted
    <3> QED BY <1>1, <1>2, <3>1, <3>3 DEF TypeInv
  <2> QED BY <1>1, <2>1, <2>2 DEF SweepInv
<1> QED BY <1>3, <1>4, <1>6, <1>7, <1>8 DEF TasksIInv

LEMMA SpawnInsertsKeeps ==
    ASSUME TasksIInv, NEW t \in Task, SpawnInserts(t)
    PROVE  TasksIInv'
<1>1. /\ TypeInv /\ StoresInv /\ RunInv /\ SweepInv /\ \A u \in Task : TaskOK(u)
      /\ spawn[t] = "committed" /\ spawn' = [spawn EXCEPT ![t] = "done"]
      /\ handles' = handles \cup {t}
      /\ signalled' = IF sweep.marked THEN signalled \cup {t} ELSE signalled
      /\ UNCHANGED <<origin, counter, parent, sender, future, run, record, persisted, copy, meta,
                     bound, inbox, notices, wakes, lost, sweep, crashes>>
  BY DEF TasksIInv, SpawnInserts, runVars, metaVars, eventVars
<1>2. TypeInv'
  BY <1>1 DEF TypeInv
<1>3. \A u \in Task : TaskOK(u)'
  BY <1>1 DEF TaskOK, SpawnerOK, IsLive, TypeInv
<1>4. StoresInv'
  BY <1>1, StoresStand DEF Active
<1>5. RunInv'
  BY <1>1, RunStands DEF Expected
<1>6. SweepInv'
  <2>1. CASE sweep.marked
    <3>1. Ancestors' = Ancestors
      BY <1>1, SameAncestors
    <3>2. \A u \in Task : InReach(u)' => InReach(u)
      BY <1>1, <2>1, <3>1 DEF InReach
    <3> QED BY <1>1, <3>1, <3>2 DEF SweepInv
  <2>2. CASE ~sweep.marked
    BY <1>1, <2>2, SweepNotBegun DEF SweepInv, TypeInv, SweepRecord
  <2> QED BY <2>1, <2>2
<1> QED BY <1>2, <1>3, <1>4, <1>5, <1>6 DEF TasksIInv

LEMMA ReturnsKeeps ==
    ASSUME TasksIInv, NEW t \in Task, Returns(t)
    PROVE  TasksIInv'
<1>1. /\ TypeInv /\ StoresInv /\ RunInv /\ SweepInv /\ \A u \in Task : TaskOK(u)
      /\ future[t] = "running"
      /\ UNCHANGED <<origin, handles, signalled, run, record, persisted, copy, meta, bound, counter,
                     parent, spawn, sender, inbox, notices, wakes, lost, sweep, crashes>>
  BY DEF TasksIInv, Returns, runVars, metaVars, spawnVars, eventVars
<1>2. PICK result \in {"Completed", "Cancelled"} : future' = [future EXCEPT ![t] = result]
  BY DEF Returns
<1>3. TypeInv'
  BY <1>1, <1>2 DEF TypeInv
<1>4. \A u \in Task : TaskOK(u)'
  BY <1>1, <1>2 DEF TaskOK, SpawnerOK, IsLive, TypeInv
<1>5. StoresInv' /\ RunInv' /\ SweepInv'
  BY <1>1, <1>2, StoresStand, RunStands, SweepStands DEF Expected, TypeInv, Active
<1> QED BY <1>3, <1>4, <1>5 DEF TasksIInv

LEMMA ReportsKeeps ==
    ASSUME TasksIInv, NEW t \in Task, Reports(t)
    PROVE  TasksIInv'
<1>1. /\ TypeInv /\ StoresInv /\ RunInv /\ SweepInv /\ \A u \in Task : TaskOK(u)
      /\ future[t] \in {"Completed", "Cancelled"}
      /\ meta' = [meta EXCEPT ![t] = future[t]]
      /\ future' = [future EXCEPT ![t] = "reported"]
      /\ UNCHANGED <<origin, bound, handles, signalled, run, record, persisted, copy, counter,
                     parent, spawn, sender, inbox, notices, wakes, lost, sweep, crashes>>
  BY DEF TasksIInv, Reports, runVars, spawnVars, eventVars
<1>2. TypeInv'
  BY <1>1 DEF TypeInv, Status, TaskStatus
<1>3. \A u \in Task : TaskOK(u)'
  BY <1>1 DEF TaskOK, SpawnerOK, IsLive, TypeInv, Terminal
<1>4. meta[t] = "Running" /\ bound # 0
  BY <1>1 DEF TaskOK, IsLive, StoresInv, NoTasks
<1>5. StoresInv'
  BY <1>1, <1>4 DEF StoresInv, TypeInv, Active
<1>6. RunInv' /\ SweepInv'
  BY <1>1, <1>4, RunStands, SweepStands DEF Expected, TypeInv
<1> QED BY <1>2, <1>3, <1>5, <1>6 DEF TasksIInv

LEMMA SendsKeeps ==
    ASSUME TasksIInv, NEW t \in Task, Sends(t)
    PROVE  TasksIInv'
<1>1. /\ TypeInv /\ StoresInv /\ RunInv /\ SweepInv /\ \A u \in Task : TaskOK(u)
      /\ future[t] = "reported" /\ future' = [future EXCEPT ![t] = "sent"]
      /\ IF Active /\ sender[t] = run.id
         THEN inbox' = inbox \cup {t} /\ UNCHANGED notices
         ELSE /\ notices' = IF origin = "User" THEN notices \cup {t} ELSE notices
              /\ UNCHANGED inbox
      /\ UNCHANGED <<origin, handles, signalled, wakes, lost, run, record, persisted, copy, meta,
                     bound, counter, parent, spawn, sender, sweep, crashes>>
  BY DEF TasksIInv, Sends, runVars, metaVars, spawnVars
<1>2. TypeInv'
  BY <1>1 DEF TypeInv
<1>3. \A u \in Task : TaskOK(u)'
  BY <1>1 DEF TaskOK, SpawnerOK, IsLive, TypeInv
<1>4. StoresInv'
  <2>1. bound # 0
    BY <1>1 DEF TaskOK, Terminal, StoresInv, NoTasks
  <2> QED BY <1>1, <2>1 DEF StoresInv, Active
<1>5. RunInv'
  <2>1. ASSUME origin = "Subagent", run.pending, run.pc \in {"hooked", "stepped", "receiving"}
        PROVE  inbox' # {} \/ \E u \in Task : Expected(u)'
    <3>1. sender[t] = run.id /\ Active
      BY <1>1, <2>1 DEF TaskOK, Active
    <3> QED BY <1>1, <3>1
  <2> QED BY <1>1, <2>1 DEF RunInv, LoopAt, Active
<1>6. SweepInv'
  BY <1>1, SweepStands
<1> QED BY <1>2, <1>3, <1>4, <1>5, <1>6 DEF TasksIInv

LEMMA NotifiesKeeps ==
    ASSUME TasksIInv, NEW t \in Task, Notifies(t)
    PROVE  TasksIInv'
<1>1. /\ TypeInv /\ StoresInv /\ RunInv /\ SweepInv /\ \A u \in Task : TaskOK(u)
      /\ t \in notices /\ notices' = notices \ {t} /\ wakes' = wakes \cup {t}
      /\ UNCHANGED <<origin, inbox, lost, run, record, persisted, copy, meta, bound, counter,
                     parent, spawn, sender, future, handles, signalled, sweep, crashes>>
  BY DEF TasksIInv, Notifies, runVars, metaVars, spawnVars, taskVars
<1>2. TypeInv'
  BY <1>1 DEF TypeInv, Dispatch
<1>3. (\A u \in Task : TaskOK(u)') /\ StoresInv' /\ SweepInv'
  BY <1>1, TasksStand, StoresStand, SweepStands DEF Active
<1>4. RunInv'
  BY <1>1 DEF RunInv, LoopAt, Active, Expected
<1> QED BY <1>2, <1>3, <1>4 DEF TasksIInv

LEMMA CancelsKeeps ==
    ASSUME TasksIInv, NEW t \in Task, Cancels(t)
    PROVE  TasksIInv'
<1>1. /\ TypeInv /\ StoresInv /\ RunInv /\ SweepInv /\ \A u \in Task : TaskOK(u)
      /\ t \in handles /\ signalled' = signalled \cup {t}
      /\ UNCHANGED <<origin, future, handles, run, record, persisted, copy, meta, bound, counter,
                     parent, spawn, sender, inbox, notices, wakes, lost, sweep, crashes>>
  BY DEF TasksIInv, Cancels, runVars, metaVars, spawnVars, eventVars
<1>2. TypeInv'
  BY <1>1 DEF TypeInv
<1>3. (\A u \in Task : TaskOK(u)') /\ StoresInv' /\ SweepInv' /\ RunInv'
  BY <1>1, TasksStand, StoresStand, SweepStands, RunStands DEF Active, Expected
<1> QED BY <1>2, <1>3 DEF TasksIInv

----------------------------------------------------------------------------
(* Cancellation of a run, and of the descendants of a sub-agent's run.      *)

\* A step of the sweep leaves everything but the sweep and the signals alone.
LEMMA OnlySweeps ==
    ASSUME TasksIInv, SweepInv', sweep' \in SweepRecord,
           signalled \subseteq signalled', signalled' \subseteq handles,
           UNCHANGED <<origin, runVars, metaVars, spawnVars, eventVars, crashes, future, handles>>
    PROVE  TasksIInv'
<1>1. /\ TypeInv /\ StoresInv /\ RunInv /\ \A u \in Task : TaskOK(u)
      /\ UNCHANGED <<origin, run, record, persisted, copy, meta, bound, counter, parent, spawn,
                     sender, inbox, notices, wakes, lost, future, handles, crashes>>
  BY DEF TasksIInv, runVars, metaVars, spawnVars, eventVars
<1>2. TypeInv'
  BY <1>1 DEF TypeInv
<1>3. (\A u \in Task : TaskOK(u)') /\ StoresInv' /\ RunInv'
  BY <1>1, TasksStand, StoresStand, RunStands DEF Active, Expected
<1> QED BY <1>2, <1>3 DEF TasksIInv

LEMMA CancelRunKeeps == ASSUME TasksIInv, CancelRun PROVE TasksIInv'
<1>1. /\ SweepInv /\ sweep \in SweepRecord /\ signalled \subseteq handles /\ origin = "Subagent"
      /\ sweep' = [sweep EXCEPT !.token = TRUE, !.pc = "mark"]
      /\ ~sweep.token
      /\ UNCHANGED <<origin, runVars, metaVars, spawnVars, taskVars, eventVars, crashes>>
  BY DEF TasksIInv, TypeInv, CancelRun
<1>2. sweep' \in SweepRecord /\ SweepInv'
  BY <1>1 DEF SweepRecord, SweepInv
<1> QED BY <1>1, <1>2, OnlySweeps DEF taskVars

LEMMA SweepMarksKeeps == ASSUME TasksIInv, SweepMarks PROVE TasksIInv'
<1>1. /\ SweepInv /\ sweep \in SweepRecord /\ signalled \subseteq handles
      /\ sweep' = [sweep EXCEPT !.pc = "roots", !.marked = TRUE]
      /\ sweep.pc = "mark"
      /\ UNCHANGED <<origin, runVars, metaVars, spawnVars, taskVars, eventVars, crashes>>
  BY DEF TasksIInv, TypeInv, SweepMarks
<1>2. sweep' \in SweepRecord /\ SweepInv'
  BY <1>1 DEF SweepRecord, SweepInv
<1> QED BY <1>1, <1>2, OnlySweeps DEF taskVars

\* A task that runs with all its ancestors has a root that runs.
LEMMA SweepFindsRootsKeeps == ASSUME TasksIInv, SweepFindsRoots PROVE TasksIInv'
<1>1. /\ SweepInv /\ sweep \in SweepRecord /\ signalled \subseteq handles
      /\ TypeInv /\ \A u \in Task : TaskOK(u)
      /\ sweep.pc = "roots"
      /\ sweep' = [sweep EXCEPT !.pc = "trees",
                      !.roots = {t \in Task : meta[t] = "Running" /\ parent[t] = Loop}]
      /\ UNCHANGED <<origin, runVars, metaVars, spawnVars, taskVars, eventVars, crashes>>
  BY DEF TasksIInv, TypeInv, SweepFindsRoots
<1>2. Ancestors' = Ancestors
  BY <1>1, SameAncestors DEF spawnVars
<1>3. ASSUME NEW t \in Task, InReach(t)
      PROVE  Ancestors[t] \cap sweep'.roots # {}
  <2>1. future[t] # "none"
    BY <1>1, <1>3 DEF InReach, TaskOK
  <2>2. PICK r \in Ancestors[t] : parent[r] = Loop
    BY <1>1, <2>1, AncestorsStarted
  <2>3. r \in Task /\ meta[r] = "Running"
    BY <1>1, <1>3, <2>1, AncestorsStarted DEF InReach
  <2> QED BY <1>1, <2>2, <2>3 DEF SweepRecord
<1>4. \A t \in Task : InReach(t)' => InReach(t)
  BY <1>1, <1>2 DEF InReach, taskVars, metaVars
<1>5. sweep' \in SweepRecord
  BY <1>1 DEF SweepRecord
<1>6. SweepInv'
  BY <1>1, <1>2, <1>3, <1>4 DEF SweepRecord, SweepInv
<1> QED BY <1>1, <1>5, <1>6, OnlySweeps DEF taskVars

LEMMA SweepReadsTreeKeeps ==
    ASSUME TasksIInv, NEW root \in Task, SweepReadsTree(root)
    PROVE  TasksIInv'
<1>1. /\ SweepInv /\ sweep \in SweepRecord /\ signalled \subseteq handles
      /\ TypeInv /\ \A u \in Task : TaskOK(u)
      /\ sweep.pc = "trees" /\ sweep.tree = {}
      /\ sweep' = [sweep EXCEPT !.roots = sweep.roots \ {root}, !.tree = Tree(root)]
      /\ UNCHANGED <<origin, runVars, metaVars, spawnVars, taskVars, eventVars, crashes>>
  BY DEF TasksIInv, TypeInv, SweepReadsTree
<1>2. Ancestors' = Ancestors
  BY <1>1, SameAncestors DEF spawnVars
<1>3. ASSUME NEW t \in Task, InReach(t), root \in Ancestors[t]
      PROVE  t \in Tree(root)
  <2>1. future[t] # "none"
    BY <1>1, <1>3 DEF InReach, TaskOK
  <2>2. meta[t] = "Running"
    BY <1>1, <1>3, <2>1, AncestorsStarted DEF InReach
  <2> QED BY <1>3, <2>2 DEF Tree, Known
<1>4. \A t \in Task : InReach(t)' => InReach(t)
  BY <1>1, <1>2 DEF InReach, taskVars, metaVars
<1>5. Tree(root) \subseteq Task
  BY DEF Tree, Known
<1>6. sweep' \in SweepRecord
  BY <1>1, <1>5 DEF SweepRecord
<1>7. SweepInv'
  BY <1>1, <1>2, <1>3, <1>4, <1>5 DEF SweepRecord, SweepInv
<1> QED BY <1>1, <1>6, <1>7, OnlySweeps DEF taskVars

LEMMA SweepCancelsTreeKeeps == ASSUME TasksIInv, SweepCancelsTree PROVE TasksIInv'
<1>1. /\ SweepInv /\ sweep \in SweepRecord /\ signalled \subseteq handles
      /\ TypeInv /\ \A u \in Task : TaskOK(u)
      /\ sweep.pc = "trees"
      /\ signalled' = signalled \cup {t \in sweep.tree \cap handles : ~Terminal(meta[t])}
      /\ sweep' = [sweep EXCEPT !.tree = {}]
      /\ UNCHANGED <<origin, runVars, metaVars, spawnVars, future, handles, eventVars, crashes>>
  BY DEF TasksIInv, TypeInv, SweepCancelsTree
<1>2. Ancestors' = Ancestors
  BY <1>1, SameAncestors DEF spawnVars
<1>3. \A t \in Task : InReach(t)' => InReach(t)
  BY <1>1, <1>2 DEF InReach, metaVars
<1>4. ASSUME NEW t \in Task, InReach(t)', t \in sweep.tree
      PROVE  FALSE
  <2>1. t \in handles /\ future[t] # "none" /\ InReach(t)
    BY <1>1, <1>3, <1>4 DEF InReach, TaskOK
  <2>2. meta[t] = "Running"
    BY <1>1, <2>1, AncestorsStarted DEF InReach
  <2> QED BY <1>1, <1>4, <2>1, <2>2 DEF InReach, Terminal
<1>5. sweep' \in SweepRecord
  BY <1>1 DEF SweepRecord
<1>6. SweepInv'
  BY <1>1, <1>2, <1>3, <1>4 DEF SweepRecord, SweepInv
<1>7. signalled \subseteq signalled' /\ signalled' \subseteq handles
  BY <1>1
<1> QED BY <1>1, <1>5, <1>6, <1>7, OnlySweeps

LEMMA SweepEndsKeeps == ASSUME TasksIInv, SweepEnds PROVE TasksIInv'
<1>1. /\ SweepInv /\ sweep \in SweepRecord /\ signalled \subseteq handles
      /\ sweep.pc = "trees" /\ sweep.tree = {} /\ sweep.roots = {}
      /\ sweep' = [sweep EXCEPT !.pc = "done"]
      /\ UNCHANGED <<origin, runVars, metaVars, spawnVars, taskVars, eventVars, crashes>>
  BY DEF TasksIInv, TypeInv, SweepEnds
<1>2. Ancestors' = Ancestors
  BY <1>1, SameAncestors DEF spawnVars
<1>3. \A t \in Task : InReach(t)' => InReach(t)
  BY <1>1, <1>2 DEF InReach, taskVars, metaVars
<1>4. sweep' \in SweepRecord /\ SweepInv'
  BY <1>1, <1>2, <1>3 DEF SweepRecord, SweepInv
<1> QED BY <1>1, <1>4, OnlySweeps DEF taskVars

----------------------------------------------------------------------------
(* The run loop.                                                            *)

\* What the run loop of an activation leaves alone after RunStart.
LEMMA LoopKeeps ==
    ASSUME TasksIInv, Active, run' \in RunRecord, run'.id = run.id,
           record' \in {"None", "Running", "Waiting", "Done"},
           persisted' \in {persisted, OwnTasks},
           inbox' \subseteq inbox, lost' \subseteq Task, RunInv',
           UNCHANGED <<origin, copy, metaVars, spawnVars, taskVars, notices, wakes, sweep, crashes>>
    PROVE  TasksIInv'
<1>1. /\ TypeInv /\ StoresInv /\ SweepInv /\ \A t \in Task : TaskOK(t)
      /\ UNCHANGED <<origin, copy, meta, bound, counter, parent, spawn, sender, future, handles,
                     signalled, notices, wakes, sweep, crashes>>
  BY DEF TasksIInv, metaVars, spawnVars, taskVars
<1>2. TypeInv'
  BY <1>1 DEF TypeInv, OwnTasks
<1>3. (\A t \in Task : TaskOK(t)') /\ SweepInv'
  BY <1>1, TasksStand, SweepStands
<1>4. StoresInv'
  BY <1>1 DEF StoresInv, OwnTasks
<1> QED BY <1>2, <1>3, <1>4 DEF TasksIInv

\* run is a record with an id.
LEMMA RunFacts ==
    ASSUME TypeInv
    PROVE  /\ run = [id |-> run.id, pc |-> run.pc, dispatch |-> run.dispatch,
                     pending |-> run.pending, waits |-> run.waits]
           /\ run.id \in 0 .. MaxRuns /\ run.id \in Nat /\ run.dispatch \in Dispatch
           /\ run.pending \in BOOLEAN /\ run.waits \in BOOLEAN
BY Bounds DEF TypeInv, RunRecord

LEMMA StartsKeeps ==
    ASSUME TasksIInv, NEW w \in Dispatch, Starts(w)
    PROVE  TasksIInv'
<1>1. /\ TypeInv /\ StoresInv /\ RunInv /\ SweepInv /\ \A t \in Task : TaskOK(t)
      /\ ~Active /\ w \in wakes /\ run.id < MaxRuns
      /\ run' = [id |-> run.id + 1, pc |-> "start", dispatch |-> w, pending |-> FALSE,
                 waits |-> FALSE]
      /\ record' = "Running" /\ wakes' = wakes \ {w} /\ copy' = persisted
      /\ IF bound = 0 THEN bound' = run.id + 1 /\ meta' = persisted ELSE UNCHANGED <<meta, bound>>
      /\ UNCHANGED <<origin, persisted, inbox, notices, lost, counter, parent, spawn, sender, future,
                     handles, signalled, sweep, crashes>>
  BY DEF TasksIInv, Starts, metaVars, spawnVars, taskVars
<1>2. run.id \in Nat /\ run.id + 1 \in 0 .. MaxRuns /\ run.id + 1 # 0
  BY <1>1, RunFacts, Bounds
<1>3. bound' \in 0 .. run'.id /\ bound' # 0 /\ inbox = {}
  BY <1>1, <1>2 DEF TypeInv, RunInv
<1>4. TypeInv'
  BY <1>1, <1>2, <1>3 DEF TypeInv, RunRecord
<1>5. ASSUME NEW t \in Task
      PROVE  TaskOK(t)'
  <2>1. CASE bound = 0
    <3>1. counter = 0 /\ t \in Nat /\ spawn[t] = "none" /\ future[t] = "none"
      BY <1>1, <2>1, Bounds DEF StoresInv, TaskOK
    <3>2. crashes = 0 => meta'[t] = "None"
      BY <1>1, <2>1 DEF StoresInv, NoTasks
    <3> QED BY <1>1, <1>3, <3>1, <3>2 DEF TaskOK, SpawnerOK, IsLive
  <2>2. CASE bound # 0
    <3>1. origin = "Subagent" => FALSE
      BY <1>1, <2>2 DEF RunInv, TypeInv
    <3> QED BY <1>1, <1>3, <2>2, <3>1 DEF TaskOK, SpawnerOK, IsLive
  <2> QED BY <2>1, <2>2
<1>6. StoresInv'
  BY <1>1, <1>3 DEF StoresInv
<1>7. RunInv'
  BY <1>1, <1>2, <1>3 DEF RunInv, LoopAt, Active
<1>8. SweepInv'
  <2>1. CASE bound = 0
    <3>1. origin = "Subagent" => meta' = meta
      BY <1>1, <2>1 DEF StoresInv, RunInv
    <3>2. origin = "User" \/ meta' = meta
      BY <1>1, <3>1 DEF TypeInv
    <3> QED BY <1>1, <3>2, SweepStands, SweepNotBegun
  <2>2. CASE bound # 0
    BY <1>1, <2>2, SweepStands
  <2> QED BY <2>1, <2>2
<1> QED BY <1>4, <1>5, <1>6, <1>7, <1>8 DEF TasksIInv

\* The store of the manager knows every task of the thread state by then.
LEMMA RestoresNothing ==
    ASSUME TasksIInv, Restores
    PROVE  meta' = meta /\ counter' = counter
<1>1. /\ TypeInv /\ StoresInv /\ LoopAt("start") /\ meta' = Restored
      /\ counter' = LET added == {t \in Task : meta'[t] # meta[t]}
                    IN CHOOSE n \in {counter} \cup {t + 1 : t \in added} :
                          n >= counter /\ \A t \in added : n > t
  BY DEF TasksIInv, Restores
<1>2. Active /\ bound # 0
  BY <1>1 DEF LoopAt, Active, StoresInv
<1>3. \A t \in Task : meta[t] = "None" => OwnTasks[t] = "None"
  BY <1>1, <1>2 DEF OwnTasks, StoresInv
<1>4. \A t \in Task : Restored[t] = meta[t]
  BY <1>3 DEF Restored, RestoredStatus
<1>5. meta' = meta
  BY <1>1, <1>4 DEF TypeInv, Restored
<1>6. {t \in Task : meta'[t] # meta[t]} = {}
  BY <1>5
<1>7. counter' = CHOOSE n \in {counter} : n >= counter
  <2> DEFINE added == {t \in Task : meta'[t] # meta[t]}
  <2>1. added = {}
    BY <1>6
  <2>2. counter' = CHOOSE n \in {counter} \cup {t + 1 : t \in added} :
                      n >= counter /\ \A t \in added : n > t
    BY <1>1
  <2> HIDE DEF added
  <2>3. {counter} \cup {t + 1 : t \in added} = {counter}
    BY <2>1
  <2>4. \A n : (n >= counter /\ \A t \in added : n > t) <=> n >= counter
    BY <2>1
  <2> QED BY <2>2, <2>3, <2>4
<1>8. counter \in Nat /\ counter >= counter
  BY <1>1, Bounds DEF TypeInv
<1> QED BY <1>5, <1>7, <1>8

LEMMA RestoresKeeps == ASSUME TasksIInv, Restores PROVE TasksIInv'
<1>1. /\ TypeInv /\ RunInv /\ LoopAt("start") /\ run' = [run EXCEPT !.pc = "step"]
      /\ UNCHANGED <<origin, record, persisted, copy, bound, parent, spawn, sender, taskVars,
                     inbox, notices, wakes, lost, sweep, crashes>>
      /\ UNCHANGED <<meta, counter>>
  BY RestoresNothing DEF TasksIInv, Restores, LoopGoto, eventVars
<1>2. run' \in RunRecord /\ run'.id = run.id /\ run'.pc = "step" /\ Active
  BY <1>1, RunFacts DEF RunRecord, TypeInv, LoopAt, Active
<1>3. RunInv'
  BY <1>1, <1>2 DEF RunInv, LoopAt, Active
<1> QED BY <1>1, <1>2, <1>3, LoopKeeps DEF TypeInv, metaVars, spawnVars

\* A task that the StepEnd hook finds running has its event still to come.
LEMMA StepEndsKeeps == ASSUME TasksIInv, StepEnds PROVE TasksIInv'
<1>1. /\ TypeInv /\ RunInv /\ LoopAt("step") /\ \A t \in Task : TaskOK(t)
      /\ run' = [run EXCEPT !.pc = "hooked", !.pending = HasRunning]
      /\ UNCHANGED <<origin, record, persisted, copy, metaVars, spawnVars, taskVars, inbox, notices,
                     wakes, lost, sweep, crashes>>
  BY DEF TasksIInv, StepEnds, eventVars
<1>2. HasRunning \in BOOLEAN
  BY DEF HasRunning
<1>3. /\ run' \in RunRecord /\ run'.id = run.id /\ run'.pc = "hooked" /\ Active
      /\ run'.pending = HasRunning
  BY <1>1, <1>2, RunFacts DEF RunRecord, TypeInv, LoopAt, Active
<1>4. ASSUME origin = "Subagent", HasRunning
      PROVE  \E t \in Task : Expected(t)
  <2>1. PICK t \in Task : meta[t] = "Running"
    BY <1>4 DEF HasRunning
  <2>2. Expected(t)
    BY <1>1, <1>4, <2>1 DEF TaskOK, RunInv, Terminal, Expected
  <2> QED BY <2>2
<1>5. \A t \in Task : Expected(t)' <=> Expected(t)
  BY <1>1 DEF Expected, taskVars
<1>6. RunInv'
  BY <1>1, <1>3, <1>4, <1>5 DEF RunInv, LoopAt, Active
<1> QED BY <1>1, <1>3, <1>6, LoopKeeps DEF TypeInv

LEMMA CheckpointsKeeps == ASSUME TasksIInv, Checkpoints PROVE TasksIInv'
<1>1. /\ TypeInv /\ RunInv /\ LoopAt("hooked") /\ run' = [run EXCEPT !.pc = "stepped"]
      /\ persisted' = IF origin = "User" THEN OwnTasks ELSE persisted
      /\ UNCHANGED <<origin, record, copy, metaVars, spawnVars, taskVars, inbox, notices,
                     wakes, lost, sweep, crashes>>
  BY DEF TasksIInv, Checkpoints, LoopGoto, eventVars
<1>2. /\ run' \in RunRecord /\ run'.id = run.id /\ run'.pc = "stepped" /\ Active
      /\ run'.pending = run.pending
  BY <1>1, RunFacts DEF RunRecord, TypeInv, LoopAt, Active
<1>3. RunInv'
  BY <1>1, <1>2 DEF RunInv, LoopAt, Active, Expected, taskVars
<1> QED BY <1>1, <1>2, <1>3, LoopKeeps DEF TypeInv

LEMMA ContinuesKeeps == ASSUME TasksIInv, Continues PROVE TasksIInv'
<1>1. /\ TypeInv /\ RunInv /\ LoopAt("stepped") /\ run' = [run EXCEPT !.pc = "step"]
      /\ inbox' = {}
      /\ UNCHANGED <<origin, record, persisted, copy, notices, wakes, lost, metaVars, spawnVars,
                     taskVars, sweep, crashes>>
  BY DEF TasksIInv, Continues, LoopGoto
<1>2. run' \in RunRecord /\ run'.id = run.id /\ run'.pc = "step" /\ Active
  BY <1>1, RunFacts DEF RunRecord, TypeInv, LoopAt, Active
<1>3. RunInv'
  BY <1>1, <1>2 DEF RunInv, LoopAt, Active
<1> QED BY <1>1, <1>2, <1>3, LoopKeeps DEF TypeInv

LEMMA EndsNaturallyKeeps == ASSUME TasksIInv, EndsNaturally PROVE TasksIInv'
<1>1. /\ TypeInv /\ RunInv /\ LoopAt("stepped") /\ inbox' = {}
      /\ \/ run' = [run EXCEPT !.pc = "step"]
         \/ /\ inbox = {} /\ run.pending /\ origin = "Subagent"
            /\ run' = [run EXCEPT !.pc = "receiving"]
         \/ run' = [run EXCEPT !.pc = "closing", !.waits = run.pending]
      /\ UNCHANGED <<origin, record, persisted, copy, notices, wakes, lost, metaVars, spawnVars,
                     taskVars, sweep, crashes>>
  BY DEF TasksIInv, EndsNaturally, LoopGoto
<1>2. /\ run' \in RunRecord /\ run'.id = run.id /\ Active
      /\ run'.pending = run.pending
      /\ \/ run'.pc \in {"step", "closing"}
         \/ run'.pc = "receiving" /\ inbox = {} /\ run.pending /\ origin = "Subagent"
  BY <1>1, RunFacts DEF RunRecord, TypeInv, LoopAt, Active
<1>3. RunInv'
  BY <1>1, <1>2 DEF RunInv, LoopAt, Active, Expected, taskVars
<1> QED BY <1>1, <1>2, <1>3, LoopKeeps DEF TypeInv

LEMMA ReceivesKeeps == ASSUME TasksIInv, Receives PROVE TasksIInv'
<1>1. /\ TypeInv /\ RunInv /\ LoopAt("receiving")
      /\ run' = [run EXCEPT !.pc = "step"] \/ run' = [run EXCEPT !.pc = "closing"]
      /\ inbox' = IF run'.pc = "step" THEN {} ELSE inbox
      /\ UNCHANGED <<origin, record, persisted, copy, notices, wakes, lost, metaVars, spawnVars,
                     taskVars, sweep, crashes>>
  BY DEF TasksIInv, Receives, LoopGoto
<1>2. run' \in RunRecord /\ run'.id = run.id /\ run'.pc \in {"step", "closing"} /\ Active
  BY <1>1, RunFacts DEF RunRecord, TypeInv, LoopAt, Active
<1>3. RunInv'
  BY <1>1, <1>2 DEF RunInv, LoopAt, Active
<1> QED BY <1>1, <1>2, <1>3, LoopKeeps DEF TypeInv

LEMMA StopsKeeps == ASSUME TasksIInv, Stops PROVE TasksIInv'
<1>1. /\ TypeInv /\ RunInv /\ LoopAt("stepped") /\ run' = [run EXCEPT !.pc = "closing"]
      /\ UNCHANGED <<origin, record, persisted, copy, metaVars, spawnVars, taskVars, inbox, notices,
                     wakes, lost, sweep, crashes>>
  BY DEF TasksIInv, Stops, LoopGoto, eventVars
<1>2. run' \in RunRecord /\ run'.id = run.id /\ run'.pc = "closing" /\ Active
  BY <1>1, RunFacts DEF RunRecord, TypeInv, LoopAt, Active
<1>3. RunInv'
  BY <1>1, <1>2 DEF RunInv, LoopAt, Active
<1> QED BY <1>1, <1>2, <1>3, LoopKeeps DEF TypeInv

LEMMA ClosesKeeps == ASSUME TasksIInv, Closes PROVE TasksIInv'
<1>1. /\ TypeInv /\ RunInv /\ LoopAt("closing") /\ run' = [run EXCEPT !.pc = "closed"]
      /\ record' = IF run.waits THEN "Waiting" ELSE "Done"
      /\ persisted' = IF origin = "User" THEN OwnTasks ELSE persisted
      /\ UNCHANGED <<origin, copy, metaVars, spawnVars, taskVars, inbox, notices, wakes, lost,
                     sweep, crashes>>
  BY DEF TasksIInv, Closes, LoopGoto, eventVars
<1>2. run' \in RunRecord /\ run'.id = run.id /\ run'.pc = "closed" /\ Active
  BY <1>1, RunFacts DEF RunRecord, TypeInv, LoopAt, Active
<1>3. RunInv'
  BY <1>1, <1>2 DEF RunInv, LoopAt, Active
<1> QED BY <1>1, <1>2, <1>3, LoopKeeps DEF TypeInv

LEMMA DropsKeeps == ASSUME TasksIInv, Drops PROVE TasksIInv'
<1>1. /\ TypeInv /\ RunInv /\ LoopAt("closed") /\ run' = [run EXCEPT !.pc = "idle"]
      /\ lost' = lost \cup inbox /\ inbox' = {}
      /\ UNCHANGED <<origin, record, persisted, copy, notices, wakes, metaVars, spawnVars, taskVars,
                     sweep, crashes>>
  BY DEF TasksIInv, Drops, LoopGoto
<1>2. run' \in RunRecord /\ run'.id = run.id /\ run'.pc = "idle" /\ Active
  BY <1>1, RunFacts DEF RunRecord, TypeInv, LoopAt, Active
<1>3. RunInv' /\ lost' \subseteq Task
  BY <1>1, <1>2 DEF RunInv, LoopAt, Active, TypeInv
<1> QED BY <1>1, <1>2, <1>3, LoopKeeps DEF TypeInv

LEMMA CrashKeeps == ASSUME TasksIInv, Crash PROVE TasksIInv'
<1>1. /\ TypeInv /\ RunInv /\ SweepInv /\ origin = "User" /\ run' = [run EXCEPT !.pc = "idle"]
      /\ crashes < MaxCrashes /\ crashes' = crashes + 1
      /\ wakes' = LET queued == wakes \cup (IF Active THEN {run.dispatch} ELSE {})
                  IN IF queued = {} /\ record = "Waiting" THEN {Recovered} ELSE queued
      /\ meta' = NoTasks /\ bound' = 0 /\ counter' = 0
      /\ parent' = [t \in Task |-> Loop]
      /\ spawn' = [t \in Task |-> "none"]
      /\ future' = [t \in Task |-> "none"]
      /\ sender' = [t \in Task |-> 0]
      /\ handles' = {} /\ signalled' = {} /\ inbox' = {} /\ notices' = {}
      /\ copy' = persisted
      /\ UNCHANGED <<origin, record, persisted, lost, sweep>>
  BY DEF TasksIInv, Crash, LoopGoto
<1>2. run' \in RunRecord /\ run'.id = run.id /\ run'.pc = "idle"
  BY <1>1, RunFacts DEF RunRecord, TypeInv
<1>3. crashes' \in 0 .. MaxCrashes /\ crashes' # 0
  BY <1>1, Bounds DEF TypeInv
<1>4. wakes' \subseteq Dispatch
  BY <1>1, RunFacts DEF TypeInv, Dispatch
<1>5. /\ 0 \in 0 .. run.id /\ 0 \in 0 .. MaxTasks /\ 0 \in 0 .. MaxRuns
  BY <1>1, RunFacts, Bounds
<1>6. NoTasks \in [Task -> Status]
  BY DEF NoTasks, Status
<1>7. TypeInv'
  BY <1>1, <1>2, <1>3, <1>4, <1>5, <1>6 DEF TypeInv
<1>8. \A t \in Task : TaskOK(t)'
  BY <1>1, <1>3 DEF TaskOK, SpawnerOK, IsLive
<1>9. StoresInv' /\ RunInv'
  BY <1>1, <1>2, <1>3 DEF StoresInv, RunInv, Active, LoopAt
<1>10. SweepInv'
  BY <1>1, SweepNotBegun
<1> QED BY <1>7, <1>8, <1>9, <1>10 DEF TasksIInv

----------------------------------------------------------------------------
LEMMA TasksInitOK == TasksInit => TasksIInv
<1> SUFFICES ASSUME TasksInit
             PROVE  TasksIInv
  OBVIOUS
<1>1. /\ 0 \in 0 .. MaxTasks /\ 0 \in 0 .. MaxRuns /\ 0 \in 0 .. 0 /\ 0 \in 0 .. MaxCrashes
  BY Bounds
<1>2. NoTasks \in [Task -> Status]
  BY DEF NoTasks, Status
<1>3. run \in RunRecord /\ run.id = 0 /\ run.pc = "idle" /\ run.pending = FALSE
  BY <1>1 DEF TasksInit, RunRecord, Dispatch
<1>4. /\ sweep \in SweepRecord /\ sweep.token = FALSE /\ sweep.marked = FALSE
      /\ sweep.pc = "off" /\ sweep.tree = {}
  BY DEF TasksInit, SweepRecord
<1>5. TypeInv
  BY <1>1, <1>2, <1>3, <1>4 DEF TasksInit, TypeInv, Dispatch
<1>6. \A t \in Task : TaskOK(t)
  BY <1>3 DEF TasksInit, TaskOK, SpawnerOK, IsLive, NoTasks
<1>7. StoresInv /\ RunInv /\ SweepInv
  BY <1>3, <1>4 DEF TasksInit, StoresInv, RunInv, SweepInv, LoopAt, Active, NoTasks
<1> QED BY <1>5, <1>6, <1>7 DEF TasksIInv

LEMMA TasksStepOK == TasksIInv /\ [TasksNext]_tasksVars => TasksIInv'
<1> SUFFICES ASSUME TasksIInv, [TasksNext]_tasksVars
             PROVE  TasksIInv'
  OBVIOUS
<1>1. ASSUME NEW t \in Task, TaskStep(t)
      PROVE  TasksIInv'
  BY <1>1, SpawnCommitsKeeps, SpawnInsertsKeeps, ReturnsKeeps, ReportsKeeps, SendsKeeps,
     NotifiesKeeps DEF TaskStep
<1>2. CASE LoopStep
  BY <1>2, StartsKeeps, RestoresKeeps, StepEndsKeeps, CheckpointsKeeps, ContinuesKeeps,
     EndsNaturallyKeeps, ReceivesKeeps, StopsKeeps, ClosesKeeps, DropsKeeps DEF LoopStep, Dispatch
<1>3. CASE SweepStep
  BY <1>3, SweepMarksKeeps, SweepFindsRootsKeeps, SweepReadsTreeKeeps, SweepCancelsTreeKeeps,
     SweepEndsKeeps DEF SweepStep
<1>4. CASE UNCHANGED tasksVars
  <2>1. /\ UNCHANGED <<origin, run, record, persisted, copy, meta, bound, counter, parent, spawn>>
        /\ UNCHANGED <<sender, future, handles, signalled, inbox, notices, wakes, lost, sweep>>
        /\ UNCHANGED crashes
    BY <1>4 DEF tasksVars, runVars, metaVars, spawnVars, taskVars, eventVars
  <2>2. TypeInv' /\ (\A t \in Task : TaskOK(t)')
    BY <2>1, TasksStand DEF TasksIInv, TypeInv
  <2>3. StoresInv' /\ RunInv' /\ SweepInv'
    BY <2>1, StoresStand, RunStands, SweepStands DEF TasksIInv, Expected, Active
  <2> QED BY <2>2, <2>3 DEF TasksIInv
<1> QED
  BY <1>1, <1>2, <1>3, <1>4, CancelsKeeps, SpawnBeginsKeeps, CancelRunKeeps, CrashKeeps
     DEF TasksNext

THEOREM TasksInvariant == TasksSpec => []TasksIInv
BY TasksInitOK, TasksStepOK, PTL DEF TasksSpec

\* Types: among others, an inbox has events of its own activation only, each of
\* a task that has sent it, and only tasks with a handle are ever cancelled.
THEOREM TasksTypeHolds == TasksSpec => []TasksTypeOK
<1>1. TasksIInv => TasksTypeOK
  BY RunFacts DEF TasksIInv, TypeInv, RunInv, TaskOK, TasksTypeOK, Status, Dispatch
<1> QED BY <1>1, TasksInvariant, PTL

\* cancel_descendants_for_run and insert_handle_and_cancel_if_parent_run_cancelled
\* between them miss no task whose spawners are alive: what has a handle when the
\* tree is read is cancelled with it, what gets one later is cancelled then.
THEOREM SweepMissesNoLiveTaskHolds == TasksSpec => []SweepMissesNoLiveTask
<1>1. TasksIInv => SweepMissesNoLiveTask
  <2> SUFFICES ASSUME TasksIInv, sweep.pc = "done", NEW t \in handles,
                      \A a \in Ancestors[t] : meta[a] = "Running", t \notin signalled
               PROVE  FALSE
    BY DEF SweepMissesNoLiveTask
  <2>1. t \in Task /\ InReach(t)
    BY DEF TasksIInv, TypeInv, InReach
  <2> QED BY <2>1 DEF TasksIInv, SweepInv
<1> QED BY <1>1, TasksInvariant, PTL

\* A sub-agent that waits for the events of its tasks was told by StepEnd that
\* tasks were running, and has read their events or has them to come.
THEOREM SubagentIsNotStuckHolds == TasksSpec => []SubagentIsNotStuck
<1>1. TasksIInv => SubagentIsNotStuck
  BY DEF TasksIInv, SubagentIsNotStuck, RunInv, LoopAt, Expected, TaskOK
<1> QED BY <1>1, TasksInvariant, PTL

\* A step of the process changes no metadata but that of a task that is not done.
LEMMA DoneTaskStays ==
    ASSUME TasksIInv, [TasksNext]_tasksVars, crashes' = 0, NEW t \in Task, Terminal(meta[t])
    PROVE  meta'[t] = meta[t]
<1>1. CASE UNCHANGED meta
  BY <1>1
<1>2. ASSUME NEW u \in Task, SpawnCommits(u)
      PROVE  meta'[t] = meta[t]
  <2>1. meta[u] = "None"
    BY <1>2 DEF TasksIInv, TaskOK, SpawnCommits
  <2>2. t # u
    BY <2>1 DEF Terminal
  <2> QED BY <1>2, <2>2 DEF TasksIInv, TypeInv, SpawnCommits
<1>3. ASSUME NEW u \in Task, Reports(u)
      PROVE  meta'[t] = meta[t]
  <2>1. meta[u] = "Running"
    BY <1>3 DEF TasksIInv, TaskOK, Reports, IsLive
  <2>2. t # u
    BY <2>1 DEF Terminal
  <2> QED BY <1>3, <2>2 DEF TasksIInv, TypeInv, Reports
<1>4. ASSUME NEW w \in Dispatch, Starts(w)
      PROVE  meta'[t] = meta[t]
  BY <1>4 DEF TasksIInv, StoresInv, Starts, metaVars
<1>5. CASE Crash
  BY <1>5, Bounds DEF Crash, TasksIInv, TypeInv
<1>6. CASE Restores
  BY <1>6, RestoresNothing
<1>7. ASSUME NEW u \in Task, TaskStep(u)
      PROVE  meta'[t] = meta[t]
  BY <1>2, <1>3, <1>7 DEF TaskStep, SpawnInserts, Returns, Sends, Notifies, metaVars
<1>8. CASE LoopStep
  BY <1>4, <1>6, <1>8 DEF LoopStep, Dispatch, StepEnds, Checkpoints, Continues, EndsNaturally,
                          Receives, Stops, Closes, Drops, metaVars
<1>9. CASE SweepStep
  BY <1>9 DEF SweepStep, SweepMarks, SweepFindsRoots, SweepReadsTree, SweepCancelsTree,
              SweepEnds, metaVars
<1>10. CASE UNCHANGED tasksVars
  BY <1>10 DEF tasksVars, metaVars
<1> QED
  BY <1>5, <1>7, <1>8, <1>9, <1>10 DEF TasksNext, SpawnBegins, Cancels, CancelRun, metaVars

\* What a task has reported stays, in this process: neither a task id that is
\* taken twice, nor a run that loads an older checkpoint, overwrites it.
THEOREM DoneTaskStaysDoneHolds == TasksSpec => DoneTaskStaysDone
<1>1. TasksIInv /\ [TasksNext]_tasksVars =>
          [crashes' = 0 => \A t \in Task : Terminal(meta[t]) => meta'[t] = meta[t]]_tasksVars
  BY DoneTaskStays
<1> QED BY <1>1, TasksInvariant, PTL DEF TasksSpec, DoneTaskStaysDone

\* restore_for_thread: whatever the checkpoints, crashes and spawns, the store of
\* the manager has every task of the thread state when a run starts, so that
\* RunStart neither adds a task nor marks one as failed, and leaves the task counter.
RestoreAddsNothing ==
    [][Restores => UNCHANGED <<meta, counter>>]_tasksVars

THEOREM RestoreAddsNothingHolds == TasksSpec => RestoreAddsNothing
<1>1. TasksIInv /\ [TasksNext]_tasksVars =>
          [Restores => UNCHANGED <<meta, counter>>]_tasksVars
  BY RestoresNothing
<1> QED BY <1>1, TasksInvariant, PTL DEF TasksSpec, RestoreAddsNothing

=============================================================================
