---------------------------- MODULE EventPipeline ----------------------------
(***************************************************************************)
(* The way of a run's events to the replay log of a protocol.              *)
(*                                                                         *)
(* A run emits events; each goes to the live stream and, as a draft, into  *)
(* the buffer of the run.  A checkpoint of the run commits the drafts in   *)
(* one transaction with the messages: they become the canonical log of the *)
(* thread, with one outbox message each.  Relays claim messages, transcode *)
(* the events with an encoder that has state, append the rows to the       *)
(* replay log one by one, and acknowledge the message.                     *)
(*                                                                         *)
(* The runs of one thread are modelled, with the coordinator and the       *)
(* outbox of the Postgres store and one protocol (AI SDK).  An event is    *)
(* what the encoder's state depends on: Text opens a text block, Tool,     *)
(* StepEnd, Suspend and Finish close it; after Suspend and Finish the      *)
(* encoder makes nothing until a Start.                                    *)
(***************************************************************************)
EXTENDS Naturals, Sequences, FiniteSets, SequencesExt

CONSTANTS
    Relay,         \* relay processes of the canonical lane
    BatchLimit,    \* messages that one tick claims
    MaxAttempts,   \* of an outbox message, before it is dead
    MaxAppends,    \* MAX_APPEND_ATTEMPTS
    Faults,        \* what may go wrong or come between: see Fault
    MaxLive,       \* bound: events that are emitted
    Room,          \* bound: events that are emitted with so many faults
    StepRoom,      \* bound: events that are emitted up to the last Text or Tool
    MaxRuns,       \* bound: runs of the thread
    MaxFaults      \* bound: faults, of all kinds together

ASSUME PipelineAssumption ==
    /\ BatchLimit \in Nat \ {0} /\ MaxAttempts \in Nat \ {0}
    /\ MaxAppends \in Nat \ {0}
    /\ Faults \subseteq {"messages", "inbox", "commit", "lookup", "append",
                        "settle", "lapse", "restart"}
    /\ MaxLive \in Nat /\ MaxRuns \in Nat /\ MaxFaults \in Nat
    /\ Room \in [0..MaxFaults -> 0..MaxLive] /\ StepRoom \in Nat

VARIABLES
    live,       \* the events emitted: their kind and their run
    run,        \* the run loop and its call of the coordinator
    buffer,     \* EventBuffer: positions of live
    pending,    \* drafts that the staging coordinator has drained
    version,    \* committed messages of the thread, as a number
    log,        \* canonical events: positions of live
    outbox,     \* the message of each canonical event
    replay,     \* rows of the replay log
    relays,     \* what each relay process holds
    covered,    \* history: events their run had emitted when a commit succeeded
    straight,   \* history: no encoder met an event out of its order
    swallowed,  \* history: events of which some encoder made nothing
    raced,      \* history: events with a row that another relay stored first
    faults      \* what was spent of MaxFaults

runVars == <<live, run, buffer, pending, version, covered>>
notes == <<straight, swallowed, raced>>
pipelineVars == <<runVars, log, outbox, replay, relays, notes, faults>>

Kind == {"Start", "Text", "Tool", "StepEnd", "Suspend", "Finish"}

Fault(kind) ==
    /\ kind \in Faults /\ faults < MaxFaults /\ faults' = faults + 1
    /\ Len(live) <= Room[faults + 1]

Goto(pc) == run' = [run EXCEPT !.pc = pc]

----------------------------------------------------------------------------
(* The run loop: emit, commit, emit.                                        *)

\* DurableEventSink::emit: forward, then stage.
Emit(kind) ==
    /\ Len(live) < Room[faults]
    /\ live' = Append(live, [kind |-> kind, run |-> run.id])
    /\ buffer' = Append(buffer, Len(live) + 1)

\* A dispatch of the thread is executed, with a buffer and a coordinator of
\* its own.
RunBegins ==
    /\ run.pc \in {"idle", "ended", "failed"}
    /\ run.id < MaxRuns
    /\ run' = [pc |-> "start", id |-> run.id + 1, expected |-> 0, tries |-> 0,
               then |-> "stepEnd"]
    /\ buffer' = <<>> /\ pending' = <<>>
    /\ UNCHANGED <<live, version, log, outbox, replay, relays, covered, notes, faults>>

\* RunStart, when the run begins and when a decision resumes it.
EmitsStart ==
    /\ run.pc \in {"start", "waiting"}
    /\ Emit("Start")
    /\ Goto(IF run.pc = "start" THEN "step" ELSE "resumed")
    /\ UNCHANGED <<pending, version, log, outbox, replay, relays, covered, notes, faults>>

\* A resumed run replays tool calls before it goes on with a step.
StepEmits ==
    /\ run.pc \in {"step", "resumed"}
    /\ Len(live) < StepRoom
    /\ \E kind \in {"Text", "Tool"} :
          Emit(kind) /\ Goto(IF kind = "Text" THEN "step" ELSE run.pc)
    /\ UNCHANGED <<pending, version, log, outbox, replay, relays, covered, notes, faults>>

\* A checkpoint, and where the run goes on after it.
Checkpoint(then) == run' = [run EXCEPT !.pc = "read", !.then = then, !.tries = 0]

\* That of complete_step, or the last one after the RunEnd phase; a run that
\* waits has it when it is cancelled or nobody can resume it.
CheckpointBegins ==
    /\ \/ run.pc \in {"step", "resumed"} /\ Checkpoint("stepEnd")
       \/ run.pc \in {"stepped", "waiting"} /\ Checkpoint("finish")
    /\ UNCHANGED <<live, buffer, pending, version, log, outbox, replay, relays,
                   covered, notes, faults>>

\* An inbox message makes a run that waits write a checkpoint, and wait on.
InboxCheckpoint ==
    /\ run.pc = "waiting"
    /\ Fault("inbox")
    /\ Checkpoint("waiting")
    /\ UNCHANGED <<live, buffer, pending, version, log, outbox, replay, relays,
                   covered, notes>>

\* commit_checkpoint_appending reads the committed messages ...
ReadsVersion ==
    /\ run.pc = "read"
    /\ run' = IF run.tries = MaxAppends THEN [run EXCEPT !.pc = "failed"]
              ELSE [run EXCEPT !.pc = "drain", !.expected = version,
                               !.tries = @ + 1]
    /\ UNCHANGED <<live, buffer, pending, version, log, outbox, replay, relays,
                   covered, notes, faults>>

\* Mutant: an attempt has the drafts of the buffer only.
DrainsAnew ==
    /\ run.pc = "drain"
    /\ Goto("commit")
    /\ pending' = buffer
    /\ buffer' = <<>>
    /\ UNCHANGED <<live, version, log, outbox, replay, relays, covered,
                   notes, faults>>

\* ... StagingCommitCoordinator adds the buffer to what is pending ...
Drains ==
    /\ run.pc = "drain"
    /\ Goto("commit")
    /\ pending' = pending \o buffer
    /\ buffer' = <<>>
    /\ UNCHANGED <<live, version, log, outbox, replay, relays, covered,
                   notes, faults>>

NewMessage == [status |-> "Pending", attempts |-> 0, lease |-> "none",
               late |-> FALSE, due |-> TRUE]

\* One transaction: events, their outbox messages, and the thread's messages.
Transaction ==
    /\ log' = log \o pending
    /\ outbox' = outbox \o [i \in 1..Len(pending) |-> NewMessage]
    /\ version' = version + 1

\* ... and PgCommitCoordinator commits, or finds that others have appended
\* messages to the thread, in which case the caller reads again.
Commits ==
    /\ run.pc = "commit"
    /\ \/ /\ version # run.expected
          /\ Goto("read")
          /\ UNCHANGED <<log, outbox, version, faults>>
       \/ /\ version = run.expected
          /\ Transaction
          /\ Goto("clear")
          /\ UNCHANGED faults
    /\ UNCHANGED <<live, buffer, pending, replay, relays, covered, notes>>

\* A commit that is rolled back, or whose outcome is not known, fails the run.
CommitFails ==
    /\ run.pc = "commit"
    /\ Fault("commit")
    /\ Goto("failed")
    /\ \/ UNCHANGED <<log, outbox, version>>
       \/ version = run.expected /\ Transaction
    /\ UNCHANGED <<live, buffer, pending, replay, relays, covered, notes>>

Clears ==
    /\ run.pc = "clear"
    /\ pending' = <<>>
    /\ covered' = covered \cup {i \in DOMAIN live : live[i].run = run.id}
    /\ Goto(run.then)
    /\ UNCHANGED <<live, buffer, version, log, outbox, replay, relays, notes, faults>>

\* After the checkpoint of a step, complete_step emits StepEnd ...
EmitsStepEnd ==
    /\ run.pc = "stepEnd"
    /\ Emit("StepEnd")
    /\ \E pc \in {"step", "stepped", "suspend"} : Goto(pc)
    /\ UNCHANGED <<pending, version, log, outbox, replay, relays, covered, notes, faults>>

\* ... a suspended step is followed by a RunFinish, and the run waits; one that
\* is resumed may find that it has to wait again ...
EmitsSuspend ==
    /\ run.pc \in {"suspend", "resumed"}
    /\ Emit("Suspend")
    /\ Goto("waiting")
    /\ UNCHANGED <<pending, version, log, outbox, replay, relays, covered, notes, faults>>

\* ... and the loop emits RunFinish after the last one, and returns.
EmitsFinish ==
    /\ run.pc = "finish"
    /\ Emit("Finish")
    /\ Goto("ended")
    /\ UNCHANGED <<pending, version, log, outbox, replay, relays, covered, notes, faults>>

\* Others append messages to the thread.
OthersAppend ==
    /\ run.pc \in {"drain", "commit"}
    /\ Fault("messages")
    /\ version' = version + 1
    /\ UNCHANGED <<live, run, buffer, pending, log, outbox, replay, relays,
                   covered, notes>>

----------------------------------------------------------------------------
(* The encoder.                                                             *)

NewEncoder == [open |-> FALSE, count |-> 0, finished |-> FALSE]

\* The terminal guard: after a RunFinish, only a RunStart is encoded.
IsGuarded(enc, kind) == enc.finished /\ kind # "Start"

Closes(kind) == kind \notin {"Start", "Text"}

\* AiSdkEncoder::on_agent_event: the rows of an event, those that are its own
\* as one ...
Rows(enc, kind) ==
    IF IsGuarded(enc, kind) THEN <<>>
    ELSE (IF kind = "Text" /\ ~enc.open THEN << <<"TextStart", enc.count>> >>
          ELSE IF Closes(kind) /\ enc.open THEN << <<"TextEnd", enc.count>> >>
          ELSE <<>>)
         \o << IF kind = "Text" THEN <<"TextDelta", enc.count>> ELSE <<kind, 0>> >>

\* ... and the state after it.
EncoderNext(enc, kind) ==
    IF IsGuarded(enc, kind) THEN enc
    ELSE [open |-> kind = "Text" \/ (enc.open /\ ~Closes(kind)),
          count |-> IF enc.open /\ Closes(kind) THEN enc.count + 1 ELSE enc.count,
          finished |-> kind \in {"Suspend", "Finish"}]

KindOf(i) == live[log[i]].kind

\* What one encoder makes of the whole log.
EncoderAfter[i \in Nat] ==
    IF i = 0 THEN NewEncoder ELSE EncoderNext(EncoderAfter[i - 1], KindOf(i))

Reference(i) == Rows(EncoderAfter[i - 1], KindOf(i))

----------------------------------------------------------------------------
(* A relay: claim a batch, deliver and settle its messages one by one.      *)

NewRelay == [at |-> "idle", batch |-> <<>>, row |-> 1, encoder |-> NewEncoder,
             drafts |-> <<>>, stored |-> {}]

At(r, at) == relays[r].at = at
Message(r) == Head(relays[r].batch).message
Token(r) == Head(relays[r].batch).token
Relays(r, at) == [relays EXCEPT ![r].at = at]

\* The token of a claim is new with each attempt.
HoldsClaim(r) ==
    /\ outbox[Message(r)].status = "Claimed"
    /\ outbox[Message(r)].attempts = Token(r)

\* Mutant: a claim whose lease has expired is nobody's.
IsPending(i) == outbox[i].status = "Pending" /\ outbox[i].due

\* is_claimable
IsClaimable(i) ==
    \/ outbox[i].status = "Pending" /\ outbox[i].due
    \/ outbox[i].status = "Claimed" /\ outbox[i].lease = "expired"

\* claim_outbox: in the order in which the messages became available, which for
\* those that were never refused is the order of the log.
ComesBefore(i, j) == ~outbox[i].late /\ ~outbox[j].late => i < j

Claims(r) ==
    /\ At(r, "idle")
    /\ LET claimable == {i \in DOMAIN outbox : IsClaimable(i)}
       IN /\ claimable # {}
          /\ \E all \in SetToSeqs(claimable) :
                LET taken == SubSeq(all, 1, IF Len(all) < BatchLimit THEN Len(all)
                                            ELSE BatchLimit)
                IN /\ \A m, n \in DOMAIN all : m < n => ComesBefore(all[m], all[n])
                   /\ outbox' = [i \in DOMAIN outbox |->
                          IF i \in ToSet(taken)
                          THEN [outbox[i] EXCEPT !.status = "Claimed", !.lease = "live",
                                                 !.attempts = @ + 1]
                          ELSE outbox[i]]
                   /\ relays' = [Relays(r, "load") EXCEPT ![r].batch =
                          [n \in DOMAIN taken |->
                              [message |-> taken[n],
                               token |-> outbox[taken[n]].attempts + 1]]]
    /\ UNCHANGED <<runVars, log, replay, notes, faults>>

\* Mutant: a retry asks the encoder again.
DraftsAnew(r, i) ==
    [rows |-> Rows(relays[r].encoder, KindOf(i)),
     encoder |-> EncoderNext(relays[r].encoder, KindOf(i))]

\* project_event transcodes an event once, and remembers the drafts.
Drafts(r, i) ==
    IF i \in DOMAIN relays[r].drafts
    THEN [rows |-> relays[r].drafts[i], encoder |-> relays[r].encoder]
    ELSE [rows |-> Rows(relays[r].encoder, KindOf(i)),
          encoder |-> EncoderNext(relays[r].encoder, KindOf(i))]

\* The event is loaded; what has been stored of it before is not stored again.
Loads(r) ==
    /\ At(r, "load")
    /\ LET i == Message(r)
           d == Drafts(r, i)
           drafted == DOMAIN relays[r].drafts
       IN IF i \in relays[r].stored
          THEN relays' = Relays(r, "ack") /\ UNCHANGED <<straight, swallowed>>
          ELSE /\ relays' = [Relays(r, "append") EXCEPT
                     ![r].row = 1, ![r].encoder = d.encoder,
                     ![r].drafts = [j \in drafted \cup {i} |->
                                       IF j = i THEN d.rows ELSE relays[r].drafts[j]]]
               /\ straight' = (straight /\ (i \in drafted \/ drafted = 1..(i - 1)))
               /\ swallowed' = IF d.rows = <<>> THEN swallowed \cup {i} ELSE swallowed
    /\ UNCHANGED <<runVars, log, outbox, replay, raced, faults>>

LoadFails(r) ==
    /\ At(r, "load")
    /\ Fault("lookup")
    /\ relays' = Relays(r, "nack")
    /\ UNCHANGED <<runVars, log, outbox, replay, notes>>

RowsOf(i) == {n \in DOMAIN replay : replay[n].event = i}
StoredRows(i, k) == {n \in RowsOf(i) : replay[n].index = k}
Row(r) == [event |-> Message(r), index |-> relays[r].row,
           content |-> relays[r].drafts[Message(r)][relays[r].row]]

\* append_replay looks for the row, without a lock: it is there already, or a
\* different one is, or it is to be inserted ...
LooksUp(r) ==
    /\ At(r, "append")
    /\ relays[r].row <= Len(relays[r].drafts[Message(r)])
    /\ LET there == StoredRows(Row(r).event, Row(r).index)
       IN \/ there = {} /\ relays' = Relays(r, "insert")
          \/ /\ \E n \in there : replay[n] = Row(r)
             /\ relays' = [relays EXCEPT ![r].row = @ + 1]
          \/ (\E n \in there : replay[n] # Row(r)) /\ relays' = Relays(r, "nack")
    /\ UNCHANGED <<runVars, log, outbox, replay, notes, faults>>

\* ... which its unique index refuses when another relay was faster.
Inserts(r) ==
    /\ At(r, "insert")
    /\ IF StoredRows(Row(r).event, Row(r).index) = {}
       THEN /\ replay' = Append(replay, Row(r))
            /\ relays' = [Relays(r, "append") EXCEPT ![r].row = @ + 1]
            /\ UNCHANGED raced
       ELSE /\ relays' = Relays(r, "nack")
            /\ raced' = raced \cup {Message(r)}
            /\ UNCHANGED replay
    /\ UNCHANGED <<runVars, log, outbox, straight, swallowed, faults>>

\* The store fails, before or after the row is in.
AppendFails(r) ==
    /\ \/ At(r, "insert")
       \/ At(r, "append") /\ relays[r].row <= Len(relays[r].drafts[Message(r)])
    /\ Fault("append")
    /\ relays' = Relays(r, "nack")
    /\ \/ UNCHANGED replay
       \/ /\ At(r, "insert") /\ StoredRows(Row(r).event, Row(r).index) = {}
          /\ replay' = Append(replay, Row(r))
    /\ UNCHANGED <<runVars, log, outbox, notes>>

\* Mutant: an event counts as stored with its first row.
RemembersFirstRow(r) ==
    /\ At(r, "append")
    /\ relays[r].row > 1
    /\ relays' = [Relays(r, "ack") EXCEPT ![r].stored = @ \cup {Message(r)}]
    /\ UNCHANGED <<runVars, log, outbox, replay, notes, faults>>

\* remember_records, and deliver returns.
Remembers(r) ==
    /\ At(r, "append")
    /\ relays[r].row > Len(relays[r].drafts[Message(r)])
    /\ relays' = [Relays(r, "ack") EXCEPT ![r].stored = @ \cup {Message(r)}]
    /\ UNCHANGED <<runVars, log, outbox, replay, notes, faults>>

\* The batch without its first message: the next one, or the end of the tick.
NextMessage(r) ==
    [relays EXCEPT ![r].batch = Tail(@),
                   ![r].at = IF Len(relays[r].batch) > 1 THEN "load" ELSE "idle"]

Settled(i, status) ==
    [outbox EXCEPT ![i].status = status, ![i].lease = "none"]

Acked(r) == IF HoldsClaim(r) THEN Settled(Message(r), "Delivered") ELSE outbox

\* Mutant: the last attempt is not made.
NackedEarly(r) ==
    LET i == Message(r)
    IN IF ~HoldsClaim(r) THEN outbox
       ELSE IF outbox[i].attempts + 1 >= MaxAttempts THEN Settled(i, "DeadLetter")
       ELSE [Settled(i, "Pending") EXCEPT ![i].late = TRUE, ![i].due = FALSE]

\* nack_outbox: a message is retried later, MaxAttempts times at most.
Nacked(r) ==
    LET i == Message(r)
    IN IF ~HoldsClaim(r) THEN outbox
       ELSE IF outbox[i].attempts >= MaxAttempts THEN Settled(i, "DeadLetter")
       ELSE [Settled(i, "Pending") EXCEPT ![i].late = TRUE, ![i].due = FALSE]

SettledBy(r) == IF At(r, "ack") THEN Acked(r) ELSE Nacked(r)

Settles(r) ==
    /\ relays[r].at \in {"ack", "nack"}
    /\ outbox' = SettledBy(r)
    /\ relays' = NextMessage(r)
    /\ UNCHANGED <<runVars, log, replay, notes, faults>>

\* A store error ends the tick, and the rest of the batch stays claimed.
SettleFails(r) ==
    /\ relays[r].at \in {"ack", "nack"}
    /\ Fault("settle")
    /\ outbox' \in {outbox, SettledBy(r)}
    /\ relays' = [Relays(r, "idle") EXCEPT ![r].batch = <<>>]
    /\ UNCHANGED <<runVars, log, replay, notes>>

\* The process of a relay is replaced; encoders and caches are in memory.
Restarts(r) ==
    /\ Fault("restart")
    /\ relays' = [relays EXCEPT ![r] = NewRelay]
    /\ UNCHANGED <<runVars, log, outbox, replay, notes>>

\* Time passes.
BecomesDue(i) ==
    /\ ~outbox[i].due
    /\ outbox' = [outbox EXCEPT ![i].due = TRUE]
    /\ UNCHANGED <<runVars, log, replay, relays, notes, faults>>

Held(i) ==
    \E r \in Relay : \E n \in DOMAIN relays[r].batch :
        relays[r].batch[n] = [message |-> i, token |-> outbox[i].attempts]

\* The lease of a claim that nobody works on runs out; of another one, if its
\* relay is slow.
LeaseExpires(i) ==
    /\ outbox[i].lease = "live"
    /\ IF Held(i) THEN Fault("lapse") ELSE UNCHANGED faults
    /\ outbox' = [outbox EXCEPT ![i].lease = "expired"]
    /\ UNCHANGED <<runVars, log, replay, relays, notes>>

----------------------------------------------------------------------------
PipelineInit ==
    /\ live = <<>> /\ buffer = <<>> /\ pending = <<>> /\ version = 0
    /\ run = [pc |-> "idle", id |-> 0, expected |-> 0, tries |-> 0, then |-> "stepEnd"]
    /\ log = <<>> /\ outbox = <<>> /\ replay = <<>>
    /\ relays = [r \in Relay |-> NewRelay]
    /\ covered = {} /\ faults = 0
    /\ straight = TRUE /\ swallowed = {} /\ raced = {}

RunStep ==
    \/ RunBegins \/ EmitsStart \/ StepEmits \/ CheckpointBegins
    \/ InboxCheckpoint \/ ReadsVersion \/ Drains
    \/ Commits \/ CommitFails \/ Clears \/ EmitsStepEnd \/ EmitsSuspend
    \/ EmitsFinish \/ OthersAppend

RelayStep(r) ==
    \/ Claims(r) \/ Loads(r) \/ LoadFails(r) \/ LooksUp(r) \/ Inserts(r)
    \/ AppendFails(r) \/ Remembers(r) \/ Settles(r) \/ SettleFails(r)

PipelineNext ==
    \/ RunStep
    \/ \E r \in Relay : RelayStep(r) \/ Restarts(r)
    \/ \E i \in DOMAIN outbox : BecomesDue(i) \/ LeaseExpires(i)

\* The relay loops tick, and time passes; a run need not go on.
PipelineSpec ==
    /\ PipelineInit /\ [][PipelineNext]_pipelineVars
    /\ \A r \in Relay : WF_pipelineVars(RelayStep(r))
    /\ WF_pipelineVars(\E i \in DOMAIN outbox :
           BecomesDue(i) \/ (~Held(i) /\ LeaseExpires(i)))

----------------------------------------------------------------------------
(* Properties.                                                              *)

\* Types: drafts and rows are about events of the log, and each canonical
\* event has its outbox message.
PipelineTypeOK ==
    /\ live \in Seq([kind : Kind, run : 1..MaxRuns]) /\ Len(live) <= MaxLive
    /\ ToSet(buffer) \cup ToSet(pending) \cup covered \subseteq DOMAIN live
    /\ log \in Seq(DOMAIN live) /\ DOMAIN outbox = DOMAIN log
    /\ \A i \in DOMAIN outbox :
          outbox[i] \in [status : {"Pending", "Claimed", "Delivered", "DeadLetter"},
                         attempts : Nat, lease : {"none", "live", "expired"},
                         late : BOOLEAN, due : BOOLEAN]
          /\ (outbox[i].status = "Claimed" <=> outbox[i].lease # "none")
    /\ \A n \in DOMAIN replay : replay[n].event \in DOMAIN log
    /\ \A r \in Relay :
          /\ relays[r].at \in {"idle", "load", "append", "insert", "ack", "nack"}
          /\ relays[r].stored \subseteq DOMAIN relays[r].drafts
          /\ (relays[r].at = "idle" <=> relays[r].batch = <<>>)

\* The checkpoint covers the events: when a commit has succeeded, all that its
\* run had emitted before is in the canonical log, however many attempts the
\* commit took; and the log has the events in the order of their emission,
\* once each, with none of a run's left out between two others.
CheckpointCoversEvents ==
    /\ covered \subseteq ToSet(log)
    /\ \A m, n \in DOMAIN log : m < n => log[m] < log[n]
    /\ \A n \in DOMAIN log : \A i \in 1..log[n] :
          live[i].run = live[log[n]].run => i \in ToSet(log)

\* The replay log has all these rows of an event, once each, and no other.
HasRows(i, rows) ==
    /\ Cardinality(RowsOf(i)) = Len(rows)
    /\ \A k \in DOMAIN rows : \E n \in StoredRows(i, k) : replay[n].content = rows[k]

Encoders == [open : BOOLEAN, count : 0..MaxLive, finished : BOOLEAN]

\* A delivered message is projected, whatever failed on the way: the replay log
\* has the rows that one encoder makes of the log, if the encoders met the
\* events in order; and in any case all rows that some encoder makes of the
\* event, unless an encoder that had met a RunFinish swallowed it.
DeliveredIsProjected ==
    \A i \in DOMAIN outbox : outbox[i].status = "Delivered" =>
        /\ straight => HasRows(i, Reference(i))
        /\ i \notin swallowed =>
              \E enc \in Encoders :
                 ~IsGuarded(enc, KindOf(i)) /\ HasRows(i, Rows(enc, KindOf(i)))

\* The replay log is what one encoder makes of the log, as far as every
\* encoder in use has met the events in the order of the log.
RowsAreFaithful ==
    straight => \A n \in DOMAIN replay :
        /\ replay[n].index \in DOMAIN Reference(replay[n].event)
        /\ replay[n].content = Reference(replay[n].event)[replay[n].index]

\* As long as the encoders meet the events in order, a dead letter has had a
\* fault for each of its attempts, one for each of its rows aside that another
\* relay may have stored first; and without a fault there is none.
FewFaultsLoseNothing ==
    straight => \A i \in DOMAIN outbox : outbox[i].status = "DeadLetter" =>
        /\ faults > 0
        /\ MaxAttempts <= faults + (IF i \in raced THEN Len(Reference(i)) ELSE 0)

\* Every canonical event is delivered in the end, or is a dead letter, also
\* when a relay dies or is stuck with its claim.
EventIsSettled ==
    []<>(\A i \in DOMAIN outbox : outbox[i].status \in {"Delivered", "DeadLetter"})

\* The projection of a run has all its events.  It does not: a relay whose
\* encoder has met a RunFinish, and not the RunStart after it, delivers events
\* without rows.
DeliveredHasRows ==
    \A i \in DOMAIN outbox : outbox[i].status = "Delivered" => RowsOf(i) # {}

\* What the mailbox tests say of the checkpoint: a run that has ended normally
\* has its RunFinish in the canonical log.
FinishIsCommitted ==
    run.pc = "ended" => \E n \in DOMAIN log : live[log[n]] = [kind |-> "Finish", run |-> run.id]

\* What the projector tests say of a restart: the complete projection of an
\* event is there afterwards, so no message dies without a store failure.
RestartLosesNothing ==
    (\A i \in DOMAIN outbox : outbox[i].status # "DeadLetter")
=============================================================================
