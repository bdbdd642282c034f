-------------------------- MODULE PendingMessages --------------------------
(***************************************************************************)
(* Pending messages of one thread: what is accepted for a run and not yet  *)
(* part of its conversation (remo-server mailbox/pending_delivery.rs,      *)
(* live_delivery.rs and submit.rs, the Postgres store's pending.rs, the    *)
(* boundaries of the run loop in orchestrator.rs).                         *)
(*                                                                         *)
(* A request has one message, and the run that is made for it bears the    *)
(* same name.  Live requests steer the active run and fall back to a run   *)
(* of their own; foreground requests interrupt the thread.  A boundary     *)
(* "freezes" messages: it selects them from what it read and then takes    *)
(* them in one transaction, if nothing has changed since.  Starting a      *)
(* queued run and interrupting are MailboxService's, and are short here.   *)
(* The service sets neither barriers nor granularity One, and no run of    *)
(* this model waits for input, so ResumeInput does not occur.              *)
(***************************************************************************)
EXTENDS Integers, FiniteSets, SequencesExt

CONSTANTS
    Live,          \* submit_live_then_queue
    Foreground,    \* submit
    Event,         \* messages that background tasks put into the run's inbox
    Root,          \* the run that is active at the start, and its message
    None,
    MaxFreezeAttempts,
    MaxSteps,      \* bound: steps of the run loop that go on
    MaxUserCalls   \* bound: edits, retractions and reorderings

ASSUME PendingAssumption ==
    /\ None \notin Live \cup Foreground \cup Event \cup {Root}
    /\ MaxFreezeAttempts \in Nat \ {0} /\ MaxSteps \in Nat /\ MaxUserCalls \in Nat

Request == Live \cup Foreground
Message == Request \cup Event \cup {Root}
Run == Request \cup {Root}

VARIABLES
    pending,     \* the pending partition of the thread, in order
    committed,   \* its committed messages, None for what a run wrote itself
    record,      \* run records
    latest,      \* latest_run: the record that was written last
    queue,       \* runs with a queued dispatch
    loop,        \* the run loop
    inbox,       \* payloads in its inbox
    req,         \* what each request is doing
    steps, userCalls,
    edited,      \* history: acknowledged edits of a message
    retracted,   \* history: messages that a user took back
    takenBy      \* history: the run a message was frozen for

pendingVars == <<pending, committed, record, latest, queue, loop, inbox, req, steps,
                 userCalls, edited, retracted, takenBy>>

Precedence == [Interrupt |-> 0, NextStep |-> 1, OnNaturalEnd |-> 2, NewRun |-> 4]
Boundary == DOMAIN Precedence

Entry(m, boundary, target) ==
    [id |-> m, text |-> 0, boundary |-> boundary, target |-> target]
Targeted(e) == e.target # None          \* then without fallback to a new run
IdsOf(s) == [i \in DOMAIN s |-> s[i].id]
IdSet(s) == {s[i].id : i \in DOMAIN s}

\* Mutant: a boundary takes what names it, and not what should have come earlier.
EligibleAtOnly(boundary, current) == boundary = current

EligibleAt(boundary, current) == Precedence[boundary] <= Precedence[current]

EligibleForFreeze(e, current, run) ==
    /\ Targeted(e) => current # "NewRun" /\ e.target = run
    /\ EligibleAt(e.boundary, current)

CanSkip(e, current) ==
    \/ current # "NewRun" /\ e.boundary = "NewRun"
    \/ current = "NewRun" /\ e.boundary # "NewRun" /\ Targeted(e)

Blocks(e, current, run) == ~EligibleForFreeze(e, current, run) /\ ~CanSkip(e, current)

\* The eligible entries before the first one that may not be skipped.
Select(s, current, run) ==
    LET stop == SelectInSeq(s, LAMBDA e : Blocks(e, current, run))
        front == IF stop = 0 THEN s ELSE SubSeq(s, 1, stop - 1)
    IN SelectSeq(front, LAMBDA e : EligibleForFreeze(e, current, run))

\* Mutant: the messages are committed as they were appended.
TextsAsAppended(s) == [i \in DOMAIN s |-> [id |-> s[i].id, text |-> 0]]

Texts(s) == [i \in DOMAIN s |-> [id |-> s[i].id, text |-> s[i].text]]
Without(s, ids) == SelectSeq(s, LAMBDA e : e.id \notin ids)

(***************************************************************************)
(* One freeze: prepare_pending_boundary_snapshot_for_run.  `prior` is the  *)
(* input of the record as it was loaded, before any attempt.               *)
(***************************************************************************)
NoFreeze == [version |-> 0, ids |-> <<>>, prior |-> {}, tried |-> 0]

\* What an attempt reads: the committed messages and the selection of s.
ReadFor(fz, s, current, run) ==
    [fz EXCEPT !.version = Len(committed), !.ids = IdsOf(Select(s, current, run))]

MergedInput(fz) == fz.prior \cup ToSet(fz.ids)

FreezeConflicts(fz, s, current, run) ==
    \/ fz.version # Len(committed)
    \/ fz.ids # IdsOf(Select(s, current, run))

\* The transaction: s are the pending entries, with those it appends.
Freezes(fz, s, current, run, status) ==
    LET taken == Select(s, current, run)
    IN /\ committed' = committed \o Texts(taken)
       /\ pending' = Without(s, IdSet(taken))
       /\ record' = [record EXCEPT ![run] = [status |-> status, input |-> MergedInput(fz)]]
       /\ latest' = run
       /\ takenBy' = [m \in Message |-> IF m \in IdSet(taken) THEN run ELSE takenBy[m]]

----------------------------------------------------------------------------
(***************************************************************************)
(* The run loop.  A step that goes on, stops or is cancelled checkpoints;  *)
(* then come the boundaries: what the inbox asks for (stage 1), and a look *)
(* at the pending messages without being asked (stage 2).                  *)
(***************************************************************************)
NoLoop == [run |-> None, pc |-> "idle", why |-> "none", stage |-> 0, messages |-> {},
           unread |-> FALSE, cached |-> {None}, cancelled |-> FALSE, fz |-> NoFreeze]

Active == loop.run # None
BoundaryOf(why) == IF why = "natural" THEN "OnNaturalEnd" ELSE "NextStep"
LoopStops ==
    /\ loop' = [NoLoop EXCEPT !.run = loop.run, !.pc = "closed"]
    /\ inbox' = <<>>

\* submit() claims its dispatch itself; nobody else does before its guard has passed.
IsClaimedInline(r) == r \in Foreground /\ req[r].pc = "claims"

\* A queued run starts; its context is loaded before, the latest run with it.
RunStarts(r) ==
    /\ ~Active /\ r \in queue /\ ~IsClaimedInline(r)
    /\ queue' = queue \ {r}
    /\ loop' = [NoLoop EXCEPT !.run = r, !.pc = "step",
                              !.messages = ToSet(Without(committed, {None})),
                              !.cached = IF latest = r THEN record[r].input ELSE {None}]
    /\ inbox' = <<>>
    /\ UNCHANGED <<pending, committed, record, latest, req, steps, userCalls, edited,
                   retracted, takenBy>>

\* persist_checkpoint takes the input of the cached record, if there is one.
CarriedInput ==
    IF loop.cached # {None} THEN loop.cached ELSE record[loop.run].input

Checkpoints(status, outputs) ==
    /\ committed' = committed \o outputs
    /\ record' = [record EXCEPT ![loop.run] = [status |-> status, input |-> CarriedInput]]
    /\ latest' = loop.run

Output == [id |-> None, text |-> 0]

\* execute_step and complete_step: on to the next step, or a stop condition.
StepCompletes(why) ==
    /\ loop.pc = "step" /\ steps < MaxSteps
    /\ steps' = steps + 1
    /\ Checkpoints("running", <<Output>>)
    /\ loop' = [loop EXCEPT !.pc = IF why = "cancel" THEN "ends" ELSE "drains",
                            !.why = why, !.unread = FALSE]
    /\ UNCHANGED <<pending, queue, inbox, req, userCalls, edited, retracted, takenBy>>

StepContinues == StepCompletes("continue")
StepMeetsStopCondition == StepCompletes("stop")
StepIsCancelled == loop.cancelled /\ StepCompletes("cancel")

StepEndsNaturally ==
    /\ loop.pc = "step"
    /\ loop' = [loop EXCEPT !.pc = "drains", !.why = "natural", !.unread = FALSE]
    /\ UNCHANGED <<pending, committed, record, latest, queue, inbox, req, steps, userCalls,
                   edited, retracted, takenBy>>

\* inbox.drain and stage_pending_messages.
DrainsInbox ==
    LET events == SelectSeq(inbox, LAMBDA p : p \in Event)
        staged == [i \in DOMAIN events |->
                     Entry(events[i], BoundaryOf(loop.why), loop.run)]
    IN /\ loop.pc = "drains"
       /\ inbox' = <<>>
       /\ pending' = pending \o staged
       /\ loop' = [loop EXCEPT !.pc = "reads", !.stage = IF inbox = <<>> THEN 2 ELSE 1,
                               !.fz = [NoFreeze EXCEPT !.prior = record[loop.run].input]]
       /\ UNCHANGED <<committed, record, latest, queue, req, steps, userCalls, edited,
                      retracted, takenBy>>

\* What follows a boundary that found something, and one that did not.
AfterFreeze == IF loop.stage = 1 /\ loop.why # "natural" THEN "reads" ELSE "step"
AfterNothing ==
    CASE loop.stage = 1 -> "reads"
      [] loop.why = "continue" -> "step"
      [] OTHER -> "ends"

LoopLooks ==
    LET fz == ReadFor(loop.fz, pending, BoundaryOf(loop.why), loop.run)
    IN /\ loop.pc = "reads"
       /\ loop' = IF fz.ids = <<>>
                  THEN [loop EXCEPT !.pc = AfterNothing, !.stage = 2, !.fz.tried = 0]
                  ELSE [loop EXCEPT !.pc = "writes", !.fz = fz]
       /\ UNCHANGED <<pending, committed, record, latest, queue, inbox, req, steps,
                      userCalls, edited, retracted, takenBy>>

LoopConflicts == FreezeConflicts(loop.fz, pending, BoundaryOf(loop.why), loop.run)
LastTry(fz) == fz.tried + 1 = MaxFreezeAttempts

\* Mutant: the failed attempt has already changed the record it started from.
RetriesFromOwnRecord ==
    /\ loop.pc = "writes" /\ LoopConflicts /\ ~LastTry(loop.fz)
    /\ loop' = [loop EXCEPT !.pc = "reads", !.fz.tried = @ + 1, !.fz.prior = MergedInput(loop.fz)]
    /\ UNCHANGED <<pending, committed, record, latest, queue, inbox, req, steps, userCalls,
                   edited, retracted, takenBy>>

LoopRetries ==
    /\ loop.pc = "writes" /\ LoopConflicts /\ ~LastTry(loop.fz)
    /\ loop' = [loop EXCEPT !.pc = "reads", !.fz.tried = @ + 1]
    /\ UNCHANGED <<pending, committed, record, latest, queue, inbox, req, steps, userCalls,
                   edited, retracted, takenBy>>

\* The working messages that a freeze adds: those the store returns.
FrozenMessages == ToSet(Texts(Select(pending, BoundaryOf(loop.why), loop.run)))

LoopFreezes ==
    /\ loop.pc = "writes" /\ ~LoopConflicts
    /\ Freezes(loop.fz, pending, BoundaryOf(loop.why), loop.run, record[loop.run].status)
    /\ loop' = [loop EXCEPT !.pc = AfterFreeze, !.stage = 2, !.unread = TRUE,
                            !.messages = @ \cup FrozenMessages,
                            !.fz = [NoFreeze EXCEPT !.prior = record'[loop.run].input]]
    /\ UNCHANGED <<queue, inbox, req, steps, userCalls, edited, retracted>>

\* The run ends with an error; its dispatch is tried again or given up.
LoopFails ==
    /\ loop.pc = "writes" /\ LoopConflicts /\ LastTry(loop.fz)
    /\ \E again \in SUBSET {loop.run} : queue' = queue \cup again
    /\ LoopStops
    /\ UNCHANGED <<pending, committed, record, latest, req, steps, userCalls, edited,
                   retracted, takenBy>>

\* The last checkpoint, after which the inbox is dropped with the loop.
RunEnds ==
    /\ loop.pc = "ends"
    /\ Checkpoints("done", <<>>)
    /\ LoopStops
    /\ UNCHANGED <<pending, queue, req, steps, userCalls, edited, retracted, takenBy>>

\* The worker is released afterwards.
WorkerIsReleased ==
    /\ loop.pc = "closed"
    /\ loop' = NoLoop
    /\ UNCHANGED <<pending, committed, record, latest, queue, inbox, req, steps, userCalls,
                   edited, retracted, takenBy>>

InboxIsOpen == Active /\ loop.pc # "closed"

TaskReports(e) ==
    /\ InboxIsOpen
    /\ e \notin ToSet(inbox) \cup IdSet(pending) \cup IdSet(committed) \cup retracted
    /\ inbox' = Append(inbox, e)
    /\ UNCHANGED <<pending, committed, record, latest, queue, loop, req, steps, userCalls,
                   edited, retracted, takenBy>>

----------------------------------------------------------------------------
(***************************************************************************)
(* Requests.                                                               *)
(***************************************************************************)
\* `early` and `left` are history: the message was delivered before its run came to a
\* boundary, behind nothing that the boundary would have to wait for; and the cleanup after
\* a wake-up that reached nobody failed.
NewRequest ==
    [pc |-> "new", target |-> None, fz |-> NoFreeze, answer |-> "none", early |-> FALSE,
     left |-> FALSE]

ReqAt(q, pc) == req[q].pc = pc
ReqGoto(q, pc) == req' = [req EXCEPT ![q].pc = pc]
Answers(q, answer) ==
    req' = [req EXCEPT ![q] = [NewRequest EXCEPT !.pc = "done", !.answer = answer,
                                                 !.target = IF q \in Live THEN req[q].target
                                                            ELSE None,
                                                 !.early = req[q].early,
                                                 !.left = req[q].left]]

\* The run a live request steers: that of the worker, if the request has reached the server
\* of the run, and the thread's latest otherwise.
RunningRuns ==
    {loop.run, IF record[latest].status = "running" THEN latest ELSE None}

LiveFindsRun(q) ==
    /\ ReqAt(q, "new") /\ q \in Live
    /\ \E r \in RunningRuns \ {None} :
         req' = [req EXCEPT ![q].pc = "delivers", ![q].target = r]
    /\ UNCHANGED <<pending, committed, record, latest, queue, loop, inbox, steps, userCalls,
                   edited, retracted, takenBy>>

LiveFindsNoRun(q) ==
    /\ ReqAt(q, "new") /\ q \in Live /\ None \in RunningRuns
    /\ ReqGoto(q, "prepares")
    /\ UNCHANGED <<pending, committed, record, latest, queue, loop, inbox, steps, userCalls,
                   edited, retracted, takenBy>>

LiveDelivers(q) ==
    /\ ReqAt(q, "delivers")
    /\ pending' = Append(pending, Entry(q, "NextStep", req[q].target))
    /\ req' = [req EXCEPT ![q].pc = "wakes",
                           ![q].early =
                               /\ loop.run = req[q].target /\ loop.pc \in {"step", "drains"}
                               /\ \A i \in DOMAIN pending :
                                    ~Blocks(pending[i], "NextStep", loop.run)]
    /\ UNCHANGED <<committed, record, latest, queue, loop, inbox, steps, userCalls, edited,
                   retracted, takenBy>>

Wake == "wake"
CanWake(q) == InboxIsOpen /\ loop.run = req[q].target

LiveWakes(q) ==
    /\ ReqAt(q, "wakes") /\ CanWake(q)
    /\ inbox' = Append(inbox, Wake)
    /\ \/ Answers(q, "running")
       \/ ReqGoto(q, "cleans")      \* the acknowledgement from another server is lost
    /\ UNCHANGED <<pending, committed, record, latest, queue, loop, steps, userCalls, edited,
                   retracted, takenBy>>

\* The run has no inbox any more, or its server does not listen yet, or not in time.
LiveWakesNobody(q) ==
    /\ ReqAt(q, "wakes")
    /\ ReqGoto(q, "cleans")
    /\ UNCHANGED <<pending, committed, record, latest, queue, loop, inbox, steps, userCalls,
                   edited, retracted, takenBy>>

\* The request to the server of the run fails.  Whether it was observed is not known, so the
\* caller gets the error, and what was appended stays.
LiveDeliveryFails(q) ==
    /\ ReqAt(q, "wakes")
    /\ inbox' \in {inbox} \cup {Append(inbox, w) : w \in IF CanWake(q) THEN {Wake} ELSE {}}
    /\ Answers(q, "failed")
    /\ UNCHANGED <<pending, committed, record, latest, queue, loop, steps, userCalls, edited,
                   retracted, takenBy>>

\* cleanup_appended_pending_messages: a message that is consumed by now stays so.
LiveCleansUp(q) ==
    /\ ReqAt(q, "cleans")
    /\ pending' = Without(pending, {q})
    /\ ReqGoto(q, "prepares")
    /\ UNCHANGED <<committed, record, latest, queue, loop, inbox, steps, userCalls, edited,
                   retracted, takenBy>>

\* A cleanup that fails is logged only; the request goes on to a run of its own.
LiveCleanupFails(q) ==
    /\ ReqAt(q, "cleans") /\ q \in IdSet(pending)
    /\ req' = [req EXCEPT ![q].pc = "prepares", ![q].left = TRUE]
    /\ UNCHANGED <<pending, committed, record, latest, queue, loop, inbox, steps, userCalls,
                   edited, retracted, takenBy>>

\* preflight_foreground_pending, with a message of its own at the end.
PassesPreflight(q) ==
    pending = <<>> \/ Select(Append(pending, Entry(q, "Interrupt", None)), "Interrupt", None) # <<>>

ForegroundIsBlocked(q) ==
    /\ ReqAt(q, "new") /\ q \in Foreground /\ ~PassesPreflight(q)
    /\ Answers(q, "blocked")
    /\ UNCHANGED <<pending, committed, record, latest, queue, loop, inbox, steps, userCalls,
                   edited, retracted, takenBy>>

ForegroundPasses(q) ==
    /\ ReqAt(q, "new") /\ q \in Foreground /\ PassesPreflight(q)
    /\ ReqGoto(q, "interrupts")
    /\ UNCHANGED <<pending, committed, record, latest, queue, loop, inbox, steps, userCalls,
                   edited, retracted, takenBy>>

\* The queued runs are superseded and the active one is cancelled.
ForegroundInterrupts(q) ==
    /\ ReqAt(q, "interrupts")
    /\ queue' = {}
    /\ record' = [r \in Run |-> IF r \in queue THEN [record[r] EXCEPT !.status = "done"]
                                ELSE record[r]]
    /\ loop' = [loop EXCEPT !.cancelled = Active]
    /\ req' = [req EXCEPT ![q].pc = "waits", ![q].target = loop.run]
    /\ UNCHANGED <<pending, committed, latest, inbox, steps, userCalls, edited, retracted,
                   takenBy>>

\* The run that was active is released, or the wait times out.
ForegroundWaits(q) ==
    /\ ReqAt(q, "waits")
    /\ \/ (~Active \/ loop.run # req[q].target) /\ ReqGoto(q, "prepares")
       \/ Active /\ loop.run = req[q].target /\ Answers(q, "refused")
    /\ UNCHANGED <<pending, committed, record, latest, queue, loop, inbox, steps, userCalls,
                   edited, retracted, takenBy>>

\* prepare_run_for_dispatch; its append lock is the server's, and each request may have
\* reached a server of its own.
OwnBoundary(q) == IF q \in Live THEN "NewRun" ELSE "Interrupt"
Appended(q) == Append(pending, Entry(q, OwnBoundary(q), None))

RequestLooks(q) ==
    LET fz == ReadFor(req[q].fz, Appended(q), OwnBoundary(q), q)
    IN /\ ReqAt(q, "prepares")
       /\ IF fz.ids = <<>> THEN Answers(q, "error")
          ELSE req' = [req EXCEPT ![q].pc = "writes", ![q].fz = fz]
       /\ UNCHANGED <<pending, committed, record, latest, queue, loop, inbox, steps,
                      userCalls, edited, retracted, takenBy>>

IsKnown(q) == q \in IdSet(pending) \cup IdSet(committed)
RequestConflicts(q) == FreezeConflicts(req[q].fz, Appended(q), OwnBoundary(q), q)

\* Mutant: what was appended before the selection was compared stays.
KeepsAppended(q) == Appended(q)

\* What the message was appended to when the transaction fails: nothing stays.
RolledBack(q) == pending

RequestIsRefused(q) ==
    /\ ReqAt(q, "writes") /\ req[q].fz.version = Len(committed) /\ IsKnown(q)
    /\ Answers(q, "error")
    /\ UNCHANGED <<pending, committed, record, latest, queue, loop, inbox, steps, userCalls,
                   edited, retracted, takenBy>>

RequestRetries(q) ==
    /\ ReqAt(q, "writes") /\ RequestConflicts(q)
    /\ req[q].fz.version = Len(committed) => ~IsKnown(q)
    /\ pending' = IF req[q].fz.version = Len(committed) THEN RolledBack(q) ELSE pending
    /\ IF LastTry(req[q].fz) THEN Answers(q, "error")
       ELSE req' = [req EXCEPT ![q].pc = "prepares", ![q].fz.tried = @ + 1]
    /\ UNCHANGED <<committed, record, latest, queue, loop, inbox, steps, userCalls, edited,
                   retracted, takenBy>>

\* A background run is answered when it is queued, a foreground one when it is claimed.
RequestFreezes(q) ==
    /\ ReqAt(q, "writes") /\ ~RequestConflicts(q) /\ ~IsKnown(q)
    /\ Freezes(req[q].fz, Appended(q), OwnBoundary(q), q, "created")
    /\ queue' = queue \cup {q}
    /\ IF q \in Live THEN Answers(q, "queued") ELSE ReqGoto(q, "claims")
    /\ UNCHANGED <<loop, inbox, steps, userCalls, edited, retracted>>

\* The inline claim fails, and the run is closed, if the thread has a run again.
ForegroundClaims(q) ==
    /\ ReqAt(q, "claims")
    /\ \/ /\ q \in queue /\ ~Active
          /\ Answers(q, "queued")
          /\ UNCHANGED <<queue, record>>
       \/ /\ q \notin queue \/ Active
          /\ Answers(q, "refused")
          /\ queue' = queue \ {q}
          /\ record' = [record EXCEPT ![q].status = "done"]
    /\ UNCHANGED <<pending, committed, latest, loop, inbox, steps, userCalls, edited,
                   retracted, takenBy>>

----------------------------------------------------------------------------
(***************************************************************************)
(* Users: update, retract and reorder of pending messages, each with the   *)
(* revision that the pending partition has (a call with another revision   *)
(* changes nothing).                                                       *)
(***************************************************************************)
UserCall == userCalls < MaxUserCalls /\ userCalls' = userCalls + 1

UserEdits(m) ==
    /\ UserCall /\ m \in IdSet(pending)
    /\ edited' = [edited EXCEPT ![m] = @ + 1]
    /\ pending' = [i \in DOMAIN pending |->
                     IF pending[i].id = m THEN [pending[i] EXCEPT !.text = @ + 1]
                     ELSE pending[i]]
    /\ UNCHANGED <<committed, record, latest, queue, loop, inbox, req, steps, retracted,
                   takenBy>>

UserRetracts(m) ==
    /\ UserCall /\ m \in IdSet(pending)
    /\ pending' = Without(pending, {m})
    /\ retracted' = retracted \cup {m}
    /\ UNCHANGED <<committed, record, latest, queue, loop, inbox, req, steps, edited, takenBy>>

UserReorders ==
    /\ UserCall /\ Len(pending) > 1
    /\ \E i \in DOMAIN pending, j \in DOMAIN pending :
         i < j /\ pending' = [pending EXCEPT ![i] = pending[j], ![j] = pending[i]]
    /\ UNCHANGED <<committed, record, latest, queue, loop, inbox, req, steps, edited,
                   retracted, takenBy>>

----------------------------------------------------------------------------
PendingInit ==
    /\ pending = <<>>
    /\ edited = [m \in Message |-> 0]
    /\ committed = <<[Output EXCEPT !.id = Root]>>
    /\ record = [r \in Run |-> IF r = Root THEN [status |-> "created", input |-> {Root}]
                               ELSE [status |-> "none", input |-> {}]]
    /\ latest = Root
    /\ queue = {Root}
    /\ loop = NoLoop
    /\ inbox = <<>>
    /\ req = [q \in Request |-> NewRequest]
    /\ steps = 0 /\ userCalls = 0
    /\ retracted = {}
    /\ takenBy = [m \in Message |-> IF m = Root THEN Root ELSE None]

LoopNext ==
    \/ \E r \in Run : RunStarts(r)
    \/ StepContinues \/ StepMeetsStopCondition \/ StepIsCancelled \/ StepEndsNaturally
    \/ DrainsInbox \/ LoopLooks \/ LoopRetries \/ LoopFreezes \/ LoopFails
    \/ RunEnds \/ WorkerIsReleased

RequestNext(q) ==
    \/ LiveFindsRun(q) \/ LiveFindsNoRun(q) \/ LiveDelivers(q)
    \/ LiveWakes(q) \/ LiveWakesNobody(q) \/ LiveDeliveryFails(q)
    \/ LiveCleansUp(q) \/ LiveCleanupFails(q)
    \/ ForegroundIsBlocked(q) \/ ForegroundPasses(q)
    \/ ForegroundInterrupts(q) \/ ForegroundWaits(q)
    \/ RequestLooks(q) \/ RequestIsRefused(q) \/ RequestRetries(q)
    \/ RequestFreezes(q) \/ ForegroundClaims(q)

PendingNext ==
    \/ LoopNext
    \/ \E q \in Request : RequestNext(q)
    \/ \E e \in Event : TaskReports(e)
    \/ \E m \in Message : UserEdits(m) \/ UserRetracts(m)
    \/ UserReorders

PendingSpec == PendingInit /\ [][PendingNext]_pendingVars

----------------------------------------------------------------------------
(***************************************************************************)
(* Properties.                                                             *)
(***************************************************************************)
\* Types, and the shape of the run loop: who is at a boundary has a run and a reason.
PendingTypeOK ==
    /\ IdSet(pending) \subseteq Message /\ IdSet(committed) \subseteq Message \cup {None}
    /\ \A r \in Run : record[r].status \in {"none", "created", "running", "done"}
    /\ queue \subseteq Run /\ loop.run \in Run \cup {None}
    /\ loop.pc \in {"drains", "reads", "writes", "ends"} => Active /\ loop.why # "none"
    /\ \A q \in Request : req[q].answer \in
            {"none", "running", "queued", "failed", "blocked", "refused", "error"}

\* Only messages that were frozen for a run are triggers in its record, whatever was
\* selected by attempts that conflicted (pending_delivery.rs:330-337).
NoPhantomTriggers ==
    \A r \in Run : \A m \in record[r].input : takenBy[m] = r

\* What a run consumes of others' messages is what the users last edited them to (its own it
\* sends again after a failed wake-up, and an edit before that is lost), and it works on
\* what was committed, although both were selected from an earlier read; and no message is
\* pending twice, consumed twice, or both.
ConsumedAsLastEdited ==
    LET consumed == Without(committed, {None})
    IN /\ \A c \in ToSet(consumed) :
            takenBy[c.id] # c.id => c.text = edited[c.id]
       /\ loop.messages \subseteq ToSet(consumed)
       /\ Cardinality(IdSet(consumed) \cup IdSet(pending)) = Len(consumed) + Len(pending)

\* A request is told the truth.  A steering message that was accepted waits for its run,
\* was consumed by it, or was taken back by a user, and so does one whose delivery failed,
\* in doubt: neither has a run of its own.  One that was queued was consumed by the run made
\* for it; and one that was turned down by the mailbox itself has left nothing behind that a
\* later run would consume (pending_delivery.rs:245-248), if no cleanup failed: then the run
\* it was meant to steer has it, or a user has taken it back.
AnswerIsTrue ==
    \A q \in Request :
       /\ req[q].answer \in {"running", "failed"} =>
            /\ q \in IdSet(pending) \/ takenBy[q] = req[q].target \/ q \in retracted
            /\ record[q].status = "none"
       /\ req[q].answer = "queued" => takenBy[q] = q
       /\ req[q].answer \in {"blocked", "refused", "error"} =>
            /\ ~req[q].left => q \notin IdSet(pending)
            /\ req[q].left => q \in IdSet(pending) \/ takenBy[q] = req[q].target
                              \/ q \in retracted

\* A steering message that was delivered before its run came to a boundary, behind nothing
\* that has to wait, is consumed by the run before it ends, if the run is not cancelled:
\* whether or not the wake-up has reached the inbox by then, and whatever comes meanwhile.
EarlyIsConsumed ==
    loop.pc = "ends" /\ loop.why # "cancel" /\ userCalls = 0 =>
       \A q \in Live : req[q].early /\ req[q].target = loop.run => q \notin IdSet(pending)

\* What the record of a run that has ended names as its input is all that was frozen for
\* it (pending_delivery.rs:395-401).  It does not hold: persist_checkpoint takes the input
\* from the record that was cached before the run consumed anything.
InputIsComplete ==
    \A r \in Run : record[r].status = "done" =>
       \A m \in Message : takenBy[m] = r => m \in record[r].input

\* A run does not end with messages that no step has seen (orchestrator.rs:334-336).  It
\* does not hold: a stop condition is looked at although the inbox brought messages.
ConsumedIsSeen ==
    loop.pc = "ends" /\ loop.why # "cancel" => ~loop.unread

\* No message of a run that is over is in front of those for the active run.  It does not
\* hold: a message that arrives after the last look stays, and blocks steering and submits.
NotBlockedByThePast ==
    \A i, j \in DOMAIN pending :
       i < j /\ Active /\ pending[j].target = loop.run => pending[i].target = loop.run
=============================================================================
