---------------------------- MODULE NatsMailbox ----------------------------
(***************************************************************************)
(* NatsMailboxStore (remo-stores/src/nats_mailbox): the mailbox store on   *)
(* NATS key-value buckets, for one thread.  A call is a sequence of reads  *)
(* and compare-and-set writes of separate keys (the dispatch records, the  *)
(* epoch, the claim guard, the dedupe lock, the index of the thread), so   *)
(* calls of several processes interleave, and any may stop half-way.       *)
(*                                                                         *)
(* A call reads a record together with the epoch; `fresh` is TRUE as long  *)
(* as no other call has written the record since, which is what the        *)
(* compare-and-set on its revision finds out.  Keys that are read and      *)
(* written in a row are one step.  Any call may use the claim token of a   *)
(* record.  Signals, the local read cache and the vacuum are left out.     *)
(***************************************************************************)
EXTENDS RunDispatch, FiniteSets, Sequences

CONSTANTS
    Dispatch,      \* dispatch ids of the thread
    Keyed,         \* those with a dedupe_key, the same for all
    None,          \* no dispatch
    Call,          \* concurrent calls of the store
    MaxEpoch,      \* bound: interrupts
    MaxTokens,     \* bound: claims that are tried
    MaxCrashes     \* bound: calls that stop half-way, outlast the grace, or whose write fails

ASSUME NatsAssumption ==
    /\ IsFiniteSet(Dispatch) /\ Keyed \subseteq Dispatch /\ None \notin Dispatch
    /\ MaxEpoch \in Nat /\ MaxTokens \in Nat /\ MaxCrashes \in Nat

VARIABLES
    records,    \* kv_dispatch
    epoch,      \* kv_epoch
    guard,      \* claim.<thread>
    lock,       \* dedupe.<thread>.<key>: its holder
    index,      \* idx.<thread>: ids of dispatches
    call,       \* what each call is doing
    tokens,     \* claim tokens that were made
    fence,      \* history: the epoch of the last interrupt that has returned
    known,      \* history: claimed dispatches that interrupts made known
    overtaken,  \* history: dispatches whose enqueue lost its lock, or its reply
    crashes

natsVars == <<records, epoch, guard, lock, index, call, tokens, fence, known, overtaken, crashes>>

StatusOf(d) == records[d].status
IsStale(d) == records[d].epoch < epoch
NoGuard == [holder |-> None, token |-> NoToken, lease |-> "released"]

Idle == [pc |-> "idle", d |-> None, kind |-> "none", fresh |-> FALSE, token |-> NoToken,
         epoch |-> 0, todo |-> <<>>, other |-> None, ids |-> {}, queued |-> {},
         claimed |-> {}, met |-> {}, active |-> None]

At(p, pc) == call[p].pc = pc
Of(p) == call[p].d

Becomes(p, c) == call' = [call EXCEPT ![p] = c]
Goto(p, pc) == Becomes(p, [call[p] EXCEPT !.pc = pc])
Returns(p) == Becomes(p, Idle)
Starts(p, c) == At(p, "idle") /\ Becomes(p, c)

\* A compare-and-set of record d by p that succeeds; p goes on as c.
Writes(p, r, c) ==
    /\ call[p].fresh
    /\ records' = [records EXCEPT ![Of(p)] = r]
    /\ call' = [q \in Call |-> IF q = p THEN c
                               ELSE IF Of(q) = Of(p) THEN [call[q] EXCEPT !.fresh = FALSE]
                               ELSE call[q]]

\* One that finds another revision: the call starts over, or gives up.
Conflicts(p, c) == ~call[p].fresh /\ Becomes(p, c) /\ UNCHANGED records

\* The lock gets another revision, which p makes and goes on as c.
PutsLock(p, holder, c) ==
    /\ lock' = holder
    /\ call' = [q \in Call |-> IF q = p THEN c
                               ELSE IF call[q].pc \in {"holder", "purge"}
                               THEN [call[q] EXCEPT !.fresh = FALSE]
                               ELSE call[q]]

\* What a call does after its write, in this order.
Then(p, todo) ==
    [call[p] EXCEPT !.pc = "after", !.todo = todo, !.fresh = FALSE,
                    !.kind = IF @ = "interrupt" THEN @ ELSE "after"]

\* Mutant: a dispatch that is queued again leaves the index as well.
AlwaysCleansUp(terminal) == <<"release", "unlock", "unindex">>

AfterEnd(terminal) ==
    IF terminal THEN <<"release", "unlock", "unindex">> ELSE <<"release">>

Reads(p, d, kind, pc) ==
    [Idle EXCEPT !.pc = pc, !.d = d, !.kind = kind, !.fresh = TRUE,
                 !.token = records[d].token]

\* A read that finds a record of an old epoch.
FindsStale(p, d) ==
    [Reads(p, d, "stale", "stale") EXCEPT !.epoch = epoch]

----------------------------------------------------------------------------
(* enqueue.                                                                 *)

Enqueuing(d) == \E p \in Call : Of(p) = d /\ call[p].kind = "enqueue"

\* An enqueue that has its lock, and has not put its record yet.
UnderWay(d) == \E p \in Call : Of(p) = d /\ call[p].pc \in {"index", "put"}

EnqueueReadsEpoch(p, d) ==
    /\ StatusOf(d) = "Absent" /\ ~Enqueuing(d)
    /\ Starts(p, [Idle EXCEPT !.pc = IF d \in Keyed THEN "lock" ELSE "index",
                              !.d = d, !.kind = "enqueue", !.epoch = epoch])
    /\ UNCHANGED <<records, epoch, guard, lock, index, tokens, fence, known, overtaken, crashes>>

Locks(p) ==
    /\ At(p, "lock")
    /\ IF lock = None
       THEN /\ PutsLock(p, Of(p), [call[p] EXCEPT !.pc = "index"])
            /\ overtaken' = overtaken \ {Of(p)}
       ELSE /\ UNCHANGED <<lock, overtaken>>
            /\ Becomes(p, [call[p] EXCEPT !.pc = "holder", !.other = lock, !.fresh = TRUE])
    /\ UNCHANGED <<records, epoch, guard, index, tokens, fence, known, crashes>>

\* Mutant: a queued holder has lost its lock, of whatever epoch it is.
LostAtEpoch(h) == StatusOf(h) \in {"Absent", "Queued"} \cup Terminal

\* reconcile_dedupe_lock: the holder is gone.
HolderIsGone(h) ==
    \/ StatusOf(h) \in {"Absent"} \cup Terminal
    \/ StatusOf(h) = "Queued" /\ IsStale(h)

\* A lock without a record is left alone while it is young ...
ReadsHolder(p) ==
    LET h == call[p].other
    IN /\ At(p, "holder")
       /\ \/ HolderIsGone(h) /\ ~UnderWay(h) /\ Goto(p, "purge")
          \/ (HolderIsGone(h) => StatusOf(h) = "Absent") /\ Returns(p)
       /\ UNCHANGED <<records, epoch, guard, lock, index, tokens, fence, known, overtaken, crashes>>

\* ... and that is all the code can tell: the lock may be of an enqueue that
\* takes longer than the grace.
OvertakesHolder(p) ==
    LET h == call[p].other
    IN /\ At(p, "holder") /\ HolderIsGone(h) /\ UnderWay(h)
       /\ crashes < MaxCrashes /\ crashes' = crashes + 1
       /\ overtaken' = overtaken \cup {h}
       /\ Goto(p, "purge")
       /\ UNCHANGED <<records, epoch, guard, lock, index, tokens, fence, known>>

PurgesLock(p) ==
    /\ At(p, "purge")
    /\ LET again == [call[p] EXCEPT !.pc = "lock", !.other = None, !.fresh = FALSE]
       IN IF call[p].fresh THEN PutsLock(p, None, again)
          ELSE UNCHANGED lock /\ Becomes(p, IF lock = None THEN again ELSE Idle)
    /\ UNCHANGED <<records, epoch, guard, index, tokens, fence, known, overtaken, crashes>>

AppendsIndex(p) ==
    /\ At(p, "index")
    /\ index' = index \cup {Of(p)}
    /\ Goto(p, "put")
    /\ UNCHANGED <<records, epoch, guard, lock, tokens, fence, known, overtaken, crashes>>

PutsRecord(p) ==
    /\ At(p, "put")
    /\ records' = [records EXCEPT ![Of(p)] = PrepareForEnqueue(call[p].epoch, TRUE)]
    /\ Returns(p)
    /\ UNCHANGED <<epoch, guard, lock, index, tokens, fence, known, overtaken, crashes>>

\* The append or the put fails, or only its reply is lost.  The caller gets an
\* error after the lock has been given back; where nothing was stored it may
\* try the same dispatch again.
AppendFails(p) ==
    /\ At(p, "index")
    /\ index' \in {index, index \cup {Of(p)}}
    /\ Becomes(p, [call[p] EXCEPT !.pc = "after", !.todo = <<"unlock">>])
    /\ UNCHANGED <<records, overtaken>>

PutFails(p) ==
    /\ At(p, "put")
    /\ \/ /\ records' = [records EXCEPT ![Of(p)] = PrepareForEnqueue(call[p].epoch, TRUE)]
          /\ overtaken' = overtaken \cup {Of(p)}
          /\ Becomes(p, Then(p, <<"unlock">>))
       \/ /\ Becomes(p, [call[p] EXCEPT !.pc = "after", !.todo = <<"unlock">>])
          /\ UNCHANGED <<records, overtaken>>
    /\ UNCHANGED index

EnqueueFails(p) ==
    /\ AppendFails(p) \/ PutFails(p)
    /\ crashes < MaxCrashes
    /\ crashes' = crashes + 1
    /\ UNCHANGED <<epoch, guard, lock, tokens, fence, known>>

----------------------------------------------------------------------------
(* claim and claim_dispatch.                                                *)

\* Mutant: the epoch is not looked at.
ClaimLoadsOnly(p, d) ==
    /\ StatusOf(d) = "Queued"
    /\ Starts(p, Reads(p, d, "claim", "guard"))
    /\ UNCHANGED <<records, epoch, guard, lock, index, tokens, fence, known, overtaken, crashes>>

ClaimLoads(p, d) ==
    /\ StatusOf(d) = "Queued"
    /\ Starts(p, IF IsStale(d) THEN FindsStale(p, d) ELSE Reads(p, d, "claim", "guard"))
    /\ UNCHANGED <<records, epoch, guard, lock, index, tokens, fence, known, overtaken, crashes>>

\* claim_guard::acquire
AcquiresGuard(p) ==
    /\ At(p, "guard")
    /\ IF guard.lease = "live" \/ tokens = MaxTokens
       THEN Returns(p) /\ UNCHANGED <<guard, tokens>>
       ELSE /\ tokens' = tokens + 1
            /\ guard' = [holder |-> Of(p), token |-> tokens', lease |-> "live"]
            /\ Becomes(p, [call[p] EXCEPT !.pc = "claim", !.token = tokens'])
    /\ UNCHANGED <<records, epoch, lock, index, fence, known, overtaken, crashes>>

\* The lease of a record is the one its call put into the guard.
LeaseOf(token) ==
    IF guard.token = token /\ guard.lease = "live" THEN "live" ELSE "lapsed"

WritesClaim(p) ==
    LET r == ClaimedWith(records[Of(p)], call[p].token)
    IN /\ At(p, "claim")
       /\ \/ Writes(p, [r EXCEPT !.lease = LeaseOf(call[p].token)], Idle)
          \/ Conflicts(p, Then(p, <<"release">>))
       /\ UNCHANGED <<epoch, guard, lock, index, tokens, fence, known, overtaken, crashes>>

\* A record of an old epoch is superseded by whoever meets it.
SupersedesStale(p) ==
    /\ At(p, "stale")
    /\ \/ Writes(p, MarkSupersededAtEpoch(records[Of(p)], call[p].epoch),
                 Then(p, IF call[p].token = NoToken THEN <<"unlock", "unindex">>
                         ELSE AfterEnd(TRUE)))
       \/ Conflicts(p, Idle)
    /\ UNCHANGED <<epoch, guard, lock, index, tokens, fence, known, overtaken, crashes>>

----------------------------------------------------------------------------
(* The calls of a claim's holder, the reclaim of its lease, and cancel.     *)

\* record_run_result writes another field, and is otherwise like "start".
Kind == {"start", "ack", "nack", "dead", "supersede"}

SettleLoads(p, d, kind) ==
    /\ StatusOf(d) = "Claimed"
    /\ Starts(p, IF IsStale(d) /\ kind # "supersede" THEN FindsStale(p, d)
                 ELSE [Reads(p, d, kind, "settle") EXCEPT
                         !.epoch = IF kind = "supersede" THEN epoch ELSE 0])
    /\ UNCHANGED <<records, epoch, guard, lock, index, tokens, fence, known, overtaken, crashes>>

\* A supersede takes the epoch of the thread that it read.
Settled(r, kind, now) ==
    CASE kind = "start" -> DispatchStarted(r)
      [] kind = "ack" -> MarkAcked(r)
      [] kind = "nack" -> MarkNackResult(r, TRUE)
      [] kind = "dead" -> MarkDeadLetter(r)
      [] kind = "supersede" -> MarkSupersededAtEpoch(r, now)

\* cas_update, and what its caller does when it has succeeded.
WritesSettled(p) ==
    LET r == Settled(records[Of(p)], call[p].kind, call[p].epoch)
        next == IF call[p].kind = "start" THEN Idle
                ELSE Then(p, AfterEnd(r.status \in Terminal))
    IN /\ At(p, "settle")
       /\ Writes(p, r, next) \/ Conflicts(p, Idle)
       /\ UNCHANGED <<epoch, guard, lock, index, tokens, fence, known, overtaken, crashes>>

RenewLoads(p, d) ==
    /\ StatusOf(d) = "Claimed"
    /\ Starts(p, IF IsStale(d) THEN FindsStale(p, d) ELSE Reads(p, d, "renew", "extend"))
    /\ UNCHANGED <<records, epoch, guard, lock, index, tokens, fence, known, overtaken, crashes>>

HoldsGuard(p) == guard.holder = Of(p) /\ guard.token = call[p].token

\* claim_guard::extend
ExtendsGuard(p) ==
    /\ At(p, "extend")
    /\ IF HoldsGuard(p)
       THEN guard' = [guard EXCEPT !.lease = "live"] /\ Goto(p, "renew")
       ELSE UNCHANGED guard /\ Returns(p)
    /\ UNCHANGED <<records, epoch, lock, index, tokens, fence, known, overtaken, crashes>>

WritesRenewed(p) ==
    LET r == LeaseExtended(records[Of(p)])
    IN /\ At(p, "renew")
       /\ Writes(p, [r EXCEPT !.lease = LeaseOf(call[p].token)], Idle) \/ Conflicts(p, Idle)
       /\ UNCHANGED <<epoch, guard, lock, index, tokens, fence, known, overtaken, crashes>>

ReclaimLoads(p, d) ==
    /\ StatusOf(d) = "Claimed" /\ records[d].lease = "lapsed"
    /\ Starts(p, IF IsStale(d) THEN FindsStale(p, d)
                 ELSE Reads(p, d, "reclaim", "reclaim"))
    /\ UNCHANGED <<records, epoch, guard, lock, index, tokens, fence, known, overtaken, crashes>>

WritesReclaimed(p) ==
    LET r == MarkExpiredLease(records[Of(p)])
    IN /\ At(p, "reclaim")
       /\ Writes(p, r, Then(p, AfterEnd(r.status \in Terminal))) \/ Conflicts(p, Idle)
       /\ UNCHANGED <<epoch, guard, lock, index, tokens, fence, known, overtaken, crashes>>

CancelLoads(p, d) ==
    /\ StatusOf(d) = "Queued"
    /\ Starts(p, Reads(p, d, "cancel", "cancel"))
    /\ UNCHANGED <<records, epoch, guard, lock, index, tokens, fence, known, overtaken, crashes>>

WritesCancelled(p) ==
    /\ At(p, "cancel")
    /\ \/ Writes(p, MarkCancelled(records[Of(p)]), Then(p, <<"unlock", "unindex">>))
       \/ Conflicts(p, Idle)
    /\ UNCHANGED <<epoch, guard, lock, index, tokens, fence, known, overtaken, crashes>>

----------------------------------------------------------------------------
(* What follows a write.                                                    *)

AfterTodo(p) ==
    LET c == [call[p] EXCEPT !.todo = Tail(@)]
    IN IF c.todo # <<>> THEN c
       ELSE IF c.kind = "interrupt" THEN [c EXCEPT !.pc = "each", !.d = None]
       ELSE Idle

Todo(p, what) == At(p, "after") /\ Head(call[p].todo) = what

\* Mutant: whoever holds the guard loses it.
ReleasesAny(p) ==
    /\ Todo(p, "release")
    /\ guard' = [guard EXCEPT !.lease = "released"]
    /\ Becomes(p, AfterTodo(p))
    /\ UNCHANGED <<records, epoch, lock, index, tokens, fence, known, overtaken, crashes>>

\* claim_guard::release
ReleasesGuard(p) ==
    /\ Todo(p, "release")
    /\ guard' = IF HoldsGuard(p) THEN [guard EXCEPT !.lease = "released"] ELSE guard
    /\ Becomes(p, AfterTodo(p))
    /\ UNCHANGED <<records, epoch, lock, index, tokens, fence, known, overtaken, crashes>>

\* release_dedupe_lock
ReleasesLock(p) ==
    /\ Todo(p, "unlock")
    /\ IF lock = Of(p) THEN PutsLock(p, None, AfterTodo(p))
       ELSE UNCHANGED lock /\ Becomes(p, AfterTodo(p))
    /\ UNCHANGED <<records, epoch, guard, index, tokens, fence, known, overtaken, crashes>>

\* cleanup_thread_index
RemovesFromIndex(p) ==
    /\ Todo(p, "unindex")
    /\ index' = index \ {Of(p)}
    /\ Becomes(p, AfterTodo(p))
    /\ UNCHANGED <<records, epoch, guard, lock, tokens, fence, known, overtaken, crashes>>

----------------------------------------------------------------------------
(* interrupt.                                                               *)

BumpsEpoch(p) ==
    /\ epoch < MaxEpoch
    /\ epoch' = epoch + 1
    /\ Starts(p, [Idle EXCEPT !.pc = "list", !.kind = "interrupt", !.epoch = epoch'])
    /\ UNCHANGED <<records, guard, lock, index, tokens, fence, known, overtaken, crashes>>

ListsIndex(p) ==
    /\ At(p, "list")
    /\ Becomes(p, [call[p] EXCEPT !.pc = "scan", !.ids = index])
    /\ UNCHANGED <<records, epoch, guard, lock, index, tokens, fence, known, overtaken, crashes>>

\* load_thread_dispatches, one record after the other; those that are neither
\* queued nor claimed do not matter.
ScansRecord(p, d) ==
    /\ At(p, "scan") /\ d \in call[p].ids
    /\ Becomes(p, [call[p] EXCEPT
          !.ids = @ \ {d},
          !.queued = IF StatusOf(d) = "Queued" THEN @ \cup {d} ELSE @,
          !.claimed = IF StatusOf(d) = "Claimed" THEN @ \cup {d} ELSE @,
          !.met = IF StatusOf(d) = "Claimed" THEN @ \cup {d} ELSE @])
    /\ UNCHANGED <<records, epoch, guard, lock, index, tokens, fence, known, overtaken, crashes>>

ReadsGuard(p) ==
    /\ At(p, "scan") /\ call[p].ids = {}
    /\ IF guard.lease = "live"
       THEN Becomes(p, [call[p] EXCEPT !.pc = "look", !.other = guard.holder])
       ELSE Goto(p, "each")
    /\ UNCHANGED <<records, epoch, guard, lock, index, tokens, fence, known, overtaken, crashes>>

LooksAtHolder(p) ==
    /\ At(p, "look")
    /\ Becomes(p, [call[p] EXCEPT !.pc = "each",
          !.active = IF StatusOf(call[p].other) = "Claimed" THEN call[p].other ELSE @])
    /\ UNCHANGED <<records, epoch, guard, lock, index, tokens, fence, known, overtaken, crashes>>

\* A claim that was seen is the active one, unless the guard is another's.
TakesClaimed(p, d) ==
    /\ At(p, "each") /\ d \in call[p].claimed
    /\ Becomes(p, [call[p] EXCEPT !.claimed = @ \ {d},
          !.active = IF call[p].other \in {None, d} THEN d ELSE @])
    /\ UNCHANGED <<records, epoch, guard, lock, index, tokens, fence, known, overtaken, crashes>>

\* supersede reads a record that was queued again.
TriesQueued(p, d) ==
    /\ At(p, "each") /\ d \in call[p].queued
    /\ LET c == [call[p] EXCEPT !.queued = @ \ {d}]
       IN Becomes(p, IF StatusOf(d) = "Claimed"
                     THEN [c EXCEPT !.active = d, !.met = @ \cup {d}]
                     ELSE IF StatusOf(d) = "Queued" /\ records[d].epoch < call[p].epoch
                     THEN [c EXCEPT !.pc = "supersede", !.d = d, !.fresh = TRUE]
                     ELSE c)
    /\ UNCHANGED <<records, epoch, guard, lock, index, tokens, fence, known, overtaken, crashes>>

Supersedes(p) ==
    /\ At(p, "supersede")
    /\ \/ Writes(p, MarkSupersededAtEpoch(records[Of(p)], call[p].epoch),
                 Then(p, <<"unindex", "unlock">>))
       \/ Conflicts(p, [call[p] EXCEPT !.pc = "each", !.d = None,
                                       !.queued = @ \cup {Of(p)}])
    /\ UNCHANGED <<epoch, guard, lock, index, tokens, fence, known, overtaken, crashes>>

\* It returns one active dispatch.  If it met one claim only, that is known
\* by being returned.
InterruptReturns(p) ==
    /\ At(p, "each") /\ call[p].queued \cup call[p].claimed = {}
    /\ fence' = IF call[p].epoch > fence THEN call[p].epoch ELSE fence
    /\ known' = known \cup (IF \E d \in Dispatch : call[p].met = {d}
                           THEN {call[p].active} \ {None} ELSE call[p].met)
    /\ Returns(p)
    /\ UNCHANGED <<records, epoch, guard, lock, index, tokens, overtaken, crashes>>

----------------------------------------------------------------------------
(* Time and failure.                                                        *)

RecordLapses(d) ==
    /\ records[d].lease = "live"
    /\ records' = [records EXCEPT ![d].lease = "lapsed"]
    /\ UNCHANGED <<epoch, guard, lock, index, call, tokens, fence, known, overtaken, crashes>>

\* The guard is extended before its record, so it never lapses before it.
GuardLapses ==
    /\ guard.lease = "live"
    /\ ~\E d \in Dispatch : records[d].token = guard.token /\ records[d].lease = "live"
    /\ guard' = [guard EXCEPT !.lease = "lapsed"]
    /\ UNCHANGED <<records, epoch, lock, index, call, tokens, fence, known, overtaken, crashes>>

Crashes(p) ==
    /\ ~At(p, "idle") /\ crashes < MaxCrashes
    /\ crashes' = crashes + 1
    /\ Returns(p)
    /\ UNCHANGED <<records, epoch, guard, lock, index, tokens, fence, known, overtaken>>

----------------------------------------------------------------------------
NatsInit ==
    /\ records = [d \in Dispatch |-> Blank("Absent")]
    /\ epoch = 0 /\ guard = NoGuard /\ lock = None /\ index = {}
    /\ call = [p \in Call |-> Idle]
    /\ tokens = NoToken /\ fence = 0 /\ known = {} /\ overtaken = {} /\ crashes = 0

EnqueueStep(p) ==
    \/ \E d \in Dispatch : EnqueueReadsEpoch(p, d)
    \/ Locks(p) \/ ReadsHolder(p) \/ OvertakesHolder(p) \/ PurgesLock(p)
    \/ AppendsIndex(p) \/ PutsRecord(p) \/ EnqueueFails(p)

ClaimStep(p) ==
    \/ \E d \in Dispatch : ClaimLoads(p, d)
    \/ AcquiresGuard(p) \/ WritesClaim(p) \/ SupersedesStale(p)

HolderStep(p) ==
    \/ \E d \in Dispatch :
          \/ \E kind \in Kind : SettleLoads(p, d, kind)
          \/ RenewLoads(p, d) \/ ReclaimLoads(p, d) \/ CancelLoads(p, d)
    \/ WritesSettled(p) \/ ExtendsGuard(p) \/ WritesRenewed(p) \/ WritesReclaimed(p)
    \/ WritesCancelled(p)

AfterStep(p) == ReleasesGuard(p) \/ ReleasesLock(p) \/ RemovesFromIndex(p)

InterruptStep(p) ==
    \/ BumpsEpoch(p) \/ ListsIndex(p) \/ ReadsGuard(p) \/ LooksAtHolder(p)
    \/ \E d \in Dispatch : ScansRecord(p, d) \/ TakesClaimed(p, d) \/ TriesQueued(p, d)
    \/ Supersedes(p) \/ InterruptReturns(p)

NatsNext ==
    \/ \E p \in Call : EnqueueStep(p) \/ ClaimStep(p) \/ HolderStep(p) \/ AfterStep(p)
                       \/ InterruptStep(p) \/ Crashes(p)
    \/ \E d \in Dispatch : RecordLapses(d)
    \/ GuardLapses

NatsSpec == NatsInit /\ [][NatsNext]_natsVars

----------------------------------------------------------------------------
(* Properties.                                                              *)

\* Types, and each record is one that validate_for_persist accepts.
NatsTypeOK ==
    /\ \A d \in Dispatch : records[d] \in DispatchRecord /\ ValidForPersist(records[d])
    /\ epoch \in 0..MaxEpoch /\ fence \in 0..epoch
    /\ guard.holder \in Dispatch \cup {None} /\ guard.lease \in {"live", "lapsed", "released"}
    /\ lock \in Keyed \cup {None} /\ index \subseteq Dispatch
    /\ known \subseteq Dispatch /\ overtaken \subseteq Dispatch
    /\ \A p \in Call : call[p].d \in Dispatch \cup {None}

LiveClaim(d) == StatusOf(d) = "Claimed" /\ records[d].lease = "live"

\* However the calls interleave and wherever one of them dies, a thread has at
\* most one claim whose lease is alive, and the guard of the thread is its.
OneLiveClaim ==
    \A d \in Dispatch : LiveClaim(d) =>
        guard = [holder |-> d, token |-> records[d].token, lease |-> "live"]

\* Once an interrupt has returned, each live claim of an older epoch is one
\* that an interrupt has met: no call that was under way starts another of the
\* dispatches it meant to fence.  And if that is the only claim it met, it has
\* returned it as active, for its caller to cancel.
InterruptFences ==
    \A d \in Dispatch :
        LiveClaim(d) /\ records[d].epoch < fence => d \in known

\* Two dispatches with one dedupe key are both current and unfinished only if
\* the enqueue of one of them was taken for dead between its lock and its
\* record, or was told that its put failed although it had not: nothing else
\* that deletes the key, and no call that dies on its way, lets a second one in.
DedupeKeyUnique ==
    \A d, e \in Keyed :
        /\ StatusOf(d) \in Active /\ StatusOf(e) \in Active
        /\ ~IsStale(d) /\ ~IsStale(e)
        /\ {d, e} \cap overtaken = {}
        => d = e

\* Every dispatch that waits or runs is in the index of its thread, where
\* claims and interrupts look for it.
IndexCoversActive == \A d \in Dispatch : StatusOf(d) \in Active => d \in index

\* What enqueue says of its lock (ops_write.rs:29-33): of the enqueues with one
\* key, one gets on.  It does not hold: see `overtaken`.
DedupeIsRaceFree ==
    \A d, e \in Keyed :
        /\ StatusOf(d) \in Active /\ StatusOf(e) \in Active
        /\ ~IsStale(d) /\ ~IsStale(e)
        => d = e

\* What reconcile_dedupe_lock says of its key: a claimed holder keeps it.
ClaimedKeepsItsKey ==
    \A d, e \in Keyed :
        StatusOf(d) = "Claimed" /\ StatusOf(e) \in Active => d = e

\* A live guard belongs to a claim, or to a call that goes on with it.
GuardIsOfClaim ==
    guard.lease = "live" =>
        \/ LiveClaim(guard.holder) /\ records[guard.holder].token = guard.token
        \/ \E p \in Call : Of(p) = guard.holder
=============================================================================
