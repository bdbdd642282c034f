---------------------------- MODULE MailboxStore ----------------------------
(***************************************************************************)
(* InMemoryMailboxStore (remo-stores/src/memory_mailbox.rs): the durable   *)
(* queue of run dispatches shared by every mailbox process.  Each action   *)
(* is one store call that changes state; it holds the `dispatches` lock    *)
(* from its first read to its last write, so it is atomic.  A call that    *)
(* returns an error, None or false without writing is a stuttering step.   *)
(*                                                                         *)
(* The callers of Next are arbitrary: any caller may present any token     *)
(* ever issued for a dispatch, at any time.  MailboxService restricts them *)
(* to what the mailbox service does.                                       *)
(***************************************************************************)
EXTENDS RunDispatch, FiniteSets

CONSTANTS
    Dispatch,       \* dispatch ids (fresh UUIDs)
    Thread,         \* thread ids
    ThreadOf,       \* the thread of a dispatch
    Rank,           \* (priority, created_at) of a dispatch, as one number
    DedupeOf,       \* dedupe_key of a dispatch
    NoKey,          \* the dedupe_key `None`
    ClaimLimit,     \* `limit` of claim(); 1 in production
    ReclaimLimit,   \* `limit` of reclaim_expired_leases()
    Results,        \* the run results that callers record
    MaxEpoch        \* bound: interrupts of a thread that are explored

ASSUME StoreAssumption ==
    /\ IsFiniteSet(Dispatch)
    /\ ThreadOf \in [Dispatch -> Thread]
    /\ Rank \in [Dispatch -> Nat]
    /\ ClaimLimit \in Nat \ {0}
    /\ ReclaimLimit \in Nat \ {0}
    /\ MaxEpoch \in Nat
    /\ Results \subseteq RunStatus

VARIABLES
    dispatches,     \* dispatch id -> record
    epoch,          \* thread -> current_dispatch_epoch (0 when no entry)
    claims,         \* history: dispatch id -> number of claim tokens issued
    fenced          \* history: dispatches that were active at an interrupt

storeVars == <<dispatches, epoch, claims, fenced>>

StatusOf(d) == dispatches[d].status
IsStored(d) == StatusOf(d) \in Stored
IsClaimed(d) == StatusOf(d) = "Claimed"
IsQueued(d) == StatusOf(d) = "Queued"
CurrentEpoch(d) == epoch[ThreadOf[d]]
IsStale(d) == dispatches[d].epoch < CurrentEpoch(d)

\* Taking a claim for one only once its run was started.
ThreadHasStartedClaim(t) ==
    \E d \in Dispatch :
        ThreadOf[d] = t /\ IsClaimed(d) /\ dispatches[d].run # NoRun

ThreadHasClaim(t) == \E d \in Dispatch : ThreadOf[d] = t /\ IsClaimed(d)

StoreTypeOK ==
    /\ dispatches \in [Dispatch -> DispatchRecord]
    /\ epoch \in [Thread -> Nat]
    /\ claims \in [Dispatch -> Nat]
    /\ fenced \in SUBSET Dispatch

StoreInit ==
    /\ dispatches = [d \in Dispatch |-> Blank("Absent")]
    /\ epoch = [t \in Thread |-> 0]
    /\ claims = [d \in Dispatch |-> 0]
    /\ fenced = {}

\* Write record r as dispatch d, and nothing else.
Put(d, r) ==
    /\ dispatches' = [dispatches EXCEPT ![d] = r]
    /\ UNCHANGED <<epoch, claims, fenced>>

-----------------------------------------------------------------------------
(* Enqueue, claim and cancel.                                              *)

HasLiveDuplicate(d) ==
    /\ DedupeOf[d] # NoKey
    /\ \E o \in Dispatch : /\ ThreadOf[o] = ThreadOf[d]
                           /\ DedupeOf[o] = DedupeOf[d]
                           /\ StatusOf(o) \in Active

Enqueue(d, available) ==
    /\ ~HasLiveDuplicate(d)
    /\ Put(d, PrepareForEnqueue(CurrentEpoch(d), available))

Eligible(t) ==
    {d \in Dispatch : /\ ThreadOf[d] = t /\ IsQueued(d)
                      /\ ~IsStale(d) /\ dispatches[d].available}

\* The first ClaimLimit of the eligible dispatches in Rank order, ties in any
\* order (the sort is over the iteration order of a HashMap).
FirstInRank(S, batch) ==
    /\ Cardinality(batch) = IF Cardinality(S) < ClaimLimit
                            THEN Cardinality(S) ELSE ClaimLimit
    /\ \A b \in batch, o \in S \ batch : Rank[b] <= Rank[o]

Claim(t) ==
    \E batch \in SUBSET Eligible(t) :
        /\ IF ThreadHasClaim(t) THEN batch = {}
                                ELSE FirstInRank(Eligible(t), batch)
        /\ dispatches' = [d \in Dispatch |->
              IF ThreadOf[d] = t /\ IsQueued(d) /\ IsStale(d)
              THEN MarkSupersededAtEpoch(dispatches[d], epoch[t])
              ELSE IF d \in batch THEN ClaimedWith(dispatches[d], claims[d] + 1)
              ELSE dispatches[d]]
        /\ claims' = [d \in Dispatch |->
              IF d \in batch THEN claims[d] + 1 ELSE claims[d]]
        /\ UNCHANGED <<epoch, fenced>>

\* Claims one known dispatch whatever its available_at.
ClaimDispatch(d) ==
    /\ IsQueued(d)
    /\ IF IsStale(d)
       THEN Put(d, MarkSupersededAtEpoch(dispatches[d], CurrentEpoch(d)))
       ELSE /\ ~ThreadHasClaim(ThreadOf[d])
            /\ dispatches' = [dispatches EXCEPT
                                 ![d] = ClaimedWith(@, claims[d] + 1)]
            /\ claims' = [claims EXCEPT ![d] = @ + 1]
            /\ UNCHANGED <<epoch, fenced>>

Cancel(d) == IsQueued(d) /\ Put(d, MarkCancelled(dispatches[d]))

-----------------------------------------------------------------------------
(* The calls of a claim holder.  Each presents a token; a claim of an older *)
(* epoch is superseded instead of being served.                            *)

HasToken(d, token) == IsStored(d) /\ dispatches[d].token = token

\* A holder's call that is served although its thread was interrupted.
PutWithoutFence(d, token, r) == HasToken(d, token) /\ Put(d, r)

PutIfCurrent(d, token, r) ==
    /\ HasToken(d, token)
    /\ Put(d, IF IsStale(d)
              THEN MarkSupersededAtEpoch(dispatches[d], CurrentEpoch(d))
              ELSE r)

Ack(d, token) == PutIfCurrent(d, token, MarkAcked(dispatches[d]))

RecordDispatchStart(d, token) ==
    IsClaimed(d) /\ PutIfCurrent(d, token, DispatchStarted(dispatches[d]))

RecordRunResult(d, token, result) ==
    /\ IsClaimed(d)
    /\ PutIfCurrent(d, token, RunResultRecorded(dispatches[d], result))

Nack(d, token, available) ==
    PutIfCurrent(d, token, MarkNackResult(dispatches[d], available))

DeadLetter(d, token) == PutIfCurrent(d, token, MarkDeadLetter(dispatches[d]))

ExtendLease(d, token) ==
    IsClaimed(d) /\ PutIfCurrent(d, token, LeaseExtended(dispatches[d]))

EpochOrCurrent(d) ==
    IF IsStale(d) THEN CurrentEpoch(d) ELSE dispatches[d].epoch

SupersedeClaimed(d, token) ==
    /\ IsClaimed(d) /\ HasToken(d, token)
    /\ Put(d, MarkSupersededAtEpoch(dispatches[d], EpochOrCurrent(d)))

-----------------------------------------------------------------------------
(* Interrupt, lease reclaim and vacuum.                                    *)

\* Supersedes the queued dispatches; a claimed one keeps its claim and is
\* reported to the caller, whose claim holder finds the new epoch later.
InterruptDetailed(t) ==
    /\ epoch[t] < MaxEpoch
    /\ epoch' = [epoch EXCEPT ![t] = @ + 1]
    /\ dispatches' = [d \in Dispatch |->
          IF ThreadOf[d] = t /\ IsQueued(d) /\ dispatches[d].epoch <= epoch[t]
          THEN MarkSuperseded(dispatches[d]) ELSE dispatches[d]]
    /\ fenced' = fenced \cup {d \in Dispatch : /\ ThreadOf[d] = t
                                               /\ StatusOf(d) \in Active}
    /\ UNCHANGED claims

Reclaimed(d) ==
    IF IsStale(d) THEN MarkSupersededAtEpoch(dispatches[d], CurrentEpoch(d))
                  ELSE MarkExpiredLease(dispatches[d])

\* The expired claims, without those whose run was started.
ExpiredUnstarted ==
    {d \in Dispatch : /\ IsClaimed(d) /\ dispatches[d].lease = "lapsed"
                      /\ dispatches[d].run = NoRun}

Expired == {d \in Dispatch : IsClaimed(d) /\ dispatches[d].lease = "lapsed"}

ReclaimExpiredLeases ==
    \E batch \in SUBSET Expired :
        /\ batch # {}
        /\ Cardinality(batch) = IF Cardinality(Expired) < ReclaimLimit
                                THEN Cardinality(Expired) ELSE ReclaimLimit
        /\ dispatches' = [d \in Dispatch |->
              IF d \in batch THEN Reclaimed(d) ELSE dispatches[d]]
        /\ UNCHANGED <<epoch, claims, fenced>>

\* A thread's epoch entry is dropped once no dispatch of it is left.
EpochAfterPurge(batch) ==
    [t \in Thread |->
        IF \E d \in Dispatch \ batch : ThreadOf[d] = t /\ IsStored(d)
        THEN epoch[t] ELSE 0]

\* Which terminal dispatches are older than the cutoff is left open.
PurgeTerminal ==
    \E batch \in SUBSET {d \in Dispatch : StatusOf(d) \in Terminal} :
        /\ dispatches' = [d \in Dispatch |->
              IF d \in batch THEN Blank("Purged") ELSE dispatches[d]]
        /\ epoch' = EpochAfterPurge(batch)
        /\ UNCHANGED <<claims, fenced>>

-----------------------------------------------------------------------------
(* Time: a lease runs out, a retry delay or an inline-claim guard ends.    *)

LeaseLapses(d) ==
    /\ IsClaimed(d) /\ dispatches[d].lease = "live"
    /\ Put(d, [dispatches[d] EXCEPT !.lease = "lapsed"])

BecomesAvailable(d) ==
    /\ IsQueued(d) /\ ~dispatches[d].available
    /\ Put(d, [dispatches[d] EXCEPT !.available = TRUE])

-----------------------------------------------------------------------------
\* Any caller, with any token issued for d so far.
HolderCall(d, token) ==
    \/ Ack(d, token)
    \/ RecordDispatchStart(d, token)
    \/ \E result \in Results : RecordRunResult(d, token, result)
    \/ \E available \in BOOLEAN : Nack(d, token, available)
    \/ DeadLetter(d, token)
    \/ ExtendLease(d, token)
    \/ SupersedeClaimed(d, token)

StoreNext ==
    \/ \E d \in Dispatch :
         \/ StatusOf(d) = "Absent" /\ \E available \in BOOLEAN : Enqueue(d, available)
         \/ ClaimDispatch(d)
         \/ Cancel(d)
         \/ \E token \in 1..claims[d] : HolderCall(d, token)
         \/ LeaseLapses(d)
         \/ BecomesAvailable(d)
    \/ \E t \in Thread : Claim(t) \/ InterruptDetailed(t)
    \/ ReclaimExpiredLeases
    \/ PurgeTerminal

StoreSpec == StoreInit /\ [][StoreNext]_storeVars

-----------------------------------------------------------------------------
(* Properties.                                                             *)

(***************************************************************************)
(* What holds of every record r of a dispatch whose thread is at epoch e,  *)
(* which was handed out c times and is fenced or not: the inductive        *)
(* invariant, from which the invariants below follow.                      *)
(***************************************************************************)
RecordOK(r, e, c, isFenced) ==
    /\ r \in DispatchRecord
    /\ ValidForPersist(r)
    /\ r.token # NoToken => r.status = "Claimed"
    /\ r.status \in Stored => r.epoch <= e
    /\ r.status = "Queued" => r.epoch = e /\ c = r.attempts
    /\ r.status = "Claimed" => c = r.attempts + 1
    /\ r.status \in Active => r.attempts < MaxAttempts
    /\ c <= MaxAttempts
    /\ isFenced => /\ r.status \in {"Claimed", "Superseded", "Purged"}
                   /\ r.status = "Claimed" => r.epoch < e
    /\ r.status = "Absent" => c = 0

StoreIInv ==
    /\ StoreTypeOK
    /\ \A d \in Dispatch :
          RecordOK(dispatches[d], CurrentEpoch(d), claims[d], d \in fenced)

\* No transition leaves a record that `validate_for_persist` refuses, and
\* only a claimed record carries a token, so no `expect` of the mark_*
\* wrappers can panic while the store lock is held.
PersistValid ==
    \A d \in Dispatch :
        /\ ValidForPersist(dispatches[d])
        /\ dispatches[d].token # NoToken => IsClaimed(d)

\* claim(): "Same thread must not have two Claimed dispatches concurrently".
OneClaimedPerThread ==
    \A a, b \in Dispatch :
        IsClaimed(a) /\ IsClaimed(b) /\ ThreadOf[a] = ThreadOf[b] => a = b

\* A dispatch that was active when its thread was interrupted is never
\* delivered: it stays claimed until its holder or the sweep finds the new
\* epoch and supersedes it, however late, and across any vacuum that drops
\* the epoch entry of the thread.
InterruptFences ==
    \A d \in fenced : StatusOf(d) \in {"Claimed", "Superseded", "Purged"}

\* No queued dispatch is older than its thread's epoch: the supersede of
\* stale queued dispatches in claim() and claim_dispatch() never finds one.
QueuedIsCurrent == \A d \in Dispatch : IsQueued(d) => ~IsStale(d)

\* A dispatch is handed out at most max_attempts times, whatever mixture of
\* nacks, expired leases and late calls with old tokens ended its claims.
HandedOutAtMostMaxAttempts == \A d \in Dispatch : claims[d] <= MaxAttempts

\* No two active dispatches of a thread share a dedupe key, retries included.
DedupeKeyUnique ==
    \A a, b \in Dispatch :
        /\ StatusOf(a) \in Active /\ StatusOf(b) \in Active
        /\ ThreadOf[a] = ThreadOf[b]
        /\ DedupeOf[a] = DedupeOf[b] /\ DedupeOf[a] # NoKey
        => a = b

\* A terminal record "cannot transition further": it is only ever purged.
TerminalIsFinal ==
    [][\A d \in Dispatch : StatusOf(d) \in Terminal =>
          \/ dispatches'[d] = dispatches[d]
          \/ dispatches'[d].status = "Purged"]_storeVars
=============================================================================
