------------------------ MODULE MailboxServiceProofs ------------------------
(***************************************************************************)
(* Proofs about MailboxService, for any servers, dispatches, runs and      *)
(* bounds.                                                                 *)
(*                                                                         *)
(* First types, and the few shapes that a step has for the store and for   *)
(* the tasks of the workers (StepShape); the service is a client of the    *)
(* store (ServiceUsesStore).  Then ServiceIInv, which needs no hypothesis: *)
(* claims and their tasks, registry slots and their runs, workers and what *)
(* will make them Idle.  After that the invariants of the startup recovery *)
(* (LostIsFound), of a submit (TraceInv), of the worker as a lock while    *)
(* submits are in the background (LockInv), of renewals (RenewedInv) and   *)
(* of a thread that nobody disturbs (QuietInv, AckedInv).                  *)
(***************************************************************************)
EXTENDS MailboxService, MailboxStoreProofs

USE DEF Terminal, Active, Stored, Status, NoRun, NoToken, RunStatus

-----------------------------------------------------------------------------
(* What a call of the store does to a record, unless it hands it out.      *)

\* From r to q: what is terminal stays, a queued record is not claimed, a
\* claimed one keeps its token and epoch while it is claimed, and nothing
\* disappears.
Calm(r, q) ==
    /\ q.status # "Purged"
    /\ r.status \in Terminal => q = r
    /\ r.status = "Queued" => q.status \in {"Queued", "Cancelled", "Superseded"}
    /\ r.status = "Absent" => q.status \in {"Absent", "Queued"}
    /\ r.status = "Claimed" =>
         /\ q.status \in Stored
         /\ q.status = "Claimed" => q.token = r.token /\ q.epoch = r.epoch

\* No time passes: no lease lapses, and what is hidden stays hidden.
Timeless(r, q) ==
    /\ r.status = "Queued" /\ q.status = "Queued" => q.available = r.available
    /\ r.status = "Claimed" /\ q.status = "Claimed" => q.lease \in {r.lease, "live"}

KeepsClaim(r, q) == r.status = "Claimed" => q.status = "Claimed"
AcksNothing(r, q) == q.status = "Acked" => r.status = "Acked"

\* The same of all records.
CalmStore ==
    /\ claims' = claims
    /\ \A o \in Dispatch : Calm(dispatches[o], dispatches'[o])
TimelessStore == \A o \in Dispatch : Timeless(dispatches[o], dispatches'[o])
KeepsClaims == \A o \in Dispatch : KeepsClaim(dispatches[o], dispatches'[o])
KeepsOthers(d) ==
    \A o \in Dispatch : o # d => KeepsClaim(dispatches[o], dispatches'[o])
AcksNone == \A o \in Dispatch : AcksNothing(dispatches[o], dispatches'[o])

\* No record was vacuumed: the service's next-state relation has no vacuum.
NotPurged == \A d \in Dispatch : StatusOf(d) # "Purged"

LEMMA UnchangedIsCalm ==
    ASSUME StoreIInv, NotPurged, UNCHANGED storeVars
    PROVE  CalmStore /\ TimelessStore /\ KeepsClaims /\ AcksNone /\ epoch' = epoch
<1>1. dispatches' = dispatches /\ claims' = claims /\ epoch' = epoch BY DEF storeVars
<1>2. ASSUME NEW o \in Dispatch
      PROVE  /\ Calm(dispatches[o], dispatches[o]) /\ Timeless(dispatches[o], dispatches[o])
             /\ KeepsClaim(dispatches[o], dispatches[o])
             /\ AcksNothing(dispatches[o], dispatches[o])
  BY DEF NotPurged, StatusOf, Calm, Timeless, KeepsClaim, AcksNothing
<1> QED BY <1>1, <1>2 DEF CalmStore, TimelessStore, KeepsClaims, KeepsOthers, AcksNone

LEMMA PutAt ==
    ASSUME StoreIInv, NEW d \in Dispatch, NEW q, Put(d, q)
    PROVE  /\ \A o \in Dispatch : dispatches'[o] = IF o = d THEN q ELSE dispatches[o]
           /\ epoch' = epoch /\ claims' = claims /\ fenced' = fenced
BY DEF Put, StoreIInv, StoreTypeOK

\* A call that writes one record.
LEMMA PutIsCalm ==
    ASSUME StoreIInv, NotPurged, NEW d \in Dispatch, NEW q, Put(d, q),
           Calm(dispatches[d], q)
    PROVE  /\ CalmStore /\ KeepsOthers(d) /\ epoch' = epoch
           /\ Timeless(dispatches[d], q) => TimelessStore
           /\ KeepsClaim(dispatches[d], q) => KeepsClaims
           /\ AcksNothing(dispatches[d], q) => AcksNone
<1>1. /\ \A o \in Dispatch : dispatches'[o] = IF o = d THEN q ELSE dispatches[o]
      /\ epoch' = epoch /\ claims' = claims
  BY PutAt
<1>2. ASSUME NEW o \in Dispatch
      PROVE  /\ Calm(dispatches[o], dispatches[o]) /\ Timeless(dispatches[o], dispatches[o])
             /\ KeepsClaim(dispatches[o], dispatches[o])
             /\ AcksNothing(dispatches[o], dispatches[o])
  BY DEF NotPurged, StatusOf, Calm, Timeless, KeepsClaim, AcksNothing
<1> QED BY <1>1, <1>2 DEF CalmStore, TimelessStore, KeepsClaims, KeepsOthers, AcksNone

\* A dispatch that is not stored was never enqueued.
LEMMA NotStoredIsAbsent ==
    ASSUME StoreIInv, NotPurged, NEW d \in Dispatch, ~IsStored(d)
    PROVE  StatusOf(d) = "Absent"
BY Local DEF DispatchRecord, IsStored, StatusOf, NotPurged

LEMMA EnqueueCalm ==
    ASSUME StoreIInv, NotPurged, NEW d \in Dispatch, NEW available \in BOOLEAN,
           ~IsStored(d), Enqueue(d, available)
    PROVE  /\ CalmStore /\ TimelessStore /\ KeepsClaims /\ AcksNone
           /\ epoch' = epoch /\ StoreNext
           /\ dispatches'[d].status = "Queued" /\ dispatches'[d].available = available
           /\ \A o \in Dispatch : o # d => dispatches'[o] = dispatches[o]
<1> DEFINE q == PrepareForEnqueue(CurrentEpoch(d), available)
<1>1. StatusOf(d) = "Absent" BY NotStoredIsAbsent
<1>2. Put(d, q) BY DEF Enqueue
<1>3. q.status = "Queued" /\ q.available = available
  BY DEF PrepareForEnqueue, Blank
<1>4. /\ Calm(dispatches[d], q) /\ Timeless(dispatches[d], q)
      /\ KeepsClaim(dispatches[d], q) /\ AcksNothing(dispatches[d], q)
  BY <1>1, <1>3 DEF StatusOf, Calm, Timeless, KeepsClaim, AcksNothing
<1>5. StoreNext BY <1>1 DEF StoreNext
<1> HIDE DEF q
<1>6. /\ \A o \in Dispatch : dispatches'[o] = IF o = d THEN q ELSE dispatches[o]
  BY <1>2, PutAt
<1> QED BY <1>2, <1>3, <1>4, <1>5, <1>6, PutIsCalm

LEMMA CancelCalm ==
    ASSUME StoreIInv, NotPurged, NEW d \in Dispatch, Cancel(d)
    PROVE  /\ CalmStore /\ TimelessStore /\ KeepsClaims /\ AcksNone
           /\ epoch' = epoch /\ StoreNext
           /\ dispatches'[d].status = "Cancelled"
           /\ \A o \in Dispatch : o # d => dispatches'[o] = dispatches[o]
<1> DEFINE q == MarkCancelled(dispatches[d])
<1>1. StatusOf(d) = "Queued" /\ Put(d, q) BY DEF Cancel, IsQueued
<1>2. q.status = "Cancelled" BY Local, TransitionStatus
<1>3. /\ Calm(dispatches[d], q) /\ Timeless(dispatches[d], q)
      /\ KeepsClaim(dispatches[d], q) /\ AcksNothing(dispatches[d], q)
  BY <1>1, <1>2 DEF StatusOf, Calm, Timeless, KeepsClaim, AcksNothing
<1>4. StoreNext BY DEF StoreNext
<1> HIDE DEF q
<1>5. /\ \A o \in Dispatch : dispatches'[o] = IF o = d THEN q ELSE dispatches[o]
  BY <1>1, PutAt
<1> QED BY <1>1, <1>2, <1>3, <1>4, <1>5, PutIsCalm

LEMMA InterruptCalm ==
    ASSUME StoreIInv, NotPurged, NEW t \in Thread, InterruptDetailed(t)
    PROVE  /\ CalmStore /\ TimelessStore /\ KeepsClaims /\ AcksNone
           /\ epoch'[t] = epoch[t] + 1 /\ StoreNext
           /\ \A o \in Dispatch : IsStored(o) = IsStored(o)'
<1>1. /\ \A o \in Dispatch : \/ dispatches'[o] = dispatches[o]
                             \/ IsQueued(o) /\ dispatches'[o] = MarkSuperseded(dispatches[o])
      /\ epoch' = [epoch EXCEPT ![t] = epoch[t] + 1] /\ claims' = claims
  BY Zenon DEF InterruptDetailed
<1>2. epoch \in [Thread -> Nat] BY DEF StoreIInv, StoreTypeOK
<1>3. epoch'[t] = epoch[t] + 1 BY <1>1, <1>2
<1>4. ASSUME NEW o \in Dispatch
      PROVE  /\ Calm(dispatches[o], dispatches'[o]) /\ Timeless(dispatches[o], dispatches'[o])
             /\ KeepsClaim(dispatches[o], dispatches'[o])
             /\ AcksNothing(dispatches[o], dispatches'[o])
             /\ IsStored(o) = IsStored(o)'
  <2>1. MarkSuperseded(dispatches[o]).status = "Superseded"
    BY Local, TransitionStatus
  <2> QED
    BY <1>1, <2>1
       DEF NotPurged, IsQueued, IsStored, StatusOf, Calm, Timeless, KeepsClaim, AcksNothing
<1>5. StoreNext BY DEF StoreNext
<1> QED
  BY <1>1, <1>3, <1>4, <1>5 DEF CalmStore, TimelessStore, KeepsClaims, KeepsOthers, AcksNone

\* A reclaim ends claims whose lease lapsed, and nothing else.
LEMMA ReclaimCalm ==
    ASSUME StoreIInv, NotPurged, ReclaimExpiredLeases
    PROVE  /\ CalmStore /\ TimelessStore /\ AcksNone
           /\ epoch' = epoch /\ StoreNext
           /\ \A o \in Dispatch : dispatches'[o] # dispatches[o] => o \in Expired
           /\ \A o \in Dispatch : IsStored(o) = IsStored(o)'
           /\ Expired # {}
<1>1. PICK batch \in SUBSET Expired :
        /\ batch # {}
        /\ dispatches' = [d \in Dispatch |->
              IF d \in batch THEN Reclaimed(d) ELSE dispatches[d]]
        /\ UNCHANGED <<epoch, claims, fenced>>
  BY Zenon DEF ReclaimExpiredLeases
<1>2. ASSUME NEW o \in Dispatch
      PROVE  /\ Calm(dispatches[o], dispatches'[o]) /\ Timeless(dispatches[o], dispatches'[o])
             /\ AcksNothing(dispatches[o], dispatches'[o])
             /\ dispatches'[o] # dispatches[o] => o \in Expired
             /\ IsStored(o) = IsStored(o)'
  <2>1. CASE o \in batch
    <3>1. dispatches'[o] = Reclaimed(o) BY <1>1, <2>1
    <3>2. StatusOf(o) = "Claimed" /\ o \in Expired BY <2>1 DEF Expired, IsClaimed
    <3>3. Reclaimed(o).status \in {"Superseded", "DeadLetter", "Queued"}
      BY Local, TransitionStatus DEF Reclaimed
    <3> QED
      BY <3>1, <3>2, <3>3 DEF IsStored, StatusOf, Calm, Timeless, AcksNothing
  <2>2. CASE o \notin batch
    <3>1. dispatches'[o] = dispatches[o] BY <1>1, <2>2
    <3> QED BY <3>1 DEF NotPurged, IsStored, StatusOf, Calm, Timeless, AcksNothing
  <2> QED BY <2>1, <2>2
<1>3. StoreNext BY DEF StoreNext
<1> QED BY <1>1, <1>2, <1>3 DEF CalmStore, TimelessStore, AcksNone

LEMMA TimeCalm ==
    ASSUME StoreIInv, NotPurged, NEW d \in Dispatch, LeaseLapses(d) \/ BecomesAvailable(d)
    PROVE  /\ CalmStore /\ KeepsClaims /\ AcksNone
           /\ epoch' = epoch /\ StoreNext
           /\ \A o \in Dispatch : o # d => dispatches'[o] = dispatches[o]
           /\ StatusOf(d)' = StatusOf(d)
           /\ IsQueued(d) \/ IsClaimed(d)
<1>0. /\ [dispatches[d] EXCEPT !.lease = "lapsed"].status = dispatches[d].status
      /\ [dispatches[d] EXCEPT !.lease = "lapsed"].token = dispatches[d].token
      /\ [dispatches[d] EXCEPT !.lease = "lapsed"].epoch = dispatches[d].epoch
      /\ [dispatches[d] EXCEPT !.available = TRUE].status = dispatches[d].status
      /\ [dispatches[d] EXCEPT !.available = TRUE].token = dispatches[d].token
      /\ [dispatches[d] EXCEPT !.available = TRUE].epoch = dispatches[d].epoch
  BY Local DEF DispatchRecord
<1>1. PICK q : /\ Put(d, q) /\ (IsQueued(d) \/ IsClaimed(d))
               /\ q.status = dispatches[d].status /\ q.token = dispatches[d].token
               /\ q.epoch = dispatches[d].epoch
  BY <1>0, Zenon DEF LeaseLapses, BecomesAvailable
<1>3. /\ Calm(dispatches[d], q) /\ KeepsClaim(dispatches[d], q)
      /\ AcksNothing(dispatches[d], q)
  BY <1>1 DEF IsQueued, IsClaimed, StatusOf, Calm, KeepsClaim, AcksNothing
<1>4. StoreNext BY DEF StoreNext
<1>5. /\ \A o \in Dispatch : dispatches'[o] = IF o = d THEN q ELSE dispatches[o]
  BY <1>1, PutAt
<1> QED BY <1>1, <1>3, <1>4, <1>5, PutIsCalm DEF StatusOf

-----------------------------------------------------------------------------
(* The calls of a claim holder.                                            *)

\* The dispatch is claimed, with the token of c.
Current(c) == IsClaimed(c[1]) /\ HasToken(c[1], c[2])

\* What they all do: d is written, or nothing.
HolderCalm(d) ==
    /\ CalmStore /\ TimelessStore /\ KeepsOthers(d) /\ epoch' = epoch
    /\ [StoreNext]_storeVars
    /\ \A o \in Dispatch : o # d => dispatches'[o] = dispatches[o]

\* A call that is refused.
LEMMA RefusedCalm ==
    ASSUME StoreIInv, NotPurged, NEW d \in Dispatch, UNCHANGED storeVars
    PROVE  HolderCalm(d) /\ AcksNone
<1>1. \A o \in Dispatch : dispatches'[o] = dispatches[o] BY DEF storeVars
<1> QED BY <1>1, UnchangedIsCalm DEF HolderCalm, KeepsClaims, KeepsOthers

LEMMA PutIfCurrentCalm ==
    ASSUME StoreIInv, NotPurged, NEW d \in Dispatch, NEW k, IsClaimed(d),
           NEW q, PutIfCurrent(d, k, q), q.status \in Stored,
           q.status = "Claimed" => /\ q.token = dispatches[d].token
                                   /\ q.epoch = dispatches[d].epoch
                                   /\ q.lease \in {dispatches[d].lease, "live"}
    PROVE  /\ CalmStore /\ TimelessStore /\ KeepsOthers(d) /\ epoch' = epoch
           /\ \A o \in Dispatch : o # d => dispatches'[o] = dispatches[o]
           /\ q.status # "Acked" => AcksNone
           /\ ~IsStale(d) => dispatches'[d] = q
           /\ IsStale(d) => dispatches'[d].status = "Superseded"
<1> DEFINE old == MarkSupersededAtEpoch(dispatches[d], CurrentEpoch(d))
<1>1. old.status = "Superseded" BY Local, TransitionStatus
<1>2. PICK w : w = IF IsStale(d) THEN old ELSE q
  OBVIOUS
<1>3. Put(d, w) BY <1>2 DEF PutIfCurrent
<1>4. dispatches[d].status = "Claimed" BY DEF IsClaimed, StatusOf
<1>5. w.status \in Stored /\ (w.status = "Claimed" => w = q)
  BY <1>1, <1>2
<1>6. Calm(dispatches[d], w) /\ Timeless(dispatches[d], w)
  BY <1>4, <1>5 DEF Calm, Timeless
<1>7. q.status # "Acked" => AcksNothing(dispatches[d], w)
  BY <1>1, <1>2 DEF AcksNothing
<1>8. \A o \in Dispatch : dispatches'[o] = IF o = d THEN w ELSE dispatches[o]
  BY <1>3, PutAt
<1> QED BY <1>1, <1>2, <1>3, <1>6, <1>7, <1>8, PutIsCalm

\* record_dispatch_start, record_run_result, extend_lease: an owner keeps its
\* claim, and who is not an owner does not get it back.
LEMMA StayCalm ==
    ASSUME StoreIInv, NotPurged, NEW d \in Dispatch, NEW k \in 1..claims[d],
           \/ StoreCall(RecordDispatchStart(d, k), d, k)
           \/ \E result \in Results : StoreCall(RecordRunResult(d, k, result), d, k)
           \/ StoreCall(ExtendLease(d, k), d, k)
    PROVE  /\ HolderCalm(d) /\ AcksNone
           /\ Owns(d, k) => Current(<<d, k>>)'
           /\ ~Owns(d, k) => ~Current(<<d, k>>)'
<1>1. CASE ~(IsClaimed(d) /\ HasToken(d, k))
  <2>1. UNCHANGED storeVars BY <1>1 DEF StoreCall
  <2>2. (IsClaimed(d) <=> IsClaimed(d)') /\ (HasToken(d, k) <=> HasToken(d, k)')
    BY <2>1 DEF storeVars, IsClaimed, HasToken, IsStored, StatusOf
  <2> QED BY <1>1, <2>1, <2>2, RefusedCalm DEF Owns, Current
<1>2. CASE IsClaimed(d) /\ HasToken(d, k)
  <2>1. PICK q : /\ PutIfCurrent(d, k, q)
                 /\ q.status = dispatches[d].status /\ q.token = dispatches[d].token
                 /\ q.epoch = dispatches[d].epoch
                 /\ q.lease \in {dispatches[d].lease, "live"}
    <3> DEFINE r == dispatches[d]
    <3>1. r \in DispatchRecord BY Local
    <3>2. \A result :
             /\ RunResultRecorded(r, result).status = r.status
             /\ RunResultRecorded(r, result).token = r.token
             /\ RunResultRecorded(r, result).epoch = r.epoch
             /\ RunResultRecorded(r, result).lease = r.lease
      BY <3>1 DEF RunResultRecorded, DispatchRecord
    <3>3. /\ DispatchStarted(r).status = r.status /\ DispatchStarted(r).token = r.token
          /\ DispatchStarted(r).epoch = r.epoch /\ DispatchStarted(r).lease = r.lease
      BY <3>1 DEF DispatchStarted, DispatchRecord
    <3>4. /\ LeaseExtended(r).status = r.status /\ LeaseExtended(r).token = r.token
          /\ LeaseExtended(r).epoch = r.epoch /\ LeaseExtended(r).lease = "live"
      BY <3>1 DEF LeaseExtended, DispatchRecord
    <3>5. \/ PutIfCurrent(d, k, DispatchStarted(r))
          \/ \E result : PutIfCurrent(d, k, RunResultRecorded(r, result))
          \/ PutIfCurrent(d, k, LeaseExtended(r))
      BY <1>2, Zenon DEF StoreCall, RecordDispatchStart, RecordRunResult, ExtendLease
    <3> QED BY <3>2, <3>3, <3>4, <3>5, Zenon
  <2>2. HolderCall(d, k)
    BY <1>2, Zenon DEF StoreCall, HolderCall
  <2>3. StoreNext BY <2>2 DEF StoreNext
  <2>4. q.status = "Claimed" /\ q.token = k
    BY <1>2, <2>1 DEF IsClaimed, HasToken, StatusOf
  <2>5. /\ CalmStore /\ TimelessStore /\ KeepsOthers(d) /\ epoch' = epoch
        /\ \A o \in Dispatch : o # d => dispatches'[o] = dispatches[o]
        /\ AcksNone
        /\ ~IsStale(d) => dispatches'[d] = q
        /\ IsStale(d) => dispatches'[d].status = "Superseded"
    BY <1>2, <2>1, <2>4, PutIfCurrentCalm
  <2>6. Owns(d, k) <=> ~IsStale(d) BY <1>2 DEF Owns
  <2>7. ~IsStale(d) => Current(<<d, k>>)'
    BY <2>4, <2>5 DEF Current, IsClaimed, HasToken, IsStored, StatusOf
  <2>8. IsStale(d) => ~Current(<<d, k>>)'
    BY <2>5 DEF Current, IsClaimed, StatusOf
  <2> QED BY <2>3, <2>5, <2>6, <2>7, <2>8 DEF HolderCalm
<1> QED BY <1>1, <1>2

\* supersede_claimed, ack, nack and dead_letter: the claim is over.
LEMMA LeaveCalm ==
    ASSUME StoreIInv, NotPurged, NEW d \in Dispatch, NEW k \in 1..claims[d], NEW outcome,
           \/ StoreCall(SupersedeClaimed(d, k), d, k)
           \/ StoreCall(Settled(outcome, d, k), d, k)
    PROVE  /\ HolderCalm(d) /\ ~Current(<<d, k>>)'
           /\ \/ AcksNone
              \/ /\ Current(<<d, k>>) /\ ~IsStale(d)
                 /\ outcome \notin {"Transient", "Permanent"}
                 /\ StoreCall(Settled(outcome, d, k), d, k)
<1>1. CASE ~(IsClaimed(d) /\ HasToken(d, k))
  <2>1. UNCHANGED storeVars BY <1>1 DEF StoreCall
  <2>2. (IsClaimed(d) <=> IsClaimed(d)') /\ (HasToken(d, k) <=> HasToken(d, k)')
    BY <2>1 DEF storeVars, IsClaimed, HasToken, IsStored, StatusOf
  <2> QED BY <1>1, <2>1, <2>2, RefusedCalm DEF Current
<1>2. CASE /\ IsClaimed(d) /\ HasToken(d, k)
           /\ StoreCall(SupersedeClaimed(d, k), d, k)
  <2>1. PICK q : Put(d, q) /\ q.status = "Superseded"
    <3>1. EpochOrCurrent(d) \in Nat
      BY Local DEF EpochOrCurrent, DispatchRecord
    <3>2. MarkSupersededAtEpoch(dispatches[d], EpochOrCurrent(d)).status = "Superseded"
      BY <3>1, Local, TransitionStatus
    <3> QED BY <1>2, <3>2 DEF StoreCall, SupersedeClaimed
  <2>2. HolderCall(d, k) BY <1>2 DEF StoreCall, HolderCall
  <2>3. StoreNext BY <2>2 DEF StoreNext
  <2>4. /\ Calm(dispatches[d], q) /\ Timeless(dispatches[d], q)
        /\ AcksNothing(dispatches[d], q)
    BY <1>2, <2>1 DEF Calm, Timeless, AcksNothing, IsClaimed, StatusOf
  <2>5. \A o \in Dispatch : dispatches'[o] = IF o = d THEN q ELSE dispatches[o]
    BY <2>1, PutAt
  <2>6. ~Current(<<d, k>>)' BY <2>1, <2>5 DEF Current, IsClaimed, StatusOf
  <2> QED BY <2>1, <2>3, <2>4, <2>5, <2>6, PutIsCalm DEF HolderCalm
<1>3. CASE /\ IsClaimed(d) /\ HasToken(d, k)
           /\ StoreCall(Settled(outcome, d, k), d, k)
  <2>1. Settled(outcome, d, k) BY <1>3 DEF StoreCall
  <2>2. /\ MarkAcked(dispatches[d]).status = "Acked"
        /\ MarkDeadLetter(dispatches[d]).status = "DeadLetter"
        /\ MarkNackResult(dispatches[d], FALSE).status \in {"DeadLetter", "Queued"}
    BY Local, TransitionStatus
  <2>3. PICK q : /\ PutIfCurrent(d, k, q)
                 /\ q.status \in {"Acked", "DeadLetter", "Queued"}
                 /\ outcome \in {"Transient", "Permanent"} => q.status # "Acked"
    <3>1. CASE outcome = "Transient"
      BY <2>1, <2>2, <3>1 DEF Settled, Nack
    <3>2. CASE outcome = "Permanent"
      BY <2>1, <2>2, <3>2 DEF Settled, DeadLetter
    <3>3. CASE outcome \notin {"Transient", "Permanent"}
      BY <2>1, <2>2, <3>3 DEF Settled, Ack
    <3> QED BY <3>1, <3>2, <3>3
  <2>4. HolderCall(d, k) BY <2>1, Zenon DEF Settled, HolderCall
  <2>5. StoreNext BY <2>4 DEF StoreNext
  <2>6. /\ CalmStore /\ TimelessStore /\ KeepsOthers(d) /\ epoch' = epoch
        /\ \A o \in Dispatch : o # d => dispatches'[o] = dispatches[o]
        /\ q.status # "Acked" => AcksNone
        /\ ~IsStale(d) => dispatches'[d] = q
        /\ IsStale(d) => dispatches'[d].status = "Superseded"
    BY <1>3, <2>3, PutIfCurrentCalm
  <2>7. dispatches'[d].status # "Claimed" BY <2>3, <2>6
  <2>8. ~Current(<<d, k>>)' BY <2>7 DEF Current, IsClaimed, StatusOf
  <2>9. CASE IsStale(d)
    <3>1. AcksNone
      <4>1. ASSUME NEW o \in Dispatch PROVE AcksNothing(dispatches[o], dispatches'[o])
        BY <2>6, <2>9 DEF AcksNothing
      <4> QED BY <4>1 DEF AcksNone
    <3> QED BY <2>5, <2>6, <2>8, <3>1 DEF HolderCalm
  <2>10. CASE ~IsStale(d)
    BY <1>3, <2>3, <2>5, <2>6, <2>8, <2>10 DEF HolderCalm, Current
  <2> QED BY <2>9, <2>10
<1> QED BY <1>1, <1>2, <1>3

-----------------------------------------------------------------------------
(* claim() and claim_dispatch(): what is won.                              *)

WinEffect(won) ==
    /\ won \subseteq Dispatch
    /\ \A a, b \in won : a = b
    /\ \A o \in Dispatch \ won :
          dispatches'[o] = dispatches[o] /\ claims'[o] = claims[o]
    /\ \A o \in won :
          /\ dispatches[o].status = "Queued"
          /\ dispatches'[o].status = "Claimed" /\ dispatches'[o].lease = "live"
          /\ dispatches'[o].token = claims[o] + 1 /\ claims'[o] = claims[o] + 1
    /\ epoch' = epoch
    /\ StoreNext

LEMMA ThreadIsThread == thread \in Thread /\ \A d \in Dispatch : ThreadOf[d] = thread
<1>1. Thread = {thread} BY ServiceAssumption
<1> QED BY <1>1, StoreAssumption

LEMMA ClaimedWithIs ==
    ASSUME NEW r \in DispatchRecord, NEW n \in Nat
    PROVE  /\ ClaimedWith(r, n).status = "Claimed" /\ ClaimedWith(r, n).lease = "live"
           /\ ClaimedWith(r, n).token = n
BY DEF ClaimedWith, DispatchRecord

LEMMA ClaimWins ==
    ASSUME StoreIInv, Claim(thread)
    PROVE  LET won == {d \in Dispatch : claims'[d] # claims[d]}
           IN  WinEffect(won) /\ \A o \in won : dispatches[o].available
<1> DEFINE won == {d \in Dispatch : claims'[d] # claims[d]}
<1>0. thread \in Thread /\ ClaimLimit = 1 BY ThreadIsThread, ServiceAssumption
<1>1. PICK batch \in SUBSET Eligible(thread) :
        /\ dispatches' = [d \in Dispatch |->
              IF ThreadOf[d] = thread /\ IsQueued(d) /\ IsStale(d)
              THEN MarkSupersededAtEpoch(dispatches[d], epoch[thread])
              ELSE IF d \in batch THEN ClaimedWith(dispatches[d], claims[d] + 1)
              ELSE dispatches[d]]
        /\ claims' = [d \in Dispatch |->
              IF d \in batch THEN claims[d] + 1 ELSE claims[d]]
        /\ UNCHANGED <<epoch, fenced>>
  BY Zenon DEF Claim
<1>2. \A o \in Dispatch : claims[o] \in Nat /\ claims[o] + 1 \in Nat /\ claims[o] + 1 # claims[o]
  BY Local
<1>3. won = batch
  <2>1. batch \subseteq Dispatch BY DEF Eligible
  <2> QED BY <1>1, <1>2, <2>1
<1> HIDE DEF won
<1>4. \A o \in Dispatch : ~(IsQueued(o) /\ IsStale(o)) BY QueuedNotStale
<1>5. \A o \in Dispatch \ won : dispatches'[o] = dispatches[o] /\ claims'[o] = claims[o]
  BY <1>1, <1>3, <1>4
<1>6. \A o \in won : /\ o \in Dispatch /\ dispatches[o].status = "Queued"
                     /\ dispatches[o].available
  BY <1>3 DEF Eligible, IsQueued, StatusOf
<1>7. ASSUME NEW o \in won
      PROVE  /\ dispatches'[o].status = "Claimed" /\ dispatches'[o].lease = "live"
             /\ dispatches'[o].token = claims[o] + 1 /\ claims'[o] = claims[o] + 1
  <2>1. /\ dispatches'[o] = ClaimedWith(dispatches[o], claims[o] + 1)
        /\ claims'[o] = claims[o] + 1
    BY <1>1, <1>3, <1>4, <1>6
  <2> QED BY <1>2, <1>6, <2>1, Local, ClaimedWithIs
<1>8. PICK one \in SUBSET Eligible(thread) :
         /\ \A a, b \in one : a = b
         /\ \A o \in Dispatch : IsClaimed(o)' => IsClaimed(o) \/ o \in one
  BY <1>0, ClaimOfOne
<1>9. \A a, b \in won : a = b
  BY <1>6, <1>7, <1>8 DEF IsClaimed, StatusOf
<1>10. StoreNext BY <1>0 DEF StoreNext
<1>11. WinEffect(won)
  BY <1>1, <1>5, <1>6, <1>7, <1>9, <1>10 DEF WinEffect
<1> QED BY <1>6, <1>11 DEF won

LEMMA ClaimDispatchWins ==
    ASSUME StoreIInv, NEW d \in Dispatch, ClaimDispatch(d)
    PROVE  WinEffect({d}) /\ ~ThreadHasClaim(thread)
<1>1. ~IsStale(d) /\ IsQueued(d) BY QueuedNotStale DEF ClaimDispatch
<1>2. /\ ~ThreadHasClaim(ThreadOf[d])
      /\ dispatches' = [dispatches EXCEPT ![d] = ClaimedWith(dispatches[d], claims[d] + 1)]
      /\ claims' = [claims EXCEPT ![d] = claims[d] + 1]
      /\ epoch' = epoch
  BY <1>1 DEF ClaimDispatch
<1>3. claims[d] \in Nat /\ claims[d] + 1 \in Nat BY Local
<1>4. dispatches \in [Dispatch -> DispatchRecord] /\ claims \in [Dispatch -> Nat]
  BY DEF StoreIInv, StoreTypeOK
<1>5. /\ dispatches'[d] = ClaimedWith(dispatches[d], claims[d] + 1)
      /\ claims'[d] = claims[d] + 1
      /\ \A o \in Dispatch \ {d} : dispatches'[o] = dispatches[o] /\ claims'[o] = claims[o]
  BY <1>2, <1>4
<1>6. /\ dispatches'[d].status = "Claimed" /\ dispatches'[d].lease = "live"
      /\ dispatches'[d].token = claims[d] + 1
  BY <1>3, <1>5, Local, ClaimedWithIs
<1>7. StoreNext BY DEF StoreNext
<1> QED
  BY <1>1, <1>2, <1>5, <1>6, <1>7, ThreadIsThread DEF WinEffect, IsQueued, StatusOf

-----------------------------------------------------------------------------
(* The types, by the variables that a step changes together.               *)

SubmitPlace == {"new", "interrupted", "waitRun", "live", "waitStore", "prepare",
                "enqueue", "claim", "undo", "undone", "wake", "done", "conflict",
                "failed", "lost"}
SubmitRecord == [at : SubmitPlace, todo : SUBSET Dispatch, found : SUBSET Dispatch]
CallRecord == [on : Server, byThread : BOOLEAN, todo : SUBSET Dispatch,
               found : SUBSET Dispatch]
WorkerState == {Idle, Claiming} \cup {RunningClaim(c) : c \in ClaimId}
ExecPlace == {"load", "epoch", "supersede", "close", "start", "refused", "run",
              "running", "waiting", "result", "settle", "letter", "release", "next"}
Outcome == Outcomes \cup {"None", "Cancelled", "Permanent"}
ExecRecord == [claim : ClaimId, on : Server, at : ExecPlace, outcome : Outcome]
RunRecord == [status : {"None"} \cup Open \cup Closed, by : {<<>>} \cup {<<d>> : d \in Dispatch}]
MaintPlace == {"sweeping", "reclaimed", "wakes", "boot", "queued", "list", "prepared",
               "enqueue"}
MaintRecord == [at : MaintPlace, todo : SUBSET Dispatch, pick : SUBSET Dispatch,
                wake : {"none", "due", "done"}]

SubmitType == submit \in [Dispatch -> SubmitRecord] /\ calls \subseteq CallRecord
WorkerType == /\ worker \in [Server -> WorkerState]
              /\ claiming \in [Server -> Nat] /\ empty \in [Server -> Nat]
TasksType == starting \subseteq Task /\ renewals \subseteq Task /\ exec \subseteq ExecRecord
RuntimeType == active \in [Server -> ClaimId \cup {NoClaim}] /\ cancelled \subseteq Server
RunsType == runs \in [Run -> RunRecord]
MaintType == maint \in [Server -> MaintRecord]
HostType == /\ up \subseteq Server /\ lapses \in 0..MaxLapses /\ crashes \in 0..MaxCrashes
            /\ called \in 0..MaxCalls

\* A token that was issued for its dispatch.
Issued(c) == c[2] \in 1..claims[c[1]]
IssuedInv == /\ \A t \in starting \cup renewals : Issued(t.claim)
             /\ \A e \in exec : Issued(e.claim)

\* A dispatch is claimed with the last token issued for it.
TokenInv == \A d \in Dispatch : IsClaimed(d) => dispatches[d].token = claims[d]

Base ==
    /\ StoreIInv /\ NotPurged /\ TokenInv /\ IssuedInv
    /\ SubmitType /\ WorkerType /\ TasksType /\ RuntimeType /\ RunsType /\ MaintType
    /\ HostType

-----------------------------------------------------------------------------
(* The shapes of a step, as the store and the tasks of the workers see it. *)

\* From these places an execution does not go back to its claim.
Gone == {"refused", "close", "letter", "release", "next"}
Acting == {"running", "waiting"}

NoBound == UNCHANGED <<lapses, crashes>>

\* The tasks do nothing: a call of the store by someone else, or none.
Elsewhere ==
    /\ CalmStore /\ TimelessStore /\ AcksNone
    /\ KeepsClaims \/ ReclaimExpiredLeases
    /\ [StoreNext]_storeVars
    /\ epoch' = epoch \/ epoch'[thread] = epoch[thread] + 1
    /\ UNCHANGED <<taskVars, exec, active>> /\ NoBound

\* Someone tries the worker of s.
Tries(s) ==
    /\ TryDispatch(s)
    /\ UNCHANGED <<storeVars, empty, starting, renewals, exec, active>> /\ NoBound

\* The execution e goes on as f.
Moves(e, f) ==
    /\ e \in exec /\ f \in ExecRecord
    /\ f.claim = e.claim /\ f.on = e.on /\ exec' = (exec \ {e}) \cup {f}
    /\ f.at # "next" /\ e.at \notin {"release", "next"}
    /\ e.at \in Gone => UNCHANGED storeVars
    /\ e.at \notin Gone /\ f.at \in Gone => ~Current(e.claim)'
    /\ f.at \notin Gone =>
         /\ e.at \notin Gone
         /\ Owns(e.claim[1], e.claim[2]) => Current(e.claim)'
    /\ HolderCalm(e.claim[1]) /\ (AcksNone \/ ExecSettles(e))
    /\ f.at \in Acting /\ e.at \notin Acting => active[e.on] = NoClaim
    /\ active' = [active EXCEPT ![e.on] =
                     IF f.at \in Acting /\ e.at \notin Acting THEN e.claim
                     ELSE IF e.at \in Acting /\ f.at \notin Acting THEN NoClaim
                     ELSE active[e.on]]
    /\ UNCHANGED taskVars /\ NoBound

StepShape ==
    \/ Elsewhere
    \/ \E d \in Dispatch : TimePasses(d) \/ SubmitClaims(d)
    \/ \E s \in Server : Tries(s) \/ ClaimNext(s) \/ RevertClaiming(s) \/ Crash(s)
    \/ \E p \in starting : StartExecution(p)
    \/ \E e \in exec : \/ \E f : Moves(e, f)
                       \/ ExecReleasesWorker(e) \/ ExecTriesNext(e)
    \/ \E p \in renewals : RenewLease(p)

LEMMA BaseStore == Base => StoreIInv /\ NotPurged
BY DEF Base

LEMMA StandsElsewhere ==
    ASSUME Base, UNCHANGED storeVars, UNCHANGED <<taskVars, exec, active, lapses, crashes>>
    PROVE  Elsewhere
<1>1. /\ CalmStore /\ TimelessStore /\ KeepsClaims /\ AcksNone /\ epoch' = epoch
      /\ [StoreNext]_storeVars
  BY BaseStore, UnchangedIsCalm
<1> QED BY <1>1 DEF Elsewhere, NoBound

LEMMA SubmitShape ==
    ASSUME Base, NEW d \in Dispatch, SubmitStep(d)
    PROVE  Elsewhere \/ SubmitClaims(d) \/ Tries(HomeOf[d])
<1> USE BaseStore
<1>1. CASE SubmitInterrupts(d)
  <2>1. InterruptDetailed(thread) /\ UNCHANGED <<taskVars, exec, active, lapses, crashes>>
    BY <1>1 DEF SubmitInterrupts, runtimeVars, hostVars
  <2>2. /\ CalmStore /\ TimelessStore /\ KeepsClaims /\ AcksNone
        /\ epoch'[thread] = epoch[thread] + 1 /\ StoreNext
    BY <2>1, ThreadIsThread, InterruptCalm
  <2> QED BY <2>1, <2>2 DEF Elsewhere, NoBound
<1>2. CASE \/ SubmitClosesSuperseded(d) \/ SubmitCancelsActive(d) \/ SubmitRunWaitTimesOut(d)
           \/ SubmitCancelsLive(d) \/ SubmitWaitsForRelease(d) \/ SubmitPreparesRun(d)
           \/ SubmitReconciles(d)
  <2>1. UNCHANGED storeVars /\ UNCHANGED <<taskVars, exec, active, lapses, crashes>>
    BY <1>2 DEF SubmitClosesSuperseded, SubmitCancelsActive, SubmitRunWaitTimesOut,
         SubmitCancelsLive, SubmitWaitsForRelease, SubmitPreparesRun, SubmitReconciles,
         runtimeVars, hostVars
  <2> QED BY <2>1, StandsElsewhere
<1>3. CASE SubmitEnqueues(d)
  <2>1. UNCHANGED <<taskVars, exec, active, lapses, crashes>>
    BY <1>3 DEF SubmitEnqueues, runtimeVars, hostVars
  <2>2. CASE UNCHANGED storeVars BY <2>1, <2>2, StandsElsewhere
  <2>3. CASE ~IsStored(d) /\ Enqueue(d, d \notin Inline)
    <3>1. PICK a \in BOOLEAN : a = (d \notin Inline) OBVIOUS
    <3>2. /\ CalmStore /\ TimelessStore /\ KeepsClaims /\ AcksNone
          /\ epoch' = epoch /\ StoreNext
      BY <2>3, <3>1, EnqueueCalm
    <3> QED BY <2>1, <3>2 DEF Elsewhere, NoBound
  <2> QED BY <1>3, <2>2, <2>3 DEF SubmitEnqueues
<1>4. CASE SubmitLosesClaim(d)
  <2>1. UNCHANGED storeVars /\ UNCHANGED <<taskVars, exec, active, lapses, crashes>>
    BY <1>4, QueuedNotStale DEF SubmitLosesClaim, runtimeVars, hostVars
  <2> QED BY <2>1, StandsElsewhere
<1>5. CASE SubmitUndoes(d)
  <2>1. UNCHANGED <<taskVars, exec, active, lapses, crashes>>
    BY <1>5 DEF SubmitUndoes, runtimeVars, hostVars
  <2>2. CASE UNCHANGED storeVars BY <2>1, <2>2, StandsElsewhere
  <2>3. CASE Cancel(d)
    <3>1. /\ CalmStore /\ TimelessStore /\ KeepsClaims /\ AcksNone
          /\ epoch' = epoch /\ StoreNext
      BY <2>3, CancelCalm
    <3> QED BY <2>1, <3>1 DEF Elsewhere, NoBound
  <2> QED BY <1>5, <2>2, <2>3 DEF SubmitUndoes
<1>6. CASE SubmitWakesWorker(d)
  BY <1>6 DEF SubmitWakesWorker, Tries, runtimeVars, hostVars, NoBound
<1> QED BY <1>1, <1>2, <1>3, <1>4, <1>5, <1>6 DEF SubmitStep

LEMMA CallBeginsElsewhere ==
    ASSUME NEW c, CallBegins(c)
    PROVE  UNCHANGED <<taskVars, exec, active, lapses, crashes>>
BY DEF CallBegins, runtimeVars, hostVars

LEMMA CallShape ==
    ASSUME Base,
           \/ \E c \in calls : CallStep(c)
           \/ \E s \in Server : ApiInterrupts(s) \/ \E d \in Dispatch : ApiCancelsDispatch(s, d)
    PROVE  Elsewhere
<1> USE BaseStore
<1>1. ASSUME NEW c \in calls, CallStep(c) PROVE Elsewhere
  <2>1. UNCHANGED storeVars /\ UNCHANGED <<taskVars, exec, active, lapses, crashes>>
    BY <1>1 DEF CallStep, CallClosesRun, CallCancelsActive, runtimeVars, hostVars
  <2> QED BY <2>1, StandsElsewhere
<1>2. ASSUME NEW s \in Server, ApiInterrupts(s) PROVE Elsewhere
  <2>1. InterruptDetailed(thread) BY <1>2 DEF ApiInterrupts
  <2>2. UNCHANGED <<taskVars, exec, active, lapses, crashes>>
    BY <1>2, CallBeginsElsewhere DEF ApiInterrupts
  <2>3. /\ CalmStore /\ TimelessStore /\ KeepsClaims /\ AcksNone
        /\ epoch'[thread] = epoch[thread] + 1 /\ StoreNext
    BY <2>1, ThreadIsThread, InterruptCalm
  <2> QED BY <2>2, <2>3 DEF Elsewhere, NoBound
<1>3. ASSUME NEW s \in Server, NEW d \in Dispatch, ApiCancelsDispatch(s, d)
      PROVE  Elsewhere
  <2>1. UNCHANGED storeVars \/ Cancel(d) BY <1>3 DEF ApiCancelsDispatch
  <2>2. UNCHANGED <<taskVars, exec, active, lapses, crashes>>
    BY <1>3, CallBeginsElsewhere DEF ApiCancelsDispatch
  <2>3. CASE UNCHANGED storeVars BY <2>2, <2>3, StandsElsewhere
  <2>4. CASE Cancel(d)
    <3>1. /\ CalmStore /\ TimelessStore /\ KeepsClaims /\ AcksNone
          /\ epoch' = epoch /\ StoreNext
      BY <2>4, CancelCalm
    <3> QED BY <2>2, <3>1 DEF Elsewhere, NoBound
  <2> QED BY <2>1, <2>3, <2>4
<1> QED BY <1>1, <1>2, <1>3

LEMMA ReclaimShape ==
    ASSUME Base, ReclaimExpiredLeases, UNCHANGED <<taskVars, exec, active, lapses, crashes>>
    PROVE  Elsewhere
BY BaseStore, ReclaimCalm DEF Elsewhere, NoBound

LEMMA SweepShape ==
    ASSUME Base, NEW s \in Server, SweepStep(s)
    PROVE  Elsewhere \/ Tries(s)
<1>1. CASE SweepReclaims(s)
  <2>1. ReclaimExpiredLeases /\ UNCHANGED <<taskVars, exec, active, lapses, crashes>>
    BY <1>1 DEF SweepReclaims, runtimeVars, hostVars
  <2> QED BY <2>1, ReclaimShape
<1>2. CASE SweepReconcilesReclaimed(s) \/ \E d \in Dispatch : SweepReconciles(s, d)
  <2>1. UNCHANGED storeVars /\ UNCHANGED <<taskVars, exec, active, lapses, crashes>>
    BY <1>2 DEF SweepReconcilesReclaimed, SweepReconciles, runtimeVars, hostVars
  <2> QED BY <2>1, StandsElsewhere
<1>3. CASE SweepWakesWorker(s)
  <2>1. UNCHANGED <<storeVars, empty, starting, renewals, exec, active, lapses, crashes>>
    BY <1>3 DEF SweepWakesWorker, runtimeVars, hostVars
  <2>2. TryDispatch(s) \/ UNCHANGED <<worker, claiming>>
    BY <1>3 DEF SweepWakesWorker
  <2>3. CASE TryDispatch(s) BY <2>1, <2>3 DEF Tries, NoBound
  <2>4. CASE UNCHANGED <<worker, claiming>>
    <3>1. UNCHANGED <<taskVars, exec, active, lapses, crashes>>
      BY <2>1, <2>4 DEF taskVars
    <3> QED BY <2>1, <3>1, StandsElsewhere
  <2> QED BY <2>2, <2>3, <2>4
<1> QED BY <1>1, <1>2, <1>3 DEF SweepStep

LEMMA RecoverShape ==
    ASSUME Base, NEW s \in Server, RecoverStep(s)
    PROVE  Elsewhere \/ Tries(s)
<1>1. CASE RecoverReclaims(s)
  <2>1. UNCHANGED <<taskVars, exec, active, lapses, crashes>>
    BY <1>1 DEF RecoverReclaims, runtimeVars, hostVars
  <2>2. ReclaimExpiredLeases \/ UNCHANGED storeVars BY <1>1 DEF RecoverReclaims
  <2> QED BY <2>1, <2>2, ReclaimShape, StandsElsewhere
<1>2. CASE RecoverListsPrepared(s) \/ RecoverLoads(s)
  <2>1. UNCHANGED storeVars /\ UNCHANGED <<taskVars, exec, active, lapses, crashes>>
    BY <1>2 DEF RecoverListsPrepared, RecoverLoads, runtimeVars, hostVars
  <2> QED BY <2>1, StandsElsewhere
<1>3. CASE RecoverEnqueues(s)
  <2>1. UNCHANGED <<taskVars, exec, active, lapses, crashes>>
    BY <1>3 DEF RecoverEnqueues, runtimeVars, hostVars
  <2>2. PICK d \in maint[s].pick : \/ UNCHANGED storeVars
                                   \/ ~IsStored(d) /\ Enqueue(d, TRUE)
    BY <1>3 DEF RecoverEnqueues
  <2>3. d \in Dispatch BY DEF Base, MaintType, MaintRecord
  <2>4. CASE UNCHANGED storeVars BY <2>1, <2>4, StandsElsewhere
  <2>5. CASE ~IsStored(d) /\ Enqueue(d, TRUE)
    <3>1. /\ CalmStore /\ TimelessStore /\ KeepsClaims /\ AcksNone
          /\ epoch' = epoch /\ StoreNext
      BY <2>3, <2>5, BaseStore, EnqueueCalm
    <3> QED BY <2>1, <3>1 DEF Elsewhere, NoBound
  <2> QED BY <2>2, <2>4, <2>5
<1>4. CASE RecoverWakesQueued(s) \/ RecoverEnds(s)
  <2>1. UNCHANGED <<storeVars, empty, starting, renewals, exec, active, lapses, crashes>>
    BY <1>4 DEF RecoverWakesQueued, RecoverEnds, runtimeVars, hostVars
  <2>2. TryDispatch(s) \/ UNCHANGED <<worker, claiming>>
    BY <1>4 DEF RecoverWakesQueued, RecoverEnds
  <2>3. CASE TryDispatch(s) BY <2>1, <2>3 DEF Tries, NoBound
  <2>4. CASE UNCHANGED <<worker, claiming>>
    <3>1. UNCHANGED <<taskVars, exec, active, lapses, crashes>>
      BY <2>1, <2>4 DEF taskVars
    <3> QED BY <2>1, <3>1, StandsElsewhere
  <2> QED BY <2>2, <2>3, <2>4
<1> QED BY <1>1, <1>2, <1>3, <1>4 DEF RecoverStep

-----------------------------------------------------------------------------
(* The steps of an execution.                                              *)

LEMMA ExecIsTyped ==
    ASSUME Base, NEW e \in exec
    PROVE  /\ e \in ExecRecord /\ e.claim \in ClaimId /\ e.on \in Server
           /\ e.claim[1] \in Dispatch /\ e.claim[2] \in 1..claims[e.claim[1]]
           /\ e.claim = <<e.claim[1], e.claim[2]>>
<1>1. e \in ExecRecord BY DEF Base, TasksType
<1>2. e.claim \in Dispatch \X (1..MaxAttempts) /\ e.on \in Server
  BY <1>1 DEF ExecRecord, ClaimId
<1>3. Issued(e.claim) BY DEF Base, IssuedInv
<1> QED BY <1>1, <1>2, <1>3 DEF ClaimId, Issued

LEMMA ExecAtIs ==
    ASSUME Base, NEW e \in exec, NEW at \in ExecPlace, ExecAt(e, at)
    PROVE  \E f : /\ f \in ExecRecord /\ f.claim = e.claim /\ f.on = e.on
                  /\ f.at = at /\ f.outcome = e.outcome
                  /\ exec' = (exec \ {e}) \cup {f}
<1>1. e \in ExecRecord BY ExecIsTyped
<1>2. /\ [e EXCEPT !.at = at] \in ExecRecord
      /\ [e EXCEPT !.at = at].claim = e.claim /\ [e EXCEPT !.at = at].on = e.on
      /\ [e EXCEPT !.at = at].at = at /\ [e EXCEPT !.at = at].outcome = e.outcome
  BY <1>1 DEF ExecRecord
<1> QED BY <1>2, Zenon DEF ExecAt

LEMMA ExecEndsIs ==
    ASSUME Base, NEW e \in exec, NEW outcome \in Outcome, ExecEnds(e, outcome)
    PROVE  \E f : /\ f \in ExecRecord /\ f.claim = e.claim /\ f.on = e.on
                  /\ f.at = "result" /\ f.outcome = outcome
                  /\ exec' = (exec \ {e}) \cup {f}
<1>1. e \in ExecRecord BY ExecIsTyped
<1> DEFINE g == [e EXCEPT !.at = "result", !.outcome = outcome]
<1>2. /\ g \in ExecRecord /\ g.claim = e.claim /\ g.on = e.on
      /\ g.at = "result" /\ g.outcome = outcome
  BY <1>1 DEF ExecRecord, ExecPlace
<1> QED BY <1>2, Zenon DEF ExecEnds

\* A step that is not of the registry.
LEMMA MovesOffstage ==
    ASSUME Base, NEW e \in exec, NEW f, f \in ExecRecord,
           f.claim = e.claim, f.on = e.on, exec' = (exec \ {e}) \cup {f},
           e.at \notin Acting, f.at \notin Acting,
           f.at # "next", e.at \notin {"release", "next"},
           e.at \in Gone => UNCHANGED storeVars,
           e.at \notin Gone /\ f.at \in Gone => ~Current(e.claim)',
           f.at \notin Gone => /\ e.at \notin Gone
                               /\ Owns(e.claim[1], e.claim[2]) => Current(e.claim)',
           HolderCalm(e.claim[1]), AcksNone \/ ExecSettles(e), OnlyExec
    PROVE  Moves(e, f)
<1>1. active \in [Server -> ClaimId \cup {NoClaim}] /\ e.on \in Server
  BY ExecIsTyped DEF Base, RuntimeType
<1>2. active' = [active EXCEPT ![e.on] = active[e.on]] /\ UNCHANGED taskVars /\ NoBound
  BY <1>1 DEF OnlyExec, runtimeVars, hostVars, NoBound
<1> QED BY <1>2 DEF Moves

\* What Current needs, if the store is left alone.
LEMMA CurrentStands ==
    ASSUME UNCHANGED storeVars, NEW c
    PROVE  Current(c)' <=> Current(c)
BY DEF storeVars, Current, IsClaimed, HasToken, IsStored, StatusOf

LEMMA OwnsIsCurrent ==
    ASSUME NEW c \in ClaimId, Owns(c[1], c[2])
    PROVE  Current(c)
BY DEF Owns, Current

LEMMA ExecReadsShape ==
    ASSUME Base, NEW e \in exec,
           \/ ExecLoads(e) \/ ExecChecksEpoch(e) \/ ExecRefused(e)
           \/ ExecClosesSuperseded(e) \/ ExecClosesDeadLetter(e)
    PROVE  \E f : Moves(e, f)
<1> DEFINE d == e.claim[1]
<1>1. UNCHANGED storeVars /\ OnlyExec
  BY DEF ExecLoads, ExecChecksEpoch, ExecRefused, ExecClosesSuperseded, ExecClosesDeadLetter
<1>2. PICK at \in ExecPlace :
        /\ ExecAt(e, at)
        /\ \/ e.at = "load" /\ at = "epoch"
           \/ e.at = "load" /\ ~Current(e.claim) /\ at \in {"close", "release"}
           \/ e.at = "epoch" /\ at \in {"supersede", "start"}
           \/ e.at \in {"refused", "close", "letter"} /\ at \in {"close", "release"}
  <2>1. CASE ExecLoads(e)
    BY <2>1 DEF ExecLoads, ExecIs, Current, ExecPlace
  <2>2. CASE ExecChecksEpoch(e) BY <2>2 DEF ExecChecksEpoch, ExecIs, ExecPlace
  <2>3. CASE ExecRefused(e) BY <2>3 DEF ExecRefused, ExecIs, ExecPlace
  <2>4. CASE ExecClosesSuperseded(e) \/ ExecClosesDeadLetter(e)
    BY <2>4 DEF ExecClosesSuperseded, ExecClosesDeadLetter, ExecIs, ExecPlace
  <2> QED BY <2>1, <2>2, <2>3, <2>4
<1>3. PICK f : /\ f \in ExecRecord /\ f.claim = e.claim /\ f.on = e.on /\ f.at = at
               /\ exec' = (exec \ {e}) \cup {f}
  BY <1>2, ExecAtIs
<1>4. e.claim \in ClaimId /\ d \in Dispatch BY ExecIsTyped
<1>5. HolderCalm(d) /\ AcksNone BY <1>1, <1>4, BaseStore, RefusedCalm
<1>6. Current(e.claim)' <=> Current(e.claim) BY <1>1, CurrentStands
<1>7. Owns(e.claim[1], e.claim[2]) => Current(e.claim)' BY <1>4, <1>6, OwnsIsCurrent
<1>8. /\ e.at \notin Acting /\ f.at \notin Acting
      /\ f.at # "next" /\ e.at \notin {"release", "next"}
      /\ e.at \notin Gone /\ f.at \in Gone => ~Current(e.claim)'
      /\ f.at \notin Gone => e.at \notin Gone
  BY <1>2, <1>3, <1>6 DEF Acting, Gone
<1> QED BY <1>1, <1>3, <1>5, <1>7, <1>8, MovesOffstage

LEMMA ExecCallsShape ==
    ASSUME Base, NEW e \in exec,
           \/ ExecSupersedes(e) \/ ExecRecordsStart(e) \/ ExecRecordsResult(e)
           \/ ExecSettles(e)
    PROVE  \E f : Moves(e, f)
<1> DEFINE d == e.claim[1]
           k == e.claim[2]
<1> USE BaseStore
<1>1. /\ d \in Dispatch /\ k \in 1..claims[d] /\ e.claim = <<d, k>> /\ e \in ExecRecord
  BY ExecIsTyped
<1>2. OnlyExec
  BY DEF ExecSupersedes, ExecRecordsStart, ExecRecordsResult, ExecSettles
<1>3. CASE ExecSupersedes(e) \/ ExecSettles(e)
  <2>1. PICK at \in {"release", "close", "letter"} : ExecAt(e, at)
    BY <1>3 DEF ExecSupersedes, ExecSettles
  <2>2. PICK f : /\ f \in ExecRecord /\ f.claim = e.claim /\ f.on = e.on /\ f.at = at
                 /\ exec' = (exec \ {e}) \cup {f}
    BY <2>1, ExecAtIs DEF ExecPlace
  <2>3. e.at \in {"supersede", "settle"} BY <1>3 DEF ExecSupersedes, ExecSettles, ExecIs
  <2>4. /\ HolderCalm(d) /\ ~Current(<<d, k>>)'
        /\ AcksNone \/ ExecSettles(e)
    <3>1. CASE ExecSupersedes(e)
      <4>1. StoreCall(SupersedeClaimed(d, k), d, k) BY <3>1 DEF ExecSupersedes
      <4> HIDE DEF d, k
      <4>2. HolderCalm(d) /\ ~Current(<<d, k>>)' /\ (AcksNone \/ "Permanent" \notin {"Transient", "Permanent"})
        BY <1>1, <4>1, LeaveCalm
      <4> QED BY <4>2
    <3>2. CASE ExecSettles(e)
      <4>1. StoreCall(Settled(e.outcome, d, k), d, k) BY <3>2 DEF ExecSettles
      <4> HIDE DEF d, k
      <4>2. HolderCalm(d) /\ ~Current(<<d, k>>)' BY <1>1, <4>1, LeaveCalm
      <4> QED BY <3>2, <4>2
    <3> QED BY <1>3, <3>1, <3>2
  <2>5. /\ e.at \notin Acting /\ f.at \notin Acting
        /\ f.at # "next" /\ e.at \notin {"release", "next"}
        /\ e.at \notin Gone /\ f.at \in Gone
    BY <2>1, <2>2, <2>3 DEF Acting, Gone
  <2>6. ~Current(e.claim)' BY <1>1, <2>4
  <2>7. HolderCalm(e.claim[1]) BY <2>4
  <2> HIDE DEF d, k
  <2> QED BY <1>2, <2>2, <2>4, <2>5, <2>6, <2>7, MovesOffstage
<1>4. CASE ExecRecordsStart(e) \/ ExecRecordsResult(e)
  <2>1. /\ e.at \in {"start", "result"}
        /\ \/ StoreCall(RecordDispatchStart(d, k), d, k)
           \/ \E result \in Results : StoreCall(RecordRunResult(d, k, result), d, k)
    <3>1. {"Done", "Waiting"} \subseteq Results BY ServiceAssumption
    <3> QED BY <1>4, <3>1 DEF ExecRecordsStart, ExecRecordsResult, ExecIs
  <2>2. /\ HolderCalm(d) /\ AcksNone
        /\ Owns(d, k) => Current(<<d, k>>)'
        /\ ~Owns(d, k) => ~Current(<<d, k>>)'
    <3> HIDE DEF d, k
    <3> QED BY <1>1, <2>1, StayCalm
  <2>3. PICK f : /\ f \in ExecRecord /\ f.claim = e.claim /\ f.on = e.on
                 /\ exec' = (exec \ {e}) \cup {f}
                 /\ f.at \in {"run", "result", "settle"} \/ (f.at = "refused" /\ ~Owns(d, k))
    <3>1. \/ \E at \in {"run", "settle"} : ExecAt(e, at)
          \/ "Permanent" \in Outcome /\ ExecEnds(e, "Permanent")
          \/ ~Owns(d, k) /\ ExecAt(e, "refused")
      BY <1>4 DEF ExecRecordsStart, ExecRecordsResult, Outcome
    <3>2. ASSUME NEW at \in {"run", "settle"}, ExecAt(e, at)
          PROVE  \E f : /\ f \in ExecRecord /\ f.claim = e.claim /\ f.on = e.on
                        /\ f.at = at /\ exec' = (exec \ {e}) \cup {f}
      BY <3>2, ExecAtIs DEF ExecPlace
    <3>3. ASSUME ExecAt(e, "refused")
          PROVE  \E f : /\ f \in ExecRecord /\ f.claim = e.claim /\ f.on = e.on
                        /\ f.at = "refused" /\ exec' = (exec \ {e}) \cup {f}
      BY <3>3, ExecAtIs DEF ExecPlace
    <3>4. ASSUME "Permanent" \in Outcome, ExecEnds(e, "Permanent")
          PROVE  \E f : /\ f \in ExecRecord /\ f.claim = e.claim /\ f.on = e.on
                        /\ f.at = "result" /\ exec' = (exec \ {e}) \cup {f}
      BY <3>4, ExecEndsIs
    <3> HIDE DEF d, k
    <3> QED BY <3>1, <3>2, <3>3, <3>4
  <2>4. /\ e.at \notin Acting /\ f.at \notin Acting
        /\ f.at # "next" /\ e.at \notin {"release", "next"}
        /\ e.at \notin Gone
        /\ f.at \in Gone => ~Owns(d, k)
    BY <2>1, <2>3 DEF Acting, Gone
  <2>5. /\ Owns(e.claim[1], e.claim[2]) => Current(e.claim)'
        /\ f.at \in Gone => ~Current(e.claim)'
    BY <1>1, <2>2, <2>4
  <2>6. HolderCalm(e.claim[1]) BY <2>2
  <2> HIDE DEF d, k
  <2> QED BY <1>2, <2>2, <2>3, <2>4, <2>5, <2>6, MovesOffstage
<1> QED BY <1>3, <1>4

\* register_run, and the steps of a run that has its slot.
LEMMA ExecRegistersShape ==
    ASSUME Base, NEW e \in exec, ExecRegisters(e)
    PROVE  \E f : Moves(e, f)
<1> DEFINE d == e.claim[1]
<1>1. e.claim \in ClaimId /\ d \in Dispatch /\ e.on \in Server BY ExecIsTyped
<1>2. /\ UNCHANGED storeVars /\ UNCHANGED taskVars /\ NoBound /\ e.at = "run"
  BY DEF ExecRegisters, ExecIs, hostVars, NoBound
<1>3. HolderCalm(d) /\ AcksNone BY <1>1, <1>2, BaseStore, RefusedCalm
<1>4. Owns(e.claim[1], e.claim[2]) => Current(e.claim)'
  BY <1>1, <1>2, OwnsIsCurrent, CurrentStands
<1>5. CASE active[e.on] = NoClaim
  <2>1. /\ active' = [active EXCEPT ![e.on] = e.claim] /\ ExecAt(e, "running")
    BY <1>5 DEF ExecRegisters
  <2>2. PICK f : /\ f \in ExecRecord /\ f.claim = e.claim /\ f.on = e.on
                 /\ f.at = "running" /\ exec' = (exec \ {e}) \cup {f}
    BY <2>1, ExecAtIs DEF ExecPlace
  <2>3. /\ f.at # "next" /\ e.at \notin {"release", "next"} /\ f.at \notin Gone
        /\ e.at \notin Gone /\ f.at \in Acting
    BY <1>2, <2>2 DEF Gone, Acting
  <2>4. active' = [active EXCEPT ![e.on] =
                     IF f.at \in Acting /\ e.at \notin Acting THEN e.claim
                     ELSE IF e.at \in Acting /\ f.at \notin Acting THEN NoClaim
                     ELSE active[e.on]]
    BY <1>2, <2>1, <2>3 DEF Acting
  <2> QED BY <1>2, <1>3, <1>4, <1>5, <2>2, <2>3, <2>4 DEF Moves
<1>6. CASE active[e.on] # NoClaim
  <2>1. "Permanent" \in Outcome /\ ExecEnds(e, "Permanent") /\ OnlyExec
    BY <1>6 DEF ExecRegisters, Outcome, OnlyExec
  <2>2. PICK f : /\ f \in ExecRecord /\ f.claim = e.claim /\ f.on = e.on
                 /\ f.at = "result" /\ exec' = (exec \ {e}) \cup {f}
    BY <2>1, ExecEndsIs
  <2>3. /\ f.at # "next" /\ e.at \notin {"release", "next"} /\ f.at \notin Gone
        /\ e.at \notin Gone /\ f.at \notin Acting /\ e.at \notin Acting
    BY <1>2, <2>2 DEF Gone, Acting
  <2> QED BY <1>2, <1>3, <1>4, <2>1, <2>2, <2>3, MovesOffstage
<1> QED BY <1>5, <1>6

LEMMA RunShape ==
    ASSUME Base, NEW e \in exec, RunStep(e)
    PROVE  Elsewhere \/ \E f : Moves(e, f)
<1> DEFINE d == e.claim[1]
<1>1. e.claim \in ClaimId /\ d \in Dispatch /\ e.on \in Server BY ExecIsTyped
<1>2. UNCHANGED storeVars /\ UNCHANGED taskVars /\ NoBound /\ e.at \in Acting
  BY DEF RunStep, RunCheckpoints, RunSuspends, RunResumes, RunEnds, SuspendedRunEnds,
     OnlyExec, ExecIs, hostVars, NoBound, Acting
<1>3. HolderCalm(d) /\ AcksNone BY <1>1, <1>2, BaseStore, RefusedCalm
<1>4. Owns(e.claim[1], e.claim[2]) => Current(e.claim)'
  BY <1>1, <1>2, OwnsIsCurrent, CurrentStands
<1>5. active \in [Server -> ClaimId \cup {NoClaim}] BY DEF Base, RuntimeType
<1>6. CASE RunCheckpoints(e)
  <2>1. UNCHANGED <<taskVars, exec, active, lapses, crashes>>
    BY <1>6 DEF RunCheckpoints, OnlyExec, runtimeVars, hostVars
  <2> QED BY <1>2, <2>1, StandsElsewhere
<1>7. CASE RunSuspends(e) \/ RunResumes(e)
  <2>1. PICK at \in {"running", "waiting"} : ExecAt(e, at)
    BY <1>7 DEF RunSuspends, RunResumes
  <2>2. PICK f : /\ f \in ExecRecord /\ f.claim = e.claim /\ f.on = e.on /\ f.at = at
                 /\ exec' = (exec \ {e}) \cup {f}
    BY <2>1, ExecAtIs DEF ExecPlace
  <2>3. /\ f.at # "next" /\ e.at \notin {"release", "next"} /\ f.at \notin Gone
        /\ e.at \notin Gone /\ f.at \in Acting
    BY <1>2, <2>2 DEF Gone, Acting
  <2>4. UNCHANGED active BY <1>7 DEF RunSuspends, RunResumes, OnlyExec, runtimeVars
  <2>5. active' = [active EXCEPT ![e.on] =
                     IF f.at \in Acting /\ e.at \notin Acting THEN e.claim
                     ELSE IF e.at \in Acting /\ f.at \notin Acting THEN NoClaim
                     ELSE active[e.on]]
    BY <1>1, <1>2, <1>5, <2>3, <2>4
  <2> QED BY <1>2, <1>3, <1>4, <2>2, <2>3, <2>5 DEF Moves
<1>8. CASE RunEnds(e) \/ SuspendedRunEnds(e)
  <2>1. PICK outcome \in Outcome : ExecEnds(e, outcome)
    BY <1>8 DEF RunEnds, SuspendedRunEnds, RunOutcomes, Outcome
  <2>2. PICK f : /\ f \in ExecRecord /\ f.claim = e.claim /\ f.on = e.on
                 /\ f.at = "result" /\ exec' = (exec \ {e}) \cup {f}
    BY <2>1, ExecEndsIs
  <2>3. /\ f.at # "next" /\ e.at \notin {"release", "next"} /\ f.at \notin Gone
        /\ e.at \notin Gone /\ f.at \notin Acting
    BY <1>2, <2>2 DEF Gone, Acting
  <2>4. active' = [active EXCEPT ![e.on] = NoClaim]
    BY <1>8 DEF RunEnds, SuspendedRunEnds, RunFreesSlot
  <2>5. active' = [active EXCEPT ![e.on] =
                     IF f.at \in Acting /\ e.at \notin Acting THEN e.claim
                     ELSE IF e.at \in Acting /\ f.at \notin Acting THEN NoClaim
                     ELSE active[e.on]]
    BY <1>2, <2>3, <2>4
  <2> QED BY <1>2, <1>3, <1>4, <2>2, <2>3, <2>5 DEF Moves
<1> QED BY <1>6, <1>7, <1>8 DEF RunStep

LEMMA ExecShape ==
    ASSUME Base, NEW e \in exec, ExecStep(e) \/ RunStep(e)
    PROVE  Elsewhere \/ ExecReleasesWorker(e) \/ ExecTriesNext(e) \/ \E f : Moves(e, f)
BY ExecReadsShape, ExecCallsShape, ExecRegistersShape, RunShape, Zenon DEF ExecStep

\* Every step has one of the shapes.
LEMMA NextShape ==
    ASSUME Base, [ServiceNext]_serviceVars
    PROVE  StepShape
<1>1. CASE UNCHANGED serviceVars
  <2>1. UNCHANGED storeVars /\ UNCHANGED <<taskVars, exec, active, lapses, crashes>>
    BY <1>1 DEF serviceVars, runtimeVars, hostVars
  <2> QED BY <2>1, StandsElsewhere DEF StepShape
<1>2. ASSUME NEW d \in Dispatch, SubmitStep(d) \/ TimePasses(d) PROVE StepShape
  <2>1. HomeOf[d] \in Server BY ServiceAssumption
  <2> QED BY <1>2, <2>1, SubmitShape, Zenon DEF StepShape
<1>3. ASSUME NEW p \in starting, StartExecution(p) PROVE StepShape
  BY <1>3, Zenon DEF StepShape
<1>4. ASSUME NEW e \in exec, ExecStep(e) \/ RunStep(e) PROVE StepShape
  BY <1>4, ExecShape, Zenon DEF StepShape
<1>5. ASSUME NEW p \in renewals, RenewLease(p) PROVE StepShape
  BY <1>5, Zenon DEF StepShape
<1>6. ASSUME \/ \E c \in calls : CallStep(c)
             \/ \E s \in Server : ApiInterrupts(s) \/ \E d \in Dispatch : ApiCancelsDispatch(s, d)
      PROVE  StepShape
  BY <1>6, CallShape DEF StepShape
<1>7. ASSUME NEW s \in Server, ServerStep(s) PROVE StepShape
  BY <1>7, SweepShape, RecoverShape, Zenon DEF ServerStep, StepShape
<1>8. ASSUME NEW s \in Server, Crash(s) PROVE StepShape
  BY <1>8, Zenon DEF StepShape
<1>9. ASSUME NEW s \in Server, Restart(s) PROVE StepShape
  <2>1. UNCHANGED storeVars /\ UNCHANGED <<taskVars, exec, active, lapses, crashes>>
    BY <1>9 DEF Restart, runtimeVars
  <2> QED BY <2>1, StandsElsewhere DEF StepShape
<1> QED
  BY <1>1, <1>2, <1>3, <1>4, <1>5, <1>6, <1>7, <1>8, <1>9, Zenon DEF ServiceNext

-----------------------------------------------------------------------------
(* What every step does to the store: the service uses it as it is meant   *)
(* to be used, and a claim that is lost is lost for good.                  *)

LEMMA RenewShape ==
    ASSUME Base, NEW p \in renewals, RenewLease(p)
    PROVE  /\ p.claim \in ClaimId /\ p.on \in Server
           /\ HolderCalm(p.claim[1]) /\ AcksNone
           /\ \/ Owns(p.claim[1], p.claim[2]) /\ renewals' = renewals
              \/ ~Current(p.claim)' /\ renewals' = renewals \ {p}
           /\ UNCHANGED <<worker, claiming, empty, starting, exec, active, lapses, crashes>>
<1> DEFINE d == p.claim[1]
           k == p.claim[2]
<1>1. p.claim \in Dispatch \X (1..MaxAttempts) /\ p.on \in Server /\ Issued(p.claim)
  BY DEF Base, TasksType, Task, ClaimId, IssuedInv
<1>2. d \in Dispatch /\ k \in 1..claims[d] /\ p.claim = <<d, k>>
  BY <1>1 DEF Issued
<1>3. StoreCall(ExtendLease(d, k), d, k) BY DEF RenewLease
<1>4. /\ HolderCalm(d) /\ AcksNone
      /\ ~Owns(d, k) => ~Current(<<d, k>>)'
  <2> HIDE DEF d, k
  <2> QED BY <1>2, <1>3, BaseStore, StayCalm
<1>5. /\ \/ Owns(d, k) /\ renewals' = renewals
         \/ ~Owns(d, k) /\ renewals' = renewals \ {p}
      /\ UNCHANGED <<worker, claiming, empty, starting, exec, active, lapses, crashes>>
  BY DEF RenewLease, hostVars
<1> QED BY <1>1, <1>2, <1>4, <1>5 DEF ClaimId

LEMMA SubmitClaimsShape ==
    ASSUME Base, NEW d \in Dispatch, SubmitClaims(d)
    PROVE  /\ WinEffect({d}) /\ ClaimWon(HomeOf[d], {d}) /\ HomeOf[d] \in Server
           /\ UNCHANGED <<worker, claiming, empty, exec, active, lapses, crashes>>
           /\ submit[d].at = "claim"
<1>1. WinEffect({d}) BY BaseStore, ClaimDispatchWins DEF SubmitClaims
<1> QED BY <1>1, ServiceAssumption DEF SubmitClaims, SubmitIs, runtimeVars, hostVars

\* claim() hands out one dispatch, or none.
LEMMA ClaimNextShape ==
    ASSUME Base, NEW s \in Server, ClaimNext(s)
    PROVE  \E won : /\ WinEffect(won) /\ ClaimWon(s, won)
                    /\ \A o \in won : dispatches[o].available
                    /\ claiming[s] > 0 /\ claiming' = [claiming EXCEPT ![s] = claiming[s] - 1]
                    /\ empty' = IF won = {} THEN [empty EXCEPT ![s] = empty[s] + 1] ELSE empty
                    /\ UNCHANGED <<worker, exec, active, lapses, crashes>>
<1> DEFINE won == {d \in Dispatch : claims'[d] # claims[d]}
<1>1. WinEffect(won) /\ \A o \in won : dispatches[o].available
  BY BaseStore, ClaimWins DEF ClaimNext
<1>2. /\ ClaimWon(s, won)
      /\ claiming[s] > 0 /\ claiming' = [claiming EXCEPT ![s] = claiming[s] - 1]
      /\ empty' = IF won = {} THEN [empty EXCEPT ![s] = empty[s] + 1] ELSE empty
      /\ UNCHANGED <<worker, exec, active, lapses, crashes>>
  BY DEF ClaimNext, runtimeVars, hostVars
<1> HIDE DEF won
<1> QED BY <1>1, <1>2

LEMMA StepUsesStore ==
    ASSUME Base, StepShape
    PROVE  /\ [StoreNext]_storeVars
           /\ CalmStore \/ \E won : WinEffect(won)
<1> DEFINE Goal == [StoreNext]_storeVars /\ (CalmStore \/ \E won : WinEffect(won))
<1>1. UNCHANGED storeVars => Goal BY BaseStore, UnchangedIsCalm
<1>2. ASSUME Elsewhere PROVE Goal BY <1>2 DEF Elsewhere
<1>3. ASSUME NEW d \in Dispatch, TimePasses(d) \/ SubmitClaims(d) PROVE Goal
  <2>1. CASE TimePasses(d)
    <3>1. CalmStore /\ StoreNext BY <2>1, BaseStore, TimeCalm DEF TimePasses
    <3> QED BY <3>1
  <2>2. CASE SubmitClaims(d)
    <3>1. WinEffect({d}) BY <2>2, SubmitClaimsShape
    <3>2. StoreNext BY <3>1 DEF WinEffect
    <3> QED BY <3>1, <3>2
  <2> QED BY <1>3, <2>1, <2>2
<1>4. ASSUME NEW s \in Server, Tries(s) \/ RevertClaiming(s) \/ Crash(s) PROVE Goal
  <2>1. UNCHANGED storeVars BY <1>4 DEF Tries, RevertClaiming, Crash
  <2> QED BY <1>1, <2>1
<1>5. ASSUME NEW s \in Server, ClaimNext(s) PROVE Goal
  <2>1. PICK won : WinEffect(won) BY <1>5, ClaimNextShape
  <2>2. StoreNext BY <2>1 DEF WinEffect
  <2> QED BY <2>1, <2>2
<1>6. ASSUME NEW p \in starting, StartExecution(p) PROVE Goal
  BY <1>1, <1>6 DEF StartExecution
<1>7. ASSUME NEW e \in exec, ExecReleasesWorker(e) \/ ExecTriesNext(e) PROVE Goal
  BY <1>1, <1>7 DEF ExecReleasesWorker, ExecTriesNext
<1>8. ASSUME NEW e \in exec, NEW f, Moves(e, f) PROVE Goal
  BY <1>8 DEF Moves, HolderCalm
<1>9. ASSUME NEW p \in renewals, RenewLease(p) PROVE Goal
  BY <1>9, RenewShape DEF HolderCalm
<1> HIDE DEF Goal
<1>10. Goal
  BY <1>2, <1>3, <1>4, <1>5, <1>6, <1>7, <1>8, <1>9 DEF StepShape
<1> QED BY <1>10 DEF Goal

\* Claims are counted upwards; a claim that is not the store's, or is not yet
\* issued, does not become it by the count of another.
LEMMA LedgerStands ==
    ASSUME StoreIInv, NotPurged, TokenInv, CalmStore \/ \E won : WinEffect(won)
    PROVE  /\ NotPurged' /\ TokenInv'
           /\ \A o \in Dispatch : claims[o] \in Nat /\ claims'[o] \in Nat /\ claims[o] <= claims'[o]
           /\ \A o \in Dispatch : IsStored(o) => IsStored(o)'
           /\ \A o \in Dispatch, k \in Nat :
                 Current(<<o, k>>)' /\ k <= claims[o] => Current(<<o, k>>)
<1>0. \A o \in Dispatch : /\ claims[o] \in Nat /\ dispatches[o].status \in Status
                          /\ dispatches[o].status # "Purged"
  BY Local DEF DispatchRecord, NotPurged, StatusOf
<1>1. CASE CalmStore
  <2>1. ASSUME NEW o \in Dispatch
        PROVE  /\ StatusOf(o)' # "Purged" /\ claims'[o] = claims[o]
               /\ IsStored(o) => IsStored(o)'
               /\ IsClaimed(o)' => IsClaimed(o) /\ dispatches'[o].token = dispatches[o].token
    <3>1. Calm(dispatches[o], dispatches'[o]) /\ claims'[o] = claims[o]
      BY <1>1 DEF CalmStore
    <3> QED BY <1>0, <3>1 DEF Calm, StatusOf, IsStored, IsClaimed
  <2>2. NotPurged' BY <2>1 DEF NotPurged
  <2>3. TokenInv' BY <2>1 DEF TokenInv
  <2>4. ASSUME NEW o \in Dispatch, NEW k \in Nat, Current(<<o, k>>)'
        PROVE  Current(<<o, k>>)
    BY <2>1, <2>4 DEF Current, HasToken, IsClaimed, IsStored, StatusOf
  <2> QED BY <1>0, <2>1, <2>2, <2>3, <2>4
<1>2. ASSUME NEW won, WinEffect(won)
      PROVE  /\ NotPurged' /\ TokenInv'
             /\ \A o \in Dispatch : claims[o] \in Nat /\ claims'[o] \in Nat /\ claims[o] <= claims'[o]
             /\ \A o \in Dispatch : IsStored(o) => IsStored(o)'
             /\ \A o \in Dispatch, k \in Nat :
                   Current(<<o, k>>)' /\ k <= claims[o] => Current(<<o, k>>)
  <2>1. ASSUME NEW o \in Dispatch, o \notin won
        PROVE  dispatches'[o] = dispatches[o] /\ claims'[o] = claims[o]
    BY <1>2, <2>1 DEF WinEffect
  <2>2. ASSUME NEW o \in won
        PROVE  /\ dispatches'[o].status = "Claimed"
               /\ dispatches'[o].token = claims[o] + 1 /\ claims'[o] = claims[o] + 1
    BY <1>2, <2>2 DEF WinEffect
  <2>3. NotPurged' BY <1>0, <2>1, <2>2 DEF NotPurged, StatusOf
  <2>4. TokenInv' BY <2>1, <2>2 DEF TokenInv, IsClaimed, StatusOf
  <2>5. \A o \in Dispatch : claims'[o] = claims[o] \/ claims'[o] = claims[o] + 1
    BY <2>1, <2>2
  <2>6. \A o \in Dispatch : claims[o] \in Nat /\ claims'[o] \in Nat /\ claims[o] <= claims'[o]
    BY <1>0, <2>5
  <2>7. \A o \in Dispatch : IsStored(o) => IsStored(o)'
    BY <2>1, <2>2 DEF IsStored, StatusOf
  <2>8. ASSUME NEW o \in Dispatch, NEW k \in Nat, Current(<<o, k>>)', k <= claims[o]
        PROVE  Current(<<o, k>>)
    <3>1. o \notin won
      <4>1. dispatches'[o].token = k BY <2>8 DEF Current, HasToken
      <4> QED BY <1>0, <2>2, <2>8, <4>1
    <3> QED BY <2>1, <2>8, <3>1 DEF Current, HasToken, IsClaimed, IsStored, StatusOf
  <2> QED BY <2>3, <2>4, <2>6, <2>7, <2>8
<1> QED BY <1>1, <1>2

-----------------------------------------------------------------------------
(* The types.                                                              *)

\* Issued claims stay issued.
LEMMA StoreStands ==
    ASSUME Base, StepShape
    PROVE  /\ StoreIInv' /\ NotPurged' /\ TokenInv'
           /\ \A c \in ClaimId : Issued(c) => Issued(c)'
           /\ \A d \in Dispatch : claims'[d] \in 0..MaxAttempts
<1>1. [StoreNext]_storeVars /\ (CalmStore \/ \E won : WinEffect(won))
  BY StepUsesStore
<1>2. StoreIInv' BY <1>1, BaseStore, StoreStepOK
<1>3. /\ NotPurged' /\ TokenInv'
      /\ \A o \in Dispatch : claims[o] \in Nat /\ claims'[o] \in Nat /\ claims[o] <= claims'[o]
  BY <1>1, LedgerStands DEF Base
<1>4. ASSUME NEW c \in ClaimId, Issued(c) PROVE Issued(c)'
  <2>1. c[1] \in Dispatch BY DEF ClaimId
  <2>2. c[2] \in 1..claims[c[1]] BY <1>4 DEF Issued
  <2>3. claims[c[1]] \in Nat /\ claims'[c[1]] \in Nat /\ claims[c[1]] <= claims'[c[1]]
    BY <1>3, <2>1
  <2>4. c[2] \in 1..claims'[c[1]] BY <2>2, <2>3
  <2> QED BY <2>4 DEF Issued
<1>5. ASSUME NEW d \in Dispatch PROVE claims'[d] \in 0..MaxAttempts
  <2>1. claims'[d] <= MaxAttempts BY <1>2 DEF StoreIInv, RecordOK
  <2> QED BY <1>3, <2>1, MaxAttemptsAssumption
<1> QED BY <1>2, <1>3, <1>4, <1>5

\* What is won becomes a task on the server, with a claim just issued.
LEMMA WonIsTyped ==
    ASSUME Base, StepShape, NEW s \in Server, NEW won, WinEffect(won), ClaimWon(s, won)
    PROVE  \E new : /\ new \subseteq Task
                    /\ \A p \in new : p.on = s /\ p.claim[1] \in won
                                      /\ p.claim = <<p.claim[1], claims'[p.claim[1]]>>
                                      /\ Issued(p.claim)'
                    /\ new = {[claim |-> <<d, claims'[d]>>, on |-> s] : d \in won}
                    /\ starting' = starting \cup new /\ renewals' = renewals \cup new
<1> DEFINE new == {[claim |-> <<d, claims'[d]>>, on |-> s] : d \in won}
<1>1. ASSUME NEW d \in won
      PROVE  /\ d \in Dispatch
             /\ claims'[d] \in 1..MaxAttempts /\ claims'[d] \in 1..claims'[d]
  <2>1. d \in Dispatch BY DEF WinEffect
  <2>2. claims'[d] = claims[d] + 1 BY DEF WinEffect
  <2>3. claims[d] \in Nat BY <2>1, BaseStore, Local
  <2>4. claims'[d] \in 0..MaxAttempts BY <2>1, StoreStands
  <2> QED BY <2>1, <2>2, <2>3, <2>4, MaxAttemptsAssumption
<1>2. ASSUME NEW p \in new
      PROVE  /\ p \in Task /\ p.on = s /\ p.claim[1] \in won
             /\ p.claim = <<p.claim[1], claims'[p.claim[1]]>>
             /\ Issued(p.claim)'
  <2>1. PICK d \in won : p = [claim |-> <<d, claims'[d]>>, on |-> s] OBVIOUS
  <2>2. p.claim = <<d, claims'[d]>> /\ p.on = s BY <2>1
  <2>3. <<d, claims'[d]>> \in ClaimId BY <1>1 DEF ClaimId
  <2>4. p \in Task BY <2>1, <2>3 DEF Task
  <2>5. Issued(p.claim)' BY <1>1, <2>2 DEF Issued
  <2> QED BY <2>2, <2>4, <2>5
<1>3. starting' = starting \cup new /\ renewals' = renewals \cup new BY DEF ClaimWon
<1> HIDE DEF new
<1>4. new \subseteq Task BY <1>2
<1> QED BY <1>2, <1>3, <1>4 DEF new

LEMMA TriesIs ==
    ASSUME Base, NEW s \in Server, TryDispatch(s)
    PROVE  \/ /\ worker[s] = Idle
              /\ worker' = [worker EXCEPT ![s] = Claiming]
              /\ claiming' = [claiming EXCEPT ![s] = claiming[s] + 1]
           \/ worker' = worker /\ claiming' = claiming
BY DEF TryDispatch

\* The old tasks stay issued, and the new ones are.
LEMMA TasksStandType ==
    ASSUME Base, StepShape
    PROVE  /\ TasksType' /\ IssuedInv' /\ WorkerType'
           /\ active' \in [Server -> ClaimId \cup {NoClaim}]
<1> DEFINE Goal == /\ TasksType' /\ IssuedInv' /\ WorkerType'
                   /\ active' \in [Server -> ClaimId \cup {NoClaim}]
<1>0. /\ starting \subseteq Task /\ renewals \subseteq Task /\ exec \subseteq ExecRecord
      /\ worker \in [Server -> WorkerState]
      /\ claiming \in [Server -> Nat] /\ empty \in [Server -> Nat]
      /\ active \in [Server -> ClaimId \cup {NoClaim}]
  BY DEF Base, TasksType, WorkerType, RuntimeType
<1>1. /\ \A t \in starting \cup renewals : t.claim \in ClaimId /\ Issued(t.claim)
      /\ \A e \in exec : e.claim \in ClaimId /\ Issued(e.claim)
  BY <1>0 DEF Base, IssuedInv, Task, ExecRecord
<1>2. /\ \A t \in starting \cup renewals : Issued(t.claim)'
      /\ \A e \in exec : Issued(e.claim)'
  BY <1>1, StoreStands
<1>3. ASSUME starting' \subseteq starting, renewals' \subseteq renewals, exec' \subseteq exec,
             worker' \in [Server -> WorkerState], claiming' \in [Server -> Nat],
             empty' \in [Server -> Nat], active' \in [Server -> ClaimId \cup {NoClaim}]
      PROVE  Goal
  BY <1>0, <1>2, <1>3 DEF TasksType, IssuedInv, WorkerType
<1>4. Idle \in WorkerState /\ Claiming \in WorkerState
      /\ \A c \in ClaimId : RunningClaim(c) \in WorkerState
  BY DEF WorkerState
<1>5. ASSUME Elsewhere PROVE Goal
  <2>1. UNCHANGED <<worker, claiming, empty, starting, renewals, exec, active>>
    BY <1>5 DEF Elsewhere, taskVars
  <2> HIDE DEF Goal
  <2> QED BY <1>0, <1>3, <2>1
<1>6. ASSUME NEW d \in Dispatch, TimePasses(d) PROVE Goal
  <2>1. UNCHANGED <<worker, claiming, empty, starting, renewals, exec, active>>
    BY <1>6 DEF TimePasses, taskVars, runtimeVars
  <2> HIDE DEF Goal
  <2> QED BY <1>0, <1>3, <2>1
<1>7. ASSUME NEW s \in Server, NEW won, WinEffect(won), ClaimWon(s, won),
             UNCHANGED <<worker, exec, active>>,
             claiming' \in [Server -> Nat], empty' \in [Server -> Nat]
      PROVE  Goal
  <2>1. PICK new : /\ new \subseteq Task /\ \A p \in new : Issued(p.claim)'
                   /\ starting' = starting \cup new /\ renewals' = renewals \cup new
    BY <1>7, WonIsTyped
  <2>2. TasksType' BY <1>0, <1>7, <2>1 DEF TasksType
  <2>3. IssuedInv' BY <1>2, <1>7, <2>1 DEF IssuedInv
  <2> QED BY <1>0, <1>7, <2>2, <2>3 DEF WorkerType
<1>8. ASSUME NEW d \in Dispatch, SubmitClaims(d) PROVE Goal
  <2>1. /\ WinEffect({d}) /\ ClaimWon(HomeOf[d], {d}) /\ HomeOf[d] \in Server
        /\ UNCHANGED <<worker, exec, active>>
        /\ claiming' = claiming /\ empty' = empty
    BY <1>8, SubmitClaimsShape
  <2> HIDE DEF Goal
  <2> QED BY <1>0, <1>7, <2>1
<1>9. ASSUME NEW s \in Server, ClaimNext(s) PROVE Goal
  <2>1. PICK won : /\ WinEffect(won) /\ ClaimWon(s, won)
                   /\ claiming[s] > 0 /\ claiming' = [claiming EXCEPT ![s] = claiming[s] - 1]
                   /\ empty' = IF won = {} THEN [empty EXCEPT ![s] = empty[s] + 1] ELSE empty
                   /\ UNCHANGED <<worker, exec, active>>
    BY <1>9, ClaimNextShape
  <2>2. claiming[s] - 1 \in Nat /\ empty[s] + 1 \in Nat BY <1>0, <2>1
  <2>3. claiming' \in [Server -> Nat] /\ empty' \in [Server -> Nat]
    BY <1>0, <2>1, <2>2
  <2> HIDE DEF Goal
  <2> QED BY <1>7, <2>1, <2>3
<1>10. ASSUME NEW s \in Server, TryDispatch(s)
       PROVE  worker' \in [Server -> WorkerState] /\ claiming' \in [Server -> Nat]
  BY <1>0, <1>4, <1>10 DEF TryDispatch
<1>11. ASSUME NEW s \in Server, Tries(s) PROVE Goal
  <2>1. TryDispatch(s) /\ UNCHANGED <<empty, starting, renewals, exec, active>>
    BY <1>11 DEF Tries
  <2> HIDE DEF Goal
  <2> QED BY <1>0, <1>3, <1>10, <2>1
<1>12. ASSUME NEW s \in Server, RevertClaiming(s) PROVE Goal
  <2>1. /\ UNCHANGED <<claiming, starting, renewals, exec, active>>
        /\ empty[s] > 0 /\ empty' = [empty EXCEPT ![s] = empty[s] - 1]
        /\ worker' = worker \/ worker' = [worker EXCEPT ![s] = Idle]
    BY <1>12 DEF RevertClaiming, runtimeVars
  <2>2. empty[s] - 1 \in Nat BY <1>0, <2>1
  <2>3. empty' \in [Server -> Nat] /\ worker' \in [Server -> WorkerState]
    BY <1>0, <1>4, <2>1, <2>2
  <2> HIDE DEF Goal
  <2> QED BY <1>0, <1>3, <2>1, <2>3
<1>13. ASSUME NEW s \in Server, Crash(s) PROVE Goal
  <2>1. /\ worker' = [worker EXCEPT ![s] = Idle]
        /\ claiming' = [claiming EXCEPT ![s] = 0] /\ empty' = [empty EXCEPT ![s] = 0]
        /\ starting' \subseteq starting /\ renewals' \subseteq renewals /\ exec' \subseteq exec
        /\ active' = [active EXCEPT ![s] = NoClaim]
    BY <1>13 DEF Crash
  <2>2. /\ worker' \in [Server -> WorkerState] /\ claiming' \in [Server -> Nat]
        /\ empty' \in [Server -> Nat] /\ active' \in [Server -> ClaimId \cup {NoClaim}]
    BY <1>0, <1>4, <2>1
  <2> HIDE DEF Goal
  <2> QED BY <1>3, <2>1, <2>2
<1>14. ASSUME NEW p \in starting, StartExecution(p) PROVE Goal
  <2>1. p \in Task /\ p.claim \in ClaimId /\ p.on \in Server BY <1>0 DEF Task
  <2>2. PICK e : /\ e = [claim |-> p.claim, on |-> p.on, at |-> "load", outcome |-> "None"]
                 /\ exec' = exec \cup {e}
    BY <1>14 DEF StartExecution
  <2>3. e \in ExecRecord /\ e.claim = p.claim
    BY <2>1, <2>2 DEF ExecRecord, ExecPlace, Outcome
  <2>4. /\ starting' = starting \ {p} /\ worker' = [worker EXCEPT ![p.on] = RunningClaim(p.claim)]
        /\ UNCHANGED <<claiming, empty, renewals, active>>
    BY <1>14 DEF StartExecution, runtimeVars
  <2>5. TasksType' BY <1>0, <2>2, <2>3, <2>4 DEF TasksType
  <2>6. IssuedInv' BY <1>2, <2>2, <2>3, <2>4 DEF IssuedInv
  <2>7. WorkerType' BY <1>0, <1>4, <2>1, <2>4 DEF WorkerType
  <2> QED BY <1>0, <2>4, <2>5, <2>6, <2>7
<1>15. ASSUME NEW e \in exec, NEW f, Moves(e, f) PROVE Goal
  <2>1. /\ f \in ExecRecord /\ f.claim = e.claim /\ exec' = (exec \ {e}) \cup {f}
        /\ UNCHANGED <<worker, claiming, empty, starting, renewals>>
    BY <1>15 DEF Moves, taskVars
  <2>2. TasksType' BY <1>0, <2>1 DEF TasksType
  <2>3. IssuedInv' BY <1>2, <2>1 DEF IssuedInv
  <2>4. WorkerType' BY <1>0, <2>1 DEF WorkerType
  <2>5. e.on \in Server /\ e.claim \in ClaimId BY ExecIsTyped
  <2>6. PICK a \in ClaimId \cup {NoClaim} : active' = [active EXCEPT ![e.on] = a]
    <3>1. active[e.on] \in ClaimId \cup {NoClaim} BY <1>0, <2>5
    <3> QED BY <1>15, <2>5, <3>1 DEF Moves
  <2>7. active' \in [Server -> ClaimId \cup {NoClaim}] BY <1>0, <2>5, <2>6
  <2> QED BY <2>2, <2>3, <2>4, <2>7
<1>16. ASSUME NEW e \in exec, ExecReleasesWorker(e) PROVE Goal
  <2>1. PICK f : /\ f \in ExecRecord /\ f.claim = e.claim /\ exec' = (exec \ {e}) \cup {f}
    BY <1>16, ExecAtIs DEF ExecReleasesWorker, ExecPlace
  <2>2. /\ UNCHANGED <<claiming, empty, starting, active>>
        /\ renewals' \subseteq renewals
        /\ worker' = worker \/ worker' = [worker EXCEPT ![e.on] = Idle]
    BY <1>16 DEF ExecReleasesWorker, runtimeVars
  <2>3. TasksType' BY <1>0, <2>1, <2>2 DEF TasksType
  <2>4. IssuedInv' BY <1>2, <2>1, <2>2 DEF IssuedInv
  <2>5. WorkerType' BY <1>0, <1>4, <2>2 DEF WorkerType
  <2> QED BY <1>0, <2>2, <2>3, <2>4, <2>5
<1>17. ASSUME NEW e \in exec, ExecTriesNext(e) PROVE Goal
  <2>1. /\ TryDispatch(e.on) /\ exec' \subseteq exec
        /\ UNCHANGED <<empty, starting, renewals, active>>
    BY <1>17 DEF ExecTriesNext, runtimeVars
  <2>2. e.on \in Server BY ExecIsTyped
  <2> HIDE DEF Goal
  <2> QED BY <1>0, <1>3, <1>10, <2>1, <2>2
<1>18. ASSUME NEW p \in renewals, RenewLease(p) PROVE Goal
  <2>1. /\ renewals' \subseteq renewals
        /\ UNCHANGED <<worker, claiming, empty, starting, exec, active>>
    BY <1>18, RenewShape
  <2> HIDE DEF Goal
  <2> QED BY <1>0, <1>3, <2>1
<1> HIDE DEF Goal
<1>19. Goal
  BY <1>5, <1>6, <1>8, <1>9, <1>11, <1>12, <1>13, <1>14, <1>15, <1>16, <1>17, <1>18, Zenon
     DEF StepShape
<1> QED BY <1>19 DEF Goal

-----------------------------------------------------------------------------
(* The other variables: every step writes what its program would write.    *)

\* What the actions write.
LEMMA SubmitAtType ==
    ASSUME SubmitType, NEW d \in Dispatch, NEW at \in SubmitPlace, SubmitAt(d, at)
    PROVE  submit' \in [Dispatch -> SubmitRecord]
<1>1. submit \in [Dispatch -> SubmitRecord] BY DEF SubmitType
<1>2. submit[d] \in SubmitRecord BY <1>1
<1>3. [submit[d] EXCEPT !.at = at] \in SubmitRecord BY <1>2 DEF SubmitRecord
<1>4. submit' = [submit EXCEPT ![d] = [submit[d] EXCEPT !.at = at]]
  BY <1>1, Zenon DEF SubmitAt
<1> QED BY <1>1, <1>3, <1>4

LEMMA RunWrittenType ==
    ASSUME RunsType, NEW d \in Dispatch, NEW status \in {"None"} \cup Open \cup Closed
    PROVE  RunWritten(d, status) \in [Run -> RunRecord]
<1>1. RunOf[d] \in Run BY ServiceAssumption
<1>2. [status |-> status, by |-> <<d>>] \in RunRecord BY DEF RunRecord
<1> QED BY <1>1, <1>2 DEF RunsType, RunWritten

LEMMA RunClosedType ==
    ASSUME RunsType, NEW d \in Dispatch
    PROVE  /\ RunClosed(d, "Cancelled") \in [Run -> RunRecord]
           /\ RunClosed(d, "Errored") \in [Run -> RunRecord]
           /\ RunReconciled(d) \in [Run -> RunRecord]
<1>1. runs \in [Run -> RunRecord] BY DEF RunsType
<1>2. /\ RunWritten(d, "Cancelled") \in [Run -> RunRecord]
      /\ RunWritten(d, "Errored") \in [Run -> RunRecord]
  BY RunWrittenType DEF Closed
<1> QED BY <1>1, <1>2, Zenon DEF RunClosed, RunReconciled

LEMMA MaintWrittenType ==
    ASSUME MaintType, NEW s \in Server, NEW m \in MaintRecord,
           maint' = [maint EXCEPT ![s] = m]
    PROVE  MaintType'
BY DEF MaintType

\* The rest of Base after a step.
RestType == SubmitType /\ cancelled \subseteq Server /\ RunsType /\ MaintType /\ HostType

LEMMA MaintAtType ==
    ASSUME MaintType, NEW s \in Server, NEW at \in MaintPlace, MaintAt(s, at)
    PROVE  MaintType'
<1>1. maint[s] \in MaintRecord BY DEF MaintType
<1>2. [maint[s] EXCEPT !.at = at] \in MaintRecord BY <1>1 DEF MaintRecord
<1>3. maint' = [maint EXCEPT ![s] = [maint[s] EXCEPT !.at = at]]
  BY Zenon DEF MaintAt, MaintType
<1> QED BY <1>2, <1>3, MaintWrittenType

LEMMA RestOfBase ==
    ASSUME Base
    PROVE  /\ RestType
           /\ SubmitType /\ cancelled \subseteq Server /\ RunsType /\ MaintType /\ HostType
           /\ submit \in [Dispatch -> SubmitRecord] /\ calls \subseteq CallRecord
           /\ runs \in [Run -> RunRecord] /\ maint \in [Server -> MaintRecord]
           /\ \A d \in Dispatch : HomeOf[d] \in Server
BY ServiceAssumption DEF Base, RestType, RuntimeType, SubmitType, RunsType, MaintType

LEMMA RestStands ==
    ASSUME RestType, UNCHANGED <<submit, calls, cancelled, runs, maint, hostVars>>
    PROVE  RestType'
BY DEF RestType, SubmitType, RunsType, MaintType, HostType, hostVars

LEMMA SubmitRestType ==
    ASSUME Base, NEW d \in Dispatch, SubmitStep(d)
    PROVE  RestType'
<1> USE RestOfBase
<1>0. submit[d] \in SubmitRecord /\ HomeOf[d] \in Server OBVIOUS
<1>1. UNCHANGED <<calls, maint, hostVars>>
  BY DEF SubmitStep, SubmitInterrupts, SubmitClosesSuperseded, SubmitCancelsActive,
     SubmitRunWaitTimesOut, SubmitCancelsLive, SubmitWaitsForRelease, SubmitPreparesRun,
     SubmitEnqueues, SubmitClaims, SubmitLosesClaim, SubmitUndoes, SubmitReconciles,
     SubmitWakesWorker
<1>2. MaintType' /\ HostType' BY <1>1 DEF MaintType, HostType, hostVars
<1>3. /\ submit' \in [Dispatch -> SubmitRecord]
      /\ runs' \in [Run -> RunRecord] /\ cancelled' \subseteq Server
  <2>1. CASE SubmitInterrupts(d)
    <3> DEFINE r == [at |-> "interrupted", todo |-> {o \in Dispatch : IsQueued(o)},
                     found |-> {o \in Dispatch : IsClaimed(o)}]
    <3>1. r \in SubmitRecord BY DEF SubmitRecord, SubmitPlace
    <3>2. submit' = [submit EXCEPT ![d] = r] /\ runs' = runs /\ cancelled' = cancelled
      BY <2>1 DEF SubmitInterrupts, runtimeVars
    <3> HIDE DEF r
    <3> QED BY <3>1, <3>2
  <2>2. CASE SubmitClosesSuperseded(d)
    <3>1. PICK o \in submit[d].todo :
            /\ runs' = RunClosed(o, "Cancelled")
            /\ submit' = [submit EXCEPT ![d] = [submit[d] EXCEPT !.todo = submit[d].todo \ {o}]]
            /\ cancelled' = cancelled
      BY <2>2, Zenon DEF SubmitClosesSuperseded, runtimeVars
    <3>2. o \in Dispatch /\ [submit[d] EXCEPT !.todo = submit[d].todo \ {o}] \in SubmitRecord
      BY <1>0 DEF SubmitRecord
    <3> QED BY <3>1, <3>2, RunClosedType
  <2>3. CASE \/ SubmitCancelsActive(d) \/ SubmitRunWaitTimesOut(d) \/ SubmitCancelsLive(d)
             \/ SubmitWaitsForRelease(d) \/ SubmitEnqueues(d) \/ SubmitClaims(d)
             \/ SubmitLosesClaim(d) \/ SubmitUndoes(d) \/ SubmitWakesWorker(d)
    <3>1. \E at \in SubmitPlace : SubmitAt(d, at)
      BY <2>3 DEF SubmitCancelsActive, SubmitRunWaitTimesOut, SubmitCancelsLive,
           SubmitWaitsForRelease, SubmitEnqueues, SubmitClaims, SubmitLosesClaim,
           SubmitUndoes, SubmitWakesWorker, SubmitPlace
    <3>2. runs' = runs /\ cancelled' \subseteq Server
      BY <2>3 DEF SubmitCancelsActive, SubmitRunWaitTimesOut, SubmitCancelsLive,
           SubmitWaitsForRelease, SubmitEnqueues, SubmitClaims, SubmitLosesClaim,
           SubmitUndoes, SubmitWakesWorker, runtimeVars, CancelActiveOn, SubscribersOf
    <3> QED BY <3>1, <3>2, SubmitAtType
  <2>4. CASE SubmitPreparesRun(d)
    <3>1. \E at \in SubmitPlace : SubmitAt(d, at)
      BY <2>4 DEF SubmitPreparesRun, SubmitPlace
    <3>2. RunOf[d] \in Run BY ServiceAssumption
    <3>3. [status |-> IF runs[RunOf[d]].status = "Waiting" THEN "Waiting" ELSE "Created",
           by |-> <<d>>] \in RunRecord
      BY DEF RunRecord, Open
    <3>4. runs' \in [Run -> RunRecord] BY <2>4, <3>2, <3>3 DEF SubmitPreparesRun
    <3>5. cancelled' = cancelled BY <2>4 DEF SubmitPreparesRun, runtimeVars
    <3> QED BY <3>1, <3>4, <3>5, SubmitAtType
  <2>5. CASE SubmitReconciles(d)
    <3>1. "conflict" \in SubmitPlace /\ SubmitAt(d, "conflict") /\ runs' = RunReconciled(d)
          /\ cancelled' = cancelled
      BY <2>5 DEF SubmitReconciles, SubmitPlace, runtimeVars
    <3> QED BY <3>1, SubmitAtType, RunClosedType
  <2> QED BY <2>1, <2>2, <2>3, <2>4, <2>5 DEF SubmitStep
<1> QED BY <1>1, <1>2, <1>3 DEF RestType, SubmitType, RunsType

LEMMA OutcomesTyped ==
    ASSUME NEW e \in exec, NEW outcome \in RunOutcomes(e)
    PROVE  outcome \in Outcome
BY DEF RunOutcomes, Outcome

\* A run that ends may tell the submits that wait for it.
LEMMA NotifiesType ==
    ASSUME SubmitType, NEW s \in Server, RunNotifiesWaiters(s)
    PROVE  submit' \in [Dispatch -> SubmitRecord]
<1>1. submit \in [Dispatch -> SubmitRecord] BY DEF SubmitType
<1>2. ASSUME NEW o \in Dispatch
      PROVE  /\ submit[o] \in SubmitRecord
             /\ [submit[o] EXCEPT !.at = "waitStore"] \in SubmitRecord
  BY <1>1 DEF SubmitRecord, SubmitPlace
<1> QED BY <1>1, <1>2 DEF RunNotifiesWaiters

LEMMA FinalIsOutcome ==
    ASSUME RunsType, NEW e \in exec, e.claim[1] \in Dispatch, NEW outcome,
           LeavesRecord(e, outcome)
    PROVE  runs' \in [Run -> RunRecord]
<1>1. CASE outcome \in DOMAIN FinalStatus /\ runs' = RunWritten(e.claim[1], FinalStatus[outcome])
  <2>1. FinalStatus[outcome] \in {"None"} \cup Open \cup Closed
    BY <1>1 DEF FinalStatus, Open, Closed
  <2> QED BY <1>1, <2>1, RunWrittenType
<1>2. CASE UNCHANGED runs BY <1>2 DEF RunsType
<1> QED BY <1>1, <1>2 DEF LeavesRecord

LEMMA ExecRestType ==
    ASSUME Base, NEW e \in exec, ExecStep(e) \/ RunStep(e)
    PROVE  RestType'
<1> USE RestOfBase
<1>0. e.claim[1] \in Dispatch /\ e.on \in Server BY ExecIsTyped
<1>1. UNCHANGED <<calls, maint, hostVars>>
  BY DEF ExecStep, RunStep, RunCheckpoints, RunSuspends, RunResumes, RunEnds,
     SuspendedRunEnds, ExecLoads, ExecChecksEpoch, ExecSupersedes, ExecClosesSuperseded,
     ExecRecordsStart, ExecRefused, ExecRegisters, ExecRecordsResult, ExecSettles,
     ExecClosesDeadLetter, ExecReleasesWorker, ExecTriesNext, OnlyExec
<1>2. MaintType' /\ HostType' BY <1>1 DEF MaintType, HostType, hostVars
<1>3. /\ submit' \in [Dispatch -> SubmitRecord]
      /\ runs' \in [Run -> RunRecord] /\ cancelled' \subseteq Server
  <2>1. CASE \/ ExecLoads(e) \/ ExecChecksEpoch(e) \/ ExecSupersedes(e)
             \/ ExecRecordsStart(e) \/ ExecRefused(e) \/ ExecRegisters(e)
             \/ ExecRecordsResult(e) \/ ExecSettles(e) \/ ExecReleasesWorker(e)
             \/ ExecTriesNext(e) \/ RunResumes(e)
    <3>1. submit' = submit /\ runs' = runs /\ cancelled' \subseteq cancelled
      BY <2>1 DEF ExecLoads, ExecChecksEpoch, ExecSupersedes, ExecRecordsStart, ExecRefused,
           ExecRegisters, ExecRecordsResult, ExecSettles, ExecReleasesWorker, ExecTriesNext,
           RunResumes, OnlyExec, runtimeVars
    <3> QED BY <3>1
  <2>2. CASE \/ ExecClosesSuperseded(e) \/ ExecClosesDeadLetter(e) \/ RunCheckpoints(e)
             \/ RunSuspends(e)
    <3>1. submit' = submit /\ cancelled' = cancelled
      BY <2>2 DEF ExecClosesSuperseded, ExecClosesDeadLetter, RunCheckpoints, RunSuspends,
           OnlyExec, runtimeVars
    <3>2. \/ \E how \in {"Cancelled", "Errored"} : runs' = RunClosed(e.claim[1], how)
          \/ \E status \in {"Running", "Waiting"} : runs' = RunWritten(e.claim[1], status)
      BY <2>2 DEF ExecClosesSuperseded, ExecClosesDeadLetter, RunCheckpoints, RunSuspends
    <3>3. runs' \in [Run -> RunRecord]
      BY <1>0, <3>2, RunClosedType, RunWrittenType DEF Open
    <3> QED BY <3>1, <3>3
  <2>3. CASE RunEnds(e) \/ SuspendedRunEnds(e)
    <3>1. RunNotifiesWaiters(e.on) /\ cancelled' = cancelled \ {e.on}
      BY <2>3 DEF RunEnds, SuspendedRunEnds, RunFreesSlot
    <3>2. \/ runs' = RunWritten(e.claim[1], "Waiting")
          \/ \E outcome : LeavesRecord(e, outcome)
      BY <2>3 DEF RunEnds, SuspendedRunEnds
    <3>3. runs' \in [Run -> RunRecord]
      BY <1>0, <3>2, RunWrittenType, FinalIsOutcome DEF Open
    <3> QED BY <1>0, <3>1, <3>3, NotifiesType
  <2> QED BY <2>1, <2>2, <2>3 DEF ExecStep, RunStep
<1> QED BY <1>1, <1>2, <1>3 DEF RestType, SubmitType, RunsType

LEMMA MaintRestType ==
    ASSUME Base, NEW s \in Server, SweepStep(s) \/ RecoverStep(s)
    PROVE  RestType'
<1> USE RestOfBase
<1>0. maint[s] \in MaintRecord OBVIOUS
<1>1. UNCHANGED <<submit, calls, cancelled, hostVars>>
  BY DEF SweepStep, SweepReclaims, SweepReconcilesReclaimed, SweepWakesWorker,
     SweepReconciles, RecoverStep, RecoverReclaims, RecoverWakesQueued, RecoverListsPrepared,
     RecoverLoads, RecoverEnqueues, RecoverEnds, runtimeVars
<1>2. SubmitType' /\ HostType' BY <1>1 DEF SubmitType, HostType, hostVars
<1>3. RunsType' /\ MaintType'
  <2>1. CASE SweepReclaims(s)
    <3>1. maint' = [maint EXCEPT ![s] = [maint[s] EXCEPT !.at = "reclaimed", !.todo = Changed]]
      BY <2>1, Zenon DEF SweepReclaims
    <3>2. [maint[s] EXCEPT !.at = "reclaimed", !.todo = Changed] \in MaintRecord
      BY <1>0 DEF MaintRecord, MaintPlace, Changed
    <3>3. runs' = runs BY <2>1 DEF SweepReclaims
    <3> QED BY <3>1, <3>2, <3>3, MaintWrittenType DEF RunsType
  <2>2. CASE SweepReconcilesReclaimed(s)
    <3>1. /\ MaintAt(s, "wakes") /\ "wakes" \in MaintPlace
          /\ \E d \in maint[s].todo : runs' = RunReconciled(d)
      BY <2>2 DEF SweepReconcilesReclaimed, MaintPlace
    <3>2. maint[s].todo \subseteq Dispatch BY <1>0 DEF MaintRecord
    <3> QED BY <3>1, <3>2, MaintAtType, RunClosedType DEF RunsType
  <2>3. CASE SweepWakesWorker(s) \/ RecoverEnds(s)
    <3>1. maint' = [maint EXCEPT ![s] = Sweeping] /\ runs' = runs
      BY <2>3 DEF SweepWakesWorker, RecoverEnds
    <3>2. Sweeping \in MaintRecord BY DEF Sweeping, MaintRecord, MaintPlace
    <3> QED BY <3>1, <3>2, MaintWrittenType DEF RunsType
  <2>4. CASE \E d \in Dispatch : SweepReconciles(s, d)
    <3>1. maint' = maint /\ \E d \in Dispatch : runs' = RunReconciled(d)
      BY <2>4 DEF SweepReconciles
    <3> QED BY <3>1, RunClosedType DEF RunsType, MaintType
  <2>5. CASE RecoverReclaims(s)
    <3>1. MaintAt(s, "queued") /\ "queued" \in MaintPlace /\ runs' = runs
      BY <2>5 DEF RecoverReclaims, MaintPlace
    <3> QED BY <3>1, MaintAtType DEF RunsType
  <2>6. CASE RecoverWakesQueued(s)
    <3>1. PICK wake \in {"done", "none"} :
            maint' = [maint EXCEPT ![s] = [maint[s] EXCEPT !.at = "list", !.wake = wake]]
      <4>1. PICK wake \in {"done", "none"} :
              wake = IF \E d \in Dispatch : IsQueued(d) THEN "done" ELSE "none"
        OBVIOUS
      <4> QED BY <2>6, <4>1, Zenon DEF RecoverWakesQueued
    <3>2. [maint[s] EXCEPT !.at = "list", !.wake = wake] \in MaintRecord
      BY <1>0 DEF MaintRecord, MaintPlace
    <3>3. runs' = runs BY <2>6 DEF RecoverWakesQueued
    <3> QED BY <3>1, <3>2, <3>3, MaintWrittenType DEF RunsType
  <2>7. CASE RecoverListsPrepared(s)
    <3>1. maint' = [maint EXCEPT ![s] = [maint[s] EXCEPT !.at = "prepared", !.todo = PreparedRuns]]
      BY <2>7, Zenon DEF RecoverListsPrepared
    <3>2. [maint[s] EXCEPT !.at = "prepared", !.todo = PreparedRuns] \in MaintRecord
      BY <1>0 DEF MaintRecord, MaintPlace, PreparedRuns
    <3>3. runs' = runs BY <2>7 DEF RecoverListsPrepared
    <3> QED BY <3>1, <3>2, <3>3, MaintWrittenType DEF RunsType
  <2>8. CASE RecoverLoads(s)
    <3>1. PICK d \in maint[s].todo :
            maint' = [maint EXCEPT ![s] =
              [maint[s] EXCEPT !.todo = @ \ {d},
                               !.pick = IF IsStored(d) THEN @ ELSE @ \cup {d},
                               !.at = IF IsStored(d) THEN "prepared" ELSE "enqueue"]]
      BY <2>8 DEF RecoverLoads
    <3>2. d \in Dispatch /\ maint[s].todo \ {d} \subseteq Dispatch
          /\ maint[s].pick \cup {d} \subseteq Dispatch
      BY <1>0 DEF MaintRecord
    <3> DEFINE r == [maint[s] EXCEPT !.todo = @ \ {d},
                                     !.pick = IF IsStored(d) THEN @ ELSE @ \cup {d},
                                     !.at = IF IsStored(d) THEN "prepared" ELSE "enqueue"]
    <3>3. r \in MaintRecord BY <1>0, <3>2 DEF MaintRecord, MaintPlace
    <3>4. maint' = [maint EXCEPT ![s] = r] BY <3>1
    <3>5. runs' = runs BY <2>8 DEF RecoverLoads
    <3> HIDE DEF r
    <3> QED BY <3>3, <3>4, <3>5, MaintWrittenType DEF RunsType
  <2>9. CASE RecoverEnqueues(s)
    <3>1. [Sweeping EXCEPT !.at = "boot"] \in MaintRecord
      BY DEF Sweeping, MaintRecord, MaintPlace
    <3> DEFINE r == [maint[s] EXCEPT !.at = "prepared", !.pick = {},
                                     !.wake = IF @ = "none" THEN "due" ELSE @]
    <3>2. r \in MaintRecord BY <1>0 DEF MaintRecord, MaintPlace
    <3>3. maint' = [maint EXCEPT ![s] = [Sweeping EXCEPT !.at = "boot"]]
          \/ maint' = [maint EXCEPT ![s] = r]
      BY <2>9 DEF RecoverEnqueues
    <3>4. runs' = runs BY <2>9 DEF RecoverEnqueues
    <3> HIDE DEF r
    <3> QED BY <3>1, <3>2, <3>3, <3>4, MaintWrittenType DEF RunsType
  <2> QED BY <2>1, <2>2, <2>3, <2>4, <2>5, <2>6, <2>7, <2>8, <2>9 DEF SweepStep, RecoverStep
<1> QED BY <1>1, <1>2, <1>3 DEF RestType

LEMMA CallRestType ==
    ASSUME Base,
           \/ \E c \in calls : CallStep(c)
           \/ \E s \in Server : ApiInterrupts(s) \/ \E d \in Dispatch : ApiCancelsDispatch(s, d)
    PROVE  RestType'
<1> USE RestOfBase
<1>1. ASSUME NEW c, c \in CallRecord, CallBegins(c) PROVE RestType'
  <2>1. /\ calls' = calls \cup {c} /\ called' = called + 1 /\ called < MaxCalls
        /\ UNCHANGED <<submit, cancelled, runs, maint, up, lapses, crashes>>
    BY <1>1 DEF CallBegins, runtimeVars
  <2>2. called' \in 0..MaxCalls BY <2>1, ServiceAssumption DEF HostType
  <2> QED BY <1>1, <2>1, <2>2 DEF RestType, SubmitType, RunsType, MaintType, HostType
<1>2. ASSUME NEW s \in Server, ApiInterrupts(s) PROVE RestType'
  <2>1. PICK c : /\ c = [on |-> s, byThread |-> TRUE, todo |-> {o \in Dispatch : IsQueued(o)},
                         found |-> {o \in Dispatch : IsClaimed(o)}]
                 /\ CallBegins(c)
    BY <1>2 DEF ApiInterrupts
  <2>2. c \in CallRecord BY <2>1 DEF CallRecord
  <2> QED BY <1>1, <2>1, <2>2
<1>3. ASSUME NEW s \in Server, NEW d \in Dispatch, ApiCancelsDispatch(s, d) PROVE RestType'
  <2>1. PICK c : /\ c = [on |-> s, byThread |-> FALSE,
                         todo |-> IF IsQueued(d) THEN {d} ELSE {},
                         found |-> IF IsQueued(d) THEN {} ELSE {d}]
                 /\ CallBegins(c)
    BY <1>3 DEF ApiCancelsDispatch
  <2>2. c \in CallRecord BY <2>1 DEF CallRecord
  <2> QED BY <1>1, <2>1, <2>2
<1>4. ASSUME NEW c \in calls, CallStep(c) PROVE RestType'
  <2>0. c \in CallRecord OBVIOUS
  <2>1. CASE CallClosesRun(c)
    <3>1. PICK o \in c.todo : /\ runs' = RunClosed(o, "Cancelled")
                              /\ calls' = (calls \ {c}) \cup {[c EXCEPT !.todo = c.todo \ {o}]}
      BY <2>1, Zenon DEF CallClosesRun
    <3>2. o \in Dispatch /\ [c EXCEPT !.todo = c.todo \ {o}] \in CallRecord
      BY <2>0 DEF CallRecord
    <3>3. UNCHANGED <<submit, cancelled, maint, hostVars>>
      BY <2>1 DEF CallClosesRun, runtimeVars
    <3> QED BY <3>1, <3>2, <3>3, RunClosedType
            DEF RestType, SubmitType, RunsType, MaintType, HostType, hostVars
  <2>2. CASE CallCancelsActive(c)
    <3>1. /\ calls' = calls \ {c} /\ UNCHANGED <<submit, runs, maint, hostVars>>
          /\ cancelled' \subseteq Server
      BY <2>0, <2>2 DEF CallCancelsActive, CallRecord, SubscribersOf
    <3> QED BY <3>1 DEF RestType, SubmitType, RunsType, MaintType, HostType, hostVars
  <2> QED BY <1>4, <2>1, <2>2 DEF CallStep
<1> QED BY <1>2, <1>3, <1>4

LEMMA OtherRestType ==
    ASSUME Base,
           \/ \E d \in Dispatch : TimePasses(d)
           \/ \E p \in starting : StartExecution(p)
           \/ \E p \in renewals : RenewLease(p)
           \/ \E s \in Server : \/ ClaimNext(s) \/ RevertClaiming(s)
                                \/ Crash(s) \/ Restart(s)
    PROVE  RestType'
<1> USE RestOfBase
<1>1. CASE \/ \E p \in starting : StartExecution(p)
           \/ \E s \in Server : ClaimNext(s) \/ RevertClaiming(s)
  <2>1. UNCHANGED <<submit, calls, cancelled, runs, maint, hostVars>>
    BY <1>1 DEF StartExecution, ClaimNext, RevertClaiming, runtimeVars
  <2> QED BY <2>1, RestStands
<1>2. ASSUME NEW d \in Dispatch, TimePasses(d) PROVE RestType'
  <2>1. /\ UNCHANGED <<submit, calls, cancelled, runs, maint, up, crashes, called>>
        /\ lapses' = lapses \/ (lapses < MaxLapses /\ lapses' = lapses + 1)
    BY <1>2 DEF TimePasses, runtimeVars
  <2>2. lapses' \in 0..MaxLapses BY <2>1, ServiceAssumption DEF HostType
  <2> QED BY <2>1, <2>2 DEF RestType, SubmitType, RunsType, MaintType, HostType
<1>3. ASSUME NEW p \in renewals, RenewLease(p) PROVE RestType'
  <2>1. p.on \in Server BY <1>3, RenewShape
  <2>2. /\ UNCHANGED <<submit, calls, runs, maint, hostVars>>
        /\ cancelled' \subseteq cancelled \cup {p.on}
    BY <1>3 DEF RenewLease, CancelActiveOn
  <2> QED BY <2>1, <2>2 DEF RestType, SubmitType, RunsType, MaintType, HostType, hostVars
<1>4. ASSUME NEW s \in Server, Crash(s) PROVE RestType'
  <2>1. /\ crashes < MaxCrashes /\ crashes' = crashes + 1 /\ up' = up \ {s}
        /\ UNCHANGED <<runs, lapses, called>>
        /\ cancelled' = cancelled \ {s} /\ calls' = {c \in calls : c.on # s}
        /\ maint' = [maint EXCEPT ![s] = [Sweeping EXCEPT !.at = "boot"]]
    BY <1>4 DEF Crash
  <2>2. crashes' \in 0..MaxCrashes BY <2>1, ServiceAssumption DEF HostType
  <2>3. [Sweeping EXCEPT !.at = "boot"] \in MaintRecord
    BY DEF Sweeping, MaintRecord, MaintPlace
  <2>4. [at |-> "lost", todo |-> {}, found |-> {}] \in SubmitRecord
    BY DEF SubmitRecord, SubmitPlace
  <2>5. submit' \in [Dispatch -> SubmitRecord] BY <1>4, <2>4 DEF Crash
  <2>6. MaintType' BY <2>1, <2>3, MaintWrittenType
  <2>7. HostType' BY <2>1, <2>2 DEF HostType
  <2> QED BY <2>1, <2>5, <2>6, <2>7 DEF RestType, SubmitType, RunsType
<1>5. ASSUME NEW s \in Server, Restart(s) PROVE RestType'
  <2>1. /\ UNCHANGED <<submit, calls, cancelled, runs, maint, lapses, crashes, called>>
        /\ up' = up \cup {s}
    BY <1>5 DEF Restart, runtimeVars
  <2> QED BY <2>1 DEF RestType, SubmitType, RunsType, MaintType, HostType
<1> QED BY <1>1, <1>2, <1>3, <1>4, <1>5

LEMMA RestStep ==
    ASSUME Base, [ServiceNext]_serviceVars
    PROVE  RestType'
<1>1. CASE UNCHANGED serviceVars
  <2>1. UNCHANGED <<submit, calls, cancelled, runs, maint, hostVars>>
    BY <1>1 DEF serviceVars, runtimeVars
  <2> QED BY <2>1, RestOfBase, RestStands
<1>2. ASSUME NEW s \in Server, ServerStep(s) PROVE RestType'
  BY <1>2, MaintRestType, OtherRestType DEF ServerStep
<1>3. CASE ServiceNext
  BY <1>2, <1>3, SubmitRestType, ExecRestType, CallRestType, OtherRestType, Zenon
     DEF ServiceNext
<1> QED BY <1>1, <1>3

-----------------------------------------------------------------------------
(* The base of the inductive invariants, and what it is for.               *)

LEMMA BaseInit == ServiceInit => Base
<1> SUFFICES ASSUME ServiceInit PROVE Base OBVIOUS
<1>1. StoreIInv BY StoreInitOK DEF ServiceInit
<1>2. \A d \in Dispatch : dispatches[d].status = "Absent" BY DEF ServiceInit, StoreInit, Blank
<1>3. NotPurged /\ TokenInv BY <1>2 DEF NotPurged, TokenInv, StatusOf, IsClaimed
<1>4. starting = {} /\ exec = {} /\ renewals = {} /\ calls = {} /\ cancelled = {} /\ up = Server
  BY DEF ServiceInit
<1>5. IssuedInv /\ TasksType BY <1>4 DEF IssuedInv, TasksType
<1>6. [at |-> "new", todo |-> {}, found |-> {}] \in SubmitRecord
  BY DEF SubmitRecord, SubmitPlace
<1>7. SubmitType BY <1>4, <1>6 DEF SubmitType, ServiceInit
<1>8. Idle \in WorkerState BY DEF WorkerState
<1>9. WorkerType BY <1>8 DEF WorkerType, ServiceInit
<1>10. RuntimeType BY <1>4 DEF RuntimeType, ServiceInit
<1>11. [status |-> "None", by |-> <<>>] \in RunRecord BY DEF RunRecord
<1>12. RunsType BY <1>11 DEF RunsType, ServiceInit
<1>13. Sweeping \in MaintRecord BY DEF Sweeping, MaintRecord, MaintPlace
<1>14. MaintType BY <1>13 DEF MaintType, ServiceInit
<1>15. HostType BY <1>4, ServiceAssumption DEF HostType, ServiceInit
<1> QED
  BY <1>1, <1>3, <1>5, <1>7, <1>9, <1>10, <1>12, <1>14, <1>15 DEF Base

LEMMA BaseStep == Base /\ [ServiceNext]_serviceVars => Base'
<1> SUFFICES ASSUME Base, [ServiceNext]_serviceVars PROVE Base' OBVIOUS
<1>1. StepShape BY NextShape
<1>2. StoreIInv' /\ NotPurged' /\ TokenInv' BY <1>1, StoreStands
<1>3. TasksType' /\ IssuedInv' /\ WorkerType'
      /\ active' \in [Server -> ClaimId \cup {NoClaim}]
  BY <1>1, TasksStandType
<1>4. RestType' BY RestStep
<1> QED BY <1>2, <1>3, <1>4 DEF Base, RestType, RuntimeType

THEOREM BaseHolds == ServiceSpec => []Base
<1> QED BY BaseInit, BaseStep, PTL DEF ServiceSpec

\* Every variable of the service keeps its type, whatever crashes, deadlines
\* that pass and calls there are.
THEOREM ServiceTypeHolds == ServiceSpec => []ServiceTypeOK
<1>1. Base => ServiceTypeOK
  <2> SUFFICES ASSUME Base PROVE ServiceTypeOK OBVIOUS
  <2>1. SubmitType => /\ submit \in [Dispatch -> SubmitRecord] /\ calls \subseteq CallRecord
    BY DEF SubmitType
  <2> QED
    BY <2>1 DEF Base, ServiceTypeOK, SubmitRecord, SubmitPlace, CallRecord, WorkerType,
       WorkerState, TasksType, ExecRecord, ExecPlace, Outcome, RuntimeType, RunsType, RunRecord,
       MaintType, MaintRecord, MaintPlace, HostType
<1> QED BY <1>1, BaseHolds, PTL

\* The service uses the store only by the calls that MailboxStore gives it,
\* with tokens that were issued, so every theorem about the store holds of
\* the service: a store that is shared by the tasks of all servers, and by
\* nobody else.
THEOREM ServiceUsesStore == ServiceSpec => StoreSpec
<1>1. ServiceInit => StoreInit BY DEF ServiceInit
<1>2. Base /\ [ServiceNext]_serviceVars => [StoreNext]_storeVars
  BY NextShape, StepUsesStore
<1> QED BY <1>1, <1>2, BaseHolds, PTL DEF ServiceSpec, StoreSpec

-----------------------------------------------------------------------------
(* Claims and their tasks: the inductive invariant that needs no bound.    *)

\* A task is there for the claim, on server s or on some server.
HasTaskOn(c, s) == \/ \E p \in starting : p.claim = c /\ p.on = s
                   \/ \E e \in exec : e.claim = c /\ e.on = s
HasTask(c) == \E s \in Server : HasTaskOn(c, s)

\* One task for a claim ...
Unique == /\ \A p, q \in starting : p.claim = q.claim => p = q
          /\ \A e, f \in exec : e.claim = f.claim => e = f
          /\ \A p \in starting, e \in exec : p.claim # e.claim

\* ... which ends only when the claim is over.
DoneLost == \A e \in exec : e.at \in Gone => ~Current(e.claim)

Executed == \A p \in renewals : Current(p.claim) => HasTaskOn(p.claim, p.on)
Held == crashes = 0 =>
            \A d \in Dispatch : IsClaimed(d) => HasTask(<<d, dispatches[d].token>>)

\* The slot of the registry is held by the run that registered.
RunIsActive == \A e \in exec : e.at \in Acting => active[e.on] = e.claim
ActiveIsRun ==
    \A s \in Server : active[s] # NoClaim =>
        \E e \in exec : e.on = s /\ e.claim = active[s] /\ e.at \in Acting

\* The worker of s that is not Idle has a task that will make it Idle.
WorkerKept ==
    \A s \in Server :
        /\ worker[s].status = "Running" =>
             \E e \in exec : e.on = s /\ e.claim = worker[s].claim /\ e.at # "next"
        /\ worker[s] = Claiming =>
             claiming[s] + empty[s] > 0 \/ \E p \in starting : p.on = s

TaskInv == Unique /\ DoneLost /\ Executed /\ Held
SlotInv == RunIsActive /\ ActiveIsRun
ServiceIInv == Base /\ TaskInv /\ SlotInv /\ WorkerKept

LEMMA TypedTasks ==
    ASSUME Base
    PROVE  /\ \A p \in starting \cup renewals :
                 p \in Task /\ p.claim \in ClaimId /\ p.on \in Server /\ Issued(p.claim)
           /\ \A e \in exec : /\ e \in ExecRecord /\ e.claim \in ClaimId /\ e.on \in Server
                              /\ Issued(e.claim)
           /\ \A d \in Dispatch : dispatches[d].token \in Nat /\ claims[d] \in Nat
<1>1. /\ starting \subseteq Task /\ renewals \subseteq Task /\ exec \subseteq ExecRecord
      /\ IssuedInv
  BY DEF Base, TasksType
<1>2. \A d \in Dispatch : dispatches[d].token \in Nat /\ claims[d] \in Nat
  BY BaseStore, Local DEF DispatchRecord
<1> QED BY <1>1, <1>2 DEF Task, ExecRecord, IssuedInv

LEMMA ClaimIsClaim ==
    ASSUME NEW c \in ClaimId
    PROVE  c # NoClaim /\ c[1] \in Dispatch /\ c[2] \in Nat /\ c = <<c[1], c[2]>>
BY MaxAttemptsAssumption DEF ClaimId, NoClaim

\* An issued claim that is over stays over.
LEMMA ClaimsFall ==
    ASSUME Base, StepShape, NEW c \in ClaimId, Issued(c), Current(c)'
    PROVE  Current(c)
<1>1. CalmStore \/ \E won : WinEffect(won) BY StepUsesStore
<1>2. \A o \in Dispatch, k \in Nat : Current(<<o, k>>)' /\ k <= claims[o] => Current(<<o, k>>)
  BY <1>1, LedgerStands DEF Base
<1>3. c[1] \in Dispatch /\ c[2] \in Nat /\ c = <<c[1], c[2]>> BY ClaimIsClaim
<1>4. c[2] <= claims[c[1]] BY <1>3, TypedTasks DEF Issued
<1>5. Current(<<c[1], c[2]>>)' BY <1>3
<1> QED BY <1>2, <1>3, <1>4, <1>5

\* A dispatch that a calm step leaves claimed was claimed, with its token.
LEMMA CalmClaimed ==
    ASSUME CalmStore, StoreIInv, NotPurged, NEW d \in Dispatch, IsClaimed(d)'
    PROVE  IsClaimed(d) /\ dispatches'[d].token = dispatches[d].token
<1>1. Calm(dispatches[d], dispatches'[d]) BY DEF CalmStore
<1>2. dispatches[d].status \in Status BY Local DEF DispatchRecord
<1> QED BY <1>1, <1>2 DEF Calm, IsClaimed, StatusOf, NotPurged

\* What keeps the claims' tasks: tasks may go on, but not appear or leave.
LEMMA TasksStand ==
    ASSUME Base, TaskInv, StepShape, CalmStore, crashes' = crashes,
           starting' = starting, renewals' \subseteq renewals, exec' = exec
    PROVE  TaskInv'
<1> USE TypedTasks
<1>1. Unique' BY DEF TaskInv, Unique
<1>2. DoneLost' BY ClaimsFall DEF TaskInv, DoneLost
<1>3. \A c, s : HasTaskOn(c, s)' <=> HasTaskOn(c, s) BY DEF HasTaskOn
<1>4. Executed' BY <1>3, ClaimsFall DEF TaskInv, Executed
<1>5. Held'
  <2> SUFFICES ASSUME crashes = 0, NEW d \in Dispatch, IsClaimed(d)'
               PROVE  HasTask(<<d, dispatches[d].token>>)'
    BY DEF Held
  <2>1. IsClaimed(d) /\ dispatches'[d].token = dispatches[d].token
    BY CalmClaimed, BaseStore
  <2>2. HasTask(<<d, dispatches[d].token>>) BY <2>1 DEF TaskInv, Held
  <2> QED BY <1>3, <2>1, <2>2 DEF HasTask
<1> QED BY <1>1, <1>2, <1>4, <1>5 DEF TaskInv

\* A claim that is won gets a task, which is the only one.
LEMMA TasksWin ==
    ASSUME Base, TaskInv, StepShape, NEW s \in Server, NEW won, WinEffect(won), ClaimWon(s, won),
           exec' = exec, crashes' = crashes
    PROVE  TaskInv'
<1> USE TypedTasks
<1>1. PICK new : /\ new \subseteq Task
                 /\ \A p \in new : p.on = s /\ p.claim[1] \in won
                                   /\ p.claim = <<p.claim[1], claims'[p.claim[1]]>>
                                   /\ Issued(p.claim)'
                 /\ new = {[claim |-> <<d, claims'[d]>>, on |-> s] : d \in won}
                 /\ starting' = starting \cup new /\ renewals' = renewals \cup new
  BY WonIsTyped
<1>2. /\ won \subseteq Dispatch /\ \A a, b \in won : a = b
      /\ \A o \in Dispatch \ won : dispatches'[o] = dispatches[o]
      /\ \A o \in won : dispatches'[o].token = claims[o] + 1 /\ claims'[o] = claims[o] + 1
  BY DEF WinEffect
<1>3. ASSUME NEW c \in ClaimId, Issued(c), NEW p \in new PROVE c # p.claim
  <2>1. p.claim[1] \in Dispatch /\ p.claim[1] \in won BY <1>1, <1>2
  <2>2. p.claim[2] = claims[p.claim[1]] + 1 BY <1>1, <1>2, <2>1
  <2>3. c[2] <= claims[c[1]] /\ c[1] \in Dispatch BY <1>3, ClaimIsClaim DEF Issued
  <2> QED BY <2>1, <2>2, <2>3
<1>4. \A p, q \in new : p = q
  <2> SUFFICES ASSUME NEW p \in new, NEW q \in new PROVE p = q OBVIOUS
  <2>1. p.claim = q.claim /\ p.on = q.on BY <1>1, <1>2
  <2>2. p \in Task /\ q \in Task BY <1>1
  <2> QED BY <2>1, <2>2 DEF Task
<1>5. Unique'
  <2>1. \A p, q \in starting' : p.claim = q.claim => p = q
    BY <1>1, <1>3, <1>4 DEF TaskInv, Unique
  <2>2. \A e, f \in exec' : e.claim = f.claim => e = f BY DEF TaskInv, Unique
  <2>3. \A p \in starting', e \in exec' : p.claim # e.claim
    BY <1>1, <1>3 DEF TaskInv, Unique
  <2> QED BY <2>1, <2>2, <2>3 DEF Unique
<1>6. DoneLost' BY ClaimsFall DEF TaskInv, DoneLost
<1>7. /\ \A c, r : HasTaskOn(c, r) => HasTaskOn(c, r)'
      /\ \A p \in new : HasTaskOn(p.claim, p.on)'
  BY <1>1 DEF HasTaskOn
<1>8. Executed' BY <1>1, <1>7, ClaimsFall DEF TaskInv, Executed
<1>9. Held'
  <2> SUFFICES ASSUME crashes = 0, NEW d \in Dispatch, IsClaimed(d)'
               PROVE  HasTask(<<d, dispatches[d].token>>)'
    BY DEF Held
  <2>1. CASE d \in won
    <3>1. dispatches'[d].token = claims'[d] BY <1>2, <2>1
    <3>2. PICK p \in new : p = [claim |-> <<d, claims'[d]>>, on |-> s] BY <1>1, <2>1
    <3>3. p.claim = <<d, dispatches'[d].token>> /\ p.on = s BY <3>1, <3>2
    <3>4. HasTaskOn(<<d, dispatches[d].token>>, s)' BY <1>7, <3>3
    <3> QED BY <3>4 DEF HasTask
  <2>2. CASE d \notin won
    <3>1. IsClaimed(d) /\ dispatches'[d].token = dispatches[d].token
      BY <1>2, <2>2 DEF IsClaimed, StatusOf
    <3>2. HasTask(<<d, dispatches[d].token>>) BY <3>1 DEF TaskInv, Held
    <3> QED BY <1>7, <3>1, <3>2 DEF HasTask
  <2> QED BY <2>1, <2>2
<1> QED BY <1>5, <1>6, <1>8, <1>9 DEF TaskInv

\* An execution that goes on, with its claim and its server.
LEMMA TasksMove ==
    ASSUME Base, TaskInv, StepShape, CalmStore, crashes' = crashes, starting' = starting,
           renewals' \subseteq renewals, NEW e \in exec, NEW f,
           f.claim = e.claim, f.on = e.on, exec' = (exec \ {e}) \cup {f},
           f.at \in Gone => ~Current(e.claim)'
    PROVE  TaskInv'
<1> USE TypedTasks
<1>1. Unique' BY DEF TaskInv, Unique
<1>2. DoneLost'
  <2> SUFFICES ASSUME NEW g \in exec', g.at \in Gone PROVE ~Current(g.claim)'
    BY DEF DoneLost
  <2>1. CASE g = f BY <2>1
  <2>2. CASE g \in exec BY <2>2, ClaimsFall DEF TaskInv, DoneLost
  <2> QED BY <2>1, <2>2
<1>3. \A c, s : HasTaskOn(c, s)' <=> HasTaskOn(c, s) BY DEF HasTaskOn
<1>4. Executed' BY <1>3, ClaimsFall DEF TaskInv, Executed
<1>5. Held'
  <2> SUFFICES ASSUME crashes = 0, NEW d \in Dispatch, IsClaimed(d)'
               PROVE  HasTask(<<d, dispatches[d].token>>)'
    BY DEF Held
  <2>1. IsClaimed(d) /\ dispatches'[d].token = dispatches[d].token
    BY CalmClaimed, BaseStore
  <2>2. HasTask(<<d, dispatches[d].token>>) BY <2>1 DEF TaskInv, Held
  <2> QED BY <1>3, <2>1, <2>2 DEF HasTask
<1> QED BY <1>1, <1>2, <1>4, <1>5 DEF TaskInv

\* The claim of a starting task gets its execution.
LEMMA TasksStart ==
    ASSUME Base, TaskInv, StepShape, NEW p \in starting, StartExecution(p)
    PROVE  TaskInv'
<1> USE TypedTasks
<1>1. PICK f : /\ f.claim = p.claim /\ f.on = p.on /\ f.at = "load"
               /\ exec' = exec \cup {f}
  BY DEF StartExecution
<1>2. /\ starting' = starting \ {p} /\ renewals' = renewals /\ crashes' = crashes
      /\ UNCHANGED storeVars
  BY DEF StartExecution, hostVars
<1>3. CalmStore BY <1>2, BaseStore, UnchangedIsCalm
<1>4. Unique' BY <1>1, <1>2 DEF TaskInv, Unique
<1>5. DoneLost'
  <2> SUFFICES ASSUME NEW g \in exec', g.at \in Gone PROVE ~Current(g.claim)'
    BY DEF DoneLost
  <2>1. g \in exec BY <1>1 DEF Gone
  <2> QED BY <2>1, ClaimsFall DEF TaskInv, DoneLost
<1>6. \A c, s : HasTaskOn(c, s)' <=> HasTaskOn(c, s) BY <1>1, <1>2 DEF HasTaskOn
<1>7. Executed' BY <1>2, <1>6, ClaimsFall DEF TaskInv, Executed
<1>8. Held'
  <2> SUFFICES ASSUME crashes = 0, NEW d \in Dispatch, IsClaimed(d)'
               PROVE  HasTask(<<d, dispatches[d].token>>)'
    BY <1>2 DEF Held
  <2>1. IsClaimed(d) /\ dispatches'[d].token = dispatches[d].token
    BY <1>3, CalmClaimed, BaseStore
  <2>2. HasTask(<<d, dispatches[d].token>>) BY <2>1 DEF TaskInv, Held
  <2> QED BY <1>6, <2>1, <2>2 DEF HasTask
<1> QED BY <1>4, <1>5, <1>7, <1>8 DEF TaskInv

\* An execution whose claim is over ends.
LEMMA TasksEnd ==
    ASSUME Base, TaskInv, StepShape, NEW e \in exec, ExecTriesNext(e)
    PROVE  TaskInv'
<1> USE TypedTasks
<1>1. /\ e.at = "next" /\ exec' = exec \ {e}
      /\ starting' = starting /\ renewals' = renewals /\ crashes' = crashes
      /\ UNCHANGED storeVars
  BY DEF ExecTriesNext, ExecIs, hostVars
<1>2. CalmStore BY <1>1, BaseStore, UnchangedIsCalm
<1>3. ~Current(e.claim) BY <1>1 DEF TaskInv, DoneLost, Gone
<1>4. Unique' BY <1>1 DEF TaskInv, Unique
<1>5. DoneLost' BY <1>1, ClaimsFall DEF TaskInv, DoneLost
<1>6. ASSUME NEW c, NEW s, c # e.claim PROVE HasTaskOn(c, s) => HasTaskOn(c, s)'
  BY <1>1, <1>6 DEF HasTaskOn
<1>7. Executed' BY <1>1, <1>3, <1>6, ClaimsFall DEF TaskInv, Executed
<1>8. Held'
  <2> SUFFICES ASSUME crashes = 0, NEW d \in Dispatch, IsClaimed(d)'
               PROVE  HasTask(<<d, dispatches[d].token>>)'
    BY <1>1 DEF Held
  <2>1. IsClaimed(d) /\ dispatches'[d].token = dispatches[d].token
    BY <1>2, CalmClaimed, BaseStore
  <2>2. HasTask(<<d, dispatches[d].token>>) BY <2>1 DEF TaskInv, Held
  <2>3. Current(<<d, dispatches[d].token>>)
    BY <2>1 DEF Current, HasToken, IsClaimed, IsStored, StatusOf
  <2>4. <<d, dispatches[d].token>> # e.claim BY <1>3, <2>3
  <2> QED BY <1>6, <2>1, <2>2, <2>4 DEF HasTask
<1> QED BY <1>4, <1>5, <1>7, <1>8 DEF TaskInv

\* A crash takes the tasks of a server, the renewals among them.
LEMMA TasksCrash ==
    ASSUME Base, TaskInv, StepShape, NEW s \in Server, Crash(s)
    PROVE  TaskInv'
<1> USE TypedTasks
<1>1. /\ starting' = {p \in starting : p.on # s} /\ renewals' = {p \in renewals : p.on # s}
      /\ exec' = {e \in exec : e.on # s} /\ crashes' = crashes + 1
  BY DEF Crash
<1>2. Unique' BY <1>1 DEF TaskInv, Unique
<1>3. DoneLost' BY <1>1, ClaimsFall DEF TaskInv, DoneLost
<1>4. ASSUME NEW c, NEW r, r # s PROVE HasTaskOn(c, r) => HasTaskOn(c, r)'
  BY <1>1, <1>4 DEF HasTaskOn
<1>5. Executed' BY <1>1, <1>4, ClaimsFall DEF TaskInv, Executed
<1>6. crashes' # 0 BY <1>1 DEF Base, HostType
<1>7. Held' BY <1>6 DEF Held
<1> QED BY <1>2, <1>3, <1>5, <1>7 DEF TaskInv

LEMMA ReleaseIs ==
    ASSUME Base, NEW e \in exec, ExecReleasesWorker(e)
    PROVE  /\ \E f : /\ f.claim = e.claim /\ f.on = e.on /\ f.at = "next"
                     /\ exec' = (exec \ {e}) \cup {f}
           /\ e.at = "release" /\ e.on \in Server
           /\ \/ /\ worker[e.on].status = "Running" /\ worker[e.on].claim[1] = e.claim[1]
                 /\ worker' = [worker EXCEPT ![e.on] = Idle]
                 /\ renewals' = renewals \ {[claim |-> worker[e.on].claim, on |-> e.on]}
              \/ /\ ~(worker[e.on].status = "Running" /\ worker[e.on].claim[1] = e.claim[1])
                 /\ worker' = worker /\ renewals' = renewals
           /\ UNCHANGED storeVars
           /\ UNCHANGED <<claiming, empty, starting, active, lapses, crashes>>
<1>1. e.on \in Server BY ExecIsTyped
<1>2. \E f : /\ f.claim = e.claim /\ f.on = e.on /\ f.at = "next"
             /\ exec' = (exec \ {e}) \cup {f}
  BY ExecAtIs DEF ExecReleasesWorker, ExecPlace
<1> QED BY <1>1, <1>2 DEF ExecReleasesWorker, ExecIs, runtimeVars, hostVars

LEMMA TaskStep ==
    ASSUME Base, TaskInv, StepShape
    PROVE  TaskInv'
<1>1. ASSUME UNCHANGED storeVars PROVE CalmStore BY <1>1, BaseStore, UnchangedIsCalm
<1>2. ASSUME Elsewhere PROVE TaskInv'
  BY <1>2, TasksStand DEF Elsewhere, NoBound, taskVars
<1>3. ASSUME NEW d \in Dispatch, TimePasses(d) PROVE TaskInv'
  <2>1. CalmStore BY <1>3, BaseStore, TimeCalm DEF TimePasses
  <2> QED BY <1>3, <2>1, TasksStand DEF TimePasses, taskVars
<1>4. ASSUME NEW d \in Dispatch, SubmitClaims(d) PROVE TaskInv'
  <2>1. /\ WinEffect({d}) /\ ClaimWon(HomeOf[d], {d}) /\ HomeOf[d] \in Server
        /\ exec' = exec /\ crashes' = crashes
    BY <1>4, SubmitClaimsShape
  <2> QED BY <2>1, TasksWin
<1>5. ASSUME NEW s \in Server, ClaimNext(s) PROVE TaskInv'
  <2>1. PICK won : /\ WinEffect(won) /\ ClaimWon(s, won)
                   /\ exec' = exec /\ crashes' = crashes
    BY <1>5, ClaimNextShape
  <2> QED BY <2>1, TasksWin
<1>6. ASSUME NEW s \in Server, Tries(s) \/ RevertClaiming(s) PROVE TaskInv'
  <2>1. UNCHANGED storeVars /\ UNCHANGED <<starting, renewals, exec, crashes>>
    BY <1>6 DEF Tries, RevertClaiming, NoBound, hostVars
  <2> QED BY <1>1, <2>1, TasksStand
<1>7. ASSUME NEW e \in exec, NEW f, Moves(e, f) PROVE TaskInv'
  <2>1. /\ f.claim = e.claim /\ f.on = e.on /\ exec' = (exec \ {e}) \cup {f}
        /\ CalmStore /\ UNCHANGED <<starting, renewals, crashes>>
    BY <1>7 DEF Moves, HolderCalm, taskVars, NoBound
  <2>2. f.at \in Gone => ~Current(e.claim)'
    <3>1. ASSUME e.at \in Gone PROVE ~Current(e.claim)'
      BY <3>1, TypedTasks, ClaimsFall DEF TaskInv, DoneLost
    <3> QED BY <1>7, <3>1 DEF Moves
  <2> QED BY <2>1, <2>2, TasksMove
<1>8. ASSUME NEW e \in exec, ExecReleasesWorker(e) PROVE TaskInv'
  <2>1. PICK f : /\ f.claim = e.claim /\ f.on = e.on /\ f.at = "next"
                 /\ exec' = (exec \ {e}) \cup {f}
    BY <1>8, ReleaseIs
  <2>2. /\ e.at = "release" /\ renewals' \subseteq renewals /\ UNCHANGED storeVars
        /\ UNCHANGED <<starting, crashes>>
    BY <1>8, ReleaseIs
  <2>3. ~Current(e.claim)' BY <2>2, TypedTasks, ClaimsFall DEF TaskInv, DoneLost, Gone
  <2> QED BY <1>1, <2>1, <2>2, <2>3, TasksMove
<1>9. ASSUME NEW p \in renewals, RenewLease(p) PROVE TaskInv'
  <2>1. /\ renewals' \subseteq renewals /\ HolderCalm(p.claim[1])
        /\ UNCHANGED <<starting, exec, crashes>>
    BY <1>9, RenewShape
  <2>2. CalmStore BY <2>1 DEF HolderCalm
  <2> QED BY <2>1, <2>2, TasksStand
<1> QED
  BY <1>2, <1>3, <1>4, <1>5, <1>6, <1>7, <1>8, <1>9, TasksStart, TasksEnd, TasksCrash, Zenon
     DEF StepShape

-----------------------------------------------------------------------------
(* The slot of the registry, and the worker.                               *)

LEMMA SlotStep ==
    ASSUME Base, TaskInv, SlotInv, StepShape
    PROVE  SlotInv'
<1> USE TypedTasks
<1>0. active \in [Server -> ClaimId \cup {NoClaim}] BY DEF Base, RuntimeType
<1>1. ASSUME exec' = exec, active' = active PROVE SlotInv'
  BY <1>1 DEF SlotInv, RunIsActive, ActiveIsRun
<1>2. ASSUME Elsewhere PROVE SlotInv' BY <1>1, <1>2 DEF Elsewhere
<1>3. ASSUME NEW d \in Dispatch, TimePasses(d) \/ SubmitClaims(d) PROVE SlotInv'
  BY <1>1, <1>3, SubmitClaimsShape DEF TimePasses, runtimeVars
<1>4. ASSUME NEW s \in Server, Tries(s) \/ RevertClaiming(s) PROVE SlotInv'
  BY <1>1, <1>4 DEF Tries, RevertClaiming, runtimeVars
<1>5. ASSUME NEW s \in Server, ClaimNext(s) PROVE SlotInv'
  BY <1>1, <1>5 DEF ClaimNext, runtimeVars
<1>6. ASSUME NEW p \in renewals, RenewLease(p) PROVE SlotInv'
  BY <1>1, <1>6 DEF RenewLease
<1>7. ASSUME NEW p \in starting, StartExecution(p) PROVE SlotInv'
  <2>1. PICK f : f.at = "load" /\ exec' = exec \cup {f} BY <1>7 DEF StartExecution
  <2>2. active' = active BY <1>7 DEF StartExecution, runtimeVars
  <2> QED BY <2>1, <2>2 DEF SlotInv, RunIsActive, ActiveIsRun, Acting
<1>8. ASSUME NEW s \in Server, Crash(s) PROVE SlotInv'
  <2>1. exec' = {e \in exec : e.on # s} /\ active' = [active EXCEPT ![s] = NoClaim]
    BY <1>8 DEF Crash
  <2>2. RunIsActive' BY <1>0, <2>1 DEF SlotInv, RunIsActive
  <2>3. ActiveIsRun' BY <1>0, <2>1 DEF SlotInv, ActiveIsRun
  <2> QED BY <2>2, <2>3 DEF SlotInv
<1>9. ASSUME NEW e \in exec, ExecTriesNext(e) PROVE SlotInv'
  <2>1. e.at = "next" /\ exec' = exec \ {e} /\ active' = active
    BY <1>9 DEF ExecTriesNext, ExecIs, runtimeVars
  <2> QED BY <2>1 DEF SlotInv, RunIsActive, ActiveIsRun, Acting
<1>10. ASSUME NEW e \in exec, ExecReleasesWorker(e) PROVE SlotInv'
  <2>1. PICK f : f.at = "next" /\ exec' = (exec \ {e}) \cup {f} BY <1>10, ReleaseIs
  <2>2. e.at = "release" /\ active' = active BY <1>10, ReleaseIs
  <2> QED BY <2>1, <2>2 DEF SlotInv, RunIsActive, ActiveIsRun, Acting
<1>11. ASSUME NEW e \in exec, NEW f, Moves(e, f) PROVE SlotInv'
  <2>1. /\ f.claim = e.claim /\ f.on = e.on /\ exec' = (exec \ {e}) \cup {f}
        /\ e.on \in Server /\ e.claim \in ClaimId /\ e.claim # NoClaim
        /\ f.at \in Acting /\ e.at \notin Acting => active[e.on] = NoClaim
    BY <1>11, ClaimIsClaim DEF Moves
  <2>2. /\ \A s \in Server : s # e.on => active'[s] = active[s]
        /\ f.at \in Acting /\ e.at \notin Acting => active'[e.on] = e.claim
        /\ e.at \in Acting /\ f.at \notin Acting => active'[e.on] = NoClaim
        /\ (e.at \in Acting <=> f.at \in Acting) => active'[e.on] = active[e.on]
    BY <1>0, <1>11, <2>1 DEF Moves
  <2>3. \A g \in exec : g.at \in Acting => active[g.on] = g.claim /\ g.claim # NoClaim
    BY ClaimIsClaim DEF SlotInv, RunIsActive
  <2>4. RunIsActive'
    <3> SUFFICES ASSUME NEW g \in exec', g.at \in Acting PROVE active'[g.on] = g.claim
      BY DEF RunIsActive
    <3>1. CASE g = f
      <4>1. e.at \in Acting => active[e.on] = e.claim BY <2>3
      <4> QED BY <2>1, <2>2, <3>1, <4>1
    <3>2. CASE g \in exec /\ g # e
      <4>1. active[g.on] = g.claim /\ g.claim # NoClaim BY <2>3, <3>2
      <4>2. g.claim # e.claim BY <3>2 DEF TaskInv, Unique
      <4>3. g.on \in Server BY <3>2
      <4>4. g.on = e.on => e.at \notin Acting /\ f.at \notin Acting
        BY <2>1, <2>3, <4>1, <4>2
      <4> QED BY <2>2, <4>1, <4>3, <4>4
    <3> QED BY <2>1, <3>1, <3>2
  <2>5. ActiveIsRun'
    <3> SUFFICES ASSUME NEW s \in Server, active'[s] # NoClaim
                 PROVE  \E g \in exec' : g.on = s /\ g.claim = active'[s] /\ g.at \in Acting
      BY DEF ActiveIsRun
    <3>1. CASE s = e.on /\ f.at \in Acting /\ e.at \notin Acting
      <4>1. f \in exec' BY <2>1
      <4> QED BY <2>1, <2>2, <3>1, <4>1
    <3>2. CASE ~(s = e.on /\ f.at \in Acting /\ e.at \notin Acting)
      <4>1. active'[s] = active[s] BY <2>2, <3>2
      <4>2. PICK g \in exec : g.on = s /\ g.claim = active[s] /\ g.at \in Acting
        BY <4>1 DEF SlotInv, ActiveIsRun
      <4>3. CASE g # e BY <2>1, <4>1, <4>2, <4>3
      <4>4. CASE g = e
        <5>1. f.at \in Acting BY <2>1, <2>2, <4>2, <4>4
        <5>2. f \in exec' BY <2>1
        <5> QED BY <2>1, <4>1, <4>2, <4>4, <5>1, <5>2
      <4> QED BY <4>3, <4>4
    <3> QED BY <3>1, <3>2
  <2> QED BY <2>4, <2>5 DEF SlotInv
<1> QED
  BY <1>2, <1>3, <1>4, <1>5, <1>6, <1>7, <1>8, <1>9, <1>10, <1>11, Zenon DEF StepShape

\* What a step leaves of the execution that a running worker waits for.
LEMMA WorkerStands ==
    ASSUME WorkerKept, worker' = worker, exec' = exec,
           starting \subseteq starting',
           \A s \in Server : claiming[s] + empty[s] > 0 =>
               claiming'[s] + empty'[s] > 0 \/ \E p \in starting' : p.on = s
    PROVE  WorkerKept'
BY DEF WorkerKept

LEMMA WorkerTries ==
    ASSUME Base, WorkerKept, NEW s \in Server, TryDispatch(s), empty' = empty,
           starting' = starting,
           \A e \in exec : e.at # "next" => e \in exec'
    PROVE  WorkerKept'
<1>0. /\ worker \in [Server -> WorkerState]
      /\ claiming \in [Server -> Nat] /\ empty \in [Server -> Nat]
  BY DEF Base, WorkerType
<1>1. CASE worker' = worker /\ claiming' = claiming
  BY <1>1 DEF WorkerKept
<1>2. CASE /\ worker' = [worker EXCEPT ![s] = Claiming]
           /\ claiming' = [claiming EXCEPT ![s] = claiming[s] + 1]
  <2> SUFFICES ASSUME NEW r \in Server
               PROVE  /\ worker'[r].status = "Running" =>
                           \E e \in exec' : e.on = r /\ e.claim = worker'[r].claim /\ e.at # "next"
                      /\ worker'[r] = Claiming =>
                           claiming'[r] + empty'[r] > 0 \/ \E p \in starting' : p.on = r
    BY DEF WorkerKept
  <2>1. CASE r = s
    <3>1. worker'[r] = Claiming /\ claiming'[r] = claiming[r] + 1 BY <1>0, <1>2, <2>1
    <3>2. claiming'[r] + empty'[r] > 0 BY <1>0, <3>1
    <3> QED BY <3>1, <3>2 DEF Claiming
  <2>2. CASE r # s
    <3>1. worker'[r] = worker[r] /\ claiming'[r] = claiming[r] BY <1>0, <1>2, <2>2
    <3> QED BY <3>1 DEF WorkerKept
  <2> QED BY <2>1, <2>2
<1> QED BY <1>1, <1>2, TriesIs

LEMMA WorkerStep ==
    ASSUME Base, WorkerKept, StepShape
    PROVE  WorkerKept'
<1>0. /\ worker \in [Server -> WorkerState]
      /\ claiming \in [Server -> Nat] /\ empty \in [Server -> Nat]
  BY DEF Base, WorkerType
<1>1. ASSUME UNCHANGED <<worker, claiming, empty, starting, exec>> PROVE WorkerKept'
  BY <1>1 DEF WorkerKept
<1>2. ASSUME Elsewhere PROVE WorkerKept' BY <1>1, <1>2 DEF Elsewhere, taskVars
<1>3. ASSUME NEW d \in Dispatch, TimePasses(d) PROVE WorkerKept'
  BY <1>1, <1>3 DEF TimePasses, taskVars
<1>4. ASSUME NEW d \in Dispatch, SubmitClaims(d) PROVE WorkerKept'
  <2>1. /\ UNCHANGED <<worker, claiming, empty, exec>> /\ starting \subseteq starting'
    BY <1>4, SubmitClaimsShape DEF ClaimWon
  <2> QED BY <2>1, WorkerStands
<1>5. ASSUME NEW s \in Server, Tries(s) PROVE WorkerKept'
  BY <1>5, WorkerTries DEF Tries
<1>6. ASSUME NEW s \in Server, ClaimNext(s) PROVE WorkerKept'
  <2>1. PICK won : /\ ClaimWon(s, won)
                   /\ claiming[s] > 0 /\ claiming' = [claiming EXCEPT ![s] = claiming[s] - 1]
                   /\ empty' = IF won = {} THEN [empty EXCEPT ![s] = empty[s] + 1] ELSE empty
                   /\ worker' = worker /\ exec' = exec
    BY <1>6, ClaimNextShape
  <2>2. starting \subseteq starting' BY <2>1 DEF ClaimWon
  <2>3. ASSUME NEW o \in won PROVE \E p \in starting' : p.on = s
    <3>1. PICK p : p = [claim |-> <<o, claims'[o]>>, on |-> s] OBVIOUS
    <3>2. p \in starting' BY <2>1, <3>1 DEF ClaimWon
    <3> QED BY <3>1, <3>2
  <2>4. \A r \in Server : r # s => claiming'[r] = claiming[r] /\ empty'[r] = empty[r]
    BY <1>0, <2>1
  <2>5. won = {} => empty'[s] = empty[s] + 1 /\ claiming'[s] \in Nat
    BY <1>0, <2>1
  <2>6. won = {} => claiming'[s] + empty'[s] > 0 BY <1>0, <2>5
  <2>7. \A r \in Server : claiming[r] + empty[r] > 0 =>
          claiming'[r] + empty'[r] > 0 \/ \E p \in starting' : p.on = r
    BY <2>3, <2>4, <2>6
  <2> QED BY <2>1, <2>2, <2>7, WorkerStands
<1>7. ASSUME NEW s \in Server, RevertClaiming(s) PROVE WorkerKept'
  <2>1. /\ UNCHANGED <<claiming, starting, exec>>
        /\ empty' = [empty EXCEPT ![s] = empty[s] - 1]
        /\ worker' = IF worker[s] = Claiming THEN [worker EXCEPT ![s] = Idle] ELSE worker
    BY <1>7 DEF RevertClaiming
  <2>2. \A r \in Server : r # s => worker'[r] = worker[r] /\ empty'[r] = empty[r]
    BY <1>0, <2>1
  <2>3. worker'[s] # Claiming /\ (worker'[s].status = "Running" => worker'[s] = worker[s])
    BY <1>0, <2>1 DEF Idle, Claiming
  <2> QED BY <2>1, <2>2, <2>3 DEF WorkerKept
<1>8. ASSUME NEW s \in Server, Crash(s) PROVE WorkerKept'
  <2>1. /\ worker' = [worker EXCEPT ![s] = Idle]
        /\ claiming' = [claiming EXCEPT ![s] = 0] /\ empty' = [empty EXCEPT ![s] = 0]
        /\ starting' = {p \in starting : p.on # s} /\ exec' = {e \in exec : e.on # s}
    BY <1>8 DEF Crash
  <2>2. /\ worker'[s] = Idle
        /\ \A r \in Server : r # s => /\ worker'[r] = worker[r]
                                      /\ claiming'[r] = claiming[r] /\ empty'[r] = empty[r]
    BY <1>0, <2>1
  <2> QED BY <2>1, <2>2 DEF WorkerKept, Idle, Claiming
<1>9. ASSUME NEW p \in starting, StartExecution(p) PROVE WorkerKept'
  <2>1. PICK f : /\ f.claim = p.claim /\ f.on = p.on /\ f.at = "load"
                 /\ exec' = exec \cup {f}
    BY <1>9 DEF StartExecution
  <2>2. /\ starting' = starting \ {p} /\ worker' = [worker EXCEPT ![p.on] = RunningClaim(p.claim)]
        /\ UNCHANGED <<claiming, empty>> /\ p.on \in Server
    BY <1>9, TypedTasks DEF StartExecution
  <2>3. /\ worker'[p.on] = RunningClaim(p.claim)
        /\ \A r \in Server : r # p.on => worker'[r] = worker[r]
    BY <1>0, <2>2
  <2>4. /\ RunningClaim(p.claim).claim = p.claim /\ RunningClaim(p.claim) # Claiming
    BY DEF RunningClaim, Claiming
  <2>5. f \in exec' BY <2>1
  <2> QED BY <2>1, <2>2, <2>3, <2>4, <2>5 DEF WorkerKept
<1>10. ASSUME NEW e \in exec, NEW f, Moves(e, f) PROVE WorkerKept'
  <2>1. /\ f.claim = e.claim /\ f.on = e.on /\ exec' = (exec \ {e}) \cup {f} /\ f.at # "next"
        /\ UNCHANGED <<worker, claiming, empty, starting>>
    BY <1>10 DEF Moves, taskVars
  <2>2. f \in exec' BY <2>1
  <2> QED BY <2>1, <2>2 DEF WorkerKept
<1>11. ASSUME NEW e \in exec, ExecReleasesWorker(e) PROVE WorkerKept'
  <2>1. PICK f : f.on = e.on /\ exec' = (exec \ {e}) \cup {f} BY <1>11, ReleaseIs
  <2>2. /\ e.on \in Server /\ UNCHANGED <<claiming, empty, starting>>
        /\ \/ worker' = [worker EXCEPT ![e.on] = Idle]
           \/ /\ ~(worker[e.on].status = "Running" /\ worker[e.on].claim[1] = e.claim[1])
              /\ worker' = worker
    BY <1>11, ReleaseIs
  <2>3. \A r \in Server : r # e.on => worker'[r] = worker[r] BY <1>0, <2>2
  <2>4. \/ worker'[e.on] = Idle
        \/ /\ worker'[e.on] = worker[e.on]
           /\ worker[e.on].status = "Running" => worker[e.on].claim # e.claim
    BY <1>0, <2>2
  <2> QED BY <2>1, <2>2, <2>3, <2>4 DEF WorkerKept, Idle, Claiming
<1>12. ASSUME NEW e \in exec, ExecTriesNext(e) PROVE WorkerKept'
  <2>1. /\ e.at = "next" /\ exec' = exec \ {e} /\ TryDispatch(e.on)
        /\ empty' = empty /\ starting' = starting /\ e.on \in Server
    BY <1>12, ExecIsTyped DEF ExecTriesNext, ExecIs
  <2>2. \A g \in exec : g.at # "next" => g \in exec' BY <2>1
  <2> QED BY <2>1, <2>2, WorkerTries
<1>13. ASSUME NEW p \in renewals, RenewLease(p) PROVE WorkerKept'
  BY <1>1, <1>13, RenewShape
<1> QED
  BY <1>2, <1>3, <1>4, <1>5, <1>6, <1>7, <1>8, <1>9, <1>10, <1>11, <1>12, <1>13, Zenon
     DEF StepShape

-----------------------------------------------------------------------------
(* The theorems about claims and their tasks.                              *)

LEMMA ServiceIInvInit == ServiceInit => ServiceIInv
<1> SUFFICES ASSUME ServiceInit PROVE ServiceIInv OBVIOUS
<1>1. Base BY BaseInit
<1>2. /\ starting = {} /\ exec = {} /\ renewals = {}
      /\ \A s \in Server : active[s] = NoClaim /\ worker[s] = Idle
  BY DEF ServiceInit
<1>3. \A d \in Dispatch : ~IsClaimed(d)
  BY DEF ServiceInit, StoreInit, Blank, IsClaimed, StatusOf
<1>4. TaskInv BY <1>2, <1>3 DEF TaskInv, Unique, DoneLost, Executed, Held
<1>5. SlotInv BY <1>2 DEF SlotInv, RunIsActive, ActiveIsRun
<1>6. WorkerKept BY <1>2 DEF WorkerKept, Idle, Claiming
<1> QED BY <1>1, <1>4, <1>5, <1>6 DEF ServiceIInv

LEMMA ServiceIInvStep == ServiceIInv /\ [ServiceNext]_serviceVars => ServiceIInv'
BY BaseStep, NextShape, TaskStep, SlotStep, WorkerStep DEF ServiceIInv

THEOREM ServiceIInvHolds == ServiceSpec => []ServiceIInv
<1> QED BY ServiceIInvInit, ServiceIInvStep, PTL DEF ServiceSpec

LEMMA CurrentHolder ==
    ASSUME ServiceIInv, NEW c, Current(c), HasTask(c)
    PROVE  \E t : HolderOf(c) = {t}
<1>1. Unique /\ DoneLost BY DEF ServiceIInv, TaskInv
<1>2. PICK t : t \in starting \cup exec /\ t.claim = c BY DEF HasTask, HasTaskOn
<1>3. CASE t \in starting
  <2>1. HolderOf(c) = {t} BY <1>1, <1>2, <1>3 DEF HolderOf, Unique
  <2> QED BY <2>1
<1>4. CASE t \in exec
  <2>1. t.at \notin {"close", "letter", "release", "next"}
    BY <1>1, <1>2, <1>4 DEF DoneLost, Gone
  <2>2. HolderOf(c) = {t} BY <1>1, <1>2, <1>4, <2>1 DEF HolderOf, Unique
  <2> QED BY <2>2
<1> QED BY <1>2, <1>3, <1>4

\* No claim is immortal, in any run of the servers, with crashes and missed
\* deadlines: a lease that is renewed belongs to a claim whose task is there
\* and will settle it (the renewal is spawned with the claim, and the task
\* that holds the claim does not end before the claim is over).
THEOREM RenewedIsExecutedHolds == ServiceSpec => []RenewedIsExecuted
<1>1. ServiceIInv => RenewedIsExecuted
  <2> SUFFICES ASSUME ServiceIInv, NEW p \in renewals,
                      IsClaimed(p.claim[1]) /\ HasToken(p.claim[1], p.claim[2])
               PROVE  HolderOf(p.claim) # {}
    BY DEF RenewedIsExecuted
  <2>1. Current(p.claim) BY DEF Current
  <2>2. p.on \in Server BY TypedTasks DEF ServiceIInv
  <2>3. HasTaskOn(p.claim, p.on) BY <2>1 DEF ServiceIInv, TaskInv, Executed
  <2>4. HasTask(p.claim) BY <2>2, <2>3 DEF HasTask
  <2> QED BY <2>1, <2>4, CurrentHolder
<1> QED BY <1>1, ServiceIInvHolds, PTL

\* While no server has crashed, a worker that is not Idle has a task that will
\* make it Idle, and a claimed dispatch has exactly one task that holds its
\* token: no ack, nack or dead letter is skipped, and none is sent twice.
THEOREM WorkerHasTaskHolds == ServiceSpec => [](crashes = 0 => WorkerHasTask)
<1>1. ServiceIInv => (crashes = 0 => WorkerHasTask)
  <2> SUFFICES ASSUME ServiceIInv, crashes = 0 PROVE WorkerHasTask OBVIOUS
  <2>1. ASSUME NEW d \in Dispatch, IsClaimed(d)
        PROVE  Cardinality(HolderOf(<<d, dispatches[d].token>>)) = 1
    <3>1. HasTask(<<d, dispatches[d].token>>) BY <2>1 DEF ServiceIInv, TaskInv, Held
    <3>2. Current(<<d, dispatches[d].token>>)
      BY <2>1 DEF Current, HasToken, IsClaimed, IsStored, StatusOf
    <3>3. PICK t : HolderOf(<<d, dispatches[d].token>>) = {t} BY <3>1, <3>2, CurrentHolder
    <3> QED BY <3>3, FS_Singleton
  <2> QED BY <2>1 DEF ServiceIInv, WorkerKept, WorkerHasTask
<1> QED BY <1>1, ServiceIInvHolds, PTL

\* claim(): "Same thread must not have two Claimed dispatches concurrently",
\* whatever the servers do: among the tasks, at most one holds a claim that is
\* the store's.
THEOREM ServiceClaimsOne == ServiceSpec => []OneClaimedPerThread
<1>1. ClaimLimit = 1 BY ServiceAssumption
<1> QED BY <1>1, ServiceUsesStore, OneClaimedPerThreadHolds

-----------------------------------------------------------------------------
(* A run that a lost submit prepared is found by the startup recovery.     *)

\* The run of d was given to d and did not start.
Prepared(d) == runs[RunOf[d]].by = <<d>> /\ runs[RunOf[d]].status \in {"Created", "Waiting"}

\* A step does not bring about what the recovery would have to find: who is
\* lost was lost, or its server is down, and its run was prepared before.
LosesNone == \A d \in Dispatch :
    submit'[d].at = "lost" /\ ~IsStored(d)' /\ Prepared(d)' =>
        \/ submit[d].at = "lost" /\ Prepared(d)
        \/ HomeOf[d] \notin up'

\* An execution is of a dispatch that is stored.
LEMMA ExecIsStored ==
    ASSUME Base, NEW e \in exec
    PROVE  IsStored(e.claim[1])
<1> DEFINE d == e.claim[1]
<1>1. d \in Dispatch /\ e.claim[2] \in 1..claims[d] BY ExecIsTyped
<1>2. claims[d] # 0 BY <1>1, TypedTasks
<1>3. RecordOK(dispatches[d], CurrentEpoch(d), claims[d], d \in fenced)
  BY <1>1, BaseStore DEF StoreIInv
<1>4. dispatches[d].status # "Absent" BY <1>2, <1>3 DEF RecordOK
<1>5. dispatches[d].status \in Status /\ dispatches[d].status # "Purged"
  BY <1>1, <1>3, BaseStore DEF RecordOK, DispatchRecord, NotPurged, StatusOf
<1> QED BY <1>4, <1>5 DEF IsStored, StatusOf

LEMMA WrittenPrepares ==
    ASSUME Base, NEW o \in Dispatch, NEW status, runs' = RunWritten(o, status)
    PROVE  \A d \in Dispatch : Prepared(d)' =>
               Prepared(d) \/ (d = o /\ status \in {"Created", "Waiting"})
<1>0. runs \in [Run -> RunRecord] /\ \A d \in Dispatch : RunOf[d] \in Run
  BY RestOfBase, ServiceAssumption
<1> SUFFICES ASSUME NEW d \in Dispatch, Prepared(d)', ~Prepared(d)
             PROVE  d = o /\ status \in {"Created", "Waiting"}
  OBVIOUS
<1>1. runs' = [runs EXCEPT ![RunOf[o]] = [status |-> status, by |-> <<o>>]]
  BY DEF RunWritten
<1>2. RunOf[d] = RunOf[o] BY <1>0, <1>1 DEF Prepared
<1>3. runs'[RunOf[d]].by = <<o>> /\ runs'[RunOf[d]].status = status BY <1>0, <1>1, <1>2
<1> QED BY <1>3 DEF Prepared

LEMMA ClosedPrepares ==
    ASSUME Base, NEW o \in Dispatch,
           \/ runs' = RunClosed(o, "Cancelled") \/ runs' = RunClosed(o, "Errored")
           \/ runs' = RunReconciled(o)
    PROVE  \A d \in Dispatch : Prepared(d)' => Prepared(d)
<1>1. \/ runs' = runs
      \/ \E how \in {"Cancelled", "Errored"} : runs' = RunWritten(o, how)
  BY Zenon DEF RunClosed, RunReconciled
<1>2. CASE runs' = runs BY <1>2 DEF Prepared
<1> QED BY <1>1, <1>2, WrittenPrepares

LEMMA SubmitAtIs ==
    ASSUME Base, NEW d \in Dispatch, NEW at, SubmitAt(d, at)
    PROVE  /\ submit'[d].at = at
           /\ \A o \in Dispatch : o # d => submit'[o] = submit[o]
<1>1. submit \in [Dispatch -> SubmitRecord] BY DEF Base, SubmitType
<1>2. submit[d] \in SubmitRecord BY <1>1
<1>3. [submit[d] EXCEPT !.at = at].at = at BY <1>2 DEF SubmitRecord
<1>4. submit' = [submit EXCEPT ![d] = [submit[d] EXCEPT !.at = at]]
  BY <1>1, Zenon DEF SubmitAt
<1> QED BY <1>1, <1>3, <1>4

LEMMA SubmitLosesNone ==
    ASSUME Base, NEW d \in Dispatch, SubmitStep(d)
    PROVE  LosesNone
<1>0. submit \in [Dispatch -> SubmitRecord] BY RestOfBase
<1>1. CASE SubmitInterrupts(d)
  <2>1. /\ runs' = runs /\ \A o \in Dispatch : o # d => submit'[o] = submit[o]
        /\ submit'[d].at = "interrupted"
    BY <1>0, <1>1 DEF SubmitInterrupts
  <2> QED BY <2>1 DEF LosesNone, Prepared
<1>2. CASE SubmitClosesSuperseded(d)
  <2>1. PICK o \in submit[d].todo :
          /\ runs' = RunClosed(o, "Cancelled")
          /\ submit' = [submit EXCEPT ![d] = [submit[d] EXCEPT !.todo = submit[d].todo \ {o}]]
    BY <1>2, Zenon DEF SubmitClosesSuperseded
  <2>2. o \in Dispatch /\ [submit[d] EXCEPT !.todo = submit[d].todo \ {o}].at = submit[d].at
    BY <1>0 DEF SubmitRecord
  <2>3. \A x \in Dispatch : submit'[x].at = submit[x].at BY <1>0, <2>1, <2>2
  <2>4. \A x \in Dispatch : Prepared(x)' => Prepared(x) BY <2>1, <2>2, ClosedPrepares
  <2> QED BY <2>3, <2>4 DEF LosesNone
<1>3. CASE \/ SubmitCancelsActive(d) \/ SubmitRunWaitTimesOut(d) \/ SubmitCancelsLive(d)
           \/ SubmitWaitsForRelease(d) \/ SubmitEnqueues(d) \/ SubmitClaims(d)
           \/ SubmitLosesClaim(d) \/ SubmitUndoes(d) \/ SubmitWakesWorker(d)
  <2>1. PICK at \in SubmitPlace \ {"lost"} : SubmitAt(d, at)
    BY <1>3 DEF SubmitCancelsActive, SubmitRunWaitTimesOut, SubmitCancelsLive,
         SubmitWaitsForRelease, SubmitEnqueues, SubmitClaims, SubmitLosesClaim,
         SubmitUndoes, SubmitWakesWorker, SubmitPlace
  <2>2. runs' = runs
    BY <1>3 DEF SubmitCancelsActive, SubmitRunWaitTimesOut, SubmitCancelsLive,
         SubmitWaitsForRelease, SubmitEnqueues, SubmitClaims, SubmitLosesClaim,
         SubmitUndoes, SubmitWakesWorker
  <2>3. submit'[d].at # "lost" /\ \A o \in Dispatch : o # d => submit'[o] = submit[o]
    BY <2>1, SubmitAtIs
  <2> QED BY <2>2, <2>3 DEF LosesNone, Prepared
<1>4. CASE SubmitPreparesRun(d)
  <2>1. PICK at \in SubmitPlace \ {"lost"} : SubmitAt(d, at)
    BY <1>4 DEF SubmitPreparesRun, SubmitPlace
  <2>2. submit'[d].at # "lost" /\ \A o \in Dispatch : o # d => submit'[o] = submit[o]
    BY <2>1, SubmitAtIs
  <2>3. runs' = runs \/ \E status : runs' = RunWritten(d, status)
    BY <1>4, Zenon DEF SubmitPreparesRun, RunWritten
  <2>4. CASE runs' = runs BY <2>2, <2>4 DEF LosesNone, Prepared
  <2>5. ASSUME NEW status, runs' = RunWritten(d, status) PROVE LosesNone
    <3>1. \A o \in Dispatch : Prepared(o)' => Prepared(o) \/ o = d BY <2>5, WrittenPrepares
    <3> QED BY <2>2, <3>1 DEF LosesNone
  <2> QED BY <2>3, <2>4, <2>5
<1>5. CASE SubmitReconciles(d)
  <2>1. SubmitAt(d, "conflict") /\ runs' = RunReconciled(d) BY <1>5 DEF SubmitReconciles
  <2>2. submit'[d].at = "conflict" /\ \A o \in Dispatch : o # d => submit'[o] = submit[o]
    BY <2>1, SubmitAtIs
  <2>3. \A o \in Dispatch : Prepared(o)' => Prepared(o) BY <2>1, ClosedPrepares
  <2> QED BY <2>2, <2>3 DEF LosesNone
<1> QED BY <1>1, <1>2, <1>3, <1>4, <1>5 DEF SubmitStep

\* Only a submit that waits for the run is told.
LEMMA NotifiedIs ==
    ASSUME Base, NEW s \in Server, RunNotifiesWaiters(s), NEW o \in Dispatch
    PROVE  \/ submit'[o] = submit[o]
           \/ submit[o].at = "waitRun" /\ submit'[o].at = "waitStore"
<1>1. submit[o] \in SubmitRecord BY RestOfBase
<1>2. [submit[o] EXCEPT !.at = "waitStore"].at = "waitStore" BY <1>1 DEF SubmitRecord
<1>3. \/ submit' = submit
      \/ submit'[o] = IF submit[o].at = "waitRun" /\ HomeOf[o] = s
                      THEN [submit[o] EXCEPT !.at = "waitStore"] ELSE submit[o]
  BY DEF RunNotifiesWaiters
<1> QED BY <1>2, <1>3

LEMMA ExecLosesNone ==
    ASSUME Base, NEW e \in exec, ExecStep(e) \/ RunStep(e)
    PROVE  LosesNone
<1> DEFINE o == e.claim[1]
<1>0. o \in Dispatch /\ e.on \in Server BY ExecIsTyped
<1>1. IsStored(o)'
  <2>1. IsStored(o) BY ExecIsStored
  <2>2. StepShape BY ExecShape, Zenon DEF StepShape
  <2>3. CalmStore \/ \E won : WinEffect(won) BY <2>2, StepUsesStore
  <2>4. \A x \in Dispatch : IsStored(x) => IsStored(x)' BY <2>3, LedgerStands DEF Base
  <2> QED BY <1>0, <2>1, <2>4
<1>2. \A x \in Dispatch : submit'[x].at = "lost" => submit[x].at = "lost"
  <2>1. submit' = submit \/ RunNotifiesWaiters(e.on)
    BY DEF ExecStep, RunStep, RunCheckpoints, RunSuspends, RunResumes, RunEnds,
       SuspendedRunEnds, ExecLoads, ExecChecksEpoch, ExecSupersedes, ExecClosesSuperseded,
       ExecRecordsStart, ExecRefused, ExecRegisters, ExecRecordsResult, ExecSettles,
       ExecClosesDeadLetter, ExecReleasesWorker, ExecTriesNext, OnlyExec
  <2>2. CASE submit' = submit BY <2>2
  <2>3. CASE RunNotifiesWaiters(e.on) BY <1>0, <2>3, NotifiedIs
  <2> QED BY <2>1, <2>2, <2>3
<1>3. \/ runs' = runs \/ runs' = RunClosed(o, "Cancelled") \/ runs' = RunClosed(o, "Errored")
      \/ \E status : runs' = RunWritten(o, status)
  BY Zenon DEF ExecStep, RunStep, RunCheckpoints, RunSuspends, RunResumes, RunEnds,
     SuspendedRunEnds, ExecLoads, ExecChecksEpoch, ExecSupersedes, ExecClosesSuperseded,
     ExecRecordsStart, ExecRefused, ExecRegisters, ExecRecordsResult, ExecSettles,
     ExecClosesDeadLetter, ExecReleasesWorker, ExecTriesNext, OnlyExec, LeavesRecord
<1> HIDE DEF o
<1>4. CASE runs' = runs BY <1>2, <1>4 DEF LosesNone, Prepared
<1>5. CASE runs' = RunClosed(o, "Cancelled") \/ runs' = RunClosed(o, "Errored")
  BY <1>0, <1>2, <1>5, ClosedPrepares DEF LosesNone
<1>6. ASSUME NEW status, runs' = RunWritten(o, status) PROVE LosesNone
  <2>1. \A d \in Dispatch : Prepared(d)' => Prepared(d) \/ d = o
    BY <1>0, <1>6, WrittenPrepares
  <2> QED BY <1>1, <1>2, <2>1 DEF LosesNone
<1> QED BY <1>3, <1>4, <1>5, <1>6

LEMMA StepLosesNone ==
    ASSUME Base, [ServiceNext]_serviceVars
    PROVE  LosesNone
<1>1. CASE UNCHANGED <<submit, runs>> BY <1>1 DEF LosesNone, Prepared
<1>2. ASSUME submit' = submit, NEW d \in Dispatch,
             \/ runs' = RunClosed(d, "Cancelled") \/ runs' = RunReconciled(d)
      PROVE  LosesNone
  BY <1>2, ClosedPrepares DEF LosesNone
<1>3. ASSUME NEW c \in calls, CallStep(c) PROVE LosesNone
  <2>1. c.todo \subseteq Dispatch BY RestOfBase DEF CallRecord
  <2>2. CASE CallClosesRun(c) BY <1>2, <2>1, <2>2 DEF CallClosesRun
  <2>3. CASE CallCancelsActive(c) BY <1>1, <2>3 DEF CallCancelsActive
  <2> QED BY <1>3, <2>2, <2>3 DEF CallStep
<1>4. ASSUME NEW s \in Server, SweepStep(s) PROVE LosesNone
  <2>1. maint[s].todo \subseteq Dispatch BY RestOfBase DEF MaintRecord
  <2>2. CASE SweepReconcilesReclaimed(s) BY <1>2, <2>1, <2>2 DEF SweepReconcilesReclaimed
  <2>3. CASE \E d \in Dispatch : SweepReconciles(s, d) BY <1>2, <2>3 DEF SweepReconciles
  <2>4. CASE SweepReclaims(s) \/ SweepWakesWorker(s)
    BY <1>1, <2>4 DEF SweepReclaims, SweepWakesWorker
  <2> QED BY <1>4, <2>2, <2>3, <2>4 DEF SweepStep
<1>5. ASSUME NEW s \in Server, ServerStep(s) PROVE LosesNone
  <2>1. CASE ClaimNext(s) \/ RevertClaiming(s) BY <1>1, <2>1 DEF ClaimNext, RevertClaiming
  <2>2. CASE RecoverStep(s)
    BY <1>1, <2>2 DEF RecoverStep, RecoverReclaims, RecoverWakesQueued, RecoverListsPrepared,
       RecoverLoads, RecoverEnqueues, RecoverEnds
  <2> QED BY <1>4, <1>5, <2>1, <2>2 DEF ServerStep
<1>6. ASSUME NEW s \in Server, Crash(s) PROVE LosesNone
  <2>1. /\ runs' = runs /\ up' = up \ {s}
        /\ submit' = [d \in Dispatch |->
             IF HomeOf[d] = s /\ submit[d].at \notin {"new", "done", "conflict", "failed"}
             THEN [at |-> "lost", todo |-> {}, found |-> {}] ELSE submit[d]]
    BY <1>6 DEF Crash
  <2> QED BY <2>1 DEF LosesNone, Prepared
<1>7. ASSUME \/ \E p \in starting : StartExecution(p)
             \/ \E p \in renewals : RenewLease(p)
             \/ \E d \in Dispatch : TimePasses(d)
             \/ \E s \in Server : \/ Restart(s) \/ ApiInterrupts(s)
                                  \/ \E d \in Dispatch : ApiCancelsDispatch(s, d)
      PROVE  LosesNone
  BY <1>1, <1>7 DEF StartExecution, RenewLease, TimePasses, Restart, ApiInterrupts,
     ApiCancelsDispatch, CallBegins
<1>8. CASE UNCHANGED serviceVars BY <1>1, <1>8 DEF serviceVars
<1>9. CASE ServiceNext
  BY <1>3, <1>5, <1>6, <1>7, <1>9, SubmitLosesNone, ExecLosesNone, Zenon DEF ServiceNext
<1> QED BY <1>8, <1>9

\* The task that sweeps and recovers, between its steps: what it holds.
MaintHolds(m, isUp) ==
    /\ ~isUp => m.at = "boot"
    /\ m.at # "enqueue" => m.pick = {}
    /\ m.at = "enqueue" => \E d \in m.pick : m.pick = {d}
    /\ m.at = "sweeping" => m.todo = {}
    /\ m.at \in {"reclaimed", "wakes"} => \A d \in m.todo : IsStored(d)
MaintInv == \A s \in Server : MaintHolds(maint[s], s \in up)

\* d is found missing by the recovery of s, now or later.
Finds(s, d) == \/ s \notin up \/ maint[s].at \in {"boot", "queued", "list"}
               \/ d \in maint[s].todo \cup maint[s].pick
LostIsFound ==
    \A d \in Dispatch :
        submit[d].at = "lost" /\ ~IsStored(d) /\ Prepared(d) => Finds(HomeOf[d], d)

\* What a step does to the task of s: it keeps MaintHolds and finds what it found.
KeepsMaint(s) ==
    /\ MaintHolds(maint[s], s \in up)'
    /\ \A d \in Dispatch : Finds(s, d) /\ ~IsStored(d)' /\ Prepared(d) => Finds(s, d)'

LEMMA StoredStays ==
    ASSUME Base, [ServiceNext]_serviceVars, NEW d \in Dispatch, IsStored(d)
    PROVE  IsStored(d)'
<1>1. CalmStore \/ \E won : WinEffect(won) BY NextShape, StepUsesStore
<1> QED BY <1>1, LedgerStands DEF Base

LEMMA MaintStands ==
    ASSUME Base, MaintInv, [ServiceNext]_serviceVars, NEW s \in Server,
           maint'[s] = maint[s], s \in up <=> s \in up'
    PROVE  KeepsMaint(s)
<1>1. MaintHolds(maint[s], s \in up) BY DEF MaintInv
<1>2. maint[s].todo \subseteq Dispatch BY RestOfBase DEF MaintRecord
<1>3. \A d \in maint[s].todo : IsStored(d) => IsStored(d)' BY <1>2, StoredStays
<1>4. MaintHolds(maint[s], s \in up)' BY <1>1, <1>3 DEF MaintHolds
<1> QED BY <1>4 DEF KeepsMaint, Finds

LEMMA SweepKeepsMaint ==
    ASSUME Base, MaintInv, [ServiceNext]_serviceVars, NEW s \in Server, SweepStep(s)
    PROVE  KeepsMaint(s)
<1>0. /\ maint \in [Server -> MaintRecord] /\ maint[s] \in MaintRecord
      /\ maint[s].todo \subseteq Dispatch /\ MaintHolds(maint[s], s \in up)
  BY RestOfBase DEF MaintInv, MaintRecord
<1>1. up' = up
  BY DEF SweepStep, SweepReclaims, SweepReconcilesReclaimed, SweepWakesWorker,
     SweepReconciles, hostVars
<1>2. CASE SweepReclaims(s)
  <2>1. /\ s \in up /\ maint[s].at = "sweeping" /\ ReclaimExpiredLeases
        /\ maint' = [maint EXCEPT ![s] = [maint[s] EXCEPT !.at = "reclaimed", !.todo = Changed]]
    BY <1>2, Zenon DEF SweepReclaims, MaintIs
  <2>2. /\ maint'[s].at = "reclaimed" /\ maint'[s].todo = Changed
        /\ maint'[s].pick = maint[s].pick
    BY <1>0, <2>1 DEF MaintRecord
  <2>3. ASSUME NEW d \in Changed PROVE IsStored(d)'
    <3>1. d \in Dispatch /\ dispatches'[d] # dispatches[d] BY DEF Changed
    <3>2. d \in Expired BY <2>1, <3>1, BaseStore, ReclaimCalm
    <3>3. IsStored(d) BY <3>2 DEF Expired, IsClaimed, IsStored
    <3> QED BY <3>1, <3>3, StoredStays
  <2>4. maint[s].pick = {} /\ maint[s].todo = {} BY <1>0, <2>1 DEF MaintHolds
  <2>5. MaintHolds(maint[s], s \in up)' BY <1>1, <2>1, <2>2, <2>3, <2>4 DEF MaintHolds
  <2> QED BY <2>1, <2>4, <2>5 DEF KeepsMaint, Finds
<1>3. CASE SweepReconcilesReclaimed(s)
  <2>1. /\ s \in up /\ maint[s].at = "reclaimed" /\ MaintAt(s, "wakes")
    BY <1>3 DEF SweepReconcilesReclaimed, MaintIs
  <2>2. /\ maint'[s].at = "wakes" /\ maint'[s].todo = maint[s].todo
        /\ maint'[s].pick = maint[s].pick
    BY <1>0, <2>1 DEF MaintAt, MaintRecord
  <2>3. \A d \in maint[s].todo : IsStored(d)' BY <1>0, <2>1, StoredStays DEF MaintHolds
  <2>4. MaintHolds(maint[s], s \in up)' BY <1>0, <1>1, <2>1, <2>2, <2>3 DEF MaintHolds
  <2> QED BY <1>1, <2>1, <2>2, <2>4 DEF KeepsMaint, Finds
<1>4. CASE SweepWakesWorker(s)
  <2>1. s \in up /\ maint[s].at = "wakes" /\ maint' = [maint EXCEPT ![s] = Sweeping]
    BY <1>4 DEF SweepWakesWorker, MaintIs
  <2>2. maint'[s] = Sweeping BY <1>0, <2>1
  <2>3. \A d \in maint[s].todo : IsStored(d)' BY <1>0, <2>1, StoredStays DEF MaintHolds
  <2>4. MaintHolds(maint[s], s \in up)' BY <1>1, <2>1, <2>2 DEF MaintHolds, Sweeping
  <2>5. \A d \in Dispatch : Finds(s, d) => IsStored(d)'
    BY <1>0, <2>1, <2>3 DEF Finds, MaintHolds
  <2> QED BY <2>4, <2>5 DEF KeepsMaint
<1>5. CASE \E d \in Dispatch : SweepReconciles(s, d)
  BY <1>1, <1>5, MaintStands DEF SweepReconciles
<1> QED BY <1>2, <1>3, <1>4, <1>5 DEF SweepStep

LEMMA RecoverKeepsMaint ==
    ASSUME Base, MaintInv, [ServiceNext]_serviceVars, NEW s \in Server, RecoverStep(s)
    PROVE  KeepsMaint(s)
<1>0. /\ maint \in [Server -> MaintRecord] /\ maint[s] \in MaintRecord
      /\ maint[s].todo \subseteq Dispatch /\ maint[s].pick \subseteq Dispatch
      /\ MaintHolds(maint[s], s \in up)
  BY RestOfBase DEF MaintInv, MaintRecord
<1>1. up' = up /\ s \in up
  BY DEF RecoverStep, RecoverReclaims, RecoverWakesQueued, RecoverListsPrepared,
     RecoverLoads, RecoverEnqueues, RecoverEnds, hostVars, MaintIs
<1>2. CASE RecoverReclaims(s)
  <2>1. maint[s].at = "boot" /\ MaintAt(s, "queued") BY <1>2 DEF RecoverReclaims, MaintIs
  <2>2. maint'[s].at = "queued" /\ maint'[s].pick = maint[s].pick
    BY <1>0, <2>1 DEF MaintAt, MaintRecord
  <2> QED BY <1>0, <1>1, <2>1, <2>2 DEF KeepsMaint, Finds, MaintHolds
<1>3. CASE RecoverWakesQueued(s)
  <2>1. maint[s].at = "queued" BY <1>3 DEF RecoverWakesQueued, MaintIs
  <2>2. maint'[s].at = "list" /\ maint'[s].pick = maint[s].pick
    BY <1>0, <1>3 DEF RecoverWakesQueued, MaintRecord
  <2> QED BY <1>0, <1>1, <2>1, <2>2 DEF KeepsMaint, Finds, MaintHolds
<1>4. CASE RecoverListsPrepared(s)
  <2>1. maint[s].at = "list" BY <1>4 DEF RecoverListsPrepared, MaintIs
  <2>2. /\ maint'[s].at = "prepared" /\ maint'[s].pick = maint[s].pick
        /\ maint'[s].todo = PreparedRuns
    BY <1>0, <1>4 DEF RecoverListsPrepared, MaintRecord
  <2>3. \A d \in Dispatch : Prepared(d) => d \in PreparedRuns BY DEF PreparedRuns, Prepared
  <2> QED BY <1>0, <1>1, <2>1, <2>2, <2>3 DEF KeepsMaint, Finds, MaintHolds
<1>5. CASE RecoverLoads(s)
  <2>1. PICK o \in maint[s].todo :
          maint' = [maint EXCEPT ![s] =
            [maint[s] EXCEPT !.todo = @ \ {o},
                             !.pick = IF IsStored(o) THEN @ ELSE @ \cup {o},
                             !.at = IF IsStored(o) THEN "prepared" ELSE "enqueue"]]
    BY <1>5 DEF RecoverLoads
  <2>2. maint[s].at = "prepared" /\ maint[s].pick = {} BY <1>0, <1>5 DEF RecoverLoads, MaintIs, MaintHolds
  <2>3. /\ maint'[s].todo = maint[s].todo \ {o}
        /\ IsStored(o) => maint'[s].pick = {} /\ maint'[s].at = "prepared"
        /\ ~IsStored(o) => maint'[s].pick = {o} /\ maint'[s].at = "enqueue"
    BY <1>0, <2>1, <2>2 DEF MaintRecord
  <2>4. MaintHolds(maint[s], s \in up)' BY <1>1, <2>3 DEF MaintHolds
  <2>5. o \in Dispatch /\ (IsStored(o) => IsStored(o)') BY <1>0, StoredStays
  <2>6. \A d \in Dispatch : Finds(s, d) /\ ~IsStored(d)' => Finds(s, d)'
    BY <1>1, <2>2, <2>3, <2>5 DEF Finds
  <2> QED BY <2>4, <2>6 DEF KeepsMaint
<1>6. CASE RecoverEnqueues(s)
  <2>1. PICK o \in maint[s].pick :
          \/ maint' = [maint EXCEPT ![s] = [Sweeping EXCEPT !.at = "boot"]]
          \/ /\ ~IsStored(o) /\ Enqueue(o, TRUE)
             /\ maint' = [maint EXCEPT ![s] =
                   [maint[s] EXCEPT !.at = "prepared", !.pick = {},
                                    !.wake = IF @ = "none" THEN "due" ELSE @]]
    BY <1>6 DEF RecoverEnqueues
  <2>2. maint[s].at = "enqueue" /\ maint[s].pick = {o} /\ o \in Dispatch
    BY <1>0, <1>6, <2>1 DEF RecoverEnqueues, MaintIs, MaintHolds
  <2>3. CASE maint' = [maint EXCEPT ![s] = [Sweeping EXCEPT !.at = "boot"]]
    <3>1. maint'[s].at = "boot" /\ maint'[s].pick = {} BY <1>0, <2>3 DEF Sweeping
    <3> QED BY <1>1, <3>1 DEF KeepsMaint, Finds, MaintHolds
  <2>4. CASE /\ ~IsStored(o) /\ Enqueue(o, TRUE)
             /\ maint' = [maint EXCEPT ![s] =
                   [maint[s] EXCEPT !.at = "prepared", !.pick = {},
                                    !.wake = IF @ = "none" THEN "due" ELSE @]]
    <3>1. /\ maint'[s].at = "prepared" /\ maint'[s].pick = {}
          /\ maint'[s].todo = maint[s].todo
      BY <1>0, <2>4 DEF MaintRecord
    <3>2. IsStored(o)'
      <4>1. dispatches'[o].status = "Queued" BY <2>2, <2>4, BaseStore, EnqueueCalm
      <4> QED BY <4>1 DEF IsStored, StatusOf
    <3> QED BY <1>1, <2>2, <3>1, <3>2 DEF KeepsMaint, Finds, MaintHolds
  <2> QED BY <2>1, <2>3, <2>4
<1>7. CASE RecoverEnds(s)
  <2>1. /\ maint[s].at = "prepared" /\ maint[s].todo = {}
        /\ maint' = [maint EXCEPT ![s] = Sweeping]
    BY <1>7 DEF RecoverEnds, MaintIs
  <2>2. maint'[s] = Sweeping /\ maint[s].pick = {} BY <1>0, <2>1 DEF MaintHolds
  <2> QED BY <1>1, <2>1, <2>2 DEF KeepsMaint, Finds, MaintHolds, Sweeping
<1> QED BY <1>2, <1>3, <1>4, <1>5, <1>6, <1>7 DEF RecoverStep

LEMMA MaintStep ==
    ASSUME Base, MaintInv, [ServiceNext]_serviceVars, NEW s \in Server
    PROVE  KeepsMaint(s)
<1>0. maint \in [Server -> MaintRecord] BY RestOfBase
<1>1. CASE maint'[s] = maint[s] /\ (s \in up <=> s \in up') BY <1>1, MaintStands
<1>2. ASSUME NEW r \in Server, SweepStep(r) \/ RecoverStep(r) PROVE KeepsMaint(s)
  <2>1. CASE r = s BY <1>2, <2>1, SweepKeepsMaint, RecoverKeepsMaint
  <2>2. CASE r # s
    <3>1. up' = up
      BY <1>2 DEF SweepStep, SweepReclaims, SweepReconcilesReclaimed, SweepWakesWorker,
         SweepReconciles, RecoverStep, RecoverReclaims, RecoverWakesQueued,
         RecoverListsPrepared, RecoverLoads, RecoverEnqueues, RecoverEnds, hostVars
    <3>2. maint'[s] = maint[s]
      BY <1>0, <1>2, <2>2 DEF SweepStep, SweepReclaims, SweepReconcilesReclaimed,
         SweepWakesWorker, SweepReconciles, RecoverStep, RecoverReclaims, RecoverWakesQueued,
         RecoverListsPrepared, RecoverLoads, RecoverEnqueues, RecoverEnds, MaintAt
    <3> QED BY <1>1, <3>1, <3>2
  <2> QED BY <2>1, <2>2
<1>3. ASSUME NEW r \in Server, Crash(r) PROVE KeepsMaint(s)
  <2>1. /\ up' = up \ {r}
        /\ maint' = [maint EXCEPT ![r] = [Sweeping EXCEPT !.at = "boot"]]
    BY <1>3 DEF Crash
  <2>2. CASE r # s BY <1>0, <1>1, <2>1, <2>2
  <2>3. CASE r = s
    <3>1. maint'[s].at = "boot" /\ maint'[s].pick = {} /\ s \notin up'
      BY <1>0, <2>1, <2>3 DEF Sweeping
    <3> QED BY <3>1 DEF KeepsMaint, Finds, MaintHolds
  <2> QED BY <2>2, <2>3
<1>4. ASSUME NEW r \in Server, Restart(r) PROVE KeepsMaint(s)
  <2>1. r \notin up /\ up' = up \cup {r} /\ maint' = maint BY <1>4 DEF Restart
  <2>2. CASE r # s BY <1>1, <2>1, <2>2
  <2>3. CASE r = s
    <3>1. MaintHolds(maint[s], s \in up) /\ s \notin up BY <2>1, <2>3 DEF MaintInv
    <3>2. maint'[s].at = "boot" /\ maint'[s].pick = {} /\ s \in up'
      BY <2>1, <2>3, <3>1 DEF MaintHolds
    <3> QED BY <3>2 DEF KeepsMaint, Finds, MaintHolds
  <2> QED BY <2>2, <2>3
<1>5. ASSUME NEW r \in Server, ServerStep(r) PROVE KeepsMaint(s)
  <2>1. CASE ClaimNext(r) \/ RevertClaiming(r)
    BY <1>1, <2>1 DEF ClaimNext, RevertClaiming, hostVars
  <2> QED BY <1>2, <1>5, <2>1 DEF ServerStep
<1>6. ASSUME NEW d \in Dispatch, SubmitStep(d) PROVE KeepsMaint(s)
  BY <1>1, <1>6 DEF SubmitStep, SubmitInterrupts, SubmitClosesSuperseded, SubmitCancelsActive,
     SubmitRunWaitTimesOut, SubmitCancelsLive, SubmitWaitsForRelease, SubmitPreparesRun,
     SubmitEnqueues, SubmitClaims, SubmitLosesClaim, SubmitUndoes, SubmitReconciles,
     SubmitWakesWorker, hostVars
<1>7. ASSUME NEW e \in exec, ExecStep(e) \/ RunStep(e) PROVE KeepsMaint(s)
  BY <1>1, <1>7 DEF ExecStep, RunStep, RunCheckpoints, RunSuspends, RunResumes, RunEnds,
     SuspendedRunEnds, ExecLoads, ExecChecksEpoch, ExecSupersedes, ExecClosesSuperseded,
     ExecRecordsStart, ExecRefused, ExecRegisters, ExecRecordsResult, ExecSettles,
     ExecClosesDeadLetter, ExecReleasesWorker, ExecTriesNext, OnlyExec, hostVars
<1>8. ASSUME \/ \E p \in starting : StartExecution(p)
             \/ \E p \in renewals : RenewLease(p)
             \/ \E d \in Dispatch : TimePasses(d)
             \/ \E c \in calls : CallStep(c)
             \/ \E r \in Server : \/ ApiInterrupts(r)
                                  \/ \E d \in Dispatch : ApiCancelsDispatch(r, d)
      PROVE  KeepsMaint(s)
  BY <1>1, <1>8 DEF StartExecution, RenewLease, TimePasses, CallStep, CallClosesRun,
     CallCancelsActive, ApiInterrupts, ApiCancelsDispatch, CallBegins, hostVars
<1>9. CASE UNCHANGED serviceVars BY <1>1, <1>9 DEF serviceVars, hostVars
<1>10. CASE ServiceNext
  BY <1>3, <1>4, <1>5, <1>6, <1>7, <1>8, <1>10, Zenon DEF ServiceNext
<1> QED BY <1>9, <1>10

\* A run that was prepared by a submit its server did not survive has its
\* dispatch in the store, or the startup recovery of the server is going to
\* find it missing: for any crashes, at any place of the submit and of the
\* recovery itself.
THEOREM LostSubmitIsRecoveredHolds == ServiceSpec => []LostSubmitIsRecovered
<1>1. ServiceInit => MaintInv /\ LostIsFound
  BY DEF ServiceInit, MaintInv, MaintHolds, Sweeping, LostIsFound
<1>2. Base /\ MaintInv /\ LostIsFound /\ [ServiceNext]_serviceVars => MaintInv' /\ LostIsFound'
  <2> SUFFICES ASSUME Base, MaintInv, LostIsFound, [ServiceNext]_serviceVars
               PROVE  MaintInv' /\ LostIsFound'
    OBVIOUS
  <2>1. \A s \in Server : KeepsMaint(s) BY MaintStep
  <2>2. MaintInv' BY <2>1 DEF MaintInv, KeepsMaint
  <2>3. ASSUME NEW d \in Dispatch, submit'[d].at = "lost", ~IsStored(d)', Prepared(d)'
        PROVE  Finds(HomeOf[d], d)'
    <3>1. HomeOf[d] \in Server /\ ~IsStored(d) BY <2>3, RestOfBase, StoredStays
    <3>2. CASE HomeOf[d] \notin up' BY <3>2 DEF Finds
    <3>3. CASE submit[d].at = "lost" /\ Prepared(d)
      <4>1. Finds(HomeOf[d], d) BY <3>1, <3>3 DEF LostIsFound
      <4> QED BY <2>1, <2>3, <3>1, <3>3, <4>1 DEF KeepsMaint
    <3> QED BY <2>3, <3>2, <3>3, StepLosesNone DEF LosesNone
  <2> QED BY <2>2, <2>3 DEF LostIsFound
<1>3. LostIsFound => LostSubmitIsRecovered
  BY DEF LostIsFound, LostSubmitIsRecovered, Prepared, Finds
<1> QED BY <1>1, <1>2, <1>3, BaseHolds, PTL DEF ServiceSpec

-----------------------------------------------------------------------------
(* A submit that answers with a conflict leaves nothing to be executed.    *)

\* The dispatches whose runs a submit or a call is about to close are stored.
TodoStored == /\ \A d \in Dispatch : \A o \in submit[d].todo : IsStored(o)
              /\ \A c \in calls : \A o \in c.todo : IsStored(o)

\* A run record that was not written was given to nobody.
NoneByNobody == \A r \in Run : runs[r].status = "None" => runs[r].by = <<>>

\* The step writes the run of o as st: it is closed, or it is executed, or
\* prepared by the submit.
Writes(o, st) ==
    /\ runs' = RunWritten(o, st) /\ st \in Open \cup Closed
    /\ \/ IsStored(o) /\ st \in Closed
       \/ /\ IsStored(o) /\ claims[o] # 0
          /\ st = "Waiting" \/ \E e \in exec : e.claim[1] = o /\ RunCheckpoints(e)
       \/ SubmitPreparesRun(o)

LEMMA ClosedWrites ==
    ASSUME NEW o \in Dispatch, IsStored(o),
           \/ runs' = RunClosed(o, "Cancelled") \/ runs' = RunClosed(o, "Errored")
    PROVE  runs' = runs \/ \E st : Writes(o, st)
<1>1. runs' = runs \/ \E how \in {"Cancelled", "Errored"} : runs' = RunWritten(o, how)
  BY Zenon DEF RunClosed
<1> QED BY <1>1 DEF Writes, Closed

LEMMA ReconciledWrites ==
    ASSUME NEW o \in Dispatch, runs' = RunReconciled(o)
    PROVE  runs' = runs \/ \E st : Writes(o, st)
<1>1. CASE StatusOf(o) \in {"DeadLetter", "Cancelled", "Superseded"}
  <2>1. IsStored(o) BY <1>1 DEF IsStored
  <2>2. runs' = RunClosed(o, "Cancelled") \/ runs' = RunClosed(o, "Errored")
    BY <1>1 DEF RunReconciled
  <2> QED BY <2>1, <2>2, ClosedWrites
<1>2. CASE StatusOf(o) \notin {"DeadLetter", "Cancelled", "Superseded"}
  BY <1>2 DEF RunReconciled
<1> QED BY <1>1, <1>2

LEMMA ExecWrites ==
    ASSUME Base, NEW e \in exec, ExecStep(e) \/ RunStep(e)
    PROVE  runs' = runs \/ \E o \in Dispatch : \E st : Writes(o, st)
<1> DEFINE o == e.claim[1]
<1>1. o \in Dispatch /\ e.claim[2] \in 1..claims[o] BY ExecIsTyped
<1>2. IsStored(o) /\ claims[o] # 0 BY <1>1, ExecIsStored, TypedTasks
<1>3. ASSUME NEW st \in Open \cup Closed, runs' = RunWritten(o, st),
             st \in Closed \cup {"Waiting"} \/ RunCheckpoints(e)
      PROVE  \E x \in Dispatch : \E y : Writes(x, y)
  <2>1. Writes(o, st) BY <1>2, <1>3 DEF Writes
  <2> QED BY <1>1, <2>1
<1>4. CASE \/ ExecLoads(e) \/ ExecChecksEpoch(e) \/ ExecSupersedes(e)
           \/ ExecRecordsStart(e) \/ ExecRefused(e) \/ ExecRegisters(e)
           \/ ExecRecordsResult(e) \/ ExecSettles(e) \/ ExecReleasesWorker(e)
           \/ ExecTriesNext(e) \/ RunResumes(e)
  BY <1>4 DEF ExecLoads, ExecChecksEpoch, ExecSupersedes, ExecRecordsStart, ExecRefused,
     ExecRegisters, ExecRecordsResult, ExecSettles, ExecReleasesWorker, ExecTriesNext, RunResumes
<1>5. CASE ExecClosesSuperseded(e) \/ ExecClosesDeadLetter(e)
  <2>1. runs' = RunClosed(o, "Cancelled") \/ runs' = RunClosed(o, "Errored")
    BY <1>5 DEF ExecClosesSuperseded, ExecClosesDeadLetter
  <2> HIDE DEF o
  <2>2. runs' = runs \/ \E st : Writes(o, st) BY <1>1, <1>2, <2>1, ClosedWrites
  <2> QED BY <1>1, <2>2
<1>6. CASE RunCheckpoints(e) \/ RunSuspends(e) \/ SuspendedRunEnds(e)
  <2>1. \/ RunCheckpoints(e) /\ runs' = RunWritten(o, "Running")
        \/ runs' = RunWritten(o, "Waiting")
    BY <1>6 DEF RunCheckpoints, RunSuspends, SuspendedRunEnds
  <2> QED BY <1>3, <2>1 DEF Open
<1>7. CASE RunEnds(e)
  <2>1. PICK outcome : LeavesRecord(e, outcome) BY <1>7 DEF RunEnds
  <2>2. CASE outcome \in DOMAIN FinalStatus /\ runs' = RunWritten(o, FinalStatus[outcome])
    <3>1. FinalStatus[outcome] \in Closed \cup {"Waiting"} BY <2>2 DEF FinalStatus, Closed
    <3> QED BY <1>3, <2>2, <3>1 DEF Open
  <2> QED BY <2>1, <2>2 DEF LeavesRecord
<1> QED BY <1>4, <1>5, <1>6, <1>7 DEF ExecStep, RunStep

LEMMA SubmitWrites ==
    ASSUME Base, TodoStored, NEW d \in Dispatch, SubmitStep(d)
    PROVE  runs' = runs \/ \E o \in Dispatch : \E st : Writes(o, st)
<1>1. CASE \/ SubmitInterrupts(d) \/ SubmitCancelsActive(d) \/ SubmitRunWaitTimesOut(d)
           \/ SubmitCancelsLive(d) \/ SubmitWaitsForRelease(d) \/ SubmitEnqueues(d)
           \/ SubmitClaims(d) \/ SubmitLosesClaim(d) \/ SubmitUndoes(d) \/ SubmitWakesWorker(d)
  BY <1>1 DEF SubmitInterrupts, SubmitCancelsActive, SubmitRunWaitTimesOut, SubmitCancelsLive,
     SubmitWaitsForRelease, SubmitEnqueues, SubmitClaims, SubmitLosesClaim, SubmitUndoes,
     SubmitWakesWorker
<1>2. CASE SubmitClosesSuperseded(d)
  <2>1. PICK o \in submit[d].todo : runs' = RunClosed(o, "Cancelled")
    BY <1>2 DEF SubmitClosesSuperseded
  <2>2. o \in Dispatch /\ IsStored(o) BY RestOfBase DEF SubmitRecord, TodoStored
  <2> QED BY <2>1, <2>2, ClosedWrites
<1>3. CASE SubmitPreparesRun(d)
  <2>1. \/ runs' = runs
        \/ \E st \in {"Waiting", "Created"} : runs' = RunWritten(d, st)
    BY <1>3, Zenon DEF SubmitPreparesRun, RunWritten
  <2>2. ASSUME NEW st \in {"Waiting", "Created"}, runs' = RunWritten(d, st) PROVE Writes(d, st)
    BY <1>3, <2>2 DEF Writes, Open
  <2> QED BY <2>1, <2>2
<1>4. CASE SubmitReconciles(d) BY <1>4, ReconciledWrites DEF SubmitReconciles
<1> QED BY <1>1, <1>2, <1>3, <1>4 DEF SubmitStep

LEMMA StepWrites ==
    ASSUME Base, TodoStored, [ServiceNext]_serviceVars
    PROVE  runs' = runs \/ \E o \in Dispatch : \E st : Writes(o, st)
<1> DEFINE Goal == runs' = runs \/ \E o \in Dispatch : \E st : Writes(o, st)
<1>1. ASSUME NEW c \in calls, CallStep(c) PROVE Goal
  <2>1. c.todo \subseteq Dispatch /\ \A o \in c.todo : IsStored(o)
    BY RestOfBase DEF CallRecord, TodoStored
  <2>2. \/ runs' = runs \/ \E o \in c.todo : runs' = RunClosed(o, "Cancelled")
    BY <1>1 DEF CallStep, CallClosesRun, CallCancelsActive
  <2> QED BY <2>1, <2>2, ClosedWrites
<1>2. ASSUME NEW s \in Server, SweepStep(s) PROVE Goal
  <2>1. maint[s].todo \subseteq Dispatch BY RestOfBase DEF MaintRecord
  <2>2. runs' = runs \/ \E o \in Dispatch : runs' = RunReconciled(o)
    BY <1>2, <2>1 DEF SweepStep, SweepReclaims, SweepReconcilesReclaimed, SweepWakesWorker,
         SweepReconciles
  <2> QED BY <2>2, ReconciledWrites
<1>3. ASSUME NEW s \in Server, ServerStep(s) PROVE Goal
  <2>1. CASE \/ ClaimNext(s) \/ RevertClaiming(s) \/ RecoverStep(s)
    BY <2>1 DEF ClaimNext, RevertClaiming, RecoverStep, RecoverReclaims, RecoverWakesQueued,
       RecoverListsPrepared, RecoverLoads, RecoverEnqueues, RecoverEnds
  <2> QED BY <1>2, <1>3, <2>1 DEF ServerStep
<1>4. ASSUME \/ \E p \in starting : StartExecution(p)
             \/ \E p \in renewals : RenewLease(p)
             \/ \E d \in Dispatch : TimePasses(d)
             \/ \E s \in Server : \/ Crash(s) \/ Restart(s) \/ ApiInterrupts(s)
                                  \/ \E d \in Dispatch : ApiCancelsDispatch(s, d)
      PROVE  Goal
  BY <1>4 DEF StartExecution, RenewLease, TimePasses, Restart, Crash, ApiInterrupts,
     ApiCancelsDispatch, CallBegins
<1>5. ASSUME UNCHANGED serviceVars PROVE Goal BY <1>5 DEF serviceVars
<1>6. ASSUME NEW d \in Dispatch, SubmitStep(d) PROVE Goal BY <1>6, SubmitWrites
<1>7. ASSUME NEW e \in exec, ExecStep(e) \/ RunStep(e) PROVE Goal BY <1>7, ExecWrites
<1> HIDE DEF Goal
<1>8. ASSUME ServiceNext PROVE Goal
  BY <1>1, <1>3, <1>4, <1>6, <1>7, <1>8, Zenon DEF ServiceNext
<1>9. Goal BY <1>5, <1>8
<1> QED BY <1>9 DEF Goal

\* What a step adds to these sets is in the store.
LEMMA SubmitAtKeeps ==
    ASSUME Base, NEW d \in Dispatch, NEW at, SubmitAt(d, at), NEW o \in Dispatch
    PROVE  submit'[o].todo = submit[o].todo
<1>1. submit \in [Dispatch -> SubmitRecord] BY DEF Base, SubmitType
<1>2. submit[d] \in SubmitRecord BY <1>1
<1>3. [submit[d] EXCEPT !.at = at].todo = submit[d].todo BY <1>2 DEF SubmitRecord
<1>4. submit' = [submit EXCEPT ![d] = [submit[d] EXCEPT !.at = at]]
  BY <1>1, Zenon DEF SubmitAt
<1> QED BY <1>1, <1>3, <1>4

LEMMA SubmitTodo ==
    ASSUME Base, [ServiceNext]_serviceVars, NEW d \in Dispatch, NEW o \in submit'[d].todo
    PROVE  o \in submit[d].todo \/ IsStored(o)
<1>0. submit \in [Dispatch -> SubmitRecord] BY RestOfBase
<1> DEFINE Goal == o \in submit[d].todo \/ IsStored(o)
<1>1. ASSUME submit' = submit PROVE Goal BY <1>1
<1>2. ASSUME NEW x \in Dispatch, SubmitStep(x) PROVE Goal
  <2>1. CASE SubmitInterrupts(x)
    <3>1. \/ submit'[d] = submit[d]
          \/ submit'[d].todo = {y \in Dispatch : IsQueued(y)}
      BY <1>0, <2>1 DEF SubmitInterrupts
    <3> QED BY <3>1 DEF IsQueued, IsStored, Stored, Active
  <2>2. CASE SubmitClosesSuperseded(x)
    <3>1. PICK y : submit' = [submit EXCEPT ![x] =
                                [submit[x] EXCEPT !.todo = submit[x].todo \ {y}]]
      BY <2>2, Zenon DEF SubmitClosesSuperseded
    <3>2. [submit[x] EXCEPT !.todo = submit[x].todo \ {y}].todo = submit[x].todo \ {y}
      BY <1>0 DEF SubmitRecord
    <3> QED BY <1>0, <3>1, <3>2
  <2>3. CASE \/ SubmitCancelsActive(x) \/ SubmitRunWaitTimesOut(x) \/ SubmitCancelsLive(x)
             \/ SubmitWaitsForRelease(x) \/ SubmitPreparesRun(x) \/ SubmitEnqueues(x)
             \/ SubmitClaims(x) \/ SubmitLosesClaim(x) \/ SubmitUndoes(x)
             \/ SubmitReconciles(x) \/ SubmitWakesWorker(x)
    <3>1. \E at : SubmitAt(x, at)
      BY <2>3 DEF SubmitCancelsActive, SubmitRunWaitTimesOut, SubmitCancelsLive,
         SubmitWaitsForRelease, SubmitPreparesRun, SubmitEnqueues, SubmitClaims,
         SubmitLosesClaim, SubmitUndoes, SubmitReconciles, SubmitWakesWorker
    <3> QED BY <3>1, SubmitAtKeeps
  <2> QED BY <1>2, <2>1, <2>2, <2>3 DEF SubmitStep
<1>3. ASSUME NEW e \in exec, ExecStep(e) \/ RunStep(e) PROVE Goal
  <2>1. submit' = submit \/ RunNotifiesWaiters(e.on)
    BY <1>3 DEF ExecStep, RunStep, RunCheckpoints, RunSuspends, RunResumes, RunEnds,
       SuspendedRunEnds, ExecLoads, ExecChecksEpoch, ExecSupersedes, ExecClosesSuperseded,
       ExecRecordsStart, ExecRefused, ExecRegisters, ExecRecordsResult, ExecSettles,
       ExecClosesDeadLetter, ExecReleasesWorker, ExecTriesNext, OnlyExec
  <2>2. [submit[d] EXCEPT !.at = "waitStore"].todo = submit[d].todo BY <1>0 DEF SubmitRecord
  <2>3. submit' = submit \/ submit'[d] \in {submit[d], [submit[d] EXCEPT !.at = "waitStore"]}
    BY <2>1 DEF RunNotifiesWaiters
  <2> QED BY <2>2, <2>3
<1>4. ASSUME NEW s \in Server, Crash(s) PROVE Goal
  <2>1. \/ submit'[d] = submit[d] \/ submit'[d] = [at |-> "lost", todo |-> {}, found |-> {}]
    BY <1>4 DEF Crash
  <2> QED BY <2>1
<1>5. ASSUME NEW s \in Server, ServerStep(s) PROVE Goal
  BY <1>1, <1>5 DEF ServerStep, ClaimNext, RevertClaiming, SweepStep, SweepReclaims,
     SweepReconcilesReclaimed, SweepWakesWorker, SweepReconciles, RecoverStep,
     RecoverReclaims, RecoverWakesQueued, RecoverListsPrepared, RecoverLoads,
     RecoverEnqueues, RecoverEnds
<1>6. ASSUME \/ \E p \in starting : StartExecution(p)
             \/ \E p \in renewals : RenewLease(p)
             \/ \E c \in calls : CallStep(c)
             \/ \E x \in Dispatch : TimePasses(x)
             \/ \E s \in Server : \/ Restart(s) \/ ApiInterrupts(s)
                                  \/ \E x \in Dispatch : ApiCancelsDispatch(s, x)
      PROVE  Goal
  BY <1>1, <1>6 DEF StartExecution, RenewLease, CallStep, CallClosesRun, CallCancelsActive,
     TimePasses, Restart, ApiInterrupts, ApiCancelsDispatch, CallBegins
<1>7. ASSUME UNCHANGED serviceVars PROVE Goal BY <1>1, <1>7 DEF serviceVars
<1> HIDE DEF Goal
<1>8. ASSUME ServiceNext PROVE Goal
  BY <1>2, <1>3, <1>4, <1>5, <1>6, <1>8, Zenon DEF ServiceNext
<1>9. Goal BY <1>7, <1>8
<1> QED BY <1>9 DEF Goal

LEMMA CallTodo ==
    ASSUME Base, [ServiceNext]_serviceVars, NEW c \in calls', NEW o \in c.todo
    PROVE  IsStored(o) \/ \E b \in calls : o \in b.todo
<1>0. calls \subseteq CallRecord BY RestOfBase
<1> DEFINE Goal == IsStored(o) \/ \E b \in calls : o \in b.todo
<1>1. ASSUME calls' \subseteq calls PROVE Goal BY <1>1
<1>2. ASSUME NEW b \in calls, CallStep(b) PROVE Goal
  <2>1. CASE CallClosesRun(b)
    <3>1. PICK y : calls' = (calls \ {b}) \cup {[b EXCEPT !.todo = b.todo \ {y}]}
      BY <2>1, Zenon DEF CallClosesRun
    <3>2. [b EXCEPT !.todo = b.todo \ {y}].todo = b.todo \ {y} BY <1>0 DEF CallRecord
    <3> QED BY <3>1, <3>2
  <2>2. CASE CallCancelsActive(b) BY <1>1, <2>2 DEF CallCancelsActive
  <2> QED BY <1>2, <2>1, <2>2 DEF CallStep
<1>3. ASSUME NEW s \in Server, NEW x \in Dispatch, ApiCancelsDispatch(s, x) PROVE Goal
  <2> DEFINE new == [on |-> s, byThread |-> FALSE, todo |-> IF IsQueued(x) THEN {x} ELSE {},
                     found |-> IF IsQueued(x) THEN {} ELSE {x}]
  <2>1. calls' = calls \cup {new} BY <1>3, Zenon DEF ApiCancelsDispatch, CallBegins
  <2>2. \A y \in new.todo : IsQueued(y) OBVIOUS
  <2> HIDE DEF new
  <2> QED BY <2>1, <2>2 DEF IsQueued, IsStored, Stored, Active
<1>4. ASSUME NEW s \in Server, ApiInterrupts(s) PROVE Goal
  <2> DEFINE new == [on |-> s, byThread |-> TRUE,
                     todo |-> {y \in Dispatch : IsQueued(y)},
                     found |-> {y \in Dispatch : IsClaimed(y)}]
  <2>1. calls' = calls \cup {new} BY <1>4, Zenon DEF ApiInterrupts, CallBegins
  <2>2. \A y \in new.todo : IsQueued(y) OBVIOUS
  <2> HIDE DEF new
  <2> QED BY <2>1, <2>2 DEF IsQueued, IsStored, Stored, Active
<1>5. ASSUME NEW s \in Server, ServerStep(s) PROVE Goal
  BY <1>1, <1>5 DEF ServerStep, ClaimNext, RevertClaiming, SweepStep, SweepReclaims,
     SweepReconcilesReclaimed, SweepWakesWorker, SweepReconciles, RecoverStep,
     RecoverReclaims, RecoverWakesQueued, RecoverListsPrepared, RecoverLoads,
     RecoverEnqueues, RecoverEnds
<1>6. ASSUME \/ \E p \in starting : StartExecution(p)
             \/ \E p \in renewals : RenewLease(p)
             \/ \E x \in Dispatch : TimePasses(x)
             \/ \E s \in Server : Restart(s) \/ Crash(s)
      PROVE  Goal
  BY <1>1, <1>6 DEF StartExecution, RenewLease, TimePasses, Restart, Crash
<1>7. ASSUME NEW x \in Dispatch, SubmitStep(x) PROVE Goal
  BY <1>1, <1>7 DEF SubmitStep, SubmitInterrupts, SubmitClosesSuperseded, SubmitCancelsActive,
     SubmitRunWaitTimesOut, SubmitCancelsLive, SubmitWaitsForRelease, SubmitPreparesRun,
     SubmitEnqueues, SubmitClaims, SubmitLosesClaim, SubmitUndoes, SubmitReconciles,
     SubmitWakesWorker
<1>8. ASSUME NEW e \in exec, ExecStep(e) \/ RunStep(e) PROVE Goal
  BY <1>1, <1>8 DEF ExecStep, RunStep, RunCheckpoints, RunSuspends, RunResumes, RunEnds,
     SuspendedRunEnds, ExecLoads, ExecChecksEpoch, ExecSupersedes, ExecClosesSuperseded,
     ExecRecordsStart, ExecRefused, ExecRegisters, ExecRecordsResult, ExecSettles,
     ExecClosesDeadLetter, ExecReleasesWorker, ExecTriesNext, OnlyExec
<1>9. ASSUME UNCHANGED serviceVars PROVE Goal BY <1>1, <1>9 DEF serviceVars
<1> HIDE DEF Goal
<1>10. ASSUME ServiceNext PROVE Goal
  BY <1>2, <1>3, <1>4, <1>5, <1>6, <1>7, <1>8, <1>10, Zenon DEF ServiceNext
<1>11. Goal BY <1>9, <1>10
<1> QED BY <1>11 DEF Goal

LEMMA TodoStep ==
    ASSUME Base, TodoStored, NoneByNobody, [ServiceNext]_serviceVars
    PROVE  TodoStored' /\ NoneByNobody'
<1>1. ASSUME NEW d \in Dispatch, NEW o \in submit'[d].todo PROVE IsStored(o)'
  <2>1. submit \in [Dispatch -> SubmitRecord] /\ submit' \in [Dispatch -> SubmitRecord]
    BY RestOfBase, RestStep DEF RestType, SubmitType
  <2>2. o \in Dispatch BY <2>1 DEF SubmitRecord
  <2>3. IsStored(o) BY <1>1, SubmitTodo DEF TodoStored
  <2> QED BY <2>2, <2>3, StoredStays
<1>2. ASSUME NEW c \in calls', NEW o \in c.todo PROVE IsStored(o)'
  <2>1. calls' \subseteq CallRecord BY RestStep DEF RestType, SubmitType
  <2>2. o \in Dispatch BY <2>1 DEF CallRecord
  <2>3. IsStored(o) BY <1>2, CallTodo DEF TodoStored
  <2> QED BY <2>2, <2>3, StoredStays
<1>3. NoneByNobody'
  <2>0. runs \in [Run -> RunRecord] BY RestOfBase
  <2>1. CASE runs' = runs BY <2>1 DEF NoneByNobody
  <2>2. ASSUME NEW o \in Dispatch, NEW st, Writes(o, st) PROVE NoneByNobody'
    <3>1. runs' = [runs EXCEPT ![RunOf[o]] = [status |-> st, by |-> <<o>>]] /\ st # "None"
      BY <2>2 DEF Writes, RunWritten, Open, Closed
    <3> QED BY <2>0, <3>1 DEF NoneByNobody
  <2> QED BY <2>1, <2>2, StepWrites
<1> QED BY <1>1, <1>2, <1>3 DEF TodoStored

\* Two calls of the store insert a dispatch.
LEMMA StoredOnlyBy ==
    ASSUME Base, [ServiceNext]_serviceVars, NEW d \in Dispatch, ~IsStored(d), IsStored(d)'
    PROVE  \/ SubmitEnqueues(d)
           \/ \E s \in Server : RecoverEnqueues(s) /\ d \in maint[s].pick
<1> USE BaseStore
<1> DEFINE Goal == \/ SubmitEnqueues(d)
                   \/ \E s \in Server : RecoverEnqueues(s) /\ d \in maint[s].pick
<1>1. ASSUME dispatches'[d] = dispatches[d] PROVE FALSE BY <1>1 DEF IsStored, StatusOf
<1>2. ASSUME UNCHANGED storeVars PROVE FALSE BY <1>1, <1>2 DEF storeVars
<1>3. ASSUME NEW o \in Dispatch, NEW available \in BOOLEAN, ~IsStored(o), Enqueue(o, available)
      PROVE  o = d
  BY <1>1, <1>3, EnqueueCalm
<1>4. ASSUME NEW won, WinEffect(won) PROVE FALSE
  <2>1. dispatches'[d] = dispatches[d] \/ dispatches[d].status = "Queued"
    BY <1>4 DEF WinEffect
  <2> QED BY <1>1, <2>1 DEF IsStored, StatusOf, Stored, Active
<1>5. ASSUME NEW o \in Dispatch, Cancel(o) PROVE FALSE
  BY <1>1, <1>5, CancelCalm DEF Cancel, IsQueued, IsStored, Stored, Active
<1>6. ASSUME InterruptDetailed(thread) PROVE FALSE BY <1>6, InterruptCalm, ThreadIsThread
<1>7. ASSUME ReclaimExpiredLeases PROVE FALSE BY <1>7, ReclaimCalm
<1>8. ASSUME NEW o \in Dispatch, IsStored(o), HolderCalm(o) PROVE FALSE
  BY <1>1, <1>8 DEF HolderCalm
<1>9. ASSUME NEW x \in Dispatch, SubmitStep(x) PROVE Goal
  <2>1. CASE SubmitEnqueues(x)
    <3>1. UNCHANGED storeVars \/ (~IsStored(x) /\ Enqueue(x, x \notin Inline))
      BY <2>1 DEF SubmitEnqueues
    <3> QED BY <1>2, <1>3, <2>1, <3>1
  <2>2. CASE SubmitInterrupts(x) BY <1>6, <2>2 DEF SubmitInterrupts
  <2>3. CASE SubmitUndoes(x) BY <1>2, <1>5, <2>3 DEF SubmitUndoes
  <2>4. CASE SubmitClaims(x) \/ SubmitLosesClaim(x)
    <3>1. UNCHANGED storeVars \/ ClaimDispatch(x) BY <2>4 DEF SubmitClaims, SubmitLosesClaim
    <3> QED BY <1>2, <1>4, <3>1, ClaimDispatchWins
  <2> QED BY <1>2, <1>9, <2>1, <2>2, <2>3, <2>4 DEF SubmitStep, SubmitClosesSuperseded,
       SubmitCancelsActive, SubmitRunWaitTimesOut, SubmitCancelsLive, SubmitWaitsForRelease,
       SubmitPreparesRun, SubmitReconciles, SubmitWakesWorker
<1>10. ASSUME NEW e \in exec, ExecStep(e) \/ RunStep(e) PROVE Goal
  <2>1. e.claim[1] \in Dispatch /\ IsStored(e.claim[1]) BY ExecIsTyped, ExecIsStored
  <2>2. CASE \/ ExecSupersedes(e) \/ ExecRecordsStart(e) \/ ExecRecordsResult(e)
             \/ ExecSettles(e)
    <3>1. HolderCalm(e.claim[1]) BY <2>2, ExecCallsShape DEF Moves
    <3> QED BY <1>8, <2>1, <3>1
  <2> QED BY <1>2, <1>10, <2>2 DEF ExecStep, RunStep, RunCheckpoints, RunSuspends, RunResumes,
       RunEnds, SuspendedRunEnds, ExecLoads, ExecChecksEpoch, ExecClosesSuperseded,
       ExecRefused, ExecRegisters, ExecClosesDeadLetter, ExecReleasesWorker, ExecTriesNext
<1>11. ASSUME NEW p \in renewals, RenewLease(p) PROVE Goal
  <2>1. p.claim[1] \in Dispatch /\ claims[p.claim[1]] # 0
    BY <1>11, TypedTasks, RenewShape DEF Issued, ClaimId
  <2>2. IsStored(p.claim[1])
    <3>1. RecordOK(dispatches[p.claim[1]], CurrentEpoch(p.claim[1]), claims[p.claim[1]],
                   p.claim[1] \in fenced)
      BY <2>1, BaseStore DEF StoreIInv
    <3> QED BY <2>1, <3>1, NotStoredIsAbsent DEF RecordOK, StatusOf
  <2> QED BY <1>8, <1>11, <2>1, <2>2, RenewShape
<1>12. ASSUME NEW s \in Server, ServerStep(s) PROVE Goal
  <2>1. CASE ClaimNext(s)
    <3>1. \E won : WinEffect(won) BY <2>1, ClaimNextShape
    <3> QED BY <1>4, <3>1
  <2>2. CASE RecoverEnqueues(s)
    <3>1. PICK o \in maint[s].pick :
            UNCHANGED storeVars \/ (~IsStored(o) /\ Enqueue(o, TRUE))
      BY <2>2 DEF RecoverEnqueues
    <3>2. o \in Dispatch BY RestOfBase DEF MaintRecord
    <3>3. o = d BY <1>2, <1>3, <3>1, <3>2
    <3> QED BY <2>2, <3>3
  <2>3. CASE SweepReclaims(s) \/ RecoverReclaims(s)
    BY <1>2, <1>7, <2>3 DEF SweepReclaims, RecoverReclaims
  <2> QED BY <1>2, <1>12, <2>1, <2>2, <2>3 DEF ServerStep, RevertClaiming, SweepStep,
       SweepReconcilesReclaimed, SweepWakesWorker, SweepReconciles, RecoverStep,
       RecoverWakesQueued, RecoverListsPrepared, RecoverLoads, RecoverEnds
<1>13. ASSUME NEW s \in Server, ApiInterrupts(s) PROVE Goal
  BY <1>6, <1>13 DEF ApiInterrupts
<1>14. ASSUME NEW s \in Server, NEW x \in Dispatch, ApiCancelsDispatch(s, x) PROVE Goal
  BY <1>2, <1>5, <1>14 DEF ApiCancelsDispatch
<1>15. ASSUME NEW x \in Dispatch, TimePasses(x) PROVE Goal
  BY <1>1, <1>15, TimeCalm DEF TimePasses, IsStored
<1>16. ASSUME \/ \E p \in starting : StartExecution(p)
              \/ \E c \in calls : CallStep(c)
              \/ \E s \in Server : Restart(s) \/ Crash(s)
       PROVE  Goal
  BY <1>2, <1>16 DEF StartExecution, CallStep, CallClosesRun, CallCancelsActive, Restart, Crash
<1>17. ASSUME UNCHANGED serviceVars PROVE Goal BY <1>2, <1>17 DEF serviceVars
<1> HIDE DEF Goal
<1>18. ASSUME ServiceNext PROVE Goal
  BY <1>9, <1>10, <1>11, <1>12, <1>13, <1>14, <1>15, <1>16, <1>18, Zenon DEF ServiceNext
<1>19. Goal BY <1>17, <1>18
<1> QED BY <1>19 DEF Goal

\* Without a step of its own, a submit is only told that a run ended, or lost.
LEMMA OtherPlaces ==
    ASSUME Base, [ServiceNext]_serviceVars, NEW d \in Dispatch, ~SubmitStep(d)
    PROVE  \/ submit'[d].at = submit[d].at
           \/ submit[d].at = "waitRun" /\ submit'[d].at = "waitStore"
           \/ submit'[d].at = "lost" /\ submit[d].at # "new"
<1>0. submit \in [Dispatch -> SubmitRecord] BY RestOfBase
<1> DEFINE Goal == \/ submit'[d].at = submit[d].at
                   \/ submit[d].at = "waitRun" /\ submit'[d].at = "waitStore"
                   \/ submit'[d].at = "lost" /\ submit[d].at # "new"
<1>1. ASSUME submit'[d] = submit[d] PROVE Goal BY <1>1
<1>2. ASSUME NEW x \in Dispatch, SubmitStep(x) PROVE Goal
  <2>1. x # d BY <1>2
  <2>2. \E f : submit' = [submit EXCEPT ![x] = f]
    <3>1. CASE SubmitInterrupts(x) BY <3>1, Zenon DEF SubmitInterrupts
    <3>2. CASE SubmitClosesSuperseded(x)
      <4>1. \E f : submit' = [submit EXCEPT ![x] = f]
        BY <3>2, Zenon DEF SubmitClosesSuperseded
      <4> QED BY <4>1
    <3>3. CASE \E at : SubmitAt(x, at) BY <3>3, Zenon DEF SubmitAt
    <3>4. SubmitInterrupts(x) \/ SubmitClosesSuperseded(x) \/ \E at : SubmitAt(x, at)
      BY <1>2 DEF SubmitStep, SubmitCancelsActive, SubmitRunWaitTimesOut, SubmitCancelsLive,
         SubmitWaitsForRelease, SubmitPreparesRun, SubmitEnqueues, SubmitClaims,
         SubmitLosesClaim, SubmitUndoes, SubmitReconciles, SubmitWakesWorker
    <3> QED BY <3>1, <3>2, <3>3, <3>4
  <2> QED BY <1>0, <1>1, <2>1, <2>2
<1>3. ASSUME NEW e \in exec, ExecStep(e) \/ RunStep(e) PROVE Goal
  <2>0. e.on \in Server BY ExecIsTyped
  <2>1. submit' = submit \/ RunNotifiesWaiters(e.on)
    BY <1>3 DEF ExecStep, RunStep, RunCheckpoints, RunSuspends, RunResumes, RunEnds,
       SuspendedRunEnds, ExecLoads, ExecChecksEpoch, ExecSupersedes, ExecClosesSuperseded,
       ExecRecordsStart, ExecRefused, ExecRegisters, ExecRecordsResult, ExecSettles,
       ExecClosesDeadLetter, ExecReleasesWorker, ExecTriesNext, OnlyExec
  <2>2. CASE submit' = submit BY <1>1, <2>2
  <2>3. CASE RunNotifiesWaiters(e.on) BY <1>1, <2>0, <2>3, NotifiedIs
  <2> QED BY <2>1, <2>2, <2>3
<1>4. ASSUME NEW s \in Server, Crash(s) PROVE Goal
  <2>1. \/ submit'[d] = submit[d]
        \/ /\ submit'[d] = [at |-> "lost", todo |-> {}, found |-> {}]
           /\ submit[d].at # "new"
    BY <1>4 DEF Crash
  <2> QED BY <2>1
<1>5. ASSUME NEW s \in Server, ServerStep(s) PROVE Goal
  BY <1>1, <1>5 DEF ServerStep, ClaimNext, RevertClaiming, SweepStep, SweepReclaims,
     SweepReconcilesReclaimed, SweepWakesWorker, SweepReconciles, RecoverStep,
     RecoverReclaims, RecoverWakesQueued, RecoverListsPrepared, RecoverLoads,
     RecoverEnqueues, RecoverEnds
<1>6. ASSUME \/ \E p \in starting : StartExecution(p)
             \/ \E p \in renewals : RenewLease(p)
             \/ \E c \in calls : CallStep(c)
             \/ \E x \in Dispatch : TimePasses(x)
             \/ \E s \in Server : \/ Restart(s) \/ ApiInterrupts(s)
                                  \/ \E x \in Dispatch : ApiCancelsDispatch(s, x)
      PROVE  Goal
  BY <1>1, <1>6 DEF StartExecution, RenewLease, CallStep, CallClosesRun, CallCancelsActive,
     TimePasses, Restart, ApiInterrupts, ApiCancelsDispatch, CallBegins
<1>7. ASSUME UNCHANGED serviceVars PROVE Goal BY <1>1, <1>7 DEF serviceVars
<1> HIDE DEF Goal
<1>8. ASSUME ServiceNext PROVE Goal
  BY <1>2, <1>3, <1>4, <1>5, <1>6, <1>8, Zenon DEF ServiceNext
<1>9. Goal BY <1>7, <1>8
<1> QED BY <1>9 DEF Goal

\* A sweep and a recovery work on what is stored or prepared.
LEMMA MaintFinds ==
    ASSUME Base, [ServiceNext]_serviceVars, NEW s \in Server,
           NEW d \in maint'[s].todo \cup maint'[s].pick
    PROVE  d \in maint[s].todo \cup maint[s].pick \/ IsStored(d) \/ Prepared(d)
<1>0. maint \in [Server -> MaintRecord] BY RestOfBase
<1> DEFINE Goal == d \in maint[s].todo \cup maint[s].pick \/ IsStored(d) \/ Prepared(d)
<1>1. ASSUME maint'[s] = maint[s] PROVE Goal BY <1>1
<1>2. ASSUME maint'[s].todo \subseteq maint[s].todo, maint'[s].pick \subseteq maint[s].todo \cup maint[s].pick
      PROVE  Goal
  BY <1>2
<1>3. ASSUME maint'[s].todo = {}, maint'[s].pick = {} PROVE Goal BY <1>3
<1>4. ASSUME NEW r \in Server, SweepStep(r) \/ RecoverStep(r) PROVE Goal
  <2>1. CASE r # s
    <3>1. maint'[s] = maint[s]
      BY <1>0, <1>4, <2>1 DEF SweepStep, SweepReclaims, SweepReconcilesReclaimed,
         SweepWakesWorker, SweepReconciles, RecoverStep, RecoverReclaims, RecoverWakesQueued,
         RecoverListsPrepared, RecoverLoads, RecoverEnqueues, RecoverEnds, MaintAt
    <3> QED BY <1>1, <3>1
  <2>2. CASE r = s /\ SweepReclaims(s)
    <3>1. /\ maint' = [maint EXCEPT ![s] = [maint[s] EXCEPT !.at = "reclaimed", !.todo = Changed]]
          /\ ReclaimExpiredLeases
      BY <2>2, Zenon DEF SweepReclaims
    <3>2. maint'[s].todo = Changed /\ maint'[s].pick = maint[s].pick
      BY <1>0, <3>1 DEF MaintRecord
    <3>3. Changed \subseteq Expired BY <3>1, BaseStore, ReclaimCalm DEF Changed
    <3> QED BY <3>2, <3>3 DEF Expired, IsClaimed, IsStored, Stored, Active
  <2>3. CASE r = s /\ RecoverListsPrepared(s)
    <3>1. maint'[s].todo = PreparedRuns /\ maint'[s].pick = maint[s].pick
      BY <1>0, <2>3 DEF RecoverListsPrepared, MaintRecord
    <3> QED BY <3>1 DEF PreparedRuns, Prepared
  <2>4. CASE r = s /\ (\/ SweepReconcilesReclaimed(s) \/ RecoverReclaims(s)
                       \/ RecoverWakesQueued(s))
    <3>0. \/ MaintAt(s, "wakes") \/ MaintAt(s, "queued") \/ RecoverWakesQueued(s)
      BY <2>4 DEF SweepReconcilesReclaimed, RecoverReclaims
    <3>1. ASSUME NEW at, MaintAt(s, at)
          PROVE  maint'[s].todo = maint[s].todo /\ maint'[s].pick = maint[s].pick
      BY <1>0, <3>1 DEF MaintAt, MaintRecord
    <3>2. ASSUME RecoverWakesQueued(s)
          PROVE  maint'[s].todo = maint[s].todo /\ maint'[s].pick = maint[s].pick
      BY <1>0, <3>2 DEF RecoverWakesQueued, MaintRecord
    <3> QED BY <3>0, <3>1, <3>2
  <2>5. CASE r = s /\ (SweepWakesWorker(s) \/ RecoverEnds(s))
    <3>1. maint'[s] = Sweeping BY <1>0, <2>5 DEF SweepWakesWorker, RecoverEnds
    <3> QED BY <1>3, <3>1 DEF Sweeping
  <2>6. CASE r = s /\ \E x \in Dispatch : SweepReconciles(s, x)
    BY <1>1, <2>6 DEF SweepReconciles
  <2>7. CASE r = s /\ RecoverLoads(s)
    <3>1. PICK o \in maint[s].todo :
            maint' = [maint EXCEPT ![s] =
              [maint[s] EXCEPT !.todo = @ \ {o},
                               !.pick = IF IsStored(o) THEN @ ELSE @ \cup {o},
                               !.at = IF IsStored(o) THEN "prepared" ELSE "enqueue"]]
      BY <2>7 DEF RecoverLoads
    <3>2. /\ maint'[s].todo = maint[s].todo \ {o}
          /\ maint'[s].pick \subseteq maint[s].pick \cup {o}
      BY <1>0, <3>1 DEF MaintRecord
    <3> QED BY <3>1, <3>2
  <2>8. CASE r = s /\ RecoverEnqueues(s)
    <3>1. \/ maint' = [maint EXCEPT ![s] = [Sweeping EXCEPT !.at = "boot"]]
          \/ maint' = [maint EXCEPT ![s] =
                   [maint[s] EXCEPT !.at = "prepared", !.pick = {},
                                    !.wake = IF @ = "none" THEN "due" ELSE @]]
      BY <2>8 DEF RecoverEnqueues
    <3>2. CASE maint' = [maint EXCEPT ![s] = [Sweeping EXCEPT !.at = "boot"]]
      <4>1. maint'[s].pick = {} /\ maint'[s].todo = {} BY <1>0, <3>2 DEF Sweeping
      <4> QED BY <1>3, <4>1
    <3>3. CASE maint' = [maint EXCEPT ![s] =
                   [maint[s] EXCEPT !.at = "prepared", !.pick = {},
                                    !.wake = IF @ = "none" THEN "due" ELSE @]]
      <4>1. maint'[s].pick = {} /\ maint'[s].todo = maint[s].todo
        BY <1>0, <3>3 DEF MaintRecord
      <4> QED BY <1>2, <4>1
    <3> QED BY <3>1, <3>2, <3>3
  <2> QED BY <1>4, <2>1, <2>2, <2>3, <2>4, <2>5, <2>6, <2>7, <2>8 DEF SweepStep, RecoverStep
<1>5. ASSUME NEW r \in Server, Crash(r) PROVE Goal
  <2>1. maint'[s] = maint[s] \/ (maint'[s].todo = {} /\ maint'[s].pick = {})
    BY <1>0, <1>5 DEF Crash, Sweeping
  <2> QED BY <1>1, <1>3, <2>1
<1>6. ASSUME NEW r \in Server, ServerStep(r) PROVE Goal
  <2>1. CASE ClaimNext(r) \/ RevertClaiming(r) BY <1>1, <2>1 DEF ClaimNext, RevertClaiming
  <2> QED BY <1>4, <1>6, <2>1 DEF ServerStep
<1>7. ASSUME NEW x \in Dispatch, SubmitStep(x) PROVE Goal
  BY <1>1, <1>7 DEF SubmitStep, SubmitInterrupts, SubmitClosesSuperseded, SubmitCancelsActive,
     SubmitRunWaitTimesOut, SubmitCancelsLive, SubmitWaitsForRelease, SubmitPreparesRun,
     SubmitEnqueues, SubmitClaims, SubmitLosesClaim, SubmitUndoes, SubmitReconciles,
     SubmitWakesWorker
<1>8. ASSUME NEW e \in exec, ExecStep(e) \/ RunStep(e) PROVE Goal
  BY <1>1, <1>8 DEF ExecStep, RunStep, RunCheckpoints, RunSuspends, RunResumes, RunEnds,
     SuspendedRunEnds, ExecLoads, ExecChecksEpoch, ExecSupersedes, ExecClosesSuperseded,
     ExecRecordsStart, ExecRefused, ExecRegisters, ExecRecordsResult, ExecSettles,
     ExecClosesDeadLetter, ExecReleasesWorker, ExecTriesNext, OnlyExec
<1>9. ASSUME \/ \E p \in starting : StartExecution(p)
             \/ \E p \in renewals : RenewLease(p)
             \/ \E c \in calls : CallStep(c)
             \/ \E x \in Dispatch : TimePasses(x)
             \/ \E r \in Server : \/ Restart(r) \/ ApiInterrupts(r)
                                  \/ \E x \in Dispatch : ApiCancelsDispatch(r, x)
      PROVE  Goal
  BY <1>1, <1>9 DEF StartExecution, RenewLease, CallStep, CallClosesRun, CallCancelsActive,
     TimePasses, Restart, ApiInterrupts, ApiCancelsDispatch, CallBegins
<1>10. ASSUME UNCHANGED serviceVars PROVE Goal BY <1>1, <1>10 DEF serviceVars
<1> HIDE DEF Goal
<1>11. ASSUME ServiceNext PROVE Goal
  BY <1>5, <1>6, <1>7, <1>8, <1>9, <1>11, Zenon DEF ServiceNext
<1>12. Goal BY <1>10, <1>11
<1> QED BY <1>12 DEF Goal

\* Nothing of d is there: no dispatch, no run record, no recovery of it.
Untouched(d) ==
    /\ ~IsStored(d) /\ runs[RunOf[d]].by # <<d>>
    /\ \A s \in Server : d \notin maint[s].todo \cup maint[s].pick

\* d was never claimed, and while it is queued nobody can claim it but its submit.
Hidden(d) ==
    /\ claims[d] = 0 /\ StatusOf(d) \in {"Queued", "Cancelled", "Superseded"}
    /\ IsQueued(d) => ~dispatches[d].available
Withdrawn(d) == claims[d] = 0 /\ StatusOf(d) \in {"Cancelled", "Superseded"}
RunIsClosed(d) == runs[RunOf[d]].by = <<d>> => runs[RunOf[d]].status \in Closed

\* What a submit left behind, at each of its places.
Unprepared == {"new", "interrupted", "waitRun", "live", "waitStore", "prepare"}
SubmitTrace(d) ==
    /\ submit[d].at \in Unprepared => Untouched(d)
    /\ lapses = 0 =>
         /\ submit[d].at \in {"claim", "undo"} => Hidden(d)
         /\ submit[d].at = "undone" => Withdrawn(d)
         /\ submit[d].at = "conflict" => Untouched(d) \/ (Withdrawn(d) /\ RunIsClosed(d))
SubmitTraces == \A d \in Dispatch : SubmitTrace(d)

LEMMA UntouchedStands ==
    ASSUME Base, TodoStored, [ServiceNext]_serviceVars, NEW d \in Dispatch, Untouched(d),
           submit[d].at # "enqueue", ~SubmitPreparesRun(d)
    PROVE  Untouched(d)'
<1>1. ~IsStored(d)'
  <2>1. ~SubmitEnqueues(d) BY DEF SubmitEnqueues, SubmitIs
  <2>2. \A s \in Server : d \notin maint[s].pick BY DEF Untouched
  <2> QED BY <2>1, <2>2, StoredOnlyBy DEF Untouched
<1>2. runs'[RunOf[d]].by # <<d>>
  <2>0. runs \in [Run -> RunRecord] /\ \A o \in Dispatch : RunOf[o] \in Run
    BY RestOfBase, ServiceAssumption
  <2>1. ASSUME NEW o \in Dispatch, NEW st, Writes(o, st) PROVE runs'[RunOf[d]].by # <<d>>
    <3>1. o # d BY <2>1 DEF Writes, Untouched
    <3>2. runs' = [runs EXCEPT ![RunOf[o]] = [status |-> st, by |-> <<o>>]]
      BY <2>1 DEF Writes, RunWritten
    <3>3. runs'[RunOf[d]].by \in {<<o>>, runs[RunOf[d]].by} BY <2>0, <3>2
    <3>4. <<o>> # <<d>> BY <3>1
    <3> QED BY <3>3, <3>4 DEF Untouched
  <2> QED BY <2>1, StepWrites DEF Untouched
<1>3. ASSUME NEW s \in Server PROVE d \notin maint'[s].todo \cup maint'[s].pick
  BY MaintFinds DEF Untouched, Prepared
<1> QED BY <1>1, <1>2, <1>3 DEF Untouched

LEMMA WithdrawnStands ==
    ASSUME Base, [ServiceNext]_serviceVars, NEW d \in Dispatch, Withdrawn(d)
    PROVE  Withdrawn(d)'
<1>1. CalmStore \/ \E won : WinEffect(won) BY NextShape, StepUsesStore
<1>2. CASE CalmStore
  <2>1. claims' = claims /\ dispatches'[d] = dispatches[d]
    BY <1>2 DEF CalmStore, Calm, Withdrawn, StatusOf, Terminal
  <2> QED BY <2>1 DEF Withdrawn, StatusOf
<1>3. ASSUME NEW won, WinEffect(won) PROVE Withdrawn(d)'
  <2>1. d \notin won BY <1>3 DEF WinEffect, Withdrawn, StatusOf
  <2>2. dispatches'[d] = dispatches[d] /\ claims'[d] = claims[d] BY <1>3, <2>1 DEF WinEffect
  <2> QED BY <2>2 DEF Withdrawn, StatusOf
<1> QED BY <1>1, <1>2, <1>3

\* The run of a withdrawn dispatch is reopened by nobody.
LEMMA RunClosedStands ==
    ASSUME Base, TodoStored, [ServiceNext]_serviceVars, NEW d \in Dispatch,
           Withdrawn(d), RunIsClosed(d), ~SubmitPreparesRun(d)
    PROVE  RunIsClosed(d)'
<1>0. runs \in [Run -> RunRecord] /\ \A o \in Dispatch : RunOf[o] \in Run
  BY RestOfBase, ServiceAssumption
<1>1. CASE runs' = runs BY <1>1 DEF RunIsClosed
<1>2. ASSUME NEW o \in Dispatch, NEW st, Writes(o, st) PROVE RunIsClosed(d)'
  <2>1. runs' = [runs EXCEPT ![RunOf[o]] = [status |-> st, by |-> <<o>>]]
    BY <1>2 DEF Writes, RunWritten
  <2>2. CASE RunOf[o] # RunOf[d]
    <3>1. runs'[RunOf[d]] = runs[RunOf[d]] BY <1>0, <2>1, <2>2
    <3> QED BY <3>1 DEF RunIsClosed
  <2>3. CASE RunOf[o] = RunOf[d]
    <3>1. runs'[RunOf[d]].by = <<o>> /\ runs'[RunOf[d]].status = st BY <1>0, <2>1, <2>3
    <3>2. o = d => st \in Closed BY <1>2 DEF Writes, Withdrawn
    <3>3. <<o>> = <<d>> => o = d OBVIOUS
    <3> QED BY <3>1, <3>2, <3>3 DEF RunIsClosed
  <2> QED BY <2>2, <2>3
<1> QED BY <1>1, <1>2, StepWrites

\* A hidden dispatch is hidden until its submit claims it, or its guard ends.
LEMMA HiddenStands ==
    ASSUME Base, [ServiceNext]_serviceVars, NEW d \in Dispatch, Hidden(d),
           ~SubmitClaims(d), ~TimePasses(d)
    PROVE  Hidden(d)'
<1>1. ASSUME CalmStore, TimelessStore PROVE Hidden(d)'
  <2>1. claims' = claims /\ Calm(dispatches[d], dispatches'[d])
        /\ Timeless(dispatches[d], dispatches'[d])
    BY <1>1 DEF CalmStore, TimelessStore
  <2> QED BY <2>1 DEF Hidden, IsQueued, StatusOf, Calm, Timeless, Terminal
<1>2. ASSUME dispatches'[d] = dispatches[d], claims'[d] = claims[d] PROVE Hidden(d)'
  BY <1>2 DEF Hidden, IsQueued, StatusOf
<1>3. ASSUME UNCHANGED storeVars PROVE Hidden(d)' BY <1>2, <1>3 DEF storeVars
<1>4. CASE Elsewhere BY <1>1, <1>4 DEF Elsewhere
<1>5. ASSUME NEW o \in Dispatch, TimePasses(o) PROVE Hidden(d)'
  <2>1. o # d BY <1>5
  <2>2. dispatches'[d] = dispatches[d] /\ claims' = claims
    BY <1>5, <2>1, BaseStore, TimeCalm DEF TimePasses, CalmStore
  <2> QED BY <1>2, <2>2
<1>6. ASSUME NEW o \in Dispatch, SubmitClaims(o) PROVE Hidden(d)'
  <2>1. o # d /\ WinEffect({o}) BY <1>6, SubmitClaimsShape
  <2> QED BY <1>2, <2>1 DEF WinEffect
<1>7. ASSUME NEW s \in Server, ClaimNext(s) PROVE Hidden(d)'
  <2>1. PICK won : WinEffect(won) /\ \A o \in won : dispatches[o].available
    BY <1>7, ClaimNextShape
  <2>2. d \notin won BY <2>1 DEF WinEffect, Hidden, IsQueued, StatusOf
  <2> QED BY <1>2, <2>1, <2>2 DEF WinEffect
<1>8. ASSUME NEW s \in Server, Tries(s) \/ RevertClaiming(s) \/ Crash(s) PROVE Hidden(d)'
  BY <1>3, <1>8 DEF Tries, RevertClaiming, Crash
<1>9. ASSUME NEW p \in starting, StartExecution(p) PROVE Hidden(d)'
  BY <1>3, <1>9 DEF StartExecution
<1>10. ASSUME NEW e \in exec, \E f : Moves(e, f) PROVE Hidden(d)'
  BY <1>1, <1>10 DEF Moves, HolderCalm
<1>11. ASSUME NEW e \in exec, ExecReleasesWorker(e) \/ ExecTriesNext(e) PROVE Hidden(d)'
  BY <1>3, <1>11 DEF ExecReleasesWorker, ExecTriesNext
<1>12. ASSUME NEW p \in renewals, RenewLease(p) PROVE Hidden(d)'
  BY <1>1, <1>12, RenewShape DEF HolderCalm
<1>13. StepShape BY NextShape
<1> QED
  BY <1>4, <1>5, <1>6, <1>7, <1>8, <1>9, <1>10, <1>11, <1>12, <1>13, Zenon DEF StepShape

LEMMA LapsesStay ==
    ASSUME Base, [ServiceNext]_serviceVars
    PROVE  /\ lapses' = 0 => lapses = 0
           /\ crashes' = 0 => crashes = 0
<1>0. lapses \in Nat /\ crashes \in Nat BY RestOfBase DEF HostType
<1>1. ASSUME NoBound PROVE (lapses' = 0 => lapses = 0) /\ (crashes' = 0 => crashes = 0)
  BY <1>1 DEF NoBound
<1>2. ASSUME UNCHANGED <<lapses, crashes>>
      PROVE  (lapses' = 0 => lapses = 0) /\ (crashes' = 0 => crashes = 0)
  BY <1>2
<1>3. ASSUME NEW d \in Dispatch, TimePasses(d)
      PROVE (lapses' = 0 => lapses = 0) /\ (crashes' = 0 => crashes = 0)
  BY <1>0, <1>3 DEF TimePasses
<1>4. ASSUME NEW s \in Server, Crash(s)
      PROVE (lapses' = 0 => lapses = 0) /\ (crashes' = 0 => crashes = 0)
  BY <1>0, <1>4 DEF Crash
<1>5. ASSUME NEW d \in Dispatch, SubmitClaims(d) PROVE UNCHANGED <<lapses, crashes>>
  BY <1>5 DEF SubmitClaims, hostVars
<1>6. ASSUME NEW s \in Server, Tries(s) \/ ClaimNext(s) \/ RevertClaiming(s)
      PROVE UNCHANGED <<lapses, crashes>>
  BY <1>6 DEF Tries, NoBound, ClaimNext, RevertClaiming, hostVars
<1>7. ASSUME NEW p \in starting, StartExecution(p) PROVE UNCHANGED <<lapses, crashes>>
  BY <1>7 DEF StartExecution, hostVars
<1>8. ASSUME NEW e \in exec,
             (\E f : Moves(e, f)) \/ ExecReleasesWorker(e) \/ ExecTriesNext(e)
      PROVE UNCHANGED <<lapses, crashes>>
  BY <1>8 DEF Moves, NoBound, ExecReleasesWorker, ExecTriesNext, hostVars
<1>9. ASSUME NEW p \in renewals, RenewLease(p) PROVE UNCHANGED <<lapses, crashes>>
  BY <1>9 DEF RenewLease, hostVars
<1>10. StepShape BY NextShape
<1> QED
  BY <1>1, <1>2, <1>3, <1>4, <1>5, <1>6, <1>7, <1>8, <1>9, <1>10, Zenon
  DEF StepShape, Elsewhere

LEMMA PreparesIs ==
    ASSUME Base, NEW d \in Dispatch, SubmitPreparesRun(d)
    PROVE  /\ submit[d].at \in {"new", "interrupted", "prepare"}
           /\ \/ submit'[d].at = "enqueue"
              \/ submit'[d].at = "conflict" /\ UNCHANGED <<storeVars, runs, maint>>
<1>1. \/ SubmitAt(d, "enqueue")
      \/ SubmitAt(d, "conflict") /\ UNCHANGED <<storeVars, runs, maint>>
  BY DEF SubmitPreparesRun
<1> QED BY <1>1, SubmitAtIs DEF SubmitPreparesRun, SubmitIs, SubmitBegins

\* From its first step to the preparation of its run, a submit leaves nothing.
LEMMA EarlyTrace ==
    ASSUME Base, TodoStored, [ServiceNext]_serviceVars, NEW d \in Dispatch, SubmitTrace(d),
           \/ SubmitInterrupts(d) \/ SubmitClosesSuperseded(d) \/ SubmitCancelsActive(d)
           \/ SubmitRunWaitTimesOut(d) \/ SubmitCancelsLive(d) \/ SubmitWaitsForRelease(d)
           \/ SubmitPreparesRun(d)
    PROVE  SubmitTrace(d)'
<1>0. submit \in [Dispatch -> SubmitRecord] BY RestOfBase
<1>1. CASE SubmitPreparesRun(d)
  <2>1. CASE submit'[d].at = "enqueue" BY <2>1 DEF SubmitTrace, Unprepared
  <2>2. CASE submit'[d].at = "conflict" /\ UNCHANGED <<storeVars, runs, maint>>
    <3>1. Untouched(d) BY <1>1, PreparesIs DEF SubmitTrace, Unprepared
    <3>2. Untouched(d)' BY <2>2, <3>1 DEF Untouched, IsStored, StatusOf, storeVars
    <3> QED BY <2>2, <3>2 DEF SubmitTrace, Unprepared
  <2> QED BY <1>1, <2>1, <2>2, PreparesIs
<1>2. CASE ~SubmitPreparesRun(d)
  <2>1. submit[d].at \in Unprepared
    BY <1>2 DEF SubmitInterrupts, SubmitClosesSuperseded, SubmitCancelsActive,
       SubmitRunWaitTimesOut, SubmitCancelsLive, SubmitWaitsForRelease, SubmitIs,
       SubmitBegins, Unprepared
  <2>2. Untouched(d)' BY <1>2, <2>1, UntouchedStands DEF SubmitTrace, Unprepared
  <2>3. submit'[d].at \in Unprepared \cup {"conflict"}
    <3>1. CASE SubmitInterrupts(d)
      <4>1. submit'[d].at = "interrupted" BY <1>0, <3>1 DEF SubmitInterrupts
      <4> QED BY <4>1 DEF Unprepared
    <3>2. CASE SubmitClosesSuperseded(d)
      <4>1. PICK o : submit' = [submit EXCEPT ![d] =
                                 [submit[d] EXCEPT !.todo = submit[d].todo \ {o}]]
        BY <3>2, Zenon DEF SubmitClosesSuperseded
      <4>2. [submit[d] EXCEPT !.todo = submit[d].todo \ {o}].at = submit[d].at
        BY <1>0 DEF SubmitRecord
      <4>3. submit'[d].at = submit[d].at BY <1>0, <4>1, <4>2
      <4> QED BY <2>1, <4>3
    <3>3. ASSUME NEW at \in {"live", "waitRun", "waitStore", "conflict", "prepare"},
                 SubmitAt(d, at)
          PROVE  submit'[d].at \in Unprepared \cup {"conflict"}
      BY <3>3, SubmitAtIs DEF Unprepared
    <3> QED BY <1>2, <3>1, <3>2, <3>3 DEF SubmitCancelsActive, SubmitRunWaitTimesOut,
         SubmitCancelsLive, SubmitWaitsForRelease
  <2> QED BY <2>2, <2>3 DEF SubmitTrace, Unprepared
<1> QED BY <1>1, <1>2

LEMMA LateTrace ==
    ASSUME Base, TodoStored, NoneByNobody, [ServiceNext]_serviceVars,
           NEW d \in Dispatch, SubmitTrace(d),
           \/ SubmitEnqueues(d) \/ SubmitClaims(d) \/ SubmitLosesClaim(d) \/ SubmitUndoes(d)
           \/ SubmitReconciles(d) \/ SubmitWakesWorker(d)
    PROVE  SubmitTrace(d)'
<1> USE BaseStore
<1>0. runs \in [Run -> RunRecord] /\ RunOf[d] \in Run BY RestOfBase, ServiceAssumption
<1>1. CASE SubmitEnqueues(d)
  <2>1. CASE SubmitAt(d, "failed")
    <3>1. submit'[d].at = "failed" BY <2>1, SubmitAtIs
    <3> QED BY <3>1 DEF SubmitTrace, Unprepared
  <2>2. CASE ~IsStored(d) /\ Enqueue(d, d \notin Inline)
    <3>1. SubmitAt(d, IF d \in Inline THEN "claim" ELSE "wake") BY <1>1, <2>2 DEF SubmitEnqueues
    <3>2. submit'[d].at = IF d \in Inline THEN "claim" ELSE "wake" BY <3>1, SubmitAtIs
    <3>3. StatusOf(d) = "Absent" BY <2>2, NotStoredIsAbsent
    <3>4. RecordOK(dispatches[d], CurrentEpoch(d), claims[d], d \in fenced) BY DEF StoreIInv
    <3>5. claims[d] = 0 BY <3>3, <3>4 DEF RecordOK, StatusOf
    <3>6. /\ CalmStore /\ dispatches'[d].status = "Queued"
          /\ dispatches'[d].available = (d \notin Inline)
      <4> DEFINE a == d \notin Inline
      <4>1. a \in BOOLEAN /\ Enqueue(d, a) BY <2>2
      <4> HIDE DEF a
      <4>2. CalmStore /\ dispatches'[d].status = "Queued" /\ dispatches'[d].available = a
        BY <2>2, <4>1, EnqueueCalm
      <4> QED BY <4>2 DEF a
    <3>7. d \in Inline => Hidden(d)'
      BY <3>5, <3>6 DEF Hidden, CalmStore, IsQueued, StatusOf
    <3> QED BY <3>2, <3>7 DEF SubmitTrace, Unprepared
  <2> QED BY <1>1, <2>1, <2>2 DEF SubmitEnqueues
<1>2. CASE SubmitClaims(d) \/ SubmitWakesWorker(d)
  <2>1. submit'[d].at = "done" BY <1>2, SubmitAtIs DEF SubmitClaims, SubmitWakesWorker
  <2> QED BY <2>1 DEF SubmitTrace, Unprepared
<1>3. CASE SubmitLosesClaim(d)
  <2>1. submit[d].at = "claim" /\ submit'[d].at = "undo" /\ lapses' = lapses
    BY <1>3, SubmitAtIs DEF SubmitLosesClaim, SubmitIs, hostVars
  <2>2. ~SubmitClaims(d) BY <2>1, SubmitAtIs DEF SubmitClaims
  <2>3. ~TimePasses(d) BY <2>1 DEF TimePasses
  <2>4. lapses' = 0 => Hidden(d)' BY <2>1, <2>2, <2>3, HiddenStands DEF SubmitTrace
  <2> QED BY <2>1, <2>4 DEF SubmitTrace, Unprepared
<1>4. CASE SubmitUndoes(d)
  <2>1. submit[d].at = "undo" /\ submit'[d].at = "undone" /\ lapses' = lapses
    BY <1>4, SubmitAtIs DEF SubmitUndoes, SubmitIs, hostVars
  <2>2. lapses' = 0 => Withdrawn(d)'
    <3>1. CASE IsQueued(d) /\ Cancel(d)
      <4>1. dispatches'[d].status = "Cancelled" /\ claims' = claims
        BY <3>1, CancelCalm DEF CalmStore
      <4> QED BY <2>1, <4>1 DEF SubmitTrace, Hidden, Withdrawn, StatusOf
    <3>2. CASE ~IsQueued(d) /\ UNCHANGED storeVars
      BY <2>1, <3>2 DEF SubmitTrace, Hidden, Withdrawn, StatusOf, IsQueued, storeVars
    <3> QED BY <1>4, <3>1, <3>2 DEF SubmitUndoes
  <2> QED BY <2>1, <2>2 DEF SubmitTrace, Unprepared
<1>5. CASE SubmitReconciles(d)
  <2>1. /\ submit[d].at = "undone" /\ submit'[d].at = "conflict" /\ lapses' = lapses
        /\ runs' = RunReconciled(d)
    BY <1>5, SubmitAtIs DEF SubmitReconciles, SubmitIs, hostVars
  <2>2. ASSUME Withdrawn(d) PROVE Withdrawn(d)' /\ RunIsClosed(d)'
    <3>1. runs' = RunClosed(d, "Cancelled") BY <2>1, <2>2 DEF RunReconciled, Withdrawn
    <3>2. CASE runs[RunOf[d]].status \in Open
      <4>1. runs' = [runs EXCEPT ![RunOf[d]] = [status |-> "Cancelled", by |-> <<d>>]]
        BY <3>1, <3>2 DEF RunClosed, RunWritten
      <4>2. runs'[RunOf[d]].status = "Cancelled" BY <1>0, <4>1
      <4> QED BY <2>2, <4>2, WithdrawnStands DEF RunIsClosed, Closed
    <3>3. CASE runs[RunOf[d]].status \notin Open
      <4>1. runs' = runs BY <3>1, <3>3 DEF RunClosed
      <4>2. runs[RunOf[d]].by = <<d>> => runs[RunOf[d]].status # "None"
        <5>1. <<d>> # <<>> OBVIOUS
        <5> QED BY <1>0, <5>1 DEF NoneByNobody
      <4>3. RunIsClosed(d) BY <1>0, <3>3, <4>2 DEF RunIsClosed, RunRecord
      <4> QED BY <2>2, <4>1, <4>3, WithdrawnStands DEF RunIsClosed
    <3> QED BY <3>2, <3>3
  <2> QED BY <2>1, <2>2 DEF SubmitTrace, Unprepared
<1> QED BY <1>1, <1>2, <1>3, <1>4, <1>5

LEMMA TraceStep ==
    ASSUME Base, TodoStored, NoneByNobody, [ServiceNext]_serviceVars,
           NEW d \in Dispatch, SubmitTrace(d)
    PROVE  SubmitTrace(d)'
<1>1. CASE SubmitStep(d) BY <1>1, EarlyTrace, LateTrace DEF SubmitStep
<1>2. CASE ~SubmitStep(d)
  <2>1. ~SubmitPreparesRun(d) /\ ~SubmitClaims(d) BY <1>2 DEF SubmitStep
  <2>2. CASE submit'[d].at = "lost" BY <2>2 DEF SubmitTrace, Unprepared
  <2>3. ASSUME submit'[d].at \in Unprepared, submit[d].at \in Unprepared PROVE Untouched(d)'
    BY <2>1, <2>3, UntouchedStands DEF SubmitTrace, Unprepared
  <2>4. CASE submit[d].at = "waitRun" /\ submit'[d].at = "waitStore"
    BY <2>3, <2>4 DEF SubmitTrace, Unprepared
  <2>5. CASE submit'[d].at = submit[d].at
    <3>1. ASSUME lapses' = 0, submit[d].at \in {"claim", "undo"} PROVE Hidden(d)'
      <4>1. lapses = 0 BY <3>1, LapsesStay
      <4>2. ~TimePasses(d) BY <3>1, <4>1 DEF TimePasses
      <4> QED BY <2>1, <3>1, <4>1, <4>2, HiddenStands DEF SubmitTrace
    <3>2. ASSUME lapses' = 0, submit[d].at = "undone" PROVE Withdrawn(d)'
      BY <3>2, LapsesStay, WithdrawnStands DEF SubmitTrace
    <3>3. ASSUME lapses' = 0, submit[d].at = "conflict"
          PROVE  Untouched(d)' \/ (Withdrawn(d)' /\ RunIsClosed(d)')
      <4>1. Untouched(d) \/ (Withdrawn(d) /\ RunIsClosed(d)) BY <3>3, LapsesStay DEF SubmitTrace
      <4>2. CASE Untouched(d) BY <2>1, <3>3, <4>2, UntouchedStands
      <4>3. CASE Withdrawn(d) /\ RunIsClosed(d)
        BY <2>1, <4>3, WithdrawnStands, RunClosedStands
      <4> QED BY <4>1, <4>2, <4>3
    <3> QED BY <2>3, <2>5, <3>1, <3>2, <3>3 DEF SubmitTrace
  <2> QED BY <1>2, <2>2, <2>4, <2>5, OtherPlaces
<1> QED BY <1>1, <1>2

TraceInv == TodoStored /\ NoneByNobody /\ SubmitTraces

LEMMA TraceInvHolds == ServiceSpec => [](Base /\ TraceInv)
<1>1. ServiceInit => TraceInv
  <2> SUFFICES ASSUME ServiceInit PROVE TraceInv OBVIOUS
  <2>1. TodoStored /\ NoneByNobody
    BY ServiceAssumption DEF ServiceInit, TodoStored, NoneByNobody
  <2>2. ASSUME NEW d \in Dispatch PROVE SubmitTrace(d)
    <3>1. submit[d].at = "new" BY DEF ServiceInit
    <3>2. ~IsStored(d)
      BY DEF ServiceInit, StoreInit, Blank, IsStored, StatusOf, Stored, Active, Terminal
    <3>3. runs[RunOf[d]].by = <<>> BY ServiceAssumption DEF ServiceInit
    <3>4. <<>> # <<d>> OBVIOUS
    <3>5. \A s \in Server : maint[s].todo = {} /\ maint[s].pick = {}
      BY DEF ServiceInit, Sweeping
    <3> QED BY <3>1, <3>2, <3>3, <3>4, <3>5 DEF SubmitTrace, Untouched, Unprepared
  <2> QED BY <2>1, <2>2 DEF SubmitTraces, TraceInv
<1>2. Base /\ TraceInv /\ [ServiceNext]_serviceVars => TraceInv'
  <2> SUFFICES ASSUME Base, TraceInv, [ServiceNext]_serviceVars PROVE TraceInv' OBVIOUS
  <2>1. TodoStored' /\ NoneByNobody' BY TodoStep DEF TraceInv
  <2>2. \A d \in Dispatch : SubmitTrace(d)' BY TraceStep DEF SubmitTraces, TraceInv
  <2> QED BY <2>1, <2>2 DEF SubmitTraces, TraceInv
<1> QED BY <1>1, <1>2, BaseHolds, PTL DEF ServiceSpec

\* A submit that answers with a conflict leaves no active dispatch and no open
\* run record that names it, as long as no deadline is missed: for any
\* interrupts, crashes and recoveries in between, and whichever of its exits
\* the submit took.
THEOREM RejectedLeavesNothingHolds == ServiceSpec => [](lapses = 0 => RejectedLeavesNothing)
<1>1. Base /\ TraceInv => (lapses = 0 => RejectedLeavesNothing)
  <2> SUFFICES ASSUME Base, TraceInv, lapses = 0, NEW d \in Dispatch, submit[d].at = "conflict"
               PROVE  /\ StatusOf(d) \in {"Absent", "Cancelled", "Superseded"}
                      /\ runs[RunOf[d]].by = <<d>> => runs[RunOf[d]].status \in Closed
    BY DEF RejectedLeavesNothing
  <2>1. Untouched(d) \/ (Withdrawn(d) /\ RunIsClosed(d)) BY DEF TraceInv, SubmitTraces, SubmitTrace
  <2>2. CASE Untouched(d) BY <2>2, BaseStore, NotStoredIsAbsent DEF Untouched
  <2>3. CASE Withdrawn(d) /\ RunIsClosed(d) BY <2>3 DEF Withdrawn, RunIsClosed
  <2> QED BY <2>1, <2>2, <2>3
<1> QED BY <1>1, TraceInvHolds, PTL

-----------------------------------------------------------------------------
(* The worker as a lock: it admits one claim at a time, while no submit is  *)
(* inline.                                                                  *)

OnlyBackground == \A d \in Inline : submit[d].at = "new"

\* Only an inline submit interrupts, waits and claims its dispatch itself.
Foreground == {"interrupted", "waitRun", "live", "waitStore", "claim"}
ForegroundIsInline == \A d \in Dispatch : submit[d].at \in Foreground => d \in Inline

Waits(s) == \E p \in starting : p.on = s

\* Claiming is held by one task, which claims, or has nothing, or has won;
\* Running is held by the claim that runs and is renewed.
WorkerLock(s) ==
    /\ worker[s] # Claiming => claiming[s] = 0 /\ empty[s] = 0 /\ ~Waits(s)
    /\ claiming[s] = 0 \/ (claiming[s] = 1 /\ empty[s] = 0 /\ ~Waits(s))
    /\ empty[s] = 0 \/ (empty[s] = 1 /\ ~Waits(s))
    /\ \A p, q \in starting : p.on = s /\ q.on = s => p = q
    /\ \A e \in exec : e.on = s /\ e.at # "next" => worker[s] = RunningClaim(e.claim)
    /\ \A p \in renewals : p.on = s => p \in starting \/ worker[s] = RunningClaim(p.claim)
WorkerLocks == \A s \in Server : WorkerLock(s)

LEMMA RunningIs ==
    /\ \A c : RunningClaim(c) # Idle /\ RunningClaim(c) # Claiming
    /\ \A c : RunningClaim(c).status = "Running" /\ RunningClaim(c).claim = c
    /\ \A c, b : RunningClaim(c) = RunningClaim(b) => c = b
    /\ Idle # Claiming /\ Idle.status # "Running" /\ Claiming.status # "Running"
BY DEF RunningClaim, Idle, Claiming

\* What a step that touches neither the worker of s nor its tasks leaves.
LEMMA LockStands ==
    ASSUME NEW s \in Server, WorkerLock(s),
           worker'[s] = worker[s], claiming'[s] = claiming[s], empty'[s] = empty[s],
           \A p : p.on = s => (p \in starting' <=> p \in starting),
           \A e \in exec' : e.on = s /\ e.at # "next" =>
               \E g \in exec : g.on = s /\ g.claim = e.claim /\ g.at # "next",
           \A p \in renewals' : p.on = s => p \in renewals
    PROVE  WorkerLock(s)'
<1>1. Waits(s)' <=> Waits(s) BY DEF Waits
<1>2. \A p, q \in starting' : p.on = s /\ q.on = s => p = q BY DEF WorkerLock
<1>3. \A e \in exec' : e.on = s /\ e.at # "next" => worker'[s] = RunningClaim(e.claim)
  BY DEF WorkerLock
<1>4. \A p \in renewals' : p.on = s => p \in starting' \/ worker'[s] = RunningClaim(p.claim)
  BY DEF WorkerLock
<1> QED BY <1>1, <1>2, <1>3, <1>4 DEF WorkerLock

\* An idle worker has no tasks; that is how it becomes Claiming.
LEMMA LockTries ==
    ASSUME Base, WorkerLocks, NEW s \in Server, TryDispatch(s),
           empty' = empty, starting' = starting, renewals' = renewals,
           \A e \in exec' : e.at # "next" => e \in exec
    PROVE  WorkerLocks'
<1>0. /\ worker \in [Server -> WorkerState]
      /\ claiming \in [Server -> Nat] /\ empty \in [Server -> Nat]
  BY DEF Base, WorkerType
<1>1. CASE worker' = worker /\ claiming' = claiming
  BY <1>1, LockStands DEF WorkerLocks
<1>2. CASE /\ worker[s] = Idle
           /\ worker' = [worker EXCEPT ![s] = Claiming]
           /\ claiming' = [claiming EXCEPT ![s] = claiming[s] + 1]
  <2>1. ASSUME NEW r \in Server, r # s PROVE WorkerLock(r)'
    <3>1. worker'[r] = worker[r] /\ claiming'[r] = claiming[r] BY <1>0, <1>2, <2>1
    <3> QED BY <3>1, LockStands DEF WorkerLocks
  <2>2. WorkerLock(s)'
    <3>1. worker'[s] = Claiming /\ claiming'[s] = claiming[s] + 1 /\ empty'[s] = empty[s]
      BY <1>0, <1>2
    <3>2. claiming[s] = 0 /\ empty[s] = 0 /\ ~Waits(s)
      BY <1>2, RunningIs DEF WorkerLocks, WorkerLock
    <3>3. claiming'[s] = 1 /\ empty'[s] = 0 /\ ~Waits(s)' BY <3>1, <3>2 DEF Waits
    <3>4. \A e \in exec' : e.on = s => e.at = "next"
      BY <1>2, RunningIs DEF WorkerLocks, WorkerLock
    <3>5. \A p \in renewals' : p.on # s
      BY <1>2, <3>2, RunningIs DEF WorkerLocks, WorkerLock, Waits
    <3> QED BY <3>1, <3>3, <3>4, <3>5 DEF WorkerLock, Waits
  <2> QED BY <2>1, <2>2 DEF WorkerLocks
<1> QED BY <1>1, <1>2, TriesIs

\* The claim: it gives the lock to the task that won, or to one with nothing.
LEMMA LockWins ==
    ASSUME Base, WorkerLocks, StepShape, NEW s \in Server, ClaimNext(s)
    PROVE  WorkerLocks'
<1>0. /\ worker \in [Server -> WorkerState]
      /\ claiming \in [Server -> Nat] /\ empty \in [Server -> Nat]
  BY DEF Base, WorkerType
<1>1. PICK won : /\ WinEffect(won) /\ ClaimWon(s, won)
                 /\ claiming[s] > 0 /\ claiming' = [claiming EXCEPT ![s] = claiming[s] - 1]
                 /\ empty' = IF won = {} THEN [empty EXCEPT ![s] = empty[s] + 1] ELSE empty
                 /\ UNCHANGED <<worker, exec>>
  BY ClaimNextShape
<1>2. PICK new : /\ new \subseteq Task
                 /\ \A p \in new : /\ p.on = s /\ p.claim[1] \in won
                                   /\ p.claim = <<p.claim[1], claims'[p.claim[1]]>>
                 /\ new = {[claim |-> <<d, claims'[d]>>, on |-> s] : d \in won}
                 /\ starting' = starting \cup new /\ renewals' = renewals \cup new
  BY <1>1, WonIsTyped
<1>3. \A p, q \in new : p = q
  <2> SUFFICES ASSUME NEW p \in new, NEW q \in new PROVE p = q OBVIOUS
  <2>1. p.claim = q.claim /\ p.on = q.on BY <1>1, <1>2 DEF WinEffect
  <2>2. p \in Task /\ q \in Task BY <1>2
  <2> QED BY <2>1, <2>2 DEF Task
<1>4. ASSUME NEW r \in Server, r # s PROVE WorkerLock(r)'
  <2>1. claiming'[r] = claiming[r] /\ empty'[r] = empty[r] BY <1>0, <1>1, <1>4
  <2> QED BY <1>1, <1>2, <1>4, <2>1, LockStands DEF WorkerLocks
<1>5. WorkerLock(s)'
  <2>1. WorkerLock(s) BY DEF WorkerLocks
  <2>2. worker[s] = Claiming /\ claiming[s] = 1 /\ empty[s] = 0 /\ ~Waits(s)
    BY <1>0, <1>1, <2>1 DEF WorkerLock
  <2>3. worker'[s] = Claiming /\ claiming'[s] = 0 BY <1>0, <1>1, <2>2
  <2>4. \A e \in exec' : e.on = s => e.at = "next"
    BY <1>1, <2>1, <2>2, RunningIs DEF WorkerLock
  <2>5. \A p \in starting' : p.on = s => p \in new
    BY <1>2, <2>2 DEF Waits
  <2>6. \A p \in renewals' : p.on = s => p \in starting'
    BY <1>2, <2>1, <2>2, RunningIs DEF WorkerLock
  <2>7. CASE won = {}
    <3>1. empty'[s] = 1 BY <1>0, <1>1, <2>2, <2>7
    <3>2. ~Waits(s)' BY <1>2, <2>5, <2>7 DEF Waits
    <3> QED BY <2>3, <2>4, <2>6, <3>1, <3>2 DEF WorkerLock, Waits
  <2>8. CASE won # {}
    <3>1. empty'[s] = 0 BY <1>1, <2>2, <2>8
    <3> QED BY <1>3, <2>3, <2>4, <2>5, <2>6, <3>1 DEF WorkerLock
  <2> QED BY <2>7, <2>8
<1> QED BY <1>4, <1>5 DEF WorkerLocks

LEMMA LockStarts ==
    ASSUME Base, WorkerLocks, NEW p \in starting, StartExecution(p)
    PROVE  WorkerLocks'
<1>0. /\ worker \in [Server -> WorkerState] /\ p.on \in Server
  BY TypedTasks DEF Base, WorkerType
<1>1. PICK f : /\ f.claim = p.claim /\ f.on = p.on /\ exec' = exec \cup {f}
  BY DEF StartExecution
<1>2. /\ starting' = starting \ {p} /\ worker' = [worker EXCEPT ![p.on] = RunningClaim(p.claim)]
      /\ UNCHANGED <<claiming, empty, renewals>>
  BY DEF StartExecution
<1>3. ASSUME NEW r \in Server, r # p.on PROVE WorkerLock(r)'
  <2>1. worker'[r] = worker[r] BY <1>0, <1>2, <1>3
  <2> QED BY <1>1, <1>2, <1>3, <2>1, LockStands DEF WorkerLocks
<1>4. WorkerLock(p.on)'
  <2> DEFINE s == p.on
  <2>1. WorkerLock(s) /\ Waits(s) BY <1>0 DEF WorkerLocks, Waits
  <2>2. worker[s] = Claiming /\ claiming[s] = 0 /\ empty[s] = 0 BY <2>1 DEF WorkerLock
  <2>3. worker'[s] = RunningClaim(p.claim) BY <1>0, <1>2
  <2>4. ~Waits(s)' BY <1>2, <2>1 DEF WorkerLock, Waits
  <2>5. \A e \in exec' : e.on = s /\ e.at # "next" => e = f
    BY <1>1, <2>1, <2>2, RunningIs DEF WorkerLock
  <2>6. \A q \in renewals' : q.on = s => q = p
    BY <1>2, <2>1, <2>2, RunningIs DEF WorkerLock
  <2> QED BY <1>1, <1>2, <2>2, <2>3, <2>4, <2>5, <2>6 DEF WorkerLock, Waits
<1> QED BY <1>3, <1>4 DEF WorkerLocks

\* The end of an execution: it is the worker's own, and so is the renewal.
LEMMA LockReleases ==
    ASSUME Base, TaskInv, WorkerLocks, NEW e \in exec, ExecReleasesWorker(e)
    PROVE  /\ WorkerLocks'
           /\ worker[e.on] = RunningClaim(e.claim)
<1> DEFINE s == e.on
<1>0. /\ worker \in [Server -> WorkerState] /\ s \in Server /\ e.at = "release"
      /\ renewals \subseteq Task /\ Unique
  BY TypedTasks, ReleaseIs DEF Base, WorkerType, TaskInv
<1>1. PICK f : /\ f.claim = e.claim /\ f.on = s /\ f.at = "next"
               /\ exec' = (exec \ {e}) \cup {f}
  BY ReleaseIs
<1>2. WorkerLock(s) /\ worker[s] = RunningClaim(e.claim) BY <1>0 DEF WorkerLocks, WorkerLock
<1>3. /\ worker' = [worker EXCEPT ![s] = Idle]
      /\ renewals' = renewals \ {[claim |-> e.claim, on |-> s]}
      /\ UNCHANGED <<claiming, empty, starting>>
  BY <1>2, ReleaseIs, RunningIs
<1>4. ASSUME NEW r \in Server, r # s PROVE WorkerLock(r)'
  <2>1. worker'[r] = worker[r] BY <1>0, <1>3, <1>4
  <2>2. WorkerLock(r) BY DEF WorkerLocks
  <2>3. \A g \in exec' : g.on = r => g \in exec BY <1>1, <1>4
  <2> QED BY <1>3, <2>1, <2>2, <2>3, LockStands
<1>5. WorkerLock(s)'
  <2>1. worker'[s] = Idle BY <1>0, <1>3
  <2>2. claiming[s] = 0 /\ empty[s] = 0 /\ ~Waits(s) BY <1>2, RunningIs DEF WorkerLock
  <2>3. \A g \in exec' : g.on = s => g.at = "next"
    <3> SUFFICES ASSUME NEW g \in exec, g.on = s, g.at # "next" PROVE g = e
      BY <1>1
    <3>1. RunningClaim(g.claim) = RunningClaim(e.claim) BY <1>2 DEF WorkerLock
    <3> QED BY <1>0, <3>1, RunningIs DEF Unique
  <2>4. \A p \in renewals' : p.on # s
    <3> SUFFICES ASSUME NEW p \in renewals, p.on = s
                 PROVE  p = [claim |-> e.claim, on |-> s]
      BY <1>3
    <3>1. worker[s] = RunningClaim(p.claim) BY <1>2, <2>2 DEF WorkerLock, Waits
    <3>2. p.claim = e.claim BY <1>2, <3>1, RunningIs
    <3>3. p \in Task BY <1>0
    <3> QED BY <3>2, <3>3 DEF Task
  <2> QED BY <1>3, <2>1, <2>2, <2>3, <2>4 DEF WorkerLock, Waits
<1> QED BY <1>2, <1>4, <1>5 DEF WorkerLocks

LEMMA LockReverts ==
    ASSUME Base, WorkerLocks, NEW s \in Server, RevertClaiming(s)
    PROVE  WorkerLocks'
<1>0. /\ worker \in [Server -> WorkerState] /\ empty \in [Server -> Nat]
  BY DEF Base, WorkerType
<1>1. /\ UNCHANGED <<claiming, starting, renewals, exec>> /\ empty[s] > 0
      /\ empty' = [empty EXCEPT ![s] = empty[s] - 1]
      /\ worker' = IF worker[s] = Claiming THEN [worker EXCEPT ![s] = Idle] ELSE worker
  BY DEF RevertClaiming
<1>2. ASSUME NEW r \in Server, r # s PROVE WorkerLock(r)'
  <2>1. worker'[r] = worker[r] /\ empty'[r] = empty[r] BY <1>0, <1>1, <1>2
  <2> QED BY <1>1, <2>1, LockStands DEF WorkerLocks
<1>3. WorkerLock(s)'
  <2>1. WorkerLock(s) BY DEF WorkerLocks
  <2>2. worker[s] = Claiming /\ claiming[s] = 0 /\ empty[s] = 1 /\ ~Waits(s)
    BY <1>0, <1>1, <2>1 DEF WorkerLock
  <2>3. worker'[s] = Idle /\ empty'[s] = 0 BY <1>0, <1>1, <2>2
  <2>4. \A e \in exec : e.on = s => e.at = "next" BY <2>1, <2>2, RunningIs DEF WorkerLock
  <2>5. \A p \in renewals : p.on # s BY <2>1, <2>2, RunningIs DEF WorkerLock, Waits
  <2> QED BY <1>1, <2>2, <2>3, <2>4, <2>5 DEF WorkerLock, Waits
<1> QED BY <1>2, <1>3 DEF WorkerLocks

LEMMA LockCrashes ==
    ASSUME Base, WorkerLocks, NEW s \in Server, Crash(s)
    PROVE  WorkerLocks'
<1>0. /\ worker \in [Server -> WorkerState]
      /\ claiming \in [Server -> Nat] /\ empty \in [Server -> Nat]
  BY DEF Base, WorkerType
<1>1. /\ worker' = [worker EXCEPT ![s] = Idle]
      /\ claiming' = [claiming EXCEPT ![s] = 0] /\ empty' = [empty EXCEPT ![s] = 0]
      /\ starting' = {p \in starting : p.on # s} /\ exec' = {e \in exec : e.on # s}
      /\ renewals' = {p \in renewals : p.on # s}
  BY DEF Crash
<1>2. ASSUME NEW r \in Server, r # s PROVE WorkerLock(r)'
  <2>1. worker'[r] = worker[r] /\ claiming'[r] = claiming[r] /\ empty'[r] = empty[r]
    BY <1>0, <1>1, <1>2
  <2> QED BY <1>1, <1>2, <2>1, LockStands DEF WorkerLocks
<1>3. WorkerLock(s)'
  <2>1. worker'[s] = Idle /\ claiming'[s] = 0 /\ empty'[s] = 0 BY <1>0, <1>1
  <2> QED BY <1>1, <2>1 DEF WorkerLock, Waits
<1> QED BY <1>2, <1>3 DEF WorkerLocks

LEMMA LockStep ==
    ASSUME Base, TaskInv, WorkerLocks, StepShape, \A d \in Dispatch : ~SubmitClaims(d)
    PROVE  WorkerLocks'
<1>1. ASSUME UNCHANGED <<worker, claiming, empty, starting, exec>>, renewals' \subseteq renewals
      PROVE  WorkerLocks'
  BY <1>1, LockStands DEF WorkerLocks
<1>2. ASSUME Elsewhere PROVE WorkerLocks' BY <1>1, <1>2 DEF Elsewhere, taskVars
<1>3. ASSUME NEW d \in Dispatch, TimePasses(d) PROVE WorkerLocks'
  BY <1>1, <1>3 DEF TimePasses, taskVars
<1>4. ASSUME NEW s \in Server, Tries(s) PROVE WorkerLocks' BY <1>4, LockTries DEF Tries
<1>5. ASSUME NEW e \in exec, NEW f, Moves(e, f) PROVE WorkerLocks'
  <2>1. /\ f.claim = e.claim /\ f.on = e.on /\ exec' = (exec \ {e}) \cup {f}
        /\ e.at # "next" /\ UNCHANGED <<worker, claiming, empty, starting, renewals>>
    BY <1>5 DEF Moves, taskVars
  <2> QED BY <2>1, LockStands DEF WorkerLocks
<1>6. ASSUME NEW e \in exec, ExecTriesNext(e) PROVE WorkerLocks'
  <2>1. /\ e.on \in Server /\ exec' = exec \ {e} /\ TryDispatch(e.on)
        /\ UNCHANGED <<empty, starting, renewals>>
    BY <1>6, ExecIsTyped DEF ExecTriesNext
  <2> QED BY <2>1, LockTries
<1>7. ASSUME NEW p \in renewals, RenewLease(p) PROVE WorkerLocks'
  BY <1>1, <1>7, RenewShape
<1>8. ASSUME NEW e \in exec, ExecReleasesWorker(e) PROVE WorkerLocks' BY <1>8, LockReleases
<1> QED
  BY <1>2, <1>3, <1>4, <1>5, <1>6, <1>7, <1>8, LockWins, LockReverts, LockCrashes,
     LockStarts, Zenon DEF StepShape

\* A submit that was begun stays begun, and only an inline one comes to claim.
LEMMA InlineStep ==
    ASSUME Base, [ServiceNext]_serviceVars, ForegroundIsInline
    PROVE  /\ ForegroundIsInline'
           /\ OnlyBackground' => OnlyBackground /\ \A d \in Dispatch : ~SubmitClaims(d)
<1>0. submit \in [Dispatch -> SubmitRecord] BY RestOfBase
<1>1. ASSUME NEW d \in Dispatch, SubmitStep(d)
      PROVE  submit'[d].at # "new" /\ (submit'[d].at \in Foreground => d \in Inline)
  <2>0. submit[d].at \in Foreground => d \in Inline BY DEF ForegroundIsInline
  <2>1. CASE SubmitInterrupts(d)
    <3>1. submit'[d].at = "interrupted" BY <1>0, <2>1 DEF SubmitInterrupts
    <3> QED BY <2>1, <3>1 DEF SubmitInterrupts
  <2>2. CASE SubmitClosesSuperseded(d)
    <3>1. PICK o : submit' = [submit EXCEPT ![d] =
                               [submit[d] EXCEPT !.todo = submit[d].todo \ {o}]]
      BY <2>2, Zenon DEF SubmitClosesSuperseded
    <3>2. [submit[d] EXCEPT !.todo = submit[d].todo \ {o}].at = submit[d].at
      BY <1>0 DEF SubmitRecord
    <3>3. submit'[d].at = submit[d].at BY <1>0, <3>1, <3>2
    <3> QED BY <2>0, <2>2, <3>3 DEF SubmitClosesSuperseded, SubmitIs
  <2>3. ASSUME NEW at, SubmitAt(d, at), at # "new", at \in Foreground => d \in Inline
        PROVE  submit'[d].at # "new" /\ (submit'[d].at \in Foreground => d \in Inline)
    BY <2>3, SubmitAtIs
  <2>4. CASE SubmitEnqueues(d)
    <3>1. \/ SubmitAt(d, "failed")
          \/ d \in Inline /\ SubmitAt(d, "claim")
          \/ SubmitAt(d, "wake")
      BY <2>4 DEF SubmitEnqueues
    <3> QED BY <2>3, <3>1 DEF Foreground
  <2>5. CASE \/ SubmitCancelsActive(d) \/ SubmitRunWaitTimesOut(d)
             \/ SubmitCancelsLive(d) \/ SubmitWaitsForRelease(d) \/ SubmitPreparesRun(d)
             \/ SubmitClaims(d) \/ SubmitLosesClaim(d) \/ SubmitUndoes(d)
             \/ SubmitReconciles(d) \/ SubmitWakesWorker(d)
    <3>1. \/ \E at \in {"conflict", "prepare", "enqueue", "done", "undo", "undone"} :
                SubmitAt(d, at)
          \/ /\ submit[d].at \in Foreground
             /\ \E at \in {"live", "waitRun", "waitStore"} : SubmitAt(d, at)
      BY <2>5 DEF SubmitCancelsActive, SubmitRunWaitTimesOut, SubmitCancelsLive,
         SubmitWaitsForRelease, SubmitPreparesRun, SubmitClaims, SubmitLosesClaim,
         SubmitUndoes, SubmitReconciles, SubmitWakesWorker, SubmitIs, Foreground
    <3> QED BY <2>0, <2>3, <3>1 DEF Foreground
  <2> QED BY <1>1, <2>1, <2>2, <2>4, <2>5 DEF SubmitStep
<1>2. ASSUME NEW d \in Dispatch, ~SubmitStep(d)
      PROVE  /\ submit'[d].at \in Foreground => submit[d].at \in Foreground
             /\ submit'[d].at = "new" => submit[d].at = "new"
  BY <1>2, OtherPlaces DEF Foreground
<1>3. ForegroundIsInline' BY <1>1, <1>2 DEF ForegroundIsInline
<1>4. ASSUME OnlyBackground' PROVE OnlyBackground
  <2>1. Inline \subseteq Dispatch BY ServiceAssumption
  <2> QED BY <1>1, <1>2, <1>4, <2>1 DEF OnlyBackground
<1>5. ASSUME OnlyBackground, NEW d \in Dispatch, SubmitClaims(d) PROVE FALSE
  <2>1. submit[d].at = "claim" BY <1>5 DEF SubmitClaims, SubmitIs
  <2>2. d \in Inline /\ submit[d].at = "new" BY <1>5, <2>1 DEF ForegroundIsInline, OnlyBackground, Foreground
  <2> QED BY <2>1, <2>2
<1> QED BY <1>3, <1>4, <1>5

LockInv == ForegroundIsInline /\ (OnlyBackground => WorkerLocks)

LEMMA LockInvInit == ServiceInit => LockInv
<1> SUFFICES ASSUME ServiceInit PROVE LockInv OBVIOUS
<1>1. /\ starting = {} /\ exec = {} /\ renewals = {}
      /\ \A s \in Server : claiming[s] = 0 /\ empty[s] = 0
      /\ \A d \in Dispatch : submit[d].at = "new"
  BY DEF ServiceInit
<1>2. \A s \in Server : WorkerLock(s) BY <1>1 DEF WorkerLock, Waits
<1> QED BY <1>1, <1>2 DEF LockInv, ForegroundIsInline, Foreground, WorkerLocks

LEMMA LockInvStep ==
    ServiceIInv /\ LockInv /\ [ServiceNext]_serviceVars => LockInv'
<1> SUFFICES ASSUME ServiceIInv, LockInv, [ServiceNext]_serviceVars PROVE LockInv' OBVIOUS
<1>1. Base /\ TaskInv BY DEF ServiceIInv
<1>2. /\ ForegroundIsInline'
      /\ OnlyBackground' => OnlyBackground /\ \A d \in Dispatch : ~SubmitClaims(d)
  BY <1>1, InlineStep DEF LockInv
<1>3. StepShape BY <1>1, NextShape
<1>4. ASSUME OnlyBackground' PROVE WorkerLocks'
  BY <1>1, <1>2, <1>3, <1>4, LockStep DEF LockInv
<1> QED BY <1>2, <1>4 DEF LockInv

LEMMA LockInvHolds == ServiceSpec => [](ServiceIInv /\ LockInv)
<1>1. ServiceInit => ServiceIInv /\ LockInv BY ServiceIInvInit, LockInvInit
<1>2. ServiceIInv /\ LockInv /\ [ServiceNext]_serviceVars => (ServiceIInv /\ LockInv)'
  BY ServiceIInvStep, LockInvStep
<1> QED BY <1>1, <1>2, PTL DEF ServiceSpec

\* The run that holds the slot is the one that its worker runs.
LEMMA LockedSlot ==
    ASSUME ServiceIInv, WorkerLocks, NEW s \in Server, active[s] # NoClaim
    PROVE  \E e \in exec : /\ e.on = s /\ e.claim = active[s] /\ e.at \in Acting
                           /\ worker[s] = RunningClaim(e.claim)
<1>1. PICK e \in exec : e.on = s /\ e.claim = active[s] /\ e.at \in Acting
  BY DEF ServiceIInv, SlotInv, ActiveIsRun
<1>2. e.at # "next" BY <1>1 DEF Acting
<1> QED BY <1>1, <1>2 DEF WorkerLocks, WorkerLock

\* While only background submits are made, a renewal that loses its lease finds
\* its own run in the slot, or none: whatever servers crash, deadlines are missed
\* and calls are made.  An inline submit overwrites the worker and takes this away.
THEOREM LostLeaseCancelsOwnRunHolds ==
    ServiceSpec => [](OnlyBackground => LostLeaseCancelsOwnRun)
<1>1. ServiceIInv /\ LockInv => (OnlyBackground => LostLeaseCancelsOwnRun)
  <2> SUFFICES ASSUME ServiceIInv, WorkerLocks, NEW p \in renewals, active[p.on] # NoClaim
               PROVE  active[p.on] = p.claim
    BY DEF LockInv, LostLeaseCancelsOwnRun
  <2>1. p.on \in Server BY TypedTasks DEF ServiceIInv
  <2>2. PICK e \in exec : /\ e.on = p.on /\ e.claim = active[p.on] /\ e.at \in Acting
                          /\ worker[p.on] = RunningClaim(e.claim)
    BY <2>1, LockedSlot
  <2>3. p \notin starting BY <2>1, <2>2, RunningIs DEF WorkerLocks, WorkerLock, Waits
  <2>4. worker[p.on] = RunningClaim(p.claim) BY <2>1, <2>3 DEF WorkerLocks, WorkerLock
  <2>5. RunningClaim(e.claim) = RunningClaim(p.claim) BY <2>2, <2>4
  <2>6. e.claim = p.claim BY <2>5, RunningIs
  <2> QED BY <2>2, <2>6
<1> QED BY <1>1, LockInvHolds, PTL

\* While only background submits are made, no dispatch is dead-lettered for
\* ThreadAlreadyRunning: the execution that is to register finds the slot free.
\* The claim of an inline submit may find the run of an older claim in it.
THEOREM OwnerFindsSlotFreeHolds ==
    ServiceSpec => [](OnlyBackground => OwnerFindsSlotFree)
<1>1. ServiceIInv /\ LockInv => (OnlyBackground => OwnerFindsSlotFree)
  <2> SUFFICES ASSUME ServiceIInv, WorkerLocks, NEW e \in exec, e.at = "run",
                      active[e.on] # NoClaim
               PROVE  FALSE
    BY DEF LockInv, OwnerFindsSlotFree
  <2>1. e.on \in Server BY TypedTasks DEF ServiceIInv
  <2>2. PICK g \in exec : /\ g.on = e.on /\ g.at \in Acting
                          /\ worker[e.on] = RunningClaim(g.claim)
    BY <2>1, LockedSlot
  <2>3. worker[e.on] = RunningClaim(e.claim) BY <2>1 DEF WorkerLocks, WorkerLock
  <2>4. g.claim = e.claim BY <2>2, <2>3, RunningIs
  <2>5. g = e BY <2>4 DEF ServiceIInv, TaskInv, Unique
  <2> QED BY <2>2, <2>5 DEF Acting
<1> QED BY <1>1, LockInvHolds, PTL

-----------------------------------------------------------------------------
(* Renewals.                                                               *)

\* One claim of a dispatch at a time on a server: the worker's lock sees to it,
\* or there is no second claim.
OneByOne == OnlyBackground \/ MaxAttempts = 1

Renews(c) == \E p \in renewals : p.claim = c
Renewed(d) == IsClaimed(d) /\ ~IsStale(d) => Renews(<<d, dispatches[d].token>>)
RenewedInv == OneByOne /\ crashes = 0 => \A d \in Dispatch : Renewed(d)

\* A dispatch that is claimed and current after a calm step was it before.
LEMMA CurrentBefore ==
    ASSUME Base, CalmStore, epoch' = epoch \/ epoch'[thread] = epoch[thread] + 1,
           NEW d \in Dispatch, IsClaimed(d)', ~IsStale(d)'
    PROVE  /\ IsClaimed(d) /\ ~IsStale(d) /\ dispatches'[d].token = dispatches[d].token
           /\ Owns(d, dispatches[d].token)
<1>1. IsClaimed(d) /\ dispatches'[d].token = dispatches[d].token
  BY CalmClaimed, BaseStore
<1>2. dispatches'[d].epoch = dispatches[d].epoch
  <2>1. Calm(dispatches[d], dispatches'[d]) BY DEF CalmStore
  <2> QED BY <1>1, <2>1 DEF Calm, IsClaimed, StatusOf
<1>3. ~IsStale(d)
  <2>1. ThreadOf[d] = thread /\ thread \in Thread BY ThreadIsThread
  <2>2. epoch[thread] \in Nat /\ dispatches[d].epoch \in Nat
    BY <2>1, BaseStore, Local DEF StoreIInv, StoreTypeOK, DispatchRecord
  <2>3. epoch[thread] <= epoch'[thread] BY <2>2
  <2> QED BY <1>2, <2>1, <2>2, <2>3 DEF IsStale, CurrentEpoch
<1>4. HasToken(d, dispatches[d].token) BY <1>1 DEF HasToken, IsClaimed, IsStored, StatusOf
<1> QED BY <1>1, <1>3, <1>4 DEF Owns

\* A calm step that leaves the renewals of what is owned.
LEMMA RenewalsStand ==
    ASSUME Base, CalmStore, epoch' = epoch \/ epoch'[thread] = epoch[thread] + 1,
           \A d \in Dispatch : Renewed(d),
           \A p \in renewals : p \in renewals' \/ ~Owns(p.claim[1], p.claim[2])
    PROVE  \A d \in Dispatch : Renewed(d)'
<1> SUFFICES ASSUME NEW d \in Dispatch, IsClaimed(d)', ~IsStale(d)'
             PROVE  Renews(<<d, dispatches[d].token>>)'
  BY DEF Renewed
<1>1. /\ IsClaimed(d) /\ ~IsStale(d) /\ dispatches'[d].token = dispatches[d].token
      /\ Owns(d, dispatches[d].token)
  BY CurrentBefore
<1>2. PICK p \in renewals : p.claim = <<d, dispatches[d].token>>
  BY <1>1 DEF Renewed, Renews
<1>3. p.claim[1] = d /\ p.claim[2] = dispatches[d].token BY <1>2
<1>4. p \in renewals' BY <1>1, <1>3
<1> QED BY <1>1, <1>2, <1>4 DEF Renews

\* What is won is renewed.
LEMMA RenewalsWin ==
    ASSUME Base, StepShape, \A d \in Dispatch : Renewed(d),
           NEW s \in Server, NEW won, WinEffect(won), ClaimWon(s, won)
    PROVE  \A d \in Dispatch : Renewed(d)'
<1> SUFFICES ASSUME NEW d \in Dispatch, IsClaimed(d)', ~IsStale(d)'
             PROVE  Renews(<<d, dispatches[d].token>>)'
  BY DEF Renewed
<1>1. PICK new : /\ new = {[claim |-> <<o, claims'[o]>>, on |-> s] : o \in won}
                 /\ renewals' = renewals \cup new
  BY WonIsTyped
<1>2. CASE d \in won
  <2>1. dispatches'[d].token = claims'[d] BY <1>2 DEF WinEffect
  <2>2. PICK p \in new : p = [claim |-> <<d, claims'[d]>>, on |-> s] BY <1>1, <1>2
  <2>3. p.claim = <<d, dispatches'[d].token>> /\ p \in renewals' BY <1>1, <2>1, <2>2
  <2> QED BY <2>3 DEF Renews
<1>3. CASE d \notin won
  <2>1. dispatches'[d] = dispatches[d] /\ epoch' = epoch BY <1>3 DEF WinEffect
  <2>2. IsClaimed(d) /\ ~IsStale(d)
    BY <2>1 DEF IsClaimed, StatusOf, IsStale, CurrentEpoch
  <2>3. Renews(<<d, dispatches[d].token>>) BY <2>2 DEF Renewed
  <2> QED BY <1>1, <2>1, <2>3 DEF Renews
<1> QED BY <1>2, <1>3

\* The renewal that finish_execution aborts is that of the claim that finishes.
LEMMA AbortsOwn ==
    ASSUME Base, TaskInv, OneByOne, OnlyBackground => WorkerLocks,
           NEW e \in exec, ExecReleasesWorker(e), NEW p \in renewals, p \notin renewals'
    PROVE  p.claim = e.claim
<1>1. p.claim = worker[e.on].claim /\ worker[e.on].claim[1] = e.claim[1] BY ReleaseIs
<1>2. CASE OnlyBackground BY <1>1, <1>2, LockReleases, RunningIs
<1>3. CASE MaxAttempts = 1
  <2>1. p.claim \in Dispatch \X (1..1) /\ e.claim \in Dispatch \X (1..1)
    BY <1>3, TypedTasks DEF ClaimId
  <2>2. p.claim[2] = 1 /\ e.claim[2] = 1 BY <2>1
  <2>3. p.claim = <<p.claim[1], p.claim[2]>> /\ e.claim = <<e.claim[1], e.claim[2]>>
    BY <2>1
  <2> QED BY <1>1, <2>2, <2>3
<1> QED BY <1>2, <1>3 DEF OneByOne

LEMMA RenewedStep ==
    ASSUME Base, TaskInv, OneByOne, OnlyBackground => WorkerLocks, StepShape,
           crashes' = 0, \A d \in Dispatch : Renewed(d)
    PROVE  \A d \in Dispatch : Renewed(d)'
<1> DEFINE Goal == \A d \in Dispatch : Renewed(d)'
<1>1. ASSUME UNCHANGED storeVars, renewals' = renewals PROVE Goal
  BY <1>1 DEF storeVars, Renewed, Renews, IsClaimed, IsStale, StatusOf, CurrentEpoch
<1>2. ASSUME Elsewhere PROVE Goal
  <2>1. renewals' = renewals /\ CalmStore /\ (epoch' = epoch \/ epoch'[thread] = epoch[thread] + 1)
    BY <1>2 DEF Elsewhere, taskVars
  <2> HIDE DEF Goal
  <2>2. \A d \in Dispatch : Renewed(d)' BY <2>1, RenewalsStand
  <2> QED BY <2>2 DEF Goal
<1>3. ASSUME NEW d \in Dispatch, TimePasses(d) PROVE Goal
  <2>1. renewals' = renewals /\ CalmStore /\ epoch' = epoch
    BY <1>3, BaseStore, TimeCalm DEF TimePasses, taskVars
  <2>2. \A o \in Dispatch : Renewed(o)' BY <2>1, RenewalsStand
  <2> QED BY <2>2
<1>4. ASSUME NEW d \in Dispatch, SubmitClaims(d) PROVE Goal
  <2>1. WinEffect({d}) /\ ClaimWon(HomeOf[d], {d}) /\ HomeOf[d] \in Server
    BY <1>4, SubmitClaimsShape
  <2>2. \A o \in Dispatch : Renewed(o)' BY <2>1, RenewalsWin
  <2> QED BY <2>2
<1>5. ASSUME NEW s \in Server, ClaimNext(s) PROVE Goal
  <2>1. PICK won : WinEffect(won) /\ ClaimWon(s, won) BY <1>5, ClaimNextShape
  <2>2. \A o \in Dispatch : Renewed(o)' BY <2>1, RenewalsWin
  <2> QED BY <2>2
<1>6. ASSUME NEW s \in Server, Tries(s) \/ RevertClaiming(s) PROVE Goal
  BY <1>1, <1>6 DEF Tries, RevertClaiming
<1>7. ASSUME NEW s \in Server, Crash(s) PROVE Goal
  <2>1. crashes' # 0 BY <1>7 DEF Crash, Base, HostType
  <2> QED BY <2>1
<1>8. ASSUME NEW p \in starting, StartExecution(p) PROVE Goal
  BY <1>1, <1>8 DEF StartExecution
<1>9. ASSUME NEW e \in exec, NEW f, Moves(e, f) PROVE Goal
  <2>1. renewals' = renewals /\ CalmStore /\ epoch' = epoch
    BY <1>9 DEF Moves, HolderCalm, taskVars
  <2>2. \A d \in Dispatch : Renewed(d)' BY <2>1, RenewalsStand
  <2> QED BY <2>2
<1>10. ASSUME NEW e \in exec, ExecTriesNext(e) PROVE Goal
  BY <1>1, <1>10 DEF ExecTriesNext
<1>11. ASSUME NEW e \in exec, ExecReleasesWorker(e) PROVE Goal
  <2>1. UNCHANGED storeVars /\ e.at = "release" BY <1>11, ReleaseIs
  <2>2. CalmStore /\ epoch' = epoch BY <2>1, BaseStore, UnchangedIsCalm
  <2>3. ~Current(e.claim) BY <2>1 DEF TaskInv, DoneLost, Gone
  <2>4. ASSUME NEW p \in renewals, p \notin renewals' PROVE ~Owns(p.claim[1], p.claim[2])
    <3>1. p.claim = e.claim BY <1>11, <2>4, AbortsOwn
    <3> QED BY <2>3, <3>1 DEF Owns, Current
  <2>5. \A d \in Dispatch : Renewed(d)' BY <2>2, <2>4, RenewalsStand
  <2> QED BY <2>5
<1>12. ASSUME NEW p \in renewals, RenewLease(p) PROVE Goal
  <2>1. CalmStore /\ epoch' = epoch BY <1>12, RenewShape DEF HolderCalm
  <2>2. renewals' = renewals \/ (~Owns(p.claim[1], p.claim[2]) /\ renewals' = renewals \ {p})
    BY <1>12 DEF RenewLease
  <2>3. \A q \in renewals : q \in renewals' \/ ~Owns(q.claim[1], q.claim[2])
    BY <2>2
  <2>4. \A d \in Dispatch : Renewed(d)' BY <2>1, <2>3, RenewalsStand
  <2> QED BY <2>4
<1> HIDE DEF Goal
<1>13. Goal
  BY <1>2, <1>3, <1>4, <1>5, <1>6, <1>7, <1>8, <1>9, <1>10, <1>11, <1>12, Zenon DEF StepShape
<1> QED BY <1>13 DEF Goal

LEMMA RenewedInvStep ==
    ServiceIInv /\ LockInv /\ RenewedInv /\ [ServiceNext]_serviceVars => RenewedInv'
<1> SUFFICES ASSUME ServiceIInv, LockInv, RenewedInv, [ServiceNext]_serviceVars,
                    OneByOne', crashes' = 0
             PROVE  \A d \in Dispatch : Renewed(d)'
  BY DEF RenewedInv
<1>1. Base /\ TaskInv BY DEF ServiceIInv
<1>2. OneByOne BY <1>1, InlineStep DEF LockInv, OneByOne
<1>3. crashes = 0 BY <1>1, LapsesStay
<1>4. \A d \in Dispatch : Renewed(d) BY <1>2, <1>3 DEF RenewedInv
<1>5. (OnlyBackground => WorkerLocks) /\ StepShape BY <1>1, NextShape DEF LockInv
<1> QED BY <1>1, <1>2, <1>4, <1>5, RenewedStep

LEMMA RenewedInvHolds == ServiceSpec => [](ServiceIInv /\ LockInv /\ RenewedInv)
<1>1. ServiceInit => RenewedInv
  BY DEF ServiceInit, StoreInit, Blank, RenewedInv, Renewed, IsClaimed, StatusOf
<1>2. RenewedInv /\ (ServiceIInv /\ LockInv) /\ [ServiceNext]_serviceVars => RenewedInv'
  BY RenewedInvStep
<1> QED BY <1>1, <1>2, LockInvHolds, PTL DEF ServiceSpec

\* While no server has crashed, and dispatches are attempted once or submitted
\* in the background, a claim of the current epoch is renewed where it executes,
\* whatever is missed, called and interrupted: it is not reclaimed in time.
\* Otherwise an old execution of a dispatch may abort the renewal of its next
\* claim, for finish_execution compares dispatches only.
THEOREM ClaimIsRenewedHolds ==
    ServiceSpec => [](OneByOne /\ crashes = 0 => ClaimIsRenewed)
<1>1. ServiceIInv /\ RenewedInv => (OneByOne /\ crashes = 0 => ClaimIsRenewed)
  <2> SUFFICES ASSUME ServiceIInv, RenewedInv, OneByOne, crashes = 0,
                      NEW d \in Dispatch, IsClaimed(d), ~IsStale(d)
               PROVE  \E t \in HolderOf(<<d, dispatches[d].token>>) :
                         [claim |-> t.claim, on |-> t.on] \in renewals
    BY DEF ClaimIsRenewed
  <2> DEFINE c == <<d, dispatches[d].token>>
  <2>1. PICK p \in renewals : p.claim = c BY DEF RenewedInv, Renewed, Renews
  <2>2. Current(c) BY DEF Current, HasToken, IsClaimed, IsStored, StatusOf
  <2> HIDE DEF c
  <2>3. p \in Task BY TypedTasks DEF ServiceIInv
  <2>4. HasTaskOn(c, p.on) BY <2>1, <2>2 DEF ServiceIInv, TaskInv, Executed
  <2>5. \E t \in HolderOf(c) : t.claim = c /\ t.on = p.on
    <3>1. CASE \E t \in starting : t.claim = c /\ t.on = p.on BY <3>1 DEF HolderOf
    <3>2. CASE \E e \in exec : e.claim = c /\ e.on = p.on
      <4>1. PICK e \in exec : e.claim = c /\ e.on = p.on BY <3>2
      <4>2. e.at \notin Gone BY <2>2, <4>1 DEF ServiceIInv, TaskInv, DoneLost
      <4>3. e \in HolderOf(c) BY <4>1, <4>2 DEF HolderOf, Gone
      <4> QED BY <4>1, <4>3
    <3> QED BY <2>4, <3>1, <3>2 DEF HasTaskOn
  <2>6. PICK t \in HolderOf(c) : t.claim = c /\ t.on = p.on BY <2>5
  <2>7. [claim |-> t.claim, on |-> t.on] = p BY <2>1, <2>3, <2>6 DEF Task
  <2> QED BY <2>6, <2>7 DEF c
<1> QED BY <1>1, RenewedInvHolds, PTL

-----------------------------------------------------------------------------
(* A quiet thread: nobody interrupts, no deadline is missed, no server has  *)
(* crashed.  Then a claim is lost only by the task that holds it.           *)

Quiet == epoch[thread] = 0 /\ lapses = 0 /\ crashes = 0

\* An inline submit interrupts first.
EpochInv == epoch[thread] = 0 => OnlyBackground

LEMMA QuietStays ==
    ASSUME Base, [ServiceNext]_serviceVars
    PROVE  /\ epoch[thread] \in Nat
           /\ epoch'[thread] \in {epoch[thread], epoch[thread] + 1}
           /\ Quiet' => Quiet
<1>1. epoch[thread] \in Nat
  BY ThreadIsThread, BaseStore DEF StoreIInv, StoreTypeOK
<1> DEFINE Goal == epoch' = epoch \/ epoch'[thread] = epoch[thread] + 1
<1>2. StepShape BY NextShape
<1>3. ASSUME Elsewhere PROVE Goal BY <1>3 DEF Elsewhere
<1>4. ASSUME NEW d \in Dispatch, TimePasses(d) \/ SubmitClaims(d) PROVE Goal
  BY <1>4, BaseStore, TimeCalm, SubmitClaimsShape DEF TimePasses, WinEffect
<1>5. ASSUME NEW s \in Server, Tries(s) \/ RevertClaiming(s) \/ Crash(s) PROVE Goal
  BY <1>5 DEF Tries, RevertClaiming, Crash, storeVars
<1>6. ASSUME NEW s \in Server, ClaimNext(s) PROVE Goal
  BY <1>6, ClaimNextShape DEF WinEffect
<1>7. ASSUME NEW p \in starting, StartExecution(p) PROVE Goal
  BY <1>7 DEF StartExecution, storeVars
<1>8. ASSUME NEW e \in exec, ExecReleasesWorker(e) \/ ExecTriesNext(e) PROVE Goal
  BY <1>8 DEF ExecReleasesWorker, ExecTriesNext, storeVars
<1>9. ASSUME NEW e \in exec, NEW f, Moves(e, f) PROVE Goal
  BY <1>9 DEF Moves, HolderCalm
<1>10. ASSUME NEW p \in renewals, RenewLease(p) PROVE Goal
  BY <1>10, RenewShape DEF HolderCalm
<1> HIDE DEF Goal
<1>11. Goal
  BY <1>2, <1>3, <1>4, <1>5, <1>6, <1>7, <1>8, <1>9, <1>10, Zenon DEF StepShape
<1>12. epoch'[thread] \in {epoch[thread], epoch[thread] + 1} BY <1>11 DEF Goal
<1> QED BY <1>1, <1>12, LapsesStay DEF Quiet

LEMMA EpochStep ==
    ASSUME Base, ForegroundIsInline, EpochInv, [ServiceNext]_serviceVars
    PROVE  EpochInv'
<1> SUFFICES ASSUME epoch'[thread] = 0 PROVE OnlyBackground' BY DEF EpochInv
<1>1. OnlyBackground BY QuietStays DEF EpochInv
<1> SUFFICES ASSUME NEW d \in Inline PROVE submit'[d].at = "new" BY DEF OnlyBackground
<1>2. d \in Dispatch /\ submit[d].at = "new" BY <1>1, ServiceAssumption DEF OnlyBackground
<1>3. CASE SubmitStep(d)
  <2>1. SubmitInterrupts(d)
    BY <1>2, <1>3 DEF SubmitStep, SubmitClosesSuperseded, SubmitCancelsActive,
       SubmitRunWaitTimesOut, SubmitCancelsLive, SubmitWaitsForRelease, SubmitPreparesRun,
       SubmitEnqueues, SubmitClaims, SubmitLosesClaim, SubmitUndoes, SubmitReconciles,
       SubmitWakesWorker, SubmitIs, SubmitBegins
  <2>2. epoch'[thread] = epoch[thread] + 1
    BY <2>1, BaseStore, ThreadIsThread, InterruptCalm DEF SubmitInterrupts
  <2> QED BY <2>2, QuietStays
<1>4. CASE ~SubmitStep(d) BY <1>2, <1>4, OtherPlaces
<1> QED BY <1>3, <1>4

\* What the thread's claims are then: their leases are live, and who starts
\* or executes one, up to its end, holds it.
QuietClaims ==
    /\ \A d \in Dispatch : IsClaimed(d) => dispatches[d].lease = "live"
    /\ \A p \in starting : Current(p.claim)
    /\ \A e \in exec : e.at \notin Gone => Current(e.claim)
QuietInv == Quiet => QuietClaims

LEMMA NothingStale ==
    ASSUME Base, epoch[thread] = 0, NEW d \in Dispatch
    PROVE  ~IsStale(d)
<1>1. dispatches[d].epoch \in Nat BY BaseStore, Local DEF DispatchRecord
<1> QED BY <1>1, ThreadIsThread DEF IsStale, CurrentEpoch

\* A claim whose dispatch stays claimed stays the store's.
LEMMA CurrentKept ==
    ASSUME Base, CalmStore, NEW c \in ClaimId, Current(c), IsClaimed(c[1])'
    PROVE  Current(c)'
<1>1. c[1] \in Dispatch BY ClaimIsClaim
<1>2. dispatches'[c[1]].token = dispatches[c[1]].token BY <1>1, CalmClaimed, BaseStore
<1> QED BY <1>2 DEF Current, HasToken, IsClaimed, IsStored, StatusOf

LEMMA OneClaimADispatch ==
    ASSUME NEW b \in ClaimId, NEW c \in ClaimId, Current(b), Current(c), b[1] = c[1]
    PROVE  b = c
BY ClaimIsClaim DEF Current, HasToken

\* A calm step in which no time passes and no claim ends.
LEMMA QuietStands ==
    ASSUME Base, QuietClaims, CalmStore, TimelessStore, KeepsClaims,
           starting' \subseteq starting,
           \A g \in exec' : g.at \notin Gone =>
               \/ \E e \in exec : e.claim = g.claim /\ e.at \notin Gone
               \/ \E p \in starting : p.claim = g.claim
    PROVE  QuietClaims'
<1> USE TypedTasks
<1>1. ASSUME NEW c \in ClaimId, Current(c) PROVE Current(c)'
  <2>1. c[1] \in Dispatch /\ IsClaimed(c[1]) BY <1>1, ClaimIsClaim DEF Current
  <2>2. IsClaimed(c[1])' BY <2>1 DEF KeepsClaims, KeepsClaim, IsClaimed, StatusOf
  <2> QED BY <1>1, <2>2, CurrentKept
<1>2. ASSUME NEW d \in Dispatch, IsClaimed(d)' PROVE dispatches'[d].lease = "live"
  <2>1. IsClaimed(d) BY <1>2, CalmClaimed, BaseStore
  <2>2. dispatches'[d].lease \in {dispatches[d].lease, "live"}
    BY <1>2, <2>1 DEF TimelessStore, Timeless, IsClaimed, StatusOf
  <2> QED BY <2>1, <2>2 DEF QuietClaims
<1>3. \A p \in starting' : Current(p.claim)' BY <1>1 DEF QuietClaims
<1>4. ASSUME NEW g \in exec', g.at \notin Gone PROVE Current(g.claim)'
  <2>1. CASE \E e \in exec : e.claim = g.claim /\ e.at \notin Gone
    BY <1>1, <2>1 DEF QuietClaims
  <2>2. CASE \E p \in starting : p.claim = g.claim BY <1>1, <2>2 DEF QuietClaims
  <2> QED BY <1>4, <2>1, <2>2
<1> QED BY <1>2, <1>3, <1>4 DEF QuietClaims

\* What is won is new, and live.
LEMMA QuietWins ==
    ASSUME Base, StepShape, QuietClaims, exec' = exec,
           NEW s \in Server, NEW won, WinEffect(won), ClaimWon(s, won)
    PROVE  QuietClaims'
<1> USE TypedTasks
<1>1. PICK new : /\ new = {[claim |-> <<o, claims'[o]>>, on |-> s] : o \in won}
                 /\ starting' = starting \cup new
  BY WonIsTyped
<1>2. /\ won \subseteq Dispatch
      /\ \A o \in Dispatch \ won : dispatches'[o] = dispatches[o]
      /\ \A o \in won : /\ dispatches[o].status = "Queued"
                        /\ dispatches'[o].status = "Claimed" /\ dispatches'[o].lease = "live"
                        /\ dispatches'[o].token = claims'[o]
  BY DEF WinEffect
<1>3. ASSUME NEW c \in ClaimId, Current(c) PROVE Current(c)'
  <2>1. c[1] \in Dispatch /\ c[1] \notin won
    BY <1>2, <1>3, ClaimIsClaim DEF Current, IsClaimed, StatusOf
  <2>2. dispatches'[c[1]] = dispatches[c[1]] BY <1>2, <2>1
  <2> QED BY <1>3, <2>2 DEF Current, IsClaimed, HasToken, IsStored, StatusOf
<1>4. ASSUME NEW d \in Dispatch, IsClaimed(d)' PROVE dispatches'[d].lease = "live"
  <2>1. CASE d \in won BY <1>2, <2>1
  <2>2. CASE d \notin won
    BY <1>2, <1>4, <2>2 DEF QuietClaims, IsClaimed, StatusOf
  <2> QED BY <2>1, <2>2
<1>5. ASSUME NEW p \in starting' PROVE Current(p.claim)'
  <2>1. CASE p \in starting BY <1>3, <2>1 DEF QuietClaims
  <2>2. CASE p \in new
    <3>1. PICK o \in won : p = [claim |-> <<o, claims'[o]>>, on |-> s] BY <1>1, <2>2
    <3>2. p.claim[1] = o /\ p.claim[2] = claims'[o] BY <3>1
    <3> QED BY <1>2, <3>2 DEF Current, IsClaimed, HasToken, IsStored, StatusOf
  <2> QED BY <1>1, <2>1, <2>2
<1>6. \A g \in exec' : g.at \notin Gone => Current(g.claim)' BY <1>3 DEF QuietClaims
<1> QED BY <1>4, <1>5, <1>6 DEF QuietClaims

\* A holder's call by which it keeps its claim: nothing ends.
LEMMA HolderKeeps ==
    ASSUME Base, NEW c \in ClaimId, HolderCalm(c[1]), Current(c)'
    PROVE  KeepsClaims
<1>1. IsClaimed(c[1])' BY DEF Current
<1> SUFFICES ASSUME NEW o \in Dispatch PROVE KeepsClaim(dispatches[o], dispatches'[o])
  BY DEF KeepsClaims
<1>2. CASE o = c[1] BY <1>1, <1>2 DEF KeepsClaim, IsClaimed, StatusOf
<1>3. CASE o # c[1] BY <1>3 DEF HolderCalm, KeepsOthers
<1> QED BY <1>2, <1>3

\* An execution goes on: if its claim ends it was the only task of it.
LEMMA QuietMoves ==
    ASSUME Base, TaskInv, StepShape, QuietClaims, epoch[thread] = 0,
           NEW e \in exec, NEW f, Moves(e, f)
    PROVE  QuietClaims'
<1> USE TypedTasks
<1>1. /\ f.claim = e.claim /\ exec' = (exec \ {e}) \cup {f} /\ starting' = starting
      /\ HolderCalm(e.claim[1]) /\ CalmStore /\ TimelessStore
  BY DEF Moves, HolderCalm, taskVars
<1>2. e.claim \in ClaimId /\ e.claim[1] \in Dispatch BY ClaimIsClaim
<1>3. CASE e.at \in Gone
  <2>1. KeepsClaims BY <1>3, BaseStore, UnchangedIsCalm DEF Moves
  <2>2. f.at \in Gone BY <1>3 DEF Moves
  <2> QED BY <1>1, <2>1, <2>2, QuietStands
<1>4. CASE e.at \notin Gone /\ f.at \notin Gone
  <2>1. Current(e.claim) BY <1>4 DEF QuietClaims
  <2>2. Owns(e.claim[1], e.claim[2]) BY <1>2, <2>1, NothingStale DEF Owns, Current
  <2>3. Current(e.claim)' BY <1>4, <2>2 DEF Moves
  <2>4. KeepsClaims BY <1>1, <1>2, <2>3, HolderKeeps
  <2> QED BY <1>1, <1>4, <2>4, QuietStands
<1>5. CASE e.at \notin Gone /\ f.at \in Gone
  <2>1. Current(e.claim) BY <1>5 DEF QuietClaims
  <2>2. ASSUME NEW c \in ClaimId, Current(c), c # e.claim PROVE Current(c)'
    <3>1. c[1] \in Dispatch /\ c[1] # e.claim[1]
      BY <1>2, <2>1, <2>2, OneClaimADispatch, ClaimIsClaim
    <3>2. KeepsClaim(dispatches[c[1]], dispatches'[c[1]])
      BY <1>1, <3>1 DEF HolderCalm, KeepsOthers
    <3>3. IsClaimed(c[1])' BY <2>2, <3>2 DEF KeepsClaim, Current, IsClaimed, StatusOf
    <3> QED BY <1>1, <2>2, <3>3, CurrentKept
  <2>3. ASSUME NEW d \in Dispatch, IsClaimed(d)' PROVE dispatches'[d].lease = "live"
    <3>1. IsClaimed(d) BY <1>1, <2>3, CalmClaimed, BaseStore
    <3>2. dispatches'[d].lease \in {dispatches[d].lease, "live"}
      BY <1>1, <2>3, <3>1 DEF TimelessStore, Timeless, IsClaimed, StatusOf
    <3> QED BY <3>1, <3>2 DEF QuietClaims
  <2>4. ASSUME NEW p \in starting' PROVE Current(p.claim)'
    <3>1. p.claim # e.claim BY <1>1, <2>4 DEF TaskInv, Unique
    <3> QED BY <1>1, <2>2, <2>4, <3>1 DEF QuietClaims
  <2>5. ASSUME NEW g \in exec', g.at \notin Gone PROVE Current(g.claim)'
    <3>1. g \in exec /\ g # e BY <1>1, <1>5, <2>5
    <3>2. g.claim # e.claim BY <3>1 DEF TaskInv, Unique
    <3> QED BY <2>2, <2>5, <3>1, <3>2 DEF QuietClaims
  <2> QED BY <2>3, <2>4, <2>5 DEF QuietClaims
<1> QED BY <1>3, <1>4, <1>5

\* A renewal extends its lease or is refused; none finds its epoch passed.
LEMMA QuietRenews ==
    ASSUME Base, QuietClaims, epoch[thread] = 0, NEW p \in renewals, RenewLease(p)
    PROVE  QuietClaims'
<1> USE TypedTasks
<1>1. /\ p.claim \in ClaimId /\ Issued(p.claim)
      /\ HolderCalm(p.claim[1]) /\ starting' = starting /\ exec' = exec
  BY RenewShape
<1>2. /\ p.claim[1] \in Dispatch /\ p.claim = <<p.claim[1], p.claim[2]>>
      /\ p.claim[2] \in 1..claims[p.claim[1]]
  BY <1>1, ClaimIsClaim DEF Issued
<1>3. CalmStore /\ TimelessStore BY <1>1 DEF HolderCalm
<1>4. StoreCall(ExtendLease(p.claim[1], p.claim[2]), p.claim[1], p.claim[2])
  BY DEF RenewLease
<1>5. KeepsClaims
  <2>1. CASE Current(p.claim)
    <3>1. Owns(p.claim[1], p.claim[2]) BY <1>2, <2>1, NothingStale DEF Owns, Current
    <3>2. Current(<<p.claim[1], p.claim[2]>>)' BY <1>2, <1>4, <3>1, BaseStore, StayCalm
    <3>3. Current(p.claim)' BY <1>2, <3>2
    <3> QED BY <1>1, <3>3, HolderKeeps
  <2>2. CASE ~Current(p.claim)
    <3>1. UNCHANGED storeVars BY <1>4, <2>2 DEF StoreCall, Current
    <3> QED BY <3>1, BaseStore, UnchangedIsCalm
  <2> QED BY <2>1, <2>2
<1> QED BY <1>1, <1>3, <1>5, QuietStands

\* A lease that is renewed lapses only if a deadline is missed.
LEMMA QuietTime ==
    ASSUME Base, QuietClaims, \A d \in Dispatch : ~IsStale(d) /\ Renewed(d),
           lapses' = 0, NEW d \in Dispatch, TimePasses(d)
    PROVE  QuietClaims'
<1>1. /\ CalmStore /\ KeepsClaims /\ starting' = starting /\ exec' = exec
      /\ \A o \in Dispatch : o # d => dispatches'[o] = dispatches[o]
      /\ StatusOf(d)' = StatusOf(d)
  BY BaseStore, TimeCalm DEF TimePasses, taskVars
<1>2. lapses \in Nat BY RestOfBase DEF HostType
<1>3. ~LeaseLapses(d)
  <2> SUFFICES ASSUME IsClaimed(d) PROVE FALSE BY DEF LeaseLapses
  <2>1. \E p \in renewals : p.claim = <<d, dispatches[d].token>> BY DEF Renewed, Renews
  <2>2. lapses' = lapses + 1 BY <2>1 DEF TimePasses
  <2> QED BY <1>2, <2>2
<1>4. IsQueued(d) BY <1>3 DEF TimePasses, BecomesAvailable
<1>5. TimelessStore \/ ~IsClaimed(d)' BY <1>1, <1>4 DEF IsQueued, IsClaimed, StatusOf
<1>6. ASSUME NEW c \in ClaimId, Current(c) PROVE Current(c)'
  <2>1. c[1] \in Dispatch /\ c[1] # d
    BY <1>4, <1>6, ClaimIsClaim DEF Current, IsClaimed, IsQueued, StatusOf
  <2>2. dispatches'[c[1]] = dispatches[c[1]] BY <1>1, <2>1
  <2> QED BY <1>6, <2>2 DEF Current, IsClaimed, HasToken, IsStored, StatusOf
<1>7. ASSUME NEW o \in Dispatch, IsClaimed(o)' PROVE dispatches'[o].lease = "live"
  <2>1. o # d BY <1>1, <1>4, <1>7 DEF IsQueued, IsClaimed, StatusOf
  <2> QED BY <1>1, <1>7, <2>1 DEF QuietClaims, IsClaimed, StatusOf
<1> QED BY <1>1, <1>6, <1>7, TypedTasks DEF QuietClaims

LEMMA QuietStep ==
    ASSUME Base, TaskInv, StepShape, QuietClaims, \A d \in Dispatch : Renewed(d),
           epoch[thread] = 0, lapses' = 0, crashes' = 0
    PROVE  QuietClaims'
<1> DEFINE Goal == QuietClaims'
<1>1. ASSUME UNCHANGED storeVars, starting' \subseteq starting,
             \A g \in exec' : g.at \notin Gone =>
                 \/ \E e \in exec : e.claim = g.claim /\ e.at \notin Gone
                 \/ \E p \in starting : p.claim = g.claim
      PROVE  Goal
  BY <1>1, BaseStore, UnchangedIsCalm, QuietStands
<1>2. ASSUME Elsewhere PROVE Goal
  <2>1. ~ReclaimExpiredLeases
    <3>1. Expired = {} BY DEF QuietClaims, Expired
    <3> QED BY <3>1, BaseStore, ReclaimCalm
  <2> QED BY <1>2, <2>1, QuietStands DEF Elsewhere, taskVars
<1>3. ASSUME NEW d \in Dispatch, TimePasses(d) PROVE Goal BY <1>3, NothingStale, QuietTime
<1>4. ASSUME NEW d \in Dispatch, SubmitClaims(d) PROVE Goal
  <2>1. WinEffect({d}) /\ ClaimWon(HomeOf[d], {d}) /\ HomeOf[d] \in Server /\ exec' = exec
    BY <1>4, SubmitClaimsShape
  <2> QED BY <2>1, QuietWins
<1>5. ASSUME NEW s \in Server, ClaimNext(s) PROVE Goal
  <2>1. PICK won : WinEffect(won) /\ ClaimWon(s, won) /\ exec' = exec
    BY <1>5, ClaimNextShape
  <2> QED BY <2>1, QuietWins
<1>6. ASSUME NEW s \in Server, Tries(s) \/ RevertClaiming(s) PROVE Goal
  BY <1>1, <1>6 DEF Tries, RevertClaiming
<1>7. ASSUME NEW s \in Server, Crash(s) PROVE Goal
  <2>1. crashes' # 0 BY <1>7 DEF Crash, Base, HostType
  <2> QED BY <2>1
<1>8. ASSUME NEW p \in starting, StartExecution(p) PROVE Goal
  <2>1. PICK f : f.claim = p.claim /\ exec' = exec \cup {f} BY <1>8 DEF StartExecution
  <2>2. UNCHANGED storeVars /\ starting' \subseteq starting BY <1>8 DEF StartExecution
  <2> QED BY <1>1, <2>1, <2>2
<1>9. ASSUME NEW e \in exec, NEW f, Moves(e, f) PROVE Goal BY <1>9, QuietMoves
<1>10. ASSUME NEW e \in exec, ExecTriesNext(e) PROVE Goal
  BY <1>1, <1>10 DEF ExecTriesNext
<1>11. ASSUME NEW e \in exec, ExecReleasesWorker(e) PROVE Goal
  <2>1. PICK f : f.at = "next" /\ exec' = (exec \ {e}) \cup {f} BY <1>11, ReleaseIs
  <2>2. UNCHANGED storeVars /\ starting' = starting BY <1>11, ReleaseIs
  <2> QED BY <1>1, <2>1, <2>2 DEF Gone
<1>12. ASSUME NEW p \in renewals, RenewLease(p) PROVE Goal BY <1>12, QuietRenews
<1> HIDE DEF Goal
<1>13. Goal
  BY <1>2, <1>3, <1>4, <1>5, <1>6, <1>7, <1>8, <1>9, <1>10, <1>11, <1>12, Zenon DEF StepShape
<1> QED BY <1>13 DEF Goal

LEMMA QuietInvStep ==
    ServiceIInv /\ LockInv /\ RenewedInv /\ EpochInv /\ QuietInv
        /\ [ServiceNext]_serviceVars => EpochInv' /\ QuietInv'
<1> SUFFICES ASSUME ServiceIInv, LockInv, RenewedInv, EpochInv, QuietInv,
                    [ServiceNext]_serviceVars
             PROVE  EpochInv' /\ QuietInv'
  OBVIOUS
<1>1. Base /\ TaskInv /\ ForegroundIsInline BY DEF ServiceIInv, LockInv
<1>2. EpochInv' BY <1>1, EpochStep
<1>3. ASSUME Quiet' PROVE QuietClaims'
  <2>1. Quiet BY <1>1, <1>3, QuietStays
  <2>2. QuietClaims /\ epoch[thread] = 0 /\ lapses' = 0 /\ crashes' = 0
    BY <1>3, <2>1 DEF QuietInv, Quiet
  <2>3. \A d \in Dispatch : Renewed(d)
    BY <2>1 DEF EpochInv, Quiet, RenewedInv, OneByOne
  <2>4. StepShape BY <1>1, NextShape
  <2> QED BY <1>1, <2>2, <2>3, <2>4, QuietStep
<1> QED BY <1>2, <1>3 DEF QuietInv

LEMMA QuietInvHolds == ServiceSpec => [](ServiceIInv /\ LockInv /\ EpochInv /\ QuietInv)
<1>1. ServiceInit => EpochInv /\ QuietInv
  BY ServiceAssumption DEF ServiceInit, StoreInit, Blank, EpochInv, OnlyBackground, QuietInv,
     QuietClaims, IsClaimed, StatusOf
<1>2. ServiceIInv /\ LockInv /\ RenewedInv /\ EpochInv /\ QuietInv
          /\ [ServiceNext]_serviceVars => EpochInv' /\ QuietInv'
  BY QuietInvStep
<1> QED BY <1>1, <1>2, RenewedInvHolds, PTL DEF ServiceSpec

\* With no interrupt, missed deadline or crash, the servers together run at
\* most one run of the thread: a run holds its slot from its registration until
\* its end, and all that time its claim is the store's, which gives out one.
\* One that has lost its claim runs on until it is cancelled.
THEOREM SingleActiveRunHolds == ServiceSpec => [](Quiet => SingleActiveRun)
<1>1. ServiceIInv /\ QuietInv /\ OneClaimedPerThread => (Quiet => SingleActiveRun)
  <2> SUFFICES ASSUME ServiceIInv, QuietClaims, OneClaimedPerThread PROVE SingleActiveRun
    BY DEF QuietInv
  <2> DEFINE S == {s \in Server : active[s] # NoClaim}
  <2>1. ASSUME NEW s \in S, NEW r \in S PROVE s = r
    <3>1. PICK e \in exec : e.on = s /\ e.at \in Acting
      BY <2>1 DEF ServiceIInv, SlotInv, ActiveIsRun
    <3>2. PICK g \in exec : g.on = r /\ g.at \in Acting
      BY <2>1 DEF ServiceIInv, SlotInv, ActiveIsRun
    <3>3. Current(e.claim) /\ Current(g.claim)
      BY <3>1, <3>2 DEF QuietClaims, Acting, Gone
    <3>4. e.claim \in ClaimId /\ g.claim \in ClaimId BY TypedTasks DEF ServiceIInv
    <3>5. e.claim[1] = g.claim[1]
      BY <3>3, <3>4, ClaimIsClaim, ThreadIsThread DEF OneClaimedPerThread, Current
    <3>6. e.claim = g.claim BY <3>3, <3>4, <3>5, OneClaimADispatch
    <3>7. e = g BY <3>6 DEF ServiceIInv, TaskInv, Unique
    <3> QED BY <3>1, <3>2, <3>7
  <2>2. Cardinality(S) <= 1
    <3>1. CASE S = {} BY <3>1, FS_EmptySet
    <3>2. CASE \E s : S = {s} BY <3>2, FS_Singleton
    <3>3. S = {} \/ \E s : S = {s} BY <2>1
    <3> HIDE DEF S
    <3> QED BY <3>1, <3>2, <3>3
  <2> QED BY <2>2 DEF SingleActiveRun
<1> QED BY <1>1, QuietInvHolds, ServiceClaimsOne, PTL

-----------------------------------------------------------------------------
(* What an acked dispatch left: the run record is settled before the ack.  *)

RunSettled(d) == runs[RunOf[d]].by = <<d>> =>
                     runs[RunOf[d]].status \in Closed \cup {"Waiting"}
Nacked == {"Transient", "Permanent"}

\* No run is cancelled ...
Uncalled == Quiet /\ called = 0 /\ "AgentError" \notin Outcomes
NoneCancelled == calls = {} /\ cancelled = {}

\* ... and one that ended without an error left its record settled.
AckedInv ==
    Uncalled =>
        /\ NoneCancelled
        /\ \A e \in exec : e.at \in {"result", "settle"} =>
               e.outcome \in Nacked \/ RunSettled(e.claim[1])
        /\ \A d \in Dispatch : StatusOf(d) = "Acked" => RunSettled(d)

LEMMA CalledStays ==
    ASSUME Base, [ServiceNext]_serviceVars, called \in Nat
    PROVE  /\ called' \in Nat
           /\ called' = 0 => called = 0 /\ (calls = {} => calls' = {})
<1> DEFINE Goal == \/ called' = called /\ (calls = {} => calls' = {})
                   \/ called' = called + 1
<1>1. ASSUME called' = called, calls' = calls PROVE Goal BY <1>1
<1>2. ASSUME NEW d \in Dispatch, SubmitStep(d) PROVE Goal
  BY <1>1, <1>2 DEF SubmitStep, SubmitInterrupts, SubmitClosesSuperseded, SubmitCancelsActive,
     SubmitRunWaitTimesOut, SubmitCancelsLive, SubmitWaitsForRelease, SubmitPreparesRun,
     SubmitEnqueues, SubmitClaims, SubmitLosesClaim, SubmitUndoes, SubmitReconciles,
     SubmitWakesWorker, hostVars
<1>3. ASSUME NEW e \in exec, ExecStep(e) \/ RunStep(e) PROVE Goal
  BY <1>1, <1>3 DEF ExecStep, RunStep, RunCheckpoints, RunSuspends, RunResumes, RunEnds,
     SuspendedRunEnds, ExecLoads, ExecChecksEpoch, ExecSupersedes, ExecClosesSuperseded,
     ExecRecordsStart, ExecRefused, ExecRegisters, ExecRecordsResult, ExecSettles,
     ExecClosesDeadLetter, ExecReleasesWorker, ExecTriesNext, OnlyExec, hostVars
<1>4. ASSUME NEW s \in Server, ServerStep(s) PROVE Goal
  BY <1>1, <1>4 DEF ServerStep, ClaimNext, RevertClaiming, SweepStep, SweepReclaims,
     SweepReconcilesReclaimed, SweepWakesWorker, SweepReconciles, RecoverStep,
     RecoverReclaims, RecoverWakesQueued, RecoverListsPrepared, RecoverLoads,
     RecoverEnqueues, RecoverEnds, hostVars
<1>5. ASSUME NEW c \in calls, CallStep(c) PROVE Goal
  BY <1>5 DEF CallStep, CallClosesRun, CallCancelsActive, hostVars
<1>6. ASSUME NEW s \in Server, ApiInterrupts(s) \/ \E d \in Dispatch : ApiCancelsDispatch(s, d)
      PROVE  Goal
  BY <1>6 DEF ApiInterrupts, ApiCancelsDispatch, CallBegins
<1>7. ASSUME NEW s \in Server, Crash(s) PROVE Goal BY <1>7 DEF Crash
<1>8. ASSUME \/ \E p \in starting : StartExecution(p)
             \/ \E p \in renewals : RenewLease(p)
             \/ \E d \in Dispatch : TimePasses(d)
             \/ \E s \in Server : Restart(s)
      PROVE  Goal
  BY <1>1, <1>8 DEF StartExecution, RenewLease, TimePasses, Restart, hostVars
<1>9. ASSUME UNCHANGED serviceVars PROVE Goal BY <1>1, <1>9 DEF serviceVars, hostVars
<1> HIDE DEF Goal
<1>10. ASSUME ServiceNext PROVE Goal
  BY <1>2, <1>3, <1>4, <1>5, <1>6, <1>7, <1>8, <1>10, Zenon DEF ServiceNext
<1>11. Goal BY <1>9, <1>10
<1> QED BY <1>11 DEF Goal

\* Then nobody asks for a cancellation, and no renewal is refused whose run is
\* active.
LEMMA CancelledStays ==
    ASSUME ServiceIInv, LockInv, QuietClaims, OnlyBackground, epoch[thread] = 0,
           NoneCancelled, [ServiceNext]_serviceVars
    PROVE  cancelled' = {}
<1> DEFINE Goal == cancelled' = {}
<1>0. Base /\ TaskInv /\ SlotInv /\ ForegroundIsInline /\ WorkerLocks
  BY DEF ServiceIInv, LockInv
<1>1. ASSUME cancelled' \subseteq cancelled PROVE Goal BY <1>1 DEF NoneCancelled
<1>2. ASSUME NEW d \in Dispatch, SubmitStep(d) PROVE Goal
  <2>1. submit[d].at \notin Foreground
    BY <1>0 DEF ForegroundIsInline, OnlyBackground, Foreground
  <2> QED BY <1>1, <1>2, <2>1 DEF SubmitStep, SubmitInterrupts, SubmitClosesSuperseded,
     SubmitCancelsActive, SubmitRunWaitTimesOut, SubmitCancelsLive, SubmitWaitsForRelease,
     SubmitPreparesRun, SubmitEnqueues, SubmitClaims, SubmitLosesClaim, SubmitUndoes,
     SubmitReconciles, SubmitWakesWorker, SubmitIs, Foreground, runtimeVars
<1>3. ASSUME NEW e \in exec, ExecStep(e) \/ RunStep(e) PROVE Goal
  BY <1>1, <1>3 DEF ExecStep, RunStep, RunCheckpoints, RunSuspends, RunResumes, RunEnds,
     SuspendedRunEnds, ExecLoads, ExecChecksEpoch, ExecSupersedes, ExecClosesSuperseded,
     ExecRecordsStart, ExecRefused, ExecRegisters, ExecRecordsResult, ExecSettles,
     ExecClosesDeadLetter, ExecReleasesWorker, ExecTriesNext, OnlyExec, RunFreesSlot,
     runtimeVars
<1>4. ASSUME NEW s \in Server, ServerStep(s) PROVE Goal
  BY <1>1, <1>4 DEF ServerStep, ClaimNext, RevertClaiming, SweepStep, SweepReclaims,
     SweepReconcilesReclaimed, SweepWakesWorker, SweepReconciles, RecoverStep,
     RecoverReclaims, RecoverWakesQueued, RecoverListsPrepared, RecoverLoads,
     RecoverEnqueues, RecoverEnds, runtimeVars
<1>5. ASSUME NEW p \in renewals, RenewLease(p) PROVE Goal
  <2>1. CASE cancelled' = cancelled BY <1>1, <2>1
  <2>2. CASE ~Owns(p.claim[1], p.claim[2]) /\ active[p.on] # NoClaim
    <3>1. p.on \in Server /\ p.claim \in ClaimId BY <1>0, TypedTasks
    <3>2. PICK e \in exec : e.on = p.on /\ e.claim = active[p.on] /\ e.at \in Acting
      BY <1>0, <2>2, <3>1 DEF SlotInv, ActiveIsRun
    <3>3. e.at \notin Gone /\ e.at # "next" BY <3>2 DEF Acting, Gone
    <3>4. worker[p.on] = RunningClaim(e.claim) /\ WorkerLock(p.on)
      BY <1>0, <3>1, <3>2, <3>3 DEF WorkerLocks, WorkerLock
    <3>5. p \notin starting
      BY <3>4, RunningIs DEF WorkerLock, Waits
    <3>6. worker[p.on] = RunningClaim(p.claim) BY <3>4, <3>5 DEF WorkerLock
    <3>7. e.claim = p.claim BY <3>4, <3>6, RunningIs
    <3>8. Current(p.claim) BY <3>3, <3>7 DEF QuietClaims
    <3>9. Owns(p.claim[1], p.claim[2])
      BY <1>0, <3>1, <3>8, NothingStale, ClaimIsClaim DEF Owns, Current
    <3> QED BY <2>2, <3>9
  <2>3. \/ cancelled' = cancelled
        \/ ~Owns(p.claim[1], p.claim[2]) /\ active[p.on] # NoClaim
    BY <1>5 DEF RenewLease, CancelActiveOn
  <2> QED BY <2>1, <2>2, <2>3
<1>6. ASSUME NEW c \in calls, CallStep(c) PROVE Goal BY <1>6 DEF NoneCancelled
<1>7. ASSUME \/ \E p \in starting : StartExecution(p)
             \/ \E d \in Dispatch : TimePasses(d)
             \/ \E s \in Server : \/ Crash(s) \/ Restart(s) \/ ApiInterrupts(s)
                                  \/ \E d \in Dispatch : ApiCancelsDispatch(s, d)
      PROVE  Goal
  BY <1>1, <1>7 DEF StartExecution, TimePasses, Restart, Crash, ApiInterrupts,
     ApiCancelsDispatch, CallBegins, runtimeVars
<1>8. ASSUME UNCHANGED serviceVars PROVE Goal BY <1>1, <1>8 DEF serviceVars, runtimeVars
<1> HIDE DEF Goal
<1>9. ASSUME ServiceNext PROVE Goal
  BY <1>2, <1>3, <1>4, <1>5, <1>6, <1>7, <1>9, Zenon DEF ServiceNext
<1>10. Goal BY <1>8, <1>9
<1> QED BY <1>10 DEF Goal

\* A run record that is settled stays so while nobody executes the run.
LEMMA SettledStands ==
    ASSUME Base, TraceInv, [ServiceNext]_serviceVars, NEW d \in Dispatch, IsStored(d),
           RunSettled(d), \A e \in exec : e.claim[1] = d => e.at # "running"
    PROVE  RunSettled(d)'
<1>0. runs \in [Run -> RunRecord] /\ \A o \in Dispatch : RunOf[o] \in Run
  BY RestOfBase, ServiceAssumption
<1>1. runs' = runs => RunSettled(d)' BY DEF RunSettled
<1>2. ASSUME NEW o \in Dispatch, NEW st, Writes(o, st) PROVE RunSettled(d)'
  <2>1. runs' = [runs EXCEPT ![RunOf[o]] = [status |-> st, by |-> <<o>>]]
    BY <1>2 DEF Writes, RunWritten
  <2>2. CASE RunOf[o] # RunOf[d] BY <1>0, <2>1, <2>2 DEF RunSettled
  <2>3. CASE RunOf[o] = RunOf[d]
    <3>1. runs'[RunOf[d]].by = <<o>> /\ runs'[RunOf[d]].status = st BY <1>0, <2>1, <2>3
    <3>2. CASE o # d BY <3>1, <3>2 DEF RunSettled
    <3>3. CASE o = d
      <4>1. ~SubmitPreparesRun(d)
        BY PreparesIs DEF TraceInv, SubmitTraces, SubmitTrace, Unprepared, Untouched
      <4>2. \A e \in exec : e.claim[1] = d => ~RunCheckpoints(e)
        BY DEF RunCheckpoints, ExecIs
      <4>3. st \in Closed \cup {"Waiting"} BY <1>2, <3>3, <4>1, <4>2 DEF Writes
      <4> QED BY <3>1, <4>3 DEF RunSettled
    <3> QED BY <3>2, <3>3
  <2> QED BY <2>2, <2>3
<1> QED BY <1>1, <1>2, StepWrites DEF TraceInv

\* Only ExecSettles acks, with the outcome of a run that did not fail.
LEMMA AckedBy ==
    ASSUME Base, StepShape, NEW d \in Dispatch, StatusOf(d)' = "Acked", StatusOf(d) # "Acked"
    PROVE  \E e \in exec : ExecSettles(e) /\ e.claim[1] = d /\ e.outcome \notin Nacked
<1> DEFINE Goal == \E e \in exec : /\ ExecSettles(e) /\ e.claim[1] = d
                                   /\ e.outcome \notin Nacked
<1>1. ASSUME AcksNone PROVE Goal BY <1>1 DEF AcksNone, AcksNothing, StatusOf
<1>2. ASSUME UNCHANGED storeVars PROVE Goal
  BY <1>1, <1>2, BaseStore, UnchangedIsCalm
<1>3. ASSUME Elsewhere PROVE Goal BY <1>1, <1>3 DEF Elsewhere
<1>4. ASSUME NEW o \in Dispatch, TimePasses(o) PROVE Goal
  BY <1>1, <1>4, BaseStore, TimeCalm DEF TimePasses
<1>5. ASSUME NEW won, WinEffect(won) PROVE Goal BY <1>5 DEF WinEffect, StatusOf
<1>6. ASSUME NEW o \in Dispatch, SubmitClaims(o) PROVE Goal BY <1>5, <1>6, SubmitClaimsShape
<1>7. ASSUME NEW s \in Server, ClaimNext(s) PROVE Goal BY <1>5, <1>7, ClaimNextShape
<1>8. ASSUME NEW s \in Server, Tries(s) \/ RevertClaiming(s) \/ Crash(s) PROVE Goal
  BY <1>2, <1>8 DEF Tries, RevertClaiming, Crash
<1>9. ASSUME NEW p \in starting, StartExecution(p) PROVE Goal
  BY <1>2, <1>9 DEF StartExecution
<1>10. ASSUME NEW e \in exec, NEW f, Moves(e, f) PROVE Goal
  <2>1. CASE ExecSettles(e) /\ ~AcksNone
    <3>1. /\ e.claim[1] \in Dispatch /\ e.claim[2] \in 1..claims[e.claim[1]]
      BY ExecIsTyped
    <3>2. StoreCall(Settled(e.outcome, e.claim[1], e.claim[2]), e.claim[1], e.claim[2])
      BY <2>1 DEF ExecSettles
    <3>3. HolderCalm(e.claim[1]) /\ e.outcome \notin Nacked
      BY <2>1, <3>1, <3>2, BaseStore, LeaveCalm DEF Nacked
    <3>4. e.claim[1] = d BY <3>3 DEF HolderCalm, StatusOf
    <3> QED BY <2>1, <3>3, <3>4
  <2> QED BY <1>1, <1>10, <2>1 DEF Moves
<1>11. ASSUME NEW e \in exec, ExecReleasesWorker(e) \/ ExecTriesNext(e) PROVE Goal
  BY <1>2, <1>11 DEF ExecReleasesWorker, ExecTriesNext
<1>12. ASSUME NEW p \in renewals, RenewLease(p) PROVE Goal BY <1>1, <1>12, RenewShape
<1> HIDE DEF Goal
<1>13. Goal
  BY <1>3, <1>4, <1>6, <1>7, <1>8, <1>9, <1>10, <1>11, <1>12, Zenon DEF StepShape
<1> QED BY <1>13 DEF Goal

\* An execution comes to its result with an error, or by the end of its run,
\* which leaves the run record settled if it is not an error.
LEMMA EndsSettled ==
    ASSUME Base, NEW e \in exec, ExecStep(e) \/ RunStep(e), cancelled = {},
           "AgentError" \notin Outcomes,
           NEW g \in exec', g \notin exec, g.at \in {"result", "settle"}
    PROVE  /\ g.claim = e.claim
           /\ \/ g.outcome \in Nacked \/ RunSettled(g.claim[1])'
              \/ e.at = "result" /\ g.outcome = e.outcome /\ runs' = runs
<1> DEFINE Goal == /\ g.claim = e.claim
                   /\ \/ g.outcome \in Nacked \/ RunSettled(g.claim[1])'
                      \/ e.at = "result" /\ g.outcome = e.outcome /\ runs' = runs
<1>0. e.claim[1] \in Dispatch /\ e.on \in Server BY ExecIsTyped
<1>1. ASSUME exec' \subseteq exec PROVE Goal BY <1>1
<1>2. ASSUME NEW at \in ExecPlace \ {"result", "settle"}, ExecAt(e, at) PROVE Goal
  BY <1>2, ExecAtIs
<1>3. ASSUME ExecEnds(e, "Permanent") PROVE Goal
  <2>1. "Permanent" \in Outcome BY DEF Outcome
  <2>2. PICK f : /\ f.claim = e.claim /\ f.outcome = "Permanent"
                 /\ exec' = (exec \ {e}) \cup {f}
    BY <1>3, <2>1, ExecEndsIs
  <2> QED BY <2>2 DEF Nacked
<1>4. ASSUME ExecRecordsResult(e) PROVE Goal
  <2>1. ExecAt(e, "settle") /\ e.at = "result" /\ runs' = runs
    BY <1>4 DEF ExecRecordsResult, ExecIs
  <2>2. PICK f : /\ f.claim = e.claim /\ f.outcome = e.outcome
                 /\ exec' = (exec \ {e}) \cup {f}
    BY <2>1, ExecAtIs DEF ExecPlace
  <2> QED BY <2>1, <2>2
<1>5. ASSUME RunEnds(e) PROVE Goal
  <2>1. PICK outcome \in Outcomes : ExecEnds(e, outcome) /\ LeavesRecord(e, outcome)
    BY <1>5 DEF RunEnds, RunOutcomes
  <2>2. PICK f : /\ f.claim = e.claim /\ f.outcome = outcome
                 /\ exec' = (exec \ {e}) \cup {f}
    BY <2>1, ExecEndsIs DEF Outcome
  <2>3. g.claim = e.claim /\ g.outcome = outcome BY <2>2
  <2>4. CASE outcome \in {"Finished", "AwaitsTasks", "Suspended"}
    <3>1. runs' = RunWritten(e.claim[1], FinalStatus[outcome])
      BY <2>1, <2>4 DEF LeavesRecord
    <3>2. FinalStatus[outcome] \in Closed \cup {"Waiting"}
      BY <2>4 DEF FinalStatus, Closed
    <3>3. runs \in [Run -> RunRecord] /\ RunOf[e.claim[1]] \in Run
      BY <1>0, RestOfBase, ServiceAssumption
    <3>4. runs'[RunOf[e.claim[1]]].status = FinalStatus[outcome]
      BY <3>1, <3>3 DEF RunWritten
    <3>5. RunSettled(e.claim[1])' BY <3>2, <3>4 DEF RunSettled
    <3> QED BY <2>3, <3>5
  <2>5. CASE outcome \notin {"Finished", "AwaitsTasks", "Suspended"}
    <3>1. outcome \in Nacked BY <2>5, ServiceAssumption DEF Nacked
    <3> QED BY <2>3, <3>1
  <2> QED BY <2>4, <2>5
<1>6. ASSUME SuspendedRunEnds(e) PROVE Goal BY <1>6 DEF SuspendedRunEnds
<1>7. ASSUME ExecRegisters(e) PROVE Goal
  BY <1>2, <1>3, <1>7 DEF ExecRegisters, ExecPlace
<1>8. ASSUME ExecRecordsStart(e) PROVE Goal
  BY <1>2, <1>3, <1>8 DEF ExecRecordsStart, ExecPlace
<1>9. ASSUME RunCheckpoints(e) \/ ExecTriesNext(e) PROVE Goal
  BY <1>1, <1>9 DEF RunCheckpoints, ExecTriesNext
<1>10. ASSUME \/ ExecLoads(e) \/ ExecChecksEpoch(e) \/ ExecSupersedes(e)
              \/ ExecClosesSuperseded(e) \/ ExecRefused(e) \/ ExecSettles(e)
              \/ ExecClosesDeadLetter(e) \/ ExecReleasesWorker(e) \/ RunSuspends(e)
              \/ RunResumes(e)
       PROVE  Goal
  <2>1. \E at \in ExecPlace \ {"result", "settle"} : ExecAt(e, at)
    BY <1>10 DEF ExecLoads, ExecChecksEpoch, ExecSupersedes, ExecClosesSuperseded,
       ExecRefused, ExecSettles, ExecClosesDeadLetter, ExecReleasesWorker, RunSuspends,
       RunResumes, ExecPlace
  <2> QED BY <1>2, <2>1
<1> HIDE DEF Goal
<1>11. Goal
  BY <1>4, <1>5, <1>6, <1>7, <1>8, <1>9, <1>10, Zenon DEF ExecStep, RunStep
<1> QED BY <1>11 DEF Goal

\* Who else brings an execution about, it is at its beginning.
LEMMA OthersBegin ==
    ASSUME [ServiceNext]_serviceVars, \A e \in exec : ~ExecStep(e) /\ ~RunStep(e),
           NEW g \in exec', g \notin exec
    PROVE  g.at = "load"
<1> DEFINE Goal == g.at = "load"
<1>1. ASSUME exec' \subseteq exec PROVE Goal BY <1>1
<1>2. ASSUME NEW d \in Dispatch, SubmitStep(d) PROVE Goal
  BY <1>1, <1>2 DEF SubmitStep, SubmitInterrupts, SubmitClosesSuperseded, SubmitCancelsActive,
     SubmitRunWaitTimesOut, SubmitCancelsLive, SubmitWaitsForRelease, SubmitPreparesRun,
     SubmitEnqueues, SubmitClaims, SubmitLosesClaim, SubmitUndoes, SubmitReconciles,
     SubmitWakesWorker
<1>3. ASSUME NEW s \in Server, ServerStep(s) PROVE Goal
  BY <1>1, <1>3 DEF ServerStep, ClaimNext, RevertClaiming, SweepStep, SweepReclaims,
     SweepReconcilesReclaimed, SweepWakesWorker, SweepReconciles, RecoverStep,
     RecoverReclaims, RecoverWakesQueued, RecoverListsPrepared, RecoverLoads,
     RecoverEnqueues, RecoverEnds
<1>4. ASSUME NEW p \in starting, StartExecution(p) PROVE Goal BY <1>4 DEF StartExecution
<1>5. ASSUME \/ \E p \in renewals : RenewLease(p)
             \/ \E d \in Dispatch : TimePasses(d)
             \/ \E c \in calls : CallStep(c)
             \/ \E s \in Server : \/ Crash(s) \/ Restart(s) \/ ApiInterrupts(s)
                                  \/ \E d \in Dispatch : ApiCancelsDispatch(s, d)
      PROVE  Goal
  BY <1>1, <1>5 DEF RenewLease, TimePasses, CallStep, CallClosesRun, CallCancelsActive,
     Crash, Restart, ApiInterrupts, ApiCancelsDispatch, CallBegins
<1>6. ASSUME UNCHANGED serviceVars PROVE Goal BY <1>1, <1>6 DEF serviceVars
<1> HIDE DEF Goal
<1>7. ASSUME ServiceNext PROVE Goal
  BY <1>2, <1>3, <1>4, <1>5, <1>7, Zenon DEF ServiceNext
<1>8. Goal BY <1>6, <1>7
<1> QED BY <1>8 DEF Goal

LEMMA AckedInvStep ==
    ServiceIInv /\ LockInv /\ EpochInv /\ QuietInv /\ TraceInv /\ called \in Nat
        /\ AckedInv /\ [ServiceNext]_serviceVars => AckedInv'
<1> SUFFICES ASSUME ServiceIInv, LockInv, EpochInv, QuietInv, TraceInv, called \in Nat,
                    AckedInv, [ServiceNext]_serviceVars, Uncalled'
             PROVE  /\ NoneCancelled'
                    /\ \A e \in exec' : e.at \in {"result", "settle"} =>
                           e.outcome \in Nacked \/ RunSettled(e.claim[1])'
                    /\ \A d \in Dispatch : StatusOf(d)' = "Acked" => RunSettled(d)'
  BY DEF AckedInv
<1>1. Base /\ TaskInv BY DEF ServiceIInv
<1>2. Uncalled /\ (calls = {} => calls' = {})
  BY <1>1, QuietStays, CalledStays DEF Uncalled
<1>3. QuietClaims /\ OnlyBackground /\ epoch[thread] = 0 /\ NoneCancelled
  BY <1>2 DEF Uncalled, Quiet, QuietInv, EpochInv, AckedInv
<1>4. NoneCancelled' BY <1>2, <1>3, CancelledStays DEF NoneCancelled
<1>5. ASSUME NEW g \in exec, g.at \in {"result", "settle"}, RunSettled(g.claim[1])
      PROVE  RunSettled(g.claim[1])'
  <2>1. g.claim[1] \in Dispatch /\ g.claim \in ClaimId /\ IsStored(g.claim[1])
    BY <1>1, ExecIsTyped, ExecIsStored
  <2>2. ASSUME NEW e \in exec, e.claim[1] = g.claim[1], e.at = "running" PROVE FALSE
    <3>1. Current(e.claim) /\ Current(g.claim) BY <1>3, <1>5, <2>2 DEF QuietClaims, Gone
    <3>2. e.claim = g.claim BY <1>1, <2>1, <2>2, <3>1, ExecIsTyped, OneClaimADispatch
    <3>3. e = g BY <1>1, <3>2 DEF TaskInv, Unique
    <3> QED BY <1>5, <2>2, <3>3
  <2> QED BY <1>1, <1>5, <2>1, <2>2, SettledStands
<1>6. ASSUME NEW d \in Dispatch, StatusOf(d) = "Acked" PROVE RunSettled(d)'
  <2>1. RunSettled(d) BY <1>2, <1>6 DEF AckedInv
  <2>2. IsStored(d) BY <1>6 DEF IsStored
  <2>3. ASSUME NEW e \in exec, e.claim[1] = d, e.at = "running" PROVE FALSE
    BY <1>3, <1>6, <2>3 DEF QuietClaims, Gone, Current, IsClaimed
  <2> QED BY <1>1, <2>1, <2>2, <2>3, SettledStands
<1>7. ASSUME NEW g \in exec', g.at \in {"result", "settle"}
      PROVE  g.outcome \in Nacked \/ RunSettled(g.claim[1])'
  <2>1. CASE g \in exec BY <1>2, <1>5, <1>7, <2>1 DEF AckedInv
  <2>2. CASE g \notin exec /\ \A e \in exec : ~ExecStep(e) /\ ~RunStep(e)
    BY <1>7, <2>2, OthersBegin
  <2>3. ASSUME g \notin exec, NEW e \in exec, ExecStep(e) \/ RunStep(e)
        PROVE  g.outcome \in Nacked \/ RunSettled(g.claim[1])'
    <3>1. /\ g.claim = e.claim
          /\ \/ g.outcome \in Nacked \/ RunSettled(g.claim[1])'
             \/ e.at = "result" /\ g.outcome = e.outcome /\ runs' = runs
      BY <1>1, <1>2, <1>3, <1>7, <2>3, EndsSettled DEF Uncalled, NoneCancelled
    <3>2. e.at = "result" => e.outcome \in Nacked \/ RunSettled(e.claim[1])
      BY <1>2 DEF AckedInv
    <3>3. e.at = "result" /\ RunSettled(e.claim[1]) => RunSettled(e.claim[1])' BY <1>5
    <3> QED BY <3>1, <3>2, <3>3
  <2> QED BY <2>1, <2>2, <2>3
<1>8. ASSUME NEW d \in Dispatch, StatusOf(d)' = "Acked", StatusOf(d) # "Acked"
      PROVE  RunSettled(d)'
  <2>1. PICK e \in exec : ExecSettles(e) /\ e.claim[1] = d /\ e.outcome \notin Nacked
    BY <1>1, <1>8, NextShape, AckedBy
  <2>2. e.at = "settle" BY <2>1 DEF ExecSettles, ExecIs
  <2>3. RunSettled(d) BY <1>2, <2>1, <2>2 DEF AckedInv
  <2> QED BY <1>5, <2>1, <2>2, <2>3
<1> QED BY <1>4, <1>6, <1>7, <1>8

\* With no interrupt, cancellation, missed deadline or crash, and no failure in
\* the agent itself, the run of an acked dispatch ended or waits for input: its
\* last checkpoint was written before the ack, and nothing reopens the record.
\* An agent's failure is acked with its run open, and so is a cancelled run that
\* wrote no checkpoint.
THEOREM AckedRunIsSettledHolds == ServiceSpec => [](Uncalled => AckedRunIsSettled)
<1> DEFINE IInv == called \in Nat /\ AckedInv
<1>1. ServiceInit => IInv
  BY DEF ServiceInit, StoreInit, Blank, AckedInv, NoneCancelled, StatusOf
<1>2. ServiceIInv /\ LockInv /\ EpochInv /\ QuietInv /\ TraceInv /\ IInv
          /\ [ServiceNext]_serviceVars => IInv'
  BY AckedInvStep, CalledStays DEF ServiceIInv
<1>3. IInv => (Uncalled => AckedRunIsSettled)
  BY DEF AckedInv, AckedRunIsSettled, RunSettled
<1> HIDE DEF IInv
<1> QED BY <1>1, <1>2, <1>3, QuietInvHolds, TraceInvHolds, PTL DEF ServiceSpec

=============================================================================
