------------------------- MODULE MailboxStoreProofs -------------------------
(***************************************************************************)
(* Proofs about MailboxStore, for any number of dispatches, threads and    *)
(* callers, any max_attempts and any claim limit (limit 1 where one claim  *)
(* per thread is concerned).                                               *)
(*                                                                         *)
(* The inductive invariant StoreIInv is local to a record: every action    *)
(* but the thread-wide ones rewrites one record, so the proof has one      *)
(* lemma per transition of the record, and one lemma per store action      *)
(* that cites it.                                                          *)
(***************************************************************************)
EXTENDS MailboxStore, FiniteSetTheorems, TLAPS

\* What the record lemmas expand.
USE DEF Terminal, Active, Stored, Status, NoRun, NoToken, RunStatus

-----------------------------------------------------------------------------
(* The transitions of a record.                                            *)

LEMMA BlankType ==
    /\ Blank("Absent") \in DispatchRecord
    /\ Blank("Purged") \in DispatchRecord
    /\ \A e \in Nat, available \in BOOLEAN :
          PrepareForEnqueue(e, available) \in DispatchRecord
<1>1. 0 \in Nat /\ 0 \in 0..MaxAttempts
  BY MaxAttemptsAssumption, SMT
<1> QED BY <1>1, Zenon DEF Blank, PrepareForEnqueue, DispatchRecord

\* Every transition keeps the type of the record.
LEMMA TransitionType ==
    ASSUME NEW r \in DispatchRecord, NEW n \in Nat
    PROVE  /\ ClaimedWith(r, n) \in DispatchRecord
           /\ LeaseExtended(r) \in DispatchRecord
           /\ DispatchStarted(r) \in DispatchRecord
           /\ \A result \in RunStatus :
                 RunResultRecorded(r, result) \in DispatchRecord
           /\ MarkAcked(r) \in DispatchRecord
           /\ MarkCancelled(r) \in DispatchRecord
           /\ MarkSuperseded(r) \in DispatchRecord
           /\ MarkSupersededAtEpoch(r, n) \in DispatchRecord
           /\ MarkDeadLetter(r) \in DispatchRecord
<1>1. 0 \in Nat OBVIOUS
<1>2. /\ ClaimedWith(r, n) \in DispatchRecord
      /\ LeaseExtended(r) \in DispatchRecord
      /\ DispatchStarted(r) \in DispatchRecord
  BY Zenon DEF DispatchRecord, ClaimedWith, LeaseExtended, DispatchStarted
<1>3. ASSUME NEW result \in RunStatus
      PROVE  RunResultRecorded(r, result) \in DispatchRecord
  BY Zenon DEF DispatchRecord, RunResultRecorded
<1>4. /\ MarkAcked(r) \in DispatchRecord
      /\ MarkCancelled(r) \in DispatchRecord
      /\ MarkDeadLetter(r) \in DispatchRecord
  BY <1>1, Zenon
     DEF DispatchRecord, MarkAcked, MarkCancelled, MarkDeadLetter,
         ClearClaimFields
<1>5. /\ MarkSuperseded(r) \in DispatchRecord
      /\ MarkSupersededAtEpoch(r, n) \in DispatchRecord
  BY <1>1, Zenon
     DEF DispatchRecord, MarkSuperseded, MarkSupersededAtEpoch,
         ClearClaimFields, ClearRuntimeProjection
<1> QED BY <1>2, <1>3, <1>4, <1>5

LEMMA RetryType ==
    ASSUME NEW r \in DispatchRecord, r.attempts < MaxAttempts
    PROVE  /\ \A available \in BOOLEAN :
                 MarkNackResult(r, available) \in DispatchRecord
           /\ MarkExpiredLease(r) \in DispatchRecord
<1>1. 0 \in Nat /\ r.attempts + 1 \in 0..MaxAttempts
  BY MaxAttemptsAssumption, SMT DEF DispatchRecord
<1>2. ASSUME NEW available \in BOOLEAN
      PROVE  MarkNackResult(r, available) \in DispatchRecord
  BY <1>1, Zenon
     DEF DispatchRecord, MarkNackResult, ClearClaimFields,
         ClearRuntimeProjection
<1>3. MarkExpiredLease(r) \in DispatchRecord
  BY <1>1, Zenon
     DEF DispatchRecord, MarkExpiredLease, ClearClaimFields,
         ClearRuntimeProjection
<1> QED BY <1>2, <1>3

LEMMA EnqueuedOK ==
    ASSUME NEW e \in Nat, NEW available \in BOOLEAN
    PROVE  RecordOK(PrepareForEnqueue(e, available), e, 0, FALSE)
<1>1. PrepareForEnqueue(e, available) \in DispatchRecord
  BY BlankType
<1> QED
  BY <1>1, MaxAttemptsAssumption, SMT
     DEF RecordOK, PrepareForEnqueue, Blank, ValidForPersist

LEMMA BlankOK ==
    ASSUME NEW e \in Nat, NEW c \in 0..MaxAttempts, NEW f \in BOOLEAN
    PROVE  /\ RecordOK(Blank("Absent"), e, 0, FALSE)
           /\ RecordOK(Blank("Purged"), e, c, f)
BY BlankType, MaxAttemptsAssumption, SMT
   DEF RecordOK, Blank, ValidForPersist

LEMMA ClaimedOK ==
    ASSUME NEW r, NEW e \in Nat, NEW c \in Nat, NEW f \in BOOLEAN,
           RecordOK(r, e, c, f), r.status = "Queued"
    PROVE  RecordOK(ClaimedWith(r, c + 1), e, c + 1, f)
<1>1. r \in DispatchRecord /\ ClaimedWith(r, c + 1) \in DispatchRecord
  BY TransitionType DEF RecordOK
<1> QED
  BY <1>1, MaxAttemptsAssumption, SMT
     DEF RecordOK, ClaimedWith, DispatchRecord, ValidForPersist

LEMMA SupersededOK ==
    ASSUME NEW r, NEW e \in Nat, NEW c \in Nat, NEW f \in BOOLEAN,
           RecordOK(r, e, c, f), r.status \in Active
    PROVE  /\ RecordOK(MarkSupersededAtEpoch(r, e), e, c, f)
           /\ RecordOK(MarkSuperseded(r), e, c, f)
<1>1. /\ r \in DispatchRecord
      /\ MarkSupersededAtEpoch(r, e) \in DispatchRecord
      /\ MarkSuperseded(r) \in DispatchRecord
  BY TransitionType DEF RecordOK
<1> QED
  BY <1>1, MaxAttemptsAssumption, SMT
     DEF RecordOK, MarkSuperseded, MarkSupersededAtEpoch, DispatchRecord,
         ValidForPersist, ClearClaimFields, ClearRuntimeProjection

LEMMA CancelledOK ==
    ASSUME NEW r, NEW e \in Nat, NEW c \in Nat, NEW f \in BOOLEAN,
           RecordOK(r, e, c, f), r.status = "Queued"
    PROVE  RecordOK(MarkCancelled(r), e, c, f)
<1>1. r \in DispatchRecord /\ MarkCancelled(r) \in DispatchRecord
  BY TransitionType DEF RecordOK
<1> QED
  BY <1>1, MaxAttemptsAssumption, SMT
     DEF RecordOK, MarkCancelled, DispatchRecord, ValidForPersist,
         ClearClaimFields

\* What a caller with the token of a current claim may write.
LEMMA HolderWritesOK ==
    ASSUME NEW r, NEW e \in Nat, NEW c \in Nat, NEW f \in BOOLEAN,
           RecordOK(r, e, c, f), r.status = "Claimed", r.epoch = e
    PROVE  /\ RecordOK(MarkAcked(r), e, c, f)
           /\ RecordOK(DispatchStarted(r), e, c, f)
           /\ \A result \in RunStatus :
                 RecordOK(RunResultRecorded(r, result), e, c, f)
           /\ RecordOK(MarkDeadLetter(r), e, c, f)
           /\ RecordOK(LeaseExtended(r), e, c, f)
<1>1. /\ ~f
      /\ r \in DispatchRecord
      /\ c = r.attempts + 1 /\ r.attempts < MaxAttempts
      /\ r.token # 0 /\ r.lease # "none"
  BY SMT DEF RecordOK, DispatchRecord, ValidForPersist
<1>type. /\ MarkAcked(r) \in DispatchRecord
      /\ MarkDeadLetter(r) \in DispatchRecord
      /\ DispatchStarted(r) \in DispatchRecord
      /\ LeaseExtended(r) \in DispatchRecord
      /\ \A result \in RunStatus :
            RunResultRecorded(r, result) \in DispatchRecord
  BY <1>1, TransitionType
<1>2. RecordOK(MarkAcked(r), e, c, f) /\ RecordOK(MarkDeadLetter(r), e, c, f)
  BY <1>1, <1>type, MaxAttemptsAssumption, SMT
     DEF RecordOK, MarkAcked, MarkDeadLetter, DispatchRecord, ValidForPersist,
         ClearClaimFields
<1>3. RecordOK(DispatchStarted(r), e, c, f) /\ RecordOK(LeaseExtended(r), e, c, f)
  BY <1>1, <1>type, MaxAttemptsAssumption, SMT
     DEF RecordOK, DispatchStarted, LeaseExtended, DispatchRecord,
         ValidForPersist
<1>4. ASSUME NEW result \in RunStatus
      PROVE  RecordOK(RunResultRecorded(r, result), e, c, f)
  <2>1. RunResultRecorded(r, result) \in DispatchRecord
    BY <1>type
  <2> QED
    BY <1>1, <2>1, MaxAttemptsAssumption, SMT
       DEF RecordOK, RunResultRecorded, DispatchRecord, ValidForPersist
<1> QED BY <1>2, <1>3, <1>4

LEMMA RetriedOK ==
    ASSUME NEW r, NEW e \in Nat, NEW c \in Nat, NEW f \in BOOLEAN,
           RecordOK(r, e, c, f), r.status = "Claimed", r.epoch = e
    PROVE  /\ \A available \in BOOLEAN :
                 RecordOK(MarkNackResult(r, available), e, c, f)
           /\ RecordOK(MarkExpiredLease(r), e, c, f)
<1>1. /\ ~f
      /\ r \in DispatchRecord
      /\ c = r.attempts + 1 /\ r.attempts < MaxAttempts
  BY SMT DEF RecordOK, DispatchRecord
<1>type. /\ MarkExpiredLease(r) \in DispatchRecord
      /\ \A available \in BOOLEAN :
            MarkNackResult(r, available) \in DispatchRecord
  BY <1>1, RetryType
<1>2. ASSUME NEW available \in BOOLEAN
      PROVE  RecordOK(MarkNackResult(r, available), e, c, f)
  <2>1. MarkNackResult(r, available) \in DispatchRecord
    BY <1>type
  <2> QED
    BY <1>1, <2>1, MaxAttemptsAssumption, SMT
       DEF RecordOK, MarkNackResult, DispatchRecord, ValidForPersist,
           ClearClaimFields, ClearRuntimeProjection
<1>3. RecordOK(MarkExpiredLease(r), e, c, f)
  BY <1>1, <1>type, MaxAttemptsAssumption, SMT
     DEF RecordOK, MarkExpiredLease, DispatchRecord, ValidForPersist,
         ClearClaimFields, ClearRuntimeProjection
<1> QED BY <1>2, <1>3

\* Time passing changes neither the status nor the claim.
LEMMA TimePassesOK ==
    ASSUME NEW r, NEW e \in Nat, NEW c \in Nat, NEW f \in BOOLEAN,
           RecordOK(r, e, c, f)
    PROVE  /\ r.status = "Claimed" =>
                 RecordOK([r EXCEPT !.lease = "lapsed"], e, c, f)
           /\ RecordOK([r EXCEPT !.available = TRUE], e, c, f)
<1>1. r \in DispatchRecord BY DEF RecordOK
<1>2. /\ [r EXCEPT !.lease = "lapsed"] \in DispatchRecord
      /\ [r EXCEPT !.available = TRUE] \in DispatchRecord
  BY <1>1, Zenon DEF DispatchRecord
<1> QED BY <1>1, <1>2, SMT DEF RecordOK, DispatchRecord, ValidForPersist

-----------------------------------------------------------------------------
(* The store actions preserve StoreIInv.                                   *)

\* A step that writes one record, and keeps epochs and histories.
LEMMA PutOK ==
    ASSUME StoreIInv, NEW d \in Dispatch, NEW r, Put(d, r),
           RecordOK(r, CurrentEpoch(d), claims[d], d \in fenced)
    PROVE  StoreIInv'
<1>1. /\ dispatches' = [dispatches EXCEPT ![d] = r]
      /\ epoch' = epoch /\ claims' = claims /\ fenced' = fenced
  BY DEF Put
<1>2. r \in DispatchRecord /\ dispatches \in [Dispatch -> DispatchRecord]
  BY DEF RecordOK, StoreIInv, StoreTypeOK
<1>3. StoreTypeOK'
  BY <1>1, <1>2 DEF StoreIInv, StoreTypeOK
<1>4. ASSUME NEW o \in Dispatch
      PROVE  RecordOK(dispatches[o], CurrentEpoch(o), claims[o], o \in fenced)'
  <2>1. CASE o = d
    <3>1. dispatches'[o] = r BY <1>1, <1>2, <2>1
    <3> QED BY <1>1, <2>1, <3>1 DEF CurrentEpoch
  <2>2. CASE o # d
    <3>1. dispatches'[o] = dispatches[o] BY <1>1, <1>2, <2>2
    <3> QED BY <1>1, <3>1 DEF CurrentEpoch, StoreIInv
  <2> QED BY <2>1, <2>2
<1> QED BY <1>3, <1>4 DEF StoreIInv

\* What StoreIInv says of one dispatch, with the types the record lemmas ask.
LEMMA Local ==
    ASSUME StoreIInv, NEW d \in Dispatch
    PROVE  /\ RecordOK(dispatches[d], CurrentEpoch(d), claims[d], d \in fenced)
           /\ dispatches[d] \in DispatchRecord
           /\ CurrentEpoch(d) \in Nat
           /\ claims[d] \in Nat
           /\ (d \in fenced) \in BOOLEAN
           /\ IsStored(d) /\ ~IsStale(d) =>
                 dispatches[d].epoch = CurrentEpoch(d)
<1>1. /\ RecordOK(dispatches[d], CurrentEpoch(d), claims[d], d \in fenced)
      /\ dispatches[d] \in DispatchRecord
      /\ claims[d] \in Nat
  BY DEF StoreIInv, StoreTypeOK
<1>2. CurrentEpoch(d) \in Nat
  BY StoreAssumption DEF StoreIInv, StoreTypeOK, CurrentEpoch
<1>3. dispatches[d].epoch \in Nat
  BY <1>1 DEF DispatchRecord
<1>4. IsStored(d) => dispatches[d].epoch <= CurrentEpoch(d)
  BY <1>1 DEF RecordOK, IsStored, StatusOf
<1> QED BY <1>1, <1>2, <1>3, <1>4, SMT DEF IsStale

\* Only a claimed record has a token, and issued tokens are positive.
LEMMA HolderIsClaimed ==
    ASSUME StoreIInv, NEW d \in Dispatch, NEW token \in 1..claims[d],
           HasToken(d, token)
    PROVE  IsClaimed(d)
<1>1. token # 0 BY Local, SMT
<1> QED BY <1>1, Local DEF HasToken, RecordOK, IsClaimed, StatusOf

\* A fenced write: what is put at the current epoch must be good; at an older
\* epoch the record is superseded.
LEMMA PutIfCurrentOK ==
    ASSUME StoreIInv, NEW d \in Dispatch, NEW token \in 1..claims[d], NEW r,
           PutIfCurrent(d, token, r),
           ~IsStale(d) => RecordOK(r, CurrentEpoch(d), claims[d], d \in fenced)
    PROVE  StoreIInv'
<1>1. IsClaimed(d) BY HolderIsClaimed DEF PutIfCurrent
<1>2. CASE IsStale(d)
  <2>1. RecordOK(MarkSupersededAtEpoch(dispatches[d], CurrentEpoch(d)),
                 CurrentEpoch(d), claims[d], d \in fenced)
    BY <1>1, Local, SupersededOK DEF IsClaimed, StatusOf
  <2> QED BY <1>2, <2>1, PutOK DEF PutIfCurrent
<1>3. CASE ~IsStale(d)
  BY <1>3, PutOK DEF PutIfCurrent
<1> QED BY <1>2, <1>3

\* A step that rewrites the records of one thread, keeps its epoch and may
\* raise the claim counts, or one that keeps the thread as it is.
LEMMA PointwiseOK ==
    ASSUME StoreIInv,
           StoreTypeOK',
           \A d \in Dispatch :
               RecordOK(dispatches'[d], CurrentEpoch(d)', claims'[d],
                        d \in fenced')
    PROVE  StoreIInv'
BY DEF StoreIInv

LEMMA EnqueueOK ==
    ASSUME StoreIInv, NEW d \in Dispatch, StatusOf(d) = "Absent",
           NEW available \in BOOLEAN, Enqueue(d, available)
    PROVE  StoreIInv'
<1>1. claims[d] = 0 /\ (d \in fenced) = FALSE
  BY Local, SMT DEF RecordOK, StatusOf
<1>2. RecordOK(PrepareForEnqueue(CurrentEpoch(d), available),
               CurrentEpoch(d), claims[d], d \in fenced)
  BY <1>1, Local, EnqueuedOK
<1> QED BY <1>2, PutOK DEF Enqueue

\* A queued dispatch is at its thread's epoch.
LEMMA QueuedNotStale ==
    ASSUME StoreIInv, NEW d \in Dispatch, IsQueued(d)
    PROVE  ~IsStale(d) /\ dispatches[d].epoch = CurrentEpoch(d)
BY Local, SMT DEF RecordOK, IsQueued, IsStale, StatusOf

LEMMA ClaimKeepsOK ==
    ASSUME StoreIInv, NEW t \in Thread, Claim(t)
    PROVE  StoreIInv'
<1>1. PICK batch \in SUBSET Eligible(t) :
        /\ dispatches' = [d \in Dispatch |->
              IF ThreadOf[d] = t /\ IsQueued(d) /\ IsStale(d)
              THEN MarkSupersededAtEpoch(dispatches[d], epoch[t])
              ELSE IF d \in batch THEN ClaimedWith(dispatches[d], claims[d] + 1)
              ELSE dispatches[d]]
        /\ claims' = [d \in Dispatch |->
              IF d \in batch THEN claims[d] + 1 ELSE claims[d]]
        /\ UNCHANGED <<epoch, fenced>>
  BY Zenon DEF Claim
<1>2. ASSUME NEW d \in Dispatch
      PROVE  /\ RecordOK(dispatches'[d], CurrentEpoch(d)', claims'[d],
                         d \in fenced')
             /\ claims'[d] \in Nat
  <2>1. CurrentEpoch(d)' = CurrentEpoch(d) /\ fenced' = fenced
    BY <1>1 DEF CurrentEpoch
  <2>2. ~(IsQueued(d) /\ IsStale(d)) BY QueuedNotStale
  <2>3. CASE d \in batch
    <3>1. dispatches[d].status = "Queued" BY <2>3 DEF Eligible, IsQueued, StatusOf
    <3>2. RecordOK(ClaimedWith(dispatches[d], claims[d] + 1), CurrentEpoch(d),
                   claims[d] + 1, d \in fenced)
      BY <3>1, Local, ClaimedOK
    <3>3. /\ dispatches'[d] = ClaimedWith(dispatches[d], claims[d] + 1)
          /\ claims'[d] = claims[d] + 1
      BY <1>1, <2>2, <2>3
    <3> QED BY <2>1, <3>2, <3>3, Local
  <2>4. CASE d \notin batch
    <3>1. dispatches'[d] = dispatches[d] /\ claims'[d] = claims[d]
      BY <1>1, <2>2, <2>4
    <3> QED BY <2>1, <3>1, Local
  <2> QED BY <2>3, <2>4
<1>3. StoreTypeOK'
  <2>1. \A d \in Dispatch : dispatches'[d] \in DispatchRecord
    BY <1>2 DEF RecordOK
  <2>2. dispatches' \in [Dispatch -> DispatchRecord]
    BY <1>1, <2>1
  <2>3. claims' \in [Dispatch -> Nat] BY <1>1, <1>2
  <2> QED BY <1>1, <2>2, <2>3 DEF StoreTypeOK, StoreIInv
<1> QED BY <1>2, <1>3, PointwiseOK

LEMMA ClaimDispatchOK ==
    ASSUME StoreIInv, NEW d \in Dispatch, ClaimDispatch(d)
    PROVE  StoreIInv'
<1>1. IsQueued(d) /\ ~IsStale(d) BY QueuedNotStale DEF ClaimDispatch
<1>2. /\ dispatches' = [dispatches EXCEPT
                           ![d] = ClaimedWith(dispatches[d], claims[d] + 1)]
      /\ claims' = [claims EXCEPT ![d] = claims[d] + 1]
      /\ UNCHANGED <<epoch, fenced>>
  BY <1>1 DEF ClaimDispatch
<1>3. RecordOK(ClaimedWith(dispatches[d], claims[d] + 1), CurrentEpoch(d),
               claims[d] + 1, d \in fenced)
  BY <1>1, Local, ClaimedOK DEF IsQueued, StatusOf
<1>4. dispatches \in [Dispatch -> DispatchRecord] /\ claims \in [Dispatch -> Nat]
  BY DEF StoreIInv, StoreTypeOK
<1>5. StoreTypeOK'
  <2>1. ClaimedWith(dispatches[d], claims[d] + 1) \in DispatchRecord
    BY <1>3 DEF RecordOK
  <2> QED BY <1>2, <1>4, <2>1 DEF StoreTypeOK, StoreIInv
<1>6. ASSUME NEW o \in Dispatch
      PROVE  RecordOK(dispatches'[o], CurrentEpoch(o)', claims'[o], o \in fenced')
  <2>1. CurrentEpoch(o)' = CurrentEpoch(o) /\ fenced' = fenced
    BY <1>2 DEF CurrentEpoch
  <2>2. CASE o = d
    <3>1. /\ dispatches'[o] = ClaimedWith(dispatches[d], claims[d] + 1)
          /\ claims'[o] = claims[d] + 1
      BY <1>2, <1>4, <2>2
    <3> QED BY <1>3, <2>1, <2>2, <3>1
  <2>3. CASE o # d
    <3>1. dispatches'[o] = dispatches[o] /\ claims'[o] = claims[o]
      BY <1>2, <1>4, <2>3
    <3> QED BY <2>1, <3>1, Local
  <2> QED BY <2>2, <2>3
<1> QED BY <1>5, <1>6, PointwiseOK

LEMMA CancelOK ==
    ASSUME StoreIInv, NEW d \in Dispatch, Cancel(d)
    PROVE  StoreIInv'
<1>1. RecordOK(MarkCancelled(dispatches[d]), CurrentEpoch(d), claims[d],
               d \in fenced)
  BY Local, CancelledOK DEF Cancel, IsQueued, StatusOf
<1> QED BY <1>1, PutOK DEF Cancel

LEMMA HolderCallOK ==
    ASSUME StoreIInv, NEW d \in Dispatch, NEW token \in 1..claims[d],
           HolderCall(d, token)
    PROVE  StoreIInv'
<1> DEFINE r == dispatches[d]
           Good(x) == RecordOK(x, CurrentEpoch(d), claims[d], d \in fenced)
<1>1. ASSUME HasToken(d, token), ~IsStale(d)
      PROVE  r.status = "Claimed" /\ r.epoch = CurrentEpoch(d)
  <2>1. r.status = "Claimed"
    BY <1>1, HolderIsClaimed DEF IsClaimed, StatusOf
  <2> QED BY <1>1, <2>1, Local DEF IsStored, StatusOf
<1>2. ASSUME HasToken(d, token), ~IsStale(d)
      PROVE  /\ Good(MarkAcked(r)) /\ Good(DispatchStarted(r))
             /\ Good(MarkDeadLetter(r)) /\ Good(LeaseExtended(r))
             /\ \A result \in RunStatus : Good(RunResultRecorded(r, result))
             /\ \A available \in BOOLEAN : Good(MarkNackResult(r, available))
  <2>1. r.status = "Claimed" /\ r.epoch = CurrentEpoch(d)
    BY <1>1, <1>2
  <2>2. /\ Good(r)
        /\ CurrentEpoch(d) \in Nat /\ claims[d] \in Nat
        /\ (d \in fenced) \in BOOLEAN
    BY Local
  <2>3. /\ Good(MarkAcked(r)) /\ Good(DispatchStarted(r))
        /\ Good(MarkDeadLetter(r)) /\ Good(LeaseExtended(r))
        /\ \A result \in RunStatus : Good(RunResultRecorded(r, result))
    <3> HIDE DEF r
    <3> QED BY <2>1, <2>2, HolderWritesOK
  <2>4. \A available \in BOOLEAN : Good(MarkNackResult(r, available))
    <3> HIDE DEF r
    <3> QED BY <2>1, <2>2, RetriedOK
  <2> QED BY <2>3, <2>4
<1>3. CASE Ack(d, token)
  BY <1>2, <1>3, PutIfCurrentOK DEF Ack, PutIfCurrent
<1>4. CASE RecordDispatchStart(d, token)
  BY <1>2, <1>4, PutIfCurrentOK DEF RecordDispatchStart, PutIfCurrent
<1>5. ASSUME NEW result \in Results, RecordRunResult(d, token, result)
      PROVE  StoreIInv'
  <2>1. result \in RunStatus BY StoreAssumption
  <2>2. HasToken(d, token) BY <1>5 DEF RecordRunResult, PutIfCurrent
  <2>3. ~IsStale(d) => Good(RunResultRecorded(r, result))
    BY <1>2, <2>1, <2>2
  <2> QED BY <1>5, <2>3, PutIfCurrentOK DEF RecordRunResult
<1>6. ASSUME NEW available \in BOOLEAN, Nack(d, token, available)
      PROVE  StoreIInv'
  <2>1. HasToken(d, token) BY <1>6 DEF Nack, PutIfCurrent
  <2>2. ~IsStale(d) => Good(MarkNackResult(r, available)) BY <1>2, <2>1
  <2> QED BY <1>6, <2>2, PutIfCurrentOK DEF Nack
<1>7. CASE DeadLetter(d, token)
  BY <1>2, <1>7, PutIfCurrentOK DEF DeadLetter, PutIfCurrent
<1>8. CASE ExtendLease(d, token)
  BY <1>2, <1>8, PutIfCurrentOK DEF ExtendLease, PutIfCurrent
<1>9. CASE SupersedeClaimed(d, token)
  <2>1. r.status = "Claimed" /\ IsStored(d)
    BY <1>9 DEF SupersedeClaimed, IsClaimed, StatusOf, IsStored
  <2>2. EpochOrCurrent(d) = CurrentEpoch(d)
    BY <2>1, Local DEF EpochOrCurrent
  <2>3. Good(MarkSupersededAtEpoch(r, EpochOrCurrent(d)))
    BY <2>1, <2>2, Local, SupersededOK
  <2> QED BY <1>9, <2>3, PutOK DEF SupersedeClaimed
<1> QED BY <1>3, <1>4, <1>5, <1>6, <1>7, <1>8, <1>9 DEF HolderCall

\* The effect of an interrupt on one record of the thread.
LEMMA InterruptedOK ==
    ASSUME NEW r, NEW e \in Nat, NEW c \in Nat, NEW f \in BOOLEAN,
           RecordOK(r, e, c, f)
    PROVE  /\ r.status = "Queued" => RecordOK(MarkSuperseded(r), e + 1, c, TRUE)
           /\ r.status = "Claimed" => RecordOK(r, e + 1, c, TRUE)
           /\ r.status \notin Active => RecordOK(r, e + 1, c, f)
<1>1. r \in DispatchRecord /\ MarkSuperseded(r) \in DispatchRecord
  BY TransitionType DEF RecordOK
<1>2. r.status \in Status /\ r.epoch \in Nat
  BY <1>1 DEF DispatchRecord
<1>3. CASE r.status = "Queued"
  BY <1>1, <1>2, <1>3, MaxAttemptsAssumption, SMT
     DEF RecordOK, MarkSuperseded, DispatchRecord, ValidForPersist,
         ClearClaimFields, ClearRuntimeProjection
<1>4. CASE r.status # "Queued"
  BY <1>1, <1>2, <1>4, SMT DEF RecordOK
<1> QED BY <1>3, <1>4

LEMMA InterruptOK ==
    ASSUME StoreIInv, NEW t \in Thread, InterruptDetailed(t)
    PROVE  StoreIInv'
<1>1. /\ epoch' = [epoch EXCEPT ![t] = epoch[t] + 1]
      /\ dispatches' = [d \in Dispatch |->
            IF ThreadOf[d] = t /\ IsQueued(d) /\ dispatches[d].epoch <= epoch[t]
            THEN MarkSuperseded(dispatches[d]) ELSE dispatches[d]]
      /\ fenced' = fenced \cup {d \in Dispatch : /\ ThreadOf[d] = t
                                                 /\ StatusOf(d) \in Active}
      /\ claims' = claims
  BY DEF InterruptDetailed
<1>2. epoch \in [Thread -> Nat] /\ fenced \in SUBSET Dispatch
  BY DEF StoreIInv, StoreTypeOK
<1>3. ASSUME NEW d \in Dispatch
      PROVE  RecordOK(dispatches'[d], CurrentEpoch(d)', claims'[d], d \in fenced')
  <2> DEFINE r == dispatches[d]
             e == CurrentEpoch(d)
             c == claims[d]
             f == d \in fenced
  <2>1. /\ RecordOK(r, e, c, f) /\ e \in Nat /\ c \in Nat /\ f \in BOOLEAN
        /\ claims'[d] = c
    BY <1>1, Local
  <2>2. CASE ThreadOf[d] = t
    <3>1. CurrentEpoch(d)' = e + 1 BY <1>1, <1>2, <2>2 DEF CurrentEpoch
    <3>2. CASE r.status = "Queued"
      <4>1. r.epoch <= epoch[t]
        <5>1. r.epoch = e /\ e = epoch[t]
          BY <2>2, <3>2, QueuedNotStale DEF CurrentEpoch, IsQueued, StatusOf
        <5> QED BY <5>1, <2>1
      <4>2. dispatches'[d] = MarkSuperseded(r) /\ (d \in fenced') = TRUE
        BY <1>1, <2>2, <3>2, <4>1 DEF IsQueued, StatusOf
      <4>3. RecordOK(MarkSuperseded(r), e + 1, c, TRUE)
        <5> HIDE DEF r, e, c, f
        <5> QED BY <2>1, <3>2, InterruptedOK
      <4> QED BY <2>1, <3>1, <4>2, <4>3
    <3>3. CASE r.status = "Claimed"
      <4>1. dispatches'[d] = r /\ (d \in fenced') = TRUE
        BY <1>1, <2>2, <3>3 DEF IsQueued, StatusOf
      <4>2. RecordOK(r, e + 1, c, TRUE)
        <5> HIDE DEF r, e, c, f
        <5> QED BY <2>1, <3>3, InterruptedOK
      <4> QED BY <2>1, <3>1, <4>1, <4>2
    <3>4. CASE r.status \notin Active
      <4>1. dispatches'[d] = r /\ (d \in fenced') = f
        BY <1>1, <2>2, <3>4 DEF IsQueued, StatusOf
      <4>2. RecordOK(r, e + 1, c, f)
        <5> HIDE DEF r, e, c, f
        <5> QED BY <2>1, <3>4, InterruptedOK
      <4> QED BY <2>1, <3>1, <4>1, <4>2
    <3> QED BY <3>2, <3>3, <3>4
  <2>3. CASE ThreadOf[d] # t
    <3>1. CurrentEpoch(d)' = e BY <1>1, <1>2, <2>3, StoreAssumption DEF CurrentEpoch
    <3>2. dispatches'[d] = r /\ (d \in fenced') = f BY <1>1, <2>3
    <3> QED BY <2>1, <3>1, <3>2
  <2> QED BY <2>2, <2>3
<1>4. StoreTypeOK'
  <2>1. \A d \in Dispatch : dispatches'[d] \in DispatchRecord
    BY <1>3 DEF RecordOK
  <2>2. dispatches' \in [Dispatch -> DispatchRecord] BY <1>1, <2>1
  <2>3. epoch' \in [Thread -> Nat] BY <1>1, <1>2
  <2> QED BY <1>1, <1>2, <2>2, <2>3 DEF StoreTypeOK, StoreIInv
<1> QED BY <1>3, <1>4, PointwiseOK

LEMMA ReclaimOK ==
    ASSUME StoreIInv, ReclaimExpiredLeases
    PROVE  StoreIInv'
<1>1. PICK batch \in SUBSET {d \in Dispatch :
                                IsClaimed(d) /\ dispatches[d].lease = "lapsed"} :
        /\ dispatches' = [d \in Dispatch |->
              IF d \in batch THEN Reclaimed(d) ELSE dispatches[d]]
        /\ UNCHANGED <<epoch, claims, fenced>>
  BY Zenon DEF ReclaimExpiredLeases, Expired
<1>2. ASSUME NEW d \in Dispatch
      PROVE  RecordOK(dispatches'[d], CurrentEpoch(d)', claims'[d], d \in fenced')
  <2>1. /\ CurrentEpoch(d)' = CurrentEpoch(d)
        /\ claims' = claims /\ fenced' = fenced
    BY <1>1 DEF CurrentEpoch
  <2>2. CASE d \in batch
    <3>1. IsStored(d) /\ dispatches[d].status = "Claimed"
      BY <2>2 DEF IsClaimed, IsStored, StatusOf
    <3>2. dispatches'[d] = Reclaimed(d) BY <1>1, <2>2
    <3>3. CASE IsStale(d)
      <4>1. RecordOK(MarkSupersededAtEpoch(dispatches[d], CurrentEpoch(d)),
                     CurrentEpoch(d), claims[d], d \in fenced)
        <5>1. dispatches[d].status \in Active BY <3>1 DEF Active
        <5>2. /\ RecordOK(dispatches[d], CurrentEpoch(d), claims[d], d \in fenced)
              /\ CurrentEpoch(d) \in Nat /\ claims[d] \in Nat /\ (d \in fenced) \in BOOLEAN
          BY Local
        <5> QED BY <5>1, <5>2, SupersededOK
      <4> QED BY <2>1, <3>2, <3>3, <4>1 DEF Reclaimed
    <3>4. CASE ~IsStale(d)
      <4>1. dispatches[d].epoch = CurrentEpoch(d) BY <3>1, <3>4, Local
      <4>2. RecordOK(MarkExpiredLease(dispatches[d]), CurrentEpoch(d),
                     claims[d], d \in fenced)
        <5>1. /\ RecordOK(dispatches[d], CurrentEpoch(d), claims[d], d \in fenced)
              /\ CurrentEpoch(d) \in Nat /\ claims[d] \in Nat /\ (d \in fenced) \in BOOLEAN
          BY Local
        <5> QED BY <3>1, <4>1, <5>1, RetriedOK
      <4> QED BY <2>1, <3>2, <3>4, <4>2 DEF Reclaimed
    <3> QED BY <3>3, <3>4
  <2>3. CASE d \notin batch
    <3>1. dispatches'[d] = dispatches[d] BY <1>1, <2>3
    <3> QED BY <2>1, <3>1, Local
  <2> QED BY <2>2, <2>3
<1>3. StoreTypeOK'
  <2>1. \A d \in Dispatch : dispatches'[d] \in DispatchRecord
    BY <1>2 DEF RecordOK
  <2>2. dispatches' \in [Dispatch -> DispatchRecord] BY <1>1, <2>1
  <2> QED BY <1>1, <2>2 DEF StoreTypeOK, StoreIInv
<1> QED BY <1>2, <1>3, PointwiseOK

\* A vacuum resets the epoch of a thread only when no record of it is left,
\* so no record is ever ahead of its thread and no fence is lost.
LEMMA PurgeOK ==
    ASSUME StoreIInv, PurgeTerminal
    PROVE  StoreIInv'
<1>1. PICK batch \in SUBSET {d \in Dispatch : StatusOf(d) \in Terminal} :
        /\ dispatches' = [d \in Dispatch |->
              IF d \in batch THEN Blank("Purged") ELSE dispatches[d]]
        /\ epoch' = EpochAfterPurge(batch)
        /\ UNCHANGED <<claims, fenced>>
  BY Zenon DEF PurgeTerminal
<1>2. epoch' \in [Thread -> Nat]
  BY <1>1 DEF EpochAfterPurge, StoreIInv, StoreTypeOK
<1>3. ASSUME NEW d \in Dispatch
      PROVE  RecordOK(dispatches'[d], CurrentEpoch(d)', claims'[d], d \in fenced')
  <2>1. CurrentEpoch(d)' \in Nat /\ ThreadOf[d] \in Thread
    BY <1>2, StoreAssumption DEF CurrentEpoch
  <2>2. /\ RecordOK(dispatches[d], CurrentEpoch(d), claims[d], d \in fenced)
        /\ dispatches[d] \in DispatchRecord
        /\ claims' = claims /\ fenced' = fenced
    BY <1>1, Local
  <2>3. CASE d \in batch
    <3>1. dispatches'[d] = Blank("Purged") BY <1>1, <2>3
    <3>2. claims[d] \in 0..MaxAttempts /\ (d \in fenced) \in BOOLEAN
      BY <2>2, Local, MaxAttemptsAssumption, SMT DEF RecordOK
    <3>3. RecordOK(Blank("Purged"), CurrentEpoch(d)', claims[d], d \in fenced)
      BY <2>1, <3>2, BlankOK
    <3> QED BY <2>2, <3>1, <3>3
  <2>4. CASE d \notin batch
    <3>1. dispatches'[d] = dispatches[d] BY <1>1, <2>4
    <3>2. CASE IsStored(d)
      <4>1. CurrentEpoch(d)' = CurrentEpoch(d)
        BY <1>1, <2>1, <2>4, <3>2 DEF EpochAfterPurge, CurrentEpoch
      <4> QED BY <2>2, <3>1, <4>1
    <3>3. CASE ~IsStored(d)
      <4>1. /\ dispatches[d].status \in {"Absent", "Purged"}
            /\ dispatches[d].status \notin Stored
        BY <2>2, <3>3 DEF IsStored, StatusOf, DispatchRecord
      <4> QED BY <2>1, <2>2, <3>1, <4>1, SMT DEF RecordOK, ValidForPersist
    <3> QED BY <3>2, <3>3
  <2> QED BY <2>3, <2>4
<1>4. StoreTypeOK'
  <2>1. \A d \in Dispatch : dispatches'[d] \in DispatchRecord
    BY <1>3 DEF RecordOK
  <2>2. dispatches' \in [Dispatch -> DispatchRecord] BY <1>1, <2>1
  <2> QED BY <1>1, <1>2, <2>2 DEF StoreTypeOK, StoreIInv
<1> QED BY <1>3, <1>4, PointwiseOK

LEMMA TimeOK ==
    ASSUME StoreIInv, NEW d \in Dispatch,
           LeaseLapses(d) \/ BecomesAvailable(d)
    PROVE  StoreIInv'
<1> DEFINE Good(x) == RecordOK(x, CurrentEpoch(d), claims[d], d \in fenced)
<1>1. /\ dispatches[d].status = "Claimed" =>
            Good([dispatches[d] EXCEPT !.lease = "lapsed"])
      /\ Good([dispatches[d] EXCEPT !.available = TRUE])
  <2>1. /\ RecordOK(dispatches[d], CurrentEpoch(d), claims[d], d \in fenced)
        /\ CurrentEpoch(d) \in Nat /\ claims[d] \in Nat /\ (d \in fenced) \in BOOLEAN
    BY Local
  <2> QED BY <2>1, TimePassesOK
<1>2. CASE LeaseLapses(d)
  BY <1>1, <1>2, PutOK DEF LeaseLapses, IsClaimed, StatusOf
<1>3. CASE BecomesAvailable(d)
  BY <1>1, <1>3, PutOK DEF BecomesAvailable
<1> QED BY <1>2, <1>3

-----------------------------------------------------------------------------
(* The inductive invariant and what follows from it.                       *)

LEMMA StoreInitOK == StoreInit => StoreIInv
<1> SUFFICES ASSUME StoreInit PROVE StoreIInv
  OBVIOUS
<1>1. /\ dispatches = [d \in Dispatch |-> Blank("Absent")]
      /\ epoch = [t \in Thread |-> 0]
      /\ claims = [d \in Dispatch |-> 0]
      /\ fenced = {}
  BY DEF StoreInit
<1>2. StoreTypeOK BY <1>1, BlankType DEF StoreTypeOK
<1>3. ASSUME NEW d \in Dispatch
      PROVE  RecordOK(dispatches[d], CurrentEpoch(d), claims[d], d \in fenced)
  <2>1. /\ dispatches[d] = Blank("Absent") /\ claims[d] = 0
        /\ CurrentEpoch(d) = 0 /\ (d \in fenced) = FALSE
    BY <1>1, StoreAssumption DEF CurrentEpoch
  <2>2. 0 \in Nat /\ 0 \in 0..MaxAttempts /\ FALSE \in BOOLEAN
    BY MaxAttemptsAssumption
  <2>3. RecordOK(Blank("Absent"), 0, 0, FALSE) BY <2>2, BlankOK
  <2> QED BY <2>1, <2>3
<1> QED BY <1>2, <1>3 DEF StoreIInv

LEMMA StoreStepOK == StoreIInv /\ [StoreNext]_storeVars => StoreIInv'
<1> SUFFICES ASSUME StoreIInv, [StoreNext]_storeVars PROVE StoreIInv'
  OBVIOUS
<1>1. CASE UNCHANGED storeVars
  BY <1>1 DEF storeVars, StoreIInv, StoreTypeOK, CurrentEpoch
<1>2. ASSUME NEW d \in Dispatch, StatusOf(d) = "Absent",
             NEW available \in BOOLEAN, Enqueue(d, available)
      PROVE  StoreIInv'
  BY <1>2, EnqueueOK
<1>3. ASSUME NEW d \in Dispatch, ClaimDispatch(d) \/ Cancel(d)
      PROVE  StoreIInv'
  BY <1>3, ClaimDispatchOK, CancelOK
<1>4. ASSUME NEW d \in Dispatch, NEW token \in 1..claims[d],
             HolderCall(d, token)
      PROVE  StoreIInv'
  BY <1>4, HolderCallOK
<1>5. ASSUME NEW d \in Dispatch, LeaseLapses(d) \/ BecomesAvailable(d)
      PROVE  StoreIInv'
  BY <1>5, TimeOK
<1>6. ASSUME NEW t \in Thread, Claim(t) \/ InterruptDetailed(t)
      PROVE  StoreIInv'
  BY <1>6, ClaimKeepsOK, InterruptOK
<1>7. CASE ReclaimExpiredLeases BY <1>7, ReclaimOK
<1>8. CASE PurgeTerminal BY <1>8, PurgeOK
<1> QED
  BY <1>1, <1>2, <1>3, <1>4, <1>5, <1>6, <1>7, <1>8, Zenon DEF StoreNext

\* StoreIInv holds in every reachable state of the store, whatever the number
\* of dispatches and threads and whichever tokens its callers present.
THEOREM StoreIInvHolds == StoreSpec => []StoreIInv
<1>1. StoreInit => StoreIInv BY StoreInitOK
<1>2. StoreIInv /\ [StoreNext]_storeVars => StoreIInv' BY StoreStepOK
<1> QED BY <1>1, <1>2, PTL DEF StoreSpec

\* The store keeps records of its type, epochs and counters in their ranges.
THEOREM StoreTypeHolds == StoreSpec => []StoreTypeOK
<1>1. StoreIInv => StoreTypeOK BY DEF StoreIInv
<1> QED BY <1>1, StoreIInvHolds, PTL

\* No `expect` of mark_nack_result, mark_acked, ... can fail under the lock.
THEOREM PersistValidHolds == StoreSpec => []PersistValid
<1>1. StoreIInv => PersistValid
  BY DEF StoreIInv, RecordOK, PersistValid, IsClaimed, StatusOf
<1> QED BY <1>1, StoreIInvHolds, PTL

\* A dispatch that was active at an interrupt is never delivered.
THEOREM InterruptFencesHolds == StoreSpec => []InterruptFences
<1>1. StoreIInv => InterruptFences
  <2> SUFFICES ASSUME StoreIInv, NEW d \in fenced
               PROVE  StatusOf(d) \in {"Claimed", "Superseded", "Purged"}
    BY DEF InterruptFences
  <2>1. d \in Dispatch BY DEF StoreIInv, StoreTypeOK
  <2> QED BY <2>1 DEF StoreIInv, RecordOK, StatusOf
<1> QED BY <1>1, StoreIInvHolds, PTL

\* No queued dispatch is older than its thread's epoch.
THEOREM QueuedIsCurrentHolds == StoreSpec => []QueuedIsCurrent
<1>1. StoreIInv => QueuedIsCurrent BY QueuedNotStale DEF QueuedIsCurrent
<1> QED BY <1>1, StoreIInvHolds, PTL

\* A dispatch is handed out at most max_attempts times.
THEOREM HandedOutHolds == StoreSpec => []HandedOutAtMostMaxAttempts
<1>1. StoreIInv => HandedOutAtMostMaxAttempts
  BY DEF StoreIInv, RecordOK, HandedOutAtMostMaxAttempts
<1> QED BY <1>1, StoreIInvHolds, PTL

-----------------------------------------------------------------------------
(* Terminal records and claims: properties of steps.                       *)

\* The statuses that the transitions lead to.
LEMMA TransitionStatus ==
    ASSUME NEW r \in DispatchRecord, NEW n \in Nat
    PROVE  /\ ClaimedWith(r, n).status = "Claimed"
           /\ LeaseExtended(r).status = r.status
           /\ DispatchStarted(r).status = r.status
           /\ \A result : RunResultRecorded(r, result).status = r.status
           /\ MarkAcked(r).status = "Acked"
           /\ MarkCancelled(r).status = "Cancelled"
           /\ MarkSuperseded(r).status = "Superseded"
           /\ MarkSupersededAtEpoch(r, n).status = "Superseded"
           /\ MarkDeadLetter(r).status = "DeadLetter"
           /\ \A available :
                 MarkNackResult(r, available).status \in {"DeadLetter", "Queued"}
           /\ MarkExpiredLease(r).status \in {"DeadLetter", "Queued"}
BY SMT
   DEF DispatchRecord, ClaimedWith, LeaseExtended, DispatchStarted,
       RunResultRecorded, MarkAcked, MarkCancelled, MarkSuperseded,
       MarkSupersededAtEpoch, MarkDeadLetter, MarkNackResult,
       MarkExpiredLease, ClearClaimFields, ClearRuntimeProjection

\* A terminal record is left alone or purged.
KeepsTerminal(o) ==
    StatusOf(o) \in Terminal => \/ dispatches'[o] = dispatches[o]
                                \/ dispatches'[o].status = "Purged"

\* The step gives o no claim.
NoNewClaim(o) == IsClaimed(o)' => IsClaimed(o)

\* A write to a record that is not terminal, of a record that is claimed only
\* if the old one is.
LEMMA PutEffect ==
    ASSUME StoreIInv, NEW d \in Dispatch, NEW r, Put(d, r),
           StatusOf(d) \notin Terminal,
           r.status = "Claimed" => IsClaimed(d),
           NEW o \in Dispatch
    PROVE  KeepsTerminal(o) /\ NoNewClaim(o)
<1>1. dispatches' = [dispatches EXCEPT ![d] = r] BY DEF Put
<1>2. dispatches \in [Dispatch -> DispatchRecord] BY DEF StoreIInv, StoreTypeOK
<1>3. dispatches'[o] = IF o = d THEN r ELSE dispatches[o] BY <1>1, <1>2
<1> QED BY <1>3 DEF KeepsTerminal, NoNewClaim, IsClaimed, StatusOf

LEMMA PutIfCurrentEffect ==
    ASSUME StoreIInv, NEW d \in Dispatch, NEW token \in 1..claims[d], NEW r,
           PutIfCurrent(d, token, r), NEW o \in Dispatch
    PROVE  KeepsTerminal(o) /\ NoNewClaim(o)
<1>1. IsClaimed(d) BY HolderIsClaimed DEF PutIfCurrent
<1>2. StatusOf(d) \notin Terminal BY <1>1 DEF IsClaimed
<1> QED BY <1>1, <1>2, PutEffect DEF PutIfCurrent

LEMMA HolderCallEffect ==
    ASSUME StoreIInv, NEW d \in Dispatch, NEW token \in 1..claims[d],
           HolderCall(d, token), NEW o \in Dispatch
    PROVE  KeepsTerminal(o) /\ NoNewClaim(o)
<1>1. CASE Ack(d, token) BY <1>1, PutIfCurrentEffect DEF Ack
<1>2. CASE RecordDispatchStart(d, token)
  BY <1>2, PutIfCurrentEffect DEF RecordDispatchStart
<1>3. ASSUME NEW result \in Results, RecordRunResult(d, token, result)
      PROVE  KeepsTerminal(o) /\ NoNewClaim(o)
  BY <1>3, PutIfCurrentEffect DEF RecordRunResult
<1>4. ASSUME NEW available \in BOOLEAN, Nack(d, token, available)
      PROVE  KeepsTerminal(o) /\ NoNewClaim(o)
  BY <1>4, PutIfCurrentEffect DEF Nack
<1>5. CASE DeadLetter(d, token) BY <1>5, PutIfCurrentEffect DEF DeadLetter
<1>6. CASE ExtendLease(d, token) BY <1>6, PutIfCurrentEffect DEF ExtendLease
<1>7. CASE SupersedeClaimed(d, token)
  <2>1. IsClaimed(d) /\ StatusOf(d) \notin Terminal
    BY <1>7 DEF SupersedeClaimed, IsClaimed
  <2> QED BY <1>7, <2>1, PutEffect DEF SupersedeClaimed
<1> QED BY <1>1, <1>2, <1>3, <1>4, <1>5, <1>6, <1>7 DEF HolderCall

\* The calls that write one record and hand nothing out.
LEMMA SingleEffect ==
    ASSUME StoreIInv, NEW d \in Dispatch, NEW o \in Dispatch,
           \/ StatusOf(d) = "Absent" /\ \E available \in BOOLEAN :
                 Enqueue(d, available)
           \/ Cancel(d) \/ LeaseLapses(d) \/ BecomesAvailable(d)
    PROVE  KeepsTerminal(o) /\ NoNewClaim(o)
<1>1. dispatches[d] \in DispatchRecord BY Local
<1>2. ASSUME StatusOf(d) = "Absent", NEW available \in BOOLEAN,
             Enqueue(d, available)
      PROVE  KeepsTerminal(o) /\ NoNewClaim(o)
  <2>1. PrepareForEnqueue(CurrentEpoch(d), available).status = "Queued"
    BY DEF PrepareForEnqueue, Blank
  <2> QED BY <1>2, <2>1, PutEffect DEF Enqueue
<1>3. CASE Cancel(d)
  <2>1. MarkCancelled(dispatches[d]).status = "Cancelled"
    BY <1>1, SMT DEF MarkCancelled, ClearClaimFields, DispatchRecord
  <2>2. StatusOf(d) \notin Terminal BY <1>3 DEF Cancel, IsQueued
  <2> QED BY <1>3, <2>1, <2>2, PutEffect DEF Cancel
<1>4. CASE LeaseLapses(d)
  <2>1. IsClaimed(d) /\ StatusOf(d) \notin Terminal
    BY <1>4 DEF LeaseLapses, IsClaimed
  <2> QED BY <1>4, <2>1, PutEffect DEF LeaseLapses
<1>5. CASE BecomesAvailable(d)
  <2>1. StatusOf(d) \notin Terminal BY <1>5 DEF BecomesAvailable, IsQueued
  <2>2. [dispatches[d] EXCEPT !.available = TRUE].status = "Queued"
    BY <1>1, <1>5, SMT DEF BecomesAvailable, IsQueued, StatusOf, DispatchRecord
  <2> QED BY <1>5, <2>1, <2>2, PutEffect DEF BecomesAvailable
<1> QED BY <1>2, <1>3, <1>4, <1>5

\* The thread-wide calls that hand nothing out.
LEMMA BatchEffect ==
    ASSUME StoreIInv, NEW o \in Dispatch,
           \/ \E t \in Thread : InterruptDetailed(t)
           \/ ReclaimExpiredLeases \/ PurgeTerminal
    PROVE  KeepsTerminal(o) /\ NoNewClaim(o)
<1>1. dispatches[o] \in DispatchRecord /\ CurrentEpoch(o) \in Nat
  BY Local
<1>2. ASSUME NEW t \in Thread, InterruptDetailed(t)
      PROVE  KeepsTerminal(o) /\ NoNewClaim(o)
  <2>1. \/ dispatches'[o] = dispatches[o]
        \/ IsQueued(o) /\ dispatches'[o] = MarkSuperseded(dispatches[o])
    BY <1>2 DEF InterruptDetailed
  <2>2. MarkSuperseded(dispatches[o]).status = "Superseded"
    BY <1>1, TransitionStatus
  <2> QED
    BY <2>1, <2>2 DEF KeepsTerminal, NoNewClaim, IsClaimed, IsQueued, StatusOf
<1>3. CASE ReclaimExpiredLeases
  <2>1. \/ dispatches'[o] = dispatches[o]
        \/ IsClaimed(o) /\ dispatches'[o] = Reclaimed(o)
    BY <1>3, Zenon DEF ReclaimExpiredLeases, Expired
  <2> QED
    BY <2>1 DEF KeepsTerminal, NoNewClaim, IsClaimed, StatusOf
<1>4. CASE PurgeTerminal
  <2>1. \/ dispatches'[o] = dispatches[o]
        \/ dispatches'[o] = Blank("Purged")
    BY <1>4, Zenon DEF PurgeTerminal
  <2>2. Blank("Purged").status = "Purged" BY DEF Blank
  <2> QED
    BY <2>1, <2>2 DEF KeepsTerminal, NoNewClaim, IsClaimed, StatusOf
<1> QED BY <1>2, <1>3, <1>4

\* claim() and claim_dispatch() leave terminal records alone.
LEMMA ClaimKeepsTerminal ==
    ASSUME StoreIInv, NEW o \in Dispatch,
           \/ \E t \in Thread : Claim(t)
           \/ \E d \in Dispatch : ClaimDispatch(d)
    PROVE  KeepsTerminal(o)
<1>1. ASSUME NEW t \in Thread, Claim(t)
      PROVE  IsQueued(o) \/ dispatches'[o] = dispatches[o]
  BY <1>1, Zenon DEF Claim, Eligible
<1>2. ASSUME NEW d \in Dispatch, ClaimDispatch(d)
      PROVE  IsQueued(o) \/ dispatches'[o] = dispatches[o]
  BY <1>2 DEF ClaimDispatch, Put, StoreIInv, StoreTypeOK
<1> QED BY <1>1, <1>2 DEF KeepsTerminal, IsQueued

\* A step leaves a terminal record alone or purges it.
LEMMA TerminalStep ==
    ASSUME StoreIInv, StoreNext, NEW o \in Dispatch
    PROVE  KeepsTerminal(o)
<1>1. ASSUME NEW d \in Dispatch,
             \/ StatusOf(d) = "Absent" /\ \E available \in BOOLEAN :
                   Enqueue(d, available)
             \/ Cancel(d) \/ LeaseLapses(d) \/ BecomesAvailable(d)
      PROVE  KeepsTerminal(o)
  BY <1>1, SingleEffect
<1>2. ASSUME NEW d \in Dispatch, NEW token \in 1..claims[d],
             HolderCall(d, token)
      PROVE  KeepsTerminal(o)
  BY <1>2, HolderCallEffect
<1>3. CASE \/ \E t \in Thread : Claim(t)
           \/ \E d \in Dispatch : ClaimDispatch(d)
  BY <1>3, ClaimKeepsTerminal
<1>4. CASE \/ \E t \in Thread : InterruptDetailed(t)
           \/ ReclaimExpiredLeases \/ PurgeTerminal
  BY <1>4, BatchEffect
<1> QED BY <1>1, <1>2, <1>3, <1>4, Zenon DEF StoreNext

\* A terminal record cannot transition further, whoever calls with whichever
\* token; it is only ever purged.
THEOREM TerminalIsFinalHolds == StoreSpec => TerminalIsFinal
<1>1. ASSUME StoreIInv, [StoreNext]_storeVars
      PROVE  [\A d \in Dispatch : StatusOf(d) \in Terminal =>
                 \/ dispatches'[d] = dispatches[d]
                 \/ dispatches'[d].status = "Purged"]_storeVars
  BY <1>1, TerminalStep DEF KeepsTerminal
<1> QED BY <1>1, StoreIInvHolds, PTL DEF StoreSpec, TerminalIsFinal

\* With limit 1, what claim() hands out is empty or one dispatch, and only
\* when the thread has no claim.
LEMMA ClaimOfOne ==
    ASSUME StoreIInv, ClaimLimit = 1, NEW t \in Thread, Claim(t)
    PROVE  \E batch \in SUBSET Eligible(t) :
              /\ ThreadHasClaim(t) => batch = {}
              /\ \A a, b \in batch : a = b
              /\ \A o \in Dispatch : IsClaimed(o)' => IsClaimed(o) \/ o \in batch
<1>1. PICK batch \in SUBSET Eligible(t) :
        /\ IF ThreadHasClaim(t) THEN batch = {}
                                ELSE FirstInRank(Eligible(t), batch)
        /\ dispatches' = [d \in Dispatch |->
              IF ThreadOf[d] = t /\ IsQueued(d) /\ IsStale(d)
              THEN MarkSupersededAtEpoch(dispatches[d], epoch[t])
              ELSE IF d \in batch THEN ClaimedWith(dispatches[d], claims[d] + 1)
              ELSE dispatches[d]]
  BY Zenon DEF Claim
<1>2. ASSUME NEW a \in batch, NEW b \in batch PROVE a = b
  <2>1. FirstInRank(Eligible(t), batch) BY <1>1, <1>2
  <2>2. IsFiniteSet(Eligible(t))
    BY StoreAssumption, FS_Subset DEF Eligible
  <2>3. IsFiniteSet(batch) /\ Cardinality(Eligible(t)) \in Nat
    BY <1>1, <2>2, FS_Subset, FS_CardinalityType
  <2>4. Cardinality(batch) = 0 \/ Cardinality(batch) = 1
    BY <2>1, <2>3 DEF FirstInRank
  <2> QED BY <2>3, <2>4, FS_EmptySet, FS_Singleton
<1>3. ASSUME NEW o \in Dispatch, IsClaimed(o)', ~IsClaimed(o)
      PROVE  o \in batch
  <2>1. ~(IsQueued(o) /\ IsStale(o)) BY QueuedNotStale
  <2>2. o \notin batch => dispatches'[o] = dispatches[o] BY <1>1, <2>1
  <2> QED BY <1>3, <2>2 DEF IsClaimed, StatusOf
<1> QED BY <1>1, <1>2, <1>3

LEMMA ClaimDispatchOfOne ==
    ASSUME StoreIInv, NEW d \in Dispatch, ClaimDispatch(d)
    PROVE  /\ ~ThreadHasClaim(ThreadOf[d])
           /\ \A o \in Dispatch : o # d => NoNewClaim(o)
<1>1. ~IsStale(d) BY QueuedNotStale DEF ClaimDispatch
<1>2. ASSUME NEW o \in Dispatch, o # d PROVE NoNewClaim(o)
  <2>1. dispatches'[o] = dispatches[o]
    BY <1>1, <1>2 DEF ClaimDispatch, StoreIInv, StoreTypeOK
  <2> QED BY <2>1 DEF NoNewClaim, IsClaimed, StatusOf
<1> QED BY <1>1, <1>2 DEF ClaimDispatch

\* "Same thread must not have two Claimed dispatches concurrently": with the
\* limit 1 that the mailbox service passes, for any two claims of any callers.
THEOREM OneClaimedPerThreadHolds ==
    ASSUME ClaimLimit = 1
    PROVE  StoreSpec => []OneClaimedPerThread
<1>1. StoreInit => OneClaimedPerThread
  BY DEF StoreInit, OneClaimedPerThread, IsClaimed, StatusOf, Blank
<1>2. StoreIInv /\ OneClaimedPerThread /\ [StoreNext]_storeVars
         => OneClaimedPerThread'
  <2> SUFFICES ASSUME StoreIInv, OneClaimedPerThread, [StoreNext]_storeVars
               PROVE  OneClaimedPerThread'
    OBVIOUS
  <2> DEFINE Quiet == \A o \in Dispatch : NoNewClaim(o)
  <2>1. Quiet => OneClaimedPerThread'
    BY DEF OneClaimedPerThread, NoNewClaim
  <2>2. CASE UNCHANGED storeVars
    BY <2>2 DEF storeVars, OneClaimedPerThread, IsClaimed, StatusOf
  <2>3. ASSUME NEW d \in Dispatch,
               \/ StatusOf(d) = "Absent" /\ \E available \in BOOLEAN :
                     Enqueue(d, available)
               \/ Cancel(d) \/ LeaseLapses(d) \/ BecomesAvailable(d)
        PROVE  OneClaimedPerThread'
    BY <2>1, <2>3, SingleEffect
  <2>4. ASSUME NEW d \in Dispatch, NEW token \in 1..claims[d],
               HolderCall(d, token)
        PROVE  OneClaimedPerThread'
    BY <2>1, <2>4, HolderCallEffect
  <2>5. CASE \/ \E t \in Thread : InterruptDetailed(t)
             \/ ReclaimExpiredLeases \/ PurgeTerminal
    BY <2>1, <2>5, BatchEffect
  <2>6. ASSUME NEW t \in Thread, Claim(t)
        PROVE  OneClaimedPerThread'
    <3>1. PICK batch \in SUBSET Eligible(t) :
              /\ ThreadHasClaim(t) => batch = {}
              /\ \A a, b \in batch : a = b
              /\ \A o \in Dispatch : IsClaimed(o)' => IsClaimed(o) \/ o \in batch
      BY <2>6, ClaimOfOne
    <3>2. \A o \in batch : ThreadOf[o] = t BY DEF Eligible
    <3> QED BY <3>1, <3>2 DEF OneClaimedPerThread, ThreadHasClaim
  <2>7. ASSUME NEW d \in Dispatch, ClaimDispatch(d)
        PROVE  OneClaimedPerThread'
    <3>1. /\ ~ThreadHasClaim(ThreadOf[d])
          /\ \A o \in Dispatch : o # d => NoNewClaim(o)
      BY <2>7, ClaimDispatchOfOne
    <3> QED BY <3>1 DEF OneClaimedPerThread, ThreadHasClaim, NoNewClaim
  <2> QED
    BY <2>2, <2>3, <2>4, <2>5, <2>6, <2>7, Zenon DEF StoreNext
<1> QED BY <1>1, <1>2, StoreIInvHolds, PTL DEF StoreSpec

\* A dispatch that was never enqueued, or was vacuumed, is left alone by every
\* call but its own enqueue: no late call of a holder brings it back.
LEMMA OnlyEnqueueAdds ==
    ASSUME StoreIInv, StoreNext, NEW o \in Dispatch, ~IsStored(o)
    PROVE  \/ dispatches'[o] = dispatches[o]
           \/ \E available \in BOOLEAN : Enqueue(o, available)
<1> DEFINE Left == dispatches'[o] = dispatches[o]
<1>1. ASSUME NEW d \in Dispatch, NEW r, Put(d, r), d # o PROVE Left
  BY <1>1 DEF Put, StoreIInv, StoreTypeOK
<1>2. ASSUME NEW d \in Dispatch, IsClaimed(d) \/ IsQueued(d) PROVE d # o
  BY <1>2 DEF IsClaimed, IsQueued, IsStored
<1>3. ASSUME NEW d \in Dispatch, NEW available \in BOOLEAN, Enqueue(d, available)
      PROVE  Left \/ Enqueue(o, available)
  BY <1>1, <1>3 DEF Enqueue
<1>4. ASSUME NEW d \in Dispatch,
             ClaimDispatch(d) \/ Cancel(d) \/ LeaseLapses(d) \/ BecomesAvailable(d)
      PROVE  Left
  <2>1. d # o
    BY <1>2, <1>4, Zenon DEF ClaimDispatch, Cancel, LeaseLapses, BecomesAvailable
  <2>2. CASE ClaimDispatch(d)
    BY <2>1, <2>2 DEF ClaimDispatch, Put, StoreIInv, StoreTypeOK
  <2>3. CASE Cancel(d) BY <1>1, <2>1, <2>3 DEF Cancel
  <2>4. CASE LeaseLapses(d) BY <1>1, <2>1, <2>4 DEF LeaseLapses
  <2>5. CASE BecomesAvailable(d) BY <1>1, <2>1, <2>5 DEF BecomesAvailable
  <2> QED BY <1>4, <2>2, <2>3, <2>4, <2>5
<1>5. ASSUME NEW d \in Dispatch, NEW token \in 1..claims[d], HolderCall(d, token)
      PROVE  Left
  <2>1. HasToken(d, token) /\ \E r : Put(d, r)
    BY <1>5, Zenon
       DEF HolderCall, Ack, RecordDispatchStart, RecordRunResult, Nack,
           DeadLetter, ExtendLease, SupersedeClaimed, PutIfCurrent
  <2>2. d # o BY <1>2, <2>1, HolderIsClaimed
  <2> QED BY <1>1, <2>1, <2>2
<1>6. ASSUME NEW t \in Thread, Claim(t) PROVE Left
  <2>1. IsQueued(o) \/ Left BY <1>6, Zenon DEF Claim, Eligible
  <2> QED BY <1>2, <2>1
<1>7. ASSUME NEW t \in Thread, InterruptDetailed(t) PROVE Left
  BY <1>2, <1>7 DEF InterruptDetailed
<1>8. CASE ReclaimExpiredLeases
  <2>1. IsClaimed(o) \/ Left BY <1>8, Zenon DEF ReclaimExpiredLeases, Expired
  <2> QED BY <1>2, <2>1
<1>9. CASE PurgeTerminal
  <2>1. StatusOf(o) \in Terminal \/ Left BY <1>9, Zenon DEF PurgeTerminal
  <2> QED BY <2>1 DEF IsStored
<1> QED
  BY <1>3, <1>4, <1>5, <1>6, <1>7, <1>8, <1>9, Zenon DEF StoreNext

\* What a step makes active was active before, or is enqueued by the step.
LEMMA ActiveIsEnqueued ==
    ASSUME StoreIInv, [StoreNext]_storeVars, NEW o \in Dispatch,
           StatusOf(o)' \in Active, StatusOf(o) \notin Active
    PROVE  \E available \in BOOLEAN : Enqueue(o, available)
<1>1. dispatches'[o] # dispatches[o] BY DEF StatusOf
<1>2. StoreNext BY <1>1 DEF storeVars
<1>3. StatusOf(o) \in Terminal
         => dispatches'[o] = dispatches[o] \/ dispatches'[o].status = "Purged"
  BY <1>2, TerminalStep DEF KeepsTerminal
<1>4. ~IsStored(o) BY <1>1, <1>3 DEF IsStored, StatusOf
<1> QED BY <1>1, <1>2, <1>4, OnlyEnqueueAdds

\* No two active dispatches of a thread share a dedupe key, whatever mixture of
\* nacks, expired leases and late calls puts one back into the queue.
THEOREM StoreDedupeKeyUniqueHolds == StoreSpec => []DedupeKeyUnique
<1>1. StoreInit => DedupeKeyUnique
  BY DEF StoreInit, DedupeKeyUnique, StatusOf, Blank
<1>2. StoreIInv /\ DedupeKeyUnique /\ [StoreNext]_storeVars => DedupeKeyUnique'
  <2> SUFFICES ASSUME StoreIInv, DedupeKeyUnique, [StoreNext]_storeVars,
                      NEW a \in Dispatch, NEW b \in Dispatch,
                      StatusOf(a)' \in Active, StatusOf(b)' \in Active,
                      ThreadOf[a] = ThreadOf[b],
                      DedupeOf[a] = DedupeOf[b], DedupeOf[a] # NoKey, a # b
               PROVE  FALSE
    BY DEF DedupeKeyUnique
  <2>1. ASSUME NEW c \in Dispatch, NEW o \in Dispatch, c # o,
               ThreadOf[o] = ThreadOf[c], DedupeOf[o] = DedupeOf[c],
               DedupeOf[c] # NoKey, StatusOf(c) \notin Active,
               StatusOf(c)' \in Active, StatusOf(o)' \in Active
        PROVE  FALSE
    <3>1. PICK available \in BOOLEAN : Enqueue(c, available)
      BY <2>1, ActiveIsEnqueued
    <3>2. dispatches'[o] = dispatches[o]
      BY <2>1, <3>1 DEF Enqueue, Put, StoreIInv, StoreTypeOK
    <3>3. StatusOf(o) \in Active BY <2>1, <3>2 DEF StatusOf
    <3> QED BY <2>1, <3>1, <3>3 DEF Enqueue, HasLiveDuplicate
  <2>2. StatusOf(a) \in Active BY <2>1
  <2>3. StatusOf(b) \in Active BY <2>1
  <2> QED BY <2>2, <2>3 DEF DedupeKeyUnique
<1> QED BY <1>1, <1>2, StoreIInvHolds, PTL DEF StoreSpec
=============================================================================
