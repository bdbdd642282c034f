------------------------------ MODULE ThreadWal ------------------------------
(***************************************************************************)
(* NatsBufferedThreadStore (remo-stores/src/nats_buffered_thread): the     *)
(* checkpoints of one thread go to a JetStream stream (the WAL); flushers  *)
(* copy the committed ones into the inner store.  Several servers run this *)
(* code against the same stream, key-value bucket and inner store.         *)
(*                                                                         *)
(* One action is one access to the bucket, the stream or the inner store.  *)
(* Every update of the bucket is a compare-and-set that is repeated until  *)
(* it succeeds, so it is one step; the commit, which acts on what it read  *)
(* before, is two.  A checkpoint's content is its thread_seq.  A claim is  *)
(* a lease: it lapses when its renewals stop.  Only one thread, decodable  *)
(* entries and the read mode ReadYourWrites are modelled.                  *)
(***************************************************************************)
EXTENDS Naturals, FiniteSets, Sequences, SequencesExt

CONSTANTS
    Checkpoint,     \* calls of checkpoint()
    Deletion,       \* calls of delete_thread()
    Run,            \* run ids
    RunOf,          \* the run a checkpoint call writes
    Flusher,        \* flusher loops, one per server
    Nobody,         \* no claim token
    MaxLapses,      \* bound: claims that lapse under a live call ...
    LapseAt,        \* ... and the steps of a call at which they may
    MaxFlushLapses, \* bound: flush claims that lapse under a live flusher
    MaxFaults       \* bound: crashes, I/O errors, lost acks and redeliveries

\* The steps of a call, named by what comes next or was done last.
Stopped == {"idle", "ok", "error", "unknown", "crashed"}
CheckpointSteps ==
    {"claimed", "projected", "reserving", "reserved", "prepared",
     "publishing", "published", "committing", "deciding", "committed", "cached"}
DeletionSteps == {"draining", "deleted", "marking", "marked"}

ASSUME WalAssumption ==
    /\ IsFiniteSet(Checkpoint) /\ IsFiniteSet(Deletion)
    /\ Checkpoint \cap Deletion = {}
    /\ Nobody \notin Checkpoint \cup Deletion \cup Flusher
    /\ RunOf \in [Checkpoint -> Run]
    /\ LapseAt \subseteq CheckpointSteps \cup DeletionSteps
    /\ MaxLapses \in Nat /\ MaxFlushLapses \in Nat /\ MaxFaults \in Nat

Call == Checkpoint \cup Deletion
Snapshot == 1..Cardinality(Checkpoint)

VARIABLES
    claim,      \* hierarchy.lock
    meta,       \* meta.<thread>: reserved_seq, latest_seq, latest_js_seq
    flushed,    \* flushed.<thread>
    wal,        \* wal.<thread>.<seq>: the commit state of an entry
    cached,     \* run.<run>: the thread_seq of the cached run record
    stream,     \* JetStream: the entries in stream order
    delivered,  \* the last stream position the consumer has handed out
    acked,      \* stream positions acknowledged to the consumer
    inner,      \* inner store: thread_seq of the thread, messages and runs
    call,       \* calls of the writer
    flushClaim, \* flush.lock.<thread>
    flusher,    \* flusher loops
    lapses,     \* what was spent of the bounds on lapses
    faults,     \* what was spent of MaxFaults
    basis,      \* history: the snapshot an entry was computed from
    committed   \* history: stream positions of the committed entries

bucketVars == <<meta, flushed, wal, cached>>
queueVars == <<stream, delivered, acked>>
flushVars == <<flushClaim, flusher>>
boundVars == <<lapses, faults>>
historyVars == <<basis, committed>>
walVars == <<claim, bucketVars, queueVars, inner, call, flushVars, boundVars,
             historyVars>>

NoEntry == [status |-> "None", token |-> Nobody, js |-> 0]
Idle == [pc |-> "idle", batch |-> {}, flushed |-> 0, todo |-> {},
         ignored |-> {}, rest |-> {}, armed |-> FALSE]
Unread == Cardinality(Checkpoint) + 1

Greatest(S) == CHOOSE x \in S \cup {0} : \A y \in S : y <= x

----------------------------------------------------------------------------
(* Claims.                                                                  *)

\* claim_token_is_current: the token is stored and its lease has not run out.
Current(c) == claim = [token |-> c, live |-> TRUE]
FlushCurrent(f) == flushClaim = [token |-> f, live |-> TRUE]

Released(k, owner) == IF k.token = owner THEN [k EXCEPT !.live = FALSE] ELSE k

Goto(c, pc) == call' = [call EXCEPT ![c].pc = pc]
FlushGoto(f, pc) ==
    flusher' = [flusher EXCEPT ![f].pc = pc, ![f].armed = FALSE]

Acquire(c) ==
    /\ call[c].pc = "idle"
    /\ ~claim.live
    /\ claim' = [token |-> c, live |-> TRUE]
    /\ Goto(c, "claimed")
    /\ UNCHANGED <<inner, bucketVars, queueVars, flushVars, boundVars,
                   historyVars>>

\* The lease runs out: freely once its owner is gone, and a bounded number
\* of times under an owner whose renewals failed or who was not scheduled.
Lapse ==
    /\ claim.live
    /\ claim' = [claim EXCEPT !.live = FALSE]
    /\ \/ call[claim.token].pc = "crashed" /\ UNCHANGED lapses
       \/ /\ call[claim.token].pc \in LapseAt
          /\ lapses.call < MaxLapses
          /\ lapses' = [lapses EXCEPT !.call = @ + 1]
    /\ UNCHANGED <<inner, call, faults, bucketVars, queueVars, flushVars,
                   historyVars>>

\* The renew task extends the lease of its token, run out or not.
Renew(c) ==
    /\ call[c].pc \notin Stopped
    /\ claim = [token |-> c, live |-> FALSE]
    /\ claim' = [claim EXCEPT !.live = TRUE]
    /\ UNCHANGED <<inner, call, bucketVars, queueVars, flushVars, boundVars,
                   historyVars>>

FlushLapse ==
    /\ flushClaim.live
    /\ flushClaim' = [flushClaim EXCEPT !.live = FALSE]
    /\ \/ flushClaim.token = Nobody /\ UNCHANGED lapses
       \/ /\ flushClaim.token # Nobody
          /\ lapses.flush < MaxFlushLapses
          /\ lapses' = [lapses EXCEPT !.flush = @ + 1]
    /\ UNCHANGED <<claim, inner, call, flusher, faults, bucketVars, queueVars,
                   historyVars>>

----------------------------------------------------------------------------
(* Recovery and the read path.                                              *)

\* Mutant: recovery leaves the prepared entry of a lost writer as it is.
NeverSettled(e) == e

\* settle_thread_state: a prepared entry whose writer lost its claim is
\* aborted.
Settled(e) ==
    IF e.status = "Prepared" /\ ~Current(e.token)
    THEN [e EXCEPT !.status = "Aborted"] ELSE e

\* Committed entries that a writer did not live to announce.
Unannounced == {s \in Snapshot : wal[s].status = "Committed" /\ s > meta.latest}

Announced(s, js) == [reserved |-> Greatest({meta.reserved, s}),
                     latest |-> s, latestJs |-> js]

\* reconcile_thread_tail
Reconciled ==
    /\ wal' = [s \in Snapshot |-> Settled(wal[s])]
    /\ meta' = IF Unannounced = {} THEN meta
               ELSE LET top == Greatest(Unannounced)
                    IN Announced(top, wal[top].js)
    /\ cached' = [r \in Run |-> Greatest({cached[r]} \cup
                   {s \in Unannounced : stream[wal[s].js].run = r})]

\* load_thread_overlay, what a read finds once it has reconciled: the entry
\* the hot metadata points to, or the inner store when all is flushed or the
\* entry at that position has another thread_seq.
Overlay ==
    LET top == Greatest({meta.latest} \cup Unannounced)
        js == IF top > meta.latest THEN wal[top].js ELSE meta.latestJs
    IN IF top > flushed /\ js # 0 /\ stream[js].seq = top
       THEN top ELSE inner.thread

\* Any read of the thread, by any server, reconciles first.
Reconcile ==
    /\ Reconciled
    /\ UNCHANGED <<claim, flushed, inner, call, queueVars, flushVars,
                   boundVars, historyVars>>

----------------------------------------------------------------------------
(* checkpoint(): writer.rs                                                  *)

\* The projected thread is computed from the thread as it is read now.
Project(c) ==
    /\ call[c].pc = "claimed"
    /\ Reconciled
    /\ call' = [call EXCEPT ![c].pc = "projected", ![c].basis = Overlay]
    /\ UNCHANGED <<claim, flushed, inner, queueVars, flushVars, boundVars,
                   historyVars>>

\* ensure_current, before the reservation and on both sides of the publish.
EnsureCurrent(c) ==
    /\ Current(c)
    /\ \/ call[c].pc = "projected" /\ Goto(c, "reserving")
       \/ call[c].pc = "prepared" /\ Goto(c, "publishing")
       \/ call[c].pc = "published" /\ Goto(c, "committing")
    /\ UNCHANGED <<claim, inner, bucketVars, queueVars, flushVars, boundVars,
                   historyVars>>

ReserveSeq(c) ==
    /\ call[c].pc = "reserving"
    /\ LET seq == Greatest({meta.reserved, meta.latest}) + 1
       IN /\ meta' = [meta EXCEPT !.reserved = seq]
          /\ call' = [call EXCEPT ![c].pc = "reserved", ![c].seq = seq]
    /\ UNCHANGED <<claim, flushed, wal, cached, inner, queueVars, flushVars,
                   boundVars, historyVars>>

MarkPrepared(c) ==
    /\ call[c].pc = "reserved"
    /\ wal[call[c].seq] = NoEntry
    /\ wal' = [wal EXCEPT ![call[c].seq] =
                  [status |-> "Prepared", token |-> c, js |-> 0]]
    /\ Goto(c, "prepared")
    /\ UNCHANGED <<claim, meta, flushed, cached, inner, queueVars, flushVars,
                   boundVars, historyVars>>

Publish(c) ==
    /\ call[c].pc = "publishing"
    /\ stream' = Append(stream, [seq |-> call[c].seq, run |-> RunOf[c]])
    /\ call' = [call EXCEPT ![c].pc = "published", ![c].js = Len(stream')]
    /\ basis' = [basis EXCEPT ![call[c].seq] = call[c].basis]
    /\ UNCHANGED <<claim, delivered, acked, inner, committed, bucketVars,
                   flushVars, boundVars>>

\* mark_committed reads the entry and checks the claim ...
ReadPrepared(c) ==
    /\ call[c].pc = "committing"
    /\ wal[call[c].seq].status = "Prepared"
    /\ wal[call[c].seq].token = c
    /\ Current(c)
    /\ Goto(c, "deciding")
    /\ UNCHANGED <<claim, inner, bucketVars, queueVars, flushVars, boundVars,
                   historyVars>>

\* ... then updates the revision it read: an entry that changed in between
\* is read again.
MarkCommitted(c) ==
    /\ call[c].pc = "deciding"
    /\ LET seq == call[c].seq
       IN \/ /\ wal[seq] = [status |-> "Prepared", token |-> c, js |-> 0]
             /\ wal' = [wal EXCEPT ![seq] = [status |-> "Committed",
                           token |-> c, js |-> call[c].js]]
             /\ committed' = committed \cup {call[c].js}
             /\ Goto(c, "committed")
          \/ /\ wal[seq] # [status |-> "Prepared", token |-> c, js |-> 0]
             /\ Goto(c, "committing")
             /\ UNCHANGED <<wal, committed>>
    /\ UNCHANGED <<claim, meta, flushed, cached, inner, basis, queueVars,
                   flushVars, boundVars>>

CacheRun(c) ==
    /\ call[c].pc = "committed"
    /\ cached' = [cached EXCEPT ![RunOf[c]] = Greatest({@, call[c].seq})]
    /\ Goto(c, "cached")
    /\ UNCHANGED <<claim, meta, flushed, wal, inner, queueVars, flushVars,
                   boundVars, historyVars>>

\* promote_latest_seq
Promoted(seq, js) ==
    meta' = IF meta.latest >= seq THEN meta
            ELSE Announced(seq, js)

\* The last write of a checkpoint, then the claim is released.
Promote(c) ==
    /\ call[c].pc = "cached"
    /\ Promoted(call[c].seq, call[c].js)
    /\ claim' = Released(claim, c)
    /\ Goto(c, "ok")
    /\ UNCHANGED <<flushed, wal, cached, inner, queueVars, flushVars,
                   boundVars, historyVars>>

\* A failed check, or an error of the bucket or the stream: the entry is
\* aborted unless it is committed, and the claim released.
Failing(c) ==
    \/ /\ call[c].pc \in {"projected", "prepared", "published"} /\ ~Current(c)
       /\ UNCHANGED faults
    \/ /\ call[c].pc = "reserved" /\ wal[call[c].seq] # NoEntry
       /\ UNCHANGED faults
    \/ /\ call[c].pc = "committing"
       /\ ~Current(c) \/ wal[call[c].seq].status # "Prepared"
       /\ UNCHANGED faults
    \/ /\ call[c].pc \notin Stopped
       /\ faults < MaxFaults
       /\ faults' = faults + 1

Fail(c) ==
    /\ Failing(c)
    /\ wal' = [s \in Snapshot |->
                 IF s = call[c].seq /\ wal[s].status = "Prepared"
                      /\ wal[s].token = c
                 THEN [wal[s] EXCEPT !.status = "Aborted"] ELSE wal[s]]
    /\ claim' = Released(claim, c)
    /\ Goto(c, IF call[c].pc \in {"committed", "cached"} THEN "unknown"
               ELSE "error")
    /\ UNCHANGED <<meta, flushed, cached, inner, lapses, queueVars, flushVars,
                   historyVars>>

Crash(c) ==
    /\ call[c].pc \notin Stopped
    /\ faults < MaxFaults
    /\ faults' = faults + 1
    /\ Goto(c, "crashed")
    /\ UNCHANGED <<claim, inner, lapses, bucketVars, queueVars, flushVars,
                   historyVars>>

----------------------------------------------------------------------------
(* delete_thread(): mod.rs                                                  *)

\* force_flush_all_pending, under the claim: reconcile, then wait.
Drain(c) ==
    /\ call[c].pc = "claimed"
    /\ Reconciled
    /\ Goto(c, "draining")
    /\ UNCHANGED <<claim, flushed, inner, queueVars, flushVars, boundVars,
                   historyVars>>

\* Once all is flushed the inner store forgets the thread; its runs stay.
DeleteInner(c) ==
    /\ call[c].pc = "draining"
    /\ meta.latest <= flushed
    /\ Current(c)
    /\ inner' = [inner EXCEPT !.thread = 0, !.messages = 0]
    /\ Goto(c, "deleted")
    /\ UNCHANGED <<claim, bucketVars, queueVars, flushVars, boundVars,
                   historyVars>>

\* write_delete_tombstone reads the watermark ...
ReadWatermark(c) ==
    /\ call[c].pc = "deleted"
    /\ Current(c)
    /\ call' = [call EXCEPT ![c].pc = "marking",
                   ![c].seq = Greatest({meta.reserved, meta.latest, flushed})]
    /\ UNCHANGED <<claim, inner, bucketVars, queueVars, flushVars, boundVars,
                   historyVars>>

\* Mutant: the deletion forgets the watermark.
PutNothing(c) ==
    /\ call[c].pc = "marking"
    /\ meta' = [reserved |-> 0, latest |-> 0, latestJs |-> 0]
    /\ flushed' = 0
    /\ Goto(c, "marked")
    /\ UNCHANGED <<claim, wal, cached, inner, queueVars, flushVars, boundVars,
                   historyVars>>

\* ... and puts it, whatever is stored by now, so that a thread of the same
\* id does not use an old sequence number again.
PutTombstone(c) ==
    /\ call[c].pc = "marking"
    /\ LET watermark == call[c].seq
       IN /\ meta' = [reserved |-> watermark, latest |-> watermark,
                      latestJs |-> 0]
          /\ flushed' = watermark
    /\ Goto(c, "marked")
    /\ UNCHANGED <<claim, wal, cached, inner, queueVars, flushVars, boundVars,
                   historyVars>>

ClearEntries(c) ==
    /\ call[c].pc = "marked"
    /\ wal' = [s \in Snapshot |-> NoEntry]
    /\ claim' = Released(claim, c)
    /\ Goto(c, IF Current(c) THEN "ok" ELSE "error")
    /\ UNCHANGED <<meta, flushed, cached, inner, queueVars, flushVars,
                   boundVars, historyVars>>

\* The claim was lost between two steps of the deletion.
LoseDeletion(c) ==
    /\ call[c].pc \in {"draining", "deleted"}
    /\ ~Current(c)
    /\ claim' = Released(claim, c)
    /\ Goto(c, "error")
    /\ UNCHANGED <<inner, bucketVars, queueVars, flushVars, boundVars,
                   historyVars>>

----------------------------------------------------------------------------
(* The flusher: flusher.rs                                                  *)

Held(f) == flusher[f].batch

\* The consumer hands out the next entry, or again one that was handed back
\* or whose flusher died; one that a flusher still holds is handed out again
\* when ack_wait has passed.
Pull(f, js) ==
    /\ flusher[f].pc = "idle"
    /\ js \in DOMAIN stream \ (acked \cup Held(f))
    /\ js <= delivered + 1
    /\ delivered' = Greatest({delivered, js})
    /\ \/ \A g \in Flusher : js \notin Held(g)
          /\ UNCHANGED faults
       \/ /\ \E g \in Flusher : js \in Held(g)
          /\ faults < MaxFaults
          /\ faults' = faults + 1
    /\ flusher' = [flusher EXCEPT ![f].batch = @ \cup {js}]
    /\ UNCHANGED <<claim, stream, acked, inner, call, flushClaim, lapses,
                   bucketVars, historyVars>>

\* Mutant: the flush claim is taken whoever holds it.
SeizeFlush(f) ==
    /\ flusher[f].pc = "idle"
    /\ Held(f) # {}
    /\ flushClaim' = [token |-> f, live |-> TRUE]
    /\ flusher' = [flusher EXCEPT ![f].pc = "classify", ![f].flushed = flushed]
    /\ UNCHANGED <<claim, inner, call, bucketVars, queueVars, boundVars,
                   historyVars>>

\* with_flush_claim: the watermarks of the batch are read under the claim.
AcquireFlush(f) ==
    /\ flusher[f].pc = "idle"
    /\ Held(f) # {}
    /\ ~flushClaim.live
    /\ flushClaim' = [token |-> f, live |-> TRUE]
    /\ flusher' = [flusher EXCEPT ![f].pc = "classify", ![f].flushed = flushed]
    /\ UNCHANGED <<claim, inner, call, bucketVars, queueVars, boundVars,
                   historyVars>>

\* classify_entry, once its state is settled: an entry is to be flushed, is
\* acknowledged without effect (aborted, superseded or a leftover), or must
\* come back.
\* Mutant: a prepared entry is flushed as well.
IsWritten(e, js) == e.status \in {"Prepared", "Committed"}
IsCommitted(e, js) == e.status = "Committed" /\ e.js = js
IsIgnored(e, seq, f) ==
    \/ e.status = "Aborted"
    \/ e.status = "None" /\ seq <= flusher[f].flushed

Ignored(f) == {js \in Held(f) :
    LET e == Settled(wal[stream[js].seq])
    IN IsIgnored(e, stream[js].seq, f)
         \/ (e.status = "Committed" /\ e.js # js)}
ToFlush(f) == {js \in Held(f) : IsCommitted(Settled(wal[stream[js].seq]), js)}

Classify(f) ==
    /\ flusher[f].pc = "classify"
    /\ wal' = [s \in Snapshot |->
                 IF \E js \in Held(f) : stream[js].seq = s
                 THEN Settled(wal[s]) ELSE wal[s]]
    /\ flusher' = [flusher EXCEPT ![f].pc = "stale", ![f].todo = ToFlush(f),
                                  ![f].ignored = Ignored(f)]
    /\ UNCHANGED <<claim, meta, flushed, cached, inner, call, flushClaim,
                   queueVars, boundVars, historyVars>>

\* build_flush_projection: the newest entry of the batch, and the newest
\* entry of every run.
Top(f) == Greatest({stream[js].seq : js \in flusher[f].todo})
TopJs(f) == CHOOSE js \in flusher[f].todo : stream[js].seq = Top(f)
RunSeq(f, r) == Greatest({stream[js].seq :
                    js \in {j \in flusher[f].todo : stream[j].run = r}})

\* Mutant: runs that the watermark has passed are not looked at.
SkipStale(f) ==
    /\ flusher[f].pc = "stale"
    /\ flusher' = [flusher EXCEPT
          ![f].pc = IF Top(f) > flusher[f].flushed THEN "runs" ELSE "finish",
          ![f].rest = {r \in Run : RunSeq(f, r) > flusher[f].flushed}]
    /\ UNCHANGED <<claim, inner, call, flushClaim, bucketVars, queueVars,
                   boundVars, historyVars>>

\* persist_stale_runs_without_projection: a run the watermark has passed is
\* created when the inner store has no record of it, else left as it is.
PersistStale(f) ==
    /\ flusher[f].pc = "stale"
    /\ inner' = [inner EXCEPT !.run = [r \in Run |->
                    IF RunSeq(f, r) \in 1..flusher[f].flushed /\ @[r] = 0
                    THEN RunSeq(f, r) ELSE @[r]]]
    /\ flusher' = [flusher EXCEPT
          ![f].pc = IF Top(f) > flusher[f].flushed THEN "runs" ELSE "finish",
          ![f].rest = {r \in Run : RunSeq(f, r) > flusher[f].flushed}]
    /\ UNCHANGED <<claim, call, flushClaim, bucketVars, queueVars, boundVars,
                   historyVars>>

\* ensure_flush_claim_current, before every write of the projection; the
\* batch is not acknowledged when the claim is lost.
EnsureFlushCurrent(f) ==
    /\ flusher[f].pc \in {"runs", "thread", "messages", "latest", "flushed"}
    /\ ~flusher[f].armed
    /\ flusher' = IF FlushCurrent(f)
                  THEN [flusher EXCEPT ![f].armed = TRUE]
                  ELSE [flusher EXCEPT ![f].pc = "finish", ![f].todo = {}]
    /\ UNCHANGED <<claim, inner, call, flushClaim, bucketVars, queueVars,
                   boundVars, historyVars>>

\* The inner checkpoint of one fresh run, the oldest first, with the newest
\* messages.
ApplyRun(f) ==
    /\ flusher[f].pc = "runs" /\ flusher[f].armed
    /\ \E r \in flusher[f].rest :
          /\ \A q \in flusher[f].rest : RunSeq(f, r) <= RunSeq(f, q)
          /\ inner' = [thread |-> RunSeq(f, r), messages |-> Top(f),
                       run |-> [inner.run EXCEPT ![r] = RunSeq(f, r)]]
          /\ flusher' = [flusher EXCEPT ![f].armed = FALSE,
                ![f].rest = @ \ {r},
                ![f].pc = IF flusher[f].rest = {r} THEN "thread" ELSE "runs"]
    /\ UNCHANGED <<claim, call, flushClaim, bucketVars, queueVars, boundVars,
                   historyVars>>

SaveThread(f) ==
    /\ flusher[f].pc = "thread" /\ flusher[f].armed
    /\ inner' = [inner EXCEPT !.thread = Top(f)]
    /\ FlushGoto(f, "messages")
    /\ UNCHANGED <<claim, call, flushClaim, bucketVars, queueVars, boundVars,
                   historyVars>>

\* (The code compares with the latest_seq it read under the flush claim; when
\* that is out of date, its promotion changes nothing.)
SaveMessages(f) ==
    /\ flusher[f].pc = "messages" /\ flusher[f].armed
    /\ inner' = [inner EXCEPT !.messages = Top(f)]
    /\ FlushGoto(f, IF Top(f) > meta.latest THEN "latest" ELSE "flushed")
    /\ UNCHANGED <<claim, call, flushClaim, bucketVars, queueVars, boundVars,
                   historyVars>>

PromoteFlushed(f) ==
    /\ flusher[f].pc = "latest" /\ flusher[f].armed
    /\ Promoted(Top(f), TopJs(f))
    /\ FlushGoto(f, "flushed")
    /\ UNCHANGED <<claim, flushed, wal, cached, inner, call, flushClaim,
                   queueVars, boundVars, historyVars>>

WriteFlushed(f) ==
    /\ flusher[f].pc = "flushed" /\ flusher[f].armed
    /\ flushed' = Greatest({flushed, Top(f)})
    /\ FlushGoto(f, "finish")
    /\ UNCHANGED <<claim, meta, wal, cached, inner, call, flushClaim,
                   queueVars, boundVars, historyVars>>

\* A write of the inner store or of a watermark fails.
FlushError(f) ==
    /\ flusher[f].pc \notin {"idle", "classify", "finish"}
    /\ faults < MaxFaults
    /\ faults' = faults + 1
    /\ flusher' = [flusher EXCEPT ![f].pc = "finish", ![f].todo = {},
                                  ![f].armed = FALSE]
    /\ UNCHANGED <<claim, inner, call, flushClaim, lapses, bucketVars,
                   queueVars, historyVars>>

\* finish_wal_messages: an acknowledged entry's state is deleted.  The
\* acknowledgement may not arrive, or the deletion fail.
Acknowledge(f, js) ==
    /\ flusher[f].pc = "finish"
    /\ js \in flusher[f].todo \cup flusher[f].ignored
    /\ LET ack == acked' = acked \cup {js}
           delete == wal' = [wal EXCEPT ![stream[js].seq] = NoEntry]
       IN \/ ack /\ delete /\ UNCHANGED faults
          \/ /\ faults < MaxFaults
             /\ faults' = faults + 1
             /\ \/ UNCHANGED acked /\ delete
                \/ ack /\ UNCHANGED wal
    /\ flusher' = [flusher EXCEPT ![f].batch = @ \ {js},
                       ![f].todo = @ \ {js}, ![f].ignored = @ \ {js}]
    /\ UNCHANGED <<claim, meta, flushed, cached, stream, delivered, inner,
                   call, flushClaim, lapses, historyVars>>

\* What is left of the batch is handed back, and the flush claim released.
EndBatch(f) ==
    /\ flusher[f].pc = "finish"
    /\ flusher[f].todo \cup flusher[f].ignored = {}
    /\ flushClaim' = Released(flushClaim, f)
    /\ flusher' = [flusher EXCEPT ![f] = Idle]
    /\ UNCHANGED <<claim, inner, call, bucketVars, queueVars, boundVars,
                   historyVars>>

\* The server dies, or gives up on a claim it cannot have: its batch is
\* neither acknowledged nor handed back, the claim left to run out.
CrashFlusher(f) ==
    /\ flusher[f] # Idle
    /\ faults < MaxFaults
    /\ faults' = faults + 1
    /\ flusher' = [flusher EXCEPT ![f] = Idle]
    /\ flushClaim' = IF flushClaim.token = f
                     THEN [flushClaim EXCEPT !.token = Nobody] ELSE flushClaim
    /\ UNCHANGED <<claim, inner, call, lapses, bucketVars, queueVars,
                   historyVars>>

----------------------------------------------------------------------------
WalInit ==
    /\ claim = [token |-> Nobody, live |-> FALSE]
    /\ meta = [reserved |-> 0, latest |-> 0, latestJs |-> 0]
    /\ flushed = 0
    /\ wal = [s \in Snapshot |-> NoEntry]
    /\ cached = [r \in Run |-> 0]
    /\ stream = <<>>
    /\ delivered = 0
    /\ acked = {}
    /\ inner = [thread |-> 0, messages |-> 0, run |-> [r \in Run |-> 0]]
    /\ call = [c \in Call |-> [pc |-> "idle", seq |-> 0, js |-> 0, basis |-> 0]]
    /\ flushClaim = [token |-> Nobody, live |-> FALSE]
    /\ flusher = [f \in Flusher |-> Idle]
    /\ lapses = [call |-> 0, flush |-> 0]
    /\ faults = 0
    /\ basis = [s \in Snapshot |-> Unread]
    /\ committed = {}

CheckpointStep(c) ==
    \/ Project(c) \/ EnsureCurrent(c) \/ ReserveSeq(c) \/ MarkPrepared(c)
    \/ Publish(c) \/ ReadPrepared(c) \/ MarkCommitted(c)
    \/ CacheRun(c) \/ Promote(c) \/ Fail(c)

DeletionStep(c) ==
    \/ Drain(c) \/ DeleteInner(c) \/ ReadWatermark(c) \/ PutTombstone(c)
    \/ ClearEntries(c) \/ LoseDeletion(c)

FlusherStep(f) ==
    \/ \E js \in DOMAIN stream : Pull(f, js) \/ Acknowledge(f, js)
    \/ AcquireFlush(f) \/ Classify(f) \/ PersistStale(f)
    \/ EnsureFlushCurrent(f) \/ ApplyRun(f) \/ SaveThread(f)
    \/ SaveMessages(f) \/ PromoteFlushed(f) \/ WriteFlushed(f)
    \/ FlushError(f) \/ EndBatch(f) \/ CrashFlusher(f)

WalNext ==
    \/ \E c \in Call : Acquire(c) \/ Renew(c) \/ Crash(c)
    \/ \E c \in Checkpoint : CheckpointStep(c)
    \/ \E c \in Deletion : DeletionStep(c)
    \/ \E f \in Flusher : FlusherStep(f)
    \/ Lapse \/ FlushLapse \/ Reconcile

WalSpec == WalInit /\ [][WalNext]_walVars

----------------------------------------------------------------------------
\* Type invariant: the positions that the bucket, the consumer and the
\* flushers hold are positions of the stream, and no two entries of it have the
\* same sequence number: neither two writers, of whom one lost its claim, nor a
\* recreated thread and the deleted one (write_delete_tombstone) are given one.
WalTypeOK ==
    /\ \A i, j \in DOMAIN stream : i # j => stream[i].seq # stream[j].seq
    /\ claim.token \in Call \cup {Nobody} /\ claim.live \in BOOLEAN
    /\ flushClaim.token \in Flusher \cup {Nobody}
    /\ meta.reserved \in {0} \cup Snapshot
    /\ meta.latest \in 0..meta.reserved
    /\ meta.latestJs \in 0..Len(stream)
    /\ flushed \in {0} \cup Snapshot
    /\ \A s \in Snapshot :
          /\ wal[s].status \in {"None", "Prepared", "Committed", "Aborted"}
          /\ wal[s].js \in 0..Len(stream)
          /\ wal[s].status = "Committed" => wal[s].js # 0
    /\ acked \subseteq DOMAIN stream
    /\ \A f \in Flusher :
          flusher[f].todo \cup flusher[f].ignored \subseteq flusher[f].batch

\* An aborted or merely prepared checkpoint is never seen: what the inner
\* store holds, and what a read returns, was committed.
OnlyCommittedIsSeen ==
    {Overlay, inner.thread, inner.messages} \cup {inner.run[r] : r \in Run}
        \subseteq {0} \cup {stream[js].seq : js \in committed}

\* An entry is given up by the consumer only when it is in the inner store:
\* the watermark has passed it and its run has a record, whichever flusher
\* took it, however often it was delivered; unless the thread was deleted.
Deleted(seq) == \E x \in Deletion : seq <= call[x].seq

AckedIsStored ==
    \A js \in acked \cap committed :
        /\ stream[js].seq <= flushed
        /\ inner.run[stream[js].run] # 0 \/ Deleted(stream[js].seq)

\* Once all is flushed, reads go to the inner store: its thread and its
\* messages are then those of one checkpoint.
FlushedIsWhole ==
    Unannounced = {} /\ meta.latest <= flushed => inner.thread = inner.messages

\* flusher.rs says of the runs of a batch "one per unique run_id (latest
\* version by thread_seq)": a run whose entries are all acknowledged is
\* stored as it was committed last.
StoredRunIsLatest ==
    \A js \in committed :
        (\A k \in committed : stream[k].run = stream[js].run => k \in acked)
            => inner.run[stream[js].run] >= stream[js].seq

\* What a read returns, a checkpoint replaces: no committed checkpoint is
\* overwritten by one computed without it, whoever lost its claim when, and
\* no committed checkpoint stops being readable, whoever crashed when.
Register == INSTANCE CheckpointRegister WITH value <- Overlay
ImplementsRegister == Register!Spec
=============================================================================
