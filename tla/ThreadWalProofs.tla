-------------------------- MODULE ThreadWalProofs --------------------------
(***************************************************************************)
(* Proofs about ThreadWal, for any calls, runs, flushers and faults.       *)
(*                                                                         *)
(* WalIInv is inductive as long as no claim lapses while a deletion puts   *)
(* its tombstone (NoLapseMarking): no more numbers are reserved than calls *)
(* have one, who holds the claim with a number has the greatest, a         *)
(* committed entry keeps its state in the bucket until it is stored, and   *)
(* a flusher that writes has its batch and the runs left to write.         *)
(*                                                                         *)
(* FlushInv adds what holds until a flush claim lapses under its flusher:  *)
(* one flusher at a time, and only one call that can still commit, which   *)
(* has read what a read finds now.  From it the inner store is whole, and  *)
(* ThreadWal implements CheckpointRegister.                                *)
(***************************************************************************)
EXTENDS ThreadWal, FiniteSetTheorems, WellFoundedInduction, TLAPS

-----------------------------------------------------------------------------
(* The inductive invariant.                                                *)

Entry == [status : {"None", "Prepared", "Committed", "Aborted"},
          token : Call \cup {Nobody}, js : Nat]
Message == [seq : Snapshot, run : Run]
CallRecord == [pc : Stopped \cup CheckpointSteps \cup DeletionSteps,
               seq : {0} \cup Snapshot, js : Nat, basis : {0} \cup Snapshot]
Writing == {"runs", "thread", "messages", "latest", "flushed"}
FlusherRecord == [pc : {"idle", "classify", "stale", "finish"} \cup Writing,
                  batch : SUBSET Nat, flushed : {0} \cup Snapshot,
                  todo : SUBSET Nat, ignored : SUBSET Nat,
                  rest : SUBSET Run, armed : BOOLEAN]

Types ==
    /\ claim \in [token : Call \cup {Nobody}, live : BOOLEAN]
    /\ meta \in [reserved : {0} \cup Snapshot, latest : {0} \cup Snapshot, latestJs : Nat]
    /\ flushed \in {0} \cup Snapshot
    /\ wal \in [Snapshot -> Entry]
    /\ cached \in [Run -> {0} \cup Snapshot]
    /\ stream \in Seq(Message)
    /\ delivered \in Nat
    /\ acked \subseteq DOMAIN stream
    /\ inner \in [thread : {0} \cup Snapshot, messages : {0} \cup Snapshot,
                  run : [Run -> {0} \cup Snapshot]]
    /\ call \in [Call -> CallRecord]
    /\ flushClaim \in [token : Flusher \cup {Nobody}, live : BOOLEAN]
    /\ flusher \in [Flusher -> FlusherRecord]
    /\ lapses \in [call : Nat, flush : Nat]
    /\ faults \in Nat
    /\ basis \in [Snapshot -> {0, Unread} \cup Snapshot]
    /\ committed \subseteq DOMAIN stream

\* The stream has a message of sequence number s.
InStream(s) == \E js \in DOMAIN stream : stream[js].seq = s
\* c is about to append one.
Publishes(c) == call[c].pc = "publishing"
\* s is at least every sequence number in the stream, or about to be.
Above(s) == /\ \A js \in DOMAIN stream : stream[js].seq <= s
            /\ \A c \in Checkpoint : Publishes(c) => call[c].seq <= s

Unreserved == {"idle", "claimed", "projected", "reserving"}
Numbered == {c \in Checkpoint : call[c].seq # 0}

SeqInv ==
    /\ meta.reserved <= Cardinality(Numbered)
    /\ \A c \in Checkpoint : call[c].pc \in Unreserved => call[c].seq = 0
    /\ \A c \in Checkpoint :
          call[c].pc \in {"reserved", "prepared", "publishing", "published", "committing",
                          "deciding", "committed", "cached"} => call[c].seq # 0
    /\ \A x \in Deletion :
          call[x].pc \in {"idle", "claimed", "draining", "deleted"} => call[x].seq = 0
    /\ flushed <= meta.latest /\ meta.latest <= meta.reserved
    /\ Above(meta.reserved)
    /\ \A i, j \in DOMAIN stream : i # j => stream[i].seq # stream[j].seq
    /\ \A c \in Checkpoint : Publishes(c) => ~InStream(call[c].seq)
    /\ \A c, b \in Checkpoint :
          Publishes(c) /\ Publishes(b) /\ c # b => call[c].seq # call[b].seq

\* Who holds the claim and has reserved a number has the greatest.
OwnerInv ==
    \A c \in Checkpoint :
        claim.token = c /\ call[c].pc \in {"reserved", "prepared", "publishing"} =>
            /\ call[c].seq <= meta.reserved
            /\ \A js \in DOMAIN stream : stream[js].seq < call[c].seq
            /\ \A b \in Checkpoint : Publishes(b) /\ b # c => call[b].seq < call[c].seq

Marking == {"marking", "marked"}
TombInv ==
    \A x \in Deletion : call[x].pc \in Marking =>
        /\ Current(x)
        /\ meta.latest <= call[x].seq /\ call[x].seq <= meta.reserved
        /\ Above(call[x].seq)
        /\ call[x].pc = "marked" => call[x].seq <= flushed

AtMost == {"published", "committing", "deciding", "committed", "cached"}
EntryInv ==
    /\ \A s \in Snapshot :
          /\ wal[s].status = "Committed" =>
                wal[s].js \in committed /\ stream[wal[s].js].seq = s
          /\ wal[s].status # "Committed" => wal[s].js = 0
    /\ \A c \in Checkpoint :
          /\ call[c].pc \in AtMost =>
                /\ call[c].js \in DOMAIN stream
                /\ stream[call[c].js] = [seq |-> call[c].seq, run |-> RunOf[c]]
          /\ call[c].pc \in {"committed", "cached"} => call[c].js \in committed
    /\ meta.latestJs # 0 =>
          meta.latestJs \in committed /\ stream[meta.latestJs].seq = meta.latest
    /\ meta.latest > flushed => meta.latestJs # 0

\* The entry at js is in the inner store, or its thread was deleted.
IsStored(js) ==
    /\ js \in committed
    /\ stream[js].seq <= flushed
    /\ inner.run[stream[js].run] # 0 \/ Deleted(stream[js].seq)

Undecided == {"published", "committing", "deciding"}
\* c can still commit.
IsOpen(c) == /\ wal[call[c].seq].status = "Prepared"
             /\ wal[call[c].seq].token = c

\* The entry at js is not committed and never will be.
IsDead(js) ==
    /\ js \notin committed
    /\ \A c \in Checkpoint : call[c].pc \in Undecided /\ call[c].js = js => ~IsOpen(c)

IsKept(js) == LET e == wal[stream[js].seq] IN e.status = "Committed" /\ e.js = js

StoreInv ==
    /\ \A js \in committed : IsKept(js) \/ IsStored(js)
    /\ \A js \in acked : IsStored(js) \/ IsDead(js)

\* s is the number of a committed entry, or none.
WasCommitted(s) == s = 0 \/ \E js \in committed : stream[js].seq = s
InnerInv ==
    /\ WasCommitted(inner.thread) /\ WasCommitted(inner.messages)
    /\ \A r \in Run : WasCommitted(inner.run[r])

FlusherInv(f) ==
    /\ flusher[f].batch \subseteq DOMAIN stream
    /\ flusher[f].todo \subseteq flusher[f].batch \cap committed
    /\ flusher[f].ignored \subseteq flusher[f].batch
    /\ flusher[f].pc \in {"idle", "classify"} =>
          flusher[f].todo = {} /\ flusher[f].ignored = {}
    /\ flusher[f].flushed <= flushed
    /\ \A js \in flusher[f].ignored : IsStored(js) \/ IsDead(js)
    /\ flusher[f].pc \in Writing =>
          /\ flusher[f].flushed < Top(f)
          /\ \A r \in flusher[f].rest : RunSeq(f, r) # 0
          /\ \A js \in flusher[f].todo :
                \/ inner.run[stream[js].run] # 0
                \/ flusher[f].pc = "runs" /\ stream[js].run \in flusher[f].rest
    /\ flusher[f].pc = "flushed" => Top(f) <= meta.latest
    /\ flusher[f].pc = "finish" => \A js \in flusher[f].todo : IsStored(js)

WalIInv ==
    /\ Types /\ SeqInv /\ OwnerInv /\ TombInv /\ EntryInv /\ StoreInv /\ InnerInv
    /\ \A f \in Flusher : FlusherInv(f)

-----------------------------------------------------------------------------
(* What holds until a flush claim lapses under its flusher.                *)

\* The newest sequence number that is announced, or will be by the next reader.
Newest == Greatest({meta.latest} \cup Unannounced)

\* A flusher at work holds the flush claim.
FlushOne ==
    \A f \in Flusher : flusher[f].pc # "idle" => flushClaim = [token |-> f, live |-> TRUE]

\* Nothing was committed between the watermark that f read and the watermark.
FlushSees(f) ==
    flusher[f].pc \in {"classify", "stale"} \cup Writing =>
        \A js \in committed : stream[js].seq > flusher[f].flushed => stream[js].seq > flushed

\* What f has written of its projection is still there.
FlushWrote(f) ==
    /\ flusher[f].pc = "messages" => inner.thread = Top(f)
    /\ flusher[f].pc \in {"latest", "flushed"} => inner.thread = Top(f) /\ inner.messages = Top(f)

\* When reads go to the inner store, its thread and messages are of one checkpoint.
Whole == Newest <= flushed => inner.thread = inner.messages

\* c may still commit: it is past the check of its claim, its entry not aborted.
Hot(c) == call[c].pc \in {"publishing"} \cup Undecided /\ IsOpen(c)

Ready == {"projected", "reserving", "reserved", "prepared"}
Draining == {"draining", "deleted"} \cup Marking

\* One call at most may still commit, and it has read what a read finds now; so
\* has the holder of the claim, which nobody can overtake; and while a deletion
\* holds it, everything is announced, then flushed, then gone.
RegisterInv ==
    /\ \A c \in Checkpoint : Hot(c) =>
          /\ call[c].basis = Overlay /\ Newest < call[c].seq
    /\ \A c, b \in Checkpoint : Hot(c) /\ Hot(b) => c = b
    /\ \A c \in Checkpoint : call[c].pc \in Ready /\ claim.token = c =>
          /\ \A b \in Checkpoint : ~Hot(b)
          /\ call[c].basis = Overlay
          /\ call[c].pc \in {"reserved", "prepared"} => Newest < call[c].seq
    /\ \A x \in Deletion : call[x].pc \in Draining /\ claim.token = x =>
          /\ \A b \in Checkpoint : ~Hot(b)
          /\ Unannounced = {}
          /\ call[x].pc # "draining" =>
                meta.latest <= flushed /\ inner.thread = 0 /\ inner.messages = 0

\* What an appended entry was computed from is what its call has read, and older.
BasisInv ==
    /\ \A s \in Snapshot : basis[s] # Unread <=> InStream(s)
    /\ \A c \in Checkpoint : call[c].pc \in Undecided => basis[call[c].seq] = call[c].basis
    /\ \A c \in Checkpoint :
          /\ WasCommitted(call[c].basis)
          /\ call[c].pc \in {"reserved", "prepared", "publishing"} => call[c].basis < call[c].seq

FlushInv == /\ FlushOne /\ Whole /\ RegisterInv
            /\ \A f \in Flusher : FlushSees(f) /\ FlushWrote(f)
OneFlush == lapses.flush = 0 => FlushInv

-----------------------------------------------------------------------------
(* Greatest members.                                                       *)

\* A set of numbers that has a member has a least one.
LEMMA LeastOf ==
    ASSUME NEW S \in SUBSET Nat, S # {}
    PROVE  \E k \in S : \A n \in Nat : n < k => n \notin S
<1>1. PICK k \in S : \A n \in S : ~(<<n, k>> \in OpToRel(<, Nat))
  BY NatLessThanWellFounded, WFMin
<1>2. ASSUME NEW n \in Nat, n < k, n \in S
      PROVE  FALSE
  <2>1. <<n, k>> \in OpToRel(<, Nat)
    BY <1>2 DEF OpToRel
  <2> QED BY <2>1, <1>1, <1>2
<1> QED BY <1>2

\* A bounded set of numbers has a greatest member, or is empty: the least of its
\* bounds.
LEMMA GreatestIs ==
    ASSUME NEW S \in SUBSET Nat, NEW n \in Nat, \A y \in S : y <= n
    PROVE  /\ Greatest(S) \in S \cup {0}
           /\ \A y \in S : y <= Greatest(S)
<1> DEFINE Bound == {m \in Nat : \A y \in S : y <= m}
<1>1. n \in Bound OBVIOUS
<1>2. PICK k \in Bound : \A m \in Nat : m < k => m \notin Bound BY <1>1, LeastOf
<1>3. k \in S \cup {0}
  <2>1. SUFFICES ASSUME k \notin S, k # 0 PROVE FALSE OBVIOUS
  <2>2. k - 1 \in Nat /\ k - 1 < k BY <2>1
  <2>3. \A y \in S : y <= k - 1 BY <2>1
  <2> QED BY <1>2, <2>2, <2>3
<1>4. \E x \in S \cup {0} : \A y \in S : y <= x BY <1>2, <1>3
<1> QED BY <1>4, Zenon DEF Greatest

LEMMA GreatestIsUnique ==
    ASSUME NEW S \in SUBSET Nat, NEW n \in S \cup {0}, \A y \in S : y <= n
    PROVE  Greatest(S) = n
<1>1. n \in Nat OBVIOUS
<1>2. PICK g : g = Greatest(S) OBVIOUS
<1>3. g \in S \cup {0} /\ \A y \in S : y <= g BY <1>1, <1>2, GreatestIs
<1>4. g <= n /\ n <= g
  <2>1. g \in S => g <= n OBVIOUS
  <2>2. n \in S => n <= g BY <1>3
  <2> QED BY <1>1, <1>3, <2>1, <2>2
<1> QED BY <1>1, <1>2, <1>3, <1>4

LEMMA GreatestOfTwo ==
    ASSUME NEW a \in Nat, NEW b \in Nat
    PROVE  Greatest({a, b}) = IF a <= b THEN b ELSE a
<1>1. CASE a <= b
  <2>1. \A y \in {a, b} : y <= b BY <1>1
  <2> QED BY <1>1, <2>1, GreatestIsUnique
<1>2. CASE ~(a <= b)
  <2>1. \A y \in {a, b} : y <= a BY <1>2
  <2> QED BY <1>2, <2>1, GreatestIsUnique
<1> QED BY <1>1, <1>2

-----------------------------------------------------------------------------
(* Numbers.                                                                *)

LEMMA CountIsNat == IsFiniteSet(Checkpoint) /\ Cardinality(Checkpoint) \in Nat
BY WalAssumption, FS_CardinalityType

LEMMA SnapshotIsNat == /\ Snapshot \subseteq Nat /\ {0} \cup Snapshot \subseteq Nat /\ 0 \notin Snapshot
                       /\ \A s \in Snapshot : s <= Cardinality(Checkpoint)
                       /\ \A n \in Nat : n # 0 /\ n <= Cardinality(Checkpoint) => n \in Snapshot
BY CountIsNat DEF Snapshot

\* Snapshot numbers that satisfy some condition have a greatest one.
LEMMA GreatestSnapshot ==
    ASSUME NEW S \in SUBSET ({0} \cup Snapshot)
    PROVE  /\ Greatest(S) \in S \cup {0}
           /\ Greatest(S) \in {0} \cup Snapshot
           /\ \A y \in S : y <= Greatest(S)
<1>1. S \in SUBSET Nat /\ \A y \in S : y <= Cardinality(Checkpoint)
  BY SnapshotIsNat, CountIsNat
<1>2. Greatest(S) \in S \cup {0} /\ \A y \in S : y <= Greatest(S)
  BY <1>1, CountIsNat, GreatestIs
<1> QED BY <1>2

-----------------------------------------------------------------------------
(* What a read finds.                                                      *)

LEMMA NewestIs ==
    Types =>
        /\ Newest \in {0} \cup Snapshot /\ Newest \in Nat
        /\ meta.latest <= Newest /\ \A s \in Unannounced : s <= Newest
        /\ Newest = meta.latest \/ Newest \in Unannounced
<1> SUFFICES ASSUME Types PROVE
        /\ Newest \in {0} \cup Snapshot /\ Newest \in Nat
        /\ meta.latest <= Newest /\ \A s \in Unannounced : s <= Newest
        /\ Newest = meta.latest \/ Newest \in Unannounced
  OBVIOUS
<1> DEFINE S == {meta.latest} \cup Unannounced
<1>1. meta.latest \in {0} \cup Snapshot BY DEF Types
<1>2. S \in SUBSET ({0} \cup Snapshot) BY <1>1 DEF Unannounced
<1>3. PICK g : g = Greatest(S) OBVIOUS
<1>4. g \in S \cup {0} /\ g \in {0} \cup Snapshot /\ \A y \in S : y <= g
  BY <1>2, <1>3, GreatestSnapshot
<1>5. g = Newest BY <1>3 DEF Newest
<1>6. meta.latest <= g /\ \A s \in Unannounced : s <= g BY <1>4
<1>7. g \in Nat /\ meta.latest \in Nat BY <1>1, <1>4, SnapshotIsNat
<1>8. g = 0 => meta.latest = g BY <1>6, <1>7
<1> QED BY <1>4, <1>5, <1>6, <1>7, <1>8

LEMMA OverlayIs ==
    Types /\ EntryInv => Overlay = IF Newest > flushed THEN Newest ELSE inner.thread
<1> SUFFICES ASSUME Types, EntryInv
             PROVE  Overlay = IF Newest > flushed THEN Newest ELSE inner.thread
  OBVIOUS
<1> DEFINE js == IF Newest > meta.latest THEN wal[Newest].js ELSE meta.latestJs
<1>1. Overlay = IF Newest > flushed /\ js # 0 /\ stream[js].seq = Newest
                THEN Newest ELSE inner.thread
  BY Zenon DEF Overlay, Newest
<1>2. SUFFICES ASSUME Newest > flushed PROVE js # 0 /\ stream[js].seq = Newest
  BY <1>1
<1>3. /\ meta.latest \in Nat /\ flushed \in Nat /\ Newest \in Nat
      /\ meta.latest <= Newest
      /\ Newest = meta.latest \/ Newest \in Unannounced
  BY NewestIs, SnapshotIsNat DEF Types
<1>4. committed \subseteq Nat \ {0} BY DEF Types
<1>5. CASE Newest > meta.latest
  <2>1. Newest \in Snapshot /\ wal[Newest].status = "Committed" BY <1>3, <1>5 DEF Unannounced
  <2>2. wal[Newest].js \in committed /\ stream[wal[Newest].js].seq = Newest
    BY <2>1 DEF EntryInv
  <2> QED BY <1>4, <1>5, <2>2
<1>6. CASE Newest = meta.latest
  <2>1. meta.latestJs # 0 BY <1>2, <1>6 DEF EntryInv
  <2>2. stream[meta.latestJs].seq = meta.latest BY <2>1 DEF EntryInv
  <2> QED BY <1>3, <1>6, <2>1, <2>2
<1> QED BY <1>3, <1>5, <1>6

-----------------------------------------------------------------------------
(* Batches of a flusher.                                                   *)

LEMMA SeqOfMessage ==
    ASSUME Types, NEW js \in DOMAIN stream
    PROVE  /\ js \in Nat /\ js # 0
           /\ stream[js].seq \in Snapshot /\ stream[js].run \in Run
<1>1. stream \in Seq(Message) BY DEF Types
<1>2. stream[js] \in Message /\ js \in Nat /\ js # 0 BY <1>1
<1> QED BY <1>2 DEF Message

LEMMA TopIs ==
    ASSUME Types, NEW f \in Flusher, FlusherInv(f)
    PROVE  /\ Top(f) \in {0} \cup Snapshot
           /\ \A js \in flusher[f].todo : stream[js].seq <= Top(f)
           /\ Top(f) # 0 =>
                /\ \E js \in flusher[f].todo : stream[js].seq = Top(f)
                /\ TopJs(f) \in flusher[f].todo /\ stream[TopJs(f)].seq = Top(f)
<1> DEFINE S == {stream[js].seq : js \in flusher[f].todo}
<1>1. flusher[f].todo \subseteq DOMAIN stream BY DEF FlusherInv
<1>2. S \in SUBSET ({0} \cup Snapshot) BY <1>1, SeqOfMessage
<1>3. Top(f) = Greatest(S) BY DEF Top
<1>4. /\ Greatest(S) \in S \cup {0}
      /\ Greatest(S) \in {0} \cup Snapshot
      /\ \A y \in S : y <= Greatest(S)
  BY <1>2, GreatestSnapshot
<1>5. Top(f) # 0 => \E js \in flusher[f].todo : stream[js].seq = Top(f)
  BY <1>3, <1>4
<1>6. Top(f) # 0 => TopJs(f) \in flusher[f].todo /\ stream[TopJs(f)].seq = Top(f)
  BY <1>5, Zenon DEF TopJs
<1> QED BY <1>3, <1>4, <1>5, <1>6

LEMMA RunSeqIs ==
    ASSUME Types, NEW f \in Flusher, FlusherInv(f), NEW r \in Run
    PROVE  /\ RunSeq(f, r) \in {0} \cup Snapshot
           /\ \A js \in flusher[f].todo : stream[js].run = r => stream[js].seq <= RunSeq(f, r)
           /\ RunSeq(f, r) # 0 =>
                \E js \in flusher[f].todo : stream[js].seq = RunSeq(f, r) /\ stream[js].run = r
<1> DEFINE T == {j \in flusher[f].todo : stream[j].run = r}
           S == {stream[js].seq : js \in T}
<1>1. flusher[f].todo \subseteq DOMAIN stream BY DEF FlusherInv
<1>2. S \in SUBSET ({0} \cup Snapshot) BY <1>1, SeqOfMessage
<1>3. RunSeq(f, r) = Greatest(S) BY DEF RunSeq
<1>4. /\ Greatest(S) \in S \cup {0}
      /\ Greatest(S) \in {0} \cup Snapshot
      /\ \A y \in S : y <= Greatest(S)
  BY <1>2, GreatestSnapshot
<1> QED BY <1>3, <1>4

-----------------------------------------------------------------------------
(* Types.                                                                  *)

\* A prepared entry of somebody else is aborted; the rest stays.
LEMMA SettledIs ==
    ASSUME NEW e \in Entry
    PROVE  /\ Settled(e) \in Entry
           /\ Settled(e).token = e.token /\ Settled(e).js = e.js
           /\ e.status # "Prepared" => Settled(e) = e
           /\ Settled(e).status \in {e.status, "Aborted"}
           /\ Settled(e).status = "Prepared" => Settled(e) = e /\ Current(e.token)
<1>1. CASE e.status = "Prepared" /\ ~Current(e.token)
  <2>1. Settled(e) = [e EXCEPT !.status = "Aborted"] BY <1>1, Zenon DEF Settled
  <2> QED BY <1>1, <2>1 DEF Entry
<1>2. CASE ~(e.status = "Prepared" /\ ~Current(e.token))
  <2>1. Settled(e) = e BY <1>2, Zenon DEF Settled
  <2> QED BY <1>2, <2>1
<1> QED BY <1>1, <1>2

LEMMA ReconciledTypes ==
    ASSUME Types, Reconciled
    PROVE  /\ wal' \in [Snapshot -> Entry]
           /\ meta' \in [reserved : {0} \cup Snapshot, latest : {0} \cup Snapshot, latestJs : Nat]
           /\ cached' \in [Run -> {0} \cup Snapshot]
<1>1. wal' \in [Snapshot -> Entry]
  <2>1. \A s \in Snapshot : wal[s] \in Entry BY DEF Types
  <2> QED BY <2>1, SettledIs DEF Reconciled
<1>2. cached' \in [Run -> {0} \cup Snapshot]
  <2>1. ASSUME NEW r \in Run
        PROVE  Greatest({cached[r]} \cup {s \in Unannounced : stream[wal[s].js].run = r})
                 \in {0} \cup Snapshot
    BY GreatestSnapshot DEF Types, Unannounced
  <2> QED BY <2>1 DEF Reconciled
<1>3. meta' \in [reserved : {0} \cup Snapshot, latest : {0} \cup Snapshot, latestJs : Nat]
  <2>1. CASE Unannounced = {} BY <2>1 DEF Reconciled, Types
  <2>2. CASE Unannounced # {}
    <3>1. PICK top : top = Greatest(Unannounced) OBVIOUS
    <3>2. Unannounced \in SUBSET ({0} \cup Snapshot) BY DEF Unannounced
    <3>3. top \in Unannounced \cup {0} /\ \A y \in Unannounced : y <= top
      BY <3>1, <3>2, GreatestSnapshot
    <3>4. top \in Unannounced
      <4>1. PICK s \in Unannounced : TRUE BY <2>2
      <4>2. s \in Nat /\ s # 0 /\ s <= top BY <3>3, SnapshotIsNat DEF Unannounced
      <4> QED BY <3>3, <4>2
    <3>5. meta' = Announced(top, wal[top].js) BY <2>2, <3>1 DEF Reconciled
    <3>6. top \in Snapshot /\ wal[top] \in Entry BY <3>4 DEF Unannounced, Types
    <3>7. Greatest({meta.reserved, top}) \in {0} \cup Snapshot
      BY <3>6, GreatestSnapshot DEF Types
    <3> QED BY <3>5, <3>6, <3>7 DEF Announced, Entry
  <2> QED BY <2>1, <2>2
<1> QED BY <1>1, <1>2, <1>3

LEMMA PromotedTypes ==
    ASSUME Types, NEW s \in Snapshot, NEW js \in Nat, Promoted(s, js)
    PROVE  meta' \in [reserved : {0} \cup Snapshot, latest : {0} \cup Snapshot, latestJs : Nat]
<1>1. Greatest({meta.reserved, s}) \in {0} \cup Snapshot
  BY GreatestSnapshot DEF Types
<1> QED BY <1>1 DEF Promoted, Announced, Types

\* The next number is there: no call reserves twice.
LEMMA ReserveIs ==
    ASSUME Types, SeqInv, NEW c \in Checkpoint, ReserveSeq(c)
    PROVE  /\ meta.reserved + 1 \in Snapshot
           /\ meta' = [meta EXCEPT !.reserved = meta.reserved + 1]
           /\ call' = [call EXCEPT ![c] = [call[c] EXCEPT !.pc = "reserved",
                                                         !.seq = meta.reserved + 1]]
           /\ Numbered' = Numbered \cup {c} /\ c \notin Numbered
           /\ meta.reserved + 1 <= Cardinality(Numbered')
<1>1. meta.reserved \in Nat /\ meta.latest \in Nat /\ meta.latest <= meta.reserved
  BY SnapshotIsNat DEF Types, SeqInv
<1>2. Greatest({meta.reserved, meta.latest}) = meta.reserved BY <1>1, GreatestOfTwo
<1>3. /\ meta' = [meta EXCEPT !.reserved = meta.reserved + 1]
      /\ call' = [call EXCEPT ![c].pc = "reserved", ![c].seq = meta.reserved + 1]
  BY <1>2 DEF ReserveSeq
<1>4. c \in Call /\ call \in [Call -> CallRecord] BY DEF Types, Call
<1>5. call' = [call EXCEPT ![c] = [call[c] EXCEPT !.pc = "reserved",
                                                  !.seq = meta.reserved + 1]]
  BY <1>3, <1>4
<1>6. c \notin Numbered BY DEF ReserveSeq, SeqInv, Unreserved, Numbered
<1>7. Numbered' = Numbered \cup {c}
  <2>1. ASSUME NEW b \in Checkpoint
        PROVE  call'[b].seq # 0 <=> call[b].seq # 0 \/ b = c
    BY <1>1, <1>4, <1>5 DEF Call, CallRecord
  <2> QED BY <2>1 DEF Numbered
<1>8. IsFiniteSet(Numbered) BY CountIsNat, FS_Subset DEF Numbered
<1>9. Cardinality(Numbered \cup {c}) = Cardinality(Numbered) + 1 BY <1>6, <1>8, FS_AddElement
<1>10. Cardinality(Numbered \cup {c}) <= Cardinality(Checkpoint)
  <2>1. Numbered \cup {c} \in SUBSET Checkpoint BY DEF Numbered
  <2> QED BY <2>1, CountIsNat, FS_Subset
<1>11. Cardinality(Numbered) \in Nat BY <1>8, FS_CardinalityType
<1>12. meta.reserved + 1 <= Cardinality(Numbered \cup {c})
  BY <1>1, <1>9, <1>11 DEF SeqInv
<1>13. meta.reserved + 1 \in Snapshot
  BY <1>1, <1>10, <1>12, CountIsNat, SnapshotIsNat, <1>9, <1>11
<1> QED BY <1>3, <1>5, <1>6, <1>7, <1>12, <1>13

Places == Stopped \cup CheckpointSteps \cup DeletionSteps

\* Call c becomes q, the others stay.
Becomes(c, q) == /\ call'[c] = q
                 /\ \A b \in Call : b # c => call'[b] = call[b]
                 /\ call' \in [Call -> CallRecord]

LEMMA CallsAre ==
    ASSUME Types, NEW c \in Call, NEW q \in CallRecord, call' = [call EXCEPT ![c] = q]
    PROVE  Becomes(c, q)
BY DEF Types, Becomes

LEMMA GotoIs ==
    ASSUME Types, NEW c \in Call, NEW p \in Places, Goto(c, p)
    PROVE  Becomes(c, [call[c] EXCEPT !.pc = p])
<1>1. call[c] \in CallRecord /\ call \in [Call -> CallRecord] BY DEF Types
<1>2. [call[c] EXCEPT !.pc = p] \in CallRecord BY <1>1 DEF CallRecord, Places
<1>3. call' = [call EXCEPT ![c] = [call[c] EXCEPT !.pc = p]] BY <1>1, Zenon DEF Goto
<1> QED BY <1>2, <1>3, CallsAre

LEMMA OverlayTypes == Types => Overlay \in {0} \cup Snapshot
<1> SUFFICES ASSUME Types PROVE Overlay \in {0} \cup Snapshot OBVIOUS
<1>1. inner.thread \in {0} \cup Snapshot BY DEF Types
<1>2. Newest \in {0} \cup Snapshot BY NewestIs
<1>3. Overlay = inner.thread \/ Overlay = Newest BY Zenon DEF Overlay, Newest
<1> QED BY <1>1, <1>2, <1>3

LEMMA ProjectIs ==
    ASSUME Types, NEW c \in Checkpoint, Project(c)
    PROVE  Becomes(c, [call[c] EXCEPT !.pc = "projected", !.basis = Overlay])
<1>0. c \in Call BY DEF Call
<1>1. call[c] \in CallRecord /\ call \in [Call -> CallRecord] BY <1>0 DEF Types
<1>2. Overlay \in {0} \cup Snapshot BY OverlayTypes
<1>3. [call[c] EXCEPT !.pc = "projected", !.basis = Overlay] \in CallRecord
  BY <1>1, <1>2 DEF CallRecord, CheckpointSteps
<1>4. call' = [call EXCEPT ![c] = [call[c] EXCEPT !.pc = "projected", !.basis = Overlay]]
  BY <1>0, <1>1 DEF Project
<1> QED BY <1>0, <1>3, <1>4, CallsAre

LEMMA PublishIs ==
    ASSUME Types, SeqInv, NEW c \in Checkpoint, Publish(c)
    PROVE  /\ call[c].seq \in Snapshot
           /\ LET js == Len(stream) + 1
              IN  /\ Becomes(c, [call[c] EXCEPT !.pc = "published", !.js = js])
                  /\ stream' \in Seq(Message)
                  /\ js \in Nat /\ js \notin DOMAIN stream
                  /\ DOMAIN stream' = DOMAIN stream \cup {js}
                  /\ \A i \in DOMAIN stream : stream'[i] = stream[i]
                  /\ stream'[js] = [seq |-> call[c].seq, run |-> RunOf[c]]
<1>0. c \in Call BY DEF Call
<1>1. call[c] \in CallRecord /\ call \in [Call -> CallRecord] BY <1>0 DEF Types
<1>2. call[c].seq \in Snapshot BY <1>1 DEF Publish, SeqInv, CallRecord
<1>3. RunOf[c] \in Run BY WalAssumption
<1>4. [seq |-> call[c].seq, run |-> RunOf[c]] \in Message BY <1>2, <1>3 DEF Message
<1>5. stream \in Seq(Message) /\ stream' = Append(stream, [seq |-> call[c].seq, run |-> RunOf[c]])
  BY DEF Publish, Types
<1> DEFINE js == Len(stream) + 1
<1>6. /\ stream' \in Seq(Message) /\ Len(stream') = js
      /\ js \in Nat /\ js \notin DOMAIN stream
      /\ DOMAIN stream' = DOMAIN stream \cup {js}
      /\ \A i \in DOMAIN stream : stream'[i] = stream[i]
      /\ stream'[js] = [seq |-> call[c].seq, run |-> RunOf[c]]
  BY <1>4, <1>5
<1>7. [call[c] EXCEPT !.pc = "published", !.js = js] \in CallRecord
  BY <1>1, <1>6 DEF CallRecord, CheckpointSteps
<1>8. call' = [call EXCEPT ![c] = [call[c] EXCEPT !.pc = "published", !.js = js]]
  BY <1>0, <1>1, <1>6 DEF Publish
<1>9. Becomes(c, [call[c] EXCEPT !.pc = "published", !.js = js]) BY <1>0, <1>7, <1>8, CallsAre
<1> QED BY <1>2, <1>6, <1>9

LEMMA ReleasedTypes ==
    ASSUME NEW k \in [token : Call \cup {Nobody}, live : BOOLEAN], NEW c
    PROVE  /\ Released(k, c) \in [token : Call \cup {Nobody}, live : BOOLEAN]
           /\ Released(k, c).token = k.token
           /\ k.token # c => Released(k, c) = k
BY DEF Released

CallStep == \E c \in Call : Acquire(c) \/ Renew(c) \/ Crash(c)

LEMMA CallTypes ==
    ASSUME Types, Lapse \/ FlushLapse \/ CallStep
    PROVE  Types'
<1> USE DEF bucketVars, queueVars, flushVars, boundVars, historyVars
<1>1. CASE Lapse
  <2>1. claim' \in [token : Call \cup {Nobody}, live : BOOLEAN] BY <1>1 DEF Lapse, Types
  <2>2. lapses' \in [call : Nat, flush : Nat] BY <1>1 DEF Lapse, Types
  <2> QED BY <1>1, <2>1, <2>2 DEF Lapse, Types
<1>2. CASE FlushLapse
  <2>1. flushClaim' \in [token : Flusher \cup {Nobody}, live : BOOLEAN]
    BY <1>2 DEF FlushLapse, Types
  <2>2. lapses' \in [call : Nat, flush : Nat] BY <1>2 DEF FlushLapse, Types
  <2> QED BY <1>2, <2>1, <2>2 DEF FlushLapse, Types
<1>3. ASSUME NEW c \in Call, Acquire(c) PROVE Types'
  <2>1. call' \in [Call -> CallRecord]
    BY <1>3, GotoIs DEF Acquire, Becomes, Places, CheckpointSteps
  <2> QED BY <1>3, <2>1 DEF Acquire, Types
<1>4. ASSUME NEW c \in Call, Renew(c) PROVE Types'
  BY <1>4 DEF Renew, Types
<1>5. ASSUME NEW c \in Call, Crash(c) PROVE Types'
  <2>1. call' \in [Call -> CallRecord]
    BY <1>5, GotoIs DEF Crash, Becomes, Places, Stopped
  <2> QED BY <1>5, <2>1 DEF Crash, Types
<1> QED BY <1>1, <1>2, <1>3, <1>4, <1>5 DEF CallStep

LEMMA CheckpointTypes ==
    ASSUME Types, SeqInv, EntryInv, NEW c \in Checkpoint, CheckpointStep(c)
    PROVE  Types'
<1> USE DEF bucketVars, queueVars, flushVars, boundVars, historyVars
<1>0. c \in Call /\ call[c] \in CallRecord BY DEF Call, Types
<1>p. CheckpointSteps \cup Stopped \subseteq Places BY DEF Places
<1>1. CASE Project(c)
  <2>1. Reconciled BY <1>1 DEF Project
  <2>3. call' \in [Call -> CallRecord] BY <1>1, ProjectIs DEF Becomes
  <2> QED BY <1>1, <2>1, <2>3, ReconciledTypes DEF Project, Types
<1>2. CASE EnsureCurrent(c)
  <2>1. call' \in [Call -> CallRecord]
    BY <1>0, <1>p, <1>2, GotoIs DEF EnsureCurrent, Becomes, CheckpointSteps
  <2> QED BY <1>2, <2>1 DEF EnsureCurrent, Types
<1>3. CASE ReserveSeq(c)
  <2>1. call' \in [Call -> CallRecord]
    <3>1. [call[c] EXCEPT !.pc = "reserved", !.seq = meta.reserved + 1] \in CallRecord
      BY <1>0, <1>3, ReserveIs DEF CallRecord, CheckpointSteps
    <3> QED BY <1>0, <1>3, <3>1, ReserveIs, CallsAre DEF Becomes
  <2>2. meta' \in [reserved : {0} \cup Snapshot, latest : {0} \cup Snapshot, latestJs : Nat]
    BY <1>3, ReserveIs DEF Types
  <2> QED BY <1>3, <2>1, <2>2 DEF ReserveSeq, Types
<1>4. CASE MarkPrepared(c)
  <2>1. call' \in [Call -> CallRecord]
    BY <1>0, <1>p, <1>4, GotoIs DEF MarkPrepared, Becomes, CheckpointSteps
  <2>2. [status |-> "Prepared", token |-> c, js |-> 0] \in Entry BY <1>0 DEF Entry
  <2>3. wal' \in [Snapshot -> Entry] BY <1>4, <2>2 DEF MarkPrepared, Types
  <2> QED BY <1>4, <2>1, <2>3 DEF MarkPrepared, Types
<1>5. CASE Publish(c)
  <2>1. /\ stream' \in Seq(Message) /\ DOMAIN stream \subseteq DOMAIN stream'
        /\ call' \in [Call -> CallRecord]
    BY <1>5, PublishIs DEF Becomes
  <2>2. basis' \in [Snapshot -> {0, Unread} \cup Snapshot]
    BY <1>0, <1>5 DEF Publish, Types, CallRecord
  <2>3. acked' \subseteq DOMAIN stream' /\ committed' \subseteq DOMAIN stream'
    BY <1>5, <2>1 DEF Publish, Types
  <2> QED BY <1>5, <2>1, <2>2, <2>3 DEF Publish, Types
<1>6. CASE ReadPrepared(c)
  <2>1. call' \in [Call -> CallRecord]
    BY <1>0, <1>p, <1>6, GotoIs DEF ReadPrepared, Becomes, CheckpointSteps
  <2> QED BY <1>6, <2>1 DEF ReadPrepared, Types
<1>7. CASE MarkCommitted(c)
  <2>1. call' \in [Call -> CallRecord]
    BY <1>0, <1>p, <1>7, GotoIs DEF MarkCommitted, Becomes, CheckpointSteps
  <2>2. [status |-> "Committed", token |-> c, js |-> call[c].js] \in Entry
    BY <1>0 DEF Entry, CallRecord
  <2>3. wal' \in [Snapshot -> Entry] BY <1>7, <2>2 DEF MarkCommitted, Types
  <2>4. committed' \subseteq DOMAIN stream'
    <3>1. call[c].pc \in AtMost BY <1>7 DEF MarkCommitted, AtMost
    <3>2. call[c].js \in DOMAIN stream BY <3>1 DEF EntryInv
    <3>3. UNCHANGED stream /\ committed \subseteq DOMAIN stream BY <1>7 DEF MarkCommitted, Types
    <3>4. committed' \subseteq committed \cup {call[c].js} BY <1>7 DEF MarkCommitted
    <3> QED BY <3>2, <3>3, <3>4
  <2> QED BY <1>7, <2>1, <2>3, <2>4 DEF MarkCommitted, Types
<1>8. CASE CacheRun(c)
  <2>1. call[c].seq \in {0} \cup Snapshot BY <1>0 DEF CallRecord
  <2>2. ASSUME NEW r \in Run PROVE Greatest({cached[r], call[c].seq}) \in {0} \cup Snapshot
    BY <2>1, GreatestSnapshot DEF Types
  <2>3. cached' \in [Run -> {0} \cup Snapshot]
    BY <1>8, <2>2, WalAssumption DEF CacheRun, Types
  <2>4. call' \in [Call -> CallRecord]
    BY <1>0, <1>p, <1>8, GotoIs DEF CacheRun, Becomes, CheckpointSteps
  <2> QED BY <1>8, <2>3, <2>4 DEF CacheRun, Types
<1>9. CASE Promote(c)
  <2>1. call[c].seq \in Snapshot /\ call[c].js \in Nat
    BY <1>0, <1>9 DEF Promote, SeqInv, CallRecord
  <2>2. meta' \in [reserved : {0} \cup Snapshot, latest : {0} \cup Snapshot, latestJs : Nat]
    BY <1>9, <2>1, PromotedTypes DEF Promote
  <2>3. claim' \in [token : Call \cup {Nobody}, live : BOOLEAN]
    BY <1>9, ReleasedTypes DEF Promote, Types
  <2>4. call' \in [Call -> CallRecord]
    BY <1>0, <1>p, <1>9, GotoIs DEF Promote, Becomes, Stopped
  <2> QED BY <1>9, <2>2, <2>3, <2>4 DEF Promote, Types
<1>10. CASE Fail(c)
  <2>1. wal' \in [Snapshot -> Entry]
    <3>1. ASSUME NEW s \in Snapshot PROVE [wal[s] EXCEPT !.status = "Aborted"] \in Entry
      <4>1. wal[s] \in Entry BY DEF Types
      <4> QED BY <4>1 DEF Entry
    <3> QED BY <1>10, <3>1 DEF Fail, Types
  <2>3. claim' \in [token : Call \cup {Nobody}, live : BOOLEAN]
    BY <1>10, ReleasedTypes DEF Fail, Types
  <2>4. call' \in [Call -> CallRecord]
    BY <1>0, <1>p, <1>10, GotoIs DEF Fail, Becomes, Stopped
  <2>5. faults' \in Nat BY <1>10 DEF Fail, Failing, Types
  <2> QED BY <1>10, <2>1, <2>3, <2>4, <2>5 DEF Fail, Types
<1> QED BY <1>1, <1>2, <1>3, <1>4, <1>5, <1>6, <1>7, <1>8, <1>9, <1>10 DEF CheckpointStep

LEMMA DeletionTypes ==
    ASSUME Types, NEW x \in Deletion, DeletionStep(x)
    PROVE  Types'
<1> USE DEF bucketVars, queueVars, flushVars, boundVars, historyVars
<1>0. x \in Call /\ call[x] \in CallRecord BY DEF Call, Types
<1>p. DeletionSteps \cup Stopped \subseteq Places BY DEF Places
<1>1. CASE Drain(x)
  <2>1. call' \in [Call -> CallRecord]
    BY <1>0, <1>p, <1>1, GotoIs DEF Drain, Becomes, DeletionSteps
  <2> QED BY <1>1, <2>1, ReconciledTypes DEF Drain, Types
<1>2. CASE DeleteInner(x)
  <2>1. call' \in [Call -> CallRecord]
    BY <1>0, <1>p, <1>2, GotoIs DEF DeleteInner, Becomes, DeletionSteps
  <2>2. inner' \in [thread : {0} \cup Snapshot, messages : {0} \cup Snapshot,
                    run : [Run -> {0} \cup Snapshot]]
    BY <1>2 DEF DeleteInner, Types
  <2> QED BY <1>2, <2>1, <2>2 DEF DeleteInner, Types
<1>3. CASE ReadWatermark(x)
  <2> DEFINE w == Greatest({meta.reserved, meta.latest, flushed})
  <2>1. w \in {0} \cup Snapshot BY GreatestSnapshot DEF Types
  <2>2. [call[x] EXCEPT !.pc = "marking", !.seq = w] \in CallRecord
    BY <1>0, <2>1 DEF CallRecord, DeletionSteps
  <2>3. call' = [call EXCEPT ![x] = [call[x] EXCEPT !.pc = "marking", !.seq = w]]
    BY <1>0, <1>3 DEF ReadWatermark, Types
  <2>4. call' \in [Call -> CallRecord] BY <1>0, <2>2, <2>3, CallsAre DEF Becomes
  <2> QED BY <1>3, <2>4 DEF ReadWatermark, Types
<1>4. CASE PutTombstone(x)
  <2>1. call' \in [Call -> CallRecord]
    BY <1>0, <1>p, <1>4, GotoIs DEF PutTombstone, Becomes, DeletionSteps
  <2>2. call[x].seq \in {0} \cup Snapshot BY <1>0 DEF CallRecord
  <2> QED BY <1>4, <2>1, <2>2 DEF PutTombstone, Types
<1>5. CASE ClearEntries(x)
  <2>1. call' \in [Call -> CallRecord]
    BY <1>0, <1>p, <1>5, GotoIs DEF ClearEntries, Becomes, Stopped
  <2>2. NoEntry \in Entry BY DEF NoEntry, Entry
  <2>3. wal' \in [Snapshot -> Entry] BY <1>5, <2>2 DEF ClearEntries
  <2>4. claim' \in [token : Call \cup {Nobody}, live : BOOLEAN]
    BY <1>5, ReleasedTypes DEF ClearEntries, Types
  <2> QED BY <1>5, <2>1, <2>3, <2>4 DEF ClearEntries, Types
<1>6. CASE LoseDeletion(x)
  <2>1. call' \in [Call -> CallRecord]
    BY <1>0, <1>p, <1>6, GotoIs DEF LoseDeletion, Becomes, Stopped
  <2>4. claim' \in [token : Call \cup {Nobody}, live : BOOLEAN]
    BY <1>6, ReleasedTypes DEF LoseDeletion, Types
  <2> QED BY <1>6, <2>1, <2>4 DEF LoseDeletion, Types
<1> QED BY <1>1, <1>2, <1>3, <1>4, <1>5, <1>6 DEF DeletionStep

\* Flusher f becomes q, the others stay.
Turns(f, q) == /\ flusher'[f] = q
               /\ \A g \in Flusher : g # f => flusher'[g] = flusher[g]
               /\ flusher' \in [Flusher -> FlusherRecord]

LEMMA FlushersAre ==
    ASSUME Types, NEW f \in Flusher, NEW q \in FlusherRecord, flusher' = [flusher EXCEPT ![f] = q]
    PROVE  Turns(f, q)
BY DEF Types, Turns

\* Flusher f has applied the inner checkpoint of run q.
AppliedRun(f, q) ==
    /\ \A p \in flusher[f].rest : RunSeq(f, q) <= RunSeq(f, p)
    /\ inner' = [thread |-> RunSeq(f, q), messages |-> Top(f),
                 run |-> [inner.run EXCEPT ![q] = RunSeq(f, q)]]
    /\ Turns(f, [flusher[f] EXCEPT
                   !.armed = FALSE, !.rest = flusher[f].rest \ {q},
                   !.pc = IF flusher[f].rest = {q} THEN "thread" ELSE "runs"])

\* What each step of a flusher makes of its record.
LEMMA FlusherMoves ==
    ASSUME Types, NEW f \in Flusher, FlusherInv(f)
    PROVE  LET r == flusher[f] IN
           /\ \A js \in DOMAIN stream :
                 Pull(f, js) => Turns(f, [r EXCEPT !.batch = r.batch \cup {js}])
           /\ \A js \in DOMAIN stream :
                 Acknowledge(f, js) =>
                     Turns(f, [r EXCEPT !.batch = r.batch \ {js}, !.todo = r.todo \ {js},
                                        !.ignored = r.ignored \ {js}])
           /\ AcquireFlush(f) => Turns(f, [r EXCEPT !.pc = "classify", !.flushed = flushed])
           /\ Classify(f) => Turns(f, [r EXCEPT !.pc = "stale", !.todo = ToFlush(f),
                                                !.ignored = Ignored(f)])
           /\ PersistStale(f) =>
                  Turns(f, [r EXCEPT !.pc = IF Top(f) > r.flushed THEN "runs" ELSE "finish",
                                     !.rest = {q \in Run : RunSeq(f, q) > r.flushed}])
           /\ EnsureFlushCurrent(f) =>
                  IF FlushCurrent(f) THEN Turns(f, [r EXCEPT !.armed = TRUE])
                  ELSE Turns(f, [r EXCEPT !.pc = "finish", !.todo = {}])
           /\ ApplyRun(f) => \E q \in r.rest : AppliedRun(f, q)
           /\ SaveThread(f) => Turns(f, [r EXCEPT !.pc = "messages", !.armed = FALSE])
           /\ SaveMessages(f) =>
                  Turns(f, [r EXCEPT !.pc = IF Top(f) > meta.latest THEN "latest" ELSE "flushed",
                                     !.armed = FALSE])
           /\ PromoteFlushed(f) => Turns(f, [r EXCEPT !.pc = "flushed", !.armed = FALSE])
           /\ WriteFlushed(f) => Turns(f, [r EXCEPT !.pc = "finish", !.armed = FALSE])
           /\ FlushError(f) => Turns(f, [r EXCEPT !.pc = "finish", !.todo = {}, !.armed = FALSE])
           /\ EndBatch(f) => Turns(f, Idle)
           /\ CrashFlusher(f) => Turns(f, Idle)
<1> DEFINE r == flusher[f]
<1>0. r \in FlusherRecord /\ flusher \in [Flusher -> FlusherRecord] BY DEF Types
<1>b. r.batch \subseteq Nat BY <1>0 DEF FlusherRecord
<1>1. ASSUME NEW js \in DOMAIN stream, Pull(f, js)
      PROVE  Turns(f, [r EXCEPT !.batch = r.batch \cup {js}])
  <2>1. flusher' = [flusher EXCEPT ![f] = [r EXCEPT !.batch = r.batch \cup {js}]]
    BY <1>0, <1>1 DEF Pull
  <2>2. [r EXCEPT !.batch = r.batch \cup {js}] \in FlusherRecord
    BY <1>0, SeqOfMessage DEF FlusherRecord
  <2> QED BY <2>1, <2>2, FlushersAre
<1>2. ASSUME NEW js \in DOMAIN stream, Acknowledge(f, js)
      PROVE  Turns(f, [r EXCEPT !.batch = r.batch \ {js}, !.todo = r.todo \ {js},
                                !.ignored = r.ignored \ {js}])
  <2> DEFINE q == [r EXCEPT !.batch = r.batch \ {js}, !.todo = r.todo \ {js},
                            !.ignored = r.ignored \ {js}]
  <2>1. flusher' = [flusher EXCEPT ![f] = q] BY <1>0, <1>2 DEF Acknowledge
  <2>2. q \in FlusherRecord BY <1>0 DEF FlusherRecord
  <2> QED BY <2>1, <2>2, FlushersAre
<1>3. ASSUME AcquireFlush(f)
      PROVE  Turns(f, [r EXCEPT !.pc = "classify", !.flushed = flushed])
  <2>1. flusher' = [flusher EXCEPT ![f] = [r EXCEPT !.pc = "classify", !.flushed = flushed]]
    BY <1>0, <1>3 DEF AcquireFlush
  <2>2. [r EXCEPT !.pc = "classify", !.flushed = flushed] \in FlusherRecord
    BY <1>0 DEF FlusherRecord, Types
  <2> QED BY <2>1, <2>2, FlushersAre
<1>4. ASSUME Classify(f)
      PROVE  Turns(f, [r EXCEPT !.pc = "stale", !.todo = ToFlush(f), !.ignored = Ignored(f)])
  <2> DEFINE q == [r EXCEPT !.pc = "stale", !.todo = ToFlush(f), !.ignored = Ignored(f)]
  <2>1. flusher' = [flusher EXCEPT ![f] = q] BY <1>0, <1>4 DEF Classify
  <2>2. ToFlush(f) \subseteq Nat /\ Ignored(f) \subseteq Nat
    BY <1>b DEF ToFlush, Ignored, Held
  <2>3. q \in FlusherRecord BY <1>0, <2>2 DEF FlusherRecord
  <2> QED BY <2>1, <2>3, FlushersAre
<1>5. ASSUME PersistStale(f)
      PROVE  Turns(f, [r EXCEPT !.pc = IF Top(f) > r.flushed THEN "runs" ELSE "finish",
                                !.rest = {q \in Run : RunSeq(f, q) > r.flushed}])
  <2> DEFINE q == [r EXCEPT !.pc = IF Top(f) > r.flushed THEN "runs" ELSE "finish",
                            !.rest = {p \in Run : RunSeq(f, p) > r.flushed}]
  <2>1. flusher' = [flusher EXCEPT ![f] = q] BY <1>0, <1>5 DEF PersistStale
  <2>3. q \in FlusherRecord BY <1>0 DEF FlusherRecord, Writing
  <2> QED BY <2>1, <2>3, FlushersAre
<1>6. ASSUME EnsureFlushCurrent(f)
      PROVE  IF FlushCurrent(f) THEN Turns(f, [r EXCEPT !.armed = TRUE])
             ELSE Turns(f, [r EXCEPT !.pc = "finish", !.todo = {}])
  <2>1. [r EXCEPT !.armed = TRUE] \in FlusherRecord BY <1>0 DEF FlusherRecord
  <2>2. [r EXCEPT !.pc = "finish", !.todo = {}] \in FlusherRecord BY <1>0 DEF FlusherRecord
  <2>3. CASE FlushCurrent(f)
    <3>1. flusher' = [flusher EXCEPT ![f] = [r EXCEPT !.armed = TRUE]]
      BY <1>0, <1>6, <2>3 DEF EnsureFlushCurrent
    <3> QED BY <2>1, <2>3, <3>1, FlushersAre
  <2>4. CASE ~FlushCurrent(f)
    <3>1. flusher' = [flusher EXCEPT ![f] = [r EXCEPT !.pc = "finish", !.todo = {}]]
      BY <1>0, <1>6, <2>4 DEF EnsureFlushCurrent
    <3> QED BY <2>2, <2>4, <3>1, FlushersAre
  <2> QED BY <2>3, <2>4
<1>7. ASSUME ApplyRun(f) PROVE \E q \in r.rest : AppliedRun(f, q)
  <2>1. PICK q \in r.rest :
          /\ \A p \in r.rest : RunSeq(f, q) <= RunSeq(f, p)
          /\ inner' = [thread |-> RunSeq(f, q), messages |-> Top(f),
                       run |-> [inner.run EXCEPT ![q] = RunSeq(f, q)]]
          /\ flusher' = [flusher EXCEPT ![f].armed = FALSE,
                ![f].rest = @ \ {q},
                ![f].pc = IF flusher[f].rest = {q} THEN "thread" ELSE "runs"]
    BY <1>7, Zenon DEF ApplyRun
  <2> DEFINE n == [r EXCEPT !.armed = FALSE, !.rest = r.rest \ {q},
                            !.pc = IF r.rest = {q} THEN "thread" ELSE "runs"]
  <2>2. flusher' = [flusher EXCEPT ![f] = n] BY <1>0, <2>1
  <2>3. n \in FlusherRecord BY <1>0 DEF FlusherRecord, Writing
  <2>4. Turns(f, n) BY <2>2, <2>3, FlushersAre
  <2> QED BY <2>1, <2>4 DEF AppliedRun
<1>8. ASSUME SaveThread(f) PROVE Turns(f, [r EXCEPT !.pc = "messages", !.armed = FALSE])
  <2>1. flusher' = [flusher EXCEPT ![f] = [r EXCEPT !.pc = "messages", !.armed = FALSE]]
    BY <1>0, <1>8 DEF SaveThread, FlushGoto
  <2>2. [r EXCEPT !.pc = "messages", !.armed = FALSE] \in FlusherRecord
    BY <1>0 DEF FlusherRecord, Writing
  <2> QED BY <2>1, <2>2, FlushersAre
<1>9. ASSUME SaveMessages(f)
      PROVE  Turns(f, [r EXCEPT !.pc = IF Top(f) > meta.latest THEN "latest" ELSE "flushed",
                                !.armed = FALSE])
  <2> DEFINE p == IF Top(f) > meta.latest THEN "latest" ELSE "flushed"
  <2>1. flusher' = [flusher EXCEPT ![f] = [r EXCEPT !.pc = p, !.armed = FALSE]]
    BY <1>0, <1>9 DEF SaveMessages, FlushGoto
  <2>2. [r EXCEPT !.pc = p, !.armed = FALSE] \in FlusherRecord
    BY <1>0 DEF FlusherRecord, Writing
  <2> QED BY <2>1, <2>2, FlushersAre
<1>10. ASSUME PromoteFlushed(f) PROVE Turns(f, [r EXCEPT !.pc = "flushed", !.armed = FALSE])
  <2>1. flusher' = [flusher EXCEPT ![f] = [r EXCEPT !.pc = "flushed", !.armed = FALSE]]
    BY <1>0, <1>10 DEF PromoteFlushed, FlushGoto
  <2>2. [r EXCEPT !.pc = "flushed", !.armed = FALSE] \in FlusherRecord
    BY <1>0 DEF FlusherRecord, Writing
  <2> QED BY <2>1, <2>2, FlushersAre
<1>11. ASSUME WriteFlushed(f) PROVE Turns(f, [r EXCEPT !.pc = "finish", !.armed = FALSE])
  <2>1. flusher' = [flusher EXCEPT ![f] = [r EXCEPT !.pc = "finish", !.armed = FALSE]]
    BY <1>0, <1>11 DEF WriteFlushed, FlushGoto
  <2>2. [r EXCEPT !.pc = "finish", !.armed = FALSE] \in FlusherRecord
    BY <1>0 DEF FlusherRecord
  <2> QED BY <2>1, <2>2, FlushersAre
<1>12. ASSUME FlushError(f)
       PROVE  Turns(f, [r EXCEPT !.pc = "finish", !.todo = {}, !.armed = FALSE])
  <2> DEFINE q == [r EXCEPT !.pc = "finish", !.todo = {}, !.armed = FALSE]
  <2>1. flusher' = [flusher EXCEPT ![f] = q] BY <1>0, <1>12 DEF FlushError
  <2>2. q \in FlusherRecord BY <1>0 DEF FlusherRecord
  <2> QED BY <2>1, <2>2, FlushersAre
<1>13. Idle \in FlusherRecord BY DEF Idle, FlusherRecord
<1>14. EndBatch(f) => Turns(f, Idle) BY <1>13, FlushersAre DEF EndBatch
<1>15. CrashFlusher(f) => Turns(f, Idle) BY <1>13, FlushersAre DEF CrashFlusher
<1> QED
  BY <1>1, <1>2, <1>3, <1>4, <1>5, <1>6, <1>7, <1>8, <1>9, <1>10, <1>11, <1>12, <1>14, <1>15

LEMMA FlusherTypes ==
    ASSUME Types, EntryInv, NEW f \in Flusher, FlusherInv(f), FlusherStep(f)
    PROVE  Types'
<1> USE DEF bucketVars, queueVars, flushVars, boundVars, historyVars
<1> DEFINE Meta == [reserved : {0} \cup Snapshot, latest : {0} \cup Snapshot, latestJs : Nat]
           Inner == [thread : {0} \cup Snapshot, messages : {0} \cup Snapshot,
                     run : [Run -> {0} \cup Snapshot]]
<1>t. Top(f) \in {0} \cup Snapshot /\ \A r \in Run : RunSeq(f, r) \in {0} \cup Snapshot
  BY TopIs, RunSeqIs
<1>i. inner \in Inner BY DEF Types
<1>r. flusher[f].rest \subseteq Run BY DEF Types, FlusherRecord
<1>1. ASSUME NEW js \in DOMAIN stream, Pull(f, js) PROVE Types'
  <2>1. flusher' \in [Flusher -> FlusherRecord] BY <1>1, FlusherMoves DEF Turns
  <2>2. delivered' \in Nat
    BY <1>1, SeqOfMessage, GreatestOfTwo DEF Pull, Types
  <2>3. faults' \in Nat BY <1>1 DEF Pull, Types
  <2> QED BY <1>1, <2>1, <2>2, <2>3 DEF Pull, Types
<1>2. ASSUME NEW js \in DOMAIN stream, Acknowledge(f, js) PROVE Types'
  <2>1. flusher' \in [Flusher -> FlusherRecord] BY <1>2, FlusherMoves DEF Turns
  <2>2. wal' \in [Snapshot -> Entry]
    <3>1. NoEntry \in Entry BY DEF NoEntry, Entry
    <3> QED BY <1>2, <3>1 DEF Acknowledge, Types
  <2>3. faults' \in Nat BY <1>2 DEF Acknowledge, Types
  <2>4. acked' \subseteq DOMAIN stream' BY <1>2 DEF Acknowledge, Types
  <2> QED BY <1>2, <2>1, <2>2, <2>3, <2>4 DEF Acknowledge, Types
<1>3. CASE AcquireFlush(f)
  <2>1. flusher' \in [Flusher -> FlusherRecord] BY <1>3, FlusherMoves DEF Turns
  <2> QED BY <1>3, <2>1 DEF AcquireFlush, Types
<1>4. CASE Classify(f)
  <2>1. flusher' \in [Flusher -> FlusherRecord] BY <1>4, FlusherMoves DEF Turns
  <2>2. \A s \in Snapshot : wal[s] \in Entry /\ Settled(wal[s]) \in Entry
    BY SettledIs DEF Types
  <2>3. wal' \in [Snapshot -> Entry] BY <1>4, <2>2 DEF Classify
  <2> QED BY <1>4, <2>1, <2>3 DEF Classify, Types
<1>5. CASE PersistStale(f)
  <2>1. flusher' \in [Flusher -> FlusherRecord] BY <1>5, FlusherMoves DEF Turns
  <2>2. inner' = [inner EXCEPT !.run = [r \in Run |->
                    IF RunSeq(f, r) \in 1..flusher[f].flushed /\ inner.run[r] = 0
                    THEN RunSeq(f, r) ELSE inner.run[r]]]
    BY <1>5 DEF PersistStale
  <2>3. inner' \in Inner BY <1>t, <1>i, <2>2
  <2> QED BY <1>5, <2>1, <2>3 DEF PersistStale, Types
<1>6. CASE EnsureFlushCurrent(f)
  <2>1. flusher' \in [Flusher -> FlusherRecord] BY <1>6, FlusherMoves DEF Turns
  <2> QED BY <1>6, <2>1 DEF EnsureFlushCurrent, Types
<1>7. CASE ApplyRun(f)
  <2>1. PICK q \in flusher[f].rest : AppliedRun(f, q) BY <1>7, FlusherMoves
  <2>2. flusher' \in [Flusher -> FlusherRecord] BY <2>1 DEF AppliedRun, Turns
  <2>3. inner' \in Inner BY <1>t, <1>i, <1>r, <2>1 DEF AppliedRun
  <2> QED BY <1>7, <2>2, <2>3 DEF ApplyRun, Types
<1>8. CASE SaveThread(f)
  <2>1. flusher' \in [Flusher -> FlusherRecord] BY <1>8, FlusherMoves DEF Turns
  <2>2. inner' \in Inner BY <1>8, <1>t, <1>i DEF SaveThread
  <2> QED BY <1>8, <2>1, <2>2 DEF SaveThread, Types
<1>9. CASE SaveMessages(f)
  <2>1. flusher' \in [Flusher -> FlusherRecord] BY <1>9, FlusherMoves DEF Turns
  <2>2. inner' \in Inner BY <1>9, <1>t, <1>i DEF SaveMessages
  <2> QED BY <1>9, <2>1, <2>2 DEF SaveMessages, Types
<1>10. CASE PromoteFlushed(f)
  <2>1. flusher' \in [Flusher -> FlusherRecord] BY <1>10, FlusherMoves DEF Turns
  <2>2. flusher[f].flushed \in Nat BY SnapshotIsNat DEF Types, FlusherRecord
  <2>3. Top(f) # 0
    BY <1>10, <1>t, <2>2, SnapshotIsNat DEF PromoteFlushed, FlusherInv, Writing
  <2>4. TopJs(f) \in Nat /\ Top(f) \in Snapshot
    BY <1>t, <2>3, TopIs DEF Types, FlusherRecord
  <2>5. meta' \in Meta BY <1>10, <2>4, PromotedTypes DEF PromoteFlushed
  <2> QED BY <1>10, <2>1, <2>5 DEF PromoteFlushed, Types
<1>11. CASE WriteFlushed(f)
  <2>1. flusher' \in [Flusher -> FlusherRecord] BY <1>11, FlusherMoves DEF Turns
  <2>2. flushed' \in {0} \cup Snapshot
    BY <1>11, <1>t, GreatestSnapshot DEF WriteFlushed, Types
  <2> QED BY <1>11, <2>1, <2>2 DEF WriteFlushed, Types
<1>12. CASE FlushError(f)
  <2>1. flusher' \in [Flusher -> FlusherRecord] BY <1>12, FlusherMoves DEF Turns
  <2> QED BY <1>12, <2>1 DEF FlushError, Types
<1>13. CASE EndBatch(f)
  <2>1. flusher' \in [Flusher -> FlusherRecord] BY <1>13, FlusherMoves DEF Turns
  <2>2. flushClaim' \in [token : Flusher \cup {Nobody}, live : BOOLEAN]
    BY <1>13 DEF EndBatch, Released, Types
  <2> QED BY <1>13, <2>1, <2>2 DEF EndBatch, Types
<1>14. CASE CrashFlusher(f)
  <2>1. flusher' \in [Flusher -> FlusherRecord] BY <1>14, FlusherMoves DEF Turns
  <2>2. flushClaim' \in [token : Flusher \cup {Nobody}, live : BOOLEAN]
    BY <1>14 DEF CrashFlusher, Types
  <2> QED BY <1>14, <2>1, <2>2 DEF CrashFlusher, Types
<1> QED
  BY <1>1, <1>2, <1>3, <1>4, <1>5, <1>6, <1>7, <1>8, <1>9, <1>10, <1>11, <1>12, <1>13, <1>14
  DEF FlusherStep

LEMMA TypesStep ==
    ASSUME WalIInv, [WalNext]_walVars
    PROVE  Types'
<1>1. CASE Reconcile
  BY <1>1, ReconciledTypes
  DEF WalIInv, Reconcile, Types, queueVars, flushVars, boundVars, historyVars
<1>2. CASE UNCHANGED walVars
  BY <1>2 DEF WalIInv, walVars, Types, bucketVars, queueVars, flushVars, boundVars, historyVars
<1> QED
  BY <1>1, <1>2, CallTypes, CheckpointTypes, DeletionTypes, FlusherTypes
  DEF WalNext, WalIInv, CallStep

-----------------------------------------------------------------------------
(* What every step leaves as it is, or makes larger.                       *)

Grows ==
    /\ \A js \in DOMAIN stream : js \in DOMAIN stream' /\ stream'[js] = stream[js]
    /\ committed \subseteq committed'
    /\ flushed <= flushed'
    /\ meta.latest <= meta'.latest
    /\ \A r \in Run : inner.run[r] # 0 => inner'.run[r] # 0
    /\ \A x \in Deletion : call[x].seq <= call'[x].seq

\* A call that may still commit is not one that could not before.
CallsKept ==
    \A c \in Checkpoint : call'[c].pc \in Undecided =>
        /\ call'[c].seq = call[c].seq
        /\ \/ call'[c].js \notin DOMAIN stream
           \/ call[c].pc \in Undecided /\ call'[c].js = call[c].js

\* Nothing becomes prepared but by a call that has yet to publish.
EntriesKept ==
    \A s \in Snapshot : wal'[s].status = "Prepared" =>
        \/ wal'[s] = wal[s]
        \/ \E b \in Checkpoint : wal'[s].token = b /\ call'[b].pc = "prepared"

\* A committed entry is deleted when it is in the inner store.
CommittedKept ==
    /\ \A s \in Snapshot : wal[s].status = "Committed" =>
          \/ wal'[s] = wal[s]
          \/ \A js \in committed : stream[js].seq = s => IsStored(js)
    /\ \A js \in committed' : js \in committed \/
          /\ js \in DOMAIN stream
          /\ \E c \in Checkpoint : call[c].pc = "deciding" /\ IsOpen(c) /\ call[c].js = js
          /\ IsKept(js)'

Shape == Grows /\ CallsKept /\ EntriesKept /\ CommittedKept

NumbersAreNat == /\ flushed \in Nat /\ meta.latest \in Nat /\ meta.reserved \in Nat
                 /\ \A c \in Call : call[c].seq \in Nat

LEMMA Numbers == Types => NumbersAreNat
BY SnapshotIsNat DEF Types, CallRecord, NumbersAreNat

\* The parts of Shape, when the variables they are about stay.
LEMMA ShapeOfUnchanged ==
    ASSUME Types
    PROVE  /\ UNCHANGED stream =>
                \A js \in DOMAIN stream : js \in DOMAIN stream' /\ stream'[js] = stream[js]
           /\ UNCHANGED flushed => flushed <= flushed'
           /\ UNCHANGED meta => meta.latest <= meta'.latest
           /\ UNCHANGED inner => \A r \in Run : inner.run[r] # 0 => inner'.run[r] # 0
           /\ UNCHANGED call => /\ \A x \in Deletion : call[x].seq <= call'[x].seq
                                /\ CallsKept
           /\ UNCHANGED wal => EntriesKept
           /\ UNCHANGED <<wal, committed>> => CommittedKept
BY Numbers DEF NumbersAreNat, CallsKept, EntriesKept, CommittedKept, Call

\* One call moves on; its number and its position stay.
LEMMA ShapeOfMove ==
    ASSUME Types, NEW c \in Call, NEW p, Becomes(c, [call[c] EXCEPT !.pc = p]),
           p \in Undecided => call[c].pc \in Undecided
    PROVE  /\ \A x \in Deletion : call[x].seq <= call'[x].seq
           /\ CallsKept
<1>1. call[c] \in CallRecord BY DEF Types
<1>2. /\ call'[c].pc = p /\ call'[c].seq = call[c].seq /\ call'[c].js = call[c].js
      /\ \A b \in Call : b # c => call'[b] = call[b]
  BY <1>1 DEF Becomes, CallRecord
<1>3. \A x \in Deletion : call[x].seq <= call'[x].seq
  BY <1>2, Numbers DEF NumbersAreNat, Call
<1>4. CallsKept BY <1>2 DEF CallsKept, Call
<1> QED BY <1>3, <1>4

\* The steps that only move a call.
LEMMA CallShape ==
    ASSUME Types, Lapse \/ FlushLapse \/ CallStep
    PROVE  Shape
<1> USE DEF bucketVars, queueVars, flushVars, boundVars, historyVars
<1>1. UNCHANGED <<stream, flushed, meta, inner, wal, committed>>
  BY DEF Lapse, FlushLapse, CallStep, Acquire, Renew, Crash
<1>2. (\A x \in Deletion : call[x].seq <= call'[x].seq) /\ CallsKept
  <2>1. CASE UNCHANGED call BY <2>1, ShapeOfUnchanged
  <2>2. ASSUME NEW c \in Call, Goto(c, "claimed") \/ Goto(c, "crashed")
        PROVE  (\A x \in Deletion : call[x].seq <= call'[x].seq) /\ CallsKept
    <3>1. CASE Goto(c, "claimed")
      BY <3>1, GotoIs, ShapeOfMove DEF Places, CheckpointSteps, Undecided
    <3>2. CASE Goto(c, "crashed")
      BY <3>2, GotoIs, ShapeOfMove DEF Places, Stopped, Undecided
    <3> QED BY <2>2, <3>1, <3>2
  <2> QED BY <2>1, <2>2 DEF Lapse, FlushLapse, CallStep, Acquire, Renew, Crash
<1> QED BY <1>1, <1>2, ShapeOfUnchanged DEF Shape, Grows

\* Reconciliation aborts what is prepared, and announces what is committed.
LEMMA ReconciledIs ==
    ASSUME Types, EntryInv, Reconciled
    PROVE  /\ \A s \in Snapshot : wal'[s] = Settled(wal[s])
           /\ \A s \in Snapshot : wal[s].status # "Prepared" => wal'[s] = wal[s]
           /\ \A s \in Snapshot : wal'[s].status = "Prepared" =>
                 wal'[s] = wal[s] /\ Current(wal[s].token)
           /\ EntriesKept
           /\ meta.latest <= meta'.latest /\ meta.reserved <= meta'.reserved
           /\ meta'.latest = Newest
           /\ meta'.reserved = meta.reserved \/ meta'.reserved = meta'.latest
           /\ \/ meta' = meta /\ Unannounced = {}
              \/ /\ meta'.latest \in Snapshot
                 /\ meta'.latest \in Unannounced
                 /\ meta'.latestJs = wal[meta'.latest].js
                 /\ meta'.latestJs \in committed
                 /\ stream[meta'.latestJs].seq = meta'.latest
<1>1. \A s \in Snapshot : wal[s] \in Entry /\ wal'[s] = Settled(wal[s])
  BY DEF Reconciled, Types
<1>2. /\ \A s \in Snapshot : wal[s].status # "Prepared" => wal'[s] = wal[s]
      /\ \A s \in Snapshot : wal'[s].status = "Prepared" =>
            wal'[s] = wal[s] /\ Current(wal[s].token)
  BY <1>1, SettledIs
<1>3. EntriesKept BY <1>2 DEF EntriesKept
<1>n. meta.latest \in Nat /\ meta.reserved \in Nat BY Numbers DEF NumbersAreNat
<1>4. CASE Unannounced = {}
  <2>1. meta' = meta BY <1>4 DEF Reconciled
  <2>2. Newest = meta.latest BY <1>4, NewestIs
  <2> QED BY <1>1, <1>2, <1>3, <1>4, <1>n, <2>1, <2>2
<1>5. CASE Unannounced # {}
  <2>1. PICK top : top = Greatest(Unannounced) OBVIOUS
  <2>2. Unannounced \in SUBSET ({0} \cup Snapshot) BY DEF Unannounced
  <2>3. top \in Unannounced \cup {0} /\ \A y \in Unannounced : y <= top
    BY <2>1, <2>2, GreatestSnapshot
  <2>4. \A s \in Unannounced : s \in Snapshot /\ s \in Nat /\ s # 0 /\ s > meta.latest
    BY SnapshotIsNat DEF Unannounced
  <2>5. top \in Unannounced
    <3>1. PICK s \in Unannounced : TRUE BY <1>5
    <3> QED BY <2>3, <2>4, <3>1
  <2>6. meta' = Announced(top, wal[top].js) BY <1>5, <2>1 DEF Reconciled
  <2>7. top = Newest
    <3>1. Newest \in Nat /\ top <= Newest
      BY <2>5, NewestIs
    <3>2. Newest \in Unannounced BY <1>n, <2>4, <2>5, NewestIs
    <3>3. Newest <= top BY <2>3, <3>2
    <3> QED BY <2>4, <2>5, <3>2, <3>3, NewestIs
  <2>8. top \in Snapshot /\ top \in Nat /\ top > meta.latest BY <2>4, <2>5
  <2>9. PICK g : g = Greatest({meta.reserved, top}) OBVIOUS
  <2>10. g = IF meta.reserved <= top THEN top ELSE meta.reserved
    BY <1>n, <2>8, <2>9, GreatestOfTwo
  <2>11. /\ meta'.reserved = g /\ meta'.latest = top /\ meta'.latestJs = wal[top].js
    BY <2>6, <2>9 DEF Announced
  <2>12. wal[top].js \in committed /\ stream[wal[top].js].seq = top
    BY <2>5, <2>8 DEF Unannounced, EntryInv
  <2> QED BY <1>1, <1>2, <1>3, <1>n, <2>5, <2>7, <2>8, <2>10, <2>11, <2>12
<1> QED BY <1>4, <1>5

LEMMA MetaGrows ==
    ASSUME Types, NEW s \in Snapshot, NEW js, Promoted(s, js)
    PROVE  /\ meta.latest <= meta'.latest
           /\ \/ meta' = meta /\ s <= meta.latest
              \/ /\ meta'.latest = s /\ meta'.latestJs = js /\ s > meta.latest
                 /\ meta'.reserved = meta.reserved \/ meta'.reserved = s
                 /\ meta.reserved <= meta'.reserved /\ s <= meta'.reserved
<1>n. meta.latest \in Nat /\ meta.reserved \in Nat /\ s \in Nat
  BY Numbers, SnapshotIsNat DEF NumbersAreNat
<1>1. CASE meta.latest >= s BY <1>1, <1>n DEF Promoted
<1>2. CASE ~(meta.latest >= s)
  <2>1. PICK g : g = Greatest({meta.reserved, s}) OBVIOUS
  <2>2. g = IF meta.reserved <= s THEN s ELSE meta.reserved
    BY <1>n, <2>1, GreatestOfTwo
  <2>3. meta' = [reserved |-> g, latest |-> s, latestJs |-> js]
    BY <1>2, <2>1 DEF Promoted, Announced
  <2> QED BY <1>2, <1>n, <2>2, <2>3
<1> QED BY <1>1, <1>2

\* A call's own entry is aborted, the others stay.
LEMMA FailedEntries ==
    ASSUME Types, NEW c \in Checkpoint, Fail(c)
    PROVE  /\ \A s \in Snapshot :
                 IF s = call[c].seq /\ wal[s].status = "Prepared" /\ wal[s].token = c
                 THEN wal'[s].status = "Aborted" /\ wal'[s].js = wal[s].js ELSE wal'[s] = wal[s]
           /\ EntriesKept
<1>1. \A s \in Snapshot : wal[s] \in Entry BY DEF Types
<1>2. ASSUME NEW s \in Snapshot
      PROVE  IF s = call[c].seq /\ wal[s].status = "Prepared" /\ wal[s].token = c
             THEN wal'[s].status = "Aborted" /\ wal'[s].js = wal[s].js ELSE wal'[s] = wal[s]
  BY <1>1 DEF Fail, Entry
<1>3. EntriesKept
  <2>1. SUFFICES ASSUME NEW s \in Snapshot, wal'[s].status = "Prepared" PROVE wal'[s] = wal[s]
    BY DEF EntriesKept
  <2> QED BY <1>2, <2>1
<1> QED BY <1>2, <1>3

LEMMA CheckpointShape ==
    ASSUME Types, SeqInv, EntryInv, NEW c \in Checkpoint, CheckpointStep(c)
    PROVE  Shape
<1> USE DEF bucketVars, queueVars, flushVars, boundVars, historyVars
<1> DEFINE Calls == (\A x \in Deletion : call[x].seq <= call'[x].seq) /\ CallsKept
<1>0. c \in Call /\ call[c] \in CallRecord BY DEF Call, Types
<1>p. CheckpointSteps \cup Stopped \subseteq Places BY DEF Places
<1>d. \A x \in Deletion : x \in Call /\ x # c BY WalAssumption DEF Call
<1>1. CASE Project(c)
  <2>1. Reconciled BY <1>1 DEF Project
  <2>2. UNCHANGED <<stream, flushed, inner, committed>> BY <1>1 DEF Project
  <2>3. Becomes(c, [call[c] EXCEPT !.pc = "projected", !.basis = Overlay])
    BY <1>1, ProjectIs
  <2>4. call'[c].pc = "projected" /\ \A b \in Call : b # c => call'[b] = call[b]
    BY <1>0, <2>3 DEF Becomes, CallRecord
  <2>5. CallsKept BY <2>4 DEF CallsKept, Undecided, Call
  <2>6. \A x \in Deletion : call[x].seq <= call'[x].seq
    BY <1>d, <2>4, Numbers DEF NumbersAreNat
  <2>7. EntriesKept /\ meta.latest <= meta'.latest
        /\ \A s \in Snapshot : wal[s].status # "Prepared" => wal'[s] = wal[s]
    BY <2>1, ReconciledIs
  <2>8. CommittedKept BY <2>2, <2>7 DEF CommittedKept
  <2> QED BY <2>2, <2>5, <2>6, <2>7, <2>8, ShapeOfUnchanged DEF Shape, Grows
<1>2. CASE EnsureCurrent(c)
  <2>1. UNCHANGED <<stream, flushed, inner, committed, meta, wal>> BY <1>2 DEF EnsureCurrent
  <2>2. Calls
    BY <1>0, <1>2, <1>p, GotoIs, ShapeOfMove DEF EnsureCurrent, CheckpointSteps, Undecided
  <2> QED BY <2>1, <2>2, ShapeOfUnchanged DEF Shape, Grows
<1>3. CASE ReserveSeq(c)
  <2>1. UNCHANGED <<stream, flushed, inner, committed, wal>> BY <1>3 DEF ReserveSeq
  <2>2. call'[c].pc = "reserved" /\ \A b \in Call : b # c => call'[b] = call[b]
    <3>1. [call[c] EXCEPT !.pc = "reserved", !.seq = meta.reserved + 1] \in CallRecord
      BY <1>0, <1>3, ReserveIs DEF CallRecord, CheckpointSteps
    <3>2. Becomes(c, [call[c] EXCEPT !.pc = "reserved", !.seq = meta.reserved + 1])
      BY <1>0, <1>3, <3>1, ReserveIs, CallsAre
    <3> QED BY <1>0, <3>2 DEF Becomes, CallRecord
  <2>3. CallsKept BY <2>2 DEF CallsKept, Undecided, Call
  <2>4. \A x \in Deletion : call[x].seq <= call'[x].seq
    BY <1>d, <2>2, Numbers DEF NumbersAreNat
  <2>5. meta.latest <= meta'.latest
    <3>1. meta \in [reserved : {0} \cup Snapshot, latest : {0} \cup Snapshot, latestJs : Nat]
      BY DEF Types
    <3>2. meta'.latest = meta.latest BY <1>3, <3>1, ReserveIs
    <3> QED BY <3>2, Numbers DEF NumbersAreNat
  <2> QED BY <2>1, <2>3, <2>4, <2>5, ShapeOfUnchanged DEF Shape, Grows
<1>4. CASE MarkPrepared(c)
  <2>1. UNCHANGED <<stream, flushed, inner, committed, meta>> BY <1>4 DEF MarkPrepared
  <2>2. Calls
    BY <1>0, <1>4, <1>p, GotoIs, ShapeOfMove DEF MarkPrepared, CheckpointSteps, Undecided
  <2>3. call'[c].pc = "prepared"
    <3>1. Becomes(c, [call[c] EXCEPT !.pc = "prepared"])
      BY <1>0, <1>4, <1>p, GotoIs DEF MarkPrepared, CheckpointSteps
    <3> QED BY <1>0, <3>1 DEF Becomes, CallRecord
  <2>4. \A s \in Snapshot : wal'[s] = IF s = call[c].seq
                              THEN [status |-> "Prepared", token |-> c, js |-> 0] ELSE wal[s]
    BY <1>4 DEF MarkPrepared, Types
  <2>5. EntriesKept BY <2>3, <2>4 DEF EntriesKept
  <2>6. wal[call[c].seq].status = "None" BY <1>4 DEF MarkPrepared, NoEntry
  <2>7. CommittedKept BY <2>1, <2>4, <2>6 DEF CommittedKept
  <2> QED BY <2>1, <2>2, <2>5, <2>7, ShapeOfUnchanged DEF Shape, Grows
<1>5. CASE Publish(c)
  <2>1. UNCHANGED <<flushed, inner, committed, meta, wal>> BY <1>5 DEF Publish
  <2>2. PICK js : js = Len(stream) + 1 OBVIOUS
  <2>3. /\ Becomes(c, [call[c] EXCEPT !.pc = "published", !.js = js])
        /\ js \notin DOMAIN stream
        /\ \A i \in DOMAIN stream : i \in DOMAIN stream' /\ stream'[i] = stream[i]
    BY <1>5, <2>2, PublishIs
  <2>4. /\ call'[c].seq = call[c].seq /\ call'[c].js = js
        /\ \A b \in Call : b # c => call'[b] = call[b]
    BY <1>0, <2>3 DEF Becomes, CallRecord
  <2>5. CallsKept BY <2>3, <2>4 DEF CallsKept, Call
  <2>6. \A x \in Deletion : call[x].seq <= call'[x].seq
    BY <1>d, <2>4, Numbers DEF NumbersAreNat
  <2> QED BY <2>1, <2>3, <2>5, <2>6, ShapeOfUnchanged DEF Shape, Grows
<1>6. CASE ReadPrepared(c)
  <2>1. UNCHANGED <<stream, flushed, inner, committed, meta, wal>> BY <1>6 DEF ReadPrepared
  <2>2. Calls
    BY <1>0, <1>6, <1>p, GotoIs, ShapeOfMove DEF ReadPrepared, CheckpointSteps, Undecided
  <2> QED BY <2>1, <2>2, ShapeOfUnchanged DEF Shape, Grows
<1>7. CASE MarkCommitted(c)
  <2>1. UNCHANGED <<stream, flushed, inner, meta>> BY <1>7 DEF MarkCommitted
  <2>2. Calls
    BY <1>0, <1>7, <1>p, GotoIs, ShapeOfMove DEF MarkCommitted, CheckpointSteps, Undecided
  <2>3. CASE UNCHANGED <<wal, committed>>
    BY <2>1, <2>2, <2>3, ShapeOfUnchanged DEF Shape, Grows
  <2>4. CASE /\ wal[call[c].seq] = [status |-> "Prepared", token |-> c, js |-> 0]
             /\ wal' = [wal EXCEPT ![call[c].seq] = [status |-> "Committed",
                           token |-> c, js |-> call[c].js]]
             /\ committed' = committed \cup {call[c].js}
    <3>1. call[c].seq \in Snapshot BY <1>0, <1>7 DEF MarkCommitted, SeqInv, CallRecord
    <3>2. \A s \in Snapshot : wal'[s] = IF s = call[c].seq
             THEN [status |-> "Committed", token |-> c, js |-> call[c].js] ELSE wal[s]
      BY <2>4 DEF Types
    <3>3. EntriesKept BY <3>2 DEF EntriesKept
    <3>4. IsOpen(c) /\ call[c].pc = "deciding" BY <1>7, <2>4 DEF IsOpen, MarkCommitted
    <3>5. call[c].js \in DOMAIN stream /\ stream[call[c].js].seq = call[c].seq
      <4>1. call[c].pc \in AtMost BY <3>4 DEF AtMost
      <4>2. stream[call[c].js] = [seq |-> call[c].seq, run |-> RunOf[c]]
            /\ call[c].js \in DOMAIN stream
        BY <4>1 DEF EntryInv
      <4> QED BY <4>2
    <3>6. \A js : js = call[c].js => IsKept(js)'
      <4>1. wal'[call[c].seq] = [status |-> "Committed", token |-> c, js |-> call[c].js]
        BY <3>1, <3>2
      <4>2. wal'[call[c].seq].status = "Committed" /\ wal'[call[c].seq].js = call[c].js
        BY <4>1
      <4> QED BY <2>1, <3>5, <4>2 DEF IsKept
    <3>7. CommittedKept
      <4>1. \A s \in Snapshot : wal[s].status = "Committed" => wal'[s] = wal[s]
        BY <2>4, <3>2
      <4>2. ASSUME NEW js \in committed', js \notin committed
            PROVE  js = call[c].js
        BY <2>4, <4>2
      <4>3. \A js \in committed' : js \in committed \/
              /\ js \in DOMAIN stream
              /\ \E b \in Checkpoint : call[b].pc = "deciding" /\ IsOpen(b) /\ call[b].js = js
              /\ IsKept(js)'
        BY <3>4, <3>5, <3>6, <4>2
      <4> QED BY <4>1, <4>3, Zenon DEF CommittedKept
    <3> QED BY <2>1, <2>2, <2>4, <3>3, <3>7, ShapeOfUnchanged DEF Shape, Grows
  <2> QED BY <1>7, <2>3, <2>4 DEF MarkCommitted
<1>8. CASE CacheRun(c)
  <2>1. UNCHANGED <<stream, flushed, inner, committed, meta, wal>> BY <1>8 DEF CacheRun
  <2>2. Calls
    BY <1>0, <1>8, <1>p, GotoIs, ShapeOfMove DEF CacheRun, CheckpointSteps, Undecided
  <2> QED BY <2>1, <2>2, ShapeOfUnchanged DEF Shape, Grows
<1>9. CASE Promote(c)
  <2>1. UNCHANGED <<stream, flushed, inner, committed, wal>> BY <1>9 DEF Promote
  <2>2. Calls
    BY <1>0, <1>9, <1>p, GotoIs, ShapeOfMove DEF Promote, Stopped, Undecided
  <2>3. call[c].seq \in Snapshot BY <1>0, <1>9 DEF Promote, SeqInv, CallRecord
  <2>4. meta.latest <= meta'.latest BY <1>9, <2>3, MetaGrows DEF Promote
  <2> QED BY <2>1, <2>2, <2>4, ShapeOfUnchanged DEF Shape, Grows
<1>10. CASE Fail(c)
  <2>1. UNCHANGED <<stream, flushed, inner, committed, meta>> BY <1>10 DEF Fail
  <2>2. Calls
    BY <1>0, <1>10, <1>p, GotoIs, ShapeOfMove DEF Fail, Stopped, Undecided
  <2>3. EntriesKept /\ \A s \in Snapshot : wal[s].status = "Committed" => wal'[s] = wal[s]
    BY <1>10, FailedEntries
  <2>4. CommittedKept BY <2>1, <2>3 DEF CommittedKept
  <2> QED BY <2>1, <2>2, <2>3, <2>4, ShapeOfUnchanged DEF Shape, Grows
<1> QED BY <1>1, <1>2, <1>3, <1>4, <1>5, <1>6, <1>7, <1>8, <1>9, <1>10 DEF CheckpointStep

LEMMA DeletionShape ==
    ASSUME Types, SeqInv, TombInv, EntryInv, NEW x \in Deletion, DeletionStep(x)
    PROVE  Shape
<1> USE DEF bucketVars, queueVars, flushVars, boundVars, historyVars
<1> DEFINE Calls == (\A y \in Deletion : call[y].seq <= call'[y].seq) /\ CallsKept
<1>0. x \in Call /\ call[x] \in CallRecord BY DEF Call, Types
<1>p. DeletionSteps \cup Stopped \subseteq Places BY DEF Places
<1>1. CASE Drain(x)
  <2>1. Reconciled BY <1>1 DEF Drain
  <2>2. UNCHANGED <<stream, flushed, inner, committed>> BY <1>1 DEF Drain
  <2>3. Calls
    BY <1>0, <1>1, <1>p, GotoIs, ShapeOfMove DEF Drain, DeletionSteps, Undecided
  <2>4. EntriesKept /\ meta.latest <= meta'.latest
        /\ \A s \in Snapshot : wal[s].status # "Prepared" => wal'[s] = wal[s]
    BY <2>1, ReconciledIs
  <2>5. CommittedKept BY <2>2, <2>4 DEF CommittedKept
  <2> QED BY <2>2, <2>3, <2>4, <2>5, ShapeOfUnchanged DEF Shape, Grows
<1>2. CASE DeleteInner(x)
  <2>1. UNCHANGED <<stream, flushed, committed, meta, wal>> BY <1>2 DEF DeleteInner
  <2>2. Calls
    BY <1>0, <1>2, <1>p, GotoIs, ShapeOfMove DEF DeleteInner, DeletionSteps, Undecided
  <2>3. inner'.run = inner.run BY <1>2 DEF DeleteInner, Types
  <2> QED BY <2>1, <2>2, <2>3, ShapeOfUnchanged DEF Shape, Grows
<1>3. CASE ReadWatermark(x)
  <2> DEFINE w == Greatest({meta.reserved, meta.latest, flushed})
  <2>1. UNCHANGED <<stream, flushed, committed, meta, wal, inner>> BY <1>3 DEF ReadWatermark
  <2>2. w \in {0} \cup Snapshot BY GreatestSnapshot DEF Types
  <2>3. [call[x] EXCEPT !.pc = "marking", !.seq = w] \in CallRecord
    BY <1>0, <2>2 DEF CallRecord, DeletionSteps
  <2>4. call' = [call EXCEPT ![x] = [call[x] EXCEPT !.pc = "marking", !.seq = w]]
    BY <1>0, <1>3 DEF ReadWatermark, Types
  <2>5. Becomes(x, [call[x] EXCEPT !.pc = "marking", !.seq = w])
    BY <1>0, <2>3, <2>4, CallsAre
  <2>6. /\ call'[x].seq = w /\ call'[x].pc = "marking"
        /\ \A b \in Call : b # x => call'[b] = call[b]
    BY <1>0, <2>5 DEF Becomes, CallRecord
  <2>7. call[x].seq = 0 BY <1>3 DEF ReadWatermark, SeqInv
  <2>8. w \in Nat BY <2>2, SnapshotIsNat
  <2>9. \A y \in Deletion : call[y].seq <= call'[y].seq
    BY <2>6, <2>7, <2>8, Numbers DEF NumbersAreNat, Call
  <2>10. CallsKept BY <2>6 DEF CallsKept, Undecided, Call
  <2> QED BY <2>1, <2>9, <2>10, ShapeOfUnchanged DEF Shape, Grows
<1>4. CASE PutTombstone(x)
  <2>1. UNCHANGED <<stream, committed, wal, inner>> BY <1>4 DEF PutTombstone
  <2>2. Calls
    BY <1>0, <1>4, <1>p, GotoIs, ShapeOfMove DEF PutTombstone, DeletionSteps, Undecided
  <2>3. meta'.latest = call[x].seq /\ flushed' = call[x].seq BY <1>4 DEF PutTombstone
  <2>4. meta.latest <= call[x].seq BY <1>4 DEF PutTombstone, TombInv, Marking
  <2>5. flushed <= call[x].seq BY <1>0, <2>4, Numbers DEF NumbersAreNat, SeqInv
  <2> QED BY <2>1, <2>2, <2>3, <2>4, <2>5, ShapeOfUnchanged DEF Shape, Grows
<1>5. CASE ClearEntries(x)
  <2>1. UNCHANGED <<stream, flushed, committed, meta, inner>> BY <1>5 DEF ClearEntries
  <2>2. Goto(x, "ok") \/ Goto(x, "error") BY <1>5 DEF ClearEntries
  <2>3. Calls
    <3>1. CASE Goto(x, "ok") BY <1>0, <1>p, <3>1, GotoIs, ShapeOfMove DEF Stopped, Undecided
    <3>2. CASE Goto(x, "error") BY <1>0, <1>p, <3>2, GotoIs, ShapeOfMove DEF Stopped, Undecided
    <3> QED BY <2>2, <3>1, <3>2
  <2>4. \A s \in Snapshot : wal'[s] = NoEntry BY <1>5 DEF ClearEntries
  <2>5. EntriesKept BY <2>4 DEF EntriesKept, NoEntry
  <2>6. call[x].pc = "marked" BY <1>5 DEF ClearEntries
  <2>7. Above(call[x].seq) /\ call[x].seq <= flushed BY <2>6 DEF TombInv, Marking
  <2>8. ASSUME NEW js \in committed PROVE IsStored(js)
    <3>1. js \in DOMAIN stream BY DEF Types
    <3>2. stream[js].seq <= call[x].seq BY <2>7, <3>1 DEF Above
    <3>3. Deleted(stream[js].seq) BY <3>2 DEF Deleted
    <3>4. stream[js].seq \in Nat BY <3>1, SeqOfMessage, SnapshotIsNat
    <3>5. stream[js].seq <= flushed
      BY <1>0, <2>7, <3>2, <3>4, Numbers DEF NumbersAreNat
    <3> QED BY <3>3, <3>5 DEF IsStored
  <2>9. CommittedKept BY <2>1, <2>8 DEF CommittedKept
  <2> QED BY <2>1, <2>3, <2>5, <2>9, ShapeOfUnchanged DEF Shape, Grows
<1>6. CASE LoseDeletion(x)
  <2>1. UNCHANGED <<stream, flushed, committed, meta, wal, inner>> BY <1>6 DEF LoseDeletion
  <2>2. Calls
    BY <1>0, <1>6, <1>p, GotoIs, ShapeOfMove DEF LoseDeletion, Stopped, Undecided
  <2> QED BY <2>1, <2>2, ShapeOfUnchanged DEF Shape, Grows
<1> QED BY <1>1, <1>2, <1>3, <1>4, <1>5, <1>6 DEF DeletionStep

\* A writing flusher has an entry above the watermark it read.
LEMMA TopIsRead ==
    ASSUME Types, NEW f \in Flusher, FlusherInv(f), flusher[f].pc \in Writing
    PROVE  /\ Top(f) \in Snapshot /\ Top(f) \in Nat
           /\ TopJs(f) \in flusher[f].todo /\ TopJs(f) \in committed /\ TopJs(f) \in DOMAIN stream
           /\ stream[TopJs(f)].seq = Top(f)
<1>1. flusher[f].flushed \in Nat BY SnapshotIsNat DEF Types, FlusherRecord
<1>2. flusher[f].flushed < Top(f) BY DEF FlusherInv
<1>3. Top(f) \in {0} \cup Snapshot BY TopIs
<1>4. Top(f) # 0 /\ Top(f) \in Nat
  <2>1. Top(f) \in Nat BY <1>3, SnapshotIsNat
  <2> QED BY <1>1, <1>2, <2>1
<1>5. TopJs(f) \in flusher[f].todo /\ stream[TopJs(f)].seq = Top(f) BY <1>4, TopIs
<1>6. flusher[f].todo \subseteq committed BY DEF FlusherInv
<1>7. committed \subseteq DOMAIN stream BY DEF Types
<1> QED BY <1>3, <1>4, <1>5, <1>6, <1>7

\* What a flusher settles stays, or is aborted.
LEMMA ClassifiedIs ==
    ASSUME Types, NEW f \in Flusher, Classify(f)
    PROVE  /\ \A s \in Snapshot : wal'[s] = wal[s] \/ wal'[s] = Settled(wal[s])
           /\ \A s \in Snapshot : wal[s].status # "Prepared" => wal'[s] = wal[s]
           /\ \A s \in Snapshot : wal'[s].status = "Prepared" => wal'[s] = wal[s]
           /\ \A js \in Held(f) : stream[js].seq \in Snapshot =>
                  wal'[stream[js].seq] = Settled(wal[stream[js].seq])
<1>1. \A s \in Snapshot : wal[s] \in Entry BY DEF Types
<1>2. \A s \in Snapshot : wal'[s] = IF \E js \in Held(f) : stream[js].seq = s
                                    THEN Settled(wal[s]) ELSE wal[s]
  BY DEF Classify
<1>3. \A s \in Snapshot : wal'[s] = wal[s] \/ wal'[s] = Settled(wal[s]) BY <1>2
<1>4. \A s \in Snapshot : wal[s].status # "Prepared" => wal'[s] = wal[s]
  BY <1>1, <1>3, SettledIs
<1>5. \A s \in Snapshot : wal'[s].status = "Prepared" => wal'[s] = wal[s]
  BY <1>1, <1>3, SettledIs
<1> QED BY <1>2, <1>3, <1>4, <1>5

\* The entry of an acknowledged message is committed only when it is stored.
LEMMA AckedIsDone ==
    ASSUME Types, SeqInv, EntryInv, NEW f \in Flusher, FlusherInv(f),
           flusher[f].pc = "finish", NEW js \in flusher[f].todo \cup flusher[f].ignored
    PROVE  /\ js \in DOMAIN stream /\ (IsStored(js) \/ IsDead(js))
           /\ wal[stream[js].seq].status = "Committed" =>
                 \A i \in committed : stream[i].seq = stream[js].seq => IsStored(i)
<1>1. js \in DOMAIN stream /\ (IsStored(js) \/ IsDead(js)) BY DEF FlusherInv
<1>2. ASSUME wal[stream[js].seq].status = "Committed",
             NEW i \in committed, stream[i].seq = stream[js].seq
      PROVE  IsStored(i)
  <2>1. stream[js].seq \in Snapshot BY <1>1, SeqOfMessage
  <2>2. PICK k : k = wal[stream[js].seq].js OBVIOUS
  <2>3. k \in committed /\ stream[k].seq = stream[js].seq BY <1>2, <2>1, <2>2 DEF EntryInv
  <2>4. committed \subseteq DOMAIN stream BY DEF Types
  <2>5. k = js /\ i = js BY <1>1, <1>2, <2>3, <2>4 DEF SeqInv
  <2> QED BY <1>1, <2>3, <2>5 DEF IsDead
<1> QED BY <1>1, <1>2

LEMMA FlusherShape ==
    ASSUME Types, SeqInv, EntryInv, NEW f \in Flusher, FlusherInv(f), FlusherStep(f)
    PROVE  Shape
<1> USE DEF bucketVars, queueVars, flushVars, boundVars, historyVars
<1> DEFINE Quiet == UNCHANGED <<stream, flushed, committed, meta, wal, call>>
           Runs == \A r \in Run : inner.run[r] # 0 => inner'.run[r] # 0
<1>q. Quiet /\ Runs => Shape BY ShapeOfUnchanged DEF Shape, Grows
<1>1. ASSUME NEW js \in DOMAIN stream, Pull(f, js) PROVE Shape
  BY <1>1, <1>q, ShapeOfUnchanged DEF Pull
<1>2. ASSUME NEW js \in DOMAIN stream, Acknowledge(f, js) PROVE Shape
  <2>1. UNCHANGED <<stream, flushed, committed, meta, call, inner>> BY <1>2 DEF Acknowledge
  <2>2. wal' = wal \/ wal' = [wal EXCEPT ![stream[js].seq] = NoEntry]
    BY <1>2 DEF Acknowledge
  <2>3. flusher[f].pc = "finish" /\ js \in flusher[f].todo \cup flusher[f].ignored
    BY <1>2 DEF Acknowledge
  <2>4. \A s \in Snapshot : wal'[s] = wal[s] \/ (s = stream[js].seq /\ wal'[s] = NoEntry)
    BY <2>2 DEF Types
  <2>5. EntriesKept BY <2>4 DEF EntriesKept, NoEntry
  <2>6. wal[stream[js].seq].status = "Committed" =>
           \A i \in committed : stream[i].seq = stream[js].seq => IsStored(i)
    BY <2>3, AckedIsDone
  <2>7. CommittedKept BY <2>1, <2>4, <2>6 DEF CommittedKept
  <2> QED BY <2>1, <2>5, <2>7, ShapeOfUnchanged DEF Shape, Grows
<1>3. CASE AcquireFlush(f) BY <1>3, <1>q, ShapeOfUnchanged DEF AcquireFlush
<1>4. CASE Classify(f)
  <2>1. UNCHANGED <<stream, flushed, committed, meta, call, inner>> BY <1>4 DEF Classify
  <2>2. EntriesKept BY <1>4, ClassifiedIs DEF EntriesKept
  <2>3. CommittedKept BY <1>4, <2>1, ClassifiedIs DEF CommittedKept
  <2> QED BY <2>1, <2>2, <2>3, ShapeOfUnchanged DEF Shape, Grows
<1>5. CASE PersistStale(f)
  <2>1. \A r \in Run : inner'.run[r] = IF RunSeq(f, r) \in 1..flusher[f].flushed /\ inner.run[r] = 0
                                       THEN RunSeq(f, r) ELSE inner.run[r]
    BY <1>5 DEF PersistStale, Types
  <2> QED BY <1>5, <1>q, <2>1 DEF PersistStale
<1>6. CASE EnsureFlushCurrent(f) BY <1>6, <1>q, ShapeOfUnchanged DEF EnsureFlushCurrent
<1>7. CASE ApplyRun(f)
  <2>1. PICK q \in flusher[f].rest : AppliedRun(f, q) BY <1>7, FlusherMoves
  <2>2. RunSeq(f, q) # 0 BY <1>7 DEF ApplyRun, FlusherInv, Writing
  <2>3. \A r \in Run : inner'.run[r] = IF r = q THEN RunSeq(f, q) ELSE inner.run[r]
    BY <2>1 DEF AppliedRun, Types
  <2> QED BY <1>7, <1>q, <2>2, <2>3 DEF ApplyRun
<1>8. CASE SaveThread(f)
  <2>1. inner'.run = inner.run BY <1>8 DEF SaveThread, Types
  <2> QED BY <1>8, <1>q, <2>1 DEF SaveThread
<1>9. CASE SaveMessages(f)
  <2>1. inner'.run = inner.run BY <1>9 DEF SaveMessages, Types
  <2> QED BY <1>9, <1>q, <2>1 DEF SaveMessages
<1>10. CASE PromoteFlushed(f)
  <2>1. UNCHANGED <<stream, flushed, committed, wal, call, inner>> BY <1>10 DEF PromoteFlushed
  <2>2. Top(f) \in Snapshot BY <1>10, TopIsRead DEF PromoteFlushed, Writing
  <2>3. meta.latest <= meta'.latest BY <1>10, <2>2, MetaGrows DEF PromoteFlushed
  <2> QED BY <2>1, <2>3, ShapeOfUnchanged DEF Shape, Grows
<1>11. CASE WriteFlushed(f)
  <2>1. UNCHANGED <<stream, committed, meta, wal, call, inner>> BY <1>11 DEF WriteFlushed
  <2>2. PICK g : g = Greatest({flushed, Top(f)}) OBVIOUS
  <2>3. Top(f) \in Nat /\ flushed \in Nat
    BY <1>11, TopIsRead, Numbers DEF WriteFlushed, Writing, NumbersAreNat
  <2>4. g = IF flushed <= Top(f) THEN Top(f) ELSE flushed BY <2>2, <2>3, GreatestOfTwo
  <2>5. flushed <= flushed' BY <1>11, <2>2, <2>3, <2>4 DEF WriteFlushed
  <2> QED BY <2>1, <2>5, ShapeOfUnchanged DEF Shape, Grows
<1>12. CASE FlushError(f) BY <1>12, <1>q, ShapeOfUnchanged DEF FlushError
<1>13. CASE EndBatch(f) BY <1>13, <1>q, ShapeOfUnchanged DEF EndBatch
<1>14. CASE CrashFlusher(f) BY <1>14, <1>q, ShapeOfUnchanged DEF CrashFlusher
<1> QED
  BY <1>1, <1>2, <1>3, <1>4, <1>5, <1>6, <1>7, <1>8, <1>9, <1>10, <1>11, <1>12, <1>13, <1>14
  DEF FlusherStep

LEMMA ShapeStep ==
    ASSUME WalIInv, [WalNext]_walVars
    PROVE  Shape
<1>1. CASE Reconcile
  <2>1. UNCHANGED <<stream, flushed, inner, committed, call>>
    BY <1>1 DEF Reconcile, queueVars, flushVars, boundVars, historyVars
  <2>2. EntriesKept /\ meta.latest <= meta'.latest
        /\ \A s \in Snapshot : wal[s].status # "Prepared" => wal'[s] = wal[s]
    BY <1>1, ReconciledIs DEF Reconcile, WalIInv
  <2>3. CommittedKept BY <2>1, <2>2 DEF CommittedKept
  <2> QED BY <2>1, <2>2, <2>3, ShapeOfUnchanged DEF Shape, Grows, WalIInv
<1>2. CASE UNCHANGED walVars
  BY <1>2, ShapeOfUnchanged
  DEF WalIInv, walVars, Shape, Grows, bucketVars, queueVars, flushVars, boundVars, historyVars
<1> QED
  BY <1>1, <1>2, CallShape, CheckpointShape, DeletionShape, FlusherShape
  DEF WalNext, WalIInv, CallStep

-----------------------------------------------------------------------------
(* Which steps change what.                                                *)

LEMMA CallFrame ==
    ASSUME NEW c \in Call, Acquire(c) \/ Renew(c) \/ Crash(c)
    PROVE  UNCHANGED <<stream, basis, committed, wal, meta, flushed, inner, acked, flusher,
                       flushClaim, lapses>>
BY DEF Acquire, Renew, Crash, bucketVars, queueVars, flushVars, boundVars, historyVars

LEMMA LapseFrame ==
    ASSUME Lapse \/ FlushLapse
    PROVE  /\ UNCHANGED <<stream, basis, committed, wal, meta, flushed, inner, acked, flusher, call>>
           /\ UNCHANGED claim \/ Lapse
           /\ UNCHANGED flushClaim \/ FlushLapse
BY DEF Lapse, FlushLapse, bucketVars, queueVars, flushVars, boundVars, historyVars

LEMMA CheckpointFrame ==
    ASSUME NEW c \in Checkpoint, CheckpointStep(c)
    PROVE  /\ UNCHANGED <<flushed, inner, acked, flusher, flushClaim, lapses>>
           /\ UNCHANGED <<stream, basis>> \/ Publish(c)
           /\ UNCHANGED committed \/ MarkCommitted(c)
           /\ UNCHANGED wal \/ Reconciled \/ MarkPrepared(c) \/ MarkCommitted(c) \/ Fail(c)
           /\ UNCHANGED meta \/ Reconciled \/ ReserveSeq(c) \/ Promote(c)
           /\ UNCHANGED claim \/ Promote(c) \/ Fail(c)
<1> USE DEF bucketVars, queueVars, flushVars, boundVars, historyVars
<1>1. CASE Project(c) BY <1>1 DEF Project
<1>2. CASE EnsureCurrent(c) BY <1>2 DEF EnsureCurrent
<1>3. CASE ReserveSeq(c) BY <1>3 DEF ReserveSeq
<1>4. CASE MarkPrepared(c) BY <1>4 DEF MarkPrepared
<1>5. CASE Publish(c) BY <1>5 DEF Publish
<1>6. CASE ReadPrepared(c) BY <1>6 DEF ReadPrepared
<1>7. CASE MarkCommitted(c) BY <1>7 DEF MarkCommitted
<1>8. CASE CacheRun(c) BY <1>8 DEF CacheRun
<1>9. CASE Promote(c) BY <1>9 DEF Promote
<1>10. CASE Fail(c) BY <1>10 DEF Fail
<1> QED BY <1>1, <1>2, <1>3, <1>4, <1>5, <1>6, <1>7, <1>8, <1>9, <1>10 DEF CheckpointStep

LEMMA DeletionFrame ==
    ASSUME NEW x \in Deletion, DeletionStep(x)
    PROVE  /\ UNCHANGED <<stream, basis, committed, acked, flusher, flushClaim, lapses>>
           /\ UNCHANGED wal \/ Reconciled \/ ClearEntries(x)
           /\ UNCHANGED meta \/ Reconciled \/ PutTombstone(x)
           /\ UNCHANGED flushed \/ PutTombstone(x)
           /\ UNCHANGED inner \/ DeleteInner(x)
           /\ UNCHANGED claim \/ ClearEntries(x) \/ LoseDeletion(x)
<1> USE DEF bucketVars, queueVars, flushVars, boundVars, historyVars
<1>1. CASE Drain(x) BY <1>1 DEF Drain
<1>2. CASE DeleteInner(x) BY <1>2 DEF DeleteInner
<1>3. CASE ReadWatermark(x) BY <1>3 DEF ReadWatermark
<1>4. CASE PutTombstone(x) BY <1>4 DEF PutTombstone
<1>5. CASE ClearEntries(x) BY <1>5 DEF ClearEntries
<1>6. CASE LoseDeletion(x) BY <1>6 DEF LoseDeletion
<1> QED BY <1>1, <1>2, <1>3, <1>4, <1>5, <1>6 DEF DeletionStep

InnerWrites(f) == PersistStale(f) \/ ApplyRun(f) \/ SaveThread(f) \/ SaveMessages(f)
Acknowledges(f) == \E js \in DOMAIN stream : Acknowledge(f, js)
FlushClaims(f) == AcquireFlush(f) \/ EndBatch(f) \/ CrashFlusher(f)

LEMMA FlusherFrame ==
    ASSUME NEW f \in Flusher, FlusherStep(f)
    PROVE  /\ UNCHANGED <<claim, stream, basis, committed, call, lapses>>
           /\ UNCHANGED acked \/ Acknowledges(f)
           /\ UNCHANGED wal \/ Classify(f) \/ Acknowledges(f)
           /\ UNCHANGED meta \/ PromoteFlushed(f)
           /\ UNCHANGED flushed \/ WriteFlushed(f)
           /\ UNCHANGED inner \/ InnerWrites(f)
           /\ UNCHANGED flushClaim \/ FlushClaims(f)
<1> USE DEF bucketVars, queueVars, flushVars, boundVars, historyVars
<1>1. ASSUME NEW js \in DOMAIN stream, Pull(f, js)
      PROVE  UNCHANGED <<claim, stream, basis, committed, call, lapses, acked, wal, meta, flushed,
                         inner, flushClaim>>
  BY <1>1 DEF Pull
<1>2. ASSUME NEW js \in DOMAIN stream, Acknowledge(f, js)
      PROVE  UNCHANGED <<claim, stream, basis, committed, call, lapses, meta, flushed, inner, flushClaim>>
  BY <1>2 DEF Acknowledge
<1>3. CASE AcquireFlush(f) BY <1>3 DEF AcquireFlush, FlushClaims
<1>4. CASE Classify(f) BY <1>4 DEF Classify
<1>5. CASE PersistStale(f) BY <1>5 DEF PersistStale, InnerWrites
<1>6. CASE EnsureFlushCurrent(f) BY <1>6 DEF EnsureFlushCurrent
<1>7. CASE ApplyRun(f) BY <1>7 DEF ApplyRun, InnerWrites
<1>8. CASE SaveThread(f) BY <1>8 DEF SaveThread, InnerWrites
<1>9. CASE SaveMessages(f) BY <1>9 DEF SaveMessages, InnerWrites
<1>10. CASE PromoteFlushed(f) BY <1>10 DEF PromoteFlushed
<1>11. CASE WriteFlushed(f) BY <1>11 DEF WriteFlushed
<1>12. CASE FlushError(f) BY <1>12 DEF FlushError
<1>13. CASE EndBatch(f) BY <1>13 DEF EndBatch, FlushClaims
<1>14. CASE CrashFlusher(f) BY <1>14 DEF CrashFlusher, FlushClaims
<1> QED
  BY <1>1, <1>2, <1>3, <1>4, <1>5, <1>6, <1>7, <1>8, <1>9, <1>10, <1>11, <1>12, <1>13, <1>14
  DEF FlusherStep, Acknowledges

LEMMA ReconcileFrame ==
    ASSUME Reconcile
    PROVE  /\ Reconciled
           /\ UNCHANGED <<claim, stream, basis, committed, call, lapses, acked, flushed, inner,
                          flusher, flushClaim>>
BY DEF Reconcile, queueVars, flushVars, boundVars, historyVars

LEMMA StutterFrame ==
    ASSUME UNCHANGED walVars
    PROVE  UNCHANGED <<claim, stream, basis, committed, wal, meta, flushed, call, lapses, acked,
                       inner, flusher, flushClaim>>
BY DEF walVars, bucketVars, queueVars, flushVars, boundVars, historyVars

Step == [WalNext]_walVars

\* One step of whom.
LEMMA Steps ==
    ASSUME Step
    PROVE  \/ \E c \in Call : Acquire(c) \/ Renew(c) \/ Crash(c)
           \/ Lapse \/ FlushLapse
           \/ \E c \in Checkpoint : CheckpointStep(c)
           \/ \E x \in Deletion : DeletionStep(x)
           \/ \E f \in Flusher : FlusherStep(f)
           \/ Reconcile
           \/ UNCHANGED walVars
BY Zenon DEF WalNext, Step

LEMMA StreamChanges ==
    ASSUME Step
    PROVE  /\ UNCHANGED <<stream, basis>> \/ \E c \in Checkpoint : Publish(c)
           /\ UNCHANGED committed \/ \E c \in Checkpoint : MarkCommitted(c)
           /\ UNCHANGED acked \/ \E f \in Flusher : Acknowledges(f)
BY Steps, CallFrame, LapseFrame, CheckpointFrame, DeletionFrame, FlusherFrame, ReconcileFrame,
   StutterFrame

LEMMA WalChanges ==
    ASSUME Step
    PROVE  \/ UNCHANGED wal \/ Reconciled
           \/ \E c \in Checkpoint : MarkPrepared(c) \/ MarkCommitted(c) \/ Fail(c)
           \/ \E x \in Deletion : ClearEntries(x)
           \/ \E f \in Flusher : Classify(f) \/ Acknowledges(f)
BY Steps, CallFrame, LapseFrame, CheckpointFrame, DeletionFrame, FlusherFrame, ReconcileFrame,
   StutterFrame

LEMMA MetaChanges ==
    ASSUME Step
    PROVE  /\ \/ UNCHANGED meta \/ Reconciled
              \/ \E c \in Checkpoint : ReserveSeq(c) \/ Promote(c)
              \/ \E x \in Deletion : PutTombstone(x)
              \/ \E f \in Flusher : PromoteFlushed(f)
           /\ \/ UNCHANGED flushed
              \/ \E x \in Deletion : PutTombstone(x)
              \/ \E f \in Flusher : WriteFlushed(f)
BY Steps, CallFrame, LapseFrame, CheckpointFrame, DeletionFrame, FlusherFrame, ReconcileFrame,
   StutterFrame

LEMMA ClaimChanges ==
    ASSUME Step
    PROVE  \/ UNCHANGED claim \/ Lapse
           \/ \E c \in Call : Acquire(c) \/ Renew(c)
           \/ \E c \in Checkpoint : Promote(c) \/ Fail(c)
           \/ \E x \in Deletion : ClearEntries(x) \/ LoseDeletion(x)
<1>1. ASSUME NEW c \in Call, Crash(c) PROVE UNCHANGED claim BY <1>1 DEF Crash
<1> QED
  BY <1>1, Steps, LapseFrame, CheckpointFrame, DeletionFrame, FlusherFrame, ReconcileFrame,
     StutterFrame

LEMMA InnerChanges ==
    ASSUME Step
    PROVE  \/ UNCHANGED inner
           \/ \E x \in Deletion : DeleteInner(x)
           \/ \E f \in Flusher : InnerWrites(f)
BY Steps, CallFrame, LapseFrame, CheckpointFrame, DeletionFrame, FlusherFrame, ReconcileFrame,
   StutterFrame

LEMMA FlusherChanges ==
    ASSUME Step
    PROVE  /\ UNCHANGED flusher \/ \E f \in Flusher : FlusherStep(f)
           /\ UNCHANGED flushClaim \/ FlushLapse \/ \E f \in Flusher : FlushClaims(f)
           /\ UNCHANGED lapses \/ Lapse \/ FlushLapse
BY Steps, CallFrame, LapseFrame, CheckpointFrame, DeletionFrame, FlusherFrame, ReconcileFrame,
   StutterFrame

\* Call c is at p with these values; the others stay.
Moved(c, p, s, j, b) ==
    /\ call'[c].pc = p /\ call'[c].seq = s /\ call'[c].js = j /\ call'[c].basis = b
    /\ \A o \in Call : o # c => call'[o] = call[o]

LEMMA MovedIs ==
    ASSUME Types, NEW c \in Call, NEW p \in Places, Goto(c, p)
    PROVE  Moved(c, p, call[c].seq, call[c].js, call[c].basis)
<1>1. call[c] \in CallRecord BY DEF Types
<1>2. Becomes(c, [call[c] EXCEPT !.pc = p]) BY GotoIs
<1> QED BY <1>1, <1>2 DEF Becomes, CallRecord, Moved

\* What each step of a checkpoint makes of its record.
LEMMA CheckpointMoves ==
    ASSUME Types, SeqInv, NEW c \in Checkpoint
    PROVE  LET q == call[c] IN
           /\ Acquire(c) => Moved(c, "claimed", q.seq, q.js, q.basis)
           /\ Crash(c) => Moved(c, "crashed", q.seq, q.js, q.basis)
           /\ Project(c) => Moved(c, "projected", q.seq, q.js, Overlay)
           /\ EnsureCurrent(c) =>
                 \/ q.pc = "projected" /\ Moved(c, "reserving", q.seq, q.js, q.basis)
                 \/ q.pc = "prepared" /\ Moved(c, "publishing", q.seq, q.js, q.basis)
                 \/ q.pc = "published" /\ Moved(c, "committing", q.seq, q.js, q.basis)
           /\ ReserveSeq(c) => Moved(c, "reserved", meta.reserved + 1, q.js, q.basis)
           /\ MarkPrepared(c) => Moved(c, "prepared", q.seq, q.js, q.basis)
           /\ Publish(c) => Moved(c, "published", q.seq, Len(stream) + 1, q.basis)
           /\ ReadPrepared(c) => Moved(c, "deciding", q.seq, q.js, q.basis)
           /\ MarkCommitted(c) =>
                 \/ Moved(c, "committed", q.seq, q.js, q.basis)
                 \/ Moved(c, "committing", q.seq, q.js, q.basis) /\ UNCHANGED <<wal, committed>>
           /\ CacheRun(c) => Moved(c, "cached", q.seq, q.js, q.basis)
           /\ Promote(c) => Moved(c, "ok", q.seq, q.js, q.basis)
           /\ Fail(c) => \/ Moved(c, "unknown", q.seq, q.js, q.basis)
                         \/ Moved(c, "error", q.seq, q.js, q.basis)
<1> DEFINE q == call[c]
<1>0. c \in Call /\ q \in CallRecord BY DEF Call, Types
<1>p. Stopped \cup CheckpointSteps \subseteq Places BY DEF Places
<1>1. ASSUME Project(c) PROVE Moved(c, "projected", q.seq, q.js, Overlay)
  BY <1>0, <1>1, ProjectIs DEF Becomes, CallRecord, Moved
<1>2. ASSUME ReserveSeq(c) PROVE Moved(c, "reserved", meta.reserved + 1, q.js, q.basis)
  <2>1. [call[c] EXCEPT !.pc = "reserved", !.seq = meta.reserved + 1] \in CallRecord
    BY <1>0, <1>2, ReserveIs DEF CallRecord, CheckpointSteps
  <2>2. Becomes(c, [call[c] EXCEPT !.pc = "reserved", !.seq = meta.reserved + 1])
    BY <1>0, <1>2, <2>1, ReserveIs, CallsAre
  <2> QED BY <1>0, <2>2 DEF Becomes, CallRecord, Moved
<1>3. ASSUME Publish(c) PROVE Moved(c, "published", q.seq, Len(stream) + 1, q.basis)
  BY <1>0, <1>3, PublishIs DEF Becomes, CallRecord, Moved
<1>4. ASSUME NEW p \in Places, Goto(c, p) PROVE Moved(c, p, q.seq, q.js, q.basis)
  BY <1>0, <1>4, MovedIs
<1>5. {"claimed", "reserving", "publishing", "committing", "prepared", "deciding", "committed",
       "cached"} \subseteq CheckpointSteps
  BY DEF CheckpointSteps
<1>6. {"crashed", "ok", "unknown", "error"} \subseteq Stopped BY DEF Stopped
<1>7. \A p \in {"claimed", "reserving", "publishing", "committing", "prepared", "deciding",
                "committed", "cached", "crashed", "ok", "unknown", "error"} :
         Goto(c, p) => Moved(c, p, q.seq, q.js, q.basis)
  BY <1>4, <1>5, <1>6, <1>p
<1>8. /\ Acquire(c) => Goto(c, "claimed")
      /\ Crash(c) => Goto(c, "crashed")
      /\ MarkPrepared(c) => Goto(c, "prepared")
      /\ ReadPrepared(c) => Goto(c, "deciding")
      /\ CacheRun(c) => Goto(c, "cached")
      /\ Promote(c) => Goto(c, "ok")
      /\ Fail(c) => Goto(c, "unknown") \/ Goto(c, "error")
  BY DEF Acquire, Crash, MarkPrepared, ReadPrepared, CacheRun, Promote, Fail
<1>9. MarkCommitted(c) => \/ Goto(c, "committed")
                          \/ Goto(c, "committing") /\ UNCHANGED <<wal, committed>>
  BY DEF MarkCommitted
<1>10. EnsureCurrent(c) => \/ q.pc = "projected" /\ Goto(c, "reserving")
                           \/ q.pc = "prepared" /\ Goto(c, "publishing")
                           \/ q.pc = "published" /\ Goto(c, "committing")
  BY DEF EnsureCurrent
<1> QED BY <1>1, <1>2, <1>3, <1>7, <1>8, <1>9, <1>10

\* ... and of a deletion.
LEMMA DeletionMoves ==
    ASSUME Types, NEW x \in Deletion
    PROVE  LET q == call[x] IN
           /\ Acquire(x) => Moved(x, "claimed", q.seq, q.js, q.basis)
           /\ Crash(x) => Moved(x, "crashed", q.seq, q.js, q.basis)
           /\ Drain(x) => Moved(x, "draining", q.seq, q.js, q.basis)
           /\ DeleteInner(x) => Moved(x, "deleted", q.seq, q.js, q.basis)
           /\ ReadWatermark(x) =>
                 Moved(x, "marking", Greatest({meta.reserved, meta.latest, flushed}), q.js, q.basis)
           /\ PutTombstone(x) => Moved(x, "marked", q.seq, q.js, q.basis)
           /\ ClearEntries(x) \/ LoseDeletion(x) =>
                 \/ Moved(x, "ok", q.seq, q.js, q.basis)
                 \/ Moved(x, "error", q.seq, q.js, q.basis)
<1> DEFINE q == call[x]
           w == Greatest({meta.reserved, meta.latest, flushed})
<1>0. x \in Call /\ q \in CallRecord BY DEF Call, Types
<1>p. Stopped \cup CheckpointSteps \cup DeletionSteps \subseteq Places BY DEF Places
<1>1. ASSUME ReadWatermark(x) PROVE Moved(x, "marking", w, q.js, q.basis)
  <2>1. w \in {0} \cup Snapshot BY GreatestSnapshot DEF Types
  <2>2. [call[x] EXCEPT !.pc = "marking", !.seq = w] \in CallRecord
    BY <1>0, <2>1 DEF CallRecord, DeletionSteps
  <2>3. call' = [call EXCEPT ![x] = [call[x] EXCEPT !.pc = "marking", !.seq = w]]
    BY <1>0, <1>1 DEF ReadWatermark, Types
  <2>4. Becomes(x, [call[x] EXCEPT !.pc = "marking", !.seq = w]) BY <1>0, <2>2, <2>3, CallsAre
  <2> QED BY <1>0, <2>4 DEF Becomes, CallRecord, Moved
<1>4. ASSUME NEW p \in Places, Goto(x, p) PROVE Moved(x, p, q.seq, q.js, q.basis)
  BY <1>0, <1>4, MovedIs
<1>5. {"claimed", "crashed", "draining", "deleted", "marked", "ok", "error"} \subseteq Places
  BY <1>p DEF CheckpointSteps, DeletionSteps, Stopped
<1>7. \A p \in {"claimed", "crashed", "draining", "deleted", "marked", "ok", "error"} :
         Goto(x, p) => Moved(x, p, q.seq, q.js, q.basis)
  BY <1>4, <1>5
<1>8. /\ Acquire(x) => Goto(x, "claimed")
      /\ Crash(x) => Goto(x, "crashed")
      /\ Drain(x) => Goto(x, "draining")
      /\ DeleteInner(x) => Goto(x, "deleted")
      /\ PutTombstone(x) => Goto(x, "marked")
      /\ ClearEntries(x) \/ LoseDeletion(x) => Goto(x, "ok") \/ Goto(x, "error")
  BY DEF Acquire, Crash, Drain, DeleteInner, PutTombstone, ClearEntries, LoseDeletion
<1> QED BY <1>1, <1>7, <1>8

\* A call changes by its own steps only.
LEMMA CallChanges ==
    ASSUME Types, SeqInv, Step, NEW c \in Call
    PROVE  \/ call'[c] = call[c]
           \/ Acquire(c) \/ Crash(c)
           \/ c \in Checkpoint /\ CheckpointStep(c)
           \/ c \in Deletion /\ DeletionStep(c)
<1>1. CASE UNCHANGED call BY <1>1
<1>2. ASSUME NEW b \in Call, Acquire(b) \/ Crash(b), b # c PROVE call'[c] = call[c]
  <2>1. CASE b \in Checkpoint BY <1>2, <2>1, CheckpointMoves DEF Moved
  <2>2. CASE b \in Deletion BY <1>2, <2>2, DeletionMoves DEF Moved
  <2> QED BY <2>1, <2>2 DEF Call
<1>3. ASSUME NEW b \in Checkpoint, CheckpointStep(b), b # c PROVE call'[c] = call[c]
  <2>1. \E p, s, j, q : Moved(b, p, s, j, q)
    BY <1>3, CheckpointMoves, Zenon DEF CheckpointStep
  <2> QED BY <1>3, <2>1 DEF Moved
<1>4. ASSUME NEW b \in Deletion, DeletionStep(b), b # c PROVE call'[c] = call[c]
  <2>1. \E p, s, j, q : Moved(b, p, s, j, q)
    BY <1>4, DeletionMoves, Zenon DEF DeletionStep
  <2> QED BY <1>4, <2>1 DEF Moved
<1>5. ASSUME NEW b \in Call, Renew(b) PROVE UNCHANGED call BY <1>5 DEF Renew
<1>6. \/ UNCHANGED call
      \/ \E b \in Call : Acquire(b) \/ Crash(b)
      \/ \E b \in Checkpoint : CheckpointStep(b)
      \/ \E b \in Deletion : DeletionStep(b)
  BY <1>5, Steps, LapseFrame, FlusherFrame, ReconcileFrame, StutterFrame
<1> QED BY <1>1, <1>2, <1>3, <1>4, <1>6

-----------------------------------------------------------------------------
(* Sequence numbers.                                                       *)

\* The stream stays, or a publishing call appends its number.
LEMMA StreamIs ==
    ASSUME WalIInv, Step
    PROVE  \/ UNCHANGED <<stream, basis>>
           \/ \E c \in Checkpoint : \E js \in Nat :
                 /\ Publish(c) /\ Publishes(c)
                 /\ js = Len(stream) + 1 /\ js \notin DOMAIN stream
                 /\ DOMAIN stream' = DOMAIN stream \cup {js}
                 /\ \A i \in DOMAIN stream : stream'[i] = stream[i]
                 /\ stream'[js] = [seq |-> call[c].seq, run |-> RunOf[c]]
                 /\ Moved(c, "published", call[c].seq, js, call[c].basis)
<1>1. ASSUME NEW c \in Checkpoint, Publish(c)
      PROVE  \E js \in Nat :
                 /\ Publish(c) /\ Publishes(c)
                 /\ js = Len(stream) + 1 /\ js \notin DOMAIN stream
                 /\ DOMAIN stream' = DOMAIN stream \cup {js}
                 /\ \A i \in DOMAIN stream : stream'[i] = stream[i]
                 /\ stream'[js] = [seq |-> call[c].seq, run |-> RunOf[c]]
                 /\ Moved(c, "published", call[c].seq, js, call[c].basis)
  <2>1. Publishes(c) BY <1>1 DEF Publish, Publishes
  <2>2. PICK js : js = Len(stream) + 1 OBVIOUS
  <2>3. Moved(c, "published", call[c].seq, js, call[c].basis)
    BY <1>1, <2>2, CheckpointMoves DEF WalIInv
  <2>4. /\ js \in Nat /\ js \notin DOMAIN stream
        /\ DOMAIN stream' = DOMAIN stream \cup {js}
        /\ \A i \in DOMAIN stream : stream'[i] = stream[i]
        /\ stream'[js] = [seq |-> call[c].seq, run |-> RunOf[c]]
    BY <1>1, <2>2, PublishIs DEF WalIInv
  <2> QED BY <1>1, <2>1, <2>2, <2>3, <2>4
<1> QED BY <1>1, StreamChanges

\* A call that is about to publish was, or has just checked its claim.
LEMMA PublishesIs ==
    ASSUME WalIInv, Step, NEW b \in Checkpoint, Publishes(b)'
    PROVE  /\ call'[b].seq = call[b].seq /\ call'[b].basis = call[b].basis
           /\ \/ Publishes(b)
              \/ /\ call[b].pc = "prepared" /\ Current(b) /\ EnsureCurrent(b)
                 /\ UNCHANGED <<stream, meta, claim, wal, flushed, inner>>
                 /\ \A o \in Checkpoint : o # b => call'[o] = call[o]
<1>0. b \in Call BY DEF Call
<1>1. CASE call'[b] = call[b] BY <1>1 DEF Publishes
<1>2. CASE EnsureCurrent(b)
  <2>1. Current(b) /\ UNCHANGED <<stream, meta, claim, wal, flushed, inner>>
    BY <1>2 DEF EnsureCurrent, bucketVars, queueVars
  <2>2. /\ call[b].pc = "prepared" /\ call'[b].seq = call[b].seq /\ call'[b].basis = call[b].basis
        /\ \A o \in Call : o # b => call'[o] = call[o]
    BY <1>2, CheckpointMoves DEF WalIInv, Moved, Publishes
  <2> QED BY <1>2, <2>1, <2>2 DEF Call
<1>3. CASE Acquire(b) \/ Crash(b)
  BY <1>3, CheckpointMoves DEF WalIInv, Moved, Publishes
<1>4. CASE CheckpointStep(b) /\ ~EnsureCurrent(b)
  BY <1>4, CheckpointMoves DEF WalIInv, Moved, Publishes, CheckpointStep
<1>5. b \notin Deletion BY WalAssumption
<1> QED BY <1>0, <1>1, <1>2, <1>3, <1>4, <1>5, CallChanges DEF WalIInv

\* A bound of the numbers in use stays one while no larger number is in turn.
LEMMA AboveStays ==
    ASSUME WalIInv, Step, NEW n, Above(n),
           \A b \in Checkpoint : claim.token = b /\ call[b].pc = "prepared" => call[b].seq <= n
    PROVE  Above(n)'
<1>1. ASSUME NEW js \in DOMAIN stream' PROVE stream'[js].seq <= n
  <2>1. CASE UNCHANGED stream BY <1>1, <2>1 DEF Above
  <2>2. ASSUME NEW c \in Checkpoint, NEW k \in Nat, Publishes(c),
               DOMAIN stream' = DOMAIN stream \cup {k},
               \A i \in DOMAIN stream : stream'[i] = stream[i],
               stream'[k] = [seq |-> call[c].seq, run |-> RunOf[c]]
        PROVE  stream'[js].seq <= n
    <3>1. CASE js \in DOMAIN stream BY <2>2, <3>1 DEF Above
    <3>2. CASE js = k
      <4>1. stream'[js].seq = call[c].seq BY <2>2, <3>2
      <4> QED BY <2>2, <4>1 DEF Above
    <3> QED BY <1>1, <2>2, <3>1, <3>2
  <2> QED BY <2>1, <2>2, StreamIs
<1>2. ASSUME NEW b \in Checkpoint, Publishes(b)' PROVE call'[b].seq <= n
  BY <1>2, PublishesIs DEF Above, Current
<1> QED BY <1>1, <1>2 DEF Above

\* What is announced is in the stream, or a tombstone.
LEMMA MetaIs ==
    ASSUME WalIInv, Step
    PROVE  \/ /\ meta'.latest = meta.latest \/ InStream(meta'.latest)
              /\ \/ meta'.reserved = meta.reserved
                 \/ \E c \in Checkpoint : ReserveSeq(c) /\ meta'.reserved = meta.reserved + 1
           \/ \E x \in Deletion :
                 /\ PutTombstone(x) /\ meta'.latest = call[x].seq /\ meta'.reserved = call[x].seq
<1>t. Types /\ SeqInv /\ EntryInv BY DEF WalIInv
<1>n. meta.latest \in Nat /\ meta.reserved \in Nat BY <1>t, Numbers DEF NumbersAreNat
<1>s. ASSUME NEW s \in Snapshot, NEW js \in DOMAIN stream, stream[js].seq = s,
             meta' = meta \/ (meta'.latest = s /\ meta.reserved <= meta'.reserved
                              /\ (meta'.reserved = meta.reserved \/ meta'.reserved = s))
      PROVE  /\ meta'.latest = meta.latest \/ InStream(meta'.latest)
             /\ meta'.reserved = meta.reserved
  <2>1. s <= meta.reserved /\ s \in Nat BY <1>s, <1>t, SnapshotIsNat DEF SeqInv, Above
  <2>2. meta'.latest = meta.latest \/ InStream(meta'.latest) BY <1>s DEF InStream
  <2> QED BY <1>s, <1>n, <2>1, <2>2
<1>1. CASE UNCHANGED meta BY <1>1
<1>2. CASE Reconciled
  <2>1. CASE meta' = meta BY <2>1
  <2>2. CASE meta' # meta
    <3>1. /\ meta'.latest \in Snapshot /\ meta'.latestJs \in committed
          /\ stream[meta'.latestJs].seq = meta'.latest
          /\ meta.reserved <= meta'.reserved
          /\ meta'.reserved = meta.reserved \/ meta'.reserved = meta'.latest
      BY <1>2, <1>t, <2>2, ReconciledIs
    <3>2. meta'.latestJs \in DOMAIN stream BY <1>t, <3>1 DEF Types
    <3> QED BY <1>s, <3>1, <3>2
  <2> QED BY <2>1, <2>2
<1>3. ASSUME NEW c \in Checkpoint, ReserveSeq(c)
      PROVE  meta'.latest = meta.latest /\ meta'.reserved = meta.reserved + 1
  <2>1. meta \in [reserved : {0} \cup Snapshot, latest : {0} \cup Snapshot, latestJs : Nat]
    BY <1>t DEF Types
  <2> QED BY <1>3, <1>t, <2>1, ReserveIs
<1>4. ASSUME NEW c \in Checkpoint, Promote(c)
      PROVE  /\ meta'.latest = meta.latest \/ InStream(meta'.latest)
             /\ meta'.reserved = meta.reserved
  <2>1. call[c].pc = "cached" /\ Promoted(call[c].seq, call[c].js) BY <1>4 DEF Promote
  <2>2. call[c].pc \in AtMost BY <2>1 DEF AtMost
  <2>3. call[c].js \in DOMAIN stream /\ stream[call[c].js] = [seq |-> call[c].seq, run |-> RunOf[c]]
    BY <1>t, <2>2 DEF EntryInv
  <2>4. stream[call[c].js].seq = call[c].seq /\ call[c].seq \in Snapshot
    BY <1>t, <2>3, SeqOfMessage
  <2> QED BY <1>s, <1>t, <2>1, <2>3, <2>4, MetaGrows
<1>5. ASSUME NEW f \in Flusher, PromoteFlushed(f)
      PROVE  /\ meta'.latest = meta.latest \/ InStream(meta'.latest)
             /\ meta'.reserved = meta.reserved
  <2>1. flusher[f].pc \in Writing /\ Promoted(Top(f), TopJs(f))
    BY <1>5 DEF PromoteFlushed, Writing
  <2>2. FlusherInv(f) BY DEF WalIInv
  <2>3. Top(f) \in Snapshot /\ TopJs(f) \in DOMAIN stream /\ stream[TopJs(f)].seq = Top(f)
    BY <1>t, <2>1, <2>2, TopIsRead
  <2> QED BY <1>s, <1>t, <2>1, <2>3, MetaGrows
<1>6. ASSUME NEW x \in Deletion, PutTombstone(x)
      PROVE  meta'.latest = call[x].seq /\ meta'.reserved = call[x].seq
  BY <1>6 DEF PutTombstone
<1> QED BY <1>1, <1>2, <1>3, <1>4, <1>5, <1>6, MetaChanges

\* A tombstone covers every number in use.
LEMMA TombstoneIs ==
    ASSUME WalIInv, NEW x \in Deletion, PutTombstone(x)
    PROVE  /\ Current(x) /\ Above(call[x].seq) /\ call[x].seq <= meta.reserved
           /\ meta.latest <= call[x].seq /\ flushed <= call[x].seq
           /\ flushed' = call[x].seq /\ meta'.latest = call[x].seq /\ meta'.reserved = call[x].seq
<1>1. call[x].pc \in Marking BY DEF PutTombstone, Marking
<1>2. /\ Current(x) /\ Above(call[x].seq) /\ call[x].seq <= meta.reserved
      /\ meta.latest <= call[x].seq
  BY <1>1 DEF WalIInv, TombInv
<1>3. x \in Call BY DEF Call
<1>4. flushed <= call[x].seq BY <1>2, <1>3, Numbers DEF NumbersAreNat, SeqInv, WalIInv
<1> QED BY <1>2, <1>4 DEF PutTombstone

\* The watermark is a number that was announced.
LEMMA FlushedIs ==
    ASSUME WalIInv, Step
    PROVE  \/ UNCHANGED flushed
           \/ \E x \in Deletion : PutTombstone(x)
           \/ \E f \in Flusher :
                 /\ WriteFlushed(f) /\ flusher[f].pc \in Writing
                 /\ Top(f) \in Snapshot /\ Top(f) <= meta.latest
                 /\ flushed' = IF flushed <= Top(f) THEN Top(f) ELSE flushed
                 /\ UNCHANGED meta
<1>1. ASSUME NEW f \in Flusher, WriteFlushed(f)
      PROVE  /\ WriteFlushed(f) /\ flusher[f].pc \in Writing
             /\ Top(f) \in Snapshot /\ Top(f) <= meta.latest
             /\ flushed' = IF flushed <= Top(f) THEN Top(f) ELSE flushed
             /\ UNCHANGED meta
  <2>1. flusher[f].pc = "flushed" /\ UNCHANGED meta BY <1>1 DEF WriteFlushed
  <2>2. FlusherInv(f) /\ Types BY DEF WalIInv
  <2>3. flusher[f].pc \in Writing BY <2>1 DEF Writing
  <2>4. Top(f) \in Snapshot /\ Top(f) \in Nat BY <2>2, <2>3, TopIsRead
  <2>5. Top(f) <= meta.latest BY <2>1, <2>2 DEF FlusherInv
  <2>6. flushed \in Nat BY <2>2, Numbers DEF NumbersAreNat
  <2>7. PICK g : g = Greatest({flushed, Top(f)}) OBVIOUS
  <2>8. g = IF flushed <= Top(f) THEN Top(f) ELSE flushed BY <2>4, <2>6, <2>7, GreatestOfTwo
  <2>9. flushed' = g BY <1>1, <2>7 DEF WriteFlushed
  <2> QED BY <1>1, <2>1, <2>3, <2>4, <2>5, <2>8, <2>9
<1> QED BY <1>1, MetaChanges

\* A number is never taken back.
LEMMA NumberedGrows ==
    ASSUME WalIInv, Step, Types'
    PROVE  /\ Numbered \subseteq Numbered' /\ Cardinality(Numbered) <= Cardinality(Numbered')
           /\ Cardinality(Numbered) \in Nat /\ Cardinality(Numbered') \in Nat
<1>t. Types /\ SeqInv BY DEF WalIInv
<1>n. meta.reserved \in Nat BY <1>t, Numbers DEF NumbersAreNat
<1>1. ASSUME NEW c \in Checkpoint, call[c].seq # 0 PROVE call'[c].seq # 0
  <2>0. c \in Call /\ c \notin Deletion BY WalAssumption DEF Call
  <2>1. CASE ReserveSeq(c) BY <1>t, <1>n, <2>1, CheckpointMoves DEF Moved
  <2>2. CASE CheckpointStep(c) /\ ~ReserveSeq(c)
    BY <1>1, <1>t, <2>2, CheckpointMoves DEF Moved, CheckpointStep
  <2>3. CASE Acquire(c) \/ Crash(c) BY <1>1, <1>t, <2>3, CheckpointMoves DEF Moved
  <2> QED BY <1>1, <1>t, <2>0, <2>1, <2>2, <2>3, CallChanges
<1>2. Numbered \subseteq Numbered' BY <1>1 DEF Numbered
<1>3. Numbered \subseteq Checkpoint /\ Numbered' \subseteq Checkpoint BY DEF Numbered
<1>4. IsFiniteSet(Numbered) /\ IsFiniteSet(Numbered') BY <1>3, CountIsNat, FS_Subset
<1>5. Cardinality(Numbered) <= Cardinality(Numbered') BY <1>2, <1>4, FS_Subset
<1> QED BY <1>2, <1>4, <1>5, FS_CardinalityType

Seqs == \A js \in DOMAIN stream :
            stream[js].seq \in Nat /\ stream[js].seq \in Snapshot /\ stream[js].run \in Run

LEMMA SeqsAre == Types => Seqs
BY SeqOfMessage, SnapshotIsNat DEF Seqs

LEMMA SeqStep ==
    ASSUME WalIInv, Step, Types'
    PROVE  SeqInv'
<1>t. Types /\ SeqInv /\ OwnerInv /\ EntryInv BY DEF WalIInv
<1>n. NumbersAreNat /\ NumbersAreNat' BY <1>t, Numbers, PTL
<1>c. \A c \in Checkpoint : c \in Call /\ c \notin Deletion BY WalAssumption DEF Call
<1>x. \A x \in Deletion : x \in Call /\ x \notin Checkpoint BY WalAssumption DEF Call
<1>1. (meta.reserved <= Cardinality(Numbered))'
  <2>1. meta.reserved <= Cardinality(Numbered) /\ meta.reserved \in Nat
    BY <1>t, <1>n DEF SeqInv, NumbersAreNat
  <2>2. ASSUME NEW c \in Checkpoint, ReserveSeq(c) PROVE meta'.reserved <= Cardinality(Numbered')
    <3>1. meta' = [meta EXCEPT !.reserved = meta.reserved + 1]
          /\ meta.reserved + 1 <= Cardinality(Numbered')
      BY <1>t, <2>2, ReserveIs
    <3>2. meta \in [reserved : {0} \cup Snapshot, latest : {0} \cup Snapshot, latestJs : Nat]
      BY <1>t DEF Types
    <3> QED BY <3>1, <3>2
  <2>3. ASSUME NEW x \in Deletion, PutTombstone(x) PROVE meta'.reserved <= meta.reserved
    BY <2>3, TombstoneIs
  <2>4. meta'.reserved \in Nat BY <1>n DEF NumbersAreNat
  <2> QED BY <2>1, <2>2, <2>3, <2>4, MetaIs, NumberedGrows
<1>2. ASSUME NEW c \in Checkpoint, call'[c].pc \in Unreserved PROVE call'[c].seq = 0
  <2>1. ASSUME ReserveSeq(c) PROVE FALSE BY <1>2, <1>t, <2>1, CheckpointMoves DEF Moved, Unreserved
  <2>2. CASE CheckpointStep(c) /\ ~ReserveSeq(c)
    BY <1>2, <1>t, <2>2, CheckpointMoves
    DEF SeqInv, Unreserved, Moved, CheckpointStep, Project
  <2>3. CASE Acquire(c) \/ Crash(c)
    BY <1>2, <1>t, <2>3, CheckpointMoves DEF SeqInv, Unreserved, Moved, Acquire
  <2>4. CASE call'[c] = call[c] BY <1>2, <1>t, <2>4 DEF SeqInv
  <2> QED BY <1>t, <1>c, <2>1, <2>2, <2>3, <2>4, CallChanges
<1>3. ASSUME NEW c \in Checkpoint,
             call'[c].pc \in {"reserved", "prepared", "publishing", "published", "committing",
                              "deciding", "committed", "cached"}
      PROVE  call'[c].seq # 0
  <2>1. meta.reserved + 1 # 0 BY <1>n DEF NumbersAreNat
  <2>2. CASE CheckpointStep(c)
    BY <1>3, <1>t, <2>1, <2>2, CheckpointMoves
    DEF SeqInv, Moved, CheckpointStep, MarkPrepared, Publish, ReadPrepared, MarkCommitted, CacheRun
  <2>3. CASE Acquire(c) \/ Crash(c) BY <1>3, <1>t, <2>3, CheckpointMoves DEF Moved
  <2>4. CASE call'[c] = call[c] BY <1>3, <1>t, <2>4 DEF SeqInv
  <2> QED BY <1>t, <1>c, <2>2, <2>3, <2>4, CallChanges
<1>4. ASSUME NEW x \in Deletion, call'[x].pc \in {"idle", "claimed", "draining", "deleted"}
      PROVE  call'[x].seq = 0
  <2>2. CASE DeletionStep(x)
    BY <1>4, <1>t, <2>2, DeletionMoves
    DEF SeqInv, Moved, DeletionStep, Drain, DeleteInner
  <2>3. CASE Acquire(x) \/ Crash(x)
    BY <1>4, <1>t, <2>3, DeletionMoves DEF Moved, SeqInv, Acquire
  <2>4. CASE call'[x] = call[x] BY <1>4, <1>t, <2>4 DEF SeqInv
  <2> QED BY <1>t, <1>x, <2>2, <2>3, <2>4, CallChanges
<1>5. Above(meta.reserved)'
  <2>1. Above(meta.reserved) BY <1>t DEF SeqInv
  <2>2. \A b \in Checkpoint : claim.token = b /\ call[b].pc = "prepared" => call[b].seq <= meta.reserved
    BY <1>t DEF OwnerInv
  <2>3. ASSUME NEW n \in Nat, Above(n), n <= meta'.reserved,
               \A b \in Checkpoint : claim.token = b /\ call[b].pc = "prepared" => call[b].seq <= n
        PROVE  Above(meta.reserved)'
    <3>1. Above(n)' BY <2>3, AboveStays
    <3>2. \A js \in DOMAIN stream' : stream'[js].seq \in Nat
      <4>1. Seqs' BY SeqsAre, PTL
      <4> QED BY <4>1 DEF Seqs
    <3>3. \A c \in Checkpoint : call'[c].seq \in Nat BY <1>c, <1>n DEF NumbersAreNat
    <3>4. meta'.reserved \in Nat BY <1>n DEF NumbersAreNat
    <3> QED BY <2>3, <3>1, <3>2, <3>3, <3>4 DEF Above
  <2>4. meta.reserved \in Nat /\ \A x \in Call : call[x].seq \in Nat
    BY <1>n DEF NumbersAreNat
  <2>5. ASSUME NEW x \in Deletion, PutTombstone(x) PROVE Above(meta.reserved)'
    <3>1. claim.token = x BY <2>5, TombstoneIs DEF Current
    <3>2. \A b \in Checkpoint : ~(claim.token = b) BY <1>x, <3>1
    <3> QED BY <1>x, <2>3, <2>4, <2>5, <3>2, TombstoneIs
  <2>6. meta.reserved <= meta'.reserved => Above(meta.reserved)'
    BY <2>1, <2>2, <2>3, <2>4
  <2> QED BY <2>4, <2>5, <2>6, MetaIs
<1>6. flushed' <= meta'.latest
  <2>1. flushed <= meta.latest BY <1>t DEF SeqInv
  <2>2. meta.latest <= meta'.latest BY ShapeStep DEF Shape, Grows, Step
  <2>3. flushed \in Nat /\ meta.latest \in Nat /\ meta'.latest \in Nat /\ flushed' \in Nat
    BY <1>n DEF NumbersAreNat
  <2>4. ASSUME NEW x \in Deletion, PutTombstone(x) PROVE flushed' <= meta'.latest
    BY <2>3, <2>4, TombstoneIs
  <2>5. ASSUME NEW f \in Flusher, Top(f) \in Snapshot, Top(f) <= meta.latest,
               flushed' = IF flushed <= Top(f) THEN Top(f) ELSE flushed
        PROVE  flushed' <= meta'.latest
    <3>1. flushed' <= meta.latest BY <2>1, <2>5
    <3> QED BY <2>2, <2>3, <3>1
  <2>6. UNCHANGED flushed => flushed' <= meta'.latest BY <2>1, <2>2, <2>3
  <2> QED BY <2>4, <2>5, <2>6, FlushedIs
<1>7. meta'.latest <= meta'.reserved
  <2>1. meta.latest <= meta.reserved BY <1>t DEF SeqInv
  <2>2. InStream(meta'.latest) => meta'.latest <= meta.reserved
    BY <1>t DEF InStream, SeqInv, Above
  <2>3. /\ meta.latest \in Nat /\ meta'.latest \in Nat /\ meta.reserved \in Nat
        /\ meta'.reserved \in Nat /\ \A x \in Deletion : call[x].seq \in Nat
    BY <1>n, <1>x DEF NumbersAreNat
  <2> QED BY <2>1, <2>2, <2>3, MetaIs
<1>8. \A i, j \in DOMAIN stream' : i # j => stream'[i].seq # stream'[j].seq
  <2>1. CASE UNCHANGED stream BY <1>t, <2>1 DEF SeqInv
  <2>2. ASSUME NEW c \in Checkpoint, NEW k \in Nat, Publishes(c),
               DOMAIN stream' = DOMAIN stream \cup {k},
               \A i \in DOMAIN stream : stream'[i] = stream[i],
               stream'[k] = [seq |-> call[c].seq, run |-> RunOf[c]]
        PROVE  \A i, j \in DOMAIN stream' : i # j => stream'[i].seq # stream'[j].seq
    <3>1. stream'[k].seq = call[c].seq BY <2>2
    <3>2. \A i \in DOMAIN stream : stream[i].seq # call[c].seq
      BY <1>t, <2>2 DEF SeqInv, InStream
    <3>3. \A i, j \in DOMAIN stream : i # j => stream[i].seq # stream[j].seq
      BY <1>t DEF SeqInv
    <3> QED BY <2>2, <3>1, <3>2, <3>3
  <2> QED BY <2>1, <2>2, StreamIs
<1>9. ASSUME NEW c \in Checkpoint, Publishes(c)' PROVE ~InStream(call[c].seq)'
  <2>1. call'[c].seq = call[c].seq BY <1>9, PublishesIs
  <2>2. \A js \in DOMAIN stream : stream[js].seq # call[c].seq
    <3>1. CASE Publishes(c) BY <1>t, <3>1 DEF SeqInv, InStream
    <3>2. CASE call[c].pc = "prepared" /\ Current(c)
      <4>1. \A js \in DOMAIN stream : stream[js].seq < call[c].seq
        BY <1>t, <3>2 DEF OwnerInv, Current
      <4>2. \A js \in DOMAIN stream : stream[js].seq \in Nat
        BY <1>t, SeqOfMessage, SnapshotIsNat
      <4>3. call[c].seq \in Nat BY <1>c, <1>n DEF NumbersAreNat
      <4> QED BY <4>1, <4>2, <4>3
    <3> QED BY <1>9, <3>1, <3>2, PublishesIs
  <2>3. CASE UNCHANGED stream BY <2>1, <2>2, <2>3 DEF InStream
  <2>4. ASSUME NEW b \in Checkpoint, NEW k \in Nat, Publishes(b), Publish(b),
               Moved(b, "published", call[b].seq, k, call[b].basis),
               DOMAIN stream' = DOMAIN stream \cup {k},
               \A i \in DOMAIN stream : stream'[i] = stream[i],
               stream'[k] = [seq |-> call[b].seq, run |-> RunOf[b]]
        PROVE  ~InStream(call[c].seq)'
    <3>1. b # c BY <1>9, <2>4 DEF Moved, Publishes
    <3>2. call'[c] = call[c] BY <1>c, <2>4, <3>1 DEF Moved
    <3>3. Publishes(c) BY <1>9, <3>2 DEF Publishes
    <3>4. call[b].seq # call[c].seq BY <1>t, <2>4, <3>1, <3>3 DEF SeqInv
    <3>5. stream'[k].seq = call[b].seq BY <2>4
    <3> QED BY <2>1, <2>2, <2>4, <3>4, <3>5 DEF InStream
  <2> QED BY <2>3, <2>4, StreamIs
<1>10. ASSUME NEW c \in Checkpoint, NEW b \in Checkpoint, Publishes(c)', Publishes(b)', c # b
       PROVE  call'[c].seq # call'[b].seq
  <2>1. call'[c].seq = call[c].seq /\ call'[b].seq = call[b].seq BY <1>10, PublishesIs
  <2>2. call[c].seq \in Nat /\ call[b].seq \in Nat BY <1>c, <1>n DEF NumbersAreNat
  <2>3. CASE Publishes(c) /\ Publishes(b) BY <1>10, <1>t, <2>1, <2>3 DEF SeqInv
  <2>4. ASSUME NEW d \in Checkpoint, NEW e \in Checkpoint, d # e, Publishes(e)',
               call[d].pc = "prepared", Current(d), \A o \in Checkpoint : o # d => call'[o] = call[o]
        PROVE  call[e].seq < call[d].seq
    <3>1. Publishes(e) BY <2>4 DEF Publishes
    <3> QED BY <1>t, <2>4, <3>1 DEF OwnerInv, Current
  <2>5. CASE ~Publishes(c)
    <3>1. call[c].pc = "prepared" /\ Current(c) /\ \A o \in Checkpoint : o # c => call'[o] = call[o]
      BY <1>10, <2>5, PublishesIs
    <3>2. call[b].seq < call[c].seq BY <1>10, <2>4, <3>1
    <3> QED BY <2>1, <2>2, <3>2
  <2>6. CASE ~Publishes(b)
    <3>1. call[b].pc = "prepared" /\ Current(b) /\ \A o \in Checkpoint : o # b => call'[o] = call[o]
      BY <1>10, <2>6, PublishesIs
    <3>2. call[c].seq < call[b].seq BY <1>10, <2>4, <3>1
    <3> QED BY <2>1, <2>2, <3>2
  <2> QED BY <2>3, <2>5, <2>6
<1> QED
  BY <1>1, <1>2, <1>3, <1>4, <1>5, <1>6, <1>7, <1>8, <1>9, <1>10 DEF SeqInv

-----------------------------------------------------------------------------
(* Who holds the claim.                                                    *)

\* A claim passes on by Acquire only.
LEMMA ClaimIs ==
    ASSUME WalIInv, Step
    PROVE  \/ claim'.token = claim.token
           \/ \E c \in Call : Acquire(c) /\ claim' = [token |-> c, live |-> TRUE] /\ ~claim.live
<1>1. claim \in [token : Call \cup {Nobody}, live : BOOLEAN] BY DEF WalIInv, Types
<1>2. Lapse => claim'.token = claim.token BY <1>1 DEF Lapse
<1>3. ASSUME NEW c \in Call, Acquire(c)
      PROVE  Acquire(c) /\ claim' = [token |-> c, live |-> TRUE] /\ ~claim.live
  BY <1>3 DEF Acquire
<1>4. ASSUME NEW c \in Call, Renew(c) PROVE claim'.token = claim.token
  BY <1>1, <1>4 DEF Renew
<1>5. ASSUME NEW c, claim' = Released(claim, c) PROVE claim'.token = claim.token
  BY <1>1, <1>5, ReleasedTypes
<1> QED
  BY <1>2, <1>3, <1>4, <1>5, ClaimChanges DEF Promote, Fail, ClearEntries, LoseDeletion

LEMMA OwnerStep ==
    ASSUME WalIInv, Step, Types'
    PROVE  OwnerInv'
<1>t. Types /\ SeqInv /\ OwnerInv BY DEF WalIInv
<1>n. NumbersAreNat /\ NumbersAreNat' BY <1>t, Numbers, PTL
<1>c. \A c \in Checkpoint : c \in Call /\ c \notin Deletion BY WalAssumption DEF Call
<1> DEFINE Ahead(c, n) ==
      /\ n <= meta'.reserved
      /\ \A js \in DOMAIN stream' : stream'[js].seq < n
      /\ \A b \in Checkpoint : Publishes(b)' /\ b # c => call'[b].seq < n
<1> SUFFICES ASSUME NEW c \in Checkpoint, claim'.token = c,
                    call'[c].pc \in {"reserved", "prepared", "publishing"}
             PROVE  Ahead(c, call'[c].seq)
  BY DEF OwnerInv
<1>1. ~Acquire(c) BY <1>t, CheckpointMoves DEF Moved
<1>2. claim.token = c BY <1>1, ClaimIs
<1>3. meta'.reserved \in Nat /\ meta.reserved \in Nat /\ call[c].seq \in Nat
  BY <1>c, <1>n DEF NumbersAreNat
<1>4. CASE ReserveSeq(c)
  <2>1. Moved(c, "reserved", meta.reserved + 1, call[c].js, call[c].basis)
    BY <1>4, <1>t, CheckpointMoves
  <2>2. meta' = [meta EXCEPT !.reserved = meta.reserved + 1] BY <1>4, <1>t, ReserveIs
  <2>3. meta'.reserved = meta.reserved + 1
    <3>1. meta \in [reserved : {0} \cup Snapshot, latest : {0} \cup Snapshot, latestJs : Nat]
      BY <1>t DEF Types
    <3> QED BY <2>2, <3>1
  <2>4. UNCHANGED stream BY <1>4 DEF ReserveSeq, queueVars
  <2>5. Above(meta.reserved) BY <1>t DEF SeqInv
  <2>6. \A js \in DOMAIN stream : stream[js].seq \in Nat BY <1>t, SeqsAre DEF Seqs
  <2>7. \A js \in DOMAIN stream' : stream'[js].seq < meta.reserved + 1
    BY <1>3, <2>4, <2>5, <2>6 DEF Above
  <2>8. ASSUME NEW b \in Checkpoint, Publishes(b)', b # c PROVE call'[b].seq < meta.reserved + 1
    <3>1. call'[b] = call[b] BY <1>c, <2>1, <2>8 DEF Moved
    <3>2. Publishes(b) BY <2>8, <3>1 DEF Publishes
    <3>3. call[b].seq \in Nat BY <1>c, <1>n DEF NumbersAreNat
    <3> QED BY <1>3, <2>5, <3>1, <3>2, <3>3 DEF Above
  <2> QED BY <1>3, <2>1, <2>3, <2>7, <2>8 DEF Moved
<1>5. CASE ~ReserveSeq(c)
  <2>1. /\ call'[c].seq = call[c].seq
        /\ call[c].pc \in {"reserved", "prepared", "publishing"}
    <3>2. CASE CheckpointStep(c)
      BY <1>t, <1>5, <3>2, CheckpointMoves DEF CheckpointStep, Moved, MarkPrepared
    <3>3. CASE Crash(c) BY <1>t, <3>3, CheckpointMoves DEF Moved
    <3> QED BY <1>c, <1>t, <1>1, <3>2, <3>3, CallChanges
  <2>2. /\ call[c].seq <= meta.reserved
        /\ \A js \in DOMAIN stream : stream[js].seq < call[c].seq
        /\ \A b \in Checkpoint : Publishes(b) /\ b # c => call[b].seq < call[c].seq
    BY <1>2, <1>t, <2>1 DEF OwnerInv
  <2>3. call[c].seq <= meta'.reserved
    <3>1. ASSUME NEW x \in Deletion, PutTombstone(x) PROVE FALSE
      BY <1>2, <1>c, <3>1, TombstoneIs DEF Current
    <3> QED BY <1>3, <2>2, <3>1, MetaIs
  <2>4. \A js \in DOMAIN stream' : stream'[js].seq < call[c].seq
    <3>1. CASE UNCHANGED stream BY <2>2, <3>1
    <3>2. ASSUME NEW b \in Checkpoint, NEW k \in Nat, Publishes(b),
                 Moved(b, "published", call[b].seq, k, call[b].basis),
                 DOMAIN stream' = DOMAIN stream \cup {k},
                 \A i \in DOMAIN stream : stream'[i] = stream[i],
                 stream'[k] = [seq |-> call[b].seq, run |-> RunOf[b]]
          PROVE  \A js \in DOMAIN stream' : stream'[js].seq < call[c].seq
      <4>1. b # c BY <3>2 DEF Moved
      <4>2. stream'[k].seq = call[b].seq BY <3>2
      <4> QED BY <2>2, <3>2, <4>1, <4>2
    <3> QED BY <3>1, <3>2, StreamIs
  <2>5. ASSUME NEW b \in Checkpoint, Publishes(b)', b # c PROVE call'[b].seq < call[c].seq
    BY <1>2, <2>2, <2>5, PublishesIs DEF Current
  <2> QED BY <2>1, <2>3, <2>4, <2>5
<1> QED BY <1>4, <1>5

\* Some runs lose a claim between the two halves of the deletion's last step.
NoLapseMarking == LapseAt \cap Marking = {}

LEMMA TombStep ==
    ASSUME NoLapseMarking, WalIInv, Step, Types'
    PROVE  TombInv'
<1>t. Types /\ SeqInv /\ TombInv BY DEF WalIInv
<1>n. NumbersAreNat /\ NumbersAreNat' BY <1>t, Numbers, PTL
<1>x. \A x \in Deletion : x \in Call /\ x \notin Checkpoint BY WalAssumption DEF Call
<1> SUFFICES ASSUME NEW x \in Deletion, call'[x].pc \in Marking
             PROVE  /\ Current(x)'
                    /\ meta'.latest <= call'[x].seq /\ call'[x].seq <= meta'.reserved
                    /\ Above(call[x].seq)'
                    /\ call'[x].pc = "marked" => call'[x].seq <= flushed'
  BY DEF TombInv
<1>1. CASE ReadWatermark(x)
  <2>1. PICK w : w = Greatest({meta.reserved, meta.latest, flushed}) OBVIOUS
  <2>2. Moved(x, "marking", w, call[x].js, call[x].basis) BY <1>1, <1>t, <2>1, DeletionMoves
  <2>3. UNCHANGED <<claim, meta, flushed, stream>> /\ Current(x)
    BY <1>1 DEF ReadWatermark, bucketVars, queueVars
  <2>4. meta.reserved \in Nat /\ meta.latest \in Nat /\ flushed \in Nat
    BY <1>n DEF NumbersAreNat
  <2>5. meta.latest <= meta.reserved /\ flushed <= meta.latest BY <1>t DEF SeqInv
  <2>6. w = meta.reserved
    <3>1. \A y \in {meta.reserved, meta.latest, flushed} : y <= meta.reserved BY <2>4, <2>5
    <3> QED BY <2>1, <2>4, <3>1, GreatestIsUnique
  <2>7. Above(w) BY <1>t, <2>6 DEF SeqInv
  <2>8. \A b \in Checkpoint : call'[b] = call[b] BY <1>x, <2>2 DEF Moved, Call
  <2>9. call'[x].seq = w BY <2>2 DEF Moved
  <2>10. Above(call[x].seq)' BY <2>3, <2>7, <2>8, <2>9 DEF Above, Publishes
  <2>11. call'[x].pc = "marking" BY <2>2 DEF Moved
  <2> QED BY <2>3, <2>4, <2>5, <2>6, <2>9, <2>10, <2>11 DEF Current
<1>2. CASE ~ReadWatermark(x)
  <2>1. /\ call'[x].seq = call[x].seq /\ call[x].pc \in Marking
        /\ call'[x].pc = "marked" => call[x].pc = "marked" \/ PutTombstone(x)
    <3>2. CASE DeletionStep(x)
      BY <1>t, <1>2, <3>2, DeletionMoves DEF DeletionStep, Moved, PutTombstone, Marking
    <3>3. CASE Acquire(x) \/ Crash(x) BY <1>t, <3>3, DeletionMoves DEF Moved, Marking
    <3> QED BY <1>x, <1>t, <3>2, <3>3, CallChanges
  <2>2. /\ Current(x) /\ Above(call[x].seq)
        /\ meta.latest <= call[x].seq /\ call[x].seq <= meta.reserved
        /\ call[x].pc = "marked" => call[x].seq <= flushed
    BY <1>t, <2>1 DEF TombInv
  <2>3. call[x].seq \in Nat /\ meta'.latest \in Nat /\ meta'.reserved \in Nat
        /\ meta.reserved \in Nat /\ meta.latest \in Nat /\ flushed \in Nat /\ flushed' \in Nat
    BY <1>n, <1>x DEF NumbersAreNat
  <2>4. claim.token = x /\ claim.live BY <2>2 DEF Current
  <2>5. claim' = claim
    <3>1. ASSUME Lapse PROVE FALSE
      <4>1. call[x].pc = "crashed" \/ call[x].pc \in LapseAt BY <2>4, <3>1 DEF Lapse
      <4> QED BY <2>1, <4>1 DEF NoLapseMarking, Marking
    <3>2. ASSUME NEW c \in Call, Acquire(c) \/ Renew(c) PROVE FALSE
      BY <2>4, <3>2 DEF Acquire, Renew
    <3>3. ASSUME NEW c, claim' = Released(claim, c), c # x PROVE claim' = claim
      <4>1. claim \in [token : Call \cup {Nobody}, live : BOOLEAN] BY <1>t DEF Types
      <4> QED BY <2>4, <3>3, <4>1, ReleasedTypes
    <3>4. ASSUME ClearEntries(x) \/ LoseDeletion(x) PROVE FALSE
      BY <1>t, <3>4, DeletionMoves DEF Moved, Marking
    <3> QED
      BY <1>x, <3>1, <3>2, <3>3, <3>4, ClaimChanges DEF Promote, Fail, ClearEntries, LoseDeletion
  <2>6. Current(x)' BY <2>2, <2>5 DEF Current
  <2>7. Above(call[x].seq)'
    <3>1. \A b \in Checkpoint : ~(claim.token = b) BY <1>x, <2>4
    <3>2. PICK n : n = call[x].seq OBVIOUS
    <3>3. Above(n) BY <2>2, <3>2
    <3>4. Above(n)' BY <3>1, <3>3, AboveStays
    <3> QED BY <2>1, <3>2, <3>4
  <2>8. ASSUME NEW y \in Deletion, PutTombstone(y) PROVE y = x
    BY <2>4, <2>8, TombstoneIs DEF Current
  <2>9. ASSUME PutTombstone(x)
        PROVE  flushed' = call[x].seq /\ meta'.latest = call[x].seq /\ meta'.reserved = call[x].seq
    BY <2>9, TombstoneIs
  <2>10. InStream(meta'.latest) => meta'.latest <= call[x].seq BY <2>2 DEF InStream, Above
  <2>11. meta'.latest <= call[x].seq /\ call[x].seq <= meta'.reserved
    BY <2>2, <2>3, <2>8, <2>9, <2>10, MetaIs
  <2>12. flushed <= flushed' BY ShapeStep DEF Shape, Grows, Step
  <2>13. call'[x].pc = "marked" => call[x].seq <= flushed'
    BY <2>1, <2>2, <2>3, <2>9, <2>12
  <2> QED BY <2>1, <2>6, <2>7, <2>11, <2>13
<1> QED BY <1>1, <1>2

-----------------------------------------------------------------------------
(* Entries.                                                                *)

\* An entry stays, is given up, or is written by the call whose number it is.
Prepares(c, s) ==
    /\ MarkPrepared(c) /\ s = call[c].seq /\ wal[s] = NoEntry
    /\ wal'[s] = [status |-> "Prepared", token |-> c, js |-> 0]
Commits(c, s) ==
    /\ MarkCommitted(c) /\ s = call[c].seq
    /\ wal[s] = [status |-> "Prepared", token |-> c, js |-> 0]
    /\ wal'[s] = [status |-> "Committed", token |-> c, js |-> call[c].js]
    /\ committed' = committed \cup {call[c].js}
    /\ Moved(c, "committed", call[c].seq, call[c].js, call[c].basis)

LEMMA MarkIs ==
    ASSUME WalIInv, NEW c \in Checkpoint, MarkCommitted(c)
    PROVE  \/ Moved(c, "committing", call[c].seq, call[c].js, call[c].basis)
              /\ UNCHANGED <<wal, committed>>
           \/ /\ Commits(c, call[c].seq) /\ call[c].seq \in Snapshot
              /\ \A s \in Snapshot : s # call[c].seq => wal'[s] = wal[s]
<1>t. Types /\ SeqInv BY DEF WalIInv
<1>c. c \in Call /\ call[c] \in CallRecord BY <1>t DEF Call, Types
<1>1. call[c].seq \in Snapshot BY <1>t, <1>c DEF MarkCommitted, SeqInv, CallRecord
<1>p. {"committed", "committing"} \subseteq Places BY DEF Places, CheckpointSteps
<1>2. CASE /\ wal[call[c].seq] = [status |-> "Prepared", token |-> c, js |-> 0]
           /\ wal' = [wal EXCEPT ![call[c].seq] = [status |-> "Committed",
                         token |-> c, js |-> call[c].js]]
           /\ committed' = committed \cup {call[c].js}
           /\ Goto(c, "committed")
  <2>1. Moved(c, "committed", call[c].seq, call[c].js, call[c].basis)
    BY <1>t, <1>c, <1>p, <1>2, MovedIs
  <2>2. \A s \in Snapshot : wal'[s] = IF s = call[c].seq
           THEN [status |-> "Committed", token |-> c, js |-> call[c].js] ELSE wal[s]
    BY <1>t, <1>2 DEF Types
  <2> QED BY <1>1, <1>2, <2>1, <2>2 DEF Commits
<1>3. CASE Goto(c, "committing") /\ UNCHANGED <<wal, committed>>
  BY <1>t, <1>c, <1>p, <1>3, MovedIs
<1> QED BY <1>2, <1>3 DEF MarkCommitted

LEMMA WalIs ==
    ASSUME WalIInv, Step, NEW s \in Snapshot
    PROVE  \/ wal'[s] = wal[s]
           \/ wal'[s].status \in {"None", "Aborted"} /\ wal'[s].js = 0
           \/ \E c \in Checkpoint : Prepares(c, s) \/ Commits(c, s)
<1>t. Types /\ SeqInv /\ EntryInv BY DEF WalIInv
<1>z. wal[s] \in Entry /\ (wal[s].status = "Prepared" => wal[s].js = 0)
  BY <1>t DEF Types, EntryInv
<1>e. ASSUME wal'[s] = Settled(wal[s]), wal'[s] # wal[s]
      PROVE  wal'[s].status \in {"None", "Aborted"} /\ wal'[s].js = 0
  <2>1. wal[s].status = "Prepared" BY <1>e, <1>z, SettledIs
  <2>2. wal'[s].js = 0 BY <1>e, <1>z, <2>1, SettledIs
  <2>3. wal'[s].status # "Prepared" BY <1>e, <1>z, SettledIs
  <2>4. wal'[s].status \in {"Prepared", "Aborted"} BY <1>e, <1>z, <2>1, SettledIs
  <2> QED BY <2>2, <2>3, <2>4
<1>1. CASE Reconciled
  BY <1>t, <1>1, <1>e, ReconciledIs
<1>2. ASSUME NEW c \in Checkpoint, MarkPrepared(c)
      PROVE  wal'[s] = wal[s] \/ Prepares(c, s)
  <2>1. wal'[s] = IF s = call[c].seq THEN [status |-> "Prepared", token |-> c, js |-> 0]
                  ELSE wal[s]
    BY <1>t, <1>2 DEF MarkPrepared, Types
  <2> QED BY <1>2, <2>1 DEF MarkPrepared, Prepares
<1>3. ASSUME NEW c \in Checkpoint, MarkCommitted(c)
      PROVE  wal'[s] = wal[s] \/ Commits(c, s)
  BY <1>3, MarkIs
<1>4. ASSUME NEW c \in Checkpoint, Fail(c)
      PROVE  wal'[s] = wal[s] \/ (wal'[s].status = "Aborted" /\ wal'[s].js = 0)
  BY <1>t, <1>4, <1>z, FailedEntries
<1>5. ASSUME NEW x \in Deletion, ClearEntries(x) PROVE wal'[s].status = "None" /\ wal'[s].js = 0
  BY <1>5 DEF ClearEntries, NoEntry
<1>6. ASSUME NEW f \in Flusher, Classify(f)
      PROVE  wal'[s] = wal[s] \/ (wal'[s].status \in {"None", "Aborted"} /\ wal'[s].js = 0)
  BY <1>t, <1>6, <1>e, ClassifiedIs
<1>7. ASSUME NEW f \in Flusher, NEW js \in DOMAIN stream, Acknowledge(f, js)
      PROVE  wal'[s] = wal[s] \/ (wal'[s].status \in {"None", "Aborted"} /\ wal'[s].js = 0)
  <2>1. wal' = wal \/ wal' = [wal EXCEPT ![stream[js].seq] = NoEntry]
    BY <1>7 DEF Acknowledge
  <2> QED BY <1>t, <2>1 DEF Types, NoEntry
<1> QED
  BY <1>1, <1>2, <1>3, <1>4, <1>5, <1>6, <1>7, WalChanges DEF Acknowledges

LEMMA EntryStep ==
    ASSUME WalIInv, Step, Types'
    PROVE  EntryInv'
<1>t. Types /\ SeqInv /\ EntryInv BY DEF WalIInv
<1>n. NumbersAreNat /\ NumbersAreNat' BY <1>t, Numbers, PTL
<1>c. \A c \in Checkpoint : c \in Call /\ c \notin Deletion BY WalAssumption DEF Call
<1>g. Grows BY ShapeStep DEF Shape, Step
<1>i. committed \subseteq DOMAIN stream /\ committed \subseteq Nat \ {0} BY <1>t DEF Types
<1>a. ASSUME NEW c \in Checkpoint, call[c].pc \in AtMost
      PROVE  /\ call[c].js \in DOMAIN stream /\ call[c].js # 0
             /\ stream[call[c].js] = [seq |-> call[c].seq, run |-> RunOf[c]]
             /\ stream[call[c].js].seq = call[c].seq /\ call[c].seq \in Snapshot
  <2>1. /\ call[c].js \in DOMAIN stream
        /\ stream[call[c].js] = [seq |-> call[c].seq, run |-> RunOf[c]]
    BY <1>t, <1>a DEF EntryInv
  <2> QED BY <1>t, <2>1, SeqOfMessage
<1>1. ASSUME NEW s \in Snapshot
      PROVE  /\ wal'[s].status = "Committed" =>
                   wal'[s].js \in committed' /\ stream'[wal'[s].js].seq = s
             /\ wal'[s].status # "Committed" => wal'[s].js = 0
  <2>1. CASE wal'[s] = wal[s]
    <3>1. wal[s].status = "Committed" => wal[s].js \in committed /\ stream[wal[s].js].seq = s
      BY <1>t DEF EntryInv
    <3>2. wal[s].status # "Committed" => wal[s].js = 0 BY <1>t DEF EntryInv
    <3> QED BY <1>g, <1>i, <2>1, <3>1, <3>2 DEF Grows
  <2>2. ASSUME NEW c \in Checkpoint, Prepares(c, s)
        PROVE  wal'[s].status = "Prepared" /\ wal'[s].js = 0
    BY <2>2 DEF Prepares
  <2>3. ASSUME NEW c \in Checkpoint, Commits(c, s)
        PROVE  /\ wal'[s].status = "Committed" /\ wal'[s].js \in committed'
               /\ stream'[wal'[s].js].seq = s
    <3>1. call[c].pc \in AtMost BY <2>3 DEF Commits, MarkCommitted, AtMost
    <3>2. /\ wal'[s].status = "Committed" /\ wal'[s].js = call[c].js /\ s = call[c].seq
          /\ call[c].js \in committed'
      BY <2>3 DEF Commits
    <3> QED BY <1>a, <1>g, <3>1, <3>2 DEF Grows
  <2> QED BY <2>1, <2>2, <2>3, WalIs
<1>2. ASSUME NEW c \in Checkpoint, call'[c].pc \in AtMost
      PROVE  /\ call'[c].js \in DOMAIN stream'
             /\ stream'[call'[c].js] = [seq |-> call'[c].seq, run |-> RunOf[c]]
  <2>1. CASE Publish(c)
    <3>1. PICK js : js = Len(stream) + 1 OBVIOUS
    <3>2. Moved(c, "published", call[c].seq, js, call[c].basis)
      BY <1>t, <2>1, <3>1, CheckpointMoves
    <3>3. js \in DOMAIN stream' /\ stream'[js] = [seq |-> call[c].seq, run |-> RunOf[c]]
      BY <1>t, <2>1, <3>1, PublishIs
    <3> QED BY <3>2, <3>3 DEF Moved
  <2>2. CASE ~Publish(c)
    <3>1. call[c].pc \in AtMost /\ call'[c].js = call[c].js /\ call'[c].seq = call[c].seq
      <4>1. CASE CheckpointStep(c)
        BY <1>2, <1>t, <2>2, <4>1, CheckpointMoves
        DEF CheckpointStep, Moved, AtMost, ReadPrepared, MarkCommitted, CacheRun
      <4>2. CASE Acquire(c) \/ Crash(c) BY <1>2, <1>t, <4>2, CheckpointMoves DEF Moved, AtMost
      <4>3. CASE call'[c] = call[c] BY <1>2, <4>3
      <4> QED BY <1>c, <1>t, <4>1, <4>2, <4>3, CallChanges
    <3>2. /\ call[c].js \in DOMAIN stream
          /\ stream[call[c].js] = [seq |-> call[c].seq, run |-> RunOf[c]]
      BY <1>a, <3>1
    <3> QED BY <1>g, <3>1, <3>2 DEF Grows
  <2> QED BY <2>1, <2>2
<1>3. ASSUME NEW c \in Checkpoint, call'[c].pc \in {"committed", "cached"}
      PROVE  call'[c].js \in committed'
  <2>1. CASE MarkCommitted(c)
    <3>1. call'[c].pc # "committing" BY <1>3
    <3> QED BY <2>1, <3>1, MarkIs DEF Commits, Moved
  <2>2. CASE ~MarkCommitted(c)
    <3>1. call[c].pc \in {"committed", "cached"} /\ call'[c].js = call[c].js
      <4>1. CASE CheckpointStep(c)
        BY <1>3, <1>t, <2>2, <4>1, CheckpointMoves DEF CheckpointStep, Moved, CacheRun
      <4>2. CASE Acquire(c) \/ Crash(c) BY <1>3, <1>t, <4>2, CheckpointMoves DEF Moved
      <4>3. CASE call'[c] = call[c] BY <1>3, <4>3
      <4> QED BY <1>c, <1>t, <4>1, <4>2, <4>3, CallChanges
    <3>2. call[c].js \in committed BY <1>t, <3>1 DEF EntryInv
    <3> QED BY <1>g, <3>1, <3>2 DEF Grows
  <2> QED BY <2>1, <2>2
<1> DEFINE Points == /\ meta'.latestJs # 0 => meta'.latestJs \in committed'
                                              /\ stream'[meta'.latestJs].seq = meta'.latest
                     /\ meta'.latest > flushed' => meta'.latestJs # 0
<1>4. Points
  <2>1. /\ meta.latestJs # 0 => meta.latestJs \in committed /\ stream[meta.latestJs].seq = meta.latest
        /\ meta.latest > flushed => meta.latestJs # 0
    BY <1>t DEF EntryInv
  <2>2. flushed \in Nat /\ flushed' \in Nat /\ meta.latest \in Nat /\ flushed <= flushed'
    BY <1>n, <1>g DEF NumbersAreNat, Grows
  <2>3. ASSUME meta'.latest = meta.latest, meta'.latestJs = meta.latestJs PROVE Points
    BY <1>g, <1>i, <2>1, <2>2, <2>3 DEF Grows
  <2>4. ASSUME meta'.latestJs \in committed, stream[meta'.latestJs].seq = meta'.latest
        PROVE  Points
    BY <1>g, <1>i, <2>4 DEF Grows
  <2>5. ASSUME Reconciled PROVE Points BY <1>t, <2>3, <2>4, <2>5, ReconciledIs
  <2>6. ASSUME NEW c \in Checkpoint, ReserveSeq(c) PROVE Points
    <3>1. meta' = [meta EXCEPT !.reserved = meta.reserved + 1] BY <1>t, <2>6, ReserveIs
    <3>2. meta \in [reserved : {0} \cup Snapshot, latest : {0} \cup Snapshot, latestJs : Nat]
      BY <1>t DEF Types
    <3> QED BY <2>3, <3>1, <3>2
  <2>7. ASSUME NEW c \in Checkpoint, Promote(c) PROVE Points
    <3>1. call[c].pc = "cached" /\ Promoted(call[c].seq, call[c].js) BY <2>7 DEF Promote
    <3>2. call[c].js \in committed BY <1>t, <3>1 DEF EntryInv
    <3>3. stream[call[c].js].seq = call[c].seq /\ call[c].seq \in Snapshot
      BY <1>a, <3>1 DEF AtMost
    <3> QED BY <1>t, <2>3, <2>4, <3>1, <3>2, <3>3, MetaGrows
  <2>8. ASSUME NEW x \in Deletion, PutTombstone(x) PROVE Points
    <3>1. meta'.latestJs = 0 /\ meta'.latest = flushed' BY <2>8 DEF PutTombstone
    <3> QED BY <2>2, <3>1
  <2>9. ASSUME NEW f \in Flusher, PromoteFlushed(f) PROVE Points
    <3>1. flusher[f].pc \in Writing /\ Promoted(Top(f), TopJs(f))
      BY <2>9 DEF PromoteFlushed, Writing
    <3>2. FlusherInv(f) BY DEF WalIInv
    <3>3. /\ Top(f) \in Snapshot /\ TopJs(f) \in committed /\ stream[TopJs(f)].seq = Top(f)
      BY <1>t, <3>1, <3>2, TopIsRead
    <3> QED BY <1>t, <2>3, <2>4, <3>1, <3>3, MetaGrows
  <2> QED BY <2>3, <2>5, <2>6, <2>7, <2>8, <2>9, MetaChanges
<1> QED BY <1>1, <1>2, <1>3, <1>4 DEF EntryInv

-----------------------------------------------------------------------------
(* What was flushed.                                                       *)

\* What is stored stays stored, what is dead stays dead.
LEMMA StoredStays ==
    ASSUME WalIInv, Step, Types'
    PROVE  /\ \A js : IsStored(js) => IsStored(js)'
           /\ \A js \in DOMAIN stream : IsDead(js) => IsDead(js)'
           /\ \A js \in committed' : IsKept(js)' \/ IsStored(js)'
<1>t. Types /\ StoreInv BY DEF WalIInv
<1>n. NumbersAreNat /\ NumbersAreNat' BY <1>t, Numbers, PTL
<1>s. Shape BY ShapeStep DEF Step
<1>c. committed \subseteq DOMAIN stream BY <1>t DEF Types
<1>q. Seqs /\ Seqs' BY <1>t, SeqsAre, PTL
<1>1. ASSUME NEW js, IsStored(js) PROVE IsStored(js)'
  <2>1. /\ js \in committed /\ stream[js].seq <= flushed
        /\ inner.run[stream[js].run] # 0 \/ Deleted(stream[js].seq)
    BY <1>1 DEF IsStored
  <2>2. js \in DOMAIN stream /\ js \in committed' /\ stream'[js] = stream[js]
    BY <1>c, <1>s, <2>1 DEF Shape, Grows
  <2>3. stream[js].seq \in Nat /\ stream[js].run \in Run BY <1>q, <2>2 DEF Seqs
  <2>4. stream'[js].seq <= flushed'
    BY <1>n, <1>s, <2>1, <2>2, <2>3 DEF Shape, Grows, NumbersAreNat
  <2>5. inner.run[stream[js].run] # 0 => inner'.run[stream'[js].run] # 0
    BY <1>s, <2>2, <2>3 DEF Shape, Grows
  <2>6. ASSUME NEW x \in Deletion, stream[js].seq <= call[x].seq
        PROVE  stream'[js].seq <= call'[x].seq
    <3>1. x \in Call BY DEF Call
    <3>2. call[x].seq <= call'[x].seq BY <1>s DEF Shape, Grows
    <3>3. call[x].seq \in Nat /\ call'[x].seq \in Nat BY <1>n, <3>1 DEF NumbersAreNat
    <3> QED BY <2>2, <2>3, <2>6, <3>2, <3>3
  <2>7. Deleted(stream[js].seq) => Deleted(stream[js].seq)' BY <2>6 DEF Deleted
  <2> QED BY <2>1, <2>2, <2>4, <2>5, <2>7 DEF IsStored
<1>2. ASSUME NEW js \in DOMAIN stream, IsDead(js) PROVE IsDead(js)'
  <2>1. js \notin committed'
    BY <1>2, <1>s DEF IsDead, Shape, CommittedKept, Undecided
  <2>2. ASSUME NEW c \in Checkpoint, call'[c].pc \in Undecided, call'[c].js = js, IsOpen(c)'
        PROVE  FALSE
    <3>1. call'[c].seq = call[c].seq /\ call[c].pc \in Undecided /\ call[c].js = js
      BY <1>s, <2>2 DEF Shape, CallsKept
    <3>2. ~IsOpen(c) BY <1>2, <3>1 DEF IsDead
    <3>3. wal'[call[c].seq].status = "Prepared" /\ wal'[call[c].seq].token = c
      BY <2>2, <3>1 DEF IsOpen
    <3>4. call[c].seq \in Snapshot
      <4>1. c \in Call BY DEF Call
      <4>2. call[c] \in CallRecord BY <1>t, <4>1 DEF Types
      <4>3. call[c].seq # 0 BY <3>1 DEF WalIInv, SeqInv, Undecided
      <4> QED BY <4>2, <4>3 DEF CallRecord
    <3>5. CASE wal'[call[c].seq] = wal[call[c].seq] BY <3>2, <3>3, <3>5 DEF IsOpen
    <3>6. ASSUME NEW b \in Checkpoint, wal'[call[c].seq].token = b, call'[b].pc = "prepared"
          PROVE  FALSE
      BY <2>2, <3>3, <3>6 DEF Undecided
    <3> QED BY <1>s, <3>3, <3>4, <3>5, <3>6 DEF Shape, EntriesKept
  <2> QED BY <2>1, <2>2 DEF IsDead
<1>3. ASSUME NEW js \in committed' PROVE IsKept(js)' \/ IsStored(js)'
  <2>1. CASE js \notin committed BY <1>s, <2>1 DEF Shape, CommittedKept
  <2>2. CASE js \in committed /\ IsStored(js) BY <1>1, <2>2
  <2>3. CASE js \in committed /\ IsKept(js)
    <3>1. js \in DOMAIN stream /\ stream'[js] = stream[js]
      BY <1>c, <1>s, <2>3 DEF Shape, Grows
    <3>2. stream[js].seq \in Snapshot BY <1>q, <3>1 DEF Seqs
    <3>3. \/ wal'[stream[js].seq] = wal[stream[js].seq]
          \/ IsStored(js)
      BY <1>s, <2>3, <3>2 DEF Shape, CommittedKept, IsKept
    <3> QED BY <1>1, <2>3, <3>1, <3>3 DEF IsKept
  <2> QED BY <1>t, <2>1, <2>2, <2>3 DEF StoreInv
<1> QED BY <1>1, <1>2, <1>3

LEMMA StoreStep ==
    ASSUME WalIInv, Step, Types'
    PROVE  StoreInv'
<1>t. Types /\ SeqInv /\ EntryInv /\ StoreInv BY DEF WalIInv
<1>1. ASSUME NEW js \in acked' PROVE IsStored(js)' \/ IsDead(js)'
  <2>1. CASE js \in acked
    <3>1. js \in DOMAIN stream BY <1>t, <2>1 DEF Types
    <3> QED BY <1>t, <2>1, <3>1, StoredStays DEF StoreInv
  <2>2. ASSUME NEW f \in Flusher, NEW k \in DOMAIN stream, Acknowledge(f, k), js = k
        PROVE  IsStored(js)' \/ IsDead(js)'
    <3>1. flusher[f].pc = "finish" /\ k \in flusher[f].todo \cup flusher[f].ignored
      BY <2>2 DEF Acknowledge
    <3>2. FlusherInv(f) BY DEF WalIInv
    <3>3. IsStored(k) \/ IsDead(k) BY <1>t, <3>1, <3>2, AckedIsDone
    <3> QED BY <2>2, <3>3, StoredStays
  <2>3. \/ js \in acked
        \/ \E f \in Flusher : \E k \in DOMAIN stream : Acknowledge(f, k) /\ js = k
    <3>1. ASSUME NEW f \in Flusher, NEW k \in DOMAIN stream, Acknowledge(f, k)
          PROVE  acked' = acked \/ acked' = acked \cup {k}
      BY <3>1 DEF Acknowledge
    <3> QED BY <1>1, <3>1, StreamChanges DEF Acknowledges
  <2> QED BY <2>1, <2>2, <2>3
<1> QED BY <1>1, StoredStays DEF StoreInv

\* Only numbers of committed entries reach the inner store.
LEMMA InnerStep ==
    ASSUME WalIInv, Step, Types'
    PROVE  InnerInv'
<1>t. Types /\ InnerInv BY DEF WalIInv
<1>g. Grows BY ShapeStep DEF Shape, Step
<1>c. committed \subseteq DOMAIN stream BY <1>t DEF Types
<1>w. ASSUME NEW s, WasCommitted(s) PROVE WasCommitted(s)'
  BY <1>w, <1>g, <1>c DEF WasCommitted, Grows
<1>f. ASSUME NEW f \in Flusher, NEW s,
             s # 0 => \E js \in flusher[f].todo : stream[js].seq = s
      PROVE  WasCommitted(s)'
  <2>1. flusher[f].todo \subseteq committed BY DEF WalIInv, FlusherInv
  <2>2. WasCommitted(s) BY <1>f, <2>1 DEF WasCommitted
  <2> QED BY <1>w, <2>2
<1>z. WasCommitted(0)' BY DEF WasCommitted
<1>o. /\ \A s : s = inner.thread => WasCommitted(s)'
      /\ \A s : s = inner.messages => WasCommitted(s)'
      /\ \A r \in Run : \A s : s = inner.run[r] => WasCommitted(s)'
  BY <1>t, <1>w DEF InnerInv
<1>b. ASSUME NEW f \in Flusher
      PROVE  /\ \A s : s = Top(f) => WasCommitted(s)'
             /\ \A r \in Run : \A s : s = RunSeq(f, r) => WasCommitted(s)'
  <2>0. FlusherInv(f) BY DEF WalIInv
  <2>1. ASSUME NEW s, s = Top(f) PROVE WasCommitted(s)'
    <3>1. s # 0 => \E js \in flusher[f].todo : stream[js].seq = s BY <1>t, <2>0, <2>1, TopIs
    <3> QED BY <1>f, <3>1
  <2>2. ASSUME NEW r \in Run, NEW s, s = RunSeq(f, r) PROVE WasCommitted(s)'
    <3>1. s # 0 => \E js \in flusher[f].todo : stream[js].seq = s BY <1>t, <2>0, <2>2, RunSeqIs
    <3> QED BY <1>f, <3>1
  <2> QED BY <2>1, <2>2
<1> DEFINE Were == /\ \A s : s = inner'.thread => WasCommitted(s)'
                   /\ \A s : s = inner'.messages => WasCommitted(s)'
                   /\ \A r \in Run : \A s : s = inner'.run[r] => WasCommitted(s)'
<1>i. inner \in [thread : {0} \cup Snapshot, messages : {0} \cup Snapshot,
                 run : [Run -> {0} \cup Snapshot]]
  BY <1>t DEF Types
<1>1. CASE UNCHANGED inner
  <2>1. Were BY <1>o, <1>1
  <2> QED BY <2>1 DEF InnerInv
<1>2. ASSUME NEW x \in Deletion, DeleteInner(x) PROVE InnerInv'
  <2>1. inner'.thread = 0 /\ inner'.messages = 0 /\ inner'.run = inner.run
    BY <1>2, <1>i DEF DeleteInner
  <2>2. Were BY <1>z, <1>o, <2>1
  <2> QED BY <2>2 DEF InnerInv
<1>3. ASSUME NEW f \in Flusher, PersistStale(f) PROVE InnerInv'
  <2>1. /\ inner'.thread = inner.thread /\ inner'.messages = inner.messages
        /\ \A r \in Run : inner'.run[r] \in {RunSeq(f, r), inner.run[r]}
    BY <1>3, <1>i DEF PersistStale
  <2>2. Were BY <1>o, <1>b, <2>1
  <2> QED BY <2>2 DEF InnerInv
<1>4. ASSUME NEW f \in Flusher, ApplyRun(f) PROVE InnerInv'
  <2>0. FlusherInv(f) BY DEF WalIInv
  <2>1. PICK q \in flusher[f].rest : AppliedRun(f, q) BY <1>t, <1>4, <2>0, FlusherMoves
  <2>2. q \in Run BY <1>t DEF Types, FlusherRecord
  <2>3. /\ inner'.thread = RunSeq(f, q) /\ inner'.messages = Top(f)
        /\ \A r \in Run : inner'.run[r] \in {RunSeq(f, r), inner.run[r]}
    BY <1>i, <2>1 DEF AppliedRun
  <2>4. Were BY <1>o, <1>b, <2>2, <2>3
  <2> QED BY <2>4 DEF InnerInv
<1>5. ASSUME NEW f \in Flusher, SaveThread(f) PROVE InnerInv'
  <2>1. inner'.thread = Top(f) /\ inner'.messages = inner.messages /\ inner'.run = inner.run
    BY <1>5, <1>i DEF SaveThread
  <2>2. Were BY <1>o, <1>b, <2>1
  <2> QED BY <2>2 DEF InnerInv
<1>6. ASSUME NEW f \in Flusher, SaveMessages(f) PROVE InnerInv'
  <2>1. inner'.thread = inner.thread /\ inner'.messages = Top(f) /\ inner'.run = inner.run
    BY <1>6, <1>i DEF SaveMessages
  <2>2. Were BY <1>o, <1>b, <2>1
  <2> QED BY <2>2 DEF InnerInv
<1> QED
  BY <1>1, <1>2, <1>3, <1>4, <1>5, <1>6, InnerChanges DEF InnerWrites

-----------------------------------------------------------------------------
(* The flushers.                                                           *)

\* The same batch has the same newest entries.
LEMMA SameBatch ==
    ASSUME Types, Grows, NEW f \in Flusher, FlusherInv(f), flusher'[f].todo = flusher[f].todo
    PROVE  /\ Top(f)' = Top(f)
           /\ \A r : RunSeq(f, r)' = RunSeq(f, r)
           /\ TopJs(f)' = TopJs(f)
<1> DEFINE T == flusher[f].todo
<1>1. \A js \in T : stream'[js] = stream[js] BY DEF FlusherInv, Grows
<1>2. {stream'[js].seq : js \in T} = {stream[js].seq : js \in T} BY <1>1
<1>3. Top(f)' = Top(f) BY <1>2 DEF Top
<1>4. ASSUME NEW r PROVE RunSeq(f, r)' = RunSeq(f, r)
  <2>1. {j \in T : stream'[j].run = r} = {j \in T : stream[j].run = r} BY <1>1
  <2>2. {stream'[js].seq : js \in {j \in T : stream[j].run = r}}
          = {stream[js].seq : js \in {j \in T : stream[j].run = r}}
    BY <1>1
  <2> QED BY <2>1, <2>2 DEF RunSeq
<1>5. TopJs(f)' = TopJs(f)
  <2>1. PICK t : t = Top(f) OBVIOUS
  <2>2. \A js \in T : (stream'[js].seq = t <=> stream[js].seq = t) BY <1>1
  <2>3. TopJs(f) = CHOOSE js \in T : stream[js].seq = t BY <2>1 DEF TopJs
  <2>4. TopJs(f)' = CHOOSE js \in T : stream'[js].seq = t BY <1>3, <2>1 DEF TopJs
  <2>5. \A js : (js \in T /\ stream'[js].seq = t) <=> (js \in T /\ stream[js].seq = t) BY <2>2
  <2> QED BY <2>3, <2>4, <2>5
<1> QED BY <1>3, <1>4, <1>5

\* The parts of FlusherInv that are about one point of the loop.
Batched(f) ==
    /\ flusher[f].batch \subseteq DOMAIN stream
    /\ flusher[f].todo \subseteq flusher[f].batch \cap committed
    /\ flusher[f].ignored \subseteq flusher[f].batch
    /\ flusher[f].flushed <= flushed
    /\ \A js \in flusher[f].ignored : IsStored(js) \/ IsDead(js)
Written(f) ==
    flusher[f].pc \in Writing =>
          /\ flusher[f].flushed < Top(f)
          /\ \A r \in flusher[f].rest : RunSeq(f, r) # 0
          /\ \A js \in flusher[f].todo :
                \/ inner.run[stream[js].run] # 0
                \/ flusher[f].pc = "runs" /\ stream[js].run \in flusher[f].rest

LEMMA FlusherInvIs ==
    ASSUME NEW f \in Flusher
    PROVE  FlusherInv(f) <=>
             /\ Batched(f) /\ Written(f)
             /\ flusher[f].pc \in {"idle", "classify"} =>
                   flusher[f].todo = {} /\ flusher[f].ignored = {}
             /\ flusher[f].pc = "flushed" => Top(f) <= meta.latest
             /\ flusher[f].pc = "finish" => \A js \in flusher[f].todo : IsStored(js)
BY DEF FlusherInv, Batched, Written

\* A batch that gets no new entry stays one.
LEMMA BatchedStays ==
    ASSUME WalIInv, Step, Types', NEW f \in Flusher, NEW q, flusher'[f] = q,
           q.batch \subseteq flusher[f].batch \cup DOMAIN stream,
           q.todo \subseteq flusher[f].todo, q.ignored \subseteq flusher[f].ignored,
           q.todo \subseteq q.batch, q.ignored \subseteq q.batch,
           q.flushed = flusher[f].flushed \/ q.flushed = flushed \/ q.flushed = 0
    PROVE  Batched(f)'
<1>t. Types BY DEF WalIInv
<1>b. Batched(f) BY FlusherInvIs DEF WalIInv
<1>g. Grows BY ShapeStep DEF Shape, Step
<1>n. NumbersAreNat /\ NumbersAreNat' BY <1>t, Numbers, PTL
<1>1. flusher[f].flushed \in Nat BY <1>t, SnapshotIsNat DEF Types, FlusherRecord
<1>2. q.flushed <= flushed' BY <1>1, <1>b, <1>g, <1>n DEF Batched, Grows, NumbersAreNat
<1>3. q.batch \subseteq DOMAIN stream' BY <1>b, <1>g DEF Batched, Grows
<1>4. q.todo \subseteq q.batch \cap committed' BY <1>b, <1>g DEF Batched, Grows
<1>5. \A js \in q.ignored : js \in DOMAIN stream /\ (IsStored(js) \/ IsDead(js))
  BY <1>b DEF Batched
<1>6. \A js \in q.ignored : IsStored(js)' \/ IsDead(js)' BY <1>5, StoredStays
<1> QED BY <1>2, <1>3, <1>4, <1>6 DEF Batched

\* Another's step.
LEMMA FlusherWaits ==
    ASSUME WalIInv, Step, Types', NEW f \in Flusher, flusher'[f] = flusher[f]
    PROVE  FlusherInv(f)'
<1>t. Types BY DEF WalIInv
<1>f. FlusherInv(f) BY DEF WalIInv
<1>g. Grows BY ShapeStep DEF Shape, Step
<1>n. NumbersAreNat /\ NumbersAreNat' BY <1>t, Numbers, PTL
<1>s. Top(f)' = Top(f) /\ \A r : RunSeq(f, r)' = RunSeq(f, r) BY <1>t, <1>f, <1>g, SameBatch
<1>1. Batched(f)'
  <2>1. PICK q : q = flusher[f] OBVIOUS
  <2>2. q.todo \subseteq q.batch /\ q.ignored \subseteq q.batch BY <1>f, <2>1 DEF FlusherInv
  <2> QED BY <2>1, <2>2, BatchedStays
<1>r. \A js \in flusher[f].todo : stream'[js] = stream[js] /\ stream[js].run \in Run
  BY <1>f, <1>g, <1>t, SeqOfMessage DEF FlusherInv, Grows
<1>2. Written(f)'
  <2>1. Written(f) BY <1>f, FlusherInvIs
  <2> QED BY <1>s, <1>r, <1>g, <2>1 DEF Written, Grows
<1>3. flusher[f].pc = "flushed" => Top(f)' <= meta'.latest
  <2>1. Top(f) \in Nat
    <3>1. Top(f) \in {0} \cup Snapshot BY <1>t, <1>f, TopIs
    <3> QED BY <3>1, SnapshotIsNat
  <2>2. flusher[f].pc = "flushed" => Top(f) <= meta.latest BY <1>f DEF FlusherInv
  <2>3. meta.latest <= meta'.latest /\ meta.latest \in Nat /\ meta'.latest \in Nat
    BY <1>g, <1>n DEF Grows, NumbersAreNat
  <2> QED BY <1>s, <2>1, <2>2, <2>3
<1>4. flusher[f].pc = "finish" => \A js \in flusher[f].todo : IsStored(js)'
  BY <1>f, StoredStays DEF FlusherInv
<1>5. flusher[f].pc \in {"idle", "classify"} => flusher[f].todo = {} /\ flusher[f].ignored = {}
  BY <1>f DEF FlusherInv
<1>6. (FlusherInv(f) <=>
             /\ Batched(f) /\ Written(f)
             /\ flusher[f].pc \in {"idle", "classify"} =>
                   flusher[f].todo = {} /\ flusher[f].ignored = {}
             /\ flusher[f].pc = "flushed" => Top(f) <= meta.latest
             /\ flusher[f].pc = "finish" => \A js \in flusher[f].todo : IsStored(js))'
  BY DEF FlusherInv, Batched, Written
<1> QED BY <1>1, <1>2, <1>3, <1>4, <1>5, <1>6

\* What classification puts aside is stored or dead; what it keeps is committed.
LEMMA ClassifyStep ==
    ASSUME WalIInv, Step, Types', NEW f \in Flusher, Classify(f)
    PROVE  FlusherInv(f)'
<1>t. Types /\ EntryInv /\ StoreInv BY DEF WalIInv
<1>f. FlusherInv(f) BY DEF WalIInv
<1>g. Grows BY ShapeStep DEF Shape, Step
<1>n. NumbersAreNat BY <1>t, Numbers
<1>b. Held(f) = flusher[f].batch /\ Held(f) \subseteq DOMAIN stream BY <1>f DEF Held, FlusherInv
<1>1. Turns(f, [flusher[f] EXCEPT !.pc = "stale", !.todo = ToFlush(f), !.ignored = Ignored(f)])
  BY <1>t, <1>f, FlusherMoves
<1>2. flusher[f] \in FlusherRecord BY <1>t DEF Types
<1>3. /\ flusher'[f].pc = "stale" /\ flusher'[f].batch = Held(f)
      /\ flusher'[f].todo = ToFlush(f) /\ flusher'[f].ignored = Ignored(f)
      /\ flusher'[f].flushed = flusher[f].flushed
  BY <1>1, <1>2, <1>b DEF Turns, FlusherRecord
<1>u. UNCHANGED <<stream, committed, flushed, inner, call>>
  BY DEF Classify, queueVars, historyVars
<1>4. ASSUME NEW js \in ToFlush(f) PROVE js \in Held(f) /\ js \in committed
  <2>1. js \in Held(f) /\ IsCommitted(Settled(wal[stream[js].seq]), js)
    BY <1>4, Zenon DEF ToFlush
  <2>2. stream[js].seq \in Snapshot BY <1>b, <1>t, <2>1, SeqOfMessage
  <2>3. wal[stream[js].seq] \in Entry BY <1>t, <2>2 DEF Types
  <2>4. /\ Settled(wal[stream[js].seq]).status = "Committed"
        /\ Settled(wal[stream[js].seq]).js = js
    BY <2>1 DEF IsCommitted
  <2>5. Settled(wal[stream[js].seq]).status \in {wal[stream[js].seq].status, "Aborted"}
        /\ Settled(wal[stream[js].seq]).js = wal[stream[js].seq].js
    BY <2>3, SettledIs
  <2>6. wal[stream[js].seq].status = "Committed" /\ wal[stream[js].seq].js = js BY <2>4, <2>5
  <2>7. wal[stream[js].seq].js \in committed BY <1>t, <2>2, <2>6 DEF EntryInv
  <2> QED BY <2>1, <2>6, <2>7
<1>5. ASSUME NEW js \in Ignored(f)
      PROVE  js \in Held(f) /\ (IsStored(js)' \/ IsDead(js)')
  <2> DEFINE s == stream[js].seq
             e == Settled(wal[s])
  <2>1. /\ js \in Held(f)
        /\ \/ IsIgnored(e, s, f)
           \/ e.status = "Committed" /\ e.js # js
    BY <1>5, Zenon DEF Ignored
  <2>2. js \in DOMAIN stream /\ s \in Snapshot BY <1>b, <1>t, <2>1, SeqOfMessage
  <2>3. wal[s] \in Entry BY <1>t, <2>2 DEF Types
  <2>4. e.status # "Prepared" /\ ~(e.status = "Committed" /\ e.js = js)
    BY <2>1 DEF IsIgnored
  <2>5. /\ e.status \in {wal[s].status, "Aborted"} /\ e.js = wal[s].js
        /\ wal[s].status # "Prepared" => e = wal[s]
    BY <2>3, SettledIs
  <2>6. ~IsKept(js) BY <2>4, <2>5 DEF IsKept
  <2>7. CASE js \in committed
    <3>1. IsStored(js) BY <1>t, <2>6, <2>7 DEF StoreInv
    <3> QED BY <2>1, <3>1, StoredStays
  <2>8. CASE js \notin committed
    <3>1. wal'[s] = e BY <1>t, <2>1, <2>2, ClassifiedIs
    <3>2. ASSUME NEW c \in Checkpoint, call'[c].pc \in Undecided, call'[c].js = js
          PROVE  ~IsOpen(c)'
      <4>1. call[c].pc \in AtMost BY <1>u, <3>2 DEF Undecided, AtMost
      <4>2. stream[call[c].js] = [seq |-> call[c].seq, run |-> RunOf[c]]
        BY <1>t, <4>1 DEF EntryInv
      <4>3. call'[c].seq = s BY <1>u, <3>2, <4>2
      <4> QED BY <2>4, <3>1, <4>3 DEF IsOpen
    <3>3. IsDead(js)' BY <1>u, <2>8, <3>2 DEF IsDead
    <3> QED BY <2>1, <3>3
  <2> QED BY <2>7, <2>8
<1>6. flusher[f].flushed <= flushed' BY <1>f, <1>u DEF FlusherInv
<1>7. Held(f) \subseteq DOMAIN stream' BY <1>b, <1>u
<1>8. ToFlush(f) \subseteq Held(f) \cap committed' BY <1>4, <1>u
<1> QED BY <1>3, <1>5, <1>6, <1>7, <1>8 DEF FlusherInv, Writing

\* The watermark has passed what need not be written.
LEMMA PersistStep ==
    ASSUME WalIInv, Step, Types', NEW f \in Flusher, PersistStale(f)
    PROVE  FlusherInv(f)'
<1>t. Types BY DEF WalIInv
<1>f. FlusherInv(f) BY DEF WalIInv
<1>g. Grows BY ShapeStep DEF Shape, Step
<1>n. NumbersAreNat BY <1>t, Numbers
<1>r. flusher[f] \in FlusherRecord /\ flusher[f].flushed \in Nat
  BY <1>t, SnapshotIsNat DEF Types, FlusherRecord
<1> DEFINE w == flusher[f].flushed
<1>1. /\ flusher'[f].pc = IF Top(f) > w THEN "runs" ELSE "finish"
      /\ flusher'[f].rest = {r \in Run : RunSeq(f, r) > w}
      /\ flusher'[f].batch = flusher[f].batch /\ flusher'[f].todo = flusher[f].todo
      /\ flusher'[f].ignored = flusher[f].ignored /\ flusher'[f].flushed = w
  <2>1. Turns(f, [flusher[f] EXCEPT !.pc = IF Top(f) > w THEN "runs" ELSE "finish",
                                    !.rest = {q \in Run : RunSeq(f, q) > w}])
    BY <1>t, <1>f, FlusherMoves
  <2> QED BY <1>r, <2>1 DEF Turns, FlusherRecord
<1>2. Batched(f)'
  <2>1. PICK q : q = flusher'[f] OBVIOUS
  <2> QED BY <1>1, <1>f, <2>1, BatchedStays DEF FlusherInv
<1>3. Top(f)' = Top(f) /\ \A r : RunSeq(f, r)' = RunSeq(f, r)
  BY <1>t, <1>f, <1>g, <1>1, SameBatch
<1>4. \A r \in Run : inner'.run[r] = IF RunSeq(f, r) \in 1..w /\ inner.run[r] = 0
                                     THEN RunSeq(f, r) ELSE inner.run[r]
  BY <1>t DEF PersistStale, Types
<1>5. UNCHANGED <<stream, committed, flushed>>
  BY DEF PersistStale, bucketVars, queueVars, historyVars
<1>6. \A r \in Run : RunSeq(f, r) \in Nat
  <2>1. \A r \in Run : RunSeq(f, r) \in {0} \cup Snapshot BY <1>t, <1>f, RunSeqIs
  <2> QED BY <2>1, SnapshotIsNat
<1>7. Top(f) \in Nat
  <2>1. Top(f) \in {0} \cup Snapshot BY <1>t, <1>f, TopIs
  <2> QED BY <2>1, SnapshotIsNat
<1>8. \A js \in flusher[f].todo :
         /\ js \in DOMAIN stream /\ js \in committed /\ stream[js].run \in Run
         /\ stream[js].seq \in Nat /\ stream[js].seq # 0
         /\ stream[js].seq <= RunSeq(f, stream[js].run) /\ stream[js].seq <= Top(f)
  <2>1. \A js \in flusher[f].todo : js \in DOMAIN stream /\ js \in committed
    BY <1>f DEF FlusherInv
  <2>2. \A js \in flusher[f].todo : stream[js].run \in Run /\ stream[js].seq \in Snapshot
    BY <1>t, <2>1, SeqOfMessage
  <2>3. \A js \in flusher[f].todo : stream[js].seq \in Nat /\ stream[js].seq # 0
    BY <2>2, SnapshotIsNat
  <2>4. \A js \in flusher[f].todo : stream[js].seq <= RunSeq(f, stream[js].run)
    BY <1>t, <1>f, <2>2, RunSeqIs
  <2>5. \A js \in flusher[f].todo : stream[js].seq <= Top(f) BY <1>t, <1>f, TopIs
  <2> QED BY <2>1, <2>2, <2>3, <2>4, <2>5
<1>9. ASSUME NEW js \in flusher[f].todo, ~(RunSeq(f, stream[js].run) > w)
      PROVE  inner'.run[stream[js].run] # 0
  <2>1. stream[js].run \in Run /\ RunSeq(f, stream[js].run) # 0 BY <1>6, <1>8
  <2>2. RunSeq(f, stream[js].run) \in 1..w BY <1>6, <1>9, <1>r, <2>1
  <2> QED BY <1>4, <2>1, <2>2
<1>10. CASE Top(f) > w
  <2>1. flusher'[f].pc = "runs" BY <1>1, <1>10
  <2>2. Written(f)'
    <3>1. w < Top(f) BY <1>7, <1>10, <1>r
    <3>2. \A r \in flusher'[f].rest : RunSeq(f, r) # 0 BY <1>1, <1>6, <1>r
    <3>3. \A js \in flusher[f].todo :
             inner'.run[stream[js].run] # 0 \/ stream[js].run \in flusher'[f].rest
      BY <1>1, <1>8, <1>9
    <3> QED BY <1>1, <1>3, <1>5, <2>1, <3>1, <3>2, <3>3 DEF Written
  <2> QED BY <1>2, <2>1, <2>2 DEF FlusherInv, Batched, Written
<1>11. CASE ~(Top(f) > w)
  <2>1. flusher'[f].pc = "finish" BY <1>1, <1>11
  <2>2. ASSUME NEW js \in flusher[f].todo PROVE IsStored(js)'
    <3>1. w <= flushed /\ flushed \in Nat BY <1>f, <1>n DEF FlusherInv, NumbersAreNat
    <3>2. stream[js].seq <= flushed BY <1>7, <1>8, <1>11, <1>r, <3>1
    <3>3. RunSeq(f, stream[js].run) <= Top(f)
      <4>1. stream[js].run \in Run BY <1>8
      <4>2. PICK k \in flusher[f].todo : stream[k].seq = RunSeq(f, stream[js].run)
        BY <1>t, <1>f, <1>6, <1>8, <4>1, RunSeqIs
      <4> QED BY <1>8, <4>2
    <3>4. ~(RunSeq(f, stream[js].run) > w) BY <1>6, <1>7, <1>8, <1>11, <1>r, <3>3
    <3>5. inner'.run[stream[js].run] # 0 BY <1>9, <3>4
    <3> QED BY <1>5, <1>8, <3>2, <3>5 DEF IsStored
  <2>3. flusher'[f].pc \notin Writing BY <2>1 DEF Writing
  <2> QED BY <1>1, <1>2, <2>1, <2>2, <2>3 DEF FlusherInv, Batched
<1> QED BY <1>10, <1>11

\* The steps that write, and those that only move on.
LEMMA WriteStep ==
    ASSUME WalIInv, Step, Types', NEW f \in Flusher,
           \/ EnsureFlushCurrent(f) \/ ApplyRun(f) \/ SaveThread(f) \/ SaveMessages(f)
           \/ PromoteFlushed(f) \/ WriteFlushed(f)
    PROVE  FlusherInv(f)'
<1>t. Types BY DEF WalIInv
<1>f. FlusherInv(f) BY DEF WalIInv
<1>g. Grows BY ShapeStep DEF Shape, Step
<1>n. NumbersAreNat /\ NumbersAreNat' BY <1>t, Numbers, PTL
<1>r. flusher[f] \in FlusherRecord BY <1>t DEF Types
<1>w. /\ flusher[f].pc \in Writing /\ flusher[f].flushed < Top(f)
      /\ \A r \in flusher[f].rest : RunSeq(f, r) # 0 /\ r \in Run
      /\ \A js \in flusher[f].todo :
            \/ inner.run[stream[js].run] # 0
            \/ flusher[f].pc = "runs" /\ stream[js].run \in flusher[f].rest
      /\ flusher[f].pc = "flushed" => Top(f) <= meta.latest
  BY <1>f, <1>r
  DEF FlusherInv, Writing, EnsureFlushCurrent, ApplyRun, SaveThread, SaveMessages, PromoteFlushed,
      WriteFlushed, FlusherRecord
<1>p. Top(f) \in Nat BY <1>t, <1>f, <1>w, TopIsRead
<1>d. \A js \in flusher[f].todo : js \in DOMAIN stream /\ js \in committed /\ stream[js].run \in Run
                                   /\ stream'[js] = stream[js]
  BY <1>f, <1>g, <1>t, SeqOfMessage DEF FlusherInv, Grows
<1>b. ASSUME NEW q, flusher'[f] = q, q.batch = flusher[f].batch, q.ignored = flusher[f].ignored,
             q.todo \subseteq flusher[f].todo, q.flushed = flusher[f].flushed
      PROVE  Batched(f)'
  BY <1>b, <1>f, BatchedStays DEF FlusherInv
<1>k. ASSUME NEW p \in Writing, NEW R \in SUBSET Run, flusher'[f].pc = p, flusher'[f].rest = R,
             flusher'[f].batch = flusher[f].batch, flusher'[f].ignored = flusher[f].ignored,
             flusher'[f].todo = flusher[f].todo, flusher'[f].flushed = flusher[f].flushed,
             R \subseteq flusher[f].rest,
             \A js \in flusher[f].todo : \/ inner'.run[stream[js].run] # 0
                                         \/ p = "runs" /\ stream[js].run \in R,
             p = "flushed" => Top(f) <= meta'.latest
      PROVE  FlusherInv(f)'
  <2>1. Batched(f)' BY <1>k, <1>b
  <2>2. Top(f)' = Top(f) /\ \A r : RunSeq(f, r)' = RunSeq(f, r)
    BY <1>k, <1>t, <1>f, <1>g, SameBatch
  <2>3. Written(f)'
    <3>1. \A r \in R : RunSeq(f, r)' # 0 BY <1>k, <1>w, <2>2
    <3>2. \A js \in flusher[f].todo :
             inner'.run[stream'[js].run] # 0 \/ (p = "runs" /\ stream'[js].run \in R)
      BY <1>d, <1>k
    <3> QED BY <1>k, <1>w, <2>2, <3>1, <3>2 DEF Written
  <2>4. flusher'[f].pc \notin {"idle", "classify", "finish"} BY <1>k DEF Writing
  <2> QED BY <1>k, <2>1, <2>2, <2>3, <2>4 DEF FlusherInv, Batched, Written
<1>e. ASSUME flusher'[f].pc = "finish", flusher'[f].batch = flusher[f].batch,
             flusher'[f].ignored = flusher[f].ignored, flusher'[f].todo \subseteq flusher[f].todo,
             flusher'[f].flushed = flusher[f].flushed, \A js \in flusher'[f].todo : IsStored(js)'
      PROVE  FlusherInv(f)'
  <2>1. PICK q : q = flusher'[f] OBVIOUS
  <2>2. Batched(f)' BY <1>b, <1>e, <2>1
  <2>3. flusher'[f].pc \notin Writing BY <1>e DEF Writing
  <2> QED BY <1>e, <2>2, <2>3 DEF FlusherInv, Batched
<1>1. CASE EnsureFlushCurrent(f)
  <2>1. UNCHANGED <<inner, meta>> BY <1>1 DEF EnsureFlushCurrent, bucketVars
  <2>2. CASE FlushCurrent(f)
    <3>1. Turns(f, [flusher[f] EXCEPT !.armed = TRUE]) BY <1>t, <1>f, <1>1, <2>2, FlusherMoves
    <3>2. /\ flusher'[f].pc = flusher[f].pc /\ flusher'[f].rest = flusher[f].rest
          /\ flusher'[f].batch = flusher[f].batch /\ flusher'[f].ignored = flusher[f].ignored
          /\ flusher'[f].todo = flusher[f].todo /\ flusher'[f].flushed = flusher[f].flushed
      BY <1>r, <3>1 DEF Turns, FlusherRecord
    <3>3. flusher[f].rest \in SUBSET Run BY <1>r DEF FlusherRecord
    <3>4. PICK p, R : p = flusher[f].pc /\ R = flusher[f].rest OBVIOUS
    <3> QED BY <1>k, <1>w, <2>1, <3>2, <3>3, <3>4
  <2>3. CASE ~FlushCurrent(f)
    <3>1. Turns(f, [flusher[f] EXCEPT !.pc = "finish", !.todo = {}])
      BY <1>t, <1>f, <1>1, <2>3, FlusherMoves
    <3>2. /\ flusher'[f].pc = "finish" /\ flusher'[f].todo = {}
          /\ flusher'[f].batch = flusher[f].batch /\ flusher'[f].ignored = flusher[f].ignored
          /\ flusher'[f].flushed = flusher[f].flushed
      BY <1>r, <3>1 DEF Turns, FlusherRecord
    <3> QED BY <1>e, <3>2
  <2> QED BY <2>2, <2>3
<1>2. CASE ApplyRun(f)
  <2>1. PICK q \in flusher[f].rest : AppliedRun(f, q) BY <1>t, <1>f, <1>2, FlusherMoves
  <2>2. PICK p, R : p = (IF flusher[f].rest = {q} THEN "thread" ELSE "runs")
                    /\ R = flusher[f].rest \ {q}
    OBVIOUS
  <2>3. /\ flusher'[f].pc = p /\ flusher'[f].rest = R
        /\ flusher'[f].batch = flusher[f].batch /\ flusher'[f].ignored = flusher[f].ignored
        /\ flusher'[f].todo = flusher[f].todo /\ flusher'[f].flushed = flusher[f].flushed
    BY <1>r, <2>1, <2>2 DEF AppliedRun, Turns, FlusherRecord
  <2>4. p \in Writing /\ p # "flushed" BY <2>2 DEF Writing
  <2>5. R \in SUBSET Run /\ R \subseteq flusher[f].rest BY <1>w, <2>2
  <2>6. \A r \in Run : inner'.run[r] = IF r = q THEN RunSeq(f, q) ELSE inner.run[r]
    BY <1>t, <2>1 DEF AppliedRun, Types
  <2>7. ASSUME NEW js \in flusher[f].todo
        PROVE  inner'.run[stream[js].run] # 0 \/ (p = "runs" /\ stream[js].run \in R)
    <3>1. RunSeq(f, q) # 0 BY <1>w
    <3>2. stream[js].run = q => inner'.run[stream[js].run] # 0 BY <1>d, <2>6, <3>1
    <3>3. inner.run[stream[js].run] # 0 => inner'.run[stream[js].run] # 0
      BY <1>d, <2>6, <3>1
    <3>4. stream[js].run \in flusher[f].rest /\ stream[js].run # q =>
             p = "runs" /\ stream[js].run \in R
      BY <2>2
    <3> QED BY <1>w, <3>2, <3>3, <3>4
  <2> QED BY <1>k, <2>3, <2>4, <2>5, <2>7
<1>3. CASE SaveThread(f)
  <2>1. Turns(f, [flusher[f] EXCEPT !.pc = "messages", !.armed = FALSE])
    BY <1>t, <1>f, <1>3, FlusherMoves
  <2>2. /\ flusher'[f].pc = "messages" /\ flusher'[f].rest = flusher[f].rest
        /\ flusher'[f].batch = flusher[f].batch /\ flusher'[f].ignored = flusher[f].ignored
        /\ flusher'[f].todo = flusher[f].todo /\ flusher'[f].flushed = flusher[f].flushed
    BY <1>r, <2>1 DEF Turns, FlusherRecord
  <2>3. inner'.run = inner.run /\ flusher[f].pc # "runs" BY <1>3, <1>t DEF SaveThread, Types
  <2>4. flusher[f].rest \in SUBSET Run BY <1>r DEF FlusherRecord
  <2>5. "messages" \in Writing BY DEF Writing
  <2> QED BY <1>k, <1>w, <2>2, <2>3, <2>4, <2>5
<1>4. CASE SaveMessages(f)
  <2>1. PICK p : p = IF Top(f) > meta.latest THEN "latest" ELSE "flushed" OBVIOUS
  <2>2. Turns(f, [flusher[f] EXCEPT !.pc = p, !.armed = FALSE])
    BY <1>t, <1>f, <1>4, <2>1, FlusherMoves
  <2>3. /\ flusher'[f].pc = p /\ flusher'[f].rest = flusher[f].rest
        /\ flusher'[f].batch = flusher[f].batch /\ flusher'[f].ignored = flusher[f].ignored
        /\ flusher'[f].todo = flusher[f].todo /\ flusher'[f].flushed = flusher[f].flushed
    BY <1>r, <2>2 DEF Turns, FlusherRecord
  <2>4. inner'.run = inner.run /\ flusher[f].pc # "runs" /\ UNCHANGED meta
    BY <1>4, <1>t DEF SaveMessages, Types, bucketVars
  <2>5. flusher[f].rest \in SUBSET Run BY <1>r DEF FlusherRecord
  <2>6. p \in Writing BY <2>1 DEF Writing
  <2>7. p = "flushed" => Top(f) <= meta'.latest
    BY <1>n, <1>p, <2>1, <2>4 DEF NumbersAreNat
  <2> QED BY <1>k, <1>w, <2>3, <2>4, <2>5, <2>6, <2>7
<1>5. CASE PromoteFlushed(f)
  <2>1. Turns(f, [flusher[f] EXCEPT !.pc = "flushed", !.armed = FALSE])
    BY <1>t, <1>f, <1>5, FlusherMoves
  <2>2. /\ flusher'[f].pc = "flushed" /\ flusher'[f].rest = flusher[f].rest
        /\ flusher'[f].batch = flusher[f].batch /\ flusher'[f].ignored = flusher[f].ignored
        /\ flusher'[f].todo = flusher[f].todo /\ flusher'[f].flushed = flusher[f].flushed
    BY <1>r, <2>1 DEF Turns, FlusherRecord
  <2>3. UNCHANGED inner /\ flusher[f].pc # "runs" BY <1>5 DEF PromoteFlushed
  <2>4. flusher[f].rest \in SUBSET Run BY <1>r DEF FlusherRecord
  <2>5. "flushed" \in Writing BY DEF Writing
  <2>6. Top(f) <= meta'.latest
    <3>1. Top(f) \in Snapshot BY <1>t, <1>f, <1>w, TopIsRead
    <3>2. Promoted(Top(f), TopJs(f)) BY <1>5 DEF PromoteFlushed
    <3>3. (meta' = meta /\ Top(f) <= meta.latest) \/ meta'.latest = Top(f)
      BY <1>t, <3>1, <3>2, MetaGrows
    <3> QED BY <1>p, <3>3
  <2> QED BY <1>k, <1>w, <2>2, <2>3, <2>4, <2>5, <2>6
<1>6. CASE WriteFlushed(f)
  <2>1. Turns(f, [flusher[f] EXCEPT !.pc = "finish", !.armed = FALSE])
    BY <1>t, <1>f, <1>6, FlusherMoves
  <2>2. /\ flusher'[f].pc = "finish"
        /\ flusher'[f].batch = flusher[f].batch /\ flusher'[f].ignored = flusher[f].ignored
        /\ flusher'[f].todo = flusher[f].todo /\ flusher'[f].flushed = flusher[f].flushed
    BY <1>r, <2>1 DEF Turns, FlusherRecord
  <2>3. UNCHANGED <<inner, stream, committed>> /\ flusher[f].pc = "flushed"
    BY <1>6 DEF WriteFlushed, queueVars, historyVars
  <2>4. Top(f) <= flushed'
    <3>1. flushed \in Nat BY <1>n DEF NumbersAreNat
    <3>2. PICK g : g = Greatest({flushed, Top(f)}) OBVIOUS
    <3>3. g = IF flushed <= Top(f) THEN Top(f) ELSE flushed BY <1>p, <3>1, <3>2, GreatestOfTwo
    <3>4. flushed' = g BY <1>6, <3>2 DEF WriteFlushed
    <3> QED BY <1>p, <3>1, <3>3, <3>4
  <2>5. ASSUME NEW js \in flusher[f].todo PROVE IsStored(js)'
    <3>1. stream[js].seq <= Top(f) BY <1>t, <1>f, TopIs
    <3>2. stream[js].seq \in Nat BY <1>t, <1>d, SeqsAre DEF Seqs
    <3>3. flushed' \in Nat BY <1>n DEF NumbersAreNat
    <3>4. stream[js].seq <= flushed' BY <1>p, <2>4, <3>1, <3>2, <3>3
    <3>5. inner.run[stream[js].run] # 0 BY <1>w, <2>3
    <3> QED BY <1>d, <2>3, <3>4, <3>5 DEF IsStored
  <2> QED BY <1>e, <2>2, <2>5
<1> QED BY <1>1, <1>2, <1>3, <1>4, <1>5, <1>6

LEMMA FlushersStep ==
    ASSUME WalIInv, Step, Types', NEW f \in Flusher
    PROVE  FlusherInv(f)'
<1>t. Types BY DEF WalIInv
<1>f. FlusherInv(f) BY DEF WalIInv
<1>r. flusher[f] \in FlusherRecord BY <1>t DEF Types
<1>1. CASE flusher'[f] = flusher[f] BY <1>1, FlusherWaits
<1>q. ASSUME NEW q, flusher'[f] = q, q.pc \in {"idle", "classify", "finish"},
             q.batch \subseteq flusher[f].batch \cup DOMAIN stream,
             q.todo \subseteq flusher[f].todo, q.ignored \subseteq flusher[f].ignored,
             q.todo \subseteq q.batch, q.ignored \subseteq q.batch,
             q.flushed = flusher[f].flushed \/ q.flushed = flushed \/ q.flushed = 0,
             q.pc \in {"idle", "classify"} => q.todo = {} /\ q.ignored = {},
             q.pc = "finish" => q.todo = {} \/ flusher[f].pc = "finish"
      PROVE  FlusherInv(f)'
  <2>1. Batched(f)' BY <1>q, BatchedStays
  <2>2. q.pc \notin Writing BY <1>q DEF Writing
  <2>3. q.pc = "finish" => \A js \in q.todo : IsStored(js)'
    BY <1>q, <1>f, StoredStays DEF FlusherInv
  <2> QED BY <1>q, <2>1, <2>2, <2>3 DEF FlusherInv, Batched
<1>p. flusher[f].todo \subseteq flusher[f].batch /\ flusher[f].ignored \subseteq flusher[f].batch
  BY <1>f DEF FlusherInv
<1>e. flusher[f].pc \in {"idle", "classify"} => flusher[f].todo = {} /\ flusher[f].ignored = {}
  BY <1>f DEF FlusherInv
<1>2. ASSUME NEW js \in DOMAIN stream, Pull(f, js) PROVE FlusherInv(f)'
  <2>1. Turns(f, [flusher[f] EXCEPT !.batch = flusher[f].batch \cup {js}])
    BY <1>t, <1>f, <1>2, FlusherMoves
  <2>2. PICK q : q = flusher'[f] OBVIOUS
  <2>3. /\ q.batch = flusher[f].batch \cup {js} /\ q.pc = "idle" /\ q.todo = flusher[f].todo
        /\ q.ignored = flusher[f].ignored /\ q.flushed = flusher[f].flushed
    BY <1>2, <1>r, <2>1, <2>2 DEF Turns, FlusherRecord, Pull
  <2>4. flusher[f].pc = "idle" BY <1>2 DEF Pull
  <2> QED BY <1>q, <1>p, <1>e, <2>2, <2>3, <2>4
<1>3. ASSUME NEW js \in DOMAIN stream, Acknowledge(f, js) PROVE FlusherInv(f)'
  <2>1. Turns(f, [flusher[f] EXCEPT !.batch = flusher[f].batch \ {js},
                                    !.todo = flusher[f].todo \ {js},
                                    !.ignored = flusher[f].ignored \ {js}])
    BY <1>t, <1>f, <1>3, FlusherMoves
  <2>2. PICK q : q = flusher'[f] OBVIOUS
  <2>3. /\ q.batch = flusher[f].batch \ {js} /\ q.pc = "finish" /\ q.todo = flusher[f].todo \ {js}
        /\ q.ignored = flusher[f].ignored \ {js} /\ q.flushed = flusher[f].flushed
    BY <1>3, <1>r, <2>1, <2>2 DEF Turns, FlusherRecord, Acknowledge
  <2>4. flusher[f].pc = "finish" BY <1>3 DEF Acknowledge
  <2> QED BY <1>q, <1>p, <2>2, <2>3, <2>4
<1>4. CASE AcquireFlush(f)
  <2>1. Turns(f, [flusher[f] EXCEPT !.pc = "classify", !.flushed = flushed])
    BY <1>t, <1>f, <1>4, FlusherMoves
  <2>2. PICK q : q = flusher'[f] OBVIOUS
  <2>3. /\ q.batch = flusher[f].batch /\ q.pc = "classify" /\ q.todo = flusher[f].todo
        /\ q.ignored = flusher[f].ignored /\ q.flushed = flushed
    BY <1>r, <2>1, <2>2 DEF Turns, FlusherRecord
  <2>4. flusher[f].pc = "idle" BY <1>4 DEF AcquireFlush
  <2> QED BY <1>q, <1>p, <1>e, <2>2, <2>3, <2>4
<1>5. CASE FlushError(f)
  <2>1. Turns(f, [flusher[f] EXCEPT !.pc = "finish", !.todo = {}, !.armed = FALSE])
    BY <1>t, <1>f, <1>5, FlusherMoves
  <2>2. PICK q : q = flusher'[f] OBVIOUS
  <2>3. /\ q.batch = flusher[f].batch /\ q.pc = "finish" /\ q.todo = {}
        /\ q.ignored = flusher[f].ignored /\ q.flushed = flusher[f].flushed
    BY <1>r, <2>1, <2>2 DEF Turns, FlusherRecord
  <2> QED BY <1>q, <1>p, <2>2, <2>3
<1>6. CASE EndBatch(f) \/ CrashFlusher(f)
  <2>1. Turns(f, Idle) BY <1>t, <1>f, <1>6, FlusherMoves
  <2>2. PICK q : q = flusher'[f] OBVIOUS
  <2>3. q.batch = {} /\ q.pc = "idle" /\ q.todo = {} /\ q.ignored = {} /\ q.flushed = 0
    BY <2>1, <2>2 DEF Turns, Idle
  <2> QED BY <1>q, <2>2, <2>3
<1>7. ASSUME NEW g \in Flusher, FlusherStep(g), g # f PROVE flusher'[f] = flusher[f]
  <2>1. FlusherInv(g) BY DEF WalIInv
  <2>2. \E q : Turns(g, q)
    BY <1>7, <1>t, <2>1, FlusherMoves DEF FlusherStep, AppliedRun
  <2> QED BY <1>7, <2>2 DEF Turns
<1>8. CASE FlusherStep(f)
  BY <1>2, <1>3, <1>4, <1>5, <1>6, <1>8, WriteStep, ClassifyStep, PersistStep DEF FlusherStep
<1> QED BY <1>1, <1>7, <1>8, FlusherChanges

-----------------------------------------------------------------------------
(* The invariant.                                                          *)

LEMMA WalIInvInit == WalInit => WalIInv
<1> SUFFICES ASSUME WalInit PROVE WalIInv OBVIOUS
<1>0. 0 \in Nat /\ Unread \in Nat BY CountIsNat DEF Unread
<1>s. stream = <<>> /\ DOMAIN stream = {} BY DEF WalInit
<1>1. Types
  <2>1. \A c \in Call : [pc |-> "idle", seq |-> 0, js |-> 0, basis |-> 0] \in CallRecord
    BY DEF CallRecord, Stopped
  <2>2. Idle \in FlusherRecord BY DEF Idle, FlusherRecord
  <2>3. NoEntry \in Entry BY DEF NoEntry, Entry
  <2> QED BY <1>s, <2>1, <2>2, <2>3 DEF WalInit, Types
<1>c. /\ \A c \in Call : call[c] = [pc |-> "idle", seq |-> 0, js |-> 0, basis |-> 0]
      /\ \A c \in Checkpoint : c \in Call
      /\ \A x \in Deletion : x \in Call
  BY DEF WalInit, Call
<1>p. \A c \in Call : call[c].pc = "idle" /\ call[c].seq = 0 BY <1>c
<1>m. meta.reserved = 0 /\ meta.latest = 0 /\ meta.latestJs = 0 /\ flushed = 0 BY DEF WalInit
<1>e. committed = {} /\ acked = {} BY DEF WalInit
<1>2. SeqInv
  <2>1. meta.reserved <= Cardinality(Numbered)
    <3>1. Numbered = {} BY <1>c, <1>p DEF Numbered
    <3> QED BY <1>m, <3>1, FS_EmptySet
  <2>2. Above(meta.reserved) BY <1>s, <1>c, <1>p, <1>m DEF Above, Publishes
  <2> QED BY <1>s, <1>c, <1>p, <1>m, <2>1, <2>2 DEF SeqInv, Publishes
<1>3. OwnerInv BY <1>c, <1>p DEF OwnerInv
<1>4. TombInv BY <1>c, <1>p DEF TombInv, Marking
<1>5. EntryInv
  <2>1. \A s \in Snapshot : wal[s].status = "None" /\ wal[s].js = 0 BY DEF WalInit, NoEntry
  <2>2. \A c \in Checkpoint : call[c].pc \notin AtMost /\ call[c].pc \notin {"committed", "cached"}
    BY <1>c, <1>p DEF AtMost
  <2> QED BY <1>m, <2>1, <2>2 DEF EntryInv
<1>6. StoreInv BY <1>e DEF StoreInv
<1>7. InnerInv BY DEF WalInit, InnerInv, WasCommitted
<1>8. ASSUME NEW f \in Flusher PROVE FlusherInv(f)
  <2>1. flusher[f] = Idle BY DEF WalInit
  <2>2. /\ flusher[f].pc = "idle" /\ flusher[f].batch = {} /\ flusher[f].todo = {}
        /\ flusher[f].ignored = {} /\ flusher[f].flushed = 0
    BY <2>1 DEF Idle
  <2> QED BY <1>m, <2>2 DEF FlusherInv, Writing
<1> QED BY <1>1, <1>2, <1>3, <1>4, <1>5, <1>6, <1>7, <1>8 DEF WalIInv

LEMMA WalIInvStep ==
    ASSUME NoLapseMarking, WalIInv, [WalNext]_walVars
    PROVE  WalIInv'
<1>0. Step BY DEF Step
<1>1. Types' BY TypesStep
<1>2. SeqInv' /\ OwnerInv' /\ TombInv' /\ EntryInv' /\ StoreInv' /\ InnerInv'
  BY <1>0, <1>1, SeqStep, OwnerStep, TombStep, EntryStep, StoreStep, InnerStep
<1>3. \A f \in Flusher : FlusherInv(f)' BY <1>0, <1>1, FlushersStep
<1> QED BY <1>1, <1>2, <1>3 DEF WalIInv

\* The inductive invariant holds.
THEOREM WalIInvHolds == ASSUME NoLapseMarking PROVE WalSpec => []WalIInv
<1>1. WalIInv /\ [WalNext]_walVars => WalIInv'
  BY WalIInvStep
<1> QED BY <1>1, WalIInvInit, PTL DEF WalSpec

-----------------------------------------------------------------------------
(* What follows from it.                                                   *)

LEMMA WalTypeOKFollows == WalIInv => WalTypeOK
<1> SUFFICES ASSUME WalIInv PROVE WalTypeOK OBVIOUS
<1>t. Types /\ SeqInv /\ EntryInv BY DEF WalIInv
<1>1. \A i, j \in DOMAIN stream : i # j => stream[i].seq # stream[j].seq BY <1>t DEF SeqInv
<1>2. claim.token \in Call \cup {Nobody} /\ claim.live \in BOOLEAN
      /\ flushClaim.token \in Flusher \cup {Nobody}
  BY <1>t DEF Types
<1>3. meta.reserved \in {0} \cup Snapshot /\ flushed \in {0} \cup Snapshot BY <1>t DEF Types
<1>4. meta.latest \in 0..meta.reserved
  BY <1>t, Numbers DEF NumbersAreNat, SeqInv
<1>5. stream \in Seq(Message) /\ committed \subseteq DOMAIN stream BY <1>t DEF Types
<1>6. \A js \in DOMAIN stream : js \in 0..Len(stream) /\ js # 0 BY <1>5
<1>7. meta.latestJs \in 0..Len(stream)
  <2>1. meta.latestJs = 0 \/ meta.latestJs \in committed BY <1>t DEF EntryInv
  <2>2. 0 \in 0..Len(stream) BY <1>5
  <2> QED BY <1>5, <1>6, <2>1, <2>2
<1>8. ASSUME NEW s \in Snapshot
      PROVE  /\ wal[s].status \in {"None", "Prepared", "Committed", "Aborted"}
             /\ wal[s].js \in 0..Len(stream)
             /\ wal[s].status = "Committed" => wal[s].js # 0
  <2>1. wal[s].status \in {"None", "Prepared", "Committed", "Aborted"} BY <1>t DEF Types, Entry
  <2>2. wal[s].status # "Committed" => wal[s].js = 0 BY <1>t DEF EntryInv
  <2>3. wal[s].status = "Committed" => wal[s].js \in DOMAIN stream BY <1>t, <1>5 DEF EntryInv
  <2>4. 0 \in 0..Len(stream) BY <1>5
  <2> QED BY <1>6, <2>1, <2>2, <2>3, <2>4
<1>9. acked \subseteq DOMAIN stream BY <1>t DEF Types
<1>10. \A f \in Flusher : flusher[f].todo \cup flusher[f].ignored \subseteq flusher[f].batch
  BY DEF WalIInv, FlusherInv
<1> QED BY <1>1, <1>2, <1>3, <1>4, <1>7, <1>8, <1>9, <1>10, Zenon DEF WalTypeOK

\* What is read is what was committed.
LEMMA OnlyCommittedFollows == WalIInv => OnlyCommittedIsSeen
<1> SUFFICES ASSUME WalIInv PROVE OnlyCommittedIsSeen OBVIOUS
<1>t. Types /\ EntryInv /\ InnerInv BY DEF WalIInv
<1> DEFINE Seen == {0} \cup {stream[js].seq : js \in committed}
<1>1. \A s : WasCommitted(s) => s \in Seen BY DEF WasCommitted
<1>2. inner.thread \in Seen /\ inner.messages \in Seen /\ \A r \in Run : inner.run[r] \in Seen
  BY <1>t, <1>1 DEF InnerInv
<1>3. Overlay \in Seen
  <2>1. Overlay = IF Newest > flushed THEN Newest ELSE inner.thread BY <1>t, OverlayIs
  <2>2. CASE Newest > flushed
    <3>1. /\ meta.latest \in Nat /\ flushed \in Nat /\ Newest \in Nat
          /\ Newest = meta.latest \/ Newest \in Unannounced
      BY <1>t, NewestIs, Numbers DEF NumbersAreNat
    <3>2. CASE Newest \in Unannounced
      <4>1. Newest \in Snapshot /\ wal[Newest].status = "Committed" BY <3>2 DEF Unannounced
      <4>2. wal[Newest].js \in committed /\ stream[wal[Newest].js].seq = Newest
        BY <1>t, <4>1 DEF EntryInv
      <4> QED BY <2>1, <2>2, <4>2
    <3>3. CASE Newest = meta.latest
      <4>1. meta.latestJs # 0 BY <1>t, <2>2, <3>3 DEF EntryInv
      <4>2. meta.latestJs \in committed /\ stream[meta.latestJs].seq = meta.latest
        BY <1>t, <4>1 DEF EntryInv
      <4> QED BY <2>1, <2>2, <3>3, <4>2
    <3> QED BY <3>1, <3>2, <3>3
  <2>3. CASE ~(Newest > flushed) BY <1>2, <2>1, <2>3
  <2> QED BY <2>2, <2>3
<1> QED BY <1>2, <1>3 DEF OnlyCommittedIsSeen

\* An acknowledged entry that was committed is stored.
LEMMA AckedFollows == WalIInv => AckedIsStored
<1> SUFFICES ASSUME WalIInv, NEW js \in acked \cap committed PROVE IsStored(js)
  BY DEF AckedIsStored, IsStored
<1> QED BY DEF WalIInv, StoreInv, IsDead

\* WalTypeOK: no two entries of the stream have the same sequence number, whoever
\* lost its claim when, unless a claim lapses while a tombstone is put.
THEOREM WalTypeHolds == ASSUME NoLapseMarking PROVE WalSpec => []WalTypeOK
BY WalIInvHolds, WalTypeOKFollows, PTL

\* OnlyCommittedIsSeen: what is stored, and what a read returns, was committed.
THEOREM OnlyCommittedIsSeenHolds == ASSUME NoLapseMarking PROVE WalSpec => []OnlyCommittedIsSeen
BY WalIInvHolds, OnlyCommittedFollows, PTL

\* AckedIsStored: what the consumer gives up is in the inner store.
THEOREM AckedIsStoredHolds == ASSUME NoLapseMarking PROVE WalSpec => []AckedIsStored
BY WalIInvHolds, AckedFollows, PTL

-----------------------------------------------------------------------------
(* The newest committed entry.                                             *)

IsNewest(n) == /\ n = meta.latest \/ n \in Unannounced
               /\ meta.latest <= n
               /\ \A s \in Unannounced : s <= n
OneNewest == \A n \in Nat : IsNewest(n) => Newest = n

LEMMA NewestIsUnique == Types => OneNewest
<1>1. ASSUME Types, NEW n \in Nat, IsNewest(n)
      PROVE  Newest = n
  <2> DEFINE S == {meta.latest} \cup Unannounced
  <2>1. S \in SUBSET Nat BY <1>1, SnapshotIsNat DEF Types, Unannounced
  <2>2. n \in S \cup {0} /\ \A y \in S : y <= n BY <1>1 DEF IsNewest
  <2>3. Greatest(S) = n BY <2>1, <2>2, GreatestIsUnique
  <2> QED BY <2>3 DEF Newest
<1> QED BY <1>1, Zenon DEF OneNewest

\* Every committed number is at most the newest, and that one was reserved.
Ordered ==
    /\ Newest \in Nat /\ meta.latest \in Nat /\ flushed \in Nat /\ meta.reserved \in Nat
    /\ flushed <= meta.latest /\ meta.latest <= Newest /\ Newest <= meta.reserved
    /\ \A s \in Unannounced : s <= Newest
    /\ Newest = meta.latest \/ Newest \in Unannounced
    /\ \A s : WasCommitted(s) => s \in Nat /\ s <= Newest
    /\ Newest > flushed => WasCommitted(Newest)
    /\ WasCommitted(Overlay) /\ Overlay <= Newest
    /\ Overlay = IF Newest > flushed THEN Newest ELSE inner.thread

LEMMA OrderedIs == WalIInv => Ordered
<1> SUFFICES ASSUME WalIInv PROVE Ordered OBVIOUS
<1>t. Types /\ SeqInv /\ EntryInv /\ StoreInv /\ InnerInv BY DEF WalIInv
<1>n. meta.latest \in Nat /\ flushed \in Nat /\ meta.reserved \in Nat
  BY <1>t, Numbers DEF NumbersAreNat
<1>1. /\ Newest \in Nat /\ meta.latest <= Newest /\ \A s \in Unannounced : s <= Newest
      /\ Newest = meta.latest \/ Newest \in Unannounced
  BY <1>t, NewestIs
<1>2. flushed <= meta.latest /\ meta.latest <= meta.reserved /\ Above(meta.reserved)
  BY <1>t DEF SeqInv
<1>c. committed \subseteq DOMAIN stream BY <1>t DEF Types
<1>q. Seqs BY <1>t, SeqsAre
<1>3. ASSUME NEW js \in committed PROVE stream[js].seq \in Nat /\ stream[js].seq <= Newest
  <2>1. stream[js].seq \in Nat /\ stream[js].seq \in Snapshot BY <1>c, <1>q DEF Seqs
  <2>2. CASE IsStored(js) BY <1>1, <1>2, <1>n, <2>1, <2>2 DEF IsStored
  <2>3. CASE IsKept(js)
    <3>1. wal[stream[js].seq].status = "Committed" BY <2>3 DEF IsKept
    <3>2. stream[js].seq > meta.latest => stream[js].seq \in Unannounced
      BY <2>1, <3>1 DEF Unannounced
    <3> QED BY <1>1, <1>n, <2>1, <3>2
  <2> QED BY <1>t, <2>1, <2>2, <2>3 DEF StoreInv
<1>4. \A s : WasCommitted(s) => s \in Nat /\ s <= Newest BY <1>1, <1>3 DEF WasCommitted
<1>5. \A s \in Unannounced : WasCommitted(s)
  BY <1>t DEF Unannounced, EntryInv, WasCommitted
<1>6. Newest > flushed => WasCommitted(Newest)
  <2>1. CASE Newest \in Unannounced BY <1>5, <2>1
  <2>2. CASE Newest = meta.latest /\ Newest > flushed
    BY <1>t, <2>2 DEF EntryInv, WasCommitted
  <2> QED BY <1>1, <2>1, <2>2
<1>7. Newest <= meta.reserved
  <2>1. \A s \in Unannounced : s <= meta.reserved
    BY <1>t, <1>2, <1>c DEF Unannounced, EntryInv, Above
  <2> QED BY <1>1, <1>2, <2>1
<1>8. Overlay = IF Newest > flushed THEN Newest ELSE inner.thread BY <1>t, OverlayIs
<1>9. WasCommitted(Overlay)
  <2>1. WasCommitted(inner.thread) BY <1>t DEF InnerInv
  <2> QED BY <1>6, <1>8, <2>1
<1> QED BY <1>1, <1>2, <1>4, <1>6, <1>7, <1>8, <1>9, <1>n DEF Ordered

\* Only a committed number, or that of a tombstone, is announced.
LEMMA LatestIs ==
    ASSUME WalIInv, Step
    PROVE  \/ meta'.latest = meta.latest
           \/ WasCommitted(meta'.latest)
           \/ \E x \in Deletion : PutTombstone(x)
<1>t. Types /\ SeqInv /\ EntryInv BY DEF WalIInv
<1>1. CASE Reconciled
  <2>1. meta' = meta \/ (meta'.latestJs \in committed /\ stream[meta'.latestJs].seq = meta'.latest)
    BY <1>1, <1>t, ReconciledIs
  <2> QED BY <2>1 DEF WasCommitted
<1>2. ASSUME NEW c \in Checkpoint, ReserveSeq(c) PROVE meta'.latest = meta.latest
  <2>1. meta \in [reserved : {0} \cup Snapshot, latest : {0} \cup Snapshot, latestJs : Nat]
    BY <1>t DEF Types
  <2> QED BY <1>2, <1>t, <2>1, ReserveIs
<1>3. ASSUME NEW c \in Checkpoint, Promote(c)
      PROVE  meta'.latest = meta.latest \/ WasCommitted(meta'.latest)
  <2>1. call[c].pc = "cached" /\ Promoted(call[c].seq, call[c].js) BY <1>3 DEF Promote
  <2>2. call[c].pc \in AtMost BY <2>1 DEF AtMost
  <2>3. call[c].js \in committed /\ call[c].js \in DOMAIN stream
        /\ stream[call[c].js] = [seq |-> call[c].seq, run |-> RunOf[c]]
    BY <1>t, <2>1, <2>2 DEF EntryInv
  <2>4. stream[call[c].js].seq = call[c].seq /\ call[c].seq \in Snapshot
    BY <1>t, <2>3, SeqOfMessage
  <2>5. meta' = meta \/ meta'.latest = call[c].seq BY <1>t, <2>1, <2>4, MetaGrows
  <2> QED BY <2>3, <2>4, <2>5 DEF WasCommitted
<1>4. ASSUME NEW f \in Flusher, PromoteFlushed(f)
      PROVE  meta'.latest = meta.latest \/ WasCommitted(meta'.latest)
  <2>1. flusher[f].pc \in Writing /\ Promoted(Top(f), TopJs(f))
    BY <1>4 DEF PromoteFlushed, Writing
  <2>2. FlusherInv(f) BY DEF WalIInv
  <2>3. Top(f) \in Snapshot /\ TopJs(f) \in committed /\ stream[TopJs(f)].seq = Top(f)
    BY <1>t, <2>1, <2>2, TopIsRead
  <2>5. meta' = meta \/ meta'.latest = Top(f) BY <1>t, <2>1, <2>3, MetaGrows
  <2> QED BY <2>3, <2>5 DEF WasCommitted
<1> QED BY <1>1, <1>2, <1>3, <1>4, MetaChanges

\* What a writing flusher writes is newer than the watermark.
LEMMA WritesNewer ==
    ASSUME WalIInv, NEW f \in Flusher, FlushSees(f), flusher[f].pc \in Writing
    PROVE  Top(f) \in Nat /\ flushed < Top(f) /\ Top(f) <= Newest
<1>t. Types /\ FlusherInv(f) BY DEF WalIInv
<1>1. /\ Top(f) \in Nat /\ TopJs(f) \in committed /\ stream[TopJs(f)].seq = Top(f)
  BY <1>t, TopIsRead
<1>2. flusher[f].flushed < Top(f) /\ flusher[f].flushed \in Nat
  BY <1>t, SnapshotIsNat DEF FlusherInv, Types, FlusherRecord
<1>3. Top(f) > flusher[f].flushed BY <1>1, <1>2
<1>4. Top(f) > flushed BY <1>1, <1>3 DEF FlushSees
<1>5. WasCommitted(Top(f)) BY <1>1 DEF WasCommitted
<1> QED BY <1>1, <1>4, <1>5, OrderedIs DEF Ordered

\* After a tombstone nothing is unannounced.
LEMMA TombstoneNewest ==
    ASSUME WalIInv, WalIInv', NEW x \in Deletion, PutTombstone(x)
    PROVE  Newest' = flushed' /\ Unannounced' = {}
<1>t. Types /\ EntryInv BY DEF WalIInv
<1>o. Ordered /\ Ordered' BY OrderedIs, PTL
<1>1. /\ Above(call[x].seq) /\ flushed' = call[x].seq /\ meta'.latest = call[x].seq
  BY TombstoneIs
<1>2. UNCHANGED <<wal, stream, committed>> BY DEF PutTombstone, queueVars, historyVars
<1>3. ASSUME NEW s \in Unannounced' PROVE FALSE
  <2>1. s \in Snapshot /\ wal[s].status = "Committed" /\ s > call[x].seq
    BY <1>1, <1>2, <1>3 DEF Unannounced
  <2>2. wal[s].js \in committed /\ stream[wal[s].js].seq = s BY <1>t, <2>1 DEF EntryInv
  <2>3. wal[s].js \in DOMAIN stream BY <1>t, <2>2 DEF Types
  <2>4. s <= call[x].seq BY <1>1, <2>2, <2>3 DEF Above
  <2>5. s \in Nat /\ call[x].seq \in Nat BY <1>o, <1>1, <2>1, SnapshotIsNat DEF Ordered
  <2> QED BY <2>1, <2>4, <2>5
<1> QED BY <1>o, <1>1, <1>3 DEF Ordered

\* Commits and tombstones alone change which entry is the newest.
LEMMA NewestStep ==
    ASSUME WalIInv, Step, WalIInv'
    PROVE  \/ Newest' = Newest
           \/ \E c \in Checkpoint : \E n : Commits(c, n)
           \/ \E x \in Deletion :
                 PutTombstone(x) /\ Newest' = flushed' /\ Unannounced' = {}
<1>t. Types /\ Types' /\ SeqInv /\ EntryInv /\ EntryInv' BY DEF WalIInv
<1>s. Shape BY ShapeStep DEF Step
<1>o. Ordered /\ Ordered' BY OrderedIs, PTL
<1>1. ASSUME NEW x \in Deletion, PutTombstone(x)
      PROVE  Newest' = flushed' /\ Unannounced' = {}
  BY <1>1, TombstoneNewest
<1>2. ASSUME ~(\E c \in Checkpoint : \E n : Commits(c, n)),
             ~(\E x \in Deletion : PutTombstone(x))
      PROVE  Newest' = Newest
  <2>1. PICK n : n = Newest OBVIOUS
  <2>2. /\ n \in Nat /\ meta.latest \in Nat /\ meta'.latest \in Nat /\ flushed \in Nat
        /\ flushed <= meta.latest /\ meta.latest <= n
    BY <1>o, <2>1 DEF Ordered
  <2>3. meta.latest <= meta'.latest BY <1>s DEF Shape, Grows
  <2>4. meta'.latest <= n
    <3>1. \A s : WasCommitted(s) => s <= n BY <1>o, <2>1 DEF Ordered
    <3> QED BY <1>2, <2>2, <3>1, LatestIs
  <2>5. ASSUME NEW s \in Unannounced' PROVE s <= n
    <3>1. s \in Snapshot /\ wal'[s].status = "Committed" /\ s > meta'.latest
      BY <2>5 DEF Unannounced
    <3>2. wal'[s] = wal[s]
      <4>1. ASSUME NEW c \in Checkpoint, Prepares(c, s) PROVE FALSE
        <5>1. wal'[s].status = "Prepared" BY <4>1 DEF Prepares
        <5> QED BY <3>1, <5>1
      <4>2. ~(\E c \in Checkpoint : Commits(c, s)) BY <1>2
      <4> QED BY <3>1, <4>1, <4>2, WalIs
    <3>3. s \in Nat BY <3>1, SnapshotIsNat
    <3>4. s \in Unannounced BY <2>2, <2>3, <3>1, <3>2, <3>3 DEF Unannounced
    <3> QED BY <1>o, <2>1, <3>4 DEF Ordered
  <2>6. n = meta'.latest \/ n \in Unannounced'
    <3>1. CASE n = meta.latest BY <2>2, <2>3, <2>4, <3>1
    <3>2. CASE n \in Unannounced /\ n # meta'.latest
      <4>1. n \in Snapshot /\ wal[n].status = "Committed" /\ n > meta.latest
        BY <3>2 DEF Unannounced
      <4>2. wal[n].js \in committed /\ stream[wal[n].js].seq = n BY <1>t, <4>1 DEF EntryInv
      <4>3. ~IsStored(wal[n].js) BY <2>2, <4>1, <4>2 DEF IsStored
      <4>4. wal'[n] = wal[n] BY <1>s, <4>1, <4>2, <4>3 DEF Shape, CommittedKept
      <4>5. n > meta'.latest BY <2>2, <2>4, <3>2
      <4> QED BY <4>1, <4>4, <4>5 DEF Unannounced
    <3> QED BY <1>o, <2>1, <3>1, <3>2 DEF Ordered
  <2>7. OneNewest' BY <1>t, NewestIsUnique, PTL
  <2>8. Newest' = n BY <2>2, <2>4, <2>5, <2>6, <2>7 DEF OneNewest, IsNewest
  <2> QED BY <2>1, <2>8
<1> QED BY <1>1, <1>2

\* The entry of a newer call, committed, is the newest.
LEMMA CommitNewest ==
    ASSUME WalIInv, Step, WalIInv', NEW c \in Checkpoint, NEW n, Commits(c, n), Newest < n
    PROVE  /\ Newest' = n /\ n \in Snapshot /\ UNCHANGED <<meta, flushed, inner>>
           /\ Overlay' = n /\ Overlay < n
<1>t. Types BY DEF WalIInv
<1>o. Ordered /\ Ordered' BY OrderedIs, PTL
<1>1. MarkCommitted(c) /\ n = call[c].seq /\ wal'[n].status = "Committed" BY DEF Commits
<1>2. n \in Snapshot /\ \A s \in Snapshot : s # n => wal'[s] = wal[s]
  <2>1. Moved(c, "committed", call[c].seq, call[c].js, call[c].basis) BY DEF Commits
  <2>2. ~Moved(c, "committing", call[c].seq, call[c].js, call[c].basis) BY <2>1 DEF Moved
  <2> QED BY <1>1, <2>2, MarkIs
<1>3. UNCHANGED <<meta, flushed, inner>> BY <1>1 DEF MarkCommitted
<1>4. n \in Nat /\ n > Newest /\ n > meta.latest BY <1>2, <1>o, SnapshotIsNat DEF Ordered
<1>5. n \in Unannounced' BY <1>1, <1>2, <1>3, <1>4 DEF Unannounced
<1>6. ASSUME NEW s \in Unannounced' PROVE s <= n
  <2>1. s \in Snapshot /\ wal'[s].status = "Committed" /\ s > meta.latest
    BY <1>3, <1>6 DEF Unannounced
  <2>2. CASE s # n
    <3>1. s \in Unannounced BY <1>2, <2>1, <2>2 DEF Unannounced
    <3>2. s <= Newest BY <1>o, <3>1 DEF Ordered
    <3>3. s \in Nat BY <2>1, SnapshotIsNat
    <3> QED BY <1>o, <1>4, <3>2, <3>3 DEF Ordered
  <2> QED BY <1>4, <2>2
<1>7. meta'.latest <= n BY <1>3, <1>4, <1>o DEF Ordered
<1>8. OneNewest' BY NewestIsUnique, PTL DEF WalIInv
<1>9. Newest' = n BY <1>4, <1>5, <1>6, <1>7, <1>8 DEF OneNewest, IsNewest
<1>10. Overlay < n BY <1>o, <1>4 DEF Ordered
<1>11. Overlay' = n BY <1>o, <1>3, <1>4, <1>9 DEF Ordered
<1> QED BY <1>2, <1>3, <1>9, <1>10, <1>11

\* Who may still commit could before, or has just passed its check of the claim.
LEMMA HotIs ==
    ASSUME WalIInv, Step, NEW c \in Checkpoint, Hot(c)'
    PROVE  /\ call'[c].seq = call[c].seq /\ call'[c].basis = call[c].basis
           /\ \/ Hot(c)
              \/ /\ call[c].pc = "prepared" /\ Current(c)
                 /\ UNCHANGED <<stream, meta, claim, wal, flushed, inner>>
                 /\ \A o \in Checkpoint : o # c => call'[o] = call[o]
<1>t. Types /\ SeqInv BY DEF WalIInv
<1>s. Shape BY ShapeStep DEF Step
<1>c. c \in Call /\ c \notin Deletion BY WalAssumption DEF Call
<1>1. /\ call'[c].pc \in {"publishing"} \cup Undecided
      /\ wal'[call'[c].seq].status = "Prepared" /\ wal'[call'[c].seq].token = c
  BY DEF Hot, IsOpen
<1>2. /\ call'[c].seq = call[c].seq /\ call'[c].basis = call[c].basis
      /\ \/ call[c].pc \in {"publishing"} \cup Undecided
         \/ /\ call[c].pc = "prepared" /\ Current(c)
            /\ UNCHANGED <<stream, meta, claim, wal, flushed, inner>>
            /\ \A o \in Checkpoint : o # c => call'[o] = call[o]
  <2>1. CASE Publishes(c)' BY <2>1, PublishesIs DEF Publishes
  <2>2. CASE call'[c].pc \in Undecided
    <3>1. CASE CheckpointStep(c)
      BY <1>t, <2>2, <3>1, CheckpointMoves
      DEF CheckpointStep, Moved, Undecided, Publish, ReadPrepared, MarkCommitted
    <3>2. CASE Acquire(c) \/ Crash(c) BY <1>t, <2>2, <3>2, CheckpointMoves DEF Moved, Undecided
    <3>3. CASE call'[c] = call[c] BY <2>2, <3>3
    <3> QED BY <1>c, <1>t, <3>1, <3>2, <3>3, CallChanges
  <2> QED BY <1>1, <2>1, <2>2 DEF Publishes
<1>3. CASE call[c].pc \in {"publishing"} \cup Undecided
  <2>1. call[c].seq \in Snapshot
    <3>1. call[c] \in CallRecord BY <1>c, <1>t DEF Types
    <3>2. call[c].seq # 0 BY <1>3, <1>t DEF SeqInv, Undecided
    <3> QED BY <3>1, <3>2 DEF CallRecord
  <2>2. wal'[call[c].seq].status = "Prepared" /\ wal'[call[c].seq].token = c BY <1>1, <1>2
  <2>3. wal'[call[c].seq] = wal[call[c].seq]
    <3>1. ASSUME NEW b \in Checkpoint, wal'[call[c].seq].token = b, call'[b].pc = "prepared"
          PROVE  FALSE
      BY <1>1, <2>2, <3>1 DEF Undecided
    <3> QED BY <1>s, <2>1, <2>2, <3>1 DEF Shape, EntriesKept
  <2>4. Hot(c) BY <1>3, <2>2, <2>3 DEF Hot, IsOpen
  <2> QED BY <1>2, <2>4
<1> QED BY <1>2, <1>3

\* Who commits could commit.
LEMMA CommitsHot ==
    ASSUME NEW c, NEW n, Commits(c, n)
    PROVE  Hot(c) /\ n = call[c].seq
BY DEF Commits, Hot, IsOpen, MarkCommitted, Undecided

-----------------------------------------------------------------------------
(* What entries were computed from.                                        *)

LEMMA BasisInit == WalInit => BasisInv
<1> SUFFICES ASSUME WalInit PROVE BasisInv OBVIOUS
<1>1. DOMAIN stream = {} BY DEF WalInit
<1>2. \A s \in Snapshot : basis[s] = Unread BY DEF WalInit
<1>3. ASSUME NEW c \in Checkpoint PROVE call[c].pc = "idle" /\ call[c].basis = 0
  <2>1. c \in Call BY DEF Call
  <2>2. call[c] = [pc |-> "idle", seq |-> 0, js |-> 0, basis |-> 0] BY <2>1 DEF WalInit
  <2> QED BY <2>2
<1> QED BY <1>1, <1>2, <1>3 DEF BasisInv, InStream, Undecided, WasCommitted

LEMMA BasisStep ==
    ASSUME WalIInv, BasisInv, Step, WalIInv'
    PROVE  BasisInv'
<1>t. Types /\ SeqInv /\ EntryInv BY DEF WalIInv
<1>g. Shape /\ Grows BY ShapeStep DEF Step, Shape
<1>o. Ordered BY OrderedIs
<1>c. \A c \in Checkpoint : c \in Call /\ c \notin Deletion /\ call[c] \in CallRecord
  BY <1>t, WalAssumption DEF Call, Types
<1>d. committed \subseteq DOMAIN stream BY <1>t DEF Types
<1>u. Unread \notin {0} \cup Snapshot BY CountIsNat DEF Unread, Snapshot
<1>p. ASSUME NEW c \in Checkpoint, Publish(c)
      PROVE  /\ basis' = [basis EXCEPT ![call[c].seq] = call[c].basis]
             /\ call[c].seq \in Snapshot /\ call[c].basis \in {0} \cup Snapshot
             /\ ~InStream(call[c].seq)
             /\ \A s : InStream(s)' <=> InStream(s) \/ s = call[c].seq
  <2>1. basis' = [basis EXCEPT ![call[c].seq] = call[c].basis] /\ Publishes(c)
    BY <1>p DEF Publish, Publishes
  <2>2. call[c].seq \in Snapshot /\ call[c].basis \in {0} \cup Snapshot
    BY <1>c, <1>t, <2>1 DEF CallRecord, SeqInv, Publishes
  <2>3. PICK js : js = Len(stream) + 1 OBVIOUS
  <2>4. /\ DOMAIN stream' = DOMAIN stream \cup {js} /\ js \notin DOMAIN stream
        /\ \A i \in DOMAIN stream : stream'[i] = stream[i]
        /\ stream'[js] = [seq |-> call[c].seq, run |-> RunOf[c]]
    BY <1>t, <1>p, <2>3, PublishIs
  <2>5. stream'[js].seq = call[c].seq BY <2>4
  <2>6. \A s : InStream(s)' <=> InStream(s) \/ s = call[c].seq BY <2>4, <2>5 DEF InStream
  <2> QED BY <1>t, <2>1, <2>2, <2>6 DEF SeqInv
<1>1. ASSUME NEW s \in Snapshot PROVE basis'[s] # Unread <=> InStream(s)'
  <2>1. basis[s] # Unread <=> InStream(s) BY DEF BasisInv
  <2>2. CASE UNCHANGED <<stream, basis>> BY <2>1, <2>2 DEF InStream
  <2>3. ASSUME NEW c \in Checkpoint, Publish(c) PROVE basis'[s] # Unread <=> InStream(s)'
    <3>1. basis'[s] = IF s = call[c].seq THEN call[c].basis ELSE basis[s]
      BY <1>t, <1>p, <2>3 DEF Types
    <3> QED BY <1>p, <1>u, <2>1, <2>3, <3>1
  <2> QED BY <2>2, <2>3, StreamChanges
<1>2. ASSUME NEW c \in Checkpoint, call'[c].pc \in Undecided
      PROVE  basis'[call'[c].seq] = call'[c].basis
  <2>1. CASE Publish(c)
    <3>1. call'[c].seq = call[c].seq /\ call'[c].basis = call[c].basis
      BY <1>t, <2>1, CheckpointMoves DEF Moved
    <3>2. basis'[call[c].seq] = call[c].basis BY <1>t, <1>p, <2>1 DEF Types
    <3> QED BY <3>1, <3>2
  <2>2. CASE ~Publish(c)
    <3>1. /\ call'[c].seq = call[c].seq /\ call'[c].basis = call[c].basis
          /\ call[c].pc \in Undecided
      <4>1. CASE CheckpointStep(c)
        BY <1>2, <1>t, <2>2, <4>1, CheckpointMoves
        DEF CheckpointStep, Moved, Undecided, ReadPrepared, MarkCommitted
      <4>2. CASE Acquire(c) \/ Crash(c) BY <1>2, <1>t, <4>2, CheckpointMoves DEF Moved, Undecided
      <4>3. CASE call'[c] = call[c] BY <1>2, <4>3
      <4> QED BY <1>c, <1>t, <4>1, <4>2, <4>3, CallChanges
    <3>2. basis[call[c].seq] = call[c].basis BY <3>1 DEF BasisInv
    <3>3. InStream(call[c].seq)
      <4>1. call[c].pc \in AtMost BY <3>1 DEF Undecided, AtMost
      <4>2. call[c].js \in DOMAIN stream
            /\ stream[call[c].js] = [seq |-> call[c].seq, run |-> RunOf[c]]
        BY <1>t, <4>1 DEF EntryInv
      <4> QED BY <4>2 DEF InStream
    <3>4. basis'[call[c].seq] = basis[call[c].seq]
      <4>1. ASSUME NEW b \in Checkpoint, Publish(b)
            PROVE  basis'[call[c].seq] = basis[call[c].seq]
        <5>1. call[c].seq # call[b].seq BY <1>p, <3>3, <4>1
        <5>2. call[c].seq \in Snapshot /\ basis \in [Snapshot -> {0, Unread} \cup Snapshot]
          BY <1>t, <3>3, SeqOfMessage DEF InStream, Types
        <5> QED BY <1>p, <4>1, <5>1, <5>2
      <4> QED BY <4>1, StreamChanges
    <3> QED BY <3>1, <3>2, <3>4
  <2> QED BY <2>1, <2>2
<1>w. ASSUME NEW s, WasCommitted(s) PROVE WasCommitted(s)'
  BY <1>w, <1>g, <1>d DEF WasCommitted, Grows
<1>3. ASSUME NEW c \in Checkpoint
      PROVE  /\ WasCommitted(call[c].basis)'
             /\ call'[c].pc \in {"reserved", "prepared", "publishing"} =>
                   call'[c].basis < call'[c].seq
  <2>0. WasCommitted(call[c].basis) BY DEF BasisInv
  <2>1. CASE Project(c)
    <3>1. call'[c].basis = Overlay /\ call'[c].pc = "projected"
      BY <1>t, <2>1, CheckpointMoves DEF Moved
    <3>2. PICK s : s = Overlay OBVIOUS
    <3>3. WasCommitted(s)' BY <1>o, <1>w, <3>2 DEF Ordered
    <3> QED BY <3>1, <3>2, <3>3
  <2>2. CASE ~Project(c)
    <3>1. call'[c].basis = call[c].basis
      <4>1. CASE CheckpointStep(c)
        BY <1>t, <2>2, <4>1, CheckpointMoves DEF CheckpointStep, Moved
      <4>2. CASE Acquire(c) \/ Crash(c) BY <1>t, <4>2, CheckpointMoves DEF Moved
      <4> QED BY <1>c, <1>t, <4>1, <4>2, CallChanges
    <3>2. WasCommitted(call[c].basis)'
      <4>1. PICK s : s = call[c].basis OBVIOUS
      <4>2. WasCommitted(s)' BY <1>w, <2>0, <4>1
      <4> QED BY <3>1, <4>1, <4>2
    <3>3. ASSUME call'[c].pc \in {"reserved", "prepared", "publishing"}
          PROVE  call'[c].basis < call'[c].seq
      <4>1. CASE ReserveSeq(c)
        <5>1. call'[c].seq = meta.reserved + 1 BY <1>t, <4>1, CheckpointMoves DEF Moved
        <5>2. call[c].basis \in Nat /\ call[c].basis <= Newest BY <1>o, <2>0 DEF Ordered
        <5> QED BY <1>o, <3>1, <5>1, <5>2 DEF Ordered
      <4>2. CASE ~ReserveSeq(c)
        <5>1. /\ call'[c].seq = call[c].seq
              /\ call[c].pc \in {"reserved", "prepared", "publishing"}
          <6>2. CASE CheckpointStep(c)
            BY <1>t, <3>3, <4>2, <6>2, CheckpointMoves DEF CheckpointStep, Moved, MarkPrepared
          <6>3. CASE Acquire(c) \/ Crash(c) BY <1>t, <3>3, <6>3, CheckpointMoves DEF Moved
          <6>4. CASE call'[c] = call[c] BY <3>3, <6>4
          <6> QED BY <1>c, <1>t, <6>2, <6>3, <6>4, CallChanges
        <5>2. call[c].basis < call[c].seq BY <5>1 DEF BasisInv
        <5> QED BY <3>1, <5>1, <5>2
      <4> QED BY <4>1, <4>2
    <3> QED BY <3>2, <3>3
  <2> QED BY <2>1, <2>2
<1> QED BY <1>1, <1>2, <1>3 DEF BasisInv

-----------------------------------------------------------------------------
(* As long as no flush claim has lapsed: what a step changes of what a read *)
(* finds.                                                                   *)

\* Under the claim of a deletion nobody can commit and nothing is unannounced.
Drained(x) ==
    /\ \A b \in Checkpoint : ~Hot(b)
    /\ Newest = meta.latest
    /\ call[x].pc # "draining" =>
          Newest <= flushed /\ Overlay = 0 /\ inner.thread = 0 /\ inner.messages = 0

LEMMA DrainedIs ==
    ASSUME WalIInv, RegisterInv, NEW x \in Deletion, call[x].pc \in Draining, claim.token = x
    PROVE  Drained(x)
<1>o. Ordered BY OrderedIs
<1>1. /\ \A b \in Checkpoint : ~Hot(b)
      /\ Unannounced = {}
      /\ call[x].pc # "draining" =>
            meta.latest <= flushed /\ inner.thread = 0 /\ inner.messages = 0
  BY DEF RegisterInv
<1>2. Newest = meta.latest BY <1>1, <1>o DEF Ordered
<1>3. call[x].pc # "draining" => Newest <= flushed /\ Overlay = 0 BY <1>1, <1>2, <1>o DEF Ordered
<1> QED BY <1>1, <1>2, <1>3 DEF Drained

LEMMA DeletesDrained ==
    ASSUME WalIInv, RegisterInv, NEW x \in Deletion, DeleteInner(x) \/ PutTombstone(x)
    PROVE  /\ Drained(x) /\ Newest <= flushed
           /\ call[x].pc \in Draining /\ claim.token = x
<1>1. CASE DeleteInner(x)
  <2>1. call[x].pc \in Draining /\ claim.token = x /\ meta.latest <= flushed
    BY <1>1 DEF DeleteInner, Current, Draining
  <2>2. Drained(x) BY <2>1, DrainedIs
  <2> QED BY <2>1, <2>2 DEF Drained
<1>2. CASE PutTombstone(x)
  <2>1. Current(x) /\ call[x].pc = "marking" BY <1>2, TombstoneIs DEF PutTombstone
  <2>2. call[x].pc \in Draining /\ claim.token = x BY <2>1 DEF Current, Draining, Marking
  <2>3. Drained(x) BY <2>2, DrainedIs
  <2> QED BY <2>1, <2>2, <2>3 DEF Drained
<1> QED BY <1>1, <1>2

\* The flusher that writes, and its writes.
LEMMA WritesWhere ==
    ASSUME WalIInv, NEW f \in Flusher, FlushSees(f),
           ApplyRun(f) \/ SaveThread(f) \/ SaveMessages(f)
    PROVE  flushed < Newest /\ UNCHANGED <<meta, wal, flushed, call, committed>> /\ Newest' = Newest
<1>1. flusher[f].pc \in Writing /\ UNCHANGED <<meta, wal, flushed, call, committed>>
  BY DEF ApplyRun, SaveThread, SaveMessages, Writing, bucketVars, historyVars
<1>2. flushed < Newest BY <1>1, WritesNewer, OrderedIs DEF Ordered
<1>3. Newest' = Newest BY <1>1 DEF Newest, Unannounced
<1> QED BY <1>1, <1>2, <1>3

InnerSame == inner'.thread = inner.thread /\ inner'.messages = inner.messages
WritesAhead == flushed < Newest /\ Newest' = Newest /\ UNCHANGED <<meta, wal, flushed, call, committed>>

LEMMA InnerMoves ==
    ASSUME WalIInv, Step, \A f \in Flusher : FlushSees(f)
    PROVE  \/ InnerSame
           \/ \E x \in Deletion : DeleteInner(x)
           \/ WritesAhead
<1>1. ASSUME NEW f \in Flusher, InnerWrites(f) PROVE InnerSame \/ WritesAhead
  <2>1. CASE PersistStale(f)
    <3>1. inner \in [thread : {0} \cup Snapshot, messages : {0} \cup Snapshot,
                     run : [Run -> {0} \cup Snapshot]]
      BY DEF WalIInv, Types
    <3> QED BY <2>1, <3>1 DEF PersistStale, InnerSame
  <2>2. CASE ApplyRun(f) \/ SaveThread(f) \/ SaveMessages(f)
    BY <2>2, WritesWhere DEF WritesAhead
  <2> QED BY <1>1, <2>1, <2>2 DEF InnerWrites
<1>2. CASE UNCHANGED inner BY <1>2 DEF InnerSame
<1> QED BY <1>1, <1>2, InnerChanges

\* A read finds what it found before, or the entry that was just committed, or
\* nothing since the thread was deleted.
OverlayMoved ==
    \/ Overlay' = Overlay
    \/ \E c \in Checkpoint : \E n \in Snapshot : Commits(c, n) /\ Hot(c) /\ Overlay' = n
    \/ \E x \in Deletion : DeleteInner(x) /\ Overlay' = 0

LEMMA OverlayMoves ==
    ASSUME WalIInv, FlushInv, Step, WalIInv'
    PROVE  OverlayMoved
<1>t. RegisterInv /\ \A f \in Flusher : FlushSees(f) /\ FlushWrote(f) BY DEF FlushInv
<1>o. Ordered /\ Ordered' BY OrderedIs, PTL
<1>n. /\ Newest \in Nat /\ Newest' \in Nat /\ flushed \in Nat /\ flushed' \in Nat
      /\ Overlay = IF Newest > flushed THEN Newest ELSE inner.thread
      /\ Overlay' = IF Newest' > flushed' THEN Newest' ELSE inner'.thread
  BY <1>o DEF Ordered
<1>1. ASSUME NEW c \in Checkpoint, NEW n, Commits(c, n) PROVE OverlayMoved
  <2>1. Hot(c) /\ n = call[c].seq BY <1>1, CommitsHot
  <2>2. Newest < n BY <1>t, <2>1 DEF RegisterInv
  <2>3. n \in Snapshot /\ Overlay' = n BY <1>1, <2>2, CommitNewest
  <2> QED BY <1>1, <2>1, <2>3 DEF OverlayMoved
<1>2. ASSUME NEW x \in Deletion, DeleteInner(x) PROVE OverlayMoved
  <2>1. Newest <= flushed BY <1>2, <1>t, DeletesDrained
  <2>2. UNCHANGED <<meta, wal, flushed>> BY <1>2 DEF DeleteInner, bucketVars
  <2>3. Newest' = Newest BY <2>2 DEF Newest, Unannounced
  <2>4. inner'.thread = 0
    <3>1. inner \in [thread : {0} \cup Snapshot, messages : {0} \cup Snapshot,
                     run : [Run -> {0} \cup Snapshot]]
      BY DEF WalIInv, Types
    <3> QED BY <1>2, <3>1 DEF DeleteInner
  <2>5. Overlay' = 0 BY <1>n, <2>1, <2>2, <2>3, <2>4
  <2> QED BY <1>2, <2>5 DEF OverlayMoved
<1>3. ASSUME NEW x \in Deletion, PutTombstone(x) PROVE OverlayMoved
  <2>1. Drained(x) /\ call[x].pc # "draining"
    BY <1>3, <1>t, DeletesDrained DEF PutTombstone
  <2>2. inner' = inner /\ Newest' = flushed' BY <1>3, TombstoneNewest DEF PutTombstone
  <2>3. Overlay = 0 /\ inner.thread = 0 BY <2>1 DEF Drained
  <2>4. Overlay' = 0 BY <1>n, <2>2, <2>3
  <2> QED BY <2>3, <2>4 DEF OverlayMoved
<1>4. ASSUME NEW f \in Flusher, WriteFlushed(f), Newest' = Newest PROVE Overlay' = Overlay
  <2>1. flusher[f].pc \in Writing /\ flusher[f].pc = "flushed" /\ inner' = inner
        /\ flushed' = Greatest({flushed, Top(f)})
    BY <1>4 DEF WriteFlushed, Writing
  <2>2. Top(f) \in Nat /\ flushed < Top(f) /\ Top(f) <= Newest BY <1>t, <2>1, WritesNewer
  <2>3. flushed' = Top(f) BY <1>n, <2>1, <2>2, GreatestOfTwo
  <2>4. inner.thread = Top(f) BY <1>t, <2>1 DEF FlushWrote
  <2> QED BY <1>4, <1>n, <2>1, <2>2, <2>3, <2>4
<1>5. ASSUME flushed' = flushed, Newest' = Newest, InnerSame \/ WritesAhead
      PROVE  Overlay' = Overlay
  BY <1>n, <1>5 DEF InnerSame, WritesAhead
<1>6. ASSUME NEW f \in Flusher, WriteFlushed(f) PROVE inner' = inner
  BY <1>6 DEF WriteFlushed
<1>7. CASE Newest' = Newest /\ UNCHANGED flushed
  BY <1>2, <1>5, <1>7, <1>t, InnerMoves DEF OverlayMoved
<1>8. CASE Newest' = Newest /\ \E f \in Flusher : WriteFlushed(f)
  BY <1>4, <1>8 DEF OverlayMoved
<1> QED BY <1>1, <1>3, <1>7, <1>8, NewestStep, FlushedIs

-----------------------------------------------------------------------------
(* One flusher at a time, as long as no flush claim has lapsed.             *)

Unlapsed == lapses'.flush = 0
Claims(f) == flushClaim = [token |-> f, live |-> TRUE]
Busy(f) == flusher[f].pc # "idle"

LEMMA FlushClaimStep ==
    ASSUME WalIInv, Step, Unlapsed, NEW f \in Flusher, Claims(f)
    PROVE  Claims(f)' \/ EndBatch(f) \/ CrashFlusher(f)
<1>1. CASE FlushLapse
  <2>1. lapses \in [call : Nat, flush : Nat] BY DEF WalIInv, Types
  <2>2. flushClaim.token = f /\ f # Nobody BY WalAssumption DEF Claims
  <2>3. lapses' = [lapses EXCEPT !.flush = @ + 1] BY <1>1, <2>2 DEF FlushLapse
  <2>4. lapses'.flush = lapses.flush + 1 /\ lapses.flush \in Nat BY <2>1, <2>3
  <2> QED BY <2>4 DEF Unlapsed
<1>2. ASSUME NEW g \in Flusher, FlushClaims(g)
      PROVE  Claims(f)' \/ EndBatch(f) \/ CrashFlusher(f)
  <2>1. flushClaim.live /\ flushClaim.token = f BY DEF Claims
  <2>2. CASE AcquireFlush(g) BY <2>1, <2>2 DEF AcquireFlush
  <2>3. CASE EndBatch(g) /\ g # f BY <2>1, <2>3 DEF EndBatch, Released, Claims
  <2>4. CASE CrashFlusher(g) /\ g # f BY <2>1, <2>4 DEF CrashFlusher, Claims
  <2> QED BY <1>2, <2>2, <2>3, <2>4 DEF FlushClaims
<1>3. CASE UNCHANGED flushClaim BY <1>3 DEF Claims
<1> QED BY <1>1, <1>2, <1>3, FlusherChanges

\* A flusher moves alone.
LEMMA FlusherTurns ==
    ASSUME Types, NEW g \in Flusher, FlusherInv(g), FlusherStep(g),
           NEW f \in Flusher, flusher'[f] # flusher[f]
    PROVE  g = f
<1>1. ASSUME g # f, NEW q, Turns(g, q) PROVE FALSE BY <1>1 DEF Turns
<1>2. ASSUME ApplyRun(g) PROVE \E q : Turns(g, q)
  BY <1>2, FlusherMoves DEF AppliedRun
<1>3. \E q : Turns(g, q) BY <1>2, FlusherMoves DEF FlusherStep
<1> QED BY <1>1, <1>3

LEMMA FlushOneStep ==
    ASSUME WalIInv, FlushOne, Step, Unlapsed
    PROVE  FlushOne'
<1> SUFFICES ASSUME NEW f \in Flusher, Busy(f)' PROVE Claims(f)'
  BY DEF FlushOne, Busy, Claims
<1>t. Types /\ FlusherInv(f) BY DEF WalIInv
<1>r. flusher[f] \in FlusherRecord BY <1>t DEF Types
<1>1. CASE Busy(f)
  <2>1. Claims(f) BY <1>1 DEF FlushOne, Busy, Claims
  <2>2. ASSUME EndBatch(f) \/ CrashFlusher(f) PROVE FALSE
    <3>1. flusher'[f] = Idle BY <1>t, <2>2, FlusherMoves DEF Turns
    <3> QED BY <3>1 DEF Busy, Idle
  <2> QED BY <2>1, <2>2, FlushClaimStep
<1>2. CASE ~Busy(f)
  <2>1. flusher[f].pc = "idle" /\ flusher'[f] # flusher[f] BY <1>2 DEF Busy
  <2>2. PICK g \in Flusher : FlusherStep(g) BY <2>1, FlusherChanges
  <2>3. g = f
    <3>1. FlusherInv(g) BY DEF WalIInv
    <3> QED BY <1>t, <2>1, <2>2, <3>1, FlusherTurns
  <2>4. AcquireFlush(f)
    <3>1. ASSUME NEW js \in DOMAIN stream, Pull(f, js) PROVE FALSE
      <4>1. flusher'[f] = [flusher[f] EXCEPT !.batch = flusher[f].batch \cup {js}]
        BY <1>t, <3>1, FlusherMoves DEF Turns
      <4>2. flusher'[f].pc = flusher[f].pc BY <1>r, <4>1 DEF FlusherRecord
      <4> QED BY <2>1, <4>2 DEF Busy
    <3>2. ASSUME CrashFlusher(f) PROVE FALSE
      <4>1. flusher'[f] = Idle BY <1>t, <3>2, FlusherMoves DEF Turns
      <4> QED BY <4>1 DEF Busy, Idle
    <3> QED BY <2>1, <2>2, <2>3, <3>1, <3>2
      DEF FlusherStep, Acknowledge, Classify, PersistStale, EnsureFlushCurrent, ApplyRun,
          SaveThread, SaveMessages, PromoteFlushed, WriteFlushed, FlushError, EndBatch
  <2> QED BY <2>4 DEF AcquireFlush, Claims
<1> QED BY <1>1, <1>2

\* Of the flushers that are busy there is one.
LEMMA BusyAlone ==
    ASSUME FlushOne, NEW f \in Flusher, NEW g \in Flusher, Busy(f), Busy(g)
    PROVE  f = g
<1>1. flushClaim = [token |-> f, live |-> TRUE] /\ flushClaim = [token |-> g, live |-> TRUE]
  BY DEF FlushOne, Busy
<1> QED BY <1>1

Sighted(f) == flusher[f].pc \in {"classify", "stale"} \cup Writing

\* The places a move of a flusher leads to.
LEMMA FlusherGoes ==
    ASSUME Types, NEW f \in Flusher, FlusherInv(f), FlusherStep(f)
    PROVE  \/ AcquireFlush(f) /\ flusher'[f].flushed = flushed
           \/ flusher'[f].pc \in {"idle", "finish"}
           \/ /\ Sighted(f) /\ flusher'[f].flushed = flusher[f].flushed
              /\ flusher'[f].pc \in {"stale", "runs", "thread"}
           \/ /\ Sighted(f) /\ flusher'[f].flushed = flusher[f].flushed
              /\ flusher'[f].todo = flusher[f].todo
              /\ \/ SaveThread(f) /\ flusher'[f].pc = "messages"
                 \/ SaveMessages(f) /\ flusher'[f].pc \in {"latest", "flushed"}
                 \/ PromoteFlushed(f) /\ flusher'[f].pc = "flushed"
                 \/ EnsureFlushCurrent(f) /\ flusher'[f].pc = flusher[f].pc
<1> DEFINE r == flusher[f]
<1>r. r \in FlusherRecord BY DEF Types
<1>1. ASSUME NEW js \in DOMAIN stream, Pull(f, js) PROVE flusher'[f].pc = "idle"
  <2>1. flusher'[f] = [r EXCEPT !.batch = r.batch \cup {js}] BY <1>1, FlusherMoves DEF Turns
  <2>2. r.pc = "idle" BY <1>1 DEF Pull
  <2> QED BY <1>r, <2>1, <2>2 DEF FlusherRecord
<1>2. ASSUME NEW js \in DOMAIN stream, Acknowledge(f, js) PROVE flusher'[f].pc = "finish"
  <2>1. flusher'[f] = [r EXCEPT !.batch = r.batch \ {js}, !.todo = r.todo \ {js},
                                !.ignored = r.ignored \ {js}]
    BY <1>2, FlusherMoves DEF Turns
  <2>2. r.pc = "finish" BY <1>2 DEF Acknowledge
  <2> QED BY <1>r, <2>1, <2>2 DEF FlusherRecord
<1>3. ASSUME AcquireFlush(f) PROVE flusher'[f].flushed = flushed
  <2>1. flusher'[f] = [r EXCEPT !.pc = "classify", !.flushed = flushed]
    BY <1>3, FlusherMoves DEF Turns
  <2> QED BY <1>r, <2>1 DEF FlusherRecord
<1>4. ASSUME Classify(f)
      PROVE  Sighted(f) /\ flusher'[f].flushed = r.flushed /\ flusher'[f].pc = "stale"
  <2>1. flusher'[f] = [r EXCEPT !.pc = "stale", !.todo = ToFlush(f), !.ignored = Ignored(f)]
    BY <1>4, FlusherMoves DEF Turns
  <2>2. r.pc = "classify" BY <1>4 DEF Classify
  <2> QED BY <1>r, <2>1, <2>2 DEF FlusherRecord, Sighted
<1>5. ASSUME PersistStale(f)
      PROVE  /\ Sighted(f) /\ flusher'[f].flushed = r.flushed
             /\ flusher'[f].pc \in {"runs", "finish"}
  <2>1. PICK p : p = (IF Top(f) > r.flushed THEN "runs" ELSE "finish") OBVIOUS
  <2>2. PICK rest : rest = {q \in Run : RunSeq(f, q) > r.flushed} OBVIOUS
  <2>3. flusher'[f] = [r EXCEPT !.pc = p, !.rest = rest]
    BY <1>5, <2>1, <2>2, FlusherMoves DEF Turns
  <2>4. r.pc = "stale" BY <1>5 DEF PersistStale
  <2> QED BY <1>r, <2>1, <2>3, <2>4 DEF FlusherRecord, Sighted
<1>6. ASSUME EnsureFlushCurrent(f)
      PROVE  /\ Sighted(f)
             /\ \/ flusher'[f].pc = "finish"
                \/ /\ flusher'[f].flushed = r.flushed /\ flusher'[f].todo = r.todo
                   /\ flusher'[f].pc = r.pc
  <2>1. r.pc \in Writing BY <1>6 DEF EnsureFlushCurrent, Writing
  <2>2. \/ flusher'[f] = [r EXCEPT !.armed = TRUE]
        \/ flusher'[f] = [r EXCEPT !.pc = "finish", !.todo = {}]
    BY <1>6, FlusherMoves DEF Turns
  <2> QED BY <1>r, <2>1, <2>2 DEF FlusherRecord, Sighted
<1>7. ASSUME ApplyRun(f)
      PROVE  /\ Sighted(f) /\ flusher'[f].flushed = r.flushed
             /\ flusher'[f].pc \in {"runs", "thread"}
  <2>1. PICK q \in r.rest : AppliedRun(f, q) BY <1>7, FlusherMoves
  <2>2. PICK p : p = (IF r.rest = {q} THEN "thread" ELSE "runs") OBVIOUS
  <2>3. PICK rest : rest = r.rest \ {q} OBVIOUS
  <2>4. flusher'[f] = [r EXCEPT !.armed = FALSE, !.rest = rest, !.pc = p]
    BY <2>1, <2>2, <2>3 DEF AppliedRun, Turns
  <2>5. r.pc = "runs" BY <1>7 DEF ApplyRun
  <2> QED BY <1>r, <2>2, <2>4, <2>5 DEF FlusherRecord, Sighted, Writing
<1>8. ASSUME NEW p,
             \/ SaveThread(f) /\ p = "messages"
             \/ SaveMessages(f) /\ p = (IF Top(f) > meta.latest THEN "latest" ELSE "flushed")
             \/ PromoteFlushed(f) /\ p = "flushed"
      PROVE  /\ Sighted(f) /\ flusher'[f].flushed = r.flushed /\ flusher'[f].todo = r.todo
             /\ flusher'[f].pc = p
  <2>1. flusher'[f] = [r EXCEPT !.pc = p, !.armed = FALSE] BY <1>8, FlusherMoves DEF Turns
  <2>2. r.pc \in Writing BY <1>8 DEF SaveThread, SaveMessages, PromoteFlushed, Writing
  <2> QED BY <1>r, <2>1, <2>2 DEF FlusherRecord, Sighted
<1>9. ASSUME WriteFlushed(f) \/ FlushError(f) \/ EndBatch(f) \/ CrashFlusher(f)
      PROVE  flusher'[f].pc \in {"idle", "finish"}
  <2>1. \/ flusher'[f] = [r EXCEPT !.pc = "finish", !.armed = FALSE]
        \/ flusher'[f] = [r EXCEPT !.pc = "finish", !.todo = {}, !.armed = FALSE]
        \/ flusher'[f] = Idle
    BY <1>9, FlusherMoves DEF Turns
  <2>2. Idle.pc = "idle" BY DEF Idle
  <2>3. /\ [r EXCEPT !.pc = "finish", !.armed = FALSE].pc = "finish"
        /\ [r EXCEPT !.pc = "finish", !.todo = {}, !.armed = FALSE].pc = "finish"
    BY <1>r DEF FlusherRecord
  <2> QED BY <1>r, <2>1, <2>2, <2>3
<1>10. SaveThread(f) => flusher'[f].pc = "messages" /\ Sighted(f)
                        /\ flusher'[f].flushed = r.flushed /\ flusher'[f].todo = r.todo
  BY <1>8
<1>11. SaveMessages(f) => flusher'[f].pc \in {"latest", "flushed"} /\ Sighted(f)
                          /\ flusher'[f].flushed = r.flushed /\ flusher'[f].todo = r.todo
  BY <1>8
<1>12. PromoteFlushed(f) => flusher'[f].pc = "flushed" /\ Sighted(f)
                            /\ flusher'[f].flushed = r.flushed /\ flusher'[f].todo = r.todo
  BY <1>8
<1> QED BY <1>1, <1>2, <1>3, <1>4, <1>5, <1>6, <1>7, <1>9, <1>10, <1>11, <1>12, Zenon DEF FlusherStep

\* Who is committed by a step was not committed before, and is the newest.
LEMMA CommittedStep ==
    ASSUME WalIInv, RegisterInv, Step, NEW js \in committed', js \notin committed
    PROVE  /\ js \in DOMAIN stream /\ stream[js].seq > Newest
           /\ UNCHANGED <<stream, flushed, flusher>>
<1>t. Types /\ EntryInv BY DEF WalIInv
<1>1. PICK c \in Checkpoint : MarkCommitted(c) BY StreamChanges
<1>2. Commits(c, call[c].seq) BY <1>1, MarkIs
<1>3. js = call[c].js /\ Hot(c) BY <1>2, CommitsHot DEF Commits
<1>4. call[c].pc \in AtMost BY <1>1 DEF MarkCommitted, AtMost
<1>5. js \in DOMAIN stream /\ stream[js] = [seq |-> call[c].seq, run |-> RunOf[c]]
  BY <1>t, <1>3, <1>4 DEF EntryInv
<1>6. stream[js].seq = call[c].seq BY <1>5
<1>7. Newest < call[c].seq BY <1>3 DEF RegisterInv
<1>8. call[c].seq \in Nat /\ Newest \in Nat BY <1>t, <1>5, <1>6, SeqOfMessage, SnapshotIsNat, OrderedIs DEF Ordered
<1>9. UNCHANGED <<stream, flushed, flusher>> BY <1>1 DEF MarkCommitted, queueVars, flushVars
<1> QED BY <1>5, <1>6, <1>7, <1>8, <1>9

LEMMA FlushSeesStep ==
    ASSUME WalIInv, FlushInv, Step, NEW f \in Flusher
    PROVE  FlushSees(f)'
<1> SUFFICES ASSUME Sighted(f)',
                    NEW js \in committed', stream'[js].seq > flusher'[f].flushed
             PROVE  stream'[js].seq > flushed'
  BY DEF FlushSees, Sighted
<1>t. Types /\ FlusherInv(f) /\ RegisterInv /\ FlushOne /\ FlushSees(f) BY DEF WalIInv, FlushInv
<1>o. Ordered BY OrderedIs
<1>d. committed \subseteq DOMAIN stream BY <1>t DEF Types
<1>1. CASE AcquireFlush(f)
  <2>1. UNCHANGED <<stream, flushed, committed>> BY <1>1 DEF AcquireFlush, bucketVars, queueVars, historyVars
  <2>2. FlusherStep(f) BY <1>1 DEF FlusherStep
  <2>3. flusher'[f] = [flusher[f] EXCEPT !.pc = "classify", !.flushed = flushed]
    BY <1>1, <1>t, FlusherMoves DEF Turns
  <2>4. flusher[f] \in FlusherRecord BY <1>t DEF Types
  <2>5. flusher'[f].flushed = flushed BY <2>3, <2>4 DEF FlusherRecord
  <2> QED BY <2>1, <2>5
<1>2. CASE ~AcquireFlush(f)
  <2>1. Sighted(f) /\ flusher'[f].flushed = flusher[f].flushed /\ ~WriteFlushed(f)
    <3>1. ~WriteFlushed(f)
      <4>1. ASSUME WriteFlushed(f) PROVE flusher'[f].pc = "finish"
        <5>1. flusher'[f] = [flusher[f] EXCEPT !.pc = "finish", !.armed = FALSE]
          BY <1>t, <4>1, FlusherMoves DEF Turns
        <5>2. flusher[f] \in FlusherRecord BY <1>t DEF Types
        <5> QED BY <5>1, <5>2 DEF FlusherRecord
      <4> QED BY <4>1 DEF Sighted, Writing
    <3>2. CASE flusher'[f] = flusher[f] BY <3>1, <3>2 DEF Sighted
    <3>3. CASE FlusherStep(f) BY <1>2, <1>t, <3>1, <3>3, FlusherGoes DEF Sighted, Writing
    <3>4. CASE flusher'[f] # flusher[f]
      <4>1. PICK g \in Flusher : FlusherStep(g) BY <3>4, FlusherChanges
      <4>2. FlusherInv(g) BY DEF WalIInv
      <4> QED BY <1>t, <3>3, <3>4, <4>1, <4>2, FlusherTurns
    <3> QED BY <3>2, <3>4
  <2>2. CASE js \notin committed
    <3>1. js \in DOMAIN stream /\ stream[js].seq > Newest /\ stream' = stream /\ flushed' = flushed
      BY <1>t, <2>2, CommittedStep
    <3>2. stream[js].seq \in Nat BY <1>t, <3>1, SeqOfMessage, SnapshotIsNat
    <3>3. flushed \in Nat /\ Newest \in Nat /\ flushed <= Newest BY <1>o DEF Ordered
    <3> QED BY <3>1, <3>2, <3>3
  <2>3. CASE js \in committed
    <3>1. stream'[js] = stream[js] /\ stream[js].seq \in Nat
      <4>1. Shape BY ShapeStep DEF Step
      <4>2. stream[js].seq \in Snapshot BY <1>d, <1>t, <2>3, SeqOfMessage
      <4> QED BY <1>d, <2>3, <4>1, <4>2, SnapshotIsNat DEF Shape, Grows
    <3>2. stream[js].seq > flushed BY <1>t, <2>1, <2>3, <3>1 DEF FlushSees, Sighted
    <3>3. ASSUME NEW x \in Deletion, PutTombstone(x) PROVE FALSE
      <4>1. Newest <= flushed BY <1>t, <3>3, DeletesDrained
      <4>2. WasCommitted(stream[js].seq) BY <2>3 DEF WasCommitted
      <4>3. stream[js].seq <= Newest BY <1>o, <4>2 DEF Ordered
      <4> QED BY <1>o, <3>1, <3>2, <4>1, <4>3 DEF Ordered
    <3>4. ASSUME NEW g \in Flusher, WriteFlushed(g) PROVE FALSE
      <4>1. Busy(g) /\ Busy(f)
        BY <2>1, <3>4 DEF WriteFlushed, Busy, Sighted, Writing
      <4>2. g = f BY <1>t, <4>1, BusyAlone
      <4> QED BY <2>1, <3>4, <4>2
    <3> QED BY <3>1, <3>2, <3>3, <3>4, FlushedIs
  <2> QED BY <2>2, <2>3
<1> QED BY <1>1, <1>2

LEMMA FlushWroteStep ==
    ASSUME WalIInv, FlushInv, Step, Types', NEW f \in Flusher
    PROVE  FlushWrote(f)'
<1> SUFFICES ASSUME flusher'[f].pc \in {"messages", "latest", "flushed"} PROVE FlushWrote(f)'
  BY DEF FlushWrote
<1>t. Types /\ FlusherInv(f) /\ RegisterInv /\ FlushOne /\ FlushSees(f) /\ FlushWrote(f)
  BY DEF WalIInv, FlushInv
<1>g. Grows BY ShapeStep DEF Step, Shape
<1>i. inner \in [thread : {0} \cup Snapshot, messages : {0} \cup Snapshot,
                 run : [Run -> {0} \cup Snapshot]]
  BY <1>t DEF Types
<1>1. CASE FlusherStep(f)
  <2>1. ~AcquireFlush(f)
    <3>1. ASSUME AcquireFlush(f) PROVE FALSE
      <4>1. flusher'[f] = [flusher[f] EXCEPT !.pc = "classify", !.flushed = flushed]
        BY <1>t, <3>1, FlusherMoves DEF Turns
      <4>2. flusher[f] \in FlusherRecord BY <1>t DEF Types
      <4>3. flusher'[f].pc = "classify" BY <4>1, <4>2 DEF FlusherRecord
      <4> QED BY <4>3
    <3> QED BY <3>1
  <2>2. /\ flusher'[f].todo = flusher[f].todo
        /\ \/ SaveThread(f) /\ flusher'[f].pc = "messages"
           \/ SaveMessages(f) /\ flusher'[f].pc \in {"latest", "flushed"}
           \/ PromoteFlushed(f) /\ flusher'[f].pc = "flushed"
           \/ EnsureFlushCurrent(f) /\ flusher'[f].pc = flusher[f].pc
    BY <1>1, <1>t, <2>1, FlusherGoes
  <2>3. Top(f)' = Top(f) BY <1>g, <1>t, <2>2, SameBatch
  <2>4. CASE SaveThread(f) /\ flusher'[f].pc = "messages"
    <3>1. inner' = [inner EXCEPT !.thread = Top(f)] BY <2>4 DEF SaveThread
    <3>2. inner'.thread = Top(f) BY <1>i, <3>1
    <3> QED BY <2>3, <2>4, <3>2 DEF FlushWrote
  <2>5. CASE SaveMessages(f) /\ flusher'[f].pc \in {"latest", "flushed"}
    <3>1. inner' = [inner EXCEPT !.messages = Top(f)] /\ flusher[f].pc = "messages"
      BY <2>5 DEF SaveMessages
    <3>2. inner'.messages = Top(f) /\ inner'.thread = Top(f) BY <1>i, <1>t, <3>1 DEF FlushWrote
    <3> QED BY <2>3, <2>5, <3>2 DEF FlushWrote
  <2>6. CASE PromoteFlushed(f) /\ flusher'[f].pc = "flushed"
    <3>1. inner' = inner /\ flusher[f].pc = "latest" BY <2>6 DEF PromoteFlushed
    <3> QED BY <1>t, <2>3, <2>6, <3>1 DEF FlushWrote
  <2>7. CASE EnsureFlushCurrent(f) /\ flusher'[f].pc = flusher[f].pc
    <3>1. inner' = inner BY <2>7 DEF EnsureFlushCurrent
    <3> QED BY <1>t, <2>3, <2>7, <3>1 DEF FlushWrote
  <2> QED BY <2>2, <2>4, <2>5, <2>6, <2>7
<1>2. CASE flusher'[f] = flusher[f] /\ ~FlusherStep(f)
  <2>1. Top(f)' = Top(f) BY <1>2, <1>g, <1>t, SameBatch
  <2>2. flusher[f].pc \in Writing /\ Busy(f) BY <1>2 DEF Writing, Busy
  <2>3. ASSUME NEW x \in Deletion, DeleteInner(x) PROVE FALSE
    <3>1. Newest <= flushed BY <1>t, <2>3, DeletesDrained
    <3>2. flushed < Top(f) /\ Top(f) <= Newest /\ Top(f) \in Nat BY <1>t, <2>2, WritesNewer
    <3> QED BY <3>1, <3>2, OrderedIs DEF Ordered
  <2>4. ASSUME NEW g \in Flusher, InnerWrites(g) PROVE FALSE
    <3>1. Busy(g) /\ FlusherStep(g)
      BY <2>4 DEF InnerWrites, PersistStale, ApplyRun, SaveThread, SaveMessages, Busy, FlusherStep
    <3>2. g = f BY <1>t, <2>2, <3>1, BusyAlone
    <3> QED BY <1>2, <3>1, <3>2
  <2>5. inner' = inner BY <2>3, <2>4, InnerChanges
  <2> QED BY <1>2, <1>t, <2>1, <2>5 DEF FlushWrote
<1>3. CASE flusher'[f] # flusher[f]
  <2>1. PICK g \in Flusher : FlusherStep(g) BY <1>3, FlusherChanges
  <2>2. FlusherInv(g) BY DEF WalIInv
  <2> QED BY <1>1, <1>3, <1>t, <2>1, <2>2, FlusherTurns
<1> QED BY <1>1, <1>2, <1>3

LEMMA WholeStep ==
    ASSUME WalIInv, FlushInv, Step, WalIInv'
    PROVE  Whole'
<1> SUFFICES ASSUME Newest' <= flushed' PROVE inner'.thread = inner'.messages BY DEF Whole
<1>t. RegisterInv /\ Whole /\ \A f \in Flusher : FlushSees(f) /\ FlushWrote(f) BY DEF FlushInv
<1>o. Ordered /\ Ordered' BY OrderedIs, PTL
<1>n. Newest \in Nat /\ Newest' \in Nat /\ flushed \in Nat /\ flushed' \in Nat
  BY <1>o DEF Ordered
<1>1. ASSUME NEW x \in Deletion, DeleteInner(x) PROVE inner'.thread = inner'.messages
  <2>1. inner \in [thread : {0} \cup Snapshot, messages : {0} \cup Snapshot,
                   run : [Run -> {0} \cup Snapshot]]
    BY DEF WalIInv, Types
  <2> QED BY <1>1, <2>1 DEF DeleteInner
<1>2. CASE WritesAhead BY <1>2, <1>n DEF WritesAhead
<1>3. CASE InnerSame
  <2>1. ASSUME NEW x \in Deletion, PutTombstone(x) PROVE inner.thread = inner.messages
    <3>1. Drained(x) /\ call[x].pc # "draining" BY <1>t, <2>1, DeletesDrained DEF PutTombstone
    <3> QED BY <3>1 DEF Drained
  <2>2. ASSUME NEW f \in Flusher, WriteFlushed(f) PROVE inner.thread = inner.messages
    BY <1>t, <2>2 DEF WriteFlushed, FlushWrote
  <2>3. ASSUME Newest' = Newest, flushed' = flushed PROVE inner.thread = inner.messages
    BY <1>t, <2>3 DEF Whole
  <2>4. ASSUME NEW c \in Checkpoint, NEW n, Commits(c, n) PROVE FALSE
    <3>1. Newest < n BY <1>t, <2>4, CommitsHot DEF RegisterInv
    <3>2. Newest' = n /\ flushed' = flushed BY <2>4, <3>1, CommitNewest
    <3> QED BY <1>n, <1>o, <3>1, <3>2 DEF Ordered
  <2> QED BY <1>3, <2>1, <2>2, <2>3, <2>4, NewestStep, FlushedIs DEF InnerSame
<1> QED BY <1>1, <1>2, <1>3, <1>t, InnerMoves

-----------------------------------------------------------------------------
(* Who may still commit has read what a read finds now.                     *)

\* Nobody becomes able to commit while the claim is another's.
LEMMA NobodyHot ==
    ASSUME WalIInv, Step, \A b \in Checkpoint : ~Hot(b),
           NEW p, claim.token = p, p \in Checkpoint => ~Hot(p)',
           NEW b \in Checkpoint, Hot(b)'
    PROVE  FALSE
<1>1. Current(b) BY HotIs
<1>2. b = p BY <1>1 DEF Current
<1> QED BY <1>2

\* Without a commit or a deletion, a read finds the same.
LEMMA NothingNew ==
    ASSUME WalIInv, FlushInv, Step, WalIInv',
           ~(\E c \in Checkpoint : \E n : Commits(c, n)),
           ~(\E x \in Deletion : DeleteInner(x) \/ PutTombstone(x))
    PROVE  Newest' = Newest /\ Overlay' = Overlay
<1>1. Newest' = Newest BY NewestStep
<1>2. Overlay' = Overlay BY OverlayMoves DEF OverlayMoved
<1> QED BY <1>1, <1>2

\* After a recovery only the holder of the claim has a prepared entry.
LEMMA RecoveredHot ==
    ASSUME WalIInv, Reconciled, Step, NEW b \in Checkpoint, Hot(b)'
    PROVE  claim.token = b
<1>t. Types /\ EntryInv BY DEF WalIInv
<1>1. call'[b].seq = call[b].seq BY HotIs
<1>2. wal'[call[b].seq].status = "Prepared" /\ wal'[call[b].seq].token = b
  BY <1>1 DEF Hot, IsOpen
<1>3. call[b].seq \in Snapshot
  <2>1. call[b].pc \in {"prepared", "publishing"} \cup Undecided
    <3>1. Hot(b) \/ call[b].pc = "prepared" BY HotIs
    <3> QED BY <3>1 DEF Hot
  <2>2. call[b].seq # 0 BY <2>1 DEF WalIInv, SeqInv, Undecided
  <2>3. call[b] \in CallRecord BY <1>t DEF Types, Call
  <2> QED BY <2>2, <2>3 DEF CallRecord
<1>4. wal'[call[b].seq] = wal[call[b].seq] /\ Current(wal[call[b].seq].token)
  BY <1>2, <1>3, <1>t, ReconciledIs
<1> QED BY <1>2, <1>4 DEF Current

LEMMA HotStep ==
    ASSUME WalIInv, FlushInv, Step, WalIInv', NEW c \in Checkpoint, Hot(c)'
    PROVE  call'[c].basis = Overlay' /\ Newest' < call'[c].seq
<1>t. RegisterInv BY DEF FlushInv
<1>1. /\ call'[c].seq = call[c].seq /\ call'[c].basis = call[c].basis
      /\ \/ Hot(c)
         \/ /\ call[c].pc = "prepared" /\ Current(c)
            /\ UNCHANGED <<stream, meta, claim, wal, flushed, inner>>
  BY HotIs
<1>2. CASE Hot(c)
  <2>1. call[c].basis = Overlay /\ Newest < call[c].seq /\ \A b \in Checkpoint : Hot(b) => b = c
    BY <1>2, <1>t DEF RegisterInv
  <2>2. ASSUME NEW b \in Checkpoint, NEW n, Commits(b, n) PROVE FALSE
    <3>1. b = c BY <2>1, <2>2, CommitsHot
    <3>2. call'[c].pc = "committed" BY <2>2, <3>1 DEF Commits, Moved
    <3> QED BY <3>2 DEF Hot, Undecided
  <2>3. ASSUME NEW x \in Deletion, DeleteInner(x) \/ PutTombstone(x) PROVE FALSE
    BY <1>2, <1>t, <2>3, DeletesDrained DEF Drained
  <2>4. Newest' = Newest /\ Overlay' = Overlay BY <2>2, <2>3, NothingNew
  <2> QED BY <1>1, <2>1, <2>4
<1>3. CASE /\ call[c].pc = "prepared" /\ Current(c)
           /\ UNCHANGED <<stream, meta, claim, wal, flushed, inner>>
  <2>1. call[c].pc \in Ready /\ claim.token = c BY <1>3 DEF Ready, Current
  <2>2. call[c].basis = Overlay /\ Newest < call[c].seq BY <1>3, <1>t, <2>1 DEF RegisterInv
  <2>3. Newest' = Newest BY <1>3 DEF Newest, Unannounced
  <2>4. Overlay' = Overlay BY <1>3 DEF Overlay, Unannounced
  <2> QED BY <1>1, <2>2, <2>3, <2>4
<1> QED BY <1>1, <1>2, <1>3

LEMMA OneHotStep ==
    ASSUME WalIInv, FlushInv, Step, NEW c \in Checkpoint, NEW b \in Checkpoint, Hot(c)', Hot(b)'
    PROVE  c = b
<1>t. RegisterInv BY DEF FlushInv
<1>1. ASSUME NEW p \in Checkpoint, NEW q \in Checkpoint, p # q, Hot(p)', Hot(q)', ~Hot(p)
      PROVE  FALSE
  <2>1. /\ call[p].pc = "prepared" /\ Current(p)
        /\ \A o \in Checkpoint : o # p => call'[o] = call[o]
    BY <1>1, HotIs
  <2>2. \A o \in Checkpoint : ~Hot(o)
    <3>1. call[p].pc \in Ready /\ claim.token = p BY <2>1 DEF Ready, Current
    <3> QED BY <1>t, <3>1 DEF RegisterInv
  <2>3. call[q].pc = "prepared" /\ call'[q] = call[q] BY <1>1, <2>1, <2>2, HotIs
  <2> QED BY <1>1, <2>3 DEF Hot, Undecided
<1>2. ASSUME c # b, Hot(c), Hot(b) PROVE FALSE BY <1>2, <1>t DEF RegisterInv
<1> QED BY <1>1, <1>2

\* Under a claim that somebody else has, nothing is committed or deleted.
LEMMA NotTheirs ==
    ASSUME WalIInv, FlushInv, Step, WalIInv', NEW p, claim.token = p,
           \A b \in Checkpoint : ~Hot(b), p \notin Deletion
    PROVE  Newest' = Newest /\ Overlay' = Overlay
<1>1. ~(\E c \in Checkpoint : \E n : Commits(c, n)) BY CommitsHot
<1>2. ASSUME NEW x \in Deletion, DeleteInner(x) \/ PutTombstone(x) PROVE FALSE
  BY <1>2, DeletesDrained DEF FlushInv
<1> QED BY <1>1, <1>2, NothingNew

LEMMA ReadyStep ==
    ASSUME WalIInv, FlushInv, Step, WalIInv', NEW c \in Checkpoint,
           call'[c].pc \in Ready, claim'.token = c
    PROVE  /\ \A b \in Checkpoint : ~Hot(b)'
           /\ call'[c].basis = Overlay'
           /\ call'[c].pc \in {"reserved", "prepared"} => Newest' < call'[c].seq
<1>t. Types /\ SeqInv /\ RegisterInv BY DEF WalIInv, FlushInv
<1>o. Ordered BY OrderedIs
<1>c. c \in Call /\ c \notin Deletion BY WalAssumption DEF Call
<1>h. ~Hot(c)' BY DEF Hot, Ready, Undecided
<1>k. claim.token = c
  <2>1. ASSUME NEW b \in Call, Acquire(b), claim' = [token |-> b, live |-> TRUE] PROVE FALSE
    <3>1. b = c BY <2>1
    <3>2. call'[c].pc = "claimed" BY <1>t, <2>1, <3>1, CheckpointMoves DEF Moved
    <3> QED BY <3>2 DEF Ready
  <2> QED BY <2>1, ClaimIs
<1>1. CASE Project(c)
  <2>1. call'[c].pc = "projected" /\ call'[c].basis = Overlay
    BY <1>t, <1>1, CheckpointMoves DEF Moved
  <2>2. Reconciled BY <1>1 DEF Project
  <2>3. ASSUME NEW b \in Checkpoint, Hot(b)' PROVE FALSE
    BY <1>h, <1>k, <2>2, <2>3, RecoveredHot
  <2>4. call[c].pc = "claimed" BY <1>1 DEF Project
  <2>5. ASSUME NEW b \in Checkpoint, NEW n, Commits(b, n) PROVE FALSE
    BY <1>c, <2>1, <2>4, <2>5 DEF Commits, Moved
  <2>6. ASSUME NEW x \in Deletion, DeleteInner(x) \/ PutTombstone(x) PROVE FALSE
    BY <1>k, <1>c, <1>t, <2>6, DeletesDrained
  <2>7. Overlay' = Overlay BY <2>5, <2>6, NothingNew
  <2> QED BY <2>1, <2>3, <2>7
<1>2. CASE ~Project(c)
  <2>1. /\ call[c].pc \in Ready /\ call'[c].basis = call[c].basis
        /\ \/ /\ call'[c].seq = call[c].seq
              /\ call'[c].pc \in {"reserved", "prepared"} => call[c].pc \in {"reserved", "prepared"}
           \/ call'[c].seq = meta.reserved + 1
    <3>1. CASE CheckpointStep(c)
      BY <1>2, <1>t, <3>1, CheckpointMoves
      DEF CheckpointStep, Moved, Ready, ReserveSeq, MarkPrepared, Publish, ReadPrepared
    <3>2. CASE Acquire(c) \/ Crash(c) BY <1>t, <3>2, CheckpointMoves DEF Moved, Ready
    <3>3. CASE call'[c] = call[c] BY <3>3
    <3> QED BY <1>c, <1>t, <3>1, <3>2, <3>3, CallChanges
  <2>2. /\ \A b \in Checkpoint : ~Hot(b)
        /\ call[c].basis = Overlay
        /\ call[c].pc \in {"reserved", "prepared"} => Newest < call[c].seq
    BY <1>k, <1>t, <2>1 DEF RegisterInv
  <2>3. Newest' = Newest /\ Overlay' = Overlay BY <1>c, <1>k, <2>2, NotTheirs
  <2>4. ASSUME NEW b \in Checkpoint, Hot(b)' PROVE FALSE BY <1>h, <1>k, <2>2, <2>4, NobodyHot
  <2>5. Newest < meta.reserved + 1 BY <1>o DEF Ordered
  <2> QED BY <2>1, <2>2, <2>3, <2>4, <2>5
<1> QED BY <1>1, <1>2

LEMMA DrainStep ==
    ASSUME WalIInv, FlushInv, Step, WalIInv', NEW x \in Deletion,
           call'[x].pc \in Draining, claim'.token = x
    PROVE  /\ \A b \in Checkpoint : ~Hot(b)'
           /\ Unannounced' = {}
           /\ call'[x].pc # "draining" =>
                 meta'.latest <= flushed' /\ inner'.thread = 0 /\ inner'.messages = 0
<1>t. Types /\ SeqInv /\ EntryInv /\ RegisterInv BY DEF WalIInv, FlushInv
<1>f. \A f \in Flusher : FlushSees(f) BY DEF FlushInv
<1>o. Ordered /\ Ordered' BY OrderedIs, PTL
<1>x. x \in Call /\ x \notin Checkpoint BY WalAssumption DEF Call
<1>k. claim.token = x
  <2>1. ASSUME NEW b \in Call, Acquire(b), claim' = [token |-> b, live |-> TRUE] PROVE FALSE
    <3>1. b = x BY <2>1
    <3>2. call'[x].pc = "claimed" BY <1>t, <2>1, <3>1, DeletionMoves DEF Moved
    <3> QED BY <3>2 DEF Draining, Marking
  <2> QED BY <2>1, ClaimIs
<1>i. inner \in [thread : {0} \cup Snapshot, messages : {0} \cup Snapshot,
                 run : [Run -> {0} \cup Snapshot]]
  BY <1>t DEF Types
<1>1. CASE Drain(x)
  <2>1. call'[x].pc = "draining" /\ Reconciled
    BY <1>1, <1>t, DeletionMoves DEF Moved, Drain
  <2>2. ASSUME NEW b \in Checkpoint, Hot(b)' PROVE FALSE
    BY <1>k, <1>x, <2>1, <2>2, RecoveredHot
  <2>3. ASSUME NEW s \in Unannounced' PROVE FALSE
    <3>1. s \in Snapshot /\ wal'[s].status = "Committed" /\ s > meta'.latest
      BY <2>3 DEF Unannounced
    <3>2. meta'.latest = Newest /\ wal'[s] = Settled(wal[s]) BY <1>t, <2>1, <3>1, ReconciledIs
    <3>3. wal[s].status = "Committed"
      <4>1. wal[s] \in Entry BY <1>t, <3>1 DEF Types
      <4> QED BY <3>1, <3>2, <4>1, SettledIs
    <3>4. s \in Nat BY <3>1, SnapshotIsNat
    <3>5. s > meta.latest BY <1>o, <3>1, <3>2, <3>4 DEF Ordered
    <3>6. s \in Unannounced BY <3>1, <3>3, <3>5 DEF Unannounced
    <3> QED BY <1>o, <3>1, <3>2, <3>4, <3>6 DEF Ordered
  <2> QED BY <2>1, <2>2, <2>3
<1>2. CASE ~Drain(x)
  <2>1. call[x].pc \in Draining /\ (call[x].pc = "draining" =>
           call'[x].pc = "draining" \/ DeleteInner(x))
    <3>1. CASE DeletionStep(x)
      BY <1>2, <1>t, <3>1, DeletionMoves
      DEF DeletionStep, Moved, Draining, Marking, DeleteInner, ReadWatermark, PutTombstone
    <3>2. CASE Acquire(x) \/ Crash(x) BY <1>t, <3>2, DeletionMoves DEF Moved, Draining, Marking
    <3>3. CASE call'[x] = call[x] BY <3>3
    <3> QED BY <1>x, <1>t, <3>1, <3>2, <3>3, CallChanges
  <2>2. /\ Drained(x) /\ \A b \in Checkpoint : ~Hot(b)
        /\ Unannounced = {}
    BY <1>k, <1>t, <2>1, DrainedIs DEF RegisterInv
  <2>3. ASSUME NEW b \in Checkpoint, Hot(b)' PROVE FALSE BY <1>k, <1>x, <2>2, <2>3, NobodyHot
  <2>4. ASSUME NEW s \in Unannounced' PROVE FALSE
    <3>1. s \in Snapshot /\ wal'[s].status = "Committed" /\ s > meta'.latest
      BY <2>4 DEF Unannounced
    <3>2. meta.latest <= meta'.latest BY ShapeStep DEF Step, Shape, Grows
    <3>3. wal'[s] = wal[s]
      <4>1. ASSUME NEW c \in Checkpoint, Prepares(c, s) PROVE FALSE
        <5>1. wal'[s].status = "Prepared" BY <4>1 DEF Prepares
        <5> QED BY <3>1, <5>1
      <4>2. ~(\E c \in Checkpoint : Commits(c, s)) BY <2>2, CommitsHot
      <4> QED BY <3>1, <4>1, <4>2, WalIs
    <3>4. s \in Nat BY <3>1, SnapshotIsNat
    <3>5. s > meta.latest BY <1>o, <3>1, <3>2, <3>4 DEF Ordered
    <3>6. s \in Unannounced BY <3>1, <3>3, <3>5 DEF Unannounced
    <3> QED BY <2>2, <3>6
  <2>5. ASSUME call'[x].pc # "draining"
        PROVE  meta'.latest <= flushed' /\ inner'.thread = 0 /\ inner'.messages = 0
    <3>1. CASE DeleteInner(x)
      <4>1. meta.latest <= flushed /\ UNCHANGED <<meta, flushed>>
            /\ inner' = [inner EXCEPT !.thread = 0, !.messages = 0]
        BY <3>1 DEF DeleteInner, bucketVars
      <4> QED BY <1>i, <4>1
    <3>2. CASE ~DeleteInner(x)
      <4>1. Newest <= flushed /\ Newest = meta.latest /\ inner.thread = 0 /\ inner.messages = 0
        BY <2>1, <2>2, <2>5, <3>2 DEF Drained
      <4>2. flushed <= flushed' BY ShapeStep DEF Step, Shape, Grows
      <4>3. meta'.latest <= flushed'
        <5>1. ASSUME NEW y \in Deletion, PutTombstone(y) PROVE meta'.latest = flushed'
          BY <5>1, TombstoneIs
        <5>2. \A s : WasCommitted(s) => s \in Nat /\ s <= Newest BY <1>o DEF Ordered
        <5>3. flushed' \in Nat /\ flushed \in Nat /\ Newest \in Nat /\ meta.latest \in Nat
          BY <1>o DEF Ordered
        <5> QED BY <4>1, <4>2, <5>1, <5>2, <5>3, LatestIs
      <4>4. inner'.thread = 0 /\ inner'.messages = 0
        <5>1. ASSUME NEW y \in Deletion, DeleteInner(y)
              PROVE  inner'.thread = 0 /\ inner'.messages = 0
          BY <1>i, <5>1 DEF DeleteInner
        <5>2. ~WritesAhead BY <1>o, <4>1 DEF WritesAhead, Ordered
        <5> QED BY <1>f, <4>1, <5>1, <5>2, InnerMoves DEF InnerSame
      <4> QED BY <4>3, <4>4
    <3> QED BY <3>1, <3>2
  <2> QED BY <2>2, <2>3, <2>4, <2>5
<1> QED BY <1>1, <1>2

LEMMA RegisterInvStep ==
    ASSUME WalIInv, FlushInv, Step, WalIInv'
    PROVE  RegisterInv'
<1>1. ASSUME NEW c \in Checkpoint, Hot(c)'
      PROVE  call'[c].basis = Overlay' /\ Newest' < call'[c].seq
  BY <1>1, HotStep
<1>2. ASSUME NEW c \in Checkpoint, NEW b \in Checkpoint, Hot(c)', Hot(b)' PROVE c = b
  BY <1>2, OneHotStep
<1>3. ASSUME NEW c \in Checkpoint, call'[c].pc \in Ready, claim'.token = c
      PROVE  /\ \A b \in Checkpoint : ~Hot(b)'
             /\ call'[c].basis = Overlay'
             /\ call'[c].pc \in {"reserved", "prepared"} => Newest' < call'[c].seq
  BY <1>3, ReadyStep
<1>4. ASSUME NEW x \in Deletion, call'[x].pc \in Draining, claim'.token = x
      PROVE  /\ \A b \in Checkpoint : ~Hot(b)'
             /\ Unannounced' = {}
             /\ call'[x].pc # "draining" =>
                   meta'.latest <= flushed' /\ inner'.thread = 0 /\ inner'.messages = 0
  BY <1>4, DrainStep
<1> QED BY <1>1, <1>2, <1>3, <1>4 DEF RegisterInv

-----------------------------------------------------------------------------
(* The invariants, as long as no flush claim has lapsed.                    *)

LEMMA OneFlushInit == WalInit => OneFlush
<1> SUFFICES ASSUME WalInit PROVE FlushInv BY DEF OneFlush
<1>w. WalIInv BY WalIInvInit
<1>1. \A f \in Flusher : flusher[f].pc = "idle"
  <2>1. \A f \in Flusher : flusher[f] = Idle BY DEF WalInit
  <2> QED BY <2>1 DEF Idle
<1>2. \A c \in Call : call[c].pc = "idle"
  <2>1. \A c \in Call : call[c] = [pc |-> "idle", seq |-> 0, js |-> 0, basis |-> 0]
    BY DEF WalInit
  <2> QED BY <2>1
<1>3. FlushOne /\ \A f \in Flusher : FlushSees(f) /\ FlushWrote(f)
  BY <1>1 DEF FlushOne, FlushSees, FlushWrote, Writing
<1>4. Whole BY DEF WalInit, Whole
<1>5. RegisterInv BY <1>2 DEF RegisterInv, Hot, Ready, Draining, Marking, Undecided, Call
<1> QED BY <1>3, <1>4, <1>5 DEF FlushInv

LEMMA LapsesGrow ==
    ASSUME WalIInv, Step, Unlapsed
    PROVE  lapses.flush = 0
<1>t. lapses \in [call : Nat, flush : Nat] BY DEF WalIInv, Types
<1>1. CASE Lapse
  <2>1. lapses' = lapses \/ lapses' = [lapses EXCEPT !.call = @ + 1] BY <1>1 DEF Lapse
  <2> QED BY <1>t, <2>1 DEF Unlapsed
<1>2. CASE FlushLapse
  <2>1. lapses' = lapses \/ lapses' = [lapses EXCEPT !.flush = @ + 1] BY <1>2 DEF FlushLapse
  <2> QED BY <1>t, <2>1 DEF Unlapsed
<1> QED BY <1>1, <1>2, FlusherChanges DEF Unlapsed

LEMMA OneFlushStep ==
    ASSUME WalIInv, OneFlush, Step, WalIInv'
    PROVE  OneFlush'
<1> SUFFICES ASSUME Unlapsed PROVE FlushInv' BY DEF OneFlush, Unlapsed
<1>1. FlushInv BY LapsesGrow DEF OneFlush
<1>2. FlushOne' BY <1>1, FlushOneStep DEF FlushInv
<1>3. Types' BY DEF WalIInv
<1>4. \A f \in Flusher : FlushSees(f)' /\ FlushWrote(f)'
  BY <1>1, <1>3, FlushSeesStep, FlushWroteStep
<1>5. Whole' /\ RegisterInv' BY <1>1, WholeStep, RegisterInvStep
<1> QED BY <1>2, <1>4, <1>5 DEF FlushInv

\* What holds until a flush claim lapses under its flusher.
THEOREM OneFlushHolds == ASSUME NoLapseMarking PROVE WalSpec => []OneFlush
<1>1. WalIInv /\ WalIInv' /\ OneFlush /\ [WalNext]_walVars => OneFlush'
  BY OneFlushStep DEF Step
<1> QED BY <1>1, OneFlushInit, WalIInvHolds, PTL DEF WalSpec

LEMMA BasisHolds == ASSUME NoLapseMarking PROVE WalSpec => []BasisInv
<1>1. WalIInv /\ WalIInv' /\ BasisInv /\ [WalNext]_walVars => BasisInv'
  BY BasisStep DEF Step
<1> QED BY <1>1, BasisInit, WalIInvHolds, PTL DEF WalSpec

LEMMA WholeFollows == WalIInv /\ OneFlush => (lapses.flush = 0 => FlushedIsWhole)
<1> SUFFICES ASSUME WalIInv, OneFlush, lapses.flush = 0, Unannounced = {}, meta.latest <= flushed
             PROVE  inner.thread = inner.messages
  BY DEF FlushedIsWhole
<1>1. Newest = meta.latest BY OrderedIs DEF Ordered
<1> QED BY <1>1 DEF OneFlush, FlushInv, Whole

\* FlushedIsWhole: as long as no flush claim has lapsed under its flusher, the
\* inner store is that of one checkpoint whenever reads go to it.
THEOREM FlushedIsWholeHolds ==
    ASSUME NoLapseMarking PROVE WalSpec => [](lapses.flush = 0 => FlushedIsWhole)
BY WalIInvHolds, OneFlushHolds, WholeFollows, PTL

-----------------------------------------------------------------------------
(* ThreadWal implements CheckpointRegister.                                 *)

LEMMA RegisterInit == WalInit => Register!Init
<1> SUFFICES ASSUME WalInit PROVE Register!Init OBVIOUS
<1>1. WasCommitted(Overlay) BY WalIInvInit, OrderedIs DEF Ordered
<1>2. committed = {} BY DEF WalInit
<1>3. Overlay = 0 BY <1>1, <1>2 DEF WasCommitted
<1> QED BY <1>3 DEF WalInit, Register!Init

\* An append prepares, a commit commits, the deletion of the inner thread deletes.
LEMMA RegisterStep ==
    ASSUME WalIInv, FlushInv, BasisInv, Step, WalIInv'
    PROVE  [Register!Next]_<<Overlay, basis>>
<1>t. Types /\ SeqInv /\ RegisterInv BY DEF WalIInv, FlushInv
<1>1. ASSUME NEW c \in Checkpoint, Publish(c) PROVE Register!Next
  <2>1. basis' = [basis EXCEPT ![call[c].seq] = call[c].basis] /\ Publishes(c)
    BY <1>1 DEF Publish, Publishes
  <2>2. call[c] \in CallRecord BY <1>t DEF Types, Call
  <2>3. call[c].seq \in Snapshot /\ call[c].basis \in {0} \cup Snapshot
    BY <1>t, <2>1, <2>2 DEF CallRecord, SeqInv, Publishes
  <2>4. basis[call[c].seq] = Unread BY <1>t, <2>1, <2>3 DEF SeqInv, BasisInv
  <2>5. call[c].basis < call[c].seq BY <2>1 DEF BasisInv, Publishes
  <2>6. Overlay' = Overlay
    <3>1. call[c].pc = "publishing" /\ call'[c].pc = "published"
      BY <1>1, <1>t, CheckpointMoves DEF Moved, Publish
    <3>2. c \in Call /\ c \notin Deletion BY WalAssumption DEF Call
    <3>3. ASSUME NEW b \in Checkpoint, NEW n, Commits(b, n) PROVE FALSE
      BY <3>1, <3>2, <3>3 DEF Commits, Moved
    <3>4. ASSUME NEW x \in Deletion, DeleteInner(x) PROVE FALSE
      <4>1. Moved(x, "deleted", call[x].seq, call[x].js, call[x].basis)
        BY <1>t, <3>4, DeletionMoves
      <4> QED BY <3>1, <3>2, <4>1 DEF Moved
    <3> QED BY <3>3, <3>4, OverlayMoves DEF OverlayMoved
  <2>7. Register!Prepare(call[c].seq) BY <2>1, <2>3, <2>4, <2>5, <2>6 DEF Register!Prepare
  <2> QED BY <2>3, <2>7 DEF Register!Next
<1>2. ASSUME NEW c \in Checkpoint, NEW n \in Snapshot, Commits(c, n), Hot(c), Overlay' = n
      PROVE  Register!Next
  <2>1. n = call[c].seq /\ call[c].pc \in Undecided
    BY <1>2 DEF Commits, MarkCommitted, Undecided
  <2>2. call[c].basis = Overlay /\ Newest < n BY <1>2, <1>t, <2>1 DEF RegisterInv
  <2>3. basis[n] = Overlay BY <2>1, <2>2 DEF BasisInv
  <2>4. Overlay < n BY <1>2, <2>2, CommitNewest
  <2>5. basis' = basis BY <1>2 DEF Commits, MarkCommitted
  <2>6. Register!Commit(n) BY <1>2, <2>3, <2>4, <2>5 DEF Register!Commit
  <2> QED BY <2>6 DEF Register!Next
<1>3. ASSUME NEW x \in Deletion, DeleteInner(x), Overlay' = 0 PROVE Register!Next
  <2>1. basis' = basis BY <1>3 DEF DeleteInner, historyVars
  <2>2. Register!Delete BY <1>3, <2>1 DEF Register!Delete
  <2> QED BY <2>2 DEF Register!Next
<1>4. CASE UNCHANGED <<stream, basis>>
  BY <1>2, <1>3, <1>4, OverlayMoves DEF OverlayMoved
<1> QED BY <1>1, <1>4, StreamChanges

\* With MaxFlushLapses = 0 no flush claim lapses under its flusher.
NoneLapsed == lapses.flush = 0

LEMMA NeverLapses == ASSUME MaxFlushLapses = 0 PROVE
    /\ WalInit => NoneLapsed
    /\ WalIInv /\ NoneLapsed /\ [WalNext]_walVars => NoneLapsed'
<1>1. WalInit => lapses.flush = 0 BY DEF WalInit
<1>2. ASSUME WalIInv, lapses.flush = 0, Step PROVE lapses'.flush = 0
  <2>t. lapses \in [call : Nat, flush : Nat] BY <1>2 DEF WalIInv, Types
  <2>1. CASE Lapse
    <3>1. lapses' = lapses \/ lapses' = [lapses EXCEPT !.call = @ + 1] BY <2>1 DEF Lapse
    <3> QED BY <1>2, <2>t, <3>1
  <2>2. CASE FlushLapse BY <1>2, <2>2 DEF FlushLapse
  <2> QED BY <1>2, <2>1, <2>2, FlusherChanges
<1> QED BY <1>1, <1>2 DEF Step, NoneLapsed

\* ImplementsRegister: when no flush claim lapses under its flusher, a read finds
\* what an atomic register holds: whoever commits has seen what it replaces.
THEOREM ImplementsRegisterHolds ==
    ASSUME NoLapseMarking, MaxFlushLapses = 0 PROVE WalSpec => ImplementsRegister
<1>1. WalInit => Register!Init BY RegisterInit
<1>2. WalIInv /\ WalIInv' /\ OneFlush /\ BasisInv /\ NoneLapsed /\ [WalNext]_walVars
         => [Register!Next]_<<Overlay, basis>>
  BY RegisterStep DEF OneFlush, Step, NoneLapsed
<1>3. WalSpec => []NoneLapsed
  <2>1. WalInit => NoneLapsed BY NeverLapses
  <2>2. WalIInv /\ NoneLapsed /\ [WalNext]_walVars => NoneLapsed' BY NeverLapses
  <2> QED BY <2>1, <2>2, WalIInvHolds, PTL DEF WalSpec
<1> QED BY <1>1, <1>2, <1>3, WalIInvHolds, OneFlushHolds, BasisHolds, PTL
        DEF WalSpec, ImplementsRegister, Register!Spec
=============================================================================
