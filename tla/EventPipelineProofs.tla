------------------------ MODULE EventPipelineProofs ------------------------
(***************************************************************************)
(* Proofs about EventPipeline, for any relays, batch sizes, attempts and   *)
(* bounds, whichever faults may happen.                                    *)
(*                                                                         *)
(* The inductive invariant says, part by part: of the run, that the drafts *)
(* it has not committed are the last events emitted, none missing; of the  *)
(* log, that it has the first events of each run, in their order; of the   *)
(* replay log, that the rows of an event are the first rows that one       *)
(* encoder makes of it; of a relay, what its encoder has met and which     *)
(* rows it has seen stored; of a claim, that it is held at one place, and  *)
(* without a fault by one relay; of a message, that it is delivered only   *)
(* when all its rows are stored, and that each of its attempts but the one *)
(* under way is paid for, by a fault or by a row that another relay stored *)
(* first, each time a later one.                                           *)
(***************************************************************************)
EXTENDS EventPipeline, FiniteSetTheorems, SequenceTheorems, WellFoundedInduction, TLAPS

LiveEvent == [kind : Kind, run : 1 .. MaxRuns]
RunRecord ==
    [pc : {"idle", "start", "step", "resumed", "stepped", "suspend", "waiting", "read", "drain",
           "commit", "clear", "stepEnd", "finish", "ended", "failed"},
     id : 0 .. MaxRuns, expected : Nat, tries : Nat, then : {"stepEnd", "finish", "waiting"}]

Encoder == [open : BOOLEAN, count : Nat, finished : BOOLEAN]
SmallEncoder == [open : BOOLEAN, count : 0 .. MaxLive, finished : BOOLEAN]
Content == ({"TextStart", "TextDelta", "TextEnd"} \cup Kind) \X Nat
ReplayRow == [event : Nat, index : Nat, content : Content]
OutboxMessage ==
    [status : {"Pending", "Claimed", "Delivered", "DeadLetter"}, attempts : Nat,
     lease : {"none", "live", "expired"}, late : BOOLEAN, due : BOOLEAN]
DraftTable == UNION {[D -> Seq(Content)] : D \in SUBSET (1 .. MaxLive)}
BatchEntry == [message : Nat, token : Nat]
RelayRecord ==
    [at : {"idle", "load", "append", "insert", "ack", "nack"}, batch : Seq(BatchEntry), row : Nat,
     encoder : Encoder, drafts : DraftTable, stored : SUBSET Nat]

----------------------------------------------------------------------------
(* The invariant.                                                           *)

TypeInv ==
    /\ live \in Seq(LiveEvent) /\ Len(live) <= MaxLive
    /\ run \in RunRecord
    /\ buffer \in Seq(Nat) /\ pending \in Seq(Nat)
    /\ version \in Nat /\ faults \in 0 .. MaxFaults
    /\ log \in Seq(Nat)
    /\ outbox \in Seq(OutboxMessage) /\ Len(outbox) = Len(log)
    /\ replay \in Seq(ReplayRow)
    /\ relays \in [Relay -> RelayRecord]
    /\ covered \subseteq DOMAIN live
    /\ straight \in BOOLEAN /\ swallowed \subseteq Nat /\ raced \subseteq Nat

\* The log has the events in their order, and of each run the first ones.
LogInv ==
    /\ \A n \in DOMAIN log : n <= log[n] /\ log[n] <= Len(live)
    /\ \A m, n \in DOMAIN log : m < n => log[m] < log[n]
    /\ \A n \in DOMAIN log : \A i \in 1 .. log[n] :
          live[i].run = live[log[n]].run => i \in ToSet(log)
    /\ covered \subseteq ToSet(log)
    /\ \A i \in DOMAIN live : live[i].run <= run.id

\* The events that were emitted before those the run still holds.
Held0 == Len(live) - Len(pending) - Len(buffer)

\* What the run holds are the last events, all of them its own, and what else
\* it has emitted is in the log.
RunInv ==
    /\ \A k \in DOMAIN buffer : 0 < buffer[k] /\ buffer[k] <= Len(live)
    /\ \A k \in DOMAIN pending : 0 < pending[k] /\ pending[k] <= Len(live)
    /\ run.pc \notin {"idle", "failed", "clear"} =>
          /\ Held0 \in Nat
          /\ \A k \in DOMAIN pending : pending[k] = Held0 + k
          /\ \A k \in DOMAIN buffer : buffer[k] = Held0 + Len(pending) + k
          /\ \A i \in DOMAIN live :
                IF i > Held0 THEN live[i].run = run.id
                ELSE live[i].run = run.id => i \in ToSet(log)
          /\ \A n \in DOMAIN log : log[n] <= Held0
    /\ run.pc \in {"commit", "clear"} => buffer = <<>>
    /\ run.pc = "clear" => \A i \in DOMAIN live : live[i].run = run.id => i \in ToSet(log)
    /\ run.pc # "idle" => run.id > 0

\* A row of an event is in the replay log.
IsStored(i, k, content) ==
    \E n \in DOMAIN replay : replay[n] = [event |-> i, index |-> k, content |-> content]

AllStored(i, rows) == \A k \in DOMAIN rows : IsStored(i, k, rows[k])

\* The rows that an encoder may make of an event.
MayBe(i, rows) == \E enc \in SmallEncoder : rows = Rows(enc, KindOf(i))

RowFits(row, rows) == row.index \in DOMAIN rows /\ row.content = rows[row.index]

\* The rows of an event are those that one encoder makes of it ...
MadeByOne(i) ==
    \E enc \in SmallEncoder : \A n \in RowsOf(i) : RowFits(replay[n], Rows(enc, KindOf(i)))

\* ... without a gap, once each.
NoGap(n) == \A k \in 1 .. replay[n].index - 1 : StoredRows(replay[n].event, k) # {}

ReplayInv ==
    /\ \A n \in DOMAIN replay : replay[n].event \in DOMAIN log /\ NoGap(n)
    /\ \A m, n \in DOMAIN replay :
          replay[m].event = replay[n].event /\ replay[m].index = replay[n].index => m = n
    /\ \A i \in DOMAIN log : MadeByOne(i)

HeadOf(x) == Head(x.batch).message

DraftsOK(x) ==
    /\ \A i \in DOMAIN x.drafts : i \in DOMAIN log /\ MayBe(i, x.drafts[i])
    /\ x.encoder.count <= Cardinality(DOMAIN x.drafts)
    /\ x.stored \subseteq DOMAIN x.drafts
    /\ \A i \in x.stored : AllStored(i, x.drafts[i])
    /\ \A i \in DOMAIN x.drafts : x.drafts[i] = <<>> => i \in swallowed

BatchOK(x) ==
    /\ x.at = "idle" <=> x.batch = <<>>
    /\ \A n \in DOMAIN x.batch : x.batch[n].message \in DOMAIN log
    /\ x.at \in {"append", "insert"} =>
          /\ HeadOf(x) \in DOMAIN x.drafts
          /\ 1 <= x.row /\ x.row <= Len(x.drafts[HeadOf(x)]) + 1
          /\ \A k \in 1 .. x.row - 1 : IsStored(HeadOf(x), k, x.drafts[HeadOf(x)][k])
          /\ x.at = "insert" => x.row <= Len(x.drafts[HeadOf(x)])
    /\ x.at = "ack" => HeadOf(x) \in x.stored

\* The encoder of a relay has met the first events of the log, in their order.
InOrder(x) ==
    \E k \in 0 .. Len(log) :
        /\ DOMAIN x.drafts = 1 .. k
        /\ x.encoder = EncoderAfter[k]
        /\ \A i \in 1 .. k : x.drafts[i] = Reference(i)

RelaysInv ==
    \A r \in Relay :
        /\ DraftsOK(relays[r]) /\ BatchOK(relays[r])
        /\ straight => InOrder(relays[r])

StraightRows ==
    straight => \A n \in DOMAIN replay : RowFits(replay[n], Reference(replay[n].event))

\* All rows of event i are in the replay log.
IsProjected(i) ==
    /\ straight => AllStored(i, Reference(i))
    /\ i \notin swallowed =>
          \E enc \in SmallEncoder : Rows(enc, KindOf(i)) # <<>> /\ AllStored(i, Rows(enc, KindOf(i)))

MessageOK(i, m) ==
    /\ m.status = "Claimed" <=> m.lease # "none"
    /\ m.status = "Delivered" => IsProjected(i)

OutboxInv == \A i \in DOMAIN outbox : MessageOK(i, outbox[i])

\* Each claim has its token, which is one of the attempts made so far.
ClaimsInv ==
    /\ \A r \in Relay : \A n \in DOMAIN relays[r].batch :
          relays[r].batch[n].token <= outbox[relays[r].batch[n].message].attempts
    /\ \A r, s \in Relay :
          \A m \in DOMAIN relays[r].batch : \A n \in DOMAIN relays[s].batch :
             relays[r].batch[m] = relays[s].batch[n] => r = s /\ m = n

\* A row of i that another relay may have stored first.
WasRaced(i, k) == i \in raced /\ StoredRows(i, k) # {}

\* A number of attempts of i is paid for, by faults and by rows below this one.
PaidBelow(i, row, attempts) ==
    \E k \in Nat : k < row /\ (k = 0 \/ WasRaced(i, k)) /\ attempts <= faults + k

IsPaid(i, attempts) == \E row \in Nat : PaidBelow(i, row, attempts)

\* A relay works on a claim of i, and has not failed at it; if it is about to
\* insert a row, the attempts before this one are paid for by rows before it.
WorksOn(x, i, token) ==
    \E n \in DOMAIN x.batch :
        /\ x.batch[n] = [message |-> i, token |-> token]
        /\ ~(x.at = "nack" /\ n = 1)
        /\ x.at = "insert" /\ n = 1 => PaidBelow(i, x.row, token - 1)

\* Every attempt but the one under way is paid for.
AttemptOK(i, m) ==
    /\ m.status # "Delivered" => IsPaid(i, m.attempts - 1)
    /\ m.status # "Delivered" /\ ~IsPaid(i, m.attempts) =>
          /\ m.lease = "live"
          /\ \E r \in Relay : WorksOn(relays[r], i, m.attempts)
    /\ m.status = "DeadLetter" => IsPaid(i, MaxAttempts)

AttemptsInv == straight => \A i \in DOMAIN outbox : AttemptOK(i, outbox[i])

\* Without a fault each claim that a relay holds is the one of its message, and
\* nobody else inserts the row that it has not found.
IsSole(x) ==
    /\ \A n \in DOMAIN x.batch :
          /\ outbox[x.batch[n].message].lease = "live"
          /\ outbox[x.batch[n].message].attempts = x.batch[n].token
    /\ x.at = "insert" => StoredRows(HeadOf(x), x.row) = {}

SoleInv == faults = 0 => raced = {} /\ \A r \in Relay : IsSole(relays[r])

PipelineIInv ==
    TypeInv /\ LogInv /\ RunInv /\ ReplayInv /\ RelaysInv /\ StraightRows /\ OutboxInv
        /\ ClaimsInv /\ AttemptsInv /\ SoleInv

----------------------------------------------------------------------------
(* The encoder.                                                             *)

LEMMA Bounds ==
    /\ BatchLimit \in Nat /\ BatchLimit > 0 /\ MaxAttempts \in Nat /\ MaxAttempts > 0
    /\ MaxAppends \in Nat /\ MaxLive \in Nat /\ MaxRuns \in Nat /\ MaxFaults \in Nat
    /\ \A f \in 0 .. MaxFaults : Room[f] \in Nat /\ Room[f] <= MaxLive
BY PipelineAssumption DEF PipelineAssumption

\* A set of numbers that has a member has a least one.
LEMMA LeastOf ==
    ASSUME NEW S \in SUBSET Nat, S # {}
    PROVE  \E k \in S : \A n \in Nat : n < k => n \notin S
<1>1. PICK k \in S : \A n \in S : ~(<<n, k>> \in OpToRel(<, Nat))
  BY NatLessThanWellFounded, WFMin
<1>2. ASSUME NEW n \in Nat, n < k, n \in S
      PROVE  FALSE
  <2>1. <<n, k>> \in OpToRel(<, Nat)
    BY <1>2 DEF OpToRel
  <2> QED BY <2>1, <1>1, <1>2
<1> QED BY <1>2

\* The recursion of EncoderAfter, over the events e and the log l.
Encodes(e, l, f, i) == IF i = 0 THEN NewEncoder ELSE EncoderNext(f[i - 1], e[l[i]].kind)

\* f gives the states of the encoder up to event n.
Obeys(f, e, l, n) == \A i \in 0 .. n : f[i] = Encodes(e, l, f, i)
SameKinds(e, l, d, m, n) == \A i \in 1 .. n : e[l[i]].kind = d[m[i]].kind
SameUpTo(f, g, n) == \A i \in 0 .. n : f[i] = g[i]

\* Encoders that have met the same events are in the same state.
LEMMA EncodersAgree ==
    ASSUME NEW e, NEW l, NEW f, NEW d, NEW m, NEW g, NEW n \in Nat,
           Obeys(f, e, l, n), Obeys(g, d, m, n), SameKinds(e, l, d, m, n)
    PROVE  SameUpTo(f, g, n)
<1> DEFINE Bad == {i \in 0 .. n : f[i] # g[i]}
<1> SUFFICES ASSUME Bad # {}
             PROVE  FALSE
  BY DEF SameUpTo
<1>1. PICK k \in Bad : \A i \in Nat : i < k => i \notin Bad
  <2>1. Bad \in SUBSET Nat
    OBVIOUS
  <2> HIDE DEF Bad
  <2> QED BY <2>1, LeastOf
<1>2. k \in 0 .. n /\ f[k] # g[k] /\ k \in Nat
  BY <1>1
<1>3. f[k] = Encodes(e, l, f, k) /\ g[k] = Encodes(d, m, g, k)
  BY <1>2 DEF Obeys
<1>4. k # 0
  BY <1>2, <1>3 DEF Encodes
<1>5. k - 1 \in 0 .. n /\ k - 1 \in Nat /\ k - 1 < k /\ k \in 1 .. n
  BY <1>2, <1>4
<1>6. f[k - 1] = g[k - 1]
  BY <1>1, <1>5
<1> QED BY <1>2, <1>3, <1>4, <1>5, <1>6 DEF Encodes, SameKinds

LEMMA EncodesUpTo ==
    ASSUME NEW e, NEW l, NEW n \in Nat
    PROVE  \E f : f = [i \in 0 .. n |-> Encodes(e, l, f, i)]
<1> DEFINE Part(m) == \E f : f = [i \in 0 .. m |-> Encodes(e, l, f, i)]
           Bad == {m \in Nat : ~Part(m)}
<1> SUFFICES ASSUME Bad # {}
             PROVE  FALSE
  OBVIOUS
<1>1. PICK k \in Bad : \A m \in Nat : m < k => m \notin Bad
  <2>1. Bad \in SUBSET Nat
    OBVIOUS
  <2> HIDE DEF Bad
  <2> QED BY <2>1, LeastOf
<1>2. k \in Nat /\ ~Part(k)
  BY <1>1
<1>3. CASE k = 0
  <2> DEFINE g == [i \in 0 .. 0 |-> NewEncoder]
  <2>1. g = [i \in 0 .. 0 |-> Encodes(e, l, g, i)]
    BY DEF Encodes
  <2> QED BY <2>1, <1>2, <1>3
<1>4. CASE k # 0
  <2>1. k - 1 \in Nat /\ k - 1 < k
    BY <1>2, <1>4
  <2>2. Part(k - 1)
    BY <2>1, <1>1
  <2>3. PICK f : f = [i \in 0 .. k - 1 |-> Encodes(e, l, f, i)]
    BY <2>2
  <2> DEFINE g == [i \in 0 .. k |-> IF i < k THEN f[i] ELSE Encodes(e, l, f, i)]
  <2>4. ASSUME NEW i \in 0 .. k
        PROVE  g[i] = Encodes(e, l, g, i)
    <3>1. g[i] = Encodes(e, l, f, i)
      <4>1. CASE i < k
        <5>1. i \in 0 .. k - 1
          BY <4>1, <2>1
        <5> QED BY <5>1, <4>1, <2>3
      <4>2. CASE ~(i < k)
        BY <4>2
      <4> QED BY <4>1, <4>2
    <3>2. i # 0 => g[i - 1] = f[i - 1]
      BY <2>1
    <3> HIDE DEF g
    <3> QED BY <3>1, <3>2 DEF Encodes
  <2>5. g = [i \in 0 .. k |-> Encodes(e, l, g, i)]
    <3>1. DOMAIN g = 0 .. k /\ g = [i \in DOMAIN g |-> g[i]]
      OBVIOUS
    <3> HIDE DEF g
    <3> QED BY <3>1, <2>4
  <2> HIDE DEF g
  <2> QED BY <2>5, <1>2
<1> QED BY <1>3, <1>4

LEMMA EncodesAll ==
    ASSUME NEW e, NEW l
    PROVE  \E f : f = [i \in Nat |-> Encodes(e, l, f, i)]
<1> DEFINE Part(n) == CHOOSE f : f = [i \in 0 .. n |-> Encodes(e, l, f, i)]
           F == [n \in Nat |-> Part(n)[n]]
<1>1. ASSUME NEW n \in Nat
      PROVE  Part(n) = [i \in 0 .. n |-> Encodes(e, l, Part(n), i)]
  BY EncodesUpTo
<1> HIDE DEF Part
<1>2. ASSUME NEW n \in Nat
      PROVE  F[n] = Encodes(e, l, F, n)
  <2>1. F[n] = Encodes(e, l, Part(n), n)
    BY <1>1
  <2>2. CASE n = 0
    BY <2>1, <2>2 DEF Encodes
  <2>3. CASE n # 0
    <3>1. n - 1 \in Nat /\ n - 1 \in 0 .. n - 1
      BY <2>3
    <3>2. Obeys(Part(n), e, l, n - 1)
      BY <1>1 DEF Obeys
    <3>3. Obeys(Part(n - 1), e, l, n - 1)
      BY <1>1, <3>1 DEF Obeys
    <3>4. SameKinds(e, l, e, l, n - 1)
      BY DEF SameKinds
    <3>5. SameUpTo(Part(n), Part(n - 1), n - 1)
      BY <3>1, <3>2, <3>3, <3>4, EncodersAgree
    <3>6. F[n - 1] = Part(n)[n - 1]
      BY <3>1, <3>5 DEF SameUpTo
    <3> HIDE DEF F
    <3> QED BY <2>1, <2>3, <3>6 DEF Encodes
  <2> QED BY <2>2, <2>3
<1>3. F = [n \in Nat |-> Encodes(e, l, F, n)]
  <2>1. F = [n \in Nat |-> F[n]]
    OBVIOUS
  <2> HIDE DEF F
  <2> QED BY <2>1, <1>2
<1> QED BY <1>3

After(e, l) == CHOOSE f : f = [i \in Nat |-> Encodes(e, l, f, i)]

LEMMA AfterUnfolds ==
    ASSUME NEW e, NEW l, NEW i \in Nat
    PROVE  After(e, l)[i] = Encodes(e, l, After(e, l), i)
<1>1. After(e, l) = [n \in Nat |-> Encodes(e, l, After(e, l), n)]
  BY EncodesAll DEF After
<1> QED BY <1>1

LEMMA EncoderIsAfter == EncoderAfter = After(live, log) /\ EncoderAfter' = After(live', log')
BY DEF EncoderAfter, After, Encodes, KindOf

LEMMA EncoderUnfolds ==
    ASSUME NEW i \in Nat
    PROVE  EncoderAfter[i] = IF i = 0 THEN NewEncoder
                             ELSE EncoderNext(EncoderAfter[i - 1], KindOf(i))
BY AfterUnfolds, EncoderIsAfter DEF Encodes, KindOf

\* What is appended to the log does not change what the encoder was before.
LEMMA EncoderKept ==
    ASSUME NEW n \in Nat, \A i \in 1 .. n : KindOf(i)' = KindOf(i)
    PROVE  \A i \in 0 .. n : EncoderAfter'[i] = EncoderAfter[i]
<1> DEFINE f == EncoderAfter'
           g == EncoderAfter
<1>1. SameKinds(live', log', live, log, n)
  BY DEF KindOf, SameKinds
<1>2. \A i \in 0 .. n : i \in Nat
  OBVIOUS
<1>3. Obeys(f, live', log', n)
  BY <1>2, AfterUnfolds, EncoderIsAfter DEF Obeys
<1>4. Obeys(g, live, log, n)
  BY <1>2, AfterUnfolds, EncoderIsAfter DEF Obeys
<1> HIDE DEF f, g
<1>5. SameUpTo(f, g, n)
  BY <1>1, <1>3, <1>4, EncodersAgree
<1> QED BY <1>5 DEF f, g, SameUpTo

LEMMA NewEncoderFacts ==
    NewEncoder \in Encoder /\ NewEncoder \in SmallEncoder /\ NewEncoder.count = 0
BY Bounds DEF NewEncoder, Encoder, SmallEncoder

LEMMA SmallIsEncoder == SmallEncoder \subseteq Encoder
BY Bounds DEF SmallEncoder, Encoder

LEMMA Joins ==
    ASSUME NEW a, NEW b
    PROVE  <<>> \o <<a>> = <<a>> /\ <<a>> \o <<b>> = <<a, b>>
<1> DEFINE S == {a, b}
<1>1. <<a>> \in Seq(S) /\ <<b>> \in Seq(S) /\ <<a, b>> \in Seq(S)
  OBVIOUS
<1>2. Len(<<a>>) = 1 /\ Len(<<b>>) = 1 /\ Len(<<a, b>>) = 2
  OBVIOUS
<1>3. <<a>>[1] = a /\ <<b>>[1] = b /\ <<a, b>>[1] = a /\ <<a, b>>[2] = b
  OBVIOUS
<1>4. <<>> \o <<a>> = <<a>>
  BY <1>1, ConcatEmptySeq
<1> HIDE DEF S
<1>5. /\ <<a>> \o <<b>> \in Seq(S) /\ Len(<<a>> \o <<b>>) = 2
      /\ \A i \in 1 .. 2 : (<<a>> \o <<b>>)[i] = IF i <= 1 THEN <<a>>[i] ELSE <<b>>[i - 1]
  BY <1>1, <1>2, ConcatProperties
<1>6. <<a>> \o <<b>> = <<a, b>>
  <2> DEFINE s == <<a>> \o <<b>>
             t == <<a, b>>
  <2>1. s \in Seq(S) /\ t \in Seq(S) /\ Len(s) = 2 /\ Len(t) = 2
    BY <1>1, <1>2, <1>5
  <2>2. s[1] = t[1] /\ s[2] = t[2]
    BY <1>3, <1>5
  <2> HIDE DEF s, t
  <2>3. \A i \in 1 .. 2 : s[i] = t[i]
    BY <2>2
  <2>4. s = t
    BY <2>1, <2>3, SeqEqual
  <2> QED BY <2>4 DEF s, t
<1> QED BY <1>4, <1>6

LEMMA OneOrTwo ==
    ASSUME NEW S, NEW a \in S, NEW b \in S
    PROVE  /\ <<a>> \in Seq(S) /\ Len(<<a>>) = 1 /\ <<a>>[1] = a
           /\ <<a, b>> \in Seq(S) /\ Len(<<a, b>>) = 2 /\ <<a, b>>[1] = a
           /\ <<a, b>>[2] = b
OBVIOUS

\* The rows of an event: none for an encoder that has met a RunFinish, or else
\* one or two.
LEMMA RowsCases ==
    ASSUME NEW enc \in Encoder, NEW kind \in Kind
    PROVE  /\ IsGuarded(enc, kind) => Rows(enc, kind) = <<>>
           /\ ~IsGuarded(enc, kind) =>
              /\ kind = "Text" /\ ~enc.open =>
                    Rows(enc, kind) = << <<"TextStart", enc.count>>, <<"TextDelta", enc.count>> >>
              /\ kind = "Text" /\ enc.open => Rows(enc, kind) = << <<"TextDelta", enc.count>> >>
              /\ Closes(kind) /\ enc.open =>
                    Rows(enc, kind) = << <<"TextEnd", enc.count>>, <<kind, 0>> >>
              /\ kind # "Text" /\ ~(Closes(kind) /\ enc.open) =>
                    Rows(enc, kind) = << <<kind, 0>> >>
<1> DEFINE start == <<"TextStart", enc.count>>
           delta == <<"TextDelta", enc.count>>
           end == <<"TextEnd", enc.count>>
           row == <<kind, 0>>
<1>1. kind = "Text" => ~Closes(kind)
  BY DEF Closes
<1>2. ~IsGuarded(enc, kind) /\ kind = "Text" =>
         Rows(enc, kind) = (IF ~enc.open THEN <<start>> ELSE <<>>) \o <<delta>>
  BY <1>1, Zenon DEF Rows
<1>3. ~IsGuarded(enc, kind) /\ kind # "Text" =>
         Rows(enc, kind) = (IF Closes(kind) /\ enc.open THEN <<end>> ELSE <<>>) \o <<row>>
  BY Zenon DEF Rows
<1>4. IsGuarded(enc, kind) => Rows(enc, kind) = <<>>
  BY Zenon DEF Rows
<1> HIDE DEF start, delta, end, row
<1>5. ~IsGuarded(enc, kind) =>
      /\ kind = "Text" /\ ~enc.open => Rows(enc, kind) = <<start, delta>>
      /\ kind = "Text" /\ enc.open => Rows(enc, kind) = <<delta>>
      /\ Closes(kind) /\ enc.open => Rows(enc, kind) = <<end, row>>
      /\ kind # "Text" /\ ~(Closes(kind) /\ enc.open) => Rows(enc, kind) = <<row>>
  BY <1>1, <1>2, <1>3, Joins, Zenon
<1> QED BY <1>4, <1>5 DEF start, delta, end, row

LEMMA RowsType ==
    ASSUME NEW enc \in Encoder, NEW kind \in Kind
    PROVE  /\ Rows(enc, kind) \in Seq(Content) /\ Len(Rows(enc, kind)) \in 0 .. 2
           /\ Rows(enc, kind) = <<>> <=> IsGuarded(enc, kind)
<1>1. enc.count \in Nat /\ 0 \in Nat
  BY DEF Encoder
<1>2. /\ <<"TextStart", enc.count>> \in Content /\ <<"TextDelta", enc.count>> \in Content
      /\ <<"TextEnd", enc.count>> \in Content /\ <<kind, 0>> \in Content
  BY <1>1 DEF Content
<1> DEFINE start == <<"TextStart", enc.count>>
           delta == <<"TextDelta", enc.count>>
           end == <<"TextEnd", enc.count>>
           row == <<kind, 0>>
<1>3. /\ ~IsGuarded(enc, kind) =>
            Rows(enc, kind) \in {<<start, delta>>, <<delta>>, <<end, row>>, <<row>>}
      /\ IsGuarded(enc, kind) => Rows(enc, kind) = <<>>
  BY RowsCases DEF Closes
<1>4. start \in Content /\ delta \in Content /\ end \in Content /\ row \in Content
  BY <1>2
<1> HIDE DEF start, delta, end, row
<1>5. /\ <<start, delta>> \in Seq(Content) /\ Len(<<start, delta>>) = 2
      /\ <<delta>> \in Seq(Content) /\ Len(<<delta>>) = 1
      /\ <<end, row>> \in Seq(Content) /\ Len(<<end, row>>) = 2
      /\ <<row>> \in Seq(Content) /\ Len(<<row>>) = 1
  BY <1>4, OneOrTwo
<1>6. Rows(enc, kind) \in Seq(Content)
  <2>1. <<>> \in Seq(Content)
    OBVIOUS
  <2> QED BY <2>1, <1>3, <1>5, Zenon
<1>7. ~IsGuarded(enc, kind) => Len(Rows(enc, kind)) = 1 \/ Len(Rows(enc, kind)) = 2
  BY <1>3, <1>5, Zenon
<1>8. IsGuarded(enc, kind) => Rows(enc, kind) = <<>> /\ Len(Rows(enc, kind)) = 0
  BY <1>3
<1>9. Rows(enc, kind) = <<>> => Len(Rows(enc, kind)) = 0
  OBVIOUS
<1> QED BY <1>6, <1>7, <1>8, <1>9

\* The first row of an event tells the others.
LEMMA FirstRowTells ==
    ASSUME NEW enc \in Encoder, NEW other \in Encoder, NEW kind \in Kind,
           ~IsGuarded(enc, kind), ~IsGuarded(other, kind),
           Rows(enc, kind)[1] = Rows(other, kind)[1]
    PROVE  Rows(enc, kind) = Rows(other, kind)
<1>1. enc.open \in BOOLEAN /\ other.open \in BOOLEAN
  BY DEF Encoder
<1>2. CASE kind = "Text"
  <2>1. enc.open = other.open /\ enc.count = other.count
    BY <1>1, <1>2, RowsCases
  <2> QED BY <1>1, <1>2, <2>1, RowsCases
<1>3. CASE kind = "Start"
  <2>1. kind # "Text" /\ ~Closes(kind)
    BY <1>3 DEF Closes
  <2> QED BY <2>1, RowsCases
<1>4. CASE kind # "Text" /\ kind # "Start"
  <2>1. kind # "TextEnd" /\ Closes(kind)
    BY <1>4 DEF Kind, Closes
  <2>2. enc.open = other.open
    BY <1>1, <1>4, <2>1, RowsCases
  <2>3. ASSUME enc.open
        PROVE  enc.count = other.count
    <3>1. <<"TextEnd", enc.count>> = <<"TextEnd", other.count>>
      <4> DEFINE a == <<"TextEnd", enc.count>>
                 b == <<"TextEnd", other.count>>
                 row == <<kind, 0>>
      <4>1. Rows(enc, kind) = <<a, row>> /\ Rows(other, kind) = <<b, row>>
        BY <2>1, <2>2, <2>3, RowsCases
      <4> HIDE DEF a, b, row
      <4>2. <<a, row>>[1] = a /\ <<b, row>>[1] = b
        OBVIOUS
      <4>3. a = b
        BY <4>1, <4>2
      <4> QED BY <4>3 DEF a, b
    <3> QED BY <3>1
  <2> QED BY <1>1, <1>4, <2>1, <2>2, <2>3, RowsCases
<1> QED BY <1>2, <1>3, <1>4

\* The blocks that an encoder has closed are not more than the events it met.
LEMMA EncoderNextType ==
    ASSUME NEW enc \in Encoder, NEW kind
    PROVE  EncoderNext(enc, kind) \in Encoder /\ EncoderNext(enc, kind).count <= enc.count + 1
<1>1. enc.open \in BOOLEAN /\ enc.count \in Nat
  BY DEF Encoder
<1>2. CASE IsGuarded(enc, kind)
  <2>1. EncoderNext(enc, kind) = enc
    BY <1>2 DEF EncoderNext
  <2> QED BY <2>1, <1>1
<1>3. CASE ~IsGuarded(enc, kind)
  <2> DEFINE open == kind = "Text" \/ (enc.open /\ ~Closes(kind))
             count == IF enc.open /\ Closes(kind) THEN enc.count + 1 ELSE enc.count
             finished == kind \in {"Suspend", "Finish"}
  <2>1. EncoderNext(enc, kind) = [open |-> open, count |-> count, finished |-> finished]
    BY <1>3, Zenon DEF EncoderNext
  <2>2. open \in BOOLEAN /\ finished \in BOOLEAN
    OBVIOUS
  <2>3. count \in Nat /\ count <= enc.count + 1
    BY <1>1
  <2> HIDE DEF open, count, finished
  <2> QED BY <2>1, <2>2, <2>3 DEF Encoder
<1> QED BY <1>2, <1>3

----------------------------------------------------------------------------
(* Facts about the parts of the state.                                      *)

LEMMA LogFacts ==
    ASSUME TypeInv, LogInv, NEW i \in DOMAIN log
    PROVE  /\ i \in Nat /\ i > 0 /\ DOMAIN log = 1 .. Len(log) /\ DOMAIN outbox = DOMAIN log
           /\ log[i] \in DOMAIN live /\ KindOf(i) \in Kind /\ i <= MaxLive
           /\ Len(log) <= Len(live) /\ Len(log) <= MaxLive
<1>1. /\ DOMAIN log = 1 .. Len(log) /\ Len(log) \in Nat /\ DOMAIN live = 1 .. Len(live)
      /\ Len(live) \in Nat /\ DOMAIN outbox = 1 .. Len(log)
  BY DEF TypeInv
<1>2. \A n \in DOMAIN log : log[n] \in Nat /\ n <= log[n] /\ log[n] <= Len(live) /\ n \in Nat
  BY <1>1 DEF TypeInv, LogInv
<1>3. Len(log) \in DOMAIN log
  BY <1>1
<1>7. Len(live) <= MaxLive
  BY DEF TypeInv
<1>4. Len(log) <= Len(live) /\ Len(live) <= MaxLive
  BY <1>1, <1>2, <1>3, <1>7
<1>5. log[i] \in DOMAIN live
  BY <1>1, <1>2
<1>6. KindOf(i) \in Kind
  <2>1. live[log[i]] \in LiveEvent
    BY <1>1, <1>5, ElementOfSeq DEF TypeInv
  <2> QED BY <2>1 DEF KindOf, LiveEvent
<1> QED BY <1>1, <1>2, <1>4, <1>5, <1>6, Bounds

LEMMA UpToMaxLive ==
    ASSUME NEW D \in SUBSET (1 .. MaxLive)
    PROVE  IsFiniteSet(D) /\ Cardinality(D) \in Nat /\ Cardinality(D) <= MaxLive
<1>1. IsFiniteSet(1 .. MaxLive) /\ Cardinality(1 .. MaxLive) = IF 1 > MaxLive THEN 0 ELSE MaxLive - 1 + 1
  BY FS_Interval, Bounds
<1>2. Cardinality(1 .. MaxLive) = MaxLive
  BY <1>1, Bounds
<1>3. IsFiniteSet(D) /\ Cardinality(D) <= Cardinality(1 .. MaxLive)
  BY <1>1, FS_Subset
<1> QED BY <1>2, <1>3, FS_CardinalityType

LEMMA RelayFacts ==
    ASSUME TypeInv, NEW r \in Relay
    PROVE  /\ relays[r] \in RelayRecord
           /\ relays[r].batch \in Seq(BatchEntry) /\ relays[r].row \in Nat
           /\ relays[r].encoder \in Encoder /\ relays[r].drafts \in DraftTable
           /\ relays[r].stored \subseteq Nat
BY DEF TypeInv, RelayRecord

\* A table of drafts is a function from events to sequences of rows.
LEMMA DraftFacts ==
    ASSUME NEW d \in DraftTable
    PROVE  /\ d \in [DOMAIN d -> Seq(Content)] /\ DOMAIN d \subseteq 1 .. MaxLive
           /\ IsFiniteSet(DOMAIN d) /\ Cardinality(DOMAIN d) \in Nat
<1>1. PICK D \in SUBSET (1 .. MaxLive) : d \in [D -> Seq(Content)]
  BY DEF DraftTable
<1>2. D = DOMAIN d
  BY <1>1
<1>3. IsFiniteSet(1 .. MaxLive)
  BY FS_Interval, Bounds
<1>4. IsFiniteSet(D)
  BY <1>1, <1>3, FS_Subset
<1> QED BY <1>1, <1>2, <1>4, FS_CardinalityType

\* e is the table d, with the rows of event i.
Extends(e, d, i, rows) == e = [j \in DOMAIN d \cup {i} |-> IF j = i THEN rows ELSE d[j]]

LEMMA ExtendedRows ==
    ASSUME NEW d, NEW i, NEW rows, NEW e, Extends(e, d, i, rows)
    PROVE  e[i] = rows /\ \A j \in DOMAIN d : j # i => e[j] = d[j]
BY DEF Extends

LEMMA ExtendedDomain ==
    ASSUME NEW d, NEW i, NEW rows, NEW e, Extends(e, d, i, rows)
    PROVE  DOMAIN e = DOMAIN d \cup {i}
BY DEF Extends

LEMMA ExtendedTable ==
    ASSUME NEW d, NEW i, NEW rows, NEW e, Extends(e, d, i, rows),
           d \in DraftTable, i \in 1 .. MaxLive, rows \in Seq(Content)
    PROVE  e \in DraftTable
<1>1. d \in [DOMAIN d -> Seq(Content)] /\ DOMAIN d \subseteq 1 .. MaxLive
  BY DraftFacts
<1>2. e = [j \in DOMAIN d \cup {i} |-> IF j = i THEN rows ELSE d[j]]
  BY DEF Extends
<1>3. e \in [DOMAIN d \cup {i} -> Seq(Content)] /\ DOMAIN d \cup {i} \in SUBSET (1 .. MaxLive)
  BY <1>1, <1>2
<1> QED BY <1>3 DEF DraftTable

\* What is stored stays: the log and the replay log only grow, and so does what
\* is noted of the events.
Grows ==
    /\ \A i \in DOMAIN log : i \in DOMAIN log' /\ KindOf(i)' = KindOf(i)
    /\ \A n \in DOMAIN replay : n \in DOMAIN replay' /\ replay'[n] = replay[n]
    /\ swallowed \subseteq swallowed' /\ raced \subseteq raced' /\ (straight' => straight)

LEMMA ReferenceKept ==
    ASSUME TypeInv, Len(log') \in Nat, DOMAIN log' = 1 .. Len(log'), Grows
    PROVE  /\ Len(log) <= Len(log') /\ Len(log) \in Nat /\ DOMAIN log = 1 .. Len(log)
           /\ \A k \in 0 .. Len(log) : EncoderAfter'[k] = EncoderAfter[k]
           /\ \A i \in DOMAIN log : Reference(i)' = Reference(i)
<1>1. DOMAIN log = 1 .. Len(log) /\ Len(log) \in Nat
  BY DEF TypeInv
<1>2. \A i \in 1 .. Len(log) : KindOf(i)' = KindOf(i) /\ i \in DOMAIN log'
  BY <1>1 DEF Grows
<1>3. \A k \in 0 .. Len(log) : EncoderAfter'[k] = EncoderAfter[k]
  BY <1>1, <1>2, EncoderKept
<1>4. ASSUME NEW i \in DOMAIN log
      PROVE  Reference(i)' = Reference(i)
  <2>1. i \in 1 .. Len(log) /\ i - 1 \in 0 .. Len(log)
    BY <1>1
  <2>2. EncoderAfter'[i - 1] = EncoderAfter[i - 1] /\ KindOf(i)' = KindOf(i)
    BY <1>2, <1>3, <2>1
  <2> QED BY <2>2 DEF Reference
<1>5. Len(log) <= Len(log')
  <2>1. CASE Len(log) = 0
    BY <2>1
  <2>2. CASE Len(log) # 0
    <3>1. Len(log) \in 1 .. Len(log)
      BY <1>1, <2>2
    <3> QED BY <3>1, <1>2
  <2> QED BY <2>1, <2>2
<1> QED BY <1>1, <1>3, <1>4, <1>5

LEMMA StoredStays ==
    ASSUME Grows, NEW i, NEW rows, AllStored(i, rows)
    PROVE  AllStored(i, rows)'
BY DEF Grows, AllStored, IsStored

LEMMA DraftsStand ==
    ASSUME Grows, NEW x \in RelayRecord, DraftsOK(x)
    PROVE  DraftsOK(x)'
<1>1. ASSUME NEW i \in DOMAIN x.drafts
      PROVE  i \in DOMAIN log' /\ MayBe(i, x.drafts[i])'
  <2>1. i \in DOMAIN log /\ MayBe(i, x.drafts[i])
    BY DEF DraftsOK
  <2> QED BY <2>1 DEF MayBe, Grows
<1>2. ASSUME NEW i \in x.stored
      PROVE  AllStored(i, x.drafts[i])'
  BY StoredStays DEF DraftsOK
<1>3. /\ x.encoder.count <= Cardinality(DOMAIN x.drafts)
      /\ x.stored \subseteq DOMAIN x.drafts
  BY DEF DraftsOK
<1>4. \A i \in DOMAIN x.drafts : x.drafts[i] = <<>> => i \in swallowed'
  BY DEF DraftsOK, Grows
<1> QED BY <1>1, <1>2, <1>3, <1>4 DEF DraftsOK

LEMMA BatchStands ==
    ASSUME Grows, NEW x \in RelayRecord, BatchOK(x)
    PROVE  BatchOK(x)'
<1>1. ASSUME NEW n \in DOMAIN x.batch
      PROVE  x.batch[n].message \in DOMAIN log'
  BY DEF BatchOK, Grows
<1>2. ASSUME x.at \in {"append", "insert"}
      PROVE  /\ HeadOf(x) \in DOMAIN x.drafts
             /\ 1 <= x.row /\ x.row <= Len(x.drafts[HeadOf(x)]) + 1
             /\ \A k \in 1 .. x.row - 1 : IsStored(HeadOf(x), k, x.drafts[HeadOf(x)][k])'
             /\ x.at = "insert" => x.row <= Len(x.drafts[HeadOf(x)])
  <2>1. ASSUME NEW k \in 1 .. x.row - 1
        PROVE  IsStored(HeadOf(x), k, x.drafts[HeadOf(x)][k])'
    <3>1. IsStored(HeadOf(x), k, x.drafts[HeadOf(x)][k])
      BY <1>2 DEF BatchOK
    <3> QED BY <3>1 DEF IsStored, Grows
  <2> QED BY <1>2, <2>1 DEF BatchOK
<1>3. (x.at = "idle" <=> x.batch = <<>>) /\ (x.at = "ack" => HeadOf(x) \in x.stored)
  BY DEF BatchOK
<1> QED BY <1>1, <1>2, <1>3 DEF BatchOK, HeadOf

LEMMA OrderStands ==
    ASSUME TypeInv, Len(log') \in Nat, DOMAIN log' = 1 .. Len(log'), Grows, NEW x,
           InOrder(x)
    PROVE  InOrder(x)'
<1>1. PICK k \in 0 .. Len(log) :
         /\ DOMAIN x.drafts = 1 .. k /\ x.encoder = EncoderAfter[k]
         /\ \A i \in 1 .. k : x.drafts[i] = Reference(i)
  BY DEF InOrder
<1>2. k \in 0 .. Len(log') /\ EncoderAfter'[k] = EncoderAfter[k]
  BY ReferenceKept
<1>3. ASSUME NEW i \in 1 .. k
      PROVE  x.drafts[i] = Reference(i)'
  <2>1. i \in DOMAIN log
    BY ReferenceKept
  <2> QED BY <2>1, <1>1, ReferenceKept
<1> QED BY <1>1, <1>2, <1>3 DEF InOrder

LEMMA ProjectedStays ==
    ASSUME TypeInv, Len(log') \in Nat, DOMAIN log' = 1 .. Len(log'), Grows,
           NEW i \in DOMAIN log, IsProjected(i)
    PROVE  IsProjected(i)'
<1>1. ASSUME straight'
      PROVE  AllStored(i, Reference(i))'
  <2> PICK rows : rows = Reference(i)
    OBVIOUS
  <2>1. AllStored(i, rows)
    BY <1>1 DEF IsProjected, Grows
  <2>2. Reference(i)' = rows
    BY ReferenceKept
  <2>3. AllStored(i, rows)'
    BY <2>1, StoredStays
  <2> QED BY <2>2, <2>3
<1>2. ASSUME i \notin swallowed'
      PROVE  (\E enc \in SmallEncoder :
                 Rows(enc, KindOf(i)) # <<>> /\ AllStored(i, Rows(enc, KindOf(i))))'
  <2>1. PICK enc \in SmallEncoder :
           Rows(enc, KindOf(i)) # <<>> /\ AllStored(i, Rows(enc, KindOf(i)))
    BY <1>2 DEF IsProjected, Grows
  <2>2. KindOf(i)' = KindOf(i)
    BY DEF Grows
  <2> PICK rows : rows = Rows(enc, KindOf(i))
    OBVIOUS
  <2>3. AllStored(i, rows)'
    BY <2>1, StoredStays
  <2>4. rows = Rows(enc, KindOf(i)')
    BY <2>2
  <2> QED BY <2>1, <2>3, <2>4
<1> QED BY <1>1, <1>2 DEF IsProjected

LEMMA MessageStands ==
    ASSUME TypeInv, Len(log') \in Nat, DOMAIN log' = 1 .. Len(log'), Grows,
           NEW i \in DOMAIN log, NEW m, MessageOK(i, m)
    PROVE  MessageOK(i, m)'
BY ProjectedStays DEF MessageOK

\* What is paid stays paid.
LEMMA PaidStays ==
    ASSUME Grows, faults \in Nat, faults' \in Nat, faults <= faults', NEW i,
           NEW attempts \in Int
    PROVE  /\ \A row : PaidBelow(i, row, attempts) => PaidBelow(i, row, attempts)'
           /\ IsPaid(i, attempts) => IsPaid(i, attempts)'
<1>1. ASSUME NEW k, WasRaced(i, k)
      PROVE  WasRaced(i, k)'
  BY <1>1 DEF WasRaced, Grows, StoredRows, RowsOf
<1>2. ASSUME NEW row, PaidBelow(i, row, attempts)
      PROVE  PaidBelow(i, row, attempts)'
  <2>1. PICK k \in Nat : k < row /\ (k = 0 \/ WasRaced(i, k)) /\ attempts <= faults + k
    BY <1>2 DEF PaidBelow
  <2>2. attempts <= faults + k /\ k \in Nat
    BY <2>1
  <2>3. \A a \in Int : \A f, g, c \in Nat : a <= f + c /\ f <= g => a <= g + c
    OBVIOUS
  <2>4. attempts <= faults' + k
    BY <2>2, <2>3, Zenon
  <2> QED BY <2>1, <2>4, <1>1 DEF PaidBelow
<1> QED BY <1>2 DEF IsPaid

LEMMA WorkStays ==
    ASSUME Grows, faults \in Nat, faults' \in Nat, faults <= faults', NEW x, NEW i,
           NEW token \in Nat, WorksOn(x, i, token)
    PROVE  WorksOn(x, i, token)'
<1>1. PICK n \in DOMAIN x.batch :
         /\ x.batch[n] = [message |-> i, token |-> token]
         /\ ~(x.at = "nack" /\ n = 1)
         /\ x.at = "insert" /\ n = 1 => PaidBelow(i, x.row, token - 1)
  BY DEF WorksOn
<1> PICK before : before = token - 1
  OBVIOUS
<1>2. PaidBelow(i, x.row, before) => PaidBelow(i, x.row, before)'
  <2>1. before \in Int
    OBVIOUS
  <2> QED BY <2>1, PaidStays
<1> QED BY <1>1, <1>2 DEF WorksOn

LEMMA AttemptStands ==
    ASSUME Grows, faults \in Nat, faults' \in Nat, faults <= faults', relays' = relays,
           NEW i, NEW m, m.attempts \in Nat, AttemptOK(i, m)
    PROVE  AttemptOK(i, m)'
<1>1. /\ IsPaid(i, m.attempts - 1) => IsPaid(i, m.attempts - 1)'
      /\ IsPaid(i, m.attempts) => IsPaid(i, m.attempts)'
      /\ IsPaid(i, MaxAttempts) => IsPaid(i, MaxAttempts)'
  BY PaidStays, Bounds
<1>2. \A r \in Relay : WorksOn(relays[r], i, m.attempts) => WorksOn(relays[r], i, m.attempts)'
  BY WorkStays
<1> QED BY <1>1, <1>2 DEF AttemptOK

\* The log is extended, or not; what concerns the replay log stays true.
LEMMA ReplayStands ==
    ASSUME PipelineIInv, log' \in Seq(Nat), Grows, replay' = replay
    PROVE  ReplayInv' /\ StraightRows'
<1>1. /\ Len(log') \in Nat /\ DOMAIN log' = 1 .. Len(log') /\ TypeInv /\ ReplayInv
      /\ \A i \in DOMAIN log : i \in DOMAIN log'
  BY DEF PipelineIInv, Grows
<1>2. \A i : RowsOf(i)' = RowsOf(i)
  BY DEF RowsOf
<1>3. \A i, k : StoredRows(i, k)' = StoredRows(i, k)
  BY DEF StoredRows, RowsOf
<1>4. ASSUME NEW n \in DOMAIN replay'
      PROVE  replay'[n].event \in DOMAIN log' /\ NoGap(n)'
  <2>1. replay[n].event \in DOMAIN log /\ NoGap(n)
    BY <1>1, <1>4 DEF ReplayInv
  <2> QED BY <2>1, <1>1, <1>3 DEF NoGap
<1>5. ASSUME NEW i \in DOMAIN log'
      PROVE  MadeByOne(i)'
  <2>1. CASE i \in DOMAIN log
    <3>1. MadeByOne(i) /\ KindOf(i)' = KindOf(i)
      BY <1>1, <2>1 DEF ReplayInv, Grows
    <3> QED BY <1>2, <3>1 DEF MadeByOne
  <2>2. CASE i \notin DOMAIN log
    <3>1. RowsOf(i) = {}
      BY <1>1, <2>2 DEF RowsOf, ReplayInv
    <3> QED BY <1>2, <3>1, NewEncoderFacts DEF MadeByOne
  <2> QED BY <2>1, <2>2
<1>6. ReplayInv'
  BY <1>1, <1>4, <1>5 DEF ReplayInv
<1>7. StraightRows'
  <2>1. ASSUME straight, NEW n \in DOMAIN replay
        PROVE  RowFits(replay[n], Reference(replay[n].event)')
    <3>1. replay[n].event \in DOMAIN log
      BY <1>1 DEF ReplayInv
    <3>2. Reference(replay[n].event)' = Reference(replay[n].event)
      <4> PICK i : i = replay[n].event
        OBVIOUS
      <4>1. Reference(i)' = Reference(i)
        BY <1>1, <3>1, ReferenceKept
      <4> QED BY <4>1
    <3> QED BY <2>1, <3>2 DEF PipelineIInv, StraightRows
  <2>2. straight' => straight
    BY DEF Grows
  <2> QED BY <2>1, <2>2 DEF StraightRows
<1> QED BY <1>6, <1>7

LEMMA RelaysStand ==
    ASSUME PipelineIInv, log' \in Seq(Nat), Grows, UNCHANGED <<relays, straight>>
    PROVE  RelaysInv'
<1>1. Len(log') \in Nat /\ DOMAIN log' = 1 .. Len(log') /\ TypeInv /\ RelaysInv
  BY DEF PipelineIInv
<1> SUFFICES ASSUME NEW r \in Relay
             PROVE  /\ DraftsOK(relays[r])' /\ BatchOK(relays[r])'
                    /\ straight' => InOrder(relays[r])'
  BY DEF RelaysInv
<1> PICK x : x = relays[r]
  OBVIOUS
<1>2. x \in RelayRecord /\ DraftsOK(x) /\ BatchOK(x) /\ (straight => InOrder(x))
  BY <1>1, RelayFacts DEF RelaysInv
<1>3. DraftsOK(x)' /\ BatchOK(x)' /\ (straight => InOrder(x)')
  BY <1>1, <1>2, DraftsStand, BatchStands, OrderStands
<1>4. relays'[r] = x
  OBVIOUS
<1> QED BY <1>3, <1>4

\* A step of the run: the log is extended, with a new message each.
LEMMA LogExtended ==
    ASSUME PipelineIInv, log' \in Seq(Nat), Grows, UNCHANGED <<replay, relays, straight, raced>>,
           outbox' \in Seq(OutboxMessage), Len(outbox') = Len(log'),
           \A i \in DOMAIN outbox : outbox'[i] = outbox[i],
           \A i \in DOMAIN outbox' : i \notin DOMAIN outbox => outbox'[i] = NewMessage,
           faults' \in Nat, faults <= faults'
    PROVE  /\ ReplayInv' /\ StraightRows' /\ RelaysInv' /\ OutboxInv' /\ ClaimsInv'
           /\ AttemptsInv' /\ SoleInv'
<1>1. /\ DOMAIN log' = 1 .. Len(log') /\ DOMAIN outbox' = DOMAIN log' /\ TypeInv
      /\ DOMAIN outbox = DOMAIN log /\ faults \in Nat
      /\ \A i \in DOMAIN log : i \in DOMAIN log'
  BY DEF PipelineIInv, Grows, TypeInv
<1>2. OutboxInv'
  <2> SUFFICES ASSUME NEW i \in DOMAIN outbox'
               PROVE  MessageOK(i, outbox[i])'
    BY DEF OutboxInv
  <2> PICK m : m = outbox'[i]
    OBVIOUS
  <2>1. CASE i \in DOMAIN outbox
    <3>1. MessageOK(i, m)
      BY <2>1 DEF PipelineIInv, OutboxInv
    <3> QED BY <1>1, <2>1, <3>1, MessageStands
  <2>2. CASE i \notin DOMAIN outbox
    <3>1. m.status = "Pending" /\ m.lease = "none"
      BY <2>2 DEF NewMessage
    <3> QED BY <3>1 DEF MessageOK
  <2> QED BY <2>1, <2>2
<1>3. ClaimsInv'
  <2>1. ASSUME NEW r \in Relay, NEW n \in DOMAIN relays[r].batch
        PROVE  relays[r].batch[n].token <= outbox'[relays[r].batch[n].message].attempts
    <3>1. relays[r].batch[n].message \in DOMAIN outbox
      BY <1>1 DEF PipelineIInv, RelaysInv, BatchOK
    <3> QED BY <3>1 DEF PipelineIInv, ClaimsInv
  <2> QED BY <2>1 DEF PipelineIInv, ClaimsInv
<1>4. AttemptsInv'
  <2> SUFFICES ASSUME straight, NEW i \in DOMAIN outbox'
               PROVE  AttemptOK(i, outbox[i])'
    BY DEF AttemptsInv
  <2> PICK m : m = outbox'[i]
    OBVIOUS
  <2>1. CASE i \in DOMAIN outbox
    <3>1. AttemptOK(i, m) /\ m.attempts \in Nat
      <4>1. m = outbox[i] /\ m \in OutboxMessage
        BY <2>1, <1>1 DEF TypeInv
      <4> QED BY <4>1, <2>1 DEF PipelineIInv, AttemptsInv, OutboxMessage
    <3> QED BY <1>1, <3>1, AttemptStands
  <2>2. CASE i \notin DOMAIN outbox
    <3>1. m.status = "Pending" /\ m.attempts = 0
      BY <2>2 DEF NewMessage
    <3>2. IsPaid(i, 0 - 1)' /\ IsPaid(i, 0)'
      <4>1. \A n \in Nat : 0 - 1 <= n + 0 /\ 0 <= n + 0
        OBVIOUS
      <4>2. 0 - 1 <= faults' + 0 /\ 0 <= faults' + 0
        BY <4>1
      <4>3. 0 \in Nat /\ 1 \in Nat /\ 0 < 1
        OBVIOUS
      <4> QED BY <4>2, <4>3 DEF IsPaid, PaidBelow
    <3> QED BY <3>1, <3>2 DEF AttemptOK
  <2> QED BY <2>1, <2>2
<1>5. SoleInv'
  <2>1. faults' = 0 => faults = 0 /\ raced' = {}
    BY <1>1 DEF PipelineIInv, SoleInv
  <2> SUFFICES ASSUME faults' = 0, NEW r \in Relay
               PROVE  IsSole(relays[r])'
    BY <2>1 DEF SoleInv
  <2>4. IsSole(relays[r])
    BY <2>1 DEF PipelineIInv, SoleInv
  <2>2. ASSUME NEW n \in DOMAIN relays[r].batch
        PROVE  outbox'[relays[r].batch[n].message] = outbox[relays[r].batch[n].message]
    BY <1>1 DEF PipelineIInv, RelaysInv, BatchOK
  <2>3. \A i, k : StoredRows(i, k)' = StoredRows(i, k)
    BY DEF StoredRows, RowsOf
  <2> QED BY <2>2, <2>3, <2>4 DEF IsSole, HeadOf
<1> QED BY <1>2, <1>3, <1>4, <1>5, ReplayStands, RelaysStand

----------------------------------------------------------------------------
(* The run.                                                                 *)

LEMMA RunFacts ==
    ASSUME TypeInv
    PROVE  /\ run.id \in Nat /\ run.id <= MaxRuns /\ run \in RunRecord
           /\ Len(live) \in Nat /\ DOMAIN live = 1 .. Len(live)
           /\ Len(log) \in Nat /\ DOMAIN log = 1 .. Len(log)
           /\ Len(buffer) \in Nat /\ DOMAIN buffer = 1 .. Len(buffer)
           /\ Len(pending) \in Nat /\ DOMAIN pending = 1 .. Len(pending)
           /\ faults \in Nat /\ faults <= MaxFaults /\ version \in Nat
           /\ \A i \in 1 .. Len(live) : live[i] \in LiveEvent
           /\ \A n \in 1 .. Len(log) : log[n] \in Nat
           /\ \A n \in 1 .. Len(buffer) : buffer[n] \in Nat
           /\ \A n \in 1 .. Len(pending) : pending[n] \in Nat
<1>1. run.id \in Nat /\ run.id <= MaxRuns /\ run \in RunRecord
  BY Bounds DEF TypeInv, RunRecord
<1>2. /\ live \in Seq(LiveEvent) /\ log \in Seq(Nat) /\ buffer \in Seq(Nat)
      /\ pending \in Seq(Nat) /\ faults \in Nat /\ faults <= MaxFaults /\ version \in Nat
  BY Bounds DEF TypeInv
<1>3. /\ Len(live) \in Nat /\ DOMAIN live = 1 .. Len(live)
      /\ Len(log) \in Nat /\ DOMAIN log = 1 .. Len(log)
      /\ Len(buffer) \in Nat /\ DOMAIN buffer = 1 .. Len(buffer)
      /\ Len(pending) \in Nat /\ DOMAIN pending = 1 .. Len(pending)
  BY <1>2
<1>4. /\ \A i \in 1 .. Len(live) : live[i] \in LiveEvent
      /\ \A n \in 1 .. Len(log) : log[n] \in Nat
      /\ \A n \in 1 .. Len(buffer) : buffer[n] \in Nat
      /\ \A n \in 1 .. Len(pending) : pending[n] \in Nat
  BY <1>2, ElementOfSeq
<1> QED BY <1>1, <1>2, <1>3, <1>4

\* A fault is counted, or none.
FaultsGrow == faults' \in Nat /\ faults <= faults' /\ faults' <= MaxFaults

LEMMA FaultCounts ==
    ASSUME TypeInv
    PROVE  /\ faults' = faults => FaultsGrow
           /\ \A kind : Fault(kind) => FaultsGrow /\ faults' = faults + 1
BY RunFacts, Bounds DEF Fault, FaultsGrow

\* Events are emitted, or not, and nothing is committed.
LEMMA LogStands ==
    ASSUME PipelineIInv, UNCHANGED <<log, outbox, replay, relays, straight, swallowed, raced>>,
           \A i \in DOMAIN live : i \in DOMAIN live' /\ live'[i] = live[i],
           FaultsGrow
    PROVE  /\ ReplayInv' /\ StraightRows' /\ RelaysInv' /\ OutboxInv' /\ ClaimsInv'
           /\ AttemptsInv' /\ SoleInv'
<1>1. /\ TypeInv /\ LogInv /\ log \in Seq(Nat) /\ outbox \in Seq(OutboxMessage)
      /\ Len(outbox) = Len(log)
  BY DEF PipelineIInv, TypeInv
<1>2. Grows
  <2>1. ASSUME NEW i \in DOMAIN log
        PROVE  KindOf(i)' = KindOf(i)
    <3>1. live'[log[i]] = live[log[i]] /\ log' = log
      BY <1>1, LogFacts
    <3> QED BY <3>1 DEF KindOf
  <2> QED BY <2>1 DEF Grows
<1> QED BY <1>1, <1>2, LogExtended DEF FaultsGrow

\* The parts of TypeInv that a step of the run does not touch.
LEMMA RunTypes ==
    ASSUME TypeInv, live' \in Seq(LiveEvent), Len(live') <= MaxLive, run' \in RunRecord,
           buffer' \in Seq(Nat), pending' \in Seq(Nat), version' \in Nat,
           FaultsGrow,
           log' \in Seq(Nat), outbox' \in Seq(OutboxMessage), Len(outbox') = Len(log'),
           covered' \subseteq DOMAIN live',
           UNCHANGED <<replay, relays, straight, swallowed, raced>>
    PROVE  TypeInv'
BY Bounds DEF TypeInv, FaultsGrow

\* The run goes on, and keeps what it holds.
LEMMA RunGoesOn ==
    ASSUME PipelineIInv, run' \in RunRecord, run'.id = run.id,
           run.pc \in {"step", "resumed", "stepped", "waiting", "read", "drain", "commit"},
           run'.pc \in {"read", "drain", "commit", "failed"},
           run'.pc = "commit" => run.pc = "commit",
           version' \in Nat, FaultsGrow,
           UNCHANGED <<live, buffer, pending, covered, log, outbox, replay, relays, straight, swallowed, raced>>
    PROVE  PipelineIInv'
<1>1. /\ ReplayInv' /\ StraightRows' /\ RelaysInv' /\ OutboxInv' /\ ClaimsInv'
      /\ AttemptsInv' /\ SoleInv'
  BY LogStands
<1>2. TypeInv /\ LogInv /\ RunInv
  BY DEF PipelineIInv
<1>3. TypeInv'
  <2> QED BY <1>2, RunTypes DEF TypeInv
<1>4. LogInv'
  BY <1>2 DEF LogInv
<1>5. RunInv'
  <2>1. Held0' = Held0
    BY DEF Held0
  <2> QED BY <1>2, <2>1 DEF RunInv
<1> QED BY <1>1, <1>3, <1>4, <1>5 DEF PipelineIInv

LEMMA RunBeginsKeeps == ASSUME PipelineIInv, RunBegins PROVE PipelineIInv'
<1>1. /\ run' = [pc |-> "start", id |-> run.id + 1, expected |-> 0, tries |-> 0,
                 then |-> "stepEnd"]
      /\ run.id < MaxRuns /\ buffer' = <<>> /\ pending' = <<>>
      /\ UNCHANGED <<live, version, log, outbox, replay, relays, covered, straight, swallowed,
                     raced, faults>>
  BY DEF RunBegins, notes
<1>2. TypeInv /\ LogInv /\ RunInv /\ FaultsGrow
  BY <1>1, FaultCounts DEF PipelineIInv
<1>3. /\ ReplayInv' /\ StraightRows' /\ RelaysInv' /\ OutboxInv' /\ ClaimsInv'
      /\ AttemptsInv' /\ SoleInv'
  BY <1>1, <1>2, LogStands
<1>4. run'.pc = "start" /\ run'.id = run.id + 1 /\ run'.id \in 0 .. MaxRuns
  BY <1>1, <1>2, RunFacts, Bounds
<1>5. TypeInv'
  <2>1. run' \in RunRecord
    BY <1>1, <1>4 DEF RunRecord
  <2> QED BY <1>1, <1>2, <2>1, RunTypes DEF TypeInv
<1>6. LogInv'
  <2>1. \A i \in DOMAIN live : live[i].run <= run'.id
    <3>1. \A i \in DOMAIN live : live[i].run \in Nat /\ live[i].run <= run.id
      BY <1>2, RunFacts DEF LogInv, LiveEvent
    <3> QED BY <3>1, <1>2, <1>4, RunFacts
  <2> QED BY <1>1, <1>2, <2>1 DEF LogInv
<1>7. RunInv'
  <2>1. Held0' = Len(live) /\ Len(live) \in Nat
    BY <1>1, <1>2, RunFacts DEF Held0
  <2>2. \A i \in DOMAIN live : ~(i > Len(live)) /\ live[i].run # run'.id
    <3>1. \A i \in DOMAIN live : live[i].run \in Nat /\ live[i].run <= run.id
      BY <1>2, RunFacts DEF LogInv, LiveEvent
    <3> QED BY <3>1, <1>2, <1>4, RunFacts
  <2>3. \A n \in DOMAIN log : log[n] <= Len(live)
    BY <1>2 DEF LogInv
  <2>4. run'.id > 0
    BY <1>2, <1>4, RunFacts
  <2>5. DOMAIN buffer' = {} /\ DOMAIN pending' = {}
    BY <1>1
  <2> QED BY <1>1, <1>4, <2>1, <2>2, <2>3, <2>4, <2>5 DEF RunInv
<1> QED BY <1>3, <1>5, <1>6, <1>7 DEF PipelineIInv

\* The step that emits an event: it is the last one, and is drafted.
Emits(kind) == Emit(kind) /\ run' \in RunRecord /\ run'.id = run.id

LEMMA EmitFacts ==
    ASSUME PipelineIInv, NEW kind \in Kind, Emit(kind), run.pc # "idle"
    PROVE  /\ live' \in Seq(LiveEvent) /\ Len(live') = Len(live) + 1
           /\ Len(live') <= MaxLive /\ DOMAIN live' = 1 .. Len(live) + 1
           /\ live'[Len(live) + 1].run = run.id
           /\ \A i \in 1 .. Len(live) : live'[i] = live[i]
           /\ buffer' \in Seq(Nat) /\ Len(buffer') = Len(buffer) + 1
           /\ DOMAIN buffer' = 1 .. Len(buffer) + 1
           /\ buffer'[Len(buffer) + 1] = Len(live) + 1
           /\ \A k \in 1 .. Len(buffer) : buffer'[k] = buffer[k]
<1>1. TypeInv /\ RunInv /\ live \in Seq(LiveEvent) /\ buffer \in Seq(Nat)
  BY DEF PipelineIInv, TypeInv
<1> PICK e : e = [kind |-> kind, run |-> run.id]
  OBVIOUS
<1>2. e \in LiveEvent /\ e.run = run.id
  <2>1. run.id \in 1 .. MaxRuns
    BY <1>1, RunFacts, Bounds DEF RunInv
  <2> QED BY <2>1 DEF LiveEvent
<1>3. /\ live' = Append(live, e) /\ buffer' = Append(buffer, Len(live) + 1)
      /\ Len(live) < Room[faults]
  BY DEF Emit
<1>4. /\ Len(live) + 1 \in Nat /\ Len(live) \in Nat
      /\ Room[faults] \in Nat /\ Room[faults] <= MaxLive
  BY <1>1, RunFacts, Bounds DEF TypeInv
<1>5. /\ live' \in Seq(LiveEvent) /\ Len(live') = Len(live) + 1
      /\ live'[Len(live) + 1] = e /\ \A i \in 1 .. Len(live) : live'[i] = live[i]
  BY <1>1, <1>2, <1>3
<1>6. /\ buffer' \in Seq(Nat) /\ Len(buffer') = Len(buffer) + 1
      /\ buffer'[Len(buffer) + 1] = Len(live) + 1
      /\ \A i \in 1 .. Len(buffer) : buffer'[i] = buffer[i]
  BY <1>1, <1>3, <1>4
<1>7. Len(live') <= MaxLive
  BY <1>3, <1>4, <1>5, Bounds
<1>8. DOMAIN live' = 1 .. Len(live) + 1 /\ DOMAIN buffer' = 1 .. Len(buffer) + 1
  BY <1>5, <1>6
<1> QED BY <1>2, <1>5, <1>6, <1>7, <1>8

LEMMA EmitsKeeps ==
    ASSUME PipelineIInv, NEW kind \in Kind, Emits(kind),
           run.pc \in {"start", "step", "resumed", "suspend", "waiting", "stepEnd", "finish"},
           run'.pc \in {"step", "resumed", "stepped", "suspend", "waiting", "ended"},
           UNCHANGED <<pending, version, log, outbox, replay, relays, covered, notes, faults>>
    PROVE  PipelineIInv'
<1>1. TypeInv /\ LogInv /\ RunInv
  BY DEF PipelineIInv
<1>2. /\ Emit(kind) /\ run' \in RunRecord /\ run'.id = run.id /\ FaultsGrow
      /\ UNCHANGED <<straight, swallowed, raced>>
  BY <1>1, FaultCounts DEF Emits, notes
<1>3. /\ live' \in Seq(LiveEvent) /\ Len(live') = Len(live) + 1
      /\ Len(live') <= MaxLive /\ DOMAIN live' = 1 .. Len(live) + 1
      /\ live'[Len(live) + 1].run = run.id
      /\ \A i \in 1 .. Len(live) : live'[i] = live[i]
      /\ buffer' \in Seq(Nat) /\ Len(buffer') = Len(buffer) + 1
      /\ DOMAIN buffer' = 1 .. Len(buffer) + 1
      /\ buffer'[Len(buffer) + 1] = Len(live) + 1
      /\ \A k \in 1 .. Len(buffer) : buffer'[k] = buffer[k]
  BY <1>2, EmitFacts
<1>4. /\ Len(live) \in Nat /\ DOMAIN live = 1 .. Len(live)
      /\ Len(buffer) \in Nat /\ DOMAIN buffer = 1 .. Len(buffer)
      /\ Len(pending) \in Nat /\ DOMAIN pending = 1 .. Len(pending)
      /\ Len(log) \in Nat /\ DOMAIN log = 1 .. Len(log)
      /\ run.id \in Nat
      /\ \A n \in 1 .. Len(log) : log[n] \in Nat /\ log[n] <= Len(live)
  BY <1>1, RunFacts DEF LogInv
<1>5. \A i \in DOMAIN live : i \in DOMAIN live' /\ live'[i] = live[i]
  BY <1>3, <1>4
<1>6. /\ ReplayInv' /\ StraightRows' /\ RelaysInv' /\ OutboxInv' /\ ClaimsInv'
      /\ AttemptsInv' /\ SoleInv'
  BY <1>2, <1>5, LogStands
<1>7. TypeInv'
  <2>1. covered' \subseteq DOMAIN live'
    BY <1>1, <1>5 DEF TypeInv
  <2> QED BY <1>1, <1>2, <1>3, <2>1, RunTypes DEF TypeInv
<1>8. LogInv'
  <2>1. \A i \in DOMAIN live' : live'[i].run <= run'.id
    <3> SUFFICES ASSUME NEW i \in DOMAIN live' PROVE live'[i].run <= run.id
      BY <1>2
    <3>1. i \in DOMAIN live \/ i = Len(live) + 1
      BY <1>3, <1>4
    <3>2. CASE i \in DOMAIN live
      BY <1>1, <1>5, <3>2 DEF LogInv
    <3>3. CASE i = Len(live) + 1
      BY <1>3, <1>4, <3>3
    <3> QED BY <3>1, <3>2, <3>3
  <2>2. \A n \in DOMAIN log : n <= log[n] /\ log[n] <= Len(live')
    BY <1>1, <1>3, <1>4 DEF LogInv
  <2>3. ASSUME NEW n \in DOMAIN log, NEW i \in 1 .. log[n],
               live'[i].run = live'[log[n]].run
        PROVE  i \in ToSet(log)
    <3>1. i \in 1 .. Len(live) /\ log[n] \in 1 .. Len(live)
      BY <1>4
    <3>2. live[i].run = live[log[n]].run
      BY <1>3, <2>3, <3>1
    <3> QED BY <1>1, <3>2 DEF LogInv
  <2> QED BY <1>1, <2>1, <2>2, <2>3 DEF LogInv
<1>9. RunInv'
  <2>1. /\ Held0 \in Nat
        /\ \A k \in DOMAIN pending : pending[k] = Held0 + k /\ pending[k] <= Len(live)
        /\ \A k \in DOMAIN buffer :
              buffer[k] = Held0 + Len(pending) + k /\ buffer[k] <= Len(live)
        /\ \A i \in DOMAIN live :
              IF i > Held0 THEN live[i].run = run.id
              ELSE live[i].run = run.id => i \in ToSet(log)
        /\ \A n \in DOMAIN log : log[n] <= Held0
        /\ run.id > 0
    BY <1>1 DEF RunInv
  <2>2. Held0' = Held0 /\ Len(live) = Held0 + Len(pending) + Len(buffer)
    BY <1>3, <1>4 DEF Held0
  <2>3. \A k \in DOMAIN pending : pending[k] <= Len(live')
    BY <1>3, <1>4, <2>1
  <2>4. \A k \in DOMAIN buffer' :
           buffer'[k] = Held0 + Len(pending) + k /\ buffer'[k] <= Len(live')
    <3> SUFFICES ASSUME NEW k \in DOMAIN buffer'
                 PROVE  buffer'[k] = Held0 + Len(pending) + k /\ buffer'[k] <= Len(live')
      OBVIOUS
    <3>1. k \in DOMAIN buffer \/ k = Len(buffer) + 1
      BY <1>3, <1>4
    <3>2. CASE k \in DOMAIN buffer
      <4>1. buffer'[k] = buffer[k] /\ buffer[k] = Held0 + Len(pending) + k
        BY <1>3, <1>4, <2>1, <3>2
      <4>2. buffer[k] <= Len(live) /\ k \in Nat
        BY <1>4, <2>1, <3>2
      <4> QED BY <1>3, <1>4, <2>1, <4>1, <4>2
    <3>3. CASE k = Len(buffer) + 1
      BY <1>3, <1>4, <2>1, <2>2, <3>3
    <3> QED BY <3>1, <3>2, <3>3
  <2>5. \A i \in DOMAIN live' :
           IF i > Held0 THEN live'[i].run = run.id
           ELSE live'[i].run = run.id => i \in ToSet(log)
    <3> SUFFICES ASSUME NEW i \in DOMAIN live'
                 PROVE  IF i > Held0 THEN live'[i].run = run.id
                        ELSE live'[i].run = run.id => i \in ToSet(log)
      OBVIOUS
    <3>1. i \in DOMAIN live \/ i = Len(live) + 1
      BY <1>3, <1>4
    <3>2. CASE i \in DOMAIN live
      BY <1>5, <2>1, <3>2
    <3>3. CASE i = Len(live) + 1
      BY <1>3, <1>4, <2>1, <2>2, <3>3
    <3> QED BY <3>1, <3>2, <3>3
  <2>6. /\ \A k \in DOMAIN pending : 0 < pending[k]
        /\ \A k \in DOMAIN buffer' : 0 < buffer'[k]
    BY <1>3, <1>4, <2>1, <2>4
  <2>7. run'.pc # "commit" /\ run'.pc # "clear" /\ pending' = pending /\ log' = log
    OBVIOUS
  <2> QED BY <1>2, <2>1, <2>2, <2>3, <2>4, <2>5, <2>6, <2>7 DEF RunInv
<1> QED BY <1>6, <1>7, <1>8, <1>9 DEF PipelineIInv

LEMMA DrainsKeeps == ASSUME PipelineIInv, Drains PROVE PipelineIInv'
<1>1. /\ run.pc = "drain" /\ run' = [run EXCEPT !.pc = "commit"]
      /\ pending' = pending \o buffer /\ buffer' = <<>>
      /\ UNCHANGED <<live, version, log, outbox, replay, relays, covered, straight, swallowed,
                     raced, faults>>
  BY DEF Drains, Goto, notes
<1>2. TypeInv /\ LogInv /\ RunInv /\ FaultsGrow
  BY <1>1, FaultCounts DEF PipelineIInv
<1>3. /\ ReplayInv' /\ StraightRows' /\ RelaysInv' /\ OutboxInv' /\ ClaimsInv'
      /\ AttemptsInv' /\ SoleInv'
  BY <1>1, <1>2, LogStands
<1>4. run' \in RunRecord /\ run'.pc = "commit" /\ run'.id = run.id
  BY <1>1, <1>2, RunFacts DEF RunRecord
<1>5. /\ Len(live) \in Nat
      /\ Len(buffer) \in Nat /\ DOMAIN buffer = 1 .. Len(buffer) /\ buffer \in Seq(Nat)
      /\ Len(pending) \in Nat /\ DOMAIN pending = 1 .. Len(pending) /\ pending \in Seq(Nat)
  BY <1>2, RunFacts DEF TypeInv
<1>6. /\ pending' \in Seq(Nat) /\ Len(pending') = Len(pending) + Len(buffer)
      /\ DOMAIN pending' = 1 .. Len(pending) + Len(buffer)
      /\ \A k \in 1 .. Len(pending) + Len(buffer) :
            pending'[k] = IF k <= Len(pending) THEN pending[k] ELSE buffer[k - Len(pending)]
  <2>1. /\ pending' \in Seq(Nat) /\ Len(pending') = Len(pending) + Len(buffer)
        /\ \A k \in 1 .. Len(pending) + Len(buffer) :
              pending'[k] = IF k <= Len(pending) THEN pending[k] ELSE buffer[k - Len(pending)]
    BY <1>1, <1>5, ConcatProperties
  <2> QED BY <2>1
<1>7. TypeInv'
  BY <1>1, <1>2, <1>4, <1>6, RunTypes DEF TypeInv
<1>8. LogInv'
  BY <1>1, <1>2, <1>4 DEF LogInv
<1>9. RunInv'
  <2>1. /\ Held0 \in Nat
        /\ \A k \in DOMAIN pending : pending[k] = Held0 + k /\ pending[k] <= Len(live)
        /\ \A k \in DOMAIN buffer :
              buffer[k] = Held0 + Len(pending) + k /\ buffer[k] <= Len(live)
    BY <1>1, <1>2 DEF RunInv
  <2>2. /\ \A i \in DOMAIN live :
              IF i > Held0 THEN live[i].run = run.id
              ELSE live[i].run = run.id => i \in ToSet(log)
        /\ \A n \in DOMAIN log : log[n] <= Held0
        /\ run.id > 0
    BY <1>1, <1>2 DEF RunInv
  <2>3. Len(buffer') = 0 /\ DOMAIN buffer' = {}
    BY <1>1
  <2>4. Held0' = Held0
    BY <1>1, <1>5, <1>6, <2>3 DEF Held0
  <2>5. \A k \in DOMAIN pending' : pending'[k] = Held0 + k /\ pending'[k] <= Len(live)
    <3> SUFFICES ASSUME NEW k \in DOMAIN pending'
                 PROVE  pending'[k] = Held0 + k /\ pending'[k] <= Len(live)
      OBVIOUS
    <3>1. CASE k <= Len(pending)
      <4>1. k \in DOMAIN pending /\ pending'[k] = pending[k]
        BY <1>5, <1>6, <3>1
      <4> QED BY <2>1, <4>1
    <3>2. CASE ~(k <= Len(pending))
      <4>1. k - Len(pending) \in DOMAIN buffer /\ pending'[k] = buffer[k - Len(pending)]
        BY <1>5, <1>6, <3>2
      <4>2. pending'[k] = Held0 + Len(pending) + (k - Len(pending)) /\ pending'[k] <= Len(live)
        BY <2>1, <4>1
      <4> QED BY <1>5, <1>6, <2>1, <4>2
    <3> QED BY <3>1, <3>2
  <2> QED BY <1>1, <1>4, <2>2, <2>1, <2>3, <2>4, <2>5 DEF RunInv
<1> QED BY <1>3, <1>7, <1>8, <1>9 DEF PipelineIInv

LEMMA ClearsKeeps == ASSUME PipelineIInv, Clears PROVE PipelineIInv'
<1>1. /\ run.pc = "clear" /\ pending' = <<>>
      /\ covered' = covered \cup {i \in DOMAIN live : live[i].run = run.id}
      /\ run' = [run EXCEPT !.pc = run.then]
      /\ UNCHANGED <<live, buffer, version, log, outbox, replay, relays, straight, swallowed,
                     raced, faults>>
  BY DEF Clears, Goto, notes
<1>2. TypeInv /\ LogInv /\ RunInv /\ FaultsGrow
  BY <1>1, FaultCounts DEF PipelineIInv
<1>3. /\ ReplayInv' /\ StraightRows' /\ RelaysInv' /\ OutboxInv' /\ ClaimsInv'
      /\ AttemptsInv' /\ SoleInv'
  BY <1>1, <1>2, LogStands
<1>4. run' \in RunRecord /\ run'.pc \in {"finish", "stepEnd", "waiting"} /\ run'.id = run.id
  BY <1>1, <1>2, RunFacts DEF RunRecord
<1>5. TypeInv'
  <2>1. covered' \subseteq DOMAIN live
    BY <1>1, <1>2 DEF TypeInv
  <2> QED BY <1>1, <1>2, <1>4, <2>1, RunTypes DEF TypeInv
<1>6. \A i \in DOMAIN live : live[i].run = run.id => i \in ToSet(log)
  BY <1>1, <1>2 DEF RunInv
<1>7. LogInv'
  <2>1. covered' \subseteq ToSet(log)
    BY <1>1, <1>2, <1>6 DEF LogInv
  <2> QED BY <1>1, <1>2, <1>4, <2>1 DEF LogInv
<1>8. RunInv'
  <2>1. buffer = <<>> /\ run.id > 0
    BY <1>1, <1>2 DEF RunInv
  <2>2. DOMAIN buffer' = {} /\ DOMAIN pending' = {} /\ Len(buffer') = 0 /\ Len(pending') = 0
    BY <1>1, <2>1
  <2>3. Held0' = Len(live) /\ Len(live) \in Nat
    BY <1>1, <1>2, <2>2, RunFacts DEF Held0
  <2>4. \A i \in DOMAIN live : ~(i > Len(live))
    BY <1>2, RunFacts
  <2>5. \A n \in DOMAIN log : log[n] <= Len(live)
    BY <1>2 DEF LogInv
  <2> QED BY <1>1, <1>4, <1>6, <2>1, <2>2, <2>3, <2>4, <2>5 DEF RunInv
<1> QED BY <1>3, <1>5, <1>7, <1>8 DEF PipelineIInv

\* What a transaction makes of the log and the outbox.
LEMMA TransactionFacts ==
    ASSUME TypeInv, Transaction
    PROVE  /\ log' \in Seq(Nat) /\ Len(log') = Len(log) + Len(pending)
           /\ DOMAIN log' = 1 .. Len(log) + Len(pending)
           /\ \A n \in 1 .. Len(log) + Len(pending) :
                 log'[n] = IF n <= Len(log) THEN log[n] ELSE pending[n - Len(log)]
           /\ outbox' \in Seq(OutboxMessage) /\ Len(outbox') = Len(log')
           /\ \A i \in DOMAIN outbox : outbox'[i] = outbox[i]
           /\ \A i \in DOMAIN outbox' : i \notin DOMAIN outbox => outbox'[i] = NewMessage
           /\ version' \in Nat
<1>1. /\ log \in Seq(Nat) /\ pending \in Seq(Nat) /\ outbox \in Seq(OutboxMessage)
      /\ Len(outbox) = Len(log) /\ Len(pending) \in Nat /\ Len(log) \in Nat /\ version \in Nat
  BY RunFacts DEF TypeInv
<1>2. log' = log \o pending /\ version' = version + 1
  BY DEF Transaction
<1>3. /\ log' \in Seq(Nat) /\ Len(log') = Len(log) + Len(pending)
      /\ \A n \in 1 .. Len(log) + Len(pending) :
            log'[n] = IF n <= Len(log) THEN log[n] ELSE pending[n - Len(log)]
  BY <1>1, <1>2, ConcatProperties
<1> PICK new : new = [i \in 1 .. Len(pending) |-> NewMessage]
  OBVIOUS
<1>4. NewMessage \in OutboxMessage
  BY DEF NewMessage, OutboxMessage
<1>5. new \in Seq(OutboxMessage) /\ Len(new) = Len(pending)
  <2>1. new \in [1 .. Len(pending) -> OutboxMessage]
    BY <1>4
  <2> QED BY <1>1, <2>1
<1>6. outbox' = outbox \o new
  BY DEF Transaction
<1>7. /\ outbox' \in Seq(OutboxMessage) /\ Len(outbox') = Len(log) + Len(pending)
      /\ \A i \in 1 .. Len(log) + Len(pending) :
            outbox'[i] = IF i <= Len(log) THEN outbox[i] ELSE new[i - Len(log)]
  <2>1. /\ outbox' \in Seq(OutboxMessage) /\ Len(outbox') = Len(outbox) + Len(new)
        /\ \A i \in 1 .. Len(outbox) + Len(new) :
              outbox'[i] = IF i <= Len(outbox) THEN outbox[i] ELSE new[i - Len(outbox)]
    <3>1. outbox \in Seq(OutboxMessage) /\ new \in Seq(OutboxMessage)
      BY <1>1, <1>5
    <3> HIDE DEF OutboxMessage
    <3>2. /\ outbox \o new \in Seq(OutboxMessage)
          /\ Len(outbox \o new) = Len(outbox) + Len(new)
          /\ \A i \in 1 .. Len(outbox) + Len(new) :
                (outbox \o new)[i] = IF i <= Len(outbox) THEN outbox[i] ELSE new[i - Len(outbox)]
      BY <3>1, ConcatProperties
    <3> QED BY <3>2, <1>6
  <2> QED BY <1>1, <1>5, <2>1, Zenon
<1>8. DOMAIN outbox = 1 .. Len(log) /\ DOMAIN outbox' = 1 .. Len(log) + Len(pending)
  BY <1>1, <1>7
<1>9. \A i \in DOMAIN outbox : outbox'[i] = outbox[i]
  BY <1>1, <1>7, <1>8
<1>10. ASSUME NEW i \in DOMAIN outbox', i \notin DOMAIN outbox
       PROVE  outbox'[i] = NewMessage
  <2>1. i - Len(log) \in 1 .. Len(pending) /\ outbox'[i] = new[i - Len(log)]
    BY <1>1, <1>7, <1>8, <1>10
  <2> QED BY <2>1
<1> QED BY <1>1, <1>2, <1>3, <1>7, <1>9, <1>10

LEMMA TransactionKeeps ==
    ASSUME PipelineIInv, run.pc = "commit", Transaction, run' \in RunRecord,
           run'.id = run.id, run'.pc \in {"clear", "failed"}, FaultsGrow,
           UNCHANGED <<live, buffer, pending, replay, relays, covered, straight, swallowed, raced>>
    PROVE  PipelineIInv'
<1>1. TypeInv /\ LogInv /\ RunInv
  BY DEF PipelineIInv
<1>2. /\ log' \in Seq(Nat) /\ Len(log') = Len(log) + Len(pending)
      /\ DOMAIN log' = 1 .. Len(log) + Len(pending)
      /\ \A n \in 1 .. Len(log) + Len(pending) :
            log'[n] = IF n <= Len(log) THEN log[n] ELSE pending[n - Len(log)]
      /\ outbox' \in Seq(OutboxMessage) /\ Len(outbox') = Len(log')
      /\ \A i \in DOMAIN outbox : outbox'[i] = outbox[i]
      /\ \A i \in DOMAIN outbox' : i \notin DOMAIN outbox => outbox'[i] = NewMessage
      /\ version' \in Nat
  BY <1>1, TransactionFacts
<1>3. /\ Len(live) \in Nat /\ DOMAIN live = 1 .. Len(live)
      /\ Len(log) \in Nat /\ DOMAIN log = 1 .. Len(log)
      /\ Len(pending) \in Nat /\ DOMAIN pending = 1 .. Len(pending)
      /\ run.id \in Nat /\ faults \in Nat
      /\ \A n \in 1 .. Len(log) : log[n] \in Nat
  BY <1>1, RunFacts
<1>4. /\ \A n \in 1 .. Len(log) : log'[n] = log[n] /\ n \in DOMAIN log'
      /\ \A k \in 1 .. Len(pending) : log'[Len(log) + k] = pending[k]
  <2>1. \A n \in 1 .. Len(log) : log'[n] = log[n] /\ n \in DOMAIN log'
    BY <1>2, <1>3
  <2>2. ASSUME NEW k \in 1 .. Len(pending)
        PROVE  log'[Len(log) + k] = pending[k]
    <3>1. /\ Len(log) + k \in 1 .. Len(log) + Len(pending) /\ ~(Len(log) + k <= Len(log))
          /\ Len(log) + k - Len(log) = k
      BY <1>3
    <3> QED BY <1>2, <3>1
  <2> QED BY <2>1, <2>2
<1>5. Grows
  <2>1. \A i \in DOMAIN log : i \in DOMAIN log' /\ KindOf(i)' = KindOf(i)
    BY <1>3, <1>4 DEF KindOf
  <2> QED BY <2>1 DEF Grows
<1>6. /\ ReplayInv' /\ StraightRows' /\ RelaysInv' /\ OutboxInv' /\ ClaimsInv'
      /\ AttemptsInv' /\ SoleInv'
  BY <1>2, <1>5, LogExtended DEF FaultsGrow
<1>7. TypeInv'
  BY <1>1, <1>2, RunTypes DEF TypeInv
<1>8. /\ Held0 \in Nat /\ Held0 = Len(live) - Len(pending) /\ buffer = <<>>
      /\ \A k \in DOMAIN pending : pending[k] = Held0 + k
      /\ \A i \in DOMAIN live :
            IF i > Held0 THEN live[i].run = run.id
            ELSE live[i].run = run.id => i \in ToSet(log)
      /\ \A n \in DOMAIN log : log[n] <= Held0
      /\ run.id > 0
  <2>1. buffer = <<>> /\ Len(buffer) = 0
    BY <1>1 DEF RunInv
  <2> QED BY <1>1, <1>3, <2>1 DEF RunInv, Held0
<1>9. \A k \in 1 .. Len(pending) : log'[Len(log) + k] = Held0 + k
  BY <1>3, <1>4, <1>8
<1>10. \A n \in DOMAIN log' : n \in 1 .. Len(log) \/ \E k \in 1 .. Len(pending) : n = Len(log) + k
  <2> SUFFICES ASSUME NEW n \in DOMAIN log', ~(n \in 1 .. Len(log))
               PROVE  n - Len(log) \in 1 .. Len(pending) /\ n = Len(log) + (n - Len(log))
    OBVIOUS
  <2> QED BY <1>2, <1>3, SMTT(30)
<1>11. \A i : i \in ToSet(log) => i \in ToSet(log')
  BY <1>3, <1>4 DEF ToSet
<1>12. \A i \in DOMAIN live : i > Held0 => i \in ToSet(log')
  <2> SUFFICES ASSUME NEW i \in DOMAIN live, i > Held0
               PROVE  \E n \in DOMAIN log' : log'[n] = i
    BY DEF ToSet
  <2>1. i - Held0 \in 1 .. Len(pending) /\ Held0 + (i - Held0) = i
    BY <1>3, <1>8
  <2>2. log'[Len(log) + (i - Held0)] = i /\ Len(log) + (i - Held0) \in DOMAIN log'
    BY <1>2, <1>3, <1>9, <2>1, SMTT(30)
  <2> QED BY <2>2
<1>13. \A i \in DOMAIN live : live[i].run = run.id => i \in ToSet(log')
  BY <1>8, <1>11, <1>12
<1>14. Len(log) <= Held0
  <2>1. CASE Len(log) = 0
    BY <1>8, <2>1
  <2>2. CASE Len(log) # 0
    <3>1. Len(log) \in DOMAIN log
      BY <1>3, <2>2
    <3>2. Len(log) <= log[Len(log)] /\ log[Len(log)] <= Held0 /\ log[Len(log)] \in Nat
      BY <1>1, <1>3, <1>8, <3>1 DEF LogInv
    <3> QED BY <1>3, <1>8, <3>2
  <2> QED BY <2>1, <2>2
<1>15. LogInv'
  <2>1. \A n \in DOMAIN log' : n <= log'[n] /\ log'[n] <= Len(live)
    <3> SUFFICES ASSUME NEW n \in DOMAIN log'
                 PROVE  n <= log'[n] /\ log'[n] <= Len(live)
      OBVIOUS
    <3>1. CASE n \in 1 .. Len(log)
      BY <1>1, <1>3, <1>4, <3>1 DEF LogInv
    <3>2. ASSUME NEW k \in 1 .. Len(pending), n = Len(log) + k
          PROVE  n <= log'[n] /\ log'[n] <= Len(live)
      <4>1. log'[n] = Held0 + k
        BY <1>9, <3>2
      <4>2. Held0 + k <= Len(live) /\ Len(log) + k <= Held0 + k
        BY <1>3, <1>8, <1>14
      <4> QED BY <3>2, <4>1, <4>2
    <3> QED BY <1>10, <3>1, <3>2
  <2>2. \A m, n \in DOMAIN log' : m < n => log'[m] < log'[n]
    <3> SUFFICES ASSUME NEW m \in DOMAIN log', NEW n \in DOMAIN log', m < n
                 PROVE  log'[m] < log'[n]
      OBVIOUS
    <3>1. CASE n \in 1 .. Len(log)
      <4>1. m \in 1 .. Len(log)
        BY <1>2, <1>3, <3>1
      <4> QED BY <1>1, <1>3, <1>4, <3>1, <4>1 DEF LogInv
    <3>2. ASSUME NEW k \in 1 .. Len(pending), n = Len(log) + k
          PROVE  log'[m] < log'[n]
      <4>1. log'[n] = Held0 + k
        BY <1>9, <3>2
      <4>2. CASE m \in 1 .. Len(log)
        <5>1. log'[m] = log[m] /\ log[m] \in Nat /\ log[m] <= Held0
          BY <1>3, <1>4, <1>8, <4>2
        <5> QED BY <1>3, <1>8, <4>1, <5>1
      <4>3. ASSUME NEW j \in 1 .. Len(pending), m = Len(log) + j
            PROVE  log'[m] < log'[n]
        <5>1. log'[m] = Held0 + j
          BY <1>9, <4>3
        <5>2. j < k
          BY <1>3, <3>2, <4>3
        <5> QED BY <1>3, <1>8, <4>1, <5>1, <5>2
      <4> QED BY <1>10, <4>2, <4>3
    <3> QED BY <1>10, <3>1, <3>2
  <2>3. ASSUME NEW n \in DOMAIN log', NEW i \in 1 .. log'[n],
               live[i].run = live[log'[n]].run
        PROVE  i \in ToSet(log')
    <3>1. CASE n \in 1 .. Len(log)
      <4>1. i \in 1 .. log[n] /\ live[i].run = live[log[n]].run
        BY <1>4, <2>3, <3>1
      <4>2. i \in ToSet(log)
        BY <1>1, <1>3, <3>1, <4>1 DEF LogInv
      <4> QED BY <1>11, <4>2
    <3>2. ASSUME NEW k \in 1 .. Len(pending), n = Len(log) + k
          PROVE  i \in ToSet(log')
      <4>1. log'[n] = Held0 + k /\ Held0 + k \in DOMAIN live /\ Held0 + k > Held0
        <5>1. log'[n] = Held0 + k
          BY <1>9, <3>2
        <5>2. Held0 + k \in DOMAIN live /\ Held0 + k > Held0
          BY <1>3, <1>8
        <5> QED BY <5>1, <5>2
      <4>2. live[log'[n]].run = run.id /\ i \in DOMAIN live
        BY <1>3, <1>8, <4>1
      <4> QED BY <1>13, <2>3, <4>2
    <3> QED BY <1>10, <3>1, <3>2
  <2>4. covered' \subseteq ToSet(log')
    BY <1>1, <1>11 DEF LogInv
  <2>5. \A i \in DOMAIN live : live[i].run <= run'.id
    BY <1>1 DEF LogInv
  <2> QED BY <2>1, <2>2, <2>3, <2>4, <2>5 DEF LogInv
<1>16. RunInv'
  <2>1. \A k \in DOMAIN pending : pending[k] <= Len(live)
    BY <1>1 DEF RunInv
  <2>2. buffer' = <<>> /\ DOMAIN buffer' = {}
    BY <1>8
  <2> QED BY <1>8, <1>13, <2>1, <2>2 DEF RunInv
<1> QED BY <1>6, <1>7, <1>15, <1>16 DEF PipelineIInv

LEMMA RunStepKeeps == ASSUME PipelineIInv, RunStep PROVE PipelineIInv'
<1> USE DEF notes
<1>1. /\ run \in RunRecord /\ version \in Nat
      /\ run = [pc |-> run.pc, id |-> run.id, expected |-> run.expected, tries |-> run.tries,
                then |-> run.then]
      /\ run.id \in 0 .. MaxRuns /\ run.expected \in Nat /\ run.tries \in Nat
      /\ run.then \in {"stepEnd", "finish", "waiting"}
  BY DEF PipelineIInv, TypeInv, RunRecord
<1>2. /\ faults' = faults => FaultsGrow
      /\ \A kind : Fault(kind) => FaultsGrow
  BY FaultCounts DEF PipelineIInv
<1>3. ASSUME NEW pc \in {"step", "resumed", "stepped", "suspend", "waiting", "read", "drain",
                         "commit", "clear", "stepEnd", "finish", "ended", "failed"},
             Goto(pc)
      PROVE  run' \in RunRecord /\ run'.id = run.id /\ run'.pc = pc
  BY <1>1, <1>3 DEF RunRecord, Goto
<1>4. ASSUME NEW then \in {"stepEnd", "finish", "waiting"}, Checkpoint(then)
      PROVE  run' \in RunRecord /\ run'.id = run.id /\ run'.pc = "read"
  BY <1>1, <1>4 DEF RunRecord, Checkpoint
<1>5. CASE RunBegins
  BY <1>5, RunBeginsKeeps
<1>6. CASE EmitsStart
  <2>1. PICK pc \in {"step", "resumed"} : Goto(pc)
    BY <1>6 DEF EmitsStart
  <2>2. run' \in RunRecord /\ run'.id = run.id /\ run'.pc = pc /\ "Start" \in Kind
    BY <1>3, <2>1 DEF Kind
  <2> QED BY <1>6, <2>2, EmitsKeeps DEF EmitsStart, Emits
<1>7. CASE StepEmits
  <2>1. PICK kind \in {"Text", "Tool"} :
           Emit(kind) /\ Goto(IF kind = "Text" THEN "step" ELSE run.pc)
    BY <1>7 DEF StepEmits
  <2>2. run.pc \in {"step", "resumed"} /\ kind \in Kind
    BY <1>7 DEF StepEmits, Kind
  <2>3. PICK pc \in {"step", "resumed"} : Goto(pc)
    BY <2>1, <2>2
  <2>4. run' \in RunRecord /\ run'.id = run.id /\ run'.pc = pc
    BY <1>3, <2>3
  <2> QED BY <1>7, <2>1, <2>2, <2>4, EmitsKeeps DEF StepEmits, Emits
<1>8. CASE CheckpointBegins
  <2>1. run.pc \in {"step", "resumed", "stepped", "waiting"}
    BY <1>8 DEF CheckpointBegins
  <2>2. run' \in RunRecord /\ run'.id = run.id /\ run'.pc = "read"
    BY <1>4, <1>8 DEF CheckpointBegins
  <2> QED BY <1>1, <1>2, <1>8, <2>1, <2>2, RunGoesOn DEF CheckpointBegins
<1>9. CASE InboxCheckpoint
  <2>1. run' \in RunRecord /\ run'.id = run.id /\ run'.pc = "read" /\ FaultsGrow
    BY <1>2, <1>4, <1>9 DEF InboxCheckpoint
  <2> QED BY <1>1, <1>9, <2>1, RunGoesOn DEF InboxCheckpoint
<1>10. CASE ReadsVersion
  <2>1. run' \in RunRecord /\ run'.id = run.id /\ run'.pc \in {"failed", "drain"}
    <3>1. CASE run.tries = MaxAppends
      BY <1>3, <1>10, <3>1 DEF ReadsVersion, Goto
    <3>2. CASE run.tries # MaxAppends
      <4>1. run' = [run EXCEPT !.pc = "drain", !.expected = version, !.tries = run.tries + 1]
        BY <1>10, <3>2 DEF ReadsVersion
      <4>2. run' = [pc |-> "drain", id |-> run.id, expected |-> version,
                    tries |-> run.tries + 1, then |-> run.then]
        BY <1>1, <4>1
      <4>3. run.tries + 1 \in Nat
        BY <1>1
      <4> QED BY <1>1, <4>2, <4>3 DEF RunRecord
    <3> QED BY <3>1, <3>2
  <2> QED BY <1>1, <1>2, <1>10, <2>1, RunGoesOn DEF ReadsVersion
<1>11. CASE Drains
  BY <1>11, DrainsKeeps
<1>12. CASE Commits
  <2>1. CASE Goto("read") /\ UNCHANGED <<log, outbox, version, faults>>
    <3>1. run' \in RunRecord /\ run'.id = run.id /\ run'.pc = "read"
      BY <1>3, <2>1
    <3> QED BY <1>1, <1>2, <1>12, <2>1, <3>1, RunGoesOn DEF Commits
  <2>2. CASE Transaction /\ Goto("clear") /\ UNCHANGED faults
    <3>1. run' \in RunRecord /\ run'.id = run.id /\ run'.pc = "clear"
      BY <1>3, <2>2
    <3> QED BY <1>1, <1>2, <1>12, <2>2, <3>1, TransactionKeeps DEF Commits
  <2> QED BY <1>12, <2>1, <2>2 DEF Commits
<1>13. CASE CommitFails
  <2>1. run.pc = "commit" /\ Goto("failed") /\ FaultsGrow
    BY <1>2, <1>13 DEF CommitFails
  <2>2. run' \in RunRecord /\ run'.id = run.id /\ run'.pc = "failed"
    BY <1>3, <2>1
  <2>3. CASE UNCHANGED <<log, outbox, version>>
    BY <1>1, <1>13, <2>1, <2>2, <2>3, RunGoesOn DEF CommitFails
  <2>4. CASE Transaction
    BY <1>1, <1>13, <2>1, <2>2, <2>4, TransactionKeeps DEF CommitFails
  <2> QED BY <1>13, <2>3, <2>4 DEF CommitFails
<1>14. CASE Clears
  BY <1>14, ClearsKeeps
<1>15. CASE EmitsStepEnd
  <2>1. PICK pc \in {"step", "stepped", "suspend"} : Goto(pc)
    BY <1>15 DEF EmitsStepEnd
  <2>2. run' \in RunRecord /\ run'.id = run.id /\ run'.pc = pc /\ "StepEnd" \in Kind
    BY <1>3, <2>1 DEF Kind
  <2> QED BY <1>15, <2>2, EmitsKeeps DEF EmitsStepEnd, Emits
<1>16. CASE EmitsSuspend
  <2>1. run' \in RunRecord /\ run'.id = run.id /\ run'.pc = "waiting" /\ "Suspend" \in Kind
    BY <1>3, <1>16 DEF EmitsSuspend, Kind
  <2> QED BY <1>16, <2>1, EmitsKeeps DEF EmitsSuspend, Emits
<1>17. CASE EmitsFinish
  <2>1. run' \in RunRecord /\ run'.id = run.id /\ run'.pc = "ended" /\ "Finish" \in Kind
    BY <1>3, <1>17 DEF EmitsFinish, Kind
  <2> QED BY <1>17, <2>1, EmitsKeeps DEF EmitsFinish, Emits
<1>18. CASE OthersAppend
  <2>1. /\ run.pc \in {"drain", "commit"} /\ FaultsGrow /\ version' = version + 1
        /\ UNCHANGED <<live, run, buffer, pending, log, outbox, replay, relays, covered, straight,
                       swallowed, raced>>
    BY <1>2, <1>18 DEF OthersAppend
  <2>2. version' \in Nat
    BY <1>1, <2>1
  <2> QED BY <1>1, <2>1, <2>2, RunGoesOn
<1> QED BY <1>5, <1>6, <1>7, <1>8, <1>9, <1>10, <1>11, <1>12, <1>13, <1>14, <1>15, <1>16, <1>17,
           <1>18 DEF RunStep

----------------------------------------------------------------------------
(* A relay.                                                                 *)

\* A step of relay r, which is x afterwards: the log stays, the replay log grows.
Moves(r, x) ==
    /\ relays' = [relays EXCEPT ![r] = x]
    /\ UNCHANGED <<live, run, buffer, pending, version, covered, log>>
    /\ outbox' \in Seq(OutboxMessage) /\ Len(outbox') = Len(outbox)
    /\ replay' \in Seq(ReplayRow) /\ Len(replay) <= Len(replay')
    /\ \A n \in 1 .. Len(replay) : replay'[n] = replay[n]
    /\ straight' \in BOOLEAN /\ (straight' => straight)
    /\ swallowed \subseteq swallowed' /\ swallowed' \subseteq Nat
    /\ raced \subseteq raced' /\ raced' \subseteq Nat
    /\ FaultsGrow

LEMMA MovesFacts ==
    ASSUME PipelineIInv, NEW r \in Relay, NEW x, Moves(r, x)
    PROVE  /\ Grows /\ relays'[r] = x /\ \A s \in Relay : s # r => relays'[s] = relays[s]
           /\ DOMAIN replay = 1 .. Len(replay) /\ Len(replay) \in Nat
           /\ DOMAIN outbox = DOMAIN log /\ DOMAIN outbox' = DOMAIN log
           /\ Len(log) \in Nat /\ DOMAIN log = 1 .. Len(log) /\ faults \in Nat /\ log' = log
           /\ FaultsGrow
<1>1. /\ replay \in Seq(ReplayRow) /\ relays \in [Relay -> RelayRecord]
      /\ outbox \in Seq(OutboxMessage) /\ log \in Seq(Nat) /\ Len(outbox) = Len(log)
      /\ faults \in Nat /\ FaultsGrow
  BY RunFacts DEF PipelineIInv, TypeInv, Moves
<1>2. /\ DOMAIN replay = 1 .. Len(replay) /\ Len(replay) \in Nat
      /\ DOMAIN replay' = 1 .. Len(replay') /\ Len(replay') \in Nat
      /\ outbox' \in Seq(OutboxMessage) /\ Len(outbox') = Len(outbox)
  BY <1>1 DEF Moves
<1>3. Grows
  <2>1. log' = log /\ live' = live
    BY DEF Moves
  <2>2. \A i \in DOMAIN log : KindOf(i)' = KindOf(i)
    BY <2>1 DEF KindOf
  <2>3. \A n \in DOMAIN replay : n \in DOMAIN replay' /\ replay'[n] = replay[n]
    BY <1>2 DEF Moves
  <2>4. swallowed \subseteq swallowed' /\ raced \subseteq raced' /\ (straight' => straight)
    BY DEF Moves
  <2> QED BY <2>1, <2>2, <2>3, <2>4 DEF Grows
<1>4. relays'[r] = x /\ \A s \in Relay : s # r => relays'[s] = relays[s]
  BY <1>1 DEF Moves
<1>5. DOMAIN outbox = DOMAIN log /\ DOMAIN outbox' = DOMAIN log
  BY <1>1, <1>2
<1>6. Len(log) \in Nat /\ DOMAIN log = 1 .. Len(log) /\ log' = log
  BY <1>1 DEF Moves
<1> QED BY <1>1, <1>2, <1>3, <1>4, <1>5, <1>6

\* The run does not notice, and the other relays go on as they were.
LEMMA MovesKeeps ==
    ASSUME PipelineIInv, NEW r \in Relay, NEW x \in RelayRecord, Moves(r, x),
           DraftsOK(x)', BatchOK(x)', straight' => InOrder(x)'
    PROVE  TypeInv' /\ LogInv' /\ RunInv' /\ RelaysInv'
<1>1. TypeInv /\ LogInv /\ RunInv /\ RelaysInv
  BY DEF PipelineIInv
<1>2. /\ Grows /\ relays'[r] = x /\ \A s \in Relay : s # r => relays'[s] = relays[s]
      /\ Len(log) \in Nat /\ DOMAIN log = 1 .. Len(log) /\ faults \in Nat /\ log' = log
  BY MovesFacts
<1>3. /\ UNCHANGED <<live, run, buffer, pending, version, covered, log>>
      /\ relays' = [relays EXCEPT ![r] = x]
  BY DEF Moves
<1>4. TypeInv'
  <2>1. relays' \in [Relay -> RelayRecord]
    BY <1>1, <1>3 DEF TypeInv
  <2>2. faults' \in 0 .. MaxFaults
    BY Bounds DEF Moves, FaultsGrow
  <2> QED BY <1>1, <1>3, <2>1, <2>2 DEF TypeInv, Moves
<1>5. LogInv'
  BY <1>1, <1>3 DEF LogInv
<1>6. RunInv'
  <2>1. Held0' = Held0
    BY <1>3 DEF Held0
  <2> QED BY <1>1, <1>3, <2>1 DEF RunInv
<1>7. RelaysInv'
  <2> SUFFICES ASSUME NEW s \in Relay
               PROVE  /\ DraftsOK(relays[s])' /\ BatchOK(relays[s])'
                      /\ straight' => InOrder(relays[s])'
    BY DEF RelaysInv
  <2> PICK y : y = relays'[s]
    OBVIOUS
  <2>1. CASE s = r
    <3>1. y = x
      BY <1>2, <2>1
    <3>2. DraftsOK(y)' /\ BatchOK(y)' /\ (straight' => InOrder(y)')
      BY <3>1
    <3> QED BY <3>2
  <2>2. CASE s # r
    <3>1. y = relays[s]
      BY <1>2, <2>2
    <3>2. y \in RelayRecord /\ DraftsOK(y) /\ BatchOK(y) /\ (straight => InOrder(y))
      BY <1>1, <3>1, RelayFacts DEF RelaysInv
    <3>3. DraftsOK(y)' /\ BatchOK(y)' /\ (straight => InOrder(y)')
      BY <1>1, <1>2, <3>2, DraftsStand, BatchStands, OrderStands
    <3>4. straight' => straight
      BY DEF Moves
    <3> QED BY <3>3, <3>4
  <2> QED BY <2>1, <2>2
<1> QED BY <1>4, <1>5, <1>6, <1>7

\* What is left of a batch: its last messages.
LeftOf(b, c) == \E d \in Nat : \A n \in DOMAIN b : n + d \in DOMAIN c /\ b[n] = c[n + d]

LEMMA WhatIsLeft ==
    ASSUME NEW c \in Seq(BatchEntry)
    PROVE  LeftOf(c, c) /\ LeftOf(<<>>, c) /\ (c # <<>> => LeftOf(Tail(c), c))
<1>1. LeftOf(c, c)
  <2>1. \A n \in DOMAIN c : n + 0 = n
    OBVIOUS
  <2> QED BY <2>1 DEF LeftOf
<1>2. LeftOf(<<>>, c)
  <2>1. DOMAIN <<>> = {}
    OBVIOUS
  <2> QED BY <2>1 DEF LeftOf
<1>3. ASSUME c # <<>>
      PROVE  LeftOf(Tail(c), c)
  <2>1. \A n \in DOMAIN Tail(c) : n + 1 \in DOMAIN c /\ Tail(c)[n] = c[n + 1]
    BY <1>3
  <2> QED BY <2>1 DEF LeftOf
<1> QED BY <1>1, <1>2, <1>3

LEMMA ClaimsLeft ==
    ASSUME PipelineIInv, NEW r \in Relay, NEW x \in RelayRecord, Moves(r, x),
           LeftOf(x.batch, relays[r].batch),
           \A i \in DOMAIN outbox : outbox[i].attempts <= outbox'[i].attempts
    PROVE  ClaimsInv'
<1>1. /\ relays'[r] = x /\ \A s \in Relay : s # r => relays'[s] = relays[s]
      /\ DOMAIN outbox = DOMAIN log
  BY MovesFacts
<1>2. \A s \in Relay : LeftOf(relays'[s].batch, relays[s].batch)
  <2>1. \A s \in Relay : LeftOf(relays[s].batch, relays[s].batch)
    BY WhatIsLeft, RelayFacts DEF PipelineIInv
  <2> QED BY <1>1, <2>1
<1>3. ASSUME NEW s \in Relay, NEW n \in DOMAIN relays'[s].batch
      PROVE  relays'[s].batch[n].token <= outbox'[relays'[s].batch[n].message].attempts
  <2>1. PICK d \in Nat : n + d \in DOMAIN relays[s].batch
                         /\ relays'[s].batch[n] = relays[s].batch[n + d]
    BY <1>2 DEF LeftOf
  <2> PICK e : e = relays[s].batch[n + d]
    OBVIOUS
  <2>2. e.token <= outbox[e.message].attempts
    BY <2>1 DEF PipelineIInv, ClaimsInv
  <2>3. e.message \in DOMAIN outbox
    BY <1>1, <2>1 DEF PipelineIInv, RelaysInv, BatchOK
  <2>4. e.token \in Nat /\ outbox[e.message].attempts \in Nat
    <3>1. e \in BatchEntry
      BY <2>1, RelayFacts, ElementOfSeq DEF PipelineIInv
    <3>2. outbox[e.message] \in OutboxMessage
      BY <2>3 DEF PipelineIInv, TypeInv
    <3> QED BY <3>1, <3>2 DEF BatchEntry, OutboxMessage
  <2>5. outbox'[e.message].attempts \in Nat
    <3>1. outbox'[e.message] \in OutboxMessage
      BY <1>1, <2>3, MovesFacts DEF Moves
    <3> QED BY <3>1 DEF OutboxMessage
  <2>6. outbox[e.message].attempts <= outbox'[e.message].attempts
    BY <2>3
  <2>7. e.token <= outbox'[e.message].attempts
    BY <2>2, <2>4, <2>5, <2>6
  <2> QED BY <2>1, <2>7
<1>4. ASSUME NEW s \in Relay, NEW t \in Relay, NEW m \in DOMAIN relays'[s].batch,
             NEW n \in DOMAIN relays'[t].batch,
             relays'[s].batch[m] = relays'[t].batch[n]
      PROVE  s = t /\ m = n
  <2>1. PICK d \in Nat : \A j \in DOMAIN relays'[s].batch :
                            j + d \in DOMAIN relays[s].batch
                            /\ relays'[s].batch[j] = relays[s].batch[j + d]
    BY <1>2 DEF LeftOf
  <2>2. PICK e \in Nat : \A j \in DOMAIN relays'[t].batch :
                            j + e \in DOMAIN relays[t].batch
                            /\ relays'[t].batch[j] = relays[t].batch[j + e]
    BY <1>2 DEF LeftOf
  <2>3. s = t /\ m + d = n + e
    BY <1>4, <2>1, <2>2 DEF PipelineIInv, ClaimsInv
  <2>4. m \in Nat /\ n \in Nat
    <3>1. \A u \in Relay : relays'[u].batch \in Seq(BatchEntry)
      BY <1>1, RelayFacts DEF PipelineIInv, RelayRecord
    <3> QED BY <3>1
  <2>5. m + d \in DOMAIN relays[s].batch /\ n + d \in DOMAIN relays[s].batch
        /\ relays[s].batch[m + d] = relays[s].batch[n + d]
    BY <1>4, <2>1, <2>3
  <2>6. m + d = n + d
    BY <2>5 DEF PipelineIInv, ClaimsInv
  <2> QED BY <2>3, <2>4, <2>6
<1> QED BY <1>3, <1>4 DEF ClaimsInv

LEMMA OutboxStands ==
    ASSUME PipelineIInv, NEW r \in Relay, NEW x, Moves(r, x), outbox' = outbox
    PROVE  OutboxInv'
<1>1. /\ Grows /\ DOMAIN outbox = DOMAIN log /\ TypeInv
      /\ Len(log') \in Nat /\ DOMAIN log' = 1 .. Len(log')
  BY MovesFacts DEF PipelineIInv
<1> SUFFICES ASSUME NEW i \in DOMAIN outbox
             PROVE  MessageOK(i, outbox[i])'
  BY DEF OutboxInv
<1> PICK m : m = outbox[i]
  OBVIOUS
<1>2. MessageOK(i, m)
  BY DEF PipelineIInv, OutboxInv
<1>3. MessageOK(i, m)'
  BY <1>1, <1>2, MessageStands
<1> QED BY <1>3

LEMMA MessageFacts ==
    ASSUME TypeInv, NEW i \in DOMAIN outbox
    PROVE  /\ outbox[i] \in OutboxMessage /\ outbox[i].attempts \in Nat /\ faults \in Nat
           /\ outbox[i].status \in {"Pending", "Claimed", "Delivered", "DeadLetter"}
           /\ outbox[i].lease \in {"none", "live", "expired"}
           /\ outbox[i].late \in BOOLEAN /\ outbox[i].due \in BOOLEAN
<1> PICK m : m = outbox[i]
  OBVIOUS
<1>1. m \in OutboxMessage /\ faults \in Nat
  BY DEF TypeInv
<1> QED BY <1>1 DEF OutboxMessage

\* What a failing step may do to a message: it has no attempt more.
Paid(m, n) ==
    /\ n.attempts = m.attempts
    /\ m.status = "Delivered" => n.status = "Delivered"
    /\ n.status = "DeadLetter" => m.status = "DeadLetter" \/ MaxAttempts <= m.attempts

LEMMA PaidLess ==
    ASSUME faults \in Nat, NEW i, NEW attempts \in Int, NEW less \in Int, less <= attempts,
           IsPaid(i, attempts)
    PROVE  IsPaid(i, less)
<1>1. PICK row \in Nat : PaidBelow(i, row, attempts)
  BY DEF IsPaid
<1>2. PICK k \in Nat : k < row /\ (k = 0 \/ WasRaced(i, k)) /\ attempts <= faults + k
  BY <1>1 DEF PaidBelow
<1>3. \A n, m \in Int : \A f, g \in Nat : n <= m /\ m <= f + g => n <= f + g
  OBVIOUS
<1>4. less <= faults + k
  BY <1>2, <1>3, Zenon
<1> QED BY <1>1, <1>2, <1>4 DEF IsPaid, PaidBelow

LEMMA FaultPaysOne ==
    ASSUME Grows, faults \in Nat, faults' = faults + 1, NEW i, NEW attempts \in Nat,
           IsPaid(i, attempts - 1)
    PROVE  \A less \in Int : less <= attempts => IsPaid(i, less)'
<1>1. PICK row \in Nat : PaidBelow(i, row, attempts - 1)
  BY DEF IsPaid
<1>2. PICK k \in Nat : k < row /\ (k = 0 \/ WasRaced(i, k)) /\ attempts - 1 <= faults + k
  BY <1>1 DEF PaidBelow
<1>3. WasRaced(i, k) => WasRaced(i, k)'
  BY DEF WasRaced, Grows, StoredRows, RowsOf
<1>4. \A m \in Int : \A n, f, g \in Nat : m <= n /\ n - 1 <= f + g => m <= (f + 1) + g
  OBVIOUS
<1>5. \A less \in Int : less <= attempts => less <= faults' + k
  BY <1>2, <1>4
<1> QED BY <1>1, <1>2, <1>3, <1>5 DEF IsPaid, PaidBelow

\* A fault pays for the attempt that is under way.
LEMMA FaultPays ==
    ASSUME PipelineIInv, Grows, faults' = faults + 1, DOMAIN outbox' = DOMAIN outbox,
           \A i \in DOMAIN outbox : Paid(outbox[i], outbox'[i])
    PROVE  AttemptsInv'
<1> SUFFICES ASSUME straight, NEW i \in DOMAIN outbox
             PROVE  AttemptOK(i, outbox[i])'
  BY DEF AttemptsInv, Grows
<1> PICK n : n = outbox'[i]
  OBVIOUS
<1> PICK m : m = outbox[i]
  OBVIOUS
<1>1. /\ AttemptOK(i, m) /\ m.attempts \in Nat /\ faults \in Nat /\ faults' \in Nat
      /\ faults <= faults'
  BY MessageFacts DEF PipelineIInv, AttemptsInv
<1>2. Paid(m, n)
  OBVIOUS
<1>3. n.status # "Delivered" => m.status # "Delivered"
  BY <1>2 DEF Paid
<1>4. n.attempts = m.attempts /\ m.attempts - 1 \in Int /\ m.attempts - 1 <= m.attempts
  BY <1>1, <1>2 DEF Paid
<1>5. n.status # "Delivered" => \A less \in Int : less <= m.attempts => IsPaid(i, less)'
  BY <1>1, <1>3, FaultPaysOne DEF AttemptOK
<1>6. n.status # "Delivered" => IsPaid(i, m.attempts)' /\ IsPaid(i, m.attempts - 1)'
  BY <1>1, <1>4, <1>5
<1>7. n.status = "DeadLetter" => IsPaid(i, MaxAttempts)'
  <2>1. CASE m.status = "DeadLetter"
    <3>1. IsPaid(i, MaxAttempts)
      BY <1>1, <2>1 DEF AttemptOK
    <3> QED BY <1>1, <3>1, Bounds, PaidStays
  <2>2. CASE MaxAttempts <= m.attempts /\ n.status = "DeadLetter"
    BY <1>1, <1>5, <2>2, Bounds
  <2> QED BY <1>2, <2>1, <2>2 DEF Paid
<1>8. AttemptOK(i, n)'
  BY <1>4, <1>6, <1>7 DEF AttemptOK
<1> QED BY <1>8

\* Relay r works on the same batch, and has not failed.
LEMMA WorkStands ==
    ASSUME PipelineIInv, NEW r \in Relay, NEW x, Moves(r, x), UNCHANGED <<outbox, faults>>,
           x.batch = relays[r].batch, straight' => x.at # "nack",
           x.at = "insert" => \A attempts \in Int :
              IsPaid(HeadOf(x), attempts) => PaidBelow(HeadOf(x), x.row, attempts)
    PROVE  AttemptsInv'
<1>1. /\ relays'[r] = x /\ \A s \in Relay : s # r => relays'[s] = relays[s]
      /\ Grows /\ faults \in Nat /\ faults' \in Nat /\ faults <= faults'
  BY MovesFacts
<1> SUFFICES ASSUME straight', NEW i \in DOMAIN outbox
             PROVE  AttemptOK(i, outbox[i])'
  BY DEF AttemptsInv
<1>2. straight /\ x.at # "nack"
  BY DEF Moves
<1> PICK m : m = outbox[i]
  OBVIOUS
<1>3. AttemptOK(i, m) /\ m.attempts \in Nat
  BY <1>2, MessageFacts DEF PipelineIInv, AttemptsInv
<1> PICK before : before = m.attempts - 1
  OBVIOUS
<1>4. before \in Int
  BY <1>3
<1>5. ASSUME NEW s \in Relay, WorksOn(relays[s], i, m.attempts), m.status # "Delivered"
      PROVE  WorksOn(relays[s], i, m.attempts)'
  <2>1. CASE s = r
    <3>1. PICK n \in DOMAIN x.batch : x.batch[n] = [message |-> i, token |-> m.attempts]
      BY <1>5, <2>1 DEF WorksOn
    <3>2. ASSUME x.at = "insert", n = 1
          PROVE  PaidBelow(i, x.row, before)'
      <4>1. HeadOf(x) = i
        <5>1. x.batch \in Seq(BatchEntry)
          BY RelayFacts DEF PipelineIInv
        <5> QED BY <3>1, <3>2, <5>1 DEF HeadOf
      <4>2. IsPaid(i, before)
        BY <1>3, <1>5 DEF AttemptOK
      <4>3. PaidBelow(i, x.row, before)
        BY <1>4, <3>2, <4>1, <4>2
      <4> QED BY <1>1, <1>4, <4>3, PaidStays
    <3>3. WorksOn(x, i, m.attempts)'
      BY <1>2, <3>1, <3>2 DEF WorksOn
    <3> QED BY <1>1, <2>1, <3>3
  <2>2. CASE s # r
    <3> PICK z : z = relays[s]
      OBVIOUS
    <3>1. WorksOn(z, i, m.attempts)'
      BY <1>1, <1>3, <1>5, WorkStays
    <3>2. relays'[s] = z
      BY <1>1, <2>2
    <3> QED BY <3>1, <3>2
  <2> QED BY <2>1, <2>2
<1>6. /\ IsPaid(i, before) => IsPaid(i, before)'
      /\ IsPaid(i, m.attempts) => IsPaid(i, m.attempts)'
      /\ IsPaid(i, MaxAttempts) => IsPaid(i, MaxAttempts)'
  BY <1>1, <1>3, <1>4, PaidStays, Bounds
<1>7. AttemptOK(i, m)'
  BY <1>3, <1>5, <1>6, Zenon DEF AttemptOK
<1> QED BY <1>7

\* Relay r has the same claims, or fewer of them; nobody inserts a row.
LEMMA SoleStands ==
    ASSUME PipelineIInv, NEW r \in Relay, NEW x \in RelayRecord, Moves(r, x),
           UNCHANGED <<outbox, replay, raced>>, LeftOf(x.batch, relays[r].batch),
           x.at = "insert" => StoredRows(HeadOf(x), x.row) = {}
    PROVE  SoleInv'
<1>1. /\ relays'[r] = x /\ \A s \in Relay : s # r => relays'[s] = relays[s]
      /\ faults \in Nat /\ faults' \in Nat /\ faults <= faults'
  BY MovesFacts DEF FaultsGrow
<1>2. faults' = 0 => faults = 0 /\ raced' = {}
  BY <1>1 DEF PipelineIInv, SoleInv
<1> SUFFICES ASSUME faults' = 0, NEW s \in Relay
             PROVE  IsSole(relays[s])'
  BY <1>2 DEF SoleInv
<1>3. \A t \in Relay : IsSole(relays[t])
  BY <1>2 DEF PipelineIInv, SoleInv
<1>4. \A i, k : StoredRows(i, k)' = StoredRows(i, k)
  BY DEF StoredRows, RowsOf
<1>5. CASE s = r
  <2>1. IsSole(relays[r])
    BY <1>3
  <2>2. \A n \in DOMAIN x.batch :
           /\ outbox[x.batch[n].message].lease = "live"
           /\ outbox[x.batch[n].message].attempts = x.batch[n].token
    BY <2>1 DEF IsSole, LeftOf
  <2>3. IsSole(x)'
    BY <1>4, <2>2 DEF IsSole, HeadOf
  <2> QED BY <1>1, <1>5, <2>3
<1>6. CASE s # r
  <2> PICK z : z = relays[s]
    OBVIOUS
  <2>1. IsSole(z)'
    BY <1>3, <1>4 DEF IsSole, HeadOf
  <2>2. relays'[s] = z
    BY <1>1, <1>6
  <2> QED BY <2>1, <2>2
<1> QED BY <1>5, <1>6

\* After a fault nothing is sole.
LEMMA SoleIsOver ==
    ASSUME faults \in Nat, faults' = faults + 1
    PROVE  SoleInv'
<1>1. faults' # 0
  OBVIOUS
<1> QED BY <1>1 DEF SoleInv

LEMMA HeadFacts ==
    ASSUME PipelineIInv, NEW r \in Relay, relays[r].at # "idle"
    PROVE  /\ relays[r].batch # <<>> /\ relays[r].batch \in Seq(BatchEntry)
           /\ 1 \in DOMAIN relays[r].batch
           /\ relays[r].batch[1] = [message |-> Message(r), token |-> Token(r)]
           /\ Message(r) = relays[r].batch[1].message /\ Token(r) = relays[r].batch[1].token
           /\ HeadOf(relays[r]) = Message(r)
           /\ Message(r) \in DOMAIN log /\ Message(r) \in DOMAIN outbox
           /\ Message(r) \in Nat /\ Token(r) \in Nat
<1>1. relays[r].batch \in Seq(BatchEntry) /\ BatchOK(relays[r])
  BY RelayFacts DEF PipelineIInv, RelaysInv
<1>2. relays[r].batch # <<>> /\ \A n \in DOMAIN relays[r].batch : relays[r].batch[n].message \in DOMAIN log
  BY <1>1 DEF BatchOK
<1> PICK b : b = relays[r].batch
  OBVIOUS
<1>3. 1 \in DOMAIN b /\ Head(b) = b[1] /\ b[1] \in BatchEntry
  BY <1>1, <1>2
<1>4. b[1] = [message |-> b[1].message, token |-> b[1].token] /\ b[1].token \in Nat
  BY <1>3 DEF BatchEntry
<1>5. Message(r) = b[1].message /\ Token(r) = b[1].token /\ HeadOf(relays[r]) = b[1].message
  BY <1>3 DEF Message, Token, HeadOf
<1>6. DOMAIN outbox = DOMAIN log /\ DOMAIN log \subseteq Nat
  BY DEF PipelineIInv, TypeInv
<1> QED BY <1>1, <1>2, <1>3, <1>4, <1>5, <1>6

LEMMA RelayOK ==
    ASSUME PipelineIInv, NEW r \in Relay
    PROVE  /\ relays[r] \in RelayRecord /\ DraftsOK(relays[r]) /\ BatchOK(relays[r])
           /\ straight => InOrder(relays[r])
BY RelayFacts DEF PipelineIInv, RelaysInv

\* A record of a relay, with the fields that a step sets.
LEMMA RelayRecordFacts ==
    ASSUME NEW y \in RelayRecord
    PROVE  /\ y = [at |-> y.at, batch |-> y.batch, row |-> y.row, encoder |-> y.encoder,
                   drafts |-> y.drafts, stored |-> y.stored]
           /\ y.at \in {"idle", "load", "append", "insert", "ack", "nack"}
           /\ y.batch \in Seq(BatchEntry) /\ y.row \in Nat /\ y.encoder \in Encoder
           /\ y.drafts \in DraftTable /\ y.stored \in SUBSET Nat
BY DEF RelayRecord

\* A relay that has changed what it does, not what it has stored.
LEMMA SameDrafts ==
    ASSUME PipelineIInv, NEW r \in Relay, NEW x \in RelayRecord,
           x.drafts = relays[r].drafts, x.encoder = relays[r].encoder,
           x.stored = relays[r].stored, Moves(r, x)
    PROVE  DraftsOK(x)' /\ (straight' => InOrder(x)')
<1>1. DraftsOK(relays[r]) /\ (straight => InOrder(relays[r]))
  BY RelayOK
<1>2. DraftsOK(x) /\ (straight => InOrder(x))
  BY <1>1 DEF DraftsOK, InOrder
<1>3. Grows /\ Len(log) \in Nat /\ DOMAIN log = 1 .. Len(log) /\ log' = log
  BY MovesFacts
<1>4. DraftsOK(x)'
  BY <1>2, <1>3, DraftsStand
<1>5. straight => InOrder(x)'
  BY <1>2, <1>3, OrderStands DEF PipelineIInv
<1> QED BY <1>4, <1>5 DEF Moves

----------------------------------------------------------------------------
(* A message is delivered.                                                  *)

LEMMA LoadsKeeps ==
    ASSUME PipelineIInv, NEW r \in Relay, Loads(r)
    PROVE  PipelineIInv'
<1> PICK y : y = relays[r]
  OBVIOUS
<1> PICK i : i = Message(r)
  OBVIOUS
<1>1. /\ At(r, "load") /\ y.at = "load"
      /\ UNCHANGED <<live, run, buffer, pending, version, covered, log, outbox, replay, raced,
                     faults>>
  BY DEF Loads, At, runVars
<1>2. /\ y \in RelayRecord /\ DraftsOK(y) /\ BatchOK(y) /\ (straight => InOrder(y))
      /\ TypeInv /\ y.drafts \in DraftTable /\ y.encoder \in Encoder
  BY RelayOK, RelayFacts DEF PipelineIInv
<1>3. /\ y.batch # <<>> /\ i \in DOMAIN log /\ HeadOf(y) = i /\ i \in Nat
  BY <1>1, HeadFacts
<1>4. /\ replay \in Seq(ReplayRow) /\ outbox \in Seq(OutboxMessage) /\ straight \in BOOLEAN
      /\ relays \in [Relay -> RelayRecord] /\ Len(replay) \in Nat /\ FaultsGrow
      /\ swallowed \subseteq Nat /\ raced \subseteq Nat /\ log' \in Seq(Nat)
  BY <1>1, FaultCounts DEF PipelineIInv, TypeInv
<1>5. /\ DOMAIN y.drafts \subseteq 1 .. MaxLive /\ IsFiniteSet(DOMAIN y.drafts)
      /\ y.drafts \in [DOMAIN y.drafts -> Seq(Content)] /\ Cardinality(DOMAIN y.drafts) \in Nat
  BY <1>2, DraftFacts
<1>g. Grows /\ straight' \in BOOLEAN /\ swallowed' \subseteq Nat
  <2>1. \A j \in DOMAIN log : KindOf(j)' = KindOf(j)
    BY <1>1 DEF KindOf
  <2>2. /\ straight' \in BOOLEAN /\ (straight' => straight)
        /\ swallowed \subseteq swallowed' /\ swallowed' \subseteq Nat
    BY <1>3, <1>4 DEF Loads
  <2> QED BY <1>1, <2>1, <2>2 DEF Grows
<1>6. ASSUME NEW x \in RelayRecord, relays' = [relays EXCEPT ![r] = x], x.batch = y.batch,
             x.at \in {"append", "ack"}, DraftsOK(x)', BatchOK(x), straight' => InOrder(x)
      PROVE  PipelineIInv'
  <2>1. Moves(r, x)
    BY <1>1, <1>4, <1>6, <1>g DEF Moves, Grows
  <2>2. Grows /\ Len(log) \in Nat /\ DOMAIN log = 1 .. Len(log) /\ log' = log
    BY <2>1, MovesFacts
  <2>3. BatchOK(x)' /\ (straight' => InOrder(x)')
    BY <1>2, <1>6, <2>2, BatchStands, OrderStands
  <2>4. TypeInv' /\ LogInv' /\ RunInv' /\ RelaysInv'
    BY <1>6, <2>1, <2>3, MovesKeeps
  <2>5. ReplayInv' /\ StraightRows'
    BY <1>1, <1>4, <2>2, ReplayStands
  <2>6. OutboxInv'
    BY <1>1, <2>1, OutboxStands
  <2>7. ClaimsInv'
    <3>1. LeftOf(x.batch, relays[r].batch)
      BY <1>2, <1>6, WhatIsLeft, RelayRecordFacts
    <3>2. \A j \in DOMAIN outbox : outbox[j].attempts <= outbox'[j].attempts
      BY <1>1, <1>2, MessageFacts
    <3> QED BY <1>6, <2>1, <3>1, <3>2, ClaimsLeft
  <2>8. AttemptsInv'
    BY <1>1, <1>6, <2>1, WorkStands
  <2>9. SoleInv'
    <3>1. LeftOf(x.batch, relays[r].batch) /\ x.at # "insert"
      BY <1>2, <1>6, WhatIsLeft, RelayRecordFacts
    <3> QED BY <1>1, <2>1, <3>1, SoleStands
  <2> QED BY <2>4, <2>5, <2>6, <2>7, <2>8, <2>9 DEF PipelineIInv
<1>7. CASE i \in y.stored
  <2> PICK x : x = [y EXCEPT !.at = "ack"]
    OBVIOUS
  <2>1. /\ x \in RelayRecord /\ x.at = "ack" /\ x.batch = y.batch /\ x.drafts = y.drafts
        /\ x.encoder = y.encoder /\ x.stored = y.stored
    BY <1>2 DEF RelayRecord
  <2>2. relays' = [relays EXCEPT ![r] = x] /\ straight' = straight
    BY <1>7 DEF Loads, Relays
  <2>5. DraftsOK(x) /\ (straight => InOrder(x))
    BY <1>2, <2>1 DEF DraftsOK, InOrder
  <2>3. DraftsOK(x)' /\ (straight => InOrder(x))
    BY <1>g, <2>1, <2>5, DraftsStand
  <2>4. BatchOK(x)
    BY <1>1, <1>2, <1>3, <1>7, <2>1 DEF BatchOK, HeadOf
  <2> QED BY <1>6, <2>1, <2>2, <2>3, <2>4
<1>8. CASE i \notin y.stored
  <2> PICK d : d = Drafts(r, i)
    OBVIOUS
  <2>t. PICK t : t = [j \in DOMAIN y.drafts \cup {i} |-> IF j = i THEN d.rows ELSE y.drafts[j]]
    OBVIOUS
  <2>x. PICK x : x = [y EXCEPT !.at = "append", !.row = 1, !.encoder = d.encoder, !.drafts = t]
    OBVIOUS
  <2>1. relays' = [relays EXCEPT ![r] = x]
    <3>1. relays' = [Relays(r, "append") EXCEPT ![r].row = 1, ![r].encoder = d.encoder,
                                                ![r].drafts = t]
      BY <1>8, <2>t DEF Loads
    <3>2. Relays(r, "append") = [relays EXCEPT ![r] = [y EXCEPT !.at = "append"]]
      BY <1>4 DEF Relays
    <3> QED BY <1>2, <1>4, <2>x, <3>1, <3>2
  <2>2. straight' = (straight /\ (i \in DOMAIN y.drafts \/ DOMAIN y.drafts = 1 .. (i - 1)))
    BY <1>8 DEF Loads
  <2>3. straight' \in BOOLEAN /\ (straight' => straight)
    BY <1>4, <2>2
  <2>4. KindOf(i) \in Kind /\ i <= MaxLive /\ i > 0 /\ i \in 1 .. MaxLive
    <3>1. KindOf(i) \in Kind /\ i <= MaxLive /\ i > 0
      BY <1>2, <1>3, LogFacts DEF PipelineIInv
    <3> QED BY <1>3, <3>1, Bounds
  <2>5. y.encoder \in SmallEncoder
    <3>1. Cardinality(DOMAIN y.drafts) <= MaxLive
      BY <1>5, UpToMaxLive
    <3>2. y.encoder.count <= Cardinality(DOMAIN y.drafts)
      BY <1>2 DEF DraftsOK
    <3>3. y.encoder.open \in BOOLEAN /\ y.encoder.count \in Nat /\ y.encoder.finished \in BOOLEAN
          /\ y.encoder = [open |-> y.encoder.open, count |-> y.encoder.count,
                          finished |-> y.encoder.finished]
      BY <1>2 DEF Encoder
    <3>4. y.encoder.count \in 0 .. MaxLive
      BY <1>5, <3>1, <3>2, <3>3, Bounds
    <3> QED BY <3>3, <3>4 DEF SmallEncoder
  <2>6. /\ d.rows \in Seq(Content) /\ d.encoder \in Encoder /\ MayBe(i, d.rows)
        /\ d.encoder.count <= Cardinality(DOMAIN t)
        /\ t \in DraftTable /\ DOMAIN t = DOMAIN y.drafts \cup {i} /\ t[i] = d.rows
        /\ \A j \in DOMAIN y.drafts : t[j] = y.drafts[j]
        /\ straight' => \E k \in 0 .. Len(log) :
              /\ DOMAIN t = 1 .. k /\ d.encoder = EncoderAfter[k]
              /\ \A j \in 1 .. k : t[j] = Reference(j)
    <3>1. CASE i \in DOMAIN y.drafts
      <4>1. d.rows = y.drafts[i] /\ d.encoder = y.encoder
        BY <3>1 DEF Drafts
      <4>2. t = y.drafts
        BY <1>5, <2>t, <3>1, <4>1
      <4>3. y.drafts[i] \in Seq(Content) /\ DOMAIN y.drafts = DOMAIN y.drafts \cup {i}
        BY <1>5, <3>1
      <4>4. MayBe(i, d.rows) /\ y.encoder.count <= Cardinality(DOMAIN y.drafts)
        BY <1>2, <3>1, <4>1 DEF DraftsOK
      <4>5. straight' => \E k \in 0 .. Len(log) :
              /\ DOMAIN y.drafts = 1 .. k /\ y.encoder = EncoderAfter[k]
              /\ \A j \in 1 .. k : y.drafts[j] = Reference(j)
        BY <1>2, <2>3 DEF InOrder
      <4> QED BY <1>2, <4>1, <4>2, <4>3, <4>4, <4>5
    <3>2. CASE i \notin DOMAIN y.drafts
      <4>1. d.rows = Rows(y.encoder, KindOf(i)) /\ d.encoder = EncoderNext(y.encoder, KindOf(i))
        BY <3>2 DEF Drafts
      <4>2. d.rows \in Seq(Content) /\ MayBe(i, d.rows)
        BY <1>2, <2>4, <2>5, <4>1, RowsType DEF MayBe
      <4>3. d.encoder \in Encoder /\ d.encoder.count <= y.encoder.count + 1
        BY <1>2, <4>1, EncoderNextType
      <4>4. /\ t \in DraftTable /\ DOMAIN t = DOMAIN y.drafts \cup {i} /\ t[i] = d.rows
            /\ \A j \in DOMAIN y.drafts : j # i => t[j] = y.drafts[j]
            /\ Cardinality(DOMAIN t) = Cardinality(DOMAIN y.drafts) + 1
        <5>1. Extends(t, y.drafts, i, d.rows)
          BY <2>t DEF Extends
        <5>2. y.drafts \in DraftTable /\ i \in 1 .. MaxLive /\ d.rows \in Seq(Content)
          BY <1>2, <2>4, <4>2
        <5>3. /\ t \in DraftTable /\ DOMAIN t = DOMAIN y.drafts \cup {i} /\ t[i] = d.rows
              /\ \A j \in DOMAIN y.drafts : j # i => t[j] = y.drafts[j]
              /\ i \notin DOMAIN y.drafts =>
                    Cardinality(DOMAIN t) = Cardinality(DOMAIN y.drafts) + 1
          <6>1. t \in DraftTable
            BY <5>1, <5>2, ExtendedTable
          <6>2. t[i] = d.rows /\ \A j \in DOMAIN y.drafts : j # i => t[j] = y.drafts[j]
            BY <5>1, ExtendedRows
          <6>3. DOMAIN t = DOMAIN y.drafts \cup {i}
            BY <5>1, ExtendedDomain, Zenon
          <6>4. i \notin DOMAIN y.drafts =>
                   Cardinality(DOMAIN t) = Cardinality(DOMAIN y.drafts) + 1
            BY <1>5, <6>3, FS_AddElement
          <6> QED BY <6>1, <6>2, <6>3, <6>4
        <5> QED BY <3>2, <5>3
      <4>5. d.encoder.count <= Cardinality(DOMAIN t)
        <5>1. y.encoder.count <= Cardinality(DOMAIN y.drafts)
          BY <1>2 DEF DraftsOK
        <5>2. y.encoder.count \in Nat /\ d.encoder.count \in Nat
          BY <1>2, <4>3 DEF Encoder
        <5> QED BY <1>5, <4>3, <4>4, <5>1, <5>2
      <4>6. ASSUME straight'
            PROVE  /\ i \in 0 .. Len(log) /\ DOMAIN t = 1 .. i /\ d.encoder = EncoderAfter[i]
                   /\ \A j \in 1 .. i : t[j] = Reference(j)
        <5>1. straight /\ DOMAIN y.drafts = 1 .. (i - 1)
          BY <2>2, <3>2, <4>6
        <5>2. PICK k \in 0 .. Len(log) :
                 /\ DOMAIN y.drafts = 1 .. k /\ y.encoder = EncoderAfter[k]
                 /\ \A j \in 1 .. k : y.drafts[j] = Reference(j)
          BY <1>2, <5>1 DEF InOrder
        <5>3. k = i - 1
          <6>1. k \in Nat /\ i - 1 \in Nat /\ 1 .. k = 1 .. (i - 1)
            BY <2>4, <5>1, <5>2, <1>2 DEF TypeInv
          <6> HIDE <5>2
          <6> QED BY <6>1
        <5>4. d.rows = Reference(i) /\ d.encoder = EncoderAfter[i]
          <6>1. EncoderAfter[i] = EncoderNext(EncoderAfter[i - 1], KindOf(i))
            BY <1>3, <2>4, EncoderUnfolds
          <6> QED BY <4>1, <5>2, <5>3, <6>1 DEF Reference
        <5>5. DOMAIN t = 1 .. i
          <6>1. (1 .. (i - 1)) \cup {i} = 1 .. i
            BY <2>4
          <6> QED BY <4>4, <5>1, <6>1
        <5>6. i \in 0 .. Len(log)
          <6>1. DOMAIN log = 1 .. Len(log)
            BY <1>2, RunFacts
          <6> QED BY <1>3, <6>1
        <5>7. ASSUME NEW j \in 1 .. i
              PROVE  t[j] = Reference(j)
          <6>1. CASE j = i
            BY <4>4, <5>4, <6>1
          <6>2. CASE j # i
            <7>1. j \in 1 .. k /\ j \in DOMAIN y.drafts
              BY <2>4, <5>2, <5>3, <6>2
            <7> QED BY <4>4, <5>2, <6>2, <7>1
          <6> QED BY <6>1, <6>2
        <5> QED BY <5>4, <5>5, <5>6, <5>7
      <4> QED BY <3>2, <4>2, <4>3, <4>4, <4>5, <4>6
    <3> QED BY <3>1, <3>2
  <2>8. /\ x \in RelayRecord /\ x.at = "append" /\ x.batch = y.batch /\ x.row = 1
        /\ x.encoder = d.encoder /\ x.drafts = t /\ x.stored = y.stored
    BY <1>2, <2>6, <2>x DEF RelayRecord
  <2>9. DraftsOK(x)'
    <3>1. ASSUME NEW j \in DOMAIN t
          PROVE  j \in DOMAIN log' /\ MayBe(j, t[j])'
      <4>1. j \in DOMAIN log /\ MayBe(j, t[j])
        BY <1>2, <1>3, <2>6, <3>1 DEF DraftsOK
      <4> QED BY <1>1, <4>1 DEF MayBe, KindOf
    <3>2. ASSUME NEW j \in y.stored
          PROVE  AllStored(j, t[j])'
      <4>1. j \in DOMAIN y.drafts /\ AllStored(j, t[j])
        BY <1>2, <2>6, <3>2 DEF DraftsOK
      <4> QED BY <1>g, <4>1, StoredStays
    <3>3. y.stored \subseteq DOMAIN t
      BY <1>2, <2>6 DEF DraftsOK
    <3>4. ASSUME NEW j \in DOMAIN t, t[j] = <<>>
          PROVE  j \in swallowed'
      <4>1. swallowed' = IF d.rows = <<>> THEN swallowed \cup {i} ELSE swallowed
        BY <1>8 DEF Loads
      <4>2. CASE j = i
        BY <2>6, <3>4, <4>1, <4>2
      <4>3. CASE j # i
        BY <1>2, <2>6, <3>4, <4>1, <4>3 DEF DraftsOK
      <4> QED BY <4>2, <4>3
    <3> QED BY <2>6, <2>8, <3>1, <3>2, <3>3, <3>4 DEF DraftsOK
  <2>10. BatchOK(x)
    <3>1. Len(t[i]) \in Nat /\ HeadOf(x) = i /\ i \in DOMAIN t
      BY <1>3, <2>6, <2>8 DEF HeadOf
    <3>2. \A n \in DOMAIN y.batch : y.batch[n].message \in DOMAIN log
      BY <1>2 DEF BatchOK
    <3>3. 1 <= Len(t[i]) + 1 /\ 1 .. 1 - 1 = {}
      BY <3>1
    <3> QED BY <1>3, <2>8, <3>1, <3>2, <3>3 DEF BatchOK
  <2>11. straight' => InOrder(x)
    BY <2>6, <2>8 DEF InOrder
  <2> QED BY <1>6, <2>1, <2>8, <2>9, <2>10, <2>11
<1> QED BY <1>7, <1>8

\* A relay that appends the rows of an event.
LEMMA AppendFacts ==
    ASSUME PipelineIInv, NEW r \in Relay, relays[r].at \in {"append", "insert"},
           NEW i, i = Message(r), NEW rows, rows = relays[r].drafts[i]
    PROVE  /\ i \in DOMAIN relays[r].drafts /\ i \in DOMAIN log /\ i \in Nat
           /\ rows \in Seq(Content) /\ Len(rows) \in Nat /\ DOMAIN rows = 1 .. Len(rows)
           /\ MayBe(i, rows) /\ (straight => rows = Reference(i))
           /\ relays[r].row \in Nat /\ 1 <= relays[r].row /\ HeadOf(relays[r]) = i
           /\ relays[r].at = "insert" => relays[r].row <= Len(rows)
           /\ \A k \in 1 .. relays[r].row - 1 : IsStored(i, k, rows[k])
<1>2. i \in DOMAIN log /\ i \in Nat /\ HeadOf(relays[r]) = i
  BY HeadFacts
<1>3. /\ relays[r].drafts \in DraftTable /\ relays[r].row \in Nat
      /\ DraftsOK(relays[r]) /\ BatchOK(relays[r]) /\ (straight => InOrder(relays[r]))
  BY RelayOK, RelayRecordFacts
<1>4. /\ i \in DOMAIN relays[r].drafts /\ 1 <= relays[r].row
      /\ relays[r].at = "insert" => relays[r].row <= Len(rows)
      /\ \A k \in 1 .. relays[r].row - 1 : IsStored(i, k, rows[k])
  BY <1>2, <1>3 DEF BatchOK
<1>5. rows \in Seq(Content) /\ Len(rows) \in Nat /\ DOMAIN rows = 1 .. Len(rows)
  <2>1. relays[r].drafts \in [DOMAIN relays[r].drafts -> Seq(Content)]
    BY <1>3, DraftFacts
  <2> QED BY <1>4, <2>1
<1>6. MayBe(i, rows)
  BY <1>3, <1>4 DEF DraftsOK
<1>7. straight => rows = Reference(i)
  BY <1>3, <1>4 DEF InOrder
<1> QED BY <1>2, <1>3, <1>4, <1>5, <1>6, <1>7

LEMMA ReplayFacts ==
    ASSUME TypeInv
    PROVE  /\ replay \in Seq(ReplayRow) /\ Len(replay) \in Nat
           /\ DOMAIN replay = 1 .. Len(replay)
           /\ \A n \in DOMAIN replay :
                 /\ replay[n] \in ReplayRow
                 /\ replay[n].event \in Nat /\ replay[n].index \in Nat
                 /\ replay[n] = [event |-> replay[n].event, index |-> replay[n].index,
                                 content |-> replay[n].content]
<1>1. replay \in Seq(ReplayRow)
  BY DEF TypeInv
<1>2. Len(replay) \in Nat /\ DOMAIN replay = 1 .. Len(replay)
  BY <1>1
<1>3. \A n \in DOMAIN replay : replay[n] \in ReplayRow
  BY <1>1, <1>2, ElementOfSeq
<1>4. \A x \in ReplayRow : /\ x.event \in Nat /\ x.index \in Nat
                           /\ x = [event |-> x.event, index |-> x.index, content |-> x.content]
  BY DEF ReplayRow
<1> QED BY <1>1, <1>2, <1>3, <1>4

\* The next row of the drafts of an event, which is not stored yet, is stored.
LEMMA RowAppended ==
    ASSUME PipelineIInv, NEW r \in Relay, At(r, "insert"), NEW i, i = Message(r),
           NEW rows, rows = relays[r].drafts[i], NEW j, j = relays[r].row, j <= Len(rows),
           StoredRows(i, j) = {}, replay' = Append(replay, Row(r)),
           UNCHANGED <<live, log, straight, swallowed, raced>>
    PROVE  /\ replay' \in Seq(ReplayRow) /\ Len(replay') = Len(replay) + 1
           /\ \A n \in 1 .. Len(replay) : replay'[n] = replay[n]
           /\ IsStored(i, j, rows[j])' /\ Grows /\ ReplayInv' /\ StraightRows'
<1>1. /\ i \in DOMAIN log /\ i \in Nat /\ rows \in Seq(Content) /\ Len(rows) \in Nat
      /\ DOMAIN rows = 1 .. Len(rows) /\ MayBe(i, rows) /\ (straight => rows = Reference(i))
      /\ j \in Nat /\ 1 <= j /\ \A k \in 1 .. j - 1 : IsStored(i, k, rows[k])
  BY AppendFacts DEF At
<1> PICK new : new = [event |-> i, index |-> j, content |-> rows[j]]
  OBVIOUS
<1>2. new \in ReplayRow /\ j \in DOMAIN rows /\ new.event = i /\ new.index = j
      /\ new.content = rows[j]
  <2>1. j \in 1 .. Len(rows) /\ rows[j] \in Content
    BY <1>1, ElementOfSeq
  <2> QED BY <1>1, <2>1 DEF ReplayRow
<1>3. replay' = Append(replay, new)
  BY DEF Row
<1>4. /\ TypeInv /\ ReplayInv /\ StraightRows /\ replay \in Seq(ReplayRow)
      /\ Len(replay) \in Nat /\ DOMAIN replay = 1 .. Len(replay)
      /\ \A n \in DOMAIN replay :
            replay[n].event \in Nat /\ replay[n].index \in Nat
            /\ replay[n] = [event |-> replay[n].event, index |-> replay[n].index,
                            content |-> replay[n].content]
  BY ReplayFacts DEF PipelineIInv
<1> PICK l : l = Len(replay) + 1
  OBVIOUS
<1>5. /\ replay' \in Seq(ReplayRow) /\ Len(replay') = l /\ DOMAIN replay' = 1 .. l
      /\ \A n \in 1 .. Len(replay) : replay'[n] = replay[n]
      /\ replay'[l] = new
  <2>1. /\ replay' \in Seq(ReplayRow) /\ Len(replay') = l
        /\ \A n \in 1 .. Len(replay) : replay'[n] = replay[n]
        /\ replay'[l] = new
    BY <1>2, <1>3, <1>4
  <2> QED BY <2>1
<1>6. /\ \A n \in DOMAIN replay : n \in DOMAIN replay' /\ replay'[n] = replay[n]
      /\ l \in DOMAIN replay' /\ l \notin DOMAIN replay
      /\ \A n \in DOMAIN replay' : n \in DOMAIN replay \/ n = l
  BY <1>4, <1>5
<1>7. Grows
  <2>1. \A k \in DOMAIN log : KindOf(k)' = KindOf(k)
    BY DEF KindOf
  <2> QED BY <1>6, <2>1 DEF Grows
<1>8. IsStored(i, j, rows[j])'
  BY <1>5, <1>6 DEF IsStored
<1>9. \A e, k : StoredRows(e, k) # {} => StoredRows(e, k)' # {}
  BY <1>6 DEF StoredRows, RowsOf
<1>10. ASSUME NEW n \in DOMAIN replay'
       PROVE  replay'[n].event \in DOMAIN log /\ NoGap(n)'
  <2>1. CASE n \in DOMAIN replay
    <3>1. replay[n].event \in DOMAIN log /\ NoGap(n) /\ replay'[n] = replay[n]
      BY <1>4, <1>6, <2>1 DEF ReplayInv
    <3> QED BY <1>9, <3>1 DEF NoGap
  <2>2. CASE n = l
    <3>1. replay'[n].event = i /\ replay'[n].index = j
      BY <1>2, <1>5, <2>2
    <3>2. ASSUME NEW k \in 1 .. j - 1
          PROVE  StoredRows(i, k) # {}
      <4>1. PICK m \in DOMAIN replay :
               replay[m] = [event |-> i, index |-> k, content |-> rows[k]]
        BY <1>1 DEF IsStored
      <4>2. m \in StoredRows(i, k)
        BY <4>1 DEF StoredRows, RowsOf
      <4> QED BY <4>2
    <3> QED BY <1>1, <1>9, <3>1, <3>2 DEF NoGap
  <2> QED BY <1>6, <2>1, <2>2
<1>11. ASSUME NEW m \in DOMAIN replay', NEW n \in DOMAIN replay',
              replay'[m].event = replay'[n].event, replay'[m].index = replay'[n].index
       PROVE  m = n
  <2>1. ASSUME NEW k \in DOMAIN replay
        PROVE  ~(replay[k].event = i /\ replay[k].index = j)
    BY DEF StoredRows, RowsOf
  <2>2. CASE m \in DOMAIN replay /\ n \in DOMAIN replay
    BY <1>4, <1>6, <1>11, <2>2 DEF ReplayInv
  <2>3. CASE m = l /\ n \in DOMAIN replay
    BY <1>2, <1>5, <1>6, <1>11, <2>1, <2>3
  <2>4. CASE m \in DOMAIN replay /\ n = l
    BY <1>2, <1>5, <1>6, <1>11, <2>1, <2>4
  <2> QED BY <1>6, <2>2, <2>3, <2>4
<1>12. ASSUME NEW e \in DOMAIN log
       PROVE  MadeByOne(e)'
  <2>1. MadeByOne(e) /\ KindOf(e)' = KindOf(e)
    BY <1>4, <1>7 DEF ReplayInv, Grows
  <2>2. PICK enc \in SmallEncoder :
           \A n \in RowsOf(e) : RowFits(replay[n], Rows(enc, KindOf(e)))
    BY <2>1 DEF MadeByOne
  <2>3. CASE e # i
    <3>1. \A n \in RowsOf(e)' : n \in RowsOf(e) /\ replay'[n] = replay[n]
      BY <1>2, <1>5, <1>6, <2>3 DEF RowsOf
    <3> QED BY <2>1, <2>2, <3>1 DEF MadeByOne
  <2>4. CASE e = i
    <3>1. \E a \in SmallEncoder :
             /\ rows = Rows(a, KindOf(i))
             /\ \A n \in RowsOf(i) : RowFits(replay[n], rows)
      <4>1. PICK b \in SmallEncoder : rows = Rows(b, KindOf(i))
        BY <1>1 DEF MayBe
      <4>2. CASE j = 1
        <5>1. ASSUME NEW n \in RowsOf(i)
              PROVE  FALSE
          <6>1. /\ n \in DOMAIN replay /\ replay[n].event = i /\ replay[n].index \in Nat
                /\ NoGap(n) /\ replay[n].index \in DOMAIN Rows(enc, KindOf(i))
            BY <1>4, <2>2, <2>4, <5>1 DEF RowsOf, ReplayInv, RowFits
          <6>2. replay[n].index >= 1
            <7>1. KindOf(i) \in Kind /\ enc \in Encoder
              BY <1>1, <1>4, LogFacts, SmallIsEncoder DEF PipelineIInv
            <7>2. Rows(enc, KindOf(i)) \in Seq(Content)
              BY <7>1, RowsType
            <7> QED BY <6>1, <7>2
          <6>3. CASE replay[n].index = 1
            BY <4>2, <5>1, <6>3 DEF StoredRows
          <6>4. CASE replay[n].index # 1
            <7>1. 1 \in 1 .. replay[n].index - 1
              BY <6>1, <6>2, <6>4
            <7>2. StoredRows(i, 1) # {}
              BY <6>1, <7>1 DEF NoGap
            <7> QED BY <4>2, <7>2
          <6> QED BY <6>3, <6>4
        <5> QED BY <4>1, <5>1
      <4>3. CASE j # 1
        <5>1. IsStored(i, 1, rows[1])
          BY <1>1, <4>3
        <5>2. PICK n \in DOMAIN replay :
                 replay[n] = [event |-> i, index |-> 1, content |-> rows[1]]
          BY <5>1 DEF IsStored
        <5>3. n \in RowsOf(i)
          BY <5>2 DEF RowsOf
        <5>4. RowFits(replay[n], Rows(enc, KindOf(i)))
          BY <2>2, <2>4, <5>3
        <5>5. rows[1] = Rows(enc, KindOf(i))[1]
          BY <5>2, <5>4 DEF RowFits
        <5>6. KindOf(i) \in Kind /\ enc \in Encoder /\ b \in Encoder
          BY <1>1, <1>4, LogFacts, SmallIsEncoder DEF PipelineIInv
        <5>8. Rows(b, KindOf(i)) # <<>> /\ Rows(enc, KindOf(i)) # <<>>
          <6>1. 1 \in DOMAIN Rows(b, KindOf(i)) /\ 1 \in DOMAIN Rows(enc, KindOf(i))
            BY <1>1, <4>1, <5>2, <5>4 DEF RowFits
          <6> QED BY <6>1
        <5>9. ~IsGuarded(b, KindOf(i)) /\ ~IsGuarded(enc, KindOf(i))
          BY <5>6, <5>8, RowsType
        <5>7. rows = Rows(enc, KindOf(i))
          BY <4>1, <5>5, <5>6, <5>9, FirstRowTells
        <5> QED BY <2>2, <2>4, <5>7
      <4> QED BY <4>2, <4>3
    <3>2. PICK a \in SmallEncoder :
             /\ rows = Rows(a, KindOf(i))
             /\ \A n \in RowsOf(i) : RowFits(replay[n], rows)
      BY <3>1
    <3>3. ASSUME NEW n \in RowsOf(i)'
          PROVE  RowFits(replay'[n], rows)
      <4>1. CASE n \in DOMAIN replay
        BY <1>6, <3>2, <3>3, <4>1 DEF RowsOf
      <4>2. CASE n = l
        BY <1>2, <1>5, <4>2 DEF RowFits
      <4>3. n \in DOMAIN replay'
        BY <3>3 DEF RowsOf
      <4> QED BY <1>6, <4>1, <4>2, <4>3
    <3> QED BY <2>1, <2>4, <3>2, <3>3 DEF MadeByOne
  <2> QED BY <2>3, <2>4
<1>13. ReplayInv'
  <2>1. log' = log
    OBVIOUS
  <2> QED BY <1>10, <1>11, <1>12, <2>1 DEF ReplayInv
<1>14. StraightRows'
  <2> SUFFICES ASSUME straight, NEW n \in DOMAIN replay'
               PROVE  RowFits(replay[n], Reference(replay[n].event))'
    BY DEF StraightRows
  <2> PICK e : e = replay'[n].event
    OBVIOUS
  <2>1. e \in DOMAIN log
    BY <1>10
  <2>2. Reference(e)' = Reference(e)
    <3>1. Len(log') \in Nat /\ DOMAIN log' = 1 .. Len(log')
      BY <1>4, RunFacts
    <3> QED BY <1>4, <1>7, <2>1, <3>1, ReferenceKept
  <2>3. RowFits(replay'[n], Reference(e))
    <3>1. CASE n \in DOMAIN replay
      BY <1>4, <1>6, <3>1 DEF StraightRows
    <3>2. CASE n = l
      BY <1>1, <1>2, <1>5, <3>2 DEF RowFits
    <3> QED BY <1>6, <3>1, <3>2
  <2>4. RowFits(replay'[n], Reference(e)')
    BY <2>2, <2>3
  <2> QED BY <2>4
<1> QED BY <1>5, <1>7, <1>8, <1>13, <1>14

\* A step of a relay that settles nothing.
LEMMA Unsettled ==
    ASSUME PipelineIInv, NEW r \in Relay, NEW x \in RelayRecord, Moves(r, x),
           DraftsOK(x)', BatchOK(x)', straight' => InOrder(x)', ReplayInv', StraightRows',
           outbox' = outbox, LeftOf(x.batch, relays[r].batch),
           faults' = faults + 1 \/ (AttemptsInv' /\ SoleInv')
    PROVE  PipelineIInv'
<1>1. TypeInv' /\ LogInv' /\ RunInv' /\ RelaysInv'
  BY MovesKeeps
<1>2. OutboxInv'
  BY OutboxStands
<1>3. \A i \in DOMAIN outbox : outbox[i].attempts \in Nat
  BY MessageFacts DEF PipelineIInv
<1>4. ClaimsInv'
  <2>1. \A j \in DOMAIN outbox : outbox[j].attempts <= outbox'[j].attempts
    BY <1>3
  <2> QED BY <2>1, ClaimsLeft
<1>5. AttemptsInv' /\ SoleInv'
  <2> SUFFICES ASSUME faults' = faults + 1
               PROVE  AttemptsInv' /\ SoleInv'
    OBVIOUS
  <2>1. \A i \in DOMAIN outbox : Paid(outbox[i], outbox'[i])
    BY DEF Paid
  <2>2. Grows /\ faults \in Nat
    BY MovesFacts
  <2> QED BY <2>1, <2>2, FaultPays, SoleIsOver
<1> QED BY <1>1, <1>2, <1>4, <1>5 DEF PipelineIInv

LEMMA NackOK ==
    ASSUME NEW x, BatchOK(x), x.at # "idle", NEW z, z.batch = x.batch, z.at = "nack"
    PROVE  BatchOK(z)
BY DEF BatchOK

\* Nothing is stored.
LEMMA SameReplay ==
    ASSUME PipelineIInv, UNCHANGED <<live, log, replay, straight, swallowed>>, raced \subseteq raced'
    PROVE  Grows /\ ReplayInv' /\ StraightRows'
<1>1. Grows
  <2>1. \A k \in DOMAIN log : KindOf(k)' = KindOf(k)
    BY DEF KindOf
  <2> QED BY <2>1 DEF Grows
<1> QED BY <1>1, ReplayStands DEF PipelineIInv, TypeInv

\* A relay fails at its message.
LEMMA Fails ==
    ASSUME PipelineIInv, NEW r \in Relay, NEW x, x = [relays[r] EXCEPT !.at = "nack"],
           relays[r].at # "idle", Moves(r, x)
    PROVE  /\ x \in RelayRecord /\ x.at = "nack" /\ x.batch = relays[r].batch
           /\ DraftsOK(x)' /\ BatchOK(x)' /\ (straight' => InOrder(x)')
           /\ LeftOf(x.batch, relays[r].batch)
<1> PICK y : y = relays[r]
  OBVIOUS
<1>1. /\ y \in RelayRecord /\ DraftsOK(y) /\ BatchOK(y) /\ y.batch \in Seq(BatchEntry)
  BY RelayOK, RelayRecordFacts
<1>2. /\ x \in RelayRecord /\ x.at = "nack" /\ x.batch = y.batch /\ x.drafts = y.drafts
      /\ x.encoder = y.encoder /\ x.stored = y.stored
  BY <1>1 DEF RelayRecord
<1>3. Grows /\ log' = log
  BY MovesFacts
<1>4. DraftsOK(x)' /\ (straight' => InOrder(x)')
  BY <1>2, SameDrafts
<1>5. BatchOK(x)'
  <2>1. BatchOK(x)
    BY <1>1, <1>2, NackOK
  <2> QED BY <1>2, <1>3, <2>1, BatchStands
<1>6. LeftOf(x.batch, relays[r].batch)
  BY <1>1, <1>2, WhatIsLeft
<1> QED BY <1>2, <1>4, <1>5, <1>6

LEMMA LoadFailsKeeps ==
    ASSUME PipelineIInv, NEW r \in Relay, LoadFails(r)
    PROVE  PipelineIInv'
<1> PICK x : x = [relays[r] EXCEPT !.at = "nack"]
  OBVIOUS
<1>1. /\ relays[r].at = "load" /\ Fault("lookup") /\ relays' = [relays EXCEPT ![r] = x]
      /\ UNCHANGED <<live, run, buffer, pending, version, covered, log, outbox, replay, straight,
                     swallowed, raced>>
  BY DEF LoadFails, At, Relays, runVars, notes
<1>2. FaultsGrow /\ faults' = faults + 1
  BY <1>1, FaultCounts DEF PipelineIInv
<1>3. Moves(r, x)
  BY <1>1, <1>2, ReplayFacts DEF Moves, PipelineIInv, TypeInv
<1>4. ReplayInv' /\ StraightRows'
  BY <1>1, SameReplay
<1> QED BY <1>1, <1>2, <1>3, <1>4, Fails, Unsettled

LEMMA AppendFailsKeeps ==
    ASSUME PipelineIInv, NEW r \in Relay, AppendFails(r)
    PROVE  PipelineIInv'
<1> PICK y : y = relays[r]
  OBVIOUS
<1> PICK i : i = Message(r)
  OBVIOUS
<1> PICK rows : rows = y.drafts[i]
  OBVIOUS
<1> PICK x : x = [y EXCEPT !.at = "nack"]
  OBVIOUS
<1>1. /\ y.at \in {"append", "insert"} /\ Fault("append") /\ relays' = [relays EXCEPT ![r] = x]
      /\ UNCHANGED <<live, run, buffer, pending, version, covered, log, outbox, straight,
                     swallowed, raced>>
      /\ \/ UNCHANGED replay
         \/ At(r, "insert") /\ StoredRows(i, y.row) = {} /\ replay' = Append(replay, Row(r))
  BY DEF AppendFails, At, Relays, Row, runVars, notes
<1>2. FaultsGrow /\ faults' = faults + 1 /\ TypeInv
  BY <1>1, FaultCounts DEF PipelineIInv
<1>3. /\ replay' \in Seq(ReplayRow) /\ Len(replay) <= Len(replay')
      /\ \A n \in 1 .. Len(replay) : replay'[n] = replay[n]
      /\ ReplayInv' /\ StraightRows'
  <2>1. CASE UNCHANGED replay
    BY <1>1, <1>2, <2>1, ReplayFacts, SameReplay
  <2>2. CASE At(r, "insert") /\ StoredRows(i, y.row) = {} /\ replay' = Append(replay, Row(r))
    <3>1. y.row <= Len(rows)
      BY <1>1, <2>2, AppendFacts DEF At
    <3>2. /\ replay' \in Seq(ReplayRow) /\ Len(replay') = Len(replay) + 1
          /\ \A n \in 1 .. Len(replay) : replay'[n] = replay[n]
          /\ ReplayInv' /\ StraightRows'
      BY <1>1, <2>2, <3>1, RowAppended
    <3> QED BY <1>2, <3>2, ReplayFacts
  <2> QED BY <1>1, <2>1, <2>2
<1>4. Moves(r, x)
  BY <1>1, <1>2, <1>3 DEF Moves, PipelineIInv, TypeInv
<1> QED BY <1>1, <1>2, <1>3, <1>4, Fails, Unsettled

\* A relay has found or inserted a row, and goes on with the next one.
LEMMA NextRow ==
    ASSUME PipelineIInv, NEW r \in Relay, relays[r].at \in {"append", "insert"},
           NEW i, i = Message(r), NEW rows, rows = relays[r].drafts[i],
           NEW j, j = relays[r].row, j <= Len(rows),
           NEW x, x = [relays[r] EXCEPT !.at = "append", !.row = j + 1],
           Moves(r, x), NEW content, content = rows[j], IsStored(i, j, content)'
    PROVE  /\ x \in RelayRecord /\ x.at = "append" /\ x.batch = relays[r].batch
           /\ DraftsOK(x)' /\ BatchOK(x)' /\ (straight' => InOrder(x)')
           /\ LeftOf(x.batch, relays[r].batch)
<1> PICK y : y = relays[r]
  OBVIOUS
<1>1. /\ y \in RelayRecord /\ DraftsOK(y) /\ BatchOK(y) /\ y.batch \in Seq(BatchEntry)
  BY RelayOK, RelayRecordFacts
<1>2. /\ i \in DOMAIN y.drafts /\ Len(rows) \in Nat /\ y.row \in Nat /\ 1 <= y.row
      /\ \A k \in 1 .. y.row - 1 : IsStored(i, k, rows[k])
      /\ HeadOf(y) = i
  BY AppendFacts
<1>3. y.row + 1 \in Nat
  BY <1>2
<1>4. /\ x \in RelayRecord /\ x.at = "append" /\ x.batch = y.batch /\ x.drafts = y.drafts
      /\ x.encoder = y.encoder /\ x.stored = y.stored /\ x.row = y.row + 1
  BY <1>1, <1>3 DEF RelayRecord
<1>5. Grows /\ log' = log
  BY MovesFacts
<1>6. DraftsOK(x)' /\ (straight' => InOrder(x)')
  BY <1>4, SameDrafts
<1>7. BatchOK(x)'
  <2>1. ASSUME NEW k \in 1 .. x.row - 1
        PROVE  IsStored(i, k, rows[k])'
    <3>1. CASE k = j
      BY <3>1
    <3>2. CASE k # j
      <4>1. k \in 1 .. y.row - 1
        BY <1>2, <1>4, <3>2
      <4> QED BY <1>2, <1>5, <4>1 DEF IsStored, Grows
    <3> QED BY <3>1, <3>2
  <2>2. 1 <= x.row /\ x.row <= Len(rows) + 1
    BY <1>2, <1>4
  <2>3. HeadOf(x) = i /\ x.drafts[HeadOf(x)] = rows /\ HeadOf(x)' = HeadOf(x)
    BY <1>2, <1>4 DEF HeadOf
  <2>4. \A n \in DOMAIN x.batch : x.batch[n].message \in DOMAIN log'
    BY <1>1, <1>4, <1>5 DEF BatchOK
  <2>5. x.batch # <<>>
    BY <1>1, <1>4 DEF BatchOK
  <2> QED BY <1>2, <1>4, <2>1, <2>2, <2>3, <2>4, <2>5 DEF BatchOK
<1>8. LeftOf(x.batch, relays[r].batch)
  BY <1>1, <1>4, WhatIsLeft
<1> QED BY <1>4, <1>6, <1>7, <1>8

\* The row is there, or not; when encoders meet the events in order, no other
\* row is there.  As rows are stored without a gap, those that pay for an
\* attempt are before the one that is not there.
LEMMA LooksUpKeeps ==
    ASSUME PipelineIInv, NEW r \in Relay, LooksUp(r)
    PROVE  PipelineIInv'
<1> PICK y : y = relays[r]
  OBVIOUS
<1> PICK i : i = Message(r)
  OBVIOUS
<1> PICK rows : rows = y.drafts[i]
  OBVIOUS
<1> PICK j : j = y.row
  OBVIOUS
<1> PICK there : there = StoredRows(i, j)
  OBVIOUS
<1> PICK row : row = Row(r)
  OBVIOUS
<1>1. /\ y \in RelayRecord /\ DraftsOK(y) /\ BatchOK(y) /\ y.batch \in Seq(BatchEntry)
  BY RelayOK, RelayRecordFacts
<1>2. /\ y.at = "append" /\ j <= Len(rows)
      /\ UNCHANGED <<live, run, buffer, pending, version, covered, log, outbox, replay, straight,
                     swallowed, raced, faults>>
  BY DEF LooksUp, At, runVars, notes
<1>3. /\ i \in DOMAIN y.drafts /\ i \in DOMAIN log /\ i \in Nat /\ HeadOf(y) = i
      /\ rows \in Seq(Content) /\ Len(rows) \in Nat /\ DOMAIN rows = 1 .. Len(rows)
      /\ (straight => rows = Reference(i)) /\ j \in Nat /\ 1 <= j
      /\ \A k \in 1 .. j - 1 : IsStored(i, k, rows[k])
  BY <1>2, AppendFacts
<1>4. TypeInv /\ FaultsGrow /\ faults \in Nat /\ Grows /\ ReplayInv' /\ StraightRows'
  BY <1>2, FaultCounts, RunFacts, SameReplay DEF PipelineIInv
<1>5. row = [event |-> i, index |-> j, content |-> rows[j]]
  BY DEF Row
<1>6. ASSUME NEW x, relays' = [relays EXCEPT ![r] = x]
      PROVE  Moves(r, x)
  BY <1>2, <1>4, <1>6, ReplayFacts DEF Moves, PipelineIInv, TypeInv
<1>7. CASE there = {} /\ relays' = Relays(r, "insert")
  <2>x. PICK x : x = [y EXCEPT !.at = "insert"]
    OBVIOUS
  <2>1. /\ x \in RelayRecord /\ x.at = "insert" /\ x.batch = y.batch /\ x.drafts = y.drafts
        /\ x.encoder = y.encoder /\ x.stored = y.stored /\ x.row = j
    BY <1>1, <2>x DEF RelayRecord
  <2>2. relays' = [relays EXCEPT ![r] = x]
    BY <1>7, <2>x DEF Relays
  <2>3. Moves(r, x)
    BY <1>6, <2>2
  <2>4. DraftsOK(x)' /\ (straight' => InOrder(x)')
    BY <2>1, <2>3, SameDrafts
  <2>5. HeadOf(x) = i /\ StoredRows(HeadOf(x), x.row) = {}
    BY <1>3, <1>7, <2>1 DEF HeadOf
  <2>6. BatchOK(x)'
    <3>1. BatchOK(x)
      BY <1>1, <1>2, <1>3, <2>1, <2>5 DEF BatchOK
    <3> QED BY <1>4, <2>1, <3>1, BatchStands
  <2>7. LeftOf(x.batch, relays[r].batch)
    BY <1>1, <2>1, WhatIsLeft
  <2>8. ASSUME NEW attempts \in Int, IsPaid(i, attempts)
        PROVE  PaidBelow(i, j, attempts)
    <3>1. PICK k \in Nat : (k = 0 \/ WasRaced(i, k)) /\ attempts <= faults + k
      BY <2>8 DEF IsPaid, PaidBelow
    <3>2. k < j
      <4>1. CASE k = 0
        BY <1>3, <4>1
      <4>2. CASE WasRaced(i, k)
        <5>1. PICK n \in DOMAIN replay : replay[n].event = i /\ replay[n].index = k
          BY <4>2 DEF WasRaced, StoredRows, RowsOf
        <5>2. NoGap(n)
          BY DEF PipelineIInv, ReplayInv
        <5>3. k # j /\ j \notin 1 .. k - 1
          BY <1>7, <5>1, <5>2 DEF NoGap, StoredRows, RowsOf
        <5> QED BY <1>3, <5>3
      <4> QED BY <3>1, <4>1, <4>2
    <3> QED BY <3>1, <3>2 DEF PaidBelow
  <2>9. AttemptsInv'
    BY <1>2, <2>1, <2>3, <2>5, <2>8, WorkStands
  <2>10. SoleInv'
    BY <1>2, <2>1, <2>3, <2>5, <2>7, SoleStands
  <2> QED BY <1>2, <1>4, <2>1, <2>3, <2>4, <2>6, <2>7, <2>9, <2>10, Unsettled
<1>8. CASE (\E n \in there : replay[n] = row) /\ relays' = [relays EXCEPT ![r].row = @ + 1]
  <2>x. PICK x : x = [y EXCEPT !.at = "append", !.row = j + 1]
    OBVIOUS
  <2>1. relays' = [relays EXCEPT ![r] = x]
    <3>1. [y EXCEPT !.row = j + 1] = x
      BY <1>1, <1>2, <2>x DEF RelayRecord
    <3>2. relays' = [relays EXCEPT ![r] = [y EXCEPT !.row = j + 1]]
      BY <1>8
    <3> QED BY <3>1, <3>2
  <2>2. Moves(r, x)
    BY <1>6, <2>1
  <2> PICK content : content = rows[j]
    OBVIOUS
  <2>3. IsStored(i, j, content)'
    BY <1>2, <1>5, <1>8 DEF IsStored, StoredRows, RowsOf
  <2>4. /\ x \in RelayRecord /\ x.at = "append" /\ x.batch = y.batch
        /\ DraftsOK(x)' /\ BatchOK(x)' /\ (straight' => InOrder(x)')
        /\ LeftOf(x.batch, relays[r].batch)
    <3>1. /\ relays[r].at \in {"append", "insert"} /\ rows = relays[r].drafts[i]
          /\ j = relays[r].row /\ j <= Len(rows)
      BY <1>2
    <3>2. x = [relays[r] EXCEPT !.at = "append", !.row = j + 1]
      BY <2>x
    <3> QED BY <2>2, <2>3, <3>1, <3>2, NextRow, ZenonT(60)
  <2>5. AttemptsInv' /\ SoleInv'
    BY <1>2, <2>2, <2>4, WorkStands, SoleStands
  <2> QED BY <1>2, <1>4, <2>2, <2>4, <2>5, Unsettled
<1>9. CASE (\E n \in there : replay[n] # row) /\ relays' = Relays(r, "nack")
  <2>x. PICK x : x = [y EXCEPT !.at = "nack"]
    OBVIOUS
  <2>1. relays' = [relays EXCEPT ![r] = x]
    BY <1>9, <2>x DEF Relays
  <2>2. Moves(r, x)
    BY <1>6, <2>1
  <2>3. /\ x \in RelayRecord /\ x.at = "nack" /\ x.batch = y.batch
        /\ DraftsOK(x)' /\ BatchOK(x)' /\ (straight' => InOrder(x)')
        /\ LeftOf(x.batch, relays[r].batch)
    BY <1>2, <2>2, <2>x, Fails
  <2>4. ~straight
    <3> SUFFICES ASSUME straight PROVE FALSE
      OBVIOUS
    <3>1. PICK n \in there : replay[n] # row
      BY <1>9
    <3>2. n \in DOMAIN replay /\ replay[n].event = i /\ replay[n].index = j
      BY DEF StoredRows, RowsOf
    <3>3. RowFits(replay[n], Reference(i))
      BY <3>2 DEF PipelineIInv, StraightRows
    <3>4. replay[n].content = rows[j]
      BY <1>3, <3>2, <3>3 DEF RowFits
    <3>5. replay[n] = [event |-> i, index |-> j, content |-> rows[j]]
      BY <1>4, <3>2, <3>4, ReplayFacts
    <3> QED BY <1>5, <3>1, <3>5
  <2>5. AttemptsInv' /\ SoleInv'
    BY <1>2, <2>2, <2>3, <2>4, WorkStands, SoleStands
  <2> QED BY <1>2, <1>4, <2>2, <2>3, <2>5, Unsettled
<1>10. /\ Row(r).event = i /\ Row(r).index = j
       /\ StoredRows(Row(r).event, Row(r).index) = there
  BY DEF Row
<1> QED BY <1>7, <1>8, <1>9, <1>10 DEF LooksUp

\* A relay inserts a row: without a fault no other relay has looked for it.
LEMMA InsertsAlone ==
    ASSUME PipelineIInv, NEW r \in Relay, relays[r].at = "insert", NEW i, i = Message(r),
           NEW j, j = relays[r].row, replay' = Append(replay, Row(r)),
           NEW x \in RelayRecord, Moves(r, x), UNCHANGED <<outbox, raced>>,
           x.batch = relays[r].batch, x.at # "insert"
    PROVE  SoleInv'
<1>1. /\ relays'[r] = x /\ \A s \in Relay : s # r => relays'[s] = relays[s]
      /\ faults \in Nat /\ faults' \in Nat /\ faults <= faults'
      /\ DOMAIN replay = 1 .. Len(replay) /\ Len(replay) \in Nat
  BY MovesFacts DEF FaultsGrow
<1>2. faults' = 0 => faults = 0 /\ raced' = {}
  BY <1>1 DEF PipelineIInv, SoleInv
<1> SUFFICES ASSUME faults' = 0, NEW s \in Relay
             PROVE  IsSole(relays[s])'
  BY <1>2 DEF SoleInv
<1>3. IsSole(relays[r]) /\ IsSole(relays[s])
  BY <1>2 DEF PipelineIInv, SoleInv
<1>4. CASE s = r
  <2>1. IsSole(x)'
    BY <1>3 DEF IsSole
  <2> QED BY <1>1, <1>4, <2>1
<1>5. CASE s # r
  <2> PICK z : z = relays[s]
    OBVIOUS
  <2>1. ASSUME z.at = "insert", NEW n \in StoredRows(HeadOf(z), z.row)'
        PROVE  FALSE
    <3> PICK new : new = Row(r)
      OBVIOUS
    <3>1. n \in DOMAIN replay' /\ replay'[n].event = HeadOf(z) /\ replay'[n].index = z.row
      BY <2>1 DEF StoredRows, RowsOf, HeadOf
    <3>2. StoredRows(HeadOf(z), z.row) = {}
      BY <1>3, <2>1 DEF IsSole
    <3>3. n \notin DOMAIN replay
      <4>1. n \in DOMAIN replay => replay'[n] = replay[n]
        BY <1>1 DEF Moves
      <4> QED BY <3>1, <3>2, <4>1 DEF StoredRows, RowsOf
    <3>4. replay'[n] = new
      <4>1. replay \in Seq(ReplayRow)
        BY ReplayFacts DEF PipelineIInv
      <4>2. n \in 1 .. Len(replay) + 1 /\ n \notin 1 .. Len(replay)
        BY <1>1, <3>1, <3>3, <4>1
      <4>3. n = Len(replay) + 1
        BY <1>1, <4>2
      <4> QED BY <4>1, <4>3
    <3>5. HeadOf(z) = i
      BY <3>1, <3>4 DEF Row
    <3>6. /\ 1 \in DOMAIN relays[r].batch /\ HeadOf(relays[r]) = i
          /\ relays[r].batch[1] = [message |-> i, token |-> Token(r)]
          /\ Token(r) = relays[r].batch[1].token
      BY HeadFacts
    <3>7. /\ 1 \in DOMAIN z.batch /\ z.batch[1] = [message |-> i, token |-> Token(s)]
          /\ Token(s) = z.batch[1].token
      BY <2>1, <3>5, HeadFacts
    <3>8. Token(r) = outbox[i].attempts /\ Token(s) = outbox[i].attempts
      BY <1>3, <3>6, <3>7 DEF IsSole
    <3>9. relays[r].batch[1] = relays[s].batch[1]
      BY <3>6, <3>7, <3>8
    <3> QED BY <1>5, <3>6, <3>7, <3>9 DEF PipelineIInv, ClaimsInv
  <2>2. IsSole(z)'
    <3>1. z.at = "insert" => StoredRows(HeadOf(z), z.row)' = {}
      BY <2>1
    <3> QED BY <1>3, <3>1 DEF IsSole, HeadOf
  <2>3. relays'[s] = z
    BY <1>1, <1>5
  <2> QED BY <2>2, <2>3
<1> QED BY <1>4, <1>5

\* The row that another relay has stored first pays for the attempt.
LEMMA RacedPays ==
    ASSUME PipelineIInv, NEW r \in Relay, relays[r].at = "insert", NEW i, i = Message(r),
           NEW j, j = relays[r].row, StoredRows(i, j) # {},
           NEW x, x.at = "nack", x.batch = relays[r].batch, Moves(r, x),
           UNCHANGED <<outbox, replay, faults>>, raced' = raced \cup {i}
    PROVE  AttemptsInv'
<1>1. /\ relays'[r] = x /\ \A s \in Relay : s # r => relays'[s] = relays[s]
      /\ Grows /\ faults \in Nat /\ faults' \in Nat /\ faults <= faults'
  BY MovesFacts
<1> SUFFICES ASSUME straight', NEW e \in DOMAIN outbox
             PROVE  AttemptOK(e, outbox[e])'
  BY DEF AttemptsInv
<1>2. straight
  BY DEF Moves
<1> PICK m : m = outbox[e]
  OBVIOUS
<1>3. AttemptOK(e, m) /\ m.attempts \in Nat
  BY <1>2, MessageFacts DEF PipelineIInv, AttemptsInv
<1> PICK before : before = m.attempts - 1
  OBVIOUS
<1>4. before \in Int
  BY <1>3
<1>5. /\ IsPaid(e, before) => IsPaid(e, before)'
      /\ IsPaid(e, m.attempts) => IsPaid(e, m.attempts)'
      /\ IsPaid(e, MaxAttempts) => IsPaid(e, MaxAttempts)'
  BY <1>1, <1>3, <1>4, PaidStays, Bounds
<1>6. ASSUME NEW s \in Relay, WorksOn(relays[s], e, m.attempts)
      PROVE  IsPaid(e, m.attempts)' \/ WorksOn(relays[s], e, m.attempts)'
  <2>1. CASE s = r
    <3>1. PICK n \in DOMAIN x.batch :
             /\ x.batch[n] = [message |-> e, token |-> m.attempts]
             /\ n = 1 => PaidBelow(e, j, before)
      BY <1>6, <2>1 DEF WorksOn
    <3>2. CASE n = 1
      <4>1. e = i
        <5>1. relays[r].batch[1].message = e
          BY <3>1, <3>2
        <5> QED BY <5>1, HeadFacts
      <4>2. PICK k \in Nat : k < j /\ before <= faults + k
        BY <3>1, <3>2 DEF PaidBelow
      <4>3. j \in Nat
        BY AppendFacts
      <4>4. WasRaced(e, j)'
        BY <4>1 DEF WasRaced, StoredRows, RowsOf
      <4>5. m.attempts <= faults' + j
        BY <1>1, <1>3, <4>2, <4>3
      <4>6. j < j + 1 /\ j + 1 \in Nat
        BY <4>3
      <4> QED BY <4>3, <4>4, <4>5, <4>6 DEF IsPaid, PaidBelow
    <3>3. CASE n # 1
      <4>1. WorksOn(x, e, m.attempts)'
        BY <3>1, <3>3 DEF WorksOn
      <4> QED BY <1>1, <2>1, <4>1
    <3> QED BY <3>2, <3>3
  <2>2. CASE s # r
    <3> PICK z : z = relays[s]
      OBVIOUS
    <3>1. WorksOn(z, e, m.attempts)'
      BY <1>1, <1>3, <1>6, WorkStays
    <3>2. relays'[s] = z
      BY <1>1, <2>2
    <3> QED BY <3>1, <3>2
  <2> QED BY <2>1, <2>2
<1>7. AttemptOK(e, m)'
  BY <1>3, <1>5, <1>6, Zenon DEF AttemptOK
<1> QED BY <1>7

\* The row that was not there is stored, or another relay has stored one.
LEMMA InsertsKeeps ==
    ASSUME PipelineIInv, NEW r \in Relay, Inserts(r)
    PROVE  PipelineIInv'
<1> PICK y : y = relays[r]
  OBVIOUS
<1> PICK i : i = Message(r)
  OBVIOUS
<1> PICK rows : rows = y.drafts[i]
  OBVIOUS
<1> PICK j : j = y.row
  OBVIOUS
<1>1. /\ relays[r].at = "insert"
      /\ UNCHANGED <<live, run, buffer, pending, version, covered, log, outbox, straight,
                     swallowed, faults>>
  BY DEF Inserts, At, runVars
<1>2. y \in RelayRecord /\ i \in Nat /\ j \in Nat /\ j <= Len(rows)
  BY <1>1, RelayOK, AppendFacts
<1>3. TypeInv /\ FaultsGrow /\ faults \in Nat /\ raced \subseteq Nat
  BY <1>1, FaultCounts, RunFacts DEF PipelineIInv, TypeInv
<1>4. CASE StoredRows(i, j) = {}
  <2>x. PICK x : x = [y EXCEPT !.at = "append", !.row = j + 1]
    OBVIOUS
  <2>1. replay' = Append(replay, Row(r)) /\ raced' = raced /\ relays' = [relays EXCEPT ![r] = x]
    <3>1. StoredRows(Row(r).event, Row(r).index) = {}
      BY <1>4 DEF Row
    <3>2. relays' = [Relays(r, "append") EXCEPT ![r].row = @ + 1]
      BY <3>1 DEF Inserts
    <3>3. relays \in [Relay -> RelayRecord]
      BY <1>3 DEF TypeInv
    <3>4. relays' = [relays EXCEPT ![r] = x]
      BY <1>2, <2>x, <3>2, <3>3 DEF Relays, RelayRecord
    <3> QED BY <3>1, <3>4 DEF Inserts
  <2>2. /\ replay' \in Seq(ReplayRow) /\ Len(replay') = Len(replay) + 1
        /\ \A n \in 1 .. Len(replay) : replay'[n] = replay[n]
        /\ IsStored(i, j, rows[j])' /\ ReplayInv' /\ StraightRows'
    BY <1>1, <1>2, <1>4, <2>1, RowAppended DEF At
  <2>3. Moves(r, x)
    BY <1>1, <1>3, <2>1, <2>2, ReplayFacts DEF Moves, TypeInv
  <2> PICK content : content = rows[j]
    OBVIOUS
  <2>4. IsStored(i, j, content)'
    BY <2>2
  <2>5. /\ x \in RelayRecord /\ x.at = "append" /\ x.batch = y.batch
        /\ DraftsOK(x)' /\ BatchOK(x)' /\ (straight' => InOrder(x)')
        /\ LeftOf(x.batch, relays[r].batch)
    <3>1. /\ relays[r].at \in {"append", "insert"} /\ rows = relays[r].drafts[i]
          /\ j = relays[r].row /\ j <= Len(rows)
      BY <1>1, <1>2
    <3>2. x = [relays[r] EXCEPT !.at = "append", !.row = j + 1]
      BY <2>x
    <3> QED BY <2>3, <2>4, <3>1, <3>2, NextRow, ZenonT(60)
  <2>6. AttemptsInv'
    BY <1>1, <2>3, <2>5, WorkStands
  <2>7. SoleInv'
    BY <1>1, <2>1, <2>3, <2>5, InsertsAlone
  <2> QED BY <1>1, <2>2, <2>3, <2>5, <2>6, <2>7, Unsettled
<1>5. CASE StoredRows(i, j) # {}
  <2>x. PICK x : x = [y EXCEPT !.at = "nack"]
    OBVIOUS
  <2>1. replay' = replay /\ raced' = raced \cup {i} /\ relays' = [relays EXCEPT ![r] = x]
    <3>1. StoredRows(Row(r).event, Row(r).index) # {}
      BY <1>5 DEF Row
    <3> QED BY <2>x, <3>1 DEF Inserts, Relays
  <2>2. raced \subseteq raced' /\ raced' \subseteq Nat
    BY <1>2, <1>3, <2>1
  <2>3. ReplayInv' /\ StraightRows'
    BY <1>1, <2>1, <2>2, SameReplay
  <2>4. Moves(r, x)
    BY <1>1, <1>3, <2>1, <2>2, ReplayFacts DEF Moves, TypeInv
  <2>5. /\ x \in RelayRecord /\ x.at = "nack" /\ x.batch = relays[r].batch
        /\ DraftsOK(x)' /\ BatchOK(x)' /\ (straight' => InOrder(x)')
        /\ LeftOf(x.batch, relays[r].batch)
    BY <1>1, <2>4, <2>x, Fails
  <2>6. AttemptsInv'
    BY <1>1, <1>5, <2>1, <2>4, <2>5, RacedPays
  <2>7. SoleInv'
    <3>1. faults # 0
      <4>1. HeadOf(y) = i
        BY <1>1, HeadFacts
      <4> QED BY <1>1, <1>5, <4>1 DEF PipelineIInv, SoleInv, IsSole
    <3> QED BY <1>1, <3>1 DEF SoleInv
  <2> QED BY <1>1, <2>3, <2>4, <2>5, <2>6, <2>7, Unsettled
<1> QED BY <1>4, <1>5

\* The process of a relay that starts has nothing, and has met no event.
LEMMA NewRelayFacts ==
    ASSUME log \in Seq(Nat)
    PROVE  /\ NewRelay \in RelayRecord /\ NewRelay.batch = <<>> /\ NewRelay.at = "idle"
           /\ DraftsOK(NewRelay) /\ BatchOK(NewRelay) /\ InOrder(NewRelay)
<1>1. /\ NewRelay.at = "idle" /\ NewRelay.batch = <<>> /\ NewRelay.drafts = <<>>
      /\ NewRelay.stored = {} /\ NewRelay.encoder = NewEncoder /\ NewRelay.row = 1
  BY DEF NewRelay
<1>2. DOMAIN NewRelay.drafts = {} /\ Cardinality({}) = 0
  BY <1>1, FS_EmptySet
<1>3. NewRelay \in RelayRecord
  <2>1. <<>> \in DraftTable
    <3>1. <<>> \in [{} -> Seq(Content)] /\ {} \in SUBSET (1 .. MaxLive)
      OBVIOUS
    <3> QED BY <3>1 DEF DraftTable
  <2> QED BY <2>1, NewEncoderFacts DEF NewRelay, RelayRecord
<1>4. DraftsOK(NewRelay)
  <2>1. NewEncoder.count <= Cardinality(DOMAIN NewRelay.drafts)
    BY <1>2, NewEncoderFacts
  <2> QED BY <1>1, <1>2, <2>1 DEF DraftsOK
<1>5. BatchOK(NewRelay)
  BY <1>1 DEF BatchOK
<1>6. InOrder(NewRelay)
  <2>1. EncoderAfter[0] = NewEncoder
    BY EncoderUnfolds
  <2>2. 0 \in 0 .. Len(log) /\ 1 .. 0 = {}
    <3>1. Len(log) \in Nat
      OBVIOUS
    <3> QED BY <3>1
  <2> QED BY <1>1, <1>2, <2>1, <2>2 DEF InOrder
<1> QED BY <1>1, <1>3, <1>4, <1>5, <1>6

LEMMA RestartsKeeps ==
    ASSUME PipelineIInv, NEW r \in Relay, Restarts(r)
    PROVE  PipelineIInv'
<1>x. PICK x : x = NewRelay
  OBVIOUS
<1>1. /\ x \in RelayRecord /\ x.batch = <<>> /\ DraftsOK(x) /\ BatchOK(x) /\ InOrder(x)
  BY <1>x, NewRelayFacts DEF PipelineIInv, TypeInv
<1>2. /\ Fault("restart") /\ relays' = [relays EXCEPT ![r] = x]
      /\ UNCHANGED <<live, run, buffer, pending, version, covered, log, outbox, replay, straight,
                     swallowed, raced>>
  BY <1>x DEF Restarts, runVars, notes
<1>9. FaultsGrow /\ faults' = faults + 1
  BY <1>2, FaultCounts DEF PipelineIInv
<1>3. Moves(r, x)
  BY <1>2, <1>9, ReplayFacts DEF Moves, PipelineIInv, TypeInv
<1>4. Grows /\ log' = log /\ Len(log) \in Nat /\ DOMAIN log = 1 .. Len(log)
  BY <1>3, MovesFacts
<1>5. DraftsOK(x)' /\ BatchOK(x)' /\ InOrder(x)'
  BY <1>1, <1>4, DraftsStand, BatchStands, OrderStands DEF PipelineIInv
<1>6. ReplayInv' /\ StraightRows'
  BY <1>2, SameReplay
<1>7. LeftOf(x.batch, relays[r].batch)
  BY <1>1, WhatIsLeft, RelayFacts DEF PipelineIInv
<1> QED BY <1>1, <1>2, <1>3, <1>5, <1>6, <1>7, <1>9, Unsettled

LEMMA RemembersKeeps ==
    ASSUME PipelineIInv, NEW r \in Relay, Remembers(r)
    PROVE  PipelineIInv'
<1> PICK y : y = relays[r]
  OBVIOUS
<1> PICK i : i = Message(r)
  OBVIOUS
<1> PICK rows : rows = y.drafts[i]
  OBVIOUS
<1>x. PICK x : x = [y EXCEPT !.at = "ack", !.stored = y.stored \cup {i}]
  OBVIOUS
<1>1. /\ y \in RelayRecord /\ DraftsOK(y) /\ BatchOK(y) /\ y.batch \in Seq(BatchEntry)
      /\ (straight => InOrder(y)) /\ y.stored \subseteq Nat
  BY RelayOK, RelayRecordFacts
<1>2. /\ At(r, "append") /\ y.at = "append" /\ y.row > Len(rows)
      /\ UNCHANGED <<live, run, buffer, pending, version, covered, log, outbox, replay, straight,
                     swallowed, raced, faults>>
      /\ relays' = [relays EXCEPT ![r] = x]
  BY <1>x DEF Remembers, At, Relays, runVars, notes
<1>3. /\ i \in DOMAIN y.drafts /\ i \in Nat /\ rows \in Seq(Content) /\ Len(rows) \in Nat
      /\ DOMAIN rows = 1 .. Len(rows) /\ y.row \in Nat
      /\ \A k \in 1 .. y.row - 1 : IsStored(i, k, rows[k])
  BY <1>2, AppendFacts
<1>4. /\ x \in RelayRecord /\ x.at = "ack" /\ x.batch = y.batch /\ x.drafts = y.drafts
      /\ x.encoder = y.encoder /\ x.stored = y.stored \cup {i}
  BY <1>1, <1>3, <1>x DEF RelayRecord
<1>5. AllStored(i, rows)
  <2>1. \A k \in DOMAIN rows : k \in 1 .. y.row - 1
    BY <1>2, <1>3
  <2> QED BY <1>3, <2>1 DEF AllStored
<1>6. DraftsOK(x)
  BY <1>1, <1>3, <1>4, <1>5 DEF DraftsOK
<1>7. straight => InOrder(x)
  BY <1>1, <1>4 DEF InOrder
<1>8. BatchOK(x)
  <2>1. HeadOf(x) = i
    BY <1>2, <1>4, HeadFacts DEF HeadOf
  <2> QED BY <1>1, <1>2, <1>4, <2>1 DEF BatchOK
<1>14. FaultsGrow
  BY <1>2, FaultCounts DEF PipelineIInv
<1>9. Moves(r, x)
  BY <1>2, <1>14, ReplayFacts DEF Moves, PipelineIInv, TypeInv
<1>10. Grows /\ log' = log /\ Len(log) \in Nat /\ DOMAIN log = 1 .. Len(log)
  BY <1>9, MovesFacts
<1>11. DraftsOK(x)' /\ BatchOK(x)' /\ (straight => InOrder(x)')
  BY <1>4, <1>6, <1>7, <1>8, <1>10, DraftsStand, BatchStands, OrderStands DEF PipelineIInv
<1>12. ReplayInv' /\ StraightRows'
  BY <1>2, SameReplay
<1>13. LeftOf(x.batch, relays[r].batch)
  BY <1>1, <1>4, WhatIsLeft
<1>15. AttemptsInv'
  BY <1>2, <1>4, <1>9, WorkStands
<1>16. SoleInv'
  BY <1>2, <1>4, <1>9, <1>13, SoleStands
<1>17. straight' => InOrder(x)'
  BY <1>2, <1>11
<1> QED BY <1>2, <1>4, <1>9, <1>11, <1>12, <1>13, <1>15, <1>16, <1>17, Unsettled

----------------------------------------------------------------------------
(* A message is settled.                                                    *)

LEMMA SettledFacts ==
    ASSUME PipelineIInv, NEW r \in Relay, relays[r].at \in {"ack", "nack"},
           NEW i, i = Message(r), NEW o, o = SettledBy(r)
    PROVE  /\ o \in Seq(OutboxMessage) /\ Len(o) = Len(outbox)
           /\ \A j \in DOMAIN outbox : j # i => o[j] = outbox[j]
           /\ ~HoldsClaim(r) => o = outbox
           /\ HoldsClaim(r) =>
                 /\ outbox[i].status = "Claimed" /\ outbox[i].attempts = Token(r)
                 /\ o[i].attempts = outbox[i].attempts /\ o[i].lease = "none"
                 /\ relays[r].at = "ack" => o[i].status = "Delivered"
                 /\ relays[r].at = "nack" =>
                       o[i].status = IF outbox[i].attempts >= MaxAttempts THEN "DeadLetter"
                                     ELSE "Pending"
<1>1. i \in DOMAIN outbox /\ outbox \in Seq(OutboxMessage) /\ TypeInv
  BY HeadFacts DEF PipelineIInv, TypeInv
<1> PICK m : m = outbox[i]
  OBVIOUS
<1>2. m \in OutboxMessage
  BY <1>1, MessageFacts
<1>3. ASSUME NEW n \in OutboxMessage, o = [outbox EXCEPT ![i] = n]
      PROVE  /\ o \in Seq(OutboxMessage) /\ Len(o) = Len(outbox) /\ o[i] = n
             /\ \A j \in DOMAIN outbox : j # i => o[j] = outbox[j]
  BY <1>1, <1>3
<1>4. HoldsClaim(r) <=> m.status = "Claimed" /\ m.attempts = Token(r)
  BY DEF HoldsClaim
<1>5. CASE ~HoldsClaim(r)
  <2>1. o = outbox
    BY <1>5 DEF SettledBy, Acked, Nacked
  <2> QED BY <1>1, <1>5, <2>1
<1>6. CASE HoldsClaim(r) /\ relays[r].at = "ack"
  <2>n. PICK n : n = [m EXCEPT !.status = "Delivered", !.lease = "none"]
    OBVIOUS
  <2>1. /\ n \in OutboxMessage /\ n.status = "Delivered" /\ n.lease = "none"
        /\ n.attempts = m.attempts
    BY <1>2, <2>n DEF OutboxMessage
  <2>2. o = [outbox EXCEPT ![i] = n]
    BY <1>6, <2>n DEF SettledBy, At, Acked, Settled
  <2>3. /\ o \in Seq(OutboxMessage) /\ Len(o) = Len(outbox) /\ o[i] = n
        /\ \A j \in DOMAIN outbox : j # i => o[j] = outbox[j]
    BY <1>3, <2>1, <2>2
  <2> QED BY <1>4, <1>6, <2>1, <2>3
<1>7. CASE HoldsClaim(r) /\ relays[r].at = "nack" /\ m.attempts >= MaxAttempts
  <2>n. PICK n : n = [m EXCEPT !.status = "DeadLetter", !.lease = "none"]
    OBVIOUS
  <2>1. /\ n \in OutboxMessage /\ n.status = "DeadLetter" /\ n.lease = "none"
        /\ n.attempts = m.attempts
    BY <1>2, <2>n DEF OutboxMessage
  <2>2. o = [outbox EXCEPT ![i] = n]
    BY <1>7, <2>n DEF SettledBy, At, Nacked, Settled
  <2>3. /\ o \in Seq(OutboxMessage) /\ Len(o) = Len(outbox) /\ o[i] = n
        /\ \A j \in DOMAIN outbox : j # i => o[j] = outbox[j]
    BY <1>3, <2>1, <2>2
  <2> QED BY <1>4, <1>7, <2>1, <2>3
<1>8. CASE HoldsClaim(r) /\ relays[r].at = "nack" /\ ~(m.attempts >= MaxAttempts)
  <2>n. PICK n : n = [m EXCEPT !.status = "Pending", !.lease = "none", !.late = TRUE,
                               !.due = FALSE]
    OBVIOUS
  <2>1. /\ n \in OutboxMessage /\ n.status = "Pending" /\ n.lease = "none"
        /\ n.attempts = m.attempts
    BY <1>2, <2>n DEF OutboxMessage
  <2>2. o = [outbox EXCEPT ![i] = n]
    <3>1. o = [Settled(i, "Pending") EXCEPT ![i].late = TRUE, ![i].due = FALSE]
      BY <1>8 DEF SettledBy, At, Nacked
    <3> QED BY <1>1, <2>n, <3>1 DEF Settled
  <2>3. /\ o \in Seq(OutboxMessage) /\ Len(o) = Len(outbox) /\ o[i] = n
        /\ \A j \in DOMAIN outbox : j # i => o[j] = outbox[j]
    BY <1>3, <2>1, <2>2
  <2> QED BY <1>4, <1>8, <2>1, <2>3
<1> QED BY <1>5, <1>6, <1>7, <1>8

\* A delivered message has all its rows in the replay log.
LEMMA SettledOutbox ==
    ASSUME PipelineIInv, NEW r \in Relay, relays[r].at \in {"ack", "nack"}, NEW x,
           Moves(r, x), outbox' \in {outbox, SettledBy(r)}
    PROVE  OutboxInv' /\ \A j \in DOMAIN outbox : Paid(outbox[j], outbox'[j])
<1> PICK i : i = Message(r)
  OBVIOUS
<1> PICK o : o = SettledBy(r)
  OBVIOUS
<1>1. /\ Grows /\ DOMAIN outbox = DOMAIN log /\ TypeInv
      /\ Len(log') \in Nat /\ DOMAIN log' = 1 .. Len(log')
  BY MovesFacts DEF PipelineIInv
<1>2. i \in DOMAIN outbox /\ HeadOf(relays[r]) = i
  BY HeadFacts
<1>3. /\ \A j \in DOMAIN outbox : j # i => o[j] = outbox[j]
      /\ ~HoldsClaim(r) => o = outbox
      /\ HoldsClaim(r) =>
            /\ outbox[i].status = "Claimed" /\ outbox[i].attempts = Token(r)
            /\ o[i].attempts = outbox[i].attempts /\ o[i].lease = "none"
            /\ relays[r].at = "ack" => o[i].status = "Delivered"
            /\ relays[r].at = "nack" =>
                  o[i].status = IF outbox[i].attempts >= MaxAttempts THEN "DeadLetter"
                                ELSE "Pending"
  BY SettledFacts
<1>4. CASE outbox' = outbox
  BY <1>4, OutboxStands DEF Paid
<1>5. CASE outbox' = o /\ ~HoldsClaim(r)
  BY <1>3, <1>5, OutboxStands DEF Paid
<1>6. CASE outbox' = o /\ HoldsClaim(r)
  <2>1. ASSUME NEW j \in DOMAIN outbox, j # i
        PROVE  MessageOK(j, outbox[j])' /\ Paid(outbox[j], outbox'[j])
    <3> PICK m : m = outbox[j]
      OBVIOUS
    <3>1. outbox'[j] = m
      BY <1>3, <1>6, <2>1
    <3>2. MessageOK(j, m)
      BY DEF PipelineIInv, OutboxInv
    <3>3. MessageOK(j, m)'
      BY <1>1, <3>2, MessageStands
    <3> QED BY <3>1, <3>3 DEF Paid
  <2>2. MessageOK(i, o[i])'
    <3>1. CASE relays[r].at = "ack"
      <4>1. IsProjected(i)
        <5>1. i \in relays[r].stored
          BY <1>2, <3>1, RelayOK DEF BatchOK
        <5>2. i \in DOMAIN relays[r].drafts /\ AllStored(i, relays[r].drafts[i])
          BY <5>1, RelayOK DEF DraftsOK
        <5>3. MayBe(i, relays[r].drafts[i]) /\ (relays[r].drafts[i] = <<>> => i \in swallowed)
          BY <5>2, RelayOK DEF DraftsOK
        <5>4. straight => relays[r].drafts[i] = Reference(i)
          BY <5>2, RelayOK DEF InOrder
        <5> QED BY <5>2, <5>3, <5>4 DEF MayBe, IsProjected
      <4>2. IsProjected(i)'
        BY <1>1, <1>2, <4>1, ProjectedStays
      <4>3. o[i].status = "Delivered" /\ o[i].lease = "none"
        BY <1>3, <1>6, <3>1
      <4> QED BY <4>2, <4>3 DEF MessageOK
    <3>2. CASE relays[r].at = "nack"
      <4>1. o[i].status \in {"DeadLetter", "Pending"} /\ o[i].lease = "none"
        BY <1>3, <1>6, <3>2
      <4> QED BY <4>1 DEF MessageOK
    <3> QED BY <3>1, <3>2
  <2>3. Paid(outbox[i], o[i])
    <3>1. outbox[i].attempts \in Nat
      BY <1>2, MessageFacts DEF PipelineIInv
    <3>2. o[i].status = "DeadLetter" => MaxAttempts <= outbox[i].attempts
      <4>1. CASE relays[r].at = "ack"
        BY <1>3, <1>6, <4>1
      <4>2. CASE relays[r].at = "nack" /\ outbox[i].attempts >= MaxAttempts
        BY <3>1, <4>2, Bounds
      <4>3. CASE relays[r].at = "nack" /\ ~(outbox[i].attempts >= MaxAttempts)
        BY <1>3, <1>6, <4>3
      <4> QED BY <4>1, <4>2, <4>3
    <3> QED BY <1>3, <1>6, <3>2 DEF Paid
  <2>4. \A j \in DOMAIN outbox : MessageOK(j, outbox[j])'
    <3> SUFFICES ASSUME NEW j \in DOMAIN outbox PROVE MessageOK(j, outbox[j])'
      OBVIOUS
    <3>1. CASE j = i
      <4>1. outbox'[j] = o[i]
        BY <1>6, <3>1
      <4> PICK n : n = o[i]
        OBVIOUS
      <4>2. MessageOK(i, n)'
        BY <2>2
      <4> QED BY <3>1, <4>1, <4>2
    <3> QED BY <2>1, <3>1
  <2>5. OutboxInv'
    BY <1>1, <2>4, MovesFacts DEF OutboxInv
  <2> QED BY <1>6, <2>1, <2>3, <2>5
<1> QED BY <1>4, <1>5, <1>6

\* The claim that was under way has been settled: its attempt is paid for.
LEMMA SettledAttempts ==
    ASSUME PipelineIInv, NEW r \in Relay, relays[r].at \in {"ack", "nack"}, NEW x,
           Moves(r, x), outbox' = SettledBy(r), faults' = faults,
           x.batch = Tail(relays[r].batch), x.at \in {"load", "idle"}
    PROVE  AttemptsInv'
<1> PICK i : i = Message(r)
  OBVIOUS
<1> PICK o : o = SettledBy(r)
  OBVIOUS
<1> PICK b : b = relays[r].batch
  OBVIOUS
<1>1. /\ b # <<>> /\ b \in Seq(BatchEntry) /\ 1 \in DOMAIN b
      /\ b[1] = [message |-> i, token |-> Token(r)] /\ i \in DOMAIN outbox
  BY HeadFacts
<1>2. /\ \A j \in DOMAIN outbox : j # i => o[j] = outbox[j]
      /\ ~HoldsClaim(r) => o = outbox
      /\ HoldsClaim(r) =>
            /\ outbox[i].status = "Claimed" /\ outbox[i].attempts = Token(r)
            /\ o[i].attempts = outbox[i].attempts /\ o[i].lease = "none"
            /\ relays[r].at = "ack" => o[i].status = "Delivered"
            /\ relays[r].at = "nack" =>
                  o[i].status = IF outbox[i].attempts >= MaxAttempts THEN "DeadLetter"
                                ELSE "Pending"
  BY SettledFacts
<1>3. /\ relays'[r] = x /\ \A s \in Relay : s # r => relays'[s] = relays[s]
      /\ DOMAIN outbox' = DOMAIN outbox /\ (straight' => straight)
      /\ Grows /\ faults \in Nat /\ faults' \in Nat /\ faults <= faults'
  BY MovesFacts DEF Moves, FaultsGrow
<1> SUFFICES ASSUME straight, NEW j \in DOMAIN outbox
             PROVE  AttemptOK(j, outbox[j])'
  BY <1>3 DEF AttemptsInv
<1> PICK m : m = outbox[j]
  OBVIOUS
<1>4. AttemptOK(j, m) /\ m.attempts \in Nat
  BY MessageFacts DEF PipelineIInv, AttemptsInv
<1> PICK before : before = m.attempts - 1
  OBVIOUS
<1>5. MessageOK(j, m) /\ before \in Int
  BY <1>4 DEF PipelineIInv, OutboxInv
<1>8. /\ IsPaid(j, before) => IsPaid(j, before)'
      /\ IsPaid(j, m.attempts) => IsPaid(j, m.attempts)'
      /\ IsPaid(j, MaxAttempts) => IsPaid(j, MaxAttempts)'
  BY <1>3, <1>4, <1>5, PaidStays, Bounds
<1>6. CASE o[j] = m
  <2>1. ASSUME m.status # "Delivered", ~IsPaid(j, m.attempts), NEW s \in Relay,
               WorksOn(relays[s], j, m.attempts)
        PROVE  WorksOn(relays[s], j, m.attempts)'
    <3>1. m.lease = "live"
      BY <1>4, <2>1 DEF AttemptOK
    <3>3. CASE s # r
      <4> PICK z : z = relays[s]
        OBVIOUS
      <4>1. WorksOn(z, j, m.attempts)'
        BY <1>3, <1>4, <2>1, WorkStays
      <4>2. relays'[s] = z
        BY <1>3, <3>3
      <4> QED BY <4>1, <4>2
    <3>4. CASE s = r
      <4>1. PICK p \in DOMAIN b : /\ b[p] = [message |-> j, token |-> m.attempts]
                                  /\ ~(relays[r].at = "nack" /\ p = 1)
        BY <2>1, <3>4 DEF WorksOn
      <4>2. p # 1
        <5> SUFFICES ASSUME p = 1 PROVE FALSE
          OBVIOUS
        <5>1. j = i /\ m.attempts = Token(r) /\ relays[r].at = "ack"
          BY <1>1, <4>1
        <5>2. HoldsClaim(r)
          BY <1>5, <3>1, <5>1 DEF HoldsClaim, MessageOK
        <5> QED BY <1>2, <1>6, <2>1, <5>1, <5>2
      <4>3. p - 1 \in DOMAIN Tail(b) /\ Tail(b)[p - 1] = b[p]
        <5>1. /\ Len(Tail(b)) = Len(b) - 1 /\ Tail(b) \in Seq(BatchEntry) /\ Len(b) \in Nat
              /\ \A k \in 1 .. Len(Tail(b)) : Tail(b)[k] = b[k + 1]
          BY <1>1, HeadTailProperties
        <5>2. p - 1 \in 1 .. Len(Tail(b)) /\ p - 1 + 1 = p
          <6>1. DOMAIN b = 1 .. Len(b)
            BY <1>1
          <6> QED BY <4>1, <4>2, <5>1, <6>1
        <5>3. DOMAIN Tail(b) = 1 .. Len(Tail(b))
          BY <5>1
        <5> QED BY <5>1, <5>2, <5>3
      <4>4. WorksOn(x, j, m.attempts)'
        BY <4>1, <4>3 DEF WorksOn
      <4> QED BY <1>3, <3>4, <4>4
    <3> QED BY <3>3, <3>4
  <2>2. AttemptOK(j, m)'
    BY <1>4, <1>8, <2>1, Zenon DEF AttemptOK
  <2> QED BY <1>6, <2>2
<1>7. CASE o[j] # m
  <2>1. j = i /\ HoldsClaim(r)
    BY <1>2, <1>7
  <2> PICK n : n = o[i]
    OBVIOUS
  <2>2. n.attempts = m.attempts /\ m.attempts = Token(r) /\ m.status = "Claimed"
    BY <1>2, <2>1
  <2>3. CASE relays[r].at = "ack"
    <3>1. n.status = "Delivered"
      BY <1>2, <2>1, <2>3
    <3>2. n.status # "DeadLetter"
      BY <3>1
    <3>3. AttemptOK(i, n)'
      BY <3>1, <3>2, Zenon DEF AttemptOK
    <3> QED BY <2>1, <3>3
  <2>4. CASE relays[r].at = "nack"
    <3>1. IsPaid(j, m.attempts)
      <4> SUFFICES ASSUME ~IsPaid(j, m.attempts) PROVE FALSE
        OBVIOUS
      <4>1. PICK s \in Relay : WorksOn(relays[s], j, m.attempts)
        BY <1>4, <2>2 DEF AttemptOK
      <4>2. PICK p \in DOMAIN relays[s].batch :
               /\ relays[s].batch[p] = [message |-> j, token |-> m.attempts]
               /\ ~(relays[s].at = "nack" /\ p = 1)
        BY <4>1 DEF WorksOn
      <4>3. relays[s].batch[p] = relays[r].batch[1]
        BY <1>1, <2>1, <2>2, <4>2
      <4>4. s = r /\ p = 1
        BY <1>1, <4>3 DEF PipelineIInv, ClaimsInv
      <4> QED BY <2>4, <4>2, <4>4
    <3>2. IsPaid(j, before)
      BY <1>4, <2>2 DEF AttemptOK
    <3>3. n.status = IF m.attempts >= MaxAttempts THEN "DeadLetter" ELSE "Pending"
      BY <1>2, <2>1, <2>4
    <3>4. n.status = "DeadLetter" => IsPaid(j, MaxAttempts)
      <4> SUFFICES ASSUME n.status = "DeadLetter"
                   PROVE  IsPaid(j, MaxAttempts)
        OBVIOUS
      <4>1. MaxAttempts <= m.attempts
        BY <1>4, <3>3, Bounds
      <4>2. MaxAttempts \in Int /\ m.attempts \in Int
        BY <1>4, Bounds
      <4> QED BY <1>3, <3>1, <4>1, <4>2, PaidLess
    <3>5. IsPaid(j, m.attempts)' /\ IsPaid(j, before)'
          /\ (n.status = "DeadLetter" => IsPaid(j, MaxAttempts)')
      BY <1>8, <3>1, <3>2, <3>4
    <3>6. n.attempts = m.attempts /\ n.attempts - 1 = before
      BY <2>2
    <3>7. AttemptOK(j, n)'
      BY <3>5, <3>6 DEF AttemptOK
    <3> QED BY <2>1, <3>7
  <2> QED BY <2>3, <2>4
<1> QED BY <1>6, <1>7

\* The other claims are of other messages.
LEMMA SettledSole ==
    ASSUME PipelineIInv, NEW r \in Relay, relays[r].at \in {"ack", "nack"}, NEW x,
           Moves(r, x), outbox' = SettledBy(r), UNCHANGED <<replay, raced, faults>>,
           x.batch = Tail(relays[r].batch), x.at \in {"load", "idle"}
    PROVE  SoleInv'
<1> PICK i : i = Message(r)
  OBVIOUS
<1> PICK b : b = relays[r].batch
  OBVIOUS
<1>1. /\ b # <<>> /\ b \in Seq(BatchEntry) /\ 1 \in DOMAIN b
      /\ b[1] = [message |-> i, token |-> Token(r)] /\ i \in DOMAIN outbox
  BY HeadFacts
<1>2. \A j \in DOMAIN outbox : j # i => outbox'[j] = outbox[j]
  BY SettledFacts
<1>3. /\ relays'[r] = x /\ \A s \in Relay : s # r => relays'[s] = relays[s]
      /\ DOMAIN outbox = DOMAIN log
  BY MovesFacts
<1> SUFFICES ASSUME faults = 0, NEW s \in Relay
             PROVE  IsSole(relays[s])'
  BY DEF SoleInv, PipelineIInv
<1>4. IsSole(relays[r]) /\ IsSole(relays[s])
  BY DEF PipelineIInv, SoleInv
<1>5. \A e, k : StoredRows(e, k)' = StoredRows(e, k)
  BY DEF StoredRows, RowsOf
<1> PICK c : c = relays[s].batch
  OBVIOUS
<1>6. ASSUME NEW p \in DOMAIN c, ~(s = r /\ p = 1)
      PROVE  outbox'[c[p].message].lease = "live" /\ outbox'[c[p].message].attempts = c[p].token
  <2>1. outbox[c[p].message].lease = "live" /\ outbox[c[p].message].attempts = c[p].token
    BY <1>4 DEF IsSole
  <2>2. outbox[i].attempts = Token(r)
    BY <1>1, <1>4 DEF IsSole
  <2>3. c[p] \in BatchEntry /\ c[p].message \in DOMAIN outbox
    <3>1. c \in Seq(BatchEntry) /\ c[p].message \in DOMAIN log
      BY RelayOK, RelayRecordFacts DEF BatchOK
    <3> QED BY <1>3, <3>1
  <2>4. c[p] # b[1]
    BY <1>1, <1>6 DEF PipelineIInv, ClaimsInv
  <2>5. c[p].message # i
    <3> SUFFICES ASSUME c[p].message = i PROVE FALSE
      OBVIOUS
    <3>1. c[p].token = Token(r)
      BY <2>1, <2>2
    <3> QED BY <1>1, <2>3, <2>4, <3>1 DEF BatchEntry
  <2> QED BY <1>2, <2>1, <2>3, <2>5
<1>7. CASE s = r
  <2>1. ASSUME NEW n \in DOMAIN Tail(b)
        PROVE  n + 1 \in DOMAIN b /\ n + 1 # 1 /\ Tail(b)[n] = b[n + 1]
    BY <1>1
  <2>2. \A n \in DOMAIN x.batch :
           /\ outbox'[x.batch[n].message].lease = "live"
           /\ outbox'[x.batch[n].message].attempts = x.batch[n].token
    BY <1>6, <1>7, <2>1
  <2>3. IsSole(x)'
    BY <2>2 DEF IsSole
  <2> QED BY <1>3, <1>7, <2>3
<1>8. CASE s # r
  <2> PICK z : z = relays[s]
    OBVIOUS
  <2>1. IsSole(z)'
    BY <1>4, <1>5, <1>6, <1>8 DEF IsSole, HeadOf
  <2>2. relays'[s] = z
    BY <1>3, <1>8
  <2> QED BY <2>1, <2>2
<1> QED BY <1>7, <1>8

LEMMA SettlingKeeps ==
    ASSUME PipelineIInv, NEW r \in Relay, relays[r].at \in {"ack", "nack"},
           NEW x \in RelayRecord, relays' = [relays EXCEPT ![r] = x],
           UNCHANGED <<runVars, log, replay, notes>>, FaultsGrow,
           outbox' \in {outbox, SettledBy(r)}, x.drafts = relays[r].drafts,
           x.encoder = relays[r].encoder, x.stored = relays[r].stored,
           x.at \in {"load", "idle"}, x.at = "idle" <=> x.batch = <<>>,
           LeftOf(x.batch, relays[r].batch),
           \/ faults' = faults + 1
           \/ outbox' = SettledBy(r) /\ faults' = faults /\ x.batch = Tail(relays[r].batch)
    PROVE  PipelineIInv'
<1>1. /\ TypeInv /\ outbox \in Seq(OutboxMessage) /\ straight \in BOOLEAN
      /\ replay \in Seq(ReplayRow) /\ Len(replay) \in Nat
      /\ swallowed \subseteq Nat /\ raced \subseteq Nat
  BY ReplayFacts DEF PipelineIInv, TypeInv
<1>2. outbox' \in Seq(OutboxMessage) /\ Len(outbox') = Len(outbox)
  BY <1>1, SettledFacts
<1>3. Moves(r, x)
  BY <1>1, <1>2 DEF Moves, runVars, notes
<1>4. Grows /\ log' = log /\ DOMAIN outbox' = DOMAIN outbox
  BY <1>3, MovesFacts
<1>5. DraftsOK(x)' /\ (straight' => InOrder(x)')
  BY <1>3, SameDrafts
<1>6. BatchOK(x)'
  <2>1. \A n \in DOMAIN x.batch : x.batch[n].message \in DOMAIN log
    <3>1. \A n \in DOMAIN relays[r].batch : relays[r].batch[n].message \in DOMAIN log
      BY RelayOK DEF BatchOK
    <3> QED BY <3>1 DEF LeftOf
  <2> QED BY <1>4, <2>1 DEF BatchOK
<1>7. TypeInv' /\ LogInv' /\ RunInv' /\ RelaysInv'
  BY <1>3, <1>5, <1>6, MovesKeeps
<1>8. ReplayInv' /\ StraightRows'
  BY SameReplay DEF runVars, notes
<1>9. OutboxInv' /\ \A j \in DOMAIN outbox : Paid(outbox[j], outbox'[j])
  BY <1>3, SettledOutbox
<1>10. ClaimsInv'
  <2>1. \A j \in DOMAIN outbox : outbox[j].attempts <= outbox'[j].attempts
    <3> SUFFICES ASSUME NEW j \in DOMAIN outbox
                 PROVE  outbox[j].attempts <= outbox'[j].attempts
      OBVIOUS
    <3>1. outbox[j].attempts \in Nat /\ outbox'[j].attempts = outbox[j].attempts
      BY <1>1, <1>9, MessageFacts DEF Paid
    <3> QED BY <3>1
  <2> QED BY <1>3, <2>1, ClaimsLeft
<1>11. AttemptsInv'
  <2>1. CASE faults' = faults + 1
    BY <1>4, <1>9, <2>1, FaultPays
  <2>2. CASE /\ outbox' = SettledBy(r) /\ faults' = faults
             /\ x.batch = Tail(relays[r].batch)
    BY <1>3, <2>2, SettledAttempts
  <2> QED BY <2>1, <2>2
<1>12. SoleInv'
  <2>1. CASE faults' = faults + 1
    <3>1. faults \in Nat
      BY <1>3, MovesFacts
    <3> QED BY <2>1, <3>1, SoleIsOver
  <2>2. CASE /\ outbox' = SettledBy(r) /\ faults' = faults
             /\ x.batch = Tail(relays[r].batch)
    BY <1>3, <2>2, SettledSole DEF notes
  <2> QED BY <2>1, <2>2
<1> QED BY <1>7, <1>8, <1>9, <1>10, <1>11, <1>12 DEF PipelineIInv

LEMMA SettlesKeeps ==
    ASSUME PipelineIInv, NEW r \in Relay, Settles(r)
    PROVE  PipelineIInv'
<1> PICK y : y = relays[r]
  OBVIOUS
<1>a. PICK at : at = IF Len(y.batch) > 1 THEN "load" ELSE "idle"
  OBVIOUS
<1>x. PICK x : x = [y EXCEPT !.batch = Tail(y.batch), !.at = at]
  OBVIOUS
<1>1. /\ relays[r].at \in {"ack", "nack"} /\ outbox' = SettledBy(r)
      /\ relays' = NextMessage(r) /\ UNCHANGED <<runVars, log, replay, notes>>
      /\ faults' = faults /\ FaultsGrow
  BY FaultCounts DEF Settles, PipelineIInv
<1>2. relays' = [relays EXCEPT ![r] = x]
  BY <1>1, <1>a, <1>x DEF NextMessage
<1>3. y \in RelayRecord /\ y.batch \in Seq(BatchEntry) /\ y.batch # <<>>
  BY <1>1, RelayOK, HeadFacts
<1>4. /\ Tail(y.batch) \in Seq(BatchEntry) /\ Len(Tail(y.batch)) = Len(y.batch) - 1
      /\ Len(y.batch) \in Nat /\ Len(y.batch) > 0
  BY <1>3
<1>5. at \in {"load", "idle"} /\ (at = "idle" <=> Tail(y.batch) = <<>>)
  <2>t. PICK t : t = Tail(y.batch)
    OBVIOUS
  <2>1. t = <<>> <=> Len(t) = 0
    <3>1. t \in Seq(BatchEntry)
      BY <1>4, <2>t
    <3>2. t # <<>> => Len(t) \in Nat \ {0}
      BY <3>1, EmptySeq
    <3>3. t = <<>> => Len(t) = 0
      OBVIOUS
    <3>4. t # <<>> => Len(t) # 0
      BY <3>2
    <3> QED BY <3>3, <3>4
  <2>2. Len(y.batch) > 1 <=> Len(t) # 0
    <3>k. PICK k : k = Len(y.batch)
      OBVIOUS
    <3>n. PICK n : n = Len(t)
      OBVIOUS
    <3>1. n = k - 1 /\ k \in Nat /\ k > 0
      BY <1>4, <2>t, <3>k, <3>n
    <3>2. k > 1 <=> n # 0
      BY <3>1
    <3> QED BY <3>2, <3>k, <3>n
  <2> QED BY <1>a, <2>t, <2>1, <2>2
<1>6. /\ x \in RelayRecord /\ x.at = at /\ x.batch = Tail(y.batch) /\ x.drafts = y.drafts
      /\ x.encoder = y.encoder /\ x.stored = y.stored
  <2>1. at \in {"idle", "load", "append", "insert", "ack", "nack"}
    BY <1>5
  <2> QED BY <1>3, <1>4, <1>x, <2>1 DEF RelayRecord
<1>7. LeftOf(x.batch, relays[r].batch)
  BY <1>3, <1>6, WhatIsLeft
<1> QED BY <1>1, <1>2, <1>5, <1>6, <1>7, SettlingKeeps

LEMMA SettleFailsKeeps ==
    ASSUME PipelineIInv, NEW r \in Relay, SettleFails(r)
    PROVE  PipelineIInv'
<1> PICK y : y = relays[r]
  OBVIOUS
<1>x. PICK x : x = [y EXCEPT !.batch = <<>>, !.at = "idle"]
  OBVIOUS
<1>1. /\ relays[r].at \in {"ack", "nack"} /\ outbox' \in {outbox, SettledBy(r)}
      /\ relays' = [Relays(r, "idle") EXCEPT ![r].batch = <<>>]
      /\ UNCHANGED <<runVars, log, replay, notes>> /\ faults' = faults + 1 /\ FaultsGrow
  BY FaultCounts DEF SettleFails, PipelineIInv
<1>2. relays' = [relays EXCEPT ![r] = x]
  BY <1>1, <1>x DEF Relays
<1>3. y \in RelayRecord /\ y.batch \in Seq(BatchEntry) /\ <<>> \in Seq(BatchEntry)
  BY RelayOK, RelayRecordFacts
<1>4. /\ x \in RelayRecord /\ x.at = "idle" /\ x.batch = <<>> /\ x.drafts = y.drafts
      /\ x.encoder = y.encoder /\ x.stored = y.stored
  BY <1>3, <1>x DEF RelayRecord
<1>5. LeftOf(x.batch, relays[r].batch)
  BY <1>3, <1>4, WhatIsLeft
<1> QED BY <1>1, <1>2, <1>4, <1>5, SettlingKeeps

----------------------------------------------------------------------------
(* A claim.                                                                 *)

\* An order of a set of messages has each of them once.
LEMMA OrderOf ==
    ASSUME NEW N \in Nat, NEW S \in SUBSET (1 .. N), S # {}, NEW all \in SetToSeqs(S)
    PROVE  /\ Len(all) \in Nat /\ Len(all) > 0 /\ DOMAIN all = 1 .. Len(all)
           /\ \A n \in 1 .. Len(all) : all[n] \in S
           /\ \A m, n \in 1 .. Len(all) : all[m] = all[n] => m = n
<1> DEFINE K == Cardinality(S)
<1>1. IsFiniteSet(S)
  <2>1. IsFiniteSet(1 .. N)
    BY FS_Interval
  <2> QED BY <2>1, FS_Subset
<1>2. K \in Nat /\ K # 0
  BY <1>1, FS_CardinalityType, FS_EmptySet
<1>3. all \in [1 .. K -> S] /\ \A i, j \in 1 .. K : i # j => all[i] # all[j]
  BY DEF SetToSeqs
<1> HIDE DEF K
<1>4. DOMAIN all = 1 .. K /\ all \in Seq(S)
  BY <1>2, <1>3
<1>5. Len(all) = K
  BY <1>2, <1>4
<1> QED BY <1>2, <1>3, <1>4, <1>5

\* What a claim takes: messages that are claimable, each once.
Takes(taken) ==
    /\ taken \in Seq(Nat) /\ 1 \in DOMAIN taken
    /\ \A n \in DOMAIN taken : taken[n] \in DOMAIN outbox /\ IsClaimable(taken[n])
    /\ \A m, n \in DOMAIN taken : taken[m] = taken[n] => m = n

ClaimedNow(i) == [outbox[i] EXCEPT !.status = "Claimed", !.lease = "live", !.attempts = @ + 1]
OutboxWith(taken) ==
    [i \in DOMAIN outbox |-> IF i \in ToSet(taken) THEN ClaimedNow(i) ELSE outbox[i]]
BatchOf(taken) ==
    [n \in DOMAIN taken |-> [message |-> taken[n], token |-> outbox[taken[n]].attempts + 1]]

LEMMA ClaimTakes ==
    ASSUME PipelineIInv, NEW r \in Relay, Claims(r)
    PROVE  \E taken :
              /\ Takes(taken) /\ outbox' = OutboxWith(taken)
              /\ relays' = [Relays(r, "load") EXCEPT ![r].batch = BatchOf(taken)]
<1> DEFINE claimable == {i \in DOMAIN outbox : IsClaimable(i)}
           Limit(all) == IF Len(all) < BatchLimit THEN Len(all) ELSE BatchLimit
<1>1. claimable # {}
  BY DEF Claims
<1>2. PICK all \in SetToSeqs(claimable) :
         /\ outbox' = OutboxWith(SubSeq(all, 1, Limit(all)))
         /\ relays' = [Relays(r, "load") EXCEPT ![r].batch =
                          BatchOf(SubSeq(all, 1, Limit(all)))]
  BY Zenon DEF Claims, OutboxWith, BatchOf, ClaimedNow
<1>3. outbox \in Seq(OutboxMessage) /\ Len(outbox) \in Nat /\ DOMAIN outbox = 1 .. Len(outbox)
  <2>1. outbox \in Seq(OutboxMessage)
    BY DEF PipelineIInv, TypeInv
  <2> QED BY <2>1
<1>4. claimable \in SUBSET (1 .. Len(outbox))
  BY <1>3
<1> HIDE DEF claimable
<1>5. /\ Len(all) \in Nat /\ Len(all) > 0 /\ \A n \in 1 .. Len(all) : all[n] \in claimable
      /\ \A m, n \in 1 .. Len(all) : all[m] = all[n] => m = n
  BY <1>1, <1>3, <1>4, OrderOf
<1> PICK k : k = Limit(all)
  OBVIOUS
<1>6. k \in Nat /\ k >= 1 /\ k <= Len(all)
  BY <1>5, Bounds
<1> HIDE DEF Limit
<1> PICK taken : taken = SubSeq(all, 1, k)
  OBVIOUS
<1>7. /\ taken \in Seq(claimable) /\ Len(taken) = k
      /\ \A n \in 1 .. k : taken[n] = all[n]
  <2>1. \A n \in 1 .. k : all[n] \in claimable
    BY <1>5, <1>6
  <2>2. /\ taken \in Seq(claimable) /\ Len(taken) = IF 1 <= k THEN k - 1 + 1 ELSE 0
        /\ \A n \in 1 .. k - 1 + 1 : taken[n] = all[1 + n - 1]
    BY <1>6, <2>1, SubSeqProperties
  <2>3. k - 1 + 1 = k /\ \A n \in 1 .. k : 1 + n - 1 = n
    BY <1>6
  <2> QED BY <1>6, <2>2, <2>3
<1>8. DOMAIN taken = 1 .. k /\ \A n \in 1 .. k : taken[n] \in claimable
  <2>1. DOMAIN taken = 1 .. k
    BY <1>7
  <2> QED BY <1>5, <1>6, <1>7, <2>1
<1>9. Takes(taken)
  <2>1. \A n \in DOMAIN taken : taken[n] \in DOMAIN outbox /\ IsClaimable(taken[n])
    BY <1>8 DEF claimable
  <2>2. \A m, n \in DOMAIN taken : taken[m] = taken[n] => m = n
    BY <1>5, <1>6, <1>7, <1>8
  <2>3. taken \in Seq(Nat)
    <3>1. claimable \subseteq Nat
      BY <1>4
    <3> QED BY <1>7, <3>1
  <2>4. 1 \in DOMAIN taken
    BY <1>6, <1>8
  <2> QED BY <2>1, <2>2, <2>3, <2>4 DEF Takes
<1> QED BY <1>2, <1>9

\* A claimed message has an attempt more, and its lease.
LEMMA TakenFacts ==
    ASSUME TypeInv, NEW taken, Takes(taken), NEW o, o = OutboxWith(taken)
    PROVE  /\ o \in Seq(OutboxMessage) /\ Len(o) = Len(outbox)
           /\ \A j \in DOMAIN outbox : j \notin ToSet(taken) => o[j] = outbox[j]
           /\ \A j \in ToSet(taken) :
                 /\ j \in DOMAIN outbox /\ o[j].status = "Claimed" /\ o[j].lease = "live"
                 /\ o[j].attempts = outbox[j].attempts + 1
<1>1. outbox \in Seq(OutboxMessage) /\ Len(outbox) \in Nat /\ DOMAIN outbox = 1 .. Len(outbox)
  <2>1. outbox \in Seq(OutboxMessage)
    BY DEF TypeInv
  <2> QED BY <2>1
<1>2. \A j \in ToSet(taken) : j \in DOMAIN outbox
  BY DEF Takes, ToSet
<1>3. ASSUME NEW j \in DOMAIN outbox
      PROVE  /\ ClaimedNow(j) \in OutboxMessage /\ ClaimedNow(j).status = "Claimed"
             /\ ClaimedNow(j).lease = "live"
             /\ ClaimedNow(j).attempts = outbox[j].attempts + 1
  <2> PICK m : m = outbox[j]
    OBVIOUS
  <2>1. m \in OutboxMessage
    BY MessageFacts
  <2>k. PICK k : k = m.attempts + 1
    OBVIOUS
  <2>2. k \in Nat
    BY <2>1, <2>k, MessageFacts
  <2>c. PICK c : c = [m EXCEPT !.status = "Claimed", !.lease = "live", !.attempts = k]
    OBVIOUS
  <2>3. ClaimedNow(j) = c
    BY <2>c, <2>k DEF ClaimedNow
  <2>4. c \in OutboxMessage /\ c.status = "Claimed" /\ c.lease = "live" /\ c.attempts = k
    BY <2>1, <2>2, <2>c DEF OutboxMessage
  <2> QED BY <2>3, <2>4, <2>k
<1>4. \A j \in DOMAIN outbox : o[j] = IF j \in ToSet(taken) THEN ClaimedNow(j) ELSE outbox[j]
  BY DEF OutboxWith
<1>5. o \in [1 .. Len(outbox) -> OutboxMessage]
  <2>1. DOMAIN o = 1 .. Len(outbox) /\ o = [j \in DOMAIN o |-> o[j]]
    BY <1>1 DEF OutboxWith
  <2>2. \A j \in DOMAIN outbox : o[j] \in OutboxMessage
    BY <1>3, <1>4, MessageFacts
  <2> QED BY <1>1, <2>1, <2>2
<1>6. o \in Seq(OutboxMessage) /\ Len(o) = Len(outbox)
  BY <1>1, <1>5
<1> QED BY <1>2, <1>3, <1>4, <1>6

LEMMA BatchFacts ==
    ASSUME TypeInv, NEW taken, Takes(taken), NEW b, b = BatchOf(taken)
    PROVE  /\ b \in Seq(BatchEntry) /\ b # <<>> /\ DOMAIN b = DOMAIN taken
           /\ \A n \in DOMAIN b : /\ b[n].message = taken[n]
                                  /\ b[n].token = outbox[taken[n]].attempts + 1
                                  /\ b[n] = [message |-> taken[n],
                                             token |-> outbox[taken[n]].attempts + 1]
<1>1. taken \in Seq(Nat) /\ \A n \in DOMAIN taken : taken[n] \in DOMAIN outbox
  BY DEF Takes
<1>2. DOMAIN taken = 1 .. Len(taken) /\ Len(taken) \in Nat
  BY <1>1
<1>3. ASSUME NEW n \in DOMAIN taken
      PROVE  taken[n] \in Nat /\ outbox[taken[n]].attempts + 1 \in Nat
  <2>1. taken[n] \in Nat
    BY <1>1, <1>2
  <2>2. outbox[taken[n]].attempts \in Nat
    BY <1>1, MessageFacts
  <2> QED BY <2>1, <2>2
<1>4. DOMAIN b = DOMAIN taken
  BY DEF BatchOf
<1>5. \A n \in DOMAIN b : b[n] = [message |-> taken[n],
                                  token |-> outbox[taken[n]].attempts + 1]
  BY DEF BatchOf
<1>6. b \in Seq(BatchEntry)
  <2>1. b = [n \in 1 .. Len(taken) |-> b[n]]
    BY <1>2 DEF BatchOf
  <2>2. \A n \in 1 .. Len(taken) : b[n] \in BatchEntry
    BY <1>2, <1>3, <1>4, <1>5 DEF BatchEntry
  <2>3. b \in [1 .. Len(taken) -> BatchEntry]
    BY <2>1, <2>2
  <2> QED BY <1>2, <2>3
<1>7. b # <<>>
  <2>1. 1 \in DOMAIN b
    BY <1>4 DEF Takes
  <2> QED BY <2>1
<1> QED BY <1>4, <1>5, <1>6, <1>7


\* The attempts of a claimable message are paid for: none is under way.
LEMMA ClaimablePaid ==
    ASSUME PipelineIInv, NEW i \in DOMAIN outbox, IsClaimable(i)
    PROVE  outbox[i].lease # "live" /\ (straight => IsPaid(i, outbox[i].attempts))
<1> PICK m : m = outbox[i]
  OBVIOUS
<1>1. (straight => AttemptOK(i, m)) /\ MessageOK(i, m)
  BY DEF PipelineIInv, AttemptsInv, OutboxInv
<1>2. m.status # "Delivered" /\ m.lease # "live"
  <2>1. \/ m.status = "Pending"
        \/ m.status = "Claimed" /\ m.lease = "expired"
    BY DEF IsClaimable
  <2> QED BY <2>1, <1>1 DEF MessageOK
<1>3. straight => IsPaid(i, m.attempts)
  BY <1>1, <1>2 DEF AttemptOK
<1> QED BY <1>2, <1>3

LEMMA ClaimsKeeps ==
    ASSUME PipelineIInv, NEW r \in Relay, Claims(r)
    PROVE  PipelineIInv'
<1> PICK y : y = relays[r]
  OBVIOUS
<1>t. PICK taken : /\ Takes(taken) /\ outbox' = OutboxWith(taken)
                   /\ relays' = [Relays(r, "load") EXCEPT ![r].batch = BatchOf(taken)]
  BY ClaimTakes
<1>b. PICK b : b = BatchOf(taken)
  OBVIOUS
<1>x. PICK x : x = [y EXCEPT !.at = "load", !.batch = b]
  OBVIOUS
<1>1. /\ relays[r].at = "idle"
      /\ UNCHANGED <<live, run, buffer, pending, version, covered, log, replay, straight,
                     swallowed, raced, faults>>
  BY DEF Claims, At, runVars, notes
<1>2. relays' = [relays EXCEPT ![r] = x]
  BY <1>t, <1>b, <1>x DEF Relays
<1>3. /\ b \in Seq(BatchEntry) /\ b # <<>> /\ DOMAIN b = DOMAIN taken
      /\ \A n \in DOMAIN b : /\ b[n].message = taken[n]
                             /\ b[n].token = outbox[taken[n]].attempts + 1
                             /\ b[n] = [message |-> taken[n],
                                        token |-> outbox[taken[n]].attempts + 1]
  BY <1>t, <1>b, BatchFacts DEF PipelineIInv
<1>4. /\ y \in RelayRecord /\ y.batch = <<>>
  BY <1>1, RelayOK DEF BatchOK
<1>5. /\ x \in RelayRecord /\ x.at = "load" /\ x.batch = b /\ x.drafts = y.drafts
      /\ x.encoder = y.encoder /\ x.stored = y.stored
  BY <1>3, <1>4, <1>x DEF RelayRecord
<1>6. /\ outbox' \in Seq(OutboxMessage) /\ Len(outbox') = Len(outbox)
      /\ \A j \in DOMAIN outbox : j \notin ToSet(taken) => outbox'[j] = outbox[j]
      /\ \A j \in ToSet(taken) :
            /\ j \in DOMAIN outbox /\ outbox'[j].status = "Claimed"
            /\ outbox'[j].lease = "live" /\ outbox'[j].attempts = outbox[j].attempts + 1
  BY <1>t, TakenFacts DEF PipelineIInv
<1>7. Moves(r, x)
  <2>1. /\ replay \in Seq(ReplayRow) /\ Len(replay) \in Nat /\ straight \in BOOLEAN
        /\ faults \in Nat /\ swallowed \subseteq Nat /\ raced \subseteq Nat /\ FaultsGrow
    BY <1>1, ReplayFacts, FaultCounts DEF PipelineIInv, TypeInv
  <2> QED BY <1>1, <1>2, <1>6, <2>1 DEF Moves
<1>8. /\ Grows /\ log' = log /\ DOMAIN outbox' = DOMAIN outbox /\ DOMAIN outbox = DOMAIN log
      /\ relays'[r] = x /\ \A s \in Relay : s # r => relays'[s] = relays[s]
      /\ Len(log') \in Nat /\ DOMAIN log' = 1 .. Len(log') /\ faults \in Nat
      /\ faults' \in Nat /\ faults <= faults'
  BY <1>7, MovesFacts DEF FaultsGrow
<1>9. DraftsOK(x)' /\ (straight' => InOrder(x)')
  BY <1>5, <1>7, SameDrafts
<1>10. \A n \in DOMAIN taken : /\ taken[n] \in DOMAIN outbox /\ IsClaimable(taken[n])
                               /\ taken[n] \in ToSet(taken)
  BY <1>t DEF Takes, ToSet
<1>11. BatchOK(x)'
  BY <1>3, <1>5, <1>8, <1>10 DEF BatchOK
<1>12. TypeInv' /\ LogInv' /\ RunInv' /\ RelaysInv'
  BY <1>5, <1>7, <1>9, <1>11, MovesKeeps
<1>13. ReplayInv' /\ StraightRows'
  BY <1>1, SameReplay
<1>14. OutboxInv'
  <2> SUFFICES ASSUME NEW i \in DOMAIN outbox
               PROVE  MessageOK(i, outbox[i])'
    BY <1>8 DEF OutboxInv
  <2>m. PICK m : m = outbox'[i]
    OBVIOUS
  <2>1. CASE i \in ToSet(taken)
    <3>1. m.status = "Claimed" /\ m.lease = "live"
      BY <1>6, <2>1, <2>m
    <3>2. MessageOK(i, m)'
      BY <3>1 DEF MessageOK
    <3> QED BY <2>m, <3>2
  <2>2. CASE i \notin ToSet(taken)
    <3>1. m = outbox[i]
      BY <1>6, <2>2, <2>m
    <3>2. MessageOK(i, m)
      BY <3>1 DEF PipelineIInv, OutboxInv
    <3>3. MessageOK(i, m)'
      BY <1>8, <3>2, MessageStands DEF PipelineIInv
    <3> QED BY <2>m, <3>3
  <2> QED BY <2>1, <2>2
<1>15. \A j \in DOMAIN outbox : outbox[j].attempts \in Nat
                                /\ outbox[j].attempts <= outbox'[j].attempts
  <2> SUFFICES ASSUME NEW j \in DOMAIN outbox
               PROVE  outbox[j].attempts \in Nat
                      /\ outbox[j].attempts <= outbox'[j].attempts
    OBVIOUS
  <2>1. outbox[j].attempts \in Nat
    BY MessageFacts DEF PipelineIInv
  <2>2. outbox'[j].attempts \in {outbox[j].attempts, outbox[j].attempts + 1}
    BY <1>6
  <2> QED BY <2>1, <2>2
<1>16. ClaimsInv'
  <2>1. \A s \in Relay : \A n \in DOMAIN relays[s].batch :
           LET e == relays[s].batch[n]
           IN e.message \in DOMAIN outbox /\ e.token \in Nat
              /\ e.token <= outbox[e.message].attempts
    <3> SUFFICES ASSUME NEW s \in Relay, NEW n \in DOMAIN relays[s].batch
                 PROVE  /\ relays[s].batch[n].message \in DOMAIN outbox
                        /\ relays[s].batch[n].token \in Nat
                        /\ relays[s].batch[n].token
                              <= outbox[relays[s].batch[n].message].attempts
      OBVIOUS
    <3>1. relays[s].batch \in Seq(BatchEntry) /\ BatchOK(relays[s])
      BY RelayOK, RelayRecordFacts
    <3>2. relays[s].batch[n] \in BatchEntry
      BY <3>1, ElementOfSeq
    <3>3. relays[s].batch[n].token \in Nat
      BY <3>2 DEF BatchEntry
    <3>4. relays[s].batch[n].message \in DOMAIN outbox
      BY <3>1, <1>8 DEF BatchOK
    <3> QED BY <3>3, <3>4 DEF PipelineIInv, ClaimsInv
  <2>2. ASSUME NEW s \in Relay, NEW n \in DOMAIN relays'[s].batch
        PROVE  relays'[s].batch[n].token <= outbox'[relays'[s].batch[n].message].attempts
    <3>1. CASE s = r
      <4>1. n \in DOMAIN b /\ relays'[s].batch[n] = b[n]
        BY <1>5, <1>8, <2>2, <3>1
      <4>2. /\ taken[n] \in ToSet(taken) /\ taken[n] \in DOMAIN outbox
            /\ b[n].message = taken[n] /\ b[n].token = outbox[taken[n]].attempts + 1
        BY <1>3, <1>10, <4>1
      <4>3. outbox'[taken[n]].attempts = outbox[taken[n]].attempts + 1
        BY <1>6, <4>2
      <4>4. outbox[taken[n]].attempts \in Nat
        BY <1>15, <4>2
      <4> QED BY <4>1, <4>2, <4>3, <4>4
    <3>2. CASE s # r
      <4>1. relays'[s] = relays[s]
        BY <1>8, <3>2
      <4>e. PICK e : e = relays[s].batch[n]
        OBVIOUS
      <4>2. e.message \in DOMAIN outbox /\ e.token \in Nat
            /\ e.token <= outbox[e.message].attempts
        BY <2>1, <2>2, <4>1, <4>e
      <4>3. outbox[e.message].attempts <= outbox'[e.message].attempts
            /\ outbox'[e.message].attempts \in Nat /\ outbox[e.message].attempts \in Nat
        <5>1. outbox'[e.message] \in OutboxMessage
          BY <1>6, <1>8, <4>2, ElementOfSeq
        <5> QED BY <5>1, <1>15, <4>2 DEF OutboxMessage
      <4>4. e.token <= outbox'[e.message].attempts
        BY <4>2, <4>3
      <4> QED BY <4>1, <4>4, <4>e
    <3> QED BY <3>1, <3>2
  <2>3. ASSUME NEW s \in Relay, s # r, NEW m \in DOMAIN relays[s].batch,
               NEW n \in DOMAIN b, relays[s].batch[m] = b[n]
        PROVE  FALSE
    <3>1. b[n].message = taken[n] /\ b[n].token = outbox[taken[n]].attempts + 1
      BY <1>3
    <3>2. b[n].token <= outbox[b[n].message].attempts /\ b[n].message \in DOMAIN outbox
      BY <2>1, <2>3
    <3>3. outbox[taken[n]].attempts \in Nat
      BY <1>15, <3>1, <3>2
    <3> QED BY <3>1, <3>2, <3>3
  <2>4. ASSUME NEW s \in Relay, NEW t \in Relay, NEW m \in DOMAIN relays'[s].batch,
               NEW n \in DOMAIN relays'[t].batch,
               relays'[s].batch[m] = relays'[t].batch[n]
        PROVE  s = t /\ m = n
    <3>1. relays'[r].batch = b
      BY <1>5, <1>8
    <3>2. CASE s = r /\ t = r
      <4>1. m \in DOMAIN taken /\ n \in DOMAIN taken /\ b[m] = b[n]
        BY <1>3, <2>4, <3>1, <3>2
      <4>2. taken[m] = taken[n]
        BY <1>3, <4>1
      <4>3. m = n
        BY <1>t, <4>1, <4>2 DEF Takes
      <4> QED BY <3>2, <4>3
    <3>3. CASE s = r /\ t # r
      <4>1. m \in DOMAIN b /\ n \in DOMAIN relays[t].batch /\ relays[t].batch[n] = b[m]
        BY <1>8, <2>4, <3>1, <3>3
      <4> QED BY <2>3, <3>3, <4>1
    <3>4. CASE s # r /\ t = r
      <4>1. n \in DOMAIN b /\ m \in DOMAIN relays[s].batch /\ relays[s].batch[m] = b[n]
        BY <1>8, <2>4, <3>1, <3>4
      <4> QED BY <2>3, <3>4, <4>1
    <3>5. CASE s # r /\ t # r
      <4>1. relays'[s] = relays[s] /\ relays'[t] = relays[t]
        BY <1>8, <3>5
      <4> QED BY <2>4, <4>1 DEF PipelineIInv, ClaimsInv
    <3> QED BY <3>2, <3>3, <3>4, <3>5
  <2> QED BY <2>2, <2>4 DEF ClaimsInv
<1>17. AttemptsInv'
  <2> SUFFICES ASSUME straight, NEW i \in DOMAIN outbox
               PROVE  AttemptOK(i, outbox[i])'
    BY <1>1, <1>8 DEF AttemptsInv
  <2>m. PICK m : m = outbox'[i]
    OBVIOUS
  <2>1. CASE i \in ToSet(taken)
    <3>1. PICK n \in DOMAIN taken : taken[n] = i
      BY <2>1 DEF ToSet
    <3>2. m.status = "Claimed" /\ m.lease = "live" /\ m.attempts = outbox[i].attempts + 1
      BY <1>6, <2>1, <2>m
    <3> PICK before : before = outbox[i].attempts
      OBVIOUS
    <3>3. IsPaid(i, before) /\ before \in Nat
      BY <1>10, <3>1, ClaimablePaid, MessageFacts DEF PipelineIInv
    <3>4. IsPaid(i, before)' /\ m.attempts - 1 = before
      BY <1>8, <3>2, <3>3, PaidStays
    <3>5. WorksOn(relays[r], i, m.attempts)'
      <4>1. b[n] = [message |-> i, token |-> m.attempts] /\ n \in DOMAIN b
        BY <1>3, <3>1, <3>2
      <4>2. n \in DOMAIN x.batch /\ x.batch[n] = [message |-> i, token |-> m.attempts]
        BY <1>5, <4>1
      <4>3. WorksOn(x, i, m.attempts)'
        BY <1>5, <4>2 DEF WorksOn
      <4> QED BY <1>8, <4>3
    <3>6. m.status # "DeadLetter"
      BY <3>2
    <3>7. AttemptOK(i, m)'
      BY <3>2, <3>4, <3>5, <3>6 DEF AttemptOK
    <3> QED BY <2>m, <3>7
  <2>2. CASE i \notin ToSet(taken)
    <3>1. m = outbox[i]
      BY <1>6, <2>2, <2>m
    <3>2. AttemptOK(i, m) /\ m.attempts \in Nat
      BY <3>1, MessageFacts DEF PipelineIInv, AttemptsInv
    <3>3. ASSUME NEW s \in Relay, WorksOn(relays[s], i, m.attempts)
          PROVE  WorksOn(relays[s], i, m.attempts)'
      <4>1. s # r
        <5>1. DOMAIN relays[r].batch = {}
          BY <1>4
        <5> QED BY <3>3, <5>1 DEF WorksOn
      <4> PICK z : z = relays[s]
        OBVIOUS
      <4>2. WorksOn(z, i, m.attempts)'
        BY <1>8, <3>2, <3>3, WorkStays
      <4>3. relays'[s] = z
        BY <1>8, <4>1
      <4> QED BY <4>2, <4>3
    <3> PICK before : before = m.attempts - 1
      OBVIOUS
    <3>4. before \in Int
      BY <3>2
    <3>5. /\ IsPaid(i, before) => IsPaid(i, before)'
          /\ IsPaid(i, m.attempts) => IsPaid(i, m.attempts)'
          /\ IsPaid(i, MaxAttempts) => IsPaid(i, MaxAttempts)'
      BY <1>8, <3>2, <3>4, PaidStays, Bounds
    <3>6. AttemptOK(i, m)'
      BY <3>2, <3>3, <3>5, Zenon DEF AttemptOK
    <3> QED BY <2>m, <3>6
  <2> QED BY <2>1, <2>2
<1>18. SoleInv'
  <2> SUFFICES ASSUME faults = 0, NEW s \in Relay
               PROVE  IsSole(relays[s])'
    BY <1>1 DEF SoleInv, PipelineIInv
  <2>1. CASE s = r
    <3>1. \A n \in DOMAIN b :
             /\ outbox'[b[n].message].lease = "live"
             /\ outbox'[b[n].message].attempts = b[n].token
      BY <1>3, <1>6, <1>10
    <3>2. IsSole(x)'
      BY <1>5, <3>1 DEF IsSole
    <3> QED BY <1>8, <2>1, <3>2
  <2>2. CASE s # r
    <3> PICK z : z = relays[s]
      OBVIOUS
    <3>1. IsSole(z)
      BY DEF PipelineIInv, SoleInv
    <3>2. ASSUME NEW n \in DOMAIN z.batch
          PROVE  outbox'[z.batch[n].message] = outbox[z.batch[n].message]
      <4> PICK e : e = z.batch[n].message
        OBVIOUS
      <4>1. outbox[e].lease = "live"
        BY <3>1 DEF IsSole
      <4>2. e \in DOMAIN outbox
        BY <1>8, RelayOK DEF BatchOK
      <4>3. e \notin ToSet(taken)
        <5> SUFFICES ASSUME e \in ToSet(taken) PROVE FALSE
          OBVIOUS
        <5>1. PICK p \in DOMAIN taken : taken[p] = e
          BY DEF ToSet
        <5> QED BY <1>10, <4>1, <5>1, ClaimablePaid
      <4> QED BY <1>6, <4>2, <4>3
    <3>3. \A e, k : StoredRows(e, k)' = StoredRows(e, k)
      BY <1>1 DEF StoredRows, RowsOf
    <3>4. IsSole(z)'
      BY <3>1, <3>2, <3>3 DEF IsSole, HeadOf
    <3>5. relays'[s] = z
      BY <1>8, <2>2
    <3> QED BY <3>4, <3>5
  <2> QED BY <2>1, <2>2
<1> QED BY <1>12, <1>13, <1>14, <1>16, <1>17, <1>18 DEF PipelineIInv

----------------------------------------------------------------------------
(* Time passes, for message i.                                              *)

\* The relays, the run and the replay log stay as they are.
LEMMA OneMessage ==
    ASSUME PipelineIInv, NEW i \in DOMAIN outbox, NEW m \in OutboxMessage,
           outbox' = [outbox EXCEPT ![i] = m], MessageOK(i, m),
           UNCHANGED <<live, run, buffer, pending, version, covered, log, replay, relays,
                       straight, swallowed, raced>>,
           m.attempts = outbox[i].attempts, straight' => AttemptOK(i, m)', FaultsGrow,
           faults' = faults + 1 \/ m.lease = outbox[i].lease \/ ~Held(i)
    PROVE  PipelineIInv'
<1>1. TypeInv /\ outbox \in Seq(OutboxMessage) /\ Len(outbox) \in Nat /\ faults \in Nat
      /\ log \in Seq(Nat)
  BY DEF PipelineIInv, TypeInv
<1>2. /\ outbox' \in Seq(OutboxMessage) /\ Len(outbox') = Len(outbox)
      /\ DOMAIN outbox' = DOMAIN outbox /\ outbox'[i] = m
      /\ \A j \in DOMAIN outbox : j # i => outbox'[j] = outbox[j]
  BY <1>1
<1>3. TypeInv' /\ faults' \in Nat /\ faults <= faults'
  <2>1. faults' \in 0 .. MaxFaults /\ faults' \in Nat /\ faults <= faults'
    BY <1>1, Bounds DEF FaultsGrow
  <2> QED BY <1>1, <1>2, <2>1 DEF TypeInv
<1>4. LogInv' /\ RunInv'
  <2>1. LogInv /\ RunInv
    BY DEF PipelineIInv
  <2>2. Held0' = Held0
    BY DEF Held0
  <2> QED BY <2>1, <2>2 DEF LogInv, RunInv
<1>5. Grows
  <2>1. \A j \in DOMAIN log : KindOf(j)' = KindOf(j)
    BY DEF KindOf
  <2> QED BY <2>1 DEF Grows
<1>6. ReplayInv' /\ StraightRows' /\ RelaysInv'
  BY <1>1, <1>5, ReplayStands, RelaysStand
<1>7. DOMAIN outbox = DOMAIN log /\ Len(log') \in Nat /\ DOMAIN log' = 1 .. Len(log')
  BY <1>1 DEF TypeInv
<1>8. OutboxInv'
  <2> SUFFICES ASSUME NEW j \in DOMAIN outbox
               PROVE  MessageOK(j, outbox[j])'
    BY <1>2 DEF OutboxInv
  <2>n. PICK n : n = outbox'[j]
    OBVIOUS
  <2>1. MessageOK(j, n)
    BY <1>2, <2>n DEF PipelineIInv, OutboxInv
  <2>2. MessageOK(j, n)'
    BY <1>1, <1>5, <1>7, <2>1, MessageStands
  <2> QED BY <2>n, <2>2
<1>9. \A j \in DOMAIN outbox : outbox'[j].attempts = outbox[j].attempts
  BY <1>2
<1>10. ClaimsInv'
  <2>1. \A r \in Relay : \A n \in DOMAIN relays[r].batch :
           relays[r].batch[n].message \in DOMAIN outbox
    BY <1>7, RelayOK DEF BatchOK
  <2> QED BY <1>9, <2>1 DEF PipelineIInv, ClaimsInv
<1>11. AttemptsInv'
  <2> SUFFICES ASSUME straight, NEW j \in DOMAIN outbox
               PROVE  AttemptOK(j, outbox[j])'
    BY <1>2 DEF AttemptsInv
  <2>n. PICK n : n = outbox'[j]
    OBVIOUS
  <2>1. CASE j = i
    BY <1>2, <2>1
  <2>2. CASE j # i
    <3>1. n = outbox[j]
      BY <1>2, <2>2, <2>n
    <3>2. AttemptOK(j, n) /\ n.attempts \in Nat
      BY <1>1, <3>1, MessageFacts DEF PipelineIInv, AttemptsInv
    <3>3. AttemptOK(j, n)'
      BY <1>1, <1>3, <1>5, <3>2, AttemptStands
    <3> QED BY <2>n, <3>3
  <2> QED BY <2>1, <2>2
<1>12. SoleInv'
  <2> SUFFICES ASSUME faults' = 0, NEW r \in Relay
               PROVE  IsSole(relays[r])'
    BY <1>1, <1>3 DEF SoleInv, PipelineIInv
  <2>1. faults = 0 /\ faults' # faults + 1
    BY <1>1, <1>3
  <2> PICK z : z = relays[r]
    OBVIOUS
  <2>2. IsSole(z)
    BY <2>1 DEF PipelineIInv, SoleInv
  <2>3. ASSUME NEW n \in DOMAIN z.batch
        PROVE  /\ outbox'[z.batch[n].message].lease = "live"
               /\ outbox'[z.batch[n].message].attempts = z.batch[n].token
    <3> PICK e : e = z.batch[n]
      OBVIOUS
    <3>1. e.message \in DOMAIN outbox /\ e \in BatchEntry
      <4>1. z.batch \in Seq(BatchEntry) /\ e.message \in DOMAIN log
        BY RelayOK, RelayRecordFacts DEF BatchOK
      <4> QED BY <1>7, <4>1
    <3>2. outbox[e.message].lease = "live" /\ outbox[e.message].attempts = e.token
      BY <2>2 DEF IsSole
    <3>3. e.message = i => Held(i)
      <4>1. e = [message |-> e.message, token |-> e.token]
        BY <3>1 DEF BatchEntry
      <4> QED BY <3>2, <4>1 DEF Held
    <3> QED BY <1>2, <2>1, <3>1, <3>2, <3>3
  <2>4. \A e, k : StoredRows(e, k)' = StoredRows(e, k)
    BY DEF StoredRows, RowsOf
  <2>5. IsSole(z)'
    BY <2>2, <2>3, <2>4 DEF IsSole, HeadOf
  <2> QED BY <2>5
<1> QED BY <1>3, <1>4, <1>6, <1>8, <1>10, <1>11, <1>12 DEF PipelineIInv

LEMMA BecomesDueKeeps ==
    ASSUME PipelineIInv, NEW i \in DOMAIN outbox, BecomesDue(i)
    PROVE  PipelineIInv'
<1> PICK y : y = outbox[i]
  OBVIOUS
<1>x. PICK m : m = [y EXCEPT !.due = TRUE]
  OBVIOUS
<1>1. /\ outbox' = [outbox EXCEPT ![i].due = TRUE] /\ faults' = faults
      /\ UNCHANGED <<live, run, buffer, pending, version, covered, log, replay, relays,
                     straight, swallowed, raced>>
  BY DEF BecomesDue, runVars, notes
<1>7. FaultsGrow /\ Grows /\ faults \in Nat
  BY <1>1, FaultCounts, RunFacts, SameReplay DEF PipelineIInv
<1>2. outbox' = [outbox EXCEPT ![i] = m]
  BY <1>1, <1>x
<1>3. y \in OutboxMessage /\ MessageOK(i, y) /\ (straight => AttemptOK(i, y))
  BY MessageFacts DEF PipelineIInv, OutboxInv, AttemptsInv
<1>4. /\ m \in OutboxMessage /\ m.status = y.status /\ m.attempts = y.attempts
      /\ m.lease = y.lease /\ m.attempts \in Nat
  BY <1>3, <1>x DEF OutboxMessage
<1>5. MessageOK(i, m) /\ (straight => AttemptOK(i, m))
  BY <1>3, <1>4 DEF MessageOK, AttemptOK
<1>6. straight' => AttemptOK(i, m)'
  BY <1>1, <1>4, <1>5, <1>7, AttemptStands
<1> QED BY <1>1, <1>2, <1>4, <1>5, <1>6, <1>7, OneMessage

\* A lease that runs out under a relay is a fault, which pays for the attempt.
LEMMA LeaseExpiresKeeps ==
    ASSUME PipelineIInv, NEW i \in DOMAIN outbox, LeaseExpires(i)
    PROVE  PipelineIInv'
<1> PICK y : y = outbox[i]
  OBVIOUS
<1>x. PICK m : m = [y EXCEPT !.lease = "expired"]
  OBVIOUS
<1>1. /\ outbox' = [outbox EXCEPT ![i].lease = "expired"] /\ y.lease = "live"
      /\ UNCHANGED <<live, run, buffer, pending, version, covered, log, replay, relays,
                     straight, swallowed, raced>>
      /\ FaultsGrow /\ IF Held(i) THEN faults' = faults + 1 ELSE faults' = faults
  BY FaultCounts DEF LeaseExpires, runVars, notes, PipelineIInv
<1>7. Grows /\ faults' \in Nat /\ faults <= faults'
  BY <1>1, SameReplay DEF FaultsGrow
<1>2. outbox' = [outbox EXCEPT ![i] = m]
  BY <1>1, <1>x
<1>3. /\ y \in OutboxMessage /\ MessageOK(i, y) /\ (straight => AttemptOK(i, y))
      /\ y.attempts \in Nat /\ faults \in Nat
  BY MessageFacts DEF PipelineIInv, OutboxInv, AttemptsInv
<1>4. /\ m \in OutboxMessage /\ m.status = y.status /\ m.attempts = y.attempts
      /\ m.lease = "expired"
  BY <1>3, <1>x DEF OutboxMessage
<1>5. MessageOK(i, m)
  BY <1>1, <1>3, <1>4 DEF MessageOK
<1>6. ASSUME straight
      PROVE  AttemptOK(i, m)'
  <2>1. AttemptOK(i, y)
    BY <1>3, <1>6
  <2>2. m.status # "DeadLetter"
    BY <1>1, <1>3, <1>4 DEF MessageOK
  <2> PICK attempts : attempts = y.attempts
    OBVIOUS
  <2> PICK before : before = attempts - 1
    OBVIOUS
  <2>3. before \in Int /\ before <= attempts /\ attempts \in Nat
    BY <1>3
  <2>4. ASSUME m.status # "Delivered"
        PROVE  IsPaid(i, before)' /\ IsPaid(i, attempts)'
    <3>1. IsPaid(i, before)
      BY <1>4, <2>1, <2>4 DEF AttemptOK
    <3>2. CASE faults' = faults + 1
      <4>1. \A less \in Int : less <= attempts => IsPaid(i, less)'
        BY <1>3, <1>7, <2>3, <3>1, <3>2, FaultPaysOne
      <4> QED BY <2>3, <4>1
    <3>3. CASE ~Held(i)
      <4>1. IsPaid(i, attempts)
        <5> SUFFICES ASSUME ~IsPaid(i, attempts)
                     PROVE  FALSE
          OBVIOUS
        <5>1. PICK r \in Relay : WorksOn(relays[r], i, attempts)
          BY <1>4, <2>1, <2>4 DEF AttemptOK
        <5>2. Held(i)
          BY <5>1 DEF WorksOn, Held
        <5> QED BY <3>3, <5>2
      <4> QED BY <1>3, <1>7, <2>3, <3>1, <4>1, PaidStays
    <3> QED BY <1>1, <3>2, <3>3
  <2>5. m.attempts = attempts /\ m.attempts - 1 = before
    BY <1>4
  <2> QED BY <2>2, <2>4, <2>5 DEF AttemptOK
<1> QED BY <1>1, <1>2, <1>4, <1>5, <1>6, OneMessage

----------------------------------------------------------------------------
(* The specification.                                                       *)

LEMMA InitHolds == ASSUME PipelineInit PROVE PipelineIInv
<1>1. /\ live = <<>> /\ buffer = <<>> /\ pending = <<>> /\ version = 0
      /\ run = [pc |-> "idle", id |-> 0, expected |-> 0, tries |-> 0, then |-> "stepEnd"]
      /\ log = <<>> /\ outbox = <<>> /\ replay = <<>>
      /\ relays = [r \in Relay |-> NewRelay]
      /\ covered = {} /\ straight = TRUE /\ swallowed = {} /\ raced = {} /\ faults = 0
  BY DEF PipelineInit
<1>2. /\ log \in Seq(Nat) /\ Len(log) = 0 /\ DOMAIN log = {}
      /\ live \in Seq(LiveEvent) /\ Len(live) = 0 /\ DOMAIN live = {}
      /\ buffer \in Seq(Nat) /\ DOMAIN buffer = {} /\ pending \in Seq(Nat)
      /\ DOMAIN pending = {} /\ outbox \in Seq(OutboxMessage) /\ Len(outbox) = 0
      /\ DOMAIN outbox = {} /\ replay \in Seq(ReplayRow) /\ DOMAIN replay = {}
  BY <1>1
<1>3. /\ NewRelay \in RelayRecord /\ NewRelay.batch = <<>>
      /\ DraftsOK(NewRelay) /\ BatchOK(NewRelay) /\ InOrder(NewRelay)
  BY <1>2, NewRelayFacts
<1>4. TypeInv
  <2>1. run \in RunRecord
    BY <1>1, Bounds DEF RunRecord
  <2>2. relays \in [Relay -> RelayRecord]
    BY <1>1, <1>3
  <2>3. /\ Len(live) <= MaxLive /\ covered \subseteq DOMAIN live /\ faults \in 0 .. MaxFaults
        /\ swallowed \subseteq Nat /\ raced \subseteq Nat /\ straight \in BOOLEAN
    BY <1>1, <1>2, Bounds
  <2> QED BY <1>1, <1>2, <2>1, <2>2, <2>3 DEF TypeInv
<1>5. LogInv
  BY <1>1, <1>2 DEF LogInv
<1>6. RunInv
  BY <1>1, <1>2 DEF RunInv
<1>7. ReplayInv /\ StraightRows
  BY <1>2 DEF ReplayInv, StraightRows
<1>8. RelaysInv
  BY <1>1, <1>3 DEF RelaysInv
<1>9. OutboxInv /\ AttemptsInv
  BY <1>2 DEF OutboxInv, AttemptsInv
<1>10. ClaimsInv
  <2>1. \A r \in Relay : DOMAIN relays[r].batch = {}
    BY <1>1, <1>3
  <2> QED BY <2>1 DEF ClaimsInv
<1>11. SoleInv
  <2>1. \A r \in Relay : relays[r].batch = <<>> /\ relays[r].at = "idle"
    BY <1>1 DEF NewRelay
  <2>2. \A r \in Relay : DOMAIN relays[r].batch = {}
    BY <2>1
  <2> QED BY <1>1, <2>1, <2>2 DEF SoleInv, IsSole
<1> QED BY <1>4, <1>5, <1>6, <1>7, <1>8, <1>9, <1>10, <1>11 DEF PipelineIInv

LEMMA NextKeeps == ASSUME PipelineIInv, PipelineNext PROVE PipelineIInv'
<1>1. CASE RunStep
  BY <1>1, RunStepKeeps
<1>2. ASSUME NEW r \in Relay, RelayStep(r) \/ Restarts(r)
      PROVE  PipelineIInv'
  <2>1. CASE Claims(r)
    BY <2>1, ClaimsKeeps
  <2>2. CASE Loads(r)
    BY <2>2, LoadsKeeps
  <2>3. CASE LoadFails(r)
    BY <2>3, LoadFailsKeeps
  <2>4. CASE LooksUp(r)
    BY <2>4, LooksUpKeeps
  <2>10. CASE Inserts(r)
    BY <2>10, InsertsKeeps
  <2>5. CASE AppendFails(r)
    BY <2>5, AppendFailsKeeps
  <2>6. CASE Remembers(r)
    BY <2>6, RemembersKeeps
  <2>7. CASE Settles(r)
    BY <2>7, SettlesKeeps
  <2>8. CASE SettleFails(r)
    BY <2>8, SettleFailsKeeps
  <2>9. CASE Restarts(r)
    BY <2>9, RestartsKeeps
  <2> QED BY <1>2, <2>1, <2>2, <2>3, <2>4, <2>5, <2>6, <2>7, <2>8, <2>9, <2>10
      DEF RelayStep
<1>3. ASSUME NEW i \in DOMAIN outbox, BecomesDue(i) \/ LeaseExpires(i)
      PROVE  PipelineIInv'
  BY <1>3, BecomesDueKeeps, LeaseExpiresKeeps
<1> QED BY <1>1, <1>2, <1>3 DEF PipelineNext

LEMMA NothingChanges == ASSUME PipelineIInv, UNCHANGED pipelineVars PROVE PipelineIInv'
<1>1. UNCHANGED <<live, run, buffer, pending, version, covered, log, outbox, replay, relays,
                  straight, swallowed, raced, faults>>
  BY DEF pipelineVars, runVars, notes
<1>2. TypeInv /\ LogInv /\ RunInv /\ FaultsGrow
  BY <1>1, FaultCounts DEF PipelineIInv
<1>3. /\ ReplayInv' /\ StraightRows' /\ RelaysInv' /\ OutboxInv' /\ ClaimsInv'
      /\ AttemptsInv' /\ SoleInv'
  BY <1>1, <1>2, LogStands
<1>4. TypeInv' /\ LogInv'
  BY <1>1, <1>2 DEF TypeInv, LogInv
<1>5. RunInv'
  <2>1. Held0' = Held0
    BY <1>1 DEF Held0
  <2> QED BY <1>1, <1>2, <2>1 DEF RunInv
<1> QED BY <1>3, <1>4, <1>5 DEF PipelineIInv

\* The inductive invariant holds, whatever happens on the way of the events.
THEOREM PipelineInvariant == PipelineSpec => []PipelineIInv
<1>1. PipelineInit => PipelineIInv
  BY InitHolds
<1>2. PipelineIInv /\ [PipelineNext]_pipelineVars => PipelineIInv'
  BY NextKeeps, NothingChanges
<1> QED BY <1>1, <1>2, PTL DEF PipelineSpec

----------------------------------------------------------------------------
(* The properties.                                                          *)

\* The types: drafts, rows and what the relays hold are about events of the
\* log, and each canonical event has its outbox message.
THEOREM PipelineTypeHolds == PipelineSpec => []PipelineTypeOK
<1>1. PipelineIInv => PipelineTypeOK
  <2> SUFFICES ASSUME PipelineIInv
               PROVE  PipelineTypeOK
    OBVIOUS
  <2>1. TypeInv /\ LogInv /\ RunInv /\ ReplayInv /\ OutboxInv
    BY DEF PipelineIInv
  <2>2. live \in Seq([kind : Kind, run : 1 .. MaxRuns]) /\ Len(live) <= MaxLive
    BY <2>1 DEF TypeInv, LiveEvent
  <2>3. ToSet(buffer) \cup ToSet(pending) \cup covered \subseteq DOMAIN live
    <3>1. \A k \in DOMAIN buffer : buffer[k] \in DOMAIN live
      BY <2>1, RunFacts DEF RunInv
    <3>2. \A k \in DOMAIN pending : pending[k] \in DOMAIN live
      BY <2>1, RunFacts DEF RunInv
    <3>3. covered \subseteq DOMAIN live
      BY <2>1 DEF TypeInv
    <3> QED BY <3>1, <3>2, <3>3 DEF ToSet
  <2>4. log \in Seq(DOMAIN live) /\ DOMAIN outbox = DOMAIN log
    <3>1. log \in Seq(Nat) /\ DOMAIN outbox = DOMAIN log
      BY <2>1 DEF TypeInv
    <3>2. \A n \in 1 .. Len(log) : log[n] \in DOMAIN live
      <4> SUFFICES ASSUME NEW n \in 1 .. Len(log)
                   PROVE  log[n] \in DOMAIN live
        OBVIOUS
      <4>1. /\ log[n] \in Nat /\ Len(live) \in Nat /\ DOMAIN live = 1 .. Len(live)
            /\ n \in DOMAIN log
        BY <2>1, RunFacts
      <4>2. n <= log[n] /\ log[n] <= Len(live)
        BY <2>1, <4>1 DEF LogInv
      <4>3. n \in Nat /\ n >= 1
        OBVIOUS
      <4> QED BY <4>1, <4>2, <4>3
    <3> QED BY <3>1, <3>2
  <2>5. ASSUME NEW i \in DOMAIN outbox
        PROVE  outbox[i] \in OutboxMessage
               /\ (outbox[i].status = "Claimed" <=> outbox[i].lease # "none")
    BY <2>1, MessageFacts DEF OutboxInv, MessageOK
  <2>6. \A n \in DOMAIN replay : replay[n].event \in DOMAIN log
    BY <2>1 DEF ReplayInv
  <2>7. ASSUME NEW r \in Relay
        PROVE  /\ relays[r].at \in {"idle", "load", "append", "insert", "ack", "nack"}
               /\ relays[r].stored \subseteq DOMAIN relays[r].drafts
               /\ (relays[r].at = "idle" <=> relays[r].batch = <<>>)
    BY RelayOK, RelayRecordFacts DEF DraftsOK, BatchOK
  <2> QED BY <2>2, <2>3, <2>4, <2>5, <2>6, <2>7 DEF PipelineTypeOK, OutboxMessage
<1> QED BY <1>1, PipelineInvariant, PTL

\* A checkpoint that has succeeded covers all that its run had emitted before,
\* however often its coordinator was asked; and the log has the events of a run
\* in their order, with none left out.
THEOREM CheckpointCoversEventsHolds == PipelineSpec => []CheckpointCoversEvents
<1>1. PipelineIInv => CheckpointCoversEvents
  BY DEF PipelineIInv, LogInv, CheckpointCoversEvents
<1> QED BY <1>1, PipelineInvariant, PTL

\* Rows of an event that are all stored, and no others, are there once each.
LEMMA RowsCounted ==
    ASSUME PipelineIInv, NEW i \in DOMAIN log, NEW rows \in Seq(Content), AllStored(i, rows),
           \A n \in RowsOf(i) : RowFits(replay[n], rows)
    PROVE  HasRows(i, rows)
<1>3. DOMAIN rows = 1 .. Len(rows) /\ Len(rows) \in Nat
  OBVIOUS
<1>4. \A k \in DOMAIN rows : \E n \in RowsOf(i) :
         replay[n].index = k /\ replay[n].content = rows[k]
  <2> SUFFICES ASSUME NEW k \in DOMAIN rows
               PROVE  \E n \in RowsOf(i) : replay[n].index = k /\ replay[n].content = rows[k]
    OBVIOUS
  <2>1. PICK n \in DOMAIN replay :
           replay[n] = [event |-> i, index |-> k, content |-> rows[k]]
    BY DEF AllStored, IsStored
  <2>2. replay[n].event = i /\ replay[n].index = k /\ replay[n].content = rows[k]
    BY <2>1
  <2> QED BY <2>2 DEF RowsOf
<1> DEFINE f == [n \in RowsOf(i) |-> replay[n].index]
<1>7. \A n \in RowsOf(i) : f[n] \in DOMAIN rows /\ f[n] = replay[n].index
  BY DEF RowFits
<1>8. \A m, n \in RowsOf(i) : f[m] = f[n] => m = n
  BY DEF RowsOf, PipelineIInv, ReplayInv
<1>9. f \in [RowsOf(i) -> DOMAIN rows]
  BY <1>7
<1>10. \A k \in DOMAIN rows : \E n \in RowsOf(i) : f[n] = k
  BY <1>4
<1>11. DOMAIN f = RowsOf(i)
  OBVIOUS
<1> HIDE DEF f
<1>12. ExistsBijection(RowsOf(i), DOMAIN rows)
  <2>1. f \in Injection(RowsOf(i), DOMAIN rows)
    BY <1>8, <1>9, <1>11 DEF Injection, IsInjective
  <2>2. f \in Surjection(RowsOf(i), DOMAIN rows)
    BY <1>9, <1>10 DEF Surjection
  <2> QED BY <2>1, <2>2 DEF ExistsBijection, Bijection
<1>13. IsFiniteSet(RowsOf(i))
  <2>1. replay \in Seq(ReplayRow) /\ Len(replay) \in Nat /\ DOMAIN replay = 1 .. Len(replay)
    BY ReplayFacts DEF PipelineIInv
  <2>2. IsFiniteSet(1 .. Len(replay))
    BY <2>1, FS_Interval
  <2>3. RowsOf(i) \in SUBSET (1 .. Len(replay))
    BY <2>1 DEF RowsOf
  <2> QED BY <2>2, <2>3, FS_Subset
<1>14. Cardinality(DOMAIN rows) = Cardinality(RowsOf(i))
  BY <1>12, <1>13, FS_Bijection
<1>15. Cardinality(1 .. Len(rows)) = Len(rows)
  <2>1. Cardinality(1 .. Len(rows)) = IF 1 > Len(rows) THEN 0 ELSE Len(rows) - 1 + 1
    BY <1>3, FS_Interval
  <2> QED BY <1>3, <2>1
<1>16. \A k \in DOMAIN rows : \E n \in StoredRows(i, k) : replay[n].content = rows[k]
  BY <1>4 DEF StoredRows
<1> QED BY <1>3, <1>14, <1>15, <1>16 DEF HasRows

\* One encoder that meets the events of the log has the state of an encoder.
LEMMA EncoderAfterType ==
    ASSUME NEW n \in Nat
    PROVE  EncoderAfter[n] \in Encoder
<1> DEFINE Bad == {m \in Nat : EncoderAfter[m] \notin Encoder}
<1> SUFFICES ASSUME Bad # {}
             PROVE  FALSE
  OBVIOUS
<1>1. PICK k \in Bad : \A m \in Nat : m < k => m \notin Bad
  <2>1. Bad \in SUBSET Nat
    OBVIOUS
  <2> HIDE DEF Bad
  <2> QED BY <2>1, LeastOf
<1>2. k \in Nat /\ EncoderAfter[k] \notin Encoder
  BY <1>1
<1>3. CASE k = 0
  BY <1>2, <1>3, EncoderUnfolds, NewEncoderFacts
<1>4. CASE k # 0
  <2>1. k - 1 \in Nat /\ k - 1 < k
    BY <1>2, <1>4
  <2>2. EncoderAfter[k - 1] \in Encoder
    BY <1>1, <2>1
  <2>3. EncoderAfter[k] = EncoderNext(EncoderAfter[k - 1], KindOf(k))
    BY <1>2, <1>4, EncoderUnfolds
  <2> QED BY <1>2, <2>2, <2>3, EncoderNextType
<1> QED BY <1>3, <1>4

LEMMA ReferenceType ==
    ASSUME PipelineIInv, NEW i \in DOMAIN log
    PROVE  Reference(i) \in Seq(Content)
<1>1. KindOf(i) \in Kind /\ i \in Nat /\ i > 0
  BY LogFacts DEF PipelineIInv
<1>2. i - 1 \in Nat
  BY <1>1
<1> QED BY <1>1, <1>2, EncoderAfterType, RowsType DEF Reference

\* A delivered message is projected, whatever failed or came between: the replay
\* log has, once each and without any other, the rows that one encoder makes of
\* the log, as long as the encoders have met the events in their order; and in
\* any order all the rows that some encoder makes of the event, unless an encoder
\* that had met a RunFinish made nothing of it.
THEOREM DeliveredIsProjectedHolds == PipelineSpec => []DeliveredIsProjected
<1>1. PipelineIInv => DeliveredIsProjected
  <2> SUFFICES ASSUME PipelineIInv, NEW i \in DOMAIN outbox,
                      outbox[i].status = "Delivered"
               PROVE  /\ straight => HasRows(i, Reference(i))
                      /\ i \notin swallowed =>
                            \E enc \in Encoders :
                               /\ ~IsGuarded(enc, KindOf(i))
                               /\ HasRows(i, Rows(enc, KindOf(i)))
    BY DEF DeliveredIsProjected
  <2>1. IsProjected(i) /\ DOMAIN outbox = DOMAIN log
    BY DEF PipelineIInv, OutboxInv, MessageOK, TypeInv
  <2>2. ASSUME straight
        PROVE  HasRows(i, Reference(i))
    <3>1. \A n \in RowsOf(i) : RowFits(replay[n], Reference(i))
      BY <2>2 DEF PipelineIInv, StraightRows, RowsOf
    <3> QED BY <2>1, <2>2, <3>1, ReferenceType, RowsCounted DEF IsProjected
  <2>3. ASSUME i \notin swallowed
        PROVE  \E enc \in Encoders :
                  ~IsGuarded(enc, KindOf(i)) /\ HasRows(i, Rows(enc, KindOf(i)))
    <3> PICK kind : kind = KindOf(i)
      OBVIOUS
    <3>1. PICK enc \in SmallEncoder : Rows(enc, kind) # <<>> /\ AllStored(i, Rows(enc, kind))
      BY <2>1, <2>3 DEF IsProjected
    <3>2. PICK other \in SmallEncoder : \A n \in RowsOf(i) : RowFits(replay[n], Rows(other, kind))
      BY <2>1 DEF PipelineIInv, ReplayInv, MadeByOne
    <3>3. kind \in Kind /\ enc \in Encoder /\ other \in Encoder
      BY <2>1, LogFacts, SmallIsEncoder DEF PipelineIInv
    <3>4. Rows(enc, kind) \in Seq(Content) /\ ~IsGuarded(enc, kind)
      BY <3>1, <3>3, RowsType
    <3>5. 1 \in DOMAIN Rows(enc, kind)
      <4>1. DOMAIN Rows(enc, kind) = 1 .. Len(Rows(enc, kind)) /\ Len(Rows(enc, kind)) \in Nat
        BY <3>4
      <4>2. Len(Rows(enc, kind)) # 0
        BY <3>1, <3>4, EmptySeq
      <4> QED BY <4>1, <4>2
    <3>6. PICK n \in DOMAIN replay :
             replay[n] = [event |-> i, index |-> 1, content |-> Rows(enc, kind)[1]]
      BY <3>1, <3>5 DEF AllStored, IsStored
    <3>7. 1 \in DOMAIN Rows(other, kind) /\ Rows(other, kind)[1] = Rows(enc, kind)[1]
      <4>1. /\ replay[n].event = i /\ replay[n].index = 1
            /\ replay[n].content = Rows(enc, kind)[1]
        BY <3>6
      <4> QED BY <3>2, <4>1 DEF RowsOf, RowFits
    <3>8. ~IsGuarded(other, kind)
      <4>1. DOMAIN <<>> = {}
        OBVIOUS
      <4>2. Rows(other, kind) # <<>>
        BY <3>7, <4>1
      <4> QED BY <3>3, <4>2, RowsType
    <3>9. Rows(other, kind) = Rows(enc, kind)
      BY <3>3, <3>4, <3>7, <3>8, FirstRowTells
    <3>10. HasRows(i, Rows(enc, kind))
      BY <2>1, <3>1, <3>2, <3>4, <3>9, RowsCounted
    <3>11. enc \in Encoders
      BY DEF Encoders, SmallEncoder
    <3> QED BY <3>4, <3>10, <3>11
  <2> QED BY <2>2, <2>3
<1> QED BY <1>1, PipelineInvariant, PTL

\* As far as every encoder has met the events in order, the replay log is what
\* one encoder makes of the log.
THEOREM RowsAreFaithfulHolds == PipelineSpec => []RowsAreFaithful
<1>1. PipelineIInv => RowsAreFaithful
  BY DEF PipelineIInv, StraightRows, RowFits, RowsAreFaithful
<1> QED BY <1>1, PipelineInvariant, PTL

\* As long as the encoders meet the events in their order, a dead letter has cost
\* a fault for each of its attempts, but for one for each of its rows that another
\* relay may have stored first; and without a fault there is no dead letter.
THEOREM FewFaultsLoseNothingHolds == PipelineSpec => []FewFaultsLoseNothing
<1>1. PipelineIInv => FewFaultsLoseNothing
  <2> SUFFICES ASSUME PipelineIInv, straight, NEW i \in DOMAIN outbox,
                      outbox[i].status = "DeadLetter"
               PROVE  /\ faults > 0
                      /\ MaxAttempts <= faults + (IF i \in raced THEN Len(Reference(i)) ELSE 0)
    BY DEF FewFaultsLoseNothing
  <2>1. faults \in Nat /\ i \in DOMAIN log
    BY DEF PipelineIInv, TypeInv
  <2>2. Len(Reference(i)) \in Nat /\ DOMAIN Reference(i) = 1 .. Len(Reference(i))
    <3>1. Reference(i) \in Seq(Content)
      BY <2>1, ReferenceType
    <3> QED BY <3>1
  <2>3. PICK k \in Nat : (k = 0 \/ WasRaced(i, k)) /\ MaxAttempts <= faults + k
    BY DEF PipelineIInv, AttemptsInv, AttemptOK, IsPaid, PaidBelow
  <2>4. CASE k = 0
    BY <2>1, <2>2, <2>3, <2>4, Bounds
  <2>5. CASE k # 0
    <3>1. i \in raced
      BY <2>3, <2>5 DEF WasRaced
    <3>2. k \in DOMAIN Reference(i)
      <4>1. PICK n \in DOMAIN replay : replay[n].event = i /\ replay[n].index = k
        BY <2>3, <2>5 DEF WasRaced, StoredRows, RowsOf
      <4> QED BY <4>1 DEF PipelineIInv, StraightRows, RowFits
    <3>3. k <= Len(Reference(i))
      BY <2>2, <3>2
    <3>4. faults # 0
      BY <3>1 DEF PipelineIInv, SoleInv
    <3> QED BY <2>1, <2>2, <2>3, <3>1, <3>3, <3>4, Bounds
  <2> QED BY <2>4, <2>5
<1> QED BY <1>1, PipelineInvariant, PTL

=============================================================================
