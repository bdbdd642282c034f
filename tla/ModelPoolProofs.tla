-------------------------- MODULE ModelPoolProofs --------------------------
(***************************************************************************)
(* Proofs about ModelPool, for any members, calls, sessions and executors, *)
(* any scores and any thresholds.                                          *)
(*                                                                         *)
(* The inductive invariant has a part per call and a part per member.  Of  *)
(* a call it says that its inference knows of its present stream, and      *)
(* whether the failure of that stream has been charged; of a member, that  *)
(* a call it has let in while half-open is on its way still, or has left   *)
(* without a record.                                                       *)
(***************************************************************************)
EXTENDS ModelPool, FiniteSetTheorems, WellFoundedInduction, TLAPS

SessionRecord == [active : Member \cup {None}, switches : 0 .. MaxSwitches]

AttemptRecord == [active : Member \cup {None}, tried : SUBSET Member, failed : BOOLEAN]

CallRecord ==
    [at : {"idle", "select", "check", "opening", "refused", "streaming", "broken",
           "reporting", "reported", "dropping"},
     on : Member \cup {None}, tried : SUBSET Member, error : Error \cup {"none"},
     ended : BOOLEAN, retries : 0 .. MaxStreamRetries]

\* The failure of the stream has been reported before.
IsReported(x) ==
    x.at \in {"broken", "reported", "dropping"} \/ (x.at = "reporting" /\ x.ended)

\* A call that stands as x, with the attempts a and the charges g.
CallOK(x, a, g) ==
    /\ x.at \notin {"idle", "select"} => x.on \in Member
    /\ x.at \in {"broken", "streaming"} => (x.ended <=> x.at = "broken")
    /\ x.at \in {"streaming", "reporting"} /\ ~IsReported(x) =>
          a.active = x.on /\ ~a.failed /\ g = <<>>
    /\ IsReported(x) =>
          a.active = x.on /\ a.failed /\ g = (IF Counts(x.error) THEN <<x.on>> ELSE <<>>)

\* A call that stands as x has yet to tell the breaker what became of its probe of m.
IsProbing(x, m) ==
    /\ x.on = m
    /\ x.at \in {"opening", "streaming", "reporting"} /\ ~IsReported(x)

ProbesOK(m) ==
    /\ IsFiniteSet(probing[m])
    /\ IF circuit[m].status = "HalfOpen"
       THEN probing[m] # {} /\ Cardinality(probing[m]) <= circuit[m].probes
       ELSE probing[m] = {} /\ m \notin unresolved
    /\ \A c \in probing[m] : m \in unresolved \/ IsProbing(call[c], m)

CallsInv ==
    /\ attempt \in [Call -> AttemptRecord]
    /\ call \in [Call -> CallRecord]
    /\ charged \in [Call -> Seq(Member)]
    /\ \A c \in Call : CallOK(call[c], attempt[c], charged[c])

CircuitsInv ==
    /\ circuit \in [Member -> Circuit]
    /\ probing \in [Member -> SUBSET Call]
    /\ unresolved \subseteq Member
    /\ \A m \in Member : ProbesOK(m)

SharedInv ==
    /\ quarantined \in [Pool -> SUBSET Member]
    /\ session \in [Session -> SessionRecord]

PoolIInv == CallsInv /\ CircuitsInv /\ SharedInv

----------------------------------------------------------------------------
(* The router finds a member whenever there is one to be found. *)

\* Among finitely many members one has the highest score.  By contradiction:
\* of the sets without a best member take one that has the fewest members.
LEMMA BestExists ==
    ASSUME NEW s \in Session, NEW ms \in SUBSET Member, ms # {}
    PROVE  \E m \in ms : \A n \in ms : Score[s][n] <= Score[s][m]
<1> DEFINE HasBest(S) == \E m \in S : \A n \in S : Score[s][n] <= Score[s][m]
           Bad == {S \in SUBSET Member : S # {} /\ ~HasBest(S)}
           Sizes == {Cardinality(S) : S \in Bad}
<1>1. \A S \in SUBSET Member : IsFiniteSet(S) /\ Cardinality(S) \in Nat
  BY FS_Subset, FS_CardinalityType, PoolAssumption
<1>2. \A m \in Member : Score[s][m] \in Nat
  BY PoolAssumption
<1>3. SUFFICES ASSUME Bad # {}
               PROVE  FALSE
  OBVIOUS
<1>4. PICK k \in Sizes : \A j \in Sizes : ~(<<j, k>> \in OpToRel(<, Nat))
  <2>1. Sizes \subseteq Nat /\ Sizes # {}
    BY <1>1, <1>3
  <2> HIDE DEF Sizes
  <2> QED BY <2>1, NatLessThanWellFounded, WFMin
<1>5. PICK S \in Bad : Cardinality(S) = k
  BY <1>4
<1>6. PICK x : x \in S
  BY <1>5
<1> DEFINE R == S \ {x}
<1>7. R \in SUBSET Member /\ Cardinality(R) = Cardinality(S) - 1
  BY <1>1, <1>5, <1>6, FS_RemoveElement
<1>8. R = {} \/ HasBest(R)
  <2> SUFFICES ASSUME R # {}, ~HasBest(R)
               PROVE  FALSE
    OBVIOUS
  <2>1. R \in Bad
    BY <1>7
  <2>2. Cardinality(R) \in Sizes
    BY <2>1
  <2>3. Cardinality(R) \in Nat /\ k \in Nat /\ Cardinality(R) < k
    BY <1>1, <1>5, <1>7
  <2>4. <<Cardinality(R), k>> \in OpToRel(<, Nat)
    <3> HIDE DEF R
    <3> QED BY <2>3 DEF OpToRel
  <2> QED BY <2>2, <2>4, <1>4
<1>9. CASE R = {}
  <2>1. S = {x} /\ x \in Member
    BY <1>9, <1>5, <1>6
  <2>2. HasBest(S)
    BY <2>1, <1>2
  <2> QED BY <2>2, <1>5
<1>10. CASE HasBest(R)
  <2>1. PICK y \in R : \A n \in R : Score[s][n] <= Score[s][y]
    BY <1>10
  <2>2. x \in Member /\ y \in Member /\ y \in S
    BY <1>5, <1>6, <2>1
  <2>3. HasBest(S)
    <3>1. CASE Score[s][x] <= Score[s][y]
      <4>1. \A n \in S : Score[s][n] <= Score[s][y]
        BY <3>1, <2>1
      <4> QED BY <4>1, <2>2
    <3>2. CASE ~(Score[s][x] <= Score[s][y])
      <4>1. \A n \in S : Score[s][n] <= Score[s][x]
        <5> SUFFICES ASSUME NEW n \in S
                     PROVE  Score[s][n] <= Score[s][x]
          OBVIOUS
        <5>1. n \in Member
          BY <1>5
        <5>2. Score[s][n] \in Nat /\ Score[s][x] \in Nat /\ Score[s][y] \in Nat
          BY <5>1, <2>2, <1>2
        <5> QED BY <5>2, <3>2, <2>1
      <4> QED BY <4>1, <1>6
    <3> QED BY <3>1, <3>2
  <2> QED BY <2>3, <1>5
<1> QED BY <1>8, <1>9, <1>10

LEMMA BestOfIn ==
    ASSUME NEW s \in Session, NEW ms \in SUBSET Member, ms # {}
    PROVE  BestOf(s, ms) \in ms
BY BestExists DEF BestOf

\* Whatever the health of the members, a session has one afterwards.
LEMMA SelectActiveFinds ==
    ASSUME NEW s \in Session, NEW r \in SessionRecord, NEW healthy \in SUBSET Member
    PROVE  /\ SelectActive(s, r, healthy) \in SessionRecord
           /\ SelectActive(s, r, healthy).active \in Member
<1>1. Home(s, healthy) \in Member
  <2>1. Homes \cap healthy \in SUBSET Member /\ Homes \in SUBSET Member /\ Homes # {}
    BY PoolAssumption
  <2>2. Homes \cap healthy # {} => BestOf(s, Homes \cap healthy) \in Homes \cap healthy
    BY <2>1, BestOfIn
  <2>3. BestOf(s, Homes) \in Homes
    BY <2>1, BestOfIn
  <2> QED BY <2>1, <2>2, <2>3 DEF Home
<1>2. healthy \ {r.active} # {} => BestOf(s, healthy \ {r.active}) \in Member
  BY BestOfIn
<1>3. r.switches \in Nat /\ MaxSwitches \in Nat /\ None \notin Member
  BY PoolAssumption DEF SessionRecord
<1> QED BY <1>1, <1>2, <1>3 DEF SelectActive, SessionRecord, SwitchedTo

LEMMA NextMemberFinds ==
    ASSUME NEW c \in Call, NEW current \in Member, NEW tried \in SUBSET Member, SharedInv
    PROVE  /\ NextMember(c, current, tried).session \in SessionRecord
           /\ NextMember(c, current, tried).to \in Member \cup {None}
<1> DEFINE s == SessionOf[c]
           r == session[s]
           mask == Healthy(PoolOf[c]) \ tried
           others == mask \ {current}
<1>1. s \in Session /\ r \in SessionRecord
  BY PoolAssumption DEF SharedInv
<1>2. others \in SUBSET Member /\ mask \in SUBSET Member
  BY DEF Healthy
<1>3. others # {} => BestOf(s, others) \in Member
  BY <1>1, <1>2, BestOfIn
<1>4. r.active \in Member \cup {None} /\ r.switches \in Nat /\ MaxSwitches \in Nat
  BY <1>1, PoolAssumption DEF SessionRecord
<1>5. others # {} /\ r.switches < MaxSwitches => SwitchedTo(r, BestOf(s, others)) \in SessionRecord
  BY <1>1, <1>3, <1>4 DEF SwitchedTo, SessionRecord
<1>6. NextMember(c, current, tried) =
        IF r.active # current
        THEN [to |-> IF r.active \in mask THEN r.active ELSE None, session |-> r]
        ELSE IF r.switches < MaxSwitches /\ others # {}
             THEN [to |-> BestOf(s, others), session |-> SwitchedTo(r, BestOf(s, others))]
             ELSE [to |-> None, session |-> r]
  BY DEF NextMember
<1> HIDE DEF s, r, mask, others
<1> QED BY <1>1, <1>2, <1>3, <1>4, <1>5, <1>6

----------------------------------------------------------------------------
(* What a step does to the call that takes it, and to the circuit of its    *)
(* member.                                                                  *)

LEMMA CallChanges ==
    ASSUME CallsInv, NEW c \in Call, NEW x \in CallRecord, NEW a \in AttemptRecord,
           NEW g \in Seq(Member), CallOK(x, a, g),
           call' = [call EXCEPT ![c] = x],
           attempt' = [attempt EXCEPT ![c] = a],
           charged' = [charged EXCEPT ![c] = g]
    PROVE  CallsInv'
<1>1. /\ attempt' \in [Call -> AttemptRecord]
      /\ call' \in [Call -> CallRecord]
      /\ charged' \in [Call -> Seq(Member)]
  BY DEF CallsInv
<1>2. ASSUME NEW d \in Call
      PROVE  CallOK(call'[d], attempt'[d], charged'[d])
  <2>1. CASE d = c
    <3>1. call'[d] = x /\ attempt'[d] = a /\ charged'[d] = g
      BY <2>1 DEF CallsInv
    <3> QED BY <3>1
  <2>2. CASE d # c
    <3>1. call'[d] = call[d] /\ attempt'[d] = attempt[d] /\ charged'[d] = charged[d]
      BY <2>2 DEF CallsInv
    <3>2. CallOK(call[d], attempt[d], charged[d])
      BY DEF CallsInv
    <3> QED BY <3>1, <3>2
  <2> QED BY <2>1, <2>2
<1>3. CallOK(call'[c], attempt'[c], charged'[c]) <=> CallOK(call[c], attempt[c], charged[c])'
  OBVIOUS
<1> QED BY <1>1, <1>2 DEF CallsInv

\* The inference of c is over.
LEMMA CallEnds ==
    ASSUME CallsInv, NEW c \in Call, Ends(c)
    PROVE  CallsInv' /\ call' = [call EXCEPT ![c] = NoCall]
<1>1. NoCall \in CallRecord /\ NoAttempt \in AttemptRecord /\ <<>> \in Seq(Member)
  BY PoolAssumption DEF NoCall, NoAttempt, CallRecord, AttemptRecord
<1>2. CallOK(NoCall, NoAttempt, <<>>)
  BY DEF CallOK, IsReported, NoCall
<1> QED BY <1>1, <1>2, CallChanges DEF Ends

\* c tells the breaker nothing, and its probes stand as before.
LEMMA ProbesStand ==
    ASSUME CircuitsInv, CallsInv, NEW c \in Call, NEW x,
           call' = [call EXCEPT ![c] = x],
           KeepCircuits,
           \A m \in Member : IsProbing(call[c], m) => IsProbing(x, m)
    PROVE  CircuitsInv'
<1>1. ASSUME NEW m \in Member, NEW d \in Call, IsProbing(call[d], m)
      PROVE  IsProbing(call'[d], m)
  <2>1. CASE d = c
    BY <2>1, <1>1 DEF CallsInv
  <2>2. CASE d # c
    BY <2>2, <1>1 DEF CallsInv
  <2> QED BY <2>1, <2>2
<1>2. ASSUME NEW m \in Member
      PROVE  ProbesOK(m)'
  <2>1. ProbesOK(m) /\ probing[m] \subseteq Call
    BY DEF CircuitsInv
  <2>2. \A d \in probing[m] : m \in unresolved \/ IsProbing(call'[d], m)
    BY <2>1, <1>1 DEF ProbesOK
  <2> QED BY <2>1, <2>2 DEF ProbesOK, KeepCircuits
<1> QED BY <1>2 DEF CircuitsInv, KeepCircuits

\* c leaves its member without a record.
LEMMA ProbeLeaves ==
    ASSUME CircuitsInv, CallsInv, NEW c \in Call, NEW x, call[c].on \in Member,
           call' = [call EXCEPT ![c] = x],
           LeavesUnrecorded(c, call[c].on)
    PROVE  CircuitsInv'
<1>1. ASSUME NEW m \in Member
      PROVE  ProbesOK(m)'
  <2>1. ProbesOK(m) /\ probing[m] \subseteq Call
    BY DEF CircuitsInv
  <2>2. /\ circuit' = circuit /\ probing' = probing
        /\ unresolved' = IF c \in probing[call[c].on] THEN unresolved \cup {call[c].on}
                         ELSE unresolved
    BY DEF LeavesUnrecorded
  <2>3. ASSUME NEW d \in probing[m]
        PROVE  m \in unresolved' \/ IsProbing(call'[d], m)
    <3>1. CASE d # c
      <4>1. call'[d] = call[d]
        BY <3>1, <2>1 DEF CallsInv
      <4> QED BY <4>1, <2>1, <2>2 DEF ProbesOK
    <3>2. CASE d = c
      <4>1. m \in unresolved \/ m = call[c].on
        BY <3>2, <2>1 DEF ProbesOK, IsProbing
      <4> QED BY <4>1, <3>2, <2>2
    <3> QED BY <3>1, <3>2
  <2>4. m \in unresolved' => m \in unresolved \/ c \in probing[m]
    BY <2>2
  <2>5. circuit[m].status # "HalfOpen" => m \notin unresolved'
    BY <2>1, <2>4 DEF ProbesOK
  <2> QED BY <2>1, <2>2, <2>3, <2>5 DEF ProbesOK
<1>2. unresolved' \subseteq Member
  BY DEF CircuitsInv, LeavesUnrecorded
<1> QED BY <1>1, <1>2 DEF CircuitsInv, LeavesUnrecorded

\* c tells the breaker what became of its call: the member is not half-open any more.
LEMMA CircuitRecords ==
    ASSUME CircuitsInv, CallsInv, NEW c \in Call, NEW x, call[c].on \in Member,
           NEW b \in Circuit, b.status # "HalfOpen",
           call' = [call EXCEPT ![c] = x],
           PutCircuit(call[c].on, b)
    PROVE  CircuitsInv'
<1> DEFINE on == call[c].on
<1>1. /\ circuit' = [circuit EXCEPT ![on] = b]
      /\ probing' = [probing EXCEPT ![on] = {}]
      /\ unresolved' = unresolved \ {on}
  BY DEF PutCircuit
<1>2. ASSUME NEW m \in Member
      PROVE  ProbesOK(m)'
  <2>1. ProbesOK(m) /\ probing[m] \subseteq Call
    BY DEF CircuitsInv
  <2>2. CASE m = on
    <3>1. circuit'[m] = b /\ probing'[m] = {} /\ m \notin unresolved'
      BY <1>1, <2>2 DEF CircuitsInv
    <3> QED BY <3>1, FS_EmptySet DEF ProbesOK
  <2>3. CASE m # on
    <3>1. /\ circuit'[m] = circuit[m] /\ probing'[m] = probing[m]
          /\ m \in unresolved' <=> m \in unresolved
      BY <1>1, <2>3 DEF CircuitsInv
    <3>2. ASSUME NEW d \in probing[m], IsProbing(call[d], m)
          PROVE  IsProbing(call'[d], m)
      <4>1. d # c
        BY <3>2, <2>3 DEF IsProbing
      <4>2. call'[d] = call[d]
        BY <4>1, <2>1 DEF CallsInv
      <4> QED BY <4>2, <3>2
    <3> QED BY <3>1, <3>2, <2>1 DEF ProbesOK
  <2> QED BY <2>2, <2>3
<1>3. circuit' \in [Member -> Circuit]
  BY <1>1 DEF CircuitsInv
<1>4. probing' \in [Member -> SUBSET Call] /\ unresolved' \subseteq Member
  BY <1>1 DEF CircuitsInv
<1> QED BY <1>2, <1>3, <1>4 DEF CircuitsInv

LEMMA RecordsAreCircuits ==
    ASSUME NEW b \in Circuit
    PROVE  /\ RecordSuccess(b) \in Circuit /\ RecordSuccess(b).status # "HalfOpen"
           /\ RecordFailure(b) \in Circuit /\ RecordFailure(b).status # "HalfOpen"
           /\ RecordAbandonedProbe(b) \in Circuit
           /\ RecordAbandonedProbe(b).status # "HalfOpen"
<1>1. /\ b.status \in {"Closed", "Open", "HalfOpen"} /\ b.failures \in 0 .. Threshold
      /\ b.probes \in 0 .. HalfOpenMax /\ b.cooled \in BOOLEAN
      /\ b = [status |-> b.status, failures |-> b.failures, probes |-> b.probes,
              cooled |-> b.cooled]
  BY DEF Circuit
<1>2. Threshold \in Nat /\ Threshold > 0 /\ HalfOpenMax \in Nat
  BY PoolAssumption
<1>3. RecordSuccess(b) \in Circuit /\ RecordSuccess(b).status # "HalfOpen"
  <2>1. 0 \in 0 .. Threshold /\ 0 \in 0 .. HalfOpenMax
    BY <1>2
  <2> QED BY <1>1, <2>1 DEF Circuit, RecordSuccess
<1>4. RecordFailure(b) \in Circuit /\ RecordFailure(b).status # "HalfOpen"
  <2> DEFINE f == IF b.failures < Threshold THEN b.failures + 1 ELSE b.failures
             t == IF b.status = "HalfOpen" \/ b.failures + 1 >= Threshold
                  THEN "Open" ELSE b.status
  <2>1. f \in 0 .. Threshold
    BY <1>1, <1>2
  <2>2. t \in {"Closed", "Open"}
    BY <1>1
  <2>3. RecordFailure(b) = [b EXCEPT !.failures = f, !.status = t, !.cooled = FALSE]
    BY Zenon DEF RecordFailure
  <2> HIDE DEF f, t
  <2> QED BY <1>1, <2>1, <2>2, <2>3 DEF Circuit
<1>5. RecordAbandonedProbe(b) \in Circuit /\ RecordAbandonedProbe(b).status # "HalfOpen"
  <2>1. 0 \in 0 .. HalfOpenMax
    BY <1>2
  <2> QED BY <1>1, <2>1 DEF Circuit, RecordAbandonedProbe
<1> QED BY <1>3, <1>4, <1>5

\* c charges its member with an error, whatever the error is.
LEMMA CircuitCharges ==
    ASSUME CircuitsInv, CallsInv, SharedInv, NEW c \in Call, NEW x, NEW e,
           call[c].on \in Member,
           call' = [call EXCEPT ![c] = x],
           Charges(c, call[c].on, e)
    PROVE  CircuitsInv' /\ quarantined' \in [Pool -> SUBSET Member]
<1>1. quarantined' \in [Pool -> SUBSET Member]
  BY DEF Charges, Quarantines, SharedInv
<1>2. CASE Counts(e)
  <2>1. circuit[call[c].on] \in Circuit
    BY DEF CircuitsInv
  <2> QED BY <1>1, <1>2, <2>1, RecordsAreCircuits, CircuitRecords DEF Charges
<1>3. CASE ~Counts(e)
  BY <1>1, <1>3, ProbeLeaves DEF Charges
<1> QED BY <1>2, <1>3

\* A session follows its call.
LEMMA SessionChanges ==
    ASSUME SharedInv, NEW c \in Call, NEW r \in SessionRecord, PutSession(c, r)
    PROVE  session' \in [Session -> SessionRecord]
BY PoolAssumption DEF SharedInv, PutSession

LEMMA SessionResets ==
    ASSUME SharedInv, NEW c \in Call, ResetSwitchBudget(c)
    PROVE  session' \in [Session -> SessionRecord]
<1>1. SessionOf[c] \in Session /\ session[SessionOf[c]] \in SessionRecord
  BY PoolAssumption DEF SharedInv
<1>2. [session[SessionOf[c]] EXCEPT !.switches = 0] \in SessionRecord
  <2>1. ASSUME NEW r \in SessionRecord
        PROVE  [r EXCEPT !.switches = 0] \in SessionRecord
    <3>1. [r EXCEPT !.switches = 0] = [active |-> r.active, switches |-> 0]
      BY DEF SessionRecord
    <3>2. 0 \in 0 .. MaxSwitches
      BY PoolAssumption
    <3> QED BY <3>1, <3>2 DEF SessionRecord
  <2> QED BY <1>1, <2>1
<1> QED BY <1>1, <1>2 DEF SharedInv, ResetSwitchBudget

----------------------------------------------------------------------------
(* Every step keeps the invariant. *)

LEMMA PoolInitOK == PoolInit => PoolIInv
<1> SUFFICES ASSUME PoolInit
             PROVE  PoolIInv
  OBVIOUS
<1>1. NoCall \in CallRecord /\ NoAttempt \in AttemptRecord /\ <<>> \in Seq(Member)
  BY PoolAssumption DEF NoCall, NoAttempt, CallRecord, AttemptRecord
<1>2. CallOK(NoCall, NoAttempt, <<>>)
  BY DEF CallOK, IsReported, NoCall
<1>3. CallsInv
  BY <1>1, <1>2 DEF CallsInv, PoolInit
<1>4. NewCircuit \in Circuit /\ NewCircuit.status # "HalfOpen"
  BY PoolAssumption DEF NewCircuit, Circuit
<1>5. \A m \in Member : ProbesOK(m)
  BY <1>4, FS_EmptySet DEF ProbesOK, PoolInit
<1>6. CircuitsInv
  BY <1>4, <1>5 DEF CircuitsInv, PoolInit
<1>7. SharedInv
  BY PoolAssumption DEF SharedInv, PoolInit, NoSession, SessionRecord
<1> QED BY <1>3, <1>6, <1>7 DEF PoolIInv

\* What is known of a call and its attempts before its step.
LEMMA CallFacts ==
    ASSUME CallsInv, NEW c \in Call
    PROVE  /\ call[c] \in CallRecord /\ attempt[c] \in AttemptRecord
           /\ charged[c] \in Seq(Member)
           /\ CallOK(call[c], attempt[c], charged[c])
           /\ attempt = [attempt EXCEPT ![c] = attempt[c]]
           /\ charged = [charged EXCEPT ![c] = charged[c]]
BY DEF CallsInv

LEMMA SelectsKeeps ==
    ASSUME PoolIInv, NEW c \in Call, Selects(c)
    PROVE  PoolIInv'
<1> DEFINE r == SelectActive(SessionOf[c],
                             IF c \in Plain THEN NoSession ELSE session[SessionOf[c]],
                             Healthy(PoolOf[c]))
           x == [call[c] EXCEPT !.at = "check", !.on = r.active, !.tried = attempt[c].tried]
<1>1. r \in SessionRecord /\ r.active \in Member
  <2>1. SessionOf[c] \in Session /\ NoSession \in SessionRecord
    BY PoolAssumption DEF NoSession, SessionRecord
  <2>2. session[SessionOf[c]] \in SessionRecord
    BY <2>1 DEF PoolIInv, SharedInv
  <2>3. Healthy(PoolOf[c]) \in SUBSET Member
    BY DEF Healthy
  <2>4. (IF c \in Plain THEN NoSession ELSE session[SessionOf[c]]) \in SessionRecord
    BY <2>1, <2>2
  <2> QED BY <2>1, <2>3, <2>4, SelectActiveFinds
<1>2. /\ call[c].at \in {"idle", "select"} /\ PutSession(c, r)
      /\ call' = [call EXCEPT ![c] = x]
      /\ KeepCircuits /\ UNCHANGED <<quarantined, attempt, charged>>
  BY DEF Selects
<1>3. /\ call[c] \in CallRecord /\ attempt[c] \in AttemptRecord /\ charged[c] \in Seq(Member)
      /\ attempt = [attempt EXCEPT ![c] = attempt[c]]
      /\ charged = [charged EXCEPT ![c] = charged[c]]
  BY CallFacts DEF PoolIInv
<1> HIDE DEF r
<1>4. x \in CallRecord /\ x.at = "check" /\ x.on = r.active
  BY <1>1, <1>3 DEF CallRecord, AttemptRecord
<1> HIDE DEF x
<1>5. CallOK(x, attempt[c], charged[c])
  BY <1>1, <1>4 DEF CallOK, IsReported
<1>6. CallsInv'
  BY <1>2, <1>3, <1>4, <1>5, CallChanges DEF PoolIInv
<1>7. CircuitsInv'
  BY <1>2, ProbesStand DEF PoolIInv, IsProbing
<1>8. SharedInv'
  BY <1>1, <1>2, SessionChanges DEF PoolIInv, SharedInv
<1> QED BY <1>6, <1>7, <1>8 DEF PoolIInv

LEMMA IsLetInKeeps ==
    ASSUME PoolIInv, NEW c \in Call, IsLetIn(c)
    PROVE  PoolIInv'
<1> DEFINE m == call[c].on
           x == [call[c] EXCEPT !.at = "opening", !.tried = @ \cup {m}]
           b == Checked(circuit[m])
<1>1. /\ call[c].at = "check" /\ IsAvailable(circuit[m])
      /\ call' = [call EXCEPT ![c] = x]
      /\ circuit' = [circuit EXCEPT ![m] = b]
      /\ probing' = IF b.status = "HalfOpen" THEN [probing EXCEPT ![m] = @ \cup {c}]
                    ELSE probing
      /\ UNCHANGED <<unresolved, quarantined, session, attempt, charged>>
  BY DEF IsLetIn, IsAdmitted, At, On, CircuitOf
<1>2. /\ call[c] \in CallRecord /\ attempt[c] \in AttemptRecord /\ charged[c] \in Seq(Member)
      /\ CallOK(call[c], attempt[c], charged[c])
      /\ attempt = [attempt EXCEPT ![c] = attempt[c]]
      /\ charged = [charged EXCEPT ![c] = charged[c]]
  BY CallFacts DEF PoolIInv
<1>3. m \in Member
  BY <1>1, <1>2 DEF CallOK
<1>4. x \in CallRecord /\ x.at = "opening" /\ x.on = m
  BY <1>2, <1>3 DEF CallRecord
<1>5. circuit[m] \in Circuit /\ HalfOpenMax \in Nat \ {0} /\ circuit[m].probes \in Nat
  BY <1>3, PoolAssumption DEF PoolIInv, CircuitsInv, Circuit
<1>6. /\ circuit[m].status = "Closed" => b = circuit[m]
      /\ circuit[m].status = "Open" =>
            b \in Circuit /\ b.status = "HalfOpen" /\ b.probes = 1
      /\ circuit[m].status = "HalfOpen" =>
            b \in Circuit /\ b.status = "HalfOpen" /\ b.probes = circuit[m].probes + 1
  <2>1. ASSUME NEW k \in Circuit, IsAvailable(k)
        PROVE  /\ k.status = "Closed" => Checked(k) = k
               /\ k.status = "Open" =>
                     Checked(k) \in Circuit /\ Checked(k).status = "HalfOpen"
                     /\ Checked(k).probes = 1
               /\ k.status = "HalfOpen" =>
                     Checked(k) \in Circuit /\ Checked(k).status = "HalfOpen"
                     /\ Checked(k).probes = k.probes + 1
    <3>1. k.status \in {"Closed", "Open", "HalfOpen"} /\ k.probes \in 0 .. HalfOpenMax
      BY DEF Circuit
    <3>2. CASE k.status = "Closed"
      BY <3>2 DEF Checked
    <3>3. CASE k.status = "Open"
      <4>1. Checked(k) = [k EXCEPT !.status = "HalfOpen", !.probes = 1]
        BY <3>3 DEF Checked
      <4>2. 1 \in 0 .. HalfOpenMax
        BY PoolAssumption
      <4> QED BY <4>1, <4>2, <3>3 DEF Circuit
    <3>4. CASE k.status = "HalfOpen"
      <4>1. Checked(k) = [k EXCEPT !.probes = k.probes + 1]
        BY <3>4 DEF Checked
      <4>2. k.probes + 1 \in 0 .. HalfOpenMax
        BY <2>1, <3>1, <3>4, PoolAssumption DEF IsAvailable
      <4> QED BY <4>1, <4>2, <3>4 DEF Circuit
    <3> QED BY <3>1, <3>2, <3>3, <3>4
  <2> QED BY <1>1, <1>5, <2>1
<1>7. circuit[m].status \in {"Closed", "Open", "HalfOpen"}
  BY <1>5 DEF Circuit
<1> HIDE DEF x, b
<1>8. CallOK(x, attempt[c], charged[c])
  BY <1>3, <1>4 DEF CallOK, IsReported
<1>9. CallsInv'
  BY <1>1, <1>2, <1>4, <1>8, CallChanges DEF PoolIInv
<1>10. ASSUME NEW n \in Member
       PROVE  ProbesOK(n)'
  <2>1. ProbesOK(n) /\ probing[n] \subseteq Call
    BY DEF PoolIInv, CircuitsInv
  <2>2. ASSUME NEW d \in Call, d # c
        PROVE  call'[d] = call[d]
    BY <1>1, <2>2 DEF PoolIInv, CallsInv
  <2>3. ~IsProbing(call[c], n) /\ call'[c] = x
    BY <1>1, <1>2 DEF IsProbing, PoolIInv, CallsInv
  <2>4. ASSUME NEW d \in probing[n]
        PROVE  n \in unresolved' \/ IsProbing(call'[d], n)
    <3>1. CASE d = c
      BY <3>1, <2>1, <2>3, <1>1 DEF ProbesOK
    <3>2. CASE d # c
      <4>1. call'[d] = call[d]
        BY <3>2, <2>1, <2>2
      <4> QED BY <4>1, <2>1, <1>1 DEF ProbesOK
    <3> QED BY <3>1, <3>2
  <2>5. CASE n # m \/ circuit[m].status = "Closed"
    <3>1. circuit'[n] = circuit[n]
      BY <1>1, <1>6, <2>5 DEF PoolIInv, CircuitsInv
    <3>2. probing'[n] = probing[n]
      BY <1>1, <1>6, <2>5 DEF PoolIInv, CircuitsInv
    <3> QED BY <3>1, <3>2, <2>1, <2>4, <1>1 DEF ProbesOK
  <2>6. CASE n = m /\ circuit[m].status # "Closed"
    <3>1. b.status = "HalfOpen" /\ circuit'[n] = b /\ probing'[n] = probing[n] \cup {c}
      BY <1>1, <1>3, <1>6, <1>7, <2>6 DEF PoolIInv, CircuitsInv
    <3>2. IsProbing(call'[c], n)
      BY <2>3, <2>6, <1>4 DEF IsProbing, IsReported
    <3>3. IsFiniteSet(probing[n]) /\ Cardinality(probing[n]) \in Nat
      BY <2>1, FS_CardinalityType DEF ProbesOK
    <3>4. IsFiniteSet(probing'[n]) /\ Cardinality(probing'[n]) <= Cardinality(probing[n]) + 1
      <4>1. \A S : IsFiniteSet(S) =>
                /\ IsFiniteSet(S \cup {c})
                /\ \/ Cardinality(S \cup {c}) = Cardinality(S)
                   \/ Cardinality(S \cup {c}) = Cardinality(S) + 1
        BY FS_AddElement
      <4>2. /\ IsFiniteSet(probing'[n])
            /\ \/ Cardinality(probing'[n]) = Cardinality(probing[n])
               \/ Cardinality(probing'[n]) = Cardinality(probing[n]) + 1
        BY <3>1, <3>3, <4>1
      <4> QED BY <3>3, <4>2
    <3>5. Cardinality(probing'[n]) \in Nat
      BY <3>4, FS_CardinalityType
    <3>6. Cardinality(probing'[n]) <= b.probes
      <4>1. CASE circuit[m].status = "Open"
        <5>1. probing[n] = {}
          BY <4>1, <2>1, <2>6 DEF ProbesOK
        <5>2. Cardinality(probing[n]) = 0
          BY <5>1, FS_EmptySet
        <5> QED BY <5>2, <3>4, <3>5, <4>1, <1>6
      <4>2. CASE circuit[m].status = "HalfOpen"
        <5>1. Cardinality(probing[n]) <= circuit[m].probes
          BY <4>2, <2>1, <2>6 DEF ProbesOK
        <5> QED BY <5>1, <3>3, <3>4, <3>5, <4>2, <1>5, <1>6
      <4> QED BY <4>1, <4>2, <2>6, <1>7
    <3> QED BY <3>1, <3>2, <3>4, <3>6, <2>4 DEF ProbesOK
  <2> QED BY <2>5, <2>6
<1>11. CircuitsInv'
  <2>1. circuit' \in [Member -> Circuit]
    BY <1>1, <1>3, <1>5, <1>6, <1>7 DEF PoolIInv, CircuitsInv
  <2>2. probing' \in [Member -> SUBSET Call] /\ unresolved' \subseteq Member
    BY <1>1, <1>3 DEF PoolIInv, CircuitsInv
  <2> QED BY <2>1, <2>2, <1>10 DEF CircuitsInv
<1>12. SharedInv'
  BY <1>1 DEF PoolIInv, SharedInv
<1> QED BY <1>9, <1>11, <1>12 DEF PoolIInv

\* c tries another member, or gives up.
LEMMA TriesKeeps ==
    ASSUME CallsInv, CircuitsInv, NEW c \in Call, NEW m \in Member \cup {None},
           NEW tried \in SUBSET Member, call[c].at \in {"check", "refused"},
           Tries(c, m, tried), KeepCircuits
    PROVE  CallsInv' /\ CircuitsInv'
<1>1. \A n \in Member : ~IsProbing(call[c], n)
  BY DEF IsProbing
<1>2. CASE m = None
  BY <1>1, <1>2, CallEnds, ProbesStand DEF Tries
<1>3. CASE m # None
  <2> DEFINE x == [call[c] EXCEPT !.at = "check", !.on = m, !.tried = tried]
  <2>1. call' = [call EXCEPT ![c] = x] /\ UNCHANGED <<attempt, charged>>
    BY <1>3 DEF Tries
  <2>2. x \in CallRecord /\ x.at = "check" /\ x.on \in Member
    BY <1>3, CallFacts DEF CallRecord
  <2> HIDE DEF x
  <2>3. CallOK(x, attempt[c], charged[c])
    BY <2>2 DEF CallOK, IsReported
  <2>4. CallsInv'
    BY <2>1, <2>2, <2>3, CallFacts, CallChanges
  <2> QED BY <2>1, <2>4, <1>1, ProbesStand
<1> QED BY <1>2, <1>3

\* A stream is dropped before its end, by a step that takes the call to x.
LEMMA AbandonsKeeps ==
    ASSUME CallsInv, CircuitsInv, NEW c \in Call, NEW x, call[c].on \in Member,
           call' = [call EXCEPT ![c] = x], Abandons(c)
    PROVE  CircuitsInv'
<1>1. circuit[call[c].on] \in Circuit
  BY DEF CircuitsInv
<1>2. CASE IsCurrent(c)
  BY <1>1, <1>2, RecordsAreCircuits, CircuitRecords DEF Abandons, On, CircuitOf
<1>3. CASE ~IsCurrent(c)
  BY <1>3, ProbeLeaves DEF Abandons, On
<1> QED BY <1>2, <1>3

LEMMA IsTurnedAwayKeeps ==
    ASSUME PoolIInv, NEW c \in Call, IsTurnedAway(c)
    PROVE  PoolIInv'
<1> DEFINE tried == call[c].tried \cup {call[c].on}
           next == NextMember(c, call[c].on, tried)
<1>1. /\ call[c].at = "check" /\ PutSession(c, next.session)
      /\ Tries(c, next.to, tried) /\ KeepCircuits /\ UNCHANGED quarantined
  BY DEF IsTurnedAway, At, On
<1>2. call[c].on \in Member /\ tried \in SUBSET Member
  BY <1>1, CallFacts DEF PoolIInv, CallOK, CallRecord
<1> HIDE DEF tried
<1>3. next.session \in SessionRecord /\ next.to \in Member \cup {None}
  BY <1>2, NextMemberFinds DEF PoolIInv
<1> HIDE DEF next
<1>4. CallsInv' /\ CircuitsInv'
  BY <1>1, <1>2, <1>3, TriesKeeps DEF PoolIInv
<1>5. SharedInv'
  BY <1>1, <1>3, SessionChanges DEF PoolIInv, SharedInv
<1> QED BY <1>4, <1>5 DEF PoolIInv

LEMMA AnswersKeeps ==
    ASSUME PoolIInv, NEW c \in Call, Answers(c)
    PROVE  PoolIInv'
<1>1. /\ call[c].at = "opening" /\ Ends(c) /\ ResetSwitchBudget(c) /\ UNCHANGED quarantined
      /\ PutCircuit(call[c].on, RecordSuccess(circuit[call[c].on]))
  BY DEF Answers, At, On, CircuitOf
<1>2. call[c].on \in Member
  BY <1>1, CallFacts DEF PoolIInv, CallOK
<1>3. CallsInv' /\ call' = [call EXCEPT ![c] = NoCall]
  BY <1>1, CallEnds DEF PoolIInv
<1>4. circuit[call[c].on] \in Circuit
  BY <1>2 DEF PoolIInv, CircuitsInv
<1>5. CircuitsInv'
  BY <1>1, <1>2, <1>3, <1>4, RecordsAreCircuits, CircuitRecords DEF PoolIInv
<1>6. SharedInv'
  BY <1>1, SessionResets DEF PoolIInv, SharedInv
<1> QED BY <1>3, <1>5, <1>6 DEF PoolIInv

LEMMA OpenFailsKeeps ==
    ASSUME PoolIInv, NEW c \in Call, NEW e \in Error, OpenFails(c, e)
    PROVE  PoolIInv'
<1> DEFINE x == [call[c] EXCEPT !.at = "refused", !.error = e]
           a == IF c \in Plain THEN attempt[c]
                ELSE [active |-> call[c].on, failed |-> TRUE,
                      tried |-> attempt[c].tried \cup {call[c].on}]
<1>1. /\ call[c] \in CallRecord /\ attempt[c] \in AttemptRecord /\ charged[c] \in Seq(Member)
      /\ CallOK(call[c], attempt[c], charged[c])
      /\ attempt = [attempt EXCEPT ![c] = attempt[c]]
      /\ charged = [charged EXCEPT ![c] = charged[c]]
  BY CallFacts DEF PoolIInv
<1>2. /\ call[c].at = "opening" /\ Charges(c, call[c].on, e)
      /\ call' = [call EXCEPT ![c] = x]
      /\ attempt' = [attempt EXCEPT ![c] = a]
      /\ charged' = charged /\ session' = session
  <2>1. attempt' = [attempt EXCEPT ![c] = a]
    <3>1. CASE c \in Plain
      BY <3>1, <1>1 DEF OpenFails
    <3>2. CASE c \notin Plain
      BY <3>2, <1>1 DEF OpenFails, On, PoolIInv, CallsInv
    <3> QED BY <3>1, <3>2
  <2> QED BY <2>1 DEF OpenFails, At, On
<1>3. call[c].on \in Member
  BY <1>1, <1>2 DEF CallOK
<1>4. x \in CallRecord /\ x.at = "refused" /\ x.on = call[c].on
  BY <1>1 DEF CallRecord
<1>5. a \in AttemptRecord
  BY <1>1, <1>3 DEF AttemptRecord
<1> HIDE DEF x, a
<1>6. CallOK(x, a, charged[c])
  BY <1>3, <1>4 DEF CallOK, IsReported
<1>7. CallsInv'
  BY <1>1, <1>2, <1>4, <1>5, <1>6, CallChanges DEF PoolIInv
<1>8. CircuitsInv' /\ quarantined' \in [Pool -> SUBSET Member]
  BY <1>2, <1>3, CircuitCharges DEF PoolIInv
<1> QED BY <1>2, <1>7, <1>8 DEF PoolIInv, SharedInv

LEMMA MovesKeeps ==
    ASSUME PoolIInv, NEW c \in Call, Moves(c)
    PROVE  PoolIInv'
<1> DEFINE next == NextMember(c, call[c].on, call[c].tried)
<1>1. /\ call[c].at = "refused" /\ KeepCircuits /\ UNCHANGED quarantined
      /\ IF ShouldSwitchOnError(call[c].error)
         THEN PutSession(c, next.session)
              /\ Tries(c, next.to, call[c].tried \cup attempt[c].tried)
         ELSE UNCHANGED session /\ Ends(c)
  BY DEF Moves, At, On
<1>2. /\ call[c].on \in Member /\ call[c].tried \in SUBSET Member
      /\ call[c].tried \cup attempt[c].tried \in SUBSET Member
  BY <1>1, CallFacts DEF PoolIInv, CallOK, CallRecord, AttemptRecord
<1>3. next.session \in SessionRecord /\ next.to \in Member \cup {None}
  BY <1>2, NextMemberFinds DEF PoolIInv
<1> HIDE DEF next
<1>4. CASE ShouldSwitchOnError(call[c].error)
  <2>1. CallsInv' /\ CircuitsInv'
    BY <1>1, <1>2, <1>3, <1>4, TriesKeeps DEF PoolIInv
  <2>2. SharedInv'
    BY <1>1, <1>3, <1>4, SessionChanges DEF PoolIInv, SharedInv
  <2> QED BY <2>1, <2>2 DEF PoolIInv
<1>5. CASE ~ShouldSwitchOnError(call[c].error)
  <2>1. CallsInv' /\ call' = [call EXCEPT ![c] = NoCall]
    BY <1>1, <1>5, CallEnds DEF PoolIInv
  <2>2. CircuitsInv'
    BY <1>1, <2>1, ProbesStand DEF PoolIInv, IsProbing
  <2> QED BY <1>1, <1>5, <2>1, <2>2 DEF PoolIInv, SharedInv
<1> QED BY <1>4, <1>5

LEMMA StreamOpensKeeps ==
    ASSUME PoolIInv, NEW c \in Call, StreamOpens(c)
    PROVE  PoolIInv'
<1> DEFINE x == [call[c] EXCEPT !.at = "streaming", !.error = "none", !.ended = FALSE]
           a == [active |-> call[c].on, failed |-> FALSE,
                 tried |-> attempt[c].tried \cup {call[c].on}]
<1>1. /\ call[c] \in CallRecord /\ attempt[c] \in AttemptRecord
      /\ CallOK(call[c], attempt[c], charged[c])
  BY CallFacts DEF PoolIInv
<1>2. /\ call[c].at = "opening"
      /\ call' = [call EXCEPT ![c] = x]
      /\ attempt' = [attempt EXCEPT ![c] = a]
      /\ charged' = [charged EXCEPT ![c] = <<>>]
      /\ KeepCircuits /\ UNCHANGED <<quarantined, session>>
  BY DEF StreamOpens, At, On, PoolIInv, CallsInv
<1>3. call[c].on \in Member
  BY <1>1, <1>2 DEF CallOK
<1>4. x \in CallRecord /\ x.at = "streaming" /\ x.on = call[c].on /\ ~x.ended
  BY <1>1 DEF CallRecord
<1>5. a \in AttemptRecord /\ a.active = call[c].on /\ ~a.failed
  BY <1>1, <1>3 DEF AttemptRecord
<1> HIDE DEF x, a
<1>6. CallOK(x, a, <<>>) /\ <<>> \in Seq(Member)
  BY <1>3, <1>4, <1>5 DEF CallOK, IsReported
<1>7. CallsInv'
  BY <1>1, <1>2, <1>4, <1>5, <1>6, CallChanges DEF PoolIInv
<1>8. CircuitsInv'
  BY <1>2, <1>4, ProbesStand DEF PoolIInv, IsProbing, IsReported
<1> QED BY <1>2, <1>7, <1>8 DEF PoolIInv, SharedInv

LEMMA StreamDrainsKeeps ==
    ASSUME PoolIInv, NEW c \in Call, StreamDrains(c)
    PROVE  PoolIInv'
<1>1. /\ call[c].at = "streaming" /\ Ends(c) /\ UNCHANGED quarantined
      /\ IF IsCurrent(c)
         THEN PutCircuit(call[c].on, RecordSuccess(circuit[call[c].on]))
              /\ ResetSwitchBudget(c)
         ELSE LeavesUnrecorded(c, call[c].on) /\ UNCHANGED session
  BY DEF StreamDrains, At, On, CircuitOf
<1>2. call[c].on \in Member
  BY <1>1, CallFacts DEF PoolIInv, CallOK
<1>3. CallsInv' /\ call' = [call EXCEPT ![c] = NoCall]
  BY <1>1, CallEnds DEF PoolIInv
<1>4. circuit[call[c].on] \in Circuit
  BY <1>2 DEF PoolIInv, CircuitsInv
<1>5. CASE IsCurrent(c)
  <2>1. CircuitsInv'
    BY <1>1, <1>2, <1>3, <1>4, <1>5, RecordsAreCircuits, CircuitRecords DEF PoolIInv
  <2>2. SharedInv'
    BY <1>1, <1>5, SessionResets DEF PoolIInv, SharedInv
  <2> QED BY <1>3, <2>1, <2>2 DEF PoolIInv
<1>6. CASE ~IsCurrent(c)
  <2>1. CircuitsInv'
    BY <1>1, <1>2, <1>3, <1>6, ProbeLeaves DEF PoolIInv
  <2> QED BY <1>1, <1>3, <1>6, <2>1 DEF PoolIInv, SharedInv
<1> QED BY <1>5, <1>6

LEMMA StreamStallsKeeps ==
    ASSUME PoolIInv, NEW c \in Call, StreamStalls(c)
    PROVE  PoolIInv'
<1> DEFINE x == [call[c] EXCEPT !.at = "reporting", !.error = "Transient"]
<1>1. /\ call[c] \in CallRecord /\ attempt[c] \in AttemptRecord /\ charged[c] \in Seq(Member)
      /\ CallOK(call[c], attempt[c], charged[c])
      /\ attempt = [attempt EXCEPT ![c] = attempt[c]]
      /\ charged = [charged EXCEPT ![c] = charged[c]]
  BY CallFacts DEF PoolIInv
<1>2. /\ call[c].at = "streaming" /\ call' = [call EXCEPT ![c] = x]
      /\ KeepCircuits /\ UNCHANGED <<quarantined, session, attempt, charged>>
  BY DEF StreamStalls, At
<1>3. x \in CallRecord /\ x.at = "reporting" /\ x.on = call[c].on /\ x.ended = call[c].ended
  BY <1>1 DEF CallRecord, Error
<1> HIDE DEF x
<1>4. CallOK(x, attempt[c], charged[c])
  BY <1>1, <1>2, <1>3 DEF CallOK, IsReported
<1>5. ~x.ended
  BY <1>1, <1>2, <1>3 DEF CallOK
<1>6. CallsInv'
  BY <1>1, <1>2, <1>3, <1>4, CallChanges DEF PoolIInv
<1>7. CircuitsInv'
  BY <1>2, <1>3, <1>5, ProbesStand DEF PoolIInv, IsProbing, IsReported
<1> QED BY <1>2, <1>6, <1>7 DEF PoolIInv, SharedInv

\* The first report of a failure charges the member of the stream.
LEMMA FirstReportKeeps ==
    ASSUME PoolIInv, NEW c \in Call, NEW x \in CallRecord, NEW e,
           call[c].on \in Member, attempt[c].active = call[c].on, ~attempt[c].failed,
           charged[c] = <<>>,
           IsReported(x), x.on = call[c].on, x.error = e, x.at = "broken" => x.ended,
           call' = [call EXCEPT ![c] = x],
           ReportsFailure(c, call[c].on, e)
    PROVE  CallsInv' /\ CircuitsInv' /\ quarantined' \in [Pool -> SUBSET Member]
<1> DEFINE a == [attempt[c] EXCEPT !.failed = TRUE]
           g == IF Counts(e) THEN <<call[c].on>> ELSE <<>>
<1>1. IsFirstReport(c, call[c].on)
  BY PoolAssumption DEF IsFirstReport
<1>2. /\ Charges(c, call[c].on, e)
      /\ attempt' = [attempt EXCEPT ![c] = a]
      /\ charged' = [charged EXCEPT ![c] = g]
  <2>1. charged' = [charged EXCEPT ![c] = IF Counts(e) THEN Append(charged[c], call[c].on)
                                          ELSE charged[c]]
    BY <1>1 DEF ReportsFailure
  <2>2. Append(<<>>, call[c].on) = <<call[c].on>>
    OBVIOUS
  <2> QED BY <1>1, <2>1, <2>2 DEF ReportsFailure
<1>3. a \in AttemptRecord /\ a.active = call[c].on /\ a.failed
  BY CallFacts DEF PoolIInv, AttemptRecord
<1>4. g \in Seq(Member)
  OBVIOUS
<1>5. CallOK(x, a, g)
  <2>1. x.at \notin {"idle", "select"} => x.on \in Member
    OBVIOUS
  <2>2. x.at \in {"broken", "streaming"} => (x.ended <=> x.at = "broken")
    BY DEF IsReported
  <2>3. IsReported(x) => a.active = x.on /\ a.failed
                         /\ g = (IF Counts(x.error) THEN <<x.on>> ELSE <<>>)
    BY <1>3
  <2> QED BY <2>1, <2>2, <2>3 DEF CallOK
<1> HIDE DEF a, g
<1>6. CallsInv'
  BY <1>2, <1>3, <1>4, <1>5, CallChanges DEF PoolIInv
<1> QED BY <1>2, <1>6, CircuitCharges DEF PoolIInv

LEMMA StreamBreaksKeeps ==
    ASSUME PoolIInv, NEW c \in Call, NEW e \in Error, StreamBreaks(c, e)
    PROVE  PoolIInv'
<1> DEFINE x == [call[c] EXCEPT !.at = "broken", !.error = e, !.ended = TRUE]
<1>1. /\ call[c].at = "streaming" /\ ReportsFailure(c, call[c].on, e)
      /\ call' = [call EXCEPT ![c] = x] /\ UNCHANGED session
  BY DEF StreamBreaks, At, On
<1>2. /\ call[c] \in CallRecord /\ CallOK(call[c], attempt[c], charged[c])
  BY CallFacts DEF PoolIInv
<1>3. x \in CallRecord /\ x.at = "broken" /\ x.on = call[c].on /\ x.ended /\ x.error = e
  BY <1>2 DEF CallRecord
<1> HIDE DEF x
<1>4. /\ call[c].on \in Member /\ attempt[c].active = call[c].on /\ ~attempt[c].failed
      /\ charged[c] = <<>> /\ IsReported(x)
  BY <1>1, <1>2, <1>3 DEF CallOK, IsReported
<1>5. CallsInv' /\ CircuitsInv' /\ quarantined' \in [Pool -> SUBSET Member]
  BY <1>1, <1>3, <1>4, FirstReportKeeps
<1> QED BY <1>1, <1>5 DEF PoolIInv, SharedInv

\* A step of a call whose failure is reported, which leaves it reported.
LEMMA ReportedKeeps ==
    ASSUME CallsInv, NEW c \in Call, IsReported(call[c]), NEW at, NEW x,
           x = [call[c] EXCEPT !.at = at],
           at \in {"reported", "dropping"} \/ (at = "reporting" /\ call[c].ended),
           call' = [call EXCEPT ![c] = x], UNCHANGED <<attempt, charged>>
    PROVE  CallsInv'
<1>1. /\ call[c] \in CallRecord /\ attempt[c] \in AttemptRecord /\ charged[c] \in Seq(Member)
      /\ CallOK(call[c], attempt[c], charged[c])
      /\ attempt' = [attempt EXCEPT ![c] = attempt[c]]
      /\ charged' = [charged EXCEPT ![c] = charged[c]]
  BY CallFacts
<1>2. /\ x \in CallRecord /\ x.at = at /\ x.on = call[c].on /\ x.ended = call[c].ended
      /\ x.error = call[c].error
  BY <1>1 DEF CallRecord
<1>3. CallOK(x, attempt[c], charged[c])
  BY <1>1, <1>2 DEF CallOK, IsReported
<1> QED BY <1>1, <1>2, <1>3, CallChanges

LEMMA MovesSessionKeeps ==
    ASSUME PoolIInv, NEW c \in Call, MovesSession(c)
    PROVE  PoolIInv'
<1> DEFINE at == IF call[c].at = "broken" THEN "reporting" ELSE "dropping"
           x == [call[c] EXCEPT !.at = at]
           next == NextMember(c, call[c].on, attempt[c].tried)
<1>1. /\ call[c].at \in {"broken", "reported"}
      /\ PutSession(c, next.session) \/ UNCHANGED session
      /\ call' = [call EXCEPT ![c] = x]
      /\ KeepCircuits /\ UNCHANGED <<quarantined, attempt, charged>>
  BY DEF MovesSession, Goes, At, On
<1>2. /\ call[c] \in CallRecord /\ attempt[c] \in AttemptRecord
      /\ CallOK(call[c], attempt[c], charged[c])
  BY CallFacts DEF PoolIInv
<1>3. call[c].on \in Member /\ attempt[c].tried \in SUBSET Member /\ IsReported(call[c])
  BY <1>1, <1>2 DEF CallOK, AttemptRecord, IsReported
<1>4. next.session \in SessionRecord
  BY <1>3, NextMemberFinds DEF PoolIInv
<1> HIDE DEF next
<1>5. at \in {"reported", "dropping"} \/ (at = "reporting" /\ call[c].ended)
  BY <1>1, <1>2 DEF CallOK
<1>6. CallsInv'
  <2> HIDE DEF at
  <2> QED BY <1>1, <1>3, <1>5, ReportedKeeps DEF PoolIInv
<1>7. \A m \in Member : ~IsProbing(call[c], m)
  BY <1>1 DEF IsProbing
<1>8. CircuitsInv'
  BY <1>1, <1>7, ProbesStand DEF PoolIInv
<1>9. session' \in [Session -> SessionRecord]
  <2>1. CASE PutSession(c, next.session)
    BY <2>1, <1>4, SessionChanges DEF PoolIInv
  <2>2. CASE UNCHANGED session
    BY <2>2 DEF PoolIInv, SharedInv
  <2> QED BY <1>1, <2>1, <2>2
<1> QED BY <1>1, <1>6, <1>8, <1>9 DEF PoolIInv, SharedInv

LEMMA LoopReportsKeeps ==
    ASSUME PoolIInv, NEW c \in Call, LoopReports(c)
    PROVE  PoolIInv'
<1> DEFINE m == attempt[c].active
           at == IF IsFirstReport(c, m) THEN "reported" ELSE "dropping"
           x == [call[c] EXCEPT !.at = at]
<1>1. /\ call[c].at = "reporting" /\ ReportsFailure(c, m, call[c].error)
      /\ call' = [call EXCEPT ![c] = x] /\ UNCHANGED session
  BY DEF LoopReports, Goes, At
<1>2. /\ call[c] \in CallRecord /\ CallOK(call[c], attempt[c], charged[c])
  BY CallFacts DEF PoolIInv
<1>3. call[c].on \in Member /\ m = call[c].on
  BY <1>1, <1>2 DEF CallOK
<1>4. CASE call[c].ended
  <2>1. IsReported(call[c]) /\ attempt[c].failed
    BY <1>1, <1>2, <1>4 DEF CallOK, IsReported
  <2>2. ~IsFirstReport(c, m)
    BY <2>1 DEF IsFirstReport
  <2>3. KeepCircuits /\ UNCHANGED <<quarantined, attempt, charged>>
    BY <1>1, <2>2 DEF ReportsFailure
  <2>4. at = "dropping"
    BY <2>2
  <2>5. CallsInv'
    <3> HIDE DEF at
    <3> QED BY <1>1, <2>1, <2>3, <2>4, ReportedKeeps DEF PoolIInv
  <2>6. \A n \in Member : ~IsProbing(call[c], n)
    BY <2>1 DEF IsProbing
  <2>7. CircuitsInv'
    BY <1>1, <2>3, <2>6, ProbesStand DEF PoolIInv
  <2> QED BY <1>1, <2>3, <2>5, <2>7 DEF PoolIInv, SharedInv
<1>5. CASE ~call[c].ended
  <2>1. ~attempt[c].failed /\ charged[c] = <<>>
    BY <1>1, <1>2, <1>5 DEF CallOK, IsReported
  <2>2. at = "reported"
    BY <1>3, <2>1, PoolAssumption DEF IsFirstReport
  <2>3. x \in CallRecord /\ x.at = "reported" /\ x.on = call[c].on /\ x.error = call[c].error
    <3> HIDE DEF at
    <3> QED BY <1>2, <2>2 DEF CallRecord
  <2> HIDE DEF x
  <2>4. IsReported(x) /\ (x.at = "broken" => x.ended)
    BY <2>3 DEF IsReported
  <2>5. CallsInv' /\ CircuitsInv' /\ quarantined' \in [Pool -> SUBSET Member]
    BY <1>1, <1>3, <2>1, <2>3, <2>4, FirstReportKeeps
  <2> QED BY <1>1, <2>5 DEF PoolIInv, SharedInv
<1> QED BY <1>4, <1>5

\* The stream of a failed call is dropped.
LEMMA DropsStreamKeeps ==
    ASSUME CallsInv, CircuitsInv, NEW c \in Call, NEW x, call[c].at = "dropping",
           call' = [call EXCEPT ![c] = x], DropsStream(c)
    PROVE  CircuitsInv'
<1>1. call[c].on \in Member
  BY CallFacts DEF CallOK
<1>2. \A m \in Member : ~IsProbing(call[c], m)
  BY DEF IsProbing
<1>3. CASE call[c].ended
  BY <1>2, <1>3, ProbesStand DEF DropsStream
<1>4. CASE ~call[c].ended
  BY <1>1, <1>4, AbandonsKeeps DEF DropsStream
<1> QED BY <1>3, <1>4

LEMMA OpensAnotherKeeps ==
    ASSUME PoolIInv, NEW c \in Call, OpensAnother(c)
    PROVE  PoolIInv'
<1> DEFINE x == [NoCall EXCEPT !.at = "select", !.retries = call[c].retries + 1]
<1>1. /\ call[c].at = "dropping" /\ call[c].retries < MaxStreamRetries
      /\ DropsStream(c) /\ call' = [call EXCEPT ![c] = x]
      /\ UNCHANGED <<quarantined, session, attempt, charged>>
  BY DEF OpensAnother, At
<1>2. /\ call[c] \in CallRecord /\ attempt[c] \in AttemptRecord /\ charged[c] \in Seq(Member)
      /\ attempt' = [attempt EXCEPT ![c] = attempt[c]]
      /\ charged' = [charged EXCEPT ![c] = charged[c]]
  BY <1>1, CallFacts DEF PoolIInv
<1>3. call[c].retries + 1 \in 0 .. MaxStreamRetries
  BY <1>1, <1>2, PoolAssumption DEF CallRecord
<1>4. x \in CallRecord /\ x.at = "select"
  BY <1>3 DEF CallRecord, NoCall
<1> HIDE DEF x
<1>5. CallOK(x, attempt[c], charged[c])
  BY <1>4 DEF CallOK, IsReported
<1>6. CallsInv'
  BY <1>1, <1>2, <1>4, <1>5, CallChanges DEF PoolIInv
<1>7. CircuitsInv'
  BY <1>1, DropsStreamKeeps DEF PoolIInv
<1> QED BY <1>1, <1>6, <1>7 DEF PoolIInv, SharedInv

LEMMA EndsBrokenKeeps ==
    ASSUME PoolIInv, NEW c \in Call, EndsBroken(c)
    PROVE  PoolIInv'
<1>1. /\ call[c].at = "dropping" /\ DropsStream(c) /\ Ends(c)
      /\ UNCHANGED <<quarantined, session>>
  BY DEF EndsBroken, At
<1>2. CallsInv' /\ call' = [call EXCEPT ![c] = NoCall]
  BY <1>1, CallEnds DEF PoolIInv
<1>3. CircuitsInv'
  BY <1>1, <1>2, DropsStreamKeeps DEF PoolIInv
<1> QED BY <1>1, <1>2, <1>3 DEF PoolIInv, SharedInv

LEMMA IsCancelledKeeps ==
    ASSUME PoolIInv, NEW c \in Call, IsCancelled(c) \/ IsAborted(c)
    PROVE  PoolIInv'
<1>1. /\ call[c].at \in {"streaming", "opening"} /\ Ends(c)
      /\ Abandons(c) \/ LeavesUnrecorded(c, call[c].on)
      /\ UNCHANGED <<quarantined, session>>
  BY DEF IsCancelled, IsAborted, At, On
<1>2. call[c].on \in Member
  BY <1>1, CallFacts DEF PoolIInv, CallOK
<1>3. CallsInv' /\ call' = [call EXCEPT ![c] = NoCall]
  BY <1>1, CallEnds DEF PoolIInv
<1>4. CircuitsInv'
  <2>1. CASE Abandons(c)
    BY <2>1, <1>2, <1>3, AbandonsKeeps DEF PoolIInv
  <2>2. CASE LeavesUnrecorded(c, call[c].on)
    BY <2>2, <1>2, <1>3, ProbeLeaves DEF PoolIInv
  <2> QED BY <1>1, <2>1, <2>2
<1> QED BY <1>1, <1>3, <1>4 DEF PoolIInv, SharedInv

LEMMA CooldownPassesKeeps ==
    ASSUME PoolIInv, NEW m \in Member, CooldownPasses(m)
    PROVE  PoolIInv'
<1> DEFINE b == [circuit[m] EXCEPT !.cooled = TRUE]
<1>1. /\ circuit' = [circuit EXCEPT ![m] = b]
      /\ UNCHANGED <<quarantined, session, attempt, call, probing, unresolved, charged>>
  BY DEF CooldownPasses
<1>2. circuit[m] \in Circuit
  BY DEF PoolIInv, CircuitsInv
<1>3. b \in Circuit /\ b.status = circuit[m].status /\ b.probes = circuit[m].probes
  BY <1>2 DEF Circuit
<1> HIDE DEF b
<1>4. circuit' \in [Member -> Circuit]
  BY <1>1, <1>3 DEF PoolIInv, CircuitsInv
<1>5. ASSUME NEW n \in Member
      PROVE  ProbesOK(n)'
  <2>1. ProbesOK(n) /\ circuit'[n].status = circuit[n].status
        /\ circuit'[n].probes = circuit[n].probes
    BY <1>1, <1>3 DEF PoolIInv, CircuitsInv
  <2> QED BY <2>1, <1>1 DEF ProbesOK
<1> QED BY <1>1, <1>4, <1>5 DEF PoolIInv, CallsInv, CircuitsInv, SharedInv

LEMMA PoolStepOK == PoolIInv /\ [PoolNext]_poolVars => PoolIInv'
<1> SUFFICES ASSUME PoolIInv, [PoolNext]_poolVars
             PROVE  PoolIInv'
  OBVIOUS
<1>1. CASE UNCHANGED poolVars
  BY <1>1 DEF poolVars, PoolIInv, CallsInv, CircuitsInv, SharedInv, ProbesOK
<1>2. ASSUME NEW c \in Call,
             \/ Selects(c) \/ IsLetIn(c) \/ IsTurnedAway(c) \/ Answers(c)
             \/ Moves(c) \/ StreamOpens(c) \/ StreamDrains(c) \/ StreamStalls(c)
             \/ MovesSession(c) \/ LoopReports(c) \/ OpensAnother(c) \/ EndsBroken(c)
             \/ IsCancelled(c) \/ IsAborted(c)
      PROVE  PoolIInv'
  BY <1>2, SelectsKeeps, IsLetInKeeps, IsTurnedAwayKeeps, AnswersKeeps, MovesKeeps,
     StreamOpensKeeps, StreamDrainsKeeps, StreamStallsKeeps, MovesSessionKeeps,
     LoopReportsKeeps, OpensAnotherKeeps, EndsBrokenKeeps, IsCancelledKeeps
<1>3. ASSUME NEW c \in Call, NEW e \in Error, OpenFails(c, e) \/ StreamBreaks(c, e)
      PROVE  PoolIInv'
  BY <1>3, OpenFailsKeeps, StreamBreaksKeeps
<1> QED BY <1>1, <1>2, <1>3, CooldownPassesKeeps DEF PoolNext

THEOREM PoolInvariant == PoolSpec => []PoolIInv
BY PoolInitOK, PoolStepOK, PTL DEF PoolSpec

\* Types: among others, a session never stands with more switches than
\* max_switches_per_session, and no circuit counts more probes than half_open_max.
THEOREM PoolTypeHolds == PoolSpec => []PoolTypeOK
<1>1. PoolIInv => PoolTypeOK
  BY DEF PoolIInv, PoolTypeOK, CallsInv, CircuitsInv, SharedInv, CallRecord, AttemptRecord,
     SessionRecord
<1> QED BY <1>1, PoolInvariant, PTL

\* A half-open member is never left without a call that will close it or open
\* it again, but by an end of a call that tells the breaker nothing, and it lets
\* in half_open_max calls at most, whatever other sessions and executors do to
\* the shared breaker in between.
THEOREM HalfOpenIsProbedHolds == PoolSpec => []HalfOpenIsProbed
<1>1. PoolIInv => HalfOpenIsProbed
  <2> SUFFICES ASSUME PoolIInv, NEW m \in Member, circuit[m].status = "HalfOpen"
               PROVE  /\ Probes(m) # {} \/ m \in unresolved
                      /\ Cardinality(probing[m]) <= HalfOpenMax
    BY DEF HalfOpenIsProbed
  <2>1. ProbesOK(m) /\ circuit[m] \in Circuit
    BY DEF PoolIInv, CircuitsInv
  <2>2. PICK c \in probing[m] : m \in unresolved \/ IsProbing(call[c], m)
    BY <2>1 DEF ProbesOK
  <2>3. IsProbing(call[c], m) => c \in Probes(m)
    BY <2>2 DEF IsProbing, Probes, On
  <2>4. Cardinality(probing[m]) \in Nat
    BY <2>1, FS_CardinalityType DEF ProbesOK
  <2>5. circuit[m].probes \in 0 .. HalfOpenMax /\ Cardinality(probing[m]) <= circuit[m].probes
    BY <2>1 DEF ProbesOK, Circuit
  <2>6. Cardinality(probing[m]) <= HalfOpenMax
    BY <2>4, <2>5, PoolAssumption
  <2> QED BY <2>2, <2>3, <2>6
<1> QED BY <1>1, PoolInvariant, PTL

\* The stream itself and the loop runner may both see a failure, in either
\* order: the member is charged with it once, and it is the member that opened
\* the stream.
THEOREM FailureIsChargedOnceHolds == PoolSpec => []FailureIsChargedOnce
<1>1. PoolIInv => FailureIsChargedOnce
  BY DEF PoolIInv, CallsInv, CallOK, IsReported, FailureIsChargedOnce, At, On
<1> QED BY <1>1, PoolInvariant, PTL

=============================================================================
