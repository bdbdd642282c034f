----------------------------- MODULE ModelPool -----------------------------
(***************************************************************************)
(* A model pool (remo-runtime/src/engine): several models behind the       *)
(* interface of one.  Inferences of many runs go through PoolExecutors,    *)
(* which pin each session to a member and share, per pool, one circuit     *)
(* breaker for the life of the process.  A member that has failed often    *)
(* enough is left alone for a while and then probed by a limited number of *)
(* calls; every end of a call has to be told to the breaker, by the return *)
(* of the open, by the stream itself, by the loop runner that sees it      *)
(* stall, or by its drop.                                                  *)
(*                                                                         *)
(* Every lock that is taken apart is a step of its own, except where the   *)
(* steps commute; the health of all members is read at one instant.  The   *)
(* switch policy is the default one (every trigger on), the scores of the  *)
(* routing hash are a constant, and a run has one stream at a time, as the *)
(* loop runner has, so that the counts of live streams are left out.  The  *)
(* retries of RetryingExecutor are part of one answer of a provider.       *)
(***************************************************************************)
EXTENDS Naturals, FiniteSets, Sequences

CONSTANTS
    Member,            \* models of the pool
    Homes,             \* those of the role Member: the others are for failover
    None,              \* no member
    Call,              \* runs, each with one inference at a time
    Plain,             \* those that do not stream: the context summarizer
    Session, SessionOf,
    Pool, PoolOf,      \* PoolExecutors, and the one of each call
    Score,             \* of a session for a member: the rendezvous hash
    Threshold,         \* failure_threshold
    HalfOpenMax,       \* half_open_max
    MaxSwitches,       \* max_switches_per_session
    MaxStreamRetries   \* max_stream_retries

ASSUME PoolAssumption ==
    /\ IsFiniteSet(Member) /\ None \notin Member
    /\ Homes \subseteq Member /\ Homes # {}
    /\ IsFiniteSet(Call) /\ Plain \subseteq Call
    /\ SessionOf \in [Call -> Session] /\ PoolOf \in [Call -> Pool]
    /\ Score \in [Session -> [Member -> Nat]]
    /\ Threshold \in Nat \ {0} /\ HalfOpenMax \in Nat \ {0}
    /\ MaxSwitches \in Nat /\ MaxStreamRetries \in Nat

VARIABLES
    circuit,       \* CircuitBreaker.states
    quarantined,   \* permanent_quarantine of each executor
    session,       \* PoolSessionState of each session
    attempt,       \* PoolStreamAttemptState of the current inference of a call
    call,          \* where each call is
    probing,       \* history: calls that were let in by the present half-open state
    unresolved,    \* history: members a probe of which ended without a record
    charged        \* history: members charged for the present stream of a call

poolVars == <<circuit, quarantined, session, attempt, call, probing, unresolved, charged>>

----------------------------------------------------------------------------
(* Errors, by what the pool tells apart. *)

Error == {"Transient", "Quota", "Permanent", "Request"}

\* counts_toward_circuit_breaker, which is is_retryable
Counts(e) == e \in {"Transient", "Quota"}

ShouldSwitchOnError(e) == e \in {"Quota", "Permanent"}

\* classify_mid_stream: the loop runner opens another stream
Recoverable(e) == e \in {"Transient", "Quota"}

----------------------------------------------------------------------------
(* The circuit of a member.  `cooled` tells that the cooldown has passed    *)
(* since its last failure.                                                  *)

Circuit == [status : {"Closed", "Open", "HalfOpen"}, failures : 0 .. Threshold,
            probes : 0 .. HalfOpenMax, cooled : BOOLEAN]

NewCircuit == [status |-> "Closed", failures |-> 0, probes |-> 0, cooled |-> FALSE]

\* is_available; check admits a call under the same condition.
IsAvailable(b) ==
    \/ b.status = "Closed"
    \/ b.status = "Open" /\ b.cooled
    \/ b.status = "HalfOpen" /\ b.probes < HalfOpenMax

\* check, of a circuit that admits the call
Checked(b) ==
    CASE b.status = "Closed" -> b
      [] b.status = "Open" -> [b EXCEPT !.status = "HalfOpen", !.probes = 1]
      [] b.status = "HalfOpen" -> [b EXCEPT !.probes = @ + 1]

RecordSuccess(b) == [b EXCEPT !.status = "Closed", !.failures = 0, !.probes = 0]

\* Failures above the threshold make no difference.
RecordFailure(b) ==
    [b EXCEPT !.failures = IF @ < Threshold THEN @ + 1 ELSE @,
              !.status = IF @ = "HalfOpen" \/ b.failures + 1 >= Threshold
                         THEN "Open" ELSE @,
              !.cooled = FALSE]

\* Mutant: a dropped stream tells the breaker nothing.
AbandonsNothing(b) == b

RecordAbandonedProbe(b) ==
    IF b.status = "HalfOpen"
    THEN [b EXCEPT !.status = "Open", !.probes = 0, !.cooled = FALSE]
    ELSE b

\* The circuit of m becomes b.
PutCircuit(m, b) ==
    /\ circuit' = [circuit EXCEPT ![m] = b]
    /\ IF b.status = "HalfOpen"
       THEN UNCHANGED <<probing, unresolved>>
       ELSE /\ probing' = [probing EXCEPT ![m] = {}]
            /\ unresolved' = unresolved \ {m}

KeepCircuits == UNCHANGED <<circuit, probing, unresolved>>

\* c leaves m and tells the breaker nothing.
LeavesUnrecorded(c, m) ==
    /\ unresolved' = IF c \in probing[m] THEN unresolved \cup {m} ELSE unresolved
    /\ UNCHANGED <<circuit, probing>>

----------------------------------------------------------------------------
(* The router and the sticky sessions. *)

NoSession == [active |-> None, switches |-> 0]

Healthy(x) == {m \in Member : m \notin quarantined[x] /\ IsAvailable(circuit[m])}

BestOf(s, ms) == CHOOSE m \in ms : \A n \in ms : Score[s][n] <= Score[s][m]

\* select_home_with_sequence
Home(s, healthy) == BestOf(s, IF Homes \cap healthy # {} THEN Homes \cap healthy ELSE Homes)

SwitchedTo(r, m) == [active |-> m, switches |-> r.switches + 1]

\* select_active: the session as it is afterwards
SelectActive(s, r, healthy) ==
    LET others == healthy \ {r.active}
    IN  IF r.active = None THEN [r EXCEPT !.active = Home(s, healthy)]
        ELSE IF /\ r.active \notin healthy
                /\ r.switches < MaxSwitches
                /\ others # {}
             THEN SwitchedTo(r, BestOf(s, others))
             ELSE r

\* next_on_error and next_on_unavailable: the next member for a call that
\* leaves `current`, and the session afterwards.  Of two calls of a session
\* the later one follows the switch of the earlier.
NextMember(c, current, tried) ==
    LET s == SessionOf[c]
        r == session[s]
        mask == Healthy(PoolOf[c]) \ tried
        others == mask \ {current}
        Stays(m) == [to |-> m, session |-> r]
    IN  IF r.active # current
        THEN Stays(IF r.active \in mask THEN r.active ELSE None)
        ELSE IF r.switches < MaxSwitches /\ others # {}
             THEN [to |-> BestOf(s, others), session |-> SwitchedTo(r, BestOf(s, others))]
             ELSE Stays(None)

PutSession(c, r) == session' = [session EXCEPT ![SessionOf[c]] = r]

ResetSwitchBudget(c) == session' = [session EXCEPT ![SessionOf[c]].switches = 0]

----------------------------------------------------------------------------
(* Calls. *)

NoAttempt == [active |-> None, tried |-> {}, failed |-> FALSE]

NoCall == [at |-> "idle", on |-> None, tried |-> {}, error |-> "none", ended |-> FALSE,
           retries |-> 0]

At(c, at) == call[c].at = at
On(c) == call[c].on
CircuitOf(c) == circuit[On(c)]
Goes(c, at) == call' = [call EXCEPT ![c].at = at]

\* The inference of c is over; its record of attempts is found by nobody.
Ends(c) ==
    /\ call' = [call EXCEPT ![c] = NoCall]
    /\ attempt' = [attempt EXCEPT ![c] = NoAttempt]
    /\ charged' = [charged EXCEPT ![c] = <<>>]

\* c tries the member m next, or gives up.
Tries(c, m, tried) ==
    IF m = None THEN Ends(c)
    ELSE /\ call' = [call EXCEPT ![c].at = "check", ![c].on = m, ![c].tried = tried]
         /\ UNCHANGED <<attempt, charged>>

\* record_failure: c charges m with its error.
Quarantines(c, m, e) ==
    quarantined' = IF e = "Permanent"
                   THEN [quarantined EXCEPT ![PoolOf[c]] = @ \cup {m}]
                   ELSE quarantined

Charges(c, m, e) ==
    /\ Quarantines(c, m, e)
    /\ IF Counts(e) THEN PutCircuit(m, RecordFailure(circuit[m]))
       ELSE LeavesUnrecorded(c, m)

PoolInit ==
    /\ circuit = [m \in Member |-> NewCircuit]
    /\ quarantined = [x \in Pool |-> {}]
    /\ session = [s \in Session |-> NoSession]
    /\ attempt = [c \in Call |-> NoAttempt]
    /\ call = [c \in Call |-> NoCall]
    /\ probing = [m \in Member |-> {}]
    /\ unresolved = {}
    /\ charged = [c \in Call |-> <<>>]

\* An inference begins, with a logical id of its own, or opens its next
\* stream.  The summarizer has no routing key, so its session is a new one.
Selects(c) ==
    LET s == SessionOf[c]
        r == SelectActive(s, IF c \in Plain THEN NoSession ELSE session[s],
                          Healthy(PoolOf[c]))
    IN  /\ call[c].at \in {"idle", "select"}
        /\ PutSession(c, r)
        /\ call' = [call EXCEPT ![c].at = "check", ![c].on = r.active,
                                ![c].tried = attempt[c].tried]
        /\ KeepCircuits /\ UNCHANGED <<quarantined, attempt, charged>>

\* check_member
IsAdmitted(c) == On(c) \notin quarantined[PoolOf[c]] /\ IsAvailable(CircuitOf(c))

IsLetIn(c) ==
    LET m == On(c)
        b == Checked(circuit[m])
    IN  /\ At(c, "check") /\ IsAdmitted(c)
        /\ call' = [call EXCEPT ![c].at = "opening", ![c].tried = @ \cup {m}]
        /\ circuit' = [circuit EXCEPT ![m] = b]
        /\ probing' = IF b.status = "HalfOpen" THEN [probing EXCEPT ![m] = @ \cup {c}]
                      ELSE probing
        /\ UNCHANGED <<unresolved, quarantined, session, attempt, charged>>

IsTurnedAway(c) ==
    LET tried == call[c].tried \cup {On(c)}
        next == NextMember(c, On(c), tried)
    IN  /\ At(c, "check") /\ ~IsAdmitted(c)
        /\ PutSession(c, next.session)
        /\ Tries(c, next.to, tried)
        /\ KeepCircuits /\ UNCHANGED quarantined

\* execute returns the answer of the member.
Answers(c) ==
    /\ At(c, "opening") /\ c \in Plain
    /\ PutCircuit(On(c), RecordSuccess(CircuitOf(c)))
    /\ ResetSwitchBudget(c)
    /\ Ends(c)
    /\ UNCHANGED quarantined

\* execute or execute_stream of the member returns an error.
OpenFails(c, e) ==
    /\ At(c, "opening")
    /\ Charges(c, On(c), e)
    /\ call' = [call EXCEPT ![c].at = "refused", ![c].error = e]
    /\ attempt' = IF c \in Plain THEN attempt
                  ELSE [attempt EXCEPT ![c] = [active |-> On(c), failed |-> TRUE,
                                               tried |-> @.tried \cup {On(c)}]]
    /\ UNCHANGED <<session, charged>>

\* next_on_error, after which a stream knows of all its earlier attempts
Moves(c) ==
    LET next == NextMember(c, On(c), call[c].tried) IN
    /\ At(c, "refused")
    /\ IF ShouldSwitchOnError(call[c].error)
       THEN /\ PutSession(c, next.session)
            /\ Tries(c, next.to, call[c].tried \cup attempt[c].tried)
       ELSE UNCHANGED session /\ Ends(c)
    /\ KeepCircuits /\ UNCHANGED quarantined

\* mark_stream_active
StreamOpens(c) ==
    /\ At(c, "opening") /\ c \notin Plain
    /\ call' = [call EXCEPT ![c].at = "streaming", ![c].error = "none", ![c].ended = FALSE]
    /\ attempt' = [attempt EXCEPT ![c] = [active |-> On(c), failed |-> FALSE,
                                          tried |-> @.tried \cup {On(c)}]]
    /\ charged' = [charged EXCEPT ![c] = <<>>]
    /\ KeepCircuits /\ UNCHANGED <<quarantined, session>>

\* The present stream is the one its inference knows of.
IsCurrent(c) == attempt[c].active = On(c)

\* record_stream_attempt_success: the stream is read to its end.
StreamDrains(c) ==
    /\ At(c, "streaming")
    /\ IF IsCurrent(c)
       THEN PutCircuit(On(c), RecordSuccess(CircuitOf(c))) /\ ResetSwitchBudget(c)
       ELSE LeavesUnrecorded(c, On(c)) /\ UNCHANGED session
    /\ Ends(c)
    /\ UNCHANGED quarantined

\* Mutant: a failure is counted by everybody who reports it.
IsAnyReport(c, m) == attempt[c].active = m /\ m # None

\* record_stream_attempt_failure_once: the first report of a failure of the
\* stream that m opened is charged to m.
IsFirstReport(c, m) == attempt[c].active = m /\ m # None /\ ~attempt[c].failed

ReportsFailure(c, m, e) ==
    IF IsFirstReport(c, m)
    THEN /\ Charges(c, m, e)
         /\ attempt' = [attempt EXCEPT ![c].failed = TRUE]
         /\ charged' = [charged EXCEPT ![c] = IF Counts(e) THEN Append(@, m) ELSE @]
    ELSE KeepCircuits /\ UNCHANGED <<quarantined, attempt, charged>>

\* The stream yields an error, and is done.
StreamBreaks(c, e) ==
    /\ At(c, "streaming")
    /\ ReportsFailure(c, On(c), e)
    /\ call' = [call EXCEPT ![c].at = "broken", ![c].error = e, ![c].ended = TRUE]
    /\ UNCHANGED session

\* The loop runner has waited for too long.
StreamStalls(c) ==
    /\ At(c, "streaming")
    /\ call' = [call EXCEPT ![c].at = "reporting", ![c].error = "Transient"]
    /\ KeepCircuits /\ UNCHANGED <<quarantined, session, attempt, charged>>

\* record_stream_attempt_failure: the session leaves a member that it should
\* not or cannot use.
MovesSession(c) ==
    LET m == On(c)
        next == NextMember(c, m, attempt[c].tried)
    IN  /\ call[c].at \in {"broken", "reported"}
        /\ IF ShouldSwitchOnError(call[c].error) \/ ~IsAvailable(circuit[m])
           THEN PutSession(c, next.session) ELSE UNCHANGED session
        /\ Goes(c, IF At(c, "broken") THEN "reporting" ELSE "dropping")
        /\ KeepCircuits /\ UNCHANGED <<quarantined, attempt, charged>>

\* record_stream_failure, which the loop runner calls for either failure
LoopReports(c) ==
    LET m == attempt[c].active IN
    /\ At(c, "reporting")
    /\ ReportsFailure(c, m, call[c].error)
    /\ Goes(c, IF IsFirstReport(c, m) THEN "reported" ELSE "dropping")
    /\ UNCHANGED session

\* record_stream_attempt_abandoned
Abandons(c) ==
    IF IsCurrent(c) THEN PutCircuit(On(c), RecordAbandonedProbe(CircuitOf(c)))
    ELSE LeavesUnrecorded(c, On(c))

\* The loop runner returns with the stream: PoolObservedStream::drop.
DropsStream(c) == IF call[c].ended THEN KeepCircuits ELSE Abandons(c)

OpensAnother(c) ==
    /\ At(c, "dropping")
    /\ Recoverable(call[c].error) /\ call[c].retries < MaxStreamRetries
    /\ DropsStream(c)
    /\ call' = [call EXCEPT ![c] = [NoCall EXCEPT !.at = "select",
                                                  !.retries = call[c].retries + 1]]
    /\ UNCHANGED <<quarantined, session, attempt, charged>>

\* The error is final, or the part that came is enough (SynthesizeToolUse).
EndsBroken(c) ==
    /\ At(c, "dropping")
    /\ DropsStream(c)
    /\ Ends(c)
    /\ UNCHANGED <<quarantined, session>>

\* The run is cancelled while it reads, or its task aborted.
IsCancelled(c) ==
    /\ At(c, "streaming")
    /\ Abandons(c)
    /\ Ends(c)
    /\ UNCHANGED <<quarantined, session>>

\* The task of the run is aborted while the member has not answered.
IsAborted(c) ==
    /\ At(c, "opening")
    /\ LeavesUnrecorded(c, On(c))
    /\ Ends(c)
    /\ UNCHANGED <<quarantined, session>>

CooldownPasses(m) ==
    /\ circuit[m].status = "Open" /\ ~circuit[m].cooled
    /\ circuit' = [circuit EXCEPT ![m].cooled = TRUE]
    /\ UNCHANGED <<quarantined, session, attempt, call, probing, unresolved, charged>>

PoolNext ==
    \/ \E c \in Call :
        \/ Selects(c) \/ IsLetIn(c) \/ IsTurnedAway(c) \/ Answers(c)
        \/ Moves(c) \/ StreamOpens(c) \/ StreamDrains(c) \/ StreamStalls(c)
        \/ MovesSession(c) \/ LoopReports(c) \/ OpensAnother(c) \/ EndsBroken(c)
        \/ IsCancelled(c) \/ IsAborted(c)
        \/ \E e \in Error : OpenFails(c, e) \/ StreamBreaks(c, e)
    \/ \E m \in Member : CooldownPasses(m)

PoolSpec == PoolInit /\ [][PoolNext]_poolVars

----------------------------------------------------------------------------
(* Properties. *)

PoolTypeOK ==
    /\ circuit \in [Member -> Circuit]
    /\ quarantined \in [Pool -> SUBSET Member]
    /\ session \in [Session -> [active : Member \cup {None}, switches : 0 .. MaxSwitches]]
    /\ attempt \in [Call -> [active : Member \cup {None}, tried : SUBSET Member,
                             failed : BOOLEAN]]
    /\ call \in [Call -> [at : {"idle", "select", "check", "opening", "refused", "streaming",
                                "broken", "reporting", "reported", "dropping"},
                          on : Member \cup {None}, tried : SUBSET Member,
                          error : Error \cup {"none"}, ended : BOOLEAN,
                          retries : 0 .. MaxStreamRetries]]
    /\ probing \in [Member -> SUBSET Call]
    /\ unresolved \subseteq Member
    /\ \A c \in Call : charged[c] = <<>> \/ charged[c] \in Seq(Member)

\* Calls of the present half-open period of m that have not ended.
Probes(m) ==
    {c \in probing[m] : On(c) = m /\ call[c].at \in {"opening", "streaming", "reporting"}}

\* While a member is half-open, one of the calls that it let in is still
\* there to close it or to open it again, unless that call ended with an
\* error that does not count, or with its task, before it had a stream.  No
\* more calls are let in than half_open_max.
HalfOpenIsProbed ==
    \A m \in Member :
        circuit[m].status = "HalfOpen" =>
            /\ Probes(m) # {} \/ m \in unresolved
            /\ Cardinality(probing[m]) <= HalfOpenMax

\* A stream that failed is charged to the member that opened it, once,
\* whoever saw the failure first.
FailureIsChargedOnce ==
    \A c \in Call :
        At(c, "dropping") /\ Counts(call[c].error) => charged[c] = <<On(c)>>

\* Every probe resolves: "a consumed probe must resolve"
\* (circuit_breaker.rs:167).
ProbeResolves == \A m \in Member : circuit[m].status = "HalfOpen" => Probes(m) # {}

\* An inference opens its next stream on the member of its last one, or on
\* one that it has not tried.
NoMemberIsRevisited ==
    \A c \in Call :
        At(c, "opening") /\ On(c) \in attempt[c].tried => On(c) = attempt[c].active
=============================================================================
