---------------------------- MODULE RunDispatch ----------------------------
(***************************************************************************)
(* The durable dispatch record of the mailbox and its transitions, one     *)
(* operator per transition method of `RunDispatch`                         *)
(* (remo-server-contract/src/contract/mailbox.rs).                         *)
(*                                                                         *)
(* Time is abstracted to what the code compares with `now`: whether        *)
(* `available_at <= now` (available) and whether `lease_until < now`       *)
(* (lease = "lapsed").  A claim token is a fresh UUID compared only with   *)
(* the token of the same record, so it is the ordinal of the claim of that *)
(* record; NoToken is `None`.  `claimed_by`, `updated_at` and the error    *)
(* text are left out.  The runtime projection (dispatch_instance_id,       *)
(* run_status, termination, response, error) is its run_status.            *)
(***************************************************************************)
EXTENDS Naturals

CONSTANT MaxAttempts    \* max_attempts of a dispatch (5 in production)

ASSUME MaxAttemptsAssumption == MaxAttempts \in Nat \ {0}

NoToken == 0

Terminal == {"Acked", "Cancelled", "Superseded", "DeadLetter"}
Active == {"Queued", "Claimed"}
Stored == Active \cup Terminal

\* "Absent": the id was never enqueued; "Purged": it was, and was vacuumed.
Status == Stored \cup {"Absent", "Purged"}

NoRun == "None"
RunStatus == {"Running", "Waiting", "Done"}

DispatchRecord ==
    [status : Status, epoch : Nat, available : BOOLEAN,
     attempts : 0..MaxAttempts, token : Nat, lease : {"none", "live", "lapsed"},
     run : RunStatus \cup {NoRun}, completed : BOOLEAN]

Blank(status) ==
    [status |-> status, epoch |-> 0, available |-> FALSE, attempts |-> 0,
     token |-> NoToken, lease |-> "none", run |-> NoRun, completed |-> FALSE]

(***************************************************************************)
(* validate_for_persist: what each status may carry.  The store's mark_*   *)
(* wrappers `expect` it after every transition, so a record that breaks it *)
(* is a panic.                                                             *)
(***************************************************************************)
ValidForPersist(r) ==
    /\ r.status = "Queued" =>
         /\ r.token = NoToken /\ r.lease = "none"
         /\ r.run = NoRun /\ ~r.completed
    /\ r.status = "Claimed" => r.token # NoToken /\ r.lease # "none"
    /\ r.status \in Terminal =>
         r.token = NoToken /\ r.lease = "none" /\ r.completed

ClearClaimFields(r) == [r EXCEPT !.token = NoToken, !.lease = "none"]
ClearRuntimeProjection(r) == [r EXCEPT !.run = NoRun]

-----------------------------------------------------------------------------
PrepareForEnqueue(epoch, available) ==
    [Blank("Queued") EXCEPT !.epoch = epoch, !.available = available]

ClaimedWith(r, token) ==
    [r EXCEPT !.status = "Claimed", !.token = token, !.lease = "live"]

LeaseExtended(r) == [r EXCEPT !.lease = "live"]

DispatchStarted(r) == [r EXCEPT !.run = "Running", !.completed = FALSE]

RunResultRecorded(r, result) == [r EXCEPT !.run = result, !.completed = TRUE]

MarkAcked(r) ==
    ClearClaimFields([r EXCEPT !.status = "Acked", !.completed = TRUE])

MarkCancelled(r) ==
    ClearClaimFields([r EXCEPT !.status = "Cancelled", !.completed = TRUE])

\* A supersede that kept the runtime projection and the claim of the record.
MarkSupersededKeepsClaim(r) ==
    [r EXCEPT !.status = "Superseded", !.completed = TRUE]

MarkSuperseded(r) ==
    ClearRuntimeProjection(ClearClaimFields(
        [r EXCEPT !.status = "Superseded", !.completed = TRUE]))

MarkSupersededAtEpoch(r, epoch) == MarkSuperseded([r EXCEPT !.epoch = epoch])

MarkDeadLetter(r) ==
    ClearClaimFields([r EXCEPT !.status = "DeadLetter", !.completed = TRUE])

MarkNackResult(r, available) ==
    LET failed == ClearClaimFields([r EXCEPT !.attempts = @ + 1])
    IN  IF failed.attempts >= MaxAttempts
        THEN [failed EXCEPT !.status = "DeadLetter", !.completed = TRUE]
        ELSE ClearRuntimeProjection(
                 [failed EXCEPT !.status = "Queued", !.available = available,
                                !.completed = FALSE])

\* An expired lease that never exhausts the attempts.
MarkExpiredForever(r) ==
    ClearRuntimeProjection(ClearClaimFields(
        [r EXCEPT !.status = "Queued", !.attempts = @ + 1, !.available = TRUE,
                  !.completed = FALSE]))

MarkExpiredLease(r) ==
    LET failed == ClearRuntimeProjection(ClearClaimFields(
                      [r EXCEPT !.attempts = @ + 1, !.available = TRUE]))
    IN  IF failed.attempts >= MaxAttempts
        THEN [failed EXCEPT !.status = "DeadLetter", !.completed = TRUE]
        ELSE [failed EXCEPT !.status = "Queued", !.completed = FALSE]
=============================================================================
