------------------------- MODULE CheckpointRegister -------------------------
(***************************************************************************)
(* What a thread store promises to the callers of `checkpoint`: one        *)
(* thread's snapshot is an atomic register.  A checkpoint is computed from *)
(* the snapshot it read (its basis) and replaces exactly that snapshot, so *)
(* no committed checkpoint is overwritten by one that has not seen it; a   *)
(* deletion empties the register.  ThreadWal implements it.                *)
(***************************************************************************)
EXTENDS Naturals

CONSTANTS Snapshot,     \* sequence numbers of checkpoints, positive
          Unread        \* the basis of a checkpoint that read nothing yet

VARIABLES value,        \* the committed snapshot, 0 when there is none
          basis         \* snapshot -> the value it was computed from

Init ==
    /\ value = 0
    /\ basis = [s \in Snapshot |-> Unread]

\* A checkpoint is given the next number and remembers what it has read.
Prepare(s) ==
    /\ basis[s] = Unread
    /\ \E b \in {0} \cup Snapshot :
          /\ b < s
          /\ basis' = [basis EXCEPT ![s] = b]
    /\ UNCHANGED value

Commit(s) ==
    /\ basis[s] = value
    /\ value < s
    /\ value' = s
    /\ UNCHANGED basis

Delete ==
    /\ value' = 0
    /\ UNCHANGED basis

Next == (\E s \in Snapshot : Prepare(s) \/ Commit(s)) \/ Delete

Spec == Init /\ [][Next]_<<value, basis>>
=============================================================================
