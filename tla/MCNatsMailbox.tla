--------------------------- MODULE MCNatsMailbox ---------------------------
(* Two dispatches with one dedupe key, and calls that are interchangeable. *)
EXTENDS NatsMailbox, TLC

CONSTANTS d1, d2, p1, p2, p3

CallSymmetry == Permutations(Call) \cup Permutations(Dispatch)
=============================================================================
