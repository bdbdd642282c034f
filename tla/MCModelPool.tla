---------------------------- MODULE MCModelPool ----------------------------
(* The stream of a run and the summary of its context, by one executor; other *)
(* definitions share a session, or only the breaker, between two streams.    *)
EXTENDS ModelPool, TLC

CONSTANTS m1, m2, c1, c2, p1, x1, x2

OwnSession == [c \in Call |-> c]
OneSession == [c \in Call |-> CHOOSE s \in Session : TRUE]
OnePool == [c \in Call |-> x1]
TwoPools == [c \in Call |-> IF c = c1 THEN x1 ELSE x2]
FirstIsBest == [s \in Session |-> [m \in Member |-> IF m = m1 THEN 1 ELSE 0]]
=============================================================================
