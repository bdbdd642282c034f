----------------------------- MODULE MCThreadWal -----------------------------
(***************************************************************************)
(* Two or three checkpoints of one thread, of one or two runs.             *)
(***************************************************************************)
EXTENDS ThreadWal, TLC

CONSTANTS c1, c2, c3, x1, r1, r2, f1, f2

TwoCalls == {c1, c2}
ThreeCalls == {c1, c2, c3}
OneDeletion == {x1}
TwoFlushers == {f1, f2}
Symmetric == Permutations(TwoFlushers)
\* A deletion whose claim lapses while it puts its tombstone is left out.
UnlessTombstone == CheckpointSteps \cup {"draining", "deleted"}
Runs == {r1, r2}
RunPerCall == [c \in TwoCalls |-> IF c = c1 THEN r1 ELSE r2]
OneRun == [c \in TwoCalls |-> r1]
FirstRunTwice == [c \in ThreeCalls |-> IF c = c3 THEN r2 ELSE r1]
=============================================================================
