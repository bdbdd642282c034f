--------------------------- MODULE MCMailboxStore ---------------------------
(***************************************************************************)
(* Three dispatches of one thread, two of them with the same dedupe key.   *)
(***************************************************************************)
EXTENDS MailboxStore

CONSTANTS d1, d2, d3, t1

Three == {d1, d2, d3}
OneThread == {t1}
OnThread == [d \in Three |-> t1]
NewerFirst == [d \in Three |-> IF d = d1 THEN 1 ELSE 0]
KeyOfTwo == [d \in Three |-> IF d = d2 THEN NoKey ELSE "key"]
=============================================================================
