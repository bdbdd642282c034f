------------------------- MODULE MCPendingMessages -------------------------
(* A live request, a foreground request and a task's event. *)
EXTENDS PendingMessages, TLC

CONSTANTS l1, f1, e1, r0
=============================================================================
