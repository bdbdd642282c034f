-------------------------- MODULE MCBackgroundTasks --------------------------
(* The runs of one thread with two or three tasks. *)
EXTENDS BackgroundTasks
=============================================================================
