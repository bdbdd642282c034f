-------------------------- MODULE MCEventPipeline --------------------------
(* The events of a thread's runs, with two relays. *)
EXTENDS EventPipeline

CONSTANTS r1, r2

\* A run that is suspended and resumed needs five events; with faults, fewer do.
MCRoom == 0 :> 5 @@ 1 :> 3 @@ 2 :> 2
=============================================================================
