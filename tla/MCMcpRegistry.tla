--------------------------- MODULE MCMcpRegistry ---------------------------
(* McpRegistry with the constants of MCMcpRegistry.cfg. *)
EXTENDS McpRegistry
=============================================================================
