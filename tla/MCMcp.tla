------------------------------- MODULE MCMcp --------------------------------
(* Mcp for TLC: one call of any tool beside Run, its Shutdown and two peers. *)
EXTENDS Mcp
=============================================================================
