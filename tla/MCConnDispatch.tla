--------------------------- MODULE MCConnDispatch ---------------------------
(* ConnDispatch for TLC: one worker, 0, which sends and is one of the     *)
(* stoppers.                                                               *)
EXTENDS ConnDispatch

CONSTANT p1
MCStoppers == {0, p1}
=============================================================================
