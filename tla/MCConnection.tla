---------------------------- MODULE MCConnection ----------------------------
(* Connection for TLC: one goroutine each in Start and in Stop and several  *)
(* in SendMsg, next to the reader, the writer and the heartbeat, all of      *)
(* which may stop the connection too.  The senders only differ in their      *)
(* names, so the safety run takes them up to a permutation.                  *)
EXTENDS Connection, TLC

Symmetry == Permutations(Senders)
=============================================================================
