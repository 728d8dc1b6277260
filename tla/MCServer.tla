------------------------------ MODULE MCServer ------------------------------
(* Server for TLC: one connection fits, a second peer competes for it.     *)
EXTENDS Server
=============================================================================
