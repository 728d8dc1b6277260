------------------------------ MODULE MCClient ------------------------------
(* Client for TLC: with two users, two sessions overlap in every way.      *)
EXTENDS Client
=============================================================================
