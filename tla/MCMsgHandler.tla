---------------------------- MODULE MCMsgHandler ----------------------------
(* MsgHandler for TLC: connections 1 and 3 share a worker of a pool of two. *)
EXTENDS MsgHandler
=============================================================================
