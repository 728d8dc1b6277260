------------------------------ MODULE MCParts ------------------------------
(***************************************************************************)
(* Four parts that share no state for TLC, side by side: a behaviour uses   *)
(* one of them and leaves the others as they were created.                  *)
(*  - TLVPack: bits for bytes, so that a header field has four bits;        *)
(*  - RingBuffer: every payload of up to four bytes over two letters and    *)
(*    the newline, for a ring of three, so that one write can overrun it;   *)
(*  - Router: two ids, so that ranges overlap, nest and repeat;             *)
(*  - HeartBeat: as in MCHeartBeat.                                         *)
(***************************************************************************)
EXTENDS TLVPack, RingBuffer, Router, MCHeartBeat

VARIABLE part   \* the part of this behaviour

MCPayloads == UNION {[1..n -> {97, 98, Newline}] : n \in 0..4}

PartsInit ==
    /\ part \in {"codec", "ring", "router", "heartbeat"}
    /\ CodecInit /\ RingInit /\ RouterInit /\ Init
    /\ part # "heartbeat" =>
           host = "server" /\ \A u \in Setters : args[u].interval = 0

PartsNext ==
    /\ \/ part = "codec" /\ CodecNext /\ UNCHANGED <<ringVars, routerVars, vars>>
       \/ part = "ring" /\ RingNext /\ UNCHANGED <<codecVars, routerVars, vars>>
       \/ part = "router" /\ RouterNext /\ UNCHANGED <<codecVars, ringVars, vars>>
       \/ part = "heartbeat" /\ Next /\ UNCHANGED <<codecVars, ringVars, routerVars>>
    /\ UNCHANGED part

PartsSpec == PartsInit /\ [][PartsNext]_<<part, codecVars, ringVars, routerVars, vars>>
=============================================================================
