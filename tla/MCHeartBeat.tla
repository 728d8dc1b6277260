---------------------------- MODULE MCHeartBeat -----------------------------
(* HeartBeat for TLC: the default call, an option that sets everything, and *)
(* one that only brings handlers, made by two goroutines beside two         *)
(* connections.                                                             *)
EXTENDS HeartBeat, TLC

CONSTANTS u1, u2, c1, c2

MCFetchers == {u1, u2, c1, c2}

Symmetry == Permutations(Setters) \cup Permutations(Conns)

MCArguments ==
    {[interval |-> 0, option |-> {}],
     [interval |-> 1, option |-> {[makeMsg |-> "custom", onRemoteNotAlive |-> "custom",
                                   timeout |-> 2, msgID |-> 7, routerSlices |-> {"h"}]}],
     [interval |-> 2, option |-> {[makeMsg |-> "nil", onRemoteNotAlive |-> "nil",
                                   timeout |-> 0, msgID |-> 0, routerSlices |-> {"h"}]}]}
=============================================================================
