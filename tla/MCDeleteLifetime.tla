-------------------------- MODULE MCDeleteLifetime --------------------------
(* Instances of DeleteLifetime for TLC. *)
EXTENDS DeleteLifetime, TLC

LifetimeBounds ==
    [k \in Kinds |-> CASE k = "click" -> 3 [] k = "admin" -> 1 [] k = "db" -> 0
                       [] k = "rest" -> 1 [] k = "response" -> 1
                       [] k = "crash" -> 0]

ChannelSymmetry == Permutations(Channels)

=============================================================================
