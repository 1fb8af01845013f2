--------------------------- MODULE MCConnections ---------------------------
(* Instances of Connections for TLC. *)
EXTENDS Connections

ConnectionBounds ==
    [k \in Kinds |-> CASE k = "click" -> 5 [] k = "admin" -> 0 [] k = "db" -> 1
                       [] k = "rest" -> 1 [] k = "response" -> 0
                       [] k = "crash" -> 1]

=============================================================================
