---------------------------- MODULE MCModeration ----------------------------
(* Instances of Moderation for TLC. *)
EXTENDS Moderation

ModerationBounds ==
    [k \in Kinds |-> CASE k = "click" -> 2 [] k = "admin" -> 1 [] k = "db" -> 0
                       [] k = "rest" -> 1 [] k = "response" -> 1
                       [] k = "crash" -> 1]

=============================================================================
