--------------------------- MODULE MCTaskLifecycle --------------------------
(* Instances of TaskLifecycle for TLC. *)
EXTENDS TaskLifecycle, TLC

\* One bound per kind of environment event; the configurations pick one.
Bounds(click, admin, db, rest, response, crash) ==
    [k \in Kinds |-> CASE k = "click"    -> click
                       [] k = "admin"    -> admin
                       [] k = "db"       -> db
                       [] k = "rest"     -> rest
                       [] k = "response" -> response
                       [] k = "crash"    -> crash]

FaultyBounds    == Bounds(6, 1, 1, 1, 1, 1)
TwoTaskBounds   == Bounds(5, 1, 1, 0, 0, 0)
ReopenBounds    == Bounds(4, 0, 0, 0, 0, 0)
HalfOpenBounds  == Bounds(4, 0, 1, 0, 0, 0)
LivenessBounds  == Bounds(5, 1, 0, 0, 0, 0)

Symmetry == Permutations(Users) \cup Permutations(Channels)

=============================================================================
