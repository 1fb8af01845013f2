--------------------------- MODULE MCTaskNumbering --------------------------
(* Instances of TaskNumbering for TLC. *)
EXTENDS TaskNumbering

\* One bound per kind of environment event; the configurations pick one.
Bounds(click, admin, db, rest, response, crash) ==
    [k \in Kinds |-> CASE k = "click"    -> click
                       [] k = "admin"    -> admin
                       [] k = "db"       -> db
                       [] k = "rest"     -> rest
                       [] k = "response" -> response
                       [] k = "crash"    -> crash]

FaultyBounds   == Bounds(4, 3, 2, 1, 1, 1)
OpenFailBounds == Bounds(0, 2, 1, 0, 0, 0)
BusyBounds     == Bounds(2, 1, 1, 0, 0, 0)

=============================================================================
