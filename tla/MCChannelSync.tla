--------------------------- MODULE MCChannelSync ---------------------------
(* Instances of ChannelSync for TLC. *)
EXTENDS ChannelSync

SyncBounds ==
    [k \in Kinds |-> CASE k = "click" -> 4 [] k = "admin" -> 1 [] k = "db" -> 1
                       [] k = "rest" -> 1 [] k = "response" -> 0
                       [] k = "crash" -> 1]

\* Both categories, the one for closed tasks only, and none.
SomeConfigs ==
    {[open_category_id |-> o, closed_category_id |-> c] :
        <<o, c>> \in {<<"open", "closed">>, <<"none", "closed">>, <<"none", "none">>}}

Renamed == {<<"bu", "g!">>}

=============================================================================
