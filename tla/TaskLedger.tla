------------------------------ MODULE TaskLedger -----------------------------
(***************************************************************************)
(* What the bot promises about a task, without threads, queues, tables or  *)
(* messages: a ledger with one entry for every channel that was ever asked *)
(* for.  An entry is none before the channel exists, created until the bot *)
(* has written it down, then open or closed, and forgotten for ever after. *)
(* TaskLifecycle implements this under every failure it models.            *)
(***************************************************************************)
CONSTANTS Channels, Users, NoUser

VARIABLES
    alive,    \* the channels that exist in the guild
    status,   \* per channel, what the ledger says of it
    asker,    \* per channel, the member who asked for it
    creator   \* per channel, the member the ledger names; NoUser: it does not know

ledger == <<alive, status, asker, creator>>

Init ==
    /\ alive = {}
    /\ status = [c \in Channels |-> "none"]
    /\ asker = [c \in Channels |-> NoUser]
    /\ creator = [c \in Channels |-> NoUser]

\* The entry of c says s from now on, and names the member who asked for the
\* channel or nobody.
Enter(c, s) ==
    /\ status' = [status EXCEPT ![c] = s]
    /\ \E who \in {asker[c], NoUser} : creator' = [creator EXCEPT ![c] = who]
    /\ UNCHANGED <<alive, asker>>

\* The guild has a new channel; channels are never created a second time.
Create(c, u) ==
    /\ status[c] = "none"
    /\ alive' = alive \cup {c}
    /\ status' = [status EXCEPT ![c] = "created"]
    /\ asker' = [asker EXCEPT ![c] = u]
    /\ UNCHANGED creator

\* The guild has a new channel, and the bot does not get to know that it is the one it
\* has asked for.
CreateUnheard(c, u) ==
    /\ status[c] = "none"
    /\ alive' = alive \cup {c}
    /\ status' = [status EXCEPT ![c] = "forgotten"]
    /\ asker' = [asker EXCEPT ![c] = u]
    /\ UNCHANGED creator

\* A new task is written down for the member who asked for it.
Register(c) ==
    /\ status[c] = "created"
    /\ status' = [status EXCEPT ![c] = "open"]
    /\ creator' = [creator EXCEPT ![c] = asker[c]]
    /\ UNCHANGED <<alive, asker>>

\* The bot fails or dies before it has written these channels down.
Lose(cs) ==
    /\ \A c \in cs : status[c] = "created"
    /\ status' = [c \in Channels |-> IF c \in cs THEN "forgotten" ELSE status[c]]
    /\ UNCHANGED <<alive, asker, creator>>

Close(c) == status[c] = "open" /\ Enter(c, "closed")

Reopen(c) == status[c] = "closed" /\ Enter(c, "open")

\* The bot or a moderator deletes the channel.
Vanish(c) ==
    /\ c \in alive
    /\ alive' = alive \ {c}
    /\ UNCHANGED <<status, asker, creator>>

\* The bot may forget a task only after its channel.
Forget(c) ==
    /\ status[c] \in {"open", "closed"}
    /\ c \notin alive
    /\ status' = [status EXCEPT ![c] = "forgotten"]
    /\ creator' = [creator EXCEPT ![c] = NoUser]
    /\ UNCHANGED <<alive, asker>>

Next ==
    \/ \E c \in Channels :
          \/ \E u \in Users : Create(c, u) \/ CreateUnheard(c, u)
          \/ Register(c)
          \/ Close(c)
          \/ Reopen(c)
          \/ Vanish(c)
          \/ Forget(c)
    \/ \E cs \in SUBSET Channels : Lose(cs)

Spec == Init /\ [][Next]_ledger

=============================================================================
