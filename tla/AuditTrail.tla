----------------------------- MODULE AuditTrail -----------------------------
(***************************************************************************)
(* What the moderation commands promise, without threads, requests,        *)
(* callbacks and a cache: a guild's audit log and what is told to those    *)
(* who use the commands.  A command acts at most once, on somebody else,   *)
(* under its own reason and before its user was told anything; what the    *)
(* user is told is never taken back and agrees with the log - but for the  *)
(* commands that acted unheard, whose users are told that they failed.     *)
(* Moderation implements this under every failure it models.               *)
(***************************************************************************)
EXTENDS Sequences

CONSTANTS
    Ids,      \* the ids of the commands that are used, one after the other
    Command,  \* what a command says: among other things by whom it is, and whom it means
    Bot

VARIABLES
    command,  \* the commands used so far
    audit,    \* the audit log: which command acted, under whose reason
    unheard,  \* the commands that acted without the bot's getting to know of it
    told      \* per id, what its user was told in the end

trail == <<command, audit, unheard, told>>

Init ==
    /\ command = <<>>
    /\ audit = {} /\ unheard = {}
    /\ told = [i \in Ids |-> "nothing"]

Acted(i) == \E entry \in audit : entry[1] = i

Use ==
    /\ \E c \in Command : command' = Append(command, c)
    /\ UNCHANGED <<audit, unheard, told>>

Act(i) ==
    /\ i \in DOMAIN command
    /\ command[i].whom \notin {command[i].by, Bot}
    /\ ~Acted(i) /\ told[i] = "nothing"
    /\ audit' = audit \cup {<<i, i>>}
    /\ unheard' \in {unheard, unheard \cup {i}}
    /\ UNCHANGED <<command, told>>

Tell(i, text) ==
    /\ i \in DOMAIN command
    /\ told[i] = "nothing"
    /\ IF i \in unheard THEN text = "failed" ELSE text = "done" <=> Acted(i)
    /\ told' = [told EXCEPT ![i] = text]
    /\ UNCHANGED <<command, audit, unheard>>

Next ==
    \/ Use
    \/ \E i \in Ids :
          \/ Act(i)
          \/ \E text \in {"refused", "failed", "done"} : Tell(i, text)

Spec == Init /\ [][Next]_trail

=============================================================================
