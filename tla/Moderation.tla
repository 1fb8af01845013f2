----------------------------- MODULE Moderation -----------------------------
(***************************************************************************)
(* The commands /ban, /kick and /timeout.                                  *)
(*                                                                         *)
(* The three handlers differ only in the permission they ask for and in    *)
(* the request they make.  Each answers "thinking" at once, checks, leaves *)
(* the moderator's reason with D++, which adds it to the next REST call of *)
(* the same thread (dpp/cluster.h:276-291), makes the request, and answers *)
(* again, from the shard thread when a check fails and otherwise from the  *)
(* callback thread when the request has completed.                         *)
(*                                                                         *)
(* Interactions are numbered; a reason is named by the interaction that    *)
(* gave it.                                                                *)
(***************************************************************************)
EXTENDS Budget, Sequences

CONSTANTS
    Users,
    Moderators, \* those of them who use these commands
    Bot         \* the bot's own user

ASSUME BotAssumption == Bot \notin Users

ASSUME ModeratorsAssumption == Moderators \subseteq Users

Ids == 1..Limit["click"]

NoId == 0

Commands == {"ban", "kick", "timeout"}

\* What Discord sends: who uses which command on whom, and whether that is a member
\* of the guild, so that it is among the resolved members.
Command ==
    [name : Commands, by : Moderators, whom : Users \cup {Bot}, resolved : BOOLEAN]

Texts == {"refused", "failed", "done"}

Threads == {"shard", "callbacks"}

VARIABLES
    members,    \* the members of the guild
    known,      \* those in D++'s cache
    command,    \* per id in use, the command; as a sequence, ids being numbers
    answer,     \* per id, what its user sees: the last of "none", "thinking" and Texts
    lost,       \* ids with an answer that Discord did not take
    audit,      \* the guild's audit log: who was acted on under which reason
    unheard,    \* ids of those whose request took effect, but its response was lost
    gateway,    \* events on their way to the bot
    handling,   \* what the shard thread does
    reason,     \* per thread, the audit reason for its next REST call
    requests,   \* REST calls that were not carried out yet
    completions \* completions waiting for the callback thread

vars == <<spent, members, known, command, answer, lost, audit, unheard, gateway,
          handling, reason, requests, completions>>

Event ==
    [type : {"command"}, id : Ids]
        \cup [type : {"MEMBER_ADD", "MEMBER_REMOVE"}, user : Users]

Request ==
    [type : Commands \cup {"thinking"}, id : Ids, reason : Ids \cup {NoId}]
        \cup [type : {"followup"}, id : Ids, reason : Ids \cup {NoId}, text : Texts]

Completion == [id : Ids, is_error : BOOLEAN]

Idle == [at |-> "idle"]

At(step, i) == [at |-> step, id |-> i]

TypeOK ==
    /\ BudgetTypeOK
    /\ members \in SUBSET (Users \cup {Bot}) /\ known \in SUBSET (Users \cup {Bot})
    /\ command \in Seq(Command)
    /\ answer \in [Ids -> {"none", "thinking"} \cup Texts]
    /\ lost \in SUBSET Ids
    /\ audit \in SUBSET (Ids \X (Ids \cup {NoId})) /\ unheard \in SUBSET Ids
    /\ gateway \in Seq(Event)
    /\ handling \in {Idle} \cup {At(s, i) : s \in {"checks", "request"}, i \in DOMAIN command}
    /\ reason \in [Threads -> Ids \cup {NoId}]
    /\ requests \in SUBSET Request
    /\ completions \in Seq(Completion)

Init ==
    /\ BudgetInit
    /\ members = Users \cup {Bot} /\ known = members
    /\ command = <<>>
    /\ answer = [i \in Ids |-> "none"]
    /\ lost = {} /\ audit = {} /\ unheard = {}
    /\ gateway = <<>> /\ handling = Idle
    /\ reason = [t \in Threads |-> NoId]
    /\ requests = {} /\ completions = <<>>

guildVars == <<members, command, answer, lost, audit, unheard>>

-----------------------------------------------------------------------------
(* The shard thread and the callback thread. *)

\* A REST call takes the thread's audit reason with it, which is cleared.
Post(thread, request) ==
    /\ requests' = requests \cup {[request EXCEPT !.reason = reason[thread]]}
    /\ reason' = [reason EXCEPT ![thread] = NoId]

Call(type, i) == [type |-> type, id |-> i, reason |-> NoId]

Followup(i, text) == [type |-> "followup", id |-> i, reason |-> NoId, text |-> text]

Receive(type) ==
    /\ handling = Idle
    /\ gateway # <<>>
    /\ Head(gateway).type = type
    /\ gateway' = Tail(gateway)

\* event.thinking, which is a REST call as well.
Think(i) ==
    /\ command[i].resolved
    /\ Post("shard", Call("thinking", i))
    /\ handling' = At("checks", i)

\* The handler returns: user_id is not a member in the cache, or is the moderator or
\* the bot.  The guild and the channel may be missing from the cache, and the roles
\* may not permit the command, for any command.
Refuse ==
    \E i \in DOMAIN command :
        /\ handling = At("checks", i)
        /\ Post("shard", Followup(i, "refused"))
        /\ handling' = Idle
        /\ UNCHANGED <<spent, guildVars, known, gateway, completions>>

-----------------------------------------------------------------------------
(* Wrong variants of some of the steps below, which no specification uses.     *)

\* The reason is set at the top of the handler.
HandleCommandWithReason ==
    \E i \in Ids :
        /\ Receive("command") /\ Head(gateway).id = i
        /\ command[i].resolved
        /\ requests' = requests \cup {[Call("thinking", i) EXCEPT !.reason = reason["shard"]]}
        /\ reason' = [reason EXCEPT !["shard"] = i]
        /\ handling' = At("checks", i)
        /\ UNCHANGED <<spent, guildVars, known, completions>>

\* The handler does not compare the user with the moderator and the bot.
PassAnybody(i) ==
    /\ handling = At("checks", i)
    /\ command[i].whom \in known

\* The callback does not look at is_error.
OnModeratedDone ==
    /\ completions # <<>>
    /\ completions' = Tail(completions)
    /\ Post("callbacks", Followup(Head(completions).id, "done"))
    /\ UNCHANGED <<spent, guildVars, known, gateway, handling>>

\* The callback only logs an error.
OnModeratedSilent ==
    /\ completions # <<>>
    /\ completions' = Tail(completions)
    /\ IF Head(completions).is_error THEN UNCHANGED <<reason, requests>>
       ELSE Post("callbacks", Followup(Head(completions).id, "done"))
    /\ UNCHANGED <<spent, guildVars, known, gateway, handling>>

\* The exception takes the shard thread with it.
HandlerThrowsForGood ==
    \E i \in Ids :
        /\ Receive("command") /\ Head(gateway).id = i
        /\ ~command[i].resolved
        /\ handling' = At("thrown", i)
        /\ UNCHANGED <<spent, guildVars, known, reason, requests, completions>>

-----------------------------------------------------------------------------

\* command_handler calls ban, kick or timeout.
HandleCommand ==
    \E i \in Ids :
        /\ Receive("command") /\ Head(gateway).id = i
        /\ Think(i)
        /\ UNCHANGED <<spent, guildVars, known, completions>>

\* get_resolved_member throws: the handler ends before it has answered, and D++ goes
\* on with the next event.
HandlerThrows ==
    \E i \in Ids :
        /\ Receive("command") /\ Head(gateway).id = i
        /\ ~command[i].resolved
        /\ UNCHANGED <<spent, guildVars, known, handling, reason, requests, completions>>

\* All checks have succeeded.
Pass(i) ==
    /\ handling = At("checks", i)
    /\ command[i].whom \in known
    /\ command[i].whom \notin {command[i].by, Bot}

SetAuditReason ==
    \E i \in DOMAIN command :
        /\ Pass(i)
        /\ reason' = [reason EXCEPT !["shard"] = i]
        /\ handling' = At("request", i)
        /\ UNCHANGED <<spent, guildVars, known, gateway, requests, completions>>

\* guild_ban_add, guild_member_kick, guild_member_timeout.
RequestIt ==
    \E i \in DOMAIN command :
        /\ handling = At("request", i)
        /\ Post("shard", Call(command[i].name, i))
        /\ handling' = Idle
        /\ UNCHANGED <<spent, guildVars, known, gateway, completions>>

\* The callback of the request answers for it.
OnModerated ==
    /\ completions # <<>>
    /\ completions' = Tail(completions)
    /\ LET done == Head(completions)
       IN  Post("callbacks", Followup(done.id, IF done.is_error THEN "failed" ELSE "done"))
    /\ UNCHANGED <<spent, guildVars, known, gateway, handling>>

\* D++ updates its cache before any handler is called.
OnMember ==
    \/ /\ Receive("MEMBER_ADD")
       /\ known' = known \cup {Head(gateway).user}
       /\ UNCHANGED <<spent, guildVars, handling, reason, requests, completions>>
    \/ /\ Receive("MEMBER_REMOVE")
       /\ known' = known \ {Head(gateway).user}
       /\ UNCHANGED <<spent, guildVars, handling, reason, requests, completions>>

-----------------------------------------------------------------------------
(* The guild. *)

\* A moderator names any user, also one who has left.
Invoke ==
    /\ Spend("click")
    /\ \E n \in Commands, u \in Moderators \cap members, w \in Users \cup {Bot} :
          command' = Append(command, [name |-> n, by |-> u, whom |-> w,
                                      resolved |-> w \in members])
    /\ gateway' = Append(gateway, [type |-> "command", id |-> Len(command')])
    /\ UNCHANGED <<members, known, answer, lost, audit, unheard, handling, reason,
                   requests, completions>>

Leave(u) ==
    /\ members' = members \ {u}
    /\ gateway' = Append(gateway, [type |-> "MEMBER_REMOVE", user |-> u])

ComeAndGo ==
    /\ Spend("admin")
    /\ \/ \E u \in Users \cap members : Leave(u)
       \/ \E u \in Users \ members :
             /\ members' = members \cup {u}
             /\ gateway' = Append(gateway, [type |-> "MEMBER_ADD", user |-> u])
    /\ UNCHANGED <<known, command, answer, lost, audit, unheard, handling, reason,
                   requests, completions>>

Take(r) == r \in requests /\ requests' = requests \ {r}

Complete(i, is_error) ==
    completions' = Append(completions, [id |-> i, is_error |-> is_error])

RunThinking(r) ==
    /\ Take(r) /\ r.type = "thinking"
    /\ answer' = [answer EXCEPT ![r.id] = "thinking"]
    /\ UNCHANGED <<spent, members, known, command, lost, audit, unheard, gateway,
                   handling, reason, completions>>

\* A followup that overtakes the "thinking" is rejected.
RunFollowup(r) ==
    /\ Take(r) /\ r.type = "followup"
    /\ IF answer[r.id] = "thinking"
       THEN answer' = [answer EXCEPT ![r.id] = r.text] /\ UNCHANGED lost
       ELSE lost' = lost \cup {r.id} /\ UNCHANGED answer
    /\ UNCHANGED <<spent, members, known, command, audit, unheard, gateway, handling,
                   reason, completions>>

\* A ban removes the member as well; nothing can be done to who has left already, but
\* ban.  A timeout is in the audit log only.
Possible(r) == r.type = "ban" \/ command[r.id].whom \in members

TakeEffect(r) ==
    /\ audit' = audit \cup {<<r.id, r.reason>>}
    /\ LET whom == command[r.id].whom
       IN  IF r.type \in {"ban", "kick"} /\ whom \in members THEN Leave(whom)
           ELSE UNCHANGED <<members, gateway>>

RunModeration(r) ==
    /\ Take(r) /\ r.type \in Commands
    /\ IF Possible(r) THEN TakeEffect(r) /\ Complete(r.id, FALSE)
       ELSE Complete(r.id, TRUE) /\ UNCHANGED <<members, gateway, audit>>
    /\ UNCHANGED <<spent, known, command, answer, lost, unheard, handling, reason>>

\* The request takes effect, and then the connection is lost: is_error() is true.  (Of
\* a thinking or a followup nobody looks at the response.)
LoseResponse(r) ==
    /\ Take(r) /\ r.type \in Commands
    /\ Spend("response")
    /\ Possible(r) /\ TakeEffect(r) /\ Complete(r.id, TRUE)
    /\ unheard' = unheard \cup {r.id}
    /\ UNCHANGED <<known, command, answer, lost, handling, reason>>

\* Nothing takes effect: the bot's role is below the member's, a rate limit, no connection.
FailRequest(r) ==
    /\ Take(r)
    /\ Spend("rest")
    /\ IF r.type \in Commands THEN Complete(r.id, TRUE) /\ UNCHANGED lost
       ELSE lost' = lost \cup {r.id} /\ UNCHANGED completions
    /\ UNCHANGED <<members, known, command, answer, audit, unheard, gateway, handling,
                   reason>>

\* The process dies and is started again.
Crash ==
    /\ Spend("crash")
    /\ known' = members
    /\ gateway' = <<>> /\ handling' = Idle
    /\ reason' = [t \in Threads |-> NoId]
    /\ requests' = {} /\ completions' = <<>>
    /\ UNCHANGED guildVars

Run(r) ==
    \/ RunThinking(r) \/ RunFollowup(r)
    \/ RunModeration(r) \/ LoseResponse(r) \/ FailRequest(r)

Shard == HandleCommand \/ HandlerThrows \/ Refuse \/ SetAuditReason \/ RequestIt \/ OnMember

Next ==
    \/ Shard \/ OnModerated
    \/ Invoke \/ ComeAndGo
    \/ \E r \in requests : Run(r)
    \/ Crash

Spec == Init /\ [][Next]_vars

\* D++'s threads take what is in their queues; every request is tried some time.
FairSpec ==
    /\ Spec
    /\ WF_vars(Shard)
    /\ WF_vars(OnModerated)
    /\ \A i \in Ids : WF_vars(\E r \in requests : r.id = i /\ Run(r))

-----------------------------------------------------------------------------
(* Properties. *)

\* The audit reason is state of a thread, not of a request.  Still every ban, kick and
\* timeout carries its own command's reason, whatever the two threads do meanwhile,
\* and no other request carries one.
AuditedForItself ==
    /\ \A r \in requests : r.reason = IF r.type \in Commands THEN r.id ELSE NoId
    /\ \A entry \in audit : entry[1] = entry[2]

\* What the moderator is told is what happened: "has been banned" stands in the audit
\* log, and after a refusal nothing does; nor after an error, unless the response to
\* this command's own request was lost.
ToldTheTruth ==
    \A i \in Ids :
        LET happened == \E entry \in audit : entry[1] = i
        IN  /\ answer[i] = "done" => happened
            /\ answer[i] = "refused" => ~happened
            /\ answer[i] = "failed" /\ happened => i \in unheard

\* A command about a member is answered in the end, and not left "thinking": by the
\* handler, or by the callback whether the request succeeded or not - unless Discord did
\* not take one of its answers, or the process died.  A command about a user who is
\* not a member is not answered: get_resolved_member throws before ban.cpp:45 can say
\* that the user is not on the server.
AnsweredInTheEnd ==
    \A i \in Ids :
        (i \in DOMAIN command /\ command[i].resolved)
            ~> (answer[i] \in Texts \/ i \in lost \/ ~None("crash"))

\* Between the handler, two queues of requests and the callback no command is dropped:
\* when there is nothing left to do, every command about a member has been answered -
\* with the same two exceptions.
Quiet == gateway = <<>> /\ handling = Idle /\ requests = {} /\ completions = <<>>

AnsweredWhenQuiet ==
    Quiet /\ None("crash") =>
        \A i \in DOMAIN command : command[i].resolved => answer[i] \in Texts \/ i \in lost

-----------------------------------------------------------------------------
(* The audit trail that this module implements.                                *)

Answers == [i \in Ids |-> IF answer[i] \in Texts THEN answer[i] ELSE "nothing"]

Trail == INSTANCE AuditTrail WITH told <- Answers

\* Whatever overlaps, fails, is lost or is cut off by a crash: no command acts twice,
\* on the bot or on its own user, under another's reason or after its user was told
\* that it did not; a command whose response was lost is the only one that acts and
\* is told to have failed, and what the user was told in the end is not replaced by a
\* later "thinking" or a second answer.
ImplementsTrail == Trail!Spec

=============================================================================
