---------------------------- MODULE TaskLifecycle ---------------------------
(***************************************************************************)
(* The life of the tasks of one guild, from the Create button to the       *)
(* deletion of the channel: create_task, close_task, open_task,            *)
(* delete_task and on_channel_delete, with the callbacks they leave        *)
(* behind.                                                                 *)
(*                                                                         *)
(* Two threads of the process run this code.  The shard thread calls the   *)
(* handlers of the guild's events one after another, each to its end; the  *)
(* callback thread calls the completions one after another.  They          *)
(* interleave with each other and with Discord at every database call and  *)
(* every posted request, so a handler is a chain of steps: the first takes *)
(* the event and makes all the checks, then there is one step per call     *)
(* that writes.  A step that fails ends the handler, as the early returns  *)
(* of the code do; the embed that reports it is left out.                  *)
(*                                                                         *)
(* Members, permissions, roles and the configuration decide only whether   *)
(* a handler returns early (see TaskNumbering for the configuration), so   *)
(* here any click may be Refused.                                          *)
(***************************************************************************)
EXTENDS DiscordGuild

CONSTANT NoChannel

ASSUME NoChannelAssumption == NoChannel \notin Channels

VARIABLES
    cached,  \* the channels in D++'s cache, where dpp::find_channel looks
    shard,   \* the handler the shard thread is in: its next step and channel
    out      \* the same for the callback thread

ShardSteps ==
    {"idle",
     "archive_task", "delete_task", "send_panel",
     "add_task", "delete_archived_task", "get_messages",
     "find_archived_task", "forget_task", "forget_archived_task"}

OutSteps == {"idle", "send_welcome", "sleep"}

Idle == [step |-> "idle", channel |-> NoChannel]

At(step, c) == [step |-> step, channel |-> c]

vars == <<spent, tasks, task_archive, channels, opener, welcome, panels, posted,
          gateway, guildQ, channelQ, webhookQ, outQ, cached, shard, out>>

TypeOK ==
    /\ BudgetTypeOK
    /\ TablesTypeOK
    /\ GuildTypeOK
    /\ cached \in SUBSET Channels
    /\ shard \in [step : ShardSteps, channel : Channels \cup {NoChannel}]
    /\ shard.step # "idle" => shard.channel \in Channels
    /\ out \in [step : OutSteps, channel : Channels \cup {NoChannel}]
    /\ out.step # "idle" => out.channel \in Channels

Init ==
    /\ BudgetInit
    /\ TablesInit
    /\ GuildInit
    /\ cached = {}
    /\ shard = Idle
    /\ out = Idle

-----------------------------------------------------------------------------
(* What the steps of the two threads have in common. *)

\* The shard thread takes the next event, which is of this type.
Receive(type) ==
    /\ shard = Idle
    /\ gateway # <<>>
    /\ Head(gateway).type = type
    /\ gateway' = Tail(gateway)

\* A handler's database call fails and the handler returns.
CallFails(step) ==
    /\ shard.step = step
    /\ Spend("db")
    /\ shard' = Idle
    /\ UNCHANGED <<tasks, task_archive, channelQ>>

\* A query that should find a row fails instead, which its caller takes for
\* "no row": answer is what the caller gets to see.
Query(truth, answer) ==
    \/ answer = truth /\ UNCHANGED spent
    \/ truth /\ ~answer /\ Spend("db")

\* The callback thread takes the next completion, which is of this request.
CallBack(op) ==
    /\ out = Idle
    /\ outQ # <<>>
    /\ Head(outQ).op = op
    /\ outQ' = Tail(outQ)

-----------------------------------------------------------------------------
(* Wrong variants of some of the steps below, which no specification uses: each *)
(* is what a plausible mistake in the handler would do.  TLC finds a property   *)
(* violated when the variant takes the place of the step.                       *)

\* close_task deletes the row without having archived it.
CloseTaskWithoutArchive ==
    /\ Receive("close_task")
    /\ LET c == Head(gateway).channel IN
          /\ c \in cached
          /\ ~find_archived_task(c)
          /\ find_task(c)
          /\ shard' = At("delete_task", c)
    /\ UNCHANGED <<spent, tasks, task_archive, channels, opener, welcome, panels,
                   posted, guildQ, channelQ, webhookQ, outQ, cached, out>>

\* close_task forgets to delete the row it has archived.
CloseKeepsRow ==
    /\ shard.step = "delete_task"
    /\ shard' = At("send_panel", shard.channel)
    /\ UNCHANGED <<spent, tasks, task_archive, channels, opener, welcome, panels, posted,
                   gateway, guildQ, channelQ, webhookQ, outQ, cached, out>>

\* close_task returns before it sends the controls.
CloseWithoutPanel ==
    /\ shard.step = "send_panel"
    /\ shard' = Idle
    /\ UNCHANGED <<spent, tasks, task_archive, channels, opener, welcome, panels,
                   posted, gateway, guildQ, channelQ, webhookQ, outQ, cached, out>>

\* on_channel_delete without its else branch.
OnDeleteIgnoresArchive ==
    /\ shard.step = "find_archived_task"
    /\ shard' = Idle
    /\ UNCHANGED <<spent, tasks, task_archive, channels, opener, welcome, panels, posted,
                   gateway, guildQ, channelQ, webhookQ, outQ, cached, out>>

\* The followup's callback does not capture the channel.
OnFollowupWithoutChannel ==
    /\ CallBack("followup")
    /\ out' = At("sleep", NoChannel)
    /\ UNCHANGED <<spent, tasks, task_archive, channels, opener, welcome, panels,
                   posted, gateway, guildQ, channelQ, webhookQ, cached, shard>>

\* The followup's callback sleeps and returns.
SleepEndsWithoutDelete ==
    /\ out.step = "sleep"
    /\ out' = Idle
    /\ UNCHANGED <<spent, tasks, task_archive, channels, opener, welcome, panels,
                   posted, gateway, guildQ, channelQ, webhookQ, outQ, cached, shard>>

\* delete_task deletes the row itself, before the channel is deleted.
SleepEndsForgetting ==
    /\ out.step = "sleep"
    /\ Post(out.channel, "channel_delete", {})
    /\ delete_archived_task(out.channel)
    /\ out' = Idle
    /\ UNCHANGED <<spent, tasks, channels, opener, welcome, panels, posted, gateway,
                   guildQ, webhookQ, outQ, cached, shard>>

-----------------------------------------------------------------------------
(* Steps of the shard thread. *)

\* A handler returns early: the channel is not cached, a permission or a role
\* is missing, there is no configuration, or the query for the row failed.
Refuse ==
    /\ \E b \in {"create_task"} \cup ButtonEvents : Receive(b)
    /\ UNCHANGED <<spent, tasks, task_archive, channels, opener, welcome, panels,
                   posted, guildQ, channelQ, webhookQ, outQ, cached, shard, out>>

CreateTask ==
    /\ Receive("create_task")
    /\ guildQ' = Append(guildQ, Head(gateway).user)
    /\ UNCHANGED <<spent, tasks, task_archive, channels, opener, welcome, panels,
                   posted, channelQ, webhookQ, outQ, cached, shard, out>>

CloseTask ==
    /\ Receive("close_task")
    /\ LET c == Head(gateway).channel IN
          /\ c \in cached
          /\ Query(find_archived_task(c), FALSE)
          /\ find_task(c)
          /\ shard' = At("archive_task", c)
    /\ UNCHANGED <<tasks, task_archive, channels, opener, welcome, panels, posted,
                   guildQ, channelQ, webhookQ, outQ, cached, out>>

\* get_task_creator_id and archive_task; a failed query stores creator 0.
CloseArchives ==
    /\ shard.step = "archive_task"
    /\ LET c == shard.channel IN
          /\ \/ archive_task(c, get_task_creator_id(c)) /\ UNCHANGED spent
             \/ archive_task(c, NoUser) /\ Spend("db")
          /\ shard' = At("delete_task", c)
    /\ UNCHANGED <<tasks, channels, opener, welcome, panels, posted, gateway, guildQ,
                   channelQ, webhookQ, outQ, cached, out>>

CloseDeletes ==
    /\ shard.step = "delete_task"
    /\ delete_task(shard.channel)
    /\ shard' = At("send_panel", shard.channel)
    /\ UNCHANGED <<spent, task_archive, channels, opener, welcome, panels, posted,
                   gateway, guildQ, channelQ, webhookQ, outQ, cached, out>>

CloseSendsPanel ==
    /\ shard.step = "send_panel"
    /\ Post(shard.channel, "panel", {})
    /\ shard' = Idle
    /\ UNCHANGED <<spent, tasks, task_archive, channels, opener, welcome, panels,
                   posted, gateway, guildQ, webhookQ, outQ, cached, out>>

OpenTask ==
    /\ Receive("open_task")
    /\ LET c == Head(gateway).channel IN
          /\ c \in cached
          /\ Query(find_task(c), FALSE)
          /\ find_archived_task(c)
          /\ shard' = At("add_task", c)
    /\ UNCHANGED <<tasks, task_archive, channels, opener, welcome, panels, posted,
                   guildQ, channelQ, webhookQ, outQ, cached, out>>

\* get_archived_task_creator_id and add_task.
OpenAdds ==
    /\ shard.step = "add_task"
    /\ LET c == shard.channel IN
          /\ \/ add_task(c, get_archived_task_creator_id(c)) /\ UNCHANGED spent
             \/ add_task(c, NoUser) /\ Spend("db")
          /\ shard' = At("delete_archived_task", c)
    /\ UNCHANGED <<task_archive, channels, opener, welcome, panels, posted, gateway,
                   guildQ, channelQ, webhookQ, outQ, cached, out>>

OpenDeletesArchived ==
    /\ shard.step = "delete_archived_task"
    /\ delete_archived_task(shard.channel)
    /\ shard' = At("get_messages", shard.channel)
    /\ UNCHANGED <<spent, tasks, channels, opener, welcome, panels, posted, gateway,
                   guildQ, channelQ, webhookQ, outQ, cached, out>>

OpenGetsMessages ==
    /\ shard.step = "get_messages"
    /\ Post(shard.channel, "messages_get", {})
    /\ shard' = Idle
    /\ UNCHANGED <<spent, tasks, task_archive, channels, opener, welcome, panels,
                   posted, gateway, guildQ, webhookQ, outQ, cached, out>>

DeleteTask ==
    /\ Receive("delete_task")
    /\ LET c == Head(gateway).channel IN
          /\ c \in cached
          /\ find_archived_task(c)
          /\ webhookQ' = Append(webhookQ, [channel |-> c, replied |-> FALSE])
    /\ UNCHANGED <<spent, tasks, task_archive, channels, opener, welcome, panels,
                   posted, guildQ, channelQ, outQ, cached, shard, out>>

OnChannelCreate ==
    /\ Receive("CHANNEL_CREATE")
    /\ cached' = cached \cup {Head(gateway).channel}
    /\ UNCHANGED <<spent, tasks, task_archive, channels, opener, welcome, panels,
                   posted, guildQ, channelQ, webhookQ, outQ, shard, out>>

OnChannelDelete ==
    /\ Receive("CHANNEL_DELETE")
    /\ LET c == Head(gateway).channel IN
          /\ cached' = cached \ {c}
          /\ \E found \in BOOLEAN :
                /\ Query(find_task(c), found)
                /\ shard' = At(IF found THEN "forget_task" ELSE "find_archived_task", c)
    /\ UNCHANGED <<tasks, task_archive, channels, opener, welcome, panels, posted,
                   guildQ, channelQ, webhookQ, outQ, out>>

OnDeleteFindsArchived ==
    /\ shard.step = "find_archived_task"
    /\ \E found \in BOOLEAN :
          /\ Query(find_archived_task(shard.channel), found)
          /\ shard' = IF found THEN At("forget_archived_task", shard.channel) ELSE Idle
    /\ UNCHANGED <<tasks, task_archive, channels, opener, welcome, panels, posted,
                   gateway, guildQ, channelQ, webhookQ, outQ, cached, out>>

OnDeleteForgetsTask ==
    /\ shard.step = "forget_task"
    /\ delete_task(shard.channel)
    /\ shard' = Idle
    /\ UNCHANGED <<spent, task_archive, channels, opener, welcome, panels, posted,
                   gateway, guildQ, channelQ, webhookQ, outQ, cached, out>>

OnDeleteForgetsArchived ==
    /\ shard.step = "forget_archived_task"
    /\ delete_archived_task(shard.channel)
    /\ shard' = Idle
    /\ UNCHANGED <<spent, tasks, channels, opener, welcome, panels, posted, gateway,
                   guildQ, channelQ, webhookQ, outQ, cached, out>>

\* The write of the current step fails: the handler returns with the earlier
\* writes of its chain done and the later ones not.
HandlerFails ==
    /\ \E step \in {"archive_task", "delete_task", "add_task", "delete_archived_task",
                    "forget_task", "forget_archived_task"} : CallFails(step)
    /\ UNCHANGED <<channels, opener, welcome, panels, posted, gateway, guildQ,
                   webhookQ, outQ, cached, out>>

-----------------------------------------------------------------------------
(* Steps of the callback thread. *)

\* channel_create completed: add_task, and when that fails nothing else.
OnCreated ==
    /\ CallBack("channel_create")
    /\ LET r == Head(outQ) IN
          \/ /\ add_task(r.channel, r.user)
             /\ out' = At("send_welcome", r.channel)
             /\ UNCHANGED spent
          \/ /\ Spend("db")
             /\ UNCHANGED <<tasks, out>>
    /\ UNCHANGED <<task_archive, channels, opener, welcome, panels, posted, gateway,
                   guildQ, channelQ, webhookQ, cached, shard>>

CreatedSendsWelcome ==
    /\ out.step = "send_welcome"
    /\ Post(out.channel, "welcome", {})
    /\ out' = Idle
    /\ UNCHANGED <<spent, tasks, task_archive, channels, opener, welcome, panels,
                   posted, gateway, guildQ, webhookQ, outQ, cached, shard>>

\* delete_task's followup was sent: Sleep(1500) keeps the whole thread here.
OnFollowup ==
    /\ CallBack("followup")
    /\ out' = At("sleep", Head(outQ).channel)
    /\ UNCHANGED <<spent, tasks, task_archive, channels, opener, welcome, panels,
                   posted, gateway, guildQ, channelQ, webhookQ, cached, shard>>

SleepEnds ==
    /\ out.step = "sleep"
    /\ Post(out.channel, "channel_delete", {})
    /\ out' = Idle
    /\ UNCHANGED <<spent, tasks, task_archive, channels, opener, welcome, panels,
                   posted, gateway, guildQ, webhookQ, outQ, cached, shard>>

\* open_task's messages_get completed: one message_delete per controls message
\* it returned, posted without a pause and carried out in order, hence as one.
\* (The callback takes the channel's id from the captured cFind, and so does SleepEnds:
\* for how long that pointer is kept is DeleteLifetime's matter.)
OnMessages ==
    /\ CallBack("messages_get")
    /\ LET r == Head(outQ) IN
          IF r.ids = {} THEN UNCHANGED channelQ
          ELSE Post(r.channel, "message_delete", r.ids)
    /\ UNCHANGED <<spent, tasks, task_archive, channels, opener, welcome, panels,
                   posted, gateway, guildQ, webhookQ, cached, shard, out>>

-----------------------------------------------------------------------------

\* The process dies and is started again: the tables and Discord survive; the
\* handlers, callbacks, unsent requests and undelivered events do not.  The
\* cache is filled again from the guild as it then is.
Crash ==
    /\ Spend("crash")
    /\ shard' = Idle
    /\ out' = Idle
    /\ cached' = channels
    /\ gateway' = <<>>
    /\ guildQ' = <<>>
    /\ channelQ' = [c \in Channels |-> <<>>]
    /\ webhookQ' = <<>>
    /\ outQ' = <<>>
    /\ UNCHANGED <<tasks, task_archive, channels, opener, welcome, panels, posted>>

ShardThread ==
    \/ Refuse
    \/ CreateTask
    \/ CloseTask \/ CloseArchives \/ CloseDeletes \/ CloseSendsPanel
    \/ OpenTask \/ OpenAdds \/ OpenDeletesArchived \/ OpenGetsMessages
    \/ DeleteTask
    \/ OnChannelCreate
    \/ OnChannelDelete \/ OnDeleteFindsArchived
    \/ OnDeleteForgetsTask \/ OnDeleteForgetsArchived
    \/ HandlerFails

CallbackThread ==
    \/ OnCreated \/ CreatedSendsWelcome
    \/ OnFollowup \/ SleepEnds
    \/ OnMessages

Environment ==
    /\ People \/ RestThreads
    /\ UNCHANGED <<tasks, task_archive, cached, shard, out>>

Next == ShardThread \/ CallbackThread \/ Environment \/ Crash

Spec == Init /\ [][Next]_vars

-----------------------------------------------------------------------------
(* Properties. *)

\* close_task inserts into the archive before it deletes from tasks, open_task
\* the other way round, and rows are forgotten only on CHANNEL_DELETE: so no step,
\* not even a failing call or a crash half way through a handler, makes the
\* database forget a task whose channel still exists.
RecordKept ==
    [][\A c \in channels' : Recorded(c) => Recorded(c)']_vars

\* Through every close and reopen, with whatever failed or crashed on the way, a
\* row names the member who asked for the task, unless a query failed: then
\* get_task_creator_id's 0 may have been stored instead.
CreatorKept ==
    \A c \in Channels : \A t \in {tasks[c], task_archive[c]} :
        \A i \in DOMAIN t : t[i] = opener[c] \/ (t[i] = NoUser /\ ~None("db"))

\* As long as no call fails and the process does not die, a channel is open or
\* closed but not both, with a single row, except between the two writes of
\* close_task or open_task on that very channel.
OpenXorClosed ==
    None("db") /\ None("crash") =>
        \A c \in Channels :
            /\ Len(tasks[c]) <= 1 /\ Len(task_archive[c]) <= 1
            /\ find_task(c) /\ find_archived_task(c) =>
                  shard \in {At("delete_task", c), At("delete_archived_task", c)}

Queued(c, op) == \E i \in DOMAIN channelQ[c] : channelQ[c][i].op = op

\* As long as no call fails and the process does not die, every task can be acted
\* upon: an open one has, or is about to get, its Close button and a closed one
\* its controls - although a reopening that overlaps with the next closing deletes
\* control messages at any later time.
NotStranded ==
    None("db") /\ None("rest") /\ None("crash") =>
        \A c \in channels :
            /\ Recorded(c) =>
                  c \in welcome \/ Queued(c, "welcome") \/ out = At("send_welcome", c)
            /\ find_archived_task(c) /\ shard.channel # c =>
                  panels[c] # {} \/ Queued(c, "panel")

\* The row of a deleted channel does not survive the channel: it is there only
\* until CHANNEL_DELETE has been handled.  Only a task that got its welcome message
\* is promised that: a moderator who deletes the channel before create_task's
\* callback has called add_task leaves a row that no event will ever remove.
NoOrphan ==
    None("db") /\ None("crash") =>
        \A c \in welcome \ channels :
            Recorded(c) =>
                \/ \E i \in DOMAIN gateway :
                       gateway[i] = [type |-> "CHANNEL_DELETE", channel |-> c]
                \/ shard.channel = c

\* The deletion of channel c was announced and has not been made yet: delete_task's
\* followup got through, and its callback waits, sleeps or has made its request.
Deleting(c) ==
    \/ \E i \in DOMAIN outQ : outQ[i].op = "followup" /\ outQ[i].channel = c
    \/ out = At("sleep", c)
    \/ Queued(c, "channel_delete")

\* Without failing requests and crashes an announced deletion is not lost on its way
\* over the callback thread and the queue of the channel's requests, whatever is
\* clicked, posted and called back meanwhile: it stands until the channel is gone.
DeletionStands ==
    [][\A c \in channels' :
          Deleting(c) /\ None("rest")' /\ None("crash")' => Deleting(c)']_vars

\* delete_task's check, "if the task is not closed": the bot deletes the channels
\* of closed tasks only.  (A moderator deletes what he likes: Limit["admin"] = 0.)
DeletesOnlyClosed ==
    [][\A c \in channels \ channels' : find_archived_task(c)]_vars

\* "task deletion from the database occurs in the on_channel_deleted event!": when
\* on_channel_delete has deleted rows of the channel, none is left.
DeletionForgets ==
    [][\A c \in Channels :
          (/\ shard \in {At("forget_task", c), At("forget_archived_task", c)}
           /\ <<tasks[c], task_archive[c]>>' # <<tasks[c], task_archive[c]>>)
              => ~Recorded(c)']_vars

-----------------------------------------------------------------------------
(* The ledger that this module implements.                                     *)

\* create_task's callback for channel c has not run yet.
Pending(c) ==
    \E i \in DOMAIN outQ : outQ[i].op = "channel_create" /\ outQ[i].channel = c

\* A row in the archive makes a task closed: close_task writes it first, and
\* open_task deletes it last.
StatusOf(c) ==
    CASE find_archived_task(c) -> "closed"
      [] ~find_archived_task(c) /\ find_task(c) -> "open"
      [] ~Recorded(c) /\ opener[c] = NoUser -> "none"
      [] ~Recorded(c) /\ opener[c] # NoUser /\ Pending(c) -> "created"
      [] ~Recorded(c) /\ opener[c] # NoUser /\ ~Pending(c) -> "forgotten"

CreatorOf(c) ==
    IF find_archived_task(c) THEN get_archived_task_creator_id(c)
    ELSE get_task_creator_id(c)

Status == [c \in Channels |-> StatusOf(c)]

Names == [c \in Channels |-> CreatorOf(c)]

Ledger == INSTANCE TaskLedger
    WITH alive <- channels, status <- Status, asker <- opener, creator <- Names

\* Through all the steps, failures and crashes the rows of the two tables tell the
\* story of the ledger: a task is written down once, goes from open to closed
\* and back, names nobody but the member who asked for it, changes that name only
\* with its status, is forgotten only after its channel, and never comes back.
ImplementsLedger == Ledger!Spec

-----------------------------------------------------------------------------
(* Liveness.  Every thread of the process and of D++ keeps running; the people  *)
(* of the guild owe nothing.                                                    *)

Threads(A) == A /\ UNCHANGED <<tasks, task_archive, cached, shard, out>>

Fairness ==
    /\ WF_vars(ShardThread)
    /\ WF_vars(CallbackThread)
    /\ WF_vars(Threads(\/ FailChannelCreate
                       \/ \E c \in Channels : RunChannelCreate(c) \/ LoseChannelCreated(c)))
    /\ WF_vars(Threads(RunFollowup \/ FailFollowup))
    /\ \A c \in Channels : WF_vars(Threads(ChannelThread(c)))

FairSpec == Spec /\ Fairness

\* Without failing calls and crashes: once delete_task's followup got through and
\* its callback is in Sleep(1500), the channel does get deleted.
AnnouncedDeletionHappens ==
    \A c \in Channels : out = At("sleep", c) ~> c \notin channels

\* Without failing calls and crashes: a row that is there when CHANNEL_DELETE comes
\* in is removed, whoever deleted the channel and whatever was clicked meanwhile.
ForgottenOnDelete ==
    \A c \in Channels :
        (Recorded(c) /\ \E i \in DOMAIN gateway :
             gateway[i] = [type |-> "CHANNEL_DELETE", channel |-> c])
            ~> ~Recorded(c)

=============================================================================
