---------------------------- MODULE DiscordGuild ----------------------------
(***************************************************************************)
(* Everything between the bot's handlers and one Discord guild: the guild  *)
(* itself, the people in it, the gateway connection that delivers its      *)
(* events, the REST threads of D++ that carry the bot's requests out, and  *)
(* the queue of completions that waits for D++'s callback thread.  None of *)
(* this is the bot's own code: it is modelled from how the handlers use it *)
(* and from the contracts D++ states in its headers.                       *)
(*                                                                         *)
(*  - The events of one guild arrive over one connection, in order.        *)
(*  - Requests to one endpoint are carried out by one thread, in order;    *)
(*    the endpoint of a channel's requests names the channel.  Requests to *)
(*    different endpoints overlap freely (dpp/queues.h:371-381).           *)
(*  - Completions are called back in the order they arrive, all of them by *)
(*    one thread (dpp/queues.h:97-103 and 353-360).                        *)
(*                                                                         *)
(* Of a channel's messages only those with buttons are modelled: the       *)
(* welcome message (Close) and the "Support team controls" (Open, Delete). *)
(* A channel_edit only changes the channel's name and category, which no   *)
(* handler reads to decide anything, so it is not among the requests here. *)
(***************************************************************************)
EXTENDS Budget, TaskTables

VARIABLES
    channels,   \* the task channels that exist
    opener,     \* who asked for the channel, NoUser before it is created
    welcome,    \* channels with their welcome message
    panels,     \* per channel, the "Support team controls" in it
    posted,     \* per channel, how many of those were ever posted
    gateway,    \* events on their way to the bot
    guildQ,     \* channel_create requests, by who asked
    channelQ,   \* requests to each channel's endpoint
    webhookQ,   \* delete_task's followups; replied: event.reply() got through
    outQ        \* completions waiting for the callback thread

ButtonEvents == {"close_task", "open_task", "delete_task"}

Event ==
    [type : {"create_task"}, user : Users]
        \cup [type : ButtonEvents \cup {"CHANNEL_CREATE", "CHANNEL_DELETE"},
              channel : Channels]

\* ids: the messages that a message_delete names.
Request ==
    [op : {"welcome", "panel", "messages_get", "message_delete", "channel_delete"},
     ids : SUBSET Nat]

Followup == [channel : Channels, replied : BOOLEAN]

Completion ==
    [op : {"channel_create"}, channel : Channels, user : Users]
        \cup [op : {"followup"}, channel : Channels]
        \cup [op : {"messages_get"}, channel : Channels, ids : SUBSET Nat]

GuildTypeOK ==
    /\ channels \in SUBSET Channels
    /\ opener \in [Channels -> Creator]
    /\ welcome \in SUBSET Channels
    /\ panels \in [Channels -> SUBSET Nat]
    /\ posted \in [Channels -> Nat]
    /\ gateway \in Seq(Event)
    /\ guildQ \in Seq(Users)
    /\ channelQ \in [Channels -> Seq(Request)]
    /\ webhookQ \in Seq(Followup)
    /\ outQ \in Seq(Completion)

GuildInit ==
    /\ channels = {}
    /\ opener = [c \in Channels |-> NoUser]
    /\ welcome = {}
    /\ panels = [c \in Channels |-> {}]
    /\ posted = [c \in Channels |-> 0]
    /\ gateway = <<>>
    /\ guildQ = <<>>
    /\ channelQ = [c \in Channels |-> <<>>]
    /\ webhookQ = <<>>
    /\ outQ = <<>>

-----------------------------------------------------------------------------
(* What the bot's threads do with the queues. *)

Deliver(e) == gateway' = Append(gateway, e)

Complete(r) == outQ' = Append(outQ, r)

Post(c, op, ids) ==
    channelQ' = [channelQ EXCEPT ![c] = Append(@, [op |-> op, ids |-> ids])]

-----------------------------------------------------------------------------
(* The people of the guild. *)

\* A button of the panel that /sendpanel posted.
ClickCreate(u) ==
    /\ Spend("click")
    /\ Deliver([type |-> "create_task", user |-> u])
    /\ UNCHANGED <<channels, opener, welcome, panels, posted, guildQ, channelQ,
                   webhookQ, outQ>>

\* A button of a message in a task channel.
ClickButton(b, c) ==
    /\ c \in channels
    /\ IF b = "close_task" THEN c \in welcome ELSE panels[c] # {}
    /\ Spend("click")
    /\ Deliver([type |-> b, channel |-> c])
    /\ UNCHANGED <<channels, opener, welcome, panels, posted, guildQ, channelQ,
                   webhookQ, outQ>>

\* A moderator deletes a task channel in the client, without the bot.
ModeratorDeletes(c) ==
    /\ c \in channels
    /\ Spend("admin")
    /\ channels' = channels \ {c}
    /\ Deliver([type |-> "CHANNEL_DELETE", channel |-> c])
    /\ UNCHANGED <<opener, welcome, panels, posted, guildQ, channelQ, webhookQ, outQ>>

-----------------------------------------------------------------------------
(* The REST threads. *)

\* A new channel gets an identifier that was never used before.
CreateChannel(c) ==
    /\ guildQ # <<>>
    /\ guildQ' = Tail(guildQ)
    /\ opener[c] = NoUser
    /\ opener' = [opener EXCEPT ![c] = Head(guildQ)]
    /\ channels' = channels \cup {c}
    /\ Deliver([type |-> "CHANNEL_CREATE", channel |-> c])

RunChannelCreate(c) ==
    /\ CreateChannel(c)
    /\ Complete([op |-> "channel_create", channel |-> c, user |-> Head(guildQ)])
    /\ UNCHANGED <<spent, welcome, panels, posted, channelQ, webhookQ>>

\* The channel is there, but the response is lost: the callback gets an error, reports
\* it and returns without add_task.  For the requests below a lost response is
\* nothing new, their callbacks only report: of one that changes the guild it is as if
\* the response had come, of messages_get and the followup as if they had failed.
LoseChannelCreated(c) ==
    /\ CreateChannel(c)
    /\ Spend("response")
    /\ UNCHANGED <<welcome, panels, posted, channelQ, webhookQ, outQ>>

\* The callback of a failed request only reports the error: it is left out.
FailChannelCreate ==
    /\ guildQ # <<>>
    /\ guildQ' = Tail(guildQ)
    /\ Spend("rest")
    /\ UNCHANGED <<channels, opener, welcome, panels, posted, gateway, channelQ,
                   webhookQ, outQ>>

\* The next request to channel c is op; it leaves its queue.
Take(c, op) ==
    /\ channelQ[c] # <<>>
    /\ Head(channelQ[c]).op = op
    /\ channelQ' = [channelQ EXCEPT ![c] = Tail(@)]

RunWelcome(c) ==
    /\ c \in channels
    /\ Take(c, "welcome")
    /\ welcome' = welcome \cup {c}
    /\ UNCHANGED <<spent, channels, opener, panels, posted, gateway, guildQ,
                   webhookQ, outQ>>

RunPanel(c) ==
    /\ c \in channels
    /\ Take(c, "panel")
    /\ posted' = [posted EXCEPT ![c] = @ + 1]
    /\ panels' = [panels EXCEPT ![c] = @ \cup {posted[c] + 1}]
    /\ UNCHANGED <<spent, channels, opener, welcome, gateway, guildQ, webhookQ, outQ>>

\* At most 100 messages around the last one come back: older controls are missed.
RunMessagesGet(c) ==
    /\ c \in channels
    /\ Take(c, "messages_get")
    /\ \E found \in SUBSET panels[c] :
          Complete([op |-> "messages_get", channel |-> c, ids |-> found])
    /\ UNCHANGED <<spent, channels, opener, welcome, panels, posted, gateway,
                   guildQ, webhookQ>>

RunMessageDelete(c) ==
    /\ c \in channels
    /\ Take(c, "message_delete")
    /\ panels' = [panels EXCEPT ![c] = @ \ Head(channelQ[c]).ids]
    /\ UNCHANGED <<spent, channels, opener, welcome, posted, gateway, guildQ,
                   webhookQ, outQ>>

\* The completion only writes to the log channel: it is left out.
RunChannelDelete(c) ==
    /\ c \in channels
    /\ Take(c, "channel_delete")
    /\ channels' = channels \ {c}
    /\ Deliver([type |-> "CHANNEL_DELETE", channel |-> c])
    /\ UNCHANGED <<spent, opener, welcome, panels, posted, guildQ, webhookQ, outQ>>

\* Unknown channel, or any other failure; the callbacks only report it.
FailChannelRequest(c) ==
    /\ \E op \in {"welcome", "panel", "messages_get", "message_delete",
                  "channel_delete"} : Take(c, op)
    /\ IF c \in channels THEN Spend("rest") ELSE UNCHANGED spent
    /\ UNCHANGED <<channels, opener, welcome, panels, posted, gateway, guildQ,
                   webhookQ, outQ>>

\* event.reply() goes to an endpoint of its own, so it is not ordered with the
\* followup that the handler sends after it.
RunReply(i) ==
    /\ i \in DOMAIN webhookQ
    /\ ~webhookQ[i].replied
    /\ webhookQ' = [webhookQ EXCEPT ![i].replied = TRUE]
    /\ UNCHANGED <<spent, channels, opener, welcome, panels, posted, gateway,
                   guildQ, channelQ, outQ>>

\* Discord knows the interaction's webhook only once it was replied to.
RunFollowup ==
    /\ webhookQ # <<>>
    /\ Head(webhookQ).replied
    /\ webhookQ' = Tail(webhookQ)
    /\ Complete([op |-> "followup", channel |-> Head(webhookQ).channel])
    /\ UNCHANGED <<spent, channels, opener, welcome, panels, posted, gateway,
                   guildQ, channelQ>>

FailFollowup ==
    /\ webhookQ # <<>>
    /\ webhookQ' = Tail(webhookQ)
    /\ IF Head(webhookQ).replied THEN Spend("rest") ELSE UNCHANGED spent
    /\ UNCHANGED <<channels, opener, welcome, panels, posted, gateway, guildQ,
                   channelQ, outQ>>

-----------------------------------------------------------------------------

People ==
    \/ \E u \in Users : ClickCreate(u)
    \/ \E c \in Channels :
          \/ \E b \in ButtonEvents : ClickButton(b, c)
          \/ ModeratorDeletes(c)

ChannelThread(c) ==
    \/ RunWelcome(c)
    \/ RunPanel(c)
    \/ RunMessagesGet(c)
    \/ RunMessageDelete(c)
    \/ RunChannelDelete(c)
    \/ FailChannelRequest(c)

RestThreads ==
    \/ FailChannelCreate
    \/ RunFollowup
    \/ FailFollowup
    \/ \E i \in DOMAIN webhookQ : RunReply(i)
    \/ \E c \in Channels : RunChannelCreate(c) \/ LoseChannelCreated(c) \/ ChannelThread(c)

=============================================================================
