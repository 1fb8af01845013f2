------------------------- MODULE TaskLifecycleProofs ------------------------
(***************************************************************************)
(* What TLAPS proves about TaskLifecycle for every number of channels and  *)
(* users and every Limit of clicks, failures and crashes.                  *)
(***************************************************************************)
EXTENDS TaskLifecycle, CommonLemmas

-----------------------------------------------------------------------------
(* The queues. *)

LEMMA DeliverType ==
    ASSUME GuildTypeOK, NEW e \in Event, Deliver(e)
    PROVE  gateway' \in Seq(Event)
BY AppendElements DEF GuildTypeOK, Deliver

LEMMA CompleteType ==
    ASSUME GuildTypeOK, NEW r \in Completion, Complete(r)
    PROVE  outQ' \in Seq(Completion)
BY AppendElements DEF GuildTypeOK, Complete

Ops == {"welcome", "panel", "messages_get", "message_delete", "channel_delete"}

LEMMA PostType ==
    ASSUME GuildTypeOK, NEW c \in Channels, NEW op \in Ops, NEW ids \in SUBSET Nat,
           Post(c, op, ids)
    PROVE  channelQ' \in [Channels -> Seq(Request)]
<1>1. [op |-> op, ids |-> ids] \in Request
  BY DEF Request, Ops
<1>2. Append(channelQ[c], [op |-> op, ids |-> ids]) \in Seq(Request)
  BY <1>1, AppendElements DEF GuildTypeOK
<1> QED BY <1>2 DEF GuildTypeOK, Post

LEMMA TakeType ==
    ASSUME GuildTypeOK, NEW c \in Channels, NEW op, Take(c, op)
    PROVE  /\ channelQ' \in [Channels -> Seq(Request)]
           /\ Head(channelQ[c]) \in Request
<1>1. Tail(channelQ[c]) \in Seq(Request) /\ Head(channelQ[c]) \in Request
  BY TailElements DEF GuildTypeOK, Take
<1> QED BY <1>1 DEF GuildTypeOK, Take

LEMMA ReceiveType ==
    ASSUME GuildTypeOK, NEW type, Receive(type)
    PROVE  /\ Head(gateway) \in Event /\ Head(gateway).type = type
           /\ 1 \in DOMAIN gateway /\ Head(gateway) = gateway[1]
           /\ gateway' \in Seq(Event)
           /\ \A i \in DOMAIN gateway' :
                 i + 1 \in DOMAIN gateway /\ gateway'[i] = gateway[i + 1]
BY TailElements DEF GuildTypeOK, Receive

\* What an event of each type carries.
LEMMA EventFields ==
    ASSUME NEW e \in Event
    PROVE  /\ e.type = "create_task" => e.user \in Users
           /\ e.type \in ButtonEvents \cup {"CHANNEL_CREATE", "CHANNEL_DELETE"}
                 => e.channel \in Channels
BY DEF Event, ButtonEvents

LEMMA CallBackType ==
    ASSUME GuildTypeOK, NEW op, CallBack(op)
    PROVE  /\ Head(outQ) \in Completion /\ Head(outQ).op = op
           /\ outQ' \in Seq(Completion)
BY TailElements DEF GuildTypeOK, CallBack

LEMMA CompletionFields ==
    ASSUME NEW r \in Completion
    PROVE  /\ r.channel \in Channels
           /\ r.op = "channel_create" => r.user \in Users
           /\ r.op = "messages_get" => r.ids \in SUBSET Nat
BY DEF Completion

-----------------------------------------------------------------------------
(* The tables. *)

LEMMA GetterTypes ==
    ASSUME TablesTypeOK, NEW c \in Channels
    PROVE  /\ get_task_creator_id(c) \in Creator
           /\ get_archived_task_creator_id(c) \in Creator
<1>1. find_task(c) => Head(tasks[c]) \in Creator
  BY TailElements DEF TablesTypeOK, Table, find_task
<1>2. find_archived_task(c) => Head(task_archive[c]) \in Creator
  BY TailElements DEF TablesTypeOK, Table, find_archived_task
<1> QED BY <1>1, <1>2 DEF get_task_creator_id, get_archived_task_creator_id, Creator

\* An INSERT adds a row to its channel, and no channel loses one.
LEMMA InsertType ==
    ASSUME NEW t \in Table, NEW c \in Channels, NEW creator \in Creator
    PROVE  [t EXCEPT ![c] = Append(@, creator)] \in Table
<1>1. Append(t[c], creator) \in Seq(Creator)
  BY AppendProperties DEF Table
<1> QED BY <1>1 DEF Table

LEMMA InsertKeeps ==
    ASSUME NEW t \in Table, NEW c \in Channels, NEW creator \in Creator,
           NEW d \in Channels, d = c \/ t[d] # <<>>
    PROVE  [t EXCEPT ![c] = Append(@, creator)][d] # <<>>
<1>1. /\ Append(t[c], creator) \in Seq(Creator)
      /\ Len(Append(t[c], creator)) = Len(t[c]) + 1 /\ Len(t[c]) \in Nat
  BY AppendProperties, LenProperties DEF Table
<1>2. Append(t[c], creator) # <<>>
  BY <1>1, EmptySeq
<1> QED BY <1>2 DEF Table

\* A DELETE leaves the channel without a row and touches no other.
LEMMA DeleteType ==
    ASSUME NEW t \in Table, NEW c \in Channels
    PROVE  /\ [t EXCEPT ![c] = <<>>] \in Table
           /\ [t EXCEPT ![c] = <<>>][c] = <<>>
           /\ \A d \in Channels \ {c} : [t EXCEPT ![c] = <<>>][d] = t[d]
<1>1. <<>> \in Seq(Creator)
  BY EmptySeq
<1> QED BY <1>1 DEF Table

-----------------------------------------------------------------------------
(* Type correctness. *)

LEMMA TypeInit == Init => TypeOK
<1> SUFFICES ASSUME Init
             PROVE  TypeOK
  OBVIOUS
<1>1. BudgetTypeOK
  BY DEF Init, BudgetInit, BudgetTypeOK
<1>2. TablesTypeOK
  BY EmptySeq DEF Init, TablesInit, TablesTypeOK, Table
<1>3. GuildTypeOK
  BY EmptySeq DEF Init, GuildInit, GuildTypeOK, Creator
<1> QED BY <1>1, <1>2, <1>3 DEF Init, TypeOK, Idle, ShardSteps, OutSteps

\* The people only send events, and a moderator's one takes the channel away.
LEMMA TypePeople ==
    ASSUME TypeOK, People
    PROVE  GuildTypeOK' /\ BudgetTypeOK'
<1> USE DEF TypeOK
<1>1. ASSUME NEW u \in Users, ClickCreate(u)
      PROVE  GuildTypeOK' /\ BudgetTypeOK'
  <2>1. [type |-> "create_task", user |-> u] \in Event
    BY DEF Event
  <2>2. gateway' \in Seq(Event)
    BY <2>1, <1>1, DeliverType DEF ClickCreate
  <2>3. BudgetTypeOK'
    BY <1>1, SpendType DEF ClickCreate, Kinds
  <2> QED BY <2>2, <2>3, <1>1 DEF ClickCreate, GuildTypeOK
<1>2. ASSUME NEW c \in Channels, NEW b \in ButtonEvents, ClickButton(b, c)
      PROVE  GuildTypeOK' /\ BudgetTypeOK'
  <2>1. [type |-> b, channel |-> c] \in Event
    BY DEF Event
  <2>2. gateway' \in Seq(Event)
    BY <2>1, <1>2, DeliverType DEF ClickButton
  <2>3. BudgetTypeOK'
    BY <1>2, SpendType DEF ClickButton, Kinds
  <2> QED BY <2>2, <2>3, <1>2 DEF ClickButton, GuildTypeOK
<1>3. ASSUME NEW c \in Channels, ModeratorDeletes(c)
      PROVE  GuildTypeOK' /\ BudgetTypeOK'
  <2>1. [type |-> "CHANNEL_DELETE", channel |-> c] \in Event
    BY DEF Event
  <2>2. gateway' \in Seq(Event)
    BY <2>1, <1>3, DeliverType DEF ModeratorDeletes
  <2>3. BudgetTypeOK'
    BY <1>3, SpendType DEF ModeratorDeletes, Kinds
  <2> QED BY <2>2, <2>3, <1>3 DEF ModeratorDeletes, GuildTypeOK
<1> QED BY <1>1, <1>2, <1>3, People DEF People

\* One step per request that the thread of a channel's endpoint carries out.
LEMMA TypeChannelThread ==
    ASSUME TypeOK, NEW c \in Channels, ChannelThread(c)
    PROVE  GuildTypeOK' /\ BudgetTypeOK'
<1> USE DEF TypeOK
<1>1. CASE RunWelcome(c)
  BY <1>1, TakeType DEF RunWelcome, GuildTypeOK, BudgetTypeOK
<1>2. CASE RunPanel(c)
  <2>1. channelQ' \in [Channels -> Seq(Request)]
    BY <1>2, TakeType DEF RunPanel
  <2>2. panels' \in [Channels -> SUBSET Nat] /\ posted' \in [Channels -> Nat]
    BY <1>2 DEF RunPanel, GuildTypeOK
  <2> QED BY <2>1, <2>2, <1>2 DEF RunPanel, GuildTypeOK, BudgetTypeOK
<1>3. CASE RunMessagesGet(c)
  <2>1. channelQ' \in [Channels -> Seq(Request)]
    BY <1>3, TakeType DEF RunMessagesGet
  <2>2. PICK found \in SUBSET panels[c] :
           Complete([op |-> "messages_get", channel |-> c, ids |-> found])
    BY <1>3 DEF RunMessagesGet
  <2>3. [op |-> "messages_get", channel |-> c, ids |-> found] \in Completion
    BY DEF Completion, GuildTypeOK
  <2>4. outQ' \in Seq(Completion)
    BY <2>2, <2>3, CompleteType
  <2> QED BY <2>1, <2>4, <1>3 DEF RunMessagesGet, GuildTypeOK, BudgetTypeOK
<1>4. CASE RunMessageDelete(c)
  <2>1. channelQ' \in [Channels -> Seq(Request)]
    BY <1>4, TakeType DEF RunMessageDelete
  <2>2. panels' \in [Channels -> SUBSET Nat]
    BY <1>4 DEF RunMessageDelete, GuildTypeOK
  <2> QED BY <2>1, <2>2, <1>4 DEF RunMessageDelete, GuildTypeOK, BudgetTypeOK
<1>5. CASE RunChannelDelete(c)
  <2>1. channelQ' \in [Channels -> Seq(Request)]
    BY <1>5, TakeType DEF RunChannelDelete
  <2>2. [type |-> "CHANNEL_DELETE", channel |-> c] \in Event
    BY DEF Event
  <2>3. gateway' \in Seq(Event)
    BY <2>2, <1>5, DeliverType DEF RunChannelDelete
  <2> QED BY <2>1, <2>3, <1>5 DEF RunChannelDelete, GuildTypeOK, BudgetTypeOK
<1>6. CASE FailChannelRequest(c)
  <2>1. channelQ' \in [Channels -> Seq(Request)]
    BY <1>6, TakeType DEF FailChannelRequest
  <2>2. BudgetTypeOK'
    BY <1>6, SpendType DEF FailChannelRequest, Kinds, BudgetTypeOK
  <2> QED BY <2>1, <2>2, <1>6 DEF FailChannelRequest, GuildTypeOK
<1> QED
  BY <1>1, <1>2, <1>3, <1>4, <1>5, <1>6, ChannelThread(c) DEF ChannelThread

\* The threads of the other endpoints.
LEMMA TypeRestThreads ==
    ASSUME TypeOK, RestThreads
    PROVE  GuildTypeOK' /\ BudgetTypeOK'
<1> USE DEF TypeOK
<1>1. CASE FailChannelCreate
  <2>1. guildQ' \in Seq(Users)
    BY <1>1, TailElements DEF FailChannelCreate, GuildTypeOK
  <2>2. BudgetTypeOK'
    BY <1>1, SpendType DEF FailChannelCreate, Kinds
  <2> QED BY <2>1, <2>2, <1>1 DEF FailChannelCreate, GuildTypeOK
<1>2. CASE RunFollowup
  <2>1. webhookQ' \in Seq(Followup) /\ Head(webhookQ) \in Followup
    BY <1>2, TailElements DEF RunFollowup, GuildTypeOK
  <2>2. [op |-> "followup", channel |-> Head(webhookQ).channel] \in Completion
    BY <2>1 DEF Completion, Followup
  <2>3. outQ' \in Seq(Completion)
    BY <2>2, <1>2, CompleteType DEF RunFollowup
  <2> QED BY <2>1, <2>3, <1>2 DEF RunFollowup, GuildTypeOK, BudgetTypeOK
<1>3. CASE FailFollowup
  <2>1. webhookQ' \in Seq(Followup)
    BY <1>3, TailElements DEF FailFollowup, GuildTypeOK
  <2>2. BudgetTypeOK'
    BY <1>3, SpendType DEF FailFollowup, Kinds, BudgetTypeOK
  <2> QED BY <2>1, <2>2, <1>3 DEF FailFollowup, GuildTypeOK
<1>4. ASSUME NEW i \in DOMAIN webhookQ, RunReply(i)
      PROVE  GuildTypeOK' /\ BudgetTypeOK'
  <2>1. webhookQ \in Seq(Followup) /\ i \in 1..Len(webhookQ)
    BY LenProperties DEF GuildTypeOK
  <2>2. [webhookQ[i] EXCEPT !.replied = TRUE] \in Followup
    <3>1. webhookQ[i] \in Followup
      BY <2>1, ElementOfSeq
    <3> QED BY <3>1 DEF Followup
  <2>3. webhookQ' = [webhookQ EXCEPT ![i] = [webhookQ[i] EXCEPT !.replied = TRUE]]
    BY <1>4 DEF RunReply
  <2>4. webhookQ' \in Seq(Followup)
    BY <2>1, <2>2, <2>3, ExceptSeq
  <2> QED BY <2>4, <1>4 DEF RunReply, GuildTypeOK, BudgetTypeOK
<1>5. ASSUME NEW c \in Channels, CreateChannel(c)
      PROVE  /\ guildQ' \in Seq(Users) /\ Head(guildQ) \in Users
             /\ gateway' \in Seq(Event)
             /\ opener' \in [Channels -> Creator] /\ channels' \in SUBSET Channels
  <2>1. guildQ' \in Seq(Users) /\ Head(guildQ) \in Users
    BY <1>5, TailElements DEF CreateChannel, GuildTypeOK
  <2>2. [type |-> "CHANNEL_CREATE", channel |-> c] \in Event
    BY DEF Event
  <2>3. gateway' \in Seq(Event)
    BY <2>2, <1>5, DeliverType DEF CreateChannel
  <2>4. opener' \in [Channels -> Creator] /\ channels' \in SUBSET Channels
    BY <2>1, <1>5 DEF CreateChannel, GuildTypeOK, Creator
  <2> QED BY <2>1, <2>3, <2>4
<1>6. ASSUME NEW c \in Channels, RunChannelCreate(c)
      PROVE  GuildTypeOK' /\ BudgetTypeOK'
  <2>1. [op |-> "channel_create", channel |-> c, user |-> Head(guildQ)] \in Completion
    BY <1>5, <1>6 DEF Completion, RunChannelCreate
  <2>2. outQ' \in Seq(Completion)
    BY <2>1, <1>6, CompleteType DEF RunChannelCreate
  <2> QED BY <2>2, <1>5, <1>6 DEF RunChannelCreate, GuildTypeOK, BudgetTypeOK
<1>7. ASSUME NEW c \in Channels, LoseChannelCreated(c)
      PROVE  GuildTypeOK' /\ BudgetTypeOK'
  <2>1. BudgetTypeOK'
    BY <1>7, SpendType DEF LoseChannelCreated, Kinds, BudgetTypeOK
  <2> QED BY <2>1, <1>5, <1>7 DEF LoseChannelCreated, GuildTypeOK
<1> QED
  BY <1>1, <1>2, <1>3, <1>4, <1>6, <1>7, TypeChannelThread, RestThreads DEF RestThreads

LEMMA AtTypes ==
    ASSUME NEW c \in Channels
    PROVE  /\ \A step \in ShardSteps :
                 /\ At(step, c) \in [step : ShardSteps, channel : Channels \cup {NoChannel}]
                 /\ At(step, c).channel = c /\ At(step, c).step = step
           /\ \A step \in OutSteps :
                 /\ At(step, c) \in [step : OutSteps, channel : Channels \cup {NoChannel}]
                 /\ At(step, c).channel = c /\ At(step, c).step = step
BY DEF At

ShardOK ==
    /\ shard \in [step : ShardSteps, channel : Channels \cup {NoChannel}]
    /\ shard.step # "idle" => shard.channel \in Channels

OutOK ==
    /\ out \in [step : OutSteps, channel : Channels \cup {NoChannel}]
    /\ out.step # "idle" => out.channel \in Channels

LEMMA IdleTypes ==
    /\ shard = Idle => ShardOK
    /\ out = Idle => OutOK
BY DEF Idle, ShardOK, OutOK, ShardSteps, OutSteps

\* The first step of a handler.
LEMMA TypeReceives ==
    ASSUME TypeOK,
           \/ Refuse \/ CreateTask \/ CloseTask \/ OpenTask \/ DeleteTask
           \/ OnChannelCreate \/ OnChannelDelete
    PROVE  TypeOK'
<1> USE DEF TypeOK
<1> DEFINE e == Head(gateway)
<1>1. CASE Refuse
  <2>1. gateway' \in Seq(Event)
    BY <1>1, ReceiveType DEF Refuse
  <2> QED BY <2>1, <1>1 DEF Refuse, GuildTypeOK, TablesTypeOK, BudgetTypeOK
<1>2. CASE CreateTask
  <2>1. gateway' \in Seq(Event) /\ e.user \in Users
    BY <1>2, ReceiveType, EventFields DEF CreateTask
  <2>2. guildQ' \in Seq(Users)
    BY <2>1, <1>2, AppendElements DEF CreateTask, GuildTypeOK
  <2> QED BY <2>1, <2>2, <1>2 DEF CreateTask, GuildTypeOK, TablesTypeOK, BudgetTypeOK
<1>3. CASE CloseTask
  <2>1. gateway' \in Seq(Event) /\ e.channel \in Channels
    BY <1>3, ReceiveType, EventFields DEF CloseTask, ButtonEvents
  <2>2. BudgetTypeOK'
    BY <1>3, SpendType DEF CloseTask, Query, Kinds, BudgetTypeOK
  <2>3. ShardOK'
    BY <2>1, <1>3, AtTypes DEF CloseTask, ShardOK, ShardSteps
  <2> QED BY <2>1, <2>2, <2>3, <1>3 DEF CloseTask, GuildTypeOK, TablesTypeOK, ShardOK
<1>4. CASE OpenTask
  <2>1. gateway' \in Seq(Event) /\ e.channel \in Channels
    BY <1>4, ReceiveType, EventFields DEF OpenTask, ButtonEvents
  <2>2. BudgetTypeOK'
    BY <1>4, SpendType DEF OpenTask, Query, Kinds, BudgetTypeOK
  <2>3. ShardOK'
    BY <2>1, <1>4, AtTypes DEF OpenTask, ShardOK, ShardSteps
  <2> QED BY <2>1, <2>2, <2>3, <1>4 DEF OpenTask, GuildTypeOK, TablesTypeOK, ShardOK
<1>5. CASE DeleteTask
  <2>1. gateway' \in Seq(Event) /\ e.channel \in Channels
    BY <1>5, ReceiveType, EventFields DEF DeleteTask, ButtonEvents
  <2>2. [channel |-> e.channel, replied |-> FALSE] \in Followup
    BY <2>1 DEF Followup
  <2>3. webhookQ' \in Seq(Followup)
    BY <2>2, <1>5, AppendElements DEF DeleteTask, GuildTypeOK
  <2> QED BY <2>1, <2>3, <1>5 DEF DeleteTask, GuildTypeOK, TablesTypeOK, BudgetTypeOK
<1>6. CASE OnChannelCreate
  <2>1. gateway' \in Seq(Event) /\ e.channel \in Channels
    BY <1>6, ReceiveType, EventFields DEF OnChannelCreate
  <2> QED BY <2>1, <1>6 DEF OnChannelCreate, GuildTypeOK, TablesTypeOK, BudgetTypeOK
<1>7. CASE OnChannelDelete
  <2>1. gateway' \in Seq(Event) /\ e.channel \in Channels
    BY <1>7, ReceiveType, EventFields DEF OnChannelDelete
  <2>2. BudgetTypeOK'
    BY <1>7, SpendType DEF OnChannelDelete, Query, Kinds, BudgetTypeOK
  <2>3. ShardOK'
    <3>1. shard' \in {At("forget_task", e.channel), At("find_archived_task", e.channel)}
      BY <1>7 DEF OnChannelDelete
    <3> QED BY <3>1, <2>1, AtTypes DEF ShardOK, ShardSteps
  <2> QED
    BY <2>1, <2>2, <2>3, <1>7 DEF OnChannelDelete, GuildTypeOK, TablesTypeOK, ShardOK
<1> QED BY <1>1, <1>2, <1>3, <1>4, <1>5, <1>6, <1>7

\* The steps that write to the tables.
LEMMA TypeWrites ==
    ASSUME TypeOK,
           \/ CloseArchives \/ CloseDeletes \/ OpenAdds \/ OpenDeletesArchived
           \/ OnDeleteForgetsTask \/ OnDeleteForgetsArchived
    PROVE  TypeOK'
<1> USE DEF TypeOK
<1> DEFINE c == shard.channel
<1>0. c \in Channels
  BY DEF CloseArchives, CloseDeletes, OpenAdds, OpenDeletesArchived,
     OnDeleteForgetsTask, OnDeleteForgetsArchived
<1>1. get_task_creator_id(c) \in Creator /\ get_archived_task_creator_id(c) \in Creator
      /\ NoUser \in Creator
  BY <1>0, GetterTypes DEF Creator
<1>2. TablesTypeOK'
  BY <1>0, <1>1, InsertType, DeleteType
     DEF CloseArchives, CloseDeletes, OpenAdds, OpenDeletesArchived,
         OnDeleteForgetsTask, OnDeleteForgetsArchived,
         archive_task, delete_task, add_task, delete_archived_task, TablesTypeOK
<1>3. BudgetTypeOK'
  BY SpendType
     DEF CloseArchives, CloseDeletes, OpenAdds, OpenDeletesArchived,
         OnDeleteForgetsTask, OnDeleteForgetsArchived, Kinds, BudgetTypeOK
<1>4. ShardOK'
  <2>1. \/ shard' \in {At("delete_task", c), At("send_panel", c),
                       At("delete_archived_task", c), At("get_messages", c)}
        \/ shard' = Idle
    BY DEF CloseArchives, CloseDeletes, OpenAdds, OpenDeletesArchived,
       OnDeleteForgetsTask, OnDeleteForgetsArchived
  <2> QED BY <2>1, <1>0, AtTypes DEF ShardOK, ShardSteps, Idle
<1>5. GuildTypeOK' /\ UNCHANGED <<cached, out>>
  BY DEF CloseArchives, CloseDeletes, OpenAdds, OpenDeletesArchived,
     OnDeleteForgetsTask, OnDeleteForgetsArchived, GuildTypeOK
<1> QED BY <1>2, <1>3, <1>4, <1>5 DEF ShardOK

\* The steps that post a request, end the handler or look up a row.
LEMMA TypeOtherShard ==
    ASSUME TypeOK,
           CloseSendsPanel \/ OpenGetsMessages \/ OnDeleteFindsArchived \/ HandlerFails
    PROVE  TypeOK'
<1> USE DEF TypeOK
<1>1. CASE CloseSendsPanel
  <2>1. channelQ' \in [Channels -> Seq(Request)]
    BY <1>1, PostType DEF CloseSendsPanel, Ops
  <2>2. ShardOK'
    BY <1>1 DEF CloseSendsPanel, ShardOK, ShardSteps, Idle
  <2> QED
    BY <2>1, <2>2, <1>1
       DEF CloseSendsPanel, GuildTypeOK, TablesTypeOK, BudgetTypeOK, ShardOK
<1>2. CASE OpenGetsMessages
  <2>1. channelQ' \in [Channels -> Seq(Request)]
    BY <1>2, PostType DEF OpenGetsMessages, Ops
  <2>2. ShardOK'
    BY <1>2 DEF OpenGetsMessages, ShardOK, ShardSteps, Idle
  <2> QED
    BY <2>1, <2>2, <1>2
       DEF OpenGetsMessages, GuildTypeOK, TablesTypeOK, BudgetTypeOK, ShardOK
<1>3. CASE OnDeleteFindsArchived
  <2>1. BudgetTypeOK'
    BY <1>3, SpendType DEF OnDeleteFindsArchived, Query, Kinds, BudgetTypeOK
  <2>2. ShardOK'
    <3>1. shard' \in {At("forget_archived_task", shard.channel), Idle}
      BY <1>3 DEF OnDeleteFindsArchived
    <3>2. shard.channel \in Channels
      BY <1>3 DEF OnDeleteFindsArchived
    <3> QED BY <3>1, <3>2, AtTypes DEF ShardOK, ShardSteps, Idle
  <2> QED
    BY <2>1, <2>2, <1>3 DEF OnDeleteFindsArchived, GuildTypeOK, TablesTypeOK, ShardOK
<1>4. CASE HandlerFails
  <2>1. Spend("db") /\ shard' = Idle /\ UNCHANGED <<tasks, task_archive, channelQ>>
    BY <1>4 DEF HandlerFails, CallFails
  <2>2. BudgetTypeOK'
    BY <2>1, SpendType DEF Kinds
  <2>3. ShardOK'
    BY <2>1 DEF ShardOK, ShardSteps, Idle
  <2> QED BY <2>1, <2>2, <2>3, <1>4 DEF HandlerFails, GuildTypeOK, TablesTypeOK, ShardOK
<1> QED BY <1>1, <1>2, <1>3, <1>4

LEMMA TypeCallback ==
    ASSUME TypeOK, CallbackThread
    PROVE  TypeOK'
<1> USE DEF TypeOK
<1> DEFINE r == Head(outQ)
<1>1. CASE OnCreated
  <2>1. r.channel \in Channels /\ r.user \in Creator /\ outQ' \in Seq(Completion)
    BY <1>1, CallBackType, CompletionFields DEF OnCreated, Creator
  <2>2. TablesTypeOK'
    <3>1. tasks' = [tasks EXCEPT ![r.channel] = Append(@, r.user)] \/ tasks' = tasks
      BY <1>1 DEF OnCreated, add_task
    <3>2. tasks' \in Table
      BY <3>1, <2>1, InsertType DEF TablesTypeOK
    <3> QED BY <3>2, <1>1 DEF OnCreated, TablesTypeOK
  <2>3. BudgetTypeOK'
    BY <1>1, SpendType DEF OnCreated, Kinds, BudgetTypeOK
  <2>4. OutOK'
    <3>1. out' = At("send_welcome", r.channel) \/ out' = out
      BY <1>1 DEF OnCreated
    <3> QED BY <3>1, <2>1, AtTypes DEF OutOK, OutSteps
  <2> QED BY <2>1, <2>2, <2>3, <2>4, <1>1 DEF OnCreated, GuildTypeOK, OutOK
<1>2. CASE CreatedSendsWelcome
  <2>1. channelQ' \in [Channels -> Seq(Request)]
    BY <1>2, PostType DEF CreatedSendsWelcome, Ops
  <2>2. OutOK'
    BY <1>2 DEF CreatedSendsWelcome, OutOK, OutSteps, Idle
  <2> QED
    BY <2>1, <2>2, <1>2
       DEF CreatedSendsWelcome, GuildTypeOK, TablesTypeOK, BudgetTypeOK, OutOK
<1>3. CASE OnFollowup
  <2>1. r.channel \in Channels /\ outQ' \in Seq(Completion)
    BY <1>3, CallBackType, CompletionFields DEF OnFollowup
  <2>2. OutOK'
    BY <2>1, <1>3, AtTypes DEF OnFollowup, OutOK, OutSteps
  <2> QED
    BY <2>1, <2>2, <1>3 DEF OnFollowup, GuildTypeOK, TablesTypeOK, BudgetTypeOK, OutOK
<1>4. CASE SleepEnds
  <2>1. channelQ' \in [Channels -> Seq(Request)]
    BY <1>4, PostType DEF SleepEnds, Ops
  <2>2. OutOK'
    BY <1>4 DEF SleepEnds, OutOK, OutSteps, Idle
  <2> QED
    BY <2>1, <2>2, <1>4 DEF SleepEnds, GuildTypeOK, TablesTypeOK, BudgetTypeOK, OutOK
<1>5. CASE OnMessages
  <2>1. /\ r.channel \in Channels /\ r.ids \in SUBSET Nat
        /\ outQ' \in Seq(Completion)
    BY <1>5, CallBackType, CompletionFields DEF OnMessages
  <2>2. channelQ' \in [Channels -> Seq(Request)]
    <3>1. CASE r.ids = {}
      BY <3>1, <1>5 DEF OnMessages, GuildTypeOK
    <3>2. CASE r.ids # {}
      <4>1. Post(r.channel, "message_delete", r.ids)
        BY <3>2, <1>5 DEF OnMessages
      <4> QED BY <4>1, <2>1, PostType DEF Ops
    <3> QED BY <3>1, <3>2
  <2> QED
    BY <2>1, <2>2, <1>5 DEF OnMessages, GuildTypeOK, TablesTypeOK, BudgetTypeOK
<1> QED BY <1>1, <1>2, <1>3, <1>4, <1>5, CallbackThread DEF CallbackThread

LEMMA TypeCrash ==
    ASSUME TypeOK, Crash
    PROVE  TypeOK'
<1> USE DEF TypeOK
<1>1. BudgetTypeOK'
  BY SpendType DEF Crash, Kinds
<1>2. GuildTypeOK' /\ cached' \in SUBSET Channels
  BY EmptySeq DEF Crash, GuildTypeOK
<1> QED
  BY <1>1, <1>2 DEF Crash, TablesTypeOK, Idle, ShardSteps, OutSteps

LEMMA TypeStep == TypeOK /\ [Next]_vars => TypeOK'
<1> SUFFICES ASSUME TypeOK, [Next]_vars
             PROVE  TypeOK'
  OBVIOUS
<1>1. CASE ShardThread
  BY <1>1, TypeReceives, TypeWrites, TypeOtherShard DEF ShardThread
<1>2. CASE CallbackThread
  BY <1>2, TypeCallback
<1>3. CASE Environment
  <2>1. GuildTypeOK' /\ BudgetTypeOK'
    BY <1>3, TypePeople, TypeRestThreads DEF Environment
  <2> QED BY <2>1, <1>3 DEF Environment, TypeOK, TablesTypeOK
<1>4. CASE Crash
  BY <1>4, TypeCrash
<1>5. CASE UNCHANGED vars
  BY <1>5 DEF vars, TypeOK, BudgetTypeOK, TablesTypeOK, GuildTypeOK
<1> QED BY <1>1, <1>2, <1>3, <1>4, <1>5, [Next]_vars DEF Next

\* Every variable keeps its type: no handler or callback is ever at work on a channel
\* it does not have, and whatever is in the queues can be carried out.
THEOREM TypeCorrect == Spec => []TypeOK
<1>1. TypeOK /\ [Next]_vars => TypeOK'
  BY TypeStep
<1> QED BY TypeInit, <1>1, PTL DEF Spec

-----------------------------------------------------------------------------
(* RecordKept.  Rows are deleted by four steps.  Two of them, of close_task and *)
(* of open_task, are safe because the row was stored in the other table before  *)
(* and nobody has taken it from there since.  The other two, of                 *)
(* on_channel_delete, are safe because the channel does not exist, and it never *)
(* will again: Discord does not reuse the identifier of a channel.              *)

Gone(c) == c \notin channels /\ opener[c] # NoUser

\* Gone(c) in the next state, for a c that may itself speak of the next state.
GoneNext(c) == c \notin channels' /\ opener'[c] # NoUser

Forgetting == {"find_archived_task", "forget_task", "forget_archived_task"}

OpenedInv == \A c \in channels : opener[c] # NoUser

GatewayInv ==
    \A i \in DOMAIN gateway :
        gateway[i].type = "CHANNEL_DELETE" => Gone(gateway[i].channel)

ForgettingInv == shard.step \in Forgetting => Gone(shard.channel)

MovingInv ==
    /\ shard.step = "delete_task" => find_archived_task(shard.channel)
    /\ shard.step = "delete_archived_task" => find_task(shard.channel)

RecordInv == OpenedInv /\ GatewayInv /\ ForgettingInv /\ MovingInv

LEMMA RecordInit == Init => RecordInv
BY EmptySeq
   DEF Init, GuildInit, Idle, Forgetting, RecordInv, OpenedInv, GatewayInv,
       ForgettingInv, MovingInv

\* Channels only appear for the first time, and disappear.
LEMMA ChannelMoves ==
    ASSUME TypeOK, [Next]_vars
    PROVE  \/ UNCHANGED <<channels, opener>>
           \/ \E c \in channels : channels' = channels \ {c} /\ opener' = opener
           \/ \E c \in Channels, u \in Users :
                 /\ opener[c] = NoUser
                 /\ opener' = [opener EXCEPT ![c] = u]
                 /\ channels' = channels \cup {c}
<1>1. CASE ShardThread \/ CallbackThread \/ Crash \/ UNCHANGED vars
  BY <1>1
     DEF ShardThread, Refuse, CreateTask, CloseTask, CloseArchives, CloseDeletes,
         CloseSendsPanel, OpenTask, OpenAdds, OpenDeletesArchived, OpenGetsMessages,
         DeleteTask, OnChannelCreate, OnChannelDelete, OnDeleteFindsArchived,
         OnDeleteForgetsTask, OnDeleteForgetsArchived, HandlerFails,
         CallbackThread, OnCreated, CreatedSendsWelcome, OnFollowup, SleepEnds,
         OnMessages, Crash, vars
<1>2. CASE People
  BY <1>2 DEF People, ClickCreate, ClickButton, ModeratorDeletes
<1>3. ASSUME NEW c \in Channels, ChannelThread(c)
      PROVE  \/ UNCHANGED <<channels, opener>>
             \/ \E d \in channels : channels' = channels \ {d} /\ opener' = opener
  BY <1>3 DEF ChannelThread, RunWelcome, RunPanel, RunMessagesGet, RunMessageDelete,
     RunChannelDelete, FailChannelRequest
<1>4. ASSUME NEW c \in Channels, RunChannelCreate(c) \/ LoseChannelCreated(c)
      PROVE  \E u \in Users :
                 /\ opener[c] = NoUser
                 /\ opener' = [opener EXCEPT ![c] = u]
                 /\ channels' = channels \cup {c}
  <2>1. Head(guildQ) \in Users
    BY <1>4, TypeOK, TailElements
       DEF RunChannelCreate, LoseChannelCreated, CreateChannel, TypeOK, GuildTypeOK
  <2> QED BY <2>1, <1>4 DEF RunChannelCreate, LoseChannelCreated, CreateChannel
<1>5. CASE FailChannelCreate \/ RunFollowup \/ FailFollowup
           \/ \E i \in DOMAIN webhookQ : RunReply(i)
  BY <1>5 DEF FailChannelCreate, RunFollowup, FailFollowup, RunReply
<1> QED
  BY <1>1, <1>2, <1>3, <1>4, <1>5, [Next]_vars DEF Next, Environment, RestThreads

LEMMA GoneForever ==
    ASSUME TypeOK, [Next]_vars, NEW c \in Channels, Gone(c)
    PROVE  GoneNext(c)
BY ChannelMoves, TypeOK, NoUserAssumption DEF Gone, GoneNext, TypeOK, GuildTypeOK

LEMMA JustDeleted ==
    ASSUME TypeOK, OpenedInv, [Next]_vars, NEW c \in channels \ channels'
    PROVE  GoneNext(c)
BY ChannelMoves, TypeOK DEF OpenedInv, GoneNext, TypeOK, GuildTypeOK

LEMMA OpenedStep ==
    ASSUME TypeOK, OpenedInv, [Next]_vars
    PROVE  OpenedInv'
BY ChannelMoves, TypeOK, NoUserAssumption DEF OpenedInv, TypeOK, GuildTypeOK

\* A CHANNEL_DELETE on its way is an old one or that of the channel just deleted.
LEMMA GatewayMoves ==
    ASSUME TypeOK, [Next]_vars, NEW i \in DOMAIN gateway',
           gateway'[i].type = "CHANNEL_DELETE"
    PROVE  \/ \E j \in DOMAIN gateway : gateway'[i] = gateway[j]
           \/ gateway'[i].channel \in channels \ channels'
<1> DEFINE Old == \E j \in DOMAIN gateway : gateway'[i] = gateway[j]
<1>0. gateway \in Seq(Event) /\ GuildTypeOK
  BY TypeOK DEF TypeOK, GuildTypeOK
<1>1. ASSUME gateway' = gateway
      PROVE  Old
  BY <1>1
<1>2. ASSUME NEW e \in Event, Deliver(e)
      PROVE  Old \/ gateway'[i] = e
  BY <1>0, <1>2, AppendElements DEF Deliver
<1>3. ASSUME NEW type, Receive(type)
      PROVE  Old
  BY <1>0, <1>3, ReceiveType
<1>4. CASE ShardThread
  <2>1. \/ gateway' = gateway
        \/ \E b \in {"create_task"} \cup ButtonEvents : Receive(b)
        \/ \E b \in {"CHANNEL_CREATE", "CHANNEL_DELETE"} : Receive(b)
    BY <1>4
       DEF ShardThread, Refuse, CreateTask, CloseTask, CloseArchives, CloseDeletes,
           CloseSendsPanel, OpenTask, OpenAdds, OpenDeletesArchived, OpenGetsMessages,
           DeleteTask, OnChannelCreate, OnChannelDelete, OnDeleteFindsArchived,
           OnDeleteForgetsTask, OnDeleteForgetsArchived, HandlerFails, ButtonEvents
  <2> QED BY <2>1, <1>1, <1>3
<1>5. CASE CallbackThread \/ UNCHANGED vars
  BY <1>1, <1>5
     DEF CallbackThread, OnCreated, CreatedSendsWelcome, OnFollowup, SleepEnds,
         OnMessages, vars
<1>6. CASE Crash
  BY <1>6 DEF Crash
<1>7. CASE People
  <2>1. ASSUME NEW u \in Users, ClickCreate(u)
        PROVE  Old
    <3>1. [type |-> "create_task", user |-> u] \in Event
      BY DEF Event
    <3> QED BY <3>1, <2>1, <1>2 DEF ClickCreate
  <2>2. ASSUME NEW c \in Channels, NEW b \in ButtonEvents, ClickButton(b, c)
        PROVE  Old
    <3>1. [type |-> b, channel |-> c] \in Event
      BY DEF Event
    <3> QED BY <3>1, <2>2, <1>2 DEF ClickButton, ButtonEvents
  <2>3. ASSUME NEW c \in Channels, ModeratorDeletes(c)
        PROVE  Old \/ gateway'[i].channel \in channels \ channels'
    <3>1. [type |-> "CHANNEL_DELETE", channel |-> c] \in Event
      BY DEF Event
    <3> QED BY <3>1, <2>3, <1>2 DEF ModeratorDeletes
  <2> QED BY <2>1, <2>2, <2>3, <1>7 DEF People
<1>8. ASSUME NEW c \in Channels, ChannelThread(c)
      PROVE  Old \/ gateway'[i].channel \in channels \ channels'
  <2>1. CASE RunChannelDelete(c)
    <3>1. [type |-> "CHANNEL_DELETE", channel |-> c] \in Event
      BY DEF Event
    <3> QED BY <3>1, <2>1, <1>2 DEF RunChannelDelete
  <2>2. CASE ~RunChannelDelete(c)
    BY <2>2, <1>1, <1>8
       DEF ChannelThread, RunWelcome, RunPanel, RunMessagesGet, RunMessageDelete,
           FailChannelRequest
  <2> QED BY <2>1, <2>2
<1>9. ASSUME NEW c \in Channels, RunChannelCreate(c) \/ LoseChannelCreated(c)
      PROVE  Old
  <2>1. [type |-> "CHANNEL_CREATE", channel |-> c] \in Event
    BY DEF Event
  <2> QED BY <2>1, <1>2, <1>9 DEF RunChannelCreate, LoseChannelCreated, CreateChannel
<1>10. CASE FailChannelCreate \/ RunFollowup \/ FailFollowup
            \/ \E k \in DOMAIN webhookQ : RunReply(k)
  BY <1>1, <1>10 DEF FailChannelCreate, RunFollowup, FailFollowup, RunReply
<1> QED
  BY <1>4, <1>5, <1>6, <1>7, <1>8, <1>9, <1>10, [Next]_vars
     DEF Next, Environment, RestThreads

LEMMA GatewayStep ==
    ASSUME TypeOK, OpenedInv, GatewayInv, [Next]_vars
    PROVE  GatewayInv'
<1> SUFFICES ASSUME NEW i \in DOMAIN gateway', gateway'[i].type = "CHANNEL_DELETE"
             PROVE  GoneNext(gateway'[i].channel)
  BY DEF GatewayInv, Gone, GoneNext
<1>1. ASSUME NEW j \in DOMAIN gateway, gateway'[i] = gateway[j]
      PROVE  GoneNext(gateway'[i].channel)
  <2>1. gateway \in Seq(Event)
    BY TypeOK DEF TypeOK, GuildTypeOK
  <2>2. gateway[j] \in Event
    BY <2>1, ElementOfSeq, LenProperties
  <2>3. gateway[j].channel \in Channels /\ Gone(gateway[j].channel)
    BY <2>2, <1>1, EventFields DEF GatewayInv
  <2>4. GoneNext(gateway[j].channel)
    BY <2>3, GoneForever
  <2> QED BY <2>4, <1>1
<1>2. CASE gateway'[i].channel \in channels \ channels'
  BY <1>2, JustDeleted
<1> QED BY <1>1, <1>2, GatewayMoves

\* The handlers' control flow: how the shard thread gets to the steps that delete.
LEMMA ShardMoves ==
    ASSUME [Next]_vars
    PROVE  \/ shard' = shard
           \/ shard'.step \in {"idle", "archive_task", "send_panel", "add_task",
                               "get_messages"}
           \/ CloseArchives /\ shard' = At("delete_task", shard.channel)
           \/ OpenAdds /\ shard' = At("delete_archived_task", shard.channel)
           \/ /\ OnChannelDelete
              /\ shard' \in {At("forget_task", Head(gateway).channel),
                             At("find_archived_task", Head(gateway).channel)}
           \/ /\ OnDeleteFindsArchived
              /\ shard' = At("forget_archived_task", shard.channel)
<1> USE DEF At, Idle
<1>1. CASE Refuse \/ CreateTask \/ DeleteTask \/ OnChannelCreate
  BY <1>1 DEF Refuse, CreateTask, DeleteTask, OnChannelCreate
<1>7. CASE CloseTask \/ OpenTask
  <2>1. shard' \in {At("archive_task", Head(gateway).channel),
                   At("add_task", Head(gateway).channel)}
    BY <1>7 DEF CloseTask, OpenTask
  <2> QED BY <2>1
<1>0. CASE \/ CloseDeletes \/ CloseSendsPanel \/ OpenDeletesArchived \/ OpenGetsMessages
           \/ OnDeleteForgetsTask \/ OnDeleteForgetsArchived
  BY <1>0
     DEF CloseDeletes, CloseSendsPanel, OpenDeletesArchived, OpenGetsMessages,
         OnDeleteForgetsTask, OnDeleteForgetsArchived
<1>2. CASE HandlerFails
  BY <1>2 DEF HandlerFails, CallFails
<1>3. CASE CloseArchives \/ OpenAdds
  BY <1>3 DEF CloseArchives, OpenAdds
<1>4. CASE OnChannelDelete
  BY <1>4 DEF OnChannelDelete
<1>5. CASE OnDeleteFindsArchived
  BY <1>5 DEF OnDeleteFindsArchived
<1>6. CASE CallbackThread \/ Environment \/ Crash \/ UNCHANGED vars
  BY <1>6
     DEF CallbackThread, OnCreated, CreatedSendsWelcome, OnFollowup, SleepEnds,
         OnMessages, Environment, Crash, vars
<1> QED
  BY <1>0, <1>1, <1>2, <1>3, <1>4, <1>5, <1>6, <1>7, [Next]_vars DEF Next, ShardThread

\* on_channel_delete stays with the channel of the event it was called for.
LEMMA ForgettingStep ==
    ASSUME TypeOK, GatewayInv, ForgettingInv, [Next]_vars
    PROVE  ForgettingInv'
<1> SUFFICES ASSUME shard'.step \in Forgetting
             PROVE  GoneNext(shard'.channel)
  BY DEF ForgettingInv, Gone, GoneNext
<1>1. ASSUME shard.step \in Forgetting, shard'.channel = shard.channel
      PROVE  GoneNext(shard'.channel)
  <2>1. shard.channel \in Channels /\ Gone(shard.channel)
    BY <1>1, TypeOK DEF TypeOK, ForgettingInv, Forgetting
  <2> QED BY <2>1, <1>1, GoneForever
<1>2. CASE OnChannelDelete
  <2>1. /\ Head(gateway) \in Event /\ Head(gateway).type = "CHANNEL_DELETE"
        /\ 1 \in DOMAIN gateway /\ Head(gateway) = gateway[1]
    BY <1>2, TypeOK, ReceiveType DEF OnChannelDelete, TypeOK
  <2>2. Head(gateway).channel \in Channels /\ Gone(Head(gateway).channel)
    BY <2>1, EventFields DEF GatewayInv
  <2>3. shard'.channel = Head(gateway).channel
    BY <1>2 DEF OnChannelDelete, At
  <2> QED BY <2>2, <2>3, GoneForever
<1>3. CASE OnDeleteFindsArchived /\ shard' = At("forget_archived_task", shard.channel)
  BY <1>1, <1>3 DEF OnDeleteFindsArchived, Forgetting, At
<1>4. CASE shard' = shard
  BY <1>1, <1>4
<1>5. ~(CloseArchives /\ shard' = At("delete_task", shard.channel))
      /\ ~(OpenAdds /\ shard' = At("delete_archived_task", shard.channel))
  BY DEF At, Forgetting
<1> QED BY <1>2, <1>3, <1>4, <1>5, ShardMoves DEF Forgetting

\* What becomes of the tables in a step: nothing, or one row or one channel.
LEMMA TableMoves ==
    ASSUME TypeOK, [Next]_vars
    PROVE  \/ UNCHANGED <<tasks, task_archive>>
           \/ \E c \in Channels, u \in Creator :
                 \/ add_task(c, u) /\ UNCHANGED task_archive
                 \/ archive_task(c, u) /\ UNCHANGED tasks
           \/ /\ CloseDeletes \/ OnDeleteForgetsTask
              /\ delete_task(shard.channel) /\ UNCHANGED task_archive
           \/ /\ OpenDeletesArchived \/ OnDeleteForgetsArchived
              /\ delete_archived_task(shard.channel) /\ UNCHANGED tasks
<1>1. CASE CloseDeletes \/ OnDeleteForgetsTask \/ OpenDeletesArchived
           \/ OnDeleteForgetsArchived
  BY <1>1 DEF CloseDeletes, OnDeleteForgetsTask, OpenDeletesArchived,
     OnDeleteForgetsArchived
<1>2. CASE CloseArchives \/ OpenAdds
  <2>1. /\ shard.channel \in Channels
        /\ get_task_creator_id(shard.channel) \in Creator
        /\ get_archived_task_creator_id(shard.channel) \in Creator
        /\ NoUser \in Creator
    BY <1>2, TypeOK, GetterTypes DEF CloseArchives, OpenAdds, TypeOK, Creator
  <2> QED BY <2>1, <1>2 DEF CloseArchives, OpenAdds
<1>3. CASE OnCreated
  <2>1. Head(outQ).channel \in Channels /\ Head(outQ).user \in Creator
    BY <1>3, TypeOK, CallBackType, CompletionFields DEF OnCreated, TypeOK, Creator
  <2> QED BY <2>1, <1>3 DEF OnCreated
<1>4. CASE \/ CallbackThread /\ ~OnCreated
           \/ Environment \/ Crash \/ UNCHANGED vars
  BY <1>4
     DEF CallbackThread, CreatedSendsWelcome, OnFollowup, SleepEnds, OnMessages,
         Environment, Crash, vars
<1>5. CASE \/ Refuse \/ CreateTask \/ CloseTask \/ CloseSendsPanel \/ OpenTask
           \/ OpenGetsMessages \/ DeleteTask \/ OnChannelCreate \/ OnChannelDelete
           \/ OnDeleteFindsArchived \/ HandlerFails
  BY <1>5
     DEF Refuse, CreateTask, CloseTask, CloseSendsPanel, OpenTask, OpenGetsMessages,
         DeleteTask, OnChannelCreate, OnChannelDelete, OnDeleteFindsArchived,
         HandlerFails, CallFails
<1> QED
  BY <1>1, <1>2, <1>3, <1>4, <1>5, [Next]_vars DEF Next, ShardThread, CallbackThread

\* A row that a moving handler relies on is only ever deleted by the shard thread
\* itself, so it is still there at the handler's next step.
LEMMA MovingStep ==
    ASSUME TypeOK, MovingInv, [Next]_vars
    PROVE  MovingInv'
<1>0. /\ tasks \in Table /\ task_archive \in Table
      /\ shard.step # "idle" => shard.channel \in Channels
  BY TypeOK DEF TypeOK, TablesTypeOK
<1>1. CASE shard' = shard
  <2>1. ASSUME shard.step = "delete_task"
        PROVE  task_archive'[shard.channel] # <<>>
    <3>1. \/ task_archive' = task_archive
          \/ \E c \in Channels, u \in Creator :
                task_archive' = [task_archive EXCEPT ![c] = Append(@, u)]
      BY <2>1, <1>1, TableMoves
         DEF archive_task, OpenDeletesArchived, OnDeleteForgetsArchived
    <3>2. shard.channel \in Channels /\ task_archive[shard.channel] # <<>>
      BY <2>1, <1>0 DEF MovingInv, find_archived_task
    <3> QED BY <3>1, <3>2, <1>0, InsertKeeps
  <2>2. ASSUME shard.step = "delete_archived_task"
        PROVE  tasks'[shard.channel] # <<>>
    <3>1. \/ tasks' = tasks
          \/ \E c \in Channels, u \in Creator :
                tasks' = [tasks EXCEPT ![c] = Append(@, u)]
      BY <2>2, <1>1, TableMoves DEF add_task, CloseDeletes, OnDeleteForgetsTask
    <3>2. shard.channel \in Channels /\ tasks[shard.channel] # <<>>
      BY <2>2, <1>0 DEF MovingInv, find_task
    <3> QED BY <3>1, <3>2, <1>0, InsertKeeps
  <2> QED BY <2>1, <2>2, <1>1 DEF MovingInv, find_task, find_archived_task
<1>2. CASE CloseArchives /\ shard' = At("delete_task", shard.channel)
  <2>1. shard.channel \in Channels
    BY <1>0, <1>2 DEF CloseArchives
  <2>2. PICK u \in Creator : archive_task(shard.channel, u)
    BY <2>1, <1>2, TypeOK, GetterTypes DEF CloseArchives, TypeOK, Creator
  <2>3. task_archive'[shard.channel] # <<>>
    BY <2>1, <2>2, <1>0, InsertKeeps DEF archive_task
  <2> QED BY <2>3, <1>2 DEF MovingInv, At, find_archived_task
<1>3. CASE OpenAdds /\ shard' = At("delete_archived_task", shard.channel)
  <2>1. shard.channel \in Channels
    BY <1>0, <1>3 DEF OpenAdds
  <2>2. PICK u \in Creator : add_task(shard.channel, u)
    BY <2>1, <1>3, TypeOK, GetterTypes DEF OpenAdds, TypeOK, Creator
  <2>3. tasks'[shard.channel] # <<>>
    BY <2>1, <2>2, <1>0, InsertKeeps DEF add_task
  <2> QED BY <2>3, <1>3 DEF MovingInv, At, find_task
<1>4. CASE shard'.step \notin {"delete_task", "delete_archived_task"}
  BY <1>4 DEF MovingInv
<1> QED BY <1>1, <1>2, <1>3, <1>4, ShardMoves DEF At

LEMMA RecordStep == TypeOK /\ RecordInv /\ [Next]_vars => RecordInv'
BY OpenedStep, GatewayStep, ForgettingStep, MovingStep DEF RecordInv

\* The one step of a deletion, seen from the channel that exists and is recorded.
LEMMA RecordedKept ==
    ASSUME TypeOK, RecordInv, [Next]_vars, NEW c \in channels', Recorded(c)
    PROVE  Recorded(c)'
<1>0. /\ tasks \in Table /\ task_archive \in Table /\ c \in Channels
      /\ shard.step # "idle" => shard.channel \in Channels
  BY TypeOK, TypeStep DEF TypeOK, TablesTypeOK, GuildTypeOK
<1>1. CASE UNCHANGED <<tasks, task_archive>>
  BY <1>1 DEF Recorded, find_task, find_archived_task
<1>2. ASSUME NEW d \in Channels, NEW u \in Creator,
             \/ add_task(d, u) /\ UNCHANGED task_archive
             \/ archive_task(d, u) /\ UNCHANGED tasks
      PROVE  Recorded(c)'
  <2>1. /\ tasks[c] # <<>> => tasks'[c] # <<>>
        /\ task_archive[c] # <<>> => task_archive'[c] # <<>>
    BY <1>0, <1>2, InsertKeeps DEF add_task, archive_task
  <2> QED BY <2>1 DEF Recorded, find_task, find_archived_task
<1>3. CASE /\ CloseDeletes \/ OnDeleteForgetsTask
           /\ delete_task(shard.channel) /\ UNCHANGED task_archive
  <2>1. shard.channel \in Channels
    BY <1>0, <1>3 DEF CloseDeletes, OnDeleteForgetsTask
  <2>2. CASE c # shard.channel
    BY <2>1, <2>2, <1>0, <1>3, DeleteType
       DEF delete_task, Recorded, find_task, find_archived_task
  <2>3. CASE CloseDeletes /\ c = shard.channel
    BY <2>3, <1>3
       DEF RecordInv, MovingInv, CloseDeletes, Recorded, find_task, find_archived_task
  <2>4. CASE OnDeleteForgetsTask /\ c = shard.channel
    BY <2>4 DEF RecordInv, ForgettingInv, Forgetting, Gone, OnDeleteForgetsTask
  <2> QED BY <2>2, <2>3, <2>4, <1>3
<1>4. CASE /\ OpenDeletesArchived \/ OnDeleteForgetsArchived
           /\ delete_archived_task(shard.channel) /\ UNCHANGED tasks
  <2>1. shard.channel \in Channels
    BY <1>0, <1>4 DEF OpenDeletesArchived, OnDeleteForgetsArchived
  <2>2. CASE c # shard.channel
    BY <2>1, <2>2, <1>0, <1>4, DeleteType
       DEF delete_archived_task, Recorded, find_task, find_archived_task
  <2>3. CASE OpenDeletesArchived /\ c = shard.channel
    BY <2>3, <1>4
       DEF RecordInv, MovingInv, OpenDeletesArchived, Recorded, find_task,
           find_archived_task
  <2>4. CASE OnDeleteForgetsArchived /\ c = shard.channel
    BY <2>4 DEF RecordInv, ForgettingInv, Forgetting, Gone, OnDeleteForgetsArchived
  <2> QED BY <2>2, <2>3, <2>4, <1>4
<1> QED BY <1>1, <1>2, <1>3, <1>4, TableMoves

\* No step - a failing call, a crash half way through close_task or open_task, the
\* callback of another task - makes the database forget a task whose channel exists.
THEOREM RecordsAreKept == Spec => RecordKept
<1>1. TypeOK /\ RecordInv /\ [Next]_vars => RecordInv'
  BY RecordStep
<1>2. TypeOK /\ RecordInv /\ [Next]_vars
         => [\A c \in channels' : Recorded(c) => Recorded(c)']_vars
  BY RecordedKept
<1> QED BY TypeCorrect, RecordInit, <1>1, <1>2, PTL DEF Spec, RecordKept

=============================================================================
