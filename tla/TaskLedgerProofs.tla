--------------------------- MODULE TaskLedgerProofs --------------------------
(***************************************************************************)
(* TaskLifecycle implements TaskLedger, for every number of channels and   *)
(* users and every Limit of clicks, failures and crashes; and, as they     *)
(* need the same account of who writes which row, the safety invariants of *)
(* TaskLifecycle: CreatorKept, OpenXorClosed, NoOrphan and NotStranded.    *)
(***************************************************************************)
EXTENDS TaskLifecycleProofs

-----------------------------------------------------------------------------
(* The invariants the step from one ledger entry to the next relies on.       *)

Creation(i) == i \in DOMAIN outQ /\ outQ[i].op = "channel_create"

\* A channel whose callback has not run has no row, and only one callback.
PendingInv ==
    /\ \A i \in DOMAIN outQ : Creation(i) =>
          /\ ~Recorded(outQ[i].channel)
          /\ opener[outQ[i].channel] = outQ[i].user
    /\ \A i, j \in DOMAIN outQ :
          Creation(i) /\ Creation(j) /\ outQ[i].channel = outQ[j].channel => i = j

\* Rows are about channels that were asked for.
AskedInv == \A c \in Channels : Recorded(c) => opener[c] # NoUser

\* What close_task and open_task found stays there until they use it.
FoundInv ==
    /\ shard.step = "archive_task" => find_task(shard.channel)
    /\ shard.step = "add_task" => find_archived_task(shard.channel)

LedgerInv == PendingInv /\ AskedInv /\ FoundInv /\ CreatorKept

LEMMA LedgerInit == Init => LedgerInv
<1> SUFFICES ASSUME Init
             PROVE  LedgerInv
  OBVIOUS
<1>1. /\ outQ = <<>> /\ shard = Idle
      /\ \A c \in Channels : tasks[c] = <<>> /\ task_archive[c] = <<>>
  BY DEF Init, GuildInit, TablesInit
<1>2. DOMAIN outQ = {} /\ DOMAIN <<>> = {}
  BY <1>1
<1>3. PendingInv
  BY <1>2 DEF PendingInv
<1>4. AskedInv
  BY <1>1 DEF AskedInv, Recorded, find_task, find_archived_task
<1>5. FoundInv
  BY <1>1 DEF FoundInv, Idle
<1>6. CreatorKept
  BY <1>1, <1>2 DEF CreatorKept
<1> QED BY <1>3, <1>4, <1>5, <1>6 DEF LedgerInv

-----------------------------------------------------------------------------
(* The completions: what a step does to the queue of the callback thread.      *)

LEMMA OutMoves ==
    ASSUME TypeOK, [Next]_vars
    PROVE  \/ outQ' = outQ
           \/ Crash
           \/ OnCreated
           \/ (OnFollowup \/ OnMessages)
           \/ \E r \in Completion : r.op # "channel_create" /\ Complete(r)
           \/ \E c \in Channels :
                 RunChannelCreate(c) /\ UNCHANGED <<tasks, task_archive, shard>>
<1>1. CASE ShardThread \/ UNCHANGED vars
  BY <1>1
     DEF ShardThread, Refuse, CreateTask, CloseTask, CloseArchives, CloseDeletes,
         CloseSendsPanel, OpenTask, OpenAdds, OpenDeletesArchived, OpenGetsMessages,
         DeleteTask, OnChannelCreate, OnChannelDelete, OnDeleteFindsArchived,
         OnDeleteForgetsTask, OnDeleteForgetsArchived, HandlerFails, vars
<1>2. CASE CallbackThread
  BY <1>2 DEF CallbackThread, CreatedSendsWelcome, SleepEnds
<1>3. CASE People
  BY <1>3 DEF People, ClickCreate, ClickButton, ModeratorDeletes
<1>4. ASSUME NEW c \in Channels, ChannelThread(c)
      PROVE  \/ outQ' = outQ
             \/ \E r \in Completion : r.op # "channel_create" /\ Complete(r)
  <2>1. CASE RunMessagesGet(c)
    <3>1. PICK found \in SUBSET panels[c] :
             Complete([op |-> "messages_get", channel |-> c, ids |-> found])
      BY <2>1 DEF RunMessagesGet
    <3>2. [op |-> "messages_get", channel |-> c, ids |-> found] \in Completion
      BY TypeOK DEF Completion, TypeOK, GuildTypeOK
    <3> QED BY <3>1, <3>2
  <2>2. CASE ~RunMessagesGet(c)
    BY <1>4, <2>2
       DEF ChannelThread, RunWelcome, RunPanel, RunMessageDelete, RunChannelDelete,
           FailChannelRequest
  <2> QED BY <2>1, <2>2
<1>5. CASE RunFollowup
  <2>1. Head(webhookQ).channel \in Channels
    <3>1. Head(webhookQ) \in Followup
      BY <1>5, TypeOK, TailElements DEF RunFollowup, TypeOK, GuildTypeOK
    <3> QED BY <3>1 DEF Followup
  <2>2. [op |-> "followup", channel |-> Head(webhookQ).channel] \in Completion
    BY <2>1 DEF Completion
  <2> QED BY <2>2, <1>5 DEF RunFollowup
<1>6. CASE \/ FailChannelCreate \/ FailFollowup
           \/ \E i \in DOMAIN webhookQ : RunReply(i)
           \/ \E c \in Channels : LoseChannelCreated(c)
  BY <1>6 DEF FailChannelCreate, FailFollowup, RunReply, LoseChannelCreated
<1> QED
  BY <1>1, <1>2, <1>3, <1>4, <1>5, <1>6, [Next]_vars DEF Next, Environment, RestThreads

\* A creation that is still in the queue was there before, further back if the
\* callback thread took one, or it is the one that was just carried out.
LEMMA CreationMoves ==
    ASSUME TypeOK, [Next]_vars
    PROVE  \E shift \in {0, 1} : \A i \in DOMAIN outQ' :
              outQ'[i].op = "channel_create" =>
                 \/ Creation(i + shift) /\ outQ[i + shift] = outQ'[i]
                 \/ /\ RunChannelCreate(outQ'[i].channel)
                    /\ outQ'[i].user = Head(guildQ)
                    /\ UNCHANGED <<tasks, task_archive>>
                    /\ i = Len(outQ) + 1 /\ shift = 0
<1>0. outQ \in Seq(Completion) /\ GuildTypeOK
  BY TypeOK DEF TypeOK, GuildTypeOK
<1>00. DOMAIN outQ \subseteq Nat
  BY <1>0, LenProperties
<1>1. ASSUME outQ' = outQ
      PROVE  \A i \in DOMAIN outQ' : outQ'[i].op = "channel_create" =>
                Creation(i + 0) /\ outQ[i + 0] = outQ'[i]
  <2>1. \A i \in DOMAIN outQ : i + 0 = i
    BY <1>00
  <2> QED BY <2>1, <1>1 DEF Creation
<1>2. CASE Crash
  BY <1>2 DEF Crash
<1>3. ASSUME OnCreated \/ OnFollowup \/ OnMessages
      PROVE  \A i \in DOMAIN outQ' : outQ'[i].op = "channel_create" =>
                Creation(i + 1) /\ outQ[i + 1] = outQ'[i]
  <2>1. outQ # <<>> /\ outQ' = Tail(outQ)
    BY <1>3 DEF OnCreated, OnFollowup, OnMessages, CallBack
  <2> QED BY <2>1, <1>0, TailElements DEF Creation
<1>4. ASSUME NEW r \in Completion, r.op # "channel_create", Complete(r)
      PROVE  \A i \in DOMAIN outQ' : outQ'[i].op = "channel_create" =>
                Creation(i + 0) /\ outQ[i + 0] = outQ'[i]
  BY <1>0, <1>00, <1>4, AppendElements DEF Complete, Creation
<1>5. ASSUME NEW c \in Channels, RunChannelCreate(c), UNCHANGED <<tasks, task_archive>>
      PROVE  \A i \in DOMAIN outQ' : outQ'[i].op = "channel_create" =>
                 \/ Creation(i + 0) /\ outQ[i + 0] = outQ'[i]
                 \/ /\ RunChannelCreate(outQ'[i].channel)
                    /\ outQ'[i].user = Head(guildQ)
                    /\ UNCHANGED <<tasks, task_archive>>
                    /\ i = Len(outQ) + 1
  <2> DEFINE r == [op |-> "channel_create", channel |-> c, user |-> Head(guildQ)]
  <2>1. r \in Completion /\ outQ' = Append(outQ, r)
    <3>1. Head(guildQ) \in Users
      BY <1>5, <1>0, TailElements DEF RunChannelCreate, CreateChannel, GuildTypeOK
    <3> QED BY <3>1, <1>5 DEF RunChannelCreate, CreateChannel, Complete, Completion
  <2>2. /\ Len(outQ) \in Nat /\ DOMAIN outQ = 1 .. Len(outQ)
        /\ DOMAIN outQ' = 1 .. (Len(outQ) + 1)
        /\ \A i \in 1 .. Len(outQ) : outQ'[i] = outQ[i]
        /\ outQ'[Len(outQ) + 1] = r
    BY <2>1, <1>0, AppendProperties, LenProperties
  <2>3. ASSUME NEW i \in DOMAIN outQ', outQ'[i].op = "channel_create"
        PROVE  \/ Creation(i + 0) /\ outQ[i + 0] = outQ'[i]
               \/ /\ RunChannelCreate(outQ'[i].channel)
                  /\ outQ'[i].user = Head(guildQ)
                  /\ UNCHANGED <<tasks, task_archive>>
                  /\ i = Len(outQ) + 1
    <3>1. CASE i \in 1 .. Len(outQ)
      BY <3>1, <2>2, <2>3 DEF Creation
    <3>2. CASE i = Len(outQ) + 1
      BY <3>2, <2>2, <1>5
    <3> QED BY <3>1, <3>2, <2>2
  <2> QED BY <2>3
<1> QED BY <1>1, <1>2, <1>3, <1>4, <1>5, OutMoves

-----------------------------------------------------------------------------
(* The rows: who writes them, and what a row can say.                          *)

LEMMA OpenerKept ==
    ASSUME TypeOK, [Next]_vars, NEW c \in Channels, opener[c] # NoUser
    PROVE  opener'[c] = opener[c]
BY ChannelMoves, TypeOK, NoUserAssumption DEF TypeOK, GuildTypeOK

\* What has failed once has failed.
LEMMA FailuresCount ==
    ASSUME TypeOK, [Next]_vars
    PROVE  \A j \in Kinds :
              /\ Spend(j) => ~None(j)'
              /\ ~None(j) => ~None(j)'
<1>1. ASSUME NEW k \in Kinds, Spend(k), NEW j \in Kinds
      PROVE  /\ k = j => ~None(j)'
             /\ ~None(j) => ~None(j)'
  BY <1>1, FaultsKept DEF TypeOK
<1>2. ASSUME UNCHANGED spent, NEW j \in Kinds, ~None(j)
      PROVE  ~None(j)'
  BY <1>2 DEF None
<1>3. UNCHANGED spent \/ \E k \in Kinds : Spend(k)
  <2>1. CASE ShardThread \/ CallbackThread \/ Crash \/ UNCHANGED vars
    BY <2>1
       DEF ShardThread, Refuse, CreateTask, CloseTask, CloseArchives, CloseDeletes,
           CloseSendsPanel, OpenTask, OpenAdds, OpenDeletesArchived, OpenGetsMessages,
           DeleteTask, OnChannelCreate, OnChannelDelete, OnDeleteFindsArchived,
           OnDeleteForgetsTask, OnDeleteForgetsArchived, HandlerFails, CallFails, Query,
           CallbackThread, OnCreated, CreatedSendsWelcome, OnFollowup, SleepEnds,
           OnMessages, Crash, vars, Kinds
  <2>2. CASE People
    BY <2>2 DEF People, ClickCreate, ClickButton, ModeratorDeletes, Kinds
  <2>3. CASE RestThreads
    BY <2>3
       DEF RestThreads, ChannelThread, RunWelcome, RunPanel, RunMessagesGet,
           RunMessageDelete, RunChannelDelete, FailChannelRequest, RunChannelCreate,
           LoseChannelCreated, CreateChannel, FailChannelCreate, RunFollowup, FailFollowup,
           RunReply, Kinds
  <2> QED BY <2>1, <2>2, <2>3, [Next]_vars DEF Next, Environment
<1> QED BY <1>1, <1>2, <1>3

\* A creator that a handler writes is the one it read, or unknown because it could
\* not read.
Copied(u, read) == u = read \/ (u = NoUser /\ Spend("db"))

LEMMA TaskRowMoves ==
    ASSUME TypeOK, [Next]_vars, NEW c \in Channels
    PROVE  \/ tasks'[c] = tasks[c]
           \/ /\ CloseDeletes \/ OnDeleteForgetsTask
              /\ c = shard.channel /\ tasks'[c] = <<>>
           \/ /\ OnCreated
              /\ c = Head(outQ).channel
              /\ tasks'[c] = Append(tasks[c], Head(outQ).user)
           \/ /\ OpenAdds
              /\ c = shard.channel
              /\ \E u \in Creator :
                    /\ Copied(u, get_archived_task_creator_id(c))
                    /\ tasks'[c] = Append(tasks[c], u)
<1>0. tasks \in Table /\ (shard.step # "idle" => shard.channel \in Channels)
  BY TypeOK DEF TypeOK, TablesTypeOK
<1>1. CASE OpenAdds
  <2>1. /\ shard.channel \in Channels /\ NoUser \in Creator
        /\ get_archived_task_creator_id(shard.channel) \in Creator
    BY <1>0, <1>1, TypeOK, GetterTypes DEF OpenAdds, TypeOK, Creator
  <2>2. PICK u \in Creator :
           /\ Copied(u, get_archived_task_creator_id(shard.channel))
           /\ add_task(shard.channel, u)
    BY <2>1, <1>1 DEF OpenAdds, Copied
  <2> QED BY <2>1, <2>2, <1>0, <1>1 DEF add_task, Table
<1>2. CASE OnCreated
  <2>1. Head(outQ).channel \in Channels
    BY <1>2, TypeOK, CallBackType, CompletionFields DEF OnCreated, TypeOK
  <2>2. add_task(Head(outQ).channel, Head(outQ).user) \/ tasks' = tasks
    BY <1>2 DEF OnCreated
  <2> QED BY <2>1, <2>2, <1>0, <1>2 DEF add_task, Table
<1>3. CASE CloseDeletes \/ OnDeleteForgetsTask
  <2>1. delete_task(shard.channel) /\ shard.channel \in Channels
    BY <1>0, <1>3 DEF CloseDeletes, OnDeleteForgetsTask
  <2> QED BY <2>1, <1>0, <1>3, DeleteType DEF delete_task
<1>4. CASE \/ CallbackThread /\ ~OnCreated
           \/ Environment \/ Crash \/ UNCHANGED vars
  BY <1>4
     DEF CallbackThread, CreatedSendsWelcome, OnFollowup, SleepEnds, OnMessages,
         Environment, Crash, vars
<1>5. CASE ShardThread /\ ~OpenAdds /\ ~CloseDeletes /\ ~OnDeleteForgetsTask
  BY <1>5
     DEF ShardThread, Refuse, CreateTask, CloseTask, CloseArchives, CloseSendsPanel,
         OpenTask, OpenDeletesArchived, OpenGetsMessages, DeleteTask, OnChannelCreate,
         OnChannelDelete, OnDeleteFindsArchived, OnDeleteForgetsArchived,
         HandlerFails, CallFails
<1> QED BY <1>1, <1>2, <1>3, <1>4, <1>5, [Next]_vars DEF Next, CallbackThread

LEMMA ArchiveRowMoves ==
    ASSUME TypeOK, [Next]_vars, NEW c \in Channels
    PROVE  \/ task_archive'[c] = task_archive[c]
           \/ /\ OpenDeletesArchived \/ OnDeleteForgetsArchived
              /\ c = shard.channel /\ task_archive'[c] = <<>>
           \/ /\ CloseArchives
              /\ c = shard.channel
              /\ \E u \in Creator :
                    /\ Copied(u, get_task_creator_id(c))
                    /\ task_archive'[c] = Append(task_archive[c], u)
<1>0. task_archive \in Table /\ (shard.step # "idle" => shard.channel \in Channels)
  BY TypeOK DEF TypeOK, TablesTypeOK
<1>1. CASE CloseArchives
  <2>1. /\ shard.channel \in Channels /\ NoUser \in Creator
        /\ get_task_creator_id(shard.channel) \in Creator
    BY <1>0, <1>1, TypeOK, GetterTypes DEF CloseArchives, TypeOK, Creator
  <2>2. PICK u \in Creator :
           /\ Copied(u, get_task_creator_id(shard.channel))
           /\ archive_task(shard.channel, u)
    BY <2>1, <1>1 DEF CloseArchives, Copied
  <2> QED BY <2>1, <2>2, <1>0, <1>1 DEF archive_task, Table
<1>2. CASE OpenDeletesArchived \/ OnDeleteForgetsArchived
  <2>1. delete_archived_task(shard.channel) /\ shard.channel \in Channels
    BY <1>0, <1>2 DEF OpenDeletesArchived, OnDeleteForgetsArchived
  <2> QED BY <2>1, <1>0, <1>2, DeleteType DEF delete_archived_task
<1>3. CASE CallbackThread \/ Environment \/ Crash \/ UNCHANGED vars
  BY <1>3
     DEF CallbackThread, OnCreated, CreatedSendsWelcome, OnFollowup, SleepEnds,
         OnMessages, Environment, Crash, vars
<1>4. CASE /\ ShardThread
           /\ ~CloseArchives /\ ~OpenDeletesArchived /\ ~OnDeleteForgetsArchived
  BY <1>4
     DEF ShardThread, Refuse, CreateTask, CloseTask, CloseDeletes, CloseSendsPanel,
         OpenTask, OpenAdds, OpenGetsMessages, DeleteTask, OnChannelCreate,
         OnChannelDelete, OnDeleteFindsArchived, OnDeleteForgetsTask,
         HandlerFails, CallFails
<1> QED BY <1>1, <1>2, <1>3, <1>4, [Next]_vars DEF Next

-----------------------------------------------------------------------------
(* The invariants are inductive.                                               *)

\* Recorded(c) in the next state, for a c that may itself speak of the next state.
RecordedNext(c) == tasks'[c] # <<>> \/ task_archive'[c] # <<>>

\* A task that is written down for the first time is that of the callback's
\* completion; every other row goes to a channel that has one already.
LEMMA FirstRow ==
    ASSUME TypeOK, LedgerInv, [Next]_vars, NEW c \in Channels,
           ~Recorded(c), RecordedNext(c)
    PROVE  OnCreated /\ Creation(1) /\ outQ[1].channel = c
<1>1. ~CloseArchives \/ c # shard.channel
  BY DEF LedgerInv, FoundInv, CloseArchives, Recorded
<1>2. ~OpenAdds \/ c # shard.channel
  BY DEF LedgerInv, FoundInv, OpenAdds, Recorded
<1>3. OnCreated /\ c = Head(outQ).channel
  BY <1>1, <1>2, TaskRowMoves, ArchiveRowMoves
     DEF Recorded, RecordedNext, find_task, find_archived_task
<1>4. 1 \in DOMAIN outQ /\ Head(outQ) = outQ[1]
  BY <1>3, TypeOK, TailElements DEF OnCreated, CallBack, TypeOK, GuildTypeOK
<1> QED BY <1>3, <1>4 DEF OnCreated, CallBack, Creation

LEMMA CreationUser ==
    ASSUME TypeOK, LedgerInv, NEW i \in DOMAIN outQ, Creation(i)
    PROVE  /\ outQ[i].channel \in Channels
           /\ outQ[i].user \in Users
           /\ opener[outQ[i].channel] = outQ[i].user
           /\ opener[outQ[i].channel] # NoUser
           /\ ~Recorded(outQ[i].channel)
<1>1. outQ[i] \in Completion
  <2>1. outQ \in Seq(Completion)
    BY TypeOK DEF TypeOK, GuildTypeOK
  <2> QED BY <2>1, ElementOfSeq, LenProperties
<1>2. outQ[i].channel \in Channels /\ outQ[i].user \in Users
  BY <1>1, CompletionFields DEF Creation
<1> QED BY <1>2, NoUserAssumption DEF LedgerInv, PendingInv

LEMMA AskedStep ==
    ASSUME TypeOK, LedgerInv, [Next]_vars
    PROVE  AskedInv'
<1> SUFFICES ASSUME NEW c \in Channels, RecordedNext(c)
             PROVE  opener'[c] # NoUser
  BY DEF AskedInv, Recorded, RecordedNext, find_task, find_archived_task
<1>1. opener[c] # NoUser
  <2>1. CASE Recorded(c)
    BY <2>1 DEF LedgerInv, AskedInv
  <2>2. CASE ~Recorded(c)
    BY <2>2, FirstRow, CreationUser DEF Creation
  <2> QED BY <2>1, <2>2
<1> QED BY <1>1, OpenerKept

\* The creation of c is no longer pending once c is recorded: there was only one.
LEMMA PendingUnrecorded ==
    ASSUME TypeOK, LedgerInv, [Next]_vars,
           NEW i \in DOMAIN outQ', outQ'[i].op = "channel_create",
           NEW j \in DOMAIN outQ, Creation(j), outQ[j] = outQ'[i],
           OnCreated => j # 1
    PROVE  /\ opener'[outQ'[i].channel] = outQ'[i].user
           /\ outQ'[i].channel \in Channels
           /\ ~Recorded(outQ'[i].channel)
           /\ OnCreated => ~(Creation(1) /\ outQ[1].channel = outQ'[i].channel)
<1>1. /\ outQ[j].channel \in Channels
      /\ opener[outQ[j].channel] = outQ[j].user
      /\ opener[outQ[j].channel] # NoUser
      /\ ~Recorded(outQ[j].channel)
  BY CreationUser
<1>2. opener'[outQ[j].channel] = outQ[j].user
  BY <1>1, OpenerKept
<1>3. OnCreated => ~(Creation(1) /\ outQ[1].channel = outQ[j].channel)
  BY DEF LedgerInv, PendingInv, Creation
<1> QED BY <1>1, <1>2, <1>3

LEMMA PendingStep ==
    ASSUME TypeOK, LedgerInv, [Next]_vars
    PROVE  PendingInv'
<1> DEFINE NewAt(i) == /\ RunChannelCreate(outQ'[i].channel)
                       /\ outQ'[i].user = Head(guildQ)
                       /\ UNCHANGED <<tasks, task_archive>>
                       /\ i = Len(outQ) + 1
<1>0. outQ \in Seq(Completion) /\ DOMAIN outQ = 1 .. Len(outQ) /\ Len(outQ) \in Nat
  <2>1. outQ \in Seq(Completion)
    BY TypeOK DEF TypeOK, GuildTypeOK
  <2> QED BY <2>1, LenProperties
<1>1. PICK shift \in {0, 1} :
         /\ OnCreated => shift = 1
         /\ \A i \in DOMAIN outQ' : outQ'[i].op = "channel_create" =>
               \/ Creation(i + shift) /\ outQ[i + shift] = outQ'[i]
               \/ NewAt(i) /\ shift = 0
  <2>1. CASE OnCreated
    <3>1. outQ # <<>> /\ outQ' = Tail(outQ)
      BY <2>1 DEF OnCreated, CallBack
    <3>2. \A i \in DOMAIN outQ' : i + 1 \in DOMAIN outQ /\ outQ'[i] = outQ[i + 1]
      BY <3>1, <1>0, TailElements
    <3> QED BY <3>2 DEF Creation
  <2> QED BY <2>1, CreationMoves
<1>00. /\ DOMAIN outQ' \subseteq Nat \ {0}
  <2>1. outQ' \in Seq(Completion)
    BY TypeStep DEF TypeOK, GuildTypeOK
  <2>2. DOMAIN outQ' = 1 .. Len(outQ') /\ Len(outQ') \in Nat
    BY <2>1, LenProperties
  <2> QED BY <2>2
<1>2. ASSUME NEW i \in DOMAIN outQ', outQ'[i].op = "channel_create"
      PROVE  /\ ~RecordedNext(outQ'[i].channel)
             /\ opener'[outQ'[i].channel] = outQ'[i].user
  <2> DEFINE c == outQ'[i].channel
  <2>1. CASE Creation(i + shift) /\ outQ[i + shift] = outQ'[i]
    <3>1. i + shift \in DOMAIN outQ /\ (OnCreated => i + shift # 1)
      BY <2>1, <1>1, <1>00 DEF Creation
    <3>2. /\ opener'[c] = outQ'[i].user /\ c \in Channels /\ ~Recorded(c)
          /\ OnCreated => ~(Creation(1) /\ outQ[1].channel = c)
      BY <3>1, <2>1, <1>2, PendingUnrecorded
    <3> QED BY <3>2, FirstRow
  <2>2. CASE NewAt(i)
    <3>1. /\ opener[c] = NoUser /\ opener' = [opener EXCEPT ![c] = Head(guildQ)]
          /\ c \in Channels
      <4>1. outQ' \in Seq(Completion)
        BY TypeStep DEF TypeOK, GuildTypeOK
      <4>2. outQ'[i] \in Completion
        BY <4>1, ElementOfSeq, LenProperties
      <4> QED BY <4>2, <2>2, CompletionFields DEF RunChannelCreate, CreateChannel
    <3>2. ~Recorded(c)
      BY <3>1 DEF LedgerInv, AskedInv
    <3> QED
      BY <3>1, <3>2, <2>2, TypeOK
         DEF Recorded, RecordedNext, find_task, find_archived_task, TypeOK, GuildTypeOK
  <2> QED BY <2>1, <2>2, <1>1, <1>2
<1>3. ASSUME NEW i \in DOMAIN outQ', outQ'[i].op = "channel_create",
             NEW j \in DOMAIN outQ', outQ'[j].op = "channel_create",
             outQ'[i].channel = outQ'[j].channel
      PROVE  i = j
  <2>0. i \in Nat /\ j \in Nat
    BY <1>00
  <2>1. ASSUME NEW k \in DOMAIN outQ, Creation(k), NEW l \in DOMAIN outQ',
               outQ[k].channel = outQ'[l].channel, NewAt(l)
        PROVE  FALSE
    <3>1. opener[outQ[k].channel] = NoUser
      BY <2>1 DEF RunChannelCreate, CreateChannel
    <3> QED BY <3>1, <2>1, CreationUser
  <2>2. CASE NewAt(i) /\ NewAt(j)
    BY <2>2
  <2>3. CASE NewAt(i) /\ ~NewAt(j)
    <3>1. Creation(j + shift) /\ outQ[j + shift] = outQ'[j]
      BY <2>3, <1>1, <1>3
    <3>2. j + shift \in DOMAIN outQ
      BY <3>1 DEF Creation
    <3> QED BY <3>1, <3>2, <2>3, <2>1, <1>3
  <2>4. CASE NewAt(j) /\ ~NewAt(i)
    <3>1. Creation(i + shift) /\ outQ[i + shift] = outQ'[i]
      BY <2>4, <1>1, <1>3
    <3>2. i + shift \in DOMAIN outQ
      BY <3>1 DEF Creation
    <3> QED BY <3>1, <3>2, <2>4, <2>1, <1>3
  <2>5. CASE ~NewAt(i) /\ ~NewAt(j)
    <3>1. /\ Creation(i + shift) /\ outQ[i + shift] = outQ'[i]
          /\ Creation(j + shift) /\ outQ[j + shift] = outQ'[j]
      BY <2>5, <1>1, <1>3
    <3>2. i + shift = j + shift
      BY <3>1, <1>3 DEF LedgerInv, PendingInv, Creation
    <3> QED BY <3>2, <2>0
  <2> QED BY <2>2, <2>3, <2>4, <2>5
<1> HIDE DEF NewAt
<1> QED
  BY <1>2, <1>3
     DEF PendingInv, Creation, Recorded, RecordedNext, find_task, find_archived_task

\* The handlers' first steps, the only ones that lead to these two.
LEMMA FoundMoves ==
    ASSUME [Next]_vars, shard' # shard
    PROVE  /\ shard'.step = "archive_task" => CloseTask
           /\ shard'.step = "add_task" => OpenTask
<1> USE DEF At, Idle
<1>1. CASE Refuse \/ CreateTask \/ DeleteTask \/ OnChannelCreate
  BY <1>1 DEF Refuse, CreateTask, DeleteTask, OnChannelCreate
<1>2. CASE CloseTask
  <2>1. shard' = At("archive_task", Head(gateway).channel)
    BY <1>2 DEF CloseTask
  <2> QED BY <2>1, <1>2
<1>3. CASE OpenTask
  <2>1. shard' = At("add_task", Head(gateway).channel)
    BY <1>3 DEF OpenTask
  <2> QED BY <2>1, <1>3
<1>4. CASE \/ CloseArchives \/ CloseDeletes \/ CloseSendsPanel
           \/ OpenAdds \/ OpenDeletesArchived \/ OpenGetsMessages
           \/ OnDeleteForgetsTask \/ OnDeleteForgetsArchived
  BY <1>4
     DEF CloseArchives, CloseDeletes, CloseSendsPanel, OpenAdds, OpenDeletesArchived,
         OpenGetsMessages, OnDeleteForgetsTask, OnDeleteForgetsArchived
<1>5. CASE OnChannelDelete
  BY <1>5 DEF OnChannelDelete
<1>6. CASE OnDeleteFindsArchived
  BY <1>6 DEF OnDeleteFindsArchived
<1>7. CASE HandlerFails
  BY <1>7 DEF HandlerFails, CallFails
<1>8. CASE CallbackThread \/ Environment \/ Crash \/ UNCHANGED vars
  BY <1>8
     DEF CallbackThread, OnCreated, CreatedSendsWelcome, OnFollowup, SleepEnds,
         OnMessages, Environment, Crash, vars
<1> QED
  BY <1>1, <1>2, <1>3, <1>4, <1>5, <1>6, <1>7, <1>8, [Next]_vars DEF Next, ShardThread

\* Rows do not disappear under a handler: only the shard thread deletes.
LEMMA RowStays ==
    ASSUME TypeOK, [Next]_vars, NEW c \in Channels
    PROVE  /\ tasks[c] # <<>> /\ ~CloseDeletes /\ ~OnDeleteForgetsTask
                 => tasks'[c] # <<>>
           /\ task_archive[c] # <<>> /\ ~OpenDeletesArchived /\ ~OnDeleteForgetsArchived
                 => task_archive'[c] # <<>>
<1>0. tasks \in Table /\ task_archive \in Table
  BY TypeOK DEF TypeOK, TablesTypeOK
<1>1. ASSUME NEW t \in Table, NEW u \in Creator
      PROVE  Append(t[c], u) # <<>>
  <2>1. t[c] \in Seq(Creator)
    BY DEF Table
  <2>2. Len(Append(t[c], u)) = Len(t[c]) + 1 /\ Len(t[c]) \in Nat
    BY <2>1, AppendProperties, LenProperties
  <2> QED BY <2>2, EmptySeq
<1>2. OnCreated => Head(outQ).user \in Creator
  BY TypeOK, CallBackType, CompletionFields DEF OnCreated, TypeOK, Creator
<1> QED BY <1>0, <1>1, <1>2, TaskRowMoves, ArchiveRowMoves

LEMMA FoundStep ==
    ASSUME TypeOK, LedgerInv, [Next]_vars
    PROVE  FoundInv'
<1>0. shard.step # "idle" => shard.channel \in Channels
  BY TypeOK DEF TypeOK
<1>1. CASE shard' = shard
  BY <1>0, <1>1, RowStays
     DEF LedgerInv, FoundInv, find_task, find_archived_task, CloseDeletes,
         OnDeleteForgetsTask, OpenDeletesArchived, OnDeleteForgetsArchived
<1>2. ASSUME shard' # shard, shard'.step = "archive_task"
      PROVE  find_task(shard.channel)'
  <2>1. CloseTask
    BY <1>2, FoundMoves
  <2>2. shard' = At("archive_task", Head(gateway).channel) /\ tasks' = tasks
        /\ find_task(Head(gateway).channel)
    BY <2>1 DEF CloseTask
  <2> QED BY <2>2 DEF find_task, At
<1>3. ASSUME shard' # shard, shard'.step = "add_task"
      PROVE  find_archived_task(shard.channel)'
  <2>1. OpenTask
    BY <1>3, FoundMoves
  <2>2. shard' = At("add_task", Head(gateway).channel) /\ task_archive' = task_archive
        /\ find_archived_task(Head(gateway).channel)
    BY <2>1 DEF OpenTask
  <2> QED BY <2>2 DEF find_archived_task, At
<1> QED BY <1>1, <1>2, <1>3 DEF FoundInv

\* A row says who asked for its channel, or that a call has failed.
SaysRight(t, c) ==
    \A i \in DOMAIN t : t[i] = opener[c] \/ (t[i] = NoUser /\ ~None("db"))

\* The first row of each table, which is the one that is read.
LEMMA RightRead ==
    ASSUME TypeOK, CreatorKept, NEW c \in Channels
    PROVE  /\ find_task(c) =>
                  \/ get_task_creator_id(c) = opener[c]
                  \/ get_task_creator_id(c) = NoUser /\ ~None("db")
           /\ find_archived_task(c) =>
                  \/ get_archived_task_creator_id(c) = opener[c]
                  \/ get_archived_task_creator_id(c) = NoUser /\ ~None("db")
<1>1. tasks[c] \in Seq(Creator) /\ task_archive[c] \in Seq(Creator)
  BY TypeOK DEF TypeOK, TablesTypeOK, Table
<1>2. ASSUME NEW t \in {tasks[c], task_archive[c]}, t # <<>>
      PROVE  Head(t) = opener[c] \/ (Head(t) = NoUser /\ ~None("db"))
  <2>1. 1 \in DOMAIN t /\ Head(t) = t[1]
    BY <1>1, <1>2, TailElements
  <2> QED BY <2>1 DEF CreatorKept
<1> QED
  BY <1>2 DEF get_task_creator_id, get_archived_task_creator_id, find_task,
     find_archived_task

LEMMA CreatorStep ==
    ASSUME TypeOK, LedgerInv, [Next]_vars
    PROVE  CreatorKept'
<1> SUFFICES ASSUME NEW c \in Channels
             PROVE  SaysRight(tasks[c], c)' /\ SaysRight(task_archive[c], c)'
  BY DEF CreatorKept, SaysRight
<1>0. /\ tasks[c] \in Seq(Creator) /\ task_archive[c] \in Seq(Creator)
      /\ SaysRight(tasks[c], c) /\ SaysRight(task_archive[c], c)
  BY TypeOK DEF TypeOK, TablesTypeOK, Table, LedgerInv, CreatorKept, SaysRight
<1>1. (Spend("db") => ~None("db")') /\ (~None("db") => ~None("db")')
  BY FailuresCount DEF Kinds
<1> DEFINE Right(u) == u = opener'[c] \/ (u = NoUser /\ ~None("db")')
<1>2. Recorded(c) => opener'[c] = opener[c]
  BY OpenerKept DEF LedgerInv, AskedInv
<1>3. /\ \A i \in DOMAIN tasks[c] : Right(tasks[c][i])
      /\ \A i \in DOMAIN task_archive[c] : Right(task_archive[c][i])
  <2>1. CASE Recorded(c)
    BY <2>1, <1>0, <1>1, <1>2 DEF SaysRight
  <2>2. CASE ~Recorded(c)
    BY <2>2 DEF Recorded, find_task, find_archived_task
  <2> QED BY <2>1, <2>2
<1>4. ASSUME NEW t \in Seq(Creator), \A i \in DOMAIN t : Right(t[i]),
             NEW u \in Creator, Right(u)
      PROVE  \A i \in DOMAIN Append(t, u) : Right(Append(t, u)[i])
  <2> HIDE DEF Right
  <2> QED BY <1>4, AppendElements
<1>5. \A i \in DOMAIN tasks'[c] : Right(tasks'[c][i])
  <2>1. CASE tasks'[c] = tasks[c] \/ tasks'[c] = <<>>
    BY <2>1, <1>3
  <2>2. ASSUME OnCreated, c = Head(outQ).channel,
               tasks'[c] = Append(tasks[c], Head(outQ).user)
        PROVE  \A i \in DOMAIN tasks'[c] : Right(tasks'[c][i])
    <3>1. 1 \in DOMAIN outQ /\ Head(outQ) = outQ[1] /\ Creation(1)
      <4>1. 1 \in DOMAIN outQ /\ Head(outQ) = outQ[1]
        BY <2>2, TypeOK, TailElements DEF OnCreated, CallBack, TypeOK, GuildTypeOK
      <4> QED BY <4>1, <2>2 DEF OnCreated, CallBack, Creation
    <3>2. Head(outQ).user \in Creator /\ Head(outQ).user = opener'[c]
      BY <3>1, <2>2, CreationUser, OpenerKept DEF Creator
    <3> HIDE DEF Right
    <3>3. Right(Head(outQ).user)
      BY <3>2 DEF Right
    <3> QED BY <3>2, <3>3, <2>2, <1>0, <1>3, <1>4
  <2>3. ASSUME OpenAdds, c = shard.channel, NEW u \in Creator,
               Copied(u, get_archived_task_creator_id(c)),
               tasks'[c] = Append(tasks[c], u)
        PROVE  \A i \in DOMAIN tasks'[c] : Right(tasks'[c][i])
    <3>1. find_archived_task(c)
      BY <2>3 DEF OpenAdds, LedgerInv, FoundInv
    <3>2. Right(u)
      BY <3>1, <2>3, <1>1, <1>2, RightRead DEF Copied, LedgerInv, Recorded
    <3> HIDE DEF Right
    <3> QED BY <3>2, <2>3, <1>0, <1>3, <1>4
  <2> QED BY <2>1, <2>2, <2>3, TaskRowMoves
<1>6. \A i \in DOMAIN task_archive'[c] : Right(task_archive'[c][i])
  <2>1. CASE task_archive'[c] = task_archive[c] \/ task_archive'[c] = <<>>
    BY <2>1, <1>3
  <2>2. ASSUME CloseArchives, c = shard.channel, NEW u \in Creator,
               Copied(u, get_task_creator_id(c)),
               task_archive'[c] = Append(task_archive[c], u)
        PROVE  \A i \in DOMAIN task_archive'[c] : Right(task_archive'[c][i])
    <3>1. find_task(c)
      BY <2>2 DEF CloseArchives, LedgerInv, FoundInv
    <3>2. Right(u)
      BY <3>1, <2>2, <1>1, <1>2, RightRead DEF Copied, LedgerInv, Recorded
    <3> HIDE DEF Right
    <3> QED BY <3>2, <2>2, <1>0, <1>3, <1>4
  <2> QED BY <2>1, <2>2, ArchiveRowMoves
<1> QED BY <1>5, <1>6 DEF SaysRight

LEMMA LedgerStep == TypeOK /\ LedgerInv /\ [Next]_vars => LedgerInv'
BY PendingStep, AskedStep, FoundStep, CreatorStep DEF LedgerInv

\* For every number of tasks and of failures: a row names the member who asked for
\* the task, and only a failed call makes the database forget who that was.
THEOREM CreatorsAreKept == Spec => []CreatorKept
<1>1. TypeOK /\ LedgerInv /\ [Next]_vars => LedgerInv'
  BY LedgerStep
<1>2. LedgerInv => CreatorKept
  BY DEF LedgerInv
<1> QED BY TypeCorrect, LedgerInit, <1>1, <1>2, PTL DEF Spec

-----------------------------------------------------------------------------
(* The steps of the ledger.                                                    *)

\* What a channel's entry depends on.
Untouched(c) ==
    /\ tasks'[c] = tasks[c] /\ task_archive'[c] = task_archive[c]
    /\ opener'[c] = opener[c]
    /\ Pending(c)' <=> Pending(c)

LEMMA UntouchedEntry ==
    ASSUME NEW c \in Channels, Untouched(c)
    PROVE  Status'[c] = Status[c] /\ Names'[c] = Names[c]
BY DEF Untouched, Status, Names, StatusOf, CreatorOf, Recorded, find_task,
   find_archived_task, get_task_creator_id, get_archived_task_creator_id

LEMMA LedgerStart == Init => Ledger!Init
<1> SUFFICES ASSUME Init
             PROVE  Ledger!Init
  OBVIOUS
<1>1. /\ channels = {} /\ opener = [c \in Channels |-> NoUser]
      /\ \A c \in Channels : tasks[c] = <<>> /\ task_archive[c] = <<>>
  BY DEF Init, GuildInit, TablesInit
<1>2. ASSUME NEW c \in Channels
      PROVE  StatusOf(c) = "none" /\ CreatorOf(c) = NoUser
  BY <1>1 DEF StatusOf, CreatorOf, Recorded, find_task, find_archived_task,
     get_task_creator_id
<1> QED BY <1>1, <1>2 DEF Ledger!Init, Status, Names

\* Pending(c) changes only when c is created, its callback runs, or the bot dies.
LEMMA PendingMoves ==
    ASSUME TypeOK, LedgerInv, [Next]_vars, NEW c \in Channels,
           ~Crash, ~RunChannelCreate(c), OnCreated => Head(outQ).channel # c
    PROVE  Pending(c)' = Pending(c)
<1>0. outQ \in Seq(Completion)
  BY TypeOK DEF TypeOK, GuildTypeOK
<1>1. CASE outQ' = outQ
  BY <1>1 DEF Pending
<1>2. CASE OnCreated \/ OnFollowup \/ OnMessages
  <2>1. /\ outQ # <<>> /\ outQ' = Tail(outQ)
        /\ ~(Head(outQ).op = "channel_create" /\ Head(outQ).channel = c)
    BY <1>2 DEF OnCreated, OnFollowup, OnMessages, CallBack
  <2>2. /\ Len(outQ) \in Nat \ {0} /\ DOMAIN outQ = 1 .. Len(outQ) /\ Head(outQ) = outQ[1]
        /\ DOMAIN outQ' = 1 .. (Len(outQ) - 1)
        /\ \A i \in DOMAIN outQ' : outQ'[i] = outQ[i + 1]
    <3>1. Len(outQ) \in Nat \ {0} /\ DOMAIN outQ = 1 .. Len(outQ)
      BY <2>1, <1>0, EmptySeq, LenProperties
    <3>2. /\ Head(outQ) = outQ[1] /\ outQ' \in Seq(Completion)
          /\ Len(outQ') = Len(outQ) - 1
          /\ \A i \in 1 .. Len(outQ') : outQ'[i] = outQ[i + 1]
      BY <2>1, <1>0, HeadTailProperties
    <3> QED BY <3>1, <3>2, LenProperties
  <2>3. Pending(c) => Pending(c)'
    <3> SUFFICES ASSUME NEW i \in DOMAIN outQ, outQ[i].op = "channel_create",
                        outQ[i].channel = c
                 PROVE  \E j \in DOMAIN outQ' :
                           outQ'[j].op = "channel_create" /\ outQ'[j].channel = c
      BY DEF Pending
    <3>1. i # 1 /\ i - 1 \in DOMAIN outQ' /\ i = (i - 1) + 1
      BY <2>1, <2>2
    <3> QED BY <3>1, <2>2
  <2>4. Pending(c)' => Pending(c)
    <3> SUFFICES ASSUME NEW i \in DOMAIN outQ', outQ'[i].op = "channel_create",
                        outQ'[i].channel = c
                 PROVE  \E j \in DOMAIN outQ :
                           outQ[j].op = "channel_create" /\ outQ[j].channel = c
      BY DEF Pending
    <3>1. i + 1 \in DOMAIN outQ /\ outQ'[i] = outQ[i + 1]
      BY <2>2
    <3> QED BY <3>1
  <2> QED BY <2>3, <2>4 DEF Pending
<1>3. ASSUME NEW r \in Completion, Complete(r),
             ~(r.op = "channel_create" /\ r.channel = c)
      PROVE  Pending(c)' = Pending(c)
  <2>1. /\ Len(outQ) \in Nat /\ DOMAIN outQ = 1 .. Len(outQ)
        /\ DOMAIN outQ' = 1 .. (Len(outQ) + 1)
        /\ \A i \in 1 .. Len(outQ) : outQ'[i] = outQ[i]
        /\ outQ'[Len(outQ) + 1] = r
    BY <1>0, <1>3, AppendProperties, LenProperties DEF Complete
  <2>2. Pending(c) => Pending(c)'
    BY <2>1 DEF Pending
  <2>3. Pending(c)' => Pending(c)
    <3> SUFFICES ASSUME NEW i \in DOMAIN outQ', outQ'[i].op = "channel_create",
                        outQ'[i].channel = c
                 PROVE  \E j \in DOMAIN outQ :
                           outQ[j].op = "channel_create" /\ outQ[j].channel = c
      BY DEF Pending
    <3>1. i # Len(outQ) + 1
      BY <2>1, <1>3
    <3> QED BY <3>1, <2>1
  <2> QED BY <2>2, <2>3 DEF Pending
<1>4. ASSUME NEW d \in Channels, RunChannelCreate(d)
      PROVE  Pending(c)' = Pending(c)
  <2> DEFINE r == [op |-> "channel_create", channel |-> d, user |-> Head(guildQ)]
  <2>1. Head(guildQ) \in Users
    BY <1>4, TypeOK, TailElements DEF RunChannelCreate, CreateChannel, TypeOK, GuildTypeOK
  <2>2. r \in Completion /\ Complete(r) /\ r.channel = d /\ c # d
    BY <2>1, <1>4 DEF Completion, RunChannelCreate, CreateChannel
  <2> QED BY <2>2, <1>3
<1> QED BY <1>1, <1>2, <1>3, <1>4, OutMoves

\* Only the entry of c changes.
LEMMA OneEntry ==
    ASSUME NEW c \in Channels, \A d \in Channels \ {c} : Untouched(d)
    PROVE  /\ Status' = [Status EXCEPT ![c] = Status'[c]]
           /\ Names' = [Names EXCEPT ![c] = Names'[c]]
<1>1. \A d \in Channels \ {c} : Status'[d] = Status[d] /\ Names'[d] = Names[d]
  BY UntouchedEntry
<1> QED BY <1>1 DEF Status, Names

LEMMA NoEntry ==
    ASSUME \A d \in Channels : Untouched(d)
    PROVE  Status' = Status /\ Names' = Names
<1>1. \A d \in Channels : Status'[d] = Status[d] /\ Names'[d] = Names[d]
  BY UntouchedEntry
<1> QED BY <1>1 DEF Status, Names

\* Without a new channel: the people and the guild only take channels away.
LEMMA VanishMoves ==
    ASSUME TypeOK, [Next]_vars,
           \A c \in Channels : ~RunChannelCreate(c) /\ ~LoseChannelCreated(c)
    PROVE  /\ opener' = opener
           /\ channels' = channels \/ \E c \in Channels : c \in channels /\ channels' = channels \ {c}
<1>1. CASE ShardThread \/ CallbackThread \/ Crash \/ UNCHANGED vars
  BY <1>1
     DEF ShardThread, Refuse, CreateTask, CloseTask, CloseArchives, CloseDeletes,
         CloseSendsPanel, OpenTask, OpenAdds, OpenDeletesArchived, OpenGetsMessages,
         DeleteTask, OnChannelCreate, OnChannelDelete, OnDeleteFindsArchived,
         OnDeleteForgetsTask, OnDeleteForgetsArchived, HandlerFails,
         CallbackThread, OnCreated, CreatedSendsWelcome, OnFollowup, SleepEnds,
         OnMessages, Crash, vars
<1>2. CASE People
  BY <1>2 DEF People, ClickCreate, ClickButton, ModeratorDeletes
<1>3. CASE RestThreads
  BY <1>3
     DEF RestThreads, ChannelThread, RunWelcome, RunPanel, RunMessagesGet,
         RunMessageDelete, RunChannelDelete, FailChannelRequest, FailChannelCreate,
         RunFollowup, FailFollowup, RunReply
<1> QED BY <1>1, <1>2, <1>3, [Next]_vars DEF Next, Environment

\* The callback thread's step from an entry that is created.
LEMMA CreatedStep ==
    ASSUME TypeOK, LedgerInv, [Next]_vars, OnCreated
    PROVE  Ledger!Next
<1> DEFINE r == Head(outQ)
<1>1. /\ 1 \in DOMAIN outQ /\ r = outQ[1] /\ Creation(1)
      /\ \A i \in DOMAIN outQ' : i + 1 \in DOMAIN outQ /\ outQ'[i] = outQ[i + 1]
      /\ DOMAIN outQ \subseteq Nat /\ DOMAIN outQ' \subseteq Nat \ {0}
  <2>0. outQ \in Seq(Completion) /\ outQ # <<>> /\ outQ' = Tail(outQ) /\ r.op = "channel_create"
    BY TypeOK DEF OnCreated, CallBack, TypeOK, GuildTypeOK
  <2>1. /\ 1 \in DOMAIN outQ /\ r = outQ[1] /\ outQ' \in Seq(Completion)
        /\ \A i \in DOMAIN outQ' : i + 1 \in DOMAIN outQ /\ outQ'[i] = outQ[i + 1]
    BY <2>0, TailElements
  <2>2. DOMAIN outQ \subseteq Nat /\ DOMAIN outQ' \subseteq Nat \ {0}
    <3>1. DOMAIN outQ = 1 .. Len(outQ) /\ DOMAIN outQ' = 1 .. Len(outQ')
          /\ Len(outQ) \in Nat /\ Len(outQ') \in Nat
      BY <2>0, <2>1, LenProperties
    <3> QED BY <3>1
  <2> QED BY <2>0, <2>1, <2>2 DEF Creation
<1>2. PICK c \in Channels :
         /\ c = r.channel /\ r.user \in Users /\ opener[c] = r.user
         /\ opener[c] # NoUser /\ ~Recorded(c)
  BY <1>1, CreationUser
<1>3. Pending(c) /\ ~Pending(c)'
  <2>1. ASSUME NEW i \in DOMAIN outQ', outQ'[i].op = "channel_create",
               outQ'[i].channel = c
        PROVE  FALSE
    <3>1. Creation(i + 1) /\ outQ[i + 1].channel = outQ[1].channel /\ i + 1 # 1
      BY <2>1, <1>1, <1>2 DEF Creation
    <3>2. i + 1 \in DOMAIN outQ
      BY <3>1 DEF Creation
    <3> QED BY <3>1, <3>2, <1>1 DEF LedgerInv, PendingInv
  <2> QED BY <2>1, <1>1, <1>2 DEF Pending, Creation
<1>4. /\ UNCHANGED <<channels, opener, task_archive>>
      /\ \/ add_task(c, r.user)
         \/ UNCHANGED tasks
  BY <1>2 DEF OnCreated
<1>5. \A d \in Channels \ {c} : Untouched(d)
  <2>1. ~Crash /\ \A d \in Channels : ~RunChannelCreate(d)
    <3>1. outQ # <<>> /\ outQ' = Tail(outQ) /\ outQ \in Seq(Completion)
      BY TypeOK DEF OnCreated, CallBack, TypeOK, GuildTypeOK
    <3>2. Len(outQ') = Len(outQ) - 1 /\ Len(outQ) \in Nat /\ out = Idle
      BY <3>1, HeadTailProperties, LenProperties DEF OnCreated, CallBack
    <3>3. opener' = opener /\ (Crash => UNCHANGED <<tasks, out>> \/ out' = Idle)
      BY <1>4 DEF Crash
    <3>4. \A d \in Channels : ~RunChannelCreate(d)
      <4>1. ASSUME NEW d \in Channels, RunChannelCreate(d)
            PROVE  FALSE
        <5>1. Head(guildQ) \in Users
          BY <4>1, TypeOK, TailElements DEF RunChannelCreate, CreateChannel, TypeOK, GuildTypeOK
        <5> QED
          BY <5>1, <4>1, <3>3, TypeOK, NoUserAssumption
             DEF RunChannelCreate, CreateChannel, TypeOK, GuildTypeOK
      <4> QED BY <4>1
    <3>5. ~Crash
      <4>1. spent \in [Kinds -> Nat]
        BY TypeOK DEF TypeOK, BudgetTypeOK
      <4>2. spent' = spent \/ Spend("db")
        BY DEF OnCreated
      <4>3. ASSUME Spend("crash")
            PROVE  FALSE
        <5>1. spent'["crash"] = spent["crash"] + 1 /\ spent["crash"] \in Nat
          BY <4>1, <4>3 DEF Spend, Kinds
        <5>2. spent'["crash"] = spent["crash"]
          BY <4>1, <4>2 DEF Spend, Kinds
        <5> QED BY <5>1, <5>2
      <4> QED BY <4>3 DEF Crash
    <3> QED BY <3>4, <3>5
  <2>2. \A d \in Channels \ {c} : Pending(d)' = Pending(d)
    BY <2>1, <1>2, PendingMoves
  <2>3. tasks \in Table
    BY TypeOK DEF TypeOK, TablesTypeOK
  <2> QED BY <2>2, <2>3, <1>2, <1>4 DEF Untouched, add_task, Table
<1>6. /\ Status' = [Status EXCEPT ![c] = Status'[c]]
      /\ Names' = [Names EXCEPT ![c] = Names'[c]]
  BY <1>2, <1>5, OneEntry
<1>7. Status[c] = "created" /\ Names[c] = NoUser
  BY <1>2, <1>3
     DEF Status, Names, StatusOf, CreatorOf, Recorded, find_task, find_archived_task,
         get_task_creator_id
<1>8. CASE add_task(c, r.user)
  <2>1. tasks'[c] = Append(<<>>, r.user) /\ task_archive'[c] = <<>>
    <3>1. tasks[c] = <<>> /\ task_archive[c] = <<>> /\ tasks \in Table
      BY <1>2, TypeOK DEF Recorded, find_task, find_archived_task, TypeOK, TablesTypeOK
    <3> QED BY <3>1, <1>2, <1>4, <1>8 DEF add_task, Table
  <2>2. tasks'[c] # <<>> /\ Head(tasks'[c]) = r.user
    <3>1. <<>> \in Seq(Users) /\ Len(<<>>) = 0
      BY EmptySeq
    <3>2. tasks'[c] \in Seq(Users) /\ Len(tasks'[c]) = 1 /\ tasks'[c][1] = r.user
      BY <3>1, <2>1, <1>2, AppendProperties
    <3> QED BY <3>2, EmptySeq, HeadTailProperties
  <2>3. Status'[c] = "open" /\ Names'[c] = opener[c]
    BY <2>1, <2>2, <1>2
       DEF Status, Names, StatusOf, CreatorOf, Recorded, find_task,
           find_archived_task, get_task_creator_id
  <2>4. Ledger!Register(c)
    BY <2>3, <1>4, <1>6, <1>7 DEF Ledger!Register
  <2> QED BY <2>4, <1>2 DEF Ledger!Next
<1>9. CASE UNCHANGED tasks
  <2>1. Status'[c] = "forgotten" /\ Names'[c] = NoUser
    BY <1>2, <1>3, <1>4, <1>9
       DEF Status, Names, StatusOf, CreatorOf, Recorded, find_task, find_archived_task,
           get_task_creator_id
  <2>2. Names' = Names
    BY <2>1, <1>6, <1>7 DEF Names
  <2>3. Status' = [d \in Channels |-> IF d \in {c} THEN "forgotten" ELSE Status[d]]
    BY <2>1, <1>6 DEF Status
  <2>4. Ledger!Lose({c})
    BY <2>2, <2>3, <1>4, <1>7 DEF Ledger!Lose
  <2> QED BY <2>4, <1>2 DEF Ledger!Next
<1> QED BY <1>4, <1>8, <1>9

\* What an entry says, now and after the step.
LEMMA EntryNow ==
    ASSUME NEW c \in Channels
    PROVE  /\ task_archive[c] # <<>> =>
                 Status[c] = "closed" /\ Names[c] = Head(task_archive[c])
           /\ task_archive[c] = <<>> /\ tasks[c] # <<>> =>
                 Status[c] = "open" /\ Names[c] = Head(tasks[c])
           /\ task_archive[c] = <<>> /\ tasks[c] = <<>> =>
                 /\ Names[c] = NoUser
                 /\ opener[c] = NoUser => Status[c] = "none"
                 /\ opener[c] # NoUser /\ Pending(c) => Status[c] = "created"
                 /\ opener[c] # NoUser /\ ~Pending(c) => Status[c] = "forgotten"
BY DEF Status, Names, StatusOf, CreatorOf, Recorded, find_task, find_archived_task,
   get_task_creator_id, get_archived_task_creator_id

LEMMA EntryNext ==
    ASSUME NEW c \in Channels
    PROVE  /\ task_archive'[c] # <<>> =>
                 Status'[c] = "closed" /\ Names'[c] = Head(task_archive'[c])
           /\ task_archive'[c] = <<>> /\ tasks'[c] # <<>> =>
                 Status'[c] = "open" /\ Names'[c] = Head(tasks'[c])
           /\ task_archive'[c] = <<>> /\ tasks'[c] = <<>> =>
                 /\ Names'[c] = NoUser
                 /\ opener'[c] = NoUser => Status'[c] = "none"
                 /\ opener'[c] # NoUser /\ Pending(c)' => Status'[c] = "created"
                 /\ opener'[c] # NoUser /\ ~Pending(c)' => Status'[c] = "forgotten"
BY DEF Status, Names, StatusOf, CreatorOf, Recorded, find_task, find_archived_task,
   get_task_creator_id, get_archived_task_creator_id

\* The bot dies: the channels whose callback has not run are lost to it.
LEMMA LosingStep ==
    ASSUME TypeOK, LedgerInv, Crash
    PROVE  Ledger!Next
<1> DEFINE cs == {c \in Channels : Pending(c)}
<1>1. /\ UNCHANGED <<tasks, task_archive, channels, opener>>
      /\ \A c \in Channels : ~Pending(c)'
  BY DEF Crash, Pending
<1>2. ASSUME NEW c \in Channels, Pending(c)
      PROVE  opener[c] # NoUser /\ task_archive[c] = <<>> /\ tasks[c] = <<>>
  <2>1. PICK i \in DOMAIN outQ : Creation(i) /\ outQ[i].channel = c
    BY <1>2 DEF Pending, Creation
  <2> QED BY <2>1, CreationUser DEF Recorded, find_task, find_archived_task
<1>3. \A c \in cs : Status[c] = "created"
  BY <1>2, EntryNow
<1>4. ASSUME NEW c \in Channels
      PROVE  /\ Status'[c] = IF c \in cs THEN "forgotten" ELSE Status[c]
             /\ Names'[c] = Names[c]
  <2>1. CASE c \in cs
    BY <2>1, <1>1, <1>2, EntryNow, EntryNext
  <2>2. CASE c \notin cs
    BY <2>2, <1>1, UntouchedEntry DEF Untouched
  <2> QED BY <2>1, <2>2
<1>5. /\ Status' = [c \in Channels |-> IF c \in cs THEN "forgotten" ELSE Status[c]]
      /\ Names' = Names
  BY <1>4 DEF Status, Names
<1>6. cs \in SUBSET Channels
  OBVIOUS
<1> HIDE DEF cs
<1>7. Ledger!Lose(cs)
  BY <1>1, <1>3, <1>5 DEF Ledger!Lose
<1> QED BY <1>6, <1>7 DEF Ledger!Next

\* The guild has a new channel.
LEMMA CreateStep ==
    ASSUME TypeOK, LedgerInv, [Next]_vars, NEW c \in Channels, RunChannelCreate(c),
           UNCHANGED <<tasks, task_archive>>
    PROVE  Ledger!Next
<1> DEFINE u == Head(guildQ)
<1>1. /\ u \in Users /\ u # NoUser
      /\ opener[c] = NoUser /\ opener' = [opener EXCEPT ![c] = u]
      /\ channels' = channels \cup {c}
      /\ opener \in [Channels -> Creator] /\ outQ \in Seq(Completion)
  BY TypeOK, TailElements, NoUserAssumption
     DEF RunChannelCreate, CreateChannel, TypeOK, GuildTypeOK
<1>2. tasks[c] = <<>> /\ task_archive[c] = <<>>
  BY <1>1 DEF LedgerInv, AskedInv, Recorded, find_task, find_archived_task
<1>3. Pending(c)'
  <2> DEFINE r == [op |-> "channel_create", channel |-> c, user |-> u]
  <2>1. r \in Completion /\ outQ' = Append(outQ, r)
    BY <1>1 DEF RunChannelCreate, CreateChannel, Complete, Completion
  <2>2. Len(outQ) + 1 \in DOMAIN outQ' /\ outQ'[Len(outQ) + 1] = r
    <3>1. /\ Len(outQ') = Len(outQ) + 1 /\ outQ' \in Seq(Completion)
          /\ outQ'[Len(outQ) + 1] = r /\ Len(outQ) \in Nat
      BY <2>1, <1>1, AppendProperties, LenProperties
    <3> QED BY <3>1, LenProperties
  <2> QED BY <2>2 DEF Pending
<1>4. \A d \in Channels \ {c} : Untouched(d)
  <2>1. ASSUME NEW d \in Channels \ {c}
        PROVE  ~RunChannelCreate(d)
    BY <1>1 DEF RunChannelCreate, CreateChannel
  <2>2. ~Crash /\ ~OnCreated
    <3>1. opener' # opener
      BY <1>1
    <3> QED BY <3>1 DEF Crash, OnCreated
  <2> QED BY <2>1, <2>2, <1>1, PendingMoves DEF Untouched
<1>5. /\ Status' = [Status EXCEPT ![c] = Status'[c]]
      /\ Names' = [Names EXCEPT ![c] = Names'[c]]
  BY <1>4, OneEntry
<1>6. Status[c] = "none" /\ Names[c] = NoUser
  BY <1>1, <1>2, EntryNow
<1>7. Status'[c] = "created" /\ Names'[c] = NoUser
  BY <1>1, <1>2, <1>3, EntryNext
<1>8. Names' = Names
  BY <1>5, <1>6, <1>7 DEF Names
<1>9. Ledger!Create(c, u)
  BY <1>1, <1>5, <1>6, <1>7, <1>8 DEF Ledger!Create
<1> QED BY <1>1, <1>9 DEF Ledger!Next

\* The guild has a new channel, but the bot only hears of an error.
LEMMA UnheardStep ==
    ASSUME TypeOK, LedgerInv, [Next]_vars, NEW c \in Channels, LoseChannelCreated(c),
           UNCHANGED <<tasks, task_archive>>
    PROVE  Ledger!Next
<1> DEFINE u == Head(guildQ)
<1>1. /\ u \in Users /\ u # NoUser
      /\ opener[c] = NoUser /\ opener' = [opener EXCEPT ![c] = u]
      /\ channels' = channels \cup {c} /\ outQ' = outQ
      /\ opener \in [Channels -> Creator] /\ outQ \in Seq(Completion)
  BY TypeOK, TailElements, NoUserAssumption
     DEF LoseChannelCreated, CreateChannel, TypeOK, GuildTypeOK
<1>2. tasks[c] = <<>> /\ task_archive[c] = <<>>
  BY <1>1 DEF LedgerInv, AskedInv, Recorded, find_task, find_archived_task
<1>3. \A d \in Channels : Pending(d)' = Pending(d)
  BY <1>1 DEF Pending
<1>4. ~Pending(c)
  <2> SUFFICES ASSUME NEW i \in DOMAIN outQ, Creation(i), outQ[i].channel = c
               PROVE  FALSE
    BY DEF Pending, Creation
  <2> QED BY <1>1, CreationUser
<1>5. \A d \in Channels \ {c} : Untouched(d)
  BY <1>1, <1>3 DEF Untouched
<1>6. /\ Status' = [Status EXCEPT ![c] = Status'[c]]
      /\ Names' = [Names EXCEPT ![c] = Names'[c]]
  BY <1>5, OneEntry
<1>7. Status[c] = "none" /\ Names[c] = NoUser
  BY <1>1, <1>2, EntryNow
<1>8. Status'[c] = "forgotten" /\ Names'[c] = NoUser
  BY <1>1, <1>2, <1>3, <1>4, EntryNext
<1>9. Names' = Names
  BY <1>6, <1>7, <1>8 DEF Names
<1>10. Ledger!CreateUnheard(c, u)
  BY <1>1, <1>6, <1>7, <1>8, <1>9 DEF Ledger!CreateUnheard
<1> QED BY <1>1, <1>10 DEF Ledger!Next

\* A channel that is recorded is not waiting for its callback.
LEMMA NotPending ==
    ASSUME TypeOK, LedgerInv, NEW c \in Channels, tasks[c] # <<>> \/ task_archive[c] # <<>>
    PROVE  opener[c] # NoUser /\ ~Pending(c)
<1>1. Recorded(c) /\ opener[c] # NoUser
  BY DEF Recorded, find_task, find_archived_task, LedgerInv, AskedInv
<1>2. ~Pending(c)
  BY <1>1, CreationUser DEF Pending, Creation
<1> QED BY <1>1, <1>2

\* Steps that change one entry, or none, of a channel that nobody is creating.
LEMMA WriteStep ==
    ASSUME TypeOK, RecordInv, LedgerInv, [Next]_vars, NEW c \in Channels,
           UNCHANGED <<channels, opener, outQ>>,
           \A d \in Channels \ {c} : tasks'[d] = tasks[d] /\ task_archive'[d] = task_archive[d],
           Recorded(c),
           \/ Status'[c] = Status[c] /\ Names'[c] = Names[c]
           \/ /\ <<Status[c], Status'[c]>> \in {<<"open", "closed">>, <<"closed", "open">>}
              /\ Names'[c] \in {opener[c], NoUser}
           \/ Status'[c] = "forgotten" /\ Names'[c] = NoUser /\ c \notin channels
    PROVE  [Ledger!Next]_(Ledger!ledger)
<1>1. \A d \in Channels : Pending(d)' = Pending(d)
  BY DEF Pending
<1>2. /\ Status' = [Status EXCEPT ![c] = Status'[c]]
      /\ Names' = [Names EXCEPT ![c] = Names'[c]]
  BY <1>1, OneEntry DEF Untouched
<1>3. CASE Status'[c] = Status[c] /\ Names'[c] = Names[c]
  <2>1. Status' = Status /\ Names' = Names
    BY <1>2, <1>3 DEF Status, Names
  <2> QED BY <2>1 DEF Ledger!ledger
<1>4. CASE /\ <<Status[c], Status'[c]>> \in {<<"open", "closed">>, <<"closed", "open">>}
           /\ Names'[c] \in {opener[c], NoUser}
  <2>1. Ledger!Close(c) \/ Ledger!Reopen(c)
    BY <1>2, <1>4 DEF Ledger!Close, Ledger!Reopen, Ledger!Enter
  <2> QED BY <2>1 DEF Ledger!Next
<1>5. CASE Status'[c] = "forgotten" /\ Names'[c] = NoUser /\ c \notin channels
  <2>1. Status[c] \in {"open", "closed"}
    BY EntryNow DEF Recorded, find_task, find_archived_task
  <2>2. Ledger!Forget(c)
    BY <2>1, <1>2, <1>5 DEF Ledger!Forget
  <2> QED BY <2>2 DEF Ledger!Next
<1> QED BY <1>3, <1>4, <1>5

\* The writes of the shard thread.
LEMMA ShardWrites ==
    ASSUME TypeOK, RecordInv, LedgerInv, [Next]_vars,
           \/ CloseArchives \/ CloseDeletes \/ OpenAdds \/ OpenDeletesArchived
           \/ OnDeleteForgetsTask \/ OnDeleteForgetsArchived
    PROVE  [Ledger!Next]_(Ledger!ledger)
<1>1. PICK c \in Channels : c = shard.channel
  BY TypeOK DEF CloseArchives, CloseDeletes, OpenAdds, OpenDeletesArchived,
     OnDeleteForgetsTask, OnDeleteForgetsArchived, TypeOK
<1>2. UNCHANGED <<channels, opener, outQ>>
  BY DEF CloseArchives, CloseDeletes, OpenAdds, OpenDeletesArchived,
     OnDeleteForgetsTask, OnDeleteForgetsArchived
<1>3. /\ tasks \in Table /\ task_archive \in Table
      /\ tasks[c] \in Seq(Creator) /\ task_archive[c] \in Seq(Creator)
  BY TypeOK DEF TypeOK, TablesTypeOK, Table
<1>4. \A d \in Channels \ {c} : tasks'[d] = tasks[d] /\ task_archive'[d] = task_archive[d]
  BY <1>1, <1>3
     DEF CloseArchives, CloseDeletes, OpenAdds, OpenDeletesArchived,
         OnDeleteForgetsTask, OnDeleteForgetsArchived, archive_task, delete_task,
         add_task, delete_archived_task, Table
<1>5. /\ tasks[c] # <<>> => Head(tasks[c]) \in {opener[c], NoUser}
      /\ task_archive[c] # <<>> => Head(task_archive[c]) \in {opener[c], NoUser}
  BY RightRead DEF LedgerInv, find_task, find_archived_task, get_task_creator_id,
     get_archived_task_creator_id
\* The row that is read is the oldest one, which an INSERT does not change.
<1>6. ASSUME NEW t \in Seq(Creator), NEW u \in Creator
      PROVE  /\ Append(t, u) # <<>>
             /\ Head(Append(t, u)) = IF t = <<>> THEN u ELSE Head(t)
  <2>1. /\ Append(t, u) \in Seq(Creator) /\ Len(Append(t, u)) = Len(t) + 1
        /\ \A i \in 1 .. Len(t) : Append(t, u)[i] = t[i]
        /\ Append(t, u)[Len(t) + 1] = u /\ Len(t) \in Nat
    BY AppendProperties, LenProperties
  <2>2. Append(t, u) # <<>> /\ Head(Append(t, u)) = Append(t, u)[1]
    BY <2>1, EmptySeq, HeadTailProperties
  <2>3. t = <<>> => Len(t) = 0
    BY EmptySeq
  <2>4. t # <<>> => Len(t) \in Nat \ {0} /\ Head(t) = t[1]
    BY <2>1, EmptySeq, HeadTailProperties
  <2> QED BY <2>1, <2>2, <2>3, <2>4
<1>7. CASE CloseArchives
  <2>1. tasks[c] # <<>> /\ tasks' = tasks
    BY <1>1, <1>7 DEF CloseArchives, LedgerInv, FoundInv, find_task
  <2>2. PICK u \in Creator :
           /\ u \in {opener[c], NoUser}
           /\ task_archive'[c] = Append(task_archive[c], u)
    <3>1. get_task_creator_id(c) = Head(tasks[c]) /\ get_task_creator_id(c) \in Creator
      BY <2>1, TypeOK, GetterTypes DEF get_task_creator_id, find_task, TypeOK
    <3>2. NoUser \in Creator
      BY DEF Creator
    <3> QED BY <3>1, <3>2, <2>1, <1>1, <1>3, <1>5, <1>7 DEF CloseArchives, archive_task, Table
  <2>3. task_archive'[c] # <<>> /\ Status'[c] = "closed" /\ Names'[c] = Head(task_archive'[c])
    BY <2>2, <1>3, <1>6, EntryNext
  <2>4. CASE task_archive[c] = <<>>
    <3>1. Names'[c] = u /\ Status[c] = "open"
      BY <2>1, <2>2, <2>3, <2>4, <1>3, <1>6, EntryNow
    <3> QED
      BY <3>1, <2>1, <2>2, <2>3, <1>2, <1>4, WriteStep DEF Recorded, find_task
  <2>5. CASE task_archive[c] # <<>>
    <3>1. Names'[c] = Names[c] /\ Status[c] = "closed"
      BY <2>2, <2>3, <2>5, <1>3, <1>6, EntryNow
    <3> QED
      BY <3>1, <2>1, <2>3, <1>2, <1>4, WriteStep DEF Recorded, find_task
  <2> QED BY <2>4, <2>5
<1>8. CASE OpenAdds
  <2>1. task_archive[c] # <<>> /\ task_archive' = task_archive
    BY <1>1, <1>8 DEF OpenAdds, LedgerInv, FoundInv, find_archived_task
  <2>2. Status'[c] = Status[c] /\ Names'[c] = Names[c]
    BY <2>1, EntryNow, EntryNext
  <2> QED BY <2>1, <2>2, <1>2, <1>4, WriteStep DEF Recorded, find_archived_task
<1>9. CASE CloseDeletes
  <2>1. task_archive[c] # <<>> /\ task_archive' = task_archive
    BY <1>1, <1>9 DEF CloseDeletes, RecordInv, MovingInv, find_archived_task
  <2>2. Status'[c] = Status[c] /\ Names'[c] = Names[c]
    BY <2>1, EntryNow, EntryNext
  <2> QED BY <2>1, <2>2, <1>2, <1>4, WriteStep DEF Recorded, find_archived_task
<1>10. CASE OpenDeletesArchived
  <2>1. tasks[c] # <<>> /\ tasks' = tasks /\ task_archive'[c] = <<>>
    <3>1. delete_archived_task(c) /\ tasks' = tasks /\ tasks[c] # <<>>
      BY <1>1, <1>10 DEF OpenDeletesArchived, RecordInv, MovingInv, find_task
    <3> QED BY <3>1, <1>3, DeleteType DEF delete_archived_task
  <2>2. Status'[c] = "open" /\ Names'[c] = Head(tasks[c])
    BY <2>1, EntryNext
  <2>3. \/ Status[c] = "closed"
        \/ Status[c] = "open" /\ Names[c] = Head(tasks[c])
    BY <2>1, EntryNow
  <2> QED BY <2>1, <2>2, <2>3, <1>2, <1>4, <1>5, WriteStep DEF Recorded, find_task
<1>11. CASE OnDeleteForgetsTask
  <2>1. tasks'[c] = <<>> /\ task_archive' = task_archive /\ c \notin channels
    <3>1. delete_task(c) /\ task_archive' = task_archive /\ shard.step = "forget_task"
      BY <1>1, <1>11 DEF OnDeleteForgetsTask
    <3>2. c \notin channels
      BY <3>1, <1>1 DEF RecordInv, ForgettingInv, Forgetting, Gone
    <3> QED BY <3>1, <3>2, <1>3, DeleteType DEF delete_task
  <2>2. CASE task_archive[c] # <<>>
    <3>1. Status'[c] = Status[c] /\ Names'[c] = Names[c]
      BY <2>1, <2>2, EntryNow, EntryNext
    <3> QED BY <3>1, <2>2, <1>2, <1>4, <2>1, WriteStep DEF Recorded, find_archived_task
  <2>3. CASE task_archive[c] = <<>> /\ tasks[c] # <<>>
    <3>1. Status'[c] = "forgotten" /\ Names'[c] = NoUser
      <4>1. opener'[c] # NoUser /\ ~Pending(c)'
        BY <2>3, <1>2, NotPending DEF Pending
      <4> QED BY <2>1, <2>3, <4>1, EntryNext
    <3> QED BY <3>1, <2>1, <2>3, <1>2, <1>4, WriteStep DEF Recorded, find_task
  <2>4. CASE task_archive[c] = <<>> /\ tasks[c] = <<>>
    <3>1. \A d \in Channels : Untouched(d)
      BY <2>1, <2>4, <1>2, <1>4 DEF Untouched, Pending
    <3> QED BY <3>1, <1>2, NoEntry DEF Ledger!ledger
  <2> QED BY <2>2, <2>3, <2>4
<1>12. CASE OnDeleteForgetsArchived
  <2>1. task_archive'[c] = <<>> /\ tasks' = tasks /\ c \notin channels
    <3>1. delete_archived_task(c) /\ tasks' = tasks /\ shard.step = "forget_archived_task"
      BY <1>1, <1>12 DEF OnDeleteForgetsArchived
    <3>2. c \notin channels
      BY <3>1, <1>1 DEF RecordInv, ForgettingInv, Forgetting, Gone
    <3> QED BY <3>1, <3>2, <1>3, DeleteType DEF delete_archived_task
  <2>2. CASE task_archive[c] # <<>> /\ tasks[c] # <<>>
    <3>1. Status[c] = "closed" /\ Status'[c] = "open" /\ Names'[c] = Head(tasks[c])
      BY <2>1, <2>2, EntryNow, EntryNext
    <3> QED BY <3>1, <2>1, <2>2, <1>2, <1>4, <1>5, WriteStep DEF Recorded, find_task
  <2>3. CASE task_archive[c] # <<>> /\ tasks[c] = <<>>
    <3>1. Status'[c] = "forgotten" /\ Names'[c] = NoUser
      <4>1. opener'[c] # NoUser /\ ~Pending(c)'
        BY <2>3, <1>2, NotPending DEF Pending
      <4> QED BY <2>1, <2>3, <4>1, EntryNext
    <3> QED BY <3>1, <2>1, <2>3, <1>2, <1>4, WriteStep DEF Recorded, find_archived_task
  <2>4. CASE task_archive[c] = <<>>
    <3>1. \A d \in Channels : Untouched(d)
      BY <2>1, <2>4, <1>2, <1>4 DEF Untouched, Pending
    <3> QED BY <3>1, <1>2, NoEntry DEF Ledger!ledger
  <2> QED BY <2>2, <2>3, <2>4
<1> QED BY <1>7, <1>8, <1>9, <1>10, <1>11, <1>12

\* Every step of the threads, the people and the guild is a step of the ledger or
\* leaves it as it is.
LEMMA StepImplements ==
    ASSUME TypeOK, RecordInv, LedgerInv, [Next]_vars
    PROVE  [Ledger!Next]_(Ledger!ledger)
<1>1. CASE Crash
  BY <1>1, LosingStep
<1>2. CASE OnCreated
  BY <1>2, CreatedStep
<1>3. CASE \E c \in Channels : (RunChannelCreate(c) \/ LoseChannelCreated(c))
  <2>1. PICK c \in Channels : (RunChannelCreate(c) \/ LoseChannelCreated(c))
    BY <1>3
  <2>2. Head(guildQ) \in Users /\ opener' # opener
    <3>1. Head(guildQ) \in Users /\ Head(guildQ) # NoUser
      BY <2>1, TypeOK, TailElements, NoUserAssumption
         DEF RunChannelCreate, LoseChannelCreated, CreateChannel, TypeOK, GuildTypeOK
    <3> QED
      BY <3>1, <2>1, TypeOK
         DEF RunChannelCreate, LoseChannelCreated, CreateChannel, TypeOK, GuildTypeOK
  <2>3. UNCHANGED <<tasks, task_archive>>
    <3>1. ~(ShardThread \/ CallbackThread \/ Crash \/ UNCHANGED vars)
      BY <2>2
         DEF ShardThread, Refuse, CreateTask, CloseTask, CloseArchives, CloseDeletes,
             CloseSendsPanel, OpenTask, OpenAdds, OpenDeletesArchived, OpenGetsMessages,
             DeleteTask, OnChannelCreate, OnChannelDelete, OnDeleteFindsArchived,
             OnDeleteForgetsTask, OnDeleteForgetsArchived, HandlerFails,
             CallbackThread, OnCreated, CreatedSendsWelcome, OnFollowup, SleepEnds,
             OnMessages, Crash, vars
    <3> QED BY <3>1, [Next]_vars DEF Next, Environment
  <2> QED BY <2>1, <2>3, CreateStep, UnheardStep
<1>4. CASE \/ CloseArchives \/ CloseDeletes \/ OpenAdds \/ OpenDeletesArchived
           \/ OnDeleteForgetsTask \/ OnDeleteForgetsArchived
  BY <1>4, ShardWrites
<1>5. CASE /\ ~Crash /\ ~OnCreated
           /\ \A c \in Channels : ~RunChannelCreate(c) /\ ~LoseChannelCreated(c)
           /\ ~CloseArchives /\ ~CloseDeletes /\ ~OpenAdds /\ ~OpenDeletesArchived
           /\ ~OnDeleteForgetsTask /\ ~OnDeleteForgetsArchived
  <2>1. /\ opener' = opener
        /\ \/ channels' = channels
           \/ \E c \in Channels : c \in channels /\ channels' = channels \ {c}
    BY <1>5, VanishMoves
  <2>2. \A d \in Channels : Untouched(d)
    BY <1>5, <2>1, TaskRowMoves, ArchiveRowMoves, PendingMoves DEF Untouched
  <2>3. Status' = Status /\ Names' = Names
    BY <2>2, NoEntry
  <2>4. CASE channels' = channels
    BY <2>1, <2>3, <2>4 DEF Ledger!ledger
  <2>5. ASSUME NEW c \in Channels, c \in channels, channels' = channels \ {c}
        PROVE  Ledger!Next
    <3>1. Ledger!Vanish(c)
      BY <2>1, <2>3, <2>5 DEF Ledger!Vanish
    <3> QED BY <3>1 DEF Ledger!Next
  <2> QED BY <2>1, <2>4, <2>5
<1> QED BY <1>1, <1>2, <1>3, <1>4, <1>5

\* The bot keeps the ledger, for every number of tasks, clicks, failing calls, lost
\* requests and crashes.
THEOREM Implements == Spec => ImplementsLedger
<1>1. TypeOK /\ RecordInv /\ LedgerInv /\ [Next]_vars => RecordInv' /\ LedgerInv'
  BY RecordStep, LedgerStep
<1>2. TypeOK /\ RecordInv /\ LedgerInv /\ [Next]_vars => [Ledger!Next]_(Ledger!ledger)
  BY StepImplements
<1> QED
  BY TypeCorrect, RecordInit, LedgerInit, LedgerStart, <1>1, <1>2, PTL
     DEF Spec, ImplementsLedger, Ledger!Spec

\* What the ledger says of the entry of c in every step, read off the two tables.
Onward(c) ==
    /\ Status[c] = "forgotten" => Status'[c] = "forgotten"
    /\ Status[c] \in {"open", "closed"} => Status'[c] \in {"open", "closed", "forgotten"}
    /\ Status'[c] = "forgotten" => \/ Status[c] \in {"none", "created", "forgotten"}
                                   \/ c \notin channels
    /\ Names'[c] # Names[c] => Status'[c] # Status[c] /\ Names'[c] \in {opener[c], NoUser}

NoWayBack == [][\A c \in Channels : Onward(c)]_vars

LEMMA EntryMoves ==
    ASSUME [Ledger!Next]_(Ledger!ledger), NEW c \in Channels
    PROVE  Onward(c)
<1>1. /\ Status = [d \in Channels |-> Status[d]] /\ DOMAIN Status = Channels
      /\ Names = [d \in Channels |-> Names[d]] /\ DOMAIN Names = Channels
  BY DEF Status, Names
<1> HIDE DEF Status, Names
<1>2. UNCHANGED Ledger!ledger => Status' = Status /\ Names' = Names
  BY DEF Ledger!ledger
<1>3. ASSUME NEW d \in Channels, NEW u \in Users,
             Ledger!Create(d, u) \/ Ledger!CreateUnheard(d, u)
      PROVE  /\ Names' = Names /\ Status[d] = "none"
             /\ \E s \in {"created", "forgotten"} : Status' = [Status EXCEPT ![d] = s]
  BY <1>3 DEF Ledger!Create, Ledger!CreateUnheard
<1>4. ASSUME NEW d \in Channels, NEW s \in {"open", "closed"}, NEW who \in {opener[d], NoUser},
             Status[d] # s, Status[d] \in {"created", "open", "closed"},
             Status' = [Status EXCEPT ![d] = s], Names' = [Names EXCEPT ![d] = who]
      PROVE  Onward(c)
  <2>1. CASE c = d
    BY <1>1, <1>4, <2>1 DEF Onward
  <2>2. CASE c # d
    BY <1>1, <1>4, <2>2 DEF Onward
  <2> QED BY <2>1, <2>2
<1>5. ASSUME NEW d \in Channels, Ledger!Register(d) \/ Ledger!Close(d) \/ Ledger!Reopen(d)
      PROVE  \E s \in {"open", "closed"}, who \in {opener[d], NoUser} :
                /\ Status[d] # s /\ Status[d] \in {"created", "open", "closed"}
                /\ Status' = [Status EXCEPT ![d] = s] /\ Names' = [Names EXCEPT ![d] = who]
  BY <1>5 DEF Ledger!Register, Ledger!Close, Ledger!Reopen, Ledger!Enter
<1>6. ASSUME NEW d \in Channels, Ledger!Forget(d)
      PROVE  /\ Status[d] \in {"open", "closed"} /\ d \notin channels
             /\ Status' = [Status EXCEPT ![d] = "forgotten"]
             /\ Names' = [Names EXCEPT ![d] = NoUser]
  BY <1>6 DEF Ledger!Forget
<1>7. ASSUME NEW d \in Channels, Ledger!Vanish(d)
      PROVE  Status' = Status /\ Names' = Names
  BY <1>7 DEF Ledger!Vanish
<1>8. ASSUME NEW cs \in SUBSET Channels, Ledger!Lose(cs)
      PROVE  /\ Names' = Names /\ \A d \in cs : Status[d] = "created"
             /\ Status' = [d \in Channels |-> IF d \in cs THEN "forgotten" ELSE Status[d]]
  BY <1>8 DEF Ledger!Lose
<1>9. ASSUME NEW d \in Channels, NEW u \in Users,
             Ledger!Create(d, u) \/ Ledger!CreateUnheard(d, u)
      PROVE  Onward(c)
  BY <1>1, <1>3, <1>9 DEF Onward
<1>10. ASSUME NEW d \in Channels, Ledger!Register(d) \/ Ledger!Close(d) \/ Ledger!Reopen(d)
       PROVE  Onward(c)
  BY <1>4, <1>5, <1>10
<1>11. ASSUME NEW d \in Channels, Ledger!Forget(d)
       PROVE  Onward(c)
  <2>1. CASE c = d
    BY <1>1, <1>6, <1>11, <2>1 DEF Onward
  <2>2. CASE c # d
    BY <1>1, <1>6, <1>11, <2>2 DEF Onward
  <2> QED BY <2>1, <2>2
<1>12. ASSUME NEW d \in Channels, Ledger!Vanish(d)
       PROVE  Onward(c)
  BY <1>7, <1>12 DEF Onward
<1>13. ASSUME NEW cs \in SUBSET Channels, Ledger!Lose(cs)
       PROVE  Onward(c)
  <2>1. CASE c \in cs
    BY <1>8, <1>13, <2>1 DEF Onward
  <2>2. CASE c \notin cs
    BY <1>8, <1>13, <2>2 DEF Onward
  <2> QED BY <2>1, <2>2
<1>14. ASSUME UNCHANGED Ledger!ledger
       PROVE  Onward(c)
  BY <1>2, <1>14 DEF Onward
<1> QED BY <1>9, <1>10, <1>11, <1>12, <1>13, <1>14 DEF Ledger!Next

\* No late callback, half-finished handler or restart turns the life of a task back: what
\* was forgotten stays so, what was written down is forgotten only after its channel,
\* and the member whom its rows name changes only together with its entry, and then to
\* the one who asked for it or to nobody.
THEOREM NeverTurnsBack == Spec => NoWayBack
<1>1. TypeOK /\ RecordInv /\ LedgerInv /\ [Next]_vars => RecordInv' /\ LedgerInv'
  BY RecordStep, LedgerStep
<1>2. ASSUME TypeOK, RecordInv, LedgerInv, [Next]_vars, NEW c \in Channels
      PROVE  Onward(c)
  BY <1>2, StepImplements, EntryMoves
<1>3. TypeOK /\ RecordInv /\ LedgerInv /\ [Next]_vars => [\A c \in Channels : Onward(c)]_vars
  BY <1>2
<1> QED
  BY TypeCorrect, RecordInit, LedgerInit, <1>1, <1>3, PTL DEF Spec, NoWayBack

-----------------------------------------------------------------------------
(* A task is open or closed: without failing calls no handler finds the row that *)
(* it is about to write, and no other writes it in between.                      *)

FaultFree == None("db") /\ None("crash")

OneRow(c) ==
    /\ Len(tasks[c]) <= 1 /\ Len(task_archive[c]) <= 1
    /\ find_task(c) /\ find_archived_task(c) =>
          shard \in {At("delete_task", c), At("delete_archived_task", c)}
    /\ shard = At("archive_task", c) => ~find_archived_task(c)
    /\ shard = At("add_task", c) => ~find_task(c)

OneRowInv == FaultFree => \A c \in Channels : OneRow(c)

LEMMA FaultFreeBefore ==
    ASSUME TypeOK, [Next]_vars, FaultFree'
    PROVE  FaultFree /\ ~Spend("db") /\ ~Crash
<1>1. "db" \in Kinds /\ "crash" \in Kinds
  BY DEF Kinds
<1> QED BY <1>1, FailuresCount DEF FaultFree, Crash

LEMMA OneRowInit == Init => OneRowInv
<1> SUFFICES ASSUME Init, NEW c \in Channels
             PROVE  OneRow(c)
  BY DEF OneRowInv
<1>1. tasks[c] = <<>> /\ task_archive[c] = <<>> /\ Len(<<>>) = 0
  BY EmptySeq DEF Init, TablesInit
<1> QED BY <1>1 DEF OneRow, find_task, find_archived_task

\* Row counts of a channel that stays without a second row.
LEMMA FirstOfTable ==
    ASSUME NEW t \in Seq(Creator), NEW u \in Creator
    PROVE  /\ t = <<>> => Len(Append(t, u)) <= 1
           /\ Append(t, u) # <<>>
           /\ Len(t) \in Nat /\ (t = <<>> => Len(t) = 0)
<1>1. Len(Append(t, u)) = Len(t) + 1 /\ Len(t) \in Nat /\ Append(t, u) \in Seq(Creator)
  BY AppendProperties, LenProperties
<1> QED BY <1>1, EmptySeq

LEMMA OneRowStep ==
    ASSUME TypeOK, LedgerInv, OneRowInv, [Next]_vars
    PROVE  OneRowInv'
<1> SUFFICES ASSUME FaultFree', NEW c \in Channels
             PROVE  OneRow(c)'
  BY DEF OneRowInv
<1>0. /\ FaultFree /\ ~Spend("db") /\ ~Crash /\ OneRow(c)
      /\ tasks[c] \in Seq(Creator) /\ task_archive[c] \in Seq(Creator)
  BY FaultFreeBefore, TypeOK DEF OneRowInv, TypeOK, TablesTypeOK, Table
<1> USE DEF find_task, find_archived_task
<1>1. CASE OnCreated
  <2>1. shard' = shard /\ task_archive'[c] = task_archive[c]
    BY <1>1 DEF OnCreated
  <2>2. CASE tasks'[c] = tasks[c]
    BY <2>1, <2>2, <1>0 DEF OneRow
  <2>3. CASE tasks'[c] # tasks[c]
    <3>1. c = Head(outQ).channel /\ tasks'[c] = Append(tasks[c], Head(outQ).user)
      BY <1>1, <2>3, TaskRowMoves
         DEF OnCreated, CallBack, CloseDeletes, OnDeleteForgetsTask, OpenAdds
    <3>2. Head(outQ).user \in Creator /\ ~Recorded(c)
      <4>1. 1 \in DOMAIN outQ /\ Head(outQ) = outQ[1] /\ Creation(1)
        <5>1. 1 \in DOMAIN outQ /\ Head(outQ) = outQ[1]
          BY <1>1, TypeOK, TailElements DEF OnCreated, CallBack, TypeOK, GuildTypeOK
        <5> QED BY <5>1, <1>1 DEF OnCreated, CallBack, Creation
      <4> QED BY <4>1, <3>1, CreationUser DEF Creator
    <3>3. tasks[c] = <<>> /\ task_archive[c] = <<>>
      BY <3>2 DEF Recorded
    <3>4. Len(tasks'[c]) <= 1
      BY <3>1, <3>2, <3>3, <1>0, FirstOfTable
    <3>5. shard # At("add_task", c)
      BY <3>3 DEF LedgerInv, FoundInv, At
    <3> QED BY <2>1, <3>3, <3>4, <3>5, <1>0 DEF OneRow
  <2> QED BY <2>2, <2>3
<1>2. CASE CloseArchives
  <2>1. shard' = At("delete_task", shard.channel) /\ tasks'[c] = tasks[c]
        /\ shard.step = "archive_task"
    BY <1>2 DEF CloseArchives
  <2>2. CASE c = shard.channel
    <3>1. task_archive[c] = <<>>
      <4>1. shard = At("archive_task", c)
        BY <2>1, <2>2, TypeOK DEF TypeOK, At
      <4> QED BY <4>1, <1>0 DEF OneRow
    <3>2. Len(task_archive'[c]) <= 1
      BY <3>1, <1>0, ArchiveRowMoves, FirstOfTable DEF OneRow
    <3> QED BY <3>2, <2>1, <2>2, <1>0 DEF OneRow, At
  <2>3. CASE c # shard.channel
    <3>1. task_archive'[c] = task_archive[c]
      BY <2>3, ArchiveRowMoves
    <3> QED BY <3>1, <2>1, <2>3, <1>0 DEF OneRow, At
  <2> QED BY <2>2, <2>3
<1>3. CASE OpenAdds
  <2>1. shard' = At("delete_archived_task", shard.channel)
        /\ task_archive'[c] = task_archive[c] /\ shard.step = "add_task"
    BY <1>3 DEF OpenAdds
  <2>2. CASE c = shard.channel
    <3>1. tasks[c] = <<>>
      <4>1. shard = At("add_task", c)
        BY <2>1, <2>2, TypeOK DEF TypeOK, At
      <4> QED BY <4>1, <1>0 DEF OneRow
    <3>2. Len(tasks'[c]) <= 1
      <4>1. \/ tasks'[c] = tasks[c]
            \/ tasks'[c] = <<>>
            \/ \E u \in Creator : tasks'[c] = Append(tasks[c], u)
        <5>1. OnCreated => shard' = shard
          BY DEF OnCreated
        <5>2. ~OnCreated
          BY <5>1, <2>1 DEF At
        <5> QED BY <5>2, TaskRowMoves
      <4>2. CASE tasks'[c] \in {tasks[c], <<>>}
        BY <4>2, <3>1, EmptySeq
      <4>3. ASSUME NEW u \in Creator, tasks'[c] = Append(tasks[c], u)
            PROVE  Len(tasks'[c]) <= 1
        BY <4>3, <3>1, <1>0, FirstOfTable
      <4> QED BY <4>1, <4>2, <4>3
    <3> QED BY <3>2, <2>1, <2>2, <1>0 DEF OneRow, At
  <2>3. CASE c # shard.channel
    <3>1. tasks'[c] = tasks[c]
      <4>1. ~OnCreated
        BY <2>1 DEF OnCreated, At
      <4> QED BY <4>1, <2>3, TaskRowMoves
    <3> QED BY <3>1, <2>1, <2>3, <1>0 DEF OneRow, At
  <2> QED BY <2>2, <2>3
<1>4. CASE CloseTask \/ OpenTask
  <2>1. /\ shard = Idle /\ UNCHANGED <<tasks, task_archive>>
        /\ \/ /\ shard' = At("archive_task", Head(gateway).channel)
              /\ ~find_archived_task(Head(gateway).channel)
           \/ /\ shard' = At("add_task", Head(gateway).channel)
              /\ ~find_task(Head(gateway).channel)
    BY <1>4, <1>0 DEF CloseTask, OpenTask, Query, Receive
  <2>2. ~(find_task(c) /\ find_archived_task(c))
    BY <2>1, <1>0 DEF OneRow, At, Idle
  <2> QED BY <2>1, <2>2, <1>0 DEF OneRow, At
<1>5. CASE \/ CloseDeletes \/ OpenDeletesArchived
           \/ OnDeleteForgetsTask \/ OnDeleteForgetsArchived
  <2> DEFINE d == shard.channel
  <2>1. /\ shard' \in {At("send_panel", d), At("get_messages", d), Idle}
        /\ \/ task_archive' = task_archive /\ delete_task(d)
              /\ shard.step \in {"delete_task", "forget_task"}
           \/ tasks' = tasks /\ delete_archived_task(d)
              /\ shard.step \in {"delete_archived_task", "forget_archived_task"}
    BY <1>5 DEF CloseDeletes, OpenDeletesArchived, OnDeleteForgetsTask,
       OnDeleteForgetsArchived
  <2>2. d \in Channels /\ tasks \in Table /\ task_archive \in Table
    BY <2>1, TypeOK DEF TypeOK, TablesTypeOK
  <2>3. shard'.step \notin {"archive_task", "add_task"}
    BY <2>1 DEF At, Idle
  <2>4. Len(<<>>) = 0
    BY EmptySeq
  <2>5. CASE c = d
    <3>1. \/ task_archive'[c] = task_archive[c] /\ tasks'[c] = <<>>
          \/ tasks'[c] = tasks[c] /\ task_archive'[c] = <<>>
      BY <2>1, <2>2, <2>5 DEF delete_task, delete_archived_task, Table
    <3> QED BY <3>1, <2>3, <2>4, <1>0 DEF OneRow, At
  <2>6. CASE c # d
    <3>1. tasks'[c] = tasks[c] /\ task_archive'[c] = task_archive[c]
      BY <2>1, <2>2, <2>6 DEF delete_task, delete_archived_task, Table
    <3>2. ~(find_task(c) /\ find_archived_task(c))
      BY <2>6, <1>0 DEF OneRow, At
    <3> QED BY <3>1, <3>2, <2>3, <1>0 DEF OneRow, At
  <2> QED BY <2>5, <2>6
<1>6. CASE /\ ~OnCreated /\ ~CloseArchives /\ ~OpenAdds /\ ~CloseTask /\ ~OpenTask
           /\ ~CloseDeletes /\ ~OpenDeletesArchived
           /\ ~OnDeleteForgetsTask /\ ~OnDeleteForgetsArchived
  <2>1. tasks'[c] = tasks[c] /\ task_archive'[c] = task_archive[c]
    BY <1>6, TaskRowMoves, ArchiveRowMoves
  <2>2. \/ shard' = shard
        \/ /\ shard'.step \notin {"archive_task", "add_task"}
           /\ shard.step \notin {"delete_task", "delete_archived_task"}
    <3>1. CASE ShardThread
      <4>1. ~HandlerFails
        BY <1>0 DEF HandlerFails, CallFails
      <4> QED
        BY <4>1, <3>1, <1>6
           DEF ShardThread, Refuse, CreateTask, CloseSendsPanel, OpenGetsMessages,
               DeleteTask, OnChannelCreate, OnChannelDelete, OnDeleteFindsArchived,
               Receive, At, Idle
    <3>2. CASE CallbackThread \/ Environment \/ UNCHANGED vars
      BY <3>2
         DEF CallbackThread, OnCreated, CreatedSendsWelcome, OnFollowup, SleepEnds,
             OnMessages, Environment, vars
    <3> QED BY <3>1, <3>2, <1>0, [Next]_vars DEF Next
  <2> QED BY <2>1, <2>2, <1>0 DEF OneRow, At
<1> QED BY <1>1, <1>2, <1>3, <1>4, <1>5, <1>6

\* Two clicks, the second one while the first is being handled or on its way, never
\* leave a task in both tables or with two rows.
THEOREM OpenOrClosed == Spec => []OpenXorClosed
<1>1. TypeOK /\ LedgerInv /\ OneRowInv /\ [Next]_vars => LedgerInv' /\ OneRowInv'
  BY LedgerStep, OneRowStep
<1>2. OneRowInv => OpenXorClosed
  BY DEF OneRowInv, OneRow, OpenXorClosed, FaultFree
<1> QED BY TypeCorrect, LedgerInit, OneRowInit, <1>1, <1>2, PTL DEF Spec

-----------------------------------------------------------------------------
(* No orphans: a task with a welcome message has been written down, so that what *)
(* CHANNEL_DELETE removes is all there will ever be.                             *)

Welcoming(c) == c \in welcome \/ Queued(c, "welcome") \/ out = At("send_welcome", c)

WelcomeInv == \A c \in Channels : Welcoming(c) => opener[c] # NoUser /\ ~Pending(c)

Announced(c) ==
    \E i \in DOMAIN gateway : gateway[i] = [type |-> "CHANNEL_DELETE", channel |-> c]

\* What is left of a gone channel is about to be found, and nothing is missed.
Forgettable(c) ==
    /\ Recorded(c) => Announced(c) \/ (shard.step \in Forgetting /\ shard.channel = c)
    /\ shard = At("forget_task", c) => ~find_archived_task(c)
    /\ shard \in {At("find_archived_task", c), At("forget_archived_task", c)}
          => ~find_task(c)

OrphanInv == FaultFree => \A c \in welcome \ channels : Forgettable(c)

Asked(op, ids) == [op |-> op, ids |-> ids]

\* The requests to a channel: who posts each kind, and who takes one.
LEMMA RequestMoves ==
    ASSUME TypeOK, [Next]_vars, NEW c \in Channels
    PROVE  \/ channelQ'[c] = channelQ[c]
           \/ Crash /\ channelQ'[c] = <<>>
           \/ \E r \in Request :
                 /\ channelQ'[c] = Append(channelQ[c], r)
                 /\ \/ /\ r = Asked("welcome", {})
                       /\ CreatedSendsWelcome /\ out = At("send_welcome", c)
                    \/ /\ r = Asked("panel", {})
                       /\ CloseSendsPanel /\ shard = At("send_panel", c)
                    \/ /\ r = Asked("messages_get", {})
                       /\ OpenGetsMessages /\ shard = At("get_messages", c)
                    \/ /\ r = Asked("message_delete", Head(outQ).ids)
                       /\ OnMessages /\ Head(outQ).channel = c
                    \/ /\ r = Asked("channel_delete", {})
                       /\ SleepEnds /\ out.channel = c
           \/ /\ channelQ[c] # <<>> /\ channelQ'[c] = Tail(channelQ[c])
              /\ ChannelThread(c)
<1>0. channelQ \in [Channels -> Seq(Request)]
  BY TypeOK DEF TypeOK, GuildTypeOK
<1>1. ASSUME NEW d \in Channels, NEW op \in Ops, NEW ids \in SUBSET Nat, Post(d, op, ids)
      PROVE  \/ d # c /\ channelQ'[c] = channelQ[c]
             \/ /\ d = c /\ Asked(op, ids) \in Request
                /\ channelQ'[c] = Append(channelQ[c], Asked(op, ids))
  BY <1>0, <1>1 DEF Post, Asked, Request, Ops
<1>2. ASSUME NEW d \in Channels, NEW op, Take(d, op)
      PROVE  \/ d # c /\ channelQ'[c] = channelQ[c]
             \/ d = c /\ channelQ[c] # <<>> /\ channelQ'[c] = Tail(channelQ[c])
  BY <1>0, <1>2 DEF Take
<1>3. CASE CloseSendsPanel \/ OpenGetsMessages
  <2>1. /\ shard.channel \in Channels /\ {} \in SUBSET Nat
        /\ shard = At(shard.step, shard.channel)
    BY <1>3, TypeOK DEF TypeOK, CloseSendsPanel, OpenGetsMessages, At
  <2>2. CASE CloseSendsPanel
    <3>1. shard.step = "send_panel" /\ Post(shard.channel, "panel", {}) /\ "panel" \in Ops
      BY <2>2 DEF CloseSendsPanel, Ops
    <3>2. CASE shard.channel = c
      BY <3>1, <3>2, <2>1, <2>2, <1>1
    <3> QED BY <3>1, <3>2, <2>1, <1>1
  <2>3. CASE OpenGetsMessages
    <3>1. /\ shard.step = "get_messages" /\ Post(shard.channel, "messages_get", {})
          /\ "messages_get" \in Ops
      BY <2>3 DEF OpenGetsMessages, Ops
    <3>2. CASE shard.channel = c
      BY <3>1, <3>2, <2>1, <2>3, <1>1
    <3> QED BY <3>1, <3>2, <2>1, <1>1
  <2> QED BY <2>2, <2>3, <1>3
<1>4. CASE SleepEnds \/ CreatedSendsWelcome
  <2>1. /\ out.channel \in Channels /\ {} \in SUBSET Nat
        /\ out = At(out.step, out.channel)
    BY <1>4, TypeOK DEF TypeOK, SleepEnds, CreatedSendsWelcome, At
  <2>2. CASE SleepEnds
    <3>1. Post(out.channel, "channel_delete", {}) /\ "channel_delete" \in Ops
      BY <2>2 DEF SleepEnds, Ops
    <3>2. CASE out.channel = c
      BY <3>1, <3>2, <2>1, <2>2, <1>1
    <3> QED BY <3>1, <3>2, <2>1, <1>1
  <2>3. CASE CreatedSendsWelcome
    <3>1. /\ out.step = "send_welcome" /\ Post(out.channel, "welcome", {})
          /\ "welcome" \in Ops
      BY <2>3 DEF CreatedSendsWelcome, Ops
    <3>2. CASE out.channel = c
      BY <3>1, <3>2, <2>1, <2>3, <1>1
    <3> QED BY <3>1, <3>2, <2>1, <1>1
  <2> QED BY <2>2, <2>3, <1>4
<1>5. CASE OnMessages
  <2>1. Head(outQ) \in Completion /\ Head(outQ).op = "messages_get"
    BY <1>5, TypeOK, CallBackType DEF OnMessages, TypeOK
  <2>2. /\ Head(outQ).channel \in Channels /\ Head(outQ).ids \in SUBSET Nat
        /\ "message_delete" \in Ops
    BY <2>1, CompletionFields DEF Ops
  <2>3. \/ channelQ' = channelQ
        \/ Post(Head(outQ).channel, "message_delete", Head(outQ).ids)
    BY <1>5 DEF OnMessages
  <2>4. CASE Head(outQ).channel = c
    BY <2>2, <2>3, <2>4, <1>1, <1>5
  <2> QED BY <2>2, <2>3, <2>4, <1>1
<1>6. CASE Crash
  BY <1>6 DEF Crash
<1>7. CASE RestThreads
  <2>1. ASSUME NEW d \in Channels, ChannelThread(d)
        PROVE  \E op : Take(d, op)
    BY <2>1
       DEF ChannelThread, RunWelcome, RunPanel, RunMessagesGet, RunMessageDelete,
           RunChannelDelete, FailChannelRequest
  <2>2. ASSUME NEW d \in Channels, ChannelThread(d)
        PROVE  \/ channelQ'[c] = channelQ[c]
               \/ /\ channelQ[c] # <<>> /\ channelQ'[c] = Tail(channelQ[c])
                  /\ ChannelThread(c)
    BY <2>1, <2>2, <1>2
  <2>3. CASE channelQ' = channelQ
    BY <2>3
  <2> QED
    BY <2>2, <2>3, <1>7
       DEF RestThreads, RunChannelCreate, LoseChannelCreated, FailChannelCreate,
           RunFollowup, FailFollowup, RunReply
<1>8. CASE People
  BY <1>8 DEF People, ClickCreate, ClickButton, ModeratorDeletes
<1>9. CASE ShardThread /\ ~CloseSendsPanel /\ ~OpenGetsMessages
  BY <1>9
     DEF ShardThread, Refuse, CreateTask, CloseTask, CloseArchives, CloseDeletes,
         OpenTask, OpenAdds, OpenDeletesArchived, DeleteTask, OnChannelCreate,
         OnChannelDelete, OnDeleteFindsArchived, OnDeleteForgetsTask,
         OnDeleteForgetsArchived, HandlerFails, CallFails
<1>10. CASE OnCreated \/ OnFollowup \/ UNCHANGED vars
  BY <1>10 DEF OnCreated, OnFollowup, vars
<1> QED
  BY <1>3, <1>4, <1>5, <1>6, <1>7, <1>8, <1>9, <1>10, [Next]_vars
     DEF Next, CallbackThread, Environment

\* A request of some kind is new in the queue only if it was just posted.
LEMMA QueuedBefore ==
    ASSUME TypeOK, [Next]_vars, NEW c \in Channels, NEW op, Queued(c, op)'
    PROVE  \/ Queued(c, op)
           \/ op = "welcome" /\ CreatedSendsWelcome /\ out = At("send_welcome", c)
           \/ op = "panel" /\ CloseSendsPanel /\ shard = At("send_panel", c)
           \/ op = "messages_get" /\ OpenGetsMessages /\ shard = At("get_messages", c)
           \/ op \in {"message_delete", "channel_delete"}
<1>0. channelQ[c] \in Seq(Request)
  BY TypeOK DEF TypeOK, GuildTypeOK
<1>1. PICK i \in DOMAIN channelQ'[c] : channelQ'[c][i].op = op
  BY DEF Queued
<1>2. CASE channelQ'[c] = channelQ[c]
  BY <1>1, <1>2 DEF Queued
<1>3. CASE channelQ'[c] = <<>>
  BY <1>1, <1>3
<1>4. ASSUME NEW r \in Request, channelQ'[c] = Append(channelQ[c], r)
      PROVE  Queued(c, op) \/ r.op = op
  BY <1>0, <1>1, <1>4, AppendElements DEF Queued
<1>5. CASE channelQ[c] # <<>> /\ channelQ'[c] = Tail(channelQ[c])
  <2>1. i + 1 \in DOMAIN channelQ[c] /\ channelQ'[c][i] = channelQ[c][i + 1]
    BY <1>0, <1>1, <1>5, TailElements
  <2> QED BY <2>1, <1>1 DEF Queued
<1> QED BY <1>2, <1>3, <1>4, <1>5, RequestMoves DEF Asked

\* The message appears in a channel that exists, when it was asked for.
LEMMA MessageArrives ==
    ASSUME [Next]_vars, NEW c \in Channels, c \in welcome'
    PROVE  c \in welcome \/ RunWelcome(c)
<1>1. CASE People
  BY <1>1 DEF People, ClickCreate, ClickButton, ModeratorDeletes
<1>2. CASE RestThreads
  BY <1>2
     DEF RestThreads, ChannelThread, RunWelcome, RunPanel, RunMessagesGet,
         RunMessageDelete, RunChannelDelete, FailChannelRequest, RunChannelCreate,
         LoseChannelCreated, CreateChannel, FailChannelCreate, RunFollowup, FailFollowup, RunReply
<1>3. CASE ShardThread \/ CallbackThread \/ Crash \/ UNCHANGED vars
  BY <1>3
     DEF ShardThread, Refuse, CreateTask, CloseTask, CloseArchives, CloseDeletes,
         CloseSendsPanel, OpenTask, OpenAdds, OpenDeletesArchived, OpenGetsMessages,
         DeleteTask, OnChannelCreate, OnChannelDelete, OnDeleteFindsArchived,
         OnDeleteForgetsTask, OnDeleteForgetsArchived, HandlerFails, CallFails,
         CallbackThread, OnCreated, CreatedSendsWelcome, OnFollowup, SleepEnds,
         OnMessages, Crash, vars
<1> QED BY <1>1, <1>2, <1>3, [Next]_vars DEF Next, Environment

\* A channel gets its welcome message after the callback has written it down.
LEMMA WelcomeMoves ==
    ASSUME TypeOK, [Next]_vars, NEW c \in Channels, Welcoming(c)'
    PROVE  \/ Welcoming(c)
           \/ OnCreated /\ c = Head(outQ).channel
<1>1. CASE Queued(c, "welcome")'
  BY <1>1, QueuedBefore DEF Welcoming
<1>2. CASE c \in welcome'
  <2>1. ASSUME RunWelcome(c)
        PROVE  Queued(c, "welcome")
    <3>1. /\ channelQ[c] # <<>> /\ Head(channelQ[c]).op = "welcome"
          /\ channelQ[c] \in Seq(Request)
      BY <2>1, TypeOK DEF RunWelcome, Take, TypeOK, GuildTypeOK
    <3> QED BY <3>1, TailElements DEF Queued
  <2> QED BY <2>1, <1>2, MessageArrives DEF Welcoming
<1>3. CASE out' = At("send_welcome", c)
  <2>1. CASE OnCreated
    BY <1>3, <2>1 DEF OnCreated, At, Welcoming
  <2>2. CASE out' = out
    BY <1>3, <2>2 DEF Welcoming
  <2>3. CASE CreatedSendsWelcome \/ OnFollowup \/ SleepEnds \/ Crash
    BY <1>3, <2>3 DEF CreatedSendsWelcome, OnFollowup, SleepEnds, Crash, At, Idle
  <2>4. CASE ShardThread \/ OnMessages \/ Environment \/ UNCHANGED vars
    BY <2>2, <2>4
       DEF ShardThread, Refuse, CreateTask, CloseTask, CloseArchives, CloseDeletes,
           CloseSendsPanel, OpenTask, OpenAdds, OpenDeletesArchived, OpenGetsMessages,
           DeleteTask, OnChannelCreate, OnChannelDelete, OnDeleteFindsArchived,
           OnDeleteForgetsTask, OnDeleteForgetsArchived, HandlerFails, CallFails,
           OnMessages, Environment, vars
  <2> QED BY <2>1, <2>3, <2>4, [Next]_vars DEF Next, CallbackThread
<1> QED BY <1>1, <1>2, <1>3 DEF Welcoming

LEMMA WelcomeStep ==
    ASSUME TypeOK, LedgerInv, WelcomeInv, [Next]_vars
    PROVE  WelcomeInv'
<1> SUFFICES ASSUME NEW c \in Channels, Welcoming(c)'
             PROVE  opener'[c] # NoUser /\ ~Pending(c)'
  BY DEF WelcomeInv
<1>1. ASSUME OnCreated, c = Head(outQ).channel
      PROVE  opener[c] # NoUser /\ ~Pending(c)'
  <2>1. /\ outQ \in Seq(Completion) /\ outQ # <<>> /\ outQ' = Tail(outQ)
        /\ Head(outQ).op = "channel_create"
    BY <1>1, TypeOK DEF OnCreated, CallBack, TypeOK, GuildTypeOK
  <2>2. /\ 1 \in DOMAIN outQ /\ Head(outQ) = outQ[1] /\ outQ' \in Seq(Completion)
        /\ \A i \in DOMAIN outQ' : i + 1 \in DOMAIN outQ /\ outQ'[i] = outQ[i + 1]
    BY <2>1, TailElements
  <2>3. Creation(1) /\ outQ[1].channel = c
    BY <2>1, <2>2, <1>1 DEF Creation
  <2>4. \A i \in DOMAIN outQ' : i \in Nat \ {0}
    <3>1. DOMAIN outQ' = 1 .. Len(outQ') /\ Len(outQ') \in Nat
      BY <2>2, LenProperties
    <3> QED BY <3>1
  <2>5. ASSUME NEW i \in DOMAIN outQ', outQ'[i].op = "channel_create",
               outQ'[i].channel = c
        PROVE  FALSE
    <3>1. Creation(i + 1) /\ outQ[i + 1].channel = c
      BY <2>2, <2>5 DEF Creation
    <3>2. i + 1 = 1
      BY <3>1, <2>3 DEF LedgerInv, PendingInv, Creation
    <3> QED BY <3>2, <2>4, <2>5
  <2> QED BY <2>2, <2>3, <2>5, CreationUser DEF Pending
<1>2. ASSUME Welcoming(c), ~(OnCreated /\ c = Head(outQ).channel)
      PROVE  opener[c] # NoUser /\ ~Pending(c)'
  <2>1. opener[c] # NoUser /\ ~Pending(c)
    BY <1>2 DEF WelcomeInv
  <2>2. CASE Crash
    <3>1. outQ' = <<>> /\ DOMAIN <<>> = {}
      BY <2>2 DEF Crash
    <3> QED BY <3>1, <2>1 DEF Pending
  <2>3. CASE ~Crash
    <3>1. ~RunChannelCreate(c)
      BY <2>1 DEF RunChannelCreate, CreateChannel
    <3> QED BY <3>1, <2>1, <2>3, <1>2, PendingMoves
  <2> QED BY <2>2, <2>3
<1> QED BY <1>1, <1>2, WelcomeMoves, OpenerKept

\* A CHANNEL_DELETE on its way stays there until on_channel_delete is called for it.
LEMMA AnnouncedUntilHandled ==
    ASSUME TypeOK, [Next]_vars, ~Crash, NEW c \in Channels, Announced(c)
    PROVE  Announced(c)' \/ (OnChannelDelete /\ Head(gateway).channel = c)
<1> DEFINE e == [type |-> "CHANNEL_DELETE", channel |-> c]
<1>1. PICK i \in DOMAIN gateway : gateway[i] = e
  BY DEF Announced
<1>2. gateway \in Seq(Event) /\ DOMAIN gateway = 1 .. Len(gateway) /\ Len(gateway) \in Nat
  <2>1. gateway \in Seq(Event)
    BY TypeOK DEF TypeOK, GuildTypeOK
  <2> QED BY <2>1, LenProperties
<1>3. ASSUME gateway' = gateway
      PROVE  Announced(c)'
  BY <1>1, <1>3 DEF Announced
<1>4. ASSUME NEW d \in Event, Deliver(d)
      PROVE  Announced(c)'
  <2>1. gateway' = Append(gateway, d)
    BY <1>4 DEF Deliver
  <2>2. i \in DOMAIN gateway' /\ gateway'[i] = gateway[i]
    <3>1. /\ gateway' \in Seq(Event) /\ Len(gateway') = Len(gateway) + 1
          /\ \A j \in 1 .. Len(gateway) : gateway'[j] = gateway[j]
      BY <2>1, <1>2, AppendProperties
    <3>2. DOMAIN gateway' = 1 .. Len(gateway')
      BY <3>1, LenProperties
    <3> QED BY <3>1, <3>2, <1>2
  <2> QED BY <2>2, <1>1 DEF Announced
<1>5. ASSUME NEW type, Receive(type)
      PROVE  Announced(c)' \/ (type = "CHANNEL_DELETE" /\ Head(gateway).channel = c)
  <2>1. gateway # <<>> /\ gateway' = Tail(gateway) /\ Head(gateway).type = type
    BY <1>5 DEF Receive
  <2>2. /\ Head(gateway) = gateway[1] /\ gateway' \in Seq(Event)
        /\ Len(gateway') = Len(gateway) - 1
        /\ \A j \in 1 .. Len(gateway') : gateway'[j] = gateway[j + 1]
    BY <2>1, <1>2, HeadTailProperties
  <2>3. DOMAIN gateway' = 1 .. Len(gateway')
    BY <2>2, LenProperties
  <2>4. CASE i = 1
    BY <2>1, <2>2, <2>4, <1>1
  <2>5. CASE i # 1
    <3>1. i - 1 \in DOMAIN gateway' /\ (i - 1) + 1 = i
      BY <2>2, <2>3, <2>5, <1>2
    <3>2. gateway'[i - 1] = e
      BY <3>1, <2>2, <2>3, <1>1
    <3> QED BY <3>1, <3>2 DEF Announced
  <2> QED BY <2>4, <2>5
<1> HIDE DEF e
<1>6. CASE ShardThread
  <2>1. \/ gateway' = gateway
        \/ \E b \in {"create_task"} \cup ButtonEvents : Receive(b)
        \/ Receive("CHANNEL_CREATE")
        \/ OnChannelDelete
    BY <1>6
       DEF ShardThread, Refuse, CreateTask, CloseTask, CloseArchives, CloseDeletes,
           CloseSendsPanel, OpenTask, OpenAdds, OpenDeletesArchived, OpenGetsMessages,
           DeleteTask, OnChannelCreate, OnDeleteFindsArchived,
           OnDeleteForgetsTask, OnDeleteForgetsArchived, HandlerFails, ButtonEvents
  <2>2. OnChannelDelete => Receive("CHANNEL_DELETE")
    BY DEF OnChannelDelete
  <2>3. "CHANNEL_DELETE" \notin {"create_task"} \cup ButtonEvents
    BY DEF ButtonEvents
  <2> QED BY <2>1, <2>2, <2>3, <1>3, <1>5
<1>7. CASE CallbackThread \/ UNCHANGED vars
  BY <1>3, <1>7
     DEF CallbackThread, OnCreated, CreatedSendsWelcome, OnFollowup, SleepEnds,
         OnMessages, vars
<1>8. CASE People
  <2>1. ASSUME NEW d \in Channels, NEW b \in ButtonEvents \cup {"CHANNEL_DELETE"}
        PROVE  [type |-> b, channel |-> d] \in Event
    BY DEF Event
  <2>2. \A u \in Users : [type |-> "create_task", user |-> u] \in Event
    BY DEF Event
  <2> QED BY <2>1, <2>2, <1>4, <1>8 DEF People, ClickCreate, ClickButton, ModeratorDeletes
<1>9. CASE RestThreads
  <2>1. ASSUME NEW d \in Channels, NEW b \in {"CHANNEL_CREATE", "CHANNEL_DELETE"}
        PROVE  [type |-> b, channel |-> d] \in Event
    BY DEF Event
  <2>2. ASSUME NEW d \in Channels,
               RunChannelCreate(d) \/ LoseChannelCreated(d) \/ RunChannelDelete(d)
        PROVE  Announced(c)'
    BY <2>1, <2>2, <1>4
       DEF RunChannelCreate, LoseChannelCreated, CreateChannel, RunChannelDelete
  <2>3. CASE \A d \in Channels :
                ~RunChannelCreate(d) /\ ~LoseChannelCreated(d) /\ ~RunChannelDelete(d)
    <3>1. gateway' = gateway
      BY <2>3, <1>9
         DEF RestThreads, ChannelThread, RunWelcome, RunPanel, RunMessagesGet,
             RunMessageDelete, FailChannelRequest, FailChannelCreate, RunFollowup,
             FailFollowup, RunReply
    <3> QED BY <3>1, <1>3
  <2> QED BY <2>2, <2>3
<1> QED BY <1>6, <1>7, <1>8, <1>9, [Next]_vars DEF Next, Environment

\* Whoever deletes a channel, Discord tells the bot.
LEMMA DeletedAnnounced ==
    ASSUME TypeOK, [Next]_vars, NEW c \in channels \ channels'
    PROVE  Announced(c)' /\ shard' = shard
<1> DEFINE e == [type |-> "CHANNEL_DELETE", channel |-> c]
<1>1. c \in Channels /\ e \in Event /\ gateway \in Seq(Event)
  BY TypeOK DEF TypeOK, GuildTypeOK, Event
<1>2. ASSUME Deliver(e)
      PROVE  Announced(c)'
  <2>1. /\ gateway' = Append(gateway, e) /\ gateway' \in Seq(Event)
        /\ Len(gateway') = Len(gateway) + 1 /\ Len(gateway) \in Nat
        /\ gateway'[Len(gateway) + 1] = e
    BY <1>1, <1>2, AppendProperties, LenProperties DEF Deliver
  <2>2. Len(gateway) + 1 \in DOMAIN gateway'
    BY <2>1, LenProperties
  <2> QED BY <2>1, <2>2 DEF Announced
<1>3. Environment
  <2>1. channels' # channels
    OBVIOUS
  <2> QED
    BY <2>1, [Next]_vars
       DEF Next, ShardThread, Refuse, CreateTask, CloseTask, CloseArchives,
           CloseDeletes, CloseSendsPanel, OpenTask, OpenAdds, OpenDeletesArchived,
           OpenGetsMessages, DeleteTask, OnChannelCreate, OnChannelDelete,
           OnDeleteFindsArchived, OnDeleteForgetsTask, OnDeleteForgetsArchived,
           HandlerFails, CallFails, CallbackThread, OnCreated, CreatedSendsWelcome,
           OnFollowup, SleepEnds, OnMessages, Crash, vars
<1>4. ModeratorDeletes(c) \/ RunChannelDelete(c)
  <2>1. CASE People
    BY <2>1 DEF People, ClickCreate, ClickButton, ModeratorDeletes
  <2>2. CASE RestThreads
    BY <2>2
       DEF RestThreads, ChannelThread, RunWelcome, RunPanel, RunMessagesGet,
           RunMessageDelete, RunChannelDelete, FailChannelRequest, RunChannelCreate,
           LoseChannelCreated, CreateChannel, FailChannelCreate, RunFollowup, FailFollowup, RunReply
  <2> QED BY <2>1, <2>2, <1>3 DEF Environment
<1>5. Deliver(e) /\ shard' = shard
  BY <1>3, <1>4 DEF ModeratorDeletes, RunChannelDelete, Environment
<1> QED BY <1>2, <1>5

LEMMA OrphanInit == Init => WelcomeInv /\ OrphanInv
<1> SUFFICES ASSUME Init
             PROVE  WelcomeInv /\ OrphanInv
  OBVIOUS
<1>1. welcome = {} /\ out = Idle /\ \A c \in Channels : channelQ[c] = <<>>
  BY DEF Init, GuildInit
<1>2. DOMAIN <<>> = {}
  OBVIOUS
<1>3. \A c \in Channels : ~Welcoming(c)
  BY <1>1, <1>2 DEF Welcoming, Queued, Idle, At
<1> QED BY <1>1, <1>3 DEF WelcomeInv, OrphanInv

\* The callback that could write the channel down has already done so.
LEMMA NoLateRow ==
    ASSUME TypeOK, LedgerInv, WelcomeInv, [Next]_vars, NEW c \in Channels, c \in welcome
    PROVE  /\ ~(OnCreated /\ Head(outQ).channel = c)
           /\ ~Recorded(c) => ~RecordedNext(c)
<1>1. ~Pending(c)
  BY DEF WelcomeInv, Welcoming
<1>2. ASSUME OnCreated, Head(outQ).channel = c
      PROVE  Pending(c)
  <2>1. 1 \in DOMAIN outQ /\ Head(outQ) = outQ[1]
    BY <1>2, TypeOK, TailElements DEF OnCreated, CallBack, TypeOK, GuildTypeOK
  <2> QED BY <2>1, <1>2 DEF OnCreated, CallBack, Pending
<1>3. ~Recorded(c) /\ RecordedNext(c) => Pending(c)
  BY FirstRow DEF Creation, Pending
<1> QED BY <1>1, <1>2, <1>3

LEMMA OrphanStep ==
    ASSUME TypeOK, RecordInv, LedgerInv, OneRowInv, WelcomeInv, OrphanInv, [Next]_vars
    PROVE  OrphanInv'
<1> SUFFICES ASSUME FaultFree', NEW c \in welcome' \ channels'
             PROVE  Forgettable(c)'
  BY DEF OrphanInv
<1>0. c \in Channels /\ FaultFree /\ ~Spend("db") /\ ~Crash
  BY TypeStep, FaultFreeBefore DEF TypeOK, GuildTypeOK
<1>1. ~HandlerFails
  BY <1>0 DEF HandlerFails, CallFails
<1>2. CASE c \in channels
  <2>1. Announced(c)' /\ shard' = shard
    BY <1>2, DeletedAnnounced
  <2>2. ~(shard.step \in Forgetting /\ shard.channel = c)
    BY <1>2 DEF RecordInv, ForgettingInv, Gone
  <2> QED BY <2>1, <2>2 DEF Forgettable, At, Forgetting
<1>3. CASE c \notin channels
  <2>1. c \in welcome
    BY <1>0, <1>3, MessageArrives DEF RunWelcome
  <2>2. /\ Forgettable(c) /\ OneRow(c)
        /\ ~(OnCreated /\ Head(outQ).channel = c)
        /\ ~Recorded(c) => ~RecordedNext(c)
    BY <2>1, <1>0, <1>3, NoLateRow DEF OrphanInv, OneRowInv
  <2>3. CASE shard' = shard
    <3>1. Recorded(c)' => Announced(c)' \/ (shard'.step \in Forgetting /\ shard'.channel = c)
      <4>1. Announced(c) => Announced(c)' \/ (OnChannelDelete /\ Head(gateway).channel = c)
        BY <1>0, AnnouncedUntilHandled
      <4>2. ~OnChannelDelete
        BY <2>3 DEF OnChannelDelete, Receive, At, Idle
      <4>3. Recorded(c)' => Recorded(c)
        BY <2>2 DEF RecordedNext, Recorded, find_task, find_archived_task
      <4> QED BY <4>1, <4>2, <4>3, <2>2, <2>3 DEF Forgettable
    <3>2. ASSUME shard = At("forget_task", c)
          PROVE  ~find_archived_task(c)'
      <4>1. shard.step = "forget_task"
        BY <3>2 DEF At
      <4>2. ~CloseArchives
        BY <4>1 DEF CloseArchives
      <4> QED
        BY <4>2, <3>2, <2>2, <1>0, ArchiveRowMoves DEF Forgettable, find_archived_task
    <3>3. ASSUME shard \in {At("find_archived_task", c), At("forget_archived_task", c)}
          PROVE  ~find_task(c)'
      <4>1. shard.step \in {"find_archived_task", "forget_archived_task"}
        BY <3>3 DEF At
      <4>2. ~OpenAdds
        BY <4>1 DEF OpenAdds
      <4> QED BY <4>2, <3>3, <2>2, <1>0, TaskRowMoves DEF Forgettable, find_task
    <3> QED BY <3>1, <3>2, <3>3, <2>3 DEF Forgettable
  <2>4. CASE OnChannelDelete
    <3> DEFINE d == Head(gateway).channel
    <3>1. /\ UNCHANGED <<tasks, task_archive>> /\ shard = Idle
          /\ \/ shard' = At("forget_task", d) /\ find_task(d)
             \/ shard' = At("find_archived_task", d) /\ ~find_task(d)
      BY <2>4, <1>0 DEF OnChannelDelete, Query, Receive
    <3>2. Recorded(c)' = Recorded(c) /\ find_task(c)' = find_task(c)
          /\ find_archived_task(c)' = find_archived_task(c)
      BY <3>1 DEF Recorded, find_task, find_archived_task
    <3>3. Recorded(c) => Announced(c)
      BY <3>1, <2>2 DEF Forgettable, Idle, Forgetting
    <3>4. Announced(c) => Announced(c)' \/ d = c
      BY <1>0, AnnouncedUntilHandled
    <3>5. ~(find_task(c) /\ find_archived_task(c))
      BY <3>1, <2>2 DEF OneRow, At, Idle
    <3> QED BY <3>1, <3>2, <3>3, <3>4, <3>5 DEF Forgettable, At, Forgetting
  <2>5. CASE /\ shard.step \in Forgetting /\ shard' # shard
             /\ ~OnChannelDelete
    <3> DEFINE d == shard.channel
    <3>1. OnDeleteForgetsTask \/ OnDeleteForgetsArchived \/ OnDeleteFindsArchived
      <4>1. CASE ShardThread
        <5>1. shard # Idle
          BY <2>5 DEF Forgetting, Idle
        <5>2. ~(\/ Refuse \/ CreateTask \/ CloseTask \/ OpenTask \/ DeleteTask
                \/ OnChannelCreate)
          BY <5>1
             DEF Refuse, CreateTask, CloseTask, OpenTask, DeleteTask, OnChannelCreate,
                 Receive
        <5>3. ~(\/ CloseArchives \/ CloseDeletes \/ CloseSendsPanel
                \/ OpenAdds \/ OpenDeletesArchived \/ OpenGetsMessages)
          BY <2>5
             DEF Forgetting, CloseArchives, CloseDeletes, CloseSendsPanel, OpenAdds,
                 OpenDeletesArchived, OpenGetsMessages
        <5> QED BY <4>1, <2>5, <1>1, <5>2, <5>3 DEF ShardThread
      <4>2. CASE CallbackThread \/ Environment \/ UNCHANGED vars
        BY <4>2, <2>5
           DEF CallbackThread, OnCreated, CreatedSendsWelcome, OnFollowup, SleepEnds,
               OnMessages, Environment, vars
      <4> QED BY <4>1, <4>2, <1>0, [Next]_vars DEF Next
    <3>2. d \in Channels /\ tasks \in Table /\ task_archive \in Table
      BY <2>5, TypeOK DEF TypeOK, TablesTypeOK, Forgetting
    <3>3. shard = At(shard.step, d)
      BY TypeOK DEF TypeOK, At
    <3>4. /\ shard' = Idle \/ shard' = At("forget_archived_task", d)
          /\ gateway' = gateway
      BY <3>1 DEF OnDeleteForgetsTask, OnDeleteForgetsArchived, OnDeleteFindsArchived
    <3>5. shard' # At("forget_task", c) /\ shard' # At("find_archived_task", c)
      BY <3>4 DEF At, Idle
    <3>6. CASE c # d
      <4>1. Announced(c)' = Announced(c)
        BY <3>4 DEF Announced
      <4>2. Recorded(c)' => Announced(c)'
        BY <4>1, <3>6, <2>2 DEF Forgettable, RecordedNext, Recorded, find_task,
           find_archived_task
      <4>3. shard' # At("forget_archived_task", c)
        BY <3>4, <3>6 DEF At, Idle
      <4> QED BY <4>2, <4>3, <3>5 DEF Forgettable
    <3>7. CASE c = d /\ OnDeleteForgetsTask
      <4>1. /\ shard = At("forget_task", c) /\ shard' = Idle
            /\ task_archive' = task_archive /\ tasks'[c] = <<>>
        BY <3>2, <3>3, <3>7 DEF OnDeleteForgetsTask, delete_task, Table
      <4>2. ~Recorded(c)'
        BY <4>1, <2>2 DEF Forgettable, Recorded, find_task, find_archived_task
      <4> QED BY <4>1, <4>2 DEF Forgettable, At, Idle
    <3>8. CASE c = d /\ OnDeleteForgetsArchived
      <4>1. /\ shard = At("forget_archived_task", c) /\ shard' = Idle
            /\ tasks' = tasks /\ task_archive'[c] = <<>>
        BY <3>2, <3>3, <3>8 DEF OnDeleteForgetsArchived, delete_archived_task, Table
      <4>2. ~Recorded(c)'
        BY <4>1, <2>2 DEF Forgettable, Recorded, find_task, find_archived_task
      <4> QED BY <4>1, <4>2 DEF Forgettable, At, Idle
    <3>9. CASE c = d /\ OnDeleteFindsArchived
      <4>1. /\ shard = At("find_archived_task", c) /\ UNCHANGED <<tasks, task_archive>>
            /\ \/ shard' = At("forget_archived_task", c)
               \/ shard' = Idle /\ ~find_archived_task(c)
        BY <3>3, <3>9, <1>0 DEF OnDeleteFindsArchived, Query
      <4>2. ~find_task(c)
        BY <4>1, <2>2 DEF Forgettable
      <4>3. find_task(c)' = find_task(c) /\ find_archived_task(c)' = find_archived_task(c)
        BY <4>1 DEF find_task, find_archived_task
      <4>4. Recorded(c)' => find_archived_task(c)
        BY <4>2, <4>3 DEF Recorded
      <4> QED BY <4>1, <4>2, <4>3, <4>4, <3>5 DEF Forgettable, At, Forgetting
    <3> QED BY <3>1, <3>6, <3>7, <3>8, <3>9
  <2>6. CASE shard.step \notin Forgetting /\ shard' # shard /\ ~OnChannelDelete
    <3>1. shard'.step \notin Forgetting
      <4>1. ~OnDeleteFindsArchived
        BY <2>6 DEF OnDeleteFindsArchived, Forgetting
      <4> QED BY <4>1, <2>6, ShardMoves DEF Forgetting, At
    <3>2. Recorded(c) => Announced(c)'
      BY <1>0, <2>2, <2>6, AnnouncedUntilHandled DEF Forgettable
    <3>3. Recorded(c)' => Recorded(c)
      BY <2>2 DEF RecordedNext, Recorded, find_task, find_archived_task
    <3> QED BY <3>1, <3>2, <3>3 DEF Forgettable, Forgetting, At
  <2> QED BY <2>3, <2>4, <2>5, <2>6
<1> QED BY <1>2, <1>3

\* Whoever deletes the channel of a task, and whatever is clicked meanwhile: its row is
\* not left behind.
THEOREM NoneOrphaned == Spec => []NoOrphan
<1> DEFINE I == LedgerInv /\ RecordInv /\ OneRowInv /\ WelcomeInv /\ OrphanInv
<1>1. Init => I
  BY LedgerInit, RecordInit, OneRowInit, OrphanInit
<1>2. TypeOK /\ I /\ [Next]_vars => I'
  BY LedgerStep, RecordStep, OneRowStep, WelcomeStep, OrphanStep
<1>3. I => NoOrphan
  BY DEF OrphanInv, NoOrphan, Forgettable, Announced, FaultFree
<1> HIDE DEF I
<1> QED BY TypeCorrect, <1>1, <1>2, <1>3, PTL DEF Spec

-----------------------------------------------------------------------------
(* Buttons: the controls of a closed task are newer than any request to delete   *)
(* controls that an earlier reopening of it has left behind.                     *)

Calm == None("db") /\ None("rest") /\ None("crash")

\* A message that somebody means to delete, once the callback has seen its answer.
Doomed(c, n) ==
    \/ \E i \in DOMAIN channelQ[c] : n \in channelQ[c][i].ids
    \/ \E i \in DOMAIN outQ :
          /\ outQ[i].op = "messages_get" /\ outQ[i].channel = c
          /\ n \in outQ[i].ids

\* Doomed(c, n) in the next state, for an n that may itself speak of the next state.
DoomedNext(c, n) ==
    \/ \E i \in DOMAIN channelQ'[c] : n \in channelQ'[c][i].ids
    \/ \E i \in DOMAIN outQ' :
          /\ outQ'[i].op = "messages_get" /\ outQ'[i].channel = c
          /\ n \in outQ'[i].ids

\* Messages are numbered as they are posted, so nobody can mean one that is to come.
PostedInv ==
    \A c \in Channels : \A n \in Nat : n \in panels[c] \/ Doomed(c, n) => n <= posted[c]

\* No request for the messages will be answered after the last controls are posted.
LastPanel(s) ==
    \E i \in DOMAIN s :
        /\ s[i].op = "panel"
        /\ \A j \in DOMAIN s : j > i => s[j].op # "messages_get"

Spared(c) ==
    /\ posted[c] \in panels[c] /\ ~Doomed(c, posted[c])
    /\ ~Queued(c, "messages_get")

HasControls(c) == LastPanel(channelQ[c]) \/ Spared(c)

ControlsInv ==
    Calm => \A c \in channels :
        /\ find_archived_task(c) =>
              HasControls(c) \/ shard \in {At("delete_task", c), At("send_panel", c)}
        /\ shard = At("get_messages", c) => ~find_archived_task(c)

WelcomedInv == Calm => \A c \in channels : Recorded(c) => Welcoming(c)

LEMMA CalmBefore ==
    ASSUME TypeOK, [Next]_vars, Calm'
    PROVE  /\ Calm /\ ~Spend("db") /\ ~Spend("rest") /\ ~Crash /\ ~HandlerFails
           /\ \A c \in channels : ~FailChannelRequest(c)
<1>1. "db" \in Kinds /\ "rest" \in Kinds /\ "crash" \in Kinds
  BY DEF Kinds
<1>2. Calm /\ ~Spend("db") /\ ~Spend("rest") /\ ~Crash
  BY <1>1, FailuresCount DEF Calm, Crash
<1> QED BY <1>2 DEF HandlerFails, CallFails, FailChannelRequest

LEMMA ButtonsInit == Init => PostedInv /\ ControlsInv /\ WelcomedInv
<1> SUFFICES ASSUME Init
             PROVE  PostedInv /\ ControlsInv /\ WelcomedInv
  OBVIOUS
<1>1. /\ channels = {} /\ outQ = <<>>
      /\ \A c \in Channels : panels[c] = {} /\ channelQ[c] = <<>>
  BY DEF Init, GuildInit
<1>2. DOMAIN <<>> = {}
  OBVIOUS
<1> QED BY <1>1, <1>2 DEF PostedInv, ControlsInv, WelcomedInv, Doomed

LEMMA LastPanelAppend ==
    ASSUME NEW s \in Seq(Request), NEW r \in Request,
           r.op = "panel" \/ (LastPanel(s) /\ r.op # "messages_get")
    PROVE  LastPanel(Append(s, r))
<1>1. /\ Append(s, r) \in Seq(Request) /\ Len(s) \in Nat
      /\ Len(Append(s, r)) = Len(s) + 1 /\ DOMAIN s = 1 .. Len(s)
      /\ Append(s, r)[Len(s) + 1] = r
      /\ \A i \in 1 .. Len(s) : Append(s, r)[i] = s[i]
  BY AppendProperties, LenProperties
<1>2. DOMAIN Append(s, r) = 1 .. (Len(s) + 1)
  BY <1>1, LenProperties
<1>3. CASE r.op = "panel"
  <2>1. Len(s) + 1 \in DOMAIN Append(s, r)
    BY <1>1, <1>2
  <2> QED BY <2>1, <1>1, <1>2, <1>3 DEF LastPanel
<1>4. CASE LastPanel(s) /\ r.op # "messages_get"
  <2>1. PICK i \in DOMAIN s :
           s[i].op = "panel" /\ \A j \in DOMAIN s : j > i => s[j].op # "messages_get"
    BY <1>4 DEF LastPanel
  <2>2. i \in DOMAIN Append(s, r) /\ Append(s, r)[i].op = "panel"
    BY <2>1, <1>1, <1>2
  <2>3. ASSUME NEW j \in DOMAIN Append(s, r), j > i
        PROVE  Append(s, r)[j].op # "messages_get"
    <3>1. CASE j \in DOMAIN s
      BY <3>1, <2>1, <2>3, <1>1
    <3>2. CASE j = Len(s) + 1
      BY <3>2, <1>1, <1>4
    <3> QED BY <3>1, <3>2, <1>1, <1>2
  <2> QED BY <2>2, <2>3 DEF LastPanel
<1> QED BY <1>3, <1>4

LEMMA LastPanelTail ==
    ASSUME NEW s \in Seq(Request), s # <<>>, LastPanel(s)
    PROVE  \/ LastPanel(Tail(s))
           \/ /\ Head(s).op = "panel"
              /\ \A j \in DOMAIN Tail(s) : Tail(s)[j].op # "messages_get"
<1>1. /\ Len(s) \in Nat \ {0} /\ DOMAIN s = 1 .. Len(s) /\ Head(s) = s[1]
      /\ Tail(s) \in Seq(Request) /\ Len(Tail(s)) = Len(s) - 1
      /\ \A j \in 1 .. Len(Tail(s)) : Tail(s)[j] = s[j + 1]
  BY HeadTailProperties, EmptySeq, LenProperties
<1>2. DOMAIN Tail(s) = 1 .. (Len(s) - 1)
  BY <1>1, LenProperties
<1>3. PICK i \in DOMAIN s :
         s[i].op = "panel" /\ \A j \in DOMAIN s : j > i => s[j].op # "messages_get"
  BY DEF LastPanel
<1>4. \A j \in DOMAIN Tail(s) :
         j \in Nat /\ j + 1 \in DOMAIN s /\ Tail(s)[j] = s[j + 1]
  BY <1>1, <1>2
<1>5. CASE i = 1
  <2>1. \A j \in DOMAIN Tail(s) : j + 1 > i
    BY <1>2, <1>5
  <2> QED BY <2>1, <1>1, <1>3, <1>4, <1>5
<1>6. CASE i # 1
  <2>1. i - 1 \in DOMAIN Tail(s) /\ Tail(s)[i - 1] = s[i]
    BY <1>1, <1>2, <1>6
  <2>2. ASSUME NEW j \in DOMAIN Tail(s), j > i - 1
        PROVE  Tail(s)[j].op # "messages_get"
    <3>1. j + 1 > i
      BY <1>1, <1>4, <2>2
    <3> QED BY <3>1, <1>3, <1>4
  <2> QED BY <2>1, <2>2, <1>3 DEF LastPanel
<1> QED BY <1>5, <1>6

\* What the messages_get completions name is what was in the channel.
LEMMA AnswerMoves ==
    ASSUME TypeOK, [Next]_vars, NEW i \in DOMAIN outQ', outQ'[i].op = "messages_get"
    PROVE  \/ \E j \in DOMAIN outQ : outQ[j] = outQ'[i]
           \/ /\ RunMessagesGet(outQ'[i].channel) /\ outQ'[i].channel \in Channels
              /\ outQ'[i].ids \subseteq panels[outQ'[i].channel]
<1> DEFINE Old == \E j \in DOMAIN outQ : outQ[j] = outQ'[i]
<1>0. outQ \in Seq(Completion)
  BY TypeOK DEF TypeOK, GuildTypeOK
<1>1. CASE outQ' = outQ
  BY <1>1
<1>2. ASSUME NEW r \in Completion, Complete(r)
      PROVE  Old \/ outQ'[i] = r
  BY <1>0, <1>2, AppendElements DEF Complete
<1>3. CASE Crash
  <2>1. outQ' = <<>> /\ DOMAIN <<>> = {}
    BY <1>3 DEF Crash
  <2> QED BY <2>1
<1>4. CASE OnCreated \/ OnFollowup \/ OnMessages
  <2>1. outQ # <<>> /\ outQ' = Tail(outQ)
    BY <1>4 DEF OnCreated, OnFollowup, OnMessages, CallBack
  <2> QED BY <2>1, <1>0, TailElements
<1>5. CASE ShardThread \/ CreatedSendsWelcome \/ SleepEnds \/ UNCHANGED vars
  BY <1>1, <1>5
     DEF ShardThread, Refuse, CreateTask, CloseTask, CloseArchives, CloseDeletes,
         CloseSendsPanel, OpenTask, OpenAdds, OpenDeletesArchived, OpenGetsMessages,
         DeleteTask, OnChannelCreate, OnChannelDelete, OnDeleteFindsArchived,
         OnDeleteForgetsTask, OnDeleteForgetsArchived, HandlerFails,
         CreatedSendsWelcome, SleepEnds, vars
<1>6. CASE People
  BY <1>1, <1>6 DEF People, ClickCreate, ClickButton, ModeratorDeletes
<1>7. CASE RestThreads
  <2>1. ASSUME NEW c \in Channels, RunMessagesGet(c)
        PROVE  Old \/ (RunMessagesGet(outQ'[i].channel) /\ outQ'[i].channel \in Channels
                       /\ outQ'[i].ids \subseteq panels[outQ'[i].channel])
    <3>1. PICK found \in SUBSET panels[c] :
             Complete([op |-> "messages_get", channel |-> c, ids |-> found])
      BY <2>1 DEF RunMessagesGet
    <3>2. [op |-> "messages_get", channel |-> c, ids |-> found] \in Completion
      BY TypeOK DEF Completion, TypeOK, GuildTypeOK
    <3> QED BY <2>1, <3>1, <3>2, <1>2
  <2>2. CASE RunFollowup
    <3>1. Head(webhookQ) \in Followup
      BY <2>2, TypeOK, TailElements DEF RunFollowup, TypeOK, GuildTypeOK
    <3>2. [op |-> "followup", channel |-> Head(webhookQ).channel] \in Completion
      BY <3>1 DEF Completion, Followup
    <3> QED BY <2>2, <3>2, <1>2 DEF RunFollowup
  <2>3. ASSUME NEW c \in Channels, RunChannelCreate(c)
        PROVE  Old
    <3>1. Head(guildQ) \in Users
      BY <2>3, TypeOK, TailElements DEF RunChannelCreate, CreateChannel, TypeOK, GuildTypeOK
    <3>2. [op |-> "channel_create", channel |-> c, user |-> Head(guildQ)] \in Completion
      BY <3>1 DEF Completion
    <3> QED BY <2>3, <3>2, <1>2 DEF RunChannelCreate, CreateChannel
  <2>4. ASSUME NEW c \in Channels, ChannelThread(c), ~RunMessagesGet(c)
        PROVE  Old
    BY <2>4, <1>1
       DEF ChannelThread, RunWelcome, RunPanel, RunMessageDelete, RunChannelDelete,
           FailChannelRequest
  <2>5. CASE \/ FailChannelCreate \/ FailFollowup
             \/ \E k \in DOMAIN webhookQ : RunReply(k)
             \/ \E c \in Channels : LoseChannelCreated(c)
    BY <2>5, <1>1 DEF FailChannelCreate, FailFollowup, RunReply, LoseChannelCreated
  <2> QED BY <2>1, <2>2, <2>3, <2>4, <2>5, <1>7 DEF RestThreads
<1> QED
  BY <1>3, <1>4, <1>5, <1>6, <1>7, [Next]_vars DEF Next, CallbackThread, Environment

LEMMA DoomedMoves ==
    ASSUME TypeOK, [Next]_vars, NEW c \in Channels, NEW n, DoomedNext(c, n)
    PROVE  Doomed(c, n) \/ (RunMessagesGet(c) /\ n \in panels[c])
<1>0. channelQ[c] \in Seq(Request) /\ outQ \in Seq(Completion)
  BY TypeOK DEF TypeOK, GuildTypeOK
<1>1. ASSUME NEW i \in DOMAIN channelQ'[c], n \in channelQ'[c][i].ids
      PROVE  Doomed(c, n)
  <2>1. CASE channelQ'[c] = channelQ[c]
    BY <2>1, <1>1 DEF Doomed
  <2>2. CASE channelQ'[c] = <<>>
    BY <2>2, <1>1
  <2>3. CASE channelQ[c] # <<>> /\ channelQ'[c] = Tail(channelQ[c])
    <3>1. i + 1 \in DOMAIN channelQ[c] /\ channelQ'[c][i] = channelQ[c][i + 1]
      BY <2>3, <1>0, <1>1, TailElements
    <3> QED BY <3>1, <1>1 DEF Doomed
  <2>4. ASSUME NEW r \in Request, channelQ'[c] = Append(channelQ[c], r),
               \/ r.ids = {}
               \/ r.ids = Head(outQ).ids /\ OnMessages /\ Head(outQ).channel = c
        PROVE  Doomed(c, n)
    <3>1. \/ i \in DOMAIN channelQ[c] /\ channelQ'[c][i] = channelQ[c][i]
          \/ channelQ'[c][i] = r
      BY <2>4, <1>0, <1>1, AppendElements
    <3>2. CASE OnMessages /\ Head(outQ).channel = c /\ n \in Head(outQ).ids
      <4>1. outQ # <<>> /\ Head(outQ).op = "messages_get"
        BY <3>2 DEF OnMessages, CallBack
      <4>2. 1 \in DOMAIN outQ /\ Head(outQ) = outQ[1]
        BY <4>1, <1>0, TailElements
      <4> QED BY <4>1, <4>2, <3>2 DEF Doomed
    <3> QED BY <3>1, <3>2, <2>4, <1>1 DEF Doomed
  <2> QED BY <2>1, <2>2, <2>3, <2>4, RequestMoves DEF Asked
<1>2. ASSUME NEW i \in DOMAIN outQ', outQ'[i].op = "messages_get",
             outQ'[i].channel = c, n \in outQ'[i].ids
      PROVE  Doomed(c, n) \/ (RunMessagesGet(c) /\ n \in panels[c])
  BY <1>2, AnswerMoves DEF Doomed
<1> QED BY <1>1, <1>2 DEF DoomedNext

LEMMA PanelMoves ==
    ASSUME TypeOK, [Next]_vars, NEW c \in Channels
    PROVE  \/ /\ RunPanel(c) /\ posted'[c] = posted[c] + 1
              /\ panels'[c] = panels[c] \cup {posted[c] + 1}
           \/ /\ RunMessageDelete(c) /\ posted'[c] = posted[c]
              /\ panels'[c] = panels[c] \ Head(channelQ[c]).ids
           \/ /\ ~RunPanel(c)
              /\ posted'[c] = posted[c] /\ panels'[c] = panels[c]
<1>0. posted \in [Channels -> Nat] /\ panels \in [Channels -> SUBSET Nat]
  BY TypeOK DEF TypeOK, GuildTypeOK
<1>1. ASSUME NEW d \in Channels, RunPanel(d)
      PROVE  /\ posted' = [posted EXCEPT ![d] = posted[d] + 1]
             /\ panels' = [panels EXCEPT ![d] = panels[d] \cup {posted[d] + 1}]
  BY <1>1 DEF RunPanel
<1>2. ASSUME NEW d \in Channels, RunMessageDelete(d)
      PROVE  /\ posted' = posted
             /\ panels' = [panels EXCEPT ![d] = panels[d] \ Head(channelQ[d]).ids]
  BY <1>2 DEF RunMessageDelete
<1>3. CASE RunPanel(c)
  BY <1>0, <1>1, <1>3
<1>4. ASSUME NEW d \in Channels \ {c}, RunPanel(d), ~RunPanel(c)
      PROVE  posted'[c] = posted[c] /\ panels'[c] = panels[c]
  BY <1>0, <1>1, <1>4
<1>5. CASE RunMessageDelete(c)
  BY <1>0, <1>2, <1>5
<1>6. ASSUME NEW d \in Channels \ {c}, RunMessageDelete(d)
      PROVE  posted'[c] = posted[c] /\ panels'[c] = panels[c]
  BY <1>0, <1>2, <1>6
<1>7. CASE \A d \in Channels : ~RunPanel(d) /\ ~RunMessageDelete(d)
  <2>1. UNCHANGED <<panels, posted>>
    <3>1. CASE People
      BY <3>1 DEF People, ClickCreate, ClickButton, ModeratorDeletes
    <3>2. CASE RestThreads
      BY <3>2, <1>7
         DEF RestThreads, ChannelThread, RunWelcome, RunMessagesGet,
             RunChannelDelete, FailChannelRequest, RunChannelCreate,
             LoseChannelCreated, CreateChannel, FailChannelCreate, RunFollowup, FailFollowup, RunReply
    <3>3. CASE ShardThread \/ CallbackThread \/ Crash \/ UNCHANGED vars
      BY <3>3
         DEF ShardThread, Refuse, CreateTask, CloseTask, CloseArchives, CloseDeletes,
             CloseSendsPanel, OpenTask, OpenAdds, OpenDeletesArchived, OpenGetsMessages,
             DeleteTask, OnChannelCreate, OnChannelDelete, OnDeleteFindsArchived,
             OnDeleteForgetsTask, OnDeleteForgetsArchived, HandlerFails, CallFails,
             CallbackThread, OnCreated, CreatedSendsWelcome, OnFollowup, SleepEnds,
             OnMessages, Crash, vars
    <3> QED BY <3>1, <3>2, <3>3, [Next]_vars DEF Next, Environment
  <2> QED BY <2>1, <1>7
<1> QED BY <1>3, <1>4, <1>5, <1>6, <1>7

LEMMA PostedStep ==
    ASSUME TypeOK, PostedInv, [Next]_vars
    PROVE  PostedInv'
<1> SUFFICES ASSUME NEW c \in Channels, NEW n \in Nat,
                    n \in panels'[c] \/ DoomedNext(c, n)
             PROVE  n <= posted'[c]
  BY DEF PostedInv, Doomed, DoomedNext
<1>1. posted[c] \in Nat /\ panels[c] \in SUBSET Nat
  BY TypeOK DEF TypeOK, GuildTypeOK
<1>2. posted[c] <= posted'[c]
  BY <1>1, PanelMoves
<1>3. n \in panels[c] \/ Doomed(c, n) \/ n = posted'[c]
  BY PanelMoves, DoomedMoves
<1> QED BY <1>1, <1>2, <1>3, PanelMoves DEF PostedInv

\* The request that the thread of a channel's endpoint takes next.
LEMMA TakenKind ==
    ASSUME NEW c \in Channels
    PROVE  /\ RunWelcome(c) => Head(channelQ[c]).op = "welcome"
           /\ RunPanel(c) => Head(channelQ[c]).op = "panel"
           /\ RunMessagesGet(c) => Head(channelQ[c]).op = "messages_get"
           /\ RunMessageDelete(c) => Head(channelQ[c]).op = "message_delete"
           /\ RunChannelDelete(c) => Head(channelQ[c]).op = "channel_delete"
           /\ (RunWelcome(c) \/ RunPanel(c) \/ RunMessagesGet(c)
                 \/ RunMessageDelete(c) \/ RunChannelDelete(c))
                 => channelQ[c] # <<>>
BY DEF RunWelcome, RunPanel, RunMessagesGet, RunMessageDelete, RunChannelDelete, Take

LEMMA SparedStays ==
    ASSUME TypeOK, PostedInv, [Next]_vars, NEW c \in Channels, Spared(c),
           ~(OpenGetsMessages /\ shard = At("get_messages", c))
    PROVE  Spared(c)'
<1>0. /\ channelQ[c] \in Seq(Request) /\ posted[c] \in Nat
      /\ posted[c] \in panels[c] /\ ~Doomed(c, posted[c]) /\ ~Queued(c, "messages_get")
  BY TypeOK DEF TypeOK, GuildTypeOK, Spared
<1>1. ~Queued(c, "messages_get")'
  <2>1. Queued(c, "messages_get")' => Queued(c, "messages_get")
    BY QueuedBefore
  <2> QED BY <2>1, <1>0
<1>2. ~RunMessagesGet(c)
  <2>1. ASSUME RunMessagesGet(c)
        PROVE  Queued(c, "messages_get")
    <3>1. channelQ[c] # <<>> /\ Head(channelQ[c]).op = "messages_get"
      BY <2>1, <1>0, TakenKind
    <3>2. 1 \in DOMAIN channelQ[c] /\ Head(channelQ[c]) = channelQ[c][1]
      BY <3>1, <1>0, TailElements
    <3> QED BY <3>1, <3>2 DEF Queued
  <2> QED BY <2>1, <1>0
<1>3. ~DoomedNext(c, posted[c])
  BY <1>0, <1>2, DoomedMoves
<1>4. CASE posted'[c] = posted[c] /\ posted[c] \in panels'[c]
  BY <1>1, <1>3, <1>4 DEF Spared, Doomed, DoomedNext
<1>5. CASE RunMessageDelete(c) /\ posted'[c] = posted[c]
           /\ panels'[c] = panels[c] \ Head(channelQ[c]).ids
  <2>1. channelQ[c] # <<>>
    BY <1>5, TakenKind
  <2>2. 1 \in DOMAIN channelQ[c] /\ Head(channelQ[c]) = channelQ[c][1]
    BY <2>1, <1>0, TailElements
  <2>3. posted[c] \notin Head(channelQ[c]).ids
    BY <2>2, <1>0 DEF Doomed
  <2> QED BY <2>3, <1>0, <1>4, <1>5
<1>6. CASE /\ RunPanel(c) /\ posted'[c] = posted[c] + 1
           /\ panels'[c] = panels[c] \cup {posted[c] + 1}
  <2>1. ~DoomedNext(c, posted[c] + 1)
    <3>1. posted[c] + 1 \in Nat /\ ~(posted[c] + 1 <= posted[c])
      BY <1>0
    <3> QED BY <3>1, <1>2, DoomedMoves DEF PostedInv
  <2>2. posted'[c] \in panels'[c] /\ ~DoomedNext(c, posted'[c])
    BY <2>1, <1>6
  <2> QED BY <1>1, <2>2 DEF Spared, Doomed, DoomedNext
<1> QED BY <1>0, <1>4, <1>5, <1>6, PanelMoves

LEMMA ControlsKept ==
    ASSUME TypeOK, PostedInv, [Next]_vars, NEW c \in channels, Calm', HasControls(c),
           ~(OpenGetsMessages /\ shard = At("get_messages", c))
    PROVE  HasControls(c)'
<1>0. c \in Channels /\ channelQ[c] \in Seq(Request) /\ posted[c] \in Nat
  BY TypeOK DEF TypeOK, GuildTypeOK
<1>1. CASE Spared(c)
  BY <1>0, <1>1, SparedStays DEF HasControls
<1>2. CASE LastPanel(channelQ[c])
  <2>1. CASE channelQ'[c] = channelQ[c]
    BY <1>2, <2>1 DEF HasControls
  <2>2. ASSUME NEW r \in Request, channelQ'[c] = Append(channelQ[c], r),
               r.op # "messages_get"
        PROVE  HasControls(c)'
    BY <1>0, <1>2, <2>2, LastPanelAppend DEF HasControls
  <2>3. CASE channelQ[c] # <<>> /\ channelQ'[c] = Tail(channelQ[c]) /\ ChannelThread(c)
    <3>1. CASE LastPanel(Tail(channelQ[c]))
      BY <2>3, <3>1 DEF HasControls
    <3>2. CASE /\ Head(channelQ[c]).op = "panel"
               /\ \A j \in DOMAIN channelQ'[c] : channelQ'[c][j].op # "messages_get"
      <4>1. RunPanel(c) /\ ~RunMessagesGet(c) /\ ~RunMessageDelete(c)
        BY <2>3, <3>2, <1>0, TakenKind, CalmBefore DEF ChannelThread
      <4>2. posted'[c] = posted[c] + 1 /\ posted'[c] \in panels'[c]
        BY <4>1, <1>0, PanelMoves
      <4>3. ~DoomedNext(c, posted[c] + 1)
        <5>1. posted[c] + 1 \in Nat /\ ~(posted[c] + 1 <= posted[c])
          BY <1>0
        <5> QED BY <5>1, <4>1, <1>0, DoomedMoves DEF PostedInv
      <4>4. ~Queued(c, "messages_get")'
        BY <3>2 DEF Queued
      <4> QED BY <4>2, <4>3, <4>4 DEF HasControls, Spared, Doomed, DoomedNext
    <3> QED BY <3>1, <3>2, <2>3, <1>0, <1>2, LastPanelTail
  <2> QED BY <2>1, <2>2, <2>3, <1>0, RequestMoves, CalmBefore DEF Asked
<1> QED BY <1>1, <1>2 DEF HasControls

\* How the shard thread leaves the steps around the controls, and gets to them.
LEMMA ControlSteps ==
    ASSUME [Next]_vars, ~Crash, ~HandlerFails, shard' # shard
    PROVE  /\ shard.step = "delete_task" =>
                 CloseDeletes /\ shard' = At("send_panel", shard.channel)
           /\ shard.step = "send_panel" => CloseSendsPanel
           /\ shard'.step = "get_messages" =>
                 OpenDeletesArchived /\ shard' = At("get_messages", shard.channel)
<1>1. CASE \/ Refuse \/ CreateTask \/ CloseTask \/ OpenTask \/ DeleteTask
           \/ OnChannelCreate \/ OnChannelDelete
  <2>1. shard = Idle
    BY <1>1
       DEF Refuse, CreateTask, CloseTask, OpenTask, DeleteTask, OnChannelCreate,
           OnChannelDelete, Receive
  <2>2. shard'.step # "get_messages"
    <3>1. CASE CloseTask \/ OpenTask \/ OnChannelDelete
      <4>1. \E step \in ShardSteps \ {"get_messages"} :
               shard' = At(step, Head(gateway).channel)
        BY <3>1 DEF CloseTask, OpenTask, OnChannelDelete, ShardSteps
      <4> QED BY <4>1 DEF At
    <3>2. CASE Refuse \/ CreateTask \/ DeleteTask \/ OnChannelCreate
      BY <3>2 DEF Refuse, CreateTask, DeleteTask, OnChannelCreate
    <3> QED BY <3>1, <3>2, <1>1
  <2> QED BY <2>1, <2>2 DEF Idle
<1>2. CASE \/ CloseArchives \/ CloseDeletes \/ CloseSendsPanel
           \/ OpenAdds \/ OpenDeletesArchived \/ OpenGetsMessages
           \/ OnDeleteForgetsTask \/ OnDeleteForgetsArchived \/ OnDeleteFindsArchived
  BY <1>2
     DEF CloseArchives, CloseDeletes, CloseSendsPanel, OpenAdds, OpenDeletesArchived,
         OpenGetsMessages, OnDeleteForgetsTask, OnDeleteForgetsArchived,
         OnDeleteFindsArchived, At, Idle
<1>3. CASE CallbackThread \/ Environment \/ UNCHANGED vars
  BY <1>3
     DEF CallbackThread, OnCreated, CreatedSendsWelcome, OnFollowup, SleepEnds,
         OnMessages, Environment, vars
<1> QED BY <1>1, <1>2, <1>3, [Next]_vars DEF Next, ShardThread

\* A channel that has just been created has no row.
LEMMA NewIsBlank ==
    ASSUME TypeOK, LedgerInv, [Next]_vars, NEW c \in channels' \ channels
    PROVE  ~Recorded(c)'
<1>1. c \in Channels /\ opener[c] = NoUser
  BY ChannelMoves, TypeStep DEF TypeOK, GuildTypeOK
<1>2. ~Recorded(c)
  BY <1>1 DEF LedgerInv, AskedInv
<1>3. ~RecordedNext(c)
  BY <1>1, <1>2, FirstRow, CreationUser DEF Creation
<1> QED BY <1>3 DEF Recorded, RecordedNext, find_task, find_archived_task

LEMMA ControlsStep ==
    ASSUME TypeOK, LedgerInv, PostedInv, ControlsInv, [Next]_vars
    PROVE  ControlsInv'
<1> SUFFICES ASSUME Calm', NEW c \in channels'
             PROVE  /\ find_archived_task(c)' =>
                          HasControls(c)' \/ shard' \in {At("delete_task", c),
                                                          At("send_panel", c)}
                    /\ shard' = At("get_messages", c) => ~find_archived_task(c)'
  BY DEF ControlsInv
<1>1. CASE c \notin channels
  BY <1>1, NewIsBlank DEF Recorded
<1>2. CASE c \in channels
  <2>1. /\ c \in Channels /\ ~Crash /\ ~HandlerFails
        /\ find_archived_task(c) =>
              HasControls(c) \/ shard \in {At("delete_task", c), At("send_panel", c)}
        /\ shard = At("get_messages", c) => ~find_archived_task(c)
    BY <1>2, CalmBefore, TypeOK DEF ControlsInv, TypeOK, GuildTypeOK
  <2>2. ASSUME ~find_archived_task(c), find_archived_task(c)'
        PROVE  shard' = At("delete_task", c)
    BY <2>1, <2>2, ArchiveRowMoves DEF find_archived_task, CloseArchives
  <2>3. ASSUME find_archived_task(c), HasControls(c)
        PROVE  HasControls(c)'
    BY <1>2, <2>1, <2>3, ControlsKept
  <2>4. ASSUME find_archived_task(c), shard = At("delete_task", c)
        PROVE  shard' \in {At("delete_task", c), At("send_panel", c)}
    BY <2>1, <2>4, ControlSteps DEF At
  <2>5. ASSUME find_archived_task(c), shard = At("send_panel", c), shard' # shard
        PROVE  HasControls(c)'
    <3>1. CloseSendsPanel
      BY <2>1, <2>5, ControlSteps DEF At
    <3>2. channelQ[c] \in Seq(Request) /\ Asked("panel", {}) \in Request
      BY <2>1, TypeOK DEF TypeOK, GuildTypeOK, Asked, Request
    <3>3. channelQ'[c] = Append(channelQ[c], Asked("panel", {}))
      BY <2>1, <2>5, <3>1, TypeOK
         DEF CloseSendsPanel, Post, Asked, At, TypeOK, GuildTypeOK
    <3>4. Asked("panel", {}).op = "panel"
      BY DEF Asked
    <3> QED BY <3>2, <3>3, <3>4, LastPanelAppend DEF HasControls
  <2>6. ASSUME shard' = At("get_messages", c)
        PROVE  ~find_archived_task(c)'
    <3>1. CASE shard' = shard
      <4>1. shard' # At("delete_task", c)
        BY <2>6 DEF At
      <4> QED BY <2>1, <2>2, <2>6, <3>1, <4>1
    <3>2. CASE shard' # shard
      <4>1. OpenDeletesArchived /\ shard.channel = c
        BY <2>1, <2>6, <3>2, ControlSteps DEF At
      <4> QED
        BY <4>1, <2>1, TypeOK
           DEF OpenDeletesArchived, delete_archived_task, find_archived_task, TypeOK,
               TablesTypeOK, Table
    <3> QED BY <3>1, <3>2
  <2> QED BY <2>1, <2>2, <2>3, <2>4, <2>5, <2>6
<1> QED BY <1>1, <1>2

\* No message of the bot's is taken away but the controls.
LEMMA WelcomeStays ==
    ASSUME [Next]_vars, NEW c \in welcome
    PROVE  c \in welcome'
<1>1. CASE People
  BY <1>1 DEF People, ClickCreate, ClickButton, ModeratorDeletes
<1>2. CASE RestThreads
  BY <1>2
     DEF RestThreads, ChannelThread, RunWelcome, RunPanel, RunMessagesGet,
         RunMessageDelete, RunChannelDelete, FailChannelRequest, RunChannelCreate,
         LoseChannelCreated, CreateChannel, FailChannelCreate, RunFollowup, FailFollowup, RunReply
<1>3. CASE ShardThread \/ CallbackThread \/ Crash \/ UNCHANGED vars
  BY <1>3
     DEF ShardThread, Refuse, CreateTask, CloseTask, CloseArchives, CloseDeletes,
         CloseSendsPanel, OpenTask, OpenAdds, OpenDeletesArchived, OpenGetsMessages,
         DeleteTask, OnChannelCreate, OnChannelDelete, OnDeleteFindsArchived,
         OnDeleteForgetsTask, OnDeleteForgetsArchived, HandlerFails, CallFails,
         CallbackThread, OnCreated, CreatedSendsWelcome, OnFollowup, SleepEnds,
         OnMessages, Crash, vars
<1> QED BY <1>1, <1>2, <1>3, [Next]_vars DEF Next, Environment

LEMMA WelcomedStep ==
    ASSUME TypeOK, LedgerInv, WelcomedInv, [Next]_vars
    PROVE  WelcomedInv'
<1> SUFFICES ASSUME Calm', NEW c \in channels', Recorded(c)'
             PROVE  Welcoming(c)'
  BY DEF WelcomedInv
<1>0. /\ c \in channels /\ c \in Channels /\ channelQ[c] \in Seq(Request)
      /\ ~Crash /\ ~Spend("db") /\ ~FailChannelRequest(c) /\ Calm
  <2>1. c \in channels
    BY NewIsBlank
  <2> QED BY <2>1, CalmBefore, TypeOK DEF TypeOK, GuildTypeOK
<1>1. CASE ~Recorded(c)
  <2>1. OnCreated /\ Creation(1) /\ outQ[1].channel = c
    <3>1. RecordedNext(c)
      BY DEF Recorded, RecordedNext, find_task, find_archived_task
    <3> QED BY <3>1, <1>0, <1>1, FirstRow
  <2>2. Head(outQ) = outQ[1]
    BY <2>1, TypeOK, TailElements DEF OnCreated, CallBack, TypeOK, GuildTypeOK
  <2> QED BY <2>1, <2>2, <1>0 DEF OnCreated, Welcoming
<1>2. CASE c \in welcome
  <2>1. c \in welcome'
    BY <1>2, WelcomeStays
  <2> QED BY <2>1 DEF Welcoming
<1>3. CASE Queued(c, "welcome")
  <2>1. PICK i \in DOMAIN channelQ[c] : channelQ[c][i].op = "welcome"
    BY <1>3 DEF Queued
  <2>2. CASE channelQ'[c] = channelQ[c]
    BY <1>3, <2>2 DEF Queued, Welcoming
  <2>3. ASSUME NEW r \in Request, channelQ'[c] = Append(channelQ[c], r)
        PROVE  Queued(c, "welcome")'
    <3>1. i \in DOMAIN channelQ'[c] /\ channelQ'[c][i] = channelQ[c][i]
      BY <2>3, <1>0, KeptByAppend
    <3> QED BY <3>1, <2>1 DEF Queued
  <2>4. CASE channelQ[c] # <<>> /\ channelQ'[c] = Tail(channelQ[c]) /\ ChannelThread(c)
    <3>1. \/ i = 1 /\ Head(channelQ[c]) = channelQ[c][1]
          \/ i - 1 \in DOMAIN channelQ'[c] /\ channelQ'[c][i - 1] = channelQ[c][i]
      BY <2>4, <1>0, KeptByTail
    <3>2. CASE Head(channelQ[c]).op = "welcome"
      <4>1. RunWelcome(c)
        BY <2>4, <3>2, <1>0, TakenKind DEF ChannelThread
      <4> QED BY <4>1 DEF RunWelcome, Welcoming
    <3>3. CASE i - 1 \in DOMAIN channelQ'[c] /\ channelQ'[c][i - 1] = channelQ[c][i]
      BY <2>1, <3>3 DEF Queued, Welcoming
    <3> QED BY <3>1, <3>2, <3>3, <2>1
  <2> QED BY <2>2, <2>3, <2>4, <1>0, RequestMoves DEF Welcoming
<1>4. CASE out = At("send_welcome", c)
  <2>1. CASE CreatedSendsWelcome
    <3>1. /\ channelQ'[c] = Append(channelQ[c], Asked("welcome", {}))
          /\ Asked("welcome", {}) \in Request
      BY <1>4, <2>1, <1>0, TypeOK
         DEF CreatedSendsWelcome, Post, At, Asked, Request, TypeOK, GuildTypeOK
    <3>2. /\ Len(channelQ[c]) + 1 \in DOMAIN channelQ'[c]
          /\ channelQ'[c][Len(channelQ[c]) + 1] = Asked("welcome", {})
      <4>1. /\ channelQ'[c] \in Seq(Request) /\ Len(channelQ[c]) \in Nat
            /\ Len(channelQ'[c]) = Len(channelQ[c]) + 1
            /\ channelQ'[c][Len(channelQ[c]) + 1] = Asked("welcome", {})
        BY <3>1, <1>0, AppendProperties, LenProperties
      <4> QED BY <4>1, LenProperties
    <3> QED BY <3>2 DEF Queued, Welcoming, Asked
  <2>2. CASE out' = out
    BY <1>4, <2>2 DEF Welcoming
  <2>3. ~OnCreated /\ ~OnFollowup /\ ~SleepEnds
    BY <1>4 DEF OnCreated, OnFollowup, SleepEnds, CallBack, At, Idle
  <2>4. CASE ShardThread \/ OnMessages \/ Environment \/ UNCHANGED vars
    BY <2>2, <2>4
       DEF ShardThread, Refuse, CreateTask, CloseTask, CloseArchives, CloseDeletes,
           CloseSendsPanel, OpenTask, OpenAdds, OpenDeletesArchived, OpenGetsMessages,
           DeleteTask, OnChannelCreate, OnChannelDelete, OnDeleteFindsArchived,
           OnDeleteForgetsTask, OnDeleteForgetsArchived, HandlerFails, CallFails,
           OnMessages, Environment, vars
  <2> QED BY <2>1, <2>3, <2>4, <1>0, [Next]_vars DEF Next, CallbackThread
<1> QED BY <1>0, <1>1, <1>2, <1>3, <1>4 DEF WelcomedInv, Welcoming

\* However closings and reopenings of a task overlap, and whoever clicks: an open task
\* has its Close button, a closed one its controls, or they are on their way.
THEOREM NoneStranded == Spec => []NotStranded
<1> DEFINE I == LedgerInv /\ PostedInv /\ ControlsInv /\ WelcomedInv
<1>1. Init => I
  BY LedgerInit, ButtonsInit
<1>2. TypeOK /\ I /\ [Next]_vars => I'
  BY LedgerStep, PostedStep, ControlsStep, WelcomedStep
<1>3. TypeOK /\ I => NotStranded
  <2> SUFFICES ASSUME TypeOK, I, Calm, NEW c \in channels
               PROVE  /\ Recorded(c) => c \in welcome \/ Queued(c, "welcome")
                                          \/ out = At("send_welcome", c)
                      /\ find_archived_task(c) /\ shard.channel # c =>
                            panels[c] # {} \/ Queued(c, "panel")
    BY DEF NotStranded, Calm
  <2>1. Recorded(c) => Welcoming(c)
    BY DEF WelcomedInv
  <2>2. HasControls(c) => panels[c] # {} \/ Queued(c, "panel")
    BY DEF HasControls, LastPanel, Spared, Queued
  <2> QED BY <2>1, <2>2 DEF ControlsInv, Welcoming, At
<1> HIDE DEF I
<1> QED BY TypeCorrect, <1>1, <1>2, <1>3, PTL DEF Spec

-----------------------------------------------------------------------------
(* An announced deletion.                                                     *)

\* The callback thread sleeps until it asks for the deletion.
LEMMA SleepMoves ==
    ASSUME TypeOK, [Next]_vars, NEW c \in Channels, out = At("sleep", c), ~Crash
    PROVE  out' = out \/ SleepEnds
<1>1. out.step = "sleep" /\ out # Idle
  BY DEF At, Idle
<1>2. CASE ShardThread \/ UNCHANGED vars
  BY <1>2
     DEF ShardThread, Refuse, CreateTask, CloseTask, CloseArchives, CloseDeletes,
         CloseSendsPanel, OpenTask, OpenAdds, OpenDeletesArchived, OpenGetsMessages,
         DeleteTask, OnChannelCreate, OnChannelDelete, OnDeleteFindsArchived,
         OnDeleteForgetsTask, OnDeleteForgetsArchived, HandlerFails, vars
<1>3. CASE CallbackThread
  BY <1>1, <1>3
     DEF CallbackThread, OnCreated, CreatedSendsWelcome, OnFollowup, OnMessages, CallBack
<1> QED BY <1>2, <1>3, [Next]_vars DEF Next, Environment

\* The callback thread takes completions from the front, and all others keep waiting.
LEMMA CompletionStays ==
    ASSUME TypeOK, [Next]_vars, ~Crash, NEW i \in DOMAIN outQ
    PROVE  \/ \E j \in DOMAIN outQ' : outQ'[j] = outQ[i]
           \/ OnFollowup /\ Head(outQ) = outQ[i]
           \/ outQ[i].op # "followup"
<1>0. outQ \in Seq(Completion)
  BY DEF TypeOK, GuildTypeOK
<1>1. CASE OnCreated \/ OnFollowup \/ OnMessages
  <2>1. /\ outQ # <<>> /\ outQ' = Tail(outQ)
        /\ OnFollowup \/ Head(outQ).op # "followup"
    BY <1>1 DEF OnCreated, OnFollowup, OnMessages, CallBack
  <2> QED BY <1>0, <2>1, KeptByTail
<1>2. ASSUME NEW r \in Completion, Complete(r)
      PROVE  \E j \in DOMAIN outQ' : outQ'[j] = outQ[i]
  BY <1>0, <1>2, KeptByAppend DEF Complete
<1>3. ASSUME NEW c \in Channels, RunChannelCreate(c)
      PROVE  \E r \in Completion : Complete(r)
  <2>1. Head(guildQ) \in Users
    BY <1>3, TailElements DEF RunChannelCreate, CreateChannel, TypeOK, GuildTypeOK
  <2>2. [op |-> "channel_create", channel |-> c, user |-> Head(guildQ)] \in Completion
    BY <2>1 DEF Completion
  <2> QED BY <1>3, <2>2 DEF RunChannelCreate, CreateChannel
<1> QED BY <1>1, <1>2, <1>3, OutMoves

\* The request leaves the queue only when it is carried out or fails.
LEMMA DeleteRequestStays ==
    ASSUME TypeOK, [Next]_vars, ~Crash, ~Spend("rest"), NEW c \in Channels, c \in channels',
           Queued(c, "channel_delete")
    PROVE  Queued(c, "channel_delete")'
<1>0. channelQ[c] \in Seq(Request)
  BY DEF TypeOK, GuildTypeOK
<1>1. PICK i \in DOMAIN channelQ[c] : channelQ[c][i].op = "channel_delete"
  BY DEF Queued
<1>2. CASE channelQ'[c] = channelQ[c]
  BY <1>1, <1>2 DEF Queued
<1>3. ASSUME NEW r \in Request, channelQ'[c] = Append(channelQ[c], r)
      PROVE  Queued(c, "channel_delete")'
  BY <1>0, <1>1, <1>3, KeptByAppend DEF Queued
<1>4. CASE /\ channelQ[c] # <<>> /\ channelQ'[c] = Tail(channelQ[c])
           /\ ChannelThread(c)
  <2>1. Head(channelQ[c]).op # "channel_delete"
    BY <1>4
       DEF ChannelThread, RunWelcome, RunPanel, RunMessagesGet, RunMessageDelete,
           RunChannelDelete, FailChannelRequest, Take
  <2>2. i - 1 \in DOMAIN channelQ'[c] /\ channelQ'[c][i - 1] = channelQ[c][i]
    BY <1>0, <1>1, <1>4, <2>1, KeptByTail
  <2> QED BY <1>1, <2>2 DEF Queued
<1> QED BY <1>2, <1>3, <1>4, RequestMoves

LEMMA DeletionKept ==
    ASSUME TypeOK, [Next]_vars, NEW c \in channels', Deleting(c),
           None("rest")', None("crash")'
    PROVE  Deleting(c)'
<1>0. c \in Channels /\ channelQ \in [Channels -> Seq(Request)]
  BY TypeStep DEF TypeOK, GuildTypeOK
<1>1. ~Crash /\ ~Spend("rest")
  BY FailuresCount DEF Crash, Kinds
<1>2. ASSUME NEW i \in DOMAIN outQ, outQ[i].op = "followup", outQ[i].channel = c
      PROVE  Deleting(c)'
  BY <1>1, <1>2, CompletionStays DEF Deleting, OnFollowup, At
<1>3. CASE out = At("sleep", c)
  <2>1. CASE out' = out
    BY <1>3, <2>1 DEF Deleting, At
  <2>2. CASE SleepEnds
    <3> DEFINE r == [op |-> "channel_delete", ids |-> {}]
    <3>1. channelQ'[c] = Append(channelQ[c], r) /\ channelQ[c] \in Seq(Request)
      BY <1>0, <1>3, <2>2 DEF SleepEnds, Post, At
    <3>2. r \in Request
      BY DEF Request
    <3>3. /\ Len(channelQ[c]) + 1 \in DOMAIN channelQ'[c]
          /\ channelQ'[c][Len(channelQ[c]) + 1] = r
      BY <3>1, <3>2, AppendProperties, LenProperties
    <3>4. Queued(c, "channel_delete")'
      BY <3>3 DEF Queued
    <3> QED BY <3>4 DEF Deleting
  <2> QED BY <1>0, <1>1, <1>3, <2>1, <2>2, SleepMoves
<1>4. CASE Queued(c, "channel_delete")
  BY <1>0, <1>1, <1>4, DeleteRequestStays DEF Deleting
<1> QED BY <1>2, <1>3, <1>4 DEF Deleting

\* Once delete_task's followup got through, the deletion it announced is neither lost in
\* the queues nor held back by anything that happens to the task: it stands until the
\* channel is gone, unless a request fails or the process dies.
THEOREM DeletionsStand == Spec => DeletionStands
<1>1. TypeOK /\ [Next]_vars
         => [\A c \in channels' :
                Deleting(c) /\ None("rest")' /\ None("crash")' => Deleting(c)']_vars
  BY DeletionKept
<1> QED BY TypeCorrect, <1>1, PTL DEF Spec, DeletionStands

=============================================================================
