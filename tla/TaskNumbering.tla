---------------------------- MODULE TaskNumbering ---------------------------
(***************************************************************************)
(* The configuration of one guild and the numbers its task channels get:   *)
(* database_manager's table configs, /setconfig, and the part of           *)
(* create_task that names the channel "task-<count_tasks>" and counts it   *)
(* once it exists.                                                         *)
(*                                                                         *)
(* /setconfig and the click run on the shard thread, the completion of     *)
(* channel_create and with it update_count_tasks on the callback thread.   *)
(* Every SQL statement is its own transaction, so the two threads          *)
(* interleave between the statements of add_config and between the SELECT  *)
(* and the UPDATE of update_count_tasks.                                   *)
(***************************************************************************)
EXTENDS Budget, Sequences

CONSTANTS
    Configs,    \* the categories, log channel and roles /setconfig is given
    NoConfig

ASSUME NoConfigAssumption == NoConfig \notin Configs

VARIABLES
    configs,    \* the guild's rows of configs, in the order of their id
    lastId,     \* AUTOINCREMENT: the id of the last row ever inserted
    shard,      \* /setconfig on the shard thread: its next step and argument
    guildQ,     \* channel_create requests: the row the click captured
    created,    \* the task channels ever created: their number and that row's id
    outQ,       \* how many completions of channel_create wait for their callback
    out         \* the callback in progress: its next step and what SELECT led to

vars == <<spent, configs, lastId, shard, guildQ, created, outQ, out>>

ConfigRow == [id : Nat, config : Configs, count_tasks : Nat]

Name == [id : Nat, number : Nat]

Idle == [step |-> "idle", config |-> NoConfig]

OutIdle == [step |-> "idle", count_tasks |-> 0]

TypeOK ==
    /\ BudgetTypeOK
    /\ configs \in Seq(ConfigRow)
    /\ lastId \in Nat
    /\ shard \in [step : {"idle", "delete_config", "insert", "registered"},
                  config : Configs \cup {NoConfig}]
    /\ shard.step # "idle" => shard.config \in Configs
    /\ guildQ \in Seq(Name)
    /\ created \in Seq(Name)
    /\ outQ \in Nat
    /\ out \in [step : {"idle", "select", "update"}, count_tasks : Nat]

Init ==
    /\ BudgetInit
    /\ configs = <<>>
    /\ lastId = 0
    /\ shard = Idle
    /\ guildQ = <<>>
    /\ created = <<>>
    /\ outQ = 0
    /\ out = OutIdle

-----------------------------------------------------------------------------
(* The table. *)

find_config == configs # <<>>

\* The row a SELECT returns first, hence the only one that is ever used.
get_config == Head(configs)

insert_config(k) ==
    /\ lastId' = lastId + 1
    /\ configs' = Append(configs, [id |-> lastId + 1, config |-> k, count_tasks |-> 0])

update_count(n) ==
    configs' = [i \in DOMAIN configs |-> [configs[i] EXCEPT !.count_tasks = n]]

-----------------------------------------------------------------------------
(* Wrong variants of some of the steps below, which no specification uses: each *)
(* is what a plausible mistake in the code would do.  TLC finds a property      *)
(* violated when the variant takes the place of the step.                       *)

\* add_config inserts without looking for the row that is there.
SetConfigOnTop(k) ==
    /\ shard = Idle
    /\ Spend("admin")
    /\ shard' = [step |-> "insert", config |-> k]
    /\ UNCHANGED <<configs, lastId, guildQ, created, outQ, out>>

\* create_task names the channel after the task that is to come.
CreateTaskCountsItself ==
    /\ shard = Idle
    /\ find_config
    /\ Spend("click")
    /\ guildQ' = Append(guildQ, [id |-> get_config.id,
                                 number |-> get_config.count_tasks + 1])
    /\ UNCHANGED <<configs, lastId, shard, created, outQ, out>>

\* The callback does not look at is_error().
FailedCreateCompletes ==
    /\ guildQ # <<>>
    /\ guildQ' = Tail(guildQ)
    /\ Spend("rest")
    /\ outQ' = outQ + 1
    /\ UNCHANGED <<configs, lastId, shard, created, out>>

\* update_count_tasks without, or with the opposite of, its count_tasks++.
SelectWithoutIncrement ==
    /\ out.step = "select"
    /\ out' = [step |-> "update",
               count_tasks |-> IF find_config THEN get_config.count_tasks ELSE 0]
    /\ UNCHANGED <<spent, configs, lastId, shard, guildQ, created, outQ>>

SelectDecrements ==
    /\ out.step = "select"
    /\ out' = [step |-> "update",
               count_tasks |-> IF find_config THEN get_config.count_tasks - 1 ELSE 0]
    /\ UNCHANGED <<spent, configs, lastId, shard, guildQ, created, outQ>>

\* update_count_tasks writes a number that is one too small.
UpdateDecrements ==
    /\ out.step = "update"
    /\ update_count(out.count_tasks - 1)
    /\ out' = OutIdle
    /\ UNCHANGED <<spent, lastId, shard, guildQ, created, outQ>>

-----------------------------------------------------------------------------
(* The shard thread: /setconfig, which is add_config and the answer.  A failing *)
(* call of find_config reads as "there is none".                                *)

SetConfig(k) ==
    /\ shard = Idle
    /\ spent["admin"] < Limit["admin"]
    /\ \E found \in BOOLEAN :
          /\ \/ /\ found = find_config
                /\ spent' = [spent EXCEPT !["admin"] = @ + 1]
             \/ /\ find_config /\ ~found
                /\ spent["db"] < Limit["db"]
                /\ spent' = [spent EXCEPT !["admin"] = @ + 1, !["db"] = @ + 1]
          /\ shard' = [step |-> IF found THEN "delete_config" ELSE "insert",
                       config |-> k]
    /\ UNCHANGED <<configs, lastId, guildQ, created, outQ, out>>

DeleteConfig ==
    /\ shard.step = "delete_config"
    /\ configs' = <<>>
    /\ shard' = [shard EXCEPT !.step = "insert"]
    /\ UNCHANGED <<spent, lastId, guildQ, created, outQ, out>>

InsertConfig ==
    /\ shard.step = "insert"
    /\ insert_config(shard.config)
    /\ shard' = [shard EXCEPT !.step = "registered"]
    /\ UNCHANGED <<spent, guildQ, created, outQ, out>>

\* When the database cannot be opened for the INSERT, add_config returns 1.
InsertCannotOpen ==
    /\ shard.step = "insert"
    /\ Spend("db")
    /\ shard' = [shard EXCEPT !.step = "registered"]
    /\ UNCHANGED <<configs, lastId, guildQ, created, outQ, out>>

\* add_config returns false, which the answer reports.
SetConfigFails ==
    /\ shard.step \in {"delete_config", "insert"}
    /\ Spend("db")
    /\ shard' = Idle
    /\ UNCHANGED <<configs, lastId, guildQ, created, outQ, out>>

\* The answer "Configuration successfully registered!" and the log.
AnswerRegistered ==
    /\ shard.step = "registered"
    /\ shard' = Idle
    /\ UNCHANGED <<spent, configs, lastId, guildQ, created, outQ, out>>

\* The Create button: the handler captures the row.  When it refuses the click
\* (no row, a failing query, a missing role) nothing happens.
CreateTask ==
    /\ shard = Idle
    /\ find_config
    /\ Spend("click")
    /\ guildQ' = Append(guildQ, [id |-> get_config.id,
                                 number |-> get_config.count_tasks])
    /\ UNCHANGED <<configs, lastId, shard, created, outQ, out>>

-----------------------------------------------------------------------------
(* The REST thread of the guild's endpoint (external). *)

RunChannelCreate ==
    /\ guildQ # <<>>
    /\ guildQ' = Tail(guildQ)
    /\ created' = Append(created, Head(guildQ))
    /\ outQ' = outQ + 1
    /\ UNCHANGED <<spent, configs, lastId, shard, out>>

\* Discord creates the channel, and the response is lost: the callback returns on
\* is_error(), and the channel is never counted.
LoseChannelCreated ==
    /\ guildQ # <<>>
    /\ guildQ' = Tail(guildQ)
    /\ created' = Append(created, Head(guildQ))
    /\ Spend("response")
    /\ UNCHANGED <<configs, lastId, shard, outQ, out>>

\* The callback returns on is_error(): it is left out.
FailChannelCreate ==
    /\ guildQ # <<>>
    /\ guildQ' = Tail(guildQ)
    /\ Spend("rest")
    /\ UNCHANGED <<configs, lastId, shard, created, outQ, out>>

-----------------------------------------------------------------------------
(* The callback thread: add_task (see TaskLifecycle), then update_count_tasks. *)

OnCreated ==
    /\ out = OutIdle
    /\ outQ > 0
    /\ outQ' = outQ - 1
    /\ \/ /\ out' = [out EXCEPT !.step = "select"]
          /\ UNCHANGED spent
       \/ Spend("db") /\ UNCHANGED out    \* add_task failed: return
    /\ UNCHANGED <<configs, lastId, shard, guildQ, created>>

\* With no row, or when sqlite3_step fails, count_tasks keeps its initial 0.
SelectCount ==
    /\ out.step = "select"
    /\ \/ /\ out' = [step |-> "update",
                     count_tasks |-> IF find_config THEN get_config.count_tasks + 1 ELSE 0]
          /\ UNCHANGED spent
       \/ /\ out' = [step |-> "update", count_tasks |-> 0]
          /\ Spend("db")
    /\ UNCHANGED <<configs, lastId, shard, guildQ, created, outQ>>

UpdateCount ==
    /\ out.step = "update"
    /\ update_count(out.count_tasks)
    /\ out' = OutIdle
    /\ UNCHANGED <<spent, lastId, shard, guildQ, created, outQ>>

\* sqlite3_open or one of the two sqlite3_prepare_v2 fails, or the UPDATE does.
UpdateFails ==
    /\ out.step \in {"select", "update"}
    /\ Spend("db")
    /\ out' = OutIdle
    /\ UNCHANGED <<configs, lastId, shard, guildQ, created, outQ>>

-----------------------------------------------------------------------------

\* The table survives; handlers, callbacks and unsent requests do not.
Crash ==
    /\ Spend("crash")
    /\ shard' = Idle
    /\ guildQ' = <<>>
    /\ outQ' = 0
    /\ out' = OutIdle
    /\ UNCHANGED <<configs, lastId, created>>

ShardThread ==
    \/ \E k \in Configs : SetConfig(k)
    \/ DeleteConfig
    \/ InsertConfig \/ InsertCannotOpen
    \/ SetConfigFails
    \/ AnswerRegistered
    \/ CreateTask

CallbackThread ==
    \/ OnCreated
    \/ SelectCount
    \/ UpdateCount
    \/ UpdateFails

Next ==
    \/ ShardThread
    \/ CallbackThread
    \/ RunChannelCreate
    \/ LoseChannelCreated
    \/ FailChannelCreate
    \/ Crash

Spec == Init /\ [][Next]_vars

-----------------------------------------------------------------------------
(* Properties. *)

InForce(k) == Len(configs) = 1 /\ get_config.config = k

\* When /setconfig answers "Configuration successfully registered!", what it was
\* given is the guild's only row, so it is what every handler will read.
RegisteredMeansInForce ==
    shard.step = "registered" => InForce(shard.config)

\* The same as long as no database call failed: the deletion, the insertion and
\* the other thread's UPDATE in between do not lead to anything else.
RegisteredWithoutFaults == None("db") => RegisteredMeansInForce

\* Completions not yet counted.
Uncounted == outQ + (IF out.step = "idle" THEN 0 ELSE 1)

\* count_tasks is never ahead of the channels that were created, whatever fails,
\* crashes or is reconfigured: a creation is counted at most once and only after it
\* happened, and an UPDATE that comes late for the row it read lifts the new row no
\* higher than that.
CountBounded ==
    \A i \in DOMAIN configs : configs[i].count_tasks + Uncounted <= Len(created)

\* No step makes the count of a row smaller.
NoDrop ==
    \A i \in DOMAIN configs \cap DOMAIN configs' :
        configs'[i].id = configs[i].id => configs'[i].count_tasks >= configs[i].count_tasks

\* "// Increment count_tasks": update_count_tasks never makes a count smaller.
CountGrows == [][NoDrop]_vars

\* The same as long as no database call failed, although /setconfig may have replaced
\* the row that SELECT read by one that counts from 0, or have taken it away.
CountGrowsWithoutFaults == [][None("db")' => NoDrop]_vars

\* Nothing is being created: the next click reads a settled count.
Quiet == guildQ = <<>> /\ outQ = 0 /\ out = OutIdle

\* A click that does not overlap with another creation gets a number that no
\* channel created under the same row has, as long as no database call fails, no
\* response of channel_create is lost and the process does not die (each leaves a
\* channel that was never counted).  A channel_create that Discord refuses is allowed.
FreshNumber ==
    Quiet /\ find_config /\ None("db") /\ None("response") /\ None("crash") =>
        \A i \in DOMAIN created :
            created[i].id = get_config.id => created[i].number < get_config.count_tasks

-----------------------------------------------------------------------------
(* The counter that this module implements.                                    *)

Config == IF find_config THEN get_config.config ELSE NoConfig

Count == IF find_config THEN get_config.count_tasks ELSE 0

Numbers == [i \in DOMAIN created |-> created[i].number]

Counter == INSTANCE TaskCounter
    WITH config <- Config, count <- Count, numbers <- Numbers

\* Whatever fails or crashes, the rows that handlers read tell of one configuration
\* after another, never of a new one in the place of an old one with its count; the
\* count only grows to what there are channels for or starts again from 0; and a click
\* that was captured under an earlier row, count or process never gives a channel a
\* number that is ahead of the channels before it.
ImplementsCounter == Counter!Spec

=============================================================================
