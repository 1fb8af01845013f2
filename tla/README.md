# Taskbox: TLA+ models, checks and proofs

Taskbox is a Discord bot (D++ 10.0.27, SQLite). A guild's administrator runs
`/setconfig` and `/sendpanel`; a member presses *Create* and gets a task channel;
*Close* archives the task, *Open* brings it back, *Delete* removes the channel. The
code is `src/MyBot/*.cpp`. This directory holds TLA+ models of its stateful core,
the TLC instances that check them, and TLAPS proofs of what holds for every
instance.

## 1. The system

### Components

| component | source | state it keeps | operations |
|---|---|---|---|
| task tables | `database_manager.cpp` | tables `tasks`, `task_archive`: one row per task, found by `channel_id` | `find_task`, `get_task_creator_id`, `add_task`, `delete_task`; `find_archived_task`, `get_archived_task_creator_id`, `archive_task`, `delete_archived_task` |
| configuration table | `database_manager.cpp` | table `configs`: categories, log channel, support role and `count_tasks` of a guild | `find_config`, `get_config`, `add_config` (with `delete_config`), `update_count_tasks` |
| schema | `database_manager.cpp` | - | `create_db`, `create_tables` (nothing calls them) |
| `create_task` | `create_task.cpp` | what the callback of `channel_create` captures | guards, `channel_create`; callback: `add_task`, welcome message, `update_count_tasks` |
| `close_task` | `close_task.cpp` | - | guards, `archive_task`, `delete_task`, controls message, `channel_edit` |
| `open_task` | `open_task.cpp` | the callback of `messages_get` | guards, `add_task`, `delete_archived_task`, `messages_get`, deletion of the controls, `channel_edit` |
| `delete_task` | `delete_task.cpp` | the callback of the followup, which sleeps 1.5 s | guards, reply, followup, `channel_delete` |
| events | `bot.cpp`, `MyBot.cpp` | - | `on_button_click`, `command_handler`, `on_channel_delete`, `on_ready`; `main` |
| `setconfig` | `setconfig.cpp` | - | guards, `add_config`, the answer |
| `sendpanel` | `sendpanel.cpp` | - | two queries, one message |
| `info`, embeds | `information.cpp`, `embed_manager.cpp` | - | one message each |
| moderation | `ban.cpp`, `kick.cpp`, `timeout.cpp` | the audit reason D++ stores per thread | "thinking", guards, `set_audit_reason`, one REST call each, its callback's answer |
| D++ and Discord | `dependencies/` (vendored headers and DLLs) | cache, request queues, completions, the guild | external |

### How they interact

Nothing in the bot is locked; it is concurrent because of D++.

```
 people ──clicks──> Discord guild ──gateway, in order──> shard thread: handlers
                        ^                                   |        |
                        |                               SQL |        | requests
     REST threads, one per endpoint <───────────────────────|────────┤
                        |                                   v        |
                        └──completions──> callback thread: callbacks ┘
                                                            |
                                                   test.db (tables)
```

* The shard thread runs the handlers of a guild's events one after another.
* A request goes to the thread of its endpoint. Requests to one channel are
  carried out in order; requests to different endpoints overlap
  (`dpp/queues.h:371-381`).
* Every completion is called back by one thread, in order of arrival
  (`dpp/queues.h:97-103`, `353-360`). `Sleep(1500)` in `delete_task` therefore holds
  up the callbacks of all other tasks.
* The handlers read D++'s cache through `find_channel` and keep pointers into it; gateway
  events change the same objects, take them out of the cache, and D++ frees them some time later: within a minute (`dpp/cache.h:90-93`, `120-122`) or
  after more than a minute (`258-261`).
* Both threads write to `test.db`. Each function of `database_manager` opens its own
  connection and its statements run in autocommit mode: there is no transaction
  around two of them.

### What is hard

* A handler makes several database writes with no transaction: any of them may fail
  (`SQLITE_BUSY` from the other thread is enough), or the process may die between
  two. A failing *query* is answered like an empty result.
* What a handler checked at the click is used in a callback, later: whether the task
  is closed, which number is next, which channel the cache held.
* Completions, events and requests of different endpoints are not ordered with each
  other: a channel can be deleted before the callback of its own creation has run,
  and a task closed again before the answer to `messages_get` is there.
* Tables and guild are two stores with nothing that reconciles them at start.
* `close_task` and `open_task` rename the object in D++'s cache, and hand all of it to
  `channel_edit`: edits, moderators' changes and CHANNEL_UPDATE overwrite one another.
* `delete_task` keeps a pointer into the cache over two requests and a sleep, `open_task` over a request and the sleeps of others.
* A request that Discord has carried out looks like a failed one when its response is lost.
* Four functions of `database_manager` close a connection before they finalize its
  statement, and SQLite then keeps it open.
* The audit reason of a ban is state of the thread that asks for it.

`PROJECT.json` lists each of these hazards at its line, with the properties that
cover it.

### What makes each component correct

* *Tables*: a task whose channel exists is never forgotten; it is open or closed, not
  both; its row names the member who asked for it.
* *close/open*: the controls and the Close button are there when they are needed.
* *delete, on_channel_delete*: only closed tasks are deleted, an announced deletion
  happens, and the row goes with the channel.
* *configuration*: what `/setconfig` reports is what the handlers read afterwards.
* *numbering*: the count follows the channels created, never backwards and never
  ahead; a click gets a fresh number.
* *channel*: name and category, in the guild and in the cache, follow the tables.
* *deletion in time*: no captured object is read, and no deletion takes, longer than the
  others' sleeps explain.
* *connections*: they run out as slowly as they can, given the leak.
* *moderation*: the moderator is told what happened, as far as the bot can know it, and the audit log says why it did.

## 2. The modules

| module | models |
|---|---|
| `Budget` | how much the environment may still do (clicks, moderators, failing database and REST calls, lost responses, crashes), bounded by `Limit` |
| `TaskTables` | the tables `tasks` and `task_archive`, one operator per function of `database_manager` |
| `DiscordGuild` | external: the guild, its people, the gateway, the REST threads, the completions |
| `TaskLifecycle` | the handlers and callbacks of `create_task`, `close_task`, `open_task`, `delete_task`, `on_channel_delete` on the two threads, over the three modules above |
| `TaskLedger` | abstract: what the bot promises about a task, without threads, queues and tables; `TaskLifecycle` implements it |
| `TaskNumbering` | the table `configs`, `/setconfig`, the click that reads a number and the callback that counts it |
| `TaskCounter` | abstract: what the bot promises about a configuration and its count; `TaskNumbering` implements it |
| `ChannelSync` | the channel's name and category in the guild and in D++'s cache, `channel_edit` and CHANNEL_UPDATE |
| `DeleteLifetime` | in time: the cache pointers that `delete_task` and `open_task` capture, the one callback thread, channels that leave the cache |
| `Connections` | the connections to `test.db` that every call of every handler opens |
| `Moderation` | `/ban`, `/kick`, `/timeout`: the checks, the audit reason per thread, the answers |
| `AuditTrail` | abstract: what the moderation commands promise; `Moderation` implements it |
| `MCTaskLifecycle`, `MCTaskNumbering`, `MCChannelSync`, `MCDeleteLifetime`, `MCConnections`, `MCModeration` | the instances for TLC: bounds and symmetry |
| `CommonLemmas` | lemmas on queues and on `Budget` that several proofs cite |
| `TaskLifecycleProofs`, `TaskLedgerProofs`, `TaskNumberingProofs`, `ChannelSyncProofs`, `DeleteLifetimeProofs`, `ConnectionsProofs`, `ModerationProofs` | theorems and proofs |

`TaskLifecycle` composes `Budget`, `TaskTables` and `DiscordGuild` by EXTENDS. The other models are about one
question each and have a variable for only what that question needs, so they stand beside it:
where a handler takes part in several, each model keeps the steps in the order of the code and takes together those
that the others tell apart. Each module's opening comment names what it leaves to the others.

### `TaskLifecycle`: state and actions

A table maps each channel to the sequence of its rows in rowid order. No constraint
of the schema stops a channel from having several rows, so the model does not either,
and a getter returns the first one. Only `creator_id` is ever read back from a row, so
that is what a row is; `NoUser` is the 0 that a getter returns for "no row" and for a
failed query alike.

`shard` and `out` say at which step each of the two threads is. A handler is a chain
of actions: the first takes the event and makes all the guards, and then there is one
action per call that writes, in the code's order. What runs between two writes without
touching shared state belongs to the step before it.

| code | actions |
|---|---|
| `create_task` | `CreateTask`; callback `OnCreated`, `CreatedSendsWelcome` |
| `close_task` | `CloseTask`, `CloseArchives`, `CloseDeletes`, `CloseSendsPanel` |
| `open_task` | `OpenTask`, `OpenAdds`, `OpenDeletesArchived`, `OpenGetsMessages`; callback `OnMessages` |
| `delete_task` | `DeleteTask`; callback `OnFollowup`, `SleepEnds` |
| `on_channel_delete` | `OnChannelDelete`, `OnDeleteForgetsTask`, `OnDeleteFindsArchived`, `OnDeleteForgetsArchived` |
| a guard returns early | `Refuse` |
| a write fails, the handler returns | `HandlerFails`; `OnCreated`'s second disjunct |
| a query fails | `Query`, the second disjuncts of `CloseArchives` and `OpenAdds` |
| the process dies and is restarted | `Crash` |

In the guild a request may fail before anything has happened (`FailChannelCreate`, `FailChannelRequest`, `FailFollowup`), or `channel_create` may succeed and its
response be lost (`LoseChannelCreated`): the callback takes its `is_error` branch for both (`create_task.cpp:132`), and of the second there is a channel that the bot
never writes down. The callbacks of the other requests do nothing but report an error, so that a lost response makes no further case of them.

`Refuse` may happen on any click: the permission, role and configuration guards only
decide whether a handler returns at once, and members and roles may change at any
time. That the row is looked up in the right order (`find_archived_task` before
`find_task` in `close_task`, the other way round in `open_task`) is in the guards of
`CloseTask` and `OpenTask`; each of the two queries may fail, and that too is either
a wrong "no" that lets the handler go on (`Query`) or a refusal.

`cached` is D++'s channel cache, which `dpp::find_channel` reads and which CHANNEL_CREATE
and CHANNEL_DELETE maintain before the handler of the event runs.

Left out here because no handler of this model decides anything on them: embeds, logs,
messages without buttons, permissions; the channel's name and category, which are
`ChannelSync`'s.

### `TaskLedger`: the abstract specification

One entry per channel that was ever asked for: *none*, *created* (the channel exists, the bot has
not written it down), *open*, *closed*, *forgotten*. A task is written down once, goes from open to closed
and back, names the member who asked or nobody, may change that name only together with its status,
is forgotten only after its channel, and never comes back. `Lose` admits that the bot dies or fails between the
creation and the first row, `CreateUnheard` that it never gets to know of the channel.

`TaskLifecycle!Ledger` is the refinement mapping: `alive` is `channels`, `asker` is `opener`, and `Status` reads the
two tables - a row in the archive makes a task closed, because `close_task` writes it first and `open_task`
deletes it last. So the first write of `close_task` is the abstract `Close` and the second one stutters;
in `open_task` the second is the abstract `Reopen`.

### `TaskNumbering`: state and actions

`configs` is the guild's rows in order of their id, `lastId` the AUTOINCREMENT value;
`guildQ` holds what each click captured and `created` remembers, for the properties
only, the number under which each channel was created.

| code | actions |
|---|---|
| `setconfig`, `add_config`, `delete_config` | `SetConfig`, `DeleteConfig`, `InsertConfig`, `AnswerRegistered` |
| `sqlite3_open` fails before the INSERT | `InsertCannotOpen` (`return 1`, which is `true`) |
| DELETE or INSERT fails | `SetConfigFails` |
| `create_task` up to `channel_create` | `CreateTask` |
| `channel_create` succeeds; succeeds unheard; fails | `RunChannelCreate`; `LoseChannelCreated`; `FailChannelCreate` |
| its callback, `update_count_tasks` | `OnCreated`, `SelectCount`, `UpdateCount`, `UpdateFails` |
| process restart | `Crash` |

A guild's configuration interacts with its tasks only through the early returns, the categories and the
number; so the models are separate, `Refuse` stands for the first and `ChannelSync!config` for the second.

### `TaskCounter`: the abstract specification

A register for the configuration, a counter and the list of numbers given out, with no rows and no threads. A configuration never replaces
another at once: there is a moment without one. A channel's number is at most the number of channels before it; the count grows only over
channels that there are, and otherwise starts again from 0, with its configuration or after a failed SELECT.

`TaskNumbering!Counter` maps the register to the first row of `configs`, which is the one every SELECT returns, and the list to `created`. So
an INSERT behind a row that a failed query did not see stutters, the DELETE of two rows is one `Withdraw`, and an UPDATE, by `guild_id`, counts
in every row.

### `ChannelSync`: state and actions

`channel` is the channel in the guild, `cached` D++'s object, `edits` the `channel_edit` requests that Discord has not
carried out (one queue: they go to one endpoint), `gateway` the clicks and updates on their way, `rows` the tables
with a row of the task. Names are sequences of two-character pieces: `replace(0, 4, "closed")`
and `replace(0, 6, "task")` count in characters, and the pieces keep those lengths in proportion. `hasty` is a history variable:
some handler has worked on an object while an edit or an update of it was on its way.

| code | actions |
|---|---|
| `close_task`, `open_task` | `CloseTask`, `OpenTask`: `Move` (the rows) and `Edit` (`set_name`, `set_parent_id`, `channel_edit`) |
| their early returns | `Refuse` |
| `channel_edit` is carried out; refused, and its callback reports it | `RunEdit`; `FailEdit` |
| D++ receives CHANNEL_UPDATE | `OnChannelUpdate` |
| a moderator renames or moves the channel | `ModeratorEdits` |
| process restart, with the cache filled anew | `Crash` |

The category is looked up with `find_channel` and kept out when it is not found, which is the IF of `Edit`. A `get_config` that fails gives
`open_task` the category 0, which is not found either (second alternative of `OpenTask`); `close_task` refuses the click then.

### `DeleteLifetime`: state and actions

`handlers` has one record per press of Delete or Open: its channel, its stage, how long its request has been under way (`waits`)
and how long ago `cFind` was captured (`since`). `completions` and `asleep` are the callback
thread; `age` says for how long D++'s object of a channel has been out of the cache, and `stalest` the greatest age at which `cFind` was dereferenced.
`Tick` is time: it waits for callbacks that are due, and no request takes longer than `Latency`.

| code | actions |
|---|---|
| `delete_task` | `DeleteTask` |
| the followup's callback up to the sleep, and after it | `OnFollowup`; `SleepEnds` (reads `cFind->id`) |
| the callback of `channel_delete`; either callback with an error | `OnDeleted` (may read `cFind->name`); `OnError` |
| `open_task`; the callback of `messages_get` | `OpenTask`; `OnMessages` (may read `cFind->id`) |
| D++'s cache | `OnChannelDelete` |

The garbage collection is not modelled, because the header does not say in one voice when it frees an object: "within the next 60 seconds"
(`dpp/cache.h:90-93`, `120-122`) or "deleted over 60 seconds ago" (`258-261`). The model bounds what the bot itself is answerable for: how old a removed object
may be when it is read.

### `Connections`: state and actions

`thread` is the call that each of the two threads is at, `held` the connections that nothing will close. The calls of a handler are a
table, `Calls`: after this call and this answer comes that call. A call is
`Open` or `OpenFails` (`sqlite3_open`), then `Close` or `PrepareFails`; `Leaking` names the four
functions that close before they finalize. Rows are forgotten: a call that could open its connection
answers either way. `OnEvent`, `RequestChannel` and `OnCreated` begin the handlers and the one callback with calls.

### `Moderation`: state and actions

Interactions are numbered. `reason` is, per thread, what `set_audit_reason` left for that thread's next REST call; `Post` takes it along and
clears it. `answer` is what the moderator sees, `audit` the guild's log, `known` the members in D++'s cache. `unheard`, for the properties
only, are the commands that took effect while the response to their request was lost.

| code | actions |
|---|---|
| `ban`, `kick`, `timeout` up to `event.thinking` | `HandleCommand` |
| `get_resolved_member` throws | `HandlerThrows` |
| a check fails | `Refuse` |
| all checks succeed, `set_audit_reason`; the REST call | `SetAuditReason`; `RequestIt` |
| its callback | `OnModerated` |
| D++ receives GUILD_MEMBER_ADD, GUILD_MEMBER_REMOVE | `OnMember` |
| the request is carried out or refused; is carried out unheard; fails before that | `RunModeration`; `LoseResponse`; `FailRequest` |

`Refuse` may happen for any command, since role positions and permissions may be anything; whoever passes the checks was a
cached member other than the moderator and the bot.

### `AuditTrail`: the abstract specification

Three actions: a command is used; it acts - at most once, on somebody other than its user and the bot, under its own
reason, and before its user was told anything; its user is told, once, "done" exactly if it has acted - or "failed" although it has acted, if it did so `unheard`. `Moderation!Trail` keeps `command`,
`audit` and `unheard`, and forgets of `answer` whether "thinking" is shown yet. Threads, requests, the cache, lost answers and crashes all stutter.

### Wrong variants

`TaskTables` and the modules with handlers contain operators that
no specification uses, such as `CloseTaskWithoutArchive`, `OpenTaskShort` or `OnErrorRetries`. Each
is a step as a plausible mistake would write it. Put in place of the right step it makes TLC find
a violation of the property listed with it under "mutants" in `PROJECT.json`: this shows
that the property depends on the code.

## 3. What is model-checked

`Limit` bounds six kinds of event, written (click, admin, db, rest, response, crash) below. A click
is a button pressed, a command used or, in `Connections`, any event; admin is what a moderator or member does without the bot
(a deletion, an edit, coming and going) or a `/setconfig`; db a failing database
call; rest a request that fails before it has had an effect; response one that has had its effect but whose response is lost; crash a death with restart. Everything else in the models is
finite by itself once these are bounded.

| run | instance | result |
|---|---|---|
| `lifecycle_faults` | 1 task, (6,1,1,1,1,1) | holds; 288,596 states |
| `two_tasks` | 2 tasks, 2 members, (5,1,1,0,0,0) | holds; 428,882 states |
| `liveness` | 1 task, (5,1,0,0,0,0) | holds; 8,936 states |
| `numbering` | 2 configurations, (4,3,2,1,1,1) | holds; 1,012,992 states |
| `channel_sync` | 3 configurations, (4,1,1,1,0,1) | holds; 458,877 states |
| `delete_lifetime` | 2 channels, sleep 2, latency 1, (3,1,0,1,1,0) | holds; about 8.6 million states |
| `moderation` | 2 users, 1 of them a moderator, (2,1,0,1,1,1) | holds; 540,098 states |
| `connections` | at most 3 connections, (5,0,1,1,0,1) | holds; 64,261 states |
| `reopened` | 1 task, (4,0,0,0,0,0) | violated, as the code behaves |
| `half_open` | 1 task, (4,0,1,0,0,0) | violated, as the code behaves |
| `open_fails` | 2 configurations, (0,2,1,0,0,0) | violated, as the code behaves |
| `busy` | 2 configurations, (2,1,1,0,0,0) | violated, as the code behaves |

* **`lifecycle_faults`** asks what survives faults. With one failing database call, one
  failing request, one lost response, one crash and one moderator at any point:
  no step makes the database forget a task whose channel exists
  (`RecordKept`), a row names its creator unless a query failed (`CreatorKept`), a deletion whose followup got through is not given up
  (`DeletionStands`), and the tables tell the story of
  `TaskLedger` (`ImplementsLedger`). As long as nothing fails,
  a task is open or closed but not both (`OpenXorClosed`), an open one has its Close button and a closed
  one its controls (`NotStranded`), and no row outlives the handling of CHANNEL_DELETE (`NoOrphan`).
  Six clicks are create, close, open, close, and two more: enough for a row to go through the
  archive twice with a stale `messages_get` in flight, and for the second closing to overlap the
  answer to the first reopening.
* **`two_tasks`** asks whether tasks get into each other's way: two members' tasks share the two
  threads, the completions and the tables. Each property is about rows and messages of one channel, so two channels
  show a confusion between any two. Five clicks create both tasks and close, and reopen, one while the
  other is deleted. Channels and users are symmetric: no definition the run uses chooses between them.
* **`liveness`** has no faults, since a failing request or a crash does lose a deletion, and asks that an announced
  deletion happens although `Sleep(1500)` holds the callback thread (`AnnouncedDeletionHappens`), and that
  the row of a deleted channel goes whatever was queued before the event (`ForgottenOnDelete`). No symmetry is used here.
* **`numbering`** lets up to four creations, three `/setconfig` and the faults overlap in every order: the count is
  never ahead of the channels created (`CountBounded`). Without failing calls, a count never falls (`CountGrowsWithoutFaults`) and
  what `/setconfig` reports is true (`RegisteredWithoutFaults`); and a click that overlaps with no other creation
  gets a fresh number, unless a database call failed, a response was lost or the process died before (`FreshNumber`). With all faults, every step is one of `TaskCounter` or none (`ImplementsCounter`). Three `/setconfig` allow for a row that replaces one which
  itself replaced the row that a SELECT has read.
* **`channel_sync`** asks when the channel follows the tables. Once nothing is on its way the cache agrees with the guild
  unless an edit was refused (`CacheAgrees`); the channel is in the category of its table unless somebody else moved it or a call failed
  (`InItsCategory`); and the cached name is `task-N` or `closed-N` unless a handler was hasty (`NameFollows`). Four clicks
  are close, open, close, open with up to four edits under way. The three configurations have both categories, one, and none:
  `Edit` branches on whether the target's category is found.
* **`delete_lifetime`** asks for how long a callback may still read an object that has left the cache (`ReadSoon`): at most for the sleeps of all
  presses and one request, which the run does reach. Three
  presses are the fewest where a callback of the first waits for the sleep of one that came later while a third is still
  queued, and two channels let presses share a channel or not. `Prompt` bounds every press by the
  sleeps of all and two requests. Channels are symmetric.
* **`moderation`** has two commands of a moderator overlap on both threads, while a member comes or goes: the audit reason stays with its
  own request (`AuditedForItself`), what the moderator reads is what happened, but for an error whose cause is a lost response (`ToldTheTruth`), and a command
  on a member is answered in the end (`AnsweredInTheEnd`), which needs fairness, and at the latest when
  nothing is left to do (`AnsweredWhenQuiet`), which does not. With all faults, every step is one of `AuditTrail` or none (`ImplementsTrail`). A reason can only go astray between two commands, so two are enough; the second
  user is a target that is not the moderator.
* **`connections`** has five events against three connections: no event costs more than one (`OneLeakPerEvent`), so none is refused before the third
  (`RefusedLate`). Five are enough to exhaust them while both threads hold one and another callback is queued.

`CHECK_DEADLOCK FALSE` is right in every run: the bot rests when nobody clicks.

### Fairness

`TaskLifecycle!FairSpec` assumes weak fairness of the shard thread, the callback thread and each REST thread that
serves a task, and of nothing else: neither clicks nor moderators, and no reply, are
owed. `Moderation!FairSpec` assumes the same of the shard thread and the callback thread, and that the requests of each
command are tried some time: an interaction's requests go to its own endpoint, and either succeed or fail. D++'s threads loop for as long as the
process lives, and each takes what is in its queue; no handler or callback
waits for another one (`Sleep` ends by itself; the requests are asynchronous). Weak fairness is enough as a non-empty queue
stays non-empty until its own thread takes the head. A REST thread may carry out or fail
a request: with `Limit["rest"] = 0` only requests that Discord must reject fail.

### Findings

| run | what the code does |
|---|---|
| `reopened` | *Delete* checks that the task is closed at the click and deletes the channel after a followup, the wait for the callback thread and 1.5 s, without checking again. *Open* pressed in that time reopens the task, and it is deleted open. |
| `half_open` | `delete_archived_task` fails in `open_task`: the task is in both tables. *Delete* accepts it, and `on_channel_delete` removes the row in `tasks` only. The archived one stays for ever. |
| `open_fails` | `add_config` returns `1` when the database cannot be opened for the INSERT: `/setconfig` answers "Configuration successfully registered!" and the guild has none. The trace shows a first `/setconfig`; a later one has deleted the old row by then. |
| `busy` | A failing `sqlite3_step` in `update_count_tasks` counts as "no row": `count_tasks` is set to 0 and numbers repeat. |

Each violating run checks the one property that states what a comment or an answer of the code says;
`PROJECT.json` quotes the line. Two of the properties have a counterpart in a passing run that
shows when the code does keep to it: `RegisteredWithoutFaults` and `CountGrowsWithoutFaults`.

Other hazards are real, and no line of the repository promises otherwise; a property then states the condition under which the code is right:

* A channel deleted before the callback of its creation keeps an orphan row (`NoOrphan` is about
  channels that got their welcome message); after a crash rows and channels may disagree (`NoOrphan`,
  `FreshNumber`); two clicks that overlap get the same number (`FreshNumber`).
* Close, open and close faster than CHANNEL_UPDATE comes back make `closeded-N`, and an open task whose cached name is already `task-N` loses its
  number (`NameFollows`, by `hasty`).
* After a refused `channel_edit` the cache shows a name that the channel does not have, until the next update or restart (`CacheAgrees`, by `None("rest")`).
* A channel whose `channel_create` succeeded while its response was lost has no row and is not counted: its number comes again (`FreshNumber`, by `None("response")`).
* A moderator reads an error although the member was banned, when the response to the ban was lost (`ToldTheTruth`, by `unheard`).
* `get_task_creator_id` returns 0 when it fails, and that 0 becomes the creator of the archived task (`CreatorKept` allows it). A followup of *Delete* that overtakes
  `event.reply` is rejected, and nothing is deleted (`AnnouncedDeletionHappens` starts behind it).
* A moderator's edit that is under way when a handler works on the cached object is overwritten (`InItsCategory` is about channels that nobody else moved).
* `cFind` is read after its object has left the cache, in `delete_task` and in `open_task`, although `dpp/cache.h:147` advises a copy. If the cache keeps an object for a minute
  after that (`258-261`), `ReadSoon` says that 39 presses, with requests of 1.5 seconds, still fit; if it may free it at any time within the minute (`90-93`, `120-122`), none of these reads is safe, and
  the run shows that they do happen.
* `/ban`, `/kick` and `/timeout` on somebody who is not a member are not answered: `get_resolved_member` throws before the check that would say so
  (`AnsweredInTheEnd`, by `resolved`).
* Connections do run out: the bot has to be restarted after as many events as the process may have files (`RefusedLate`).

## 4. What is proved

All for every value of the constants and every `Limit`, so for any number of
channels, users, clicks, faults and crashes.

| theorem | states |
|---|---|
| `TaskLifecycleProofs!TypeCorrect` | `Spec => []TypeOK` |
| `TaskLifecycleProofs!RecordsAreKept` | `Spec => RecordKept`: the database never forgets a task whose channel exists |
| `TaskLedgerProofs!CreatorsAreKept` | `Spec => []CreatorKept` |
| `TaskLedgerProofs!Implements` | `Spec => ImplementsLedger`: `TaskLifecycle` implements `TaskLedger` |
| `TaskLedgerProofs!OpenOrClosed` | `Spec => []OpenXorClosed` |
| `TaskLedgerProofs!NoneOrphaned` | `Spec => []NoOrphan` |
| `TaskLedgerProofs!NoneStranded` | `Spec => []NotStranded` |
| `TaskLedgerProofs!DeletionsStand` | `Spec => DeletionStands` |
| `TaskLedgerProofs!NeverTurnsBack` | `Spec => NoWayBack`: no step leads a task back to an earlier part of its life |
| `TaskNumberingProofs!TypeCorrect` | `Spec => []TypeOK` |
| `TaskNumberingProofs!NumbersNeverAhead` | `Spec => []CountBounded` |
| `TaskNumberingProofs!RegisteredIsTrue` | `Spec => []RegisteredWithoutFaults` |
| `TaskNumberingProofs!CountsGrow` | `Spec => CountGrowsWithoutFaults` |
| `TaskNumberingProofs!NumbersAreFresh` | `Spec => []FreshNumber` |
| `TaskNumberingProofs!ImplementsTheCounter` | `Spec => ImplementsCounter`: `TaskNumbering` implements `TaskCounter` |
| `ChannelSyncProofs!TypeCorrect` | `Spec => []TypeOK` |
| `ChannelSyncProofs!CacheFollows` | `Spec => []CacheAgrees` |
| `ChannelSyncProofs!EndsInItsCategory` | `Spec => []InItsCategory` |
| `ChannelSyncProofs!NameKept` | `Spec => []NameFollows` |
| `DeleteLifetimeProofs!TypeCorrect` | `Spec => []TypeOK` |
| `DeleteLifetimeProofs!NoneTakesLonger` | `Spec => []Prompt` |
| `DeleteLifetimeProofs!NeverReadsLate` | `Spec => []ReadSoon` |
| `ConnectionsProofs!TypeCorrect` | `Spec => []TypeOK` |
| `ConnectionsProofs!LeaksAreSlow` | `Spec => []OneLeakPerEvent` |
| `ConnectionsProofs!RefusedNoSooner` | `Spec => []RefusedLate` |
| `ModerationProofs!TypeCorrect` | `Spec => []TypeOK` |
| `ModerationProofs!OwnReasons` | `Spec => []AuditedForItself` |
| `ModerationProofs!ToldWhatHappened` | `Spec => []ToldTheTruth` |
| `ModerationProofs!NoneDropped` | `Spec => []AnsweredWhenQuiet` |
| `ModerationProofs!ImplementsTheTrail` | `Spec => ImplementsTrail`: `Moderation` implements `AuditTrail` |

Assumptions: `LimitAssumption` (bounds are natural numbers); `NoUserAssumption`, `NoChannelAssumption`
and `NoConfigAssumption` (the null values are not members of the sets); `ConfigsAssumption`, `PiecesAssumption` and `RenamesAssumption`
(configurations and names are such, and the words the handlers write are names); `TicksAssumption` (times are natural numbers); `MaxConnectionsAssumption` (there is room for one connection);
`BotAssumption` and `ModeratorsAssumption` (the bot is not a user, moderators are). TLC evaluates them in every run.

**`RecordsAreKept`.** That a step loses no record is not a fact about the step alone: `CloseDeletes` empties
`tasks[c]`, which is harmless only if the row is in the archive. `RecordInv` carries what a step needs
from the ones before it, in four parts:

* `MovingInv`: whoever is about to delete the row in one table has it in the other (`close_task` between
  its two writes, `open_task` likewise). Nothing else deletes in between, as
  both are on the shard thread; the callback thread only adds.
* `ForgettingInv`: whoever is about to forget a row in `on_channel_delete` does so for a channel that is gone.
* `GatewayInv`: every CHANNEL_DELETE under way is of a channel that is gone.
* `OpenedInv`: a channel that exists was asked for by a member; as identifiers are not reused, a gone
  channel does not come back, which is what keeps the two parts above true.

**`Implements` and `CreatorsAreKept`.** Each step of `TaskLifecycle` is a step of the ledger or leaves it alone. For that `LedgerInv` adds to `RecordInv`: a channel
whose callback has not run has no row, and one callback only (`PendingInv`: so `Register` happens once, and never for a
forgotten task); rows are about channels that were asked for (`AskedInv`); what `close_task` and `open_task` found is still there when they
write (`FoundInv`: so the archive row comes from *open*, not from nothing); and `CreatorKept`. The mapped variables are functions of every channel, so a
lemma per kind of change shows that the entries of other channels stay.

**`OpenOrClosed`.** `OneRowInv` adds what a handler found *not* to be there: until `close_task` archives the
row the archive has none, until `open_task` adds one `tasks` has none. Without failing calls nobody else
writes such a row in between, as the callback thread adds rows only to channels that have none.

**`NoneOrphaned`.** Two parts. `WelcomeInv`: a channel whose welcome message is there, requested or about to
be requested has its row already and no callback that could add another, so rows do not
appear behind `on_channel_delete`. `OrphanInv`: whoever deletes the channel, Discord's CHANNEL_DELETE stays in the gateway
until it is handled, and `on_channel_delete`, which looks into one table and then into the other, misses nothing:
the row it does not find in `tasks` cannot come there later, and the one it does find is the only one (`OneRowInv`).

**`NoneStranded`.** Messages are numbered as they are posted, so that no answer of `messages_get` can name one that is still to
come (`PostedInv`). `ControlsInv`: the controls of a closed task are either in the queue with no `messages_get`
after them, or they are the last that were posted, no `messages_get` is waiting, and no
answer or `message_delete` under way names them. Old `message_delete` requests of an earlier reopening may be
anywhere and arrive at any time; they only name older messages.

**`NeverTurnsBack`.** A consequence of the refinement: `EntryMoves` reads off `TaskLedger`'s actions, without the queues and
threads, how the entry of a task may change, and `Implements` carries it over to the handlers.

**`DeletionsStand`.** The safety half of `AnnouncedDeletionHappens`. One lemma per place where a deletion can be: its completion stays in
the callback queue until it is the head (`CompletionStays`), the sleep can end only in its own `channel_delete` (`SleepMoves`), and the request stays in
its queue until it is carried out (`DeleteRequestStays`), even if others for the same channel are before it. It starts where the followup got through:
a followup that overtakes `event.reply` is rejected by Discord, and its callback makes no deletion.

**`NumbersNeverAhead`.** `CountBounded` is not inductive: between SELECT and UPDATE the number to be
written is known to the callback only. `CountInv` adds that this number, too, is at most the channels created
less the completions still waiting behind the callback (`SelectedBounded`), which makes the UPDATE safe, and that there are never more
uncounted completions than channels, which makes the 0 of a new row safe.

**`RegisteredIsTrue`.** `SetConfigInv` says that while `/setconfig` has deleted and not yet inserted the table is
empty, that after the INSERT it holds just its argument, and that without failing
calls there is never more than one row.

**`CountsGrow`, `NumbersAreFresh`.** `GrowInv`: the number that SELECT led to is not smaller than any count that UPDATE will find, also
when `/setconfig` has put another row there in between. `RowIdsInv`: an id is never used for two rows, so numbers of different rows
are not compared. `FreshInv`, stated as long as no database call failed, no response was lost and the process did not die: every number in use is smaller than `Expected`, the count that will have been reached once all waiting completions
are counted; when nothing is waiting, that is the count the next click reads.

**`ImplementsTheCounter`.** Two facts that the properties above do not need. `CapturedBounded`: the number that a click has captured is at most the channels
there are now, also when the count was reset since. `SelectedGrows`: between SELECT and UPDATE the number to be written is 0 or more than any count that
UPDATE will find. That is why the UPDATE is a `Count`, a `Restart` or nothing, and no row ever loses part of its count.

**`CacheFollows`, `EndsInItsCategory`, `NameKept`.** The three properties speak of the moment when nothing is on its way; `SyncInv` says what is true meanwhile.
The last update on its way shows the channel as it is (`LatestInv`, which is about order: the gateway and the edits are queues). If none is,
the cache shows the channel or what the newest edit will make of it (`CachedInv`). The newest edit, or else the channel, is in the category of the
task (`PlacedInv`). Without haste all edits and updates on their way equal the cached object (`NamedInv`), so that none of them can change the name the next
handler cuts from. `ReplaceWord` is the fact about `std::string::replace` that this rests on.

**`NoneTakesLonger`, `NeverReadsLate`.** A press waits for sleeps of others, and which ones is not in the state. `TimeInv` counts instead: `Slept`, the ticks
that the callback thread has slept so far, is at most the sleep length times the presses that are past theirs, and each stage of a press is no older than `Slept` and the requests it has made
(`Timely`). An object has not been out of the cache for longer than since a press found it there; and when `channel_delete` has deleted the channel, for no longer than the thread has slept since (`Young`),
so that the second request does not count. As `Slept` never exceeds `Limit["click"] * SleepTicks`, both theorems follow. Nothing is assumed of when the cache frees an object.
It is nonlinear arithmetic with a cardinality, hence the lemmas `Times`, `TimesBound` and `Counting`.

**`LeaksAreSlow`, `RefusedNoSooner`.** `PaidFor` counts, besides what is held, one connection for each queued callback and for each thread whose
handler has not made its leaking call yet, and shows that the events pay for all of them. Two facts about the table of calls carry it: after a leaking call
come only calls that do not leak (`LateFollows`), and the callback that may leak is requested by a handler that did not.

**`OwnReasons`, `ToldWhatHappened`.** `ReasonInv`: the callback thread never holds a reason and the shard thread does only between
`set_audit_reason` and the request. `ToldInv`: a command waits, is checked, is requested, and is done or refused, in this order and one at a time - so
a followup "done" or "refused" cannot contradict what happens later. Its last part relates a completion to the log: one without an error has its entry there, and one with an error
has none or is `unheard`, which is what a followup "failed" inherits.

**`ImplementsTheTrail`.** `TrailInv` adds the order of the answers, `AnswersInv`: a command that waits, or whose "thinking" is still to come, shows
nothing yet, so no "thinking" replaces a final answer; and `OthersInv`: a command that has passed the checks or is requested does not mean its own user.

**`NoneDropped`.** The safety half of `AnsweredInTheEnd`. `UnderWayInv`: without a crash every command about a member is in one of six places - the
gateway, the handler, a request other than "thinking", the completions, answered, or refused by Discord - and each step that takes it out of one puts it in
another. When all queues are empty only the last two are left.

Every inductive invariant was first checked by TLC on the instances above. Each proof has one step per action and one lemma per operator that is used in several.

Only model-checked: the liveness properties (`AnnouncedDeletionHappens`, `ForgottenOnDelete`, `AnsweredInTheEnd`), as the
prover does not do fairness or ENABLED; `DeletionsStand`, `NoneOrphaned` and `NoneDropped` prove that the deletion, the event
and the answer which they wait for are not lost on the way. Every invariant and action property of every passing run is a theorem.

## 5. What is not modelled

* `set_position` takes 16 bits and is given a 64-bit id: it orders the guild's channel list, which no state of the bot depends on.
* The guards on role positions and permissions: each only decides whether a handler returns early, and is any outcome in the models.
  The duration of a timeout is one of twelve choices and takes no part in what the handler does.
* The message that `sendpanel` posts, `info`, embeds, logs: no state. In the models the panel is always there. The database calls of `sendpanel` are in `Connections`.
* `create_db`, `create_tables`: nothing calls them. `register_commands`, `on_ready`, `read_token` hand constants to D++.
* Several guilds: every table is keyed by guild or channel and handlers of one guild do not read another's. They
  share the two kinds of thread, which a second task of the same guild shows as well.
* The bits of identifiers and `convert_to_ui64`: members, channels and roles are model values.
* `struct task` (unused).
* Vendored code, which is nearly all of the repository by lines: `nlohmann/json.hpp`, `fmt`, the emoji table and the declarations of D++ in
  `dependencies/` are third-party headers whose implementation is in DLLs. What the bot relies on is modelled from its use: the ordering of
  events, requests and completions, the cache with its delayed deletion, and the audit reason of a thread. The models cover nearly every line of the bot's own handlers and
  of `database_manager.cpp`.

## 6. Plan

Done, in this order: `Budget`, `TaskTables`, `DiscordGuild`, `TaskLifecycle` with its faults, two-task and liveness
runs, `TaskNumbering`, and proofs of both; `TaskLedger` and the refinement; `ChannelSync`, `DeleteLifetime`, `Connections` and `Moderation` with their proofs;
the proofs of the remaining invariants of `TaskLifecycle` and `TaskNumbering`; the abstract specifications `TaskCounter` and `AuditTrail`
with their refinements, and the safety halves of two liveness properties. Left:

1. One model of a task with its database rows *and* its name and category: `TaskLifecycle` and `ChannelSync` are separate, and what they share, the order of clicks,
   callbacks and requests of a channel, is modelled in each.
2. `sendpanel`'s message in the guild, so that `/setconfig` and the panel can be out of step.
