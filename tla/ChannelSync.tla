----------------------------- MODULE ChannelSync -----------------------------
(***************************************************************************)
(* What close_task and open_task do to the channel itself.                 *)
(*                                                                         *)
(* A handler changes the object in D++'s cache in place - a new name made  *)
(* from the one it finds there, another category - and hands all of it to  *)
(* channel_edit, before it writes to the database.  Discord carries the    *)
(* edit out later, or refuses it, and every change of the channel, also    *)
(* those of moderators, comes back as a CHANNEL_UPDATE that overwrites the *)
(* cached object, among the clicks of the same guild.                      *)
(*                                                                         *)
(* One task channel from the moment create_task has registered it; how it  *)
(* gets there and disappears is TaskLifecycle's subject, and so are the    *)
(* steps in between the database calls of a handler: here a handler is one *)
(* step, and a db failure of it is any number of its calls failing.        *)
(*                                                                         *)
(* Names are sequences of pieces of two characters, so that the lengths    *)
(* that the handlers count in stay what they are.                          *)
(***************************************************************************)
EXTENDS Budget, Sequences

CONSTANTS
    Categories,
    NoCategory,
    Configs,         \* configurations to choose from
    Pieces,          \* the pieces that names are made of
    Renames          \* the names that moderators give

Places == Categories \cup {NoCategory}

\* A category is NoCategory when it was not configured or is not in the cache.
Config == [open_category_id : Places, closed_category_id : Places]

ASSUME ConfigsAssumption == Configs \subseteq Config

TaskWord == <<"ta", "sk">>

ClosedWord == <<"cl", "os", "ed">>

Number == <<"-1">>

ASSUME PiecesAssumption == {"ta", "sk", "cl", "os", "ed", "-1"} \subseteq Pieces

Name == Seq(Pieces)

ASSUME RenamesAssumption == Renames \subseteq Name

VARIABLES
    config,   \* the guild's configuration
    rows,     \* the tables that hold a row of the channel
    channel,  \* the channel as it is in the guild
    cached,   \* the object in D++'s cache
    gateway,  \* events on their way to the bot
    edits,    \* channel_edit requests that were not carried out yet
    hasty     \* a handler has worked on an object that was about to be overwritten

vars == <<spent, config, rows, channel, cached, gateway, edits, hasty>>

Channel == [name : Name, parent_id : Places]

Clicks == {"close_task", "open_task"}

Event == [type : Clicks] \cup [type : {"CHANNEL_UPDATE"}, channel : Channel]

TypeOK ==
    /\ BudgetTypeOK
    /\ config \in Configs
    /\ rows \in SUBSET {"tasks", "task_archive"} /\ rows # {}
    /\ channel \in Channel
    /\ cached \in Channel
    /\ gateway \in Seq(Event)
    /\ edits \in Seq(Channel)
    /\ hasty \in BOOLEAN

Init ==
    /\ BudgetInit
    /\ config \in Configs
    /\ rows = {"tasks"}
    /\ channel = [name |-> TaskWord \o Number, parent_id |-> config.open_category_id]
    /\ cached = channel
    /\ gateway = <<>>
    /\ edits = <<>>
    /\ hasty = FALSE

-----------------------------------------------------------------------------

\* An update of the channel is on its way, or the edit that will cause one.
InFlight == edits # <<>> \/ \E i \in DOMAIN gateway : gateway[i].type = "CHANNEL_UPDATE"

Receive(type) ==
    /\ gateway # <<>>
    /\ Head(gateway).type = type
    /\ gateway' = Tail(gateway)

\* std::string::replace(0, ...): the first pieces of the name give way to a word.
replace(name, pieces, word) == word \o SubSeq(name, pieces + 1, Len(name))

\* The row is deleted before it is stored in the other table.
MoveDeletesFirst(from, to) ==
    \/ rows = {from} /\ rows' = {to} /\ UNCHANGED spent
    \/ from \in rows /\ rows' \in {rows, rows \ {from}} /\ Spend("db")

\* The row moves from one table to the other; a failing call leaves it in either or
\* in both.
Move(from, to) ==
    \/ rows = {from} /\ rows' = {to} /\ UNCHANGED spent
    \/ from \in rows /\ rows' \in {rows, rows \cup {to}, {to}} /\ Spend("db")

\* The handler returns when it finds no category, after the object was renamed.
EditOnlyWithCategory(pieces, word, category) ==
    LET edited == [name |-> replace(cached.name, pieces, word),
                   parent_id |-> category]
    IN  IF category = NoCategory
        THEN cached' = [cached EXCEPT !.name = edited.name] /\ UNCHANGED edits
        ELSE cached' = edited /\ edits' = Append(edits, edited)

\* set_name, set_parent_id and channel_edit.
Edit(pieces, word, category) ==
    LET edited == [name |-> replace(cached.name, pieces, word),
                   parent_id |-> IF category = NoCategory THEN cached.parent_id
                                 ELSE category]
    IN  /\ cached' = edited
        /\ edits' = Append(edits, edited)

-----------------------------------------------------------------------------
(* Wrong variants of some of the steps below, which no specification uses.     *)

\* open_task moves the channel to the category of the closed tasks.
OpenTaskAmongClosed ==
    /\ Receive("open_task")
    /\ Move("task_archive", "tasks")
    /\ Edit(3, TaskWord, config.closed_category_id)
    /\ hasty' = (hasty \/ InFlight)
    /\ UNCHANGED <<config, channel>>

\* open_task replaces as many characters as close_task.
OpenTaskShort ==
    /\ Receive("open_task")
    /\ Move("task_archive", "tasks")
    /\ Edit(2, TaskWord, config.open_category_id)
    /\ hasty' = (hasty \/ InFlight)
    /\ UNCHANGED <<config, channel>>

-----------------------------------------------------------------------------
(* The shard thread. *)

CloseTask ==
    /\ Receive("close_task")
    /\ Move("tasks", "task_archive")
    /\ Edit(2, ClosedWord, config.closed_category_id)
    /\ hasty' = (hasty \/ InFlight)
    /\ UNCHANGED <<config, channel>>

\* When get_config is among the calls that fail, the category is 0, as if there was none:
\* the channel is renamed and stays where it is.  (close_task finds no support roles
\* then and returns early.)
OpenTask ==
    /\ Receive("open_task")
    /\ Move("task_archive", "tasks")
    /\ \/ Edit(3, TaskWord, config.open_category_id)
       \/ spent' # spent /\ Edit(3, TaskWord, NoCategory)
    /\ hasty' = (hasty \/ InFlight)
    /\ UNCHANGED <<config, channel>>

\* The handler returns early: the row is not in its table, a query fails, a
\* permission or the configuration is missing.
Refuse ==
    /\ \E b \in Clicks : Receive(b)
    /\ UNCHANGED <<spent, config, rows, channel, cached, edits, hasty>>

\* D++ fills the object in its cache again.
OnChannelUpdate ==
    /\ Receive("CHANNEL_UPDATE")
    /\ cached' = Head(gateway).channel
    /\ UNCHANGED <<spent, config, rows, channel, edits, hasty>>

-----------------------------------------------------------------------------
(* The guild. *)

Click(b) ==
    /\ Spend("click")
    /\ gateway' = Append(gateway, [type |-> b])
    /\ UNCHANGED <<config, rows, channel, cached, edits, hasty>>

\* The channel becomes c; Discord tells the bot if that is a change.
Become(c) ==
    /\ channel' = c
    /\ gateway' = IF c = channel THEN gateway
                  ELSE Append(gateway, [type |-> "CHANNEL_UPDATE", channel |-> c])

ModeratorEdits ==
    /\ Spend("admin")
    /\ \/ \E n \in Renames : Become([channel EXCEPT !.name = n])
       \/ \E p \in Categories : Become([channel EXCEPT !.parent_id = p])
    /\ UNCHANGED <<config, rows, cached, edits, hasty>>

\* Whether the response gets to the bot makes no difference: the callback only reports.
RunEdit ==
    /\ edits # <<>>
    /\ edits' = Tail(edits)
    /\ Become(Head(edits))
    /\ UNCHANGED <<spent, config, rows, cached, hasty>>

\* The channel is rate limited, or any other failure that leaves it as it is: the
\* callback reports it, and the cached object stays as the handler left it.
FailEdit ==
    /\ edits # <<>>
    /\ edits' = Tail(edits)
    /\ Spend("rest")
    /\ UNCHANGED <<config, rows, channel, cached, gateway, hasty>>

\* The process dies and is started again; its cache is filled from the guild.
Crash ==
    /\ Spend("crash")
    /\ cached' = channel
    /\ gateway' = <<>>
    /\ edits' = <<>>
    /\ UNCHANGED <<config, rows, channel, hasty>>

Next ==
    \/ CloseTask \/ OpenTask \/ Refuse \/ OnChannelUpdate
    \/ \E b \in Clicks : Click(b)
    \/ ModeratorEdits
    \/ RunEdit \/ FailEdit
    \/ Crash

Spec == Init /\ [][Next]_vars

-----------------------------------------------------------------------------
(* Properties. *)

\* Handlers write to the cached object and moderators to the channel, and whoever
\* comes last overwrites the other.  Still the two agree in the end: once every
\* edit was carried out and every CHANNEL_UPDATE has come in, D++'s cache shows the
\* channel as it is - unless an edit was refused, for nothing takes it back.
CacheAgrees == ~InFlight /\ None("rest") => cached = channel

\* However the clicks overlap with the updates, the channel ends up in the category
\* that the configuration names for what the database says it is.
InItsCategory ==
    ~InFlight /\ (\A k \in {"admin", "db", "rest", "crash"} : None(k)) =>
        LET category == IF rows = {"tasks"} THEN config.open_category_id
                        ELSE config.closed_category_id
        IN  category # NoCategory => channel.parent_id = category

\* The name that the next handler cuts its word from is task-N as long as the task is
\* open and closed-N as long as it is closed, also when an edit was refused.  That
\* needs more than luck only if no handler has worked on an object that an update
\* was about to overwrite: close, open and close in quick succession yield
\* closeded-N, and a task that is opened under the name task-N loses its number.
NameFollows ==
    ~hasty /\ (\A k \in {"admin", "db", "crash"} : None(k)) =>
        cached.name = (IF rows = {"tasks"} THEN TaskWord ELSE ClosedWord) \o Number

=============================================================================
