----------------------------- MODULE Connections ----------------------------
(***************************************************************************)
(* The connections to test.db.                                             *)
(*                                                                         *)
(* Every function of database_manager opens a connection of its own.  Four *)
(* of them call sqlite3_close before sqlite3_finalize; SQLite refuses to   *)
(* close a connection that has a prepared statement, so it stays open      *)
(* until the process ends.  When there are as many connections as the      *)
(* process can have, sqlite3_open fails, which the functions report as no. *)
(*                                                                         *)
(* The model follows the calls of each handler and forgets the rows: a     *)
(* call that could open its connection answers either way.                 *)
(***************************************************************************)
EXTENDS Budget

CONSTANT MaxConnections   \* as many as one process can have

ASSUME MaxConnectionsAssumption == MaxConnections \in Nat \ {0}

VARIABLES
    thread,   \* per thread, the call of a handler that it is at
    held,     \* connections that are open for good
    queued,   \* create_task's callbacks that the callback thread has not begun
    handled,  \* events that the process has begun to handle
    refused   \* whether sqlite3_open has failed

vars == <<spent, thread, held, queued, handled, refused>>

Threads == {"shard", "callbacks"}

-----------------------------------------------------------------------------
(* The calls of the handlers, in order. *)

Any == {"yes", "no"}

\* In each handler a call whose answer is among answers is followed by the call next;
\* after any other answer the handler makes no more calls.
Goes(call, answers, next) == {<<call, a, next>> : a \in answers}

create_task == Goes("find_config", {"yes"}, "get_config")

on_created == Goes("add_task", {"yes"}, "update_count_tasks")

close_task ==
    Goes("find_archived_task", {"no"}, "find_task")
        \cup Goes("find_task", {"yes"}, "find_config")
        \cup Goes("find_config", {"yes"}, "get_config")
        \cup Goes("get_config", Any, "get_task_creator_id")
        \cup Goes("get_task_creator_id", Any, "archive_task")
        \cup Goes("archive_task", {"yes"}, "delete_task")

open_task ==
    Goes("find_task", {"no"}, "find_archived_task")
        \cup Goes("find_archived_task", {"yes"}, "find_config")
        \cup Goes("find_config", {"yes"}, "get_config")
        \cup Goes("get_config", Any, "get_archived_task_creator_id")
        \cup Goes("get_archived_task_creator_id", Any, "add_task")
        \cup Goes("add_task", {"yes"}, "delete_archived_task")

delete_task ==
    Goes("find_archived_task", {"yes"}, "find_config")
        \cup Goes("find_config", {"yes"}, "get_config")

on_channel_delete ==
    Goes("find_task", {"yes"}, "delete_task")
        \cup Goes("find_task", {"no"}, "find_archived_task")
        \cup Goes("find_archived_task", {"yes"}, "delete_archived_task")

setconfig ==
    Goes("find_config", {"yes"}, "delete_config")
        \cup Goes("delete_config", {"yes"}, "add_config")
        \cup Goes("find_config", {"no"}, "add_config")

sendpanel == Goes("find_config", {"yes"}, "get_config")

\* By event, the calls of its handler, and the one that it begins with.
Calls ==
    [create_task |-> create_task, close_task |-> close_task, open_task |-> open_task,
     delete_task |-> delete_task, on_channel_delete |-> on_channel_delete,
     setconfig |-> setconfig, sendpanel |-> sendpanel, on_created |-> on_created]

First ==
    [create_task |-> "find_config", close_task |-> "find_archived_task",
     open_task |-> "find_task", delete_task |-> "find_archived_task",
     on_channel_delete |-> "find_task", setconfig |-> "find_config",
     sendpanel |-> "find_config", on_created |-> "add_task"]

Handlers == DOMAIN First

Functions ==
    {"find_config", "get_config", "add_config", "delete_config", "update_count_tasks",
     "find_task", "add_task", "delete_task", "get_task_creator_id",
     "find_archived_task", "archive_task", "delete_archived_task",
     "get_archived_task_creator_id"}

\* find_task finalizes after it has closed the connection, too.
LeakingInFindTask ==
    {"delete_config", "get_task_creator_id", "update_count_tasks",
     "get_archived_task_creator_id", "find_task"}

\* archive_task finalizes after it has closed the connection, too.
LeakingInArchiveTask ==
    {"delete_config", "get_task_creator_id", "update_count_tasks",
     "get_archived_task_creator_id", "archive_task"}

\* The functions that close before they finalize.
Leaking ==
    {"delete_config", "get_task_creator_id", "update_count_tasks",
     "get_archived_task_creator_id"}

-----------------------------------------------------------------------------

Idle == [at |-> "idle"]

\* The thread is about to open the connection of a call, or has opened it.
Calling(handler, call) == [at |-> "calling", handler |-> handler, call |-> call]

Connected(handler, call) == [at |-> "connected", handler |-> handler, call |-> call]

Busy == [at : {"calling", "connected"}, handler : Handlers, call : Functions]

TypeOK ==
    /\ BudgetTypeOK
    /\ thread \in [Threads -> {Idle} \cup Busy]
    /\ held \in Nat
    /\ queued \in Nat
    /\ handled \in Nat
    /\ refused \in BOOLEAN

Init ==
    /\ BudgetInit
    /\ thread = [t \in Threads |-> Idle]
    /\ held = 0 /\ queued = 0 /\ handled = 0
    /\ refused = FALSE

Other(t) == IF t = "shard" THEN "callbacks" ELSE "shard"

\* All connections are in use: those held for good and that of the other thread.
Exhausted(t) ==
    held + (IF thread[Other(t)].at = "connected" THEN 1 ELSE 0) >= MaxConnections

\* The handler that t runs has got an answer: it makes the next call, or returns.  Its
\* other checks follow get_config and may make it return as well.
GoOn(t, answer) ==
    LET h == thread[t].handler
        c == thread[t].call
        next == {n \in Functions : <<c, answer, n>> \in Calls[h]}
    IN  \/ \E n \in next : thread' = [thread EXCEPT ![t] = Calling(h, n)]
        \/ /\ next = {} \/ c = "get_config"
          /\ thread' = [thread EXCEPT ![t] = Idle]

-----------------------------------------------------------------------------

\* An event comes in on the shard thread.
OnEvent(h) ==
    /\ h # "on_created"
    /\ thread["shard"] = Idle
    /\ Spend("click")
    /\ thread' = [thread EXCEPT !["shard"] = Calling(h, First[h])]
    /\ handled' = handled + 1
    /\ UNCHANGED <<held, queued, refused>>

\* create_task requests the channel after its last call; the callback will come.
RequestChannel ==
    /\ thread["shard"].at = "connected"
    /\ thread["shard"].handler = "create_task" /\ thread["shard"].call = "get_config"
    /\ thread' = [thread EXCEPT !["shard"] = Idle]
    /\ queued' = queued + 1
    /\ UNCHANGED <<spent, held, handled, refused>>

\* Wrong variant of the next step: the callback runs without a request.
OnCreatedUnasked ==
    /\ thread["callbacks"] = Idle
    /\ queued' = queued - 1
    /\ thread' = [thread EXCEPT !["callbacks"] = Calling("on_created", First.on_created)]
    /\ UNCHANGED <<spent, held, handled, refused>>

\* The callback of channel_create; it makes no call if the request has failed.
OnCreated ==
    /\ thread["callbacks"] = Idle
    /\ queued > 0
    /\ queued' = queued - 1
    /\ \/ thread' = [thread EXCEPT !["callbacks"] = Calling("on_created", First.on_created)]
          /\ UNCHANGED spent
       \/ Spend("rest") /\ UNCHANGED thread
    /\ UNCHANGED <<held, handled, refused>>

Open(t) ==
    /\ thread[t].at = "calling"
    /\ ~Exhausted(t)
    /\ thread' = [thread EXCEPT ![t].at = "connected"]
    /\ UNCHANGED <<spent, held, queued, handled, refused>>

\* sqlite3_open fails: the function answers no; what it had opened is closed.
OpenFails(t) ==
    /\ thread[t].at = "calling"
    /\ Exhausted(t)
    /\ refused' = TRUE
    /\ GoOn(t, "no")
    /\ UNCHANGED <<spent, held, queued, handled>>

\* The statement is prepared and executed, and the connection closed or held for good.
Close(t) ==
    /\ thread[t].at = "connected"
    /\ \E answer \in Any : GoOn(t, answer)
    /\ held' = IF thread[t].call \in Leaking THEN held + 1 ELSE held
    /\ UNCHANGED <<spent, queued, handled, refused>>

\* The statement cannot be prepared: there is nothing to finalize, and the connection
\* is closed by all functions.
PrepareFails(t) ==
    /\ thread[t].at = "connected"
    /\ Spend("db")
    /\ GoOn(t, "no")
    /\ UNCHANGED <<held, queued, handled, refused>>

\* The process dies, with its connections, and is started again.
Crash ==
    /\ Spend("crash")
    /\ thread' = [t \in Threads |-> Idle]
    /\ held' = 0 /\ queued' = 0 /\ handled' = 0
    /\ refused' = FALSE

Next ==
    \/ \E h \in Handlers : OnEvent(h)
    \/ RequestChannel \/ OnCreated
    \/ \E t \in Threads : Open(t) \/ OpenFails(t) \/ Close(t) \/ PrepareFails(t)
    \/ Crash

Spec == Init /\ [][Next]_vars

-----------------------------------------------------------------------------
(* Properties. *)

\* No event costs more than one connection, whichever handler it is for, its callback
\* included, and however it ends.
OneLeakPerEvent == held <= handled

\* Nobody is told that a task or a configuration does not exist for want of a
\* connection before the process has begun to handle as many events as it may
\* have connections, although two threads use them at a time.
RefusedLate == refused => handled >= MaxConnections

=============================================================================
