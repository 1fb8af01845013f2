----------------------------- MODULE TaskTables -----------------------------
(***************************************************************************)
(* database_manager's tables tasks and task_archive.                       *)
(*                                                                         *)
(* A table is the sequence of rows it holds for each channel, in rowid     *)
(* order: no column but channel_id is ever used in a WHERE clause, and no  *)
(* UNIQUE constraint stops a channel from having several rows.  Of a row   *)
(* only creator_id is ever read back, so a row is its creator; NoUser is   *)
(* the 0 that a getter returns when it finds no row or its query fails.    *)
(*                                                                         *)
(* Each function of the class opens its own connection and runs one        *)
(* statement in autocommit mode, hence every operator below is one atomic  *)
(* step.  A call may also fail (SQLITE_BUSY from the other thread's        *)
(* connection, an error of open, prepare or step): the callers model that, *)
(* since what the failure means is decided there.                          *)
(***************************************************************************)
EXTENDS Naturals, Sequences

CONSTANTS Channels, Users, NoUser

ASSUME NoUserAssumption == NoUser \notin Users

VARIABLES tasks, task_archive

Creator == Users \cup {NoUser}

Table == [Channels -> Seq(Creator)]

TablesTypeOK ==
    /\ tasks \in Table
    /\ task_archive \in Table

TablesInit ==
    /\ tasks = [c \in Channels |-> <<>>]
    /\ task_archive = [c \in Channels |-> <<>>]

\* Wrong variants of the functions below, which no specification uses: a getter
\* that reads no column, and statements without their WHERE clause.
get_no_creator(c) == NoUser

get_any_creator(c) ==
    IF \E d \in Channels : tasks[d] # <<>>
    THEN Head(tasks[CHOOSE d \in Channels : tasks[d] # <<>>])
    ELSE NoUser

delete_all_tasks(c) == tasks' = [d \in Channels |-> <<>>]

find_task(c) == tasks[c] # <<>>

find_archived_task(c) == task_archive[c] # <<>>

get_task_creator_id(c) == IF find_task(c) THEN Head(tasks[c]) ELSE NoUser

get_archived_task_creator_id(c) ==
    IF find_archived_task(c) THEN Head(task_archive[c]) ELSE NoUser

add_task(c, creator) == tasks' = [tasks EXCEPT ![c] = Append(@, creator)]

archive_task(c, creator) ==
    task_archive' = [task_archive EXCEPT ![c] = Append(@, creator)]

\* DELETE ... WHERE channel_id removes every row of the channel.
delete_task(c) == tasks' = [tasks EXCEPT ![c] = <<>>]

delete_archived_task(c) == task_archive' = [task_archive EXCEPT ![c] = <<>>]

\* The database knows the channel, as an open task, a closed one or both.
Recorded(c) == find_task(c) \/ find_archived_task(c)

=============================================================================
