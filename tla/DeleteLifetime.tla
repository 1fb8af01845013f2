---------------------------- MODULE DeleteLifetime ---------------------------
(***************************************************************************)
(* How long delete_task and open_task use the channel that they found in   *)
(* D++'s cache.                                                            *)
(*                                                                         *)
(* Both handlers capture the pointer cFind in callbacks.  In delete_task   *)
(* the callback of the followup reads cFind->id after Sleep(1500), and     *)
(* that of channel_delete reads cFind->name, if there is a log channel; in *)
(* open_task the callback of messages_get reads cFind->id.  All callbacks  *)
(* share one thread, so each of them waits for the sleeps of those before. *)
(*                                                                         *)
(* Meanwhile the channel may be deleted: CHANNEL_DELETE takes the object   *)
(* out of the cache, and D++'s garbage collection deletes it some time     *)
(* later.  When, its header does not say in one voice: "within the next 60 *)
(* seconds" (dpp/cache.h:90-93, 120-122), or when it was removed "over 60  *)
(* seconds ago" (dpp/cache.h:258-261).  So this module does not model the  *)
(* collection but what the bot is answerable for: how long after an object *)
(* has left the cache cFind may still be read.                             *)
(*                                                                         *)
(* Time passes in ticks.  A request takes Latency ticks at the most; what  *)
(* a handler does, and a callback besides sleeping, takes none; events     *)
(* take any time.                                                          *)
(***************************************************************************)
EXTENDS Budget, Sequences

CONSTANTS
    Channels,    \* the channels of closed tasks
    SleepTicks,  \* Sleep(1500)
    Latency

ASSUME TicksAssumption == SleepTicks \in Nat /\ Latency \in Nat

NoPress == 0

\* All sleeps, and one request.
Horizon == Limit["click"] * SleepTicks + Latency

VARIABLES
    exists,      \* the channels that are in the guild
    cached,      \* those whose objects are in D++'s cache
    age,         \* per channel, ticks since its object was taken out, up to Horizon + 1
    handlers,    \* the presses of Delete and Open, each with the progress of its handler
    completions, \* presses whose request has completed, for the callback thread
    asleep,      \* the press in whose callback that thread sleeps
    left,        \* ticks until it wakes up
    stalest      \* the greatest age at which cFind was read

vars == <<spent, exists, cached, age, handlers, completions, asleep, left, stalest>>

Stages ==
    {"followup", "followed", "sleeping", "delete", "deleted", "failed", "done"}
        \cup {"history", "fetched"} \* those of Open, which end with "done" as well

\* A press: waits is how long its current request has been under way, and since how
\* long ago cFind was captured.
Handler == [channel : Channels, stage : Stages, waits : 0..Latency, since : Nat]

Presses == DOMAIN handlers

TypeOK ==
    /\ BudgetTypeOK
    /\ exists \in SUBSET Channels
    /\ cached \in SUBSET Channels
    /\ age \in [Channels -> 0..(Horizon + 1)]
    /\ handlers \in Seq(Handler)
    /\ completions \in Seq(Presses)
    /\ asleep \in Presses \cup {NoPress}
    /\ left \in 0..SleepTicks
    /\ stalest \in 0..(Horizon + 1)

Init ==
    /\ BudgetInit
    /\ exists = Channels /\ cached = Channels
    /\ age = [c \in Channels |-> 0]
    /\ handlers = <<>> /\ completions = <<>>
    /\ asleep = NoPress /\ left = 0
    /\ stalest = 0

-----------------------------------------------------------------------------

cFind(i) == handlers[i].channel

Awake == asleep = NoPress

\* The press goes on to a stage; its next request, if there is one, starts.
Proceed(i, stage) ==
    handlers' = [handlers EXCEPT ![i].stage = stage, ![i].waits = 0]

\* The next completion that is called back is of press i, in this stage.
CallBack(i, stage) ==
    /\ Awake
    /\ completions # <<>>
    /\ i = Head(completions)
    /\ handlers[i].stage = stage
    /\ completions' = Tail(completions)

\* A request of press i ends.
Complete(i, from, to) ==
    /\ handlers[i].stage = from
    /\ Proceed(i, to)
    /\ completions' = Append(completions, i)

Read(i) == stalest' = IF age[cFind(i)] > stalest THEN age[cFind(i)] ELSE stalest

\* A handler makes its first request with a callback that captures cFind.
Press(c, stage) ==
    /\ Spend("click")
    /\ handlers' = Append(handlers,
                          [channel |-> c, stage |-> stage, waits |-> 0, since |-> 0])
    /\ UNCHANGED <<exists, cached, age, completions, asleep, left, stalest>>

-----------------------------------------------------------------------------
(* Wrong variants of some of the steps below, which no specification uses.     *)

\* The pointer comes from an earlier event, and is not looked up again.
DeleteTaskByOldPointer(c) == Press(c, "followup")

\* 15 seconds in place of 1.5.
OnFollowupSleepsLonger(i) ==
    /\ CallBack(i, "followed")
    /\ Proceed(i, "sleeping")
    /\ asleep' = i /\ left' = 10 * SleepTicks
    /\ UNCHANGED <<spent, exists, cached, age, stalest>>

\* A deletion that failed is tried again.
OnErrorRetries(i) ==
    /\ CallBack(i, "failed")
    /\ Proceed(i, "delete")
    /\ UNCHANGED <<spent, exists, cached, age, asleep, left, stalest>>

-----------------------------------------------------------------------------
(* The handler and its callbacks. *)

\* find_channel finds the channel, and the followup is requested.  (If it does not, the
\* handler returns early, as it does for a task that is not closed, and captures nothing.
\* Between two presses the task may be opened or closed, which is TaskLifecycle's matter.)
DeleteTask(c) == c \in cached /\ Press(c, "followup")

\* In the same way; what the handler does with cFind itself it does before it returns.
OpenTask(c) == c \in cached /\ Press(c, "history")

OnFollowup(i) ==
    /\ CallBack(i, "followed")
    /\ Proceed(i, "sleeping")
    /\ asleep' = i /\ left' = SleepTicks
    /\ UNCHANGED <<spent, exists, cached, age, stalest>>

\* bot.channel_delete(cFind->id, ...)
SleepEnds(i) ==
    /\ asleep = i /\ left = 0
    /\ Read(i)
    /\ Proceed(i, "delete")
    /\ asleep' = NoPress
    /\ UNCHANGED <<spent, exists, cached, age, completions, left>>

\* The log names the channel, cFind->name, if the log channel is configured and found.
OnDeleted(i) ==
    /\ CallBack(i, "deleted")
    /\ Proceed(i, "done")
    /\ Read(i) \/ UNCHANGED stalest
    /\ UNCHANGED <<spent, exists, cached, age, asleep, left>>

\* message_delete(iter.first, cFind->id) for each of the controls, if there are any; an
\* error is answered in the channel cFind->id.
OnMessages(i) ==
    /\ CallBack(i, "fetched")
    /\ Proceed(i, "done")
    /\ Read(i) \/ UNCHANGED stalest
    /\ UNCHANGED <<spent, exists, cached, age, asleep, left>>

\* Either callback of delete_task reports an error and does not read cFind.
OnError(i) ==
    /\ CallBack(i, "failed")
    /\ Proceed(i, "done")
    /\ UNCHANGED <<spent, exists, cached, age, asleep, left, stalest>>

-----------------------------------------------------------------------------
(* D++'s cache. *)

\* CHANNEL_DELETE: the object is removed from the cache, and its days are numbered.
OnChannelDelete(c) ==
    /\ c \in cached \ exists
    /\ cached' = cached \ {c}
    /\ UNCHANGED <<spent, exists, age, handlers, completions, asleep, left, stalest>>

-----------------------------------------------------------------------------
(* The guild. *)

RunFollowup(i) ==
    /\ Complete(i, "followup", "followed")
    /\ UNCHANGED <<spent, exists, cached, age, asleep, left, stalest>>

RunChannelDelete(i) ==
    /\ Complete(i, "delete", IF cFind(i) \in exists THEN "deleted" ELSE "failed")
    /\ exists' = exists \ {cFind(i)}
    /\ UNCHANGED <<spent, cached, age, asleep, left, stalest>>

\* messages_get is answered or fails: the callback reads cFind in both cases.
RunMessagesGet(i) ==
    /\ Complete(i, "history", "fetched")
    /\ UNCHANGED <<spent, exists, cached, age, asleep, left, stalest>>

\* The channel is deleted, and the response is lost.
LoseResponse(i) ==
    /\ Complete(i, "delete", "failed")
    /\ Spend("response")
    /\ exists' = exists \ {cFind(i)}
    /\ UNCHANGED <<cached, age, asleep, left, stalest>>

FailRequest(i) ==
    /\ Complete(i, "followup", "failed") \/ Complete(i, "delete", "failed")
    /\ Spend("rest")
    /\ UNCHANGED <<exists, cached, age, asleep, left, stalest>>

ModeratorDeletes(c) ==
    /\ Spend("admin")
    /\ c \in exists
    /\ exists' = exists \ {c}
    /\ UNCHANGED <<cached, age, handlers, completions, asleep, left, stalest>>

Requesting(i) == handlers[i].stage \in {"followup", "delete", "history"}

\* A tick passes.  No request takes longer than Latency, and the callback thread does
\* not rest while something waits for it.
Tick ==
    /\ \A i \in Presses : Requesting(i) => handlers[i].waits < Latency
    /\ IF Awake THEN completions = <<>> ELSE left > 0
    /\ left' = IF Awake THEN left ELSE left - 1
    /\ age' = [c \in Channels |->
                 IF c \notin cached /\ age[c] <= Horizon THEN age[c] + 1 ELSE age[c]]
    /\ handlers' = [i \in Presses |->
                       [handlers[i] EXCEPT
                          !.waits = IF Requesting(i) THEN @ + 1 ELSE @,
                          !.since = IF handlers[i].stage = "done" THEN @ ELSE @ + 1]]
    /\ UNCHANGED <<spent, exists, cached, completions, asleep, stalest>>

Next ==
    \/ \E c \in Channels :
          \/ DeleteTask(c) \/ OpenTask(c)
          \/ ModeratorDeletes(c) \/ OnChannelDelete(c)
    \/ \E i \in Presses :
          \/ OnFollowup(i) \/ SleepEnds(i) \/ OnDeleted(i) \/ OnError(i) \/ OnMessages(i)
          \/ RunFollowup(i) \/ RunChannelDelete(i) \/ RunMessagesGet(i)
          \/ LoseResponse(i) \/ FailRequest(i)
    \/ Tick

Spec == Init /\ [][Next]_vars

-----------------------------------------------------------------------------
(* Properties. *)

\* The longest that a press can take: two requests, its own sleep, and the sleeps of
\* all others of the run, each of which it can meet before its followup's callback or
\* before that of channel_delete, but not before both.
Longest == Limit["click"] * SleepTicks + 2 * Latency

\* However many presses share the callback thread, none takes longer than that.
Prompt == \A i \in Presses : handlers[i].since <= Longest

\* No callback reads cFind when its object has been out of the cache for longer than
\* all sleeps and one request: not after a press that began when it was out already,
\* nor in the second callback of delete_task, whatever waits before each of them.
\* If the cache keeps an object for a minute (dpp/cache.h:258-261), then 39 presses and
\* a request of 1.5 seconds fit into that; if it may delete it at any time within
\* the minute (dpp/cache.h:90-93, 120-122), then no age but 0 is safe.
ReadSoon == stalest <= Horizon

=============================================================================
