------------------------- MODULE ConnectionsProofs --------------------------
(* Proofs about Connections, for any number of connections, events and faults. *)
EXTENDS Connections, CommonLemmas

\* What the two threads run: channel_create's callback runs on the callback thread only.
ThreadsInv ==
    /\ thread["shard"] # Idle => thread["shard"].handler # "on_created"
    /\ thread["callbacks"] # Idle =>
          /\ thread["callbacks"].handler = "on_created"
          /\ thread["callbacks"].call \in {"add_task", "update_count_tasks"}

\* The calls that follow a leaking one, and those that only follow where none leaks.
Late == {"archive_task", "delete_task", "add_task", "delete_archived_task", "add_config"}

\* The event that a thread handles may still cost a connection.
MayLeak(t) ==
    IF thread[t] = Idle THEN FALSE
    ELSE t = "callbacks" \/ thread[t].call \notin Late

Owed(t) == IF MayLeak(t) THEN 1 ELSE 0

\* Each event pays for one connection: one that it has cost, or may cost here or in
\* the callback that it has requested.
PaidFor == held + queued + Owed("shard") + Owed("callbacks") <= handled

LeakInv == TypeOK /\ ThreadsInv /\ PaidFor

-----------------------------------------------------------------------------
(* The tables of calls. *)

\* A call of the shard thread that leaks, or comes after one, is followed by calls that
\* do not.
LEMMA LateFollows ==
    ASSUME NEW h \in Handlers \ {"on_created"}, NEW c \in Functions, NEW a \in Any,
           NEW n \in Functions, <<c, a, n>> \in Calls[h],
           c \in Late \/ c \in Leaking
    PROVE  n \in Late
  BY SMTT(60) DEF Handlers, First, Functions, Any, Calls, Goes, Late, Leaking, create_task,
       close_task, open_task, delete_task, on_channel_delete, setconfig, sendpanel

\* After add_task the callback calls update_count_tasks, and nothing after that.
LEMMA CallbackFollows ==
    ASSUME NEW c \in Functions, NEW a \in Any, NEW n \in Functions,
           <<c, a, n>> \in Calls["on_created"]
    PROVE  c = "add_task" /\ n = "update_count_tasks"
  BY DEF Functions, Any, Calls, Goes, on_created

\* Nothing but a leaking call leaks, and none of them is late.
LEMMA LeakingEarly == Leaking \cap Late = {}
  BY DEF Leaking, Late

-----------------------------------------------------------------------------
(* Steps of a handler. *)

\* A thread that is at a call is not idle, and knows its handler and its call.
LEMMA AtACall ==
    ASSUME TypeOK, NEW t \in Threads, thread[t].at \in {"calling", "connected"}
    PROVE  thread[t] \in Busy /\ thread[t] # Idle
  BY DEF TypeOK, Idle

\* A handler that is about to make a call.
LEMMA AboutTo ==
    \A h, n : /\ Calling(h, n).at = "calling"
              /\ Calling(h, n).handler = h
              /\ Calling(h, n).call = n
  BY DEF Calling

\* Where a handler is after an answer.
LEMMA WentOn ==
    ASSUME TypeOK, NEW t \in Threads, thread[t] \in Busy, NEW a \in Any, GoOn(t, a)
    PROVE  /\ thread' \in [Threads -> {Idle} \cup Busy]
           /\ thread'[Other(t)] = thread[Other(t)]
           /\ \/ thread'[t] = Idle
              \/ \E n \in Functions :
                    /\ <<thread[t].call, a, n>> \in Calls[thread[t].handler]
                    /\ thread'[t] = Calling(thread[t].handler, n)
<1> DEFINE h == thread[t].handler
           c == thread[t].call
           next == {n \in Functions : <<c, a, n>> \in Calls[h]}
<1>1. thread \in [Threads -> {Idle} \cup Busy] /\ h \in Handlers /\ c \in Functions
  BY DEF TypeOK, Busy
<1>2. Other(t) \in Threads /\ Other(t) # t
  BY DEF Other, Threads
<1>3. CASE thread' = [thread EXCEPT ![t] = Idle]
  BY <1>1, <1>2, <1>3
<1>4. ASSUME NEW n \in next, thread' = [thread EXCEPT ![t] = Calling(h, n)]
      PROVE  /\ thread' \in [Threads -> {Idle} \cup Busy]
             /\ thread'[Other(t)] = thread[Other(t)]
             /\ thread'[t] = Calling(h, n)
  <2>1. Calling(h, n) \in Busy
    BY <1>1 DEF Calling, Busy
  <2> QED BY <1>1, <1>2, <1>4, <2>1
<1> QED BY <1>3, <1>4 DEF GoOn

\* A handler on the shard thread goes on as one, and leaks nothing after a leaking call.
LEMMA ShardWentOn ==
    ASSUME LeakInv, thread["shard"] \in Busy, NEW a \in Any, GoOn("shard", a)
    PROVE  /\ thread' \in [Threads -> {Idle} \cup Busy]
           /\ ThreadsInv'
           /\ Owed("callbacks")' = Owed("callbacks")
           /\ Owed("shard")' \in {0, 1}
           /\ thread["shard"].call \in Late \cup Leaking => Owed("shard")' = 0
<1> DEFINE h == thread["shard"].handler
           c == thread["shard"].call
<1>1. h \in Handlers \ {"on_created"} /\ c \in Functions /\ thread["shard"] # Idle
  BY DEF LeakInv, ThreadsInv, Busy, Idle
<1>2. /\ thread' \in [Threads -> {Idle} \cup Busy]
      /\ thread'["callbacks"] = thread["callbacks"]
      /\ \/ thread'["shard"] = Idle
         \/ \E n \in Functions : /\ <<c, a, n>> \in Calls[h]
                                 /\ thread'["shard"] = Calling(h, n)
  BY WentOn DEF LeakInv, Threads, Other
<1>3. ThreadsInv'
  <2>1. thread'["shard"] = Idle \/ thread'["shard"].handler = h
    <3>1. ASSUME NEW n \in Functions, thread'["shard"] = Calling(h, n)
          PROVE  thread'["shard"].handler = h
      <4> HIDE DEF h
      <4> QED BY <3>1, AboutTo
    <3> QED BY <1>2, <3>1, Zenon
  <2> QED BY <1>1, <1>2, <2>1 DEF LeakInv, ThreadsInv
<1>4. Owed("callbacks")' = Owed("callbacks")
  BY <1>2 DEF Owed, MayLeak
<1>5. ASSUME c \in Late \cup Leaking
      PROVE  Owed("shard")' = 0
  <2>1. thread'["shard"] = Idle \/ thread'["shard"].call \in Late
    <3>1. ASSUME NEW n \in Functions, <<c, a, n>> \in Calls[h]
          PROVE  n \in Late
      BY <1>1, <1>5, <3>1, LateFollows
    <3>2. ASSUME NEW n \in Functions, thread'["shard"] = Calling(h, n)
          PROVE  thread'["shard"].call = n
      BY <3>2, AboutTo, Zenon
    <3> QED BY <1>2, <3>1, <3>2, Zenon
  <2> QED BY <2>1 DEF Owed, MayLeak
<1> QED BY <1>2, <1>3, <1>4, <1>5 DEF Owed

\* The callback goes on to update_count_tasks or ends.
LEMMA CallbackWentOn ==
    ASSUME LeakInv, thread["callbacks"] \in Busy, NEW a \in Any, GoOn("callbacks", a)
    PROVE  /\ thread' \in [Threads -> {Idle} \cup Busy]
           /\ ThreadsInv'
           /\ Owed("shard")' = Owed("shard")
           /\ Owed("callbacks")' \in {0, 1}
           /\ thread["callbacks"].call \in Leaking => Owed("callbacks")' = 0
<1> DEFINE c == thread["callbacks"].call
<1>1. /\ thread["callbacks"].handler = "on_created" /\ c \in Functions
      /\ thread["callbacks"] # Idle /\ c \in {"add_task", "update_count_tasks"}
  BY DEF LeakInv, ThreadsInv, Busy, Idle
<1>2. /\ thread' \in [Threads -> {Idle} \cup Busy]
      /\ thread'["shard"] = thread["shard"]
      /\ \/ thread'["callbacks"] = Idle
         \/ \E n \in Functions : /\ <<c, a, n>> \in Calls["on_created"]
                                 /\ thread'["callbacks"] = Calling("on_created", n)
  BY <1>1, WentOn DEF LeakInv, Threads, Other
<1>3. \/ thread'["callbacks"] = Idle
      \/ /\ c = "add_task"
         /\ thread'["callbacks"] = Calling("on_created", "update_count_tasks")
  BY <1>1, <1>2, CallbackFollows
<1>4. ThreadsInv'
  BY <1>2, <1>3 DEF LeakInv, ThreadsInv, Calling
<1>5. Owed("shard")' = Owed("shard")
  BY <1>2 DEF Owed, MayLeak
<1>6. ASSUME c \in Leaking
      PROVE  Owed("callbacks")' = 0
  BY <1>3, <1>6 DEF Owed, MayLeak, Leaking
<1> QED BY <1>2, <1>4, <1>5, <1>6 DEF Owed

-----------------------------------------------------------------------------
(* The invariant. *)

\* A call of either thread ends, with its connection held for good or not.
LEMMA CallEnds ==
    ASSUME LeakInv, NEW t \in Threads, thread[t] \in Busy, NEW a \in Any, GoOn(t, a),
           UNCHANGED <<queued, handled>>,
           \/ held' = held
           \/ held' = held + 1 /\ thread[t].call \in Leaking
    PROVE  /\ thread' \in [Threads -> {Idle} \cup Busy] /\ held' \in Nat
           /\ ThreadsInv' /\ PaidFor'
<1>1. CASE t = "shard"
  <2>1. /\ thread' \in [Threads -> {Idle} \cup Busy] /\ ThreadsInv'
        /\ Owed("callbacks")' = Owed("callbacks")
        /\ Owed("shard")' \in {0, 1}
        /\ thread["shard"].call \in Late \cup Leaking => Owed("shard")' = 0
    BY <1>1, ShardWentOn
  <2>2. thread["shard"].call \notin Late => Owed("shard") = 1
    BY <1>1 DEF Owed, MayLeak, Busy, Idle
  <2>3. Owed("shard") \in {0, 1} /\ Owed("callbacks") \in {0, 1}
    BY DEF Owed
  <2> QED BY <1>1, <2>1, <2>2, <2>3, LeakingEarly DEF LeakInv, TypeOK, PaidFor
<1>2. CASE t = "callbacks"
  <2>1. /\ thread' \in [Threads -> {Idle} \cup Busy] /\ ThreadsInv'
        /\ Owed("shard")' = Owed("shard")
        /\ Owed("callbacks")' \in {0, 1}
        /\ thread["callbacks"].call \in Leaking => Owed("callbacks")' = 0
    BY <1>2, CallbackWentOn
  <2>2. Owed("callbacks") = 1
    BY <1>2 DEF Owed, MayLeak, Busy, Idle
  <2>3. Owed("shard") \in {0, 1}
    BY DEF Owed
  <2> QED BY <1>2, <2>1, <2>2, <2>3 DEF LeakInv, TypeOK, PaidFor
<1> QED BY <1>1, <1>2 DEF Threads

LEMMA LeakInit == Init => LeakInv
<1> SUFFICES ASSUME Init PROVE LeakInv
  OBVIOUS
<1>1. thread["shard"] = Idle /\ thread["callbacks"] = Idle
  BY DEF Init, Threads
<1>2. TypeOK
  BY DEF Init, TypeOK, BudgetInit, BudgetTypeOK
<1>3. ThreadsInv /\ PaidFor
  BY <1>1 DEF Init, ThreadsInv, PaidFor, Owed, MayLeak
<1> QED BY <1>2, <1>3 DEF LeakInv

LEMMA LeakStep == LeakInv /\ [Next]_vars => LeakInv'
<1> SUFFICES ASSUME LeakInv, [Next]_vars
             PROVE  LeakInv'
  OBVIOUS
<1> USE DEF LeakInv
<1>0. /\ thread \in [Threads -> {Idle} \cup Busy]
      /\ held \in Nat /\ queued \in Nat /\ handled \in Nat /\ refused \in BOOLEAN
      /\ "shard" \in Threads /\ "callbacks" \in Threads
  BY DEF TypeOK, Threads
<1>1. ASSUME NEW e \in Handlers, OnEvent(e)
      PROVE  LeakInv'
  <2>1. BudgetTypeOK'
    BY <1>1, SpendType DEF OnEvent, TypeOK, Kinds
  <2>2. Calling(e, First[e]) \in Busy
    BY DEF Calling, Busy, Handlers, First, Functions
  <2>3. /\ thread' \in [Threads -> {Idle} \cup Busy]
        /\ thread'["shard"] = Calling(e, First[e])
        /\ thread'["callbacks"] = thread["callbacks"]
    BY <1>0, <1>1, <2>2 DEF OnEvent
  <2>4. TypeOK'
    BY <1>0, <1>1, <2>1, <2>3 DEF OnEvent, TypeOK
  <2>5. ThreadsInv'
    BY <1>1, <2>3, AboutTo DEF OnEvent, ThreadsInv
  <2>6. /\ Owed("shard") = 0 /\ Owed("shard")' \in {0, 1}
        /\ Owed("callbacks")' = Owed("callbacks") /\ Owed("callbacks") \in {0, 1}
    BY <1>1, <2>3 DEF OnEvent, Owed, MayLeak
  <2>7. PaidFor'
    BY <1>0, <1>1, <2>6 DEF OnEvent, PaidFor
  <2> QED BY <2>4, <2>5, <2>7
<1>2. CASE RequestChannel
  <2>1. thread["shard"] \in Busy /\ thread["shard"] # Idle
    BY <1>0, <1>2, AtACall DEF RequestChannel
  <2>2. /\ thread' \in [Threads -> {Idle} \cup Busy]
        /\ thread'["shard"] = Idle /\ thread'["callbacks"] = thread["callbacks"]
    BY <1>0, <1>2 DEF RequestChannel
  <2>3. TypeOK' /\ ThreadsInv'
    BY <1>0, <1>2, <2>2 DEF RequestChannel, TypeOK, BudgetTypeOK, ThreadsInv
  <2>4. /\ Owed("shard") = 1 /\ Owed("shard")' = 0
        /\ Owed("callbacks")' = Owed("callbacks") /\ Owed("callbacks") \in {0, 1}
    BY <1>2, <2>1, <2>2 DEF RequestChannel, Owed, MayLeak, Late
  <2> QED BY <1>0, <1>2, <2>3, <2>4 DEF RequestChannel, PaidFor
<1>3. CASE OnCreated
  <2>1. /\ BudgetTypeOK'
        /\ \/ thread' = [thread EXCEPT !["callbacks"] = Calling("on_created", "add_task")]
           \/ thread' = thread
    BY <1>3, SpendType DEF OnCreated, TypeOK, BudgetTypeOK, Kinds, First
  <2>2. Calling("on_created", "add_task") \in Busy
    BY DEF Calling, Busy, Handlers, First, Functions
  <2>3. /\ thread' \in [Threads -> {Idle} \cup Busy]
        /\ thread'["callbacks"] \in {Idle, Calling("on_created", "add_task")}
        /\ thread'["shard"] = thread["shard"]
    BY <1>0, <1>3, <2>1, <2>2 DEF OnCreated
  <2>4. TypeOK' /\ ThreadsInv'
    BY <1>0, <1>3, <2>1, <2>3, AboutTo DEF OnCreated, TypeOK, ThreadsInv
  <2>5. /\ Owed("callbacks") = 0 /\ Owed("callbacks")' \in {0, 1}
        /\ Owed("shard")' = Owed("shard") /\ Owed("shard") \in {0, 1}
    BY <1>3, <2>3 DEF OnCreated, Owed, MayLeak
  <2> QED BY <1>0, <1>3, <2>4, <2>5 DEF OnCreated, PaidFor
<1>4. ASSUME NEW t \in Threads, Open(t)
      PROVE  LeakInv'
  <2>1. thread[t] \in Busy /\ thread[t] # Idle
    BY <1>4, AtACall DEF Open
  <2>2. PICK h \in Handlers, c \in Functions :
           /\ thread[t] = Calling(h, c)
           /\ thread' = [thread EXCEPT ![t] = Connected(h, c)]
    <3>1. ASSUME NEW r \in Busy
          PROVE  [r EXCEPT !.at = "connected"] = Connected(r.handler, r.call)
      BY DEF Busy, Connected
    <3>2. /\ thread[t].at = "calling" /\ thread[t].handler \in Handlers
          /\ thread[t].call \in Functions
          /\ thread[t] = Calling(thread[t].handler, thread[t].call)
      BY <1>4, <2>1 DEF Open, Busy, Calling
    <3>3. thread' = [thread EXCEPT ![t] = Connected(thread[t].handler, thread[t].call)]
      BY <1>4, <2>1, <3>1 DEF Open
    <3> QED BY <3>2, <3>3
  <2>3. /\ Connected(h, c) \in Busy /\ Connected(h, c) # Idle
        /\ Connected(h, c).handler = h /\ Connected(h, c).call = c
    BY DEF Connected, Busy, Idle
  <2>4. /\ thread' \in [Threads -> {Idle} \cup Busy]
        /\ \A s \in Threads : /\ thread'[s] = Idle <=> thread[s] = Idle
                              /\ thread[s] # Idle => /\ thread'[s].handler = thread[s].handler
                                                     /\ thread'[s].call = thread[s].call
    BY <1>0, <2>1, <2>2, <2>3, AboutTo
  <2>5. TypeOK' /\ ThreadsInv'
    BY <1>0, <1>4, <2>4 DEF Open, TypeOK, BudgetTypeOK, ThreadsInv
  <2>6. Owed("shard")' = Owed("shard") /\ Owed("callbacks")' = Owed("callbacks")
    BY <1>0, <2>4 DEF Owed, MayLeak
  <2> QED BY <1>4, <2>5, <2>6 DEF Open, PaidFor
<1>5. ASSUME NEW t \in Threads, OpenFails(t)
      PROVE  LeakInv'
  <2>1. thread[t] \in Busy
    BY <1>5, AtACall DEF OpenFails
  <2>2. thread' \in [Threads -> {Idle} \cup Busy] /\ ThreadsInv' /\ PaidFor'
    BY <1>5, <2>1, CallEnds DEF OpenFails, Any
  <2> QED BY <1>0, <1>5, <2>2 DEF OpenFails, TypeOK, BudgetTypeOK
<1>6. ASSUME NEW t \in Threads, Close(t)
      PROVE  LeakInv'
  <2>1. thread[t] \in Busy
    BY <1>6, AtACall DEF Close
  <2>2. /\ thread' \in [Threads -> {Idle} \cup Busy] /\ held' \in Nat
        /\ ThreadsInv' /\ PaidFor'
    BY <1>6, <2>1, CallEnds DEF Close
  <2> QED BY <1>0, <1>6, <2>2 DEF Close, TypeOK, BudgetTypeOK
<1>7. ASSUME NEW t \in Threads, PrepareFails(t)
      PROVE  LeakInv'
  <2>1. thread[t] \in Busy
    BY <1>7, AtACall DEF PrepareFails
  <2>2. thread' \in [Threads -> {Idle} \cup Busy] /\ ThreadsInv' /\ PaidFor'
    BY <1>7, <2>1, CallEnds DEF PrepareFails, Any
  <2>3. BudgetTypeOK'
    BY <1>7, SpendType DEF PrepareFails, TypeOK, Kinds
  <2> QED BY <1>0, <1>7, <2>2, <2>3 DEF PrepareFails, TypeOK
<1>8. CASE Crash
  <2>1. BudgetTypeOK'
    BY <1>8, SpendType DEF Crash, TypeOK, Kinds
  <2>2. thread'["shard"] = Idle /\ thread'["callbacks"] = Idle
    BY <1>0, <1>8 DEF Crash
  <2>3. TypeOK'
    BY <1>8, <2>1 DEF Crash, TypeOK
  <2>4. ThreadsInv' /\ Owed("shard")' = 0 /\ Owed("callbacks")' = 0
    BY <2>2 DEF ThreadsInv, Owed, MayLeak
  <2> QED BY <1>8, <2>3, <2>4 DEF Crash, PaidFor
<1>9. CASE UNCHANGED vars
  <2>1. Owed("shard")' = Owed("shard") /\ Owed("callbacks")' = Owed("callbacks")
    BY <1>9 DEF vars, Owed, MayLeak
  <2> QED BY <1>9, <2>1 DEF vars, TypeOK, BudgetTypeOK, ThreadsInv, PaidFor
<1> QED BY <1>1, <1>2, <1>3, <1>4, <1>5, <1>6, <1>7, <1>8, <1>9 DEF Next

-----------------------------------------------------------------------------
(* The theorems. *)

\* The variables have their types, whatever the two threads do.
THEOREM TypeCorrect == Spec => []TypeOK
<1>1. LeakInv => TypeOK
  BY DEF LeakInv
<1> QED BY LeakInit, LeakStep, <1>1, PTL DEF Spec

LEMMA PaidForLeaks == LeakInv => OneLeakPerEvent
  BY DEF LeakInv, TypeOK, PaidFor, Owed, OneLeakPerEvent

\* No event costs more than one connection, through all handlers, callbacks and failures.
THEOREM LeaksAreSlow == Spec => []OneLeakPerEvent
  BY LeakInit, LeakStep, PaidForLeaks, PTL DEF Spec

\* A connection is refused only when all of them are in use; the event of the callback
\* thread has not cost its connection yet while it uses one.
LEMMA RefusedStep ==
    ASSUME LeakInv, RefusedLate, [Next]_vars
    PROVE  RefusedLate'
<1>1. /\ held \in Nat /\ queued \in Nat /\ handled \in Nat
      /\ Owed("shard") \in {0, 1} /\ Owed("callbacks") \in {0, 1}
      /\ held + queued + Owed("shard") + Owed("callbacks") <= handled
  BY DEF LeakInv, TypeOK, PaidFor, Owed
<1>2. ASSUME NEW t \in Threads, OpenFails(t)
      PROVE  RefusedLate'
  <2>1. thread["callbacks"].at \in {"calling", "connected"} => Owed("callbacks") = 1
    BY AtACall DEF LeakInv, Threads, Owed, MayLeak
  <2>2. CASE t = "shard"
    <3>1. \/ held >= MaxConnections
          \/ thread["callbacks"].at = "connected" /\ held + 1 >= MaxConnections
      BY <1>1, <1>2, <2>2, MaxConnectionsAssumption DEF OpenFails, Exhausted, Other
    <3> QED BY <1>1, <1>2, <2>1, <3>1, MaxConnectionsAssumption DEF OpenFails, RefusedLate
  <2>3. CASE t = "callbacks"
    <3>1. held + 1 >= MaxConnections
      BY <1>1, <1>2, <2>3, MaxConnectionsAssumption DEF OpenFails, Exhausted, Other
    <3>2. Owed("callbacks") = 1
      BY <1>2, <2>1, <2>3 DEF OpenFails
    <3> QED BY <1>1, <1>2, <3>1, <3>2, MaxConnectionsAssumption DEF OpenFails, RefusedLate
  <2> QED BY <1>2, <2>2, <2>3 DEF Threads
<1>3. CASE Crash
  BY <1>3 DEF Crash, RefusedLate
<1>4. ASSUME UNCHANGED refused, handled' = handled \/ handled' = handled + 1
      PROVE  RefusedLate'
  BY <1>1, <1>4, MaxConnectionsAssumption DEF RefusedLate
<1> QED BY <1>2, <1>3, <1>4 DEF Next, vars, OnEvent, RequestChannel, OnCreated, Open, Close,
           PrepareFails

\* The bot answers its first MaxConnections - 1 events without being refused a connection.
THEOREM RefusedNoSooner == Spec => []RefusedLate
<1>1. Init => RefusedLate
  BY DEF Init, RefusedLate
<1> QED BY LeakInit, LeakStep, RefusedStep, <1>1, PTL DEF Spec

=============================================================================
