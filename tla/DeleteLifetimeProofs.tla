------------------------ MODULE DeleteLifetimeProofs ------------------------
(***************************************************************************)
(* What TLAPS proves about DeleteLifetime for any number of channels and   *)
(* presses, and any length of the sleep and the requests.                  *)
(***************************************************************************)
EXTENDS DeleteLifetime, CommonLemmas, FiniteSetTheorems

-----------------------------------------------------------------------------
(* The inductive invariant. *)

Before == {"followup", "followed", "history", "fetched"}

\* The presses whose sleep is still to come, or that will go without one.
Unslept == {i \in Presses : handlers[i].stage \in Before}

\* The sleeps that have begun, and those that failed requests and Open have saved.
Sleeps == Len(handlers) - Cardinality(Unslept)

\* An upper bound of the ticks that the callback thread has slept so far.
Slept == SleepTicks * Sleeps - left

\* A completion of the press waits for the callback thread, which does not rest then.
Queued(i) == \E k \in DOMAIN completions : completions[k] = i

PressesInv ==
    /\ Len(handlers) = spent["click"] /\ spent["click"] <= Limit["click"]
    /\ Awake => left = 0
    /\ asleep # NoPress => handlers[asleep].stage = "sleeping"
    /\ \A i \in Presses : handlers[i].stage = "sleeping" => asleep = i
    /\ \A i \in Presses :
          handlers[i].stage \in {"followed", "fetched", "deleted", "failed"} => Queued(i)

\* How old a press can be at each of its stages.
Timely(i) ==
    LET d == handlers[i]
    IN  /\ d.stage \in {"followup", "history"} => d.since <= d.waits
        /\ d.stage \in {"followed", "sleeping", "fetched"} => d.since <= Latency + Slept
        /\ d.stage = "delete" => d.since <= Latency + Slept + d.waits
        /\ d.stage \in {"deleted", "failed", "done"} => d.since <= 2 * Latency + Slept

\* An object has not been out of the cache for longer than since a press found it there.
Young(i) ==
    LET d == handlers[i]
    IN  /\ d.stage # "done" => age[d.channel] <= d.since
        /\ d.stage = "deleted" => age[d.channel] <= Slept

CacheInv ==
    /\ exists \subseteq cached
    /\ \A c \in cached : age[c] = 0

TimeInv ==
    /\ TypeOK /\ PressesInv /\ CacheInv
    /\ 0 <= Slept
    /\ \A i \in Presses : Timely(i) /\ Young(i)
    /\ ReadSoon

-----------------------------------------------------------------------------
(* Presses and their stages. *)

LEMMA Times == ASSUME NEW a \in Nat, NEW n \in Int
               PROVE  a * n \in Int /\ a * (n + 1) = a * n + a
OBVIOUS

LEMMA TimesBound == ASSUME NEW a \in Nat, NEW n \in Nat, NEW m \in Nat, n <= m
                    PROVE  a * n <= a * m
<1>1. PICK d \in Nat : m = n + d
  <2>1. m - n \in Nat /\ m = n + (m - n)
    OBVIOUS
  <2> QED BY <2>1
<1>2. a * m = a * n + a * d /\ a * d \in Nat /\ a * n \in Nat
  BY <1>1
<1> QED BY <1>2

LEMMA HorizonType ==
    /\ Limit["click"] \in Nat /\ Limit["click"] * SleepTicks \in Nat
    /\ Horizon \in Nat /\ Horizon = Limit["click"] * SleepTicks + Latency
<1>1. Limit["click"] \in Nat /\ SleepTicks \in Nat /\ Latency \in Nat
  BY LimitAssumption, TicksAssumption DEF Kinds
<1>2. Limit["click"] * SleepTicks \in Nat
  BY <1>1
<1> QED BY <1>1, <1>2 DEF Horizon

LEMMA Counting == ASSUME NEW n \in Nat
                  PROVE  IsFiniteSet(1 .. n) /\ Cardinality(1 .. n) = n
BY FS_Interval

\* The fields of a press.
LEMMA PressFields ==
    ASSUME TypeOK
    PROVE  /\ Presses = 1 .. Len(handlers) /\ Len(handlers) \in Nat
           /\ \A i \in Presses : /\ handlers[i] \in Handler
                                 /\ handlers[i].channel \in Channels
                                 /\ handlers[i].stage \in Stages
                                 /\ handlers[i].waits \in 0 .. Latency
                                 /\ handlers[i].since \in Nat
<1>1. Presses = 1 .. Len(handlers) /\ Len(handlers) \in Nat
  BY LenProperties DEF TypeOK, Presses
<1>2. \A i \in Presses : handlers[i] \in Handler
  BY <1>1, ElementOfSeq DEF TypeOK
<1> QED BY <1>1, <1>2 DEF Handler

LEMMA UnsleptType ==
    ASSUME TypeOK
    PROVE  /\ IsFiniteSet(Unslept) /\ Cardinality(Unslept) \in Nat
           /\ Sleeps \in Nat /\ Sleeps <= Len(handlers)
<1>1. /\ IsFiniteSet(1 .. Len(handlers))
      /\ Cardinality(1 .. Len(handlers)) = Len(handlers)
  BY PressFields, Counting
<1>2. Unslept \subseteq 1 .. Len(handlers)
  BY PressFields DEF Unslept
<1>3. /\ IsFiniteSet(Unslept)
      /\ Cardinality(Unslept) <= Len(handlers)
  BY <1>1, <1>2, FS_Subset
<1>4. Cardinality(Unslept) \in Nat
  BY <1>3, FS_CardinalityType
<1> QED BY <1>3, <1>4, PressFields DEF Sleeps

\* A press goes on to another stage: its other fields and all other presses stay.
LEMMA Proceeds ==
    ASSUME TypeOK, NEW i \in Presses, NEW s \in Stages, Proceed(i, s)
    PROVE  /\ handlers' \in Seq(Handler) /\ Presses' = Presses
           /\ Len(handlers') = Len(handlers)
           /\ \A j \in Presses : j # i => handlers'[j] = handlers[j]
           /\ handlers'[i] = [channel |-> handlers[i].channel, stage |-> s,
                               waits |-> 0, since |-> handlers[i].since]
<1> DEFINE d == [channel |-> handlers[i].channel, stage |-> s,
                 waits |-> 0, since |-> handlers[i].since]
<1>1. handlers \in Seq(Handler) /\ handlers[i] \in Handler
  BY PressFields DEF TypeOK
<1>2. ASSUME NEW r \in Handler
      PROVE  [r EXCEPT !.stage = s, !.waits = 0] =
                [channel |-> r.channel, stage |-> s, waits |-> 0, since |-> r.since]
  <2>1. PICK c \in Channels, q \in Stages, w \in 0 .. Latency, n \in Nat :
           r = [channel |-> c, stage |-> q, waits |-> w, since |-> n]
    <3>1. r = [channel |-> r.channel, stage |-> r.stage, waits |-> r.waits,
               since |-> r.since]
      BY <1>2 DEF Handler
    <3> QED BY <1>2, <3>1 DEF Handler
  <2>2. [r EXCEPT !.stage = s] = [channel |-> c, stage |-> s, waits |-> w, since |-> n]
    BY <2>1
  <2>3. [[channel |-> c, stage |-> s, waits |-> w, since |-> n] EXCEPT !.waits = 0] =
           [channel |-> c, stage |-> s, waits |-> 0, since |-> n]
    OBVIOUS
  <2>4. [r EXCEPT !.stage = s, !.waits = 0] = [[r EXCEPT !.stage = s] EXCEPT !.waits = 0]
    OBVIOUS
  <2> QED BY <2>1, <2>2, <2>3, <2>4
<1>3. handlers' = [handlers EXCEPT ![i] = d]
  BY <1>1, <1>2 DEF Proceed
<1>4. d \in Handler
  BY <1>1, TicksAssumption DEF Handler
<1>5. /\ handlers' \in Seq(Handler) /\ Len(handlers') = Len(handlers)
      /\ \A j \in 1 .. Len(handlers) : handlers'[j] = IF j = i THEN d ELSE handlers[j]
  BY <1>1, <1>3, <1>4, PressFields, ExceptSeq
<1>6. Presses' = Presses
  BY <1>5, PressFields, LenProperties DEF Presses
<1> QED BY <1>5, <1>6, PressFields

\* A press that leaves Before without a sleep saves one; one that stays, or had left
\* before, changes nothing.
LEMMA SleepsProceed ==
    ASSUME TypeOK, NEW i \in Presses, NEW s \in Stages, Proceed(i, s),
           s \in Before => handlers[i].stage \in Before
    PROVE  /\ (handlers[i].stage \in Before <=> s \in Before) => Sleeps' = Sleeps
           /\ handlers[i].stage \in Before /\ s \notin Before => Sleeps' = Sleeps + 1
<1>1. /\ Presses' = Presses /\ Len(handlers') = Len(handlers)
      /\ \A j \in Presses : j # i => handlers'[j].stage = handlers[j].stage
      /\ handlers'[i].stage = s
  <2>1. /\ Presses' = Presses /\ Len(handlers') = Len(handlers)
        /\ \A j \in Presses : j # i => handlers'[j] = handlers[j]
        /\ handlers'[i] = [channel |-> handlers[i].channel, stage |-> s,
                            waits |-> 0, since |-> handlers[i].since]
    BY Proceeds
  <2> QED BY <2>1
<1>2. ASSUME handlers[i].stage \in Before <=> s \in Before
      PROVE  Sleeps' = Sleeps
  <2>1. Unslept' = Unslept
    BY <1>1, <1>2 DEF Unslept
  <2> QED BY <1>1, <2>1 DEF Sleeps
<1>3. ASSUME handlers[i].stage \in Before, s \notin Before
      PROVE  Sleeps' = Sleeps + 1
  <2>1. Unslept' = Unslept \ {i} /\ i \in Unslept
    BY <1>1, <1>3 DEF Unslept
  <2>2. Cardinality(Unslept') = Cardinality(Unslept) - 1
    BY <2>1, UnsleptType, FS_RemoveElement
  <2> QED BY <1>1, <2>2, UnsleptType, PressFields DEF Sleeps
<1> QED BY <1>2, <1>3

\* What Slept is when one more sleep has begun or was saved, and some of it is left.
LEMMA SleptMoves ==
    ASSUME TypeOK, left' \in Int
    PROVE  /\ Slept \in Int
           /\ Sleeps' = Sleeps + 1 => Slept' = Slept + left + SleepTicks - left'
           /\ Sleeps' = Sleeps => Slept' = Slept + left - left'
<1>1. Sleeps \in Int /\ SleepTicks \in Nat /\ left \in Int
  BY UnsleptType, TicksAssumption DEF TypeOK
<1>2. SleepTicks * Sleeps \in Int
      /\ SleepTicks * (Sleeps + 1) = SleepTicks * Sleeps + SleepTicks
  BY <1>1, Times
<1>3. /\ Slept = SleepTicks * Sleeps - left
      /\ Slept' = SleepTicks * Sleeps' - left'
  BY DEF Slept
<1>4. ASSUME Sleeps' = Sleeps + 1
      PROVE  Slept' = Slept + left + SleepTicks - left'
  <2>1. SleepTicks * Sleeps' = SleepTicks * Sleeps + SleepTicks
    BY <1>2, <1>4
  <2> QED BY <1>1, <1>2, <1>3, <2>1
<1>5. ASSUME Sleeps' = Sleeps
      PROVE  Slept' = Slept + left - left'
  <2>1. SleepTicks * Sleeps' = SleepTicks * Sleeps
    BY <1>5
  <2> QED BY <1>1, <1>2, <1>3, <2>1
<1> QED BY <1>1, <1>2, <1>3, <1>4, <1>5

\* As long as the callback thread has slept: not more than all sleeps together.
LEMMA SleptBound ==
    ASSUME TimeInv
    PROVE  Slept \in Nat /\ Slept <= Limit["click"] * SleepTicks
<1>1. Limit["click"] \in Nat
  BY LimitAssumption DEF Kinds
<1>2. Sleeps \in Nat /\ Sleeps <= Limit["click"]
  BY UnsleptType, PressFields, <1>1 DEF TimeInv, PressesInv, TypeOK, BudgetTypeOK, Kinds
<1>3. SleepTicks * Sleeps <= SleepTicks * Limit["click"]
  BY <1>1, <1>2, TimesBound, TicksAssumption
<1>4. SleepTicks * Sleeps \in Int /\ SleepTicks * Limit["click"] = Limit["click"] * SleepTicks
      /\ SleepTicks * Limit["click"] \in Int
  BY <1>1, <1>2, TicksAssumption
<1> QED BY <1>3, <1>4 DEF Slept, TimeInv, TypeOK

\* Every completion but the one that is called back stays in the queue.
LEMMA TakenQueued ==
    ASSUME TypeOK, completions # <<>>, completions' = Tail(completions)
    PROVE  /\ completions' \in Seq(Presses)
           /\ Head(completions) \in Presses
           /\ \A j : Queued(j) /\ j # Head(completions) => Queued(j)'
<1>1. /\ Len(completions) \in Nat \ {0} /\ DOMAIN completions = 1 .. Len(completions)
      /\ Head(completions) \in Presses /\ Head(completions) = completions[1]
      /\ completions' \in Seq(Presses) /\ Len(completions') = Len(completions) - 1
      /\ \A k \in 1 .. Len(completions') : completions'[k] = completions[k + 1]
  BY EmptySeq, LenProperties, HeadTailProperties DEF TypeOK
<1>2. DOMAIN completions' = 1 .. (Len(completions) - 1)
  BY <1>1, LenProperties
<1>3. ASSUME NEW k \in DOMAIN completions, k # 1
      PROVE  k - 1 \in DOMAIN completions' /\ completions'[k - 1] = completions[k]
  BY <1>1, <1>2, <1>3
<1> QED BY <1>1, <1>3 DEF Queued

LEMMA PutQueued ==
    ASSUME TypeOK, NEW i \in Presses, completions' = Append(completions, i)
    PROVE  /\ completions' \in Seq(Presses)
           /\ Queued(i)'
           /\ \A j : Queued(j) => Queued(j)'
<1>1. /\ completions' \in Seq(Presses) /\ Len(completions) \in Nat
      /\ DOMAIN completions = 1 .. Len(completions)
      /\ DOMAIN completions' = 1 .. (Len(completions) + 1)
      /\ completions'[Len(completions) + 1] = i
      /\ \A k \in 1 .. Len(completions) : completions'[k] = completions[k]
  BY AppendProperties, LenProperties DEF TypeOK
<1> QED BY <1>1 DEF Queued

-----------------------------------------------------------------------------
(* Steps in which a press goes on. *)

\* The ways through the handler and its callbacks.
Ways ==
    {<<"followup", "followed">>, <<"followup", "failed">>, <<"followed", "sleeping">>,
     <<"sleeping", "delete">>, <<"delete", "deleted">>, <<"delete", "failed">>,
     <<"deleted", "done">>, <<"failed", "done">>,
     <<"history", "fetched">>, <<"fetched", "done">>}

\* A press has gone on by one of the ways, and this is all that has happened to others.
GoesOn(i, s) ==
    /\ <<handlers[i].stage, s>> \in Ways
    /\ Proceed(i, s)
    /\ s = "sleeping" => Awake
    /\ handlers[i].stage = "sleeping" => left = 0
    /\ left' = IF s = "sleeping" THEN SleepTicks ELSE left
    /\ asleep' = IF s = "sleeping" THEN i
                 ELSE IF handlers[i].stage = "sleeping" THEN NoPress ELSE asleep
    /\ completions' \in Seq(Presses)
    /\ \A j \in Presses \ {i} : Queued(j) => Queued(j)'
    /\ s \in {"followed", "fetched", "deleted", "failed"} => Queued(i)'
    /\ BudgetTypeOK' /\ spent'["click"] = spent["click"]
    /\ exists' \in SUBSET exists
    /\ UNCHANGED <<cached, age>>
    /\ s = "deleted" => age[cFind(i)] = 0
    /\ \/ stalest' = stalest
       \/ handlers[i].stage \in {"sleeping", "deleted", "fetched"} /\ Read(i)

\* The thread has slept as long as before, or is credited the sleep that was saved.
LEMMA SleptGoesOn ==
    ASSUME TimeInv, NEW i \in Presses, NEW s \in Stages, GoesOn(i, s)
    PROVE  /\ Slept \in Int /\ Slept' \in Int /\ Slept <= Slept'
           /\ left' \in 0 .. SleepTicks
<1>1. /\ left \in 0 .. SleepTicks /\ SleepTicks \in Nat /\ TypeOK
  BY TicksAssumption DEF TimeInv, TypeOK
<1>2. left' \in 0 .. SleepTicks
  BY <1>1 DEF GoesOn
<1>3. /\ Slept \in Int
      /\ Sleeps' = Sleeps + 1 => Slept' = Slept + left + SleepTicks - left'
      /\ Sleeps' = Sleeps => Slept' = Slept + left - left'
  BY <1>1, <1>2, SleptMoves
<1>4. CASE s = "sleeping"
  <2>1. Sleeps' = Sleeps + 1
    BY <1>1, <1>4, SleepsProceed DEF GoesOn, Ways, Before
  <2>2. left = 0 /\ left' = SleepTicks
    BY <1>4 DEF GoesOn, TimeInv, PressesInv
  <2> QED BY <1>1, <1>2, <1>3, <2>1, <2>2
<1>5. CASE s # "sleeping"
  <2>1. Sleeps' = Sleeps + 1 \/ Sleeps' = Sleeps
    BY <1>1, SleepsProceed DEF GoesOn, Ways, Before
  <2>2. left' = left
    BY <1>5 DEF GoesOn
  <2> QED BY <1>1, <1>2, <1>3, <2>1, <2>2
<1> QED BY <1>4, <1>5

LEMMA OthersKept ==
    ASSUME TimeInv, NEW j \in Presses, Slept \in Int, Slept' \in Int, Slept <= Slept',
           handlers'[j] = handlers[j],
           age'[handlers[j].channel] = age[handlers[j].channel]
    PROVE  Timely(j)' /\ Young(j)'
<1>1. /\ handlers[j].since \in Nat /\ handlers[j].waits \in 0 .. Latency
      /\ handlers[j].channel \in Channels /\ Latency \in Nat
  BY PressFields, TicksAssumption DEF TimeInv
<1>2. age[handlers[j].channel] \in Int
  BY <1>1, HorizonType DEF TimeInv, TypeOK
<1>3. Timely(j)'
  BY <1>1 DEF TimeInv, Timely
<1>4. Young(j)'
  BY <1>1, <1>2 DEF TimeInv, Young
<1> QED BY <1>3, <1>4

\* The reads of the three callbacks.
LEMMA ReadsSoon ==
    ASSUME TimeInv, NEW i \in Presses,
           handlers[i].stage \in {"sleeping", "deleted", "fetched"}, Read(i)
    PROVE  stalest' \in 0 .. Horizon
<1>1. /\ Slept \in Nat /\ Slept <= Limit["click"] * SleepTicks
      /\ Latency \in Nat /\ stalest \in 0 .. Horizon
  BY SleptBound, TicksAssumption, HorizonType DEF TimeInv, TypeOK, ReadSoon
<1>2. /\ cFind(i) \in Channels /\ age[cFind(i)] \in Nat /\ handlers[i].since \in Nat
  BY PressFields, HorizonType DEF TimeInv, TypeOK, cFind
<1>3. age[cFind(i)] <= Latency + Slept
  BY <1>1, <1>2 DEF TimeInv, Timely, Young, cFind
<1>4. age[cFind(i)] <= Horizon
  BY <1>1, <1>2, <1>3, HorizonType
<1> QED BY <1>1, <1>2, <1>4, HorizonType DEF Read

LEMMA GoesOnStep ==
    ASSUME TimeInv, NEW i \in Presses, NEW s \in Stages, GoesOn(i, s)
    PROVE  TimeInv'
<1>1. TypeOK /\ NoPress \notin Presses
  BY PressFields DEF TimeInv, NoPress
<1>2. /\ Slept \in Int /\ Slept' \in Int /\ Slept <= Slept'
      /\ left' \in 0 .. SleepTicks
  BY SleptGoesOn
<1>3. /\ handlers' \in Seq(Handler) /\ Presses' = Presses
      /\ Len(handlers') = Len(handlers)
      /\ \A j \in Presses : j # i => handlers'[j] = handlers[j]
      /\ handlers'[i].channel = handlers[i].channel
      /\ handlers'[i].stage = s /\ handlers'[i].waits = 0
      /\ handlers'[i].since = handlers[i].since
  <2>1. /\ handlers' \in Seq(Handler) /\ Presses' = Presses
        /\ Len(handlers') = Len(handlers)
        /\ \A j \in Presses : j # i => handlers'[j] = handlers[j]
        /\ handlers'[i] = [channel |-> handlers[i].channel, stage |-> s,
                            waits |-> 0, since |-> handlers[i].since]
    BY <1>1, Proceeds DEF GoesOn
  <2> QED BY <2>1
<1>4. TypeOK'
  <2>1. stalest' \in 0 .. (Horizon + 1)
    BY <1>1, ReadsSoon, HorizonType DEF GoesOn, TypeOK
  <2> QED BY <1>1, <1>2, <1>3, <2>1 DEF GoesOn, TypeOK
<1>5. PressesInv'
  <2>1. Len(handlers') = spent'["click"] /\ spent'["click"] <= Limit["click"]
    BY <1>3 DEF GoesOn, TimeInv, PressesInv
  <2>2. (Awake => left = 0)' /\ (asleep # NoPress => handlers[asleep].stage = "sleeping")'
    BY <1>1, <1>3 DEF GoesOn, Ways, Awake, TimeInv, PressesInv, TypeOK
  <2>3. ASSUME NEW j \in Presses, handlers'[j].stage = "sleeping"
        PROVE  asleep' = j
    BY <1>1, <1>3, <2>3 DEF GoesOn, Ways, Awake, TimeInv, PressesInv
  <2>4. ASSUME NEW j \in Presses,
               handlers'[j].stage \in {"followed", "fetched", "deleted", "failed"}
        PROVE  Queued(j)'
    BY <1>3, <2>4 DEF GoesOn, TimeInv, PressesInv
  <2> QED BY <1>3, <2>1, <2>2, <2>3, <2>4 DEF PressesInv
<1>6. CacheInv' /\ 0 <= Slept'
  BY <1>2 DEF GoesOn, TimeInv, CacheInv
<1>7. Timely(i)' /\ Young(i)'
  <2>1. /\ handlers[i].since \in Nat /\ handlers[i].waits \in 0 .. Latency
        /\ Latency \in Nat /\ handlers[i].channel \in Channels
    BY <1>1, PressFields, TicksAssumption
  <2>2. age[handlers[i].channel] \in Int
    BY <1>1, <2>1, HorizonType DEF TypeOK
  <2>3. /\ Timely(i) /\ Young(i) /\ 0 <= Slept
        /\ <<handlers[i].stage, s>> \in Ways
        /\ age' = age /\ (s = "deleted" => age[handlers[i].channel] = 0)
    BY DEF TimeInv, GoesOn, cFind
  <2>4. Timely(i)'
    <3>1. handlers[i].stage \in {"followup", "followed", "sleeping", "history", "fetched"}
              => handlers[i].since <= Latency + Slept
      BY <1>2, <2>1, <2>3 DEF Timely
    <3>2. handlers[i].since <= 2 * Latency + Slept
      <4>1. handlers[i].stage \in {"followup", "followed", "sleeping", "history",
                                   "fetched", "delete", "deleted", "failed"}
        BY <2>3 DEF Ways
      <4>2. CASE handlers[i].stage = "delete"
        BY <1>2, <2>1, <2>3, <4>2 DEF Timely
      <4>3. CASE handlers[i].stage \in {"deleted", "failed"}
        BY <1>2, <2>1, <2>3, <4>3 DEF Timely
      <4> QED BY <1>2, <2>1, <2>3, <3>1, <4>1, <4>2, <4>3
    <3>3. s \in {"followed", "sleeping", "delete", "fetched"}
              => handlers'[i].since <= Latency + Slept'
      <4>1. s \in {"followed", "sleeping", "delete", "fetched"}
                => handlers[i].stage \in {"followup", "followed", "sleeping", "history"}
        BY <2>3 DEF Ways
      <4> QED BY <1>2, <1>3, <2>1, <3>1, <4>1
    <3>4. handlers'[i].since <= 2 * Latency + Slept'
      BY <1>2, <1>3, <2>1, <3>2
    <3>5. s \notin {"followup", "history"}
      BY <2>3 DEF Ways
    <3>6. s = "delete" => handlers'[i].since <= Latency + Slept' + handlers'[i].waits
      BY <1>2, <1>3, <2>1, <3>3
    <3> QED BY <1>3, <3>3, <3>4, <3>5, <3>6 DEF Timely
  <2>5. Young(i)'
    BY <1>2, <1>3, <2>1, <2>2, <2>3 DEF Young, Ways
  <2> QED BY <2>4, <2>5
<1>8. ASSUME NEW j \in Presses, j # i
      PROVE  Timely(j)' /\ Young(j)'
  BY <1>2, <1>3, <1>8, OthersKept DEF GoesOn
<1>9. ReadSoon'
  BY ReadsSoon, HorizonType DEF GoesOn, TimeInv, ReadSoon
<1> QED BY <1>3, <1>4, <1>5, <1>6, <1>7, <1>8, <1>9 DEF TimeInv

\* A callback takes its completion, and a request that ends puts one there.
LEMMA CalledBack ==
    ASSUME TimeInv, NEW i \in Presses, NEW q, CallBack(i, q)
    PROVE  /\ Awake /\ handlers[i].stage = q
           /\ completions' \in Seq(Presses)
           /\ \A j \in Presses \ {i} : Queued(j) => Queued(j)'
BY TakenQueued DEF TimeInv, CallBack

LEMMA Ended ==
    ASSUME TimeInv, NEW i \in Presses, NEW q, NEW s, Complete(i, q, s)
    PROVE  /\ handlers[i].stage = q /\ Proceed(i, s)
           /\ completions' \in Seq(Presses)
           /\ Queued(i)' /\ \A j \in Presses \ {i} : Queued(j) => Queued(j)'
BY PutQueued DEF TimeInv, Complete

LEMMA CallbackStep ==
    ASSUME TimeInv, NEW i \in Presses,
           OnFollowup(i) \/ SleepEnds(i) \/ OnDeleted(i) \/ OnError(i) \/ OnMessages(i)
    PROVE  TimeInv'
<1>0. BudgetTypeOK /\ NoPress \notin Presses
  BY PressFields DEF TimeInv, TypeOK, NoPress
<1>1. CASE OnFollowup(i)
  <2>1. GoesOn(i, "sleeping")
    BY <1>0, <1>1, CalledBack DEF OnFollowup, GoesOn, Ways, BudgetTypeOK
  <2> QED BY <2>1, GoesOnStep DEF Stages
<1>2. CASE SleepEnds(i)
  <2>1. handlers[i].stage = "sleeping"
    BY <1>0, <1>2 DEF SleepEnds, TimeInv, PressesInv
  <2>2. \A j \in Presses : Queued(j) => Queued(j)'
    BY <1>2 DEF SleepEnds, Queued
  <2>3. GoesOn(i, "delete")
    BY <1>0, <1>2, <2>1, <2>2 DEF SleepEnds, GoesOn, Ways, TimeInv, TypeOK, BudgetTypeOK
  <2> QED BY <2>3, GoesOnStep DEF Stages
<1>3. CASE OnDeleted(i)
  <2>1. GoesOn(i, "done")
    BY <1>0, <1>3, CalledBack DEF OnDeleted, GoesOn, Ways, BudgetTypeOK
  <2> QED BY <2>1, GoesOnStep DEF Stages
<1>4. CASE OnError(i)
  <2>1. GoesOn(i, "done")
    BY <1>0, <1>4, CalledBack DEF OnError, GoesOn, Ways, BudgetTypeOK
  <2> QED BY <2>1, GoesOnStep DEF Stages
<1>5. CASE OnMessages(i)
  <2>1. GoesOn(i, "done")
    BY <1>0, <1>5, CalledBack DEF OnMessages, GoesOn, Ways, BudgetTypeOK
  <2> QED BY <2>1, GoesOnStep DEF Stages
<1> QED BY <1>1, <1>2, <1>3, <1>4, <1>5

LEMMA RequestStep ==
    ASSUME TimeInv, NEW i \in Presses,
           RunFollowup(i) \/ RunChannelDelete(i) \/ RunMessagesGet(i)
              \/ LoseResponse(i) \/ FailRequest(i)
    PROVE  TimeInv'
<1>0. BudgetTypeOK
  BY DEF TimeInv, TypeOK
<1>1. CASE RunFollowup(i)
  <2>1. GoesOn(i, "followed")
    BY <1>0, <1>1, Ended DEF RunFollowup, GoesOn, Ways, BudgetTypeOK
  <2> QED BY <2>1, GoesOnStep DEF Stages
<1>2. CASE RunChannelDelete(i)
  <2>1. cFind(i) \in exists => age[cFind(i)] = 0
    BY PressFields DEF TimeInv, CacheInv, cFind
  <2>2. PICK s \in {"deleted", "failed"} :
           Complete(i, "delete", s) /\ (s = "deleted" => cFind(i) \in exists)
    BY <1>2 DEF RunChannelDelete
  <2>3. GoesOn(i, s)
    BY <1>0, <1>2, <2>1, <2>2, Ended DEF RunChannelDelete, GoesOn, Ways, BudgetTypeOK
  <2> QED BY <2>3, GoesOnStep DEF Stages
<1>3. CASE FailRequest(i)
  <2>1. BudgetTypeOK' /\ spent'["click"] = spent["click"]
    BY <1>0, <1>3, SpendType DEF FailRequest, Kinds, Spend, BudgetTypeOK
  <2>2. PICK q \in {"followup", "delete"} : Complete(i, q, "failed")
    BY <1>3 DEF FailRequest
  <2>3. GoesOn(i, "failed")
    BY <1>3, <2>1, <2>2, Ended DEF FailRequest, GoesOn, Ways
  <2> QED BY <2>3, GoesOnStep DEF Stages
<1>4. CASE RunMessagesGet(i)
  <2>1. GoesOn(i, "fetched")
    BY <1>0, <1>4, Ended DEF RunMessagesGet, GoesOn, Ways, BudgetTypeOK
  <2> QED BY <2>1, GoesOnStep DEF Stages
<1>5. CASE LoseResponse(i)
  <2>1. BudgetTypeOK' /\ spent'["click"] = spent["click"]
    BY <1>0, <1>5, SpendType DEF LoseResponse, Kinds, Spend, BudgetTypeOK
  <2>2. GoesOn(i, "failed")
    BY <1>5, <2>1, Ended DEF LoseResponse, GoesOn, Ways
  <2> QED BY <2>2, GoesOnStep DEF Stages
<1> QED BY <1>1, <1>2, <1>3, <1>4, <1>5

-----------------------------------------------------------------------------
(* The other steps. *)

\* A new press is as old as the object that it found in the cache is out of it.
LEMMA PressStep ==
    ASSUME TimeInv, NEW c \in Channels, NEW first \in {"followup", "history"},
           c \in cached, Press(c, first)
    PROVE  TimeInv'
<1> DEFINE d == [channel |-> c, stage |-> first, waits |-> 0, since |-> 0]
           n == Len(handlers) + 1
<1>1. TypeOK /\ Latency \in Nat
  BY TicksAssumption DEF TimeInv
<1>2. d \in Handler /\ handlers' = Append(handlers, d) /\ handlers \in Seq(Handler)
  BY <1>1 DEF Press, Handler, Stages, TypeOK
<1>3. /\ handlers' \in Seq(Handler) /\ Len(handlers') = n
      /\ handlers'[n] = d
      /\ \A j \in 1 .. Len(handlers) : handlers'[j] = handlers[j]
  BY <1>2, AppendProperties
<1>4. /\ Presses = 1 .. Len(handlers) /\ Len(handlers) \in Nat
      /\ Presses' = 1 .. Len(handlers') /\ Presses' = Presses \cup {n} /\ n \notin Presses
  <2>1. Presses = 1 .. Len(handlers) /\ Len(handlers) \in Nat
    BY <1>1, PressFields
  <2>2. DOMAIN handlers' = 1 .. Len(handlers')
    BY <1>3, LenProperties
  <2>3. Presses' = 1 .. n
    BY <1>3, <2>2 DEF Presses
  <2> QED BY <1>3, <2>1, <2>3
<1>5. UNCHANGED <<exists, cached, age, completions, asleep, left, stalest>> /\ Spend("click")
  BY DEF Press
<1>6. /\ BudgetTypeOK' /\ spent'["click"] = spent["click"] + 1
      /\ spent'["click"] <= Limit["click"]
  <2>1. BudgetTypeOK'
    BY <1>1, <1>5, SpendType DEF TypeOK, Kinds
  <2>2. spent["click"] \in Nat /\ Limit["click"] \in Nat /\ spent["click"] < Limit["click"]
        /\ spent'["click"] = spent["click"] + 1
    BY <1>1, <1>5, LimitAssumption DEF TypeOK, BudgetTypeOK, Spend, Kinds
  <2> QED BY <2>1, <2>2
<1>7. TypeOK'
  <2>1. completions' \in Seq(Presses')
    BY <1>1, <1>4, <1>5, SeqMonotonic DEF TypeOK
  <2> QED BY <1>1, <1>3, <1>4, <1>5, <1>6, <2>1 DEF TypeOK
<1>8. Slept' = Slept /\ Slept \in Int
  <2>1. Unslept' = Unslept \cup {n} /\ n \notin Unslept
    <3>1. handlers'[n].stage = first
      BY <1>3
    <3> HIDE DEF n
    <3> QED BY <1>3, <1>4, <3>1 DEF Unslept, Before
  <2>2. Cardinality(Unslept') = Cardinality(Unslept) + 1 /\ Cardinality(Unslept) \in Nat
    BY <1>1, <2>1, UnsleptType, FS_AddElement
  <2>3. Sleeps' = Sleeps
    BY <1>3, <1>4, <2>2 DEF Sleeps
  <2> QED BY <1>1, <1>5, <2>3, SleptMoves DEF Slept, TypeOK
<1>9. PressesInv'
  <2>1. ASSUME NEW j \in Presses'
        PROVE  /\ j \in Presses => handlers'[j].stage = handlers[j].stage
               /\ j \notin Presses => handlers'[j].stage \in {"followup", "history"}
    <3>1. handlers'[n].stage = first
      BY <1>3
    <3> QED BY <1>3, <1>4, <3>1
  <2>2. \A j : Queued(j)' <=> Queued(j)
    BY <1>5 DEF Queued
  <2>3. asleep' # NoPress => asleep' \in Presses
    BY <1>1, <1>5 DEF TypeOK
  <2>4. PressesInv /\ n = Len(handlers) + 1
    BY DEF TimeInv
  <2> HIDE DEF n
  <2>5. (Len(handlers) = spent["click"] /\ spent["click"] <= Limit["click"])'
    BY <1>3, <1>6, <2>4 DEF PressesInv
  <2>6. (Awake => left = 0)'
    BY <1>5, <2>4 DEF PressesInv, Awake
  <2>7. (asleep # NoPress => handlers[asleep].stage = "sleeping")'
    BY <1>4, <1>5, <2>1, <2>3, <2>4 DEF PressesInv
  <2>8. ASSUME NEW j \in Presses'
        PROVE  /\ handlers'[j].stage = "sleeping" => asleep' = j
               /\ handlers'[j].stage \in {"followed", "fetched", "deleted", "failed"}
                     => Queued(j)'
    BY <1>5, <2>1, <2>2, <2>4 DEF PressesInv
  <2> QED BY <2>5, <2>6, <2>7, <2>8 DEF PressesInv
<1>10. ASSUME NEW j \in Presses'
       PROVE  Timely(j)' /\ Young(j)'
  <2>1. CASE j \in Presses
    BY <1>3, <1>4, <1>5, <1>8, <2>1, OthersKept
  <2>2. CASE j = n
    <3>1. age[c] = 0
      BY DEF TimeInv, CacheInv
    <3>2. /\ handlers'[j].stage = first /\ handlers'[j].since = 0
          /\ handlers'[j].waits = 0 /\ handlers'[j].channel = c
      BY <1>3, <2>2
    <3> QED BY <1>5, <3>1, <3>2 DEF Timely, Young
  <2> QED BY <1>4, <2>1, <2>2
<1> QED BY <1>5, <1>7, <1>8, <1>9, <1>10 DEF TimeInv, CacheInv, ReadSoon

\* The cache and the guild, apart from the presses.
LEMMA CacheStep ==
    ASSUME TimeInv, NEW c \in Channels,
           OnChannelDelete(c) \/ ModeratorDeletes(c)
    PROVE  TimeInv'
<1>1. /\ BudgetTypeOK' /\ spent'["click"] = spent["click"]
      /\ UNCHANGED <<age, handlers, completions, asleep, left, stalest>>
  BY SpendType
     DEF OnChannelDelete, ModeratorDeletes, TimeInv, TypeOK, BudgetTypeOK, Spend, Kinds
<1>2. cached' \in SUBSET Channels /\ exists' \in SUBSET Channels /\ CacheInv'
  BY DEF OnChannelDelete, ModeratorDeletes, TimeInv, TypeOK, CacheInv
<1>3. TypeOK' /\ PressesInv'
  BY <1>1, <1>2 DEF TimeInv, TypeOK, PressesInv, Awake, Presses, Queued
<1>4. Slept' = Slept
  BY <1>1 DEF Slept, Sleeps, Unslept, Presses
<1>5. ASSUME NEW j \in Presses
      PROVE  Timely(j)' /\ Young(j)'
  BY <1>1, <1>4, <1>5 DEF TimeInv, Timely, Young
<1> QED BY <1>1, <1>2, <1>3, <1>4, <1>5 DEF TimeInv, Presses, ReadSoon

\* When a tick passes, every press that is not done gets older; those whose completion
\* is in the queue only while the callback thread sleeps.
LEMMA Ticked ==
    ASSUME TimeInv, Tick
    PROVE  /\ handlers' \in Seq(Handler) /\ Presses' = Presses
           /\ Len(handlers') = Len(handlers)
           /\ \A i \in Presses :
                 /\ handlers'[i].channel = handlers[i].channel
                 /\ handlers'[i].stage = handlers[i].stage
                 /\ handlers'[i].waits = IF Requesting(i) THEN handlers[i].waits + 1
                                          ELSE handlers[i].waits
                 /\ handlers'[i].since = IF handlers[i].stage = "done"
                                          THEN handlers[i].since
                                          ELSE handlers[i].since + 1
                 /\ handlers'[i].waits <= Latency
<1> DEFINE waited(i) == IF Requesting(i) THEN handlers[i].waits + 1 ELSE handlers[i].waits
           grown(i) == IF handlers[i].stage = "done" THEN handlers[i].since
                       ELSE handlers[i].since + 1
           ticked(i) == [channel |-> handlers[i].channel, stage |-> handlers[i].stage,
                         waits |-> waited(i), since |-> grown(i)]
<1>1. TypeOK /\ Latency \in Nat
  BY TicksAssumption DEF TimeInv
<1>2. ASSUME NEW r \in Handler, NEW w, NEW s
      PROVE  [r EXCEPT !.waits = w, !.since = s] =
                [channel |-> r.channel, stage |-> r.stage, waits |-> w, since |-> s]
  <2>1. r = [channel |-> r.channel, stage |-> r.stage, waits |-> r.waits, since |-> r.since]
    BY DEF Handler
  <2>2. [r EXCEPT !.waits = w] =
           [channel |-> r.channel, stage |-> r.stage, waits |-> w, since |-> r.since]
    BY <2>1
  <2>3. [[channel |-> r.channel, stage |-> r.stage, waits |-> w, since |-> r.since]
            EXCEPT !.since = s] =
           [channel |-> r.channel, stage |-> r.stage, waits |-> w, since |-> s]
    OBVIOUS
  <2>4. [r EXCEPT !.waits = w, !.since = s] = [[r EXCEPT !.waits = w] EXCEPT !.since = s]
    OBVIOUS
  <2> QED BY <2>2, <2>3, <2>4
<1>3. handlers' = [i \in Presses |-> ticked(i)]
  <2>1. handlers' = [i \in Presses |->
                        [handlers[i] EXCEPT !.waits = waited(i), !.since = grown(i)]]
    BY DEF Tick
  <2>2. ASSUME NEW i \in Presses
        PROVE  [handlers[i] EXCEPT !.waits = waited(i), !.since = grown(i)] = ticked(i)
    <3>1. handlers[i] \in Handler
      BY <1>1, PressFields
    <3> HIDE DEF waited, grown
    <3> QED BY <1>2, <3>1
  <2> HIDE DEF waited, grown, ticked
  <2> QED BY <2>1, <2>2
<1>4. \A i \in Presses : ticked(i) \in Handler /\ waited(i) <= Latency
  <2>1. SUFFICES ASSUME NEW i \in Presses
                 PROVE  ticked(i) \in Handler /\ waited(i) <= Latency
    OBVIOUS
  <2>2. /\ handlers[i].channel \in Channels /\ handlers[i].stage \in Stages
        /\ handlers[i].waits \in 0 .. Latency /\ handlers[i].since \in Nat
        /\ Requesting(i) => handlers[i].waits < Latency
    BY <1>1, PressFields DEF Tick
  <2>3. waited(i) \in 0 .. Latency /\ grown(i) \in Nat
    BY <1>1, <2>2
  <2> QED BY <1>1, <2>2, <2>3 DEF Handler
<1>5. Presses = 1 .. Len(handlers) /\ Len(handlers) \in Nat
  BY <1>1, PressFields
<1> HIDE DEF ticked
<1>6. handlers' \in Seq(Handler) /\ Len(handlers') = Len(handlers) /\ Presses' = Presses
  <2>1. handlers' = [i \in 1 .. Len(handlers) |-> ticked(i)]
    BY <1>3, <1>5
  <2>2. handlers' \in Seq(Handler) /\ Len(handlers') = Len(handlers)
    BY <1>4, <1>5, <2>1
  <2> QED BY <1>5, <2>1, <2>2 DEF Presses
<1>7. \A i \in Presses : handlers'[i] = ticked(i)
  BY <1>3
<1>8. ASSUME NEW i \in Presses
      PROVE  /\ handlers'[i].channel = handlers[i].channel
             /\ handlers'[i].stage = handlers[i].stage
             /\ handlers'[i].waits = waited(i)
             /\ handlers'[i].since = grown(i)
  <2> HIDE DEF waited, grown
  <2>1. handlers'[i] = [channel |-> handlers[i].channel, stage |-> handlers[i].stage,
                         waits |-> waited(i), since |-> grown(i)]
    BY <1>7, <1>8 DEF ticked
  <2> QED BY <2>1
<1> QED BY <1>4, <1>6, <1>8

LEMMA TickStep ==
    ASSUME TimeInv, Tick
    PROVE  TimeInv'
<1>1. /\ TypeOK /\ Latency \in Nat /\ Horizon \in Nat /\ SleepTicks \in Nat
      /\ left \in 0 .. SleepTicks /\ age \in [Channels -> 0 .. (Horizon + 1)]
  BY TicksAssumption, HorizonType DEF TimeInv, TypeOK
<1>2. /\ UNCHANGED <<spent, exists, cached, completions, asleep, stalest>>
      /\ Awake => completions = <<>> /\ left' = left
      /\ ~Awake => left > 0 /\ left' = left - 1
      /\ \A c \in Channels :
            age'[c] = IF c \notin cached /\ age[c] <= Horizon THEN age[c] + 1 ELSE age[c]
      /\ age' \in [Channels -> 0 .. (Horizon + 1)]
  <2>1. UNCHANGED <<spent, exists, cached, completions, asleep, stalest>>
        /\ (Awake => completions = <<>> /\ left' = left)
        /\ (~Awake => left > 0 /\ left' = left - 1)
    BY DEF Tick
  <2>2. age' = [c \in Channels |->
                  IF c \notin cached /\ age[c] <= Horizon THEN age[c] + 1 ELSE age[c]]
    BY DEF Tick
  <2>3. \A c \in Channels : age[c] \in 0 .. (Horizon + 1)
    BY <1>1
  <2>4. \A c \in Channels :
           (IF c \notin cached /\ age[c] <= Horizon THEN age[c] + 1 ELSE age[c])
              \in 0 .. (Horizon + 1)
    BY <1>1, <2>3
  <2> QED BY <2>1, <2>2, <2>4
<1>3. left' \in 0 .. SleepTicks
  BY <1>1, <1>2
<1>4. TypeOK'
  BY <1>1, <1>2, <1>3, Ticked DEF TypeOK, BudgetTypeOK
<1>5. /\ Slept \in Int /\ 0 <= Slept
      /\ Slept' = IF Awake THEN Slept ELSE Slept + 1
  <2>1. Unslept' = Unslept
    BY Ticked DEF Unslept
  <2>2. Sleeps' = Sleeps
    BY <2>1, Ticked DEF Sleeps
  <2>3. Slept \in Int /\ Slept' = Slept + left - left'
    BY <1>1, <1>3, <2>2, SleptMoves
  <2>4. 0 <= Slept
    BY DEF TimeInv
  <2>5. CASE Awake
    BY <1>1, <1>2, <2>3, <2>4, <2>5
  <2>6. CASE ~Awake
    BY <1>1, <1>2, <2>3, <2>4, <2>6
  <2> QED BY <2>5, <2>6
<1>6. PressesInv'
  <2>1. asleep # NoPress => asleep \in Presses
    BY <1>1 DEF TypeOK
  <2>2. \A j : Queued(j)' <=> Queued(j)
    BY <1>2 DEF Queued
  <2>3. Awake' <=> Awake
    BY <1>2 DEF Awake
  <2> QED BY <1>2, <2>1, <2>2, <2>3, Ticked DEF TimeInv, PressesInv, Awake
<1>7. CacheInv'
  <2>1. cached \subseteq Channels
    BY <1>1 DEF TypeOK
  <2> QED BY <1>2, <2>1 DEF TimeInv, CacheInv
<1>8. ASSUME NEW i \in Presses
      PROVE  Timely(i)' /\ Young(i)'
  <2>1. /\ handlers[i].since \in Nat /\ handlers[i].waits \in 0 .. Latency
        /\ handlers[i].channel \in Channels /\ handlers[i].stage \in Stages
    BY <1>1, PressFields
  <2>2. /\ handlers'[i].channel = handlers[i].channel
        /\ handlers'[i].stage = handlers[i].stage
        /\ handlers'[i].waits = IF Requesting(i) THEN handlers[i].waits + 1
                                 ELSE handlers[i].waits
        /\ handlers'[i].since = IF handlers[i].stage = "done" THEN handlers[i].since
                                 ELSE handlers[i].since + 1
    BY Ticked
  <2>3. handlers[i].stage \in {"followed", "fetched", "sleeping", "deleted", "failed"} => ~Awake
    <3>1. Queued(i) => completions # <<>>
      BY DEF Queued
    <3>2. NoPress # i
      BY <1>1, PressFields DEF NoPress
    <3> QED BY <1>2, <3>1, <3>2 DEF TimeInv, PressesInv, Awake
  <2>4. age[handlers[i].channel] \in Int
        /\ age'[handlers[i].channel] \in {age[handlers[i].channel],
                                           age[handlers[i].channel] + 1}
    BY <1>1, <1>2, <2>1
  <2>5. Timely(i) /\ Young(i)
    BY DEF TimeInv
  <2>6. Timely(i)'
    BY <1>1, <1>5, <2>1, <2>2, <2>3, <2>5 DEF Timely, Requesting
  <2>7. Young(i)'
    BY <1>1, <1>5, <2>1, <2>2, <2>3, <2>4, <2>5 DEF Young
  <2> QED BY <2>6, <2>7
<1>9. ReadSoon' /\ 0 <= Slept'
  BY <1>2, <1>5 DEF TimeInv, ReadSoon
<1> QED BY <1>4, <1>6, <1>7, <1>8, <1>9, Ticked DEF TimeInv

LEMMA TimeInit == Init => TimeInv
<1> SUFFICES ASSUME Init PROVE TimeInv
  OBVIOUS
<1>1. /\ Presses = {} /\ Len(handlers) = 0 /\ handlers = <<>>
  BY DEF Init, Presses
<1>2. SleepTicks \in Nat /\ Horizon \in Nat /\ Limit["click"] \in Nat
  BY TicksAssumption, HorizonType
<1>3. TypeOK
  BY <1>1, <1>2 DEF Init, TypeOK, BudgetInit, BudgetTypeOK
<1>4. PressesInv
  BY <1>1, <1>2 DEF Init, PressesInv, BudgetInit, Kinds
<1>5. CacheInv /\ ReadSoon
  BY <1>2 DEF Init, CacheInv, ReadSoon
<1>6. 0 <= Slept
  <2>1. Unslept = {}
    BY <1>1 DEF Unslept
  <2>2. Sleeps = 0
    BY <1>1, <2>1, FS_EmptySet DEF Sleeps
  <2> QED BY <1>2, <2>2 DEF Slept, Init
<1> QED BY <1>1, <1>3, <1>4, <1>5, <1>6 DEF TimeInv

LEMMA TimeStep == TimeInv /\ [Next]_vars => TimeInv'
<1> SUFFICES ASSUME TimeInv, [Next]_vars
             PROVE  TimeInv'
  OBVIOUS
<1>1. CASE UNCHANGED vars
  BY <1>1 DEF vars, TimeInv, TypeOK, BudgetTypeOK, PressesInv, CacheInv, Timely, Young,
              ReadSoon, Presses, Queued, Awake, Slept, Sleeps, Unslept
<1>2. CASE Next
  BY <1>2, PressStep, CacheStep, CallbackStep, RequestStep, TickStep
     DEF Next, DeleteTask, OpenTask
<1> QED BY <1>1, <1>2

-----------------------------------------------------------------------------
(* The theorems. *)

\* The variables have their types: the callback thread never sleeps for longer than
\* one press asks for, and no request is under way for more than Latency.
THEOREM TypeCorrect == Spec => []TypeOK
<1>1. TimeInv => TypeOK
  BY DEF TimeInv
<1> QED BY TimeInit, TimeStep, <1>1, PTL DEF Spec

\* However many presses of Delete share the one callback thread that sleeps for each of
\* them, no press waits for longer than all of the sleeps and its own two requests.
THEOREM NoneTakesLonger == Spec => []Prompt
<1>1. TimeInv => Prompt
  <2> SUFFICES ASSUME TimeInv, NEW i \in Presses
               PROVE  handlers[i].since <= Longest
    BY DEF Prompt
  <2>1. /\ Slept \in Nat /\ Slept <= Limit["click"] * SleepTicks
        /\ Limit["click"] * SleepTicks \in Nat /\ Latency \in Nat
    BY SleptBound, LimitAssumption, TicksAssumption DEF Kinds
  <2>2. /\ handlers[i].since \in Nat /\ handlers[i].waits \in 0 .. Latency
        /\ handlers[i].stage \in Stages
    BY PressFields DEF TimeInv
  <2>3. Timely(i)
    BY DEF TimeInv
  <2>4. handlers[i].since <= 2 * Latency + Slept
    BY <2>1, <2>2, <2>3 DEF Timely, Stages
  <2> QED BY <2>1, <2>2, <2>4 DEF Longest
<1> QED BY TimeInit, TimeStep, <1>1, PTL DEF Spec

\* No callback of delete_task or open_task reads cFind later than all sleeps and one
\* request after the channel has left D++'s cache: this is how long the cache has to
\* keep a channel that is deleted while somebody presses Delete or Open, and a cache
\* that keeps it for less is read after it was freed.
THEOREM NeverReadsLate == Spec => []ReadSoon
<1>1. TimeInv => ReadSoon
  BY DEF TimeInv
<1> QED BY TimeInit, TimeStep, <1>1, PTL DEF Spec

=============================================================================
