------------------------- MODULE TaskNumberingProofs ------------------------
(***************************************************************************)
(* What TLAPS proves about TaskNumbering for every Limit and every set of  *)
(* configurations.                                                         *)
(***************************************************************************)
EXTENDS TaskNumbering, CommonLemmas

-----------------------------------------------------------------------------

\* UPDATE configs SET count_tasks writes the same number into every row and leaves
\* the rest of the rows as it is.
LEMMA CountedRows ==
    ASSUME NEW rows \in Seq(ConfigRow), NEW n \in Nat
    PROVE  /\ [i \in DOMAIN rows |-> [rows[i] EXCEPT !.count_tasks = n]] \in Seq(ConfigRow)
           /\ Len([i \in DOMAIN rows |-> [rows[i] EXCEPT !.count_tasks = n]]) = Len(rows)
<1> DEFINE counted == [i \in 1..Len(rows) |-> [rows[i] EXCEPT !.count_tasks = n]]
<1>1. DOMAIN rows = 1..Len(rows) /\ Len(rows) \in Nat
  BY LenProperties
<1>2. \A i \in 1..Len(rows) : [rows[i] EXCEPT !.count_tasks = n] \in ConfigRow
  <2> SUFFICES ASSUME NEW i \in 1..Len(rows)
               PROVE  [rows[i] EXCEPT !.count_tasks = n] \in ConfigRow
    OBVIOUS
  <2>1. rows[i] \in ConfigRow
    BY ElementOfSeq
  <2> QED BY <2>1 DEF ConfigRow
<1>3. counted \in Seq(ConfigRow) /\ Len(counted) = Len(rows)
  BY <1>1, <1>2
<1> QED BY <1>1, <1>3

LEMMA TypeInit == Init => TypeOK
BY DEF Init, TypeOK, BudgetInit, BudgetTypeOK, Idle, OutIdle

\* One step per action of the shard thread.
LEMMA TypeShard ==
    ASSUME TypeOK, ShardThread
    PROVE  TypeOK'
<1>1. ASSUME NEW k \in Configs, SetConfig(k)
      PROVE  TypeOK'
  BY <1>1, TypeOK DEF TypeOK, SetConfig, BudgetTypeOK, Kinds, Idle
<1>2. CASE DeleteConfig
  <2>1. configs' \in Seq(ConfigRow)
    BY <1>2, EmptySeq DEF DeleteConfig
  <2> QED BY <2>1, <1>2, TypeOK DEF TypeOK, DeleteConfig, BudgetTypeOK
<1>3. CASE InsertConfig
  <2>1. configs' \in Seq(ConfigRow) /\ lastId' \in Nat
    BY <1>3, TypeOK DEF TypeOK, InsertConfig, insert_config, ConfigRow
  <2> QED BY <2>1, <1>3, TypeOK DEF TypeOK, InsertConfig, BudgetTypeOK
<1>4. CASE InsertCannotOpen
  <2>1. BudgetTypeOK'
    BY <1>4, TypeOK, SpendType DEF TypeOK, InsertCannotOpen, Kinds
  <2> QED BY <2>1, <1>4, TypeOK DEF TypeOK, InsertCannotOpen
<1>5. CASE SetConfigFails
  <2>1. BudgetTypeOK'
    BY <1>5, TypeOK, SpendType DEF TypeOK, SetConfigFails, Kinds
  <2> QED BY <2>1, <1>5, TypeOK DEF TypeOK, SetConfigFails, Idle
<1>6. CASE AnswerRegistered
  BY <1>6, TypeOK DEF TypeOK, AnswerRegistered, BudgetTypeOK, Idle
<1>7. CASE CreateTask
  <2>1. BudgetTypeOK'
    BY <1>7, TypeOK, SpendType DEF TypeOK, CreateTask, Kinds
  <2>2. get_config \in ConfigRow
    BY <1>7, TypeOK DEF TypeOK, CreateTask, find_config, get_config
  <2>3. guildQ' \in Seq(Name)
    BY <2>2, <1>7, TypeOK DEF TypeOK, CreateTask, ConfigRow, Name
  <2> QED BY <2>1, <2>3, <1>7, TypeOK DEF TypeOK, CreateTask
<1> QED
  BY <1>1, <1>2, <1>3, <1>4, <1>5, <1>6, <1>7, ShardThread DEF ShardThread

\* One step per action of the callback thread.
LEMMA TypeCallback ==
    ASSUME TypeOK, CallbackThread
    PROVE  TypeOK'
<1>1. CASE OnCreated
  <2>1. BudgetTypeOK'
    BY <1>1, TypeOK, SpendType DEF TypeOK, OnCreated, Kinds, BudgetTypeOK
  <2> QED BY <2>1, <1>1, TypeOK DEF TypeOK, OnCreated
<1>2. CASE SelectCount
  <2>1. BudgetTypeOK'
    BY <1>2, TypeOK, SpendType DEF TypeOK, SelectCount, Kinds, BudgetTypeOK
  <2>2. find_config => get_config \in ConfigRow
    BY TypeOK DEF TypeOK, find_config, get_config
  <2>3. out' \in [step : {"idle", "select", "update"}, count_tasks : Nat]
    BY <2>2, <1>2 DEF SelectCount, ConfigRow
  <2> QED BY <2>1, <2>3, <1>2, TypeOK DEF TypeOK, SelectCount
<1>3. CASE UpdateCount
  <2>1. configs' \in Seq(ConfigRow)
    BY <1>3, TypeOK, CountedRows DEF TypeOK, UpdateCount, update_count
  <2> QED BY <2>1, <1>3, TypeOK DEF TypeOK, UpdateCount, BudgetTypeOK, OutIdle
<1>4. CASE UpdateFails
  <2>1. BudgetTypeOK'
    BY <1>4, TypeOK, SpendType DEF TypeOK, UpdateFails, Kinds
  <2> QED BY <2>1, <1>4, TypeOK DEF TypeOK, UpdateFails, OutIdle
<1> QED
  BY <1>1, <1>2, <1>3, <1>4, CallbackThread DEF CallbackThread

LEMMA TypeStep == TypeOK /\ [Next]_vars => TypeOK'
<1> SUFFICES ASSUME TypeOK, [Next]_vars
             PROVE  TypeOK'
  OBVIOUS
<1>1. CASE ShardThread
  BY <1>1, TypeShard
<1>2. CASE CallbackThread
  BY <1>2, TypeCallback
<1>3. CASE RunChannelCreate
  BY <1>3, TypeOK DEF TypeOK, RunChannelCreate, BudgetTypeOK
<1>4. CASE FailChannelCreate \/ LoseChannelCreated
  <2>1. BudgetTypeOK'
    BY <1>4, TypeOK, SpendType DEF TypeOK, FailChannelCreate, LoseChannelCreated, Kinds
  <2>2. CASE FailChannelCreate
    BY <2>1, <2>2, TypeOK DEF TypeOK, FailChannelCreate
  <2>3. CASE LoseChannelCreated
    BY <2>1, <2>3, TypeOK DEF TypeOK, LoseChannelCreated
  <2> QED BY <2>2, <2>3, <1>4
<1>5. CASE Crash
  <2>1. BudgetTypeOK'
    BY <1>5, TypeOK, SpendType DEF TypeOK, Crash, Kinds
  <2> QED BY <2>1, <1>5, TypeOK DEF TypeOK, Crash, Idle, OutIdle
<1>6. CASE UNCHANGED vars
  BY <1>6, TypeOK DEF TypeOK, vars, BudgetTypeOK
<1> QED
  BY <1>1, <1>2, <1>3, <1>4, <1>5, <1>6, [Next]_vars DEF Next

\* Every variable keeps its type: in particular the two threads never leave a row
\* of configs, a number or a handler half built.
THEOREM TypeCorrect == Spec => []TypeOK
<1>1. TypeOK /\ [Next]_vars => TypeOK'
  BY TypeStep
<1> QED BY TypeInit, <1>1, PTL DEF Spec

-----------------------------------------------------------------------------
(* CountBounded is not inductive: what keeps UPDATE from writing too large a    *)
(* number is that SELECT read its number before any later completion was        *)
(* counted, and what makes the 0 of a new row safe is that there are no more    *)
(* uncounted completions than channels.                                         *)

SelectedBounded ==
    out.step = "update" => out.count_tasks + outQ <= Len(created)

CountInv ==
    /\ Uncounted <= Len(created)
    /\ CountBounded
    /\ SelectedBounded

LEMMA CountInit == Init => CountInv
BY DEF Init, CountInv, CountBounded, SelectedBounded, Uncounted, OutIdle

LEMMA RowCounts ==
    ASSUME TypeOK
    PROVE  \A i \in DOMAIN configs : configs[i].count_tasks \in Nat
<1> SUFFICES ASSUME NEW i \in DOMAIN configs
             PROVE  configs[i].count_tasks \in Nat
  OBVIOUS
<1>1. configs \in Seq(ConfigRow)
  BY TypeOK DEF TypeOK
<1>2. configs[i] \in ConfigRow
  BY <1>1, ElementOfSeq, LenProperties
<1> QED BY <1>2 DEF ConfigRow

LEMMA CountShard ==
    ASSUME TypeOK, CountInv, ShardThread
    PROVE  CountInv'
<1>0. UNCHANGED <<created, outQ, out>>
  BY ShardThread DEF ShardThread, SetConfig, DeleteConfig, InsertConfig,
     InsertCannotOpen, SetConfigFails, AnswerRegistered, CreateTask
<1>1. (Uncounted <= Len(created))' /\ SelectedBounded'
  BY <1>0, CountInv DEF CountInv, Uncounted, SelectedBounded
<1>2. CountBounded'
  <2>1. CASE configs' = configs
    BY <2>1, <1>0, CountInv DEF CountInv, CountBounded, Uncounted
  <2>2. CASE DeleteConfig
    <3>1. DOMAIN configs' = {}
      BY <2>2 DEF DeleteConfig
    <3> QED BY <3>1 DEF CountBounded
  <2>3. CASE InsertConfig
    <3> DEFINE row == [id |-> lastId + 1, config |-> shard.config, count_tasks |-> 0]
    <3>1. configs' = Append(configs, row)
      BY <2>3 DEF InsertConfig, insert_config
    <3>2. configs \in Seq(ConfigRow) /\ row \in ConfigRow
      BY <2>3, TypeOK DEF TypeOK, InsertConfig, ConfigRow
    <3>3. ASSUME NEW i \in DOMAIN configs'
          PROVE  (i \in DOMAIN configs /\ configs'[i] = configs[i]) \/ configs'[i] = row
      BY <3>1, <3>2, <3>3, AppendProperties
    <3>4. Uncounted \in Nat /\ Uncounted' = Uncounted /\ Len(created) \in Nat
      BY <1>0, TypeOK, LenProperties DEF TypeOK, Uncounted
    <3>5. row.count_tasks + Uncounted <= Len(created)
      BY <3>4, CountInv DEF CountInv
    <3> HIDE DEF row
    <3> QED BY <3>3, <3>4, <3>5, <1>0, CountInv DEF CountInv, CountBounded
  <2> QED
    BY <2>1, <2>2, <2>3, ShardThread DEF ShardThread, SetConfig, InsertCannotOpen,
       SetConfigFails, AnswerRegistered, CreateTask
<1> QED BY <1>1, <1>2 DEF CountInv

LEMMA CountCallback ==
    ASSUME TypeOK, CountInv, CallbackThread
    PROVE  CountInv'
<1> USE DEF OutIdle
<1>1. \A i \in DOMAIN configs : configs[i].count_tasks \in Nat
  BY TypeOK, RowCounts
<1>2. Len(created) \in Nat
  BY TypeOK, LenProperties DEF TypeOK
<1>3. CASE OnCreated
  BY <1>1, <1>2, <1>3, TypeOK, CountInv
     DEF OnCreated, TypeOK, CountInv, CountBounded, SelectedBounded, Uncounted
<1>4. CASE SelectCount
  <2>1. find_config => 1 \in DOMAIN configs /\ get_config = configs[1]
    BY TypeOK, LenProperties, EmptySeq, HeadTailProperties
       DEF TypeOK, find_config, get_config
  <2>2. find_config => get_config.count_tasks + 1 + outQ <= Len(created)
    BY <2>1, <1>1, <1>2, <1>4, TypeOK, CountInv
       DEF SelectCount, TypeOK, CountInv, CountBounded, Uncounted
  <2>3. SelectedBounded'
    BY <2>1, <2>2, <1>1, <1>2, <1>4, TypeOK, CountInv
       DEF SelectCount, TypeOK, CountInv, SelectedBounded, Uncounted
  <2> QED
    BY <2>3, <1>2, <1>4, TypeOK, CountInv
       DEF SelectCount, TypeOK, CountInv, CountBounded, Uncounted
<1>5. CASE UpdateCount
  <2>1. ASSUME NEW i \in DOMAIN configs'
        PROVE  configs'[i].count_tasks = out.count_tasks
    <3>1. i \in DOMAIN configs /\ configs'[i] = [configs[i] EXCEPT !.count_tasks = out.count_tasks]
      BY <1>5, <2>1 DEF UpdateCount, update_count
    <3>2. configs[i] \in ConfigRow
      BY <3>1, TypeOK, ElementOfSeq, LenProperties DEF TypeOK
    <3> QED BY <3>1, <3>2 DEF ConfigRow
  <2> QED
    BY <2>1, <1>2, <1>5, TypeOK, CountInv
       DEF UpdateCount, TypeOK, CountInv, CountBounded, SelectedBounded, Uncounted
<1>6. CASE UpdateFails
  BY <1>1, <1>2, <1>6, TypeOK, CountInv
     DEF UpdateFails, TypeOK, CountInv, CountBounded, SelectedBounded, Uncounted
<1> QED
  BY <1>3, <1>4, <1>5, <1>6, CallbackThread DEF CallbackThread

LEMMA CountStep == TypeOK /\ CountInv /\ [Next]_vars => CountInv'
<1> SUFFICES ASSUME TypeOK, CountInv, [Next]_vars
             PROVE  CountInv'
  OBVIOUS
<1>0. \A i \in DOMAIN configs : configs[i].count_tasks \in Nat
  BY TypeOK, RowCounts
<1>1. CASE ShardThread
  BY <1>1, CountShard
<1>2. CASE CallbackThread
  BY <1>2, CountCallback
<1>3. CASE RunChannelCreate \/ LoseChannelCreated
  <2>1. Head(guildQ) \in Name
    BY <1>3, TypeOK, HeadTailProperties DEF TypeOK, RunChannelCreate, LoseChannelCreated
  <2>2. Len(created') = Len(created) + 1 /\ Len(created) \in Nat
    BY <2>1, <1>3, TypeOK, AppendProperties, LenProperties
       DEF TypeOK, RunChannelCreate, LoseChannelCreated
  <2>3. CASE RunChannelCreate
    BY <2>2, <2>3, <1>0, TypeOK, CountInv
       DEF RunChannelCreate, TypeOK, CountInv, CountBounded, SelectedBounded, Uncounted
  <2>4. CASE LoseChannelCreated
    BY <2>2, <2>4, <1>0, TypeOK, CountInv
       DEF LoseChannelCreated, TypeOK, CountInv, CountBounded, SelectedBounded, Uncounted
  <2> QED BY <2>3, <2>4, <1>3
<1>4. CASE FailChannelCreate
  BY <1>4, CountInv
     DEF FailChannelCreate, CountInv, CountBounded, SelectedBounded, Uncounted
<1>5. CASE Crash
  BY <1>0, <1>5, TypeOK, CountInv, LenProperties
     DEF Crash, TypeOK, CountInv, CountBounded, SelectedBounded, Uncounted, OutIdle
<1>6. CASE UNCHANGED vars
  BY <1>6, CountInv DEF vars, CountInv, CountBounded, SelectedBounded, Uncounted
<1> QED
  BY <1>1, <1>2, <1>3, <1>4, <1>5, <1>6, [Next]_vars DEF Next

\* count_tasks is never ahead of the channels that were created, for every number of
\* failures, crashes and reconfigurations, in whatever order the two threads run.
THEOREM NumbersNeverAhead == Spec => []CountBounded
<1>1. TypeOK /\ CountInv /\ [Next]_vars => CountInv'
  BY CountStep
<1>2. CountInv => CountBounded
  BY DEF CountInv
<1> QED BY TypeCorrect, CountInit, <1>1, <1>2, PTL DEF Spec

-----------------------------------------------------------------------------
(* Faults, rows and numbers. *)

\* A failing call or a crash is remembered.
LEMMA FaultsStay ==
    ASSUME TypeOK, [Next]_vars, NEW k \in {"db", "response", "crash"}, None(k)'
    PROVE  None(k)
<1>0. BudgetTypeOK /\ k \in Kinds
  BY TypeOK DEF TypeOK, Kinds
<1>1. ASSUME NEW j \in Kinds, Spend(j)
      PROVE  None(k)
  BY <1>0, <1>1, FaultsKept
<1>2. ASSUME NEW c \in Configs, SetConfig(c)
      PROVE  None(k)
  BY <1>0, <1>2 DEF SetConfig, None, BudgetTypeOK, Kinds
<1>3. ASSUME spent' = spent
      PROVE  None(k)
  BY <1>3 DEF None
<1> QED
  BY <1>1, <1>2, <1>3
     DEF Next, ShardThread, CallbackThread, DeleteConfig, InsertConfig,
         InsertCannotOpen, SetConfigFails, AnswerRegistered, CreateTask, OnCreated,
         SelectCount, UpdateCount, UpdateFails, RunChannelCreate, LoseChannelCreated,
         FailChannelCreate, Crash, vars, Kinds

\* The row that a SELECT returns.
LEMMA FirstRow ==
    ASSUME TypeOK
    PROVE  /\ find_config => 1 \in DOMAIN configs /\ get_config = configs[1]
           /\ find_config => get_config \in ConfigRow
           /\ \A i \in DOMAIN configs : configs[i] \in ConfigRow
<1>1. configs \in Seq(ConfigRow)
  BY TypeOK DEF TypeOK
<1>2. \A i \in DOMAIN configs : configs[i] \in ConfigRow
  BY <1>1, ElementOfSeq, LenProperties
<1>3. find_config => 1 \in DOMAIN configs /\ get_config = configs[1]
  BY <1>1, LenProperties, EmptySeq, HeadTailProperties DEF find_config, get_config
<1> QED BY <1>2, <1>3

\* UPDATE leaves the same rows with another count.
LEMMA Updated ==
    ASSUME TypeOK, UpdateCount
    PROVE  /\ DOMAIN configs' = DOMAIN configs
           /\ \A i \in DOMAIN configs : /\ configs'[i].id = configs[i].id
                                        /\ configs'[i].count_tasks = out.count_tasks
           /\ find_config' <=> find_config
           /\ find_config => /\ get_config'.id = get_config.id
                             /\ get_config'.config = get_config.config
                             /\ get_config'.count_tasks = out.count_tasks
<1>1. configs' = [i \in DOMAIN configs |-> [configs[i] EXCEPT !.count_tasks = out.count_tasks]]
  BY DEF UpdateCount, update_count
<1>2. \A i \in DOMAIN configs : /\ configs'[i].id = configs[i].id
                                /\ configs'[i].config = configs[i].config
                                /\ configs'[i].count_tasks = out.count_tasks
  BY <1>1, FirstRow DEF ConfigRow
<1>3. configs \in Seq(ConfigRow) /\ out.count_tasks \in Nat
  BY TypeOK DEF TypeOK
<1>4. configs' \in Seq(ConfigRow) /\ Len(configs') = Len(configs) /\ Len(configs) \in Nat
  BY <1>1, <1>3, CountedRows, LenProperties
<1>5. find_config' <=> find_config
  BY <1>3, <1>4, EmptySeq DEF find_config
<1>6. find_config => get_config' = configs'[1] /\ get_config = configs[1] /\ 1 \in DOMAIN configs
  BY <1>3, <1>4, <1>5, EmptySeq, HeadTailProperties, LenProperties DEF find_config, get_config
<1> QED BY <1>1, <1>2, <1>5, <1>6

-----------------------------------------------------------------------------
(* RegisteredWithoutFaults needs to know where /setconfig is: the row it looks  *)
(* for is the only one, and once it is ready to insert there is none.           *)

SetConfigInv ==
    None("db") =>
        /\ Len(configs) <= 1
        /\ shard.step = "insert" => configs = <<>>
        /\ shard.step = "registered" => InForce(shard.config)

LEMMA SetConfigStep ==
    TypeOK /\ SetConfigInv /\ [Next]_vars => SetConfigInv'
<1> SUFFICES ASSUME TypeOK, SetConfigInv, [Next]_vars, None("db")'
             PROVE  (/\ Len(configs) <= 1
                     /\ shard.step = "insert" => configs = <<>>
                     /\ shard.step = "registered" => InForce(shard.config))'
  BY DEF SetConfigInv
<1>0. configs \in Seq(ConfigRow) /\ BudgetTypeOK
  BY TypeOK DEF TypeOK
<1>1. ASSUME Spend("db")
      PROVE  FALSE
  BY <1>0, <1>1, FaultsKept DEF Kinds
<1>2. None("db")
  BY FaultsStay
<1>3. /\ Len(configs) <= 1
      /\ shard.step = "insert" => configs = <<>>
      /\ shard.step = "registered" => InForce(shard.config)
  BY <1>2, SetConfigInv DEF SetConfigInv
<1>4. ASSUME UNCHANGED <<configs, shard>>
      PROVE  (/\ Len(configs) <= 1
              /\ shard.step = "insert" => configs = <<>>
              /\ shard.step = "registered" => InForce(shard.config))'
  BY <1>3, <1>4 DEF InForce, get_config
<1>5. ASSUME NEW k \in Configs, SetConfig(k)
      PROVE  (/\ Len(configs) <= 1
              /\ shard.step = "insert" => configs = <<>>
              /\ shard.step = "registered" => InForce(shard.config))'
  <2>1. spent'["db"] = 0 /\ spent["db"] = 0
    BY <1>2 DEF None
  <2>2. \/ find_config /\ shard' = [step |-> "delete_config", config |-> k]
        \/ ~find_config /\ shard' = [step |-> "insert", config |-> k]
    BY <2>1, <1>0, <1>5 DEF SetConfig, BudgetTypeOK, Kinds
  <2> QED BY <2>2, <1>3, <1>5 DEF SetConfig, find_config
<1>6. CASE DeleteConfig
  BY <1>6, EmptySeq, TypeOK DEF DeleteConfig, TypeOK
<1>7. CASE InsertConfig
  <2> DEFINE row == [id |-> lastId + 1, config |-> shard.config, count_tasks |-> 0]
  <2>1. configs = <<>> /\ configs' = Append(configs, row)
    BY <1>3, <1>7 DEF InsertConfig, insert_config
  <2>2. Len(configs') = 1 /\ Head(configs') = row
    BY <2>1
  <2>3. shard'.step = "registered" /\ shard'.config = shard.config
    BY <1>7, TypeOK DEF InsertConfig, TypeOK
  <2> QED BY <2>2, <2>3 DEF InForce, get_config
<1>8. CASE UpdateCount
  <2>1. Len(configs') = Len(configs)
    BY <1>0, <1>8, CountedRows, TypeOK DEF UpdateCount, update_count, TypeOK
  <2>2. configs = <<>> => configs' = <<>>
    BY <2>1, <1>0, <1>8, CountedRows, TypeOK, EmptySeq
       DEF UpdateCount, update_count, TypeOK
  <2>3. ASSUME Len(configs) = 1
        PROVE  Head(configs').config = Head(configs).config
    <3>1. 1 \in DOMAIN configs /\ configs[1] \in ConfigRow
      BY <2>3, <1>0, LenProperties, ElementOfSeq
    <3>2. configs'[1] = [configs[1] EXCEPT !.count_tasks = out.count_tasks]
      BY <3>1, <1>8 DEF UpdateCount, update_count
    <3>3. configs' \in Seq(ConfigRow)
      BY <1>0, <1>8, CountedRows, TypeOK DEF UpdateCount, update_count, TypeOK
    <3>4. Head(configs') = configs'[1]
      BY <3>3, <2>1, <2>3, HeadTailProperties, EmptySeq
    <3>5. Head(configs) = configs[1]
      BY <2>3, <1>0, HeadTailProperties, EmptySeq
    <3> QED BY <3>1, <3>2, <3>4, <3>5 DEF ConfigRow
  <2>4. shard' = shard
    BY <1>8 DEF UpdateCount
  <2> QED BY <2>1, <2>2, <2>3, <2>4, <1>3 DEF InForce, get_config
<1>9. CASE AnswerRegistered \/ SetConfigFails \/ Crash
  BY <1>3, <1>9 DEF AnswerRegistered, SetConfigFails, Crash, Idle
<1>10. CASE InsertCannotOpen \/ UpdateFails
  BY <1>1, <1>10 DEF InsertCannotOpen, UpdateFails
<1>11. CASE \/ CreateTask \/ OnCreated \/ SelectCount
            \/ RunChannelCreate \/ LoseChannelCreated \/ FailChannelCreate
  BY <1>4, <1>11 DEF CreateTask, OnCreated, SelectCount, RunChannelCreate,
     LoseChannelCreated, FailChannelCreate
<1>12. CASE UNCHANGED vars
  BY <1>4, <1>12 DEF vars
<1> QED
  BY <1>5, <1>6, <1>7, <1>8, <1>9, <1>10, <1>11, <1>12, [Next]_vars
     DEF Next, ShardThread, CallbackThread

\* As long as no database call failed, "Configuration successfully registered!" means
\* what it says: the other thread's UPDATE, which may run between any two statements
\* of add_config, neither brings the old row back nor adds one.
THEOREM RegisteredIsTrue == Spec => []RegisteredWithoutFaults
<1>1. Init => SetConfigInv
  BY DEF Init, SetConfigInv, Idle
<1>2. TypeOK /\ SetConfigInv /\ [Next]_vars => SetConfigInv'
  BY SetConfigStep
<1>3. SetConfigInv => RegisteredWithoutFaults
  BY DEF SetConfigInv, RegisteredWithoutFaults, RegisteredMeansInForce
<1> QED BY TypeCorrect, <1>1, <1>2, <1>3, PTL DEF Spec

-----------------------------------------------------------------------------
(* CountGrowsWithoutFaults: the number that SELECT led to is not smaller than   *)
(* any count that the UPDATE will find, also when /setconfig replaces the row.  *)

GrowInv ==
    None("db") /\ out.step = "update" =>
        \A i \in DOMAIN configs : configs[i].count_tasks <= out.count_tasks

LEMMA GrowStep ==
    ASSUME TypeOK, SetConfigInv, GrowInv, [Next]_vars
    PROVE  GrowInv'
<1> SUFFICES ASSUME None("db")', out'.step = "update"
             PROVE  \A i \in DOMAIN configs' : configs'[i].count_tasks <= out'.count_tasks
  BY DEF GrowInv
<1>1. None("db")
  BY FaultsStay
<1>2. ~Spend("db")
  BY FaultsKept DEF TypeOK, Kinds
<1>3. \A i \in DOMAIN configs : configs[i].count_tasks \in Nat
  BY RowCounts
<1>4. out.count_tasks \in Nat
  BY DEF TypeOK
<1>5. CASE UNCHANGED <<configs, out>>
  BY <1>1, <1>5 DEF GrowInv
<1>6. CASE DeleteConfig
  BY <1>6 DEF DeleteConfig
<1>7. CASE InsertConfig
  <2> DEFINE row == [id |-> lastId + 1, config |-> shard.config, count_tasks |-> 0]
  <2>1. configs' = Append(configs, row) /\ out' = out
    BY <1>7 DEF InsertConfig, insert_config
  <2>2. configs \in Seq(ConfigRow) /\ row \in ConfigRow /\ row.count_tasks = 0
    BY <1>7 DEF TypeOK, InsertConfig, ConfigRow
  <2> HIDE DEF row
  <2>3. \A i \in DOMAIN configs' :
           (i \in DOMAIN configs /\ configs'[i] = configs[i]) \/ configs'[i] = row
    BY <2>1, <2>2, AppendElements
  <2> QED BY <1>1, <1>4, <2>1, <2>2, <2>3 DEF GrowInv
<1>8. CASE SelectCount
  <2>1. UNCHANGED configs /\ out'.count_tasks = IF find_config THEN get_config.count_tasks + 1 ELSE 0
    BY <1>2, <1>8 DEF SelectCount
  <2>2. \A i \in DOMAIN configs : find_config /\ i = 1
    <3>1. Len(configs) <= 1 /\ configs \in Seq(ConfigRow)
      BY <1>1 DEF SetConfigInv, TypeOK
    <3>2. DOMAIN configs = 1 .. Len(configs) /\ Len(configs) \in Nat
      BY <3>1, LenProperties
    <3> QED BY <3>1, <3>2 DEF find_config
  <2> QED BY <1>3, <2>1, <2>2, FirstRow
<1>9. CASE OnCreated \/ UpdateCount \/ UpdateFails \/ Crash
  BY <1>2, <1>5, <1>9 DEF OnCreated, UpdateCount, UpdateFails, Crash, OutIdle
<1>10. CASE (\E k \in Configs : SetConfig(k)) \/ InsertCannotOpen \/ SetConfigFails
              \/ AnswerRegistered \/ CreateTask \/ RunChannelCreate \/ LoseChannelCreated
              \/ FailChannelCreate
  BY <1>5, <1>10 DEF SetConfig, InsertCannotOpen, SetConfigFails, AnswerRegistered, CreateTask,
                     RunChannelCreate, LoseChannelCreated, FailChannelCreate
<1>11. CASE UNCHANGED vars
  BY <1>5, <1>11 DEF vars
<1> QED
  BY <1>6, <1>7, <1>8, <1>9, <1>10, <1>11 DEF Next, ShardThread, CallbackThread

LEMMA Grow == Spec => [](TypeOK /\ SetConfigInv /\ GrowInv)
<1>1. Init => SetConfigInv /\ GrowInv
  BY DEF Init, SetConfigInv, GrowInv, Idle, OutIdle
<1>2. TypeOK /\ SetConfigInv /\ GrowInv /\ [Next]_vars => SetConfigInv' /\ GrowInv'
  BY SetConfigStep, GrowStep
<1> QED BY TypeCorrect, <1>1, <1>2, PTL DEF Spec

\* As long as no database call failed, update_count_tasks never makes a count smaller,
\* although between its SELECT and its UPDATE /setconfig may delete the row, or put a
\* new one in its place.
THEOREM CountsGrow == Spec => CountGrowsWithoutFaults
<1>1. ASSUME TypeOK, GrowInv, [Next]_vars, None("db")'
      PROVE  NoDrop
  <2>1. None("db")
    BY <1>1, FaultsStay
  <2>2. \A i \in DOMAIN configs : configs[i].count_tasks \in Nat
    BY <1>1, RowCounts
  <2>3. CASE configs' = configs
    BY <2>2, <2>3 DEF NoDrop
  <2>4. CASE DeleteConfig
    BY <2>4 DEF DeleteConfig, NoDrop
  <2>5. CASE InsertConfig
    <3> DEFINE row == [id |-> lastId + 1, config |-> shard.config, count_tasks |-> 0]
    <3>1. configs' = Append(configs, row) /\ configs \in Seq(ConfigRow) /\ row \in ConfigRow
      BY <1>1, <2>5 DEF InsertConfig, insert_config, TypeOK, ConfigRow
    <3> HIDE DEF row
    <3>2. \A i \in DOMAIN configs : configs'[i] = configs[i]
      BY <3>1, AppendProperties, LenProperties
    <3> QED BY <2>2, <3>2 DEF NoDrop
  <2>6. CASE UpdateCount
    <3>1. out.step = "update"
      BY <2>6 DEF UpdateCount
    <3> QED BY <1>1, <2>1, <2>6, <3>1, Updated DEF GrowInv, NoDrop
  <2> QED
    BY <1>1, <2>3, <2>4, <2>5, <2>6
       DEF Next, ShardThread, CallbackThread, SetConfig, InsertCannotOpen, SetConfigFails,
           AnswerRegistered, CreateTask, OnCreated, SelectCount, UpdateFails,
           RunChannelCreate, LoseChannelCreated, FailChannelCreate, Crash, vars
<1>2. TypeOK /\ GrowInv /\ [Next]_vars => [None("db")' => NoDrop]_vars
  BY <1>1
<1> QED BY Grow, <1>2, PTL DEF Spec, CountGrowsWithoutFaults

-----------------------------------------------------------------------------
(* FreshNumber: a number in use is smaller than the count that will be reached  *)
(* once every completion has been counted.                                      *)

\* An id is never used for two rows.
RowIdsInv ==
    /\ \A i \in DOMAIN configs : configs[i].id <= lastId
    /\ \A i \in DOMAIN guildQ : guildQ[i].id <= lastId
    /\ \A i \in DOMAIN created : created[i].id <= lastId

\* The count of the row after the completions that wait.
Expected ==
    IF out.step = "update" THEN out.count_tasks + outQ
    ELSE get_config.count_tasks + Uncounted

\* What was captured at a click is not more than the row's count, and what was given to
\* a channel is less than the count to be expected.
FreshInv ==
    find_config /\ None("db") /\ None("response") /\ None("crash") =>
        /\ \A i \in DOMAIN guildQ :
              guildQ[i].id = get_config.id => guildQ[i].number <= get_config.count_tasks
        /\ \A i \in DOMAIN created :
              created[i].id = get_config.id => created[i].number < Expected

LEMMA NameTypes ==
    ASSUME TypeOK
    PROVE  /\ \A i \in DOMAIN guildQ : guildQ[i] \in Name
           /\ \A i \in DOMAIN created : created[i] \in Name
           /\ \A i \in DOMAIN configs : configs[i].id \in Nat
BY FirstRow, ElementOfSeq, LenProperties DEF TypeOK, ConfigRow

LEMMA RowIdsStep ==
    ASSUME TypeOK, RowIdsInv, [Next]_vars
    PROVE  RowIdsInv'
<1>0. /\ lastId \in Nat /\ guildQ \in Seq(Name) /\ created \in Seq(Name)
      /\ configs \in Seq(ConfigRow)
  BY DEF TypeOK
<1>1. CASE UNCHANGED <<configs, lastId, guildQ, created>>
  BY <1>1 DEF RowIdsInv
<1>2. CASE DeleteConfig
  BY <1>2 DEF DeleteConfig, RowIdsInv
<1>3. CASE InsertConfig
  <2> DEFINE row == [id |-> lastId + 1, config |-> shard.config, count_tasks |-> 0]
  <2>1. /\ configs' = Append(configs, row) /\ lastId' = lastId + 1
        /\ UNCHANGED <<guildQ, created>>
    BY <1>3 DEF InsertConfig, insert_config
  <2>2. row \in ConfigRow /\ row.id = lastId + 1
    BY <1>0, <1>3 DEF TypeOK, InsertConfig, ConfigRow
  <2> HIDE DEF row
  <2>3. \A i \in DOMAIN configs' :
           (i \in DOMAIN configs /\ configs'[i] = configs[i]) \/ configs'[i] = row
    BY <1>0, <2>1, <2>2, AppendElements
  <2>4. \A n \in Nat : n <= lastId => n <= lastId + 1
    BY <1>0
  <2>5. /\ \A i \in DOMAIN guildQ : guildQ[i].id \in Nat
        /\ \A i \in DOMAIN created : created[i].id \in Nat
        /\ \A i \in DOMAIN configs : configs[i].id \in Nat
    BY NameTypes DEF Name
  <2> QED BY <1>0, <2>1, <2>2, <2>3, <2>4, <2>5 DEF RowIdsInv
<1>4. CASE CreateTask
  <2> DEFINE n == [id |-> get_config.id, number |-> get_config.count_tasks]
  <2>1. guildQ' = Append(guildQ, n) /\ UNCHANGED <<configs, lastId, created>> /\ find_config
    BY <1>4 DEF CreateTask
  <2>2. n \in Name /\ n.id = configs[1].id /\ 1 \in DOMAIN configs
    BY <2>1, FirstRow DEF ConfigRow, Name
  <2> HIDE DEF n
  <2>3. \A i \in DOMAIN guildQ' :
           (i \in DOMAIN guildQ /\ guildQ'[i] = guildQ[i]) \/ guildQ'[i] = n
    BY <1>0, <2>1, <2>2, AppendElements
  <2> QED BY <2>1, <2>2, <2>3 DEF RowIdsInv
<1>5. CASE RunChannelCreate \/ LoseChannelCreated
  <2>1. /\ guildQ # <<>> /\ guildQ' = Tail(guildQ) /\ created' = Append(created, Head(guildQ))
        /\ UNCHANGED <<configs, lastId>>
    BY <1>5 DEF RunChannelCreate, LoseChannelCreated
  <2>2. /\ Head(guildQ) \in Name /\ 1 \in DOMAIN guildQ /\ Head(guildQ) = guildQ[1]
        /\ \A i \in DOMAIN guildQ' : i + 1 \in DOMAIN guildQ /\ guildQ'[i] = guildQ[i + 1]
    BY <1>0, <2>1, TailElements
  <2>3. \A i \in DOMAIN created' :
           (i \in DOMAIN created /\ created'[i] = created[i]) \/ created'[i] = Head(guildQ)
    BY <1>0, <2>1, <2>2, AppendElements
  <2> QED BY <2>1, <2>2, <2>3 DEF RowIdsInv
<1>6. CASE FailChannelCreate
  <2>1. guildQ # <<>> /\ guildQ' = Tail(guildQ) /\ UNCHANGED <<configs, lastId, created>>
    BY <1>6 DEF FailChannelCreate
  <2>2. \A i \in DOMAIN guildQ' : i + 1 \in DOMAIN guildQ /\ guildQ'[i] = guildQ[i + 1]
    BY <1>0, <2>1, TailElements
  <2> QED BY <2>1, <2>2 DEF RowIdsInv
<1>7. CASE UpdateCount
  BY <1>7, Updated DEF UpdateCount, RowIdsInv
<1>8. CASE Crash
  BY <1>8 DEF Crash, RowIdsInv
<1> QED
  BY <1>1, <1>2, <1>3, <1>4, <1>5, <1>6, <1>7, <1>8
     DEF Next, ShardThread, CallbackThread, SetConfig, InsertCannotOpen, SetConfigFails,
         AnswerRegistered, OnCreated, SelectCount, UpdateFails, vars

LEMMA FreshStep ==
    ASSUME TypeOK, SetConfigInv, GrowInv, RowIdsInv, FreshInv, [Next]_vars
    PROVE  FreshInv'
<1> SUFFICES ASSUME find_config', None("db")', None("response")', None("crash")'
             PROVE  /\ \A i \in DOMAIN guildQ' :
                          guildQ'[i].id = get_config'.id
                             => guildQ'[i].number <= get_config'.count_tasks
                    /\ \A i \in DOMAIN created' :
                          created'[i].id = get_config'.id => created'[i].number < Expected'
  BY DEF FreshInv
<1>1. None("db") /\ None("response") /\ None("crash")
  BY FaultsStay
<1>2. ~Spend("db") /\ ~Spend("response") /\ ~Spend("crash")
  BY FaultsKept DEF TypeOK, Kinds
<1>3. /\ lastId \in Nat /\ guildQ \in Seq(Name) /\ created \in Seq(Name)
      /\ configs \in Seq(ConfigRow) /\ outQ \in Nat /\ out.count_tasks \in Nat
      /\ out.step \in {"idle", "select", "update"}
  BY DEF TypeOK
<1>4. /\ \A i \in DOMAIN guildQ : guildQ[i].id \in Nat /\ guildQ[i].number \in Nat
      /\ \A i \in DOMAIN created : created[i].id \in Nat /\ created[i].number \in Nat
      /\ \A i \in DOMAIN configs : configs[i].id \in Nat /\ configs[i].count_tasks \in Nat
  BY NameTypes, RowCounts DEF Name
<1>5. find_config => /\ 1 \in DOMAIN configs /\ get_config = configs[1]
                     /\ get_config.id \in Nat /\ get_config.count_tasks \in Nat
  BY <1>4, FirstRow
<1>6. find_config =>
         /\ \A i \in DOMAIN guildQ :
               guildQ[i].id = get_config.id => guildQ[i].number <= get_config.count_tasks
         /\ \A i \in DOMAIN created :
               created[i].id = get_config.id => created[i].number < Expected
  BY <1>1 DEF FreshInv
<1>7. CASE UNCHANGED <<configs, guildQ, created, outQ, out>>
  BY <1>6, <1>7 DEF find_config, get_config, Expected, Uncounted
<1>8. CASE DeleteConfig
  BY <1>8 DEF DeleteConfig, find_config
<1>9. CASE InsertConfig
  <2> DEFINE row == [id |-> lastId + 1, config |-> shard.config, count_tasks |-> 0]
  <2>1. configs = <<>>
    BY <1>1, <1>9 DEF SetConfigInv, InsertConfig
  <2>2. get_config' = row /\ UNCHANGED <<guildQ, created>>
    BY <1>9, <2>1 DEF InsertConfig, insert_config, get_config
  <2>3. get_config'.id = lastId + 1
    BY <2>2
  <2> QED BY <1>3, <1>4, <2>2, <2>3 DEF RowIdsInv
<1>10. CASE CreateTask
  <2> DEFINE n == [id |-> get_config.id, number |-> get_config.count_tasks]
  <2>1. /\ guildQ' = Append(guildQ, n) /\ UNCHANGED <<configs, created, outQ, out>>
        /\ find_config
    BY <1>10 DEF CreateTask
  <2>2. n \in Name /\ n.number = get_config.count_tasks
    BY <1>5, <2>1 DEF Name
  <2> HIDE DEF n
  <2>3. \A i \in DOMAIN guildQ' :
           (i \in DOMAIN guildQ /\ guildQ'[i] = guildQ[i]) \/ guildQ'[i] = n
    BY <1>3, <2>1, <2>2, AppendElements
  <2>4. get_config' = get_config /\ Expected' = Expected
    BY <2>1 DEF get_config, Expected, Uncounted
  <2> QED BY <1>5, <1>6, <2>1, <2>2, <2>3, <2>4
<1>11. CASE RunChannelCreate
  <2>1. /\ guildQ # <<>> /\ guildQ' = Tail(guildQ) /\ created' = Append(created, Head(guildQ))
        /\ outQ' = outQ + 1 /\ UNCHANGED <<configs, out>>
    BY <1>11 DEF RunChannelCreate
  <2>2. /\ Head(guildQ) \in Name /\ 1 \in DOMAIN guildQ /\ Head(guildQ) = guildQ[1]
        /\ \A i \in DOMAIN guildQ' : i + 1 \in DOMAIN guildQ /\ guildQ'[i] = guildQ[i + 1]
    BY <1>3, <2>1, TailElements
  <2>3. \A i \in DOMAIN created' :
           (i \in DOMAIN created /\ created'[i] = created[i]) \/ created'[i] = guildQ[1]
    BY <1>3, <2>1, <2>2, AppendElements
  <2>4. get_config' = get_config /\ find_config
    BY <2>1 DEF get_config, find_config
  <2>5. /\ Expected \in Nat /\ Expected' = Expected + 1
        /\ get_config.count_tasks <= Expected
    <3>1. CASE out.step = "update"
      <4>1. get_config.count_tasks <= out.count_tasks
        BY <1>1, <1>5, <2>4, <3>1 DEF GrowInv
      <4> QED BY <1>3, <1>5, <2>1, <2>4, <3>1, <4>1 DEF Expected
    <3>2. CASE out.step # "update"
      <4>1. Uncounted \in Nat /\ Uncounted' = Uncounted + 1
        BY <1>3, <2>1 DEF Uncounted
      <4> QED BY <1>5, <2>1, <2>4, <3>2, <4>1 DEF Expected
    <3> QED BY <3>1, <3>2
  <2>6. guildQ[1].id = get_config.id => guildQ[1].number < Expected'
    BY <1>4, <1>5, <1>6, <2>2, <2>4, <2>5
  <2>7. \A i \in DOMAIN created : created[i].id = get_config.id => created[i].number < Expected'
    BY <1>4, <1>6, <2>4, <2>5
  <2>8. \A i \in DOMAIN guildQ' :
           guildQ'[i].id = get_config.id => guildQ'[i].number <= get_config.count_tasks
    BY <1>6, <2>2, <2>4
  <2> QED BY <2>3, <2>4, <2>6, <2>7, <2>8
<1>12. CASE FailChannelCreate
  <2>1. guildQ # <<>> /\ guildQ' = Tail(guildQ) /\ UNCHANGED <<configs, created, outQ, out>>
    BY <1>12 DEF FailChannelCreate
  <2>2. \A i \in DOMAIN guildQ' : i + 1 \in DOMAIN guildQ /\ guildQ'[i] = guildQ[i + 1]
    BY <1>3, <2>1, TailElements
  <2>3. get_config' = get_config /\ find_config /\ Expected' = Expected
    BY <2>1 DEF get_config, find_config, Expected, Uncounted
  <2> QED BY <1>6, <2>1, <2>2, <2>3
<1>13. CASE OnCreated
  <2>1. /\ UNCHANGED <<configs, guildQ, created>> /\ out = OutIdle /\ outQ > 0
        /\ outQ' = outQ - 1 /\ out' = [out EXCEPT !.step = "select"]
    BY <1>2, <1>13 DEF OnCreated
  <2>2. get_config' = get_config /\ find_config /\ Uncounted' = Uncounted
    BY <1>3, <2>1 DEF get_config, find_config, Uncounted, OutIdle
  <2>3. Expected' = Expected
    BY <2>1, <2>2 DEF Expected, OutIdle
  <2> QED BY <1>6, <2>1, <2>2, <2>3
<1>14. CASE SelectCount
  <2>1. /\ UNCHANGED <<configs, guildQ, created, outQ>> /\ out.step = "select"
        /\ out' = [step |-> "update",
                   count_tasks |-> IF find_config THEN get_config.count_tasks + 1 ELSE 0]
    BY <1>2, <1>14 DEF SelectCount
  <2>2. get_config' = get_config /\ find_config
    BY <2>1 DEF get_config, find_config
  <2>3. Expected = get_config.count_tasks + (outQ + 1)
    BY <2>1 DEF Expected, Uncounted
  <2>4. out'.step = "update" /\ out'.count_tasks = get_config.count_tasks + 1
    BY <2>1, <2>2
  <2>5. Expected' = (get_config.count_tasks + 1) + outQ
    BY <2>1, <2>4 DEF Expected
  <2>6. Expected' = Expected
    BY <1>3, <1>5, <2>2, <2>3, <2>5
  <2> QED BY <1>6, <2>1, <2>2, <2>6
<1>15. CASE UpdateCount
  <2>1. /\ UNCHANGED <<guildQ, created, outQ>> /\ out.step = "update" /\ out' = OutIdle
    BY <1>15 DEF UpdateCount
  <2>2. /\ find_config /\ get_config'.id = get_config.id
        /\ get_config'.count_tasks = out.count_tasks
    BY <1>15, Updated
  <2>3. get_config.count_tasks <= out.count_tasks
    BY <1>1, <1>5, <2>1, <2>2 DEF GrowInv
  <2>4. Expected' = Expected
    BY <1>3, <2>1, <2>2 DEF Expected, Uncounted, OutIdle
  <2>5. \A i \in DOMAIN guildQ :
           guildQ[i].id = get_config.id => guildQ[i].number <= out.count_tasks
    BY <1>3, <1>4, <1>5, <1>6, <2>2, <2>3
  <2> QED BY <1>6, <2>1, <2>2, <2>4, <2>5
<1>16. CASE UpdateFails \/ LoseChannelCreated \/ Crash
  BY <1>2, <1>16 DEF UpdateFails, LoseChannelCreated, Crash
<1> QED
  BY <1>7, <1>8, <1>9, <1>10, <1>11, <1>12, <1>13, <1>14, <1>15, <1>16
     DEF Next, ShardThread, CallbackThread, SetConfig, InsertCannotOpen, SetConfigFails,
         AnswerRegistered, vars

\* As long as no database call fails, no response is lost and the process does not die, a
\* click that overlaps with no other creation gets a number that no channel of the same
\* configuration has, although some creations may be refused and numbers are read at the click and counted in a callback, with
\* /setconfig in between.
THEOREM NumbersAreFresh == Spec => []FreshNumber
<1>1. Init => RowIdsInv /\ FreshInv
  BY DEF Init, RowIdsInv, FreshInv, find_config
<1>2. TypeOK /\ SetConfigInv /\ GrowInv /\ RowIdsInv /\ FreshInv /\ [Next]_vars
         => RowIdsInv' /\ FreshInv'
  BY RowIdsStep, FreshStep
<1>3. ASSUME TypeOK, FreshInv
      PROVE  FreshNumber
  <2>1. SUFFICES ASSUME Quiet, find_config, None("db"), None("response"), None("crash")
                 PROVE  \A i \in DOMAIN created :
                           created[i].id = get_config.id
                              => created[i].number < get_config.count_tasks
    BY DEF FreshNumber
  <2>2. Expected = get_config.count_tasks
    <3>1. get_config.count_tasks \in Nat
      BY <1>3, <2>1, FirstRow DEF ConfigRow
    <3> QED BY <2>1, <3>1 DEF Quiet, Expected, Uncounted, OutIdle
  <2> QED BY <1>3, <2>1, <2>2 DEF FreshInv
<1> QED BY Grow, <1>1, <1>2, <1>3, PTL DEF Spec

-----------------------------------------------------------------------------
(* The counter.  A captured number can only fall behind the channels, and when  *)
(* UPDATE runs the row it finds first is the one that SELECT read, or a newer   *)
(* one that counts from 0.                                                      *)

CapturedBounded ==
    \A i \in DOMAIN guildQ : guildQ[i].number <= Len(created)

SelectedGrows ==
    out.step = "update" /\ find_config =>
        out.count_tasks = 0 \/ get_config.count_tasks < out.count_tasks

CounterInv == CapturedBounded /\ SelectedGrows

\* What an INSERT does to the row that a SELECT returns: nothing if there is one.
LEMMA Inserted ==
    ASSUME TypeOK, InsertConfig
    PROVE  /\ find_config'
           /\ find_config => get_config' = get_config
           /\ ~find_config => /\ get_config'.config = shard.config
                              /\ get_config'.count_tasks = 0
           /\ shard.config \in Configs
<1> DEFINE row == [id |-> lastId + 1, config |-> shard.config, count_tasks |-> 0]
<1>1. configs' = Append(configs, row) /\ configs \in Seq(ConfigRow)
      /\ shard.config \in Configs /\ row \in ConfigRow
  BY DEF InsertConfig, insert_config, TypeOK, ConfigRow
<1>2. row.config = shard.config /\ row.count_tasks = 0
  OBVIOUS
<1> HIDE DEF row
<1>3. /\ configs' \in Seq(ConfigRow) /\ Len(configs') = Len(configs) + 1 /\ Len(configs) \in Nat
      /\ \A i \in 1 .. Len(configs) : configs'[i] = configs[i]
      /\ configs'[Len(configs) + 1] = row
  BY <1>1, AppendProperties, LenProperties
<1>4. configs' # <<>> /\ Head(configs') = configs'[1]
  BY <1>3, EmptySeq, HeadTailProperties
<1>5. CASE find_config
  <2>1. Head(configs) = configs[1] /\ 1 \in 1 .. Len(configs)
    BY <1>1, <1>3, <1>5, EmptySeq, HeadTailProperties DEF find_config
  <2> QED BY <1>1, <1>3, <1>4, <1>5, <2>1 DEF find_config, get_config
<1>6. CASE ~find_config
  <2>1. Len(configs) = 0
    BY <1>6, EmptySeq DEF find_config
  <2> QED BY <1>1, <1>2, <1>3, <1>4, <1>6, <2>1 DEF find_config, get_config
<1> QED BY <1>5, <1>6

LEMMA CounterInit == Init => CounterInv
BY DEF Init, CounterInv, CapturedBounded, SelectedGrows, OutIdle

\* What a captured number is compared with never shrinks.
LEMMA CapturedStep ==
    ASSUME TypeOK, CountInv, CapturedBounded, [Next]_vars
    PROVE  CapturedBounded'
<1>1. /\ \A i \in DOMAIN guildQ : guildQ[i] \in Name
      /\ Len(created) \in Nat /\ guildQ \in Seq(Name)
  BY NameTypes, LenProperties DEF TypeOK
<1>2. CASE UNCHANGED <<guildQ, created>>
  BY <1>2 DEF CapturedBounded
<1>3. CASE CreateTask
  <2> DEFINE click == [id |-> get_config.id, number |-> get_config.count_tasks]
  <2>1. /\ guildQ' = Append(guildQ, click) /\ created' = created
        /\ get_config \in ConfigRow /\ 1 \in DOMAIN configs /\ get_config = configs[1]
    BY <1>3, FirstRow DEF CreateTask
  <2>2. click \in Name /\ click.number = get_config.count_tasks
    BY <2>1 DEF Name, ConfigRow
  <2>3. get_config.count_tasks <= Len(created)
    <3>1. get_config.count_tasks + Uncounted <= Len(created)
      BY <2>1 DEF CountInv, CountBounded
    <3>2. Uncounted \in Nat /\ get_config.count_tasks \in Nat
      BY <2>1 DEF TypeOK, Uncounted, ConfigRow
    <3> QED BY <1>1, <3>1, <3>2
  <2> HIDE DEF click
  <2>4. \A i \in DOMAIN guildQ' :
           (i \in DOMAIN guildQ /\ guildQ'[i] = guildQ[i]) \/ guildQ'[i] = click
    BY <1>1, <2>1, <2>2, AppendElements
  <2> QED BY <2>1, <2>2, <2>3, <2>4 DEF CapturedBounded
<1>4. CASE RunChannelCreate \/ LoseChannelCreated \/ FailChannelCreate
  <2>1. guildQ # <<>> /\ guildQ' = Tail(guildQ)
    BY <1>4 DEF RunChannelCreate, LoseChannelCreated, FailChannelCreate
  <2>2. \A i \in DOMAIN guildQ' : i + 1 \in DOMAIN guildQ /\ guildQ'[i] = guildQ[i + 1]
    BY <1>1, <2>1, TailElements
  <2>3. Len(created') \in Nat /\ Len(created) <= Len(created')
    <3>1. Head(guildQ) \in Name /\ created \in Seq(Name)
      BY <1>1, <2>1, TailElements DEF TypeOK
    <3> QED
      BY <1>1, <1>4, <3>1, AppendProperties, LenProperties
         DEF RunChannelCreate, LoseChannelCreated, FailChannelCreate
  <2>4. ASSUME NEW i \in DOMAIN guildQ'
        PROVE  guildQ'[i].number <= Len(created')
    <3>1. guildQ'[i].number \in Nat /\ guildQ'[i].number <= Len(created)
      BY <1>1, <2>2, <2>4 DEF CapturedBounded, Name
    <3> QED BY <1>1, <2>3, <3>1
  <2> QED BY <2>4 DEF CapturedBounded
<1>5. CASE Crash
  BY <1>5 DEF Crash, CapturedBounded
<1> QED
  BY <1>2, <1>3, <1>4, <1>5
     DEF Next, ShardThread, CallbackThread, SetConfig, DeleteConfig, InsertConfig,
         InsertCannotOpen, SetConfigFails, AnswerRegistered, OnCreated, SelectCount,
         UpdateCount, UpdateFails, vars

LEMMA SelectedStep ==
    ASSUME TypeOK, SelectedGrows, [Next]_vars
    PROVE  SelectedGrows'
<1>1. out.count_tasks \in Nat /\ (find_config => get_config \in ConfigRow)
  BY FirstRow DEF TypeOK
<1>2. CASE UNCHANGED <<configs, out>>
  BY <1>2 DEF SelectedGrows, find_config, get_config
<1>3. CASE DeleteConfig
  BY <1>3 DEF DeleteConfig, SelectedGrows, find_config
<1>4. CASE InsertConfig
  <2>1. out' = out
    BY <1>4 DEF InsertConfig
  <2>2. CASE find_config
    BY <1>4, <2>1, <2>2, Inserted DEF SelectedGrows
  <2>3. CASE ~find_config
    BY <1>1, <1>4, <2>1, <2>3, Inserted DEF SelectedGrows
  <2> QED BY <2>2, <2>3
<1>5. CASE SelectCount
  <2>1. /\ configs' = configs
        /\ \/ out'.count_tasks = IF find_config THEN get_config.count_tasks + 1 ELSE 0
           \/ out'.count_tasks = 0
    BY <1>5 DEF SelectCount
  <2> QED BY <1>1, <2>1 DEF SelectedGrows, find_config, get_config, ConfigRow
<1>6. CASE OnCreated \/ UpdateCount \/ UpdateFails \/ Crash
  BY <1>2, <1>6 DEF OnCreated, UpdateCount, UpdateFails, Crash, OutIdle, SelectedGrows
<1> QED
  BY <1>2, <1>3, <1>4, <1>5, <1>6
     DEF Next, ShardThread, CallbackThread, SetConfig, InsertCannotOpen, SetConfigFails,
         AnswerRegistered, CreateTask, RunChannelCreate, LoseChannelCreated,
         FailChannelCreate, vars

LEMMA CounterStep ==
    TypeOK /\ CountInv /\ CounterInv /\ [Next]_vars => CounterInv'
BY CapturedStep, SelectedStep DEF CounterInv

LEMMA CounterStart == Init => Counter!Init
<1> SUFFICES ASSUME Init PROVE Counter!Init
  OBVIOUS
<1>1. Config = NoConfig /\ Count = 0
  BY DEF Init, Config, Count, find_config
<1>2. Numbers = <<>>
  BY DEF Init, Numbers
<1> QED BY <1>1, <1>2 DEF Counter!Init

\* The mapped variables change with the table and the channels only.
LEMMA SameCounter ==
    ASSUME UNCHANGED <<configs, created>>
    PROVE  UNCHANGED Counter!counter
BY DEF Counter!counter, Config, Count, Numbers, find_config, get_config

LEMMA ConfigureImplements ==
    ASSUME TypeOK, DeleteConfig \/ InsertConfig
    PROVE  [Counter!Next]_(Counter!counter)
<1>1. Numbers' = Numbers
  BY DEF DeleteConfig, InsertConfig, Numbers
<1>2. find_config => Config = get_config.config /\ Config # NoConfig
  BY FirstRow, NoConfigAssumption DEF Config, ConfigRow
<1>3. CASE DeleteConfig
  <2>1. Config' = NoConfig /\ Count' = 0
    BY <1>3 DEF DeleteConfig, Config, Count, find_config
  <2>2. CASE find_config
    BY <1>1, <1>2, <2>1, <2>2 DEF Counter!Next, Counter!Withdraw
  <2>3. CASE ~find_config
    BY <1>1, <2>1, <2>3 DEF Counter!counter, Config, Count
  <2> QED BY <2>2, <2>3
<1>4. CASE InsertConfig
  <2>1. CASE find_config
    BY <1>1, <1>4, <2>1, Inserted DEF Counter!counter, Config, Count
  <2>2. CASE ~find_config
    <3>1. /\ Config = NoConfig /\ Config' = shard.config
          /\ Count' = 0 /\ shard.config \in Configs
      BY <1>4, <2>2, Inserted DEF Config, Count
    <3>2. Counter!Configure(shard.config)
      BY <1>1, <3>1 DEF Counter!Configure
    <3> QED BY <3>1, <3>2 DEF Counter!Next
  <2> QED BY <2>1, <2>2
<1> QED BY <1>3, <1>4

LEMMA CreateImplements ==
    ASSUME TypeOK, CapturedBounded, RunChannelCreate \/ LoseChannelCreated
    PROVE  Counter!Next
<1> DEFINE n == Head(guildQ).number
<1>1. /\ Head(guildQ) \in Name /\ Head(guildQ) = guildQ[1] /\ 1 \in DOMAIN guildQ
      /\ created \in Seq(Name) /\ created' = Append(created, Head(guildQ))
  BY TailElements DEF TypeOK, RunChannelCreate, LoseChannelCreated
<1>2. /\ Len(created) \in Nat /\ DOMAIN created = 1 .. Len(created)
      /\ DOMAIN created' = 1 .. (Len(created) + 1)
      /\ \A i \in 1 .. Len(created) : created'[i] = created[i]
      /\ created'[Len(created) + 1] = Head(guildQ)
      /\ \A i \in 1 .. Len(created) : created[i] \in Name
  <2>1. created' \in Seq(Name) /\ Len(created') = Len(created) + 1
    BY <1>1, AppendProperties
  <2> QED BY <1>1, <2>1, AppendProperties, LenProperties, ElementOfSeq
<1>3. n \in 0 .. Len(created)
  BY <1>1, <1>2 DEF CapturedBounded, Name
<1>4. Numbers = [i \in 1 .. Len(created) |-> created[i].number]
  BY <1>2 DEF Numbers
<1>5. Numbers \in Seq(Nat) /\ Len(Numbers) = Len(created)
  BY <1>2, <1>4 DEF Name
<1>6. Numbers' = Append(Numbers, n)
  <2>1. Numbers' = [i \in 1 .. (Len(created) + 1) |-> created'[i].number]
    BY <1>2 DEF Numbers
  <2>2. Numbers' \in Seq(Nat) /\ Len(Numbers') = Len(created) + 1
    <3>1. \A i \in 1 .. (Len(created) + 1) : created'[i].number \in Nat
      BY <1>1, <1>2 DEF Name
    <3> QED BY <1>2, <2>1, <3>1
  <2>3. Append(Numbers, n) \in Seq(Nat) /\ Len(Append(Numbers, n)) = Len(created) + 1
    BY <1>2, <1>3, <1>5, AppendProperties
  <2>4. ASSUME NEW i \in 1 .. (Len(created) + 1)
        PROVE  Numbers'[i] = Append(Numbers, n)[i]
    <3>1. CASE i \in 1 .. Len(created)
      BY <1>2, <1>3, <1>4, <1>5, <2>1, <3>1, AppendProperties
    <3>2. CASE i = Len(created) + 1
      BY <1>2, <1>3, <1>5, <2>1, <3>2, AppendProperties
    <3>3. i \in 1 .. Len(created) \/ i = Len(created) + 1
      <4>1. Len(created) \in Nat
        BY <1>2
      <4> QED BY <2>4, <4>1
    <3> QED BY <3>1, <3>2, <3>3
  <2> QED BY <2>2, <2>3, <2>4, SeqEqual
<1>7. Config' = Config /\ Count' = Count
  BY DEF RunChannelCreate, LoseChannelCreated, Config, Count, find_config, get_config
<1> QED BY <1>3, <1>5, <1>6, <1>7 DEF Counter!Next, Counter!Create

LEMMA UpdateImplements ==
    ASSUME TypeOK, CountInv, SelectedGrows, UpdateCount
    PROVE  [Counter!Next]_(Counter!counter)
<1>1. out.step = "update" /\ out.count_tasks \in Nat /\ Numbers' = Numbers
  BY DEF UpdateCount, TypeOK, Numbers
<1>2. CASE ~find_config
  <2>1. ~find_config'
    BY <1>2, Updated
  <2> QED BY <1>1, <1>2, <2>1 DEF Counter!counter, Config, Count
<1>3. CASE find_config
  <2>1. /\ find_config' /\ Config' = Config /\ Count' = out.count_tasks
        /\ Config # NoConfig /\ Count = get_config.count_tasks /\ Count \in Nat
    BY <1>3, Updated, FirstRow, NoConfigAssumption DEF Config, Count, ConfigRow
  <2>2. CASE out.count_tasks = 0
    BY <1>1, <2>1, <2>2 DEF Counter!Next, Counter!Restart
  <2>3. CASE out.count_tasks # 0
    <3>1. Len(Numbers) = Len(created) /\ Len(created) \in Nat
      <4>1. created \in Seq(Name) /\ DOMAIN created = 1 .. Len(created) /\ Len(created) \in Nat
        BY LenProperties DEF TypeOK
      <4> QED BY <4>1 DEF Numbers
    <3>2. out.count_tasks <= Len(created)
      BY <1>1, <3>1 DEF CountInv, SelectedBounded, TypeOK
    <3>3. Count < out.count_tasks
      BY <1>1, <1>3, <2>1, <2>3 DEF SelectedGrows
    <3>4. out.count_tasks \in (Count + 1) .. Len(Numbers)
      BY <1>1, <2>1, <3>1, <3>2, <3>3
    <3> QED BY <1>1, <2>1, <3>4 DEF Counter!Next, Counter!Count
  <2> QED BY <2>2, <2>3
<1> QED BY <1>2, <1>3

\* Whatever fails or crashes and however the two threads interleave: every step is one of
\* TaskCounter's or none.
THEOREM ImplementsTheCounter == Spec => ImplementsCounter
<1>1. TypeOK /\ CountInv /\ CounterInv /\ [Next]_vars => CountInv' /\ CounterInv'
  BY CountStep, CounterStep
<1>2. ASSUME TypeOK, CountInv, CounterInv, [Next]_vars
      PROVE  [Counter!Next]_(Counter!counter)
  <2>1. CASE UNCHANGED <<configs, created>>
    BY <2>1, SameCounter
  <2>2. CASE DeleteConfig \/ InsertConfig
    BY <1>2, <2>2, ConfigureImplements
  <2>3. CASE RunChannelCreate \/ LoseChannelCreated
    BY <1>2, <2>3, CreateImplements DEF CounterInv
  <2>4. CASE UpdateCount
    BY <1>2, <2>4, UpdateImplements DEF CounterInv
  <2> QED
    BY <1>2, <2>1, <2>2, <2>3, <2>4
       DEF Next, ShardThread, CallbackThread, SetConfig, InsertCannotOpen, SetConfigFails,
           AnswerRegistered, CreateTask, OnCreated, SelectCount, UpdateFails,
           FailChannelCreate, Crash, vars
<1> QED
  BY TypeCorrect, CountInit, CounterInit, CounterStart, <1>1, <1>2, PTL
     DEF Spec, ImplementsCounter, Counter!Spec

=============================================================================
