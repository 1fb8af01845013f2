-------------------------- MODULE ModerationProofs --------------------------
(***************************************************************************)
(* What TLAPS proves about Moderation for any number of users, moderators, *)
(* commands and faults.                                                    *)
(***************************************************************************)
EXTENDS Moderation, CommonLemmas

\* Ids are given out one after the other, and whatever carries one was given it.
IdsInv ==
    /\ Len(command) = spent["click"] /\ spent["click"] <= Limit["click"]
    /\ \A k \in DOMAIN gateway :
          gateway[k].type = "command" => gateway[k].id \in DOMAIN command
    /\ \A r \in requests : r.id \in DOMAIN command
    /\ \A k \in DOMAIN completions : completions[k].id \in DOMAIN command
    /\ \A i \in Ids : answer[i] \in Texts => i \in DOMAIN command
    /\ \A entry \in audit : entry[1] \in DOMAIN command

\* A request is that of its command, and nobody bans the bot.
WhomInv ==
    /\ handling.at = "request" => command[handling.id].whom \in Users
    /\ \A r \in requests : r.type \in Commands =>
          r.type = command[r.id].name /\ command[r.id].whom \in Users

\* A reason waits for its request only between the two calls of the handler.
ReasonInv ==
    /\ reason["callbacks"] = NoId
    /\ reason["shard"] = IF handling.at = "request" THEN handling.id ELSE NoId

AuditInv == TypeOK /\ IdsInv /\ WhomInv /\ ReasonInv /\ AuditedForItself

-----------------------------------------------------------------------------
(* Types. *)

\* Steps in the shard thread's program.
LEMMA AtFields ==
    /\ Idle.at = "idle"
    /\ \A s, i : At(s, i).at = s /\ At(s, i).id = i
BY DEF Idle, At

LEMMA AtType ==
    \A s \in {"checks", "request"} : \A i \in DOMAIN command' :
       At(s, i) \in {At(q, j) : q \in {"checks", "request"}, j \in DOMAIN command'}
OBVIOUS

\* The shard thread is idle, or it is at one of two steps of a command.
LEMMA HandlingCases ==
    ASSUME AuditInv
    PROVE  \/ handling = Idle /\ handling.at = "idle"
           \/ \E s \in {"checks", "request"}, i \in DOMAIN command :
                 handling = At(s, i) /\ handling.at = s /\ handling.id = i
BY AtFields DEF AuditInv, TypeOK

\* The id of a command that was used.
LEMMA UsedIds ==
    ASSUME AuditInv
    PROVE  /\ DOMAIN command = 1 .. Len(command) /\ Len(command) \in Nat
           /\ DOMAIN command \subseteq Ids
           /\ \A i \in DOMAIN command : command[i] \in Command
<1>1. command \in Seq(Command)
  BY DEF AuditInv, TypeOK
<1>2. DOMAIN command = 1 .. Len(command) /\ Len(command) \in Nat
  BY <1>1, LenProperties
<1>3. \A i \in DOMAIN command : command[i] \in Command
  BY <1>1, <1>2, ElementOfSeq
<1>4. Limit["click"] \in Nat
  BY LimitAssumption DEF Kinds
<1> QED BY <1>2, <1>3, <1>4 DEF AuditInv, IdsInv, Ids

\* A request with the reason of the thread that posts it.
LEMMA CallPosted ==
    ASSUME AuditInv, NEW t \in Threads, NEW type \in Commands \cup {"thinking"}, NEW i \in Ids,
           Post(t, Call(type, i))
    PROVE  /\ requests' \in SUBSET Request
           /\ requests' = requests \cup {[type |-> type, id |-> i, reason |-> reason[t]]}
           /\ reason' \in [Threads -> Ids \cup {NoId}]
           /\ reason'[t] = NoId
           /\ \A s \in Threads : s # t => reason'[s] = reason[s]
<1> DEFINE r == [type |-> type, id |-> i, reason |-> reason[t]]
<1>1. reason \in [Threads -> Ids \cup {NoId}] /\ requests \in SUBSET Request
  BY DEF AuditInv, TypeOK
<1>2. [Call(type, i) EXCEPT !.reason = reason[t]] = r
  BY DEF Call
<1>3. r \in Request
  BY <1>1 DEF Request
<1>4. requests' = requests \cup {r}
  BY <1>2 DEF Post
<1> QED BY <1>1, <1>3, <1>4 DEF Post

LEMMA FollowupPosted ==
    ASSUME AuditInv, NEW t \in Threads, NEW i \in Ids, NEW text \in Texts,
           Post(t, Followup(i, text))
    PROVE  /\ requests' \in SUBSET Request
           /\ requests' = requests \cup
                 {[type |-> "followup", id |-> i, reason |-> reason[t], text |-> text]}
           /\ reason' \in [Threads -> Ids \cup {NoId}]
           /\ reason'[t] = NoId
           /\ \A s \in Threads : s # t => reason'[s] = reason[s]
<1> DEFINE r == [type |-> "followup", id |-> i, reason |-> reason[t], text |-> text]
<1>1. reason \in [Threads -> Ids \cup {NoId}] /\ requests \in SUBSET Request
  BY DEF AuditInv, TypeOK
<1>2. [Followup(i, text) EXCEPT !.reason = reason[t]] = r
  BY DEF Followup
<1>3. r \in Request
  BY <1>1 DEF Request
<1>4. requests' = requests \cup {r}
  BY <1>2 DEF Post
<1> QED BY <1>1, <1>3, <1>4 DEF Post

\* An event that the shard thread takes.
LEMMA Received ==
    ASSUME AuditInv, NEW type, Receive(type)
    PROVE  /\ gateway' \in Seq(Event) /\ Head(gateway) \in Event
           /\ Head(gateway) = gateway[1] /\ 1 \in DOMAIN gateway
           /\ \A k \in DOMAIN gateway' :
                 k + 1 \in DOMAIN gateway /\ gateway'[k] = gateway[k + 1]
BY TailElements DEF AuditInv, TypeOK, Receive

\* A command that the shard thread takes.
LEMMA CommandReceived ==
    ASSUME AuditInv, Receive("command")
    PROVE  Head(gateway).id \in DOMAIN command
BY Received DEF AuditInv, IdsInv, Receive

LEMMA RequestFields ==
    ASSUME AuditInv, NEW r \in requests
    PROVE  /\ r \in Request /\ r.id \in Ids /\ r.id \in DOMAIN command
           /\ r.type = "followup" => r.text \in Texts
           /\ r.type \in Commands \cup {"thinking", "followup"}
<1>1. r \in Request
  BY DEF AuditInv, TypeOK
<1>2. r.id \in Ids /\ r.type \in Commands \cup {"thinking", "followup"}
  BY <1>1 DEF Request
<1>3. r.type = "followup" => r.text \in Texts
  BY <1>1 DEF Request, Commands
<1> QED BY <1>1, <1>2, <1>3 DEF AuditInv, IdsInv

-----------------------------------------------------------------------------
(* The audit reason. *)

LEMMA AuditInit == Init => AuditInv
<1> SUFFICES ASSUME Init PROVE AuditInv
  OBVIOUS
<1>1. TypeOK
  BY DEF Init, TypeOK, BudgetInit, BudgetTypeOK, Threads, NoId
<1>2. IdsInv
  <2>1. Len(command) = 0 /\ DOMAIN gateway = {} /\ DOMAIN completions = {}
    BY DEF Init
  <2>2. spent["click"] = 0 /\ Limit["click"] \in Nat
    BY LimitAssumption DEF Init, BudgetInit, Kinds
  <2> QED BY <2>1, <2>2 DEF Init, IdsInv, Texts
<1>3. WhomInv /\ ReasonInv /\ AuditedForItself
  BY DEF Init, WhomInv, ReasonInv, AuditedForItself, Idle, Threads
<1> QED BY <1>1, <1>2, <1>3 DEF AuditInv

\* A step of the shard thread with a command: it goes on, or it returns.
LEMMA ShardType ==
    ASSUME AuditInv, NEW i \in DOMAIN command, UNCHANGED command,
           handling' \in {Idle, At("checks", i), At("request", i)}
    PROVE  handling' \in {Idle} \cup
              {At(s, j) : s \in {"checks", "request"}, j \in DOMAIN command'}
BY AtType

LEMMA AuditHandle ==
    ASSUME AuditInv, HandleCommand
    PROVE  AuditInv'
<1>1. PICK i \in Ids : /\ Receive("command") /\ Head(gateway).id = i /\ Think(i)
                       /\ UNCHANGED <<spent, guildVars, known, completions>>
  BY DEF HandleCommand
<1>2. i \in DOMAIN command
  BY <1>1, CommandReceived
<1>3. /\ Post("shard", Call("thinking", i)) /\ handling' = At("checks", i)
      /\ handling.at # "request"
  BY <1>1, AtFields DEF Think, Receive
<1>4. /\ requests' \in SUBSET Request
      /\ requests' = requests \cup {[type |-> "thinking", id |-> i, reason |-> reason["shard"]]}
      /\ reason' \in [Threads -> Ids \cup {NoId}]
      /\ reason'["shard"] = NoId /\ reason'["callbacks"] = reason["callbacks"]
  BY <1>3, CallPosted DEF Threads
<1>5. /\ gateway' \in Seq(Event)
      /\ \A k \in DOMAIN gateway' : k + 1 \in DOMAIN gateway /\ gateway'[k] = gateway[k + 1]
  BY <1>1, Received
<1>6. TypeOK'
  BY <1>1, <1>2, <1>3, <1>4, <1>5, ShardType
     DEF AuditInv, TypeOK, BudgetTypeOK, guildVars
<1>7. IdsInv'
  BY <1>1, <1>2, <1>4, <1>5 DEF AuditInv, IdsInv, guildVars
<1>8. WhomInv' /\ ReasonInv' /\ AuditedForItself'
  BY <1>1, <1>3, <1>4, AtFields
     DEF AuditInv, WhomInv, ReasonInv, AuditedForItself, guildVars, Commands
<1> QED BY <1>6, <1>7, <1>8 DEF AuditInv

LEMMA AuditThrows ==
    ASSUME AuditInv, HandlerThrows \/ OnMember
    PROVE  AuditInv'
<1>1. /\ gateway' \in Seq(Event)
      /\ \A k \in DOMAIN gateway' : k + 1 \in DOMAIN gateway /\ gateway'[k] = gateway[k + 1]
  BY Received DEF HandlerThrows, OnMember
<1>2. /\ UNCHANGED <<spent, guildVars, handling, reason, requests, completions>>
      /\ known' \in SUBSET (Users \cup {Bot})
  <2>1. CASE HandlerThrows
    BY <2>1 DEF HandlerThrows, AuditInv, TypeOK
  <2>2. CASE OnMember
    <3>1. Head(gateway).type # "command" => Head(gateway).user \in Users
      BY <2>2, Received DEF OnMember, Event
    <3> QED BY <2>2, <3>1 DEF OnMember, Receive, AuditInv, TypeOK
  <2> QED BY <2>1, <2>2
<1>3. TypeOK'
  BY <1>1, <1>2 DEF AuditInv, TypeOK, BudgetTypeOK, guildVars
<1> QED BY <1>1, <1>2, <1>3
        DEF AuditInv, IdsInv, WhomInv, ReasonInv, AuditedForItself, guildVars

LEMMA AuditRefuse ==
    ASSUME AuditInv, Refuse
    PROVE  AuditInv'
<1>1. PICK i \in DOMAIN command :
         /\ handling = At("checks", i) /\ Post("shard", Followup(i, "refused"))
         /\ handling' = Idle /\ UNCHANGED <<spent, guildVars, known, gateway, completions>>
  BY DEF Refuse
<1>2. i \in Ids /\ handling.at = "checks"
  BY <1>1, UsedIds, AtFields
<1>3. /\ requests' \in SUBSET Request
      /\ requests' = requests \cup {[type |-> "followup", id |-> i,
                                     reason |-> reason["shard"], text |-> "refused"]}
      /\ reason' \in [Threads -> Ids \cup {NoId}]
      /\ reason'["shard"] = NoId /\ reason'["callbacks"] = reason["callbacks"]
  BY <1>1, <1>2, FollowupPosted DEF Threads, Texts
<1>4. TypeOK'
  BY <1>1, <1>3, ShardType DEF AuditInv, TypeOK, BudgetTypeOK, guildVars
<1>5. IdsInv'
  BY <1>1, <1>3 DEF AuditInv, IdsInv, guildVars
<1>6. WhomInv' /\ ReasonInv' /\ AuditedForItself'
  BY <1>1, <1>2, <1>3, AtFields
     DEF AuditInv, WhomInv, ReasonInv, AuditedForItself, guildVars, Commands
<1> QED BY <1>4, <1>5, <1>6 DEF AuditInv

LEMMA AuditSet ==
    ASSUME AuditInv, SetAuditReason
    PROVE  AuditInv'
<1>1. PICK i \in DOMAIN command :
         /\ Pass(i) /\ reason' = [reason EXCEPT !["shard"] = i]
         /\ handling' = At("request", i)
         /\ UNCHANGED <<spent, guildVars, known, gateway, requests, completions>>
  BY DEF SetAuditReason
<1>2. i \in Ids /\ command[i].whom \in Users
  BY <1>1, UsedIds DEF Pass, Command
<1>3. reason \in [Threads -> Ids \cup {NoId}] /\ "shard" \in Threads /\ "callbacks" \in Threads
  BY DEF AuditInv, TypeOK, Threads
<1>4. TypeOK'
  BY <1>1, <1>2, <1>3, ShardType DEF AuditInv, TypeOK, BudgetTypeOK, guildVars
<1>5. IdsInv'
  BY <1>1 DEF AuditInv, IdsInv, guildVars
<1>6. WhomInv' /\ ReasonInv' /\ AuditedForItself'
  BY <1>1, <1>2, <1>3, AtFields
     DEF AuditInv, WhomInv, ReasonInv, AuditedForItself, guildVars
<1> QED BY <1>4, <1>5, <1>6 DEF AuditInv

LEMMA AuditRequest ==
    ASSUME AuditInv, RequestIt
    PROVE  AuditInv'
<1>1. PICK i \in DOMAIN command :
         /\ handling = At("request", i) /\ Post("shard", Call(command[i].name, i))
         /\ handling' = Idle /\ UNCHANGED <<spent, guildVars, known, gateway, completions>>
  BY DEF RequestIt
<1>2. /\ i \in Ids /\ handling.at = "request" /\ handling.id = i
      /\ command[i].name \in Commands
  BY <1>1, UsedIds, AtFields DEF Command
<1>3. /\ requests' \in SUBSET Request
      /\ requests' = requests \cup {[type |-> command[i].name, id |-> i,
                                     reason |-> reason["shard"]]}
      /\ reason' \in [Threads -> Ids \cup {NoId}]
      /\ reason'["shard"] = NoId /\ reason'["callbacks"] = reason["callbacks"]
  BY <1>1, <1>2, CallPosted DEF Threads
<1>4. TypeOK'
  BY <1>1, <1>3, ShardType DEF AuditInv, TypeOK, BudgetTypeOK, guildVars
<1>5. IdsInv'
  BY <1>1, <1>3 DEF AuditInv, IdsInv, guildVars
<1>6. WhomInv' /\ ReasonInv' /\ AuditedForItself'
  BY <1>1, <1>2, <1>3, AtFields
     DEF AuditInv, WhomInv, ReasonInv, AuditedForItself, guildVars
<1> QED BY <1>4, <1>5, <1>6 DEF AuditInv

\* What a callback is told, and what it answers.
LEMMA Moderated ==
    ASSUME AuditInv, OnModerated
    PROVE  \E i \in DOMAIN command, text \in {"failed", "done"} :
             /\ \E k \in DOMAIN completions :
                   completions[k].id = i /\ completions[k].is_error = (text = "failed")
             /\ i \in Ids
             /\ Post("callbacks", Followup(i, text))
             /\ completions' \in Seq(Completion)
             /\ \A k \in DOMAIN completions' :
                   k + 1 \in DOMAIN completions /\ completions'[k] = completions[k + 1]
             /\ UNCHANGED <<spent, guildVars, known, gateway, handling>>
<1> DEFINE done == Head(completions)
           text == IF done.is_error THEN "failed" ELSE "done"
<1>1. /\ done \in Completion /\ 1 \in DOMAIN completions /\ done = completions[1]
      /\ completions' \in Seq(Completion)
      /\ \A k \in DOMAIN completions' :
            k + 1 \in DOMAIN completions /\ completions'[k] = completions[k + 1]
  BY TailElements DEF OnModerated, AuditInv, TypeOK
<1>2. done.id \in DOMAIN command /\ done.id \in Ids /\ done.is_error \in BOOLEAN
  BY <1>1 DEF AuditInv, IdsInv, Completion
<1>3. /\ text \in {"failed", "done"} /\ done.is_error = (text = "failed")
  BY <1>2
<1>4. /\ Post("callbacks", Followup(done.id, text))
      /\ UNCHANGED <<spent, guildVars, known, gateway, handling>>
  BY DEF OnModerated
<1> HIDE DEF text
<1> QED BY <1>1, <1>2, <1>3, <1>4

LEMMA AuditModerated ==
    ASSUME AuditInv, OnModerated
    PROVE  AuditInv'
<1>1. PICK i \in DOMAIN command, text \in {"failed", "done"} :
         /\ i \in Ids /\ Post("callbacks", Followup(i, text))
         /\ completions' \in Seq(Completion)
         /\ \A k \in DOMAIN completions' :
               k + 1 \in DOMAIN completions /\ completions'[k] = completions[k + 1]
         /\ UNCHANGED <<spent, guildVars, known, gateway, handling>>
  BY Moderated
<1>2. /\ requests' \in SUBSET Request
      /\ requests' = requests \cup {[type |-> "followup", id |-> i,
                                     reason |-> reason["callbacks"], text |-> text]}
      /\ reason' \in [Threads -> Ids \cup {NoId}]
      /\ reason'["callbacks"] = NoId /\ reason'["shard"] = reason["shard"]
  BY <1>1, FollowupPosted DEF Threads, Texts
<1>3. TypeOK'
  BY <1>1, <1>2 DEF AuditInv, TypeOK, BudgetTypeOK, guildVars
<1>4. IdsInv'
  BY <1>1, <1>2 DEF AuditInv, IdsInv, guildVars
<1>5. WhomInv' /\ ReasonInv' /\ AuditedForItself'
  BY <1>1, <1>2 DEF AuditInv, WhomInv, ReasonInv, AuditedForItself, guildVars, Commands
<1> QED BY <1>3, <1>4, <1>5 DEF AuditInv

\* A new command gets the next id, and every other one keeps its own.
LEMMA Invoked ==
    ASSUME AuditInv, Invoke
    PROVE  /\ command' \in Seq(Command) /\ BudgetTypeOK'
           /\ Len(command') = Len(command) + 1 /\ Len(command') \in Ids
           /\ spent'["click"] = spent["click"] + 1 /\ spent'["click"] <= Limit["click"]
           /\ DOMAIN command' = DOMAIN command \cup {Len(command')}
           /\ Len(command') \notin DOMAIN command
           /\ \A i \in DOMAIN command : command'[i] = command[i]
           /\ [type |-> "command", id |-> Len(command')] \in Event
<1>1. PICK c \in Command : command' = Append(command, c)
  <2>1. PICK n \in Commands, u \in Moderators \cap members, w \in Users \cup {Bot} :
           command' = Append(command, [name |-> n, by |-> u, whom |-> w,
                                       resolved |-> w \in members])
    BY DEF Invoke
  <2>2. [name |-> n, by |-> u, whom |-> w, resolved |-> w \in members] \in Command
    BY DEF Command
  <2> QED BY <2>1, <2>2
<1>2. /\ command' \in Seq(Command) /\ Len(command') = Len(command) + 1
      /\ \A i \in 1 .. Len(command) : command'[i] = command[i]
  BY <1>1, AppendProperties DEF AuditInv, TypeOK
<1>3. DOMAIN command' = 1 .. Len(command') /\ Len(command) \in Nat
  BY <1>2, LenProperties, UsedIds
<1>4. /\ Limit["click"] \in Nat /\ spent["click"] < Limit["click"]
      /\ spent'["click"] = spent["click"] + 1
  BY LimitAssumption DEF Invoke, Spend, Kinds, AuditInv, TypeOK, BudgetTypeOK
<1>5. BudgetTypeOK'
  BY SpendType DEF AuditInv, TypeOK, Invoke, Kinds
<1>6. Len(command') \in Ids /\ spent'["click"] <= Limit["click"]
  BY <1>2, <1>3, <1>4 DEF AuditInv, IdsInv, Ids
<1>7. DOMAIN command' = DOMAIN command \cup {Len(command')} /\ Len(command') \notin DOMAIN command
  BY <1>2, <1>3, UsedIds
<1> QED BY <1>2, <1>3, <1>4, <1>5, <1>6, <1>7, UsedIds DEF Event

LEMMA AuditInvoke ==
    ASSUME AuditInv, Invoke
    PROVE  AuditInv'
<1> DEFINE e == [type |-> "command", id |-> Len(command')]
<1>1. /\ gateway' = Append(gateway, e) /\ e \in Event
      /\ UNCHANGED <<members, known, answer, lost, audit, unheard, handling, reason,
                     requests, completions>>
  BY Invoked DEF Invoke
<1>2. /\ gateway' \in Seq(Event)
      /\ \A k \in DOMAIN gateway' :
            (k \in DOMAIN gateway /\ gateway'[k] = gateway[k]) \/ gateway'[k] = e
  BY <1>1, AppendElements DEF AuditInv, TypeOK
<1>3. handling \in {Idle} \cup
         {At(s, j) : s \in {"checks", "request"}, j \in DOMAIN command'}
  <2>1. DOMAIN command \subseteq DOMAIN command'
    BY Invoked
  <2>2. CASE handling = Idle
    BY <2>2
  <2>3. ASSUME NEW s \in {"checks", "request"}, NEW i \in DOMAIN command,
               handling = At(s, i)
        PROVE  handling \in
                  {At(q, j) : q \in {"checks", "request"}, j \in DOMAIN command'}
    BY <2>1, <2>3, AtType
  <2> QED BY <2>2, <2>3, HandlingCases
<1>4. TypeOK'
  BY <1>1, <1>2, <1>3, Invoked DEF AuditInv, TypeOK
<1>5. IdsInv'
  BY <1>1, <1>2, Invoked DEF AuditInv, IdsInv
<1>6. handling.at = "request" => handling.id \in DOMAIN command
  BY HandlingCases
<1>7. WhomInv' /\ ReasonInv' /\ AuditedForItself'
  BY <1>1, <1>6, Invoked
     DEF AuditInv, IdsInv, WhomInv, ReasonInv, AuditedForItself
<1> QED BY <1>4, <1>5, <1>7 DEF AuditInv

\* Somebody leaves the guild, and the bot is told.
LEMMA Left ==
    ASSUME AuditInv, NEW u \in Users, Leave(u)
    PROVE  /\ members' \in SUBSET (Users \cup {Bot}) /\ gateway' \in Seq(Event)
           /\ \A k \in DOMAIN gateway' :
                 \/ k \in DOMAIN gateway /\ gateway'[k] = gateway[k]
                 \/ gateway'[k].type # "command"
<1>1. [type |-> "MEMBER_REMOVE", user |-> u] \in Event
  BY DEF Event
<1> QED BY <1>1, AppendElements DEF Leave, AuditInv, TypeOK

\* Whoever comes or goes, no command does.
LEMMA CameOrWent ==
    ASSUME AuditInv, ComeAndGo
    PROVE  /\ members' \in SUBSET (Users \cup {Bot}) /\ gateway' \in Seq(Event)
           /\ \A k \in DOMAIN gateway' :
                 \/ k \in DOMAIN gateway /\ gateway'[k] = gateway[k]
                 \/ gateway'[k].type # "command"
<1>1. ASSUME NEW u \in Users, members' = members \cup {u},
             gateway' = Append(gateway, [type |-> "MEMBER_ADD", user |-> u])
      PROVE  /\ members' \in SUBSET (Users \cup {Bot}) /\ gateway' \in Seq(Event)
             /\ \A k \in DOMAIN gateway' :
                   \/ k \in DOMAIN gateway /\ gateway'[k] = gateway[k]
                   \/ gateway'[k].type # "command"
  <2>1. [type |-> "MEMBER_ADD", user |-> u] \in Event
    BY DEF Event
  <2> QED BY <1>1, <2>1, AppendElements DEF AuditInv, TypeOK
<1> QED BY <1>1, Left DEF ComeAndGo

LEMMA AuditComeAndGo ==
    ASSUME AuditInv, ComeAndGo
    PROVE  AuditInv'
<1>1. /\ members' \in SUBSET (Users \cup {Bot}) /\ gateway' \in Seq(Event)
      /\ \A k \in DOMAIN gateway' :
            \/ k \in DOMAIN gateway /\ gateway'[k] = gateway[k]
            \/ gateway'[k].type # "command"
  BY CameOrWent
<1>2. /\ BudgetTypeOK' /\ spent'["click"] = spent["click"]
      /\ UNCHANGED <<known, command, answer, lost, audit, unheard, handling, reason,
                     requests, completions>>
  BY SpendType DEF ComeAndGo, AuditInv, TypeOK, Kinds, Spend, BudgetTypeOK
<1>3. TypeOK'
  BY <1>1, <1>2 DEF AuditInv, TypeOK
<1>4. IdsInv'
  BY <1>1, <1>2 DEF AuditInv, IdsInv
<1> QED BY <1>2, <1>3, <1>4 DEF AuditInv, WhomInv, ReasonInv, AuditedForItself

LEMMA AuditAnswer ==
    ASSUME AuditInv, NEW r \in requests, RunThinking(r) \/ RunFollowup(r)
    PROVE  AuditInv'
<1>1. /\ r.id \in Ids /\ r.id \in DOMAIN command
      /\ r.type = "followup" => r.text \in Texts
  BY RequestFields
<1>2. /\ requests' = requests \ {r}
      /\ UNCHANGED <<spent, members, known, command, audit, unheard, gateway, handling,
                     reason, completions>>
  BY DEF RunThinking, RunFollowup, Take
<1>3. /\ answer' \in [Ids -> {"none", "thinking"} \cup Texts]
      /\ lost' \in SUBSET Ids
      /\ \A i \in Ids : answer'[i] \in Texts => answer[i] \in Texts \/ i = r.id
  <2>1. CASE RunThinking(r)
    BY <1>1, <2>1 DEF RunThinking, AuditInv, TypeOK, Texts
  <2>2. CASE RunFollowup(r)
    BY <1>1, <2>2 DEF RunFollowup, AuditInv, TypeOK
  <2> QED BY <2>1, <2>2
<1>4. TypeOK'
  BY <1>2, <1>3 DEF AuditInv, TypeOK, BudgetTypeOK
<1>5. IdsInv'
  BY <1>1, <1>2, <1>3 DEF AuditInv, IdsInv
<1> QED BY <1>2, <1>4, <1>5 DEF AuditInv, WhomInv, ReasonInv, AuditedForItself

\* A request completes.
LEMMA Completed ==
    ASSUME AuditInv, NEW i \in Ids, NEW b \in BOOLEAN, Complete(i, b)
    PROVE  /\ completions' \in Seq(Completion)
           /\ \A k \in DOMAIN completions' :
                 \/ k \in DOMAIN completions /\ completions'[k] = completions[k]
                 \/ completions'[k].id = i /\ completions'[k].is_error = b
<1>1. [id |-> i, is_error |-> b] \in Completion
  BY DEF Completion
<1> QED BY <1>1, AppendElements DEF Complete, AuditInv, TypeOK

\* The two ways in which a ban, a kick or a timeout is carried out: with its effect or
\* without, and with a response that gets to the bot or not.
LEMMA Moderating ==
    ASSUME AuditInv, NEW r \in requests, RunModeration(r) \/ LoseResponse(r)
    PROVE  /\ r.id \in Ids /\ r.id \in DOMAIN command /\ r.type \in Commands
           /\ r.reason = r.id /\ command[r.id].whom \in Users
           /\ requests' = requests \ {r}
           /\ UNCHANGED <<known, command, answer, lost, handling, reason>>
           /\ UNCHANGED <<members, gateway>> \/ Leave(command[r.id].whom)
           /\ \/ audit' = audit /\ unheard' = unheard /\ Complete(r.id, TRUE)
              \/ /\ audit' = audit \cup {<<r.id, r.id>>}
                 /\ \/ unheard' = unheard /\ Complete(r.id, FALSE)
                    \/ unheard' = unheard \cup {r.id} /\ Complete(r.id, TRUE)
<1>1. /\ r.id \in Ids /\ r.id \in DOMAIN command /\ r.type \in Commands
      /\ r.reason = r.id /\ command[r.id].whom \in Users
  BY RequestFields DEF RunModeration, LoseResponse, AuditInv, AuditedForItself, WhomInv
<1>2. CASE RunModeration(r)
  BY <1>1, <1>2 DEF RunModeration, TakeEffect, Take
<1>3. CASE LoseResponse(r)
  BY <1>1, <1>3 DEF LoseResponse, TakeEffect, Take
<1> QED BY <1>2, <1>3

LEMMA AuditModeration ==
    ASSUME AuditInv, NEW r \in requests, RunModeration(r) \/ LoseResponse(r)
    PROVE  AuditInv'
<1>1. /\ r.id \in Ids /\ r.id \in DOMAIN command /\ command[r.id].whom \in Users
      /\ requests' = requests \ {r}
      /\ UNCHANGED <<known, command, answer, lost, handling, reason>>
      /\ UNCHANGED <<members, gateway>> \/ Leave(command[r.id].whom)
      /\ audit' = audit \/ audit' = audit \cup {<<r.id, r.id>>}
      /\ unheard' = unheard \/ unheard' = unheard \cup {r.id}
      /\ \E b \in BOOLEAN : Complete(r.id, b)
  BY Moderating
<1>2. BudgetTypeOK' /\ spent'["click"] = spent["click"]
  <2>1. CASE RunModeration(r)
    BY <2>1 DEF RunModeration, AuditInv, TypeOK, BudgetTypeOK
  <2>2. CASE LoseResponse(r)
    BY <2>2, SpendType
       DEF LoseResponse, AuditInv, TypeOK, Kinds, Spend, BudgetTypeOK
  <2> QED BY <2>1, <2>2
<1>3. /\ completions' \in Seq(Completion)
      /\ \A k \in DOMAIN completions' :
            \/ k \in DOMAIN completions /\ completions'[k] = completions[k]
            \/ completions'[k].id = r.id
  BY <1>1, Completed
<1>4. /\ members' \in SUBSET (Users \cup {Bot}) /\ gateway' \in Seq(Event)
      /\ \A k \in DOMAIN gateway' :
            \/ k \in DOMAIN gateway /\ gateway'[k] = gateway[k]
            \/ gateway'[k].type # "command"
  BY <1>1, Left DEF AuditInv, TypeOK
<1>5. TypeOK'
  BY <1>1, <1>2, <1>3, <1>4 DEF AuditInv, TypeOK
<1>6. IdsInv'
  BY <1>1, <1>2, <1>3, <1>4 DEF AuditInv, IdsInv
<1>7. AuditedForItself'
  BY <1>1 DEF AuditInv, AuditedForItself
<1> QED BY <1>1, <1>5, <1>6, <1>7 DEF AuditInv, WhomInv, ReasonInv

LEMMA AuditFail ==
    ASSUME AuditInv, NEW r \in requests, FailRequest(r)
    PROVE  AuditInv'
<1>1. r.id \in Ids /\ r.id \in DOMAIN command
  BY RequestFields
<1>2. /\ requests' = requests \ {r}
      /\ BudgetTypeOK' /\ spent'["click"] = spent["click"]
      /\ UNCHANGED <<members, known, command, answer, audit, unheard, gateway, handling,
                     reason>>
  BY SpendType DEF FailRequest, Take, AuditInv, TypeOK, Kinds, Spend, BudgetTypeOK
<1>3. /\ completions' \in Seq(Completion) /\ lost' \in SUBSET Ids
      /\ \A k \in DOMAIN completions' :
            \/ k \in DOMAIN completions /\ completions'[k] = completions[k]
            \/ completions'[k].id = r.id
  <2>1. CASE r.type \in Commands
    <3>1. Complete(r.id, TRUE) /\ lost' = lost
      BY <2>1 DEF FailRequest
    <3>2. lost \in SUBSET Ids
      BY DEF AuditInv, TypeOK
    <3> QED BY <1>1, <3>1, <3>2, Completed
  <2>2. CASE r.type \notin Commands
    <3>1. completions' = completions /\ lost' = lost \cup {r.id}
      BY <2>2 DEF FailRequest
    <3> QED BY <1>1, <3>1 DEF AuditInv, TypeOK
  <2> QED BY <2>1, <2>2
<1>4. TypeOK'
  BY <1>2, <1>3 DEF AuditInv, TypeOK
<1>5. IdsInv'
  BY <1>1, <1>2, <1>3 DEF AuditInv, IdsInv
<1> QED BY <1>2, <1>4, <1>5 DEF AuditInv, WhomInv, ReasonInv, AuditedForItself

LEMMA AuditCrash ==
    ASSUME AuditInv, Crash
    PROVE  AuditInv'
<1>1. BudgetTypeOK' /\ spent'["click"] = spent["click"]
  BY SpendType DEF Crash, AuditInv, TypeOK, Kinds, Spend, BudgetTypeOK
<1>2. /\ DOMAIN gateway' = {} /\ DOMAIN completions' = {} /\ requests' = {}
      /\ gateway' \in Seq(Event) /\ completions' \in Seq(Completion)
      /\ handling' = Idle /\ handling'.at = "idle"
      /\ reason' = [t \in Threads |-> NoId] /\ known' = members
      /\ UNCHANGED <<members, command, answer, lost, audit, unheard>>
  BY AtFields DEF Crash, guildVars
<1>3. TypeOK'
  BY <1>1, <1>2 DEF AuditInv, TypeOK
<1>4. IdsInv'
  BY <1>1, <1>2 DEF AuditInv, IdsInv
<1> QED BY <1>2, <1>3, <1>4
        DEF AuditInv, WhomInv, ReasonInv, AuditedForItself, Threads

LEMMA AuditStep == AuditInv /\ [Next]_vars => AuditInv'
<1> SUFFICES ASSUME AuditInv, [Next]_vars
             PROVE  AuditInv'
  OBVIOUS
<1>1. CASE UNCHANGED vars
  BY <1>1 DEF vars, AuditInv, TypeOK, BudgetTypeOK, IdsInv, WhomInv, ReasonInv,
              AuditedForItself
<1>2. CASE Shard \/ OnModerated
  BY <1>2, AuditHandle, AuditThrows, AuditRefuse, AuditSet, AuditRequest, AuditModerated
     DEF Shard
<1>3. CASE \E r \in requests : Run(r)
  BY <1>3, AuditAnswer, AuditModeration, AuditFail DEF Run
<1> QED BY <1>1, <1>2, <1>3, AuditInvoke, AuditComeAndGo, AuditCrash DEF Next

\* The variables of the moderation commands have their types.
THEOREM TypeCorrect == Spec => []TypeOK
<1>1. AuditInv => TypeOK
  BY DEF AuditInv
<1> QED BY AuditInit, AuditStep, <1>1, PTL DEF Spec

\* Every ban, kick and timeout stands in the audit log under the reason of its own
\* command, and no other request ever carries a reason, however the shard thread
\* and the callback thread take turns.
THEOREM OwnReasons == Spec => []AuditedForItself
<1>1. AuditInv => AuditedForItself
  BY DEF AuditInv
<1> QED BY AuditInit, AuditStep, <1>1, PTL DEF Spec

-----------------------------------------------------------------------------
(* What the moderators are told.  A command is waiting, checked, asked for and then  *)
(* done or refused, never two of these at once.                               *)

Waiting(i) == \E k \in DOMAIN gateway : gateway[k].type = "command" /\ gateway[k].id = i

Checked(i) == handling.at # "idle" /\ handling.id = i

Asked(i) == \E r \in requests : r.type \in Commands /\ r.id = i

Happened(i) == \E entry \in audit : entry[1] = i

Refusals == {"refused", "failed"}

\* The moderator reads a refusal, or is about to.
Refused(i) ==
    \/ answer[i] \in Refusals
    \/ \E r \in requests : r.type = "followup" /\ r.id = i /\ r.text \in Refusals
    \/ \E k \in DOMAIN completions : completions[k].id = i /\ completions[k].is_error

\* He reads that nothing was tried, or is about to.
Denied(i) ==
    \/ answer[i] = "refused"
    \/ \E r \in requests : r.type = "followup" /\ r.id = i /\ r.text = "refused"

\* The moderator reads a confirmation, or is about to.
Done(i) ==
    \/ answer[i] = "done"
    \/ \E r \in requests : r.type = "followup" /\ r.id = i /\ r.text = "done"
    \/ \E k \in DOMAIN completions : completions[k].id = i /\ ~completions[k].is_error

WaitsOnce ==
    \A k, l \in DOMAIN gateway :
        gateway[k].type = "command" /\ gateway[l].type = "command"
            /\ gateway[k].id = gateway[l].id => k = l

Told(i) ==
    /\ Waiting(i) => ~Checked(i)
    /\ Waiting(i) \/ Checked(i) => ~Asked(i)
    /\ Waiting(i) \/ Checked(i) \/ Asked(i) => ~Happened(i) /\ ~Refused(i)
    /\ Done(i) => Happened(i)
    /\ Refused(i) /\ Happened(i) => i \in unheard
    /\ i \in unheard => Happened(i) /\ ~Done(i) /\ ~Denied(i)

ToldInv == WaitsOnce /\ \A i \in Ids : Told(i)

LEMMA ToldInit == Init => ToldInv
<1> SUFFICES ASSUME Init PROVE ToldInv
  OBVIOUS
<1>1. DOMAIN gateway = {} /\ DOMAIN completions = {} /\ requests = {} /\ audit = {}
  BY DEF Init
<1>2. ASSUME NEW i \in Ids
      PROVE  Told(i)
  <2>1. answer[i] = "none"
    BY DEF Init
  <2>2. ~Waiting(i) /\ ~Asked(i) /\ ~Refused(i) /\ ~Done(i)
    BY <1>1, <2>1 DEF Waiting, Asked, Refused, Done, Refusals
  <2>3. ~Checked(i) /\ i \notin unheard
    BY AtFields DEF Init, Checked
  <2> QED BY <2>2, <2>3 DEF Told
<1> QED BY <1>1, <1>2 DEF ToldInv, WaitsOnce

\* Whatever else comes or goes, no command waits that did not wait before.
LEMMA NoneNew ==
    ASSUME ToldInv,
           \A k \in DOMAIN gateway' :
              \/ k \in DOMAIN gateway /\ gateway'[k] = gateway[k]
              \/ gateway'[k].type # "command"
    PROVE  WaitsOnce' /\ \A i \in Ids : Waiting(i)' => Waiting(i)
BY DEF ToldInv, WaitsOnce, Waiting

\* A command that is taken does not wait any longer.
LEMMA OneLess ==
    ASSUME AuditInv, ToldInv, NEW type, Receive(type)
    PROVE  /\ WaitsOnce'
           /\ \A i \in Ids : Waiting(i)' => Waiting(i)
           /\ type = "command" => /\ Waiting(Head(gateway).id)
                                  /\ \A i \in Ids : Waiting(i)' => i # Head(gateway).id
<1>1. /\ Head(gateway) = gateway[1] /\ 1 \in DOMAIN gateway
      /\ \A k \in DOMAIN gateway' :
            k + 1 \in DOMAIN gateway /\ gateway'[k] = gateway[k + 1]
  BY Received
<1>2. \A k \in DOMAIN gateway' : k \in Nat \ {0}
  <2>1. gateway' \in Seq(Event)
    BY Received
  <2>2. DOMAIN gateway' = 1 .. Len(gateway') /\ Len(gateway') \in Nat
    BY <2>1, LenProperties
  <2> QED BY <2>2
<1>3. WaitsOnce'
  <2>1. SUFFICES ASSUME NEW k \in DOMAIN gateway', NEW l \in DOMAIN gateway',
                        gateway'[k].type = "command", gateway'[l].type = "command",
                        gateway'[k].id = gateway'[l].id
                 PROVE  k = l
    BY DEF WaitsOnce
  <2>2. k + 1 = l + 1
    BY <1>1, <2>1 DEF ToldInv, WaitsOnce
  <2> QED BY <1>2, <2>1, <2>2
<1>4. \A i \in Ids : Waiting(i)' => Waiting(i)
  BY <1>1 DEF Waiting
<1>5. ASSUME type = "command"
      PROVE  /\ Waiting(Head(gateway).id)
             /\ \A i \in Ids : Waiting(i)' => i # Head(gateway).id
  <2>1. gateway[1].type = "command"
    BY <1>1, <1>5 DEF Receive
  <2>2. Waiting(Head(gateway).id)
    BY <1>1, <2>1 DEF Waiting
  <2>3. ASSUME NEW k \in DOMAIN gateway', gateway'[k].type = "command"
        PROVE  gateway'[k].id # Head(gateway).id
    <3>1. k + 1 # 1 /\ k + 1 \in DOMAIN gateway /\ gateway'[k] = gateway[k + 1]
      BY <1>1, <1>2, <2>3
    <3> QED BY <1>1, <2>1, <2>3, <3>1 DEF ToldInv, WaitsOnce
  <2> QED BY <2>2, <2>3 DEF Waiting
<1> QED BY <1>3, <1>4, <1>5

LEMMA ToldHandle ==
    ASSUME AuditInv, ToldInv, HandleCommand
    PROVE  ToldInv'
<1>1. PICK j \in Ids : /\ Receive("command") /\ Head(gateway).id = j /\ Think(j)
                       /\ UNCHANGED <<spent, guildVars, known, completions>>
  BY DEF HandleCommand
<1>2. handling' = At("checks", j) /\ handling = Idle
  BY <1>1 DEF Think, Receive
<1>3. requests' = requests \cup {[type |-> "thinking", id |-> j, reason |-> reason["shard"]]}
  BY <1>1, CallPosted DEF Think, Threads
<1>4. /\ WaitsOnce' /\ Waiting(j)
      /\ \A i \in Ids : Waiting(i)' => Waiting(i) /\ i # j
  BY <1>1, OneLess
<1>5. ASSUME NEW i \in Ids
      PROVE  Told(i)'
  <2>1. Checked(i)' => i = j
    BY <1>2, AtFields DEF Checked
  <2>2. /\ Asked(i)' <=> Asked(i)
        /\ Happened(i)' <=> Happened(i)
    BY <1>1, <1>3 DEF Asked, Happened, Commands, guildVars
  <2>3. /\ Refused(i)' <=> Refused(i)
        /\ Denied(i)' <=> Denied(i)
        /\ Done(i)' <=> Done(i)
        /\ unheard' = unheard
    BY <1>1, <1>3 DEF Refused, Denied, Done, guildVars
  <2> QED BY <1>4, <2>1, <2>2, <2>3 DEF ToldInv, Told
<1> QED BY <1>4, <1>5 DEF ToldInv

LEMMA ToldThrows ==
    ASSUME AuditInv, ToldInv, HandlerThrows \/ OnMember
    PROVE  ToldInv'
<1>1. UNCHANGED <<guildVars, handling, reason, requests, completions>>
  BY DEF HandlerThrows, OnMember
<1>2. WaitsOnce' /\ \A i \in Ids : Waiting(i)' => Waiting(i)
  BY OneLess DEF HandlerThrows, OnMember
<1>3. ASSUME NEW i \in Ids
      PROVE  Told(i)'
  <2>1. /\ Checked(i)' <=> Checked(i)
        /\ Asked(i)' <=> Asked(i)
        /\ Happened(i)' <=> Happened(i)
        /\ Refused(i)' <=> Refused(i)
        /\ Denied(i)' <=> Denied(i)
        /\ Done(i)' <=> Done(i)
        /\ unheard' = unheard
    BY <1>1 DEF Checked, Asked, Happened, Refused, Denied, Done, guildVars
  <2> QED BY <1>2, <2>1 DEF ToldInv, Told
<1> QED BY <1>2, <1>3 DEF ToldInv

LEMMA ToldRefuse ==
    ASSUME AuditInv, ToldInv, Refuse
    PROVE  ToldInv'
<1>1. PICK j \in DOMAIN command :
         /\ handling = At("checks", j) /\ Post("shard", Followup(j, "refused"))
         /\ handling' = Idle /\ UNCHANGED <<spent, guildVars, known, gateway, completions>>
  BY DEF Refuse
<1>2. j \in Ids
  BY UsedIds
<1>3. requests' = requests \cup {[type |-> "followup", id |-> j,
                                  reason |-> reason["shard"], text |-> "refused"]}
  BY <1>1, <1>2, FollowupPosted DEF Threads, Texts
<1>4. WaitsOnce' /\ \A i \in Ids : Waiting(i)' => Waiting(i)
  BY <1>1, NoneNew
<1>5. ASSUME NEW i \in Ids
      PROVE  Told(i)'
  <2>1. ~Checked(i)' /\ (i = j => Checked(i))
    BY <1>1, AtFields DEF Checked
  <2>2. /\ Asked(i)' <=> Asked(i)
        /\ Happened(i)' <=> Happened(i)
    BY <1>1, <1>3 DEF Asked, Happened, Commands, guildVars
  <2>3. /\ Refused(i)' => Refused(i) \/ i = j
        /\ Denied(i)' => Denied(i) \/ i = j
        /\ Done(i)' <=> Done(i)
        /\ unheard' = unheard
    BY <1>1, <1>3 DEF Refused, Denied, Done, guildVars
  <2> QED BY <1>4, <2>1, <2>2, <2>3 DEF ToldInv, Told
<1> QED BY <1>4, <1>5 DEF ToldInv

LEMMA ToldRequest ==
    ASSUME AuditInv, ToldInv, SetAuditReason \/ RequestIt
    PROVE  ToldInv'
<1>1. PICK j \in DOMAIN command, s \in {"checks", "request"} :
         /\ handling = At(s, j)
         /\ handling' \in {Idle, At("request", j)}
         /\ \/ requests' = requests /\ handling' = At("request", j)
            \/ Post("shard", Call(command[j].name, j)) /\ handling' = Idle
         /\ UNCHANGED <<guildVars, gateway, completions>>
  BY DEF SetAuditReason, RequestIt, Pass
<1>2. j \in Ids /\ command[j].name \in Commands
  BY UsedIds DEF Command
<1>3. \/ requests' = requests /\ handling' = At("request", j)
      \/ /\ handling' = Idle
         /\ requests' = requests \cup {[type |-> command[j].name, id |-> j,
                                        reason |-> reason["shard"]]}
  BY <1>1, <1>2, CallPosted DEF Threads
<1>4. WaitsOnce' /\ \A i \in Ids : Waiting(i)' => Waiting(i)
  BY <1>1, NoneNew
<1>5. ASSUME NEW i \in Ids
      PROVE  Told(i)'
  <2>1. Checked(i) <=> i = j
    BY <1>1, AtFields DEF Checked
  <2>2. \/ (Checked(i)' <=> i = j) /\ (Asked(i)' <=> Asked(i))
        \/ ~Checked(i)' /\ (Asked(i)' => Asked(i) \/ i = j)
    BY <1>3, AtFields DEF Checked, Asked
  <2>3. Happened(i)' <=> Happened(i)
    BY <1>1 DEF Happened, guildVars
  <2>4. /\ Refused(i)' <=> Refused(i)
        /\ Denied(i)' <=> Denied(i)
        /\ Done(i)' <=> Done(i)
        /\ unheard' = unheard
    BY <1>1, <1>2, <1>3 DEF Refused, Denied, Done, guildVars, Commands
  <2> QED BY <1>4, <2>1, <2>2, <2>3, <2>4 DEF ToldInv, Told
<1> QED BY <1>4, <1>5 DEF ToldInv

LEMMA ToldModerated ==
    ASSUME AuditInv, ToldInv, OnModerated
    PROVE  ToldInv'
<1>1. PICK j \in DOMAIN command, text \in {"failed", "done"} :
         /\ \E k \in DOMAIN completions :
               completions[k].id = j /\ completions[k].is_error = (text = "failed")
         /\ j \in Ids
         /\ Post("callbacks", Followup(j, text))
         /\ \A k \in DOMAIN completions' :
               k + 1 \in DOMAIN completions /\ completions'[k] = completions[k + 1]
         /\ UNCHANGED <<guildVars, gateway, handling>>
  BY Moderated
<1>2. requests' = requests \cup {[type |-> "followup", id |-> j,
                                  reason |-> reason["callbacks"], text |-> text]}
  BY <1>1, FollowupPosted DEF Threads, Texts
<1>3. WaitsOnce' /\ \A i \in Ids : Waiting(i)' => Waiting(i)
  BY <1>1, NoneNew
<1>4. (text = "failed" => Refused(j)) /\ (text = "done" => Done(j))
  BY <1>1 DEF Refused, Done
<1>5. ASSUME NEW i \in Ids
      PROVE  Told(i)'
  <2>1. /\ Checked(i)' <=> Checked(i)
        /\ Asked(i)' <=> Asked(i)
        /\ Happened(i)' <=> Happened(i)
    BY <1>1, <1>2 DEF Checked, Asked, Happened, Commands, guildVars
  <2>2. Refused(i)' => Refused(i) \/ (i = j /\ text = "failed")
    BY <1>1, <1>2 DEF Refused, guildVars, Refusals
  <2>3. Done(i)' => Done(i) \/ (i = j /\ text = "done")
    BY <1>1, <1>2 DEF Done, guildVars
  <2>4. (Denied(i)' => Denied(i)) /\ unheard' = unheard
    BY <1>1, <1>2 DEF Denied, guildVars
  <2> QED BY <1>3, <1>4, <2>1, <2>2, <2>3, <2>4 DEF ToldInv, Told
<1> QED BY <1>3, <1>5 DEF ToldInv

LEMMA ToldInvoke ==
    ASSUME AuditInv, ToldInv, Invoke
    PROVE  ToldInv'
<1> DEFINE j == Len(command')
           e == [type |-> "command", id |-> Len(command')]
<1>1. /\ gateway' = Append(gateway, e) /\ e \in Event /\ gateway \in Seq(Event)
      /\ UNCHANGED <<answer, audit, unheard, handling, requests, completions>>
  BY Invoked DEF Invoke, AuditInv, TypeOK
<1>2. j \in Ids /\ j \notin DOMAIN command
  BY Invoked
<1>3. /\ Len(gateway) \in Nat /\ DOMAIN gateway = 1 .. Len(gateway)
      /\ DOMAIN gateway' = 1 .. (Len(gateway) + 1)
      /\ \A k \in 1 .. Len(gateway) : gateway'[k] = gateway[k]
      /\ gateway'[Len(gateway) + 1].type = "command"
      /\ gateway'[Len(gateway) + 1].id = j
  BY <1>1, AppendProperties, LenProperties
<1>4. \A k \in DOMAIN gateway : gateway[k].type = "command" => gateway[k].id # j
  BY <1>2 DEF AuditInv, IdsInv
<1>5. WaitsOnce'
  <2>1. SUFFICES ASSUME NEW k \in DOMAIN gateway', NEW l \in DOMAIN gateway',
                        gateway'[k].type = "command", gateway'[l].type = "command",
                        gateway'[k].id = gateway'[l].id
                 PROVE  k = l
    BY DEF WaitsOnce
  <2>2. (k \in 1 .. Len(gateway) \/ k = Len(gateway) + 1)
           /\ (l \in 1 .. Len(gateway) \/ l = Len(gateway) + 1)
    BY <1>3, <2>1
  <2> HIDE DEF j
  <2>3. (k \in 1 .. Len(gateway) => gateway'[k].id # j)
           /\ (l \in 1 .. Len(gateway) => gateway'[l].id # j)
    BY <1>3, <1>4, <2>1
  <2>4. CASE k \in 1 .. Len(gateway) /\ l \in 1 .. Len(gateway)
    BY <1>3, <2>1, <2>4 DEF ToldInv, WaitsOnce
  <2> QED BY <1>3, <2>1, <2>2, <2>3, <2>4
<1>6. \A i \in Ids : Waiting(i)' => Waiting(i) \/ i = j
  BY <1>3 DEF Waiting
<1>7. ~Checked(j) /\ ~Asked(j) /\ ~Happened(j) /\ ~Refused(j)
  <2>1. ~Checked(j)
    BY <1>2, HandlingCases, AtFields DEF Checked
  <2>2. ~Asked(j) /\ ~Happened(j) /\ ~Refused(j)
    BY <1>2 DEF AuditInv, IdsInv, Asked, Happened, Refused, Refusals, Texts
  <2> QED BY <2>1, <2>2
<1>8. ASSUME NEW i \in Ids
      PROVE  Told(i)'
  <2>1. /\ Checked(i)' <=> Checked(i)
        /\ Asked(i)' <=> Asked(i)
        /\ Happened(i)' <=> Happened(i)
        /\ Refused(i)' <=> Refused(i)
        /\ Denied(i)' <=> Denied(i)
        /\ Done(i)' <=> Done(i)
        /\ unheard' = unheard
    BY <1>1 DEF Checked, Asked, Happened, Refused, Denied, Done
  <2> HIDE DEF j
  <2> QED BY <1>6, <1>7, <2>1 DEF ToldInv, Told
<1> QED BY <1>5, <1>8 DEF ToldInv

LEMMA ToldComeAndGo ==
    ASSUME AuditInv, ToldInv, ComeAndGo
    PROVE  ToldInv'
<1>2. WaitsOnce' /\ \A i \in Ids : Waiting(i)' => Waiting(i)
  BY CameOrWent, NoneNew
<1>3. ASSUME NEW i \in Ids
      PROVE  Told(i)'
  <2>1. /\ Checked(i)' <=> Checked(i)
        /\ Asked(i)' <=> Asked(i)
        /\ Happened(i)' <=> Happened(i)
        /\ Refused(i)' <=> Refused(i)
        /\ Denied(i)' <=> Denied(i)
        /\ Done(i)' <=> Done(i)
        /\ unheard' = unheard
    BY DEF ComeAndGo, Checked, Asked, Happened, Refused, Denied, Done
  <2> QED BY <1>2, <2>1 DEF ToldInv, Told
<1> QED BY <1>2, <1>3 DEF ToldInv

LEMMA ToldAnswer ==
    ASSUME AuditInv, ToldInv, NEW r \in requests, RunThinking(r) \/ RunFollowup(r)
    PROVE  ToldInv'
<1>1. /\ requests' = requests \ {r}
      /\ UNCHANGED <<audit, unheard, gateway, handling, completions>>
  BY DEF RunThinking, RunFollowup, Take
<1>2. answer \in [Ids -> {"none", "thinking"} \cup Texts] /\ r.id \in Ids
  BY RequestFields DEF AuditInv, TypeOK
<1>3. WaitsOnce' /\ \A i \in Ids : Waiting(i)' => Waiting(i)
  BY <1>1, NoneNew
<1>4. ASSUME NEW i \in Ids
      PROVE  Told(i)'
  <2>1. /\ Checked(i)' <=> Checked(i)
        /\ Asked(i)' => Asked(i)
        /\ Happened(i)' <=> Happened(i)
    BY <1>1 DEF Checked, Asked, Happened
  <2>2. \/ answer'[i] = answer[i] \/ answer'[i] = "thinking"
        \/ r.type = "followup" /\ r.id = i /\ answer'[i] = r.text
    BY <1>2 DEF RunThinking, RunFollowup
  <2>3. Refused(i)' => Refused(i)
    BY <1>1, <2>2 DEF Refused, Refusals
  <2>4. (Done(i)' => Done(i)) /\ (Denied(i)' => Denied(i))
    BY <1>1, <2>2 DEF Done, Denied
  <2> QED BY <1>1, <1>3, <2>1, <2>3, <2>4 DEF ToldInv, Told
<1> QED BY <1>3, <1>4 DEF ToldInv

\* There is one request of a command, and it is carried out or fails.
LEMMA AskedOnce ==
    ASSUME AuditInv, NEW r \in requests, r.type \in Commands
    PROVE  /\ Asked(r.id)
           /\ \A q \in requests : q.type \in Commands /\ q.id = r.id => q = r
<1>1. ASSUME NEW q \in requests, q.type \in Commands, q.id = r.id
      PROVE  q = r
  <2>1. q \in Request /\ r \in Request /\ q.reason = r.reason /\ q.type = r.type
    BY <1>1 DEF AuditInv, TypeOK, AuditedForItself, WhomInv
  <2>2. /\ q = [type |-> q.type, id |-> q.id, reason |-> q.reason]
        /\ r = [type |-> r.type, id |-> r.id, reason |-> r.reason]
    BY <1>1, <2>1 DEF Request, Commands
  <2> QED BY <1>1, <2>1, <2>2
<1> QED BY <1>1 DEF Asked

\* What a request leaves behind when it completes: nothing, or an entry in the log; and
\* a completion that is an error, or is not.
LEMMA LogAndCompletion ==
    ASSUME AuditInv, NEW j \in Ids, NEW i \in Ids, NEW r, requests' = requests \ {r},
           UNCHANGED answer
    PROVE  /\ audit' = audit => (Happened(i)' <=> Happened(i))
           /\ audit' = audit \cup {<<j, j>>} => (Happened(i)' <=> Happened(i) \/ i = j)
           /\ Denied(i)' => Denied(i)
           /\ Complete(j, TRUE) => /\ Refused(i)' => Refused(i) \/ i = j
                                   /\ Done(i)' => Done(i)
           /\ Complete(j, FALSE) => /\ Refused(i)' => Refused(i)
                                    /\ Done(i)' => Done(i) \/ i = j
<1>1. audit' = audit => (Happened(i)' <=> Happened(i))
  BY DEF Happened
<1>2. ASSUME audit' = audit \cup {<<j, j>>}
      PROVE  Happened(i)' <=> Happened(i) \/ i = j
  <2> DEFINE entry == <<j, j>>
  <2>1. entry[1] = j /\ audit' = audit \cup {entry}
    BY <1>2
  <2> HIDE DEF entry
  <2>2. i = j => Happened(i)'
    BY <2>1 DEF Happened
  <2>3. Happened(i) => Happened(i)'
    BY <2>1 DEF Happened
  <2>4. Happened(i)' => Happened(i) \/ i = j
    BY <2>1 DEF Happened
  <2> QED BY <2>2, <2>3, <2>4
<1>3. Denied(i)' => Denied(i)
  BY DEF Denied
<1>4. ASSUME NEW b \in BOOLEAN, Complete(j, b)
      PROVE  /\ Refused(i)' => Refused(i) \/ (i = j /\ b)
             /\ Done(i)' => Done(i) \/ (i = j /\ ~b)
  <2>1. \A k \in DOMAIN completions' :
           \/ k \in DOMAIN completions /\ completions'[k] = completions[k]
           \/ completions'[k].id = j /\ completions'[k].is_error = b
    BY <1>4, Completed
  <2>2. Refused(i)' => Refused(i) \/ (i = j /\ b)
    BY <2>1 DEF Refused
  <2>3. Done(i)' => Done(i) \/ (i = j /\ ~b)
    BY <2>1 DEF Done
  <2> QED BY <2>2, <2>3
<1> QED BY <1>1, <1>2, <1>3, <1>4

LEMMA ToldModeration ==
    ASSUME AuditInv, ToldInv, NEW r \in requests, RunModeration(r) \/ LoseResponse(r)
    PROVE  ToldInv'
<1> DEFINE j == r.id
<1>1. /\ j \in Ids /\ r.type \in Commands /\ command[j].whom \in Users
      /\ requests' = requests \ {r} /\ UNCHANGED <<answer, handling>>
      /\ UNCHANGED gateway \/ Leave(command[j].whom)
      /\ \/ audit' = audit /\ unheard' = unheard /\ Complete(j, TRUE)
         \/ /\ audit' = audit \cup {<<j, j>>}
            /\ \/ unheard' = unheard /\ Complete(j, FALSE)
               \/ unheard' = unheard \cup {j} /\ Complete(j, TRUE)
  BY Moderating
<1>2. Asked(j) /\ \A q \in requests : q.type \in Commands /\ q.id = j => q = r
  BY <1>1, AskedOnce
<1>3. WaitsOnce' /\ \A i \in Ids : Waiting(i)' => Waiting(i)
  <2>1. CASE UNCHANGED gateway
    BY <2>1, NoneNew
  <2>2. CASE Leave(command[j].whom)
    BY <1>1, <2>2, Left, NoneNew
  <2> QED BY <1>1, <2>1, <2>2
<1> HIDE DEF j
<1>4. ASSUME NEW i \in Ids
      PROVE  Told(i)'
  <2>1. /\ Checked(i)' <=> Checked(i)
        /\ Asked(i)' => Asked(i) /\ i # j
    BY <1>1, <1>2 DEF Checked, Asked
  <2>2. CASE audit' = audit /\ unheard' = unheard /\ Complete(j, TRUE)
    <3>1. /\ Happened(i)' <=> Happened(i)
          /\ (Denied(i)' => Denied(i)) /\ (Done(i)' => Done(i))
          /\ Refused(i)' => Refused(i) \/ i = j
      BY <1>1, <2>2, LogAndCompletion
    <3> QED BY <1>2, <1>3, <2>1, <2>2, <3>1 DEF ToldInv, Told
  <2>3. CASE audit' = audit \cup {<<j, j>>} /\ unheard' = unheard /\ Complete(j, FALSE)
    <3>1. /\ Happened(i)' <=> Happened(i) \/ i = j
          /\ (Denied(i)' => Denied(i)) /\ (Done(i)' => Done(i) \/ i = j)
          /\ Refused(i)' => Refused(i)
      BY <1>1, <2>3, LogAndCompletion
    <3> QED BY <1>2, <1>3, <2>1, <2>3, <3>1 DEF ToldInv, Told
  <2>4. CASE audit' = audit \cup {<<j, j>>} /\ unheard' = unheard \cup {j} /\ Complete(j, TRUE)
    <3>1. /\ Happened(i)' <=> Happened(i) \/ i = j
          /\ (Denied(i)' => Denied(i)) /\ (Done(i)' => Done(i))
          /\ Refused(i)' => Refused(i) \/ i = j
      BY <1>1, <2>4, LogAndCompletion
    <3>2. ~Refused(j) /\ ~Happened(j) /\ ~Done(j) /\ (Denied(j) => Refused(j))
      BY <1>1, <1>2 DEF ToldInv, Told, Denied, Refused, Refusals
    <3> QED BY <1>2, <1>3, <2>1, <2>4, <3>1, <3>2 DEF ToldInv, Told
  <2> QED BY <1>1, <2>2, <2>3, <2>4
<1> QED BY <1>3, <1>4 DEF ToldInv

LEMMA ToldFail ==
    ASSUME AuditInv, ToldInv, NEW r \in requests, FailRequest(r)
    PROVE  ToldInv'
<1> DEFINE j == r.id
<1>1. /\ j \in Ids /\ requests' = requests \ {r}
      /\ UNCHANGED <<answer, audit, unheard, gateway, handling>>
  BY RequestFields DEF FailRequest, Take
<1>2. WaitsOnce' /\ \A i \in Ids : Waiting(i)' => Waiting(i)
  BY <1>1, NoneNew
<1>3. ASSUME NEW i \in Ids
      PROVE  Told(i)'
  <2>1. /\ Checked(i)' <=> Checked(i)
        /\ Happened(i)' <=> Happened(i)
        /\ Denied(i)' => Denied(i)
    BY <1>1 DEF Checked, Happened, Denied
  <2>2. CASE r.type \in Commands
    <3>1. Asked(j) /\ (Asked(i)' => Asked(i) /\ i # j)
      BY <1>1, <2>2, AskedOnce DEF Asked
    <3>2. Complete(j, TRUE)
      BY <2>2 DEF FailRequest
    <3>3. (Refused(i)' => Refused(i) \/ i = j) /\ (Done(i)' => Done(i))
      BY <1>1, <3>2, Completed DEF Refused, Done
    <3> QED BY <1>1, <1>2, <2>1, <3>1, <3>3 DEF ToldInv, Told
  <2>3. CASE r.type \notin Commands
    <3>1. completions' = completions
      BY <2>3 DEF FailRequest
    <3>2. (Asked(i)' => Asked(i)) /\ (Refused(i)' => Refused(i)) /\ (Done(i)' => Done(i))
      BY <1>1, <3>1 DEF Asked, Refused, Done
    <3> QED BY <1>1, <1>2, <2>1, <3>2 DEF ToldInv, Told
  <2> QED BY <2>2, <2>3
<1> QED BY <1>2, <1>3 DEF ToldInv

LEMMA ToldCrash ==
    ASSUME AuditInv, ToldInv, Crash
    PROVE  ToldInv'
<1>1. /\ DOMAIN gateway' = {} /\ DOMAIN completions' = {} /\ requests' = {}
      /\ handling'.at = "idle" /\ UNCHANGED <<answer, audit, unheard>>
  BY AtFields DEF Crash, guildVars
<1>2. ASSUME NEW i \in Ids
      PROVE  Told(i)'
  <2>1. /\ ~Waiting(i)' /\ ~Checked(i)' /\ ~Asked(i)'
        /\ Happened(i)' <=> Happened(i)
    BY <1>1 DEF Waiting, Checked, Asked, Happened
  <2>2. (Refused(i)' => Refused(i)) /\ (Denied(i)' => Denied(i)) /\ (Done(i)' => Done(i))
    BY <1>1 DEF Refused, Denied, Done
  <2> QED BY <1>1, <2>1, <2>2 DEF ToldInv, Told
<1> QED BY <1>1, <1>2 DEF ToldInv, WaitsOnce

LEMMA ToldStep == AuditInv /\ ToldInv /\ [Next]_vars => ToldInv'
<1> SUFFICES ASSUME AuditInv, ToldInv, [Next]_vars
             PROVE  ToldInv'
  OBVIOUS
<1>1. CASE UNCHANGED vars
  BY <1>1
     DEF vars, ToldInv, Told, WaitsOnce, Waiting, Checked, Asked, Happened, Refused, Denied,
         Done
<1>2. CASE Shard \/ OnModerated
  BY <1>2, ToldHandle, ToldThrows, ToldRefuse, ToldRequest, ToldModerated DEF Shard
<1>3. CASE \E r \in requests : Run(r)
  BY <1>3, ToldAnswer, ToldModeration, ToldFail DEF Run
<1> QED BY <1>1, <1>2, <1>3, ToldInvoke, ToldComeAndGo, ToldCrash DEF Next

\* A moderator who reads that a member "has been banned" finds the ban in the audit
\* log, and one who reads a refusal finds nothing there, whatever fails, completes late
\* or is lost in a crash.  One who reads an error finds nothing there either, unless it
\* was the response to his own command that was lost: the callback cannot tell that from
\* a request that failed (ban.cpp:93).
THEOREM ToldWhatHappened == Spec => []ToldTheTruth
<1>1. ToldInv => ToldTheTruth
  BY DEF ToldInv, Told, ToldTheTruth, Happened, Refused, Denied, Done, Refusals
<1> QED BY AuditInit, AuditStep, ToldInit, ToldStep, <1>1, PTL DEF Spec

-----------------------------------------------------------------------------
(* The audit trail.  A "thinking" that is still to come finds no answer, so that *)
(* none is replaced by it; and nobody asks for somebody to moderate himself.   *)

Others(i) == command[i].whom # command[i].by

AnswersInv ==
    /\ \A i \in Ids : answer[i] # "none" => i \in DOMAIN command
    /\ \A i \in Ids : Waiting(i) => answer[i] = "none"
    /\ \A r \in requests : r.type = "thinking" => answer[r.id] = "none" /\ ~Waiting(r.id)

OthersInv ==
    /\ handling.at = "request" => Others(handling.id)
    /\ \A r \in requests : r.type \in Commands => Others(r.id)

TrailInv == AnswersInv /\ OthersInv

LEMMA TrailInit == Init => TrailInv
<1> SUFFICES ASSUME Init PROVE TrailInv
  OBVIOUS
<1>1. DOMAIN gateway = {} /\ requests = {} /\ \A i \in Ids : answer[i] = "none"
  BY DEF Init
<1>2. handling.at = "idle"
  BY AtFields DEF Init
<1> QED BY <1>1, <1>2 DEF TrailInv, AnswersInv, OthersInv

\* A step that answers nobody and adds no command, but may take one and make requests.
LEMMA TrailKept ==
    ASSUME AuditInv, TrailInv, UNCHANGED <<command, answer>>,
           \A i \in Ids : Waiting(i)' => Waiting(i),
           \A r \in requests' :
              \/ r \in requests
              \/ r.type = "followup"
              \/ r.type = "thinking" /\ answer[r.id] = "none" /\ ~Waiting(r.id)'
              \/ r.type \in Commands /\ Others(r.id),
           handling'.at = "request" => handling' = handling \/ Others(handling'.id)
    PROVE  TrailInv'
<1>1. \A r \in requests : r.id \in Ids
  BY RequestFields
<1>2. AnswersInv'
  <2>1. \A i \in Ids : (Waiting(i) => answer[i] = "none")'
    BY DEF TrailInv, AnswersInv
  <2>2. ASSUME NEW r \in requests', r.type = "thinking"
        PROVE  answer'[r.id] = "none" /\ ~Waiting(r.id)'
    <3>1. CASE r \in requests
      BY <1>1, <2>2, <3>1 DEF TrailInv, AnswersInv
    <3>2. CASE r \notin requests
      BY <2>2, <3>2 DEF Commands
    <3> QED BY <3>1, <3>2
  <2> QED BY <2>1, <2>2 DEF TrailInv, AnswersInv
<1>3. OthersInv'
  <2>1. \A i : Others(i)' <=> Others(i)
    BY DEF Others
  <2>2. ASSUME NEW r \in requests', r.type \in Commands
        PROVE  Others(r.id)'
    BY <2>1, <2>2 DEF TrailInv, OthersInv, Commands
  <2>3. (handling.at = "request" => Others(handling.id))'
    BY <2>1 DEF TrailInv, OthersInv
  <2> QED BY <2>2, <2>3 DEF OthersInv
<1> QED BY <1>2, <1>3 DEF TrailInv

LEMMA TrailHandle ==
    ASSUME AuditInv, ToldInv, TrailInv, HandleCommand
    PROVE  TrailInv'
<1>1. PICK j \in Ids : /\ Receive("command") /\ Head(gateway).id = j /\ Think(j)
                       /\ UNCHANGED <<spent, guildVars, known, completions>>
  BY DEF HandleCommand
<1>2. /\ requests' = requests \cup {[type |-> "thinking", id |-> j, reason |-> reason["shard"]]}
      /\ handling'.at = "checks"
  BY <1>1, CallPosted, AtFields DEF Think, Threads
<1>3. /\ \A i \in Ids : Waiting(i)' => Waiting(i) /\ i # j
      /\ Waiting(j)
  BY <1>1, OneLess
<1>4. answer[j] = "none" /\ ~Waiting(j)'
  BY <1>3 DEF TrailInv, AnswersInv
<1>5. \A r \in requests' :
         \/ r \in requests
         \/ r.type = "thinking" /\ answer[r.id] = "none" /\ ~Waiting(r.id)'
  BY <1>2, <1>4
<1>6. UNCHANGED <<command, answer>>
  BY <1>1 DEF guildVars
<1> QED BY <1>2, <1>3, <1>5, <1>6, TrailKept

LEMMA TrailShard ==
    ASSUME AuditInv, ToldInv, TrailInv,
           HandlerThrows \/ OnMember \/ Refuse \/ SetAuditReason \/ RequestIt
    PROVE  TrailInv'
<1>1. UNCHANGED <<command, answer>>
  BY DEF HandlerThrows, OnMember, Refuse, SetAuditReason, RequestIt, guildVars
<1>2. CASE HandlerThrows \/ OnMember
  <2>1. UNCHANGED <<handling, requests>> /\ \E type : Receive(type)
    BY <1>2 DEF HandlerThrows, OnMember
  <2>2. \A i \in Ids : Waiting(i)' => Waiting(i)
    BY <2>1, OneLess
  <2> QED BY <1>1, <2>1, <2>2, TrailKept
<1>3. CASE Refuse
  <2>1. PICK i \in DOMAIN command :
           /\ Post("shard", Followup(i, "refused"))
           /\ handling' = Idle /\ UNCHANGED gateway
    BY <1>3 DEF Refuse
  <2>2. \A r \in requests' : r \in requests \/ r.type = "followup"
    BY <2>1, FollowupPosted, UsedIds DEF Threads, Texts
  <2>3. handling'.at # "request" /\ \A j \in Ids : Waiting(j)' => Waiting(j)
    BY <2>1, AtFields DEF Waiting
  <2> QED BY <1>1, <2>2, <2>3, TrailKept
<1>4. CASE SetAuditReason
  <2>1. PICK i \in DOMAIN command :
           Pass(i) /\ handling' = At("request", i) /\ UNCHANGED <<gateway, requests>>
    BY <1>4 DEF SetAuditReason
  <2>2. Others(handling'.id) /\ \A j \in Ids : Waiting(j)' => Waiting(j)
    BY <2>1, AtFields DEF Pass, Others, Waiting
  <2> QED BY <1>1, <2>1, <2>2, TrailKept
<1>5. CASE RequestIt
  <2>1. PICK i \in DOMAIN command :
           /\ handling = At("request", i) /\ Post("shard", Call(command[i].name, i))
           /\ handling' = Idle /\ UNCHANGED gateway
    BY <1>5 DEF RequestIt
  <2>2. i \in Ids /\ command[i].name \in Commands /\ Others(i)
    BY <2>1, UsedIds, AtFields DEF Command, TrailInv, OthersInv
  <2>3. requests' = requests \cup {[type |-> command[i].name, id |-> i,
                                    reason |-> reason["shard"]]}
    BY <2>1, <2>2, CallPosted DEF Threads
  <2>5. \A r \in requests' : r \in requests \/ (r.type \in Commands /\ Others(r.id))
    BY <2>2, <2>3
  <2>4. handling'.at # "request" /\ \A j \in Ids : Waiting(j)' => Waiting(j)
    BY <2>1, AtFields DEF Waiting
  <2> QED BY <1>1, <2>4, <2>5, TrailKept
<1> QED BY <1>2, <1>3, <1>4, <1>5

LEMMA TrailModerated ==
    ASSUME AuditInv, ToldInv, TrailInv, OnModerated
    PROVE  TrailInv'
<1>1. PICK i \in DOMAIN command, text \in {"failed", "done"} :
         /\ i \in Ids /\ Post("callbacks", Followup(i, text))
         /\ UNCHANGED <<guildVars, gateway, handling>>
  BY Moderated
<1>2. \A r \in requests' : r \in requests \/ r.type = "followup"
  BY <1>1, FollowupPosted DEF Threads, Texts
<1>3. UNCHANGED <<command, answer>> /\ \A j \in Ids : Waiting(j)' => Waiting(j)
  BY <1>1 DEF guildVars, Waiting
<1> QED BY <1>1, <1>2, <1>3, TrailKept

LEMMA TrailComeAndGo ==
    ASSUME AuditInv, ToldInv, TrailInv, ComeAndGo
    PROVE  TrailInv'
<1>1. \A i \in Ids : Waiting(i)' => Waiting(i)
  BY CameOrWent, NoneNew
<1>2. UNCHANGED <<command, answer, handling, requests>>
  BY DEF ComeAndGo
<1> QED BY <1>1, <1>2, TrailKept

LEMMA TrailModeration ==
    ASSUME AuditInv, ToldInv, TrailInv, NEW r \in requests,
           RunModeration(r) \/ LoseResponse(r)
    PROVE  TrailInv'
<1>1. command[r.id].whom \in Users /\ (UNCHANGED gateway \/ Leave(command[r.id].whom))
  BY Moderating
<1>2. requests' \subseteq requests /\ UNCHANGED <<command, answer, handling>>
  BY Moderating
<1>3. \A i \in Ids : Waiting(i)' => Waiting(i)
  <2>1. CASE UNCHANGED gateway
    BY <2>1, NoneNew
  <2>2. CASE Leave(command[r.id].whom)
    BY <1>1, <2>2, Left, NoneNew
  <2> QED BY <1>1, <2>1, <2>2
<1> QED BY <1>2, <1>3, TrailKept

LEMMA TrailFail ==
    ASSUME AuditInv, ToldInv, TrailInv, NEW r \in requests, FailRequest(r)
    PROVE  TrailInv'
<1>1. requests' \subseteq requests /\ UNCHANGED <<command, answer, handling, gateway>>
  BY DEF FailRequest, Take
<1>2. \A i \in Ids : Waiting(i)' => Waiting(i)
  BY <1>1 DEF Waiting
<1> QED BY <1>1, <1>2, TrailKept

LEMMA TrailCrash ==
    ASSUME AuditInv, ToldInv, TrailInv, Crash
    PROVE  TrailInv'
<1>1. DOMAIN gateway' = {} /\ requests' = {} /\ handling'.at = "idle"
  BY AtFields DEF Crash
<1>2. UNCHANGED <<command, answer>> /\ \A i \in Ids : ~Waiting(i)'
  BY <1>1 DEF Crash, guildVars, Waiting
<1> QED BY <1>1, <1>2, TrailKept

\* There is one "thinking" of a command.
LEMMA ThinkingOnce ==
    ASSUME AuditInv, NEW r \in requests, r.type = "thinking",
           NEW q \in requests, q.type = "thinking", q.id = r.id
    PROVE  q = r
<1>1. q \in Request /\ r \in Request /\ q.reason = NoId /\ r.reason = NoId
  BY DEF AuditInv, TypeOK, AuditedForItself, Commands
<1>2. /\ q = [type |-> q.type, id |-> q.id, reason |-> q.reason]
      /\ r = [type |-> r.type, id |-> r.id, reason |-> r.reason]
  BY <1>1 DEF Request
<1> QED BY <1>1, <1>2

LEMMA TrailAnswer ==
    ASSUME AuditInv, ToldInv, TrailInv, NEW r \in requests, RunThinking(r) \/ RunFollowup(r)
    PROVE  TrailInv'
<1>1. /\ requests' = requests \ {r}
      /\ UNCHANGED <<command, audit, gateway, handling>>
  BY DEF RunThinking, RunFollowup, Take
<1>2. /\ answer \in [Ids -> {"none", "thinking"} \cup Texts]
      /\ r.id \in Ids /\ r.id \in DOMAIN command
  BY RequestFields DEF AuditInv, TypeOK
<1>3. \A i \in Ids : i # r.id => answer'[i] = answer[i]
  BY <1>2 DEF RunThinking, RunFollowup
<1>4. \A i \in Ids : Waiting(i)' <=> Waiting(i)
  BY <1>1 DEF Waiting
\* Nothing that waits, nor another "thinking", is about the command that is answered.
<1>5. answer'[r.id] = answer[r.id]
         \/ (~Waiting(r.id) /\ \A q \in requests' : q.type = "thinking" => q.id # r.id)
  <2>1. CASE RunThinking(r)
    BY <1>1, <2>1, ThinkingOnce DEF RunThinking, TrailInv, AnswersInv
  <2>2. CASE RunFollowup(r)
    <3>1. CASE answer[r.id] = "thinking"
      BY <1>1, <1>2, <3>1 DEF TrailInv, AnswersInv
    <3>2. CASE answer[r.id] # "thinking"
      BY <2>2, <3>2 DEF RunFollowup
    <3> QED BY <3>1, <3>2
  <2> QED BY <2>1, <2>2
<1>6. AnswersInv'
  <2>1. ASSUME NEW i \in Ids, answer'[i] # "none"
        PROVE  i \in DOMAIN command'
    BY <1>1, <1>2, <1>3, <2>1 DEF TrailInv, AnswersInv
  <2>2. ASSUME NEW i \in Ids, Waiting(i)'
        PROVE  answer'[i] = "none"
    BY <1>3, <1>4, <1>5, <2>2 DEF TrailInv, AnswersInv
  <2>3. ASSUME NEW q \in requests', q.type = "thinking"
        PROVE  answer'[q.id] = "none" /\ ~Waiting(q.id)'
    <3>1. q \in requests /\ q.id \in Ids
      BY <1>1, RequestFields
    <3> QED BY <1>3, <1>4, <1>5, <2>3, <3>1 DEF TrailInv, AnswersInv
  <2> QED BY <2>1, <2>2, <2>3 DEF AnswersInv
<1>7. OthersInv'
  BY <1>1 DEF TrailInv, OthersInv, Others
<1> QED BY <1>6, <1>7 DEF TrailInv

LEMMA TrailInvoke ==
    ASSUME AuditInv, ToldInv, TrailInv, Invoke
    PROVE  TrailInv'
<1> DEFINE j == Len(command')
           e == [type |-> "command", id |-> Len(command')]
<1>1. /\ gateway' = Append(gateway, e) /\ e \in Event /\ gateway \in Seq(Event)
      /\ UNCHANGED <<answer, handling, requests>>
  BY Invoked DEF Invoke, AuditInv, TypeOK
<1>2. /\ j \in Ids /\ j \notin DOMAIN command /\ DOMAIN command' = DOMAIN command \cup {j}
      /\ \A i \in DOMAIN command : command'[i] = command[i]
  BY Invoked
<1>3. \A k \in DOMAIN gateway' :
         (k \in DOMAIN gateway /\ gateway'[k] = gateway[k]) \/ gateway'[k] = e
  BY <1>1, AppendElements
<1>4. \A i \in Ids : Waiting(i)' => Waiting(i) \/ i = j
  BY <1>3 DEF Waiting
<1> HIDE DEF j
<1>5. /\ answer[j] = "none"
      /\ \A r \in requests : r.id # j /\ r.id \in Ids /\ r.id \in DOMAIN command
      /\ handling.at = "request" => handling.id \in DOMAIN command
  BY <1>2, RequestFields, HandlingCases DEF TrailInv, AnswersInv
<1>6. AnswersInv'
  <2>1. (\A i \in Ids : answer[i] # "none" => i \in DOMAIN command)'
    BY <1>1, <1>2 DEF TrailInv, AnswersInv
  <2>2. (\A i \in Ids : Waiting(i) => answer[i] = "none")'
    BY <1>1, <1>4, <1>5 DEF TrailInv, AnswersInv
  <2>3. (\A r \in requests : r.type = "thinking" => answer[r.id] = "none" /\ ~Waiting(r.id))'
    BY <1>1, <1>4, <1>5 DEF TrailInv, AnswersInv
  <2> QED BY <2>1, <2>2, <2>3 DEF AnswersInv
<1>7. OthersInv'
  <2>1. \A i \in DOMAIN command : Others(i)' <=> Others(i)
    BY <1>2 DEF Others
  <2>2. (\A r \in requests : r.type \in Commands => Others(r.id))'
    BY <1>1, <1>5, <2>1 DEF TrailInv, OthersInv
  <2>3. (handling.at = "request" => Others(handling.id))'
    BY <1>1, <1>5, <2>1 DEF TrailInv, OthersInv
  <2> QED BY <2>2, <2>3 DEF OthersInv
<1> QED BY <1>6, <1>7 DEF TrailInv

LEMMA TrailStep == AuditInv /\ ToldInv /\ TrailInv /\ [Next]_vars => TrailInv'
<1> SUFFICES ASSUME AuditInv, ToldInv, TrailInv, [Next]_vars
             PROVE  TrailInv'
  OBVIOUS
<1>1. CASE UNCHANGED vars
  BY <1>1 DEF vars, TrailInv, AnswersInv, OthersInv, Others, Waiting
<1>2. CASE Shard \/ OnModerated
  BY <1>2, TrailHandle, TrailShard, TrailModerated DEF Shard
<1>3. CASE \E r \in requests : Run(r)
  BY <1>3, TrailAnswer, TrailModeration, TrailFail DEF Run
<1> QED BY <1>1, <1>2, <1>3, TrailInvoke, TrailComeAndGo, TrailCrash DEF Next

LEMMA TrailStart == Init => Trail!Init
BY DEF Init, Trail!Init, Answers, Texts

\* The two threads, the requests on their way and the members are not in the trail.
LEMMA SameTrail ==
    ASSUME UNCHANGED <<command, audit, unheard, answer>>
    PROVE  UNCHANGED Trail!trail
BY DEF Trail!trail, Answers

LEMMA InvokeImplements ==
    ASSUME Invoke
    PROVE  Trail!Next
<1>1. PICK n \in Commands, u \in Moderators \cap members, w \in Users \cup {Bot} :
         command' = Append(command, [name |-> n, by |-> u, whom |-> w,
                                     resolved |-> w \in members])
  BY DEF Invoke
<1>2. [name |-> n, by |-> u, whom |-> w, resolved |-> w \in members] \in Command
  BY DEF Command
<1>3. UNCHANGED <<audit, unheard>> /\ Answers' = Answers
  BY DEF Invoke, Answers
<1> QED BY <1>1, <1>2, <1>3 DEF Trail!Next, Trail!Use

\* An answer is final unless it is "thinking", and then nothing was answered before.
LEMMA AnswerImplements ==
    ASSUME AuditInv, ToldInv, TrailInv, NEW r \in requests, RunThinking(r) \/ RunFollowup(r)
    PROVE  [Trail!Next]_(Trail!trail)
<1>1. /\ answer \in [Ids -> {"none", "thinking"} \cup Texts]
      /\ r.id \in Ids /\ r.id \in DOMAIN command
      /\ UNCHANGED <<command, audit, unheard>>
  BY RequestFields DEF AuditInv, TypeOK, RunThinking, RunFollowup
<1>2. CASE RunThinking(r)
  <2>1. answer[r.id] = "none" /\ answer' = [answer EXCEPT ![r.id] = "thinking"]
    BY <1>2 DEF RunThinking, TrailInv, AnswersInv
  <2>2. Answers' = Answers
    BY <1>1, <2>1 DEF Answers, Texts
  <2> QED BY <1>1, <2>2 DEF Trail!trail
<1>3. CASE RunFollowup(r) /\ answer[r.id] = "thinking"
  <2>1. r.type = "followup" /\ r.text \in Texts /\ answer' = [answer EXCEPT ![r.id] = r.text]
    BY <1>3, RequestFields DEF RunFollowup
  <2>2. /\ Answers[r.id] = "nothing"
        /\ Answers' = [Answers EXCEPT ![r.id] = r.text]
    BY <1>1, <1>3, <2>1 DEF Answers, Texts
  <2>3. /\ r.text = "done" => Done(r.id)
        /\ r.text # "done" => Refused(r.id)
        /\ r.text = "refused" => Denied(r.id)
    BY <2>1 DEF Done, Refused, Denied, Refusals, Texts
  <2>4. IF r.id \in unheard THEN r.text = "failed" ELSE r.text = "done" <=> Trail!Acted(r.id)
    BY <1>1, <2>1, <2>3 DEF ToldInv, Told, Happened, Trail!Acted, Texts
  <2>5. Trail!Tell(r.id, r.text)
    BY <1>1, <2>2, <2>4 DEF Trail!Tell
  <2> QED BY <1>1, <2>1, <2>5 DEF Trail!Next, Texts
<1>4. CASE RunFollowup(r) /\ answer[r.id] # "thinking"
  <2>1. answer' = answer
    BY <1>4 DEF RunFollowup
  <2> QED BY <1>1, <2>1, SameTrail
<1> QED BY <1>2, <1>3, <1>4

\* Only the one request of a command acts, and nobody was told anything before.
LEMMA ModerationImplements ==
    ASSUME AuditInv, ToldInv, TrailInv, NEW r \in requests,
           RunModeration(r) \/ LoseResponse(r)
    PROVE  [Trail!Next]_(Trail!trail)
<1>1. /\ r.id \in Ids /\ r.id \in DOMAIN command /\ r.type \in Commands
      /\ command[r.id].whom \in Users
      /\ UNCHANGED <<command, answer>>
      /\ \/ UNCHANGED <<audit, unheard>>
         \/ /\ audit' = audit \cup {<<r.id, r.id>>}
            /\ unheard' \in {unheard, unheard \cup {r.id}}
  BY Moderating
<1>2. Answers' = Answers
  BY <1>1 DEF Answers
<1>3. CASE UNCHANGED <<audit, unheard>>
  BY <1>1, <1>3, SameTrail
<1>4. CASE /\ audit' = audit \cup {<<r.id, r.id>>}
           /\ unheard' \in {unheard, unheard \cup {r.id}}
  <2>1. command[r.id].whom \notin {command[r.id].by, Bot}
    BY <1>1, BotAssumption DEF TrailInv, OthersInv, Others
  <2>2. ~Happened(r.id) /\ ~Refused(r.id) /\ ~Done(r.id)
    BY <1>1, AskedOnce DEF ToldInv, Told
  <2>3. Answers[r.id] = "nothing"
    BY <1>1, <2>2 DEF Answers, Refused, Done, Refusals, Texts
  <2>4. ~Trail!Acted(r.id)
    BY <2>2 DEF Happened, Trail!Acted
  <2>5. Trail!Act(r.id)
    BY <1>1, <1>2, <1>4, <2>1, <2>3, <2>4 DEF Trail!Act
  <2> QED BY <1>1, <2>5 DEF Trail!Next
<1> QED BY <1>1, <1>3, <1>4

\* The moderation commands keep the promise of AuditTrail through every failure they
\* meet: what a moderator was told in the end is never taken back and agrees with the
\* audit log, or it is that an action failed whose response was lost; and no command acts
\* twice, on its own user or on the bot, under the reason of another, or after its
\* moderator was told that it did not.
THEOREM ImplementsTheTrail == Spec => ImplementsTrail
<1>1. ASSUME AuditInv, ToldInv, TrailInv, [Next]_vars
      PROVE  [Trail!Next]_(Trail!trail)
  <2>1. CASE UNCHANGED <<command, audit, unheard, answer>>
    BY <2>1, SameTrail
  <2>2. CASE Invoke
    BY <2>2, InvokeImplements
  <2>3. ASSUME NEW r \in requests,
               RunThinking(r) \/ RunFollowup(r) \/ RunModeration(r) \/ LoseResponse(r)
        PROVE  [Trail!Next]_(Trail!trail)
    BY <1>1, <2>3, AnswerImplements, ModerationImplements
  <2>4. ASSUME NEW r \in requests, FailRequest(r)
        PROVE  UNCHANGED <<command, audit, unheard, answer>>
    BY <2>4 DEF FailRequest
  <2> QED
    BY <1>1, <2>1, <2>2, <2>3, <2>4
       DEF Next, Shard, HandleCommand, HandlerThrows, Refuse, SetAuditReason, RequestIt,
           OnMember, OnModerated, ComeAndGo, Run, Crash, guildVars, vars
<1> QED
  BY AuditInit, AuditStep, ToldInit, ToldStep, TrailInit, TrailStep, TrailStart, <1>1, PTL
     DEF Spec, ImplementsTrail, Trail!Spec

-----------------------------------------------------------------------------
(* Nothing is dropped: a command about a member waits, is checked, is requested, waits *)
(* for its callback or has its last answer on the way, until it is answered.    *)

Requested(i) == \E r \in requests : r.id = i /\ r.type # "thinking"

HasCompleted(i) == \E k \in DOMAIN completions : completions[k].id = i

UnderWay(i) ==
    \/ Waiting(i) \/ Checked(i) \/ Requested(i) \/ HasCompleted(i)
    \/ answer[i] \in Texts \/ i \in lost

UnderWayInv ==
    None("crash") => \A i \in DOMAIN command : command[i].resolved => UnderWay(i)

LEMMA UnderWayInit == Init => UnderWayInv
BY DEF Init, UnderWayInv

\* Where a command is that the shard thread has not reached.
LEMMA StillWaiting ==
    ASSUME AuditInv, NEW i \in Ids, Waiting(i)
    PROVE  /\ UNCHANGED gateway => Waiting(i)'
           /\ \A e \in Event : gateway' = Append(gateway, e) => Waiting(i)'
           /\ \A type : Receive(type) =>
                 Waiting(i)' \/ (type = "command" /\ Head(gateway).id = i)
<1>1. gateway \in Seq(Event)
  BY DEF AuditInv, TypeOK
<1>2. PICK k \in DOMAIN gateway : gateway[k].type = "command" /\ gateway[k].id = i
  BY DEF Waiting
<1>3. ASSUME NEW e \in Event, gateway' = Append(gateway, e)
      PROVE  Waiting(i)'
  BY <1>1, <1>2, <1>3, KeptByAppend DEF Waiting
<1>4. ASSUME NEW type, Receive(type)
      PROVE  Waiting(i)' \/ (type = "command" /\ Head(gateway).id = i)
  <2>1. \/ k = 1 /\ Head(gateway) = gateway[1]
        \/ k - 1 \in DOMAIN gateway' /\ gateway'[k - 1] = gateway[k]
    BY <1>1, <1>4, KeptByTail DEF Receive
  <2> QED BY <1>2, <1>4, <2>1 DEF Waiting, Receive
<1> QED BY <1>2, <1>3, <1>4 DEF Waiting

LEMMA StillCompleted ==
    ASSUME AuditInv, NEW i \in Ids, HasCompleted(i)
    PROVE  /\ UNCHANGED completions => HasCompleted(i)'
           /\ \A j \in Ids, b \in BOOLEAN : Complete(j, b) => HasCompleted(i)'
           /\ completions # <<>> /\ completions' = Tail(completions) =>
                 HasCompleted(i)' \/ Head(completions).id = i
<1>1. completions \in Seq(Completion)
  BY DEF AuditInv, TypeOK
<1>2. PICK k \in DOMAIN completions : completions[k].id = i
  BY DEF HasCompleted
<1>3. ASSUME NEW j \in Ids, NEW b \in BOOLEAN, Complete(j, b)
      PROVE  HasCompleted(i)'
  <2>1. [id |-> j, is_error |-> b] \in Completion
    BY DEF Completion
  <2> QED BY <1>1, <1>2, <1>3, <2>1, KeptByAppend DEF Complete, HasCompleted
<1>4. ASSUME completions # <<>>, completions' = Tail(completions)
      PROVE  HasCompleted(i)' \/ Head(completions).id = i
  <2>1. \/ k = 1 /\ Head(completions) = completions[1]
        \/ k - 1 \in DOMAIN completions' /\ completions'[k - 1] = completions[k]
    BY <1>1, <1>4, KeptByTail
  <2>2. CASE k = 1 /\ Head(completions) = completions[1]
    BY <1>2, <2>2
  <2>3. CASE k - 1 \in DOMAIN completions' /\ completions'[k - 1] = completions[k]
    BY <1>2, <2>3 DEF HasCompleted
  <2> QED BY <2>1, <2>2, <2>3
<1> QED BY <1>2, <1>3, <1>4 DEF HasCompleted

\* A request that was carried out or has failed is waiting for its callback.
LEMMA NowCompleted ==
    ASSUME AuditInv, NEW i \in Ids, NEW b \in BOOLEAN, Complete(i, b)
    PROVE  HasCompleted(i)'
<1> DEFINE c == [id |-> i, is_error |-> b]
<1>1. c \in Completion /\ completions \in Seq(Completion)
  BY DEF Completion, AuditInv, TypeOK
<1>2. /\ Len(completions) + 1 \in DOMAIN completions'
      /\ completions'[Len(completions) + 1] = c
  BY <1>1, AppendProperties, LenProperties DEF Complete
<1> QED BY <1>2 DEF HasCompleted

LEMMA UnderWayShard ==
    ASSUME AuditInv, Shard, NEW i \in Ids, i \in DOMAIN command, command[i].resolved,
           UnderWay(i)
    PROVE  UnderWay(i)'
<1>1. UNCHANGED <<answer, lost, completions>>
  BY DEF Shard, HandleCommand, HandlerThrows, Refuse, SetAuditReason, RequestIt, OnMember,
         guildVars
<1>2. (HasCompleted(i) => HasCompleted(i)') /\ (answer[i] \in Texts \/ i \in lost => UnderWay(i)')
  BY <1>1 DEF HasCompleted, UnderWay
<1>3. CASE HandleCommand
  <2>1. PICK j \in Ids : /\ Receive("command") /\ Head(gateway).id = j /\ Think(j)
    BY <1>3 DEF HandleCommand
  <2>2. /\ handling = Idle /\ handling'.at = "checks" /\ handling'.id = j
        /\ requests \subseteq requests'
    <3>1. requests' = requests \cup {[type |-> "thinking", id |-> j, reason |-> reason["shard"]]}
      BY <2>1, CallPosted DEF Think, Threads
    <3>2. handling = Idle /\ handling' = At("checks", j)
      BY <2>1 DEF Receive, Think
    <3> QED BY <3>1, <3>2, AtFields
  <2>3. ~Checked(i) /\ (i = j => Checked(i)') /\ (Requested(i) => Requested(i)')
    BY <2>2, AtFields DEF Checked, Requested
  <2>4. Waiting(i) => Waiting(i)' \/ i = j
    BY <2>1, StillWaiting
  <2> QED BY <1>2, <2>3, <2>4 DEF UnderWay
<1>4. CASE HandlerThrows \/ OnMember
  <2>1. UNCHANGED <<handling, requests>>
    BY <1>4 DEF HandlerThrows, OnMember
  <2>2. (Checked(i) => Checked(i)') /\ (Requested(i) => Requested(i)')
    BY <2>1 DEF Checked, Requested
  <2>3. \/ Receive("command") /\ Head(gateway).id # i
        \/ Receive("MEMBER_ADD") \/ Receive("MEMBER_REMOVE")
    BY <1>4 DEF HandlerThrows, OnMember
  <2>4. Waiting(i) => Waiting(i)'
    BY <2>3, StillWaiting
  <2> QED BY <1>2, <2>2, <2>4 DEF UnderWay
<1>5. CASE Refuse \/ SetAuditReason \/ RequestIt
  <2>1. UNCHANGED gateway
    BY <1>5 DEF Refuse, SetAuditReason, RequestIt
  <2>2. Waiting(i) => Waiting(i)'
    BY <2>1 DEF Waiting
  <2>3. requests \subseteq requests' /\ (Checked(i) => Checked(i)' \/ Requested(i)')
    <3>1. CASE Refuse
      <4>1. PICK j \in DOMAIN command :
               handling = At("checks", j) /\ Post("shard", Followup(j, "refused"))
        BY <3>1 DEF Refuse
      <4>2. requests' = requests \cup {[type |-> "followup", id |-> j,
                                        reason |-> reason["shard"], text |-> "refused"]}
        BY <4>1, FollowupPosted, UsedIds DEF Threads, Texts
      <4>3. requests \subseteq requests'
        BY <4>2
      <4>4. i = j => Requested(i)'
        <5> DEFINE r == [type |-> "followup", id |-> j,
                         reason |-> reason["shard"], text |-> "refused"]
        <5>1. r \in requests' /\ r.id = j /\ r.type # "thinking"
          BY <4>2
        <5> QED BY <5>1 DEF Requested
      <4>5. Checked(i) => i = j
        BY <4>1, AtFields DEF Checked
      <4> QED BY <4>3, <4>4, <4>5
    <3>2. CASE SetAuditReason
      <4>1. PICK j \in DOMAIN command :
               /\ handling = At("checks", j) /\ handling' = At("request", j)
               /\ requests' = requests
        BY <3>2 DEF SetAuditReason, Pass
      <4> QED BY <4>1, AtFields DEF Checked
    <3>3. CASE RequestIt
      <4>1. PICK j \in DOMAIN command :
               handling = At("request", j) /\ Post("shard", Call(command[j].name, j))
        BY <3>3 DEF RequestIt
      <4>2. command[j].name \in Commands /\ j \in Ids
        BY UsedIds DEF Command
      <4>3. requests' = requests \cup {[type |-> command[j].name, id |-> j,
                                        reason |-> reason["shard"]]}
        BY <4>1, <4>2, CallPosted DEF Threads
      <4>4. requests \subseteq requests'
        BY <4>3
      <4>5. i = j => Requested(i)'
        <5> DEFINE r == [type |-> command[j].name, id |-> j, reason |-> reason["shard"]]
        <5>1. r \in requests' /\ r.id = j /\ r.type # "thinking"
          BY <4>2, <4>3 DEF Commands
        <5> QED BY <5>1 DEF Requested
      <4>6. Checked(i) => i = j
        BY <4>1, AtFields DEF Checked
      <4> QED BY <4>4, <4>5, <4>6
    <3> QED BY <1>5, <3>1, <3>2, <3>3
  <2>4. Requested(i) => Requested(i)'
    BY <2>3 DEF Requested
  <2> QED BY <1>2, <2>2, <2>3, <2>4 DEF UnderWay
<1> QED BY <1>3, <1>4, <1>5 DEF Shard

LEMMA UnderWayModerated ==
    ASSUME AuditInv, OnModerated, NEW i \in Ids, UnderWay(i)
    PROVE  UnderWay(i)'
<1> DEFINE done == Head(completions)
           text == IF done.is_error THEN "failed" ELSE "done"
<1>1. done.id \in Ids
  <2>1. completions \in Seq(Completion) /\ completions # <<>>
    BY DEF OnModerated, AuditInv, TypeOK
  <2>2. done \in Completion
    BY <2>1, TailElements
  <2> QED BY <2>2 DEF Completion
<1>2. text \in Texts /\ Post("callbacks", Followup(done.id, text))
  BY DEF OnModerated, Texts
<1> HIDE DEF text
<1>3. requests' = requests \cup {[type |-> "followup", id |-> done.id,
                                  reason |-> reason["callbacks"], text |-> text]}
  BY <1>1, <1>2, FollowupPosted DEF Threads
<1>4. (Requested(i) => Requested(i)') /\ (i = done.id => Requested(i)')
  <2> DEFINE r == [type |-> "followup", id |-> done.id,
                   reason |-> reason["callbacks"], text |-> text]
  <2>1. r.id = done.id /\ r.type # "thinking" /\ r \in requests' /\ requests \subseteq requests'
    BY <1>3
  <2> HIDE DEF r, done
  <2>2. i = done.id => Requested(i)'
    BY <2>1 DEF Requested
  <2>3. Requested(i) => Requested(i)'
    BY <2>1 DEF Requested
  <2> QED BY <2>2, <2>3
<1>5. HasCompleted(i) => HasCompleted(i)' \/ i = done.id
  BY StillCompleted DEF OnModerated
<1>6. (Waiting(i) => Waiting(i)') /\ (Checked(i) => Checked(i)') /\ UNCHANGED <<answer, lost>>
  BY DEF OnModerated, guildVars, Waiting, Checked
<1> QED BY <1>4, <1>5, <1>6 DEF UnderWay

\* A member who comes or goes does so behind the commands that wait.
LEMMA UnderWayComeAndGo ==
    ASSUME AuditInv, ComeAndGo, NEW i \in Ids, UnderWay(i)
    PROVE  UnderWay(i)'
<1>1. \A u \in Users, t \in {"MEMBER_ADD", "MEMBER_REMOVE"} : [type |-> t, user |-> u] \in Event
  BY DEF Event
<1>2. \E e \in Event : gateway' = Append(gateway, e)
  BY <1>1 DEF ComeAndGo, Leave
<1>3. Waiting(i) => Waiting(i)'
  BY <1>2, StillWaiting
<1>4. /\ (Checked(i) => Checked(i)') /\ (Requested(i) => Requested(i)')
      /\ (HasCompleted(i) => HasCompleted(i)') /\ UNCHANGED <<answer, lost>>
  BY DEF ComeAndGo, Checked, Requested, HasCompleted
<1> QED BY <1>3, <1>4 DEF UnderWay

LEMMA UnderWayRun ==
    ASSUME AuditInv, TrailInv, NEW r \in requests, Run(r), NEW i \in Ids, UnderWay(i)
    PROVE  UnderWay(i)'
<1>1. /\ r.id \in Ids /\ answer \in [Ids -> {"none", "thinking"} \cup Texts]
      /\ r.type = "followup" => r.text \in Texts
      /\ r.type \in Commands \cup {"thinking", "followup"}
  BY RequestFields DEF AuditInv, TypeOK
<1>2. requests' = requests \ {r} /\ UNCHANGED handling
  BY Moderating DEF Run, RunThinking, RunFollowup, FailRequest, Take
<1>3. /\ Checked(i) => Checked(i)'
      /\ Requested(i) => Requested(i)' \/ (i = r.id /\ r.type # "thinking")
  BY <1>2 DEF Checked, Requested
<1>4. Waiting(i) => Waiting(i)'
  <2>1. CASE RunThinking(r) \/ RunFollowup(r) \/ FailRequest(r)
    BY <2>1, StillWaiting DEF RunThinking, RunFollowup, FailRequest
  <2>2. CASE RunModeration(r) \/ LoseResponse(r)
    <3>1. /\ command[r.id].whom \in Users
          /\ UNCHANGED gateway \/ Leave(command[r.id].whom)
      BY <2>2, Moderating
    <3>2. [type |-> "MEMBER_REMOVE", user |-> command[r.id].whom] \in Event
      BY <3>1 DEF Event
    <3> QED BY <3>1, <3>2, StillWaiting DEF Leave
  <2> QED BY <2>1, <2>2 DEF Run
<1>5. CASE RunThinking(r)
  <2>1. /\ r.type = "thinking" /\ answer[r.id] = "none"
        /\ answer' = [answer EXCEPT ![r.id] = "thinking"] /\ UNCHANGED <<lost, completions>>
    BY <1>5 DEF RunThinking, TrailInv, AnswersInv
  <2>2. answer[i] \in Texts => answer'[i] \in Texts
    BY <1>1, <2>1 DEF Texts
  <2>3. HasCompleted(i) => HasCompleted(i)'
    BY <2>1 DEF HasCompleted
  <2> QED BY <1>3, <1>4, <2>1, <2>2, <2>3 DEF UnderWay
<1>6. CASE RunFollowup(r)
  <2>1. HasCompleted(i) => HasCompleted(i)'
    BY <1>6 DEF RunFollowup, HasCompleted
  <2>2. CASE answer[r.id] = "thinking"
    <3>1. /\ answer' = [answer EXCEPT ![r.id] = r.text] /\ r.text \in Texts /\ lost' = lost
      BY <1>1, <1>6, <2>2 DEF RunFollowup
    <3>2. (answer[i] \in Texts \/ i = r.id) => answer'[i] \in Texts
      BY <1>1, <3>1
    <3> QED BY <1>3, <1>4, <2>1, <3>1, <3>2 DEF UnderWay
  <2>3. CASE answer[r.id] # "thinking"
    <3>1. lost' = lost \cup {r.id} /\ answer' = answer
      BY <1>6, <2>3 DEF RunFollowup
    <3> QED BY <1>3, <1>4, <2>1, <3>1 DEF UnderWay
  <2> QED BY <2>2, <2>3
<1>7. ASSUME NEW b \in BOOLEAN, Complete(r.id, b), UNCHANGED <<answer, lost>>
      PROVE  UnderWay(i)'
  <2>1. HasCompleted(i) \/ i = r.id => HasCompleted(i)'
    BY <1>1, <1>7, StillCompleted, NowCompleted
  <2> QED BY <1>3, <1>4, <1>7, <2>1 DEF UnderWay
<1>8. CASE RunModeration(r) \/ LoseResponse(r)
  BY <1>7, <1>8, Moderating
<1>9. CASE FailRequest(r)
  <2>1. CASE r.type \in Commands
    BY <1>7, <1>9, <2>1 DEF FailRequest
  <2>2. CASE r.type \notin Commands
    <3>1. lost' = lost \cup {r.id} /\ UNCHANGED <<answer, completions>>
      BY <1>9, <2>2 DEF FailRequest
    <3>2. HasCompleted(i) => HasCompleted(i)'
      BY <3>1 DEF HasCompleted
    <3> QED BY <1>3, <1>4, <3>1, <3>2 DEF UnderWay
  <2> QED BY <2>1, <2>2
<1> QED BY <1>5, <1>6, <1>8, <1>9 DEF Run

LEMMA UnderWayInvoke ==
    ASSUME AuditInv, Invoke, NEW i \in Ids, UnderWay(i) \/ i = Len(command')
    PROVE  UnderWay(i)'
<1> DEFINE e == [type |-> "command", id |-> Len(command')]
<1>1. /\ gateway' = Append(gateway, e) /\ e \in Event /\ gateway \in Seq(Event)
      /\ UNCHANGED <<answer, lost, handling, requests, completions>>
  BY Invoked DEF Invoke, AuditInv, TypeOK
<1>2. Waiting(i) => Waiting(i)'
  BY <1>1, StillWaiting
<1>3. i = Len(command') => Waiting(i)'
  <2>1. Len(gateway) + 1 \in DOMAIN gateway' /\ gateway'[Len(gateway) + 1] = e
    BY <1>1, AppendProperties, LenProperties
  <2> QED BY <2>1 DEF Waiting
<1>4. /\ (Checked(i) => Checked(i)') /\ (Requested(i) => Requested(i)')
      /\ (HasCompleted(i) => HasCompleted(i)')
  BY <1>1 DEF Checked, Requested, HasCompleted
<1> QED BY <1>1, <1>2, <1>3, <1>4 DEF UnderWay

\* Only a crash counts as one, and it is not undone.
LEMMA NoCrashBefore ==
    ASSUME AuditInv, [Next]_vars, None("crash")'
    PROVE  None("crash") /\ ~Crash
<1>1. \A k \in Kinds : Spend(k) => k # "crash" /\ None("crash")
  BY FaultsKept DEF AuditInv, TypeOK, Kinds
<1>2. UNCHANGED spent => None("crash")
  BY DEF None
<1> QED
  BY <1>1, <1>2
     DEF Next, Shard, HandleCommand, HandlerThrows, Refuse, SetAuditReason, RequestIt, OnMember,
         OnModerated, Invoke, ComeAndGo, Run, RunThinking, RunFollowup, RunModeration,
         LoseResponse, FailRequest, Crash, Kinds, vars

LEMMA UnderWayStep == AuditInv /\ TrailInv /\ UnderWayInv /\ [Next]_vars => UnderWayInv'
<1> SUFFICES ASSUME AuditInv, TrailInv, UnderWayInv, [Next]_vars, None("crash")',
                    NEW i \in DOMAIN command', command'[i].resolved
             PROVE  UnderWay(i)'
  BY DEF UnderWayInv
<1>1. None("crash") /\ ~Crash
  BY NoCrashBefore
<1>2. CASE Invoke
  <2>1. i \in Ids /\ ((i \in DOMAIN command /\ command[i].resolved) \/ i = Len(command'))
    BY <1>2, Invoked, UsedIds
  <2> QED BY <1>1, <1>2, <2>1, UnderWayInvoke DEF UnderWayInv
<1>3. CASE ~Invoke
  <2>1. command' = command
    BY <1>1, <1>3
       DEF Next, Shard, HandleCommand, HandlerThrows, Refuse, SetAuditReason, RequestIt,
           OnMember, OnModerated, ComeAndGo, Run, RunThinking, RunFollowup, RunModeration,
           LoseResponse, FailRequest, guildVars, vars
  <2>2. i \in Ids /\ i \in DOMAIN command /\ command[i].resolved /\ UnderWay(i)
    BY <1>1, <2>1, UsedIds DEF UnderWayInv
  <2>3. CASE UNCHANGED vars
    BY <2>2, <2>3 DEF vars, UnderWay, Waiting, Checked, Requested, HasCompleted
  <2> QED
    BY <1>1, <1>3, <2>2, <2>3, UnderWayShard, UnderWayModerated, UnderWayComeAndGo, UnderWayRun
       DEF Next
<1> QED BY <1>2, <1>3

\* No command about a member is dropped between the two threads and the requests: when
\* nothing is left to do it has its answer, unless Discord did not take one of its
\* messages or the process has died.  (That nothing is left some time is a matter of
\* fairness, and AnsweredInTheEnd's.)
THEOREM NoneDropped == Spec => []AnsweredWhenQuiet
<1>1. UnderWayInv => AnsweredWhenQuiet
  BY AtFields
     DEF UnderWayInv, AnsweredWhenQuiet, Quiet, UnderWay, Waiting, Checked, Requested,
         HasCompleted
<1> QED
  BY AuditInit, AuditStep, ToldInit, ToldStep, TrailInit, TrailStep, UnderWayInit,
     UnderWayStep, <1>1, PTL DEF Spec

=============================================================================
