-------------------------- MODULE ChannelSyncProofs -------------------------
(***************************************************************************)
(* What TLAPS proves about ChannelSync for any categories, configurations  *)
(* and names, and any number of clicks, edits and faults.                  *)
(***************************************************************************)
EXTENDS ChannelSync, CommonLemmas

-----------------------------------------------------------------------------
(* The inductive invariant. *)

Update(k) == gateway[k].type = "CHANNEL_UPDATE"

\* The last update on its way shows the channel as it is.
LatestInv ==
    \A k \in DOMAIN gateway :
        Update(k) /\ (\A l \in DOMAIN gateway : k < l => ~Update(l))
            => gateway[k].channel = channel

\* The last edit that was not carried out yet.
Newest == edits[Len(edits)]

\* Without an update on its way, the cache shows the channel or what it will become.
CachedInv ==
    None("rest") /\ (\A k \in DOMAIN gateway : ~Update(k)) =>
        cached = channel \/ (edits # <<>> /\ cached = Newest)

Category == IF rows = {"tasks"} THEN config.open_category_id ELSE config.closed_category_id

OneTable == rows = {"tasks"} \/ rows = {"task_archive"}

\* The last edit, or without one the channel, is in the category of the task.
PlacedInv ==
    (\A k \in {"admin", "db", "rest", "crash"} : None(k)) =>
        /\ OneTable
        /\ Category # NoCategory =>
              IF edits = <<>> THEN channel.parent_id = Category
              ELSE Newest.parent_id = Category

\* Without haste there is nothing on its way that would change the cached name.
NamedInv ==
    ~hasty /\ (\A k \in {"admin", "db", "crash"} : None(k)) =>
        /\ OneTable
        /\ cached.name = (IF rows = {"tasks"} THEN TaskWord ELSE ClosedWord) \o Number
        /\ \A k \in DOMAIN edits : edits[k] = cached
        /\ \A k \in DOMAIN gateway : Update(k) => gateway[k].channel = cached

SyncInv == TypeOK /\ LatestInv /\ CachedInv /\ PlacedInv /\ NamedInv

-----------------------------------------------------------------------------
(* Names. *)

LEMMA Words ==
    /\ TaskWord \in Name /\ ClosedWord \in Name /\ Number \in Name
    /\ Len(TaskWord) = 2 /\ Len(ClosedWord) = 3 /\ Len(Number) = 1
<1>1. \A a, b \in Pieces : <<a, b>> \in Seq(Pieces) /\ Len(<<a, b>>) = 2
  OBVIOUS
<1>2. \A a, b, c \in Pieces : <<a, b, c>> \in Seq(Pieces) /\ Len(<<a, b, c>>) = 3
  OBVIOUS
<1>3. \A a \in Pieces : <<a>> \in Seq(Pieces) /\ Len(<<a>>) = 1
  OBVIOUS
<1> QED BY <1>1, <1>2, <1>3, PiecesAssumption DEF TaskWord, ClosedWord, Number, Name

\* Replacing the first pieces of a name gives a name, whatever it was.
LEMMA ReplaceType ==
    ASSUME NEW name \in Name, NEW pieces \in Nat, NEW word \in Name
    PROVE  replace(name, pieces, word) \in Name
<1>1. Len(name) \in Nat /\ \A i \in 1 .. Len(name) : name[i] \in Pieces
  BY LenProperties, ElementOfSeq DEF Name
<1>2. \A i \in (pieces + 1) .. Len(name) : name[i] \in Pieces
  BY <1>1
<1>3. SubSeq(name, pieces + 1, Len(name)) \in Seq(Pieces)
  BY <1>1, <1>2, SubSeqProperties
<1> QED BY <1>3, ConcatProperties DEF replace, Name

\* Where it was a word and the number, another word takes the place of the first.
LEMMA ReplaceWord ==
    ASSUME NEW old \in Name, NEW word \in Name
    PROVE  replace(old \o Number, Len(old), word) = word \o Number
<1> DEFINE n == Len(old)
           name == old \o Number
           rest == SubSeq(name, n + 1, n + 1)
<1>1. /\ n \in Nat /\ name \in Seq(Pieces) /\ Len(name) = n + 1
      /\ name[n + 1] = Number[1] /\ Number \in Seq(Pieces) /\ Len(Number) = 1
  <2>1. n \in Nat /\ old \in Seq(Pieces) /\ Number \in Seq(Pieces) /\ Len(Number) = 1
    BY Words, LenProperties DEF Name
  <2>2. /\ name \in Seq(Pieces) /\ Len(name) = n + 1
        /\ \A i \in 1 .. n + 1 : name[i] = IF i <= n THEN old[i] ELSE Number[i - n]
    BY <2>1, ConcatProperties
  <2>3. n + 1 \in 1 .. n + 1 /\ ~(n + 1 <= n) /\ (n + 1) - n = 1
    BY <2>1
  <2> QED BY <2>1, <2>2, <2>3
<1>2. \A i \in (n + 1) .. (n + 1) : name[i] \in Pieces
  <2>1. name[n + 1] \in Pieces
    BY <1>1, ElementOfSeq
  <2> QED BY <1>1, <2>1
<1> HIDE DEF n, name
<1>3. /\ rest \in Seq(Pieces) /\ Len(rest) = 1 /\ rest[1] = name[n + 1]
  BY <1>1, <1>2, SubSeqProperties
<1>4. rest = Number
  <2>1. \A i \in 1 .. 1 : rest[i] = Number[i]
    BY <1>1, <1>3
  <2> HIDE DEF rest
  <2> QED BY <1>1, <1>3, <2>1, SeqEqual
<1>5. replace(name, n, word) = word \o rest
  BY <1>1 DEF replace
<1> QED BY <1>4, <1>5 DEF n, name

-----------------------------------------------------------------------------
(* The queues. *)

\* What is left of the events when the shard thread takes one.
LEMMA Received ==
    ASSUME TypeOK, NEW type, Receive(type)
    PROVE  /\ gateway' \in Seq(Event) /\ Head(gateway) \in Event
           /\ Head(gateway) = gateway[1] /\ Len(gateway) \in Nat \ {0}
           /\ DOMAIN gateway = 1 .. Len(gateway) /\ DOMAIN gateway' = 1 .. (Len(gateway) - 1)
           /\ \A k \in DOMAIN gateway' : gateway'[k] = gateway[k + 1]
<1>1. gateway \in Seq(Event) /\ gateway # <<>> /\ gateway' = Tail(gateway)
  BY DEF TypeOK, Receive
<1>2. /\ Len(gateway) \in Nat \ {0} /\ DOMAIN gateway = 1 .. Len(gateway)
      /\ Head(gateway) \in Event /\ Head(gateway) = gateway[1]
      /\ gateway' \in Seq(Event) /\ Len(gateway') = Len(gateway) - 1
      /\ \A k \in 1 .. Len(gateway') : gateway'[k] = gateway[k + 1]
  BY <1>1, EmptySeq, LenProperties, HeadTailProperties
<1>3. DOMAIN gateway' = 1 .. (Len(gateway) - 1)
  BY <1>2, LenProperties
<1> QED BY <1>2, <1>3

\* An event that is no update, taken from the front, leaves the updates as they are.
LEMMA ClickTaken ==
    ASSUME TypeOK, NEW type \in Clicks, Receive(type)
    PROVE  /\ \A k \in DOMAIN gateway : Update(k) => k - 1 \in DOMAIN gateway' /\ Update(k - 1)'
           /\ \A k \in DOMAIN gateway' :
                 /\ k + 1 \in DOMAIN gateway /\ gateway'[k] = gateway[k + 1]
                 /\ Update(k)' <=> Update(k + 1)
<1>1. ~Update(1)
  BY Received DEF Receive, Clicks, Update
<1>2. \A k \in DOMAIN gateway' :
         k + 1 \in DOMAIN gateway /\ gateway'[k] = gateway[k + 1]
  BY Received
<1>3. ASSUME NEW k \in DOMAIN gateway, Update(k)
      PROVE  k - 1 \in DOMAIN gateway' /\ gateway'[k - 1] = gateway[k]
  <2>1. k # 1 /\ k \in 1 .. Len(gateway)
    BY <1>1, <1>3, Received
  <2>2. k - 1 \in DOMAIN gateway'
    BY <2>1, Received
  <2>3. (k - 1) + 1 = k
    BY <2>1
  <2> QED BY <1>2, <2>2, <2>3
<1> QED BY <1>2, <1>3 DEF Update

LEMMA LatestAfterTake ==
    ASSUME SyncInv, NEW type, Receive(type), UNCHANGED channel
    PROVE  LatestInv'
<1>1. SUFFICES ASSUME NEW k \in DOMAIN gateway', Update(k)',
                      \A l \in DOMAIN gateway' : k < l => ~Update(l)'
               PROVE  gateway'[k].channel = channel
  BY DEF LatestInv
<1>2. /\ k + 1 \in DOMAIN gateway /\ gateway'[k] = gateway[k + 1] /\ Update(k + 1)
  BY <1>1, Received DEF SyncInv, Update
<1>3. ASSUME NEW l \in DOMAIN gateway, k + 1 < l
      PROVE  ~Update(l)
  <2>1. l - 1 \in DOMAIN gateway' /\ k < l - 1 /\ (l - 1) + 1 = l
    BY <1>1, <1>3, Received DEF SyncInv
  <2> QED BY <1>1, <2>1, Received DEF SyncInv, Update
<1> QED BY <1>2, <1>3 DEF SyncInv, LatestInv

\* What an event that is added does to the updates on their way.
LEMMA Put ==
    ASSUME TypeOK, NEW e \in Event, gateway' = Append(gateway, e)
    PROVE  /\ gateway' \in Seq(Event) /\ Len(gateway) \in Nat
           /\ DOMAIN gateway = 1 .. Len(gateway)
           /\ DOMAIN gateway' = 1 .. (Len(gateway) + 1)
           /\ gateway'[Len(gateway) + 1] = e
           /\ \A k \in DOMAIN gateway : gateway'[k] = gateway[k]
BY AppendProperties, LenProperties DEF TypeOK

\* The oldest edit is taken; the newest stays the newest as long as one is left.
LEMMA EditTaken ==
    ASSUME TypeOK, edits # <<>>, edits' = Tail(edits)
    PROVE  /\ edits' \in Seq(Channel) /\ Head(edits) \in Channel
           /\ 1 \in DOMAIN edits /\ Head(edits) = edits[1]
           /\ \A k \in DOMAIN edits' : k + 1 \in DOMAIN edits /\ edits'[k] = edits[k + 1]
           /\ edits' = <<>> => Newest = Head(edits)
           /\ edits' # <<>> => Newest' = Newest
<1>1. /\ Len(edits) \in Nat \ {0} /\ DOMAIN edits = 1 .. Len(edits)
      /\ Head(edits) \in Channel /\ Head(edits) = edits[1]
      /\ edits' \in Seq(Channel) /\ Len(edits') = Len(edits) - 1
      /\ \A k \in 1 .. Len(edits') : edits'[k] = edits[k + 1]
  BY EmptySeq, LenProperties, HeadTailProperties DEF TypeOK
<1>2. DOMAIN edits' = 1 .. (Len(edits) - 1)
  BY <1>1, LenProperties
<1>3. edits' = <<>> => Len(edits') = 0
  BY EmptySeq
<1>4. edits' # <<>> => Len(edits') \in Nat \ {0}
  BY <1>1, EmptySeq
<1>5. edits' = <<>> => Newest = Head(edits)
  BY <1>1, <1>3 DEF Newest
<1>6. ASSUME edits' # <<>>
      PROVE  Newest' = Newest
  <2>1. Len(edits') \in 1 .. Len(edits') /\ Len(edits') + 1 = Len(edits)
    BY <1>1, <1>4, <1>6
  <2>2. edits'[Len(edits')] = edits[Len(edits)]
    BY <1>1, <2>1
  <2> QED BY <2>2 DEF Newest
<1> QED BY <1>1, <1>2, <1>5, <1>6

\* The handler's edit is the newest, and what the cache shows.
LEMMA Edited ==
    ASSUME TypeOK, NEW pieces \in Nat, NEW word \in Name, NEW category \in Places,
           Edit(pieces, word, category)
    PROVE  /\ cached' \in Channel /\ edits' \in Seq(Channel)
           /\ edits' # <<>> /\ Newest' = cached'
           /\ cached'.name = replace(cached.name, pieces, word)
           /\ category # NoCategory => cached'.parent_id = category
           /\ \A k \in DOMAIN edits' :
                 (k \in DOMAIN edits /\ edits'[k] = edits[k]) \/ edits'[k] = cached'
<1> DEFINE edited == [name |-> replace(cached.name, pieces, word),
                      parent_id |-> IF category = NoCategory THEN cached.parent_id
                                    ELSE category]
<1>1. cached' = edited /\ edits' = Append(edits, edited)
  BY DEF Edit
<1>2. edited \in Channel
  <2>1. cached.name \in Name /\ cached.parent_id \in Places
    BY DEF TypeOK, Channel
  <2> QED BY <2>1, ReplaceType DEF Channel
<1>3. /\ edited.name = replace(cached.name, pieces, word)
      /\ category # NoCategory => edited.parent_id = category
  OBVIOUS
<1> HIDE DEF edited
<1>4. edits \in Seq(Channel)
  BY DEF TypeOK
<1>5. /\ edits' \in Seq(Channel) /\ Len(edits') = Len(edits) + 1 /\ Len(edits) \in Nat
      /\ edits'[Len(edits) + 1] = edited
  BY <1>1, <1>2, <1>4, AppendProperties, LenProperties
<1>6. edits' # <<>> /\ Newest' = edited
  BY <1>5, EmptySeq DEF Newest
<1>7. \A k \in DOMAIN edits' :
         (k \in DOMAIN edits /\ edits'[k] = edits[k]) \/ edits'[k] = edited
  BY <1>1, <1>2, <1>4, AppendElements
<1> QED BY <1>1, <1>2, <1>3, <1>5, <1>6, <1>7

LEMMA Moved ==
    ASSUME TypeOK, NEW from \in {"tasks", "task_archive"}, NEW to \in {"tasks", "task_archive"},
           Move(from, to)
    PROVE  /\ BudgetTypeOK' /\ \A j \in Kinds : None(j)' => None(j)
           /\ None("db")' => rows = {from} /\ rows' = {to} /\ spent' = spent
           /\ rows' \in SUBSET {"tasks", "task_archive"} /\ rows' # {}
<1>1. CASE rows = {from} /\ rows' = {to} /\ UNCHANGED spent
  BY <1>1 DEF TypeOK, BudgetTypeOK, None
<1>2. CASE from \in rows /\ rows' \in {rows, rows \cup {to}, {to}} /\ Spend("db")
  <2>1. /\ BudgetTypeOK' /\ \A j \in Kinds : None(j)' => None(j)
        /\ ~None("db")'
    BY <1>2, FaultsKept DEF TypeOK, Kinds
  <2> QED BY <1>2, <2>1 DEF TypeOK
<1> QED BY <1>1, <1>2 DEF Move

-----------------------------------------------------------------------------
(* The steps. *)

\* What close_task and open_task have in common.
Handle(type, from, to, pieces, word, category) ==
    /\ Receive(type)
    /\ Move(from, to)
    /\ Edit(pieces, word, category)
    /\ hasty' = (hasty \/ InFlight)
    /\ UNCHANGED <<config, channel>>

LEMMA HandleStep ==
    ASSUME SyncInv, NEW type \in Clicks, NEW from, NEW to, NEW pieces, NEW old, NEW word,
           NEW category, Handle(type, from, to, pieces, word, category),
           \/ /\ from = "tasks" /\ to = "task_archive" /\ pieces = 2
              /\ old = TaskWord /\ word = ClosedWord /\ category = config.closed_category_id
           \/ /\ from = "task_archive" /\ to = "tasks" /\ pieces = 3
              /\ old = ClosedWord /\ word = TaskWord
              /\ \/ category = config.open_category_id
                 \/ spent' # spent /\ category = NoCategory
    PROVE  SyncInv'
<1>1. TypeOK
  BY DEF SyncInv
<1>2. /\ from \in {"tasks", "task_archive"} /\ to \in {"tasks", "task_archive"}
      /\ pieces \in Nat /\ old \in Name /\ word \in Name /\ Len(old) = pieces
  <2>1. from \in {"tasks", "task_archive"} /\ to \in {"tasks", "task_archive"}
    OBVIOUS
  <2>2. pieces \in Nat
    OBVIOUS
  <2>3. old \in Name /\ word \in Name
    BY Words
  <2>4. Len(old) = pieces
    BY Words
  <2> QED BY <2>1, <2>2, <2>3, <2>4
<1>3. category \in Places
  BY <1>1, ConfigsAssumption DEF TypeOK, Config, Places
<1>4. UNCHANGED <<config, channel>> /\ hasty' = (hasty \/ InFlight) /\ Receive(type)
  BY DEF Handle
<1>5. /\ BudgetTypeOK' /\ \A j \in Kinds : None(j)' => None(j)
      /\ None("db")' => rows = {from} /\ rows' = {to} /\ spent' = spent
      /\ rows' \in SUBSET {"tasks", "task_archive"} /\ rows' # {}
  BY <1>1, <1>2, Moved DEF Handle
<1>6. /\ cached' \in Channel /\ edits' \in Seq(Channel)
      /\ edits' # <<>> /\ Newest' = cached'
      /\ cached'.name = replace(cached.name, pieces, word)
      /\ category # NoCategory => cached'.parent_id = category
      /\ \A k \in DOMAIN edits' :
            (k \in DOMAIN edits /\ edits'[k] = edits[k]) \/ edits'[k] = cached'
  BY <1>1, <1>2, <1>3, Edited DEF Handle
<1>7. /\ gateway' \in Seq(Event)
      /\ \A k \in DOMAIN gateway' :
            /\ k + 1 \in DOMAIN gateway /\ gateway'[k] = gateway[k + 1]
            /\ Update(k)' <=> Update(k + 1)
  BY <1>1, <1>4, Received, ClickTaken
<1>8. TypeOK'
  <2>1. hasty' \in BOOLEAN
    BY <1>1, <1>4 DEF TypeOK
  <2> QED BY <1>1, <1>4, <1>5, <1>6, <1>7, <2>1 DEF TypeOK
<1>9. LatestInv'
  BY <1>4, LatestAfterTake
<1>10. CachedInv'
  BY <1>6 DEF CachedInv
<1>11. /\ rows' = {to} => OneTable'
       /\ rows' = {to} /\ spent' = spent => Category' = category
  BY <1>4, <1>2 DEF OneTable, Category
<1>12. PlacedInv'
  <2>1. SUFFICES ASSUME \A k \in {"admin", "db", "rest", "crash"} : None(k)'
                 PROVE  OneTable' /\ (Category' # NoCategory => Newest'.parent_id = Category')
    BY <1>6 DEF PlacedInv
  <2> QED BY <1>5, <1>6, <1>11, <2>1
<1>13. NamedInv'
  <2>1. SUFFICES ASSUME ~hasty', \A k \in {"admin", "db", "crash"} : None(k)'
                 PROVE  /\ OneTable'
                        /\ cached'.name = (IF rows' = {"tasks"} THEN TaskWord
                                           ELSE ClosedWord) \o Number
                        /\ \A k \in DOMAIN edits' : edits'[k] = cached'
                        /\ \A k \in DOMAIN gateway' : ~Update(k)'
    BY DEF NamedInv
  <2>2. ~hasty /\ ~InFlight /\ \A k \in {"admin", "db", "crash"} : None(k)
    BY <1>4, <1>5, <2>1 DEF Kinds
  <2>3. rows = {from} /\ rows' = {to}
    BY <1>5, <2>1
  <2>4. cached.name = old \o Number
    BY <2>2, <2>3 DEF SyncInv, NamedInv
  <2>5. cached'.name = word \o Number
    BY <1>2, <1>6, <2>4, ReplaceWord
  <2>6. edits = <<>> /\ \A k \in DOMAIN gateway : ~Update(k)
    BY <2>2 DEF InFlight, Update
  <2>7. /\ \A k \in DOMAIN edits' : edits'[k] = cached'
        /\ \A k \in DOMAIN gateway' : ~Update(k)'
    BY <1>6, <1>7, <2>6
  <2> QED BY <1>11, <2>3, <2>5, <2>7
<1> QED BY <1>8, <1>9, <1>10, <1>12, <1>13 DEF SyncInv

LEMMA RefuseStep ==
    ASSUME SyncInv, Refuse
    PROVE  SyncInv'
<1>1. TypeOK /\ UNCHANGED <<spent, config, rows, channel, cached, edits, hasty>>
  BY DEF SyncInv, Refuse
<1>2. PICK b \in Clicks : Receive(b)
  BY DEF Refuse
<1>3. gateway' \in Seq(Event)
  BY <1>1, <1>2, Received
<1>4. /\ \A k \in DOMAIN gateway : Update(k) => k - 1 \in DOMAIN gateway' /\ Update(k - 1)'
      /\ \A k \in DOMAIN gateway' :
            /\ k + 1 \in DOMAIN gateway /\ gateway'[k] = gateway[k + 1]
            /\ Update(k)' <=> Update(k + 1)
  BY <1>1, <1>2, ClickTaken
<1>5. \A j : None(j)' <=> None(j)
  BY <1>1 DEF None
<1>6. TypeOK'
  BY <1>1, <1>3 DEF TypeOK, BudgetTypeOK
<1>7. LatestInv'
  BY <1>1, <1>2, LatestAfterTake
<1>8. CachedInv'
  <2>1. (\A k \in DOMAIN gateway' : ~Update(k)') => \A k \in DOMAIN gateway : ~Update(k)
    BY <1>4
  <2> QED BY <1>1, <1>5, <2>1 DEF SyncInv, CachedInv, Newest
<1>9. PlacedInv'
  BY <1>1, <1>5 DEF SyncInv, PlacedInv, OneTable, Category, Newest
<1>10. NamedInv'
  BY <1>1, <1>4, <1>5 DEF SyncInv, NamedInv, OneTable
<1> QED BY <1>6, <1>7, <1>8, <1>9, <1>10 DEF SyncInv

\* The last update that comes in shows the channel as it is.
LEMMA OnChannelUpdateStep ==
    ASSUME SyncInv, OnChannelUpdate
    PROVE  SyncInv'
<1>1. /\ TypeOK /\ UNCHANGED <<spent, config, rows, channel, edits, hasty>>
      /\ Receive("CHANNEL_UPDATE") /\ cached' = Head(gateway).channel
  BY DEF SyncInv, OnChannelUpdate
<1>2. /\ gateway' \in Seq(Event) /\ Head(gateway) \in Event
      /\ Head(gateway) = gateway[1] /\ Len(gateway) \in Nat \ {0}
      /\ DOMAIN gateway = 1 .. Len(gateway) /\ DOMAIN gateway' = 1 .. (Len(gateway) - 1)
      /\ \A k \in DOMAIN gateway' : gateway'[k] = gateway[k + 1]
  BY <1>1, Received
<1>3. 1 \in DOMAIN gateway /\ Update(1) /\ cached' = gateway[1].channel
  BY <1>1, <1>2 DEF Receive, Update
<1>4. cached' \in Channel
  BY <1>2, <1>3 DEF Event, Clicks, Update
<1>5. \A j : None(j)' <=> None(j)
  BY <1>1 DEF None
<1>6. \A k \in DOMAIN gateway' : k + 1 \in DOMAIN gateway /\ (Update(k)' <=> Update(k + 1))
  BY <1>2 DEF Update
<1>7. TypeOK'
  BY <1>1, <1>2, <1>4 DEF TypeOK, BudgetTypeOK
<1>8. LatestInv'
  BY <1>1, LatestAfterTake
<1>9. CachedInv'
  <2>1. SUFFICES ASSUME \A k \in DOMAIN gateway' : ~Update(k)'
                 PROVE  cached' = channel'
    BY DEF CachedInv
  <2>2. ASSUME NEW l \in DOMAIN gateway, 1 < l
        PROVE  ~Update(l)
    <3>1. l - 1 \in DOMAIN gateway' /\ (l - 1) + 1 = l
      BY <1>2, <2>2
    <3> QED BY <1>6, <2>1, <3>1
  <2> QED BY <1>1, <1>3, <2>2 DEF SyncInv, LatestInv
<1>10. PlacedInv'
  BY <1>1, <1>5 DEF SyncInv, PlacedInv, OneTable, Category, Newest
<1>11. NamedInv'
  <2>1. ~hasty /\ (\A k \in {"admin", "db", "crash"} : None(k)) => cached' = cached
    BY <1>3 DEF SyncInv, NamedInv
  <2> QED BY <1>1, <1>2, <1>5, <1>6, <2>1 DEF SyncInv, NamedInv, OneTable
<1> QED BY <1>7, <1>8, <1>9, <1>10, <1>11 DEF SyncInv

LEMMA ClickStep ==
    ASSUME SyncInv, NEW b \in Clicks, Click(b)
    PROVE  SyncInv'
<1> DEFINE e == [type |-> b]
<1>1. /\ TypeOK /\ UNCHANGED <<config, rows, channel, cached, edits, hasty>>
      /\ gateway' = Append(gateway, e) /\ Spend("click") /\ BudgetTypeOK
  BY DEF SyncInv, Click, TypeOK
<1>2. e \in Event /\ e.type # "CHANNEL_UPDATE"
  BY DEF Event, Clicks
<1> HIDE DEF e
<1>3. /\ gateway' \in Seq(Event) /\ Len(gateway) \in Nat
      /\ DOMAIN gateway = 1 .. Len(gateway)
      /\ DOMAIN gateway' = 1 .. (Len(gateway) + 1)
      /\ gateway'[Len(gateway) + 1] = e
      /\ \A k \in DOMAIN gateway : gateway'[k] = gateway[k]
  BY <1>1, <1>2, Put
<1>4. BudgetTypeOK' /\ \A j \in {"admin", "db", "rest", "crash"} : None(j)' <=> None(j)
  BY <1>1, FaultsKept DEF Kinds
<1>5. /\ \A k \in DOMAIN gateway : k \in DOMAIN gateway' /\ (Update(k)' <=> Update(k))
      /\ \A k \in DOMAIN gateway' : Update(k)' => k \in DOMAIN gateway /\ Update(k)
  BY <1>2, <1>3 DEF Update
<1>6. TypeOK'
  BY <1>1, <1>3, <1>4 DEF TypeOK
<1>7. LatestInv'
  BY <1>1, <1>3, <1>5 DEF SyncInv, LatestInv
<1>8. CachedInv'
  BY <1>1, <1>4, <1>5 DEF SyncInv, CachedInv, Newest
<1>9. PlacedInv'
  BY <1>1, <1>4 DEF SyncInv, PlacedInv, OneTable, Category, Newest
<1>10. NamedInv'
  BY <1>1, <1>3, <1>4, <1>5 DEF SyncInv, NamedInv, OneTable
<1> QED BY <1>6, <1>7, <1>8, <1>9, <1>10 DEF SyncInv

\* What the bot is told of a change of the channel.
LEMMA Became ==
    ASSUME SyncInv, NEW c \in Channel, Become(c)
    PROVE  /\ channel' = c /\ gateway' \in Seq(Event) /\ LatestInv'
           /\ \A k \in DOMAIN gateway' :
                 \/ k \in DOMAIN gateway /\ gateway'[k] = gateway[k]
                 \/ gateway'[k].channel = c
           /\ (\A k \in DOMAIN gateway' : ~Update(k)') =>
                 c = channel /\ \A k \in DOMAIN gateway : ~Update(k)
<1> DEFINE e == [type |-> "CHANNEL_UPDATE", channel |-> c]
<1>1. TypeOK /\ channel' = c /\ gateway' = IF c = channel THEN gateway ELSE Append(gateway, e)
  BY DEF SyncInv, Become
<1>2. CASE c = channel
  <2>1. gateway' = gateway
    BY <1>1, <1>2
  <2>2. gateway' \in Seq(Event)
    BY <1>1, <2>1 DEF TypeOK
  <2>3. LatestInv'
    BY <1>1, <1>2, <2>1 DEF SyncInv, LatestInv, Update
  <2> QED BY <1>1, <1>2, <2>1, <2>2, <2>3 DEF Update
<1>3. CASE c # channel
  <2>1. e \in Event /\ e.type = "CHANNEL_UPDATE" /\ e.channel = c
    BY DEF Event
  <2> HIDE DEF e
  <2>2. /\ gateway' \in Seq(Event) /\ Len(gateway) \in Nat
        /\ DOMAIN gateway = 1 .. Len(gateway)
        /\ DOMAIN gateway' = 1 .. (Len(gateway) + 1)
        /\ gateway'[Len(gateway) + 1] = e
        /\ \A k \in DOMAIN gateway : gateway'[k] = gateway[k]
    BY <1>1, <1>3, <2>1, Put
  <2>3. PICK m \in DOMAIN gateway' :
           /\ Update(m)' /\ gateway'[m].channel = c
           /\ \A k \in DOMAIN gateway' : k < m \/ k = m
           /\ \A k \in DOMAIN gateway' : k # m => k \in DOMAIN gateway
    <3>1. Len(gateway) + 1 \in DOMAIN gateway'
      BY <2>2
    <3>2. /\ gateway'[Len(gateway) + 1].type = "CHANNEL_UPDATE"
          /\ gateway'[Len(gateway) + 1].channel = c
      BY <2>1, <2>2
    <3>3. \A k \in DOMAIN gateway' : k < Len(gateway) + 1 \/ k = Len(gateway) + 1
      BY <2>2
    <3>4. \A k \in DOMAIN gateway' : k # Len(gateway) + 1 => k \in DOMAIN gateway
      BY <2>2
    <3> QED BY <3>1, <3>2, <3>3, <3>4 DEF Update
  <2>4. LatestInv'
    <3>1. SUFFICES ASSUME NEW k \in DOMAIN gateway',
                          \A l \in DOMAIN gateway' : k < l => ~Update(l)'
                   PROVE  gateway'[k].channel = channel'
      BY DEF LatestInv
    <3>2. k = m
      BY <2>3, <3>1
    <3> QED BY <1>1, <2>3, <3>2
  <2>5. \A k \in DOMAIN gateway' :
           \/ k \in DOMAIN gateway /\ gateway'[k] = gateway[k]
           \/ gateway'[k].channel = c
    BY <2>2, <2>3
  <2> QED BY <1>1, <2>2, <2>3, <2>4, <2>5
<1> QED BY <1>2, <1>3

LEMMA ModeratorEditsStep ==
    ASSUME SyncInv, ModeratorEdits
    PROVE  SyncInv'
<1>1. /\ TypeOK /\ UNCHANGED <<config, rows, cached, edits, hasty>>
      /\ Spend("admin") /\ BudgetTypeOK
  BY DEF SyncInv, ModeratorEdits, TypeOK
<1>2. PICK c \in Channel : Become(c)
  <2>1. channel.name \in Name /\ channel.parent_id \in Places
        /\ channel = [name |-> channel.name, parent_id |-> channel.parent_id]
    BY <1>1 DEF TypeOK, Channel
  <2>2. CASE \E n \in Renames : Become([channel EXCEPT !.name = n])
    <3>1. PICK n \in Renames : Become([channel EXCEPT !.name = n])
      BY <2>2
    <3>2. [channel EXCEPT !.name = n] \in Channel
      BY <1>1, RenamesAssumption DEF TypeOK, Channel
    <3> QED BY <3>1, <3>2
  <2>3. CASE \E p \in Categories : Become([channel EXCEPT !.parent_id = p])
    <3>1. PICK p \in Categories : Become([channel EXCEPT !.parent_id = p])
      BY <2>3
    <3>2. [channel EXCEPT !.parent_id = p] \in Channel
      BY <1>1 DEF TypeOK, Channel, Places
    <3> QED BY <3>1, <3>2
  <2> QED BY <2>2, <2>3 DEF ModeratorEdits
<1>3. /\ channel' = c /\ gateway' \in Seq(Event) /\ LatestInv'
      /\ (\A k \in DOMAIN gateway' : ~Update(k)') =>
            c = channel /\ \A k \in DOMAIN gateway : ~Update(k)
  BY <1>2, Became
<1>4. BudgetTypeOK' /\ ~None("admin")' /\ (None("rest")' <=> None("rest"))
  BY <1>1, FaultsKept DEF Kinds
<1>5. TypeOK'
  BY <1>1, <1>3, <1>4 DEF TypeOK
<1>6. CachedInv'
  BY <1>1, <1>3, <1>4 DEF SyncInv, CachedInv, Newest
<1>7. PlacedInv' /\ NamedInv'
  BY <1>4 DEF PlacedInv, NamedInv
<1> QED BY <1>3, <1>5, <1>6, <1>7 DEF SyncInv

LEMMA RunEditStep ==
    ASSUME SyncInv, RunEdit
    PROVE  SyncInv'
<1> DEFINE c == Head(edits)
<1>1. /\ TypeOK /\ UNCHANGED <<spent, config, rows, cached, hasty>>
      /\ edits # <<>> /\ edits' = Tail(edits) /\ Become(c)
  BY DEF SyncInv, RunEdit
<1>2. /\ edits' \in Seq(Channel) /\ c \in Channel
      /\ 1 \in DOMAIN edits /\ c = edits[1]
      /\ \A k \in DOMAIN edits' : k + 1 \in DOMAIN edits /\ edits'[k] = edits[k + 1]
      /\ edits' = <<>> => Newest = c
      /\ edits' # <<>> => Newest' = Newest
  BY <1>1, EditTaken
<1> HIDE DEF c
<1>3. /\ channel' = c /\ gateway' \in Seq(Event) /\ LatestInv'
      /\ \A k \in DOMAIN gateway' :
            \/ k \in DOMAIN gateway /\ gateway'[k] = gateway[k]
            \/ gateway'[k].channel = c
      /\ (\A k \in DOMAIN gateway' : ~Update(k)') =>
            c = channel /\ \A k \in DOMAIN gateway : ~Update(k)
  BY <1>1, <1>2, Became
<1>4. \A j : None(j)' <=> None(j)
  BY <1>1 DEF None
<1>5. TypeOK'
  BY <1>1, <1>2, <1>3 DEF TypeOK, BudgetTypeOK
<1>6. CachedInv'
  <2>1. SUFFICES ASSUME None("rest"), \A k \in DOMAIN gateway' : ~Update(k)'
                 PROVE  cached' = channel' \/ (edits' # <<>> /\ cached' = Newest')
    BY <1>4 DEF CachedInv
  <2>2. c = channel /\ (cached = channel \/ cached = Newest)
    BY <1>3, <2>1 DEF SyncInv, CachedInv
  <2> QED BY <1>1, <1>2, <1>3, <2>2
<1>7. PlacedInv'
  <2>1. SUFFICES ASSUME \A k \in {"admin", "db", "rest", "crash"} : None(k)
                 PROVE  /\ OneTable'
                        /\ Category' # NoCategory =>
                              IF edits' = <<>> THEN channel'.parent_id = Category'
                              ELSE Newest'.parent_id = Category'
    BY <1>4 DEF PlacedInv
  <2>2. OneTable /\ (Category # NoCategory => Newest.parent_id = Category)
    BY <1>1, <2>1 DEF SyncInv, PlacedInv
  <2>3. Category' = Category /\ OneTable'
    BY <1>1, <2>2 DEF Category, OneTable
  <2> QED BY <1>2, <1>3, <2>2, <2>3
<1>8. NamedInv'
  <2>1. SUFFICES ASSUME ~hasty, \A k \in {"admin", "db", "crash"} : None(k)
                 PROVE  /\ OneTable'
                        /\ cached'.name = (IF rows' = {"tasks"} THEN TaskWord
                                           ELSE ClosedWord) \o Number
                        /\ \A k \in DOMAIN edits' : edits'[k] = cached'
                        /\ \A k \in DOMAIN gateway' : Update(k)' => gateway'[k].channel = cached'
    BY <1>1, <1>4 DEF NamedInv
  <2>2. /\ OneTable
        /\ cached.name = (IF rows = {"tasks"} THEN TaskWord ELSE ClosedWord) \o Number
        /\ \A k \in DOMAIN edits : edits[k] = cached
        /\ \A k \in DOMAIN gateway : Update(k) => gateway[k].channel = cached
    BY <2>1 DEF SyncInv, NamedInv
  <2>3. OneTable' /\ cached'.name = (IF rows' = {"tasks"} THEN TaskWord ELSE ClosedWord) \o Number
    BY <1>1, <2>2 DEF OneTable
  <2>4. \A k \in DOMAIN edits' : edits'[k] = cached'
    BY <1>1, <1>2, <2>2
  <2>5. \A k \in DOMAIN gateway' : Update(k)' => gateway'[k].channel = cached'
    BY <1>1, <1>2, <1>3, <2>2 DEF Update
  <2> QED BY <2>3, <2>4, <2>5
<1> QED BY <1>3, <1>5, <1>6, <1>7, <1>8 DEF SyncInv

LEMMA FailEditStep ==
    ASSUME SyncInv, FailEdit
    PROVE  SyncInv'
<1>1. /\ TypeOK /\ UNCHANGED <<config, rows, channel, cached, gateway, hasty>>
      /\ edits # <<>> /\ edits' = Tail(edits) /\ Spend("rest") /\ BudgetTypeOK
  BY DEF SyncInv, FailEdit, TypeOK
<1>2. /\ edits' \in Seq(Channel)
      /\ \A k \in DOMAIN edits' : k + 1 \in DOMAIN edits /\ edits'[k] = edits[k + 1]
  BY <1>1, EditTaken
<1>3. /\ BudgetTypeOK' /\ ~None("rest")'
      /\ \A j \in {"admin", "db", "crash"} : None(j)' <=> None(j)
  BY <1>1, FaultsKept DEF Kinds
<1>4. TypeOK'
  BY <1>1, <1>2, <1>3 DEF TypeOK
<1>5. LatestInv'
  BY <1>1 DEF SyncInv, LatestInv, Update
<1>6. CachedInv' /\ PlacedInv'
  BY <1>3 DEF CachedInv, PlacedInv
<1>7. NamedInv'
  BY <1>1, <1>2, <1>3 DEF SyncInv, NamedInv, OneTable, Update
<1> QED BY <1>4, <1>5, <1>6, <1>7 DEF SyncInv

LEMMA CrashStep ==
    ASSUME SyncInv, Crash
    PROVE  SyncInv'
<1>1. /\ TypeOK /\ UNCHANGED <<config, rows, channel, hasty>>
      /\ cached' = channel /\ gateway' = <<>> /\ edits' = <<>> /\ Spend("crash") /\ BudgetTypeOK
  BY DEF SyncInv, Crash, TypeOK
<1>2. BudgetTypeOK' /\ ~None("crash")'
  BY <1>1, FaultsKept DEF Kinds
<1>3. TypeOK'
  BY <1>1, <1>2 DEF TypeOK
<1>4. LatestInv' /\ CachedInv'
  BY <1>1 DEF LatestInv, CachedInv
<1>5. PlacedInv' /\ NamedInv'
  BY <1>2 DEF PlacedInv, NamedInv
<1> QED BY <1>3, <1>4, <1>5 DEF SyncInv

LEMMA InitInv ==
    ASSUME Init
    PROVE  SyncInv
<1>1. BudgetTypeOK
  BY LimitAssumption DEF Init, BudgetInit, BudgetTypeOK
<1>2. TaskWord \o Number \in Name
  BY Words, ConcatProperties DEF Name
<1>3. config \in Configs /\ config.open_category_id \in Places
  BY ConfigsAssumption DEF Init, Config
<1>4. channel \in Channel /\ cached = channel
  BY <1>2, <1>3 DEF Init, Channel
<1>5. gateway = <<>> /\ gateway \in Seq(Event) /\ edits = <<>> /\ edits \in Seq(Channel)
  BY DEF Init
<1>6. rows = {"tasks"} /\ rows \in SUBSET {"tasks", "task_archive"} /\ rows # {}
  BY DEF Init
<1>7. TypeOK
  BY <1>1, <1>3, <1>4, <1>5, <1>6 DEF TypeOK, Init
<1>8. LatestInv /\ CachedInv
  BY <1>4, <1>5 DEF LatestInv, CachedInv
<1>9. PlacedInv
  BY <1>5, <1>6 DEF PlacedInv, OneTable, Category, Init
<1>10. NamedInv
  BY <1>4, <1>5, <1>6 DEF NamedInv, OneTable, Init
<1> QED BY <1>7, <1>8, <1>9, <1>10 DEF SyncInv

LEMMA SyncStep ==
    ASSUME SyncInv, [Next]_vars
    PROVE  SyncInv'
<1>1. CASE CloseTask
  <2>1. Handle("close_task", "tasks", "task_archive", 2, ClosedWord, config.closed_category_id)
    BY <1>1 DEF CloseTask, Handle
  <2>2. "close_task" \in Clicks
    BY DEF Clicks
  <2> QED BY <2>1, <2>2, HandleStep
<1>2. CASE OpenTask
  <2>1. \/ Handle("open_task", "task_archive", "tasks", 3, TaskWord, config.open_category_id)
        \/ /\ spent' # spent
           /\ Handle("open_task", "task_archive", "tasks", 3, TaskWord, NoCategory)
    BY <1>2 DEF OpenTask, Handle
  <2>2. "open_task" \in Clicks
    BY DEF Clicks
  <2> QED BY <2>1, <2>2, HandleStep
<1>3. CASE Refuse
  BY <1>3, RefuseStep
<1>4. CASE OnChannelUpdate
  BY <1>4, OnChannelUpdateStep
<1>5. CASE \E b \in Clicks : Click(b)
  BY <1>5, ClickStep
<1>6. CASE ModeratorEdits
  BY <1>6, ModeratorEditsStep
<1>7. CASE RunEdit
  BY <1>7, RunEditStep
<1>8. CASE FailEdit
  BY <1>8, FailEditStep
<1>9. CASE Crash
  BY <1>9, CrashStep
<1>10. CASE UNCHANGED vars
  BY <1>10 DEF vars, SyncInv, TypeOK, BudgetTypeOK, LatestInv, CachedInv, PlacedInv, NamedInv,
                OneTable, Category, Newest, Update, None
<1> QED BY <1>1, <1>2, <1>3, <1>4, <1>5, <1>6, <1>7, <1>8, <1>9, <1>10 DEF Next

LEMMA Sync == Spec => []SyncInv
<1>1. Init => SyncInv
  BY InitInv
<1>2. SyncInv /\ [Next]_vars => SyncInv'
  BY SyncStep
<1> QED BY <1>1, <1>2, PTL DEF Spec

-----------------------------------------------------------------------------
(* The theorems. *)

\* Every variable has its type, in every run: in particular replacing the first pieces
\* of a name, however short it is, gives a name (std::string::replace in close_task and
\* open_task), and the events and edits in the queues are channels of the guild.
THEOREM TypeCorrect == Spec => []TypeOK
<1>1. SyncInv => TypeOK
  BY DEF SyncInv
<1> QED BY <1>1, Sync, PTL

\* Whatever order edits, moderators' changes and updates come in, with any number of
\* database failures and restarts: once nothing is on its way, D++'s cache shows the
\* channel as it is, unless a channel_edit was refused.
THEOREM CacheFollows == Spec => []CacheAgrees
<1>1. ASSUME SyncInv
      PROVE  CacheAgrees
  BY <1>1 DEF SyncInv, CachedInv, CacheAgrees, InFlight, Update
<1> QED BY <1>1, Sync, PTL

\* However many clicks overlap with the edits of earlier ones, the channel ends up in
\* the category that the configuration names for the table with the task's row, as long
\* as only close_task and open_task move it and none of their calls fails.
THEOREM EndsInItsCategory == Spec => []InItsCategory
<1>1. ASSUME SyncInv
      PROVE  InItsCategory
  <2>1. SUFFICES ASSUME ~InFlight, \A k \in {"admin", "db", "rest", "crash"} : None(k),
                        Category # NoCategory
                 PROVE  channel.parent_id = Category
    BY DEF InItsCategory, Category
  <2>2. edits = <<>>
    BY <2>1 DEF InFlight
  <2> QED BY <1>1, <2>1, <2>2 DEF SyncInv, PlacedInv
<1> QED BY <1>1, Sync, PTL

\* The name that close_task and open_task cut their word from stays task-N or closed-N,
\* also when edits are refused, as long as no handler works on an object that an update
\* is about to overwrite.
THEOREM NameKept == Spec => []NameFollows
<1>1. ASSUME SyncInv
      PROVE  NameFollows
  BY <1>1 DEF SyncInv, NamedInv, NameFollows
<1> QED BY <1>1, Sync, PTL

=============================================================================
