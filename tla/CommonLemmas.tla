---------------------------- MODULE CommonLemmas ----------------------------
(***************************************************************************)
(* What every proof about the bot's queues and the budget of its           *)
(* environment needs.                                                      *)
(***************************************************************************)
EXTENDS Budget, SequenceTheorems, TLAPS

\* Everything that an Append leaves in a queue was there before, or is the new entry.
LEMMA AppendElements ==
    ASSUME NEW S, NEW s \in Seq(S), NEW e \in S
    PROVE  /\ Append(s, e) \in Seq(S)
           /\ \A i \in DOMAIN Append(s, e) :
                 (i \in DOMAIN s /\ Append(s, e)[i] = s[i]) \/ Append(s, e)[i] = e
BY AppendProperties, LenProperties

\* What the head of a queue is, and where the others stood before it was taken.
LEMMA TailElements ==
    ASSUME NEW S, NEW s \in Seq(S), s # <<>>
    PROVE  /\ Head(s) \in S /\ 1 \in DOMAIN s /\ Head(s) = s[1]
           /\ Tail(s) \in Seq(S)
           /\ \A i \in DOMAIN Tail(s) : i + 1 \in DOMAIN s /\ Tail(s)[i] = s[i + 1]
<1>1. Len(s) \in Nat \ {0} /\ DOMAIN s = 1..Len(s)
  BY EmptySeq, LenProperties
<1>2. /\ Head(s) \in S /\ Head(s) = s[1]
      /\ Tail(s) \in Seq(S) /\ Len(Tail(s)) = Len(s) - 1
      /\ \A i \in 1 .. Len(Tail(s)) : Tail(s)[i] = s[i + 1]
  BY HeadTailProperties
<1>3. DOMAIN Tail(s) = 1..(Len(s) - 1)
  BY <1>2, LenProperties
<1> QED BY <1>1, <1>2, <1>3

\* Where an entry of a queue is after an Append, and after the head was taken.
LEMMA KeptByAppend ==
    ASSUME NEW S, NEW s \in Seq(S), NEW e \in S, NEW i \in DOMAIN s
    PROVE  i \in DOMAIN Append(s, e) /\ Append(s, e)[i] = s[i]
<1>1. /\ Append(s, e) \in Seq(S) /\ Len(s) \in Nat /\ DOMAIN s = 1 .. Len(s)
      /\ Len(Append(s, e)) = Len(s) + 1
      /\ \A j \in 1 .. Len(s) : Append(s, e)[j] = s[j]
  BY AppendProperties, LenProperties
<1>2. DOMAIN Append(s, e) = 1 .. Len(Append(s, e))
  BY <1>1, LenProperties
<1> QED BY <1>1, <1>2

LEMMA KeptByTail ==
    ASSUME NEW S, NEW s \in Seq(S), s # <<>>, NEW i \in DOMAIN s
    PROVE  \/ i = 1 /\ Head(s) = s[1]
           \/ i - 1 \in DOMAIN Tail(s) /\ Tail(s)[i - 1] = s[i]
<1>1. /\ Len(s) \in Nat /\ DOMAIN s = 1 .. Len(s) /\ Head(s) = s[1]
      /\ Tail(s) \in Seq(S) /\ Len(Tail(s)) = Len(s) - 1
      /\ \A j \in 1 .. Len(Tail(s)) : Tail(s)[j] = s[j + 1]
  BY HeadTailProperties, LenProperties
<1>2. DOMAIN Tail(s) = 1 .. (Len(s) - 1)
  BY <1>1, LenProperties
<1>3. CASE i # 1
  <2>1. i - 1 \in 1 .. (Len(s) - 1) /\ (i - 1) + 1 = i
    BY <1>1, <1>3
  <2> QED BY <2>1, <1>1, <1>2
<1> QED BY <1>1, <1>3

\* An occurrence of any kind keeps the counters' types.
LEMMA SpendType ==
    ASSUME BudgetTypeOK, NEW k \in Kinds, Spend(k)
    PROVE  BudgetTypeOK'
BY DEF BudgetTypeOK, Spend

\* What faults there were stays known, and what has happened is one.
LEMMA FaultsKept ==
    ASSUME BudgetTypeOK, NEW k \in Kinds, Spend(k)
    PROVE  /\ BudgetTypeOK' /\ ~None(k)'
           /\ \A j \in Kinds : None(j)' => None(j)
           /\ \A j \in Kinds \ {k} : None(j)' <=> None(j)
<1>1. BudgetTypeOK'
  BY SpendType
<1>2. /\ spent \in [Kinds -> Nat] /\ spent' = [spent EXCEPT ![k] = spent[k] + 1]
  BY DEF BudgetTypeOK, Spend
<1>3. ~None(k)'
  BY <1>2 DEF None
<1>4. \A j \in Kinds \ {k} : None(j)' <=> None(j)
  BY <1>2 DEF None
<1> QED BY <1>1, <1>3, <1>4

=============================================================================
