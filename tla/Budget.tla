------------------------------- MODULE Budget -------------------------------
(***************************************************************************)
(* The environment of the bot - members clicking buttons, moderators,      *)
(* failing database and REST calls, crashes of the process - is unbounded. *)
(* The models count what it has done in spent and stop it at Limit, so     *)
(* that TLC's instances are finite.  The theorems hold for every Limit.    *)
(***************************************************************************)
EXTENDS Naturals

CONSTANT Limit

\* A "rest" call failed before Discord carried it out; of a "response" Discord did carry
\* the call out, and only what it answered was lost: the callback sees an error in both.
Kinds == {"click", "admin", "db", "rest", "response", "crash"}

ASSUME LimitAssumption == Limit \in [Kinds -> Nat]

VARIABLE spent

BudgetTypeOK == spent \in [Kinds -> Nat]

BudgetInit == spent = [k \in Kinds |-> 0]

\* One more occurrence of an environment event of kind k, while k is below its bound.
Spend(k) ==
    /\ spent[k] < Limit[k]
    /\ spent' = [spent EXCEPT ![k] = @ + 1]

\* No call of kind k has failed so far.
None(k) == spent[k] = 0

=============================================================================
