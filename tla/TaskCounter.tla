----------------------------- MODULE TaskCounter ----------------------------
(***************************************************************************)
(* What the bot promises about one guild's configuration and the numbers   *)
(* of its task channels, without tables, rows, threads and transactions:   *)
(* a register, a counter that starts with each configuration, and the      *)
(* numbers that were given out.  TaskNumbering implements this under every *)
(* failure it models.                                                      *)
(***************************************************************************)
EXTENDS Naturals, Sequences

CONSTANTS Configs, NoConfig

VARIABLES
    config,   \* the configuration in force, if any
    count,    \* how many channels it counts
    numbers   \* the numbers of the channels, in the order of their creation

counter == <<config, count, numbers>>

Init ==
    /\ config = NoConfig
    /\ count = 0
    /\ numbers = <<>>

\* No configuration takes the place of another at once.
Configure(k) ==
    /\ config = NoConfig
    /\ config' = k /\ count' = 0
    /\ UNCHANGED numbers

Withdraw ==
    /\ config # NoConfig
    /\ config' = NoConfig /\ count' = 0
    /\ UNCHANGED numbers

\* A channel's number is at most the number of channels before it.
Create ==
    /\ \E n \in 0 .. Len(numbers) : numbers' = Append(numbers, n)
    /\ UNCHANGED <<config, count>>

\* The count grows, and only over channels that there are.
Count ==
    /\ config # NoConfig
    /\ \E n \in (count + 1) .. Len(numbers) : count' = n
    /\ UNCHANGED <<config, numbers>>

\* It starts again from 0, and from nothing in between.
Restart ==
    /\ config # NoConfig
    /\ count' = 0
    /\ UNCHANGED <<config, numbers>>

Next ==
    \/ \E k \in Configs : Configure(k)
    \/ Withdraw
    \/ Create
    \/ Count
    \/ Restart

Spec == Init /\ [][Next]_counter

=============================================================================
