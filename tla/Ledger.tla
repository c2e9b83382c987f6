------------------------------- MODULE Ledger -------------------------------
(***************************************************************************)
(* What an account used under its lock promises: every locked section is   *)
(* one step.  A section is the sequence of the amounts it adds, at most    *)
(* two; the empty one reads the balance.                                   *)
(***************************************************************************)
EXTENDS Integers, Sequences

CONSTANTS Threads, Program

VARIABLES
    money,      \* the balance
    calls,      \* the sections every thread has still to run
    pocket      \* the balance every thread has seen last

vars == <<money, calls, pocket>>

Total(section) ==
    (IF Len(section) > 0 THEN section[1] ELSE 0) + (IF Len(section) > 1 THEN section[2] ELSE 0)

Init ==
    /\ money = 0
    /\ calls = Program
    /\ pocket = [t \in Threads |-> 0]

Run(t) ==
    /\ calls[t] # <<>>
    /\ calls' = [calls EXCEPT ![t] = Tail(@)]
    /\ money' = money + Total(Head(calls[t]))
    /\ pocket' = IF Head(calls[t]) = <<>> THEN [pocket EXCEPT ![t] = money] ELSE pocket

Next == \E t \in Threads : Run(t)

Spec == Init /\ [][Next]_vars
=============================================================================
