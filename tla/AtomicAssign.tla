---------------------------- MODULE AtomicAssign ----------------------------
(***************************************************************************)
(* What a thread-safe copy assignment promises: the target takes, in one   *)
(* step, the value the source has at that moment.                          *)
(***************************************************************************)
CONSTANTS
    Threads, Target, Source,
    Initial     \* the value every object starts with

VARIABLE value      \* the value of every object

vars == <<value>>

Init == value = Initial

Assign(t) == value' = [value EXCEPT ![Target[t]] = value[Source[t]]]

Next == \E t \in Threads : Assign(t)

Spec == Init /\ [][Next]_vars
=============================================================================
