--------------------------- MODULE MCSharedMutex ---------------------------
(* Small instances of SharedMutex for TLC. *)
EXTENDS SharedMutex

CONSTANTS a, b, c, d

MCThreads3 == {a, b, c}
MCThreads4 == {a, b, c, d}
MCNobody == {}
MCOne == {a}
MCTwo == {a, b}
=============================================================================
