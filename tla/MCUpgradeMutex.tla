--------------------------- MODULE MCUpgradeMutex ---------------------------
(* Small instances of UpgradeMutex for TLC. *)
EXTENDS UpgradeMutex

CONSTANTS a, b, c, d

MCThreads3 == {a, b, c}
MCThreads4 == {a, b, c, d}
MCNobody == {}
MCOne == {a}
MCTwo == {a, b}
=============================================================================
