------------------------------ MODULE MCFibTask -----------------------------
(* Two workers, the version with the table and the version without it. *)
EXTENDS FibTask

CONSTANTS w1, w2

MCVersions == {[n |-> 4, CutOff |-> 2, Connect |-> TRUE], [n |-> 6, CutOff |-> 4, Connect |-> FALSE]}
=============================================================================
