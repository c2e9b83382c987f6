---------------------------- MODULE MCDataReady -----------------------------
(* As many producers as consumers: the smallest number that serves them all. *)
EXTENDS DataReady

CONSTANTS c1, c2, c3, p1, p2, p3
=============================================================================
