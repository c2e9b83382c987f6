--------------------------- MODULE MCSharedAssign ---------------------------
(* One thread assigns one object of class B to another. *)
EXTENDS SharedAssign, TLC

CONSTANTS a, b, t1

MCThreads == {t1}
MCTarget == t1 :> a
MCSource == t1 :> b
=============================================================================
