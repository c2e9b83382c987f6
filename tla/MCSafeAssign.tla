---------------------------- MODULE MCSafeAssign ----------------------------
(* Two opposite assignments and a self-assignment, as in the test DS.Mutex, *)
(* and a cycle of three assignments.                                        *)
EXTENDS SafeAssign, TLC

CONSTANTS a, b, c, t1, t2, t3, t4, t5

MCThreads == {t1, t2, t3, t4, t5}
MCTarget == t1 :> a @@ t2 :> b @@ t3 :> a @@ t4 :> b @@ t5 :> c
MCSource == t1 :> b @@ t2 :> a @@ t3 :> a @@ t4 :> c @@ t5 :> a
=============================================================================
