---------------------------- MODULE MCLockGuards ----------------------------
(* Two mutexes, and two lock objects of the types that are moved most. *)
EXTENDS LockGuards, TLC

CONSTANTS m1, m2, s1, s2, u1, u2, x1

MutexSymmetry == Permutations(Mutexes)
=============================================================================
