----------------------------- MODULE MCSrwLock -----------------------------
(* Instances of SrwLock for TLC.                                            *)
EXTENDS SrwLock, TLC

CONSTANTS t1, t2, t3, lk1, lk2

TwoThreads == {t1, t2}
ThreeThreads == {t1, t2, t3}

Symmetry == Permutations(Tid) \cup Permutations(Ptr)
=============================================================================
