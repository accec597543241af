------------------------------ MODULE MCWgSync ------------------------------
(* Instances of WgSync and its refinement for TLC.                          *)
EXTENDS WgSyncRefinement, TLC

CONSTANTS t1, t2, t3

TwoThreads == {t1, t2}
ThreeThreads == {t1, t2, t3}

OneHandle  == {1}
TwoHandles == {1, 2}
ThreeHandles == {1, 2, 3}

Singles == {<<h>> : h \in Handle}
Pairs   == {<<1, 2>>}
SinglesAndPairs == Singles \cup Pairs
OneAndPair == {<<1>>} \cup Pairs

\* Threads other than the main one are interchangeable.
WorkerSymmetry == Permutations(Tid \ {MainTid})
=============================================================================
