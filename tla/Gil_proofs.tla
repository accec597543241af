----------------------------- MODULE Gil_proofs -----------------------------
(* Theorems about the GIL, for every set of threads and every setting of the  *)
(* pins, and about the threads of AddressWait, which run under it.            *)
EXTENDS AddressWait, FiniteSetTheorems, TLAPS

USE GilAssumption

-----------------------------------------------------------------------------
(* The inductive invariant.                                                  *)

\* A thread outside its slices owns the GIL only over a pinned release, at depth
\* 0; one that waits for the GIL, or has given it up to block, never owns it.
OwnerOutside ==
    /\ \A t \in Tid : owner = t /\ at[t] # "in" => rec = 0
    /\ \A t \in Tid : at[t] \in {"want", "blocked", "back"} => owner # t

GilInv == GilTypeOK /\ OneRunner /\ OwnerOutside

\* One look at the lock keeps the invariant.
LEMMA TakeKeeps ==
    ASSUME GilInv, NEW t \in Tid, NEW place \in {"want", "back"},
           at[t] \in {"out", "want", "blocked", "back"}, Take(t, place),
           UNCHANGED <<leaving, pins>>, blockedFlag' \in [Tid -> BOOLEAN]
    PROVE  GilInv'
<1>1. GilTypeOK'
  BY DEF GilInv, GilTypeOK, Take, Place, pins, Contends
<1>2. OneRunner' /\ OwnerOutside'
  BY DEF GilInv, GilTypeOK, OneRunner, OwnerOutside, Take, Contends, Nobody
<1>3. QED
  BY <1>1, <1>2 DEF GilInv

\* A release leaves the GIL free, or pinned at depth 0.
LEMMA ReleaseKeeps ==
    ASSUME GilInv, NEW t \in Tid, at[t] = "in", NEW blocking \in BOOLEAN,
           Release(t, blocking),
           NEW place \in {"out", "gone", "blocked"}, place = "blocked" => blocking,
           at' = [at EXCEPT ![t] = place],
           UNCHANGED leaving, blockedFlag' \in [Tid -> BOOLEAN]
    PROVE  GilInv'
<1>1. owner = t /\ rec = 1
  BY DEF GilInv, OneRunner
<1>2. rec' = 0 /\ owner' \in {t, Nobody} /\ (blocking => owner' = Nobody)
  BY <1>1 DEF Release
<1>3. GilTypeOK'
  <2>1. pinSlices' \in [Tid -> Nat] /\ spinPin' \in [Tid -> Nat]
    BY <1>1 DEF Release, GilInv, GilTypeOK
  <2>2. QED
    BY <1>2, <2>1 DEF Release, GilInv, GilTypeOK, Place
<1>4. OneRunner' /\ OwnerOutside'
  BY <1>1, <1>2 DEF GilInv, GilTypeOK, OneRunner, OwnerOutside, Nobody
<1>5. QED
  BY <1>3, <1>4 DEF GilInv

LEMMA GilStep ==
    ASSUME GilInv, [GilNext]_gilVars
    PROVE  GilInv'
<1>1. CASE UNCHANGED gilVars
  BY <1>1 DEF gilVars, lock, pins, GilInv, GilTypeOK, OneRunner, OwnerOutside
<1>2. ASSUME NEW t \in Tid, Lock(t) PROVE GilInv'
  BY <1>2, TakeKeeps DEF Lock, GilInv, GilTypeOK
<1>3. ASSUME NEW t \in Tid, Acquire(t) PROVE GilInv'
  <2>1. at[t] \in {"want", "back"} /\ blockedFlag' \in [Tid -> BOOLEAN]
    BY <1>3 DEF Acquire, Contends, GilInv, GilTypeOK
  <2>2. QED
    BY <1>3, <2>1, TakeKeeps DEF Acquire
<1>4. ASSUME NEW t \in Tid, BlockEnd(t) PROVE GilInv'
  <2>1. blockedFlag' \in [Tid -> BOOLEAN]
    BY <1>4 DEF BlockEnd, GilInv, GilTypeOK
  <2>2. QED
    BY <1>4, <2>1, TakeKeeps DEF BlockEnd
<1>5. ASSUME NEW t \in Tid, DropPreference(t) PROVE GilInv'
  BY <1>5 DEF DropPreference, GilInv, GilTypeOK, OneRunner, OwnerOutside, pins
<1>6. ASSUME NEW t \in Tid, Unlock(t) PROVE GilInv'
  <2>1. PICK place \in {"out", "gone"} : at' = [at EXCEPT ![t] = place]
    BY <1>6 DEF Unlock
  <2>2. blockedFlag' \in [Tid -> BOOLEAN]
    BY <1>6 DEF Unlock, GilInv, GilTypeOK
  <2>3. at[t] = "in" /\ Release(t, FALSE) /\ UNCHANGED leaving
    BY <1>6 DEF Unlock
  <2>4. QED
    BY <2>1, <2>2, <2>3, ReleaseKeeps
<1>7. ASSUME NEW t \in Tid, BlockBegin(t) PROVE GilInv'
  <2>1. blockedFlag' \in [Tid -> BOOLEAN]
    BY <1>7 DEF BlockBegin, GilInv, GilTypeOK
  <2>2. QED
    BY <1>7, <2>1, ReleaseKeeps DEF BlockBegin
<1>8. ASSUME NEW t \in Tid,
             \/ TakeGuestLock(t) \/ LeaveGuestLock(t) \/ SpinlockAcquired(t) \/ Leave(t)
             \/ \E u \in Tid : SetPrefer(t, u)
      PROVE  GilInv'
  <2>1. UNCHANGED <<owner, rec, at>>
    BY <1>8 DEF TakeGuestLock, LeaveGuestLock, SpinlockAcquired, Leave, SetPrefer, lock
  <2>2. GilTypeOK'
    BY <1>8 DEF TakeGuestLock, LeaveGuestLock, SpinlockAcquired, Leave, SetPrefer,
                lock, pins, GilInv, GilTypeOK
  <2>3. QED
    BY <2>1, <2>2 DEF GilInv, OneRunner, OwnerOutside
<1>9. QED
  BY <1>1, <1>2, <1>3, <1>4, <1>5, <1>6, <1>7, <1>8 DEF GilNext

LEMMA GilInvariant == GilSpec => []GilInv
<1>1. GilInit => GilInv
  BY DEF GilInit, GilInv, GilTypeOK, OneRunner, OwnerOutside, Place, Nobody
<1>2. QED
  BY <1>1, GilStep, PTL DEF GilSpec

-----------------------------------------------------------------------------
(* The theorems.                                                             *)

\* At most one guest thread is inside a slice or a handler, and it owns the GIL
\* at depth one, with any number of threads and any mixture of pins.
THEOREM OneRunnerAtATime == GilSpec => []OneRunner
<1>1. GilInv => OneRunner
  BY DEF GilInv
<1>2. QED
  BY <1>1, GilInvariant, PTL

\* A thread between block_begin and block_end does not own the GIL, whatever
\* guest locks it holds.
THEOREM BlockingReleases == GilSpec => []BlockedOwnsNothing
<1>1. GilInv => BlockedOwnsNothing
  BY DEF GilInv, OwnerOutside, BlockedOwnsNothing
<1>2. QED
  BY <1>1, GilInvariant, PTL

\* The lock's variables keep their types: depth and pin counters never go
\* negative.
THEOREM GilTypeCorrect == GilSpec => []GilTypeOK
<1>1. GilInv => GilTypeOK
  BY DEF GilInv
<1>2. QED
  BY <1>1, GilInvariant, PTL
-----------------------------------------------------------------------------
(* The count of contenders.                                                  *)

Contending == {t \in Tid : Contends(t)}

\* A thread that goes from one place to another is counted in or out.
LEMMA ContendingMoves ==
    ASSUME GilTypeOK, IsFiniteSet(Tid), NEW t \in Tid, NEW place,
           at' = [at EXCEPT ![t] = place]
    PROVE  /\ Contends(t) /\ place = "in"
                => Cardinality(Contending') = Cardinality(Contending) - 1
           /\ ~Contends(t) /\ place \in {"want", "back"}
                => Cardinality(Contending') = Cardinality(Contending) + 1
           /\ ~Contends(t) /\ place \in {"in", "out", "gone", "blocked"}
                => Cardinality(Contending') = Cardinality(Contending)
<1>1. IsFiniteSet(Contending)
  BY FS_Subset DEF Contending
<1>2. \A u \in Tid : Contends(u)' <=> IF u = t THEN place \in {"want", "back"} ELSE Contends(u)
  BY DEF Contends, GilTypeOK
<1>3. CASE Contends(t) /\ place = "in"
  <2>1. Contending' = Contending \ {t} /\ t \in Contending
    BY <1>2, <1>3 DEF Contending
  <2>2. QED
    BY <1>1, <1>3, <2>1, FS_RemoveElement
<1>4. CASE ~Contends(t) /\ place \in {"want", "back"}
  <2>1. Contending' = Contending \cup {t} /\ t \notin Contending
    BY <1>2, <1>4 DEF Contending
  <2>2. QED
    BY <1>1, <1>4, <2>1, FS_AddElement
<1>5. CASE ~Contends(t) /\ place \in {"in", "out", "gone", "blocked"}
  <2>1. Contending' = Contending
    BY <1>2, <1>5 DEF Contending
  <2>2. QED
    BY <1>5, <2>1
<1>6. QED
  BY <1>3, <1>4, <1>5

\* One look at the lock counts the thread in when it has to wait, and out when a
\* thread that waited gets the GIL.
LEMMA TakeCounts ==
    ASSUME GilInv, IsFiniteSet(Tid), waiters = Cardinality(Contending),
           NEW t \in Tid, NEW place \in {"want", "back"}, Take(t, place)
    PROVE  waiters' = Cardinality(Contending')
<1>0. GilTypeOK
  BY DEF GilInv
<1>1. CASE owner = t /\ at' = [at EXCEPT ![t] = "in"] /\ UNCHANGED waiters
  <2>1. ~Contends(t)
    BY <1>1 DEF GilInv, OwnerOutside, Contends
  <2>2. QED
    BY <1>0, <1>1, <2>1, ContendingMoves
<1>2. CASE /\ waiters' = IF Contends(t) THEN waiters - 1 ELSE waiters
           /\ at' = [at EXCEPT ![t] = "in"]
  <2>1. CASE Contends(t)
    BY <1>0, <1>2, <2>1, ContendingMoves
  <2>2. CASE ~Contends(t)
    BY <1>0, <1>2, <2>2, ContendingMoves
  <2>3. QED
    BY <2>1, <2>2
<1>3. CASE ~Contends(t) /\ waiters' = waiters + 1 /\ at' = [at EXCEPT ![t] = place]
  BY <1>0, <1>3, ContendingMoves
<1>4. QED
  BY <1>1, <1>2, <1>3 DEF Take

LEMMA CountedStep ==
    ASSUME GilInv, IsFiniteSet(Tid), ContendersCounted, [GilNext]_gilVars
    PROVE  ContendersCounted'
<1>0. waiters = Cardinality(Contending)
  BY DEF ContendersCounted, Contending
<1>1. SUFFICES waiters' = Cardinality(Contending')
  BY DEF ContendersCounted, Contending
<1>2. ASSUME UNCHANGED <<waiters, at>> PROVE waiters' = Cardinality(Contending')
  BY <1>0, <1>2 DEF Contending, Contends
<1>3. ASSUME NEW t \in Tid, Lock(t) \/ BlockEnd(t) \/ Acquire(t)
      PROVE  waiters' = Cardinality(Contending')
  <2>1. PICK place \in {"want", "back"} : Take(t, place)
    BY <1>3 DEF Lock, BlockEnd, Acquire, Contends
  <2>2. QED
    BY <1>0, <2>1, TakeCounts
<1>4. ASSUME NEW t \in Tid, Unlock(t) \/ BlockBegin(t)
      PROVE  waiters' = Cardinality(Contending')
  <2>1. /\ at[t] = "in" /\ waiters' = waiters
        /\ \E place \in {"out", "gone", "blocked"} : at' = [at EXCEPT ![t] = place]
    BY <1>4 DEF Unlock, BlockBegin, Release
  <2>2. ~Contends(t)
    BY <2>1 DEF Contends
  <2>3. QED
    BY <1>0, <2>1, <2>2, ContendingMoves DEF GilInv
<1>5. ASSUME NEW t \in Tid,
             \/ DropPreference(t) \/ TakeGuestLock(t) \/ LeaveGuestLock(t)
             \/ SpinlockAcquired(t) \/ Leave(t)
             \/ \E u \in Tid : SetPrefer(t, u)
      PROVE  waiters' = Cardinality(Contending')
  <2>1. UNCHANGED <<waiters, at>>
    BY <1>5 DEF DropPreference, TakeGuestLock, LeaveGuestLock, SpinlockAcquired, Leave,
                SetPrefer, lock
  <2>2. QED
    BY <1>2, <2>1
<1>6. CASE UNCHANGED gilVars
  BY <1>2, <1>6 DEF gilVars, lock
<1>7. QED
  BY <1>3, <1>4, <1>5, <1>6 DEF GilNext

\* s_gil_waiters, by which the slices are sized, counts exactly the threads inside
\* dir_lock: each is counted in once, however often it looks, and out once.  That a
\* waiting thread never owns the GIL already (OwnerOutside) is what excludes the
\* path of dir_lock that takes the GIL without counting out.
THEOREM ContendersExact ==
    ASSUME IsFiniteSet(Tid) PROVE GilSpec => []ContendersCounted
<1>1. GilInit => ContendersCounted
  <2>1. GilInit => waiters = 0 /\ {t \in Tid : Contends(t)} = {}
    BY DEF GilInit, Contends
  <2>2. QED
    BY <2>1, FS_EmptySet DEF ContendersCounted
<1>2. GilInv /\ ContendersCounted /\ [GilNext]_gilVars => ContendersCounted'
  BY CountedStep
<1>3. QED
  BY <1>1, <1>2, GilInvariant, PTL DEF GilSpec

-----------------------------------------------------------------------------
(* WaitOnAddress.                                                            *)

\* Guests that wait on addresses run under the GIL as Gil.tla describes it: each of
\* their steps is a step of the GIL or leaves it alone.
THEOREM AddressWaitsUseGil == AddrSpec => GilSpec
<1>1. AddrInit => GilInit
  BY DEF AddrInit
<1>2. [AddrNext]_addrVars => [GilNext]_gilVars
  <2>1. ASSUME NEW t \in Tid, WaitOnAddress(t) \/ Store(t) PROVE UNCHANGED gilVars
    BY <2>1 DEF WaitOnAddress, Store
  <2>2. ASSUME NEW t \in Tid, WaitSeesChange(t) \/ WaitElapses(t) PROVE Unlock(t)
    BY <2>2 DEF WaitSeesChange, WaitElapses, Returns
  <2>3. ASSUME NEW t \in Tid,
               \/ GetGil(t) \/ EndSlice(t) \/ BeginBlock(t) \/ EndBlock(t)
               \/ Pin(t) \/ Exit(t) \/ \E u \in Tid : Prefer(t, u)
        PROVE  GilNext
    BY <2>3 DEF GetGil, EndSlice, BeginBlock, EndBlock, Pin, Exit, Prefer, Quietly, GilNext
  <2>4. ASSUME NEW t \in Tid, Unlock(t) PROVE GilNext
    BY <2>4 DEF GilNext
  <2>5. QED
    BY <2>1, <2>2, <2>3, <2>4 DEF AddrNext, addrVars
<1>3. QED
  BY <1>1, <1>2, PTL DEF AddrSpec, GilSpec

\* So one guest thread runs at a time, and blocked ones own nothing, also while
\* others poll an address.
THEOREM AddressWaitersExclude == AddrSpec => [](OneRunner /\ BlockedOwnsNothing)
BY AddressWaitsUseGil, OneRunnerAtATime, BlockingReleases, PTL
=============================================================================
