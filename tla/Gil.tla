-------------------------------- MODULE Gil --------------------------------
(***************************************************************************)
(* The directed-handoff GIL of Core/wg_engine.c, which serializes the guest *)
(* threads: dir_lock, dir_unlock with its pin, wg_dir_set_prefer and the    *)
(* block_begin / block_end bracket around a wait, driven by the slice loop  *)
(* of wg_worker_thread_entry (the main thread's tick runs the same loop).   *)
(*                                                                          *)
(* Every function runs under s_dir_m.  dir_lock waits at most 1 ms at a     *)
(* time, so no thread depends on the broadcast of s_dir_c to look again.    *)
(***************************************************************************)
EXTENDS Integers, FiniteSets

CONSTANTS
    Tid,        \* guest thread ids
    MainTid,    \* the engine's own thread, which never exits
    CsPin,      \* TRUE: WG_CS_PIN is set
    SpinWindow, \* slices pinned after a guest spinlock acquire; 0: WG_SPINPIN is unset
    PinCap,     \* consecutive pinned releases allowed (WG_PIN_CAP, 64)
    MaxHeld,    \* bound on the guest locks one thread holds
    Exits       \* TRUE: workers exit

ASSUME GilAssumption ==
    /\ 0 \notin Tid
    /\ MainTid \in Tid
    /\ CsPin \in BOOLEAN /\ Exits \in BOOLEAN
    /\ SpinWindow \in Nat /\ PinCap \in Nat /\ MaxHeld \in Nat

VARIABLES
    owner,      \* s_dir_owner, or Nobody when s_dir_owned is 0
    rec,        \* s_dir_rec
    prefer,     \* s_dir_prefer
    waiters,    \* s_gil_waiters
    at,         \* where each thread is in its slice loop
    leaving,    \* workers whose thread procedure has returned
    blockedFlag,\* s_tid_blocked
    csHeld,     \* s_cs_held
    pinSlices,  \* s_pin_slices
    spinPin     \* s_spin_pin

lock == <<owner, rec, prefer, waiters>>
pins == <<csHeld, pinSlices, spinPin>>
gilVars == <<lock, at, leaving, blockedFlag, pins>>

Nobody == 0

\* "out" between slices, "want" inside dir_lock, "in" running a slice or a
\* handler, "blocked" between block_begin and block_end, "back" inside the
\* dir_lock of block_end.
Place == {"out", "want", "in", "blocked", "back", "gone"}

Contends(t) == at[t] \in {"want", "back"}

-----------------------------------------------------------------------------
(* dir_lock.                                                                *)

\* Mutant of Take: the preferred thread does not look whether the GIL is free.
TakePreferred(t, waitsAt) ==
    \/ /\ owner = t
       /\ rec' = rec + 1
       /\ at' = [at EXCEPT ![t] = "in"]
       /\ UNCHANGED <<owner, prefer, waiters>>
    \/ /\ owner # t /\ (prefer = t \/ (owner = Nobody /\ prefer = Nobody))
       /\ owner' = t /\ rec' = 1
       /\ prefer' = Nobody
       /\ waiters' = IF Contends(t) THEN waiters - 1 ELSE waiters
       /\ at' = [at EXCEPT ![t] = "in"]
    \/ /\ owner # t /\ prefer # t
       /\ ~(owner = Nobody /\ prefer = Nobody)
       /\ ~Contends(t)
       /\ waiters' = waiters + 1
       /\ at' = [at EXCEPT ![t] = waitsAt]
       /\ UNCHANGED <<owner, rec, prefer>>

\* One look at the lock; a thread that has to wait is counted once.
Take(t, waitsAt) ==
    \/ /\ owner = t
       /\ rec' = rec + 1
       /\ at' = [at EXCEPT ![t] = "in"]
       /\ UNCHANGED <<owner, prefer, waiters>>
    \/ /\ owner = Nobody /\ prefer \in {Nobody, t}
       /\ owner' = t /\ rec' = 1
       /\ prefer' = Nobody
       /\ waiters' = IF Contends(t) THEN waiters - 1 ELSE waiters
       /\ at' = [at EXCEPT ![t] = "in"]
    \/ /\ owner # t
       /\ ~(owner = Nobody /\ prefer \in {Nobody, t})
       /\ ~Contends(t)
       /\ waiters' = waiters + 1
       /\ at' = [at EXCEPT ![t] = waitsAt]
       /\ UNCHANGED <<owner, rec, prefer>>

Lock(t) ==
    /\ at[t] = "out"
    /\ Take(t, "want")
    /\ UNCHANGED <<leaving, blockedFlag, pins>>

\* The dir_lock of block_end, which clears the flag once it has the GIL.
BlockEnd(t) ==
    /\ at[t] = "blocked"
    /\ Take(t, "back")
    /\ blockedFlag' = [blockedFlag EXCEPT ![t] = at'[t] = "back"]
    /\ UNCHANGED <<leaving, pins>>

\* Mutant of Acquire: the contender is not counted out.
AcquireUncounted(t) ==
    /\ Contends(t)
    /\ owner = Nobody /\ prefer \in {Nobody, t}
    /\ owner' = t /\ rec' = 1 /\ prefer' = Nobody
    /\ at' = [at EXCEPT ![t] = "in"]
    /\ blockedFlag' = [blockedFlag EXCEPT ![t] = FALSE]
    /\ UNCHANGED <<waiters, leaving, pins>>

Acquire(t) ==
    /\ Contends(t)
    /\ Take(t, at[t])
    /\ blockedFlag' = [blockedFlag EXCEPT ![t] = FALSE]
    /\ UNCHANGED <<leaving, pins>>

\* A wait of 1 ms ended with the GIL free and kept for somebody else.
DropPreference(t) ==
    /\ Contends(t)
    /\ owner = Nobody /\ prefer \notin {Nobody, t}
    /\ prefer' = Nobody
    /\ UNCHANGED <<owner, rec, waiters, at, leaving, blockedFlag, pins>>

-----------------------------------------------------------------------------
(* dir_unlock.                                                              *)

WantPin(t) == (CsPin /\ csHeld[t] > 0) \/ spinPin[t] > 0

\* Mutant of Release: the pin ignores that the thread is about to block.
ReleasePinnedAnyway(t, blocking) ==
    /\ rec' = rec - 1
    /\ IF rec' <= 0 /\ ~(WantPin(t) /\ pinSlices[t] < PinCap)
         THEN /\ owner' = Nobody
              /\ pinSlices' = [pinSlices EXCEPT ![t] = 0]
              /\ spinPin' = [spinPin EXCEPT ![t] = 0]
         ELSE /\ pinSlices' = [pinSlices EXCEPT ![t] = @ + 1]
              /\ spinPin' = [spinPin EXCEPT ![t] = IF @ > 0 THEN @ - 1 ELSE 0]
              /\ UNCHANGED owner
    /\ UNCHANGED <<prefer, waiters, csHeld>>

\* Mutant of Release: no cap on the pinned slices.
ReleaseUncapped(t, blocking) ==
    /\ rec' = rec - 1
    /\ IF WantPin(t) /\ ~blocking
         THEN UNCHANGED <<owner, pinSlices, spinPin>>
         ELSE /\ owner' = Nobody
              /\ pinSlices' = [pinSlices EXCEPT ![t] = 0]
              /\ spinPin' = [spinPin EXCEPT ![t] = 0]
    /\ UNCHANGED <<prefer, waiters, csHeld>>

\* A thread that holds a guest lock keeps the GIL across slices, unless it is
\* about to block or has done so PinCap times in a row.
Release(t, blocking) ==
    /\ IF rec > 1
         THEN rec' = rec - 1 /\ UNCHANGED <<owner, pinSlices, spinPin>>
         ELSE /\ rec' = 0
              /\ IF WantPin(t) /\ ~blocking /\ pinSlices[t] < PinCap
                   THEN /\ pinSlices' = [pinSlices EXCEPT ![t] = @ + 1]
                        /\ spinPin' = [spinPin EXCEPT ![t] = IF @ > 0 THEN @ - 1 ELSE 0]
                        /\ UNCHANGED owner
                   ELSE /\ owner' = Nobody
                        /\ pinSlices' = [pinSlices EXCEPT ![t] = 0]
                        /\ spinPin' = [spinPin EXCEPT ![t] = 0]
    /\ UNCHANGED <<prefer, waiters, csHeld>>

\* The end of a slice, or of a handler; a worker that is leaving has freed its
\* Machine and never locks again.
Unlock(t) ==
    /\ at[t] = "in"
    /\ Release(t, FALSE)
    /\ at' = [at EXCEPT ![t] = IF t \in leaving THEN "gone" ELSE "out"]
    /\ UNCHANGED <<leaving, blockedFlag>>

BlockBegin(t) ==
    /\ at[t] = "in" /\ t \notin leaving
    /\ blockedFlag' = [blockedFlag EXCEPT ![t] = TRUE]
    /\ Release(t, TRUE)
    /\ at' = [at EXCEPT ![t] = "blocked"]
    /\ UNCHANGED leaving

-----------------------------------------------------------------------------
(* What a slice and its handlers do under the GIL.                          *)

\* wg_dir_set_prefer(u): ignored for oneself and for a blocked thread.  A tid is
\* remembered as a producer for good, so u may have left.
SetPrefer(t, u) ==
    /\ at[t] = "in" /\ t \notin leaving
    /\ u # t /\ ~blockedFlag[u]
    /\ prefer' = u
    /\ UNCHANGED <<owner, rec, waiters, at, leaving, blockedFlag, pins>>

\* EnterCriticalSection, AcquireSRWLockExclusive, _Mtx_lock.
TakeGuestLock(t) ==
    /\ at[t] = "in" /\ t \notin leaving /\ csHeld[t] < MaxHeld
    /\ csHeld' = [csHeld EXCEPT ![t] = @ + 1]
    /\ UNCHANGED <<lock, at, leaving, blockedFlag, pinSlices, spinPin>>

\* Mutant of LeaveGuestLock: the count is lowered without a look at it.
LeaveGuestLockUnguarded(t) ==
    /\ at[t] = "in" /\ t \notin leaving
    /\ csHeld' = [csHeld EXCEPT ![t] = @ - 1]
    /\ UNCHANGED <<lock, at, leaving, blockedFlag, pinSlices, spinPin>>

LeaveGuestLock(t) ==
    /\ at[t] = "in" /\ t \notin leaving /\ csHeld[t] > 0
    /\ csHeld' = [csHeld EXCEPT ![t] = @ - 1]
    /\ UNCHANGED <<lock, at, leaving, blockedFlag, pinSlices, spinPin>>

\* wg_on_guest_spinlock, called by the interpreter inside a slice.
SpinlockAcquired(t) ==
    /\ SpinWindow > 0
    /\ at[t] = "in" /\ t \notin leaving
    /\ spinPin' = [spinPin EXCEPT ![t] = SpinWindow]
    /\ UNCHANGED <<lock, at, leaving, blockedFlag, csHeld, pinSlices>>

\* rip is 0, or a fault nothing handles: the loop ends; the next lock is the
\* one around freeing the Machine.
Leave(t) ==
    /\ Exits /\ t # MainTid
    /\ at[t] = "out" /\ t \notin leaving
    /\ leaving' = leaving \cup {t}
    /\ UNCHANGED <<lock, at, blockedFlag, pins>>

-----------------------------------------------------------------------------
GilInit ==
    /\ owner = Nobody /\ rec = 0 /\ prefer = Nobody /\ waiters = 0
    /\ at = [t \in Tid |-> "out"]
    /\ leaving = {}
    /\ blockedFlag = [t \in Tid |-> FALSE]
    /\ csHeld = [t \in Tid |-> 0]
    /\ pinSlices = [t \in Tid |-> 0]
    /\ spinPin = [t \in Tid |-> 0]

GilNext ==
    \E t \in Tid :
        \/ Lock(t) \/ Acquire(t) \/ DropPreference(t) \/ Unlock(t)
        \/ BlockBegin(t) \/ BlockEnd(t)
        \/ TakeGuestLock(t) \/ LeaveGuestLock(t) \/ SpinlockAcquired(t)
        \/ Leave(t)
        \/ \E u \in Tid : SetPrefer(t, u)

\* A slice is a bounded number of instructions and then ends, the loop goes on
\* with the next one, a thread in dir_lock looks every millisecond.  How long a
\* thread stays blocked is not known.
GilFairness ==
    \A t \in Tid : /\ WF_gilVars(Lock(t)) /\ WF_gilVars(Unlock(t))
                   /\ WF_gilVars(Acquire(t)) /\ WF_gilVars(DropPreference(t))

GilSpec == GilInit /\ [][GilNext]_gilVars

GilFairSpec == GilSpec /\ GilFairness

-----------------------------------------------------------------------------
(* Properties.                                                              *)

\* Every variable has its type.
GilTypeOK ==
    /\ owner \in Tid \cup {Nobody} /\ prefer \in Tid \cup {Nobody}
    /\ rec \in Nat /\ waiters \in Int
    /\ at \in [Tid -> Place]
    /\ leaving \subseteq Tid
    /\ blockedFlag \in [Tid -> BOOLEAN]
    /\ csHeld \in [Tid -> Nat] /\ pinSlices \in [Tid -> Nat] /\ spinPin \in [Tid -> Nat]

\* One guest thread runs at a time: who is in a slice or a handler owns the GIL,
\* at depth one, also when it came in over a pinned release of its own.
OneRunner ==
    \A t \in Tid : at[t] = "in" => owner = t /\ rec = 1

\* A thread in a blocking wait has given the GIL up, whatever guest locks it
\* holds and however its last slices were pinned.
BlockedOwnsNothing ==
    \A t \in Tid : at[t] \in {"blocked", "back"} => owner # t

\* The count of contenders, by which the slices are sized, is exact.
ContendersCounted ==
    waiters = Cardinality({t \in Tid : Contends(t)})

\* A thread that goes on running does not keep the GIL forever, pinned or not: the
\* cap on pinned slices releases it.
RunnersMoveOn ==
    \A t \in Tid : []<>(owner # t \/ t \in leaving)

\* A free GIL that somebody wants is taken, although it may be kept for a thread
\* that never comes for it.
FreeGilIsTaken ==
    (owner = Nobody /\ \E t \in Tid : Contends(t)) ~> owner # Nobody

\* The GIL moves on from whoever runs and is taken by somebody who wants it
\* (wg_gil_acquire .. wg_gil_yield_locked).
GilMovesOn == RunnersMoveOn /\ FreeGilIsTaken
=============================================================================
