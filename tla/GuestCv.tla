------------------------------ MODULE GuestCv ------------------------------
(***************************************************************************)
(* Guest threads that use a condition variable the way Windows documents:   *)
(* consumers sleep on it inside a lock until a producer has published under *)
(* that lock and woken them.  The lock is a CRITICAL_SECTION or an SRWLOCK; *)
(* the handlers of Core/wg_engine.c map the first to a mutex of wg_sync.c   *)
(* and the second to an entry of the SRW table, but SleepConditionVariable  *)
(* gives both pointers to wg_cs_mutex_for.                                  *)
(*                                                                          *)
(* The GIL is left out: every blocking call here is made with the GIL given *)
(* up, and between calls it only removes interleavings.                     *)
(***************************************************************************)
EXTENDS Integers

CONSTANTS
    Consumers, Producers,   \* guest threads
    LockKinds               \* subset of {"cs", "srw"}: what the guest's lock may be

\* Guest thread ids start at 1.
ASSUME GuestCvAssumption ==
    /\ 0 \notin Consumers \cup Producers
    /\ LockKinds \subseteq {"cs", "srw"}

VARIABLES
    objs, call, parked, waitq, ret,         \* wg_sync.c
    table, srw, acq, srwParked, held, kicked,       \* the SRW locks
    pc,         \* per thread: how far its guest program is
    ready,      \* the guest's predicate
    kind        \* what its lock is, a CRITICAL_SECTION or an SRWLOCK

syncVars  == <<objs, call, parked, waitq, ret>>
locksVars == <<table, srw, acq, srwParked, held, kicked>>
guestVars == <<syncVars, locksVars, pc, ready, kind>>

Threads == Consumers \cup Producers

Cv  == 1    \* wg_cv_handle_for the CONDITION_VARIABLE
Mtx == 2    \* wg_cs_mutex_for the lock's pointer
P   == "p"  \* the lock's pointer

S == INSTANCE WgSync
       WITH Tid <- Threads, MainTid <- CHOOSE t \in Producers : TRUE,
            Handle <- {Cv, Mtx}, WaitqMax <- 128, MaxCount <- 2,
            Kinds <- {"cv", "mutex"}, Closable <- {}, Requests <- {<<Mtx>>},
            Modes <- {"inf"}, Kicks <- {}, HeldOnly <- FALSE

L == INSTANCE SrwLock
       WITH Tid <- Threads, Ptr <- {P}, SrwMax <- 1, MaxHold <- 1, Kick <- FALSE

-----------------------------------------------------------------------------
(* The handlers.                                                            *)

\* Not inside any blocking call: the guest runs.
Runs(t) == S!Idle(t) /\ L!SrwIdle(t)

Goto(t, place) == pc' = [pc EXCEPT ![t] = place]

Cs  == kind = "cs"
Srw == kind = "srw"

\* wg_cs_mutex_for and wg_cv_handle_for make an object on first use.
NeedsMutex(t) == pc[t] = (IF Cs THEN "start" ELSE "inside")

MapMutex(t) ==
    /\ Runs(t) /\ NeedsMutex(t) /\ ~S!Live(Mtx)
    /\ objs' = [objs EXCEPT ![Mtx] = [S!FreeObj EXCEPT !.type = "mutex"]]
    /\ UNCHANGED <<call, parked, waitq, ret, locksVars, pc, ready>>

MapCv(t) ==
    /\ Runs(t) /\ pc[t] \in {"inside", "wake"} /\ ~S!Live(Cv)
    /\ objs' = [objs EXCEPT ![Cv] = [S!FreeObj EXCEPT !.type = "cv"]]
    /\ UNCHANGED <<call, parked, waitq, ret, locksVars, pc, ready>>

\* Mutant of Enter: the result of the wait is ignored.
EnterAnyway(t) ==
    /\ Runs(t) /\ pc[t] = "start" /\ (Cs => S!Live(Mtx))
    /\ Goto(t, "inside")
    /\ UNCHANGED <<syncVars, locksVars, ready>>

\* EnterCriticalSection tries first and waits INFINITE if that fails; both are one
\* wait that may succeed at once.
Enter(t) ==
    /\ Runs(t) /\ pc[t] = "start"
    /\ \/ Cs /\ S!Live(Mtx) /\ S!WaitSingle(t) /\ UNCHANGED locksVars
       \/ Srw /\ L!AcquireExclusive(t, P) /\ UNCHANGED syncVars
    /\ Goto(t, "inside")
    /\ UNCHANGED ready

Exit(t, place) ==
    /\ \/ Cs /\ S!ReleaseMutex(t, Mtx) /\ UNCHANGED locksVars
       \/ Srw /\ L!ReleaseExclusive(t, P) /\ UNCHANGED syncVars
    /\ Goto(t, place)

\* SleepConditionVariableCS and SleepConditionVariableSRW.
Sleep(t) ==
    /\ S!Live(Cv) /\ S!Live(Mtx)
    /\ S!CvSleep(t, Cv, Mtx)
    /\ UNCHANGED <<locksVars, pc>>

-----------------------------------------------------------------------------
(* The guest's program.                                                     *)

\* while (!ready) sleep; leave
Consume(t) ==
    /\ t \in Consumers /\ Runs(t) /\ pc[t] = "inside"
    /\ IF ready THEN Exit(t, "done") ELSE Sleep(t)
    /\ UNCHANGED ready

\* enter; ready = true; leave; wake all
Publish(t) ==
    /\ t \in Producers /\ Runs(t) /\ pc[t] = "inside"
    /\ ready' = TRUE
    /\ Exit(t, "wake")

\* Mutant of Wake: the sleepers are not told.
WakeNobody(t) ==
    /\ t \in Producers /\ Runs(t) /\ pc[t] = "wake" /\ S!Live(Cv)
    /\ Goto(t, "done")
    /\ UNCHANGED <<syncVars, locksVars, ready>>

Wake(t) ==
    /\ t \in Producers /\ Runs(t) /\ pc[t] = "wake" /\ S!Live(Cv)
    /\ S!CvWake(t, Cv)
    /\ Goto(t, "done")
    /\ UNCHANGED <<locksVars, ready>>

\* What goes on inside the blocking calls.
Blocked(t) ==
    /\ \/ /\ S!WaitRecheck(t) \/ S!CvRecheck(t) \/ S!RelockRecheck(t)
          /\ UNCHANGED locksVars
       \/ L!ExclTurn(t) /\ UNCHANGED syncVars
       \/ L!ExclPoll(t) /\ UNCHANGED syncVars
    /\ UNCHANGED <<pc, ready>>

GuestInit ==
    /\ S!Init /\ L!SrwInit
    /\ pc = [t \in Threads |-> "start"]
    /\ ready = FALSE
    /\ kind \in LockKinds

GuestStep(t) ==
    \/ MapMutex(t) \/ MapCv(t) \/ Enter(t)
    \/ Consume(t) \/ Publish(t) \/ Wake(t)
    \/ Blocked(t)

GuestNext == (\E t \in Threads : GuestStep(t)) /\ UNCHANGED kind

\* Every thread runs: its program goes on, and so do the loops it is blocked in.
GuestSpec ==
    /\ GuestInit /\ [][GuestNext]_guestVars
    /\ \A t \in Threads : WF_guestVars(GuestStep(t) /\ UNCHANGED kind)

-----------------------------------------------------------------------------
(* Properties.                                                              *)

\* The lock excludes: no two threads run inside it, whichever of them came back
\* from a sleep and whichever came in by entering.
OneInside ==
    \A t, u \in Threads :
        (pc[t] = "inside" /\ Runs(t) /\ pc[u] = "inside" /\ Runs(u)) => t = u

\* The documented idiom works over a critical section: every thread finishes.
CsProgramFinishes ==
    kind = "cs" => <>(\A t \in Threads : pc[t] = "done")

\* "atomically release the CS/SRW mutex, block on the CV, re-acquire": the program
\* cannot get stuck, so every thread finishes.
EveryoneFinishes == <>(\A t \in Threads : pc[t] = "done")
=============================================================================
