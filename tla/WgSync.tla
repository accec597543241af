------------------------------- MODULE WgSync -------------------------------
(***************************************************************************)
(* The Win32 synchronization objects of Win32/wg_sync.c: a table of        *)
(* EVENT / MUTEX / SEMAPHORE / THREAD / CONDITION-VARIABLE objects behind   *)
(* one monitor (g_lock, g_cond).  Every function runs under g_lock and is   *)
(* one action here; a function that waits is cut where pthread_cond_wait    *)
(* gives the lock up: the call's arguments stay in call[t], the thread is   *)
(* in parked until a broadcast empties that set, and the loop's next turn   *)
(* is an action of its own.                                                 *)
(*                                                                          *)
(* A handle is WG_SYNC_BASE + slot index, so a slot that was closed and     *)
(* allocated again answers to the same handle.                              *)
(***************************************************************************)
EXTENDS Integers, FiniteSets, Sequences

CONSTANTS
    Tid,        \* guest thread ids (the caller_tid arguments)
    MainTid,    \* guest tid 1, the engine's own thread
    Handle,     \* the slots of g_objs, named by their handle
    WaitqMax,   \* entries of the probe table s_waitq (128)
    MaxCount,   \* bound on counts, recursion depths and CV generations
    Kinds,      \* object kinds the guest program creates
    Closable,   \* object kinds the guest program closes
    Requests,   \* handle tuples the guest program waits on
    Modes,      \* "poll" (timeout 0), "timed" (finite), "inf" (INFINITE)
    Kicks,      \* deadlock breakers in use: "tid", "workers", "all", "manual", "cv"
    HeldOnly    \* TRUE: a CV sleeper owns the mutex it passes, as wg_sync.h asks

ASSUME SyncAssumption ==
    /\ 0 \notin Tid
    /\ Handle \subseteq Nat \ {0}
    /\ MaxCount \in Nat \ {0}
    /\ Requests \subseteq Seq(Handle)
    \* WaitForMultipleObjects does not admit the same handle twice.
    /\ \A hs \in Requests : \A i, j \in DOMAIN hs : hs[i] = hs[j] => i = j
    /\ Modes \subseteq {"poll", "timed", "inf"}

VARIABLES
    objs,       \* g_objs
    call,       \* per thread: the wait it is inside of, or NoCall
    parked,     \* threads inside pthread_cond_wait that no broadcast reached
    waitq,      \* s_waitq: the handle a thread is recorded as waiting on
    ret         \* per thread: the code its last wait returned

vars == <<objs, call, parked, waitq, ret>>

NoTid    == 0       \* owner_tid of an unowned mutex
NoHandle == 0       \* what a failed creation returns, and an unused s_waitq entry

WAIT_OBJECT_0 == 0  \* WAIT_OBJECT_0 + i is the number i
WAIT_TIMEOUT  == 258
WAIT_FAILED   == -1 \* 0xFFFFFFFF

Kind == {"event", "mutex", "sem", "thread", "cv"}

-----------------------------------------------------------------------------
(* The object table.                                                        *)

FreeObj == [type |-> "free", manual |-> FALSE, signalled |-> FALSE,
            owner |-> NoTid, rec |-> 0, count |-> 0, max |-> 0,
            exited |-> FALSE]

Object == [type : Kind \cup {"free"}, manual : BOOLEAN, signalled : BOOLEAN,
           owner : Tid \cup {NoTid}, rec : Nat, count : Int, max : Int,
           exited : BOOLEAN]

Live(h) == objs[h].type # "free"

IsA(h, kind) == objs[h].type = kind

FreeSlot(h) == ~Live(h) /\ \A g \in Handle : ~Live(g) => h <= g

Satisfied(o, t) ==
    \/ o.type = "event"  /\ o.signalled
    \/ o.type = "mutex"  /\ o.owner \in {NoTid, t}
    \/ o.type = "sem"    /\ o.count > 0
    \/ o.type = "thread" /\ o.exited

\* A mutex record with its owner and depth set.
Owned(o, t, n) == [o EXCEPT !.owner = t, !.rec = n]

\* Mutant of Acquired: a recursive acquisition is not counted.
AcquiredUncounted(o, t) ==
    CASE o.type = "event" /\ ~o.manual -> [o EXCEPT !.signalled = FALSE]
      [] o.type = "mutex" -> Owned(o, t, o.rec)
      [] o.type = "sem"   -> [o EXCEPT !.count = @ - 1]
      [] OTHER            -> o

Acquired(o, t) ==
    CASE o.type = "event" /\ ~o.manual -> [o EXCEPT !.signalled = FALSE]
      [] o.type = "mutex" -> Owned(o, t, o.rec + 1)
      [] o.type = "sem"   -> [o EXCEPT !.count = @ - 1]
      [] OTHER            -> o

-----------------------------------------------------------------------------
(* The calls that block.                                                    *)

NoCall == [op |-> "none"]

WaitCall   == [op : {"single", "multi"}, hs : Seq(Handle), all : BOOLEAN,
               timed : BOOLEAN]
CvCall     == [op : {"cv"}, cv : Handle, m : Handle, gen : Int, saved : Nat,
               timed : BOOLEAN]
RelockCall == [op : {"relock"}, m : Handle, saved : Nat, rv : Int]

Calls == {NoCall} \cup WaitCall \cup CvCall \cup RelockCall

Idle(t)    == call[t].op = "none"
Waiting(t) == call[t].op \in {"single", "multi"}
Asleep(t)  == call[t].op = "cv"
Relocking(t) == call[t].op = "relock"

Broadcast == parked' = {}

\* Mutant of Return: wq_clr is forgotten.
ReturnStillQueued(t, rv) ==
    /\ call' = [call EXCEPT ![t] = NoCall]
    /\ ret' = [ret EXCEPT ![t] = rv]
    /\ UNCHANGED waitq

Return(t, rv) ==
    /\ call' = [call EXCEPT ![t] = NoCall]
    /\ ret' = [ret EXCEPT ![t] = rv]
    /\ waitq' = [waitq EXCEPT ![t] = NoHandle]

\* wq_set: the thread is recorded unless the table is full.
WqSet(t, h) ==
    IF Cardinality({u \in Tid : waitq[u] # NoHandle}) < WaitqMax
      THEN [waitq EXCEPT ![t] = h] ELSE waitq

AllLive(w) == \A i \in DOMAIN w.hs : Live(w.hs[i])

Ready(w, t) ==
    IF w.all THEN \A i \in DOMAIN w.hs : Satisfied(objs[w.hs[i]], t)
             ELSE \E i \in DOMAIN w.hs : Satisfied(objs[w.hs[i]], t)

\* Mutant of FirstHit: the scan runs from the end.
LastHit(w, t) ==
    CHOOSE i \in DOMAIN w.hs :
        /\ Satisfied(objs[w.hs[i]], t)
        /\ \A j \in DOMAIN w.hs : Satisfied(objs[w.hs[j]], t) => i >= j

FirstHit(w, t) ==
    CHOOSE i \in DOMAIN w.hs :
        /\ Satisfied(objs[w.hs[i]], t)
        /\ \A j \in DOMAIN w.hs : Satisfied(objs[w.hs[j]], t) => i <= j

Taken(w, t) ==
    IF w.all THEN {w.hs[i] : i \in DOMAIN w.hs} ELSE {w.hs[FirstHit(w, t)]}

Grant(t, w) ==
    /\ objs' = [h \in Handle |-> IF h \in Taken(w, t) THEN Acquired(objs[h], t)
                                                      ELSE objs[h]]
    /\ parked' = parked \ {t}
    /\ Return(t, IF w.all THEN WAIT_OBJECT_0 ELSE FirstHit(w, t) - 1)

GiveUp(t, rv) ==
    /\ parked' = parked \ {t}
    /\ Return(t, rv)
    /\ UNCHANGED objs

\* The bound MaxCount on recursion.
Room(w, t) == \A i \in DOMAIN w.hs :
    LET o == objs[w.hs[i]] IN o.type = "mutex" /\ o.owner = t => o.rec < MaxCount

-----------------------------------------------------------------------------
(* Creation: the first free slot; a full table returns 0 and changes        *)
(* nothing.                                                                 *)

Create(kind, o) ==
    /\ kind \in Kinds
    /\ \E h \in Handle : FreeSlot(h) /\ objs' = [objs EXCEPT ![h] = o]
    /\ UNCHANGED <<call, parked, waitq, ret>>

CreateEvent(t) ==
    /\ Idle(t)
    /\ \E manual, initial \in BOOLEAN :
         Create("event", [FreeObj EXCEPT !.type = "event", !.manual = manual,
                                         !.signalled = initial])

CreateMutex(t) ==
    /\ Idle(t)
    /\ \E owned \in BOOLEAN :
         Create("mutex", [FreeObj EXCEPT !.type = "mutex",
                            !.owner = IF owned THEN t ELSE NoTid,
                            !.rec = IF owned THEN 1 ELSE 0])

CreateSemaphore(t) ==
    /\ Idle(t)
    /\ \E max \in 1 .. MaxCount : \E initial \in 0 .. max :
         Create("sem", [FreeObj EXCEPT !.type = "sem", !.count = initial,
                                       !.max = max])

\* The thread object of worker u: owner_tid names the thread it stands for.
CreateThreadObj(t) ==
    /\ Idle(t)
    /\ \E u \in Tid :
         Create("thread", [FreeObj EXCEPT !.type = "thread", !.owner = u])

CreateCv(t) ==
    /\ Idle(t)
    /\ Create("cv", [FreeObj EXCEPT !.type = "cv"])

-----------------------------------------------------------------------------
(* Signalling.                                                              *)

\* Mutant of SetEvent: no broadcast.
SetEventSilent(t, h) ==
    /\ Idle(t) /\ IsA(h, "event")
    /\ objs' = [objs EXCEPT ![h].signalled = TRUE]
    /\ UNCHANGED <<call, parked, waitq, ret>>

SetEvent(t, h) ==
    /\ Idle(t) /\ IsA(h, "event")
    /\ objs' = [objs EXCEPT ![h].signalled = TRUE]
    /\ Broadcast
    /\ UNCHANGED <<call, waitq, ret>>

ResetEvent(t, h) ==
    /\ Idle(t) /\ IsA(h, "event")
    /\ objs' = [objs EXCEPT ![h].signalled = FALSE]
    /\ UNCHANGED <<call, parked, waitq, ret>>

\* Set, broadcast and reset under one hold of g_lock: no waiter ever runs
\* while the event is signalled.
PulseEvent(t, h) ==
    /\ Idle(t) /\ IsA(h, "event")
    /\ objs' = [objs EXCEPT ![h].signalled = FALSE]
    /\ Broadcast
    /\ UNCHANGED <<call, waitq, ret>>

\* Mutant of ReleaseMutex: any thread may release, owner or not.
ReleaseMutexUnchecked(t, h) ==
    /\ Idle(t) /\ IsA(h, "mutex")
    /\ objs' = [objs EXCEPT ![h] = Owned(@, NoTid, objs[h].rec - 1)]
    /\ Broadcast
    /\ UNCHANGED <<call, waitq, ret>>

ReleaseMutex(t, h) ==
    /\ Idle(t) /\ IsA(h, "mutex")
    /\ objs[h].owner = t /\ objs[h].rec > 0
    /\ IF objs[h].rec = 1
         THEN /\ objs' = [objs EXCEPT ![h] = Owned(@, NoTid, 0)]
              /\ Broadcast
         ELSE /\ objs' = [objs EXCEPT ![h].rec = @ - 1]
              /\ UNCHANGED parked
    /\ UNCHANGED <<call, waitq, ret>>

ReleaseSemaphore(t, h) ==
    /\ Idle(t) /\ IsA(h, "sem")
    /\ \E n \in 1 .. MaxCount :
         objs' = [objs EXCEPT ![h].count =
                    IF objs[h].max > 0 /\ @ + n > objs[h].max
                      THEN objs[h].max ELSE @ + n]
    /\ Broadcast
    /\ UNCHANGED <<call, waitq, ret>>

\* Idempotent: an exited object is left alone, and nobody is woken again.
ThreadExit(t, h) ==
    /\ Idle(t) /\ IsA(h, "thread") /\ ~objs[h].exited
    /\ objs' = [objs EXCEPT ![h].exited = TRUE]
    /\ Broadcast
    /\ UNCHANGED <<call, waitq, ret>>

\* Mutant of Close: the waiters are not told.
CloseSilent(t, h) ==
    /\ Idle(t) /\ Live(h) /\ objs[h].type \in Closable
    /\ objs' = [objs EXCEPT ![h].type = "free"]
    /\ UNCHANGED <<call, parked, waitq, ret>>

\* Only type and handle are cleared: a waiter that still has the slot's
\* pointer reads the other fields as they were.
Close(t, h) ==
    /\ Idle(t) /\ Live(h) /\ objs[h].type \in Closable
    /\ objs' = [objs EXCEPT ![h].type = "free"]
    /\ Broadcast
    /\ UNCHANGED <<call, waitq, ret>>

-----------------------------------------------------------------------------
(* wg_sync_wait_single and wg_sync_wait_multiple.                           *)

\* One turn of the loop, up to the return or the next cond_wait.
Turn(t, w, mode) ==
    \/ /\ ~AllLive(w)
       /\ GiveUp(t, WAIT_FAILED)
    \/ /\ AllLive(w) /\ Ready(w, t)
       /\ Grant(t, w)
    \/ /\ AllLive(w) /\ ~Ready(w, t) /\ mode = "poll"
       /\ GiveUp(t, WAIT_TIMEOUT)
    \/ /\ AllLive(w) /\ ~Ready(w, t) /\ mode # "poll"
       /\ call' = [call EXCEPT ![t] = w]
       /\ parked' = parked \cup {t}
       /\ waitq' = IF w.op = "single" /\ Idle(t) THEN WqSet(t, w.hs[1]) ELSE waitq
       /\ UNCHANGED <<objs, ret>>

WaitSingle(t) ==
    /\ Idle(t)
    /\ \E hs \in Requests, mode \in Modes :
         LET w == [op |-> "single", hs |-> hs, all |-> FALSE,
                   timed |-> mode = "timed"]
         IN Len(hs) = 1 /\ Room(w, t) /\ Turn(t, w, mode)

WaitMultiple(t) ==
    /\ Idle(t)
    /\ \E hs \in Requests, all \in BOOLEAN, mode \in Modes :
         LET w == [op |-> "multi", hs |-> hs, all |-> all,
                   timed |-> mode = "timed"]
         IN Len(hs) > 1 /\ Room(w, t) /\ Turn(t, w, mode)

WaitRecheck(t) ==
    /\ Waiting(t) /\ t \notin parked
    /\ Turn(t, call[t], "inf")

\* ETIMEDOUT.  A single wait looks once more, through the pointer it already
\* has; a multiple wait does not look again.
WaitTimeout(t) ==
    /\ Waiting(t) /\ call[t].timed
    /\ IF call[t].op = "single" /\ Ready(call[t], t)
         THEN Grant(t, call[t])
         ELSE GiveUp(t, WAIT_TIMEOUT)

-----------------------------------------------------------------------------
(* Condition variables: count is the wake generation.                       *)

\* Mutant of CvWake: the generation moves on, and nobody is told.
CvWakeSilent(t, cv) ==
    /\ Idle(t) /\ IsA(cv, "cv")
    /\ objs[cv].count < MaxCount
    /\ objs' = [objs EXCEPT ![cv].count = @ + 1]
    /\ UNCHANGED <<call, parked, waitq, ret>>

CvWake(t, cv) ==
    /\ Idle(t) /\ IsA(cv, "cv")
    /\ objs[cv].count < MaxCount
    /\ objs' = [objs EXCEPT ![cv].count = @ + 1]
    /\ Broadcast
    /\ UNCHANGED <<call, waitq, ret>>

\* The mutex is given up whoever owns it, and everyone is woken to see that.
\* With a zero timeout the loop ends at once and the mutex, free since the
\* line before, is taken back under the same hold of g_lock.
CvSleep(t, cv, m) ==
    /\ Idle(t)
    /\ IsA(cv, "cv") /\ IsA(m, "mutex")
    /\ HeldOnly => objs[m].owner = t
    /\ LET saved == IF objs[m].rec > 0 THEN objs[m].rec ELSE 1
       IN \/ /\ "poll" \in Modes
             /\ objs' = [objs EXCEPT ![m] = Owned(@, t, saved)]
             /\ Broadcast
             /\ Return(t, WAIT_TIMEOUT)
          \/ \E mode \in Modes \ {"poll"} :
             /\ objs' = [objs EXCEPT ![m] = Owned(@, NoTid, 0)]
             /\ call' = [call EXCEPT ![t] =
                           [op |-> "cv", cv |-> cv, m |-> m,
                            gen |-> objs[cv].count, saved |-> saved,
                            timed |-> mode = "timed"]]
             /\ parked' = {t}
             /\ UNCHANGED <<waitq, ret>>

CvSleepFails(t, cv, m) ==
    /\ Idle(t)
    /\ ~IsA(cv, "cv") \/ ~IsA(m, "mutex")
    /\ GiveUp(t, WAIT_FAILED)

\* Mutant of Relock: the recursion depth is not restored.
RelockShallow(t, m, saved, rv) ==
    \/ /\ ~IsA(m, "mutex")
       /\ GiveUp(t, rv)
    \/ /\ IsA(m, "mutex") /\ objs[m].owner \in {NoTid, t}
       /\ objs' = [objs EXCEPT ![m] = Owned(@, t, 1)]
       /\ parked' = parked \ {t}
       /\ Return(t, rv)
    \/ /\ IsA(m, "mutex") /\ objs[m].owner \notin {NoTid, t}
       /\ call' = [call EXCEPT ![t] = [op |-> "relock", m |-> m,
                                       saved |-> saved, rv |-> rv]]
       /\ parked' = parked \cup {t}
       /\ UNCHANGED <<objs, waitq, ret>>

\* The end of wg_sync_cv_sleep: the mutex is taken back before the return.
Relock(t, m, saved, rv) ==
    \/ /\ ~IsA(m, "mutex")
       /\ GiveUp(t, rv)
    \/ /\ IsA(m, "mutex") /\ objs[m].owner \in {NoTid, t}
       /\ objs' = [objs EXCEPT ![m] = Owned(@, t, saved)]
       /\ parked' = parked \ {t}
       /\ Return(t, rv)
    \/ /\ IsA(m, "mutex") /\ objs[m].owner \notin {NoTid, t}
       /\ call' = [call EXCEPT ![t] = [op |-> "relock", m |-> m,
                                       saved |-> saved, rv |-> rv]]
       /\ parked' = parked \cup {t}
       /\ UNCHANGED <<objs, waitq, ret>>

CvRecheck(t) ==
    /\ Asleep(t) /\ t \notin parked
    /\ LET c == call[t]
       IN \/ /\ ~Live(c.cv)
             /\ Relock(t, c.m, c.saved, WAIT_FAILED)
          \/ /\ Live(c.cv) /\ objs[c.cv].count # c.gen
             /\ Relock(t, c.m, c.saved, WAIT_OBJECT_0)
          \/ /\ Live(c.cv) /\ objs[c.cv].count = c.gen
             /\ parked' = parked \cup {t}
             /\ UNCHANGED <<objs, call, waitq, ret>>

CvTimeout(t) ==
    /\ Asleep(t) /\ call[t].timed
    /\ LET c == call[t]
       IN Relock(t, c.m, c.saved, IF objs[c.cv].count # c.gen
                                    THEN WAIT_OBJECT_0 ELSE WAIT_TIMEOUT)

\* The inner loop finds the slot again but not its type.
RelockRecheck(t) ==
    /\ Relocking(t) /\ t \notin parked
    /\ LET c == call[t]
       IN \/ /\ ~Live(c.m)
             /\ GiveUp(t, c.rv)
          \/ /\ Live(c.m) /\ objs[c.m].owner \in {NoTid, t}
             /\ objs' = [objs EXCEPT ![c.m] = Owned(@, t, c.saved)]
             /\ UNCHANGED parked
             /\ Return(t, c.rv)
          \/ /\ Live(c.m) /\ objs[c.m].owner \notin {NoTid, t}
             /\ parked' = parked \cup {t}
             /\ UNCHANGED <<objs, call, waitq, ret>>

-----------------------------------------------------------------------------
(* The deadlock breakers.                                                   *)

Kickable(h, manualToo) ==
    IsA(h, "event") /\ ~objs[h].signalled /\ (manualToo \/ ~objs[h].manual)

Signalled(H) == [h \in Handle |-> IF h \in H THEN [objs[h] EXCEPT !.signalled = TRUE]
                                             ELSE objs[h]]

\* wg_sync_kick_tid: the event that thread p is recorded as waiting on.
KickTid(t) ==
    /\ Idle(t) /\ "tid" \in Kicks
    /\ \E p \in Tid : /\ waitq[p] # NoHandle
                      /\ Kickable(waitq[p], FALSE)
                      /\ objs' = Signalled({waitq[p]})
    /\ Broadcast
    /\ UNCHANGED <<call, waitq, ret>>

\* wg_sync_kick_workers, called by the watchdog.
KickWorkers ==
    LET who == {p \in Tid : waitq[p] # NoHandle /\ ("all" \in Kicks \/ p # MainTid)}
        events == {waitq[p] : p \in {q \in who : Kickable(waitq[q], "manual" \in Kicks)}}
        cvs == IF "cv" \in Kicks THEN {h \in Handle : IsA(h, "cv")} ELSE {}
    IN /\ "workers" \in Kicks
       /\ events \cup cvs # {}
       /\ \A h \in cvs : objs[h].count < MaxCount
       /\ objs' = [h \in Handle |->
                     IF h \in cvs THEN [objs[h] EXCEPT !.count = @ + 1]
                     ELSE Signalled(events)[h]]
       /\ Broadcast
       /\ UNCHANGED <<call, waitq, ret>>

-----------------------------------------------------------------------------
Init ==
    /\ objs = [h \in Handle |-> FreeObj]
    /\ call = [t \in Tid |-> NoCall]
    /\ parked = {}
    /\ waitq = [t \in Tid |-> NoHandle]
    /\ ret = [t \in Tid |-> WAIT_OBJECT_0]

CreateStep(t) ==
    CreateEvent(t) \/ CreateMutex(t) \/ CreateSemaphore(t)
      \/ CreateThreadObj(t) \/ CreateCv(t)

SignalStep(t) ==
    \/ \E h \in Handle : \/ SetEvent(t, h) \/ ResetEvent(t, h) \/ PulseEvent(t, h)
                         \/ ReleaseMutex(t, h) \/ ReleaseSemaphore(t, h)
                         \/ ThreadExit(t, h) \/ CvWake(t, h) \/ Close(t, h)
    \/ KickTid(t)

WaitStep(t) ==
    \/ WaitSingle(t) \/ WaitMultiple(t) \/ WaitRecheck(t) \/ WaitTimeout(t)
    \/ \E cv, m \in Handle : CvSleep(t, cv, m) \/ CvSleepFails(t, cv, m)
    \/ CvRecheck(t) \/ CvTimeout(t) \/ RelockRecheck(t)

Next ==
    \/ \E t \in Tid : CreateStep(t) \/ SignalStep(t) \/ WaitStep(t)
    \/ KickWorkers

\* A woken thread gets g_lock, which nobody holds for long; a finite timeout
\* elapses.  Nothing makes a thread issue a call.
Fairness ==
    \A t \in Tid : /\ WF_vars(WaitRecheck(t)) /\ WF_vars(WaitTimeout(t))
                   /\ WF_vars(CvRecheck(t)) /\ WF_vars(CvTimeout(t))
                   /\ WF_vars(RelockRecheck(t))

Spec == Init /\ [][Next]_vars

FairSpec == Spec /\ Fairness

-----------------------------------------------------------------------------
(* Properties.                                                              *)

\* Every variable has its type: an object's fields are in range, and a blocked
\* call is one of the three kinds of wait.
TypeOK ==
    /\ objs \in [Handle -> Object]
    /\ call \in [Tid -> Calls]
    /\ parked \subseteq Tid
    /\ waitq \in [Tid -> Handle \cup {NoHandle}]
    /\ ret \in [Tid -> Int]

\* The next turn of t's loop would leave it.
CouldProceed(t) ==
    \/ Waiting(t) /\ (~AllLive(call[t]) \/ Ready(call[t], t))
    \/ Asleep(t) /\ (~Live(call[t].cv) \/ objs[call[t].cv].count # call[t].gen)
    \/ Relocking(t) /\ (~Live(call[t].m) \/ objs[call[t].m].owner \in {NoTid, t})

\* No lost wakeup on an object: a thread left in pthread_cond_wait by a wait,
\* or by the reacquisition of a sleeper's mutex, has nothing to wake for.  Every
\* function that can make some wait succeed, or fail because a handle goes away,
\* must broadcast; one path without it parks a guest thread forever.
NoLostWait ==
    \A t \in parked : ~Idle(t) /\ (~Asleep(t) => ~CouldProceed(t))

\* No lost wakeup on a condition variable: a parked sleeper has not been woken.
NoLostSleep ==
    \A t \in parked : Asleep(t) => ~CouldProceed(t)

\* A mutex has an owner exactly while its recursion count is positive, through
\* waits, nested waits, releases and condition-variable sleeps.
MutexConsistent ==
    \A h \in Handle : IsA(h, "mutex") => (objs[h].owner = NoTid <=> objs[h].rec = 0)

\* A semaphore never hands out more units than were released to it, and never
\* holds more than its maximum, whichever waits race for the last unit.
SemaphoreInRange ==
    \A h \in Handle : IsA(h, "sem") => objs[h].count \in 0 .. objs[h].max

\* The probe table that the kicks go by names exactly the threads inside a
\* single wait, with the handle they wait on (while the table has room).
WaitqExact ==
    \A t \in Tid : waitq[t] = IF Waiting(t) /\ call[t].op = "single"
                                THEN call[t].hs[1] ELSE NoHandle

\* What the tables say is what is there: semaphores within their maximum
\* (wg_sync.c:245-258), s_waitq exactly the waiters (wg_sync.c:51-54).
ObjectsExact == SemaphoreInRange /\ WaitqExact

\* Mutual exclusion over time: a mutex never passes straight from one thread to
\* another, and a thread blocked in a wait keeps every mutex it owns, whichever
\* other calls are made on it meanwhile.
OwnerKeepsMutex ==
    [][\A h \in Handle :
         LET o == objs[h]  p == objs'[h]
         IN o.type = "mutex" /\ o.owner # NoTid /\ p.owner # o.owner
              => p.owner = NoTid /\ Idle(o.owner)]_vars

\* wg_sync_cv_sleep comes back holding the mutex, at the depth it had, whether
\* it was woken, timed out or lost its condition variable.
SleeperReturnsOwning ==
    [][\A t \in Tid :
         (Asleep(t) \/ Relocking(t)) /\ call'[t] = NoCall /\ IsA(call[t].m, "mutex")
           => /\ objs'[call[t].m].owner = t
              /\ objs'[call[t].m].rec = call[t].saved]_vars

\* A wait whose objects stay signalled returns: the broadcast reaches it and
\* its recheck succeeds.
SatisfiedWaitReturns ==
    \A t \in Tid : ~<>[](Waiting(t) /\ Ready(call[t], t))

\* A sleeper that was woken, and whose mutex then stays free, returns.
WokenSleeperReturns ==
    \A t \in Tid : ~<>[](/\ Asleep(t) \/ Relocking(t)
                         /\ Asleep(t) => objs[call[t].cv].count # call[t].gen
                         /\ objs[call[t].m].owner = NoTid)

\* A wait with a finite timeout returns, whatever the other threads do.
TimedWaitReturns ==
    \A t \in Tid : Waiting(t) /\ call[t].timed ~> ~Waiting(t)

\* Waits end (wg_sync.c:300-433): satisfied ones, woken sleepers, those with a timeout.
WaitsReturn == SatisfiedWaitReturns /\ WokenSleeperReturns /\ TimedWaitReturns
=============================================================================
