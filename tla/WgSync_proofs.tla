--------------------------- MODULE WgSync_proofs ---------------------------
(* Theorems about the monitor of wg_sync.c and its objects, for every set of  *)
(* threads and handles: no wait is lost; a mutex's owner and depth agree, and *)
(* it does not change hands while it is held; a sleeper on a condition        *)
(* variable is woken and comes back in its mutex; semaphores and the probe    *)
(* table are exact; and every step is one of the abstract objects of          *)
(* Win32Objects, or none.                                                     *)
EXTENDS WgSyncRefinement, FiniteSetTheorems, WellFoundedInduction, TLAPS

USE DEF NoTid, NoHandle, WAIT_OBJECT_0, WAIT_TIMEOUT, WAIT_FAILED

-----------------------------------------------------------------------------
(* The calls that block.                                                     *)

\* A wait-any call that is satisfied has a first satisfied object.
LEMMA FirstHitExists ==
    ASSUME NEW t \in Tid, NEW w \in WaitCall,
           \E i \in DOMAIN w.hs : Satisfied(objs[w.hs[i]], t)
    PROVE  /\ FirstHit(w, t) \in DOMAIN w.hs
           /\ Satisfied(objs[w.hs[FirstHit(w, t)]], t)
           /\ \A j \in DOMAIN w.hs :
                Satisfied(objs[w.hs[j]], t) => FirstHit(w, t) <= j
<1> DEFINE H == {i \in DOMAIN w.hs : Satisfied(objs[w.hs[i]], t)}
<1> DEFINE Less == {ss \in Nat \X Nat : ss[1] < ss[2]}
<1>1. H # {} /\ H \subseteq Nat
  BY DEF WaitCall
<1>2. OpToRel(<, Nat) = Less
  BY Zenon DEF OpToRel
<1>3. IsWellFoundedOn(Less, Nat)
  BY <1>2, NatLessThanWellFounded, Zenon
<1>4. PICK i \in H : \A j \in H : ~(<<j, i>> \in Less)
  <2> HIDE DEF Less, H
  <2> QED
    BY <1>1, <1>3, WFMin
<1>5. \A j \in H : i <= j
  <2> TAKE j \in H
  <2> SUFFICES ASSUME j < i PROVE FALSE
    BY <1>1
  <2> <<j, i>> \in Less
    BY <1>1
  <2> QED
    BY <1>4
<1>6. QED
  BY <1>5 DEF FirstHit

\* Setting owner and depth leaves the rest of an object alone.
LEMMA OwnedObject ==
    ASSUME NEW o \in Object, NEW t \in Tid \cup {NoTid}, NEW n \in Nat
    PROVE  /\ Owned(o, t, n) \in Object
           /\ Owned(o, t, n).owner = t
           /\ Owned(o, t, n).rec = n
           /\ Owned(o, t, n).type = o.type
           /\ Owned(o, t, n).signalled = o.signalled
           /\ Owned(o, t, n).exited = o.exited
           /\ Owned(o, t, n).count = o.count
           /\ Owned(o, t, n).max = o.max
BY DEF Owned, Object

\* Single-field updates stay objects.
LEMMA ObjectUpdates ==
    ASSUME NEW o \in Object
    PROVE  /\ \A b \in BOOLEAN : [o EXCEPT !.signalled = b] \in Object
           /\ \A b \in BOOLEAN : [o EXCEPT !.exited = b] \in Object
           /\ \A n \in Int : [o EXCEPT !.count = n] \in Object
           /\ \A n \in Nat : [o EXCEPT !.rec = n] \in Object
           /\ [o EXCEPT !.type = "free"] \in Object
BY DEF Object

\* What a wait does to an object it takes: it stays what it is, a mutex gets the
\* caller as its owner one level deeper, and nothing becomes satisfied by it.
LEMMA AcquiredObject ==
    ASSUME NEW o \in Object, NEW t \in Tid, Satisfied(o, t)
    PROVE  /\ Acquired(o, t) \in Object
           /\ Acquired(o, t).type = o.type
           /\ Acquired(o, t).signalled => o.signalled
           /\ Acquired(o, t).exited = o.exited
           /\ Acquired(o, t).max = o.max
           /\ o.type = "mutex" => /\ Acquired(o, t).owner = t
                                  /\ Acquired(o, t).rec = o.rec + 1
                                  /\ o.owner \in {NoTid, t}
           /\ o.type # "mutex" => /\ Acquired(o, t).owner = o.owner
                                  /\ Acquired(o, t).rec = o.rec
           /\ o.type = "sem" => /\ o.count > 0
                                /\ Acquired(o, t).count = o.count - 1
           /\ o.type # "sem" => Acquired(o, t).count = o.count
<1>1. CASE o.type = "event"
  BY <1>1 DEF Acquired, Object, Satisfied
<1>2. CASE o.type = "mutex"
  <2>1. Acquired(o, t) = Owned(o, t, o.rec + 1)
    BY <1>2 DEF Acquired
  <2>2. o.rec + 1 \in Nat
    BY DEF Object
  <2>3. QED
    BY <1>2, <2>1, <2>2, OwnedObject DEF Satisfied
<1>3. CASE o.type = "sem"
  <2>1. Acquired(o, t) = [o EXCEPT !.count = @ - 1]
    BY <1>3 DEF Acquired
  <2>2. QED
    BY <1>3, <2>1 DEF Object, Satisfied
<1>4. CASE o.type = "thread"
  BY <1>4 DEF Acquired, Object, Satisfied
<1>5. QED
  BY <1>1, <1>2, <1>3, <1>4 DEF Satisfied

\* The objects after a granted wait: each one is untouched, or was satisfied and
\* is acquired.
LEMMA GrantEffect ==
    ASSUME TypeOK, NEW t \in Tid, NEW w \in WaitCall, Ready(w, t), Grant(t, w)
    PROVE  /\ objs' \in [Handle -> Object]
           /\ \A h \in Handle : \/ objs'[h] = objs[h]
                                \/ /\ Satisfied(objs[h], t)
                                   /\ objs'[h] = Acquired(objs[h], t)
           /\ ret' \in [Tid -> Int]
<1>1. ~w.all => /\ FirstHit(w, t) \in DOMAIN w.hs
                /\ Satisfied(objs[w.hs[FirstHit(w, t)]], t)
  BY FirstHitExists DEF Ready
<1>2. \A h \in Taken(w, t) : h \in Handle /\ Satisfied(objs[h], t)
  BY <1>1 DEF Taken, Ready, WaitCall
<1>3. \A h \in Handle : \/ objs'[h] = objs[h]
                        \/ /\ Satisfied(objs[h], t)
                           /\ objs'[h] = Acquired(objs[h], t)
  BY <1>2 DEF Grant
<1>4. objs' \in [Handle -> Object]
  <2>1. \A h \in Taken(w, t) : Acquired(objs[h], t) \in Object
    BY <1>2, AcquiredObject DEF TypeOK
  <2>2. QED
    BY <2>1 DEF Grant, TypeOK
<1>5. ret' \in [Tid -> Int]
  <2>1. ~w.all => FirstHit(w, t) \in Nat
    BY <1>1 DEF WaitCall
  <2>2. QED
    BY <2>1 DEF Grant, Return, TypeOK
<1>6. QED
  BY <1>3, <1>4, <1>5

-----------------------------------------------------------------------------
(* Type correctness.                                                         *)

\* A thread that returns leaves no call behind.
LEMMA ReturnType ==
    ASSUME TypeOK, NEW t \in Tid, NEW rv \in Int, Return(t, rv)
    PROVE  /\ call' \in [Tid -> Calls]
           /\ waitq' \in [Tid -> Handle \cup {NoHandle}]
           /\ ret' \in [Tid -> Int]
BY DEF TypeOK, Return, Calls

\* One turn of a wait loop keeps the types.
LEMMA TurnType ==
    ASSUME TypeOK, NEW t \in Tid, NEW w \in WaitCall, NEW mode,
           w.op = "single" => Len(w.hs) = 1, Turn(t, w, mode)
    PROVE  TypeOK'
<1>1. CASE GiveUp(t, WAIT_FAILED) \/ GiveUp(t, WAIT_TIMEOUT)
  <2>1. PICK rv \in Int : GiveUp(t, rv)
    BY <1>1
  <2>2. QED
    BY <2>1, ReturnType DEF GiveUp, TypeOK
<1>2. CASE Ready(w, t) /\ Grant(t, w)
  <2>1. call' \in [Tid -> Calls] /\ waitq' \in [Tid -> Handle \cup {NoHandle}]
    BY <1>2 DEF Grant, Return, TypeOK, Calls
  <2>2. QED
    BY <1>2, <2>1, GrantEffect DEF Grant, TypeOK
<1>3. CASE /\ call' = [call EXCEPT ![t] = w]
           /\ parked' = parked \cup {t}
           /\ waitq' = IF w.op = "single" /\ Idle(t) THEN WqSet(t, w.hs[1]) ELSE waitq
           /\ UNCHANGED <<objs, ret>>
  <2>1. w.op = "single" => w.hs[1] \in Handle
    BY DEF WaitCall
  <2>2. waitq' \in [Tid -> Handle \cup {NoHandle}]
    BY <1>3, <2>1 DEF WqSet, TypeOK
  <2>3. QED
    BY <1>3, <2>2 DEF TypeOK, Calls
<1>4. QED
  BY <1>1, <1>2, <1>3 DEF Turn

\* The return path of a condition-variable sleep keeps the types.
LEMMA RelockType ==
    ASSUME TypeOK, NEW t \in Tid, NEW m \in Handle, NEW saved \in Nat,
           NEW rv \in Int, Relock(t, m, saved, rv)
    PROVE  TypeOK'
<1>1. CASE GiveUp(t, rv)
  BY <1>1, ReturnType DEF GiveUp, TypeOK
<1>2. CASE /\ objs' = [objs EXCEPT ![m] = Owned(@, t, saved)]
           /\ parked' = parked \ {t}
           /\ Return(t, rv)
  <2>1. objs' \in [Handle -> Object]
    BY <1>2, OwnedObject DEF TypeOK
  <2>2. QED
    BY <1>2, <2>1, ReturnType DEF TypeOK
<1>3. CASE /\ call' = [call EXCEPT ![t] = [op |-> "relock", m |-> m,
                                           saved |-> saved, rv |-> rv]]
           /\ parked' = parked \cup {t}
           /\ UNCHANGED <<objs, waitq, ret>>
  <2>1. [op |-> "relock", m |-> m, saved |-> saved, rv |-> rv] \in Calls
    BY DEF Calls, RelockCall
  <2>2. QED
    BY <1>3, <2>1 DEF TypeOK
<1>4. QED
  BY <1>1, <1>2, <1>3 DEF Relock

\* The call of a thread inside a wait is the record its operation names.
LEMMA CallKinds ==
    ASSUME TypeOK, NEW t \in Tid
    PROVE  /\ Waiting(t) => call[t] \in WaitCall
           /\ Asleep(t) => call[t] \in CvCall
           /\ Relocking(t) => call[t] \in RelockCall
BY DEF TypeOK, Calls, Waiting, Asleep, Relocking, NoCall, WaitCall, CvCall, RelockCall

\* Creation fills a slot with a well-formed object.
LEMMA CreateType ==
    ASSUME TypeOK, NEW t \in Tid, CreateStep(t)
    PROVE  /\ TypeOK'
           /\ \E h \in Handle, o \in Object :
                ~Live(h) /\ objs' = [objs EXCEPT ![h] = o]
           /\ UNCHANGED <<call, parked, waitq, ret>>
<1> DEFINE Goal == /\ TypeOK'
                   /\ \E h \in Handle, o \in Object :
                        ~Live(h) /\ objs' = [objs EXCEPT ![h] = o]
                   /\ UNCHANGED <<call, parked, waitq, ret>>
<1>1. ASSUME NEW kind, NEW o \in Object, Create(kind, o) PROVE Goal
  BY <1>1 DEF Create, FreeSlot, TypeOK
<1>2. FreeObj \in Object
  BY DEF FreeObj, Object, Kind
<1>0. SUFFICES Goal
  OBVIOUS
<1> HIDE DEF Goal
<1>3. CASE CreateEvent(t)
  <2>1. PICK manual \in BOOLEAN, initial \in BOOLEAN :
               Create("event", [FreeObj EXCEPT !.type = "event", !.manual = manual,
                                               !.signalled = initial])
    BY <1>3 DEF CreateEvent
  <2>2. [FreeObj EXCEPT !.type = "event", !.manual = manual,
                        !.signalled = initial] \in Object
    BY <1>2 DEF Object, Kind
  <2>3. QED
    BY <1>1, <2>1, <2>2
<1>4. CASE CreateMutex(t)
  <2>1. PICK owned \in BOOLEAN :
               Create("mutex", [FreeObj EXCEPT !.type = "mutex",
                                  !.owner = IF owned THEN t ELSE NoTid,
                                  !.rec = IF owned THEN 1 ELSE 0])
    BY <1>4 DEF CreateMutex
  <2>2. [FreeObj EXCEPT !.type = "mutex", !.owner = IF owned THEN t ELSE NoTid,
                        !.rec = IF owned THEN 1 ELSE 0] \in Object
    BY <1>2 DEF Object, Kind
  <2>3. QED
    BY <1>1, <2>1, <2>2
<1>5. CASE CreateSemaphore(t)
  <2>1. PICK max \in 1 .. MaxCount : \E initial \in 0 .. max :
               Create("sem", [FreeObj EXCEPT !.type = "sem", !.count = initial,
                                             !.max = max])
    BY <1>5 DEF CreateSemaphore
  <2>2. PICK initial \in 0 .. max :
               Create("sem", [FreeObj EXCEPT !.type = "sem", !.count = initial,
                                             !.max = max])
    BY <2>1
  <2>3. max \in Int /\ initial \in Int
    BY SyncAssumption
  <2>4. [FreeObj EXCEPT !.type = "sem", !.count = initial, !.max = max] \in Object
    BY <1>2, <2>3 DEF Object, Kind
  <2>5. QED
    BY <1>1, <2>2, <2>4
<1>6. CASE CreateThreadObj(t)
  <2>1. PICK u \in Tid :
               Create("thread", [FreeObj EXCEPT !.type = "thread", !.owner = u])
    BY <1>6 DEF CreateThreadObj
  <2>2. [FreeObj EXCEPT !.type = "thread", !.owner = u] \in Object
    BY <1>2 DEF Object, Kind
  <2>3. QED
    BY <1>1, <2>1, <2>2
<1>7. CASE CreateCv(t)
  <2>1. [FreeObj EXCEPT !.type = "cv"] \in Object
    BY <1>2 DEF Object, Kind
  <2>2. QED
    BY <1>1, <1>7, <2>1 DEF CreateCv
<1>8. QED
  BY <1>3, <1>4, <1>5, <1>6, <1>7 DEF CreateStep

\* The signalling calls, the close and the kicks keep the types, and touch
\* nothing but objects and the parked set.
LEMMA SignalType ==
    ASSUME TypeOK, NEW t \in Tid, SignalStep(t)
    PROVE  TypeOK'
<1>1. ASSUME NEW h \in Handle, SetEvent(t, h) \/ ResetEvent(t, h) \/ PulseEvent(t, h)
      PROVE  TypeOK'
  <2>1. PICK b \in BOOLEAN : objs' = [objs EXCEPT ![h] = [@ EXCEPT !.signalled = b]]
    BY <1>1 DEF SetEvent, ResetEvent, PulseEvent
  <2>2. objs' \in [Handle -> Object]
    <3>1. [objs[h] EXCEPT !.signalled = b] \in Object
      BY ObjectUpdates DEF TypeOK
    <3>2. QED
      BY <2>1, <3>1 DEF TypeOK
  <2>3. QED
    BY <1>1, <2>2 DEF SetEvent, ResetEvent, PulseEvent, Broadcast, TypeOK
<1>2. ASSUME NEW h \in Handle, ReleaseMutex(t, h)
      PROVE  TypeOK'
  <2>1. CASE objs[h].rec = 1
    <3>1. Owned(objs[h], NoTid, 0) \in Object
      BY OwnedObject DEF TypeOK
    <3>2. objs' = [objs EXCEPT ![h] = Owned(objs[h], NoTid, 0)]
      BY <1>2, <2>1 DEF ReleaseMutex
    <3>3. objs' \in [Handle -> Object]
      BY <3>1, <3>2 DEF TypeOK
    <3>4. QED
      BY <1>2, <2>1, <3>3 DEF ReleaseMutex, Broadcast, TypeOK
  <2>2. CASE objs[h].rec # 1
    <3>1. objs[h].rec - 1 \in Nat
      BY <1>2 DEF ReleaseMutex, TypeOK, Object
    <3>2. objs' = [objs EXCEPT ![h] = [@ EXCEPT !.rec = objs[h].rec - 1]]
      BY <1>2, <2>2 DEF ReleaseMutex
    <3>3. objs' \in [Handle -> Object]
      BY <3>1, <3>2, ObjectUpdates DEF TypeOK
    <3>4. QED
      BY <1>2, <2>2, <3>3 DEF ReleaseMutex, TypeOK
  <2>3. QED
    BY <2>1, <2>2
<1>3. ASSUME NEW h \in Handle, ReleaseSemaphore(t, h)
      PROVE  TypeOK'
  <2>1. PICK n \in 1 .. MaxCount :
           objs' = [objs EXCEPT ![h].count =
                      IF objs[h].max > 0 /\ @ + n > objs[h].max
                        THEN objs[h].max ELSE @ + n]
    BY <1>3 DEF ReleaseSemaphore
  <2>2. \A c \in Int : [objs EXCEPT ![h].count = c] \in [Handle -> Object]
    BY DEF TypeOK, Object
  <2>3. objs[h].count + n \in Int /\ objs[h].max \in Int
    BY SyncAssumption DEF TypeOK, Object
  <2>4. objs' \in [Handle -> Object]
    BY <2>1, <2>2, <2>3
  <2>5. QED
    BY <1>3, <2>4 DEF ReleaseSemaphore, Broadcast, TypeOK
<1>4. ASSUME NEW h \in Handle, ThreadExit(t, h) \/ CvWake(t, h) \/ Close(t, h)
      PROVE  TypeOK'
  <2>1. objs[h].count + 1 \in Int
    BY DEF TypeOK, Object
  <2>2. \/ objs' = [objs EXCEPT ![h] = [@ EXCEPT !.exited = TRUE]]
        \/ objs' = [objs EXCEPT ![h] = [@ EXCEPT !.count = objs[h].count + 1]]
        \/ objs' = [objs EXCEPT ![h] = [@ EXCEPT !.type = "free"]]
    BY <1>4 DEF ThreadExit, CvWake, Close
  <2>3. objs' \in [Handle -> Object]
    <3>1. /\ [objs[h] EXCEPT !.exited = TRUE] \in Object
          /\ [objs[h] EXCEPT !.count = objs[h].count + 1] \in Object
          /\ [objs[h] EXCEPT !.type = "free"] \in Object
      BY <2>1, ObjectUpdates DEF TypeOK
    <3>2. QED
      BY <2>2, <3>1 DEF TypeOK
  <2>4. QED
    BY <1>4, <2>3 DEF ThreadExit, CvWake, Close, Broadcast, TypeOK
<1>5. CASE KickTid(t)
  <2>1. \A H : Signalled(H) \in [Handle -> Object]
    BY ObjectUpdates DEF Signalled, TypeOK
  <2>2. QED
    BY <1>5, <2>1 DEF KickTid, Broadcast, TypeOK
<1>6. QED
  BY <1>1, <1>2, <1>3, <1>4, <1>5 DEF SignalStep

\* The waiting calls keep the types.
LEMMA WaitType ==
    ASSUME TypeOK, NEW t \in Tid, WaitStep(t)
    PROVE  TypeOK'
<1>1. CASE WaitSingle(t)
  <2>1. PICK hs \in Requests, mode \in Modes :
          LET w == [op |-> "single", hs |-> hs, all |-> FALSE, timed |-> mode = "timed"]
          IN Len(hs) = 1 /\ Turn(t, w, mode)
    BY <1>1 DEF WaitSingle
  <2>2. [op |-> "single", hs |-> hs, all |-> FALSE, timed |-> mode = "timed"] \in WaitCall
    BY SyncAssumption DEF WaitCall
  <2>3. QED
    BY <2>1, <2>2, TurnType
<1>2. CASE WaitMultiple(t)
  <2>1. PICK hs \in Requests, all \in BOOLEAN, mode \in Modes :
          LET w == [op |-> "multi", hs |-> hs, all |-> all, timed |-> mode = "timed"]
          IN Turn(t, w, mode)
    BY <1>2 DEF WaitMultiple
  <2>2. [op |-> "multi", hs |-> hs, all |-> all, timed |-> mode = "timed"] \in WaitCall
    BY SyncAssumption DEF WaitCall
  <2>3. QED
    BY <2>1, <2>2, TurnType
<1>3. CASE WaitRecheck(t) \/ WaitTimeout(t)
  <2>1. call[t] \in WaitCall
    BY <1>3, CallKinds DEF WaitRecheck, WaitTimeout
  <2>2. CASE Ready(call[t], t) /\ Grant(t, call[t])
    <3>1. call' \in [Tid -> Calls] /\ waitq' \in [Tid -> Handle \cup {NoHandle}]
      BY <2>2 DEF Grant, Return, TypeOK, Calls
    <3>2. QED
      BY <2>1, <2>2, <3>1, GrantEffect DEF Grant, TypeOK
  <2>3. ASSUME NEW rv \in Int, GiveUp(t, rv) PROVE TypeOK'
    BY <2>3, ReturnType DEF GiveUp, TypeOK
  <2>4. CASE /\ call' = [call EXCEPT ![t] = call[t]]
             /\ parked' = parked \cup {t}
             /\ waitq' = waitq
             /\ UNCHANGED <<objs, ret>>
    BY <2>4 DEF TypeOK
  <2>5. QED
    BY <1>3, <2>2, <2>3, <2>4 DEF WaitRecheck, WaitTimeout, Turn, Waiting, Idle
<1>4. ASSUME NEW cv \in Handle, NEW m \in Handle, CvSleep(t, cv, m)
      PROVE  TypeOK'
  <2> DEFINE saved == IF objs[m].rec > 0 THEN objs[m].rec ELSE 1
  <2>1. saved \in Nat /\ objs[cv].count \in Int
    BY DEF TypeOK, Object
  <2>2. CASE /\ objs' = [objs EXCEPT ![m] = Owned(@, t, saved)]
             /\ Broadcast
             /\ Return(t, WAIT_TIMEOUT)
    <3>1. objs' \in [Handle -> Object]
      BY <2>1, <2>2, OwnedObject DEF TypeOK
    <3>2. QED
      BY <2>2, <3>1, ReturnType DEF Broadcast, TypeOK
  <2>3. ASSUME NEW mode \in Modes,
               /\ objs' = [objs EXCEPT ![m] = Owned(@, NoTid, 0)]
               /\ call' = [call EXCEPT ![t] =
                             [op |-> "cv", cv |-> cv, m |-> m,
                              gen |-> objs[cv].count, saved |-> saved,
                              timed |-> mode = "timed"]]
               /\ parked' = {t}
               /\ UNCHANGED <<waitq, ret>>
        PROVE  TypeOK'
    <3>1. objs' \in [Handle -> Object]
      BY <2>3, OwnedObject DEF TypeOK
    <3>2. [op |-> "cv", cv |-> cv, m |-> m, gen |-> objs[cv].count,
           saved |-> saved, timed |-> mode = "timed"] \in Calls
      BY <2>1 DEF Calls, CvCall
    <3>3. QED
      BY <2>3, <3>1, <3>2 DEF TypeOK
  <2>4. QED
    BY <1>4, <2>2, <2>3 DEF CvSleep
<1>5. ASSUME NEW cv \in Handle, NEW m \in Handle, CvSleepFails(t, cv, m)
      PROVE  TypeOK'
  BY <1>5, ReturnType DEF CvSleepFails, GiveUp, TypeOK
<1>6. CASE CvRecheck(t) \/ CvTimeout(t)
  <2>1. call[t] \in CvCall
    BY <1>6, CallKinds DEF CvRecheck, CvTimeout
  <2>2. ASSUME NEW rv \in Int, Relock(t, call[t].m, call[t].saved, rv) PROVE TypeOK'
    BY <2>1, <2>2, RelockType DEF CvCall
  <2>3. QED
    BY <1>6, <2>2 DEF CvRecheck, CvTimeout, TypeOK
<1>7. CASE RelockRecheck(t)
  <2>1. call[t] \in RelockCall
    BY <1>7, CallKinds DEF RelockRecheck
  <2>2. CASE GiveUp(t, call[t].rv)
    BY <2>1, <2>2, ReturnType DEF GiveUp, RelockCall, TypeOK
  <2>3. CASE /\ objs' = [objs EXCEPT ![call[t].m] = Owned(@, t, call[t].saved)]
             /\ UNCHANGED parked
             /\ Return(t, call[t].rv)
    <3>1. call[t].m \in Handle /\ call[t].saved \in Nat /\ call[t].rv \in Int
      BY <2>1 DEF RelockCall
    <3>2. objs' \in [Handle -> Object]
      BY <2>3, <3>1, OwnedObject DEF TypeOK
    <3>3. QED
      BY <2>3, <3>1, <3>2, ReturnType DEF TypeOK
  <2>4. QED
    BY <1>7, <2>2, <2>3 DEF RelockRecheck, TypeOK
<1>8. QED
  BY <1>1, <1>2, <1>3, <1>4, <1>5, <1>6, <1>7 DEF WaitStep

\* The watchdog's kick keeps the types.
LEMMA KickWorkersType ==
    ASSUME TypeOK, KickWorkers
    PROVE  TypeOK'
<1>1. ASSUME NEW h \in Handle PROVE [objs[h] EXCEPT !.count = objs[h].count + 1] \in Object
  <2>1. objs[h] \in Object /\ objs[h].count + 1 \in Int
    BY DEF TypeOK, Object
  <2>2. QED
    BY <2>1, ObjectUpdates
<1>2. ASSUME NEW H, NEW h \in Handle PROVE Signalled(H)[h] \in Object
  <2>1. objs[h] \in Object /\ [objs[h] EXCEPT !.signalled = TRUE] \in Object
    BY ObjectUpdates DEF TypeOK
  <2>2. QED
    BY <2>1 DEF Signalled
<1>3. QED
  BY <1>1, <1>2 DEF KickWorkers, Broadcast, TypeOK

\* TypeOK is an invariant of the monitor: whatever the guest calls, in any order
\* and on any handle, the table and the blocked calls stay well formed.
THEOREM TypeCorrect == Spec => []TypeOK
<1>1. Init => TypeOK
  BY DEF Init, TypeOK, FreeObj, Object, Calls
<1>2. TypeOK /\ [Next]_vars => TypeOK'
  <2>1. ASSUME TypeOK, UNCHANGED vars PROVE TypeOK'
    BY <2>1 DEF TypeOK, vars
  <2>2. ASSUME TypeOK, Next PROVE TypeOK'
    BY <2>2, CreateType, SignalType, WaitType, KickWorkersType DEF Next
  <2>3. QED
    BY <2>1, <2>2
<1>3. QED
  BY <1>1, <1>2, PTL DEF Spec

-----------------------------------------------------------------------------
(* No lost wakeup.                                                           *)

\* Nothing about the object became something u waits for.
Quieter(o, p, u) ==
    /\ p.type = o.type
    /\ Satisfied(p, u) => Satisfied(o, u)
    /\ p.owner \in {NoTid, u} => o.owner \in {NoTid, u}

\* What NoLostWait says of one parked thread.
Stuck(u) == ~Idle(u) /\ (~Asleep(u) => ~CouldProceed(u))

\* A thread that had nothing to wake for has nothing to wake for after a step
\* that leaves its call alone and makes no live object available to it.
LEMMA StillStuck ==
    ASSUME TypeOK, NEW u \in Tid, Stuck(u), call'[u] = call[u],
           \A h \in Handle : Live(h) => Quieter(objs[h], objs'[h], u)
    PROVE  Stuck(u)'
<1>1. CASE Asleep(u)
  BY <1>1 DEF Stuck, Asleep, Idle
<1>2. CASE Waiting(u)
  <2> DEFINE w == call[u]
  <2>1. w \in WaitCall
    BY <1>2, CallKinds
  <2>2. AllLive(w) /\ ~Ready(w, u)
    BY <1>2 DEF Stuck, CouldProceed, Waiting, Asleep
  <2>3. \A i \in DOMAIN w.hs : w.hs[i] \in Handle
    BY <2>1 DEF WaitCall
  <2>4. \A i \in DOMAIN w.hs : /\ Live(w.hs[i])'
                               /\ Satisfied(objs'[w.hs[i]], u) => Satisfied(objs[w.hs[i]], u)
    BY <2>2, <2>3 DEF Quieter, AllLive, Live
  <2>5. AllLive(w)'
    BY <2>4 DEF AllLive
  <2>6. ~Ready(w, u)'
    BY <2>2, <2>4 DEF Ready
  <2>7. QED
    BY <1>2, <2>5, <2>6 DEF Stuck, CouldProceed, Waiting, Asleep, Relocking, Idle
<1>3. CASE Relocking(u)
  <2>1. call[u].m \in Handle
    BY <1>3, CallKinds DEF RelockCall
  <2>2. Live(call[u].m) /\ ~(objs[call[u].m].owner \in {NoTid, u})
    BY <1>3 DEF Stuck, CouldProceed, Asleep, Relocking
  <2>3. Live(call[u].m)' /\ ~(objs'[call[u].m].owner \in {NoTid, u})
    BY <2>1, <2>2 DEF Quieter, Live
  <2>4. QED
    BY <1>3, <2>3 DEF Stuck, CouldProceed, Waiting, Asleep, Relocking, Idle
<1>4. Idle(u) \/ Asleep(u) \/ Waiting(u) \/ Relocking(u)
  BY DEF TypeOK, Calls, Idle, Asleep, Waiting, Relocking, NoCall, WaitCall, CvCall, RelockCall
<1>5. QED
  BY <1>1, <1>2, <1>3, <1>4 DEF Stuck

\* A thread that takes an object keeps it from every other thread.
LEMMA TakenIsQuieter ==
    ASSUME NEW o \in Object, NEW t \in Tid, NEW u \in Tid, u # t, Satisfied(o, t)
    PROVE  Quieter(o, Acquired(o, t), u)
<1>1. t # NoTid
  BY SyncAssumption
<1>2. CASE o.type = "mutex"
  BY <1>1, <1>2, AcquiredObject DEF Quieter, Satisfied
<1>3. CASE o.type # "mutex"
  BY <1>3, AcquiredObject DEF Quieter, Satisfied
<1>4. QED
  BY <1>2, <1>3

\* Giving an object to t, when it was nobody else's, does not help u.
LEMMA OwnedIsQuieter ==
    ASSUME NEW o \in Object, NEW t \in Tid, NEW u \in Tid, u # t, NEW n \in Nat,
           o.owner \in {NoTid, t}
    PROVE  Quieter(o, Owned(o, t, n), u)
<1>1. t # NoTid
  BY SyncAssumption
<1>2. QED
  BY <1>1, OwnedObject DEF Quieter, Satisfied

\* The condition every step meets: a thread parked after it was parked before
\* with the same call and has gained nothing, or is the caller and stuck.
Careful(t) ==
    \A u \in parked' :
        \/ u = t /\ Stuck(t)'
        \/ /\ u \in parked /\ call'[u] = call[u]
           /\ \A h \in Handle : Live(h) => Quieter(objs[h], objs'[h], u)

LEMMA CarefulSuffices ==
    ASSUME TypeOK, NoLostWait, TypeOK', NEW t \in Tid, Careful(t)
    PROVE  NoLostWait'
<1>1. SUFFICES ASSUME NEW u \in parked' PROVE Stuck(u)'
  BY DEF NoLostWait, Stuck
<1>2. CASE u = t /\ Stuck(t)'
  BY <1>2
<1>3. CASE /\ u \in parked /\ call'[u] = call[u]
           /\ \A h \in Handle : Live(h) => Quieter(objs[h], objs'[h], u)
  <2>1. u \in Tid /\ Stuck(u)
    BY <1>3 DEF NoLostWait, Stuck, TypeOK
  <2>2. QED
    BY <1>3, <2>1, StillStuck
<1>4. QED
  BY <1>1, <1>2, <1>3 DEF Careful

LEMMA QuieterSame == ASSUME NEW o, NEW u PROVE Quieter(o, o, u)
BY DEF Quieter

\* A thread that gives up, or takes what it waited for, or parks, is careful.
LEMMA GiveUpCareful ==
    ASSUME TypeOK, NEW t \in Tid, NEW rv, GiveUp(t, rv)
    PROVE  Careful(t)
BY QuieterSame DEF Careful, GiveUp, Return, TypeOK

LEMMA GrantCareful ==
    ASSUME TypeOK, NEW t \in Tid, NEW w \in WaitCall, Ready(w, t), Grant(t, w)
    PROVE  Careful(t)
<1>1. SUFFICES ASSUME NEW u \in parked'
               PROVE  /\ u \in parked /\ call'[u] = call[u]
                      /\ \A h \in Handle : Quieter(objs[h], objs'[h], u)
  BY DEF Careful
<1>2. u \in parked /\ u # t /\ u \in Tid /\ call'[u] = call[u]
  BY <1>1 DEF Grant, Return, TypeOK
<1>3. ASSUME NEW h \in Handle PROVE Quieter(objs[h], objs'[h], u)
  <2>1. \/ objs'[h] = objs[h]
        \/ Satisfied(objs[h], t) /\ objs'[h] = Acquired(objs[h], t)
    BY GrantEffect
  <2>2. objs[h] \in Object
    BY DEF TypeOK
  <2>3. QED
    BY <1>2, <2>1, <2>2, QuieterSame, TakenIsQuieter
<1>4. QED
  BY <1>2, <1>3

LEMMA TurnCareful ==
    ASSUME TypeOK, NEW t \in Tid, NEW w \in WaitCall, NEW mode, Turn(t, w, mode)
    PROVE  Careful(t)
<1>1. CASE GiveUp(t, WAIT_FAILED) \/ GiveUp(t, WAIT_TIMEOUT)
  BY <1>1, GiveUpCareful
<1>2. CASE Ready(w, t) /\ Grant(t, w)
  BY <1>2, GrantCareful
<1>3. CASE /\ AllLive(w) /\ ~Ready(w, t)
           /\ call' = [call EXCEPT ![t] = w]
           /\ parked' = parked \cup {t}
           /\ UNCHANGED <<objs, ret>>
  <2>1. call'[t] = w
    BY <1>3 DEF TypeOK
  <2>2. AllLive(w)' /\ ~Ready(w, t)'
    BY <1>3 DEF AllLive, Ready, Live
  <2>3. Stuck(t)'
    BY <2>1, <2>2 DEF Stuck, CouldProceed, Waiting, Asleep, Relocking, Idle, WaitCall
  <2>4. QED
    BY <1>3, <2>3, QuieterSame DEF Careful, TypeOK
<1>4. QED
  BY <1>1, <1>2, <1>3 DEF Turn

\* Setting the owner of an object that was free or t's own.
LEMMA TakeBackCareful ==
    ASSUME TypeOK, NEW t \in Tid, NEW m \in Handle, NEW saved \in Nat, NEW rv,
           objs[m].owner \in {NoTid, t},
           \A h \in Handle : objs'[h] = IF h = m THEN Owned(objs[h], t, saved)
                                               ELSE objs[h],
           t \notin parked', parked' \subseteq parked, Return(t, rv)
    PROVE  Careful(t)
<1>1. SUFFICES ASSUME NEW u \in parked'
               PROVE  /\ u \in parked /\ call'[u] = call[u]
                      /\ \A h \in Handle : Quieter(objs[h], objs'[h], u)
  BY DEF Careful
<1>2. u \in parked /\ u # t /\ u \in Tid /\ call'[u] = call[u]
  BY <1>1 DEF Return, TypeOK
<1>3. ASSUME NEW h \in Handle PROVE Quieter(objs[h], objs'[h], u)
  <2>1. objs[h] \in Object
    BY DEF TypeOK
  <2>2. QED
    BY <1>2, <2>1, QuieterSame, OwnedIsQuieter
<1>4. QED
  BY <1>2, <1>3

LEMMA RelockCareful ==
    ASSUME TypeOK, NEW t \in Tid, NEW m \in Handle, NEW saved \in Nat, NEW rv,
           Relock(t, m, saved, rv)
    PROVE  Careful(t)
<1>1. CASE GiveUp(t, rv)
  BY <1>1, GiveUpCareful
<1>2. CASE /\ objs[m].owner \in {NoTid, t}
           /\ objs' = [objs EXCEPT ![m] = Owned(@, t, saved)]
           /\ parked' = parked \ {t}
           /\ Return(t, rv)
  <2>1. t \notin parked' /\ parked' \subseteq parked
    BY <1>2
  <2>2. \A h \in Handle : objs'[h] = IF h = m THEN Owned(objs[h], t, saved) ELSE objs[h]
    BY <1>2 DEF TypeOK
  <2>3. QED
    BY <1>2, <2>1, <2>2, TakeBackCareful
<1>3. CASE /\ IsA(m, "mutex") /\ ~(objs[m].owner \in {NoTid, t})
           /\ call' = [call EXCEPT ![t] = [op |-> "relock", m |-> m,
                                           saved |-> saved, rv |-> rv]]
           /\ parked' = parked \cup {t}
           /\ UNCHANGED <<objs, waitq, ret>>
  <2>1. call'[t] = [op |-> "relock", m |-> m, saved |-> saved, rv |-> rv]
    BY <1>3 DEF TypeOK
  <2>2. Stuck(t)'
    BY <1>3, <2>1 DEF Stuck, CouldProceed, Waiting, Asleep, Relocking, Idle, Live, IsA
  <2>3. QED
    BY <1>3, <2>2, QuieterSame DEF Careful, TypeOK
<1>4. QED
  BY <1>1, <1>2, <1>3 DEF Relock

\* After a broadcast only the caller can be parked.
LEMMA BroadcastCareful ==
    ASSUME NEW t \in Tid, Broadcast
    PROVE  Careful(t)
BY DEF Broadcast, Careful

\* A call that blocks nobody and changes objects only for the worse.
LEMMA QuietCareful ==
    ASSUME NEW t \in Tid, UNCHANGED <<call, parked>>,
           \A u \in Tid, h \in Handle : Live(h) => Quieter(objs[h], objs'[h], u),
           parked \subseteq Tid
    PROVE  Careful(t)
BY DEF Careful

LEMMA CreateCareful ==
    ASSUME TypeOK, NEW t \in Tid, CreateStep(t)
    PROVE  Careful(t)
<1>1. PICK g \in Handle, o \in Object : ~Live(g) /\ objs' = [objs EXCEPT ![g] = o]
  BY CreateType
<1>2. UNCHANGED <<call, parked>>
  BY CreateType
<1>3. ASSUME NEW u \in Tid, NEW h \in Handle, Live(h)
      PROVE  Quieter(objs[h], objs'[h], u)
  <2>1. objs'[h] = objs[h]
    BY <1>1, <1>3 DEF TypeOK
  <2>2. QED
    BY <2>1, QuieterSame
<1>4. QED
  BY <1>2, <1>3, QuietCareful DEF TypeOK

LEMMA SignalCareful ==
    ASSUME TypeOK, NEW t \in Tid, SignalStep(t)
    PROVE  Careful(t)
<1>1. CASE Broadcast
  BY <1>1, BroadcastCareful
<1>2. ASSUME NEW h \in Handle, ResetEvent(t, h) PROVE Careful(t)
  <2>1. ASSUME NEW u \in Tid, NEW g \in Handle
        PROVE  Quieter(objs[g], objs'[g], u)
    BY <1>2 DEF ResetEvent, Quieter, Satisfied, TypeOK, Object
  <2>2. QED
    BY <1>2, <2>1, QuietCareful DEF ResetEvent, TypeOK
<1>3. ASSUME NEW h \in Handle, ReleaseMutex(t, h), ~Broadcast PROVE Careful(t)
  <2>1. objs' = [objs EXCEPT ![h].rec = @ - 1] /\ UNCHANGED <<call, parked>>
    BY <1>3 DEF ReleaseMutex
  <2>2. ASSUME NEW u \in Tid, NEW g \in Handle
        PROVE  Quieter(objs[g], objs'[g], u)
    BY <2>1 DEF Quieter, Satisfied, TypeOK, Object
  <2>3. QED
    BY <2>1, <2>2, QuietCareful DEF TypeOK
<1>4. QED
  BY <1>1, <1>2, <1>3
  DEF SignalStep, SetEvent, PulseEvent, ReleaseSemaphore, ThreadExit, CvWake, Close, KickTid

LEMMA WaitCareful ==
    ASSUME TypeOK, NEW t \in Tid, WaitStep(t)
    PROVE  Careful(t)
<1>1. CASE WaitSingle(t)
  <2>1. PICK hs \in Requests, mode \in Modes :
          LET w == [op |-> "single", hs |-> hs, all |-> FALSE, timed |-> mode = "timed"]
          IN Turn(t, w, mode)
    BY <1>1 DEF WaitSingle
  <2>2. [op |-> "single", hs |-> hs, all |-> FALSE, timed |-> mode = "timed"] \in WaitCall
    BY SyncAssumption DEF WaitCall
  <2>3. QED
    BY <2>1, <2>2, TurnCareful
<1>2. CASE WaitMultiple(t)
  <2>1. PICK hs \in Requests, all \in BOOLEAN, mode \in Modes :
          LET w == [op |-> "multi", hs |-> hs, all |-> all, timed |-> mode = "timed"]
          IN Turn(t, w, mode)
    BY <1>2 DEF WaitMultiple
  <2>2. [op |-> "multi", hs |-> hs, all |-> all, timed |-> mode = "timed"] \in WaitCall
    BY SyncAssumption DEF WaitCall
  <2>3. QED
    BY <2>1, <2>2, TurnCareful
<1>3. CASE WaitRecheck(t) \/ WaitTimeout(t)
  <2>1. call[t] \in WaitCall
    BY <1>3, CallKinds DEF WaitRecheck, WaitTimeout
  <2>2. CASE WaitRecheck(t)
    <3>1. Turn(t, call[t], "inf")
      BY <2>2 DEF WaitRecheck
    <3>2. QED
      BY <2>1, <3>1, TurnCareful
  <2>3. CASE Ready(call[t], t) /\ Grant(t, call[t])
    BY <2>1, <2>3, GrantCareful
  <2>4. CASE GiveUp(t, WAIT_TIMEOUT)
    BY <2>4, GiveUpCareful
  <2>5. QED
    BY <1>3, <2>2, <2>3, <2>4 DEF WaitTimeout
<1>4. ASSUME NEW cv \in Handle, NEW m \in Handle, CvSleep(t, cv, m)
      PROVE  Careful(t)
  <2>1. CASE Broadcast
    BY <2>1, BroadcastCareful
  <2>2. CASE ~Broadcast
    <3>1. parked' = {t} /\ Asleep(t)'
      BY <1>4, <2>2 DEF CvSleep, Asleep, TypeOK
    <3>2. Stuck(t)'
      BY <3>1 DEF Stuck, Asleep, Idle
    <3>3. QED
      BY <3>1, <3>2 DEF Careful
  <2>3. QED
    BY <2>1, <2>2
<1>5. ASSUME NEW cv \in Handle, NEW m \in Handle, CvSleepFails(t, cv, m)
      PROVE  Careful(t)
  BY <1>5, GiveUpCareful DEF CvSleepFails
<1>6. CASE CvRecheck(t) \/ CvTimeout(t)
  <2>1. call[t] \in CvCall /\ Asleep(t)
    BY <1>6, CallKinds DEF CvRecheck, CvTimeout
  <2>2. ASSUME NEW rv, Relock(t, call[t].m, call[t].saved, rv) PROVE Careful(t)
    BY <2>1, <2>2, RelockCareful DEF CvCall
  <2>3. CASE parked' = parked \cup {t} /\ UNCHANGED <<objs, call, waitq, ret>>
    <3>1. Stuck(t)'
      BY <2>1, <2>3 DEF Stuck, Asleep, Idle
    <3>2. QED
      BY <2>3, <3>1, QuieterSame DEF Careful
  <2>4. QED
    BY <1>6, <2>2, <2>3 DEF CvRecheck, CvTimeout
<1>7. CASE RelockRecheck(t)
  <2> DEFINE c == call[t]
  <2>1. c \in RelockCall /\ t \notin parked /\ Relocking(t)
    BY <1>7, CallKinds DEF RelockRecheck
  <2>2. CASE GiveUp(t, c.rv)
    BY <2>2, GiveUpCareful
  <2>3. CASE /\ objs[c.m].owner \in {NoTid, t}
             /\ objs' = [objs EXCEPT ![c.m] = Owned(@, t, c.saved)]
             /\ UNCHANGED parked
             /\ Return(t, c.rv)
    <3>1. t \notin parked' /\ parked' \subseteq parked
      BY <2>1, <2>3
    <3>2. c.m \in Handle /\ c.saved \in Nat
      BY <2>1 DEF RelockCall
    <3>3. \A h \in Handle :
            objs'[h] = IF h = c.m THEN Owned(objs[h], t, c.saved) ELSE objs[h]
      BY <2>3, <3>2 DEF TypeOK
    <3>4. QED
      BY <2>3, <3>1, <3>2, <3>3, TakeBackCareful
  <2>4. CASE /\ Live(c.m) /\ ~(objs[c.m].owner \in {NoTid, t})
             /\ parked' = parked \cup {t}
             /\ UNCHANGED <<objs, call, waitq, ret>>
    <3>1. Stuck(t)'
      BY <2>1, <2>4 DEF Stuck, CouldProceed, Waiting, Asleep, Relocking, Idle, Live
    <3>2. QED
      BY <2>4, <3>1, QuieterSame DEF Careful
  <2>5. QED
    BY <1>7, <2>2, <2>3, <2>4 DEF RelockRecheck
<1>8. QED
  BY <1>1, <1>2, <1>3, <1>4, <1>5, <1>6, <1>7 DEF WaitStep

\* No guest thread is left in pthread_cond_wait by a wait that could return or a
\* mutex it could take back: every path of wg_sync.c that makes an object
\* available, or takes a waited handle away, broadcasts.
THEOREM NoWaitIsLost == Spec => []NoLostWait
<1>1. Init => NoLostWait
  BY DEF Init, NoLostWait
<1>2. TypeOK /\ TypeOK' /\ NoLostWait /\ [Next]_vars => NoLostWait'
  <2> SUFFICES ASSUME TypeOK, TypeOK', NoLostWait, [Next]_vars PROVE NoLostWait'
    OBVIOUS
  <2>1. CASE UNCHANGED vars
    BY <2>1 DEF vars, NoLostWait, Idle, Asleep, CouldProceed, Waiting, Relocking,
                AllLive, Ready, Live
  <2>2. ASSUME NEW t \in Tid, CreateStep(t) \/ SignalStep(t) \/ WaitStep(t)
        PROVE  NoLostWait'
    BY <2>2, CreateCareful, SignalCareful, WaitCareful, CarefulSuffices
  <2>3. CASE KickWorkers
    BY <2>3 DEF KickWorkers, Broadcast, NoLostWait
  <2>4. QED
    BY <2>1, <2>2, <2>3 DEF Next
<1>3. QED
  BY <1>1, <1>2, TypeCorrect, PTL DEF Spec


-----------------------------------------------------------------------------
(* What a step does to one mutex.                                            *)

\* Owner and depth of one object agree.
Agree(o) == o.owner = NoTid <=> o.rec = 0

\* A sleeper remembers a depth of at least one, which is what it comes back with.
SavedPositive == \A t \in Tid : (Asleep(t) \/ Relocking(t)) => call[t].saved > 0

\* The ways in which a step by t may change the owner and the depth of an object:
\* it leaves both, gives them to t, takes them from t, or lowers t's depth.
MutexStep(o, p, t) ==
    \/ p.owner = o.owner /\ p.rec = o.rec
    \/ o.owner \in {NoTid, t} /\ p.owner = t /\ p.rec > 0
    \/ o.owner = t /\ Idle(t) /\ p.owner = NoTid /\ p.rec = 0
    \/ o.owner = t /\ p.owner = t /\ p.rec > 0

\* A slot does not become a mutex, and makes a MutexStep.
SlotStep(o, p, t) == p.type \in {o.type, "free"} /\ MutexStep(o, p, t)

\* In every step by t a slot makes a SlotStep, or is filled with an object whose
\* owner and depth agree, or loses its owner or gets t as its owner in a sleep
\* with a mutex that t need not hold.
MutexStepBy(t) ==
    \A h \in Handle :
        \/ SlotStep(objs[h], objs'[h], t)
        \/ ~Live(h) /\ (IsA(h, "mutex")' => Agree(objs'[h]))
        \/ /\ ~HeldOnly
           /\ IsA(h, "mutex")
           /\ \/ objs'[h].owner = NoTid /\ objs'[h].rec = 0
              \/ objs'[h].owner = t /\ objs'[h].rec > 0

\* A mutex that is given up is free at depth 0.
LEMMA FreedObject ==
    ASSUME NEW o \in Object
    PROVE  /\ Owned(o, NoTid, 0).type = o.type
           /\ Owned(o, NoTid, 0).owner = NoTid
           /\ Owned(o, NoTid, 0).rec = 0
BY DEF Owned, Object

LEMMA GrantMutex ==
    ASSUME TypeOK, NEW t \in Tid, NEW w \in WaitCall, Ready(w, t), Grant(t, w)
    PROVE  \A h \in Handle : SlotStep(objs[h], objs'[h], t)
<1> TAKE h \in Handle
<1>1. \/ objs'[h] = objs[h]
      \/ Satisfied(objs[h], t) /\ objs'[h] = Acquired(objs[h], t)
  BY GrantEffect
<1>2. objs[h] \in Object /\ objs[h].rec \in Nat
  BY DEF TypeOK, Object
<1>3. ASSUME Satisfied(objs[h], t) PROVE SlotStep(objs[h], Acquired(objs[h], t), t)
  BY <1>2, <1>3, AcquiredObject DEF SlotStep, MutexStep
<1>4. QED
  BY <1>1, <1>3 DEF SlotStep, MutexStep

LEMMA TurnMutex ==
    ASSUME TypeOK, NEW t \in Tid, NEW w \in WaitCall, NEW mode, Turn(t, w, mode)
    PROVE  \A h \in Handle : SlotStep(objs[h], objs'[h], t)
<1>1. CASE UNCHANGED objs
  BY <1>1 DEF SlotStep, MutexStep
<1>2. CASE Ready(w, t) /\ Grant(t, w)
  BY <1>2, GrantMutex
<1>3. QED
  BY <1>1, <1>2 DEF Turn, GiveUp

\* The mutex goes back to its sleeper only when it is free or the sleeper's own.
LEMMA RelockMutex ==
    ASSUME TypeOK, NEW t \in Tid, NEW m \in Handle, NEW saved \in Nat \ {0}, NEW rv,
           Relock(t, m, saved, rv)
    PROVE  \A h \in Handle : SlotStep(objs[h], objs'[h], t)
<1>1. CASE UNCHANGED objs
  BY <1>1 DEF SlotStep, MutexStep
<1>2. CASE /\ objs[m].owner \in {NoTid, t}
           /\ objs' = [objs EXCEPT ![m] = Owned(@, t, saved)]
  <2> SUFFICES ASSUME NEW h \in Handle PROVE SlotStep(objs[h], objs'[h], t)
    OBVIOUS
  <2>1. objs'[h] = IF h = m THEN Owned(objs[h], t, saved) ELSE objs[h]
    BY <1>2 DEF TypeOK
  <2>2. objs[h] \in Object
    BY DEF TypeOK
  <2>3. QED
    BY <1>2, <2>1, <2>2, OwnedObject DEF SlotStep, MutexStep
<1>3. QED
  BY <1>1, <1>2 DEF Relock, GiveUp

LEMMA CreateMutexStep ==
    ASSUME TypeOK, NEW t \in Tid, CreateStep(t)
    PROVE  MutexStepBy(t)
<1>1. ASSUME NEW kind, NEW o, Create(kind, o), o.type = "mutex" => Agree(o)
      PROVE  MutexStepBy(t)
  <2> SUFFICES ASSUME NEW h \in Handle
               PROVE  \/ SlotStep(objs[h], objs'[h], t)
                      \/ ~Live(h) /\ (IsA(h, "mutex")' => Agree(objs'[h]))
    BY DEF MutexStepBy
  <2>1. PICK g \in Handle : ~Live(g) /\ objs' = [objs EXCEPT ![g] = o]
    BY <1>1 DEF Create, FreeSlot
  <2>2. CASE h = g
    BY <1>1, <2>1, <2>2 DEF IsA, Live, TypeOK
  <2>3. CASE h # g
    BY <2>1, <2>3 DEF SlotStep, MutexStep, TypeOK
  <2>4. QED
    BY <2>2, <2>3
<1>2. FreeObj \in Object
  BY DEF FreeObj, Object, Kind
<1>3. CASE CreateEvent(t)
  <2>1. PICK manual \in BOOLEAN, initial \in BOOLEAN :
               Create("event", [FreeObj EXCEPT !.type = "event", !.manual = manual,
                                               !.signalled = initial])
    BY <1>3 DEF CreateEvent
  <2>2. [FreeObj EXCEPT !.type = "event", !.manual = manual,
                        !.signalled = initial].type = "event"
    BY <1>2 DEF Object
  <2>3. QED
    BY <1>1, <2>1, <2>2
<1>4. CASE CreateMutex(t)
  <2>1. PICK owned \in BOOLEAN :
               Create("mutex", [FreeObj EXCEPT !.type = "mutex",
                                  !.owner = IF owned THEN t ELSE NoTid,
                                  !.rec = IF owned THEN 1 ELSE 0])
    BY <1>4 DEF CreateMutex
  <2>2. t # NoTid
    BY SyncAssumption
  <2>3. Agree([FreeObj EXCEPT !.type = "mutex", !.owner = IF owned THEN t ELSE NoTid,
                              !.rec = IF owned THEN 1 ELSE 0])
    BY <1>2, <2>2 DEF Object, Agree
  <2>4. QED
    BY <1>1, <2>1, <2>3
<1>5. CASE CreateSemaphore(t)
  <2>1. PICK max \in 1 .. MaxCount : \E initial \in 0 .. max :
               Create("sem", [FreeObj EXCEPT !.type = "sem", !.count = initial,
                                             !.max = max])
    BY <1>5 DEF CreateSemaphore
  <2>2. PICK initial \in 0 .. max :
               Create("sem", [FreeObj EXCEPT !.type = "sem", !.count = initial,
                                             !.max = max])
    BY <2>1
  <2>3. [FreeObj EXCEPT !.type = "sem", !.count = initial, !.max = max].type = "sem"
    BY <1>2 DEF Object
  <2>4. QED
    BY <1>1, <2>2, <2>3
<1>6. CASE CreateThreadObj(t)
  <2>1. PICK u \in Tid :
               Create("thread", [FreeObj EXCEPT !.type = "thread", !.owner = u])
    BY <1>6 DEF CreateThreadObj
  <2>2. [FreeObj EXCEPT !.type = "thread", !.owner = u].type = "thread"
    BY <1>2 DEF Object
  <2>3. QED
    BY <1>1, <2>1, <2>2
<1>7. CASE CreateCv(t)
  <2>1. [FreeObj EXCEPT !.type = "cv"].type = "cv"
    BY <1>2 DEF Object
  <2>2. QED
    BY <1>1, <1>7, <2>1 DEF CreateCv
<1>8. QED
  BY <1>3, <1>4, <1>5, <1>6, <1>7 DEF CreateStep

\* A step that touches neither owner, depth nor type, or only clears the type.
LEMMA SameMutex ==
    ASSUME NEW o, NEW p, NEW t, p.owner = o.owner, p.rec = o.rec,
           p.type \in {o.type, "free"}
    PROVE  SlotStep(o, p, t)
BY DEF SlotStep, MutexStep

\* The events, semaphores, thread objects, condition variables and kicks leave
\* owners and depths alone.
LEMMA SignalMutex ==
    ASSUME TypeOK, NEW t \in Tid, SignalStep(t)
    PROVE  MutexStepBy(t)
<1>1. SUFFICES ASSUME NEW h \in Handle PROVE SlotStep(objs[h], objs'[h], t)
  BY DEF MutexStepBy
<1>0. objs[h] \in Object
  BY DEF TypeOK
<1>2. ASSUME NEW g \in Handle, ReleaseMutex(t, g) PROVE SlotStep(objs[h], objs'[h], t)
  <2>1. CASE h # g
    BY <1>2, <2>1, SameMutex DEF ReleaseMutex, TypeOK
  <2>2. CASE h = g /\ objs[h].rec = 1
    <3>1. objs'[h] = Owned(objs[h], NoTid, 0)
      BY <1>2, <2>2 DEF ReleaseMutex, TypeOK
    <3>2. QED
      BY <1>0, <1>2, <2>2, <3>1, FreedObject DEF ReleaseMutex, SlotStep, MutexStep
  <2>3. CASE h = g /\ objs[h].rec # 1
    <3>1. objs'[h] = [objs[h] EXCEPT !.rec = objs[h].rec - 1]
      BY <1>2, <2>3 DEF ReleaseMutex, TypeOK
    <3>2. objs[h].rec \in Nat /\ objs[h].rec > 1 /\ objs[h].owner = t
      BY <1>0, <1>2, <2>3 DEF ReleaseMutex, Object
    <3>3. QED
      BY <1>0, <3>1, <3>2 DEF SlotStep, MutexStep, Object
  <2>4. QED
    BY <2>1, <2>2, <2>3
<1>3. ASSUME NEW g \in Handle,
             SetEvent(t, g) \/ ResetEvent(t, g) \/ PulseEvent(t, g) \/ ThreadExit(t, g)
      PROVE  SlotStep(objs[h], objs'[h], t)
  <2>1. /\ objs'[h].owner = objs[h].owner /\ objs'[h].rec = objs[h].rec
        /\ objs'[h].type = objs[h].type
    BY <1>0, <1>3 DEF SetEvent, ResetEvent, PulseEvent, ThreadExit, TypeOK, Object
  <2>2. QED
    BY <2>1, SameMutex
<1>4. ASSUME NEW g \in Handle, ReleaseSemaphore(t, g) \/ CvWake(t, g)
      PROVE  SlotStep(objs[h], objs'[h], t)
  <2>1. \E c : objs' = [objs EXCEPT ![g] = [objs[g] EXCEPT !.count = c]]
    BY <1>4 DEF ReleaseSemaphore, CvWake
  <2>2. /\ objs'[h].owner = objs[h].owner /\ objs'[h].rec = objs[h].rec
        /\ objs'[h].type = objs[h].type
    BY <1>0, <2>1 DEF TypeOK, Object
  <2>3. QED
    BY <2>2, SameMutex
<1>5. ASSUME NEW g \in Handle, Close(t, g) PROVE SlotStep(objs[h], objs'[h], t)
  <2>1. /\ objs'[h].owner = objs[h].owner /\ objs'[h].rec = objs[h].rec
        /\ objs'[h].type \in {objs[h].type, "free"}
    BY <1>0, <1>5 DEF Close, TypeOK, Object
  <2>2. QED
    BY <2>1, SameMutex
<1>6. CASE KickTid(t)
  <2>1. /\ objs'[h].owner = objs[h].owner /\ objs'[h].rec = objs[h].rec
        /\ objs'[h].type = objs[h].type
    BY <1>0, <1>6 DEF KickTid, Signalled, TypeOK, Object
  <2>2. QED
    BY <2>1, SameMutex
<1>7. QED
  BY <1>2, <1>3, <1>4, <1>5, <1>6 DEF SignalStep

LEMMA WaitMutex ==
    ASSUME TypeOK, SavedPositive, NEW t \in Tid, WaitStep(t)
    PROVE  MutexStepBy(t)
<1>0. (\A h \in Handle : SlotStep(objs[h], objs'[h], t)) => MutexStepBy(t)
  BY DEF MutexStepBy
<1>00. UNCHANGED objs => MutexStepBy(t)
  BY <1>0, SameMutex
<1>1. CASE WaitSingle(t)
  <2>1. PICK hs \in Requests, mode \in Modes :
          LET w == [op |-> "single", hs |-> hs, all |-> FALSE, timed |-> mode = "timed"]
          IN Turn(t, w, mode)
    BY <1>1 DEF WaitSingle
  <2>2. [op |-> "single", hs |-> hs, all |-> FALSE, timed |-> mode = "timed"] \in WaitCall
    BY SyncAssumption DEF WaitCall
  <2>3. QED
    BY <1>0, <2>1, <2>2, TurnMutex
<1>2. CASE WaitMultiple(t)
  <2>1. PICK hs \in Requests, all \in BOOLEAN, mode \in Modes :
          LET w == [op |-> "multi", hs |-> hs, all |-> all, timed |-> mode = "timed"]
          IN Turn(t, w, mode)
    BY <1>2 DEF WaitMultiple
  <2>2. [op |-> "multi", hs |-> hs, all |-> all, timed |-> mode = "timed"] \in WaitCall
    BY SyncAssumption DEF WaitCall
  <2>3. QED
    BY <1>0, <2>1, <2>2, TurnMutex
<1>3. CASE WaitRecheck(t) \/ WaitTimeout(t)
  <2>1. call[t] \in WaitCall
    BY <1>3, CallKinds DEF WaitRecheck, WaitTimeout
  <2>2. CASE WaitRecheck(t)
    <3>1. Turn(t, call[t], "inf")
      BY <2>2 DEF WaitRecheck
    <3>2. QED
      BY <1>0, <2>1, <3>1, TurnMutex
  <2>3. CASE Ready(call[t], t) /\ Grant(t, call[t])
    BY <1>0, <2>1, <2>3, GrantMutex
  <2>4. CASE GiveUp(t, WAIT_TIMEOUT)
    BY <1>00, <2>4 DEF GiveUp
  <2>5. QED
    BY <1>3, <2>2, <2>3, <2>4 DEF WaitTimeout
<1>4. ASSUME NEW cv \in Handle, NEW m \in Handle, CvSleep(t, cv, m)
      PROVE  MutexStepBy(t)
  <2> DEFINE saved == IF objs[m].rec > 0 THEN objs[m].rec ELSE 1
  <2>1. /\ saved \in Nat \ {0} /\ Idle(t) /\ IsA(m, "mutex")
        /\ HeldOnly => objs[m].owner = t
    BY <1>4 DEF CvSleep, TypeOK, Object
  <2>2. \/ objs' = [objs EXCEPT ![m] = Owned(objs[m], t, saved)]
        \/ objs' = [objs EXCEPT ![m] = Owned(objs[m], NoTid, 0)]
    BY <1>4 DEF CvSleep
  <2> HIDE DEF saved
  <2>3. SUFFICES ASSUME NEW h \in Handle
                 PROVE  \/ SlotStep(objs[h], objs'[h], t)
                        \/ /\ ~HeldOnly /\ IsA(h, "mutex")
                           /\ \/ objs'[h].owner = NoTid /\ objs'[h].rec = 0
                              \/ objs'[h].owner = t /\ objs'[h].rec > 0
    BY DEF MutexStepBy
  <2>4. CASE h # m
    BY <2>2, <2>4, SameMutex DEF TypeOK
  <2>5. CASE h = m
    <3>1. objs[m] \in Object
      BY DEF TypeOK
    <3>2. objs'[h] = Owned(objs[m], t, saved) \/ objs'[h] = Owned(objs[m], NoTid, 0)
      BY <2>2, <2>5 DEF TypeOK
    <3>3. /\ Owned(objs[m], t, saved).type = objs[m].type
          /\ Owned(objs[m], t, saved).owner = t
          /\ Owned(objs[m], t, saved).rec = saved
      BY <2>1, <3>1, OwnedObject
    <3>4. /\ Owned(objs[m], NoTid, 0).type = objs[m].type
          /\ Owned(objs[m], NoTid, 0).owner = NoTid
          /\ Owned(objs[m], NoTid, 0).rec = 0
      BY <3>1, FreedObject
    <3>5. saved > 0
      BY <2>1
    <3>6. QED
      BY <2>1, <2>5, <3>2, <3>3, <3>4, <3>5 DEF SlotStep, MutexStep
  <2>6. QED
    BY <2>4, <2>5
<1>5. ASSUME NEW cv \in Handle, NEW m \in Handle, CvSleepFails(t, cv, m)
      PROVE  MutexStepBy(t)
  BY <1>00, <1>5 DEF CvSleepFails, GiveUp
<1>6. CASE CvRecheck(t) \/ CvTimeout(t)
  <2>1. call[t] \in CvCall /\ call[t].saved > 0
    BY <1>6, CallKinds DEF CvRecheck, CvTimeout, SavedPositive
  <2>2. call[t].m \in Handle /\ call[t].saved \in Nat \ {0}
    BY <2>1 DEF CvCall
  <2>3. ASSUME NEW rv, Relock(t, call[t].m, call[t].saved, rv) PROVE MutexStepBy(t)
    BY <1>0, <2>2, <2>3, RelockMutex
  <2>4. QED
    BY <1>00, <1>6, <2>3 DEF CvRecheck, CvTimeout
<1>7. CASE RelockRecheck(t)
  <2> DEFINE c == call[t]
  <2>1. c \in RelockCall /\ c.saved > 0
    BY <1>7, CallKinds DEF RelockRecheck, SavedPositive
  <2>2. c.m \in Handle /\ c.saved \in Nat \ {0}
    BY <2>1 DEF RelockCall
  <2>3. CASE /\ objs[c.m].owner \in {NoTid, t}
             /\ objs' = [objs EXCEPT ![c.m] = Owned(@, t, c.saved)]
    <3>1. ASSUME NEW h \in Handle PROVE SlotStep(objs[h], objs'[h], t)
      <4>1. objs'[h] = IF h = c.m THEN Owned(objs[h], t, c.saved) ELSE objs[h]
        BY <2>2, <2>3 DEF TypeOK
      <4>2. objs[h] \in Object
        BY DEF TypeOK
      <4>3. QED
        BY <2>2, <2>3, <4>1, <4>2, OwnedObject DEF SlotStep, MutexStep
    <3>2. QED
      BY <1>0, <3>1
  <2>4. QED
    BY <1>7, <1>00, <2>3 DEF RelockRecheck, GiveUp
<1>8. QED
  BY <1>1, <1>2, <1>3, <1>4, <1>5, <1>6, <1>7 DEF WaitStep

-----------------------------------------------------------------------------
(* Mutexes: the theorems.                                                    *)

\* A sleep saves a positive depth and hands it on.
LEMMA SavedStep ==
    ASSUME TypeOK, SavedPositive, [Next]_vars
    PROVE  SavedPositive'
<1>1. SUFFICES ASSUME NEW u \in Tid, (Asleep(u) \/ Relocking(u))'
               PROVE  call'[u].saved > 0
  BY DEF SavedPositive
<1>2. CASE call'[u] = call[u]
  BY <1>1, <1>2 DEF SavedPositive, Asleep, Relocking
<1>3. CASE call'[u] # call[u]
  <2>1. PICK t \in Tid : WaitStep(t)
    BY <1>3, CreateType
    DEF Next, vars, SignalStep, KickWorkers, KickTid, SetEvent, ResetEvent, PulseEvent,
        ReleaseMutex, ReleaseSemaphore, ThreadExit, CvWake, Close
  <2>2. ASSUME NEW rv, Return(t, rv) PROVE FALSE
    BY <1>1, <1>3, <2>2 DEF Return, TypeOK, NoCall, Asleep, Relocking
  <2>3. ASSUME NEW w \in WaitCall, call' = [call EXCEPT ![t] = w] PROVE FALSE
    BY <1>1, <1>3, <2>3 DEF TypeOK, WaitCall, Asleep, Relocking
  <2>4. ASSUME NEW w \in WaitCall, NEW mode, Turn(t, w, mode) PROVE FALSE
    BY <2>2, <2>3, <2>4 DEF Turn, GiveUp, Grant
  <2>5. ASSUME NEW m, NEW saved, NEW rv, saved > 0, Relock(t, m, saved, rv)
        PROVE  call'[u].saved > 0
    <3>1. call' = [call EXCEPT ![t] = [op |-> "relock", m |-> m, saved |-> saved, rv |-> rv]]
      BY <2>2, <2>5 DEF Relock, GiveUp
    <3>2. QED
      BY <1>3, <2>5, <3>1 DEF TypeOK
  <2>6. CASE WaitSingle(t) \/ WaitMultiple(t)
    <3>1. PICK w \in WaitCall, mode \in Modes : Turn(t, w, mode)
      BY <2>6, SyncAssumption DEF WaitSingle, WaitMultiple, WaitCall
    <3>2. QED
      BY <2>4, <3>1
  <2>7. CASE WaitRecheck(t) \/ WaitTimeout(t)
    BY <2>2, <2>4, <2>7, CallKinds DEF WaitRecheck, WaitTimeout, GiveUp, Grant
  <2>8. ASSUME NEW cv \in Handle, NEW m \in Handle, CvSleep(t, cv, m)
        PROVE  call'[u].saved > 0
    <3> DEFINE saved == IF objs[m].rec > 0 THEN objs[m].rec ELSE 1
    <3>1. PICK mode \in Modes :
            call' = [call EXCEPT ![t] = [op |-> "cv", cv |-> cv, m |-> m,
                                         gen |-> objs[cv].count, saved |-> saved,
                                         timed |-> mode = "timed"]]
      BY <2>2, <2>8 DEF CvSleep
    <3>2. saved > 0
      BY DEF TypeOK, Object
    <3>3. QED
      BY <1>3, <3>1, <3>2 DEF TypeOK
  <2>9. ASSUME NEW cv \in Handle, NEW m \in Handle, CvSleepFails(t, cv, m)
        PROVE  FALSE
    BY <2>2, <2>9 DEF CvSleepFails, GiveUp
  <2>10. CASE CvRecheck(t) \/ CvTimeout(t)
    BY <1>3, <2>5, <2>10 DEF CvRecheck, CvTimeout, SavedPositive
  <2>11. CASE RelockRecheck(t)
    BY <1>3, <2>2, <2>11 DEF RelockRecheck, GiveUp
  <2>12. QED
    BY <2>1, <2>6, <2>7, <2>8, <2>9, <2>10, <2>11 DEF WaitStep
<1>4. QED
  BY <1>2, <1>3

\* Owner, depth and type are as they were.
SameSlot(o, p) == p.owner = o.owner /\ p.rec = o.rec /\ p.type = o.type

\* Every step of the monitor is one thread's, or the watchdog's.
LEMMA MutexNext ==
    ASSUME TypeOK, SavedPositive, Next
    PROVE  \/ \E t \in Tid : MutexStepBy(t)
           \/ \A h \in Handle : SameSlot(objs[h], objs'[h])
<1>1. CASE KickWorkers
  BY <1>1 DEF KickWorkers, Signalled, TypeOK, Object, SameSlot
<1>2. QED
  BY <1>1, CreateMutexStep, SignalMutex, WaitMutex DEF Next

\* The owner and the depth of a mutex agree, through recursive acquisitions,
\* waits on several objects, releases, condition-variable sleeps and closes.
THEOREM MutexesConsistent == Spec => []MutexConsistent
<1>1. Init => MutexConsistent /\ SavedPositive
  BY DEF Init, MutexConsistent, SavedPositive, IsA, FreeObj, Asleep, Relocking, NoCall
<1>2. TypeOK /\ SavedPositive /\ [Next]_vars => SavedPositive'
  BY SavedStep
<1>3. TypeOK /\ TypeOK' /\ SavedPositive /\ MutexConsistent /\ [Next]_vars => MutexConsistent'
  <2> SUFFICES ASSUME TypeOK, TypeOK', SavedPositive, MutexConsistent, [Next]_vars,
                      NEW h \in Handle, IsA(h, "mutex")'
               PROVE  Agree(objs'[h])
    BY DEF MutexConsistent, Agree
  <2>1. CASE UNCHANGED vars
    BY <2>1 DEF vars, MutexConsistent, Agree, IsA
  <2>2. ASSUME NEW t \in Tid, SlotStep(objs[h], objs'[h], t) PROVE Agree(objs'[h])
    <3>1. IsA(h, "mutex") /\ Agree(objs[h])
      BY <2>2 DEF SlotStep, IsA, MutexConsistent, Agree
    <3>2. t # NoTid
      BY SyncAssumption
    <3>3. QED
      BY <2>2, <3>1, <3>2 DEF SlotStep, MutexStep, Agree
  <2>3. ASSUME NEW t \in Tid, MutexStepBy(t) PROVE Agree(objs'[h])
    <3>1. t # NoTid
      BY SyncAssumption
    <3>2. QED
      BY <2>2, <2>3, <3>1 DEF MutexStepBy, Agree
  <2>4. CASE SameSlot(objs[h], objs'[h])
    BY <2>4 DEF SameSlot, MutexConsistent, Agree, IsA
  <2>5. QED
    BY <2>1, <2>3, <2>4, MutexNext
<1>4. QED
  BY <1>1, <1>2, <1>3, TypeCorrect, PTL DEF Spec

\* In a program that sleeps only with mutexes it holds, a mutex never passes
\* from one owner to another without being free in between, and nobody takes it
\* from a thread that is blocked.
THEOREM OwnersKeepMutexes == ASSUME HeldOnly PROVE Spec => OwnerKeepsMutex
<1>1. Init => SavedPositive
  BY DEF Init, SavedPositive, Asleep, Relocking, NoCall
<1>2. TypeOK /\ SavedPositive /\ [Next]_vars => SavedPositive'
  BY SavedStep
<1> DEFINE Keep(h) == LET o == objs[h]  p == objs'[h]
                      IN o.type = "mutex" /\ o.owner # NoTid /\ p.owner # o.owner
                           => p.owner = NoTid /\ Idle(o.owner)
<1>3. TypeOK /\ SavedPositive /\ [Next]_vars => [\A h \in Handle : Keep(h)]_vars
  <2> SUFFICES ASSUME TypeOK, SavedPositive, Next, NEW h \in Handle
               PROVE  Keep(h)
    OBVIOUS
  <2>1. ASSUME NEW t \in Tid, MutexStepBy(t) PROVE Keep(h)
    BY <2>1 DEF MutexStepBy, SlotStep, MutexStep, Live
  <2>2. CASE SameSlot(objs[h], objs'[h])
    BY <2>2 DEF SameSlot
  <2>3. QED
    BY <2>1, <2>2, MutexNext
<1>4. QED
  BY <1>1, <1>2, <1>3, TypeCorrect, PTL DEF Spec, OwnerKeepsMutex

-----------------------------------------------------------------------------
(* What a step does to the count and the type of a slot.                     *)

\* A semaphore holds between no unit and its maximum, which is positive.
InRange(o) == o.type = "sem" => /\ o.count >= 0 /\ o.count <= o.max
                                /\ o.max > 0

\* A step that is not heard by the parked threads changes the count of no object
\* but a semaphore, a wake generation only grows, and a semaphore stays in its range.
SameKind(o, p) ==
    /\ p.type = o.type
    /\ p.count = o.count \/ parked' = {} \/ o.type = "sem"
    /\ p.count = o.count \/ (o.type = "cv" /\ p.count > o.count) \/ o.type = "sem"
    /\ InRange(o) => InRange(p)

\* A slot is filled when it is free, is emptied with a broadcast, or goes on
\* being what it is.
SlotFate(h) ==
    \/ ~Live(h) /\ objs'[h].type \in Kinds /\ InRange(objs'[h])
    \/ objs[h].type \in Closable /\ objs'[h].type = "free" /\ parked' = {}
    \/ SameKind(objs[h], objs'[h])

SlotFates == \A h \in Handle : SlotFate(h)

LEMMA SameFates ==
    ASSUME UNCHANGED objs PROVE SlotFates
BY DEF SlotFates, SlotFate, SameKind

\* An object that keeps type, count and maximum.
LEMMA KeptKind ==
    ASSUME NEW o, NEW p, p.type = o.type, p.count = o.count, p.max = o.max
    PROVE  SameKind(o, p)
BY DEF SameKind, InRange

LEMMA CreateFates ==
    ASSUME TypeOK, NEW t \in Tid, CreateStep(t)
    PROVE  SlotFates
<1>1. ASSUME NEW kind, NEW o, Create(kind, o), o.type = kind, InRange(o)
      PROVE  SlotFates
  <2>1. kind \in Kinds
    BY <1>1 DEF Create
  <2>2. PICK g \in Handle : ~Live(g) /\ objs' = [objs EXCEPT ![g] = o]
    BY <1>1 DEF Create, FreeSlot
  <2>3. SUFFICES ASSUME NEW h \in Handle PROVE SlotFate(h)
    BY DEF SlotFates
  <2>4. CASE h = g
    <3>1. objs'[h] = o
      BY <2>2, <2>4 DEF TypeOK
    <3>2. QED
      BY <1>1, <2>1, <2>2, <2>4, <3>1 DEF SlotFate
  <2>5. CASE h # g
    <3>1. objs'[h] = objs[h]
      BY <2>2, <2>5 DEF TypeOK
    <3>2. QED
      BY <3>1, KeptKind DEF SlotFate
  <2>6. QED
    BY <2>4, <2>5
<1>2. FreeObj \in Object
  BY DEF FreeObj, Object, Kind
<1>3. CASE CreateEvent(t)
  <2>1. PICK manual \in BOOLEAN, initial \in BOOLEAN :
               Create("event", [FreeObj EXCEPT !.type = "event", !.manual = manual,
                                               !.signalled = initial])
    BY <1>3 DEF CreateEvent
  <2>2. [FreeObj EXCEPT !.type = "event", !.manual = manual,
                        !.signalled = initial].type = "event"
    BY <1>2 DEF Object
  <2>3. InRange([FreeObj EXCEPT !.type = "event", !.manual = manual,
                                !.signalled = initial])
    BY <2>2 DEF InRange
  <2>4. QED
    BY <1>1, <2>1, <2>2, <2>3
<1>4. CASE CreateMutex(t)
  <2>1. PICK owned \in BOOLEAN :
               Create("mutex", [FreeObj EXCEPT !.type = "mutex",
                                  !.owner = IF owned THEN t ELSE NoTid,
                                  !.rec = IF owned THEN 1 ELSE 0])
    BY <1>4 DEF CreateMutex
  <2>2. [FreeObj EXCEPT !.type = "mutex", !.owner = IF owned THEN t ELSE NoTid,
                        !.rec = IF owned THEN 1 ELSE 0].type = "mutex"
    BY <1>2 DEF Object
  <2>3. InRange([FreeObj EXCEPT !.type = "mutex",
                    !.owner = IF owned THEN t ELSE NoTid,
                    !.rec = IF owned THEN 1 ELSE 0])
    BY <2>2 DEF InRange
  <2>4. QED
    BY <1>1, <2>1, <2>2, <2>3
<1>5. CASE CreateSemaphore(t)
  <2>1. PICK max \in 1 .. MaxCount : \E initial \in 0 .. max :
               Create("sem", [FreeObj EXCEPT !.type = "sem", !.count = initial,
                                             !.max = max])
    BY <1>5 DEF CreateSemaphore
  <2>2. PICK initial \in 0 .. max :
               Create("sem", [FreeObj EXCEPT !.type = "sem", !.count = initial,
                                             !.max = max])
    BY <2>1
  <2> DEFINE o == [FreeObj EXCEPT !.type = "sem", !.count = initial, !.max = max]
  <2>3. o.type = "sem" /\ o.count = initial /\ o.max = max
    BY <1>2 DEF Object
  <2>4. InRange(o)
    BY <2>3, SyncAssumption DEF InRange
  <2>5. QED
    BY <1>1, <2>2, <2>3, <2>4
<1>6. CASE CreateThreadObj(t)
  <2>1. PICK u \in Tid :
               Create("thread", [FreeObj EXCEPT !.type = "thread", !.owner = u])
    BY <1>6 DEF CreateThreadObj
  <2>2. [FreeObj EXCEPT !.type = "thread", !.owner = u].type = "thread"
    BY <1>2 DEF Object
  <2>3. InRange([FreeObj EXCEPT !.type = "thread", !.owner = u])
    BY <2>2 DEF InRange
  <2>4. QED
    BY <1>1, <2>1, <2>2, <2>3
<1>7. CASE CreateCv(t)
  <2>1. [FreeObj EXCEPT !.type = "cv"].type = "cv"
    BY <1>2 DEF Object
  <2>2. InRange([FreeObj EXCEPT !.type = "cv"])
    BY <2>1 DEF InRange
  <2>3. QED
    BY <1>1, <1>7, <2>1, <2>2 DEF CreateCv
<1>8. QED
  BY <1>3, <1>4, <1>5, <1>6, <1>7 DEF CreateStep

\* Giving a mutex back or away does not touch the count.
LEMMA OwnedFates ==
    ASSUME TypeOK, NEW m \in Handle, NEW u \in Tid \cup {NoTid}, NEW n \in Nat,
           objs' = [objs EXCEPT ![m] = Owned(objs[m], u, n)]
    PROVE  SlotFates
<1>1. SUFFICES ASSUME NEW h \in Handle PROVE SameKind(objs[h], objs'[h])
  BY DEF SlotFates, SlotFate
<1>2. CASE h = m
  <2>1. objs'[h] = Owned(objs[h], u, n) /\ objs[h] \in Object
    BY <1>2 DEF TypeOK
  <2>2. /\ Owned(objs[h], u, n).type = objs[h].type
        /\ Owned(objs[h], u, n).count = objs[h].count
        /\ Owned(objs[h], u, n).max = objs[h].max
    BY <2>1, OwnedObject
  <2>3. QED
    BY <2>1, <2>2, KeptKind
<1>3. CASE h # m
  <2>1. objs'[h] = objs[h]
    BY <1>3 DEF TypeOK
  <2>2. QED
    BY <2>1, KeptKind
<1>4. QED
  BY <1>2, <1>3

\* The signalling calls: what changes a count broadcasts, and a release stops at
\* the maximum.
LEMMA SignalFates ==
    ASSUME TypeOK, NEW t \in Tid, SignalStep(t)
    PROVE  SlotFates
<1>1. SUFFICES ASSUME NEW h \in Handle PROVE SlotFate(h)
  BY DEF SlotFates
<1>0. objs[h] \in Object
  BY DEF TypeOK
<1>2. ASSUME NEW g \in Handle, ReleaseMutex(t, g) PROVE SlotFate(h)
  <2>1. CASE objs[g].rec = 1
    <3>1. objs' = [objs EXCEPT ![g] = Owned(objs[g], NoTid, 0)]
      BY <1>2, <2>1 DEF ReleaseMutex
    <3>2. QED
      BY <3>1, OwnedFates DEF SlotFates
  <2>2. CASE objs[g].rec # 1
    <3>1. objs' = [objs EXCEPT ![g] = [objs[g] EXCEPT !.rec = objs[g].rec - 1]]
      BY <1>2, <2>2 DEF ReleaseMutex
    <3>2. objs'[h].type = objs[h].type /\ objs'[h].count = objs[h].count
          /\ objs'[h].max = objs[h].max
      BY <1>0, <3>1 DEF TypeOK, Object
    <3>3. QED
      BY <3>2, KeptKind DEF SlotFate
  <2>3. QED
    BY <2>1, <2>2
<1>3. ASSUME NEW g \in Handle,
             SetEvent(t, g) \/ ResetEvent(t, g) \/ PulseEvent(t, g) \/ ThreadExit(t, g)
      PROVE  SlotFate(h)
  <2>1. objs'[h].type = objs[h].type /\ objs'[h].count = objs[h].count
        /\ objs'[h].max = objs[h].max
    BY <1>0, <1>3 DEF SetEvent, ResetEvent, PulseEvent, ThreadExit, TypeOK, Object
  <2>2. QED
    BY <2>1, KeptKind DEF SlotFate
<1>4. ASSUME NEW g \in Handle, ReleaseSemaphore(t, g) PROVE SlotFate(h)
  <2>1. PICK n \in 1 .. MaxCount :
          objs' = [objs EXCEPT ![g].count =
                     IF objs[g].max > 0 /\ @ + n > objs[g].max
                       THEN objs[g].max ELSE @ + n]
    BY <1>4 DEF ReleaseSemaphore
  <2> DEFINE c == IF objs[g].max > 0 /\ objs[g].count + n > objs[g].max
                    THEN objs[g].max ELSE objs[g].count + n
  <2>2. objs' = [objs EXCEPT ![g] = [objs[g] EXCEPT !.count = c]]
    BY <2>1
  <2>3. objs[g] \in Object /\ n \in Nat
    BY SyncAssumption DEF TypeOK
  <2>4. objs[g].max > 0 /\ objs[g].count >= 0 => c >= 0 /\ c <= objs[g].max
    BY <2>3 DEF Object
  <2> HIDE DEF c
  <2>5. parked' = {}
    BY <1>4 DEF ReleaseSemaphore, Broadcast
  <2>6. CASE h = g
    <3>1. objs'[h].type = objs[h].type /\ objs'[h].max = objs[h].max
          /\ objs'[h].count = c /\ objs[h].type = "sem"
      BY <1>0, <1>4, <2>2, <2>6 DEF ReleaseSemaphore, IsA, TypeOK, Object
    <3>2. QED
      BY <2>4, <2>5, <2>6, <3>1 DEF SlotFate, SameKind, InRange
  <2>7. CASE h # g
    <3>1. objs'[h] = objs[h]
      BY <2>2, <2>7 DEF TypeOK
    <3>2. QED
      BY <3>1, KeptKind DEF SlotFate
  <2>8. QED
    BY <2>6, <2>7
<1>5. ASSUME NEW g \in Handle, CvWake(t, g) PROVE SlotFate(h)
  <2>1. CASE h = g
    <3>1. /\ objs'[h].type = "cv" /\ objs[h].type = "cv"
          /\ objs'[h].count = objs[h].count + 1 /\ objs[h].count \in Int
      BY <1>0, <1>5, <2>1 DEF CvWake, IsA, TypeOK, Object
    <3>2. parked' = {}
      BY <1>5 DEF CvWake, Broadcast
    <3>3. QED
      BY <3>1, <3>2 DEF SlotFate, SameKind, InRange
  <2>2. CASE h # g
    <3>1. objs'[h] = objs[h]
      BY <1>5, <2>2 DEF CvWake, TypeOK
    <3>2. QED
      BY <3>1, KeptKind DEF SlotFate
  <2>3. QED
    BY <2>1, <2>2
<1>6. ASSUME NEW g \in Handle, Close(t, g) PROVE SlotFate(h)
  <2>1. CASE h = g
    <3>1. objs'[h].type = "free"
      BY <1>0, <1>6, <2>1 DEF Close, TypeOK, Object
    <3>2. parked' = {} /\ objs[h].type \in Closable
      BY <1>6, <2>1 DEF Close, Broadcast
    <3>3. QED
      BY <3>1, <3>2 DEF SlotFate
  <2>2. CASE h # g
    <3>1. objs'[h] = objs[h]
      BY <1>6, <2>2 DEF Close, TypeOK
    <3>2. QED
      BY <3>1, KeptKind DEF SlotFate
  <2>3. QED
    BY <2>1, <2>2
<1>7. CASE KickTid(t)
  <2>1. objs'[h].type = objs[h].type /\ objs'[h].count = objs[h].count
        /\ objs'[h].max = objs[h].max
    BY <1>0, <1>7 DEF KickTid, Signalled, TypeOK, Object
  <2>2. QED
    BY <2>1, KeptKind DEF SlotFate
<1>8. QED
  BY <1>2, <1>3, <1>4, <1>5, <1>6, <1>7 DEF SignalStep

\* A granted wait takes a unit that is there.
LEMMA GrantFates ==
    ASSUME TypeOK, NEW t \in Tid, NEW w \in WaitCall, Ready(w, t), Grant(t, w)
    PROVE  SlotFates
<1>1. SUFFICES ASSUME NEW h \in Handle PROVE SameKind(objs[h], objs'[h])
  BY DEF SlotFates, SlotFate
<1>2. \/ objs'[h] = objs[h]
      \/ Satisfied(objs[h], t) /\ objs'[h] = Acquired(objs[h], t)
  BY GrantEffect
<1>3. objs[h] \in Object
  BY DEF TypeOK
<1>4. CASE objs'[h] = objs[h]
  BY <1>4, KeptKind
<1>5. ASSUME Satisfied(objs[h], t), objs'[h] = Acquired(objs[h], t)
      PROVE  SameKind(objs[h], objs'[h])
  <2>1. /\ objs'[h].type = objs[h].type /\ objs'[h].max = objs[h].max
        /\ objs[h].type # "sem" => objs'[h].count = objs[h].count
        /\ objs[h].type = "sem" => /\ objs[h].count > 0
                                   /\ objs'[h].count = objs[h].count - 1
    BY <1>3, <1>5, AcquiredObject
  <2>2. objs[h].count \in Int /\ objs[h].max \in Int
    BY <1>3 DEF Object
  <2>3. QED
    BY <2>1, <2>2 DEF SameKind, InRange
<1>6. QED
  BY <1>2, <1>4, <1>5

LEMMA TurnFates ==
    ASSUME TypeOK, NEW t \in Tid, NEW w \in WaitCall, NEW mode, Turn(t, w, mode)
    PROVE  SlotFates
BY SameFates, GrantFates DEF Turn, GiveUp

LEMMA RelockFates ==
    ASSUME TypeOK, NEW t \in Tid, NEW m \in Handle, NEW saved \in Nat, NEW rv,
           Relock(t, m, saved, rv)
    PROVE  SlotFates
<1>1. \/ UNCHANGED objs
      \/ objs' = [objs EXCEPT ![m] = Owned(objs[m], t, saved)]
  BY DEF Relock, GiveUp
<1>2. QED
  BY <1>1, SameFates, OwnedFates

LEMMA WaitFates ==
    ASSUME TypeOK, NEW t \in Tid, WaitStep(t)
    PROVE  SlotFates
<1>1. CASE WaitSingle(t) \/ WaitMultiple(t)
  <2>1. PICK w \in WaitCall, mode \in Modes : Turn(t, w, mode)
    BY <1>1, SyncAssumption DEF WaitSingle, WaitMultiple, WaitCall
  <2>2. QED
    BY <2>1, TurnFates
<1>2. CASE WaitRecheck(t) \/ WaitTimeout(t)
  <2>1. call[t] \in WaitCall
    BY <1>2, CallKinds DEF WaitRecheck, WaitTimeout
  <2>2. \/ Turn(t, call[t], "inf")
        \/ Ready(call[t], t) /\ Grant(t, call[t])
        \/ UNCHANGED objs
    BY <1>2 DEF WaitRecheck, WaitTimeout, GiveUp
  <2>3. QED
    BY <2>1, <2>2, TurnFates, GrantFates, SameFates
<1>3. ASSUME NEW cv \in Handle, NEW m \in Handle, CvSleep(t, cv, m)
      PROVE  SlotFates
  <2> DEFINE saved == IF objs[m].rec > 0 THEN objs[m].rec ELSE 1
  <2>1. saved \in Nat
    BY DEF TypeOK, Object
  <2>2. \/ objs' = [objs EXCEPT ![m] = Owned(objs[m], t, saved)]
        \/ objs' = [objs EXCEPT ![m] = Owned(objs[m], NoTid, 0)]
    BY <1>3 DEF CvSleep
  <2> HIDE DEF saved
  <2>3. QED
    BY <2>1, <2>2, OwnedFates
<1>4. ASSUME NEW cv \in Handle, NEW m \in Handle, CvSleepFails(t, cv, m)
      PROVE  SlotFates
  BY <1>4, SameFates DEF CvSleepFails, GiveUp
<1>5. CASE CvRecheck(t) \/ CvTimeout(t)
  <2>1. call[t] \in CvCall
    BY <1>5, CallKinds DEF CvRecheck, CvTimeout
  <2>2. call[t].m \in Handle /\ call[t].saved \in Nat
    BY <2>1 DEF CvCall
  <2>3. \/ \E rv : Relock(t, call[t].m, call[t].saved, rv)
        \/ UNCHANGED objs
    BY <1>5 DEF CvRecheck, CvTimeout
  <2>4. QED
    BY <2>2, <2>3, RelockFates, SameFates
<1>6. CASE RelockRecheck(t)
  <2>1. call[t] \in RelockCall
    BY <1>6, CallKinds DEF RelockRecheck
  <2>2. call[t].m \in Handle /\ call[t].saved \in Nat
    BY <2>1 DEF RelockCall
  <2>3. \/ objs' = [objs EXCEPT ![call[t].m] = Owned(objs[call[t].m], t, call[t].saved)]
        \/ UNCHANGED objs
    BY <1>6 DEF RelockRecheck, GiveUp
  <2>4. QED
    BY <2>2, <2>3, OwnedFates, SameFates
<1>7. QED
  BY <1>1, <1>2, <1>3, <1>4, <1>5, <1>6 DEF WaitStep

LEMMA KickFates ==
    ASSUME TypeOK, KickWorkers
    PROVE  SlotFates
<1>1. SUFFICES ASSUME NEW h \in Handle PROVE SameKind(objs[h], objs'[h])
  BY DEF SlotFates, SlotFate
<1>2. objs[h] \in Object
  BY DEF TypeOK
<1>3. parked' = {}
  BY DEF KickWorkers, Broadcast
<1>4. /\ objs'[h].type = objs[h].type /\ objs'[h].max = objs[h].max
      /\ \/ objs'[h].count = objs[h].count
         \/ /\ objs[h].type = "cv" /\ objs'[h].count = objs[h].count + 1
            /\ objs[h].count \in Int
  BY <1>2 DEF KickWorkers, Signalled, IsA, Object
<1>5. QED
  BY <1>3, <1>4 DEF SameKind, InRange

LEMMA NextFates ==
    ASSUME TypeOK, [Next]_vars
    PROVE  SlotFates
BY CreateFates, SignalFates, WaitFates, KickFates, SameFates DEF Next, vars

-----------------------------------------------------------------------------
(* Semaphores.                                                               *)

Semaphores == \A h \in Handle : InRange(objs[h])

LEMMA SemaphoresStep ==
    ASSUME TypeOK, Semaphores, [Next]_vars
    PROVE  Semaphores'
<1>1. SUFFICES ASSUME NEW h \in Handle PROVE InRange(objs'[h])
  BY DEF Semaphores
<1>2. SlotFate(h)
  BY NextFates DEF SlotFates
<1>3. QED
  BY <1>2 DEF SlotFate, SameKind, Semaphores, InRange

-----------------------------------------------------------------------------
(* What a step does to the calls.                                            *)

\* A sleeper that has not been woken.
Dozes(t) == Live(call[t].cv) /\ objs[call[t].cv].count = call[t].gen

\* The caller's call is the same after the step; a sleeper that parks dozes.
Stays(t) ==
    /\ call'[t] = call[t] /\ waitq'[t] = waitq[t]
    /\ (t \in parked' /\ Asleep(t)) => (t \in parked \/ Dozes(t)')

\* The call returns; a sleeper's mutex, if it still is one, is its own again.
Returns(t) ==
    /\ call'[t] = NoCall /\ waitq'[t] = NoHandle
    /\ (Asleep(t) \/ Relocking(t)) /\ IsA(call[t].m, "mutex")
         => objs'[call[t].m].owner = t /\ objs'[call[t].m].rec = call[t].saved

\* A wait that is not satisfied begins.
StartsWait(t) ==
    /\ Idle(t) /\ call'[t] \in WaitCall
    /\ call'[t].op = "single" => waitq' = WqSet(t, call'[t].hs[1])
    /\ call'[t].op # "single" => waitq' = waitq

\* A sleep on a condition variable begins.
FallsAsleep(t) ==
    /\ Idle(t) /\ waitq' = waitq
    /\ (Asleep(t) /\ Dozes(t) /\ IsA(call[t].cv, "cv") /\ IsA(call[t].m, "mutex"))'

\* A sleeper that is done finds its mutex taken.
WaitsForMutex(t) ==
    Asleep(t) /\ Relocking(t)' /\ call'[t].m = call[t].m /\ waitq' = waitq

\* What a step by t does to the calls: t's goes one of five ways, and every other
\* thread's stays as it is.
CallStep(t) ==
    /\ \A u \in Tid \ {t} : /\ call'[u] = call[u] /\ waitq'[u] = waitq[u]
                            /\ u \in parked' => u \in parked
    /\ \/ Stays(t) \/ Returns(t) \/ StartsWait(t)
       \/ FallsAsleep(t) \/ WaitsForMutex(t)

\* A step that makes no call and parks nobody.
LEMMA QuietCall ==
    ASSUME NEW t \in Tid, UNCHANGED <<call, waitq>>, parked' \subseteq parked
    PROVE  CallStep(t)
BY DEF CallStep, Stays

LEMMA OtherCalls ==
    ASSUME TypeOK, NEW t \in Tid, CreateStep(t) \/ SignalStep(t)
    PROVE  CallStep(t)
<1>1. UNCHANGED <<call, waitq>> /\ parked' \subseteq parked
  BY CreateType
  DEF SignalStep, KickTid, SetEvent, ResetEvent, PulseEvent, ReleaseMutex,
      ReleaseSemaphore, ThreadExit, CvWake, Close, Broadcast
<1>2. QED
  BY <1>1, QuietCall

\* A return that is not a sleeper's, or finds no mutex, or gives it back.
LEMMA ReturnCall ==
    ASSUME TypeOK, NEW t \in Tid, NEW rv, Return(t, rv), parked' \subseteq parked,
           (Asleep(t) \/ Relocking(t)) /\ IsA(call[t].m, "mutex")
             => objs'[call[t].m].owner = t /\ objs'[call[t].m].rec = call[t].saved
    PROVE  CallStep(t)
BY DEF CallStep, Returns, Return, TypeOK

LEMMA TurnCall ==
    ASSUME TypeOK, NEW t \in Tid, NEW w \in WaitCall, NEW mode,
           Idle(t) \/ (Waiting(t) /\ w = call[t]), Turn(t, w, mode)
    PROVE  CallStep(t)
<1>0. ~Asleep(t) /\ ~Relocking(t)
  BY DEF Idle, Waiting, Asleep, Relocking
<1>1. CASE \E rv : GiveUp(t, rv)
  BY <1>0, <1>1, ReturnCall DEF GiveUp
<1>2. CASE Grant(t, w)
  BY <1>0, <1>2, ReturnCall DEF Grant
<1>3. CASE /\ call' = [call EXCEPT ![t] = w]
           /\ parked' = parked \cup {t}
           /\ waitq' = IF w.op = "single" /\ Idle(t) THEN WqSet(t, w.hs[1]) ELSE waitq
  <2>1. call'[t] = w
    BY <1>3 DEF TypeOK
  <2>2. \A u \in Tid \ {t} : /\ call'[u] = call[u] /\ waitq'[u] = waitq[u]
                             /\ u \in parked' => u \in parked
    BY <1>3 DEF TypeOK, WqSet
  <2>3. CASE Idle(t)
    BY <1>3, <2>1, <2>2, <2>3 DEF CallStep, StartsWait
  <2>4. CASE ~Idle(t)
    BY <1>0, <1>3, <2>1, <2>2, <2>4 DEF CallStep, Stays
  <2>5. QED
    BY <2>3, <2>4
<1>4. QED
  BY <1>1, <1>2, <1>3 DEF Turn

\* The return path of a sleep.
LEMMA RelockCalls ==
    ASSUME TypeOK, NEW t \in Tid, Asleep(t), NEW rv,
           Relock(t, call[t].m, call[t].saved, rv)
    PROVE  CallStep(t)
<1> DEFINE c == call[t]
<1>0. c \in CvCall /\ ~Relocking(t)
  BY CallKinds DEF Asleep, Relocking
<1>1. c.m \in Handle /\ c.saved \in Nat
  BY <1>0 DEF CvCall
<1>2. CASE ~IsA(c.m, "mutex") /\ GiveUp(t, rv)
  BY <1>2, ReturnCall DEF GiveUp
<1>3. CASE /\ objs' = [objs EXCEPT ![c.m] = Owned(@, t, c.saved)]
           /\ parked' = parked \ {t}
           /\ Return(t, rv)
  <2>1. objs'[c.m] = Owned(objs[c.m], t, c.saved) /\ objs[c.m] \in Object
    BY <1>1, <1>3 DEF TypeOK
  <2>2. objs'[c.m].owner = t /\ objs'[c.m].rec = c.saved
    BY <1>1, <2>1, OwnedObject
  <2>3. QED
    BY <1>3, <2>2, ReturnCall
<1>4. CASE /\ call' = [call EXCEPT ![t] = [op |-> "relock", m |-> c.m,
                                           saved |-> c.saved, rv |-> rv]]
           /\ parked' = parked \cup {t}
           /\ UNCHANGED <<objs, waitq, ret>>
  <2>1. Relocking(t)' /\ call'[t].m = c.m
    BY <1>4 DEF TypeOK, Relocking
  <2>2. \A u \in Tid \ {t} : /\ call'[u] = call[u] /\ waitq'[u] = waitq[u]
                             /\ u \in parked' => u \in parked
    BY <1>4 DEF TypeOK
  <2>3. QED
    BY <1>4, <2>1, <2>2 DEF CallStep, WaitsForMutex
<1>5. QED
  BY <1>2, <1>3, <1>4 DEF Relock

LEMMA WaitCalls ==
    ASSUME TypeOK, NEW t \in Tid, WaitStep(t)
    PROVE  CallStep(t)
<1>1. CASE WaitSingle(t) \/ WaitMultiple(t)
  <2>1. PICK w \in WaitCall, mode \in Modes : Turn(t, w, mode)
    BY <1>1, SyncAssumption DEF WaitSingle, WaitMultiple, WaitCall
  <2>2. Idle(t)
    BY <1>1 DEF WaitSingle, WaitMultiple
  <2>3. QED
    BY <2>1, <2>2, TurnCall
<1>2. CASE WaitRecheck(t)
  BY <1>2, CallKinds, TurnCall DEF WaitRecheck
<1>3. CASE WaitTimeout(t)
  <2>1. ~Asleep(t) /\ ~Relocking(t)
    BY <1>3 DEF WaitTimeout, Waiting, Asleep, Relocking
  <2>2. QED
    BY <1>3, <2>1, ReturnCall DEF WaitTimeout, GiveUp, Grant
<1>4. ASSUME NEW cv \in Handle, NEW m \in Handle, CvSleep(t, cv, m)
      PROVE  CallStep(t)
  <2> DEFINE saved == IF objs[m].rec > 0 THEN objs[m].rec ELSE 1
  <2>1. Idle(t) /\ ~Asleep(t) /\ ~Relocking(t) /\ IsA(cv, "cv") /\ IsA(m, "mutex")
    BY <1>4 DEF CvSleep, Idle, Asleep, Relocking
  <2>2. CASE Broadcast /\ Return(t, WAIT_TIMEOUT)
    BY <2>1, <2>2, ReturnCall DEF Broadcast
  <2>3. ASSUME NEW mode \in Modes,
               /\ objs' = [objs EXCEPT ![m] = Owned(@, NoTid, 0)]
               /\ call' = [call EXCEPT ![t] =
                             [op |-> "cv", cv |-> cv, m |-> m,
                              gen |-> objs[cv].count, saved |-> saved,
                              timed |-> mode = "timed"]]
               /\ parked' = {t}
               /\ UNCHANGED <<waitq, ret>>
        PROVE  CallStep(t)
    <3>1. /\ call'[t].op = "cv" /\ call'[t].cv = cv /\ call'[t].m = m
          /\ call'[t].gen = objs[cv].count
      BY <2>3 DEF TypeOK
    <3>2. /\ objs'[cv].type = "cv" /\ objs'[cv].count = objs[cv].count
          /\ objs'[m].type = "mutex"
      <4>1. /\ objs'[cv] = IF cv = m THEN Owned(objs[m], NoTid, 0) ELSE objs[cv]
            /\ objs'[m] = Owned(objs[m], NoTid, 0)
        BY <2>3 DEF TypeOK
      <4>2. objs[m] \in Object
        BY DEF TypeOK
      <4>3. /\ Owned(objs[m], NoTid, 0).type = objs[m].type
            /\ Owned(objs[m], NoTid, 0).count = objs[m].count
        BY <4>2 DEF Owned, Object
      <4>4. QED
        BY <2>1, <4>1, <4>3 DEF IsA
    <3>3. (Asleep(t) /\ Dozes(t) /\ IsA(call[t].cv, "cv") /\ IsA(call[t].m, "mutex"))'
      BY <3>1, <3>2 DEF Asleep, Dozes, IsA, Live
    <3>4. \A u \in Tid \ {t} : /\ call'[u] = call[u] /\ waitq'[u] = waitq[u]
                               /\ u \in parked' => u \in parked
      BY <2>3 DEF TypeOK
    <3>5. QED
      BY <2>1, <2>3, <3>3, <3>4 DEF CallStep, FallsAsleep
  <2>4. QED
    BY <1>4, <2>2, <2>3 DEF CvSleep
<1>5. ASSUME NEW cv \in Handle, NEW m \in Handle, CvSleepFails(t, cv, m)
      PROVE  CallStep(t)
  <2>1. ~Asleep(t) /\ ~Relocking(t)
    BY <1>5 DEF CvSleepFails, Idle, Asleep, Relocking
  <2>2. QED
    BY <1>5, <2>1, ReturnCall DEF CvSleepFails, GiveUp
<1>6. CASE CvRecheck(t) \/ CvTimeout(t)
  <2>1. Asleep(t)
    BY <1>6 DEF CvRecheck, CvTimeout
  <2>2. CASE \E rv : Relock(t, call[t].m, call[t].saved, rv)
    BY <2>1, <2>2, RelockCalls
  <2>3. CASE /\ Live(call[t].cv) /\ objs[call[t].cv].count = call[t].gen
             /\ parked' = parked \cup {t}
             /\ UNCHANGED <<objs, call, waitq, ret>>
    <3>1. Dozes(t)'
      BY <2>3 DEF Dozes, Live
    <3>2. QED
      BY <2>3, <3>1 DEF CallStep, Stays
  <2>4. QED
    BY <1>6, <2>2, <2>3 DEF CvRecheck, CvTimeout
<1>7. CASE RelockRecheck(t)
  <2> DEFINE c == call[t]
  <2>1. c \in RelockCall /\ ~Asleep(t)
    BY <1>7, CallKinds DEF RelockRecheck, Relocking, Asleep
  <2>2. c.m \in Handle /\ c.saved \in Nat
    BY <2>1 DEF RelockCall
  <2>3. CASE ~Live(c.m) /\ GiveUp(t, c.rv)
    BY <2>3, ReturnCall DEF GiveUp, Live, IsA
  <2>4. CASE /\ objs' = [objs EXCEPT ![c.m] = Owned(@, t, c.saved)]
             /\ UNCHANGED parked
             /\ Return(t, c.rv)
    <3>1. objs'[c.m] = Owned(objs[c.m], t, c.saved) /\ objs[c.m] \in Object
      BY <2>2, <2>4 DEF TypeOK
    <3>2. objs'[c.m].owner = t /\ objs'[c.m].rec = c.saved
      BY <2>2, <3>1, OwnedObject
    <3>3. QED
      BY <2>4, <3>2, ReturnCall
  <2>5. CASE parked' = parked \cup {t} /\ UNCHANGED <<objs, call, waitq, ret>>
    BY <2>1, <2>5 DEF CallStep, Stays
  <2>6. QED
    BY <1>7, <2>3, <2>4, <2>5 DEF RelockRecheck
<1>8. QED
  BY <1>1, <1>2, <1>3, <1>4, <1>5, <1>6, <1>7 DEF WaitStep

LEMMA KickCalls ==
    ASSUME KickWorkers PROVE UNCHANGED <<call, waitq>> /\ parked' = {}
BY DEF KickWorkers, Broadcast

LEMMA NextCalls ==
    ASSUME TypeOK, Next
    PROVE  \/ UNCHANGED <<call, waitq>> /\ parked' = {}
           \/ \E t \in Tid : CallStep(t)
BY OtherCalls, WaitCalls, KickCalls DEF Next

-----------------------------------------------------------------------------
(* Sleepers and the tables: the theorems.                                    *)

\* The slot a sleeper watches stays a condition variable; or, if condition
\* variables are closed and their slots reused, they are not reused for objects
\* whose count goes down in silence.
CvSlots ==
    IF "sem" \in Kinds THEN \A t \in Tid : Asleep(t) => IsA(call[t].cv, "cv")
                       ELSE \A h \in Handle : ~IsA(h, "sem")

LEMMA CvSlotsStep ==
    ASSUME TypeOK, TypeOK', CvSlots, [Next]_vars,
           "cv" \notin Closable \/ "sem" \notin Kinds
    PROVE  CvSlots'
<1>0. CASE UNCHANGED vars
  BY <1>0 DEF vars, CvSlots, Asleep, IsA
<1>1. CASE Next /\ "sem" \in Kinds
  <2>1. SUFFICES ASSUME NEW t \in Tid, Asleep(t)' PROVE IsA(call[t].cv, "cv")'
    BY <1>1 DEF CvSlots
  <2>2. ASSUME call'[t] = call[t] PROVE IsA(call[t].cv, "cv")'
    <3>1. Asleep(t)
      BY <2>1, <2>2 DEF Asleep
    <3>2. IsA(call[t].cv, "cv") /\ call[t].cv \in Handle
      BY <1>1, <3>1, CallKinds DEF CvSlots, CvCall
    <3>3. SlotFate(call[t].cv)
      BY <3>2, NextFates DEF SlotFates
    <3>4. objs'[call[t].cv].type = "cv"
      BY <1>1, <3>2, <3>3 DEF SlotFate, SameKind, IsA, Live
    <3>5. QED
      BY <2>2, <3>4 DEF IsA
  <2>3. ASSUME NEW u \in Tid, CallStep(u) PROVE IsA(call[t].cv, "cv")'
    <3>1. CASE t # u \/ Stays(u)
      BY <2>2, <2>3, <3>1 DEF CallStep, Stays
    <3>2. CASE t = u /\ FallsAsleep(u)
      BY <3>2 DEF FallsAsleep
    <3>3. ~(t = u /\ (Returns(u) \/ StartsWait(u) \/ WaitsForMutex(u)))
      BY <2>1 DEF Returns, StartsWait, WaitsForMutex, Asleep, Relocking, NoCall, WaitCall
    <3>4. QED
      BY <2>3, <3>1, <3>2, <3>3 DEF CallStep
  <2>4. QED
    BY <1>1, <2>2, <2>3, NextCalls
<1>2. CASE Next /\ "sem" \notin Kinds
  <2>1. SUFFICES ASSUME NEW h \in Handle PROVE objs'[h].type # "sem"
    BY <1>2 DEF CvSlots, IsA
  <2>2. SlotFate(h) /\ objs[h].type # "sem"
    BY <1>2, NextFates DEF SlotFates, CvSlots, IsA
  <2>3. QED
    BY <1>2, <2>2 DEF SlotFate, SameKind
<1>3. QED
  BY <1>0, <1>1, <1>2

LEMMA DozesMeans ==
    ASSUME NEW t PROVE Asleep(t) => (CouldProceed(t) <=> ~Dozes(t))
BY DEF CouldProceed, Dozes, Asleep, Waiting, Relocking

\* A sleeper that dozes goes on dozing through a step that nobody hears.
LEMMA StillDozes ==
    ASSUME TypeOK, CvSlots, [Next]_vars, NEW u \in parked', call'[u] = call[u],
           u \in Tid, Asleep(u), Dozes(u)
    PROVE  Dozes(u)'
<1> DEFINE cv == call[u].cv
<1>1. cv \in Handle /\ Live(cv)
  BY CallKinds DEF CvCall, Dozes
<1>2. SlotFate(cv)
  BY <1>1, NextFates DEF SlotFates
<1>3. objs[cv].type # "sem"
  BY <1>1 DEF CvSlots, IsA
<1>4. objs'[cv].type = objs[cv].type /\ objs'[cv].count = objs[cv].count
  BY <1>1, <1>2, <1>3 DEF SlotFate, SameKind, Live
<1>5. QED
  BY <1>1, <1>4 DEF Dozes, Live

\* No sleeper stays parked once its condition variable was woken or went away,
\* as long as condition variables are not closed, which the engine never does, or
\* their slots are not reused for semaphores: a sleeper looks and parks in one
\* hold of the monitor, and every change of a generation broadcasts.
THEOREM NoSleepIsLost ==
    ASSUME "cv" \notin Closable \/ "sem" \notin Kinds
    PROVE  Spec => []NoLostSleep
<1>1. Init => NoLostSleep /\ CvSlots
  BY DEF Init, NoLostSleep, CvSlots, FreeObj, IsA, Asleep, NoCall
<1>2. TypeOK /\ TypeOK' /\ CvSlots /\ [Next]_vars => CvSlots'
  BY CvSlotsStep
<1>3. TypeOK /\ TypeOK' /\ CvSlots /\ NoLostSleep /\ [Next]_vars => NoLostSleep'
  <2> SUFFICES ASSUME TypeOK, TypeOK', CvSlots, NoLostSleep, [Next]_vars,
                      NEW u \in parked', Asleep(u)'
               PROVE  Dozes(u)'
    BY DozesMeans DEF NoLostSleep, CouldProceed, Dozes, Asleep, Waiting, Relocking, Live
  <2>0. u \in Tid
    BY DEF TypeOK
  <2>1. ASSUME call'[u] = call[u], u \in parked PROVE Dozes(u)'
    <3>1. Asleep(u)
      BY <2>1 DEF Asleep
    <3>2. Dozes(u)
      BY <2>1, <3>1, DozesMeans DEF NoLostSleep
    <3>3. QED
      BY <2>0, <2>1, <3>1, <3>2, StillDozes
  <2>2. CASE UNCHANGED vars
    BY <2>1, <2>2 DEF vars
  <2>3. ASSUME NEW t \in Tid, CallStep(t) PROVE Dozes(u)'
    <3>1. CASE u # t
      BY <2>0, <2>1, <2>3, <3>1 DEF CallStep
    <3>2. CASE u = t /\ Stays(t)
      <4>1. Asleep(t)
        BY <3>2 DEF Stays, Asleep
      <4>2. t \in parked \/ Dozes(t)'
        BY <3>2, <4>1 DEF Stays
      <4>3. QED
        BY <2>1, <3>2, <4>2 DEF Stays
    <3>3. CASE u = t /\ FallsAsleep(t)
      BY <3>3 DEF FallsAsleep
    <3>4. ~(u = t /\ (Returns(t) \/ StartsWait(t) \/ WaitsForMutex(t)))
      BY DEF Returns, StartsWait, WaitsForMutex, Asleep, Relocking, NoCall, WaitCall
    <3>5. QED
      BY <2>3, <3>1, <3>2, <3>3, <3>4 DEF CallStep
  <2>4. QED
    BY <2>2, <2>3, NextCalls
<1>4. QED
  BY <1>1, <1>2, <1>3, TypeCorrect, PTL DEF Spec

\* wg_sync_cv_sleep returns with its mutex, at the depth the caller had, whatever
\* ended the sleep: a wake, the timeout, or the loss of the condition variable.
THEOREM SleepersReturnOwning == Spec => SleeperReturnsOwning
<1> DEFINE Owning(t) ==
             (Asleep(t) \/ Relocking(t)) /\ call'[t] = NoCall /\ IsA(call[t].m, "mutex")
               => /\ objs'[call[t].m].owner = t
                  /\ objs'[call[t].m].rec = call[t].saved
<1>1. TypeOK /\ [Next]_vars => [\A t \in Tid : Owning(t)]_vars
  <2> SUFFICES ASSUME TypeOK, Next, NEW u \in Tid PROVE Owning(u)
    OBVIOUS
  <2>1. CASE call'[u] = call[u]
    BY <2>1 DEF Asleep, Relocking, NoCall
  <2>2. ASSUME NEW t \in Tid, CallStep(t) PROVE Owning(u)
    <3>1. CASE u # t
      BY <2>1, <2>2, <3>1 DEF CallStep
    <3>2. CASE u = t /\ Returns(t)
      BY <3>2 DEF Returns
    <3>3. CASE u = t /\ Stays(t)
      BY <2>1, <3>3 DEF Stays
    <3>4. CASE u = t /\ (StartsWait(t) \/ FallsAsleep(t))
      BY <3>4 DEF StartsWait, FallsAsleep, Idle, Asleep, Relocking
    <3>5. CASE u = t /\ WaitsForMutex(t)
      BY <3>5 DEF WaitsForMutex, Relocking, NoCall
    <3>6. QED
      BY <2>2, <3>1, <3>2, <3>3, <3>4, <3>5 DEF CallStep
  <2>3. QED
    BY <2>1, <2>2, NextCalls
<1>2. TypeOK /\ [Next]_vars
        => [\A t \in Tid :
              (Asleep(t) \/ Relocking(t)) /\ call'[t] = NoCall /\ IsA(call[t].m, "mutex")
                => /\ objs'[call[t].m].owner = t
                   /\ objs'[call[t].m].rec = call[t].saved]_vars
  BY <1>1
<1>3. QED
  BY <1>2, TypeCorrect, PTL DEF Spec, SleeperReturnsOwning

\* The entry the probe table should have for a thread.
Recorded(t) == IF Waiting(t) /\ call[t].op = "single" THEN call[t].hs[1] ELSE NoHandle

\* With no more threads than entries, a thread that begins to wait finds room: its
\* own entry is empty.
LEMMA RoomInTable ==
    ASSUME TypeOK, NEW t \in Tid, NEW h, waitq[t] = NoHandle,
           IsFiniteSet(Tid), Cardinality(Tid) <= WaitqMax, WaitqMax \in Nat
    PROVE  WqSet(t, h) = [waitq EXCEPT ![t] = h]
<1> DEFINE Used == {u \in Tid : waitq[u] # NoHandle}
<1>1. Used \subseteq Tid \ {t}
  OBVIOUS
<1>2. IsFiniteSet(Tid \ {t}) /\ Cardinality(Tid \ {t}) = Cardinality(Tid) - 1
  BY FS_RemoveElement
<1>3. Cardinality(Used) <= Cardinality(Tid \ {t}) /\ IsFiniteSet(Used)
  BY <1>1, <1>2, FS_Subset
<1>4. Cardinality(Used) \in Nat /\ Cardinality(Tid) \in Nat
  BY <1>3, FS_CardinalityType
<1>5. Cardinality(Used) < WaitqMax
  BY <1>2, <1>3, <1>4
<1>6. QED
  BY <1>5 DEF WqSet

\* Semaphores stay between zero and their maximum, whichever waits race for the
\* last unit, and s_waitq names exactly the threads inside a single wait, as long
\* as there are no more threads than it has entries.
THEOREM TablesExact ==
    ASSUME IsFiniteSet(Tid), Cardinality(Tid) <= WaitqMax, WaitqMax \in Nat
    PROVE  Spec => []ObjectsExact
<1>1. Init => Semaphores /\ WaitqExact
  BY DEF Init, Semaphores, InRange, WaitqExact, FreeObj, Waiting, NoCall
<1>2. TypeOK /\ Semaphores /\ [Next]_vars => Semaphores'
  BY SemaphoresStep
<1>3. TypeOK /\ TypeOK' /\ WaitqExact /\ [Next]_vars => WaitqExact'
  <2> SUFFICES ASSUME TypeOK, TypeOK', WaitqExact, [Next]_vars, NEW u \in Tid
               PROVE  waitq'[u] = Recorded(u)'
    BY DEF WaitqExact, Recorded
  <2>0. waitq[u] = Recorded(u)
    BY DEF WaitqExact, Recorded
  <2>1. ASSUME call'[u] = call[u], waitq'[u] = waitq[u] PROVE waitq'[u] = Recorded(u)'
    BY <2>0, <2>1 DEF Recorded, Waiting
  <2>2. CASE UNCHANGED <<call, waitq>>
    BY <2>1, <2>2
  <2>3. ASSUME NEW t \in Tid, CallStep(t) PROVE waitq'[u] = Recorded(u)'
    <3>1. CASE u # t \/ Stays(t)
      BY <2>1, <2>3, <3>1 DEF CallStep, Stays
    <3>2. CASE u = t /\ Returns(t)
      BY <3>2 DEF Returns, Recorded, Waiting, NoCall
    <3>3. CASE u = t /\ StartsWait(t)
      <4>1. waitq[t] = NoHandle
        BY <2>0, <3>3 DEF StartsWait, Recorded, Waiting, Idle
      <4>2. CASE call'[t].op = "single"
        <5>1. call'[t] \in WaitCall /\ waitq' = WqSet(t, call'[t].hs[1])
          BY <3>3, <4>2 DEF StartsWait
        <5>2. Recorded(t)' = call'[t].hs[1]
          BY <4>2 DEF Recorded, Waiting
        <5>3. waitq' = [waitq EXCEPT ![t] = call'[t].hs[1]]
          BY <4>1, <5>1, RoomInTable
        <5>4. waitq'[t] = call'[t].hs[1]
          BY <5>3 DEF TypeOK
        <5>5. QED
          BY <3>3, <5>2, <5>4
      <4>3. CASE call'[t].op # "single"
        BY <3>3, <4>1, <4>3 DEF StartsWait, Recorded
      <4>4. QED
        BY <4>2, <4>3
    <3>4. CASE u = t /\ (FallsAsleep(t) \/ WaitsForMutex(t))
      BY <2>0, <3>4 DEF FallsAsleep, WaitsForMutex, Recorded, Waiting, Idle, Asleep, Relocking
    <3>5. QED
      BY <2>3, <3>1, <3>2, <3>3, <3>4 DEF CallStep
  <2>4. QED
    BY <2>2, <2>3, NextCalls DEF vars
<1>4. TypeOK /\ Semaphores /\ WaitqExact => ObjectsExact
  BY DEF TypeOK, Object, Semaphores, InRange, ObjectsExact, SemaphoreInRange, IsA
<1>5. QED
  BY <1>1, <1>2, <1>3, <1>4, TypeCorrect, PTL DEF Spec

-----------------------------------------------------------------------------
(* The refinement: the initial state of wg_sync.c is one of Win32Objects, and *)
(* each of its steps is one of theirs or none.                                *)

USE DEF W!Nobody, W!TIMEOUT, W!FAILED, W!None, W!Closed,
        W!Event, W!Runner, W!Held

-----------------------------------------------------------------------------
(* What a sleeper goes back to is there.                                     *)

\* A sleeper's condition variable and mutex are still that, and the generation
\* it saw is not ahead of its condition variable.
SleepSlots ==
    \A t \in Tid :
        /\ Asleep(t) => /\ IsA(call[t].cv, "cv")
                        /\ call[t].gen <= objs[call[t].cv].count
        /\ Asleep(t) \/ Relocking(t) => IsA(call[t].m, "mutex")

\* A program without condition variables has no sleepers.
Sleepless ==
    /\ \A h \in Handle : ~IsA(h, "cv")
    /\ \A t \in Tid : ~Asleep(t) /\ ~Relocking(t)

SleepInv == IF "cv" \in Kinds THEN SleepSlots ELSE Sleepless

LEMMA SleepInvSlots == ASSUME SleepInv PROVE SleepSlots
BY DEF SleepInv, SleepSlots, Sleepless

\* A slot that is not closed keeps its kind, and its count does not go back.
LEMMA SlotKept ==
    ASSUME TypeOK, TypeOK', [Next]_vars, NEW h \in Handle, Live(h),
           objs[h].type \notin Closable
    PROVE  /\ objs'[h].type = objs[h].type
           /\ objs[h].type # "sem" => objs[h].count <= objs'[h].count
<1>1. SlotFate(h)
  BY NextFates DEF SlotFates
<1>2. objs[h].count \in Int /\ objs'[h].count \in Int
  BY DEF TypeOK, Object
<1>3. QED
  BY <1>1, <1>2 DEF SlotFate, SameKind

LEMMA SleepSlotsStep ==
    ASSUME TypeOK, TypeOK', SleepSlots, [Next]_vars, Closable \cap {"cv", "mutex"} = {}
    PROVE  SleepSlots'
<1> SUFFICES ASSUME NEW t \in Tid
             PROVE  (/\ Asleep(t) => /\ IsA(call[t].cv, "cv")
                                     /\ call[t].gen <= objs[call[t].cv].count
                     /\ Asleep(t) \/ Relocking(t) => IsA(call[t].m, "mutex"))'
  BY DEF SleepSlots
<1>1. Asleep(t) => /\ call[t].cv \in Handle /\ call[t].gen \in Int
                   /\ objs[call[t].cv].count \in Int
                   /\ objs'[call[t].cv].count \in Int
                   /\ objs'[call[t].cv].type = "cv"
                   /\ call[t].gen <= objs'[call[t].cv].count
  <2> SUFFICES ASSUME Asleep(t) PROVE /\ call[t].cv \in Handle /\ call[t].gen \in Int
                                      /\ objs[call[t].cv].count \in Int
                                      /\ objs'[call[t].cv].count \in Int
                                      /\ objs'[call[t].cv].type = "cv"
                                      /\ call[t].gen <= objs'[call[t].cv].count
    OBVIOUS
  <2>1. call[t].cv \in Handle /\ call[t].gen \in Int
    BY CallKinds DEF CvCall
  <2>2. /\ objs[call[t].cv].count \in Int /\ objs'[call[t].cv].count \in Int
        /\ objs[call[t].cv].type = "cv" /\ call[t].gen <= objs[call[t].cv].count
    BY <2>1 DEF SleepSlots, IsA, TypeOK, Object
  <2>3. /\ objs'[call[t].cv].type = "cv"
        /\ objs[call[t].cv].count <= objs'[call[t].cv].count
    BY <2>1, <2>2, SlotKept DEF Live
  <2>4. QED
    BY <2>1, <2>2, <2>3
<1>2. Asleep(t) \/ Relocking(t) => objs'[call[t].m].type = "mutex"
  <2> SUFFICES ASSUME Asleep(t) \/ Relocking(t) PROVE objs'[call[t].m].type = "mutex"
    OBVIOUS
  <2>1. call[t].m \in Handle
    BY CallKinds DEF CvCall, RelockCall
  <2>2. objs[call[t].m].type = "mutex"
    BY DEF SleepSlots, IsA
  <2>3. QED
    BY <2>1, <2>2, SlotKept DEF Live
<1>3. CASE call'[t] = call[t]
  BY <1>1, <1>2, <1>3 DEF Asleep, Relocking, IsA
<1>4. ASSUME CallStep(t), call'[t] # call[t]
      PROVE  (/\ Asleep(t) => /\ IsA(call[t].cv, "cv")
                              /\ call[t].gen <= objs[call[t].cv].count
              /\ Asleep(t) \/ Relocking(t) => IsA(call[t].m, "mutex"))'
  <2>1. CASE Returns(t) \/ StartsWait(t)
    BY <2>1 DEF Returns, StartsWait, NoCall, WaitCall, Asleep, Relocking
  <2>2. CASE FallsAsleep(t)
    <3>1. call'[t] \in Calls /\ call'[t].op = "cv"
      BY <2>2 DEF FallsAsleep, TypeOK, Asleep
    <3>2. call'[t] \in CvCall
      BY <3>1 DEF Calls, NoCall, WaitCall, RelockCall
    <3>3. objs'[call'[t].cv].count \in Int
      BY <3>2 DEF CvCall, TypeOK, Object
    <3>4. QED
      BY <2>2, <3>3 DEF FallsAsleep, Dozes, Asleep, Relocking, IsA
  <2>3. CASE WaitsForMutex(t)
    BY <1>2, <2>3 DEF WaitsForMutex, Asleep, Relocking, IsA
  <2>4. QED
    BY <1>4, <2>1, <2>2, <2>3 DEF CallStep, Stays
<1>5. CASE call' = call
  BY <1>3, <1>5
<1>6. ASSUME NEW u \in Tid, CallStep(u), u # t PROVE call'[t] = call[t]
  BY <1>6 DEF CallStep
<1>7. QED
  BY <1>3, <1>4, <1>5, <1>6, NextCalls DEF vars

LEMMA SleeplessStep ==
    ASSUME TypeOK, TypeOK', Sleepless, [Next]_vars, "cv" \notin Kinds
    PROVE  Sleepless'
<1>1. \A h \in Handle : objs'[h].type # "cv"
  BY NextFates DEF SlotFates, SlotFate, SameKind, Sleepless, IsA
<1>2. ASSUME NEW t \in Tid PROVE ~(Asleep(t) \/ Relocking(t))'
  <2>1. CASE call'[t] = call[t]
    BY <2>1 DEF Sleepless, Asleep, Relocking
  <2>2. ASSUME CallStep(t), ~Stays(t) PROVE ~(Asleep(t) \/ Relocking(t))'
    <3>1. ~FallsAsleep(t)
      <4> SUFFICES ASSUME FallsAsleep(t) PROVE FALSE
        OBVIOUS
      <4>1. call'[t] \in Calls /\ call'[t].op = "cv"
        BY DEF FallsAsleep, TypeOK, Asleep
      <4>2. call'[t] \in CvCall
        BY <4>1 DEF Calls, NoCall, WaitCall, RelockCall
      <4>3. QED
        BY <1>1, <4>2 DEF FallsAsleep, IsA, CvCall
    <3>2. ~WaitsForMutex(t)
      BY DEF WaitsForMutex, Sleepless
    <3>3. Returns(t) \/ StartsWait(t)
      BY <2>2, <3>1, <3>2 DEF CallStep
    <3>4. QED
      BY <3>3 DEF Returns, StartsWait, NoCall, WaitCall, Asleep, Relocking
  <2>3. ASSUME NEW u \in Tid, CallStep(u), u # t PROVE call'[t] = call[t]
    BY <2>3 DEF CallStep
  <2>4. QED
    BY <2>1, <2>2, <2>3, NextCalls DEF vars, Stays
<1>3. QED
  BY <1>1, <1>2 DEF Sleepless, IsA

-----------------------------------------------------------------------------
(* The mapping.                                                              *)

\* An object and its image: the kind, and what waits look at.
LEMMA Image ==
    ASSUME NEW o \in Object
    PROVE  /\ o.type = "event" =>
                AbsObject(o) = [k |-> "event", on |-> o.signalled, manual |-> o.manual]
           /\ o.type = "mutex" =>
                AbsObject(o) = [k |-> "mutex", owner |-> o.owner, depth |-> o.rec]
           /\ o.type = "sem" =>
                AbsObject(o) = [k |-> "sem", units |-> o.count, max |-> o.max]
           /\ o.type = "thread" => AbsObject(o) = [k |-> "thread", on |-> o.exited]
           /\ o.type = "cv" => AbsObject(o) = [k |-> "cv"]
           /\ o.type = "free" => AbsObject(o) = W!Closed
           /\ o.type = AbsObject(o).k \/ (o.type = "free" /\ AbsObject(o).k = "closed")
BY DEF AbsObject, Object, Kind, W!Closed

\* A wait is satisfied by an object exactly when its image signals.
LEMMA SignalsSame ==
    ASSUME NEW o \in Object, NEW t
    PROVE  W!Signals(AbsObject(o), t) <=> Satisfied(o, t)
BY Image DEF W!Signals, Satisfied, W!Nobody

\* What a wait takes from an object it takes from its image.
LEMMA ConsumedSame ==
    ASSUME NEW o \in Object, NEW t \in Tid
    PROVE  AbsObject(Acquired(o, t)) = W!Consumed(AbsObject(o), t)
<1>1. CASE o.type = "event"
  <2> DEFINE r == [o EXCEPT !.signalled = FALSE]
  <2>1. r \in Object /\ r.type = "event" /\ r.signalled = FALSE /\ r.manual = o.manual
    BY <1>1 DEF Object
  <2>2. Acquired(o, t) = IF ~o.manual THEN r ELSE o
    BY <1>1 DEF Acquired
  <2> HIDE DEF r
  <2>3. /\ AbsObject(o) = [k |-> "event", on |-> o.signalled, manual |-> o.manual]
        /\ AbsObject(r) = [k |-> "event", on |-> FALSE, manual |-> o.manual]
    BY <1>1, <2>1, Image, Zenon
  <2>4. CASE o.manual
    BY <1>1, <2>2, <2>3, <2>4 DEF W!Consumed
  <2>5. CASE ~o.manual
    BY <2>2, <2>3, <2>5 DEF W!Consumed
  <2>6. QED
    BY <2>4, <2>5
<1>2. CASE o.type = "mutex"
  <2>1. o.rec \in Nat /\ o.rec + 1 \in Nat
    BY DEF Object
  <2>2. /\ Acquired(o, t) = Owned(o, t, o.rec + 1)
        /\ Owned(o, t, o.rec + 1) \in Object
        /\ Owned(o, t, o.rec + 1).type = "mutex"
        /\ Owned(o, t, o.rec + 1).owner = t
        /\ Owned(o, t, o.rec + 1).rec = o.rec + 1
    BY <1>2, <2>1, OwnedObject DEF Acquired
  <2>3. /\ AbsObject(o) = [k |-> "mutex", owner |-> o.owner, depth |-> o.rec]
        /\ AbsObject(Acquired(o, t)) = [k |-> "mutex", owner |-> t, depth |-> o.rec + 1]
    BY <1>2, <2>2, Image
  <2>4. QED
    BY <2>3 DEF W!Consumed
<1>3. CASE o.type = "sem"
  <2> DEFINE r == [o EXCEPT !.count = o.count - 1]
  <2>1. r \in Object /\ r.type = "sem" /\ r.count = o.count - 1 /\ r.max = o.max
    BY <1>3 DEF Object
  <2>2. Acquired(o, t) = r
    BY <1>3 DEF Acquired
  <2> HIDE DEF r
  <2>3. /\ AbsObject(o) = [k |-> "sem", units |-> o.count, max |-> o.max]
        /\ AbsObject(r) = [k |-> "sem", units |-> o.count - 1, max |-> o.max]
    BY <1>3, <2>1, Image
  <2>4. QED
    BY <2>2, <2>3 DEF W!Consumed
<1>4. CASE o.type \in {"thread", "cv", "free"}
  <2>1. Acquired(o, t) = o
    BY <1>4 DEF Acquired
  <2>2. W!Consumed(AbsObject(o), t) = AbsObject(o)
    BY <1>4, Image DEF W!Consumed, W!Closed
  <2>3. QED
    BY <2>1, <2>2
<1>5. QED
  BY <1>1, <1>2, <1>3, <1>4 DEF Object, Kind

\* A mutex with its owner and depth set.
LEMMA HeldSame ==
    ASSUME NEW o \in Object, o.type = "mutex", NEW t \in Tid \cup {NoTid}, NEW n \in Nat
    PROVE  AbsObject(Owned(o, t, n)) = W!Held(t, n)
<1>1. /\ Owned(o, t, n) \in Object /\ Owned(o, t, n).type = "mutex"
      /\ Owned(o, t, n).owner = t /\ Owned(o, t, n).rec = n
  BY DEF Owned, Object
<1>2. QED
  BY <1>1, Image DEF W!Held

\* A blocked call and its image.
LEMMA CallImage ==
    ASSUME NEW c, NEW table
    PROVE  /\ c.op \in {"single", "multi"} => AbsCall(c, table) = AbsWait(c)
           /\ c.op = "cv" /\ table[c.cv].count = c.gen =>
                AbsCall(c, table) = [k |-> "sleep", cv |-> c.cv, m |-> c.m,
                                     depth |-> c.saved, timed |-> c.timed]
           /\ c.op = "cv" /\ table[c.cv].count # c.gen =>
                AbsCall(c, table) = [k |-> "awake", m |-> c.m, depth |-> c.saved,
                                     outcome |-> WAIT_OBJECT_0]
           /\ c.op = "relock" =>
                AbsCall(c, table) = [k |-> "awake", m |-> c.m, depth |-> c.saved,
                                     outcome |-> c.rv]
           /\ c.op = "none" => AbsCall(c, table) = W!None
BY DEF AbsCall, W!None

\* A call looks at the table only for the generation of its condition variable.
LEMMA SameImage ==
    ASSUME NEW c, NEW f, NEW g, c.op = "cv" => f[c.cv].count = g[c.cv].count
    PROVE  AbsCall(c, f) = AbsCall(c, g)
BY DEF AbsCall

\* A step of wg_sync.c is one of the abstract objects or none.
AbsStep == W!AbsNext \/ UNCHANGED <<AbsObjects, AbsCalls, ret>>

LEMMA Moves ==
    ASSUME NEW t \in Tid
    PROVE  /\ W!Open(t) \/ W!BeginWait(t) \/ W!BeginSleep(t) \/ W!Finish(t) => AbsStep
           /\ \A h \in Handle : W!Unlock(t, h) => AbsStep
BY DEF AbsStep, W!AbsNext

LEMMA ObjectMoves ==
    /\ \A h \in Handle : W!Shut(h) \/ W!Switch(h) \/ W!End(h) \/ W!Post(h) \/ W!Wake(h) => AbsStep
    /\ \A E, C \in SUBSET Handle : W!Rouse(E, C) => AbsStep
BY DEF AbsStep, W!AbsNext

\* No wake generation moves.
CvsKept == \A h \in Handle : IsA(h, "cv") => objs'[h].count = objs[h].count

\* A step that changes one object and no call.
LEMMA ObjectStep ==
    ASSUME TypeOK, SleepSlots, NEW h \in Handle, NEW o, UNCHANGED call,
           objs' = [objs EXCEPT ![h] = o],
           IsA(h, "cv") => o.count = objs[h].count
    PROVE  AbsObjects' = [AbsObjects EXCEPT ![h] = AbsObject(o)] /\ UNCHANGED AbsCalls
<1>1. \A g \in Handle : objs'[g] = IF g = h THEN o ELSE objs[g]
  BY DEF TypeOK
<1>2. AbsObjects' = [AbsObjects EXCEPT ![h] = AbsObject(o)]
  <2>1. AbsObjects' = [g \in Handle |-> AbsObject(objs'[g])]
    BY DEF AbsObjects
  <2>2. \A g \in Handle : AbsObject(objs'[g]) = IF g = h THEN AbsObject(o)
                                                       ELSE AbsObject(objs[g])
    BY <1>1
  <2>3. QED
    BY <2>1, <2>2 DEF AbsObjects
<1>3. ASSUME NEW u \in Tid PROVE AbsCall(call[u], objs) = AbsCall(call'[u], objs')
  <2>1. Asleep(u) => call[u].cv \in Handle /\ IsA(call[u].cv, "cv")
    BY CallKinds DEF SleepSlots, CvCall
  <2>2. call[u].op = "cv" => objs[call[u].cv].count = objs'[call[u].cv].count
    BY <1>1, <2>1 DEF Asleep
  <2>3. QED
    BY <2>2, SameImage
<1>4. QED
  BY <1>2, <1>3 DEF AbsCalls

\* A step that changes one call and no generation.
LEMMA OneCall ==
    ASSUME TypeOK, SleepSlots, NEW t \in Tid, NEW c, call' = [call EXCEPT ![t] = c], CvsKept
    PROVE  AbsCalls' = [AbsCalls EXCEPT ![t] = AbsCall(c, objs')]
<1>1. \A u \in Tid : call'[u] = IF u = t THEN c ELSE call[u]
  BY DEF TypeOK
<1>2. ASSUME NEW u \in Tid, u # t PROVE AbsCall(call'[u], objs') = AbsCall(call[u], objs)
  <2>1. Asleep(u) => call[u].cv \in Handle /\ IsA(call[u].cv, "cv")
    BY CallKinds DEF SleepSlots, CvCall
  <2>2. QED
    BY <1>1, <1>2, <2>1, SameImage DEF Asleep, CvsKept
<1>3. AbsCalls' = [u \in Tid |-> AbsCall(call'[u], objs')]
  BY DEF AbsCalls
<1>4. \A u \in Tid : AbsCall(call'[u], objs') = IF u = t THEN AbsCall(c, objs')
                                                      ELSE AbsCall(call[u], objs)
  BY <1>1, <1>2
<1>5. QED
  BY <1>3, <1>4 DEF AbsCalls

LEMMA SameCvs == ASSUME UNCHANGED objs PROVE CvsKept
BY DEF CvsKept

\* A call returns.
LEMMA ReturnDone ==
    ASSUME TypeOK, SleepSlots, NEW t \in Tid, NEW rv, Return(t, rv), CvsKept
    PROVE  W!Done(t, rv)
<1>1. AbsCalls' = [AbsCalls EXCEPT ![t] = AbsCall(NoCall, objs')]
  BY OneCall DEF Return
<1>2. AbsCall(NoCall, objs') = W!None
  BY CallImage DEF NoCall
<1>3. QED
  BY <1>1, <1>2 DEF W!Done, Return

-----------------------------------------------------------------------------
(* Creation and signalling.                                                  *)

LEMMA OpenAbs ==
    ASSUME TypeOK, SleepSlots, NEW t \in Tid, NEW kind, NEW o, Create(kind, o),
           AbsObject(o) \in W!Fresh(t)
    PROVE  AbsStep
<1>1. PICK h \in Handle : FreeSlot(h) /\ objs' = [objs EXCEPT ![h] = o]
  BY DEF Create
<1>2. AbsObjects' = [AbsObjects EXCEPT ![h] = AbsObject(o)] /\ UNCHANGED AbsCalls
  BY <1>1, ObjectStep DEF Create, FreeSlot, Live, IsA
<1>3. objs[h] \in Object /\ objs[h].type = "free"
  BY <1>1 DEF TypeOK, FreeSlot, Live
<1>4. AbsObjects[h] = W!Closed
  BY <1>3, Image DEF AbsObjects
<1>5. UNCHANGED ret
  BY DEF Create
<1>6. W!Open(t)
  BY <1>2, <1>4, <1>5 DEF W!Open
<1>7. QED
  BY <1>6, Moves

\* What a creation makes is fresh.
LEMMA CreateAbs ==
    ASSUME TypeOK, SleepSlots, NEW t \in Tid, CreateStep(t)
    PROVE  AbsStep
<1>1. CASE CreateEvent(t)
  <2>1. PICK manual \in BOOLEAN, initial \in BOOLEAN :
          Create("event", [FreeObj EXCEPT !.type = "event", !.manual = manual,
                                          !.signalled = initial])
    BY <1>1 DEF CreateEvent
  <2> DEFINE o == [FreeObj EXCEPT !.type = "event", !.manual = manual,
                                  !.signalled = initial]
  <2>2. o.type = "event" /\ o.signalled = initial /\ o.manual = manual
    BY DEF FreeObj
  <2> HIDE DEF o
  <2>3. AbsObject(o) = W!Event(initial, manual)
    BY <2>2 DEF AbsObject
  <2>4. AbsObject(o) \in W!Fresh(t)
    BY <2>3 DEF W!Fresh
  <2>5. QED
    BY <2>1, <2>4, OpenAbs DEF o
<1>2. CASE CreateMutex(t)
  <2>1. PICK owned \in BOOLEAN :
          Create("mutex", [FreeObj EXCEPT !.type = "mutex",
                             !.owner = IF owned THEN t ELSE NoTid,
                             !.rec = IF owned THEN 1 ELSE 0])
    BY <1>2 DEF CreateMutex
  <2> DEFINE o == [FreeObj EXCEPT !.type = "mutex",
                             !.owner = IF owned THEN t ELSE NoTid,
                             !.rec = IF owned THEN 1 ELSE 0]
  <2>2. /\ o.type = "mutex" /\ o.owner = (IF owned THEN t ELSE 0)
        /\ o.rec = (IF owned THEN 1 ELSE 0)
    BY DEF FreeObj
  <2> HIDE DEF o
  <2>3. AbsObject(o) = W!Held(t, 1) \/ AbsObject(o) = W!Held(0, 0)
    BY <2>2 DEF AbsObject
  <2>4. AbsObject(o) \in W!Fresh(t)
    BY <2>3 DEF W!Fresh
  <2>5. QED
    BY <2>1, <2>4, OpenAbs DEF o
<1>3. CASE CreateSemaphore(t)
  <2>1. PICK max \in 1 .. MaxCount : \E n \in 0 .. max :
          Create("sem", [FreeObj EXCEPT !.type = "sem", !.count = n, !.max = max])
    BY <1>3 DEF CreateSemaphore
  <2>2. PICK initial \in 0 .. max :
          Create("sem", [FreeObj EXCEPT !.type = "sem", !.count = initial, !.max = max])
    BY <2>1
  <2> DEFINE o == [FreeObj EXCEPT !.type = "sem", !.count = initial, !.max = max]
  <2>3. o.type = "sem" /\ o.count = initial /\ o.max = max
    BY DEF FreeObj
  <2> HIDE DEF o
  <2>4. AbsObject(o) = [k |-> "sem", units |-> initial, max |-> max]
    BY <2>3 DEF AbsObject
  <2>5. initial \in 0 .. MaxCount /\ max \in 0 .. MaxCount /\ initial <= max
    BY SyncAssumption DEF SyncAssumption
  <2>6. AbsObject(o) \in W!Fresh(t)
    BY <2>4, <2>5 DEF W!Fresh
  <2>7. QED
    BY <2>2, <2>6, OpenAbs DEF o
<1>4. CASE CreateThreadObj(t)
  <2>1. PICK u \in Tid : Create("thread", [FreeObj EXCEPT !.type = "thread", !.owner = u])
    BY <1>4 DEF CreateThreadObj
  <2> DEFINE o == [FreeObj EXCEPT !.type = "thread", !.owner = u]
  <2>2. o.type = "thread" /\ o.exited = FALSE
    BY DEF FreeObj
  <2> HIDE DEF o
  <2>3. AbsObject(o) = W!Runner(FALSE)
    BY <2>2 DEF AbsObject
  <2>4. AbsObject(o) \in W!Fresh(t)
    BY <2>3 DEF W!Fresh
  <2>5. QED
    BY <2>1, <2>4, OpenAbs DEF o
<1>5. CASE CreateCv(t)
  <2>1. [FreeObj EXCEPT !.type = "cv"].type = "cv"
    BY DEF FreeObj
  <2>2. AbsObject([FreeObj EXCEPT !.type = "cv"]) = [k |-> "cv"]
    BY <2>1 DEF AbsObject
  <2>3. [k |-> "cv"] \in W!Fresh(t)
    BY DEF W!Fresh
  <2>4. QED
    BY <1>5, <2>2, <2>3, OpenAbs DEF CreateCv
<1>6. QED
  BY <1>1, <1>2, <1>3, <1>4, <1>5 DEF CreateStep

\* An object takes on another state of its kind.
LEMMA ObjectAbs ==
    ASSUME TypeOK, SleepSlots, NEW h \in Handle, NEW o, UNCHANGED <<call, ret>>,
           objs' = [objs EXCEPT ![h] = o], ~IsA(h, "cv")
    PROVE  /\ AbsObjects' = [AbsObjects EXCEPT ![h] = AbsObject(o)]
           /\ UNCHANGED <<AbsCalls, ret>>
           /\ objs[h] \in Object
           /\ AbsObjects[h] = AbsObject(objs[h])
<1>1. objs[h] \in Object /\ AbsObjects[h] = AbsObject(objs[h])
  BY DEF TypeOK, AbsObjects
<1>2. QED
  BY <1>1, ObjectStep

LEMMA SwitchAbs ==
    ASSUME TypeOK, SleepSlots, NEW h \in Handle, NEW b \in BOOLEAN, IsA(h, "event"),
           objs' = [objs EXCEPT ![h] = [objs[h] EXCEPT !.signalled = b]],
           UNCHANGED <<call, ret>>
    PROVE  AbsStep
<1> DEFINE o == [objs[h] EXCEPT !.signalled = b]
<1>1. o \in Object /\ o.type = "event" /\ o.signalled = b /\ o.manual = objs[h].manual
  BY DEF TypeOK, Object, IsA
<1>2. objs' = [objs EXCEPT ![h] = o]
  OBVIOUS
<1> HIDE DEF o
<1>3. /\ AbsObjects' = [AbsObjects EXCEPT ![h] = AbsObject(o)]
      /\ UNCHANGED <<AbsCalls, ret>>
      /\ objs[h] \in Object
      /\ AbsObjects[h] = AbsObject(objs[h])
  BY <1>2, ObjectAbs DEF IsA
<1>4. /\ AbsObject(o) = W!Event(b, objs[h].manual)
      /\ AbsObjects[h].k = "event" /\ AbsObjects[h].manual = objs[h].manual
  BY <1>1, <1>3, Image DEF IsA
<1>5. W!Switch(h)
  BY <1>3, <1>4 DEF W!Switch
<1>6. QED
  BY <1>5, ObjectMoves

LEMMA EndAbs ==
    ASSUME TypeOK, SleepSlots, NEW t \in Tid, NEW h \in Handle, ThreadExit(t, h)
    PROVE  AbsStep
<1> DEFINE o == [objs[h] EXCEPT !.exited = TRUE]
<1>1. o.type = "thread" /\ o.exited = TRUE
  BY DEF TypeOK, Object, IsA, ThreadExit
<1>2. objs' = [objs EXCEPT ![h] = o]
  BY DEF ThreadExit
<1> HIDE DEF o
<1>3. /\ AbsObjects' = [AbsObjects EXCEPT ![h] = AbsObject(o)]
      /\ UNCHANGED <<AbsCalls, ret>>
      /\ objs[h] \in Object
      /\ AbsObjects[h] = AbsObject(objs[h])
  BY <1>2, ObjectAbs DEF IsA, ThreadExit
<1>4. AbsObject(o) = W!Runner(TRUE)
  BY <1>1 DEF AbsObject
<1>5. AbsObjects[h].k = "thread"
  BY <1>3, Image DEF IsA, ThreadExit
<1>6. W!End(h)
  BY <1>3, <1>4, <1>5 DEF W!End
<1>7. QED
  BY <1>6, ObjectMoves

LEMMA UnlockAbs ==
    ASSUME TypeOK, SleepSlots, NEW t \in Tid, NEW h \in Handle, ReleaseMutex(t, h)
    PROVE  AbsStep
<1>1. objs[h] \in Object /\ objs[h].rec \in Nat /\ objs[h].type = "mutex"
      /\ objs[h].owner = t /\ objs[h].rec > 0 /\ call[t].op = "none"
  BY DEF TypeOK, Object, ReleaseMutex, IsA, Idle
<1> DEFINE v == IF objs[h].rec = 1 THEN 0 ELSE t
           n == objs[h].rec - 1
<1>2. n \in Nat /\ v \in Tid \cup {NoTid}
  BY <1>1
<1>3. objs' = [objs EXCEPT ![h] = Owned(objs[h], v, n)]
  <2>1. CASE objs[h].rec = 1
    BY <2>1 DEF ReleaseMutex
  <2>2. CASE objs[h].rec # 1
    <3>1. objs' = [objs EXCEPT ![h] = [objs[h] EXCEPT !.rec = n]]
      BY <2>2 DEF ReleaseMutex
    <3>2. [objs[h] EXCEPT !.rec = n] = Owned(objs[h], t, n)
      BY <1>1 DEF Owned, Object
    <3>3. QED
      BY <2>2, <3>1, <3>2
  <2>3. QED
    BY <2>1, <2>2
<1>4. AbsObject(Owned(objs[h], v, n)) = W!Held(v, n)
  BY <1>1, <1>2, HeldSame, Zenon
<1>5. /\ AbsObjects' = [AbsObjects EXCEPT ![h] = AbsObject(Owned(objs[h], v, n))]
      /\ UNCHANGED <<AbsCalls, ret>>
      /\ objs[h] \in Object
      /\ AbsObjects[h] = AbsObject(objs[h])
  BY <1>1, <1>3, ObjectAbs DEF IsA, ReleaseMutex
<1>6. /\ AbsObjects[h].k = "mutex" /\ AbsObjects[h].owner = t
      /\ AbsObjects[h].depth = objs[h].rec
  BY <1>1, <1>5, Image
<1>7. W!NotPending(t)
  BY <1>1, CallImage DEF W!NotPending, AbsCalls
<1>8. AbsObjects' = [AbsObjects EXCEPT ![h] =
         W!Held(IF AbsObjects[h].depth = 1 THEN 0 ELSE t, AbsObjects[h].depth - 1)]
  BY <1>4, <1>5, <1>6
<1>9. W!Unlock(t, h)
  BY <1>5, <1>6, <1>7, <1>8, Zenon DEF W!Unlock
<1>10. QED
  BY <1>9, Moves

LEMMA PostAbs ==
    ASSUME TypeOK, SleepSlots, Semaphores, NEW t \in Tid, NEW h \in Handle,
           ReleaseSemaphore(t, h)
    PROVE  AbsStep
<1>1. /\ objs[h] \in Object /\ objs[h].type = "sem"
      /\ objs[h].count \in Int /\ objs[h].max \in Int
      /\ objs[h].count <= objs[h].max /\ objs[h].max > 0
  BY DEF TypeOK, Object, ReleaseSemaphore, IsA, Semaphores, InRange
<1>2. PICK n \in 1 .. MaxCount :
        objs' = [objs EXCEPT ![h].count =
                   IF objs[h].max > 0 /\ @ + n > objs[h].max
                     THEN objs[h].max ELSE @ + n]
  BY DEF ReleaseSemaphore
<1> DEFINE u == IF objs[h].count + n > objs[h].max THEN objs[h].max ELSE objs[h].count + n
           o == [objs[h] EXCEPT !.count = u]
<1>3. u \in objs[h].count .. objs[h].max
  BY <1>1, <1>2, SyncAssumption DEF SyncAssumption
<1>4. objs' = [objs EXCEPT ![h] = o]
  BY <1>1, <1>2
<1> HIDE DEF u
<1>5. o.type = "sem" /\ o.count = u /\ o.max = objs[h].max
  BY <1>1 DEF Object
<1> HIDE DEF o
<1>6. /\ AbsObjects' = [AbsObjects EXCEPT ![h] = AbsObject(o)]
      /\ UNCHANGED <<AbsCalls, ret>>
      /\ AbsObjects[h] = AbsObject(objs[h])
  BY <1>1, <1>4, ObjectAbs DEF IsA, ReleaseSemaphore
<1>7. AbsObject(o) = [k |-> "sem", units |-> u, max |-> objs[h].max]
  BY <1>5 DEF AbsObject
<1>8. AbsObjects[h] = [k |-> "sem", units |-> objs[h].count, max |-> objs[h].max]
  BY <1>1, <1>6, Image
<1>9. [AbsObjects[h] EXCEPT !.units = u] = [k |-> "sem", units |-> u, max |-> objs[h].max]
  BY <1>8
<1>10. /\ AbsObjects[h].k = "sem"
       /\ u \in AbsObjects[h].units .. AbsObjects[h].max
  BY <1>3, <1>8
<1>11. AbsObjects' = [AbsObjects EXCEPT ![h] = [AbsObjects[h] EXCEPT !.units = u]]
  BY <1>6, <1>7, <1>9
<1>12. W!Post(h)
  BY <1>6, <1>10, <1>11, Zenon DEF W!Post
<1>13. QED
  BY <1>12, ObjectMoves

LEMMA ShutAbs ==
    ASSUME TypeOK, SleepSlots, NEW t \in Tid, NEW h \in Handle, Close(t, h)
    PROVE  AbsStep
<1> DEFINE o == [objs[h] EXCEPT !.type = "free"]
<1>1. objs[h] \in Object /\ objs[h].type # "free"
  BY DEF TypeOK, Close, Live
<1>2. o.type = "free" /\ o.count = objs[h].count
  BY <1>1 DEF Object
<1>3. objs' = [objs EXCEPT ![h] = o] /\ UNCHANGED <<call, ret>>
  BY DEF Close
<1> HIDE DEF o
<1>4. AbsObjects' = [AbsObjects EXCEPT ![h] = AbsObject(o)] /\ UNCHANGED AbsCalls
  BY <1>2, <1>3, ObjectStep
<1>5. AbsObject(o) = W!Closed
  BY <1>2 DEF AbsObject
<1>6. AbsObjects[h] # W!Closed
  BY <1>1, Image DEF AbsObjects, Object, Kind
<1>7. W!Shut(h)
  BY <1>3, <1>4, <1>5, <1>6 DEF W!Shut
<1>8. QED
  BY <1>7, ObjectMoves

\* The condition variables in C are woken: exactly their sleepers are awake.
LEMMA WokenCalls ==
    ASSUME TypeOK, TypeOK', SleepSlots, UNCHANGED call, NEW C \in SUBSET Handle,
           \A h \in C : IsA(h, "cv"),
           \A h \in Handle : IsA(h, "cv") =>
               objs'[h].count = IF h \in C THEN objs[h].count + 1 ELSE objs[h].count
    PROVE  /\ AbsCalls' = [t \in Tid |-> IF W!Sleeps(t) /\ AbsCalls[t].cv \in C
                                           THEN W!Awoken(t, 0) ELSE AbsCalls[t]]
           /\ \A t \in Tid : W!Sleeps(t) => AbsCalls[t].cv \in Handle
<1> SUFFICES ASSUME NEW t \in Tid
             PROVE  /\ AbsCall(call[t], objs') = IF W!Sleeps(t) /\ AbsCalls[t].cv \in C
                                                   THEN W!Awoken(t, 0) ELSE AbsCalls[t]
                    /\ W!Sleeps(t) => AbsCalls[t].cv \in Handle
  <2>1. AbsCalls' = [t \in Tid |-> AbsCall(call[t], objs')]
    BY DEF AbsCalls
  <2>2. QED
    BY <2>1
<1>1. AbsCalls[t] = AbsCall(call[t], objs)
  BY DEF AbsCalls
<1>2. CASE ~Asleep(t)
  <2>1. AbsCall(call[t], objs') = AbsCall(call[t], objs)
    BY <1>2, SameImage DEF Asleep
  <2>2. ~W!Sleeps(t)
    BY <1>1, <1>2 DEF W!Sleeps, AbsCall, AbsWait, Asleep
  <2>3. QED
    BY <1>1, <2>1, <2>2
<1>3. CASE Asleep(t)
  <2> DEFINE c == call[t]
  <2>1. /\ c.op = "cv" /\ c.cv \in Handle /\ c.gen \in Int
        /\ IsA(c.cv, "cv") /\ c.gen <= objs[c.cv].count /\ objs[c.cv].count \in Int
    BY <1>3, CallKinds DEF Asleep, CvCall, SleepSlots, TypeOK, Object
  <2>2. objs'[c.cv].count = IF c.cv \in C THEN objs[c.cv].count + 1 ELSE objs[c.cv].count
    BY <2>1
  <2>3. CASE objs[c.cv].count = c.gen
    <3>1. AbsCalls[t] = [k |-> "sleep", cv |-> c.cv, m |-> c.m,
                         depth |-> c.saved, timed |-> c.timed]
      BY <1>1, <2>1, <2>3, CallImage
    <3>2. /\ W!Sleeps(t) /\ AbsCalls[t].cv = c.cv
          /\ W!Awoken(t, 0) = [k |-> "awake", m |-> c.m, depth |-> c.saved, outcome |-> 0]
      BY <3>1 DEF W!Sleeps, W!Awoken
    <3>3. CASE c.cv \in C
      <4>1. objs'[c.cv].count # c.gen
        BY <2>1, <2>2, <2>3, <3>3
      <4>2. AbsCall(c, objs') = [k |-> "awake", m |-> c.m, depth |-> c.saved, outcome |-> 0]
        BY <2>1, <4>1, CallImage
      <4>3. QED
        BY <2>1, <3>2, <3>3, <4>2
    <3>4. CASE c.cv \notin C
      <4>1. AbsCall(c, objs') = AbsCall(c, objs)
        BY <2>2, <3>4, SameImage
      <4>2. QED
        BY <1>1, <2>1, <3>2, <3>4, <4>1
    <3>5. QED
      BY <3>3, <3>4
  <2>4. CASE objs[c.cv].count # c.gen
    <3>1. objs'[c.cv].count # c.gen
      BY <2>1, <2>2, <2>4
    <3>2. /\ AbsCalls[t] = [k |-> "awake", m |-> c.m, depth |-> c.saved, outcome |-> 0]
          /\ AbsCall(c, objs') = [k |-> "awake", m |-> c.m, depth |-> c.saved,
                                  outcome |-> 0]
      BY <1>1, <2>1, <2>4, <3>1, CallImage
    <3>3. ~W!Sleeps(t)
      BY <3>2 DEF W!Sleeps
    <3>4. QED
      BY <3>2, <3>3
  <2>5. QED
    BY <2>3, <2>4
<1>4. QED
  BY <1>2, <1>3

LEMMA WakeAbs ==
    ASSUME TypeOK, TypeOK', SleepSlots, NEW t \in Tid, NEW cv \in Handle, CvWake(t, cv)
    PROVE  AbsStep
<1> DEFINE o == [objs[cv] EXCEPT !.count = objs[cv].count + 1]
<1>1. objs[cv] \in Object /\ objs[cv].type = "cv"
  BY DEF TypeOK, CvWake, IsA
<1>2. o.type = "cv" /\ o.count = objs[cv].count + 1
  BY <1>1 DEF Object
<1>3. objs' = [objs EXCEPT ![cv] = o] /\ UNCHANGED <<call, ret>>
  BY DEF CvWake
<1> HIDE DEF o
<1>4. \A h \in Handle : objs'[h] = IF h = cv THEN o ELSE objs[h]
  BY <1>3 DEF TypeOK
<1>5. AbsObjects' = AbsObjects
  <2>1. AbsObject(o) = [k |-> "cv"] /\ AbsObject(objs[cv]) = [k |-> "cv"]
    BY <1>1, <1>2 DEF AbsObject
  <2>2. \A h \in Handle : AbsObject(objs'[h]) = AbsObject(objs[h])
    BY <1>4, <2>1
  <2>3. QED
    BY <2>2 DEF AbsObjects
<1>6. \A h \in Handle : IsA(h, "cv") =>
         objs'[h].count = IF h \in {cv} THEN objs[h].count + 1 ELSE objs[h].count
  BY <1>2, <1>4
<1>7. AbsCalls' = [u \in Tid |-> IF W!Sleeps(u) /\ AbsCalls[u].cv \in {cv}
                                   THEN W!Awoken(u, 0) ELSE AbsCalls[u]]
  BY <1>1, <1>3, <1>6, WokenCalls DEF IsA
<1>8. W!Wake(cv)
  <2> DEFINE S == {u \in Tid : W!Sleeps(u) /\ AbsCalls[u].cv = cv}
  <2>1. S \in SUBSET S /\ (S # {} => S # {})
    OBVIOUS
  <2>2. \A u \in Tid : u \in S <=> W!Sleeps(u) /\ AbsCalls[u].cv \in {cv}
    OBVIOUS
  <2> HIDE DEF S
  <2>3. AbsCalls' = [u \in Tid |-> IF u \in S THEN W!Awoken(u, 0) ELSE AbsCalls[u]]
    BY <1>7, <2>2
  <2>4. \E A \in SUBSET S :
            /\ S # {} => A # {}
            /\ AbsCalls' = [u \in Tid |-> IF u \in A THEN W!Awoken(u, 0) ELSE AbsCalls[u]]
    BY <2>1, <2>3
  <2>5. QED
    BY <1>3, <1>5, <2>4 DEF W!Wake, S
<1>9. QED
  BY <1>8, ObjectMoves

LEMMA KickTidAbs ==
    ASSUME TypeOK, SleepSlots, NEW t \in Tid, KickTid(t)
    PROVE  AbsStep
<1>1. PICK p \in Tid : /\ waitq[p] # NoHandle
                       /\ Kickable(waitq[p], FALSE)
                       /\ objs' = Signalled({waitq[p]})
  BY DEF KickTid
<1> DEFINE h == waitq[p]
<1>2. h \in Handle /\ IsA(h, "event")
  BY <1>1 DEF TypeOK, Kickable
<1>3. objs' = [objs EXCEPT ![h] = [objs[h] EXCEPT !.signalled = TRUE]]
  <2>1. objs' = [g \in Handle |-> IF g \in {h} THEN [objs[g] EXCEPT !.signalled = TRUE]
                                               ELSE objs[g]]
    BY <1>1 DEF Signalled
  <2>2. objs \in [Handle -> Object]
    BY DEF TypeOK
  <2>3. QED
    BY <1>2, <2>1, <2>2
<1>4. QED
  BY <1>2, <1>3, SwitchAbs DEF KickTid

LEMMA KickWorkersAbs ==
    ASSUME TypeOK, TypeOK', SleepSlots, KickWorkers
    PROVE  AbsStep
<1> DEFINE who == {p \in Tid : waitq[p] # NoHandle /\ ("all" \in Kicks \/ p # MainTid)}
           E == {waitq[p] : p \in {q \in who : Kickable(waitq[q], "manual" \in Kicks)}}
           C == IF "cv" \in Kicks THEN {h \in Handle : IsA(h, "cv")} ELSE {}
<1>1. E \in SUBSET Handle /\ \A h \in E : IsA(h, "event")
  BY DEF TypeOK, Kickable
<1>2. C \in SUBSET Handle /\ \A h \in C : IsA(h, "cv")
  OBVIOUS
<1>3. /\ objs' = [h \in Handle |-> IF h \in C THEN [objs[h] EXCEPT !.count = @ + 1]
                                              ELSE Signalled(E)[h]]
      /\ UNCHANGED <<call, ret>>
  BY DEF KickWorkers
<1> HIDE DEF E, C
<1>4. \A h \in Handle : objs'[h] = IF h \in C THEN [objs[h] EXCEPT !.count = @ + 1]
                                   ELSE IF h \in E THEN [objs[h] EXCEPT !.signalled = TRUE]
                                   ELSE objs[h]
  BY <1>3 DEF Signalled
<1>5. \A h \in Handle : IsA(h, "cv") =>
         objs'[h].count = IF h \in C THEN objs[h].count + 1 ELSE objs[h].count
  <2> SUFFICES ASSUME NEW h \in Handle, IsA(h, "cv")
               PROVE  objs'[h].count = IF h \in C THEN objs[h].count + 1 ELSE objs[h].count
    OBVIOUS
  <2>1. objs[h] \in Object /\ h \notin E
    BY <1>1 DEF TypeOK, IsA
  <2>2. QED
    BY <1>4, <2>1 DEF Object
<1>6. AbsCalls' = [t \in Tid |-> IF W!Sleeps(t) /\ AbsCalls[t].cv \in C
                                   THEN W!Awoken(t, 0) ELSE AbsCalls[t]]
  BY <1>2, <1>3, <1>5, WokenCalls, Zenon
<1>7. AbsObjects' = [h \in Handle |-> IF h \in E THEN W!Event(TRUE, AbsObjects[h].manual)
                                                 ELSE AbsObjects[h]]
  <2> SUFFICES ASSUME NEW h \in Handle
               PROVE  AbsObject(objs'[h]) = IF h \in E
                        THEN W!Event(TRUE, AbsObjects[h].manual) ELSE AbsObjects[h]
    <3>1. AbsObjects' = [h \in Handle |-> AbsObject(objs'[h])]
      BY DEF AbsObjects
    <3>2. QED
      BY <3>1
  <2>1. AbsObjects[h] = AbsObject(objs[h]) /\ objs[h] \in Object
    BY DEF AbsObjects, TypeOK
  <2>2. CASE h \in C
    <3>1. objs'[h].type = "cv" /\ objs[h].type = "cv" /\ h \notin E
      BY <1>1, <1>2, <1>4, <2>1, <2>2 DEF Object, IsA
    <3>2. QED
      BY <2>1, <3>1 DEF AbsObject
  <2>3. CASE h \in E
    <3>1. /\ objs'[h].type = "event" /\ objs'[h].signalled = TRUE
          /\ objs'[h].manual = objs[h].manual /\ objs[h].type = "event"
      BY <1>1, <1>2, <1>4, <2>1, <2>3 DEF Object, IsA
    <3>2. AbsObject(objs'[h]) = W!Event(TRUE, objs[h].manual)
      BY <3>1 DEF AbsObject
    <3>3. AbsObjects[h].manual = objs[h].manual
      BY <2>1, <3>1, Image
    <3>4. QED
      BY <2>3, <3>2, <3>3
  <2>4. CASE h \notin C /\ h \notin E
    BY <1>4, <2>1, <2>4
  <2>5. QED
    BY <2>2, <2>3, <2>4
<1>8. /\ \A h \in E : AbsObjects[h].k = "event"
      /\ \A h \in C : AbsObjects[h].k = "cv"
  <2>1. \A h \in E : AbsObjects[h].k = "event"
    BY <1>1, Image DEF AbsObjects, TypeOK, IsA
  <2>2. \A h \in C : AbsObjects[h].k = "cv"
    BY <1>2, Image DEF AbsObjects, TypeOK, IsA
  <2>3. QED
    BY <2>1, <2>2
<1>9. W!Rouse(E, C)
  BY <1>3, <1>6, <1>7, <1>8 DEF W!Rouse
<1>10. QED
  BY <1>1, <1>2, <1>9, ObjectMoves

\* What signals, releases, wakes or closes an object.
LEMMA SignalAbs ==
    ASSUME TypeOK, TypeOK', SleepSlots, Semaphores, NEW t \in Tid, SignalStep(t)
    PROVE  AbsStep
<1>1. ASSUME NEW h \in Handle, SetEvent(t, h) PROVE AbsStep
  <2>1. objs' = [objs EXCEPT ![h] = [objs[h] EXCEPT !.signalled = TRUE]]
    BY <1>1 DEF SetEvent
  <2>2. QED
    BY <1>1, <2>1, SwitchAbs DEF SetEvent
<1>2. ASSUME NEW h \in Handle, ResetEvent(t, h) \/ PulseEvent(t, h) PROVE AbsStep
  <2>1. objs' = [objs EXCEPT ![h] = [objs[h] EXCEPT !.signalled = FALSE]]
    BY <1>2 DEF ResetEvent, PulseEvent
  <2>2. QED
    BY <1>2, <2>1, SwitchAbs DEF ResetEvent, PulseEvent
<1>3. QED
  BY <1>1, <1>2, UnlockAbs, PostAbs, EndAbs, WakeAbs, ShutAbs, KickTidAbs DEF SignalStep

-----------------------------------------------------------------------------
(* Waits.                                                                    *)

\* An image of a wait: its fields.
LEMMA WaitImage ==
    ASSUME NEW w
    PROVE  /\ AbsWait(w).k = "wait" /\ AbsWait(w).hs = w.hs
           /\ AbsWait(w).all = w.all /\ AbsWait(w).timed = w.timed
BY DEF AbsWait

LEMMA WaitHandles ==
    ASSUME NEW w \in WaitCall
    PROVE  /\ DOMAIN w.hs = 1 .. Len(w.hs) /\ Len(w.hs) \in Nat
           /\ \A i \in DOMAIN w.hs : w.hs[i] \in Handle
BY DEF WaitCall

LEMMA SignalsImage ==
    ASSUME TypeOK, NEW h \in Handle, NEW t
    PROVE  W!Signals(AbsObjects[h], t) <=> Satisfied(objs[h], t)
BY SignalsSame DEF TypeOK, AbsObjects

\* The abstract objects allow a wait exactly when it is ready.
LEMMA AllowsSame ==
    ASSUME TypeOK, NEW t \in Tid, NEW w \in WaitCall
    PROVE  W!Allows(AbsWait(w), t) <=> Ready(w, t)
BY WaitImage, WaitHandles, SignalsImage DEF W!Allows, Ready

LEMMA LowestSame ==
    ASSUME TypeOK, NEW t \in Tid, NEW w \in WaitCall,
           \E i \in DOMAIN w.hs : Satisfied(objs[w.hs[i]], t)
    PROVE  W!Lowest(AbsWait(w), t) = FirstHit(w, t)
<1> DEFINE f == FirstHit(w, t)
           P(i) == /\ W!Signals(AbsObjects[AbsWait(w).hs[i]], t)
                   /\ \A j \in 1 .. (i - 1) :
                        ~W!Signals(AbsObjects[AbsWait(w).hs[j]], t)
<1>1. /\ f \in DOMAIN w.hs
      /\ Satisfied(objs[w.hs[f]], t)
      /\ \A j \in DOMAIN w.hs : Satisfied(objs[w.hs[j]], t) => f <= j
  BY FirstHitExists
<1>2. AbsWait(w).hs = w.hs
  BY WaitImage
<1>3. \A i \in DOMAIN w.hs : W!Signals(AbsObjects[w.hs[i]], t) <=> Satisfied(objs[w.hs[i]], t)
  BY WaitHandles, SignalsImage
<1>4. DOMAIN w.hs = 1 .. Len(w.hs) /\ Len(w.hs) \in Nat
  BY WaitHandles
<1> HIDE DEF f
<1>5. P(f)
  BY <1>1, <1>2, <1>3, <1>4
<1>6. ASSUME NEW i \in DOMAIN w.hs, P(i) PROVE i = f
  <2>1. f <= i
    BY <1>1, <1>2, <1>3, <1>6
  <2>2. ~(f <= i - 1)
    BY <1>1, <1>2, <1>3, <1>4, <1>6
  <2>3. QED
    BY <1>1, <1>4, <2>1, <2>2
<1>7. W!Lowest(AbsWait(w), t) = CHOOSE i \in DOMAIN w.hs : P(i)
  BY <1>2 DEF W!Lowest
<1> HIDE DEF P
<1>8. QED
  BY <1>1, <1>5, <1>6, <1>7 DEF f

LEMMA GrantKeepsCvs ==
    ASSUME TypeOK, NEW t \in Tid, NEW w \in WaitCall, Ready(w, t), Grant(t, w)
    PROVE  CvsKept
<1> SUFFICES ASSUME NEW h \in Handle, IsA(h, "cv") PROVE objs'[h].count = objs[h].count
  BY DEF CvsKept
<1>1. ~Satisfied(objs[h], t)
  BY DEF Satisfied, IsA
<1>2. QED
  BY <1>1, GrantEffect

\* A granted wait completes.
LEMMA CompleteAbs ==
    ASSUME TypeOK, SleepSlots, NEW t \in Tid, NEW w \in WaitCall, Ready(w, t), Grant(t, w)
    PROVE  W!Complete(t, AbsWait(w))
<1>1. W!Allows(AbsWait(w), t)
  BY AllowsSame
<1> DEFINE hit == IF w.all THEN DOMAIN w.hs ELSE {W!Lowest(AbsWait(w), t)}
           rv == IF w.all THEN 0 ELSE W!Lowest(AbsWait(w), t) - 1
<1>2. ~w.all => W!Lowest(AbsWait(w), t) = FirstHit(w, t)
  BY LowestSame DEF Ready
<1>3. ASSUME NEW h \in Handle
      PROVE  h \in Taken(w, t) <=> \E i \in hit : w.hs[i] = h
  BY <1>2 DEF Taken
<1>4. AbsObjects' = [h \in Handle |-> IF \E i \in hit : w.hs[i] = h
                                        THEN W!Consumed(AbsObjects[h], t) ELSE AbsObjects[h]]
  <2>1. ASSUME NEW h \in Handle
        PROVE  AbsObject(objs'[h]) = IF \E i \in hit : w.hs[i] = h
                                       THEN W!Consumed(AbsObjects[h], t) ELSE AbsObjects[h]
    <3>1. objs[h] \in Object /\ AbsObjects[h] = AbsObject(objs[h])
      BY DEF TypeOK, AbsObjects
    <3>2. objs'[h] = IF h \in Taken(w, t) THEN Acquired(objs[h], t) ELSE objs[h]
      BY DEF Grant
    <3>3. AbsObject(Acquired(objs[h], t)) = W!Consumed(AbsObjects[h], t)
      BY <3>1, ConsumedSame
    <3>4. QED
      BY <1>3, <3>1, <3>2, <3>3
  <2>2. AbsObjects' = [h \in Handle |-> AbsObject(objs'[h])]
    BY DEF AbsObjects
  <2>3. QED
    BY <2>1, <2>2
<1>5. Return(t, rv)
  BY <1>2 DEF Grant
<1>6. W!Done(t, rv)
  BY <1>5, ReturnDone, GrantKeepsCvs
<1>7. QED
  BY <1>1, <1>4, <1>6, WaitImage DEF W!Complete

\* A wait that is given up leaves the objects as they are.
LEMMA GiveUpAbs ==
    ASSUME TypeOK, SleepSlots, NEW t \in Tid, NEW rv, GiveUp(t, rv)
    PROVE  W!Done(t, rv) /\ UNCHANGED AbsObjects
BY ReturnDone, SameCvs DEF GiveUp, AbsObjects

LEMMA ClosedImage ==
    ASSUME TypeOK, NEW h \in Handle, ~Live(h)
    PROVE  AbsObjects[h] = W!Closed
BY Image DEF TypeOK, AbsObjects, Live

\* A turn that fails or times out abandons the wait.
LEMMA AbandonAbs ==
    ASSUME TypeOK, SleepSlots, NEW t \in Tid, NEW w \in WaitCall, NEW v,
           v.hs = w.hs,
           \/ ~AllLive(w) /\ GiveUp(t, WAIT_FAILED)
           \/ v.timed /\ GiveUp(t, WAIT_TIMEOUT)
    PROVE  W!Abandon(t, v)
<1>1. CASE ~AllLive(w) /\ GiveUp(t, WAIT_FAILED)
  <2>1. PICK i \in DOMAIN w.hs : ~Live(w.hs[i])
    BY <1>1 DEF AllLive
  <2>2. AbsObjects[v.hs[i]] = W!Closed
    BY <2>1, WaitHandles, ClosedImage
  <2>3. QED
    BY <1>1, <2>1, <2>2, GiveUpAbs DEF W!Abandon
<1>2. CASE v.timed /\ GiveUp(t, WAIT_TIMEOUT)
  BY <1>2, GiveUpAbs DEF W!Abandon
<1>3. QED
  BY <1>1, <1>2

LEMMA NotPendingImage ==
    ASSUME NEW t \in Tid, Idle(t)
    PROVE  W!NotPending(t) /\ AbsCalls[t] = W!None
BY CallImage DEF W!NotPending, AbsCalls, Idle

\* The first turn of a wait.
LEMMA FirstTurnAbs ==
    ASSUME TypeOK, SleepSlots, NEW t \in Tid, Idle(t), NEW w \in WaitCall,
           w.hs \in Requests, NEW mode, Turn(t, w, mode)
    PROVE  AbsStep
<1> DEFINE v(timed) == [k |-> "wait", hs |-> w.hs, all |-> w.all, timed |-> timed]
<1>1. w.all \in BOOLEAN /\ w.timed \in BOOLEAN
  BY DEF WaitCall
<1>2. v(w.timed) = AbsWait(w) /\ v(TRUE).hs = w.hs /\ v(TRUE).timed
  BY DEF AbsWait
<1>3. ASSUME NEW timed \in BOOLEAN,
             \/ W!Complete(t, v(timed))
             \/ W!Abandon(t, v(timed))
             \/ /\ ~W!Allows(v(timed), t)
                /\ AbsCalls' = [AbsCalls EXCEPT ![t] = v(timed)]
                /\ UNCHANGED <<AbsObjects, ret>>
      PROVE  AbsStep
  <2>1. W!BeginWait(t)
    BY <1>1, <1>3, NotPendingImage DEF W!BeginWait
  <2>2. QED
    BY <2>1, Moves
<1>4. CASE ~AllLive(w) /\ GiveUp(t, WAIT_FAILED)
  <2>1. W!Abandon(t, v(w.timed))
    BY <1>2, <1>4, WaitImage, AbandonAbs
  <2>2. QED
    BY <1>1, <1>3, <2>1
<1>5. CASE Ready(w, t) /\ Grant(t, w)
  <2>1. W!Complete(t, v(w.timed))
    BY <1>2, <1>5, CompleteAbs
  <2>2. QED
    BY <1>1, <1>3, <2>1
<1>6. CASE GiveUp(t, WAIT_TIMEOUT)
  <2>1. W!Abandon(t, v(TRUE))
    BY <1>2, <1>6, AbandonAbs
  <2>2. QED
    BY <1>3, <2>1
<1>7. CASE /\ ~Ready(w, t) /\ call' = [call EXCEPT ![t] = w]
           /\ UNCHANGED <<objs, ret>>
  <2>1. ~W!Allows(v(w.timed), t)
    BY <1>2, <1>7, AllowsSame
  <2>2. AbsCall(w, objs') = AbsWait(w)
    BY CallImage DEF WaitCall
  <2>3. AbsCalls' = [AbsCalls EXCEPT ![t] = v(w.timed)]
    <3>1. CvsKept
      BY <1>7, SameCvs
    <3>2. AbsCalls' = [AbsCalls EXCEPT ![t] = AbsCall(w, objs')]
      BY <1>7, <3>1, OneCall
    <3>3. QED
      BY <1>2, <2>2, <3>2, Zenon
  <2>4. UNCHANGED <<AbsObjects, ret>>
    BY <1>7 DEF AbsObjects
  <2>5. QED
    BY <1>1, <1>3, <2>1, <2>3, <2>4
<1>8. QED
  BY <1>4, <1>5, <1>6, <1>7 DEF Turn

\* A later turn, and the timeout.
LEMMA LaterTurnAbs ==
    ASSUME TypeOK, SleepSlots, NEW t \in Tid, WaitRecheck(t) \/ WaitTimeout(t)
    PROVE  AbsStep
<1> DEFINE w == call[t]
<1>1. w \in WaitCall /\ w.op \in {"single", "multi"}
  BY CallKinds DEF WaitRecheck, WaitTimeout, Waiting
<1>2. AbsCalls[t] = AbsWait(w) /\ W!Waits(t)
  BY <1>1, CallImage, WaitImage DEF AbsCalls, W!Waits
<1>3. ASSUME W!Complete(t, AbsWait(w)) \/ W!Abandon(t, AbsWait(w))
      PROVE  AbsStep
  <2>1. W!Finish(t)
    BY <1>2, <1>3 DEF W!Finish
  <2>2. QED
    BY <2>1, Moves
<1>4. CASE ~AllLive(w) /\ GiveUp(t, WAIT_FAILED)
  BY <1>1, <1>3, <1>4, AbandonAbs, WaitImage
<1>5. CASE Ready(w, t) /\ Grant(t, w)
  BY <1>1, <1>3, <1>5, CompleteAbs
<1>6. CASE w.timed /\ GiveUp(t, WAIT_TIMEOUT)
  BY <1>1, <1>3, <1>6, AbandonAbs, WaitImage
<1>7. CASE call' = [call EXCEPT ![t] = w] /\ UNCHANGED <<objs, ret>>
  <2>1. call' = call
    BY <1>7 DEF TypeOK
  <2>2. UNCHANGED <<AbsObjects, AbsCalls, ret>>
    BY <1>7, <2>1 DEF AbsObjects, AbsCalls
  <2>3. QED
    BY <2>2 DEF AbsStep
<1>8. QED
  BY <1>1, <1>4, <1>5, <1>6, <1>7 DEF WaitRecheck, WaitTimeout, Turn

\* wg_sync_wait_single and wg_sync_wait_multiple.
LEMMA WaitsAbs ==
    ASSUME TypeOK, SleepSlots, NEW t \in Tid, WaitSingle(t) \/ WaitMultiple(t)
    PROVE  AbsStep
<1>1. CASE WaitSingle(t)
  <2>1. PICK hs \in Requests, mode \in Modes :
          LET w == [op |-> "single", hs |-> hs, all |-> FALSE, timed |-> mode = "timed"]
          IN Turn(t, w, mode)
    BY <1>1 DEF WaitSingle
  <2> DEFINE w == [op |-> "single", hs |-> hs, all |-> FALSE, timed |-> mode = "timed"]
  <2>2. w \in WaitCall /\ w.hs \in Requests
    BY SyncAssumption DEF SyncAssumption, WaitCall
  <2>3. Turn(t, w, mode) /\ Idle(t)
    BY <1>1, <2>1 DEF WaitSingle
  <2> HIDE DEF w
  <2>4. QED
    BY <2>2, <2>3, FirstTurnAbs
<1>2. CASE WaitMultiple(t)
  <2>1. PICK hs \in Requests, all \in BOOLEAN, mode \in Modes :
          LET w == [op |-> "multi", hs |-> hs, all |-> all, timed |-> mode = "timed"]
          IN Turn(t, w, mode)
    BY <1>2 DEF WaitMultiple
  <2> DEFINE w == [op |-> "multi", hs |-> hs, all |-> all, timed |-> mode = "timed"]
  <2>2. w \in WaitCall /\ w.hs \in Requests
    BY SyncAssumption DEF SyncAssumption, WaitCall
  <2>3. Turn(t, w, mode) /\ Idle(t)
    BY <1>2, <2>1 DEF WaitMultiple
  <2> HIDE DEF w
  <2>4. QED
    BY <2>2, <2>3, FirstTurnAbs
<1>3. QED
  BY <1>1, <1>2

-----------------------------------------------------------------------------
(* Sleeps on a condition variable.                                           *)

\* A mutex is given to a thread or freed, and no generation moves.
LEMMA MutexSet ==
    ASSUME TypeOK, NEW m \in Handle, IsA(m, "mutex"), NEW v \in Tid \cup {NoTid},
           NEW n \in Nat, objs' = [objs EXCEPT ![m] = Owned(objs[m], v, n)]
    PROVE  /\ AbsObjects' = [AbsObjects EXCEPT ![m] = W!Held(v, n)]
           /\ CvsKept
<1>1. objs[m] \in Object /\ objs[m].type = "mutex"
  BY DEF TypeOK, IsA
<1>2. AbsObject(Owned(objs[m], v, n)) = W!Held(v, n)
  BY <1>1, HeldSame, Zenon
<1>3. \A h \in Handle : objs'[h] = IF h = m THEN Owned(objs[m], v, n) ELSE objs[h]
  BY DEF TypeOK
<1>4. \A h \in Handle : AbsObject(objs'[h]) = IF h = m THEN W!Held(v, n)
                                                       ELSE AbsObject(objs[h])
  BY <1>2, <1>3
<1>5. AbsObjects' = [h \in Handle |-> AbsObject(objs'[h])]
  BY DEF AbsObjects
<1>6. CvsKept
  BY <1>3 DEF CvsKept, IsA
<1>7. AbsObjects' = [AbsObjects EXCEPT ![m] = W!Held(v, n)]
  BY <1>4, <1>5 DEF AbsObjects
<1>8. QED
  BY <1>6, <1>7

\* A sleeper takes its mutex back and returns.
LEMMA ReenterAbs ==
    ASSUME TypeOK, SleepSlots, NEW t \in Tid, NEW m \in Handle, NEW saved \in Nat, NEW rv,
           IsA(m, "mutex"), objs[m].owner \in {NoTid, t},
           objs' = [objs EXCEPT ![m] = Owned(objs[m], t, saved)], Return(t, rv)
    PROVE  AbsCalls[t].m = m /\ AbsCalls[t].depth = saved => W!Reenter(t, rv)
<1>1. AbsObjects' = [AbsObjects EXCEPT ![m] = W!Held(t, saved)] /\ CvsKept
  <2>1. t \in Tid \cup {NoTid}
    OBVIOUS
  <2>2. QED
    BY <2>1, MutexSet, Zenon
<1>2. W!Done(t, rv)
  BY <1>1, ReturnDone
<1>3. AbsObjects[m].owner \in {0, t}
  BY Image DEF AbsObjects, TypeOK, IsA
<1>4. QED
  BY <1>1, <1>2, <1>3, Zenon DEF W!Reenter

\* wg_sync_cv_sleep up to its first wait, and with a zero timeout.
LEMMA SleepAbs ==
    ASSUME TypeOK, SleepSlots, MutexConsistent, HeldOnly,
           NEW t \in Tid, NEW cv \in Handle, NEW m \in Handle, CvSleep(t, cv, m)
    PROVE  AbsStep
<1>1. /\ objs[m] \in Object /\ objs[m].type = "mutex" /\ objs[m].owner = t
      /\ objs[m].rec \in Nat /\ objs[cv] \in Object /\ objs[cv].type = "cv"
  BY DEF CvSleep, TypeOK, IsA, Object
<1>2. objs[m].rec > 0
  BY <1>1, SyncAssumption DEF SyncAssumption, MutexConsistent, IsA
<1>3. W!NotPending(t)
  BY NotPendingImage DEF CvSleep
<1>4. CASE /\ objs' = [objs EXCEPT ![m] = Owned(objs[m], t, objs[m].rec)]
           /\ Return(t, WAIT_TIMEOUT)
  <2>1. Owned(objs[m], t, objs[m].rec) = objs[m]
    BY <1>1 DEF Owned, Object
  <2>2. objs' = objs
    BY <1>4, <2>1 DEF TypeOK
  <2>3. UNCHANGED AbsObjects /\ W!Done(t, WAIT_TIMEOUT)
    BY <1>4, <2>2, ReturnDone, SameCvs DEF AbsObjects
  <2>4. W!BeginSleep(t)
    BY <1>3, <2>3 DEF W!BeginSleep
  <2>5. QED
    BY <2>4, Moves
<1>5. ASSUME NEW timed \in BOOLEAN,
             objs' = [objs EXCEPT ![m] = Owned(objs[m], NoTid, 0)],
             call' = [call EXCEPT ![t] =
                        [op |-> "cv", cv |-> cv, m |-> m, gen |-> objs[cv].count,
                         saved |-> objs[m].rec, timed |-> timed]],
             UNCHANGED ret
      PROVE  AbsStep
  <2> DEFINE c == [op |-> "cv", cv |-> cv, m |-> m, gen |-> objs[cv].count,
                   saved |-> objs[m].rec, timed |-> timed]
  <2>1. AbsObjects' = [AbsObjects EXCEPT ![m] = W!Held(0, 0)] /\ CvsKept
    BY <1>1, <1>5, MutexSet DEF IsA
  <2>2. /\ c.op = "cv" /\ c.cv = cv /\ c.m = m /\ c.saved = objs[m].rec
        /\ c.timed = timed /\ c.gen = objs[cv].count
    OBVIOUS
  <2>3. call' = [call EXCEPT ![t] = c]
    BY <1>5
  <2> HIDE DEF c
  <2>4. AbsCalls' = [AbsCalls EXCEPT ![t] = AbsCall(c, objs')]
    BY <2>1, <2>3, OneCall
  <2>5. objs'[c.cv].count = c.gen
    BY <1>1, <2>1, <2>2 DEF CvsKept, IsA
  <2>6. AbsCall(c, objs') = [k |-> "sleep", cv |-> cv, m |-> m,
                             depth |-> objs[m].rec, timed |-> timed]
    BY <2>2, <2>5, CallImage
  <2>7. /\ AbsObjects[m].k = "mutex" /\ AbsObjects[m].owner = t
        /\ AbsObjects[m].depth = objs[m].rec
    BY <1>1, Image DEF AbsObjects
  <2>8. AbsObjects[cv].k = "cv"
    BY <1>1, Image DEF AbsObjects
  <2>9. AbsCalls' = [AbsCalls EXCEPT ![t] = [k |-> "sleep", cv |-> cv, m |-> m,
                             depth |-> AbsObjects[m].depth, timed |-> timed]]
    BY <2>4, <2>6, <2>7
  <2>10. W!BeginSleep(t)
    BY <1>3, <1>5, <2>1, <2>7, <2>8, <2>9, Zenon DEF W!BeginSleep
  <2>11. QED
    BY <2>10, Moves
<1>6. QED
  BY <1>2, <1>4, <1>5 DEF CvSleep

\* A sleeper that has been woken: its image, and what it becomes.
LEMMA RelockAbs ==
    ASSUME TypeOK, SleepSlots, NEW t \in Tid, Asleep(t), NEW rv,
           rv = (IF objs[call[t].cv].count # call[t].gen THEN WAIT_OBJECT_0 ELSE WAIT_TIMEOUT),
           objs[call[t].cv].count # call[t].gen \/ call[t].timed,
           Relock(t, call[t].m, call[t].saved, rv)
    PROVE  AbsStep
<1> DEFINE c == call[t]
<1>1. /\ c.op = "cv" /\ c.m \in Handle /\ c.saved \in Nat /\ IsA(c.m, "mutex")
      /\ c.timed \in BOOLEAN
  BY CallKinds DEF Asleep, CvCall, SleepSlots
<1>2. AbsCalls[t] = AbsCall(c, objs)
  BY DEF AbsCalls
<1>3. /\ AbsCalls[t].m = c.m /\ AbsCalls[t].depth = c.saved
      /\ objs[c.cv].count # c.gen => AbsCalls[t] = [k |-> "awake", m |-> c.m,
                                       depth |-> c.saved, outcome |-> 0]
      /\ objs[c.cv].count = c.gen => W!Sleeps(t) /\ AbsCalls[t].timed = c.timed
  BY <1>1, <1>2, CallImage DEF W!Sleeps
<1>4. CASE /\ objs[c.m].owner \in {NoTid, t}
           /\ objs' = [objs EXCEPT ![c.m] = Owned(@, t, c.saved)]
           /\ Return(t, rv)
  <2>1. W!Reenter(t, rv)
    <3> DEFINE m == c.m
               s == c.saved
    <3>1. m \in Handle /\ s \in Nat /\ IsA(m, "mutex")
      BY <1>1
    <3>2. objs[m].owner \in {NoTid, t} /\ Return(t, rv)
      BY <1>4
    <3>3. objs' = [objs EXCEPT ![m] = Owned(objs[m], t, s)]
      BY <1>4
    <3>4. AbsCalls[t].m = m /\ AbsCalls[t].depth = s
      BY <1>3
    <3> HIDE DEF c, m, s
    <3>5. QED
      BY <3>1, <3>2, <3>3, <3>4, ReenterAbs, ZenonT(60)
  <2>2. W!Finish(t)
    BY <1>3, <2>1 DEF W!Finish, W!Wakes, W!Expire
  <2>3. QED
    BY <2>2, Moves
<1>5. CASE /\ call' = [call EXCEPT ![t] = [op |-> "relock", m |-> c.m,
                                           saved |-> c.saved, rv |-> rv]]
           /\ UNCHANGED <<objs, ret>>
  <2> DEFINE d == [op |-> "relock", m |-> c.m, saved |-> c.saved, rv |-> rv]
  <2>1. d.op = "relock" /\ d.m = c.m /\ d.saved = c.saved /\ d.rv = rv
    OBVIOUS
  <2>2. call' = [call EXCEPT ![t] = d]
    BY <1>5
  <2> HIDE DEF d
  <2>3. AbsCall(d, objs') = [k |-> "awake", m |-> c.m, depth |-> c.saved, outcome |-> rv]
    BY <2>1, CallImage
  <2>4. AbsCalls' = [AbsCalls EXCEPT ![t] = AbsCall(d, objs')]
    BY <1>5, <2>2, OneCall, SameCvs
  <2>5. UNCHANGED <<AbsObjects, ret>>
    BY <1>5 DEF AbsObjects
  <2>6. CASE objs[c.cv].count # c.gen
    <3>1. AbsCall(d, objs') = AbsCalls[t]
      BY <1>3, <2>3, <2>6
    <3>2. AbsCalls \in [Tid -> {AbsCalls[u] : u \in Tid}]
      BY DEF AbsCalls
    <3>3. UNCHANGED AbsCalls
      BY <2>4, <3>1, <3>2
    <3>4. QED
      BY <2>5, <3>3 DEF AbsStep
  <2>7. CASE objs[c.cv].count = c.gen
    <3>1. W!Awoken(t, 258) = AbsCall(d, objs')
      BY <1>3, <2>3, <2>7 DEF W!Awoken
    <3>2. W!Expire(t)
      BY <1>3, <2>4, <2>5, <2>7, <3>1 DEF W!Expire
    <3>3. QED
      BY <3>2, Moves DEF W!Finish
  <2>8. QED
    BY <2>6, <2>7
<1>6. QED
  BY <1>1, <1>4, <1>5 DEF Relock

LEMMA StutterAbs ==
    ASSUME UNCHANGED <<objs, call, ret>> PROVE AbsStep
BY DEF AbsStep, AbsObjects, AbsCalls

\* The turns of a sleeper's two loops, and its timeout.
LEMMA SleeperAbs ==
    ASSUME TypeOK, SleepSlots, NEW t \in Tid,
           CvRecheck(t) \/ CvTimeout(t) \/ RelockRecheck(t)
    PROVE  AbsStep
<1>1. CASE CvRecheck(t)
  <2>1. Live(call[t].cv)
    BY <1>1 DEF CvRecheck, SleepSlots, IsA, Live
  <2>2. QED
    BY <1>1, <2>1, RelockAbs, StutterAbs DEF CvRecheck
<1>2. CASE CvTimeout(t)
  BY <1>2, RelockAbs DEF CvTimeout
<1>3. CASE RelockRecheck(t)
  <2> DEFINE c == call[t]
  <2>1. /\ c.op = "relock" /\ c.m \in Handle /\ c.saved \in Nat /\ IsA(c.m, "mutex")
    BY <1>3, CallKinds DEF Relocking, RelockCall, SleepSlots, RelockRecheck
  <2>2. AbsCalls[t] = [k |-> "awake", m |-> c.m, depth |-> c.saved, outcome |-> c.rv]
    BY <2>1, CallImage DEF AbsCalls
  <2>3. CASE /\ objs[c.m].owner \in {NoTid, t}
             /\ objs' = [objs EXCEPT ![c.m] = Owned(@, t, c.saved)]
             /\ Return(t, c.rv)
    <3>1. W!Reenter(t, c.rv)
      <4> DEFINE m == c.m
                 s == c.saved
                 rv == c.rv
      <4>1. m \in Handle /\ s \in Nat /\ IsA(m, "mutex")
        BY <2>1
      <4>2. objs[m].owner \in {NoTid, t} /\ Return(t, rv)
        BY <2>3
      <4>3. objs' = [objs EXCEPT ![m] = Owned(objs[m], t, s)]
        BY <2>3
      <4>4. AbsCalls[t].m = m /\ AbsCalls[t].depth = s
        BY <2>2
      <4>5. W!Reenter(t, rv)
        <5> HIDE DEF c, m, s, rv
        <5>1. QED
          BY <4>1, <4>2, <4>3, <4>4, ReenterAbs, ZenonT(60)
      <4>6. QED
        BY <4>5
    <3>2. W!Finish(t)
      BY <2>2, <3>1 DEF W!Finish, W!Wakes
    <3>3. QED
      BY <3>2, Moves
  <2>4. QED
    BY <1>3, <2>1, <2>3, StutterAbs DEF RelockRecheck, IsA, Live
<1>4. QED
  BY <1>1, <1>2, <1>3

LEMMA SleepFailsAbs ==
    ASSUME TypeOK, SleepSlots, NEW t \in Tid, NEW cv, NEW m, CvSleepFails(t, cv, m)
    PROVE  AbsStep
<1>1. W!Done(t, WAIT_FAILED) /\ UNCHANGED AbsObjects
  BY GiveUpAbs DEF CvSleepFails
<1>2. W!BeginSleep(t)
  BY <1>1, NotPendingImage DEF CvSleepFails, W!BeginSleep
<1>3. QED
  BY <1>2, Moves

-----------------------------------------------------------------------------
(* The theorem.                                                              *)

LEMMA InitAbs == ASSUME Init PROVE W!AbsInit
<1>1. \A h \in Handle : AbsObject(objs[h]) = W!Closed
  BY DEF Init, FreeObj, AbsObject
<1>2. \A t \in Tid : AbsCall(call[t], objs) = W!None
  BY CallImage DEF Init, NoCall
<1>3. ret = [t \in Tid |-> 0]
  BY DEF Init
<1>4. QED
  BY <1>1, <1>2, <1>3 DEF W!AbsInit, AbsObjects, AbsCalls

\* How the program uses condition variables: a sleeper holds the mutex it passes,
\* and neither condition variables nor mutexes are closed.
CvDiscipline ==
    "cv" \in Kinds => HeldOnly /\ Closable \cap {"cv", "mutex"} = {}

LEMMA SleepInvStep ==
    ASSUME CvDiscipline, TypeOK, TypeOK', SleepInv, [Next]_vars
    PROVE  SleepInv'
BY SleepSlotsStep, SleeplessStep DEF CvDiscipline, SleepInv

LEMMA WaitAbs ==
    ASSUME CvDiscipline, TypeOK, SleepInv, MutexConsistent, NEW t \in Tid, WaitStep(t)
    PROVE  AbsStep
<1>1. SleepSlots
  BY SleepInvSlots
<1>2. ASSUME NEW cv \in Handle, NEW m \in Handle, CvSleep(t, cv, m) PROVE AbsStep
  <2>1. "cv" \in Kinds
    BY <1>2 DEF CvSleep, SleepInv, Sleepless
  <2>2. QED
    BY <1>1, <1>2, <2>1, SleepAbs DEF CvDiscipline
<1>3. QED
  BY <1>1, <1>2, WaitsAbs, LaterTurnAbs, SleeperAbs, SleepFailsAbs DEF WaitStep

LEMMA NextAbs ==
    ASSUME CvDiscipline, TypeOK, TypeOK', SleepInv, Semaphores, MutexConsistent, [Next]_vars
    PROVE  AbsStep
<1>1. SleepSlots
  BY SleepInvSlots
<1>2. CASE UNCHANGED vars
  BY <1>2, StutterAbs DEF vars
<1>3. QED
  BY <1>1, <1>2, CreateAbs, SignalAbs, WaitAbs, KickWorkersAbs DEF Next

\* Every step of wg_sync.c is one step of the abstract objects or none, for any
\* number of threads and objects: waits are granted only when the objects allow it,
\* wait-all takes everything at once or nothing, a sleeper gives its mutex up in the
\* step it falls asleep and returns with it at the depth it had, and a thread that
\* parks, is woken for nothing or is recorded in s_waitq does nothing to see.
THEOREM WaitsAreAtomic == ASSUME CvDiscipline PROVE Spec => KeepsPromises
<1>1. Init => SleepInv /\ Semaphores
  BY DEF Init, SleepInv, SleepSlots, Sleepless, Semaphores, InRange, FreeObj, NoCall,
         IsA, Asleep, Relocking
<1>2. TypeOK /\ TypeOK' /\ SleepInv /\ [Next]_vars => SleepInv'
  BY SleepInvStep
<1>3. TypeOK /\ Semaphores /\ [Next]_vars => Semaphores'
  BY SemaphoresStep
<1>4. TypeOK /\ TypeOK' /\ SleepInv /\ Semaphores /\ MutexConsistent /\ [Next]_vars
        => [W!AbsNext]_W!absVars
  BY NextAbs DEF AbsStep, W!absVars
<1>5. Init => W!AbsInit
  BY InitAbs
<1>6. QED
  BY <1>1, <1>2, <1>3, <1>4, <1>5, TypeCorrect, MutexesConsistent, PTL
     DEF Spec, KeepsPromises, W!AbsSafety

=============================================================================
