--------------------------- MODULE GuestCv_proofs ---------------------------
(* Any number of guest threads that use a condition variable inside a lock:   *)
(* whichever lock it is, no two of them run inside it.                        *)
EXTENDS GuestCv, FiniteSetTheorems, TLAPS

USE GuestCvAssumption DEF Threads, Cv, Mtx

-----------------------------------------------------------------------------
(* The inductive invariant.                                                   *)

\* The one wait on the mutex that the handlers make.
MutexWait == [op |-> "single", hs |-> <<Mtx>>, all |-> FALSE, timed |-> FALSE]

GuestCalls ==
    {S!NoCall, MutexWait}
      \cup [op : {"cv"}, cv : {Cv}, m : {Mtx}, gen : Int, saved : Nat, timed : BOOLEAN]
      \cup [op : {"relock"}, m : {Mtx}, saved : Nat, rv : Int]

\* wg_sync.c knows the two objects, or does not yet; nobody owns a mutex that is
\* not there, and nobody waits before it is.
SyncShape ==
    /\ objs \in [{Cv, Mtx} -> S!Object]
    /\ objs[Cv].type \in {"free", "cv"} /\ objs[Mtx].type \in {"free", "mutex"}
    /\ objs[Mtx].type = "free" => objs[Mtx].owner = 0
    /\ call \in [Threads -> GuestCalls]
    /\ \A t \in Threads : ~S!Idle(t) => S!Live(Mtx)

\* The lock's pointer has the one entry of the table, once it was looked up.
LockShape ==
    /\ table \in {{}, {P}}
    /\ srw \in [{P} \cup {L!Overflow} -> [readers : Nat, writer : Threads \cup {0}, rec : Nat]]
    /\ acq \in [Threads -> {L!NotAcquiring} \cup [op : {"excl"}, p : {P}]]

Places == {"start", "inside", "wake", "done"}

Inside(t) == pc[t] = "inside"

\* Over a critical section, the thread inside owns the mutex unless it sleeps or is
\* on its way in, and nobody touches the SRW locks.
InsideOwns ==
    \A t \in Threads : L!SrwIdle(t) /\ (Inside(t) /\ S!Idle(t) => objs[Mtx].owner = t)

\* Over an SRW lock, the thread inside writes its entry, also while it sleeps: the
\* sleep gives up a mutex nobody holds.
InsideWrites ==
    \A t \in Threads : Inside(t) /\ L!SrwIdle(t) => srw[P].writer = t

GuestInv ==
    /\ SyncShape /\ LockShape
    /\ pc \in [Threads -> Places] /\ kind \in {"cs", "srw"}
    /\ Cs => InsideOwns
    /\ Srw => InsideWrites

-----------------------------------------------------------------------------
(* What the calls of wg_sync.c do to the mutex.                               *)

LEMMA ObjectFields ==
    ASSUME NEW o \in S!Object
    PROVE  /\ o.type \in S!Kind \cup {"free"} /\ o.owner \in Threads \cup {0}
           /\ o.rec \in Nat /\ o.count \in Int
BY DEF S!Object, S!NoTid

LEMMA OwnedFields ==
    ASSUME NEW o \in S!Object, NEW t \in Threads \cup {0}, NEW n \in Nat
    PROVE  /\ S!Owned(o, t, n) \in S!Object
           /\ S!Owned(o, t, n).owner = t /\ S!Owned(o, t, n).type = o.type
BY DEF S!Object, S!Owned, S!NoTid

\* Given up by its owner.
LEMMA UnownedFields ==
    ASSUME NEW o \in S!Object, o.type = "mutex", NEW n, n = 0
    PROVE  /\ S!Owned(o, n, n) \in S!Object
           /\ S!Owned(o, n, n).owner = n /\ S!Owned(o, n, n).type = "mutex"
BY DEF S!Object, S!Owned, S!NoTid

LEMMA AcquiredFields ==
    ASSUME NEW o \in S!Object, o.type = "mutex", NEW t \in Threads
    PROVE  /\ S!Acquired(o, t) \in S!Object
           /\ S!Acquired(o, t).owner = t /\ S!Acquired(o, t).type = "mutex"
<1> DEFINE n == o.rec + 1
<1>1. S!Acquired(o, t) = S!Owned(o, t, n)
  BY DEF S!Acquired
<1>2. n \in Nat /\ t \in Threads \cup {0}
  BY ObjectFields
<1> HIDE DEF n
<1>3. QED
  BY <1>1, <1>2, OwnedFields

\* An object that is made on first use.
LEMMA MadeObject ==
    ASSUME NEW kind0 \in {"cv", "mutex"}
    PROVE  /\ [S!FreeObj EXCEPT !.type = kind0] \in S!Object
           /\ [S!FreeObj EXCEPT !.type = kind0].type = kind0
<1> DEFINE f == S!FreeObj
<1>1. f \in [type : {"free"}, manual : BOOLEAN, signalled : BOOLEAN, owner : Threads \cup {0},
             rec : Nat, count : Int, max : Int, exited : BOOLEAN]
  BY DEF S!FreeObj, S!NoTid
<1>2. kind0 \in S!Kind \cup {"free"}
  BY DEF S!Kind
<1> HIDE DEF f
<1>3. [f EXCEPT !.type = kind0] \in S!Object /\ [f EXCEPT !.type = kind0].type = kind0
  BY <1>1, <1>2 DEF S!Object, S!NoTid
<1>4. QED
  BY <1>3 DEF f

\* One slot is filled or changed, the calls are not.
LEMMA MutexChanged ==
    ASSUME SyncShape, NEW o \in S!Object, o.type = "mutex",
           objs' = [objs EXCEPT ![Mtx] = o], UNCHANGED call
    PROVE  SyncShape' /\ objs'[Mtx] = o
<1>1. objs' \in [{Cv, Mtx} -> S!Object] /\ objs'[Mtx] = o /\ objs'[Cv] = objs[Cv]
  BY DEF SyncShape
<1>2. S!Live(Mtx)'
  BY <1>1 DEF S!Live
<1>3. QED
  BY <1>1, <1>2 DEF SyncShape

LEMMA CvChanged ==
    ASSUME SyncShape, NEW o \in S!Object, o.type = "cv",
           objs' = [objs EXCEPT ![Cv] = o], UNCHANGED call
    PROVE  SyncShape' /\ objs'[Mtx] = objs[Mtx]
<1>1. objs' \in [{Cv, Mtx} -> S!Object] /\ objs'[Cv] = o /\ objs'[Mtx] = objs[Mtx]
  BY DEF SyncShape
<1>2. S!Live(Mtx)' <=> S!Live(Mtx)
  BY <1>1 DEF S!Live
<1>3. QED
  BY <1>1, <1>2 DEF SyncShape, S!Idle

\* The mutex changes hands or not, and the call of t becomes c.
LEMMA CallChanged ==
    ASSUME SyncShape, S!Live(Mtx), NEW t \in Threads, NEW c \in GuestCalls, NEW o \in S!Object,
           o.type = "mutex", objs' = [objs EXCEPT ![Mtx] = o], call' = [call EXCEPT ![t] = c]
    PROVE  /\ SyncShape' /\ objs'[Mtx] = o /\ call'[t] = c
           /\ \A u \in Threads : u # t => call'[u] = call[u]
<1>1. objs' \in [{Cv, Mtx} -> S!Object] /\ objs'[Mtx] = o /\ objs'[Cv] = objs[Cv]
  BY DEF SyncShape
<1>2. /\ call' \in [Threads -> GuestCalls] /\ call'[t] = c
      /\ \A u \in Threads : u # t => call'[u] = call[u]
  BY DEF SyncShape
<1>3. S!Live(Mtx)'
  BY <1>1 DEF S!Live
<1>4. QED
  BY <1>1, <1>2, <1>3 DEF SyncShape

LEMMA CallEnded ==
    ASSUME SyncShape, S!Live(Mtx), NEW t \in Threads, NEW o \in S!Object,
           o.type = "mutex", objs' = [objs EXCEPT ![Mtx] = o], call' = [call EXCEPT ![t] = S!NoCall]
    PROVE  /\ SyncShape' /\ objs'[Mtx] = o /\ S!Idle(t)'
           /\ \A u \in Threads : u # t => call'[u] = call[u]
<1> DEFINE c == S!NoCall
<1>1. c \in GuestCalls /\ c.op = "none" /\ call' = [call EXCEPT ![t] = c]
  BY DEF GuestCalls, S!NoCall
<1> HIDE DEF c
<1>2. objs' \in [{Cv, Mtx} -> S!Object] /\ objs'[Mtx] = o /\ objs'[Cv] = objs[Cv]
  BY DEF SyncShape
<1>3. /\ call' \in [Threads -> GuestCalls] /\ call'[t] = c
      /\ \A u \in Threads : u # t => call'[u] = call[u]
  BY <1>1 DEF SyncShape
<1>4. S!Live(Mtx)'
  BY <1>2 DEF S!Live
<1>5. QED
  BY <1>1, <1>2, <1>3, <1>4 DEF SyncShape, S!Idle

LEMMA LiveMutex ==
    ASSUME SyncShape, S!Live(Mtx)
    PROVE  objs[Mtx] \in S!Object /\ objs[Mtx].type = "mutex" /\ S!IsA(Mtx, "mutex")
BY DEF SyncShape, S!Live, S!IsA

LEMMA CallKinds ==
    ASSUME SyncShape, NEW t \in Threads
    PROVE  /\ S!Idle(t) <=> call[t] = S!NoCall
           /\ S!Waiting(t) => call[t] = MutexWait
           /\ S!Asleep(t) => call[t].m = Mtx /\ call[t].saved \in Nat
           /\ S!Relocking(t) => call[t].m = Mtx /\ call[t].saved \in Nat
<1>1. call[t] \in GuestCalls
  BY DEF SyncShape
<1>2. CASE call[t] = S!NoCall \/ call[t] = MutexWait
  BY <1>2 DEF S!NoCall, MutexWait, S!Idle, S!Waiting, S!Asleep, S!Relocking
<1>3. ASSUME call[t].op \in {"cv", "relock"}, call[t].m = Mtx, call[t].saved \in Nat
      PROVE  /\ S!Idle(t) <=> call[t] = S!NoCall
             /\ ~S!Waiting(t) /\ call[t].m = Mtx /\ call[t].saved \in Nat
  BY <1>3 DEF S!NoCall, S!Idle, S!Waiting
<1>4. CASE call[t] \notin {S!NoCall, MutexWait}
  <2>1. call[t].op \in {"cv", "relock"} /\ call[t].m = Mtx /\ call[t].saved \in Nat
    BY <1>1, <1>4 DEF GuestCalls
  <2>2. QED
    BY <1>3, <2>1
<1>5. QED
  BY <1>2, <1>4

\* t took the mutex and is out of the call, or is left in it.
TakesMutex(t) ==
    /\ SyncShape'
    /\ \A u \in Threads : u # t => call'[u] = call[u]
    /\ \/ objs[Mtx].owner \in {0, t} /\ objs'[Mtx].owner = t /\ S!Idle(t)'
       \/ objs'[Mtx].owner = objs[Mtx].owner /\ ~S!Idle(t)'

\* One turn of the wait for a mutex that is there.
LEMMA TurnTakes ==
    ASSUME SyncShape, NEW t \in Threads, S!Live(Mtx), S!Turn(t, MutexWait, "inf")
    PROVE  TakesMutex(t)
<1> DEFINE w == MutexWait
           o == S!Acquired(objs[Mtx], t)
<1>1. DOMAIN w.hs = {1} /\ w.hs[1] = Mtx /\ w.op = "single" /\ w.all = FALSE
  BY DEF MutexWait
<1>2. S!AllLive(w)
  BY <1>1 DEF S!AllLive
<1>3. objs[Mtx] \in S!Object /\ objs[Mtx].type = "mutex"
  BY LiveMutex
<1>4. S!Satisfied(objs[Mtx], t) <=> objs[Mtx].owner \in {0, t}
  BY <1>3 DEF S!Satisfied, S!NoTid
<1>5. S!Ready(w, t) <=> S!Satisfied(objs[Mtx], t)
  BY <1>1 DEF S!Ready
<1>6. \/ S!Ready(w, t) /\ S!Grant(t, w)
      \/ call' = [call EXCEPT ![t] = w] /\ UNCHANGED objs
  BY <1>2 DEF S!Turn
<1> HIDE DEF w
<1>7. CASE S!Ready(w, t) /\ S!Grant(t, w)
  <2>1. S!FirstHit(w, t) = 1
    BY <1>1, <1>5, <1>7 DEF S!FirstHit
  <2>2. S!Taken(w, t) = {Mtx}
    BY <1>1, <2>1 DEF S!Taken
  <2>3. objs' = [objs EXCEPT ![Mtx] = o]
    BY <1>7, <2>2 DEF S!Grant, SyncShape
  <2>4. call' = [call EXCEPT ![t] = S!NoCall]
    BY <1>7 DEF S!Grant, S!Return
  <2>5. o \in S!Object /\ o.owner = t /\ o.type = "mutex"
    BY <1>3, AcquiredFields
  <2> HIDE DEF o
  <2>6. /\ SyncShape' /\ objs'[Mtx] = o /\ S!Idle(t)'
        /\ \A u \in Threads : u # t => call'[u] = call[u]
    BY <2>3, <2>4, <2>5, CallEnded
  <2>7. QED
    BY <1>4, <1>5, <1>7, <2>5, <2>6 DEF TakesMutex
<1>8. CASE call' = [call EXCEPT ![t] = w] /\ UNCHANGED objs
  <2>1. objs' = [objs EXCEPT ![Mtx] = objs[Mtx]] /\ w \in GuestCalls
    BY <1>8 DEF SyncShape, GuestCalls, w
  <2>2. /\ SyncShape' /\ call'[t] = w /\ objs'[Mtx] = objs[Mtx]
        /\ \A u \in Threads : u # t => call'[u] = call[u]
    BY <1>3, <1>8, <2>1, CallChanged
  <2>3. ~S!Idle(t)'
    BY <1>1, <2>2 DEF S!Idle
  <2>4. QED
    BY <2>2, <2>3 DEF TakesMutex
<1>9. QED
  BY <1>6, <1>7, <1>8

LEMMA WaitTakes ==
    ASSUME SyncShape, NEW t \in Threads, S!Live(Mtx), S!WaitSingle(t)
    PROVE  TakesMutex(t)
<1>1. PICK hs \in {<<Mtx>>}, mode \in {"inf"} :
        S!Turn(t, [op |-> "single", hs |-> hs, all |-> FALSE, timed |-> mode = "timed"], mode)
  BY DEF S!WaitSingle
<1>2. S!Turn(t, MutexWait, "inf")
  BY <1>1 DEF MutexWait
<1>3. QED
  BY <1>2, TurnTakes

LEMMA RecheckTakes ==
    ASSUME SyncShape, NEW t \in Threads, S!WaitRecheck(t)
    PROVE  TakesMutex(t)
<1>1. S!Waiting(t) /\ S!Turn(t, call[t], "inf")
  BY DEF S!WaitRecheck
<1>2. call[t] = MutexWait /\ S!Live(Mtx)
  BY <1>1, CallKinds DEF SyncShape, S!Waiting, S!Idle
<1>3. QED
  BY <1>1, <1>2, TurnTakes

\* The end of a sleep, whatever ended it.
LEMMA RelockTakes ==
    ASSUME SyncShape, NEW t \in Threads, S!Live(Mtx), NEW saved \in Nat, NEW rv \in Int,
           S!Relock(t, Mtx, saved, rv)
    PROVE  TakesMutex(t)
<1>1. objs[Mtx] \in S!Object /\ objs[Mtx].type = "mutex" /\ S!IsA(Mtx, "mutex")
  BY LiveMutex
<1> DEFINE o == S!Owned(objs[Mtx], t, saved)
           c == [op |-> "relock", m |-> Mtx, saved |-> saved, rv |-> rv]
<1>2. \/ /\ objs[Mtx].owner \in {0, t} /\ objs' = [objs EXCEPT ![Mtx] = o]
         /\ call' = [call EXCEPT ![t] = S!NoCall]
      \/ call' = [call EXCEPT ![t] = c] /\ UNCHANGED objs
  BY <1>1 DEF S!Relock, S!Return, S!NoTid
<1>3. o \in S!Object /\ o.owner = t /\ o.type = "mutex"
  BY <1>1, OwnedFields
<1>4. c \in GuestCalls /\ c.op = "relock"
  BY DEF GuestCalls
<1> HIDE DEF o, c
<1>5. CASE /\ objs[Mtx].owner \in {0, t} /\ objs' = [objs EXCEPT ![Mtx] = o]
           /\ call' = [call EXCEPT ![t] = S!NoCall]
  <2>1. /\ SyncShape' /\ objs'[Mtx] = o /\ S!Idle(t)'
        /\ \A u \in Threads : u # t => call'[u] = call[u]
    BY <1>3, <1>5, CallEnded
  <2>2. QED
    BY <1>3, <1>5, <2>1 DEF TakesMutex
<1>6. CASE call' = [call EXCEPT ![t] = c] /\ UNCHANGED objs
  <2>1. objs' = [objs EXCEPT ![Mtx] = objs[Mtx]]
    BY <1>6 DEF SyncShape
  <2>2. /\ SyncShape' /\ call'[t] = c /\ objs'[Mtx] = objs[Mtx]
        /\ \A u \in Threads : u # t => call'[u] = call[u]
    BY <1>1, <1>4, <1>6, <2>1, CallChanged
  <2>3. ~S!Idle(t)'
    BY <1>4, <2>2 DEF S!Idle
  <2>4. QED
    BY <2>2, <2>3 DEF TakesMutex
<1>7. QED
  BY <1>2, <1>5, <1>6

\* A sleeper or a thread on its way back looks again.
LEMMA SleeperTakes ==
    ASSUME SyncShape, NEW t \in Threads, S!CvRecheck(t) \/ S!RelockRecheck(t)
    PROVE  TakesMutex(t)
<1>1. S!Live(Mtx) /\ ~S!Idle(t) /\ call[t].m = Mtx /\ call[t].saved \in Nat
  BY CallKinds DEF SyncShape, S!CvRecheck, S!RelockRecheck, S!Asleep, S!Relocking, S!Idle
<1>2. CASE S!CvRecheck(t)
  <2>1. \/ S!Relock(t, Mtx, call[t].saved, S!WAIT_FAILED)
        \/ S!Relock(t, Mtx, call[t].saved, S!WAIT_OBJECT_0)
        \/ UNCHANGED <<objs, call>>
    BY <1>1, <1>2 DEF S!CvRecheck
  <2>2. S!WAIT_FAILED \in Int /\ S!WAIT_OBJECT_0 \in Int
    BY DEF S!WAIT_FAILED, S!WAIT_OBJECT_0
  <2>3. CASE UNCHANGED <<objs, call>>
    BY <1>1, <2>3 DEF TakesMutex, SyncShape, S!Idle, S!Live
  <2>4. QED
    BY <1>1, <2>1, <2>2, <2>3, RelockTakes
<1>3. CASE S!RelockRecheck(t)
  <2>1. objs[Mtx] \in S!Object /\ objs[Mtx].type = "mutex"
    BY <1>1, LiveMutex
  <2> DEFINE n == call[t].saved
             o == S!Owned(objs[Mtx], t, n)
  <2>2. \/ /\ objs[Mtx].owner \in {0, t} /\ objs' = [objs EXCEPT ![Mtx] = o]
           /\ call' = [call EXCEPT ![t] = S!NoCall]
        \/ UNCHANGED <<objs, call>>
    BY <1>1, <1>3 DEF S!RelockRecheck, S!Return, S!NoTid
  <2>3. o \in S!Object /\ o.owner = t /\ o.type = "mutex"
    <3>1. n \in Nat /\ t \in Threads \cup {0}
      BY <1>1
    <3> HIDE DEF n
    <3>2. QED
      BY <2>1, <3>1, OwnedFields
  <2> HIDE DEF o
  <2>4. CASE UNCHANGED <<objs, call>>
    BY <1>1, <2>4 DEF TakesMutex, SyncShape, S!Idle, S!Live
  <2>5. CASE /\ objs[Mtx].owner \in {0, t} /\ objs' = [objs EXCEPT ![Mtx] = o]
             /\ call' = [call EXCEPT ![t] = S!NoCall]
    <3>1. /\ SyncShape' /\ objs'[Mtx] = o /\ S!Idle(t)'
          /\ \A u \in Threads : u # t => call'[u] = call[u]
      BY <1>1, <2>3, <2>5, CallEnded
    <3>2. QED
      BY <2>3, <2>5, <3>1 DEF TakesMutex
  <2>6. QED
    BY <2>2, <2>4, <2>5
<1>4. QED
  BY <1>2, <1>3

-----------------------------------------------------------------------------
(* What the calls of the SRW locks do to the entry.                           *)

LEMMA OneEntry ==
    ASSUME LockShape
    PROVE  L!EntryOf(P) = P /\ (L!LookUp(P) => table' = {P})
<1>1. Cardinality({}) = 0
  BY FS_EmptySet
<1>2. CASE table = {}
  <2>1. L!HasRoom
    BY <1>1, <1>2 DEF L!HasRoom, L!Cardinality, Cardinality
  <2>2. QED
    BY <1>2, <2>1 DEF L!EntryOf, L!LookUp
<1>3. CASE table = {P}
  BY <1>3 DEF L!EntryOf, L!LookUp
<1>4. QED
  BY <1>2, <1>3 DEF LockShape

LEMMA EntryWritten ==
    ASSUME LockShape, NEW t \in Threads \cup {0}, NEW n \in Nat,
           srw' = [srw EXCEPT ![P].writer = t, ![P].rec = n]
    PROVE  srw' \in [{P} \cup {L!Overflow} -> [readers : Nat, writer : Threads \cup {0}, rec : Nat]]
           /\ srw'[P].writer = t
<1> DEFINE Records == [readers : Nat, writer : Threads \cup {0}, rec : Nat]
           r == [srw[P] EXCEPT !.writer = t]
           written == [srw EXCEPT ![P] = r]
           s == [written[P] EXCEPT !.rec = n]
<1>1. srw \in [{P} \cup {L!Overflow} -> Records] /\ srw[P] \in Records
  BY DEF LockShape
<1>2. r \in Records /\ r.writer = t
  BY <1>1
<1>3. srw' = [written EXCEPT ![P] = s]
  OBVIOUS
<1> HIDE DEF r
<1>4. written \in [{P} \cup {L!Overflow} -> Records] /\ written[P] \in Records /\ written[P].writer = t
  BY <1>1, <1>2
<1> HIDE DEF written
<1>5. s \in Records /\ s.writer = t
  BY <1>4
<1> HIDE DEF s, Records
<1>6. QED
  BY <1>3, <1>4, <1>5 DEF Records

\* t took the lock and is out of the call, or is left in it.
TakesLock(t) ==
    /\ LockShape'
    /\ \A u \in Threads : u # t => acq'[u] = acq[u]
    /\ \/ srw[P].writer \in {0, t} /\ srw'[P].writer = t /\ L!SrwIdle(t)'
       \/ srw'[P].writer = srw[P].writer /\ ~L!SrwIdle(t)'

LEMMA EnterTakes ==
    ASSUME LockShape, NEW t \in Threads, L!AcquireExclusive(t, P)
    PROVE  TakesLock(t)
<1>1. L!EntryOf(P) = P /\ table' = {P} /\ L!SrwIdle(t)
  BY OneEntry DEF L!AcquireExclusive
<1>2. \/ srw[P].writer = t /\ L!Writes(P, t, srw[P].rec + 1) /\ UNCHANGED acq
      \/ srw[P].writer = 0 /\ L!Writes(P, t, 1) /\ UNCHANGED acq
      \/ L!Contend(t, "excl", P)
  BY <1>1 DEF L!AcquireExclusive, L!Nobody
<1>3. ASSUME NEW n \in Nat, L!Writes(P, t, n), UNCHANGED acq, srw[P].writer \in {0, t}
      PROVE  TakesLock(t)
  <2>1. srw' = [srw EXCEPT ![P].writer = t, ![P].rec = n]
    BY <1>3 DEF L!Writes
  <2>2. srw' \in [{P} \cup {L!Overflow} -> [readers : Nat, writer : Threads \cup {0}, rec : Nat]]
        /\ srw'[P].writer = t
    BY <2>1, EntryWritten
  <2>3. QED
    BY <1>1, <1>3, <2>2 DEF TakesLock, LockShape, L!SrwIdle
<1>4. CASE L!Contend(t, "excl", P)
  <2> DEFINE c == [op |-> "excl", p |-> P]
  <2>1. acq' = [acq EXCEPT ![t] = c] /\ UNCHANGED srw
    BY <1>4 DEF L!Contend
  <2>2. c \in [op : {"excl"}, p : {P}] /\ c.op = "excl"
    OBVIOUS
  <2> HIDE DEF c
  <2>3. acq'[t] = c /\ (\A u \in Threads : u # t => acq'[u] = acq[u])
        /\ acq' \in [Threads -> {L!NotAcquiring} \cup [op : {"excl"}, p : {P}]]
    BY <2>1, <2>2 DEF LockShape
  <2>4. QED
    BY <1>1, <2>1, <2>2, <2>3 DEF TakesLock, LockShape, L!SrwIdle
<1>5. 1 \in Nat /\ srw[P].rec + 1 \in Nat
  BY DEF LockShape
<1>6. QED
  BY <1>2, <1>3, <1>4, <1>5

LEMMA TurnTakesLock ==
    ASSUME LockShape, NEW t \in Threads, L!ExclTurn(t) \/ L!ExclPoll(t)
    PROVE  TakesLock(t)
<1>1. acq[t].op = "excl" /\ UNCHANGED table
  BY DEF L!ExclTurn, L!ExclPoll
<1>2. acq[t].p = P /\ L!EntryOf(P) = P
  BY <1>1, OneEntry DEF LockShape, L!NotAcquiring
<1>3. \/ /\ srw[P].writer \in {0, t} /\ L!Writes(P, t, 1)
         /\ acq' = [acq EXCEPT ![t] = L!NotAcquiring]
      \/ UNCHANGED <<srw, acq>>
  BY <1>2 DEF L!ExclTurn, L!ExclPoll, L!ExclPasses, L!Nobody
<1>4. CASE UNCHANGED <<srw, acq>>
  BY <1>1, <1>4 DEF TakesLock, LockShape, L!SrwIdle
<1>5. CASE /\ srw[P].writer \in {0, t} /\ L!Writes(P, t, 1)
           /\ acq' = [acq EXCEPT ![t] = L!NotAcquiring]
  <2>1. srw' = [srw EXCEPT ![P].writer = t, ![P].rec = 1]
    BY <1>5 DEF L!Writes
  <2>2. srw' \in [{P} \cup {L!Overflow} -> [readers : Nat, writer : Threads \cup {0}, rec : Nat]]
        /\ srw'[P].writer = t
    <3> DEFINE n == 1
    <3>1. n \in Nat /\ srw' = [srw EXCEPT ![P].writer = t, ![P].rec = n]
      BY <2>1
    <3> HIDE DEF n
    <3>2. QED
      BY <3>1, EntryWritten
  <2>3. acq'[t] = L!NotAcquiring /\ (\A u \in Threads : u # t => acq'[u] = acq[u])
        /\ acq' \in [Threads -> {L!NotAcquiring} \cup [op : {"excl"}, p : {P}]]
    BY <1>5 DEF LockShape
  <2>4. L!SrwIdle(t)'
    BY <2>3 DEF L!SrwIdle, L!NotAcquiring
  <2>5. QED
    BY <1>1, <1>5, <2>2, <2>3, <2>4 DEF TakesLock, LockShape
<1>6. QED
  BY <1>3, <1>4, <1>5

LEMMA ReleaseLeaves ==
    ASSUME LockShape, NEW t \in Threads, L!ReleaseExclusive(t, P)
    PROVE  /\ LockShape' /\ UNCHANGED acq
           /\ srw[P].writer # t => srw'[P].writer = srw[P].writer
<1>1. L!EntryOf(P) = P /\ table' = {P} /\ UNCHANGED acq
  BY OneEntry DEF L!ReleaseExclusive
<1>2. \/ srw[P].writer = t /\ srw' = [srw EXCEPT ![P].writer = 0, ![P].rec = 0]
      \/ srw[P].writer = t /\ srw[P].rec > 1 /\ srw' = [srw EXCEPT ![P].rec = @ - 1]
      \/ srw' = srw
  <2>1. srw[P].rec \in Nat
    BY DEF LockShape
  <2>2. QED
    BY <1>1, <2>1 DEF L!ReleaseExclusive, L!Nobody
<1>3. srw' \in [{P} \cup {L!Overflow} -> [readers : Nat, writer : Threads \cup {0}, rec : Nat]]
      /\ (srw[P].writer # t => srw'[P].writer = srw[P].writer)
  BY <1>2 DEF LockShape
<1>4. QED
  BY <1>1, <1>3 DEF LockShape

-----------------------------------------------------------------------------
(* The guests' steps.                                                         *)

\* A step by t inside wg_sync.c: the others' ownership stays, and t owns what it
\* has to.
LEMMA SyncStep ==
    ASSUME GuestInv, NEW t \in Threads, SyncShape', UNCHANGED locksVars, UNCHANGED kind,
           pc' \in [Threads -> Places],
           \A u \in Threads : u # t => pc'[u] = pc[u] /\ call'[u] = call[u],
           Cs => (\A u \in Threads : (u # t /\ objs[Mtx].owner = u) => objs'[Mtx].owner = u),
           (Cs /\ Inside(t)' /\ S!Idle(t)') => objs'[Mtx].owner = t,
           (Srw /\ Inside(t)' /\ L!SrwIdle(t)) => srw[P].writer = t
    PROVE  GuestInv'
<1>1. UNCHANGED <<table, srw, acq>>
  BY DEF locksVars
<1>2. LockShape'
  BY <1>1 DEF GuestInv, LockShape
<1>3. Cs' => InsideOwns'
  BY <1>1 DEF GuestInv, Cs, InsideOwns, Inside, S!Idle, L!SrwIdle
<1>4. Srw' => InsideWrites'
  BY <1>1 DEF GuestInv, Srw, InsideWrites, Inside, L!SrwIdle
<1>5. QED
  BY <1>2, <1>3, <1>4 DEF GuestInv

\* A step by t at the SRW lock.
LEMMA LockStep ==
    ASSUME GuestInv, Srw, NEW t \in Threads, LockShape', UNCHANGED syncVars, UNCHANGED kind,
           pc' \in [Threads -> Places],
           \A u \in Threads : u # t => pc'[u] = pc[u] /\ acq'[u] = acq[u],
           \A u \in Threads : u # t /\ srw[P].writer = u => srw'[P].writer = u,
           Inside(t)' /\ L!SrwIdle(t)' => srw'[P].writer = t
    PROVE  GuestInv'
<1>1. UNCHANGED <<objs, call>>
  BY DEF syncVars
<1>2. SyncShape'
  BY <1>1 DEF GuestInv, SyncShape, S!Idle, S!Live
<1>3. ~Cs'
  BY DEF Cs, Srw
<1>4. InsideWrites'
  BY DEF GuestInv, InsideWrites, Inside, L!SrwIdle
<1>5. QED
  BY <1>2, <1>3, <1>4 DEF GuestInv

LEMMA PcMoved ==
    ASSUME GuestInv, NEW t \in Threads, NEW place \in Places, Goto(t, place)
    PROVE  /\ pc' \in [Threads -> Places] /\ pc'[t] = place
           /\ \A u \in Threads : u # t => pc'[u] = pc[u]
BY DEF GuestInv, Goto

LEMMA GuestFacts ==
    ASSUME GuestInv, NEW t \in Threads
    PROVE  /\ SyncShape /\ LockShape /\ t # 0
           /\ Cs => L!SrwIdle(t)
           /\ (Cs /\ Inside(t) /\ S!Idle(t)) => objs[Mtx].owner = t
           /\ (Srw /\ Inside(t) /\ L!SrwIdle(t)) => srw[P].writer = t
BY DEF GuestInv, InsideOwns, InsideWrites

LEMMA MapMutexStep ==
    ASSUME GuestInv, NEW t \in Threads, MapMutex(t), UNCHANGED kind
    PROVE  GuestInv'
<1> DEFINE o == [S!FreeObj EXCEPT !.type = "mutex"]
<1>0. SyncShape /\ LockShape /\ t # 0
  BY GuestFacts
<1>1. /\ ~S!Live(Mtx) /\ objs' = [objs EXCEPT ![Mtx] = o]
      /\ UNCHANGED call /\ UNCHANGED locksVars /\ UNCHANGED pc
  BY DEF MapMutex
<1>2. o \in S!Object /\ o.type = "mutex"
  BY MadeObject
<1> HIDE DEF o
<1>3. SyncShape'
  BY <1>0, <1>1, <1>2, MutexChanged
<1>4. objs[Mtx].owner = 0
  BY <1>0, <1>1 DEF SyncShape, S!Live
<1>5. pc' \in [Threads -> Places]
  BY <1>1 DEF GuestInv
<1>6. ~(Cs /\ Inside(t) /\ S!Idle(t))
  BY <1>0, <1>4, GuestFacts
<1>7. \A u \in Threads : u # 0
  OBVIOUS
<1>8. (Srw /\ Inside(t) /\ L!SrwIdle(t)) => srw[P].writer = t
  BY GuestFacts
<1>9. /\ \A u \in Threads : u # t => (pc'[u] = pc[u] /\ call'[u] = call[u])
      /\ (Inside(t)' <=> Inside(t)) /\ (S!Idle(t)' <=> S!Idle(t))
  BY <1>1 DEF Inside, S!Idle
<1>10. Cs => (\A u \in Threads : (u # t /\ objs[Mtx].owner = u) => objs'[Mtx].owner = u)
  BY <1>4, <1>7
<1>11. QED
  BY <1>1, <1>3, <1>5, <1>6, <1>8, <1>9, <1>10, SyncStep

LEMMA MapCvStep ==
    ASSUME GuestInv, NEW t \in Threads, MapCv(t), UNCHANGED kind
    PROVE  GuestInv'
<1> DEFINE o == [S!FreeObj EXCEPT !.type = "cv"]
<1>1. /\ objs' = [objs EXCEPT ![Cv] = o]
      /\ UNCHANGED call /\ UNCHANGED locksVars /\ UNCHANGED pc
  BY DEF MapCv
<1>2. o \in S!Object /\ o.type = "cv"
  BY MadeObject
<1> HIDE DEF o
<1>3. SyncShape' /\ objs'[Mtx] = objs[Mtx]
  BY <1>1, <1>2, CvChanged, GuestFacts
<1>4. pc' \in [Threads -> Places]
  BY <1>1 DEF GuestInv
<1>5. /\ (Inside(t)' <=> Inside(t)) /\ (S!Idle(t)' <=> S!Idle(t))
      /\ \A u \in Threads : u # t => (pc'[u] = pc[u] /\ call'[u] = call[u])
  BY <1>1 DEF Inside, S!Idle
<1>6. /\ (Cs /\ Inside(t) /\ S!Idle(t)) => objs[Mtx].owner = t
      /\ (Srw /\ Inside(t) /\ L!SrwIdle(t)) => srw[P].writer = t
  BY GuestFacts
<1>7. QED
  BY <1>1, <1>3, <1>4, <1>5, <1>6, SyncStep

\* t takes the mutex, or goes on waiting for it, wherever that leaves it.
LEMMA TakingStep ==
    ASSUME GuestInv, NEW t \in Threads, TakesMutex(t), UNCHANGED locksVars, UNCHANGED kind,
           pc' \in [Threads -> Places],
           \A u \in Threads : u # t => pc'[u] = pc[u],
           (Srw /\ Inside(t)' /\ L!SrwIdle(t)) => srw[P].writer = t
    PROVE  GuestInv'
<1>1. \A u \in Threads : u # 0
  OBVIOUS
<1>2. \A u \in Threads : (u # t /\ objs[Mtx].owner = u) => objs'[Mtx].owner = u
  BY <1>1 DEF TakesMutex
<1>3. S!Idle(t)' => objs'[Mtx].owner = t
  BY DEF TakesMutex
<1>4. \A u \in Threads : u # t => call'[u] = call[u]
  BY DEF TakesMutex
<1>5. SyncShape'
  BY DEF TakesMutex
<1>6. QED
  BY <1>2, <1>3, <1>4, <1>5, SyncStep

LEMMA TakingLockStep ==
    ASSUME GuestInv, Srw, NEW t \in Threads, TakesLock(t), UNCHANGED syncVars, UNCHANGED kind,
           pc' \in [Threads -> Places],
           \A u \in Threads : u # t => pc'[u] = pc[u]
    PROVE  GuestInv'
<1>1. \A u \in Threads : u # 0
  OBVIOUS
<1>2. \A u \in Threads : (u # t /\ srw[P].writer = u) => srw'[P].writer = u
  BY <1>1 DEF TakesLock
<1>3. L!SrwIdle(t)' => srw'[P].writer = t
  BY DEF TakesLock
<1>4. LockShape' /\ \A u \in Threads : u # t => acq'[u] = acq[u]
  BY DEF TakesLock
<1>5. QED
  BY <1>2, <1>3, <1>4, LockStep

LEMMA EnterStep ==
    ASSUME GuestInv, NEW t \in Threads, Enter(t), UNCHANGED kind
    PROVE  GuestInv'
<1>0. SyncShape /\ LockShape /\ t # 0
  BY GuestFacts
<1>1. /\ pc' \in [Threads -> Places]
      /\ \A u \in Threads : u # t => pc'[u] = pc[u]
  <2> DEFINE place == "inside"
  <2>1. place \in Places /\ Goto(t, place)
    BY DEF Enter, Places
  <2> HIDE DEF place
  <2>2. QED
    BY <2>1, PcMoved
<1>2. CASE Cs /\ S!Live(Mtx) /\ S!WaitSingle(t) /\ UNCHANGED locksVars
  <2>1. TakesMutex(t)
    BY <1>0, <1>2, WaitTakes
  <2>2. ~Srw
    BY <1>2 DEF Cs, Srw
  <2>3. QED
    BY <1>1, <1>2, <2>1, <2>2, TakingStep
<1>3. CASE Srw /\ L!AcquireExclusive(t, P) /\ UNCHANGED syncVars
  <2>1. TakesLock(t)
    BY <1>0, <1>3, EnterTakes
  <2>2. QED
    BY <1>1, <1>3, <2>1, TakingLockStep
<1>4. QED
  BY <1>2, <1>3 DEF Enter

\* What ReleaseMutex leaves of the mutex: it is one still.
LEMMA ReleasedMutex ==
    ASSUME SyncShape, NEW t \in Threads, S!ReleaseMutex(t, Mtx)
    PROVE  SyncShape' /\ objs[Mtx].owner = t /\ UNCHANGED call
<1>1. /\ objs[Mtx].owner = t /\ objs[Mtx].type = "mutex" /\ objs[Mtx] \in S!Object
      /\ UNCHANGED call /\ objs[Mtx].rec > 0
  BY DEF S!ReleaseMutex, S!IsA, SyncShape
<1>2. CASE objs[Mtx].rec = 1
  <2> DEFINE n == 0
             m == objs[Mtx]
             o == S!Owned(m, n, n)
  <2>1. n = 0 /\ m \in S!Object /\ m.type = "mutex"
    BY <1>1
  <2>2. objs' = [objs EXCEPT ![Mtx] = o]
    BY <1>2 DEF S!ReleaseMutex, S!NoTid
  <2> HIDE DEF n, m
  <2>3. o \in S!Object /\ o.type = "mutex"
    BY <2>1, UnownedFields
  <2> HIDE DEF o
  <2>4. QED
    BY <1>1, <2>2, <2>3, MutexChanged
<1>3. CASE objs[Mtx].rec # 1
  <2> DEFINE n == objs[Mtx].rec - 1
             m == objs[Mtx]
             o == [m EXCEPT !.rec = n]
  <2>1. objs' = [objs EXCEPT ![Mtx] = o]
    BY <1>3 DEF S!ReleaseMutex
  <2>2. n \in Nat
    BY <1>1, ObjectFields
  <2>3. m \in S!Object /\ m.type = "mutex"
    BY <1>1
  <2> HIDE DEF n, m
  <2>4. o \in S!Object /\ o.type = "mutex"
    BY <2>2, <2>3 DEF S!Object
  <2> HIDE DEF o
  <2>5. QED
    BY <1>1, <2>1, <2>4, MutexChanged
<1>4. QED
  BY <1>2, <1>3

\* The thread inside leaves; only it owned the lock.
LEMMA ExitStep ==
    ASSUME GuestInv, NEW t \in Threads, Inside(t), Runs(t), NEW place \in Places,
           place # "inside", Exit(t, place), UNCHANGED kind
    PROVE  GuestInv'
<1>0. SyncShape /\ LockShape /\ S!Idle(t) /\ L!SrwIdle(t)
  BY GuestFacts DEF Runs
<1>1. /\ pc' \in [Threads -> Places] /\ ~Inside(t)'
      /\ \A u \in Threads : u # t => pc'[u] = pc[u]
  BY PcMoved DEF Exit, Inside
<1>2. CASE Cs /\ S!ReleaseMutex(t, Mtx) /\ UNCHANGED locksVars
  <2>1. SyncShape' /\ objs[Mtx].owner = t /\ UNCHANGED call
    BY <1>0, <1>2, ReleasedMutex
  <2>2. \A u \in Threads : (u # t /\ objs[Mtx].owner = u) => objs'[Mtx].owner = u
    BY <2>1
  <2>3. \A u \in Threads : u # t => (pc'[u] = pc[u] /\ call'[u] = call[u])
    BY <1>1, <2>1
  <2>4. QED
    BY <1>1, <1>2, <2>1, <2>2, <2>3, SyncStep
<1>3. CASE Srw /\ L!ReleaseExclusive(t, P) /\ UNCHANGED syncVars
  <2>1. /\ LockShape' /\ UNCHANGED acq /\ srw[P].writer = t
    BY <1>0, <1>3, ReleaseLeaves, GuestFacts
  <2>2. \A u \in Threads : (u # t /\ srw[P].writer = u) => srw'[P].writer = u
    BY <2>1
  <2>3. \A u \in Threads : u # t => (pc'[u] = pc[u] /\ acq'[u] = acq[u])
    BY <1>1, <2>1
  <2>4. QED
    BY <1>1, <1>3, <2>1, <2>2, <2>3, LockStep
<1>4. QED
  BY <1>2, <1>3 DEF Exit

\* A consumer gives the mutex up and sleeps; over a critical section it owned it,
\* over an SRW lock nobody did.
LEMMA SleepStep ==
    ASSUME GuestInv, NEW t \in Threads, Inside(t), Runs(t), Sleep(t), UNCHANGED kind
    PROVE  GuestInv'
<1>0. SyncShape /\ LockShape /\ S!Idle(t) /\ L!SrwIdle(t)
  BY GuestFacts DEF Runs
<1>1. objs[Mtx] \in S!Object /\ objs[Mtx].type = "mutex" /\ S!Live(Mtx)
  BY <1>0, LiveMutex DEF Sleep
<1> DEFINE n == 0
           m == objs[Mtx]
           o == S!Owned(m, n, n)
           saved == IF objs[Mtx].rec > 0 THEN objs[Mtx].rec ELSE 1
           gen == objs[Cv].count
           c == [op |-> "cv", cv |-> Cv, m |-> Mtx, gen |-> gen, saved |-> saved, timed |-> FALSE]
<1>2. objs' = [objs EXCEPT ![Mtx] = o] /\ call' = [call EXCEPT ![t] = c]
  BY DEF Sleep, S!CvSleep, S!NoTid
<1>3. n = 0 /\ m \in S!Object /\ m.type = "mutex"
  BY <1>1
<1>4. gen \in Int /\ saved \in Nat
  <2>1. objs[Cv] \in S!Object
    BY <1>0 DEF SyncShape
  <2>2. objs[Cv].count \in Int /\ objs[Mtx].rec \in Nat
    BY <1>1, <2>1, ObjectFields
  <2>3. QED
    BY <2>2
<1> HIDE DEF n, m, saved, gen
<1>5. o \in S!Object /\ o.type = "mutex" /\ o.owner = n
  BY <1>3, UnownedFields
<1>6. c \in GuestCalls /\ c.op = "cv"
  BY <1>4 DEF GuestCalls
<1> HIDE DEF o, c
<1>7. /\ SyncShape' /\ objs'[Mtx] = o /\ call'[t] = c
      /\ \A u \in Threads : u # t => call'[u] = call[u]
  BY <1>0, <1>1, <1>2, <1>5, <1>6, CallChanged
<1>8. ~S!Idle(t)'
  BY <1>6, <1>7 DEF S!Idle
<1>9. UNCHANGED locksVars /\ UNCHANGED pc
  BY DEF Sleep
<1>10. /\ pc' \in [Threads -> Places]
       /\ \A u \in Threads : u # t => (pc'[u] = pc[u] /\ call'[u] = call[u])
  BY <1>7, <1>9 DEF GuestInv
<1>11. Cs => (\A u \in Threads : (u # t /\ objs[Mtx].owner = u) => objs'[Mtx].owner = u)
  BY <1>0, GuestFacts
<1>12. Srw => srw[P].writer = t
  BY <1>0, GuestFacts
<1>13. QED
  BY <1>7, <1>8, <1>9, <1>10, <1>11, <1>12, SyncStep

LEMMA ConsumeStep ==
    ASSUME GuestInv, NEW t \in Threads, Consume(t), UNCHANGED kind
    PROVE  GuestInv'
<1>1. Inside(t) /\ Runs(t) /\ (Exit(t, "done") \/ Sleep(t))
  BY DEF Consume, Inside
<1> DEFINE place == "done"
<1>2. place \in Places /\ place # "inside" /\ (Exit(t, place) \/ Sleep(t))
  BY <1>1 DEF Places
<1> HIDE DEF place
<1>3. QED
  BY <1>1, <1>2, ExitStep, SleepStep

LEMMA PublishStep ==
    ASSUME GuestInv, NEW t \in Threads, Publish(t), UNCHANGED kind
    PROVE  GuestInv'
<1>1. Inside(t) /\ Runs(t) /\ Exit(t, "wake")
  BY DEF Publish, Inside
<1> DEFINE place == "wake"
<1>2. place \in Places /\ place # "inside" /\ Exit(t, place)
  BY <1>1 DEF Places
<1> HIDE DEF place
<1>3. QED
  BY <1>1, <1>2, ExitStep

LEMMA WakeStep ==
    ASSUME GuestInv, NEW t \in Threads, Wake(t), UNCHANGED kind
    PROVE  GuestInv'
<1>0. SyncShape
  BY GuestFacts
<1> DEFINE m == objs[Cv]
           n == m.count + 1
           o == [m EXCEPT !.count = n]
<1>1. /\ objs' = [objs EXCEPT ![Cv] = o] /\ UNCHANGED call /\ m.type = "cv"
      /\ UNCHANGED locksVars
  BY DEF Wake, S!CvWake, S!IsA
<1>2. m \in S!Object
  BY <1>0 DEF SyncShape
<1>3. n \in Int
  BY <1>2, ObjectFields
<1> HIDE DEF n, m
<1>4. o \in S!Object /\ o.type = "cv"
  BY <1>1, <1>2, <1>3 DEF S!Object
<1> HIDE DEF o
<1>5. SyncShape' /\ objs'[Mtx] = objs[Mtx]
  BY <1>0, <1>1, <1>4, CvChanged
<1>6. /\ pc' \in [Threads -> Places] /\ ~Inside(t)'
      /\ \A u \in Threads : u # t => (pc'[u] = pc[u] /\ call'[u] = call[u])
  <2> DEFINE place == "done"
  <2>1. place \in Places /\ place # "inside" /\ Goto(t, place)
    BY DEF Wake, Places
  <2> HIDE DEF place
  <2>2. QED
    BY <1>1, <2>1, PcMoved DEF Inside
<1>7. QED
  BY <1>1, <1>5, <1>6, SyncStep

\* Inside the blocking calls: over a critical section nobody waits for an SRW lock.
LEMMA BlockedStep ==
    ASSUME GuestInv, NEW t \in Threads, Blocked(t), UNCHANGED kind
    PROVE  GuestInv'
<1>0. SyncShape /\ LockShape /\ UNCHANGED pc
  BY GuestFacts DEF Blocked
<1>1. pc' \in [Threads -> Places] /\ \A u \in Threads : u # t => pc'[u] = pc[u]
  BY <1>0 DEF GuestInv
<1>2. CASE /\ S!WaitRecheck(t) \/ S!CvRecheck(t) \/ S!RelockRecheck(t)
           /\ UNCHANGED locksVars
  <2>1. TakesMutex(t)
    BY <1>0, <1>2, RecheckTakes, SleeperTakes
  <2>2. (Srw /\ Inside(t)' /\ L!SrwIdle(t)) => srw[P].writer = t
    BY <1>0, GuestFacts DEF Inside
  <2>3. QED
    BY <1>1, <1>2, <2>1, <2>2, TakingStep
<1>3. CASE (L!ExclTurn(t) \/ L!ExclPoll(t)) /\ UNCHANGED syncVars
  <2>1. TakesLock(t)
    BY <1>0, <1>3, TurnTakesLock
  <2>2. ~L!SrwIdle(t)
    BY <1>3 DEF L!ExclTurn, L!ExclPoll, L!SrwIdle
  <2>3. Srw
    BY <2>2, GuestFacts DEF GuestInv, Cs, Srw
  <2>4. QED
    BY <1>1, <1>3, <2>1, <2>3, TakingLockStep
<1>4. QED
  BY <1>2, <1>3 DEF Blocked

-----------------------------------------------------------------------------
(* The theorem.                                                               *)

LEMMA GuestInvInit ==
    ASSUME GuestInit
    PROVE  GuestInv
<1>1. S!Init /\ L!SrwInit /\ kind \in {"cs", "srw"}
  BY DEF GuestInit
<1>2. SyncShape
  <2> DEFINE f == S!FreeObj
             c == S!NoCall
  <2>1. f \in S!Object /\ f.type = "free" /\ f.owner = 0
    BY DEF S!FreeObj, S!Object, S!NoTid
  <2>2. c \in GuestCalls /\ c.op = "none"
    BY DEF GuestCalls, S!NoCall
  <2>3. objs = [h \in {Cv, Mtx} |-> f] /\ call = [t \in Threads |-> c]
    BY <1>1 DEF S!Init
  <2> HIDE DEF f, c
  <2>4. QED
    BY <2>1, <2>2, <2>3 DEF SyncShape, S!Idle, S!Live
<1>3. LockShape /\ \A t \in Threads : L!SrwIdle(t)
  <2> DEFINE e == [readers |-> 0, writer |-> 0, rec |-> 0]
             c == L!NotAcquiring
  <2>1. e \in [readers : Nat, writer : Threads \cup {0}, rec : Nat]
    OBVIOUS
  <2>2. c.op = "none"
    BY DEF L!NotAcquiring
  <2>3. table = {} /\ acq = [t \in Threads |-> c]
        /\ srw = [p \in {P} \cup {L!Overflow} |-> e]
    BY <1>1 DEF L!SrwInit, L!Free, L!Nobody
  <2> HIDE DEF e
  <2>4. LockShape
    BY <2>1, <2>3 DEF LockShape
  <2>5. \A t \in Threads : acq[t] = c
    BY <2>3
  <2>6. QED
    BY <2>2, <2>4, <2>5 DEF L!SrwIdle
<1>4. pc \in [Threads -> Places] /\ \A t \in Threads : ~Inside(t)
  <2> DEFINE place == "start"
  <2>1. place \in Places /\ place # "inside" /\ pc = [t \in Threads |-> place]
    BY DEF GuestInit, Places
  <2> HIDE DEF place
  <2>2. QED
    BY <2>1 DEF Inside
<1>5. QED
  BY <1>1, <1>2, <1>3, <1>4 DEF GuestInv, InsideOwns, InsideWrites

LEMMA GuestInvStays ==
    ASSUME GuestInv, [GuestNext]_guestVars
    PROVE  GuestInv'
<1>1. CASE GuestNext
  <2>1. PICK t \in Threads : GuestStep(t) /\ UNCHANGED kind
    BY <1>1 DEF GuestNext
  <2>2. QED
    BY <2>1, MapMutexStep, MapCvStep, EnterStep, ConsumeStep, PublishStep, WakeStep,
       BlockedStep DEF GuestStep
<1>2. CASE UNCHANGED guestVars
  BY <1>2 DEF guestVars, syncVars, locksVars, GuestInv, SyncShape, LockShape, InsideOwns,
     InsideWrites, Inside, Cs, Srw, S!Idle, S!Live, L!SrwIdle
<1>3. QED
  BY <1>1, <1>2

LEMMA InvExcludes ==
    ASSUME GuestInv
    PROVE  OneInside
BY GuestFacts DEF OneInside, Runs, Inside, GuestInv, Cs, Srw

\* Whichever lock the guests use, and however many they are: no two threads run
\* inside it, though a sleep gives up a mutex that over an SRW lock is not the lock
\* (wg_engine.c gives both pointers to wg_cs_mutex_for).
THEOREM OnlyOneInside == GuestSpec => []OneInside
<1>1. GuestSpec => GuestInit /\ [][GuestNext]_guestVars
  BY PTL DEF GuestSpec
<1>2. GuestInit /\ [][GuestNext]_guestVars => []GuestInv
  BY GuestInvInit, GuestInvStays, PTL
<1>3. []GuestInv => []OneInside
  BY InvExcludes, PTL
<1>4. QED
  BY <1>1, <1>2, <1>3, PTL
=============================================================================
