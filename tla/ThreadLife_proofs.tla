------------------------- MODULE ThreadLife_proofs -------------------------
(* Theorems about the life of the guest threads with a pthread of their own:  *)
(* what each holds is its own, from CreateThread to the end of the pthread,   *)
(* for any number of workers, rows, gates and object slots.                   *)
EXTENDS ThreadLife, WellFoundedInduction, TLAPS

USE ThreadAssumption DEF NoTid, MainRow, Tid

-----------------------------------------------------------------------------
(* The inductive invariant.                                                  *)

\* The worker has its row: a failed one has it for good.
Holds(w) == Alive(w) \/ At(w, {"failed"})

\* No two workers hold one row, the main thread's apart.
RowsApart ==
    \A v, w \in Worker :
        v # w /\ Holds(v) /\ Holds(w) /\ worker[v].row = worker[w].row
          => worker[v].row = MainRow

RowsExact == rows = {worker[w].row : w \in {v \in Worker : Holds(v)}} \ {MainRow}

\* The guest holds handles only of workers it has started.
OpenStarted == \A w \in open : worker[w].h \in Handle /\ ~At(w, {"none", "failed"})

\* The table has thread objects only.
ThreadsOnly == \A h \in Handle : objs[h].type \in {"free", "thread"}

LifeInv == ThreadTypeOK /\ RowsApart /\ RowsExact /\ OpenStarted /\ ThreadsOnly

WorkerRecord == [at : Stage, h : Handle \cup {S!NoHandle}, row : Row \cup {MainRow},
                 susp : BOOLEAN, gate : 0 .. GateMax]

Gate == [handle : Handle \cup {S!NoHandle}, resumed : BOOLEAN]

\* A set of naturals has a least member.
LEMMA Least ==
    ASSUME NEW H, H # {}, H \subseteq Nat
    PROVE  \E i \in H : \A j \in H : i <= j
<1> DEFINE Less == {ss \in Nat \X Nat : ss[1] < ss[2]}
<1>1. OpToRel(<, Nat) = Less
  BY Zenon DEF OpToRel
<1>2. IsWellFoundedOn(Less, Nat)
  BY <1>1, NatLessThanWellFounded, Zenon
<1>3. PICK i \in H : \A j \in H : ~(<<j, i>> \in Less)
  <2> HIDE DEF Less
  <2> QED
    BY <1>2, WFMin
<1>4. SUFFICES ASSUME NEW j \in H, j < i PROVE FALSE
  OBVIOUS
<1>5. <<j, i>> \in Less
  BY <1>4
<1>6. QED
  BY <1>3, <1>5

\* A row that wg_alloc_tls_slot hands out was free, or is the main thread's.
LEMMA NewRowFree ==
    NewRow \in (Row \ rows) \cup {MainRow}
<1>1. CASE Row \subseteq rows
  BY <1>1 DEF NewRow
<1>2. CASE ~(Row \subseteq rows)
  <2>1. \E r \in Row \ rows : \A q \in Row \ rows : r <= q
    BY <1>2, Least
  <2>2. QED
    BY <1>2, <2>1 DEF NewRow
<1>3. QED
  BY <1>1, <1>2

\* The gate that is found for a handle is an entry with that handle.
LEMMA GateFound ==
    ASSUME ThreadTypeOK, NEW h, GatesOf(h) # {}
    PROVE  GateOf(h) \in DOMAIN gates /\ GateOf(h) \in 1 .. GateMax
<1>1. DOMAIN gates = 1 .. Len(gates) /\ Len(gates) \in Nat
  BY DEF ThreadTypeOK
<1>2. GatesOf(h) \subseteq Nat
  BY <1>1 DEF GatesOf
<1>3. \E i \in GatesOf(h) : \A j \in GatesOf(h) : i <= j
  BY <1>2, Least
<1>4. GateOf(h) \in GatesOf(h)
  BY <1>3 DEF GateOf
<1>5. QED
  BY <1>1, <1>4 DEF GatesOf, ThreadTypeOK

-----------------------------------------------------------------------------
(* The object table under the calls of the threads.                          *)

\* A wait on thread objects changes none of them.
LEMMA JoinLeavesObjects ==
    ASSUME S!TypeOK, ThreadsOnly, NEW t \in Tid, NEW w \in S!WaitCall, NEW mode,
           S!Idle(t) => w.hs[1] \in Handle,
           S!Turn(t, w, mode)
    PROVE  S!TypeOK' /\ UNCHANGED objs
<1>1. CASE \E rv \in Int : S!GiveUp(t, rv)
  BY <1>1 DEF S!GiveUp, S!Return, S!TypeOK, S!Calls, S!NoHandle
<1>2. CASE S!Ready(w, t) /\ S!Grant(t, w)
  <2>1. \A h \in Handle : S!Acquired(objs[h], t) = objs[h]
    BY DEF ThreadsOnly, S!Acquired
  <2>2. objs' = objs
    BY <1>2, <2>1 DEF S!Grant, S!TypeOK
  <2>3. ~w.all => S!FirstHit(w, t) \in Nat
    <3> DEFINE H == {i \in DOMAIN w.hs : S!Satisfied(objs[w.hs[i]], t)}
    <3>1. H \subseteq Nat /\ (~w.all => H # {})
      BY <1>2 DEF S!Ready, S!WaitCall
    <3>2. ~w.all => \E i \in H : \A j \in H : i <= j
      BY <3>1, Least
    <3>3. H \subseteq Nat
      BY <3>1
    <3>4. QED
      BY <3>2, <3>3 DEF S!FirstHit
  <2>4. QED
    BY <1>2, <2>2, <2>3 DEF S!Grant, S!Return, S!TypeOK, S!Calls, S!NoHandle, S!WAIT_OBJECT_0
<1>3. CASE /\ call' = [call EXCEPT ![t] = w]
           /\ parked' = parked \cup {t}
           /\ waitq' = IF w.op = "single" /\ S!Idle(t) THEN S!WqSet(t, w.hs[1]) ELSE waitq
           /\ UNCHANGED <<objs, ret>>
  <2>1. waitq' \in [Tid -> Handle \cup {S!NoHandle}]
    BY <1>3 DEF S!WqSet, S!TypeOK
  <2>2. QED
    BY <1>3, <2>1 DEF S!TypeOK, S!Calls
<1>4. QED
  BY <1>1, <1>2, <1>3 DEF S!Turn, S!WAIT_FAILED, S!WAIT_TIMEOUT

\* A thread that exits marks its object, and nothing else.
LEMMA ExitMarks ==
    ASSUME S!TypeOK, NEW t \in Tid, NEW h \in Handle, S!ThreadExit(t, h)
    PROVE  /\ S!TypeOK'
           /\ \A g \in Handle : /\ objs'[g].type = objs[g].type
                                /\ objs'[g].owner = objs[g].owner
                                /\ g # h => objs'[g].exited = objs[g].exited
<1>1. objs[h] \in S!Object
  BY DEF S!TypeOK
<1>2. objs' = [objs EXCEPT ![h] = [objs[h] EXCEPT !.exited = TRUE]]
  BY DEF S!ThreadExit
<1>3. [objs[h] EXCEPT !.exited = TRUE] \in S!Object
  BY <1>1 DEF S!Object
<1>4. S!TypeOK'
  BY <1>2, <1>3 DEF S!ThreadExit, S!Broadcast, S!TypeOK
<1>5. QED
  BY <1>1, <1>2, <1>4 DEF S!TypeOK, S!Object

\* A handle that is closed frees its slot, and changes nothing else.
LEMMA CloseFrees ==
    ASSUME S!TypeOK, NEW t \in Tid, NEW h \in Handle, S!Close(t, h)
    PROVE  /\ S!TypeOK'
           /\ objs'[h].type = "free"
           /\ \A g \in Handle \ {h} : objs'[g] = objs[g]
<1>1. objs[h] \in S!Object
  BY DEF S!TypeOK
<1>2. objs' = [objs EXCEPT ![h] = [objs[h] EXCEPT !.type = "free"]]
  BY DEF S!Close
<1>3. [objs[h] EXCEPT !.type = "free"] \in S!Object
  BY <1>1 DEF S!Object
<1>4. S!TypeOK'
  BY <1>2, <1>3 DEF S!Close, S!Broadcast, S!TypeOK
<1>5. QED
  BY <1>1, <1>2, <1>4 DEF S!TypeOK, S!Object

\* A new thread object is not signalled and belongs to its worker.
LEMMA NewObjectMade ==
    ASSUME S!TypeOK, NEW w \in Worker, NEW h \in Handle, NewObject(w, h)
    PROVE  /\ objs' \in [Handle -> S!Object]
           /\ objs'[h].type = "thread" /\ objs'[h].owner = w /\ ~objs'[h].exited
           /\ \A g \in Handle \ {h} : objs'[g] = objs[g]
<1> DEFINE o == [S!FreeObj EXCEPT !.type = "thread", !.owner = w]
<1>0. S!FreeObj \in S!Object /\ S!FreeObj.exited = FALSE
  BY DEF S!FreeObj, S!Object, S!Kind, S!NoTid
<1>1. o \in S!Object /\ o.type = "thread" /\ o.owner = w /\ o.exited = FALSE
  BY <1>0 DEF S!Object, S!Kind
<1>2. objs' = [objs EXCEPT ![h] = o]
  BY DEF NewObject
<1> HIDE DEF o
<1>3. QED
  BY <1>1, <1>2 DEF S!TypeOK

-----------------------------------------------------------------------------
(* What a step does to the workers.                                          *)

\* A step that gives no worker a row, a handle or a stage before it held one, and
\* takes none.
Steady ==
    /\ \A w \in Worker : /\ worker'[w].row = worker[w].row /\ worker'[w].h = worker[w].h
                         /\ Holds(w)' = Holds(w)
                         /\ At(w, {"none", "failed"})' = At(w, {"none", "failed"})
    /\ rows' = rows

LEMMA SteadyKeeps ==
    ASSUME LifeInv, Steady, open' \subseteq open
    PROVE  RowsApart' /\ RowsExact' /\ OpenStarted'
<1>1. RowsApart'
  BY DEF LifeInv, RowsApart, Steady
<1>2. {worker[w].row : w \in {v \in Worker : Holds(v)}}'
        = {worker[w].row : w \in {v \in Worker : Holds(v)}}
  BY DEF Steady
<1>3. RowsExact'
  BY <1>2 DEF LifeInv, RowsExact, Steady
<1>4. OpenStarted'
  BY DEF LifeInv, ThreadTypeOK, OpenStarted, Steady
<1>5. QED
  BY <1>1, <1>3, <1>4

\* A worker that goes from one stage to another in which it holds its row.
LEMMA MovesSteadily ==
    ASSUME ThreadTypeOK, NEW w \in Worker, NEW r \in WorkerRecord,
           At(w, {"made", "gated", "run", "ended"}),
           r.at \in {"gated", "run", "ended", "signalled"},
           r.row = worker[w].row, r.h = worker[w].h,
           worker' = [worker EXCEPT ![w] = r], rows' = rows
    PROVE  Steady /\ worker' \in [Worker -> WorkerRecord]
<1>1. worker' \in [Worker -> WorkerRecord]
  BY DEF ThreadTypeOK, WorkerRecord
<1>2. \A v \in Worker : worker'[v] = IF v = w THEN r ELSE worker[v]
  BY DEF ThreadTypeOK
<1>3. Steady
  BY <1>2 DEF Steady, Holds, Alive, At
<1>4. QED
  BY <1>1, <1>3

\* The record of a worker that moves.
LEMMA MovedRecord ==
    ASSUME ThreadTypeOK, NEW w \in Worker, NEW stage \in Stage
    PROVE  /\ worker[w] \in WorkerRecord
           /\ [worker[w] EXCEPT !.at = stage] \in WorkerRecord
           /\ [worker[w] EXCEPT !.at = stage].at = stage
           /\ [worker[w] EXCEPT !.at = stage].row = worker[w].row
           /\ [worker[w] EXCEPT !.at = stage].h = worker[w].h
           /\ Move(w, stage) = [worker EXCEPT ![w] = [worker[w] EXCEPT !.at = stage]]
<1>1. worker[w] \in WorkerRecord
  BY DEF ThreadTypeOK, WorkerRecord
<1>2. Move(w, stage) = [worker EXCEPT ![w] = [worker[w] EXCEPT !.at = stage]]
  BY DEF Move
<1>3. QED
  BY <1>1, <1>2 DEF WorkerRecord

\* A steady step keeps the invariant if it keeps the types and the thread objects.
LEMMA SteadyLife ==
    ASSUME LifeInv, Steady, worker' \in [Worker -> WorkerRecord], open' \subseteq open,
           S!TypeOK', ThreadsOnly', gates' \in Seq(Gate), Len(gates') <= GateMax,
           tls' \in [Row -> Worker \cup {NoTid}],
           resumed' \subseteq Worker, early' \subseteq Worker
    PROVE  LifeInv'
<1>1. RowsApart' /\ RowsExact' /\ OpenStarted'
  BY SteadyKeeps
<1>2. ThreadTypeOK'
  BY DEF LifeInv, Steady, ThreadTypeOK, WorkerRecord, Gate
<1>3. QED
  BY <1>1, <1>2 DEF LifeInv

\* What the invariant says of the variables a step leaves alone.
LEMMA LifeTypes ==
    ASSUME LifeInv
    PROVE  /\ S!TypeOK /\ ThreadsOnly /\ worker \in [Worker -> WorkerRecord]
           /\ gates \in Seq(Gate) /\ Len(gates) <= GateMax
           /\ tls \in [Row -> Worker \cup {NoTid}] /\ resumed \subseteq Worker
           /\ open \subseteq Worker /\ early \subseteq Worker
BY DEF LifeInv, ThreadTypeOK, WorkerRecord, Gate

LEMMA SyncUnchanged ==
    ASSUME LifeInv, UNCHANGED syncVars
    PROVE  S!TypeOK' /\ ThreadsOnly'
<1>1. S!TypeOK /\ ThreadsOnly
  BY LifeTypes
<1>2. QED
  BY <1>1 DEF syncVars, S!TypeOK, ThreadsOnly

LEMMA BeginLife ==
    ASSUME LifeInv, NEW w \in Worker, Begin(w) PROVE LifeInv'
<1> DEFINE h == worker[w].h
           g == GateOf(h)
           waits == worker[w].susp /\ GatesOf(h) # {} /\ ~gates[g].resumed
<1>0. ThreadTypeOK
  BY DEF LifeInv
<1>1. worker[w] \in WorkerRecord /\ At(w, {"made"})
  BY <1>0, MovedRecord DEF Begin, Stage
<1>2. PICK r \in WorkerRecord : /\ r.at \in {"gated", "run"}
                                /\ r.row = worker[w].row /\ r.h = h
                                /\ worker' = [worker EXCEPT ![w] = r]
  <2>1. CASE waits
    <3> DEFINE s == [worker[w] EXCEPT !.at = "gated"]
               r == [s EXCEPT !.gate = g]
    <3>1. g \in 0 .. GateMax
      BY <1>0, <2>1, GateFound
    <3>2. s \in WorkerRecord /\ s.at = "gated" /\ s.row = worker[w].row /\ s.h = h
      BY <1>1 DEF WorkerRecord, Stage
    <3>3. worker' = [worker EXCEPT ![w] = r]
      BY <2>1 DEF Begin
    <3> HIDE DEF s
    <3>4. r \in WorkerRecord /\ r.at = "gated" /\ r.row = worker[w].row /\ r.h = h
      BY <3>1, <3>2 DEF WorkerRecord
    <3>5. QED
      BY <3>3, <3>4
  <2>2. CASE ~waits
    <3>1. worker' = Move(w, "run")
      BY <2>2 DEF Begin
    <3>2. QED
      BY <1>0, <3>1, MovedRecord DEF Stage
  <2>3. QED
    BY <2>1, <2>2
<1>3. /\ rows' = rows /\ UNCHANGED syncVars /\ open' = open
      /\ UNCHANGED <<gates, tls, early>> /\ resumed' \subseteq Worker
  BY LifeTypes DEF Begin, Held
<1>4. Steady /\ worker' \in [Worker -> WorkerRecord]
  BY <1>0, <1>1, <1>2, <1>3, MovesSteadily DEF At
<1>5. QED
  BY <1>3, <1>4, LifeTypes, SyncUnchanged, SteadyLife

\* The worker goes on to a stage, with nothing else of its life changed.
LEMMA MovedLife ==
    ASSUME LifeInv, NEW w \in Worker, NEW stage \in {"run", "ended", "signalled"},
           At(w, {"made", "gated", "run", "ended"}), worker' = Move(w, stage),
           S!TypeOK', ThreadsOnly', UNCHANGED <<rows, tls, open, early>>,
           gates' \in Seq(Gate), Len(gates') <= GateMax, resumed' \subseteq Worker
    PROVE  LifeInv'
<1>0. ThreadTypeOK /\ stage \in Stage
  BY DEF LifeInv, Stage
<1> DEFINE r == [worker[w] EXCEPT !.at = stage]
<1>1. /\ r \in WorkerRecord /\ r.at = stage /\ r.row = worker[w].row
      /\ r.h = worker[w].h
      /\ worker' = [worker EXCEPT ![w] = r]
  BY <1>0, MovedRecord, Zenon
<1> HIDE DEF r
<1>2. r.at \in {"gated", "run", "ended", "signalled"}
  BY <1>1
<1>3. Steady /\ worker' \in [Worker -> WorkerRecord]
  BY <1>0, <1>1, <1>2, MovesSteadily
<1>4. QED
  BY <1>3, LifeTypes, SteadyLife

LEMMA ReturnLife ==
    ASSUME LifeInv, NEW w \in Worker, Return(w) PROVE LifeInv'
<1>1. At(w, {"run"})
  BY DEF Return, Running
<1>2. QED
  BY <1>1, LifeTypes, SyncUnchanged, MovedLife DEF Return, At

LEMMA SignalExitLife ==
    ASSUME LifeInv, NEW w \in Worker, SignalExit(w) PROVE LifeInv'
<1>0. S!TypeOK /\ ThreadsOnly /\ worker[w].h \in Handle \cup {S!NoHandle}
  BY LifeTypes DEF WorkerRecord
<1>1. S!TypeOK' /\ ThreadsOnly'
  <2>1. CASE UNCHANGED syncVars
    BY <2>1, SyncUnchanged
  <2>2. CASE worker[w].h # S!NoHandle /\ S!ThreadExit(w, worker[w].h)
    BY <1>0, <2>2, ExitMarks DEF ThreadsOnly
  <2>3. QED
    BY <2>1, <2>2 DEF SignalExit
<1>2. QED
  BY <1>1, LifeTypes, MovedLife DEF SignalExit, At

LEMMA ResumeThreadLife ==
    ASSUME LifeInv, NEW t \in Tid, NEW w \in Worker, ResumeThread(t, w) PROVE LifeInv'
<1>0. ThreadTypeOK
  BY DEF LifeInv
<1>1. resumed' \subseteq Worker /\ UNCHANGED <<rows, tls, open, early>> /\ UNCHANGED syncVars
  BY LifeTypes DEF ResumeThread, Held
<1>2. S!TypeOK' /\ ThreadsOnly'
  BY <1>1, SyncUnchanged
<1>3. gates' \in Seq(Gate) /\ Len(gates') <= GateMax
  <2>1. CASE GatesOf(worker[w].h) = {}
    BY <2>1, LifeTypes DEF ResumeThread
  <2>2. CASE GatesOf(worker[w].h) # {}
    <3> DEFINE i == GateOf(worker[w].h)
               e == [gates[i] EXCEPT !.resumed = TRUE]
    <3>1. gates' = [gates EXCEPT ![i] = e] /\ i \in DOMAIN gates
      BY <1>0, <2>2, GateFound DEF ResumeThread
    <3>2. gates \in Seq(Gate) /\ Len(gates) <= GateMax
      BY LifeTypes
    <3>3. e \in Gate
      <4>1. gates[i] \in Gate
        BY <3>1, <3>2
      <4>2. QED
        BY <4>1 DEF Gate
    <3> HIDE DEF e, i
    <3>4. QED
      BY <3>1, <3>2, <3>3
  <2>3. QED
    BY <2>1, <2>2
<1>4. CASE worker' = worker
  <2>1. Steady
    BY <1>1, <1>4 DEF Steady, Holds, Alive, At
  <2>2. QED
    BY <1>1, <1>2, <1>3, <1>4, <2>1, LifeTypes, SteadyLife
<1>5. ASSUME NEW u \in Worker, At(u, {"gated"}), worker' = Move(u, "run")
      PROVE  LifeInv'
  BY <1>1, <1>2, <1>3, <1>5, MovedLife DEF At
<1>6. QED
  BY <1>4, <1>5 DEF ResumeThread, Gated

LEMMA TlsSetValueLife ==
    ASSUME LifeInv, NEW t \in Tid, TlsSetValue(t) PROVE LifeInv'
<1>1. t \in Worker /\ worker[t].row \in Row
  BY LifeTypes DEF TlsSetValue, WorkerRecord
<1>2. tls' \in [Row -> Worker \cup {NoTid}]
  BY <1>1, LifeTypes DEF TlsSetValue
<1>3. Steady
  BY DEF TlsSetValue, Steady, Holds, Alive, At
<1>4. QED
  BY <1>2, <1>3, LifeTypes, SyncUnchanged, SteadyLife DEF TlsSetValue

LEMMA CloseHandleLife ==
    ASSUME LifeInv, NEW t \in Tid, NEW w \in Worker, CloseHandle(t, w) PROVE LifeInv'
<1>1. worker[w].h \in Handle /\ S!Close(t, worker[w].h)
  BY DEF CloseHandle, LifeInv, OpenStarted
<1>2. S!TypeOK' /\ ThreadsOnly'
  BY <1>1, LifeTypes, CloseFrees DEF ThreadsOnly
<1>3. Steady /\ early' \subseteq Worker
  BY LifeTypes DEF CloseHandle, Steady, Holds, Alive, At
<1>4. QED
  BY <1>2, <1>3, LifeTypes, SteadyLife DEF CloseHandle

\* A join, or its next turn, leaves the objects and the lives alone.
LEMMA JoinSteps ==
    ASSUME LifeInv, NEW t \in Tid, (\E w \in Worker : Join(t, w)) \/ JoinRecheck(t)
    PROVE  LifeInv' /\ UNCHANGED objs /\ UNCHANGED lifeVars
<1>1. S!TypeOK' /\ UNCHANGED objs /\ UNCHANGED lifeVars
  <2>1. ASSUME NEW w \in Worker, Join(t, w)
        PROVE  S!TypeOK' /\ UNCHANGED objs /\ UNCHANGED lifeVars
    <3> DEFINE c == [op |-> "single", hs |-> <<worker[w].h>>, all |-> FALSE,
                     timed |-> FALSE]
    <3>1. worker[w].h \in Handle
      BY <2>1 DEF Join, LifeInv, OpenStarted
    <3>2. c \in S!WaitCall /\ c.hs[1] \in Handle
      BY <3>1 DEF S!WaitCall
    <3>3. S!Turn(t, c, "inf") /\ UNCHANGED lifeVars
      BY <2>1 DEF Join
    <3> HIDE DEF c
    <3>4. QED
      BY <3>2, <3>3, LifeTypes, JoinLeavesObjects
  <2>2. ASSUME JoinRecheck(t)
        PROVE  S!TypeOK' /\ UNCHANGED objs /\ UNCHANGED lifeVars
    <3>1. S!Waiting(t) /\ S!Turn(t, call[t], "inf") /\ UNCHANGED lifeVars
      BY <2>2 DEF JoinRecheck, S!WaitRecheck
    <3>2. call[t] \in S!WaitCall /\ ~S!Idle(t)
      BY <3>1, LifeTypes
      DEF S!TypeOK, S!Calls, S!Waiting, S!Idle, S!NoCall, S!WaitCall, S!CvCall, S!RelockCall
    <3>3. QED
      BY <3>1, <3>2, LifeTypes, JoinLeavesObjects
  <2>3. QED
    BY <2>1, <2>2
<1>2. Steady
  BY <1>1 DEF lifeVars, Steady, Holds, Alive, At
<1>3. ThreadsOnly'
  BY <1>1, LifeTypes DEF ThreadsOnly
<1>4. QED
  BY <1>1, <1>2, <1>3, LifeTypes, SteadyLife DEF lifeVars

\* RowsExact, row by row.
LEMMA RowsByRow ==
    RowsExact <=> \A x : x \in rows <=> /\ x # MainRow
                                        /\ \E v \in Worker : Holds(v) /\ worker[v].row = x
BY DEF RowsExact

LEMMA FreeRowLife ==
    ASSUME LifeInv, NEW w \in Worker, FreeRow(w) PROVE LifeInv'
<1> DEFINE r == [worker[w] EXCEPT !.at = "gone"]
<1>0. ThreadTypeOK /\ "gone" \in Stage
  BY DEF LifeInv, Stage
<1>1. /\ r \in WorkerRecord /\ r.at = "gone" /\ r.row = worker[w].row
      /\ r.h = worker[w].h
      /\ Move(w, "gone") = [worker EXCEPT ![w] = r]
  BY <1>0, MovedRecord, Zenon
<1> HIDE DEF r
<1>2. /\ worker' = [worker EXCEPT ![w] = r] /\ rows' = rows \ {worker[w].row}
      /\ UNCHANGED <<syncVars, gates, tls, open, resumed, early>> /\ Holds(w)
      /\ At(w, {"signalled"})
  BY <1>1 DEF FreeRow, Holds, Alive, At
<1>3. \A v \in Worker : worker'[v] = IF v = w THEN r ELSE worker[v]
  BY <1>0, <1>2 DEF ThreadTypeOK
<1>4. \A v \in Worker : /\ Holds(v)' <=> Holds(v) /\ v # w
                        /\ worker'[v].row = worker[v].row /\ worker'[v].h = worker[v].h
                        /\ At(v, {"none", "failed"})' = At(v, {"none", "failed"})
  BY <1>1, <1>2, <1>3 DEF Holds, Alive, At
<1>5. RowsApart'
  BY <1>4 DEF LifeInv, RowsApart
<1>6. RowsExact'
  <2>1. \A x : x \in rows <=> /\ x # MainRow
                              /\ \E v \in Worker : Holds(v) /\ worker[v].row = x
    BY RowsByRow DEF LifeInv
  <2>2. \A v \in Worker : Holds(v) /\ v # w /\ worker[v].row # MainRow
                            => worker[v].row # worker[w].row
    BY <1>2 DEF LifeInv, RowsApart
  <2>3. \A x : x \in rows' <=> /\ x # MainRow
                               /\ \E v \in Worker : Holds(v)' /\ worker'[v].row = x
    BY <1>2, <1>4, <2>1, <2>2
  <2>4. QED
    BY <2>3 DEF RowsExact
<1>7. OpenStarted'
  BY <1>2, <1>4 DEF LifeInv, OpenStarted, ThreadTypeOK
<1>8. ThreadTypeOK'
  <2>1. S!TypeOK' /\ worker' \in [Worker -> WorkerRecord]
    BY <1>1, <1>2, SyncUnchanged, LifeTypes
  <2>2. QED
    BY <1>2, <2>1 DEF LifeInv, ThreadTypeOK, WorkerRecord
<1>9. ThreadsOnly'
  BY <1>2, SyncUnchanged
<1>10. QED
  BY <1>5, <1>6, <1>7, <1>8, <1>9 DEF LifeInv

\* CreateThread: the row was free, the object is new, and the guest gets the
\* handle of a worker that started.
LEMMA SpawnLife ==
    ASSUME LifeInv, NEW t \in Tid, NEW w \in Worker, Spawn(t, w) PROVE LifeInv'
<1>1. PICK h \in Handle \cup {S!NoHandle}, susp \in BOOLEAN, ok \in BOOLEAN :
         /\ IF \E g \in Handle : ~S!Live(g)
              THEN h \in Handle /\ S!FreeSlot(h) /\ NewObject(w, h)
              ELSE h = S!NoHandle /\ UNCHANGED objs
         /\ worker' = [worker EXCEPT ![w] =
                         [at |-> IF ok THEN "made" ELSE "failed",
                          h |-> h, row |-> NewRow, susp |-> susp, gate |-> 0]]
         /\ rows' = rows \cup ({NewRow} \ {MainRow})
         /\ gates' = IF susp THEN NewGates(h) ELSE gates
         /\ open' = IF ok /\ h # S!NoHandle THEN open \cup {w} ELSE open
  BY DEF Spawn
<1>2. UNCHANGED <<call, parked, waitq, ret, tls, resumed>> /\ At(w, {"none"})
  BY DEF Spawn, NextTid
<1> DEFINE r == [at |-> IF ok THEN "made" ELSE "failed",
                 h |-> h, row |-> NewRow, susp |-> susp, gate |-> 0]
<1>3. /\ r \in WorkerRecord /\ r.h = h /\ r.row = NewRow
      /\ r.at = "made" \/ r.at = "failed"
      /\ r.at = "made" <=> ok
  BY NewRowFree DEF WorkerRecord, Stage
<1>4. worker' = [worker EXCEPT ![w] = r]
  BY <1>1
<1> HIDE DEF r
<1>5. \A v \in Worker : worker'[v] = IF v = w THEN r ELSE worker[v]
  BY <1>4, LifeTypes
<1>6. \A v \in Worker \ {w} : Holds(v)' = Holds(v)
  BY <1>5 DEF Holds, Alive, At
<1>7. Holds(w)' /\ ~Holds(w)
  BY <1>2, <1>3, <1>5 DEF Holds, Alive, At
<1>8. NewRow \in (Row \ rows) \cup {MainRow}
  BY NewRowFree
<1>9. \A x : x \in rows <=> /\ x # MainRow
                            /\ \E v \in Worker : Holds(v) /\ worker[v].row = x
  BY RowsByRow DEF LifeInv
<1>10. RowsApart'
  <2>1. \A v \in Worker \ {w} : Holds(v) /\ worker[v].row = NewRow => NewRow = MainRow
    BY <1>8, <1>9
  <2>2. QED
    BY <1>3, <1>5, <1>6, <2>1 DEF LifeInv, RowsApart
<1>11. RowsExact'
  <2>1. \A x : x \in rows' <=> /\ x # MainRow
                               /\ \E v \in Worker : Holds(v)' /\ worker'[v].row = x
    BY <1>1, <1>3, <1>5, <1>6, <1>7, <1>9
  <2>2. QED
    BY <2>1 DEF RowsExact
<1>12. w \notin open
  BY <1>2 DEF LifeInv, OpenStarted, At
<1>13. OpenStarted'
  <2> SUFFICES ASSUME NEW v \in open'
               PROVE  worker'[v].h \in Handle /\ worker'[v].at \notin {"none", "failed"}
    BY DEF OpenStarted, At
  <2>1. CASE v = w
    <3>1. ok /\ h # S!NoHandle
      BY <1>1, <1>12, <2>1
    <3>2. QED
      BY <1>3, <1>5, <2>1, <3>1
  <2>2. CASE v # w
    <3>1. v \in open /\ v \in Worker
      BY <1>1, <2>2, LifeTypes
    <3>2. QED
      BY <1>5, <2>2, <3>1 DEF LifeInv, OpenStarted, At
  <2>3. QED
    BY <2>1, <2>2
<1>14. S!TypeOK' /\ ThreadsOnly'
  <2>1. CASE UNCHANGED objs
    BY <1>2, <2>1, LifeTypes DEF S!TypeOK, ThreadsOnly
  <2>2. CASE h \in Handle /\ NewObject(w, h)
    <3>1. objs' \in [Handle -> S!Object] /\ ThreadsOnly'
      BY <2>2, LifeTypes, NewObjectMade DEF ThreadsOnly
    <3>2. QED
      BY <1>2, <3>1, LifeTypes DEF S!TypeOK
  <2>3. QED
    BY <1>1, <2>1, <2>2
<1>15. gates' \in Seq(Gate) /\ Len(gates') <= GateMax
  <2>1. [handle |-> h, resumed |-> FALSE] \in Gate
    BY DEF Gate
  <2>2. QED
    BY <1>1, <2>1, LifeTypes DEF NewGates
<1>16. ThreadTypeOK'
  <2>1. worker' \in [Worker -> WorkerRecord]
    BY <1>3, <1>4, LifeTypes
  <2>2. rows' \subseteq Row
    BY <1>1, <1>8 DEF LifeInv, ThreadTypeOK
  <2>3. open' \subseteq Worker
    BY <1>1, LifeTypes
  <2>4. early' \subseteq Worker
    BY LifeTypes DEF Spawn
  <2>5. QED
    BY <1>2, <1>14, <1>15, <2>1, <2>2, <2>3, <2>4, LifeTypes
    DEF ThreadTypeOK, WorkerRecord, Gate
<1>17. QED
  BY <1>10, <1>11, <1>13, <1>14, <1>16 DEF LifeInv

LEMMA LifeStep ==
    ASSUME LifeInv, [ThreadNext]_vars PROVE LifeInv'
<1>1. CASE UNCHANGED vars
  <2>1. Steady /\ UNCHANGED <<syncVars, gates, tls, open, resumed, early, worker>>
    BY <1>1 DEF vars, lifeVars, Steady, Holds, Alive, At
  <2>2. QED
    BY <2>1, LifeTypes, SyncUnchanged, SteadyLife
<1>2. QED
  BY <1>1, SpawnLife, ResumeThreadLife, CloseHandleLife, JoinSteps, TlsSetValueLife,
     ReturnLife, BeginLife, SignalExitLife, FreeRowLife
  DEF ThreadNext, GuestStep, PthreadStep

LEMMA LifeInit == ThreadInit => LifeInv
<1> SUFFICES ASSUME ThreadInit PROVE LifeInv
  OBVIOUS
<1>1. S!TypeOK /\ ThreadsOnly
  BY DEF ThreadInit, S!Init, S!TypeOK, ThreadsOnly, S!FreeObj, S!Object, S!Calls,
         S!NoHandle, S!NoTid, S!WAIT_OBJECT_0
<1>2. \A w \in Worker : worker[w].at = "none" /\ ~Holds(w)
  BY DEF ThreadInit, Holds, Alive, At
<1>3. RowsApart /\ RowsExact /\ OpenStarted
  BY <1>2 DEF ThreadInit, RowsApart, RowsExact, OpenStarted
<1>4. ThreadTypeOK
  BY <1>1 DEF ThreadInit, ThreadTypeOK, Stage
<1>5. QED
  BY <1>1, <1>3, <1>4 DEF LifeInv

LEMMA LifeInvariant == ThreadSpec => []LifeInv
BY LifeInit, LifeStep, PTL DEF ThreadSpec

-----------------------------------------------------------------------------
(* The theorems.                                                             *)

\* The rows of the TLS arrays are accounted for: two living workers never have the
\* same one, apart from the main thread's, and a row is marked used exactly while
\* a worker has it, or for good once pthread_create failed for it.
THEOREM RowsStayAccounted == ThreadSpec => []ThreadsAccounted
<1>1. LifeInv => ThreadsAccounted
  <2> SUFFICES ASSUME LifeInv PROVE ThreadsAccounted
    OBVIOUS
  <2>1. RowsAccounted
    BY DEF LifeInv, RowsApart, RowsExact, RowsAccounted, Holds
  <2>2. QED
    BY <2>1 DEF LifeInv, ThreadsAccounted
<1>2. QED
  BY <1>1, LifeInvariant, PTL

\* TLS values are their thread's own: only a worker that holds the row writes to
\* it, and no two living workers hold the same row.
THEOREM TlsValuesKept == ThreadSpec => TlsKept
<1> DEFINE Kept(w) == /\ Alive(w) /\ worker[w].row # MainRow
                      /\ tls[worker[w].row] = w
                      => tls'[worker[w].row] = w
<1>1. ASSUME LifeInv, ThreadNext, NEW w \in Worker PROVE Kept(w)
  <2>1. CASE UNCHANGED tls
    BY <2>1
  <2>2. ASSUME NEW t \in Tid, TlsSetValue(t) PROVE Kept(w)
    <3>1. /\ t \in Worker /\ Alive(t) /\ worker[t].row \in Row
          /\ tls' = [tls EXCEPT ![worker[t].row] = t]
      <4>1. t \in Worker
        BY <2>2 DEF TlsSetValue
      <4>2. worker[t] \in WorkerRecord
        BY <4>1, <1>1, LifeTypes
      <4>3. worker[t].row \in Row
        BY <2>2, <4>2 DEF TlsSetValue, WorkerRecord
      <4>4. Alive(t)
        BY <2>2 DEF TlsSetValue, Running, Alive, At
      <4>5. QED
        BY <2>2, <4>1, <4>3, <4>4 DEF TlsSetValue
    <3>2. CASE w = t
      BY <1>1, <3>1, <3>2, LifeTypes
    <3>3. CASE w # t
      <4>1. RowsApart
        BY <1>1 DEF LifeInv
      <4>2. Alive(w) /\ worker[w].row # MainRow => worker[w].row # worker[t].row
        BY <3>1, <3>3, <4>1 DEF RowsApart, Holds
      <4>3. QED
        BY <1>1, <3>1, <4>2, LifeTypes
    <3>4. QED
      BY <3>2, <3>3
  <2>3. QED
    BY <1>1, <2>1, <2>2
    DEF ThreadNext, GuestStep, PthreadStep, Spawn, ResumeThread, CloseHandle, Join,
        JoinRecheck, Return, Begin, SignalExit, FreeRow, lifeVars
<1>2. LifeInv /\ [ThreadNext]_vars
        => [\A w \in Worker :
              /\ Alive(w) /\ worker[w].row # MainRow
              /\ tls[worker[w].row] = w
              => tls'[worker[w].row] = w]_vars
  BY <1>1
<1>3. QED
  BY <1>2, LifeInvariant, PTL DEF ThreadSpec, TlsKept

\* The slot of a handle the guest holds is of that worker's object: it is freed only
\* by a close of the handle.
OwnsObject(w) == objs[worker[w].h].type = "thread" /\ objs[worker[w].h].owner = w

Unsignalled(w) == At(w, {"made", "gated", "run", "ended"})

OwnObject == \A w \in open : OwnsObject(w)

\* A worker that will signal a slot by its number is one whose handle is held, or
\* was closed early.
EarlyKnown ==
    \A w \in Worker : Unsignalled(w) /\ worker[w].h # S!NoHandle => w \in open \cup early

JoinInv == OwnObject /\ EarlyKnown /\ SignalledMeansEnded

\* Workers only go on from stage to stage, with the handles they have.
Onward ==
    \A w \in Worker : /\ worker'[w].h = worker[w].h
                      /\ Unsignalled(w)' => Unsignalled(w)
                      /\ Signalled(w) => Signalled(w)'

LEMMA OnwardKeeps ==
    ASSUME LifeInv, JoinInv, Onward, UNCHANGED <<open, early, objs>>
    PROVE  JoinInv'
<1>1. OwnObject'
  BY LifeTypes DEF JoinInv, OwnObject, OwnsObject, Onward
<1>2. EarlyKnown'
  BY LifeTypes DEF JoinInv, EarlyKnown, Onward
<1>3. SignalledMeansEnded'
  BY LifeTypes DEF JoinInv, SignalledMeansEnded, Onward
<1>4. QED
  BY <1>1, <1>2, <1>3 DEF JoinInv

LEMMA MovesOnward ==
    ASSUME LifeInv, NEW w \in Worker, NEW r, worker' = [worker EXCEPT ![w] = r],
           r.h = worker[w].h,
           \/ r.at \in {"gated", "run", "ended"} /\ Unsignalled(w)
           \/ r.at \in {"signalled", "gone"}
    PROVE  Onward
<1>1. \A v \in Worker : worker'[v] = IF v = w THEN r ELSE worker[v]
  BY LifeTypes
<1>2. QED
  BY <1>1 DEF Onward, Unsignalled, Signalled, At

LEMMA QuietJoin ==
    ASSUME LifeInv, JoinInv, NEW w \in Worker,
           Begin(w) \/ Return(w) \/ FreeRow(w) \/ (\E t \in Tid : ResumeThread(t, w))
    PROVE  JoinInv'
<1>1. UNCHANGED <<open, early, objs>>
  BY DEF Begin, Return, FreeRow, ResumeThread, syncVars
<1>2. Onward
  <2>1. ASSUME NEW v \in Worker, NEW stage \in {"run", "ended", "gone"},
               worker' = Move(v, stage), Unsignalled(v) \/ stage = "gone"
        PROVE  Onward
    <3> DEFINE r == [worker[v] EXCEPT !.at = stage]
    <3>1. r.at = stage /\ r.h = worker[v].h /\ worker' = [worker EXCEPT ![v] = r]
      BY <2>1, LifeTypes DEF Move, WorkerRecord
    <3> HIDE DEF r
    <3>2. QED
      BY <2>1, <3>1, MovesOnward
  <2>2. CASE Begin(w)
    <3>1. CASE worker' = Move(w, "run")
      BY <2>1, <2>2, <3>1 DEF Begin, Unsignalled, At
    <3>2. CASE worker' # Move(w, "run")
      <4> DEFINE s == [worker[w] EXCEPT !.at = "gated"]
                 r == [s EXCEPT !.gate = GateOf(worker[w].h)]
      <4>1. worker' = [worker EXCEPT ![w] = r]
        BY <2>2, <3>2 DEF Begin
      <4>2. r.at = "gated" /\ r.h = worker[w].h
        BY LifeTypes DEF WorkerRecord
      <4> HIDE DEF r
      <4>3. QED
        BY <2>2, <4>1, <4>2, MovesOnward DEF Begin, Unsignalled, At
    <3>3. QED
      BY <3>1, <3>2
  <2>3. CASE Return(w)
    BY <2>1, <2>3 DEF Return, Running, Unsignalled, At
  <2>4. CASE FreeRow(w)
    BY <2>1, <2>4 DEF FreeRow
  <2>5. ASSUME NEW t \in Tid, ResumeThread(t, w) PROVE Onward
    <3>1. CASE worker' = worker
      BY <3>1 DEF Onward, Unsignalled, Signalled, At
    <3>2. ASSUME NEW u \in Worker, At(u, {"gated"}), worker' = Move(u, "run") PROVE Onward
      BY <2>1, <3>2 DEF Unsignalled, At
    <3>3. QED
      BY <2>5, <3>1, <3>2 DEF ResumeThread, Gated
  <2>6. QED
    BY <2>2, <2>3, <2>4, <2>5
<1>3. QED
  BY <1>1, <1>2, OnwardKeeps

\* What a worker signals at its end is its own object, or the worker is one whose
\* handle was closed early.
LEMMA SignalExitJoin ==
    ASSUME LifeInv, JoinInv, NEW w \in Worker, SignalExit(w) PROVE JoinInv'
<1> DEFINE h == worker[w].h
           r == [worker[w] EXCEPT !.at = "signalled"]
<1>1. r.at = "signalled" /\ r.h = h /\ worker' = [worker EXCEPT ![w] = r]
  BY LifeTypes DEF SignalExit, Move, WorkerRecord
<1> HIDE DEF r
<1>2. Onward /\ Signalled(w)'
  <2>1. Onward
    BY <1>1, MovesOnward
  <2>2. worker'[w] = r
    BY <1>1, LifeTypes
  <2>3. QED
    BY <1>1, <2>1, <2>2 DEF Signalled, At
<1>3. open' = open /\ early' = early /\ Unsignalled(w)
  BY DEF SignalExit, Unsignalled, At
<1>4. CASE UNCHANGED objs
  BY <1>2, <1>3, <1>4, OnwardKeeps
<1>5. CASE h # S!NoHandle /\ S!ThreadExit(w, h)
  <2>1. h \in Handle
    BY <1>5, LifeTypes DEF WorkerRecord
  <2>2. \A g \in Handle : /\ objs'[g].type = objs[g].type
                          /\ objs'[g].owner = objs[g].owner
                          /\ g # h => objs'[g].exited = objs[g].exited
    <3>1. S!TypeOK /\ w \in Tid
      BY LifeTypes
    <3>2. S!ThreadExit(w, h)
      BY <1>5
    <3> HIDE DEF h
    <3>3. QED
      BY <2>1, <3>1, <3>2, ExitMarks
  <2>3. \A v \in open : v \in Worker /\ worker[v].h \in Handle
    BY LifeTypes DEF LifeInv, OpenStarted
  <2>4. OwnObject'
    BY <1>2, <1>3, <2>2, <2>3 DEF JoinInv, OwnObject, OwnsObject, Onward
  <2>5. EarlyKnown'
    BY <1>2, <1>3 DEF JoinInv, EarlyKnown, Onward
  <2>6. w \in open \cup early
    BY <1>3, <1>5 DEF JoinInv, EarlyKnown
  <2>7. \A v \in open : worker[v].h = h => v = w \/ w \in early
    BY <2>3, <2>6 DEF JoinInv, OwnObject, OwnsObject
  <2>8. SignalledMeansEnded'
    <3> SUFFICES ASSUME NEW v \in open, objs'[worker[v].h].exited
                 PROVE  Signalled(v)' \/ \E u \in early : worker[u].h = worker[v].h /\ Signalled(u)'
      BY <1>2, <1>3, <2>3, LifeTypes DEF SignalledMeansEnded, Onward
    <3>1. CASE worker[v].h = h
      BY <1>2, <2>7, <3>1
    <3>2. CASE worker[v].h # h
      BY <1>2, <2>2, <2>3, <3>2, LifeTypes DEF JoinInv, SignalledMeansEnded, Onward
    <3>3. QED
      BY <3>1, <3>2
  <2>9. QED
    BY <2>4, <2>5, <2>8 DEF JoinInv
<1>6. QED
  BY <1>4, <1>5 DEF SignalExit, syncVars

\* A close frees the slot of its worker, and of nobody else whose handle is held.
LEMMA CloseHandleJoin ==
    ASSUME LifeInv, JoinInv, NEW t \in Tid, NEW w \in Worker, CloseHandle(t, w)
    PROVE  JoinInv'
<1> DEFINE h == worker[w].h
<1>1. h \in Handle /\ w \in open /\ S!Close(t, h)
  BY DEF CloseHandle, LifeInv, OpenStarted
<1>2. \A g \in Handle \ {h} : objs'[g] = objs[g]
  BY <1>1, LifeTypes, CloseFrees
<1>3. /\ open' = open \ {w} /\ worker' = worker
      /\ early' = IF Signalled(w) THEN early ELSE early \cup {w}
  BY DEF CloseHandle
<1>4. \A v \in open : v \in Worker /\ worker[v].h \in Handle
  BY LifeTypes DEF LifeInv, OpenStarted
<1>5. \A v \in open \ {w} : worker[v].h # h
  BY <1>1 DEF JoinInv, OwnObject, OwnsObject
<1>6. \A v \in open' : v \in open /\ objs'[worker[v].h] = objs[worker[v].h]
  BY <1>2, <1>3, <1>4, <1>5
<1>7. OwnObject'
  BY <1>3, <1>6 DEF JoinInv, OwnObject, OwnsObject
<1>8. EarlyKnown'
  BY <1>3 DEF JoinInv, EarlyKnown, Unsignalled, Signalled, At
<1>9. SignalledMeansEnded'
  BY <1>3, <1>6 DEF JoinInv, SignalledMeansEnded, Signalled, At
<1>10. QED
  BY <1>7, <1>8, <1>9 DEF JoinInv

\* CreateThread takes a free slot: no handle that is held has it.
LEMMA SpawnJoin ==
    ASSUME LifeInv, JoinInv, NEW t \in Tid, NEW w \in Worker, Spawn(t, w) PROVE JoinInv'
<1>1. PICK h \in Handle \cup {S!NoHandle}, susp \in BOOLEAN, ok \in BOOLEAN :
         /\ IF \E g \in Handle : ~S!Live(g)
              THEN h \in Handle /\ S!FreeSlot(h) /\ NewObject(w, h)
              ELSE h = S!NoHandle /\ UNCHANGED objs
         /\ worker' = [worker EXCEPT ![w] =
                         [at |-> IF ok THEN "made" ELSE "failed",
                          h |-> h, row |-> NewRow, susp |-> susp, gate |-> 0]]
         /\ open' = IF ok /\ h # S!NoHandle THEN open \cup {w} ELSE open
         /\ early' = {v \in early : worker[v].h = h => ~Signalled(v)}
  BY DEF Spawn
<1> DEFINE r == [at |-> IF ok THEN "made" ELSE "failed",
                 h |-> h, row |-> NewRow, susp |-> susp, gate |-> 0]
<1>2. /\ r.h = h /\ r.at = (IF ok THEN "made" ELSE "failed")
      /\ worker' = [worker EXCEPT ![w] = r]
  BY <1>1
<1> HIDE DEF r
<1>3. \A v \in Worker : worker'[v] = IF v = w THEN r ELSE worker[v]
  BY <1>2, LifeTypes
<1>4. w \notin open /\ ~Signalled(w)
  BY DEF LifeInv, OpenStarted, Spawn, NextTid, Signalled, At
<1>5. \A v \in open : v \in Worker /\ worker[v].h \in Handle
  BY LifeTypes DEF LifeInv, OpenStarted
<1>6. \A v \in open : worker[v].h # h /\ objs'[worker[v].h] = objs[worker[v].h]
  <2>1. CASE h = S!NoHandle /\ UNCHANGED objs
    BY <1>5, <2>1 DEF S!NoHandle
  <2>2. CASE h \in Handle /\ ~S!Live(h) /\ NewObject(w, h)
    <3>1. \A g \in Handle \ {h} : objs'[g] = objs[g]
      BY <2>2, LifeTypes, NewObjectMade
    <3>2. QED
      BY <1>5, <2>2, <3>1 DEF JoinInv, OwnObject, OwnsObject, S!Live
  <2>3. QED
    BY <1>1, <2>1, <2>2 DEF S!FreeSlot
<1>7. w \in open' =>
        /\ ok /\ h \in Handle
        /\ objs'[h].type = "thread" /\ objs'[h].owner = w /\ ~objs'[h].exited
  <2>1. w \in open' => ok /\ h \in Handle /\ NewObject(w, h)
    BY <1>1, <1>4
  <2>2. QED
    BY <2>1, LifeTypes, NewObjectMade
<1>8. \A v \in open' : v = w \/ v \in open
  BY <1>1
<1>9. OwnObject'
  <2> SUFFICES ASSUME NEW v \in open' PROVE OwnsObject(v)'
    BY DEF OwnObject
  <2>1. CASE v = w
    BY <1>2, <1>3, <1>7, <2>1 DEF OwnsObject
  <2>2. CASE v # w
    <3>1. v \in open /\ worker'[v] = worker[v]
      BY <1>3, <1>5, <1>8, <2>2
    <3>2. OwnsObject(v) /\ objs'[worker[v].h] = objs[worker[v].h]
      BY <1>6, <3>1 DEF JoinInv, OwnObject
    <3>3. QED
      BY <3>1, <3>2 DEF OwnsObject
  <2>3. QED
    BY <2>1, <2>2
<1>10. EarlyKnown'
  <2> SUFFICES ASSUME NEW v \in Worker, Unsignalled(v)', worker'[v].h # S!NoHandle
               PROVE  v \in open' \cup early'
    BY DEF EarlyKnown
  <2>1. CASE v = w
    BY <1>1, <1>2, <1>3, <2>1 DEF Unsignalled, At
  <2>2. CASE v # w
    <3>1. Unsignalled(v) /\ worker[v].h # S!NoHandle
      BY <1>3, <2>2 DEF Unsignalled, At
    <3>2. v \in open \cup early /\ ~Signalled(v)
      BY <3>1 DEF JoinInv, EarlyKnown, Unsignalled, Signalled, At
    <3>3. QED
      BY <1>1, <3>2
  <2>3. QED
    BY <2>1, <2>2
<1>11. SignalledMeansEnded'
  <2> SUFFICES ASSUME NEW v \in open', objs'[worker'[v].h].exited
               PROVE  \/ Signalled(v)'
                      \/ \E u \in early' : worker'[u].h = worker'[v].h /\ Signalled(u)'
    BY DEF SignalledMeansEnded
  <2>1. v # w
    BY <1>2, <1>3, <1>7
  <2>2. v \in open /\ worker'[v] = worker[v] /\ worker[v].h # h /\ objs[worker[v].h].exited
    BY <1>3, <1>5, <1>6, <1>8, <2>1
  <2>3. CASE Signalled(v)
    BY <2>2, <2>3 DEF Signalled, At
  <2>4. ASSUME NEW u \in early, worker[u].h = worker[v].h, Signalled(u)
        PROVE  u \in early' /\ worker'[u].h = worker'[v].h /\ Signalled(u)'
    <3>1. u # w /\ u \in Worker
      BY <1>4, <2>4, LifeTypes
    <3>2. worker'[u] = worker[u] /\ u \in early'
      BY <1>1, <1>3, <2>2, <2>4, <3>1
    <3>3. QED
      BY <2>2, <2>4, <3>2 DEF Signalled, At
  <2>5. QED
    BY <2>2, <2>3, <2>4 DEF JoinInv, SignalledMeansEnded
<1>12. QED
  BY <1>9, <1>10, <1>11 DEF JoinInv

LEMMA JoinInvStep ==
    ASSUME LifeInv, JoinInv, [ThreadNext]_vars PROVE JoinInv'
<1>1. ASSUME UNCHANGED worker, UNCHANGED <<open, early, objs>> PROVE JoinInv'
  BY <1>1, OnwardKeeps DEF Onward, Unsignalled, Signalled, At
<1>2. CASE UNCHANGED vars
  BY <1>1, <1>2 DEF vars, lifeVars, syncVars
<1>3. ASSUME NEW t \in Tid, TlsSetValue(t) PROVE JoinInv'
  BY <1>1, <1>3 DEF TlsSetValue, syncVars
<1>4. ASSUME NEW t \in Tid, (\E w \in Worker : Join(t, w)) \/ JoinRecheck(t) PROVE JoinInv'
  BY <1>1, <1>4, JoinSteps DEF lifeVars
<1>5. QED
  BY <1>2, <1>3, <1>4, QuietJoin, SignalExitJoin, CloseHandleJoin, SpawnJoin
  DEF ThreadNext, GuestStep, PthreadStep

\* A handle the guest holds is signalled only after its thread's procedure returned,
\* or by a thread whose handle was closed early and that had the slot by its number:
\* in no other way does wg_sync_thread_exit reach a thread that still runs.
THEOREM JoinsMeanEnded == ThreadSpec => []SignalledMeansEnded
<1>1. ThreadInit => JoinInv
  BY DEF ThreadInit, JoinInv, OwnObject, EarlyKnown, SignalledMeansEnded, Unsignalled, At
<1>2. LifeInv /\ JoinInv /\ [ThreadNext]_vars => JoinInv'
  BY JoinInvStep
<1>3. JoinInv => SignalledMeansEnded
  BY DEF JoinInv
<1>4. QED
  BY <1>1, <1>2, <1>3, LifeInvariant, PTL DEF ThreadSpec

=============================================================================
