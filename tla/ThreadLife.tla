----------------------------- MODULE ThreadLife -----------------------------
(***************************************************************************)
(* The life of a guest thread that has a pthread of its own (wg_engine.c,   *)
(* wg_spawn_real_thread and wg_worker_thread_entry), from CreateThread to   *)
(* the last thing its pthread does: its thread object (WgSync, the same     *)
(* table the joiners wait in), its resume gate when it was created          *)
(* suspended, and its row of the TLS arrays.                                *)
(*                                                                          *)
(* Guest code and the handlers it calls run under the GIL and are one       *)
(* action each.  A worker's start and its exit steps run outside it and     *)
(* fall anywhere between them.  Objects are found by handle, and a handle   *)
(* is a slot number: the tables outlive the threads.                        *)
(***************************************************************************)
EXTENDS Integers, FiniteSets, Sequences

CONSTANTS
    MainTid,    \* the engine's own thread
    Worker,     \* pthreads that may be spawned, named by their guest tid
    Handle,     \* slots of the object table
    Row,        \* rows of the TLS arrays that workers may have
    GateMax,    \* entries of s_resume_gates
    Callers,    \* threads whose code creates, resumes, joins and closes others
    Failures    \* TRUE: pthread_create may fail

ASSUME ThreadAssumption ==
    /\ Worker \cup {MainTid} \subseteq Nat \ {0} /\ MainTid \notin Worker
    /\ Handle \subseteq Nat \ {0}
    /\ Row \subseteq Nat \ {0}
    /\ GateMax \in Nat /\ Callers \subseteq Worker \cup {MainTid}
    /\ Failures \in BOOLEAN

VARIABLES
    objs, call, parked, waitq, ret,     \* WgSync's
    worker,     \* per worker: where it is in its life and what it was given
    gates,      \* s_resume_gates, in the order of their entries
    rows,       \* the rows that s_tls_slot_used marks
    tls,        \* per row: who wrote the values in it, or NoTid
    open,       \* workers whose handle the guest holds
    resumed,    \* history: workers that were resumed and do not run yet
    early       \* history: workers whose handle was closed before they ended

Tid == Worker \cup {MainTid}

S == INSTANCE WgSync WITH Kinds <- {"thread"}, Closable <- {"thread"},
       Requests <- {<<h>> : h \in Handle}, Modes <- {"inf"}, Kicks <- {},
       HeldOnly <- FALSE, MaxCount <- 1, WaitqMax <- 128

syncVars == <<objs, call, parked, waitq, ret>>
lifeVars == <<worker, gates, rows, tls, open, resumed, early>>
vars == <<syncVars, lifeVars>>

NoTid == 0
MainRow == 0    \* the main thread's row, shared when the pool is empty

\* "made": pthread_create was called.  "ended": the thread procedure returned.
\* "signalled": the thread object was told.  "failed": pthread_create failed.
Stage == {"none", "made", "gated", "run", "ended", "signalled", "gone", "failed"}

At(w, stages) == worker[w].at \in stages

\* The pthread exists and has not given its row back.
Alive(w) == At(w, {"made", "gated", "run", "ended", "signalled"})

\* The worker has told its object.
Signalled(w) == At(w, {"signalled", "gone"})

\* t can issue a Win32 call: it executes guest code and is in no wait.
Running(t) == S!Idle(t) /\ (t # MainTid => At(t, {"run"}))

\* Guest tids are handed out in order (next_id++).
NextTid(w) == At(w, {"none"}) /\ \A v \in Worker : At(v, {"none"}) => w <= v

-----------------------------------------------------------------------------
(* CreateThread.                                                            *)

\* Mutant of NewRow: an empty pool falls back to the first worker's row.
NewRowWorkers ==
    IF Row \subseteq rows THEN CHOOSE r \in Row : \A q \in Row : r <= q
      ELSE CHOOSE r \in Row \ rows : \A q \in Row \ rows : r <= q

\* wg_alloc_tls_slot.
NewRow ==
    IF Row \subseteq rows THEN MainRow
      ELSE CHOOSE r \in Row \ rows : \A q \in Row \ rows : r <= q

\* wg_resume_gate_create: without a free entry there is no gate.
NewGates(h) ==
    IF Len(gates) < GateMax THEN Append(gates, [handle |-> h, resumed |-> FALSE])
                            ELSE gates

\* Mutant of NewObject: the slot is not zeroed.
NewObjectUnzeroed(w, h) ==
    objs' = [objs EXCEPT ![h].type = "thread", ![h].owner = w]

NewObject(w, h) ==
    objs' = [objs EXCEPT ![h] = [S!FreeObj EXCEPT !.type = "thread", !.owner = w]]

\* The object comes first, then the row, the gate and the pthread.  With the
\* table full the handle is 0 and the pthread starts all the same, unknown to
\* the guest.  A pthread that cannot be made leaves the rest behind.
Spawn(t, w) ==
    /\ Running(t) /\ NextTid(w)
    /\ \E h \in Handle \cup {S!NoHandle}, susp \in BOOLEAN, ok \in BOOLEAN :
         /\ IF \E g \in Handle : ~S!Live(g)
              THEN h \in Handle /\ S!FreeSlot(h) /\ NewObject(w, h)
              ELSE h = S!NoHandle /\ UNCHANGED objs
         /\ ok \/ Failures
         /\ worker' = [worker EXCEPT ![w] =
                         [at |-> IF ok THEN "made" ELSE "failed",
                          h |-> h, row |-> NewRow, susp |-> susp, gate |-> 0]]
         /\ rows' = rows \cup ({NewRow} \ {MainRow})
         /\ gates' = IF susp THEN NewGates(h) ELSE gates
         /\ open' = IF ok /\ h # S!NoHandle THEN open \cup {w} ELSE open
         /\ early' = {v \in early : worker[v].h = h => ~Signalled(v)}
    /\ UNCHANGED <<call, parked, waitq, ret, tls, resumed>>

-----------------------------------------------------------------------------
(* Resume gates.                                                            *)

GatesOf(h) == {i \in DOMAIN gates : gates[i].handle = h}

\* Both sides take the first entry with the handle.
GateOf(h) == CHOOSE i \in GatesOf(h) : \A j \in GatesOf(h) : i <= j

\* Those of the workers ws that do not run after this step.
Held(ws) == {v \in ws : worker'[v].at \in {"made", "gated"}}

Move(w, stage) == [worker EXCEPT ![w].at = stage]

\* The new pthread seeds its frame; a suspended one then looks for its gate.
\* No entry, or one that was signalled, lets it through.
Begin(w) ==
    /\ At(w, {"made"})
    /\ LET h == worker[w].h
           waits == worker[w].susp /\ GatesOf(h) # {} /\ ~gates[GateOf(h)].resumed
       IN worker' = IF waits THEN [worker EXCEPT ![w].at = "gated",
                                                 ![w].gate = GateOf(h)]
                             ELSE Move(w, "run")
    /\ resumed' = Held(resumed)
    /\ UNCHANGED <<syncVars, gates, rows, tls, open, early>>

Gated(i) == {w \in Worker : At(w, {"gated"}) /\ worker[w].gate = i}

\* Nobody else stands at the gate of w: a worker whose handle was closed while it
\* was suspended may, when w has its slot.
OwnGate(w) == \A v \in Worker \ {w} : At(v, {"gated"}) => worker[v].h # worker[w].h

\* Mutant of ResumeThread: the flag is set, and the condition not signalled.
ResumeThreadSilent(t, w) ==
    /\ Running(t) /\ w \in open /\ worker[w].susp /\ GatesOf(worker[w].h) # {}
    /\ gates' = [gates EXCEPT ![GateOf(worker[w].h)].resumed = TRUE]
    /\ UNCHANGED <<syncVars, worker, rows, tls, open, early>>
    /\ resumed' = Held(IF OwnGate(w) THEN resumed \cup {w} ELSE resumed)

\* wg_resume_gate_signal: the flag, and pthread_cond_signal for one waiter.
ResumeThread(t, w) ==
    /\ Running(t) /\ w \in open /\ worker[w].susp
    /\ IF GatesOf(worker[w].h) = {} THEN UNCHANGED <<gates, worker>>
       ELSE LET i == GateOf(worker[w].h)
            IN /\ gates' = [gates EXCEPT ![i].resumed = TRUE]
               /\ IF Gated(i) = {} THEN UNCHANGED worker
                    ELSE \E u \in Gated(i) : worker' = Move(u, "run")
    /\ UNCHANGED <<syncVars, rows, tls, open, early>>
    /\ resumed' = Held(IF OwnGate(w) THEN resumed \cup {w} ELSE resumed)

-----------------------------------------------------------------------------
(* What the guest program does meanwhile.                                   *)

\* The values of the row that is shared are not followed.
TlsSetValue(t) ==
    /\ Running(t) /\ t # MainTid /\ worker[t].row # MainRow
    /\ tls' = [tls EXCEPT ![worker[t].row] = t]
    /\ UNCHANGED <<syncVars, worker, gates, rows, open, resumed, early>>

\* The thread procedure returns, calls ExitThread, or faults: rip 0.
Return(w) ==
    /\ Running(w)
    /\ worker' = Move(w, "ended")
    /\ UNCHANGED <<syncVars, gates, rows, tls, open, resumed, early>>

\* Whether the thread has ended or not; no guest closes a handle it is waiting on.
CloseHandle(t, w) ==
    /\ Running(t) /\ w \in open
    /\ \A u \in Tid : S!Waiting(u) => call[u].hs # <<worker[w].h>>
    /\ S!Close(t, worker[w].h)
    /\ open' = open \ {w}
    /\ early' = IF Signalled(w) THEN early ELSE early \cup {w}
    /\ UNCHANGED <<worker, gates, rows, tls, resumed>>

\* WaitForSingleObject on a thread handle, INFINITE.
Join(t, w) ==
    /\ Running(t) /\ w \in open
    /\ S!Turn(t, [op |-> "single", hs |-> <<worker[w].h>>, all |-> FALSE,
                  timed |-> FALSE], "inf")
    /\ UNCHANGED lifeVars

JoinRecheck(t) == S!WaitRecheck(t) /\ UNCHANGED lifeVars

-----------------------------------------------------------------------------
(* The end of wg_worker_thread_entry, outside the GIL.                      *)

\* wg_sync_thread_exit goes by the handle, whatever has that slot by now.
SignalExit(w) ==
    /\ At(w, {"ended"})
    /\ LET h == worker[w].h
       IN IF h # S!NoHandle /\ S!IsA(h, "thread") /\ ~objs[h].exited
            THEN S!ThreadExit(w, h) ELSE UNCHANGED syncVars
    /\ worker' = Move(w, "signalled")
    /\ UNCHANGED <<gates, rows, tls, open, resumed, early>>

\* Mutant of FreeRow: the first row is freed, not the worker's own.
FreeRowFirst(w) ==
    /\ At(w, {"signalled"})
    /\ rows' = rows \ {CHOOSE r \in Row : \A q \in Row : r <= q}
    /\ worker' = Move(w, "gone")
    /\ UNCHANGED <<syncVars, gates, tls, open, resumed, early>>

\* wg_free_tls_slot: the row may be handed out again; its values stay in it.
FreeRow(w) ==
    /\ At(w, {"signalled"})
    /\ rows' = rows \ {worker[w].row}
    /\ worker' = Move(w, "gone")
    /\ UNCHANGED <<syncVars, gates, tls, open, resumed, early>>

-----------------------------------------------------------------------------
ThreadInit ==
    /\ S!Init
    /\ worker = [w \in Worker |-> [at |-> "none", h |-> S!NoHandle, row |-> MainRow,
                                   susp |-> FALSE, gate |-> 0]]
    /\ gates = <<>>
    /\ rows = {}
    /\ tls = [r \in Row |-> NoTid]
    /\ open = {}
    /\ resumed = {} /\ early = {}

GuestStep(t) ==
    \/ t \in Callers /\ \E w \in Worker :
          Spawn(t, w) \/ ResumeThread(t, w) \/ CloseHandle(t, w) \/ Join(t, w)
    \/ TlsSetValue(t)

PthreadStep(w) == Begin(w) \/ SignalExit(w) \/ FreeRow(w)

ThreadNext ==
    \/ \E t \in Tid : GuestStep(t) \/ JoinRecheck(t)
    \/ \E w \in Worker : Return(w) \/ PthreadStep(w)

\* The host runs every pthread; nothing makes guest code do anything.
ThreadFairness ==
    /\ \A t \in Tid : WF_vars(JoinRecheck(t))
    /\ \A w \in Worker : WF_vars(PthreadStep(w))

ThreadSpec == ThreadInit /\ [][ThreadNext]_vars /\ ThreadFairness

-----------------------------------------------------------------------------
(* Properties.                                                              *)

\* Every variable has its type, those of the object table included.
ThreadTypeOK ==
    /\ S!TypeOK
    /\ worker \in [Worker -> [at : Stage, h : Handle \cup {S!NoHandle},
                              row : Row \cup {MainRow}, susp : BOOLEAN,
                              gate : 0 .. GateMax]]
    /\ gates \in Seq([handle : Handle \cup {S!NoHandle}, resumed : BOOLEAN])
    /\ Len(gates) <= GateMax
    /\ rows \subseteq Row
    /\ tls \in [Row -> Worker \cup {NoTid}]
    /\ open \subseteq Worker /\ resumed \subseteq Worker /\ early \subseteq Worker

\* The row pool (wg_alloc_tls_slot, wg_free_tls_slot) against the threads: no
\* two living workers have the same row, the overflow onto the main thread's
\* row apart, and a row is marked used exactly while a worker has it, or for
\* good once the worker it was taken for could not be made.
RowsAccounted ==
    /\ \A v, w \in Worker :
         v # w /\ Alive(v) /\ Alive(w) /\ worker[v].row = worker[w].row
           => worker[v].row = MainRow
    /\ rows = {worker[w].row : w \in {v \in Worker : Alive(v) \/ At(v, {"failed"})}}
                \ {MainRow}

\* A thread's TLS values (TlsSetValue) are its own: from its first call to its
\* exit no other thread overwrites them, unless it shares the main row.
TlsKept ==
    [][\A w \in Worker :
         /\ Alive(w) /\ worker[w].row # MainRow
         /\ tls[worker[w].row] = w
         => tls'[worker[w].row] = w]_vars

\* A thread handle the guest holds is signalled only after that thread's
\* procedure returned, or by a thread whose handle was closed while it ran and
\* that had the slot: wg_sync_thread_exit goes by the number (wg_engine.c:9408).
\* In particular a join means what it says as long as no handle is closed early.
SignalledMeansEnded ==
    \A w \in open : objs[worker[w].h].exited =>
        Signalled(w) \/ \E v \in early : worker[v].h = worker[w].h /\ Signalled(v)

\* ResumeThread releases the worker, whether it comes before or after the
\* worker has reached its gate, when it has the gate to itself: the condition is
\* signalled for one waiter only (wg_resume_gate_signal).
ResumedRuns ==
    \A w \in Worker : w \in resumed ~> ~At(w, {"made", "gated"})

\* A join of a thread whose procedure has returned comes back.
JoinReturns ==
    \A t \in Callers :
        (\E w \in open : /\ S!Waiting(t) /\ call[t].hs = <<worker[w].h>>
                         /\ At(w, {"ended"}))
        ~> S!Idle(t)

\* The life of every worker and what it holds are in step.
ThreadsAccounted == ThreadTypeOK /\ RowsAccounted

\* Neither ResumeThread nor a join is lost on a thread that can run.
ThreadsProceed == ResumedRuns /\ JoinReturns
=============================================================================
