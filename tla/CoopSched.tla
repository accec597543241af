----------------------------- MODULE CoopSched -----------------------------
(***************************************************************************)
(* The cooperative scheduler (wg_threading.c): a table of guest threads of  *)
(* which one at a time has its registers in the emulator.  The operators    *)
(* take the scheduler as a value and return the next one; CoopGuest holds   *)
(* it in a variable and calls them from the API handlers.                   *)
(***************************************************************************)
EXTENDS Integers, FiniteSets, FiniteSetsExt

CONSTANT MaxThreads     \* WG_MAX_THREADS

ASSUME MaxThreadsAssumption == MaxThreads \in Nat \ {0}

Slot == 0 .. MaxThreads - 1

\* current = -1: the thread that ran is gone and no other can run.
NoSlot == -1

\* wait_handle 0.
NoHandle == <<"none">>

\* The handle counter starts at 0x7100, below it is the main thread's.
MainHandle == <<"thread", 0>>

ThreadState == {"FREE", "RUNNING", "READY", "WAITING", "SUSPENDED", "EXITED"}

\* Thread 0 is registered by the loader; the table is cleared first.
FreshSched ==
    [state   |-> [i \in Slot |-> IF i = 0 THEN "RUNNING" ELSE "FREE"],
     current |-> 0,
     wait    |-> [i \in Slot |-> NoHandle],
     handle  |-> [i \in Slot |-> IF i = 0 THEN MainHandle ELSE NoHandle],
     next    |-> 1]

InState(s, st) == {i \in Slot : s.state[i] = st}

\* Mutant of ScanStart: every scan begins at the first slot.
ScanStartAtZero(s) == 0

\* The slot after the current one; slot 0 after an exit.
ScanStart(s) == s.current + 1

\* How far slot i is from the start of the scan.
Distance(s, i) == (i - ScanStart(s)) % MaxThreads

\* The first READY slot of the scan: the others, then the current one.
Chosen(s) ==
    CHOOSE i \in InState(s, "READY") :
        \A j \in InState(s, "READY") : Distance(s, i) <= Distance(s, j)

\* wg_sched_switch_next.
SwitchNext(s) ==
    IF InState(s, "READY") = {} THEN s
      ELSE [s EXCEPT !.state[Chosen(s)] = "RUNNING", !.current = Chosen(s)]

\* wg_sched_save_current.
SaveCurrent(s, st) ==
    IF s.current = NoSlot THEN s ELSE [s EXCEPT !.state[s.current] = st]

OtherReady(s) == InState(s, "READY") \ {s.current} # {}

\* wg_sched_yield: what it returns, and the scheduler after it.  Saved READY,
\* the current thread is a candidate of its own scan.
YieldSwitches(s, st) == InState(SaveCurrent(s, st), "READY") # {}

\* Mutant of Yield: the thread that finds no other is left as it was saved.
YieldForgets(s, st) == SwitchNext(SaveCurrent(s, st))

Yield(s, st) ==
    IF YieldSwitches(s, st) THEN SwitchNext(SaveCurrent(s, st))
                            ELSE SaveCurrent(s, "RUNNING")

\* wg_sched_wake.
Wake(s, h) ==
    LET Woken(i) == s.state[i] = "WAITING" /\ s.wait[i] = h
    IN  [s EXCEPT !.state = [i \in Slot |-> IF Woken(i) THEN "READY" ELSE s.state[i]],
                  !.wait = [i \in Slot |-> IF Woken(i) THEN NoHandle ELSE s.wait[i]]]

\* wg_sched_exit_thread: the slot stays taken.
ExitThread(s) ==
    SwitchNext([s EXCEPT !.state[s.current] = "EXITED", !.current = NoSlot])

\* wg_sched_create_thread: it fails without a FREE slot.
CanCreate(s) == InState(s, "FREE") # {}

CreateThread(s, suspended) ==
    LET i == Min(InState(s, "FREE"))
    IN  [s EXCEPT !.state[i] = IF suspended THEN "SUSPENDED" ELSE "READY",
                  !.wait[i] = NoHandle,
                  !.handle[i] = <<"thread", s.next>>,
                  !.next = @ + 1]

\* wg_sched_find.
Find(s, h) == {i \in Slot : s.handle[i] = h /\ s.state[i] # "FREE"}

Exited(s, h) == \E i \in Find(s, h) : s.state[i] = "EXITED"

\* ResumeThread's write to the thread it found.
Resume(s, h) ==
    [s EXCEPT !.state = [i \in Slot |->
        IF i \in Find(s, h) /\ s.state[i] = "SUSPENDED" THEN "READY" ELSE s.state[i]]]
=============================================================================
