----------------------------- MODULE CoopGuest -----------------------------
(***************************************************************************)
(* Guest threads without pthreads of their own (s_use_real_threads FALSE):  *)
(* the API handlers of wg_engine.c over the cooperative scheduler.  One     *)
(* thread runs at a time and each handler is one step.  A handler that has  *)
(* switched to another thread returns with the program counter still on the *)
(* call, so that its thread makes the call again when it is resumed: `call' *)
(* holds the call a thread will make again.                                 *)
(***************************************************************************)
EXTENDS CoopSched, Ring, Sequences

CONSTANTS
    MaxEvents,      \* WG_MAX_EVENTS
    Cv, MaxCvs,     \* condition variables by address, WG_MAX_CVS
    Programs,       \* guest programs: the functions they call and the
                    \* handles and timeouts they wait with
    Later,          \* those that are loaded after another one
    RealTimeouts,   \* s_real_timeouts
    Careful,        \* TRUE: the guest closes an event once, when nobody waits
    Watched,        \* bound: threads whose progress is checked
    MaxWakes,       \* bound: wakes of a condition variable
    MaxLoads        \* bound: programs loaded one after another

ASSUME CoopAssumption ==
    /\ {MaxEvents, MaxCvs, MaxWakes, MaxLoads} \subseteq Nat
    /\ {RealTimeouts, Careful} \subseteq BOOLEAN
    /\ Watched \subseteq Slot

VARIABLES
    imports,    \* the loaded program
    engine,     \* WGEngine.state: RUNNING, PAUSED or HALTED
    sched,      \* the scheduler
    call,       \* per thread: the call it makes again, or NoCall
    due,        \* per thread: its wait_timeout has passed since wait_start_ms
    since,      \* per thread: the timeout class and CV generation of its wait
    exit,       \* per thread: how it ended ("active" before)
    signalled, manual,  \* s_event_signalled, s_event_manual
    next, free, \* s_event_next, s_event_free
    open, mixed,\* history: events the guest holds, slots handed out while held
    cvs,        \* s_cvs: the generation of each condition variable it has
    msgs, comps,\* s_thread_msgs and s_completions
    mail, done, \* history: last message per thread, last completion
    loads       \* programs loaded so far

eventVars == <<signalled, manual, next, free, open, mixed>>
queueVars == <<msgs, comps, mail, done>>
threadVars == <<sched, call, due, since, exit>>
vars == <<imports, engine, threadVars, eventVars, cvs, queueVars, loads>>

EventSlot == 0 .. MaxEvents - 1
Event(i) == <<"event", i>>
Thread(n) == <<"thread", n>>
IsEvent(h) == h[1] = "event"
Port == <<"port">>      \* WG_IOCP_HANDLE
PortSlot == 0           \* whom the completions are for: there is one port
AtCv(c) == <<"cv", c>>
Handles == {Event(i) : i \in EventSlot} \cup {Thread(n) : n \in 0 .. MaxThreads - 1}

NoCall == [fn |-> "none"]
Timeouts == {"zero", "finite", "infinite"}
SingleWaits == [fn : {"WaitForSingleObject"}, h : Handles, to : Timeouts]
MultiWaits == [fn : {"WaitForMultipleObjects"}, all : BOOLEAN, to : Timeouts,
               hs : {<<h>> : h \in Handles} \cup
                    {<<Event(i), Event(i + 1)>> : i \in 0 .. MaxEvents - 2}]
CvSleeps == [fn : {"SleepConditionVariableCS"}, cv : Cv, to : {"finite", "infinite"}]
PortWaits == [fn : {"GetQueuedCompletionStatus"}, to : Timeouts]

\* The sleeper's state before a wait: neither a timeout class nor a generation.
NotWaiting == [to |-> "none", gen |-> 0]

Cur == sched.current
Program == engine = "RUNNING" /\ Cur # NoSlot

\* The current thread calls fn, and no earlier call of its is pending.
Calls(fn) == Program /\ call[Cur] = NoCall /\ fn \in imports.fns

\* The program waits for h, was given it and, if it is careful, has not closed it.
Given(h) == h \in imports.on /\ IF IsEvent(h) THEN h[2] \in open \/ (~Careful /\ h[2] < next)
                                             ELSE h[2] < sched.next

\* The current thread makes call c, for the first time or again.
Makes(c) ==
    /\ Program
    /\ \/ call[Cur] = c
       \/ /\ call[Cur] = NoCall /\ c.fn \in imports.fns /\ c.to \in imports.tos
          /\ c.fn = "WaitForSingleObject" => Given(c.h)
          /\ c.fn = "WaitForMultipleObjects" => \A k \in DOMAIN c.hs : Given(c.hs[k])

Init ==
    /\ imports \in Programs
    /\ engine = "RUNNING" /\ sched = FreshSched
    /\ call = [i \in Slot |-> NoCall] /\ due = [i \in Slot |-> TRUE]
    /\ since = [i \in Slot |-> NotWaiting] /\ exit = [i \in Slot |-> "active"]
    /\ signalled = [i \in EventSlot |-> FALSE] /\ manual = [i \in EventSlot |-> FALSE]
    /\ next = 0 /\ free = <<>> /\ open = {} /\ mixed = {}
    /\ cvs = <<>>
    /\ msgs = EmptyRing /\ comps = EmptyRing
    /\ mail = [i \in Slot |-> <<>>] /\ done = <<>>
    /\ loads = 1

\* The handler gives the processor up; alone in state WAITING it returns.
Park(c, h, st) ==
    LET s == [sched EXCEPT !.wait[Cur] = h]
    IN  /\ sched' = Yield(s, st)
        /\ call' = [call EXCEPT ![Cur] = IF YieldSwitches(s, st) THEN c ELSE NoCall]
        /\ since' = [since EXCEPT ![Cur].to = c.to]

Returns == call' = [call EXCEPT ![Cur] = NoCall]

\* The current thread's wait_handle is cleared when `clears'.
Finishes(clears) ==
    /\ Returns
    /\ sched' = IF clears THEN [sched EXCEPT !.wait[Cur] = NoHandle] ELSE sched
    /\ UNCHANGED <<due, since>>

-----------------------------------------------------------------------------
(* Events.                                                                  *)

\* The last slot closed is handed out first.
CanCreateEvent == free # <<>> \/ next < MaxEvents
NewEvent == IF free # <<>> THEN free[Len(free)] ELSE next

\* CreateEvent, CreateEventEx.
CreateEvent == \E man, set \in BOOLEAN :
    /\ Calls("CreateEvent") /\ CanCreateEvent
    /\ signalled' = [signalled EXCEPT ![NewEvent] = set]
    /\ manual' = [manual EXCEPT ![NewEvent] = man]
    /\ free' = IF free # <<>> THEN SubSeq(free, 1, Len(free) - 1) ELSE free
    /\ next' = IF free # <<>> THEN next ELSE next + 1
    /\ open' = open \cup {NewEvent}
    /\ mixed' = IF NewEvent \in open THEN mixed \cup {NewEvent} ELSE mixed
    /\ UNCHANGED <<imports, engine, threadVars, cvs, queueVars, loads>>

SetEvent == \E i \in EventSlot :
    /\ Calls("SetEvent") /\ i \in open
    /\ signalled' = [signalled EXCEPT ![i] = TRUE]
    /\ sched' = Wake(sched, Event(i))
    /\ UNCHANGED <<imports, engine, call, due, since, exit, manual, next, free,
                   open, mixed, cvs, queueVars, loads>>

ResetEvent == \E i \in EventSlot :
    /\ Calls("ResetEvent") /\ i \in open
    /\ signalled' = [signalled EXCEPT ![i] = FALSE]
    /\ UNCHANGED <<imports, engine, threadVars, manual, next, free, open, mixed,
                   cvs, queueVars, loads>>

\* Some thread is in a call on event i.
InUse(i) == \E t \in Slot :
    \/ call[t].fn = "WaitForSingleObject" /\ call[t].h = Event(i)
    \/ call[t].fn = "WaitForMultipleObjects"
         /\ \E k \in DOMAIN call[t].hs : call[t].hs[k] = Event(i)

\* CloseHandle of a number in the range of the events: its slot is free again,
\* whether or not it was in use.
CloseEvent == \E i \in EventSlot :
    /\ Calls("CloseHandle") /\ i < next
    /\ Careful => i \in open /\ ~InUse(i)
    /\ free' = IF Len(free) < MaxEvents THEN Append(free, i) ELSE free
    /\ open' = open \ {i}
    /\ UNCHANGED <<imports, engine, threadVars, signalled, manual, next, mixed,
                   cvs, queueVars, loads>>

Signalled(h) == IF IsEvent(h) THEN signalled[h[2]] ELSE Exited(sched, h)

\* wg_event_consume of each of the handles.
Consume(hs) ==
    signalled' = [i \in EventSlot |->
        signalled[i] /\ (manual[i] \/ Event(i) \notin hs)]

-----------------------------------------------------------------------------
(* Waits.                                                                   *)

keptByWait == <<imports, engine, exit, manual, next, free, open, mixed, cvs,
                queueVars, loads>>

WaitSatisfied(c) ==
    /\ Signalled(c.h)
    /\ Consume({c.h})
    /\ Finishes(RealTimeouts)

\* A poll lets the others run first, and polls again.
WaitPolls(c) ==
    /\ ~Signalled(c.h) /\ c.to = "zero"
    /\ IF OtherReady(sched) THEN Park(c, c.h, "READY") /\ UNCHANGED due
                           ELSE Finishes(FALSE)
    /\ UNCHANGED signalled

\* The thread's wait_handle and wait_timeout say that its clock runs for c.
ClockRuns(c) == sched.wait[Cur] = c.h /\ since[Cur].to = c.to

Expired(c) == RealTimeouts /\ c.to = "finite" /\ ClockRuns(c) /\ due[Cur]

WaitExpires(c) ==
    /\ ~Signalled(c.h) /\ Expired(c)
    /\ Finishes(TRUE)
    /\ UNCHANGED signalled

\* A finite wait stays runnable and polls; a new one starts the clock.
WaitBlocks(c) ==
    /\ ~Signalled(c.h) /\ c.to # "zero" /\ ~Expired(c)
    /\ Park(c, c.h, IF c.to = "infinite" THEN "WAITING" ELSE "READY")
    /\ due' = IF c.to = "finite" /\ ~ClockRuns(c) THEN [due EXCEPT ![Cur] = FALSE] ELSE due
    /\ UNCHANGED signalled

WaitForSingleObject(c) ==
    /\ Makes(c)
    /\ WaitSatisfied(c) \/ WaitPolls(c) \/ WaitExpires(c) \/ WaitBlocks(c)
    /\ UNCHANGED keptByWait

\* Handles of the call that are signalled, by position.
Hits(c) == {k \in DOMAIN c.hs : Signalled(c.hs[k])}
Satisfied(c) == IF c.all THEN Hits(c) = DOMAIN c.hs ELSE Hits(c) # {}

MultiSatisfied(c) ==
    /\ Satisfied(c)
    /\ Consume(IF c.all THEN {c.hs[k] : k \in DOMAIN c.hs} ELSE {c.hs[Min(Hits(c))]})
    /\ Finishes(FALSE)

\* The thread waits on the first handle only, and no clock runs.
MultiBlocks(c) ==
    /\ ~Satisfied(c)
    /\ IF c.to = "zero" THEN Finishes(FALSE)
         ELSE /\ Park(c, c.hs[1], IF c.to = "infinite" THEN "WAITING" ELSE "READY")
              /\ UNCHANGED due
    /\ UNCHANGED signalled

\* WaitForMultipleObjects(Ex), MsgWaitForMultipleObjects(Ex), and with one
\* handle WaitForSingleObjectEx.
WaitForMultipleObjects(c) ==
    /\ Makes(c)
    /\ MultiSatisfied(c) \/ MultiBlocks(c)
    /\ UNCHANGED keptByWait

-----------------------------------------------------------------------------
(* Condition variables.                                                     *)

keptByCv == <<imports, engine, exit, eventVars, queueVars, loads>>

HasCv(c) == c \in DOMAIN cvs

\* cv_slot: an entry is made at the first use, while there is room.
WithCv(c) ==
    IF HasCv(c) \/ Cardinality(DOMAIN cvs) >= MaxCvs THEN cvs
      ELSE [d \in DOMAIN cvs \cup {c} |-> IF d = c THEN 0 ELSE cvs[d]]

WakeCv == \E c \in Cv :
    /\ Calls("WakeConditionVariable")
    /\ c \in DOMAIN WithCv(c) => WithCv(c)[c] < MaxWakes
    /\ cvs' = [d \in DOMAIN WithCv(c) |-> WithCv(c)[d] + IF d = c THEN 1 ELSE 0]
    /\ sched' = Wake(sched, AtCv(c))
    /\ UNCHANGED <<call, due, since, keptByCv>>

Parked(c) == sched.wait[Cur] = AtCv(c.cv)
CvWoken(c) == c.cv \in DOMAIN WithCv(c.cv) /\ WithCv(c.cv)[c.cv] # since[Cur].gen

\* The first call captures the generation.
CvParks(c) ==
    /\ ~Parked(c)
    /\ LET s == [sched EXCEPT !.wait[Cur] = AtCv(c.cv)]
       IN  /\ sched' = Yield(s, "READY")
           /\ call' = [call EXCEPT ![Cur] = IF YieldSwitches(s, "READY") THEN c ELSE NoCall]
    /\ since' = [since EXCEPT ![Cur] =
                   [to |-> c.to,
                    gen |-> IF c.cv \in DOMAIN WithCv(c.cv) THEN WithCv(c.cv)[c.cv] ELSE 0]]
    /\ due' = [due EXCEPT ![Cur] = FALSE]

\* The calls made again look whether the generation moved or the time is over.
CvResumes(c) ==
    /\ Parked(c)
    /\ IF CvWoken(c) \/ (c.to = "finite" /\ due[Cur]) THEN Finishes(TRUE)
         ELSE /\ sched' = Yield(sched, "READY")
              /\ call' = [call EXCEPT ![Cur] =
                            IF YieldSwitches(sched, "READY") THEN c ELSE NoCall]
              /\ UNCHANGED <<due, since>>

SleepCv(c) ==
    /\ RealTimeouts /\ Makes(c)
    /\ cvs' = WithCv(c.cv)
    /\ CvParks(c) \/ CvResumes(c)
    /\ UNCHANGED keptByCv

-----------------------------------------------------------------------------
(* Message and completion queues.                                           *)

\* PostThreadMessage: TRUE is returned whether or not there was room.
PostThreadMessage == \E t \in Slot, body \in {"a", "b"} :
    /\ Calls("PostThreadMessage") /\ sched.state[t] # "FREE"
    /\ msgs' = Push(msgs, [to |-> t, body |-> body])
    /\ UNCHANGED <<imports, engine, threadVars, eventVars, cvs, comps, mail, done, loads>>

TakeMessage ==
    /\ msgs' = IF HasFor(msgs, Cur) THEN PopFor(msgs, Cur) ELSE msgs
    /\ mail' = IF HasFor(msgs, Cur) THEN [mail EXCEPT ![Cur] = <<OldestFor(msgs, Cur)>>]
                                    ELSE mail
    /\ UNCHANGED <<imports, call, due, since, exit, eventVars, cvs, comps, done, loads>>

PeekMessage == Calls("PeekMessage") /\ TakeMessage /\ UNCHANGED <<sched, engine>>

\* GetMessage returns in any case, and yields.
GetMessage ==
    /\ Calls("GetMessage") /\ TakeMessage
    /\ sched' = Yield(sched, "READY")
    /\ engine' = IF YieldSwitches(sched, "READY") THEN "RUNNING" ELSE "PAUSED"

\* Mutant of PostCompletion: the waiters are woken before the ring is written,
\* and a full ring wakes nobody.
PostCompletionSilent == \E body \in {"a", "b"} :
    /\ Calls("PostQueuedCompletionStatus")
    /\ comps' = Push(comps, [to |-> PortSlot, body |-> body])
    /\ UNCHANGED <<imports, engine, threadVars, eventVars, cvs, msgs, mail, done, loads>>

\* PostQueuedCompletionStatus, and a socket call with an OVERLAPPED.
PostCompletion == \E body \in {"a", "b"} :
    /\ Calls("PostQueuedCompletionStatus")
    /\ comps' = Push(comps, [to |-> PortSlot, body |-> body])
    /\ sched' = Wake(sched, Port)
    /\ UNCHANGED <<imports, engine, call, due, since, exit, eventVars, cvs, msgs,
                   mail, done, loads>>

GetCompletion(c) ==
    /\ Makes(c)
    /\ IF HasFor(comps, PortSlot)
         THEN /\ comps' = DropHead(comps)
              /\ done' = <<OldestFor(comps, PortSlot)>>
              /\ Finishes(FALSE)
         ELSE /\ IF c.to = "zero" THEN Finishes(FALSE)
                   ELSE Park(c, Port, "WAITING") /\ UNCHANGED due
              /\ UNCHANGED <<comps, done>>
    /\ UNCHANGED <<imports, engine, exit, eventVars, cvs, msgs, mail, loads>>

-----------------------------------------------------------------------------
(* Threads.                                                                 *)

keptByThread == <<imports, due, since, eventVars, cvs, queueVars, loads>>

\* CreateThread, _beginthreadex, _beginthread, QueueUserWorkItem and
\* SubmitThreadpoolWork; without a slot they run the procedure in place.
NewThread == \E suspended \in BOOLEAN :
    /\ Calls("CreateThread")
    /\ suspended => "ResumeThread" \in imports.fns
    /\ sched' = IF CanCreate(sched) THEN CreateThread(sched, suspended) ELSE sched
    /\ UNCHANGED <<engine, call, exit, keptByThread>>

ResumeThread == \E n \in 1 .. MaxThreads - 1 :
    /\ Calls("ResumeThread")
    /\ sched' = Resume(sched, Thread(n))
    /\ UNCHANGED <<engine, call, exit, keptByThread>>

Sleep ==
    /\ Calls("Sleep")
    /\ sched' = Yield(sched, "READY")
    /\ UNCHANGED <<engine, call, exit, keptByThread>>

\* The thread is over; the engine stops when no other can run.
Ends(s, how) ==
    /\ sched' = ExitThread(s)
    /\ engine' = IF ExitThread(s).current = NoSlot THEN "HALTED" ELSE engine
    /\ exit' = [exit EXCEPT ![Cur] = how]
    /\ UNCHANGED <<call, keptByThread>>

CallExitThread == Calls("ExitThread") /\ Ends(sched, "called ExitThread")

\* The thread procedure returned: its joiners are runnable before the switch.
ThreadReturns ==
    /\ Calls("return") /\ Cur # 0
    /\ Ends(Wake(sched, sched.handle[Cur]), "returned")

\* The main thread returns, or somebody calls ExitProcess.
ProgramEnds ==
    /\ Calls("return") /\ Cur = 0
    /\ engine' = "HALTED"
    /\ UNCHANGED <<threadVars, imports, eventVars, cvs, queueVars, loads>>

\* A time slice or 1024 calls are over and another thread is ready.  A thread
\* with a pending call makes it before anything else.
Preempt ==
    /\ Program /\ call[Cur] = NoCall /\ OtherReady(sched)
    /\ sched' = Yield(sched, "READY")
    /\ UNCHANGED <<imports, engine, call, due, since, exit, eventVars, cvs, queueVars, loads>>

\* A clock passes the deadline of a wait.
Elapse(t) ==
    /\ ~due[t]
    /\ due' = [due EXCEPT ![t] = TRUE]
    /\ UNCHANGED <<imports, engine, sched, call, since, exit, eventVars, cvs, queueVars, loads>>

-----------------------------------------------------------------------------
(* The engine's state.                                                      *)

\* A dialog is up, or nsDialogs::Show returned.
ShowDialog ==
    /\ Calls("ShowDialog")
    /\ engine' = "PAUSED"
    /\ UNCHANGED <<imports, threadVars, eventVars, cvs, queueVars, loads>>

\* wg_engine_tick of a paused engine: the current thread is saved WAITING and
\* a ready one runs.
TickPaused ==
    /\ engine = "PAUSED" /\ InState(sched, "READY") # {}
    /\ sched' = SwitchNext(SaveCurrent(sched, "WAITING"))
    /\ engine' = "RUNNING"
    /\ UNCHANGED <<imports, call, due, since, exit, eventVars, cvs, queueVars, loads>>

\* wg_engine_dialog_command, wg_engine_resume: the user's tap.
Tap ==
    /\ engine = "PAUSED"
    /\ engine' = "RUNNING"
    /\ UNCHANGED <<imports, threadVars, eventVars, cvs, queueVars, loads>>

\* The next program is loaded.  Neither the list of closed slots nor the
\* condition variables are cleared.
Load ==
    /\ loads < MaxLoads
    /\ loads' = loads + 1
    /\ imports' \in Later
    /\ engine' = "RUNNING" /\ sched' = FreshSched
    /\ call' = [i \in Slot |-> NoCall] /\ due' = [i \in Slot |-> TRUE]
    /\ since' = [i \in Slot |-> NotWaiting] /\ exit' = [i \in Slot |-> "active"]
    /\ signalled' = [i \in EventSlot |-> FALSE] /\ manual' = [i \in EventSlot |-> FALSE]
    /\ next' = 0 /\ open' = {} /\ mixed' = {}
    /\ msgs' = EmptyRing /\ comps' = EmptyRing
    /\ mail' = [i \in Slot |-> <<>>] /\ done' = <<>>
    /\ UNCHANGED <<free, cvs>>

Waiting ==
    \/ \E c \in SingleWaits : WaitForSingleObject(c)
    \/ \E c \in MultiWaits : WaitForMultipleObjects(c)
    \/ \E c \in CvSleeps : SleepCv(c)
    \/ \E c \in PortWaits : GetCompletion(c)

\* The thread that runs makes its pending call again.
Repeat == Program /\ call[Cur] # NoCall /\ Waiting

Next ==
    \/ CreateEvent \/ SetEvent \/ ResetEvent \/ CloseEvent
    \/ Waiting \/ WakeCv
    \/ PostThreadMessage \/ PeekMessage \/ GetMessage \/ PostCompletion
    \/ NewThread \/ ResumeThread \/ Sleep \/ CallExitThread \/ ThreadReturns
    \/ ProgramEnds \/ Preempt
    \/ ShowDialog \/ TickPaused \/ Tap \/ Load
    \/ \E t \in Slot : Elapse(t)

\* The emulator goes on with a call that is to be made again, a slice ends,
\* clocks run, and the host ticks far more often than the user taps.
Fairness ==
    /\ WF_vars(Repeat)
    /\ WF_vars(Preempt) /\ (\A t \in Slot : WF_vars(Elapse(t))) /\ SF_vars(TickPaused)

Spec == Init /\ [][Next]_vars
LiveSpec == Spec /\ Fairness

-----------------------------------------------------------------------------
(* Properties.                                                              *)

\* Type invariant of the handlers' state (wg_threading.h:12-53, wg_engine.c
\* 1038-1106): the rings and tables stay within their bounds.
CoopTypeOK ==
    /\ imports \in Programs \cup Later /\ engine \in {"RUNNING", "PAUSED", "HALTED"}
    /\ sched.state \in [Slot -> ThreadState] /\ sched.current \in Slot \cup {NoSlot}
    /\ sched.next \in 1 .. MaxThreads
    /\ call \in [Slot -> {NoCall} \cup SingleWaits \cup MultiWaits \cup CvSleeps \cup PortWaits]
    /\ due \in [Slot -> BOOLEAN]
    /\ next \in 0 .. MaxEvents /\ free \in Seq(EventSlot) /\ Len(free) <= MaxEvents
    /\ open \cup mixed \subseteq EventSlot
    /\ Cardinality(DOMAIN cvs) <= MaxCvs
    /\ {msgs.head, msgs.tail, comps.head, comps.tail} \subseteq Cell

\* The emulator's registers are those of exactly one thread, and the table says
\* which (wg_threading.c:149-233): after every yield, failed yield, exit and
\* paused tick the thread marked RUNNING is the current one, and no other is.
OnlyCurrentRuns == InState(sched, "RUNNING") = {Cur} \ {NoSlot}

\* Thread t is off the processor in a wait for one object.
ParkedOn(t, h) ==
    /\ sched.state[t] = "WAITING"
    /\ \/ call[t].fn = "WaitForSingleObject" /\ call[t].h = h
       \/ call[t].fn = "WaitForMultipleObjects" /\ call[t].hs = <<h>>

\* No lost wake-up of the cooperative events and joins (wg_engine.c:6335-6343,
\* 6552-6640, 10913-10922): nobody stays parked in a wait for one object that
\* is signalled, or for a thread whose procedure returned.
NoLostCoopWait == \A t \in Slot :
    /\ \A i \in EventSlot \ mixed : ParkedOn(t, Event(i)) => ~signalled[i]
    /\ \A n \in 0 .. MaxThreads - 1 : ParkedOn(t, Thread(n)) =>
          \A j \in Find(sched, Thread(n)) : exit[j] # "returned"

\* A completion in the ring finds its reader (wg_engine.c:6389-6436): while one
\* is queued nobody is parked in GetQueuedCompletionStatus.
NoLostCompletion == \A t \in Slot :
    sched.state[t] = "WAITING" /\ call[t].fn = "GetQueuedCompletionStatus"
      => Used(comps) = 0

\* A finite wait measures its own time (wg_engine.c:6601-6620): in a program
\* that waits for single objects, a thread between two waits carries no clock
\* that the next wait on the same object would take for its own.
NoStaleClock == \A t \in Slot :
    "WaitForMultipleObjects" \notin imports.fns /\ call[t] = NoCall
      => ~(since[t].to = "finite" /\ sched.wait[t] \in Handles)

MsgBox == INSTANCE Mailbox WITH Addressee <- Slot, Capacity <- Cap - 1,
                                box <- Contents(msgs), got <- mail

\* s_thread_msgs, with its removal from the middle (wg_engine.c:1137-1165), is
\* a mailbox: nothing is lost, doubled or reordered once it was accepted.
MessagesImplementMailbox == MsgBox!MailboxSpec

PortBox == INSTANCE Mailbox WITH Addressee <- {PortSlot}, Capacity <- Cap - 1,
                                 box <- Contents(comps), got <- [a \in {PortSlot} |-> done]

\* So is the completion ring (wg_engine.c:1113-1131).
CompletionsImplementMailbox == PortBox!MailboxSpec

\* Both rings are mailboxes (wg_engine.c:1113-1165).
RingsImplementMailbox == MessagesImplementMailbox /\ CompletionsImplementMailbox

\* The scan is fair (wg_threading.c:149-180): a READY thread runs, whatever the
\* others do, as slices end and polls yield.
ReadyThreadRuns == \A t \in Watched :
    sched.state[t] = "READY" ~> (sched.state[t] # "READY" \/ engine = "HALTED")

\* A wait with a timeout ends (wg_engine.c:6601-6620), also when the object is
\* never signalled.
TimedWaitEnds == \A t \in Watched :
    (call[t].fn = "WaitForSingleObject" /\ call[t].to = "finite")
      ~> (call[t] = NoCall \/ engine = "HALTED")

\* A sleeper whose condition variable was woken returns (wg_engine.c:6995-7064).
CvSleeperReturns == \A t \in Watched :
    (/\ call[t].fn = "SleepConditionVariableCS" /\ HasCv(call[t].cv)
     /\ sched.wait[t] = AtCv(call[t].cv) /\ cvs[call[t].cv] # since[t].gen)
      ~> (call[t] = NoCall \/ engine = "HALTED")

\* The emulator, the thread table and the clocks of the waits agree
\* (wg_threading.c:149-233, wg_engine.c:6601-6620).
CoopConsistent == CoopTypeOK /\ OnlyCurrentRuns /\ NoStaleClock

\* No thread stays parked on what it could have (wg_engine.c:6335-6343,
\* 6389-6436, 6552-6640, 10913-10922).
NothingLostCoop == NoLostCoopWait /\ NoLostCompletion

\* Ready threads run, timed waits end and woken sleepers return
\* (wg_threading.c:149-180, wg_engine.c:6601-6620, 6995-7064).
CoopProgress == ReadyThreadRuns /\ TimedWaitEnds /\ CvSleeperReturns
=============================================================================
