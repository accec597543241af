---------------------------- MODULE Win32Objects ----------------------------
(***************************************************************************)
(* What wg_sync.h promises its callers: kernel objects with a state, and    *)
(* threads with at most one pending wait each.  There is no monitor here,   *)
(* no broadcast and no generation count: a wait completes in one step       *)
(* whenever its objects allow, and completes eventually if they go on       *)
(* allowing it.                                                             *)
(***************************************************************************)
EXTENDS Integers, Sequences

CONSTANTS
    Thread, Object,
    Tuples,     \* the handle tuples waited on
    Units       \* the semaphore counts in use

VARIABLES
    kobj,       \* per handle: the object's state
    pend,       \* per thread: its pending wait
    result      \* per thread: what its last wait returned

absVars == <<kobj, pend, result>>

Nobody == 0

TIMEOUT == 258
FAILED  == -1

None    == [k |-> "none"]
Closed  == [k |-> "closed"]

Waits(t)      == pend[t].k = "wait"
Sleeps(t)     == pend[t].k = "sleep"    \* on a condition variable
Wakes(t)      == pend[t].k = "awake"    \* but not yet back in its mutex
NotPending(t) == pend[t].k = "none"

-----------------------------------------------------------------------------
(* Objects.                                                                 *)

Event(on, manual) == [k |-> "event", on |-> on, manual |-> manual]

Runner(over) == [k |-> "thread", on |-> over]

\* A mutex that thread t holds n times.
Held(t, n) == [k |-> "mutex", owner |-> t, depth |-> n]

Signals(o, t) ==
    \/ o.k = "event"  /\ o.on
    \/ o.k = "mutex"  /\ o.owner \in {Nobody, t}
    \/ o.k = "sem"    /\ o.units > 0
    \/ o.k = "thread" /\ o.on

\* The effect a satisfied wait has on one of the objects it waited for.
Consumed(o, t) ==
    CASE o.k = "event" /\ ~o.manual -> Event(FALSE, FALSE)
      [] o.k = "mutex" -> Held(t, o.depth + 1)
      [] o.k = "sem"   -> [o EXCEPT !.units = o.units - 1]
      [] OTHER         -> o

Fresh(t) ==
    {Event(on, manual) : on, manual \in BOOLEAN}
      \cup {o \in [k : {"sem"}, units : Units, max : Units] : o.units <= o.max}
      \cup {Held(Nobody, 0), Held(t, 1),
            Runner(FALSE), [k |-> "cv"]}

\* A CreateXxx call of thread t.
Open(t) ==
    /\ \E h \in Object, o \in Fresh(t) :
         /\ kobj[h] = Closed
         /\ kobj' = [kobj EXCEPT ![h] = o]
    /\ UNCHANGED <<pend, result>>

Shut(h) ==
    /\ kobj[h] # Closed
    /\ kobj' = [kobj EXCEPT ![h] = Closed]
    /\ UNCHANGED <<pend, result>>

\* SetEvent and ResetEvent.
Switch(h) ==
    /\ kobj[h].k = "event"
    /\ \E on \in BOOLEAN : kobj' = [kobj EXCEPT ![h] = Event(on, kobj[h].manual)]
    /\ UNCHANGED <<pend, result>>

\* A thread ends, for good.
End(h) ==
    /\ kobj[h].k = "thread"
    /\ kobj' = [kobj EXCEPT ![h] = Runner(TRUE)]
    /\ UNCHANGED <<pend, result>>

\* Only the owner's own release takes a mutex away from it.
Unlock(t, h) ==
    /\ NotPending(t)
    /\ kobj[h].k = "mutex" /\ kobj[h].owner = t
    /\ kobj' = [kobj EXCEPT ![h] =
                   Held(IF kobj[h].depth = 1 THEN Nobody ELSE t, kobj[h].depth - 1)]
    /\ UNCHANGED <<pend, result>>

Post(h) ==
    /\ kobj[h].k = "sem"
    /\ \E u \in kobj[h].units .. kobj[h].max :
         kobj' = [kobj EXCEPT ![h] = [kobj[h] EXCEPT !.units = u]]
    /\ UNCHANGED <<pend, result>>

-----------------------------------------------------------------------------
(* Waits.                                                                   *)

Done(t, r) ==
    /\ pend' = [pend EXCEPT ![t] = None]
    /\ result' = [result EXCEPT ![t] = r]

Allows(w, t) ==
    IF w.all THEN \A i \in DOMAIN w.hs : Signals(kobj[w.hs[i]], t)
             ELSE \E i \in DOMAIN w.hs : Signals(kobj[w.hs[i]], t)

\* The lowest index of a signalled object.
Lowest(w, t) ==
    CHOOSE i \in DOMAIN w.hs :
        /\ Signals(kobj[w.hs[i]], t)
        /\ \A j \in 1 .. (i - 1) : ~Signals(kobj[w.hs[j]], t)

\* Wait-all takes everything in one step; wait-any takes the first object that
\* is signalled, and says which.
Complete(t, w) ==
    /\ Allows(w, t)
    /\ LET hit == IF w.all THEN DOMAIN w.hs ELSE {Lowest(w, t)}
       IN kobj' = [h \in Object |-> IF \E i \in hit : w.hs[i] = h
                                      THEN Consumed(kobj[h], t) ELSE kobj[h]]
    /\ Done(t, IF w.all THEN 0 ELSE Lowest(w, t) - 1)

\* A wait that does not succeed consumes nothing.
Abandon(t, w) ==
    /\ \/ Done(t, TIMEOUT) /\ w.timed
       \/ Done(t, FAILED) /\ \E i \in DOMAIN w.hs : kobj[w.hs[i]] = Closed
    /\ UNCHANGED kobj

BeginWait(t) ==
    /\ NotPending(t)
    /\ \E hs \in Tuples, all, timed \in BOOLEAN :
         LET w == [k |-> "wait", hs |-> hs, all |-> all, timed |-> timed]
         IN \/ Complete(t, w)
            \/ Abandon(t, w)
            \/ /\ ~Allows(w, t)
               /\ pend' = [pend EXCEPT ![t] = w]
               /\ UNCHANGED <<kobj, result>>

-----------------------------------------------------------------------------
(* Condition variables.                                                     *)

\* The sleeper's mutex is given up and the sleep begins in one step.
BeginSleep(t) ==
    /\ NotPending(t)
    /\ \/ \E cv, m \in Object, timed \in BOOLEAN :
            /\ kobj[cv].k = "cv"
            /\ kobj[m].k = "mutex" /\ kobj[m].owner = t
            /\ kobj' = [kobj EXCEPT ![m] = Held(Nobody, 0)]
            /\ pend' = [pend EXCEPT ![t] =
                          [k |-> "sleep", cv |-> cv, m |-> m,
                           depth |-> kobj[m].depth, timed |-> timed]]
            /\ UNCHANGED result
       \/ \E r \in {TIMEOUT, FAILED} : Done(t, r) /\ UNCHANGED kobj

Awoken(t, r) == [k |-> "awake", m |-> pend[t].m, depth |-> pend[t].depth, outcome |-> r]

\* A wake reaches at least one of the threads asleep.
Wake(cv) ==
    LET S == {t \in Thread : Sleeps(t) /\ pend[t].cv = cv}
    IN /\ \E A \in SUBSET S :
            /\ S # {} => A # {}
            /\ pend' = [t \in Thread |-> IF t \in A THEN Awoken(t, 0) ELSE pend[t]]
       /\ UNCHANGED <<kobj, result>>

\* A sleeper returns only with its mutex, at the depth it had.
Reenter(t, r) ==
    /\ kobj[pend[t].m].owner \in {Nobody, t}
    /\ kobj' = [kobj EXCEPT ![pend[t].m] = Held(t, pend[t].depth)]
    /\ Done(t, r)

Expire(t) ==
    /\ Sleeps(t) /\ pend[t].timed
    /\ \/ Reenter(t, TIMEOUT)
       \/ /\ pend' = [pend EXCEPT ![t] = Awoken(t, TIMEOUT)]
          /\ UNCHANGED <<kobj, result>>

\* The deadlock breaker sets any events and wakes any condition variables at once.
Rouse(E, C) ==
    /\ \A h \in E : kobj[h].k = "event"
    /\ \A h \in C : kobj[h].k = "cv"
    /\ kobj' = [h \in Object |-> IF h \in E THEN Event(TRUE, kobj[h].manual) ELSE kobj[h]]
    /\ pend' = [t \in Thread |-> IF Sleeps(t) /\ pend[t].cv \in C THEN Awoken(t, 0)
                                                                  ELSE pend[t]]
    /\ UNCHANGED result

-----------------------------------------------------------------------------
AbsInit ==
    /\ kobj = [h \in Object |-> Closed]
    /\ pend = [t \in Thread |-> None]
    /\ result = [t \in Thread |-> 0]

Finish(t) ==
    \/ Waits(t) /\ (Complete(t, pend[t]) \/ Abandon(t, pend[t]))
    \/ Wakes(t) /\ Reenter(t, pend[t].outcome)
    \/ Expire(t)

AbsNext ==
    \/ \E t \in Thread : \/ Open(t) \/ BeginWait(t) \/ BeginSleep(t) \/ Finish(t)
                         \/ \E h \in Object : Unlock(t, h)
    \/ \E h \in Object : Shut(h) \/ Switch(h) \/ End(h) \/ Post(h) \/ Wake(h)
    \/ \E E, C \in SUBSET Object : Rouse(E, C)

\* What is allowed long enough happens.
AbsFairness ==
    \A t \in Thread :
      /\ WF_absVars(Waits(t) /\ Complete(t, pend[t]))
      /\ WF_absVars(Wakes(t) /\ Reenter(t, pend[t].outcome))

\* What may happen to the objects and their waiters.
AbsSafety == AbsInit /\ [][AbsNext]_absVars

AbsSpec == AbsSafety /\ AbsFairness
=============================================================================
