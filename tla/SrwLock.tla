------------------------------ MODULE SrwLock ------------------------------
(***************************************************************************)
(* The slim reader/writer locks of Core/wg_engine.c: a table of lock        *)
(* entries keyed by the guest's SRWLOCK pointer, behind s_srw_lock and      *)
(* s_srw_cond.  Each function is cut where it gives s_srw_lock up: a        *)
(* contended acquirer lets go of it to release the GIL, takes it again and  *)
(* then waits on the condition variable.                                    *)
(*                                                                          *)
(* An entry is made the first time a pointer is used and is never removed.  *)
(* When the table is full every further pointer shares one entry.           *)
(***************************************************************************)
EXTENDS Integers, FiniteSets, Functions

CONSTANTS
    Tid,        \* guest thread ids
    Ptr,        \* the guest's SRWLOCK pointers
    SrwMax,     \* entries of the table (WG_MAX_SRW)
    MaxHold,    \* bound on the holds of one thread, over all locks and modes
    Kick        \* TRUE: WG_DEADLOCK_KICKSRW is set

ASSUME SrwAssumption ==
    /\ 0 \notin Tid
    /\ "overflow" \notin Ptr
    /\ SrwMax \in Nat
    /\ MaxHold \in Nat
    /\ Kick \in BOOLEAN

VARIABLES
    table,      \* pointers with an entry of their own
    srw,        \* the entries: readers, writer_tid, writer_rec
    acq,        \* per thread: the contended acquisition it is inside of
    srwParked,  \* threads in pthread_cond_wait that nothing woke yet
    held,       \* per thread and pointer: what the guest took and did not release
    kicked      \* the deadlock breaker has run

srwVars == <<table, srw, acq, srwParked, held, kicked>>

Nobody   == 0
Overflow == "overflow"      \* s_srw_overflow
NotAcquiring == [op |-> "none"]

Free == [readers |-> 0, writer |-> Nobody, rec |-> 0]

SrwIdle(t) == acq[t].op = "none"

-----------------------------------------------------------------------------
\* wg_srw_for: the entry of pointer p, and the table once it was looked up.
HasRoom   == Cardinality(table) < SrwMax
EntryOf(p) == IF p \in table \/ HasRoom THEN p ELSE Overflow
LookUp(p)  == table' = IF HasRoom THEN table \cup {p} ELSE table

\* A shared acquirer passes when nobody else writes; an exclusive one waits for
\* the readers too, its own reads included.
SharedPasses(e, t) == srw[e].writer \in {Nobody, t}
ExclPasses(e, t)   == srw[e].readers = 0 /\ srw[e].writer \in {Nobody, t}

Reads(e)  == srw' = [srw EXCEPT ![e].readers = @ + 1]
Writes(e, t, n) == srw' = [srw EXCEPT ![e].writer = t, ![e].rec = n]

TookShared(t, p) == held' = [held EXCEPT ![t][p].sh = @ + 1]
TookExcl(t, p)   == held' = [held EXCEPT ![t][p].ex = @ + 1]

WakeAll == srwParked' = {}

Contend(t, op, p) ==
    /\ acq' = [acq EXCEPT ![t] = [op |-> op, p |-> p]]
    /\ UNCHANGED <<srw, srwParked, held>>

\* The guest holds at most MaxHold locks, one lock taken twice counted twice, and
\* never asks for a lock exclusively that it reads: that waits for itself on
\* Windows too.
HoldsOf(t) == SumFunction([p \in Ptr |-> held[t][p].sh + held[t][p].ex])

MayShare(t)   == HoldsOf(t) < MaxHold
MayExcl(t, p) == HoldsOf(t) < MaxHold /\ held[t][p].sh = 0

-----------------------------------------------------------------------------
(* Acquiring.                                                               *)

AcquireShared(t, p) ==
    /\ SrwIdle(t) /\ MayShare(t)
    /\ LookUp(p)
    /\ LET e == EntryOf(p)
       IN \/ /\ SharedPasses(e, t)
             /\ Reads(e) /\ TookShared(t, p)
             /\ UNCHANGED <<acq, srwParked>>
          \/ ~SharedPasses(e, t) /\ Contend(t, "shared", p)
    /\ UNCHANGED kicked

\* The writer takes its own lock again without a look at the readers.
AcquireExclusive(t, p) ==
    /\ SrwIdle(t) /\ MayExcl(t, p)
    /\ LookUp(p)
    /\ LET e == EntryOf(p)
       IN \/ /\ srw[e].writer = t
             /\ Writes(e, t, srw[e].rec + 1) /\ TookExcl(t, p)
             /\ UNCHANGED <<acq, srwParked>>
          \/ /\ srw[e].writer = Nobody /\ srw[e].readers = 0
             /\ Writes(e, t, 1) /\ TookExcl(t, p)
             /\ UNCHANGED <<acq, srwParked>>
          \/ /\ srw[e].writer # t
             /\ ~(srw[e].writer = Nobody /\ srw[e].readers = 0)
             /\ Contend(t, "excl", p)
    /\ UNCHANGED kicked

\* Mutant of SharedTurn: the writer is not looked at again after the wait.
SharedTurnUnchecked(t) ==
    /\ acq[t].op = "shared" /\ t \notin srwParked
    /\ LET p == acq[t].p  e == EntryOf(p)
       IN /\ Reads(e) /\ TookShared(t, p)
          /\ acq' = [acq EXCEPT ![t] = NotAcquiring]
          /\ UNCHANGED srwParked
    /\ UNCHANGED <<table, kicked>>

\* One turn of the wait loop of wg_srw_acquire_shared.
SharedTurn(t) ==
    /\ acq[t].op = "shared" /\ t \notin srwParked
    /\ LET p == acq[t].p  e == EntryOf(p)
       IN \/ /\ SharedPasses(e, t)
             /\ Reads(e) /\ TookShared(t, p)
             /\ acq' = [acq EXCEPT ![t] = NotAcquiring]
             /\ UNCHANGED srwParked
          \/ /\ ~SharedPasses(e, t)
             /\ srwParked' = srwParked \cup {t}
             /\ UNCHANGED <<srw, acq, held>>
    /\ UNCHANGED <<table, kicked>>

\* One turn of the wait loop of wg_srw_acquire_exclusive.
ExclTurn(t) ==
    /\ acq[t].op = "excl" /\ t \notin srwParked
    /\ LET p == acq[t].p  e == EntryOf(p)
       IN \/ /\ ExclPasses(e, t)
             /\ Writes(e, t, 1) /\ TookExcl(t, p)
             /\ acq' = [acq EXCEPT ![t] = NotAcquiring]
             /\ UNCHANGED srwParked
          \/ /\ ~ExclPasses(e, t)
             /\ srwParked' = srwParked \cup {t}
             /\ UNCHANGED <<srw, acq, held>>
    /\ UNCHANGED <<table, kicked>>

\* An exclusive acquirer looks again every 200 ms, woken or not.
ExclPoll(t) ==
    /\ acq[t].op = "excl" /\ t \in srwParked
    /\ srwParked' = srwParked \ {t}
    /\ UNCHANGED <<table, srw, acq, held, kicked>>

TryShared(t, p) ==
    /\ SrwIdle(t) /\ MayShare(t)
    /\ LookUp(p)
    /\ IF SharedPasses(EntryOf(p), t)
         THEN Reads(EntryOf(p)) /\ TookShared(t, p)
         ELSE UNCHANGED <<srw, held>>
    /\ UNCHANGED <<acq, srwParked, kicked>>

TryExclusive(t, p) ==
    /\ SrwIdle(t) /\ MayExcl(t, p)
    /\ LookUp(p)
    /\ LET e == EntryOf(p)
       IN IF ExclPasses(e, t)
            THEN Writes(e, t, srw[e].rec + 1) /\ TookExcl(t, p)
            ELSE UNCHANGED <<srw, held>>
    /\ UNCHANGED <<acq, srwParked, kicked>>

-----------------------------------------------------------------------------
(* Releasing: the guest releases what it holds.                             *)

ReleaseShared(t, p) ==
    /\ SrwIdle(t) /\ held[t][p].sh > 0
    /\ LookUp(p)
    /\ LET e == EntryOf(p)
       IN srw' = [srw EXCEPT ![e].readers = IF @ > 0 THEN @ - 1 ELSE @]
    /\ held' = [held EXCEPT ![t][p].sh = @ - 1]
    /\ WakeAll
    /\ UNCHANGED <<acq, kicked>>

\* Mutant of ReleaseExclusive: the waiters are not told.
ReleaseExclusiveSilent(t, p) ==
    /\ SrwIdle(t) /\ held[t][p].ex > 0
    /\ LookUp(p)
    /\ LET e == EntryOf(p)
       IN srw' = IF srw[e].rec <= 1
                   THEN [srw EXCEPT ![e].writer = Nobody, ![e].rec = 0]
                   ELSE [srw EXCEPT ![e].rec = @ - 1]
    /\ held' = [held EXCEPT ![t][p].ex = @ - 1]
    /\ UNCHANGED <<acq, srwParked, kicked>>

ReleaseExclusive(t, p) ==
    /\ SrwIdle(t) /\ held[t][p].ex > 0
    /\ LookUp(p)
    /\ LET e == EntryOf(p)
       IN srw' = CASE srw[e].writer = t /\ srw[e].rec <= 1 ->
                        [srw EXCEPT ![e].writer = Nobody, ![e].rec = 0]
                   [] srw[e].writer = t /\ srw[e].rec > 1 ->
                        [srw EXCEPT ![e].rec = @ - 1]
                   [] OTHER -> srw
    /\ held' = [held EXCEPT ![t][p].ex = @ - 1]
    /\ WakeAll
    /\ UNCHANGED <<acq, kicked>>

\* wg_srw_kick: every entry of the table is reset, whoever holds it.
KickLocks ==
    /\ Kick
    /\ srw' = [e \in Ptr \cup {Overflow} |-> IF e \in table THEN Free ELSE srw[e]]
    /\ WakeAll
    /\ kicked' = TRUE
    /\ UNCHANGED <<table, acq, held>>

-----------------------------------------------------------------------------
SrwInit ==
    /\ table = {}
    /\ srw = [e \in Ptr \cup {Overflow} |-> Free]
    /\ acq = [t \in Tid |-> NotAcquiring]
    /\ srwParked = {}
    /\ held = [t \in Tid |-> [p \in Ptr |-> [sh |-> 0, ex |-> 0]]]
    /\ kicked = FALSE

SrwNext ==
    \/ \E t \in Tid :
         \/ \E p \in Ptr : \/ AcquireShared(t, p) \/ AcquireExclusive(t, p)
                           \/ TryShared(t, p) \/ TryExclusive(t, p)
                           \/ ReleaseShared(t, p) \/ ReleaseExclusive(t, p)
         \/ SharedTurn(t) \/ ExclTurn(t) \/ ExclPoll(t)
    \/ KickLocks

\* A thread inside an acquisition gets s_srw_lock, and its 200 ms elapse.
SrwFairness ==
    \A t \in Tid : WF_srwVars(SharedTurn(t)) /\ WF_srwVars(ExclTurn(t) \/ ExclPoll(t))

SrwSpec == SrwInit /\ [][SrwNext]_srwVars

SrwFairSpec == SrwSpec /\ SrwFairness

-----------------------------------------------------------------------------
(* Properties.                                                              *)

\* Every variable has its type.
SrwTypeOK ==
    /\ table \subseteq Ptr
    /\ srw \in [Ptr \cup {Overflow} -> [readers : Nat, writer : Tid \cup {Nobody}, rec : Nat]]
    /\ acq \in [Tid -> {NotAcquiring} \cup [op : {"shared", "excl"}, p : Ptr]]
    /\ srwParked \subseteq Tid
    /\ held \in [Tid -> [Ptr -> [sh : Nat, ex : Nat]]]
    /\ kicked \in BOOLEAN

\* Many readers or one writer: while a thread holds a lock exclusively, no other
\* thread holds it at all, whether it came by waiting, trying or recursion, and
\* whether the lock has its own entry or shares the overflow entry.
ReadersOrWriter ==
    ~kicked =>
      \A p \in Ptr, t, u \in Tid :
        t # u /\ held[t][p].ex > 0 => held[u][p].ex = 0 /\ held[u][p].sh = 0

Holds(t, e, how) == \E q \in Ptr : EntryOf(q) = e /\ held[t][q][how] > 0

\* A thread left waiting for a lock with an entry of its own waits for somebody
\* else: another thread holds that lock, which can still release it.
WaitsForAnother ==
    \A t \in srwParked :
        acq[t].p \in table /\ ~kicked =>
          \E u \in Tid \ {t} :
            \/ Holds(u, acq[t].p, "ex")
            \/ acq[t].op = "excl" /\ Holds(u, acq[t].p, "sh")

\* Nothing leaks: what an entry counts is held, so that a lock nobody holds is
\* free; and until the breaker throws holds away, what is held is counted.
NothingLeaks ==
    \A e \in Ptr \cup {Overflow} :
        LET writers == {t \in Tid : Holds(t, e, "ex")}
            readers == {t \in Tid : Holds(t, e, "sh")}
        IN /\ srw[e].writer \in writers \cup {Nobody}
           /\ srw[e].readers > 0 => readers # {}
           /\ ~kicked => /\ writers \subseteq {srw[e].writer}
                         /\ readers # {} => srw[e].readers > 0

\* No lost wakeup: a thread left waiting could not take its lock if it looked,
\* although releases, tries and the breaker's reset change the entry under it.
NoLostSrwWait ==
    \A t \in srwParked :
        LET e == EntryOf(acq[t].p)
        IN IF acq[t].op = "shared" THEN ~SharedPasses(e, t) ELSE ~ExclPasses(e, t)

\* An acquirer whose lock stays free gets it.
FreeLockIsTaken ==
    \A t \in Tid : ~<>[](/\ ~SrwIdle(t)
                         /\ srw[EntryOf(acq[t].p)] = Free)

\* The safety of the SRW locks: exclusion, a wait for somebody else, entries that
\* count what is held, and no thread left waiting (wg_srw_for .. wg_srw_kick).
SrwSafe == SrwTypeOK /\ ReadersOrWriter /\ WaitsForAnother /\ NothingLeaks /\ NoLostSrwWait
=============================================================================
