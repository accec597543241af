-------------------------- MODULE WgSyncRefinement --------------------------
(* wg_sync.c implements the objects of Win32Objects: forget who is parked    *)
(* and who is recorded, and read "the generation moved on" as "woken".       *)
EXTENDS WgSync

AbsObject(o) ==
    CASE o.type = "event"  -> [k |-> "event", on |-> o.signalled, manual |-> o.manual]
      [] o.type = "mutex"  -> [k |-> "mutex", owner |-> o.owner, depth |-> o.rec]
      [] o.type = "sem"    -> [k |-> "sem", units |-> o.count, max |-> o.max]
      [] o.type = "thread" -> [k |-> "thread", on |-> o.exited]
      [] o.type = "cv"     -> [k |-> "cv"]
      [] OTHER             -> [k |-> "closed"]

AbsWait(w) == [k |-> "wait", hs |-> w.hs, all |-> w.all, timed |-> w.timed]

\* A blocked call over the table it waits on.
AbsCall(c, table) ==
    CASE c.op \in {"single", "multi"} -> AbsWait(c)
      [] c.op = "cv" /\ table[c.cv].count = c.gen ->
           [k |-> "sleep", cv |-> c.cv, m |-> c.m, depth |-> c.saved, timed |-> c.timed]
      [] c.op = "cv" /\ table[c.cv].count # c.gen ->
           [k |-> "awake", m |-> c.m, depth |-> c.saved, outcome |-> WAIT_OBJECT_0]
      [] c.op = "relock" ->
           [k |-> "awake", m |-> c.m, depth |-> c.saved, outcome |-> c.rv]
      [] OTHER -> [k |-> "none"]

AbsObjects == [h \in Handle |-> AbsObject(objs[h])]
AbsCalls   == [t \in Tid |-> AbsCall(call[t], objs)]

W == INSTANCE Win32Objects
       WITH Thread <- Tid, Object <- Handle,
            Tuples <- Requests, Units <- 0 .. MaxCount,
            kobj <- AbsObjects, pend <- AbsCalls, result <- ret

\* Every step of wg_sync.c is one step of the abstract objects or none: no wait is
\* granted that they do not allow, and none gives what another one has.
KeepsPromises == W!AbsSafety

\* Waits end: those the abstract objects allow for good, and with them the satisfied
\* ones, the woken sleepers, and those with a timeout (wg_sync.c:300-433).  Together
\* with KeepsPromises: FairSpec implements W!AbsSpec.
GrantsWaits == WaitsReturn /\ W!AbsFairness
=============================================================================
