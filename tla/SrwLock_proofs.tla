--------------------------- MODULE SrwLock_proofs ---------------------------
(* Theorems about the SRW locks, for every set of threads and of locks, every *)
(* size of the table and with the deadlock breaker or without it.             *)
EXTENDS SrwLock, FiniteSetTheorems, TLAPS

USE SrwAssumption DEF Nobody, Overflow, NotAcquiring, SrwIdle

-----------------------------------------------------------------------------
(* The inductive invariant.                                                  *)

Entry == Ptr \cup {Overflow}

\* wg_srw_for has settled which entry p has: one of its own, or the shared one.
Placed(p) == p \in table \/ ~HasRoom

\* The holds of an entry, one by one: the k-th of thread t on pointer p.
SharedHolds(e) ==
    {h \in Tid \X Ptr \X Nat :
        EntryOf(h[2]) = e /\ 1 <= h[3] /\ h[3] <= held[h[1]][h[2]].sh}

ExclHolds(t, e) ==
    {h \in Ptr \X Nat : EntryOf(h[1]) = e /\ 1 <= h[2] /\ h[2] <= held[t][h[1]].ex}

\* A pointer that is held or waited for was looked up.
LookedUp ==
    \A t \in Tid, p \in Ptr :
        held[t][p].sh > 0 \/ held[t][p].ex > 0 \/ (~SrwIdle(t) /\ acq[t].p = p)
          => Placed(p)

\* An entry never counts more than is held; the breaker makes it count less.
Counted(e) ==
    /\ IsFiniteSet(SharedHolds(e))
    /\ \A t \in Tid : IsFiniteSet(ExclHolds(t, e))
    /\ srw[e].readers <= Cardinality(SharedHolds(e))
    /\ srw[e].writer = Nobody => srw[e].rec = 0
    /\ srw[e].writer # Nobody =>
         1 <= srw[e].rec /\ srw[e].rec <= Cardinality(ExclHolds(srw[e].writer, e))

\* Without the breaker it counts all that is held, of one writer or of readers.
Exact(e) ==
    /\ srw[e].readers = Cardinality(SharedHolds(e))
    /\ \A t \in Tid : t # srw[e].writer => ExclHolds(t, e) = {}
    /\ srw[e].writer # Nobody =>
         /\ srw[e].rec = Cardinality(ExclHolds(srw[e].writer, e))
         /\ \A h \in SharedHolds(e) : h[1] = srw[e].writer

\* A parked thread is inside an acquisition, and one that wants to write neither
\* reads the lock nor writes its entry.
Acquiring ==
    /\ \A t \in srwParked : ~SrwIdle(t)
    /\ \A t \in Tid : acq[t].op = "excl" =>
          held[t][acq[t].p].sh = 0 /\ srw[EntryOf(acq[t].p)].writer # t

SrwInv ==
    /\ SrwTypeOK /\ LookedUp /\ Acquiring /\ NoLostSrwWait
    /\ \A e \in Entry : Counted(e) /\ (~kicked => Exact(e))

-----------------------------------------------------------------------------
(* Entries.                                                                  *)

\* A step that looks p up: entries that were settled stay, and p's is settled.
Found(p) ==
    /\ \A q \in Ptr : Placed(q) => Placed(q)' /\ EntryOf(q)' = EntryOf(q)
    /\ Placed(p)' /\ EntryOf(p)' = EntryOf(p)

LEMMA EntryType == ASSUME NEW p \in Ptr PROVE EntryOf(p) \in Entry
BY DEF EntryOf, Entry

LEMMA LookUpFinds == ASSUME NEW p \in Ptr, LookUp(p) PROVE Found(p)
BY DEF LookUp, Found, Placed, EntryOf, HasRoom

LEMMA SameTableFinds == ASSUME NEW p \in Ptr, Placed(p), UNCHANGED table PROVE Found(p)
BY DEF Found, Placed, EntryOf, HasRoom

\* Only p itself leads to an entry of the table.
LEMMA OwnEntry ==
    ASSUME SrwTypeOK, NEW p \in table, NEW q \in Ptr, EntryOf(q) = p
    PROVE  q = p
BY DEF SrwTypeOK, EntryOf

-----------------------------------------------------------------------------
(* What a step does to the holds.                                            *)

LEMMA SameHolds ==
    ASSUME SrwTypeOK, LookedUp, NEW p \in Ptr, Found(p), UNCHANGED held, NEW e \in Entry
    PROVE  SharedHolds(e)' = SharedHolds(e) /\ \A t \in Tid : ExclHolds(t, e)' = ExclHolds(t, e)
<1>1. SharedHolds(e)' = SharedHolds(e)
  BY DEF SharedHolds, LookedUp, Found, SrwTypeOK
<1>2. \A t \in Tid : ExclHolds(t, e)' = ExclHolds(t, e)
  BY DEF ExclHolds, LookedUp, Found, SrwTypeOK
<1>3. QED
  BY <1>1, <1>2

LEMMA SharedHoldAdded ==
    ASSUME SrwTypeOK, LookedUp, NEW t \in Tid, NEW p \in Ptr, Found(p), TookShared(t, p),
           NEW e \in Entry
    PROVE  /\ \A u \in Tid : ExclHolds(u, e)' = ExclHolds(u, e)
           /\ e # EntryOf(p) => SharedHolds(e)' = SharedHolds(e)
           /\ e = EntryOf(p) =>
                LET h == <<t, p, held[t][p].sh + 1>>
                IN  SharedHolds(e)' = SharedHolds(e) \cup {h} /\ h \notin SharedHolds(e)
<1>1. \A u \in Tid, q \in Ptr :
        /\ held'[u][q].ex = held[u][q].ex
        /\ held'[u][q].sh = IF u = t /\ q = p THEN held[t][p].sh + 1 ELSE held[u][q].sh
  BY DEF TookShared, SrwTypeOK
<1>2. \A u \in Tid, q \in Ptr : held[u][q].sh \in Nat /\ held[u][q].ex \in Nat
  BY DEF SrwTypeOK
<1>3. \A u \in Tid : ExclHolds(u, e)' = ExclHolds(u, e)
  BY <1>1, <1>2 DEF ExclHolds, LookedUp, Found
<1>4. e # EntryOf(p) => SharedHolds(e)' = SharedHolds(e)
  BY <1>1, <1>2 DEF SharedHolds, LookedUp, Found
<1>5. ASSUME e = EntryOf(p)
      PROVE  LET h == <<t, p, held[t][p].sh + 1>>
             IN  SharedHolds(e)' = SharedHolds(e) \cup {h} /\ h \notin SharedHolds(e)
  BY <1>1, <1>2, <1>5 DEF SharedHolds, LookedUp, Found
<1>6. QED
  BY <1>3, <1>4, <1>5

LEMMA SharedHoldRemoved ==
    ASSUME SrwTypeOK, LookedUp, NEW t \in Tid, NEW p \in Ptr, Found(p), held[t][p].sh > 0,
           held' = [held EXCEPT ![t][p].sh = @ - 1], NEW e \in Entry
    PROVE  /\ \A u \in Tid : ExclHolds(u, e)' = ExclHolds(u, e)
           /\ e # EntryOf(p) => SharedHolds(e)' = SharedHolds(e)
           /\ e = EntryOf(p) =>
                LET h == <<t, p, held[t][p].sh>>
                IN  SharedHolds(e)' = SharedHolds(e) \ {h} /\ h \in SharedHolds(e)
<1>1. \A u \in Tid, q \in Ptr :
        /\ held'[u][q].ex = held[u][q].ex
        /\ held'[u][q].sh = IF u = t /\ q = p THEN held[t][p].sh - 1 ELSE held[u][q].sh
  BY DEF SrwTypeOK
<1>2. \A u \in Tid, q \in Ptr : held[u][q].sh \in Nat /\ held[u][q].ex \in Nat
  BY DEF SrwTypeOK
<1>3. \A u \in Tid : ExclHolds(u, e)' = ExclHolds(u, e)
  BY <1>1, <1>2 DEF ExclHolds, LookedUp, Found
<1>4. e # EntryOf(p) => SharedHolds(e)' = SharedHolds(e)
  BY <1>1, <1>2 DEF SharedHolds, LookedUp, Found
<1>5. ASSUME e = EntryOf(p)
      PROVE  LET h == <<t, p, held[t][p].sh>>
             IN  SharedHolds(e)' = SharedHolds(e) \ {h} /\ h \in SharedHolds(e)
  BY <1>1, <1>2, <1>5 DEF SharedHolds, LookedUp, Found
<1>6. QED
  BY <1>3, <1>4, <1>5

LEMMA ExclHoldAdded ==
    ASSUME SrwTypeOK, LookedUp, NEW t \in Tid, NEW p \in Ptr, Found(p), TookExcl(t, p),
           NEW e \in Entry
    PROVE  /\ SharedHolds(e)' = SharedHolds(e)
           /\ \A u \in Tid : u # t \/ e # EntryOf(p) => ExclHolds(u, e)' = ExclHolds(u, e)
           /\ e = EntryOf(p) =>
                LET h == <<p, held[t][p].ex + 1>>
                IN  ExclHolds(t, e)' = ExclHolds(t, e) \cup {h} /\ h \notin ExclHolds(t, e)
<1>1. \A u \in Tid, q \in Ptr :
        /\ held'[u][q].sh = held[u][q].sh
        /\ held'[u][q].ex = IF u = t /\ q = p THEN held[t][p].ex + 1 ELSE held[u][q].ex
  BY DEF TookExcl, SrwTypeOK
<1>2. \A u \in Tid, q \in Ptr : held[u][q].sh \in Nat /\ held[u][q].ex \in Nat
  BY DEF SrwTypeOK
<1>3. SharedHolds(e)' = SharedHolds(e)
  BY <1>1, <1>2 DEF SharedHolds, LookedUp, Found
<1>4. \A u \in Tid : u # t \/ e # EntryOf(p) => ExclHolds(u, e)' = ExclHolds(u, e)
  BY <1>1, <1>2 DEF ExclHolds, LookedUp, Found
<1>5. ASSUME e = EntryOf(p)
      PROVE  LET h == <<p, held[t][p].ex + 1>>
             IN  ExclHolds(t, e)' = ExclHolds(t, e) \cup {h} /\ h \notin ExclHolds(t, e)
  BY <1>1, <1>2, <1>5 DEF ExclHolds, LookedUp, Found
<1>6. QED
  BY <1>3, <1>4, <1>5

LEMMA ExclHoldRemoved ==
    ASSUME SrwTypeOK, LookedUp, NEW t \in Tid, NEW p \in Ptr, Found(p), held[t][p].ex > 0,
           held' = [held EXCEPT ![t][p].ex = @ - 1], NEW e \in Entry
    PROVE  /\ SharedHolds(e)' = SharedHolds(e)
           /\ \A u \in Tid : u # t \/ e # EntryOf(p) => ExclHolds(u, e)' = ExclHolds(u, e)
           /\ e = EntryOf(p) =>
                LET h == <<p, held[t][p].ex>>
                IN  ExclHolds(t, e)' = ExclHolds(t, e) \ {h} /\ h \in ExclHolds(t, e)
<1>1. \A u \in Tid, q \in Ptr :
        /\ held'[u][q].sh = held[u][q].sh
        /\ held'[u][q].ex = IF u = t /\ q = p THEN held[t][p].ex - 1 ELSE held[u][q].ex
  BY DEF SrwTypeOK
<1>2. \A u \in Tid, q \in Ptr : held[u][q].sh \in Nat /\ held[u][q].ex \in Nat
  BY DEF SrwTypeOK
<1>3. SharedHolds(e)' = SharedHolds(e)
  BY <1>1, <1>2 DEF SharedHolds, LookedUp, Found
<1>4. \A u \in Tid : u # t \/ e # EntryOf(p) => ExclHolds(u, e)' = ExclHolds(u, e)
  BY <1>1, <1>2 DEF ExclHolds, LookedUp, Found
<1>5. ASSUME e = EntryOf(p)
      PROVE  LET h == <<p, held[t][p].ex>>
             IN  ExclHolds(t, e)' = ExclHolds(t, e) \ {h} /\ h \in ExclHolds(t, e)
  BY <1>1, <1>2, <1>5 DEF ExclHolds, LookedUp, Found
<1>6. QED
  BY <1>3, <1>4, <1>5

\* One hold less of finitely many.
LEMMA HoldRemoved ==
    ASSUME NEW S, IsFiniteSet(S), NEW h \in S
    PROVE  /\ IsFiniteSet(S \ {h}) /\ Cardinality(S \ {h}) = Cardinality(S) - 1
           /\ Cardinality(S) \in Nat /\ Cardinality(S \ {h}) \in Nat
<1>1. IsFiniteSet(S \ {h}) /\ Cardinality(S \ {h}) = Cardinality(S) - 1
  BY FS_RemoveElement
<1>2. QED
  BY <1>1, FS_CardinalityType

-----------------------------------------------------------------------------
(* The counters of an entry follow its holds.                                *)

CountsKept == \A e \in Entry : Counted(e) /\ (~kicked => Exact(e))

LEMMA SameCounts ==
    ASSUME SrwInv, NEW p \in Ptr, Found(p), UNCHANGED <<held, srw, kicked>>
    PROVE  CountsKept'
<1> SUFFICES ASSUME NEW e \in Entry PROVE Counted(e)' /\ (~kicked => Exact(e)')
  BY DEF CountsKept
<1>1. SharedHolds(e)' = SharedHolds(e) /\ \A t \in Tid : ExclHolds(t, e)' = ExclHolds(t, e)
  BY SameHolds DEF SrwInv
<1>2. srw[e].writer \in Tid \cup {Nobody}
  BY DEF SrwInv, SrwTypeOK, Entry
<1>3. QED
  BY <1>1, <1>2 DEF SrwInv, Counted, Exact

\* A reader that passes is counted.
LEMMA ReadCounted ==
    ASSUME SrwInv, NEW t \in Tid, NEW p \in Ptr, Found(p), SharedPasses(EntryOf(p), t),
           Reads(EntryOf(p)), TookShared(t, p), UNCHANGED kicked
    PROVE  CountsKept'
<1> SUFFICES ASSUME NEW e \in Entry PROVE Counted(e)' /\ (~kicked => Exact(e)')
  BY DEF CountsKept
<1> DEFINE h == <<t, p, held[t][p].sh + 1>>
<1>1. /\ \A u \in Tid : ExclHolds(u, e)' = ExclHolds(u, e)
      /\ e # EntryOf(p) => SharedHolds(e)' = SharedHolds(e)
      /\ e = EntryOf(p) => SharedHolds(e)' = SharedHolds(e) \cup {h} /\ h \notin SharedHolds(e)
  BY SharedHoldAdded DEF SrwInv
<1>2. /\ srw[e] \in [readers : Nat, writer : Tid \cup {Nobody}, rec : Nat]
      /\ srw'[e].writer = srw[e].writer /\ srw'[e].rec = srw[e].rec
      /\ srw'[e].readers = IF e = EntryOf(p) THEN srw[e].readers + 1 ELSE srw[e].readers
  BY EntryType DEF SrwInv, SrwTypeOK, Entry, Reads
<1>3. Counted(e) /\ (~kicked => Exact(e))
  BY DEF SrwInv
<1>4. CASE e # EntryOf(p)
  BY <1>1, <1>2, <1>3, <1>4 DEF Counted, Exact
<1>5. CASE e = EntryOf(p)
  <2>1. /\ IsFiniteSet(SharedHolds(e)')
        /\ Cardinality(SharedHolds(e)') = Cardinality(SharedHolds(e)) + 1
        /\ Cardinality(SharedHolds(e)) \in Nat
    BY <1>1, <1>3, <1>5, FS_AddElement, FS_CardinalityType DEF Counted
  <2>2. Counted(e)'
    BY <1>1, <1>2, <1>3, <1>5, <2>1 DEF Counted
  <2>3. ASSUME ~kicked PROVE Exact(e)'
    <3>1. srw[e].writer \in {Nobody, t}
      BY <1>5 DEF SharedPasses
    <3>2. QED
      BY <1>1, <1>2, <1>3, <1>5, <2>1, <2>3, <3>1 DEF Exact
  <2>4. QED
    BY <2>2, <2>3
<1>6. QED
  BY <1>4, <1>5

\* So is a writer, which passes when nobody has the lock or it writes itself.
LEMMA WriteCounted ==
    ASSUME SrwInv, NEW t \in Tid, NEW p \in Ptr, Found(p),
           \/ srw[EntryOf(p)].writer = t
           \/ srw[EntryOf(p)].writer = Nobody /\ srw[EntryOf(p)].readers = 0,
           Writes(EntryOf(p), t, srw[EntryOf(p)].rec + 1), TookExcl(t, p), UNCHANGED kicked
    PROVE  CountsKept'
<1> SUFFICES ASSUME NEW e \in Entry PROVE Counted(e)' /\ (~kicked => Exact(e)')
  BY DEF CountsKept
<1> DEFINE h == <<p, held[t][p].ex + 1>>
<1>1. /\ SharedHolds(e)' = SharedHolds(e)
      /\ \A u \in Tid : u # t \/ e # EntryOf(p) => ExclHolds(u, e)' = ExclHolds(u, e)
      /\ e = EntryOf(p) => ExclHolds(t, e)' = ExclHolds(t, e) \cup {h} /\ h \notin ExclHolds(t, e)
  BY ExclHoldAdded DEF SrwInv
<1>2. /\ srw[e] \in [readers : Nat, writer : Tid \cup {Nobody}, rec : Nat]
      /\ srw'[e].readers = srw[e].readers
      /\ e # EntryOf(p) => srw'[e] = srw[e]
      /\ e = EntryOf(p) => srw'[e].writer = t /\ srw'[e].rec = srw[e].rec + 1
  BY EntryType DEF SrwInv, SrwTypeOK, Entry, Writes
<1>3. Counted(e) /\ (~kicked => Exact(e))
  BY DEF SrwInv
<1>4. CASE e # EntryOf(p)
  BY <1>1, <1>2, <1>3, <1>4 DEF Counted, Exact
<1>5. CASE e = EntryOf(p)
  <2>1. /\ \A u \in Tid : IsFiniteSet(ExclHolds(u, e)')
        /\ Cardinality(ExclHolds(t, e)') = Cardinality(ExclHolds(t, e)) + 1
        /\ Cardinality(ExclHolds(t, e)) \in Nat
    BY <1>1, <1>3, <1>5, FS_AddElement, FS_CardinalityType DEF Counted
  <2>2. Counted(e)'
    BY <1>1, <1>2, <1>3, <1>5, <2>1 DEF Counted
  <2>3. ASSUME ~kicked PROVE Exact(e)'
    <3>1. CASE srw[e].writer = t
      BY <1>1, <1>2, <1>3, <1>5, <2>1, <2>3, <3>1 DEF Exact
    <3>2. CASE srw[e].writer = Nobody /\ srw[e].readers = 0
      <4>1. SharedHolds(e) = {} /\ \A u \in Tid : ExclHolds(u, e) = {}
        BY <1>3, <2>3, <3>2, FS_EmptySet DEF Counted, Exact
      <4>2. srw'[e].rec = Cardinality(ExclHolds(t, e)')
        BY <1>2, <1>3, <1>5, <2>1, <3>2, <4>1, FS_EmptySet DEF Counted
      <4>3. QED
        BY <1>1, <1>2, <1>3, <1>5, <2>3, <4>1, <4>2 DEF Exact
    <3>3. QED
      BY <1>5, <3>1, <3>2
  <2>4. QED
    BY <2>2, <2>3
<1>6. QED
  BY <1>4, <1>5

LEMMA SharedReleaseCounted ==
    ASSUME SrwInv, NEW t \in Tid, NEW p \in Ptr, Found(p), held[t][p].sh > 0,
           srw' = [srw EXCEPT ![EntryOf(p)].readers = IF @ > 0 THEN @ - 1 ELSE @],
           held' = [held EXCEPT ![t][p].sh = @ - 1], UNCHANGED kicked
    PROVE  CountsKept'
<1> SUFFICES ASSUME NEW e \in Entry PROVE Counted(e)' /\ (~kicked => Exact(e)')
  BY DEF CountsKept
<1> DEFINE h == <<t, p, held[t][p].sh>>
<1>1. /\ \A u \in Tid : ExclHolds(u, e)' = ExclHolds(u, e)
      /\ e # EntryOf(p) => SharedHolds(e)' = SharedHolds(e)
      /\ e = EntryOf(p) => SharedHolds(e)' = SharedHolds(e) \ {h} /\ h \in SharedHolds(e)
  BY SharedHoldRemoved DEF SrwInv
<1>2. /\ srw[e] \in [readers : Nat, writer : Tid \cup {Nobody}, rec : Nat]
      /\ srw'[e].writer = srw[e].writer /\ srw'[e].rec = srw[e].rec
      /\ srw'[e].readers = IF e = EntryOf(p) /\ srw[e].readers > 0
                             THEN srw[e].readers - 1 ELSE srw[e].readers
  BY EntryType DEF SrwInv, SrwTypeOK, Entry
<1>3. Counted(e) /\ (~kicked => Exact(e))
  BY DEF SrwInv
<1>4. CASE e # EntryOf(p)
  BY <1>1, <1>2, <1>3, <1>4 DEF Counted, Exact
<1>5. CASE e = EntryOf(p)
  <2>1. /\ IsFiniteSet(SharedHolds(e)')
        /\ Cardinality(SharedHolds(e)') = Cardinality(SharedHolds(e)) - 1
        /\ Cardinality(SharedHolds(e)') \in Nat /\ Cardinality(SharedHolds(e)) \in Nat
    BY <1>1, <1>3, <1>5, HoldRemoved DEF Counted
  <2>2. Counted(e)'
    BY <1>1, <1>2, <1>3, <1>5, <2>1 DEF Counted
  <2>3. ASSUME ~kicked PROVE Exact(e)'
    BY <1>1, <1>2, <1>3, <1>5, <2>1, <2>3 DEF Exact
  <2>4. QED
    BY <2>2, <2>3
<1>6. QED
  BY <1>4, <1>5

LEMMA ExclReleaseCounted ==
    ASSUME SrwInv, NEW t \in Tid, NEW p \in Ptr, Found(p), ReleaseExclusive(t, p)
    PROVE  CountsKept'
<1> SUFFICES ASSUME NEW e \in Entry PROVE Counted(e)' /\ (~kicked => Exact(e)')
  BY DEF CountsKept, ReleaseExclusive
<1> DEFINE h == <<p, held[t][p].ex>>
<1>1. /\ SharedHolds(e)' = SharedHolds(e)
      /\ \A u \in Tid : u # t \/ e # EntryOf(p) => ExclHolds(u, e)' = ExclHolds(u, e)
      /\ e = EntryOf(p) => ExclHolds(t, e)' = ExclHolds(t, e) \ {h} /\ h \in ExclHolds(t, e)
  BY ExclHoldRemoved DEF SrwInv, ReleaseExclusive
<1>2. /\ srw[e] \in [readers : Nat, writer : Tid \cup {Nobody}, rec : Nat]
      /\ srw'[e].readers = srw[e].readers
      /\ e # EntryOf(p) \/ srw[e].writer # t => srw'[e] = srw[e]
      /\ e = EntryOf(p) /\ srw[e].writer = t /\ srw[e].rec <= 1 =>
           srw'[e].writer = Nobody /\ srw'[e].rec = 0
      /\ e = EntryOf(p) /\ srw[e].writer = t /\ srw[e].rec > 1 =>
           srw'[e].writer = t /\ srw'[e].rec = srw[e].rec - 1
  <2>1. /\ srw \in [Entry -> [readers : Nat, writer : Tid \cup {Nobody}, rec : Nat]]
        /\ EntryOf(p) \in Entry
    BY EntryType DEF SrwInv, SrwTypeOK, Entry
  <2>2. \/ /\ srw[EntryOf(p)].writer = t /\ srw[EntryOf(p)].rec <= 1
           /\ srw' = [srw EXCEPT ![EntryOf(p)].writer = Nobody, ![EntryOf(p)].rec = 0]
        \/ /\ srw[EntryOf(p)].writer = t /\ srw[EntryOf(p)].rec > 1
           /\ srw' = [srw EXCEPT ![EntryOf(p)].rec = @ - 1]
        \/ srw[EntryOf(p)].writer # t /\ srw' = srw
    BY <2>1 DEF ReleaseExclusive
  <2>3. QED
    BY <2>1, <2>2
<1>3. Counted(e) /\ (~kicked => Exact(e)) /\ kicked' = kicked
  BY DEF SrwInv, ReleaseExclusive
<1>4. CASE e # EntryOf(p)
  BY <1>1, <1>2, <1>3, <1>4 DEF Counted, Exact
<1>5. CASE e = EntryOf(p)
  <2>1. /\ \A u \in Tid : IsFiniteSet(ExclHolds(u, e)')
        /\ Cardinality(ExclHolds(t, e)') = Cardinality(ExclHolds(t, e)) - 1
        /\ Cardinality(ExclHolds(t, e)') \in Nat /\ Cardinality(ExclHolds(t, e)) \in Nat
    BY <1>1, <1>3, <1>5, HoldRemoved DEF Counted
  <2>2. Counted(e)'
    BY <1>1, <1>2, <1>3, <1>5, <2>1 DEF Counted
  <2>3. ASSUME ~kicked PROVE Exact(e)'
    <3>1. ExclHolds(t, e) # {} /\ srw[e].writer = t /\ srw[e].rec = Cardinality(ExclHolds(t, e))
      BY <1>1, <1>3, <1>5, <2>3 DEF Exact
    <3>2. srw[e].rec <= 1 => ExclHolds(t, e)' = {}
      BY <2>1, <3>1, FS_EmptySet, <1>2
    <3>3. QED
      BY <1>1, <1>2, <1>3, <1>5, <2>1, <2>3, <3>1, <3>2 DEF Exact
  <2>4. QED
    BY <2>2, <2>3
<1>6. QED
  BY <1>4, <1>5

LEMMA KickCounted ==
    ASSUME SrwInv, KickLocks
    PROVE  CountsKept'
<1> SUFFICES ASSUME NEW e \in Entry PROVE Counted(e)'
  BY DEF CountsKept, KickLocks
<1>1. SharedHolds(e)' = SharedHolds(e) /\ \A t \in Tid : ExclHolds(t, e)' = ExclHolds(t, e)
  BY DEF KickLocks, SharedHolds, ExclHolds, EntryOf, HasRoom
<1>2. srw'[e] = srw[e] \/ srw'[e] = Free
  BY DEF KickLocks, Entry
<1>3. Counted(e) /\ srw[e].writer \in Tid \cup {Nobody}
  BY DEF SrwInv, SrwTypeOK, Entry
<1>4. Cardinality(SharedHolds(e)) \in Nat
  BY <1>3, FS_CardinalityType DEF Counted
<1>5. CASE srw'[e] = srw[e]
  BY <1>1, <1>3, <1>5 DEF Counted
<1>6. CASE srw'[e] = Free
  BY <1>1, <1>3, <1>4, <1>6 DEF Counted, Free
<1>7. QED
  BY <1>2, <1>5, <1>6

-----------------------------------------------------------------------------
(* Those that wait.                                                          *)

LEMMA LookedUpKept ==
    ASSUME SrwTypeOK, LookedUp, NEW t \in Tid, NEW p \in Ptr, Found(p),
           \A u \in Tid, q \in Ptr : ~(u = t /\ q = p) =>
             held'[u][q].sh = held[u][q].sh /\ held'[u][q].ex = held[u][q].ex,
           \A u \in Tid \ {t} : acq'[u] = acq[u],
           acq'[t] = acq[t] \/ acq'[t].op = "none" \/ acq'[t].p = p
    PROVE  LookedUp'
BY DEF LookedUp, Found

\* A thread that enters a lock, or gives up at once, makes no other waiter's lock
\* passable: it adds a reader, or writes where nobody or itself wrote.
LEMMA WaitsKept ==
    ASSUME SrwInv, NEW t \in Tid, NEW p \in Ptr, Found(p), NEW n \in Nat,
           srwParked' \subseteq srwParked, t \notin srwParked',
           \A u \in Tid \ {t} : acq'[u] = acq[u] /\ held'[u] = held[u],
           \/ UNCHANGED srw
           \/ Reads(EntryOf(p))
           \/ /\ Writes(EntryOf(p), t, n)
              /\ srw[EntryOf(p)].writer \in {Nobody, t}
              /\ srw[EntryOf(p)].writer = t \/ srw[EntryOf(p)].readers = 0,
           acq'[t].op = "excl" =>
             acq'[t].p = p /\ held'[t][p].sh = 0 /\ srw'[EntryOf(p)].writer # t
    PROVE  Acquiring' /\ NoLostSrwWait'
<1>1. /\ srw \in [Entry -> [readers : Nat, writer : Tid \cup {Nobody}, rec : Nat]]
      /\ EntryOf(p) \in Entry
      /\ acq \in [Tid -> {NotAcquiring} \cup [op : {"shared", "excl"}, p : Ptr]]
      /\ srwParked \subseteq Tid
  BY EntryType DEF SrwInv, SrwTypeOK, Entry
<1>2. \A e \in Entry :
        /\ srw'[e].readers >= srw[e].readers
        /\ srw'[e].writer = srw[e].writer \/ (srw'[e].writer = t /\ srw[e].writer = Nobody /\ srw[e].readers = 0)
  BY <1>1 DEF Reads, Writes
<1>3. ASSUME NEW u \in Tid \ {t}, ~SrwIdle(u)
      PROVE  /\ acq[u].p \in Ptr /\ EntryOf(acq[u].p) \in Entry
             /\ EntryOf(acq[u].p)' = EntryOf(acq[u].p)
  <2>1. acq[u].p \in Ptr
    BY <1>1, <1>3
  <2>2. Placed(acq[u].p)
    BY <2>1, <1>3 DEF SrwInv, LookedUp
  <2>3. QED
    BY <2>1, <2>2, EntryType DEF Found, EntryOf, HasRoom
<1>4. ASSUME NEW u \in srwParked' PROVE ~SrwIdle(u)'
  BY <1>1, <1>4 DEF SrwInv, Acquiring
<1>5. ASSUME NEW u \in Tid, acq'[u].op = "excl"
      PROVE  held'[u][acq'[u].p].sh = 0 /\ srw'[EntryOf(acq[u].p)'].writer # u
  <2>1. CASE u = t
    BY <2>1, <1>5 DEF Found, EntryOf, HasRoom
  <2>2. CASE u # t
    BY <2>2, <1>1, <1>2, <1>3, <1>5 DEF SrwInv, Acquiring
  <2>3. QED
    BY <2>1, <2>2
<1>6. ASSUME NEW u \in srwParked'
      PROVE  (IF acq[u].op = "shared" THEN ~SharedPasses(EntryOf(acq[u].p), u)
                                      ELSE ~ExclPasses(EntryOf(acq[u].p), u))'
  <2>1. u \in Tid \ {t} /\ acq'[u] = acq[u] /\ ~SrwIdle(u)
    BY <1>1, <1>4
  <2>2. /\ EntryOf(acq[u].p)' = EntryOf(acq[u].p) /\ EntryOf(acq[u].p) \in Entry
    BY <1>3, <2>1
  <2>3. IF acq[u].op = "shared" THEN ~SharedPasses(EntryOf(acq[u].p), u)
                                ELSE ~ExclPasses(EntryOf(acq[u].p), u)
    BY DEF SrwInv, NoLostSrwWait
  <2>4. QED
    BY <1>1, <1>2, <2>1, <2>2, <2>3 DEF SharedPasses, ExclPasses
<1>7. Acquiring'
  BY <1>4, <1>5 DEF Acquiring
<1>8. NoLostSrwWait'
  BY <1>6 DEF NoLostSrwWait
<1>9. QED
  BY <1>7, <1>8

\* A release, or the breaker, wakes all; a thread that still wants to write does
\* not write its entry now either.
LEMMA AllWoken ==
    ASSUME SrwInv, NEW p \in Ptr, Found(p) \/ UNCHANGED table, WakeAll, UNCHANGED acq,
           \A e \in Entry : srw'[e].writer \in {srw[e].writer, Nobody},
           \A u \in Tid, q \in Ptr : ~SrwIdle(u) => held'[u][q].sh = held[u][q].sh
    PROVE  Acquiring' /\ NoLostSrwWait'
<1>1. srwParked' = {} /\ acq' = acq
  BY DEF WakeAll
<1>2. ASSUME NEW u \in Tid, acq[u].op = "excl"
      PROVE  held'[u][acq[u].p].sh = 0 /\ srw'[EntryOf(acq[u].p)'].writer # u
  <2>1. acq[u].p \in Ptr /\ ~SrwIdle(u)
    BY <1>2 DEF SrwInv, SrwTypeOK
  <2>2. Placed(acq[u].p) /\ EntryOf(acq[u].p) \in Entry
    BY <2>1, EntryType DEF SrwInv, LookedUp
  <2>3. EntryOf(acq[u].p)' = EntryOf(acq[u].p)
    BY <1>1, <2>1, <2>2 DEF Found, EntryOf, HasRoom
  <2>4. QED
    BY <1>2, <2>1, <2>2, <2>3 DEF SrwInv, Acquiring
<1>3. QED
  BY <1>1, <1>2 DEF Acquiring, NoLostSrwWait

-----------------------------------------------------------------------------
(* Types.                                                                    *)

EntryRecord == [readers : Nat, writer : Tid \cup {Nobody}, rec : Nat]
HoldRecord == [sh : Nat, ex : Nat]

LEMMA EntryUpdates ==
    ASSUME SrwTypeOK, NEW e \in Entry, NEW t \in Tid
    PROVE  /\ Reads(e) => srw' \in [Entry -> EntryRecord]
           /\ \A n \in Nat : Writes(e, t, n) => srw' \in [Entry -> EntryRecord]
<1>1. srw \in [Entry -> EntryRecord] /\ srw[e] \in EntryRecord
  BY DEF SrwTypeOK, Entry, EntryRecord
<1>2. ASSUME Reads(e) PROVE srw' \in [Entry -> EntryRecord]
  <2> DEFINE r == [srw[e] EXCEPT !.readers = srw[e].readers + 1]
  <2>1. r \in EntryRecord
    BY <1>1 DEF EntryRecord
  <2>2. srw' = [srw EXCEPT ![e] = r]
    BY <1>2 DEF Reads
  <2> HIDE DEF r
  <2>3. QED
    BY <1>1, <2>1, <2>2
<1>3. ASSUME NEW n \in Nat, Writes(e, t, n) PROVE srw' \in [Entry -> EntryRecord]
  <2> DEFINE r == [srw[e] EXCEPT !.writer = t]
             written == [srw EXCEPT ![e] = r]
             s == [written[e] EXCEPT !.rec = n]
  <2>1. r \in EntryRecord
    BY <1>1 DEF EntryRecord
  <2>2. srw' = [written EXCEPT ![e] = s]
    BY <1>3 DEF Writes
  <2> HIDE DEF r
  <2>3. written \in [Entry -> EntryRecord] /\ written[e] \in EntryRecord
    BY <1>1, <2>1
  <2> HIDE DEF written
  <2>4. s \in EntryRecord
    BY <2>3 DEF EntryRecord
  <2> HIDE DEF s
  <2>5. QED
    BY <2>2, <2>3, <2>4
<1>4. QED
  BY <1>2, <1>3

LEMMA HoldUpdates ==
    ASSUME SrwTypeOK, NEW t \in Tid, NEW p \in Ptr
    PROVE  /\ TookShared(t, p) => held' \in [Tid -> [Ptr -> HoldRecord]]
           /\ TookExcl(t, p) => held' \in [Tid -> [Ptr -> HoldRecord]]
           /\ held[t][p].sh > 0 /\ held' = [held EXCEPT ![t][p].sh = @ - 1]
                => held' \in [Tid -> [Ptr -> HoldRecord]]
           /\ held[t][p].ex > 0 /\ held' = [held EXCEPT ![t][p].ex = @ - 1]
                => held' \in [Tid -> [Ptr -> HoldRecord]]
<1>1. /\ held \in [Tid -> [Ptr -> HoldRecord]]
      /\ held[t] \in [Ptr -> HoldRecord] /\ held[t][p] \in HoldRecord
  BY DEF SrwTypeOK, HoldRecord
<1>2. ASSUME NEW r \in HoldRecord PROVE [held EXCEPT ![t][p] = r] \in [Tid -> [Ptr -> HoldRecord]]
  BY <1>1
<1>3. TookShared(t, p) => held' \in [Tid -> [Ptr -> HoldRecord]]
  <2> DEFINE r == [held[t][p] EXCEPT !.sh = held[t][p].sh + 1]
  <2>1. r \in HoldRecord
    BY <1>1 DEF HoldRecord
  <2>2. TookShared(t, p) => held' = [held EXCEPT ![t][p] = r]
    BY DEF TookShared
  <2> HIDE DEF r
  <2>3. QED
    BY <1>2, <2>1, <2>2
<1>4. TookExcl(t, p) => held' \in [Tid -> [Ptr -> HoldRecord]]
  <2> DEFINE r == [held[t][p] EXCEPT !.ex = held[t][p].ex + 1]
  <2>1. r \in HoldRecord
    BY <1>1 DEF HoldRecord
  <2>2. TookExcl(t, p) => held' = [held EXCEPT ![t][p] = r]
    BY DEF TookExcl
  <2> HIDE DEF r
  <2>3. QED
    BY <1>2, <2>1, <2>2
<1>5. held[t][p].sh > 0 /\ held' = [held EXCEPT ![t][p].sh = @ - 1]
        => held' \in [Tid -> [Ptr -> HoldRecord]]
  <2> SUFFICES ASSUME held[t][p].sh > 0, held' = [held EXCEPT ![t][p].sh = @ - 1]
               PROVE  held' \in [Tid -> [Ptr -> HoldRecord]]
    OBVIOUS
  <2> DEFINE r == [held[t][p] EXCEPT !.sh = held[t][p].sh - 1]
  <2>1. r \in HoldRecord
    BY <1>1 DEF HoldRecord
  <2>2. held' = [held EXCEPT ![t][p] = r]
    OBVIOUS
  <2> HIDE DEF r
  <2>3. QED
    BY <1>2, <2>1, <2>2
<1>6. held[t][p].ex > 0 /\ held' = [held EXCEPT ![t][p].ex = @ - 1]
        => held' \in [Tid -> [Ptr -> HoldRecord]]
  <2> SUFFICES ASSUME held[t][p].ex > 0, held' = [held EXCEPT ![t][p].ex = @ - 1]
               PROVE  held' \in [Tid -> [Ptr -> HoldRecord]]
    OBVIOUS
  <2> DEFINE r == [held[t][p] EXCEPT !.ex = held[t][p].ex - 1]
  <2>1. r \in HoldRecord
    BY <1>1 DEF HoldRecord
  <2>2. held' = [held EXCEPT ![t][p] = r]
    OBVIOUS
  <2> HIDE DEF r
  <2>3. QED
    BY <1>2, <2>1, <2>2
<1>7. QED
  BY <1>3, <1>4, <1>5, <1>6

\* The acquirers.
LEMMA AcquireType ==
    ASSUME SrwTypeOK, NEW t \in Tid, NEW p \in Ptr,
           \/ AcquireShared(t, p) \/ AcquireExclusive(t, p)
           \/ TryShared(t, p) \/ TryExclusive(t, p)
    PROVE  SrwTypeOK'
<1>1. EntryOf(p) \in Entry /\ srw[EntryOf(p)].rec \in Nat
  BY EntryType DEF SrwTypeOK, Entry
<1>2. table' \subseteq Ptr
  BY DEF SrwTypeOK, AcquireShared, AcquireExclusive, TryShared, TryExclusive, LookUp
<1>3. srw' \in [Entry -> EntryRecord]
  <2>1. Reads(EntryOf(p)) \/ UNCHANGED srw \/ \E n \in Nat : Writes(EntryOf(p), t, n)
    BY <1>1 DEF AcquireShared, AcquireExclusive, TryShared, TryExclusive, Contend
  <2>2. srw \in [Entry -> EntryRecord]
    BY DEF SrwTypeOK, Entry, EntryRecord
  <2>3. QED
    BY <1>1, <2>1, <2>2, EntryUpdates
<1>4. held' \in [Tid -> [Ptr -> HoldRecord]]
  BY HoldUpdates DEF SrwTypeOK, HoldRecord, AcquireShared, AcquireExclusive, TryShared, TryExclusive, Contend
<1>5. /\ acq' \in [Tid -> {NotAcquiring} \cup [op : {"shared", "excl"}, p : Ptr]]
      /\ srwParked' \subseteq Tid /\ kicked' \in BOOLEAN
  BY DEF SrwTypeOK, AcquireShared, AcquireExclusive, TryShared, TryExclusive, Contend
<1>6. QED
  BY <1>2, <1>3, <1>4, <1>5 DEF SrwTypeOK, Entry, EntryRecord, HoldRecord

\* The turns of the wait loops.
LEMMA SrwTurnType ==
    ASSUME SrwTypeOK, NEW t \in Tid, SharedTurn(t) \/ ExclTurn(t) \/ ExclPoll(t)
    PROVE  SrwTypeOK'
<1> DEFINE p == acq[t].p
<1>1. p \in Ptr /\ EntryOf(p) \in Entry
  BY EntryType DEF SrwTypeOK, SharedTurn, ExclTurn, ExclPoll
<1>2. srw' \in [Entry -> EntryRecord]
  BY <1>1, EntryUpdates DEF SrwTypeOK, EntryRecord, Entry, SharedTurn, ExclTurn, ExclPoll
<1>3. held' \in [Tid -> [Ptr -> HoldRecord]]
  BY <1>1, HoldUpdates DEF SrwTypeOK, HoldRecord, SharedTurn, ExclTurn, ExclPoll
<1>4. /\ table' \subseteq Ptr
      /\ acq' \in [Tid -> {NotAcquiring} \cup [op : {"shared", "excl"}, p : Ptr]]
      /\ srwParked' \subseteq Tid /\ kicked' \in BOOLEAN
  BY DEF SrwTypeOK, SharedTurn, ExclTurn, ExclPoll
<1>5. QED
  BY <1>2, <1>3, <1>4 DEF SrwTypeOK, Entry, EntryRecord, HoldRecord

\* The releases and the breaker.
LEMMA ReleaseType ==
    ASSUME SrwTypeOK,
           \/ \E t \in Tid, p \in Ptr : ReleaseShared(t, p) \/ ReleaseExclusive(t, p)
           \/ KickLocks
    PROVE  SrwTypeOK'
<1>1. ASSUME NEW t \in Tid, NEW p \in Ptr, ReleaseShared(t, p) PROVE SrwTypeOK'
  <2>1. /\ EntryOf(p) \in Entry /\ srw[EntryOf(p)].readers \in Nat
        /\ held[t][p].sh - 1 \in Nat
    BY <1>1, EntryType DEF SrwTypeOK, Entry, ReleaseShared
  <2>2. srw' \in [Entry -> EntryRecord]
    <3> DEFINE e == EntryOf(p)
               r == [srw[e] EXCEPT !.readers = IF srw[e].readers > 0 THEN srw[e].readers - 1
                                                                     ELSE srw[e].readers]
    <3>1. srw \in [Entry -> EntryRecord] /\ srw[e] \in EntryRecord
      BY <2>1 DEF SrwTypeOK, Entry, EntryRecord
    <3>2. r \in EntryRecord
      BY <3>1 DEF EntryRecord
    <3>3. srw' = [srw EXCEPT ![e] = r]
      BY <1>1 DEF ReleaseShared
    <3> HIDE DEF r
    <3>4. QED
      BY <3>1, <3>2, <3>3
  <2>3. held' \in [Tid -> [Ptr -> HoldRecord]]
    BY <1>1, <2>1, HoldUpdates DEF ReleaseShared
  <2>4. QED
    BY <1>1, <2>2, <2>3 DEF ReleaseShared, LookUp, WakeAll, SrwTypeOK, Entry, EntryRecord, HoldRecord
<1>2. ASSUME NEW t \in Tid, NEW p \in Ptr, ReleaseExclusive(t, p) PROVE SrwTypeOK'
  <2>1. /\ EntryOf(p) \in Entry /\ srw[EntryOf(p)].rec \in Nat
        /\ held[t][p].ex - 1 \in Nat
        /\ srw \in [Entry -> EntryRecord]
    BY <1>2, EntryType DEF SrwTypeOK, Entry, ReleaseExclusive, EntryRecord
  <2>2. srw' \in [Entry -> EntryRecord]
    <3> DEFINE e == EntryOf(p)
    <3>1. srw[e] \in EntryRecord
      BY <2>1
    <3>2. CASE srw[e].writer = t /\ srw[e].rec > 1
      <4> DEFINE r == [srw[e] EXCEPT !.rec = srw[e].rec - 1]
      <4>1. r \in EntryRecord
        BY <3>1, <3>2 DEF EntryRecord
      <4>2. srw' = [srw EXCEPT ![e] = r]
        BY <1>2, <2>1, <3>2 DEF ReleaseExclusive
      <4> HIDE DEF r
      <4>3. QED
        BY <2>1, <4>1, <4>2
    <3>3. CASE srw[e].writer = t /\ srw[e].rec <= 1
      <4> DEFINE r == [srw[e] EXCEPT !.writer = Nobody]
                 cleared == [srw EXCEPT ![e] = r]
                 s == [cleared[e] EXCEPT !.rec = 0]
      <4>1. r \in EntryRecord
        BY <3>1 DEF EntryRecord
      <4>2. srw' = [cleared EXCEPT ![e] = s]
        <5>1. srw' = [srw EXCEPT ![e].writer = Nobody, ![e].rec = 0]
          BY <1>2, <2>1, <3>3 DEF ReleaseExclusive
        <5>2. QED
          BY <5>1
      <4> HIDE DEF r
      <4>3. cleared \in [Entry -> EntryRecord] /\ cleared[e] \in EntryRecord
        BY <2>1, <4>1
      <4> HIDE DEF cleared
      <4>4. s \in EntryRecord
        BY <4>3 DEF EntryRecord
      <4> HIDE DEF s
      <4>5. QED
        BY <4>2, <4>3, <4>4
    <3>4. CASE srw[e].writer # t
      BY <1>2, <2>1, <3>4 DEF ReleaseExclusive
    <3>5. QED
      BY <2>1, <3>2, <3>3, <3>4
  <2>3. held' \in [Tid -> [Ptr -> HoldRecord]]
    BY <1>2, <2>1, HoldUpdates DEF ReleaseExclusive
  <2>4. QED
    BY <1>2, <2>2, <2>3 DEF ReleaseExclusive, LookUp, WakeAll, SrwTypeOK, Entry, EntryRecord, HoldRecord
<1>3. ASSUME KickLocks PROVE SrwTypeOK'
  BY <1>3 DEF SrwTypeOK, Entry, KickLocks, WakeAll, Free
<1>4. QED
  BY <1>1, <1>2, <1>3

-----------------------------------------------------------------------------
(* The steps.                                                                *)

\* A hold taken is t's on p.
LEMMA TookApart ==
    ASSUME SrwTypeOK, NEW t \in Tid, NEW p \in Ptr, TookShared(t, p) \/ TookExcl(t, p)
    PROVE  /\ \A u \in Tid \ {t} : held'[u] = held[u]
           /\ \A u \in Tid, q \in Ptr : ~(u = t /\ q = p) =>
                held'[u][q].sh = held[u][q].sh /\ held'[u][q].ex = held[u][q].ex
<1>1. held \in [Tid -> [Ptr -> HoldRecord]]
  BY DEF SrwTypeOK, HoldRecord
<1>2. \A u \in Tid \ {t} : held'[u] = held[u]
  BY <1>1 DEF TookShared, TookExcl
<1>3. \A q \in Ptr \ {p} : held'[t][q] = held[t][q]
  BY <1>1 DEF TookShared, TookExcl
<1>4. QED
  BY <1>2, <1>3

\* A thread that takes a lock, begins to wait for it or gives up.
LEMMA AcquireStep ==
    ASSUME SrwInv, NEW t \in Tid, NEW p \in Ptr,
           \/ AcquireShared(t, p) \/ AcquireExclusive(t, p)
           \/ TryShared(t, p) \/ TryExclusive(t, p)
    PROVE  SrwInv'
<1> DEFINE e == EntryOf(p)
<1>1. SrwTypeOK'
  BY AcquireType DEF SrwInv
<1>2. Found(p) /\ UNCHANGED <<srwParked, kicked>> /\ SrwIdle(t)
  BY LookUpFinds DEF AcquireShared, AcquireExclusive, TryShared, TryExclusive, Contend
<1>3. /\ srw \in [Entry -> [readers : Nat, writer : Tid \cup {Nobody}, rec : Nat]]
      /\ e \in Entry /\ srw[e].rec \in Nat /\ Counted(e)
      /\ acq \in [Tid -> {NotAcquiring} \cup [op : {"shared", "excl"}, p : Ptr]]
  BY EntryType DEF SrwInv, SrwTypeOK, Entry
<1>4. \/ SharedPasses(e, t) /\ Reads(e) /\ TookShared(t, p) /\ UNCHANGED acq
      \/ /\ srw[e].writer = t \/ (srw[e].writer = Nobody /\ srw[e].readers = 0)
         /\ Writes(e, t, srw[e].rec + 1) /\ TookExcl(t, p) /\ UNCHANGED acq
      \/ UNCHANGED <<srw, held, acq>>
      \/ Contend(t, "shared", p)
      \/ Contend(t, "excl", p) /\ held[t][p].sh = 0 /\ srw[e].writer # t
  <2>1. CASE AcquireShared(t, p)
    BY <2>1 DEF AcquireShared
  <2>2. CASE AcquireExclusive(t, p)
    <3>1. srw[e].writer = Nobody => srw[e].rec + 1 = 1
      BY <1>3 DEF Counted
    <3>2. held[t][p].sh = 0
      BY <2>2 DEF AcquireExclusive, MayExcl
    <3>3. CASE srw[e].writer = t /\ Writes(e, t, srw[e].rec + 1) /\ TookExcl(t, p) /\ UNCHANGED acq
      BY <3>3
    <3>4. CASE /\ srw[e].writer = Nobody /\ srw[e].readers = 0
               /\ Writes(e, t, 1) /\ TookExcl(t, p) /\ UNCHANGED acq
      <4>1. Writes(e, t, srw[e].rec + 1)
        BY <3>1, <3>4
      <4>2. QED
        BY <3>4, <4>1
    <3>5. CASE srw[e].writer # t /\ Contend(t, "excl", p)
      BY <3>2, <3>5
    <3>6. QED
      BY <2>2, <3>3, <3>4, <3>5 DEF AcquireExclusive
  <2>3. CASE TryShared(t, p)
    BY <2>3 DEF TryShared
  <2>4. CASE TryExclusive(t, p)
    BY <1>3, <2>4 DEF TryExclusive, ExclPasses
  <2>5. QED
    BY <2>1, <2>2, <2>3, <2>4
<1>5. /\ \A u \in Tid \ {t} : acq'[u] = acq[u] /\ held'[u] = held[u]
      /\ \A u \in Tid, q \in Ptr : ~(u = t /\ q = p) =>
           held'[u][q].sh = held[u][q].sh /\ held'[u][q].ex = held[u][q].ex
      /\ acq'[t] = acq[t] \/ acq'[t].p = p
      /\ acq'[t].op = "excl" =>
           acq'[t].p = p /\ held'[t][p].sh = 0 /\ srw'[e].writer # t
  <2>1. CASE UNCHANGED held
    BY <1>2, <1>3, <1>4, <2>1 DEF Contend, SrwInv, SrwTypeOK
  <2>2. CASE (TookShared(t, p) \/ TookExcl(t, p)) /\ UNCHANGED acq
    BY <1>2, <2>2, TookApart DEF SrwInv
  <2>3. QED
    BY <1>4, <2>1, <2>2 DEF Contend
<1>6. LookedUp'
  BY <1>2, <1>5, LookedUpKept DEF SrwInv
<1>7. Acquiring' /\ NoLostSrwWait'
  <2>1. t \notin srwParked'
    BY <1>2 DEF SrwInv, Acquiring
  <2>2. \/ UNCHANGED srw
        \/ Reads(e)
        \/ \E n \in Nat : /\ Writes(e, t, n)
                          /\ srw[e].writer \in {Nobody, t}
                          /\ srw[e].writer = t \/ srw[e].readers = 0
    BY <1>3, <1>4 DEF Contend
  <2>3. QED
    BY <1>2, <1>5, <2>1, <2>2, WaitsKept
<1>8. CountsKept'
  <2>1. CASE SharedPasses(e, t) /\ Reads(e) /\ TookShared(t, p)
    BY <1>2, <2>1, ReadCounted
  <2>2. CASE /\ srw[e].writer = t \/ (srw[e].writer = Nobody /\ srw[e].readers = 0)
             /\ Writes(e, t, srw[e].rec + 1) /\ TookExcl(t, p)
    BY <1>2, <2>2, WriteCounted
  <2>3. CASE UNCHANGED <<srw, held>>
    BY <1>2, <2>3, SameCounts
  <2>4. QED
    BY <1>4, <2>1, <2>2, <2>3 DEF Contend
<1>9. QED
  BY <1>1, <1>6, <1>7, <1>8 DEF SrwInv, CountsKept

\* The turns of the wait loops look at the entry the acquirer came for.
LEMMA TurnStep ==
    ASSUME SrwInv, NEW t \in Tid, SharedTurn(t) \/ ExclTurn(t) \/ ExclPoll(t)
    PROVE  SrwInv'
<1> DEFINE p == acq[t].p
           e == EntryOf(p)
<1>1. SrwTypeOK' /\ SrwTypeOK
  BY SrwTurnType DEF SrwInv
<1>2. p \in Ptr /\ e \in Entry /\ ~SrwIdle(t) /\ Placed(p)
  <2>1. p \in Ptr /\ ~SrwIdle(t)
    BY <1>1 DEF SrwTypeOK, SharedTurn, ExclTurn, ExclPoll
  <2>2. QED
    BY <2>1, EntryType DEF SrwInv, LookedUp
<1>3. Found(p) /\ UNCHANGED <<table, kicked>>
  BY <1>2, SameTableFinds DEF SharedTurn, ExclTurn, ExclPoll
<1>4. /\ srw[e].rec \in Nat /\ Counted(e)
      /\ acq[t].op = "excl" => held[t][p].sh = 0 /\ srw[e].writer # t
  BY <1>1, <1>2 DEF SrwInv, SrwTypeOK, Entry, Acquiring
<1>5. CASE /\ acq' = [acq EXCEPT ![t] = NotAcquiring] /\ UNCHANGED srwParked /\ t \notin srwParked
           /\ \/ SharedPasses(e, t) /\ Reads(e) /\ TookShared(t, p)
              \/ /\ srw[e].writer = Nobody /\ srw[e].readers = 0
                 /\ Writes(e, t, srw[e].rec + 1) /\ TookExcl(t, p)
  <2>1. CountsKept'
    BY <1>2, <1>3, <1>5, ReadCounted, WriteCounted
  <2>2. /\ \A u \in Tid \ {t} : acq'[u] = acq[u] /\ held'[u] = held[u]
        /\ \A u \in Tid, q \in Ptr : ~(u = t /\ q = p) =>
             held'[u][q].sh = held[u][q].sh /\ held'[u][q].ex = held[u][q].ex
        /\ acq'[t].op = "none"
    <3>1. TookShared(t, p) \/ TookExcl(t, p)
      BY <1>5
    <3>2. acq'[t].op = "none" /\ \A u \in Tid \ {t} : acq'[u] = acq[u]
      BY <1>1, <1>5 DEF SrwTypeOK
    <3>3. QED
      BY <1>1, <1>2, <3>1, <3>2, TookApart
  <2>3. LookedUp'
    BY <1>1, <1>2, <1>3, <2>2, LookedUpKept DEF SrwInv
  <2>4. Acquiring' /\ NoLostSrwWait'
    <3>1. Reads(e) \/ \E n \in Nat : /\ Writes(e, t, n)
                                     /\ srw[e].writer \in {Nobody, t}
                                     /\ srw[e].writer = t \/ srw[e].readers = 0
      BY <1>4, <1>5
    <3>2. QED
      BY <1>2, <1>3, <1>5, <2>2, <3>1, WaitsKept
  <2>5. QED
    BY <1>1, <2>1, <2>3, <2>4 DEF SrwInv, CountsKept
<1>6. CASE UNCHANGED <<srw, acq, held>> /\ srwParked' \in {srwParked \cup {t}, srwParked \ {t}}
           /\ (t \in srwParked' =>
                 IF acq[t].op = "shared" THEN ~SharedPasses(e, t) ELSE ~ExclPasses(e, t))
  <2>1. CountsKept'
    BY <1>2, <1>3, <1>6, SameCounts
  <2>2. LookedUp'
    BY <1>3, <1>6 DEF SrwInv, LookedUp, Placed, HasRoom
  <2>3. Acquiring' /\ NoLostSrwWait'
    BY <1>2, <1>3, <1>6 DEF SrwInv, Acquiring, NoLostSrwWait, EntryOf, HasRoom, SharedPasses, ExclPasses
  <2>4. QED
    BY <1>1, <2>1, <2>2, <2>3 DEF SrwInv, CountsKept
<1>7. CASE SharedTurn(t)
  BY <1>5, <1>6, <1>7 DEF SharedTurn
<1>8. CASE ExclTurn(t)
  <2>1. CASE ExclPasses(e, t) /\ Writes(e, t, 1) /\ TookExcl(t, p)
             /\ acq' = [acq EXCEPT ![t] = NotAcquiring] /\ UNCHANGED srwParked
    <3>1. srw[e].writer = Nobody /\ srw[e].readers = 0 /\ srw[e].rec + 1 = 1
      BY <1>4, <1>8, <2>1 DEF ExclPasses, ExclTurn, Counted
    <3>2. QED
      BY <1>5, <1>8, <2>1, <3>1 DEF ExclTurn
  <2>2. CASE ~ExclPasses(e, t) /\ srwParked' = srwParked \cup {t} /\ UNCHANGED <<srw, acq, held>>
    BY <1>6, <1>8, <2>2 DEF ExclTurn
  <2>3. QED
    BY <1>8, <2>1, <2>2 DEF ExclTurn
<1>9. CASE ExclPoll(t)
  BY <1>6, <1>9 DEF ExclPoll
<1>10. QED
  BY <1>7, <1>8, <1>9

LEMMA ReleaseStep ==
    ASSUME SrwInv, NEW t \in Tid, NEW p \in Ptr, ReleaseShared(t, p) \/ ReleaseExclusive(t, p)
    PROVE  SrwInv'
<1>1. SrwTypeOK /\ SrwTypeOK'
  BY ReleaseType DEF SrwInv
<1>2. Found(p) /\ WakeAll /\ UNCHANGED <<acq, kicked>> /\ SrwIdle(t) /\ EntryOf(p) \in Entry
  BY LookUpFinds, EntryType DEF ReleaseShared, ReleaseExclusive
<1>3. /\ \A u \in Tid \ {t} : held'[u] = held[u]
      /\ \A u \in Tid, q \in Ptr : ~(u = t /\ q = p) =>
           held'[u][q].sh = held[u][q].sh /\ held'[u][q].ex = held[u][q].ex
  <2>1. held \in [Tid -> [Ptr -> HoldRecord]]
    BY <1>1 DEF SrwTypeOK, HoldRecord
  <2>2. \A u \in Tid \ {t} : held'[u] = held[u]
    BY <2>1 DEF ReleaseShared, ReleaseExclusive
  <2>3. \A q \in Ptr \ {p} : held'[t][q] = held[t][q]
    BY <2>1 DEF ReleaseShared, ReleaseExclusive
  <2>4. QED
    BY <2>2, <2>3
<1>4. LookedUp'
  BY <1>1, <1>2, <1>3, LookedUpKept DEF SrwInv
<1>5. \A e \in Entry : srw'[e].writer \in {srw[e].writer, Nobody}
  <2>1. srw \in [Entry -> EntryRecord]
    BY <1>1 DEF SrwTypeOK, Entry, EntryRecord
  <2>2. CASE ReleaseShared(t, p)
    BY <1>2, <2>1, <2>2 DEF ReleaseShared, EntryRecord
  <2>3. CASE ReleaseExclusive(t, p)
    <3> DEFINE e == EntryOf(p)
    <3>1. \/ srw' = [srw EXCEPT ![e].writer = Nobody, ![e].rec = 0]
          \/ srw' = [srw EXCEPT ![e].rec = @ - 1]
          \/ srw' = srw
      <4>1. srw[e].rec \in Nat
        BY <1>2, <2>1 DEF EntryRecord
      <4>2. QED
        BY <2>3, <4>1 DEF ReleaseExclusive
    <3>2. QED
      BY <1>2, <2>1, <3>1 DEF EntryRecord
  <2>4. QED
    BY <2>2, <2>3
<1>6. Acquiring' /\ NoLostSrwWait'
  <2>1. \A u \in Tid, q \in Ptr : ~SrwIdle(u) => held'[u][q].sh = held[u][q].sh
    BY <1>2, <1>3
  <2>2. QED
    BY <1>2, <1>5, <2>1, AllWoken
<1>7. CountsKept'
  BY <1>2, SharedReleaseCounted, ExclReleaseCounted DEF ReleaseShared
<1>8. QED
  BY <1>1, <1>4, <1>6, <1>7 DEF SrwInv, CountsKept

LEMMA KickStep ==
    ASSUME SrwInv, KickLocks
    PROVE  SrwInv'
<1>1. SrwTypeOK'
  BY ReleaseType DEF SrwInv
<1>2. LookedUp'
  BY DEF SrwInv, KickLocks, LookedUp, Placed, HasRoom
<1>3. Acquiring' /\ NoLostSrwWait'
  BY DEF SrwInv, KickLocks, WakeAll, Acquiring, NoLostSrwWait, EntryOf, HasRoom, Entry, Free,
     SrwTypeOK
<1>4. CountsKept'
  BY KickCounted
<1>5. QED
  BY <1>1, <1>2, <1>3, <1>4 DEF SrwInv, CountsKept

LEMMA StutterStep ==
    ASSUME SrwInv, UNCHANGED srwVars
    PROVE  SrwInv'
<1>1. SrwTypeOK' /\ LookedUp' /\ Acquiring' /\ NoLostSrwWait'
  BY DEF srwVars, SrwInv, SrwTypeOK, LookedUp, Placed, HasRoom, Acquiring, NoLostSrwWait, EntryOf,
     SharedPasses, ExclPasses
<1>2. ASSUME NEW e \in Entry
      PROVE  SharedHolds(e)' = SharedHolds(e) /\ \A t \in Tid : ExclHolds(t, e)' = ExclHolds(t, e)
  BY DEF srwVars, SharedHolds, ExclHolds, EntryOf, HasRoom
<1>3. ASSUME NEW e \in Entry
      PROVE  Counted(e)' /\ (~kicked' => Exact(e)')
  <2>1. Counted(e) /\ (~kicked => Exact(e)) /\ srw[e].writer \in Tid \cup {Nobody}
    BY DEF SrwInv, SrwTypeOK, Entry
  <2>2. srw' = srw /\ kicked' = kicked
    BY DEF srwVars
  <2>3. QED
    BY <1>2, <2>1, <2>2 DEF Counted, Exact
<1>4. QED
  BY <1>1, <1>3 DEF SrwInv

LEMMA SrwStep ==
    ASSUME SrwInv, [SrwNext]_srwVars
    PROVE  SrwInv'
<1>1. ASSUME NEW t \in Tid, NEW p \in Ptr,
             \/ AcquireShared(t, p) \/ AcquireExclusive(t, p)
             \/ TryShared(t, p) \/ TryExclusive(t, p)
      PROVE  SrwInv'
  BY <1>1, AcquireStep
<1>2. ASSUME NEW t \in Tid, NEW p \in Ptr, ReleaseShared(t, p) \/ ReleaseExclusive(t, p)
      PROVE  SrwInv'
  BY <1>2, ReleaseStep
<1>3. ASSUME NEW t \in Tid, SharedTurn(t) \/ ExclTurn(t) \/ ExclPoll(t)
      PROVE  SrwInv'
  BY <1>3, TurnStep
<1>4. CASE KickLocks
  BY <1>4, KickStep
<1>5. CASE UNCHANGED srwVars
  BY <1>5, StutterStep
<1>6. QED
  BY <1>1, <1>2, <1>3, <1>4, <1>5 DEF SrwNext

LEMMA SrwStart ==
    ASSUME SrwInit
    PROVE  SrwInv
<1>1. SrwTypeOK
  BY DEF SrwInit, Free, SrwTypeOK
<1>2. LookedUp /\ Acquiring /\ NoLostSrwWait
  BY DEF SrwInit, LookedUp, Acquiring, NoLostSrwWait
<1>3. ASSUME NEW e \in Entry PROVE Counted(e) /\ Exact(e)
  <2>1. SharedHolds(e) = {} /\ \A t \in Tid : ExclHolds(t, e) = {}
    BY DEF SrwInit, SharedHolds, ExclHolds
  <2>2. srw[e] = Free
    BY DEF SrwInit, Entry
  <2>3. QED
    BY <2>1, <2>2, FS_EmptySet DEF Counted, Exact, Free
<1>4. QED
  BY <1>1, <1>2, <1>3 DEF SrwInv

-----------------------------------------------------------------------------
(* What the invariant says.                                                  *)

\* A hold is there to be seen by its thread and its entry.
LEMMA HoldSeen ==
    ASSUME SrwTypeOK, NEW t \in Tid, NEW p \in Ptr
    PROVE  /\ held[t][p].sh > 0 => \E h \in SharedHolds(EntryOf(p)) : h[1] = t
           /\ held[t][p].ex > 0 => ExclHolds(t, EntryOf(p)) # {}
<1>1. held[t][p].sh \in Nat /\ held[t][p].ex \in Nat
  BY DEF SrwTypeOK
<1>2. held[t][p].sh > 0 => <<t, p, 1>> \in SharedHolds(EntryOf(p))
  BY <1>1 DEF SharedHolds
<1>3. held[t][p].ex > 0 => <<p, 1>> \in ExclHolds(t, EntryOf(p))
  BY <1>1 DEF ExclHolds
<1>4. QED
  BY <1>2, <1>3

LEMMA HoldSource ==
    ASSUME SrwTypeOK, NEW e \in Entry
    PROVE  /\ \A h \in SharedHolds(e) : h[1] \in Tid /\ Holds(h[1], e, "sh")
           /\ \A t \in Tid : ExclHolds(t, e) # {} => Holds(t, e, "ex")
BY DEF SharedHolds, ExclHolds, Holds, SrwTypeOK

LEMMA CountedHolds ==
    ASSUME SrwInv, NEW e \in Entry
    PROVE  /\ srw[e].readers > 0 => SharedHolds(e) # {}
           /\ srw[e].writer # Nobody => ExclHolds(srw[e].writer, e) # {}
           /\ ~kicked /\ SharedHolds(e) # {} => srw[e].readers > 0
<1>1. Counted(e) /\ (~kicked => Exact(e)) /\ srw[e].writer \in Tid \cup {Nobody}
      /\ srw[e].readers \in Nat /\ srw[e].rec \in Nat
  BY DEF SrwInv, SrwTypeOK, Entry
<1>2. Cardinality(SharedHolds(e)) \in Nat /\ (Cardinality(SharedHolds(e)) = 0 <=> SharedHolds(e) = {})
  BY <1>1, FS_CardinalityType, FS_EmptySet DEF Counted
<1>3. srw[e].writer # Nobody => Cardinality(ExclHolds(srw[e].writer, e)) # 0
  BY <1>1 DEF Counted
<1>4. QED
  BY <1>1, <1>2, <1>3, FS_EmptySet DEF Counted, Exact

LEMMA InvSafe == SrwInv => SrwSafe
<1> SUFFICES ASSUME SrwInv PROVE SrwSafe
  OBVIOUS
<1>1. SrwTypeOK /\ NoLostSrwWait
  BY DEF SrwInv
<1>2. ReadersOrWriter
  <2> SUFFICES ASSUME ~kicked, NEW p \in Ptr, NEW t \in Tid, NEW u \in Tid, t # u, held[t][p].ex > 0
               PROVE  held[u][p].ex = 0 /\ held[u][p].sh = 0
    BY DEF ReadersOrWriter
  <2>1. Exact(EntryOf(p)) /\ EntryOf(p) \in Entry
    BY EntryType DEF SrwInv
  <2>2. srw[EntryOf(p)].writer = t
    BY <1>1, <2>1, HoldSeen DEF Exact
  <2>3. held[u][p].ex \in Nat /\ held[u][p].sh \in Nat
    BY <1>1 DEF SrwTypeOK
  <2>4. ~(held[u][p].ex > 0)
    BY <1>1, <2>1, <2>2, HoldSeen DEF Exact
  <2>5. ~(held[u][p].sh > 0)
    BY <1>1, <2>1, <2>2, HoldSeen DEF Exact
  <2>6. QED
    BY <2>3, <2>4, <2>5
<1>3. NothingLeaks
  <2> SUFFICES ASSUME NEW e \in Entry
               PROVE  LET writers == {t \in Tid : Holds(t, e, "ex")}
                          readers == {t \in Tid : Holds(t, e, "sh")}
                      IN /\ srw[e].writer \in writers \cup {Nobody}
                         /\ srw[e].readers > 0 => readers # {}
                         /\ ~kicked => /\ writers \subseteq {srw[e].writer}
                                       /\ readers # {} => srw[e].readers > 0
    BY DEF NothingLeaks, Entry
  <2>1. srw[e].writer \in Tid \cup {Nobody}
    BY <1>1 DEF SrwTypeOK, Entry
  <2>2. srw[e].writer # Nobody => Holds(srw[e].writer, e, "ex")
    BY <1>1, <2>1, CountedHolds, HoldSource
  <2>3. srw[e].readers > 0 => \E t \in Tid : Holds(t, e, "sh")
    BY <1>1, CountedHolds, HoldSource
  <2>4. ASSUME ~kicked, NEW t \in Tid, Holds(t, e, "ex") PROVE srw[e].writer = t
    <3>1. PICK q \in Ptr : EntryOf(q) = e /\ held[t][q].ex > 0
      BY <2>4 DEF Holds
    <3>2. Exact(e)
      BY <2>4 DEF SrwInv
    <3>3. QED
      BY <1>1, <3>1, <3>2, HoldSeen DEF Exact
  <2>5. ASSUME ~kicked, NEW t \in Tid, Holds(t, e, "sh") PROVE srw[e].readers > 0
    <3>1. PICK q \in Ptr : EntryOf(q) = e /\ held[t][q].sh > 0
      BY <2>5 DEF Holds
    <3>2. QED
      BY <1>1, <2>5, <3>1, HoldSeen, CountedHolds
  <2>6. QED
    BY <2>1, <2>2, <2>3, <2>4, <2>5
<1>4. WaitsForAnother
  <2> SUFFICES ASSUME NEW t \in srwParked, acq[t].p \in table, ~kicked
               PROVE  \E u \in Tid \ {t} :
                        \/ Holds(u, acq[t].p, "ex")
                        \/ acq[t].op = "excl" /\ Holds(u, acq[t].p, "sh")
    BY DEF WaitsForAnother
  <2> DEFINE p == acq[t].p
  <2>1. /\ t \in Tid /\ p \in Ptr /\ EntryOf(p) = p /\ p \in Entry
        /\ acq[t].op \in {"shared", "excl"}
    BY <1>1 DEF SrwInv, Acquiring, SrwTypeOK, EntryOf, Entry
  <2>2. srw[p].writer \in Tid \cup {Nobody} /\ srw[p].readers \in Nat
    BY <1>1, <2>1 DEF SrwTypeOK, Entry
  <2>3. srw[p].writer # Nobody => Holds(srw[p].writer, p, "ex")
    BY <1>1, <2>1, <2>2, CountedHolds, HoldSource
  <2>4. CASE acq[t].op = "shared"
    <3>1. srw[p].writer \notin {Nobody, t}
      BY <1>1, <2>1, <2>4 DEF NoLostSrwWait, SharedPasses
    <3>2. QED
      BY <2>2, <2>3, <3>1
  <2>5. CASE acq[t].op = "excl"
    <3>1. held[t][p].sh = 0 /\ srw[p].writer # t /\ ~ExclPasses(p, t)
      BY <1>1, <2>1, <2>5 DEF SrwInv, Acquiring, NoLostSrwWait
    <3>2. CASE srw[p].writer # Nobody
      BY <2>2, <2>3, <3>1, <3>2
    <3>3. CASE srw[p].writer = Nobody
      <4>1. srw[p].readers > 0
        BY <2>2, <3>1, <3>3 DEF ExclPasses
      <4>2. PICK h \in SharedHolds(p) : TRUE
        BY <2>1, <4>1, CountedHolds
      <4>3. h[1] \in Tid /\ Holds(h[1], p, "sh")
        BY <1>1, <2>1, HoldSource
      <4>4. ~Holds(t, p, "sh")
        BY <1>1, <2>1, <3>1, OwnEntry DEF Holds
      <4>5. QED
        BY <2>5, <4>3, <4>4
    <3>4. QED
      BY <3>2, <3>3
  <2>6. QED
    BY <2>1, <2>4, <2>5
<1>5. QED
  BY <1>1, <1>2, <1>3, <1>4 DEF SrwSafe

-----------------------------------------------------------------------------
\* The SRW locks (wg_srw_for .. wg_srw_kick) keep out whom they should, leave nobody
\* waiting for a lock that could be had or for nobody, and leak no entry: whatever
\* the threads and locks, wherever the table ends, and until the breaker runs.
THEOREM SrwLocksAreSafe == SrwSpec => []SrwSafe
<1>1. SrwInit => SrwInv
  BY SrwStart
<1>2. SrwInv /\ [SrwNext]_srwVars => SrwInv'
  BY SrwStep
<1>3. QED
  BY <1>1, <1>2, InvSafe, PTL DEF SrwSpec
=============================================================================
