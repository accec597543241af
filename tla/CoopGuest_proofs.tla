-------------------------- MODULE CoopGuest_proofs --------------------------
(* Theorems about the cooperative scheduler and its handlers, for any number  *)
(* of threads, events, condition variables, cells and programs.               *)
(*                                                                            *)
(* CoopInv types the tables; its point is SchedOK, which ties `current' to    *)
(* the thread marked RUNNING and a slot to its handle, and QueuesOK, which    *)
(* keeps the indices of the rings in range.  The rings are the mailboxes of   *)
(* Mailbox from it alone.  ClockInv is about the clocks of the waits; ParkInv *)
(* is about parked threads: the wait_handle a thread is parked on is the one  *)
(* its call names, and whatever would end the wait is not there.              *)
EXTENDS CoopGuest, FiniteSetTheorems, SequenceTheorems, NaturalsInduction,
        WellFoundedInduction, TLAPS

\* A set of natural numbers that has elements has a least one.
LEMMA LeastOf ==
    ASSUME NEW S, S # {}, S \subseteq Nat
    PROVE  Min(S) \in S /\ \A y \in S : Min(S) <= y
<1> DEFINE Less == {ss \in Nat \X Nat : ss[1] < ss[2]}
<1>1. OpToRel(<, Nat) = Less
  BY Zenon DEF OpToRel
<1>2. IsWellFoundedOn(Less, Nat)
  BY <1>1, NatLessThanWellFounded, Zenon
<1>3. PICK i \in S : \A j \in S : ~(<<j, i>> \in Less)
  <2> HIDE DEF Less
  <2> QED
    BY <1>2, WFMin
<1>4. \A j \in S : i <= j
  <2> TAKE j \in S
  <2> SUFFICES ASSUME j < i PROVE FALSE
    OBVIOUS
  <2> <<j, i>> \in Less
    OBVIOUS
  <2> QED
    BY <1>3
<1>5. QED
  BY <1>4 DEF Min

-----------------------------------------------------------------------------
(* The rings.                                                                *)

\* The remainder by Cap of a number within Cap of the cells.
LEMMA Wrap ==
    ASSUME NEW x \in Int
    PROVE  /\ 0 <= x /\ x < Cap => x % Cap = x
           /\ Cap <= x /\ x < 2 * Cap => x % Cap = x - Cap
           /\ -Cap <= x /\ x < 0 => x % Cap = x + Cap
BY CapAssumption DEF CapAssumption

\* What a ring is: its cells hold entries, its ends are cells.
Rings(E) == [cell : [Cell -> E], head : Cell, tail : Cell]

LEMMA RingPlaces ==
    ASSUME NEW E, NEW r \in Rings(E)
    PROVE  /\ Used(r) = IF r.head <= r.tail THEN r.tail - r.head ELSE r.tail - r.head + Cap
           /\ Used(r) \in 0 .. Cap - 1
           /\ \A k \in 1 .. Cap : (r.head + k - 1) % Cap =
                IF r.head + k - 1 < Cap THEN r.head + k - 1 ELSE r.head + k - 1 - Cap
           /\ \A i \in Cell : /\ After(i) = IF i = Cap - 1 THEN 0 ELSE i + 1
                              /\ (i - 1) % Cap = IF i = 0 THEN Cap - 1 ELSE i - 1
                              /\ (i - r.head) % Cap = IF r.head <= i THEN i - r.head
                                                      ELSE i - r.head + Cap
           /\ RingFull(r) <=> Used(r) = Cap - 1
<1>0. r.head \in Cell /\ r.tail \in Cell /\ Cap \in Nat \ {0}
  BY CapAssumption DEF CapAssumption, Rings
<1>1. Used(r) = IF r.head <= r.tail THEN r.tail - r.head ELSE r.tail - r.head + Cap
  BY <1>0, Wrap DEF Used, Cell
<1>2. \A k \in 1 .. Cap : (r.head + k - 1) % Cap =
                IF r.head + k - 1 < Cap THEN r.head + k - 1 ELSE r.head + k - 1 - Cap
  BY <1>0, Wrap DEF Cell
<1>3. \A i \in Cell : /\ After(i) = IF i = Cap - 1 THEN 0 ELSE i + 1
                      /\ (i - 1) % Cap = IF i = 0 THEN Cap - 1 ELSE i - 1
                      /\ (i - r.head) % Cap = IF r.head <= i THEN i - r.head
                                                      ELSE i - r.head + Cap
  BY <1>0, Wrap DEF Cell, After
<1>4. RingFull(r) <=> Used(r) = Cap - 1
  <2>1. After(r.tail) = IF r.tail = Cap - 1 THEN 0 ELSE r.tail + 1
    BY <1>0, <1>3
  <2>2. QED
    BY <1>0, <1>1, <2>1 DEF RingFull, Cell
<1>5. Used(r) \in 0 .. Cap - 1
  BY <1>0, <1>1 DEF Cell
<1>6. QED
  BY <1>1, <1>2, <1>3, <1>4, <1>5

\* The contents, entry by entry.
LEMMA ContentsAre ==
    ASSUME NEW E, NEW r \in Rings(E)
    PROVE  /\ Contents(r) \in Seq(E) /\ Len(Contents(r)) = Used(r)
           /\ DOMAIN Contents(r) = 1 .. Used(r)
           /\ \A k \in 1 .. Used(r) : Contents(r)[k] = r.cell[
                IF r.head + k - 1 < Cap THEN r.head + k - 1 ELSE r.head + k - 1 - Cap]
<1>1. Used(r) \in Nat /\ Used(r) < Cap /\ Cap \in Nat
  BY RingPlaces, CapAssumption DEF CapAssumption
<1>2. \A k \in 1 .. Used(r) : (r.head + k - 1) % Cap =
                IF r.head + k - 1 < Cap THEN r.head + k - 1 ELSE r.head + k - 1 - Cap
  BY <1>1, RingPlaces
<1>3. \A k \in 1 .. Used(r) : r.cell[(r.head + k - 1) % Cap] \in E
  BY <1>1, <1>2 DEF Rings, Cell
<1>4. QED
  BY <1>1, <1>2, <1>3 DEF Contents

\* An entry that is accepted is the last one.
LEMMA PushAppends ==
    ASSUME NEW E, NEW r \in Rings(E), NEW e \in E
    PROVE  /\ Push(r, e) \in Rings(E)
           /\ RingFull(r) => Push(r, e) = r
           /\ ~RingFull(r) => /\ Contents(Push(r, e)) = Append(Contents(r), e)
                              /\ Used(r) < Cap - 1
                              /\ Used(Push(r, e)) = Used(r) + 1
<1>1. CASE RingFull(r)
  BY <1>1 DEF Push
<1>2. CASE ~RingFull(r)
  <2> DEFINE p == Push(r, e)
  <2>1. r.head \in Cell /\ r.tail \in Cell /\ r.cell \in [Cell -> E] /\ Cap \in Nat \ {0}
    BY CapAssumption DEF CapAssumption, Rings
  <2>2. After(r.tail) = IF r.tail = Cap - 1 THEN 0 ELSE r.tail + 1
    BY <2>1, RingPlaces
  <2>3. After(r.tail) \in Cell
    BY <2>1, <2>2 DEF Cell
  <2>4. /\ p \in Rings(E)
        /\ p.head = r.head /\ p.tail = After(r.tail)
        /\ \A i \in Cell : p.cell[i] = IF i = r.tail THEN e ELSE r.cell[i]
    BY <1>2, <2>1, <2>3 DEF Push, Rings
  <2> HIDE DEF p
  <2>5. /\ Used(r) = IF r.head <= r.tail THEN r.tail - r.head ELSE r.tail - r.head + Cap
        /\ Used(r) \in 0 .. Cap - 1 /\ Used(r) # Cap - 1
    BY <1>2, RingPlaces
  <2>6. Used(p) = IF r.head <= p.tail THEN p.tail - r.head ELSE p.tail - r.head + Cap
    BY <2>4, RingPlaces
  <2>7. Used(p) = Used(r) + 1
    BY <2>1, <2>2, <2>4, <2>5, <2>6 DEF Cell
  <2>8. /\ Contents(p) \in Seq(E) /\ Len(Contents(p)) = Used(r) + 1
        /\ \A k \in 1 .. Used(r) + 1 : Contents(p)[k] = p.cell[
                IF r.head + k - 1 < Cap THEN r.head + k - 1 ELSE r.head + k - 1 - Cap]
    BY <2>4, <2>7, ContentsAre
  <2>9. /\ Contents(r) \in Seq(E) /\ Len(Contents(r)) = Used(r)
        /\ \A k \in 1 .. Used(r) : Contents(r)[k] = r.cell[
                IF r.head + k - 1 < Cap THEN r.head + k - 1 ELSE r.head + k - 1 - Cap]
    BY ContentsAre
  <2>10. \A k \in 1 .. Used(r) + 1 :
           Contents(p)[k] = IF k = Used(r) + 1 THEN e ELSE Contents(r)[k]
    <3> SUFFICES ASSUME NEW k \in 1 .. Used(r) + 1
                 PROVE  Contents(p)[k] = IF k = Used(r) + 1 THEN e ELSE Contents(r)[k]
      OBVIOUS
    <3> DEFINE at == IF r.head + k - 1 < Cap THEN r.head + k - 1 ELSE r.head + k - 1 - Cap
    <3>1. at \in Cell /\ (at = r.tail <=> k = Used(r) + 1)
      <4> DEFINE h == r.head
                 t == r.tail
                 n == Used(r)
      <4>1. /\ h \in Int /\ t \in Int /\ n \in Int /\ k \in Int /\ Cap \in Int
            /\ 0 <= h /\ h < Cap /\ 0 <= t /\ t < Cap /\ 1 <= k /\ k <= n + 1
            /\ n = IF h <= t THEN t - h ELSE t - h + Cap
            /\ n < Cap - 1 /\ 0 <= n
        BY <2>1, <2>5 DEF Cell
      <4>2. at = IF h + k - 1 < Cap THEN h + k - 1 ELSE h + k - 1 - Cap
        OBVIOUS
      <4> HIDE DEF h, t, n, at
      <4>3. /\ at \in Int /\ 0 <= at /\ at < Cap
            /\ at = t <=> k = n + 1
        BY <4>1, <4>2
      <4>4. QED
        BY <4>1, <4>3 DEF h, t, n, at, Cell
    <3>2. Contents(p)[k] = p.cell[at]
      BY <2>8
    <3>3. k # Used(r) + 1 => Contents(r)[k] = r.cell[at]
      BY <2>5, <2>9
    <3> HIDE DEF at
    <3>4. QED
      BY <2>4, <3>1, <3>2, <3>3
  <2>11. Contents(p) = Append(Contents(r), e)
    <3> DEFINE c == Contents(r)
               d == Contents(p)
               n == Used(r)
    <3>1. /\ c \in Seq(E) /\ d \in Seq(E) /\ n \in Nat /\ Len(c) = n /\ Len(d) = n + 1
          /\ \A k \in 1 .. n + 1 : d[k] = IF k = n + 1 THEN e ELSE c[k]
      BY <2>5, <2>8, <2>9, <2>10
    <3> HIDE DEF c, d, n
    <3>2. d = Append(c, e)
      BY <3>1
    <3>3. QED
      BY <3>2 DEF c, d
  <2>12. Used(r) < Cap - 1
    BY <2>1, <2>5
  <2>13. QED
    BY <1>2, <2>4, <2>7, <2>11, <2>12, Zenon DEF p
<1>3. QED
  BY <1>1, <1>2

\* A sequence without its k-th entry.
LEMMA WithoutEntry ==
    ASSUME NEW E, NEW c \in Seq(E), NEW d \in Seq(E), NEW k \in 1 .. Len(c),
           Len(d) = Len(c) - 1,
           \A j \in 1 .. Len(d) : d[j] = IF j < k THEN c[j] ELSE c[j + 1]
    PROVE  d = SubSeq(c, 1, k - 1) \o SubSeq(c, k + 1, Len(c))
<1> DEFINE a == SubSeq(c, 1, k - 1)
           b == SubSeq(c, k + 1, Len(c))
<1>1. /\ a \in Seq(E) /\ Len(a) = k - 1
      /\ \A j \in 1 .. k - 1 : a[j] = c[j]
  OBVIOUS
<1>2. /\ b \in Seq(E) /\ Len(b) = Len(c) - k
      /\ \A j \in 1 .. Len(c) - k : b[j] = c[k + j]
  OBVIOUS
<1> HIDE DEF a, b
<1> DEFINE u == a \o b
<1>3. /\ u \in Seq(E) /\ Len(u) = Len(a) + Len(b)
      /\ \A j \in 1 .. Len(a) + Len(b) : u[j] = IF j <= Len(a) THEN a[j] ELSE b[j - Len(a)]
  BY <1>1, <1>2, ConcatProperties
<1> HIDE DEF u
<1>4. ASSUME NEW j \in 1 .. Len(d) PROVE d[j] = u[j]
  <2>1. CASE j < k
    BY <1>1, <1>2, <1>3, <2>1
  <2>2. CASE ~(j < k)
    <3>1. j - Len(a) \in 1 .. Len(c) - k /\ ~(j <= Len(a)) /\ k + (j - Len(a)) = j + 1
      BY <1>1, <2>2
    <3>2. u[j] = b[j - Len(a)]
      BY <1>1, <1>2, <1>3, <3>1
    <3>3. b[j - Len(a)] = c[j + 1]
      BY <1>2, <3>1
    <3>4. QED
      BY <2>2, <3>2, <3>3
  <2>3. QED
    BY <2>1, <2>2
<1>5. d = u
  <2>1. Len(d) = Len(u)
    BY <1>1, <1>2, <1>3
  <2>2. QED
    BY <1>3, <1>4, <2>1, SeqEqual, Zenon
<1>6. QED
  BY <1>5 DEF a, b, u

\* The oldest entry for somebody who has one.
LEMMA OldestPlace ==
    ASSUME NEW E, NEW r \in Rings(E), NEW t, HasFor(r, t)
    PROVE  /\ Min(For(r, t)) \in 1 .. Used(r)
           /\ Contents(r)[Min(For(r, t))].to = t
           /\ \A j \in For(r, t) : Min(For(r, t)) <= j
<1>1. For(r, t) # {} /\ For(r, t) \subseteq Nat
  BY DEF HasFor, For
<1>2. Min(For(r, t)) \in For(r, t) /\ \A j \in For(r, t) : Min(For(r, t)) <= j
  BY <1>1, LeastOf
<1>3. QED
  BY <1>2 DEF For

\* The entries behind the one taken close up, in their order.
LEMMA PopForRemoves ==
    ASSUME NEW E, NEW r \in Rings(E), NEW t, HasFor(r, t)
    PROVE  /\ PopFor(r, t) \in Rings(E)
           /\ Contents(PopFor(r, t)) =
                SubSeq(Contents(r), 1, Min(For(r, t)) - 1) \o
                SubSeq(Contents(r), Min(For(r, t)) + 1, Len(Contents(r)))
<1> DEFINE p == PopFor(r, t)
           k == Min(For(r, t))
           Moves(i) == ((i - r.head) % Cap) + 1 \in k .. Used(r) - 1
<1>1. k \in 1 .. Used(r)
  BY OldestPlace
<1>2. r.head \in Cell /\ r.tail \in Cell /\ r.cell \in [Cell -> E] /\ Cap \in Nat \ {0}
  BY CapAssumption DEF CapAssumption, Rings
<1>3. /\ p = [r EXCEPT !.cell = [i \in Cell |-> IF Moves(i) THEN r.cell[After(i)]
                                                            ELSE r.cell[i]],
                       !.tail = (r.tail - 1) % Cap]
  BY DEF PopFor
<1>4. (r.tail - 1) % Cap = IF r.tail = 0 THEN Cap - 1 ELSE r.tail - 1
  BY <1>2, RingPlaces
<1>5. (r.tail - 1) % Cap \in Cell /\ \A i \in Cell : After(i) \in Cell
  <2>1. (IF r.tail = 0 THEN Cap - 1 ELSE r.tail - 1) \in Cell
    <3>1. r.tail \in Int /\ 0 <= r.tail /\ r.tail < Cap /\ Cap \in Int
      BY <1>2 DEF Cell
    <3>2. QED
      BY <3>1 DEF Cell
  <2>2. ASSUME NEW i \in Cell PROVE After(i) \in Cell
    <3>1. After(i) = IF i = Cap - 1 THEN 0 ELSE i + 1
      BY RingPlaces
    <3>2. QED
      BY <1>2, <3>1 DEF Cell
  <2>3. QED
    BY <1>4, <2>1, <2>2
<1> HIDE DEF p, k
<1>6. /\ p \in Rings(E) /\ p.head = r.head
      /\ p.tail = IF r.tail = 0 THEN Cap - 1 ELSE r.tail - 1
      /\ \A i \in Cell : p.cell[i] = IF Moves(i) THEN r.cell[After(i)] ELSE r.cell[i]
  BY <1>2, <1>3, <1>4, <1>5 DEF Rings
<1> HIDE DEF Moves
<1>7. /\ Used(r) = IF r.head <= r.tail THEN r.tail - r.head ELSE r.tail - r.head + Cap
      /\ Used(r) \in 0 .. Cap - 1
  BY RingPlaces
<1>8. Used(p) = IF r.head <= p.tail THEN p.tail - r.head ELSE p.tail - r.head + Cap
  BY <1>6, RingPlaces
<1>9. Used(p) = Used(r) - 1
  BY <1>1, <1>2, <1>6, <1>7, <1>8 DEF Cell
<1>10. /\ Contents(p) \in Seq(E) /\ Len(Contents(p)) = Used(r) - 1
       /\ \A j \in 1 .. Used(r) - 1 : Contents(p)[j] = p.cell[
             IF r.head + j - 1 < Cap THEN r.head + j - 1 ELSE r.head + j - 1 - Cap]
  BY <1>6, <1>9, ContentsAre
<1>11. /\ Contents(r) \in Seq(E) /\ Len(Contents(r)) = Used(r)
       /\ \A j \in 1 .. Used(r) : Contents(r)[j] = r.cell[
             IF r.head + j - 1 < Cap THEN r.head + j - 1 ELSE r.head + j - 1 - Cap]
  BY ContentsAre
<1>12. ASSUME NEW j \in 1 .. Used(r) - 1
       PROVE  Contents(p)[j] = IF j < k THEN Contents(r)[j] ELSE Contents(r)[j + 1]
  <2> DEFINE h == r.head
             n == Used(r)
             at == IF h + j - 1 < Cap THEN h + j - 1 ELSE h + j - 1 - Cap
             on == IF h + j < Cap THEN h + j ELSE h + j - Cap
  <2>1. /\ h \in Int /\ n \in Int /\ j \in Int /\ Cap \in Int
        /\ 0 <= h /\ h < Cap /\ 1 <= j /\ j < n /\ n < Cap
    BY <1>2, <1>7 DEF Cell
  <2>2. Contents(p)[j] = p.cell[at] /\ Contents(r)[j] = r.cell[at]
    BY <1>7, <1>10, <1>11
  <2>3. Contents(r)[j + 1] = r.cell[IF h + (j + 1) - 1 < Cap THEN h + (j + 1) - 1
                                                          ELSE h + (j + 1) - 1 - Cap]
    BY <1>7, <1>11
  <2>4. Contents(r)[j + 1] = r.cell[on]
    BY <2>1, <2>3
  <2> HIDE DEF n
  <2>5. at \in Cell /\ on = (IF at = Cap - 1 THEN 0 ELSE at + 1)
        /\ (IF h <= at THEN at - h ELSE at - h + Cap) = j - 1
    BY <2>1 DEF Cell
  <2> HIDE DEF at, on
  <2>6. After(at) = on
    BY <2>5, RingPlaces
  <2>7. (at - h) % Cap = j - 1
    BY <2>5, RingPlaces
  <2>8. Moves(at) <=> j \in k .. n - 1
    BY <2>1, <2>7 DEF Moves, n
  <2>9. Moves(at) <=> ~(j < k)
    BY <1>1, <1>7, <2>1, <2>8 DEF n
  <2>10. QED
    BY <1>6, <2>2, <2>4, <2>5, <2>6, <2>9
<1>13. /\ Len(Contents(p)) = Len(Contents(r)) - 1 /\ k \in 1 .. Len(Contents(r))
       /\ \A j \in 1 .. Len(Contents(p)) :
            Contents(p)[j] = IF j < k THEN Contents(r)[j] ELSE Contents(r)[j + 1]
  BY <1>1, <1>10, <1>11, <1>12
<1>14. Contents(p) = SubSeq(Contents(r), 1, k - 1) \o
                     SubSeq(Contents(r), k + 1, Len(Contents(r)))
  BY <1>10, <1>11, <1>13, WithoutEntry
<1>15. QED
  BY <1>6, <1>14 DEF p, k

\* So does the oldest entry of all.
LEMMA DropHeadRemoves ==
    ASSUME NEW E, NEW r \in Rings(E), Used(r) > 0
    PROVE  /\ DropHead(r) \in Rings(E) /\ Used(DropHead(r)) = Used(r) - 1
           /\ \A j \in 1 .. Used(r) - 1 : Contents(DropHead(r))[j] = Contents(r)[j + 1]
           /\ Contents(DropHead(r)) = SubSeq(Contents(r), 1, 1 - 1) \o
                                      SubSeq(Contents(r), 1 + 1, Len(Contents(r)))
<1> DEFINE p == DropHead(r)
<1>1. r.head \in Cell /\ r.tail \in Cell /\ r.cell \in [Cell -> E] /\ Cap \in Nat \ {0}
  BY CapAssumption DEF CapAssumption, Rings
<1>2. After(r.head) = (IF r.head = Cap - 1 THEN 0 ELSE r.head + 1) /\ After(r.head) \in Cell
  <2>1. After(r.head) = IF r.head = Cap - 1 THEN 0 ELSE r.head + 1
    BY <1>1, RingPlaces
  <2>2. QED
    BY <1>1, <2>1 DEF Cell
<1>3. /\ p \in Rings(E) /\ p.tail = r.tail /\ p.cell = r.cell
      /\ p.head = IF r.head = Cap - 1 THEN 0 ELSE r.head + 1
  BY <1>1, <1>2 DEF DropHead, Rings
<1> HIDE DEF p
<1>4. /\ Used(r) = IF r.head <= r.tail THEN r.tail - r.head ELSE r.tail - r.head + Cap
      /\ Used(r) \in 0 .. Cap - 1
      /\ Used(p) = IF p.head <= r.tail THEN r.tail - p.head ELSE r.tail - p.head + Cap
  BY <1>3, RingPlaces
<1>5. Used(p) = Used(r) - 1
  BY <1>1, <1>3, <1>4 DEF Cell
<1>6. /\ Contents(p) \in Seq(E) /\ Len(Contents(p)) = Used(r) - 1
      /\ \A j \in 1 .. Used(r) - 1 : Contents(p)[j] = r.cell[
            IF p.head + j - 1 < Cap THEN p.head + j - 1 ELSE p.head + j - 1 - Cap]
  BY <1>3, <1>5, ContentsAre
<1>7. /\ Contents(r) \in Seq(E) /\ Len(Contents(r)) = Used(r)
      /\ \A j \in 1 .. Used(r) : Contents(r)[j] = r.cell[
            IF r.head + j - 1 < Cap THEN r.head + j - 1 ELSE r.head + j - 1 - Cap]
  BY ContentsAre
<1>8. ASSUME NEW j \in 1 .. Used(r) - 1 PROVE Contents(p)[j] = Contents(r)[j + 1]
  <2>1. Contents(r)[j + 1] = r.cell[IF r.head + (j + 1) - 1 < Cap THEN r.head + (j + 1) - 1
                                                          ELSE r.head + (j + 1) - 1 - Cap]
    BY <1>4, <1>7
  <2>2. (IF r.head + (j + 1) - 1 < Cap THEN r.head + (j + 1) - 1
                                       ELSE r.head + (j + 1) - 1 - Cap)
          = IF p.head + j - 1 < Cap THEN p.head + j - 1 ELSE p.head + j - 1 - Cap
    <3> DEFINE h == r.head
               q == p.head
    <3>1. /\ h \in Int /\ 0 <= h /\ h < Cap /\ Cap \in Int /\ j \in Int /\ 1 <= j
          /\ j < Cap /\ q = IF h = Cap - 1 THEN 0 ELSE h + 1
      BY <1>1, <1>3, <1>4 DEF Cell
    <3> HIDE DEF h, q
    <3>2. (IF h + (j + 1) - 1 < Cap THEN h + (j + 1) - 1 ELSE h + (j + 1) - 1 - Cap)
            = IF q + j - 1 < Cap THEN q + j - 1 ELSE q + j - 1 - Cap
      BY <3>1
    <3>3. QED
      BY <3>2 DEF h, q
  <2>3. QED
    BY <1>6, <2>1, <2>2
<1>9. /\ Len(Contents(p)) = Len(Contents(r)) - 1 /\ 1 \in 1 .. Len(Contents(r))
      /\ \A j \in 1 .. Len(Contents(p)) :
           Contents(p)[j] = IF j < 1 THEN Contents(r)[j] ELSE Contents(r)[j + 1]
  BY <1>4, <1>6, <1>7, <1>8
<1>10. Contents(p) = SubSeq(Contents(r), 1, 1 - 1) \o
                     SubSeq(Contents(r), 1 + 1, Len(Contents(r)))
  BY <1>6, <1>7, <1>9, WithoutEntry
<1>11. QED
  BY <1>3, <1>5, <1>8, <1>10 DEF p

-----------------------------------------------------------------------------
(* The scheduler.                                                            *)

\* What a thread may wait for.
WaitTargets == Handles \cup {NoHandle, Port} \cup {AtCv(c) : c \in Cv}

Scheds == [state : [Slot -> ThreadState], current : Slot \cup {NoSlot},
           wait : [Slot -> WaitTargets], handle : [Slot -> Handles \cup {NoHandle}],
           next : 1 .. MaxThreads]

\* The thread marked RUNNING is the current one; slots are taken in their order
\* and for good, and the handle of a thread is its number.
SchedOK(s) ==
    /\ s \in Scheds
    /\ \A i \in Slot : s.state[i] = "RUNNING" <=> i = s.current
    /\ \A i \in Slot : s.state[i] = "FREE" <=> i >= s.next
    /\ \A i \in Slot : i < s.next => s.handle[i] = Thread(i)

\* From s to r nobody begins to wait, and nobody comes back from the dead.
Goes(s, r) ==
    /\ SchedOK(r) /\ s.next <= r.next
    /\ \A i \in Slot : /\ r.state[i] = "WAITING" => s.state[i] = "WAITING"
                                                    /\ r.wait[i] = s.wait[i]
                       /\ r.wait[i] \in {s.wait[i], NoHandle}
                       /\ s.state[i] = "EXITED" => r.state[i] = "EXITED"

LEMMA SlotFacts ==
    /\ MaxThreads \in Nat /\ 0 \in Slot /\ NoSlot \notin Slot
    /\ \A i \in Slot : i \in Int /\ 0 <= i /\ i < MaxThreads
BY MaxThreadsAssumption DEF MaxThreadsAssumption, Slot, NoSlot

\* Handles of different kinds differ, and so do those of different things.
LEMMA HandlesApart ==
    /\ \A i : IsEvent(Event(i)) /\ Event(i)[2] = i /\ ~IsEvent(Thread(i)) /\ Thread(i)[2] = i
    /\ \A h \in Handles : h # NoHandle /\ h # Port /\ \A c : h # AtCv(c)
    /\ Port # NoHandle /\ \A c : AtCv(c) # NoHandle /\ AtCv(c) # Port
BY DEF Event, Thread, IsEvent, Handles, NoHandle, Port, AtCv

\* The scan finds a READY thread when there is one.
LEMMA ScanFinds ==
    ASSUME NEW s \in Scheds, InState(s, "READY") # {}
    PROVE  Chosen(s) \in InState(s, "READY")
<1> DEFINE R == InState(s, "READY")
           D == {Distance(s, i) : i \in R}
<1>1. ASSUME NEW i \in R PROVE Distance(s, i) \in Nat
  <2>1. i - ScanStart(s) \in Int /\ MaxThreads \in Nat \ {0}
    BY SlotFacts, MaxThreadsAssumption DEF InState, ScanStart, Scheds, NoSlot, MaxThreadsAssumption
  <2>2. QED
    BY <2>1 DEF Distance
<1>2. D # {} /\ D \subseteq Nat
  BY <1>1
<1>3. Min(D) \in D /\ \A y \in D : Min(D) <= y
  BY <1>2, LeastOf
<1>4. PICK i \in R : \A j \in R : Distance(s, i) <= Distance(s, j)
  BY <1>3
<1>5. QED
  BY <1>4 DEF Chosen

LEMMA SwitchNextRuns ==
    ASSUME NEW s \in Scheds, InState(s, "READY") # {}
    PROVE  \E c \in Slot : LET r == SwitchNext(s) IN
             /\ s.state[c] = "READY" /\ r \in Scheds /\ r.current = c
             /\ r.wait = s.wait /\ r.handle = s.handle /\ r.next = s.next
             /\ \A i \in Slot : r.state[i] = IF i = c THEN "RUNNING" ELSE s.state[i]
<1> DEFINE c == Chosen(s)
           r == SwitchNext(s)
<1>1. c \in Slot /\ s.state[c] = "READY"
  BY ScanFinds DEF InState
<1>2. r = [s EXCEPT !.state[c] = "RUNNING", !.current = c]
  BY DEF SwitchNext
<1> HIDE DEF c, r
<1>3. /\ r \in Scheds /\ r.current = c
      /\ r.wait = s.wait /\ r.handle = s.handle /\ r.next = s.next
      /\ \A i \in Slot : r.state[i] = IF i = c THEN "RUNNING" ELSE s.state[i]
  BY <1>1, <1>2 DEF Scheds, ThreadState
<1>4. QED
  BY <1>1, <1>3 DEF r

LEMMA SaveCurrentIs ==
    ASSUME NEW s \in Scheds, s.current \in Slot, NEW st \in ThreadState
    PROVE  LET r == SaveCurrent(s, st) IN
             /\ r \in Scheds /\ r.current = s.current
             /\ r.wait = s.wait /\ r.handle = s.handle /\ r.next = s.next
             /\ \A i \in Slot : r.state[i] = IF i = s.current THEN st ELSE s.state[i]
<1> DEFINE r == SaveCurrent(s, st)
           c == s.current
<1>1. r = [s EXCEPT !.state[c] = st]
  BY SlotFacts DEF SaveCurrent
<1>2. c \in Slot
  OBVIOUS
<1> HIDE DEF r
<1>3. /\ r \in Scheds /\ r.current = s.current
      /\ r.wait = s.wait /\ r.handle = s.handle /\ r.next = s.next
      /\ \A i \in Slot : r.state[i] = IF i = c THEN st ELSE s.state[i]
  BY <1>1, <1>2 DEF Scheds
<1>4. QED
  BY <1>3 DEF r

\* A yield: the thread that runs is the one the scan chose, or the caller again.
LEMMA YieldRuns ==
    ASSUME NEW s, SchedOK(s), s.current \in Slot, NEW st \in {"READY", "WAITING"}
    PROVE  LET r == Yield(s, st) IN
             /\ SchedOK(r) /\ r.wait = s.wait /\ r.next = s.next /\ r.current \in Slot
             /\ \A i \in Slot : /\ r.state[i] = "WAITING" => \/ s.state[i] = "WAITING"
                                                             \/ i = s.current /\ st = "WAITING"
                                /\ s.state[i] = "EXITED" => r.state[i] = "EXITED"
             /\ ~YieldSwitches(s, st) => r.current = s.current
             /\ st = "READY" => YieldSwitches(s, st)
<1> DEFINE c == s.current
           v == SaveCurrent(s, st)
           w == SaveCurrent(s, "RUNNING")
           r == Yield(s, st)
<1>0. s \in Scheds /\ c \in Slot /\ st \in ThreadState /\ "RUNNING" \in ThreadState
  BY DEF SchedOK, ThreadState
<1>1. /\ v \in Scheds /\ v.current = s.current
      /\ v.wait = s.wait /\ v.handle = s.handle /\ v.next = s.next
      /\ \A i \in Slot : v.state[i] = IF i = c THEN st ELSE s.state[i]
  BY <1>0, SaveCurrentIs
<1>2. /\ w \in Scheds /\ w.current = s.current
      /\ w.wait = s.wait /\ w.handle = s.handle /\ w.next = s.next
      /\ \A i \in Slot : w.state[i] = IF i = c THEN "RUNNING" ELSE s.state[i]
  BY <1>0, SaveCurrentIs
<1>3. YieldSwitches(s, st) <=> InState(v, "READY") # {}
  BY DEF YieldSwitches
<1>4. r = IF InState(v, "READY") # {} THEN SwitchNext(v) ELSE w
  BY <1>3 DEF Yield
<1>5. st = "READY" => c \in InState(v, "READY")
  BY <1>0, <1>1 DEF InState
<1>6. /\ \A i \in Slot : s.state[i] = "RUNNING" <=> i = c
      /\ \A i \in Slot : s.state[i] = "FREE" <=> i >= s.next
      /\ \A i \in Slot : i < s.next => s.handle[i] = Thread(i)
  BY DEF SchedOK
<1> HIDE DEF c, v, w, r
<1>7. CASE InState(v, "READY") # {}
  <2>1. PICK d \in Slot :
             /\ v.state[d] = "READY" /\ r \in Scheds /\ r.current = d
             /\ r.wait = v.wait /\ r.handle = v.handle /\ r.next = v.next
             /\ \A i \in Slot : r.state[i] = IF i = d THEN "RUNNING" ELSE v.state[i]
    BY <1>1, <1>4, <1>7, SwitchNextRuns, Zenon
  <2>2. SchedOK(r)
    <3>1. \A i \in Slot : r.state[i] = "RUNNING" <=> i = r.current
      BY <1>1, <1>6, <2>1
    <3>2. \A i \in Slot : r.state[i] = "FREE" <=> i >= r.next
      BY <1>0, <1>1, <1>6, <2>1
    <3>3. \A i \in Slot : i < r.next => r.handle[i] = Thread(i)
      BY <1>1, <1>6, <2>1
    <3>4. QED
      BY <2>1, <3>1, <3>2, <3>3 DEF SchedOK
  <2>3. \A i \in Slot : /\ r.state[i] = "WAITING" => \/ s.state[i] = "WAITING"
                                                     \/ i = c /\ st = "WAITING"
                        /\ s.state[i] = "EXITED" => r.state[i] = "EXITED"
    BY <1>0, <1>1, <1>6, <2>1
  <2>4. r.wait = s.wait /\ r.next = s.next /\ r.current \in Slot
    BY <1>1, <2>1
  <2>5. QED
    BY <1>3, <1>5, <1>7, <2>2, <2>3, <2>4, Zenon DEF r, c
<1>8. CASE InState(v, "READY") = {}
  <2>1. r = w
    BY <1>4, <1>8
  <2>2. \A i \in Slot : w.state[i] = s.state[i]
    BY <1>2, <1>6
  <2>3. SchedOK(r)
    BY <1>2, <1>6, <2>1, <2>2 DEF SchedOK, c
  <2>4. \A i \in Slot : /\ r.state[i] = "WAITING" => s.state[i] = "WAITING"
                        /\ s.state[i] = "EXITED" => r.state[i] = "EXITED"
    BY <2>1, <2>2
  <2>5. r.wait = s.wait /\ r.next = s.next /\ r.current = s.current
    BY <1>2, <2>1
  <2>6. QED
    BY <1>0, <1>5, <1>8, <2>3, <2>4, <2>5, Zenon DEF r, c
<1>9. QED
  BY <1>7, <1>8

LEMMA WakeGoes ==
    ASSUME NEW s, SchedOK(s), NEW h
    PROVE  LET r == Wake(s, h) IN
             /\ Goes(s, r) /\ r.current = s.current /\ r.handle = s.handle
             /\ \A i \in Slot : r.state[i] = "WAITING" => r.wait[i] # h
<1> DEFINE Woken(i) == s.state[i] = "WAITING" /\ s.wait[i] = h
           r == Wake(s, h)
<1>1. /\ s \in Scheds
      /\ \A i \in Slot : s.state[i] = "RUNNING" <=> i = s.current
      /\ \A i \in Slot : s.state[i] = "FREE" <=> i >= s.next
      /\ \A i \in Slot : i < s.next => s.handle[i] = Thread(i)
  BY DEF SchedOK
<1>2. r = [s EXCEPT !.state = [i \in Slot |-> IF Woken(i) THEN "READY" ELSE s.state[i]],
                    !.wait = [i \in Slot |-> IF Woken(i) THEN NoHandle ELSE s.wait[i]]]
  BY DEF Wake
<1>3. /\ [i \in Slot |-> IF Woken(i) THEN "READY" ELSE s.state[i]] \in [Slot -> ThreadState]
      /\ [i \in Slot |-> IF Woken(i) THEN NoHandle ELSE s.wait[i]] \in [Slot -> WaitTargets]
  BY <1>1 DEF Scheds, ThreadState, WaitTargets
<1> HIDE DEF r
<1>4. /\ r \in Scheds /\ r.current = s.current /\ r.handle = s.handle /\ r.next = s.next
      /\ \A i \in Slot : r.state[i] = IF Woken(i) THEN "READY" ELSE s.state[i]
      /\ \A i \in Slot : r.wait[i] = IF Woken(i) THEN NoHandle ELSE s.wait[i]
  BY <1>1, <1>2, <1>3 DEF Scheds
<1>5. SchedOK(r)
  BY <1>1, <1>4 DEF SchedOK
<1>6. \A i \in Slot : r.state[i] = "WAITING" => r.wait[i] # h
  BY <1>4
<1>7. \A i \in Slot : /\ r.state[i] = "WAITING" => s.state[i] = "WAITING"
                                                   /\ r.wait[i] = s.wait[i]
                      /\ r.wait[i] \in {s.wait[i], NoHandle}
                      /\ s.state[i] = "EXITED" => r.state[i] = "EXITED"
  BY <1>4
<1>8. s.next <= r.next
  BY <1>1, <1>4 DEF Scheds
<1>9. QED
  BY <1>4, <1>5, <1>6, <1>7, <1>8, Zenon DEF Goes, r

LEMMA ExitGoes ==
    ASSUME NEW s, SchedOK(s), s.current \in Slot
    PROVE  /\ Goes(s, ExitThread(s))
           /\ ExitThread(s).state[s.current] = "EXITED"
           /\ ExitThread(s).wait = s.wait
<1> DEFINE c == s.current
           v == [s EXCEPT !.state[s.current] = "EXITED", !.current = NoSlot]
           r == ExitThread(s)
<1>1. /\ s \in Scheds /\ c \in Slot /\ s.next \in Int
      /\ \A i \in Slot : s.state[i] = "RUNNING" <=> i = c
      /\ \A i \in Slot : s.state[i] = "FREE" <=> i >= s.next
      /\ \A i \in Slot : i < s.next => s.handle[i] = Thread(i)
  BY DEF SchedOK, Scheds
<1>2. /\ v \in Scheds /\ v.current = NoSlot
      /\ v.wait = s.wait /\ v.handle = s.handle /\ v.next = s.next
      /\ \A i \in Slot : v.state[i] = IF i = c THEN "EXITED" ELSE s.state[i]
  BY <1>1 DEF Scheds, ThreadState
<1>3. r = IF InState(v, "READY") = {} THEN v ELSE SwitchNext(v)
  BY DEF ExitThread, SwitchNext
<1> HIDE DEF c, v, r
<1>4. CASE InState(v, "READY") # {}
  <2>0. r = SwitchNext(v)
    BY <1>3, <1>4
  <2>a. \E d \in Slot : LET w == SwitchNext(v) IN
             /\ v.state[d] = "READY" /\ w \in Scheds /\ w.current = d
             /\ w.wait = v.wait /\ w.handle = v.handle /\ w.next = v.next
             /\ \A i \in Slot : w.state[i] = IF i = d THEN "RUNNING" ELSE v.state[i]
    BY <1>2, <1>4, SwitchNextRuns, Zenon
  <2>1. PICK d \in Slot :
             /\ v.state[d] = "READY" /\ r \in Scheds /\ r.current = d
             /\ r.wait = v.wait /\ r.handle = v.handle /\ r.next = v.next
             /\ \A i \in Slot : r.state[i] = IF i = d THEN "RUNNING" ELSE v.state[i]
    BY <2>a, <2>0
  <2>2. SchedOK(r)
    <3>1. \A i \in Slot : r.state[i] = "RUNNING" <=> i = r.current
      BY <1>1, <1>2, <2>1
    <3>2. \A i \in Slot : r.state[i] = "FREE" <=> i >= r.next
      BY <1>1, <1>2, <2>1
    <3>3. \A i \in Slot : i < r.next => r.handle[i] = Thread(i)
      BY <1>1, <1>2, <2>1
    <3>4. QED
      BY <2>1, <3>1, <3>2, <3>3 DEF SchedOK
  <2>3. \A i \in Slot : /\ r.state[i] = "WAITING" => s.state[i] = "WAITING"
                        /\ r.wait[i] = s.wait[i]
                        /\ s.state[i] = "EXITED" => r.state[i] = "EXITED"
    BY <1>1, <1>2, <2>1
  <2>4. r.state[c] = "EXITED" /\ r.wait = s.wait /\ s.next <= r.next
    BY <1>1, <1>2, <2>1
  <2>5. QED
    BY <2>2, <2>3, <2>4, Zenon DEF r, c, Goes
<1>5. CASE InState(v, "READY") = {}
  <2>1. r = v
    BY <1>3, <1>5
  <2>2. SchedOK(v)
    <3>1. \A i \in Slot : v.state[i] = "RUNNING" <=> i = v.current
      BY <1>1, <1>2, SlotFacts
    <3>2. \A i \in Slot : v.state[i] = "FREE" <=> i >= v.next
      BY <1>1, <1>2
    <3>3. QED
      BY <1>1, <1>2, <3>1, <3>2 DEF SchedOK
  <2>3. \A i \in Slot : /\ v.state[i] = "WAITING" => s.state[i] = "WAITING"
                        /\ v.wait[i] = s.wait[i]
                        /\ s.state[i] = "EXITED" => v.state[i] = "EXITED"
    BY <1>1, <1>2
  <2>4. v.state[c] = "EXITED" /\ v.wait = s.wait /\ s.next <= v.next
    BY <1>1, <1>2
  <2>5. QED
    BY <2>1, <2>2, <2>3, <2>4, Zenon DEF r, c, Goes
<1>6. QED
  BY <1>4, <1>5

\* A new thread takes the next slot.
LEMMA CreateGoes ==
    ASSUME NEW s, SchedOK(s), CanCreate(s), NEW suspended \in BOOLEAN
    PROVE  Goes(s, CreateThread(s, suspended))
<1> DEFINE F == InState(s, "FREE")
           i == Min(F)
           n == s.next
           st == IF suspended THEN "SUSPENDED" ELSE "READY"
           r == CreateThread(s, suspended)
<1>1. /\ s \in Scheds /\ n \in 1 .. MaxThreads /\ MaxThreads \in Nat
      /\ \A j \in Slot : s.state[j] = "RUNNING" <=> j = s.current
      /\ \A j \in Slot : s.state[j] = "FREE" <=> j >= n
      /\ \A j \in Slot : j < n => s.handle[j] = Thread(j)
  BY SlotFacts DEF SchedOK, Scheds
<1>2. i \in F /\ \A j \in F : i <= j
  <2>1. F # {} /\ F \subseteq Nat
    BY SlotFacts DEF InState, CanCreate
  <2>2. QED
    BY <2>1, LeastOf
<1>3. i = n /\ n \in Slot /\ s.state[n] = "FREE"
  <2>1. i \in Slot /\ i >= n
    BY <1>1, <1>2 DEF InState
  <2>2. n \in Slot
    BY <1>1, <2>1, SlotFacts DEF Slot
  <2>3. n \in F
    BY <1>1, <2>2 DEF InState
  <2>4. QED
    BY <1>1, <1>2, <2>1, <2>2, <2>3, SlotFacts
<1>4. st \in ThreadState /\ st \notin {"RUNNING", "FREE", "WAITING"} /\ Thread(n) \in Handles
  BY <1>3 DEF ThreadState, Handles, Slot
<1>5. r = [s EXCEPT !.state[n] = st, !.wait[n] = NoHandle, !.handle[n] = Thread(n),
                    !.next = n + 1]
  <2>1. r = [s EXCEPT !.state[i] = st, !.wait[i] = NoHandle, !.handle[i] = <<"thread", n>>,
                      !.next = n + 1]
    BY DEF CreateThread
  <2>2. QED
    BY <1>3, <2>1 DEF Thread
<1> HIDE DEF F, i, n, st, r
<1>6. n + 1 \in 1 .. MaxThreads
  BY <1>1, <1>3 DEF Slot
<1>7. /\ r \in Scheds /\ r.current = s.current /\ r.next = n + 1
      /\ \A j \in Slot : r.state[j] = IF j = n THEN st ELSE s.state[j]
      /\ \A j \in Slot : r.wait[j] = IF j = n THEN NoHandle ELSE s.wait[j]
      /\ \A j \in Slot : r.handle[j] = IF j = n THEN Thread(n) ELSE s.handle[j]
  BY <1>1, <1>3, <1>4, <1>5, <1>6 DEF Scheds, WaitTargets
<1>8. SchedOK(r)
  <2>1. \A j \in Slot : r.state[j] = "RUNNING" <=> j = r.current
    BY <1>1, <1>3, <1>4, <1>7
  <2>2. \A j \in Slot : r.state[j] = "FREE" <=> j >= r.next
    BY <1>1, <1>4, <1>7, SlotFacts
  <2>3. \A j \in Slot : j < r.next => r.handle[j] = Thread(j)
    BY <1>1, <1>7, SlotFacts
  <2>4. QED
    BY <1>7, <2>1, <2>2, <2>3 DEF SchedOK
<1>9. \A j \in Slot : /\ r.state[j] = "WAITING" => s.state[j] = "WAITING"
                                                   /\ r.wait[j] = s.wait[j]
                      /\ r.wait[j] \in {s.wait[j], NoHandle}
                      /\ s.state[j] = "EXITED" => r.state[j] = "EXITED"
  BY <1>3, <1>4, <1>7
<1>10. s.next <= r.next
  BY <1>1, <1>7 DEF n
<1>11. QED
  BY <1>8, <1>9, <1>10, Zenon DEF Goes, r

LEMMA ResumeGoes ==
    ASSUME NEW s, SchedOK(s), NEW h
    PROVE  Goes(s, Resume(s, h))
<1> DEFINE Starts(i) == i \in Find(s, h) /\ s.state[i] = "SUSPENDED"
           r == Resume(s, h)
<1>1. /\ s \in Scheds /\ s.next <= s.next
      /\ \A i \in Slot : s.state[i] = "RUNNING" <=> i = s.current
      /\ \A i \in Slot : s.state[i] = "FREE" <=> i >= s.next
      /\ \A i \in Slot : i < s.next => s.handle[i] = Thread(i)
  BY DEF SchedOK, Scheds
<1>2. r = [s EXCEPT !.state = [i \in Slot |-> IF Starts(i) THEN "READY" ELSE s.state[i]]]
  BY DEF Resume
<1>3. [i \in Slot |-> IF Starts(i) THEN "READY" ELSE s.state[i]] \in [Slot -> ThreadState]
  BY <1>1 DEF Scheds, ThreadState
<1>4. \A i : Starts(i) => s.state[i] = "SUSPENDED"
  OBVIOUS
<1> HIDE DEF r, Starts
<1>5. /\ r \in Scheds /\ r.current = s.current /\ r.handle = s.handle
      /\ r.next = s.next /\ r.wait = s.wait
      /\ \A i \in Slot : r.state[i] = IF Starts(i) THEN "READY" ELSE s.state[i]
  BY <1>1, <1>2, <1>3 DEF Scheds
<1>6. SchedOK(r)
  BY <1>1, <1>4, <1>5 DEF SchedOK
<1>7. \A i \in Slot : /\ r.state[i] = "WAITING" => s.state[i] = "WAITING"
                                                   /\ r.wait[i] = s.wait[i]
                      /\ r.wait[i] \in {s.wait[i], NoHandle}
                      /\ s.state[i] = "EXITED" => r.state[i] = "EXITED"
  BY <1>4, <1>5
<1>8. QED
  BY <1>1, <1>5, <1>6, <1>7, Zenon DEF Goes, r

\* A tick on a paused engine: the current thread, if there is one, is WAITING.
LEMMA TickRuns ==
    ASSUME NEW s, SchedOK(s), InState(s, "READY") # {}
    PROVE  LET r == SwitchNext(SaveCurrent(s, "WAITING")) IN
             /\ SchedOK(r) /\ r.wait = s.wait /\ r.next = s.next /\ r.current \in Slot
             /\ \A i \in Slot : /\ r.state[i] = "WAITING" => \/ s.state[i] = "WAITING"
                                                             \/ i = s.current
                                /\ s.state[i] = "EXITED" => r.state[i] = "EXITED"
<1> DEFINE c == s.current
           v == SaveCurrent(s, "WAITING")
           r == SwitchNext(v)
<1>1. /\ s \in Scheds /\ c \in Slot \cup {NoSlot} /\ "WAITING" \in ThreadState
      /\ \A i \in Slot : s.state[i] = "RUNNING" <=> i = c
      /\ \A i \in Slot : s.state[i] = "FREE" <=> i >= s.next
      /\ \A i \in Slot : i < s.next => s.handle[i] = Thread(i)
  BY DEF SchedOK, Scheds, ThreadState
<1>2. /\ v \in Scheds /\ v.current = s.current
      /\ v.wait = s.wait /\ v.handle = s.handle /\ v.next = s.next
      /\ \A i \in Slot : v.state[i] = IF i = c THEN "WAITING" ELSE s.state[i]
  <2>1. CASE c \in Slot
    BY <1>1, <2>1, SaveCurrentIs
  <2>2. CASE c = NoSlot
    <3>1. v = s /\ \A i \in Slot : i # c
      BY <2>2, SlotFacts DEF SaveCurrent
    <3>2. QED
      BY <1>1, <3>1
  <2>3. QED
    BY <1>1, <2>1, <2>2
<1> HIDE DEF c, v, r
<1>3. InState(v, "READY") # {}
  <2>1. PICK i \in Slot : s.state[i] = "READY"
    BY DEF InState
  <2>2. v.state[i] = "READY"
    BY <1>1, <1>2, <2>1
  <2>3. QED
    BY <2>2 DEF InState
<1>4. PICK d \in Slot :
           /\ v.state[d] = "READY" /\ r \in Scheds /\ r.current = d
           /\ r.wait = v.wait /\ r.handle = v.handle /\ r.next = v.next
           /\ \A i \in Slot : r.state[i] = IF i = d THEN "RUNNING" ELSE v.state[i]
  BY <1>2, <1>3, SwitchNextRuns, Zenon DEF r
<1>5. SchedOK(r)
  <2>1. \A i \in Slot : r.state[i] = "RUNNING" <=> i = r.current
    BY <1>1, <1>2, <1>4
  <2>2. \A i \in Slot : r.state[i] = "FREE" <=> i >= r.next
    BY <1>1, <1>2, <1>4
  <2>3. \A i \in Slot : i < r.next => r.handle[i] = Thread(i)
    BY <1>1, <1>2, <1>4
  <2>4. QED
    BY <1>4, <2>1, <2>2, <2>3 DEF SchedOK
<1>6. \A i \in Slot : /\ r.state[i] = "WAITING" => s.state[i] = "WAITING" \/ i = c
                      /\ s.state[i] = "EXITED" => r.state[i] = "EXITED"
  BY <1>1, <1>2, <1>4
<1>7. r.wait = s.wait /\ r.next = s.next /\ r.current \in Slot
  BY <1>2, <1>4
<1>8. QED
  BY <1>5, <1>6, <1>7, Zenon DEF r, v, c

LEMMA FreshOK == SchedOK(FreshSched)
<1> DEFINE s == FreshSched
<1>1. /\ s.state = [i \in Slot |-> IF i = 0 THEN "RUNNING" ELSE "FREE"]
      /\ s.current = 0 /\ s.wait = [i \in Slot |-> NoHandle]
      /\ s.handle = [i \in Slot |-> IF i = 0 THEN MainHandle ELSE NoHandle]
      /\ s.next = 1
      /\ s = [state |-> s.state, current |-> s.current, wait |-> s.wait,
              handle |-> s.handle, next |-> s.next]
  BY DEF FreshSched
<1>2. MainHandle = Thread(0) /\ Thread(0) \in Handles /\ 1 \in 1 .. MaxThreads
  BY MaxThreadsAssumption DEF MainHandle, Thread, Handles, MaxThreadsAssumption
<1> HIDE DEF s
<1>3. s \in Scheds
  <2>1. /\ s.state \in [Slot -> ThreadState] /\ s.current \in Slot
        /\ s.wait \in [Slot -> WaitTargets] /\ s.handle \in [Slot -> Handles \cup {NoHandle}]
        /\ s.next \in 1 .. MaxThreads
    BY <1>1, <1>2, SlotFacts DEF ThreadState, WaitTargets
  <2>2. QED
    BY <1>1, <2>1 DEF Scheds
<1>4. QED
  BY <1>1, <1>2, <1>3, SlotFacts DEF SchedOK, s

\* The current thread waits for h and gives the processor up.
LEMMA ParkRuns ==
    ASSUME NEW s, SchedOK(s), s.current \in Slot, NEW st \in {"READY", "WAITING"},
           NEW h \in WaitTargets
    PROVE  LET v == [s EXCEPT !.wait[s.current] = h]
               r == Yield(v, st)
           IN  /\ SchedOK(v) /\ v.current = s.current
               /\ SchedOK(r) /\ r.next = s.next /\ r.current \in Slot
               /\ \A i \in Slot :
                    /\ r.state[i] = "WAITING" => \/ s.state[i] = "WAITING" /\ i # s.current
                                                 \/ /\ i = s.current /\ st = "WAITING"
                                                    /\ YieldSwitches(v, st)
                    /\ r.wait[i] = IF i = s.current THEN h ELSE s.wait[i]
                    /\ s.state[i] = "EXITED" => r.state[i] = "EXITED"
               /\ st = "READY" => YieldSwitches(v, st)
<1> DEFINE c == s.current
           v == [s EXCEPT !.wait[s.current] = h]
           r == Yield(v, st)
<1>1. /\ s \in Scheds /\ c \in Slot
      /\ \A i \in Slot : s.state[i] = "RUNNING" <=> i = c
      /\ \A i \in Slot : s.state[i] = "FREE" <=> i >= s.next
      /\ \A i \in Slot : i < s.next => s.handle[i] = Thread(i)
  BY DEF SchedOK
<1>2. /\ v \in Scheds /\ v.current = c /\ v.state = s.state /\ v.handle = s.handle
      /\ v.next = s.next
      /\ \A i \in Slot : v.wait[i] = IF i = c THEN h ELSE s.wait[i]
  BY <1>1 DEF Scheds
<1> HIDE DEF c, v, r
<1>3. SchedOK(v)
  BY <1>1, <1>2 DEF SchedOK
<1>4. /\ SchedOK(r) /\ r.wait = v.wait /\ r.next = v.next /\ r.current \in Slot
      /\ \A i \in Slot : /\ r.state[i] = "WAITING" => \/ v.state[i] = "WAITING"
                                                      \/ i = v.current /\ st = "WAITING"
                         /\ v.state[i] = "EXITED" => r.state[i] = "EXITED"
      /\ ~YieldSwitches(v, st) => r.current = v.current
      /\ st = "READY" => YieldSwitches(v, st)
  <2>1. v.current \in Slot
    BY <1>1, <1>2
  <2>2. QED
    BY <1>3, <2>1, YieldRuns DEF r
<1>5. \A i \in Slot : r.state[i] = "RUNNING" <=> i = r.current
  BY <1>4 DEF SchedOK
<1>6. ASSUME NEW i \in Slot, r.state[i] = "WAITING"
      PROVE  \/ s.state[i] = "WAITING" /\ i # c
             \/ i = c /\ st = "WAITING" /\ YieldSwitches(v, st)
  <2>1. CASE i = c
    <3>1. s.state[i] # "WAITING"
      BY <1>1, <2>1
    <3>2. st = "WAITING"
      BY <1>2, <1>4, <1>6, <3>1
    <3>3. YieldSwitches(v, st)
      <4>1. r.current # c
        BY <1>5, <1>6, <2>1
      <4>2. QED
        BY <1>2, <1>4, <4>1
    <3>4. QED
      BY <2>1, <3>2, <3>3
  <2>2. CASE i # c
    BY <1>2, <1>4, <1>6, <2>2
  <2>3. QED
    BY <2>1, <2>2
<1>7. \A i \in Slot : /\ r.wait[i] = IF i = c THEN h ELSE s.wait[i]
                      /\ s.state[i] = "EXITED" => r.state[i] = "EXITED"
  BY <1>2, <1>4
<1>8. r.next = s.next
  BY <1>2, <1>4
<1>9. QED
  BY <1>2, <1>3, <1>4, <1>6, <1>7, <1>8, Zenon DEF r, v, c

-----------------------------------------------------------------------------
(* What every reachable state satisfies.                                     *)

CallSet == {NoCall} \cup SingleWaits \cup MultiWaits \cup CvSleeps \cup PortWaits

ThreadsOK ==
    /\ SchedOK(sched) /\ call \in [Slot -> CallSet] /\ due \in [Slot -> BOOLEAN]
    /\ since \in [Slot -> [to : {"none"} \cup Timeouts, gen : Nat]]
    /\ exit \in [Slot -> {"active", "called ExitThread", "returned"}]

EventsOK ==
    /\ signalled \in [EventSlot -> BOOLEAN] /\ manual \in [EventSlot -> BOOLEAN]
    /\ next \in 0 .. MaxEvents /\ free \in Seq(EventSlot) /\ Len(free) <= MaxEvents
    /\ open \subseteq EventSlot /\ mixed \subseteq EventSlot

CvTable(f) ==
    /\ IsFiniteSet(DOMAIN f) /\ Cardinality(DOMAIN f) <= MaxCvs
    /\ \A c \in DOMAIN f : f[c] \in Nat

Entries == [to : Slot, body : {"a", "b"}] \cup {NoEntry}

\* The completions are all for the one port.
QueuesOK ==
    /\ msgs \in Rings(Entries) /\ comps \in Rings(Entries)
    /\ \A k \in 1 .. Used(comps) : Contents(comps)[k].to = PortSlot

EngineOK == imports \in Programs \cup Later /\ engine \in {"RUNNING", "PAUSED", "HALTED"}

CoopInv == ThreadsOK /\ EventsOK /\ CvTable(cvs) /\ QueuesOK /\ EngineOK

\* The actions by what they change.
LEMMA Frames ==
    ASSUME Next
    PROVE  /\ \/ UNCHANGED eventVars
              \/ CreateEvent \/ SetEvent \/ ResetEvent \/ CloseEvent \/ Load
              \/ (\E c \in SingleWaits : WaitForSingleObject(c))
              \/ (\E c \in MultiWaits : WaitForMultipleObjects(c))
           /\ UNCHANGED cvs \/ WakeCv \/ (\E c \in CvSleeps : SleepCv(c))
           /\ UNCHANGED <<msgs, mail>> \/ PostThreadMessage \/ PeekMessage \/ GetMessage \/ Load
           /\ \/ UNCHANGED <<comps, done>>
              \/ PostCompletion \/ (\E c \in PortWaits : GetCompletion(c)) \/ Load
           /\ UNCHANGED imports \/ Load
           /\ UNCHANGED exit \/ CallExitThread \/ ThreadReturns \/ Load
<1> USE DEF eventVars, queueVars, threadVars
<1>1. CASE CreateEvent \/ SetEvent \/ ResetEvent \/ CloseEvent
  BY <1>1 DEF CreateEvent, SetEvent, ResetEvent, CloseEvent
<1>2. CASE \E c \in SingleWaits : WaitForSingleObject(c)
  BY <1>2 DEF WaitForSingleObject, keptByWait
<1>3. CASE \E c \in MultiWaits : WaitForMultipleObjects(c)
  BY <1>3 DEF WaitForMultipleObjects, keptByWait
<1>4. CASE (\E c \in CvSleeps : SleepCv(c)) \/ WakeCv
  BY <1>4 DEF SleepCv, WakeCv, keptByCv
<1>5. CASE (\E c \in PortWaits : GetCompletion(c)) \/ PostCompletion
  BY <1>5 DEF GetCompletion, PostCompletion
<1>6. CASE PostThreadMessage \/ PeekMessage \/ GetMessage
  BY <1>6 DEF PostThreadMessage, PeekMessage, GetMessage, TakeMessage
<1>7. CASE NewThread \/ ResumeThread \/ Sleep
  BY <1>7 DEF NewThread, ResumeThread, Sleep, keptByThread
<1>8. CASE CallExitThread \/ ThreadReturns
  BY <1>8 DEF CallExitThread, ThreadReturns, Ends, keptByThread
<1>9. CASE ProgramEnds \/ Preempt \/ ShowDialog \/ TickPaused \/ Tap
           \/ (\E t \in Slot : Elapse(t))
  BY <1>9 DEF ProgramEnds, Preempt, ShowDialog, TickPaused, Tap, Elapse
<1>10. CASE Load
  BY <1>10 DEF Load
<1>11. QED
  BY <1>1, <1>2, <1>3, <1>4, <1>5, <1>6, <1>7, <1>8, <1>9, <1>10 DEF Next, Waiting

LEMMA RunningSlot == ASSUME CoopInv, Program PROVE Cur \in Slot
BY DEF CoopInv, ThreadsOK, SchedOK, Scheds, Program, Cur

LEMMA CallFacts ==
    /\ NoCall \in CallSet
    /\ \A c \in SingleWaits : /\ c \in CallSet /\ c.fn = "WaitForSingleObject"
                              /\ c.h \in Handles /\ c.h \in WaitTargets /\ c.to \in Timeouts
    /\ \A c \in MultiWaits : /\ c \in CallSet /\ c.fn = "WaitForMultipleObjects"
                             /\ c.hs[1] \in Handles /\ c.hs[1] \in WaitTargets
                             /\ c.to \in Timeouts
    /\ \A c \in CvSleeps : /\ c \in CallSet /\ c.fn = "SleepConditionVariableCS"
                           /\ AtCv(c.cv) \in WaitTargets /\ c.to \in {"finite", "infinite"}
    /\ \A c \in PortWaits : /\ c \in CallSet /\ c.fn = "GetQueuedCompletionStatus"
                            /\ Port \in WaitTargets /\ c.to \in Timeouts
<1>1. Handles \subseteq WaitTargets /\ Port \in WaitTargets
      /\ \A v \in Cv : AtCv(v) \in WaitTargets
  BY DEF WaitTargets
<1>2. ASSUME NEW c \in MultiWaits PROVE c.hs[1] \in Handles
  <2>1. CASE \E h \in Handles : c.hs = <<h>>
    BY <2>1
  <2>2. CASE \E i \in 0 .. MaxEvents - 2 : c.hs = <<Event(i), Event(i + 1)>>
    <3>1. PICK i \in 0 .. MaxEvents - 2 : c.hs = <<Event(i), Event(i + 1)>>
      BY <2>2
    <3>2. i \in EventSlot
      BY CoopAssumption DEF CoopAssumption, EventSlot
    <3>3. QED
      BY <3>1, <3>2 DEF Handles
  <2>3. QED
    BY <2>1, <2>2 DEF MultiWaits
<1>3. QED
  BY <1>1, <1>2 DEF CallSet, SingleWaits, MultiWaits, CvSleeps, PortWaits

\* The current thread, in call c, now waits for h; saved in state st, it may be
\* off the processor, and makes c again.
Pauses(c, h, st) ==
    /\ SchedOK(sched') /\ sched'.next = sched.next
    /\ \A i \in Slot :
         /\ sched'.state[i] = "WAITING" => \/ sched.state[i] = "WAITING" /\ i # Cur
                                           \/ i = Cur /\ st = "WAITING" /\ call'[i] = c
         /\ sched'.wait[i] = IF i = Cur THEN h ELSE sched.wait[i]
         /\ sched.state[i] = "EXITED" => sched'.state[i] = "EXITED"
         /\ i # Cur => call'[i] = call[i] /\ since'[i] = since[i]
    /\ call' \in [Slot -> CallSet] /\ call'[Cur] \in {c, NoCall}
    /\ st = "READY" => call'[Cur] = c
    /\ since' \in [Slot -> [to : {"none"} \cup Timeouts, gen : Nat]]

\* Its call c returns.
Completes(clears) ==
    /\ Goes(sched, sched') /\ UNCHANGED <<due, since>> /\ sched'.current = Cur
    /\ call' \in [Slot -> CallSet] /\ call'[Cur] = NoCall
    /\ \A i \in Slot : i # Cur => call'[i] = call[i]
    /\ sched'.state = sched.state
    /\ \A i \in Slot : sched'.wait[i] = IF clears /\ i = Cur THEN NoHandle ELSE sched.wait[i]

LEMMA ParkPauses ==
    ASSUME CoopInv, Program, NEW c \in CallSet, c.to \in Timeouts, NEW h \in WaitTargets,
           NEW st \in {"READY", "WAITING"}, Park(c, h, st)
    PROVE  Pauses(c, h, st) /\ since'[Cur].to = c.to
<1> DEFINE v == [sched EXCEPT !.wait[Cur] = h]
<1>1. /\ SchedOK(sched) /\ Cur \in Slot /\ call \in [Slot -> CallSet] /\ NoCall \in CallSet
      /\ since \in [Slot -> [to : {"none"} \cup Timeouts, gen : Nat]]
  BY RunningSlot, CallFacts DEF CoopInv, ThreadsOK
<1>2. v = [sched EXCEPT !.wait[sched.current] = h] /\ Cur = sched.current
  BY DEF Cur
<1>3. /\ sched' = Yield(v, st)
      /\ call' = [call EXCEPT ![Cur] = IF YieldSwitches(v, st) THEN c ELSE NoCall]
      /\ since' = [since EXCEPT ![Cur].to = c.to]
  BY DEF Park
<1> HIDE DEF v
<1>4. /\ SchedOK(sched') /\ sched'.next = sched.next
      /\ \A i \in Slot :
           /\ sched'.state[i] = "WAITING" => \/ sched.state[i] = "WAITING" /\ i # Cur
                                             \/ i = Cur /\ st = "WAITING" /\ YieldSwitches(v, st)
           /\ sched'.wait[i] = IF i = Cur THEN h ELSE sched.wait[i]
           /\ sched.state[i] = "EXITED" => sched'.state[i] = "EXITED"
      /\ st = "READY" => YieldSwitches(v, st)
  <2>1. sched.current \in Slot
    BY <1>1, <1>2
  <2>2. QED
    BY <1>1, <1>2, <1>3, <2>1, ParkRuns
<1>5. /\ call' \in [Slot -> CallSet]
      /\ \A i \in Slot : i # Cur => call'[i] = call[i]
      /\ call'[Cur] = IF YieldSwitches(v, st) THEN c ELSE NoCall
  BY <1>1, <1>3
<1>6. /\ since' \in [Slot -> [to : {"none"} \cup Timeouts, gen : Nat]]
      /\ \A i \in Slot : i # Cur => since'[i] = since[i]
      /\ since'[Cur].to = c.to
  BY <1>1, <1>3
<1>7. QED
  BY <1>1, <1>4, <1>5, <1>6 DEF Pauses

LEMMA FinishCompletes ==
    ASSUME CoopInv, Program, NEW clears \in BOOLEAN, Finishes(clears)
    PROVE  Completes(clears)
<1>1. /\ SchedOK(sched) /\ Cur \in Slot /\ call \in [Slot -> CallSet] /\ NoCall \in CallSet
      /\ sched \in Scheds /\ NoHandle \in WaitTargets /\ Cur = sched.current
  BY RunningSlot, CallFacts DEF CoopInv, ThreadsOK, SchedOK, WaitTargets, Cur
<1>2. /\ call' \in [Slot -> CallSet] /\ call'[Cur] = NoCall
      /\ \A i \in Slot : i # Cur => call'[i] = call[i]
  BY <1>1 DEF Finishes, Returns
<1>3. sched' = IF clears THEN [sched EXCEPT !.wait[Cur] = NoHandle] ELSE sched
  BY DEF Finishes
<1>4. /\ sched' \in Scheds /\ sched'.current = Cur /\ sched'.state = sched.state
      /\ sched'.handle = sched.handle /\ sched'.next = sched.next
      /\ \A i \in Slot : sched'.wait[i] = IF clears /\ i = Cur THEN NoHandle ELSE sched.wait[i]
  <2>1. CASE clears
    BY <1>1, <1>3, <2>1 DEF Scheds
  <2>2. CASE ~clears
    BY <1>1, <1>3, <2>2
  <2>3. QED
    BY <2>1, <2>2
<1>5. SchedOK(sched')
  BY <1>1, <1>4 DEF SchedOK
<1>6. \A i \in Slot : sched'.state[i] = "WAITING" => i # Cur
  BY <1>1, <1>4 DEF SchedOK
<1>7. sched.next <= sched'.next
  BY <1>1, <1>4 DEF Scheds
<1>8. Goes(sched, sched')
  BY <1>4, <1>5, <1>6, <1>7 DEF Goes
<1>9. UNCHANGED <<due, since>>
  BY DEF Finishes
<1>10. QED
  BY <1>2, <1>4, <1>8, <1>9 DEF Completes

LEMMA StillGoes == ASSUME NEW s, SchedOK(s) PROVE Goes(s, s)
BY DEF Goes, SchedOK, Scheds

\* A yield of a thread that stays READY.
LEMMA YieldGoes ==
    ASSUME NEW s, SchedOK(s), s.current \in Slot
    PROVE  Goes(s, Yield(s, "READY")) /\ YieldSwitches(s, "READY")
<1> DEFINE r == Yield(s, "READY")
<1>1. /\ SchedOK(r) /\ r.wait = s.wait /\ r.next = s.next
      /\ \A i \in Slot : /\ r.state[i] = "WAITING" => s.state[i] = "WAITING"
                         /\ s.state[i] = "EXITED" => r.state[i] = "EXITED"
      /\ YieldSwitches(s, "READY")
  <2>1. "READY" \in {"READY", "WAITING"} /\ "READY" # "WAITING"
    OBVIOUS
  <2>2. QED
    BY <2>1, YieldRuns
<1> HIDE DEF r
<1>2. s.next <= r.next
  BY <1>1 DEF SchedOK, Scheds
<1>3. QED
  BY <1>1, <1>2 DEF Goes, r

\* The actions that are no waits: nobody begins to wait, and no call changes.
LEMMA Drifting ==
    ASSUME CoopInv,
           \/ CreateEvent \/ SetEvent \/ ResetEvent \/ CloseEvent \/ WakeCv
           \/ PostThreadMessage \/ PeekMessage \/ GetMessage \/ PostCompletion
           \/ NewThread \/ ResumeThread \/ Sleep \/ ProgramEnds \/ Preempt
           \/ ShowDialog \/ Tap \/ (\E t \in Slot : Elapse(t))
    PROVE  /\ Goes(sched, sched') /\ UNCHANGED <<call, since, exit>>
           /\ due' \in [Slot -> BOOLEAN]
<1>1. SchedOK(sched) /\ due \in [Slot -> BOOLEAN] /\ sched.current = Cur
  BY DEF CoopInv, ThreadsOK, Cur
<1>2. Program => sched.current \in Slot
  BY <1>1, RunningSlot
<1>3. CASE \/ CreateEvent \/ ResetEvent \/ CloseEvent
           \/ PostThreadMessage \/ PeekMessage \/ ProgramEnds \/ ShowDialog \/ Tap
  <2>1. UNCHANGED <<sched, call, since, exit, due>>
    BY <1>3 DEF CreateEvent, ResetEvent, CloseEvent, PostThreadMessage, PeekMessage,
                TakeMessage, ProgramEnds, ShowDialog, Tap, threadVars
  <2>2. QED
    BY <1>1, <2>1, StillGoes
<1>4. CASE SetEvent \/ WakeCv \/ PostCompletion
  <2>1. (\E h : sched' = Wake(sched, h)) /\ UNCHANGED <<call, since, exit, due>>
    BY <1>4 DEF SetEvent, WakeCv, PostCompletion, keptByCv
  <2>2. QED
    BY <1>1, <2>1, WakeGoes
<1>5. CASE GetMessage \/ Sleep \/ Preempt
  <2>1. /\ Program /\ sched' = Yield(sched, "READY")
        /\ UNCHANGED <<call, since, exit, due>>
    BY <1>5 DEF GetMessage, Sleep, Preempt, Calls, TakeMessage, keptByThread
  <2>2. QED
    BY <1>1, <1>2, <2>1, YieldGoes
<1>6. CASE NewThread
  <2>1. PICK suspended \in BOOLEAN :
          sched' = IF CanCreate(sched) THEN CreateThread(sched, suspended) ELSE sched
    BY <1>6 DEF NewThread
  <2>2. UNCHANGED <<call, since, exit, due>>
    BY <1>6 DEF NewThread, keptByThread
  <2>3. Goes(sched, sched')
    BY <1>1, <2>1, StillGoes, CreateGoes
  <2>4. QED
    BY <1>1, <2>2, <2>3
<1>7. CASE ResumeThread
  <2>1. (\E h : sched' = Resume(sched, h)) /\ UNCHANGED <<call, since, exit, due>>
    BY <1>7 DEF ResumeThread, keptByThread
  <2>2. QED
    BY <1>1, <2>1, ResumeGoes
<1>8. CASE \E t \in Slot : Elapse(t)
  <2>1. PICK t \in Slot : due' = [due EXCEPT ![t] = TRUE]
    BY <1>8 DEF Elapse
  <2>2. UNCHANGED <<sched, call, since, exit>>
    BY <1>8 DEF Elapse
  <2>3. due' \in [Slot -> BOOLEAN]
    BY <1>1, <2>1
  <2>4. QED
    BY <1>1, <2>2, <2>3, StillGoes
<1>9. QED
  BY <1>3, <1>4, <1>5, <1>6, <1>7, <1>8

\* The two ways in which a thread ends.
LEMMA Leaving ==
    ASSUME CoopInv, CallExitThread \/ ThreadReturns
    PROVE  /\ Goes(sched, sched') /\ UNCHANGED <<call, since, due>> /\ Cur \in Slot
           /\ sched'.state[Cur] = "EXITED"
           /\ \E how \in {"called ExitThread", "returned"} :
                /\ exit' = [exit EXCEPT ![Cur] = how]
                /\ how = "returned" => \A i \in Slot :
                     sched'.state[i] = "WAITING" => sched'.wait[i] # sched.handle[Cur]
<1>1. SchedOK(sched) /\ sched.current = Cur
  BY DEF CoopInv, ThreadsOK, Cur
<1>2. Cur \in Slot
  BY RunningSlot DEF CallExitThread, ThreadReturns, Calls
<1>3. UNCHANGED <<call, since, due>>
  BY DEF CallExitThread, ThreadReturns, Ends, keptByThread
<1>4. CASE CallExitThread
  <2>1. sched' = ExitThread(sched) /\ exit' = [exit EXCEPT ![Cur] = "called ExitThread"]
    BY <1>4 DEF CallExitThread, Ends
  <2>2. Goes(sched, sched') /\ sched'.state[Cur] = "EXITED"
    BY <1>1, <1>2, <2>1, ExitGoes
  <2>3. QED
    BY <1>2, <1>3, <2>1, <2>2
<1>5. CASE ThreadReturns
  <2> DEFINE h == sched.handle[Cur]
             w == Wake(sched, h)
  <2>1. sched' = ExitThread(w) /\ exit' = [exit EXCEPT ![Cur] = "returned"]
    BY <1>5 DEF ThreadReturns, Ends
  <2>2. /\ Goes(sched, w) /\ w.current = sched.current
        /\ \A i \in Slot : w.state[i] = "WAITING" => w.wait[i] # h
    BY <1>1, WakeGoes
  <2> HIDE DEF w, h
  <2>3. SchedOK(w) /\ w.current = Cur
    BY <1>1, <2>2 DEF Goes
  <2>4. Goes(w, sched') /\ sched'.state[Cur] = "EXITED" /\ sched'.wait = w.wait
    BY <1>2, <2>1, <2>3, ExitGoes
  <2>5. Goes(sched, sched')
    <3>1. sched.next <= w.next /\ w.next <= sched'.next /\ sched.next \in Int
          /\ w.next \in Int /\ sched'.next \in Int
      BY <1>1, <2>2, <2>4 DEF Goes, SchedOK, Scheds
    <3>2. sched.next <= sched'.next
      BY <3>1
    <3>3. QED
      BY <2>2, <2>4, <3>2 DEF Goes
  <2>6. \A i \in Slot : sched'.state[i] = "WAITING" => sched'.wait[i] # h
    BY <2>2, <2>4 DEF Goes
  <2>7. QED
    BY <1>2, <1>3, <2>1, <2>4, <2>5, <2>6 DEF h
<1>6. QED
  BY <1>4, <1>5

\* A wait returns or pauses.
LEMMA SingleMoves ==
    ASSUME CoopInv, NEW c \in SingleWaits, WaitForSingleObject(c)
    PROVE  /\ Program /\ UNCHANGED exit /\ due' \in [Slot -> BOOLEAN]
           /\ \/ Completes(TRUE)
              \/ Completes(FALSE) /\ (RealTimeouts => c.to = "zero")
              \/ /\ \E st \in {"READY", "WAITING"} :
                      /\ Pauses(c, c.h, st)
                      /\ st = "WAITING" => c.to = "infinite" /\ ~Signalled(c.h)
                 /\ since'[Cur].to = c.to
<1>1. /\ Program /\ UNCHANGED exit
      /\ WaitSatisfied(c) \/ WaitPolls(c) \/ WaitExpires(c) \/ WaitBlocks(c)
  BY DEF WaitForSingleObject, Makes, keptByWait
<1>2. /\ due \in [Slot -> BOOLEAN] /\ RealTimeouts \in BOOLEAN
      /\ c \in CallSet /\ c.h \in WaitTargets /\ c.to \in Timeouts
  BY CallFacts, CoopAssumption DEF CoopInv, ThreadsOK, CoopAssumption
<1>3. CASE Finishes(TRUE)
  <2>1. Completes(TRUE)
    BY <1>1, <1>3, FinishCompletes
  <2>2. QED
    BY <1>1, <1>2, <1>3, <2>1 DEF Finishes
<1>4. CASE Finishes(FALSE) /\ (RealTimeouts => c.to = "zero")
  <2>1. Completes(FALSE)
    BY <1>1, <1>4, FinishCompletes
  <2>2. QED
    BY <1>1, <1>2, <1>4, <2>1 DEF Finishes
<1>5. ASSUME NEW st \in {"READY", "WAITING"}, Park(c, c.h, st), due' \in [Slot -> BOOLEAN],
             st = "WAITING" => c.to = "infinite" /\ ~Signalled(c.h)
      PROVE  /\ \E z \in {"READY", "WAITING"} :
                   /\ Pauses(c, c.h, z)
                   /\ z = "WAITING" => c.to = "infinite" /\ ~Signalled(c.h)
             /\ since'[Cur].to = c.to /\ due' \in [Slot -> BOOLEAN]
  BY <1>1, <1>2, <1>5, ParkPauses
<1>6. CASE WaitSatisfied(c)
  BY <1>2, <1>3, <1>4, <1>6 DEF WaitSatisfied
<1>7. CASE WaitExpires(c)
  BY <1>3, <1>7 DEF WaitExpires
<1>8. CASE WaitPolls(c)
  <2>1. CASE OtherReady(sched)
    <3>1. Park(c, c.h, "READY") /\ due' \in [Slot -> BOOLEAN]
      BY <1>2, <1>8, <2>1 DEF WaitPolls
    <3>2. QED
      BY <1>1, <1>5, <3>1
  <2>2. CASE ~OtherReady(sched)
    BY <1>4, <1>8, <2>2 DEF WaitPolls
  <2>3. QED
    BY <2>1, <2>2
<1>9. CASE WaitBlocks(c)
  <2>1. due' \in [Slot -> BOOLEAN] /\ ~Signalled(c.h)
    BY <1>2, <1>9 DEF WaitBlocks
  <2>2. CASE c.to = "infinite"
    <3>1. Park(c, c.h, "WAITING")
      BY <1>9, <2>2 DEF WaitBlocks
    <3>2. QED
      BY <1>1, <1>5, <2>1, <2>2, <3>1
  <2>3. CASE c.to # "infinite"
    <3>1. Park(c, c.h, "READY")
      BY <1>9, <2>3 DEF WaitBlocks
    <3>2. QED
      BY <1>1, <1>5, <2>1, <3>1
  <2>4. QED
    BY <2>2, <2>3
<1>10. QED
  BY <1>1, <1>6, <1>7, <1>8, <1>9

LEMMA MultiMoves ==
    ASSUME CoopInv, NEW c \in MultiWaits, WaitForMultipleObjects(c)
    PROVE  /\ Program /\ UNCHANGED <<exit, due>>
           /\ \/ Completes(FALSE)
              \/ /\ \E st \in {"READY", "WAITING"} : Pauses(c, c.hs[1], st)
                 /\ since'[Cur].to = c.to /\ ~Satisfied(c)
<1>1. Program /\ UNCHANGED exit /\ (MultiSatisfied(c) \/ MultiBlocks(c))
  BY DEF WaitForMultipleObjects, Makes, keptByWait
<1>2. c \in CallSet /\ c.hs[1] \in WaitTargets /\ c.to \in Timeouts
  BY CallFacts
<1>3. CASE Finishes(FALSE)
  <2>1. Completes(FALSE)
    BY <1>1, <1>3, FinishCompletes
  <2>2. QED
    BY <1>1, <1>3, <2>1 DEF Finishes
<1>4. CASE ~Satisfied(c) /\ \E st \in {"READY", "WAITING"} : Park(c, c.hs[1], st) /\ UNCHANGED due
  BY <1>1, <1>2, <1>4, ParkPauses
<1>5. MultiSatisfied(c) => Finishes(FALSE)
  BY DEF MultiSatisfied
<1>6. MultiBlocks(c) => \/ Finishes(FALSE)
                        \/ /\ ~Satisfied(c)
                           /\ \E st \in {"READY", "WAITING"} : Park(c, c.hs[1], st) /\ UNCHANGED due
  BY DEF MultiBlocks
<1>7. QED
  BY <1>1, <1>3, <1>4, <1>5, <1>6

LEMMA PortMoves ==
    ASSUME CoopInv, NEW c \in PortWaits, GetCompletion(c)
    PROVE  /\ Program /\ UNCHANGED <<exit, due>>
           /\ \/ Completes(FALSE)
              \/ Pauses(c, Port, "WAITING") /\ ~HasFor(comps, PortSlot)
<1>1. /\ Program /\ UNCHANGED exit
      /\ Finishes(FALSE) \/ (Park(c, Port, "WAITING") /\ UNCHANGED due /\ ~HasFor(comps, PortSlot))
  BY DEF GetCompletion, Makes
<1>2. c \in CallSet /\ Port \in WaitTargets /\ c.to \in Timeouts
  BY CallFacts
<1>3. CASE Finishes(FALSE)
  <2>1. Completes(FALSE)
    BY <1>1, <1>3, FinishCompletes
  <2>2. QED
    BY <1>1, <1>3, <2>1 DEF Finishes
<1>4. CASE Park(c, Port, "WAITING") /\ UNCHANGED due /\ ~HasFor(comps, PortSlot)
  BY <1>1, <1>2, <1>4, ParkPauses
<1>5. QED
  BY <1>1, <1>3, <1>4

LEMMA WithCvIs ==
    ASSUME CvTable(cvs), NEW c \in Cv
    PROVE  CvTable(WithCv(c)) /\ (HasCv(c) => WithCv(c) = cvs)
<1>1. /\ IsFiniteSet(DOMAIN cvs) /\ Cardinality(DOMAIN cvs) <= MaxCvs
      /\ \A d \in DOMAIN cvs : cvs[d] \in Nat
      /\ Cardinality(DOMAIN cvs) \in Nat /\ MaxCvs \in Nat
  BY FS_CardinalityType, CoopAssumption DEF CvTable, CoopAssumption
<1>2. CASE HasCv(c) \/ Cardinality(DOMAIN cvs) >= MaxCvs
  BY <1>2 DEF WithCv, CvTable
<1>3. CASE ~(HasCv(c) \/ Cardinality(DOMAIN cvs) >= MaxCvs)
  <2> DEFINE D == DOMAIN cvs \cup {c}
             f == [d \in D |-> IF d = c THEN 0 ELSE cvs[d]]
  <2>1. WithCv(c) = f
    BY <1>3 DEF WithCv
  <2>2. IsFiniteSet(D) /\ Cardinality(D) = Cardinality(DOMAIN cvs) + 1
    BY <1>1, <1>3, FS_AddElement DEF HasCv
  <2>3. \A d \in D : f[d] \in Nat
    BY <1>1
  <2>4. Cardinality(D) <= MaxCvs
    BY <1>1, <1>3, <2>2
  <2>5. DOMAIN f = D
    OBVIOUS
  <2> HIDE DEF D, f
  <2>6. CvTable(f)
    BY <2>2, <2>3, <2>4, <2>5 DEF CvTable
  <2>7. QED
    BY <1>3, <2>1, <2>6
<1>4. QED
  BY <1>2, <1>3

LEMMA CvMoves ==
    ASSUME CoopInv, NEW c \in CvSleeps, SleepCv(c)
    PROVE  /\ Program /\ UNCHANGED exit /\ due' \in [Slot -> BOOLEAN]
           /\ Completes(TRUE) \/ Pauses(c, AtCv(c.cv), "READY")
<1> DEFINE h == AtCv(c.cv)
<1>1. Program /\ UNCHANGED exit /\ (CvParks(c) \/ CvResumes(c))
  BY DEF SleepCv, Makes, keptByCv
<1>2. /\ c \in CallSet /\ h \in WaitTargets /\ c.to \in Timeouts
      /\ "READY" \in {"READY", "WAITING"} /\ "READY" # "WAITING"
  BY CallFacts DEF Timeouts
<1>3. /\ SchedOK(sched) /\ call \in [Slot -> CallSet] /\ due \in [Slot -> BOOLEAN]
      /\ since \in [Slot -> [to : {"none"} \cup Timeouts, gen : Nat]]
      /\ Cur \in Slot /\ sched.current = Cur /\ CvTable(cvs)
  BY <1>1, RunningSlot DEF CoopInv, ThreadsOK, Cur
<1> HIDE DEF h
<1>4. CASE CvParks(c)
  <2> DEFINE v == [sched EXCEPT !.wait[Cur] = h]
             g == IF c.cv \in DOMAIN WithCv(c.cv) THEN WithCv(c.cv)[c.cv] ELSE 0
  <2>1. /\ sched' = Yield(v, "READY")
        /\ call' = [call EXCEPT ![Cur] = IF YieldSwitches(v, "READY") THEN c ELSE NoCall]
        /\ since' = [since EXCEPT ![Cur] = [to |-> c.to, gen |-> g]]
        /\ due' = [due EXCEPT ![Cur] = FALSE]
    BY <1>4 DEF CvParks, h
  <2>2. v = [sched EXCEPT !.wait[sched.current] = h]
    BY <1>3
  <2>3. g \in Nat
    <3>1. c.cv \in Cv
      BY DEF CvSleeps
    <3>2. QED
      BY <1>3, <3>1, WithCvIs DEF CvTable
  <2> HIDE DEF v, g
  <2>4. /\ SchedOK(sched') /\ sched'.next = sched.next
        /\ \A i \in Slot :
             /\ sched'.state[i] = "WAITING" => sched.state[i] = "WAITING" /\ i # Cur
             /\ sched'.wait[i] = IF i = Cur THEN h ELSE sched.wait[i]
             /\ sched.state[i] = "EXITED" => sched'.state[i] = "EXITED"
        /\ YieldSwitches(v, "READY")
    BY <1>2, <1>3, <2>1, <2>2, ParkRuns
  <2>5. /\ call' \in [Slot -> CallSet] /\ call'[Cur] = c
        /\ \A i \in Slot : i # Cur => call'[i] = call[i]
    BY <1>2, <1>3, <2>1, <2>4
  <2>6. /\ since' \in [Slot -> [to : {"none"} \cup Timeouts, gen : Nat]]
        /\ \A i \in Slot : i # Cur => since'[i] = since[i]
    BY <1>2, <1>3, <2>1, <2>3
  <2>7. due' \in [Slot -> BOOLEAN]
    BY <1>3, <2>1
  <2>8. Pauses(c, h, "READY")
    BY <2>4, <2>5, <2>6 DEF Pauses
  <2>9. QED
    BY <1>1, <2>7, <2>8 DEF h
<1>5. CASE CvResumes(c)
  <2>1. CASE Finishes(TRUE)
    <3>1. Completes(TRUE)
      BY <1>1, <2>1, FinishCompletes
    <3>2. QED
      BY <1>1, <1>3, <2>1, <3>1 DEF Finishes
  <2>2. CASE ~Finishes(TRUE)
    <3>1. /\ sched.wait[Cur] = h /\ sched' = Yield(sched, "READY")
          /\ call' = [call EXCEPT ![Cur] = IF YieldSwitches(sched, "READY") THEN c ELSE NoCall]
          /\ UNCHANGED <<due, since>>
      BY <1>5, <2>2 DEF CvResumes, Parked, h
    <3>2. /\ SchedOK(sched') /\ sched'.wait = sched.wait /\ sched'.next = sched.next
          /\ \A i \in Slot : /\ sched'.state[i] = "WAITING" => sched.state[i] = "WAITING"
                             /\ sched.state[i] = "EXITED" => sched'.state[i] = "EXITED"
          /\ YieldSwitches(sched, "READY")
      BY <1>2, <1>3, <3>1, YieldRuns
    <3>3. /\ call' \in [Slot -> CallSet] /\ call'[Cur] = c
          /\ \A i \in Slot : i # Cur => call'[i] = call[i]
      BY <1>2, <1>3, <3>1, <3>2
    <3>4. sched.state[Cur] # "WAITING"
      BY <1>3 DEF SchedOK
    <3>5. Pauses(c, h, "READY")
      BY <1>3, <3>1, <3>2, <3>3, <3>4 DEF Pauses
    <3>6. QED
      BY <1>1, <1>3, <3>1, <3>5 DEF h
  <2>3. QED
    BY <2>1, <2>2
<1>6. QED
  BY <1>1, <1>4, <1>5

\* A paused engine goes on with another thread.
LEMMA TickMoves ==
    ASSUME CoopInv, TickPaused
    PROVE  /\ SchedOK(sched') /\ sched'.next = sched.next /\ sched'.wait = sched.wait
           /\ \A i \in Slot :
                /\ sched'.state[i] = "WAITING" => sched.state[i] = "WAITING" \/ i = Cur
                /\ sched.state[i] = "EXITED" => sched'.state[i] = "EXITED"
           /\ UNCHANGED <<call, due, since, exit>> /\ engine = "PAUSED"
BY TickRuns DEF TickPaused, CoopInv, ThreadsOK, Cur

LEMMA LoadStarts ==
    ASSUME Load
    PROVE  /\ SchedOK(sched') /\ ThreadsOK' /\ sched' = FreshSched
           /\ \A i \in Slot : call'[i] = NoCall /\ exit'[i] = "active"
                              /\ since'[i] = NotWaiting
<1>1. /\ sched' = FreshSched /\ call' = [i \in Slot |-> NoCall]
      /\ due' = [i \in Slot |-> TRUE] /\ since' = [i \in Slot |-> NotWaiting]
      /\ exit' = [i \in Slot |-> "active"]
  BY DEF Load
<1>2. NotWaiting \in [to : {"none"} \cup Timeouts, gen : Nat]
  BY DEF NotWaiting
<1>3. SchedOK(sched')
  BY <1>1, FreshOK
<1>4. QED
  BY <1>1, <1>2, <1>3, CallFacts DEF ThreadsOK

LEMMA ThreadsKept == ASSUME CoopInv, Next PROVE ThreadsOK'
<1>1. ThreadsOK
  BY DEF CoopInv
<1>2. CASE \/ CreateEvent \/ SetEvent \/ ResetEvent \/ CloseEvent \/ WakeCv
           \/ PostThreadMessage \/ PeekMessage \/ GetMessage \/ PostCompletion
           \/ NewThread \/ ResumeThread \/ Sleep \/ ProgramEnds \/ Preempt
           \/ ShowDialog \/ Tap \/ (\E t \in Slot : Elapse(t))
  BY <1>1, <1>2, Drifting DEF Goes, ThreadsOK
<1>3. CASE CallExitThread \/ ThreadReturns
  <2>1. PICK how \in {"called ExitThread", "returned"} : exit' = [exit EXCEPT ![Cur] = how]
    BY <1>3, Leaving
  <2>2. exit' \in [Slot -> {"active", "called ExitThread", "returned"}]
    BY <1>1, <2>1 DEF ThreadsOK
  <2>3. SchedOK(sched') /\ UNCHANGED <<call, since, due>>
    BY <1>3, Leaving DEF Goes
  <2>4. QED
    BY <1>1, <2>2, <2>3 DEF ThreadsOK
<1>4. CASE TickPaused
  BY <1>1, <1>4, TickMoves DEF ThreadsOK
<1>5. CASE Load
  BY <1>5, LoadStarts
<1>6. CASE \E c \in SingleWaits : WaitForSingleObject(c)
  BY <1>1, <1>6, SingleMoves DEF ThreadsOK, Pauses, Completes, Goes
<1>7. CASE \E c \in MultiWaits : WaitForMultipleObjects(c)
  BY <1>1, <1>7, MultiMoves DEF ThreadsOK, Pauses, Completes, Goes
<1>8. CASE \E c \in CvSleeps : SleepCv(c)
  BY <1>1, <1>8, CvMoves DEF ThreadsOK, Pauses, Completes, Goes
<1>9. CASE \E c \in PortWaits : GetCompletion(c)
  BY <1>1, <1>9, PortMoves DEF ThreadsOK, Pauses, Completes, Goes
<1>10. QED
  BY <1>2, <1>3, <1>4, <1>5, <1>6, <1>7, <1>8, <1>9 DEF Next, Waiting

LEMMA EventsKept == ASSUME CoopInv, Next PROVE EventsOK'
<1>1. /\ EventsOK /\ MaxEvents \in Nat
      /\ signalled \in [EventSlot -> BOOLEAN] /\ manual \in [EventSlot -> BOOLEAN]
      /\ next \in 0 .. MaxEvents /\ free \in Seq(EventSlot) /\ Len(free) <= MaxEvents
      /\ open \subseteq EventSlot /\ mixed \subseteq EventSlot
  BY CoopAssumption DEF CoopInv, EventsOK, CoopAssumption
<1>2. CASE UNCHANGED eventVars
  BY <1>1, <1>2 DEF EventsOK, eventVars
<1>3. CASE CreateEvent
  <2> DEFINE i == NewEvent
  <2>1. PICK man \in BOOLEAN, set \in BOOLEAN :
          /\ CanCreateEvent
          /\ signalled' = [signalled EXCEPT ![i] = set]
          /\ manual' = [manual EXCEPT ![i] = man]
          /\ free' = IF free # <<>> THEN SubSeq(free, 1, Len(free) - 1) ELSE free
          /\ next' = IF free # <<>> THEN next ELSE next + 1
          /\ open' = open \cup {i}
          /\ mixed' = IF i \in open THEN mixed \cup {i} ELSE mixed
    BY <1>3 DEF CreateEvent
  <2>2. CASE free # <<>>
    <3>1. Len(free) \in 1 .. Len(free)
      BY <1>1, <2>2
    <3>2. free[Len(free)] \in EventSlot
      BY <1>1, <3>1
    <3>3. i \in EventSlot
      BY <2>2, <3>2 DEF NewEvent
    <3>4. free' \in Seq(EventSlot) /\ Len(free') <= MaxEvents
      BY <1>1, <2>1, <2>2
    <3> HIDE DEF i
    <3>5. QED
      BY <1>1, <2>1, <2>2, <3>3, <3>4 DEF EventsOK
  <2>3. CASE free = <<>>
    <3>1. i = next /\ next < MaxEvents
      BY <2>1, <2>3 DEF NewEvent, CanCreateEvent
    <3>2. i \in EventSlot /\ next + 1 \in 0 .. MaxEvents
      BY <1>1, <3>1 DEF EventSlot
    <3> HIDE DEF i
    <3>3. QED
      BY <1>1, <2>1, <2>3, <3>2 DEF EventsOK
  <2>4. QED
    BY <2>2, <2>3
<1>4. CASE SetEvent \/ ResetEvent
  <2>1. PICK i \in EventSlot, b \in BOOLEAN : signalled' = [signalled EXCEPT ![i] = b]
    BY <1>4 DEF SetEvent, ResetEvent
  <2>2. UNCHANGED <<manual, next, free, open, mixed>>
    BY <1>4 DEF SetEvent, ResetEvent
  <2>3. QED
    BY <1>1, <2>1, <2>2 DEF EventsOK
<1>5. CASE CloseEvent
  <2>1. PICK i \in EventSlot :
          /\ free' = IF Len(free) < MaxEvents THEN Append(free, i) ELSE free
          /\ open' = open \ {i}
    BY <1>5 DEF CloseEvent
  <2>2. UNCHANGED <<signalled, manual, next, mixed>>
    BY <1>5 DEF CloseEvent
  <2>3. free' \in Seq(EventSlot) /\ Len(free') <= MaxEvents
    BY <1>1, <2>1
  <2>4. QED
    BY <1>1, <2>1, <2>2, <2>3 DEF EventsOK
<1>6. CASE Load
  BY <1>1, <1>6 DEF Load, EventsOK
<1>7. CASE UNCHANGED signalled \/ \E hs : Consume(hs)
  <2>1. signalled' \in [EventSlot -> BOOLEAN]
    BY <1>1, <1>7 DEF Consume
  <2>2. CASE UNCHANGED <<manual, next, free, open, mixed>>
    BY <1>1, <2>1, <2>2 DEF EventsOK
  <2>3. CASE ~UNCHANGED <<manual, next, free, open, mixed>>
    <3>1. ~(\E c \in SingleWaits : WaitForSingleObject(c))
      BY <2>3 DEF WaitForSingleObject, keptByWait
    <3>2. ~(\E c \in MultiWaits : WaitForMultipleObjects(c))
      BY <2>3 DEF WaitForMultipleObjects, keptByWait
    <3>3. QED
      BY <1>2, <1>3, <1>4, <1>5, <1>6, <3>1, <3>2, Frames
  <2>4. QED
    BY <2>2, <2>3
<1>8. CASE \E c \in SingleWaits : WaitForSingleObject(c)
  BY <1>7, <1>8 DEF WaitForSingleObject, WaitSatisfied, WaitPolls, WaitExpires, WaitBlocks
<1>9. CASE \E c \in MultiWaits : WaitForMultipleObjects(c)
  BY <1>7, <1>9 DEF WaitForMultipleObjects, MultiSatisfied, MultiBlocks
<1>10. QED
  BY <1>2, <1>3, <1>4, <1>5, <1>6, <1>8, <1>9, Frames

LEMMA CvsStay == ASSUME CoopInv, Next PROVE CvTable(cvs)'
<1>1. CvTable(cvs)
  BY DEF CoopInv
<1>2. CASE UNCHANGED cvs
  BY <1>1, <1>2 DEF CvTable
<1>3. CASE \E c \in CvSleeps : SleepCv(c)
  <2>1. \E c \in Cv : cvs' = WithCv(c)
    BY <1>3 DEF SleepCv, CvSleeps
  <2>2. QED
    BY <1>1, <2>1, WithCvIs DEF CvTable
<1>4. CASE WakeCv
  <2>1. PICK c \in Cv :
          cvs' = [d \in DOMAIN WithCv(c) |-> WithCv(c)[d] + IF d = c THEN 1 ELSE 0]
    BY <1>4 DEF WakeCv
  <2>2. CvTable(WithCv(c))
    BY <1>1, WithCvIs
  <2>3. DOMAIN cvs' = DOMAIN WithCv(c) /\ \A d \in DOMAIN cvs' : cvs'[d] \in Nat
    BY <2>1, <2>2 DEF CvTable
  <2>4. QED
    BY <2>2, <2>3 DEF CvTable
<1>5. QED
  BY <1>2, <1>3, <1>4, Frames

LEMMA EmptyRingIs ==
    EmptyRing \in Rings(Entries) /\ Used(EmptyRing) = 0 /\ Contents(EmptyRing) = <<>>
<1>1. EmptyRing \in Rings(Entries)
  BY CapAssumption DEF CapAssumption, EmptyRing, Rings, Cell, Entries
<1>2. EmptyRing.head = 0 /\ EmptyRing.tail = 0 /\ Cap \in Nat
  BY CapAssumption DEF CapAssumption, EmptyRing
<1>3. Used(EmptyRing) = 0
  BY <1>1, <1>2, RingPlaces
<1>4. Contents(EmptyRing) \in Seq(Entries) /\ Len(Contents(EmptyRing)) = 0
  BY <1>1, <1>3, ContentsAre
<1>5. QED
  BY <1>1, <1>3, <1>4

\* What a step does to the message ring.
LEMMA MessageMoves ==
    ASSUME CoopInv, Next
    PROVE  /\ msgs' \in Rings(Entries)
           /\ \/ UNCHANGED <<Contents(msgs), mail>>
              \/ \E t \in Slot, body \in {"a", "b"} :
                   /\ Used(msgs) < Cap - 1
                   /\ Contents(msgs') = Append(Contents(msgs), [to |-> t, body |-> body])
                   /\ UNCHANGED mail
              \/ LET k == Min(For(msgs, Cur)) IN
                   /\ Cur \in Slot /\ HasFor(msgs, Cur)
                   /\ mail' = [mail EXCEPT ![Cur] = <<Contents(msgs)[k]>>]
                   /\ Contents(msgs') = SubSeq(Contents(msgs), 1, k - 1) \o
                                        SubSeq(Contents(msgs), k + 1, Len(Contents(msgs)))
              \/ Contents(msgs') = <<>> /\ mail' = [i \in Slot |-> <<>>]
<1>1. msgs \in Rings(Entries)
  BY DEF CoopInv, QueuesOK
<1>2. CASE UNCHANGED <<msgs, mail>>
  BY <1>1, <1>2
<1>3. CASE PostThreadMessage
  <2>1. PICK t \in Slot, body \in {"a", "b"} : msgs' = Push(msgs, [to |-> t, body |-> body])
    BY <1>3 DEF PostThreadMessage
  <2>2. [to |-> t, body |-> body] \in Entries
    BY DEF Entries
  <2>3. UNCHANGED mail
    BY <1>3 DEF PostThreadMessage
  <2> DEFINE e == [to |-> t, body |-> body]
  <2> HIDE DEF e
  <2>4. /\ msgs' \in Rings(Entries) /\ (RingFull(msgs) => msgs' = msgs)
        /\ ~RingFull(msgs) => /\ Contents(msgs') = Append(Contents(msgs), e)
                              /\ Used(msgs) < Cap - 1
    BY <1>1, <2>1, <2>2, PushAppends DEF e
  <2>5. CASE RingFull(msgs)
    BY <2>3, <2>4, <2>5
  <2>6. CASE ~RingFull(msgs)
    BY <2>3, <2>4, <2>6 DEF e
  <2>7. QED
    BY <2>5, <2>6
<1>4. CASE PeekMessage \/ GetMessage
  <2>1. TakeMessage /\ Cur \in Slot
    BY <1>4, RunningSlot DEF PeekMessage, GetMessage, Calls
  <2>2. CASE HasFor(msgs, Cur)
    <3>1. msgs' = PopFor(msgs, Cur) /\ mail' = [mail EXCEPT ![Cur] = <<OldestFor(msgs, Cur)>>]
      BY <2>1, <2>2 DEF TakeMessage
    <3>2. QED
      BY <1>1, <2>1, <2>2, <3>1, PopForRemoves DEF OldestFor
  <2>3. CASE ~HasFor(msgs, Cur)
    BY <1>1, <2>1, <2>3 DEF TakeMessage
  <2>4. QED
    BY <2>2, <2>3
<1>5. CASE Load
  BY <1>5, EmptyRingIs DEF Load
<1>6. QED
  BY <1>2, <1>3, <1>4, <1>5, Frames

\* And to the completion ring.
LEMMA CompletionMoves ==
    ASSUME CoopInv, Next
    PROVE  /\ comps' \in Rings(Entries)
           /\ \A k \in 1 .. Used(comps') : Contents(comps')[k].to = PortSlot
           /\ \/ UNCHANGED <<Contents(comps), done>>
              \/ \E body \in {"a", "b"} :
                   /\ Used(comps) < Cap - 1
                   /\ Contents(comps') = Append(Contents(comps), [to |-> PortSlot, body |-> body])
                   /\ UNCHANGED done
              \/ LET k == Min(For(comps, PortSlot)) IN
                   /\ HasFor(comps, PortSlot)
                   /\ done' = <<Contents(comps)[k]>>
                   /\ Contents(comps') = SubSeq(Contents(comps), 1, k - 1) \o
                                         SubSeq(Contents(comps), k + 1, Len(Contents(comps)))
              \/ Contents(comps') = <<>> /\ done' = <<>>
<1>1. comps \in Rings(Entries) /\ \A k \in 1 .. Used(comps) : Contents(comps)[k].to = PortSlot
  BY DEF CoopInv, QueuesOK
<1>2. CASE UNCHANGED <<comps, done>>
  BY <1>1, <1>2
<1>3. CASE PostCompletion
  <2>1. PICK body \in {"a", "b"} : comps' = Push(comps, [to |-> PortSlot, body |-> body])
    BY <1>3 DEF PostCompletion
  <2>2. [to |-> PortSlot, body |-> body] \in Entries
    BY SlotFacts DEF Entries, PortSlot
  <2>3. UNCHANGED done
    BY <1>3 DEF PostCompletion
  <2> DEFINE e == [to |-> PortSlot, body |-> body]
  <2>4. e.to = PortSlot
    OBVIOUS
  <2> HIDE DEF e
  <2>5. /\ comps' \in Rings(Entries) /\ (RingFull(comps) => comps' = comps)
        /\ ~RingFull(comps) => /\ Contents(comps') = Append(Contents(comps), e)
                               /\ Used(comps) < Cap - 1 /\ Used(comps') = Used(comps) + 1
    BY <1>1, <2>1, <2>2, PushAppends DEF e
  <2>6. CASE RingFull(comps)
    BY <1>1, <2>3, <2>5, <2>6
  <2>7. CASE ~RingFull(comps)
    <3>1. Contents(comps) \in Seq(Entries) /\ Len(Contents(comps)) = Used(comps)
          /\ Used(comps) \in Nat
      BY <1>1, ContentsAre, RingPlaces
    <3>2. \A k \in 1 .. Used(comps') : Contents(comps')[k].to = PortSlot
      BY <1>1, <2>4, <2>5, <2>7, <3>1
    <3>3. QED
      BY <2>3, <2>5, <2>7, <3>2 DEF e
  <2>8. QED
    BY <2>6, <2>7
<1>4. CASE \E c \in PortWaits : GetCompletion(c)
  <2>1. CASE HasFor(comps, PortSlot)
    <3>1. comps' = DropHead(comps) /\ done' = <<OldestFor(comps, PortSlot)>>
      BY <1>4, <2>1 DEF GetCompletion
    <3>2. Min(For(comps, PortSlot)) \in 1 .. Used(comps)
          /\ \A j \in For(comps, PortSlot) : Min(For(comps, PortSlot)) <= j
      BY <1>1, <2>1, OldestPlace
    <3>3. Used(comps) \in Nat
      BY <1>1, RingPlaces, CapAssumption DEF CapAssumption
    <3>4. Used(comps) > 0
      BY <3>2, <3>3
    <3>5. 1 \in For(comps, PortSlot)
      BY <1>1, <3>3, <3>4 DEF For
    <3>6. Min(For(comps, PortSlot)) = 1
      BY <3>2, <3>3, <3>5
    <3>7. /\ comps' \in Rings(Entries) /\ Used(comps') = Used(comps) - 1
          /\ \A j \in 1 .. Used(comps) - 1 : Contents(comps')[j] = Contents(comps)[j + 1]
          /\ Contents(comps') = SubSeq(Contents(comps), 1, 1 - 1) \o
                                SubSeq(Contents(comps), 1 + 1, Len(Contents(comps)))
      BY <1>1, <3>1, <3>4, DropHeadRemoves
    <3>8. ASSUME NEW k \in 1 .. Used(comps') PROVE Contents(comps')[k].to = PortSlot
      <4>1. k \in 1 .. Used(comps) - 1 /\ k + 1 \in 1 .. Used(comps)
        BY <3>3, <3>7
      <4>2. Contents(comps')[k] = Contents(comps)[k + 1]
        BY <3>7, <4>1
      <4>3. QED
        BY <1>1, <4>1, <4>2
    <3>9. QED
      BY <2>1, <3>1, <3>6, <3>7, <3>8 DEF OldestFor
  <2>2. CASE ~HasFor(comps, PortSlot)
    BY <1>1, <1>4, <2>2 DEF GetCompletion
  <2>3. QED
    BY <2>1, <2>2
<1>5. CASE Load
  BY <1>5, EmptyRingIs DEF Load
<1>6. QED
  BY <1>2, <1>3, <1>4, <1>5, Frames

LEMMA EngineKept == ASSUME CoopInv, Next PROVE EngineOK'
<1>1. imports \in Programs \cup Later /\ engine \in {"RUNNING", "PAUSED", "HALTED"}
  BY DEF CoopInv, EngineOK
<1>2. imports' \in Programs \cup Later
  BY <1>1, Frames DEF Load
<1>3. engine' \in {"RUNNING", "PAUSED", "HALTED"}
  <2>1. CASE CreateEvent \/ SetEvent \/ ResetEvent \/ CloseEvent \/ WakeCv \/ PostThreadMessage
             \/ PeekMessage \/ GetMessage \/ PostCompletion
    BY <1>1, <2>1 DEF CreateEvent, SetEvent, ResetEvent, CloseEvent, WakeCv, PostThreadMessage,
                      PeekMessage, GetMessage, PostCompletion, keptByCv
  <2>2. CASE Waiting
    BY <1>1, <2>2 DEF Waiting, WaitForSingleObject, WaitForMultipleObjects, SleepCv,
                      GetCompletion, keptByWait, keptByCv
  <2>3. CASE NewThread \/ ResumeThread \/ Sleep \/ CallExitThread \/ ThreadReturns
    BY <1>1, <2>3 DEF NewThread, ResumeThread, Sleep, CallExitThread, ThreadReturns, Ends
  <2>4. CASE ProgramEnds \/ Preempt \/ ShowDialog \/ TickPaused \/ Tap \/ Load
             \/ (\E t \in Slot : Elapse(t))
    BY <1>1, <2>4 DEF ProgramEnds, Preempt, ShowDialog, TickPaused, Tap, Load, Elapse
  <2>5. QED
    BY <2>1, <2>2, <2>3, <2>4 DEF Next
<1>4. QED
  BY <1>2, <1>3 DEF EngineOK

LEMMA CoopInit == Init => CoopInv
<1> SUFFICES ASSUME Init PROVE CoopInv
  OBVIOUS
<1>1. ThreadsOK
  BY FreshOK, CallFacts DEF Init, ThreadsOK, NotWaiting
<1>2. EventsOK
  BY CoopAssumption DEF CoopAssumption, Init, EventsOK
<1>3. CvTable(cvs)
  <2>1. cvs = <<>> /\ DOMAIN cvs = {} /\ MaxCvs \in Nat
    BY CoopAssumption DEF CoopAssumption, Init
  <2>2. QED
    BY <2>1, FS_EmptySet DEF CvTable
<1>4. QueuesOK
  BY EmptyRingIs DEF Init, QueuesOK
<1>5. EngineOK
  BY DEF Init, EngineOK
<1>6. QED
  BY <1>1, <1>2, <1>3, <1>4, <1>5 DEF CoopInv

LEMMA CoopStep == CoopInv /\ [Next]_vars => CoopInv'
<1>1. ASSUME CoopInv, Next PROVE CoopInv'
  <2>1. QueuesOK'
    BY <1>1, MessageMoves, CompletionMoves DEF QueuesOK
  <2>2. QED
    BY <1>1, <2>1, ThreadsKept, EventsKept, CvsStay, EngineKept DEF CoopInv
<1>2. ASSUME CoopInv, UNCHANGED vars PROVE CoopInv'
  BY <1>2 DEF CoopInv, ThreadsOK, EventsOK, CvTable, QueuesOK, EngineOK, vars, threadVars,
              eventVars, queueVars
<1>3. QED
  BY <1>1, <1>2

\* Every reachable state.
LEMMA CoopReach == Spec => []CoopInv
BY CoopInit, CoopStep, PTL DEF Spec

-----------------------------------------------------------------------------
(* The rings are mailboxes.                                                  *)

LEMMA SameMin == \A S : MsgBox!Min(S) = Min(S) /\ PortBox!Min(S) = Min(S)
BY DEF MsgBox!Min, PortBox!Min, Min

\* s_thread_msgs and s_completions, with removals from the middle, full rings
\* that drop and a program that goes, implement bounded mailboxes
\* (wg_engine.c:1113-1165).
THEOREM RingsAreMailboxes == Spec => RingsImplementMailbox
<1>1. Init => MsgBox!MailboxInit /\ PortBox!MailboxInit
  BY EmptyRingIs DEF Init, MsgBox!MailboxInit, PortBox!MailboxInit
<1>2. ASSUME CoopInv, Next
      PROVE  \/ MsgBox!Send \/ MsgBox!Receive \/ MsgBox!Clear
             \/ UNCHANGED <<Contents(msgs), mail>>
  <2>1. /\ DOMAIN Contents(msgs) = 1 .. Used(msgs) /\ Len(Contents(msgs)) = Used(msgs)
    BY <1>2, ContentsAre DEF CoopInv, QueuesOK
  <2>2. CASE \E t \in Slot, body \in {"a", "b"} :
               /\ Used(msgs) < Cap - 1
               /\ Contents(msgs') = Append(Contents(msgs), [to |-> t, body |-> body])
               /\ UNCHANGED mail
    BY <2>1, <2>2 DEF MsgBox!Send
  <2>3. CASE LET k == Min(For(msgs, Cur)) IN
               /\ Cur \in Slot /\ HasFor(msgs, Cur)
               /\ mail' = [mail EXCEPT ![Cur] = <<Contents(msgs)[k]>>]
               /\ Contents(msgs') = SubSeq(Contents(msgs), 1, k - 1) \o
                                    SubSeq(Contents(msgs), k + 1, Len(Contents(msgs)))
    <3> DEFINE mine == {k \in DOMAIN Contents(msgs) : Contents(msgs)[k].to = Cur}
    <3>1. mine = For(msgs, Cur) /\ mine # {}
      BY <2>1, <2>3 DEF For, HasFor
    <3>2. MsgBox!Min(mine) = Min(For(msgs, Cur))
      BY <3>1, SameMin
    <3>3. QED
      BY <2>3, <3>1, <3>2 DEF MsgBox!Receive, MsgBox!RemoveAt
  <2>4. CASE Contents(msgs') = <<>> /\ mail' = [i \in Slot |-> <<>>]
    BY <2>4 DEF MsgBox!Clear
  <2>5. QED
    BY <1>2, <2>2, <2>3, <2>4, MessageMoves
<1>3. ASSUME CoopInv, Next
      PROVE  \/ PortBox!Send \/ PortBox!Receive \/ PortBox!Clear
             \/ UNCHANGED <<Contents(comps), [a \in {PortSlot} |-> done]>>
  <2>1. /\ DOMAIN Contents(comps) = 1 .. Used(comps) /\ Len(Contents(comps)) = Used(comps)
    BY <1>3, ContentsAre DEF CoopInv, QueuesOK
  <2>2. CASE \E body \in {"a", "b"} :
               /\ Used(comps) < Cap - 1
               /\ Contents(comps') = Append(Contents(comps), [to |-> PortSlot, body |-> body])
               /\ UNCHANGED done
    BY <2>1, <2>2 DEF PortBox!Send
  <2>3. CASE LET k == Min(For(comps, PortSlot)) IN
               /\ HasFor(comps, PortSlot)
               /\ done' = <<Contents(comps)[k]>>
               /\ Contents(comps') = SubSeq(Contents(comps), 1, k - 1) \o
                                     SubSeq(Contents(comps), k + 1, Len(Contents(comps)))
    <3> DEFINE mine == {k \in DOMAIN Contents(comps) : Contents(comps)[k].to = PortSlot}
    <3>1. mine = For(comps, PortSlot) /\ mine # {}
      BY <2>1, <2>3 DEF For, HasFor
    <3>2. PortBox!Min(mine) = Min(For(comps, PortSlot))
      BY <3>1, SameMin
    <3>3. [a \in {PortSlot} |-> done]'
            = [[a \in {PortSlot} |-> done] EXCEPT ![PortSlot] =
                 <<Contents(comps)[Min(For(comps, PortSlot))]>>]
      BY <2>3
    <3>4. QED
      BY <2>3, <3>1, <3>2, <3>3 DEF PortBox!Receive, PortBox!RemoveAt
  <2>4. CASE Contents(comps') = <<>> /\ done' = <<>>
    BY <2>4 DEF PortBox!Clear
  <2>5. CASE UNCHANGED <<Contents(comps), done>>
    BY <2>5
  <2>6. QED
    BY <1>3, <2>2, <2>3, <2>4, <2>5, CompletionMoves
<1>4. ASSUME UNCHANGED vars
      PROVE  UNCHANGED <<Contents(msgs), mail>> /\
             UNCHANGED <<Contents(comps), [a \in {PortSlot} |-> done]>>
  BY <1>4 DEF vars, queueVars
<1>5. CoopInv /\ [Next]_vars =>
        [MsgBox!Send \/ MsgBox!Receive \/ MsgBox!Clear]_<<Contents(msgs), mail>>
  BY <1>2, <1>4
<1>6. CoopInv /\ [Next]_vars =>
        [PortBox!Send \/ PortBox!Receive \/ PortBox!Clear]_
          <<Contents(comps), [a \in {PortSlot} |-> done]>>
  BY <1>3, <1>4
<1>7. Spec => MsgBox!MailboxSpec
  BY <1>1, <1>5, CoopReach, PTL DEF Spec, MsgBox!MailboxSpec
<1>8. Spec => PortBox!MailboxSpec
  BY <1>1, <1>6, CoopReach, PTL DEF Spec, PortBox!MailboxSpec
<1>9. QED
  BY <1>7, <1>8 DEF RingsImplementMailbox, MessagesImplementMailbox, CompletionsImplementMailbox

-----------------------------------------------------------------------------
(* Clocks of waits.                                                          *)

\* A thread calls only what its program imports; the clock of a wait for one
\* object is that wait's; sleepers and readers of the port wait for no handle.
ClockAt(t) ==
    /\ call[t].fn \in imports.fns \cup {"none"}
    /\ call[t].fn = "WaitForSingleObject" => since[t].to = call[t].to
    /\ call[t].fn \in {"SleepConditionVariableCS", "GetQueuedCompletionStatus"}
         => sched.wait[t] \notin Handles
    /\ "WaitForMultipleObjects" \notin imports.fns /\ call[t] = NoCall
         => ~(since[t].to = "finite" /\ sched.wait[t] \in Handles)

ClockInv == \A t \in Slot : ClockAt(t)

LEMMA MakesFacts ==
    /\ \A c \in SingleWaits : WaitForSingleObject(c) => Makes(c)
    /\ \A c \in MultiWaits : WaitForMultipleObjects(c) => Makes(c)
    /\ \A c \in CvSleeps : SleepCv(c) => Makes(c)
    /\ \A c \in PortWaits : GetCompletion(c) => Makes(c)
    /\ \A c : Makes(c) => call[Cur] = c \/ (call[Cur] = NoCall /\ c.fn \in imports.fns)
BY DEF WaitForSingleObject, WaitForMultipleObjects, SleepCv, GetCompletion, Makes

LEMMA ClockStep ==
    ASSUME RealTimeouts, CoopInv, ClockInv, Next
    PROVE  ClockInv'
<1>1. /\ NoHandle \notin Handles /\ Port \notin Handles /\ \A v \in Cv : AtCv(v) \notin Handles
      /\ NoCall.fn = "none"
  BY HandlesApart DEF NoCall
<1>2. \A t \in Slot : ClockAt(t)
  BY DEF ClockInv
<1>3. ASSUME UNCHANGED imports, UNCHANGED <<call, since>>,
             \A i \in Slot : sched'.wait[i] \in {sched.wait[i], NoHandle}
      PROVE  ClockInv'
  BY <1>1, <1>2, <1>3 DEF ClockInv, ClockAt
<1>4. CASE \/ CreateEvent \/ SetEvent \/ ResetEvent \/ CloseEvent \/ WakeCv
           \/ PostThreadMessage \/ PeekMessage \/ GetMessage \/ PostCompletion
           \/ NewThread \/ ResumeThread \/ Sleep \/ ProgramEnds \/ Preempt
           \/ ShowDialog \/ Tap \/ (\E t \in Slot : Elapse(t))
  <2>1. UNCHANGED <<call, since>> /\ \A i \in Slot : sched'.wait[i] \in {sched.wait[i], NoHandle}
    BY <1>4, Drifting DEF Goes
  <2>2. CASE Load
    BY <1>1, <2>2, LoadStarts DEF ClockInv, ClockAt, NotWaiting
  <2>3. CASE ~Load
    BY <1>3, <2>1, <2>3, Frames
  <2>4. QED
    BY <2>2, <2>3
<1>5. CASE CallExitThread \/ ThreadReturns \/ TickPaused
  <2>1. UNCHANGED <<call, since, imports>>
    BY <1>5 DEF CallExitThread, ThreadReturns, TickPaused, Ends, keptByThread
  <2>2. \A i \in Slot : sched'.wait[i] \in {sched.wait[i], NoHandle}
    BY <1>5, Leaving, TickMoves DEF Goes
  <2>3. QED
    BY <1>3, <2>1, <2>2
<1>6. CASE Load
  BY <1>1, <1>6, LoadStarts DEF ClockInv, ClockAt, NotWaiting
<1>7. CASE Waiting
  <2>1. UNCHANGED imports
    BY <1>7 DEF Waiting, WaitForSingleObject, WaitForMultipleObjects, SleepCv, GetCompletion,
                keptByWait, keptByCv
  <2>2. PICK u \in Slot : u = Cur
    <3>1. Program
      BY <1>7, MakesFacts DEF Waiting, Makes
    <3>2. QED
      BY <3>1, RunningSlot
  <2>3. ASSUME NEW h, NEW c, NEW st, Pauses(c, h, st), NEW t \in Slot, t # u PROVE ClockAt(t)'
    BY <1>2, <2>1, <2>2, <2>3 DEF Pauses, ClockAt
  <2>4. ASSUME NEW b, Completes(b), NEW t \in Slot, t # u PROVE ClockAt(t)'
    BY <1>2, <2>1, <2>2, <2>4 DEF Completes, ClockAt
  <2>5. ASSUME Completes(TRUE) PROVE ClockAt(u)'
    BY <1>1, <2>2, <2>5 DEF Completes, ClockAt
  <2>6. ASSUME Completes(FALSE),
               "WaitForMultipleObjects" \in imports.fns \/ since[u].to # "finite"
                 \/ sched.wait[u] \notin Handles
        PROVE  ClockAt(u)'
    BY <1>1, <2>1, <2>2, <2>6 DEF Completes, ClockAt
  <2>7. CASE \E c \in SingleWaits : WaitForSingleObject(c)
    <3>1. PICK c \in SingleWaits : WaitForSingleObject(c)
      BY <2>7
    <3>2. /\ c.fn = "WaitForSingleObject" /\ c.fn # "none"
          /\ call[u] = c \/ (call[u] = NoCall /\ c.fn \in imports.fns)
      BY <2>2, <3>1, SingleMoves, MakesFacts, CallFacts
    <3>3. c.fn \in imports.fns
      BY <1>2, <3>2 DEF ClockAt
    <3>4. CASE Completes(TRUE)
      BY <2>4, <2>5, <3>2, <3>4 DEF ClockInv
    <3>5. CASE Completes(FALSE) /\ (RealTimeouts => c.to = "zero")
      <4>1. "WaitForMultipleObjects" \in imports.fns \/ since[u].to # "finite"
                 \/ sched.wait[u] \notin Handles
        BY <1>2, <3>2, <3>5 DEF ClockAt
      <4>2. QED
        BY <2>4, <2>6, <3>2, <3>5, <4>1 DEF ClockInv
    <3>6. CASE /\ \E st \in {"READY", "WAITING"} :
                      /\ Pauses(c, c.h, st)
                      /\ st = "WAITING" => c.to = "infinite" /\ ~Signalled(c.h)
               /\ since'[u].to = c.to
      <4>1. PICK st \in {"READY", "WAITING"} :
                      /\ Pauses(c, c.h, st)
                      /\ st = "WAITING" => c.to = "infinite"
        BY <3>6
      <4>2. call'[u] \in {c, NoCall} /\ (st = "READY" => call'[u] = c)
        BY <2>2, <4>1 DEF Pauses
      <4>3. c # NoCall
        BY <1>1, <3>2
      <4>4. call'[u] = NoCall => since'[u].to # "finite"
        BY <3>6, <4>1, <4>2, <4>3
      <4>5. ClockAt(u)'
        BY <1>1, <2>1, <3>2, <3>3, <3>6, <4>2, <4>4 DEF ClockAt
      <4>6. QED
        BY <2>3, <4>1, <4>5 DEF ClockInv
    <3>7. QED
      BY <2>2, <3>1, <3>4, <3>5, <3>6, SingleMoves
  <2>8. CASE \E c \in MultiWaits : WaitForMultipleObjects(c)
    <3>1. PICK c \in MultiWaits : WaitForMultipleObjects(c)
      BY <2>8
    <3>2. /\ c.fn = "WaitForMultipleObjects" /\ c.fn # "none"
          /\ call[u] = c \/ (call[u] = NoCall /\ c.fn \in imports.fns)
      BY <2>2, <3>1, MultiMoves, MakesFacts, CallFacts
    <3>3. c.fn \in imports.fns
      BY <1>2, <3>2 DEF ClockAt
    <3>4. CASE Completes(FALSE)
      BY <2>4, <2>6, <3>2, <3>3, <3>4 DEF ClockInv
    <3>5. CASE \E st \in {"READY", "WAITING"} : Pauses(c, c.hs[1], st)
      <4>1. PICK st \in {"READY", "WAITING"} : Pauses(c, c.hs[1], st)
        BY <3>5
      <4>2. call'[u] \in {c, NoCall}
        BY <2>2, <4>1 DEF Pauses
      <4>3. ClockAt(u)'
        BY <1>1, <2>1, <3>2, <3>3, <4>2 DEF ClockAt
      <4>4. QED
        BY <2>3, <4>1, <4>3 DEF ClockInv
    <3>6. QED
      BY <3>1, <3>4, <3>5, MultiMoves
  <2>9. CASE \E c \in CvSleeps : SleepCv(c)
    <3>1. PICK c \in CvSleeps : SleepCv(c)
      BY <2>9
    <3>2. /\ c.fn = "SleepConditionVariableCS" /\ c.fn # "none"
          /\ call[u] = c \/ (call[u] = NoCall /\ c.fn \in imports.fns)
          /\ AtCv(c.cv) \notin Handles
      BY <1>1, <2>2, <3>1, CvMoves, MakesFacts, CallFacts DEF CvSleeps
    <3>3. c.fn \in imports.fns
      BY <1>2, <3>2 DEF ClockAt
    <3>4. CASE Completes(TRUE)
      BY <2>4, <2>5, <3>2, <3>4 DEF ClockInv
    <3>5. CASE Pauses(c, AtCv(c.cv), "READY")
      <4>1. call'[u] = c /\ sched'.wait[u] = AtCv(c.cv)
        BY <2>2, <3>2, <3>5 DEF Pauses
      <4>2. ClockAt(u)'
        BY <1>1, <2>1, <3>2, <3>3, <4>1 DEF ClockAt
      <4>3. QED
        BY <2>3, <3>5, <4>2 DEF ClockInv
    <3>6. QED
      BY <3>1, <3>4, <3>5, CvMoves
  <2>10. CASE \E c \in PortWaits : GetCompletion(c)
    <3>1. PICK c \in PortWaits : GetCompletion(c)
      BY <2>10
    <3>2. /\ c.fn = "GetQueuedCompletionStatus" /\ c.fn # "none"
          /\ call[u] = c \/ (call[u] = NoCall /\ c.fn \in imports.fns)
      BY <2>2, <3>1, PortMoves, MakesFacts, CallFacts
    <3>3. c.fn \in imports.fns
      BY <1>2, <3>2 DEF ClockAt
    <3>4. CASE Completes(FALSE)
      <4>1. "WaitForMultipleObjects" \in imports.fns \/ since[u].to # "finite"
                 \/ sched.wait[u] \notin Handles
        BY <1>2, <3>2 DEF ClockAt
      <4>2. QED
        BY <2>4, <2>6, <3>2, <3>4, <4>1 DEF ClockInv
    <3>5. CASE Pauses(c, Port, "WAITING")
      <4>1. call'[u] \in {c, NoCall} /\ sched'.wait[u] = Port
        BY <2>2, <3>2, <3>5 DEF Pauses
      <4>2. ClockAt(u)'
        BY <1>1, <2>1, <3>2, <3>3, <4>1 DEF ClockAt
      <4>3. QED
        BY <2>3, <3>5, <4>2 DEF ClockInv
    <3>6. QED
      BY <3>1, <3>4, <3>5, PortMoves
  <2>11. QED
    BY <1>7, <2>7, <2>8, <2>9, <2>10 DEF Waiting
<1>8. QED
  BY <1>4, <1>5, <1>6, <1>7 DEF Next

\* One thread at a time has its registers in the emulator, the one marked RUNNING,
\* and the tables keep their types, for any number of threads, events, condition
\* variables and programs (wg_threading.c:149-233, wg_engine.c:1033-1165).
THEOREM OneCoopThreadRuns == Spec => [](CoopTypeOK /\ OnlyCurrentRuns)
<1>1. ASSUME CoopInv PROVE OnlyCurrentRuns
  <2>1. SchedOK(sched) /\ Cur = sched.current
    BY <1>1 DEF CoopInv, ThreadsOK, Cur
  <2>2. Cur \in Slot \cup {NoSlot}
    BY <2>1 DEF SchedOK, Scheds
  <2>3. \A i : i \in InState(sched, "RUNNING") <=> i \in {Cur} \ {NoSlot}
    BY <2>1, <2>2, SlotFacts DEF SchedOK, InState
  <2>4. QED
    BY <2>3 DEF OnlyCurrentRuns
<1>2. ASSUME CoopInv PROVE CoopTypeOK
  <2>1. /\ sched.state \in [Slot -> ThreadState] /\ sched.current \in Slot \cup {NoSlot}
        /\ sched.next \in 1 .. MaxThreads
    BY <1>2 DEF CoopInv, ThreadsOK, SchedOK, Scheds
  <2>2. {msgs.head, msgs.tail, comps.head, comps.tail} \subseteq Cell
    BY <1>2 DEF CoopInv, QueuesOK, Rings
  <2>3. call \in [Slot -> {NoCall} \cup SingleWaits \cup MultiWaits \cup CvSleeps \cup PortWaits]
    BY <1>2 DEF CoopInv, ThreadsOK, CallSet
  <2>4. QED
    BY <1>2, <2>1, <2>2, <2>3 DEF CoopInv, ThreadsOK, EventsOK, CvTable, EngineOK, CoopTypeOK
<1>3. QED
  BY <1>1, <1>2, CoopReach, PTL

\* With timeouts that are kept (s_real_timeouts; without it no clock is read), a
\* wait never takes the clock of an earlier one for its own
\* (wg_threading.c:149-233, wg_engine.c:6601-6620).
THEOREM SchedulerConsistent == ASSUME RealTimeouts PROVE Spec => []CoopConsistent
<1>1. Init => ClockInv
  BY DEF Init, ClockInv, ClockAt, NotWaiting, NoCall
<1>2. CoopInv /\ ClockInv /\ [Next]_vars => ClockInv'
  <2>1. ASSUME CoopInv, ClockInv, UNCHANGED vars PROVE ClockInv'
    BY <2>1 DEF ClockInv, ClockAt, vars, threadVars
  <2>2. QED
    BY <2>1, ClockStep
<1>3. ClockInv => NoStaleClock
  BY DEF ClockInv, ClockAt, NoStaleClock
<1>4. (CoopTypeOK /\ OnlyCurrentRuns) /\ NoStaleClock => CoopConsistent
  BY DEF CoopConsistent
<1>5. QED
  BY <1>1, <1>2, <1>3, <1>4, CoopReach, OneCoopThreadRuns, PTL DEF Spec

-----------------------------------------------------------------------------
(* Nobody stays parked on what it could have.                                *)

\* Calls are on events the guest holds.
UsesHeld == \A i \in EventSlot : InUse(i) => i \in open

\* A thread that is off the processor waits for what its call is about.
ParkedRight == \A t \in Slot : sched.state[t] = "WAITING" =>
    /\ call[t].fn = "WaitForSingleObject" => sched.wait[t] = call[t].h
    /\ call[t].fn = "WaitForMultipleObjects" => sched.wait[t] = call[t].hs[1]
    /\ call[t].fn = "GetQueuedCompletionStatus" => sched.wait[t] = Port

\* The engine pauses between two calls.
PausedIdle == engine = "PAUSED" => Cur = NoSlot \/ call[Cur] = NoCall

EndedGone == \A t \in Slot : exit[t] # "active" => sched.state[t] = "EXITED"

EventsFound == \A t \in Slot, i \in EventSlot \ mixed : ParkedOn(t, Event(i)) => ~signalled[i]

JoinsFound == \A t, n \in Slot : ParkedOn(t, Thread(n)) => exit[n] # "returned"

ParkInv == UsesHeld /\ ParkedRight /\ PausedIdle /\ EndedGone /\ EventsFound /\ JoinsFound
             /\ NoLostCompletion

\* What the steps of the threads have in common: only the current thread, in the
\* call it makes, can go off the processor; and what it waits for is not there.
Parks(c, h) ==
    /\ Program /\ Cur \in Slot /\ c \in SingleWaits \cup MultiWaits \cup CvSleeps \cup PortWaits
    /\ Makes(c) /\ call'[Cur] \in {c, NoCall}
    /\ \A i \in Slot : i # Cur => call'[i] = call[i]
    /\ \A i \in Slot : sched'.state[i] = "WAITING" =>
         \/ sched.state[i] = "WAITING" /\ sched'.wait[i] = sched.wait[i] /\ i # Cur
         \/ i = Cur /\ call'[i] = c /\ sched'.wait[i] = h

\* What an action does to the threads that wait, in one of five ways.
LEMMA ThreadMoves ==
    ASSUME CoopInv, Next
    PROVE  \/ Goes(sched, sched') /\ UNCHANGED <<call, exit>>
           \/ CallExitThread \/ ThreadReturns
           \/ TickPaused
           \/ Load
           \/ /\ UNCHANGED exit
              /\ \A i \in Slot : sched.state[i] = "EXITED" => sched'.state[i] = "EXITED"
              /\ \/ \E c \in SingleWaits : WaitForSingleObject(c) /\ Parks(c, c.h)
                       /\ (sched'.state[Cur] = "WAITING" => ~Signalled(c.h))
                 \/ \E c \in MultiWaits : WaitForMultipleObjects(c) /\ Parks(c, c.hs[1])
                       /\ (sched'.state[Cur] = "WAITING" => ~Satisfied(c))
                 \/ \E c \in CvSleeps : SleepCv(c) /\ Parks(c, AtCv(c.cv))
                 \/ \E c \in PortWaits : GetCompletion(c) /\ Parks(c, Port)
                       /\ (sched'.state[Cur] = "WAITING" => ~HasFor(comps, PortSlot))
<1>1. SchedOK(sched)
  BY DEF CoopInv, ThreadsOK
<1>2. ASSUME Program PROVE Cur \in Slot /\ sched.state[Cur] = "RUNNING"
  BY <1>1, <1>2, RunningSlot DEF SchedOK, Cur
<1>3. ASSUME Program, NEW b, Completes(b),
             NEW c \in SingleWaits \cup MultiWaits \cup CvSleeps \cup PortWaits, Makes(c), NEW h
      PROVE  /\ Parks(c, h) /\ sched'.state[Cur] # "WAITING"
             /\ \A i \in Slot : sched.state[i] = "EXITED" => sched'.state[i] = "EXITED"
  BY <1>2, <1>3 DEF Completes, Goes, Parks
<1>4. ASSUME Program, NEW st, NEW h,
             NEW c \in SingleWaits \cup MultiWaits \cup CvSleeps \cup PortWaits, Makes(c),
             Pauses(c, h, st)
      PROVE  /\ Parks(c, h) /\ (sched'.state[Cur] = "WAITING" => st = "WAITING")
             /\ \A i \in Slot : sched.state[i] = "EXITED" => sched'.state[i] = "EXITED"
  BY <1>2, <1>4 DEF Pauses, Parks
<1>5. ASSUME NEW c \in SingleWaits, WaitForSingleObject(c)
      PROVE  /\ UNCHANGED exit /\ Parks(c, c.h)
             /\ (sched'.state[Cur] = "WAITING" => ~Signalled(c.h))
             /\ \A i \in Slot : sched.state[i] = "EXITED" => sched'.state[i] = "EXITED"
  <2>1. Makes(c) /\ Program /\ UNCHANGED exit
    BY <1>5, MakesFacts DEF Makes, WaitForSingleObject, keptByWait
  <2>2. CASE \E b \in BOOLEAN : Completes(b)
    BY <1>3, <2>1, <2>2
  <2>3. CASE \E st \in {"READY", "WAITING"} :
               Pauses(c, c.h, st) /\ (st = "WAITING" => ~Signalled(c.h))
    BY <1>4, <2>1, <2>3
  <2>4. QED
    BY <1>5, <2>2, <2>3, SingleMoves
<1>6. ASSUME NEW c \in MultiWaits, WaitForMultipleObjects(c)
      PROVE  /\ UNCHANGED exit /\ Parks(c, c.hs[1])
             /\ (sched'.state[Cur] = "WAITING" => ~Satisfied(c))
             /\ \A i \in Slot : sched.state[i] = "EXITED" => sched'.state[i] = "EXITED"
  <2>1. Makes(c) /\ Program /\ UNCHANGED exit
    BY <1>6, MakesFacts DEF Makes, WaitForMultipleObjects, keptByWait
  <2>2. CASE Completes(FALSE)
    BY <1>3, <2>1, <2>2
  <2>3. CASE ~Satisfied(c) /\ \E st \in {"READY", "WAITING"} : Pauses(c, c.hs[1], st)
    BY <1>4, <2>1, <2>3
  <2>4. QED
    BY <1>6, <2>2, <2>3, MultiMoves
<1>7. ASSUME NEW c \in CvSleeps, SleepCv(c)
      PROVE  /\ UNCHANGED exit /\ Parks(c, AtCv(c.cv))
             /\ \A i \in Slot : sched.state[i] = "EXITED" => sched'.state[i] = "EXITED"
  <2>1. Makes(c) /\ Program /\ UNCHANGED exit
    BY <1>7, MakesFacts DEF Makes, SleepCv, keptByCv
  <2>2. CASE Completes(TRUE)
    BY <1>3, <2>1, <2>2
  <2>3. CASE Pauses(c, AtCv(c.cv), "READY")
    BY <1>4, <2>1, <2>3
  <2>4. QED
    BY <1>7, <2>2, <2>3, CvMoves
<1>8. ASSUME NEW c \in PortWaits, GetCompletion(c)
      PROVE  /\ UNCHANGED exit /\ Parks(c, Port)
             /\ (sched'.state[Cur] = "WAITING" => ~HasFor(comps, PortSlot))
             /\ \A i \in Slot : sched.state[i] = "EXITED" => sched'.state[i] = "EXITED"
  <2>1. Makes(c) /\ Program /\ UNCHANGED exit
    BY <1>8, MakesFacts DEF Makes, GetCompletion
  <2>2. CASE Completes(FALSE)
    BY <1>3, <2>1, <2>2
  <2>3. CASE Pauses(c, Port, "WAITING") /\ ~HasFor(comps, PortSlot)
    BY <1>4, <2>1, <2>3
  <2>4. QED
    BY <1>8, <2>2, <2>3, PortMoves
<1>9. CASE \/ CreateEvent \/ SetEvent \/ ResetEvent \/ CloseEvent \/ WakeCv
           \/ PostThreadMessage \/ PeekMessage \/ GetMessage \/ PostCompletion
           \/ NewThread \/ ResumeThread \/ Sleep \/ ProgramEnds \/ Preempt
           \/ ShowDialog \/ Tap \/ (\E t \in Slot : Elapse(t))
  BY <1>9, Drifting
<1>10. CASE Waiting
  BY <1>5, <1>6, <1>7, <1>8, <1>10, Zenon DEF Waiting
<1>11. QED
  BY <1>9, <1>10 DEF Next

\* Call c is about event i.
Uses(c, i) ==
    \/ c.fn = "WaitForSingleObject" /\ c.h = Event(i)
    \/ c.fn = "WaitForMultipleObjects" /\ \E k \in DOMAIN c.hs : c.hs[k] = Event(i)

LEMMA InUseIs == \A i : InUse(i) <=> \E t \in Slot : Uses(call[t], i)
BY DEF InUse, Uses

LEMMA UsesHeldStep ==
    ASSUME Careful, CoopInv, UsesHeld, Next
    PROVE  UsesHeld'
<1> SUFFICES ASSUME NEW i \in EventSlot, NEW t \in Slot, Uses(call'[t], i)
             PROVE  i \in open'
  BY DEF UsesHeld, InUse, Uses
<1>1. \A u \in Slot : Uses(call[u], i) => i \in open
  BY InUseIs DEF UsesHeld
<1>2. CASE Load
  <2>1. call'[t].fn = "none"
    BY <1>2, LoadStarts DEF NoCall
  <2>2. QED
    BY <2>1 DEF Uses
<1>3. CASE CloseEvent
  <2>1. PICK k \in EventSlot : ~InUse(k) /\ open' = open \ {k}
    BY <1>3 DEF CloseEvent
  <2>2. UNCHANGED call
    BY <1>3 DEF CloseEvent, threadVars
  <2>3. Uses(call[t], i)
    BY <2>2
  <2>4. i # k
    BY <2>1, <2>3, InUseIs
  <2>5. QED
    BY <1>1, <2>1, <2>3, <2>4
<1>4. CASE ~Load /\ ~CloseEvent
  <2>1. open \subseteq open'
    <3>1. CASE CreateEvent \/ SetEvent \/ ResetEvent
      BY <3>1 DEF CreateEvent, SetEvent, ResetEvent
    <3>2. CASE UNCHANGED eventVars
      BY <3>2 DEF eventVars
    <3>3. CASE \/ \E c \in SingleWaits : WaitForSingleObject(c)
               \/ \E c \in MultiWaits : WaitForMultipleObjects(c)
      BY <3>3 DEF WaitForSingleObject, WaitForMultipleObjects, keptByWait
    <3>4. QED
      BY <1>4, <3>1, <3>2, <3>3, Frames
  <2>2. CASE UNCHANGED call
    BY <1>1, <2>1, <2>2
  <2>3. CASE \E c, h : Parks(c, h)
    <3>1. PICK c, h : Parks(c, h)
      BY <2>3
    <3>2. CASE t # Cur
      BY <1>1, <2>1, <3>1, <3>2 DEF Parks
    <3>3. CASE t = Cur
      <4>1. call'[t] \in {c, NoCall} /\ Makes(c)
            /\ c \in SingleWaits \cup MultiWaits \cup CvSleeps \cup PortWaits
        BY <3>1, <3>3 DEF Parks
      <4>2. Uses(c, i)
        BY <4>1 DEF Uses, NoCall
      <4>3. CASE call[t] = c
        BY <1>1, <2>1, <4>2, <4>3
      <4>4. CASE /\ c.fn = "WaitForSingleObject" => Given(c.h)
                 /\ c.fn = "WaitForMultipleObjects" => \A k \in DOMAIN c.hs : Given(c.hs[k])
        <5>1. Given(Event(i))
          BY <4>2, <4>4 DEF Uses
        <5>2. i \in open
          BY <5>1, HandlesApart DEF Given
        <5>3. QED
          BY <2>1, <5>2
      <4>5. QED
        BY <3>3, <4>1, <4>3, <4>4 DEF Makes
    <3>4. QED
      BY <3>2, <3>3
  <2>4. QED
    BY <1>4, <2>2, <2>3, ThreadMoves, Leaving, TickMoves
<1>5. QED
  BY <1>2, <1>3, <1>4

LEMMA ParkedRightStep ==
    ASSUME CoopInv, ParkedRight, PausedIdle, Next
    PROVE  ParkedRight'
<1> DEFINE Right(t, c, w) ==
      /\ c.fn = "WaitForSingleObject" => w = c.h
      /\ c.fn = "WaitForMultipleObjects" => w = c.hs[1]
      /\ c.fn = "GetQueuedCompletionStatus" => w = Port
<1> SUFFICES ASSUME NEW t \in Slot, sched'.state[t] = "WAITING"
             PROVE  Right(t, call'[t], sched'.wait[t])
  BY DEF ParkedRight
<1>1. sched.state[t] = "WAITING" => Right(t, call[t], sched.wait[t])
  BY DEF ParkedRight
<1>2. Right(t, NoCall, sched'.wait[t])
  BY DEF NoCall
<1>3. CASE Goes(sched, sched') /\ UNCHANGED call
  BY <1>1, <1>3 DEF Goes
<1>4. CASE TickPaused
  <2>1. t = Cur => call[t] = NoCall
    BY <1>4, TickMoves, SlotFacts DEF PausedIdle
  <2>2. QED
    BY <1>1, <1>2, <1>4, <2>1, TickMoves
<1>5. CASE Load
  BY <1>2, <1>5, LoadStarts
<1>6. ASSUME NEW c, NEW h, Parks(c, h), Right(t, c, h)
      PROVE  Right(t, call'[t], sched'.wait[t])
  BY <1>1, <1>6 DEF Parks
<1>7. CASE \E c \in SingleWaits : Parks(c, c.h)
  BY <1>6, <1>7, CallFacts
<1>8. CASE \E c \in MultiWaits : Parks(c, c.hs[1])
  BY <1>6, <1>8, CallFacts
<1>9. CASE \E c \in CvSleeps : Parks(c, AtCv(c.cv))
  BY <1>6, <1>9, CallFacts
<1>10. CASE \E c \in PortWaits : Parks(c, Port)
  BY <1>6, <1>10, CallFacts
<1>11. QED
  BY <1>3, <1>4, <1>5, <1>7, <1>8, <1>9, <1>10, ThreadMoves, Leaving

LEMMA PausedIdleStep ==
    ASSUME CoopInv, PausedIdle, Next
    PROVE  PausedIdle'
<1> SUFFICES ASSUME engine' = "PAUSED" PROVE Cur' = NoSlot \/ call'[Cur'] = NoCall
  BY DEF PausedIdle
<1>1. ASSUME UNCHANGED <<sched, call>>, engine = "PAUSED" \/ call[Cur] = NoCall
      PROVE  Cur' = NoSlot \/ call'[Cur'] = NoCall
  BY <1>1 DEF PausedIdle, Cur
<1>2. CASE ShowDialog
  BY <1>1, <1>2 DEF ShowDialog, Calls, threadVars
<1>3. CASE \E t \in Slot : Elapse(t)
  BY <1>1, <1>3 DEF Elapse
<1>4. CASE GetMessage
  <2>1. Program /\ engine' = IF YieldSwitches(sched, "READY") THEN "RUNNING" ELSE "PAUSED"
    BY <1>4 DEF GetMessage, Calls
  <2>2. SchedOK(sched) /\ sched.current \in Slot
    BY <2>1, RunningSlot DEF CoopInv, ThreadsOK, Cur
  <2>3. QED
    BY <2>1, <2>2, YieldGoes
<1>5. CASE CreateEvent \/ SetEvent \/ ResetEvent \/ CloseEvent \/ WakeCv \/ PostThreadMessage
           \/ PeekMessage \/ PostCompletion \/ NewThread \/ ResumeThread \/ Sleep \/ Preempt
  <2>1. Program /\ UNCHANGED engine
    BY <1>5 DEF CreateEvent, SetEvent, ResetEvent, CloseEvent, WakeCv, PostThreadMessage,
                PeekMessage, PostCompletion, NewThread, ResumeThread, Sleep, Preempt, Calls,
                keptByCv
  <2>2. QED
    BY <2>1 DEF Program
<1>6. CASE Waiting
  <2>1. Program /\ UNCHANGED engine
    BY <1>6 DEF Waiting, WaitForSingleObject, WaitForMultipleObjects, SleepCv, GetCompletion,
                Makes, keptByWait, keptByCv
  <2>2. QED
    BY <2>1 DEF Program
<1>7. CASE CallExitThread \/ ThreadReturns \/ ProgramEnds
  <2>1. Program /\ engine' \in {engine, "HALTED"}
    BY <1>7 DEF CallExitThread, ThreadReturns, ProgramEnds, Ends, Calls
  <2>2. QED
    BY <2>1 DEF Program
<1>8. CASE TickPaused \/ Tap \/ Load
  BY <1>8 DEF TickPaused, Tap, Load
<1>9. QED
  BY <1>2, <1>3, <1>4, <1>5, <1>6, <1>7, <1>8 DEF Next

LEMMA EndedGoneStep ==
    ASSUME CoopInv, EndedGone, Next
    PROVE  EndedGone'
<1> SUFFICES ASSUME NEW t \in Slot, exit'[t] # "active" PROVE sched'.state[t] = "EXITED"
  BY DEF EndedGone
<1>1. exit[t] # "active" => sched.state[t] = "EXITED"
  BY DEF EndedGone
<1>2. CASE CallExitThread \/ ThreadReturns
  <2>1. PICK how : exit' = [exit EXCEPT ![Cur] = how]
    BY <1>2, Leaving
  <2>2. exit \in [Slot -> {"active", "called ExitThread", "returned"}]
    BY DEF CoopInv, ThreadsOK
  <2>3. t # Cur => exit'[t] = exit[t]
    BY <2>1, <2>2
  <2>4. sched'.state[Cur] = "EXITED" /\ (sched.state[t] = "EXITED" => sched'.state[t] = "EXITED")
    BY <1>2, Leaving DEF Goes
  <2>5. QED
    BY <1>1, <2>3, <2>4
<1>3. CASE UNCHANGED exit /\ \A i \in Slot : sched.state[i] = "EXITED" => sched'.state[i] = "EXITED"
  BY <1>1, <1>3
<1>4. CASE Load
  BY <1>4, LoadStarts
<1>5. QED
  BY <1>2, <1>3, <1>4, ThreadMoves, TickMoves DEF Goes

\* Who is parked after a step was parked before, or has just looked in vain.
LEMMA ParkedBefore ==
    ASSUME CoopInv, PausedIdle, Next, NEW t \in Slot, NEW h, ParkedOn(t, h)'
    PROVE  \/ ParkedOn(t, h)
           \/ ~Signalled(h) /\ UNCHANGED exit
<1> DEFINE On(c) == \/ c.fn = "WaitForSingleObject" /\ c.h = h
                    \/ c.fn = "WaitForMultipleObjects" /\ c.hs = <<h>>
<1>1. sched'.state[t] = "WAITING" /\ On(call'[t])
  BY DEF ParkedOn
<1>2. ParkedOn(t, h) <=> sched.state[t] = "WAITING" /\ On(call[t])
  BY DEF ParkedOn
<1>3. ~On(NoCall)
  BY DEF NoCall
<1>4. CASE Goes(sched, sched') /\ UNCHANGED call
  BY <1>1, <1>2, <1>4 DEF Goes
<1>5. CASE TickPaused
  <2>1. t = Cur => call[t] = NoCall
    BY <1>5, TickMoves, SlotFacts DEF PausedIdle
  <2>2. QED
    BY <1>1, <1>2, <1>3, <1>5, <2>1, TickMoves
<1>6. CASE Load
  BY <1>1, <1>3, <1>6, LoadStarts
<1> HIDE DEF On
<1>7. ASSUME NEW c, NEW g, Parks(c, g)
      PROVE  ParkedOn(t, h) \/ (t = Cur /\ On(c))
  BY <1>1, <1>2, <1>7 DEF Parks
<1>8. ASSUME NEW c \in SingleWaits, Parks(c, c.h), UNCHANGED exit,
             sched'.state[Cur] = "WAITING" => ~Signalled(c.h)
      PROVE  ParkedOn(t, h) \/ (~Signalled(h) /\ UNCHANGED exit)
  <2>1. On(c) => c.h = h
    BY CallFacts DEF On
  <2>2. QED
    BY <1>1, <1>7, <1>8, <2>1
<1>9. ASSUME NEW c \in MultiWaits, Parks(c, c.hs[1]), UNCHANGED exit,
             sched'.state[Cur] = "WAITING" => ~Satisfied(c)
      PROVE  ParkedOn(t, h) \/ (~Signalled(h) /\ UNCHANGED exit)
  <2>1. On(c) => c.hs = <<h>>
    BY CallFacts DEF On
  <2>2. c.hs = <<h>> /\ Signalled(h) => Satisfied(c)
    BY DEF Satisfied, Hits
  <2>3. QED
    BY <1>1, <1>7, <1>9, <2>1, <2>2
<1>10. ASSUME NEW c \in CvSleeps \cup PortWaits, NEW g, Parks(c, g)
       PROVE  ParkedOn(t, h)
  <2>1. ~On(c)
    BY CallFacts DEF On
  <2>2. QED
    BY <1>7, <1>10, <2>1
<1>11. QED
  BY <1>4, <1>5, <1>6, <1>8, <1>9, <1>10, ThreadMoves, Leaving

\* Which steps can signal an event.
LEMMA SignalsFall ==
    ASSUME CoopInv, Next
    PROVE  \/ SetEvent \/ CreateEvent \/ Load
           \/ (\A i \in EventSlot : signalled'[i] => signalled[i]) /\ mixed' = mixed
<1>1. signalled \in [EventSlot -> BOOLEAN]
  BY DEF CoopInv, EventsOK
<1>2. CASE UNCHANGED eventVars
  BY <1>2 DEF eventVars
<1>3. CASE ResetEvent
  BY <1>1, <1>3 DEF ResetEvent
<1>4. CASE CloseEvent
  BY <1>4 DEF CloseEvent
<1>5. ASSUME NEW hs, Consume(hs) PROVE \A i \in EventSlot : signalled'[i] => signalled[i]
  BY <1>5 DEF Consume
<1>6. CASE \E c \in SingleWaits : WaitForSingleObject(c)
  <2>1. mixed' = mixed /\ (UNCHANGED signalled \/ \E hs : Consume(hs))
    BY <1>6 DEF WaitForSingleObject, WaitSatisfied, WaitPolls, WaitExpires, WaitBlocks, keptByWait
  <2>2. QED
    BY <1>5, <2>1
<1>7. CASE \E c \in MultiWaits : WaitForMultipleObjects(c)
  <2>1. mixed' = mixed /\ (UNCHANGED signalled \/ \E hs : Consume(hs))
    BY <1>7 DEF WaitForMultipleObjects, MultiSatisfied, MultiBlocks, keptByWait
  <2>2. QED
    BY <1>5, <2>1
<1>8. QED
  BY <1>2, <1>3, <1>4, <1>6, <1>7, Frames

\* A thread parked on event i is in a call on it, and its wait_handle says so.
LEMMA ParkedFacts ==
    ASSUME NEW t \in Slot, NEW h, ParkedOn(t, h)
    PROVE  /\ sched.state[t] = "WAITING"
           /\ ParkedRight => sched.wait[t] = h
           /\ \A i : h = Event(i) => InUse(i)
<1>1. sched.state[t] = "WAITING"
  BY DEF ParkedOn
<1>2. CASE call[t].fn = "WaitForSingleObject" /\ call[t].h = h
  BY <1>1, <1>2 DEF ParkedRight, InUse
<1>3. CASE call[t].fn = "WaitForMultipleObjects" /\ call[t].hs = <<h>>
  <2>1. call[t].hs[1] = h /\ 1 \in DOMAIN call[t].hs
    BY <1>3
  <2>2. QED
    BY <1>1, <1>3, <2>1 DEF ParkedRight, InUse
<1>4. QED
  BY <1>2, <1>3 DEF ParkedOn

LEMMA EventsFoundStep ==
    ASSUME CoopInv, UsesHeld, PausedIdle, EventsFound, ParkedRight', Next
    PROVE  EventsFound'
<1> SUFFICES ASSUME NEW t \in Slot, NEW i \in EventSlot, i \notin mixed',
                    ParkedOn(t, Event(i))', signalled'[i]
             PROVE  FALSE
  BY DEF EventsFound
<1>1. ParkedOn(t, Event(i)) \/ ~Signalled(Event(i))
  BY ParkedBefore
<1>2. Signalled(Event(i)) <=> signalled[i]
  BY HandlesApart DEF Signalled
<1>3. ASSUME signalled[i], i \notin mixed PROVE FALSE
  BY <1>1, <1>2, <1>3 DEF EventsFound
<1>4. sched'.state[t] = "WAITING" /\ sched'.wait[t] = Event(i)
  <2>1. sched'.state[t] = "WAITING"
    BY DEF ParkedOn
  <2>2. CASE call'[t].fn = "WaitForSingleObject" /\ call'[t].h = Event(i)
    BY <2>1, <2>2 DEF ParkedRight
  <2>3. CASE call'[t].fn = "WaitForMultipleObjects" /\ call'[t].hs = <<Event(i)>>
    <3>1. call'[t].hs[1] = Event(i)
      BY <2>3
    <3>2. QED
      BY <2>1, <2>3, <3>1 DEF ParkedRight
  <2>4. QED
    BY <2>2, <2>3 DEF ParkedOn
<1>5. signalled \in [EventSlot -> BOOLEAN] /\ SchedOK(sched)
  BY DEF CoopInv, EventsOK, ThreadsOK
<1>6. CASE SetEvent
  <2>1. PICK k \in EventSlot : /\ signalled' = [signalled EXCEPT ![k] = TRUE]
                               /\ sched' = Wake(sched, Event(k)) /\ mixed' = mixed
    BY <1>6 DEF SetEvent
  <2>2. sched'.wait[t] # Event(k)
    BY <1>4, <1>5, <2>1, WakeGoes
  <2>3. i # k
    BY <1>4, <2>2
  <2>4. QED
    BY <1>3, <1>5, <2>1, <2>3
<1>7. CASE CreateEvent
  <2>1. /\ \E set : signalled' = [signalled EXCEPT ![NewEvent] = set]
        /\ mixed' = IF NewEvent \in open THEN mixed \cup {NewEvent} ELSE mixed
        /\ UNCHANGED <<sched, call>>
    BY <1>7 DEF CreateEvent, threadVars
  <2>2. ParkedOn(t, Event(i))
    BY <2>1 DEF ParkedOn
  <2>3. i \in open
    BY <2>2, ParkedFacts DEF UsesHeld
  <2>4. i # NewEvent /\ i \notin mixed
    BY <2>1, <2>3
  <2>5. signalled[i]
    BY <1>5, <2>1, <2>4
  <2>6. QED
    BY <1>3, <2>4, <2>5
<1>8. CASE Load
  <2>1. call'[t].fn = "none"
    BY <1>8, LoadStarts DEF NoCall
  <2>2. QED
    BY <2>1 DEF ParkedOn
<1>9. QED
  BY <1>3, <1>6, <1>7, <1>8, SignalsFall

\* Whoever has a slot that was taken has the slot's number for a handle.
LEMMA HandleIs ==
    ASSUME NEW s, SchedOK(s), NEW i \in Slot, s.state[i] # "FREE"
    PROVE  s.handle[i] = Thread(i)
<1>1. s.next \in Int /\ i \in Int
  <2>1. s.next \in 1 .. MaxThreads
    BY DEF SchedOK, Scheds
  <2>2. QED
    BY <2>1, SlotFacts
<1>2. ~(i >= s.next)
  BY DEF SchedOK
<1>3. i < s.next
  BY <1>1, <1>2
<1>4. QED
  BY <1>3 DEF SchedOK

LEMMA JoinsFoundStep ==
    ASSUME CoopInv, PausedIdle, EndedGone, JoinsFound, ParkedRight', Next
    PROVE  JoinsFound'
<1> SUFFICES ASSUME NEW t \in Slot, NEW n \in Slot, ParkedOn(t, Thread(n))', exit'[n] = "returned"
             PROVE  FALSE
  BY DEF JoinsFound
<1>1. /\ SchedOK(sched) /\ exit \in [Slot -> {"active", "called ExitThread", "returned"}]
  BY DEF CoopInv, ThreadsOK
<1>2. sched'.state[t] = "WAITING" /\ sched'.wait[t] = Thread(n)
  <2>1. sched'.state[t] = "WAITING"
    BY DEF ParkedOn
  <2>2. CASE call'[t].fn = "WaitForSingleObject" /\ call'[t].h = Thread(n)
    BY <2>1, <2>2 DEF ParkedRight
  <2>3. CASE call'[t].fn = "WaitForMultipleObjects" /\ call'[t].hs = <<Thread(n)>>
    <3>1. call'[t].hs[1] = Thread(n)
      BY <2>3
    <3>2. QED
      BY <2>1, <2>3, <3>1 DEF ParkedRight
  <2>4. QED
    BY <2>2, <2>3 DEF ParkedOn
<1>3. \A i \in Slot : sched.state[i] # "FREE" => sched.handle[i] = Thread(i)
  BY <1>1, HandleIs
<1>4. exit[n] = "returned" => Signalled(Thread(n))
  <2> SUFFICES ASSUME exit[n] = "returned" PROVE Signalled(Thread(n))
    OBVIOUS
  <2>1. sched.state[n] = "EXITED"
    BY DEF EndedGone
  <2>2. n \in Find(sched, Thread(n))
    BY <1>3, <2>1 DEF Find
  <2>3. Exited(sched, Thread(n))
    BY <2>1, <2>2 DEF Exited
  <2>4. QED
    BY <2>3, HandlesApart DEF Signalled
<1>5. CASE CallExitThread \/ ThreadReturns
  <2>1. PICK how \in {"called ExitThread", "returned"} :
          /\ exit' = [exit EXCEPT ![Cur] = how]
          /\ how = "returned" => \A i \in Slot :
               sched'.state[i] = "WAITING" => sched'.wait[i] # sched.handle[Cur]
    BY <1>5, Leaving
  <2>2. Goes(sched, sched') /\ UNCHANGED call /\ Cur \in Slot
    BY <1>5, Leaving
  <2>3. ParkedOn(t, Thread(n))
    BY <2>2 DEF Goes, ParkedOn
  <2>4. exit[n] # "returned"
    BY <2>3 DEF JoinsFound
  <2>5. n = Cur /\ how = "returned"
    BY <1>1, <2>1, <2>2, <2>4
  <2>6. sched.handle[Cur] = Thread(Cur)
    <3>1. sched.state[Cur] # "FREE"
      BY <1>1, <2>2 DEF SchedOK, Cur
    <3>2. QED
      BY <1>3, <2>2, <3>1
  <2>7. QED
    BY <1>2, <2>1, <2>5, <2>6
<1>6. CASE Load
  BY <1>6, LoadStarts
<1>7. CASE UNCHANGED exit
  BY <1>4, <1>7, ParkedBefore DEF JoinsFound
<1>8. QED
  BY <1>5, <1>6, <1>7, Frames

LEMMA NoLostCompletionStep ==
    ASSUME CoopInv, PausedIdle, NoLostCompletion, ParkedRight', Next
    PROVE  NoLostCompletion'
<1> SUFFICES ASSUME NEW t \in Slot, sched'.state[t] = "WAITING",
                    call'[t].fn = "GetQueuedCompletionStatus"
             PROVE  Used(comps') = 0
  BY DEF NoLostCompletion
<1>1. /\ SchedOK(sched) /\ comps \in Rings(Entries)
      /\ \A k \in 1 .. Used(comps) : Contents(comps)[k].to = PortSlot
  BY DEF CoopInv, ThreadsOK, QueuesOK
<1>2. sched'.wait[t] = Port
  BY DEF ParkedRight
<1>3. Used(comps) \in Nat
  BY <1>1, RingPlaces, CapAssumption DEF CapAssumption
<1>4. Used(comps) = 0 <=> ~HasFor(comps, PortSlot)
  <2>1. For(comps, PortSlot) = 1 .. Used(comps)
    BY <1>1 DEF For
  <2>2. QED
    BY <1>3, <2>1 DEF HasFor
<1>5. NoCall.fn = "none"
  BY DEF NoCall
<1>6. CASE Load
  BY <1>5, <1>6, LoadStarts
<1>7. Load \/ ~HasFor(comps, PortSlot)
  <2>1. ASSUME sched.state[t] = "WAITING", call[t] = call'[t] PROVE ~HasFor(comps, PortSlot)
    BY <1>4, <2>1 DEF NoLostCompletion
  <2>2. CASE Goes(sched, sched') /\ UNCHANGED call
    BY <2>1, <2>2 DEF Goes
  <2>3. CASE TickPaused
    <3>1. t = Cur => call[t] = NoCall
      BY <2>3, TickMoves, SlotFacts DEF PausedIdle
    <3>2. QED
      BY <1>5, <2>1, <2>3, <3>1, TickMoves
  <2>4. ASSUME NEW c, NEW h, Parks(c, h), c.fn # "GetQueuedCompletionStatus"
        PROVE  ~HasFor(comps, PortSlot)
    BY <2>1, <2>4 DEF Parks
  <2>5. CASE \/ \E c \in SingleWaits : Parks(c, c.h)
             \/ \E c \in MultiWaits : Parks(c, c.hs[1])
             \/ \E c \in CvSleeps : Parks(c, AtCv(c.cv))
    BY <2>4, <2>5, CallFacts
  <2>6. CASE \E c \in PortWaits : Parks(c, Port)
               /\ (sched'.state[Cur] = "WAITING" => ~HasFor(comps, PortSlot))
    BY <2>1, <2>6 DEF Parks
  <2>7. QED
    BY <2>2, <2>3, <2>5, <2>6, ThreadMoves, Leaving
<1>8. ~PostCompletion
  <2>1. PostCompletion => sched' = Wake(sched, Port)
    BY DEF PostCompletion
  <2>2. QED
    BY <1>1, <1>2, <2>1, WakeGoes
<1>9. ~Load => UNCHANGED comps
  <2>1. (\E c \in PortWaits : GetCompletion(c)) /\ ~Load => UNCHANGED comps
    BY <1>7 DEF GetCompletion
  <2>2. QED
    BY <1>8, <2>1, Frames
<1>10. QED
  BY <1>4, <1>6, <1>7, <1>9, EmptyRingIs DEF Load

\* If the guest closes an event only once and when nobody waits for it, no thread
\* stays parked on an event that is set, on a thread that returned or on the
\* port while it has a completion (wg_engine.c:6335-6343, 6389-6436, 6552-6640,
\* 10913-10922).
THEOREM NothingStaysParked == ASSUME Careful PROVE Spec => []NothingLostCoop
<1>1. Init => ParkInv
  <2> SUFFICES ASSUME Init PROVE ParkInv
    OBVIOUS
  <2>1. /\ \A t \in Slot : call[t].fn = "none" /\ exit[t] = "active"
        /\ engine = "RUNNING"
        /\ \A t \in Slot : sched.state[t] # "WAITING"
    BY DEF Init, NoCall, FreshSched
  <2>2. QED
    BY <2>1 DEF ParkInv, UsesHeld, InUse, ParkedRight, PausedIdle, EndedGone, EventsFound,
                JoinsFound, NoLostCompletion, ParkedOn
<1>2. CoopInv /\ ParkInv /\ [Next]_vars => ParkInv'
  <2>1. ASSUME CoopInv, ParkInv, Next PROVE ParkInv'
    <3>1. ParkedRight'
      BY <2>1, ParkedRightStep DEF ParkInv
    <3>2. QED
      BY <2>1, <3>1, UsesHeldStep, PausedIdleStep, EndedGoneStep, EventsFoundStep,
         JoinsFoundStep, NoLostCompletionStep DEF ParkInv
  <2>2. ASSUME ParkInv, UNCHANGED vars PROVE ParkInv'
    BY <2>2 DEF ParkInv, UsesHeld, InUse, ParkedRight, PausedIdle, EndedGone, EventsFound,
                JoinsFound, NoLostCompletion, ParkedOn, Cur, vars, threadVars, eventVars, queueVars
  <2>3. QED
    BY <2>1, <2>2
<1>3. ASSUME CoopInv, ParkInv PROVE NothingLostCoop
  <2>1. ASSUME NEW t \in Slot, NEW n \in 0 .. MaxThreads - 1, ParkedOn(t, Thread(n)),
               NEW j \in Find(sched, Thread(n))
        PROVE  exit[j] # "returned"
    <3>1. j \in Slot /\ sched.state[j] # "FREE" /\ sched.handle[j] = Thread(n)
      BY <2>1 DEF Find
    <3>2. sched.handle[j] = Thread(j)
      <4>1. SchedOK(sched)
        BY <1>3 DEF CoopInv, ThreadsOK
      <4>2. QED
        BY <3>1, <4>1, HandleIs
    <3>3. j = n
      BY <3>1, <3>2, HandlesApart
    <3>4. QED
      BY <1>3, <2>1, <3>1, <3>3 DEF ParkInv, JoinsFound
  <2>2. NoLostCoopWait
    BY <1>3, <2>1 DEF ParkInv, EventsFound, NoLostCoopWait
  <2>3. QED
    BY <1>3, <2>2 DEF ParkInv, NothingLostCoop
<1>4. QED
  BY <1>1, <1>2, <1>3, CoopReach, PTL DEF Spec
=============================================================================
