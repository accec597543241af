--------------------------- MODULE GuestIO_proofs ---------------------------
(* Theorems about the guest's connections to the world: for any number of     *)
(* handles, descriptors, files and cells, the tables of the I/O libraries and *)
(* the streams behind them stay in step.                                      *)
EXTENDS Sockets, Files, SequenceTheorems, FiniteSetTheorems, NaturalsInduction,
        WellFoundedInduction, TLAPS

-----------------------------------------------------------------------------
(* Numbers and sequences.                                                     *)

\* A set of natural numbers that has elements has a least one.
LEMMA LeastOf ==
    ASSUME NEW S, S # {}, S \subseteq Nat
    PROVE  Min(S) \in S /\ \A y \in S : Min(S) <= y
<1> DEFINE Less == {ss \in Nat \X Nat : ss[1] < ss[2]}
<1>1. OpToRel(<, Nat) = Less
  BY Zenon DEF OpToRel
<1>2. IsWellFoundedOn(Less, Nat)
  BY <1>1, NatLessThanWellFounded, Zenon
<1>3. PICK i \in S : \A j \in S : ~(<<j, i>> \in Less)
  <2> HIDE DEF Less
  <2> QED
    BY <1>2, WFMin
<1>4. \A j \in S : i <= j
  <2> TAKE j \in S
  <2> SUFFICES ASSUME j < i PROVE FALSE
    OBVIOUS
  <2> <<j, i>> \in Less
    OBVIOUS
  <2> QED
    BY <1>3
<1>5. QED
  BY <1>4 DEF Min

LEMMA LesserOf ==
    ASSUME NEW a \in Int, NEW b \in Int
    PROVE  Min({a, b}) = IF a <= b THEN a ELSE b
BY DEF Min

\* A sequence taken apart at n and put together.
LEMMA Split ==
    ASSUME NEW T, NEW s \in Seq(T), NEW n \in 0 .. Len(s)
    PROVE  /\ SubSeq(s, 1, n) \in Seq(T) /\ SubSeq(s, n + 1, Len(s)) \in Seq(T)
           /\ Len(SubSeq(s, 1, n)) = n /\ Len(SubSeq(s, n + 1, Len(s))) = Len(s) - n
           /\ SubSeq(s, 1, n) \o SubSeq(s, n + 1, Len(s)) = s
<1>1. Len(s) \in Nat /\ n \in Int /\ n + 1 \in Int /\ Len(s) \in Int
  BY LenProperties
<1>2. \A i \in 1 .. Len(s) : s[i] \in T
  BY ElementOfSeq
<1>3. SubSeq(s, 1, n) \in Seq(T) /\ Len(SubSeq(s, 1, n)) = n
  BY <1>1, <1>2, SubSeqProperties
<1>4. SubSeq(s, n + 1, Len(s)) \in Seq(T) /\ Len(SubSeq(s, n + 1, Len(s))) = Len(s) - n
  BY <1>1, <1>2, SubSeqProperties
<1>5. SubSeq(s, 1, n) \o SubSeq(s, n + 1, Len(s)) = SubSeq(s, 1, Len(s))
  <2> DEFINE m == 1
             last == Len(s)
  <2>1. m \in 1 .. Len(s) + 1 /\ n \in m - 1 .. Len(s) /\ last \in n .. Len(s)
    BY <1>1
  <2> HIDE DEF m, last
  <2>2. SubSeq(s, m, n) \o SubSeq(s, n + 1, last) = SubSeq(s, m, last)
    BY <2>1, ConcatAdjacentSubSeq
  <2>3. QED
    BY <2>2 DEF m, last
<1>6. QED
  BY <1>3, <1>4, <1>5, SubSeqFull

-----------------------------------------------------------------------------
(* Sockets.                                                                   *)

FdStates   == {"none", "new", "connecting", "up", "shut", "failed", "closed"}
HostSocks  == [state : FdStates, block : BOOLEAN, in : Seq(Nat), sent : Nat, fin : BOOLEAN]
FdStories  == [told : Nat, asked : BOOLEAN, fresh : BOOLEAN, key : Nat, own : BOOLEAN,
               nonblock : BOOLEAN, got : Seq(Nat), ready : SUBSET {"read", "write", "except"}]
Receivings == [slot : SocketSlot, bufs : Buffers, overlapped : BOOLEAN, counted : BOOLEAN]

SocketsShape ==
    /\ fds \in [SocketSlot -> 0 .. MaxFds] /\ reported \in [SocketSlot -> BOOLEAN]
    /\ bindings \in Seq([slot : SocketSlot, key : Fd])
    /\ conn \in [Fd -> HostSocks] /\ hist \in [Fd -> FdStories]
    /\ waiting \in Receivings \cup {Nobody}

\* A socket of the host is open as long as it has a slot, and it has one at most.
Open(c) == c.state \notin {"none", "closed"}

DescriptorsHeld ==
    /\ \A i, j \in Taken : fds[i] = fds[j] => i = j
    /\ \A i \in Taken : Open(conn[fds[i]])
    /\ \A f \in Fd : Open(conn[f]) => \E i \in Taken : fds[i] = f

\* What the guest did with a socket and was told of it agrees with what it is.
FdRight(c, h) ==
    /\ h.told = IF h.asked /\ h.fresh THEN 1 ELSE 0
    /\ h.nonblock => ~c.block
    /\ h.got \o c.in = [k \in 1 .. c.sent |-> k]
    /\ "read" \in h.ready => c.in # <<>> \/ c.fin \/ c.state \in {"shut", "failed", "closed"}
    /\ "write" \in h.ready => c.state \in {"up", "shut", "failed", "closed"}
    /\ "except" \in h.ready => c.state \in {"failed", "closed"}
    /\ c.state = "none" => ~h.asked /\ h.key = 0

FdsRight == \A f \in Fd : FdRight(conn[f], hist[f])

\* A slot in use has reported the connection of its descriptor, or of an earlier one,
\* and the associations of a descriptor that has its own are with its key.
Reports(h) == h.asked \/ ~h.fresh

ReportsRight == \A i \in Taken : reported[i] <=> Reports(hist[fds[i]])

BoundRight(i, h) == h.own =>
    /\ \A k \in DOMAIN bindings : bindings[k].slot = i => bindings[k].key = h.key
    /\ h.key # 0 => Bound(i)

BindingsRight == \A i \in Taken : BoundRight(i, hist[fds[i]])

\* Who waits in the host, waits rightly: on a blocking socket that select has not
\* called readable.
WaitRight(r, c, h) == r.slot \in Taken /\ c.block /\ "read" \notin h.ready

WaiterRight == waiting # Nobody =>
    WaitRight(waiting, conn[fds[waiting.slot]], hist[fds[waiting.slot]])

SocketsInv ==
    /\ SocketsShape /\ DescriptorsHeld /\ FdsRight /\ ReportsRight /\ BindingsRight /\ WaiterRight
    /\ right = TRUE

LEMMA SockNumbers ==
    /\ MaxFds \in Nat /\ MaxSockets \in Nat /\ MaxBindings \in Nat
    /\ Fd \subseteq Nat \ {0} /\ Fd \subseteq 0 .. MaxFds /\ SocketSlot \subseteq Nat /\ -1 \notin SocketSlot
    /\ \A n \in 0 .. MaxFds : n # 0 => n \in Fd
BY SocketsAssumption DEF SocketsAssumption, Fd, SocketSlot

LEMMA SockFields ==
    ASSUME SocketsShape, NEW f \in Fd
    PROVE  /\ conn[f] \in HostSocks /\ hist[f] \in FdStories
           /\ conn[f].state \in FdStates /\ conn[f].block \in BOOLEAN /\ conn[f].in \in Seq(Nat)
           /\ conn[f].sent \in Nat /\ conn[f].fin \in BOOLEAN
           /\ hist[f].told \in Nat /\ hist[f].asked \in BOOLEAN /\ hist[f].key \in Nat
           /\ hist[f].fresh \in BOOLEAN /\ hist[f].own \in BOOLEAN
           /\ hist[f].nonblock \in BOOLEAN /\ hist[f].got \in Seq(Nat)
           /\ hist[f].ready \in SUBSET {"read", "write", "except"}
<1>1. conn[f] \in HostSocks /\ hist[f] \in FdStories
  BY DEF SocketsShape
<1>2. QED
  BY <1>1 DEF HostSocks, FdStories

LEMMA TakenFd ==
    ASSUME SocketsShape, NEW i \in Taken
    PROVE  i \in SocketSlot /\ fds[i] \in Fd
<1>1. i \in SocketSlot /\ fds[i] # 0
  BY DEF Taken
<1>2. fds[i] \in 0 .. MaxFds
  BY <1>1 DEF SocketsShape
<1>3. QED
  BY <1>1, <1>2, SockNumbers

\* iocp_comp_key finds the key that the socket in the slot was associated with.
LEMMA KeyFound ==
    ASSUME SocketsInv, NEW i \in Taken, hist[fds[i]].own
    PROVE  KeyOf(i) = hist[fds[i]].key
<1> DEFINE of == {k \in DOMAIN bindings : bindings[k].slot = i}
<1>1. SocketsShape /\ BoundRight(i, hist[fds[i]])
  BY DEF SocketsInv, BindingsRight
<1>2. of \subseteq Nat
  <2>1. bindings \in Seq([slot : SocketSlot, key : Fd])
    BY <1>1 DEF SocketsShape
  <2>2. DOMAIN bindings = 1 .. Len(bindings) /\ Len(bindings) \in Nat
    BY <2>1, LenProperties
  <2>3. QED
    BY <2>2
<1>3. CASE of = {}
  <2>1. KeyOf(i) = 0
    BY <1>3 DEF KeyOf
  <2>2. ~Bound(i)
    BY <1>3 DEF Bound
  <2>3. QED
    BY <1>1, <2>1, <2>2 DEF BoundRight
<1>4. CASE of # {}
  <2>1. Min(of) \in of
    BY <1>2, <1>4, LeastOf
  <2>2. KeyOf(i) = bindings[Min(of)].key
    BY <1>4 DEF KeyOf
  <2> DEFINE k == Min(of)
  <2> HIDE DEF k
  <2>3. k \in DOMAIN bindings /\ bindings[k].slot = i /\ KeyOf(i) = bindings[k].key
    BY <2>1, <2>2 DEF k
  <2>4. QED
    BY <1>1, <2>3 DEF BoundRight
<1>5. QED
  BY <1>3, <1>4

\* A completion says what it should.
LEMMA PostTells ==
    ASSUME SocketsInv, NEW i \in Taken, NEW n, NEW counted, Post(i, n, counted)
    PROVE  right' = TRUE
<1> DEFINE own == hist[fds[i]].own
           key == hist[fds[i]].key
           c == Completion(i, n, counted)
<1>1. right = TRUE /\ (own => c.key = key) /\ (counted => c.bytes = n)
  BY KeyFound DEF SocketsInv, Completion
<1>2. right' = (right /\ (own => c.key = key) /\ (counted => c.bytes = n))
  BY DEF Post
<1> HIDE DEF own, key, c
<1>3. QED
  BY <1>1, <1>2

\* A step that changes one descriptor of the host and what the guest knows of it, but
\* not its key nor that it was asked for.
LEMMA OneSocket ==
    ASSUME SocketsInv, NEW u \in Fd, NEW c \in HostSocks, NEW h \in FdStories,
           conn' = [conn EXCEPT ![u] = c], hist' = [hist EXCEPT ![u] = h],
           h.key = hist[u].key, h.asked = hist[u].asked, h.fresh = hist[u].fresh,
           h.own = hist[u].own, Open(c) <=> Open(conn[u]), FdRight(c, h), UNCHANGED <<fds, reported, bindings>>, right' = TRUE,
           waiting' \in Receivings \cup {Nobody}, waiting' # Nobody => WaiterRight'
    PROVE  SocketsInv'
<1>1. SocketsShape
  BY DEF SocketsInv
<1>2. /\ conn' \in [Fd -> HostSocks] /\ conn'[u] = c /\ \A f \in Fd : f # u => conn'[f] = conn[f]
      /\ hist' \in [Fd -> FdStories] /\ hist'[u] = h /\ \A f \in Fd : f # u => hist'[f] = hist[f]
  BY <1>1 DEF SocketsShape
<1>3. /\ \A f \in Fd : Open(conn'[f]) <=> Open(conn[f])
      /\ \A f \in Fd : /\ hist'[f].key = hist[f].key /\ hist'[f].asked = hist[f].asked
                        /\ hist'[f].fresh = hist[f].fresh /\ hist'[f].own = hist[f].own
  BY <1>2
<1>4. Taken' = Taken /\ fds' = fds /\ \A i \in Taken : fds[i] \in Fd
  BY <1>1, TakenFd DEF Taken
<1>5. SocketsShape'
  BY <1>1, <1>2 DEF SocketsShape
<1>6. DescriptorsHeld'
  <2>1. DescriptorsHeld
    BY DEF SocketsInv
  <2>2. \A i \in Taken : Open(conn'[fds[i]])
    BY <1>3, <1>4, <2>1 DEF DescriptorsHeld
  <2>3. \A f \in Fd : Open(conn'[f]) => \E i \in Taken : fds[i] = f
    BY <1>3, <2>1 DEF DescriptorsHeld
  <2>4. QED
    BY <1>4, <2>1, <2>2, <2>3 DEF DescriptorsHeld
<1>7. FdsRight'
  BY <1>2 DEF SocketsInv, FdsRight
<1>8. ReportsRight'
  BY <1>3, <1>4 DEF SocketsInv, ReportsRight, Reports
<1>9. BindingsRight'
  BY <1>3, <1>4 DEF SocketsInv, BindingsRight, BoundRight, Bound
<1>10. WaiterRight'
  BY DEF WaiterRight
<1>11. QED
  BY <1>5, <1>6, <1>7, <1>8, <1>9, <1>10 DEF SocketsInv

\* One that only changes the host's socket, while nobody or somebody waits.
LEMMA HostStep ==
    ASSUME SocketsInv, NEW u \in Fd, NEW c \in HostSocks,
           conn' = [conn EXCEPT ![u] = c], Open(c) <=> Open(conn[u]), FdRight(c, hist[u]),
           waiting # Nobody => c.block = conn[u].block,
           UNCHANGED <<fds, reported, bindings, hist, waiting>>, right' = TRUE
    PROVE  SocketsInv'
<1> DEFINE h == hist[u]
<1>1. SocketsShape /\ WaiterRight
  BY DEF SocketsInv
<1>2. h \in FdStories /\ hist' = [hist EXCEPT ![u] = h]
  BY <1>1 DEF SocketsShape
<1>3. waiting' \in Receivings \cup {Nobody} /\ conn'[u] = c /\ \A f \in Fd : f # u => conn'[f] = conn[f]
  BY <1>1 DEF SocketsShape
<1>4. ASSUME waiting' # Nobody
      PROVE  WaiterRight'
  <2>1. WaitRight(waiting, conn[fds[waiting.slot]], hist[fds[waiting.slot]])
    BY <1>1, <1>4 DEF WaiterRight
  <2>2. waiting.slot \in Taken /\ conn[fds[waiting.slot]].block
        /\ "read" \notin hist[fds[waiting.slot]].ready
    BY <2>1 DEF WaitRight
  <2>3. fds[waiting.slot] \in Fd
    BY <1>1, <2>2, TakenFd
  <2>4. conn'[fds[waiting.slot]].block
    BY <1>3, <1>4, <2>2, <2>3
  <2>5. Taken' = Taken
    BY DEF Taken
  <2>6. QED
    BY <2>2, <2>4, <2>5 DEF WaiterRight, WaitRight
<1>5. /\ h.key = hist[u].key /\ h.asked = hist[u].asked /\ h.fresh = hist[u].fresh
      /\ h.own = hist[u].own /\ FdRight(c, h)
  OBVIOUS
<1> HIDE DEF h
<1>6. QED
  BY <1>2, <1>3, <1>4, <1>5, OneSocket

\* A socket that moves on, with what it received as it was.
LEMMA MovesOn ==
    ASSUME NEW c, NEW d, NEW h, FdRight(c, h), d.in = c.in, d.sent = c.sent, c.fin => d.fin,
           h.nonblock => ~d.block, d.state # "none",
           c.state \in {"shut", "failed", "closed"} => d.state \in {"shut", "failed", "closed"},
           c.state = "up" => d.state \in {"up", "shut", "failed", "closed"},
           c.state \in {"failed", "closed"} => d.state \in {"failed", "closed"}
    PROVE  FdRight(d, h)
BY DEF FdRight

LEMMA ShutdownStep ==
    ASSUME SocketsInv, Shutdown
    PROVE  SocketsInv'
<1>1. PICK i \in Taken :
        /\ conn[fds[i]].state = "up" /\ conn' = [conn EXCEPT ![fds[i]].state = "shut"]
        /\ UNCHANGED <<calls, fds, reported, bindings, waiting, right, hist>>
  BY DEF Shutdown, SetState, Conn
<1> DEFINE u == fds[i]
           c == [conn[u] EXCEPT !.state = "shut"]
<1>2. SocketsShape /\ FdsRight /\ right = TRUE
  BY DEF SocketsInv
<1>3. u \in Fd
  BY <1>2, TakenFd
<1>4. /\ conn[u] \in HostSocks /\ conn[u].block \in BOOLEAN /\ conn[u].state = "up"
      /\ FdRight(conn[u], hist[u])
  BY <1>1, <1>2, <1>3, SockFields DEF FdsRight
<1>5. /\ c \in HostSocks /\ c.state = "shut" /\ c.in = conn[u].in /\ c.sent = conn[u].sent
      /\ c.fin = conn[u].fin /\ c.block = conn[u].block
  BY <1>4 DEF HostSocks, FdStates
<1>6. conn' = [conn EXCEPT ![u] = c]
  BY <1>1, <1>2, <1>3 DEF SocketsShape
<1> HIDE DEF c, u
<1>7. hist[u].nonblock => ~c.block
  BY <1>4, <1>5 DEF FdRight
<1>8. FdRight(c, hist[u])
  BY <1>4, <1>5, <1>7, MovesOn
<1>9. Open(c) <=> Open(conn[u])
  BY <1>4, <1>5 DEF Open
<1>10. QED
  BY <1>1, <1>2, <1>3, <1>5, <1>6, <1>8, <1>9, HostStep

LEMMA ConnectSocketStep ==
    ASSUME SocketsInv, Connect
    PROVE  SocketsInv'
<1>1. PICK i \in Taken : \E s \in Outcomes :
        /\ conn[fds[i]].state \in {"new", "connecting"}
        /\ conn' = [conn EXCEPT ![fds[i]] = [@ EXCEPT !.state = s]]
        /\ UNCHANGED <<calls, fds, reported, bindings, waiting, right, hist>>
  BY DEF Connect, CanConnect, AfterConnect, Conn
<1>2. PICK s \in Outcomes :
        /\ conn[fds[i]].state \in {"new", "connecting"}
        /\ conn' = [conn EXCEPT ![fds[i]] = [@ EXCEPT !.state = s]]
        /\ UNCHANGED <<calls, fds, reported, bindings, waiting, right, hist>>
  BY <1>1
<1> DEFINE u == fds[i]
           c == [conn[u] EXCEPT !.state = s]
<1>3. SocketsShape /\ FdsRight /\ right = TRUE /\ s \in {"up", "failed", "connecting"}
  BY DEF SocketsInv, Outcomes
<1>4. u \in Fd
  BY <1>3, TakenFd
<1>5. /\ conn[u] \in HostSocks /\ conn[u].block \in BOOLEAN /\ conn[u].state \in {"new", "connecting"}
      /\ FdRight(conn[u], hist[u])
  BY <1>2, <1>3, <1>4, SockFields DEF FdsRight
<1>6. /\ c \in HostSocks /\ c.state = s /\ c.in = conn[u].in /\ c.sent = conn[u].sent
      /\ c.fin = conn[u].fin /\ c.block = conn[u].block
  BY <1>3, <1>5 DEF HostSocks, FdStates
<1>7. conn' = [conn EXCEPT ![u] = c]
  BY <1>2, <1>3, <1>4 DEF SocketsShape
<1> HIDE DEF c, u
<1>8. hist[u].nonblock => ~c.block
  BY <1>5, <1>6 DEF FdRight
<1>9. FdRight(c, hist[u])
  BY <1>3, <1>5, <1>6, <1>8, MovesOn
<1>10. Open(c) <=> Open(conn[u])
  BY <1>3, <1>5, <1>6 DEF Open
<1>11. QED
  BY <1>2, <1>3, <1>4, <1>6, <1>7, <1>9, <1>10, HostStep

LEMMA ConnectExStep ==
    ASSUME SocketsInv, ConnectEx
    PROVE  SocketsInv'
<1>1. PICK i \in Taken, s \in Outcomes, atOnce \in BOOLEAN, overlapped \in BOOLEAN :
        /\ Calls("ConnectEx") /\ Conn(i).state \in {"new", "connecting", "up"}
        /\ conn' = [conn EXCEPT
               ![fds[i]].state = IF Conn(i).state = "new" THEN s ELSE @,
               ![fds[i]].block = ~(Conn(i).state = "new") \/ s = "up" \/ (s = "failed" /\ atOnce)]
        /\ hist' = [hist EXCEPT ![fds[i]].nonblock =
               @ /\ ~(~(Conn(i).state = "new") \/ s = "up" \/ (s = "failed" /\ atOnce))]
        /\ IF Conn(i).state = "new" /\ s = "up" /\ overlapped THEN Post(i, 0, TRUE) ELSE UNCHANGED right
        /\ UNCHANGED <<calls, fds, reported, bindings, waiting>>
  BY Zenon DEF ConnectEx
<1> DEFINE Blocking == ~(Conn(i).state = "new") \/ s = "up" \/ (s = "failed" /\ atOnce)
<1>2. /\ Free /\ conn[fds[i]].state \in {"new", "connecting", "up"}
      /\ conn' = [conn EXCEPT ![fds[i]].state = IF conn[fds[i]].state = "new" THEN s ELSE @,
                              ![fds[i]].block = Blocking]
      /\ hist' = [hist EXCEPT ![fds[i]].nonblock = @ /\ ~Blocking]
      /\ Post(i, 0, TRUE) \/ UNCHANGED right
      /\ UNCHANGED <<calls, fds, reported, bindings, waiting>>
  BY <1>1 DEF Conn, Calls
<1>b. (Blocking <=> (conn[fds[i]].state # "new" \/ s = "up" \/ (s = "failed" /\ atOnce)))
      /\ Blocking \in BOOLEAN
  BY DEF Conn
<1> HIDE DEF Blocking
<1> DEFINE u == fds[i]
           b == Blocking
           t == IF conn[u].state = "new" THEN s ELSE conn[u].state
           m == hist[u].nonblock /\ ~b
           c == [conn[u] EXCEPT !.state = t, !.block = b]
           h == [hist[u] EXCEPT !.nonblock = m]
<1>3. SocketsShape /\ FdsRight /\ right = TRUE /\ s \in {"up", "failed", "connecting"}
  BY DEF SocketsInv, Outcomes
<1>4. u \in Fd /\ b \in BOOLEAN
  BY <1>3, <1>b, TakenFd
<1>5. /\ conn[u] \in HostSocks /\ hist[u] \in FdStories /\ hist[u].nonblock \in BOOLEAN
      /\ conn[u].state \in {"new", "connecting", "up"}
      /\ FdRight(conn[u], hist[u]) /\ waiting' = Nobody
      /\ UNCHANGED <<fds, reported, bindings>>
  BY <1>2, <1>3, <1>4, SockFields DEF FdsRight, Free
<1>6. conn' = [conn EXCEPT ![u] = c] /\ hist' = [hist EXCEPT ![u] = h]
  BY <1>2, <1>3, <1>4 DEF SocketsShape
<1>7. right' = TRUE
  <2>1. CASE Post(i, 0, TRUE)
    <3> DEFINE n == 0
               y == TRUE
    <3>1. Post(i, n, y)
      BY <2>1
    <3> HIDE DEF n, y
    <3>2. QED
      BY <3>1, PostTells
  <2>2. CASE UNCHANGED right
    BY <1>3, <2>2
  <2>3. QED
    BY <1>2, <2>1, <2>2
<1>8. /\ t \in {"up", "failed", "connecting"}
      /\ conn[u].state = "connecting" => t = "connecting"
      /\ conn[u].state = "up" => t = "up"
  BY <1>3, <1>5
<1> HIDE DEF u, b, t, m
<1>9. m \in BOOLEAN /\ (m => ~b)
  BY <1>4, <1>5 DEF m
<1>10. /\ c \in HostSocks /\ c.state = t /\ c.in = conn[u].in /\ c.sent = conn[u].sent
       /\ c.fin = conn[u].fin /\ c.block = b
  BY <1>4, <1>5, <1>8 DEF HostSocks, FdStates
<1>11. /\ h \in FdStories /\ h.told = hist[u].told /\ h.asked = hist[u].asked /\ h.key = hist[u].key
       /\ h.nonblock = m /\ h.got = hist[u].got /\ h.ready = hist[u].ready
       /\ h.fresh = hist[u].fresh /\ h.own = hist[u].own
  BY <1>5, <1>9 DEF FdStories
<1> HIDE DEF c, h
<1>12. FdRight(c, h)
  BY <1>5, <1>8, <1>9, <1>10, <1>11 DEF FdRight
<1>13. Open(c) <=> Open(conn[u])
  BY <1>5, <1>8, <1>10 DEF Open
<1>14. waiting' \in Receivings \cup {Nobody} /\ (waiting' # Nobody => WaiterRight')
  BY <1>5
<1>15. QED
  BY <1>4, <1>5, <1>6, <1>7, <1>10, <1>11, <1>12, <1>13, <1>14, OneSocket

LEMMA ConnectEndsStep ==
    ASSUME SocketsInv, ConnectEnds
    PROVE  SocketsInv'
<1>1. PICK u \in Fd, s \in {"up", "failed"} :
        /\ conn[u].state = "connecting" /\ conn' = [conn EXCEPT ![u].state = s]
        /\ UNCHANGED <<calls, fds, reported, bindings, waiting, right, hist>>
  BY DEF ConnectEnds
<1> DEFINE c == [conn[u] EXCEPT !.state = s]
<1>2. SocketsShape /\ FdsRight /\ right = TRUE
  BY DEF SocketsInv
<1>3. /\ conn[u] \in HostSocks /\ conn[u].block \in BOOLEAN /\ conn[u].state = "connecting"
      /\ FdRight(conn[u], hist[u])
  BY <1>1, <1>2, SockFields DEF FdsRight
<1>4. /\ c \in HostSocks /\ c.state = s /\ c.in = conn[u].in /\ c.sent = conn[u].sent
      /\ c.fin = conn[u].fin /\ c.block = conn[u].block
  BY <1>3 DEF HostSocks, FdStates
<1>5. conn' = [conn EXCEPT ![u] = c]
  BY <1>1, <1>2 DEF SocketsShape
<1> HIDE DEF c
<1>6. hist[u].nonblock => ~c.block
  BY <1>3, <1>4 DEF FdRight
<1>7. FdRight(c, hist[u])
  BY <1>1, <1>3, <1>4, <1>6, MovesOn
<1>8. Open(c) <=> Open(conn[u])
  BY <1>3, <1>4 DEF Open
<1>9. QED
  BY <1>1, <1>2, <1>4, <1>5, <1>7, <1>8, HostStep

LEMMA PeerClosesStep ==
    ASSUME SocketsInv, PeerCloses
    PROVE  SocketsInv'
<1>1. PICK u \in Fd :
        /\ conn[u].state = "up" /\ conn' = [conn EXCEPT ![u].fin = TRUE]
        /\ UNCHANGED <<calls, fds, reported, bindings, waiting, right, hist>>
  BY DEF PeerCloses
<1> DEFINE c == [conn[u] EXCEPT !.fin = TRUE]
<1>2. SocketsShape /\ FdsRight /\ right = TRUE
  BY DEF SocketsInv
<1>3. /\ conn[u] \in HostSocks /\ conn[u].block \in BOOLEAN /\ conn[u].state = "up"
      /\ FdRight(conn[u], hist[u])
  BY <1>1, <1>2, SockFields DEF FdsRight
<1>4. /\ c \in HostSocks /\ c.state = conn[u].state /\ c.in = conn[u].in /\ c.sent = conn[u].sent
      /\ c.fin /\ c.block = conn[u].block
  BY <1>3 DEF HostSocks
<1>5. conn' = [conn EXCEPT ![u] = c]
  BY <1>1, <1>2 DEF SocketsShape
<1> HIDE DEF c
<1>6. hist[u].nonblock => ~c.block
  BY <1>3, <1>4 DEF FdRight
<1>7. FdRight(c, hist[u])
  BY <1>3, <1>4, <1>6, MovesOn
<1>8. Open(c) <=> Open(conn[u])
  BY <1>4 DEF Open
<1>9. QED
  BY <1>1, <1>2, <1>4, <1>5, <1>7, <1>8, HostStep

\* The cells that a peer sent so far.
LEMMA CellsCount ==
    ASSUME NEW n \in Nat
    PROVE  /\ [k \in 1 .. n |-> k] \in Seq(Nat) /\ Len([k \in 1 .. n |-> k]) = n
           /\ Append([k \in 1 .. n |-> k], n + 1) = [k \in 1 .. n + 1 |-> k]
<1> DEFINE s == [k \in 1 .. n |-> k]
           t == [k \in 1 .. n + 1 |-> k]
<1>1. s \in Seq(Nat) /\ Len(s) = n
  OBVIOUS
<1>2. t \in Seq(Nat) /\ Len(t) = n + 1
  OBVIOUS
<1>3. /\ Append(s, n + 1) \in Seq(Nat) /\ Len(Append(s, n + 1)) = n + 1
      /\ \A k \in 1 .. n + 1 : Append(s, n + 1)[k] = k
  BY <1>1, AppendProperties
<1>4. \A k \in 1 .. n + 1 : t[k] = k
  OBVIOUS
<1> HIDE DEF s, t
<1>5. Append(s, n + 1) = t
  BY <1>2, <1>3, <1>4, SeqEqual
<1>6. QED
  BY <1>1, <1>5 DEF s, t

LEMMA PeerSendsStep ==
    ASSUME SocketsInv, PeerSends
    PROVE  SocketsInv'
<1>1. PICK u \in Fd :
        /\ conn[u].state = "up" /\ ~conn[u].fin
        /\ conn' = [conn EXCEPT ![u].sent = @ + 1, ![u].in = Append(@, conn[u].sent + 1)]
        /\ UNCHANGED <<calls, fds, reported, bindings, waiting, right, hist>>
  BY DEF PeerSends
<1> DEFINE n == conn[u].sent
           in == Append(conn[u].in, n + 1)
           c == [conn[u] EXCEPT !.sent = n + 1, !.in = in]
<1>2. SocketsShape /\ FdsRight /\ right = TRUE
  BY DEF SocketsInv
<1>3. /\ conn[u] \in HostSocks /\ conn[u].block \in BOOLEAN /\ conn[u].state = "up"
      /\ FdRight(conn[u], hist[u]) /\ n \in Nat /\ conn[u].in \in Seq(Nat) /\ hist[u].got \in Seq(Nat)
  BY <1>1, <1>2, SockFields DEF FdsRight
<1>4. n + 1 \in Nat /\ in \in Seq(Nat)
  BY <1>3, AppendProperties
<1>5. conn' = [conn EXCEPT ![u] = c]
  BY <1>1, <1>2 DEF SocketsShape
<1>6. hist[u].got \o in = [k \in 1 .. n + 1 |-> k]
  <2> DEFINE g == hist[u].got
             old == conn[u].in
             e == n + 1
             all == [k \in 1 .. n |-> k]
  <2>1. g \o old = all /\ g \in Seq(Nat) /\ old \in Seq(Nat) /\ e \in Nat
    BY <1>3, <1>4 DEF FdRight
  <2>2. Append(all, e) = [k \in 1 .. n + 1 |-> k]
    BY <1>3, CellsCount
  <2> HIDE DEF g, old, e, all
  <2>3. g \o Append(old, e) = Append(g \o old, e)
    BY <2>1
  <2>4. QED
    BY <2>1, <2>2, <2>3 DEF g, old, e
<1> HIDE DEF in
<1>7. /\ c \in HostSocks /\ c.state = "up" /\ c.in = in /\ c.sent = n + 1
      /\ c.block = conn[u].block
  BY <1>3, <1>4 DEF HostSocks
<1>8. in # <<>>
  <2>1. Len(in) = Len(conn[u].in) + 1 /\ Len(conn[u].in) \in Nat
    BY <1>3, <1>4, AppendProperties, LenProperties DEF in
  <2>2. Len(in) # 0
    BY <2>1
  <2>3. QED
    BY <2>2
<1> HIDE DEF c, n
<1>9. FdRight(c, hist[u])
  BY <1>3, <1>6, <1>7, <1>8 DEF FdRight
<1>10. Open(c) <=> Open(conn[u])
  BY <1>3, <1>7 DEF Open
<1>11. QED
  BY <1>1, <1>2, <1>5, <1>7, <1>9, <1>10, HostStep

LEMMA SetModeStep ==
    ASSUME SocketsInv, SetMode
    PROVE  SocketsInv'
<1>1. PICK i \in Taken, nonblock \in BOOLEAN :
        /\ Free /\ conn' = [conn EXCEPT ![fds[i]].block = ~nonblock]
        /\ hist' = [hist EXCEPT ![fds[i]].nonblock = nonblock]
        /\ UNCHANGED <<calls, fds, reported, bindings, waiting, right>>
  BY DEF SetMode, Calls
<1> DEFINE u == fds[i]
           c == [conn[u] EXCEPT !.block = ~nonblock]
           h == [hist[u] EXCEPT !.nonblock = nonblock]
<1>2. SocketsShape /\ FdsRight /\ right = TRUE
  BY DEF SocketsInv
<1>3. u \in Fd
  BY <1>2, TakenFd
<1>4. /\ conn[u] \in HostSocks /\ hist[u] \in FdStories /\ FdRight(conn[u], hist[u])
      /\ waiting' = Nobody /\ UNCHANGED <<fds, reported, bindings>> /\ right' = TRUE
  BY <1>1, <1>2, <1>3, SockFields DEF FdsRight, Free
<1>5. /\ c \in HostSocks /\ c.state = conn[u].state /\ c.in = conn[u].in /\ c.sent = conn[u].sent
      /\ c.fin = conn[u].fin /\ c.block = ~nonblock
  BY <1>4 DEF HostSocks
<1>6. /\ h \in FdStories /\ h.told = hist[u].told /\ h.asked = hist[u].asked /\ h.key = hist[u].key
      /\ h.nonblock = nonblock /\ h.got = hist[u].got /\ h.ready = hist[u].ready
      /\ h.fresh = hist[u].fresh /\ h.own = hist[u].own
  BY <1>4 DEF FdStories
<1>7. conn' = [conn EXCEPT ![u] = c] /\ hist' = [hist EXCEPT ![u] = h]
  BY <1>1, <1>2, <1>3 DEF SocketsShape
<1> HIDE DEF c, h, u
<1>8. FdRight(c, h)
  BY <1>4, <1>5, <1>6 DEF FdRight
<1>9. Open(c) <=> Open(conn[u])
  BY <1>5 DEF Open
<1>10. waiting' \in Receivings \cup {Nobody} /\ (waiting' # Nobody => WaiterRight')
  BY <1>4
<1>11. QED
  BY <1>3, <1>4, <1>5, <1>6, <1>7, <1>8, <1>9, <1>10, OneSocket

\* Buffers take what fits, and all of it when they have the room.
LEMMA FurtherOf ==
    ASSUME NEW cells \in Seq(Nat), NEW m \in 0 .. Len(cells), NEW len \in Nat
    PROVE  Further(SubSeq(cells, 1, m), len, cells)
             = SubSeq(cells, 1, IF len <= Len(cells) - m THEN m + len ELSE Len(cells))
<1> DEFINE n == Len(cells)
           e == IF len <= n - m THEN m + len ELSE n
           d == SubSeq(cells, 1, m)
<1>1. n \in Nat /\ m \in Nat /\ m <= n
  BY LenProperties
<1>2. Len(d) = m
  BY Split
<1>3. Min({len, n - m}) = IF len <= n - m THEN len ELSE n - m
  BY <1>1, LesserOf
<1>4. m + Min({len, n - m}) = e
  BY <1>1, <1>3
<1>5. Further(d, len, cells) = d \o SubSeq(cells, m + 1, e)
  BY <1>2, <1>4 DEF Further
<1>6. d \o SubSeq(cells, m + 1, e) = SubSeq(cells, 1, e)
  <2> DEFINE one == 1
  <2>1. one \in 1 .. Len(cells) + 1 /\ m \in one - 1 .. Len(cells) /\ e \in m .. Len(cells)
    BY <1>1
  <2> HIDE DEF one, e
  <2>2. SubSeq(cells, one, m) \o SubSeq(cells, m + 1, e) = SubSeq(cells, one, e)
    BY <2>1, ConcatAdjacentSubSeq
  <2>3. QED
    BY <2>2 DEF one
<1>7. QED
  BY <1>5, <1>6

LEMMA RoomOf ==
    /\ Room(<<2>>) = 2 /\ Room(<<1, 1>>) = 2
<1>1. Room(<<2>>) = 2
  <2> DEFINE b == <<2>>
             g == [k \in 0 .. 1 |-> IF k = 0 THEN 0 ELSE 2]
             f == CHOOSE f : f = [k \in 0 .. Len(b) |-> IF k = 0 THEN 0 ELSE f[k - 1] + b[k]]
  <2>1. Len(b) = 1 /\ b[1] = 2
    OBVIOUS
  <2>2. g = [k \in 0 .. Len(b) |-> IF k = 0 THEN 0 ELSE g[k - 1] + b[k]]
    BY <2>1
  <2>3. f = [k \in 0 .. Len(b) |-> IF k = 0 THEN 0 ELSE f[k - 1] + b[k]]
    <3> HIDE DEF g, b
    <3> QED
      BY <2>2
  <2> HIDE DEF f
  <2>4. f[0] = 0
    BY <2>1, <2>3
  <2>5. f[1] = 2
    BY <2>1, <2>3, <2>4
  <2>6. Room(b) = f[Len(b)]
    BY DEF Room, f
  <2>7. QED
    BY <2>1, <2>5, <2>6
<1>2. Room(<<1, 1>>) = 2
  <2> DEFINE b == <<1, 1>>
             g == [k \in 0 .. 2 |-> IF k = 0 THEN 0 ELSE IF k = 1 THEN 1 ELSE 2]
             f == CHOOSE f : f = [k \in 0 .. Len(b) |-> IF k = 0 THEN 0 ELSE f[k - 1] + b[k]]
  <2>1. Len(b) = 2 /\ b[1] = 1 /\ b[2] = 1
    OBVIOUS
  <2>2. g = [k \in 0 .. Len(b) |-> IF k = 0 THEN 0 ELSE g[k - 1] + b[k]]
    BY <2>1
  <2>3. f = [k \in 0 .. Len(b) |-> IF k = 0 THEN 0 ELSE f[k - 1] + b[k]]
    <3> HIDE DEF g, b
    <3> QED
      BY <2>2
  <2> HIDE DEF f
  <2>4. f[0] = 0
    BY <2>1, <2>3
  <2>5. f[1] = 1
    BY <2>1, <2>3, <2>4
  <2>6. f[2] = 2
    BY <2>1, <2>3, <2>5
  <2>7. Room(b) = f[Len(b)]
    BY DEF Room, f
  <2>8. QED
    BY <2>1, <2>6, <2>7
<1>3. QED
  BY <1>1, <1>2

LEMMA ScatterOf ==
    ASSUME NEW cells
    PROVE  /\ Scatter(<<2>>, cells) = Further(<<>>, 2, cells)
           /\ Scatter(<<1, 1>>, cells) = Further(Further(<<>>, 1, cells), 1, cells)
<1>1. Scatter(<<2>>, cells) = Further(<<>>, 2, cells)
  <2> DEFINE b == <<2>>
             one == Further(<<>>, 2, cells)
             g == [k \in 0 .. 1 |-> IF k = 0 THEN <<>> ELSE one]
             f == CHOOSE f : f = [k \in 0 .. Len(b) |-> IF k = 0 THEN <<>> ELSE Further(f[k - 1], b[k], cells)]
  <2>1. Len(b) = 1 /\ b[1] = 2
    OBVIOUS
  <2>2. g = [k \in 0 .. Len(b) |-> IF k = 0 THEN <<>> ELSE Further(g[k - 1], b[k], cells)]
    BY <2>1
  <2>3. f = [k \in 0 .. Len(b) |-> IF k = 0 THEN <<>> ELSE Further(f[k - 1], b[k], cells)]
    <3> HIDE DEF g, b
    <3> QED
      BY <2>2
  <2> HIDE DEF f
  <2>4. f[0] = <<>>
    BY <2>1, <2>3
  <2>5. f[1] = one
    BY <2>1, <2>3, <2>4
  <2>6. Scatter(b, cells) = f[Len(b)]
    BY DEF Scatter, f
  <2>7. QED
    BY <2>1, <2>5, <2>6
<1>2. Scatter(<<1, 1>>, cells) = Further(Further(<<>>, 1, cells), 1, cells)
  <2> DEFINE b == <<1, 1>>
             one == Further(<<>>, 1, cells)
             two == Further(one, 1, cells)
             g == [k \in 0 .. 2 |-> IF k = 0 THEN <<>> ELSE IF k = 1 THEN one ELSE two]
             f == CHOOSE f : f = [k \in 0 .. Len(b) |-> IF k = 0 THEN <<>> ELSE Further(f[k - 1], b[k], cells)]
  <2>1. Len(b) = 2 /\ b[1] = 1 /\ b[2] = 1
    OBVIOUS
  <2>2. g = [k \in 0 .. Len(b) |-> IF k = 0 THEN <<>> ELSE Further(g[k - 1], b[k], cells)]
    BY <2>1
  <2>3. f = [k \in 0 .. Len(b) |-> IF k = 0 THEN <<>> ELSE Further(f[k - 1], b[k], cells)]
    <3> HIDE DEF g, b
    <3> QED
      BY <2>2
  <2> HIDE DEF f
  <2>4. f[0] = <<>>
    BY <2>1, <2>3
  <2>5. f[1] = one
    BY <2>1, <2>3, <2>4
  <2>6. f[2] = two
    BY <2>1, <2>3, <2>5
  <2>7. Scatter(b, cells) = f[Len(b)]
    BY DEF Scatter, f
  <2>8. QED
    BY <2>1, <2>6, <2>7
<1>3. QED
  BY <1>1, <1>2

LEMMA ScatterAll ==
    ASSUME NEW bufs \in Buffers, NEW cells \in Seq(Nat), Len(cells) <= 2
    PROVE  Scatter(bufs, cells) = cells
<1> DEFINE none == 0
           n == Len(cells)
<1>1. n \in 0 .. 2 /\ SubSeq(cells, 1, n) = cells /\ none \in 0 .. n
  <2>1. Len(cells) \in Nat /\ SubSeq(cells, 1, Len(cells)) = cells
    BY LenProperties, SubSeqFull
  <2>2. QED
    BY <2>1
<1>2. SubSeq(cells, 1, none) = <<>>
  <2>1. Len(SubSeq(cells, 1, none)) = 0 /\ SubSeq(cells, 1, none) \in Seq(Nat)
    BY <1>1, Split
  <2>2. QED
    BY <2>1, EmptySeq
<1>3. CASE bufs = <<2>>
  <2> DEFINE two == 2
  <2>1. Scatter(bufs, cells) = Further(SubSeq(cells, 1, none), two, cells)
    BY <1>2, <1>3, ScatterOf
  <2>2. two \in Nat
    OBVIOUS
  <2>3. two > n - none \/ two = n - none
    BY <1>1
  <2> HIDE DEF none, n
  <2>4. Further(SubSeq(cells, 1, none), two, cells)
          = SubSeq(cells, 1, IF two <= Len(cells) - none THEN none + two ELSE Len(cells))
    BY <1>1, <2>2, FurtherOf DEF n
  <2>5. (IF two <= Len(cells) - none THEN none + two ELSE Len(cells)) = n
    BY <1>1, <2>3 DEF n, none
  <2>6. QED
    BY <1>1, <2>1, <2>4, <2>5
<1>4. CASE bufs = <<1, 1>>
  <2> DEFINE one == 1
             m == IF n = 0 THEN 0 ELSE 1
  <2>1. Scatter(bufs, cells) = Further(Further(SubSeq(cells, 1, none), one, cells), one, cells)
    BY <1>2, <1>4, ScatterOf
  <2>2. one \in Nat /\ m \in 0 .. n
    BY <1>1
  <2>3. (IF one <= n - none THEN none + one ELSE n) = m /\ (IF one <= n - m THEN m + one ELSE n) = n
    BY <1>1
  <2> HIDE DEF none, n, one, m
  <2>4. Further(SubSeq(cells, 1, none), one, cells)
          = SubSeq(cells, 1, IF one <= n - none THEN none + one ELSE n)
    BY <1>1, <2>2, FurtherOf DEF n
  <2>5. Further(SubSeq(cells, 1, m), one, cells)
          = SubSeq(cells, 1, IF one <= n - m THEN m + one ELSE n)
    BY <1>1, <2>2, FurtherOf DEF n
  <2>6. QED
    BY <1>1, <2>1, <2>3, <2>4, <2>5
<1>5. QED
  BY <1>3, <1>4 DEF Buffers

\* What a receive of slot i by r takes, and what it leaves.
Took(h, cells) == [h EXCEPT !.got = @ \o cells, !.ready = @ \ {"read"}]

LEMMA ReceiveStep ==
    ASSUME SocketsInv, NEW i \in Taken, NEW r, r.bufs \in Buffers,
           NEW n \in Receivable(i, r), Receive(i, r, n),
           Conn(i).state \notin {"none", "new", "connecting"} \/ SomethingIn(i),
           waiting' = Nobody, UNCHANGED <<fds, reported, bindings>>
    PROVE  SocketsInv'
<1> DEFINE u == fds[i]
           in == conn[u].in
           k == Len(in)
           cells == SubSeq(in, 1, n)
           rest == SubSeq(in, n + 1, k)
           c == [conn[u] EXCEPT !.in = rest]
           h == Took(hist[u], cells)
<1>1. SocketsShape /\ FdsRight /\ right = TRUE
  BY DEF SocketsInv
<1>2. u \in Fd
  BY <1>1, TakenFd
<1>3. /\ conn[u] \in HostSocks /\ hist[u] \in FdStories /\ FdRight(conn[u], hist[u])
      /\ in \in Seq(Nat) /\ k \in Nat /\ hist[u].got \in Seq(Nat)
      /\ hist[u].ready \in SUBSET {"read", "write", "except"}
  BY <1>1, <1>2, SockFields, LenProperties DEF FdsRight
<1>4. n \in 0 .. k /\ n <= 2
  <2>1. CASE in = <<>>
    <3>1. n = 0
      BY <2>1 DEF Receivable, Conn
    <3>2. QED
      BY <1>3, <3>1
  <2>2. CASE in # <<>>
    <3>1. n \in 1 .. Min({Room(r.bufs), k})
      BY <2>2 DEF Receivable, Conn
    <3>2. Room(r.bufs) = 2
      BY RoomOf DEF Buffers
    <3>3. Min({Room(r.bufs), k}) = IF 2 <= k THEN 2 ELSE k
      <4> DEFINE two == 2
      <4>1. two \in Int /\ k \in Int
        BY <1>3
      <4> HIDE DEF two, k
      <4>2. Min({two, k}) = IF two <= k THEN two ELSE k
        BY <4>1, LesserOf
      <4>3. QED
        BY <3>2, <4>2 DEF two
    <3> HIDE DEF k
    <3>4. QED
      BY <1>3, <3>1, <3>3
  <2>3. QED
    BY <2>1, <2>2
<1>5. /\ cells \in Seq(Nat) /\ rest \in Seq(Nat) /\ Len(cells) = n /\ cells \o rest = in
  <2>1. in \in Seq(Nat) /\ n \in 0 .. Len(in)
    BY <1>3, <1>4
  <2> HIDE DEF in
  <2>2. /\ SubSeq(in, 1, n) \in Seq(Nat) /\ SubSeq(in, n + 1, Len(in)) \in Seq(Nat)
        /\ Len(SubSeq(in, 1, n)) = n /\ SubSeq(in, 1, n) \o SubSeq(in, n + 1, Len(in)) = in
    BY <2>1, Split
  <2>3. QED
    BY <2>2
<1>6. Scatter(r.bufs, cells) = cells
  BY <1>4, <1>5, ScatterAll
<1>7. conn' = [conn EXCEPT ![u] = c]
  <2>1. conn' = [conn EXCEPT ![u].in = SubSeq(@, n + 1, Len(@))]
    BY DEF Receive
  <2>2. QED
    BY <1>1, <1>2, <2>1 DEF SocketsShape
<1>8. hist' = [hist EXCEPT ![u] = h]
  <2>1. hist' = [hist EXCEPT ![u].got = @ \o Scatter(r.bufs, cells), ![u].ready = @ \ {"read"}]
    BY DEF Receive, Conn
  <2> HIDE DEF cells
  <2>2. hist' = [hist EXCEPT ![u].got = @ \o cells, ![u].ready = @ \ {"read"}]
    BY <1>6, <2>1
  <2>3. QED
    BY <1>1, <1>2, <2>2 DEF SocketsShape, Took
<1> HIDE DEF in, k, cells, rest
<1>9. /\ c \in HostSocks /\ c.state = conn[u].state /\ c.in = rest /\ c.sent = conn[u].sent
      /\ c.fin = conn[u].fin /\ c.block = conn[u].block
  BY <1>3, <1>5 DEF HostSocks
<1>10. /\ h \in FdStories /\ h.told = hist[u].told /\ h.asked = hist[u].asked /\ h.key = hist[u].key
       /\ h.nonblock = hist[u].nonblock /\ h.got = hist[u].got \o cells
       /\ h.ready = hist[u].ready \ {"read"}
       /\ h.fresh = hist[u].fresh /\ h.own = hist[u].own
  <2>1. hist[u].got \o cells \in Seq(Nat)
    BY <1>3, <1>5, ConcatProperties
  <2>2. QED
    BY <1>3, <2>1 DEF FdStories, Took
<1>11. (hist[u].got \o cells) \o rest = hist[u].got \o in
  <2> DEFINE g == hist[u].got
  <2>1. g \in Seq(Nat) /\ cells \in Seq(Nat) /\ rest \in Seq(Nat)
    BY <1>3, <1>5
  <2> HIDE DEF g
  <2>2. (g \o cells) \o rest = g \o (cells \o rest)
    BY <2>1, ConcatAssociative
  <2>3. QED
    BY <1>5, <2>2 DEF g
<1>12. right' = TRUE
  <2>1. CASE r.overlapped
    <3> DEFINE t == r.counted
    <3>1. Post(i, n, t)
      BY <2>1 DEF Receive
    <3> HIDE DEF t
    <3>2. QED
      BY <3>1, PostTells
  <2>2. CASE ~r.overlapped
    BY <1>1, <2>2 DEF Receive
  <2>3. QED
    BY <2>1, <2>2
<1>13. hist[u].got \o in = [j \in 1 .. conn[u].sent |-> j]
  BY <1>3 DEF FdRight, in
<1> HIDE DEF c, h, u
<1>14. FdRight(c, h)
  <2>1. h.got \o c.in = [j \in 1 .. c.sent |-> j]
    BY <1>9, <1>10, <1>11, <1>13
  <2>2. QED
    BY <1>3, <1>9, <1>10, <2>1 DEF FdRight
<1>15. Open(c) <=> Open(conn[u])
  BY <1>9 DEF Open
<1>16. waiting' \in Receivings \cup {Nobody} /\ (waiting' # Nobody => WaiterRight')
  OBVIOUS
<1>17. QED
  BY <1>2, <1>7, <1>8, <1>9, <1>10, <1>12, <1>14, <1>15, <1>16, OneSocket

\* Recv: something is there, or the receive waits.
LEMMA RecvStep ==
    ASSUME SocketsInv, Recv
    PROVE  SocketsInv'
<1> DEFINE Does(i, r) ==
               /\ Calls("recv") /\ Conn(i).state \in {"up", "shut"}
               /\ \/ \E n \in Receivable(i, r) : SomethingIn(i) /\ Receive(i, r, n) /\ UNCHANGED waiting
                  \/ ~SomethingIn(i) /\ Conn(i).block /\ waiting' = r /\ UNCHANGED <<conn, hist, right>>
               /\ UNCHANGED <<calls, fds, reported, bindings>>
<1>1. PICK r \in [slot : Taken, bufs : Buffers, overlapped : BOOLEAN, counted : BOOLEAN] : Does(r.slot, r)
  BY DEF Recv
<1> DEFINE i == r.slot
<1>2. i \in Taken /\ r.bufs \in Buffers /\ r.counted \in BOOLEAN /\ r.overlapped \in BOOLEAN
  OBVIOUS
<1>3. r.bufs \in Buffers /\ r.slot = i /\ r \in Receivings /\ Does(i, r) /\ Free
  <2>1. Does(i, r) /\ Free
    BY <1>1, <1>2 DEF Calls
  <2>2. Taken \subseteq SocketSlot
    BY DEF Taken
  <2>3. r \in Receivings
    BY <2>2 DEF Receivings
  <2>4. QED
    BY <1>2, <2>1, <2>3
<1> HIDE DEF i
<1>4. CASE \E n \in Receivable(i, r) : SomethingIn(i) /\ Receive(i, r, n) /\ UNCHANGED waiting
  <2>1. PICK n \in Receivable(i, r) : SomethingIn(i) /\ Receive(i, r, n) /\ UNCHANGED waiting
    BY <1>4
  <2>2. waiting' = Nobody /\ UNCHANGED <<fds, reported, bindings>>
    BY <1>3, <2>1 DEF Free
  <2> HIDE DEF Does
  <2>3. QED
    BY <1>2, <1>3, <2>1, <2>2, ReceiveStep
<1>5. CASE ~SomethingIn(i) /\ Conn(i).block /\ waiting' = r /\ UNCHANGED <<conn, hist, right>>
  <2> DEFINE u == fds[i]
  <2>1. SocketsShape /\ FdsRight /\ right = TRUE /\ u \in Fd
    BY <1>2, TakenFd DEF SocketsInv
  <2>2. /\ conn[u].in = <<>> /\ ~conn[u].fin /\ conn[u].state = "up" /\ conn[u].block
        /\ UNCHANGED <<conn, hist, right, fds, reported, bindings>>
    BY <1>3, <1>5 DEF SomethingIn, Conn
  <2>3. "read" \notin hist[u].ready
    BY <2>1, <2>2 DEF FdsRight, FdRight
  <2>4. Taken' = Taken /\ fds' = fds
    BY <2>2 DEF Taken
  <2>5. WaiterRight'
    BY <1>2, <1>3, <1>5, <2>2, <2>3, <2>4 DEF WaiterRight, WaitRight
  <2>6. SocketsShape'
    BY <1>3, <1>5, <2>1, <2>2 DEF SocketsShape
  <2>7. DescriptorsHeld' /\ FdsRight' /\ ReportsRight' /\ BindingsRight'
    BY <2>2, <2>4 DEF SocketsInv, DescriptorsHeld, FdsRight, ReportsRight, Reports, BindingsRight, BoundRight, Bound
  <2>8. QED
    BY <2>1, <2>2, <2>5, <2>6, <2>7 DEF SocketsInv
<1>6. QED
  BY <1>3, <1>4, <1>5

LEMMA RecvReturnsStep ==
    ASSUME SocketsInv, RecvReturns
    PROVE  SocketsInv'
<1> DEFINE i == waiting.slot
           r == waiting
<1>1. /\ waiting # Nobody /\ SomethingIn(i) /\ waiting' = Nobody
      /\ \E n \in Receivable(i, r) : Receive(i, r, n)
      /\ UNCHANGED <<fds, reported, bindings>>
  BY DEF RecvReturns, Free
<1>2. WaiterRight /\ SocketsShape
  BY DEF SocketsInv
<1>3. i \in Taken /\ r \in Receivings
  BY <1>1, <1>2 DEF WaiterRight, WaitRight, SocketsShape
<1>4. r.bufs \in Buffers
  BY <1>3 DEF Receivings
<1>5. PICK n \in Receivable(i, r) : Receive(i, r, n)
  BY <1>1
<1> HIDE DEF i, r
<1>6. QED
  BY <1>1, <1>3, <1>4, <1>5, ReceiveStep

\* Steps that leave sockets and what is known of them alone.
LEMMA SameSockets ==
    ASSUME SocketsInv, UNCHANGED <<fds, reported, bindings, conn, waiting, hist>>, right' = TRUE
    PROVE  SocketsInv'
<1>1. Taken' = Taken
  BY DEF Taken
<1>2. SocketsShape' /\ DescriptorsHeld' /\ FdsRight'
  BY <1>1 DEF SocketsInv, SocketsShape, DescriptorsHeld, FdsRight
<1>3. ReportsRight' /\ BindingsRight' /\ WaiterRight'
  BY <1>1 DEF SocketsInv, ReportsRight, Reports, BindingsRight, BoundRight, Bound,
                 WaiterRight, WaitRight
<1>4. QED
  BY <1>2, <1>3 DEF SocketsInv

LEMMA SendOverlappedStep ==
    ASSUME SocketsInv, SendOverlapped
    PROVE  SocketsInv'
<1>1. PICK i \in Taken : \E n \in 1 .. 2, counted \in BOOLEAN :
        /\ Post(i, n, counted)
        /\ UNCHANGED <<fds, reported, bindings, conn, waiting, hist>>
  BY DEF SendOverlapped
<1>2. PICK n \in 1 .. 2, counted \in BOOLEAN :
        /\ Post(i, n, counted)
        /\ UNCHANGED <<fds, reported, bindings, conn, waiting, hist>>
  BY <1>1
<1>3. right' = TRUE
  BY <1>2, PostTells
<1>4. QED
  BY <1>2, <1>3, SameSockets

\* socket: the descriptor of a new socket goes into the first free slot, or is closed.
LEMMA NewSocketStep ==
    ASSUME SocketsInv, NewSocket
    PROVE  SocketsInv'
<1> DEFINE free == SocketSlot \ Taken
           j == Min(free)
           s == IF free = {} THEN "closed" ELSE "new"
           fresh == ~reported[j]
           own == ~Bound(j)
<1>1. PICK u \in Fd :
        /\ Free /\ conn[u].state = "none" /\ conn' = [conn EXCEPT ![u].state = s]
        /\ fds' = IF free = {} THEN fds ELSE [fds EXCEPT ![j] = u]
        /\ hist' = IF free = {} THEN hist ELSE [hist EXCEPT ![u].fresh = fresh, ![u].own = own]
        /\ UNCHANGED <<calls, reported, bindings, waiting, right>>
  BY DEF NewSocket
<1> DEFINE c == [conn[u] EXCEPT !.state = s]
<1>2. /\ SocketsShape /\ DescriptorsHeld /\ FdsRight /\ ReportsRight /\ BindingsRight /\ right = TRUE
      /\ s \in {"new", "closed"} /\ u # 0 /\ u \in 0 .. MaxFds
  BY SockNumbers DEF SocketsInv
<1>3. conn[u] \in HostSocks /\ FdRight(conn[u], hist[u]) /\ waiting = Nobody /\ waiting' = Nobody
  BY <1>1, <1>2, SockFields DEF FdsRight, Free
<1>4. /\ c \in HostSocks /\ c.state = s /\ c.in = conn[u].in /\ c.sent = conn[u].sent
      /\ c.fin = conn[u].fin /\ c.block = conn[u].block
  BY <1>2, <1>3 DEF HostSocks, FdStates
<1>5. conn' \in [Fd -> HostSocks] /\ conn'[u] = c /\ \A f \in Fd : f # u => conn'[f] = conn[f]
  BY <1>1, <1>2, <1>4 DEF SocketsShape
<1>6. /\ \A i \in Taken : fds[i] \in Fd /\ fds[i] # u
      /\ ~hist[u].asked /\ hist[u].key = 0
  <2>1. ~Open(conn[u])
    BY <1>1 DEF Open
  <2>2. \A i \in Taken : Open(conn[fds[i]])
    BY <1>2 DEF DescriptorsHeld
  <2>3. ~hist[u].asked /\ hist[u].key = 0
    BY <1>1, <1>3 DEF FdRight
  <2>4. QED
    BY <1>2, <2>1, <2>2, <2>3, TakenFd
<1> HIDE DEF c
<1>7. FdRight(c, hist[u]) /\ \A f \in Fd : f # u => FdRight(conn'[f], hist[f])
  <2>1. FdRight(c, hist[u])
    BY <1>1, <1>2, <1>3, <1>4 DEF FdRight
  <2>2. QED
    BY <1>2, <1>5, <2>1 DEF FdsRight
<1>8. CASE free = {}
  <2>1. fds' = fds /\ Taken' = Taken /\ s = "closed" /\ hist' = hist
    BY <1>1, <1>8 DEF Taken
  <2> HIDE DEF free, s
  <2>2. SocketsShape'
    BY <1>1, <1>2, <1>3, <1>5, <2>1 DEF SocketsShape
  <2>3. DescriptorsHeld'
    <3>1. \A i \in Taken : Open(conn'[fds[i]])
      BY <1>2, <1>5, <1>6 DEF DescriptorsHeld
    <3>2. \A f \in Fd : Open(conn'[f]) => \E i \in Taken : fds[i] = f
      BY <1>2, <1>4, <1>5, <2>1 DEF DescriptorsHeld, Open
    <3>3. QED
      BY <1>2, <2>1, <3>1, <3>2 DEF DescriptorsHeld
  <2>4. ReportsRight' /\ BindingsRight'
    <3>1. bindings' = bindings /\ reported' = reported
      BY <1>1
    <3>2. QED
      BY <1>2, <2>1, <3>1 DEF ReportsRight, BindingsRight, BoundRight, Bound
  <2>5. WaiterRight'
    BY <1>3 DEF WaiterRight
  <2>6. FdsRight'
    BY <1>5, <1>7, <2>1 DEF FdsRight
  <2>7. QED
    BY <1>1, <1>2, <2>2, <2>3, <2>4, <2>5, <2>6 DEF SocketsInv
<1>9. CASE free # {}
  <2>1. j \in SocketSlot /\ j \notin Taken
    <3>1. free \subseteq Nat
      BY SockNumbers
    <3>2. j \in free
      BY <1>9, <3>1, LeastOf
    <3>3. QED
      BY <3>2
  <2>2. /\ fds' = [fds EXCEPT ![j] = u] /\ s = "new"
        /\ hist' = [hist EXCEPT ![u].fresh = fresh, ![u].own = own]
    BY <1>1, <1>9
  <2> DEFINE h == [hist[u] EXCEPT !.fresh = fresh, !.own = own]
  <2>new. fresh \in BOOLEAN /\ own \in BOOLEAN /\ hist[u] \in FdStories
    BY <1>2, SockFields DEF Bound
  <2>a. (fresh <=> ~reported[j]) /\ (own <=> ~Bound(j))
    OBVIOUS
  <2> HIDE DEF free, j, s, fresh, own
  <2>h. /\ h \in FdStories /\ h.told = hist[u].told /\ h.asked = hist[u].asked /\ h.key = hist[u].key
        /\ h.nonblock = hist[u].nonblock /\ h.got = hist[u].got /\ h.ready = hist[u].ready
        /\ h.fresh = fresh /\ h.own = own
    BY <2>new DEF FdStories
  <2>u. /\ hist' \in [Fd -> FdStories] /\ hist'[u] = h /\ \A f \in Fd : f # u => hist'[f] = hist[f]
    <3>1. hist' = [hist EXCEPT ![u] = h]
      BY <1>2, <2>2 DEF SocketsShape
    <3>2. QED
      BY <1>2, <2>h, <3>1 DEF SocketsShape
  <2> HIDE DEF h
  <2>3. /\ fds' \in [SocketSlot -> 0 .. MaxFds] /\ fds'[j] = u
        /\ \A i \in SocketSlot : i # j => fds'[i] = fds[i]
    BY <1>2, <2>1, <2>2 DEF SocketsShape
  <2>4. Taken' = Taken \cup {j} /\ \A i \in Taken : i # j /\ fds'[i] = fds[i] /\ i \in SocketSlot
    BY <1>2, <2>1, <2>3 DEF Taken
  <2>5. SocketsShape'
    BY <1>1, <1>2, <1>3, <1>5, <2>3, <2>u DEF SocketsShape
  <2>6. DescriptorsHeld'
    <3>1. \A i, k \in Taken' : fds'[i] = fds'[k] => i = k
      BY <1>2, <1>6, <2>3, <2>4 DEF DescriptorsHeld
    <3>2. \A i \in Taken' : Open(conn'[fds'[i]])
      <4>1. Open(c)
        BY <1>4, <2>2 DEF Open
      <4>2. \A i \in Taken : Open(conn'[fds'[i]])
        BY <1>2, <1>5, <1>6, <2>4 DEF DescriptorsHeld
      <4>3. QED
        BY <1>5, <2>3, <2>4, <4>1, <4>2
    <3>3. \A f \in Fd : Open(conn'[f]) => \E i \in Taken' : fds'[i] = f
      <4> TAKE f \in Fd
      <4>1. CASE f = u
        BY <2>3, <2>4, <4>1
      <4>2. CASE f # u
        <5>1. Open(conn'[f]) => \E i \in Taken : fds[i] = f
          BY <1>2, <1>5, <4>2 DEF DescriptorsHeld
        <5>2. QED
          BY <2>4, <5>1
      <4>3. QED
        BY <4>1, <4>2
    <3>4. QED
      BY <3>1, <3>2, <3>3 DEF DescriptorsHeld
  <2>7. ReportsRight'
    <3>1. \A i \in Taken : hist'[fds'[i]] = hist[fds[i]]
      BY <1>6, <2>4, <2>u
    <3>2. \A i \in Taken : reported[i] <=> Reports(hist'[fds'[i]])
      BY <1>2, <3>1 DEF ReportsRight
    <3>3. reported[j] <=> Reports(hist'[fds'[j]])
      BY <1>6, <2>3, <2>1, <2>a, <2>h, <2>u DEF Reports
    <3>4. QED
      BY <1>1, <2>4, <3>2, <3>3 DEF ReportsRight
  <2>8. BindingsRight'
    <3>1. \A i \in Taken : hist'[fds'[i]] = hist[fds[i]]
      BY <1>6, <2>4, <2>u
    <3>2. \A i \in Taken : BoundRight(i, hist'[fds'[i]])
      BY <1>2, <3>1 DEF BindingsRight
    <3>3. BoundRight(j, hist'[fds'[j]])
      BY <1>6, <2>3, <2>1, <2>a, <2>h, <2>u DEF BoundRight, Bound
    <3>4. bindings' = bindings
      BY <1>1
    <3>5. \A i \in Taken' : BoundRight(i, hist'[fds'[i]])
      BY <2>4, <3>2, <3>3
    <3>6. QED
      BY <3>4, <3>5 DEF BindingsRight, BoundRight, Bound
  <2>9. WaiterRight'
    BY <1>3 DEF WaiterRight
  <2>10. FdsRight'
    <3>1. FdRight(c, h)
      BY <1>6, <1>7, <2>2, <1>4, <2>h DEF FdRight
    <3>2. QED
      BY <1>5, <1>7, <2>u, <3>1 DEF FdsRight
  <2>11. QED
    BY <1>1, <1>2, <2>5, <2>6, <2>7, <2>8, <2>9, <2>10 DEF SocketsInv
<1>10. QED
  BY <1>8, <1>9

\* closesocket leaves the reports and associations of its slot to the next socket.
LEMMA CloseSocketStep ==
    ASSUME SocketsInv, CloseSocket
    PROVE  SocketsInv'
<1>1. PICK j \in Taken :
        /\ Free
        /\ conn' = [conn EXCEPT ![fds[j]].state = "closed"] /\ fds' = [fds EXCEPT ![j] = 0]
        /\ UNCHANGED <<calls, reported, bindings, waiting, right, hist>>
  BY DEF CloseSocket, SetState, Calls
<1> DEFINE u == fds[j]
           c == [conn[u] EXCEPT !.state = "closed"]
<1>2. /\ SocketsShape /\ DescriptorsHeld /\ FdsRight /\ ReportsRight /\ BindingsRight /\ right = TRUE
  BY DEF SocketsInv
<1>3. u \in Fd /\ j \in SocketSlot /\ 0 \in 0 .. MaxFds
  BY <1>2, TakenFd, SockNumbers
<1>4. conn[u] \in HostSocks /\ FdRight(conn[u], hist[u]) /\ waiting = Nobody /\ waiting' = Nobody
  BY <1>1, <1>2, <1>3, SockFields DEF FdsRight, Free
<1>5. /\ c \in HostSocks /\ c.state = "closed" /\ c.in = conn[u].in /\ c.sent = conn[u].sent
      /\ c.fin = conn[u].fin /\ c.block = conn[u].block
  BY <1>4 DEF HostSocks, FdStates
<1>6. conn' \in [Fd -> HostSocks] /\ conn'[u] = c /\ \A f \in Fd : f # u => conn'[f] = conn[f]
  BY <1>1, <1>2, <1>3, <1>5 DEF SocketsShape
<1>7. /\ fds' \in [SocketSlot -> 0 .. MaxFds] /\ fds'[j] = 0
      /\ \A i \in SocketSlot : i # j => fds'[i] = fds[i]
  BY <1>1, <1>2, <1>3 DEF SocketsShape
<1>8. Taken' = Taken \ {j} /\ \A i \in Taken' : fds'[i] = fds[i] /\ i \in Taken /\ fds[i] \in Fd
  BY <1>2, <1>7, TakenFd DEF Taken
<1>9. \A i \in Taken' : fds[i] # u
  BY <1>1, <1>2, <1>8 DEF DescriptorsHeld
<1> HIDE DEF c
<1>10. FdsRight'
  <2>1. FdRight(c, hist[u])
    <3>1. hist[u].nonblock => ~c.block
      BY <1>4, <1>5 DEF FdRight
    <3>2. QED
      BY <1>4, <1>5, <3>1, MovesOn
  <2>2. QED
    BY <1>1, <1>2, <1>6, <2>1 DEF FdsRight
<1>11. SocketsShape'
  BY <1>1, <1>2, <1>4, <1>6, <1>7 DEF SocketsShape
<1>12. DescriptorsHeld'
  <2>1. \A i, k \in Taken' : fds'[i] = fds'[k] => i = k
    BY <1>2, <1>8 DEF DescriptorsHeld
  <2>2. \A i \in Taken' : Open(conn'[fds'[i]])
    BY <1>2, <1>6, <1>8, <1>9 DEF DescriptorsHeld
  <2>3. \A f \in Fd : Open(conn'[f]) => \E i \in Taken' : fds'[i] = f
    <3> TAKE f \in Fd
    <3>1. CASE f = u
      BY <1>5, <1>6, <3>1 DEF Open
    <3>2. CASE f # u
      <4>1. Open(conn'[f]) => \E i \in Taken : fds[i] = f
        BY <1>2, <1>6, <3>2 DEF DescriptorsHeld
      <4>2. \A i \in Taken : fds[i] = f => i \in Taken'
        BY <1>8, <3>2
      <4>3. QED
        BY <1>8, <4>1, <4>2
    <3>3. QED
      BY <3>1, <3>2
  <2>4. QED
    BY <2>1, <2>2, <2>3 DEF DescriptorsHeld
<1>13. ReportsRight'
  BY <1>1, <1>2, <1>8 DEF ReportsRight
<1>14. BindingsRight'
  BY <1>1, <1>2, <1>8 DEF BindingsRight, BoundRight, Bound
<1>15. WaiterRight'
  BY <1>4 DEF WaiterRight
<1>16. QED
  BY <1>1, <1>2, <1>10, <1>11, <1>12, <1>13, <1>14, <1>15 DEF SocketsInv

\* CreateIoCompletionPort, with room in the table or without.
LEMMA AssociateStep ==
    ASSUME SocketsInv, Associate
    PROVE  SocketsInv'
<1> DEFINE room == Len(bindings) < MaxBindings
<1>1. PICK j \in Taken :
        /\ Free /\ hist[fds[j]].key = 0
        /\ bindings' = IF room THEN Append(bindings, [slot |-> j, key |-> fds[j]]) ELSE bindings
        /\ hist' = [hist EXCEPT ![fds[j]].key = fds[j], ![fds[j]].own = @ /\ room]
        /\ UNCHANGED <<calls, fds, reported, conn, waiting, right>>
  BY DEF Associate, Calls
<1> DEFINE u == fds[j]
           b == [slot |-> j, key |-> u]
           own == hist[u].own /\ room
           h == [hist[u] EXCEPT !.key = u, !.own = own]
           Pairs == [slot : SocketSlot, key : Fd]
<1>2. /\ SocketsShape /\ DescriptorsHeld /\ FdsRight /\ ReportsRight /\ BindingsRight /\ right = TRUE
  BY DEF SocketsInv
<1>3. u \in Fd /\ j \in SocketSlot /\ u \in Nat /\ u # 0
  BY <1>2, TakenFd, SockNumbers
<1>4. /\ hist[u] \in FdStories /\ FdRight(conn[u], hist[u]) /\ waiting = Nobody /\ waiting' = Nobody
      /\ bindings \in Seq(Pairs) /\ BoundRight(j, hist[u]) /\ hist[u].key = 0
      /\ hist[u].own \in BOOLEAN
  BY <1>1, <1>2, <1>3, SockFields DEF FdsRight, Free, SocketsShape, BindingsRight
<1>o. own \in BOOLEAN /\ (own => hist[u].own /\ room)
  BY <1>4
<1>i. hist' = [hist EXCEPT ![u] = h]
  BY <1>1, <1>2, <1>3 DEF SocketsShape
<1> HIDE DEF own
<1>5. /\ h \in FdStories /\ h.told = hist[u].told /\ h.asked = hist[u].asked /\ h.key = u
      /\ h.nonblock = hist[u].nonblock /\ h.got = hist[u].got /\ h.ready = hist[u].ready
      /\ h.fresh = hist[u].fresh /\ h.own = own
  BY <1>3, <1>4, <1>o DEF FdStories
<1>6. b \in Pairs /\ b.slot = j /\ b.key = u
  BY <1>3
<1>7. /\ hist' \in [Fd -> FdStories] /\ hist'[u] = h /\ \A f \in Fd : f # u => hist'[f] = hist[f]
  BY <1>2, <1>3, <1>5, <1>i DEF SocketsShape
<1> HIDE DEF h, b, Pairs
<1>8. bindings' = IF room THEN Append(bindings, b) ELSE bindings
  BY <1>1 DEF b
<1> HIDE DEF room
<1> DEFINE n == Len(bindings)
<1>9. /\ n \in Nat /\ DOMAIN bindings = 1 .. n /\ bindings' \in Seq(Pairs) /\ 1 .. n \subseteq DOMAIN bindings'
      /\ \A k \in 1 .. n : bindings'[k] = bindings[k]
      /\ \A k \in DOMAIN bindings' : k \in 1 .. n \/ bindings'[k] = b
      /\ room => n + 1 \in DOMAIN bindings' /\ bindings'[n + 1] = b
  <2>1. n \in Nat /\ DOMAIN bindings = 1 .. n
    BY <1>4, LenProperties
  <2>2. CASE ~room
    BY <1>4, <1>8, <2>1, <2>2
  <2>3. CASE room
    <3>1. bindings' \in Seq(Pairs) /\ Len(bindings') = n + 1
      BY <1>4, <1>6, <1>8, <2>3, AppendProperties
    <3>2. DOMAIN bindings' = 1 .. n + 1
      BY <3>1, LenProperties
    <3>3. /\ \A k \in 1 .. n : bindings'[k] = bindings[k]
          /\ bindings'[n + 1] = b
      BY <1>4, <1>6, <1>8, <2>3, AppendProperties
    <3>4. \A k \in 1 .. n + 1 : k \in 1 .. n \/ k = n + 1
      BY <2>1
    <3>5. 1 .. n \subseteq 1 .. n + 1 /\ n + 1 \in 1 .. n + 1
      BY <2>1
    <3>6. QED
      BY <2>1, <3>1, <3>2, <3>3, <3>4, <3>5
  <2>4. QED
    BY <2>2, <2>3
<1> HIDE DEF n
<1>10. fds' = fds /\ Taken' = Taken /\ conn' = conn /\ \A i \in Taken : fds[i] \in Fd /\ (i # j => fds[i] # u)
  BY <1>1, <1>2, TakenFd DEF Taken, DescriptorsHeld
<1>11. FdsRight'
  <2>1. conn[u].state # "none"
    BY <1>2 DEF DescriptorsHeld, Open
  <2>2. FdRight(conn[u], h)
    BY <1>4, <1>5, <2>1 DEF FdRight
  <2>3. QED
    BY <1>2, <1>7, <1>10, <2>2 DEF FdsRight
<1>12. SocketsShape'
  BY <1>1, <1>2, <1>4, <1>7, <1>9 DEF SocketsShape, Pairs
<1>13. DescriptorsHeld'
  BY <1>2, <1>10 DEF DescriptorsHeld
<1>14. ReportsRight'
  BY <1>1, <1>2, <1>3, <1>5, <1>7, <1>10 DEF ReportsRight, Reports
<1>15. BindingsRight'
  <2>1. ASSUME hist[u].own
        PROVE  \A k \in 1 .. n : bindings[k].slot # j
    <3> TAKE k \in 1 .. n
    <3>1. bindings[k] \in Pairs
      BY <1>4, <1>9, ElementOfSeq DEF n
    <3>2. bindings[k].key # 0
      BY <3>1, SockNumbers DEF Pairs
    <3>3. QED
      BY <1>4, <1>9, <2>1, <3>2 DEF BoundRight
  <2>2. ASSUME own
        PROVE  /\ \A k \in DOMAIN bindings' : bindings'[k].slot = j => bindings'[k].key = u
               /\ \E k \in DOMAIN bindings' : bindings'[k].slot = j
    BY <1>6, <1>9, <1>o, <2>1, <2>2
  <2>3. \A i \in Taken : i = j => BoundRight(i, hist[fds[i]])'
    BY <1>5, <1>7, <1>10, <2>2 DEF BoundRight, Bound
  <2>4. ASSUME NEW i \in Taken, i # j
        PROVE  BoundRight(i, hist[fds[i]])'
    <3>1. hist'[fds[i]] = hist[fds[i]] /\ BoundRight(i, hist[fds[i]])
      BY <1>2, <1>7, <1>10, <2>4 DEF BindingsRight
    <3>2. QED
      BY <1>6, <1>9, <1>10, <2>4, <3>1 DEF BoundRight, Bound
  <2>5. QED
    BY <1>10, <2>3, <2>4 DEF BindingsRight
<1>16. WaiterRight'
  BY <1>4 DEF WaiterRight
<1>17. QED
  BY <1>1, <1>2, <1>11, <1>12, <1>13, <1>14, <1>15, <1>16 DEF SocketsInv

\* A step that only adds to what the guest knows of its descriptors, while nobody waits.
LEMMA KnownStep ==
    ASSUME SocketsInv, Free, hist' \in [Fd -> FdStories], reported' \in [SocketSlot -> BOOLEAN],
           \A f \in Fd : /\ hist'[f].key = hist[f].key /\ hist'[f].own = hist[f].own
                          /\ FdRight(conn[f], hist'[f]),
           \A i \in Taken : reported'[i] <=> Reports(hist'[fds[i]]),
           UNCHANGED <<fds, bindings, conn, waiting, right>>
    PROVE  SocketsInv'
<1>1. /\ SocketsShape /\ DescriptorsHeld /\ BindingsRight /\ right' = TRUE
      /\ Taken' = Taken /\ \A i \in Taken : fds[i] \in Fd
  BY TakenFd DEF SocketsInv, Taken
<1>2. SocketsShape' /\ DescriptorsHeld' /\ FdsRight' /\ ReportsRight'
  BY <1>1 DEF SocketsShape, DescriptorsHeld, FdsRight, ReportsRight
<1>3. BindingsRight'
  BY <1>1 DEF BindingsRight, BoundRight, Bound
<1>4. WaiterRight'
  BY DEF WaiterRight, Free
<1>5. QED
  BY <1>1, <1>2, <1>3, <1>4 DEF SocketsInv

\* WSAEnumNetworkEvents: a connection is told when it is first asked for and up or failed.
LEMMA EnumEventsStep ==
    ASSUME SocketsInv, EnumEvents
    PROVE  SocketsInv'
<1> DEFINE Tell(i) == SocketWritable(i) /\ ~reported[i]
<1>1. PICK j \in Taken :
        /\ Free /\ IF Tell(j) THEN Report(j) ELSE UNCHANGED reported
        /\ hist' = [hist EXCEPT ![fds[j]].asked = @ \/ SocketWritable(j),
                                ![fds[j]].told = IF Tell(j) THEN @ + 1 ELSE @]
        /\ UNCHANGED <<calls, fds, bindings, conn, waiting, right>>
  BY DEF EnumEvents, Calls
<1> DEFINE u == fds[j]
           asked == hist[u].asked \/ SocketWritable(j)
           told == IF Tell(j) THEN hist[u].told + 1 ELSE hist[u].told
           h == [hist[u] EXCEPT !.asked = asked, !.told = told]
<1>2. /\ SocketsShape /\ DescriptorsHeld /\ FdsRight /\ ReportsRight
  BY DEF SocketsInv
<1>3. u \in Fd /\ j \in SocketSlot
  BY <1>2, TakenFd
<1>4. /\ hist[u] \in FdStories /\ FdRight(conn[u], hist[u]) /\ hist[u].told \in Nat
      /\ hist[u].asked \in BOOLEAN /\ hist[u].fresh \in BOOLEAN /\ conn[u].state # "none"
  <2>1. conn[u].state # "none"
    BY <1>2 DEF DescriptorsHeld, Open
  <2>2. QED
    BY <1>2, <1>3, <2>1, SockFields DEF FdsRight
<1>5. hist' = [hist EXCEPT ![u] = h]
  BY <1>1, <1>2, <1>3 DEF SocketsShape
<1>6. reported[j] <=> (hist[u].asked \/ ~hist[u].fresh)
  BY <1>2 DEF ReportsRight, Reports
<1>7. hist[u].told = IF hist[u].asked /\ hist[u].fresh THEN 1 ELSE 0
  BY <1>4 DEF FdRight
<1>8. told \in Nat /\ asked \in BOOLEAN /\ told = (IF asked /\ hist[u].fresh THEN 1 ELSE 0)
  <2> DEFINE w == SocketWritable(j)
             a == hist[u].asked
             t == hist[u].told
             p == reported[j]
             e == hist[u].fresh
  <2>1. w \in BOOLEAN
    BY DEF SocketWritable
  <2>2. a \in BOOLEAN /\ e \in BOOLEAN /\ t = (IF a /\ e THEN 1 ELSE 0) /\ (p <=> a \/ ~e)
    BY <1>4, <1>6, <1>7
  <2>3. told = (IF w /\ ~p THEN t + 1 ELSE t) /\ asked = (a \/ w)
    OBVIOUS
  <2> HIDE DEF w, a, t, p, e, told, asked
  <2>4. told \in Nat /\ asked \in BOOLEAN /\ told = (IF asked /\ e THEN 1 ELSE 0)
    BY <2>1, <2>2, <2>3
  <2>5. QED
    BY <2>4 DEF e
<1>9. (reported'[j] <=> asked \/ ~hist[u].fresh) /\ \A i \in SocketSlot : i # j => reported'[i] = reported[i]
  <2>1. CASE Tell(j)
    <3>1. reported' = [reported EXCEPT ![j] = TRUE]
      BY <1>1, <2>1 DEF Report
    <3>2. QED
      BY <1>2, <1>3, <2>1, <3>1 DEF SocketsShape
  <2>2. CASE ~Tell(j)
    BY <1>1, <1>6, <2>2
  <2>3. QED
    BY <2>1, <2>2
<1>10. reported' \in [SocketSlot -> BOOLEAN]
  BY <1>1, <1>2 DEF SocketsShape, Report
<1> HIDE DEF asked, told, Tell
<1>11. /\ h \in FdStories /\ h.told = told /\ h.asked = asked /\ h.key = hist[u].key
       /\ h.nonblock = hist[u].nonblock /\ h.got = hist[u].got /\ h.ready = hist[u].ready
       /\ h.fresh = hist[u].fresh /\ h.own = hist[u].own
  BY <1>4, <1>8 DEF FdStories
<1> HIDE DEF h
<1>12. FdRight(conn[u], h)
  BY <1>4, <1>8, <1>11 DEF FdRight
<1>13. /\ hist' \in [Fd -> FdStories] /\ hist'[u] = h /\ \A f \in Fd : f # u => hist'[f] = hist[f]
  BY <1>2, <1>3, <1>5, <1>11 DEF SocketsShape
<1>14. \A f \in Fd : /\ hist'[f].key = hist[f].key /\ hist'[f].own = hist[f].own
                      /\ FdRight(conn[f], hist'[f])
  BY <1>2, <1>11, <1>12, <1>13 DEF FdsRight
<1>15. \A i \in Taken : reported'[i] <=> Reports(hist'[fds[i]])
  <2> TAKE i \in Taken
  <2>1. CASE i = j
    BY <1>9, <1>11, <1>13, <2>1 DEF Reports
  <2>2. CASE i # j
    <3>1. hist'[fds[i]] = hist[fds[i]] /\ i \in SocketSlot
      BY <1>2, <1>3, <1>13, <2>2, TakenFd DEF DescriptorsHeld
    <3>2. QED
      BY <1>2, <1>9, <2>2, <3>1 DEF ReportsRight
  <2>3. QED
    BY <2>1, <2>2
<1>16. Free /\ UNCHANGED <<fds, bindings, conn, waiting, right>>
  BY <1>1
<1>17. QED
  BY <1>10, <1>13, <1>14, <1>15, <1>16, KnownStep

\* What select tells of a socket is so.
LEMMA ReadyMeans ==
    ASSUME NEW i, NEW fetched, NEW set \in {"read", "write", "except"},
           Ready(set, Polled(i, fetched))
    PROVE  /\ set = "read" => SomethingIn(i) \/ Conn(i).fin \/ Conn(i).state \in {"shut", "failed"}
           /\ set = "write" => SocketWritable(i)
           /\ set = "except" => Conn(i).state = "failed"
<1> DEFINE p == Polled(i, fetched)
<1>1. /\ "in" \in p => SomethingIn(i)
      /\ "out" \in p => SocketWritable(i)
      /\ "pri" \in p => "hup" \in p
      /\ "hup" \in p => Conn(i).fin \/ Conn(i).state = "shut"
      /\ "err" \in p => Conn(i).state = "failed"
  BY DEF Polled
<1>2. Ready(set, p)
  OBVIOUS
<1> HIDE DEF p
<1>3. /\ set = "read" => "in" \in p \/ "hup" \in p \/ "err" \in p
      /\ set = "write" => "out" \in p
      /\ set = "except" => ("pri" \in p /\ "hup" \notin p) \/ "err" \in p
  BY <1>2 DEF Ready
<1>4. QED
  BY <1>1, <1>3

LEMMA SelectStep ==
    ASSUME SocketsInv, Select
    PROVE  SocketsInv'
<1>1. PICK set \in {"read", "write", "except"}, asked \in SUBSET SocketSlot, fetched \in BOOLEAN :
        /\ Free /\ hist' = Learnt(ReadyOf(set, asked, fetched), set)
        /\ UNCHANGED <<calls, fds, reported, bindings, conn, waiting, right>>
  BY DEF Select, Calls
<1> DEFINE ready == ReadyOf(set, asked, fetched)
           of == {f \in Fd : \E i \in ready : fds[i] = f}
           New(f) == [hist[f] EXCEPT !.ready = @ \union {set}]
<1>2. SocketsShape /\ FdsRight /\ ReportsRight
  BY DEF SocketsInv
<1>3. /\ hist' = [f \in Fd |-> hist'[f]]
      /\ \A f \in Fd : hist'[f] = IF f \in of THEN New(f) ELSE hist[f]
  BY <1>1 DEF Learnt
<1>4. ASSUME NEW f \in of
      PROVE  \E i \in Taken : f = fds[i] /\ Ready(set, Polled(i, fetched))
  BY DEF ReadyOf
<1> HIDE DEF ready, of
<1>5. ASSUME NEW f \in Fd
      PROVE  /\ hist'[f] \in FdStories /\ hist'[f].key = hist[f].key /\ hist'[f].asked = hist[f].asked
             /\ hist'[f].fresh = hist[f].fresh /\ hist'[f].own = hist[f].own
             /\ FdRight(conn[f], hist'[f])
  <2>1. CASE f \notin of
    <3>1. hist'[f] = hist[f]
      BY <1>3, <2>1
    <3>2. QED
      BY <1>2, <3>1, SockFields DEF FdsRight
  <2>2. CASE f \in of
    <3>1. hist'[f] = New(f)
      BY <1>3, <2>2
    <3> DEFINE h == hist'[f]
    <3>2. hist[f] \in FdStories /\ FdRight(conn[f], hist[f]) /\ conn[f].state \in FdStates
      BY <1>2, SockFields DEF FdsRight
    <3>3. /\ h \in FdStories /\ h.told = hist[f].told /\ h.asked = hist[f].asked /\ h.key = hist[f].key
          /\ h.nonblock = hist[f].nonblock /\ h.got = hist[f].got /\ h.ready = hist[f].ready \cup {set}
          /\ h.fresh = hist[f].fresh /\ h.own = hist[f].own
      BY <3>1, <3>2 DEF FdStories
    <3>4. PICK i \in Taken : f = fds[i] /\ Ready(set, Polled(i, fetched))
      BY <1>4, <2>2
    <3>5. /\ set = "read" => conn[f].in # <<>> \/ conn[f].fin \/ conn[f].state \in {"shut", "failed", "closed"}
          /\ set = "write" => conn[f].state \in {"up", "shut", "failed", "closed"}
          /\ set = "except" => conn[f].state \in {"failed", "closed"}
      BY <3>4, ReadyMeans DEF Conn, SomethingIn, SocketWritable
    <3> HIDE DEF h
    <3>6. FdRight(conn[f], h)
      BY <3>2, <3>3, <3>5 DEF FdRight
    <3>7. QED
      BY <3>3, <3>6 DEF h
  <2>3. QED
    BY <2>1, <2>2
<1>6. hist' \in [Fd -> FdStories]
  <2>1. hist' = [f \in Fd |-> hist'[f]]
    BY <1>3
  <2>2. QED
    BY <1>5, <2>1
<1>7. \A i \in Taken : reported'[i] <=> Reports(hist'[fds[i]])
  BY <1>1, <1>2, <1>5, TakenFd DEF ReportsRight, Reports
<1>8. Free /\ reported' \in [SocketSlot -> BOOLEAN] /\ UNCHANGED <<fds, bindings, conn, waiting, right>>
  BY <1>1, <1>2 DEF SocketsShape
<1>9. QED
  BY <1>5, <1>6, <1>7, <1>8, KnownStep

LEMMA SocketsStart ==
    ASSUME SocketsInit
    PROVE  SocketsInv
<1> DEFINE c == [state |-> "none", block |-> TRUE, in |-> <<>>, sent |-> 0, fin |-> FALSE]
           h == [told |-> 0, asked |-> FALSE, fresh |-> TRUE, key |-> 0, own |-> TRUE,
                 nonblock |-> FALSE, got |-> <<>>, ready |-> {}]
<1>1. c \in HostSocks /\ h \in FdStories
  BY EmptySeq DEF HostSocks, FdStories, FdStates
<1>2. FdRight(c, h)
  <2>1. <<>> \o <<>> = [k \in 1 .. 0 |-> k]
    OBVIOUS
  <2>2. QED
    BY <2>1 DEF FdRight
<1>3. ~Open(c)
  BY DEF Open
<1>4. conn = [f \in Fd |-> c] /\ hist = [f \in Fd |-> h]
  BY DEF SocketsInit
<1> HIDE DEF c, h
<1>5. Taken = {} /\ DOMAIN bindings = {} /\ bindings \in Seq([slot : SocketSlot, key : Fd])
  BY EmptySeq DEF SocketsInit, Taken
<1>6. SocketsShape
  <2>1. fds \in [SocketSlot -> 0 .. MaxFds] /\ reported \in [SocketSlot -> BOOLEAN]
    BY SockNumbers DEF SocketsInit
  <2>2. conn \in [Fd -> HostSocks] /\ hist \in [Fd -> FdStories]
    BY <1>1, <1>4
  <2>3. waiting = Nobody
    BY DEF SocketsInit
  <2>4. QED
    BY <1>5, <2>1, <2>2, <2>3 DEF SocketsShape
<1>7. DescriptorsHeld /\ FdsRight
  BY <1>2, <1>3, <1>4, <1>5 DEF DescriptorsHeld, FdsRight
<1>8. ReportsRight /\ BindingsRight /\ WaiterRight
  BY <1>5 DEF SocketsInit, ReportsRight, BindingsRight, WaiterRight
<1>9. QED
  BY <1>6, <1>7, <1>8 DEF SocketsInit, SocketsInv

\* What the invariant says of descriptors, reports, completions and data.
LEMMA SocketsMean ==
    ASSUME SocketsInv
    PROVE  SocketsConsistent
<1>1. /\ SocketsShape /\ DescriptorsHeld /\ FdsRight /\ WaiterRight /\ right
      /\ \A i \in Taken : fds[i] \in Fd
  BY TakenFd DEF SocketsInv
<1>2. NoDescriptorLeaks
  <2>1. \A f \in Fd : conn[f].state \notin {"none", "closed"} <=> \E i \in Taken : fds[i] = f
    BY <1>1 DEF DescriptorsHeld, Open
  <2>2. {fds[i] : i \in Taken} = {f \in Fd : conn[f].state \notin {"none", "closed"}}
    BY <1>1, <2>1
  <2>3. QED
    BY <1>1, <2>2 DEF NoDescriptorLeaks, DescriptorsHeld
<1>3. ConnectionReportedOnce /\ StreamInOrder
  BY <1>1 DEF ConnectionReportedOnce, StreamInOrder, FdsRight, FdRight
<1>4. CompletionsTell
  BY <1>1 DEF CompletionsTell
<1>5. ~Free => /\ "read" \notin hist[fds[waiting.slot]].ready
              /\ ~hist[fds[waiting.slot]].nonblock
  <2> HAVE ~Free
  <2>1. WaitRight(waiting, conn[fds[waiting.slot]], hist[fds[waiting.slot]])
    BY <1>1 DEF Free, WaiterRight
  <2>2. fds[waiting.slot] \in Fd /\ conn[fds[waiting.slot]].block
    BY <1>1, <2>1 DEF WaitRight
  <2>3. QED
    BY <1>1, <2>1, <2>2 DEF WaitRight, FdsRight, FdRight
<1>6. SelectTells
  BY <1>1, <1>5 DEF SelectTells, FdsRight, FdRight
<1>7. WaitsOnlyIfBlocking
  BY <1>5 DEF WaitsOnlyIfBlocking
<1>8. QED
  BY <1>2, <1>3, <1>4, <1>6, <1>7 DEF SocketsConsistent

\* Whatever the guest closes and makes anew: the host's open descriptors are those of
\* the table, one slot each; a connection is reported once, unless an earlier socket
\* had used up the report of the slot; a completion carries the key of its socket,
\* unless the slot had an association or the table was full, and the count of its
\* call; streams arrive in order over any buffers; select and the blocking mode mean
\* what they say (wg_winsock.c:103-1101).
THEOREM SocketsStayConsistent == SocketsSpec => []SocketsConsistent
<1>1. SocketsInit => SocketsInv
  BY SocketsStart
<1>2. SocketsInv /\ [SocketsNext]_socketVars => SocketsInv'
  <2> SUFFICES ASSUME SocketsInv, [SocketsNext]_socketVars PROVE SocketsInv'
    OBVIOUS
  <2>1. CASE NewSocket
    BY <2>1, NewSocketStep
  <2>2. CASE CloseSocket
    BY <2>2, CloseSocketStep
  <2>3. CASE Shutdown
    BY <2>3, ShutdownStep
  <2>4. CASE Connect
    BY <2>4, ConnectSocketStep
  <2>5. CASE ConnectEx
    BY <2>5, ConnectExStep
  <2>6. CASE SetMode
    BY <2>6, SetModeStep
  <2>7. CASE Recv
    BY <2>7, RecvStep
  <2>8. CASE RecvReturns
    BY <2>8, RecvReturnsStep
  <2>9. CASE SendOverlapped
    BY <2>9, SendOverlappedStep
  <2>10. CASE Associate
    BY <2>10, AssociateStep
  <2>11. CASE EnumEvents
    BY <2>11, EnumEventsStep
  <2>12. CASE Select
    BY <2>12, SelectStep
  <2>13. CASE ConnectEnds
    BY <2>13, ConnectEndsStep
  <2>14. CASE PeerSends
    BY <2>14, PeerSendsStep
  <2>15. CASE PeerCloses
    BY <2>15, PeerClosesStep
  <2>16. CASE UNCHANGED socketVars
    <3>1. UNCHANGED <<fds, reported, bindings, conn, waiting, hist>> /\ right' = TRUE
      BY <2>16 DEF socketVars, SocketsInv
    <3>2. QED
      BY <3>1, SameSockets
  <2>17. QED
    BY <2>1, <2>2, <2>3, <2>4, <2>5, <2>6, <2>7, <2>8, <2>9, <2>10, <2>11, <2>12, <2>13,
       <2>14, <2>15, <2>16 DEF SocketsNext
<1>3. SocketsInv => SocketsConsistent
  BY SocketsMean
<1>4. QED
  BY <1>1, <1>2, <1>3, PTL DEF SocketsSpec

-----------------------------------------------------------------------------
-----------------------------------------------------------------------------
(* Files.                                                                     *)

FileCells == {"o", "n", "0"}
Contents  == Seq(FileCells) \cup {Absent}
OpenModes == {"rb", "rb+", "wb", "wb+", "ab+"}
Streams   == [used : {TRUE}, handle : Nat, path : Path, mode : OpenModes, append : BOOLEAN,
              pos : Nat, kept : Seq(FileCells), last : {"moved", "read", "write"},
              inj : Seq(FileCells \cup {"i"}), injPos : Nat]

FilesShape ==
    /\ disk \in [Path -> Contents] /\ win \in [Path -> Contents]
    /\ files \in [FileSlot -> Streams \cup {Unused}]
    /\ handles \in 0 .. MaxOpens /\ Len(maps) <= MaxFilemap /\ maps \in Seq(Nat)
    /\ winPos \in [FileSlot -> Nat] /\ spoilt \subseteq Path

\* A stream is on a file that is there, and keeps nothing that could not be written.
FileSane(f, there, is) ==
    /\ there # Absent /\ is # Absent
    /\ f.injPos <= Len(f.inj)
    /\ f.append <=> f.mode = "ab+"
    /\ f.mode = "rb" \/ f.last = "read" => f.kept = <<>>
    /\ Len(f.kept) <= f.pos

\* Its position is behind what it keeps, and with that the file is what it should be.
FileRight(f, there, is) ==
    /\ f.append => f.pos = Len(there) + Len(f.kept)
    /\ Overlay(there, f.pos - Len(f.kept), f.kept) = is
    /\ f.inj = IF f.path \in Config THEN is \o Addition ELSE <<>>

FilesRight == \A i \in InUse :
    LET p == files[i].path
    IN  /\ FileSane(files[i], disk[p], win[p])
        /\ p \notin spoilt => FileRight(files[i], disk[p], win[p])

HandlesGiven == \A i \in InUse : files[i].handle < handles

\* A file that is written has no other stream, and is no configuration file.
WritersAlone == \A i \in InUse : files[i].path \notin spoilt /\ files[i].mode # "rb" =>
    files[i].path \notin Config /\ \A j \in InUse : files[j].path = files[i].path => j = i

\* A stream is where Windows would be, unless it was moved by a mapping.
InPlace == \A i \in InUse :
    /\ files[i].path \notin spoilt
    /\ files[i].inj = <<>> /\ (maps = <<>> \/ files[i].mode # "rb")
    => files[i].pos = winPos[i]

ClosedFlushed == \A p \in Path :
    /\ disk[p] = Absent <=> win[p] = Absent
    /\ p \notin spoilt /\ OpenOn(p) = {} => disk[p] = win[p]

FilesInv ==
    /\ FilesShape /\ FilesRight /\ HandlesGiven /\ WritersAlone /\ InPlace /\ ClosedFlushed /\ ViewsShowFile

LEMMA FileNumbers ==
    /\ MaxFiles \in Nat /\ MaxOpens \in Nat /\ MaxLen \in Nat /\ MaxFilemap \in Nat
    /\ FileSlot \subseteq Nat /\ Config \subseteq Path
BY FilesAssumption DEF FilesAssumption, FileSlot

LEMMA GreaterOf ==
    ASSUME NEW a \in Int, NEW b \in Int
    PROVE  Max({a, b}) = IF a >= b THEN a ELSE b
BY DEF Max

LEMMA StreamFields ==
    ASSUME NEW f \in Streams
    PROVE  /\ f.used = TRUE /\ f.handle \in Nat /\ f.path \in Path /\ f.mode \in OpenModes
           /\ f.append \in BOOLEAN /\ f.pos \in Nat /\ f.kept \in Seq(FileCells)
           /\ f.last \in {"moved", "read", "write"} /\ f.inj \in Seq(FileCells \cup {"i"})
           /\ f.injPos \in Nat
BY DEF Streams

LEMMA UsedStream ==
    ASSUME FilesShape, NEW i \in InUse
    PROVE  i \in FileSlot /\ files[i] \in Streams /\ files[i].path \in Path
<1>1. i \in FileSlot /\ files[i].used
  BY DEF InUse, Used
<1>2. files[i] # Unused
  BY <1>1 DEF Unused
<1>3. files[i] \in Streams
  BY <1>1, <1>2 DEF FilesShape
<1>4. QED
  BY <1>1, <1>3, StreamFields

\* Contents are cells or nothing at all.
LEMMA PresentCells ==
    ASSUME NEW s \in Contents, s # Absent
    PROVE  s \in Seq(FileCells) /\ Len(s) \in Nat
BY LenProperties DEF Contents

LEMMA AbsentApart ==
    Absent \notin Seq(FileCells)
<1> SUFFICES ASSUME Absent \in Seq(FileCells) PROVE FALSE
  OBVIOUS
<1>1. Absent[1] = "absent" /\ Len(Absent) = 1
  BY DEF Absent
<1>2. Absent[1] \in FileCells
  BY <1>1, ElementOfSeq
<1>3. QED
  BY <1>1, <1>2 DEF FileCells

-----------------------------------------------------------------------------
\* Writing over a file.
LEMMA OverlayIs ==
    ASSUME NEW s \in Seq(FileCells), NEW p \in Nat, NEW d \in Seq(FileCells)
    PROVE  /\ Overlay(s, p, d) \in Seq(FileCells)
           /\ Len(Overlay(s, p, d))
                = IF d = <<>> \/ p + Len(d) <= Len(s) THEN Len(s) ELSE p + Len(d)
           /\ d # <<>> => \A k \in 1 .. Len(Overlay(s, p, d)) :
                Overlay(s, p, d)[k] = IF k > p /\ k <= p + Len(d) THEN d[k - p]
                                      ELSE IF k <= Len(s) THEN s[k] ELSE "0"
<1>1. Len(s) \in Nat /\ Len(d) \in Nat
  BY LenProperties
<1>2. CASE d = <<>>
  BY <1>2 DEF Overlay
<1>3. CASE d # <<>>
  <2> DEFINE n == Max({Len(s), p + Len(d)})
             At(k) == IF k > p /\ k <= p + Len(d) THEN d[k - p]
                      ELSE IF k <= Len(s) THEN s[k] ELSE "0"
             o == [k \in 1 .. n |-> At(k)]
  <2>1. n = (IF p + Len(d) <= Len(s) THEN Len(s) ELSE p + Len(d)) /\ n \in Nat
    <3> DEFINE a == Len(s)
               b == p + Len(d)
    <3>1. a \in Int /\ b \in Int /\ a \in Nat /\ b \in Nat
      BY <1>1
    <3> HIDE DEF a, b
    <3>2. Max({a, b}) = IF a >= b THEN a ELSE b
      BY <3>1, GreaterOf
    <3>3. QED
      BY <3>1, <3>2 DEF a, b
  <2>2. \A k \in 1 .. n : At(k) \in FileCells
    <3> TAKE k \in 1 .. n
    <3>1. CASE k > p /\ k <= p + Len(d)
      <4>1. k - p \in 1 .. Len(d)
        BY <1>1, <2>1, <3>1
      <4>2. QED
        BY <3>1, <4>1, ElementOfSeq
    <3>2. CASE ~(k > p /\ k <= p + Len(d)) /\ k <= Len(s)
      <4>1. k \in 1 .. Len(s)
        BY <1>1, <2>1, <3>2
      <4>2. QED
        BY <3>2, <4>1, ElementOfSeq
    <3>3. CASE ~(k > p /\ k <= p + Len(d)) /\ ~(k <= Len(s))
      BY <3>3 DEF FileCells
    <3>4. QED
      BY <3>1, <3>2, <3>3
  <2>3. Overlay(s, p, d) = o
    BY <1>3 DEF Overlay
  <2> HIDE DEF n, At
  <2>4. o \in Seq(FileCells) /\ Len(o) = n /\ \A k \in 1 .. n : o[k] = At(k)
    BY <2>1, <2>2
  <2> HIDE DEF o
  <2>5. QED
    BY <1>3, <2>1, <2>3, <2>4 DEF At
<1>4. QED
  BY <1>2, <1>3

\* Writing one cell more behind what is kept is writing it over the result.
LEMMA OverlayMore ==
    ASSUME NEW s \in Seq(FileCells), NEW p \in Nat, NEW d \in Seq(FileCells), NEW e \in FileCells
    PROVE  Overlay(s, p, Append(d, e)) = Overlay(Overlay(s, p, d), p + Len(d), <<e>>)
<1> DEFINE m == Append(d, e)
           o == Overlay(s, p, d)
           l == <<e>>
           q == p + Len(d)
           a == Overlay(s, p, m)
           b == Overlay(o, q, l)
<1>1. Len(s) \in Nat /\ Len(d) \in Nat /\ q \in Nat
  BY LenProperties
<1>2. /\ m \in Seq(FileCells) /\ Len(m) = Len(d) + 1 /\ m[Len(d) + 1] = e
      /\ \A k \in 1 .. Len(d) : m[k] = d[k]
  BY AppendProperties
<1>3. l \in Seq(FileCells) /\ Len(l) = 1 /\ l[1] = e /\ l # <<>>
  OBVIOUS
<1>4. m # <<>>
  <2>1. Len(m) # 0
    BY <1>1, <1>2
  <2> HIDE DEF m
  <2>2. QED
    BY <2>1
<1> HIDE DEF m, l, q
<1>5. o \in Seq(FileCells) /\ Len(o) \in Nat
      /\ Len(o) = IF d = <<>> \/ p + Len(d) <= Len(s) THEN Len(s) ELSE p + Len(d)
  BY OverlayIs, LenProperties
<1>6. /\ a \in Seq(FileCells) /\ Len(a) = (IF p + Len(m) <= Len(s) THEN Len(s) ELSE p + Len(m))
      /\ \A k \in 1 .. Len(a) : a[k] = IF k > p /\ k <= p + Len(m) THEN m[k - p]
                                       ELSE IF k <= Len(s) THEN s[k] ELSE "0"
  BY <1>2, <1>4, OverlayIs
<1>7. d # <<>> => \A k \in 1 .. Len(o) : o[k] = IF k > p /\ k <= p + Len(d) THEN d[k - p]
                                                ELSE IF k <= Len(s) THEN s[k] ELSE "0"
  BY OverlayIs
<1> HIDE DEF o
<1>8. /\ b \in Seq(FileCells) /\ Len(b) = (IF q + Len(l) <= Len(o) THEN Len(o) ELSE q + Len(l))
      /\ \A k \in 1 .. Len(b) : b[k] = IF k > q /\ k <= q + Len(l) THEN l[k - q]
                                       ELSE IF k <= Len(o) THEN o[k] ELSE "0"
  <2>1. o \in Seq(FileCells) /\ q \in Nat /\ l \in Seq(FileCells)
    BY <1>1, <1>3, <1>5
  <2>2. /\ Overlay(o, q, l) \in Seq(FileCells)
        /\ Len(Overlay(o, q, l)) = IF l = <<>> \/ q + Len(l) <= Len(o) THEN Len(o) ELSE q + Len(l)
        /\ l # <<>> => \A k \in 1 .. Len(Overlay(o, q, l)) :
             Overlay(o, q, l)[k] = IF k > q /\ k <= q + Len(l) THEN l[k - q]
                                   ELSE IF k <= Len(o) THEN o[k] ELSE "0"
    BY <2>1, OverlayIs
  <2> HIDE DEF b
  <2>3. b = Overlay(o, q, l)
    BY DEF b
  <2>4. QED
    BY <1>3, <2>2, <2>3
<1> HIDE DEF a, b
<1>9. d = <<>> => o = s /\ Len(d) = 0
  BY DEF o, Overlay
<1>10. Len(a) = Len(b) /\ Len(a) \in Nat
  BY <1>1, <1>2, <1>3, <1>5, <1>6, <1>8, <1>9 DEF q
<1>11. ASSUME NEW k \in 1 .. Len(a)
       PROVE  a[k] = b[k]
  <2>1. k \in Nat /\ k > 0 /\ k \in 1 .. Len(b)
    BY <1>10
  <2>2. CASE k = q + 1
    <3>1. k > p /\ k <= p + Len(m) /\ k - p = Len(d) + 1
      BY <1>1, <1>2, <2>2 DEF q
    <3>2. a[k] = e
      BY <1>2, <1>6, <3>1
    <3>3. k > q /\ k <= q + Len(l) /\ k - q = 1
      BY <1>1, <1>3, <2>2
    <3>4. b[k] = e
      BY <1>3, <1>8, <2>1, <3>3
    <3>5. QED
      BY <3>2, <3>4
  <2>3. CASE k # q + 1
    <3>1. ~(k > q /\ k <= q + Len(l))
      BY <1>1, <1>3, <2>1, <2>3
    <3>2. b[k] = IF k <= Len(o) THEN o[k] ELSE "0"
      BY <1>8, <2>1, <3>1
    <3>3. CASE k > p /\ k <= q
      <4>1. k - p \in 1 .. Len(d) /\ k <= p + Len(m) /\ k <= p + Len(d) /\ d # <<>>
        BY <1>1, <1>2, <2>1, <3>3 DEF q
      <4>2. a[k] = d[k - p]
        BY <1>2, <1>6, <3>3, <4>1
      <4>3. k \in 1 .. Len(o)
        BY <1>1, <1>5, <2>1, <4>1
      <4>4. o[k] = d[k - p]
        BY <1>7, <3>3, <4>1, <4>3
      <4>5. QED
        BY <3>2, <4>2, <4>3, <4>4
    <3>4. CASE ~(k > p /\ k <= q)
      <4>1. ~(k > p /\ k <= p + Len(m)) /\ ~(k > p /\ k <= p + Len(d))
        BY <1>1, <1>2, <2>1, <2>3, <3>4 DEF q
      <4>2. a[k] = IF k <= Len(s) THEN s[k] ELSE "0"
        BY <1>6, <4>1
      <4>3. CASE d = <<>>
        BY <1>9, <3>2, <4>2, <4>3
      <4>4. CASE d # <<>>
        <5>1. k \in 1 .. Len(o) => o[k] = IF k <= Len(s) THEN s[k] ELSE "0"
          BY <1>7, <4>1, <4>4
        <5>2. k \notin 1 .. Len(o) => ~(k <= Len(s))
          BY <1>1, <1>5, <2>1
        <5>3. k \in 1 .. Len(o) <=> k <= Len(o)
          BY <1>5, <2>1
        <5>4. QED
          BY <3>2, <4>2, <5>1, <5>2, <5>3
      <4>5. QED
        BY <4>3, <4>4
    <3>5. QED
      BY <3>3, <3>4
  <2>4. QED
    BY <2>2, <2>3
<1>12. a = b
  BY <1>6, <1>8, <1>10, <1>11, SeqEqual
<1>13. QED
  BY <1>12 DEF a, b, m, o, l, q

-----------------------------------------------------------------------------
\* How many cells a read gets.
LEMMA CellsGot ==
    ASSUME NEW T, NEW s \in Seq(T), NEW p \in Nat
    PROVE  /\ Len(Cells(s, p, 1)) \in 0 .. 1
           /\ p <= Len(s) => p + Len(Cells(s, p, 1)) <= Len(s)
           /\ p >= Len(s) => Len(Cells(s, p, 1)) = 0
<1> DEFINE n == Len(s)
           m == p + 1
           e == Min({m, n})
<1>1. n \in Nat /\ m \in Int /\ n \in Int
  BY LenProperties
<1>2. e = IF m <= n THEN m ELSE n
  <2> HIDE DEF m, n
  <2> QED
    BY <1>1, LesserOf
<1>3. e \in Int /\ \A k \in m .. e : k \in 1 .. Len(s)
  <2> HIDE DEF e
  <2> QED
    BY <1>1, <1>2
<1>4. Cells(s, p, 1) = SubSeq(s, m, e)
  BY DEF Cells
<1> HIDE DEF m, e
<1>5. \A k \in m .. e : s[k] \in T
  BY <1>3, ElementOfSeq
<1>6. Len(SubSeq(s, m, e)) = IF m <= e THEN e - m + 1 ELSE 0
  BY <1>1, <1>3, <1>5, SubSeqProperties
<1>7. Len(Cells(s, p, 1)) = IF m <= e THEN e - m + 1 ELSE 0
  BY <1>4, <1>6
<1>8. m <= n => e = m
  BY <1>2
<1>9. ~(m <= n) => e = n
  BY <1>2
<1> DEFINE l == Len(Cells(s, p, 1))
<1> HIDE DEF n, l
<1>10. l = IF m <= e THEN e - m + 1 ELSE 0
  BY <1>7 DEF l
<1>11. l = IF m <= n THEN 1 ELSE 0
  BY <1>1, <1>3, <1>8, <1>9, <1>10
<1>12. l \in 0 .. 1 /\ (p <= n => p + l <= n) /\ (p >= n => l = 0)
  BY <1>1, <1>11 DEF m
<1>13. QED
  BY <1>12 DEF n, l

\* What a stream keeps can be written.
LEMMA FlushedCells ==
    ASSUME FilesInv, NEW i \in InUse
    PROVE  LET f == files[i]
               p == files[i].path
           IN  /\ f \in Streams /\ p \in Path /\ FileSane(f, disk[p], win[p])
               /\ win[p] \in Seq(FileCells) /\ disk[p] \in Seq(FileCells)
               /\ Flushed(f) \in Seq(FileCells) /\ Flushed(f) # Absent
               /\ f.append => Len(f.kept) <= Len(Flushed(f))
<1> DEFINE f == files[i]
           p == files[i].path
           d == disk[p]
           w == win[p]
           c == f.kept
           q == IF f.append THEN Len(d) ELSE f.pos - Len(c)
<1>1. FilesShape /\ FilesRight
  BY DEF FilesInv
<1>2. f \in Streams /\ p \in Path /\ FileSane(f, d, w)
  BY <1>1, UsedStream DEF FilesRight
<1>3. d \in Seq(FileCells) /\ w \in Seq(FileCells)
  <2>1. d \in Contents /\ w \in Contents
    BY <1>1, <1>2 DEF FilesShape
  <2>2. d # Absent /\ w # Absent
    BY <1>2 DEF FileSane
  <2> HIDE DEF d, w
  <2>3. QED
    BY <2>1, <2>2, PresentCells
<1>4. c \in Seq(FileCells) /\ q \in Nat /\ Len(c) \in Nat /\ Len(d) \in Nat /\ (f.append => q = Len(d))
  <2>1. f.pos \in Nat /\ c \in Seq(FileCells) /\ Len(c) <= f.pos /\ Len(c) \in Nat /\ Len(d) \in Nat
    BY <1>2, <1>3, StreamFields, LenProperties DEF FileSane
  <2> HIDE DEF f, d, c
  <2>2. QED
    BY <2>1
<1>5. Flushed(f) = Overlay(d, q, c)
  BY DEF Flushed
<1> DEFINE o == Flushed(f)
<1>6. o \in Seq(FileCells) /\ (f.append => Len(c) <= Len(o))
  <2>1. o = Overlay(d, q, c)
    BY <1>5
  <2> HIDE DEF o, d, q, c, f
  <2>2. /\ o \in Seq(FileCells)
        /\ Len(o) = IF c = <<>> \/ q + Len(c) <= Len(d) THEN Len(d) ELSE q + Len(c)
    BY <1>3, <1>4, <2>1, OverlayIs
  <2>3. c = <<>> => Len(c) = 0
    OBVIOUS
  <2>4. f.append => Len(c) <= Len(o)
    BY <1>4, <2>2, <2>3
  <2>5. QED
    BY <2>2, <2>4
<1>7. QED
  BY <1>2, <1>3, <1>6, AbsentApart

\* The file with what a stream keeps is the file as it should be.
LEMMA FlushedIs ==
    ASSUME FilesInv, NEW i \in InUse, files[i].path \notin spoilt
    PROVE  LET f == files[i]
               p == files[i].path
           IN  /\ FileRight(f, disk[p], win[p]) /\ Flushed(f) = win[p]
               /\ f.mode = "rb" => disk[p] = win[p]
               /\ f.append => Len(win[p]) = f.pos
<1> DEFINE f == files[i]
           p == files[i].path
           d == disk[p]
           w == win[p]
           k == Len(f.kept)
<1>2. /\ f \in Streams /\ p \in Path /\ FileSane(f, d, w) /\ FileRight(f, d, w)
      /\ d \in Seq(FileCells) /\ w \in Seq(FileCells)
  BY FlushedCells DEF FilesInv, FilesRight
<1>3. d \in Seq(FileCells) /\ w \in Seq(FileCells)
  BY <1>2
<1>4. /\ f.pos \in Nat /\ f.kept \in Seq(FileCells) /\ k \in Nat /\ k <= f.pos /\ Len(d) \in Nat
      /\ f.append => f.pos = Len(d) + k
      /\ Overlay(d, f.pos - k, f.kept) = w
      /\ f.mode = "rb" => f.kept = <<>>
  BY <1>2, <1>3, StreamFields, LenProperties DEF FileRight, FileSane
<1>5. Flushed(f) = Overlay(d, IF f.append THEN Len(d) ELSE f.pos - k, f.kept)
  BY DEF Flushed
<1>6. (IF f.append THEN Len(d) ELSE f.pos - k) = f.pos - k
  <2> HIDE DEF d, f, k
  <2> QED
    BY <1>4
<1>7. Flushed(f) = w
  BY <1>4, <1>5, <1>6
<1>8. f.mode = "rb" => d = w
  BY <1>4 DEF Overlay
<1>9. f.append => Len(w) = f.pos
  <2> HAVE f.append
  <2> DEFINE q == f.pos - k
             c == f.kept
  <2>1. q \in Nat /\ q = Len(d) /\ c \in Seq(FileCells)
    <3> HIDE DEF d, f, k
    <3> QED
      BY <1>4
  <2>2. w = Overlay(d, q, c)
    BY <1>4
  <2>3. f.pos = q + k /\ k = Len(c)
    <3> HIDE DEF d, f
    <3> QED
      BY <1>4
  <2> HIDE DEF d, q, c, w
  <2>4. Len(w) = IF c = <<>> \/ q + Len(c) <= Len(d) THEN Len(d) ELSE q + Len(c)
    BY <1>3, <2>1, <2>2, OverlayIs
  <2>5. c = <<>> => Len(c) = 0
    OBVIOUS
  <2> HIDE DEF f, k
  <2>6. QED
    BY <1>4, <2>1, <2>3, <2>4, <2>5
<1>10. QED
  BY <1>2, <1>3, <1>7, <1>8, <1>9

\* A stream whose kept cells are written and that stands at pos.
LEMMA FlushedRight ==
    ASSUME NEW f \in Streams, NEW g \in Streams, NEW d, NEW w \in Seq(FileCells), FileRight(f, d, w),
           g.path = f.path, g.inj = f.inj, g.kept = <<>>, g.append => g.pos = Len(w)
    PROVE  FileRight(g, w, w)
<1>1. g.pos \in Nat /\ Len(w) \in Nat /\ Len(<<>>) = 0
  BY StreamFields, LenProperties
<1>2. Overlay(w, g.pos - Len(g.kept), g.kept) = w
  BY DEF Overlay
<1>3. g.append => g.pos = Len(w) + Len(g.kept)
  BY <1>1
<1>4. QED
  BY <1>1, <1>2, <1>3 DEF FileRight

\* A step through the stream in slot i, which may change its file and make it spoilt.
LEMMA StreamStep ==
    ASSUME FilesInv, NEW i \in InUse, NEW f \in Streams, NEW s \in Contents, NEW t \in Contents,
           NEW w \in Nat,
           f.path = files[i].path, f.mode = files[i].mode, f.handle = files[i].handle,
           files' = [files EXCEPT ![i] = f], disk' = [disk EXCEPT ![f.path] = s],
           win' = [win EXCEPT ![f.path] = t], winPos' = [winPos EXCEPT ![i] = w],
           FileSane(f, s, t), spoilt' = spoilt \/ spoilt' = spoilt \cup {f.path},
           f.path \notin spoilt' =>
               /\ FileRight(f, s, t)
               /\ f.mode = "rb" => s = disk[f.path] /\ t = win[f.path]
               /\ (f.inj = <<>> /\ (maps = <<>> \/ f.mode # "rb")) => f.pos = w,
           UNCHANGED <<handles, maps>>, ViewsShowFile'
    PROVE  FilesInv'
<1> DEFINE p == f.path
<1>1. /\ FilesShape /\ FilesRight /\ HandlesGiven /\ WritersAlone /\ InPlace /\ ClosedFlushed
      /\ i \in FileSlot /\ p \in Path /\ files[i] \in Streams
  BY UsedStream DEF FilesInv
<1>s. /\ spoilt \subseteq spoilt' /\ spoilt' \subseteq Path
      /\ \A q \in Path : q # p => (q \in spoilt' <=> q \in spoilt)
  BY <1>1 DEF FilesShape
<1>2. /\ files' \in [FileSlot -> Streams \cup {Unused}] /\ files'[i] = f
      /\ \A j \in FileSlot : j # i => files'[j] = files[j]
      /\ winPos' \in [FileSlot -> Nat] /\ winPos'[i] = w
      /\ \A j \in FileSlot : j # i => winPos'[j] = winPos[j]
  BY <1>1 DEF FilesShape
<1>3. /\ disk' \in [Path -> Contents] /\ disk'[p] = s /\ \A q \in Path : q # p => disk'[q] = disk[q]
      /\ win' \in [Path -> Contents] /\ win'[p] = t /\ \A q \in Path : q # p => win'[q] = win[q]
  BY <1>1 DEF FilesShape
<1>4. InUse' = InUse
  <2>1. f.used = TRUE
    BY StreamFields
  <2>2. files[i].used
    BY DEF InUse, Used
  <2>3. QED
    BY <1>1, <1>2, <2>1, <2>2 DEF InUse, Used
<1>5. /\ \A j \in InUse : j \in FileSlot /\ files[j].path \in Path
      /\ \A j \in InUse : files'[j].path = files[j].path /\ files'[j].mode = files[j].mode
                          /\ files'[j].handle = files[j].handle
  <2>1. \A j \in InUse : j \in FileSlot /\ files[j].path \in Path
    BY <1>1, UsedStream
  <2>2. QED
    BY <1>2, <2>1
<1>6. FilesShape'
  BY <1>1, <1>2, <1>3, <1>s DEF FilesShape
<1>7. FilesRight'
  <2>1. ASSUME NEW j \in InUse
        PROVE  /\ FileSane(files'[j], disk'[files'[j].path], win'[files'[j].path])
               /\ files'[j].path \notin spoilt' =>
                      FileRight(files'[j], disk'[files'[j].path], win'[files'[j].path])
    <3>1. CASE j = i
      BY <1>2, <1>3, <3>1
    <3>2. CASE j # i
      <4> DEFINE q == files[j].path
      <4>1. /\ files'[j] = files[j] /\ q \in Path /\ FileSane(files[j], disk[q], win[q])
            /\ q \notin spoilt => FileRight(files[j], disk[q], win[q])
        BY <1>1, <1>2, <1>5, <3>2 DEF FilesRight
      <4>2. CASE q # p
        <5>1. disk'[q] = disk[q] /\ win'[q] = win[q] /\ (q \in spoilt' <=> q \in spoilt)
          BY <1>3, <1>s, <4>1, <4>2
        <5>2. QED
          BY <4>1, <5>1
      <4>3. CASE q = p
        <5>1. FileSane(files[j], s, t)
          BY <4>1 DEF FileSane
        <5>2. q \notin spoilt' => FileRight(files[j], s, t)
          <6> HAVE q \notin spoilt'
          <6>1. f.mode = "rb"
            BY <1>1, <1>s, <3>2, <4>3 DEF WritersAlone
          <6>2. s = disk[q] /\ t = win[q]
            BY <4>3, <6>1
          <6>3. QED
            BY <1>s, <4>1, <6>2
        <5>3. QED
          BY <1>3, <4>1, <4>3, <5>1, <5>2
      <4>4. QED
        BY <4>2, <4>3
    <3>3. QED
      BY <3>1, <3>2
  <2>2. QED
    BY <1>4, <2>1 DEF FilesRight
<1>8. HandlesGiven' /\ WritersAlone'
  BY <1>1, <1>4, <1>5, <1>s DEF HandlesGiven, WritersAlone
<1>9. InPlace'
  <2>1. ASSUME NEW j \in InUse, files'[j].inj = <<>>, maps = <<>> \/ files'[j].mode # "rb",
               files'[j].path \notin spoilt'
        PROVE  files'[j].pos = winPos'[j]
    <3>1. CASE j = i
      BY <1>2, <2>1, <3>1
    <3>2. CASE j # i
      BY <1>1, <1>2, <1>5, <1>s, <2>1, <3>2 DEF InPlace
    <3>3. QED
      BY <3>1, <3>2
  <2>2. QED
    BY <1>4, <2>1 DEF InPlace
<1>10. ClosedFlushed'
  <2>1. ASSUME NEW q \in Path
        PROVE  /\ disk'[q] = Absent <=> win'[q] = Absent
               /\ q \notin spoilt' /\ OpenOn(q)' = {} => disk'[q] = win'[q]
    <3>1. OpenOn(q)' = OpenOn(q) /\ OpenOn(p) # {}
      BY <1>4, <1>5 DEF OpenOn
    <3>2. CASE q = p
      BY <1>3, <3>1, <3>2 DEF FileSane
    <3>3. CASE q # p
      BY <1>1, <1>3, <1>s, <3>1, <3>3 DEF ClosedFlushed
    <3>4. QED
      BY <3>2, <3>3
  <2>2. QED
    BY <2>1 DEF ClosedFlushed
<1>11. QED
  BY <1>6, <1>7, <1>8, <1>9, <1>10 DEF FilesInv

-----------------------------------------------------------------------------
\* g is stream f moved to pos, and perhaps read up to there.
MovedTo(g, f, pos) == g = Moved(f, pos) \/ g = [Moved(f, pos) EXCEPT !.last = "read"]

\* A stream that was moved, read or not, with what it kept written.
LEMMA MovedRight ==
    ASSUME FilesInv, NEW i \in InUse, NEW pos \in Nat, NEW g,
           MovedTo(g, files[i], pos)
    PROVE  LET w == win[files[i].path]
           IN  /\ g \in Streams /\ g.path = files[i].path /\ g.mode = files[i].mode
               /\ g.handle = files[i].handle /\ g.inj = files[i].inj /\ g.pos = pos
               /\ \A s : s # Absent => FileSane(g, s, w)
               /\ files[i].path \notin spoilt /\ (files[i].append => pos = files[i].pos) => FileRight(g, w, w)
<1> DEFINE f == files[i]
<1>1. /\ f \in Streams /\ f.path \in Path /\ FileSane(f, disk[f.path], win[f.path])
      /\ win[f.path] \in Seq(FileCells) /\ f.pos \in Nat
  BY FlushedCells, StreamFields
<1>2. <<>> \in Seq(FileCells)
  OBVIOUS
<1>3. /\ g \in Streams /\ g.path = f.path /\ g.mode = f.mode /\ g.handle = f.handle /\ g.inj = f.inj
      /\ g.pos = pos /\ g.kept = <<>> /\ g.append = f.append /\ g.injPos = f.injPos
  <2> DEFINE c == <<>>
             h == [f EXCEPT !.kept = c, !.pos = pos, !.last = "moved"]
  <2>0. c \in Seq(FileCells)
    BY <1>2
  <2> HIDE DEF f, c
  <2>1. /\ h \in Streams /\ h.path = f.path /\ h.mode = f.mode /\ h.handle = f.handle /\ h.inj = f.inj
        /\ h.pos = pos /\ h.kept = c /\ h.append = f.append /\ h.injPos = f.injPos
    BY <1>1, <2>0 DEF Streams
  <2>2. g = h \/ g = [h EXCEPT !.last = "read"]
    BY DEF MovedTo, Moved, f, c
  <2> HIDE DEF h
  <2>3. QED
    BY <2>1, <2>2 DEF Streams, c
<1> DEFINE w == win[f.path]
           d == disk[f.path]
<1>4. ASSUME NEW s, s # Absent
      PROVE  FileSane(g, s, w)
  <2>1. Len(g.kept) = 0 /\ g.pos >= 0
    BY <1>3
  <2>2. QED
    BY <1>1, <1>3, <1>4, <2>1 DEF FileSane
<1>5. ASSUME f.path \notin spoilt, f.append => pos = f.pos
      PROVE  FileRight(g, w, w)
  <2>1. FileRight(f, d, w) /\ (f.append => Len(w) = f.pos)
    BY <1>5, FlushedIs
  <2>2. g.append => g.pos = Len(w)
    BY <1>3, <1>5, <2>1
  <2>3. w \in Seq(FileCells) /\ f \in Streams
    BY <1>1
  <2> HIDE DEF f, w, d
  <2>4. QED
    BY <1>3, <2>1, <2>2, <2>3, FlushedRight
<1>6. QED
  BY <1>3, <1>4, <1>5

PlaceSet(i, n) ==
    /\ files' = [files EXCEPT ![i].injPos = n]
    /\ UNCHANGED <<disk, win, winPos, handles, maps>>

\* What changes only the place in what an injected file shows.
LEMMA InjectedMoved ==
    ASSUME FilesInv, NEW i \in InUse, NEW n \in Nat, n <= Len(files[i].inj), Injected(i),
           PlaceSet(i, n), ViewsShowFile',
           spoilt' = spoilt \/ spoilt' = spoilt \cup {files[i].path}
    PROVE  FilesInv'
<1> DEFINE f == files[i]
           g == [f EXCEPT !.injPos = n]
           p == f.path
           d == disk[p]
           w == win[p]
<1>1. /\ f \in Streams /\ p \in Path /\ FileSane(f, d, w) /\ (p \notin spoilt => FileRight(f, d, w))
      /\ w \in Seq(FileCells) /\ d \in Seq(FileCells) /\ i \in FileSlot /\ FilesShape
  BY FlushedCells, UsedStream DEF FilesInv, FilesRight
<1>2. files' = [files EXCEPT ![i] = g]
  BY <1>1 DEF FilesShape, PlaceSet
<1>3. d \in Contents /\ w \in Contents
  BY <1>1 DEF Contents
<1>4. disk' = [disk EXCEPT ![p] = d] /\ win' = [win EXCEPT ![p] = w]
      /\ winPos' = [winPos EXCEPT ![i] = winPos[i]] /\ winPos[i] \in Nat
  BY <1>1 DEF FilesShape, PlaceSet
<1>5. f.inj # <<>>
  BY DEF Injected
<1> HIDE DEF f, d, w
<1>6. /\ g \in Streams /\ g.path = p /\ g.mode = f.mode /\ g.handle = f.handle /\ g.inj = f.inj
      /\ g.append = f.append /\ g.pos = f.pos /\ g.kept = f.kept /\ g.injPos = n
      /\ g.last = f.last
  BY <1>1 DEF Streams
<1>7. n <= Len(g.inj)
  BY <1>6 DEF f
<1> HIDE DEF g
<1>8. FileSane(g, d, w) /\ (p \notin spoilt => FileRight(g, d, w))
  BY <1>1, <1>6, <1>7 DEF FileRight, FileSane
<1> HIDE DEF p
<1>9. /\ g.path = files[i].path /\ g.mode = files[i].mode /\ g.handle = files[i].handle
      /\ d = disk[g.path] /\ w = win[g.path]
      /\ disk' = [disk EXCEPT ![g.path] = d] /\ win' = [win EXCEPT ![g.path] = w]
      /\ spoilt' = spoilt \/ spoilt' = spoilt \cup {g.path}
      /\ (g.path \notin spoilt' => FileRight(g, d, w))
  BY <1>4, <1>6, <1>8 DEF f, d, w, p
<1>10. g.inj # <<>>
  BY <1>5, <1>6
<1> DEFINE to == winPos[i]
<1>11. to \in Nat /\ winPos' = [winPos EXCEPT ![i] = to] /\ UNCHANGED <<handles, maps>>
  BY <1>4 DEF PlaceSet
<1>12. (g.inj = <<>> /\ (maps = <<>> \/ g.mode # "rb")) => g.pos = to
  BY <1>10
<1>13. g.mode = "rb" => d = disk[g.path] /\ w = win[g.path]
  BY <1>9
<1> HIDE DEF to
<1>14. /\ g \in Streams /\ d \in Contents /\ w \in Contents /\ to \in Nat
       /\ g.path = files[i].path /\ g.mode = files[i].mode /\ g.handle = files[i].handle
  BY <1>3, <1>6, <1>9, <1>11
<1>15. /\ files' = [files EXCEPT ![i] = g] /\ disk' = [disk EXCEPT ![g.path] = d]
       /\ win' = [win EXCEPT ![g.path] = w] /\ winPos' = [winPos EXCEPT ![i] = to]
  BY <1>2, <1>9, <1>11
<1>16. QED
  BY <1>8, <1>9, <1>11, <1>12, <1>13, <1>14, <1>15, StreamStep

\* What writes what a stream keeps and moves the stream, and Windows' position
\* with it.
LEMMA FlushedStep ==
    ASSUME FilesInv, NEW i \in InUse, NEW pos \in Nat, NEW g, NEW to \in Nat,
           MovedTo(g, files[i], pos),
           files[i].path \notin spoilt' =>
               /\ files[i].append => pos = files[i].pos
               /\ files[i].inj = <<>> /\ (maps = <<>> \/ files[i].mode # "rb") => pos = to,
           spoilt' = spoilt \/ spoilt' = spoilt \cup {files[i].path},
           disk' = [disk EXCEPT ![files[i].path] = Flushed(files[i])],
           files' = [files EXCEPT ![i] = g], winPos' = [winPos EXCEPT ![i] = to],
           UNCHANGED <<win, handles, maps>>, ViewsShowFile'
    PROVE  FilesInv'
<1> DEFINE f == files[i]
           w == win[f.path]
           s == Flushed(f)
<1>1. /\ f \in Streams /\ f.path \in Path /\ s \in Seq(FileCells) /\ w \in Seq(FileCells) /\ s # Absent
      /\ (f.path \notin spoilt => s = w /\ (f.mode = "rb" => disk[f.path] = w)) /\ FilesShape
      /\ (f.path \notin spoilt' => f.path \notin spoilt)
  BY FlushedCells, FlushedIs DEF FilesInv
<1>m. /\ g \in Streams /\ g.path = f.path /\ g.mode = f.mode
      /\ g.handle = f.handle /\ g.inj = f.inj /\ g.pos = pos /\ \A x : x # Absent => FileSane(g, x, w)
      /\ f.path \notin spoilt /\ (f.append => pos = f.pos) => FileRight(g, w, w)
  <2>1. g \in Streams
    BY MovedRight
  <2>2. g.path = f.path /\ g.mode = f.mode
    BY MovedRight
  <2>3. g.handle = f.handle /\ g.inj = f.inj /\ g.pos = pos
    BY MovedRight
  <2>4. \A x : x # Absent => FileSane(g, x, w)
    BY MovedRight
  <2>5. f.path \notin spoilt /\ (f.append => pos = f.pos) => FileRight(g, w, w)
    BY MovedRight
  <2>6. QED
    BY <2>1, <2>2, <2>3, <2>4, <2>5
<1>a. f.path \notin spoilt' => (f.append => pos = f.pos)
  OBVIOUS
<1>2. /\ g \in Streams /\ g.path = f.path /\ g.mode = f.mode
      /\ g.handle = f.handle /\ g.inj = f.inj /\ g.pos = pos /\ FileSane(g, s, w)
      /\ f.path \notin spoilt' => FileRight(g, w, w)
  <2> HIDE DEF f, s, w
  <2> QED
    BY <1>1, <1>m, <1>a
<1>3. disk' = [disk EXCEPT ![g.path] = s] /\ win' = [win EXCEPT ![g.path] = w] /\ s \in Contents /\ w \in Contents
  BY <1>1, <1>2 DEF FilesShape, Contents
<1>4. g.path \notin spoilt' =>
        /\ FileRight(g, s, w)
        /\ g.mode = "rb" => s = disk[g.path] /\ w = win[g.path]
        /\ (g.inj = <<>> /\ (maps = <<>> \/ g.mode # "rb")) => g.pos = to
  BY <1>1, <1>2
<1>5. /\ g.path = files[i].path /\ g.mode = files[i].mode /\ g.handle = files[i].handle
      /\ spoilt' = spoilt \/ spoilt' = spoilt \cup {g.path}
  BY <1>2
<1> HIDE DEF f, w, s
<1>6. QED
  BY <1>2, <1>3, <1>4, <1>5, StreamStep

-----------------------------------------------------------------------------
(* The operations.                                                            *)

LEMMA FilesReadStep ==
    ASSUME FilesInv, ReadFile
    PROVE  FilesInv'
<1>1. PICK i \in InUse :
        /\ \/ /\ ReadFrom(i, IF Injected(i) THEN files[i].injPos ELSE files[i].pos)
              /\ UNCHANGED spoilt
           \/ \E from \in 0 .. MaxLen + 1 :
                 /\ ReadFrom(i, IF Injected(i) THEN Clamp(i, from) ELSE from)
                 /\ Spoil(files[i].path, Appends(i))
        /\ UNCHANGED <<handles, maps, win, view>>
  BY DEF ReadFile
<1>2. ViewsShowFile'
  BY <1>1 DEF FilesInv, ViewsShowFile
<1> DEFINE f == files[i]
           p == f.path
<1>3. /\ f \in Streams /\ p \in Path /\ FileSane(f, disk[p], win[p])
      /\ Flushed(f) \in Seq(FileCells)
      /\ (p \notin spoilt => Flushed(f) = win[p] /\ (f.append => Len(win[p]) = f.pos))
      /\ i \in FileSlot /\ FilesShape
  BY FlushedCells, FlushedIs, UsedStream DEF FilesInv
<1>4. PICK from : /\ ReadFrom(i, from) /\ from \in Nat
                  /\ Injected(i) => from <= Len(f.inj)
                  /\ ~Injected(i) /\ p \notin spoilt' => (f.append => from = f.pos)
                  /\ spoilt' = spoilt \/ spoilt' = spoilt \cup {p}
  <2>1. f.pos \in Nat /\ f.injPos \in Nat /\ f.injPos <= Len(f.inj) /\ Len(f.inj) \in Nat
    BY <1>3, StreamFields, LenProperties DEF FileSane
  <2>2. CASE ReadFrom(i, IF Injected(i) THEN f.injPos ELSE f.pos) /\ UNCHANGED spoilt
    BY <2>1, <2>2
  <2>3. CASE \E from \in 0 .. MaxLen + 1 :
                 /\ ReadFrom(i, IF Injected(i) THEN Clamp(i, from) ELSE from)
                 /\ Spoil(p, Appends(i))
    <3>1. PICK from \in 0 .. MaxLen + 1 :
            /\ ReadFrom(i, IF Injected(i) THEN Clamp(i, from) ELSE from)
            /\ Spoil(p, Appends(i))
      BY <2>3
    <3>2. from \in Nat
      BY FileNumbers
    <3>3. Clamp(i, from) \in Nat /\ Clamp(i, from) <= Len(f.inj)
      <4> DEFINE l == Len(f.inj)
      <4>1. l \in Nat /\ Clamp(i, from) = Min({from, l})
        BY <2>1 DEF Clamp
      <4> HIDE DEF l
      <4>2. Min({from, l}) = IF from <= l THEN from ELSE l
        BY <3>2, <4>1, LesserOf
      <4>3. QED
        BY <3>2, <4>1, <4>2 DEF l
    <3>4. (spoilt' = spoilt \/ spoilt' = spoilt \cup {p})
          /\ (~Injected(i) /\ p \notin spoilt' => ~f.append)
      BY <3>1 DEF Spoil, Appends
    <3>5. QED
      BY <3>1, <3>2, <3>3, <3>4
  <2>4. QED
    BY <1>1, <2>2, <2>3
<1>5. CASE Injected(i)
  <2> DEFINE l == Len(Cells(f.inj, from, 1))
             n == from + l
  <2>1. files' = [files EXCEPT ![i].injPos = n] /\ UNCHANGED <<disk, winPos>>
    BY <1>4, <1>5 DEF ReadFrom
  <2>2. l \in 0 .. 1 /\ from + l <= Len(f.inj)
    BY <1>3, <1>4, <1>5, StreamFields, CellsGot
  <2>3. n \in Nat /\ n <= Len(files[i].inj)
    <3> HIDE DEF l
    <3> QED
      BY <1>4, <2>2
  <2>4. PlaceSet(i, n)
    BY <1>1, <2>1 DEF PlaceSet
  <2> HIDE DEF n
  <2>5. QED
    BY <1>2, <1>4, <1>5, <2>3, <2>4, InjectedMoved
<1>6. CASE ~Injected(i)
  <2> DEFINE l == Len(Cells(Flushed(f), from, 1))
             n == from + l
             g == [Moved(f, n) EXCEPT !.last = "read"]
  <2>1. /\ disk' = [disk EXCEPT ![p] = Flushed(f)]
        /\ files' = [files EXCEPT ![i] = g]
        /\ winPos' = [winPos EXCEPT ![i] = n]
    BY <1>3, <1>4, <1>6 DEF ReadFrom, FilesShape
  <2>2. l \in 0 .. 1 /\ (from >= Len(Flushed(f)) => l = 0)
    BY <1>3, <1>4, CellsGot
  <2>3. n \in Nat /\ (p \notin spoilt' => (f.append => n = f.pos))
    <3>1. p \notin spoilt' /\ f.append => from = Len(Flushed(f)) /\ from = f.pos
      BY <1>3, <1>4, <1>6
    <3>2. p \notin spoilt' /\ f.append => l = 0
      BY <1>3, <1>4, <2>2, <3>1
    <3> HIDE DEF l, f
    <3> QED
      BY <1>4, <2>2, <3>1, <3>2
  <2>4. MovedTo(g, f, n)
    BY Zenon DEF MovedTo
  <2> HIDE DEF n, l, g
  <2>5. QED
    BY <1>1, <1>2, <1>4, <2>1, <2>3, <2>4, FlushedStep
<1>7. QED
  BY <1>5, <1>6

LEMMA FilesSeekStep ==
    ASSUME FilesInv, SetFilePointer
    PROVE  FilesInv'
<1>1. PICK i \in InUse, pos \in 0 .. MaxLen + 1 :
        /\ IF Injected(i)
             THEN /\ files' = [files EXCEPT ![i].injPos = Clamp(i, pos)]
                  /\ UNCHANGED <<disk, winPos>>
             ELSE Move(i, pos) /\ winPos' = [winPos EXCEPT ![i] = pos]
        /\ Spoil(files[i].path, Appends(i))
        /\ UNCHANGED <<handles, maps, win, view>>
  BY DEF SetFilePointer
<1>2. ViewsShowFile' /\ pos \in Nat
  BY <1>1, FileNumbers DEF FilesInv, ViewsShowFile
<1>s. /\ spoilt' = spoilt \/ spoilt' = spoilt \cup {files[i].path}
      /\ ~Injected(i) /\ files[i].path \notin spoilt' => ~files[i].append
  BY <1>1 DEF Spoil, Appends
<1>3. CASE Injected(i)
  <2> DEFINE n == Clamp(i, pos)
             l == Len(files[i].inj)
  <2>1. l \in Nat
    BY UsedStream, StreamFields, LenProperties DEF FilesInv
  <2>2. n = Min({pos, l})
    BY DEF Clamp
  <2>3. n \in Nat /\ n <= l
    <3> HIDE DEF l, n
    <3>1. Min({pos, l}) = IF pos <= l THEN pos ELSE l
      BY <1>2, <2>1, LesserOf
    <3>2. QED
      BY <1>2, <2>1, <2>2, <3>1
  <2>4. n <= Len(files[i].inj) /\ PlaceSet(i, n)
    BY <1>1, <1>3, <2>3 DEF PlaceSet
  <2> HIDE DEF n
  <2>5. QED
    BY <1>2, <1>s, <1>3, <2>3, <2>4, InjectedMoved
<1>4. CASE ~Injected(i)
  <2> DEFINE g == Moved(files[i], pos)
  <2>1. /\ disk' = [disk EXCEPT ![files[i].path] = Flushed(files[i])]
        /\ files' = [files EXCEPT ![i] = g] /\ winPos' = [winPos EXCEPT ![i] = pos]
    BY <1>1, <1>4 DEF Move
  <2>2. MovedTo(g, files[i], pos)
    BY DEF MovedTo
  <2> HIDE DEF g
  <2>3. QED
    BY <1>1, <1>2, <1>s, <1>4, <2>1, <2>2, FlushedStep
<1>5. QED
  BY <1>3, <1>4

LEMMA FilesSizeStep ==
    ASSUME FilesInv, GetFileSize
    PROVE  FilesInv'
<1>1. PICK i \in InUse : ~Injected(i) /\ Move(i, files[i].pos)
                         /\ UNCHANGED <<handles, maps, win, winPos, spoilt, view>>
  BY DEF GetFileSize
<1> DEFINE f == files[i]
           pos == f.pos
           to == winPos[i]
           g == Moved(f, pos)
<1>2. ViewsShowFile' /\ pos \in Nat /\ to \in Nat /\ i \in FileSlot /\ winPos \in [FileSlot -> Nat]
  BY <1>1, UsedStream, StreamFields DEF FilesInv, ViewsShowFile, FilesShape
<1>3. /\ disk' = [disk EXCEPT ![f.path] = Flushed(f)] /\ files' = [files EXCEPT ![i] = g]
      /\ winPos' = [winPos EXCEPT ![i] = to]
  BY <1>1, <1>2 DEF Move
<1>4. f.path \notin spoilt => (f.inj = <<>> /\ (maps = <<>> \/ f.mode # "rb") => pos = to)
  BY DEF FilesInv, InPlace
<1>5. f.append => pos = f.pos
  OBVIOUS
<1>6. MovedTo(g, files[i], pos)
  BY DEF MovedTo
<1> HIDE DEF pos, to, g
<1>7. QED
  BY <1>1, <1>2, <1>3, <1>4, <1>5, <1>6, FlushedStep

\* Where a write goes that the guest's handle places as Windows does: behind what
\* the stream keeps.
LEMMA FilesWriteRight ==
    ASSUME NEW f \in Streams, NEW d \in Seq(FileCells), NEW w \in Seq(FileCells), NEW g \in Streams,
           FileSane(f, d, w), FileRight(f, d, w), f.inj = <<>>, f.path \notin Config,
           g.path = f.path, g.append = f.append, g.inj = f.inj, g.pos = f.pos + 1,
           g.kept = Append(f.kept, "n")
    PROVE  FileRight(g, d, Overlay(w, f.pos, <<"n">>))
<1> DEFINE k == Len(f.kept)
           e == "n"
           more == Append(f.kept, e)
           pos == f.pos + 1
           n == Overlay(w, f.pos, <<e>>)
<1>3. /\ f.pos \in Nat /\ f.kept \in Seq(FileCells) /\ k \in Nat /\ k <= f.pos /\ Len(d) \in Nat
      /\ (f.append => f.pos = Len(d) + k) /\ Overlay(d, f.pos - k, f.kept) = w
      /\ e \in FileCells
  BY StreamFields, LenProperties DEF FileRight, FileSane, FileCells
<1>8. more \in Seq(FileCells) /\ Len(more) = k + 1
  BY <1>3, AppendProperties
<1>9. n = Overlay(d, f.pos - k, more)
  <2> DEFINE q == f.pos - k
             c == f.kept
             z == f.pos
             one == <<e>>
  <2>1. q \in Nat /\ q + Len(c) = z /\ c \in Seq(FileCells) /\ z \in Nat
    BY <1>3
  <2>3. n = Overlay(w, z, one) /\ w = Overlay(d, q, c)
    BY <1>3
  <2> HIDE DEF q, c, z, e
  <2>4. Overlay(d, q, Append(c, e)) = Overlay(Overlay(d, q, c), q + Len(c), <<e>>)
    BY <1>3, <2>1, OverlayMore
  <2>5. n = Overlay(d, q, Append(c, e))
    BY <2>1, <2>3, <2>4
  <2>7. QED
    BY <2>5 DEF q, c
<1> HIDE DEF k, more, pos, n, e
<1>10. pos \in Nat /\ pos - Len(more) = f.pos - k
       /\ (f.append => pos = Len(d) + Len(more))
  <2> DEFINE q == f.pos
             l == Len(more)
             z == Len(d)
  <2>1. q \in Nat /\ l = k + 1 /\ k \in Nat /\ k <= q /\ z \in Nat /\ pos = q + 1
    BY <1>3, <1>8 DEF pos
  <2>2. f.append => q = z + k
    BY <1>3
  <2> HIDE DEF q, l, z
  <2>3. pos \in Nat /\ pos - l = q - k
    BY <2>1
  <2>4. f.append => pos = z + l
    BY <2>1, <2>2
  <2>5. QED
    BY <2>3, <2>4 DEF q, l, z
<1>11. g.pos = pos /\ g.kept = more
  BY DEF pos, more, e
<1>12. FileRight(g, d, n)
  BY <1>9, <1>10, <1>11 DEF FileRight
<1>13. QED
  BY <1>12 DEF n, e

LEMMA FilesWriteStep ==
    ASSUME FilesInv, WriteFile
    PROVE  FilesInv'
<1>1. PICK i \in InUse, to \in 0 .. MaxLen :
        \E at \in WritePlaces(files[i]) :
          /\ Writable(i)
          /\ files' = [files EXCEPT ![i].kept = Append(@, "n"), ![i].last = "write", ![i].pos = at + 1]
          /\ win' = [win EXCEPT ![files[i].path] = Overlay(@, to, <<"n">>)]
          /\ winPos' = [winPos EXCEPT ![i] = to + 1]
          /\ Spoil(files[i].path, ~Places(i, to))
          /\ UNCHANGED <<disk, handles, maps, view>>
  BY DEF WriteFile
<1>2. PICK at \in WritePlaces(files[i]) :
        /\ Writable(i)
        /\ files' = [files EXCEPT ![i].kept = Append(@, "n"), ![i].last = "write", ![i].pos = at + 1]
        /\ win' = [win EXCEPT ![files[i].path] = Overlay(@, to, <<"n">>)]
        /\ winPos' = [winPos EXCEPT ![i] = to + 1]
        /\ Spoil(files[i].path, ~Places(i, to))
        /\ UNCHANGED <<disk, handles, maps, view>>
  BY <1>1
<1> DEFINE f == files[i]
           p == f.path
           d == disk[p]
           w == win[p]
           c == f.kept
           e == "n"
           more == Append(c, e)
           pos == at + 1
           one == <<e>>
           n == Overlay(w, to, one)
           go == to + 1
           g == [f EXCEPT !.kept = more, !.last = "write", !.pos = pos]
<1>3. /\ f \in Streams /\ p \in Path /\ FileSane(f, d, w) /\ Flushed(f) \in Seq(FileCells)
      /\ w \in Seq(FileCells) /\ d \in Seq(FileCells) /\ i \in FileSlot /\ FilesShape
      /\ (f.append => Len(c) <= Len(Flushed(f)))
  BY FlushedCells, UsedStream DEF FilesInv
<1>f. c \in Seq(FileCells) /\ f.pos \in Nat /\ e \in FileCells /\ to \in Nat /\ go \in Nat
  <2>1. c \in Seq(FileCells) /\ f.pos \in Nat
    BY <1>3, StreamFields
  <2>2. e \in FileCells
    BY DEF FileCells
  <2>3. to \in Nat
    BY FileNumbers
  <2>4. QED
    BY <2>1, <2>2, <2>3
<1>l. Len(c) \in Nat /\ Len(d) \in Nat /\ Len(Flushed(f)) \in Nat
  BY <1>3, <1>f, LenProperties
<1>k. Len(c) <= f.pos /\ (f.last = "read" => c = <<>>)
  BY <1>3 DEF FileSane
<1>4. /\ c \in Seq(FileCells) /\ Len(c) \in Nat /\ f.pos \in Nat /\ Len(c) <= f.pos /\ e \in FileCells
      /\ Len(d) \in Nat /\ Len(Flushed(f)) \in Nat /\ to \in Nat /\ go \in Nat
      /\ f.mode # "rb" /\ (f.last = "read" => c = <<>>)
  BY <1>2, <1>f, <1>l, <1>k DEF Writable
<1>5. at \in Nat /\ Len(c) <= at
  <2>1. CASE f.append
    BY <1>3, <1>4, <2>1 DEF WritePlaces
  <2>2. CASE ~f.append /\ f.last = "read"
    <3>1. Len(c) = 0
      BY <1>4, <2>2
    <3>2. at = f.pos \/ at = Len(d)
      BY <2>2 DEF WritePlaces
    <3>3. QED
      BY <1>4, <3>1, <3>2
  <2>3. CASE ~f.append /\ f.last # "read"
    BY <1>4, <2>3 DEF WritePlaces
  <2>4. QED
    BY <2>1, <2>2, <2>3
<1>6. /\ files' = [files EXCEPT ![i] = g] /\ win' = [win EXCEPT ![p] = n]
      /\ winPos' = [winPos EXCEPT ![i] = go] /\ disk' = [disk EXCEPT ![p] = d]
  BY <1>2, <1>3 DEF FilesShape
<1>7. more \in Seq(FileCells) /\ Len(more) = Len(c) + 1 /\ one \in Seq(FileCells)
  BY <1>4, AppendProperties
<1>8. n \in Seq(FileCells) /\ n # Absent
  <2>1. Overlay(w, to, one) \in Seq(FileCells)
    <3> HIDE DEF one, w
    <3> QED
      BY <1>3, <1>4, <1>7, OverlayIs
  <2>2. QED
    BY <2>1, AbsentApart
<1>9. /\ spoilt' = spoilt \/ spoilt' = spoilt \cup {p}
      /\ p \notin spoilt' => p \notin spoilt /\ to = winPos[i] /\ f.last # "read"
  BY <1>2 DEF Spoil, Places
<1> HIDE DEF f, d, w, c, more, pos, n, e, one, go
<1>10. pos \in Nat /\ Len(more) <= pos /\ pos = at + 1
  BY <1>4, <1>5, <1>7 DEF pos
<1>11. /\ g \in Streams /\ g.path = p /\ g.mode = f.mode /\ g.handle = f.handle /\ g.inj = f.inj
       /\ g.append = f.append /\ g.pos = pos /\ g.kept = more /\ g.injPos = f.injPos
       /\ g.last = "write"
  BY <1>3, <1>7, <1>10 DEF Streams
<1> HIDE DEF g
<1>12. FileSane(g, d, n)
  BY <1>3, <1>4, <1>8, <1>10, <1>11 DEF FileSane
<1>13. ASSUME p \notin spoilt'
       PROVE  FileRight(g, d, n) /\ pos = go
  <2>1. FileRight(f, d, w) /\ (f.append => Flushed(f) = w /\ Len(w) = f.pos)
    BY <1>9, <1>13, FlushedIs DEF f, d, w, p
  <2>2. at = f.pos
    BY <1>9, <1>13, <2>1 DEF WritePlaces, f
  <2>3. f.inj = <<>> /\ p \notin Config /\ winPos[i] = f.pos
    <3>1. p \notin Config
      BY <1>4, <1>9, <1>13 DEF FilesInv, WritersAlone, f, p
    <3>2. f.inj = <<>>
      BY <2>1, <3>1 DEF FileRight, p
    <3>3. QED
      BY <1>4, <1>9, <1>13, <3>1, <3>2 DEF FilesInv, InPlace, f, p
  <2>4. to = f.pos /\ pos = f.pos + 1 /\ go = f.pos + 1
    BY <1>9, <1>10, <1>13, <2>2, <2>3 DEF go
  <2>5. more = Append(f.kept, "n") /\ n = Overlay(w, f.pos, <<"n">>)
    BY <2>4 DEF more, n, c, e, one
  <2>6. f.path \notin Config /\ g.path = f.path
    BY <1>11, <2>3 DEF p
  <2>7. FileRight(g, d, n)
    BY <1>3, <1>11, <2>1, <2>3, <2>4, <2>5, <2>6, FilesWriteRight
  <2>8. QED
    BY <2>4, <2>7
<1>14. ViewsShowFile' /\ UNCHANGED <<handles, maps>>
  BY <1>2 DEF FilesInv, ViewsShowFile
<1>15. /\ g.path = files[i].path /\ g.mode = files[i].mode /\ g.handle = files[i].handle
       /\ disk' = [disk EXCEPT ![g.path] = d] /\ win' = [win EXCEPT ![g.path] = n]
       /\ d \in Contents /\ n \in Contents /\ g.mode # "rb"
       /\ spoilt' = spoilt \/ spoilt' = spoilt \cup {g.path}
  BY <1>3, <1>4, <1>6, <1>8, <1>9, <1>11 DEF f, p, Contents
<1>16. g.path \notin spoilt' =>
         /\ FileRight(g, d, n)
         /\ g.mode = "rb" => d = disk[g.path] /\ n = win[g.path]
         /\ (g.inj = <<>> /\ (maps = <<>> \/ g.mode # "rb")) => g.pos = go
  BY <1>11, <1>13, <1>15
<1> HIDE DEF p
<1>17. go \in Nat /\ files' = [files EXCEPT ![i] = g] /\ winPos' = [winPos EXCEPT ![i] = go]
  BY <1>4, <1>6 DEF go
<1>18. QED
  BY <1>11, <1>12, <1>14, <1>15, <1>16, <1>17, StreamStep

LEMMA FilesCloseStep ==
    ASSUME FilesInv, CloseFile
    PROVE  FilesInv'
<1>1. PICK i \in InUse :
        /\ disk' = [disk EXCEPT ![files[i].path] = Flushed(files[i])]
        /\ files' = [files EXCEPT ![i] = Unused] /\ winPos' = [winPos EXCEPT ![i] = 0]
        /\ UNCHANGED <<handles, maps, win, spoilt, view>>
  BY DEF CloseFile
<1> DEFINE p == files[i].path
           s == Flushed(files[i])
<1>2. /\ FilesShape /\ FilesRight /\ HandlesGiven /\ WritersAlone /\ InPlace /\ ClosedFlushed
      /\ ViewsShowFile /\ i \in FileSlot /\ p \in Path
      /\ s \in Seq(FileCells) /\ s # Absent /\ win[p] # Absent
      /\ p \notin spoilt => s = win[p] /\ (files[i].mode = "rb" => disk[p] = s)
  BY FlushedCells, FlushedIs, UsedStream DEF FilesInv, FileSane
<1>3. s \in Contents
  BY <1>2 DEF Contents
<1>4. /\ files' \in [FileSlot -> Streams \cup {Unused}] /\ files'[i] = Unused
      /\ \A j \in FileSlot : j # i => files'[j] = files[j]
      /\ winPos' \in [FileSlot -> Nat]
      /\ \A j \in FileSlot : j # i => winPos'[j] = winPos[j]
  BY <1>1, <1>2 DEF FilesShape
<1>5. /\ disk' \in [Path -> Contents] /\ disk'[p] = s /\ \A q \in Path : q # p => disk'[q] = disk[q]
      /\ win' = win
  BY <1>1, <1>2, <1>3 DEF FilesShape
<1>6. /\ InUse' = InUse \ {i}
      /\ \A j \in InUse' : j \in InUse /\ j # i /\ j \in FileSlot /\ files'[j] = files[j]
                           /\ winPos'[j] = winPos[j] /\ files[j].path \in Path
  <2>1. ~files'[i].used
    BY <1>4 DEF Unused
  <2>2. InUse' = InUse \ {i}
    BY <1>2, <1>4, <2>1 DEF InUse, Used
  <2>3. \A j \in InUse : j \in FileSlot /\ files[j].path \in Path
    BY <1>2, UsedStream
  <2>4. QED
    BY <1>4, <2>2, <2>3
<1>7. FilesShape'
  BY <1>1, <1>2, <1>4, <1>5 DEF FilesShape
<1>8. FilesRight'
  <2>1. ASSUME NEW j \in InUse'
        PROVE  LET q == files'[j].path
               IN  /\ FileSane(files'[j], disk'[q], win'[q])
                   /\ q \notin spoilt' => FileRight(files'[j], disk'[q], win'[q])
    <3> DEFINE q == files[j].path
    <3>1. /\ files'[j] = files[j] /\ FileSane(files[j], disk[q], win[q])
          /\ q \notin spoilt => FileRight(files[j], disk[q], win[q])
          /\ q \in Path /\ j \in InUse /\ j # i /\ spoilt' = spoilt /\ win' = win
      BY <1>1, <1>2, <1>6 DEF FilesRight
    <3>2. q \notin spoilt => disk'[q] = disk[q]
      <4>1. CASE q # p
        BY <1>5, <3>1, <4>1
      <4>2. CASE q = p /\ q \notin spoilt
        <5>1. files[i].mode = "rb"
          BY <1>2, <3>1, <4>2 DEF WritersAlone
        <5>2. QED
          BY <1>2, <1>5, <4>2, <5>1
      <4>3. QED
        BY <4>1, <4>2
    <3>3. FileSane(files[j], disk'[q], win[q])
      <4>1. disk'[q] # Absent
        BY <1>2, <1>5, <3>1 DEF FileSane
      <4>2. QED
        BY <3>1, <4>1 DEF FileSane
    <3>4. QED
      BY <3>1, <3>2, <3>3
  <2>2. QED
    BY <2>1 DEF FilesRight
<1>9. HandlesGiven' /\ WritersAlone'
  BY <1>1, <1>2, <1>6 DEF HandlesGiven, WritersAlone
<1>10. InPlace'
  BY <1>1, <1>2, <1>6 DEF InPlace
<1>11. ClosedFlushed'
  <2>0. \A q \in Path : disk'[q] = Absent <=> win'[q] = Absent
    BY <1>2, <1>5 DEF ClosedFlushed
  <2>1. ASSUME NEW q \in Path, OpenOn(q)' = {}, q \notin spoilt'
        PROVE  disk'[q] = win'[q]
    <3>1. CASE q = p
      BY <1>1, <1>2, <1>5, <2>1, <3>1
    <3>2. CASE q # p
      <4>1. OpenOn(q) = {}
        <5> SUFFICES ASSUME NEW j \in OpenOn(q) PROVE FALSE
          OBVIOUS
        <5>1. j \in InUse /\ files[j].path = q /\ j # i
          BY <3>2 DEF OpenOn
        <5>2. j \in InUse' /\ files'[j].path = q
          BY <1>6, <5>1
        <5>3. QED
          BY <2>1, <5>2 DEF OpenOn
      <4>2. QED
        BY <1>1, <1>2, <1>5, <2>1, <3>2, <4>1 DEF ClosedFlushed
    <3>3. QED
      BY <3>1, <3>2
  <2>2. QED
    BY <2>0, <2>1 DEF ClosedFlushed
<1>12. ViewsShowFile'
  BY <1>1, <1>2 DEF ViewsShowFile
<1>13. QED
  BY <1>7, <1>8, <1>9, <1>10, <1>11, <1>12 DEF FilesInv

LEMMA FilesDeleteStep ==
    ASSUME FilesInv, DeleteFile
    PROVE  FilesInv'
<1>1. PICK p \in Path :
        /\ OpenOn(p) = {}
        /\ disk' = [disk EXCEPT ![p] = Absent] /\ win' = [win EXCEPT ![p] = Absent]
        /\ spoilt' = spoilt \ {p}
        /\ UNCHANGED <<files, handles, maps, winPos, view>>
  BY DEF DeleteFile
<1>2. /\ FilesShape /\ FilesRight /\ HandlesGiven /\ WritersAlone /\ InPlace /\ ClosedFlushed
      /\ ViewsShowFile
  BY DEF FilesInv
<1>3. Absent \in Contents
  BY DEF Contents
<1>4. /\ disk' \in [Path -> Contents] /\ disk'[p] = Absent /\ \A q \in Path : q # p => disk'[q] = disk[q]
      /\ win' \in [Path -> Contents] /\ win'[p] = Absent /\ \A q \in Path : q # p => win'[q] = win[q]
  BY <1>1, <1>2, <1>3 DEF FilesShape
<1>5. InUse' = InUse /\ \A q \in Path : OpenOn(q)' = OpenOn(q)
  BY <1>1 DEF InUse, Used, OpenOn
<1>6. FilesShape'
  BY <1>1, <1>2, <1>4 DEF FilesShape
<1>n. \A j \in InUse : /\ files[j].path \in Path /\ files[j].path # p
                        /\ (files[j].path \in spoilt' <=> files[j].path \in spoilt)
  BY <1>1, <1>2, UsedStream DEF OpenOn
<1>7. FilesRight'
  BY <1>1, <1>2, <1>4, <1>5, <1>n DEF FilesRight
<1>8. HandlesGiven' /\ WritersAlone' /\ InPlace'
  BY <1>1, <1>2, <1>5, <1>n DEF HandlesGiven, WritersAlone, InPlace
<1>9. ClosedFlushed'
  BY <1>1, <1>2, <1>4, <1>5 DEF ClosedFlushed
<1>10. ViewsShowFile'
  BY <1>1, <1>2 DEF ViewsShowFile
<1>11. QED
  BY <1>6, <1>7, <1>8, <1>9, <1>10 DEF FilesInv

LEMMA FilesMapStep ==
    ASSUME FilesInv, CreateFileMapping
    PROVE  FilesInv'
<1>1. PICK i \in InUse :
        /\ Len(maps) < MaxFilemap /\ maps' = Append(maps, files[i].handle)
        /\ UNCHANGED <<disk, files, handles, win, winPos, spoilt, view>>
  BY DEF CreateFileMapping, streamVars
<1>2. /\ FilesShape /\ FilesRight /\ HandlesGiven /\ WritersAlone /\ InPlace /\ ClosedFlushed
      /\ ViewsShowFile
  BY DEF FilesInv
<1>3. files[i].handle \in Nat
  BY <1>2, UsedStream, StreamFields
<1>4. maps' \in Seq(Nat) /\ Len(maps') = Len(maps) + 1 /\ Len(maps) \in Nat
  BY <1>1, <1>2, <1>3, AppendProperties, LenProperties DEF FilesShape
<1>5. maps' # <<>>
  <2>1. Len(maps') # 0
    BY <1>4
  <2>2. QED
    BY <2>1
<1>6. Len(maps') <= MaxFilemap
  BY <1>1, <1>4, FileNumbers
<1>7. InUse' = InUse /\ \A q \in Path : OpenOn(q)' = OpenOn(q)
  BY <1>1 DEF InUse, Used, OpenOn
<1>8. FilesShape'
  BY <1>1, <1>2, <1>4, <1>6 DEF FilesShape
<1>9. FilesRight' /\ HandlesGiven' /\ WritersAlone' /\ ClosedFlushed' /\ ViewsShowFile'
  BY <1>1, <1>2, <1>7 DEF FilesRight, HandlesGiven, WritersAlone, ClosedFlushed, ViewsShowFile
<1>10. InPlace'
  BY <1>1, <1>2, <1>5, <1>7 DEF InPlace
<1>11. QED
  BY <1>8, <1>9, <1>10 DEF FilesInv

\* A view is of the file as it should be, with the addition behind it, unless the
\* file is spoilt.
LEMMA FilesViewStep ==
    ASSUME FilesInv, MapViewOfFile
    PROVE  FilesInv'
<1>1. PICK m \in DOMAIN maps, offset \in 0 .. 1 :
        LET on == {i \in InUse : files[i].handle = maps[m]}
            i == Min(on)
        IN  /\ IF on = {} THEN view' = NoView /\ UNCHANGED <<disk, files, spoilt>>
                 ELSE /\ IF Injected(i)
                           THEN /\ View(i, Cells(files[i].inj, offset, MaxLen + 1),
                                           Cells(win[files[i].path] \o Addition, offset, MaxLen + 1))
                                /\ files' = [files EXCEPT ![i].injPos = Len(files[i].inj)]
                                /\ UNCHANGED disk
                           ELSE /\ View(i, CopyFrom(i, offset), Cells(win[files[i].path], offset, MaxLen))
                                /\ Move(i, Max({offset, Len(Flushed(files[i]))}))
                      /\ Spoil(files[i].path, MapsWriter(i))
            /\ UNCHANGED <<handles, maps, win, winPos>>
  BY DEF MapViewOfFile
<1> DEFINE on == {i \in InUse : files[i].handle = maps[m]}
           i == Min(on)
<1>2. CASE on = {}
  <2>1. UNCHANGED <<disk, files, handles, maps, win, winPos, spoilt>> /\ view' = NoView
    BY <1>1, <1>2
  <2>2. InUse' = InUse /\ \A p \in Path : OpenOn(p)' = OpenOn(p)
    BY <2>1 DEF InUse, Used, OpenOn
  <2>3. ViewsShowFile'
    BY <2>1 DEF ViewsShowFile, NoView
  <2>4. FilesShape' /\ FilesRight' /\ HandlesGiven' /\ WritersAlone' /\ InPlace' /\ ClosedFlushed'
    BY <2>1, <2>2 DEF FilesInv, FilesShape, FilesRight, HandlesGiven, WritersAlone, InPlace, ClosedFlushed
  <2>5. QED
    BY <2>3, <2>4 DEF FilesInv
<1>3. CASE on # {}
  <2>1. i \in on
    <3>1. on \subseteq Nat
      BY FileNumbers DEF InUse
    <3> HIDE DEF on
    <3>2. QED
      BY <1>3, <3>1, LeastOf
  <2>2. i \in InUse
    BY <2>1
  <2>3. /\ IF Injected(i)
             THEN /\ View(i, Cells(files[i].inj, offset, MaxLen + 1),
                             Cells(win[files[i].path] \o Addition, offset, MaxLen + 1))
                  /\ files' = [files EXCEPT ![i].injPos = Len(files[i].inj)]
                  /\ UNCHANGED disk
             ELSE /\ View(i, CopyFrom(i, offset), Cells(win[files[i].path], offset, MaxLen))
                  /\ Move(i, Max({offset, Len(Flushed(files[i]))}))
        /\ Spoil(files[i].path, MapsWriter(i))
        /\ UNCHANGED <<handles, maps, win, winPos>>
    BY <1>1, <1>3
  <2> HIDE DEF i, on
  <2> DEFINE f == files[i]
             p == f.path
             w == win[p]
  <2>a. f \in Streams /\ p \in Path /\ FileSane(f, disk[p], w) /\ Flushed(f) \in Seq(FileCells)
    BY <2>2, FlushedCells
  <2>b. FilesShape /\ i \in FileSlot
    BY <2>2, UsedStream DEF FilesInv
  <2>e. maps # <<>>
    OBVIOUS
  <2>f. f.inj \in Seq(FileCells \cup {"i"})
    BY <2>a, StreamFields
  <2>c. f.inj \in Seq(FileCells \cup {"i"}) /\ maps # <<>>
    BY <2>e, <2>f
  <2>d. p \notin spoilt => FileRight(f, disk[p], w) /\ Flushed(f) = w
    BY <2>2, FlushedIs
  <2>4. /\ f \in Streams /\ p \in Path /\ FileSane(f, disk[p], w) /\ Flushed(f) \in Seq(FileCells)
        /\ i \in FileSlot /\ FilesShape /\ f.inj \in Seq(FileCells \cup {"i"}) /\ maps # <<>>
        /\ (p \notin spoilt => FileRight(f, disk[p], w) /\ Flushed(f) = w)
    BY <2>a, <2>b, <2>c, <2>d
  <2>5. /\ spoilt' = spoilt \/ spoilt' = spoilt \cup {p}
        /\ p \notin spoilt' => p \notin spoilt /\ f.mode = "rb"
    BY <2>3 DEF Spoil, MapsWriter
  <2>6. CASE Injected(i)
    <3> DEFINE n == Len(f.inj)
    <3>1. ViewsShowFile'
      <4>1. CASE p \in spoilt
        BY <2>3, <2>6, <4>1 DEF View, ViewsShowFile, NoView
      <4>2. CASE p \notin spoilt
        <5>1. f.inj = w \o Addition
          BY <2>4, <2>6, <4>2 DEF FileRight, Injected
        <5>2. QED
          BY <2>3, <2>6, <4>2, <5>1 DEF View, ViewsShowFile
      <4>3. QED
        BY <4>1, <4>2
    <3>2. n \in Nat /\ n <= Len(files[i].inj) /\ PlaceSet(i, n)
      BY <2>3, <2>4, <2>6, LenProperties DEF PlaceSet
    <3> HIDE DEF n
    <3>3. QED
      BY <2>2, <2>5, <2>6, <3>1, <3>2, InjectedMoved
  <2>7. CASE ~Injected(i)
    <3> DEFINE l == Len(Flushed(f))
               pos == Max({offset, l})
               g == Moved(f, pos)
               to == winPos[i]
    <3>1. ViewsShowFile'
      <4>1. CASE p \in spoilt
        BY <2>3, <2>7, <4>1 DEF View, ViewsShowFile, NoView
      <4>2. CASE p \notin spoilt
        BY <2>3, <2>4, <2>7, <4>2 DEF View, ViewsShowFile, CopyFrom
      <4>3. QED
        BY <4>1, <4>2
    <3>2. l \in Nat
      BY <2>4, LenProperties
    <3>3. pos \in Nat /\ to \in Nat
      <4>1. to \in Nat
        BY <2>4 DEF FilesShape
      <4> HIDE DEF l, to
      <4>2. Max({offset, l}) = IF offset >= l THEN offset ELSE l
        BY <3>2, GreaterOf
      <4>3. QED
        BY <3>2, <4>1, <4>2
    <3>4. /\ disk' = [disk EXCEPT ![p] = Flushed(f)] /\ files' = [files EXCEPT ![i] = g]
          /\ winPos' = [winPos EXCEPT ![i] = to] /\ UNCHANGED <<win, handles, maps>>
      BY <2>3, <2>4, <2>7 DEF Move, FilesShape
    <3>5. p \notin spoilt' =>
            /\ f.append => pos = f.pos
            /\ f.inj = <<>> /\ (maps = <<>> \/ f.mode # "rb") => pos = to
      BY <2>4, <2>5 DEF FileSane
    <3>6. MovedTo(g, files[i], pos)
      BY DEF MovedTo
    <3> HIDE DEF pos, to, g
    <3>7. QED
      BY <2>2, <2>5, <3>1, <3>3, <3>4, <3>5, <3>6, FlushedStep
  <2>8. QED
    BY <2>6, <2>7
<1>4. QED
  BY <1>2, <1>3

-----------------------------------------------------------------------------
(* CreateFile.                                                                *)

\* What is opened as Windows opens it: to read, what is there and nobody writes; to
\* write, what nobody has open; to append, what is empty.
LEMMA OpensAsWindows ==
    ASSUME NEW p \in Path, NEW disposition, NEW write \in BOOLEAN,
           Opens(Mode(disposition, write), p)
    PROVE  LET mode == Mode(disposition, write)
           IN  /\ mode \in OpenModes
               /\ mode \in {"rb", "rb+"} => disk[p] # Absent
               /\ AsWindows(p, disposition, mode) =>
                      /\ mode = "rb" => \A i \in OpenOn(p) : files[i].mode = "rb"
                      /\ mode # "rb" => OpenOn(p) = {} /\ p \notin Config
                      /\ mode = "ab+" => disk[p] \in {Absent, <<>>}
<1> DEFINE mode == Mode(disposition, write)
<1>1. mode \in OpenModes
  BY DEF Mode, OpenModes
<1>2. mode \in {"rb", "rb+"} => disk[p] # Absent
  BY DEF Opens, Makes
<1> HIDE DEF mode
<1>3. AsWindows(p, disposition, mode) =>
        /\ mode = "rb" => \A i \in OpenOn(p) : files[i].mode = "rb"
        /\ mode # "rb" => OpenOn(p) = {} /\ p \notin Config
        /\ mode = "ab+" => disk[p] \in {Absent, <<>>}
  BY DEF AsWindows
<1>4. QED
  BY <1>1, <1>2, <1>3 DEF mode

\* What a file holds when it was opened, and what Windows has it hold.
LEMMA OpenedFile ==
    ASSUME FilesInv, NEW p \in Path, NEW mode \in OpenModes,
           mode \in {"rb", "rb+"} => disk[p] # Absent
    PROVE  LET after == AfterOpen(mode, disk[p])
               is == AfterOpen(mode, win[p])
           IN  /\ after \in Seq(FileCells) /\ after # Absent /\ is \in Seq(FileCells) /\ is # Absent
               /\ disk[p] = win[p] => after = is
               /\ mode = "rb" => after = disk[p] /\ is = win[p]
               /\ mode = "ab+" /\ disk[p] \in {Absent, <<>>} => after = <<>>
<1> DEFINE after == AfterOpen(mode, disk[p])
           is == AfterOpen(mode, win[p])
<1>1. disk[p] \in Contents /\ win[p] \in Contents /\ (disk[p] = Absent <=> win[p] = Absent)
  BY DEF FilesInv, FilesShape, ClosedFlushed
<1>2. after \in Seq(FileCells) /\ is \in Seq(FileCells)
  BY <1>1, PresentCells DEF AfterOpen
<1>3. disk[p] = win[p] => after = is
  OBVIOUS
<1>4. mode = "rb" => after = disk[p] /\ is = win[p]
  BY <1>1 DEF AfterOpen, Truncates
<1>5. mode = "ab+" /\ disk[p] \in {Absent, <<>>} => after = <<>>
  BY DEF AfterOpen
<1> HIDE DEF after, is
<1>6. QED
  BY <1>2, <1>3, <1>4, <1>5, AbsentApart DEF after, is

LEMMA FilesCreateStep ==
    ASSUME FilesInv, CreateFile
    PROVE  FilesInv'
<1>1. PICK p \in Path, write \in BOOLEAN,
           disposition \in {"CREATE_NEW", "CREATE_ALWAYS", "OPEN_EXISTING", "OPEN_ALWAYS",
                            "TRUNCATE_EXISTING"} :
        Created(p, write, disposition)
  BY Zenon DEF CreateFile, Created
<1> DEFINE mode == Mode(disposition, write)
           after == AfterOpen(mode, disk[p])
           is == AfterOpen(mode, win[p])
<1>2. /\ FilesShape /\ FilesRight /\ HandlesGiven /\ WritersAlone /\ InPlace /\ ClosedFlushed
      /\ ViewsShowFile
  BY DEF FilesInv
<1>3. /\ Opens(mode, p) /\ Spoil(p, ~AsWindows(p, disposition, mode))
      /\ disk' = [disk EXCEPT ![p] = after] /\ win' = [win EXCEPT ![p] = is] /\ UNCHANGED <<maps, view>>
  BY <1>1 DEF Created
<1>4. /\ mode \in OpenModes /\ (mode \in {"rb", "rb+"} => disk[p] # Absent)
      /\ AsWindows(p, disposition, mode) =>
            /\ mode = "rb" => \A j \in OpenOn(p) : files[j].mode = "rb"
            /\ mode # "rb" => OpenOn(p) = {} /\ p \notin Config
            /\ mode = "ab+" => disk[p] \in {Absent, <<>>}
  BY <1>3, OpensAsWindows
<1>5. /\ spoilt \subseteq spoilt' /\ spoilt' \subseteq Path
      /\ \A q \in Path : q # p => (q \in spoilt' <=> q \in spoilt)
      /\ p \notin spoilt' => p \notin spoilt /\ AsWindows(p, disposition, mode)
  BY <1>2, <1>3 DEF Spoil, FilesShape
<1> HIDE DEF mode
<1>6. p \notin spoilt' => disk[p] = win[p]
  <2> HAVE p \notin spoilt'
  <2>1. CASE OpenOn(p) = {}
    BY <1>2, <1>5, <2>1 DEF ClosedFlushed
  <2>2. CASE OpenOn(p) # {}
    <3>1. PICK j \in OpenOn(p) : TRUE
      BY <2>2
    <3>2. j \in InUse /\ files[j].path = p /\ files[j].mode = "rb" /\ p \notin spoilt
      BY <1>4, <1>5, <3>1 DEF OpenOn
    <3>3. QED
      BY <3>2, FlushedIs
  <2>3. QED
    BY <2>1, <2>2
<1>7. /\ after \in Seq(FileCells) /\ after # Absent /\ is \in Seq(FileCells) /\ is # Absent
      /\ p \notin spoilt' => after = is
      /\ mode = "rb" => after = disk[p] /\ is = win[p]
      /\ mode = "ab+" /\ disk[p] \in {Absent, <<>>} => after = <<>>
  BY <1>4, <1>6, OpenedFile
<1> HIDE DEF after, is
<1>8. /\ disk' \in [Path -> Contents] /\ disk'[p] = after /\ \A q \in Path : q # p => disk'[q] = disk[q]
      /\ win' \in [Path -> Contents] /\ win'[p] = is /\ \A q \in Path : q # p => win'[q] = win[q]
  BY <1>2, <1>3, <1>7 DEF FilesShape, Contents
<1>9. \A j \in InUse : j \in FileSlot /\ files[j].path \in Path
  BY <1>2, UsedStream
\* What is open on the file already.
<1>10. ASSUME NEW j \in InUse
       PROVE  LET q == files[j].path
              IN  /\ FileSane(files[j], disk'[q], win'[q])
                  /\ q \notin spoilt' => FileRight(files[j], disk'[q], win'[q])
  <2> DEFINE q == files[j].path
  <2>1. /\ q \in Path /\ FileSane(files[j], disk[q], win[q])
        /\ q \notin spoilt => FileRight(files[j], disk[q], win[q])
    BY <1>2, <1>9 DEF FilesRight
  <2>2. CASE q # p
    <3>1. disk'[q] = disk[q] /\ win'[q] = win[q] /\ (q \in spoilt' <=> q \in spoilt)
      BY <1>5, <1>8, <2>1, <2>2
    <3>2. QED
      BY <2>1, <3>1
  <2>3. CASE q = p
    <3>1. FileSane(files[j], after, is)
      BY <1>7, <2>1 DEF FileSane
    <3>2. q \notin spoilt' => FileRight(files[j], after, is)
      <4> HAVE q \notin spoilt'
      <4>1. mode = "rb"
        BY <1>4, <1>5, <2>3 DEF OpenOn
      <4>2. after = disk[q] /\ is = win[q]
        BY <1>7, <2>3, <4>1
      <4>3. QED
        BY <1>5, <2>1, <2>3, <4>2
    <3>3. QED
      BY <1>8, <2>3, <3>1, <3>2
  <2>4. QED
    BY <2>2, <2>3
<1>11. CASE FreeSlots = {}
  <2>1. UNCHANGED <<files, handles, winPos, maps, view>>
    BY <1>1, <1>11 DEF Created
  <2>2. InUse' = InUse /\ \A q \in Path : OpenOn(q)' = OpenOn(q)
    BY <2>1 DEF InUse, Used, OpenOn
  <2>3. FilesShape'
    BY <1>2, <1>5, <1>8, <2>1 DEF FilesShape
  <2>4. FilesRight'
    BY <1>10, <2>1, <2>2 DEF FilesRight
  <2>5. HandlesGiven' /\ WritersAlone' /\ InPlace'
    BY <1>2, <1>5, <1>9, <2>1, <2>2 DEF HandlesGiven, WritersAlone, InPlace
  <2>6. ClosedFlushed'
    <3>1. ASSUME NEW q \in Path
          PROVE  /\ disk'[q] = Absent <=> win'[q] = Absent
                 /\ q \notin spoilt' /\ OpenOn(q)' = {} => disk'[q] = win'[q]
      <4>1. CASE q = p
        BY <1>7, <1>8, <4>1
      <4>2. CASE q # p
        BY <1>2, <1>5, <1>8, <2>2, <4>2 DEF ClosedFlushed
      <4>3. QED
        BY <4>1, <4>2
    <3>2. QED
      BY <3>1 DEF ClosedFlushed
  <2>7. ViewsShowFile'
    BY <1>2, <2>1 DEF ViewsShowFile
  <2>8. QED
    BY <2>3, <2>4, <2>5, <2>6, <2>7 DEF FilesInv
<1>12. CASE FreeSlots # {}
  <2> DEFINE i == Min(FreeSlots)
             inj == IF p \in Config THEN after \o Addition ELSE <<>>
             none == <<>>
             zero == 0
             ab == mode = "ab+"
             g == [used |-> TRUE, handle |-> handles, path |-> p, mode |-> mode,
                   append |-> ab, pos |-> zero, kept |-> none, last |-> "moved",
                   inj |-> inj, injPos |-> zero]
  <2>1. i \in FileSlot /\ ~files[i].used
    <3>1. FreeSlots \subseteq Nat
      BY FileNumbers DEF FreeSlots
    <3>2. i \in FreeSlots
      BY <1>12, <3>1, LeastOf
    <3>3. QED
      BY <3>2 DEF FreeSlots, Used
  <2>2. /\ handles < MaxOpens /\ files' = [files EXCEPT ![i] = g] /\ handles' = handles + 1
        /\ winPos' = [winPos EXCEPT ![i] = zero]
    BY <1>1, <1>12 DEF Created, mode, after
  <2> HIDE DEF i
  <2>3. inj \in Seq(FileCells \cup {"i"}) /\ Len(inj) \in Nat /\ 0 <= Len(inj)
    <3>1. after \in Seq(FileCells \cup {"i"}) /\ Addition \in Seq(FileCells \cup {"i"})
      BY <1>7 DEF Addition
    <3>2. after \o Addition \in Seq(FileCells \cup {"i"}) /\ <<>> \in Seq(FileCells \cup {"i"})
      BY <3>1, ConcatProperties
    <3>3. inj \in Seq(FileCells \cup {"i"})
      BY <3>2
    <3> HIDE DEF inj
    <3>4. QED
      BY <3>3, LenProperties
  <2>4. zero \in Nat /\ none \in Seq(FileCells) /\ Len(none) = zero /\ none = <<>> /\ ab \in BOOLEAN
        /\ zero - zero = zero /\ handles \in Nat /\ handles + 1 \in 0 .. MaxOpens /\ zero <= zero
        /\ zero <= Len(inj) /\ zero = 0
    <3>1. handles \in Nat /\ handles + 1 \in 0 .. MaxOpens
      BY <1>2, <2>2, FileNumbers DEF FilesShape
    <3>2. QED
      BY <2>3, <3>1
  <2>5. ab <=> mode = "ab+"
    OBVIOUS
  <2>6. inj = IF p \in Config THEN after \o Addition ELSE <<>>
    OBVIOUS
  <2> HIDE DEF zero, none, ab, inj
  <2>7. /\ g \in Streams /\ g.used = TRUE /\ g.handle = handles /\ g.path = p /\ g.mode = mode
        /\ g.append = ab /\ g.pos = zero /\ g.kept = none /\ g.inj = inj /\ g.injPos = zero
        /\ g.last = "moved"
    BY <1>4, <2>3, <2>4 DEF Streams
  <2> HIDE DEF g
  <2>8. FileSane(g, after, is)
    BY <1>7, <2>4, <2>5, <2>7 DEF FileSane
  <2>9. p \notin spoilt' => FileRight(g, after, is)
    <3> HAVE p \notin spoilt'
    <3>1. ab => zero = Len(after) + zero
      BY <1>4, <1>5, <1>7, <2>4, <2>5
    <3>2. Overlay(after, zero, none) = after /\ after = is
      BY <1>7, <2>4 DEF Overlay
    <3>3. QED
      BY <2>4, <2>5, <2>6, <2>7, <3>1, <3>2 DEF FileRight
  <2>10. /\ files' \in [FileSlot -> Streams \cup {Unused}] /\ files'[i] = g
         /\ \A j \in FileSlot : j # i => files'[j] = files[j]
         /\ winPos' \in [FileSlot -> Nat] /\ winPos'[i] = zero
         /\ \A j \in FileSlot : j # i => winPos'[j] = winPos[j]
    BY <1>2, <2>1, <2>2, <2>4, <2>7 DEF FilesShape
  <2>11. /\ InUse' = InUse \cup {i} /\ i \notin InUse
         /\ \A j \in InUse : j # i /\ j \in FileSlot /\ files'[j] = files[j] /\ winPos'[j] = winPos[j]
                             /\ files[j].path \in Path
    <3>1. InUse' = InUse \cup {i} /\ i \notin InUse
      BY <2>1, <2>7, <2>10 DEF InUse, Used
    <3>2. QED
      BY <1>9, <2>10, <3>1
  <2>12. FilesShape'
    BY <1>2, <1>3, <1>5, <1>8, <2>2, <2>4, <2>10 DEF FilesShape
  <2>13. FilesRight'
    <3>1. ASSUME NEW j \in InUse'
          PROVE  LET q == files'[j].path
                 IN  /\ FileSane(files'[j], disk'[q], win'[q])
                     /\ q \notin spoilt' => FileRight(files'[j], disk'[q], win'[q])
      <4>1. CASE j = i
        BY <1>8, <2>7, <2>8, <2>9, <2>10, <4>1
      <4>2. CASE j # i
        <5>1. j \in InUse /\ files'[j] = files[j]
          BY <2>11, <4>2
        <5>2. QED
          BY <1>10, <5>1
      <4>3. QED
        BY <4>1, <4>2
    <3>2. QED
      BY <3>1 DEF FilesRight
  <2>14. HandlesGiven'
    <3>1. ASSUME NEW j \in InUse'
          PROVE  files'[j].handle < handles'
      <4>1. CASE j = i
        BY <2>2, <2>4, <2>7, <2>10, <4>1
      <4>2. CASE j # i
        <5>1. j \in InUse /\ files'[j] = files[j] /\ files[j].handle < handles
          BY <1>2, <2>11, <4>2 DEF HandlesGiven
        <5>2. files[j].handle \in Nat
          BY <1>2, <5>1, UsedStream, StreamFields
        <5>3. QED
          BY <2>2, <2>4, <5>1, <5>2
      <4>3. QED
        BY <4>1, <4>2
    <3>2. QED
      BY <3>1 DEF HandlesGiven
  <2>15. WritersAlone'
    <3>1. ASSUME NEW j \in InUse', files'[j].mode # "rb", files'[j].path \notin spoilt'
          PROVE  files'[j].path \notin Config
                 /\ \A l \in InUse' : files'[l].path = files'[j].path => l = j
      <4>1. CASE j = i
        <5>1. OpenOn(p) = {} /\ p \notin Config /\ files'[j].path = p
          BY <1>4, <1>5, <2>7, <2>10, <3>1, <4>1
        <5>2. \A l \in InUse' : files'[l].path = p => l = i
          BY <2>11, <5>1 DEF OpenOn
        <5>3. QED
          BY <4>1, <5>1, <5>2
      <4>2. CASE j # i
        <5>1. j \in InUse /\ files'[j] = files[j] /\ files[j].mode # "rb" /\ files[j].path \notin spoilt
              /\ files[j].path \notin spoilt'
          BY <1>5, <2>11, <3>1, <4>2
        <5>2. files[j].path # p
          BY <1>4, <1>5, <5>1 DEF OpenOn
        <5>3. QED
          BY <1>2, <2>7, <2>10, <2>11, <5>1, <5>2 DEF WritersAlone
      <4>3. QED
        BY <4>1, <4>2
    <3>2. QED
      BY <3>1 DEF WritersAlone
  <2>16. InPlace'
    <3>1. ASSUME NEW j \in InUse', files'[j].inj = <<>>, maps' = <<>> \/ files'[j].mode # "rb",
                 files'[j].path \notin spoilt'
          PROVE  files'[j].pos = winPos'[j]
      <4>1. CASE j = i
        BY <2>7, <2>10, <4>1
      <4>2. CASE j # i
        BY <1>2, <1>3, <1>5, <2>11, <3>1, <4>2 DEF InPlace
      <4>3. QED
        BY <4>1, <4>2
    <3>2. QED
      BY <3>1 DEF InPlace
  <2>17. ClosedFlushed'
    <3>1. ASSUME NEW q \in Path
          PROVE  /\ disk'[q] = Absent <=> win'[q] = Absent
                 /\ q \notin spoilt' /\ OpenOn(q)' = {} => disk'[q] = win'[q]
      <4>1. CASE q = p
        BY <1>7, <1>8, <4>1
      <4>2. CASE q # p
        <5>1. OpenOn(q)' = {} => OpenOn(q) = {}
          BY <2>11 DEF OpenOn
        <5>2. QED
          BY <1>2, <1>5, <1>8, <4>2, <5>1 DEF ClosedFlushed
      <4>3. QED
        BY <4>1, <4>2
    <3>2. QED
      BY <3>1 DEF ClosedFlushed
  <2>18. ViewsShowFile'
    BY <1>2, <1>3 DEF ViewsShowFile
  <2>19. QED
    BY <2>12, <2>13, <2>14, <2>15, <2>16, <2>17, <2>18 DEF FilesInv
<1>13. QED
  BY <1>11, <1>12

-----------------------------------------------------------------------------
LEMMA FilesStart ==
    FilesInit => FilesInv
<1> SUFFICES ASSUME FilesInit PROVE FilesInv
  OBVIOUS
<1>1. <<"o">> \in Seq(FileCells)
  BY DEF FileCells
<1>2. /\ disk \in [Path -> Contents] /\ win = disk
      /\ \A i \in FileSlot : files[i] = Unused
      /\ files \in [FileSlot -> Streams \cup {Unused}] /\ winPos \in [FileSlot -> Nat]
      /\ handles = 0 /\ maps = <<>> /\ spoilt = {} /\ view = NoView
  BY <1>1 DEF FilesInit, Contents
<1>3. InUse = {}
  BY <1>2 DEF InUse, Used, Unused
<1>4. FilesShape
  <2>1. Len(maps) = 0 /\ maps \in Seq(Nat)
    BY <1>2
  <2>2. handles \in 0 .. MaxOpens /\ Len(maps) <= MaxFilemap
    BY <1>2, <2>1, FileNumbers
  <2>3. QED
    BY <1>2, <2>1, <2>2 DEF FilesShape
<1>5. QED
  BY <1>2, <1>3, <1>4
     DEF FilesInv, FilesRight, HandlesGiven, WritersAlone, InPlace, ClosedFlushed, ViewsShowFile, NoView

LEMMA FilesStep ==
    ASSUME FilesInv, [FilesNext]_fileVars
    PROVE  FilesInv'
<1>1. CASE UNCHANGED fileVars
  <2>1. UNCHANGED <<disk, files, handles, maps, win, winPos, spoilt, view>>
    BY <1>1 DEF fileVars
  <2>2. InUse' = InUse /\ \A p \in Path : OpenOn(p)' = OpenOn(p)
    BY <2>1 DEF InUse, Used, OpenOn
  <2>3. QED
    BY <2>1, <2>2
       DEF FilesInv, FilesShape, FilesRight, HandlesGiven, WritersAlone, InPlace, ClosedFlushed,
           ViewsShowFile
<1>2. CASE FilesNext
  BY <1>2, FilesCreateStep, FilesReadStep, FilesWriteStep, FilesSeekStep, FilesSizeStep,
     FilesCloseStep, FilesDeleteStep, FilesMapStep, FilesViewStep DEF FilesNext
<1>3. QED
  BY <1>1, <1>2

LEMMA FilesMeans ==
    FilesInv => FilesConsistent
<1> SUFFICES ASSUME FilesInv PROVE FilesConsistent
  OBVIOUS
<1>1. FilesShape /\ FilesRight /\ HandlesGiven /\ InPlace /\ ClosedFlushed /\ ViewsShowFile
  BY DEF FilesInv
<1>2. FilesTypeOK
  <2>1. ASSUME NEW i \in InUse
        PROVE  files[i].pos \in Nat /\ files[i].injPos \in 0 .. Len(files[i].inj)
               /\ files[i].handle \in 0 .. handles - 1
    <3>1. /\ files[i].pos \in Nat /\ files[i].injPos \in Nat /\ files[i].handle \in Nat
          /\ Len(files[i].inj) \in Nat
      BY <1>1, UsedStream, StreamFields, LenProperties
    <3>2. files[i].injPos <= Len(files[i].inj) /\ files[i].handle < handles
      BY <1>1 DEF FilesRight, FileSane, HandlesGiven
    <3>3. handles \in Nat
      BY <1>1, FileNumbers DEF FilesShape
    <3>4. QED
      BY <3>1, <3>2, <3>3
  <2>2. QED
    BY <1>1, <2>1 DEF FilesTypeOK, FilesShape
<1>3. WritesLand
  <2>1. ASSUME NEW p \in Path \ spoilt, NEW i \in OpenOn(p)
        PROVE  Flushed(files[i]) = win[p]
    <3>1. i \in InUse /\ files[i].path = p
      BY DEF OpenOn
    <3>2. QED
      BY <3>1, FlushedIs
  <2>2. QED
    BY <1>1, <2>1 DEF WritesLand, ClosedFlushed
<1>4. PositionsAgree
  BY <1>1 DEF PositionsAgree, Injected, InPlace
<1>5. QED
  BY <1>1, <1>2, <1>3, <1>4 DEF FilesConsistent

\* Whatever the guest opens, reads, writes, moves, asks, maps and closes: a write that
\* a stream took is in the file when the last stream on it is closed, and until then
\* in the file with what its stream keeps, and a view of the file shows it, unless the
\* guest asked of that very file one of the things the streams do not do as Windows.
THEOREM FilesStayConsistent ==
    FilesSpec => []FilesConsistent
<1>1. FilesInv /\ [FilesNext]_fileVars => FilesInv'
  BY FilesStep
<1>2. QED
  BY <1>1, FilesStart, FilesMeans, PTL DEF FilesSpec
=============================================================================
