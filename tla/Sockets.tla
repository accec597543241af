------------------------------ MODULE Sockets ------------------------------
(***************************************************************************)
(* Guest sockets (wg_winsock.c and its dispatch in wg_engine.c): a table of  *)
(* descriptors of the host, the one report of each connection, the keys      *)
(* sockets are associated with on the completion port, and what receiving    *)
(* hands to the guest.  A call that waits inside the host's stack holds up    *)
(* every other call of the guest.                                            *)
(***************************************************************************)
EXTENDS Integers, Sequences, FiniteSets, FiniteSetsExt

CONSTANTS
    MaxSockets,     \* WG_MAX_SOCKETS
    MaxBindings,    \* WG_MAX_IOCP_SOCK
    Programs,       \* the functions of WS2_32 that a guest calls, as sets of names
    MaxFds,         \* bound: sockets made
    MaxCells        \* bound: cells a peer sends

ASSUME SocketsAssumption ==
    {MaxSockets, MaxBindings, MaxFds, MaxCells} \subseteq Nat

VARIABLES
    calls,      \* the program that runs
    fds,        \* fds: the descriptor of each slot, 0 for -1
    reported,   \* connect_reported
    bindings,   \* s_iocp_bindings
    conn,       \* the host's sockets
    waiting,    \* the receive that waits in the host, or Nobody
    right,      \* history: every completion so far told what it should
    hist        \* history of each descriptor: what the guest did and got; `fresh':
                \* its slot had reported nothing when it was made; `own': its slot
                \* had no association then, and the table had room for its own

socketVars == <<calls, fds, reported, bindings, conn, waiting, right, hist>>

SocketSlot == 0 .. MaxSockets - 1
Fd == 1 .. MaxFds
Taken == {i \in SocketSlot : fds[i] # 0}
Nobody == [slot |-> -1, bufs |-> <<>>, overlapped |-> FALSE, counted |-> FALSE]
Buffers == {<<2>>, <<1, 1>>}    \* lengths of the buffers of a receive

SocketsInit ==
    /\ calls \in Programs
    /\ fds = [i \in SocketSlot |-> 0] /\ reported = [i \in SocketSlot |-> FALSE]
    /\ bindings = <<>> /\ waiting = Nobody /\ right = TRUE
    /\ conn = [f \in Fd |-> [state |-> "none", block |-> TRUE, in |-> <<>>, sent |-> 0, fin |-> FALSE]]
    /\ hist = [f \in Fd |-> [told |-> 0, asked |-> FALSE, fresh |-> TRUE, key |-> 0, own |-> TRUE,
                         nonblock |-> FALSE, got |-> <<>>, ready |-> {}]]

\* No other call of the guest runs while one waits in the host.
Free == waiting = Nobody
Calls(f) == f \in calls /\ Free
FdOf(i) == fds[i]
Conn(i) == conn[fds[i]]
SocketWritable(i) == Conn(i).state \in {"up", "failed"}
SetState(i, s) == conn' = [conn EXCEPT ![fds[i]].state = s]

-----------------------------------------------------------------------------
(* Making, connecting and closing.                                          *)

Bound(i) == \E k \in DOMAIN bindings : bindings[k].slot = i

\* socket, WSASocket: alloc_socket takes the first slot, with what an earlier socket
\* left there.
NewSocket == \E f \in Fd :
    LET free == SocketSlot \ Taken IN
    /\ Free /\ conn[f].state = "none" /\ \A g \in 1 .. f - 1 : conn[g].state # "none"
    /\ conn' = [conn EXCEPT ![f].state = IF free = {} THEN "closed" ELSE "new"]
    /\ IF free = {} THEN UNCHANGED <<fds, hist>>
         ELSE /\ fds' = [fds EXCEPT ![Min(free)] = f]
              /\ hist' = [hist EXCEPT ![f].fresh = ~reported[Min(free)],
                                      ![f].own = ~Bound(Min(free))]
    /\ UNCHANGED <<calls, reported, bindings, waiting, right>>

\* closesocket: connect_reported and the associations stay as they are.
CloseSocket == \E i \in Taken :
    /\ Calls("closesocket")
    /\ SetState(i, "closed") /\ fds' = [fds EXCEPT ![i] = 0]
    /\ UNCHANGED <<calls, reported, bindings, waiting, right, hist>>

\* shutdown, DisconnectEx
Shutdown == \E i \in Taken :
    /\ Calls("shutdown") /\ Conn(i).state = "up" /\ SetState(i, "shut")
    /\ UNCHANGED <<calls, fds, reported, bindings, waiting, right, hist>>

\* How a connect that takes its time ends: select waits 15 s for it.
Outcomes == {"up", "failed", "connecting"}
CanConnect(i) == Conn(i).state \in {"new", "connecting"}

\* connect puts back the mode it found.
AfterConnect(c, s) == [c EXCEPT !.state = s]

\* connect: a blocking one ends up or failed; what the guest is told agrees.
Connect == \E i \in Taken, s \in Outcomes :
    /\ Calls("connect") /\ CanConnect(i)
    /\ s = "connecting" => ~Conn(i).block \/ Conn(i).state = "connecting"
    /\ conn' = [conn EXCEPT ![fds[i]] = AfterConnect(@, s)]
    /\ UNCHANGED <<calls, fds, reported, bindings, waiting, right, hist>>

\* iocp_comp_key
KeyOf(i) == LET of == {k \in DOMAIN bindings : bindings[k].slot = i}
            IN  IF of = {} THEN 0 ELSE bindings[Min(of)].key

\* The completion of a call that moved that much: the count is read back from
\* where the guest wanted it.
Completion(i, moved, counted) ==
    [key |-> KeyOf(i), bytes |-> IF counted THEN moved ELSE 0]

\* It is posted, and should carry the socket's key, if the association is its own,
\* and the count, if the guest wanted one.
Post(i, moved, counted) ==
    right' = (right /\ (hist[fds[i]].own => Completion(i, moved, counted).key = hist[fds[i]].key)
                    /\ (counted => Completion(i, moved, counted).bytes = moved))

\* ConnectEx: not blocking while it lasts, nor when it fails or times out then;
\* blocking, as it means to, when it is done or fails at once, be it that the socket
\* is connecting or connected.  Success with an OVERLAPPED posts a completion.
ConnectEx == \E i \in Taken, s \in Outcomes, atOnce \in BOOLEAN, overlapped \in BOOLEAN :
    LET new == Conn(i).state = "new"
        blocking == ~new \/ s = "up" \/ (s = "failed" /\ atOnce)
    IN  /\ Calls("ConnectEx") /\ Conn(i).state \in {"new", "connecting", "up"}
        /\ conn' = [conn EXCEPT ![fds[i]].state = IF new THEN s ELSE @, ![fds[i]].block = blocking]
        /\ hist' = [hist EXCEPT ![fds[i]].nonblock = @ /\ ~blocking]
        /\ IF new /\ s = "up" /\ overlapped THEN Post(i, 0, TRUE) ELSE UNCHANGED right
        /\ UNCHANGED <<calls, fds, reported, bindings, waiting>>

\* ioctlsocket FIONBIO; WSAEventSelect, which only ever sets it.
SetMode == \E i \in Taken, nonblock \in BOOLEAN :
    /\ Calls("ioctlsocket") /\ hist[fds[i]].nonblock # nonblock
    /\ conn' = [conn EXCEPT ![fds[i]].block = ~nonblock]
    /\ hist' = [hist EXCEPT ![fds[i]].nonblock = nonblock]
    /\ UNCHANGED <<calls, fds, reported, bindings, waiting, right>>

-----------------------------------------------------------------------------
(* Receiving and sending.                                                   *)

\* How much the buffers hold.
Room(bufs) ==
    LET room[k \in 0 .. Len(bufs)] == IF k = 0 THEN 0 ELSE room[k - 1] + bufs[k]
    IN  room[Len(bufs)]

\* Mutant of Further: a buffer gets the first cells.
FurtherFromStart(done, len, cells) == done \o SubSeq(cells, 1, Min({len, Len(cells) - Len(done)}))

\* One buffer of that length takes the cells after those that are done.
Further(done, len, cells) ==
    done \o SubSeq(cells, Len(done) + 1, Len(done) + Min({len, Len(cells) - Len(done)}))

\* WSARecv: the buffers are filled in turn.
Scatter(bufs, cells) ==
    LET done[k \in 0 .. Len(bufs)] ==
            IF k = 0 THEN <<>> ELSE Further(done[k - 1], bufs[k], cells)
    IN  done[Len(bufs)]

\* The receive r of slot i takes n cells.
Receive(i, r, n) ==
    /\ conn' = [conn EXCEPT ![fds[i]].in = SubSeq(@, n + 1, Len(@))]
    /\ hist' = [hist EXCEPT ![fds[i]].got = @ \o Scatter(r.bufs, SubSeq(Conn(i).in, 1, n)),
                            ![fds[i]].ready = @ \ {"read"}]
    /\ IF r.overlapped THEN Post(i, n, r.counted) ELSE UNCHANGED right

\* What recv may return now: some of what is there, or 0 at the end.
Receivable(i, r) ==
    IF Conn(i).in = <<>> THEN {0} ELSE 1 .. Min({Room(r.bufs), Len(Conn(i).in)})

SomethingIn(i) == Conn(i).in # <<>> \/ Conn(i).fin \/ Conn(i).state = "shut"

\* recv, WSARecv: without anything to receive a blocking socket waits, another
\* one reports WSAEWOULDBLOCK.
Recv == \E r \in [slot : Taken, bufs : Buffers, overlapped : BOOLEAN, counted : BOOLEAN] :
    LET i == r.slot
    IN  /\ Calls("recv") /\ Conn(i).state \in {"up", "shut"}
        /\ \/ \E n \in Receivable(i, r) :
                 SomethingIn(i) /\ Receive(i, r, n) /\ UNCHANGED waiting
           \/ ~SomethingIn(i) /\ Conn(i).block /\ waiting' = r /\ UNCHANGED <<conn, hist, right>>
        /\ UNCHANGED <<calls, fds, reported, bindings>>

\* The receive that waited returns.
RecvReturns ==
    /\ ~Free /\ SomethingIn(waiting.slot)
    /\ \E n \in Receivable(waiting.slot, waiting) : Receive(waiting.slot, waiting, n)
    /\ waiting' = Nobody
    /\ UNCHANGED <<calls, fds, reported, bindings>>

\* WSASend with an OVERLAPPED; a plain send leaves nothing behind.
SendOverlapped == \E i \in Taken, n \in 1 .. 2, counted \in BOOLEAN :
    /\ Calls("WSASend") /\ Conn(i).state = "up"
    /\ Post(i, n, counted)
    /\ UNCHANGED <<calls, fds, reported, bindings, conn, waiting, hist>>

\* CreateIoCompletionPort for a socket, with a key of its own; a full table takes
\* no more.
Associate == \E i \in Taken :
    /\ Calls("CreateIoCompletionPort") /\ hist[fds[i]].key = 0
    /\ bindings' = IF Len(bindings) < MaxBindings
                     THEN Append(bindings, [slot |-> i, key |-> fds[i]]) ELSE bindings
    /\ hist' = [hist EXCEPT ![fds[i]].key = fds[i],
                            ![fds[i]].own = @ /\ Len(bindings) < MaxBindings]
    /\ UNCHANGED <<calls, fds, reported, conn, waiting, right>>

Report(i) == reported' = [reported EXCEPT ![i] = TRUE]

\* WSAEnumNetworkEvents: a socket that is writable for the first time reports
\* FD_CONNECT.
EnumEvents == \E i \in Taken :
    LET tell == SocketWritable(i) /\ ~reported[i]
    IN  /\ Calls("WSAEnumNetworkEvents") /\ hist[fds[i]].told < 2
        /\ IF tell THEN Report(i) ELSE UNCHANGED reported
        /\ hist' = [hist EXCEPT ![fds[i]].asked = @ \/ SocketWritable(i),
                                ![fds[i]].told = IF tell THEN @ + 1 ELSE @]
        /\ UNCHANGED <<calls, fds, bindings, conn, waiting, right>>

\* What the host's poll says of a socket: with the end of the stream there is a
\* priority event, and an error as long as nobody has fetched it.
Polled(i, fetched) ==
    (IF SomethingIn(i) THEN {"in"} ELSE {})
    \union (IF SocketWritable(i) THEN {"out"} ELSE {})
    \union (IF Conn(i).fin \/ Conn(i).state = "shut" THEN {"hup", "pri"} ELSE {})
    \union (IF Conn(i).state = "failed" /\ ~fetched THEN {"err"} ELSE {})

\* select, of one of the three sets.
Ready(set, polled) ==
    CASE set = "read"   -> polled \cap {"in", "hup", "err"} # {}
      [] set = "write"  -> "out" \in polled
      [] set = "except" -> ("pri" \in polled /\ "hup" \notin polled) \/ "err" \in polled

\* Those of the set that select reports.
ReadyOf(set, asked, fetched) ==
    {i \in asked \cap Taken : Conn(i).state # "new" /\ Ready(set, Polled(i, fetched))}

\* The set is rewritten: the guest sees which of its sockets are ready
\* (__WSAFDIsSet), and a closed one is not in it any more.  Bound: the history
\* keeps what one select told, until the guest has received.
Learnt(of, set) == [f \in Fd |->
    IF \E i \in of : fds[i] = f THEN [hist[f] EXCEPT !.ready = @ \union {set}] ELSE hist[f]]

Select == \E set \in {"read", "write", "except"}, asked \in SUBSET SocketSlot, fetched \in BOOLEAN :
    /\ Calls("select") /\ ReadyOf(set, asked, fetched) # {} /\ \A f \in Fd : hist[f].ready = {}
    /\ hist' = Learnt(ReadyOf(set, asked, fetched), set)
    /\ UNCHANGED <<calls, fds, reported, bindings, conn, waiting, right>>

-----------------------------------------------------------------------------
(* The network.                                                             *)

ConnectEnds == \E f \in Fd, s \in {"up", "failed"} :
    /\ conn[f].state = "connecting" /\ conn' = [conn EXCEPT ![f].state = s]
    /\ UNCHANGED <<calls, fds, reported, bindings, waiting, right, hist>>

PeerSends == \E f \in Fd :
    /\ "recv" \in calls /\ conn[f].state = "up" /\ ~conn[f].fin /\ conn[f].sent < MaxCells
    /\ conn' = [conn EXCEPT ![f].sent = @ + 1, ![f].in = Append(@, conn[f].sent + 1)]
    /\ UNCHANGED <<calls, fds, reported, bindings, waiting, right, hist>>

PeerCloses == \E f \in Fd :
    /\ "recv" \in calls /\ conn[f].state = "up" /\ ~conn[f].fin
    /\ conn' = [conn EXCEPT ![f].fin = TRUE]
    /\ UNCHANGED <<calls, fds, reported, bindings, waiting, right, hist>>

SocketsNext ==
    \/ NewSocket \/ CloseSocket \/ Shutdown \/ Connect \/ ConnectEx \/ SetMode
    \/ Recv \/ RecvReturns \/ SendOverlapped \/ Associate \/ EnumEvents \/ Select
    \/ ConnectEnds \/ PeerSends \/ PeerCloses

SocketsSpec == SocketsInit /\ [][SocketsNext]_socketVars

-----------------------------------------------------------------------------
(* Properties.                                                              *)

\* The host's open descriptors are those of the table, each in one slot: none
\* is left open behind a full table and none is closed for another socket
\* (wg_winsock.c:103-130).
NoDescriptorLeaks ==
    /\ \A i, j \in Taken : fds[i] = fds[j] => i = j
    /\ {fds[i] : i \in Taken} = {f \in Fd : conn[f].state \notin {"none", "closed"}}

\* Every connection that the guest asked about when it was writable was reported,
\* once, unless an earlier socket used up the report of the slot, which closesocket
\* does not give back (wg_winsock.c:1053-1064).
ConnectionReportedOnce == \A f \in Fd :
    hist[f].told = IF hist[f].asked /\ hist[f].fresh THEN 1 ELSE 0

\* A completion carries the key its socket was associated with, unless an earlier
\* socket left an association in the slot or the table was full, and the number of
\* bytes its call moved, if the guest asked for it (wg_engine.c:8615-8661).
CompletionsTell == right

\* The guest gets what the peer sent in order, over any sizes of buffers and any
\* division of the stream (wg_winsock.c:919-957).
StreamInOrder == \A f \in Fd :
    hist[f].got \o conn[f].in = [k \in 1 .. conn[f].sent |-> k]

\* A receive waits in the host only on a socket the guest left blocking, or made so
\* by a ConnectEx: a connect does not change that (wg_winsock.c:330-366, 989-1021).
WaitsOnlyIfBlocking == ~Free => ~hist[fds[waiting.slot]].nonblock

\* What select told holds when the guest acts on it: a socket it called readable
\* does not let the next receive wait, one it called writable is no longer
\* connecting, and one it called exceptional has failed, not just reached the
\* end of its stream (wg_winsock.c:438-526).
SelectTells ==
    /\ ~Free => "read" \notin hist[fds[waiting.slot]].ready
    /\ \A f \in Fd : "write" \in hist[f].ready => conn[f].state # "connecting"
    /\ \A f \in Fd : "except" \in hist[f].ready => conn[f].state \in {"failed", "closed"}

\* Descriptors, connections, completions and data of the sockets are in step with
\* the host's (wg_winsock.c:103-1101).
SocketsConsistent ==
    /\ NoDescriptorLeaks /\ ConnectionReportedOnce /\ CompletionsTell
    /\ StreamInOrder /\ WaitsOnlyIfBlocking /\ SelectTells
=============================================================================
