------------------------------ MODULE NetAddr ------------------------------
(***************************************************************************)
(* Names and addresses of the guest's sockets (wg_winsock.c): what the host  *)
(* resolver answers is laid out in guest memory as Windows structures, and   *)
(* addresses are converted between the layout of Windows and that of the     *)
(* host on every call that takes or gives one.  Memory is counted in words   *)
(* of four bytes; a port is kept in network order, as the structures have it. *)
(***************************************************************************)
EXTENDS Integers, Sequences, SequencesExt, FiniteSetsExt

CONSTANTS
    HostNames,      \* names the guest looks up, as numbers
    LocalNames,     \* those that mean this machine: "", localhost, wineglass
    Resolver,       \* the host's answers to each name: a sequence of [fam, ip]
    NetPorts,       \* services
    GaiBases,       \* where s_gai_base is: low, and above a large 64-bit image
    GaiSize,        \* length of the region the engine maps there
    HostentAt,      \* HB of gethostbyname: in the low region, or in a large image
    SockaddrAt,     \* the guest's buffer for an address
    OneList,        \* TRUE: the guest frees a list before it asks for another
    MaxLookups      \* bound: lookups

VARIABLES
    netMem,     \* guest memory: the scratch region and the guest's buffer
    lookups,    \* lookups so far
    gaiBase,    \* s_gai_base
    wide,       \* the guest is a 64-bit program
    peer,       \* the host's socket: the address it was given, or NoPeer
    listed,     \* history: what the resolver answered to getaddrinfo, or NoList
    hostIp,     \* history: what it answered to gethostbyname, or 0
    target,     \* history: where the guest meant to go
    shown       \* history: the last getpeername: room, length and text printed

netVars == <<netMem, gaiBase, wide, lookups, peer, listed, hostIp, target, shown>>

Inet == 2           \* AF_INET, of both
WinInet6 == 23      \* AF_INET6 of Windows
HostInet6 == 30     \* AF_INET6 of the host
Loopback == 127
HostentWords == 32
NoPeer == <<>>
NoList == [answers |-> <<>>, port |-> 0]
NotShown == [room |-> 0, len |-> 0, text |-> <<>>]

ASSUME NetAssumption ==
    /\ \A n \in HostNames : \A k \in DOMAIN Resolver[n] :
          Resolver[n][k].fam = Inet \/ Resolver[n][k].fam = HostInet6
    /\ \A b \in GaiBases :
          /\ HostentAt \in b + 1 .. b + GaiSize - HostentWords \/ HostentAt + HostentWords <= b
          /\ b + GaiSize <= SockaddrAt

NetInit ==
    /\ gaiBase \in GaiBases /\ wide \in BOOLEAN
    /\ HostentAt < gaiBase => wide
    /\ netMem = [w \in (gaiBase .. gaiBase + GaiSize) \union (HostentAt .. HostentAt + HostentWords)
                            \union (SockaddrAt .. SockaddrAt + 6) |-> 0]
    /\ lookups = 0 /\ peer = NoPeer /\ listed = NoList /\ hostIp = 0
    /\ target = NoPeer /\ shown = NotShown

-----------------------------------------------------------------------------
(* Memory and the two layouts.                                              *)

Written(m, at, ws) == [w \in DOMAIN m |->
    IF w >= at /\ w < at + Len(ws) THEN ws[w - at + 1] ELSE m[w]]
WordAt(m, w) == IF w \in DOMAIN m THEN m[w] ELSE 0
WordsAt(m, at, n) == [k \in 1 .. n |-> WordAt(m, at + k - 1)]

\* htons, ntohs.
Htons(n) == (n % 256) * 256 + n \div 256

\* A word of two halves.
Halves(lo, hi) == lo + 65536 * hi
LowHalf(w) == w % 65536
WithLow(ws, lo) == [ws EXCEPT ![1] = Halves(lo, @ \div 65536)]

HostFamily(f) == IF f = WinInet6 THEN HostInet6 ELSE f
WinFamily(f) == IF f = HostInet6 THEN WinInet6 ELSE f

\* The host's sockaddr: a length byte and a family byte before the port.
HostAddr(a, port) == IF a.fam = Inet
    THEN <<Halves(16 + 256 * Inet, Htons(port)), a.ip[1], 0, 0>>
    ELSE <<Halves(28 + 256 * HostInet6, Htons(port)), 0>> \o a.ip \o <<0>>

\* write_sockaddr and getaddrinfo: two bytes of family instead.
ToWindows(ws) == WithLow(ws, WinFamily(LowHalf(ws[1]) \div 256))

\* read_sockaddr, of n words; what is no internet address keeps its bytes.
FromWindows(ws) ==
    LET f == LowHalf(ws[1])
        known == Inet = f \/ WinInet6 = f
        whole == [k \in 1 .. (IF f = Inet THEN 4 ELSE 7) |-> IF k <= Len(ws) THEN ws[k] ELSE 0]
    IN  IF ws = <<>> THEN NoPeer
        ELSE IF known THEN WithLow(whole, 4 * Len(whole) + 256 * HostFamily(f))
        ELSE WithLow(ws, 257 * (f % 256))

-----------------------------------------------------------------------------
(* Lookups: their structures are those of 32-bit guests, whatever the guest is. *)

\* Mutant of NextNode: every address is taken for an IPv4 one.
NextNodeShort(sa, len) == sa + 4

\* getaddrinfo: the next node follows the address.
NextNode(sa, len) == sa + len

\* One addrinfo with its address, laid out for a 32-bit guest; the one before is made to point to it.
AddNode(acc, a, port, last) ==
    LET sa == acc.ptr + 8
        words == ToWindows(HostAddr(a, port))
        next == IF last THEN 0 ELSE NextNode(sa, Len(words))
        node == <<0, WinFamily(a.fam), 1, 6, 4 * Len(words), 0, sa, next>>
        m == Written(Written(acc.mem, acc.ptr, node), sa, words)
    IN  [mem |-> IF acc.prev = 0 THEN m ELSE Written(m, acc.prev, <<acc.ptr>>),
         ptr |-> IF last THEN NextNode(sa, Len(words)) ELSE next,
         prev |-> acc.ptr + 7]

\* The list of all answers, from the start of the region.
List(m, answers, port) ==
    FoldLeft(LAMBDA acc, k : AddNode(acc, answers[k], port, k = Len(answers)),
             [mem |-> m, ptr |-> gaiBase, prev |-> 0], [k \in DOMAIN answers |-> k]).mem

\* getaddrinfo with a family in its hints, or 0.
GetAddrInfo(n, port, family) ==
    LET answers == SelectSeq(Resolver[n], LAMBDA a : family = 0 \/ a.fam = HostFamily(family)) IN
    /\ lookups < MaxLookups /\ lookups' = lookups + 1
    /\ OneList => listed = NoList
    /\ IF answers = <<>> THEN UNCHANGED <<netMem, listed>>
       ELSE /\ netMem' = List(netMem, answers, port)
            /\ listed' = [answers |-> SelectSeq(Resolver[n], LAMBDA a : family = 0 \/ WinFamily(a.fam) = family),
                          port |-> port]
    /\ UNCHANGED <<gaiBase, wide, peer, hostIp, target, shown>>

\* freeaddrinfo does nothing; the guest forgets the list.
FreeAddrInfo ==
    /\ listed # NoList /\ listed' = NoList
    /\ UNCHANGED <<netMem, gaiBase, wide, lookups, peer, hostIp, target, shown>>

\* gethostbyname asks for an IPv4 address, and takes the loopback if there is none.
HostIp(n) ==
    LET v4 == SelectSeq(Resolver[n], LAMBDA a : a.fam = Inet)
    IN  IF n \in LocalNames \/ v4 = <<>> THEN Loopback ELSE v4[1].ip[1]

\* The hostent: name, no aliases, a list of one address.
Hostent(m, n) ==
    LET he == <<HostentAt + 4, HostentAt + 24, Halves(Inet, 4), HostentAt + 26>>
        list == <<HostentAt + 30, 0>>
    IN  Written(Written(Written(Written(Written(m, HostentAt + 4, <<n>>), HostentAt + 24, <<0>>),
            HostentAt + 26, list), HostentAt + 30, <<HostIp(n)>>), HostentAt, he)

\* It is put at its fixed place, wherever the region is.
GetHostByName(n) ==
    /\ lookups < MaxLookups /\ lookups' = lookups + 1
    /\ netMem' = Hostent(netMem, n)
    /\ hostIp' = HostIp(n)
    /\ UNCHANGED <<gaiBase, wide, peer, listed, target, shown>>

-----------------------------------------------------------------------------
(* Calls that take or give an address.                                      *)

\* connect, bind: the socket gets n words at `at'.
GoTo(m, at, n, a, port) ==
    /\ peer = NoPeer
    /\ peer' = FromWindows(WordsAt(m, at, n))
    /\ netMem' = m
    /\ target' = HostAddr(a, port)
    /\ UNCHANGED <<gaiBase, wide, lookups, listed, hostIp, shown>>

\* How the guest finds node k of its list.
NodeAt(k) ==
    LET at[i \in 1 .. k] == IF i = 1 THEN gaiBase ELSE WordAt(netMem, at[i - 1] + 7)
    IN  at[k]

\* Only a 32-bit guest finds its way through what a lookup laid out.
GoToListed(k) ==
    /\ ~wide
    /\ LET node == NodeAt(k) IN
       GoTo(netMem, WordAt(netMem, node + 6), WordAt(netMem, node + 4) \div 4,
            listed.answers[k], listed.port)

\* The guest writes an address of its own into its buffer; ip are its words.
OwnAddr(fam, ip, port) == Written(netMem, SockaddrAt,
    IF fam = Inet THEN <<Halves(Inet, Htons(port))>> \o ip \o <<0, 0>>
                  ELSE <<Halves(WinInet6, Htons(port)), 0>> \o ip \o <<0>>)

\* With the first address of a hostent.
GoToHost(port) ==
    /\ hostIp # 0 /\ ~wide
    /\ LET ip == WordAt(netMem, WordAt(netMem, WordAt(netMem, HostentAt + 3)))
       IN  GoTo(OwnAddr(Inet, <<ip>>, port), SockaddrAt, 4, [fam |-> Inet, ip |-> <<hostIp>>], port)

\* inet_pton, inet_addr: the words of a printed address of the host family of af.
Parsed(text, af) == IF text.fam = HostFamily(af) THEN text.ip ELSE <<>>

\* With an address the guest has as text.
GoToText(text, port) ==
    LET af == WinFamily(text.fam)
        ip == Parsed(text, af)
    IN  GoTo(OwnAddr(af, ip, port), SockaddrAt, 3 + Len(ip), text, port)

\* inet_ntop, inet_ntoa: the text of the address that the buffer holds.
Printed(m) == IF LowHalf(m[SockaddrAt]) = Inet
    THEN [fam |-> HostFamily(Inet), ip |-> <<m[SockaddrAt + 1]>>]
    ELSE [fam |-> HostFamily(WinInet6), ip |-> WordsAt(m, SockaddrAt + 2, 4)]

\* getpeername, getsockname: as much as fits, and the whole length.  A guest that
\* gets all of it prints it and closes the socket.
GetPeerName(room) ==
    LET words == ToWindows(peer)
        m == Written(netMem, SockaddrAt, SubSeq(words, 1, Min({Len(words), room})))
    IN  /\ peer # NoPeer /\ shown = NotShown
        /\ netMem' = m
        /\ shown' = [room |-> room, len |-> Len(words),
                     text |-> IF room >= Len(words) THEN <<Printed(m)>> ELSE <<>>]
        /\ UNCHANGED <<gaiBase, wide, lookups, peer, listed, hostIp, target>>

CloseIt ==
    /\ shown # NotShown
    /\ shown' = NotShown /\ peer' = NoPeer /\ target' = NoPeer
    /\ UNCHANGED <<netMem, gaiBase, wide, lookups, listed, hostIp>>

NetNext ==
    \/ \E n \in HostNames, port \in NetPorts, f \in {0, Inet, WinInet6} : GetAddrInfo(n, port, f)
    \/ FreeAddrInfo
    \/ \E n \in HostNames : GetHostByName(n)
    \/ \E k \in DOMAIN listed.answers : GoToListed(k)
    \/ \E port \in NetPorts : GoToHost(port)
    \/ \E n \in HostNames, port \in NetPorts : \E k \in DOMAIN Resolver[n] : GoToText(Resolver[n][k], port)
    \/ \E room \in {4, 7} : GetPeerName(room)
    \/ CloseIt

NetSpec == NetInit /\ [][NetNext]_netVars

-----------------------------------------------------------------------------
(* Properties.                                                              *)

\* As long as it is not freed, a 32-bit guest's list leads through all of the resolver's
\* answers in their order, each with its family, its address and the service's
\* port, and ends there (wg_winsock.c:762-871), whatever was looked up by
\* gethostbyname meanwhile.
ListAsAnswered == ~wide /\ listed # NoList =>
    /\ \A k \in DOMAIN listed.answers :
        LET node == NodeAt(k)
            words == ToWindows(HostAddr(listed.answers[k], listed.port))
        IN  /\ WordAt(netMem, node + 1) = LowHalf(words[1])
            /\ WordAt(netMem, node + 4) = 4 * Len(words)
            /\ WordsAt(netMem, WordAt(netMem, node + 6), Len(words)) = words
    /\ WordAt(netMem, NodeAt(Len(listed.answers)) + 7) = 0

\* A 32-bit guest's hostent leads to the address that was resolved, and to its end
\* (wg_winsock.c:723-759), whatever getaddrinfo laid out meanwhile.
HostentAsAnswered == ~wide /\ hostIp # 0 =>
    LET list == WordAt(netMem, HostentAt + 3) IN
    /\ WordAt(netMem, WordAt(netMem, list)) = hostIp /\ WordAt(netMem, list + 1) = 0
    /\ WordAt(netMem, WordAt(netMem, HostentAt + 1)) = 0

\* The host's socket goes where the guest meant, whether it has the address from
\* a list or a hostent, if it is a 32-bit program, or from a text (wg_winsock.c:157-180).
GoesWhereMeant == peer = target

\* The guest is told the address its socket has, and prints it as the host would:
\* if it fits, whole, and if not, with the length it needs (wg_winsock.c:182-212).
PeerTold == shown # NotShown =>
    /\ shown.len = Len(target)
    /\ \A k \in DOMAIN shown.text :
          HostAddr(shown.text[k], Htons(target[1] \div 65536)) = target

\* A lookup of a large program is answered apart from it, unless it is by gethostbyname,
\* whose place is in the image then (wg_winsock.c:23-28, 738, 800; wg_engine.c:9530-9555).
ImageKept == HostentAt < gaiBase /\ hostIp = 0 =>
    \A w \in HostentAt .. HostentAt + HostentWords : netMem[w] = 0

\* Names and addresses mean the same to the guest and the host
\* (wg_winsock.c:157-286, 633-878).
NamesConsistent == ListAsAnswered /\ HostentAsAnswered /\ GoesWhereMeant /\ PeerTold /\ ImageKept
=============================================================================
