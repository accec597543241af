----------------------------- MODULE MCGuestIO -----------------------------
(***************************************************************************)
(* The guest's files, sockets, HTTP requests, TLS contexts and names share   *)
(* no state and the handlers run one at a time, so an instance of each is    *)
(* checked by itself: the behaviours of this module are those of its parts.  *)
(***************************************************************************)
EXTENDS Files, Sockets, Http, Tls, NetAddr

VARIABLE part       \* the part that runs

mcProgramsOfSockets == {
    {"closesocket", "connect", "WSAEnumNetworkEvents"},
    {"connect", "shutdown", "recv", "closesocket"},
    {"connect", "ConnectEx", "WSASend", "CreateIoCompletionPort", "closesocket"},
    {"recv", "connect", "ioctlsocket"},
    {"recv", "ConnectEx", "ioctlsocket"},
    {"recv", "connect", "CreateIoCompletionPort"},
    {"recv", "connect", "select"},
    {"connect", "select", "ioctlsocket"} }

Sends(body, length, closes) == [to |-> "here", body |-> body, length |-> length, closes |-> closes]
Elsewhere(to) == [to |-> to, body |-> 0, length |-> 0, closes |-> FALSE]
\* Redirects; a body announced, ended by closing, cut short, promised and not sent, in
\* chunks, and empty; no answer.
mcAnswers == {Elsewhere("y"), Elsewhere("path"), Sends(2, 2, FALSE), Sends(2, Unknown, TRUE),
    Sends(1, 2, TRUE), Sends(1, 2, FALSE), Sends(2, Unknown, FALSE), Sends(0, 0, FALSE), Nothing}

AddrV4(n) == [fam |-> Inet, ip |-> <<n>>]
AddrV6(n) == [fam |-> HostInet6, ip |-> <<n, n + 1, n + 2, n + 3>>]
\* One address, both families twice over, and a name of this machine.
mcResolver == [n \in 1 .. 3 |->
    <<<<AddrV4(11)>>, <<AddrV6(31), AddrV6(41), AddrV4(12)>>, <<>>>>[n]]

\* Bound: what was asked of a file that the streams do not do is the last that is asked
\* of it before its handles are closed, and no other is open then.
mcOneSpoilt ==
    /\ {files'[i].path : i \in InUse'} \subseteq spoilt' \/ {files'[i].path : i \in InUse'} \cap spoilt' = {}
    /\ \A i \in InUse : files[i].path \in spoilt => files'[i] \in {files[i], Unused}
    /\ \A i \in InUse' \ InUse : files'[i].path \notin spoilt

\* Bound: configuration files are there.
mcConfigured == \A p \in Config : disk'[p] # Absent

\* Bound: in a program that closes sockets the peer of one of them sends.
mcOneSender == "closesocket" \in calls =>
    \A f, g \in Fd : conn'[f].sent > 0 /\ conn'[g].sent > 0 => f = g

\* Bound: the first session is kept.
mcOneSession == slots[0].type # "none" => slots'[0].type # "none"

\* Bound: the connection that begins first gets data, and seals a message before that,
\* as the last step; the streams are bounded together.
mcOneStream ==
    /\ guest'[1].state = "new" => \A p \in Peer : guest'[p].state = "new"
    /\ \A p \in Peer \ {1} : guest'[p].received \in 0 .. Min({Shake, MaxStream - guest'[1].received})
    /\ sealed = NoSeal /\ (sealed' # NoSeal => guest[1].received = Shake)

Init ==
    /\ part \in {"files", "sockets", "http", "tls", "names"}
    /\ FilesInit /\ SocketsInit /\ HttpInit /\ TlsInit /\ NetInit
    /\ IF part = "files" THEN \A p \in Config : disk[p] # Absent ELSE disk = [p \in Path |-> Absent]
    /\ part = "sockets" \/ calls = CHOOSE c \in Programs : TRUE
    /\ part # "names" => wide /\ gaiBase = CHOOSE b \in GaiBases : TRUE

Next ==
    \/ part = "files" /\ FilesNext /\ mcOneSpoilt /\ mcConfigured /\ UNCHANGED <<part, socketVars, httpVars, tlsVars, netVars>>
    \/ part = "sockets" /\ SocketsNext /\ mcOneSender /\ UNCHANGED <<part, fileVars, httpVars, tlsVars, netVars>>
    \/ part = "http" /\ HttpNext /\ mcOneSession /\ UNCHANGED <<part, fileVars, socketVars, tlsVars, netVars>>
    \/ part = "tls" /\ TlsNext /\ mcOneStream /\ UNCHANGED <<part, fileVars, socketVars, httpVars, netVars>>
    \/ part = "names" /\ NetNext /\ UNCHANGED <<part, fileVars, socketVars, httpVars, tlsVars>>

Spec == Init /\ [][Next]_<<part, fileVars, socketVars, httpVars, tlsVars, netVars>>
=============================================================================
