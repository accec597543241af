-------------------------------- MODULE Http --------------------------------
(***************************************************************************)
(* The HTTP client behind WINHTTP (wg_winhttp.c): sessions, connections and  *)
(* requests in one table of handles, a connection of the host per request,   *)
(* and a body that arrives in pieces, the first of them with the headers.    *)
(***************************************************************************)
EXTENDS Integers, Sequences, FiniteSets, FiniteSetsExt

CONSTANTS
    MaxHttp,        \* WG_MAX_HTTP
    Host,           \* servers
    MaxRedirects,   \* redirects followed in one response
    Answers,        \* bound: what servers answer with
    MaxLinks,       \* bound: connections of the host
    MaxBody         \* bound: cells of a body

VARIABLES
    slots,      \* slots: the handles
    links,      \* the host's connections and what their servers still send
    busy,       \* the call under way: it follows a redirect, waits for a server, or has
                \* written past a buffer, behind which nothing is defined any more
    reply,      \* history of each request: the host it was opened for, the hosts meant and
                \* met last, whether its connect handle failed it, body, cells given
    left        \* history: the connections over which a request was sent again

httpVars == <<slots, links, busy, reply, left>>

HttpSlot == 0 .. MaxHttp - 1
Link == 1 .. MaxLinks
HttpFree == [type |-> "none"]
NoLink == 0
OfType(t) == {h \in HttpSlot : slots[h].type = t}
Requests == OfType("request")

Full == MaxBody         \* cells of a buffer of 65536 bytes: no read brings more
Unknown == -1

\* A response: redirected to a host by its name or by a path only, or a body of which
\* the length is announced, or the server closes when it is done, or it is sent in
\* chunks; a server that closes may do so early.  Or no headers come at all.
Nothing == [to |-> "nobody", body |-> 0, length |-> Unknown, closes |-> TRUE]
Responses ==
    [to : Host \union {"path"}, body : {0}, length : {0}, closes : {FALSE}] \union
    {r \in [to : {"here"}, body : 0 .. MaxBody, length : {Unknown} \union 0 .. MaxBody, closes : BOOLEAN] :
        r.length = Unknown \/ r.body <= r.length} \union {Nothing}

ASSUME HttpAssumption ==
    {MaxHttp, MaxRedirects, MaxLinks, MaxBody} \subseteq Nat /\ Answers \subseteq Responses

\* The server of response r sends what it announced, or closes.
Kept(r) == r.closes \/ r.length = r.body

Closed == [open |-> FALSE, answered |-> FALSE, answer |-> Nothing, rest |-> <<>>]
Body(n) == [k \in 1 .. n |-> k]
Idle == [handle |-> -1, with |-> "nothing"]
NoReply == [opened |-> "none", host |-> "none", met |-> "none", astray |-> FALSE, body |-> 0,
            given |-> <<>>, hops |-> 0, ended |-> FALSE]

HttpInit ==
    /\ slots = [h \in HttpSlot |-> HttpFree] /\ busy = Idle
    /\ links = [l \in Link |-> Closed]
    /\ reply = [h \in HttpSlot |-> NoReply] /\ left = {}

Running == busy = Idle
FreeHandles == {h \in HttpSlot : slots[h].type = "none"}

\* alloc_handle clears the slot it takes.
AllocHandle(fields) ==
    /\ FreeHandles # {}
    /\ slots' = [slots EXCEPT ![Min(FreeHandles)] = fields]

HttpOpen ==
    /\ Running /\ AllocHandle([type |-> "session"])
    /\ UNCHANGED <<links, busy, reply, left>>

HttpConnect == \E s \in OfType("session"), host \in Host :
    /\ Running /\ AllocHandle([type |-> "connect", session |-> s, server |-> host])
    /\ UNCHANGED <<links, busy, reply, left>>

NewRequest(c) ==
    [type |-> "request", connect |-> c, link |-> NoLink, headers |-> FALSE,
     buf |-> <<>>, pos |-> 0, cap |-> 0, length |-> Unknown, total |-> 0]

OpenRequest == \E c \in OfType("connect") :
    /\ Running /\ AllocHandle(NewRequest(c))
    /\ reply' = [reply EXCEPT ![Min(FreeHandles)] =
                     [NoReply EXCEPT !.opened = slots[c].server, !.host = slots[c].server]]
    /\ UNCHANGED <<links, busy, left>>

-----------------------------------------------------------------------------
(* Sending, and the response with its redirects.                            *)

FreshLinks(ls) == {l \in Link : ~ls[l].open}

\* Connections ls with a new one to a host that will answer with r; ls without l.
Opened(ls, r) ==
    [ls EXCEPT ![Min(FreshLinks(ls))] =
        [open |-> TRUE, answered |-> FALSE, answer |-> r, rest |-> Body(r.body)]]
Shut(ls, l) == IF l = NoLink THEN ls ELSE [ls EXCEPT ![l] = Closed]

\* SendRequest: it goes to the host that the handle in the connect handle's slot
\* names now, if that names one.  A failed send leaves the connection, and no answer
\* comes; with TLS a failed handshake leaves none.  A connection that the request had
\* is not closed.  The guest sends a request again only while it has no response.
SendRequest == \E h \in Requests :
    LET q == slots[h]
        c == slots[q.connect]
    IN  /\ Running /\ c.type = "connect" /\ ~q.headers
        /\ \/ \E r \in Answers :
                /\ FreshLinks(links) # {}
                /\ links' = Opened(links, r)
                /\ slots' = [slots EXCEPT ![h].link = Min(FreshLinks(links))]
           \/ /\ q.link # NoLink
              /\ slots' = [slots EXCEPT ![h].link = NoLink]
              /\ UNCHANGED links
        /\ left' = left \union ({q.link} \ {NoLink})
        /\ reply' = [reply EXCEPT ![h].host = reply[h].opened, ![h].met = c.server, ![h].ended = FALSE]
        /\ UNCHANGED busy

\* Mutant of Received: the cells that came with the headers are dropped.
ReceivedBare(q, r, n) ==
    [q EXCEPT !.headers = TRUE, !.buf = <<>>, !.cap = n, !.length = r.length]

\* Request q after http_receive_headers of r, with n cells of the body: the buffer is
\* as long as they are.
Received(q, r, n) ==
    [q EXCEPT !.headers = TRUE, !.buf = IF n > 0 THEN Body(n) ELSE @, !.cap = IF n > 0 THEN n ELSE @,
              !.length = r.length]

\* What a redirect clears.
Redirected(q, l) ==
    [q EXCEPT !.link = l, !.headers = FALSE, !.buf = <<>>, !.pos = 0, !.cap = 0,
              !.length = Unknown, !.total = 0]

\* The headers of the answer are the response.
TakeHeaders(h, r) == \E n \in 0 .. r.body :
    LET l == slots[h].link IN
    /\ slots' = [slots EXCEPT ![h] = Received(@, r, n)]
    /\ links' = [links EXCEPT ![l].rest = SubSeq(@, n + 1, Len(@)), ![l].answered = TRUE]
    /\ reply' = [reply EXCEPT ![h].body = r.body, ![h].hops = 0]
    /\ busy' = Idle

\* No headers, or none that can be read: the call fails and leaves the connection.
NoHeaders(h) ==
    /\ links' = [links EXCEPT ![slots[h].link].answered = TRUE]
    /\ reply' = [reply EXCEPT ![h].body = 0, ![h].hops = 0]
    /\ busy' = Idle
    /\ UNCHANGED slots

\* The host a redirect by path goes to: the one of the connect handle, whoever redirects.
Named(h) == LET c == slots[slots[h].connect] IN IF c.type = "connect" THEN c.server ELSE "none"

\* The answer names another host: it is asked, or cannot be reached.  The host that is
\* meant by a path is the one that answered.
Redirect(h, r) ==
    LET meant == IF r.to = "path" THEN reply[h].met ELSE r.to
        met == IF r.to = "path" THEN Named(h) ELSE r.to
        rest == Shut(links, slots[h].link)
    IN  \/ \E next \in Answers :
              /\ met # "none"
              /\ links' = Opened(rest, next)
              /\ slots' = [slots EXCEPT ![h] = Redirected(@, Min(FreshLinks(rest)))]
              /\ reply' = [reply EXCEPT ![h].host = meant, ![h].met = met, ![h].hops = @ + 1,
                               ![h].astray = @ \/ (r.to = "path" /\ meant # reply[h].opened)]
              /\ busy' = [handle |-> h, with |-> "redirect"]
        \/ /\ links' = rest
           /\ slots' = [slots EXCEPT ![h] = Redirected(@, NoLink)]
           /\ reply' = [reply EXCEPT ![h].hops = 0]
           /\ busy' = Idle

Answer(h) ==
    LET r == links[slots[h].link].answer
        stops == r.to = "here" \/ reply[h].hops >= MaxRedirects
    IN  /\ \/ r = Nothing /\ NoHeaders(h)
           \/ r # Nothing /\ stops /\ TakeHeaders(h, r)
           \/ r # Nothing /\ ~stops /\ Redirect(h, r)
        /\ UNCHANGED left

\* ReceiveResponse, once for what was sent, up to the first redirect; the next ones of
\* the same call.
ReceiveResponse == \E h \in Requests :
    /\ Running /\ slots[h].link # NoLink /\ ~links[slots[h].link].answered
    /\ Answer(h)

FollowRedirect == busy.with = "redirect" /\ Answer(busy.handle)

-----------------------------------------------------------------------------
(* The body.                                                                *)

Buffered(q) == SubSeq(q.buf, q.pos + 1, Len(q.buf))
AllGiven(q) == q.length # -1 /\ q.total >= q.length

\* The server of l has no more to say and keeps the connection open.
Silent(l) == links[l].rest = <<>> /\ ~links[l].answer.closes

Hang(h, why) == busy' = [handle |-> h, with |-> why]

\* An empty buffer is refilled from its start; one that is not there is made, with 65536
\* bytes, and the read is of as much whatever the buffer holds.
CapOf(q) == IF q.cap = 0 THEN Full ELSE q.cap
Refilled(q, n) == [q EXCEPT !.buf = SubSeq(links[q.link].rest, 1, n), !.pos = 0, !.cap = CapOf(q)]

\* QueryDataAvailable, after a response was asked for: an empty buffer is refilled
\* unless the announced length has been given.  At the end, and when the connection
\* fails, there is nothing more.  A refill the buffer does not hold is written over
\* what the host has behind it.
QueryDataAvailable == \E h \in Requests :
    LET q == slots[h]  l == q.link IN
    /\ Running /\ UNCHANGED left
    /\ IF l = NoLink \/ Buffered(q) # <<>> \/ AllGiven(q)
         THEN /\ Buffered(q) = <<>> /\ q.headers
              /\ reply' = [reply EXCEPT ![h].ended = l # NoLink]
              /\ UNCHANGED <<slots, links, busy>>
         ELSE /\ links[l].answered
              /\ \/ \E n \in 1 .. Len(links[l].rest) :
                       IF n <= CapOf(q)
                         THEN /\ slots' = [slots EXCEPT ![h] = Refilled(@, n)]
                              /\ links' = [links EXCEPT ![l].rest = SubSeq(@, n + 1, Len(@))]
                              /\ UNCHANGED <<busy, reply>>
                         ELSE Hang(h, "overrun") /\ UNCHANGED <<slots, links, reply>>
                 \/ /\ links[l].rest = <<>> /\ ~Silent(l)
                    /\ slots' = [slots EXCEPT ![h] = Refilled(@, 0)]
                    /\ reply' = [reply EXCEPT ![h].ended = TRUE]
                    /\ UNCHANGED <<links, busy>>
                 \/ Silent(l) /\ Hang(h, "server") /\ UNCHANGED <<slots, links, reply>>

Given(q, give, n) == [q EXCEPT !.pos = @ + give, !.total = @ + give + n]

\* What the guest was told there is: in the buffer, or left of the announced length.
Told(q, want) == want <= Len(Buffered(q)) \/ (q.length # Unknown /\ want <= q.length - q.total)

\* ReadData: from the buffer, and what is still wanted from one read of the
\* connection, however much of the announced length is left.
ReadData == \E h \in Requests, want \in 1 .. MaxBody + 1 :
    LET q == slots[h]  l == q.link
        give == Min({want, Len(Buffered(q))})
        cells(n) == SubSeq(Buffered(q), 1, give) \o SubSeq(links[l].rest, 1, n)
    IN  /\ Running /\ l # NoLink /\ links[l].answered /\ UNCHANGED left
        /\ \/ \E n \in IF want = give THEN {0}
                         ELSE IF links[l].rest = <<>> THEN {0} \ {IF Silent(l) THEN 0 ELSE 1}
                         ELSE 1 .. Min({want - give, Len(links[l].rest)}) :
                 /\ slots' = [slots EXCEPT ![h] = Given(@, give, n)]
                 /\ links' = [links EXCEPT ![l].rest = SubSeq(@, n + 1, Len(@))]
                 /\ reply' = [reply EXCEPT ![h].given = @ \o cells(n)]
                 /\ UNCHANGED busy
           \/ /\ want > give /\ Silent(l)
              /\ Hang(h, IF Told(q, want) THEN "server" ELSE "unannounced")
              /\ UNCHANGED <<slots, links, reply>>

\* The connections ls without the one of request q.
Released(ls, q) == IF q.type = "request" THEN Shut(ls, q.link) ELSE ls

\* CloseHandle: children are not looked at.
CloseHandle == \E h \in HttpSlot \ FreeHandles :
    /\ Running
    /\ slots' = [slots EXCEPT ![h] = HttpFree]
    /\ links' = Released(links, slots[h])
    /\ reply' = [k \in HttpSlot |-> IF k = h THEN NoReply
                    ELSE [reply[k] EXCEPT !.astray = @ \/ (k \in Requests /\ slots[k].connect = h)]]
    /\ UNCHANGED <<busy, left>>

HttpNext ==
    \/ HttpOpen \/ HttpConnect \/ OpenRequest \/ SendRequest \/ ReceiveResponse
    \/ FollowRedirect \/ QueryDataAvailable \/ ReadData \/ CloseHandle

HttpSpec == HttpInit /\ [][HttpNext]_httpVars

-----------------------------------------------------------------------------
(* Properties.                                                              *)

HttpTypeOK == \A h \in Requests :
    slots[h].pos \in 0 .. Len(slots[h].buf) /\ slots[h].total \in 0 .. MaxBody

\* The connections that are open are those of the requests, one each, and those over
\* which a request was sent again: neither redirects, failures nor closing leave
\* another one behind (wg_winhttp.c:545-560, 141-149).
LinksAccounted ==
    /\ \A h, k \in Requests : slots[h].link = slots[k].link => h = k \/ slots[h].link = NoLink
    /\ {l \in Link : links[l].open} = ({slots[h].link : h \in Requests} \ {NoLink}) \union left

\* The guest gets what the server sent in order and none of it twice, over any division
\* of it between the headers' read, refills that fit and reads (wg_winhttp.c:333-344,
\* 829-897).
BodyInOrder == \A h \in Requests :
    LET q == slots[h] IN
    q.headers => reply[h].given \o Buffered(q) \o links[q.link].rest = Body(reply[h].body)

\* That nothing more is available is only said when all was given that the server sent,
\* which is the whole body if it did not close early (wg_winhttp.c:829-856).
EndMeansEnd == \A h \in Requests : reply[h].ended => reply[h].given = Body(reply[h].body)

\* A request goes to the host of the handle it was opened on, or to the one it was
\* redirected to, unless that handle was closed before it, or a host it was redirected
\* to redirects by path (wg_winhttp.c:479-523, 592-602).
MeetsItsHost == \A h \in Requests : reply[h].astray \/ reply[h].met \in {"none", reply[h].host}

\* No call waits for a server that has sent what it announced, as long as the guest
\* reads what is available or announced (wg_winhttp.c:843-890).
NeverHangs == busy.with = "server" => ~Kept(links[slots[busy.handle].link].answer)

\* A buffer is written past only if it was made for what came with the headers, when
\* the server sent more than that (wg_winhttp.c:343-350, 838-847).
OverrunsAre == busy.with = "overrun" =>
    LET q == slots[busy.handle] IN q.headers /\ q.cap \in 1 .. reply[busy.handle].body - 1

\* What a server sends is read whole, in order and once, from the host that was asked,
\* over connections that are accounted for (wg_winhttp.c:112-914).
HttpConsistent ==
    /\ HttpTypeOK /\ LinksAccounted /\ BodyInOrder /\ EndMeansEnd
    /\ MeetsItsHost /\ NeverHangs /\ OverrunsAre
=============================================================================
