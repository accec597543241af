-------------------------------- MODULE Tls --------------------------------
(***************************************************************************)
(* TLS for the guest (wg_schannel.c): the SSPI calls over SecureTransport.   *)
(* The guest receives the server's stream and hands it over buffer by        *)
(* buffer; a session of SecureTransport eats it record by record, and keeps  *)
(* what it ate of a record that is not complete.                             *)
(***************************************************************************)
EXTENDS Integers, Sequences, FiniteSets, FiniteSetsExt

CONSTANTS
    MaxTls,         \* WG_MAX_TLS
    Peer,           \* the guest's connections
    Lengths,        \* lengths of messages the guest encrypts
    Overheads,      \* what a cipher adds to a message, without the record's header
    MaxHandles,     \* bound: handles given out
    MaxStream       \* bound: cells a server sends

ASSUME TlsAssumption ==
    /\ {MaxTls, MaxHandles, MaxStream} \subseteq Nat
    /\ Lengths \subseteq Nat /\ Overheads \subseteq Nat

VARIABLES
    tls,        \* ctx
    nextHandle, \* next_handle, from 1
    session,    \* SecureTransport's sessions, by the context handle made with them
    guest,      \* the guest's side of each connection
    creds,      \* the credentials the guest holds
    sealed,     \* the last message encrypted: its cells, those of the record made, and placed
    \* histories
    cut,        \* connections whose session was not fed the stream as it arrived
    robbed,     \* contexts whose slot another one took
    wasted      \* credentials freed before a context was made with them

tlsVars == <<tls, nextHandle, session, guest, creds, sealed, cut, robbed, wasted>>

TlsSlot == 0 .. MaxTls - 1
Handle == 1 .. MaxHandles
Inactive == [active |-> FALSE, cred |-> 0, ctx |-> 0, in |-> <<>>, done |-> FALSE]
NoSeal == [message |-> 0, made |-> 0, placed |-> 0]
NewGuest == [state |-> "new", ctx |-> 0, buf |-> <<>>, received |-> 0,
             heard |-> TRUE, alert |-> 0]
Record == 2     \* cells of a record
Shake == 2      \* cells of the server's part of the handshake

TlsInit ==
    /\ tls = [i \in TlsSlot |-> Inactive] /\ nextHandle = 1 /\ creds = {} /\ sealed = NoSeal
    /\ session = [h \in Handle |-> [open |-> FALSE, eaten |-> <<>>]]
    /\ guest = [p \in Peer |-> NewGuest]
    /\ cut = {} /\ robbed = {} /\ wasted = {}

Active == {i \in TlsSlot : tls[i].active}
Of(ctx) == {i \in Active : ctx # 0 /\ tls[i].ctx = ctx}     \* find_by_ctx_handle
FreeTls == TlsSlot \ Active
Upto(n) == [k \in 1 .. n |-> k]
From(s, k) == SubSeq(s, k + 1, Len(s))

\* AcquireCredentialsHandle takes a slot.
AcquireCredentials ==
    /\ nextHandle \in Handle /\ FreeTls # {}
    /\ tls' = [tls EXCEPT ![Min(FreeTls)] = [Inactive EXCEPT !.active = TRUE, !.cred = nextHandle]]
    /\ creds' = creds \union {nextHandle} /\ nextHandle' = nextHandle + 1
    /\ UNCHANGED <<session, guest, sealed, cut, robbed, wasted>>

\* FreeCredentialsHandle does nothing: the slot waits for its context's end.
FreeCredentials == \E c \in creds :
    /\ creds' = creds \ {c}
    /\ wasted' = IF \E i \in Active : tls[i].cred = c /\ tls[i].ctx = 0
                   THEN wasted \union {c} ELSE wasted
    /\ UNCHANGED <<tls, nextHandle, session, guest, sealed, cut, robbed>>

-----------------------------------------------------------------------------
(* The handshake.                                                           *)

\* Where a context is made: the slot of its credential, whatever it holds, or a
\* free one.
SlotsFor(cred) == LET of == {i \in Active : tls[i].cred = cred}
                  IN  IF of # {} THEN of ELSE FreeTls

\* SSLHandshake of session e with input `in': how much of it is eaten.
Shaken(e, in) == Min({Len(in), Shake - Len(e)})

\* The handshake of context h in slot c goes on with input `in'; `fed' says that this
\* is what the server answered it.  SSLHandshake eats its part and can fail; what is
\* behind it stays in the slot.  The token it makes gets to the server unless the
\* guest's buffer for it is missing or too small.
Handshake(p, i, c, h, in, ss, fed) ==
    LET e == ss[h].eaten
        k == Shaken(e, in)
        next == IF Len(e) + k < Shake THEN "shaking" ELSE IF fed THEN "up" ELSE "failed"
    IN  \E state \in {next, "failed"}, fits \in BOOLEAN :
            /\ session' = [ss EXCEPT ![h].eaten = @ \o SubSeq(in, 1, k)]
            /\ tls' = [tls EXCEPT ![i] = [c EXCEPT !.in = From(in, k), !.done = @ \/ state = "up"]]
            /\ guest' = [guest EXCEPT ![p].state = state, ![p].buf = <<>>, ![p].ctx = h,
                                      ![p].heard = @ /\ fits]
            /\ cut' = IF fed /\ k = Len(in) THEN cut ELSE cut \union {p}
            /\ UNCHANGED <<creds, sealed, wasted>>

\* InitializeSecurityContext without a context that is found, because this is the first
\* call or the slot was taken: a new handle and a new session in the slot of the
\* credential, which may hold another context and what that left of its input.
NewContext == \E p \in Peer, c \in creds :
    LET i == Min(SlotsFor(c))
        slot == IF tls[i].active THEN tls[i] ELSE [Inactive EXCEPT !.active = TRUE]
        first == guest[p].state = "new"
    IN  /\ \/ first
           \/ guest[p].state = "shaking" /\ Of(guest[p].ctx) = {} /\ guest[p].buf # <<>>
        /\ nextHandle \in Handle /\ SlotsFor(c) # {}
        /\ nextHandle' = nextHandle + 1
        /\ robbed' = IF slot.ctx # 0 THEN robbed \union {slot.ctx} ELSE robbed
        /\ Handshake(p, i, [slot EXCEPT !.ctx = nextHandle], nextHandle,
                     IF first THEN slot.in ELSE guest[p].buf,
                     [session EXCEPT ![nextHandle].open = TRUE], first /\ slot.in = <<>>)

\* InitializeSecurityContext with what the guest received as the token.
GoOn == \E p \in Peer : \E i \in Of(guest[p].ctx) :
    /\ guest[p].state = "shaking" /\ guest[p].buf # <<>>
    /\ Handshake(p, i, tls[i], tls[i].ctx, guest[p].buf, session, p \notin cut)
    /\ UNCHANGED <<nextHandle, robbed>>

\* Slot i when its context is deleted: it is free.
Deleted(i) == [tls[i] EXCEPT !.active = FALSE, !.in = <<>>]

\* DeleteSecurityContext
DeleteContext == \E p \in Peer :
    /\ guest[p].ctx # 0
    /\ guest' = [guest EXCEPT ![p].ctx = 0, ![p].state = "deleted"]
    /\ IF Of(guest[p].ctx) = {} THEN UNCHANGED <<tls, session>>
         ELSE /\ tls' = [i \in TlsSlot |-> IF i \in Of(guest[p].ctx)
                            THEN Deleted(i) ELSE tls[i]]
              /\ session' = [session EXCEPT ![guest[p].ctx].open = FALSE]
    /\ UNCHANGED <<nextHandle, creds, sealed, cut, robbed, wasted>>

-----------------------------------------------------------------------------
(* The data.                                                                *)

\* Some of the server's stream arrives, wherever it is cut.
Arrive == \E p \in Peer : LET g == guest[p] IN
    /\ g.state \in {"shaking", "up"} /\ g.heard
    /\ g.received < (IF g.alert # 0 THEN g.alert ELSE MaxStream)
    /\ guest' = [guest EXCEPT ![p].received = @ + 1, ![p].buf = Append(@, g.received + 1)]
    /\ UNCHANGED <<tls, nextHandle, session, creds, sealed, cut, robbed, wasted>>

\* The server's next record is its last, close_notify.
Goodbye == \E p \in Peer : LET g == guest[p] IN
    /\ g.state = "up" /\ g.heard /\ g.alert = 0
    /\ g.received % Record = 0 /\ g.received + Record <= MaxStream
    /\ guest' = [guest EXCEPT ![p].alert = g.received + Record]
    /\ UNCHANGED <<tls, nextHandle, session, creds, sealed, cut, robbed, wasted>>

\* What is missing of the record that a session is at, and where that record ends.
Need(e) == Record - (Len(e) % Record)
End(e) == Len(e) + Need(e)
\* The cells up to n are the stream's: a record that is not so fails its check.
Genuine(e, n) == SubSeq(e, 1, n) = Upto(n)
\* With input `in', that record can be opened.
Openable(e, in) == Need(e) <= Len(in) /\ Genuine(e \o in, End(e))

\* How much of its input SSLRead eats: of a record that it cannot open what there is,
\* else some records, or all there is; nothing once a record was not the stream's.
Eats(e, in) ==
    IF ~Genuine(e, Len(e) - (Len(e) % Record)) THEN {0}
    ELSE IF ~Openable(e, in) THEN {Min({Need(e), Len(in)})}
    ELSE {k \in Need(e) .. Len(in) : (Len(e) + k) % Record = 0 \/ k = Len(in)}

\* Mutant of Extra: what is left is not handed back.
ExtraNone(in, k) == <<>>

\* What DecryptMessage leaves of the input as SECBUFFER_EXTRA.
Extra(in, k) == From(in, k)

\* DecryptMessage of the guest's buffer, which replaces the slot's input.  When nothing
\* can be opened the answer is SEC_E_INCOMPLETE_MESSAGE, though the session has eaten
\* its input: the guest keeps its buffer, and hands it over again with what arrives.
Decrypt == \E p \in Peer : \E i \in Of(guest[p].ctx) :
    LET in == guest[p].buf
        e == session[tls[i].ctx].eaten
    IN  /\ tls[i].done /\ guest[p].state = "up" /\ in # <<>>
        /\ \E k \in Eats(e, in) :
            /\ session' = [session EXCEPT ![tls[i].ctx].eaten = @ \o SubSeq(in, 1, k)]
            /\ tls' = [tls EXCEPT ![i].in = From(in, k)]
            /\ IF Openable(e, in)
                 THEN /\ guest' = [guest EXCEPT ![p].buf = Extra(in, k),
                                ![p].state = IF End(e) = guest[p].alert THEN "expired" ELSE @]
                      /\ UNCHANGED cut
                 ELSE cut' = cut \union {p} /\ UNCHANGED guest
        /\ UNCHANGED <<nextHandle, creds, sealed, robbed, wasted>>

Header == 5         \* bytes of a record's header
Trailer == 32       \* bytes reserved for the trailer, of the guest's 36

\* EncryptMessage: how much of a record of Header + payload bytes ends up in the
\* guest's buffers, the one for data having the n bytes of the message.
Placed(n, payload) ==
    LET trailer == IF payload > Trailer THEN Trailer ELSE 0
    IN  Header + Min({n, payload - trailer}) + trailer

Encrypt == \E p \in Peer, n \in Lengths, o \in Overheads : \E i \in Of(guest[p].ctx) :
    /\ tls[i].done /\ guest[p].state = "up"
    /\ sealed' = [message |-> n, made |-> Header + n + o, placed |-> Placed(n, n + o)]
    /\ UNCHANGED <<tls, nextHandle, session, guest, creds, cut, robbed, wasted>>

TlsNext ==
    \/ AcquireCredentials \/ FreeCredentials \/ NewContext \/ GoOn \/ DeleteContext
    \/ Arrive \/ Goodbye \/ Decrypt \/ Encrypt

TlsSpec == TlsInit /\ [][TlsNext]_tlsVars

-----------------------------------------------------------------------------
(* Properties.                                                              *)

\* A context that the guest was given and has not deleted is found, by it alone, unless
\* another one was made with the same credential; no session stays open but behind
\* such a context (wg_schannel.c:107-124, 215-322).
ContextsKept ==
    /\ \A p \in Peer : guest[p].ctx \notin {0} \union robbed => Cardinality(Of(guest[p].ctx)) = 1
    /\ {h \in Handle : session[h].open} = ({tls[i].ctx : i \in Active} \ {0}) \union robbed

\* A slot that is in use is of a context or a credential that the guest has, or of a
\* credential that it freed unused (wg_schannel.c:185-212).
NoSlotLeft == \A i \in Active :
    \/ tls[i].cred \in creds \union wasted
    \/ \E p \in Peer : guest[p].ctx # 0 /\ guest[p].ctx = tls[i].ctx

\* As long as the guest hands over at least a record at a time, and handshake and data
\* apart, a session eats the server's stream in order and every cell of it once: what
\* it ate and what the guest still has is what arrived, and it is told of the end when
\* all was eaten (wg_schannel.c:250-262, 528-577).
StreamEatenOnce == \A p \in Peer \ cut : guest[p].ctx # 0 =>
    LET e == session[guest[p].ctx].eaten
    IN  /\ e \o guest[p].buf = Upto(guest[p].received)
        /\ guest[p].state = "expired" => e = Upto(guest[p].alert)

\* The record that was made is what the guest finds in its buffers, if it has more than
\* the trailer's bytes behind its header and the cipher added no more than those
\* (wg_schannel.c:469-497).
RecordPlaced ==
    sealed.made - Header \in Trailer + 1 .. Trailer + sealed.message => sealed.placed = sealed.made

\* Contexts, sessions and their streams belong together (wg_schannel.c:113-590).
TlsConsistent == ContextsKept /\ NoSlotLeft /\ StreamEatenOnce /\ RecordPlaced
=============================================================================
