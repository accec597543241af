-------------------------------- MODULE Ring --------------------------------
(***************************************************************************)
(* The two rings of wg_engine.c: s_thread_msgs with tmsg_push and tmsg_pop, *)
(* s_completions with iocp_post and iocp_get.  An entry is [to, body], to a  *)
(* slot; the completions all go to slot 0, the one port.  One cell stays    *)
(* empty, so that head = tail means an empty ring.                          *)
(***************************************************************************)
EXTENDS Integers, Sequences, FiniteSets, FiniteSetsExt

CONSTANT Cap    \* WG_MAX_THREAD_MSGS, WG_MAX_COMPLETIONS

ASSUME CapAssumption == Cap \in Nat \ {0}

Cell == 0 .. Cap - 1
NoEntry == [to |-> -1, body |-> "none"]
EmptyRing == [cell |-> [i \in Cell |-> NoEntry], head |-> 0, tail |-> 0]

After(i) == (i + 1) % Cap

Used(r) == (r.tail - r.head) % Cap

\* The entries from head to tail.
Contents(r) == [k \in 1 .. Used(r) |-> r.cell[(r.head + k - 1) % Cap]]

RingFull(r) == After(r.tail) = r.head

\* tmsg_push, iocp_post: a full ring drops the entry.
Push(r, e) ==
    IF RingFull(r) THEN r
                   ELSE [r EXCEPT !.cell[r.tail] = e, !.tail = After(r.tail)]

\* iocp_get: the oldest entry.
DropHead(r) == [r EXCEPT !.head = After(r.head)]

For(r, t) == {k \in 1 .. Used(r) : Contents(r)[k].to = t}
HasFor(r, t) == For(r, t) # {}
OldestFor(r, t) == Contents(r)[Min(For(r, t))]

\* Mutant of PopFor: the entries behind the one taken stay where they are.
PopForInPlace(r, t) == [r EXCEPT !.tail = (r.tail - 1) % Cap]

\* tmsg_pop: the entries behind the one taken move down one cell.
PopFor(r, t) ==
    LET k == Min(For(r, t))
        Pos(i) == ((i - r.head) % Cap) + 1
        Moves(i) == Pos(i) \in k .. Used(r) - 1
    IN  [r EXCEPT !.cell = [i \in Cell |-> IF Moves(i) THEN r.cell[After(i)] ELSE r.cell[i]],
                  !.tail = (r.tail - 1) % Cap]
=============================================================================
