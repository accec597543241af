------------------------------- MODULE MCCrt -------------------------------
(* Memories, formats and objects for Crt.  Strings start at 3 and 8, a page   *)
(* ends at 8, and the heap is at 21.                                           *)
EXTENDS Crt

Filled(s) == [a \in 1 .. 32 |-> IF a > 2 /\ a - 2 <= Len(s) THEN s[a - 2] ELSE 0]
mcMemories == {
    Filled(<<97, 66, 0, 0, 0, 97, 98, 97, 0>>),
    Filled(<<97, 0, 65, 0, 0, 97, 0, 97, 0, 98, 0, 0, 0>>),
    Filled(<<49, 50, 97, 97, 97, 97, 97, 97, 97, 0>>),
    Filled(<<49, 0, 49, 0, 0, 0, 1, 97, 0, 0, 0>>) }

Lit(c) == [conv |-> "lit", c |-> c]
Dir(conv, mods, star) == [conv |-> conv, mods |-> mods, star |-> star]
Fmt(wide, items, args) == [wide |-> wide, items |-> items, args |-> args]
mcFormats == {
    Fmt(FALSE, <<Dir("d", {}, TRUE), Lit(97), Dir("s", {}, FALSE), Dir("u", {"ll"}, FALSE)>>, <<2, 17, 8, 18>>),
    Fmt(TRUE, <<Dir("s", {}, FALSE), Dir("s", {"h"}, FALSE), Dir("S", {}, FALSE)>>, <<8, 3, 3>>),
    Fmt(FALSE, <<Dir("s", {"l"}, TRUE), Dir("S", {}, FALSE), Dir("c", {}, FALSE)>>, <<1, 8, 3, 65>>) }

Layout(at, virtual, order, from) ==
    [at |-> at, virtual |-> [t \in DOMAIN at |-> t \in virtual], order |-> order, from |-> from, vbptr |-> 1]
mcLayouts == {
    Layout([D |-> 0, B |-> 0, C |-> 2], {}, <<"D", "B", "C">>, "D"),
    Layout([D |-> 0, B |-> 0, C |-> 2, V |-> 3], {"V"}, <<"D", "B", "V", "C">>, "C"),
    Layout([B |-> 0], {}, <<"B">>, "B") }
=============================================================================
