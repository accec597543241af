-------------------------------- MODULE Crt --------------------------------
(***************************************************************************)
(* The C runtime and string functions the engine answers natively            *)
(* (wg_try_crt, the lstr* and code-page handlers, memset / memcpy, the       *)
(* v*printf core) against the guest's memory.                                *)
(*                                                                           *)
(* ram is byte memory; a wide character is two bytes, low byte first, as is  *)
(* a pointer (addresses stay below 256).  A string that is read stops at the *)
(* end of the handler's buffer: Cap stands for 4096 (and for the sizes of the *)
(* smaller buffers), LCap for 1024, MaxOut for 8192 characters and PageBytes *)
(* for 4096.  Modulus stands for 2^32.                                       *)
(***************************************************************************)
EXTENDS Integers, FiniteSets, SequencesExt

CONSTANTS MemEnd, PageBytes, Cap, LCap, MaxOut, Modulus,
          MaxMove,          \* 64 MiB, the most that memcpy, memmove and memset do
          Memories,         \* what memory may hold when the guest starts
          Formats,          \* [wide, items, args] of the formatted prints
          Layouts,          \* objects with base classes
          Places, Lengths,  \* the addresses and counts the guest passes
          Is64,             \* the program is a 64-bit image
          OverlapUp,        \* the guest moves up, over a page boundary, within a block
          MaxRuntimeCalls

VARIABLES ram, ret, heapTop, last, runtimeCalls

crtVars == <<ram, ret, heapTop, last, runtimeCalls>>

Smaller(a, b) == Min({a, b})

CharAt(m, p, i, w) ==
    LET byte(a) == IF a \in DOMAIN m THEN m[a] ELSE 0
    IN  IF w = 1 THEN byte(p + i) ELSE byte(p + 2 * i) + 256 * byte(p + 2 * i + 1)

\* Characters that are not plain become question marks.
Plain(s) == [i \in DOMAIN s |-> IF s[i] < 128 THEN s[i] ELSE 63]

\* wg_read_cstr and wg_read_wstr: the characters before the terminator or the
\* end of the buffer.
ReadString(p, w, cap) ==
    LET ends == {n \in 0 .. cap - 1 : n = cap - 1 \/ CharAt(ram, p, n, w) = 0}
    IN  IF p = 0 THEN <<>> ELSE [i \in 1 .. Min(ends) |-> CharAt(ram, p, i - 1, w)]

\* Memory after the characters of s are written at p.
Written(m, p, s, w) ==
    [a \in DOMAIN m |->
        LET i == (a - p) \div w + 1
        IN  IF a < p \/ i > Len(s) THEN m[a]
            ELSE IF (a - p) % w = 0 THEN s[i] % 256 ELSE s[i] \div 256]

Measures == {"strlen", "strnlen", "wcslen", "lstrlenA", "lstrlenW"}
Compares == {"strcmp", "strncmp", "_stricmp", "_strnicmp", "wcscmp", "wcsncmp", "_wcsicmp", "_wcsnicmp",
             "lstrcmpW", "lstrcmpiW", "lstrcmpiA"}
Copies == {"strcpy", "wcscpy", "lstrcpyA", "lstrcpyW", "strncpy", "wcsncpy", "lstrcpynW", "strcat", "lstrcatW"}
Searches == {"strchr", "strrchr", "wcschr", "wcsrchr", "memchr", "strstr", "strpbrk", "strspn", "strcspn"}
Wide == {"wcslen", "wcscmp", "wcsncmp", "_wcsicmp", "_wcsnicmp", "wcschr", "wcsrchr", "wcscpy", "wcsncpy",
         "lstrlenW", "lstrcpyW", "lstrcpynW", "lstrcatW", "wcstol", "CharNextW", "CharPrevW"}
Width(fn) == IF fn \in Wide THEN 2 ELSE 1
Limit(fn) == IF fn \in {"lstrlenA", "lstrlenW", "lstrcpyA", "lstrcpyW", "lstrcpynW", "lstrcatW"} THEN LCap ELSE Cap
Letters(fn, p) == ReadString(p, Width(fn), Limit(fn))

Returns(fn, a, b, n, m, r) ==
    /\ runtimeCalls < MaxRuntimeCalls
    /\ runtimeCalls' = runtimeCalls + 1
    /\ last' = [fn |-> fn, a |-> a, b |-> b, n |-> n, before |-> ram]
    /\ ram' = m
    /\ ret' = r

LengthOf(fn, p, n) ==
    /\ LET len == Len(Letters(fn, p))
       IN  Returns(fn, p, 0, n, ram, IF fn = "strnlen" THEN Smaller(len, n) ELSE len)
    /\ UNCHANGED heapTop

Lower(c) == IF c \in 65 .. 90 THEN c + 32 ELSE c

\* strcmp and its relatives answer by the first difference; lstrcmp by "equal".
Compare(fn, p, q, n) ==
    /\ LET fold(c) == IF fn \in {"_stricmp", "_strnicmp", "_wcsicmp", "_wcsnicmp"} THEN Lower(c) ELSE c
           x == Append(Letters(fn, p), 0)
           y == Append(Letters(fn, q), 0)
           common == Smaller(Len(x), Len(y))
           most == IF fn \in {"strncmp", "_strnicmp", "wcsncmp", "_wcsnicmp"} THEN Smaller(n, common) ELSE common
           D == {i \in 1 .. most : fold(x[i]) # fold(y[i])}
       IN  Returns(fn, p, q, n, ram,
                   IF D = {} \/ fn \in {"lstrcmpW", "lstrcmpiW", "lstrcmpiA"} THEN 0
                   ELSE fold(x[Min(D)]) - fold(y[Min(D)]))
    /\ UNCHANGED heapTop

\* lstrcpynW that writes all of its room, whatever the source's length.
CopiedFull(fn, d, s, n) ==
    IF fn = "lstrcpynW" THEN [i \in 1 .. n |-> CharAt(ram, s, i - 1, 2)] ELSE Append(Letters(fn, s), 0)

\* strcpy pads nothing, strncpy to n, lstrcpyn stops before its n; strcat gives
\* up on what is too long for its buffer, lstrcatW cuts it.
Copied(fn, d, s, n) ==
    LET to == Letters(fn, d)
        from == Letters(fn, s)
        room == Smaller(Len(from), LCap - 2 - Len(to))
    IN  CASE fn \in {"strcpy", "wcscpy", "lstrcpyA", "lstrcpyW"} -> Append(from, 0)
          [] fn \in {"strncpy", "wcsncpy"} -> [i \in 1 .. n |-> IF i <= Len(from) THEN from[i] ELSE 0]
          [] fn = "lstrcpynW" -> Append(SubSeq(from, 1, Smaller(n - 1, Len(from))), 0)
          [] fn = "lstrcatW" -> Append(SubSeq(to, 1, Smaller(Len(to), LCap - 2)) \o SubSeq(from, 1, room), 0)
          [] fn = "strcat" -> LET first == ReadString(d, 1, 2 * Cap)
                              IN  IF Len(first) + Len(from) < 2 * Cap THEN first \o from \o <<0>> ELSE <<>>

CopyString(fn, d, s, n) ==
    /\ fn = "lstrcpynW" => n > 0
    /\ d + Width(fn) * Len(Copied(fn, d, s, n)) - 1 <= MemEnd
    /\ Returns(fn, d, s, n, Written(ram, d, Copied(fn, d, s, n), Width(fn)), d)
    /\ UNCHANGED heapTop

\* _strdup takes the copy from the guest's heap.
StrDup(p) ==
    LET copy == Append(Letters("_strdup", p), 0)
    IN  /\ heapTop + Len(copy) - 1 <= MemEnd
        /\ Returns("_strdup", p, 0, 0, Written(ram, heapTop, copy, 1), heapTop)
        /\ heapTop' = heapTop + Len(copy)

\* strchr, strrchr, memchr and their wide forms look for a character (the
\* terminator is one), strstr for a string, strpbrk for one of a set.
Search(fn, p, b, n) ==
    /\ LET s == IF fn = "strstr" THEN ReadString(p, 1, 2 * Cap) ELSE Letters(fn, p)
           set == ToSet(Letters(fn, b))
           whole == IF fn = "memchr" THEN [i \in 1 .. n |-> CharAt(ram, p, i - 1, 1)] ELSE Append(s, 0)
           needle == Letters(fn, b)
           hits == CASE fn = "strstr" -> {i \in 1 .. Len(s) + 1 - Len(needle) : SubSeq(s, i, i + Len(needle) - 1) = needle}
                     [] fn \in {"strpbrk", "strcspn"} -> {i \in 1 .. Len(s) : s[i] \in set}
                     [] fn = "strspn" -> {i \in 1 .. Len(s) : s[i] \notin set}
                     [] OTHER -> {i \in 1 .. Len(whole) : whole[i] = b}
           hit == IF fn \in {"strrchr", "wcsrchr"} THEN Max(hits) ELSE Min(hits)
       IN  Returns(fn, p, b, n, ram,
                   IF fn \in {"strspn", "strcspn"} THEN IF hits = {} THEN Len(s) ELSE hit - 1
                   ELSE IF hits = {} THEN 0 ELSE p + (hit - 1) * Width(fn))
    /\ UNCHANGED heapTop

\* strtol and wcstol: decimal digits, and where they end.
Number(fn, p, end) ==
    /\ LET s == Letters(fn, p)
           digits == Max({k \in 0 .. Len(s) : \A i \in 1 .. k : s[i] \in 48 .. 57})
           value[k \in 0 .. digits] == IF k = 0 THEN 0 ELSE 10 * value[k - 1] + s[k] - 48
           rest == <<p + digits * Width(fn)>> \o [i \in 1 .. (IF Is64 THEN 7 ELSE 3) |-> 0]
       IN  Returns(fn, p, end, 0, IF end = 0 THEN ram ELSE Written(ram, end, rest, 1), value[digits])
    /\ UNCHANGED heapTop

\* The characters a conversion takes: n of them, or with n < 0 the string and
\* its terminator; none from NULL.
Taken(p, w, n) ==
    LET s == ReadString(p, w, Cap)
    IN  IF p = 0 THEN <<>>
        ELSE IF n >= 0 THEN [i \in 1 .. Smaller(n, Cap - 1) |-> CharAt(ram, p, i - 1, w)]
        ELSE IF Len(s) < Cap - 1 THEN Append(s, 0) ELSE s

\* WideCharToMultiByte and MultiByteToWideChar: with no room they tell how much
\* they need, else they fill the room.
Convert(fn, src, n, dst, room) ==
    /\ LET toWide == fn = "MultiByteToWideChar"
           from == Taken(src, IF toWide THEN 1 ELSE 2, n)
           to == IF toWide THEN from ELSE Plain(from)
           given == IF room = 0 THEN <<>> ELSE SubSeq(to, 1, Smaller(room, Len(to)))
       IN  Returns(fn, src, dst, <<n, room>>, IF dst = 0 THEN ram ELSE Written(ram, dst, given, IF toWide THEN 2 ELSE 1),
                   IF room = 0 THEN Len(to) ELSE Len(given))
    /\ UNCHANGED heapTop

\* LCMapStringW, LCMapStringEx and (its test for it never holds) LCMapStringA
\* copy wide characters unmapped, as many as a buffer of 1024 bytes holds, and
\* tell that all were; a length that is given is believed.
LCMapString(src, n, dst, room) ==
    /\ LET len == IF n >= 0 \/ src = 0 THEN n ELSE Len(Taken(src, 2, n))
           copied == IF src = 0 THEN 0 ELSE Smaller(room, len)
           given == [i \in 1 .. Smaller(copied, Cap - 1) |-> CharAt(ram, src, i - 1, 2)]
       IN  Returns("LCMapStringW", src, dst, <<n, room>>, IF dst = 0 THEN ram ELSE Written(ram, dst, given, 2),
                   IF dst = 0 \/ room = 0 THEN len % Modulus ELSE copied)
    /\ UNCHANGED heapTop

\* CharNextA and CharNextW stop at the terminator, CharPrevW at the start.
CharStep(fn, start, p) ==
    /\ Returns(fn, start, p, 0, ram,
               IF fn = "CharPrevW" THEN IF p > start THEN p - 2 ELSE start
               ELSE IF CharAt(ram, p, 0, Width(fn)) = 0 THEN p ELSE p + Width(fn))
    /\ UNCHANGED heapTop

\* WGBlinkVM_MemCopy: page by page from the first, each page moved at once.
MemCopy(m, dst, src, n) ==
    LET starts == {k \in 0 .. n - 1 : k = 0 \/ (dst + k) % PageBytes = 0 \/ (src + k) % PageBytes = 0}
        end(k) == Min({n} \union {j \in starts : j > k})
        move(was, k) == Written(was, dst + k, [i \in 1 .. end(k) - k |-> CharAt(was, src + k, i - 1, 1)], 1)
    IN  FoldLeft(move, m, SetToSortSeq(starts, <))

Rises(dst, src, n) == /\ dst > src /\ dst < src + n
                      /\ src \div PageBytes # (dst + n - 1) \div PageBytes

\* More than MaxMove is not done at all, and answered like the rest.
Memory(fn, dst, b, n) ==
    /\ n <= MaxMove => dst + n - 1 <= MemEnd
    /\ fn = "memcpy" => b + n <= dst \/ dst + n <= b
    /\ fn = "memmove" /\ ~OverlapUp => ~Rises(dst, b, n)
    /\ Returns(fn, dst, b, n,
               IF n > MaxMove THEN ram
               ELSE IF fn = "memset" THEN Written(ram, dst, [i \in 1 .. n |-> b], 1) ELSE MemCopy(ram, dst, b, n), dst)
    /\ UNCHANGED heapTop

MemCmp(p, q, n) ==
    /\ LET D == {i \in 0 .. n - 1 : CharAt(ram, p, i, 1) # CharAt(ram, q, i, 1)}
       IN  Returns("memcmp", p, q, n, ram,
                   IF D = {} THEN 0 ELSE CharAt(ram, p, Min(D), 1) - CharAt(ram, q, Min(D), 1))
    /\ UNCHANGED heapTop

-----------------------------------------------------------------------------
(* The v*printf core.  A format is a sequence of items: a literal character    *)
(* [conv |-> "lit", c], or a directive [conv, mods, star]: what it converts,   *)
(* its length modifiers, and whether its width is an argument.  A number       *)
(* prints as the one character of its value.                                   *)

Numbers == {"d", "i", "u", "x", "X", "o", "f", "g", "e", "a"}

\* The arguments a directive takes.
ArgsTaken(d) == (IF d.star THEN 1 ELSE 0) + (IF d.conv \in Numbers \union {"p", "c", "C", "s", "S"} THEN 1 ELSE 0)

\* Which strings are wide depends on the function's own width and on h or l;
\* with S it is the other one.
ArgIsWide(wide, d) ==
    LET plain == IF wide THEN "h" \notin d.mods ELSE d.mods \intersect {"l", "w"} # {}
    IN  IF d.conv = "S" THEN ~plain ELSE plain

Padded(s, width) == [i \in 1 .. Max({0, width - Len(s)}) |-> 32] \o s

\* What a directive prints of the arguments that are left; strings ignore
\* their width.
Printed(wide, d, args) ==
    LET v == args[ArgsTaken(d)]
        width == IF d.star THEN args[1] ELSE 0
        whole == d.mods \intersect {"ll", "j", "z", "t", "I64"} # {} \/ d.conv \in {"f", "g", "e", "a"}
    IN  CASE d.conv \in Numbers -> Padded(<<IF whole THEN v ELSE v % Modulus>>, width)
          [] d.conv = "p" -> <<48, 120, v>>
          [] d.conv \in {"c", "C"} -> <<v % 256>>
          [] d.conv \in {"s", "S"} ->
                Plain(ReadString(v, IF ArgIsWide(wide, d) THEN 2 ELSE 1, Cap))

\* The items one after another, each taking its arguments off the list
\* (wg_va_next), into a buffer of MaxOut.
Output(f) ==
    LET item(o, d) ==
            LET text == IF d.conv = "lit" THEN <<d.c>> ELSE Printed(f.wide, d, o.args)
            IN  [text |-> SubSeq(o.text \o text, 1, Smaller(Len(o.text \o text), MaxOut - 1)),
                 args |-> IF d.conv = "lit" THEN o.args ELSE SubSeq(o.args, ArgsTaken(d) + 1, Len(o.args))]
    IN  FoldLeft(item, [text |-> <<>>, args |-> f.args], f.items).text

\* wg_guest_vsprintf: the buffer takes what fits with its terminator, and the
\* whole length is returned.
Format(f, buf, count) ==
    /\ LET out == Output(f)
           kept == Append(SubSeq(out, 1, Smaller(Len(out), count - 1)), 0)
       IN  Returns("vsprintf", f, buf, count,
                   IF buf = 0 \/ count = 0 THEN ram ELSE Written(ram, buf, kept, IF f.wide THEN 2 ELSE 1), Len(out))
    /\ UNCHANGED heapTop

-----------------------------------------------------------------------------
(* Run-time type information.  A layout says where the parts of an object of   *)
(* several base classes lie: at[t] is the offset of base t, virtual[t] that    *)
(* its place is looked up in the table of virtual bases the object points to   *)
(* at vbptr, from is the part the guest's pointer points to.                   *)

\* What the compiler leaves for __RTDynamicCast: the array of base classes.
BaseClasses(l) ==
    [k \in DOMAIN l.order |->
        LET t == l.order[k]
        IN  IF l.virtual[t] THEN [type |-> t, mdisp |-> 0, pdisp |-> l.vbptr, vdisp |-> k]
            ELSE [type |-> t, mdisp |-> l.at[t], pdisp |-> -1, vdisp |-> 0]]
VirtualBases(l) == [k \in DOMAIN l.order |-> l.at[l.order[k]] - l.vbptr]

\* __RTDynamicCast: the first entry of the type wanted, from the whole object.
DynamicCast(l, obj, type) ==
    LET complete == obj - l.at[l.from]
        bases == BaseClasses(l)
        found == {k \in DOMAIN bases : bases[k].type = type}
        b == bases[Min(found)]
    IN  IF obj = 0 \/ found = {} THEN 0
        ELSE complete + b.mdisp + (IF b.pdisp < 0 THEN 0 ELSE b.pdisp + VirtualBases(l)[b.vdisp])

Cast(l, obj, type) ==
    /\ Returns("__RTDynamicCast", l, obj, type, ram, DynamicCast(l, obj, type))
    /\ UNCHANGED heapTop

-----------------------------------------------------------------------------
CrtInit ==
    /\ ram \in Memories
    /\ ret = 0 /\ runtimeCalls = 0
    /\ heapTop = MemEnd - 11
    /\ last = [fn |-> "none", a |-> 0, b |-> 0, n |-> 0, before |-> ram]

\* The counts worth passing to fn.
Counts(fn) == IF fn \in {"strnlen", "strncmp", "_strnicmp", "wcsncmp", "_wcsnicmp", "strncpy", "wcsncpy",
                         "lstrcpynW", "memchr"} THEN Lengths ELSE {0}

CrtNext ==
    \/ \E fn \in Measures, p \in Places : \E n \in Counts(fn) : LengthOf(fn, p, n)
    \/ \E fn \in Compares, p, q \in Places : \E n \in Counts(fn) : Compare(fn, p, q, n)
    \/ \E fn \in Copies, d, s \in Places \ {0} : \E n \in Counts(fn) : CopyString(fn, d, s, n)
    \/ \E fn \in Searches, p \in Places \ {0} :
          \E b \in (IF fn \in {"strstr", "strpbrk", "strspn", "strcspn"} THEN Places ELSE {0, 97}), n \in Counts(fn) :
             Search(fn, p, b, n)
    \/ \E p \in Places \ {0} : StrDup(p)
    \/ \E fn \in {"strtol", "wcstol"}, p, end \in Places : Number(fn, p, end)
    \/ \E fn \in {"WideCharToMultiByte", "MultiByteToWideChar"}, src, dst \in Places, n, room \in Lengths \union {-1} :
          room >= 0 /\ Convert(fn, src, n, dst, room)
    \/ \E src, dst \in Places, n, room \in Lengths \union {-1, Cap} : room >= 0 /\ LCMapString(src, n, dst, room)
    \/ \E fn \in {"CharNextA", "CharNextW", "CharPrevW"}, start, p \in Places \ {0} : CharStep(fn, start, p)
    \/ \E fn \in {"memcpy", "memmove", "memset"}, dst, b \in Places \ {0}, n \in Lengths \union {MaxMove + 1} : Memory(fn, dst, b, n)
    \/ \E p, q \in Places \ {0}, n \in Lengths : MemCmp(p, q, n)
    \/ \E f \in Formats, buf \in Places, n \in Lengths : Format(f, buf, n)
    \/ \E l \in Layouts : \E obj \in Places, type \in UNION {DOMAIN k.at : k \in Layouts} : Cast(l, obj, type)

CrtSpec == CrtInit /\ [][CrtNext]_crtVars

-----------------------------------------------------------------------------
(* What the C standard and the Windows documentation promise, of the memory    *)
(* before the call, for strings that the handlers' buffers hold.               *)

Ends(m, p, w) == Min({i \in 0 .. MemEnd : CharAt(m, p, i, w) = 0})
Chars(m, p, w) == [i \in 1 .. Ends(m, p, w) |-> CharAt(m, p, i - 1, w)]
HasRoom(p) == Ends(last.before, p, Width(last.fn)) < Limit(last.fn)
Changed == {a \in DOMAIN ram : ram[a] # last.before[a]}
Into(dst, bytes) == Changed \subseteq dst .. dst + bytes - 1

\* The length of a string is the place of its terminator.
LengthsRight ==
    last.fn \in Measures /\ HasRoom(last.a) =>
        ret = Min({Ends(last.before, last.a, Width(last.fn))} \union (IF last.fn = "strnlen" THEN {last.n} ELSE {}))

\* Comparisons order strings (wg_engine.c:2990-2994, 3008-3016), lstrcmp* apart.
ComparesRight ==
    last.fn \in Compares \ {"lstrcmpW", "lstrcmpiW", "lstrcmpiA"} /\ HasRoom(last.a) /\ HasRoom(last.b) =>
        LET w == Width(last.fn)
            bound == IF Counts(last.fn) = {0} THEN MemEnd ELSE last.n
            at(p, i) == LET c == CharAt(last.before, p, i, w)
                        IN  IF last.fn \in {"_stricmp", "_strnicmp", "_wcsicmp", "_wcsnicmp"} THEN Lower(c) ELSE c
            before(p, q) == \E i \in 0 .. bound - 1 :
                               /\ at(p, i) < at(q, i)
                               /\ \A j \in 0 .. i - 1 : at(p, j) = at(q, j) /\ at(p, j) # 0
        IN  (ret < 0 <=> before(last.a, last.b)) /\ (ret > 0 <=> before(last.b, last.a))

\* A copy is the string, is terminated where C says, and touches nothing behind.
CopiesRight ==
    /\ last.fn = "_strdup" /\ HasRoom(last.a) =>
        Chars(ram, ret, 1) = Chars(last.before, last.a, 1) /\ Into(ret, heapTop - ret)
    /\ last.fn \in Copies /\ HasRoom(last.a) /\ HasRoom(last.b) =>
        LET w == Width(last.fn)
            was == Chars(last.before, last.a, w)
            from == Chars(last.before, last.b, w)
            now == Chars(ram, last.a, w)
        IN  CASE last.fn \in {"strcpy", "wcscpy", "lstrcpyA", "lstrcpyW"} ->
                    now = from /\ Into(last.a, w * (Len(from) + 1))
              [] last.fn \in {"strncpy", "wcsncpy"} ->
                    /\ Into(last.a, w * last.n)
                    /\ \A i \in 1 .. last.n : CharAt(ram, last.a, i - 1, w) = IF i <= Len(from) THEN from[i] ELSE 0
              [] last.fn = "lstrcpynW" ->
                    now = SubSeq(from, 1, Smaller(last.n - 1, Len(from))) /\ Into(last.a, w * last.n)
              [] OTHER -> Len(was) + Len(from) <= Limit(last.fn) - 2 =>
                    now = was \o from /\ Into(last.a + w * Len(was), w * (Len(from) + 1))

\* A search returns the first (or last) place with what it looks for, or none
\* where there is none; spans stop at the first character that ends them.
SearchesRight ==
    last.fn \in Searches /\ HasRoom(last.a) =>
        LET w == Width(last.fn)
            m == last.before
            len == IF last.fn = "memchr" THEN last.n - 1 ELSE Ends(m, last.a, w)
            set == ToSet(Chars(m, last.b, 1))
            is(i) == CASE last.fn = "strstr" -> \A j \in 1 .. Len(Chars(m, last.b, 1)) :
                                                  CharAt(m, last.a, i + j - 1, 1) = Chars(m, last.b, 1)[j]
                       [] last.fn \in {"strpbrk", "strcspn"} -> CharAt(m, last.a, i, 1) \in set
                       [] last.fn = "strspn" -> CharAt(m, last.a, i, 1) \notin set
                       [] OTHER -> CharAt(m, last.a, i, w) = last.b
            found == {i \in 0 .. len : is(i)}
            counts == last.fn \in {"strspn", "strcspn"}
        IN  CASE counts -> ret = Min(found \union {len})
              [] ret = 0 -> found = {}
              [] last.fn \in {"strrchr", "wcsrchr"} -> (ret - last.a) \div w = Max(found)
              [] OTHER -> (ret - last.a) \div w = Min(found)

\* A conversion needs what it says it needs, gives the string with its
\* terminator when it has that room, and never writes past its room; a number
\* ends at the first character that is none of its digits, and its end pointer
\* is as wide as the program's pointers.
ConversionsRight ==
    LET m == last.before
        toWide == last.fn = "MultiByteToWideChar"
        w == IF toWide THEN 1 ELSE 2
        w2 == IF last.fn = "WideCharToMultiByte" THEN 1 ELSE 2
        from == Chars(m, last.a, w)
    IN  /\ last.fn \in {"WideCharToMultiByte", "MultiByteToWideChar", "LCMapStringW"} /\ Len(from) < Cap - 1 =>
            /\ Into(last.b, w2 * last.n[2])
            /\ last.n[1] = -1 /\ last.n[2] > Len(from) /\ last.b # 0 /\ last.a # 0 /\ last.b + w2 * last.n[2] <= MemEnd =>
                 /\ ret = Len(from) + 1
                 /\ Chars(ram, last.b, w2) = IF w2 = 2 THEN from ELSE Plain(from)
            /\ last.n = <<-1, 0>> /\ last.a # 0 => ret = Len(from) + 1
        /\ last.fn \in {"strtol", "wcstol"} /\ HasRoom(last.a) /\ last.b # 0 =>
            /\ Into(last.b, IF Is64 THEN 8 ELSE 4)
            /\ CharAt(m, ram[last.b], 0, Width(last.fn)) \notin 48 .. 57
            /\ \A i \in 0 .. (ram[last.b] - last.a) \div Width(last.fn) - 1 : CharAt(m, last.a, i, Width(last.fn)) \in 48 .. 57

\* memmove is right for any regions, memcpy for regions apart (the comment on
\* WGBlinkVM_MemCopy: "memmove handles overlap"), up to MaxMove bytes.
MovesRight ==
    last.fn \in {"memcpy", "memmove", "memset"} /\ last.n <= MaxMove =>
        \A a \in DOMAIN ram :
            ram[a] = IF a \notin last.a .. last.a + last.n - 1 THEN last.before[a]
                     ELSE IF last.fn = "memset" THEN last.b ELSE CharAt(last.before, last.b, a - last.a, 1)

\* The n-th directive prints the n-th argument, the widths that are arguments
\* counted, whatever kinds come before it; what is returned is the whole
\* length, so that a second try with that much room gets everything; no
\* character is written past the room.
FormatsRight ==
    last.fn = "vsprintf" =>
        LET f == last.a
            m == last.before
            w == IF f.wide THEN 2 ELSE 1
            taken(k) == FoldLeft(LAMBDA sum, d : sum + (IF d.conv = "lit" THEN 0 ELSE IF d.star THEN 2 ELSE 1), 0,
                                 SubSeq(f.items, 1, k))
            value(k) == f.args[taken(k)]
            wideArg(d) == IF "h" \in d.mods THEN FALSE ELSE IF "l" \in d.mods THEN TRUE
                          ELSE f.wide = (d.conv = "s")
            text(k) == LET d == f.items[k]
                       IN  CASE d.conv = "lit" -> <<d.c>>
                             [] d.conv = "c" -> <<value(k)>>
                             [] d.conv \in {"s", "S"} -> Plain(Chars(m, value(k), IF wideArg(d) THEN 2 ELSE 1))
                             [] d.star -> Padded(<<value(k) % Modulus>>, f.args[taken(k) - 1])
                             [] "ll" \in d.mods -> <<value(k)>>
                             [] OTHER -> <<value(k) % Modulus>>
            all == FoldLeft(LAMBDA s, k : s \o text(k), <<>>, [k \in DOMAIN f.items |-> k])
        IN  Len(all) < MaxOut =>
            /\ ret = Len(all)
            /\ Into(last.b, w * last.n)
            /\ last.b # 0 /\ last.n > 0 => Chars(ram, last.b, w) = SubSeq(all, 1, Smaller(last.n - 1, Len(all)))

\* A cast leads to the part of the object that has the type, or nowhere.
CastsRight ==
    last.fn = "__RTDynamicCast" /\ last.b # 0 =>
        LET l == last.a
        IN  ret = IF last.n \in DOMAIN l.at THEN last.b - l.at[l.from] + l.at[last.n] ELSE 0

\* What the natively answered functions compute is what C and Windows promise
\* (wg_engine.c:2764-3201, 5255-5336, 5836-5998, 6168-6231,
\* wg_blink_impl.c:483-505).
RuntimeConsistent ==
    /\ LengthsRight /\ ComparesRight /\ CopiesRight /\ SearchesRight /\ ConversionsRight
    /\ MovesRight /\ FormatsRight /\ CastsRight
=============================================================================
