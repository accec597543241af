------------------------------- MODULE Heap64 -------------------------------
(***************************************************************************)
(* Region 3 of the guest's memory (wg_engine.c): where VirtualAlloc puts    *)
(* the large pools of a 64-bit guest.  Addresses and sizes are in pages.    *)
(* The two tables are sets: their order decides only which of several equal *)
(* free blocks is taken, and any of them is.                                *)
(***************************************************************************)
EXTENDS Integers, FiniteSets

CONSTANTS
    Base64, End64,  \* WG_HEAP64_BASE, WG_HEAP64_END
    Granule,        \* the allocation granularity, 64 KB
    MaxAlloc64,     \* WG_MAX_ALLOC64
    Sizes           \* sizes the guest asks for

ASSUME Heap64Assumption ==
    /\ {Base64, End64, MaxAlloc64} \subseteq Nat /\ Granule \in Nat \ {0}
    /\ Sizes \subseteq Nat \ {0}

VARIABLES
    ptr64,      \* s_heap64_ptr
    alloc64,    \* s_alloc64: the allocations the engine knows
    free64,     \* s_free64
    committed,  \* s_commit_bm
    content,    \* what each page holds: zeros, or anything else
    live64,     \* history: the blocks the guest holds
    expect      \* history: what Windows has each page hold, if it is specified

tables64 == <<ptr64, alloc64, free64, live64>>
pages64 == <<committed, content, expect>>
vars64 == <<tables64, pages64>>

Page64 == Base64 .. End64 - 1
Block(a, n) == [addr |-> a, size |-> n]
Pages(a, n) == a .. a + n - 1
Overlap(b, c) == b.addr < c.addr + c.size /\ c.addr < b.addr + b.size

AlignUp(p) == ((p + Granule - 1) \div Granule) * Granule

Init64 ==
    /\ ptr64 = Base64
    /\ alloc64 = {} /\ free64 = {} /\ live64 = {}
    /\ committed = [p \in Page64 |-> FALSE]
    /\ content = [p \in Page64 |-> "data"]
    /\ expect = [p \in Page64 |-> "any"]

\* wg_track_alloc64: a full table drops the entry.
Track(b) == IF Cardinality(alloc64) < MaxAlloc64 THEN alloc64 \cup {b} ELSE alloc64

\* Mutant of Commit: pages that are committed are zeroed once more.
CommitAgain(P) ==
    /\ committed' = [p \in Page64 |-> committed[p] \/ p \in P]
    /\ content' = [p \in Page64 |-> IF p \in P THEN "zero" ELSE content[p]]
    /\ expect' = [p \in Page64 |-> IF p \in P /\ expect[p] = "any" THEN "zero" ELSE expect[p]]

\* wg_guest_map64: a page is zeroed when it is committed, and not again.
Commit(P) ==
    /\ committed' = [p \in Page64 |-> committed[p] \/ p \in P]
    /\ content' = [p \in Page64 |-> IF p \in P /\ ~committed[p] THEN "zero" ELSE content[p]]
    /\ expect' = [p \in Page64 |-> IF p \in P /\ expect[p] = "any" THEN "zero" ELSE expect[p]]

\* wg_uncommit64.
Uncommit(P) ==
    /\ committed' = [p \in Page64 |-> committed[p] /\ p \notin P]
    /\ expect' = [p \in Page64 |-> IF p \in P THEN "any" ELSE expect[p]]
    /\ UNCHANGED content

\* The guest was given block b, and wanted its pages backed if commit.
Hand(b, commit) ==
    /\ alloc64' = Track(b) /\ live64' = live64 \cup {b}
    /\ IF commit THEN Commit(Pages(b.addr, b.size)) ELSE UNCHANGED pages64

Exact(n) == {b \in free64 : b.size = n}
Stale(n) == {b \in Exact(n) : \E c \in alloc64 : Overlap(b, c)}
Reusable(n) == Exact(n) \ Stale(n)

\* A free block of the very size; those found to overlap an allocation are
\* dropped from the table.
Reuse(n, commit) == \E b \in Reusable(n) :
    /\ free64' = free64 \ (Stale(n) \cup {b})
    /\ Hand(b, commit)
    /\ UNCHANGED ptr64

Fits(n) == AlignUp(ptr64) + n <= End64

\* Nothing to reuse: the pointer moves on, and stays aligned if nothing fits.
Bump(n, commit) ==
    /\ Reusable(n) = {}
    /\ free64' = free64 \ Stale(n)
    /\ IF Fits(n) THEN ptr64' = AlignUp(ptr64) + n /\ Hand(Block(AlignUp(ptr64), n), commit)
                  ELSE ptr64' = AlignUp(ptr64) /\ UNCHANGED <<alloc64, live64, pages64>>

\* VirtualAlloc without an address: MEM_RESERVE, or with MEM_COMMIT.
Reserve64(n, commit) == Reuse(n, commit) \/ Bump(n, commit)

\* VirtualAlloc with an address: the guest commits pages it holds.
Commit64 == \E b \in live64 : \E p \in Pages(b.addr, b.size) : \E n \in Sizes :
    /\ p + n <= b.addr + b.size
    /\ Commit(Pages(p, n))
    /\ UNCHANGED tables64

\* The end of wg_guest_free64: out of the one table, into the other unless its
\* address is there.
FreeBlock(b) ==
    /\ alloc64' = alloc64 \ {b}
    /\ free64' = IF \/ \E f \in free64 : f.addr = b.addr
                    \/ Cardinality(free64) >= MaxAlloc64
                   THEN free64 ELSE free64 \cup {b}

\* VirtualFree with MEM_RELEASE.  The guest may be wrong, and release what it
\* released before: nothing is known under that address then.
Free64 == \E a \in Page64 :
    /\ live64' = {b \in live64 : b.addr # a}
    /\ \/ \E b \in alloc64 : /\ b.addr = a
                             /\ FreeBlock(b)
                             /\ Uncommit(Pages(a, b.size))
       \/ /\ \A b \in alloc64 : b.addr # a
          /\ expect' = [p \in Page64 |->
                IF \E b \in live64 : b.addr = a /\ p \in Pages(a, b.size) THEN "any"
                                                                         ELSE expect[p]]
          /\ UNCHANGED <<alloc64, free64, committed, content>>
    /\ UNCHANGED ptr64

\* VirtualFree with MEM_DECOMMIT and a size; size 0 is taken for one page.
Decommit64 == \E b \in live64 : \E p \in Pages(b.addr, b.size) : \E n \in Sizes :
    /\ p + n <= b.addr + b.size
    /\ Uncommit(Pages(p, n))
    /\ UNCHANGED tables64

\* The guest writes to a page it holds and committed.
Write64 == \E p \in Page64 :
    /\ expect[p] = "zero"
    /\ content' = [content EXCEPT ![p] = "data"]
    /\ expect' = [expect EXCEPT ![p] = "data"]
    /\ UNCHANGED <<committed, tables64>>

\* wg_engine_load_pe: the guest and its blocks are gone, the tables stay.
NewProgram64 ==
    /\ live64' = {} /\ expect' = [p \in Page64 |-> "any"]
    /\ UNCHANGED <<ptr64, alloc64, free64, committed, content>>

Next64 ==
    \/ \E n \in Sizes, commit \in BOOLEAN : Reserve64(n, commit)
    \/ Commit64 \/ Free64 \/ Decommit64 \/ Write64 \/ NewProgram64

Spec64 == Init64 /\ [][Next64]_vars64

-----------------------------------------------------------------------------
(* Properties.                                                              *)

Blocks64 == {b \in [addr : Page64, size : Nat \ {0}] : b.addr + b.size <= End64}

\* Type invariant of region 3 (wg_engine.c:1918-1944).
Heap64TypeOK ==
    /\ ptr64 \in Nat /\ Base64 <= ptr64
    /\ alloc64 \subseteq Blocks64 /\ free64 \subseteq Blocks64 /\ live64 \subseteq Blocks64
    /\ Cardinality(alloc64) <= MaxAlloc64 /\ Cardinality(free64) <= MaxAlloc64
    /\ committed \in [Page64 -> BOOLEAN]
    /\ content \in [Page64 -> {"zero", "data"}]
    /\ expect \in [Page64 -> {"any", "zero", "data"}]

\* No two of the guest's blocks share a page (wg_engine.c:1944-2047), whatever
\* the guest frees twice and however full the tables are.
LiveBlocksDisjoint ==
    \A b, c \in live64 : b # c => ~Overlap(b, c)

\* The table's overlap check never finds anything to drop (wg_engine.c:1974):
\* no free block shares a page with one that is in use.
FreeBlocksUnused ==
    \A b \in free64, c \in live64 \cup alloc64 : ~Overlap(b, c)

\* Pages hold what Windows promises (wg_engine.c:2049-2113): zeros when first
\* committed after a reserve, a release or a decommit; afterwards the guest's
\* data, whatever is committed again, decommitted elsewhere or reused.
ContentsAsPromised ==
    \A p \in Page64 : expect[p] # "any" => content[p] = expect[p]

\* Blocks that are in use are apart from each other and from those that may be
\* handed out, and their pages hold what was promised (wg_engine.c:1918-2113).
PoolsSafe == LiveBlocksDisjoint /\ FreeBlocksUnused /\ ContentsAsPromised

PoolsConsistent == Heap64TypeOK /\ PoolsSafe
=============================================================================
