----------------------------- MODULE GuestHeap -----------------------------
(***************************************************************************)
(* The guest's memory (wg_engine.c): the 32-bit heap, which is a pointer    *)
(* that moves through two regions and around the import thunks, with a list *)
(* of the blocks VirtualFree gave back, and region 3 (Heap64) for the large *)
(* pools.  Addresses and sizes are in pages, and 0 is no address.           *)
(***************************************************************************)
EXTENDS Heap64

CONSTANTS
    Base1, End1,    \* region 1: WG_GUEST_HEAP_BASE .. 0x5F000000
    Base2, End2,    \* region 2: 0xA0000000 .. 0xFFFF0000
    HoleLo, HoleHi, \* the thunks: WG_THUNK_BASE, and the end of their table
    MaxAllocs,      \* WG_MAX_ALLOCS
    MaxFree,        \* WG_MAX_FREE
    Guests,         \* programs: the functions they call, and the size from
                    \* which their pools go to region 3 (region3_min: 1 MB or
                    \* WG_REGION3_MB, for a 32-bit program no size); a modest
                    \* one asks region 3 only for what it has
    MaxTracked,     \* bound: allocations the engine is told of
    MaxLoads        \* bound: programs loaded one after another

ASSUME GuestHeapAssumption ==
    /\ {Base1, End1, Base2, End2, HoleLo, HoleHi, MaxAllocs, MaxFree, MaxTracked, MaxLoads} \subseteq Nat
    /\ 0 < Base1 /\ Base1 <= End1 /\ End1 <= Base2 /\ Base2 <= HoleLo
    /\ HoleLo < HoleHi /\ HoleHi < End2 /\ End2 <= Base64
    /\ \A p \in {Base1, End1, Base2, HoleLo, HoleHi, End2} : p % Granule = 0

VARIABLES
    guest,      \* the loaded program
    heapPtr,    \* s_heap_ptr
    sizeOf,     \* s_alloc_sizes: the last size entered for an address, or 0
    tracked,    \* s_alloc_count
    freeBlocks, \* s_free_blocks
    live,       \* history: the blocks the guest holds, and which are pools
    loaded      \* programs loaded so far

tables32 == <<heapPtr, sizeOf, tracked, freeBlocks, live>>
heapVars == <<guest, tables32, vars64, loaded>>

Address == 0 .. End2

HeapInit ==
    /\ Init64 /\ guest \in Guests
    /\ heapPtr = Base1 /\ sizeOf = [a \in Address |-> 0] /\ tracked = 0
    /\ freeBlocks = {} /\ live = {} /\ loaded = 1

-----------------------------------------------------------------------------
(* The 32-bit heap.                                                         *)

\* The guest gets block b; track_alloc enters it while there is room.
Give(b, pool) ==
    /\ sizeOf' = IF tracked < MaxAllocs THEN [sizeOf EXCEPT ![b.addr] = b.size] ELSE sizeOf
    /\ tracked' = IF tracked < MaxAllocs THEN tracked + 1 ELSE tracked
    /\ live' = live \cup {[addr |-> b.addr, size |-> b.size, pool |-> pool]}

\* wg_free_list_take takes whole granules.
Take(n) == AlignUp(n)
Candidates(n) == {b \in freeBlocks : b.size >= Take(n)}

\* At least a granule that is left of a block stays in the list.
Remainder(b, n) ==
    IF b.size - Take(n) >= Granule THEN {Block(b.addr + Take(n), b.size - Take(n))} ELSE {}

\* The first block of the list that is large enough; which is the first is
\* left open.
Reuse32(n, pool) == \E b \in Candidates(n) :
    /\ freeBlocks' = (freeBlocks \ {b}) \cup Remainder(b, n)
    /\ Give(Block(b.addr, n), pool)

\* The pointer after it left a region that is too small, and the thunks.
LeaveRegion1(p, n) == IF p + n > End1 /\ p < Base2 THEN Base2 ELSE p

SkipHole(p, n) == IF p < HoleHi /\ p + n > HoleLo THEN HoleHi ELSE p
Start(p, n) == SkipHole(LeaveRegion1(p, n), n)

RegionEnd(p) == IF p >= Base2 THEN End2 ELSE End1

\* The heap's pointer p moves over n pages; it is where it went when they do
\* not fit.
Bump32(p, n, pool) ==
    /\ Candidates(n) = {}
    /\ UNCHANGED freeBlocks
    /\ LET a == Start(p, n)
       IN  IF a + n > RegionEnd(a)
             THEN heapPtr' = a /\ UNCHANGED <<sizeOf, tracked, live>>
             ELSE heapPtr' = a + n /\ Give(Block(a, n), pool)

\* wg_guest_alloc.
GuestAlloc(p, n, pool) ==
    \/ Reuse32(n, pool) /\ heapPtr' = p
    \/ Bump32(p, n, pool)

\* wg_guest_alloc_aligned moves the pointer to a granule first.
GuestAllocAligned(n) == GuestAlloc(AlignUp(heapPtr), n, TRUE)

Room == tracked < MaxTracked

\* The program calls fn, which leaves the program and its number alone.
Call(fn) == fn \in guest.fns /\ UNCHANGED <<guest, loaded>>

\* HeapAlloc, HeapReAlloc, malloc, calloc, realloc, LocalAlloc and operator new.
\* HeapFree and free give nothing back.
HeapAlloc == \E n \in Sizes :
    /\ Call("HeapAlloc") /\ Room
    /\ GuestAlloc(heapPtr, n, FALSE)
    /\ UNCHANGED vars64

\* GlobalAlloc: the same steps without the list and without tracking.
GlobalAlloc == \E n \in Sizes :
    /\ Call("GlobalAlloc")
    /\ LET a == Start(heapPtr, n)
       IN  IF a + n > RegionEnd(a)
             THEN heapPtr' = a /\ UNCHANGED live
             ELSE /\ heapPtr' = a + n
                  /\ live' = live \cup {[addr |-> a, size |-> n, pool |-> FALSE]}
    /\ UNCHANGED <<sizeOf, tracked, freeBlocks, vars64>>

\* CommandLineToArgvW takes a page without a look at the region's end; the
\* guest's startup code calls it, when the heap is in region 1.
CommandLineToArgv ==
    /\ Call("CommandLineToArgvW") /\ heapPtr < End1
    /\ heapPtr' = heapPtr + 1
    /\ live' = live \cup {[addr |-> heapPtr, size |-> 1, pool |-> FALSE]}
    /\ UNCHANGED <<sizeOf, tracked, freeBlocks, vars64>>

-----------------------------------------------------------------------------
(* The API's pools.                                                         *)

\* VirtualAlloc without an address.  Region 3 is for a large pool, and when it
\* is full the 32-bit heap has to do.
VirtualAlloc == \E n \in Sizes, commit \in BOOLEAN :
    /\ Call("VirtualAlloc") /\ Room
    /\ guest.modest => Reusable(n) # {} \/ Fits(n)
    /\ IF n < guest.cutoff THEN GuestAllocAligned(n) /\ UNCHANGED vars64
         ELSE /\ Reserve64(n, commit)
              /\ IF Reusable(n) # {} \/ Fits(n) THEN UNCHANGED tables32
                                                ELSE GuestAllocAligned(n)

\* VirtualAlloc with an address, and VirtualFree with MEM_DECOMMIT: the 32-bit
\* heap is always backed.
VirtualCommit == Call("commit") /\ (Commit64 \/ Decommit64) /\ UNCHANGED tables32

\* Mutant of VirtualFree32: the block's size is not looked up.
VirtualFreeOneMore32 == \E b \in live :
    /\ Call("VirtualFree") /\ b.pool /\ sizeOf[b.addr] # 0
    /\ freeBlocks' = IF Cardinality(freeBlocks) >= MaxFree THEN freeBlocks
                       ELSE freeBlocks \cup {Block(b.addr, sizeOf[b.addr] + 1)}
    /\ live' = live \ {b}
    /\ UNCHANGED <<heapPtr, sizeOf, tracked, vars64>>

\* VirtualFree with MEM_RELEASE of a pool below 4 GB.  The size is the one
\* entered last for the address.
VirtualFree32 == \E b \in live :
    /\ Call("VirtualFree") /\ b.pool
    /\ freeBlocks' = IF sizeOf[b.addr] = 0 \/ Cardinality(freeBlocks) >= MaxFree
                       THEN freeBlocks
                       ELSE freeBlocks \cup {Block(b.addr, sizeOf[b.addr])}
    /\ live' = live \ {b}
    /\ UNCHANGED <<heapPtr, sizeOf, tracked, vars64>>

VirtualFree64 == Call("VirtualFree") /\ Free64 /\ UNCHANGED tables32

GuestWrites == Call("commit") /\ Write64 /\ UNCHANGED tables32

\* wg_engine_load_pe: a new program in a new address space.  The pointer and
\* the table of sizes start over; the list of free blocks and the whole of
\* region 3 do not.
LoadAgain ==
    /\ loaded < MaxLoads
    /\ loaded' = loaded + 1 /\ guest' \in Guests
    /\ heapPtr' = Base1 /\ tracked' = 0
    /\ sizeOf' = [a \in Address |-> 0]
    /\ live' = {}
    /\ NewProgram64
    /\ UNCHANGED freeBlocks

HeapNext ==
    \/ HeapAlloc \/ GlobalAlloc \/ CommandLineToArgv
    \/ VirtualAlloc \/ VirtualCommit \/ VirtualFree32 \/ VirtualFree64
    \/ GuestWrites \/ LoadAgain

HeapSpec == HeapInit /\ [][HeapNext]_heapVars

-----------------------------------------------------------------------------
(* Properties.                                                              *)

\* Type invariant of the 32-bit heap (wg_engine.c:1003, 1700-1740): the pointer
\* and the tables stay in bounds.
GuestHeapTypeOK ==
    /\ heapPtr \in Base1 .. End2
    /\ tracked \in 0 .. MaxAllocs /\ Cardinality(freeBlocks) <= MaxFree
    /\ \A b \in live \cup freeBlocks : b.addr >= Base1 /\ b.addr + b.size <= End2

\* No two blocks of the 32-bit heap share a page (wg_engine.c:1745-1765,
\* 1844-1896), nor does one the guest holds with one that is free.
HeapBlocksDisjoint ==
    /\ \A b, c \in live : b # c => ~Overlap(b, c)
    /\ \A b \in live, c \in freeBlocks : ~Overlap(b, c)

\* The import thunks are never handed out (wg_engine.c:1870-1877): a block over
\* them would turn the next import call into a jump into data.
ThunksUntouched ==
    \A b \in live : b.addr >= HoleHi \/ b.addr + b.size <= HoleLo

\* A pool starts at a granule (wg_engine.c:1899-1909), also one that reuses a
\* part of a freed block.
PoolsAligned == \A b \in live : b.pool => b.addr % Granule = 0

\* The 32-bit heap hands out memory that is nobody else's, where pools may start
\* (wg_engine.c:1700-1909).
HeapConsistent == GuestHeapTypeOK /\ HeapBlocksDisjoint /\ ThunksUntouched /\ PoolsAligned
=============================================================================
