------------------------------ MODULE Modules ------------------------------
(***************************************************************************)
(* What a program finds in its address space: the image, the DLLs that are   *)
(* loaded next to it, the stacks of its threads, the engine's own pages, and *)
(* the thunks that stand for the functions of Windows (wg_dll_mapper.c, the  *)
(* module table and the loader of wg_engine.c).  Addresses are in pages.     *)
(* The mapper outlives a program; everything else is made anew.              *)
(***************************************************************************)
EXTENDS Integers, Sequences, FiniteSets, SequencesExt

CONSTANTS
    Defaults,       \* wg_dll_mapper_register_defaults: [dll, func, args] in order
    MaxEntries,     \* capacity of the mapper
    MaxModules,     \* length of s_modules
    Programs,       \* images: [is64, base, pages, imports, asks, ordinals, plugins, threads, com, heap]
    Plugin,         \* DLLs in the bottle: name -> [base, pages, reloc, imports, exports]
    Emulated,       \* DLLs whose exports are never looked up (nsProcess, nsExec)
    NsDialogs,      \* the names of is_nsdialogs_export
    MaxPrograms,    \* bound: programs loaded
    MaxThreads      \* bound: threads of a program

ASSUME ModulesAssumption ==
    /\ {MaxEntries, MaxModules, MaxPrograms, MaxThreads} \subseteq Nat
    /\ Len(Defaults) <= MaxEntries /\ Emulated \subseteq DOMAIN Plugin

VARIABLES
    table,      \* entries of the mapper
    program,    \* pe_image, or NoProgram
    modules,    \* s_modules: [name, base, pages], without gaps
    nextDll,    \* s_dll_next_base
    stacks,     \* threads created, and so next_stack_addr
    com,        \* s_com_qi: index of the entry, 0 if not registered
    taken,       \* the guest's pointers to thunks: the function meant, and where
    given,      \* the guest's module handles: the name asked for, and the base
    balanced,   \* history: every call popped what its function takes
    loads       \* programs loaded

moduleVars == <<table, program, modules, nextDll, stacks, com, taken, given, balanced, loads>>

NoProgram == [is64 |-> FALSE, base |-> 0, pages |-> 0, imports |-> {}, asks |-> {},
              ordinals |-> {}, plugins |-> {}, threads |-> FALSE, com |-> FALSE, heap |-> 0]
Kernel32 == "KERNEL32"
Shell32 == "SHELL32"
SystemHandle == -1      \* 0xBFFF0000

ModulesInit ==
    /\ table = Defaults /\ program = NoProgram /\ modules = <<>> /\ nextDll = 393216
    /\ stacks = 0 /\ com = 0 /\ taken = {} /\ given = {} /\ balanced = TRUE /\ loads = 0

Running64 == program.is64
Loaded == program # NoProgram

-----------------------------------------------------------------------------
(* The mapper.                                                              *)

\* wg_dll_mapper_resolve and find_any: the first entry that matches, 0 if none.
FirstEntry(t, P(_)) == SelectInSeq(t, P)
Resolved(t, d, f) == FirstEntry(t, LAMBDA e : e.dll = d /\ e.func = f)
FoundAny(t, f) == FirstEntry(t, LAMBDA e : e.func = f)

\* A function that is not known gets an entry that pops no arguments; none if
\* the table is full.
AutoStub(t, d, f) ==
    IF Len(t) < MaxEntries THEN Append(t, [dll |-> d, func |-> f, args |-> 0]) ELSE t

\* The table after resolving the imports ims, one after the other.
WithImports(t, ims) == FoldLeft(
    LAMBDA u, m : IF Resolved(u, m[1], m[2]) # 0 THEN u ELSE AutoStub(u, m[1], m[2]),
    t, SetToSeq(ims))

\* Thunk i, at its address in a program of the given width.
Thunk(i, is64) == [high |-> is64, i |-> i]
Meant(d, f, i, is64) == [dll |-> d, func |-> f, at |-> Thunk(i, is64), sure |-> TRUE]
PointersTo(t, ims, is64) ==
    {Meant(m[1], m[2], Resolved(t, m[1], m[2]), is64) : m \in {n \in ims : Resolved(t, n[1], n[2]) # 0}}

-----------------------------------------------------------------------------
(* Loading a program.                                                       *)

\* Where an image is put: 64-bit images that reach 0xE0000000 are rebased.
BaseOf(p) == IF p.is64 /\ p.base + p.pages > 917504 THEN 1024 ELSE p.base

\* The entries the mapper has when a program is loaded: all there were.
Persisting(t) == t

\* wg_engine_load_pe: the thunks are placed for the program's width, its imports
\* bound, and the module table, the DLL bases and the stacks start afresh.
LoadProgram == \E p \in Programs :
    /\ loads < MaxPrograms /\ loads' = loads + 1
    /\ table' = WithImports(Persisting(table), p.imports)
    /\ program' = [p EXCEPT !.base = BaseOf(p)]
    /\ taken' = PointersTo(table', p.imports, p.is64)
    /\ modules' = <<>> /\ nextDll' = 393216 /\ stacks' = 0 /\ given' = {}
    /\ UNCHANGED <<com, balanced>>

-----------------------------------------------------------------------------
(* Modules.                                                                 *)

FindModule(ms, name) == SelectInSeq(ms, LAMBDA m : m.name = name)
ModuleAt(b) == SelectInSeq(modules, LAMBDA m : m.base = b)

\* The next DLL's base, behind an image of so many pages: a multiple of 64KB.
AfterImage(b, pages) == ((b + pages + 15) \div 16) * 16

\* wg_load_dll of a DLL that is not in the table: at the next base if it can be
\* relocated, else where it wants to be, its imports bound with the mapper; it is
\* forgotten if the table is full.
LoadNew(name) ==
    LET dll == Plugin[name]
        b == IF dll.reloc THEN nextDll ELSE dll.base
    IN  /\ nextDll' = IF dll.reloc THEN AfterImage(b, dll.pages) ELSE nextDll
        /\ modules' = IF Len(modules) < MaxModules
                      THEN Append(modules, [name |-> name, base |-> b, pages |-> dll.pages])
                      ELSE modules
        /\ table' = WithImports(table, dll.imports)
        /\ taken' = taken \union PointersTo(table', dll.imports, FALSE)
        /\ given' = given \union {[name |-> name, base |-> b]}

\* LoadLibraryW of a DLL in the bottle.
LoadLibrary == \E name \in program.plugins :
    LET i == FindModule(modules, name) IN
    /\ IF i # 0 THEN /\ given' = given \union {[name |-> name, base |-> modules[i].base]}
                     /\ UNCHANGED <<table, taken, modules, nextDll>>
                ELSE LoadNew(name)
    /\ UNCHANGED <<program, stacks, com, balanced, loads>>

\* GetProcAddress of f through handle h, meaning that of DLL d: first the names
\* of nsDialogs, then the exports of a module, then any entry of that name.
GetProcAddress(h, d, f) ==
    LET i == IF f \in NsDialogs THEN Resolved(table, "nsDialogs", f) ELSE FoundAny(table, f)
        t == IF i # 0 THEN table ELSE AutoStub(table, Kernel32, f)
        j == IF i # 0 THEN i ELSE IF t # table THEN Len(t) ELSE 0
        m == ModuleAt(h)
        exported == /\ f \notin NsDialogs /\ m # 0 /\ modules[m].name \notin Emulated
                    /\ f \in Plugin[modules[m].name].exports
    IN  IF exported THEN UNCHANGED <<table, taken>>
        ELSE /\ table' = t
             /\ taken' = IF j = 0 THEN taken ELSE taken \union {Meant(d, f, j, Running64)}

\* The program asks for functions of the system, and its plug-ins' exports.
AskSystem == \E m \in program.asks :
    /\ GetProcAddress(SystemHandle, m[1], m[2])
    /\ UNCHANGED <<program, modules, nextDll, stacks, com, given, balanced, loads>>

AskPlugin == \E g \in given : \E f \in Plugin[g.name].exports :
    /\ GetProcAddress(g.base, g.name, f)
    /\ UNCHANGED <<program, modules, nextDll, stacks, com, given, balanced, loads>>

\* GetProcAddress of an ordinal: it is taken for one of SHELL32, whatever the handle.
AskOrdinal == \E m \in program.ordinals :
    LET f == <<Shell32, m[2]>>
        j == Resolved(table', Shell32, m[2])
    IN  /\ table' = WithImports(table, {f})
        /\ taken' = IF j = 0 THEN taken
                    ELSE taken \union {[Meant(m[1], m[2], j, Running64) EXCEPT !.sure = m[1] = Shell32]}
        /\ UNCHANGED <<program, modules, nextDll, stacks, com, given, balanced, loads>>

\* CoCreateInstance: the methods' thunks are registered once for all programs.
FakeCom ==
    /\ program.com
    /\ IF com # 0 THEN UNCHANGED <<table, com>>
         ELSE /\ table' = IF Len(table) < MaxEntries
                          THEN Append(table, [dll |-> "COM", func |-> "__comQI", args |-> 3]) ELSE table
              /\ com' = IF Len(table) < MaxEntries THEN Len(table) + 1 ELSE 0
    /\ taken' = IF com' = 0 THEN taken ELSE taken \union {Meant("COM", "__comQI", com', Running64)}
    /\ UNCHANGED <<program, modules, nextDll, stacks, given, balanced, loads>>

\* CreateThread: a stack of 1MB and a page between stacks.
NewThread ==
    /\ program.threads /\ stacks < MaxThreads /\ stacks' = stacks + 1
    /\ UNCHANGED <<table, program, modules, nextDll, com, taken, given, balanced, loads>>

-----------------------------------------------------------------------------
(* Calls.                                                                   *)

\* What function f of DLL d takes: the entry that names both.
Takes(d, f) == Defaults[Resolved(Defaults, d, f)].args

\* What a thunk pops besides the return address: in a 32-bit program what its
\* entry says, nothing in a 64-bit program, whose callers clean up.
Popped(e, is64) == IF is64 THEN 0 ELSE e.args

\* A call through a pointer the guest holds.
CallThunk == \E p \in taken :
    /\ p.at.high = Running64 /\ p.at.i <= Len(table)
    /\ Resolved(Defaults, p.dll, p.func) # 0
    /\ balanced' = (balanced /\ (p.sure => Popped(table[p.at.i], Running64) =
                                    IF Running64 THEN 0 ELSE Takes(p.dll, p.func)))
    /\ UNCHANGED <<table, program, modules, nextDll, stacks, com, taken, given, loads>>

ModulesNext ==
    \/ LoadProgram
    \/ Loaded /\ (LoadLibrary \/ AskSystem \/ AskPlugin \/ AskOrdinal \/ FakeCom \/ NewThread \/ CallThunk)

ModulesSpec == ModulesInit /\ [][ModulesNext]_moduleVars

-----------------------------------------------------------------------------
(* The layout.                                                              *)

Span(lo, n) == [lo |-> lo, hi |-> lo + n]
Apart(a, b) == a.hi <= b.lo \/ b.hi <= a.lo
Within(a, b) == b.lo <= a.lo /\ a.hi <= b.hi

\* An image that the low pages would lie in.
Large(p) == p.is64 /\ p.base + p.pages > 2560

\* Mutant of Scratch: the engine's pages stay where they were for small images.
ScratchLow(p) == {Span(2560, 1), Span(3120, 1), Span(2816, 256)}

\* The engine's pages: the command line, the trampoline for constructors and the
\* results of getaddrinfo, above a 64-bit image that would cover them.
Scratch(p) ==
    LET b == ((p.base + p.pages + 255) \div 256) * 256 + 256
    IN  IF Large(p) THEN {Span(b, 1), Span(b + 1, 1), Span(b + 256, 256)}
        ELSE {Span(2560, 1), Span(2816, 256)} \union (IF p.is64 THEN {Span(3120, 1)} ELSE {})

\* Pages that the socket library writes without asking where the region is: those of
\* gethostbyname and of inet_ntoa.
HostPages == {Span(3056, 1), Span(2560, 1)}

Thunks(p) == Span(IF p.is64 THEN 912080 ELSE 3072, 32)
MainStack == Span(520176, 4096)
FakeKernel32 == Span(786416, 1)
Image(p) == Span(p.base, p.pages)
Dlls == {Span(m.base, m.pages) : m \in Range(modules)}
StackOf(k) == Span(393216 + (k - 1) * 257, 256)

\* The heap's pages when p has allocated p.heap of them: those below 0x5F000000,
\* then from 0xA0000000 on, around the thunks.
Heap(p) ==
    LET second == p.heap - 258048
        below == 912080 - 655360
    IN  {Span(131072, IF second > 0 THEN 258048 ELSE p.heap)}
            \union (IF second > 0 THEN {Span(655360, IF second > below THEN below ELSE second)} ELSE {})
            \union (IF second > below THEN {Span(912112, second - below)} ELSE {})

-----------------------------------------------------------------------------
(* Properties.                                                              *)

\* Nothing of a program lies over something else of it: its image, DLLs and
\* stacks, its heap and what the engine put there; what the socket library writes
\* is in the engine's pages as long as these are the low ones (wg_engine.c:9530-9555,
\* 789-798, 1863-1884, wg_threading.c:15-18, 74-77).
MappedApart == Loaded =>
    LET all == {Image(program), Thunks(program), MainStack, FakeKernel32} \union Scratch(program)
                  \union Dlls \union Heap(program) \union {StackOf(k) : k \in 1 .. stacks}
    IN  /\ \A a, b \in all : a # b => Apart(a, b)
        /\ \A i, j \in DOMAIN modules : modules[i].base = modules[j].base => i = j
        /\ ~Large(program) =>
              \A h \in HostPages : \E a \in Scratch(program) : Within(h, a)

\* Every pointer to a thunk that the guest holds leads to the function it was
\* given for, over any number of programs and of functions made up on the way
\* (wg_engine.c:1282-1295, wg_dll_mapper.c:190-220, wg_engine.c:2472-2481).
PointersLead == \A p \in taken :
    /\ p.at.i <= Len(table) /\ table[p.at.i].func = p.func
    /\ p.at.high = Running64

\* A call through a thunk leaves the caller's stack as the function would, if it was not
\* found by an ordinal of a DLL other than SHELL32
\* (wg_engine.c:8829-8837, wg_dll_mapper.c:280-284).
StackBalanced == balanced

\* The handle the guest got for a DLL is that DLL's and stays it
\* (wg_engine.c:779-783, 855-868).
HandlesLead == \A g \in given :
    LET m == ModuleAt(g.base) IN m # 0 /\ modules[m].name = g.name

\* What the engine puts into a program's address space stays where the program's
\* pointers and handles say (wg_dll_mapper.c:165-226, wg_engine.c:774-923).
ModulesConsistent == MappedApart /\ PointersLead /\ StackBalanced /\ HandlesLead
=============================================================================
