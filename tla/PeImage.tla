------------------------------ MODULE PeImage ------------------------------
(***************************************************************************)
(* Loading an image: wg_pe_loader.c parses and rebases the file, then        *)
(* wg_engine.c maps it into the emulator (a program or a plug-in DLL) or     *)
(* into the regions of wg_memory.c (the interpreter build).  Memory and      *)
(* files are in words of four bytes, addresses count words.                  *)
(***************************************************************************)
EXTENDS Integers, Sequences, FiniteSets, SequencesExt

CONSTANTS
    Images,         \* files, see ImageType
    PageWords,      \* words in a page
    High, Low,      \* 64-bit images that reach High are rebased to Low
    MaxImports,     \* PE_MAX_IMPORTS
    MaxFuncs,       \* PE_MAX_IMPORT_FUNCS
    MaxRegions,     \* WG_MAX_REGIONS
    MaxWord         \* bound: values the guest stores

ASSUME PeImageAssumption ==
    /\ PageWords \in Nat \ {0} /\ {High, Low, MaxImports, MaxFuncs, MaxRegions, MaxWord} \subseteq Nat
    /\ \A f \in Images :
        /\ f.is64 \in BOOLEAN /\ {f.base, f.size, f.headers} \subseteq Nat
        /\ \A i \in DOMAIN f.sections : {f.sections[i].va, f.sections[i].vsize} \subseteq Nat
        /\ \A i \in DOMAIN f.sections : f.sections[i].va % PageWords = 0

VARIABLES
    image,      \* the parsed image, or NoImage
    file,       \* the file it came from
    mem,        \* the emulator's memory: value of every mapped word
    regions,    \* WGMemorySpace: [base, size, data]
    shadow      \* history: what the guest expects in the regions

peVars == <<image, file, mem, regions, shadow>>

NoImage == [base |-> -1]
Nowhere == [a \in {} |-> 0]
PeInit == image = NoImage /\ file = NoImage /\ mem = Nowhere /\ regions = <<>> /\ shadow = Nowhere

-----------------------------------------------------------------------------
(* wg_pe_loader.c.                                                          *)

\* A section's bytes are there only if the file holds all of them.
ParsedSection(s) == [s EXCEPT !.raw = IF s.inFile THEN s.raw ELSE <<>>]

\* parse_imports: descriptors up to the first whose DLL name is not found,
\* without those that have no list of names; the slots follow FirstThunk.
ParsedImports(f) ==
    LET bad == SelectInSeq(f.imports, LAMBDA d : ~d.named)
        good == IF bad = 0 THEN f.imports ELSE SubSeq(f.imports, 1, bad - 1)
        kept == SelectSeq(good, LAMBDA d : d.listed)
        width == IF f.is64 THEN 2 ELSE 1
        slots(d) == [j \in 1 .. Len(d.funcs) |-> [func |-> d.funcs[j], slot |-> d.iat + (j - 1) * width]]
        upTo(s, n) == IF Len(s) > n THEN SubSeq(s, 1, n) ELSE s
    IN  FlattenSeq([i \in 1 .. Len(upTo(kept, MaxImports)) |-> upTo(slots(kept[i]), MaxFuncs)])

Parsed(f) == [base |-> f.base, is64 |-> f.is64, size |-> f.size, headers |-> f.headers, header |-> f.base,
              sections |-> [i \in DOMAIN f.sections |-> ParsedSection(f.sections[i])],
              imports |-> ParsedImports(f), relocs |-> f.relocs]

\* The section whose bytes hold n words at rva; 0 if there is none.
HoldingSection(sections, rva, n) == SelectInSeq(sections,
    LAMBDA s : s.raw # <<>> /\ rva >= s.va /\ rva + n <= s.va + Len(s.raw))

\* The fixups that are reached: the blocks up to the first one that is not found
\* or has no sensible size; padding and unknown types do nothing.
Fixups(relocs) ==
    LET bad == SelectInSeq(relocs, LAMBDA b : ~b.sane)
    IN  SelectSeq(FlattenSeq([i \in 1 .. (IF bad = 0 THEN Len(relocs) ELSE bad - 1) |-> relocs[i].entries]),
                  LAMBDA e : e.type \in {"HIGHLOW", "DIR64"})

WidthOf(e) == IF e.type = "DIR64" THEN 2 ELSE 1

\* One fixup; one that is not in the bytes of a section is skipped.
Fixed(sections, e, delta) ==
    LET i == HoldingSection(sections, e.rva, WidthOf(e))
    IN  IF i = 0 THEN sections ELSE [sections EXCEPT ![i].raw[e.rva - sections[i].va + 1] = @ + delta]

\* wg_pe_rebase: nothing if the image is there already or has no relocations;
\* the header names the new base.
Rebased(img, b) ==
    IF img.base = b \/ img.relocs = <<>> THEN img
    ELSE [img EXCEPT !.base = b, !.header = b,
            !.sections = FoldLeft(LAMBDA ss, e : Fixed(ss, e, b - img.base), img.sections, Fixups(img.relocs))]

-----------------------------------------------------------------------------
(* The emulator's memory.                                                   *)

Over(new, old) == [a \in DOMAIN new \union DOMAIN old |-> IF a \in DOMAIN new THEN new[a] ELSE old[a]]
Words(a, ws) == [x \in a .. a + Len(ws) - 1 |-> ws[x - a + 1]]

\* wg_blink_load_code: whole pages are mapped anew, then written.
PagesOf(a, n) == (a \div PageWords) * PageWords .. ((a + n + PageWords - 1) \div PageWords) * PageWords - 1
LoadCode(m, a, ws) == Over(Words(a, ws), Over([x \in PagesOf(a, Len(ws)) |-> 0], m))

\* wg_blink_write_mem: what is not mapped is not written.
WriteMem(m, a, ws) == [x \in DOMAIN m |-> IF x \in a .. a + Len(ws) - 1 THEN ws[x - a + 1] ELSE m[x]]

Zeros(n) == [i \in 1 .. n |-> 0]

\* Mutant of Bytes: all of the file's bytes are copied.
BytesAll(s) == s.raw

\* What a section gets of its bytes: no more than its size in memory.
Bytes(s) == IF Len(s.raw) > s.vsize THEN SubSeq(s.raw, 1, s.vsize) ELSE s.raw

WithSection(m, b, s) ==
    IF s.vsize = 0 THEN m ELSE WriteMem(LoadCode(m, b + s.va, Zeros(s.vsize)), b + s.va, Bytes(s))
WithSections(m, b, ss) == FoldLeft(LAMBDA n, s : WithSection(n, b, s), m, ss)

\* The address of a function's thunk; every name has one.
ThunkOf(func) == 1000 + func
\* Binding writes one word in a plug-in and two in a program, whatever its width.
Bound(m, b, imports, width) == FoldLeft(
    LAMBDA n, i : WriteMem(n, b + i.slot, SubSeq(<<ThunkOf(i.func), 0>>, 1, width)), m, imports)

\* Headers: the words before the first section; their first one is ImageBase.
HeaderWords(img) == [i \in 1 .. img.headers |-> IF i = 1 THEN img.header ELSE 0]

Loading(f) == image = NoImage /\ regions = <<>> /\ file' = f /\ UNCHANGED <<regions, shadow>>

\* wg_engine_load_pe: high 64-bit images are moved.
ProgramImage(f) == IF f.is64 /\ f.base + f.size > High THEN Rebased(Parsed(f), Low) ELSE Parsed(f)

\* load_pe_blink.
LoadProgramImage == \E f \in Images :
    LET img == ProgramImage(f)
    IN  /\ Loading(f) /\ image' = img
        /\ mem' = Bound(WithSections(LoadCode(mem, img.base, HeaderWords(img)), img.base, img.sections),
                        img.base, img.imports, 2)

\* wg_load_dll: sections first, then fixups in memory, at the next DLL base
\* when there are relocations.  The pages of the headers are not mapped.
LoadPluginImage == \E f \in {g \in Images : ~g.is64} :
    LET img == Parsed(f)
        b == IF img.relocs = <<>> THEN img.base ELSE High
        fixups == SelectSeq(Fixups(img.relocs), LAMBDA e : e.type = "HIGHLOW")
        inMem(m, e) == IF b + e.rva \in DOMAIN m THEN [m EXCEPT ![b + e.rva] = @ + b - img.base] ELSE m
        mapped == WithSections(WriteMem(mem, b, HeaderWords(img)), b, img.sections)
    IN  /\ Loading(f) /\ image' = [img EXCEPT !.base = b]
        /\ mem' = Bound(FoldLeft(inMem, mapped, fixups), b, img.imports, 1)

-----------------------------------------------------------------------------
(* wg_memory.c: the regions of the interpreter build.                       *)

RegionAt(rs, a) == SelectInSeq(rs, LAMBDA r : a >= r.base /\ a < r.base + r.size)
RoundedSize(n) == IF n = 0 THEN PageWords ELSE ((n + PageWords - 1) \div PageWords) * PageWords
NewRegion(b, n) == [base |-> b, size |-> RoundedSize(n), data |-> [x \in 0 .. RoundedSize(n) - 1 |-> 0]]
WithRegion(rs, b, n) == IF Len(rs) < MaxRegions THEN Append(rs, NewRegion(b, n)) ELSE rs

\* The last region takes the place of the one that goes.
WithoutRegion(rs, i) == SubSeq([rs EXCEPT ![i] = rs[Len(rs)]], 1, Len(rs) - 1)

RegionRead(rs, a) == LET i == RegionAt(rs, a) IN IF i = 0 THEN 0 ELSE rs[i].data[a - rs[i].base]
RegionWrite(rs, a, v) == LET i == RegionAt(rs, a) IN
    IF i = 0 THEN rs ELSE [rs EXCEPT ![i].data[a - rs[i].base] = v]
\* wg_memory_write: word after word, up to the first that is in no region.
RegionWrites(rs, a, ws) ==
    LET gap == SelectInSeq([k \in DOMAIN ws |-> RegionAt(rs, a + k - 1)], LAMBDA i : i = 0)
        n == IF gap = 0 THEN Len(ws) ELSE gap - 1
    IN  FoldLeft(LAMBDA r, k : RegionWrite(r, a + k - 1, ws[k]), rs, [k \in 1 .. n |-> k])

\* load_pe_builtin: a region for each section; the headers are not mapped.
LoadBuiltinImage == \E f \in Images :
    LET img == ProgramImage(f)
        section(rs, s) == RegionWrites(WithRegion(rs, img.base + s.va, s.vsize), img.base + s.va, Bytes(s))
        bind(rs, i) == RegionWrites(rs, img.base + i.slot, <<ThunkOf(i.func), 0>>)
    IN  /\ image = NoImage /\ regions = <<>> /\ Len(img.sections) <= MaxRegions
        /\ image' = img /\ file' = f
        /\ regions' = FoldLeft(bind, FoldLeft(section, <<>>, img.sections), img.imports)
        /\ shadow' = [a \in UNION {img.base + s.va .. img.base + s.va + RoundedSize(s.vsize) - 1 : s \in Range(img.sections)}
                         |-> RegionRead(regions', a)]
        /\ UNCHANGED mem

\* wg_memory_map and wg_memory_unmap of regions that lie apart, and stores.
MapRegion == \E b \in {0, 2 * PageWords}, n \in 0 .. PageWords + 1 :
    /\ image = NoImage /\ Len(regions) < MaxRegions
    /\ (b .. b + RoundedSize(n) - 1) \cap DOMAIN shadow = {}
    /\ regions' = WithRegion(regions, b, n)
    /\ shadow' = Over([a \in b .. b + RoundedSize(n) - 1 |-> 0], shadow)
    /\ UNCHANGED <<image, file, mem>>

UnmapRegion == \E i \in DOMAIN regions :
    /\ image = NoImage
    /\ regions' = WithoutRegion(regions, i)
    /\ shadow' = [a \in DOMAIN shadow \ (regions[i].base .. regions[i].base + regions[i].size - 1) |-> shadow[a]]
    /\ UNCHANGED <<image, file, mem>>

StoreWord == \E a \in DOMAIN shadow, v \in 1 .. MaxWord :
    /\ image = NoImage
    /\ regions' = RegionWrite(regions, a, v) /\ shadow' = [shadow EXCEPT ![a] = v]
    /\ UNCHANGED <<image, file, mem>>

PeNext == LoadProgramImage \/ LoadPluginImage \/ LoadBuiltinImage \/ MapRegion \/ UnmapRegion \/ StoreWord
PeSpec == PeInit /\ [][PeNext]_peVars

-----------------------------------------------------------------------------
(* What a linker meant.                                                     *)

\* The words of the image that hold a function's address, and the function.
Slots(f) == UNION {{<<d.iat + (j - 1) * (IF f.is64 THEN 2 ELSE 1), d.funcs[j]>> : j \in DOMAIN d.funcs} :
                      d \in {e \in Range(f.imports) : e.listed}}

\* Word r of file f's image at base b: the word of the section it lies in, zero
\* behind the bytes the file has, moved by the distance if it is an address; the
\* address of the thunk if it is a slot of the import table.
Linked(f, b, r) ==
    LET s == CHOOSE t \in Range(f.sections) : r >= t.va /\ r < t.va + t.vsize
        word == IF s.inFile /\ r - s.va < Len(s.raw) THEN s.raw[r - s.va + 1] ELSE 0
        moved == \E e \in Range(FlattenSeq([i \in DOMAIN f.relocs |-> f.relocs[i].entries])) :
                    e.rva = r /\ e.type # "ABSOLUTE"
    IN  IF \E p \in Slots(f) : p[1] = r THEN ThunkOf((CHOOSE p \in Slots(f) : p[1] = r)[2])
        ELSE IF moved THEN word + b - f.base ELSE word

SectionWords(f) == UNION {s.va .. s.va + s.vsize - 1 : s \in Range(f.sections)}

\* Whatever the order and the sizes of its sections, and wherever it is put, an
\* image is in memory what its linker meant: the file's bytes, zeros behind them,
\* every address moved once, every import bound, in the emulator and in the
\* regions of the interpreter (wg_pe_loader.c:164-243, 430-500,
\* wg_engine.c:9504-9525, 9646-9663, 798-849, 9780-9812).
ImageAsLinked == image # NoImage => \A r \in SectionWords(file) :
    IF regions = <<>> THEN image.base + r \in DOMAIN mem /\ mem[image.base + r] = Linked(file, image.base, r)
    ELSE RegionRead(regions, image.base + r) = Linked(file, image.base, r)

\* A word of the interpreter's memory holds what was stored there last, over any
\* mapping and unmapping of regions that lie apart (wg_memory.c:23-68, 78-82).
RegionsKeepWords == \A a \in DOMAIN shadow : RegionRead(regions, a) = shadow[a]

\* Images and regions hold what was put there (wg_pe_loader.c:164-500,
\* wg_memory.c:23-150).
ImagesConsistent == ImageAsLinked /\ RegionsKeepWords
=============================================================================
