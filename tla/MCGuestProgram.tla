--------------------------- MODULE MCGuestProgram ---------------------------
(***************************************************************************)
(* The parts of a guest program's world that share no state: its heaps, its  *)
(* address space and modules, its image, its drawing, its dialogs, its       *)
(* Direct3D objects, its C runtime, its paths, and the built-in interpreter. *)
(* The engine runs one handler at a time, so each is checked by itself: the  *)
(* behaviours of this module are those of its parts.                         *)
(***************************************************************************)
EXTENDS GuestHeap, Modules, PeImage, Dialogs, Paths, MCGraphics, MCX86, MCCrt

-----------------------------------------------------------------------------
(* Programs for GuestHeap: one that works with pools in region 3, a 32-bit  *)
(* one, one whose large pools do not fit, and one that only allocates.      *)

PoolGuest == [fns |-> {"VirtualAlloc", "VirtualFree", "commit"}, cutoff |-> 1,
              modest |-> TRUE]
SmallGuest == [fns |-> {"VirtualAlloc", "VirtualFree", "HeapAlloc"}, cutoff |-> 9,
              modest |-> FALSE]
MixedGuest == [fns |-> {"VirtualAlloc", "VirtualFree"}, cutoff |-> 3,
              modest |-> FALSE]
StartupGuest == [fns |-> {"GlobalAlloc", "CommandLineToArgvW", "VirtualAlloc"}, cutoff |-> 9,
              modest |-> FALSE]

AllGuests == {PoolGuest, SmallGuest, MixedGuest, StartupGuest}

(* The guests of Dialogs: one thread and one modal dialog, in which pages    *)
(* follow each other or a control is made late.                              *)

DialogGuest(nests, late, opens, room) ==
    [threads |-> {1}, nests |-> nests, others |-> FALSE, late |-> late, dialogs |-> opens,
     quits |-> FALSE, windows |-> room]

mcDialogGuests == {DialogGuest(FALSE, FALSE, 1, 4), DialogGuest(FALSE, TRUE, 1, 2)}

(* The programs on the host's disk and the guests that use paths.           *)

mcPrograms0 == {<<"docs", "setup.exe">>, <<"docs", "Bottle", "drive_c", "Game", "play.exe">>}

Rel(parts) == Plain0([drive |-> FALSE, rooted |-> FALSE, parts |-> parts])
Drive(parts) == Plain0(OnC(parts))
Again(p, q) == [long |-> FALSE, pieces |-> p.pieces \o q.pieces]
PathGuest(fns, paths, globs) == [fns |-> fns, paths |-> paths, globs |-> globs]
mcPathGuests == {
    PathGuest({"GetModuleFileNameW", "CreateFileW", "CreateProcessW", "SetCurrentDirectoryW"},
              {Drive(<<"Game">>), Rel(<<"bin", "..", "play.exe">>), Rel(<<"setup.exe">>)}, {}),
    PathGuest({"FindFirstFileW", "CreateFileW", "DeleteFileW"},
              {Drive(<<"Game">>), Again(Drive(<<"Temp">>), Drive(<<"Game", "a">>))}, {"*", "a"}),
    PathGuest({"GetTempFileNameW", "CreateDirectoryW", "CreateFileW", "DeleteFileW", "GetCurrentDirectoryW"},
              {Drive(<<"Temp", "ns1.tmp">>), Drive(<<"Temp", "ns1.tmp", "x">>)}, {}) }

(* Programs for Modules (pages of 4 KiB): a 32-bit installer with two plug-in *)
(* DLLs, a 32-bit program with threads and a heap of 1 GiB, a 64-bit one.     *)

Entry(dll, func, args) == [dll |-> dll, func |-> func, args |-> args]
mcDefaults ==
    <<Entry("KERNEL32", "Sleep", 1), Entry("USER32", "KillTimer", 2), Entry("nsDialogs", "KillTimer", 0),
      Entry("nsDialogs", "Create", 0), Entry("COMCTL32", "Ordinal_17", 1), Entry("WS2_32", "Ordinal_17", 6),
      Entry("KERNEL32", "SHGetFolderPathW", 5), Entry("SHELL32", "SHGetFolderPathW", 5),
      Entry("SHELL32", "IsUserAnAdmin", 0)>>

mcPrograms == {
    [is64 |-> FALSE, base |-> 1024, pages |-> 1500,
     imports |-> {<<"KERNEL32", "Sleep">>, <<"COMCTL32", "Ordinal_17">>, <<"USER32", "KillTimer">>, <<"NEW", "New1">>},
     asks |-> {<<"SHELL32", "SHGetFolderPathW">>, <<"nsDialogs", "Create">>, <<"NEW", "New2">>},
     ordinals |-> {<<"SHELL32", "IsUserAnAdmin">>, <<"COMCTL32", "Ordinal_17">>},
     plugins |-> {"nsprocess", "ui"}, threads |-> FALSE, com |-> TRUE, heap |-> 5000],
    [is64 |-> FALSE, base |-> 1024, pages |-> 1000,
     imports |-> {<<"KERNEL32", "Sleep">>, <<"WS2_32", "Ordinal_17">>}, asks |-> {<<"NEW", "New1">>},
     ordinals |-> {}, plugins |-> {}, threads |-> TRUE, com |-> FALSE, heap |-> 262144],
    [is64 |-> TRUE, base |-> 1310720, pages |-> 9000,
     imports |-> {<<"KERNEL32", "Sleep">>, <<"WS2_32", "Ordinal_17">>, <<"NEW", "New3">>},
     asks |-> {<<"NEW", "New2">>}, ordinals |-> {<<"SHELL32", "Ordinal_61">>}, plugins |-> {}, threads |-> TRUE, com |-> FALSE, heap |-> 300000] }

mcPlugin ==
    [nsprocess |-> [base |-> 65536, pages |-> 20, reloc |-> TRUE,
                   imports |-> {<<"KERNEL32", "Sleep">>, <<"NEW", "New4">>}, exports |-> {"_FindProcess"}],
     ui |-> [base |-> 65536, pages |-> 7, reloc |-> TRUE,
            imports |-> {<<"USER32", "KillTimer">>}, exports |-> {"show", "Create"}]]

(* Files for PeImage: of 32 and 64 bits, based where the address space       *)
(* reaches and above it, with the data section before or after the code and  *)
(* one that the file does not hold, with and without fixups and imports, one *)
(* of a DLL the import list has no room for.                                 *)

Section(va, vsize, raw) == [va |-> va, vsize |-> vsize, raw |-> raw, inFile |-> TRUE]
Import(iat, funcs) == [named |-> TRUE, listed |-> TRUE, iat |-> iat, funcs |-> funcs]
Fixup(type, rva) == [type |-> type, rva |-> rva]
FixupBlock(entries) == [sane |-> TRUE, entries |-> entries]
PeFile(is64, base, sections, relocs, imports) ==
    [is64 |-> is64, base |-> base, size |-> 32, headers |-> 4, sections |-> sections,
     relocs |-> relocs, imports |-> imports]

Text == Section(4, 6, <<11, 12, 13, 14, 15, 16, 17, 18, 19>>)
Data == Section(12, 9, <<21, 22, 23>>)
Lost == [Section(24, 4, <<1, 2>>) EXCEPT !.inFile = FALSE]

mcImages ==
    LET relocs == <<FixupBlock(<<Fixup("HIGHLOW", 5), Fixup("ABSOLUTE", 4)>>), FixupBlock(<<Fixup("HIGHLOW", 13)>>)>>
        relocs64 == <<FixupBlock(<<Fixup("DIR64", 5), Fixup("DIR64", 13)>>)>>
        imports == <<Import(15, <<1, 2>>), [Import(20, <<5>>) EXCEPT !.listed = FALSE], Import(18, <<3>>)>>
    IN  {PeFile(FALSE, b, ss, r, i) : b \in {64, 300}, ss \in {<<Text, Data>>, <<Data, Text>>, <<Text, Data, Lost>>},
            r \in {<<>>, relocs}, i \in {<<>>, imports, <<Import(17, <<1, 2>>), Import(14, <<3>>)>>}}
        \union
        {PeFile(TRUE, b, <<Text, Data>>, r, i) : b \in {64, 300}, r \in {<<>>, relocs64},
            i \in {<<>>, <<Import(15, <<1, 2>>)>>}}

-----------------------------------------------------------------------------
VARIABLE part       \* the part that runs

Init ==
    /\ part \in {"heap", "modules", "image", "drawing", "dialogs", "interpreter",
                 "runtime", "paths", "graphics"}
    /\ part # "heap" => guest = CHOOSE g \in Guests : TRUE
    /\ part # "drawing" => painter = CHOOSE p \in Painters : TRUE
    /\ part # "dialogs" => dialogGuest = CHOOSE g \in DialogGuests : TRUE
    /\ part # "interpreter" => assembled = Greatest /\ seed = <<0, 0>>
    /\ part # "runtime" => ram = CHOOSE m \in Memories : TRUE
    /\ part # "graphics" => gamer = CHOOSE g \in Gamers : TRUE
    /\ part # "paths" => visitor = CHOOSE g \in PathGuests : TRUE
    /\ part # "paths" => exePath = CHOOSE p \in Programs0 : TRUE
    /\ HeapInit /\ ModulesInit /\ PeInit /\ GdiInit /\ DialogsInit /\ X86Init
    /\ CrtInit /\ PathsInit /\ D3d11Init

Next ==
    \/ /\ part = "heap" /\ HeapNext
       /\ UNCHANGED <<part, d3dVars, crtVars, pathVars, moduleVars, peVars, gdiVars, dialogVars, x86Vars>>
    \/ /\ part = "modules" /\ ModulesNext
       /\ UNCHANGED <<part, d3dVars, crtVars, pathVars, heapVars, peVars, gdiVars, dialogVars, x86Vars>>
    \/ /\ part = "image" /\ PeNext
       /\ UNCHANGED <<part, d3dVars, crtVars, pathVars, heapVars, moduleVars, gdiVars, dialogVars, x86Vars>>
    \/ /\ part = "drawing" /\ GdiNext
       /\ UNCHANGED <<part, d3dVars, crtVars, pathVars, heapVars, moduleVars, peVars, dialogVars, x86Vars>>
    \/ /\ part = "dialogs" /\ DialogsNext
       /\ UNCHANGED <<part, d3dVars, crtVars, pathVars, heapVars, moduleVars, peVars, gdiVars, x86Vars>>
    \/ /\ part = "interpreter" /\ X86Next
       /\ UNCHANGED <<part, d3dVars, crtVars, pathVars, heapVars, moduleVars, peVars, gdiVars, dialogVars>>
    \/ /\ part = "runtime" /\ CrtNext
       /\ UNCHANGED <<part, d3dVars, pathVars, heapVars, moduleVars, peVars, gdiVars, dialogVars, x86Vars>>
    \/ /\ part = "paths" /\ PathsNext
       /\ UNCHANGED <<part, d3dVars, crtVars, heapVars, moduleVars, peVars, gdiVars, dialogVars, x86Vars>>
    \/ /\ part = "graphics" /\ D3d11Next
       /\ UNCHANGED <<part, crtVars, pathVars, heapVars, moduleVars, peVars, gdiVars, dialogVars, x86Vars>>

Spec == Init /\ [][Next]_<<part, heapVars, moduleVars, peVars, gdiVars, dialogVars, x86Vars, crtVars, pathVars, d3dVars>>

\* What is loaded stays where it was put and calls lead where they were meant to: the
\* modules and their thunks (wg_dll_mapper.c, wg_engine.c:9471-9906) and the program's
\* image in the guest's memory (wg_pe_loader.c).
LoadedConsistent == ModulesConsistent /\ ImagesConsistent
=============================================================================
