------------------------------- MODULE Paths -------------------------------
(***************************************************************************)
(* How the guest's paths meet the host's files: the bottle (a host directory *)
(* that is the guest's drive C), the program's own path, the current         *)
(* directory, temporary files, directory searches, and the chain from one    *)
(* program to the one it launches.                                           *)
(*                                                                           *)
(* A host path is a sequence of names; dirs and files are what exists and    *)
(* outlives the application.  A Windows path is [drive, rooted, parts]:      *)
(* whether it names a drive, whether its parts start at the root.            *)
(* A guest writes it plainly, behind \\?\, or after another path ("long" and *)
(* "doubled").  Names are told apart whole; upper and lower case are not.    *)
(***************************************************************************)
EXTENDS Integers, FiniteSets, SequencesExt, TLC

CONSTANTS Programs0,        \* the host's files at first: program files
          PathGuests,       \* [fns, paths, globs]: what guests call, with which paths
          MaxFinds, MaxTemp, MaxRuns, MaxFilesMade

VARIABLES dirs, files0, exePath, driveC, winPath, cwd, finds, tempCounter, pending,
          visitor,          \* the guest that runs
          searches,         \* per search slot: the names its holder still has to get
          asked,            \* the path this program was launched by, or <<>>
          temps,            \* the temporary files handed out in this run of the application
          told, runs, filesMade

pathVars == <<dirs, files0, exePath, driveC, winPath, cwd, finds, tempCounter, pending,
              visitor, searches, asked, temps, told, runs, filesMade>>

NoPath == [drive |-> FALSE, rooted |-> FALSE, parts |-> <<>>]
OnC(parts) == [drive |-> TRUE, rooted |-> TRUE, parts |-> parts]
TempName(prefix, n) == prefix \o ToString(n) \o ".tmp"
NsTmp == {TempName("ns", n) : n \in 1 .. MaxTemp}
AnyTmp == {TempName(prefix, n) : prefix \in {"ns", "tm"}, n \in 1 .. MaxTemp}
Slots0 == 1 .. MaxFinds
Closed == [open |-> FALSE]

Prefixes0(h) == {SubSeq(h, 1, i) : i \in 0 .. Len(h)}
Beneath(h, set) == {f \in set : Len(f) > Len(h) /\ IsPrefix(h, f)}
Parent0(h) == SubSeq(h, 1, Len(h) - 1)

\* "." and ".." of host or Windows parts; at the top ".." stays there.
Collapsed(parts) ==
    FoldLeft(LAMBDA s, n : IF n = "." THEN s ELSE IF n = ".." THEN SubSeq(s, 1, Len(s) - 1) ELSE Append(s, n),
             <<>>, parts)

\* The directories a host path leads through; it leads nowhere if one is missing.
Walked(h) == {Collapsed(SubSeq(h, 1, i)) : i \in 0 .. Len(h) - 1}
Finds(h, set) == Walked(h) \subseteq dirs /\ Collapsed(h) \in set
IsThere(h) == Finds(h, dirs \union files0)

-----------------------------------------------------------------------------
(* Where things are. *)

\* A fresh bottle for every program.
AnchorBeside(exe) == Parent0(exe) \o <<"Bottle", "drive_c">>

\* ensure_bottle: drive C is the drive_c the program lies in, or a new one
\* beside the program.
Anchor(exe) ==
    LET at == {i \in 2 .. Len(exe) - 1 : exe[i] = "drive_c"}
    IN  IF at # {} THEN SubSeq(exe, 1, Min(at)) ELSE Parent0(exe) \o <<"Bottle", "drive_c">>

\* wg_files_exe_win_path: where the program is in the bottle, else where a file
\* of its name is (any the search may meet first), else "C:\a.exe".
OwnPaths ==
    LET leaf == Last(exePath)
        named == {h \in Beneath(driveC, dirs \union files0) : Last(h) = leaf}
        met == {h \in named : ~\E g \in named : g # h /\ IsPrefix(g, h)}
        part(h) == OnC(SubSeq(h, Len(driveC) + 1, Len(h)))
    IN  CASE winPath # NoPath -> {winPath}
          [] IsPrefix(driveC, exePath) -> {part(exePath)}
          [] named # {} -> {part(h) : h \in met}
          [] OTHER -> {OnC(<<"a.exe">>)}

\* wg_files_map_path: a path that starts anew counts from there, "C:\a.exe" is
\* the program, what is relative starts at the current directory, and all
\* drives are the bottle.
MapPath(g) ==
    LET p == Last(g.pieces)
        base == IF p.drive \/ p.rooted THEN <<>> ELSE cwd.parts
    IN  IF p = OnC(<<"a.exe">>) THEN exePath ELSE driveC \o base \o p.parts

\* wg_path_canon_a and the path functions of the shell.
Canonical(p) == [p EXCEPT !.parts = Collapsed(p.parts)]
Combined(dir, p) ==
    Canonical(IF p.drive \/ p.rooted THEN p ELSE [dir EXCEPT !.parts = dir.parts \o p.parts])
WithoutFile(p) == [p EXCEPT !.parts = Parent0(p.parts)]

\* GetFullPathName takes everything without a drive from the program's directory.
FullPath(p, own) == IF p.drive THEN p ELSE OnC(Parent0(own.parts) \o p.parts)

Plain0(p) == [long |-> FALSE, pieces |-> <<p>>]

-----------------------------------------------------------------------------
PathsInit ==
    /\ visitor \in PathGuests
    /\ exePath \in Programs0
    /\ files0 = Programs0
    /\ driveC = Anchor(exePath)
    /\ dirs = UNION {Prefixes0(Parent0(f)) : f \in Programs0}
                \union Prefixes0(Anchor(exePath)) \union {Append(Anchor(exePath), "Temp")}
    /\ winPath = NoPath /\ cwd = NoPath /\ asked = NoPath
    /\ finds = [s \in Slots0 |-> Closed]
    /\ searches = [s \in Slots0 |-> {}]
    /\ tempCounter = 1 /\ temps = {}
    /\ pending = <<>>
    /\ told = [fn |-> "none"]
    /\ runs = 0 /\ filesMade = 0

Calls(fn) == fn \in visitor.fns
PathAnswers(record) == told' = record
diskVars == <<dirs, files0, filesMade>>
ownVars == <<exePath, driveC, winPath, asked, runs, visitor, pending>>
findVars == <<finds, searches>>

\* wg_engine_load_pe: the program's path, its bottle, and a Temp without the
\* plug-in directories of earlier installers.
ProgramLoaded(exe, path) ==
    LET temp == Append(Anchor(exe), "Temp")
        stale == {h \in Beneath(temp, dirs \union files0) : h[Len(temp) + 1] \in NsTmp}
        made == Prefixes0(Anchor(exe)) \union {temp}
    IN  /\ exePath' = exe
        /\ driveC' = Anchor(exe)
        /\ winPath' = NoPath
        /\ pending' = <<>>
        /\ dirs' = (dirs \union made) \ stale
        /\ files0' = files0 \ stale
        /\ asked' = path
        /\ runs' = runs + 1

\* The program has ended and the application loads what it launched, or the
\* user another.
ChainLoad ==
    /\ pending # <<>> /\ runs < MaxRuns
    /\ Finds(pending[1], files0)
    /\ ProgramLoaded(pending[1], pending[2])
    /\ PathAnswers([fn |-> "load"])
    /\ UNCHANGED <<cwd, tempCounter, temps, visitor, filesMade>> /\ UNCHANGED findVars

\* The application ends, with its tables, and is started again.
Restart ==
    /\ runs < MaxRuns
    /\ \E exe \in Programs0 \intersect files0 : ProgramLoaded(exe, NoPath)
    /\ cwd' = NoPath
    /\ finds' = [s \in Slots0 |-> Closed] /\ searches' = [s \in Slots0 |-> {}]
    /\ tempCounter' = 1 /\ temps' = {}
    /\ PathAnswers([fn |-> "load"])
    /\ UNCHANGED <<visitor, filesMade>>

GetModuleFileName ==
    /\ Calls("GetModuleFileNameW")
    /\ \E w \in OwnPaths : winPath' = w /\ PathAnswers([fn |-> "self", path |-> w])
    /\ UNCHANGED <<diskVars, findVars, exePath, driveC, asked, runs, visitor, pending, cwd, tempCounter, temps>>

SetCurrentDirectory(g) ==
    /\ Calls("SetCurrentDirectoryW")
    /\ cwd' = Last(g.pieces)
    /\ PathAnswers([fn |-> "chdir"])
    /\ UNCHANGED <<diskVars, findVars, ownVars, tempCounter, temps>>

\* Without a current directory it is the program's.
GetCurrentDirectory ==
    /\ Calls("GetCurrentDirectoryW")
    /\ \E w \in OwnPaths :
          /\ winPath' = IF cwd = NoPath THEN w ELSE winPath
          /\ PathAnswers([fn |-> "cwd", path |-> IF cwd = NoPath THEN WithoutFile(w) ELSE cwd])
    /\ UNCHANGED <<diskVars, findVars, exePath, driveC, asked, runs, visitor, pending, cwd, tempCounter, temps>>

\* What guests do with temporary names they do with those handed out.
Handed(g) == \A n \in tempCounter .. MaxTemp : TempName("ns", n) \notin ToSet(Last(g.pieces).parts)

\* wg_files_ensure_parents, with what a path leads through; guests do not use a
\* file as a directory.
Parents(h) == IF Walked(h) \intersect files0 = {} THEN Walked(h) ELSE {}

\* CREATE_ALWAYS makes the parents too.
CreateAlways(g) ==
    LET h == MapPath(g)
    IN  /\ Calls("CreateFileW") /\ Handed(g) /\ filesMade < MaxFilesMade
        /\ Parents(h) # {} /\ Collapsed(h) \notin dirs
        /\ dirs' = dirs \union Parents(h)
        /\ files0' = files0 \union {Collapsed(h)}
        /\ filesMade' = filesMade + 1
        /\ PathAnswers([fn |-> "create"])
        /\ UNCHANGED <<findVars, ownVars, cwd, tempCounter, temps>>

\* CreateDirectoryW: a name with ".tmp" in it is cleared and made again when it
\* exists, anything else that exists is refused.
CreateDirectory(g) ==
    LET h == Collapsed(MapPath(g))
        exists == h \in dirs \union files0
        again == h \in dirs /\ ToSet(Last(g.pieces).parts) \intersect AnyTmp # {}
        ok == again \/ (~exists /\ Parents(MapPath(g)) # {})
    IN  /\ Calls("CreateDirectoryW") /\ Handed(g)
        /\ files0' = IF again THEN files0 \ Beneath(h, files0) ELSE files0
        /\ dirs' = (dirs \union Parents(MapPath(g)) \union (IF ok THEN {h} ELSE {}))
                       \ (IF again THEN Beneath(h, dirs) ELSE {})
        /\ PathAnswers([fn |-> "mkdir", at |-> h, ok |-> ok])
        /\ UNCHANGED <<filesMade, findVars, ownVars, cwd, tempCounter, temps>>

DeleteFile(g) ==
    LET gone == {Collapsed(h) : h \in {k \in {MapPath(g)} : Finds(k, files0)}}
    IN  /\ Calls("DeleteFileW")
        /\ files0' = files0 \ gone
        /\ temps' = temps \ gone
        /\ PathAnswers([fn |-> "delete", ok |-> gone # {}])
        /\ UNCHANGED <<dirs, filesMade, findVars, ownVars, cwd, tempCounter>>

\* GetTempFileNameW counts its names through one run of the application, and
\* creates the file, emptying one that is there.
GetTempFileName(prefix) ==
    LET h == driveC \o <<"Temp", TempName(prefix, tempCounter)>>
    IN  /\ Calls("GetTempFileNameW") /\ tempCounter <= MaxTemp
        /\ tempCounter' = tempCounter + 1
        /\ files0' = IF h \in dirs THEN files0 ELSE files0 \union {h}
        /\ temps' = temps \union {h}
        /\ PathAnswers([fn |-> "temp", prefix |-> prefix, before |-> h \in temps, existed |-> h \in files0 \union dirs])
        /\ UNCHANGED <<dirs, filesMade, findVars, ownVars, cwd>>

-----------------------------------------------------------------------------
(* Searches.  The names that match are taken when the search starts. *)

Matches(dir, glob) ==
    IF ~Finds(dir, dirs) THEN {}
    ELSE {Last(h) : h \in {f \in Beneath(Collapsed(dir), dirs \union files0) : Len(f) = Len(Collapsed(dir)) + 1 /\ glob \in {"*", Last(f)}}}
            \union (IF glob = "*" THEN {".", ".."} ELSE {})

\* wg_findfile_first: a free slot is taken only by a search that found something.
FindFirst(g, glob) ==
    LET names == Matches(MapPath(g), glob)
        free == {s \in Slots0 : ~finds[s].open}
        s == Min(free)
    IN  /\ Calls("FindFirstFileW")
        /\ IF names = {} \/ free = {}
           THEN PathAnswers([fn |-> "none"]) /\ UNCHANGED findVars
           ELSE /\ finds' = [finds EXCEPT ![s] = [open |-> TRUE, names |-> SetToSeq(names), pos |-> 1]]
                /\ searches' = [searches EXCEPT ![s] = @ \union (names \ {SetToSeq(names)[1]})]
                /\ PathAnswers([fn |-> "find", slot |-> s, name |-> SetToSeq(names)[1]])
        /\ UNCHANGED <<diskVars, ownVars, cwd, tempCounter, temps>>

FindNext(s) ==
    /\ Calls("FindFirstFileW") /\ finds[s].open
    /\ LET more == finds[s].pos < Len(finds[s].names)
       IN  /\ finds' = IF more THEN [finds EXCEPT ![s].pos = @ + 1] ELSE finds
           /\ searches' = IF more THEN [searches EXCEPT ![s] = @ \ {finds[s].names[finds[s].pos + 1]}] ELSE searches
           /\ PathAnswers([fn |-> "next", slot |-> s, more |-> more])
    /\ UNCHANGED <<diskVars, ownVars, cwd, tempCounter, temps>>

FindClose(s) ==
    /\ Calls("FindFirstFileW") /\ finds[s].open
    /\ finds' = [finds EXCEPT ![s] = Closed]
    /\ searches' = [searches EXCEPT ![s] = {}]
    /\ PathAnswers([fn |-> "none"])
    /\ UNCHANGED <<diskVars, ownVars, cwd, tempCounter, temps>>

-----------------------------------------------------------------------------
\* CreateProcess: steam.exe is queued as it is, another program if it exists;
\* the last one asked for is what is loaded.
CreateProcess(g) ==
    LET h == MapPath(g)
        p == Last(g.pieces)
        path == IF p.drive THEN p ELSE Combined(cwd, p)
    IN  /\ Calls("CreateProcessW")
        /\ pending' = IF Last(p.parts) = "steam.exe" \/ IsThere(h) THEN <<h, path>> ELSE pending
        /\ PathAnswers([fn |-> "exec"])
        /\ UNCHANGED <<diskVars, findVars, exePath, driveC, winPath, asked, runs, visitor, cwd, tempCounter, temps>>

PathsNext ==
    \/ ChainLoad
    \/ Restart
    \/ GetModuleFileName
    \/ GetCurrentDirectory
    \/ \E g \in visitor.paths :
          \/ SetCurrentDirectory(g) \/ CreateAlways(g) \/ CreateDirectory(g) \/ DeleteFile(g)
          \/ CreateProcess(g)
          \/ \E glob \in visitor.globs : FindFirst(g, glob)
    \/ \E prefix \in {"ns", "tm"} : GetTempFileName(prefix)
    \/ \E s \in Slots0 : FindNext(s) \/ FindClose(s)

PathsSpec == PathsInit /\ [][PathsNext]_pathVars

-----------------------------------------------------------------------------
\* Type invariant: what exists is a tree.
PathsTypeOK ==
    /\ \A h \in dirs \union files0 : Len(h) > 0 => Parent0(h) \in dirs
    /\ dirs \intersect files0 = {}
    /\ driveC \in dirs /\ tempCounter \in 1 .. MaxTemp + 1
    /\ \A s \in Slots0 : finds[s].open => finds[s].pos \in 1 .. Len(finds[s].names)

Stays(p) == \A i \in 1 .. Len(p.parts) :
               Cardinality({j \in 1 .. i : p.parts[j] = ".."}) <= Cardinality({j \in 1 .. i : p.parts[j] \notin {".", ".."}})

\* However a guest spells a path, canonical, from its current directory, behind
\* the long prefix or after another path, it is the same file
\* (wg_win32_files.c:232-300, wg_engine.c:2366-2400, 4985-5026, 5129-5191); full
\* paths agree when the current directory is the program's.
SpellingsAgree ==
    \A g \in visitor.paths :
        LET p == Last(g.pieces)
            here == Collapsed(MapPath(g))
        IN  Stays(p) =>
            /\ Collapsed(MapPath(Plain0(Canonical(p)))) = here
            /\ Collapsed(MapPath([long |-> TRUE, pieces |-> <<p>>])) = here
            /\ p.drive => Collapsed(MapPath([g EXCEPT !.pieces = <<cwd, p>>])) = here
            /\ cwd.drive => /\ Collapsed(MapPath(Plain0(Combined(cwd, p)))) = here
                            /\ \A w \in OwnPaths : WithoutFile(w) = cwd /\ ~p.rooted =>
                                  Collapsed(MapPath(Plain0(FullPath(p, w)))) = here

\* The path a program is told to be its own names a program file of its name,
\* and one that was launched is told the path it was launched by
\* (wg_win32_files.c:163-222).
OwnPathFound ==
    /\ winPath # NoPath => /\ IsThere(MapPath(Plain0(winPath)))
                           /\ Last(MapPath(Plain0(winPath))) = Last(exePath)
    /\ asked # NoPath => \A w \in OwnPaths : Collapsed(w.parts) = Collapsed(asked.parts)

\* A search gives each name once and ends when all are given, whatever other
\* searches are open; slots are the open searches' (wg_engine.c:3252-3345).
ListingsRight ==
    /\ \A s \in Slots0 :
          /\ finds[s].open => ToSet(SubSeq(finds[s].names, finds[s].pos + 1, Len(finds[s].names))) = searches[s]
          /\ ~finds[s].open => searches[s] = {}
    /\ told.fn = "next" /\ ~told.more => searches[told.slot] = {}

\* A temporary file is one nobody was given before; an installer's (ns*) did
\* not exist, also after a restart (wg_engine.c:5345-5380, wg_win32_files.c:121-149).
TempsAreNew == told.fn = "temp" => ~told.before /\ (told.prefix = "ns" => ~told.existed)

\* A directory that was made is empty (wg_engine.c:7279-7321).
MadeEmpty == told.fn = "mkdir" /\ told.ok => told.at \in dirs /\ Beneath(told.at, dirs \union files0) = {}

\* Paths, searches and temporary files are what Windows promises
\* (wg_win32_files.c:38-300, wg_engine.c:2366-2400, 3210-3345, 4925-5191,
\* 5345-5380, 7116-7192, 7279-7321, 8157-8206).
PathsConsistent ==
    PathsTypeOK /\ SpellingsAgree /\ OwnPathFound /\ ListingsRight /\ TempsAreNew /\ MadeEmpty
=============================================================================
