------------------------------- MODULE Files -------------------------------
(***************************************************************************)
(* Guest files (wg_win32_files.c and the file handlers of wg_engine.c):     *)
(* Win32 handles over C streams, configuration files that are served with   *)
(* an addition, and mappings that are copies.  A stream keeps what was      *)
(* written to it until it is moved or closed, and its position is only      *)
(* defined if it is moved between a read and a write.                       *)
(***************************************************************************)
EXTENDS Integers, Sequences, FiniteSets, FiniteSetsExt

CONSTANTS
    Path,           \* guest paths, one per file of the bottle
    Config,         \* those that wg_files_create serves with the addition
    MaxFiles,       \* WG_MAX_FILE_HANDLES
    MaxFilemap,     \* WG_MAX_FILEMAP
    MaxLen,         \* bound: length of a file
    MaxOpens        \* bound: files opened

ASSUME FilesAssumption ==
    Config \subseteq Path /\ {MaxFiles, MaxFilemap, MaxLen, MaxOpens} \subseteq Nat

VARIABLES
    disk,       \* the files: a sequence of cells, or Absent
    files,      \* s_files
    handles,    \* s_next_handle, from 0
    maps,       \* s_filemap: the file handle of each mapping
    win,        \* history: the file as Windows would have it
    winPos,     \* history: the position Windows would have, per slot
    spoilt,     \* history: the files of which the guest asked what the streams do
                \* not do as Windows does (AsWindows, Places, Appends and MapsWriter)
    view        \* history: the last view of a handle that was open and of no such
                \* file, as copied and as it should be

fileVars == <<disk, files, handles, maps, win, winPos, spoilt, view>>
streamVars == <<disk, files, handles>>

Absent == <<"absent">>
Addition == <<"i">>     \* INJ
FileSlot == 0 .. MaxFiles - 1
Unused == [used |-> FALSE]
NoView == [copied |-> <<>>, right |-> <<>>]
Spoil(p, strange) == spoilt' = IF strange THEN spoilt \union {p} ELSE spoilt

Used(i) == files[i].used
InUse == {i \in FileSlot : Used(i)}
OpenOn(p) == {i \in InUse : files[i].path = p}

\* Cells d written over s from position p, with zeros up to there.
Overlay(s, p, d) == IF d = <<>> THEN s ELSE
    [k \in 1 .. Max({Len(s), p + Len(d)}) |->
        IF k > p /\ k <= p + Len(d) THEN d[k - p] ELSE IF k <= Len(s) THEN s[k] ELSE "0"]

\* At most n cells of s behind position p.
Cells(s, p, n) == SubSeq(s, p + 1, Min({p + n, Len(s)}))

FilesInit ==
    /\ disk \in [Path -> {Absent, <<"o">>}] /\ win = disk
    /\ files = [i \in FileSlot |-> Unused] /\ handles = 0
    /\ maps = <<>> /\ winPos = [i \in FileSlot |-> 0] /\ spoilt = {} /\ view = NoView

-----------------------------------------------------------------------------
(* The streams.                                                             *)

\* The file with what stream f still keeps; a stream for appending adds it at
\* the end.
Flushed(f) ==
    Overlay(disk[f.path], IF f.append THEN Len(disk[f.path]) ELSE f.pos - Len(f.kept), f.kept)

\* fseek: what it keeps is written, and the next step may be of either kind.
Moved(f, pos) == [f EXCEPT !.kept = <<>>, !.pos = pos, !.last = "moved"]

\* Slot i's stream is moved to pos.
Move(i, pos) ==
    /\ disk' = [disk EXCEPT ![files[i].path] = Flushed(files[i])]
    /\ files' = [files EXCEPT ![i] = Moved(files[i], pos)]

-----------------------------------------------------------------------------
(* CreateFile.                                                              *)

\* The mode wg_files_create opens with.
Mode(disposition, write) ==
    CASE disposition = "CREATE_ALWAYS"                -> "wb+"
      [] disposition = "TRUNCATE_EXISTING"            -> "wb"
      [] disposition = "CREATE_NEW" /\ write          -> "wb+"
      [] disposition = "OPEN_EXISTING" /\ write       -> "rb+"
      [] disposition = "OPEN_ALWAYS" /\ write         -> "ab+"
      [] OTHER                                        -> "rb"

Makes(mode) == mode \in {"wb", "wb+", "ab+"}
Truncates(mode) == mode \in {"wb", "wb+"}
Opens(mode, p) == Makes(mode) \/ disk[p] # Absent
AfterOpen(mode, s) == IF Truncates(mode) \/ s = Absent THEN <<>> ELSE s

\* The streams do as Windows does when the guest creates what is missing, truncates
\* what is there, appends from the start, and has one handle on a file it writes.
AsWindows(p, disposition, mode) ==
    /\ disposition = "CREATE_NEW" => disk[p] = Absent
    /\ disposition = "TRUNCATE_EXISTING" => disk[p] # Absent
    /\ mode = "ab+" => disk[p] \in {Absent, <<>>}
    /\ IF mode = "rb" THEN \A i \in OpenOn(p) : files[i].mode = "rb"
                      ELSE OpenOn(p) = {} /\ p \notin Config

FreeSlots == {i \in FileSlot : ~Used(i)}

\* The bottle's file is opened, and truncated, before a slot is looked for.  A call
\* that opens nothing changes nothing, even where Windows would make the file.
Created(p, write, disposition) ==
    LET mode == Mode(disposition, write)
        after == AfterOpen(mode, disk[p])
        i == Min(FreeSlots)
    IN  /\ Opens(mode, p)
        /\ Spoil(p, ~AsWindows(p, disposition, mode))
        /\ disk' = [disk EXCEPT ![p] = after]
        /\ win' = [win EXCEPT ![p] = AfterOpen(mode, win[p])]
        /\ IF FreeSlots = {} THEN UNCHANGED <<files, handles, winPos>>
             ELSE /\ handles < MaxOpens
                  /\ files' = [files EXCEPT ![i] =
                        [used |-> TRUE, handle |-> handles, path |-> p, mode |-> mode,
                         append |-> mode = "ab+", pos |-> 0, kept |-> <<>>, last |-> "moved",
                         inj |-> IF p \in Config THEN after \o Addition ELSE <<>>, injPos |-> 0]]
                  /\ handles' = handles + 1
                  /\ winPos' = [winPos EXCEPT ![i] = 0]
        /\ UNCHANGED <<maps, view>>

CreateFile == \E p \in Path, write \in BOOLEAN,
                 disposition \in {"CREATE_NEW", "CREATE_ALWAYS", "OPEN_EXISTING",
                                  "OPEN_ALWAYS", "TRUNCATE_EXISTING"} :
    Created(p, write, disposition)

Injected(i) == files[i].inj # <<>>

Clamp(i, pos) == Min({pos, Len(files[i].inj)})

Writable(i) == files[i].mode # "rb"
Readable(i) == files[i].mode # "wb"

-----------------------------------------------------------------------------
(* Reading, writing, moving.                                                *)

\* ReadFile, at the position or with an OVERLAPPED at `from'.
ReadFrom(i, from) ==
    IF Injected(i)
      THEN /\ files' = [files EXCEPT ![i].injPos = from + Len(Cells(files[i].inj, from, 1))]
           /\ UNCHANGED <<disk, winPos>>
      ELSE LET got == Len(Cells(Flushed(files[i]), from, 1))
           IN  /\ disk' = [disk EXCEPT ![files[i].path] = Flushed(files[i])]
               /\ files' = [files EXCEPT ![i] = [Moved(@, from + got) EXCEPT !.last = "read"]]
               /\ winPos' = [winPos EXCEPT ![i] = from + got]

\* A stream that appends writes at the end wherever it was moved to.
Appends(i) == ~Injected(i) /\ files[i].append

\* ReadFile of a stream that can read; another one answers TRUE with no bytes.
ReadFile == \E i \in InUse :
    /\ Readable(i)
    /\ \/ /\ ReadFrom(i, IF Injected(i) THEN files[i].injPos ELSE files[i].pos)
          /\ UNCHANGED spoilt
       \/ \E from \in 0 .. MaxLen + 1 :
             /\ ReadFrom(i, IF Injected(i) THEN Clamp(i, from) ELSE from)
             /\ Spoil(files[i].path, Appends(i))
    /\ UNCHANGED <<handles, maps, win, view>>

\* Where the stream takes up writing: at the end if it appends; after a read
\* that was not followed by a move perhaps behind what it had read ahead.
WritePlaces(f) ==
    IF f.append THEN {Len(Flushed(f))}
      ELSE IF f.last = "read" THEN {f.pos, Len(disk[f.path])} ELSE {f.pos}

\* Windows writes at the position or, with an OVERLAPPED, at its offset; the stream
\* knows only its own, and after a read not even that.
Places(i, to) == to = winPos[i] /\ files[i].last # "read"

\* WriteFile: the stream keeps the cell.  What goes to a handle of no file, standard
\* handles among them, is acknowledged and lost; what goes to a stream that only
\* reads is answered with TRUE and no bytes.  Neither touches a file.
WriteFile == \E i \in InUse, to \in 0 .. MaxLen : \E at \in WritePlaces(files[i]) :
    LET p == files[i].path
    IN  /\ Writable(i) /\ Max({at, to, Len(disk[p])}) < MaxLen
        /\ files' = [files EXCEPT ![i].kept = Append(@, "n"), ![i].last = "write",
                                  ![i].pos = at + 1]
        /\ win' = [win EXCEPT ![p] = Overlay(@, to, <<"n">>)]
        /\ winPos' = [winPos EXCEPT ![i] = to + 1]
        /\ Spoil(p, ~Places(i, to))
        /\ UNCHANGED <<disk, handles, maps, view>>

\* SetFilePointer, SetFilePointerEx: an injected file's position stays inside it.
SetFilePointer == \E i \in InUse, pos \in 0 .. MaxLen + 1 :
    /\ IF Injected(i)
         THEN /\ files' = [files EXCEPT ![i].injPos = Clamp(i, pos)]
              /\ UNCHANGED <<disk, winPos>>
         ELSE Move(i, pos) /\ winPos' = [winPos EXCEPT ![i] = pos]
    /\ Spoil(files[i].path, Appends(i))
    /\ UNCHANGED <<handles, maps, win, view>>

\* GetFileSize, GetFileSizeEx: the stream goes to its end and back.
GetFileSize == \E i \in InUse :
    /\ ~Injected(i)
    /\ Move(i, files[i].pos)
    /\ UNCHANGED <<handles, maps, win, winPos, spoilt, view>>

\* Mutant of CloseFile: the slot is given up and the stream is not closed.
CloseFileUnflushed == \E i \in InUse :
    /\ files' = [files EXCEPT ![i] = Unused]
    /\ winPos' = [winPos EXCEPT ![i] = 0]
    /\ UNCHANGED <<disk, handles, maps, win, spoilt, view>>

\* CloseHandle: fclose writes what the stream keeps.
CloseFile == \E i \in InUse :
    /\ disk' = [disk EXCEPT ![files[i].path] = Flushed(files[i])]
    /\ files' = [files EXCEPT ![i] = Unused]
    /\ winPos' = [winPos EXCEPT ![i] = 0]
    /\ UNCHANGED <<handles, maps, win, spoilt, view>>

\* DeleteFile, of a file nobody has open; the next one of that name starts anew.
DeleteFile == \E p \in Path :
    /\ disk[p] # Absent /\ OpenOn(p) = {}
    /\ disk' = [disk EXCEPT ![p] = Absent] /\ win' = [win EXCEPT ![p] = Absent]
    /\ spoilt' = spoilt \ {p}
    /\ UNCHANGED <<files, handles, maps, winPos, view>>

-----------------------------------------------------------------------------
(* Mappings.                                                                *)

\* CreateFileMapping: a slot that is never given back.
CreateFileMapping == \E i \in InUse :
    /\ Len(maps) < MaxFilemap
    /\ maps' = Append(maps, files[i].handle)
    /\ UNCHANGED <<streamVars, win, winPos, spoilt, view>>

CopyFrom(i, offset) == Cells(Flushed(files[i]), offset, MaxLen)

\* A view moves the stream, and a stream that writes goes on from there.
MapsWriter(i) == files[i].mode # "rb"

\* The copy and what it should be, of a file as the guest left it.
View(i, copied, right) ==
    view' = IF files[i].path \in spoilt THEN NoView ELSE [copied |-> copied, right |-> right]

\* MapViewOfFile to the end of the file: it reads a copy through the stream
\* and leaves the stream there.  A handle that was closed has no stream, and the
\* view no cells.
MapViewOfFile == \E m \in DOMAIN maps, offset \in 0 .. 1 :
    LET on == {i \in InUse : files[i].handle = maps[m]}
        i == Min(on)
    IN  /\ IF on = {} THEN view' = NoView /\ UNCHANGED <<disk, files, spoilt>>
             ELSE /\ IF Injected(i)
                       THEN /\ View(i, Cells(files[i].inj, offset, MaxLen + 1),
                                       Cells(win[files[i].path] \o Addition, offset, MaxLen + 1))
                            /\ files' = [files EXCEPT ![i].injPos = Len(files[i].inj)]
                            /\ UNCHANGED disk
                       ELSE /\ View(i, CopyFrom(i, offset), Cells(win[files[i].path], offset, MaxLen))
                            /\ Move(i, Max({offset, Len(Flushed(files[i]))}))
                  /\ Spoil(files[i].path, MapsWriter(i))
        /\ UNCHANGED <<handles, maps, win, winPos>>

FilesNext ==
    \/ CreateFile \/ ReadFile \/ WriteFile \/ SetFilePointer \/ GetFileSize
    \/ CloseFile \/ DeleteFile \/ CreateFileMapping \/ MapViewOfFile

FilesSpec == FilesInit /\ [][FilesNext]_fileVars

-----------------------------------------------------------------------------
(* Properties.                                                              *)

FilesTypeOK ==
    /\ \A i \in InUse :
          /\ files[i].pos \in Nat /\ files[i].injPos \in 0 .. Len(files[i].inj)
          /\ files[i].handle \in 0 .. handles - 1
    /\ Len(maps) <= MaxFilemap /\ handles \in 0 .. MaxOpens

\* What a stream keeps and the file it is for give the file Windows would have: no
\* write that a stream took is lost, doubled or put elsewhere, over any order of
\* reads, moves, size queries and closes, unless the guest asked of the file what
\* makes it `spoilt' (wg_win32_files.c:287-429).
WritesLand == \A p \in Path \ spoilt :
    IF OpenOn(p) = {} THEN disk[p] = win[p]
                      ELSE \A i \in OpenOn(p) : Flushed(files[i]) = win[p]

\* The stream is where Windows would be (wg_win32_files.c:404-455): the size
\* query and the two kinds of seek do not move the guest's position, as long as
\* the file was not mapped.
PositionsAgree == \A i \in InUse :
    files[i].path \notin spoilt /\ ~Injected(i) /\ maps = <<>> => files[i].pos = winPos[i]

\* A view of an open file shows it (wg_engine.c:1006-1011).
ViewsShowFile == view.copied = view.right

\* The files the guest sees are those Windows would show, through streams and
\* through views (wg_win32_files.c:287-582).
FilesConsistent == FilesTypeOK /\ WritesLand /\ PositionsAgree /\ ViewsShowFile
=============================================================================
