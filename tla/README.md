# WineGlass-Native in TLA+

WineGlass runs a Windows program inside an application: a vendored x86 emulator
(blink) executes the guest's instructions, and every call the guest makes to a
Win32 function traps into `Sources/Core/wg_engine.c`, which carries it out. This
directory specifies that engine and the services around it: kernel objects and waits,
the locks, both kinds of guest threads, heaps, the loader, files, sockets, HTTP, TLS,
windows, dialogs, Direct3D, the C runtime, paths and the built-in interpreter. The
modules are checked with TLC, and the invariants that matter most are proved with
TLAPS.

Paths below are relative to `src/Sources`; line numbers are of the commit in `src/`.
`PROJECT.json` lists the components with what is left out of each, the runs, the
hazards at their lines, and for every definition the code it stands for.

## 1. Inventory

How the parts fit together. The loader puts an image into the guest's memory and
binds its imports to *thunks*, addresses at which the emulator stops; the *handler*
of the function (`handle_blink_thunk`) then runs in the engine and sets the result.
Guest threads come in two kinds. With `WG_REAL_THREADS` a guest thread is a pthread
with a Machine of the emulator over one shared memory: its loop takes the *GIL*, runs
a slice of instructions, gives the GIL up, and, when the slice ended at a thunk, takes
the GIL again for the handler, so that guest code and handlers of all threads exclude
each other. A handler that blocks brackets its wait with `wg_thunk_block_begin` /
`wg_thunk_block_end`, which give the GIL up and take it back; meanwhile it waits in
`Win32/wg_sync.c` or in the SRW locks of the engine. Without real threads a
cooperative scheduler (`Win32/wg_threading.c`) switches register files, and a handler
that cannot go on switches away and is executed again when its thread is resumed.
The remaining services (files, sockets, drawing, …) are tables the handlers keep. They
run one at a time under the GIL and share no state, except where stated below.

| Component | State | Operations | What is hard | What makes it correct |
|---|---|---|---|---|
| Kernel objects and waits, `Win32/wg_sync.c` | 4096 object slots, one mutex and one condition `g_cond` for everything, the probe table `s_waitq` | create ×5, set, reset, pulse, release ×2, thread exit, wait for one / many, CV sleep and wake, close, two kicks | lost wake-ups, wait-all atomicity, slots reused under waiters, the reacquisition after a sleep, timeouts | the Win32 contract of each kind of object; nobody stays parked whom the objects allow to go on |
| GIL, `Core/wg_engine.c:159-434` | owner, depth, preferred next owner, contenders, per-thread pin counters | lock, unlock, block begin / end, prefer, pin | pinned releases that do not release, hand-off to a thread that does not come | one runner; a blocked thread never owns it; it moves on |
| SRW locks, `wg_engine.c:574-707` | table of pointer → (readers, writer), one overflow entry | acquire, try, release, each shared and exclusive; force-clear | the overflow entry is shared, the breaker clears held locks | readers or one writer; counters are what is held |
| WaitOnAddress, `wg_engine.c:3355-3402, 6471` | a mutex, a condition; guest memory | wait (1 ms poll), wake | waits inside the handler | a store ends the wait |
| Guest critical sections and condition variables, `wg_engine.c:525-563, 6232, 6991-7015` | two maps pointer → handle | enter, try, leave, sleep, wake | the sleep must release the lock that is held | the documented idiom excludes and terminates |
| Real guest threads, `wg_engine.c:436-511, 9150-9460` | worker arguments, 64 resume gates, 32 TLS / FLS rows, thread objects | create, suspend, resume, exit, join, close | steps outside the GIL, tables keyed by reused handles, failing creation | a join means the thread ended; rows are private |
| Cooperative threads, `Win32/wg_threading.c`, the non-real branches of the handlers | 32 thread slots, current, events, CV generations, pending calls | create, save, switch, yield, wake, exit, wait, pause and tick | a handler that has switched runs again; nobody may be left parked | one thread is current; a ready thread gets its turn; waits end |
| Queues, `wg_engine.c:1079-1165` | completion ring, thread-message ring | post, get, push, pop | full rings drop, removal from the middle shifts | accepted messages arrive once, in order |
| Guest heaps, `wg_engine.c:1686-2113` | two bump pointers, tables of blocks and free blocks, a commit bitmap | alloc, free, reserve, commit, decommit, release | exact-fit reuse, the thunk hole, wrap, tables that fill, zeroing | live blocks are disjoint and hold what Windows promises |
| Import resolution and modules, `Win32/wg_dll_mapper.c`, `wg_engine.c:700-923` | thunk table, module table, stacks | register, resolve, stub, load a DLL, find an export | the table grows while pointers into it are out; a program follows another | pointers and handles lead where they were meant; nothing overlaps |
| PE loader and address space, `PE/wg_pe_loader.c`, `Memory/wg_memory.c` | the parsed image, regions, mapped pages | parse, rebase, map, bind, read, write | rebase before mapping, sections cut short | memory is the file, linked at its base |
| Files, `Win32/wg_win32_files.c` | 64 handles over C streams, mappings | create, read, write, seek, size, map, close | buffered streams against Windows positions | a byte lands where Windows would put it |
| Paths and the program chain, `wg_win32_files.c`, `wg_engine.c` | bottle, current directory, program path, find handles, counter of temporary names, pending program | map, canonicalise, combine, search, temporary file, make directory, CreateProcess | many spellings of one file; state that outlives a program | spellings agree; searches list; temporary files are new |
| Sockets, `Win32/wg_winsock.c` | socket table, completion bindings | socket, connect, ConnectEx, send, recv, select, events, close | non-blocking connect, its one report, scattered receives | completions and select tell what happened |
| Names and addresses, `Win32/wg_winsock.c:157-286, 633-878` | one scratch region of guest memory | getaddrinfo, gethostbyname, peer name, text forms | layouts of two systems, one region for all lookups | an address means the same to guest and host |
| HTTP client, `Win32/wg_winhttp.c` | handles of sessions, connections, requests | open … read data, close | redirects reopen the link, bodies in pieces or cut short, failing calls | what was sent once and in order, from the right host |
| TLS channel, `Win32/wg_schannel.c` | contexts, sessions, left-over input | handshake steps, encrypt, decrypt | records arrive in any pieces | streams in order, contexts kept apart |
| Windows, GDI, bitmaps, compositor, `Win32/wg_win32_*.c`, `Graphics/WGCompositor.m` | windows with client buffers, recycled DCs, bitmaps, brushes, fonts | create, paint, blit, line, text, load a picture, upload | DCs are recycled slots; the compositor reads on another thread | what is drawn lands where it was meant and is shown |
| Dialogs, `wg_engine.c:1351-1695, 5413-5660` | one modal dialog, pages, controls, a stack of callers | DialogBox, CreateDialog, SendMessage, nsDialogs, EndDialog, taps | calls into guest procedures, nested, on the guest's own stack | each caller resumes where it stood |
| Direct3D 11 over Metal, `Win32/wg_d3d11.c`, `Graphics/WGMetalBackend.m` | 4096 COM objects, Metal wrappers, bindings, command queues | IUnknown, create, view, bind, map, draw, clear, present, resize | the GPU runs behind; wrappers are shared, owned and freed | counts are lifetimes; frames are as drawn |
| C runtime, `wg_engine.c:2764-3201, 5255-5998` | guest memory | string, memory, search, conversion, printing, cast | page-wise copies, limits, two character widths | what C and Windows promise |
| x86 interpreter, `CPU/` | registers, flags, memory | decode, step | flags at the width's boundary, lengths of encodings | the instruction set |
| Main tick and watchdog, `wg_engine.c:9979-10482` | stall counters, time stamps | tick, detect, kick | kicks race real signals | a kick only makes waits return early |
| Guest exceptions, installer extraction (vendored LZMA), self-test and logging, application shell | — | — | — | — |

## 2. Modules

| Module | Models | Builds on |
|---|---|---|
| `WgSync` | `wg_sync.c`, every operation | |
| `Win32Objects`, `WgSyncRefinement` | what kernel objects promise; `WgSync` implements it | `WgSync` |
| `WgSync_proofs` | theorems about the monitor, its objects and its tables, and that `WgSync` keeps the promises of `Win32Objects` | `WgSyncRefinement` |
| `SrwLock`, `SrwLock_proofs` | the SRW locks; theorems | |
| `Gil`, `Gil_proofs` | the directed GIL, pins, hand-offs, worker exit; theorems | |
| `AddressWait` | WaitOnAddress, called under the GIL | `Gil` |
| `GuestCv`, `GuestCv_proofs` | guest locks and condition variables, and the idiom that uses them; theorem | `WgSync`, `SrwLock` |
| `ThreadLife`, `ThreadLife_proofs` | guest threads from creation to exit; theorems | `WgSync` |
| `CoopSched`, `CoopGuest`, `CoopGuest_proofs` | the cooperative scheduler; the handlers of single-threaded guests over it; theorems about both and the rings | `Ring` |
| `Ring`, `Mailbox` | the two rings; the bounded mailbox they implement | |
| `Heap64`, `GuestHeap` | region 3; the 32-bit heap beside it | |
| `Modules`, `PeImage` | address-space layout, thunks and modules; images and regions | |
| `Gdi`, `Pictures` | windows, DCs, bitmaps, compositor; picture files | |
| `Dialogs` | dialogs, pages, controls, calls into the guest | |
| `GuestProgram_proofs` | theorems about both heaps and about dialogs | `GuestHeap`, `Dialogs` |
| `D3d11` | COM objects, pipeline state, GPU queue | |
| `Crt`, `X86`, `Paths` | natively answered C functions; the interpreter; paths | |
| `Files`, `Sockets`, `NetAddr`, `Http`, `Tls` | the services a guest does I/O through | |
| `GuestIO_proofs` | theorems about files and sockets | both |
| `MC*` | model values, guest programs and instances for TLC | |

Two MC modules put independent parts side by side. `MCGuestIO` has files, sockets, HTTP,
TLS and names; `MCGuestProgram` the heaps, modules, images, drawing, dialogs,
Direct3D, interpreter, C runtime and paths. In each behaviour one part
runs and the others stay as they began: the parts share no variables in the code,
so products of their states would be checked for nothing. Where two components do
share state they are composed for real: the GIL with WaitOnAddress, `wg_sync` with the
SRW locks and the guest's condition variables, `wg_sync` with thread life, the
scheduler with both rings and all cooperative handlers, both heaps with one table of
blocks, windows with DCs, bitmaps and the compositor.

In most modules the guest is a constant set of *guest programs*: what they call, and with what.
Histories (marked so) record what the guest was promised; the properties compare them
with what the code's state says. What a guest may do that the code does not support is, where
that is possible, part of the behaviours: a history says which thread, file, socket, connection
or picture it has spoilt (`early`, `spoilt`, `fresh` and `own`, `left` and `astray`, `cut`, `robbed` and
`wasted`), and the properties hold of all others. What cannot be told apart so is named by a
constant (`Careful` of `CoopGuest`, `MaxTracked`, `OneList`, `SourcesLast`, `OneDevice`), and the
guest stays clear of it. Section 6 says for each what happens then.

### WgSync

`objs` is `g_objs`; a handle is a slot, so that a slot that was closed and allocated
again answers to the same handle. Each function runs under `g_lock` and is one action. A
function that waits is cut at `pthread_cond_wait`: its arguments stay in `call[t]`,
the thread goes into `parked`, and the next turn of its loop is an action that is
enabled when a broadcast has emptied `parked`. `waitq` is `s_waitq`; `ret` the code the
last wait returned. `Turn` is the body of both wait loops: a dead handle fails
the wait, a satisfied one takes the objects, a poll gives up, anything else parks.
A finite timeout may elapse at any moment; then a single wait looks at its object
once more and a multiple wait does not, as in the code. Spurious wake-ups add
nothing: a thread taken out of `parked` only re-checks. Left out are the pure reads
(`wg_sync_is_known`, `wg_sync_thread_exit_code`), the dump, and exit codes.

### Win32Objects and WgSyncRefinement

The abstract specification has the objects and, per thread, the call it is in: set,
wait, grant are atomic, a wait is granted only when its objects allow it, a wait-all
takes everything or nothing, a wait-any the lowest index, a sleep gives its mutex
up and comes back owning it. `Rouse` is the watchdog: any events set and any condition
variables woken at once. Its fairness says that what stays grantable is granted.
`WgSyncRefinement` maps `objs` and `call` and hides `parked` and `waitq`. A sleeper is
`awake` in the abstract sense as soon as the generation of its condition variable has moved
on, before its thread runs. The refinement is stated in two parts: `KeepsPromises`, that each
step is one of the abstract objects or none, and `GrantsWaits`, that the abstract fairness
holds. Together they are the implementation of `W!AbsSpec`.

### Gil and AddressWait

`owner`, `rec`, `prefer`, `waiters` are `s_dir_*` and `s_gil_waiters`; `csHeld`,
`spinPin`, `pinSlices` the pins (`WG_CS_PIN`, `WG_SPIN_PIN`); `at[t]` says where in
its loop thread t is: out, wanting, in (slice or handler), blocked, back. `Release`
is `dir_unlock` with the pins and their cap. `AddressWait` adds one guest word and
the one handler that polls while it owns the GIL.

### SrwLock

`table` maps pointers to entries in order of first use; beyond `SrwMax` all pointers
share one overflow entry. `srw` holds readers and writer, `acq` the acquisition a
thread is in, `held` what each thread holds (history), `kicked` whether the breaker
ever ran (history).

### GuestCv

Consumers sleep on a condition variable inside a lock until a producer publishes and
wakes; the lock is a critical section or an SRW lock. Only the guest program is
assumed (its operators are marked external); the handlers are the engine's.

### ThreadLife

A worker goes none → made → (gated) → run → ended → signalled → gone, or failed.
`Spawn` is `wg_spawn_real_thread`: the object, the TLS row, the gate and the pthread
in this order. Exit steps of other workers run outside the GIL and can fall between
them, but touch either the object table or the row pool in a way that commutes with
the steps they would be moved across, so that one action does. `Begin` is the start
of the pthread up to its gate, `SignalExit` and `FreeRow` are its last two steps.
`ResumeThread` sets the flag of the first gate with the handle and wakes one
waiter. Joins are `WgSync`'s waits. With the object table full the handle is 0 and
the pthread runs without the guest knowing it.

A guest may close a handle before its thread ended, as in `CloseHandle(CreateThread(...))`. The slot of
the object is then free while the worker still has its number, and the worker's exit signals
whatever object took its place (`wg_engine.c:9408`, `Win32/wg_sync.h:56`). `early` records the
workers whose handle was closed so. `SignalledMeansEnded` says that nothing else goes wrong: a thread
whose procedure has not returned is signalled only by the exit of a worker in `early` that had its
slot, so every join means what it says in a program that closes no handle early.

### CoopSched and CoopGuest

`CoopSched` is the table of `wg_threading.c` as a value, with `Yield`, `Switch`, `Wake`
and `Exit` as functions of it; the scan starts behind the current thread.
`CoopGuest` has one action per handler. `call[t]` is the call a
parked or polling thread makes again: in the code the handler switches with the
program counter still on the thunk. `due` and `since` are the clock of a finite wait
(`wait_start_ms`) and the generation a sleeper saw. `ShowDialog`, `Tap` and
`TickPaused` are the pause of the engine for the user, `Preempt` the end of a slice,
`Load` a second program over the tables the first one left. The events keep their free
list and the two rings are `Ring` values.

### Ring and Mailbox

`Ring` has one cell always empty; `PopFor` takes an entry from the middle and moves
the ones behind it. `Mailbox` is a bounded queue from which each addressee takes its messages in order;
`CoopGuest` instantiates it twice (`RingsImplementMailbox`), so dropping is allowed only when full and only
before acceptance.

### Heap64 and GuestHeap

Addresses are pages. `Heap64` is region 3: reserve takes an exact fit from
`free64` or bumps `ptr64`; commit backs pages and zeroes those that were not
committed; `alloc64` and `free64` are sets. `expect` is what Windows promises a page
to read as. `GuestHeap` extends it with regions 1 and 2, the hole over the thunks,
alignment, the size table and the 32-bit free list, and with guests of 32 and 64
bits that decide by size which heap they reach.

### Modules and PeImage

`Modules` follows the life of a program: mapped image, thunk pages, DLLs placed one
after the other, stacks, heap, the pages the engine itself writes (which move for a large 64-bit image),
automatic stubs appended to the mapper's table for unknown imports of a program or a plug-in, unknown names
and ordinals, and the program after it over the same table. A call pops what the found entry
says. The pages `gethostbyname` and `inet_ntoa` write are fixed: `MappedApart` asks that they lie
within the engine's for programs whose image does not reach there (section 6).
`PeImage` has files of words; `Load` is parse, rebase, map, bind in the code's order,
and its result is compared with what a linker would have made of the file
(`ImageAsLinked`). Regions are those of the interpreter build.

### Gdi, Pictures, Dialogs

A canvas holds one ink, except for lines, which have pixels. DCs are slots with a
handle that is reused, across windows and memory bitmaps: a window's keeps the mark of a memory DC that had
the slot, and a picture drawn through it misses the window. `astray` records that. `marking` is the moment between drawing on a window and marking
it dirty, during which the compositor, on the main thread, may read. `Pictures` decodes
bitmap files byte by byte. In `Dialogs` each thread has a guest stack of calls; a call of a window procedure
pushes the caller's registers on `s_callstack` and a return address that traps. The
sentinel's handler must find the entry of the level that returns.

### D3d11

`objs` is `s_objs` and a guest pointer an index into it; `gpu` are the wrappers
(`WGMtlDevice`, `…Swapchain`, `…Resource`, `…View`) those lead to, which stay in the
sequence when freed so that a dangling one is seen. A device's `cur` are the raw pointers
`wg_encode` reads. Drawing appends a command to the device's queue; `Execute` is the
GPU. A buffer has versions because `wg_gpu_update_buffer` replaces the Metal buffer
while commands keep the old one. Against this stand the histories: references the guest
owes, the objects it has bound, and `ideal`, the textures as they would be if each
call took effect at once.

### Crt, X86, Paths

`Crt` and `X86` are algorithms: operators translated from the code, run from every input
of small sets (`Memories`, `Formats`, `Layouts`; programs in `Codes` with two seeds) and
compared with reference definitions written from the C standard and the processor's manual, not from
the code. `X86` decodes by itself and is compared with the layout the assembler
chose. `Paths` keeps directories and files of the host
across programs and restarts of the application, and everything the engine caches about paths.

### Files, Sockets, NetAddr, Http, Tls

`Files` puts Win32 handles over C streams: what a stream buffers and where it is, against
`win`, the file as Windows has it, and `winPos`. A write may name its own offset, a file may be open several times,
a stream may append or be viewed while it is written: `spoilt` records the files of which the guest has asked what
the streams do otherwise (the operators `AsWindows`, `Places`, `Appends`, `MapsWriter` say which these are), and
the properties are about the others.

`Sockets` has the host's sockets beside the table, an action for a peer that accepts, refuses, sends or closes at any time,
and a receive that waits in the host while it holds every other call up. Reports and associations are kept by slot, and a
slot is given to the next socket as it is. `fresh` and `own` record, for each descriptor, whether it found the slot
clean and the table with room.

`NetAddr` lays structures out word by word, for 32-bit guests as the code always does, in the region at `gaiBase`, which
lies above the image of a large 64-bit program, while gethostbyname's page does not move. `wide` says what the guest is:
what a list means is asked of a 32-bit guest, that nothing is written beside the region of every one.

`Http` has servers that answer in pieces, redirect by name or by path, close early, send nothing or stay silent. The buffer
has its capacity: what came with the headers, or 65536 bytes (`Full`, which no read exceeds). A refill that does
not fit is written past its end, and the behaviour stops there (`busy.with = "overrun"`), as nothing
is defined after it; `OverrunsAre` says where that can happen, which is a body of which a part, and not all, came with the
headers, read with QueryDataAvailable. `left` are connections that a request sent again has left open, `astray` requests whose host
the code no longer knows: the connect handle was closed, or a host they were redirected to redirects by path.

`Tls` has SecureTransport as an external session that eats its stream record by record. The stream arrives cell by cell
and the guest hands over what it has at any moment, so records come whole, in pieces or two at a time. The session
keeps what it ate of an incomplete record, while the answer, SEC_E_INCOMPLETE_MESSAGE, makes the guest keep its buffer
and hand it over again with what arrives: the record then fails its check. `cut` records the connections to
which that happened, or whose data came in one buffer with the end of the handshake, and `StreamEatenOnce` holds of the others:
a session is never fed another connection's bytes, nor its own twice, otherwise. `robbed` are contexts whose slot another
context of the same credential took, `wasted` credentials freed before a context was made with them.

## 3. Runs

| Run | Instance | Shows |
|---|---|---|
| `reuse` | 2 threads, 2 slots, all five kinds, close, both kicks, timed waits | `TypeOK`; `NoLostWait`: nobody stays parked on a wait its objects allow, although slots change kind under their waiters; `ObjectsExact`: the probe table names the waiters, counts stay in range |
| `sync_live` | 2 threads, 2 slots, events, mutexes, CVs, singles and pairs, fair | `KeepsPromises` and `GrantsWaits`, the refinement of `Win32Objects`; satisfied, woken and timed waits return; a sleeper comes back owning at its depth; mutexes change hands only by their owner |
| `srw` | 3 threads, 1 table entry + the overflow entry, 2 holds, breaker at any moment | exclusion, exact counters, no lost wake-up, a free lock is taken |
| `gil` | 3 threads, both pins, cap 2, exits, timed address waits | one runner, a blocked thread owns nothing, exact contenders, the GIL moves on |
| `guest` | 2 consumers, 1 producer, either lock | the idiom excludes; over a critical section the program finishes |
| `threads` | 3 workers, 1 handle, 2 rows, 2 gates, failures, handles closed at any time | rows accounted for and private; join means ended, but for a slot that a worker closed early still has; resume and join return |
| `coop` | 3 slots, 2 events, rings of 3, 1 CV entry for 2 addresses, two programs one after the other | one current thread, no stale clock, nobody left parked, both rings are mailboxes, ready threads run, timed waits end |
| `io` | each service with two or three slots, so that tables fill and are reused (595,000 states) | `FilesConsistent`, `SocketsConsistent`, `HttpConsistent`, `TlsConsistent`, `NamesConsistent` |
| `program` | nine parts, each with its own guests | see below |
| `memmove` | a block moved up over itself and a page boundary | **violated**: the page-by-page copy reads bytes it has written (`Vendor/blink/wg_blink_impl.c:489`) |
| `addr_inf` | 2 threads, infinite timeout | **violated**: the waiter keeps the GIL from the thread that would store (`wg_engine.c:6475`) |
| `guest_srw` | as `guest`, SRW only | **violated**: the sleeper keeps its SRW lock (`wg_engine.c:7010`) |

The parts of `program` (200,000 states together), with what each property joins:

* heap: `PoolsConsistent` (blocks apart, free blocks unused, pages read as promised) and
  `HeapConsistent` (the same of the 32-bit heap, thunks untouched, pools aligned). Two
  regions of 4 and 8 pages with the hole of the thunks in the second, 4 pages of region 3,
  free lists of 2 and a size table of 4, so that the lists fill and each region ends. `MaxTracked` keeps
  the size table from being asked for a fifth entry (section 6).
* modules and image: `LoadedConsistent`. Three programs, each after any other over one thunk table, the third a large 64-bit one, two
  plug-ins with known and unknown imports, ordinals, threads, and 44 images.
* drawing: `DrawingConsistent`. Twelve painters over 2 windows, 2 DCs, 2 bitmaps, so that
  every slot is recycled, by one painter also from memory to window and back.
* graphics: `GraphicsConsistent` joins `OwnersCount` (a wrapper is freed by the last reference,
  once), `NothingDangles`, `OneContext` and `FramesAsDrawn` (once the GPU has caught up, each
  texture is as if calls had taken effect at once, and a frame shows what was presented). Six
  guests, 8 COM objects so that the table fills, two commands in flight. An in-place
  `wg_gpu_update_buffer` breaks `FramesAsDrawn` within a dozen steps.
* dialogs: `DialogsConsistent`. Two guests, one whose pages follow each other and one that makes a control
  late; two nested calls, three controls, two programs.
* interpreter: `InterpreterConsistent`. Operand widths of 2 to 6 bits; each program from every
  pair of seeds.
* runtime: `RuntimeConsistent`. One call from each memory; pages of 9 bytes, buffers of 7
  characters, moves of up to 4 bytes (64 MiB in the code), NULL sources, so that every limit is crossed.
* paths: `PathsConsistent`. Three guests, two runs of the application, programs that launch
  each other.

Bounds. Tables (`SrwMax`, `GateMax`, rows, handles, `MaxDcs`, `MaxCom`, rings) are made so small
that they overflow and are reused within a run: what differs at 4096 entries differs at 2 or 3. Two
actors and a third that interferes reach each interleaving of a pair of steps.
`Callers` says which threads of `threads` call: the main one and one worker; the others only live
and end. In `io`, `mcOneSpoilt` makes what spoilt a file the last that is asked of it before its handles are closed
(`FilesStayConsistent` shows for any guest that others are not disturbed), `mcConfigured` keeps configuration files there, `mcOneSender` has
one peer send in programs that close sockets, `mcOneSession` keeps the HTTP client's session, and `mcOneStream` gives data to the
TLS connection that begins first and seals one message as the last step; the others still shake hands, take slots and are
deleted. `mcAnswers` has nine answers of a server, one for each
end a body can have. `MaxCount` is 2 where a depth of one and a deeper one must be told apart. Counters that
would grow for ever (opens, loads, levels, handles made) are bounded in guards, and
each bound is a named constant marked `bound`. The probe table's 128 entries do
not fill with two threads: `WqSet` models a full one, and `ObjectsExact` is about one that
has room. No
run checks for deadlock: a guest may stop calling, and may deadlock by itself.

Fairness. A host thread that can run does (`WF` on each pthread's own next step): a
woken waiter gets `g_lock`, which nobody holds across a wait; a slice is a bounded
number of instructions; a contender for the GIL looks every millisecond; an SRW waiter
looks again within 200 ms (`SrwFairness`); a deadline passes (`WaitTimeout`,
`CvTimeout`, `Elapse`). In `CoopGuest` the emulator goes on with the call at the program counter
(`WF` on `Repeat`), slices end (`WF` on `Preempt`), clocks run, and the host's tick, which
is 60 a second, is not starved by the taps of a user between which it is disabled again
(`SF` on `TickPaused`). Nothing is assumed of a guest: it need not make a new call, release a
lock or end, except in `GuestCv`, where the program under test is the subject, and in
`AddressWait`, where a thread about to store does so when it gets a slice. The safety
runs state no fairness.

Runs that are violated each contradict a sentence of the repository, which the findings in
`PROJECT.json` quote.

## 4. Proofs

Each theorem holds for any number of threads, handles, requests, slots and pages and any
bounds, under the assumptions on constants that the modules name (`GilAssumption`,
`Heap64Assumption` …), which TLC evaluates on every run that extends the module. A theorem
with a further hypothesis says so below.

**Kernel objects** (`WgSync_proofs`).

* `TypeCorrect` (`Spec => []TypeOK`) and `NoWaitIsLost` (`Spec => []NoLostWait`).
  `TypeOK /\ NoLostWait` is inductive: an action either
  leaves alone all that the waits of parked threads look at, or empties
  `parked`, and a thread enters `parked` only from a turn that found nothing. The
  actions that change an object without a broadcast (taking objects in a wait,
  `ResetEvent`, a recursive release) can only make other waits less satisfied; that
  is the lemma the proof turns on.
* `MutexesConsistent` (owner exactly when the depth is positive) and `OwnersKeepMutexes` (no
  mutex passes from one thread straight to another, and a blocked thread keeps its own).
  The latter assumes `HeldOnly`, that a thread sleeps only with a mutex it owns:
  `wg_sync_cv_sleep` gives up whatever mutex it is handed. The inductive invariant adds
  `SavedPositive`, that every depth saved by a sleeper is positive: without it a relock could
  set an owner with depth 0.
* `NoSleepIsLost` and `SleepersReturnOwning`: a sleeper whose condition variable was woken, or is
  gone, is not parked, and whatever ended the sleep it returns in its mutex at the depth it had.
  The first assumes that condition variables are not closed (the engine closes none) or
  that no slot becomes a semaphore. Otherwise a slot that is closed and made again under a
  sleeper may be a semaphore whose count passes through the generation the sleeper saw: a
  semaphore's count falls without a broadcast. `SlotFates` says what a step may do to a slot
  (filled when free, emptied with a broadcast, or the same kind with a generation that only
  grows), `CallStep` what it may do to a call, and `CvSlots` carries the hypothesis along.
* `TablesExact`: a semaphore stays between 0 and its maximum, and `s_waitq` names exactly the
  threads inside a single wait. It assumes no more threads than the probe table has entries,
  128 in the code: beyond that later waiters are not recorded (`wg_sync.c:53`).

**The refinement** (`WgSync_proofs`). `WaitsAreAtomic`: `CvDiscipline` implies
`Spec => KeepsPromises`. Initial states map to initial states; each action is shown to be one
abstract step, or to change neither the objects nor the calls when these are read through the
mapping. A turn that takes objects is the abstract grant, an elapsed wait the abstract
timeout, a turn that parks is nothing, and a wake is the abstract `Wake` of everybody who slept
before it. The invariant it needs besides `TypeOK` is `SleepInv`: a
sleeper's condition variable and mutex are still that, and the generation it saw is not ahead
(without it "the generation moved on" would not mean "woken"), and `Semaphores`. `CvDiscipline`
asks of programs with condition variables that they hold the mutex they pass and close
neither mutexes nor condition variables. The condition variables, and the mutexes behind critical
sections, are made by the engine on first use and never closed, and the guest is not given their
handles; outside the theorem are programs that close a mutex of `CreateMutex` beside
them, which the model does not tell apart, and those that sleep over an SRW lock (the finding of
`guest_srw`). For programs without condition variables nothing is asked.

**SRW locks** (`SrwLock_proofs`). `SrwLocksAreSafe`: `SrwSpec => []SrwSafe`, exclusion and
exact counters until the breaker fires, no lost wake-up before and after. Two
pointers may share the overflow entry, and an entry counts holds of many threads on many
pointers, so the invariant counts holds one by one: `SharedHolds` and `ExclHolds` are the sets
of holds that lead to an entry. `Exact` says that its counters are their cardinalities,
`Counted` that they never exceed them, which is what the breaker leaves. `LookedUp` says
that a pointer held or waited for has its entry settled: without it a pointer could move from
the table to the overflow entry with its holds. `Acquiring` says that a parked writer neither
reads nor writes its entry.

**GIL** (`Gil_proofs`). `GilTypeCorrect`, `OneRunnerAtATime`, `BlockingReleases`. The
inductive invariant is `GilTypeOK`, `OneRunner` and `OwnerOutside`: an owner outside a slice is
one whose release was pinned, at depth 0, and one that waits or blocks is no owner.
`ContendersExact` (any finite set of threads) needs `OwnerOutside`, which excludes the
early return of `dir_lock` that counts nobody out. `AddressWaitsUseGil` shows that `AddrSpec`
implements `GilSpec`, so `AddressWaitersExclude` follows without a new invariant.

**Guest condition variables** (`GuestCv_proofs`). `OnlyOneInside` (`GuestSpec => []OneInside`): any
number of threads run the idiom over a critical section or an SRW lock, and at most one is inside,
through sleeps, wakes, timeouts and spurious returns. `OneInside` speaks of running threads
only, so `GuestInv` has to say what protects the one that runs. Over a critical section it is the
mutex behind it (`InsideOwns`), which a sleeper gave up and takes again before it returns.
Over an SRW lock it is the entry of the table, which a sleeper keeps: the sleep
gives up a mutex nobody holds (`InsideWrites`; why such programs make no progress is the finding of
`guest_srw`). `SyncShape` and `LockShape` say that the objects made on first use are of the
kinds expected and that nobody waits before they are there.

**Thread life** (`ThreadLife_proofs`). `RowsStayAccounted` and `TlsValuesKept` from `LifeInv`:
types, `RowsApart`, `RowsExact`, `OpenStarted`, `ThreadsOnly`. `RowsApart` has to speak of
workers whose `pthread_create` failed too, as these keep their row for ever.
`JoinsMeanEnded` holds for guests that close handles whenever they like; its invariant adds `OwnObject`, that the
slot a worker will signal by number is still its own unless its handle was closed early, and says of a slot
that was closed early and signalled again who may have done so.

**Cooperative guests** (`CoopGuest_proofs`).

* `OneCoopThreadRuns`: one thread is marked RUNNING and it is `current`, through yields, exits,
  pauses and loads, and the tables keep their types. `CoopInv` ties slots to handles (slots are taken in
  order and never given back) and keeps the completions for the one port.
* `SchedulerConsistent` assumes `RealTimeouts` (`WG_REAL_TIMEOUTS`, off by default): no wait
  takes an earlier one's clock for its own. With the flag off the code reads no clock, and what the fields
  hold means nothing. `ClockInv` says whose clock it is: a wait that is
  satisfied or expires forgets its handle, and sleepers and readers of the port wait for no handle.
* `RingsAreMailboxes`: both rings implement `Mailbox`, for rings of any size and without
  hypotheses. The lemmas are about arithmetic modulo `Cap`: what each operation, the
  removal from the middle included, does to the sequence of the contents.
* `NothingStaysParked` assumes `Careful`, that a guest closes an event once and when
  nobody waits for it (section 6). `ParkInv` says that the handle a thread is parked on is the
  one its call names, that whoever has ended is EXITED, and that no thread is parked on an event
  that is set, a thread that returned, or a port that has a completion. `UsesHeld` and `PausedIdle` keep a closed
  event, and a call interrupted by a pause, out of the way.

**Region 3** (`GuestProgram_proofs`). `PoolsStayConsistent` (`Spec64 => []PoolsConsistent`): whatever
the sizes of region, granule and tables and whatever the guest asks for, live blocks never
overlap, no free block overlaps a live or a known one, and pages read as promised.
`PoolsConsistent` is not inductive: a block may be reused, or an entry dropped from a full
table, and nothing in it says that what lies beyond the bump pointer is untouched or that
what is expected to be zero is backed. The invariant `Inv64` is
`Heap64TypeOK /\ TablesApart /\ Backing /\ ContentsAsPromised`, where `TablesApart` says
that known, free and live blocks lie below the pointer and apart, and `Backing` that
the committed pages of live blocks are those with a promise, while no page of a free
block or beyond the pointer is committed. Each of the five
operations is shown to keep each conjunct; the lemmas are about overlaps of intervals and
the rounding of `AlignUp`. The guest is assumed, as in the module, to write only to what it
holds.

**The 32-bit heap** (`GuestProgram_proofs`). `GuestPoolsConsistent`: `HeapSpec`, both heaps beside each
other, takes only the steps of `Spec64`, so `PoolsConsistent` holds of it too, without hypotheses.
`HeapStaysConsistent` (`[]HeapConsistent`): live blocks lie apart, inside the heap, outside the
hole of the thunks and where they may start, and no free block overlaps a live one.
`Inv32` adds what `HeapConsistent` is silent on: the bump pointer has passed every block
and lies in one of the two regions (`PointerInHeap`), and the size table knows every pool that is
live (`SizesKnown`), for a free of a pool believes the table. `OneProgram` assumes that the
table has room for every allocation and that no second program is loaded: section 6 tells
what happens with a full table, and the free list survives a load that resets the pointer.

**Dialogs** (`GuestProgram_proofs`). `DialogsStayConsistent`: under `OneDialog`, `[]DialogsConsistent`. The
property looks at the level that runs and at what the guest holds; the inductive `DialogsInv` says what is
below it. `CallsRight`: the frames on `s_callstack` are exactly the levels above the dialog's own that
return to the `SENDMSG` trap, in order, and frames and levels keep the registers of the code they interrupted
as long as no dialog has ended. `DialogRight`: the engine is paused only for a dialog that waits or for
`Show`, and `s_nsd_show_pause` is set for the second alone, so that no tap is swallowed.
`PagesRight`: `s_ctrls` has the frame's controls first and those of the one inner page behind them
(`Parted`), in the order they were made, so that a page which goes takes the end of the table and no
handle, being a place in it, shifts. The lemmas are about the loop of `wg_remove_ctrls` on such a
table (`WithoutSuffix`), a table that is filled up again (`MakesRight`), and a call and a return
(`Entered`, `ReturnsRight`). `OneDialog` assumes one thread and one modal dialog per program, no window beyond
`WG_MAX_WINDOWS` and none of the guest's own, controls on the frame only where no page follows, and
no load while a dialog waits. TLC finds `DialogsConsistent` broken by a guest outside each of these
(section 6), so each is a limit of the code and not of the proof.

**Files** (`GuestIO_proofs`). `FilesStayConsistent`: `FilesSpec => []FilesConsistent`, without hypotheses on the guest. The C
streams keep what was written until a flush, so `FilesInv` says of each open stream of a file that is not `spoilt` that the cells on
disk with the kept ones laid over them are what the guest wrote (`FilesRight`), that a
writer is the only stream on its file and not on a configuration file, which the engine extends
(`WritersAlone`), that a stream which no mapping moved is where Windows would be (`InPlace`), that a
file nobody has open is on disk (`ClosedFlushed`), and that views show the file. A spoilt file stays
so until it is deleted, and no step that spoils one touches another. The lemma the proof
turns on is `OverlayMore`: to keep one more cell is to write that cell over the file seen so far, and
to write kept cells out changes nothing that is seen.

**Sockets** (`GuestIO_proofs`). `SocketsStayConsistent`: `SocketsSpec => []SocketsConsistent`, for guests that close
sockets at any time, whatever the sizes of the tables, of buffers and of what arrives. `SocketsInv`: a descriptor of the host
has one slot or is closed (`DescriptorsHeld`), what a connection reported is what became
of it (`FdsRight`), a slot that was clean when its descriptor got it has reported that one's connection if the guest asked
(`ReportsRight`), an association of its own is that of its slot with its key (`BindingsRight`), and
who waits in the host waits for something that select has not called ready (`WaiterRight`).

Only model-checked:

* All liveness (`GrantsWaits`, `FreeLockIsTaken`, `GilMovesOn`, `CsProgramFinishes`,
  `ThreadsProceed`, `CoopProgress`), which is outside what TLAPS can do here.
* `InterpreterConsistent`: `X86` uses recursive operators and `Bitwise`.
* `RuntimeConsistent`, `PathsConsistent`, `NamesConsistent`: what folds over the guest's bytes, over the
  parts of a path and over a resolver's answers compute, for every input, is induction over
  data. So is the part of `DrawingConsistent` about lines and pictures, whose walk and decoding
  are recursive functions.
* `HttpConsistent`, `TlsConsistent`, `LoadedConsistent`, `GraphicsConsistent`: the runs check them
  within their bounds, and there is no theorem.

## 5. Not modelled

* The fair and the plain GIL (`WG_NO_DIRECTED_GIL`): other code with the same promises, off by default.
* The watchdog's decision when to fire: counters over wall-clock time. Its kicks are
  modelled, allowed at any moment, which is more than it does.
* Guest exceptions (`wg_engine.c:2533-2538`): the dispatch is compiled in but switched off by two
  static flags nobody sets.
* Software breakpoints and traps of the engine's probes, logging and the self-test: diagnostics.
* `Graphics/wg_dxbc.c`, the translation of shader bytecode to Metal's language: a printer
  of text whose meaning is another compiler's; the film player and the viewer's render loop, which
  shows whatever the back buffer holds.
* Extraction of installers: a one-shot conversion around vendored LZMA. `wg_openssl_shim.c`: nobody calls it.
* The emulator itself is vendored: its instructions are steps of the guest, its copies into
  guest memory are in `Crt`.
* `wg_memory_unmap` and `wg_memory_protect`: nobody calls them. UIKit views, glyphs, fonts'
  metrics, dialog units, file times and attributes, the registry file, socket
  options: data without a promise of order.

What would come next: the counts and lifetimes of `D3d11` and the device contexts of `Gdi`, apart from what is
drawn through them, as theorems.

## 6. Observed while modelling

Visible in the models or on the way to them, and not runs of their own. Where a constant keeps
the guest clear of one, it is named.

Threads and locks:

* `wg_sync_pulse_event` sets and resets under one hold of the monitor, so that it
  releases nobody (`wg_sync.c:228`); no handler calls it.
* A thread that holds one overflow SRW lock shared and asks for another exclusively
  waits for itself (`wg_engine.c:608`). `wg_srw_kick` clears the table but not the overflow
  entry (`wg_engine.c:684`).
* A worker that ends with a pin wanted (`WG_CS_PIN`) keeps the GIL (`wg_engine.c:9416`).
* A failing `pthread_create` leaves object, row and gate taken (`wg_engine.c:9451`).
  `GetExitCodeThread` reports 0 for every real thread (`7104`). `_beginthreadex`
  (`6775`) goes to the cooperative scheduler in real-threads mode too.
* A resume gate is found by a handle that may be reused (`461`), and the TLS row of an ended thread
  is given out uncleared (`492`).
* Cooperative: a poll (`WaitForSingleObject(h, 0)`) yields and is executed again, so two
  pollers never return; `ExitThread` wakes no joiner (`7738`, comment `10913`); a tick on a
  paused engine whose current thread waits never takes the tap (`10221`); waits for several objects park on the
  first; finite waits for several objects or a completion never time out; exited slots are
  never freed; the free list of events survives a load (`9859`) and a double close, after either
  of which two events share a slot (`Careful`, `MaxLoads`).

Heaps and the loader:

* Once the size table (`WG_MAX_ALLOCS`) is full, an allocation that reuses part of a freed
  block is not entered, and its `VirtualFree` finds the size of the address's former owner: the block
  that goes back to the list overlaps what was given out behind it (`wg_engine.c:1700-1740`; `MaxTracked`).
* A failed 32-bit allocation moves the pointer to region 2. Freed blocks whose size is no
  multiple of the granule are not reused. The tables of region 3 and of 32-bit free blocks survive a second program
  (`MaxLoads`). A second VirtualFree of one pool is taken for a free of whoever has the address now: the
  guests of `GuestHeap` free what they hold once. A decommit of size 0 takes one page. `CommandLineToArgvW` bumps without looking at the end.
* Threads together with plug-in DLLs put stacks over DLLs; a module table that is full loads a
  DLL again; a DLL without relocations is put at its base without looking; a mapper that is
  full leaves the IAT unbound. `KillTimer` is two functions with different argument
  counts (`wg_dll_mapper.c:597, 854`). The cached COM query pointer survives a program (an address
  in the code; the model keeps the entry's index and looks the address up for the program that runs).
* `GetProcAddress` takes every ordinal for one of SHELL32 (`wg_engine.c:4580-4597`), so that another DLL's ordinal
  leads to a stub or a function that pops something else; `StackBalanced` excepts such pointers, as it does functions nobody knows.
  `LoadLibrary` of a DLL that is not there answers a handle, which the model leaves out.
* gethostbyname and inet_ntoa write to 0x00BF0000 and 0xA00200 whatever the program (`wg_winsock.c:738, 698`). In a large 64-bit
  program, for which the engine moves its own pages above the image, these are inside the image. In a small one the second is in
  the page of the command line. Images of 32 bits are taken to end below the engine's pages, at 10 MB.
* IAT slots are written as 8 bytes for 32-bit images too (`wg_engine.c:9660`). A truncated
  section is silently zero. Fixups outside the raw bytes are skipped for programs and applied for plug-ins.

I/O:

* Files. `WriteFile` ignores the offset of an OVERLAPPED, which `ReadFile` honours: the bytes go where the stream is
  (`wg_engine.c:7959-8047`). What is written to a handle of no file, a standard handle among them, is acknowledged in
  full and lost (`8039`), and to a stream that only reads, answered with TRUE and no bytes. A write after a read without a seek is
  undefined by C. Two handles on a file that is written do not see what the other's stream keeps. `OPEN_ALWAYS` appends wherever the guest
  seeks; `CREATE_NEW` truncates, and `TRUNCATE_EXISTING` makes, a file. A view moves the position, which a stream that writes then goes
  on from, and a view through a handle that was closed is empty. In the model each of these but the
  undefined ones marks its file `spoilt`. Mapping slots are never freed; handles
  grow into the ranges of events and sockets; files stay open over a load.
* Paths: `GetFullPathName` ignores the tracked directory, and with none tracked
  `GetCurrentDirectory` names another place than a relative open uses. The counter of
  temporary names starts again while the files stay, and `GetTempFileName` empties what it
  meets. `C:\..\x` leaves the bottle's drive. The last of several CreateProcess calls wins.
* Sockets: bindings and reports are kept by slot and survive `closesocket`, so the next socket of the slot reports no
  connection and completes with the earlier one's key (`fresh`, `own`); `lpBytes` NULL
  makes a completion report 0 bytes; a ConnectEx that times out or fails while it waits leaves the socket non-blocking; a
  receive holds the engine up; `select` ignores its timeout.
* Names: a second `getaddrinfo` overwrites the first list (`OneList`); a host that is not found is the loopback. Lists and
  hostents have the 32-bit layout for 64-bit programs too (`wg_winsock.c:809-820`), which find no pointers where they look: `NamesConsistent`
  asks what a list means of 32-bit guests only.
* HTTP. The buffer for the part of a body that came with the headers has just that size, and `QueryDataAvailable` refills it with
  up to 65536 bytes (`wg_winhttp.c:344, 817`): a body that does not come with its headers is written past it. A body that the server cuts short ends
  like a whole one, with TRUE and 0 available. Sending again, after a failure too, leaks the link (`left`), and
  a send that fails keeps it. Reading more than was
  announced and chunked bodies, which are not decoded, hold the engine up, and so does a server that connects and never answers, which
  is not in the model. A redirect by path goes to the host of the connect handle, whoever redirected, and
  a closed connect handle may be another's by then (`astray`). The modelled guest sends again only without a response, asks for one response per
  send, and for data after that; allocations do not fail.
* TLS. After SEC_E_INCOMPLETE_MESSAGE the guest hands its bytes over again, which the session has eaten (`wg_schannel.c:540`): a
  record in pieces breaks the channel, and so does data that comes with the end of the handshake, which stays in the
  slot until DecryptMessage replaces it (`cut`). A second context of one credential takes the slot, and the session, of the first (`robbed`). A credential freed unused
  keeps its slot for ever (`wasted`). A token that finds no buffer is dropped (`305-316`), and the server never answers. A context whose first call fails
  is left to the guest to delete. A record whose payload is 32 bytes or
  fewer is put into the data buffer alone, which has only the message's size, and a cipher that adds more than the 32 bytes of the trailer
  finds no room either: the rest of the record is
  lost, and the call reports success (`wg_schannel.c:448-454, 469-497`). `RecordPlaced` is about the others.

Drawing:

* `CreateSolidBrush` hands out the first brush again when the table is full, so that a
  later brush of another colour is drawn with the first one's (`wg_win32_gdi.c`; `brushes` of a painter).
* `EndPaint` is not handled while `BeginPaint` takes a DC, so 32 paints use the table up; a DC slot
  keeps what its last owner had selected, and a window's DC in a memory DC's old slot is still one for pictures, which
  then miss the window (`wg_win32_gdi.c:55-71`); `StretchDIBits` answers as drawn when the bitmap table is full and nothing
  was (`astray`); fills and text on a memory DC draw nothing; DCs,
  brushes and fonts survive a load; the compositor clears the dirty flag after its
  copy, so that what is drawn in between is shown with the next change only.
* Dialogs: two threads that call procedures, or two nested kinds of dialog, restore each other's
  registers; class procedures are never recorded; `SendMessage` beyond 64 nested calls and
  controls beyond 160 are dropped. A control's handle is its place in `s_ctrls`, so controls of the frame or of a
  second dialog that were made after a page's move down when the page goes, and their handles lead to
  others (`wg_engine.c:1469-1474`); the page is retired by `s_inner_page`, which an own window may share
  after a load. A load while `Show` waits leaves `s_nsd_show_pause` set, and the next dialog's first tap is
  lost (`OneDialog`).
* Direct3D: a shader-resource view shares its resource's wrapper and takes no reference, and bindings keep
  raw pointers, so that giving the resource back first leaves both dangling (`SourcesLast`).
  `CreateSwapChain` uses the factory's device, not the one it is passed: with a factory of its own
  a frame is presented on another queue than it was drawn on (`OneDevice`). Entries of the
  object table are never used again, and a full table returns null with `S_OK`.
  `GetImmediateContext` counts no reference. A depth state is expected under
  method 22 (`wg_d3d11.c:428`), while the table at 475 has it among 20 to 23 in another
  order, so one made by method 21 disables the depth test. What is
  written to a mapped texture, or a mapped buffer of more than 4 MB, never reaches
  Metal. The first no-overwrite map of a buffer replaces its initial contents by zeroes.

Algorithms:

* `memmove` upwards over pages, the finding of `memmove`. `lstrcmp` in its wide and
  caseless forms always answers 0; `LCMapStringA` treats its text as wide, and what is longer than 512 characters is written to 511 and reported whole;
  copies of more than 64 MiB do nothing; `_msize` is a
  constant; a format that ends in `%` runs past its end; conversions with too little room fill it; a
  cast to an ambiguous base takes the first.
* Interpreter: a 64-bit `ADD` never sets CF; byte operations set flags at 32 bits; an immediate after
  `66` is fetched with 4 bytes; a RIP-relative operand before an immediate is displaced from the wrong place;
  `ADC`, `SBB`, `MUL`, `DIV` are decoded and skipped. The programs of the run use the forms that work.
