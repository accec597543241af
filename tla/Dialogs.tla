------------------------------ MODULE Dialogs ------------------------------
(***************************************************************************)
(* Dialogs and the calls they cause (wg_engine.c): the one modal dialog, the *)
(* pages inside it, their controls, and calls of window procedures, which    *)
(* the engine makes by pointing the guest's stack and instruction pointer at *)
(* the procedure and remembering the caller in s_callstack.                  *)
(* A guest stack is a sequence of calls; level n of thread t's stack is its  *)
(* nth, and <<t, n>> stands for the register values of the code that runs    *)
(* there.                                                                   *)
(***************************************************************************)
EXTENDS Integers, Sequences, FiniteSets, Functions, SequencesExt

CONSTANTS
    DialogGuests,         \* what a guest does, see DialogsAssumption
    MaxCalls,       \* the size of s_callstack
    MaxControls,    \* the size of s_ctrls
    MaxFrameWindows,     \* WG_MAX_WINDOWS
    MaxLevel,       \* bound: levels of a guest stack
    MaxMade,        \* bound: controls a guest makes
    MaxReloads        \* bound: programs loaded

\* threads: which call procedures; nests: dialogs are opened inside procedures;
\* others: windows that are not pages; late: controls are put on the frame after
\* a page; dialogs, windows: how many it opens; quits: it is replaced while it waits.
ASSUME DialogsAssumption ==
    /\ {MaxCalls, MaxControls, MaxFrameWindows, MaxLevel, MaxMade, MaxReloads} \subseteq Nat
    /\ \A g \in DialogGuests : /\ {g.nests, g.others, g.late, g.quits} \subseteq BOOLEAN
                         /\ 1 \in g.threads /\ {g.dialogs, g.windows} \subseteq Nat

VARIABLES
    frameWindows,    \* s_wm: [alive, proc, kind], in order of creation
    ctrls,      \* s_ctrls: [hwnd, text, made]; made is history: which control it is
    innerPage,  \* s_inner_page
    nsdPage,    \* s_nsd_page
    dlg,        \* s_dlg_*: [active, hwnd, ret]
    callstack,  \* s_callstack
    cpu,        \* where each thread runs: [on, level, regs]
    stack,      \* the calls on each thread's stack: [trap, entry]
    paused,     \* what the engine is PAUSED for: "no", "dialog" or "Show"
    showPause,  \* s_nsd_show_pause
    dialogGuest, reloads, dialogs, opened, nextMade,
    level,      \* history: the level each thread should run at
    modal,      \* history: the levels DialogBox was called at
    ended,      \* history: a dialog was ended in this program
    held,       \* history: control -> the handle the guest has of it
    wanted,     \* history: control -> the text the guest gave it
    kept,       \* history: the windows the guest has not destroyed or replaced
    unheard     \* history: a tap on a waiting dialog was lost

dialogVars == <<frameWindows, ctrls, innerPage, nsdPage, dlg, callstack, cpu, stack, paused, showPause,
                dialogGuest, reloads, dialogs, opened, nextMade, level, modal, ended, held, wanted, kept, unheard>>
callVars == <<callstack, cpu, stack, level>>
pageVars == <<frameWindows, opened, ctrls, innerPage, nextMade, held, wanted, kept>>
restVars == <<nsdPage, dlg, paused, showPause, dialogGuest, reloads, dialogs, modal, ended, unheard>>

None == [x \in {} |-> 0]
NoDialog == [active |-> FALSE, hwnd |-> 0, ret |-> <<0, 0>>]
Threads == {1, 2}
Main == 1
AtStart == [t \in Threads |-> [on |-> t, level |-> 1, regs |-> <<t, 1>>]]
Bottom == [t \in Threads |-> << [trap |-> "exit", entry |-> <<t, 0>>] >>]

DialogsInit ==
    /\ frameWindows = <<>> /\ ctrls = <<>> /\ innerPage = 0 /\ nsdPage = 0 /\ dlg = NoDialog
    /\ callstack = <<>> /\ cpu = AtStart /\ stack = Bottom /\ level = [t \in Threads |-> 1]
    /\ paused = "no" /\ showPause = FALSE
    /\ dialogGuest \in DialogGuests /\ reloads = 0 /\ dialogs = 0 /\ opened = 0 /\ nextMade = 1
    /\ modal = <<>> /\ ended = FALSE /\ held = None /\ wanted = None /\ kept = {}
    /\ unheard = FALSE

-----------------------------------------------------------------------------
(* Calls of procedures.                                                     *)

Runs(t) == t \in dialogGuest.threads /\ cpu[t].level > 0 /\ (t = Main => paused = "no")
Here(t) == <<cpu[t].on, cpu[t].level>>

\* Mutant of Frame: the arguments stay on the stack.
FrameDirty(t) == [on |-> cpu[t].on, level |-> cpu[t].level + 1, regs |-> cpu[t].regs]

\* What wg_call_wndproc_ovr remembers: the caller's place, with its arguments
\* gone, and its registers.
Frame(t) == [on |-> cpu[t].on, level |-> cpu[t].level, regs |-> cpu[t].regs]

\* The guest enters a procedure that returns to the trap.
Enter(t, trap) ==
    LET c == cpu[t] IN
    /\ stack' = [stack EXCEPT ![c.on] = Append(SubSeq(@, 1, c.level), [trap |-> trap, entry |-> c.regs])]
    /\ cpu' = [cpu EXCEPT ![t] = [on |-> c.on, level |-> c.level + 1, regs |-> <<c.on, c.level + 1>>]]
    /\ level' = [level EXCEPT ![t] = @ + 1]

\* wg_resolve_wndproc.  No handler stores the procedure of a window class: only
\* the pages of CreateDialogParam and the modal dialog have one.
Resolves(w) == (w = dlg.hwnd /\ w # 0) \/ (w \in DOMAIN frameWindows /\ frameWindows[w].alive /\ frameWindows[w].proc)

\* Armed: a call is made, or there is no room for it.
Armed(t) == callstack' = Append(callstack, Frame(t)) /\ Enter(t, "SENDMSG")

\* SendMessage and DispatchMessage.
SendMessage(t, w) ==
    /\ Runs(t) /\ cpu[t].level < MaxLevel /\ w \in DOMAIN frameWindows /\ frameWindows[w].alive
    /\ IF Resolves(w) /\ Len(callstack) < MaxCalls
       THEN Armed(t)
       ELSE UNCHANGED callVars
    /\ UNCHANGED <<pageVars, nsdPage, dlg, paused, showPause, dialogGuest, reloads, dialogs, modal, ended, unheard>>

\* A procedure returns; it gives back the registers it was entered with.
\* The dialog's trap pauses, the other goes on where the last frame says.
ProcReturns(t) ==
    LET c == cpu[t]
        top == stack[c.on][c.level]
    IN  /\ Runs(t) /\ top.trap \in {"SENDMSG", "DLG"}
        /\ IF top.trap = "DLG"
           THEN /\ cpu' = [cpu EXCEPT ![t].level = @ - 1, ![t].regs = top.entry]
                /\ paused' = "dialog"
                /\ UNCHANGED callstack
           ELSE /\ IF callstack = <<>>
                   THEN cpu' = [cpu EXCEPT ![t].level = 0]      \* RIP = 0
                   ELSE cpu' = [cpu EXCEPT ![t] = Last(callstack)]
                /\ callstack' = IF callstack = <<>> THEN <<>> ELSE Front(callstack)
                /\ UNCHANGED paused
        /\ level' = [level EXCEPT ![t] = @ - 1]
        /\ UNCHANGED <<stack, pageVars, nsdPage, dlg, showPause, dialogGuest, reloads, dialogs, modal, ended, unheard>>

-----------------------------------------------------------------------------
(* Controls and pages.                                                      *)

\* wg_remove_ctrls: the rest move down.
Without(cs, w) ==
    LET moved[i \in 0 .. Len(cs)] ==
            IF i = 0 THEN <<>> ELSE IF cs[i].hwnd = w THEN moved[i - 1] ELSE Append(moved[i - 1], cs[i])
    IN  moved[Len(cs)]

\* wg_wm_create_window's handle: 0 when the table is full.
NewWindow == IF Len(frameWindows) < MaxFrameWindows THEN Len(frameWindows) + 1 ELSE 0
Created(ws, kind, proc) == IF Len(ws) < MaxFrameWindows THEN Append(ws, [alive |-> TRUE, proc |-> proc, kind |-> kind]) ELSE ws
Destroyed(ws, w) == [x \in DOMAIN ws |-> IF x = w THEN [ws[x] EXCEPT !.alive = FALSE] ELSE ws[x]]

NoText == ""

\* A page's controls, as many as there is room for.
Controls(n, w) == [i \in 1 .. n |-> [hwnd |-> w, text |-> NoText, made |-> nextMade + i - 1]]
With(cs, more) == LET room == MaxControls - Len(cs)
                  IN  cs \o SubSeq(more, 1, IF Len(more) < room THEN Len(more) ELSE room)

\* The guest asks for n controls on window w, cs being what else there is.
Makes(n, cs, w) ==
    LET all == With(cs, Controls(n, w)) IN
    /\ nextMade + n <= MaxMade + 1
    /\ ctrls' = all
    /\ nextMade' = nextMade + n
    /\ wanted' = [m \in {all[i].made : i \in DOMAIN all} |-> IF m \in DOMAIN wanted THEN wanted[m] ELSE NoText]
    /\ held' = [m \in DOMAIN held \cap DOMAIN wanted' |-> held[m]]

\* wg_retire_inner_page.
RetiredPage(w) == IF innerPage # 0 /\ innerPage # w THEN innerPage ELSE 0

Frames == {w \in DOMAIN frameWindows : frameWindows[w].alive /\ frameWindows[w].kind = "frame"}
Inner(ws) == {w \in DOMAIN ws : ws[w].kind = "page"}

\* A page replaces the page before it: CreateDialogParam, whose template has n
\* controls, calls the page's procedure; nsDialogs::Create has none yet.
NewPage(t, n, called) ==
    LET w == NewWindow
        old == RetiredPage(w)
    IN  /\ Runs(t) /\ t = Main /\ Frames # {} /\ cpu[t].level < MaxLevel /\ opened < dialogGuest.windows
        /\ opened' = opened + 1
        /\ frameWindows' = Destroyed(Created(frameWindows, "page", called), old)
        /\ Makes(n, Without(Without(ctrls, old), w), w)
        /\ innerPage' = w
        /\ kept' = ((kept \ Inner(frameWindows)) \union {w}) \ {0}
        /\ IF called /\ Len(callstack) < MaxCalls THEN Armed(t) ELSE UNCHANGED callVars

CreateDialogParam(t, n) == NewPage(t, n, TRUE) /\ UNCHANGED restVars
NsCreate(t) ==
    /\ NewPage(t, 0, FALSE)
    /\ nsdPage' = NewWindow
    /\ UNCHANGED <<dlg, paused, showPause, dialogGuest, reloads, dialogs, modal, ended, unheard>>

\* nsDialogs::CreateControl and CreateItem answer with the new control's handle.
NsCreateControl(t) ==
    /\ Runs(t) /\ t = Main /\ nsdPage \in kept \cap Inner(frameWindows) /\ nextMade <= MaxMade /\ Len(ctrls) < MaxControls
    /\ ctrls' = With(ctrls, Controls(1, nsdPage))
    /\ nextMade' = nextMade + 1
    /\ wanted' = [m \in DOMAIN wanted \union {nextMade} |-> IF m = nextMade THEN NoText ELSE wanted[m]]
    /\ held' = [m \in DOMAIN held \union {nextMade} |-> IF m = nextMade THEN Len(ctrls) + 1 ELSE held[m]]
    /\ UNCHANGED <<frameWindows, opened, innerPage, kept, callVars, restVars>>

\* CreateWindowExW of a control on the frame, or of a window of the guest's own.
CreateFrame(t) ==
    /\ Runs(t) /\ opened < dialogGuest.windows /\ opened' = opened + 1
    /\ \/ /\ dialogGuest.late /\ Frames # {} /\ \E f \in Frames : Makes(1, ctrls, f)
          /\ frameWindows' = Created(frameWindows, "child", FALSE)
       \/ /\ dialogGuest.others /\ frameWindows' = Created(frameWindows, "own", FALSE)
          /\ UNCHANGED <<ctrls, nextMade, wanted, held>>
    /\ kept' = (kept \union {NewWindow}) \ {0}
    /\ UNCHANGED <<innerPage, callVars, restVars>>

DestroyFrame(t, w) ==
    /\ Runs(t) /\ w \in kept /\ (w \in Frames => Inner(frameWindows) \cap kept = {})
    /\ frameWindows' = Destroyed(frameWindows, w)
    /\ ctrls' = Without(ctrls, w)
    /\ wanted' = [m \in {ctrls'[i].made : i \in DOMAIN ctrls'} |-> wanted[m]]
    /\ held' = [m \in DOMAIN held \cap DOMAIN wanted' |-> held[m]]
    /\ kept' = kept \ {w}
    /\ UNCHANGED <<innerPage, opened, nextMade, callVars, restVars>>

\* GetDlgItem: the handle is the control's place in s_ctrls.
GetDlgItem(t, i) ==
    /\ Runs(t) /\ i \in DOMAIN ctrls
    /\ held' = [m \in DOMAIN held \union {ctrls[i].made} |-> IF m = ctrls[i].made THEN i ELSE held[m]]
    /\ UNCHANGED <<frameWindows, opened, ctrls, innerPage, nextMade, wanted, kept, callVars, restVars>>

\* SetWindowTextW of a control the guest holds (GetWindowTextW and
\* GetDlgItemTextW read the text back).
SetText(t, m, text) ==
    /\ Runs(t) /\ m \in DOMAIN held
    /\ ctrls' = [i \in DOMAIN ctrls |-> IF i = held[m] THEN [ctrls[i] EXCEPT !.text = text] ELSE ctrls[i]]
    /\ wanted' = [wanted EXCEPT ![m] = text]
    /\ UNCHANGED <<frameWindows, opened, innerPage, nextMade, held, kept, callVars, restVars>>

-----------------------------------------------------------------------------
(* The modal dialog.                                                        *)

\* DialogBoxParamW: a window with n controls; the procedure is called to set it up.
DialogBox(t, n) ==
    LET w == NewWindow IN
    /\ Runs(t) /\ t = Main /\ cpu[t].level < MaxLevel /\ dialogs < dialogGuest.dialogs /\ opened < dialogGuest.windows /\ opened' = opened + 1
    /\ dialogGuest.nests \/ cpu[t].level = 1
    /\ frameWindows' = Created(frameWindows, "frame", FALSE)
    /\ Makes(n, ctrls, w)
    /\ kept' = (kept \union {w}) \ {0}
    /\ dlg' = [active |-> TRUE, hwnd |-> w, ret |-> Here(t)]
    /\ dialogs' = dialogs + 1
    /\ modal' = Append(modal, level[t])
    /\ Enter(t, "DLG")
    /\ UNCHANGED <<innerPage, callstack, nsdPage, paused, showPause, dialogGuest, reloads, ended, unheard>>

\* EndDialog, from inside the dialog: DialogBoxParamW returns to its caller at
\* once, with the stack cut back and the registers as they are.
EndDialog(t) ==
    /\ Runs(t) /\ t = Main /\ modal # <<>> /\ level[t] > Last(modal)
    /\ IF dlg.active
       THEN /\ cpu' = [cpu EXCEPT ![t].on = dlg.ret[1], ![t].level = dlg.ret[2]]
            /\ callstack' = <<>>
            /\ dlg' = [dlg EXCEPT !.active = FALSE]
       ELSE UNCHANGED <<cpu, callstack, dlg>>
    /\ level' = [level EXCEPT ![t] = Last(modal)]
    /\ modal' = Front(modal)
    /\ ended' = TRUE
    /\ UNCHANGED <<stack, pageVars, nsdPage, paused, showPause, dialogGuest, reloads, dialogs, unheard>>

\* nsDialogs::Show waits for a tap.
NsShow(t) ==
    /\ Runs(t) /\ t = Main /\ nsdPage \in kept \cap Inner(frameWindows) /\ dlg.active
    /\ paused' = "Show" /\ showPause' = TRUE
    /\ UNCHANGED <<pageVars, callVars, nsdPage, dlg, dialogGuest, reloads, dialogs, modal, ended, unheard>>

\* wg_engine_dialog_command, for a tap on one of the dialog's buttons.
PauseOver == FALSE

Tap ==
    /\ paused # "no" /\ cpu[Main].level < MaxLevel
    /\ \/ /\ showPause
          /\ showPause' = PauseOver
          /\ unheard' = (unheard \/ paused # "Show")
          \* A dialog that waits at its trap meets it again.
          /\ paused' = IF paused = "Show" THEN "no" ELSE paused
          /\ UNCHANGED <<callVars>>
       \/ /\ ~showPause /\ dlg.active
          /\ paused' = "no"
          /\ Enter(Main, "DLG")
          /\ UNCHANGED <<callstack, showPause, unheard>>
    /\ UNCHANGED <<pageVars, nsdPage, dlg, dialogGuest, reloads, dialogs, modal, ended>>

\* wg_engine_load_pe: s_inner_page, s_nsd_page and s_nsd_show_pause are not reset.
ReloadDialogs ==
    /\ reloads < MaxReloads /\ reloads' = reloads + 1
    /\ dialogGuest.quits \/ (paused = "no" /\ level[Main] = 1 /\ cpu[Main].level = 1)
    /\ frameWindows' = <<>> /\ ctrls' = <<>> /\ dlg' = NoDialog /\ callstack' = <<>>
    /\ cpu' = AtStart /\ stack' = Bottom /\ level' = [t \in Threads |-> 1]
    /\ paused' = "no" /\ dialogs' = 0 /\ opened' = 0 /\ nextMade' = 1
    /\ modal' = <<>> /\ ended' = FALSE /\ held' = None /\ wanted' = None /\ kept' = {}
    /\ UNCHANGED <<innerPage, nsdPage, showPause, dialogGuest, unheard>>

DialogsNext ==
    \/ Tap \/ ReloadDialogs
    \/ \E t \in Threads :
        \/ ProcReturns(t) \/ NsCreate(t) \/ NsCreateControl(t) \/ NsShow(t)
        \/ CreateFrame(t) \/ EndDialog(t)
        \/ \E w \in DOMAIN frameWindows : SendMessage(t, w)
        \/ \E w \in DOMAIN frameWindows : DestroyFrame(t, w)
        \/ \E n \in 1 .. 2 : CreateDialogParam(t, n)
        \/ \E n \in 1 .. 2 : DialogBox(t, n)
        \/ \E i \in DOMAIN ctrls : GetDlgItem(t, i)
        \/ \E m \in DOMAIN held : SetText(t, m, "C:")

DialogsSpec == DialogsInit /\ [][DialogsNext]_dialogVars

-----------------------------------------------------------------------------
(* Correctness.                                                             *)

\* A thread goes on in its own caller: when a procedure returns to the trap or a
\* dialog is ended, the stack is back where the call was made, and so are the
\* registers, as long as no dialog has been ended (wg_engine.c:3779-3802).
CallersResume ==
    \A t \in dialogGuest.threads :
        /\ cpu[t].on = t /\ cpu[t].level = level[t]
        /\ ended \/ cpu[t].regs = Here(t) \/ (t = Main /\ paused = "dialog")

\* The handle of a control leads to that control for as long as it exists
\* (wg_ctrl_from_handle, wg_engine.c:1414-1420), whatever pages went before, and
\* the control shows the text the guest gave it.
ControlHandlesLead ==
    /\ \A m \in DOMAIN held : held[m] \in DOMAIN ctrls /\ ctrls[held[m]].made = m
    /\ \A i \in DOMAIN ctrls : ctrls[i].text = wanted[ctrls[i].made]

\* A window goes when the guest destroys it or replaces the page, not otherwise;
\* then its controls go too, so that no old page shows behind the new one
\* (wg_retire_inner_page, wg_engine.c:1476-1488).
PagesGiveWay ==
    /\ kept = {w \in DOMAIN frameWindows : frameWindows[w].alive}
    /\ \A i \in DOMAIN ctrls : ctrls[i].hwnd \in kept \union {0}

\* A tap on a dialog that waits reaches its procedure (wg_engine.c:11279-11281).
TapsHeard == ~unheard

\* Callers, handles, pages and taps of the guest's dialogs belong together
\* (wg_engine.c:1351-1695, 3770-3805, 5413-5660).
DialogsConsistent == CallersResume /\ ControlHandlesLead /\ PagesGiveWay /\ TapsHeard
=============================================================================
