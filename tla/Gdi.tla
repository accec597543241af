-------------------------------- MODULE Gdi --------------------------------
(***************************************************************************)
(* Drawing: the windows of wg_win32_windows.c and their client buffers, the  *)
(* device contexts, brushes and lines of wg_win32_gdi.c, the bitmaps of      *)
(* wg_win32_bitmap.c, and the compositor, which reads the client buffers on  *)
(* the main thread while the engine draws on its own.  A canvas (a client    *)
(* buffer or a bitmap) holds one ink; the pixels of a line are modelled.     *)
(***************************************************************************)
EXTENDS Pictures, FiniteSets, Functions, FiniteSetsExt, SequencesExt

CONSTANTS
    Inks,           \* the guest's colours
    MaxWindows,     \* WG_MAX_WINDOWS
    MaxDcs,         \* MAX_DCS
    MaxBitmaps,     \* MAX_BITMAPS
    MaxBrushes,     \* MAX_BRUSHES
    Painters,       \* guests: [fns: what it calls, brushes: how many it makes over all loads,
                    \*          holds: how many DCs it has at a time,
                    \*          visible: whether its windows are shown]
    Points,         \* coordinates of lines, around the client area
    Side,           \* width and height of the client area
    MaxFonts,       \* entries of s_fonts
    PictureFiles,   \* picture files the guest loads
    WizardCopy,     \* the engine's copy of the installer's picture, or NoFile
    MaxHandle       \* bound: handles of DCs and of bitmaps

Blank == "COLOR_WINDOW"     \* the background of a new client buffer
White == "white"            \* the default brush
Clear == "transparent"      \* a new bitmap
NoCanvas == "none"          \* a client buffer nobody has asked for

ASSUME GdiAssumption ==
    /\ {MaxWindows, MaxDcs, MaxBitmaps, MaxBrushes, MaxFonts, Side, MaxHandle} \subseteq Nat \ {0}
    /\ Points \subseteq Int
    /\ Inks \cap {Blank, White, Clear, NoCanvas} = {}
    /\ \A p \in Painters : {p.brushes, p.holds} \subseteq Nat

VARIABLES
    windows,    \* WGWin32Window, in order of creation: [alive, ink, dirty, shown]
    dcs,        \* WGDC: [used, handle, hwnd, isMem, sel, at]
    nextDc,     \* s_next_dc
    bitmaps,    \* WGBitmap: [used, handle, ink]
    nextBmp,    \* s_next
    brushes,    \* s_brush_color of the used brushes
    marking,    \* the window whose buffer was drawn on and is not yet marked, or 0
    uploading,  \* the window the compositor has read and not yet marked clean, or 0
    painter,    \* the guest
    owned,      \* history: DC handle -> what the guest made it for
    meant,      \* history: what the guest drew on each window and bitmap
    bought,     \* history: the colours of the guest's brushes, by handle
    stroke,     \* history: the last line, [from, to, lit]
    missed,     \* history: windows drawn on during an upload
    astray,     \* history: canvases a picture meant for them missed, or hit unmeant: through
                \* a window's DC in a memory DC's old slot, or with the bitmap table full
    fonts,      \* s_fonts: [handle, face]
    fontCount,  \* s_font_count
    faces,      \* history: the faces of the guest's fonts, in order
    pens,       \* history: DC handle -> the colour and the font the guest set
    lastPicture      \* history: the last picture loaded, as decoded and as in its file

gdiVars == <<windows, dcs, nextDc, bitmaps, nextBmp, brushes, marking, uploading, painter,
             owned, meant, bought, stroke, missed, astray, fonts, fontCount, faces, pens, lastPicture>>
otherVars == <<astray, fonts, fontCount, faces, pens, lastPicture>>

Black == "black"
NoFace == "default"
FreshPen == [text |-> Black, font |-> NoFace]
FreeDc == [used |-> FALSE, handle |-> 0, hwnd |-> 0, isMem |-> FALSE, sel |-> 0, at |-> <<0, 0>>,
           text |-> Black, font |-> NoFace]
FreeBitmap == [used |-> FALSE, handle |-> 0, ink |-> Clear]
NoStroke == [from |-> <<0, 0>>, to |-> <<0, 0>>, lit |-> {<<0, 0>>}]
Win(h) == <<"window", h>>
Bmp(h) == <<"bitmap", h>>
Ended == <<"ended", 0>>
Nobody == [x \in {} |-> 0]

GdiInit ==
    /\ windows = <<>> /\ brushes = <<>>
    /\ dcs = [i \in 1 .. MaxDcs |-> FreeDc] /\ nextDc = 1
    /\ bitmaps = [i \in 1 .. MaxBitmaps |-> FreeBitmap] /\ nextBmp = 1
    /\ marking = 0 /\ uploading = 0
    /\ painter \in Painters
    /\ owned = Nobody /\ meant = Nobody /\ bought = Nobody
    /\ stroke = NoStroke /\ missed = {} /\ astray = {}
    /\ fonts = <<>> /\ fontCount = 0 /\ faces = <<>> /\ pens = Nobody
    /\ lastPicture = [got |-> NoPicture, shows |-> NoPicture]

-----------------------------------------------------------------------------
(* Tables.                                                                  *)

Alive(w) == w \in DOMAIN windows /\ windows[w].alive
\* find_dc, find: the used slot that has the handle; 0 if there is none.
FindDc(h) == SelectInSeq(dcs, LAMBDA d : d.used /\ d.handle = h)
FindBitmap(h) == SelectInSeq(bitmaps, LAMBDA b : b.used /\ b.handle = h)

FreeDcSlot == SelectInSeq(dcs, LAMBDA d : ~d.used)
FreeBitmapSlot == SelectInSeq(bitmaps, LAMBDA b : ~b.used)

\* Mutant of WindowDc: the window is not stored.
WindowDcForgetsWindow(d, h, w) == [d EXCEPT !.used = TRUE, !.handle = h, !.at = <<0, 0>>,
                                !.text = Black, !.font = NoFace]

\* wg_gdi_get_dc: what it leaves in the slot it takes; is_memdc and sel_bitmap
\* keep what the last owner left.
WindowDc(d, h, w) == [d EXCEPT !.used = TRUE, !.handle = h, !.hwnd = w, !.at = <<0, 0>>,
                                !.text = Black, !.font = NoFace]

\* wg_gdi_create_memory_dc.
MemoryDc(h) == [FreeDc EXCEPT !.used = TRUE, !.handle = h, !.isMem = TRUE]

Dc(h) == IF FindDc(h) = 0 THEN FreeDc ELSE dcs[FindDc(h)]

\* Where wg_gdi_fill_rect, wg_gdi_text_out and wg_gdi_line_to draw: on the DC's
\* window, memory DC or not.
Painted(dc) == {Win(w) : w \in {dc.hwnd} \cap {x \in DOMAIN windows : windows[x].alive}}

\* dc_target, where a blit draws.
Target(dc) == IF ~dc.isMem THEN Painted(dc) ELSE {Bmp(b) : b \in {x \in {dc.sel} : FindBitmap(x) # 0}}

\* A blit through a DC that was meant for these canvases: it goes elsewhere if the DC is
\* a window's in the slot of an earlier memory DC.
Strays(dc, canvases) == astray' =
    IF dc.isMem /\ dc.hwnd # 0 THEN astray \union canvases \union Target(dc) ELSE astray

\* What the guest means by a DC it made.
Own(h) == IF h \in DOMAIN owned THEN {owned[h]} ELSE {}

-----------------------------------------------------------------------------
(* Canvases.  Drawing on a window is two steps: the pixels, and then          *)
(* client_dirty; the compositor may come between.                            *)

Each(canvases, ink) == [c \in canvases |-> ink]

\* wg_wm_get_client makes the buffer on the first use, already dirty.
Inked(paint) ==
    LET drawn == {w \in DOMAIN windows : Win(w) \in DOMAIN paint} IN
    /\ windows' = [w \in DOMAIN windows |-> IF w \notin drawn THEN windows[w]
                    ELSE [windows[w] EXCEPT !.ink = paint[Win(w)], !.dirty = @ \/ windows[w].ink = NoCanvas]]
    /\ bitmaps' = [i \in DOMAIN bitmaps |->
                    IF bitmaps[i].used /\ Bmp(bitmaps[i].handle) \in DOMAIN paint
                    THEN [bitmaps[i] EXCEPT !.ink = paint[Bmp(bitmaps[i].handle)]] ELSE bitmaps[i]]
    /\ marking' = IF drawn = {} THEN 0 ELSE CHOOSE w \in drawn : TRUE
    /\ missed' = missed \union (drawn \cap {uploading})
\* The canvases that exist: those of live windows and of bitmaps.
Exists(c) == IF c[1] = "window" THEN Alive(c[2]) ELSE c[1] = "bitmap" /\ FindBitmap(c[2]) # 0
Meaning(canvases, ink) ==
    meant' = [c \in DOMAIN meant |-> IF c \in canvases /\ Exists(c) THEN ink ELSE meant[c]]

\* The engine thread is at the start of a handler.
AtCall(fn) == marking = 0 /\ fn \in painter.fns

MarkDirty ==
    /\ marking # 0
    /\ windows' = [windows EXCEPT ![marking].dirty = TRUE]
    /\ marking' = 0
    /\ UNCHANGED <<dcs, nextDc, bitmaps, nextBmp, brushes, uploading, painter, owned, meant, bought, stroke, missed, otherVars>>

\* clientTextureFor: the texture gets the buffer, and then the flag is cleared.
Upload(w) ==
    /\ painter.visible /\ uploading = 0 /\ Alive(w) /\ windows[w].ink # NoCanvas /\ windows[w].dirty
    /\ windows' = [windows EXCEPT ![w].shown = windows[w].ink]
    /\ uploading' = w
    /\ missed' = missed \ {w}
    /\ UNCHANGED <<dcs, nextDc, bitmaps, nextBmp, brushes, marking, painter, owned, meant, bought, stroke, otherVars>>

Clean ==
    /\ uploading # 0
    /\ windows' = [windows EXCEPT ![uploading].dirty = FALSE]
    /\ uploading' = 0
    /\ UNCHANGED <<dcs, nextDc, bitmaps, nextBmp, brushes, marking, painter, owned, meant, bought, stroke, missed, otherVars>>

-----------------------------------------------------------------------------
(* Windows.                                                                 *)

CreateWindow ==
    /\ AtCall("CreateWindowExW") /\ Len(windows) < MaxWindows
    /\ windows' = Append(windows, [alive |-> TRUE, ink |-> NoCanvas, dirty |-> FALSE, shown |-> NoCanvas])
    /\ meant' = [c \in DOMAIN meant \union {Win(Len(windows) + 1)} |-> IF c \in DOMAIN meant THEN meant[c] ELSE NoCanvas]
    /\ UNCHANGED <<dcs, nextDc, bitmaps, nextBmp, brushes, marking, uploading, painter, owned, bought, stroke, missed, otherVars>>

\* The slot of a destroyed window is not used again, nor is its buffer freed.
DestroyWindow(w) ==
    /\ AtCall("DestroyWindow") /\ Alive(w)
    /\ windows' = [windows EXCEPT ![w].alive = FALSE]
    /\ UNCHANGED <<dcs, nextDc, bitmaps, nextBmp, brushes, marking, uploading, painter, owned, meant, bought, stroke, missed, otherVars>>

\* A handler that draws through a DC of its own takes it and gives it back.
BorrowDc(w) ==
    /\ dcs' = [dcs EXCEPT ![FreeDcSlot] = [WindowDc(@, nextDc, w) EXCEPT !.used = FALSE]]
    /\ nextDc' = nextDc + 1

\* SetWindowTextW: the buffer is filled, and the text drawn through a DC of the
\* engine's own, if there is one to be had.
SetWindowText(w, ink) ==
    /\ AtCall("SetWindowTextW") /\ Alive(w) /\ nextDc < MaxHandle
    /\ IF FreeDcSlot = 0
       THEN Inked(Each({Win(w)}, Blank)) /\ UNCHANGED <<dcs, nextDc>>
       ELSE Inked(Each({Win(w)}, ink)) /\ BorrowDc(w)
    /\ Meaning({Win(w)}, ink)
    /\ UNCHANGED <<nextBmp, brushes, uploading, painter, owned, bought, stroke, otherVars>>

\* wg_render_dialog of a page with a picture: nothing without a DC.
RenderPicture(w, b) ==
    /\ AtCall("render") /\ Alive(w) /\ FindBitmap(b) # 0 /\ nextDc < MaxHandle
    /\ LET ink == bitmaps[FindBitmap(b)].ink
           dc == WindowDc(dcs[FreeDcSlot], nextDc, w)
           picture == IF ink = Clear THEN Nobody ELSE Each(Target(dc), ink)
       IN  /\ IF FreeDcSlot = 0 THEN UNCHANGED <<windows, bitmaps, dcs, nextDc, marking, missed, astray>>
              ELSE Inked(picture @@ Each({Win(w)}, White)) /\ BorrowDc(w) /\ Strays(dc, {Win(w)})
           /\ Meaning({Win(w)}, IF ink = Clear THEN White ELSE ink)
    /\ UNCHANGED <<nextBmp, brushes, uploading, painter, owned, bought, stroke,
                   fonts, fontCount, faces, pens, lastPicture>>

-----------------------------------------------------------------------------
(* Device contexts.                                                         *)

TakeDc(dc, own) ==
    LET d == FreeDcSlot IN
    /\ Cardinality({h \in DOMAIN owned : owned[h] # Ended}) < painter.holds
    /\ IF d = 0 THEN UNCHANGED <<dcs, nextDc, owned>>
       ELSE /\ dcs' = [dcs EXCEPT ![d] = dc]
            /\ nextDc' = nextDc + 1
            /\ owned' = [h \in DOMAIN owned \union {nextDc} |-> IF h = nextDc THEN own ELSE owned[h]]
    /\ UNCHANGED <<windows, bitmaps, nextBmp, brushes, marking, uploading, painter, meant, bought, stroke, missed, otherVars>>

GetDC(w) ==
    /\ AtCall("GetDC") /\ w \in DOMAIN windows /\ nextDc < MaxHandle
    /\ TakeDc(IF FreeDcSlot = 0 THEN FreeDc ELSE WindowDc(dcs[FreeDcSlot], nextDc, w), Win(w))

CreateCompatibleDC ==
    /\ AtCall("CreateCompatibleDC") /\ nextDc < MaxHandle
    /\ TakeDc(MemoryDc(nextDc), Bmp(0))

\* wg_gdi_release_dc and wg_gdi_delete_dc.
Released(h) == [i \in DOMAIN dcs |-> IF i = FindDc(h) THEN [dcs[i] EXCEPT !.used = FALSE] ELSE dcs[i]]

GiveUpDc(fn, kind, h) ==
    /\ AtCall(fn) /\ h \in DOMAIN owned /\ owned[h][1] = kind
    /\ dcs' = Released(h)
    /\ owned' = [x \in DOMAIN owned \ {h} |-> owned[x]]
    /\ UNCHANGED <<windows, nextDc, bitmaps, nextBmp, brushes, marking, uploading, painter, meant, bought, stroke, missed, otherVars>>
ReleaseDC(h) == GiveUpDc("ReleaseDC", "window", h)
DeleteDC(h) == GiveUpDc("DeleteDC", "bitmap", h)

\* EndPaint has no handler: the DC that BeginPaint made is kept.
BeginPaint(w) ==
    /\ AtCall("BeginPaint") /\ w \in DOMAIN windows /\ nextDc < MaxHandle
    /\ TakeDc(IF FreeDcSlot = 0 THEN FreeDc ELSE WindowDc(dcs[FreeDcSlot], nextDc, w), Win(w))
EndPaint(h) ==
    /\ AtCall("BeginPaint") /\ h \in DOMAIN owned /\ owned[h][1] = "window"
    /\ owned' = [owned EXCEPT ![h] = Ended]
    /\ UNCHANGED <<windows, dcs, nextDc, bitmaps, nextBmp, brushes, marking, uploading, painter, meant, bought, stroke, missed, otherVars>>

-----------------------------------------------------------------------------
(* Drawing.                                                                 *)

\* wg_gdi_create_solid_brush: the first brush again when there is none left.
CreateSolidBrush(ink) ==
    /\ AtCall("CreateSolidBrush") /\ Len(brushes) < painter.brushes
    /\ brushes' = IF Len(brushes) < MaxBrushes THEN Append(brushes, ink) ELSE brushes
    /\ LET h == IF Len(brushes) < MaxBrushes THEN Len(brushes) + 1 ELSE 1
       IN  bought' = [x \in DOMAIN bought \union {h} |-> IF x = h THEN ink ELSE bought[x]]
    /\ UNCHANGED <<windows, dcs, nextDc, bitmaps, nextBmp, marking, uploading, painter, owned, meant, stroke, missed, otherVars>>

\* wg_gdi_brush_color: a handle that is no brush is a system colour's.
BrushColor(h) == IF h \in DOMAIN brushes THEN brushes[h] ELSE White

FillRect(h, b) ==
    /\ AtCall("FillRect") /\ h \in DOMAIN owned /\ owned[h][1] = "window" /\ b \in DOMAIN bought \union {0}
    /\ Inked(Each(Painted(Dc(h)), BrushColor(b)))
    /\ Meaning(Own(h), IF b = 0 THEN White ELSE bought[b])
    /\ UNCHANGED <<dcs, nextDc, nextBmp, brushes, uploading, painter, owned, bought, stroke, otherVars>>

CreateBitmap(ink) ==
    /\ AtCall("CreateCompatibleBitmap") /\ nextBmp < MaxHandle
    /\ LET i == FreeBitmapSlot IN
        IF i = 0 THEN UNCHANGED <<bitmaps, nextBmp, meant>>
        ELSE /\ bitmaps' = [bitmaps EXCEPT ![i] = [used |-> TRUE, handle |-> nextBmp, ink |-> ink]]
             /\ nextBmp' = nextBmp + 1
             /\ meant' = [c \in DOMAIN meant \union {Bmp(nextBmp)} |-> IF c = Bmp(nextBmp) THEN ink ELSE meant[c]]
    /\ UNCHANGED <<windows, dcs, nextDc, brushes, marking, uploading, painter, owned, bought, stroke, missed, otherVars>>

DeleteObject(b) ==
    /\ AtCall("DeleteObject") /\ FindBitmap(b) # 0
    /\ bitmaps' = [bitmaps EXCEPT ![FindBitmap(b)].used = FALSE]
    /\ UNCHANGED <<windows, dcs, nextDc, nextBmp, brushes, marking, uploading, painter, owned, meant, bought, stroke, missed, otherVars>>

SelectObject(h, b) ==
    /\ AtCall("SelectObject") /\ h \in DOMAIN owned /\ owned[h][1] = "bitmap" /\ FindBitmap(b) # 0
    /\ dcs' = [dcs EXCEPT ![FindDc(h)].sel = b]
    /\ owned' = [owned EXCEPT ![h] = Bmp(b)]
    /\ UNCHANGED <<windows, nextDc, bitmaps, nextBmp, brushes, marking, uploading, painter, meant, bought, stroke, missed, otherVars>>

\* wg_gdi_blit, wg_gdi_draw_bitmap, blit_pixels: nothing without a selected
\* bitmap, and transparent pixels leave what is there.
BitBlt(h, src) ==
    /\ AtCall("BitBlt") /\ {h, src} \subseteq DOMAIN owned /\ owned[src][1] = "bitmap"
    /\ LET b == FindBitmap(Dc(src).sel) IN
        IF b = 0 \/ bitmaps[b].ink = Clear THEN UNCHANGED <<windows, bitmaps, marking, missed>>
        ELSE Inked(Each(Target(Dc(h)), bitmaps[b].ink))
    /\ Strays(Dc(h), Own(h))
    /\ IF Exists(owned[src]) /\ meant[owned[src]] # Clear
       THEN Meaning(Own(h), meant[owned[src]]) ELSE UNCHANGED meant
    /\ UNCHANGED <<dcs, nextDc, nextBmp, brushes, uploading, painter, owned, bought, stroke,
                   fonts, fontCount, faces, pens, lastPicture>>

\* StretchDIBits: a bitmap is made of the guest's picture, drawn and deleted; with the
\* table full nothing is drawn, and the guest is told that all of it was.
StretchDIBits(h, ink) ==
    /\ AtCall("StretchDIBits") /\ h \in DOMAIN owned /\ nextBmp < MaxHandle
    /\ IF FreeBitmapSlot = 0
       THEN astray' = astray \union Own(h) /\ UNCHANGED <<windows, bitmaps, nextBmp, marking, missed>>
       ELSE nextBmp' = nextBmp + 1 /\ Inked(Each(Target(Dc(h)), ink)) /\ Strays(Dc(h), Own(h))
    /\ Meaning(Own(h), ink)
    /\ UNCHANGED <<dcs, nextDc, brushes, uploading, painter, owned, bought, stroke,
                   fonts, fontCount, faces, pens, lastPicture>>

\* LoadImageW: the file, or the engine's copy if it is the installer's and there
\* is no bitmap in it (wg_bitmap_load_file); GetObjectW tells its size.
LoadImage(f, wizard) ==
    LET chosen == IF ~Decodable(f) /\ wizard THEN WizardCopy ELSE f
        i == FreeBitmapSlot
    IN  /\ AtCall("LoadImageW") /\ nextBmp < MaxHandle
        /\ IF i = 0 \/ ~Decodable(chosen) THEN UNCHANGED <<bitmaps, nextBmp, meant, lastPicture>>
           ELSE /\ bitmaps' = [bitmaps EXCEPT ![i] = [used |-> TRUE, handle |-> nextBmp, ink |-> "picture"]]
                /\ nextBmp' = nextBmp + 1
                /\ meant' = (Bmp(nextBmp) :> "picture") @@ meant
                /\ lastPicture' = [got |-> Decoded(chosen), shows |-> IF f.shows = NoPicture THEN WizardCopy.shows ELSE f.shows]
        /\ UNCHANGED <<windows, dcs, nextDc, brushes, marking, uploading, painter, owned, bought,
                       stroke, missed, astray, fonts, fontCount, faces, pens>>

-----------------------------------------------------------------------------
(* Text.                                                                    *)

\* wg_font_register: the oldest of a full table is forgotten.
CreateFont(face) ==
    /\ AtCall("CreateFontW") /\ fontCount < MaxFonts + 1
    /\ LET f == [handle |-> fontCount, face |-> face] IN
       fonts' = IF Len(fonts) < MaxFonts THEN Append(fonts, f)
                ELSE [fonts EXCEPT ![(fontCount % MaxFonts) + 1] = f]
    /\ fontCount' = fontCount + 1
    /\ faces' = Append(faces, face)
    /\ UNCHANGED <<windows, dcs, nextDc, bitmaps, nextBmp, brushes, marking, uploading, painter,
                   owned, meant, bought, stroke, missed, astray, pens, lastPicture>>

Pen(h) == IF h \in DOMAIN pens THEN pens[h] ELSE FreshPen

\* The DC and what the guest knows of it change alike.
SetPen(h, pen, meantPen) ==
    /\ dcs' = [dcs EXCEPT ![FindDc(h)].text = pen.text, ![FindDc(h)].font = pen.font]
    /\ pens' = [x \in (DOMAIN pens \cap DOMAIN owned) \union {h} |-> IF x = h THEN meantPen ELSE pens[x]]
    /\ UNCHANGED <<windows, nextDc, bitmaps, nextBmp, brushes, marking, uploading, painter, owned,
                   meant, bought, stroke, missed, astray, fonts, fontCount, faces, lastPicture>>

SetTextColor(h, ink) ==
    /\ AtCall("SetTextColor") /\ h \in DOMAIN owned /\ FindDc(h) # 0
    /\ SetPen(h, [text |-> ink, font |-> Dc(h).font], [Pen(h) EXCEPT !.text = ink])

\* SelectObject of a font that the table still has (wg_font_find); the guest uses
\* no others.
SelectFont(h, f) ==
    /\ AtCall("SelectFont") /\ h \in DOMAIN owned /\ FindDc(h) # 0
    /\ \E k \in DOMAIN fonts : fonts[k].handle = f
        /\ SetPen(h, [text |-> Dc(h).text, font |-> fonts[k].face], [Pen(h) EXCEPT !.font = faces[f + 1]])

\* TextOutW, and what GetTextExtentPoint32 measures, on a window.  Text leaves the
\* rest of the canvas as it is.
TextOut(h) ==
    /\ AtCall("TextOutW") /\ h \in DOMAIN owned /\ Painted(Dc(h)) # {}
    /\ Inked([c \in Painted(Dc(h)) |-> IF windows[c[2]].ink = NoCanvas THEN Blank ELSE windows[c[2]].ink])
    /\ \A c \in Own(h) : Meaning({c}, IF meant[c] = NoCanvas THEN Blank ELSE meant[c])
    /\ UNCHANGED <<dcs, nextDc, nextBmp, brushes, uploading, painter, owned, bought, stroke,
                   astray, fonts, fontCount, faces, pens, lastPicture>>

-----------------------------------------------------------------------------
(* Lines.                                                                   *)

Abs(n) == IF n < 0 THEN -n ELSE n
Sign(n) == IF n < 0 THEN -1 ELSE 1
Halved(n) == IF n < 0 THEN -((-n) \div 2) ELSE n \div 2

\* One turn of wg_gdi_line_to's loop: err is compared before it is changed.
LineStep(at, err, dx, dy) ==
    LET goX == err > -Abs(dx)
        goY == err < Abs(dy)
    IN  [at |-> <<at[1] + (IF goX THEN Sign(dx) ELSE 0), at[2] + (IF goY THEN Sign(dy) ELSE 0)>>,
         err |-> err - (IF goX THEN Abs(dy) ELSE 0) + (IF goY THEN Abs(dx) ELSE 0)]

LinePixels(from, to) ==
    LET dx == to[1] - from[1]
        dy == to[2] - from[2]
        start == [at |-> from, err |-> Halved(IF Abs(dx) > Abs(dy) THEN Abs(dx) ELSE -Abs(dy))]
        walk[n \in 0 .. Abs(dx) + Abs(dy)] ==
            IF n = 0 THEN start
            ELSE IF walk[n - 1].at = to THEN walk[n - 1]
            ELSE LineStep(walk[n - 1].at, walk[n - 1].err, dx, dy)
    IN  {walk[n].at : n \in DOMAIN walk}

MoveTo(h, p) ==
    /\ AtCall("MoveToEx") /\ h \in DOMAIN owned
    /\ dcs' = [dcs EXCEPT ![FindDc(h)].at = p]
    /\ stroke' = NoStroke
    /\ UNCHANGED <<windows, nextDc, bitmaps, nextBmp, brushes, marking, uploading, painter, owned, meant, bought, missed, otherVars>>

\* A line leaves the rest of the canvas as it is: only its pixels are modelled.
LineTo(h, p) ==
    /\ AtCall("LineTo") /\ h \in DOMAIN owned
    /\ Painted(Dc(h)) # {}
    /\ stroke' = [from |-> Dc(h).at, to |-> p,
                  lit |-> {q \in LinePixels(Dc(h).at, p) : {q[1], q[2]} \subseteq 0 .. Side - 1}]
    /\ dcs' = [dcs EXCEPT ![FindDc(h)].at = p]
    /\ Inked([c \in Painted(Dc(h)) |-> IF windows[c[2]].ink = NoCanvas THEN Blank ELSE windows[c[2]].ink])
    /\ \A c \in Own(h) : Meaning({c}, IF meant[c] = NoCanvas THEN Blank ELSE meant[c])
    /\ UNCHANGED <<nextDc, nextBmp, brushes, uploading, painter, owned, bought, otherVars>>

\* Another program (wg_engine_load_pe): the windows go; the guest gives back its
\* DCs and bitmaps first.  DCs, bitmaps and brushes are not reset.
LoadNext ==
    /\ AtCall("load") /\ uploading = 0 /\ Len(windows) > 0
    /\ \A i \in DOMAIN dcs : ~dcs[i].used
    /\ \A i \in DOMAIN bitmaps : ~bitmaps[i].used
    /\ windows' = <<>> /\ owned' = Nobody /\ meant' = Nobody /\ bought' = Nobody /\ missed' = {} /\ astray' = {}
    /\ UNCHANGED <<dcs, nextDc, bitmaps, nextBmp, brushes, marking, uploading, painter, stroke,
                   fonts, fontCount, faces, pens, lastPicture>>

GdiNext ==
    \/ MarkDirty \/ Clean \/ \E w \in DOMAIN windows : Upload(w)
    \/ CreateWindow \/ CreateCompatibleDC \/ LoadNext
    \/ \E w \in DOMAIN windows : DestroyWindow(w) \/ GetDC(w) \/ BeginPaint(w)
    \/ \E w \in DOMAIN windows, ink \in Inks : SetWindowText(w, ink)
    \/ \E w \in DOMAIN windows, b \in 1 .. nextBmp : RenderPicture(w, b)
    \/ \E h \in DOMAIN owned : ReleaseDC(h) \/ DeleteDC(h) \/ EndPaint(h)
    \/ \E ink \in Inks : CreateSolidBrush(ink)
    \/ \E ink \in Inks \union {Clear} : CreateBitmap(ink)
    \/ \E h \in DOMAIN owned, b \in 0 .. MaxBrushes : FillRect(h, b)
    \/ \E b \in 1 .. nextBmp : DeleteObject(b)
    \/ \E h \in DOMAIN owned, b \in 1 .. nextBmp : SelectObject(h, b)
    \/ \E h, src \in DOMAIN owned : BitBlt(h, src)
    \/ \E f \in PictureFiles, wizard \in BOOLEAN : LoadImage(f, wizard)
    \/ \E face \in {"Tahoma", "Verdana"} : CreateFont(face)
    \/ \E h \in DOMAIN owned, ink \in Inks : SetTextColor(h, ink)
    \/ \E h \in DOMAIN owned, f \in 0 .. fontCount : SelectFont(h, f)
    \/ \E h \in DOMAIN owned : TextOut(h)
    \/ \E h \in DOMAIN owned, ink \in Inks : StretchDIBits(h, ink)
    \/ \E h \in DOMAIN owned, x, y \in Points : MoveTo(h, <<x, y>>)
    \/ \E h \in DOMAIN owned, x, y \in Points : LineTo(h, <<x, y>>)

-----------------------------------------------------------------------------
(* Correctness.                                                             *)

\* Whatever a guest draws through a DC is on the window or the bitmap it made the
\* DC for, and nowhere else; only a picture goes astray, through a window's DC in the slot
\* of an earlier memory DC, to the bitmap that DC had (dc_target, wg_win32_gdi.c:383-398,
\* 55-71), or with the bitmap table full (wg_engine.c:4370-4381).
DrawsWhereMeant ==
    /\ \A w \in DOMAIN windows : windows[w].alive /\ Win(w) \notin astray => windows[w].ink = meant[Win(w)]
    /\ \A i \in DOMAIN bitmaps : bitmaps[i].used /\ Bmp(bitmaps[i].handle) \notin astray => bitmaps[i].ink = meant[Bmp(bitmaps[i].handle)]

\* The slots in use are those of the DCs the guest made and did not give back
\* (wg_gdi_release_dc, wg_win32_gdi.c:76-79): none is lost and none is shared.
DcsAccounted ==
    /\ {dcs[i].handle : i \in {j \in DOMAIN dcs : dcs[j].used}} = DOMAIN owned
    /\ Cardinality({j \in DOMAIN dcs : dcs[j].used}) = Cardinality(DOMAIN owned)

\* The compositor's texture has the last pixels once the window is not dirty
\* (WGCompositor.m:164-170), except for what was drawn between its copy and its
\* clearing of the flag: that is shown with the next drawing, if there is one.
ShownUpToDate ==
    \A w \in DOMAIN windows :
        (painter.visible /\ windows[w].alive /\ ~windows[w].dirty /\ w # marking /\ w \notin missed) => windows[w].shown = windows[w].ink

\* A line (wg_gdi_line_to, wg_win32_gdi.c:298-323) lights one pixel for each column
\* of a flat line, or each row of a steep one, at most half a pixel from the
\* ideal line, as far as the client area reaches.
LineStraight ==
    LET a == stroke.from
        dx == stroke.to[1] - a[1]
        dy == stroke.to[2] - a[2]
        long == Max({Abs(dx), Abs(dy)})
        short == IF Abs(dx) >= Abs(dy) THEN 2 ELSE 1
        at(n) == IF long = 0 THEN 0 ELSE
            (a[short] * 2 * long + 2 * n * Abs(stroke.to[short] - a[short]) * Sign(stroke.to[short] - a[short]))
        off(q, n) == Abs(q[short] * 2 * long - at(n)) <= long
        column(n) == a[3 - short] + n * Sign(stroke.to[3 - short] - a[3 - short])
        inside(n) == column(n) \in 0 .. Side - 1 /\ 2 * long * (Side - 1) + long > at(n) /\ at(n) > -long
    IN  /\ \A q \in stroke.lit : \E n \in 0 .. long : q[3 - short] = column(n) /\ off(q, n)
        /\ \A n \in 0 .. long : inside(n) => \E q \in stroke.lit : q[3 - short] = column(n)
        /\ \A q, r \in stroke.lit : q[3 - short] = r[3 - short] => q = r

\* A loaded picture shows what its file was made from: every pixel in its place and
\* colour, for each depth, direction and width of rows; a file that is cut short
\* shows nothing of it (decode_dib, wg_win32_bitmap.c:52-118).
PictureAsStored == lastPicture.got = lastPicture.shows

\* Text is drawn (TextOutW) in the colour and the font the guest set for this DC, or the
\* defaults: never in those of an earlier owner of the slot
\* (wg_gdi_get_dc, wg_win32_gdi.c:55-74, wg_gdi_text_out, 167-213).
TextAsSet == \A h \in DOMAIN owned : [text |-> Dc(h).text, font |-> Dc(h).font] = Pen(h)

GdiSpec == GdiInit /\ [][GdiNext]_gdiVars

\* What the guest draws is where it meant it and is shown
\* (wg_win32_gdi.c:14-470, WGCompositor.m:149-172).
DrawingConsistent ==
    /\ DrawsWhereMeant /\ DcsAccounted /\ ShownUpToDate /\ LineStraight
    /\ PictureAsStored /\ TextAsSet
=============================================================================
