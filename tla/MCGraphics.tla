----------------------------- MODULE MCGraphics ------------------------------
(* The painters of Gdi: what each calls, how many brushes it makes, how many *)
(* DCs it holds at once, and whether its windows are shown.                  *)
(* The guests of D3d11: one draws from a buffer it maps while draws are in    *)
(* flight, one renders to a texture and samples it, one makes views and gives *)
(* them back until the table is full, one makes a swap chain on its device's  *)
(* factory and resizes it, one may take another factory, one asks for contexts. *)
EXTENDS Gdi, D3d11

Painter(fns, colours, holds, visible) ==
    [fns |-> fns, brushes |-> colours, holds |-> holds, visible |-> visible]

mcPainters == {
    Painter({"CreateWindowExW", "DestroyWindow", "GetDC", "ReleaseDC", "CreateSolidBrush", "FillRect", "load"},
            2, 1, FALSE),
    Painter({"CreateWindowExW", "GetDC", "CreateSolidBrush", "FillRect"}, 1, 1, TRUE),
    Painter({"CreateWindowExW", "GetDC", "CreateCompatibleDC", "CreateCompatibleBitmap", "SelectObject",
             "BitBlt"}, 0, 2, FALSE),
    Painter({"CreateCompatibleDC", "DeleteDC", "CreateCompatibleBitmap", "SelectObject", "BitBlt"}, 0, 2, FALSE),
    Painter({"CreateCompatibleDC", "CreateCompatibleBitmap", "SelectObject", "BitBlt", "DeleteObject"}, 0, 2, FALSE),
    Painter({"CreateWindowExW", "GetDC", "ReleaseDC", "SetWindowTextW", "StretchDIBits"}, 0, 1, FALSE),
    Painter({"CreateWindowExW", "CreateCompatibleBitmap", "render", "DestroyWindow"}, 0, 0, FALSE),
    Painter({"CreateWindowExW", "GetDC", "CreateCompatibleDC", "DeleteDC", "CreateCompatibleBitmap",
             "SelectObject", "StretchDIBits"}, 0, 1, FALSE),
    Painter({"CreateWindowExW", "BeginPaint"}, 0, 2, FALSE),
    Painter({"CreateWindowExW", "GetDC", "MoveToEx", "LineTo"}, 0, 1, FALSE),
    Painter({"CreateWindowExW", "GetDC", "ReleaseDC", "CreateFontW", "SetTextColor", "SelectFont", "TextOutW"},
            0, 1, FALSE),
    Painter({"LoadImageW", "DeleteObject"}, 0, 0, FALSE) }

\* A picture file, made row by row: the palette has an entry per colour number,
\* and numbers beyond it are greys.
Colour(n) == <<n, n + 50, n + 100>>
FileBytes(n, bpp) == LET c == Colour(n) IN
    CASE bpp = 8 -> <<n>> [] bpp = 24 -> <<c[3], c[2], c[1]>> [] bpp = 32 -> <<c[3], c[2], c[1], 0>>
FileRow(numbers, bpp) ==
    LET bytes == FlattenSeq([k \in DOMAIN numbers |-> FileBytes(numbers[k], bpp)])
    IN  bytes \o [k \in 1 .. ((4 - (Len(bytes) % 4)) % 4) |-> 99]
PictureFile(picture, bpp, fromTop, used, whole) ==
    LET rows == [y \in DOMAIN picture |-> FileRow(picture[y], bpp)]
        bits == FlattenSeq(IF fromTop THEN rows ELSE Reverse(rows))
        pixel(n) == IF bpp = 8 /\ used # 0 /\ n >= used THEN <<n, n, n, 255>> ELSE Append(Colour(n), 255)
    IN  [ok |-> TRUE, header |-> 40, comp |-> 0, bpp |-> bpp, width |-> Len(picture[1]),
         height |-> IF fromTop THEN -Len(picture) ELSE Len(picture), used |-> used,
         pal |-> [n \in 0 .. 9 |-> <<n + 100, n + 50, n>>],
         bits |-> IF whole THEN bits ELSE SubSeq(bits, 1, Len(bits) - 1),
         shows |-> [y \in DOMAIN picture |-> [x \in DOMAIN picture[y] |->
                     IF whole THEN pixel(picture[y][x]) ELSE <<0, 0, 0, 0>>]]]
mcWizardCopy == PictureFile(<<<<7, 8>>>>, 24, FALSE, 0, TRUE)
mcPictureFiles ==
    {PictureFile(p, bpp, fromTop, 0, whole) : p \in {<<<<1, 2>>, <<3, 4>>>>, <<<<1, 2, 3>>>>, <<<<1>>, <<2>>, <<3>>>>},
        bpp \in {8, 24, 32}, fromTop, whole \in BOOLEAN}
    \union {PictureFile(<<<<1, 3>>, <<5, 2>>>>, 8, FALSE, 3, TRUE)}
    \union {[PictureFile(<<<<1>>>>, 8, FALSE, 0, TRUE) EXCEPT !.comp = 1, !.shows = NoPicture]}

mcPoints == {-1, 0, 2, 3}

---------------------------------------------------------------------------
Gamer(opening, calls, slots, frees) ==
    [opening |-> opening, calls |-> calls, slots |-> slots, frees |-> frees, buffers |-> 0, textures |-> 0,
     first |-> {"red"}, writes |-> {"blue"}, chain |-> FALSE, inFlight |-> 2]

mcGamers == {
    [Gamer(<<"D3D11CreateDevice", "GetBuffer", "CreateRenderTargetView", "CreateBuffer", "Bind", "Bind">>,
           {"Map", "Draw"}, {"rtv", "vbuf"}, {}) EXCEPT !.buffers = 1, !.chain = TRUE, !.inFlight = 1],
    [Gamer(<<"D3D11CreateDevice", "CreateTexture2D", "CreateRenderTargetView", "CreateTexture2D",
             "CreateRenderTargetView", "CreateShaderResourceView", "CreateBuffer">>,
           {"Draw", "Bind"}, {"rtv", "vbuf", "tex"}, {})
        EXCEPT !.buffers = 1, !.textures = 2, !.first = Dyes],
    [Gamer(<<"D3D11CreateDevice", "CreateTexture2D", "CreateRenderTargetView", "CreateShaderResourceView">>,
           {"CreateRenderTargetView", "CreateShaderResourceView", "GetResource", "QueryInterface", "Bind", "Release"},
           {"tex"}, {"CHILD"}) EXCEPT !.textures = 1],
    Gamer(<<"D3D11CreateDevice", "QueryInterface", "GetParent", "GetParent", "CreateSwapChain">>,
          {"GetBuffer", "ResizeBuffers", "CreateRenderTargetView", "ClearRenderTargetView", "Present"}, {}, {}),
    Gamer(<<"D3D11CreateDevice", "QueryInterface">>,
          {"GetParent", "CreateDXGIFactory", "CreateSwapChain", "GetBuffer", "CreateRenderTargetView",
           "ClearRenderTargetView", "Present"}, {}, {}),
    Gamer(<<"D3D11CreateDevice">>, {"GetImmediateContext", "CreateOther", "QueryInterface", "Release"}, {}, {"CONTEXT"}) }
=============================================================================
