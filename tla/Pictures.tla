------------------------------ MODULE Pictures ------------------------------
(***************************************************************************)
(* Picture files (wg_win32_bitmap.c): uncompressed device-independent        *)
(* bitmaps of 8, 24 and 32 bits, with rows from the bottom up or from the top *)
(* down, padded to four bytes.                                              *)
(***************************************************************************)
EXTENDS Integers, Sequences

\* A file: [ok: it starts and is as long as a bitmap file, header: biSize, comp:
\* biCompression, bpp, width, height (negative: from the top), used: biClrUsed,
\* pal: its palette, an entry per index, bits: its bytes, shows: the picture
\* it was made from].  A picture is a sequence of rows of pixels <<r, g, b, a>>.
NoFile == [ok |-> FALSE]
NoPicture == <<>>
Opaque == 255

Stride(f) == 4 * ((f.width * (f.bpp \div 8) + 3) \div 4)
Rows(f) == IF f.height < 0 THEN -f.height ELSE f.height

\* Mutant of RowStart: rows are taken from the top in any file.
RowStartFromTop(f, y) == Stride(f) * (y - 1)

\* Where row y of the picture, from 1 at the top, starts in the file.
RowStart(f, y) == Stride(f) * (IF f.height < 0 THEN y - 1 ELSE Rows(f) - y)

\* An index beyond the palette is a grey, and an alpha of 0 is opaque.
Pixel(f, at) == LET byte(k) == f.bits[at + k] IN
    CASE f.bpp = 8 ->
            (IF byte(1) < (IF f.used = 0 THEN 256 ELSE f.used)
             THEN LET p == f.pal[byte(1)] IN <<p[3], p[2], p[1], Opaque>>
             ELSE <<byte(1), byte(1), byte(1), Opaque>>)
      [] f.bpp = 24 -> <<byte(3), byte(2), byte(1), Opaque>>
      [] f.bpp = 32 -> <<byte(3), byte(2), byte(1), IF byte(4) = 0 THEN Opaque ELSE byte(4)>>

Decodable(f) ==
    /\ f.ok /\ f.header >= 40 /\ f.comp = 0 /\ f.bpp \in {8, 24, 32}
    /\ f.width > 0 /\ Rows(f) > 0

\* decode_dib: a file that is cut short gives a bitmap without its pixels.
Decoded(f) ==
    IF ~Decodable(f) THEN NoPicture
    ELSE [y \in 1 .. Rows(f) |-> [x \in 1 .. f.width |->
            IF Stride(f) * Rows(f) > Len(f.bits) THEN <<0, 0, 0, 0>>
            ELSE Pixel(f, RowStart(f, y) + (x - 1) * (f.bpp \div 8))]]
=============================================================================
