--------------------------------- MODULE Qnt ---------------------------------
(***************************************************************************)
(* QNT images (src/src/qnt.c): a picture is written with qnt_write and     *)
(* read with qnt_extract.  Each byte is replaced by its difference from a  *)
(* prediction by its neighbours, in place; the colours are then stored as  *)
(* planes of 2x2 blocks, the alpha channel as rows of even length.         *)
(* Compression (zlib) is taken to give back what it was given, or to fail. *)
(***************************************************************************)
EXTENDS Integers, Sequences

LOCAL INSTANCE SequencesExt

CONSTANTS Pictures,   \* [w, h, pixels]: pixels[y][x] is <<r, g, b, a>>, from 0
          Undefined,  \* a byte that was not written
          NULL

VARIABLES picture,  \* what is written
          file,     \* the file, or NULL
          cg        \* what qnt_extract made of it, or NULL

vars == <<picture, file, cg>>

Channels == 1 .. 4
Even(n) == n + (n % 2)

\* The places of a w x h picture, row by row from the top, each from the left.
Raster(w, h) == [k \in 1 .. w * h |-> [x |-> (k - 1) % w, y |-> (k - 1) \div w]]

\* The difference between the prediction at a place and the value there:
\* half the sum of above and left, in the first row left, in the first column
\* above.  In the decoder the same with the differences gives the values back.
Difference(rows, p) ==
  LET up(c)   == rows[p.y - 1][p.x][c]
      left(c) == rows[p.y][p.x - 1][c]
  IN  [c \in DOMAIN rows[p.y][p.x] |->
         ((IF p.y = 0 THEN left(c) ELSE IF p.x = 0 THEN up(c) ELSE (up(c) + left(c)) \div 2)
            - rows[p.y][p.x][c]) % 256]

InPlace(rows, p) == IF p.x = 0 /\ p.y = 0 THEN rows ELSE [rows EXCEPT ![p.y][p.x] = Difference(rows, p)]

Filter_FromTheTop(rows, w, h) == FoldLeft(InPlace, rows, Raster(w, h))

\* filter: from the last place to the first, so that it sees no differences.
Filter(rows, w, h) == FoldLeft(InPlace, rows, Reverse(Raster(w, h)))

\* allocate_bitmap_buffer: even dimensions, with zeros beyond the picture.
Padded(rows, w, h) ==
  [y \in 0 .. Even(h) - 1 |-> [x \in 0 .. Even(w) - 1 |->
     IF x < w /\ y < h THEN rows[y][x] ELSE <<0, 0, 0, 0>>]]

\* encode_pixels: the colours from the last to the first, as blocks of 2x2,
\* each column by column.
EncodePixels(rows, w, h) ==
  LET blocks(c) == [k \in 1 .. (Even(w) \div 2) * (Even(h) \div 2) |->
                      LET x == 2 * ((k - 1) % (Even(w) \div 2))
                          y == 2 * ((k - 1) \div (Even(w) \div 2))
                      IN  <<rows[y][x][c], rows[y + 1][x][c], rows[y][x + 1][c], rows[y + 1][x + 1][c]>>]
  IN  FlattenSeq(blocks(3) \o blocks(2) \o blocks(1))

\* encode_alpha.
EncodeAlpha(rows, w, h) ==
  [k \in 1 .. Even(w) * Even(h) |-> rows[(k - 1) \div Even(w)][(k - 1) % Even(w)][4]]

\* The header: the numbers after the magic, with a new layout if the first is
\* not 0.
Header(w, h, pixel_size, alpha_size) == <<1, 52, 0, 0, w, h, 24, 1, pixel_size, alpha_size>>

QntWrite ==
  /\ file = NULL
  /\ LET w == picture.w  h == picture.h
         rows == Filter(Padded(picture.pixels, w, h), w, h)
     IN  file' = [header |-> Header(w, h, 1, 1),
                  pixels |-> EncodePixels(rows, w, h), alpha |-> EncodeAlpha(rows, w, h)]
  /\ UNCHANGED <<picture, cg>>

\* Another writer's file: the old layout of the header, or no alpha channel.
\* Compressed data that is broken does not decompress.
Rewritten ==
  /\ file # NULL /\ cg = NULL
  /\ \/ /\ file.header[1] = 1
        /\ file' = [file EXCEPT !.header = <<0>> \o SubSeq(file.header, 3, 10)]
     \/ /\ file.alpha # NULL
        /\ file' = [file EXCEPT !.alpha = NULL, !.header[Len(file.header)] = 0]
     \/ file.pixels # NULL /\ file' = [file EXCEPT !.pixels = NULL]
     \/ file.alpha # NULL /\ file' = [file EXCEPT !.alpha = NULL]
  /\ UNCHANGED <<picture, cg>>
-----------------------------------------------------------------------------
\* qnt_extract_header.
ExtractHeader(h) ==
  LET at == IF h[1] = 0 THEN 2 ELSE 3
  IN  [x0 |-> h[at], y0 |-> h[at + 1], w |-> h[at + 2], h |-> h[at + 3], bpp |-> h[at + 4],
       pixel_size |-> h[at + 6], alpha_size |-> h[at + 7]]

\* qnt_init_metrics.
Metrics(q) == [w |-> q.w, h |-> q.h, bpp |-> q.bpp,
               has_pixel |-> q.pixel_size > 0, has_alpha |-> q.alpha_size > 0,
               pixel_pitch |-> q.w * (q.bpp \div 8), alpha_pitch |-> 1]

Rows(w, h, Value(_, _)) == [y \in 0 .. h - 1 |-> [x \in 0 .. w - 1 |-> Value(x, y)]]

\* extract_pixel: a plane has a block for the odd last column and row too, of
\* which only the first column or row is used.
PlaneIndex(w, h, c, x, y) ==
  LET blocks == (Even(w) \div 2) * (Even(h) \div 2)
      block  == (3 - c) * blocks + (y \div 2) * (Even(w) \div 2) + x \div 2
  IN  4 * block + 2 * (x % 2) + (y % 2) + 1

\* The pixels stay zero if the data does not decompress.
ExtractPixel(q, raw) ==
  IF raw = NULL THEN Rows(q.w, q.h, LAMBDA x, y : <<0, 0, 0>>)
  ELSE FoldLeft(InPlace,
                Rows(q.w, q.h, LAMBDA x, y : [c \in 1 .. 3 |-> raw[PlaneIndex(q.w, q.h, c, x, y)]]),
                Raster(q.w, q.h))

\* extract_alpha goes through the bytes, and skips one after a row of odd
\* length; but the first row only if it is longer than one.  If the data does
\* not decompress, the bytes of the alpha channel stay those of xmalloc.
AlphaIndex(w, x, y) == y * Even(w) + x + 1

ExtractAlpha(q, raw) ==
  IF raw = NULL \/ q.w = 1
  THEN \* Of one column, the first is not set, and all others differ from the one above.
       Rows(q.w, q.h, LAMBDA x, y : Undefined)
  ELSE LET alpha == FoldLeft(InPlace, Rows(q.w, q.h, LAMBDA x, y : <<raw[AlphaIndex(q.w, x, y)]>>),
                             Raster(q.w, q.h))
       IN  Rows(q.w, q.h, LAMBDA x, y : alpha[y][x][1])

QntExtract ==
  /\ file # NULL /\ cg = NULL
  /\ LET q      == ExtractHeader(file.header)
         pixels == ExtractPixel(q, file.pixels)
         alpha  == IF q.alpha_size > 0 THEN ExtractAlpha(q, file.alpha)
                   ELSE Rows(q.w, q.h, LAMBDA x, y : 255)
     IN  cg' = [metrics |-> Metrics(q), pixels |-> Rows(q.w, q.h, LAMBDA x, y : Append(pixels[y][x], alpha[y][x]))]
  /\ UNCHANGED <<picture, file>>

Init == picture \in Pictures /\ file = NULL /\ cg = NULL

Next == QntWrite \/ Rewritten \/ QntExtract

Spec == Init /\ [][Next]_vars
-----------------------------------------------------------------------------
(* A picture of any parity is read as it was written, from both layouts of *)
(* the header: opaque without an alpha channel, black if the colours do    *)
(* not decompress.  The alpha channel is not read where it was never set:  *)
(* in a picture one pixel wide (qnt.c:182), and if it does not decompress  *)
(* (qnt.c:172-176, 259).                                                   *)
PictureReadBack ==
  cg # NULL =>
    /\ cg.metrics.w = picture.w /\ cg.metrics.h = picture.h
    /\ cg.metrics.has_alpha = (file.header[Len(file.header)] # 0)
    /\ \A y \in 0 .. picture.h - 1, x \in 0 .. picture.w - 1 :
         LET was == picture.pixels[y][x]
             is  == cg.pixels[y][x]
         IN  /\ SubSeq(is, 1, 3) = IF file.pixels = NULL THEN <<0, 0, 0>> ELSE SubSeq(was, 1, 3)
             /\ \/ is[4] = IF cg.metrics.has_alpha THEN was[4] ELSE 255
                \/ cg.metrics.has_alpha /\ (picture.w = 1 \/ file.alpha = NULL)
=============================================================================
