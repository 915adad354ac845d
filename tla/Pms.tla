--------------------------------- MODULE Pms ---------------------------------
(***************************************************************************)
(* PMS images (src/src/pms.c): 16-bit colours, or an 8-bit mask, packed as *)
(* a stream of literals, copies of what is above, and repetitions.  The    *)
(* writer is external: at each place it may take any command that says     *)
(* what comes next in the picture; the decoder takes the command's bytes.  *)
(***************************************************************************)
EXTENDS Integers, Sequences

CONSTANTS PmsPictures,  \* [bpp, w, h, colours, mask, dp, pp]: rows one after the other, from 0
          NULL

VARIABLES pms,    \* the picture that was written, with its header
          place,  \* how many pixels of the stream the writer is through with
          stage,  \* "file", "pixels", "alpha", "unpacked", "done"
          pixels, \* the 16-bit pixels unpacked so far
          alpha,  \* the 8-bit pixels unpacked so far
          result  \* what pms_extract gives: [metrics, pixels]

vars == <<pms, place, stage, pixels, alpha, result>>

Size == pms.w * pms.h
-----------------------------------------------------------------------------
(* The writer: the bytes that may stand for what comes next, by what the   *)
(* comments of the decoder say of them (pms.c:86-223).                     *)

Most == 12   \* no run of a picture is longer

\* Commands whose count byte n stands for unit * (n + least) places from `at`
\* to the end of the row, where each place is right: with the places they take.
Runs(at, unit, least, Right(_), Bytes(_)) ==
  LET end(n) == at + unit * (n + least)
  IN  {[bytes |-> Bytes(n), to |-> end(n)] :
         n \in {m \in 0 .. Most : /\ end(m) <= at + pms.w - (at % pms.w)
                                  /\ \A i \in at .. end(m) - 1 : Right(i)}}

One(at, bytes, Right) == {c \in {[bytes |-> bytes, to |-> at + 1]} : Right}

Above(p, rows, i) == i >= rows * pms.w /\ p[i] = p[i - rows * pms.w]
Same(p, at, i)    == p[i] = p[at]
Paired(p, at, i)  == p[i] = p[at + ((i - at) % 2)]

Mask8(p, at) ==
  Runs(at, 1, 3, LAMBDA i : Above(p, 1, i), LAMBDA n : <<255, n>>)
    \cup Runs(at, 1, 3, LAMBDA i : Above(p, 2, i), LAMBDA n : <<254, n>>)
    \cup Runs(at, 1, 4, LAMBDA i : Same(p, at, i), LAMBDA n : <<253, n, p[at]>>)
    \cup Runs(at, 2, 3, LAMBDA i : Paired(p, at, i), LAMBDA n : <<252, n, p[at], p[at + 1]>>)
    \cup One(at, <<p[at]>>, p[at] < 248)
    \cup UNION {One(at, <<c, p[at]>>, TRUE) : c \in 248 .. 251}

Bytes2(c) == <<c % 256, c \div 256>>

\* The most significant bits of the three parts of a colour, and the others.
Shared(c) == (c \div 8192) * 32 + ((c \div 512) % 4) * 8 + ((c \div 4) % 8)
Own(c)    == ((c \div 2048) % 4) * 64 + ((c \div 32) % 16) * 4 + (c % 4)

Colours16(p, at) ==
  Runs(at, 1, 2, LAMBDA i : Above(p, 1, i), LAMBDA n : <<255, n>>)
    \cup Runs(at, 1, 2, LAMBDA i : Above(p, 2, i), LAMBDA n : <<254, n>>)
    \cup Runs(at, 1, 3, LAMBDA i : Same(p, at, i), LAMBDA n : <<253, n>> \o Bytes2(p[at]))
    \cup Runs(at, 2, 2, LAMBDA i : Paired(p, at, i),
              LAMBDA n : <<252, n>> \o Bytes2(p[at]) \o Bytes2(p[at + 1]))
    \cup One(at, <<251>>, at % pms.w > 0 /\ at > pms.w /\ p[at] = p[at - pms.w - 1])
    \cup One(at, <<250>>, at % pms.w < pms.w - 1 /\ at >= pms.w /\ p[at] = p[at - pms.w + 1])
    \cup Runs(at, 1, 1, LAMBDA i : Shared(p[i]) = Shared(p[at]),
              LAMBDA n : <<249, n, Shared(p[at])>> \o [i \in 1 .. n + 1 |-> Own(p[at + i - 1])])
    \cup One(at, Bytes2(p[at]), p[at] % 256 < 248)
    \cup One(at, <<248>> \o Bytes2(p[at]), TRUE)
-----------------------------------------------------------------------------
(* The decoder: the pixels that a command writes after those of pic (a     *)
(* sequence from 1, so that pic[loc - scanline] is pic[Len(pic) + 1 - w]). *)

CopyFrom(pic, back, n) == [i \in 1 .. n |-> pic[Len(pic) - back + i]]

Repeat(unit, n) == [i \in 1 .. n * Len(unit) |-> unit[((i - 1) % Len(unit)) + 1]]

Unpack8(pic, b) ==
  CASE b[1] <= 247 -> <<b[1]>>
    [] b[1] = 255  -> CopyFrom(pic, pms.w, b[2] + 3)
    [] b[1] = 254  -> CopyFrom(pic, 2 * pms.w, b[2] + 3)
    [] b[1] = 253  -> Repeat(<<b[3]>>, b[2] + 4)
    [] b[1] = 252  -> Repeat(<<b[3], b[4]>>, b[2] + 3)
    [] OTHER       -> <<b[2]>>

Word(c0, c1) == c0 + 256 * c1

\* pc0 and pc1 of the command 0xf9.
Combined(c0, c1) ==
  ((c0 \div 32) * 8192 + ((c0 \div 8) % 4) * 512 + (c0 % 8) * 4)
    + ((c1 \div 64) * 2048 + ((c1 \div 4) % 16) * 32 + (c1 % 4))

Unpack16(pic, b) ==
  CASE b[1] <= 247 -> <<Word(b[1], b[2])>>
    [] b[1] = 255  -> CopyFrom(pic, pms.w, b[2] + 2)
    [] b[1] = 254  -> CopyFrom(pic, 2 * pms.w, b[2] + 2)
    [] b[1] = 253  -> Repeat(<<Word(b[3], b[4])>>, b[2] + 3)
    [] b[1] = 252  -> Repeat(<<Word(b[3], b[4]), Word(b[5], b[6])>>, b[2] + 2)
    [] b[1] = 251  -> CopyFrom(pic, pms.w + 1, 1)
    [] b[1] = 250  -> CopyFrom(pic, pms.w - 1, 1)
    [] b[1] = 249  -> [i \in 1 .. b[2] + 1 |-> Combined(b[3], b[3 + i])]
    [] OTHER       -> <<Word(b[2], b[3])>>
-----------------------------------------------------------------------------
\* pms_init_metrics; pp is NULL where there is no palette or alpha.
InitMetrics ==
  [w |-> pms.w, h |-> pms.h, bpp |-> pms.bpp, has_pixel |-> pms.bpp # 8,
   has_alpha |-> pms.bpp = 8 \/ pms.pp # NULL, pixel_pitch |-> pms.w * (pms.bpp \div 8), alpha_pitch |-> 1]

InBounds == pms.dp = "in" /\ pms.pp # "out"

\* RGB565to8888: the high bits of a part are repeated below it.
RGB565to8888(pc, a) ==
  LET r == pc \div 2048  g == (pc \div 32) % 64  b == pc % 32
  IN  <<r * 8 + r \div 4, g * 4 + g \div 16, b * 8 + b \div 4, a>>

\* pms_extract up to the stream; the metrics stay when there are no pixels.
PmsExtract ==
  /\ stage = "file"
  /\ result' = [metrics |-> InitMetrics, pixels |-> NULL]
  /\ stage' = IF ~InBounds THEN "done"
              ELSE CASE pms.bpp = 8 -> "alpha" [] pms.bpp = 16 -> "pixels" [] OTHER -> "done"
  /\ UNCHANGED <<pms, place, pixels, alpha>>

\* pms_extract_mask up to the stream: the result is the 8-bit pixels.
ExtractMask ==
  /\ stage = "file"
  /\ stage' = IF InBounds /\ pms.bpp = 8 THEN "alpha" ELSE "done"
  /\ UNCHANGED <<pms, place, pixels, alpha, result>>

\* An iteration of pms16_extract, and its end.
Pms16 ==
  /\ stage = "pixels"
  /\ IF Len(pixels) < Size
     THEN /\ \E c \in Colours16(pms.colours, place) :
               pixels' = pixels \o Unpack16(pixels, c.bytes) /\ place' = c.to
          /\ UNCHANGED stage
     ELSE /\ stage' = IF pms.pp # NULL THEN "alpha" ELSE "unpacked"
          /\ place' = 0 /\ UNCHANGED pixels
  /\ UNCHANGED <<pms, alpha, result>>

\* An iteration of pms8_extract, and its end.
Pms8 ==
  /\ stage = "alpha"
  /\ IF Len(alpha) < Size
     THEN /\ \E c \in Mask8(pms.mask, place) :
               alpha' = alpha \o Unpack8(alpha, c.bytes) /\ place' = c.to
          /\ UNCHANGED stage
     ELSE /\ stage' = IF result = NULL THEN "done" ELSE "unpacked"
          /\ place' = 0 /\ UNCHANGED alpha
  /\ UNCHANGED <<pms, pixels, result>>

\* The ends of pms8_load and pms16_load.
Convert ==
  /\ stage = "unpacked" /\ stage' = "done"
  /\ result' = [result EXCEPT !.pixels =
       [i \in 1 .. Size |-> IF pms.bpp = 8 THEN <<0, 0, 0, alpha[i]>>
                            ELSE RGB565to8888(pixels[i], IF pms.pp # NULL THEN alpha[i] ELSE 255)]]
  /\ UNCHANGED <<pms, place, pixels, alpha>>

Init == pms \in PmsPictures /\ place = 0 /\ stage = "file" /\ pixels = <<>> /\ alpha = <<>> /\ result = NULL

Next == PmsExtract \/ ExtractMask \/ Pms16 \/ Pms8 \/ Convert

Spec == Init /\ [][Next]_vars
-----------------------------------------------------------------------------
(* Whatever commands a writer chose, what pms_extract or pms_extract_mask  *)
(* has unpacked is the picture up to there: a command never writes a pixel *)
(* too many or too few, which would shift the rest of the row.  At the end *)
(* black stays black, full intensity becomes full intensity, and what has  *)
(* no alpha is opaque.                                                     *)
PictureUnpacked ==
  /\ stage = "pixels" => Len(pixels) = place
  /\ stage = "alpha" => Len(alpha) = place
  /\ \A i \in DOMAIN pixels : i <= Size /\ pixels[i] = pms.colours[i - 1]
  /\ \A i \in DOMAIN alpha : i <= Size /\ alpha[i] = pms.mask[i - 1]
  /\ stage = "done" /\ result # NULL /\ InBounds /\ pms.bpp \in {8, 16} =>
       \A i \in 1 .. Size :
         LET c == IF pms.bpp = 16 THEN pms.colours[i - 1] ELSE 0
             rgba == result.pixels[i]
         IN  /\ (rgba[1] = 255) = (c \div 2048 = 31) /\ (rgba[1] = 0) = (c \div 2048 = 0)
             /\ (rgba[2] = 255) = ((c \div 32) % 64 = 63) /\ rgba[3] \div 8 = c % 32
             /\ rgba[4] = IF pms.bpp = 8 \/ pms.pp # NULL THEN pms.mask[i - 1] ELSE 255
  /\ stage = "done" => (result # NULL /\ result.pixels = NULL => ~InBounds \/ pms.bpp \notin {8, 16})
=============================================================================
