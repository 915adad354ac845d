------------------------------- MODULE CgLoad -------------------------------
(***************************************************************************)
(* Loading an image from an archive (src/src/cg.c): a WebP or DCF image    *)
(* may be the changes to another image of the archive, which is loaded     *)
(* first and may have a base itself; a PCF image is placed in a larger     *)
(* empty one.  The recursion of cg_load_internal is a stack of the files   *)
(* that wait for their base.                                               *)
(***************************************************************************)
EXTENDS Integers, Sequences, FiniteSets

LOCAL INSTANCE FiniteSetsExt

CONSTANTS CgArchives,  \* archives: sequences of files, of which the first is number 0
          Clear,       \* the pixel of zeros
          Key,         \* the colour of WebP images that stands for the base
          Chunk,       \* the side of a chunk: 16
          MaxDepth,    \* files that wait, at most
          NULL

VARIABLES archive,
          asked,   \* what is loaded: [no, ar], ar is FALSE without the archive
          stack,   \* the numbers of the files being loaded, the last one on top
          based,   \* TRUE when the top has its base in `value`
          value,   \* the image that was loaded last, or NULL
          loading  \* "idle", "busy", "done", "aborted", or "overrun": memory
                   \* outside an image was written

vars == <<archive, asked, stack, based, value, loading>>

\* An image: [w, h, pixels], the pixels by their place from 0.
Places(w, h) == 0 .. w * h - 1

File(no)  == archive[no + 1]
Exists(no) == no + 1 \in DOMAIN archive
Top       == Len(stack)
Waiting   == File(stack[Top])
\* The archive is passed on to bases; the file asked for may be without.
HasArchive == Len(stack) > 1 \/ asked.ar

\* The file with the base name: the first one.  Not all archives have these.
ByBasename(name) ==
  {no \in 0 .. Len(archive) - 1 :
     File(no).name = name /\ \A other \in 0 .. no - 1 : File(other).name # name}
-----------------------------------------------------------------------------
(* Returns.                                                                *)

Return(image) ==
  /\ value' = image
  /\ stack' = SubSeq(stack, 1, Top - 1)
  /\ based' = (Top > 1)
  /\ loading' = IF Top = 1 THEN "done" ELSE "busy"
  /\ UNCHANGED <<archive, asked>>

\* cg_load of the base number no, or cg_load_data of the file found by name;
\* MaxDepth stands for the end of the call stack.
LoadBase(no) ==
  /\ Top < MaxDepth
  /\ stack' = Append(stack, no) /\ based' = FALSE
  /\ UNCHANGED <<archive, asked, value, loading>>

\* cg_load, cg_load_data (TRUE); cg_load_file, cg_load_buffer (FALSE).
CgLoad(no, ar) ==
  /\ loading = "idle"
  /\ asked' = [no |-> no, ar |-> ar]
  /\ IF Exists(no) THEN stack' = <<no>> /\ loading' = "busy"
                   ELSE stack' = <<>> /\ loading' = "done"
  /\ UNCHANGED <<archive, based, value>>

Starting(kind) == loading = "busy" /\ ~based /\ Waiting.kind = kind

\* The program ends, or nothing can be said of it any more.
Stop(how) == loading' = how /\ UNCHANGED <<archive, asked, stack, based, value>>

\* The formats that are the image itself, or that are not understood.
LoadPlain == Starting("plain") /\ Return(Waiting.image)

\* pcf_extract: the image has a place in an empty one.
PlacedAt(pcf, p) == (pcf.y + p \div pcf.image.w) * pcf.w + pcf.x + (p % pcf.image.w)

\* The pixels of the image that come to a place, of which the last one stays.
ComeTo(pcf, d) == {p \in Places(pcf.image.w, pcf.image.h) : PlacedAt(pcf, p) = d}

PlacedIn(pcf) ==
  [w |-> pcf.w, h |-> pcf.h,
   pixels |-> [d \in Places(pcf.w, pcf.h) |->
                 IF ComeTo(pcf, d) = {} THEN Clear ELSE pcf.image.pixels[Max(ComeTo(pcf, d))]]]

\* The places are not checked; a pixel beside the larger image is in the row
\* above or below, one over or under all of it is in other memory.
Overruns(pcf) ==
  \E p \in Places(pcf.image.w, pcf.image.h) : PlacedAt(pcf, p) \notin Places(pcf.w, pcf.h)

LoadPcf ==
  /\ Starting("pcf")
  /\ IF Waiting.broken \/ Waiting.image = NULL THEN Return(NULL)
     ELSE IF Overruns(Waiting) THEN Stop("overrun")
     ELSE Return(PlacedIn(Waiting))
-----------------------------------------------------------------------------
(* webp_extract.  The base is a number from 1; -1 where the file has none. *)

BaseNumber_FromZero(webp) == webp.base

BaseNumber(webp) == webp.base - 1

LoadWebp ==
  /\ Starting("webp")
  /\ IF HasArchive /\ Waiting.base >= 0 /\ Exists(BaseNumber(Waiting)) THEN LoadBase(BaseNumber(Waiting))
     ELSE Return(Waiting.image)

SameSize(a, b) == a.w = b.w /\ a.h = b.h

\* The pixels of the colour Key are those of the base, whatever their alpha.
MaskKey(image, base) ==
  [image EXCEPT !.pixels = [p \in DOMAIN @ |-> IF @[p].colour = Key THEN base.pixels[p] ELSE @[p]]]

WebpWithBase ==
  /\ loading = "busy" /\ based /\ Waiting.kind = "webp"
  /\ Return(IF value = NULL \/ Waiting.image = NULL \/ ~SameSize(value, Waiting.image) THEN Waiting.image
            ELSE MaskKey(Waiting.image, value))
-----------------------------------------------------------------------------
(* dcf_extract.                                                            *)

\* dcf_read_header: the bytes of the name were rotated to the right by a
\* number of bits that depends on its length.
RotateLeft(byte, n) == ((byte * 2 ^ n) % 256) + byte \div 2 ^ (8 - n)

BaseName(name) == [i \in DOMAIN name |-> RotateLeft(name[i], (Len(name) % 7) + 1)]

Abort == Stop("aborted")

\* Without a base the changes are the image; they are then read as QNT
\* whatever they are, which is undefined when they are nothing.
ChangesAlone == IF Waiting.image = NULL THEN Abort ELSE Return(Waiting.image)

LoadDcf ==
  /\ Starting("dcf")
  /\ IF Waiting.broken THEN Return(NULL)
     ELSE IF HasArchive /\ ByBasename(BaseName(Waiting.base)) # {}
     THEN LoadBase(CHOOSE no \in ByBasename(BaseName(Waiting.base)) : TRUE)
     ELSE ChangesAlone

\* dcf_blit asserts that the rectangle is within the base, and copies it to
\* where it is from.
Within(base, r) == r.x + r.w <= base.w /\ r.y + r.h <= base.h

Inside(base, r, p) == /\ p % base.w \in r.x .. r.x + r.w - 1
                      /\ p \div base.w \in r.y .. r.y + r.h - 1

\* dcf_apply_diff: the rectangles it copies; those of the chunks whose flag is
\* 0, then the strips at the right and at the bottom that are not in a chunk.
Rectangles(base, chunks) ==
  LET chunks_w == base.w \div Chunk  chunks_h == base.h \div Chunk
      rest_w   == base.w % Chunk     rest_h   == base.h % Chunk
  IN  {[x |-> ((i - 1) % chunks_w) * Chunk, y |-> ((i - 1) \div chunks_w) * Chunk, w |-> Chunk, h |-> Chunk] :
         i \in {j \in DOMAIN chunks : chunks[j] = 0}}
        \cup {r \in {[x |-> chunks_w * Chunk, y |-> 0, w |-> rest_w, h |-> base.h]} : rest_w # 0}
        \cup {r \in {[x |-> 0, y |-> chunks_h * Chunk, w |-> base.w, h |-> rest_h]} : rest_h # 0}

ApplyDiff(base, diff, chunks) ==
  [base EXCEPT !.pixels = [p \in DOMAIN @ |->
     IF \E r \in Rectangles(base, chunks) : Inside(base, r, p) THEN diff.pixels[p] ELSE @[p]]]

\* A chunk of a base less than a chunk wide is a division by zero, and one that
\* is not in the base fails the assertion: both end the program.
Fatal(base, chunks) ==
  \/ base.w < Chunk /\ \E i \in DOMAIN chunks : chunks[i] = 0
  \/ base.w >= Chunk /\ \E r \in Rectangles(base, chunks) : ~Within(base, r)

DcfWithBase ==
  /\ loading = "busy" /\ based /\ Waiting.kind = "dcf"
  /\ IF value = NULL THEN ChangesAlone
     ELSE IF Waiting.image = NULL \/ ~SameSize(value, Waiting.image) THEN Return(value)
     ELSE IF Fatal(value, Waiting.chunks)
     THEN Abort
     ELSE Return(ApplyDiff(value, Waiting.image, Waiting.chunks))

Init == /\ archive \in CgArchives
        /\ asked = NULL /\ stack = <<>> /\ based = FALSE /\ value = NULL /\ loading = "idle"

Step == LoadPlain \/ LoadPcf \/ LoadWebp \/ WebpWithBase \/ LoadDcf \/ DcfWithBase

Begin == \E no \in 0 .. Len(archive), ar \in BOOLEAN : CgLoad(no, ar)

Next == Begin \/ Step

\* A call that was begun runs on.
Spec == Init /\ [][Next]_vars /\ WF_vars(Step)
-----------------------------------------------------------------------------
\* cg_get_metrics: of a DCF image those of the changes, which must be QNT.
Metrics(no) == LET f == File(no) IN IF f.kind = "pcf" THEN [w |-> f.w, h |-> f.h]
                                    ELSE [w |-> f.image.w, h |-> f.image.h]

\* The file that is the base of a file, or NULL.
BaseOf(no) ==
  LET f == File(no) IN
  CASE f.kind = "webp" /\ f.base - 1 \in 0 .. Len(archive) - 1 -> f.base - 1
    [] f.kind = "dcf" /\ ~f.broken /\ ByBasename(BaseName(f.base)) # {} ->
         CHOOSE n \in ByBasename(BaseName(f.base)) : TRUE
    [] OTHER -> NULL

\* The bases of a file, and theirs, in turn.
Chain(no) == LET base[k \in 0 .. Len(archive)] ==
                   IF k = 0 THEN no ELSE IF base[k - 1] = NULL THEN NULL ELSE BaseOf(base[k - 1])
             IN  base
Circular(no) == Chain(no)[Len(archive)] # NULL

\* Whether the changes are what is shown at a place: they are in a chunk whose
\* flag is 0, or in none.
Changed(dcf, p) ==
  LET w == dcf.image.w \div Chunk  h == dcf.image.h \div Chunk
      x == (p % dcf.image.w) \div Chunk  y == (p \div dcf.image.w) \div Chunk
  IN  x >= w \/ y >= h \/ (y * w + x + 1 \in DOMAIN dcf.chunks /\ dcf.chunks[y * w + x + 1] = 0)

\* A PCF image lies inside the one it is placed in.
PartFits(no) ==
  LET f == File(no)
  IN  f.kind = "pcf" /\ ~f.broken /\ f.image # NULL =>
        f.x >= 0 /\ f.y >= 0 /\ f.x + f.image.w <= f.w /\ f.y + f.image.h <= f.h

PartsFit(no) == \A k \in DOMAIN Chain(no) : Chain(no)[k] # NULL => PartFits(Chain(no)[k])

\* What a file shows, place by place.
RECURSIVE Shown(_, _)
Shown(no, ar) ==
  LET f    == File(no)
      base == IF ar /\ BaseOf(no) # NULL THEN Shown(BaseOf(no), TRUE) ELSE NULL
      fits == base # NULL /\ f.image # NULL /\ SameSize(base, f.image)
      over(Keep(_)) == [f.image EXCEPT !.pixels = [p \in DOMAIN @ |-> IF Keep(p) THEN @[p] ELSE base.pixels[p]]]
  IN  CASE f.kind = "webp" /\ fits -> over(LAMBDA p : f.image.pixels[p].colour # Key)
        [] f.kind = "dcf" /\ f.broken -> NULL
        [] f.kind = "dcf" /\ ~f.broken /\ fits -> over(LAMBDA p : Changed(f, p))
        [] f.kind = "dcf" /\ ~f.broken /\ base # NULL /\ ~fits -> base
        [] f.kind = "pcf" ->
             IF f.broken \/ f.image = NULL THEN NULL
             ELSE [w |-> f.w, h |-> f.h, pixels |-> [d \in Places(f.w, f.h) |->
                     LET x == (d % f.w) - f.x  y == (d \div f.w) - f.y
                     IN  IF x \in 0 .. f.image.w - 1 /\ y \in 0 .. f.image.h - 1
                         THEN f.image.pixels[y * f.image.w + x] ELSE Clear]]
        [] OTHER -> f.image

\* A DCF image that is its base, as its changes do not apply to that.
IsItsBase(no, ar) ==
  LET f    == File(no)
      base == IF ar /\ BaseOf(no) # NULL THEN Shown(BaseOf(no), TRUE) ELSE NULL
  IN  f.kind = "dcf" /\ base # NULL /\ (f.image = NULL \/ ~SameSize(base, f.image))

(* An image loads as what its file and the bases below it show together:   *)
(* each place has the pixel of the last file that changed it, a base of    *)
(* another size or that does not load leaves a WebP image as it is and a   *)
(* DCF image its changes.  The size is the one cg_get_metrics gives, but   *)
(* of a DCF image whose changes are of another size than its base, or do   *)
(* not load.  What a PCF image shows that is not inside the one it is      *)
(* placed in is left open (pcf.c:143-147); memory outside is written for   *)
(* no other.                                                               *)
ImageComposed ==
  /\ loading = "done" =>
       IF ~Exists(asked.no) THEN value = NULL
       ELSE /\ PartsFit(asked.no) => value = Shown(asked.no, asked.ar)
            /\ value # NULL /\ ~IsItsBase(asked.no, asked.ar) => SameSize(value, Metrics(asked.no))
  /\ loading = "overrun" => ~PartsFit(asked.no)

(* Loading ends, unless the bases of the file run in a circle, which       *)
(* nothing in the code prevents (webp.c:87).                               *)
LoadEnds ==
  (loading = "busy" /\ (asked.ar => ~Circular(asked.no)))
     ~> (loading \in {"done", "aborted", "overrun"})
=============================================================================
