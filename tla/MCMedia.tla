------------------------------- MODULE MCMedia -------------------------------
(* Texts of the characters that are easy to get wrong: an ASCII letter, a  *)
(* half-width kana (one byte above 0x7f), a two-byte character whose trail *)
(* byte is that ASCII letter, and one whose trail byte is itself a lead    *)
(* byte.  QNT pictures of every parity, PMS pictures where every command   *)
(* has a place, archives with chains of bases, and all 16-bit codes.       *)
EXTENDS Media

MCChars == {<<65>>, <<177>>, <<130, 65>>, <<130, 130>>}
-----------------------------------------------------------------------------
Colour(v) == <<v, (v + 7) % 256, 255 - v, (3 * v) % 256>>

MCPictures ==
  UNION {{[w |-> w, h |-> h, pixels |-> [y \in 0 .. h - 1 |-> [x \in 0 .. w - 1 |-> Colour(v[y * w + x])]]] :
            v \in [0 .. w * h - 1 -> {0, 200}]} : w \in 1 .. 3, h \in 1 .. 3}
-----------------------------------------------------------------------------
(* Rows that repeat, alternate, share their high bits, or need an escape.  *)
Rows16 == {<<0, 0, 0, 0, 0, 0>>, <<65535, 4660, 65535, 4660, 65535, 4660>>,
           <<4660, 65535, 4660, 65535, 4661, 4661>>, <<4660, 4661, 4694, 65535, 248, 4661>>,
           <<0, 4660, 65535, 4660, 0, 4660>>}
Rows8 == {<<7, 7, 7, 7, 7, 7>>, <<250, 9, 250, 9, 9, 9>>, <<9, 250, 9, 250, 7, 250>>,
          <<1, 250, 7, 9, 9, 250>>, <<9, 9, 250, 9, 250, 9>>}

ThreeOf(rows) == {[i \in 0 .. 17 |-> r[i \div 6][(i % 6) + 1]] : r \in [0 .. 2 -> rows]}
PmsOf(bpp, colours, mask, dp, pp) ==
  [bpp |-> bpp, w |-> 6, h |-> 3, colours |-> colours, mask |-> mask, dp |-> dp, pp |-> pp]
AColour == CHOOSE c \in ThreeOf(Rows16) : TRUE
AMask   == CHOOSE m \in ThreeOf(Rows8) : TRUE

MCPmsPictures ==
  {PmsOf(8, AColour, m, "in", NULL) : m \in ThreeOf(Rows8)}
    \cup {PmsOf(16, c, AMask, "in", NULL) : c \in ThreeOf(Rows16)}
    \cup {PmsOf(16, AColour, m, "in", "in") : m \in ThreeOf(Rows8)}
    \cup {PmsOf(bpp, AColour, AMask, dp, pp) : bpp \in {8, 16, 24}, dp \in {"in", "out"}, pp \in {NULL, "out"}}
-----------------------------------------------------------------------------
(* Archives: changes of a picture and of a file with a base, of the same   *)
(* size and of another, broken ones; a base that is missing; a circle; PCF *)
(* images inside a larger one, beside it and under it; and pictures        *)
(* narrower than a chunk.                                                  *)
Px(c) == [colour |-> c, alpha |-> 255]
MCClear == [colour |-> NULL, alpha |-> 0]
Im(l, w, h) == [w |-> w, h |-> h, pixels |-> [p \in 0 .. w * h - 1 |-> Px(<<l, p>>)]]
KeyIm(l, w, h, at) ==
  [w |-> w, h |-> h, pixels |-> [p \in 0 .. w * h - 1 |->
     IF p \in at THEN [colour |-> Key, alpha |-> (p % 2) * 255] ELSE Px(<<l, p>>)]]

\* The writer's rotation of the bytes of a name.
Rotated(name) == [i \in DOMAIN name |-> LET n == (Len(name) % 7) + 1
                                        IN  (name[i] \div 2 ^ n) + ((name[i] * 2 ^ (8 - n)) % 256)]

Plain(n, im) == [kind |-> "plain", name |-> n, image |-> im]
Webp(n, im, b) == [kind |-> "webp", name |-> n, image |-> im, base |-> b]
Dcf(n, im, b, ch) == [kind |-> "dcf", name |-> n, image |-> im, base |-> Rotated(b), chunks |-> ch, broken |-> FALSE]
PcfAt(n, im, x, y) ==
  [kind |-> "pcf", name |-> n, image |-> im, w |-> 5, h |-> 3, x |-> x, y |-> y, broken |-> FALSE]
Pcf(n, im) == PcfAt(n, im, 1, 1)

MCCgArchives ==
  {<<Plain(<<65>>, Im("a", 5, 3)), Dcf(<<65, 66>>, d, <<65>>, c), Webp(<<66>>, KeyIm("w", 5, 3, {0, 3, 7}), 2),
     Dcf(<<67>>, Im("e", 5, 3), <<65, 66>>, <<0, 1>>)>> :
     d \in {Im("d", 5, 3), Im("d", 4, 3), NULL}, c \in [1 .. 2 -> {0, 1}] \cup {<<1>>, <<0, 1, 0>>, <<1, 1, 1>>}}
    \cup {<<Plain(<<65>>, b), Webp(<<65, 66>>, i, 1), Webp(<<66>>, KeyIm("v", 4, 2, {1}), 2),
            [Dcf(<<67>>, Im("e", 4, 2), <<68>>, <<0, 1>>) EXCEPT !.broken = br]>> :
            b \in {Im("a", 5, 3), Im("b", 4, 2), NULL}, i \in {KeyIm("w", 5, 3, {0, 14}), NULL}, br \in BOOLEAN}
    \cup {<<Pcf(<<65>>, Im("p", 2, 2)), Webp(<<66>>, KeyIm("w", 5, 3, {0, 6, 7}), 1),
            [Pcf(<<67>>, Im("q", 3, 1)) EXCEPT !.broken = br], Webp(<<68>>, KeyIm("w", 5, 3, {0}), 9)>> : br \in BOOLEAN}
    \cup {<<Webp(<<65>>, KeyIm("w", 2, 1, {0}), 2), Webp(<<66>>, KeyIm("v", 2, 1, {1}), 1),
            Webp(<<67>>, KeyIm("u", 2, 1, {1}), 3)>>,
          <<PcfAt(<<65>>, Im("p", 2, 1), 4, 1), PcfAt(<<66>>, Im("q", 7, 2), -1, 1), PcfAt(<<67>>, Im("p", 2, 2), 1, 2),
            Webp(<<68>>, KeyIm("w", 5, 3, {0, 9, 10}), 1), Dcf(<<69>>, Im("d", 5, 3), <<67>>, <<0>>)>>,
          <<Plain(<<65>>, Im("s", 1, 3)), Dcf(<<66>>, Im("t", 1, 3), <<65>>, <<>>),
            Dcf(<<67>>, Im("t", 1, 3), <<66>>, <<0>>), Webp(<<68>>, Im("u", 1, 3), 0)>>}
-----------------------------------------------------------------------------
MCFaces == {<<5, 0, 7>>, [i \in 1 .. 200 |-> IF i % 3 = 0 THEN 0 ELSE i]}
=============================================================================
