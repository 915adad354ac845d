------------------------------ MODULE SjisText ------------------------------
(***************************************************************************)
(* The text of a `struct string' (src/src/string.c): Shift-JIS bytes in    *)
(* which a character takes one byte or two, addressed by CHARACTER index   *)
(* although the size is kept in bytes.  Texts are sequences of byte        *)
(* values; the NUL that ends them in memory is "position Len(t)".          *)
(* Positions and character indices count from 0, as in the source.         *)
(***************************************************************************)
EXTENDS Integers, Sequences

Byte == 1 .. 255
Text == Seq(Byte)

\* SJIS_2BYTE: does this byte start a two-byte character?
Is2Byte(b) == b \in 128 .. 159 \/ b \in 224 .. 255

At(t, p) == t[p + 1]

Width(t, p) == IF Is2Byte(At(t, p)) THEN 2 ELSE 1

\* The first n bytes of t, and what follows position n.
Before(t, n) == SubSeq(t, 1, n)
From(t, n)   == SubSeq(t, n + 1, Len(t))

(***************************************************************************)
(* sjis_index: the byte position of character k (of the first one if k is  *)
(* negative), or -1 when the text ends first or breaks off inside a        *)
(* two-byte character.                                                     *)
(***************************************************************************)
NoChar == -1

SjisIndex(t, k) ==
  LET n == IF k < 0 THEN 0 ELSE k
      pos[c \in 0 .. n] ==
        IF c = 0 THEN 0
        ELSE LET p == pos[c - 1] IN
             IF p \notin 0 .. Len(t) - 1 THEN p
             ELSE IF Is2Byte(At(t, p)) /\ p + 1 = Len(t) THEN NoChar
             ELSE p + Width(t, p)
  IN  IF pos[n] \in 0 .. Len(t) - 1 THEN pos[n] ELSE NoChar

\* The positions at which a scan from the start of t meets a character.
CharStarts(t) == {SjisIndex(t, k) : k \in 0 .. Len(t) - 1} \ {NoChar}

\* sjis_count_char
CountChar(t) ==
  LET n[p \in 0 .. Len(t) + 1] ==
        IF p >= Len(t) THEN 0 ELSE 1 + n[p + Width(t, p)]
  IN  n[0]

(***************************************************************************)
(* The mutators of string.c, as functions of the text.  Guards that the    *)
(* code writes as an early return on a negative sjis_index are written as  *)
(* membership in the text's positions.                                     *)
(***************************************************************************)
\* string_append, string_append_cstr and string_concatenate
AppendText(t, u) == t \o u

\* string_pop_back: cut at the start of the last character (0 if none).
LastStarts(t) == {p \in CharStarts(t) : \A q \in CharStarts(t) : q <= p}

LastStart(t) == IF LastStarts(t) = {} THEN 0
                ELSE CHOOSE p \in LastStarts(t) : TRUE

PopBack(t) == Before(t, LastStart(t))

(* The last character may be broken off, its lead byte the last byte of    *)
(* the text.  string_erase then counts down from 0 and moves memory until  *)
(* the program is stopped (string.c:251); string_set_char leaves a size    *)
(* one less than it wrote, without a NUL (string.c:315-323).  Neither is   *)
(* defined by the code, and Erase and SetCharAt are not claimed to be what *)
(* happens.                                                                *)
BrokenOff(t, k) ==
  LET p == SjisIndex(t, k) IN p \in 0 .. Len(t) - 1 /\ p + Width(t, p) > Len(t)

\* string_erase: remove character k, if there is one.
Erase_OneByte(t, k) ==
  LET p == SjisIndex(t, k) IN
  IF p \in 0 .. Len(t) - 1 THEN Before(t, p) \o From(t, p + 1) ELSE t

Erase(t, k) ==
  LET p == SjisIndex(t, k) IN
  IF p \in 0 .. Len(t) - 1
  THEN Before(t, p) \o From(t, p + Width(t, p))
  ELSE t

\* string_set_char, c being a character's bytes and <<>> the code 0, which
\* truncates.  The source shifts the rest when the widths differ.
SetCharAt_NoTruncation(t, p, c) ==
  IF c = <<>> THEN Before(t, p) \o <<0>> \o From(t, p + 1)
  ELSE Before(t, p) \o c \o From(t, p + Width(t, p))

SetCharAt(t, p, c) ==
  IF c = <<>> THEN Before(t, p)
  ELSE Before(t, p) \o c \o From(t, p + Width(t, p))

SetChar(t, k, c) ==
  LET p == SjisIndex(t, k) IN
  IF p \in 0 .. Len(t) - 1 THEN SetCharAt(t, p, c) ELSE t

\* string_set_char reallocates only to grow.
SetCharGrows(t, k, c) ==
  LET p == SjisIndex(t, k) IN
  p \in 0 .. Len(t) - 1 /\ Len(c) = 2 /\ Width(t, p) = 1

(***************************************************************************)
(* The queries.                                                            *)
(***************************************************************************)
\* string_get_char: the character's bytes, <<>> standing for the result 0.
GetChar(t, k) ==
  LET p == SjisIndex(t, k) IN
  IF p = NoChar THEN <<>> ELSE SubSeq(t, p + 1, p + Width(t, p))

\* string_copy: up to n characters from character k on.
CopyText_CountsBytes(t, k, n) ==
  LET p == SjisIndex(t, k)
  IN  IF n <= 0 \/ p = NoChar THEN <<>>
      ELSE SubSeq(t, p + 1, IF p + n > Len(t) THEN Len(t) ELSE p + n)

CopyFrom(t, p, n) ==
  LET e == SjisIndex(From(t, p), n)
  IN  SubSeq(t, p + 1, IF e = NoChar THEN Len(t) ELSE p + e)

CopyText(t, k, n) ==
  LET p == SjisIndex(t, k)
  IN  IF n <= 0 \/ p = NoChar THEN <<>> ELSE CopyFrom(t, p, n)

\* string_find: the index of the first character at which u's bytes begin.
FindText(t, u) ==
  LET hits == {c \in 0 .. Len(t) - 1 :
                 LET p == SjisIndex(t, c) IN
                 /\ p # NoChar
                 /\ p + Len(u) <= Len(t)
                 /\ SubSeq(t, p + 1, p + Len(u)) = u}
  IN  IF hits = {} THEN -1
      ELSE CHOOSE c \in hits : \A d \in hits : c <= d
=============================================================================
