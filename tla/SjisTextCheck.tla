---------------------------- MODULE SjisTextCheck ----------------------------
(***************************************************************************)
(* The byte-level operators of SjisText against what they are for: a text  *)
(* is a sequence of characters, and every operation of string.c should be  *)
(* the plain sequence operation on those characters.  `text' goes through  *)
(* any series of mutators while `chars' goes through their reference       *)
(* definitions; the two must stay encodings of one another, and every      *)
(* query must answer the same from both.                                   *)
(***************************************************************************)
EXTENDS SjisText, SequencesExt

CONSTANTS Chars,     \* the characters, each the sequence of its bytes
          MaxChars   \* bound on the length of the text

ASSUME CharsAssumption ==
  /\ MaxChars \in Nat
  /\ \A c \in Chars : c \in Text /\ Len(c) = Width(c, 0)

VARIABLES text, chars

vars == <<text, chars>>

Encode(s) == FlattenSeq(s)

Indices == -1 .. MaxChars

FirstIfNegative(k) == IF k < 0 THEN 0 ELSE k

Init == text = <<>> /\ chars = <<>>

DoPushBack(c) ==
  /\ Len(chars) < MaxChars
  /\ text' = AppendText(text, c)
  /\ chars' = Append(chars, c)

DoAppendSelf ==
  /\ 2 * Len(chars) <= MaxChars
  /\ text' = AppendText(text, text)
  /\ chars' = chars \o chars

DoPopBack ==
  /\ text' = PopBack(text)
  /\ chars' = IF chars = <<>> THEN <<>> ELSE Front(chars)

DoErase(k) ==
  /\ text' = Erase(text, k)
  /\ chars' = LET n == FirstIfNegative(k) IN
              IF n < Len(chars) THEN RemoveAt(chars, n + 1) ELSE chars

\* The code refuses an index beyond the BYTE size only.
DoSetChar(k, c) ==
  /\ k \in 0 .. Len(text) - 1
  /\ text' = SetChar(text, k, c)
  /\ chars' = IF k >= Len(chars) THEN chars
              ELSE IF c = <<>> THEN SubSeq(chars, 1, k)
              ELSE [chars EXCEPT ![k + 1] = c]

Next == \/ \E c \in Chars : DoPushBack(c)
        \/ DoAppendSelf
        \/ DoPopBack
        \/ \E k \in Indices : DoErase(k)
        \/ \E k \in Indices, c \in Chars \cup {<<>>} : DoSetChar(k, c)

Spec == Init /\ [][Next]_vars
-----------------------------------------------------------------------------
(* After any series of mutators the bytes are exactly the encoding of the  *)
(* characters: no operation splits a two-byte character, leaves one of its *)
(* halves behind, or mistakes a trail byte for a character of its own.     *)
TextEncodesChars == text = Encode(chars)

(* The queries see characters, not bytes: string_get_char, string_copy,    *)
(* sjis_count_char and string_find answer from the bytes what the sequence *)
(* of characters answers, for indices before, inside and after the text.   *)
CharAt(s, k) == IF k \in 0 .. Len(s) - 1 THEN s[k + 1] ELSE <<>>

Copied(s, k, n) ==
  LET a == FirstIfNegative(k)
  IN  SubSeq(s, a + 1, IF a + n < Len(s) THEN a + n ELSE Len(s))

FirstAt(s, u) ==
  LET hits == {k \in 0 .. Len(s) - 1 : Copied(s, k, Len(u)) = u}
  IN  IF hits = {} THEN -1 ELSE CHOOSE k \in hits : \A j \in hits : k <= j

QueriesSeeCharacters ==
  /\ CountChar(text) = Len(chars)
  /\ \A k \in Indices :
       /\ k >= 0 => GetChar(text, k) = CharAt(chars, k)
       /\ \A n \in Indices : CopyText(text, k, n) = Encode(Copied(chars, k, n))
  /\ \A u \in BoundedSeq(Chars, 2) \ {<<>>} :
       FindText(text, Encode(u)) = FirstAt(chars, u)
=============================================================================
