--------------------------------- MODULE Fnl ---------------------------------
(***************************************************************************)
(* Fonts (src/src/fnl.c): the glyphs of a font face are in the order of    *)
(* the Shift-JIS characters, from the space.  A behaviour goes through all *)
(* codes of 16 bits and counts the characters, and looks each one up in    *)
(* the faces.                                                              *)
(***************************************************************************)
EXTENDS Integers, Sequences, TLAPS

CONSTANT Faces  \* glyph tables: the positions of their data, 0 for none

ASSUME FacesAssumption == Faces \subseteq Seq(Nat)

VARIABLES code,  \* the next code
          seen   \* the characters below it

fontVars == <<code, seen>>

\* fnl_char_to_index: glyph 0 for what is not a character.
SecondIndex_NoGap(snd) == snd - 64

\* 0x7f is no second byte.
SecondIndex(snd) == snd - (64 + IF snd > 127 THEN 1 ELSE 0)

FirstIndex(fst) == IF fst < 160 THEN fst - 129 ELSE fst - 224 + 31

CharToIndex(c) ==
  LET fst == c \div 256
      snd == c % 256
  IN  IF c \in 32 .. 126 THEN c - 32
      ELSE IF c \in 161 .. 223 THEN c - 66
      ELSE IF c > 223 /\ snd \in (64 .. 252) \ {127} /\ fst \in (129 .. 159) \cup (224 .. 252)
           THEN 158 + FirstIndex(fst) * 188 + SecondIndex(snd)
      ELSE 0

\* fnl_index_to_char.
IndexToChar(index) ==
  LET f == 129 + (index - 158) \div 188
      s == 64 + ((index - 158) % 188)
  IN  IF index < 95 THEN index + 32
      ELSE IF index < 158 THEN index - 95 + 161
      ELSE (IF f >= 160 THEN f + 31 ELSE f) * 256 + (IF s >= 127 THEN s + 1 ELSE s)

\* fnl_get_glyph: the index of the glyph.
GetGlyph(face, c) ==
  LET index == CharToIndex(c) IN IF index >= Len(face) \/ face[index + 1] = 0 THEN 0 ELSE index
-----------------------------------------------------------------------------
\* The characters of Shift-JIS: ASCII, half-width katakana, and two bytes.
IsChar(c) ==
  \/ c \in 32 .. 126 \/ c \in 161 .. 223
  \/ /\ c \div 256 \in (129 .. 159) \cup (224 .. 252)
     /\ c % 256 \in (64 .. 126) \cup (128 .. 252)

InitFont == code = 0 /\ seen = 0

NextCode == /\ code < 65535
            /\ code' = code + 1
            /\ seen' = seen + IF IsChar(code) THEN 1 ELSE 0

SpecFont == InitFont /\ [][NextCode]_fontVars
-----------------------------------------------------------------------------
(* The index of a character is the number of characters before it, and 0   *)
(* for what is none; fnl_index_to_char takes it back, but only below       *)
(* 0xe000: it skips 31 first bytes at 0xa0 and there are 64 (fnl.c:83).    *)
(* A face has the glyph at that index, or shows its first one.             *)
IndexIsOrdinal ==
  /\ CharToIndex(code) = IF IsChar(code) THEN seen ELSE 0
  /\ IsChar(code) /\ code < 57344 => IndexToChar(seen) = code
  /\ \A face \in Faces :
       GetGlyph(face, code) = IF IsChar(code) /\ seen < Len(face) /\ face[seen + 1] # 0 THEN seen ELSE 0
-----------------------------------------------------------------------------
(* The proof.  `seen` has a closed form: 95 characters below 0x7f, 63 more *)
(* below 0xe0, and 188 for each first byte before the one of the code.     *)
LeadsBelow(fst) == IF fst < 129 THEN 0
                   ELSE IF fst < 160 THEN fst - 129
                   ELSE IF fst < 224 THEN 31
                   ELSE IF fst < 253 THEN (fst - 224) + 31 ELSE 60

TrailsBelow(snd) == IF snd <= 64 THEN 0
                    ELSE IF snd <= 127 THEN snd - 64
                    ELSE IF snd <= 252 THEN snd - 65 ELSE 188

IsLead(fst) == (129 <= fst /\ fst <= 159) \/ (224 <= fst /\ fst <= 252)

IsTrail(snd) == 64 <= snd /\ snd <= 252 /\ snd # 127

CharsBelow(c, fst, snd) ==
  IF c <= 32 THEN 0
  ELSE IF c <= 127 THEN c - 32
  ELSE IF c <= 161 THEN 95
  ELSE IF c <= 224 THEN c - 66
  ELSE 158 + (LeadsBelow(fst) * 188) + (IF IsLead(fst) THEN TrailsBelow(snd) ELSE 0)

IsCode(c) == c \in Int /\ 0 <= c /\ c <= 65535

Counted == IsCode(code) /\ seen = CharsBelow(code, code \div 256, code % 256)

\* The two bytes of a code.
Splits(c, fst, snd) ==
  /\ c \in Int /\ 0 <= c /\ c <= 65535
  /\ fst \in Int /\ 0 <= fst /\ fst <= 255
  /\ snd \in Int /\ 0 <= snd /\ snd <= 255
  /\ c = (256 * fst) + snd

LEMMA Bytes ==
  ASSUME NEW c, IsCode(c)
  PROVE  Splits(c, c \div 256, c % 256)
BY DEF Splits, IsCode

LEMMA IsCharByBytes ==
  ASSUME NEW c \in Int, NEW fst \in Int, NEW snd \in Int, fst = c \div 256, snd = c % 256
  PROVE  IsChar(c) <=> \/ 32 <= c /\ c <= 126
                       \/ 161 <= c /\ c <= 223
                       \/ IsLead(fst) /\ IsTrail(snd)
<1>1. IsChar(c) <=> \/ c \in 32 .. 126 \/ c \in 161 .. 223
                    \/ fst \in (129 .. 159) \cup (224 .. 252) /\ snd \in (64 .. 126) \cup (128 .. 252)
  BY Zenon DEF IsChar
<1>2. fst \in (129 .. 159) \cup (224 .. 252) <=> IsLead(fst)
  BY DEF IsLead
<1>3. snd \in (64 .. 126) \cup (128 .. 252) <=> IsTrail(snd)
  BY DEF IsTrail
<1> QED BY <1>1, <1>2, <1>3

LEMMA OneMoreByBytes ==
  ASSUME NEW c \in Int, NEW fst \in Int, NEW snd \in Int, NEW fst1 \in Int, NEW snd1 \in Int,
         0 <= c, c < 65535, Splits(c, fst, snd), Splits(c + 1, fst1, snd1)
  PROVE  CharsBelow(c + 1, fst1, snd1)
           = CharsBelow(c, fst, snd)
             + (IF \/ 32 <= c /\ c <= 126
                   \/ 161 <= c /\ c <= 223
                   \/ IsLead(fst) /\ IsTrail(snd) THEN 1 ELSE 0)
<1>1. \/ fst1 = fst /\ snd1 = snd + 1
      \/ fst1 = fst + 1 /\ snd1 = 0 /\ snd = 255
  BY DEF Splits
<1>2. CASE c < 224
  BY <1>1, <1>2 DEF Splits, CharsBelow, LeadsBelow, TrailsBelow, IsLead, IsTrail
<1>3. CASE c >= 224 /\ fst1 = fst
  BY <1>1, <1>3 DEF Splits, CharsBelow, LeadsBelow, TrailsBelow, IsLead, IsTrail
<1>4. CASE c >= 224 /\ fst1 # fst
  BY <1>1, <1>4 DEF Splits, CharsBelow, LeadsBelow, TrailsBelow, IsLead, IsTrail
<1> QED BY <1>2, <1>3, <1>4

LEMMA OneMore ==
  ASSUME NEW c, IsCode(c), IsCode(c + 1)
  PROVE  CharsBelow(c + 1, (c + 1) \div 256, (c + 1) % 256)
           = CharsBelow(c, c \div 256, c % 256) + (IF IsChar(c) THEN 1 ELSE 0)
<1> DEFINE fst == c \div 256
           snd == c % 256
           fst1 == (c + 1) \div 256
           snd1 == (c + 1) % 256
<1>1. Splits(c, fst, snd) /\ Splits(c + 1, fst1, snd1)
  BY Bytes
<1>2. fst = c \div 256 /\ snd = c % 256
  OBVIOUS
<1> HIDE DEF fst, snd, fst1, snd1
<1>3. /\ c \in Int /\ 0 <= c /\ c < 65535
      /\ fst \in Int /\ snd \in Int /\ fst1 \in Int /\ snd1 \in Int
  BY <1>1 DEF Splits
<1>4. IsChar(c) <=> \/ 32 <= c /\ c <= 126
                    \/ 161 <= c /\ c <= 223
                    \/ IsLead(fst) /\ IsTrail(snd)
  BY <1>2, <1>3, IsCharByBytes
<1>5. CharsBelow(c + 1, fst1, snd1)
        = CharsBelow(c, fst, snd) + (IF \/ 32 <= c /\ c <= 126
                                        \/ 161 <= c /\ c <= 223
                                        \/ IsLead(fst) /\ IsTrail(snd) THEN 1 ELSE 0)
  BY <1>1, <1>3, OneMoreByBytes
<1>6. CharsBelow(c + 1, fst1, snd1) = CharsBelow(c, fst, snd) + (IF IsChar(c) THEN 1 ELSE 0)
  BY <1>4, <1>5
<1> QED BY <1>6 DEF fst, snd, fst1, snd1

(* The index of a character and the way back.                              *)
LEMMA CharToIndexByBytes ==
  ASSUME NEW c \in Int, NEW fst \in Int, NEW snd \in Int, fst = c \div 256, snd = c % 256
  PROVE  CharToIndex(c) = IF 32 <= c /\ c <= 126 THEN c - 32
                          ELSE IF 161 <= c /\ c <= 223 THEN c - 66
                          ELSE IF c > 223 /\ IsTrail(snd) /\ IsLead(fst)
                               THEN 158 + FirstIndex(fst) * 188 + SecondIndex(snd)
                          ELSE 0
<1>1. CharToIndex(c) = IF c \in 32 .. 126 THEN c - 32
                       ELSE IF c \in 161 .. 223 THEN c - 66
                       ELSE IF c > 223 /\ snd \in (64 .. 252) \ {127} /\ fst \in (129 .. 159) \cup (224 .. 252)
                            THEN 158 + FirstIndex(fst) * 188 + SecondIndex(snd)
                       ELSE 0
  BY DEF CharToIndex
<1>2. fst \in (129 .. 159) \cup (224 .. 252) <=> IsLead(fst)
  BY DEF IsLead
<1>3. snd \in (64 .. 252) \ {127} <=> IsTrail(snd)
  BY DEF IsTrail
<1>4. (c \in 32 .. 126 <=> 32 <= c /\ c <= 126) /\ (c \in 161 .. 223 <=> 161 <= c /\ c <= 223)
  OBVIOUS
<1> QED BY <1>1, <1>2, <1>3, <1>4

LEMMA IndexIsBelow ==
  ASSUME NEW c, IsCode(c)
  PROVE  CharToIndex(c) = IF IsChar(c) THEN CharsBelow(c, c \div 256, c % 256) ELSE 0
<1> DEFINE fst == c \div 256
           snd == c % 256
<1>1. Splits(c, fst, snd)
  BY Bytes
<1>2. fst = c \div 256 /\ snd = c % 256
  OBVIOUS
<1> HIDE DEF fst, snd
<1>3. c \in Int /\ fst \in Int /\ snd \in Int
  BY <1>1 DEF Splits
<1>4. IsChar(c) <=> \/ 32 <= c /\ c <= 126
                    \/ 161 <= c /\ c <= 223
                    \/ IsLead(fst) /\ IsTrail(snd)
  BY <1>2, <1>3, IsCharByBytes
<1>5. CharToIndex(c) = IF 32 <= c /\ c <= 126 THEN c - 32
                       ELSE IF 161 <= c /\ c <= 223 THEN c - 66
                       ELSE IF c > 223 /\ IsTrail(snd) /\ IsLead(fst)
                            THEN 158 + FirstIndex(fst) * 188 + SecondIndex(snd)
                       ELSE 0
  BY <1>2, <1>3, CharToIndexByBytes
<1>6. CharToIndex(c) = IF IsChar(c) THEN CharsBelow(c, fst, snd) ELSE 0
  <2>1. CASE c <= 223
    BY <1>1, <1>3, <1>4, <1>5, <2>1 DEF Splits, CharsBelow, IsLead
  <2>2. CASE c > 223
    BY <1>1, <1>3, <1>4, <1>5, <2>2
       DEF Splits, CharsBelow, LeadsBelow, TrailsBelow, IsLead, IsTrail, FirstIndex, SecondIndex
  <2> QED BY <1>3, <2>1, <2>2
<1> QED BY <1>6 DEF fst, snd

LEMMA Divided ==
  ASSUME NEW q \in Nat, NEW r \in Int, 0 <= r, r <= 187
  PROVE  ((q * 188) + r) \div 188 = q /\ ((q * 188) + r) % 188 = r
OBVIOUS

LEMMA IndexToCharByParts ==
  ASSUME NEW i \in Nat, NEW q \in Int, NEW r \in Int, q = (i - 158) \div 188, r = (i - 158) % 188
  PROVE  IndexToChar(i) = IF i < 95 THEN i + 32
                          ELSE IF i < 158 THEN (i - 95) + 161
                          ELSE (IF 129 + q >= 160 THEN (129 + q) + 31 ELSE 129 + q) * 256
                               + (IF 64 + r >= 127 THEN (64 + r) + 1 ELSE 64 + r)
BY DEF IndexToChar

LEMMA BelowIsIndex ==
  ASSUME NEW c, IsCode(c), c < 57344, IsChar(c)
  PROVE  IndexToChar(CharsBelow(c, c \div 256, c % 256)) = c
<1> DEFINE fst == c \div 256
           snd == c % 256
           q == fst - 129
           r == TrailsBelow(snd)
           index == CharsBelow(c, fst, snd)
<1>1. Splits(c, fst, snd)
  BY Bytes
<1>0. fst = c \div 256 /\ snd = c % 256
  OBVIOUS
<1> HIDE DEF fst, snd
<1>2. \/ 32 <= c /\ c <= 126
      \/ 161 <= c /\ c <= 223
      \/ IsLead(fst) /\ IsTrail(snd)
  <2>1. c \in Int /\ fst \in Int /\ snd \in Int
    BY <1>1 DEF Splits
  <2>2. IsChar(c) <=> \/ 32 <= c /\ c <= 126
                      \/ 161 <= c /\ c <= 223
                      \/ IsLead(fst) /\ IsTrail(snd)
    BY <1>0, <2>1, IsCharByBytes
  <2> QED BY <2>2
<1>3. IndexToChar(index) = c
  <2> HIDE DEF index, r
  <2>1. CASE ~(IsLead(fst) /\ IsTrail(snd) /\ c > 224)
    <3>1. index \in Nat /\ index < 158 /\ c = IF index < 95 THEN index + 32 ELSE (index - 95) + 161
      BY <1>1, <1>2, <2>1 DEF CharsBelow, Splits, IsLead, index
    <3>2. IndexToChar(index) = IF index < 95 THEN index + 32 ELSE (index - 95) + 161
      BY <3>1 DEF IndexToChar
    <3> QED BY <3>1, <3>2
  <2>2. CASE IsLead(fst) /\ IsTrail(snd) /\ c > 224
    <3>1. 129 <= fst /\ fst <= 159
      BY <1>1, <2>2 DEF IsLead, Splits
    <3>2. r \in Int /\ 0 <= r /\ r <= 187 /\ snd = IF 64 + r >= 127 THEN (64 + r) + 1 ELSE 64 + r
      BY <1>1, <2>2 DEF TrailsBelow, IsTrail, Splits, r
    <3>3. index = 158 + ((q * 188) + r) /\ q \in Nat
      BY <1>1, <2>2, <3>1, <3>2 DEF CharsBelow, LeadsBelow, Splits, index, r
    <3>4. index - 158 = (q * 188) + r /\ index > 157 /\ index \in Nat
      BY <3>2, <3>3
    <3>5. q \in Int /\ c = ((129 + q) * 256) + snd /\ 129 + q < 160
      BY <1>1, <3>1 DEF Splits
    <3> HIDE DEF q
    <3>6. q = (index - 158) \div 188 /\ r = (index - 158) % 188
      BY <3>2, <3>3, <3>4, Divided
    <3>7. IndexToChar(index) = IF index < 95 THEN index + 32
                               ELSE IF index < 158 THEN (index - 95) + 161
                               ELSE (IF 129 + q >= 160 THEN (129 + q) + 31 ELSE 129 + q) * 256
                                    + (IF 64 + r >= 127 THEN (64 + r) + 1 ELSE 64 + r)
      BY <3>2, <3>4, <3>5, <3>6, IndexToCharByParts
    <3> QED BY <3>2, <3>4, <3>5, <3>7
  <2> QED BY <2>1, <2>2
<1> QED BY <1>3 DEF fst, snd, index

(* For faces of any size and with any glyphs missing: at every code the    *)
(* index is the number of characters below it (fnl_char_to_index), below   *)
(* 0xe000 the index leads back to the code (fnl_index_to_char), and a face *)
(* shows the glyph at that index or its first one (fnl_get_glyph).         *)
THEOREM IndicesCountCharacters == SpecFont => []IndexIsOrdinal
<1>1. InitFont => Counted
  BY DEF InitFont, Counted, CharsBelow, IsCode
<1>2. Counted /\ [NextCode]_fontVars => Counted'
  <2> SUFFICES ASSUME Counted, [NextCode]_fontVars PROVE Counted'
    OBVIOUS
  <2>1. CASE NextCode
    <3>1. IsCode(code) /\ IsCode(code + 1) /\ code' = code + 1
      BY <2>1 DEF NextCode, Counted, IsCode
    <3> QED BY <2>1, <3>1, OneMore DEF NextCode, Counted
  <2>2. CASE UNCHANGED fontVars
    BY <2>2 DEF fontVars, Counted
  <2> QED BY <2>1, <2>2
<1>3. Counted => IndexIsOrdinal
  <2> SUFFICES ASSUME Counted PROVE IndexIsOrdinal
    OBVIOUS
  <2>1. IsCode(code) /\ CharToIndex(code) = IF IsChar(code) THEN seen ELSE 0
    BY IndexIsBelow DEF Counted
  <2>2. ASSUME IsChar(code), code < 57344 PROVE IndexToChar(seen) = code
    BY <2>1, <2>2, BelowIsIndex DEF Counted
  <2>3. ASSUME NEW face \in Faces
        PROVE  GetGlyph(face, code) = IF IsChar(code) /\ seen < Len(face) /\ face[seen + 1] # 0
                                      THEN seen ELSE 0
    <3>1. Len(face) \in Nat
      BY FacesAssumption
    <3>2. seen \in Nat
      <4> DEFINE fst == code \div 256
                 snd == code % 256
      <4>1. Splits(code, fst, snd)
        BY <2>1, Bytes
      <4> HIDE DEF fst, snd
      <4>2. CharsBelow(code, fst, snd) \in Nat
        BY <2>1, <4>1 DEF CharsBelow, LeadsBelow, TrailsBelow, IsLead, Splits
      <4> QED BY <4>2 DEF Counted, fst, snd
    <3> QED BY <2>1, <3>1, <3>2 DEF GetGlyph
  <2> QED BY <2>1, <2>2, <2>3 DEF IndexIsOrdinal
<1> QED BY <1>1, <1>2, <1>3, PTL DEF SpecFont
=============================================================================
