--------------------------- MODULE StringCowProofs ---------------------------
(***************************************************************************)
(* Theorems about StringCow, for any finite set of handles, any set of     *)
(* addresses and any texts.  The argument: the count of every object is    *)
(* exactly the number of its holders and a shared object is flagged; then  *)
(* a write in place is only ever seen by the handle it was called on.      *)
(***************************************************************************)
EXTENDS StringCow, FiniteSetTheorems, TLAPS

LEMMA BeforeType ==
  ASSUME NEW t \in Text, NEW n \in 0 .. Len(t)
  PROVE  Before(t, n) \in Text
  BY DEF Before, Text

LEMMA FromType ==
  ASSUME NEW t \in Text, NEW n \in Nat
  PROVE  From(t, n) \in Text
  BY DEF From, Text

LEMMA AppendTextType ==
  ASSUME NEW t \in Text, NEW u \in Text
  PROVE  AppendText(t, u) \in Text
  BY DEF AppendText, Text

LEMMA SjisIndexRange ==
  ASSUME NEW t \in Text, NEW k
  PROVE  SjisIndex(t, k) \in 0 .. Len(t) - 1 \/ SjisIndex(t, k) = NoChar
  BY DEF SjisIndex

LEMMA PopBackType ==
  ASSUME NEW t \in Text
  PROVE  PopBack(t) \in Text
<1>1. LastStart(t) \in 0 .. Len(t)
  <2>1. CharStarts(t) \subseteq 0 .. Len(t) - 1
    BY SjisIndexRange DEF CharStarts
  <2>2. Len(t) \in Nat
    BY DEF Text
  <2> QED
    BY <2>1, <2>2 DEF LastStart, LastStarts
<1> QED
  BY <1>1, BeforeType DEF PopBack

LEMMA WidthType == \A t, p : Width(t, p) \in {1, 2}
  BY DEF Width

LEMMA EraseType ==
  ASSUME NEW t \in Text, NEW k
  PROVE  Erase(t, k) \in Text
<1> DEFINE p == SjisIndex(t, k)
<1>1. CASE p \in 0 .. Len(t) - 1
  <2>1. p \in 0 .. Len(t) /\ p + Width(t, p) \in Nat
    BY <1>1, WidthType DEF Text
  <2>2. Before(t, p) \in Text /\ From(t, p + Width(t, p)) \in Text
    BY <2>1, BeforeType, FromType
  <2> QED
    BY <1>1, <2>2 DEF Erase, Text
<1>2. CASE p \notin 0 .. Len(t) - 1
  BY <1>2 DEF Erase
<1> QED
  BY <1>1, <1>2

LEMMA SetCharType ==
  ASSUME NEW t \in Text, NEW k, NEW c \in Text
  PROVE  SetChar(t, k, c) \in Text
<1> DEFINE p == SjisIndex(t, k)
<1>1. CASE p \in 0 .. Len(t) - 1
  <2>1. p \in 0 .. Len(t) /\ p + Width(t, p) \in Nat
    BY <1>1, WidthType DEF Text
  <2>2. Before(t, p) \in Text /\ From(t, p + Width(t, p)) \in Text
    BY <2>1, BeforeType, FromType
  <2>3. Before(t, p) \o c \o From(t, p + Width(t, p)) \in Text
    BY <2>2 DEF Text
  <2>4. SetCharAt(t, p, c) \in Text
    BY <2>2, <2>3 DEF SetCharAt
  <2> QED
    BY <1>1, <2>4 DEF SetChar
<1>2. CASE p \notin 0 .. Len(t) - 1
  BY <1>2 DEF SetChar
<1> QED
  BY <1>1, <1>2

LEMMA CopyTextType ==
  ASSUME NEW t \in Text, NEW k \in Int, NEW n \in Int
  PROVE  CopyText(t, k, n) \in Text
<1> DEFINE p == SjisIndex(t, k)
           e == SjisIndex(From(t, p), n)
           last == IF e = NoChar THEN Len(t) ELSE p + e
<1>1. CASE n <= 0 \/ p = NoChar
  BY <1>1 DEF CopyText, Text
<1>2. CASE ~(n <= 0 \/ p = NoChar)
  <2>1. p \in 0 .. Len(t) - 1
    BY <1>2, SjisIndexRange
  <2>2. From(t, p) \in Text /\ Len(From(t, p)) = Len(t) - p
    BY <2>1 DEF From, Text
  <2>3. e \in 0 .. Len(t) - p - 1 \/ e = NoChar
    BY <2>2, SjisIndexRange
  <2>4. last \in 0 .. Len(t)
    BY <2>1, <2>3 DEF Text
  <2>5. SubSeq(t, p + 1, last) \in Text
    BY <2>1, <2>4 DEF Text
  <2> QED
    BY <1>2, <2>5 DEF CopyText, CopyFrom
<1> QED
  BY <1>1, <1>2

-----------------------------------------------------------------------------
(* The invariant.                                                          *)

IInv == TypeOK /\ RefCountExact /\ SharedIsCow /\ EmptyStringIntact

Own(o) == IF o = Empty THEN 1 ELSE 0

(* Every action is one of seven effects on the objects.                    *)
Effect(h) ==
  \/ /\ h \notin Held
     /\ \E t \in Text, b \in BOOLEAN : Alloc(h, t, b)
  \/ /\ h \notin Held
     /\ \E o \in Obj : ref[o] > 0 /\ StringRefObj(h, o)
  \/ FreeString(h)
  \/ h \in Held /\ \E t \in Text : WriteCopy(h, t)
  \/ h \in Held /\ \E t \in Text : WriteInPlace(h, t)
  \/ h \in Held /\ \E t \in Text : WriteMoved(h, t)
  \/ StringClear(h)

(* Where a held handle points there is an object with a text.              *)
LEMMA HeldObject ==
  ASSUME TypeOK, NEW h \in Held
  PROVE  h \in Handle /\ ptr[h] \in Obj /\ ptr[h] # NULL /\ TextOf(h) \in Text
  BY CowAssumption DEF TypeOK, Held, TextOf

(* An object has finitely many holders, at most as many as there are       *)
(* handles, and one at least if a given handle is among them.              *)
LEMMA HoldersCount ==
  ASSUME NEW o \in Obj
  PROVE  /\ IsFiniteSet(Holders(o))
         /\ Cardinality(Holders(o)) \in Nat
         /\ Cardinality(Holders(o)) <= Cardinality(Handle)
         /\ \A h \in Holders(o) : Cardinality(Holders(o)) >= 1
<1>1. Holders(o) \in SUBSET Handle
  BY DEF Holders
<1>2. IsFiniteSet(Holders(o)) /\ Cardinality(Holders(o)) <= Cardinality(Handle)
  BY <1>1, CowAssumption, FS_Subset
<1>3. Cardinality(Holders(o)) \in Nat
  BY <1>2, FS_CardinalityType
<1>4. Cardinality(Holders(o)) = 0 => Holders(o) = {}
  BY <1>2, FS_EmptySet
<1> QED
  BY <1>2, <1>3, <1>4

(* Pointing one handle elsewhere moves one holder.                         *)
LEMMA Retarget ==
  ASSUME TypeOK, NEW h \in Handle, NEW p \in Obj \cup {NULL},
         ptr' = [ptr EXCEPT ![h] = p], NEW o \in Obj
  PROVE  Cardinality(Holders(o)') =
           IF p = ptr[h] THEN Cardinality(Holders(o))
           ELSE IF o = p THEN Cardinality(Holders(o)) + 1
           ELSE IF o = ptr[h] THEN Cardinality(Holders(o)) - 1
           ELSE Cardinality(Holders(o))
<1>1. IsFiniteSet(Holders(o))
  BY HoldersCount
<1>2. CASE p = ptr[h]
  <2>1. Holders(o)' = Holders(o)
    BY <1>2 DEF Holders, TypeOK
  <2> QED
    BY <1>2, <2>1
<1>3. CASE p # ptr[h] /\ o = p
  <2>1. Holders(o)' = Holders(o) \cup {h} /\ h \notin Holders(o)
    BY <1>3 DEF Holders, TypeOK
  <2> QED
    BY <1>1, <1>3, <2>1, FS_AddElement
<1>4. CASE p # ptr[h] /\ o # p /\ o = ptr[h]
  <2>1. Holders(o)' = Holders(o) \ {h} /\ h \in Holders(o)
    BY <1>4 DEF Holders, TypeOK
  <2> QED
    BY <1>1, <1>4, <2>1, FS_RemoveElement
<1>5. CASE p # ptr[h] /\ o # p /\ o # ptr[h]
  <2>1. Holders(o)' = Holders(o)
    BY <1>5 DEF Holders, TypeOK
  <2> QED
    BY <1>5, <2>1
<1> QED
  BY <1>2, <1>3, <1>4, <1>5

(* What a held handle points to has a count, and if the object is not      *)
(* shared the handle is its only holder and it is not EMPTY_STRING.        *)
LEMMA HeldIsCounted ==
  ASSUME IInv, NEW h \in Held
  PROVE  /\ ref[ptr[h]] >= 1
         /\ ~Shared(ptr[h]) => /\ ref[ptr[h]] = 1
                               /\ Cardinality(Holders(ptr[h])) = 1
                               /\ ptr[h] # Empty
<1> DEFINE o == ptr[h]
<1>1. o \in Obj /\ h \in Handle
  BY HeldObject DEF IInv
<1>2. h \in Holders(o)
  BY <1>1 DEF Holders
<1>3. Cardinality(Holders(o)) \in Nat /\ Cardinality(Holders(o)) >= 1
  BY <1>1, <1>2, HoldersCount
<1>4. ref[o] = Cardinality(Holders(o)) + Own(o) /\ Own(o) \in {0, 1}
  BY <1>1 DEF IInv, RefCountExact, Own
<1>5. ~Shared(o) => ref[o] <= 1
  BY <1>1, <1>3, <1>4 DEF IInv, SharedIsCow, Shared
<1>6. ref[o] = 1 => Own(o) = 0
  BY <1>3, <1>4
<1> QED
  BY <1>3, <1>4, <1>5, <1>6 DEF Own

-----------------------------------------------------------------------------
(* Every step of a handle is one of the effects, on well-typed texts.      *)
LEMMA StepEffect ==
  ASSUME IInv, NEW h \in Handle,
         \/ MakeString(h) \/ ReadVmString(h) \/ StringDup(h)
         \/ StringConcatenate(h) \/ StringCopy(h)
         \/ StringRef(h) \/ StringRefEmpty(h) \/ FreeString(h)
         \/ StringAppendCstr(h) \/ StringAppend(h) \/ StringPopBack(h)
         \/ StringErase(h) \/ StringSetChar(h) \/ StringClear(h)
  PROVE  Effect(h)
<1> USE DEF IInv
<1>1. CASE MakeString(h) \/ ReadVmString(h)
  BY <1>1, CowAssumption DEF MakeString, ReadVmString, Effect
<1>2. CASE StringDup(h)
  BY <1>2, HeldObject DEF StringDup, Effect
<1>3. CASE StringConcatenate(h)
  BY <1>3, HeldObject, AppendTextType DEF StringConcatenate, Effect
<1>4. CASE StringCopy(h)
  <2>1. PICK g \in Held, k \in 0 .. MaxIndex, n \in 0 .. MaxIndex :
          Alloc(h, CopyText(TextOf(g), k, n), FALSE)
    BY <1>4 DEF StringCopy
  <2>2. CopyText(TextOf(g), k, n) \in Text
    BY HeldObject, CopyTextType, CowAssumption
  <2> QED
    BY <1>4, <2>1, <2>2 DEF StringCopy, Effect
<1>5. CASE StringRef(h) \/ StringRefEmpty(h)
  <2>1. \A g \in Held : ptr[g] \in Obj /\ ref[ptr[g]] > 0
    BY HeldObject, HeldIsCounted DEF TypeOK
  <2>2. Empty \in Obj /\ ref[Empty] > 0
    BY CowAssumption DEF EmptyStringIntact, TypeOK
  <2> QED
    BY <1>5, <2>1, <2>2 DEF StringRef, StringRefEmpty, Effect
<1>6. CASE FreeString(h) \/ StringClear(h)
  BY <1>6 DEF Effect
<1>7. CASE StringAppendCstr(h)
  <2>1. PICK t \in TextInput \cup CharInput : Rewrite(h, AppendText(TextOf(h), t))
    BY <1>7 DEF StringAppendCstr
  <2>2. h \in Held /\ AppendText(TextOf(h), t) \in Text
    BY <1>7, HeldObject, AppendTextType, CowAssumption DEF StringAppendCstr
  <2> QED
    BY <2>1, <2>2 DEF Rewrite, Write, Effect
<1>8. CASE StringAppend(h)
  <2>1. PICK g \in Held : Rewrite(h, AppendText(TextOf(h), TextOf(g)))
    BY <1>8 DEF StringAppend
  <2>2. h \in Held /\ AppendText(TextOf(h), TextOf(g)) \in Text
    BY <1>8, HeldObject, AppendTextType DEF StringAppend
  <2> QED
    BY <2>1, <2>2 DEF Rewrite, Write, Effect
<1>9. CASE StringPopBack(h)
  BY <1>9, HeldObject, PopBackType DEF StringPopBack, Write, Effect
<1>10. CASE StringErase(h)
  BY <1>10, HeldObject, EraseType DEF StringErase, Write, Effect
<1>11. CASE StringSetChar(h)
  <2>1. PICK k \in 0 .. MaxIndex, c \in CharInput \cup {<<>>} :
          \/ Write(h, SetChar(TextOf(h), k, c))
          \/ Rewrite(h, SetChar(TextOf(h), k, c))
    BY <1>11 DEF StringSetChar
  <2>2. c \in Text
    <3>1. <<>> \in Text
      BY DEF Text
    <3> QED
      BY <3>1, CowAssumption
  <2>3. h \in Held /\ SetChar(TextOf(h), k, c) \in Text
    BY <1>11, <2>2, HeldObject, SetCharType DEF StringSetChar
  <2> QED
    BY <2>1, <2>3 DEF Rewrite, Write, Effect
<1> QED
  BY <1>1, <1>2, <1>3, <1>4, <1>5, <1>6, <1>7, <1>8, <1>9, <1>10, <1>11

(* Each effect preserves the invariant.                                    *)
LEMMA AllocInv ==
  ASSUME IInv, NEW h \in Handle, h \notin Held,
         NEW t \in Text, NEW b \in BOOLEAN, Alloc(h, t, b)
  PROVE  IInv'
<1> USE DEF IInv
<1>1. PICK o \in Free : /\ ptr'  = [ptr EXCEPT ![h] = o]
                        /\ ref'  = [ref EXCEPT ![o] = 1]
                        /\ cow'  = [cow EXCEPT ![o] = b]
                        /\ text' = [text EXCEPT ![o] = t]
  BY DEF Alloc
<1>2. o \in Obj /\ ref[o] = 0 /\ o # Empty /\ o # NULL
  BY CowAssumption DEF Free, EmptyStringIntact, TypeOK
<1>3. ptr[h] = NULL
  BY DEF Held
<1>4. TypeOK'
  BY <1>1, <1>2, CowAssumption, HoldersCount, FS_CardinalityType DEF TypeOK
<1>5. RefCountExact'
  <2> SUFFICES ASSUME NEW x \in Obj
               PROVE  ref'[x] = Cardinality(Holders(x)') + Own(x)
    BY DEF RefCountExact, Own
  <2>1. ref[x] = Cardinality(Holders(x)) + Own(x)
    BY DEF RefCountExact, Own
  <2>2. x # NULL /\ Cardinality(Holders(x)) \in Nat
    BY CowAssumption, HoldersCount
  <2>3. Cardinality(Holders(x)') = IF x = o THEN Cardinality(Holders(x)) + 1
                                   ELSE Cardinality(Holders(x))
    BY <1>1, <1>2, <1>3, <2>2, Retarget
  <2> QED
    BY <1>1, <1>2, <2>1, <2>2, <2>3 DEF Own, TypeOK
<1>6. SharedIsCow'
  BY <1>1, <1>2 DEF SharedIsCow, TypeOK
<1>7. EmptyStringIntact'
  BY <1>1, <1>2, CowAssumption DEF EmptyStringIntact, TypeOK
<1> QED
  BY <1>4, <1>5, <1>6, <1>7

LEMMA StringRefInv ==
  ASSUME IInv, NEW h \in Handle, h \notin Held,
         NEW o \in Obj, ref[o] > 0, StringRefObj(h, o)
  PROVE  IInv'
<1> USE DEF IInv
<1>1. ptr[h] = NULL /\ o # NULL
  BY CowAssumption DEF Held
<1>2. /\ ptr' = [ptr EXCEPT ![h] = o]
      /\ ref' = [ref EXCEPT ![o] = (ref[o] + 1) % RefMod]
      /\ cow' = [cow EXCEPT ![o] = TRUE]
      /\ text' = text
  BY DEF StringRefObj
<1>3. \A x \in Obj : Cardinality(Holders(x)') =
        IF x = o THEN Cardinality(Holders(x)) + 1 ELSE Cardinality(Holders(x))
  <2> SUFFICES ASSUME NEW x \in Obj
               PROVE  Cardinality(Holders(x)') =
                        IF x = o THEN Cardinality(Holders(x)) + 1
                        ELSE Cardinality(Holders(x))
    OBVIOUS
  <2>1. Cardinality(Holders(x)') =
          IF o = ptr[h] THEN Cardinality(Holders(x))
          ELSE IF x = o THEN Cardinality(Holders(x)) + 1
          ELSE IF x = ptr[h] THEN Cardinality(Holders(x)) - 1
          ELSE Cardinality(Holders(x))
    BY <1>2, Retarget
  <2> QED
    BY <1>1, <2>1, CowAssumption
<1>4. (ref[o] + 1) % RefMod = ref[o] + 1
  <2>1. ref[o] = Cardinality(Holders(o)) + Own(o)
    BY DEF RefCountExact, Own
  <2>2. Cardinality(Holders(o)) + 1 <= Cardinality(Handle)
    <3>1. Holders(o)' \in SUBSET Handle
      BY DEF Holders
    <3>2. Cardinality(Holders(o)') <= Cardinality(Handle)
      BY <3>1, FS_Subset, CowAssumption
    <3> QED
      BY <1>3, <3>2
  <2>3. ref[o] + 1 < RefMod /\ ref[o] \in Nat /\ RefMod \in Nat
    <3>1. Cardinality(Handle) \in Nat /\ Cardinality(Holders(o)) \in Nat
      BY FS_CardinalityType, HoldersCount, CowAssumption
    <3> QED
      BY <2>1, <2>2, <3>1, CowAssumption DEF Own, TypeOK
  <2> QED
    BY <2>3
<1>5. TypeOK'
  BY <1>2, CowAssumption DEF TypeOK
<1>6. RefCountExact'
  <2> SUFFICES ASSUME NEW x \in Obj
               PROVE  ref'[x] = Cardinality(Holders(x)') + Own(x)
    BY DEF RefCountExact, Own
  <2>1. ref[x] = Cardinality(Holders(x)) + Own(x)
    BY DEF RefCountExact, Own
  <2> QED
    BY <1>2, <1>3, <1>4, <2>1, HoldersCount DEF Own, TypeOK
<1>7. SharedIsCow'
  BY <1>2 DEF SharedIsCow, TypeOK
<1>8. EmptyStringIntact'
  BY <1>2, <1>4, CowAssumption DEF EmptyStringIntact, TypeOK
<1> QED
  BY <1>5, <1>6, <1>7, <1>8

LEMMA FreeStringInv ==
  ASSUME IInv, NEW h \in Handle, FreeString(h)
  PROVE  IInv'
<1> USE DEF IInv
<1> DEFINE o == ptr[h]
<1>1. h \in Held /\ o \in Obj /\ o # NULL
  BY HeldObject DEF FreeString
<1>2. ref[o] >= 1 /\ ref[o] = Cardinality(Holders(o)) + Own(o)
  BY <1>1, HeldIsCounted DEF RefCountExact, Own
<1>3. ptr' = [ptr EXCEPT ![h] = NULL] /\ ref' = [ref EXCEPT ![o] = ref[o] - 1]
  BY DEF FreeString
<1>4. \A x \in Obj : Cardinality(Holders(x)') =
        IF x = o THEN Cardinality(Holders(x)) - 1 ELSE Cardinality(Holders(x))
  BY <1>1, <1>3, Retarget, CowAssumption
<1>5. /\ cow' \in [Obj -> BOOLEAN] /\ text' \in [Obj -> Text]
      /\ \A x \in Obj : x # o => cow'[x] = cow[x] /\ text'[x] = text[x]
      /\ ref[o] # 1 => cow'[o] = cow[o] /\ text'[o] = text[o]
  <2>1. CASE ref[o] = 1
    <3>1. /\ cow'  = [cow EXCEPT ![o] = FALSE]
          /\ text' = [text EXCEPT ![o] = <<>>]
      BY <2>1 DEF FreeString
    <3>2. <<>> \in Text
      BY DEF Text
    <3> QED
      BY <1>1, <2>1, <3>1, <3>2 DEF TypeOK
  <2>2. CASE ref[o] # 1
    BY <1>1, <2>2 DEF FreeString, TypeOK
  <2> QED
    BY <2>1, <2>2
<1>6. TypeOK'
  <2>1. ptr' \in [Handle -> Obj \cup {NULL}]
    BY <1>3 DEF TypeOK
  <2>2. ref' \in [Obj -> 0 .. RefMod - 1]
    BY <1>1, <1>2, <1>3, CowAssumption DEF TypeOK
  <2> QED
    BY <1>5, <2>1, <2>2 DEF TypeOK
<1>7. RefCountExact'
  <2> SUFFICES ASSUME NEW x \in Obj
               PROVE  ref'[x] = Cardinality(Holders(x)') + Own(x)
    BY DEF RefCountExact, Own
  <2>1. ref[x] = Cardinality(Holders(x)) + Own(x)
    BY DEF RefCountExact, Own
  <2> QED
    BY <1>1, <1>3, <1>4, <2>1, HoldersCount DEF Own, TypeOK
<1>8. SharedIsCow'
  BY <1>1, <1>2, <1>3, <1>5 DEF SharedIsCow, TypeOK
<1>9. EmptyStringIntact'
  <2>1. o = Empty => ref[o] >= 2
    BY <1>1, <1>2, HeldIsCounted, CowAssumption DEF Shared, TypeOK
  <2> QED
    BY <1>1, <1>3, <1>5, <2>1, CowAssumption DEF EmptyStringIntact, TypeOK
<1> QED
  BY <1>6, <1>7, <1>8, <1>9

LEMMA WriteCopyInv ==
  ASSUME IInv, NEW h \in Held, NEW t \in Text, WriteCopy(h, t)
  PROVE  IInv'
<1> USE DEF IInv
<1> DEFINE q == ptr[h]
<1>1. h \in Handle /\ q \in Obj /\ q # NULL /\ cow[q] /\ ref[q] > 1
  BY HeldObject DEF WriteCopy, Shared
<1>2. PICK o \in Free : /\ ptr'  = [ptr EXCEPT ![h] = o]
                        /\ ref'  = [ref EXCEPT ![o] = 1, ![q] = @ - 1]
                        /\ cow'  = [cow EXCEPT ![o] = FALSE]
                        /\ text' = [text EXCEPT ![o] = t]
  BY DEF WriteCopy
<1>3. o \in Obj /\ ref[o] = 0 /\ o # Empty /\ o # q
  BY <1>1, CowAssumption DEF Free, EmptyStringIntact, TypeOK
<1>4. \A x \in Obj : ref'[x] = IF x = o THEN 1
                              ELSE IF x = q THEN ref[q] - 1 ELSE ref[x]
  BY <1>1, <1>2, <1>3 DEF TypeOK
<1>5. TypeOK'
  <2>1. 1 \in 0 .. RefMod - 1 /\ ref[q] - 1 \in 0 .. RefMod - 1
    BY <1>1, CowAssumption DEF TypeOK
  <2> QED
    BY <1>1, <1>2, <1>3, <2>1 DEF TypeOK
<1>6. RefCountExact'
  <2> SUFFICES ASSUME NEW x \in Obj
               PROVE  ref'[x] = Cardinality(Holders(x)') + Own(x)
    BY DEF RefCountExact, Own
  <2>1. ref[x] = Cardinality(Holders(x)) + Own(x)
    BY DEF RefCountExact, Own
  <2>2. Cardinality(Holders(x)') =
          IF o = ptr[h] THEN Cardinality(Holders(x))
          ELSE IF x = o THEN Cardinality(Holders(x)) + 1
          ELSE IF x = ptr[h] THEN Cardinality(Holders(x)) - 1
          ELSE Cardinality(Holders(x))
    BY <1>1, <1>2, <1>3, Retarget
  <2> QED
    BY <1>1, <1>3, <1>4, <2>1, <2>2, HoldersCount DEF Own, TypeOK
<1>7. SharedIsCow'
  BY <1>1, <1>2, <1>3, <1>4 DEF SharedIsCow, TypeOK
<1>8. EmptyStringIntact'
  BY <1>1, <1>2, <1>3, <1>4, CowAssumption DEF EmptyStringIntact, TypeOK
<1> QED
  BY <1>5, <1>6, <1>7, <1>8

LEMMA WriteInPlaceInv ==
  ASSUME IInv, NEW h \in Held, NEW t \in Text, WriteInPlace(h, t)
  PROVE  IInv'
<1> USE DEF IInv
<1> DEFINE q == ptr[h]
<1>1. q \in Obj /\ ref[q] = 1 /\ q # Empty
  BY HeldObject, HeldIsCounted DEF WriteInPlace
<1>2. /\ cow'  = [cow EXCEPT ![q] = FALSE]
      /\ text' = [text EXCEPT ![q] = t]
      /\ ptr' = ptr /\ ref' = ref
  BY DEF WriteInPlace
<1>3. TypeOK'
  BY <1>1, <1>2 DEF TypeOK
<1>4. RefCountExact'
  BY <1>2 DEF RefCountExact, Holders
<1>5. SharedIsCow'
  BY <1>1, <1>2 DEF SharedIsCow, TypeOK
<1>6. EmptyStringIntact'
  BY <1>1, <1>2, CowAssumption DEF EmptyStringIntact, TypeOK
<1> QED
  BY <1>3, <1>4, <1>5, <1>6

LEMMA WriteMovedInv ==
  ASSUME IInv, NEW h \in Held, NEW t \in Text, WriteMoved(h, t)
  PROVE  IInv'
<1> USE DEF IInv
<1> DEFINE q == ptr[h]
<1>1. /\ h \in Handle /\ q \in Obj /\ q # NULL
      /\ ref[q] = 1 /\ q # Empty /\ Cardinality(Holders(q)) = 1
  BY HeldObject, HeldIsCounted DEF WriteMoved
<1>2. PICK o \in Free : /\ ptr'  = [ptr EXCEPT ![h] = o]
                        /\ ref'  = [ref EXCEPT ![o] = ref[q], ![q] = 0]
                        /\ cow'  = [cow EXCEPT ![o] = FALSE, ![q] = FALSE]
                        /\ text' = [text EXCEPT ![o] = t, ![q] = <<>>]
  BY DEF WriteMoved
<1>3. o \in Obj /\ ref[o] = 0 /\ o # Empty /\ o # q
  BY <1>1, CowAssumption DEF Free, EmptyStringIntact, TypeOK
<1>4. \A x \in Obj : ref'[x] = IF x = o THEN 1
                              ELSE IF x = q THEN 0 ELSE ref[x]
  BY <1>1, <1>2, <1>3 DEF TypeOK
<1>5. TypeOK'
  <2>1. <<>> \in Text
    BY DEF Text
  <2>2. 0 \in 0 .. RefMod - 1
    BY CowAssumption, <1>1 DEF TypeOK
  <2> QED
    BY <1>1, <1>2, <1>3, <2>1, <2>2 DEF TypeOK
<1>6. RefCountExact'
  <2> SUFFICES ASSUME NEW x \in Obj
               PROVE  ref'[x] = Cardinality(Holders(x)') + Own(x)
    BY DEF RefCountExact, Own
  <2>1. ref[x] = Cardinality(Holders(x)) + Own(x)
    BY DEF RefCountExact, Own
  <2>2. Cardinality(Holders(x)') =
          IF o = ptr[h] THEN Cardinality(Holders(x))
          ELSE IF x = o THEN Cardinality(Holders(x)) + 1
          ELSE IF x = ptr[h] THEN Cardinality(Holders(x)) - 1
          ELSE Cardinality(Holders(x))
    <3>1. h \in Handle /\ o \in Obj \cup {NULL} /\ ptr' = [ptr EXCEPT ![h] = o]
      BY <1>1, <1>2, <1>3
    <3> QED
      BY <3>1, Retarget
  <2> QED
    BY <1>1, <1>3, <1>4, <2>1, <2>2, HoldersCount DEF Own, TypeOK
<1>7. SharedIsCow'
  BY <1>1, <1>2, <1>3, <1>4 DEF SharedIsCow, TypeOK
<1>8. EmptyStringIntact'
  BY <1>1, <1>2, <1>3, <1>4, CowAssumption DEF EmptyStringIntact, TypeOK
<1> QED
  BY <1>5, <1>6, <1>7, <1>8

LEMMA StringClearInv ==
  ASSUME IInv, NEW h \in Handle, StringClear(h)
  PROVE  IInv'
<1> USE DEF IInv
<1>1. ptr[h] \in Obj
  BY HeldObject DEF StringClear
<1>2. text' = [text EXCEPT ![ptr[h]] = <<>>] /\ UNCHANGED <<ptr, ref, cow>>
  BY DEF StringClear
<1>3. <<>> \in Text
  BY DEF Text
<1>4. TypeOK'
  BY <1>1, <1>2, <1>3 DEF TypeOK
<1>5. RefCountExact' /\ SharedIsCow'
  BY <1>2 DEF RefCountExact, SharedIsCow, Holders
<1>6. EmptyStringIntact'
  BY <1>1, <1>2, CowAssumption DEF EmptyStringIntact, TypeOK
<1> QED
  BY <1>4, <1>5, <1>6
-----------------------------------------------------------------------------
LEMMA InitInv == Init => IInv
<1> SUFFICES ASSUME Init PROVE IInv
  OBVIOUS
<1>1. TypeOK
  <2>1. <<>> \in Text
    BY DEF Text
  <2>2. 0 \in 0 .. RefMod - 1 /\ 1 \in 0 .. RefMod - 1
    BY CowAssumption, FS_CardinalityType
  <2> QED
    BY <2>1, <2>2 DEF Init, TypeOK
<1>2. RefCountExact
  <2> SUFFICES ASSUME NEW o \in Obj
               PROVE  ref[o] = Cardinality(Holders(o)) + Own(o)
    BY DEF RefCountExact, Own
  <2>1. Holders(o) = {}
    BY CowAssumption DEF Init, Holders
  <2> QED
    BY <2>1, FS_EmptySet DEF Init, Own
<1>3. SharedIsCow
  BY DEF Init, SharedIsCow
<1>4. EmptyStringIntact
  <2>1. cow[Empty]
    BY CowAssumption, Zenon DEF Init
  <2>2. ref[Empty] = 1 /\ text[Empty] = <<>>
    BY CowAssumption DEF Init
  <2> QED
    BY <2>1, <2>2 DEF EmptyStringIntact
<1> QED
  BY <1>1, <1>2, <1>3, <1>4 DEF IInv

LEMMA NextInv == IInv /\ [Next]_vars => IInv'
<1> SUFFICES ASSUME IInv, [Next]_vars PROVE IInv'
  OBVIOUS
<1>1. ASSUME NEW h \in Handle, Effect(h) PROVE IInv'
  BY <1>1, AllocInv, StringRefInv, FreeStringInv, WriteCopyInv,
     WriteInPlaceInv, WriteMovedInv, StringClearInv DEF Effect
<1>2. CASE Next
  BY <1>1, <1>2, StepEffect DEF Next
<1>3. CASE UNCHANGED vars
  BY <1>3 DEF vars, IInv, TypeOK, RefCountExact, SharedIsCow,
              EmptyStringIntact, Holders
<1> QED
  BY <1>2, <1>3

(* For any number of handles below the width of the count: every reference *)
(* count equals the number of holders (nothing leaks, nothing is freed     *)
(* twice or while in use).                                                 *)
THEOREM RefCountsAreExact == Spec => []RefCountExact
  BY InitInv, NextInv, PTL DEF Spec, IInv

(* A string that two handles see is always flagged copy-on-write.          *)
THEOREM SharedStringsAreCow == Spec => []SharedIsCow
  BY InitInv, NextInv, PTL DEF Spec, IInv

(* EMPTY_STRING is never freed, reallocated or written.                    *)
THEOREM EmptyStringNeverWritten == Spec => []EmptyStringIntact
  BY InitInv, NextInv, PTL DEF Spec, IInv

(* The state stays well typed; in particular no operation makes a text     *)
(* hold a byte that is not one.                                            *)
THEOREM TypeCorrect == Spec => []TypeOK
  BY InitInv, NextInv, PTL DEF Spec, IInv

-----------------------------------------------------------------------------
(***************************************************************************)
(* StringCow implements StringValues: with the counts exact and shared     *)
(* objects flagged, every operation on a handle changes the text seen      *)
(* through that handle only.                                               *)
(***************************************************************************)

(* StringValues brings its own copy of the text operators.                 *)
LEMMA SameText ==
  /\ \A t, u : Values!AppendText(t, u) = AppendText(t, u)
  /\ \A t : Values!PopBack(t) = PopBack(t)
  /\ \A t, k : Values!Erase(t, k) = Erase(t, k)
  /\ \A t, k, c : Values!SetChar(t, k, c) = SetChar(t, k, c)
  /\ \A t, k, n : Values!CopyText(t, k, n) = CopyText(t, k, n)
<1>1. \A t, p : Values!Width(t, p) = Width(t, p)
  BY Zenon DEF Values!Width, Width, Values!Is2Byte, Is2Byte, Values!At, At
<1>2. \A t, k : Values!SjisIndex(t, k) = SjisIndex(t, k)
  BY Zenon DEF Values!SjisIndex, SjisIndex, Values!Width, Width,
     Values!Is2Byte, Is2Byte, Values!At, At, Values!NoChar, NoChar
<1>3. /\ \A t, n : Values!Before(t, n) = Before(t, n)
      /\ \A t, n : Values!From(t, n) = From(t, n)
  BY Zenon DEF Values!Before, Before, Values!From, From
<1>4. \A t, u : Values!AppendText(t, u) = AppendText(t, u)
  BY DEF Values!AppendText, AppendText
<1>5. \A t : Values!PopBack(t) = PopBack(t)
  BY Zenon
     DEF Values!PopBack, PopBack, Values!LastStart, LastStart,
         Values!LastStarts, LastStarts, Values!CharStarts, CharStarts,
         Values!SjisIndex, SjisIndex, Values!Width, Width, Values!Is2Byte,
         Is2Byte, Values!At, At, Values!Before, Before, Values!NoChar, NoChar
<1>6. \A t, k : Values!Erase(t, k) = Erase(t, k)
  BY <1>1, <1>2, <1>3, Zenon DEF Values!Erase, Erase
<1>7. \A t, k, c : Values!SetChar(t, k, c) = SetChar(t, k, c)
  <2>1. \A t, p, c : Values!SetCharAt(t, p, c) = SetCharAt(t, p, c)
    BY <1>1, <1>3, Zenon DEF Values!SetCharAt, SetCharAt
  <2> QED
    BY <1>2, <2>1 DEF Values!SetChar, SetChar
<1>8. \A t, k, n : Values!CopyText(t, k, n) = CopyText(t, k, n)
  <2>1. \A t, p, n : Values!CopyFrom(t, p, n) = CopyFrom(t, p, n)
    BY <1>2, <1>3, Zenon DEF Values!CopyFrom, CopyFrom, Values!NoChar, NoChar
  <2> QED
    BY <1>2, <2>1, Zenon DEF Values!CopyText, CopyText, Values!NoChar, NoChar
<1> QED
  BY <1>4, <1>5, <1>6, <1>7, <1>8

LEMMA HeldValues ==
  ASSUME IInv
  PROVE  /\ Values!Held = Held
         /\ \A h \in Held : Value[h] = TextOf(h)
         /\ DOMAIN Value = Handle
<1>1. \A h \in Held : TextOf(h) # NULL
  BY HeldObject, CowAssumption DEF IInv
<1>2. Held \subseteq Handle
  BY DEF Held
<1> QED
  BY <1>1, <1>2 DEF Values!Held, Value, Held

(* An object nobody shares has one holder.                                 *)
LEMMA SoleHolder ==
  ASSUME IInv, NEW h \in Held, ref[ptr[h]] = 1
  PROVE  \A g \in Handle : ptr[g] = ptr[h] => g = h
<1>1. ptr[h] \in Obj /\ h \in Holders(ptr[h])
  BY HeldObject DEF IInv, Holders
<1>2. ~Shared(ptr[h])
  BY DEF Shared
<1>3. IsFiniteSet(Holders(ptr[h])) /\ Cardinality(Holders(ptr[h])) = 1
  BY <1>1, <1>2, HeldIsCounted, HoldersCount
<1>4. PICK x : Holders(ptr[h]) = {x}
  BY <1>3, FS_Singleton
<1> QED
  BY <1>1, <1>4 DEF Holders

(* The value of a handle that is pointed at a text, all others keeping     *)
(* what they pointed at.                                                   *)
LEMMA OneValueChanges ==
  ASSUME IInv, NEW h \in Handle, NEW t,
         Value'[h] = t,
         \A g \in Handle \ {h} : Value'[g] = Value[g]
  PROVE  Values!Set(h, t)
<1>1. Value' = [g \in Handle |-> Value'[g]]
  BY DEF Value
<1>2. Value = [g \in Handle |-> Value[g]]
  BY DEF Value
<1> QED
  BY <1>1, <1>2 DEF Values!Set

LEMMA AllocValue ==
  ASSUME IInv, NEW h \in Handle, h \notin Held, NEW t, NEW b, Alloc(h, t, b)
  PROVE  Values!Set(h, t)
<1>1. PICK o \in Free : /\ ptr'  = [ptr EXCEPT ![h] = o]
                        /\ text' = [text EXCEPT ![o] = t]
  BY DEF Alloc
<1>2. o \in Obj /\ ref[o] = 0 /\ o # NULL
  BY CowAssumption DEF Free
<1>3. \A g \in Held : ptr[g] # o
  BY <1>2, HeldIsCounted
<1>4. Value'[h] = t
  BY <1>1, <1>2 DEF Value, TextOf, IInv, TypeOK
<1>5. \A g \in Handle \ {h} : Value'[g] = Value[g]
  BY <1>1, <1>2, <1>3 DEF Value, TextOf, IInv, TypeOK, Held
<1> QED
  BY <1>4, <1>5, OneValueChanges

LEMMA StringRefValue ==
  ASSUME IInv, NEW h \in Handle, NEW o \in Obj, StringRefObj(h, o)
  PROVE  Values!Set(h, text[o])
<1>1. ptr' = [ptr EXCEPT ![h] = o] /\ text' = text /\ o # NULL
  BY CowAssumption DEF StringRefObj
<1>2. Value'[h] = text[o]
  BY <1>1 DEF Value, TextOf, IInv, TypeOK
<1>3. \A g \in Handle \ {h} : Value'[g] = Value[g]
  BY <1>1 DEF Value, TextOf, IInv, TypeOK
<1> QED
  BY <1>2, <1>3, OneValueChanges

LEMMA FreeStringValue ==
  ASSUME IInv, NEW h \in Handle, FreeString(h)
  PROVE  Values!Set(h, NULL)
<1>1. h \in Held /\ ptr[h] \in Obj /\ ptr' = [ptr EXCEPT ![h] = NULL]
  BY HeldObject DEF FreeString, IInv
<1>2. \A x \in Obj : x # ptr[h] => text'[x] = text[x]
  BY <1>1 DEF FreeString, IInv, TypeOK
<1>3. ref[ptr[h]] # 1 => text' = text
  BY DEF FreeString
<1>4. Value'[h] = NULL
  BY <1>1 DEF Value, IInv, TypeOK
<1>5. \A g \in Handle \ {h} : Value'[g] = Value[g]
  <2> SUFFICES ASSUME NEW g \in Handle \ {h} PROVE Value'[g] = Value[g]
    OBVIOUS
  <2>1. ptr'[g] = ptr[g] /\ ptr[g] \in Obj \cup {NULL}
    BY <1>1 DEF IInv, TypeOK
  <2>2. ptr[g] = ptr[h] => ref[ptr[h]] # 1
    BY <1>1, SoleHolder
  <2> QED
    BY <2>1, <2>2, <1>2, <1>3 DEF Value, TextOf
<1> QED
  BY <1>4, <1>5, OneValueChanges

LEMMA WriteValue ==
  ASSUME IInv, NEW h \in Held, NEW t,
         WriteCopy(h, t) \/ WriteInPlace(h, t) \/ WriteMoved(h, t)
  PROVE  Values!Set(h, t)
<1>1. h \in Handle /\ ptr[h] \in Obj /\ ptr[h] # NULL
  BY HeldObject DEF IInv
<1>2. CASE WriteCopy(h, t)
  <2>1. PICK o \in Free : /\ ptr'  = [ptr EXCEPT ![h] = o]
                          /\ text' = [text EXCEPT ![o] = t]
    BY <1>2 DEF WriteCopy
  <2>2. o \in Obj /\ ref[o] = 0 /\ o # NULL
    BY CowAssumption DEF Free
  <2>3. \A g \in Held : ptr[g] # o
    BY <2>2, HeldIsCounted
  <2>4. Value'[h] = t
    BY <1>1, <2>1, <2>2 DEF Value, TextOf, IInv, TypeOK
  <2>5. \A g \in Handle \ {h} : Value'[g] = Value[g]
    BY <2>1, <2>2, <2>3 DEF Value, TextOf, IInv, TypeOK, Held
  <2> QED
    BY <1>1, <2>4, <2>5, OneValueChanges
<1>3. CASE WriteInPlace(h, t)
  <2>1. ptr' = ptr /\ text' = [text EXCEPT ![ptr[h]] = t]
    BY <1>3 DEF WriteInPlace
  <2>2. ref[ptr[h]] = 1
    BY <1>3, HeldIsCounted DEF WriteInPlace
  <2>3. \A g \in Handle \ {h} : ptr[g] # ptr[h]
    BY <2>2, SoleHolder
  <2>4. Value'[h] = t
    BY <1>1, <2>1 DEF Value, TextOf, IInv, TypeOK
  <2>5. \A g \in Handle \ {h} : Value'[g] = Value[g]
    BY <2>1, <2>3 DEF Value, TextOf, IInv, TypeOK
  <2> QED
    BY <1>1, <2>4, <2>5, OneValueChanges
<1>4. CASE WriteMoved(h, t)
  <2>1. PICK o \in Free : /\ ptr'  = [ptr EXCEPT ![h] = o]
                          /\ text' = [text EXCEPT ![o] = t, ![ptr[h]] = <<>>]
    BY <1>4 DEF WriteMoved
  <2>2. o \in Obj /\ ref[o] = 0 /\ o # NULL
    BY CowAssumption DEF Free
  <2>3. \A g \in Held : ptr[g] # o
    BY <2>2, HeldIsCounted
  <2>4. ref[ptr[h]] = 1
    BY <1>4, HeldIsCounted DEF WriteMoved
  <2>5. \A g \in Handle \ {h} : ptr[g] # ptr[h]
    BY <2>4, SoleHolder
  <2>6. Value'[h] = t
    BY <1>1, <2>1, <2>2, <2>3 DEF Value, TextOf, IInv, TypeOK
  <2>7. \A g \in Handle \ {h} : Value'[g] = Value[g]
    BY <1>1, <2>1, <2>2, <2>3, <2>5 DEF Value, TextOf, IInv, TypeOK, Held
  <2> QED
    BY <1>1, <2>6, <2>7, OneValueChanges
<1> QED
  BY <1>2, <1>3, <1>4

LEMMA ClearValue ==
  ASSUME IInv, NEW h \in Handle, StringClear(h)
  PROVE  Values!Clear(h)
<1> DEFINE sharers == Holders(ptr[h])
<1>1. h \in Held /\ ptr[h] \in Obj /\ ptr[h] # NULL
  BY HeldObject DEF StringClear, IInv
<1>2. sharers \in SUBSET Values!Held /\ h \in sharers
  BY <1>1, HeldValues DEF Holders, Held
<1>3. \A g \in sharers : Value[g] = Value[h]
  BY <1>1 DEF Holders, Value, TextOf
<1>4. Value' = [g \in Handle |-> IF g \in sharers THEN <<>> ELSE Value[g]]
  <2>1. ptr' = ptr /\ text' = [text EXCEPT ![ptr[h]] = <<>>]
    BY DEF StringClear
  <2>2. \A g \in Handle : Value'[g] = IF g \in sharers THEN <<>> ELSE Value[g]
    BY <1>1, <2>1 DEF Value, TextOf, Holders, IInv, TypeOK
  <2>3. Value' = [g \in Handle |-> Value'[g]]
    BY DEF Value
  <2> QED
    BY <2>2, <2>3
<1> QED
  BY <1>2, <1>3, <1>4 DEF Values!Clear

LEMMA MakeValue ==
  ASSUME IInv, NEW h \in Handle,
         \/ MakeString(h) \/ ReadVmString(h) \/ StringDup(h)
         \/ StringConcatenate(h) \/ StringCopy(h)
         \/ StringRef(h) \/ StringRefEmpty(h)
  PROVE  Values!Make(h)
<1> USE HeldValues, SameText DEF Values!Make
<1>1. h \notin Values!Held
  BY DEF MakeString, ReadVmString, StringDup, StringConcatenate,
         StringCopy, StringRef, StringRefEmpty
<1>2. CASE MakeString(h)
  <2>1. PICK t \in TextInput : Alloc(h, t, FALSE)
    BY <1>2 DEF MakeString
  <2> QED
    BY <1>1, <2>1, AllocValue
<1>3. CASE ReadVmString(h)
  <2>1. PICK t \in TextInput : Alloc(h, t, TRUE)
    BY <1>3 DEF ReadVmString
  <2> QED
    BY <1>1, <2>1, AllocValue
<1>4. CASE StringDup(h)
  <2>1. PICK g \in Held : Alloc(h, TextOf(g), FALSE)
    BY <1>4 DEF StringDup
  <2>2. Values!Set(h, Value[g])
    BY <1>1, <2>1, AllocValue
  <2> QED
    BY <1>1, <2>2
<1>5. CASE StringConcatenate(h)
  <2>1. PICK f \in Held, g \in Held :
          Alloc(h, AppendText(TextOf(f), TextOf(g)), FALSE)
    BY <1>5 DEF StringConcatenate
  <2>2. Values!Set(h, AppendText(Value[f], Value[g]))
    BY <1>1, <2>1, AllocValue
  <2> QED
    BY <1>1, <2>2
<1>6. CASE StringCopy(h)
  <2>1. PICK g \in Held, k \in 0 .. MaxIndex, n \in 0 .. MaxIndex :
          Alloc(h, CopyText(TextOf(g), k, n), FALSE)
    BY <1>6 DEF StringCopy
  <2>2. Values!Set(h, CopyText(Value[g], k, n))
    BY <1>1, <2>1, AllocValue
  <2> QED
    BY <1>1, <2>2
<1>7. CASE StringRef(h)
  <2>1. PICK g \in Held : StringRefObj(h, ptr[g])
    BY <1>7 DEF StringRef
  <2>2. Values!Set(h, text[ptr[g]])
    BY <2>1, StringRefValue, HeldObject DEF IInv
  <2>3. Value[g] = text[ptr[g]]
    BY DEF TextOf
  <2> QED
    BY <1>1, <2>2, <2>3
<1>8. CASE StringRefEmpty(h)
  <2>1. Values!Set(h, text[Empty])
    BY <1>8, StringRefValue, CowAssumption DEF StringRefEmpty
  <2>2. text[Empty] = <<>>
    BY DEF IInv, EmptyStringIntact
  <2> QED
    BY <1>1, <2>1, <2>2
<1> QED
  BY <1>2, <1>3, <1>4, <1>5, <1>6, <1>7, <1>8

LEMMA MutateValue ==
  ASSUME IInv, NEW h \in Handle,
         \/ StringAppendCstr(h) \/ StringAppend(h) \/ StringPopBack(h)
         \/ StringErase(h) \/ StringSetChar(h)
  PROVE  Values!Mutate(h)
<1> USE HeldValues, SameText DEF Values!Mutate
<1>1. h \in Values!Held /\ h \in Held
  BY DEF StringAppendCstr, StringAppend, StringPopBack, StringErase,
         StringSetChar
<1>2. ASSUME NEW t, Write(h, t) \/ Rewrite(h, t) PROVE Values!Set(h, t)
  BY <1>1, <1>2, WriteValue DEF Write, Rewrite
<1>3. CASE StringAppendCstr(h)
  <2>1. PICK t \in TextInput \cup CharInput : Rewrite(h, AppendText(TextOf(h), t))
    BY <1>3 DEF StringAppendCstr
  <2> QED
    BY <1>1, <1>2, <2>1
<1>4. CASE StringAppend(h)
  <2>1. PICK g \in Held : Rewrite(h, AppendText(TextOf(h), TextOf(g)))
    BY <1>4 DEF StringAppend
  <2>2. Values!Set(h, AppendText(Value[h], Value[g]))
    BY <1>1, <1>2, <2>1
  <2> QED
    BY <1>1, <2>2
<1>5. CASE StringPopBack(h)
  BY <1>1, <1>2, <1>5 DEF StringPopBack
<1>6. CASE StringErase(h)
  <2>1. PICK k \in 0 .. MaxIndex : Write(h, Erase(TextOf(h), k))
    BY <1>6 DEF StringErase
  <2> QED
    BY <1>1, <1>2, <2>1
<1>7. CASE StringSetChar(h)
  <2>1. PICK k \in 0 .. MaxIndex, c \in CharInput \cup {<<>>} :
          \/ Write(h, SetChar(TextOf(h), k, c))
          \/ Rewrite(h, SetChar(TextOf(h), k, c))
    BY <1>7 DEF StringSetChar
  <2> QED
    BY <1>1, <1>2, <2>1
<1> QED
  BY <1>3, <1>4, <1>5, <1>6, <1>7
-----------------------------------------------------------------------------
LEMMA InitRefines == Init => Values!Init
  BY DEF Init, Values!Init, Value

LEMMA NextRefines == IInv /\ [Next]_vars => [Values!Next]_Value
<1> SUFFICES ASSUME IInv, [Next]_vars PROVE [Values!Next]_Value
  OBVIOUS
<1>1. CASE UNCHANGED vars
  BY <1>1 DEF vars, Value, TextOf
<1>2. ASSUME NEW h \in Handle, FreeString(h) PROVE Values!Drop(h)
  BY <1>2, FreeStringValue, HeldValues DEF FreeString, Values!Drop
<1>3. CASE Next
  <2>1. PICK h \in Handle :
          \/ MakeString(h) \/ ReadVmString(h) \/ StringDup(h)
          \/ StringConcatenate(h) \/ StringCopy(h)
          \/ StringRef(h) \/ StringRefEmpty(h) \/ FreeString(h)
          \/ StringAppendCstr(h) \/ StringAppend(h) \/ StringPopBack(h)
          \/ StringErase(h) \/ StringSetChar(h) \/ StringClear(h)
    BY <1>3 DEF Next
  <2>2. Values!Make(h) \/ Values!Drop(h) \/ Values!Mutate(h) \/ Values!Clear(h)
    BY <2>1, <1>2, MakeValue, MutateValue, ClearValue
  <2> QED
    BY <2>2 DEF Values!Next
<1> QED
  BY <1>1, <1>3

(* string.c gives every handle a text of its own: whatever sharing, copying *)
(* on write and reallocation happen underneath, a sequence of calls is seen *)
(* through the handles as the same calls on plain values (string_clear, the *)
(* one mutator without cow_check, may also empty handles with equal text).  *)
THEOREM StringCowImplementsValues == Spec => ImplementsValues
<1>1. Init => IInv /\ Values!Init
  BY InitInv, InitRefines
<1>2. IInv /\ [Next]_vars => IInv' /\ [Values!Next]_Value
  BY NextInv, NextRefines
<1> QED
  BY <1>1, <1>2, PTL DEF Spec, ImplementsValues, Values!Spec
=============================================================================
