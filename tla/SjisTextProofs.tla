---------------------------- MODULE SjisTextProofs ----------------------------
(***************************************************************************)
(* For any alphabet of one- and two-byte characters: however a text came   *)
(* to be, its bytes are the encoding of its characters, and what is read   *)
(* from the bytes is what the characters say.                              *)
(*                                                                         *)
(* The argument: a text is what is before a character, the character and   *)
(* what is after it (EncodeConcat), a scan from the start of the text is   *)
(* at the starts of its characters (IndexIs), and the first byte of a      *)
(* character says where the next one starts (NextStart, Begins).           *)
(***************************************************************************)
EXTENDS SjisTextCheck, SequenceTheorems, NaturalsInduction, WellFoundedInduction, TLAPS

-----------------------------------------------------------------------------
(* The bytes of characters.                                                *)

\* A character has one byte or two, as its first byte says.
LEMMA CharBytes ==
  ASSUME NEW c \in Chars
  PROVE  /\ c \in Text /\ Len(c) \in {1, 2} /\ c[1] \in Byte
         /\ Len(c) \in Nat /\ 1 <= Len(c)
         /\ Len(c) = IF Is2Byte(c[1]) THEN 2 ELSE 1
<1>1. c \in Text /\ Len(c) = Width(c, 0)
  BY CharsAssumption
<1>2. 0 + 1 = 1
  OBVIOUS
<1>3. Len(c) = IF Is2Byte(c[1]) THEN 2 ELSE 1
  BY <1>1, <1>2 DEF Width, At
<1>4. Len(c) \in {1, 2}
  BY <1>3
<1>5. c[1] \in Byte
  BY <1>1, <1>4 DEF Text
<1>6. Len(c) \in Nat /\ 1 <= Len(c)
  BY <1>4
<1> QED BY <1>1, <1>3, <1>4, <1>5, <1>6

\* Characters are texts.
LEMMA CharsAreTexts == Seq(Chars) \subseteq Seq(Text)
BY CharBytes

\* A sequence is its first n elements and those that follow them.
LEMMA Split ==
  ASSUME NEW S, NEW s \in Seq(S), NEW n \in 0 .. Len(s)
  PROVE  /\ Before(s, n) \in Seq(S) /\ From(s, n) \in Seq(S)
         /\ Len(Before(s, n)) = n /\ Len(From(s, n)) = Len(s) - n
         /\ s = Before(s, n) \o From(s, n)
<1>1. Before(s, n) \in Seq(S) /\ Len(Before(s, n)) = n
  BY DEF Before
<1>2. From(s, n) \in Seq(S) /\ Len(From(s, n)) = Len(s) - n
  BY DEF From
<1>3. SubSeq(s, 1, n) \o SubSeq(s, n + 1, Len(s)) = SubSeq(s, 1, Len(s))
  <2>1. Len(s) \in Nat
    OBVIOUS
  <2>2. 1 \in 1 .. Len(s) + 1 /\ n \in 1 - 1 .. Len(s) /\ Len(s) \in n .. Len(s)
    BY <2>1
  <2> QED BY <2>2, ConcatAdjacentSubSeq, Zenon
<1>4. SubSeq(s, 1, Len(s)) = s
  BY SubSeqFull
<1> QED BY <1>1, <1>2, <1>3, <1>4 DEF Before, From

\* The first part of a join is what is before the second.
LEMMA Parts ==
  ASSUME NEW S, NEW x \in Seq(S), NEW y \in Seq(S)
  PROVE  /\ Before(x \o y, Len(x)) = x
         /\ From(x \o y, Len(x)) = y
<1>1. x \o y \in Seq(S) /\ Len(x \o y) = Len(x) + Len(y) /\ Len(x) \in Nat /\ Len(y) \in Nat
  OBVIOUS
<1>2. Before(x \o y, Len(x)) = x
  BY <1>1 DEF Before
<1>3. From(x \o y, Len(x)) = y
  BY <1>1 DEF From
<1> QED BY <1>2, <1>3

\* The first elements of those that follow the first ones.
LEMMA Within ==
  ASSUME NEW S, NEW s \in Seq(S), NEW p \in 0 .. Len(s), NEW q \in 0 .. Len(From(s, p))
  PROVE  Before(From(s, p), q) = SubSeq(s, p + 1, p + q)
<1> DEFINE x == From(s, p)
           y == SubSeq(s, p + 1, p + q)
<1>0. Len(s) \in Nat /\ Len(x) = Len(s) - p /\ x \in Seq(S) /\ p \in Nat /\ q \in Nat
  BY Split
<1>1. \A i \in 1 .. Len(x) : x[i] = s[p + i]
  BY <1>0 DEF From
<1> HIDE DEF x
<1>2. y \in Seq(S) /\ Len(y) = q /\ \A i \in 1 .. q : y[i] = s[p + i]
  <2>1. p + q <= Len(s)
    BY <1>0 DEF x
  <2> QED BY <1>0, <2>1
<1> HIDE DEF y
<1>3. Before(x, q) \in Seq(S) /\ Len(Before(x, q)) = q
  BY <1>0, Split DEF x
<1>4. \A i \in 1 .. q : Before(x, q)[i] = x[i]
  <2>1. q <= Len(x)
    BY <1>0 DEF x
  <2> QED BY <1>0, <2>1 DEF Before
<1>5. \A i \in 1 .. q : Before(x, q)[i] = y[i]
  <2>1. \A i \in 1 .. q : i \in 1 .. Len(x)
    BY <1>0 DEF x
  <2> QED BY <1>1, <1>2, <1>4, <2>1
<1> QED BY <1>2, <1>3, <1>5, SeqEqual DEF x, y

-----------------------------------------------------------------------------
(* Numbers and sequences of sequences.                                     *)

\* Every nonempty set of naturals has a least element.
Less == {p \in Nat \X Nat : p[1] < p[2]}

LEMMA LeastExists ==
  ASSUME NEW T \in SUBSET Nat, T # {}
  PROVE  \E x \in T : \A y \in T : x <= y
<1>1. IsWellFoundedOn(Less, Nat)
  <2>1. OpToRel(<, Nat) = Less
    BY Zenon DEF Less, OpToRel
  <2> QED BY <2>1, NatLessThanWellFounded
<1>2. PICK x \in T : \A y \in T : ~ (<<y, x>> \in Less)
  BY <1>1, WFMin
<1>3. \A y \in T : y \in Nat /\ ~ (y < x)
  <2> SUFFICES ASSUME NEW y \in T PROVE y \in Nat /\ ~ (y < x)
    OBVIOUS
  <2>1. <<y, x>> \in Nat \X Nat /\ <<y, x>>[1] = y /\ <<y, x>>[2] = x
    OBVIOUS
  <2> QED BY <1>2, <2>1 DEF Less
<1> QED BY <1>3

\* What holds of 0 and passes on from each number to the next holds of all.
LEMMA Counting ==
  ASSUME NEW P, P \subseteq Nat, 0 \in P, \A n \in P : n + 1 \in P
  PROVE  P = Nat
<1> SUFFICES ASSUME Nat \ P # {} PROVE FALSE
  OBVIOUS
<1>1. PICK m \in Nat \ P : \A k \in Nat \ P : m <= k
  <2>1. Nat \ P \in SUBSET Nat
    OBVIOUS
  <2> QED BY <2>1, LeastExists
<1>2. m # 0 /\ m - 1 \in Nat /\ ~ (m <= m - 1) /\ m - 1 + 1 = m
  OBVIOUS
<1>3. m - 1 \in P
  BY <1>1, <1>2
<1> QED BY <1>2, <1>3

\* One sequence and then another.
Joined(f, g) == f \o g

\* Elements of two sequences joined.
LEMMA SeqJoin ==
  ASSUME NEW S, NEW x \in Seq(S), NEW y \in Seq(S)
  PROVE  /\ Joined(x, y) \in Seq(S) /\ Len(Joined(x, y)) = Len(x) + Len(y)
         /\ \A i \in 1 .. Len(x) + Len(y) :
              Joined(x, y)[i] = IF i <= Len(x) THEN x[i] ELSE y[i - Len(x)]
BY DEF Joined

\* One sequence after the other, as far as the i-th.
Joins(ss, f) == /\ f[1] = ss[1]
                /\ \A i \in 2 .. Len(ss) : f[i] = Joined(f[i - 1], ss[i])

\* Flattening joins one sequence at a time.
LEMMA Flattened ==
  ASSUME NEW S, NEW ss \in Seq(Seq(S)), Len(ss) # 0
  PROVE  \E f \in [1 .. Len(ss) -> Seq(S)] : Joins(ss, f) /\ FlattenSeq(ss) = f[Len(ss)]
<1> DEFINE N == Len(ss)
           J(m, f) == /\ f \in [1 .. m -> Seq(S)] /\ f[1] = ss[1]
                      /\ \A i \in 2 .. m : f[i] = Joined(f[i - 1], ss[i])
           P == {m \in Nat : m + 1 <= N => \E f : J(m + 1, f)}
<1>0. N \in Nat \ {0} /\ \A i \in 1 .. N : ss[i] \in Seq(S)
  OBVIOUS
<1>1. 0 \in P
  <2>1. J(1, [i \in 1 .. 1 |-> ss[1]])
    BY <1>0
  <2> HIDE DEF J
  <2> QED BY <2>1
<1>2. ASSUME NEW m \in P PROVE m + 1 \in P
  <2> SUFFICES ASSUME m + 1 + 1 <= N PROVE \E f : J(m + 1 + 1, f)
    <3> HIDE DEF J
    <3> QED BY <1>2
  <2>1. PICK f : J(m + 1, f)
    <3> HIDE DEF J
    <3> QED BY <1>0
  <2> DEFINE M == m + 1
             g == [i \in 1 .. M + 1 |-> IF i = M + 1 THEN Joined(f[M], ss[M + 1]) ELSE f[i]]
  <2>2. M \in Nat \ {0} /\ M + 1 \in 1 .. N
    BY <1>0
  <2>3. f[M] \in Seq(S) /\ ss[M + 1] \in Seq(S)
    BY <1>0, <2>1, <2>2
  <2>4. Joined(f[M], ss[M + 1]) \in Seq(S)
    BY <2>3, SeqJoin DEF Joined
  <2> HIDE DEF M
  <2>5. g \in [1 .. M + 1 -> Seq(S)]
    BY <2>1, <2>2, <2>4 DEF M
  <2>6. g[1] = ss[1]
    BY <2>1, <2>2
  <2>7. ASSUME NEW i \in 2 .. M + 1 PROVE g[i] = Joined(g[i - 1], ss[i])
    <3>1. i - 1 \in 1 .. M /\ i - 1 # M + 1 /\ i - 1 \in 1 .. M + 1 /\ i \in 1 .. M + 1
      BY <2>2
    <3>2. g[i - 1] = f[i - 1]
      BY <3>1
    <3>3. CASE i = M + 1
      <4>1. i - 1 = M
        BY <2>2, <3>3
      <4> QED BY <3>1, <3>2, <3>3, <4>1
    <3>4. CASE i # M + 1
      <4>1. i \in 2 .. M
        BY <2>2, <3>4
      <4>2. f[i] = Joined(f[i - 1], ss[i])
        BY <2>1, <4>1 DEF M
      <4> QED BY <3>1, <3>2, <3>4, <4>2
    <3> QED BY <3>3, <3>4
  <2> HIDE DEF g
  <2>8. J(M + 1, g)
    BY <2>5, <2>6, <2>7
  <2> HIDE DEF J
  <2> QED BY <2>8 DEF M
<1>3. \E f : J(N, f)
  <2>1. P \subseteq Nat
    OBVIOUS
  <2> HIDE DEF P, J
  <2>2. P = Nat
    BY <1>1, <1>2, <2>1, Counting
  <2>3. N - 1 \in P /\ N - 1 + 1 = N /\ N <= N
    BY <1>0, <2>2
  <2> QED BY <2>3 DEF P
<1> DEFINE Rule(f) == f = [i \in 1 .. N |-> IF i = 1 THEN ss[i] ELSE Joined(f[i - 1], ss[i])]
<1>4. \E f : Rule(f)
  <2>1. PICK f : J(N, f)
    BY <1>3
  <2>2. ASSUME NEW i \in 1 .. N PROVE f[i] = IF i = 1 THEN ss[i] ELSE Joined(f[i - 1], ss[i])
    BY <1>0, <2>1
  <2>3. f = [i \in 1 .. N |-> f[i]]
    BY <2>1
  <2>4. Rule(f)
    BY <2>2, <2>3
  <2> HIDE DEF Rule
  <2> QED BY <2>4
<1> DEFINE F == CHOOSE f : Rule(f)
<1>5. Rule(F)
  <2> HIDE DEF Rule
  <2> QED BY <1>4
<1>6. FlattenSeq(ss) = F[N]
  BY <1>0 DEF FlattenSeq, Joined
<1> HIDE DEF F
<1>7. F[1] = ss[1] /\ \A i \in 2 .. N : F[i] = Joined(F[i - 1], ss[i])
  <2>1. ASSUME NEW i \in 1 .. N PROVE F[i] = IF i = 1 THEN ss[i] ELSE Joined(F[i - 1], ss[i])
    BY <1>5
  <2>2. 1 \in 1 .. N /\ \A i \in 2 .. N : i \in 1 .. N /\ i # 1
    BY <1>0
  <2> QED BY <2>1, <2>2
<1>8. F \in [1 .. N -> Seq(S)]
  <2> DEFINE Q == {m \in Nat : m + 1 <= N => F[m + 1] \in Seq(S)}
  <2>1. 0 \in Q
    BY <1>0, <1>7
  <2>2. ASSUME NEW m \in Q PROVE m + 1 \in Q
    <3> SUFFICES ASSUME m + 1 + 1 <= N PROVE F[m + 1 + 1] \in Seq(S)
      OBVIOUS
    <3>1. m + 1 + 1 \in 2 .. N /\ m + 1 + 1 - 1 = m + 1 /\ m + 1 <= N /\ m + 1 + 1 \in 1 .. N
      BY <1>0
    <3>2. F[m + 1] \in Seq(S) /\ ss[m + 1 + 1] \in Seq(S)
      BY <1>0, <3>1
    <3>3. F[m + 1 + 1] = Joined(F[m + 1], ss[m + 1 + 1])
      BY <1>7, <3>1
    <3> QED BY <3>2, <3>3, SeqJoin DEF Joined
  <2>3. Q \subseteq Nat
    OBVIOUS
  <2> HIDE DEF Q
  <2>4. Q = Nat
    BY <2>1, <2>2, <2>3, Counting
  <2>5. ASSUME NEW i \in 1 .. N PROVE F[i] \in Seq(S)
    <3>1. i - 1 \in Nat /\ i - 1 + 1 = i /\ i <= N
      BY <1>0
    <3> QED BY <2>4, <3>1 DEF Q
  <2> QED BY <1>5, <2>5
<1> QED BY <1>6, <1>7, <1>8 DEF Joins

-----------------------------------------------------------------------------
(* The encoding of a sequence of characters.                               *)

\* An encoding is a text, and nothing is encoded as nothing.
LEMMA EncodeText ==
  ASSUME NEW cs \in Seq(Chars)
  PROVE  /\ Encode(cs) \in Text
         /\ cs = <<>> => Encode(cs) = <<>>
<1>1. cs \in Seq(Seq(Byte))
  BY CharsAreTexts DEF Text
<1>2. CASE Len(cs) = 0
  <2>1. cs = <<>>
    BY <1>2
  <2>2. <<>> \in Seq(Byte)
    OBVIOUS
  <2> QED BY <1>2, <2>1, <2>2 DEF Encode, FlattenSeq, Text
<1>3. CASE Len(cs) # 0
  <2>1. PICK f \in [1 .. Len(cs) -> Seq(Byte)] : Joins(cs, f) /\ FlattenSeq(cs) = f[Len(cs)]
    BY <1>1, <1>3, Flattened
  <2>2. Len(cs) \in 1 .. Len(cs) /\ cs # <<>>
    BY <1>3
  <2> QED BY <2>1, <2>2 DEF Encode, Text
<1> QED BY <1>2, <1>3

\* One character more adds its bytes.
LEMMA EncodeAppend ==
  ASSUME NEW cs \in Seq(Chars), NEW c \in Chars
  PROVE  Encode(Append(cs, c)) = Encode(cs) \o c
<1> DEFINE N  == Len(cs)
           ds == Append(cs, c)
<1>1. /\ N \in Nat /\ ds \in Seq(Chars) /\ Len(ds) = N + 1 /\ ds[N + 1] = c
      /\ \A i \in 1 .. N : ds[i] = cs[i]
  OBVIOUS
<1> HIDE DEF ds
<1>2. cs \in Seq(Seq(Byte)) /\ ds \in Seq(Seq(Byte)) /\ c \in Seq(Byte)
  BY <1>1, CharsAreTexts, CharBytes DEF Text
<1>3. PICK g \in [1 .. Len(ds) -> Seq(Byte)] : Joins(ds, g) /\ FlattenSeq(ds) = g[Len(ds)]
  <2>1. Len(ds) # 0
    BY <1>1
  <2> QED BY <1>2, <2>1, Flattened
<1>4. g[1] = ds[1] /\ \A i \in 2 .. N + 1 : g[i] = Joined(g[i - 1], ds[i])
  BY <1>1, <1>3 DEF Joins
<1>5. CASE N = 0
  <2>1. cs = <<>>
    BY <1>5
  <2>2. Encode(cs) = <<>>
    BY <2>1, EncodeText
  <2>3. g[N + 1] = c
    BY <1>1, <1>4, <1>5
  <2>4. <<>> \o c = c
    BY <1>2, ConcatEmptySeq
  <2> QED BY <1>1, <1>3, <2>2, <2>3, <2>4 DEF Encode, ds
<1>6. CASE N # 0
  <2>1. PICK f \in [1 .. N -> Seq(Byte)] : Joins(cs, f) /\ FlattenSeq(cs) = f[N]
    BY <1>2, <1>6, Flattened
  <2>2. f[1] = cs[1] /\ \A i \in 2 .. N : f[i] = Joined(f[i - 1], cs[i])
    BY <2>1 DEF Joins
  <2> DEFINE P == {m \in Nat : m + 1 <= N => f[m + 1] = g[m + 1]}
  <2>3. 0 \in P
    <3>1. 1 \in 1 .. N
      BY <1>1, <1>6
    <3> QED BY <1>1, <1>4, <2>2, <3>1
  <2>4. ASSUME NEW m \in P PROVE m + 1 \in P
    <3> SUFFICES ASSUME m + 1 + 1 <= N PROVE f[m + 1 + 1] = g[m + 1 + 1]
      OBVIOUS
    <3>1. /\ m + 1 + 1 \in 2 .. N /\ m + 1 + 1 \in 2 .. N + 1 /\ m + 1 + 1 \in 1 .. N
          /\ m + 1 + 1 - 1 = m + 1 /\ m + 1 <= N
      BY <1>1
    <3>2. f[m + 1] = g[m + 1]
      BY <3>1
    <3>3. f[m + 1 + 1] = Joined(f[m + 1], cs[m + 1 + 1])
      BY <2>2, <3>1
    <3>4. g[m + 1 + 1] = Joined(g[m + 1], ds[m + 1 + 1])
      BY <1>4, <3>1
    <3> QED BY <1>1, <3>1, <3>2, <3>3, <3>4
  <2>5. P \subseteq Nat
    OBVIOUS
  <2> HIDE DEF P
  <2>6. P = Nat
    BY <2>3, <2>4, <2>5, Counting
  <2>7. f[N] = g[N]
    <3>1. N - 1 \in P /\ N - 1 + 1 = N /\ N <= N
      BY <1>1, <1>6, <2>6
    <3> QED BY <3>1 DEF P
  <2>8. g[N + 1] = Joined(g[N], ds[N + 1])
    <3>1. N + 1 \in 2 .. N + 1 /\ N + 1 - 1 = N
      BY <1>1, <1>6
    <3> QED BY <1>4, <3>1
  <2> QED BY <1>1, <1>3, <2>1, <2>7, <2>8 DEF Encode, Joined, ds
<1> QED BY <1>5, <1>6

\* An element added to a join is added to its second part.
LEMMA JoinAppend ==
  ASSUME NEW S, NEW x \in Seq(S), NEW y \in Seq(S), NEW e \in S
  PROVE  x \o Append(y, e) = Append(x \o y, e)
<1> DEFINE one == <<e>>
<1>1. one \in Seq(S) /\ x \o y \in Seq(S)
  OBVIOUS
<1>2. Append(y, e) = y \o one
  BY AppendIsConcat
<1>3. Append(x \o y, e) = (x \o y) \o one
  BY <1>1, AppendIsConcat
<1> HIDE DEF one
<1>4. (x \o y) \o one = x \o (y \o one)
  BY <1>1, ConcatAssociative
<1> QED BY <1>2, <1>3, <1>4

\* Texts joined encode their characters joined.
LEMMA EncodeConcat ==
  ASSUME NEW cs \in Seq(Chars), NEW ds \in Seq(Chars)
  PROVE  Encode(cs \o ds) = Encode(cs) \o Encode(ds)
<1> DEFINE Holds(e) == Encode(cs \o e) = Encode(cs) \o Encode(e)
           P == {m \in Nat : \A e \in Seq(Chars) : Len(e) = m => Holds(e)}
<1>1. 0 \in P
  <2> SUFFICES ASSUME NEW e \in Seq(Chars), Len(e) = 0 PROVE Holds(e)
    OBVIOUS
  <2>1. e = <<>>
    OBVIOUS
  <2>2. cs \o <<>> = cs
    BY ConcatEmptySeq
  <2>3. Encode(e) = <<>> /\ Encode(cs) \in Seq(Byte)
    BY <2>1, EncodeText DEF Text
  <2>4. Encode(cs) \o <<>> = Encode(cs)
    BY <2>3, ConcatEmptySeq
  <2> QED BY <2>1, <2>2, <2>3, <2>4
<1>2. ASSUME NEW m \in P PROVE m + 1 \in P
  <2> SUFFICES ASSUME NEW e \in Seq(Chars), Len(e) = m + 1 PROVE Holds(e)
    OBVIOUS
  <2>1. e # <<>> /\ m \in Nat
    OBVIOUS
  <2>2. PICK b \in Seq(Chars), c \in Chars : e = Append(b, c)
    BY <2>1, SequenceEmptyOrAppend
  <2>3. Len(b) = m
    BY <2>1, <2>2
  <2>4. Encode(cs \o b) = Encode(cs) \o Encode(b)
    BY <2>3
  <2>5. cs \o b \in Seq(Chars)
    OBVIOUS
  <2>6. cs \o Append(b, c) = Append(cs \o b, c)
    BY JoinAppend
  <2>7. Encode(Append(cs \o b, c)) = Encode(cs \o b) \o c
    BY <2>5, EncodeAppend
  <2>8. Encode(Append(b, c)) = Encode(b) \o c
    BY EncodeAppend
  <2>9. (Encode(cs) \o Encode(b)) \o c = Encode(cs) \o (Encode(b) \o c)
    <3>1. Encode(cs) \in Seq(Byte) /\ Encode(b) \in Seq(Byte) /\ c \in Seq(Byte)
      BY EncodeText, CharBytes DEF Text
    <3> QED BY <3>1, ConcatAssociative
  <2> HIDE DEF P
  <2> QED BY Zenon, <2>2, <2>4, <2>6, <2>7, <2>8, <2>9
<1>3. P \subseteq Nat
  OBVIOUS
<1> HIDE DEF P
<1>4. P = Nat
  BY <1>1, <1>2, <1>3, Counting
<1> QED BY <1>4 DEF P

\* A text of one character.
LEMMA EncodeOne ==
  ASSUME NEW c \in Chars
  PROVE  Encode(<<c>>) = c
<1>1. <<>> \in Seq(Chars) /\ Append(<<>>, c) = <<c>>
  OBVIOUS
<1>2. Encode(<<>>) = <<>> /\ c \in Seq(Byte)
  BY <1>1, EncodeText, CharBytes DEF Text
<1>3. Encode(Append(<<>>, c)) = Encode(<<>>) \o c
  BY <1>1, EncodeAppend
<1>4. <<>> \o c = c
  BY <1>2, ConcatEmptySeq
<1> QED BY <1>1, <1>2, <1>3, <1>4

-----------------------------------------------------------------------------
(* Where the characters are.                                               *)

\* The position of character k: what the characters before it take.
Start(cs, k) == Len(Encode(Before(cs, k)))

\* The text as what is before character k and what is from it on.
LEMMA Halves ==
  ASSUME NEW cs \in Seq(Chars), NEW k \in 0 .. Len(cs)
  PROVE  /\ Start(cs, k) \in 0 .. Len(Encode(cs))
         /\ Encode(cs) = Encode(Before(cs, k)) \o Encode(From(cs, k))
         /\ Before(Encode(cs), Start(cs, k)) = Encode(Before(cs, k))
         /\ From(Encode(cs), Start(cs, k)) = Encode(From(cs, k))
<1> DEFINE x == Encode(Before(cs, k))
           y == Encode(From(cs, k))
<1>1. Before(cs, k) \in Seq(Chars) /\ From(cs, k) \in Seq(Chars) /\ cs = Before(cs, k) \o From(cs, k)
  BY Split
<1>2. Encode(Before(cs, k) \o From(cs, k)) = x \o y
  BY <1>1, EncodeConcat
<1>3. x \in Seq(Byte) /\ y \in Seq(Byte)
  BY <1>1, EncodeText DEF Text
<1> HIDE DEF x, y
<1>4. Encode(cs) = x \o y
  BY <1>1, <1>2
<1>5. Len(x \o y) = Len(x) + Len(y) /\ Len(x) \in Nat /\ Len(y) \in Nat
  BY <1>3
<1>6. Before(x \o y, Len(x)) = x /\ From(x \o y, Len(x)) = y
  BY <1>3, Parts
<1> QED BY <1>4, <1>5, <1>6 DEF Start, x, y

\* The character at its position, between what is before and after it.
LEMMA Around ==
  ASSUME NEW cs \in Seq(Chars), NEW k \in 0 .. Len(cs) - 1
  PROVE  /\ cs[k + 1] \in Chars
         /\ Before(cs, k) \in Seq(Chars) /\ From(cs, k + 1) \in Seq(Chars)
         /\ From(cs, k) = <<cs[k + 1]>> \o From(cs, k + 1)
         /\ Encode(From(cs, k)) = cs[k + 1] \o Encode(From(cs, k + 1))
<1> DEFINE c == cs[k + 1]
           r == From(cs, k + 1)
<1>1. k + 1 \in 1 .. Len(cs) /\ k + 1 \in 0 .. Len(cs) /\ Len(cs) \in k + 1 .. Len(cs) /\ Len(cs) \in Nat
      /\ k \in 0 .. Len(cs)
  OBVIOUS
<1>2. c \in Chars
  BY <1>1
<1>3. r \in Seq(Chars) /\ Before(cs, k) \in Seq(Chars)
  BY <1>1, Split
<1>4. SubSeq(cs, k + 1, Len(cs)) = <<cs[k + 1]>> \o SubSeq(cs, k + 1 + 1, Len(cs))
  BY <1>1, SubSeqRecursiveFirst, Zenon
<1>5. From(cs, k) = <<c>> \o r
  BY <1>4 DEF From
<1> DEFINE one == <<c>>
<1> HIDE DEF c, r
<1>6. one \in Seq(Chars) /\ Encode(one) = c
  BY <1>2, EncodeOne
<1> HIDE DEF one
<1>7. Encode(one \o r) = Encode(one) \o Encode(r)
  BY <1>3, <1>6, EncodeConcat
<1> QED BY <1>2, <1>3, <1>5, <1>6, <1>7 DEF one, c, r

\* What is at the position of a character, and where the next one is.
LEMMA NextStart ==
  ASSUME NEW cs \in Seq(Chars), NEW k \in 0 .. Len(cs) - 1
  PROVE  /\ At(Encode(cs), Start(cs, k)) = cs[k + 1][1]
         /\ Width(Encode(cs), Start(cs, k)) = Len(cs[k + 1])
         /\ Start(cs, k + 1) = Start(cs, k) + Len(cs[k + 1])
         /\ Start(cs, k + 1) <= Len(Encode(cs))
         /\ Start(cs, k) < Len(Encode(cs))
         /\ SubSeq(Encode(cs), Start(cs, k) + 1, Start(cs, k + 1)) = cs[k + 1]
<1> DEFINE c == cs[k + 1]
           x == Encode(Before(cs, k))
           y == Encode(From(cs, k + 1))
           t == Encode(cs)
<1>0. k \in 0 .. Len(cs) /\ k + 1 \in 0 .. Len(cs) /\ Len(cs) \in Nat /\ k + 1 \in 1 .. Len(cs)
  OBVIOUS
<1>1. c \in Chars /\ Encode(From(cs, k)) = c \o y /\ Before(cs, k) \in Seq(Chars) /\ From(cs, k + 1) \in Seq(Chars)
  BY Around
<1>2. t = x \o (c \o y)
  BY <1>0, <1>1, Halves
<1>3. x \in Seq(Byte) /\ y \in Seq(Byte) /\ c \in Seq(Byte) /\ Len(c) \in {1, 2}
      /\ Len(c) = IF Is2Byte(c[1]) THEN 2 ELSE 1
  BY <1>1, EncodeText, CharBytes DEF Text
<1>4. Encode(Before(cs, k + 1)) = x \o c
  <2>1. Before(cs, k + 1) = Append(Before(cs, k), c)
    <3>1. SubSeq(cs, 1, k + 1) = Append(SubSeq(cs, 1, k), cs[k + 1])
      BY <1>0
    <3> QED BY <3>1 DEF Before
  <2> HIDE DEF c, x
  <2>2. Encode(Append(Before(cs, k), c)) = Encode(Before(cs, k)) \o c
    BY <1>1, EncodeAppend
  <2> QED BY <2>1, <2>2 DEF x
<1>5. Start(cs, k) = Len(x) /\ Start(cs, k + 1) = Len(x \o c)
  BY <1>4 DEF Start
<1> HIDE DEF c, x, y, t
<1> DEFINE z == c \o y
<1>11. z \in Seq(Byte) /\ Len(z) = Len(c) + Len(y) /\ z[1] = c[1] /\ Before(z, Len(c)) = c
  <2>1. z \in Seq(Byte) /\ Len(z) = Len(c) + Len(y)
    BY <1>3, ConcatProperties
  <2>3. z[1] = c[1]
    <3>1. Len(c) \in Nat /\ 1 <= Len(c) /\ 1 <= Len(c) + Len(y)
      BY <1>3
    <3> QED BY <1>3, <3>1
  <2>2. Before(z, Len(c)) = c
    BY <1>3, Parts
  <2> QED BY <2>1, <2>2, <2>3
<1>12. t = x \o z
  BY <1>2
<1> HIDE DEF z
<1>6. Len(x) \in Nat /\ Len(y) \in Nat /\ Len(x \o c) = Len(x) + Len(c) /\ Len(t) = Len(x) + Len(c) + Len(y)
  <2>1. Len(x) \in Nat /\ Len(y) \in Nat
    BY <1>3
  <2>2. Len(x \o c) = Len(x) + Len(c)
    BY <1>3, ConcatProperties
  <2>3. Len(x \o z) = Len(x) + Len(z)
    BY <1>3, <1>11, ConcatProperties
  <2> QED BY <1>3, <1>12, <1>11, <2>1, <2>2, <2>3
<1>7. t[Len(x) + 1] = c[1]
  BY <1>3, <1>12, <1>11
<1>8. SubSeq(t, Len(x) + 1, Len(x) + Len(c)) = c
  <2>1. SubSeq(x \o z, Len(x) + 1, Len(x) + Len(c))
          = SubSeq(z, Len(x) + 1 - Len(x), Len(x) + Len(c) - Len(x))
    <3>1. /\ Len(x) + 1 \in Len(x) + 1 .. Len(x) + Len(z)
          /\ Len(x) + Len(c) \in Len(x) + 1 .. Len(x) + Len(z)
      BY <1>3, <1>6, <1>11
    <3> QED BY <1>3, <1>11, <3>1, SubSeqOfConcat2
  <2>2. Len(x) + 1 - Len(x) = 1 /\ Len(x) + Len(c) - Len(x) = Len(c)
    BY <1>3, <1>6
  <2> QED BY <1>12, <1>11, <2>1, <2>2 DEF Before
<1>9. At(t, Start(cs, k)) = c[1]
  BY <1>5, <1>7 DEF At
<1>10. Width(t, Start(cs, k)) = Len(c)
  BY <1>3, <1>9 DEF Width
<1> QED BY <1>3, <1>5, <1>6, <1>8, <1>9, <1>10 DEF c, t

\* The first character is at 0, and no character after the last.
LEMMA StartEnds ==
  ASSUME NEW cs \in Seq(Chars)
  PROVE  Start(cs, 0) = 0 /\ Start(cs, Len(cs)) = Len(Encode(cs))
<1>1. Before(cs, 0) = <<>> /\ <<>> \in Seq(Chars) /\ Len(<<>>) = 0
  BY DEF Before
<1>2. Encode(<<>>) = <<>>
  BY <1>1, EncodeText
<1>3. Before(cs, Len(cs)) = cs
  BY SubSeqFull DEF Before
<1> QED BY <1>1, <1>2, <1>3 DEF Start

\* Every character takes a byte at least.
LEMMA StartOrder ==
  ASSUME NEW cs \in Seq(Chars), NEW i \in 0 .. Len(cs), NEW j \in i .. Len(cs)
  PROVE  Start(cs, i) + (j - i) <= Start(cs, j)
<1> DEFINE P == {m \in Nat : i + m <= Len(cs) => Start(cs, i) + m <= Start(cs, i + m)}
<1>0. Len(cs) \in Nat /\ i \in Nat /\ j \in Nat
  OBVIOUS
<1>1. \A k \in 0 .. Len(cs) : Start(cs, k) \in Nat
  <2> SUFFICES ASSUME NEW k \in 0 .. Len(cs) PROVE Start(cs, k) \in Nat
    OBVIOUS
  <2>1. Before(cs, k) \in Seq(Chars)
    BY Split
  <2>2. Encode(Before(cs, k)) \in Seq(Byte)
    BY <2>1, EncodeText DEF Text
  <2> QED BY <2>2 DEF Start
<1>2. 0 \in P
  <2>1. i + 0 = i /\ Start(cs, i) \in Nat
    BY <1>0, <1>1
  <2> QED BY <2>1
<1>3. ASSUME NEW m \in P PROVE m + 1 \in P
  <2> SUFFICES ASSUME i + (m + 1) <= Len(cs) PROVE Start(cs, i) + (m + 1) <= Start(cs, i + (m + 1))
    OBVIOUS
  <2>1. /\ i + m \in 0 .. Len(cs) - 1 /\ i + m + 1 = i + (m + 1) /\ i + m <= Len(cs) /\ m \in Nat
        /\ i + m + 1 \in 1 .. Len(cs) /\ i + m \in 0 .. Len(cs) /\ i + m + 1 \in 0 .. Len(cs)
    BY <1>0
  <2>2. Start(cs, i + m + 1) = Start(cs, i + m) + Len(cs[i + m + 1])
    BY <2>1, NextStart
  <2>3. cs[i + m + 1] \in Chars
    BY <2>1
  <2>4. Len(cs[i + m + 1]) \in Nat /\ 1 <= Len(cs[i + m + 1])
    BY Zenon, <2>3, CharBytes
  <2>5. Start(cs, i) + m <= Start(cs, i + m)
    BY <2>1
  <2>6. Start(cs, i) \in Nat /\ Start(cs, i + m) \in Nat
    BY <1>0, <1>1, <2>1
  <2>7. Start(cs, i) + (m + 1) <= Start(cs, i + m + 1)
    BY <2>1, <2>2, <2>4, <2>5, <2>6
  <2> QED BY <2>1, <2>7
<1>4. P \subseteq Nat
  OBVIOUS
<1> HIDE DEF P
<1>5. P = Nat
  BY <1>2, <1>3, <1>4, Counting
<1>6. j - i \in P /\ i + (j - i) = j /\ j <= Len(cs)
  BY <1>0, <1>5
<1> QED BY <1>6 DEF P

\* One step of a scan for characters.
StepFrom(t, p) ==
  IF p \notin 0 .. Len(t) - 1 THEN p
  ELSE IF Is2Byte(At(t, p)) /\ p + 1 = Len(t) THEN NoChar
  ELSE p + Width(t, p)

\* A scan that is at a character goes to the next, and at the end it stays.
LEMMA ScanSteps ==
  ASSUME NEW cs \in Seq(Chars)
  PROVE  /\ \A k \in 0 .. Len(cs) - 1 : StepFrom(Encode(cs), Start(cs, k)) = Start(cs, k + 1)
         /\ StepFrom(Encode(cs), Start(cs, Len(cs))) = Start(cs, Len(cs))
<1> DEFINE t == Encode(cs)
<1>0. t \in Seq(Byte) /\ Len(cs) \in Nat
  BY EncodeText DEF Text
<1>1. ASSUME NEW k \in 0 .. Len(cs) - 1 PROVE StepFrom(t, Start(cs, k)) = Start(cs, k + 1)
  <2> DEFINE p == Start(cs, k)
             q == Start(cs, k + 1)
             c == cs[k + 1]
  <2>1. /\ At(t, p) = c[1] /\ Width(t, p) = Len(c) /\ q = p + Len(c)
        /\ q <= Len(t) /\ p < Len(t)
    BY NextStart
  <2>2. p \in 0 .. Len(t)
    <3>1. k \in 0 .. Len(cs)
      BY <1>0
    <3> QED BY <3>1, Halves
  <2>3. c \in Chars
    BY Around
  <2>4. Len(c) \in {1, 2} /\ (Is2Byte(c[1]) => Len(c) = 2)
    BY <2>3, CharBytes
  <2> HIDE DEF p, q, c
  <2> HIDE DEF t
  <2>5. p \in 0 .. Len(t) - 1 /\ ~ (Is2Byte(At(t, p)) /\ p + 1 = Len(t))
    <3>1. Len(t) \in Nat /\ p \in Nat
      BY <1>0, <2>2
    <3>2. p \in 0 .. Len(t) - 1
      BY <2>1, <3>1
    <3>3. ASSUME Is2Byte(c[1]) PROVE p + 1 # Len(t)
      <4>1. Len(c) = 2 /\ p + Len(c) <= Len(t)
        BY <2>1, <2>4, <3>3
      <4> QED BY <3>1, <4>1
    <3>4. At(t, p) = c[1]
      BY <2>1
    <3> QED BY <3>2, <3>3, <3>4
  <2> QED BY <2>1, <2>5 DEF StepFrom, p, q
<1>2. StepFrom(t, Start(cs, Len(cs))) = Start(cs, Len(cs))
  <2>1. Start(cs, Len(cs)) = Len(t) /\ Len(t) \in Nat
    BY <1>0, StartEnds
  <2> HIDE DEF t
  <2>2. Len(t) \notin 0 .. Len(t) - 1
    BY <2>1
  <2> QED BY <2>1, <2>2 DEF StepFrom
<1> QED BY <1>1, <1>2

\* sjis_index finds the characters, and nothing else.
LEMMA IndexIs ==
  ASSUME NEW cs \in Seq(Chars), NEW k \in Int
  PROVE  SjisIndex(Encode(cs), k) =
           IF FirstIfNegative(k) < Len(cs) THEN Start(cs, FirstIfNegative(k)) ELSE NoChar
<1> DEFINE t == Encode(cs)
           n == FirstIfNegative(k)
           N == Len(cs)
           W == [c \in 0 .. n |-> Start(cs, IF c <= N THEN c ELSE N)]
           Rule(f) == f = [c \in 0 .. n |-> IF c = 0 THEN 0 ELSE StepFrom(t, f[c - 1])]
<1>0. n \in Nat /\ N \in Nat
  BY DEF FirstIfNegative
<1>1. ASSUME NEW c \in 0 .. n PROVE W[c] = IF c = 0 THEN 0 ELSE StepFrom(t, W[c - 1])
  <2>1. CASE c = 0
    <3>1. W[c] = Start(cs, 0)
      BY <1>0, <2>1
    <3> QED BY <2>1, <3>1, StartEnds
  <2>2. CASE c # 0 /\ c <= N
    <3>1. c - 1 \in 0 .. n /\ c - 1 \in 0 .. N - 1 /\ c - 1 + 1 = c /\ c - 1 <= N
      BY <1>0, <2>2
    <3>2. W[c] = Start(cs, c) /\ W[c - 1] = Start(cs, c - 1)
      BY <2>2, <3>1
    <3>3. StepFrom(t, Start(cs, c - 1)) = Start(cs, c - 1 + 1)
      BY <3>1, ScanSteps
    <3> QED BY <2>2, <3>1, <3>2, <3>3
  <2>3. CASE c # 0 /\ ~ (c <= N)
    <3>1. c - 1 \in 0 .. n /\ (c - 1 <= N => c - 1 = N)
      BY <1>0, <2>3
    <3>2. W[c] = Start(cs, N) /\ W[c - 1] = Start(cs, N)
      BY <2>3, <3>1
    <3> QED BY <2>3, <3>2, ScanSteps
  <2> QED BY <2>1, <2>2, <2>3
<1>2. Rule(W)
  <2>1. W = [c \in 0 .. n |-> W[c]]
    OBVIOUS
  <2> HIDE DEF W
  <2> QED BY <1>1, <2>1
<1> HIDE DEF W
<1> DEFINE F == CHOOSE f : Rule(f)
<1>3. Rule(F)
  <2> HIDE DEF Rule
  <2> QED BY <1>2
<1>4. SjisIndex(t, k) = IF F[n] \in 0 .. Len(t) - 1 THEN F[n] ELSE NoChar
  BY Zenon DEF SjisIndex, StepFrom, FirstIfNegative
<1> HIDE DEF F
<1>5. F[n] = W[n]
  <2> DEFINE P == {m \in Nat : m <= n => F[m] = W[m]}
  <2>1. ASSUME NEW c \in 0 .. n PROVE F[c] = IF c = 0 THEN 0 ELSE StepFrom(t, F[c - 1])
    BY <1>3
  <2>2. 0 \in P
    <3>1. 0 \in 0 .. n
      BY <1>0
    <3> QED BY <1>1, <2>1, <3>1
  <2>3. ASSUME NEW m \in P PROVE m + 1 \in P
    <3> SUFFICES ASSUME m + 1 <= n PROVE F[m + 1] = W[m + 1]
      OBVIOUS
    <3>1. m + 1 \in 0 .. n /\ m + 1 # 0 /\ m + 1 - 1 = m /\ m <= n
      BY <1>0
    <3>2. F[m] = W[m]
      BY <3>1
    <3>3. F[m + 1] = StepFrom(t, F[m + 1 - 1]) /\ W[m + 1] = StepFrom(t, W[m + 1 - 1])
      BY <1>1, <2>1, <3>1
    <3> QED BY <3>1, <3>2, <3>3
  <2>4. P \subseteq Nat
    OBVIOUS
  <2> HIDE DEF P
  <2>5. P = Nat
    BY <2>2, <2>3, <2>4, Counting
  <2>6. n \in P /\ n <= n
    BY <1>0, <2>5
  <2> QED BY <2>6 DEF P
<1>6. W[n] = Start(cs, IF n <= N THEN n ELSE N)
  <2>1. n \in 0 .. n
    BY <1>0
  <2> QED BY <2>1 DEF W
<1>7. CASE n < N
  <2>1. n \in 0 .. Len(cs) - 1 /\ n \in 0 .. Len(cs) /\ n <= N
    BY <1>0, <1>7
  <2>2. Start(cs, n) < Len(t) /\ Start(cs, n) \in 0 .. Len(t)
    BY <2>1, NextStart, Halves
  <2>3. Start(cs, n) \in 0 .. Len(t) - 1
    <3>1. Len(t) \in Nat
      BY EncodeText DEF Text
    <3> QED BY <2>2, <3>1
  <2> QED BY <1>4, <1>5, <1>6, <1>7, <2>1, <2>3
<1>8. CASE ~ (n < N)
  <2>1. W[n] = Len(t)
    <3>1. n <= N => n = N
      BY <1>0, <1>8
    <3> QED BY <1>6, <3>1, StartEnds
  <2>2. Len(t) \notin 0 .. Len(t) - 1
    <3>1. Len(t) \in Nat
      BY EncodeText DEF Text
    <3> QED BY <3>1
  <2> QED BY <1>4, <1>5, <1>8, <2>1, <2>2
<1> QED BY <1>7, <1>8

-----------------------------------------------------------------------------
(* The mutators.                                                           *)

\* A text breaks where its characters start, and nowhere else.
LEMMA StartsAre ==
  ASSUME NEW cs \in Seq(Chars), NEW p
  PROVE  p \in CharStarts(Encode(cs)) <=> \E k \in 0 .. Len(cs) - 1 : p = Start(cs, k)
<1> DEFINE t == Encode(cs)
<1>0. Len(cs) \in Nat /\ Len(t) \in Nat
  BY EncodeText DEF Text
<1>1. Len(cs) <= Len(t)
  <2>1. 0 \in 0 .. Len(cs) /\ Len(cs) \in 0 .. Len(cs)
    BY <1>0
  <2>2. Start(cs, 0) + (Len(cs) - 0) <= Start(cs, Len(cs))
    BY <2>1, StartOrder
  <2> QED BY <1>0, <2>2, StartEnds
<1>2. ASSUME NEW k \in Nat PROVE SjisIndex(t, k) = IF k < Len(cs) THEN Start(cs, k) ELSE NoChar
  <2>1. FirstIfNegative(k) = k /\ k \in Int
    BY DEF FirstIfNegative
  <2> QED BY <2>1, IndexIs
<1>3. ASSUME NEW k \in 0 .. Len(cs) - 1 PROVE Start(cs, k) # NoChar /\ k \in 0 .. Len(t) - 1
  <2>1. k \in 0 .. Len(cs)
    BY <1>0
  <2>2. Start(cs, k) \in 0 .. Len(t)
    BY <2>1, Halves
  <2> QED BY <1>0, <1>1, <2>2 DEF NoChar
<1> HIDE DEF t
<1>4. ASSUME p \in CharStarts(t) PROVE \E k \in 0 .. Len(cs) - 1 : p = Start(cs, k)
  <2>1. PICK k \in 0 .. Len(t) - 1 : p = SjisIndex(t, k)
    BY <1>4 DEF CharStarts
  <2>2. p # NoChar
    BY <1>4 DEF CharStarts
  <2>3. k \in Nat
    BY <1>0
  <2>4. k < Len(cs) /\ p = Start(cs, k)
    BY <1>2, <2>1, <2>2, <2>3
  <2>5. k \in 0 .. Len(cs) - 1
    BY <1>0, <2>3, <2>4
  <2> QED BY <2>4, <2>5
<1>5. ASSUME NEW k \in 0 .. Len(cs) - 1, p = Start(cs, k) PROVE p \in CharStarts(t)
  <2>1. k \in Nat /\ k < Len(cs)
    BY <1>0
  <2>2. SjisIndex(t, k) = p
    BY <1>2, <1>5, <2>1
  <2> QED BY <1>3, <1>5, <2>2 DEF CharStarts
<1> QED BY <1>4, <1>5 DEF t

\* string_pop_back takes the last character.
LEMMA PopBackIs ==
  ASSUME NEW cs \in Seq(Chars)
  PROVE  PopBack(Encode(cs)) = Encode(IF cs = <<>> THEN <<>> ELSE Front(cs))
<1> DEFINE t == Encode(cs)
<1>1. CASE cs = <<>>
  <2>1. t = <<>>
    BY <1>1, EncodeText
  <2>2. LastStart(t) = 0
    <3>1. CharStarts(t) = {}
      <4>1. Len(t) = 0 /\ 0 .. 0 - 1 = {}
        BY <2>1
      <4> QED BY <4>1 DEF CharStarts
    <3> QED BY <3>1 DEF LastStart, LastStarts
  <2>3. Before(<<>>, 0) = <<>>
    BY DEF Before
  <2> QED BY <1>1, <2>1, <2>2, <2>3 DEF PopBack
<1>2. CASE cs # <<>>
  <2> DEFINE l == Len(cs) - 1
  <2>1. Len(cs) \in Nat /\ l \in 0 .. Len(cs) - 1 /\ l \in 0 .. Len(cs)
    BY <1>2
  <2>2. ASSUME NEW k \in 0 .. Len(cs) - 1
        PROVE  Start(cs, k) <= Start(cs, l) /\ (Start(cs, l) <= Start(cs, k) => k = l)
    <3>1. k \in 0 .. Len(cs) /\ l \in k .. Len(cs)
      BY <2>1
    <3>2. Start(cs, k) + (l - k) <= Start(cs, l)
      BY <3>1, StartOrder
    <3>3. Start(cs, k) \in 0 .. Len(t) /\ Start(cs, l) \in 0 .. Len(t)
      BY <2>1, <3>1, Halves
    <3>4. Start(cs, k) \in Int /\ Start(cs, l) \in Int
      BY <3>3
    <3> QED BY <2>1, <3>1, <3>2, <3>4
  <2>3. Start(cs, l) \in LastStarts(t)
    BY <2>1, <2>2, StartsAre DEF LastStarts
  <2>4. ASSUME NEW p \in LastStarts(t) PROVE p = Start(cs, l)
    <3>1. PICK k \in 0 .. Len(cs) - 1 : p = Start(cs, k)
      BY StartsAre DEF LastStarts
    <3>2. Start(cs, l) <= p
      BY <2>3 DEF LastStarts
    <3> QED BY <2>2, <3>1, <3>2
  <2> HIDE DEF l, t
  <2>5. LastStart(t) = Start(cs, l)
    BY <2>3, <2>4 DEF LastStart
  <2>6. Before(t, Start(cs, l)) = Encode(Before(cs, l))
    BY <2>1, Halves DEF t
  <2>7. Front(cs) = Before(cs, l)
    BY DEF Front, Before, l
  <2> QED BY <1>2, <2>5, <2>6, <2>7 DEF PopBack, t
<1> QED BY <1>1, <1>2

\* The position of a character that string_erase and string_set_char find.
LEMMA FoundAt ==
  ASSUME NEW cs \in Seq(Chars), NEW k \in Int
  PROVE  LET n == FirstIfNegative(k)
             p == SjisIndex(Encode(cs), k) IN
         /\ p \in 0 .. Len(Encode(cs)) - 1 <=> n < Len(cs)
         /\ n < Len(cs) => n \in 0 .. Len(cs) - 1 /\ n \in 0 .. Len(cs) /\ p = Start(cs, n)
<1> DEFINE n == FirstIfNegative(k)
           p == SjisIndex(Encode(cs), k)
<1>0. n \in Nat /\ Len(cs) \in Nat /\ Len(Encode(cs)) \in Nat
  BY EncodeText DEF FirstIfNegative, Text
<1>1. p = IF n < Len(cs) THEN Start(cs, n) ELSE NoChar
  BY IndexIs
<1>2. CASE n < Len(cs)
  <2>1. n \in 0 .. Len(cs) - 1 /\ n \in 0 .. Len(cs)
    BY <1>0, <1>2
  <2>2. Start(cs, n) \in 0 .. Len(Encode(cs)) /\ Start(cs, n) < Len(Encode(cs))
    BY <2>1, Halves, NextStart
  <2>3. Start(cs, n) \in 0 .. Len(Encode(cs)) - 1
    BY <1>0, <2>2
  <2> QED BY <1>1, <1>2, <2>1, <2>3
<1>3. CASE ~ (n < Len(cs))
  BY <1>1, <1>3 DEF NoChar
<1> QED BY <1>2, <1>3

\* What stands before and after a character that is replaced by others.
LEMMA Replaced ==
  ASSUME NEW cs \in Seq(Chars), NEW n \in 0 .. Len(cs) - 1, NEW ds \in Seq(Chars)
  PROVE  LET t == Encode(cs)
             p == Start(cs, n) IN
         Before(t, p) \o Encode(ds) \o From(t, p + Width(t, p))
           = Encode(Before(cs, n) \o ds \o From(cs, n + 1))
<1> DEFINE x == Encode(Before(cs, n))
           y == Encode(From(cs, n + 1))
           t == Encode(cs)
           p == Start(cs, n)
<1>0. n \in 0 .. Len(cs) /\ n + 1 \in 0 .. Len(cs)
  OBVIOUS
<1>1. Before(t, p) = x
  BY <1>0, Halves
<1>2. From(t, p + Width(t, p)) = y
  <2>1. p + Width(t, p) = Start(cs, n + 1)
    BY NextStart
  <2>2. From(t, Start(cs, n + 1)) = y
    BY <1>0, Halves
  <2> QED BY <2>1, <2>2
<1>3. Before(cs, n) \in Seq(Chars) /\ From(cs, n + 1) \in Seq(Chars)
  BY <1>0, Split
<1>4. Before(cs, n) \o ds \in Seq(Chars)
  BY <1>3, ConcatProperties
<1>5. Encode(Before(cs, n) \o ds \o From(cs, n + 1)) = Encode(Before(cs, n) \o ds) \o y
  BY <1>3, <1>4, EncodeConcat
<1>6. Encode(Before(cs, n) \o ds) = x \o Encode(ds)
  BY <1>3, EncodeConcat
<1> HIDE DEF x, y, t, p
<1> QED BY <1>1, <1>2, <1>5, <1>6 DEF t, p

\* string_erase removes a character.
LEMMA EraseIs ==
  ASSUME NEW cs \in Seq(Chars), NEW k \in Int
  PROVE  LET n == FirstIfNegative(k)
             r == IF n < Len(cs) THEN RemoveAt(cs, n + 1) ELSE cs IN
         /\ r \in Seq(Chars)
         /\ Erase(Encode(cs), k) = Encode(r)
<1> DEFINE n == FirstIfNegative(k)
           t == Encode(cs)
           p == SjisIndex(t, k)
<1>1. CASE ~ (n < Len(cs))
  <2>1. ~ (p \in 0 .. Len(t) - 1)
    BY <1>1, FoundAt
  <2> QED BY <1>1, <2>1 DEF Erase
<1>2. CASE n < Len(cs)
  <2>1. p \in 0 .. Len(t) - 1 /\ n \in 0 .. Len(cs) - 1 /\ n \in 0 .. Len(cs) /\ p = Start(cs, n)
    BY <1>2, FoundAt
  <2>2. n + 1 \in 0 .. Len(cs) /\ (n + 1) - 1 = n
    BY <2>1
  <2>3. RemoveAt(cs, n + 1) = Before(cs, n) \o From(cs, n + 1)
    <3>1. RemoveAt(cs, n + 1) = SubSeq(cs, 1, (n + 1) - 1) \o SubSeq(cs, (n + 1) + 1, Len(cs))
      BY Zenon DEF RemoveAt
    <3> QED BY Zenon, <2>2, <3>1 DEF Before, From
  <2>4. Before(cs, n) \in Seq(Chars) /\ From(cs, n + 1) \in Seq(Chars)
    BY <2>1, <2>2, Split
  <2>5. Encode(Before(cs, n) \o From(cs, n + 1)) = Encode(Before(cs, n)) \o Encode(From(cs, n + 1))
    BY <2>4, EncodeConcat
  <2>6. Before(t, p) = Encode(Before(cs, n))
    BY <2>1, Halves
  <2>7. From(t, p + Width(t, p)) = Encode(From(cs, n + 1))
    <3>1. p + Width(t, p) = Start(cs, n + 1)
      BY <2>1, NextStart
    <3>2. From(t, Start(cs, n + 1)) = Encode(From(cs, n + 1))
      BY <2>2, Halves
    <3> QED BY <3>1, <3>2
  <2>8. Before(cs, n) \o From(cs, n + 1) \in Seq(Chars)
    BY <2>4, ConcatProperties
  <2>9. Erase(t, k) = Before(t, p) \o From(t, p + Width(t, p))
    BY <2>1 DEF Erase
  <2> HIDE DEF n, t, p
  <2> QED BY <1>2, <2>3, <2>5, <2>6, <2>7, <2>8, <2>9 DEF n, t
<1> QED BY <1>1, <1>2

\* The characters before and after one that is replaced.
LEMMA ExceptIs ==
  ASSUME NEW cs \in Seq(Chars), NEW n \in 0 .. Len(cs) - 1, NEW c \in Chars
  PROVE  /\ [cs EXCEPT ![n + 1] = c] \in Seq(Chars)
         /\ [cs EXCEPT ![n + 1] = c] = Before(cs, n) \o <<c>> \o From(cs, n + 1)
<1> DEFINE r == [cs EXCEPT ![n + 1] = c]
           x == Before(cs, n)
           y == From(cs, n + 1)
           one == <<c>>
<1>0. n \in Nat /\ Len(cs) \in Nat /\ n \in 0 .. Len(cs) /\ n + 1 \in 0 .. Len(cs) /\ n + 1 \in 1 .. Len(cs)
  OBVIOUS
<1>1. r \in Seq(Chars) /\ Len(r) = Len(cs) /\ \A j \in 1 .. Len(cs) : r[j] = IF j = n + 1 THEN c ELSE cs[j]
  BY <1>0, ExceptSeq
<1>2. /\ x \in Seq(Chars) /\ Len(x) = n
      /\ y \in Seq(Chars) /\ Len(y) = Len(cs) - (n + 1)
  BY <1>0, Split
<1>3. /\ \A j \in 1 .. n : x[j] = cs[j]
      /\ \A j \in 1 .. Len(cs) - (n + 1) : y[j] = cs[n + 1 + j]
  BY <1>0 DEF Before, From
<1>4. one \in Seq(Chars) /\ Len(one) = 1 /\ one[1] = c
  OBVIOUS
<1> HIDE DEF r, x, y, one
<1> DEFINE a == x \o one
<1>5. a \in Seq(Chars) /\ Len(a) = n + 1 /\ \A j \in 1 .. n + 1 : a[j] = IF j <= n THEN x[j] ELSE one[j - n]
  <2>1. /\ x \o one \in Seq(Chars) /\ Len(x \o one) = Len(x) + Len(one)
        /\ \A j \in 1 .. Len(x) + Len(one) : (x \o one)[j] = IF j <= Len(x) THEN x[j] ELSE one[j - Len(x)]
    BY <1>2, <1>4, ConcatProperties
  <2> QED BY <1>2, <1>4, <2>1
<1> HIDE DEF a
<1>6. Len(a) = n + 1 /\ Len(a) + Len(y) = Len(cs)
  BY <1>0, <1>2, <1>5
<1>7. /\ a \o y \in Seq(Chars) /\ Len(a \o y) = Len(cs)
      /\ \A j \in 1 .. Len(cs) : (a \o y)[j] = IF j <= n + 1 THEN a[j] ELSE y[j - (n + 1)]
  <2>1. /\ a \o y \in Seq(Chars) /\ Len(a \o y) = Len(a) + Len(y)
        /\ \A j \in 1 .. Len(a) + Len(y) : (a \o y)[j] = IF j <= Len(a) THEN a[j] ELSE y[j - Len(a)]
    BY <1>2, <1>5, ConcatProperties
  <2> QED BY <1>6, <2>1
<1>8. ASSUME NEW j \in 1 .. Len(cs) PROVE (a \o y)[j] = r[j]
  <2>0. j \in Nat
    BY <1>0
  <2>1. CASE j <= n
    <3>1. j \in 1 .. n /\ j \in 1 .. n + 1 /\ j # n + 1 /\ j <= n + 1
      BY <1>0, <2>1
    <3> QED BY <1>1, <1>3, <1>5, <1>7, <2>0, <2>1, <3>1
  <2>2. CASE j = n + 1
    <3>1. j \in 1 .. n + 1 /\ ~ (j <= n) /\ j - n = 1 /\ j <= n + 1
      BY <1>0, <2>2
    <3> QED BY <1>1, <1>4, <1>5, <1>7, <2>0, <2>2, <3>1
  <2>3. CASE j > n + 1
    <3>1. ~ (j <= n + 1) /\ j # n + 1 /\ j - (n + 1) \in 1 .. Len(cs) - (n + 1) /\ n + 1 + (j - (n + 1)) = j
      BY <1>0, <2>3
    <3> QED BY <1>1, <1>3, <1>7, <2>0, <3>1
  <2>4. j <= n \/ j = n + 1 \/ j > n + 1
    BY <1>0, <2>0
  <2> QED BY <2>1, <2>2, <2>3, <2>4
<1>9. r = a \o y
  BY <1>1, <1>7, <1>8, SeqEqual
<1> QED BY <1>1, <1>9 DEF r, x, y, one, a

\* string_set_char replaces a character, or cuts the text there.
LEMMA SetCharIs ==
  ASSUME NEW cs \in Seq(Chars), NEW k \in Nat, NEW c \in Chars \cup {<<>>}
  PROVE  LET r == IF k >= Len(cs) THEN cs
                  ELSE IF c = <<>> THEN SubSeq(cs, 1, k)
                  ELSE [cs EXCEPT ![k + 1] = c] IN
         /\ r \in Seq(Chars)
         /\ SetChar(Encode(cs), k, c) = Encode(r)
<1> DEFINE t == Encode(cs)
           p == SjisIndex(t, k)
<1>0. FirstIfNegative(k) = k /\ k \in Int /\ Len(cs) \in Nat
  BY DEF FirstIfNegative
<1>1. CASE k >= Len(cs)
  <2>1. ~ (k < Len(cs))
    BY <1>0, <1>1
  <2>2. ~ (p \in 0 .. Len(t) - 1)
    BY <1>0, <2>1, FoundAt
  <2> QED BY <1>1, <2>2 DEF SetChar
<1>2. CASE ~ (k >= Len(cs))
  <2>0. k < Len(cs)
    BY <1>0, <1>2
  <2>1. p \in 0 .. Len(t) - 1 /\ k \in 0 .. Len(cs) - 1 /\ k \in 0 .. Len(cs) /\ p = Start(cs, k)
    BY <1>0, <2>0, FoundAt
  <2>2. SetChar(t, k, c) = SetCharAt(t, p, c)
    BY <2>1 DEF SetChar
  <2>3. CASE c = <<>>
    <3>1. SetCharAt(t, p, c) = Before(t, p)
      BY <2>3 DEF SetCharAt
    <3>2. Before(t, p) = Encode(Before(cs, k))
      BY <2>1, Halves
    <3>3. Before(cs, k) \in Seq(Chars)
      BY <2>1, Split
    <3> HIDE DEF t, p
    <3> QED BY <1>2, <2>2, <2>3, <3>1, <3>2, <3>3 DEF Before, t
  <2>4. CASE c # <<>>
    <3>1. c \in Chars
      BY <2>4
    <3>2. SetCharAt(t, p, c) = Before(t, p) \o c \o From(t, p + Width(t, p))
      BY <2>4 DEF SetCharAt
    <3> DEFINE one == <<c>>
               r == [cs EXCEPT ![k + 1] = c]
    <3>3. one \in Seq(Chars) /\ Encode(one) = c
      BY <3>1, EncodeOne
    <3>4. r \in Seq(Chars) /\ r = Before(cs, k) \o one \o From(cs, k + 1)
      BY <2>1, <3>1, ExceptIs
    <3> HIDE DEF one
    <3>5. Before(t, p) \o Encode(one) \o From(t, p + Width(t, p))
            = Encode(Before(cs, k) \o one \o From(cs, k + 1))
      BY <2>1, <3>3, Replaced
    <3> HIDE DEF t, p, r
    <3> QED BY <1>2, <2>2, <2>4, <3>2, <3>3, <3>4, <3>5 DEF t, r
  <2> QED BY <2>3, <2>4
<1> QED BY <1>1, <1>2

\* The characters are of the alphabet, and the bytes are their encoding.
Encoded == chars \in Seq(Chars) /\ TextEncodesChars

LEMMA InitEncoded == Init => Encoded
<1>1. <<>> \in Seq(Chars)
  OBVIOUS
<1>2. Encode(<<>>) = <<>>
  BY <1>1, EncodeText
<1> QED BY <1>1, <1>2 DEF Init, Encoded, TextEncodesChars

LEMMA NextEncoded == Encoded /\ [Next]_vars => Encoded'
<1> SUFFICES ASSUME Encoded, [Next]_vars PROVE Encoded'
  OBVIOUS
<1>0. chars \in Seq(Chars) /\ text = Encode(chars) /\ Len(chars) \in Nat
  BY DEF Encoded, TextEncodesChars
<1>1. ASSUME NEW c \in Chars, DoPushBack(c) PROVE Encoded'
  <2>1. Append(chars, c) \in Seq(Chars)
    BY <1>0
  <2>2. Encode(Append(chars, c)) = Encode(chars) \o c
    BY <1>0, EncodeAppend
  <2> QED BY <1>0, <1>1, <2>1, <2>2 DEF DoPushBack, AppendText, Encoded, TextEncodesChars
<1>2. ASSUME DoAppendSelf PROVE Encoded'
  <2>1. chars \o chars \in Seq(Chars)
    BY <1>0
  <2>2. Encode(chars \o chars) = Encode(chars) \o Encode(chars)
    BY <1>0, EncodeConcat
  <2> QED BY <1>0, <1>2, <2>1, <2>2 DEF DoAppendSelf, AppendText, Encoded, TextEncodesChars
<1>3. ASSUME DoPopBack PROVE Encoded'
  <2>1. PopBack(Encode(chars)) = Encode(IF chars = <<>> THEN <<>> ELSE Front(chars))
    BY <1>0, PopBackIs
  <2>2. (IF chars = <<>> THEN <<>> ELSE Front(chars)) \in Seq(Chars)
    BY <1>0 DEF Front
  <2> QED BY <1>0, <1>3, <2>1, <2>2 DEF DoPopBack, Encoded, TextEncodesChars
<1>4. ASSUME NEW k \in Indices, DoErase(k) PROVE Encoded'
  <2> DEFINE n == FirstIfNegative(k)
             r == IF n < Len(chars) THEN RemoveAt(chars, n + 1) ELSE chars
  <2>1. k \in Int
    BY DEF Indices
  <2>2. r \in Seq(Chars) /\ Erase(Encode(chars), k) = Encode(r)
    BY <1>0, <2>1, EraseIs
  <2>3. chars' = r /\ text' = Erase(text, k)
    BY <1>4 DEF DoErase
  <2> HIDE DEF r
  <2> QED BY <1>0, <2>2, <2>3 DEF Encoded, TextEncodesChars
<1>5. ASSUME NEW k \in Indices, NEW c \in Chars \cup {<<>>}, DoSetChar(k, c) PROVE Encoded'
  <2> DEFINE r == IF k >= Len(chars) THEN chars
                  ELSE IF c = <<>> THEN SubSeq(chars, 1, k)
                  ELSE [chars EXCEPT ![k + 1] = c]
  <2>1. k \in Nat
    BY <1>5 DEF Indices, DoSetChar
  <2>2. r \in Seq(Chars) /\ SetChar(Encode(chars), k, c) = Encode(r)
    BY <1>0, <2>1, SetCharIs
  <2>3. chars' = r /\ text' = SetChar(text, k, c)
    BY <1>5 DEF DoSetChar
  <2> HIDE DEF r
  <2> QED BY <1>0, <2>2, <2>3 DEF Encoded, TextEncodesChars
<1>6. CASE UNCHANGED vars
  BY <1>6 DEF vars, Encoded, TextEncodesChars
<1> QED BY <1>1, <1>2, <1>3, <1>4, <1>5, <1>6 DEF Next

(* The bytes of a string are the encoding of its characters, whatever      *)
(* characters string_push_back, string_set_char and the others are given.  *)
THEOREM TextIsEncoding == Spec => []TextEncodesChars
<1>1. Spec => []Encoded
  BY InitEncoded, NextEncoded, PTL DEF Spec
<1>2. Encoded => TextEncodesChars
  BY DEF Encoded
<1> QED BY <1>1, <1>2, PTL

-----------------------------------------------------------------------------
(* The queries.                                                            *)

\* The counts of the characters from each position on.
CountsOf(t, f) ==
  f = [p \in 0 .. Len(t) + 1 |-> IF p >= Len(t) THEN 0 ELSE 1 + f[p + Width(t, p)]]

\* There are such counts.
LEMMA CountsExist ==
  ASSUME NEW t \in Text
  PROVE  \E f : CountsOf(t, f)
<1> DEFINE L == Len(t)
           At0(f, p) == f[p] = IF p >= L THEN 0 ELSE 1 + f[p + Width(t, p)]
           J(m, f) == /\ f = [p \in 0 .. L + 1 |-> f[p]]
                      /\ \A p \in 0 .. L + 1 : p + m >= L => At0(f, p)
           P == {m \in Nat : \E f : J(m, f)}
<1>0. L \in Nat /\ \A p : Width(t, p) \in {1, 2}
  BY DEF Text, Width
<1>1. 0 \in P
  <2> DEFINE f == [p \in 0 .. L + 1 |-> 0]
  <2>1. J(0, f)
    BY <1>0
  <2> HIDE DEF J
  <2> QED BY <2>1
<1>2. ASSUME NEW m \in P PROVE m + 1 \in P
  <2>1. PICK f : J(m, f)
    <3> HIDE DEF J
    <3> QED OBVIOUS
  <2> DEFINE g == [p \in 0 .. L + 1 |-> IF p + (m + 1) = L THEN 1 + f[p + Width(t, p)] ELSE f[p]]
  <2>2. g = [p \in 0 .. L + 1 |-> g[p]]
    OBVIOUS
  <2>3. ASSUME NEW p \in 0 .. L + 1, p + (m + 1) >= L PROVE At0(g, p)
    <3> DEFINE w == Width(t, p)
    <3>0. w \in {1, 2} /\ p \in Nat /\ m \in Nat
      BY <1>0
    <3> HIDE DEF w
    <3>1. CASE p + (m + 1) = L
      <4>1. p + w \in 0 .. L + 1 /\ p + w + (m + 1) # L /\ ~ (p >= L)
        BY <1>0, <3>0, <3>1
      <4>2. g[p + w] = f[p + w]
        BY <4>1
      <4>3. g[p] = 1 + f[p + w]
        BY <3>1 DEF w
      <4> QED BY <4>1, <4>2, <4>3 DEF w
    <3>2. CASE p + (m + 1) # L
      <4>1. p + m >= L
        BY <1>0, <2>3, <3>0, <3>2
      <4>2. g[p] = f[p]
        BY <3>2
      <4>3. f[p] = IF p >= L THEN 0 ELSE 1 + f[p + w]
        BY <2>1, <4>1 DEF w
      <4>4. CASE p >= L
        BY <4>2, <4>3, <4>4
      <4>5. CASE ~ (p >= L)
        <5>1. p + w \in 0 .. L + 1 /\ p + w + (m + 1) # L
          BY <1>0, <3>0, <4>1, <4>5
        <5>2. g[p + w] = f[p + w]
          BY <5>1
        <5> QED BY <4>2, <4>3, <4>5, <5>2 DEF w
      <4> QED BY <4>4, <4>5
    <3> QED BY <3>1, <3>2
  <2> HIDE DEF g
  <2>4. J(m + 1, g)
    <3> HIDE DEF At0
    <3> QED BY <2>2, <2>3
  <2> HIDE DEF J
  <2>5. m + 1 \in Nat
    OBVIOUS
  <2> QED BY <2>4, <2>5
<1>3. P \subseteq Nat
  OBVIOUS
<1> HIDE DEF P
<1>4. P = Nat
  BY <1>1, <1>2, <1>3, Counting
<1>5. PICK f : J(L, f)
  <2> HIDE DEF J
  <2> QED BY <1>0, <1>4 DEF P
<1>6. ASSUME NEW p \in 0 .. L + 1 PROVE At0(f, p)
  <2>1. p + L >= L
    BY <1>0
  <2> QED BY <1>5, <2>1
<1>7. f = [p \in 0 .. L + 1 |-> IF p >= L THEN 0 ELSE 1 + f[p + Width(t, p)]]
  <2>1. f = [p \in 0 .. L + 1 |-> f[p]]
    BY <1>5
  <2> QED BY <1>6, <2>1
<1> QED BY <1>7 DEF CountsOf

\* sjis_count_char counts the characters.
LEMMA CountIs ==
  ASSUME NEW cs \in Seq(Chars)
  PROVE  CountChar(Encode(cs)) = Len(cs)
<1> DEFINE t == Encode(cs)
           N == Len(cs)
           F == CHOOSE f : CountsOf(t, f)
<1>0. t \in Text /\ N \in Nat /\ Len(t) \in Nat
  BY EncodeText DEF Text
<1>1. CountsOf(t, F)
  BY <1>0, CountsExist
<1>2. CountChar(t) = F[0]
  BY Zenon DEF CountChar, CountsOf
<1> HIDE DEF F
<1>3. ASSUME NEW p \in 0 .. Len(t) + 1 PROVE F[p] = IF p >= Len(t) THEN 0 ELSE 1 + F[p + Width(t, p)]
  BY <1>1 DEF CountsOf
<1> DEFINE P == {m \in Nat : m <= N => F[Start(cs, N - m)] = m}
<1>4. 0 \in P
  <2>1. N - 0 = N /\ Start(cs, N) = Len(t) /\ Len(t) \in 0 .. Len(t) + 1 /\ Len(t) >= Len(t)
    BY <1>0, StartEnds
  <2> QED BY <1>3, <2>1
<1>5. ASSUME NEW m \in P PROVE m + 1 \in P
  <2> SUFFICES ASSUME m + 1 <= N PROVE F[Start(cs, N - (m + 1))] = m + 1
    OBVIOUS
  <2> DEFINE k == N - (m + 1)
  <2>1. k \in 0 .. Len(cs) - 1 /\ k \in 0 .. Len(cs) /\ k + 1 = N - m /\ m <= N
    BY <1>0
  <2> DEFINE p == Start(cs, k)
  <2>2. /\ Start(cs, k + 1) = p + Len(cs[k + 1]) /\ Width(t, p) = Len(cs[k + 1]) /\ p < Len(t)
        /\ p \in 0 .. Len(t)
    BY <2>1, NextStart, Halves
  <2>3. F[Start(cs, k + 1)] = m
    BY <2>1
  <2> HIDE DEF k, p
  <2>4. p \in 0 .. Len(t) + 1 /\ ~ (p >= Len(t))
    BY <1>0, <2>2
  <2>5. F[p] = 1 + F[p + Width(t, p)]
    BY <1>3, <2>4
  <2>6. F[p] = 1 + m
    BY <2>2, <2>3, <2>5
  <2>7. 1 + m = m + 1
    OBVIOUS
  <2> QED BY <2>6, <2>7 DEF p, k
<1>6. P \subseteq Nat
  OBVIOUS
<1> HIDE DEF P
<1>7. P = Nat
  BY <1>4, <1>5, <1>6, Counting
<1>8. N \in P /\ N <= N /\ N - N = 0
  BY <1>0, <1>7
<1>9. F[Start(cs, 0)] = N
  BY <1>8 DEF P
<1> QED BY <1>2, <1>9, StartEnds

\* string_get_char gives the character at an index.
LEMMA GetIs ==
  ASSUME NEW cs \in Seq(Chars), NEW k \in Nat
  PROVE  GetChar(Encode(cs), k) = CharAt(cs, k)
<1> DEFINE t == Encode(cs)
           p == SjisIndex(t, k)
<1>0. FirstIfNegative(k) = k /\ k \in Int /\ Len(cs) \in Nat
  BY DEF FirstIfNegative
<1>1. p = IF k < Len(cs) THEN Start(cs, k) ELSE NoChar
  BY <1>0, IndexIs
<1>2. CASE k < Len(cs)
  <2>1. k \in 0 .. Len(cs) - 1 /\ k \in 0 .. Len(cs)
    BY <1>0, <1>2
  <2>2. p = Start(cs, k) /\ p \in 0 .. Len(t)
    BY <1>1, <1>2, <2>1, Halves
  <2>3. p # NoChar
    BY <2>2 DEF NoChar
  <2>4. SubSeq(t, p + 1, p + Width(t, p)) = cs[k + 1]
    BY <2>1, <2>2, NextStart
  <2>5. GetChar(t, k) = SubSeq(t, p + 1, p + Width(t, p))
    BY <2>3 DEF GetChar
  <2> QED BY <2>1, <2>4, <2>5 DEF CharAt
<1>3. CASE ~ (k < Len(cs))
  <2>1. k \notin 0 .. Len(cs) - 1
    BY <1>0, <1>3
  <2> QED BY <1>1, <1>3, <2>1 DEF GetChar, CharAt
<1> QED BY <1>2, <1>3

\* string_copy copies characters.
LEMMA CopyIs ==
  ASSUME NEW cs \in Seq(Chars), NEW k \in Int, NEW n \in Int
  PROVE  CopyText(Encode(cs), k, n) = Encode(Copied(cs, k, n))
<1> DEFINE t == Encode(cs)
           p == SjisIndex(t, k)
           a == FirstIfNegative(k)
           N == Len(cs)
           e == IF a + n < N THEN a + n ELSE N
<1>0. a \in Nat /\ N \in Nat /\ e \in Int
  BY DEF FirstIfNegative
<1>1. Copied(cs, k, n) = SubSeq(cs, a + 1, e)
  BY Zenon DEF Copied
<1>2. p = IF a < N THEN Start(cs, a) ELSE NoChar
  BY IndexIs
<1>3. Encode(<<>>) = <<>>
  <2>1. <<>> \in Seq(Chars)
    OBVIOUS
  <2> QED BY <2>1, EncodeText
<1>4. CASE n <= 0 \/ ~ (a < N)
  <2>1. e < a + 1
    BY <1>0, <1>4
  <2>2. SubSeq(cs, a + 1, e) = <<>>
    <3>1. a + 1 \in Int
      BY <1>0
    <3> QED BY <1>0, <2>1, <3>1, SubSeqEmpty
  <2>3. n <= 0 \/ p = NoChar
    BY <1>2, <1>4
  <2>4. CopyText(t, k, n) = <<>>
    BY <2>3 DEF CopyText
  <2> HIDE DEF t, e, a
  <2> QED BY <1>1, <1>3, <2>2, <2>4 DEF t
<1>5. CASE n > 0 /\ a < N
  <2> DEFINE ds == From(cs, a)
             u  == Encode(ds)
             q  == SjisIndex(u, n)
  <2>1. a \in 0 .. N /\ ~ (n <= 0) /\ n \in Nat
    BY <1>0, <1>5
  <2>2. ds \in Seq(Chars) /\ Len(ds) = N - a
    BY <2>1, Split
  <2>3. p = Start(cs, a) /\ p \in 0 .. Len(t) /\ From(t, p) = u
    BY <1>2, <1>5, <2>1, Halves
  <2>4. p # NoChar
    BY <2>3 DEF NoChar
  <2>5. CopyText(t, k, n) = SubSeq(t, p + 1, IF q = NoChar THEN Len(t) ELSE p + q)
    <3>1. CopyText(t, k, n) = CopyFrom(t, p, n)
      BY <2>1, <2>4 DEF CopyText
    <3>2. CopyFrom(t, p, n) = SubSeq(t, p + 1, IF SjisIndex(From(t, p), n) = NoChar THEN Len(t)
                                              ELSE p + SjisIndex(From(t, p), n))
      BY Zenon DEF CopyFrom
    <3> QED BY <2>3, <3>1, <3>2
  <2>6. q = IF n < Len(ds) THEN Start(ds, n) ELSE NoChar
    <3>1. FirstIfNegative(n) = n
      BY <2>1 DEF FirstIfNegative
    <3> QED BY <2>2, <3>1, IndexIs
  <2>9. t \in Seq(Byte) /\ Len(t) \in Nat
    BY EncodeText DEF Text
  <2>7. CASE n < Len(ds)
    <3>0. n \in 0 .. Len(ds) /\ e = a + n
      BY <1>0, <2>1, <2>2, <2>7
    <3>1. q = Start(ds, n) /\ q \in 0 .. Len(u) /\ Before(u, q) = Encode(Before(ds, n))
      BY <2>2, <2>6, <2>7, <3>0, Halves
    <3>2. q # NoChar
      BY <3>1 DEF NoChar
    <3>3. Before(From(t, p), q) = SubSeq(t, p + 1, p + q)
      <4>1. q \in 0 .. Len(From(t, p))
        BY <2>3, <3>1
      <4> HIDE DEF t, p, q, u
      <4> QED BY <2>3, <2>9, <4>1, Within
    <3>4. Before(From(cs, a), n) = SubSeq(cs, a + 1, a + n)
      BY <2>1, <3>0, Within
    <3> HIDE DEF t, p, q, u, a, e
    <3>5. SubSeq(t, p + 1, p + q) = Encode(Before(ds, n))
      BY <2>3, <3>1, <3>3
    <3> QED BY <1>1, <2>5, <3>0, <3>2, <3>4, <3>5 DEF t
  <2>8. CASE ~ (n < Len(ds))
    <3>1. q = NoChar /\ e = N
      BY <1>0, <2>1, <2>2, <2>6, <2>8
    <3> HIDE DEF t, p, q, u, a, e
    <3>2. CopyText(t, k, n) = From(t, p)
      BY <2>5, <3>1 DEF From
    <3>3. Copied(cs, k, n) = ds
      BY <1>1, <3>1 DEF From
    <3> QED BY <2>3, <3>2, <3>3 DEF t, u
  <2> QED BY <2>7, <2>8
<1>6. (n <= 0 \/ ~ (a < N)) \/ (n > 0 /\ a < N)
  BY <1>0
<1> QED BY <1>4, <1>5, <1>6

\* A text begins with the bytes of another when its characters begin with
\* those of the other: the first byte of a character says how long it is.
LEMMA Begins ==
  ASSUME NEW cs \in Seq(Chars), NEW u \in Seq(Chars)
  PROVE  /\ Len(Encode(u)) <= Len(Encode(cs))
         /\ Before(Encode(cs), Len(Encode(u))) = Encode(u)
         <=> Len(u) <= Len(cs) /\ Before(cs, Len(u)) = u
<1> DEFINE t == Encode(cs)
           v == Encode(u)
<1>0. /\ t \in Seq(Byte) /\ v \in Seq(Byte) /\ Len(t) \in Nat /\ Len(v) \in Nat
      /\ Len(u) \in Nat /\ Len(cs) \in Nat
  BY EncodeText DEF Text
<1>1. ASSUME Len(u) <= Len(cs), Before(cs, Len(u)) = u
      PROVE  Len(v) <= Len(t) /\ Before(t, Len(v)) = v
  <2>1. Len(u) \in 0 .. Len(cs)
    BY <1>0, <1>1
  <2>2. Start(cs, Len(u)) = Len(v)
    BY <1>1 DEF Start
  <2>3. Start(cs, Len(u)) \in 0 .. Len(t) /\ Before(t, Start(cs, Len(u))) = Encode(Before(cs, Len(u)))
    BY <2>1, Halves
  <2> HIDE DEF t, v
  <2> QED BY <1>0, <1>1, <2>2, <2>3 DEF v
<1>2. ASSUME Len(v) <= Len(t), Before(t, Len(v)) = v
      PROVE  Len(u) <= Len(cs) /\ Before(cs, Len(u)) = u
  <2> DEFINE P == {i \in Nat : i <= Len(u) => i <= Len(cs) /\ Before(cs, i) = Before(u, i)}
  <2>1. 0 \in P
    <3>1. 0 <= Len(cs) /\ Before(cs, 0) = <<>> /\ Before(u, 0) = <<>>
      BY <1>0 DEF Before
    <3> QED BY <3>1
  <2>2. ASSUME NEW i \in P PROVE i + 1 \in P
    <3> SUFFICES ASSUME i + 1 <= Len(u) PROVE i + 1 <= Len(cs) /\ Before(cs, i + 1) = Before(u, i + 1)
      OBVIOUS
    <3>1. i \in Nat /\ i <= Len(cs) /\ Before(cs, i) = Before(u, i)
      BY <1>0
    <3> DEFINE p == Start(u, i)
               q == Start(u, i + 1)
               d == u[i + 1]
               c == cs[i + 1]
    <3>2. i \in 0 .. Len(u) - 1 /\ i \in 0 .. Len(u) /\ i + 1 \in 0 .. Len(u) /\ i \in 0 .. Len(cs)
      BY <1>0, <3>1
    <3>3. /\ At(v, p) = d[1] /\ q = p + Len(d) /\ q <= Len(v) /\ p < Len(v)
          /\ SubSeq(v, p + 1, q) = d
      BY <3>2, NextStart
    <3>4. p \in 0 .. Len(v) /\ q \in 0 .. Len(v)
      BY <3>2, Halves
    <3>5. Start(cs, i) = p
      BY <3>1 DEF Start
    <3>6. i # Len(cs)
      <4>1. SUFFICES ASSUME i = Len(cs) PROVE FALSE
        OBVIOUS
      <4>2. p = Len(t)
        BY <3>5, <4>1, StartEnds
      <4> HIDE DEF t, v, p, q
      <4> QED BY <1>0, <1>2, <3>3, <3>4, <4>2
    <3>7. i \in 0 .. Len(cs) - 1 /\ i + 1 <= Len(cs) /\ i + 1 \in 0 .. Len(cs)
      BY <1>0, <3>1, <3>6
    <3>8. /\ At(t, p) = c[1] /\ Start(cs, i + 1) = p + Len(c)
          /\ SubSeq(t, p + 1, Start(cs, i + 1)) = c
      BY <3>5, <3>7, NextStart
    <3>9. d \in Chars /\ c \in Chars
      BY <3>2, <3>7
    <3>10. At(t, p) = At(v, p) /\ SubSeq(t, p + 1, q) = SubSeq(v, p + 1, q)
      <4> HIDE DEF t, v, p, q
      <4>1. v = SubSeq(t, 1, Len(v))
        BY <1>2 DEF Before
      <4>2. \A j \in 1 .. Len(v) : v[j] = t[j]
        BY <1>0, <1>2, <4>1
      <4>3. p + 1 \in 1 .. Len(v)
        BY <1>0, <3>3, <3>4
      <4>4. At(t, p) = At(v, p)
        BY <4>2, <4>3 DEF At
      <4>5. SubSeq(t, p + 1, q) = SubSeq(v, p + 1, q)
        BY <1>0, <1>2, <3>4, <4>2
      <4> QED BY <4>4, <4>5
    <3>11. Len(c) = Len(d)
      <4>1. c[1] = d[1]
        BY <3>3, <3>8, <3>10
      <4>2. Len(c) = IF Is2Byte(c[1]) THEN 2 ELSE 1
        BY <3>9, CharBytes
      <4>3. Len(d) = IF Is2Byte(d[1]) THEN 2 ELSE 1
        BY <3>9, CharBytes
      <4> HIDE DEF c, d
      <4>4. CASE Is2Byte(c[1])
        BY <4>1, <4>2, <4>3, <4>4
      <4>5. CASE ~ Is2Byte(c[1])
        BY <4>1, <4>2, <4>3, <4>5
      <4> QED BY <4>4, <4>5
    <3>12. c = d
      BY <3>3, <3>8, <3>10, <3>11
    <3>13. Before(cs, i + 1) = Append(Before(cs, i), c)
      <4>1. SubSeq(cs, 1, i + 1) = Append(SubSeq(cs, 1, i), cs[i + 1])
        BY <3>1, <3>7
      <4> QED BY <4>1 DEF Before
    <3>14. Before(u, i + 1) = Append(Before(u, i), d)
      <4>1. SubSeq(u, 1, i + 1) = Append(SubSeq(u, 1, i), u[i + 1])
        BY <3>1, <3>2
      <4> QED BY <4>1 DEF Before
    <3> HIDE DEF c, d, p, q
    <3> QED BY <3>1, <3>7, <3>12, <3>13, <3>14
  <2>3. P \subseteq Nat
    OBVIOUS
  <2> HIDE DEF P
  <2>4. P = Nat
    BY <2>1, <2>2, <2>3, Counting
  <2>5. Len(u) \in P /\ Len(u) <= Len(u)
    BY <1>0, <2>4
  <2>6. Len(u) <= Len(cs) /\ Before(cs, Len(u)) = Before(u, Len(u))
    BY <2>5 DEF P
  <2>7. Before(u, Len(u)) = u
    BY SubSeqFull DEF Before
  <2> QED BY <2>6, <2>7
<1> QED BY <1>1, <1>2

\* The characters from index k on are those of u.
LEMMA CopiedIs ==
  ASSUME NEW cs \in Seq(Chars), NEW k \in 0 .. Len(cs) - 1, NEW u \in Seq(Chars)
  PROVE  Copied(cs, k, Len(u)) = u <=>
           Len(u) <= Len(From(cs, k)) /\ Before(From(cs, k), Len(u)) = u
<1> DEFINE r == From(cs, k)
           m == Len(u)
           N == Len(cs)
           e == IF k + m < N THEN k + m ELSE N
<1>0. k \in 0 .. N /\ k \in Nat /\ N \in Nat /\ m \in Nat /\ FirstIfNegative(k) = k
  BY DEF FirstIfNegative
<1>1. Copied(cs, k, m) = SubSeq(cs, k + 1, e)
  BY <1>0 DEF Copied
<1>2. r \in Seq(Chars) /\ Len(r) = N - k
  BY <1>0, Split
<1>3. CASE m <= Len(r)
  <2>1. e = k + m /\ m \in 0 .. Len(r)
    BY <1>0, <1>2, <1>3
  <2>2. Before(r, m) = SubSeq(cs, k + 1, k + m)
    BY <1>0, <2>1, Within
  <2> HIDE DEF r, e
  <2> QED BY <1>1, <1>3, <2>1, <2>2 DEF r
<1>4. CASE ~ (m <= Len(r))
  <2>1. e = N
    BY <1>0, <1>2, <1>4
  <2>2. Copied(cs, k, m) = r
    BY <1>1, <2>1 DEF From
  <2> HIDE DEF r
  <2>3. r # u
    BY <1>0, <1>2, <1>4
  <2> QED BY <1>4, <2>2, <2>3 DEF r
<1> QED BY <1>3, <1>4

\* string_find finds characters.
LEMMA FindIs ==
  ASSUME NEW cs \in Seq(Chars), NEW u \in Seq(Chars)
  PROVE  FindText(Encode(cs), Encode(u)) = FirstAt(cs, u)
<1> DEFINE t == Encode(cs)
           v == Encode(u)
           H == {c \in 0 .. Len(t) - 1 :
                   /\ SjisIndex(t, c) # NoChar
                   /\ SjisIndex(t, c) + Len(v) <= Len(t)
                   /\ SubSeq(t, SjisIndex(t, c) + 1, SjisIndex(t, c) + Len(v)) = v}
           G == {k \in 0 .. Len(cs) - 1 : Copied(cs, k, Len(u)) = u}
           Least(h) == IF h = {} THEN -1 ELSE CHOOSE c \in h : \A d \in h : c <= d
<1>0. /\ t \in Seq(Byte) /\ v \in Seq(Byte) /\ Len(t) \in Nat /\ Len(v) \in Nat
      /\ Len(cs) \in Nat /\ Len(u) \in Nat
  BY EncodeText DEF Text
<1>1. FindText(t, v) = Least(H) /\ FirstAt(cs, u) = Least(G)
  BY Zenon DEF FindText, FirstAt
<1>2. Len(cs) <= Len(t)
  <2>1. 0 \in 0 .. Len(cs) /\ Len(cs) \in 0 .. Len(cs)
    BY <1>0
  <2>2. Start(cs, 0) + (Len(cs) - 0) <= Start(cs, Len(cs))
    BY <2>1, StartOrder
  <2> QED BY <1>0, <2>2, StartEnds
<1>3. ASSUME NEW c \in 0 .. Len(cs) - 1
      PROVE  c \in H <=> c \in G
  <2> DEFINE p == Start(cs, c)
             r == From(cs, c)
             x == Encode(r)
  <2>1. c \in 0 .. Len(cs) /\ c \in 0 .. Len(t) - 1 /\ c \in Int /\ FirstIfNegative(c) = c /\ c < Len(cs)
    BY <1>0, <1>2 DEF FirstIfNegative
  <2>2. SjisIndex(t, c) = p
    BY <2>1, IndexIs
  <2>3. p \in 0 .. Len(t) /\ From(t, p) = x /\ r \in Seq(Chars)
    BY <2>1, Halves, Split
  <2>4. p # NoChar /\ Len(x) = Len(t) - p
    <3>1. Len(From(t, p)) = Len(t) - p
      BY <1>0, <2>3, Split
    <3> QED BY <2>3, <3>1 DEF NoChar
  <2>5. c \in H <=> p + Len(v) <= Len(t) /\ SubSeq(t, p + 1, p + Len(v)) = v
    <3> HIDE DEF t, v, p
    <3> QED BY <2>1, <2>2, <2>4
  <2>6. p + Len(v) <= Len(t) <=> Len(v) <= Len(x)
    <3> HIDE DEF t, v, p, x
    <3> QED BY <1>0, <2>3, <2>4
  <2>7. ASSUME Len(v) <= Len(x) PROVE SubSeq(t, p + 1, p + Len(v)) = Before(x, Len(v))
    <3>1. Len(v) \in 0 .. Len(From(t, p))
      BY <1>0, <2>3, <2>4, <2>7
    <3> HIDE DEF t, v, p, x
    <3> QED BY <1>0, <2>3, <3>1, Within
  <2>8. Len(v) <= Len(x) /\ Before(x, Len(v)) = v <=> Len(u) <= Len(r) /\ Before(r, Len(u)) = u
    BY <2>3, Begins
  <2>9. c \in G <=> Len(u) <= Len(r) /\ Before(r, Len(u)) = u
    BY CopiedIs
  <2> HIDE DEF H, G, t, v, p, x, r
  <2> QED BY <2>5, <2>6, <2>7, <2>8, <2>9
<1>4. ASSUME NEW c \in H PROVE c \in 0 .. Len(cs) - 1
  <2>1. c \in 0 .. Len(t) - 1 /\ SjisIndex(t, c) # NoChar
    OBVIOUS
  <2>2. c \in Nat /\ FirstIfNegative(c) = c
    BY <1>0, <2>1 DEF FirstIfNegative
  <2>3. SjisIndex(t, c) = IF c < Len(cs) THEN Start(cs, c) ELSE NoChar
    BY <2>2, IndexIs
  <2>4. c < Len(cs)
    BY <2>1, <2>3
  <2> QED BY <1>0, <2>2, <2>4
<1>5. H = G
  <2>1. \A c \in G : c \in 0 .. Len(cs) - 1
    OBVIOUS
  <2> HIDE DEF H, G
  <2> QED BY <1>3, <1>4, <2>1
<1> HIDE DEF H, G, Least
<1> QED BY <1>1, <1>5

(* What string_get_char, string_copy, sjis_count_char and string_find read *)
(* from the bytes is what the characters say, whatever the characters are. *)
THEOREM QueriesAreRight == Spec => []QueriesSeeCharacters
<1>1. Encoded => QueriesSeeCharacters
  <2> SUFFICES ASSUME Encoded PROVE QueriesSeeCharacters
    OBVIOUS
  <2>1. chars \in Seq(Chars) /\ text = Encode(chars)
    BY DEF Encoded, TextEncodesChars
  <2>2. CountChar(text) = Len(chars)
    BY <2>1, CountIs
  <2>3. ASSUME NEW k \in Indices
        PROVE  /\ k >= 0 => GetChar(text, k) = CharAt(chars, k)
               /\ \A n \in Indices : CopyText(text, k, n) = Encode(Copied(chars, k, n))
    <3>1. k \in Int /\ (k >= 0 => k \in Nat) /\ \A n \in Indices : n \in Int
      BY DEF Indices
    <3>2. k >= 0 => GetChar(text, k) = CharAt(chars, k)
      BY <2>1, <3>1, GetIs
    <3>3. \A n \in Indices : CopyText(text, k, n) = Encode(Copied(chars, k, n))
      BY <2>1, <3>1, CopyIs
    <3> QED BY <3>2, <3>3
  <2>4. ASSUME NEW u \in BoundedSeq(Chars, 2) \ {<<>>}
        PROVE  FindText(text, Encode(u)) = FirstAt(chars, u)
    <3>1. PICK m \in 0 .. 2 : u \in [1 .. m -> Chars]
      BY DEF BoundedSeq, SeqOf
    <3>2. u \in Seq(Chars)
      BY <3>1
    <3> QED BY <2>1, <3>2, FindIs
  <2> QED BY <2>2, <2>3, <2>4 DEF QueriesSeeCharacters
<1>2. Spec => []Encoded
  BY InitEncoded, NextEncoded, PTL DEF Spec
<1> QED BY <1>1, <1>2, PTL

=============================================================================
