------------------------------ MODULE AinProofs ------------------------------
(***************************************************************************)
(* For tables of any length and any names: functions and structures are    *)
(* found again, owners are those a new inference would find, and nothing   *)
(* is freed twice but the texts of duplicated functions.  Strings are      *)
(* found, and new images lose no section.  In code of any length, the      *)
(* cursor stays on instructions and knows its function.                    *)
(***************************************************************************)
EXTENDS Ain, SequenceTheorems, WellFoundedInduction, TLAPS

(* How many functions the index holds: all, or those added so far.         *)
Done == IF indexed = -1 THEN Len(functions) ELSE indexed

(* The list of a name holds the indexes of functions of that name, in      *)
(* order; and every function is in the list of its name.                   *)
ListsSound(ht, funs, n) ==
  \A name \in FunctionNames : \A p \in DOMAIN ht[name] :
    ht[name][p] \in 0 .. n - 1 /\ funs[ht[name][p] + 1].name = name

ListsOrdered(ht) ==
  \A name \in FunctionNames : \A p, q \in DOMAIN ht[name] :
    p < q => ht[name][p] < ht[name][q]

ListsComplete(ht, funs, n) ==
  \A i \in 0 .. n - 1 : \E p \in DOMAIN ht[funs[i + 1].name] : ht[funs[i + 1].name][p] = i

ListsOf(ht, funs, n) == ListsSound(ht, funs, n) /\ ListsOrdered(ht) /\ ListsComplete(ht, funs, n)

IndexInv == Fresh("functions") => ListsOf(func_ht, functions, Done)

OwnedInv == ~duplicated => \A i \in DOMAIN functions : functions[i].default => functions[i].owned

IInv == TypeOK /\ IndexInv /\ OwnedInv /\ StructuresFound /\ OwnersInferred /\ FreedOnce
-----------------------------------------------------------------------------
(* The places of a sequence one longer: the old ones and the last.         *)
LEMMA AppendPlaces ==
  ASSUME NEW S, NEW s \in Seq(S), NEW x \in S
  PROVE  /\ DOMAIN Append(s, x) = DOMAIN s \cup {Len(s) + 1}
         /\ Append(s, x)[Len(s) + 1] = x
         /\ \A p \in DOMAIN s : Append(s, x)[p] = s[p] /\ p \in Int /\ p < Len(s) + 1
         /\ Len(s) + 1 \in Int
OBVIOUS

(* Adding the next function to the lists.                                  *)
LEMMA ListedLists ==
  ASSUME NEW ht \in [FunctionNames -> Seq(Nat)], NEW funs, NEW n \in Nat,
         \A i \in 0 .. n : funs[i + 1].name \in FunctionNames, ListsOf(ht, funs, n)
  PROVE  ListsOf(Listed(ht, funs[n + 1].name, n), funs, n + 1)
<1> DEFINE nm == funs[n + 1].name
           h2 == Listed(ht, nm, n)
           last == Len(ht[nm]) + 1
<1>1. nm \in FunctionNames
  OBVIOUS
<1>2. ht[nm] \in Seq(Nat)
  BY <1>1
<1>3. /\ h2[nm] = Append(ht[nm], n)
      /\ \A name \in FunctionNames : name # nm => h2[name] = ht[name]
  BY <1>1 DEF Listed
<1>4. /\ DOMAIN h2[nm] = DOMAIN ht[nm] \cup {last}
      /\ h2[nm][last] = n
      /\ \A p \in DOMAIN ht[nm] : h2[nm][p] = ht[nm][p] /\ p \in Int /\ p < last
      /\ last \in Int
  BY <1>2, <1>3, AppendPlaces
<1>5. n = n /\ funs[n + 1].name = nm
  OBVIOUS
<1> HIDE DEF h2, nm, last
(* What was listed stays in its place.                                     *)
<1>6. \A name \in FunctionNames : \A p \in DOMAIN ht[name] :
        p \in DOMAIN h2[name] /\ h2[name][p] = ht[name][p] /\ ht[name][p] \in 0 .. n - 1
          /\ funs[ht[name][p] + 1].name = name
  BY <1>3, <1>4 DEF ListsOf, ListsSound
<1>7. \A name \in FunctionNames : \A p \in DOMAIN h2[name] :
        p \in DOMAIN ht[name] \/ (name = nm /\ p = last)
  BY <1>3, <1>4
<1>8. ListsSound(h2, funs, n + 1)
  BY <1>4, <1>5, <1>6, <1>7 DEF ListsSound
<1>9. ListsOrdered(h2)
  <2> SUFFICES ASSUME NEW name \in FunctionNames, NEW p \in DOMAIN h2[name],
                      NEW q \in DOMAIN h2[name], p < q
               PROVE  h2[name][p] < h2[name][q]
    BY DEF ListsOrdered
  <2>1. CASE p \in DOMAIN ht[name] /\ q \in DOMAIN ht[name]
    BY <1>6, <2>1 DEF ListsOf, ListsOrdered
  <2>2. CASE p \in DOMAIN ht[name] /\ name = nm /\ q = last
    <3>1. h2[name][p] \in 0 .. n - 1
      BY <1>6, <2>2
    <3>2. h2[name][q] = n
      BY <1>4, <2>2
    <3> QED BY <3>1, <3>2
  <2>3. CASE name = nm /\ p = last
    <3>1. q \in DOMAIN ht[nm] \/ q = last
      BY <1>7, <2>3
    <3> QED BY <1>4, <2>3, <3>1
  <2> QED BY <1>7, <2>1, <2>2, <2>3
<1>10. ListsComplete(h2, funs, n + 1)
  <2> SUFFICES ASSUME NEW i \in 0 .. (n + 1) - 1
               PROVE  \E p \in DOMAIN h2[funs[i + 1].name] : h2[funs[i + 1].name][p] = i
    BY DEF ListsComplete
  <2>1. i \in 0 .. n /\ (i # n => i \in 0 .. n - 1)
    OBVIOUS
  <2>2. CASE i = n
    BY <1>4, <1>5, <2>2
  <2>3. CASE i # n
    BY <1>6, <2>1, <2>3 DEF ListsOf, ListsComplete
  <2> QED BY <2>2, <2>3
<1> QED BY <1>8, <1>9, <1>10 DEF ListsOf, h2, nm

(* Only the names of the functions matter to the lists.                    *)
LEMMA SameNamesLists ==
  ASSUME NEW ht \in [FunctionNames -> Seq(Nat)], NEW n \in Nat, NEW funs, NEW funs2,
         \A i \in 0 .. n - 1 : funs2[i + 1].name = funs[i + 1].name,
         \A i \in 0 .. n - 1 : funs[i + 1].name \in FunctionNames,
         ListsOf(ht, funs, n)
  PROVE  ListsOf(ht, funs2, n)
<1>1. ListsSound(ht, funs2, n)
  BY DEF ListsOf, ListsSound
<1>2. ListsComplete(ht, funs2, n)
  BY DEF ListsOf, ListsComplete
<1> QED BY <1>1, <1>2 DEF ListsOf

LEMMA NoListsOf == ASSUME NEW funs PROVE ListsOf(NoLists, funs, 0)
<1>1. \A name \in FunctionNames : DOMAIN NoLists[name] = {}
  BY DEF NoLists
<1>2. 0 .. 0 - 1 = {}
  OBVIOUS
<1> QED BY <1>1, <1>2 DEF ListsOf, ListsSound, ListsOrdered, ListsComplete

(* Two places of a sequence without repetitions that hold the same are one,*)
(* so the first search and the last search end at the same place.          *)
LEMMA FirstIsLast ==
  ASSUME NEW S, NEW s \in Seq(S), NEW x, Distinct(s)
  PROVE  First(x, s) = Last(x, s)
<1>1. CASE ~IsIn(x, s)
  BY <1>1 DEF First, Last
<1>2. CASE IsIn(x, s)
  <2> DEFINE P(i) == s[i + 1] = x /\ \A j \in 0 .. i - 1 : s[j + 1] # x
             Q(i) == s[i + 1] = x /\ \A j \in i + 1 .. Len(s) - 1 : s[j + 1] # x
  <2>1. PICK k \in 1 .. Len(s) : s[k] = x
    BY <1>2 DEF IsIn
  <2>2. \A i \in 0 .. Len(s) - 1 : s[i + 1] = x => i + 1 = k
    BY <2>1 DEF Distinct
  <2>3. k - 1 \in 0 .. Len(s) - 1 /\ P(k - 1) /\ Q(k - 1)
    <3>1. k - 1 \in 0 .. Len(s) - 1 /\ (k - 1) + 1 = k
      BY <2>1
    <3>2. \A j \in 0 .. (k - 1) - 1 : s[j + 1] # x
      BY <2>2
    <3>3. \A j \in (k - 1) + 1 .. Len(s) - 1 : s[j + 1] # x
      BY <2>2
    <3> QED BY <2>1, <3>1, <3>2, <3>3
  <2>4. \A i \in 0 .. Len(s) - 1 : (P(i) \/ Q(i)) => i = k - 1
    BY <2>1, <2>2
  <2> HIDE DEF P, Q
  <2>5. (CHOOSE i \in 0 .. Len(s) - 1 : P(i)) = k - 1
    BY <2>3, <2>4
  <2>6. (CHOOSE i \in 0 .. Len(s) - 1 : Q(i)) = k - 1
    BY <2>3, <2>4
  <2> QED BY <1>2, <2>5, <2>6 DEF First, Last, P, Q
<1> QED BY <1>1, <1>2

(* Every nonempty set of naturals has a least element.                     *)
Less == {p \in Nat \X Nat : p[1] < p[2]}

LEMMA LeastNatural ==
  ASSUME NEW T, T \subseteq Nat, T # {}
  PROVE  \E x \in T : \A y \in T : x <= y
<1>1. IsWellFoundedOn(Less, Nat)
  <2>1. OpToRel(<, Nat) = Less
    BY Zenon DEF Less, OpToRel
  <2> QED BY <2>1, NatLessThanWellFounded
<1>2. PICK x \in T : \A y \in T : ~ (<<y, x>> \in Less)
  BY <1>1, WFMin
<1>3. \A y \in T : y \in Nat /\ ~ (y < x)
  <2> SUFFICES ASSUME NEW y \in T PROVE y \in Nat /\ ~ (y < x)
    OBVIOUS
  <2>1. <<y, x>> \in Nat \X Nat /\ <<y, x>>[1] = y /\ <<y, x>>[2] = x
    OBVIOUS
  <2> QED BY <1>2, <2>1 DEF Less
<1> QED BY <1>3

(* A search that finds something finds the first or the last.              *)
LEMMA FirstFound ==
  ASSUME NEW S, NEW s \in Seq(S), NEW x, IsIn(x, s)
  PROVE  /\ First(x, s) \in 0 .. Len(s) - 1
         /\ s[First(x, s) + 1] = x
         /\ \A j \in 0 .. First(x, s) - 1 : s[j + 1] # x
<1> DEFINE T == {i \in 0 .. Len(s) - 1 : s[i + 1] = x}
<1>1. T # {} /\ T \subseteq Nat
  <2>1. PICK k \in 1 .. Len(s) : s[k] = x
    BY DEF IsIn
  <2>2. k - 1 \in 0 .. Len(s) - 1 /\ s[(k - 1) + 1] = x
    BY <2>1
  <2>3. k - 1 \in T
    BY <2>2
  <2>4. T \subseteq Nat
    OBVIOUS
  <2> QED BY <2>3, <2>4
<1>2. PICK i \in T : \A j \in T : i <= j
  BY <1>1, LeastNatural
<1>3. \A j \in 0 .. i - 1 : s[j + 1] # x
  BY <1>2
<1>4. \E k \in 0 .. Len(s) - 1 : s[k + 1] = x /\ \A j \in 0 .. k - 1 : s[j + 1] # x
  BY <1>2, <1>3
<1> QED BY <1>4 DEF First

LEMMA LastFound ==
  ASSUME NEW S, NEW s \in Seq(S), NEW x, IsIn(x, s)
  PROVE  /\ Last(x, s) \in 0 .. Len(s) - 1
         /\ s[Last(x, s) + 1] = x
         /\ \A j \in Last(x, s) + 1 .. Len(s) - 1 : s[j + 1] # x
<1> DEFINE T == {d \in 0 .. Len(s) - 1 : s[Len(s) - d] = x}
<1>1. T # {} /\ T \subseteq Nat
  <2>1. PICK k \in 1 .. Len(s) : s[k] = x
    BY DEF IsIn
  <2>2. Len(s) - k \in 0 .. Len(s) - 1 /\ s[Len(s) - (Len(s) - k)] = x
    BY <2>1
  <2>3. Len(s) - k \in T
    BY <2>2
  <2>4. T \subseteq Nat
    OBVIOUS
  <2> QED BY <2>3, <2>4
<1>2. PICK d \in T : \A e \in T : d <= e
  BY <1>1, LeastNatural
<1>3. \A j \in (Len(s) - 1 - d) + 1 .. Len(s) - 1 : s[j + 1] # x
  <2> SUFFICES ASSUME NEW j \in (Len(s) - 1 - d) + 1 .. Len(s) - 1, s[j + 1] = x
               PROVE  FALSE
    OBVIOUS
  <2>1. /\ Len(s) - 1 - j \in 0 .. Len(s) - 1
        /\ Len(s) - (Len(s) - 1 - j) = j + 1
        /\ ~ (d <= Len(s) - 1 - j)
    OBVIOUS
  <2>2. Len(s) - 1 - j \in T
    BY <2>1
  <2> QED BY <1>2, <2>1, <2>2
<1>4. Len(s) - 1 - d \in 0 .. Len(s) - 1 /\ s[(Len(s) - 1 - d) + 1] = x
  <2>1. (Len(s) - 1 - d) + 1 = Len(s) - d
    OBVIOUS
  <2> QED BY <2>1
<1>5. \E k \in 0 .. Len(s) - 1 : s[k + 1] = x /\ \A j \in k + 1 .. Len(s) - 1 : s[j + 1] # x
  BY <1>3, <1>4
<1> QED BY <1>5 DEF Last

LEMMA SearchesInt ==
  ASSUME NEW S, NEW s \in Seq(S), NEW x
  PROVE  First(x, s) \in Int /\ Last(x, s) \in Int
<1>1. CASE IsIn(x, s)
  BY <1>1, FirstFound, LastFound
<1>2. CASE ~IsIn(x, s)
  BY <1>2 DEF First, Last
<1> QED BY <1>1, <1>2

(* What an entry at the end does to the last search.                       *)
LEMMA LastOfAppend ==
  ASSUME NEW S, NEW s \in Seq(S), NEW x \in S, NEW y
  PROVE  Last(y, Append(s, x)) = IF y = x THEN Len(s) ELSE Last(y, s)
<1> DEFINE t == Append(s, x)
           P(i) == t[i + 1] = y /\ \A j \in i + 1 .. Len(t) - 1 : t[j + 1] # y
<1>1. /\ t \in Seq(S) /\ Len(t) = Len(s) + 1 /\ Len(s) \in Nat
      /\ t[Len(s) + 1] = x
      /\ \A i \in 0 .. Len(s) - 1 : t[i + 1] = s[i + 1]
  OBVIOUS
<1> HIDE DEF t
<1>2. CASE y = x
  <2>1. IsIn(y, t)
    BY <1>1, <1>2 DEF IsIn
  <2>2. Last(y, t) \in 0 .. Len(s) /\ \A j \in Last(y, t) + 1 .. Len(s) : t[j + 1] # y
    BY <1>1, <2>1, LastFound
  <2>3. Last(y, t) = Len(s)
    BY <1>1, <1>2, <2>2
  <2> QED BY <1>2, <2>3 DEF t
<1>3. CASE y # x
  <2>1. IsIn(y, t) <=> IsIn(y, s)
    <3>1. DOMAIN t = 1 .. Len(s) + 1 /\ DOMAIN s = 1 .. Len(s)
      BY <1>1
    <3>2. \A i \in 1 .. Len(s) : t[i] = s[i]
      BY <1>1 DEF t
    <3> QED BY <1>1, <1>3, <3>1, <3>2 DEF IsIn
  <2>2. CASE ~IsIn(y, s)
    BY <1>3, <2>1, <2>2 DEF Last, t
  <2>3. CASE IsIn(y, s)
    <3>1. /\ Last(y, s) \in 0 .. Len(s) - 1 /\ s[Last(y, s) + 1] = y
          /\ \A j \in Last(y, s) + 1 .. Len(s) - 1 : s[j + 1] # y
      BY <2>3, LastFound
    <3>2. /\ Last(y, t) \in 0 .. Len(s) /\ t[Last(y, t) + 1] = y
          /\ \A j \in Last(y, t) + 1 .. Len(s) : t[j + 1] # y
      <4>1. /\ Last(y, t) \in 0 .. Len(t) - 1 /\ t[Last(y, t) + 1] = y
            /\ \A j \in Last(y, t) + 1 .. Len(t) - 1 : t[j + 1] # y
        BY <1>1, <2>1, <2>3, LastFound
      <4>2. Len(t) - 1 = Len(s)
        BY <1>1
      <4> QED BY <4>1, <4>2
    <3>3. Last(y, t) # Len(s)
      BY <1>1, <1>3, <3>2
    <3>4. Last(y, t) \in 0 .. Len(s) - 1 /\ s[Last(y, t) + 1] = y
      BY <1>1, <3>2, <3>3
    <3>5. ~ (Last(y, s) < Last(y, t))
      BY <1>1, <3>1, <3>4
    <3>6. ~ (Last(y, t) < Last(y, s))
      BY <1>1, <3>1, <3>2
    <3>7. Last(y, t) = Last(y, s)
      BY <1>1, <3>1, <3>2, <3>5, <3>6
    <3> QED BY <1>3, <3>7 DEF t
  <2> QED BY <2>2, <2>3
<1> QED BY <1>2, <1>3
-----------------------------------------------------------------------------
(* What the invariant says of the names the lists are made from.           *)
LEMMA Names ==
  ASSUME TypeOK
  PROVE  /\ Len(functions) \in Nat /\ DOMAIN functions = 1 .. Len(functions)
         /\ \A i \in 1 .. Len(functions) : functions[i] \in FunctionType
         /\ \A i \in 0 .. Len(functions) - 1 : functions[i + 1].name \in FunctionNames
<1>1. functions \in Seq(FunctionType)
  BY DEF TypeOK
<1>2. Len(functions) \in Nat /\ DOMAIN functions = 1 .. Len(functions)
  BY <1>1
<1>3. \A i \in 1 .. Len(functions) : functions[i] \in FunctionType
  BY <1>1
<1>4. \A i \in 0 .. Len(functions) - 1 : i + 1 \in 1 .. Len(functions)
  BY <1>2
<1> QED BY <1>2, <1>3, <1>4 DEF FunctionType

LEMMA InitIInv == Init => IInv
<1> SUFFICES ASSUME Init PROVE IInv
  OBVIOUS
<1>1. PICK img \in Images : InitWith(img)
  BY DEF Init
<1>2. img \in ImageType
  BY <1>1, AinTablesAssumption
<1>3. TypeOK
  <2>1. /\ img.functions \in Seq([name : FunctionNames, default : BOOLEAN])
        /\ img.structures \in Seq(Owners) /\ img.enums \in Seq(Owners)
    BY <1>2 DEF ImageType
  <2>2. \A i \in 1 .. Len(img.functions) :
          Function(img.functions[i].name, 0, 0, img.functions[i].default) \in FunctionType
    <3>1. \A i \in 1 .. Len(img.functions) :
            img.functions[i] \in [name : FunctionNames, default : BOOLEAN]
      <4> DEFINE fs == img.functions
                 R == [name : FunctionNames, default : BOOLEAN]
      <4>1. fs \in Seq(R)
        BY <2>1
      <4> HIDE DEF fs, R
      <4>2. \A i \in 1 .. Len(fs) : fs[i] \in R
        BY <4>1
      <4> QED BY <4>2 DEF fs, R
    <3> QED BY <3>1 DEF Function, FunctionType
  <2>3. functions \in Seq(FunctionType)
    <3>1. Len(img.functions) \in Nat
      BY <2>1
    <3> QED BY <1>1, <2>2, <3>1 DEF InitWith
  <2>4. struct_ht \in [Owners -> Int]
    BY <1>1, <2>1, SearchesInt DEF InitWith
  <2>5. func_ht \in [FunctionNames -> Seq(Nat)]
    BY <1>1 DEF InitWith, NoLists
  <2>6. Len(functions) \in Nat
    BY <2>3
  <2>7. /\ indexed \in {-1} \cup 0 .. Len(functions)
        /\ structures \in Seq(Owners) /\ enums \in Seq(Owners)
        /\ stale = {} /\ inferred \in BOOLEAN /\ duplicated \in BOOLEAN /\ fault \in BOOLEAN
    <3>1. /\ indexed = 0 /\ structures = img.structures /\ enums = img.enums
          /\ stale = {} /\ inferred = FALSE /\ duplicated = FALSE /\ fault = FALSE
      BY <1>1 DEF InitWith
    <3>2. indexed \in {-1} \cup 0 .. Len(functions)
      BY <2>6, <3>1
    <3>3. structures \in Seq(Owners) /\ enums \in Seq(Owners)
      BY <2>1, <3>1
    <3> QED BY <3>1, <3>2, <3>3, Zenon
  <2> QED BY <2>3, <2>4, <2>5, <2>7 DEF TypeOK
<1>4. IndexInv
  BY <1>1, NoListsOf DEF InitWith, IndexInv, Done
<1>5. OwnedInv
  BY <1>1 DEF InitWith, OwnedInv, Function
<1>6. StructuresFound /\ OwnersInferred /\ FreedOnce
  BY <1>1 DEF InitWith, StructuresFound, OwnersInferred, FreedOnce
<1> QED BY <1>3, <1>4, <1>5, <1>6 DEF IInv

LEMMA IndexFunctionsIInv == IInv /\ IndexFunctions => IInv'
<1> SUFFICES ASSUME IInv, IndexFunctions PROVE IInv'
  OBVIOUS
<1>1. TypeOK'
  <2>1. Len(functions) \in Nat
    BY Names DEF IInv
  <2> QED BY <2>1 DEF IInv, IndexFunctions, TypeOK, NoLists, structVars, ghosts
<1>2. IndexInv'
  BY NoListsOf DEF IndexFunctions, IndexInv, Done
<1>3. OwnedInv' /\ StructuresFound' /\ OwnersInferred' /\ FreedOnce'
  BY DEF IInv, IndexFunctions, OwnedInv, StructuresFound, OwnersInferred, FreedOnce, Fresh,
         Inferred, structVars, ghosts
<1> QED BY <1>1, <1>2, <1>3 DEF IInv

LEMMA IndexNextIInv == IInv /\ IndexNext => IInv'
<1> SUFFICES ASSUME IInv, IndexNext PROVE IInv'
  OBVIOUS
<1>1. UNCHANGED <<functions, structures, struct_ht, enums, stale, inferred, duplicated, fault>>
  BY DEF IndexNext, structVars, ghosts
<1>2. OwnedInv' /\ StructuresFound' /\ OwnersInferred' /\ FreedOnce'
  BY <1>1 DEF IInv, OwnedInv, StructuresFound, OwnersInferred, FreedOnce, Fresh, Inferred
<1>3. CASE indexed < Len(functions)
  <2>1. /\ indexed \in 0 .. Len(functions) - 1 /\ indexed' = indexed + 1
        /\ func_ht' = Listed(func_ht, functions[indexed + 1].name, indexed)
    BY <1>3, Names DEF IInv, TypeOK, IndexNext
  <2>2. functions[indexed + 1].name \in FunctionNames
    BY <2>1, Names DEF IInv
  <2>3. func_ht' \in [FunctionNames -> Seq(Nat)]
    BY <2>1, <2>2 DEF IInv, TypeOK, Listed
  <2>4. indexed' \in 0 .. Len(functions)
    BY <2>1, Names DEF IInv
  <2>5. TypeOK'
    BY <1>1, <2>3, <2>4 DEF IInv, TypeOK
  <2>6. IndexInv'
    <3>1. ASSUME Fresh("functions") PROVE ListsOf(func_ht', functions, indexed + 1)
      <4>1. ListsOf(func_ht, functions, indexed)
        BY <2>1, <3>1 DEF IInv, IndexInv, Done
      <4>2. \A i \in 0 .. indexed : functions[i + 1].name \in FunctionNames
        BY <2>1, Names DEF IInv
      <4>3. indexed \in Nat /\ func_ht \in [FunctionNames -> Seq(Nat)]
        BY <2>1 DEF IInv, TypeOK
      <4>4. ListsOf(Listed(func_ht, functions[indexed + 1].name, indexed), functions, indexed + 1)
        BY <4>1, <4>2, <4>3, ListedLists
      <4> QED BY <2>1, <4>4
    <3> QED BY <1>1, <2>1, <3>1 DEF IndexInv, Done, Fresh
  <2> QED BY <1>2, <2>5, <2>6 DEF IInv
<1>4. CASE ~(indexed < Len(functions))
  <2>1. indexed = Len(functions) /\ indexed' = -1 /\ func_ht' = func_ht
    BY <1>4, Names DEF IInv, TypeOK, IndexNext
  <2>2. TypeOK'
    BY <1>1, <2>1 DEF IInv, TypeOK
  <2>3. IndexInv'
    BY <1>1, <2>1, Names DEF IInv, IndexInv, Done, Fresh
  <2> QED BY <1>2, <2>2, <2>3 DEF IInv
<1> QED BY <1>3, <1>4

(* A function f joins the table and the lists; nothing is said of owners.  *)
LEMMA AddedLists ==
  ASSUME IInv, Idle, NEW f \in FunctionType, Added(f), duplicated' \in BOOLEAN
  PROVE  TypeOK' /\ IndexInv'
<1> DEFINE n == Len(functions)
<1>1. /\ n \in Nat /\ functions' = Append(functions, f) /\ functions \in Seq(FunctionType)
      /\ functions' \in Seq(FunctionType) /\ Len(functions') = n + 1
      /\ functions'[n + 1] = f
      /\ \A i \in 0 .. n - 1 : functions'[i + 1] = functions[i + 1]
  BY DEF IInv, TypeOK, Added
<1>2. f.name \in FunctionNames
  BY DEF FunctionType
<1>3. func_ht' = Listed(func_ht, functions'[n + 1].name, n)
  BY <1>1 DEF Added
<1>4. func_ht' \in [FunctionNames -> Seq(Nat)]
  BY <1>1, <1>2, <1>3 DEF IInv, TypeOK, Listed
<1>5. TypeOK'
  BY <1>1, <1>4 DEF IInv, TypeOK, Added, Idle, structVars
<1>6. IndexInv'
  <2> SUFFICES ASSUME Fresh("functions")'
               PROVE  ListsOf(func_ht', functions', Done')
    BY DEF IndexInv
  <2>1. ListsOf(func_ht, functions, n)
    BY DEF IInv, IndexInv, Done, Idle, Added, Fresh
  <2>2. ListsOf(func_ht, functions', n)
    <3>1. \A i \in 0 .. n - 1 : functions'[i + 1].name = functions[i + 1].name
      BY <1>1
    <3> HIDE DEF n
    <3> QED BY <1>1, <2>1, <3>1, Names, SameNamesLists DEF IInv, TypeOK, n
  <2>3. \A i \in 0 .. n : functions'[i + 1].name \in FunctionNames
    <3>1. \A i \in 0 .. n : i + 1 \in 1 .. Len(functions')
      BY <1>1
    <3>2. \A j \in 1 .. Len(functions') : functions'[j] \in FunctionType
      BY <1>1
    <3>3. \A j \in 1 .. Len(functions') : functions'[j].name \in FunctionNames
      BY <3>2 DEF FunctionType
    <3> QED BY <3>1, <3>3
  <2>4. ListsOf(func_ht', functions', n + 1)
    BY <1>1, <1>3, <2>2, <2>3, ListedLists DEF IInv, TypeOK
  <2>5. Done' = n + 1
    BY <1>1 DEF Done, Idle, Added
  <2> QED BY <2>4, <2>5
<1> QED BY <1>5, <1>6

LEMMA AddFunctionIInv ==
  ASSUME IInv, NEW name \in FunctionNames, AddFunction(name)
  PROVE  IInv'
<1> DEFINE f == Function(name, StructType(name), EnumType(name), FALSE)
<1>1. Idle /\ Added(f) /\ duplicated' = duplicated
  BY DEF AddFunction
<1>2. name.owner \in Owners \cup {NULL}
  BY DEF FunctionNames
<1>3. StructType(name) \in Int /\ EnumType(name) \in Int
  BY <1>2, SearchesInt DEF IInv, TypeOK, StructType, EnumType
<1>4. f \in FunctionType /\ f.name = name /\ f.default = FALSE
  BY <1>3 DEF Function, FunctionType
<1>5. TypeOK' /\ IndexInv'
  BY <1>1, <1>4, AddedLists DEF IInv, TypeOK
<1>6. /\ DOMAIN functions' = DOMAIN functions \cup {Len(functions) + 1}
      /\ functions'[Len(functions) + 1] = f
      /\ \A i \in DOMAIN functions : functions'[i] = functions[i]
  <2> HIDE DEF f
  <2> QED BY <1>1, <1>4, AppendPlaces DEF IInv, TypeOK, Added
<1>7. OwnedInv'
  BY <1>1, <1>4, <1>6 DEF IInv, OwnedInv
<1>8. StructuresFound' /\ FreedOnce'
  BY <1>1 DEF IInv, StructuresFound, FreedOnce, Added, Fresh, structVars
<1>9. OwnersInferred'
  <2> SUFFICES ASSUME inferred, Fresh("structures"), Distinct(structures),
                      NEW i \in DOMAIN functions'
               PROVE  functions'[i] = Inferred(functions'[i])
    BY <1>1 DEF OwnersInferred, Added, Fresh, structVars, Inferred
  <2>1. CASE i \in DOMAIN functions
    BY <1>6, <2>1 DEF IInv, OwnersInferred
  <2>2. CASE i = Len(functions) + 1
    <3>1. CASE name.owner = NULL
      <4>1. StructType(name) = -1 /\ EnumType(name) = -1
        BY <3>1 DEF StructType, EnumType
      <4>2. Inferred(f) = [f EXCEPT !.struct_type = -1, !.enum_type = -1]
        BY <1>4, <3>1 DEF Inferred
      <4>3. Inferred(f) = f
        BY <4>1, <4>2 DEF Function
      <4> QED BY <1>6, <2>2, <4>3
    <3>2. CASE name.owner # NULL
      <4>1. StructType(name) = First(name.owner, structures)
        BY <1>2, <3>2, FirstIsLast DEF IInv, TypeOK, StructuresFound, StructType
      <4>2. StructType(name) >= 0 <=> StructType(name) # -1
        <5>1. IsIn(name.owner, structures) => StructType(name) >= 0
          BY <4>1, FirstFound DEF IInv, TypeOK
        <5>2. ~IsIn(name.owner, structures) => StructType(name) = -1
          BY <4>1 DEF First
        <5> QED BY <1>3, <5>1, <5>2
      <4>3. EnumType(name) = IF StructType(name) # -1 THEN -1 ELSE First(name.owner, enums)
        BY <3>2, <4>2 DEF EnumType
      <4>4. Inferred(f) = [f EXCEPT !.struct_type = StructType(name), !.enum_type = EnumType(name)]
        BY <1>4, <3>2, <4>1, <4>3 DEF Inferred
      <4>5. Inferred(f) = f
        BY <4>4 DEF Function
      <4> QED BY <1>6, <2>2, <4>5
    <3> QED BY <3>1, <3>2
  <2> QED BY <1>6, <2>1, <2>2
<1> QED BY <1>5, <1>7, <1>8, <1>9 DEF IInv

LEMMA DupFunctionIInv ==
  ASSUME IInv, NEW k \in 0 .. Len(functions) - 1, DupFunction(k)
  PROVE  IInv'
<1> DEFINE g == functions[k + 1]
           f == [g EXCEPT !.owned = FALSE]
<1>1. Idle /\ Added(f) /\ duplicated' = (duplicated \/ g.default)
  BY DEF DupFunction
<1>2. k + 1 \in DOMAIN functions /\ g \in FunctionType
  BY Names DEF IInv
<1>3. f \in FunctionType /\ f.name = g.name /\ f.default = g.default
  BY <1>2 DEF FunctionType
<1>4. duplicated' \in BOOLEAN
  BY <1>1, <1>2 DEF IInv, TypeOK, FunctionType
<1>5. TypeOK' /\ IndexInv'
  BY <1>1, <1>3, <1>4, AddedLists
<1>6. /\ DOMAIN functions' = DOMAIN functions \cup {Len(functions) + 1}
      /\ functions'[Len(functions) + 1] = f
      /\ \A i \in DOMAIN functions : functions'[i] = functions[i]
  BY <1>1, <1>3, AppendPlaces DEF IInv, TypeOK, Added
<1>7. OwnedInv'
  BY <1>1, <1>3, <1>6 DEF IInv, OwnedInv
<1>8. StructuresFound' /\ FreedOnce'
  BY <1>1 DEF IInv, StructuresFound, FreedOnce, Added, Fresh, structVars
<1>9. OwnersInferred'
  <2> SUFFICES ASSUME inferred, Fresh("structures"), Distinct(structures),
                      NEW i \in DOMAIN functions'
               PROVE  functions'[i] = Inferred(functions'[i])
    BY <1>1 DEF OwnersInferred, Added, Fresh, structVars, Inferred
  <2>1. CASE i \in DOMAIN functions
    BY <1>6, <2>1 DEF IInv, OwnersInferred
  <2>2. CASE i = Len(functions) + 1
    <3>1. g = Inferred(g)
      BY <1>2 DEF IInv, OwnersInferred
    <3> QED BY <1>2, <1>3, <1>6, <2>2, <3>1 DEF Inferred, FunctionType
  <2> QED BY <1>6, <2>1, <2>2
<1> QED BY <1>5, <1>7, <1>8, <1>9 DEF IInv

LEMMA InitMemberFunctionsIInv == IInv /\ InitMemberFunctions => IInv'
<1> SUFFICES ASSUME IInv, InitMemberFunctions PROVE IInv'
  OBVIOUS
<1>1. /\ functions' = [i \in DOMAIN functions |-> Inferred(functions[i])]
      /\ UNCHANGED <<func_ht, indexed, structures, struct_ht, enums, stale, duplicated, fault>>
      /\ inferred' = TRUE
  BY DEF InitMemberFunctions, structVars
<1>2. \A g \in FunctionType :
        /\ Inferred(g) \in FunctionType /\ Inferred(g).name = g.name
        /\ Inferred(g).default = g.default /\ Inferred(g).owned = g.owned
        /\ Inferred(Inferred(g)) = Inferred(g)
  <2> SUFFICES ASSUME NEW g \in FunctionType
               PROVE  /\ Inferred(g) \in FunctionType /\ Inferred(g).name = g.name
                      /\ Inferred(g).default = g.default /\ Inferred(g).owned = g.owned
                      /\ Inferred(Inferred(g)) = Inferred(g)
    OBVIOUS
  <2>1. \A x : First(x, structures) \in Int /\ First(x, enums) \in Int
    BY SearchesInt DEF IInv, TypeOK
  <2> DEFINE h == Inferred(g)
             own == g.name.owner
             t == IF own = NULL THEN -1 ELSE First(own, structures)
             e == IF own = NULL \/ t # -1 THEN -1 ELSE First(own, enums)
  <2>2. t \in Int /\ e \in Int
    BY <2>1
  <2>3. h = [g EXCEPT !.struct_type = t, !.enum_type = e]
    BY DEF Inferred
  <2>4. h.name = g.name => Inferred(h) = [h EXCEPT !.struct_type = t, !.enum_type = e]
    BY DEF Inferred
  <2> HIDE DEF h, t, e
  <2>5. /\ h \in FunctionType /\ h.name = g.name /\ h.default = g.default /\ h.owned = g.owned
        /\ h.struct_type = t /\ h.enum_type = e
    BY <2>2, <2>3 DEF FunctionType
  <2>6. [h EXCEPT !.struct_type = t, !.enum_type = e] = h
    BY <2>5 DEF FunctionType
  <2> QED BY <2>4, <2>5, <2>6 DEF h
<1>3. /\ functions' \in Seq(FunctionType) /\ Len(functions') = Len(functions)
      /\ DOMAIN functions' = DOMAIN functions
  BY <1>1, <1>2, Names DEF IInv
<1>4. TypeOK'
  BY <1>1, <1>3 DEF IInv, TypeOK
<1>5. IndexInv'
  <2> SUFFICES ASSUME Fresh("functions") PROVE ListsOf(func_ht, functions', Done)
    BY <1>1, <1>3 DEF IndexInv, Done, Fresh
  <2>1. Done \in Nat /\ Done <= Len(functions) /\ ListsOf(func_ht, functions, Done)
    BY Names DEF IInv, IndexInv, Done, TypeOK
  <2>2. \A i \in 0 .. Done - 1 : i + 1 \in DOMAIN functions
    BY <2>1, Names DEF IInv
  <2>3. \A i \in 0 .. Done - 1 : /\ functions'[i + 1].name = functions[i + 1].name
                                 /\ functions[i + 1].name \in FunctionNames
    BY <1>1, <1>2, <2>2, Names DEF IInv, FunctionType
  <2> HIDE DEF Done
  <2> QED BY <2>1, <2>3, SameNamesLists DEF IInv, TypeOK
<1>6. OwnedInv'
  BY <1>1, <1>2, <1>3, Names DEF IInv, OwnedInv
<1>7. StructuresFound' /\ FreedOnce'
  BY <1>1 DEF IInv, StructuresFound, FreedOnce, Fresh
<1>8. OwnersInferred'
  <2>1. \A i \in DOMAIN functions' : functions'[i] = Inferred(functions'[i])
    BY <1>1, <1>2, <1>3, Names DEF IInv
  <2>2. ASSUME NEW i \in DOMAIN functions' PROVE functions'[i] = Inferred(functions[i])'
    <3>1. functions'[i] = Inferred(functions'[i])
      BY <2>1
    <3>2. structures' = structures /\ enums' = enums
      BY <1>1
    <3> QED BY <3>1, <3>2, Zenon DEF Inferred
  <2> QED BY <2>2 DEF OwnersInferred
<1> QED BY <1>4, <1>5, <1>6, <1>7, <1>8 DEF IInv

LEMMA FreeFunctionsIInv == IInv /\ FreeFunctions => IInv'
<1> SUFFICES ASSUME IInv, FreeFunctions PROVE IInv'
  OBVIOUS
<1>1. /\ functions' = <<>> /\ indexed = -1 /\ fault' = FreesTwice
      /\ stale' = stale \cup {"functions"}
      /\ UNCHANGED <<func_ht, indexed, structures, struct_ht, enums, inferred, duplicated>>
  BY DEF FreeFunctions, Idle, structVars
<1>2. TypeOK'
  BY <1>1 DEF IInv, TypeOK, FreesTwice
<1>3. IndexInv' /\ OwnedInv' /\ StructuresFound' /\ OwnersInferred'
  BY <1>1 DEF IInv, IndexInv, OwnedInv, StructuresFound, OwnersInferred, Fresh
<1>4. FreedOnce'
  BY <1>1, Names DEF IInv, OwnedInv, FreedOnce, FreesTwice, TypeOK
<1> QED BY <1>2, <1>3, <1>4 DEF IInv

LEMMA AddStructIInv ==
  ASSUME IInv, NEW name \in Owners, AddStruct(name)
  PROVE  IInv'
<1>1. /\ structures' = Append(structures, name)
      /\ struct_ht' = [struct_ht EXCEPT ![name] = Len(structures)]
      /\ inferred' = FALSE
      /\ UNCHANGED <<functions, func_ht, indexed, enums, stale, duplicated, fault>>
  BY DEF AddStruct, functionVars
<1>2. TypeOK'
  <2>1. structures' \in Seq(Owners) /\ Len(structures) \in Int
    BY <1>1 DEF IInv, TypeOK
  <2>2. struct_ht' \in [Owners -> Int]
    BY <1>1, <2>1 DEF IInv, TypeOK
  <2> QED BY <1>1, <2>1, <2>2 DEF IInv, TypeOK
<1>3. IndexInv' /\ OwnedInv' /\ OwnersInferred' /\ FreedOnce'
  BY <1>1 DEF IInv, IndexInv, Done, OwnedInv, OwnersInferred, FreedOnce, Fresh
<1>4. StructuresFound'
  <2> SUFFICES ASSUME Fresh("structures"), NEW n \in Owners
               PROVE  struct_ht'[n] = Last(n, structures')
    BY <1>1 DEF StructuresFound, Fresh
  <2>1. Last(n, structures') = IF n = name THEN Len(structures) ELSE Last(n, structures)
    BY <1>1, LastOfAppend DEF IInv, TypeOK
  <2>2. struct_ht'[n] = IF n = name THEN Len(structures) ELSE struct_ht[n]
    BY <1>1 DEF IInv, TypeOK
  <2> QED BY <2>1, <2>2 DEF IInv, StructuresFound
<1> QED BY <1>2, <1>3, <1>4 DEF IInv

LEMMA FreeStructuresIInv == IInv /\ FreeStructures => IInv'
<1> SUFFICES ASSUME IInv, FreeStructures PROVE IInv'
  OBVIOUS
<1>1. /\ structures' = <<>> /\ inferred' = FALSE /\ stale' = stale \cup {"structures"}
      /\ UNCHANGED <<functions, func_ht, indexed, struct_ht, enums, duplicated, fault>>
  BY DEF FreeStructures, functionVars
<1>2. TypeOK'
  <2>1. structures' \in Seq(Owners)
    BY <1>1
  <2> QED BY <1>1, <2>1 DEF IInv, TypeOK
<1>3. IndexInv' /\ OwnedInv' /\ StructuresFound' /\ OwnersInferred' /\ FreedOnce'
  BY <1>1 DEF IInv, IndexInv, Done, OwnedInv, StructuresFound, OwnersInferred, FreedOnce, Fresh
<1> QED BY <1>2, <1>3 DEF IInv

LEMMA FreeEnumsIInv == IInv /\ FreeEnums => IInv'
<1> SUFFICES ASSUME IInv, FreeEnums PROVE IInv'
  OBVIOUS
<1>1. /\ enums' = <<>> /\ inferred' = FALSE
      /\ UNCHANGED <<functions, func_ht, indexed, structures, struct_ht, stale, duplicated, fault>>
  BY DEF FreeEnums, functionVars
<1>2. TypeOK'
  <2>1. enums' \in Seq(Owners)
    BY <1>1
  <2> QED BY <1>1, <2>1 DEF IInv, TypeOK
<1>3. IndexInv' /\ OwnedInv' /\ StructuresFound' /\ OwnersInferred' /\ FreedOnce'
  BY <1>1 DEF IInv, IndexInv, Done, OwnedInv, StructuresFound, OwnersInferred, FreedOnce, Fresh
<1> QED BY <1>2, <1>3 DEF IInv

LEMMA NextIInv == IInv /\ [Next]_vars => IInv'
<1> SUFFICES ASSUME IInv, [Next]_vars PROVE IInv'
  OBVIOUS
<1>1. CASE UNCHANGED vars
  BY <1>1 DEF vars, IInv, TypeOK, IndexInv, Done, OwnedInv, StructuresFound, OwnersInferred,
              FreedOnce, Fresh, Inferred
<1> QED BY <1>1, IndexFunctionsIInv, IndexNextIInv, AddFunctionIInv, DupFunctionIInv,
           InitMemberFunctionsIInv, FreeFunctionsIInv, AddStructIInv, FreeStructuresIInv,
           FreeEnumsIInv DEF Next

LEMMA SpecIInv == Spec => []IInv
<1> QED BY InitIInv, NextIInv, PTL DEF Spec
-----------------------------------------------------------------------------
(* Complete and ordered lists make the two look-ups inverse.               *)
LEMMA ListsFind == IInv => FunctionsFound
<1> SUFFICES ASSUME IInv, Fresh("functions"), indexed = -1
             PROVE  /\ \A i \in 0 .. Len(functions) - 1 :
                         GetFunction(functions[i + 1].name, GetFunctionIndex(i)) = i
                    /\ \A name \in FunctionNames : \A p, q \in 1 .. Len(func_ht[name]) :
                         p < q => func_ht[name][p] < func_ht[name][q]
  BY DEF FunctionsFound
<1>1. ListsOf(func_ht, functions, Len(functions))
  BY DEF IInv, IndexInv, Done
<1>2. \A name \in FunctionNames : func_ht[name] \in Seq(Nat)
  BY DEF IInv, TypeOK
<1>3. \A name \in FunctionNames : DOMAIN func_ht[name] = 1 .. Len(func_ht[name])
  BY <1>2
<1>4. ASSUME NEW i \in 0 .. Len(functions) - 1
      PROVE  GetFunction(functions[i + 1].name, GetFunctionIndex(i)) = i
  <2> DEFINE list == func_ht[functions[i + 1].name]
             p == First(i, list)
  <2>1. functions[i + 1].name \in FunctionNames
    BY Names DEF IInv
  <2>2. list \in Seq(Nat) /\ IsIn(i, list)
    BY <1>1, <1>2, <2>1 DEF ListsOf, ListsComplete, IsIn
  <2> HIDE DEF list
  <2>3. p \in 0 .. Len(list) - 1 /\ list[p + 1] = i
    BY <2>2, FirstFound
  <2> HIDE DEF p
  <2>4. p # -1 /\ p < Len(list)
    BY <2>2, <2>3
  <2>5. GetFunctionIndex(i) = p
    BY <2>4 DEF GetFunctionIndex, p, list
  <2> QED BY <2>3, <2>4, <2>5 DEF GetFunction, list
<1>5. \A name \in FunctionNames : \A p, q \in 1 .. Len(func_ht[name]) :
        p < q => func_ht[name][p] < func_ht[name][q]
  BY <1>1, <1>3 DEF ListsOf, ListsOrdered
<1> QED BY <1>4, <1>5

(* ain_get_function finds what ain_get_function_index says.                *)
THEOREM FunctionsAreFound == Spec => []FunctionsFound
<1> QED BY SpecIInv, ListsFind, PTL

(* ain_get_struct finds the last structure of the name.                    *)
THEOREM StructuresAreFound == Spec => []StructuresFound
<1>1. IInv => StructuresFound
  BY DEF IInv
<1> QED BY <1>1, SpecIInv, PTL

(* The two searches for the owner of a function agree.                     *)
THEOREM OwnersAreInferred == Spec => []OwnersInferred
<1>1. IInv => OwnersInferred
  BY DEF IInv
<1> QED BY <1>1, SpecIInv, PTL

(* Only the default texts of duplicated functions are freed twice.         *)
THEOREM FunctionsAreFreedOnce == Spec => []FreedOnce
<1>1. IInv => FreedOnce
  BY DEF IInv
<1> QED BY <1>1, SpecIInv, PTL
-----------------------------------------------------------------------------
(* A new image (ain_new): every section that something is added to is      *)
(* present, but GSET and FNAM from version 12 on.                          *)
Growing == {"GLOB", "GSET", "STRT", "HLL0", "SWI0", "FNAM", Messages}

SectionsInv ==
  work = "sections" =>
    /\ major \in Nat /\ new_minor \in Nat
    /\ entries \in [Sections -> Nat]
    /\ Growing \ {"GSET", "FNAM"} \subseteq present
    /\ major < 12 => {"GSET", "FNAM"} \subseteq present
    /\ \A s \in Sections : entries[s] > 0 => s \in present \cup Growing

LEMMA InitSectionsInv == InitAin => SectionsInv
<1> SUFFICES ASSUME InitAin, work = "sections", InitSections PROVE SectionsInv
  BY DEF InitAin, SectionsInv
<1>1. PICK v \in Versions :
        /\ major = v.major /\ new_minor = v.minor
        /\ {"GLOB", "STRT", "HLL0", "SWI0"} \cup {Messages} \cup PresentIf(major < 12, {"KEYC", "GSET", "FNAM"})
             \subseteq present
        /\ entries = [s \in Sections |-> IF s = Messages THEN 1 ELSE 0]
  BY DEF InitSections
<1>2. major \in Nat /\ new_minor \in Nat
  BY <1>1, AinAssumption
<1>3. major < 12 => {"GSET", "FNAM"} \subseteq present
  BY <1>1 DEF PresentIf
<1>4. Growing \ {"GSET", "FNAM"} \subseteq present
  BY <1>1 DEF Growing
<1>5. \A s \in Sections : entries[s] > 0 => s \in present \cup Growing
  BY <1>1 DEF Growing
<1> QED BY <1>1, <1>2, <1>3, <1>4, <1>5 DEF SectionsInv

LEMMA NextSectionsInv == SectionsInv /\ [NextAin]_varsAin => SectionsInv'
<1> SUFFICES ASSUME SectionsInv, work = "sections", NextSections, work' = work PROVE SectionsInv'
  BY DEF NextAin, varsAin, newVars, SectionsInv, Growing, Messages, HasMsg1
<1>1. /\ major \in Nat /\ new_minor \in Nat /\ entries \in [Sections -> Nat]
      /\ Growing \ {"GSET", "FNAM"} \subseteq present
      /\ major < 12 => {"GSET", "FNAM"} \subseteq present
      /\ \A s \in Sections : entries[s] > 0 => s \in present \cup Growing
  BY DEF SectionsInv
<1>2. major' = major /\ new_minor' = new_minor /\ Growing' = Growing /\ present \subseteq present'
  BY DEF NextSections, AddEntry, AddType, FreeTable, Grow, Growing, Messages, HasMsg1
<1>3. Growing \subseteq Sections
  BY DEF Growing, Messages, Sections
<1>4. ASSUME NEW s \in Sections, entries' = [entries EXCEPT ![s] = @ + 1], s \in present' \cup Growing
      PROVE  SectionsInv'
  BY <1>1, <1>2, <1>4 DEF SectionsInv
<1>5. CASE AddEntry
  BY <1>3, <1>4, <1>5 DEF AddEntry, Grow, Growing
<1>6. CASE AddType
  BY <1>4, <1>6 DEF AddType, Grow, Sections
<1>7. CASE FreeTable
  BY <1>1, <1>2, <1>7 DEF FreeTable, SectionsInv
<1> QED BY <1>5, <1>6, <1>7 DEF NextSections

(* Whatever is added to a new image, in any version, its section is        *)
(* present, but for file names and initial values from version 12 on.      *)
THEOREM NothingIsDropped == SpecAin => []NothingDropped
<1>1. SectionsInv => NothingDropped
  BY DEF SectionsInv, NothingDropped, Growing
<1> QED BY <1>1, InitSectionsInv, NextSectionsInv, PTL DEF SpecAin
-----------------------------------------------------------------------------
(* The index of strings, once it is made, has the first occurrence of each *)
(* text, until the strings are freed.                                      *)
StringsInv == strings \in Seq(Texts) /\ (string_ht # NULL => string_ht \in [Texts -> Int]) /\ StringsFound

LEMMA FirstIs ==
  ASSUME NEW S, NEW s \in Seq(S), NEW x, NEW i \in 0 .. Len(s) - 1, s[i + 1] = x,
         \A j \in 0 .. i - 1 : s[j + 1] # x
  PROVE  First(x, s) = i
<1>1. IsIn(x, s)
  BY DEF IsIn
<1>2. First(x, s) \in 0 .. Len(s) - 1 /\ s[First(x, s) + 1] = x
      /\ \A j \in 0 .. First(x, s) - 1 : s[j + 1] # x
  BY <1>1, FirstFound
<1> DEFINE f == First(x, s)
<1>3. f \in Int /\ i \in Int /\ f >= 0 /\ i >= 0
  BY <1>2
<1>4. ~ (f < i) /\ ~ (i < f)
  <2> HIDE DEF f
  <2> QED BY <1>2, <1>3 DEF f
<1> QED BY <1>3, <1>4

LEMMA FirstInt == ASSUME NEW S, NEW s \in Seq(S), NEW x
                  PROVE  First(x, s) \in Int /\ First(x, s) < Len(s) /\ (First(x, s) < 0 <=> ~IsIn(x, s))
<1>1. CASE IsIn(x, s)
  <2>1. First(x, s) \in 0 .. Len(s) - 1
    BY <1>1, FirstFound
  <2> QED BY <1>1, <2>1
<1>2. CASE ~IsIn(x, s)
  BY <1>2 DEF First
<1> QED BY <1>1, <1>2

LEMMA FirstOfAppend ==
  ASSUME NEW S, NEW s \in Seq(S), NEW x \in S, ~IsIn(x, s), NEW y
  PROVE  First(y, Append(s, x)) = IF y = x THEN Len(s) ELSE First(y, s)
<1> DEFINE t == Append(s, x)
<1>1. /\ t \in Seq(S) /\ Len(t) = Len(s) + 1 /\ Len(s) \in Nat
      /\ t[Len(s) + 1] = x
      /\ \A i \in 0 .. Len(s) - 1 : t[i + 1] = s[i + 1]
      /\ DOMAIN t = 1 .. Len(s) + 1 /\ DOMAIN s = 1 .. Len(s)
  OBVIOUS
<1> HIDE DEF t
<1>2. CASE y = x
  <2> DEFINE l == Len(s)
  <2>1. ASSUME NEW j \in 0 .. l - 1 PROVE t[j + 1] # y
    <3>1. j + 1 \in DOMAIN s /\ t[j + 1] = s[j + 1]
      BY <1>1
    <3> QED BY <1>2, <3>1 DEF IsIn
  <2>2. l \in 0 .. Len(t) - 1 /\ t[l + 1] = y
    BY <1>1, <1>2
  <2> HIDE DEF l
  <2>3. t \in Seq(S)
    BY <1>1
  <2>4. \A j \in 0 .. l - 1 : t[j + 1] # y
    BY <2>1
  <2>5. First(y, t) = l
    BY <2>2, <2>3, <2>4, FirstIs
  <2> QED BY <1>2, <2>5 DEF t, l
<1>3. CASE y # x /\ IsIn(y, s)
  <2> DEFINE f == First(y, s)
  <2>1. f \in 0 .. Len(s) - 1 /\ s[f + 1] = y /\ \A j \in 0 .. f - 1 : s[j + 1] # y
    BY <1>3, FirstFound
  <2> HIDE DEF f
  <2>2. f \in 0 .. Len(t) - 1 /\ t[f + 1] = y /\ \A j \in 0 .. f - 1 : t[j + 1] # y
    BY <1>1, <2>1
  <2>3. t \in Seq(S)
    BY <1>1
  <2>4. First(y, t) = f
    BY <2>2, <2>3, FirstIs
  <2> QED BY <1>3, <2>4 DEF f, t
<1>4. CASE y # x /\ ~IsIn(y, s)
  <2>1. \A i \in 1 .. Len(s) : t[i] = s[i]
    <3>1. TAKE i \in 1 .. Len(s)
    <3>2. i - 1 \in 0 .. Len(s) - 1 /\ i - 1 + 1 = i
      BY <1>1
    <3> QED BY <1>1, <3>2
  <2>2. ~IsIn(y, t)
    BY <1>1, <1>4, <2>1 DEF IsIn
  <2> QED BY <1>4, <2>2 DEF First, t
<1> QED BY <1>2, <1>3, <1>4

LEMMA InitStringsInv == InitAin => StringsInv
<1> SUFFICES ASSUME InitAin PROVE StringsInv
  OBVIOUS
<1>1. strings \in Seq(Texts)
  <2>1. strings \in StringTables \/ strings = <<>>
    BY DEF InitAin, InitStrings, NoStrings
  <2>2. <<>> \in Seq(Texts)
    OBVIOUS
  <2> QED BY <2>1, <2>2, AinAssumption
<1>2. string_ht = NULL
  BY DEF InitAin, InitStrings, NoStrings
<1> QED BY <1>1, <1>2 DEF StringsInv, StringsFound

LEMMA UnchangedStringsInv == StringsInv /\ UNCHANGED stringVars => StringsInv'
BY DEF stringVars, StringsInv, StringsFound

LEMMA NextStringsInv == StringsInv /\ [NextAin]_varsAin => StringsInv'
<1> SUFFICES ASSUME StringsInv, NextStrings PROVE StringsInv'
  BY UnchangedStringsInv DEF NextAin, varsAin
<1> DEFINE ht == StringIndex
<1>1. strings \in Seq(Texts) /\ (string_ht # NULL => string_ht \in [Texts -> Int])
      /\ (fresh /\ string_ht # NULL => \A t \in Texts : string_ht[t] = First(t, strings))
  BY DEF StringsInv, StringsFound
<1>2. ht \in [Texts -> Int] /\ (fresh => \A t \in Texts : ht[t] = First(t, strings))
  BY <1>1, FirstInt DEF StringIndex
<1> HIDE DEF ht
<1>3. ASSUME NEW t \in Texts, AddString(t) PROVE StringsInv'
  <2>1. /\ string_ht' = IF ht[t] >= 0 THEN ht ELSE [ht EXCEPT ![t] = Len(strings)]
        /\ strings' = IF ht[t] < 0 \/ ht[t] = Len(strings) THEN Append(strings, t) ELSE strings
        /\ fresh' = fresh
    BY <1>3 DEF AddString, ht
  <2>2. strings' \in Seq(Texts) /\ string_ht' \in [Texts -> Int]
    BY <1>1, <1>2, <2>1
  <2>3. ASSUME fresh PROVE \A u \in Texts : string_ht'[u] = First(u, strings')
    <3>1. ht[t] = First(t, strings) /\ First(t, strings) < Len(strings) /\ First(t, strings) \in Int
          /\ (First(t, strings) < 0 <=> ~IsIn(t, strings))
      BY <1>1, <1>2, <2>3, FirstInt
    <3>2. CASE IsIn(t, strings)
      <4>1. ht[t] >= 0 /\ ht[t] # Len(strings)
        BY <1>1, <3>1, <3>2
      <4>2. string_ht' = ht /\ strings' = strings
        BY <2>1, <4>1, <1>2
      <4> QED BY <1>2, <2>3, <4>2
    <3>3. CASE ~IsIn(t, strings)
      <4>1. string_ht' = [ht EXCEPT ![t] = Len(strings)] /\ strings' = Append(strings, t)
        BY <2>1, <3>1, <3>3
      <4>2. \A u \in Texts : First(u, strings') = IF u = t THEN Len(strings) ELSE First(u, strings)
        BY <1>1, <3>3, <4>1, FirstOfAppend
      <4> QED BY <1>2, <2>3, <4>1, <4>2
    <3> QED BY <3>2, <3>3
  <2> QED BY <2>1, <2>2, <2>3 DEF StringsInv, StringsFound
<1>4. CASE GetStringNo
  <2>1. string_ht' = ht /\ strings' = strings /\ fresh' = fresh
    BY <1>4 DEF GetStringNo, ht
  <2> QED BY <1>1, <1>2, <2>1 DEF StringsInv, StringsFound
<1>5. CASE FreeStrings
  <2>1. strings' = <<>> /\ fresh' = (string_ht = NULL) /\ string_ht' = string_ht
    BY <1>5 DEF FreeStrings
  <2>2. strings' \in Seq(Texts)
    BY <2>1
  <2> QED BY <1>1, <2>1, <2>2 DEF StringsInv, StringsFound
<1> QED BY <1>3, <1>4, <1>5 DEF NextStrings

(* ain_get_string_no finds the first occurrence of a text, whatever was    *)
(* read, added and looked up, unless the strings were freed.               *)
THEOREM StringsAreFound == SpecAin => []StringsFound
<1>1. StringsInv => StringsFound
  BY DEF StringsInv
<1> QED BY <1>1, InitStringsInv, NextStringsInv, PTL DEF SpecAin
-----------------------------------------------------------------------------
(* The code of an image, laid out (Layout of Dasm): its instructions       *)
(* follow each other without gaps, so that no two are at the same place    *)
(* and all are before the end.                                             *)
LEMMA Counting ==
  ASSUME NEW P, P \subseteq Nat, 0 \in P, \A n \in P : n + 1 \in P
  PROVE  P = Nat
<1> SUFFICES ASSUME Nat \ P # {} PROVE FALSE
  OBVIOUS
<1>1. PICK m \in Nat \ P : \A k \in Nat \ P : m <= k
  BY LeastNatural
<1>2. m # 0 /\ m - 1 \in Nat /\ ~ (m <= m - 1) /\ m - 1 + 1 = m
  OBVIOUS
<1>3. m - 1 \in P
  BY <1>1, <1>2
<1> QED BY <1>2, <1>3

LEMMA SumsExist ==
  ASSUME NEW n \in Nat, NEW w \in [1 .. n -> Nat]
  PROVE  \E at \in [1 .. n + 1 -> Nat] : at = [k \in 1 .. n + 1 |-> IF k = 1 THEN 0 ELSE at[k - 1] + w[k - 1]]
<1> DEFINE Sums(m, at) == /\ at \in [1 .. m + 1 -> Nat]
                          /\ at = [k \in 1 .. m + 1 |-> IF k = 1 THEN 0 ELSE at[k - 1] + w[k - 1]]
           P == {m \in Nat : m <= n => \E at : Sums(m, at)}
<1> HIDE DEF Sums
<1>1. 0 \in P
  <2>1. Sums(0, [k \in 1 .. 1 |-> 0])
    BY DEF Sums
  <2> QED BY <2>1
<1>2. ASSUME NEW m \in P PROVE m + 1 \in P
  <2>1. m \in Nat /\ (m <= n => \E at : Sums(m, at))
    OBVIOUS
  <2> SUFFICES ASSUME m + 1 <= n PROVE \E at : Sums(m + 1, at)
    BY <2>1
  <2>2. PICK at : Sums(m, at)
    BY <2>1
  <2> DEFINE next == [k \in 1 .. m + 2 |-> IF k = m + 2 THEN at[m + 1] + w[m + 1] ELSE at[k]]
  <2>3. next \in [1 .. m + 2 -> Nat]
    <3>1. m + 1 \in 1 .. m + 1 /\ m + 1 \in 1 .. n
      BY <2>1
    <3>2. at[m + 1] \in Nat /\ w[m + 1] \in Nat
      BY <2>2, <3>1 DEF Sums
    <3>3. \A k \in 1 .. m + 2 : k # m + 2 => at[k] \in Nat
      BY <2>1, <2>2 DEF Sums
    <3> QED BY <3>2, <3>3
  <2>4. ASSUME NEW k \in 1 .. m + 2
        PROVE  next[k] = IF k = 1 THEN 0 ELSE next[k - 1] + w[k - 1]
    <3>1. CASE k = m + 2
      <4>1. k # 1 /\ k - 1 = m + 1 /\ k - 1 \in 1 .. m + 2 /\ k - 1 # m + 2
        BY <2>1, <3>1
      <4>2. next[k] = at[m + 1] + w[m + 1] /\ next[k - 1] = at[m + 1]
        BY <3>1, <4>1
      <4> QED BY <4>1, <4>2
    <3>2. CASE k # m + 2
      <4>1. k \in 1 .. m + 1 /\ next[k] = at[k]
        BY <2>1, <3>2
      <4>2. at[k] = IF k = 1 THEN 0 ELSE at[k - 1] + w[k - 1]
        BY <2>2, <4>1 DEF Sums
      <4>3. k # 1 => k - 1 \in 1 .. m + 2 /\ next[k - 1] = at[k - 1]
        BY <2>1, <3>2
      <4> QED BY <4>1, <4>2, <4>3
    <3> QED BY <3>1, <3>2
  <2>5. m + 1 + 1 = m + 2 /\ next = [k \in 1 .. m + 2 |-> next[k]]
    BY <2>1
  <2>6. Sums(m + 1, next)
    <3> HIDE DEF next
    <3> QED BY <2>3, <2>4, <2>5 DEF Sums
  <2> QED BY <2>6
<1> HIDE DEF P
<1>3. P \subseteq Nat
  BY DEF P
<1>4. n \in P
  BY <1>1, <1>2, <1>3, Counting
<1>5. \E at : Sums(n, at)
  BY <1>4 DEF P
<1> QED BY <1>5 DEF Sums

WidthsOf(a) == [k \in 1 .. Len(a.code) |-> Cursor!Width(a.code[k].op, a.version >= 11)]

LEMMA WidthPositive == ASSUME NEW op, NEW new PROVE Cursor!Width(op, new) \in Nat \ {0}
<1>1. Cursor!NrArgs(op, new) \in Nat
  BY DEF Cursor!NrArgs
<1> QED BY <1>1 DEF Cursor!Width

LEMMA LayoutSums ==
  ASSUME NEW a \in Programs
  PROVE  /\ Len(a.code) \in Nat /\ DOMAIN a.code = 1 .. Len(a.code)
         /\ DOMAIN Cursor!Layout[a] = 1 .. Len(a.code) + 1
         /\ Cursor!Layout[a][1] = 0
         /\ \A k \in 1 .. Len(a.code) :
              Cursor!Layout[a][k + 1] = Cursor!Layout[a][k] + Cursor!Width(a.code[k].op, a.version >= 11)
<1> DEFINE n == Len(a.code)
           w == WidthsOf(a)
           Rule(at) == at = [k \in 1 .. Len(a.code) + 1 |->
                               IF k = 1 THEN 0 ELSE at[k - 1] + Cursor!Width(a.code[k - 1].op, a.version >= 11)]
<1>1. n \in Nat /\ DOMAIN a.code = 1 .. n
  BY AinAssumption
<1>2. w \in [1 .. n -> Nat] /\ \A k \in 1 .. n : w[k] = Cursor!Width(a.code[k].op, a.version >= 11)
  BY <1>1, WidthPositive DEF WidthsOf
<1>3. PICK sums \in [1 .. n + 1 -> Nat] :
        sums = [k \in 1 .. n + 1 |-> IF k = 1 THEN 0 ELSE sums[k - 1] + w[k - 1]]
  BY <1>1, <1>2, SumsExist
<1>4. Rule(sums)
  <2>1. ASSUME NEW k \in 1 .. n + 1
        PROVE  sums[k] = IF k = 1 THEN 0 ELSE sums[k - 1] + Cursor!Width(a.code[k - 1].op, a.version >= 11)
    <3>1. k # 1 => k - 1 \in 1 .. n
      BY <1>1
    <3>2. sums[k] = IF k = 1 THEN 0 ELSE sums[k - 1] + w[k - 1]
      BY <1>3
    <3> QED BY <1>2, <3>1, <3>2
  <2>2. sums = [k \in 1 .. n + 1 |-> sums[k]]
    OBVIOUS
  <2> QED BY <2>1, <2>2
<1>5. Cursor!Layout[a] = CHOOSE at : Rule(at)
  BY DEF Cursor!Layout
<1> DEFINE at == Cursor!Layout[a]
<1>6. Rule(at)
  <2> HIDE DEF Rule
  <2> QED BY <1>4, <1>5
<1> HIDE DEF at
<1>7. at[1] = 0
  BY <1>1, <1>6
<1>8. ASSUME NEW k \in 1 .. n
      PROVE  at[k + 1] = at[k] + Cursor!Width(a.code[k].op, a.version >= 11)
  <2>1. k + 1 \in 1 .. n + 1 /\ k + 1 # 1 /\ k + 1 - 1 = k
    BY <1>1
  <2> QED BY <1>6, <2>1
<1>9. DOMAIN at = 1 .. n + 1
  BY <1>6
<1> QED BY <1>1, <1>7, <1>8, <1>9 DEF at

LEMMA LayoutOrdered ==
  ASSUME NEW a \in Programs
  PROVE  \A k \in 1 .. Len(a.code) + 1 :
           /\ Cursor!Layout[a][k] \in Nat
           /\ \A j \in 1 .. k - 1 : Cursor!Layout[a][j] < Cursor!Layout[a][k]
<1> DEFINE n  == Len(a.code)
           at == Cursor!Layout[a]
           Fine(k) == at[k] \in Nat /\ \A j \in 1 .. k - 1 : at[j] \in Nat /\ at[j] < at[k]
           P  == {m \in Nat : m <= n => Fine(m + 1)}
<1>1. n \in Nat /\ at[1] = 0
      /\ \A k \in 1 .. n : at[k + 1] = at[k] + Cursor!Width(a.code[k].op, a.version >= 11)
  BY LayoutSums
<1> HIDE DEF at, n
<1>2. Fine(1)
  BY <1>1
<1>3. ASSUME NEW m \in Nat, m + 1 <= n, Fine(m + 1)
      PROVE  Fine(m + 2)
  <2> DEFINE w == Cursor!Width(a.code[m + 1].op, a.version >= 11)
  <2>1. w \in Nat \ {0}
    BY WidthPositive
  <2>2. m + 1 \in 1 .. n /\ m + 1 + 1 = m + 2
    BY <1>1, <1>3
  <2>3. at[m + 2] = at[m + 1] + w
    BY <1>1, <2>2
  <2> HIDE DEF w
  <2>4. at[m + 1] \in Nat /\ \A j \in 1 .. m : at[j] \in Nat /\ at[j] < at[m + 1]
    BY <1>3
  <2>5. at[m + 2] \in Nat /\ at[m + 1] < at[m + 2]
    BY <2>1, <2>3, <2>4
  <2>6. ASSUME NEW j \in 1 .. m + 1 PROVE at[j] \in Nat /\ at[j] < at[m + 2]
    <3>1. j = m + 1 \/ j \in 1 .. m
      BY <1>3
    <3> QED BY <2>4, <2>5, <3>1
  <2> QED BY <2>5, <2>6
<1> HIDE DEF Fine
<1>4. 0 \in P
  BY <1>2
<1>5. \A m \in P : m + 1 \in P
  <2> SUFFICES ASSUME NEW m \in Nat, m + 1 <= n, m <= n => Fine(m + 1)
               PROVE  Fine(m + 1 + 1)
    OBVIOUS
  <2>1. m <= n /\ m + 1 + 1 = m + 2
    BY <1>1
  <2> QED BY <1>3, <2>1
<1>6. P = Nat
  <2>1. P \subseteq Nat
    OBVIOUS
  <2> HIDE DEF P
  <2> QED BY <1>4, <1>5, <2>1, Counting
<1>7. ASSUME NEW k \in 1 .. n + 1 PROVE Fine(k)
  <2>1. k - 1 \in Nat /\ k - 1 <= n /\ k - 1 + 1 = k
    BY <1>1
  <2> QED BY <1>6, <2>1
<1> QED BY <1>7 DEF Fine, at, n

\* What is at each instruction and at the end.
LEMMA AtPlaces ==
  ASSUME NEW a \in Programs
  PROVE  /\ Cursor!CodeSize(a) \in Nat
         /\ Cursor!CodeSize(a) \notin Cursor!Places(a)
         /\ \A k \in DOMAIN a.code :
              /\ Cursor!Layout[a][k] \in Cursor!Places(a)
              /\ Cursor!Layout[a][k] \in Nat
              /\ \A j \in DOMAIN a.code : Cursor!Layout[a][j] = Cursor!Layout[a][k] => j = k
              /\ Cursor!At(a, Cursor!Layout[a][k]) = {a.code[k]}
<1> DEFINE n  == Len(a.code)
           at == Cursor!Layout[a]
<1>1. n \in Nat /\ DOMAIN a.code = 1 .. n
  BY LayoutSums
<1>2. \A k \in 1 .. n + 1 : at[k] \in Nat /\ \A j \in 1 .. k - 1 : at[j] < at[k]
  BY LayoutOrdered
<1>3. Cursor!CodeSize(a) = at[n + 1] /\ Cursor!Places(a) = {at[k] : k \in 1 .. n}
  BY <1>1 DEF Cursor!CodeSize, Cursor!Places
<1> HIDE DEF at, n
<1>4. at[n + 1] \in Nat /\ \A k \in 1 .. n : at[k] \in Nat /\ at[k] < at[n + 1]
  BY <1>1, <1>2
<1>5. ASSUME NEW k \in 1 .. n, NEW j \in 1 .. n, at[j] = at[k] PROVE j = k
  <2>1. ~ (j < k) /\ ~ (k < j)
    BY <1>1, <1>2, <1>5
  <2> QED BY <1>1, <2>1
<1>6. ASSUME NEW k \in 1 .. n PROVE Cursor!At(a, at[k]) = {a.code[k]}
  <2>1. ~ (at[k] >= Cursor!CodeSize(a)) /\ at[k] \in Cursor!Places(a)
    BY <1>3, <1>4
  <2>2. (CHOOSE j \in DOMAIN a.code : Cursor!Layout[a][j] = at[k]) = k
    <3> DEFINE c == CHOOSE j \in 1 .. n : at[j] = at[k]
    <3>1. c \in 1 .. n /\ at[c] = at[k]
      OBVIOUS
    <3>2. c = k
      BY <1>5, <3>1
    <3> QED BY <1>1, <3>2 DEF at
  <2> QED BY <2>1, <2>2 DEF Cursor!At, at
<1>7. Cursor!CodeSize(a) \in Nat /\ Cursor!CodeSize(a) \notin Cursor!Places(a)
  BY <1>3, <1>4
<1>8. \A k \in 1 .. n : at[k] \in Cursor!Places(a) /\ at[k] \in Nat
  BY <1>3, <1>4
<1> QED BY <1>1, <1>5, <1>6, <1>7, <1>8, Zenon DEF at
-----------------------------------------------------------------------------
(* The cursor is on an instruction, the one it says, or at the end, while  *)
(* the table of instructions is the one its image was compiled with.       *)
CursorInv ==
  /\ modern \in BOOLEAN
  /\ ain # NULL =>
       /\ ain \in Programs
       /\ ain.version >= 11 => modern
       /\ (modern => ain.version >= 11) =>
            \/ addr = Cursor!CodeSize(ain)
            \/ \E k \in DOMAIN ain.code : addr = Cursor!Layout[ain][k] /\ instr = ain.code[k]

\* Where an update at a place, or at the end, leaves the cursor.
LEMMA UpdateAtPlace ==
  ASSUME NEW a \in Programs, NEW p, NEW before, NEW most, Cursor!Update(a, p, before, most),
         p \in Cursor!Places(a) \cup {Cursor!CodeSize(a)}
  PROVE  \/ addr' = Cursor!CodeSize(a)
         \/ \E k \in DOMAIN a.code : addr' = Cursor!Layout[a][k] /\ instr' = a.code[k]
<1>1. PICK i \in Cursor!At(a, p) : addr' = p /\ instr' = i
  BY DEF Cursor!Update
<1>2. CASE p = Cursor!CodeSize(a)
  BY <1>1, <1>2
<1>3. CASE p \in Cursor!Places(a)
  <2>1. PICK k \in DOMAIN a.code : p = Cursor!Layout[a][k]
    BY <1>3 DEF Cursor!Places
  <2>2. i = a.code[k]
    BY <1>1, <2>1, AtPlaces
  <2> QED BY <1>1, <2>1, <2>2
<1> QED BY <1>2, <1>3

LEMMA StartIsPlace ==
  ASSUME NEW a \in Programs
  PROVE  0 \in Cursor!Places(a) \cup {Cursor!CodeSize(a)}
<1>1. Len(a.code) \in Nat /\ DOMAIN a.code = 1 .. Len(a.code) /\ Cursor!Layout[a][1] = 0
  BY LayoutSums
<1>2. CASE Len(a.code) = 0
  BY <1>1, <1>2 DEF Cursor!CodeSize
<1>3. CASE Len(a.code) # 0
  BY <1>1, <1>3 DEF Cursor!Places
<1> QED BY <1>2, <1>3

\* The instruction after the k-th, or the end.
LEMMA AfterPlace ==
  ASSUME NEW a \in Programs, NEW k \in DOMAIN a.code
  PROVE  Cursor!Layout[a][k] + Cursor!Width(a.code[k].op, a.version >= 11)
           \in Cursor!Places(a) \cup {Cursor!CodeSize(a)}
<1>1. /\ Len(a.code) \in Nat /\ DOMAIN a.code = 1 .. Len(a.code)
      /\ Cursor!Layout[a][k + 1] = Cursor!Layout[a][k] + Cursor!Width(a.code[k].op, a.version >= 11)
  BY LayoutSums
<1>2. CASE k = Len(a.code)
  BY <1>1, <1>2 DEF Cursor!CodeSize
<1>3. CASE k # Len(a.code)
  <2>1. k + 1 \in DOMAIN a.code
    BY <1>1, <1>3
  <2> QED BY <1>1, <2>1 DEF Cursor!Places
<1> QED BY <1>2, <1>3

LEMMA InitCursorInv == InitAin => CursorInv
BY DEF InitAin, NoCursor, Cursor!Init, CursorInv

LEMMA NextCursorInv == CursorInv /\ [NextAin]_varsAin => CursorInv'
<1> SUFFICES ASSUME CursorInv, Cursor!Next PROVE CursorInv'
  BY DEF NextAin, varsAin, cursorVars, CursorInv
<1>1. CASE Cursor!OpenImage
  <2>1. modern' \in BOOLEAN /\ (modern => modern')
    BY <1>1 DEF Cursor!OpenImage, CursorInv
  <2> QED BY <1>1, <2>1 DEF Cursor!OpenImage, CursorInv
<1>2. CASE Cursor!DasmOpen \/ Cursor!DasmInit
  <2>1. PICK a \in Programs : ain' = a /\ (a.version >= 11 => modern) /\ Cursor!Update(a, 0, <<>>, 0)
    BY <1>2 DEF Cursor!DasmOpen, Cursor!DasmInit
  <2>2. modern' = modern
    BY <1>2 DEF Cursor!DasmOpen, Cursor!DasmInit
  <2>3. \/ addr' = Cursor!CodeSize(a)
        \/ \E k \in DOMAIN a.code : addr' = Cursor!Layout[a][k] /\ instr' = a.code[k]
    BY <2>1, StartIsPlace, UpdateAtPlace
  <2> QED BY <2>1, <2>2, <2>3 DEF CursorInv
<1>3. CASE Cursor!DasmJump
  <2>1. PICK p \in Cursor!Places(ain) : Cursor!Update(ain, p, <<>>, 0)
    BY <1>3 DEF Cursor!DasmJump
  <2>2. ain # NULL /\ ain' = ain /\ modern' = modern
    BY <1>3 DEF Cursor!DasmJump
  <2>3. ain \in Programs /\ (ain.version >= 11 => modern)
    BY <2>2 DEF CursorInv
  <2>4. \/ addr' = Cursor!CodeSize(ain)
        \/ \E k \in DOMAIN ain.code : addr' = Cursor!Layout[ain][k] /\ instr' = ain.code[k]
    BY <2>1, <2>3, UpdateAtPlace
  <2> QED BY <2>2, <2>3, <2>4 DEF CursorInv
<1>4. CASE Cursor!DasmNext
  <2>1. /\ ain # NULL /\ addr \in Cursor!Places(ain) /\ ain' = ain /\ modern' = modern
        /\ Cursor!Update(ain, addr + Cursor!Width(instr.op, modern), entered, depth)
    BY <1>4 DEF Cursor!DasmNext
  <2>2. ain \in Programs /\ (ain.version >= 11 => modern) /\ modern \in BOOLEAN
    BY <2>1 DEF CursorInv
  <2> SUFFICES ASSUME modern => ain.version >= 11
               PROVE  \/ addr' = Cursor!CodeSize(ain)
                      \/ \E k \in DOMAIN ain.code : addr' = Cursor!Layout[ain][k] /\ instr' = ain.code[k]
    BY <2>1, <2>2 DEF CursorInv
  <2>3. addr # Cursor!CodeSize(ain)
    BY <2>1, <2>2, AtPlaces
  <2>4. PICK k \in DOMAIN ain.code : addr = Cursor!Layout[ain][k] /\ instr = ain.code[k]
    BY <2>1, <2>3 DEF CursorInv
  <2>5. Cursor!Width(instr.op, modern) = Cursor!Width(instr.op, ain.version >= 11)
    BY <2>2 DEF Cursor!Width, Cursor!NrArgs
  <2>6. addr + Cursor!Width(instr.op, modern) \in Cursor!Places(ain) \cup {Cursor!CodeSize(ain)}
    BY <2>2, <2>4, <2>5, AfterPlace
  <2> QED BY <2>1, <2>2, <2>6, UpdateAtPlace
<1>5. CASE Cursor!DasmClose
  BY <1>5 DEF Cursor!DasmClose, CursorInv
<1> QED BY <1>1, <1>2, <1>3, <1>4, <1>5 DEF Cursor!Next

(* In code of any length, the cursor is never inside an instruction,       *)
(* wherever it jumped and walked, unless a newer image changed the table.  *)
THEOREM CursorStaysOnInstructions == SpecAin => []CursorOnInstruction
<1>1. CursorInv => CursorOnInstruction
  <2> SUFFICES ASSUME CursorInv, ain # NULL, modern => ain.version >= 11
               PROVE  addr \in Cursor!Places(ain) \cup {Cursor!CodeSize(ain)}
    BY DEF CursorOnInstruction, Cursor!CursorOnInstruction
  <2> QED BY DEF CursorInv, Cursor!Places
<1> QED BY <1>1, InitCursorInv, NextCursorInv, PTL DEF SpecAin
-----------------------------------------------------------------------------
(* The function of the cursor and its stack, the innermost first, hold the *)
(* functions that were entered, as many as the stack has kept; and zeros   *)
(* below them, while none has been pushed out.                             *)
Arguments == Int \cup {Garbage}

Held(f, stack, j) == IF j = 0 THEN f ELSE stack[j]

Remembers(f, stack, in, most) ==
  \A j \in 0 .. StackSize :
    Len(in) - j >= 1 /\ most - (Len(in) - j) <= StackSize => Held(f, stack, j) = in[Len(in) - j]

ZeroBelow(f, stack, in) == \A j \in 0 .. StackSize : Len(in) - j <= 0 => Held(f, stack, j) = 0

StackType ==
  /\ func \in Arguments
  /\ func_stack \in [1 .. StackSize -> Arguments]
  /\ entered \in Seq(Arguments)
  /\ depth \in Nat /\ Len(entered) <= depth

StackInv ==
  /\ StackType
  /\ ain # NULL => ain \in Programs
  /\ Remembers(func, func_stack, entered, depth)
  /\ walked /\ depth <= StackSize => ZeroBelow(func, func_stack, entered)
  /\ ain = NULL => entered = <<>> /\ depth = 0 /\ ZeroBelow(func, func_stack, entered)

LEMMA PushKeeps ==
  ASSUME NEW f \in Arguments, NEW stack \in [1 .. StackSize -> Arguments], NEW in \in Seq(Arguments),
         NEW most \in Nat, Len(in) <= most, NEW x \in Arguments,
         NEW more, more = IF Len(in) + 1 > most THEN Len(in) + 1 ELSE most,
         NEW pushed \in [1 .. StackSize -> Arguments],
         \A j \in 1 .. StackSize : pushed[j] = Held(f, stack, j - 1)
  PROVE  /\ Remembers(f, stack, in, most) => Remembers(x, pushed, Append(in, x), more)
         /\ ZeroBelow(f, stack, in) => ZeroBelow(x, pushed, Append(in, x))
<1> DEFINE n == Len(in)
           next == Append(in, x)
<1>1. n \in Nat /\ Len(next) = n + 1 /\ next[n + 1] = x /\ \A k \in 1 .. n : next[k] = in[k]
  OBVIOUS
<1>2. more \in Nat /\ more >= most /\ StackSize \in Nat /\ 0 <= StackSize
  BY <1>1, AinAssumption
<1> HIDE DEF n, next
<1>3. ASSUME Remembers(f, stack, in, most), NEW j \in 0 .. StackSize,
             n + 1 - j >= 1, more - (n + 1 - j) <= StackSize
      PROVE  Held(x, pushed, j) = next[n + 1 - j]
  <2>1. CASE j = 0
    BY <1>1, <2>1 DEF Held
  <2>2. CASE j # 0
    <3>1. /\ j \in 1 .. StackSize /\ j - 1 \in 0 .. StackSize
          /\ n - (j - 1) >= 1 /\ most - (n - (j - 1)) <= StackSize
          /\ n - (j - 1) = n + 1 - j /\ n + 1 - j \in 1 .. n
      BY <1>1, <1>2, <1>3, <2>2
    <3>2. Held(f, stack, j - 1) = in[n - (j - 1)]
      BY <1>3, <3>1 DEF Remembers, n
    <3>3. Held(x, pushed, j) = Held(f, stack, j - 1)
      BY <2>2, <3>1 DEF Held
    <3> QED BY <1>1, <3>1, <3>2, <3>3
  <2> QED BY <2>1, <2>2
<1>4. ASSUME ZeroBelow(f, stack, in), NEW j \in 0 .. StackSize, n + 1 - j <= 0
      PROVE  Held(x, pushed, j) = 0
  <2>1. j # 0 /\ j \in 1 .. StackSize /\ j - 1 \in 0 .. StackSize /\ n - (j - 1) <= 0
    BY <1>1, <1>2, <1>4
  <2>2. Held(f, stack, j - 1) = 0
    BY <1>4, <2>1 DEF ZeroBelow, n
  <2> QED BY <2>1, <2>2 DEF Held
<1> QED BY <1>1, <1>3, <1>4 DEF Remembers, ZeroBelow, n, next

LEMMA PopKeeps ==
  ASSUME NEW f \in Arguments, NEW stack \in [1 .. StackSize -> Arguments], NEW in \in Seq(Arguments),
         NEW most \in Nat, Len(in) <= most,
         NEW rest, rest = IF in # <<>> THEN SubSeq(in, 1, Len(in) - 1) ELSE in,
         NEW popped \in [1 .. StackSize -> Arguments],
         \A j \in 1 .. StackSize : popped[j] = IF j = StackSize THEN stack[j] ELSE stack[j + 1]
  PROVE  /\ Remembers(f, stack, in, most) => Remembers(stack[1], popped, rest, most)
         /\ ZeroBelow(f, stack, in) /\ most <= StackSize => ZeroBelow(stack[1], popped, rest)
<1> DEFINE n == Len(in)
           m == Len(rest)
<1>1. n \in Nat /\ m \in Nat /\ (m = n - 1 \/ m = 0) /\ m <= n /\ n <= m + 1 /\ \A k \in 1 .. m : rest[k] = in[k]
  OBVIOUS
<1>2. StackSize \in Nat /\ StackSize >= 1
  BY AinAssumption
<1>3. \A j \in 0 .. StackSize : Held(stack[1], popped, j) = IF j = StackSize THEN stack[j] ELSE stack[j + 1]
  BY <1>2 DEF Held
<1> HIDE DEF n, m
<1>4. ASSUME Remembers(f, stack, in, most), NEW j \in 0 .. StackSize, m - j >= 1, most - (m - j) <= StackSize
      PROVE  Held(stack[1], popped, j) = rest[m - j]
  <2>1. m = n - 1 /\ j # StackSize
    BY <1>1, <1>2, <1>4 DEF n
  <2>2. /\ j + 1 \in 0 .. StackSize /\ j + 1 # 0
        /\ n - (j + 1) >= 1 /\ most - (n - (j + 1)) <= StackSize
        /\ n - (j + 1) = m - j /\ m - j \in 1 .. m
    BY <1>1, <1>2, <1>4, <2>1
  <2>3. Held(f, stack, j + 1) = in[n - (j + 1)]
    BY <1>4, <2>2 DEF Remembers, n
  <2>4. Held(f, stack, j + 1) = stack[j + 1]
    BY <2>2 DEF Held
  <2> QED BY <1>1, <1>3, <2>1, <2>2, <2>3, <2>4
<1>5. ASSUME ZeroBelow(f, stack, in), most <= StackSize, NEW j \in 0 .. StackSize, m - j <= 0
      PROVE  Held(stack[1], popped, j) = 0
  <2> DEFINE i == IF j = StackSize THEN j ELSE j + 1
  <2>1. i \in 1 .. StackSize /\ n - i <= 0
    BY <1>1, <1>2, <1>5 DEF n
  <2>2. Held(f, stack, i) = 0
    BY <1>5, <2>1 DEF ZeroBelow, n
  <2> QED BY <1>3, <2>1, <2>2 DEF Held
<1> QED BY <1>4, <1>5 DEF Remembers, ZeroBelow, n, m

\* What EnterFunction and LeaveFunction do to the stack.
LEMMA Shifts ==
  ASSUME NEW f \in Arguments, NEW stack \in [1 .. StackSize -> Arguments]
  PROVE  LET pushed == <<f>> \o SubSeq(stack, 1, StackSize - 1)
             popped == Tail(stack) \o <<stack[StackSize]>>
         IN  /\ pushed \in [1 .. StackSize -> Arguments]
             /\ \A j \in 1 .. StackSize : pushed[j] = Held(f, stack, j - 1)
             /\ popped \in [1 .. StackSize -> Arguments]
             /\ \A j \in 1 .. StackSize : popped[j] = IF j = StackSize THEN stack[j] ELSE stack[j + 1]
<1> DEFINE first  == SubSeq(stack, 1, StackSize - 1)
           others == Tail(stack)
           last   == <<stack[StackSize]>>
           pushed == <<f>> \o first
           popped == others \o last
<1>1. StackSize \in Nat /\ StackSize >= 1
  BY AinAssumption
<1>2. stack \in Seq(Arguments) /\ Len(stack) = StackSize
  BY <1>1
<1>3. first \in Seq(Arguments) /\ Len(first) = StackSize - 1 /\ \A j \in 1 .. StackSize - 1 : first[j] = stack[j]
  BY <1>1, <1>2
<1>4. stack # <<>>
  BY <1>1, <1>2
<1>5. others \in Seq(Arguments) /\ Len(others) = StackSize - 1 /\ \A j \in 1 .. StackSize - 1 : others[j] = stack[j + 1]
  BY <1>1, <1>2, <1>4
<1>6. last \in Seq(Arguments) /\ Len(last) = 1 /\ last[1] = stack[StackSize]
  BY <1>1, <1>2
<1>7. <<f>> \in Seq(Arguments) /\ Len(<<f>>) = 1 /\ <<f>>[1] = f
  OBVIOUS
<1>8. pushed \in Seq(Arguments) /\ Len(pushed) = StackSize
  <2> HIDE DEF first
  <2> QED BY <1>1, <1>3, <1>7
<1>9. \A j \in 1 .. StackSize : pushed[j] = Held(f, stack, j - 1)
  <2> HIDE DEF first
  <2>1. ASSUME NEW j \in 1 .. StackSize, j # 1 PROVE j - 1 \in 1 .. StackSize - 1 /\ pushed[j] = first[j - 1]
    BY <1>1, <1>3, <1>7, <2>1
  <2>2. pushed[1] = f
    BY <1>1, <1>3, <1>7
  <2> HIDE DEF pushed
  <2>3. TAKE j \in 1 .. StackSize
  <2>4. CASE j = 1
    BY <2>2, <2>4 DEF Held
  <2>5. CASE j # 1
    BY <1>1, <1>3, <2>1, <2>5 DEF Held
  <2> QED BY <2>4, <2>5
<1>10. popped \in Seq(Arguments) /\ Len(popped) = StackSize
  <2> HIDE DEF others, last
  <2>1. popped \in Seq(Arguments) /\ Len(popped) = Len(others) + Len(last)
    BY <1>5, <1>6, ConcatProperties
  <2> HIDE DEF popped
  <2> QED BY <1>1, <1>5, <1>6, <2>1
<1>11. \A j \in 1 .. StackSize : popped[j] = IF j = StackSize THEN stack[j] ELSE stack[j + 1]
  <2> HIDE DEF others, last
  <2>1. \A j \in 1 .. Len(others) + Len(last) :
          popped[j] = IF j <= Len(others) THEN others[j] ELSE last[j - Len(others)]
    BY <1>5, <1>6, ConcatProperties
  <2> HIDE DEF popped
  <2> QED BY <1>1, <1>5, <1>6, <2>1
<1> HIDE DEF pushed, popped
<1>12. pushed \in [1 .. StackSize -> Arguments] /\ popped \in [1 .. StackSize -> Arguments]
  BY <1>8, <1>10
<1> QED BY <1>9, <1>11, <1>12 DEF pushed, popped

\* What is at any byte has an argument.
LEMMA AtType ==
  ASSUME NEW a \in Programs, NEW p, NEW i \in Cursor!At(a, p)
  PROVE  i.arg \in Arguments
<1>1. a.code \in Seq([op : STRING, arg : Int])
  BY AinAssumption
<1>2. CASE p \in Cursor!Places(a)
  <2>1. PICK k \in DOMAIN a.code : p = Cursor!Layout[a][k]
    BY <1>2 DEF Cursor!Places
  <2>2. a.code[k] \in [op : STRING, arg : Int]
    <3>1. k \in 1 .. Len(a.code)
      BY <1>1, <2>1
    <3> QED BY <1>1, <3>1, ElementOfSeq, Zenon
  <2>3. i = a.code[k]
    BY <2>1, AtPlaces
  <2> QED BY <2>2, <2>3 DEF Arguments
<1>3. CASE p \notin Cursor!Places(a)
  <2>1. i = Cursor!First \/ i \in [op : Cursor!Opcodes, arg : {Garbage}]
    BY <1>3 DEF Cursor!At
  <2> QED BY <2>1 DEF Cursor!First, Arguments
<1> QED BY <1>2, <1>3

LEMMA UpdateKeeps ==
  ASSUME NEW a \in Programs, NEW p, NEW before \in Seq(Arguments), NEW most \in Nat, Len(before) <= most,
         StackType, Cursor!Update(a, p, before, most)
  PROVE  /\ StackType'
         /\ most <= depth'
         /\ Remembers(func, func_stack, before, most) => Remembers(func', func_stack', entered', depth')
         /\ ZeroBelow(func, func_stack, before) /\ most <= StackSize =>
              ZeroBelow(func', func_stack', entered')
<1>1. PICK i \in Cursor!At(a, p) :
        /\ CASE i.op = "FUNC"    -> Cursor!EnterFunction(i.arg)
             [] i.op = "ENDFUNC" -> Cursor!LeaveFunction
             [] OTHER            -> UNCHANGED <<func, func_stack>>
        /\ entered' = Cursor!Entered(before, i)
        /\ depth' = IF Len(entered') > most THEN Len(entered') ELSE most
  BY DEF Cursor!Update
<1>2. i.arg \in Arguments
  BY AtType
<1>3. func \in Arguments /\ func_stack \in [1 .. StackSize -> Arguments] /\ StackSize \in Nat \ {0}
  BY AinAssumption DEF StackType
<1>4. CASE i.op = "FUNC"
  <2>1. /\ func' = i.arg /\ func_stack' = <<func>> \o SubSeq(func_stack, 1, StackSize - 1)
        /\ entered' = Append(before, i.arg)
    BY <1>1, <1>4 DEF Cursor!EnterFunction, Cursor!Entered
  <2>2. /\ func_stack' \in [1 .. StackSize -> Arguments]
        /\ \A j \in 1 .. StackSize : func_stack'[j] = Held(func, func_stack, j - 1)
    BY <1>3, <2>1, Shifts
  <2>3. Len(entered') = Len(before) + 1 /\ entered' \in Seq(Arguments) /\ Len(before) \in Nat
    BY <1>2, <2>1
  <2>4. depth' = (IF Len(before) + 1 > most THEN Len(before) + 1 ELSE most) /\ depth' \in Nat
        /\ Len(entered') <= depth' /\ most <= depth'
    BY <1>1, <2>3
  <2>5. StackType'
    BY <1>2, <2>1, <2>2, <2>3, <2>4 DEF StackType
  <2>6. /\ Remembers(func, func_stack, before, most) => Remembers(func', func_stack', entered', depth')
        /\ ZeroBelow(func, func_stack, before) => ZeroBelow(func', func_stack', entered')
    BY <1>2, <1>3, <2>1, <2>2, <2>4, PushKeeps
  <2> QED BY <2>4, <2>5, <2>6
<1>5. CASE i.op = "ENDFUNC"
  <2>1. /\ func' = func_stack[1] /\ func_stack' = Tail(func_stack) \o <<func_stack[StackSize]>>
        /\ entered' = IF before # <<>> THEN SubSeq(before, 1, Len(before) - 1) ELSE before
    BY <1>1, <1>5 DEF Cursor!LeaveFunction, Cursor!Entered
  <2>2. /\ func_stack' \in [1 .. StackSize -> Arguments]
        /\ \A j \in 1 .. StackSize : func_stack'[j] = IF j = StackSize THEN func_stack[j] ELSE func_stack[j + 1]
    BY <1>3, <2>1, Shifts
  <2>3. Len(entered') <= Len(before) /\ entered' \in Seq(Arguments) /\ Len(before) \in Nat /\ Len(entered') \in Nat
    BY <2>1
  <2>4. depth' = most
    BY <1>1, <2>3
  <2>5. StackType'
    <3>1. func' \in Arguments
      BY <1>3, <2>1
    <3>2. depth' \in Nat /\ Len(entered') <= depth'
      BY <2>3, <2>4
    <3> QED BY <2>2, <2>3, <3>1, <3>2 DEF StackType
  <2>6. /\ Remembers(func, func_stack, before, most) => Remembers(func', func_stack', entered', most)
        /\ ZeroBelow(func, func_stack, before) /\ most <= StackSize => ZeroBelow(func', func_stack', entered')
    <3>1. \A r : r = (IF before # <<>> THEN SubSeq(before, 1, Len(before) - 1) ELSE before) =>
            /\ Remembers(func, func_stack, before, most) => Remembers(func_stack[1], func_stack', r, most)
            /\ ZeroBelow(func, func_stack, before) /\ most <= StackSize => ZeroBelow(func_stack[1], func_stack', r)
      BY <1>3, <2>2, PopKeeps, Zenon
    <3> QED BY <2>1, <3>1
  <2> QED BY <2>4, <2>5, <2>6
<1>6. CASE i.op # "FUNC" /\ i.op # "ENDFUNC"
  <2>1. func' = func /\ func_stack' = func_stack /\ entered' = before
    BY <1>1, <1>6 DEF Cursor!Entered
  <2>2. depth' = most
    BY <1>1, <2>1
  <2>3. StackType'
    BY <2>1, <2>2 DEF StackType
  <2> QED BY <2>1, <2>2, <2>3
<1> QED BY <1>4, <1>5, <1>6

LEMMA InitStackInv == InitAin => StackInv
<1> SUFFICES ASSUME Cursor!Init PROVE StackInv
  BY DEF InitAin, NoCursor
<1>1. StackSize \in Nat \ {0}
  BY AinAssumption
<1>2. StackType
  BY <1>1 DEF Cursor!Init, StackType, Arguments
<1>3. Remembers(func, func_stack, entered, depth)
  BY <1>1 DEF Cursor!Init, Remembers
<1>4. ZeroBelow(func, func_stack, entered)
  BY <1>1 DEF Cursor!Init, ZeroBelow, Held
<1> QED BY <1>2, <1>3, <1>4 DEF Cursor!Init, StackInv

LEMMA NextStackInv == StackInv /\ [NextAin]_varsAin => StackInv'
<1> SUFFICES ASSUME StackInv, Cursor!Next PROVE StackInv'
  BY DEF NextAin, varsAin, cursorVars, StackInv, StackType
<1>1. StackType /\ Remembers(func, func_stack, entered, depth)
      /\ (ain # NULL => ain \in Programs)
  BY DEF StackInv
<1>2. <<>> \in Seq(Arguments) /\ Len(<<>>) <= 0 /\ 0 \in Nat /\ Remembers(func, func_stack, <<>>, 0)
  BY AinAssumption DEF Remembers
<1>3. NULL \notin Programs /\ StackSize \in Nat /\ 0 <= StackSize
  BY AinAssumption
<1>4. CASE Cursor!OpenImage
  BY <1>4 DEF Cursor!OpenImage, StackInv, StackType
<1>5. CASE Cursor!DasmOpen
  <2>1. PICK a \in Programs : ain' = a /\ Cursor!Update(a, 0, <<>>, 0)
    BY <1>5 DEF Cursor!DasmOpen
  <2>2. ZeroBelow(func, func_stack, <<>>)
    BY <1>5 DEF Cursor!DasmOpen, StackInv
  <2>3. StackType' /\ Remembers(func', func_stack', entered', depth') /\ ZeroBelow(func', func_stack', entered')
    BY <1>1, <1>2, <1>3, <2>1, <2>2, UpdateKeeps
  <2> QED BY <1>3, <2>1, <2>3 DEF StackInv
<1>6. CASE Cursor!DasmInit \/ Cursor!DasmJump
  <2>0. PICK a \in Programs : ain' = a /\ ~ walked' /\ \E p : Cursor!Update(a, p, <<>>, 0)
    BY <1>1, <1>6 DEF Cursor!DasmInit, Cursor!DasmJump
  <2>1. PICK p : ain' = a /\ ~ walked' /\ Cursor!Update(a, p, <<>>, 0)
    BY <2>0
  <2>2. StackType' /\ Remembers(func', func_stack', entered', depth')
    BY <1>1, <1>2, <2>1, UpdateKeeps
  <2> QED BY <1>3, <2>1, <2>2 DEF StackInv
<1>7. CASE Cursor!DasmNext
  <2>1. PICK p : ain # NULL /\ ain' = ain /\ walked' = walked /\ Cursor!Update(ain, p, entered, depth)
    BY <1>7 DEF Cursor!DasmNext
  <2>2. entered \in Seq(Arguments) /\ depth \in Nat /\ Len(entered) <= depth /\ ain \in Programs
    BY <1>1, <2>1 DEF StackType
  <2>3. /\ StackType' /\ Remembers(func', func_stack', entered', depth') /\ depth <= depth'
        /\ ZeroBelow(func, func_stack, entered) /\ depth <= StackSize => ZeroBelow(func', func_stack', entered')
    BY <1>1, <2>1, <2>2, UpdateKeeps
  <2>4. depth' <= StackSize => depth <= StackSize
    BY <1>3, <2>2, <2>3 DEF StackType
  <2> QED BY <2>1, <2>2, <2>3, <2>4 DEF StackInv
<1>8. CASE Cursor!DasmClose
  <2>1. /\ ain' = NULL /\ func' = 0 /\ func_stack' = [i \in 1 .. StackSize |-> 0]
        /\ entered' = <<>> /\ depth' = 0 /\ walked' = FALSE
    BY <1>8 DEF Cursor!DasmClose
  <2>2. StackType'
    BY <1>3, <2>1 DEF StackType, Arguments
  <2>3. Remembers(func', func_stack', entered', depth') /\ ZeroBelow(func', func_stack', entered')
    BY <1>3, <2>1 DEF Remembers, ZeroBelow, Held
  <2> QED BY <2>1, <2>2, <2>3 DEF StackInv
<1> QED BY <1>4, <1>5, <1>6, <1>7, <1>8 DEF Cursor!Next

(* With a stack of any size and functions nested to any depth,             *)
(* dasm_function is the innermost function entered and not left, as far as *)
(* the stack goes.                                                         *)
THEOREM FunctionStaysInnermost == SpecAin => []FunctionIsInnermost
<1>1. StackInv => FunctionIsInnermost
  <2> SUFFICES ASSUME StackInv, ain # NULL, depth - Len(entered) <= StackSize
               PROVE  /\ entered # <<>> => func = entered[Len(entered)]
                      /\ walked /\ entered = <<>> => func = 0
    BY DEF FunctionIsInnermost, Cursor!FunctionIsInnermost
  <2>1. entered \in Seq(Arguments) /\ Len(entered) \in Nat /\ 0 \in 0 .. StackSize /\ depth \in Nat
    BY AinAssumption DEF StackInv, StackType
  <2>2. CASE entered # <<>>
    <3>1. Len(entered) - 0 = Len(entered) /\ Len(entered) - 0 >= 1 /\ depth - (Len(entered) - 0) <= StackSize
      BY <2>1, <2>2
    <3>2. Held(func, func_stack, 0) = entered[Len(entered)]
      BY <2>1, <3>1 DEF StackInv, Remembers
    <3> QED BY <2>2, <3>2 DEF Held
  <2>3. CASE walked /\ entered = <<>>
    <3>1. Len(entered) = 0 /\ Len(entered) - 0 <= 0 /\ depth <= StackSize
      BY <2>1, <2>3
    <3>2. Held(func, func_stack, 0) = 0
      BY <2>1, <2>3, <3>1 DEF StackInv, ZeroBelow
    <3> QED BY <2>3, <3>2 DEF Held
  <2> QED BY <2>2, <2>3
<1> QED BY <1>1, InitStackInv, NextStackInv, PTL DEF SpecAin
=============================================================================
