---------------------------- MODULE ArchiveProofs ----------------------------
(***************************************************************************)
(* For archives of any format and size, any handles and any heap: every    *)
(* block of data has exactly one owner, memory is misused only after an    *)
(* AFA read that failed or by giving up AAR data at the end of the map, a  *)
(* descriptor shows the file it was got for, and the formats behave as     *)
(* archive.h says.                                                         *)
(***************************************************************************)
EXTENDS Archive, FiniteSetTheorems, WellFoundedInduction, TLAPS

(* What a heap address, a place in an archive, a descriptor and the        *)
(* content of a block are cannot be mixed up.                              *)
Distinguished ==
  /\ \A e : <<e>> \notin Addr
  /\ \A d : "data" \in DOMAIN d => d # NULL
  /\ \A d, p : [disk |-> d, dataptr |-> p] # Unused

(* What a loaded descriptor d of archive a shows: the content c.           *)
FilesIn(a) == 1 .. Len(a.files)

NumberIn(a, e) == IF a.hasNumber /\ a.files[e].id > 0 THEN a.files[e].id - 1 ELSE e - 1

UniqueNumbers(a) == a.hasNumber => \A e, f \in FilesIn(a) : NumberIn(a, e) = NumberIn(a, f) => e = f

LookupIn(a, n) ==
  LET S == {e \in FilesIn(a) : a.files[e].name = n}
  IN  IF S = {} THEN 0 ELSE CHOOSE e \in S : \A f \in S : e <= f

AlongLink(a, f) ==
  IF f = 0 THEN 0 ELSE IF a.files[f].type = "link" THEN LookupIn(a, a.files[f].target) ELSE f

\* The entries that links lead to from e, step by step.
Path(a, e) ==
  LET end[n \in Nat] == IF n = 0 THEN e ELSE AlongLink(a, end[n - 1]) IN end

Tells(a, d, c) ==
  /\ a.format \in {"alk", "dlf", "flat"} => c = d.file
  /\ a.format = "afa" /\ UniqueNumbers(a) => c = d.file
  /\ a.format = "ald" => c \in {d.at, Garbage}
  /\ a.format = "aar" => c = Path(a, d.file)[Len(a.files)] /\ d.size = a.files[c].real

\* A FLAT descriptor says how large its data is, also when it has none.
SizeFits(f, d) ==
  IF d.data \in Addr THEN f.zlib /\ f.good /\ d.size = f.real
  ELSE \/ d.size = f.stored
       \/ d.data = NULL /\ f.zlib /\ f.good

Truthful(a, d) ==
  /\ d.data = NULL \/ d.data \in Addr \/ \E c : d.data = <<c>> /\ Tells(a, d, c)
  /\ a.format \in {"afa", "aar"} => d.file \in FilesIn(a)
  /\ a.format = "afa" => d.no = NumberIn(a, d.file)
  /\ a.format = "flat" => SizeFits(a.files[d.file], d)

(* How a descriptor of the open archive knows whether it owns its data.    *)
Good(d) ==
  /\ ar # NULL
  /\ Truthful(ar, d)
  /\ "data" \in DOMAIN d
  /\ ar.format \in {"flat", "aar"} => "size" \in DOMAIN d
  /\ ar.format \in {"alk", "dlf", "afa", "ald"} =>
       d.data = NULL \/ (d.data \in Addr <=> ~ar.mmapped)
  /\ ar.format = "flat" =>
       /\ "inflated" \in DOMAIN d /\ d.inflated \in BOOLEAN
       /\ d.inflated <=> d.data \in Addr
  /\ ar.format = "aar" => ar.mmapped \/ d.data = NULL \/ d.data \in Addr
  /\ ar.format \in {"alk", "dlf", "flat", "aar"} => d.file \in Nat
  /\ ar.format = "ald" => d.at # Unused

Holds(h) == h \in Live /\ desc[h].data \in Addr

OneOwner ==
  /\ \A h \in Handle : Holds(h) => /\ heap[desc[h].data] # Unused
                                   /\ Tells(ar, desc[h], heap[desc[h].data])
  /\ \A g, h \in Handle : Holds(g) /\ Holds(h) /\ desc[g].data = desc[h].data => g = h
  /\ \A a \in Addr : heap[a] # Unused => \E h \in Handle : Holds(h) /\ desc[h].data = a

\* A load stands at an entry its descriptor's links lead to.
OnItsWay(l) == l.at \in FilesIn(ar) /\ \E n \in Nat : l.at = Path(ar, l.d.file)[n]

LoadInv ==
  load # NULL =>
    /\ ar # NULL /\ ar.format = "aar"
    /\ DOMAIN load = {"h", "d", "at"}
    /\ load.h \in Handle /\ ~Holds(load.h)
    /\ Good(load.d) /\ load.d.data = NULL /\ OnItsWay(load)
-----------------------------------------------------------------------------
(* What a call does to the descriptors and the heap.                       *)
Show(h, d) ==
  /\ ~Holds(h) /\ Good(d) /\ d.data \notin Addr
  /\ desc' = [desc EXCEPT ![h] = d] /\ heap' = heap

Own(h, d, c) ==
  /\ ~Holds(h) /\ Good(d) /\ d.data \in Addr /\ heap[d.data] = Unused /\ c # Unused
  /\ Tells(ar, d, c)
  /\ desc' = [desc EXCEPT ![h] = d] /\ heap' = [heap EXCEPT ![d.data] = c]

Drop(h, d) ==
  /\ h \in Live /\ (d = NULL \/ (Good(d) /\ d.data \notin Addr))
  /\ desc' = [desc EXCEPT ![h] = d]
  /\ heap' = IF desc[h].data \in Addr THEN [heap EXCEPT ![desc[h].data] = Unused] ELSE heap

Effect == /\ ar' = ar
          /\ \/ desc' = desc /\ heap' = heap
             \/ \E h \in Handle : \E d : Show(h, d) \/ Drop(h, d)
             \/ \E h \in Handle : \E d, c : Own(h, d, c)

Owned1 == /\ DOMAIN desc = Handle /\ DOMAIN heap = Addr
          /\ \A h \in Live : Good(desc[h])
          /\ OneOwner

IInv == /\ ar # NULL => ar \in Archives
        /\ fault \in BOOLEAN
        /\ Owned1 /\ LoadInv

(* Loading, releasing and copying change a descriptor's data alone.        *)
LEMMA TellsSame ==
  ASSUME NEW a, NEW d, NEW x, NEW c, "data" \in DOMAIN d
  PROVE  Tells(a, [d EXCEPT !.data = x], c) <=> Tells(a, d, c)
BY DEF Tells

LEMMA DataTruthful ==
  ASSUME NEW a, NEW d, NEW x, a.format # "flat", Truthful(a, d), "data" \in DOMAIN d,
         x = NULL \/ x \in Addr \/ \E c : x = <<c>> /\ Tells(a, d, c)
  PROVE  Truthful(a, [d EXCEPT !.data = x])
<1> DEFINE e == [d EXCEPT !.data = x]
<1>1. /\ e.data = x
      /\ a.format \in {"afa", "aar"} => e.file \in FilesIn(a)
      /\ a.format = "afa" => e.no = NumberIn(a, e.file)
  BY DEF Truthful
<1>2. \A c : Tells(a, d, c) => Tells(a, e, c)
  BY TellsSame
<1> HIDE DEF e
<1>3. e.data = NULL \/ e.data \in Addr \/ \E c : e.data = <<c>> /\ Tells(a, e, c)
  BY <1>1, <1>2, Zenon
<1>4. Truthful(a, e)
  BY <1>1, <1>3 DEF Truthful
<1> QED BY <1>4 DEF e

LEMMA ShowKeeps ==
  ASSUME Distinguished, Owned1, ar' = ar, NEW h \in Handle, NEW d, Show(h, d)
  PROVE  Owned1'
<1>1. /\ DOMAIN desc' = Handle /\ heap' = heap
      /\ desc'[h] = d /\ \A g \in Handle : g # h => desc'[g] = desc[g]
  BY DEF Owned1, Show
<1>2. d # NULL
  BY DEF Distinguished, Show, Good
<1>3. ~Holds(h)' /\ \A g \in Handle : g # h => Holds(g)' = Holds(g)
  BY <1>1 DEF Holds, Live, Show
<1>4. \A g \in Live' : Good(desc[g])'
  <2> SUFFICES ASSUME NEW g \in Live' PROVE Good(desc[g])'
    OBVIOUS
  <2>1. CASE g = h
    BY <1>1, <2>1 DEF Show, Good
  <2>2. CASE g # h
    BY <1>1, <2>2 DEF Live, Owned1, Good
  <2> QED BY <2>1, <2>2
<1>5. OneOwner'
  BY <1>1, <1>3 DEF Owned1, OneOwner, Show
<1> QED BY <1>1, <1>4, <1>5 DEF Owned1

LEMMA OwnKeeps ==
  ASSUME Distinguished, Owned1, ar' = ar, NEW h \in Handle, NEW d, NEW c, Own(h, d, c)
  PROVE  Owned1'
<1>1. /\ DOMAIN desc' = Handle /\ DOMAIN heap' = Addr
      /\ desc'[h] = d /\ \A g \in Handle : g # h => desc'[g] = desc[g]
      /\ heap'[d.data] = c /\ \A a \in Addr : a # d.data => heap'[a] = heap[a]
  BY DEF Owned1, Own
<1>2. d # NULL
  BY DEF Distinguished, Own, Good
<1>3. /\ Holds(h)' /\ desc'[h].data = d.data
      /\ \A g \in Handle : g # h => Holds(g)' = Holds(g) /\ desc'[g].data = desc[g].data
  BY <1>1, <1>2 DEF Holds, Live, Own
<1>4. \A g \in Live' : Good(desc[g])'
  <2> SUFFICES ASSUME NEW g \in Live' PROVE Good(desc[g])'
    OBVIOUS
  <2>1. CASE g = h
    BY <1>1, <2>1 DEF Own, Good
  <2>2. CASE g # h
    BY <1>1, <2>2 DEF Live, Owned1, Good
  <2> QED BY <2>1, <2>2
<1>5. \A g \in Handle : Holds(g) => desc[g].data # d.data /\ g # h
  BY DEF Owned1, OneOwner, Own
<1>6. OneOwner'
  BY <1>1, <1>3, <1>5 DEF Owned1, OneOwner, Own
<1> QED BY <1>1, <1>4, <1>6 DEF Owned1

LEMMA DropKeeps ==
  ASSUME Distinguished, Owned1, ar' = ar, NEW h \in Handle, NEW d, Drop(h, d)
  PROVE  Owned1'
<1>1. /\ DOMAIN desc' = Handle /\ DOMAIN heap' = Addr
      /\ desc'[h] = d /\ \A g \in Handle : g # h => desc'[g] = desc[g]
      /\ \A a \in Addr : heap'[a] = IF a = desc[h].data THEN Unused ELSE heap[a]
  BY DEF Owned1, Drop
<1>2. d = NULL \/ d.data \notin Addr
  BY DEF Drop
<1>3. ~Holds(h)' /\ \A g \in Handle : g # h => Holds(g)' = Holds(g) /\ desc'[g].data = desc[g].data
  BY <1>1, <1>2 DEF Holds, Live
<1>4. \A g \in Live' : Good(desc[g])'
  <2> SUFFICES ASSUME NEW g \in Live' PROVE Good(desc[g])'
    OBVIOUS
  <2>1. CASE g = h
    BY <1>1, <2>1 DEF Drop, Good, Live
  <2>2. CASE g # h
    BY <1>1, <2>2 DEF Live, Owned1, Good
  <2> QED BY <2>1, <2>2
<1>5. \A g \in Handle : Holds(g) /\ g # h => desc[g].data # desc[h].data
  BY DEF Owned1, OneOwner, Drop, Holds
<1>6. OneOwner'
  <2>1. \A g \in Handle : Holds(g)' => /\ heap'[desc'[g].data] # Unused
                                       /\ Tells(ar, desc[g], heap[desc[g].data])'
    BY <1>1, <1>3, <1>5 DEF Owned1, OneOwner, Holds
  <2>2. \A g, k \in Handle : Holds(g)' /\ Holds(k)' /\ desc'[g].data = desc'[k].data => g = k
    BY <1>3 DEF Owned1, OneOwner
  <2>3. \A a \in Addr : heap'[a] # Unused => \E g \in Handle : Holds(g)' /\ desc'[g].data = a
    <3> SUFFICES ASSUME NEW a \in Addr, heap'[a] # Unused
                 PROVE  \E g \in Handle : Holds(g)' /\ desc'[g].data = a
      OBVIOUS
    <3>1. heap[a] # Unused /\ a # desc[h].data
      BY <1>1
    <3>2. PICK g \in Handle : Holds(g) /\ desc[g].data = a
      BY <3>1 DEF Owned1, OneOwner
    <3> QED BY <1>3, <3>1, <3>2
  <2> QED BY <2>1, <2>2, <2>3 DEF OneOwner
<1> QED BY <1>1, <1>4, <1>6 DEF Owned1

LEMMA EffectKeeps ==
  ASSUME Distinguished, Owned1, Effect
  PROVE  Owned1'
<1>1. ar' = ar
  BY DEF Effect
<1>2. CASE desc' = desc /\ heap' = heap
  BY <1>1, <1>2 DEF Owned1, OneOwner, Holds, Live, Good
<1>3. ASSUME NEW h \in Handle, NEW d, Show(h, d) \/ Drop(h, d) PROVE Owned1'
  BY <1>1, <1>3, ShowKeeps, DropKeeps
<1>4. ASSUME NEW h \in Handle, NEW d, NEW c, Own(h, d, c) PROVE Owned1'
  BY <1>1, <1>4, OwnKeeps
<1> QED BY <1>2, <1>3, <1>4 DEF Effect
-----------------------------------------------------------------------------
(* The steps the formats share have such an effect, and no fault.          *)
Safe == Effect /\ fault' = FALSE

LEMMA KeepSafe ==
  ASSUME ~fault, UNCHANGED <<ar, desc, heap, fault>>, fault \in BOOLEAN PROVE Safe
BY DEF Safe, Effect

LEMMA NewSafe ==
  ASSUME NEW h \in Handle \ Live, NEW d, Good(d), d.data \notin Addr,
         desc' = [desc EXCEPT ![h] = d], UNCHANGED <<ar, heap>>, fault' = FALSE
  PROVE  Safe
<1>1. Show(h, d)
  BY DEF Show, Holds
<1> QED BY <1>1 DEF Safe, Effect

LEMMA InArchiveSafe ==
  ASSUME fault = FALSE, NEW h \in Handle, ~Holds(h), NEW d, NEW e, ShowInArchive(h, d, e),
         Good([d EXCEPT !.data = <<e>>]), "data" \in DOMAIN d, Distinguished
  PROVE  Safe
<1>1. Show(h, [d EXCEPT !.data = <<e>>])
  BY DEF Show, ShowInArchive, InArchive, Distinguished
<1> QED BY <1>1 DEF Safe, Effect, ShowInArchive

LEMMA InBlockSafe ==
  ASSUME fault = FALSE, NEW h \in Handle, ~Holds(h), NEW d, NEW c, ShowInBlock(h, d, c), c # Unused,
         "data" \in DOMAIN d, \A a \in Addr : Good([d EXCEPT !.data = a]), Tells(ar, d, c)
  PROVE  Safe
<1>1. PICK a \in Fresh : /\ heap' = [heap EXCEPT ![a] = c]
                         /\ desc' = [desc EXCEPT ![h] = [d EXCEPT !.data = a]]
  BY DEF ShowInBlock
<1>2. a \in Addr /\ heap[a] = Unused
  BY DEF Fresh
<1> DEFINE e == [d EXCEPT !.data = a]
<1>3. Good(e) /\ e.data = a /\ Tells(ar, e, c)
  BY <1>2, TellsSame
<1> HIDE DEF e
<1>4. Own(h, e, c)
  BY <1>1, <1>2, <1>3 DEF Own, e
<1> QED BY <1>4 DEF Safe, Effect, ShowInBlock

LEMMA DisposeSafe ==
  ASSUME NEW h \in Live, NEW d, NEW owned \in BOOLEAN, Dispose(h, d, owned),
         d = NULL \/ (Good(d) /\ d.data \notin Addr),
         desc[h].data \in Addr => owned,
         owned => desc[h].data = NULL \/ desc[h].data \in Addr, Owned1
  PROVE  Safe
<1>1. h \in Handle
  BY DEF Live
<1>2. desc[h].data \in Addr => heap[desc[h].data] # Unused
  BY <1>1 DEF Owned1, OneOwner, Holds
<1>3. fault' = FALSE
  BY <1>2 DEF Dispose, BadFree
<1>4. Drop(h, d)
  BY DEF Drop, Dispose, FreeBlock
<1> QED BY <1>1, <1>3, <1>4 DEF Safe, Effect, Dispose

ReadFailed == Effect /\ fault' /\ ReadFails

FreedPastMap == Effect /\ fault' = TRUE /\ FreesPastMap

(* Every nonempty set of naturals has a least element.                     *)
Less == {p \in Nat \X Nat : p[1] < p[2]}

LEMMA LeastExists ==
  ASSUME NEW T \in SUBSET Nat, T # {}
  PROVE  \E x \in T : \A y \in T : x <= y
<1>1. IsWellFoundedOn(Less, Nat)
  <2>1. OpToRel(<, Nat) = Less
    BY Zenon DEF Less, OpToRel
  <2> QED BY <2>1, NatLessThanWellFounded
<1>2. PICK x \in T : \A y \in T : ~ (<<y, x>> \in Less)
  BY <1>1, WFMin
<1>3. \A y \in T : y \in Nat /\ ~ (y < x)
  <2> SUFFICES ASSUME NEW y \in T PROVE y \in Nat /\ ~ (y < x)
    OBVIOUS
  <2>1. <<y, x>> \in Nat \X Nat /\ <<y, x>>[1] = y /\ <<y, x>>[2] = x
    OBVIOUS
  <2> QED BY <1>2, <2>1 DEF Less
<1> QED BY <1>3

(* What holds of 0 and passes on from each number to the next holds of all.*)
LEMMA Counting ==
  ASSUME NEW P, P \subseteq Nat, 0 \in P, \A n \in P : n + 1 \in P
  PROVE  P = Nat
<1> SUFFICES ASSUME Nat \ P # {} PROVE FALSE
  OBVIOUS
<1>1. PICK m \in Nat \ P : \A k \in Nat \ P : m <= k
  <2>1. Nat \ P \in SUBSET Nat
    OBVIOUS
  <2> QED BY <2>1, LeastExists
<1>2. m # 0 /\ m - 1 \in Nat /\ ~ (m <= m - 1) /\ m - 1 + 1 = m
  OBVIOUS
<1>3. m - 1 \in P
  BY <1>1, <1>2
<1> QED BY <1>2, <1>3

(* A step can be repeated any number of times.                             *)
Repeats(f, x, step) == f[0] = x /\ \A n \in Nat : f[n + 1] = step[f[n]]

LEMMA Repeating ==
  ASSUME NEW S, NEW x \in S, NEW step \in [S -> S]
  PROVE  \E f \in [Nat -> S] : Repeats(f, x, step)
<1> DEFINE Begun(m, g) == g \in [0 .. m -> S] /\ g[0] = x /\ \A i \in 0 .. m - 1 : g[i + 1] = step[g[i]]
<1>1. \A m \in Nat : \E g : Begun(m, g)
  <2> DEFINE P == {m \in Nat : \E g : Begun(m, g)}
  <2>1. 0 \in P
    <3>1. Begun(0, [i \in 0 .. 0 |-> x])
      OBVIOUS
    <3> HIDE DEF Begun
    <3> QED BY <3>1
  <2>2. ASSUME NEW m \in Nat, NEW g, Begun(m, g) PROVE \E k : Begun(m + 1, k)
    <3> DEFINE k == [i \in 0 .. m + 1 |-> IF i = m + 1 THEN step[g[m]] ELSE g[i]]
    <3>1. g[m] \in S /\ step[g[m]] \in S
      BY <2>2
    <3>2. k \in [0 .. m + 1 -> S]
      BY <2>2, <3>1
    <3>3. k[0] = x
      BY <2>2
    <3>4. ASSUME NEW i \in 0 .. m + 1 - 1 PROVE k[i + 1] = step[k[i]]
      <4>1. i \in 0 .. m /\ i # m + 1 /\ i \in 0 .. m + 1 /\ i + 1 \in 0 .. m + 1
        OBVIOUS
      <4>2. k[i] = g[i]
        BY <4>1
      <4>3. CASE i = m
        BY <4>1, <4>2, <4>3
      <4>4. CASE i # m
        <5>1. i \in 0 .. m - 1 /\ i + 1 # m + 1
          BY <4>1, <4>4
        <5>2. k[i + 1] = g[i + 1] /\ g[i + 1] = step[g[i]]
          BY <2>2, <4>1, <5>1
        <5> QED BY <4>2, <5>2
      <4> QED BY <4>3, <4>4
    <3> HIDE DEF k
    <3>5. Begun(m + 1, k)
      BY <3>2, <3>3, <3>4
    <3> HIDE DEF Begun
    <3> QED BY <3>5
  <2> HIDE DEF Begun
  <2>3. P \subseteq Nat /\ \A m \in P : m + 1 \in P
    BY <2>2
  <2> HIDE DEF P
  <2>4. P = Nat
    BY <2>1, <2>3, Counting
  <2> QED BY <2>4 DEF P
<1>2. ASSUME NEW m \in Nat, NEW k \in Nat, m <= k, NEW g, NEW h, Begun(m, g), Begun(k, h)
      PROVE  \A i \in 0 .. m : g[i] = h[i]
  <2> DEFINE P == {i \in Nat : i <= m => g[i] = h[i]}
  <2>1. 0 \in P
    BY <1>2
  <2>2. ASSUME NEW i \in P PROVE i + 1 \in P
    <3> SUFFICES ASSUME i + 1 <= m PROVE g[i + 1] = h[i + 1]
      OBVIOUS
    <3>1. i \in 0 .. m - 1 /\ i \in 0 .. k - 1 /\ g[i] = h[i]
      BY <1>2
    <3> QED BY <1>2, <3>1
  <2>3. P \subseteq Nat
    OBVIOUS
  <2> HIDE DEF P
  <2>4. P = Nat
    BY <2>1, <2>2, <2>3, Counting
  <2> QED BY <2>4 DEF P
<1> DEFINE G(m) == CHOOSE g : Begun(m, g)
           f    == [n \in Nat |-> G(n)[n]]
<1>3. \A m \in Nat : Begun(m, G(m))
  <2> HIDE DEF Begun
  <2> QED BY <1>1
<1> HIDE DEF G
<1>4. f \in [Nat -> S] /\ f[0] = x
  BY <1>3
<1>5. ASSUME NEW n \in Nat PROVE f[n + 1] = step[f[n]]
  <2>1. Begun(n, G(n)) /\ Begun(n + 1, G(n + 1))
    BY <1>3
  <2>2. G(n)[n] = G(n + 1)[n]
    <3>1. n <= n + 1 /\ n + 1 \in Nat /\ n \in 0 .. n
      OBVIOUS
    <3> HIDE DEF Begun
    <3> QED BY <1>2, <2>1, <3>1
  <2>3. G(n + 1)[n + 1] = step[G(n + 1)[n]]
    BY <2>1
  <2> QED BY <2>2, <2>3
<1> HIDE DEF f
<1>6. Repeats(f, x, step)
  BY <1>4, <1>5 DEF Repeats
<1> QED BY <1>4, <1>6

LEMMA UpToSize ==
  ASSUME NEW n \in Nat
  PROVE  IsFiniteSet(1 .. n) /\ Cardinality(1 .. n) = n
<1>1. IsFiniteSet(1 .. n) /\ Cardinality(1 .. n) = IF 1 > n THEN 0 ELSE n - 1 + 1
  BY FS_Interval
<1> QED BY <1>1

(* A step that never leaves a last place, repeated in a set of N places,   *)
(* reaches a last place in N steps or never.                               *)
LEMMA ReachedInTime ==
  ASSUME NEW N \in Nat, NEW f \in [Nat -> 0 .. N], NEW step \in [0 .. N -> 0 .. N],
         \A n \in Nat : f[n + 1] = step[f[n]],
         NEW Last, \A y \in Last : step[y] = y,
         NEW k \in Nat, f[k] \in Last, f[k] # 0, step[0] = 0
  PROVE  f[N] = f[k]
<1>1. ASSUME NEW i \in Nat, f[i] \in Last, NEW j \in Nat PROVE f[i + j] = f[i]
  <2> DEFINE P == {m \in Nat : f[i + m] = f[i]}
  <2>1. 0 \in P
    OBVIOUS
  <2>2. ASSUME NEW m \in P PROVE m + 1 \in P
    <3>1. i + m \in Nat /\ i + (m + 1) = (i + m) + 1 /\ f[i + m] = f[i]
      OBVIOUS
    <3> QED BY <1>1, <3>1
  <2>3. P \subseteq Nat
    OBVIOUS
  <2> HIDE DEF P
  <2>4. P = Nat
    BY <2>1, <2>2, <2>3, Counting
  <2> QED BY <2>4 DEF P
<1>2. PICK c \in Nat : f[c] \in Last /\ \A i \in Nat : f[i] \in Last => c <= i
  <2> DEFINE T == {i \in Nat : f[i] \in Last}
  <2>1. T \in SUBSET Nat /\ T # {}
    OBVIOUS
  <2> HIDE DEF T
  <2>2. PICK c \in T : \A i \in T : c <= i
    BY <2>1, LeastExists
  <2> QED BY <2>2 DEF T
<1>3. f[c] = f[k]
  <2>1. c <= k /\ k - c \in Nat /\ c + (k - c) = k
    BY <1>2
  <2> DEFINE j == k - c
  <2>2. j \in Nat /\ c + j = k
    BY <2>1
  <2> HIDE DEF j
  <2>3. f[c + j] = f[c]
    BY <1>1, <1>2, <2>2
  <2> QED BY <2>2, <2>3
\* Before c the places are different from each other, and none is 0.
<1>4. ASSUME NEW i \in 0 .. c - 1, NEW j \in 0 .. c - 1, i < j, f[i] = f[j] PROVE FALSE
  <2> DEFINE P == {m \in Nat : f[i + m] = f[j + m]}
  <2>1. 0 \in P
    BY <1>4
  <2>2. ASSUME NEW m \in P PROVE m + 1 \in P
    <3>1. i + m \in Nat /\ j + m \in Nat /\ i + (m + 1) = (i + m) + 1 /\ j + (m + 1) = (j + m) + 1
      OBVIOUS
    <3> QED BY <3>1
  <2>3. P \subseteq Nat
    OBVIOUS
  <2> HIDE DEF P
  <2>4. P = Nat
    BY <2>1, <2>2, <2>3, Counting
  <2>5. c - j \in Nat /\ j + (c - j) = c /\ i + (c - j) \in Nat /\ i + (c - j) < c
    BY <1>4
  <2>6. f[i + (c - j)] = f[c]
    BY <2>4, <2>5 DEF P
  <2> QED BY <1>2, <2>5, <2>6
<1>5. ASSUME NEW i \in 0 .. c - 1 PROVE f[i] \in 1 .. N
  <2>1. ASSUME f[i] = 0 PROVE FALSE
    <3> DEFINE P == {m \in Nat : f[i + m] = 0}
    <3>1. 0 \in P
      BY <2>1
    <3>2. ASSUME NEW m \in P PROVE m + 1 \in P
      <4>1. i + m \in Nat /\ i + (m + 1) = (i + m) + 1
        OBVIOUS
      <4> QED BY <4>1
    <3>3. P \subseteq Nat
      OBVIOUS
    <3> HIDE DEF P
    <3>4. P = Nat
      BY <3>1, <3>2, <3>3, Counting
    <3> DEFINE j == c - i
    <3>5. j \in Nat /\ i + j = c
      OBVIOUS
    <3> HIDE DEF j
    <3>6. f[i + j] = 0
      BY <3>4, <3>5 DEF P
    <3> QED BY <1>3, <3>5, <3>6
  <2>2. i \in Nat
    OBVIOUS
  <2>3. f[i] \in 0 .. N
    BY <2>2
  <2> QED BY <2>1, <2>3
<1>6. c <= N
  <2> DEFINE g == [i \in 1 .. c |-> f[i - 1]]
  <2>1. g \in [1 .. c -> 1 .. N]
    <3>1. \A i \in 1 .. c : i - 1 \in 0 .. c - 1
      OBVIOUS
    <3> QED BY <1>5, <3>1
  <2>2. ASSUME NEW i \in 1 .. c, NEW j \in 1 .. c, g[i] = g[j] PROVE i = j
    <3>1. i - 1 \in 0 .. c - 1 /\ j - 1 \in 0 .. c - 1
      OBVIOUS
    <3>2. f[i - 1] = f[j - 1]
      BY <2>2
    <3>3. ~ (i - 1 < j - 1) /\ ~ (j - 1 < i - 1)
      BY <1>4, <3>1, <3>2
    <3> QED BY <3>3
  <2>3. g \in Injection(1 .. c, 1 .. N)
    BY <2>1, <2>2 DEF Injection, IsInjective
  <2>4. IsFiniteSet(1 .. N) /\ Cardinality(1 .. N) = N /\ Cardinality(1 .. c) = c
    BY UpToSize
  <2> HIDE DEF g
  <2> QED BY <2>3, <2>4, FS_Injection
<1> DEFINE j == N - c
<1>7. j \in Nat /\ c + j = N
  BY <1>6
<1> HIDE DEF j
<1>8. f[c + j] = f[c]
  BY <1>1, <1>2, <1>7
<1> QED BY <1>3, <1>7, <1>8
ByTable == ar # NULL /\ ar.format \in {"alk", "dlf", "afa", "ald"}

LEMMA ReleaseSafe ==
  ASSUME Owned1, ByTable, ar.mmapped \in BOOLEAN, NEW h \in Live, ReleaseFile(h)
  PROVE  Safe
<1> DEFINE d == [desc[h] EXCEPT !.data = NULL]
<1>1. Good(desc[h])
  BY DEF Owned1
<1>2. Good(d) /\ d.data \notin Addr
  <2>1. Truthful(ar, d)
    BY <1>1, DataTruthful DEF Good, ByTable
  <2> QED BY <1>1, <2>1, ArchiveAssumption DEF Good, ByTable
<1>3. /\ desc[h].data \in Addr => ~ar.mmapped
      /\ ~ar.mmapped => desc[h].data = NULL \/ desc[h].data \in Addr
  BY <1>1, ArchiveAssumption DEF Good, ByTable
<1>4. Dispose(h, d, ~ar.mmapped)
  BY DEF ReleaseFile
<1> HIDE DEF d
<1> QED BY <1>2, <1>3, <1>4, DisposeSafe

LEMMA CopySafe ==
  ASSUME fault = FALSE, Owned1, ar # NULL, ar.format # "flat", NEW h \in Handle, CopyDescriptor(h)
  PROVE  Safe
<1>1. PICK g \in Live : desc' = [desc EXCEPT ![h] = [desc[g] EXCEPT !.data = NULL]]
  BY DEF CopyDescriptor
<1> DEFINE d == [desc[g] EXCEPT !.data = NULL]
<1>2. Good(desc[g])
  BY DEF Owned1
<1>3. Good(d) /\ d.data \notin Addr
  <2>1. Truthful(ar, d)
    BY <1>2, DataTruthful DEF Good
  <2> QED BY <1>2, <2>1, ArchiveAssumption DEF Good
<1>4. h \in Handle \ Live /\ UNCHANGED <<ar, heap>> /\ fault' = FALSE /\ desc' = [desc EXCEPT ![h] = d]
  BY <1>1 DEF CopyDescriptor
<1> HIDE DEF d
<1> QED BY <1>3, <1>4, NewSafe
-----------------------------------------------------------------------------
(* ALK and DLF.                                                            *)
LEMMA TableNames ==
  /\ Table!Live = Live /\ Table!Entries = Entries
  /\ \A h, d, e :
       /\ Table!ShowInArchive(h, d, e) <=> ShowInArchive(h, d, e)
       /\ Table!ShowInBlock(h, d, e) <=> ShowInBlock(h, d, e)
       /\ Table!Dispose(h, d, e) <=> Dispose(h, d, e)
  /\ \A h :
       /\ Table!ReleaseFile(h) <=> ReleaseFile(h)
       /\ Table!CopyDescriptor(h) <=> CopyDescriptor(h)
<1>1. Table!Live = Live /\ Table!Entries = Entries
  BY DEF Table!Live, Live, Table!Entries, Entries
<1>2. ASSUME NEW h, NEW d, NEW e
      PROVE  /\ Table!ShowInArchive(h, d, e) <=> ShowInArchive(h, d, e)
             /\ Table!ShowInBlock(h, d, e) <=> ShowInBlock(h, d, e)
             /\ Table!Dispose(h, d, e) <=> Dispose(h, d, e)
  BY DEF Table!ShowInArchive, ShowInArchive, Table!InArchive, InArchive,
         Table!ShowInBlock, ShowInBlock, Table!Fresh, Fresh,
         Table!Dispose, Dispose, Table!FreeBlock, FreeBlock, Table!BadFree, BadFree
<1>3. ASSUME NEW h
      PROVE  /\ Table!ReleaseFile(h) <=> ReleaseFile(h)
             /\ Table!CopyDescriptor(h) <=> CopyDescriptor(h)
  BY <1>1, <1>2 DEF Table!ReleaseFile, ReleaseFile, Table!CopyDescriptor, CopyDescriptor
<1> QED BY <1>1, <1>2, <1>3

LEMMA TableSafe ==
  ASSUME Distinguished, Owned1, fault = FALSE, ar \in Archives, ar # NULL,
         ar.format \in {"alk", "dlf"}, Table!Next
  PROVE  Safe \/ FreeArchive
<1>1. Len(ar.files) \in Nat /\ ar.mmapped \in BOOLEAN /\ ByTable /\ NULL \notin Addr /\ Iter \in Handle
  BY ArchiveAssumption DEF ByTable
<1>2. ASSUME NEW h \in Handle, ~Holds(h), NEW d, Good(d), d.data = NULL, Table!LoadInto(h, d)
      PROVE  Safe
  <2>3. Tells(ar, d, d.file)
    BY DEF Tells
  <2>1. CASE ar.mmapped /\ Table!ShowInArchive(h, d, d.file)
    <3>1. Truthful(ar, [d EXCEPT !.data = <<d.file>>])
      BY <1>2, <2>3, DataTruthful DEF Good
    <3>2. Good([d EXCEPT !.data = <<d.file>>]) /\ "data" \in DOMAIN d
      BY <1>1, <1>2, <2>1, <3>1 DEF Good, Distinguished
    <3> QED BY <1>2, <2>1, <3>2, TableNames, InArchiveSafe
  <2>2. CASE ~ar.mmapped /\ Table!ShowInBlock(h, d, d.file)
    <3>1. \A a \in Addr : Truthful(ar, [d EXCEPT !.data = a])
      BY <1>2, DataTruthful DEF Good
    <3>2. /\ \A a \in Addr : Good([d EXCEPT !.data = a])
          /\ "data" \in DOMAIN d /\ d.file # Unused
      BY <1>1, <1>2, <2>2, <3>1, ArchiveAssumption DEF Good
    <3> QED BY <1>2, <2>2, <2>3, <3>2, TableNames, InBlockSafe
  <2> QED BY <1>2, <2>1, <2>2 DEF Table!LoadInto
<1>3. ASSUME NEW e \in Table!Entries
      PROVE  Good(Table!NewDescriptor(e)) /\ Table!NewDescriptor(e).data = NULL
  BY <1>1, <1>3 DEF Table!Entries, Table!NewDescriptor, Good, Truthful
<1>4. ASSUME NEW h \in Live, Dispose(h, NULL, Table!FreesData(h)) PROVE Safe
  <2>1. Good(desc[h])
    BY DEF Owned1
  <2>2. /\ Table!FreesData(h) \in BOOLEAN
        /\ desc[h].data \in Addr => Table!FreesData(h)
        /\ Table!FreesData(h) => desc[h].data \in Addr
    BY <1>1, <2>1 DEF Table!FreesData, Good
  <2> QED BY <1>4, <2>2, DisposeSafe
<1>5. CASE Table!OpenArchive
  BY <1>5 DEF Table!OpenArchive
<1>6. CASE Table!FreeArchive
  BY <1>6 DEF Table!FreeArchive, Table!Live, FreeArchive, Live
<1>7. CASE Table!BeginForEach \/ Table!EndForEach
  BY <1>7, KeepSafe DEF Table!BeginForEach, Table!EndForEach
<1>8. CASE Table!Visit
  <2>1. CASE Table!SkipEntry
    BY <2>1, KeepSafe DEF Table!SkipEntry
  <2>2. CASE Table!CallIter(Table!NewDescriptor(visit))
    <3>1. Iter \in Handle \ Live /\ visit \in Table!Entries
      BY <1>1, <2>2 DEF Table!CallIter, Table!AtEntry, Table!Live, Live
    <3> QED BY <1>1, <1>3, <2>2, <3>1, NewSafe DEF Table!CallIter
  <2> QED BY <1>8, <2>1, <2>2 DEF Table!Visit
<1>9. CASE Table!ReturnIter
  BY <1>4, <1>9, TableNames DEF Table!ReturnIter
<1>10. ASSUME NEW h \in Handle, Table!Get(h) PROVE Safe
  <2>1. PICK e \in Table!Entries : Table!LoadInto(h, Table!NewDescriptor(e))
    BY <1>10 DEF Table!Get
  <2>2. ~Holds(h)
    BY <1>10, TableNames DEF Table!Get, Holds
  <2> QED BY <1>2, <1>3, <2>1, <2>2
<1>11. ASSUME NEW h \in Handle, Table!LoadFile(h) PROVE Safe
  <2>1. h \in Live /\ ~Holds(h) /\ Good(desc[h]) /\ desc[h].data = NULL
    BY <1>1, <1>11, TableNames DEF Table!LoadFile, Holds, Owned1
  <2> QED BY <1>2, <1>11, <2>1 DEF Table!LoadFile
<1>12. ASSUME NEW h \in Handle, Table!ReleaseFile(h) PROVE Safe
  <2>1. h \in Live /\ ReleaseFile(h)
    BY <1>12, TableNames DEF ReleaseFile
  <2> QED BY <1>1, <2>1, ReleaseSafe
<1>13. ASSUME NEW h \in Handle, Table!CopyDescriptor(h) PROVE Safe
  BY <1>1, <1>13, TableNames, CopySafe
<1>14. ASSUME NEW h \in Handle, Table!FreeData(h) PROVE Safe
  BY <1>4, <1>14, TableNames DEF Table!FreeData
<1> QED BY <1>5, <1>6, <1>7, <1>8, <1>9, <1>10, <1>11, <1>12, <1>13, <1>14 DEF Table!Next
-----------------------------------------------------------------------------
(* AFA.  A lookup finds the first entry there is, which has a number.      *)
LEMMA AfaNames ==
  /\ Afa!Live = Live /\ Afa!Entries = Entries
  /\ \A h, d, e :
       /\ Afa!ShowInArchive(h, d, e) <=> ShowInArchive(h, d, e)
       /\ Afa!ShowInBlock(h, d, e) <=> ShowInBlock(h, d, e)
       /\ Afa!Dispose(h, d, e) <=> Dispose(h, d, e)
  /\ \A h :
       /\ Afa!ReleaseFile(h) <=> ReleaseFile(h)
       /\ Afa!CopyDescriptor(h) <=> CopyDescriptor(h)
<1>1. Afa!Live = Live /\ Afa!Entries = Entries
  BY DEF Afa!Live, Live, Afa!Entries, Entries
<1>2. ASSUME NEW h, NEW d, NEW e
      PROVE  /\ Afa!ShowInArchive(h, d, e) <=> ShowInArchive(h, d, e)
             /\ Afa!ShowInBlock(h, d, e) <=> ShowInBlock(h, d, e)
             /\ Afa!Dispose(h, d, e) <=> Dispose(h, d, e)
  BY DEF Afa!ShowInArchive, ShowInArchive, Afa!InArchive, InArchive,
         Afa!ShowInBlock, ShowInBlock, Afa!Fresh, Fresh,
         Afa!Dispose, Dispose, Afa!FreeBlock, FreeBlock, Afa!BadFree, BadFree
<1>3. ASSUME NEW h
      PROVE  /\ Afa!ReleaseFile(h) <=> ReleaseFile(h)
             /\ Afa!CopyDescriptor(h) <=> CopyDescriptor(h)
  BY <1>1, <1>2 DEF Afa!ReleaseFile, ReleaseFile, Afa!CopyDescriptor, CopyDescriptor
<1> QED BY <1>1, <1>2, <1>3

LEMMA AfaFirst ==
  ASSUME NEW S \in SUBSET Nat
  PROVE  Afa!FirstOf(S) \in Nat /\ (S # {} => Afa!FirstOf(S) \in S)
<1>1. CASE S = {}
  BY <1>1 DEF Afa!FirstOf, Afa!NoEntry
<1>2. CASE S # {}
  <2>1. PICK x \in S : \A y \in S : x <= y
    BY <1>2, LeastExists
  <2>2. (CHOOSE e \in S : \A f \in S : e <= f) \in S
    BY <2>1
  <2> QED BY <1>2, <2>2 DEF Afa!FirstOf
<1> QED BY <1>1, <1>2

(* A number that an entry has finds an entry with that number.             *)
LEMMA AfaByNumber ==
  ASSUME NEW e \in Entries, Len(ar.files) \in Nat
  PROVE  /\ Afa!Number(e) = NumberIn(ar, e)
         /\ Afa!EntryByNumber(NumberIn(ar, e)) \in Entries
         /\ UniqueNumbers(ar) => Afa!EntryByNumber(NumberIn(ar, e)) = e
<1>1. \A f \in Entries : Afa!Number(f) = NumberIn(ar, f)
  BY DEF Afa!Number, NumberIn
<1>2. Afa!Entries = Entries /\ Entries = FilesIn(ar) /\ Entries \subseteq Nat
  BY DEF Afa!Entries, Entries, FilesIn
<1>3. CASE ar.hasNumber
  <2> DEFINE S == {f \in Entries : Afa!Number(f) = NumberIn(ar, e)}
  <2>1. S \in SUBSET Nat /\ e \in S /\ S \subseteq Entries
    BY <1>1, <1>2
  <2>2. Afa!EntryByNumber(NumberIn(ar, e)) = Afa!FirstOf(S)
    BY <1>2, <1>3 DEF Afa!EntryByNumber
  <2>3. \A f \in S : NumberIn(ar, f) = NumberIn(ar, e)
    BY <1>1
  <2> HIDE DEF S
  <2>4. Afa!FirstOf(S) \in S
    BY <2>1, AfaFirst
  <2> QED BY <1>1, <1>2, <1>3, <2>1, <2>2, <2>3, <2>4 DEF UniqueNumbers
<1>4. CASE ~ar.hasNumber
  <2>1. NumberIn(ar, e) = e - 1 /\ e - 1 + 1 = e
    BY <1>2, <1>4 DEF NumberIn
  <2> QED BY <1>1, <1>2, <1>4, <2>1 DEF Afa!EntryByNumber
<1> QED BY <1>3, <1>4

(* Whatever archive_get looks for, by number, name or base name, is in the *)
(* table.                                                                  *)
LEMMA AfaGettable ==
  ASSUME Len(ar.files) \in Nat
  PROVE  Afa!Gettable \subseteq Entries
<1>1. ASSUME NEW S \in SUBSET Entries, S # {} PROVE Afa!FirstOf(S) \in Entries
  <2>1. S \in SUBSET Nat
    BY <1>1 DEF Entries
  <2> QED BY <1>1, <2>1, AfaFirst
<1>2. ASSUME NEW f \in Entries
      PROVE  /\ Afa!EntryByNumber(Afa!Number(f)) \in Entries
             /\ Afa!EntryByName(ar.files[f].name) \in Entries
             /\ Afa!EntryByBasename(ar.files[f].base) \in Entries
  <2>1. Afa!EntryByNumber(Afa!Number(f)) \in Entries
    BY AfaByNumber
  <2>2. Afa!EntryByName(ar.files[f].name) \in Entries
    <3> DEFINE S == {e2 \in Entries : ar.files[e2].name = ar.files[f].name}
    <3>1. S \in SUBSET Entries /\ S # {}
      OBVIOUS
    <3> HIDE DEF S
    <3> QED BY <1>1, <3>1, AfaNames DEF Afa!EntryByName, S
  <2>3. Afa!EntryByBasename(ar.files[f].base) \in Entries
    <3> DEFINE S == {e2 \in Entries : ar.files[e2].base = ar.files[f].base}
    <3>1. S \in SUBSET Entries /\ S # {}
      OBVIOUS
    <3> HIDE DEF S
    <3> QED BY <1>1, <3>1, AfaNames DEF Afa!EntryByBasename, S
  <2> QED BY <2>1, <2>2, <2>3
<1> QED BY <1>2, AfaNames DEF Afa!Gettable

LEMMA AfaSafe ==
  ASSUME Distinguished, Owned1, fault = FALSE, ar \in Archives, ar # NULL,
         ar.format = "afa", Afa!Next
  PROVE  Safe \/ FreeArchive \/ ReadFailed
<1>1. Len(ar.files) \in Nat /\ ar.mmapped \in BOOLEAN /\ ByTable /\ NULL \notin Addr /\ Iter \in Handle
  BY ArchiveAssumption DEF ByTable
<1>2. Afa!Gettable \subseteq Entries
  BY <1>1, AfaGettable
<1>3. ASSUME NEW h \in Handle, ~Holds(h), NEW d, Good(d), d.data = NULL, Afa!LoadInto(h, d)
      PROVE  Safe
  <2> DEFINE e == Afa!EntryByNumber(d.no)
  <2>1. e \in Nat /\ Tells(ar, d, e)
    <3>1. d.file \in Entries /\ d.no = NumberIn(ar, d.file)
      BY <1>3 DEF Good, Truthful, FilesIn, Entries
    <3>2. e \in Entries /\ (UniqueNumbers(ar) => e = d.file)
      BY <1>1, <3>1, AfaByNumber
    <3> QED BY <1>1, <3>2 DEF Tells, Entries
  <2>2. e # Unused
    BY <2>1, ArchiveAssumption
  <2>3. (ar.mmapped /\ Afa!ShowInArchive(h, d, e)) \/ (~ar.mmapped /\ Afa!ShowInBlock(h, d, e))
    BY <1>3 DEF Afa!LoadInto
  <2> HIDE DEF e
  <2>4. CASE ar.mmapped /\ Afa!ShowInArchive(h, d, e)
    <3>1. Truthful(ar, [d EXCEPT !.data = <<e>>])
      BY <1>3, <2>1, DataTruthful DEF Good
    <3>2. Good([d EXCEPT !.data = <<e>>]) /\ "data" \in DOMAIN d
      BY <1>1, <1>3, <2>4, <3>1 DEF Good, Distinguished
    <3> QED BY <1>3, <2>4, <3>2, AfaNames, InArchiveSafe
  <2>5. CASE ~ar.mmapped /\ Afa!ShowInBlock(h, d, e)
    <3>1. \A a \in Addr : Truthful(ar, [d EXCEPT !.data = a])
      BY <1>3, DataTruthful DEF Good
    <3>2. /\ \A a \in Addr : Good([d EXCEPT !.data = a])
          /\ "data" \in DOMAIN d
      BY <1>1, <1>3, <2>5, <3>1 DEF Good
    <3> QED BY <1>3, <2>1, <2>2, <2>5, <3>2, AfaNames, InBlockSafe
  <2> QED BY <2>3, <2>4, <2>5
<1>4. ASSUME NEW e \in Entries
      PROVE  Good(Afa!NewDescriptor(e)) /\ Afa!NewDescriptor(e).data = NULL
  <2>1. Truthful(ar, Afa!NewDescriptor(e))
    BY <1>1, AfaByNumber DEF Afa!NewDescriptor, Truthful, FilesIn, Entries
  <2> QED BY <1>1, <2>1 DEF Afa!NewDescriptor, Good
<1>5. ASSUME NEW h \in Live, Dispose(h, NULL, Afa!FreesData(h)) PROVE Safe
  <2>1. Good(desc[h])
    BY DEF Owned1
  <2>2. /\ Afa!FreesData(h) \in BOOLEAN
        /\ desc[h].data \in Addr => Afa!FreesData(h)
        /\ Afa!FreesData(h) => desc[h].data \in Addr
    BY <1>1, <2>1 DEF Afa!FreesData, Good
  <2> QED BY <1>5, <2>2, DisposeSafe
<1>6. ASSUME NEW h \in Afa!Usable PROVE h \in Live /\ h \in Handle /\ Good(desc[h])
  BY AfaNames DEF Afa!Usable, Owned1, Live
<1>7. CASE Afa!OpenArchive
  BY <1>7 DEF Afa!OpenArchive
<1>8. CASE Afa!FreeArchive
  BY <1>8 DEF Afa!FreeArchive, Afa!Live, FreeArchive, Live
<1>9. CASE Afa!BeginForEach \/ Afa!EndForEach
  BY <1>9, KeepSafe DEF Afa!BeginForEach, Afa!EndForEach
<1>10. CASE Afa!Visit
  <2>1. Iter \in Handle \ Live /\ visit \in Entries /\ Afa!CallIter(Afa!NewDescriptor(visit))
    BY <1>1, <1>10, AfaNames DEF Afa!Visit, Afa!AtEntry
  <2> QED BY <1>1, <1>4, <2>1, NewSafe DEF Afa!CallIter
<1>11. CASE Afa!ReturnIter
  BY <1>5, <1>6, <1>11, AfaNames DEF Afa!ReturnIter
<1>12. ASSUME NEW h \in Handle, Afa!Get(h) PROVE Safe
  <2>1. PICK e \in Afa!Gettable : Afa!LoadInto(h, Afa!NewDescriptor(e))
    BY <1>12 DEF Afa!Get
  <2>2. ~Holds(h)
    BY <1>12, AfaNames DEF Afa!Get, Afa!CanGet, Holds
  <2>3. e \in Entries
    BY <1>2
  <2> QED BY <1>3, <1>4, <2>1, <2>2, <2>3
<1>13. ASSUME NEW h \in Handle, Afa!GetFails(h) \/ Afa!UseGone(h) PROVE ReadFailed
  BY <1>1, <1>13 DEF ReadFailed, ReadFails, Is, Effect, Afa!GetFails, Afa!UseGone
<1>14. ASSUME NEW h \in Handle, Afa!LoadFile(h) PROVE Safe
  <2>1. ~Holds(h) /\ Good(desc[h]) /\ desc[h].data = NULL /\ Afa!LoadInto(h, desc[h])
    BY <1>1, <1>6, <1>14 DEF Afa!LoadFile, Holds
  <2> QED BY <1>3, <2>1
<1>15. ASSUME NEW h \in Handle, Afa!LoadFileFails(h) PROVE Safe
  <2> DEFINE d == [desc[h] EXCEPT !.gone = TRUE]
  <2>1. desc[h].data = NULL /\ Good(desc[h]) /\ ~Holds(h)
    BY <1>1, <1>6, <1>15 DEF Afa!LoadFileFails, Holds
  <2>2. Good(d) /\ d.data \notin Addr
    <3>1. Truthful(ar, d)
      BY <2>1 DEF Good, Truthful
    <3> QED BY <1>1, <2>1, <3>1 DEF Good, ByTable
  <2>3. desc' = [desc EXCEPT ![h] = d] /\ UNCHANGED <<ar, heap>> /\ fault' = FALSE
    BY <1>15 DEF Afa!LoadFileFails
  <2> HIDE DEF d
  <2>4. Show(h, d)
    BY <2>1, <2>2, <2>3 DEF Show
  <2> QED BY <2>3, <2>4 DEF Safe, Effect
<1>16. ASSUME NEW h \in Handle, Afa!Release(h) PROVE Safe
  <2>1. h \in Live /\ ReleaseFile(h)
    BY <1>6, <1>16, AfaNames DEF Afa!Release
  <2> QED BY <1>1, <2>1, ReleaseSafe
<1>17. ASSUME NEW h \in Handle, Afa!Copy(h) PROVE Safe
  BY <1>1, <1>17, AfaNames, CopySafe DEF Afa!Copy
<1>18. ASSUME NEW h \in Handle, Afa!FreeData(h) PROVE Safe
  BY <1>5, <1>6, <1>18, AfaNames DEF Afa!FreeData
<1> QED BY <1>7, <1>8, <1>9, <1>10, <1>11, <1>12, <1>13, <1>14, <1>15, <1>16, <1>17, <1>18
        DEF Afa!Next
-----------------------------------------------------------------------------
(* ALD.                                                                    *)
LEMMA AldNames ==
  /\ Ald!Live = Live /\ Ald!Entries = Entries
  /\ \A h, d, e :
       /\ Ald!ShowInArchive(h, d, e) <=> ShowInArchive(h, d, e)
       /\ Ald!ShowInBlock(h, d, e) <=> ShowInBlock(h, d, e)
       /\ Ald!Dispose(h, d, e) <=> Dispose(h, d, e)
  /\ \A h :
       /\ Ald!ReleaseFile(h) <=> ReleaseFile(h)
       /\ Ald!CopyDescriptor(h) <=> CopyDescriptor(h)
<1>1. Ald!Live = Live /\ Ald!Entries = Entries
  BY DEF Ald!Live, Live, Ald!Entries, Entries
<1>2. ASSUME NEW h, NEW d, NEW e
      PROVE  /\ Ald!ShowInArchive(h, d, e) <=> ShowInArchive(h, d, e)
             /\ Ald!ShowInBlock(h, d, e) <=> ShowInBlock(h, d, e)
             /\ Ald!Dispose(h, d, e) <=> Dispose(h, d, e)
  BY DEF Ald!ShowInArchive, ShowInArchive, Ald!InArchive, InArchive,
         Ald!ShowInBlock, ShowInBlock, Ald!Fresh, Fresh,
         Ald!Dispose, Dispose, Ald!FreeBlock, FreeBlock, Ald!BadFree, BadFree
<1>3. ASSUME NEW h
      PROVE  /\ Ald!ReleaseFile(h) <=> ReleaseFile(h)
             /\ Ald!CopyDescriptor(h) <=> CopyDescriptor(h)
  BY <1>1, <1>2 DEF Ald!ReleaseFile, ReleaseFile, Ald!CopyDescriptor, CopyDescriptor
<1> QED BY <1>1, <1>2, <1>3

LEMMA AldSafe ==
  ASSUME Distinguished, Owned1, fault = FALSE, ar \in Archives, ar # NULL,
         ar.format = "ald", Ald!Next
  PROVE  Safe \/ FreeArchive
<1>1. Len(ar.files) \in Nat /\ ar.mmapped \in BOOLEAN /\ ByTable /\ NULL \notin Addr /\ Iter \in Handle
  BY ArchiveAssumption DEF ByTable
<1>2. ASSUME NEW h \in Handle, ~Holds(h), NEW d, Good(d), d.data = NULL, Ald!LoadInto(h, d)
      PROVE  Safe
  <2>1. CASE ar.mmapped /\ Ald!ShowInArchive(h, d, d.at)
    <3>1. Truthful(ar, [d EXCEPT !.data = <<d.at>>])
      <4>1. Tells(ar, d, d.at)
        BY DEF Tells
      <4> QED BY <1>2, <4>1, DataTruthful DEF Good
    <3>2. Good([d EXCEPT !.data = <<d.at>>]) /\ "data" \in DOMAIN d
      BY <1>1, <1>2, <2>1, <3>1 DEF Good, Distinguished
    <3> QED BY <1>2, <2>1, <3>2, AldNames, InArchiveSafe
  <2>2. ASSUME NEW c \in {d.at, Garbage}, c # Unused, ~ar.mmapped, Ald!ShowInBlock(h, d, c) PROVE Safe
    <3>1. \A a \in Addr : Truthful(ar, [d EXCEPT !.data = a])
      BY <1>2, DataTruthful DEF Good
    <3>2. /\ \A a \in Addr : Good([d EXCEPT !.data = a])
          /\ "data" \in DOMAIN d
      BY <1>1, <1>2, <2>2, <3>1 DEF Good
    <3>3. Tells(ar, d, c)
      BY <2>2 DEF Tells
    <3> QED BY <1>2, <2>2, <3>2, <3>3, AldNames, InBlockSafe
  <2>3. d.at # Unused /\ Garbage # Unused
    BY <1>1, <1>2, ArchiveAssumption DEF Good
  <2> QED BY <1>2, <2>1, <2>2, <2>3 DEF Ald!LoadInto
<1>3. ASSUME NEW e, NEW d \in Ald!Descriptors(e) PROVE Good(d) /\ d.data = NULL
  BY <1>1 DEF Ald!Descriptors, Ald!NewDescriptor, Ald!Where, Good, Truthful, Distinguished
<1>4. ASSUME NEW h \in Live, Dispose(h, NULL, Ald!Owned(h)) PROVE Safe
  <2>1. Good(desc[h])
    BY DEF Owned1
  <2>2. /\ Ald!Owned(h) \in BOOLEAN
        /\ desc[h].data \in Addr => Ald!Owned(h)
        /\ Ald!Owned(h) => desc[h].data \in Addr
    BY <1>1, <2>1 DEF Ald!Owned, Good
  <2> QED BY <1>4, <2>2, DisposeSafe
<1>5. CASE Ald!OpenArchive
  BY <1>5 DEF Ald!OpenArchive
<1>6. CASE Ald!FreeArchive
  BY <1>6 DEF Ald!FreeArchive, Ald!Live, FreeArchive, Live
<1>7. CASE Ald!BeginForEach \/ Ald!EndForEach
  BY <1>7, KeepSafe DEF Ald!BeginForEach, Ald!EndForEach
<1>8. CASE Ald!Visit
  <2>1. CASE Ald!SkipEntry
    BY <2>1, KeepSafe DEF Ald!SkipEntry
  <2>2. ASSUME NEW d \in Ald!Descriptors(visit), Ald!CallIter(d) PROVE Safe
    <3>1. Iter \in Handle \ Live
      BY <1>1, <2>2, AldNames DEF Ald!CallIter, Ald!AtEntry
    <3> QED BY <1>1, <1>3, <2>2, <3>1, NewSafe DEF Ald!CallIter
  <2> QED BY <1>8, <2>1, <2>2 DEF Ald!Visit
<1>9. CASE Ald!ReturnIter
  BY <1>4, <1>9, AldNames DEF Ald!ReturnIter
<1>10. ASSUME NEW h \in Handle, NEW e, NEW d \in Ald!Descriptors(e), Ald!CanGet(h), Ald!LoadInto(h, d)
       PROVE  Safe
  <2>1. ~Holds(h)
    BY <1>10, AldNames DEF Ald!CanGet, Holds
  <2> QED BY <1>2, <1>3, <1>10, <2>1
<1>11. ASSUME NEW h \in Handle, Ald!Get(h) \/ \E n \in ar.allNames : Ald!GetByName(h, n) PROVE Safe
  BY <1>10, <1>11 DEF Ald!Get, Ald!GetByName
<1>12. ASSUME NEW h \in Handle, Ald!LoadFile(h) PROVE Safe
  <2>1. h \in Live /\ ~Holds(h) /\ Good(desc[h]) /\ desc[h].data = NULL
    BY <1>1, <1>12, AldNames DEF Ald!LoadFile, Holds, Owned1
  <2> QED BY <1>2, <1>12, <2>1 DEF Ald!LoadFile
<1>13. ASSUME NEW h \in Handle, Ald!ReleaseFile(h) PROVE Safe
  <2>1. h \in Live /\ ReleaseFile(h)
    BY <1>13, AldNames DEF ReleaseFile
  <2> QED BY <1>1, <2>1, ReleaseSafe
<1>14. ASSUME NEW h \in Handle, Ald!CopyDescriptor(h) PROVE Safe
  BY <1>1, <1>14, AldNames, CopySafe
<1>15. ASSUME NEW h \in Handle, Ald!FreeData(h) PROVE Safe
  BY <1>4, <1>15, AldNames DEF Ald!FreeData
<1> QED BY <1>5, <1>6, <1>7, <1>8, <1>9, <1>11, <1>12, <1>13, <1>14, <1>15 DEF Ald!Next
-----------------------------------------------------------------------------
(* FLAT.                                                                   *)
LEMMA FlatNames ==
  /\ Flat!Live = Live /\ Flat!Entries = Entries
  /\ \A h, d, e :
       /\ Flat!ShowInArchive(h, d, e) <=> ShowInArchive(h, d, e)
       /\ Flat!ShowInBlock(h, d, e) <=> ShowInBlock(h, d, e)
       /\ Flat!Dispose(h, d, e) <=> Dispose(h, d, e)
  /\ \A h :
       /\ Flat!ReleaseFile(h) <=> ReleaseFile(h)
       /\ Flat!CopyDescriptor(h) <=> CopyDescriptor(h)
<1>1. Flat!Live = Live /\ Flat!Entries = Entries
  BY DEF Flat!Live, Live, Flat!Entries, Entries
<1>2. ASSUME NEW h, NEW d, NEW e
      PROVE  /\ Flat!ShowInArchive(h, d, e) <=> ShowInArchive(h, d, e)
             /\ Flat!ShowInBlock(h, d, e) <=> ShowInBlock(h, d, e)
             /\ Flat!Dispose(h, d, e) <=> Dispose(h, d, e)
  BY DEF Flat!ShowInArchive, ShowInArchive, Flat!InArchive, InArchive,
         Flat!ShowInBlock, ShowInBlock, Flat!Fresh, Fresh,
         Flat!Dispose, Dispose, Flat!FreeBlock, FreeBlock, Flat!BadFree, BadFree
<1>3. ASSUME NEW h
      PROVE  /\ Flat!ReleaseFile(h) <=> ReleaseFile(h)
             /\ Flat!CopyDescriptor(h) <=> CopyDescriptor(h)
  BY <1>1, <1>2 DEF Flat!ReleaseFile, ReleaseFile, Flat!CopyDescriptor, CopyDescriptor
<1> QED BY <1>1, <1>2, <1>3

LEMMA FlatSafe ==
  ASSUME Distinguished, Owned1, fault = FALSE, ar \in Archives, ar # NULL,
         ar.format = "flat", Flat!Next
  PROVE  Safe \/ FreeArchive
<1>1. /\ NULL \notin Addr /\ Iter \in Handle
      /\ Flat!Entries \subseteq Nat /\ \A e \in Nat : e # Unused
  BY ArchiveAssumption DEF Flat!Entries
<1>2. ASSUME NEW e \in Nat
      PROVE  Good(Flat!NewDescriptor(e)) /\ Flat!NewDescriptor(e).data \notin Addr
  <2> DEFINE d == Flat!NewDescriptor(e)
  <2>1. d.data = <<e>> /\ d.data \notin Addr /\ d.file = e /\ d.size = ar.files[e].stored
    BY DEF Flat!NewDescriptor, Flat!InArchive, Flat!File, Distinguished
  <2>2. Tells(ar, d, e) /\ SizeFits(ar.files[d.file], d)
    BY <2>1 DEF Tells, SizeFits
  <2>3. Truthful(ar, d)
    BY <2>1, <2>2 DEF Truthful
  <2> QED BY <1>1, <2>1, <2>3 DEF Flat!NewDescriptor, Good
<1>3. ASSUME NEW h \in Live, NEW d, Dispose(h, d, Flat!Owned(h)),
             d = NULL \/ (Good(d) /\ d.data \notin Addr)
      PROVE  Safe
  <2>1. Good(desc[h])
    BY DEF Owned1
  <2>2. /\ Flat!Owned(h) \in BOOLEAN
        /\ desc[h].data \in Addr => Flat!Owned(h)
        /\ Flat!Owned(h) => desc[h].data \in Addr
    BY <1>1, <2>1 DEF Flat!Owned, Good
  <2> QED BY <1>3, <2>2, DisposeSafe
<1>4. CASE Flat!OpenArchive
  BY <1>4 DEF Flat!OpenArchive
<1>5. CASE Flat!FreeArchive
  BY <1>5 DEF Flat!FreeArchive, Flat!Live, FreeArchive, Live
<1>6. CASE Flat!BeginForEach \/ Flat!EndForEach
  BY <1>6, KeepSafe DEF Flat!BeginForEach, Flat!EndForEach
<1>7. CASE Flat!Visit
  <2>1. Iter \in Handle \ Live /\ visit \in Nat /\ Flat!CallIter(Flat!NewDescriptor(visit))
    BY <1>1, <1>7, FlatNames DEF Flat!Visit, Flat!AtEntry
  <2> QED BY <1>2, <2>1, NewSafe DEF Flat!CallIter
<1>8. CASE Flat!ReturnIter
  BY <1>3, <1>8, FlatNames DEF Flat!ReturnIter
<1>9. ASSUME NEW h \in Handle, Flat!Get(h) PROVE Safe
  <2>1. PICK e \in Flat!Entries : desc' = [desc EXCEPT ![h] = Flat!NewDescriptor(e)]
    BY <1>9 DEF Flat!Get
  <2>2. h \in Handle \ Live /\ e \in Nat
    BY <1>1, <1>9, FlatNames DEF Flat!Get
  <2> QED BY <1>2, <1>9, <2>1, <2>2, NewSafe DEF Flat!Get
<1>10. ASSUME NEW h \in Handle, Flat!LoadFile(h) PROVE Safe
  <2> DEFINE d == desc[h]
             f == Flat!File(d.file)
             i == [d EXCEPT !.size = f.real, !.inflated = TRUE]
  <2>1. /\ h \in Live /\ ~d.inflated /\ Good(d)
        /\ \/ f.zlib /\ f.good /\ Flat!ShowInBlock(h, i, d.file)
           \/ ~(f.zlib /\ f.good) /\ Flat!ShowInArchive(h, d, d.file)
    BY <1>10, FlatNames DEF Flat!LoadFile, Owned1
  <2>2. ~Holds(h) /\ d.file # Unused
    BY <1>1, <2>1 DEF Holds, Good
  <2>3. CASE f.zlib /\ f.good /\ Flat!ShowInBlock(h, i, d.file)
    <3>1. ASSUME NEW a \in Addr PROVE Truthful(ar, [i EXCEPT !.data = a])
      BY <1>1, <2>1, <2>3 DEF Good, Truthful, SizeFits, Flat!File
    <3>2. Tells(ar, i, d.file)
      <4>1. i.file = d.file
        OBVIOUS
      <4> HIDE DEF i
      <4> QED BY <4>1 DEF Tells
    <3>3. ASSUME NEW a \in Addr PROVE Good([i EXCEPT !.data = a])
      <4> DEFINE k == [i EXCEPT !.data = a]
      <4>1. DOMAIN k = DOMAIN d /\ k.data = a /\ k.inflated = TRUE /\ k.file = d.file
        BY <2>1 DEF Good
      <4>2. Truthful(ar, k)
        BY <3>1
      <4> HIDE DEF k
      <4>3. Good(k)
        BY <1>1, <2>1, <4>1, <4>2 DEF Good
      <4> QED BY <4>3 DEF k
    <3>4. "data" \in DOMAIN i
      BY <2>1 DEF Good
    <3> HIDE DEF i, d
    <3> QED BY <2>2, <2>3, <3>2, <3>3, <3>4, FlatNames, InBlockSafe
  <2>4. CASE ~(f.zlib /\ f.good) /\ Flat!ShowInArchive(h, d, d.file)
    <3>1. Truthful(ar, [d EXCEPT !.data = <<d.file>>])
      BY <1>1, <2>1, <2>4 DEF Good, Truthful, SizeFits, Tells, Flat!File, Distinguished
    <3>2. "data" \in DOMAIN d /\ Good([d EXCEPT !.data = <<d.file>>])
      BY <1>1, <2>1, <3>1 DEF Good, Distinguished
    <3> HIDE DEF d
    <3> QED BY <2>2, <2>4, <3>2, FlatNames, InArchiveSafe
  <2> QED BY <2>1, <2>3, <2>4
<1>11. ASSUME NEW h \in Handle, Flat!Release(h) PROVE Safe
  <2>1. h \in Live /\ desc[h].file \in Nat
    BY <1>11, FlatNames DEF Flat!Release, Owned1, Good
  <2>2. Flat!Owned(h) = TRUE
    BY <1>11, <2>1 DEF Flat!Release, Flat!Owned, Owned1, Good
  <2> QED BY <1>2, <1>3, <1>11, <2>1, <2>2, FlatNames DEF Flat!Release
<1>12. ASSUME NEW h \in Handle, Flat!Copy(h) PROVE Safe
  <2>1. PICK g \in Live : desc' = [desc EXCEPT ![h] = [desc[g] EXCEPT !.data = NULL, !.inflated = FALSE]]
    BY <1>12, FlatNames DEF Flat!Copy
  <2> DEFINE d == [desc[g] EXCEPT !.data = NULL, !.inflated = FALSE]
  <2>2. Good(desc[g])
    BY DEF Owned1
  <2>3. Good(d) /\ d.data \notin Addr
    <3>1. Truthful(ar, d)
      BY <1>1, <2>2 DEF Good, Truthful, SizeFits
    <3> QED BY <1>1, <2>2, <3>1 DEF Good
  <2>4. h \in Handle \ Live /\ UNCHANGED <<ar, heap>> /\ fault' = FALSE /\ desc' = [desc EXCEPT ![h] = d]
    BY <1>12, <2>1, FlatNames DEF Flat!Copy
  <2> HIDE DEF d
  <2> QED BY <2>3, <2>4, NewSafe
<1>13. ASSUME NEW h \in Handle, Flat!FreeData(h) PROVE Safe
  BY <1>3, <1>13, FlatNames DEF Flat!FreeData
<1> QED BY <1>4, <1>5, <1>6, <1>7, <1>8, <1>9, <1>10, <1>11, <1>12, <1>13 DEF Flat!Next
-----------------------------------------------------------------------------
(* AAR: a load is carried through its links, at entries that exist.        *)
LEMMA AarNames ==
  /\ Aar!Live = Live /\ Aar!Entries = Entries
  /\ \A h, d, e :
       /\ Aar!ShowInArchive(h, d, e) <=> ShowInArchive(h, d, e)
       /\ Aar!ShowInBlock(h, d, e) <=> ShowInBlock(h, d, e)
       /\ Aar!Dispose(h, d, e) <=> Dispose(h, d, e)
  /\ \A h :
       /\ Aar!ReleaseFile(h) <=> ReleaseFile(h)
       /\ Aar!CopyDescriptor(h) <=> CopyDescriptor(h)
<1>1. Aar!Live = Live /\ Aar!Entries = Entries
  BY DEF Aar!Live, Live, Aar!Entries, Entries
<1>2. ASSUME NEW h, NEW d, NEW e
      PROVE  /\ Aar!ShowInArchive(h, d, e) <=> ShowInArchive(h, d, e)
             /\ Aar!ShowInBlock(h, d, e) <=> ShowInBlock(h, d, e)
             /\ Aar!Dispose(h, d, e) <=> Dispose(h, d, e)
  BY DEF Aar!ShowInArchive, ShowInArchive, Aar!InArchive, InArchive,
         Aar!ShowInBlock, ShowInBlock, Aar!Fresh, Fresh,
         Aar!Dispose, Dispose, Aar!FreeBlock, FreeBlock, Aar!BadFree, BadFree
<1>3. ASSUME NEW h
      PROVE  /\ Aar!ReleaseFile(h) <=> ReleaseFile(h)
             /\ Aar!CopyDescriptor(h) <=> CopyDescriptor(h)
  BY <1>1, <1>2 DEF Aar!ReleaseFile, ReleaseFile, Aar!CopyDescriptor, CopyDescriptor
<1> QED BY <1>1, <1>2, <1>3

LEMMA LookupPlace ==
  ASSUME NEW a, Len(a.files) \in Nat, NEW n
  PROVE  /\ LookupIn(a, n) \in 0 .. Len(a.files)
         /\ \A e \in FilesIn(a) : a.files[e].name = n => LookupIn(a, n) \in FilesIn(a)
<1> DEFINE S == {e \in FilesIn(a) : a.files[e].name = n}
<1>1. S \in SUBSET Nat /\ S \subseteq 1 .. Len(a.files)
  BY DEF FilesIn
<1>2. CASE S = {}
  BY <1>2 DEF LookupIn
<1>3. CASE S # {}
  <2> HIDE DEF S
  <2>1. PICK x \in S : \A y \in S : x <= y
    BY <1>1, <1>3, LeastExists
  <2>2. (CHOOSE e \in S : \A f \in S : e <= f) \in S
    BY <2>1
  <2>3. LookupIn(a, n) = IF S = {} THEN 0 ELSE CHOOSE e \in S : \A f \in S : e <= f
    BY DEF LookupIn, S
  <2>4. LookupIn(a, n) \in S
    BY <1>3, <2>2, <2>3
  <2>5. LookupIn(a, n) \in 1 .. Len(a.files)
    BY <1>1, <2>4
  <2> QED BY <2>5 DEF FilesIn
<1> QED BY <1>2, <1>3

FollowsLinks(a, p) == \A n \in Nat : p[n + 1] = AlongLink(a, p[n])

LEMMA PathSteps ==
  ASSUME NEW a, Len(a.files) \in Nat, NEW e \in FilesIn(a)
  PROVE  /\ Path(a, e) \in [Nat -> 0 .. Len(a.files)]
         /\ Path(a, e)[0] = e
         /\ FollowsLinks(a, Path(a, e))
<1> DEFINE N == Len(a.files)
           Rule(p) == p = [n \in Nat |-> IF n = 0 THEN e ELSE AlongLink(a, p[n - 1])]
           step == [f \in 0 .. N |-> AlongLink(a, f)]
<1>1. step \in [0 .. N -> 0 .. N]
  <2>1. ASSUME NEW f \in 0 .. N PROVE AlongLink(a, f) \in 0 .. N
    <3>1. LookupIn(a, a.files[f].target) \in 0 .. N
      BY LookupPlace
    <3> QED BY <3>1 DEF AlongLink
  <2> QED BY <2>1
<1>2. e \in 0 .. N
  BY DEF FilesIn
<1> HIDE DEF step
<1>3. PICK p \in [Nat -> 0 .. N] : p[0] = e /\ \A n \in Nat : p[n + 1] = step[p[n]]
  <2> DEFINE S == 0 .. N
  <2>1. step \in [S -> S] /\ e \in S
    BY <1>1, <1>2
  <2> HIDE DEF S
  <2>2. \E p \in [Nat -> S] : Repeats(p, e, step)
    BY <2>1, Repeating
  <2> QED BY <2>2 DEF S, Repeats
<1>4. Rule(p)
  <2>1. ASSUME NEW n \in Nat PROVE p[n] = IF n = 0 THEN e ELSE AlongLink(a, p[n - 1])
    <3>1. CASE n # 0
      <4>1. n - 1 \in Nat /\ n - 1 + 1 = n
        BY <3>1
      <4>2. p[n - 1 + 1] = step[p[n - 1]] /\ p[n - 1] \in 0 .. N
        BY <1>3, <4>1
      <4> QED BY <3>1, <4>1, <4>2 DEF step
    <3> QED BY <1>3, <3>1
  <2>2. p = [n \in Nat |-> p[n]]
    OBVIOUS
  <2> QED BY <2>1, <2>2
<1>5. Path(a, e) = CHOOSE q : Rule(q)
  BY DEF Path
<1> DEFINE q == Path(a, e)
<1>6. Rule(q)
  <2> HIDE DEF Rule
  <2> QED BY <1>4, <1>5
<1> HIDE DEF q
<1>7. q[0] = e
  BY <1>6
<1>8. ASSUME NEW n \in Nat PROVE q[n + 1] = AlongLink(a, q[n])
  <2>1. n + 1 \in Nat /\ n + 1 # 0 /\ n + 1 - 1 = n
    OBVIOUS
  <2> QED BY <1>6, <2>1
<1>9. \A n \in Nat : q[n] \in 0 .. N
  <2> DEFINE P == {n \in Nat : q[n] \in 0 .. N}
  <2>1. 0 \in P
    BY <1>2, <1>7
  <2>2. ASSUME NEW n \in P PROVE n + 1 \in P
    <3>1. step[q[n]] \in 0 .. N
      BY <1>1
    <3>2. step[q[n]] = AlongLink(a, q[n])
      BY DEF step
    <3>3. n \in Nat /\ n + 1 \in Nat /\ q[n + 1] = AlongLink(a, q[n])
      BY <1>8
    <3> QED BY <3>1, <3>2, <3>3
  <2>3. P \subseteq Nat
    OBVIOUS
  <2> HIDE DEF P
  <2>4. P = Nat
    BY <2>1, <2>2, <2>3, Counting
  <2> QED BY <2>4 DEF P
<1>10. q \in [Nat -> 0 .. N]
  BY <1>6, <1>9
<1>11. FollowsLinks(a, q)
  BY <1>8 DEF FollowsLinks
<1> QED BY <1>7, <1>10, <1>11 DEF q

(* Links that reach an entry that is none do so within as many steps as    *)
(* there are entries.                                                      *)
LEMMA PathEnds ==
  ASSUME NEW a, Len(a.files) \in Nat, NEW e \in FilesIn(a), NEW n \in Nat,
         Path(a, e)[n] \in FilesIn(a), a.files[Path(a, e)[n]].type # "link"
  PROVE  Path(a, e)[Len(a.files)] = Path(a, e)[n]
<1> DEFINE N == Len(a.files)
           p == Path(a, e)
           step == [f \in 0 .. N |-> AlongLink(a, f)]
           Last == {f \in FilesIn(a) : a.files[f].type # "link"}
<1>1. /\ p \in [Nat -> 0 .. N] /\ FollowsLinks(a, p)
  BY PathSteps
<1> HIDE DEF p
<1>2. step \in [0 .. N -> 0 .. N]
  <2>1. ASSUME NEW f \in 0 .. N PROVE AlongLink(a, f) \in 0 .. N
    <3>1. LookupIn(a, a.files[f].target) \in 0 .. N
      BY LookupPlace
    <3> QED BY <3>1 DEF AlongLink
  <2> QED BY <2>1
<1>3. \A f \in 0 .. N : step[f] = AlongLink(a, f)
  OBVIOUS
<1>4. step[0] = 0 /\ \A f \in Last : step[f] = f
  <2>1. 0 \in 0 .. N /\ \A f \in Last : f \in 0 .. N /\ f # 0
    BY DEF FilesIn
  <2> QED BY <1>3, <2>1 DEF AlongLink
<1> HIDE DEF step
<1>5. \A i \in Nat : p[i + 1] = step[p[i]]
  BY <1>1, <1>3 DEF FollowsLinks
<1>6. p[n] \in Last /\ p[n] # 0
  BY DEF p, FilesIn
<1> HIDE DEF Last
<1>7. p[N] = p[n]
  BY <1>1, <1>2, <1>4, <1>5, <1>6, ReachedInTime
<1> QED BY <1>7 DEF p

LEMMA AarLinks ==
  /\ \A n : Aar!Lookup(n) = LookupIn(ar, n)
  /\ \A e : Aar!LinkEnd(e) = Path(ar, e)[Len(ar.files)]
<1>1. \A n : Aar!Lookup(n) = LookupIn(ar, n)
  BY Zenon DEF Aar!Lookup, LookupIn, Aar!Entries, FilesIn, Aar!NoEntry
<1>2. \A e : Aar!LinkEnd(e) = Path(ar, e)[Len(ar.files)]
  BY Zenon DEF Aar!LinkEnd, Path, AlongLink, Aar!Lookup, LookupIn, Aar!Entries, FilesIn,
               Aar!NoEntry, Aar!IsLink
<1> QED BY <1>1, <1>2

LEMMA AarSafe ==
  ASSUME Distinguished, Owned1, LoadInv, fault = FALSE, ar \in Archives, ar # NULL,
         ar.format = "aar", Aar!Next
  PROVE  (LoadInv' /\ (Safe \/ FreedPastMap)) \/ (FreeArchive /\ load' = NULL)
<1>1. /\ NULL \notin Addr /\ Iter \in Handle /\ ar.mmapped \in BOOLEAN /\ Len(ar.files) \in Nat
      /\ Aar!Entries \subseteq Nat /\ \A e \in Nat : e # Unused
  BY ArchiveAssumption DEF Aar!Entries
<1>2. ASSUME NEW e \in FilesIn(ar)
      PROVE  Good(Aar!NewDescriptor(e)) /\ Aar!NewDescriptor(e).data = NULL
  BY <1>1 DEF Aar!NewDescriptor, Good, Truthful, FilesIn
<1>3. ASSUME NEW h \in Live, NEW d, Dispose(h, d, Aar!Owned(h)),
             d = NULL \/ (Good(d) /\ d.data = NULL)
      PROVE  Safe \/ FreedPastMap
  <2>1. Good(desc[h])
    BY DEF Owned1
  <2>2. /\ Aar!Owned(h) \in BOOLEAN
        /\ desc[h].data \in Addr => Aar!Owned(h)
        /\ Aar!Owned(h) => desc[h].data \in Addr \/ Aar!PastMap(h)
    BY <1>1, <2>1 DEF Aar!Owned, Aar!InMap, Aar!PastMap, Good
  <2>3. d = NULL \/ (Good(d) /\ d.data \notin Addr)
    BY <1>1, <1>3
  <2>4. CASE Aar!PastMap(h)
    <3>1. desc[h].data # NULL /\ desc[h].data \notin Addr /\ Aar!Owned(h)
      BY <2>4 DEF Aar!PastMap, Aar!Owned
    <3>2. desc' = [desc EXCEPT ![h] = d] /\ heap' = heap /\ fault' = TRUE /\ ar' = ar
      BY <1>3, <3>1 DEF Dispose, FreeBlock, BadFree
    <3>3. h \in Handle /\ desc'[h] = d /\ desc'[h] # desc[h]
      BY <1>3, <3>1, <3>2 DEF Live, Owned1
    <3>4. FreesPastMap
      BY <1>1, <2>4, <3>3 DEF FreesPastMap, Is
    <3>5. Drop(h, d)
      BY <2>3, <3>1, <3>2 DEF Drop
    <3> QED BY <3>2, <3>3, <3>4, <3>5 DEF FreedPastMap, Effect
  <2>5. CASE ~Aar!PastMap(h)
    <3>1. Aar!Owned(h) => desc[h].data = NULL \/ desc[h].data \in Addr
      BY <2>2, <2>5
    <3> QED BY <1>3, <2>2, <2>3, <3>1, DisposeSafe
  <2> QED BY <2>4, <2>5
<1>4. load' = NULL => LoadInv'
  BY DEF LoadInv
<1>5. CASE Aar!Frame /\ Aar!OpenArchive
  BY <1>5 DEF Aar!OpenArchive
<1>6. CASE Aar!Frame /\ Aar!FreeArchive
  BY <1>6 DEF Aar!Frame, Aar!FreeArchive, Aar!Live, FreeArchive, Live
<1>7. CASE Aar!Frame /\ (Aar!BeginForEach \/ Aar!EndForEach)
  BY <1>4, <1>7, KeepSafe DEF Aar!Frame, Aar!BeginForEach, Aar!EndForEach
<1>8. CASE Aar!Visit
  <2>1. Iter \in Handle \ Live /\ visit \in FilesIn(ar) /\ Aar!CallIter(Aar!NewDescriptor(visit)) /\ load' = NULL
    BY <1>1, <1>8, AarNames DEF Aar!Visit, Aar!AtEntry, Aar!CanStart, Entries, FilesIn
  <2> QED BY <1>1, <1>2, <1>4, <2>1, NewSafe DEF Aar!CallIter
<1>9. CASE Aar!ReturnIter
  BY <1>3, <1>4, <1>9, AarNames DEF Aar!ReturnIter, Aar!CanStart
<1> DEFINE Kept == /\ DOMAIN load' = {"h", "d", "at"}
                   /\ load'.h \in Handle /\ ~Holds(load'.h)
                   /\ Good(load'.d) /\ load'.d.data = NULL /\ OnItsWay(load')
<1>10. ASSUME UNCHANGED Aar!vars
       PROVE  /\ Safe
              /\ load' = NULL \/ Kept => LoadInv'
  <2>1. UNCHANGED <<ar, desc, heap, fault>>
    BY <1>10 DEF Aar!vars
  <2>2. Safe
    BY <2>1, KeepSafe
  <2> QED BY <2>1, <2>2 DEF LoadInv, Holds, Live, Good, OnItsWay
<1>11. CASE Aar!FollowLink
  <2> DEFINE e == Aar!Lookup(ar.files[load.at].target)
  <2>1. /\ load # NULL /\ UNCHANGED Aar!vars
        /\ load' = NULL \/ load' = [load EXCEPT !.at = e]
    BY <1>11 DEF Aar!FollowLink
  <2>2. e \in 0 .. Len(ar.files) /\ e = LookupIn(ar, ar.files[load.at].target)
    BY <1>1, AarLinks, LookupPlace
  <2>5. load' # NULL => e # 0
    BY <1>11 DEF Aar!FollowLink, Aar!NoEntry
  <2>6. ar.files[load.at].type = "link"
    BY <1>11 DEF Aar!FollowLink, Aar!IsLink
  <2> HIDE DEF e
  <2>3. CASE load' = NULL
    BY <1>4, <1>10, <2>1, <2>3
  <2>4. CASE load' # NULL
    <3>1. load'.h = load.h /\ load'.d = load.d /\ load'.at = e /\ DOMAIN load' = DOMAIN load
      BY <2>1, <2>4 DEF LoadInv
    <3>2. PICK n \in Nat : load.at = Path(ar, load.d.file)[n]
      BY <2>1 DEF LoadInv, OnItsWay
    <3>3. load.at \in FilesIn(ar) /\ load.at # 0 /\ load.d.file \in FilesIn(ar)
      BY <1>1, <2>1 DEF LoadInv, OnItsWay, Good, Truthful, FilesIn
    <3>4. n + 1 \in Nat /\ Path(ar, load.d.file)[n + 1] = e
      <4>1. Path(ar, load.d.file)[n + 1] = AlongLink(ar, Path(ar, load.d.file)[n])
        <5>1. FollowsLinks(ar, Path(ar, load.d.file))
          BY <1>1, <3>3, PathSteps
        <5> QED BY <5>1 DEF FollowsLinks
      <4>2. AlongLink(ar, load.at) = e
        BY <2>2, <2>6, <3>3 DEF AlongLink
      <4> QED BY <3>2, <4>1, <4>2
    <3>5. OnItsWay(load')
      BY <2>2, <2>4, <2>5, <3>1, <3>4 DEF OnItsWay, FilesIn
    <3> QED BY <1>10, <2>1, <2>4, <3>1, <3>5 DEF LoadInv
  <2> QED BY <2>3, <2>4
<1>12. CASE Aar!LoadFails
  BY <1>4, <1>10, <1>12 DEF Aar!LoadFails
<1>13. CASE Aar!FinishLoad
  <2> DEFINE d == [load.d EXCEPT !.size = ar.files[load.at].real]
             h == load.h
             e == load.at
  <2>1. /\ h \in Handle /\ ~Holds(h) /\ Good(load.d) /\ load' = NULL
        /\ \/ ar.mmapped /\ Aar!ShowInArchive(h, d, e)
           \/ Aar!ShowInBlock(h, d, e)
    BY <1>13 DEF Aar!FinishLoad, LoadInv
  <2>6. e \in Nat /\ Tells(ar, d, e)
    <3>1. PICK n \in Nat : e = Path(ar, load.d.file)[n]
      BY <1>13 DEF LoadInv, OnItsWay, Aar!FinishLoad
    <3>2. e \in FilesIn(ar) /\ load.d.file \in FilesIn(ar) /\ ar.files[e].type # "link"
      BY <1>1, <1>13 DEF LoadInv, OnItsWay, Good, Truthful, Aar!FinishLoad
    <3>3. Path(ar, load.d.file)[Len(ar.files)] = e
      BY <1>1, <3>1, <3>2, PathEnds
    <3>4. d.file = load.d.file /\ d.size = ar.files[e].real
      BY <1>13 DEF LoadInv, Good, Aar!FinishLoad
    <3> HIDE DEF d, e
    <3> QED BY <1>1, <3>2, <3>3, <3>4 DEF Tells, FilesIn
  <2>7. Truthful(ar, d) /\ "data" \in DOMAIN d
    <3>1. Truthful(ar, load.d) /\ "data" \in DOMAIN load.d /\ load.d.data = NULL
      BY <1>13 DEF LoadInv, Good, Aar!FinishLoad
    <3>2. d.data = NULL /\ d.file = load.d.file
      BY <3>1
    <3>3. "data" \in DOMAIN d
      BY <3>1
    <3> HIDE DEF d
    <3> QED BY <1>1, <3>1, <3>2, <3>3 DEF Truthful
  <2>8. \A x \in Addr \cup {<<e>>} : Truthful(ar, [d EXCEPT !.data = x])
    <3> HIDE DEF d, e
    <3> QED BY <2>6, <2>7, DataTruthful
  <2>9. ASSUME NEW x \in Addr \cup {<<e>>}, x \in Addr \/ ar.mmapped
        PROVE  Good([d EXCEPT !.data = x])
    <3> DEFINE k == [d EXCEPT !.data = x]
    <3>1. DOMAIN k = DOMAIN load.d /\ k.data = x /\ k.file = load.d.file
      BY <2>7
    <3>2. Truthful(ar, k)
      BY <2>8
    <3> HIDE DEF k, e
    <3>3. Good(k)
      BY <1>1, <2>1, <2>9, <3>1, <3>2 DEF Good
    <3> QED BY <3>3 DEF k
  <2>2. "data" \in DOMAIN d /\ \A a \in Addr : Good([d EXCEPT !.data = a])
    BY <2>7, <2>9
  <2>3. ar.mmapped => Good([d EXCEPT !.data = <<e>>])
    BY <2>9
  <2> HIDE DEF d, h, e
  <2>4. CASE ar.mmapped /\ Aar!ShowInArchive(h, d, e)
    BY <1>4, <2>1, <2>2, <2>3, <2>4, AarNames, InArchiveSafe
  <2>5. CASE Aar!ShowInBlock(h, d, e)
    BY <1>1, <1>4, <2>1, <2>2, <2>5, <2>6, AarNames, InBlockSafe
  <2> QED BY <2>1, <2>4, <2>5
<1>14. ASSUME NEW h \in Handle, Aar!Get(h) PROVE LoadInv' /\ Safe
  <2>1. PICK e \in Aar!Entries \cup {Aar!Lookup(ar.files[f].name) : f \in Aar!Entries} :
          load' = [h |-> h, d |-> Aar!NewDescriptor(e), at |-> e]
    BY <1>14 DEF Aar!Get
  <2>2. e \in FilesIn(ar)
    <3>1. ASSUME NEW f \in FilesIn(ar) PROVE Aar!Lookup(ar.files[f].name) \in FilesIn(ar)
      BY <1>1, <3>1, AarLinks, LookupPlace
    <3> QED BY <2>1, <3>1 DEF Aar!Entries, FilesIn
  <2>3. ~Holds(h) /\ UNCHANGED Aar!vars
    BY <1>14, AarNames DEF Aar!Get, Holds
  <2>4. OnItsWay(load')
    <3>1. load'.at = e /\ load'.d.file = e
      BY <2>1 DEF Aar!NewDescriptor
    <3>2. 0 \in Nat /\ Path(ar, e)[0] = e
      BY <1>1, <2>2, PathSteps
    <3> QED BY <2>2, <3>1, <3>2 DEF OnItsWay
  <2> QED BY <1>2, <1>10, <2>1, <2>2, <2>3, <2>4
<1>15. ASSUME NEW h \in Handle, Aar!LoadFile(h) PROVE LoadInv' /\ Safe
  <2>1. /\ UNCHANGED Aar!vars /\ Good(desc[h]) /\ ~Holds(h)
        /\ load' = [h |-> h, d |-> desc[h], at |-> desc[h].file]
        /\ desc[h].data = NULL
    BY <1>1, <1>15, AarNames DEF Aar!LoadFile, Holds, Owned1
  <2>2. desc[h].file \in FilesIn(ar)
    BY <2>1 DEF Good, Truthful
  <2>3. OnItsWay(load')
    <3>1. load'.at = desc[h].file /\ load'.d.file = desc[h].file
      BY <2>1
    <3>2. 0 \in Nat /\ Path(ar, desc[h].file)[0] = desc[h].file
      BY <1>1, <2>2, PathSteps
    <3> QED BY <2>2, <3>1, <3>2 DEF OnItsWay
  <2> QED BY <1>10, <2>1, <2>3
<1>16. ASSUME NEW h \in Handle, Aar!Release(h) PROVE LoadInv' /\ (Safe \/ FreedPastMap)
  <2> DEFINE d == [desc[h] EXCEPT !.data = NULL]
  <2>1. h \in Live /\ Dispose(h, d, Aar!Owned(h)) /\ load' = NULL
    BY <1>16, AarNames DEF Aar!Release, Aar!CanStart
  <2>2. Good(desc[h])
    BY <2>1 DEF Owned1
  <2>3. Good(d) /\ d.data = NULL
    <3>1. Truthful(ar, d)
      BY <2>2, DataTruthful DEF Good
    <3> QED BY <1>1, <2>2, <3>1 DEF Good
  <2> HIDE DEF d
  <2> QED BY <1>3, <1>4, <2>1, <2>3
<1>17. ASSUME NEW h \in Handle, Aar!Copy(h) PROVE LoadInv' /\ Safe
  BY <1>4, <1>17, AarNames, CopySafe DEF Aar!Copy, Aar!CanStart
<1>18. ASSUME NEW h \in Handle, Aar!FreeData(h) PROVE LoadInv' /\ (Safe \/ FreedPastMap)
  BY <1>3, <1>4, <1>18, AarNames DEF Aar!FreeData, Aar!CanStart
<1> QED BY <1>5, <1>6, <1>7, <1>8, <1>9, <1>11, <1>12, <1>13, <1>14, <1>15, <1>16, <1>17, <1>18
        DEF Aar!Next, Aar!LoadStep
-----------------------------------------------------------------------------
(* Any step.  While no archive is open a client can only open one.         *)
LEMMA OnlyOpens ==
  ASSUME IInv, ar = NULL, Next
  PROVE  Live = {} /\ load = NULL /\ ar' \in Archives /\ UNCHANGED <<desc, heap, visit, fault, load>>
<1>1. load = NULL /\ Live = {}
  BY DEF IInv, LoadInv, Owned1, Good
<1>2. ar' \in Archives /\ UNCHANGED <<desc, heap, visit, fault, load>>
  <2>1. CASE Table!Next /\ UNCHANGED load
    BY <1>1, <2>1, TableNames
    DEF Of, Table!Next, Table!OpenArchive, Table!FreeArchive, Table!BeginForEach, Table!EndForEach,
        Table!Visit, Table!AtEntry, Table!ReturnIter, Table!Get, Table!LoadFile, ReleaseFile,
        CopyDescriptor, Table!FreeData
  <2>2. CASE Afa!Next /\ UNCHANGED load
    BY <1>1, <2>2, AfaNames
    DEF Of, Afa!Next, Afa!OpenArchive, Afa!FreeArchive, Afa!BeginForEach, Afa!EndForEach,
        Afa!Visit, Afa!AtEntry, Afa!ReturnIter, Afa!Get, Afa!GetFails, Afa!CanGet, Afa!LoadFile,
        Afa!LoadFileFails, Afa!UseGone, Afa!Release, Afa!Copy, Afa!FreeData, Afa!Usable,
        CopyDescriptor
  <2>3. CASE Ald!Next /\ UNCHANGED load
    BY <1>1, <2>3, AldNames
    DEF Of, Ald!Next, Ald!OpenArchive, Ald!FreeArchive, Ald!BeginForEach, Ald!EndForEach,
        Ald!Visit, Ald!AtEntry, Ald!ReturnIter, Ald!Get, Ald!GetByName, Ald!CanGet, Ald!LoadFile,
        ReleaseFile, CopyDescriptor, Ald!FreeData
  <2>4. CASE Flat!Next /\ UNCHANGED load
    BY <1>1, <2>4, FlatNames
    DEF Of, Flat!Next, Flat!OpenArchive, Flat!FreeArchive, Flat!BeginForEach, Flat!EndForEach,
        Flat!Visit, Flat!AtEntry, Flat!ReturnIter, Flat!Get, Flat!LoadFile, Flat!Release,
        Flat!Copy, Flat!FreeData
  <2>5. CASE Aar!Next
    BY <1>1, <2>5, AarNames
    DEF Of, Aar!Next, Aar!OpenArchive, Aar!FreeArchive, Aar!BeginForEach, Aar!EndForEach,
        Aar!Frame, Aar!LoadStep, Aar!FollowLink, Aar!LoadFails, Aar!FinishLoad, Aar!CanStart,
        Aar!Visit, Aar!ReturnIter, Aar!Get, Aar!LoadFile, Aar!Release, Aar!Copy, Aar!FreeData
  <2> QED BY <2>1, <2>2, <2>3, <2>4, <2>5 DEF Next
<1> QED BY <1>1, <1>2

LEMMA OpenKeeps ==
  ASSUME IInv, ar = NULL, Next
  PROVE  IInv' /\ fault' = fault
<1>1. Live = {} /\ load = NULL /\ ar' \in Archives /\ UNCHANGED <<desc, heap, fault, load>>
  BY OnlyOpens
<1>2. Live' = {} /\ Owned1' /\ LoadInv'
  BY <1>1 DEF IInv, Owned1, OneOwner, Holds, Live, LoadInv
<1> QED BY <1>1, <1>2 DEF IInv

LEMMA StepKeeps ==
  ASSUME Distinguished, IInv, ar # NULL, Next
  PROVE  IInv' /\ (fault' => ReadFails \/ FreesPastMap)
<1>1. fault = FALSE /\ ar \in Archives /\ Owned1 /\ LoadInv
  BY DEF IInv, Next, Table!Next, Afa!Next, Ald!Next, Flat!Next, Aar!Next
<1>2. ASSUME Safe \/ ReadFailed \/ FreedPastMap, LoadInv'
      PROVE  IInv' /\ (fault' => ReadFails \/ FreesPastMap)
  <2>1. Effect /\ fault' \in BOOLEAN /\ ar' = ar /\ (fault' => ReadFails \/ FreesPastMap)
    BY <1>2 DEF Safe, ReadFailed, FreedPastMap, ReadFails, Effect, Afa!GetFails, Afa!UseGone
  <2> QED BY <1>1, <1>2, <2>1, EffectKeeps DEF IInv
<1>3. ASSUME FreeArchive, load' = NULL PROVE IInv' /\ ~fault'
  BY <1>1, <1>3 DEF FreeArchive, IInv, LoadInv, Owned1, OneOwner, Holds, Live
<1>4. ASSUME ar.format # "aar", UNCHANGED load PROVE load' = NULL /\ LoadInv'
  BY <1>1, <1>4 DEF LoadInv
<1>5. CASE Ops({"alk", "dlf"}) /\ Table!Next /\ UNCHANGED load
  BY <1>1, <1>2, <1>3, <1>4, <1>5, TableSafe DEF Ops
<1>6. CASE Ops({"afa"}) /\ Afa!Next /\ UNCHANGED load
  BY <1>1, <1>2, <1>3, <1>4, <1>6, AfaSafe DEF Ops
<1>7. CASE Ops({"ald"}) /\ Ald!Next /\ UNCHANGED load
  BY <1>1, <1>2, <1>3, <1>4, <1>7, AldSafe DEF Ops
<1>8. CASE Ops({"flat"}) /\ Flat!Next /\ UNCHANGED load
  BY <1>1, <1>2, <1>3, <1>4, <1>8, FlatSafe DEF Ops
<1>9. CASE Ops({"aar"}) /\ Aar!Next
  BY <1>1, <1>2, <1>3, <1>9, AarSafe DEF Ops
<1> QED BY <1>5, <1>6, <1>7, <1>8, <1>9 DEF Next

(* An address has as many owners as it is allocated: none or one.          *)
LEMMA OwnedBlocks ==
  ASSUME IInv
  PROVE  BlocksOwned
<1> SUFFICES ASSUME NEW a \in Addr
             PROVE  Cardinality({h \in Live : desc[h].data = a}) = (IF a \in Fresh THEN 0 ELSE 1)
  BY DEF BlocksOwned
<1> DEFINE S == {h \in Live : desc[h].data = a}
<1>1. \A h \in S : h \in Handle /\ Holds(h)
  BY DEF Holds, Live
<1>2. CASE a \in Fresh
  <2>1. S = {}
    BY <1>1, <1>2 DEF IInv, Owned1, OneOwner, Fresh
  <2> QED BY <1>2, <2>1, FS_EmptySet
<1>3. CASE a \notin Fresh
  <2>1. PICK h \in Handle : Holds(h) /\ desc[h].data = a
    BY <1>3 DEF IInv, Owned1, OneOwner, Fresh
  <2>2. S = {h}
    BY <1>1, <2>1 DEF IInv, Owned1, OneOwner, Holds
  <2> HIDE DEF S
  <2>3. Cardinality(S) = 1
    BY <2>2, FS_Singleton
  <2> QED BY <1>3, <2>3 DEF S
<1> QED BY <1>2, <1>3

(* Every step a client can take, in archives of any size and format and    *)
(* with any number of descriptors, keeps the owners of the blocks in order.*)
THEOREM OwnersInvariant ==
  ASSUME Distinguished
  PROVE  Spec => []IInv
<1>1. InitArchive => IInv
  BY ArchiveAssumption DEF InitArchive, Init, IInv, Owned1, OneOwner, Holds, Live, LoadInv
<1>2. IInv /\ [Next]_varsArchive => IInv'
  <2> SUFFICES ASSUME IInv, [Next]_varsArchive PROVE IInv'
    OBVIOUS
  <2>1. CASE Next
    BY <2>1, OpenKeeps, StepKeeps
  <2>2. CASE UNCHANGED varsArchive
    BY <2>2 DEF varsArchive, IInv, Owned1, OneOwner, Holds, Live, Good, LoadInv, OnItsWay
  <2> QED BY <2>1, <2>2
<1> QED BY <1>1, <1>2, PTL DEF Spec

(* No client can leak a block, free it under another descriptor or share   *)
(* it: archive_get, load, release, copy, free and for_each of all formats. *)
THEOREM BlocksAlwaysOwned ==
  ASSUME Distinguished
  PROVE  Spec => []BlocksOwned
<1>1. IInv => BlocksOwned
  BY OwnedBlocks
<1> QED BY <1>1, OwnersInvariant, PTL

(* A double free or a use of a freed descriptor needs an AFA read that     *)
(* failed, for afa_get_by_entry and afa_load_file both free the descriptor;*)
(* a free of what was never allocated needs an AAR file that does not begin*)
(* inside the map, which aar_release_file takes for a block.               *)
THEOREM FaultsNeedACause ==
  ASSUME Distinguished
  PROVE  Spec => FaultsHaveCause
<1>1. IInv /\ [Next]_varsArchive => [fault' => ReadFails \/ FreesPastMap]_varsArchive
  <2> SUFFICES ASSUME IInv, Next, fault'
               PROVE  ReadFails \/ FreesPastMap
    OBVIOUS
  <2>1. ~fault
    BY DEF Next, Table!Next, Afa!Next, Ald!Next, Flat!Next, Aar!Next
  <2>2. ar # NULL
    BY <2>1, OpenKeeps
  <2> QED BY <2>2, StepKeeps
<1> QED BY <1>1, OwnersInvariant, PTL DEF Spec, FaultsHaveCause
-----------------------------------------------------------------------------
(* What a loaded descriptor shows is what it is told to.                   *)
LEMMA ShowsWhatItTells ==
  ASSUME Distinguished, IInv, NEW h \in Live, desc[h].data # NULL
  PROVE  Tells(ar, desc[h], Content(desc[h].data))
<1>1. h \in Handle /\ Good(desc[h])
  BY DEF Live, IInv, Owned1
<1>2. CASE desc[h].data \in Addr
  BY <1>1, <1>2 DEF IInv, Owned1, OneOwner, Holds, Content
<1>3. CASE desc[h].data \notin Addr
  <2>1. PICK c : desc[h].data = <<c>> /\ Tells(ar, desc[h], c)
    BY <1>1, <1>3 DEF Good, Truthful
  <2>2. Content(desc[h].data) = c
    BY <1>3, <2>1 DEF Content
  <2> QED BY <2>1, <2>2
<1> QED BY <1>2, <1>3

(* A descriptor shows the bytes of the file it was got for, whatever was   *)
(* loaded, released, copied and freed before: archive_load_file of every   *)
(* format.  AFA finds a file again by its number alone, so the numbers of  *)
(* an archive must differ.                                                 *)
THEOREM FilesAreShown ==
  ASSUME Distinguished, \A a \in Archives : a.format = "afa" => UniqueNumbers(a)
  PROVE  Spec => []ShowsItsFile
<1>1. ASSUME IInv PROVE ShowsItsFile
  <2>1. \A h \in Live : desc[h].data # NULL => Tells(ar, desc[h], Content(desc[h].data))
    BY <1>1, ShowsWhatItTells
  <2>2. ar # NULL => ar \in Archives
    BY <1>1 DEF IInv
  <2>3. Is("alk") \/ Is("dlf") \/ Is("afa") \/ Is("flat") => ShowsOwnFile
    BY <2>1, <2>2 DEF Is, Tells, ShowsOwnFile
  <2>4. Is("ald") => \A h \in Live : desc[h].data # NULL =>
                       Content(desc[h].data) \in {desc[h].at, Garbage}
    BY <2>1 DEF Is, Tells
  <2>5. ASSUME Is("aar") PROVE Aar!ShowsLinkedFile
    <3> SUFFICES ASSUME NEW h \in Live, desc[h].data # NULL
                 PROVE  /\ Content(desc[h].data) = Aar!LinkEnd(desc[h].file)
                        /\ desc[h].size = ar.files[Aar!LinkEnd(desc[h].file)].real
      BY AarNames DEF Aar!ShowsLinkedFile, Aar!Content, Content
    <3> QED BY <2>1, <2>5, AarLinks DEF Is, Tells
  <2> QED BY <2>3, <2>4, <2>5 DEF ShowsItsFile
<1> QED BY <1>1, OwnersInvariant, PTL

(* flat_load_file, flat_release_file and flat_copy_descriptor keep a       *)
(* descriptor's size that of the bytes it shows, inflated or stored.       *)
THEOREM SizesAreRight ==
  ASSUME Distinguished
  PROVE  Spec => []SizesMatch
<1>1. ASSUME IInv PROVE SizesMatch
  <2> SUFFICES ASSUME Is("flat"), NEW h \in Live, desc[h].data # NULL
               PROVE  desc[h].size = IF desc[h].data \in Addr THEN ar.files[desc[h].file].real
                                                              ELSE ar.files[desc[h].file].stored
    BY FlatNames DEF SizesMatch, Flat!SizeOfData, Flat!File
  <2>1. Good(desc[h])
    BY <1>1 DEF IInv, Owned1
  <2> QED BY <2>1 DEF Good, Truthful, SizeFits, Is
<1> QED BY <1>1, OwnersInvariant, PTL
-----------------------------------------------------------------------------
(* NULL is none of the values it stands for the absence of.                *)
NullApart ==
  /\ \A e : <<e>> # NULL
  /\ \A f, l : [file |-> f, loaded |-> l] # NULL
  /\ NULL \notin SUBSET Nat

\* The iteration is inside the table, and lends a descriptor only there; the
\* call of aar_load_file under way is for the file its handle has.
Visiting ==
  /\ ar = NULL => visit = 0
  /\ ar # NULL /\ ar.format # "flat" =>
       /\ visit \in 0 .. Len(ar.files) + 1
       /\ Iter \in Live => visit \in Entries
  /\ load # NULL =>
       IF load.h \in Live THEN load.d.file = desc[load.h].file ELSE load.h # Iter

(* What the steps of a client and of archive_for_each do to the            *)
(* descriptors, in the terms of the contract.                              *)
Becomes(h, d) == h \in Handle /\ desc' = [desc EXCEPT ![h] = d] /\ visit' = visit

Shows(f, d) == d # NULL /\ d.file = f /\ d.data # NULL
Names(f, d) == d # NULL /\ d.file = f /\ d.data = NULL

GetsStep(h, d)  == h \notin Live /\ h # Iter /\ Becomes(h, d) /\ \E f \in FilesThere : Shows(f, d)
LoadsStep(h, d) == h \in Live /\ Becomes(h, d) /\ Shows(desc[h].file, d)
DropsStep(h, d) == h \in Live /\ Becomes(h, d) /\ Names(desc[h].file, d)
CopiesStep(h, d) == h \notin Live /\ h # Iter /\ Becomes(h, d) /\ \E g \in Live : Names(desc[g].file, d)
FreesStep(h)   == h \in Live /\ h # Iter /\ Becomes(h, NULL)
MarksStep(h, d) == /\ h \in Live /\ Becomes(h, d)
                   /\ d # NULL /\ d.file = desc[h].file /\ d.data = desc[h].data
VisitsStep(d)  == /\ Iter \notin Live /\ visit \in FilesThere /\ Becomes(Iter, d) /\ Names(visit, d)
SkipsStep      == /\ Iter \notin Live /\ visit \in Entries \ FilesThere
                  /\ desc' = desc /\ visit' = visit + 1
ReturnsStep    == /\ Iter \in Live /\ desc' = [desc EXCEPT ![Iter] = NULL] /\ visit' = visit + 1
BeginsStep     == visit = 0 /\ visit' = 1 /\ desc' = desc
EndsStep       == visit = Len(ar.files) + 1 /\ visit' = 0 /\ desc' = desc

ContractEffect ==
  \/ desc' = desc /\ visit' = visit
  \/ \E h, d : \/ GetsStep(h, d) \/ LoadsStep(h, d) \/ DropsStep(h, d) \/ CopiesStep(h, d)
               \/ MarksStep(h, d) \/ FreesStep(h)
  \/ \E d : VisitsStep(d)
  \/ SkipsStep \/ ReturnsStep \/ BeginsStep \/ EndsStep

LEMMA FilesStay ==
  ASSUME ar' = ar, ar # NULL, ar \in Archives
  PROVE  FilesThere' = FilesThere
<1>1. CASE ar.format = "flat"
  BY <1>1 DEF FilesThere, Shown, Is
<1>2. CASE ar.format \in {"alk", "dlf"}
  BY <1>2 DEF FilesThere, Shown, Is, Table!FilesThere, Table!HasFile, Table!Entries
<1>3. CASE ar.format = "afa"
  BY <1>3 DEF FilesThere, Shown, Is, Afa!FilesThere, Afa!Entries
<1>4. CASE ar.format = "ald"
  <2>1. ASSUME NEW e PROVE Ald!HasFile(e)' <=> Ald!HasFile(e)
    <3>1. Ald!Disk(e)' = Ald!Disk(e) /\ Ald!Slot(e)' = Ald!Slot(e)
      BY DEF Ald!Disk, Ald!Slot
    <3>2. \A d, i : Ald!Offset(d, i)' = Ald!Offset(d, i)
      BY DEF Ald!Offset
    <3> QED BY <3>1, <3>2 DEF Ald!HasFile
  <2>2. Ald!FilesThere' = Ald!FilesThere
    BY <2>1, Zenon DEF Ald!FilesThere, Ald!Entries
  <2> QED BY <1>4, <2>2 DEF FilesThere, Shown, Is
<1>5. CASE ar.format = "aar"
  BY <1>5 DEF FilesThere, Shown, Is, Aar!FilesThere, Aar!Entries
<1> QED BY <1>1, <1>2, <1>3, <1>4, <1>5, ArchiveAssumption

LEMMA FilesAreEntries ==
  ASSUME ar # NULL, ar \in Archives, ar.format # "flat"
  PROVE  FilesThere \subseteq Entries /\ Entries \subseteq Nat \ {0} /\ Len(ar.files) \in Nat
<1>0. Len(ar.files) \in Nat /\ Entries \subseteq Nat \ {0}
  BY ArchiveAssumption DEF Entries
<1>2. CASE ar.format \in {"alk", "dlf"}
  BY <1>0, <1>2 DEF FilesThere, Shown, Is, Table!FilesThere, Table!Entries, Entries
<1>3. CASE ar.format = "afa"
  BY <1>0, <1>3 DEF FilesThere, Shown, Is, Afa!FilesThere, Afa!Entries, Entries
<1>4. CASE ar.format = "ald"
  BY <1>0, <1>4 DEF FilesThere, Shown, Is, Ald!FilesThere, Ald!Entries, Entries
<1>5. CASE ar.format = "aar"
  BY <1>0, <1>5 DEF FilesThere, Shown, Is, Aar!FilesThere, Aar!Entries, Entries
<1> QED BY <1>2, <1>3, <1>4, <1>5, <1>0, ArchiveAssumption

\* What the contract sees of a descriptor.
Seen(d) == IF d = NULL THEN NULL ELSE [file |-> d.file, loaded |-> d.data # NULL]

LEMMA Extends ==
  ASSUME NullApart, Owned1, NEW h, NEW d, Becomes(h, d)
  PROVE  /\ HeldBy' = [HeldBy EXCEPT ![h] = Seen(d)]
         /\ HeldBy[h] = Seen(desc[h])
<1>1. /\ \A g \in Handle : desc'[g] = IF g = h THEN d ELSE desc[g]
      /\ h \in Handle
  BY DEF Becomes, Owned1
<1>2. HeldBy = [g \in Handle |-> Seen(desc[g])] /\ HeldBy' = [g \in Handle |-> Seen(desc'[g])]
  BY Zenon DEF HeldBy, Seen
<1> QED BY <1>1, <1>2

LEMMA SetLoaded ==
  ASSUME NEW f, NEW l, NEW k
  PROVE  [[file |-> f, loaded |-> l] EXCEPT !.loaded = k] = [file |-> f, loaded |-> k]
OBVIOUS

LEMMA SeenIs ==
  ASSUME NEW d, d # NULL
  PROVE  /\ d.data = NULL => Seen(d) = [file |-> d.file, loaded |-> FALSE]
         /\ d.data # NULL => Seen(d) = [file |-> d.file, loaded |-> TRUE]
BY DEF Seen

From(P, v) == {e \in P : v <= e}

LEMMA FromNext ==
  ASSUME NEW P \in SUBSET Nat, NEW v \in Nat
  PROVE  /\ From(P, v + 1) = From(P, v) \ {v}
         /\ v \notin P => From(P, v + 1) = From(P, v)
<1>1. \A e \in P : v + 1 <= e <=> v <= e /\ e # v
  OBVIOUS
<1>2. From(P, v + 1) = From(P, v) \ {v}
  BY <1>1 DEF From
<1>3. v \notin P => From(P, v) \ {v} = From(P, v)
  BY DEF From
<1> QED BY <1>2, <1>3

LEMMA FromEnds ==
  ASSUME NEW P \in SUBSET Nat, NEW v \in Nat
  PROVE  /\ 0 \notin P => From(P, 1) = P
         /\ (\A e \in P : e < v) => From(P, v) = {}
<1>1. 0 \notin P => \A e \in P : 1 <= e
  OBVIOUS
<1>2. (\A e \in P : e < v) => \A e \in P : ~(v <= e)
  OBVIOUS
<1> QED BY <1>1, <1>2 DEF From

LEMMA FromHas ==
  ASSUME NEW P \in SUBSET Nat, NEW v \in Nat
  PROVE  /\ From(P, v) \in SUBSET Nat
         /\ \A g \in From(P, v) : v <= g
         /\ v \in P => v \in From(P, v)
<1>1. \A g \in From(P, v) : g \in P /\ v <= g
  BY DEF From
<1>2. v <= v
  OBVIOUS
<1>3. v \in P => v \in From(P, v)
  BY <1>2 DEF From
<1> QED BY <1>1, <1>3

LEMMA FromLater ==
  ASSUME NEW P \in SUBSET Nat, NEW v \in Nat
  PROVE  /\ {e \in P : e > v \/ (e = v /\ TRUE)} = From(P, v)
         /\ {e \in P : e > v \/ (e = v /\ FALSE)} = From(P, v + 1)
<1>1. \A e \in P : (e > v \/ e = v <=> v <= e) /\ (e > v <=> v + 1 <= e)
  OBVIOUS
<1> QED BY <1>1 DEF From

LEMMA StillIs ==
  ASSUME NEW P \in SUBSET Nat, visit \in Nat, visit # 0
  PROVE  /\ desc[Iter] = NULL => StillToVisit(P) = From(P, visit)
         /\ desc[Iter] # NULL => StillToVisit(P) = From(P, visit + 1)
<1>1. StillToVisit(P) = {e \in P : e > visit \/ (e = visit /\ desc[Iter] = NULL)}
  BY DEF StillToVisit
<1>2. CASE desc[Iter] = NULL
  <2>1. StillToVisit(P) = {e \in P : e > visit \/ (e = visit /\ TRUE)}
    BY <1>1, <1>2
  <2> QED BY <1>2, <2>1, FromLater
<1>3. CASE desc[Iter] # NULL
  <2>1. StillToVisit(P) = {e \in P : e > visit \/ (e = visit /\ FALSE)}
    BY <1>1, <1>3
  <2> QED BY <1>3, <2>1, FromLater
<1> QED BY <1>2, <1>3

ToVisit == StillToVisit(FilesThere)

LEMMA ToVisitIs ==
  ASSUME FilesThere \in SUBSET Nat, visit \in Nat, visit # 0
  PROVE  /\ desc[Iter] = NULL => ToVisit = From(FilesThere, visit)
         /\ desc[Iter] # NULL => ToVisit = From(FilesThere, visit + 1)
BY StillIs DEF ToVisit

LEMMA ToVisitNextIs ==
  ASSUME FilesThere \in SUBSET Nat, FilesThere' = FilesThere, visit' \in Nat, visit' # 0
  PROVE  /\ desc'[Iter] = NULL => ToVisit' = From(FilesThere, visit')
         /\ desc'[Iter] # NULL => ToVisit' = From(FilesThere, visit' + 1)
<1>1. ToVisit' = {e \in FilesThere' : e > visit' \/ (e = visit' /\ desc'[Iter] = NULL)}
  BY DEF ToVisit, StillToVisit
<1>2. CASE desc'[Iter] = NULL
  <2>1. ToVisit' = {e \in FilesThere : e > visit' \/ (e = visit' /\ TRUE)}
    BY <1>1, <1>2
  <2> QED BY <1>2, <2>1, FromLater
<1>3. CASE desc'[Iter] # NULL
  <2>1. ToVisit' = {e \in FilesThere : e > visit' \/ (e = visit' /\ FALSE)}
    BY <1>1, <1>3
  <2> QED BY <1>3, <2>1, FromLater
<1> QED BY <1>2, <1>3

LEMMA TodoStays ==
  ASSUME visit' = visit, FilesThere' = FilesThere, desc'[Iter] = NULL <=> desc[Iter] = NULL
  PROVE  ToVisit' = ToVisit
BY DEF ToVisit, StillToVisit

LEMMA Contracted ==
  ASSUME NullApart, IInv, Visiting, ar' = ar, ar # NULL, ar.format # "flat", ContractEffect
  PROVE  [Contract!Next]_(Contract!vars)
<1>1. ar \in Archives /\ Owned1 /\ ~Is("flat") /\ ~Is("flat")' /\ Iter \in Handle
  BY ArchiveAssumption DEF IInv, Is
<1>2. FilesThere' = FilesThere
  BY <1>1, FilesStay
<1>3. FilesThere \subseteq Entries /\ Entries \subseteq Nat \ {0} /\ Len(ar.files) \in Nat /\ FilesThere # NULL
  BY <1>1, FilesAreEntries DEF NullApart
<1>4. Live = {h \in Handle : HeldBy[h] # NULL} /\ Contract!Held = Live
  <2>1. \A h \in Handle : HeldBy[h] # NULL <=> desc[h] # NULL
    BY DEF HeldBy, NullApart
  <2>2. Live = {h \in Handle : HeldBy[h] # NULL}
    BY <2>1 DEF Live
  <2> QED BY <1>1, <2>2 DEF Contract!Held
<1>5. ASSUME NEW h, NEW d, Becomes(h, d), h # Iter \/ (d = NULL <=> desc[Iter] = NULL)
      PROVE  ToVisit' = ToVisit
  <2>1. desc'[Iter] = NULL <=> desc[Iter] = NULL
    BY <1>1, <1>5 DEF Becomes, Owned1
  <2> QED BY <1>2, <1>5, <2>1, TodoStays DEF Becomes
<1>6. CASE desc' = desc /\ visit' = visit
  <2>1. HeldBy' = HeldBy /\ ToVisit' = ToVisit
    BY <1>2, <1>6, TodoStays DEF HeldBy
  <2> QED BY <1>1, <1>2, <2>1 DEF Contract!vars, ToVisit
<1>7. ASSUME NEW h, NEW d, GetsStep(h, d) PROVE h \in Handle /\ Contract!Get(h)
  <2>1. Becomes(h, d) /\ h # Iter /\ h \notin Live /\ d # NULL /\ d.data # NULL /\ d.file \in FilesThere
    BY <1>7 DEF GetsStep, Shows
  <2>2. HeldBy' = [HeldBy EXCEPT ![h] = [file |-> d.file, loaded |-> TRUE]]
    BY <1>1, <2>1, Extends, SeenIs
  <2>3. ToVisit' = ToVisit /\ h \in Handle
    BY <1>5, <2>1 DEF Becomes
  <2> QED BY <1>1, <1>2, <1>3, <1>4, <2>1, <2>2, <2>3 DEF Contract!Get, Contract!Descriptor, ToVisit
<1>8. ASSUME NEW h, NEW d, LoadsStep(h, d) PROVE h \in Handle /\ Contract!Load(h)
  <2>1. Becomes(h, d) /\ h \in Live /\ d # NULL /\ d.data # NULL /\ d.file = desc[h].file
    BY <1>8 DEF LoadsStep, Shows
  <2>2. Seen(d) = [file |-> desc[h].file, loaded |-> TRUE]
    BY <2>1, SeenIs
  <2>5. [Seen(desc[h]) EXCEPT !.loaded = TRUE] = [file |-> desc[h].file, loaded |-> TRUE]
    <3>1. desc[h] # NULL
      BY <2>1 DEF Live
    <3> QED BY <3>1, SetLoaded DEF Seen
  <2>3. HeldBy' = [HeldBy EXCEPT ![h].loaded = TRUE]
    BY <1>1, <2>1, <2>2, <2>5, Extends
  <2>4. ToVisit' = ToVisit /\ h \in Handle
    BY <1>5, <2>1 DEF Becomes, Live
  <2> QED BY <1>1, <1>2, <1>4, <2>1, <2>3, <2>4 DEF Contract!Load, ToVisit
<1>9. ASSUME NEW h, NEW d, DropsStep(h, d) PROVE h \in Handle /\ Contract!Release(h)
  <2>1. Becomes(h, d) /\ h \in Live /\ d # NULL /\ d.data = NULL /\ d.file = desc[h].file
    BY <1>9 DEF DropsStep, Names
  <2>2. Seen(d) = [file |-> desc[h].file, loaded |-> FALSE]
    BY <2>1, SeenIs
  <2>5. [Seen(desc[h]) EXCEPT !.loaded = FALSE] = [file |-> desc[h].file, loaded |-> FALSE]
    <3>1. desc[h] # NULL
      BY <2>1 DEF Live
    <3> QED BY <3>1, SetLoaded DEF Seen
  <2>3. HeldBy' = [HeldBy EXCEPT ![h].loaded = FALSE]
    BY <1>1, <2>1, <2>2, <2>5, Extends
  <2>4. ToVisit' = ToVisit /\ h \in Handle
    BY <1>5, <2>1 DEF Becomes, Live
  <2> QED BY <1>1, <1>2, <1>4, <2>1, <2>3, <2>4 DEF Contract!Release, ToVisit
<1>10. ASSUME NEW h, NEW d, CopiesStep(h, d) PROVE h \in Handle /\ Contract!Copy(h)
  <2>1. PICK g \in Live : d.file = desc[g].file
    BY <1>10 DEF CopiesStep, Names
  <2>2. Becomes(h, d) /\ h # Iter /\ h \notin Live /\ d # NULL /\ d.data = NULL
    BY <1>10 DEF CopiesStep, Names
  <2>3. HeldBy' = [HeldBy EXCEPT ![h] = [file |-> desc[g].file, loaded |-> FALSE]]
    BY <1>1, <2>1, <2>2, Extends, SeenIs
  <2>4. HeldBy[g].file = desc[g].file
    BY DEF HeldBy, Live
  <2>5. ToVisit' = ToVisit /\ h \in Handle
    BY <1>5, <2>2 DEF Becomes
  <2> QED BY <1>1, <1>2, <1>4, <2>2, <2>3, <2>4, <2>5 DEF Contract!Copy, Contract!Descriptor, ToVisit
<1>11. ASSUME NEW h, NEW d, MarksStep(h, d) PROVE UNCHANGED Contract!vars
  <2>1. Becomes(h, d) /\ h \in Live /\ d # NULL /\ d.file = desc[h].file /\ d.data = desc[h].data
    BY <1>11 DEF MarksStep
  <2>2. Seen(d) = Seen(desc[h]) /\ HeldBy' = [HeldBy EXCEPT ![h] = Seen(d)] /\ HeldBy[h] = Seen(desc[h])
    <3>1. desc[h] # NULL
      BY <2>1 DEF Live
    <3> QED BY <1>1, <2>1, <3>1, Extends DEF Seen
  <2>3. HeldBy' = HeldBy
    BY <2>2 DEF HeldBy
  <2>4. ToVisit' = ToVisit
    BY <1>5, <2>1 DEF Becomes, Live
  <2> QED BY <1>1, <1>2, <2>3, <2>4 DEF Contract!vars, ToVisit
<1>12. ASSUME NEW h, FreesStep(h) PROVE h \in Handle /\ Contract!FreeData(h)
  <2>1. Becomes(h, NULL) /\ h # Iter /\ h \in Live
    BY <1>12 DEF FreesStep
  <2>2. HeldBy' = [HeldBy EXCEPT ![h] = NULL]
    BY <1>1, <2>1, Extends DEF Seen
  <2>3. ToVisit' = ToVisit /\ h \in Handle
    BY <1>5, <2>1 DEF Becomes
  <2> QED BY <1>1, <1>2, <1>4, <2>1, <2>2, <2>3 DEF Contract!FreeData, ToVisit
<1>13. ASSUME NEW d, VisitsStep(d) PROVE Contract!Visit
  <2>1. /\ Becomes(Iter, d) /\ Iter \notin Live /\ visit \in FilesThere
        /\ d # NULL /\ d.data = NULL /\ d.file = visit
    BY <1>13 DEF VisitsStep, Names
  <2>2. HeldBy' = [HeldBy EXCEPT ![Iter] = [file |-> visit, loaded |-> FALSE]]
    BY <1>1, <2>1, Extends, SeenIs
  <2>3. desc[Iter] = NULL /\ desc'[Iter] # NULL /\ visit' = visit
    BY <1>1, <2>1 DEF Becomes, Live, Owned1
  <2>4. FilesThere \in SUBSET Nat /\ visit \in Nat /\ visit # 0
    BY <1>3, <2>1
  <2>5. ToVisit = From(FilesThere, visit) /\ ToVisit' = From(FilesThere, visit + 1)
    BY <1>2, <2>3, <2>4, ToVisitIs, ToVisitNextIs
  <2>6. ToVisit # NULL /\ visit \in ToVisit /\ (\A g \in ToVisit : visit <= g) /\ ToVisit' = ToVisit \ {visit}
    <3>1. ToVisit' = ToVisit \ {visit}
      BY <2>4, <2>5, FromNext
    <3>2. ToVisit \in SUBSET Nat /\ visit \in ToVisit /\ \A g \in ToVisit : visit <= g
      BY <2>1, <2>4, <2>5, FromHas
    <3> QED BY <3>1, <3>2 DEF NullApart
  <2> QED BY <1>1, <1>2, <1>4, <2>1, <2>2, <2>6 DEF Contract!Visit, Contract!Descriptor, ToVisit
<1>14. CASE SkipsStep
  <2>1. HeldBy' = HeldBy /\ desc[Iter] = NULL /\ desc'[Iter] = NULL
    BY <1>1, <1>14 DEF SkipsStep, HeldBy, Live
  <2>2. /\ FilesThere \in SUBSET Nat /\ visit \in Nat /\ visit # 0
        /\ visit' = visit + 1 /\ visit' \in Nat /\ visit' # 0 /\ visit \notin FilesThere
    BY <1>3, <1>14 DEF SkipsStep
  <2>4. ToVisit = From(FilesThere, visit) /\ ToVisit' = From(FilesThere, visit + 1)
    BY <1>2, <2>1, <2>2, ToVisitIs, ToVisitNextIs
  <2>3. ToVisit' = ToVisit
    BY <2>2, <2>4, FromNext
  <2> QED BY <1>1, <1>2, <2>1, <2>3 DEF Contract!vars, ToVisit
<1>15. CASE ReturnsStep
  <2>1. /\ Iter \in Live /\ visit \in Nat \ {0}
        /\ desc[Iter] # NULL /\ desc'[Iter] = NULL /\ visit' = visit + 1
    BY <1>1, <1>3, <1>15 DEF ReturnsStep, Visiting, Owned1, Live
  <2>2. HeldBy' = [HeldBy EXCEPT ![Iter] = NULL]
    BY <1>1, <1>15 DEF ReturnsStep, HeldBy, Owned1
  <2>3. FilesThere \in SUBSET Nat /\ visit \in Nat /\ visit # 0 /\ visit' \in Nat /\ visit' # 0
    BY <1>3, <2>1
  <2>4. ToVisit' = ToVisit
    BY <1>2, <2>1, <2>3, ToVisitIs, ToVisitNextIs
  <2>5. Iter \in Live
    BY <2>1
  <2> QED BY <1>1, <1>2, <1>4, <2>2, <2>4, <2>5 DEF Contract!Next, Contract!Return, ToVisit
<1>16. CASE BeginsStep
  <2>1. Iter \notin Live
    BY <1>3, <1>16 DEF BeginsStep, Visiting
  <2>2. visit = 0 /\ visit' = 1 /\ HeldBy' = HeldBy /\ desc'[Iter] = NULL
    BY <1>1, <1>16, <2>1 DEF BeginsStep, HeldBy, Live
  <2>3. ToVisit = NULL /\ ToVisit' = FilesThere
    <3>1. FilesThere \in SUBSET Nat /\ 0 \notin FilesThere /\ visit' \in Nat /\ visit' # 0 /\ 1 \in Nat
      BY <1>3, <2>2
    <3>2. From(FilesThere, 1) = FilesThere
      BY <3>1, FromEnds
    <3>3. ToVisit' = FilesThere
      BY <1>2, <2>2, <3>1, <3>2, ToVisitNextIs
    <3>4. ToVisit = NULL
      BY <2>2 DEF ToVisit, StillToVisit
    <3> QED BY <3>3, <3>4
  <2>4. HeldBy' = HeldBy /\ FilesThere # NULL
    BY <1>3, <2>2
  <2> QED BY <1>1, <1>2, <2>3, <2>4 DEF Contract!Next, Contract!BeginForEach, ToVisit
<1>17. CASE EndsStep
  <2>1. Iter \notin Live /\ visit # 0
    BY <1>3, <1>17 DEF EndsStep, Visiting, Entries
  <2>2. visit = Len(ar.files) + 1 /\ visit' = 0 /\ HeldBy' = HeldBy
    BY <1>17 DEF EndsStep, HeldBy
  <2>3. FilesThere \in SUBSET Nat /\ visit \in Nat /\ visit # 0 /\ \A e \in FilesThere : e < visit
    BY <1>3, <2>2 DEF Entries
  <2>5. desc[Iter] = NULL
    BY <1>1, <2>1 DEF Live
  <2>6. ToVisit = {}
    BY <2>3, <2>5, ToVisitIs, FromEnds
  <2>7. ToVisit' = NULL
    BY <2>2 DEF ToVisit, StillToVisit
  <2>4. ToVisit = {} /\ ToVisit' = NULL
    BY <2>6, <2>7
  <2>8. Iter \notin Live /\ HeldBy' = HeldBy
    BY <2>1, <2>2
  <2> QED BY <1>1, <1>2, <1>4, <2>4, <2>8 DEF Contract!Next, Contract!EndForEach, ToVisit
<1> QED BY <1>6, <1>7, <1>8, <1>9, <1>10, <1>11, <1>12, <1>13, <1>14, <1>15, <1>16, <1>17
        DEF ContractEffect, Contract!Next, Contract!vars

(* The steps the formats share, as the contract sees them.                 *)
LEMMA Loaded ==
  ASSUME NullApart, Distinguished, NEW h \in Handle, NEW d, "data" \in DOMAIN d, NEW c,
         ShowInArchive(h, d, c) \/ ShowInBlock(h, d, c)
  PROVE  \E e : Becomes(h, e) /\ Shows(d.file, e)
<1>1. PICK x : x # NULL /\ desc' = [desc EXCEPT ![h] = [d EXCEPT !.data = x]] /\ visit' = visit
  BY ArchiveAssumption DEF ShowInArchive, ShowInBlock, InArchive, Fresh, NullApart
<1> DEFINE e == [d EXCEPT !.data = x]
<1>2. e.data = x /\ e.file = d.file /\ "data" \in DOMAIN e
  OBVIOUS
<1>3. e # NULL
  BY <1>2 DEF Distinguished
<1> HIDE DEF e
<1>4. Becomes(h, e) /\ Shows(d.file, e)
  BY <1>1, <1>2, <1>3 DEF Becomes, Shows, e
<1> QED BY <1>4

LEMMA UnloadContract ==
  ASSUME Distinguished, NEW h \in Live, "data" \in DOMAIN desc[h], NEW owned,
         Dispose(h, [desc[h] EXCEPT !.data = NULL], owned), visit' = visit
  PROVE  ContractEffect
<1> DEFINE e == [desc[h] EXCEPT !.data = NULL]
<1>1. e.data = NULL /\ e.file = desc[h].file /\ "data" \in DOMAIN e
  OBVIOUS
<1>2. e # NULL
  BY <1>1 DEF Distinguished
<1> HIDE DEF e
<1>3. DropsStep(h, e)
  BY <1>1, <1>2 DEF DropsStep, Becomes, Names, Dispose, Live, e
<1> QED BY <1>3 DEF ContractEffect

LEMMA CopyContract ==
  ASSUME Distinguished, Owned1, NEW h \in Handle, CopyDescriptor(h)
  PROVE  ContractEffect
<1>1. PICK g \in Live : desc' = [desc EXCEPT ![h] = [desc[g] EXCEPT !.data = NULL]]
  BY DEF CopyDescriptor
<1> DEFINE e == [desc[g] EXCEPT !.data = NULL]
<1>2. "data" \in DOMAIN desc[g]
  BY DEF Owned1, Good
<1>3. e.data = NULL /\ e.file = desc[g].file /\ "data" \in DOMAIN e
  BY <1>2
<1>4. e # NULL
  BY <1>3 DEF Distinguished
<1> HIDE DEF e
<1>5. CopiesStep(h, e)
  BY <1>1, <1>3, <1>4 DEF CopiesStep, Becomes, Names, CopyDescriptor, e
<1> QED BY <1>5 DEF ContractEffect

LEMMA FreeContract ==
  ASSUME NEW h \in Live, h # Iter, NEW owned, Dispose(h, NULL, owned), visit' = visit
  PROVE  ContractEffect
<1>1. FreesStep(h)
  BY DEF FreesStep, Becomes, Dispose, Live
<1> QED BY <1>1 DEF ContractEffect

LEMMA ReturnContract ==
  ASSUME Iter \in Live, NEW owned, Dispose(Iter, NULL, owned), visit' = visit + 1
  PROVE  ContractEffect
<1>1. ReturnsStep
  BY DEF ReturnsStep, Dispose
<1> QED BY <1>1 DEF ContractEffect

LEMMA VisitContract ==
  ASSUME Distinguished, visit \in FilesThere, NEW d, "data" \in DOMAIN d, d.file = visit, d.data = NULL,
         Iter \in Handle, Iter \notin Live, desc' = [desc EXCEPT ![Iter] = d], visit' = visit
  PROVE  ContractEffect
<1>1. d # NULL
  BY DEF Distinguished
<1>2. VisitsStep(d)
  BY <1>1 DEF VisitsStep, Becomes, Names
<1> QED BY <1>2 DEF ContractEffect

LEMMA BeginContract ==
  ASSUME visit = 0, visit' = 1, desc' = desc PROVE ContractEffect
BY DEF ContractEffect, BeginsStep

LEMMA EndContract ==
  ASSUME visit = Len(ar.files) + 1, visit' = 0, desc' = desc PROVE ContractEffect
BY DEF ContractEffect, EndsStep

LEMMA SkipContract ==
  ASSUME Iter \notin Live, visit \in Entries, visit \notin FilesThere, desc' = desc, visit' = visit + 1
  PROVE  ContractEffect
BY DEF ContractEffect, SkipsStep

LEMMA LoadContract ==
  ASSUME NEW h \in Live, NEW e, Becomes(h, e), Shows(desc[h].file, e)
  PROVE  ContractEffect
<1>1. LoadsStep(h, e)
  BY DEF LoadsStep
<1> QED BY <1>1 DEF ContractEffect

LEMMA GetContract ==
  ASSUME NEW h, h \notin Live, h # Iter, NEW f \in FilesThere, NEW e, Becomes(h, e), Shows(f, e)
  PROVE  ContractEffect
<1>1. GetsStep(h, e)
  BY DEF GetsStep
<1> QED BY <1>1 DEF ContractEffect

LEMMA SameContract ==
  ASSUME desc' = desc, visit' = visit PROVE ContractEffect
BY DEF ContractEffect

LEMMA TableContract ==
  ASSUME NullApart, Distinguished, Owned1, ar \in Archives, ar # NULL, ar.format \in {"alk", "dlf"}, Table!Next
  PROVE  ContractEffect \/ FreeArchive
<1>1. FilesThere = {e \in Entries : Table!HasFile(e)} /\ Iter \in Handle
  BY TableNames, ArchiveAssumption DEF FilesThere, Shown, Is, Table!FilesThere
<1>2. \A e : /\ Table!NewDescriptor(e).file = e /\ Table!NewDescriptor(e).data = NULL
             /\ "data" \in DOMAIN Table!NewDescriptor(e)
  BY DEF Table!NewDescriptor
<1>3. ASSUME NEW h \in Handle, NEW d, "data" \in DOMAIN d, Table!LoadInto(h, d)
      PROVE  \E e : Becomes(h, e) /\ Shows(d.file, e)
  BY <1>3, TableNames, Loaded DEF Table!LoadInto
<1>4. CASE Table!OpenArchive
  BY <1>4 DEF Table!OpenArchive
<1>5. CASE Table!FreeArchive
  BY <1>5 DEF Table!FreeArchive, Table!Live, FreeArchive, Live
<1>6. CASE Table!BeginForEach
  BY <1>6, BeginContract DEF Table!BeginForEach
<1>7. CASE Table!EndForEach
  BY <1>7, EndContract DEF Table!EndForEach
<1>8. CASE Table!Visit
  <2>1. visit \in Entries /\ Iter \notin Live
    BY <1>8, TableNames DEF Table!Visit, Table!AtEntry
  <2>2. CASE ~Table!HasFile(visit) /\ Table!SkipEntry
    BY <1>1, <2>1, <2>2, SkipContract DEF Table!SkipEntry
  <2>3. CASE Table!HasFile(visit) /\ Table!CallIter(Table!NewDescriptor(visit))
    BY <1>1, <1>2, <2>1, <2>3, VisitContract DEF Table!CallIter
  <2> QED BY <1>8, <2>2, <2>3 DEF Table!Visit
<1>9. CASE Table!ReturnIter
  BY <1>9, TableNames, ReturnContract DEF Table!ReturnIter
<1>10. ASSUME NEW h \in Handle, Table!Get(h) PROVE ContractEffect
  <2>1. PICK e \in FilesThere : Table!LoadInto(h, Table!NewDescriptor(e))
    BY <1>1, <1>10, TableNames DEF Table!Get
  <2>2. h \notin Live /\ h # Iter
    BY <1>10, TableNames DEF Table!Get
  <2> QED BY <1>2, <1>3, <2>1, <2>2, GetContract
<1>11. ASSUME NEW h \in Handle, Table!LoadFile(h) PROVE ContractEffect
  <2>1. h \in Live /\ "data" \in DOMAIN desc[h] /\ Table!LoadInto(h, desc[h])
    BY <1>11, TableNames DEF Table!LoadFile, Owned1, Good
  <2> QED BY <1>3, <2>1, LoadContract
<1>12. ASSUME NEW h \in Handle, Table!ReleaseFile(h) PROVE ContractEffect
  <2>1. h \in Live /\ "data" \in DOMAIN desc[h] /\ ReleaseFile(h)
    BY <1>12, TableNames DEF ReleaseFile, Owned1, Good
  <2> QED BY <2>1, UnloadContract DEF ReleaseFile
<1>13. ASSUME NEW h \in Handle, Table!CopyDescriptor(h) PROVE ContractEffect
  BY <1>13, TableNames, CopyContract
<1>14. ASSUME NEW h \in Handle, Table!FreeData(h) PROVE ContractEffect
  BY <1>14, TableNames, FreeContract DEF Table!FreeData
<1> QED BY <1>4, <1>5, <1>6, <1>7, <1>8, <1>9, <1>10, <1>11, <1>12, <1>13, <1>14 DEF Table!Next

LEMMA AldContract ==
  ASSUME NullApart, Distinguished, Owned1, ar \in Archives, ar # NULL, ar.format = "ald", Ald!Next
  PROVE  ContractEffect \/ FreeArchive
<1>1. FilesThere = {e \in Entries : Ald!HasFile(e)} /\ Iter \in Handle
  BY AldNames, ArchiveAssumption DEF FilesThere, Shown, Is, Ald!FilesThere
<1>2. \A e : \A d \in Ald!Descriptors(e) : d.file = e /\ d.data = NULL /\ "data" \in DOMAIN d
  BY DEF Ald!Descriptors, Ald!NewDescriptor
<1>3. ASSUME NEW h \in Handle, NEW d, "data" \in DOMAIN d, Ald!LoadInto(h, d)
      PROVE  \E e : Becomes(h, e) /\ Shows(d.file, e)
  BY <1>3, AldNames, Loaded DEF Ald!LoadInto
<1>4. CASE Ald!OpenArchive
  BY <1>4 DEF Ald!OpenArchive
<1>5. CASE Ald!FreeArchive
  BY <1>5 DEF Ald!FreeArchive, Ald!Live, FreeArchive, Live
<1>6. CASE Ald!BeginForEach
  BY <1>6, BeginContract DEF Ald!BeginForEach
<1>7. CASE Ald!EndForEach
  BY <1>7, EndContract DEF Ald!EndForEach
<1>8. CASE Ald!Visit
  <2>1. visit \in Entries /\ Iter \notin Live
    BY <1>8, AldNames DEF Ald!Visit, Ald!AtEntry
  <2>2. CASE ~Ald!HasFile(visit) /\ Ald!SkipEntry
    BY <1>1, <2>1, <2>2, SkipContract DEF Ald!SkipEntry
  <2>3. ASSUME Ald!HasFile(visit), NEW d \in Ald!Descriptors(visit), Ald!CallIter(d)
        PROVE  ContractEffect
    BY <1>1, <1>2, <2>1, <2>3, VisitContract DEF Ald!CallIter
  <2> QED BY <1>8, <2>2, <2>3 DEF Ald!Visit
<1>9. CASE Ald!ReturnIter
  BY <1>9, AldNames, ReturnContract DEF Ald!ReturnIter
<1>10. ASSUME NEW h \in Handle, NEW e \in FilesThere, NEW d \in Ald!Descriptors(e),
              Ald!CanGet(h), Ald!LoadInto(h, d)
       PROVE  ContractEffect
  <2>1. h \notin Live /\ h # Iter
    BY <1>10, AldNames DEF Ald!CanGet
  <2> QED BY <1>2, <1>3, <1>10, <2>1, GetContract
<1>11. ASSUME NEW h \in Handle, Ald!Get(h) \/ \E n \in ar.allNames : Ald!GetByName(h, n) PROVE ContractEffect
  <2>1. PICK e \in Entries :
          /\ Ald!HasFile(e) /\ Ald!CanGet(h)
          /\ \E d \in Ald!Descriptors(e) : Ald!LoadInto(h, d)
    BY <1>11, AldNames DEF Ald!Get, Ald!GetByName
  <2> QED BY <1>1, <1>10, <2>1
<1>12. ASSUME NEW h \in Handle, Ald!LoadFile(h) PROVE ContractEffect
  <2>1. h \in Live /\ "data" \in DOMAIN desc[h] /\ Ald!LoadInto(h, desc[h])
    BY <1>12, AldNames DEF Ald!LoadFile, Owned1, Good
  <2> QED BY <1>3, <2>1, LoadContract
<1>13. ASSUME NEW h \in Handle, Ald!ReleaseFile(h) PROVE ContractEffect
  <2>1. h \in Live /\ "data" \in DOMAIN desc[h] /\ ReleaseFile(h)
    BY <1>13, AldNames DEF ReleaseFile, Owned1, Good
  <2> QED BY <2>1, UnloadContract DEF ReleaseFile
<1>14. ASSUME NEW h \in Handle, Ald!CopyDescriptor(h) PROVE ContractEffect
  BY <1>14, AldNames, CopyContract
<1>15. ASSUME NEW h \in Handle, Ald!FreeData(h) PROVE ContractEffect
  BY <1>15, AldNames, FreeContract DEF Ald!FreeData
<1> QED BY <1>4, <1>5, <1>6, <1>7, <1>8, <1>9, <1>11, <1>12, <1>13, <1>14, <1>15 DEF Ald!Next

LEMMA AfaContract ==
  ASSUME NullApart, Distinguished, Owned1, ar \in Archives, ar # NULL, ar.format = "afa", Afa!Next
  PROVE  ContractEffect \/ FreeArchive
<1>1. FilesThere = Entries /\ Iter \in Handle /\ Len(ar.files) \in Nat /\ Afa!Usable \subseteq Live
  BY AfaNames, ArchiveAssumption DEF FilesThere, Shown, Is, Afa!FilesThere, Afa!Usable
<1>2. \A e : /\ Afa!NewDescriptor(e).file = e /\ Afa!NewDescriptor(e).data = NULL
             /\ "data" \in DOMAIN Afa!NewDescriptor(e)
  BY DEF Afa!NewDescriptor
<1>3. ASSUME NEW h \in Handle, NEW d, "data" \in DOMAIN d, Afa!LoadInto(h, d)
      PROVE  \E e : Becomes(h, e) /\ Shows(d.file, e)
  <2> DEFINE c == Afa!EntryByNumber(d.no)
  <2>1. ShowInArchive(h, d, c) \/ ShowInBlock(h, d, c)
    BY <1>3, AfaNames DEF Afa!LoadInto
  <2> HIDE DEF c
  <2> QED BY <1>3, <2>1, Loaded
<1>4. CASE Afa!OpenArchive
  BY <1>4 DEF Afa!OpenArchive
<1>5. CASE Afa!FreeArchive
  BY <1>5 DEF Afa!FreeArchive, Afa!Live, FreeArchive, Live
<1>6. CASE Afa!BeginForEach
  BY <1>6, BeginContract DEF Afa!BeginForEach
<1>7. CASE Afa!EndForEach
  BY <1>7, EndContract DEF Afa!EndForEach
<1>8. CASE Afa!Visit
  <2>1. visit \in Entries /\ Iter \notin Live /\ Afa!CallIter(Afa!NewDescriptor(visit))
    BY <1>8, AfaNames DEF Afa!Visit, Afa!AtEntry
  <2> QED BY <1>1, <1>2, <2>1, VisitContract DEF Afa!CallIter
<1>9. CASE Afa!ReturnIter
  BY <1>1, <1>9, AfaNames, ReturnContract DEF Afa!ReturnIter
<1>10. ASSUME NEW h \in Handle, Afa!Get(h) PROVE ContractEffect
  <2>1. PICK e \in FilesThere : Afa!LoadInto(h, Afa!NewDescriptor(e))
    BY <1>1, <1>10, AfaGettable DEF Afa!Get
  <2>2. h \notin Live /\ h # Iter
    BY <1>10, AfaNames DEF Afa!Get, Afa!CanGet
  <2> QED BY <1>2, <1>3, <2>1, <2>2, GetContract
<1>11. ASSUME NEW h \in Handle, Afa!GetFails(h) \/ Afa!UseGone(h) PROVE ContractEffect
  BY <1>11, SameContract DEF Afa!GetFails, Afa!UseGone
<1>12. ASSUME NEW h \in Handle, Afa!LoadFile(h) PROVE ContractEffect
  <2>1. h \in Live /\ "data" \in DOMAIN desc[h] /\ Afa!LoadInto(h, desc[h])
    BY <1>1, <1>12 DEF Afa!LoadFile, Owned1, Good
  <2> QED BY <1>3, <2>1, LoadContract
<1>13. ASSUME NEW h \in Handle, Afa!LoadFileFails(h) PROVE ContractEffect
  <2> DEFINE d == [desc[h] EXCEPT !.gone = TRUE]
  <2>1. h \in Live /\ "data" \in DOMAIN desc[h] /\ desc[h].data = NULL
    BY <1>1, <1>13 DEF Afa!LoadFileFails, Owned1, Good
  <2>2. d.file = desc[h].file /\ d.data = desc[h].data /\ "data" \in DOMAIN d
    BY <2>1
  <2>3. Becomes(h, d)
    BY <1>13 DEF Afa!LoadFileFails, Becomes
  <2> HIDE DEF d
  <2>4. MarksStep(h, d)
    BY <2>1, <2>2, <2>3 DEF MarksStep, Distinguished
  <2> QED BY <2>4 DEF ContractEffect
<1>14. ASSUME NEW h \in Handle, Afa!Release(h) PROVE ContractEffect
  <2>1. h \in Live /\ "data" \in DOMAIN desc[h] /\ ReleaseFile(h)
    BY <1>14, AfaNames DEF Afa!Release, ReleaseFile, Owned1, Good
  <2> QED BY <2>1, UnloadContract DEF ReleaseFile
<1>15. ASSUME NEW h \in Handle, Afa!Copy(h) PROVE ContractEffect
  BY <1>15, AfaNames, CopyContract DEF Afa!Copy
<1>16. ASSUME NEW h \in Handle, Afa!FreeData(h) PROVE ContractEffect
  BY <1>1, <1>16, AfaNames, FreeContract DEF Afa!FreeData
<1> QED BY <1>4, <1>5, <1>6, <1>7, <1>8, <1>9, <1>10, <1>11, <1>12, <1>13, <1>14, <1>15, <1>16 DEF Afa!Next

\* Between the calls of aar_load_file nothing but the load itself moves.
LoadVisits(l) == IF l.h \in Live THEN l.d.file = desc[l.h].file ELSE l.h # Iter

LEMMA AarContract ==
  ASSUME NullApart, Distinguished, Owned1, LoadInv, Visiting, ar \in Archives, ar # NULL, ar.format = "aar", Aar!Next
  PROVE  \/ ContractEffect /\ load' = NULL
         \/ desc' = desc /\ visit' = visit /\ LoadVisits(load')
         \/ FreeArchive /\ load' = NULL
<1>1. FilesThere = Entries /\ Iter \in Handle /\ Len(ar.files) \in Nat
  BY AarNames, ArchiveAssumption DEF FilesThere, Shown, Is, Aar!FilesThere
<1>2. \A e : /\ Aar!NewDescriptor(e).file = e /\ Aar!NewDescriptor(e).data = NULL
             /\ "data" \in DOMAIN Aar!NewDescriptor(e)
  BY DEF Aar!NewDescriptor
<1>4. CASE Aar!Frame /\ Aar!OpenArchive
  BY <1>4 DEF Aar!OpenArchive
<1>5. CASE Aar!Frame /\ Aar!FreeArchive
  BY <1>5 DEF Aar!FreeArchive, Aar!Live, FreeArchive, Live, Aar!Frame
<1>6. CASE Aar!Frame /\ Aar!BeginForEach
  BY <1>6, BeginContract DEF Aar!BeginForEach, Aar!Frame
<1>7. CASE Aar!Frame /\ Aar!EndForEach
  BY <1>7, EndContract DEF Aar!EndForEach, Aar!Frame
<1>8. CASE Aar!Visit
  <2>1. visit \in Entries /\ Iter \notin Live /\ Aar!CallIter(Aar!NewDescriptor(visit)) /\ load' = NULL
    BY <1>8, AarNames DEF Aar!Visit, Aar!AtEntry, Aar!CanStart
  <2> QED BY <1>1, <1>2, <2>1, VisitContract DEF Aar!CallIter
<1>9. CASE Aar!ReturnIter
  BY <1>9, AarNames, ReturnContract DEF Aar!ReturnIter, Aar!CanStart
<1>10. CASE Aar!FollowLink
  <2>1. load # NULL /\ desc' = desc /\ visit' = visit
    BY <1>10 DEF Aar!FollowLink, Aar!vars
  <2>2. CASE load' = NULL
    BY <2>1, <2>2, SameContract
  <2>3. CASE load' # NULL
    <3>1. load'.h = load.h /\ load'.d = load.d
      BY <1>10, <2>1, <2>3 DEF Aar!FollowLink, LoadInv
    <3> QED BY <2>1, <3>1 DEF Visiting, LoadVisits
  <2> QED BY <2>2, <2>3
<1>11. CASE Aar!LoadFails
  BY <1>11, SameContract DEF Aar!LoadFails, Aar!vars
<1>12. CASE Aar!FinishLoad
  <2> DEFINE d == [load.d EXCEPT !.size = ar.files[load.at].real]
             h == load.h
             c == load.at
  <2>1. /\ load # NULL /\ h \in Handle /\ Good(load.d) /\ load' = NULL
        /\ ShowInArchive(h, d, c) \/ ShowInBlock(h, d, c)
    BY <1>12, AarNames DEF Aar!FinishLoad, LoadInv
  <2>2. "data" \in DOMAIN d /\ d.file = load.d.file /\ load.d.file \in Entries
    BY <2>1 DEF Good, Truthful, FilesIn, Entries
  <2>3. IF h \in Live THEN d.file = desc[h].file ELSE h # Iter
    BY <2>1, <2>2 DEF Visiting
  <2> HIDE DEF d, h, c
  <2>4. PICK e : Becomes(h, e) /\ Shows(d.file, e)
    BY <2>1, <2>2, Loaded
  <2>5. CASE h \in Live
    BY <2>1, <2>3, <2>4, <2>5, LoadContract
  <2>6. CASE h \notin Live
    BY <1>1, <2>1, <2>2, <2>3, <2>4, <2>6, GetContract
  <2> QED BY <2>5, <2>6
<1>13. ASSUME NEW h \in Handle, Aar!Get(h) PROVE desc' = desc /\ visit' = visit /\ LoadVisits(load')
  <2>1. /\ load'.h = h /\ h \notin Live /\ h # Iter
        /\ desc' = desc /\ visit' = visit
    BY <1>13, AarNames DEF Aar!Get, Aar!vars
  <2> QED BY <2>1 DEF LoadVisits
<1>14. ASSUME NEW h \in Handle, Aar!LoadFile(h) PROVE desc' = desc /\ visit' = visit /\ LoadVisits(load')
  <2>1. /\ load'.h = h /\ h \in Live /\ load'.d = desc[h]
        /\ desc' = desc /\ visit' = visit
    BY <1>14, AarNames DEF Aar!LoadFile, Aar!vars
  <2> QED BY <2>1 DEF LoadVisits
<1>15. ASSUME NEW h \in Handle, Aar!Release(h) PROVE ContractEffect /\ load' = NULL
  <2>1. h \in Live /\ "data" \in DOMAIN desc[h]
    BY <1>15, AarNames DEF Aar!Release, Owned1, Good
  <2> QED BY <1>15, <2>1, AarNames, UnloadContract DEF Aar!Release, Aar!CanStart
<1>16. ASSUME NEW h \in Handle, Aar!Copy(h) PROVE ContractEffect /\ load' = NULL
  BY <1>16, AarNames, CopyContract DEF Aar!Copy, Aar!CanStart
<1>17. ASSUME NEW h \in Handle, Aar!FreeData(h) PROVE ContractEffect /\ load' = NULL
  BY <1>17, AarNames, FreeContract DEF Aar!FreeData, Aar!CanStart
<1> QED BY <1>4, <1>5, <1>6, <1>7, <1>8, <1>9, <1>10, <1>11, <1>12, <1>13, <1>14, <1>15, <1>16, <1>17
        DEF Aar!Next, Aar!LoadStep
-----------------------------------------------------------------------------
(* Every step is one of the contract's, or none that it sees.              *)
VisitsInside == visit \in 0 .. Len(ar.files) + 1 /\ (Iter \in Live => visit \in Entries)

LEMMA InsideStays ==
  ASSUME IInv, Visiting, ar' = ar, ar # NULL, ar.format # "flat", ContractEffect
  PROVE  VisitsInside'
<1>1. ar \in Archives /\ Owned1 /\ Iter \in Handle /\ VisitsInside /\ Entries' = Entries
  BY ArchiveAssumption DEF IInv, Visiting, VisitsInside, Entries
<1>2. FilesThere \subseteq Entries /\ Len(ar.files) \in Nat /\ Entries = 1 .. Len(ar.files)
  BY <1>1, FilesAreEntries DEF Entries
<1>3. CASE visit' = visit /\ (Iter \in Live' => Iter \in Live \/ visit \in FilesThere)
  BY <1>1, <1>2, <1>3 DEF VisitsInside
<1>4. CASE visit' = visit /\ desc' = desc
  BY <1>3, <1>4 DEF Live
<1>5. ASSUME NEW h, NEW d, Becomes(h, d), h # Iter \/ Iter \in Live PROVE VisitsInside'
  BY <1>1, <1>3, <1>5 DEF Becomes, Owned1, Live
<1>6. ASSUME NEW h, NEW d, GetsStep(h, d) PROVE VisitsInside'
  BY <1>5, <1>6 DEF GetsStep
<1>7. ASSUME NEW h, NEW d, LoadsStep(h, d) PROVE VisitsInside'
  BY <1>5, <1>7 DEF LoadsStep
<1>8. ASSUME NEW h, NEW d, DropsStep(h, d) PROVE VisitsInside'
  BY <1>5, <1>8 DEF DropsStep
<1>9. ASSUME NEW h, NEW d, CopiesStep(h, d) PROVE VisitsInside'
  BY <1>5, <1>9 DEF CopiesStep
<1>10. ASSUME NEW h, NEW d, MarksStep(h, d) PROVE VisitsInside'
  BY <1>5, <1>10 DEF MarksStep
<1>11. ASSUME NEW h, FreesStep(h) PROVE VisitsInside'
  BY <1>5, <1>11 DEF FreesStep
<1>12. ASSUME NEW d, VisitsStep(d) PROVE VisitsInside'
  BY <1>3, <1>12 DEF VisitsStep, Becomes
<1>13. CASE SkipsStep \/ ReturnsStep \/ BeginsStep \/ EndsStep
  <2>1. Iter \notin Live'
    <3>1. CASE SkipsStep
      BY <3>1 DEF SkipsStep, Live
    <3>2. CASE ReturnsStep
      BY <1>1, <3>2 DEF ReturnsStep, Live, Owned1
    <3>3. CASE BeginsStep
      BY <1>1, <1>2, <3>3 DEF BeginsStep, VisitsInside, Live
    <3>4. CASE EndsStep
      BY <1>1, <1>2, <3>4 DEF EndsStep, VisitsInside, Live
    <3> QED BY <1>13, <3>1, <3>2, <3>3, <3>4
  <2>2. visit' \in 0 .. Len(ar.files) + 1
    <3>1. SkipsStep \/ ReturnsStep => visit \in Entries /\ visit' = visit + 1
      BY <1>1 DEF SkipsStep, ReturnsStep, VisitsInside
    <3>2. BeginsStep \/ EndsStep => visit' \in {0, 1}
      BY DEF BeginsStep, EndsStep
    <3> QED BY <1>2, <1>13, <3>1, <3>2
  <2> QED BY <1>1, <2>1, <2>2 DEF VisitsInside
<1> QED BY <1>4, <1>6, <1>7, <1>8, <1>9, <1>10, <1>11, <1>12, <1>13 DEF ContractEffect

LEMMA VisitingNextIs ==
  ASSUME ar' = NULL => visit' = 0,
         ar' # NULL /\ ar'.format # "flat" => VisitsInside',
         load' # NULL => LoadVisits(load)'
  PROVE  Visiting'
BY DEF Visiting, VisitsInside, LoadVisits

(* What the contract sees while no archive, or a FLAT one, is open.        *)
Nothing == Live = {} /\ visit = 0

LEMMA NothingSeen ==
  ar = NULL /\ Nothing => /\ FilesThere = NULL
                          /\ (IF Is("flat") THEN [h \in Handle |-> NULL] ELSE HeldBy) = [h \in Handle |-> NULL]
                          /\ (IF Is("flat") THEN NULL ELSE StillToVisit(FilesThere)) = NULL
<1> SUFFICES ASSUME ar = NULL, Nothing
             PROVE  /\ FilesThere = NULL
                    /\ (IF Is("flat") THEN [h \in Handle |-> NULL] ELSE HeldBy) = [h \in Handle |-> NULL]
                    /\ (IF Is("flat") THEN NULL ELSE StillToVisit(FilesThere)) = NULL
  OBVIOUS
<1>1. ~Is("flat") /\ FilesThere = NULL
  BY DEF Is, FilesThere, Shown
<1>2. HeldBy = [h \in Handle |-> NULL]
  BY DEF HeldBy, Nothing, Live
<1>3. StillToVisit(FilesThere) = NULL
  BY DEF Nothing, StillToVisit
<1> QED BY <1>1, <1>2, <1>3

LEMMA FlatSeen ==
  Is("flat") => /\ FilesThere = NULL
                /\ (IF Is("flat") THEN [h \in Handle |-> NULL] ELSE HeldBy) = [h \in Handle |-> NULL]
                /\ (IF Is("flat") THEN NULL ELSE StillToVisit(FilesThere)) = NULL
BY DEF FilesThere, Shown

SeesNothing == /\ FilesThere = NULL
               /\ (IF Is("flat") THEN [h \in Handle |-> NULL] ELSE HeldBy) = [h \in Handle |-> NULL]
               /\ (IF Is("flat") THEN NULL ELSE StillToVisit(FilesThere)) = NULL

WhenNothing == (ar = NULL /\ Nothing) \/ Is("flat") => SeesNothing

LEMMA NothingToSee == WhenNothing /\ WhenNothing'
<1>1. WhenNothing
  BY NothingSeen, FlatSeen DEF SeesNothing, WhenNothing
<1> QED BY <1>1, PTL

FilesInTable == ar # NULL /\ ar \in Archives /\ ar.format # "flat" => FilesThere \in SUBSET Nat

LEMMA FilesAreNumbered == FilesInTable /\ FilesInTable'
<1>1. FilesInTable
  BY FilesAreEntries DEF FilesInTable
<1> QED BY <1>1, PTL

LEMMA StuttersUnseen ==
  ASSUME SeesNothing, SeesNothing'
  PROVE  UNCHANGED Contract!vars
BY DEF SeesNothing, Contract!vars

Contracts == [Contract!Next]_(Contract!vars) /\ Visiting'

LEMMA OpenContracts ==
  ASSUME NullApart, IInv, Visiting, ar = NULL, Next
  PROVE  Contracts
<1>1. Live = {} /\ load = NULL /\ ar' \in Archives /\ UNCHANGED <<desc, heap, visit, fault, load>>
  BY OnlyOpens
<1>2. visit = 0 /\ Nothing /\ SeesNothing /\ Iter \notin Live' /\ visit' = 0 /\ Live' = {}
  BY <1>1, NothingToSee DEF Visiting, Nothing, WhenNothing, Live
<1>3. Visiting'
  <2>1. ar' # NULL /\ ar'.format # "flat" => VisitsInside'
    <3>1. ar' # NULL => Len(ar'.files) \in Nat
      BY <1>1, ArchiveAssumption
    <3> QED BY <1>2, <3>1 DEF VisitsInside
  <2> QED BY <1>1, <1>2, <2>1, VisitingNextIs
<1>4. CASE ar' = NULL \/ Is("flat")'
  <2>1. SeesNothing'
    BY <1>2, <1>4, NothingToSee DEF WhenNothing, Nothing
  <2> QED BY <1>2, <1>3, <2>1, StuttersUnseen DEF Contracts
<1>5. CASE ar' # NULL /\ ~Is("flat")'
  <2>1. FilesThere' \in SUBSET Nat
    BY <1>1, <1>5, FilesAreNumbered DEF FilesInTable, Is
  <2>2. FilesThere' # NULL
    BY <2>1 DEF NullApart
  <2>3. HeldBy' = [h \in Handle |-> NULL] /\ StillToVisit(FilesThere)' = NULL
    BY <1>2 DEF HeldBy, Live, StillToVisit
  <2>4. Contract!Open
    BY <1>2, <1>5, <2>1, <2>2, <2>3 DEF Contract!Open, SeesNothing
  <2> QED BY <1>3, <2>4 DEF Contracts, Contract!Next
<1> QED BY <1>4, <1>5

LEMMA FreeContracts ==
  ASSUME NullApart, IInv, Visiting, FreeArchive, load' = NULL
  PROVE  Contracts
<1>1. ar # NULL /\ ar \in Archives /\ Nothing /\ Nothing' /\ ar' = NULL /\ visit' = 0 /\ Live' = {}
  BY DEF FreeArchive, IInv, Nothing, Live
<1>2. SeesNothing'
  BY <1>1, NothingToSee DEF WhenNothing
<1>3. Visiting'
  BY <1>1, VisitingNextIs
<1>4. CASE Is("flat")
  <2>1. SeesNothing
    BY <1>4, NothingToSee DEF WhenNothing
  <2> QED BY <1>2, <1>3, <2>1, StuttersUnseen DEF Contracts
<1>5. CASE ~Is("flat")
  <2>1. FilesThere # NULL
    BY <1>1, <1>5, FilesAreNumbered DEF FilesInTable, Is, NullApart
  <2>2. HeldBy = [h \in Handle |-> NULL] /\ StillToVisit(FilesThere) = NULL
    BY <1>1 DEF HeldBy, Nothing, Live, StillToVisit
  <2>3. Contract!Held = {}
    BY <1>5, <2>2 DEF Contract!Held
  <2>4. Contract!Free
    BY <1>2, <1>5, <2>1, <2>2, <2>3 DEF Contract!Free, SeesNothing
  <2> QED BY <1>3, <2>4 DEF Contracts, Contract!Next
<1> QED BY <1>4, <1>5

LEMMA UsedContracts ==
  ASSUME NullApart, IInv, Visiting, ar' = ar, ar # NULL, ar.format # "flat", ContractEffect,
         load' # NULL => LoadVisits(load)'
  PROVE  Contracts
<1>1. VisitsInside'
  BY InsideStays
<1>2. Visiting'
  BY <1>1, VisitingNextIs
<1> QED BY <1>2, Contracted DEF Contracts

LEMMA NextContracts ==
  ASSUME NullApart, Distinguished, IInv, Visiting, ar # NULL, Next
  PROVE  Contracts
<1>1. fault = FALSE /\ ar \in Archives /\ Owned1 /\ LoadInv
  BY DEF IInv, Next, Table!Next, Afa!Next, Ald!Next, Flat!Next, Aar!Next
<1>2. ASSUME ar.format # "aar", UNCHANGED load PROVE load' = NULL
  BY <1>1, <1>2 DEF LoadInv
<1>3. Safe \/ ReadFailed \/ FreedPastMap => ar' = ar
  BY DEF Safe, ReadFailed, FreedPastMap, Effect
<1>4. CASE Ops({"alk", "dlf"}) /\ Table!Next /\ UNCHANGED load
  <2>1. ar.format \in {"alk", "dlf"} /\ load' = NULL
    BY <1>2, <1>4 DEF Ops
  <2>2. (Safe \/ FreeArchive) /\ (ContractEffect \/ FreeArchive)
    BY <1>1, <1>4, <2>1, TableSafe, TableContract
  <2> QED BY <1>3, <2>1, <2>2, FreeContracts, UsedContracts
<1>5. CASE Ops({"afa"}) /\ Afa!Next /\ UNCHANGED load
  <2>1. ar.format = "afa" /\ load' = NULL
    BY <1>2, <1>5 DEF Ops
  <2>2. (Safe \/ FreeArchive \/ ReadFailed) /\ (ContractEffect \/ FreeArchive)
    BY <1>1, <1>5, <2>1, AfaSafe, AfaContract
  <2> QED BY <1>3, <2>1, <2>2, FreeContracts, UsedContracts
<1>6. CASE Ops({"ald"}) /\ Ald!Next /\ UNCHANGED load
  <2>1. ar.format = "ald" /\ load' = NULL
    BY <1>2, <1>6 DEF Ops
  <2>2. (Safe \/ FreeArchive) /\ (ContractEffect \/ FreeArchive)
    BY <1>1, <1>6, <2>1, AldSafe, AldContract
  <2> QED BY <1>3, <2>1, <2>2, FreeContracts, UsedContracts
<1>7. CASE Ops({"flat"}) /\ Flat!Next /\ UNCHANGED load
  <2>1. ar.format = "flat" /\ load' = NULL
    BY <1>2, <1>7 DEF Ops
  <2>2. Safe \/ FreeArchive
    BY <1>1, <1>7, <2>1, FlatSafe
  <2>3. ASSUME Safe PROVE Contracts
    <3>1. Is("flat") /\ Is("flat")' /\ ar' # NULL
      BY <1>3, <2>1, <2>3 DEF Is
    <3>2. Visiting'
      BY <2>1, <3>1, VisitingNextIs DEF Is
    <3>3. SeesNothing /\ SeesNothing'
      BY <3>1, NothingToSee DEF WhenNothing
    <3> QED BY <3>2, <3>3, StuttersUnseen DEF Contracts
  <2> QED BY <2>1, <2>2, <2>3, FreeContracts
<1>8. CASE Ops({"aar"}) /\ Aar!Next
  <2>1. ar.format = "aar"
    BY <1>8 DEF Ops
  <2>2. /\ (LoadInv' /\ (Safe \/ FreedPastMap)) \/ (FreeArchive /\ load' = NULL)
        /\ \/ ContractEffect /\ load' = NULL
           \/ desc' = desc /\ visit' = visit /\ LoadVisits(load')
           \/ FreeArchive /\ load' = NULL
    BY <1>1, <1>8, <2>1, AarSafe, AarContract
  <2>3. ASSUME desc' = desc, visit' = visit, LoadVisits(load')
        PROVE  ContractEffect /\ LoadVisits(load)'
    BY <2>3, SameContract DEF LoadVisits, Live
  <2> QED BY <1>3, <2>1, <2>2, <2>3, FreeContracts, UsedContracts
<1> QED BY <1>4, <1>5, <1>6, <1>7, <1>8 DEF Next

(* What archive.h promises holds of every format but FLAT, for archives of *)
(* any size and any client: every call is one of the contract's steps, or  *)
(* one it does not see.                                                    *)
THEOREM ContractHolds ==
  ASSUME Distinguished, NullApart
  PROVE  Spec => ImplementsContract
<1>1. InitArchive => Visiting /\ Contract!Init
  <2> SUFFICES ASSUME InitArchive PROVE Visiting /\ Contract!Init
    OBVIOUS
  <2>1. ar = NULL /\ Nothing /\ load = NULL
    BY DEF InitArchive, Init, Nothing, Live
  <2>2. SeesNothing
    BY <2>1, NothingToSee DEF WhenNothing
  <2> QED BY <2>1, <2>2 DEF Contract!Init, SeesNothing, Visiting, Nothing
<1>2. IInv /\ Visiting /\ [Next]_varsArchive => Contracts
  <2> SUFFICES ASSUME IInv, Visiting, [Next]_varsArchive PROVE Contracts
    OBVIOUS
  <2>1. CASE Next
    BY <2>1, OpenContracts, NextContracts
  <2>2. CASE UNCHANGED varsArchive
    <3>1. Visiting'
      BY <2>2 DEF varsArchive, Visiting, Live, Entries
    <3>2. UNCHANGED Contract!vars
      <4>1. Is("flat")' <=> Is("flat")
        BY <2>2 DEF varsArchive, Is
      <4>2. HeldBy' = HeldBy
        BY <2>2 DEF varsArchive, HeldBy
      <4>3. FilesThere' = FilesThere
        BY <2>2, FilesStay, NothingToSee DEF varsArchive, IInv, FilesThere, Shown, Is
      <4>4. StillToVisit(FilesThere)' = StillToVisit(FilesThere)
        BY <2>2, <4>3 DEF varsArchive, StillToVisit
      <4> QED BY <4>1, <4>2, <4>3, <4>4 DEF Contract!vars
    <3> QED BY <3>1, <3>2 DEF Contracts
  <2> QED BY <2>1, <2>2
<1>3. Contracts => [Contract!Next]_(Contract!vars) /\ Visiting'
  BY DEF Contracts
<1> QED BY <1>1, <1>2, <1>3, OwnersInvariant, PTL DEF Spec, ImplementsContract, Contract!Spec
=============================================================================
