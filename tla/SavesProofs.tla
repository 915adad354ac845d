----------------------------- MODULE SavesProofs -----------------------------
(***************************************************************************)
(* For any file and any damage: a global save that is accepted refers only *)
(* to entries it has, and a resume save that is accepted is all that its   *)
(* file holds.  Without damage, a resume save comes back as it was.        *)
(***************************************************************************)
EXTENDS Saves, NaturalsInduction, WellFoundedInduction, SequenceTheorems, FiniteSetTheorems, TLAPS

(* Sequences whose elements have no set of their own.                      *)
IsSeq(f) == f \in Seq({f[i] : i \in 1 .. Len(f)})

LEMMA SeqIs ==
  ASSUME NEW S, NEW f \in Seq(S)
  PROVE  IsSeq(f) /\ Len(f) \in Nat /\ DOMAIN f = 1 .. Len(f)
<1>1. f \in [1 .. Len(f) -> {f[i] : i \in 1 .. Len(f)}] /\ Len(f) \in Nat
  OBVIOUS
<1> QED BY <1>1 DEF IsSeq

LEMMA SeqMade ==
  ASSUME NEW n \in Nat, NEW f, f = [i \in 1 .. n |-> f[i]]
  PROVE  IsSeq(f) /\ Len(f) = n
<1>1. f \in Seq({f[i] : i \in 1 .. n}) /\ Len(f) = n
  OBVIOUS
<1> QED BY <1>1 DEF IsSeq

LEMMA SeqAppend ==
  ASSUME NEW f, IsSeq(f), NEW x
  PROVE  /\ IsSeq(Append(f, x)) /\ Len(f) \in Nat /\ Len(Append(f, x)) = Len(f) + 1
         /\ \A i \in 1 .. Len(f) : Append(f, x)[i] = f[i]
         /\ Append(f, x)[Len(f) + 1] = x
<1> DEFINE S == {f[i] : i \in 1 .. Len(f)} \cup {x}
<1>1. f \in Seq(S) /\ x \in S
  <2>1. f \in [1 .. Len(f) -> {f[i] : i \in 1 .. Len(f)}] /\ Len(f) \in Nat
    BY DEF IsSeq
  <2> QED BY <2>1
<1> HIDE DEF S
<1>2. /\ Append(f, x) \in Seq(S) /\ Len(f) \in Nat /\ Len(Append(f, x)) = Len(f) + 1
      /\ \A i \in 1 .. Len(f) : Append(f, x)[i] = f[i]
      /\ Append(f, x)[Len(f) + 1] = x
  BY <1>1
<1>3. IsSeq(Append(f, x))
  BY <1>2, SeqIs
<1> QED BY <1>2, <1>3

Replaced(f, k, x) == [f EXCEPT ![k] = x]

LEMMA SeqReplace ==
  ASSUME NEW f, IsSeq(f), NEW x, NEW k \in 1 .. Len(f)
  PROVE  /\ IsSeq(Replaced(f, k, x)) /\ Len(Replaced(f, k, x)) = Len(f)
         /\ \A i \in 1 .. Len(f) : Replaced(f, k, x)[i] = IF i = k THEN x ELSE f[i]
<1> USE DEF Replaced
<1> DEFINE S == {f[i] : i \in 1 .. Len(f)} \cup {x}
           g == [f EXCEPT ![k] = x]
<1>1. f \in [1 .. Len(f) -> S] /\ Len(f) \in Nat /\ x \in S
  BY DEF IsSeq
<1> HIDE DEF S
<1>2. g \in [1 .. Len(f) -> S]
  BY <1>1
<1>3. g \in Seq(S) /\ Len(g) = Len(f)
  BY <1>1, <1>2
<1> QED BY <1>1, <1>3, SeqIs

LEMMA SeqJoin ==
  ASSUME NEW S, NEW f \in Seq(S), NEW g \in Seq(S)
  PROVE  f \o g \in Seq(S) /\ Len(f \o g) = Len(f) + Len(g)
OBVIOUS

(* A file is a sequence of tokens, and the tokens that are integers have   *)
(* integers as values.                                                     *)
IsFile(f) == IsSeq(f) /\ \A k \in 1 .. Len(f) : f[k].kind = "int" => f[k].v \in Int

HasHeader(f) == Len(f) >= 11 /\ \A k \in 1 .. 11 : f[k].kind = "int"

\* Entries of a table that were parsed.
Parsed(t) == Len(<<s.records, s.globals, s.strings, s.arrays, s.keyvals>>[t])

\* The tables before the one under way are complete, those after it empty.
Progress ==
  /\ phase = "idle" => s = Global!Empty
  /\ \A u \in 1 .. 5 : phase = Global!Table[u] =>
       /\ left \in Nat
       /\ \A t \in 1 .. 5 : Parsed(t) = IF t < u THEN Global!Count(t)
                                        ELSE IF t = u THEN Global!Count(t) - left ELSE 0
  /\ phase \in {"defs", "done"} => \A t \in 1 .. 5 : Parsed(t) = Global!Count(t)

SaveShape ==
  /\ DOMAIN s = {"records", "globals", "strings", "arrays", "keyvals", "defs"}
  /\ IsSeq(s.records) /\ IsSeq(s.globals) /\ IsSeq(s.strings)
  /\ IsSeq(s.arrays) /\ IsSeq(s.keyvals)
  /\ flats # 0 => Len(s.arrays) # 0
  /\ \A i \in 1 .. Len(s.arrays) : IsSeq(s.arrays[i].flats) /\ "flats" \in DOMAIN s.arrays[i]

\* What the parser has checked of an entry, against the counts.
RecordChecked(r) ==
  \A j \in 1 .. Len(r.indices) :
    r.indices[j] \in 0 .. (IF r.type = Global!GLOBALS THEN Global!Count(2) ELSE Global!Count(5)) - 1

FlatChecked(fa) == \A k \in 1 .. Len(fa.values) : Global!ValidValue(fa.values[k], fa.types[k])

Checked ==
  /\ \A i \in 1 .. Len(s.records) : RecordChecked(s.records[i])
  /\ \A i \in 1 .. Len(s.globals) : Global!ValidValue(s.globals[i].value, s.globals[i].type)
  /\ \A i \in 1 .. Len(s.arrays) : \A j \in 1 .. Len(s.arrays[i].flats) : FlatChecked(s.arrays[i].flats[j])
  /\ Global!Typed(Global!version) =>
       \A i \in 1 .. Len(s.keyvals) : Global!ValidValue(s.keyvals[i].value, s.keyvals[i].type)

GlobalInv == /\ IsFile(file) /\ HasHeader(file) /\ pos \in Nat
             /\ Progress /\ SaveShape /\ Checked

LEMMA CountsAre ==
  ASSUME IsFile(file), HasHeader(file)
  PROVE  \A t \in 1 .. 5 : Global!Count(t) \in Int
<1> SUFFICES ASSUME NEW t \in 1 .. 5 PROVE Global!Count(t) \in Int
  OBVIOUS
<1>1. 1 + 2 * t \in 1 .. 11 /\ Len(file) \in Nat
  BY SeqIs DEF IsFile, IsSeq
<1> QED BY <1>1 DEF IsFile, HasHeader, Global!Count

LEMMA ValidRefers ==
  ASSUME \A t \in 1 .. 5 : Parsed(t) = Global!Count(t), NEW v, NEW type, Global!ValidValue(v, type)
  PROVE  Global!Refers(v, type)
<1>1. /\ Len(s.records) = Global!Count(1) /\ Len(s.strings) = Global!Count(3)
      /\ Len(s.arrays) = Global!Count(4)
  BY DEF Parsed
<1> QED BY <1>1 DEF Global!Refers, Global!ValidValue

LEMMA ClosedAtEnd ==
  ASSUME GlobalInv
  PROVE  Global!AcceptedIsClosed
<1> SUFFICES ASSUME phase = "done" PROVE Global!AcceptedIsClosed
  BY DEF Global!AcceptedIsClosed
<1>1. \A t \in 1 .. 5 : Parsed(t) = Global!Count(t)
  BY DEF GlobalInv, Progress
<1>2. Len(s.globals) = Global!Count(2) /\ Len(s.keyvals) = Global!Count(5)
  BY <1>1 DEF Parsed
<1>3. \A i \in 1 .. Len(s.records) : \A j \in 1 .. Len(s.records[i].indices) :
         s.records[i].indices[j] \in
           0 .. Len(IF s.records[i].type = Global!GLOBALS THEN s.globals ELSE s.keyvals) - 1
  BY <1>2 DEF GlobalInv, Checked, RecordChecked
<1>4. \A i \in 1 .. Len(s.globals) : Global!Refers(s.globals[i].value, s.globals[i].type)
  BY <1>1, ValidRefers DEF GlobalInv, Checked
<1>5. \A i \in 1 .. Len(s.arrays) : \A j \in 1 .. Len(s.arrays[i].flats) :
         \A k \in 1 .. Len(s.arrays[i].flats[j].values) :
           Global!Refers(s.arrays[i].flats[j].values[k], s.arrays[i].flats[j].types[k])
  BY <1>1, ValidRefers DEF GlobalInv, Checked, FlatChecked
<1>6. Global!Typed(Global!version) =>
         \A i \in 1 .. Len(s.keyvals) : Global!Refers(s.keyvals[i].value, s.keyvals[i].type)
  BY <1>1, ValidRefers DEF GlobalInv, Checked
<1> QED BY <1>3, <1>4, <1>5, <1>6 DEF Global!AcceptedIsClosed

-----------------------------------------------------------------------------
(* Steps of the parser.                                                    *)
\* What is checked depends on the file alone.
LEMMA SameChecks ==
  ASSUME file' = file
  PROVE  /\ \A v, type : Global!ValidValue(v, type)' <=> Global!ValidValue(v, type)
         /\ \A r : RecordChecked(r)' <=> RecordChecked(r)
         /\ \A fa : FlatChecked(fa)' <=> FlatChecked(fa)
         /\ Global!Typed(Global!version)' <=> Global!Typed(Global!version)
<1>1. \A t : Global!Count(t)' = Global!Count(t)
  BY DEF Global!Count
<1>2. \A v, type : Global!ValidValue(v, type)' <=> Global!ValidValue(v, type)
  BY <1>1 DEF Global!ValidValue
<1>3. \A fa : FlatChecked(fa)' <=> FlatChecked(fa)
  BY <1>2 DEF FlatChecked
<1> QED BY <1>1, <1>2, <1>3 DEF RecordChecked, Global!Typed, Global!version

\* The parser ends, or goes on with another table.
LEMMA SameSave ==
  ASSUME GlobalInv, UNCHANGED <<file, s, flats>>, pos' \in Nat, Progress'
  PROVE  GlobalInv'
<1>1. IsFile(file)' /\ HasHeader(file)' /\ SaveShape'
  BY DEF GlobalInv, SaveShape
<1>2. Checked'
  BY SameChecks DEF GlobalInv, Checked
<1> QED BY <1>1, <1>2 DEF GlobalInv

LEMMA EndKeeps ==
  ASSUME GlobalInv, UNCHANGED <<file, s, flats, pos>>,
         phase' \in {"invalid", "unsupported", "off"}
  PROVE  GlobalInv'
<1>1. Progress'
  <2>1. \A u \in 1 .. 5 : phase' # Global!Table[u]
    <3> SUFFICES ASSUME NEW u \in {1, 2, 3, 4, 5} PROVE phase' # Global!Table[u]
      OBVIOUS
    <3> QED BY DEF Global!Table
  <2> QED BY <2>1 DEF Progress
<1> QED BY <1>1, SameSave DEF GlobalInv

LEMMA TakesOne ==
  ASSUME GlobalInv, NEW t \in 1 .. 5, phase = Global!Table[t], left > 0,
         phase' = phase, left' = left - 1, file' = file,
         \A u \in 1 .. 5 : Parsed(u)' = IF u = t THEN Parsed(u) + 1 ELSE Parsed(u)
  PROVE  Progress'
<1>1. \A u \in 1 .. 5 : phase = Global!Table[u] <=> u = t
  <2> SUFFICES ASSUME NEW u \in {1, 2, 3, 4, 5} PROVE phase = Global!Table[u] <=> u = t
    OBVIOUS
  <2>1. t \in {1, 2, 3, 4, 5}
    OBVIOUS
  <2> QED BY <2>1 DEF Global!Table
<1>2. phase \notin {"idle", "defs", "done"}
  <2>1. t \in {1, 2, 3, 4, 5}
    OBVIOUS
  <2> QED BY <2>1 DEF Global!Table
<1>3. \A u \in 1 .. 5 : Global!Count(u)' = Global!Count(u) /\ Global!Count(u) \in Int
  BY CountsAre DEF GlobalInv, Global!Count
<1>4. \A u \in 1 .. 5 : Parsed(u) = IF u < t THEN Global!Count(u) ELSE IF u = t THEN Global!Count(u) - left ELSE 0
  BY <1>1 DEF GlobalInv, Progress
<1>5. left \in Nat /\ left - 1 \in Nat
  BY <1>1 DEF GlobalInv, Progress
<1>6. \A u \in 1 .. 5 : Parsed(u)' = IF u < t THEN Global!Count(u)' ELSE IF u = t THEN Global!Count(u)' - (left - 1) ELSE 0
  BY <1>3, <1>4, <1>5
<1> QED BY <1>1, <1>2, <1>5, <1>6 DEF Progress

\* Reading from one table to the next.
LEMMA StartKeeps ==
  ASSUME GlobalInv, file' = file, NEW t \in 1 .. 5, Global!StartTable(t),
         \A u \in 1 .. 5 : Parsed(u) = IF u < t THEN Global!Count(u) ELSE 0
  PROVE  GlobalInv'
<1>0. Global!Count(t) \in Int
  BY CountsAre DEF GlobalInv
<1>1. CASE Global!End("invalid") \/ Global!End("off")
  BY <1>1, EndKeeps DEF Global!End
<1>2. CASE /\ phase' = Global!Table[t] /\ left' = Global!Count(t) /\ UNCHANGED <<pos, flats, s, crash>>
           /\ ~(Global!Count(t) < 0)
  <2>1. \A u \in 1 .. 5 : phase' = Global!Table[u] <=> u = t
    <3> SUFFICES ASSUME NEW u \in {1, 2, 3, 4, 5} PROVE phase' = Global!Table[u] <=> u = t
      OBVIOUS
    <3>1. t \in {1, 2, 3, 4, 5}
      OBVIOUS
    <3> QED BY <1>2, <3>1 DEF Global!Table
  <2>2. phase' \notin {"idle", "defs", "done"}
    <3>1. t \in {1, 2, 3, 4, 5}
      OBVIOUS
    <3> QED BY <1>2, <3>1 DEF Global!Table
  <2>3. \A u \in 1 .. 5 : Global!Count(u)' = Global!Count(u) /\ Parsed(u)' = Parsed(u)
    BY <1>2 DEF Global!Count, Parsed
  <2>4. left' \in Nat
    BY <1>0, <1>2
  <2>5. \A u \in 1 .. 5 : Parsed(u)' = IF u < t THEN Global!Count(u)' ELSE IF u = t THEN Global!Count(u)' - left' ELSE 0
    BY <1>0, <1>2, <2>3
  <2>6. Progress'
    BY <2>1, <2>2, <2>4, <2>5 DEF Progress
  <2> QED BY <1>2, <2>6, SameSave DEF GlobalInv
<1> QED BY <1>1, <1>2 DEF Global!StartTable

LEMMA BeginKeeps ==
  ASSUME GlobalInv, file' = file, Global!Begin
  PROVE  GlobalInv'
<1>1. CASE Global!StartTable(1)
  <2>1. \A u \in 1 .. 5 : Parsed(u) = 0
    <3>1. s = Global!Empty
      BY DEF Global!Begin, GlobalInv, Progress
    <3> SUFFICES ASSUME NEW u \in {1, 2, 3, 4, 5} PROVE Parsed(u) = 0
      OBVIOUS
    <3> QED BY <3>1 DEF Global!Empty, Parsed
  <2> QED BY <1>1, <2>1, StartKeeps
<1>2. CASE Global!End("unsupported")
  BY <1>2, EndKeeps DEF Global!End
<1> QED BY <1>1, <1>2 DEF Global!Begin

LEMMA NextTableKeeps ==
  ASSUME GlobalInv, file' = file, Global!NextTable
  PROVE  GlobalInv'
<1> DEFINE At(t) == phase = Global!Table[t] /\ left = 0 /\ flats = 0
<1>1. \/ \E t \in 1 .. 4 : At(t) /\ Global!StartTable(t + 1)
      \/ At(5) /\ Global!StartDefs
      \/ At(6) /\ Global!End("done")
  <2>1. PICK t \in 1 .. 6 : /\ At(t)
                            /\ CASE t < 5 -> Global!StartTable(t + 1)
                                 [] t = 5 -> Global!StartDefs
                                 [] t = 6 -> Global!End("done")
    BY Zenon DEF Global!NextTable
  <2>2. CASE t \in 1 .. 4
    <3>1. t < 5 /\ t # 5 /\ t # 6
      BY <2>2
    <3>2. Global!StartTable(t + 1)
      BY <2>1, <3>1, Zenon
    <3> QED BY <2>1, <2>2, <3>2
  <2>3. CASE t = 5
    <3>1. ~(t < 5) /\ t # 6
      BY <2>3
    <3> QED BY <2>1, <2>3, <3>1, Zenon
  <2>4. CASE t = 6
    <3>1. ~(t < 5) /\ t # 5
      BY <2>4
    <3> QED BY <2>1, <2>4, <3>1, Zenon
  <2> QED BY <2>2, <2>3, <2>4
<1>2. ASSUME NEW t \in 1 .. 5, At(t)
      PROVE  \A u \in 1 .. 5 : Parsed(u) = IF u <= t THEN Global!Count(u) ELSE 0
  <2>1. \A u \in 1 .. 5 : Parsed(u) = IF u < t THEN Global!Count(u)
                                      ELSE IF u = t THEN Global!Count(u) - left ELSE 0
    BY <1>2 DEF GlobalInv, Progress
  <2>2. \A u \in 1 .. 5 : Global!Count(u) \in Int
    BY CountsAre DEF GlobalInv
  <2> QED BY <1>2, <2>1, <2>2
<1>3. ASSUME NEW t \in 1 .. 4, At(t), Global!StartTable(t + 1)
      PROVE  GlobalInv'
  <2>1. t + 1 \in 1 .. 5 /\ t \in 1 .. 5
    OBVIOUS
  <2>2. \A u \in 1 .. 5 : Parsed(u) = IF u < t + 1 THEN Global!Count(u) ELSE 0
    BY <1>2, <1>3, <2>1
  <2> QED BY <1>3, <2>1, <2>2, StartKeeps
<1>4. ASSUME At(5) \/ At(6), phase' \in {"defs", "done"}, UNCHANGED <<s, flats>>, pos' \in Nat
      PROVE  GlobalInv'
  <2>1. \A u \in 1 .. 5 : Parsed(u) = Global!Count(u)
    <3>1. CASE At(6)
      BY <3>1 DEF GlobalInv, Progress, Global!Table
    <3>2. CASE At(5)
      BY <1>2, <3>2
    <3> QED BY <1>4, <3>1, <3>2
  <2>2. \A u \in 1 .. 5 : phase' # Global!Table[u]
    <3> SUFFICES ASSUME NEW u \in {1, 2, 3, 4, 5} PROVE phase' # Global!Table[u]
      OBVIOUS
    <3> QED BY <1>4 DEF Global!Table
  <2>3. \A u \in 1 .. 5 : Parsed(u)' = Global!Count(u)'
    BY <1>4, <2>1 DEF Parsed, Global!Count
  <2>4. phase' # "idle" /\ Progress'
    BY <1>4, <2>2, <2>3 DEF Progress
  <2> HIDE DEF At
  <2> QED BY <1>4, <2>4, SameSave
<1>5. CASE At(5) /\ Global!StartDefs
  <2>1. CASE Global!End("off")
    BY <2>1, EndKeeps DEF Global!End
  <2>2. CASE Global!End("done")
    BY <1>4, <1>5, <2>2 DEF Global!End, GlobalInv
  <2>3. CASE phase' = "defs" /\ pos' = pos + 1 /\ UNCHANGED <<flats, s, crash>>
    BY <1>4, <1>5, <2>3 DEF GlobalInv
  <2> QED BY <1>5, <2>1, <2>2, <2>3 DEF Global!StartDefs
<1>6. CASE At(6) /\ Global!End("done")
  BY <1>4, <1>6 DEF Global!End, GlobalInv
<1> QED BY <1>1, <1>3, <1>5, <1>6

-----------------------------------------------------------------------------
(* The entries of the tables.                                              *)
LEMMA TokIsInt ==
  ASSUME GlobalInv, NEW kinds, NEW i \in 1 .. Len(kinds), Len(kinds) \in Nat,
         kinds[i] = "int", Global!Readable(kinds)
  PROVE  Global!Tok(i) \in Int
<1>1. file[pos + i].kind = "int" /\ pos + i \in 1 .. Len(file)
  <2>1. Len(file) \in Nat /\ pos \in Nat
    BY SeqIs DEF GlobalInv, IsFile, IsSeq
  <2> QED BY <2>1 DEF Global!Readable
<1> QED BY <1>1 DEF GlobalInv, IsFile, Global!Tok

LEMMA FirstIsInt ==
  ASSUME GlobalInv, Global!Readable(Global!Kinds(1))
  PROVE  Global!Tok(1) \in Int
<1>1. /\ Len(Global!Kinds(1)) = 1 /\ Global!Kinds(1)[1] = "int"
  BY SeqMade DEF Global!Kinds
<1> QED BY <1>1, TokIsInt

\* An entry of the table under way was taken.
LEMMA EntryKeeps ==
  ASSUME GlobalInv, file' = file, NEW t \in 1 .. 5, Global!InTable(t),
         phase' = phase, left' = left - 1, pos' \in Nat,
         SaveShape', Checked',
         \A u \in 1 .. 5 : Parsed(u)' = IF u = t THEN Parsed(u) + 1 ELSE Parsed(u)
  PROVE  GlobalInv'
<1>1. Progress'
  BY TakesOne DEF Global!InTable
<1> QED BY <1>1 DEF GlobalInv

LEMMA RecordKeeps ==
  ASSUME GlobalInv, file' = file, Global!ParseRecord
  PROVE  GlobalInv'
<1> DEFINE head == IF Global!Typed(Global!version) THEN <<"int", "str", "int">> ELSE <<"int", "int">>
           h    == Len(head)
           n    == Global!Tok(h)
           type == IF Global!Typed(Global!version) THEN Global!Tok(1)
                   ELSE IF Global!Tok(1) = -1 THEN Global!GLOBALS ELSE Global!AIN_STRUCT
           rec  == [type    |-> type,
                    name    |-> IF Global!Typed(Global!version) THEN Global!Tok(2) ELSE NULL,
                    index   |-> IF Global!Typed(Global!version) THEN 0 ELSE Global!Tok(1),
                    indices |-> Global!Toks(h + 1, n)]
           bound == IF type = Global!GLOBALS THEN Global!Count(2) ELSE Global!Count(5)
<1>1. CASE Global!End("off") \/ Global!End("invalid")
  BY <1>1, EndKeeps DEF Global!End
<1>2. CASE /\ Global!Readable(head) /\ ~(n < 0)
           /\ \A i \in 1 .. n : rec.indices[i] \in 0 .. bound - 1
           /\ Global!Consume(h + n, [s EXCEPT !.records = Append(@, rec)])
  <2>1. h \in 2 .. 3 /\ head[h] = "int"
    OBVIOUS
  <2>2. n \in Nat
    <3>1. Len(head) \in Nat /\ h \in 1 .. Len(head) /\ head[h] = "int" /\ Global!Readable(head)
      BY <1>2, <2>1
    <3> HIDE DEF head
    <3>2. n \in Int
      BY <3>1, TokIsInt
    <3> QED BY <1>2, <3>2
  <2>3. Len(rec.indices) = n
    BY <2>2, SeqMade DEF Global!Toks
  <2>4. RecordChecked(rec)
    BY <1>2, <2>3 DEF RecordChecked
  <2>5. s' = [s EXCEPT !.records = Append(@, rec)] /\ pos' = pos + (h + n)
        /\ left' = left - 1 /\ UNCHANGED <<phase, flats>> /\ Global!InTable(1)
    BY <1>2 DEF Global!Consume, Global!ParseRecord
  <2> HIDE DEF rec, n, h
  <2>6. /\ s'.records = Append(s.records, rec) /\ DOMAIN s' = DOMAIN s
        /\ s'.globals = s.globals /\ s'.strings = s.strings
        /\ s'.arrays = s.arrays /\ s'.keyvals = s.keyvals
    BY <2>5 DEF GlobalInv, SaveShape
  <2>7. /\ IsSeq(s'.records) /\ Len(s.records) \in Nat /\ Len(s'.records) = Len(s.records) + 1
        /\ \A i \in 1 .. Len(s.records) : s'.records[i] = s.records[i]
        /\ s'.records[Len(s.records) + 1] = rec
    BY <2>6, SeqAppend DEF GlobalInv, SaveShape
  <2>8. SaveShape'
    BY <2>5, <2>6, <2>7 DEF GlobalInv, SaveShape
  <2>9. Checked'
    <3>1. \A i \in 1 .. Len(s'.records) : RecordChecked(s'.records[i])
      BY <2>4, <2>7 DEF GlobalInv, Checked
    <3> QED BY <2>6, <3>1, SameChecks DEF GlobalInv, Checked
  <2>10. \A u \in 1 .. 5 : Parsed(u)' = IF u = 1 THEN Parsed(u) + 1 ELSE Parsed(u)
    BY <2>6, <2>7 DEF Parsed
  <2>11. pos' \in Nat
    BY <2>1, <2>2, <2>5 DEF GlobalInv
  <2> QED BY <2>5, <2>8, <2>9, <2>10, <2>11, EntryKeeps
<1> QED BY <1>1, <1>2 DEF Global!ParseRecord, Global!AcceptIf

LEMMA GlobalKeeps ==
  ASSUME GlobalInv, file' = file, Global!ParseGlobal
  PROVE  GlobalInv'
<1> DEFINE kinds == <<"int", "int", "str">>
                    \o (IF Global!Typed(Global!version) THEN Global!Kinds(1) ELSE <<>>)
           g == [type |-> Global!Tok(1), value |-> Global!Tok(2), name |-> Global!Tok(3)]
<1>1. CASE Global!End("off") \/ Global!End("invalid")
  BY <1>1, EndKeeps DEF Global!End
<1>2. CASE /\ Global!ValidValue(g.value, g.type)
           /\ Global!Consume(Len(kinds), [s EXCEPT !.globals = Append(@, g)])
  <2>1. Len(kinds) \in Nat
    <3>1. Global!Kinds(1) \in Seq({"int"})
      BY DEF Global!Kinds
    <3> QED BY <3>1
  <2>2. s' = [s EXCEPT !.globals = Append(@, g)] /\ pos' = pos + Len(kinds)
        /\ left' = left - 1 /\ UNCHANGED <<phase, flats>> /\ Global!InTable(2)
    BY <1>2 DEF Global!Consume, Global!ParseGlobal
  <2>3. pos' \in Nat
    BY <2>1, <2>2 DEF GlobalInv
  <2> HIDE DEF g, kinds
  <2>4. /\ s'.globals = Append(s.globals, g) /\ DOMAIN s' = DOMAIN s
        /\ s'.records = s.records /\ s'.strings = s.strings
        /\ s'.arrays = s.arrays /\ s'.keyvals = s.keyvals
    BY <2>2 DEF GlobalInv, SaveShape
  <2>5. /\ IsSeq(s'.globals) /\ Len(s.globals) \in Nat /\ Len(s'.globals) = Len(s.globals) + 1
        /\ \A i \in 1 .. Len(s.globals) : s'.globals[i] = s.globals[i]
        /\ s'.globals[Len(s.globals) + 1] = g
    BY <2>4, SeqAppend DEF GlobalInv, SaveShape
  <2>6. SaveShape'
    BY <2>2, <2>4, <2>5 DEF GlobalInv, SaveShape
  <2>7. Checked'
    <3>1. \A i \in 1 .. Len(s'.globals) : Global!ValidValue(s'.globals[i].value, s'.globals[i].type)
      BY <1>2, <2>5 DEF GlobalInv, Checked
    <3> QED BY <2>4, <3>1, SameChecks DEF GlobalInv, Checked
  <2>8. \A u \in 1 .. 5 : Parsed(u)' = IF u = 2 THEN Parsed(u) + 1 ELSE Parsed(u)
    BY <2>4, <2>5 DEF Parsed
  <2> QED BY <2>2, <2>3, <2>6, <2>7, <2>8, EntryKeeps
<1> QED BY <1>1, <1>2 DEF Global!ParseGlobal, Global!AcceptIf

LEMMA StringKeeps ==
  ASSUME GlobalInv, file' = file, Global!ParseString
  PROVE  GlobalInv'
<1>1. CASE Global!End("off")
  BY <1>1, EndKeeps DEF Global!End
<1>2. CASE Global!Consume(1, [s EXCEPT !.strings = Append(@, Global!Tok(1))])
  <2>1. s' = [s EXCEPT !.strings = Append(@, Global!Tok(1))] /\ pos' = pos + 1
        /\ left' = left - 1 /\ UNCHANGED <<phase, flats>> /\ Global!InTable(3)
    BY <1>2 DEF Global!Consume, Global!ParseString
  <2>2. pos' \in Nat
    BY <2>1 DEF GlobalInv
  <2>3. /\ s'.strings = Append(s.strings, Global!Tok(1)) /\ DOMAIN s' = DOMAIN s
        /\ s'.records = s.records /\ s'.globals = s.globals
        /\ s'.arrays = s.arrays /\ s'.keyvals = s.keyvals
    BY <2>1 DEF GlobalInv, SaveShape
  <2>4. /\ IsSeq(s'.strings) /\ Len(s.strings) \in Nat /\ Len(s'.strings) = Len(s.strings) + 1
    BY <2>3, SeqAppend DEF GlobalInv, SaveShape
  <2>5. SaveShape'
    BY <2>1, <2>3, <2>4 DEF GlobalInv, SaveShape
  <2>6. Checked'
    BY <2>3, SameChecks DEF GlobalInv, Checked
  <2>7. \A u \in 1 .. 5 : Parsed(u)' = IF u = 3 THEN Parsed(u) + 1 ELSE Parsed(u)
    BY <2>3, <2>4 DEF Parsed
  <2> QED BY <2>1, <2>2, <2>5, <2>6, <2>7, EntryKeeps
<1> QED BY <1>1, <1>2 DEF Global!ParseString

LEMMA KeyvalKeeps ==
  ASSUME GlobalInv, file' = file, Global!ParseKeyval
  PROVE  GlobalInv'
<1> DEFINE kinds == IF Global!Typed(Global!version) THEN <<"int", "int", "str">> ELSE <<"int">>
           kv == IF Global!Typed(Global!version)
                 THEN [type |-> Global!Tok(1), value |-> Global!Tok(2), name |-> Global!Tok(3)]
                 ELSE [type |-> 0, value |-> Global!Tok(1), name |-> NULL]
<1>1. CASE Global!End("off") \/ Global!End("invalid")
  BY <1>1, EndKeeps DEF Global!End
<1>2. CASE /\ Global!Typed(Global!version) => Global!ValidValue(kv.value, kv.type)
           /\ Global!Consume(Len(kinds), [s EXCEPT !.keyvals = Append(@, kv)])
  <2>1. Len(kinds) \in Nat
    OBVIOUS
  <2>2. s' = [s EXCEPT !.keyvals = Append(@, kv)] /\ pos' = pos + Len(kinds)
        /\ left' = left - 1 /\ UNCHANGED <<phase, flats>> /\ Global!InTable(5)
    BY <1>2 DEF Global!Consume, Global!ParseKeyval
  <2>3. pos' \in Nat
    BY <2>1, <2>2 DEF GlobalInv
  <2> HIDE DEF kv, kinds
  <2>4. /\ s'.keyvals = Append(s.keyvals, kv) /\ DOMAIN s' = DOMAIN s
        /\ s'.records = s.records /\ s'.strings = s.strings
        /\ s'.arrays = s.arrays /\ s'.globals = s.globals
    BY <2>2 DEF GlobalInv, SaveShape
  <2>5. /\ IsSeq(s'.keyvals) /\ Len(s.keyvals) \in Nat /\ Len(s'.keyvals) = Len(s.keyvals) + 1
        /\ \A i \in 1 .. Len(s.keyvals) : s'.keyvals[i] = s.keyvals[i]
        /\ s'.keyvals[Len(s.keyvals) + 1] = kv
    BY <2>4, SeqAppend DEF GlobalInv, SaveShape
  <2>6. SaveShape'
    BY <2>2, <2>4, <2>5 DEF GlobalInv, SaveShape
  <2>7. Checked'
    <3>1. Global!Typed(Global!version) =>
            \A i \in 1 .. Len(s'.keyvals) : Global!ValidValue(s'.keyvals[i].value, s'.keyvals[i].type)
      BY <1>2, <2>5 DEF GlobalInv, Checked
    <3> QED BY <2>4, <3>1, SameChecks DEF GlobalInv, Checked
  <2>8. \A u \in 1 .. 5 : Parsed(u)' = IF u = 5 THEN Parsed(u) + 1 ELSE Parsed(u)
    BY <2>4, <2>5 DEF Parsed
  <2> QED BY <2>2, <2>3, <2>6, <2>7, <2>8, EntryKeeps
<1> QED BY <1>1, <1>2 DEF Global!ParseKeyval, Global!AcceptIf

LEMMA ArrayKeeps ==
  ASSUME GlobalInv, file' = file, Global!ParseArray
  PROVE  GlobalInv'
<1> DEFINE r    == IF Global!Tok(1) > 0 THEN Global!Tok(1) ELSE 0
           dims == Global!Toks(2, r)
           n    == Global!Tok(r + 2)
           a    == [rank |-> Global!Tok(1), dims |-> dims, flats |-> <<>>]
<1>1. CASE Global!End("off")
  BY <1>1, EndKeeps DEF Global!End
<1>2. CASE phase' = "invalid" /\ UNCHANGED <<pos, left, flats, s>>
  BY <1>2, EndKeeps
<1>3. CASE /\ Global!Readable(Global!Kinds(1)) /\ Global!InTable(4)
           /\ s' = [s EXCEPT !.arrays = Append(@, a)]
           /\ left' = left - 1 /\ pos' = pos + r + 2 /\ UNCHANGED phase
  <2>1. r \in Nat
    BY <1>3, FirstIsInt
  <2>2. pos' \in Nat
    BY <1>3, <2>1 DEF GlobalInv
  <2>3. a.flats = <<>> /\ "flats" \in DOMAIN a /\ IsSeq(a.flats) /\ Len(a.flats) = 0
    BY DEF IsSeq
  <2> HIDE DEF a
  <2>4. /\ s'.arrays = Append(s.arrays, a) /\ DOMAIN s' = DOMAIN s
        /\ s'.records = s.records /\ s'.strings = s.strings
        /\ s'.keyvals = s.keyvals /\ s'.globals = s.globals
    BY <1>3 DEF GlobalInv, SaveShape
  <2>5. /\ IsSeq(s'.arrays) /\ Len(s.arrays) \in Nat /\ Len(s'.arrays) = Len(s.arrays) + 1
        /\ \A i \in 1 .. Len(s.arrays) : s'.arrays[i] = s.arrays[i]
        /\ s'.arrays[Len(s.arrays) + 1] = a
    BY <2>4, SeqAppend DEF GlobalInv, SaveShape
  <2>6. SaveShape'
    BY <2>3, <2>4, <2>5 DEF GlobalInv, SaveShape
  <2>7. Checked'
    <3>1. \A i \in 1 .. Len(s'.arrays) : \A j \in 1 .. Len(s'.arrays[i].flats) :
            FlatChecked(s'.arrays[i].flats[j])
      BY <2>3, <2>5 DEF GlobalInv, Checked
    <3> QED BY <2>4, <3>1, SameChecks DEF GlobalInv, Checked
  <2>8. \A u \in 1 .. 5 : Parsed(u)' = IF u = 4 THEN Parsed(u) + 1 ELSE Parsed(u)
    BY <2>4, <2>5 DEF Parsed
  <2> QED BY <1>3, <2>2, <2>6, <2>7, <2>8, EntryKeeps
<1> QED BY <1>1, <1>2, <1>3 DEF Global!ParseArray

\* The table under way keeps its entries.
LEMMA SameEntries ==
  ASSUME GlobalInv, UNCHANGED <<file, phase>>,
         (\E t \in 1 .. 5 : phase = Global!Table[t]) => left' = left,
         \A u \in 1 .. 5 : Parsed(u)' = Parsed(u)
  PROVE  phase = "idle" \/ Progress'
<1>1. \A u \in 1 .. 5 : Global!Count(u)' = Global!Count(u)
  BY DEF Global!Count
<1> QED BY <1>1 DEF GlobalInv, Progress

LEMMA FlatKeeps ==
  ASSUME GlobalInv, file' = file, Global!ParseFlat
  PROVE  GlobalInv'
<1> DEFINE a      == s.arrays[Len(s.arrays)]
           n      == Global!Tok(1)
           size   == IF Global!Typed(Global!version) THEN 1 + 2 * n ELSE 2 + n
           type   == IF Global!Typed(Global!version) THEN 0 ELSE Global!Tok(2)
           values == [i \in 1 .. n |-> IF Global!Typed(Global!version)
                                       THEN Global!Tok(2 * i) ELSE Global!Tok(2 + i)]
           types  == [i \in 1 .. n |-> IF Global!Typed(Global!version)
                                       THEN Global!Tok(1 + 2 * i) ELSE type]
           fa     == [type |-> type, types |-> types, values |-> values]
           more   == [a EXCEPT !.flats = Append(@, fa)]
<1>1. CASE Global!End("off") \/ Global!End("invalid")
  BY <1>1, EndKeeps DEF Global!End
<1>2. CASE /\ Global!Readable(Global!Kinds(1)) /\ ~(n < 0)
           /\ \A i \in 1 .. n : Global!ValidValue(values[i], types[i])
           /\ s' = [s EXCEPT !.arrays[Len(s.arrays)] = more]
           /\ flats' = flats - 1 /\ pos' = pos + size /\ UNCHANGED <<phase, left>>
  <2>1. n \in Nat
    <3>1. n \in Int
      BY <1>2, FirstIsInt
    <3> QED BY <1>2, <3>1
  <2>2. pos' \in Nat
    BY <1>2, <2>1 DEF GlobalInv
  <2>3. FlatChecked(fa)
    <3>1. Len(values) = n
      BY <2>1, SeqMade
    <3>2. fa.values = values /\ fa.types = types
      OBVIOUS
    <3> HIDE DEF values, types, fa
    <3> QED BY <1>2, <3>1, <3>2 DEF FlatChecked
  <2>4. flats # 0 /\ phase = "arrays"
    BY DEF Global!ParseFlat
  <2>5. Len(s.arrays) \in 1 .. Len(s.arrays)
    <3>1. Len(s.arrays) \in Nat
      BY SeqIs DEF GlobalInv, SaveShape, IsSeq
    <3> QED BY <2>4, <3>1 DEF GlobalInv, SaveShape
  <2>6. "flats" \in DOMAIN a /\ IsSeq(a.flats)
    BY <2>5 DEF GlobalInv, SaveShape
  <2> HIDE DEF n, fa
  <2>7. more.flats = Append(a.flats, fa) /\ "flats" \in DOMAIN more
    BY <2>6
  <2>8. /\ IsSeq(more.flats) /\ Len(a.flats) \in Nat /\ Len(more.flats) = Len(a.flats) + 1
        /\ \A j \in 1 .. Len(a.flats) : more.flats[j] = a.flats[j]
        /\ more.flats[Len(a.flats) + 1] = fa
    BY <2>6, <2>7, SeqAppend
  <2>9. \A j \in 1 .. Len(more.flats) : FlatChecked(more.flats[j])
    BY <2>3, <2>5, <2>8 DEF GlobalInv, Checked
  <2>10. /\ s'.arrays = [s.arrays EXCEPT ![Len(s.arrays)] = more] /\ DOMAIN s' = DOMAIN s
         /\ s'.records = s.records /\ s'.strings = s.strings
         /\ s'.keyvals = s.keyvals /\ s'.globals = s.globals
    <3> HIDE DEF more
    <3> QED BY <1>2 DEF GlobalInv, SaveShape
  <2> HIDE DEF more
  <2>11. /\ IsSeq(s'.arrays) /\ Len(s'.arrays) = Len(s.arrays)
         /\ \A i \in 1 .. Len(s.arrays) :
              s'.arrays[i] = IF i = Len(s.arrays) THEN more ELSE s.arrays[i]
    <3>1. s'.arrays = Replaced(s.arrays, Len(s.arrays), more)
      BY <2>10 DEF Replaced
    <3>2. IsSeq(s.arrays)
      BY DEF GlobalInv, SaveShape
    <3> QED BY <2>5, <3>1, <3>2, SeqReplace
  <2>12. SaveShape'
    <3>1. \A i \in 1 .. Len(s'.arrays) : IsSeq(s'.arrays[i].flats) /\ "flats" \in DOMAIN s'.arrays[i]
      BY <2>7, <2>8, <2>11 DEF GlobalInv, SaveShape
    <3>2. Len(s'.arrays) # 0
      BY <2>5, <2>11
    <3> QED BY <2>10, <2>11, <3>1, <3>2 DEF GlobalInv, SaveShape
  <2>13. Checked'
    <3>1. \A i \in 1 .. Len(s'.arrays) : \A j \in 1 .. Len(s'.arrays[i].flats) :
            FlatChecked(s'.arrays[i].flats[j])
      BY <2>9, <2>11 DEF GlobalInv, Checked
    <3> QED BY <2>10, <3>1, SameChecks DEF GlobalInv, Checked
  <2>14. \A u \in 1 .. 5 : Parsed(u)' = Parsed(u)
    BY <2>10, <2>11 DEF Parsed
  <2>15. Progress'
    BY <1>2, <2>4, <2>14, SameEntries
  <2> QED BY <2>2, <2>12, <2>13, <2>15 DEF GlobalInv
<1> QED BY <1>1, <1>2 DEF Global!ParseFlat

LEMMA DefKeeps ==
  ASSUME GlobalInv, file' = file, Global!ParseDef
  PROVE  GlobalInv'
<1> DEFINE n == Global!Tok(2)
           kinds == <<"str", "int">> \o [i \in 1 .. 2 * n |-> IF i % 2 = 1 THEN "int" ELSE "str"]
           d == [name |-> Global!Tok(1), fields |-> [i \in 1 .. n |-> Global!Tok(1 + 2 * i)]]
<1>1. CASE Global!End("off")
  BY <1>1, EndKeeps DEF Global!End
<1>2. CASE /\ Global!Readable(<<"str", "int">>) /\ ~(n < 0)
           /\ Global!Consume(Len(kinds), [s EXCEPT !.defs = Append(@, d)])
  <2>1. n \in Nat
    <3> DEFINE head == <<"str", "int">>
    <3>1. Len(head) \in Nat /\ 2 \in 1 .. Len(head) /\ head[2] = "int" /\ Global!Readable(head)
      BY <1>2
    <3> HIDE DEF head
    <3>2. n \in Int
      BY <3>1, TokIsInt
    <3> QED BY <1>2, <3>2
  <2> HIDE DEF n, d
  <2>2. Len(kinds) \in Nat
    <3>1. 2 * n \in Nat
      BY <2>1
    <3>2. [i \in 1 .. 2 * n |-> IF i % 2 = 1 THEN "int" ELSE "str"] \in Seq({"int", "str"})
      BY <3>1
    <3>3. <<"str", "int">> \in Seq({"int", "str"})
      OBVIOUS
    <3> DEFINE tail == [i \in 1 .. 2 * n |-> IF i % 2 = 1 THEN "int" ELSE "str"]
    <3> HIDE DEF tail
    <3>4. tail \in Seq({"int", "str"})
      BY <3>2 DEF tail
    <3>5. <<"str", "int">> \o tail \in Seq({"int", "str"})
      BY <3>3, <3>4, SeqJoin
    <3>6. kinds \in Seq({"int", "str"})
      BY <3>5 DEF tail
    <3> QED BY <3>6, SeqIs
  <2> HIDE DEF kinds
  <2>3. s' = [s EXCEPT !.defs = Append(@, d)] /\ pos' = pos + Len(kinds)
        /\ UNCHANGED <<phase, flats>> /\ phase = "defs"
    BY <1>2 DEF Global!Consume, Global!ParseDef, Global!InTable, Global!Table
  <2>4. pos' \in Nat
    BY <2>2, <2>3 DEF GlobalInv
  <2>5. /\ s'.records = s.records /\ DOMAIN s' = DOMAIN s
        /\ s'.strings = s.strings /\ s'.arrays = s.arrays
        /\ s'.keyvals = s.keyvals /\ s'.globals = s.globals
    BY <2>3 DEF GlobalInv, SaveShape
  <2>6. SaveShape'
    BY <2>3, <2>5 DEF GlobalInv, SaveShape
  <2>7. Checked'
    BY <2>5, SameChecks DEF GlobalInv, Checked
  <2>8. Progress'
    <3>1. \A u \in 1 .. 5 : phase # Global!Table[u]
      <4> SUFFICES ASSUME NEW u \in {1, 2, 3, 4, 5} PROVE phase # Global!Table[u]
        OBVIOUS
      <4> QED BY <2>3 DEF Global!Table
    <3>2. \A u \in 1 .. 5 : Parsed(u)' = Parsed(u)
      BY <2>5 DEF Parsed
    <3> QED BY <2>3, <3>1, <3>2, SameEntries
  <2> QED BY <2>4, <2>6, <2>7, <2>8 DEF GlobalInv
<1> QED BY <1>1, <1>2 DEF Global!ParseDef

LEMMA ParseKeeps ==
  ASSUME GlobalInv, Global!Parse
  PROVE  GlobalInv'
BY BeginKeeps, NextTableKeeps, RecordKeeps, GlobalKeeps, StringKeeps, ArrayKeeps, FlatKeeps,
   KeyvalKeeps, DefKeeps DEF Global!Parse

LEMMA DamageKeeps ==
  ASSUME GlobalInv, Global!Damage, DamageValues \subseteq Int
  PROVE  GlobalInv'
<1>1. PICK k \in 1 .. Len(file), v \in DamageValues : Global!DamageToken(k, v)
  BY DEF Global!Damage
<1>2. phase = "idle" /\ file' = [file EXCEPT ![k] = Global!I32(v)]
      /\ UNCHANGED <<phase, pos, flats, s>>
  BY <1>1 DEF Global!DamageToken, Global!Damage
<1>3. s = Global!Empty
  BY <1>2 DEF GlobalInv, Progress
<1>4. /\ IsSeq(file') /\ Len(file') = Len(file)
      /\ \A i \in 1 .. Len(file) : file'[i] = IF i = k THEN Global!I32(v) ELSE file[i]
  <2>1. file' = Replaced(file, k, Global!I32(v))
    BY <1>2 DEF Replaced
  <2>2. IsSeq(file)
    BY DEF GlobalInv, IsFile
  <2> QED BY <2>1, <2>2, SeqReplace
<1>5. IsFile(file') /\ HasHeader(file')
  <2>1. Global!I32(v).kind = "int" /\ Global!I32(v).v \in Int
    BY DEF Global!I32
  <2>2. Len(file) \in Nat
    BY SeqIs DEF GlobalInv, IsFile, IsSeq
  <2>3. \A i \in 1 .. Len(file) : file[i].kind = "int" => file'[i].kind = "int"
    BY <1>4, <2>1
  <2>4. \A i \in 1 .. Len(file') : file'[i].kind = "int" => file'[i].v \in Int
    BY <1>4, <2>1 DEF GlobalInv, IsFile
  <2>5. HasHeader(file')
    BY <1>4, <2>2, <2>3 DEF GlobalInv, HasHeader
  <2> QED BY <1>4, <2>4, <2>5 DEF IsFile
<1>6. SaveShape'
  BY <1>2 DEF GlobalInv, SaveShape
<1>7. Checked'
  BY <1>2, <1>3 DEF Checked, Global!Empty
<1>8. Progress'
  <2>1. \A u \in 1 .. 5 : phase # Global!Table[u]
    <3> SUFFICES ASSUME NEW u \in {1, 2, 3, 4, 5} PROVE phase # Global!Table[u]
      OBVIOUS
    <3> QED BY <1>2 DEF Global!Table
  <2> QED BY <1>2, <1>3, <2>1 DEF Progress
<1> QED BY <1>2, <1>5, <1>6, <1>7, <1>8 DEF GlobalInv

-----------------------------------------------------------------------------
(* The file of a save.                                                     *)
(* Every nonempty set of naturals has a least element.                     *)
Less == {p \in Nat \X Nat : p[1] < p[2]}

LEMMA LeastExists ==
  ASSUME NEW T \in SUBSET Nat, T # {}
  PROVE  \E x \in T : \A y \in T : x <= y
<1>1. IsWellFoundedOn(Less, Nat)
  <2>1. OpToRel(<, Nat) = Less
    BY Zenon DEF Less, OpToRel
  <2> QED BY <2>1, NatLessThanWellFounded
<1>2. PICK x \in T : \A y \in T : ~ (<<y, x>> \in Less)
  BY <1>1, WFMin
<1>3. \A y \in T : y \in Nat /\ ~ (y < x)
  <2> SUFFICES ASSUME NEW y \in T PROVE y \in Nat /\ ~ (y < x)
    OBVIOUS
  <2>1. <<y, x>> \in Nat \X Nat /\ <<y, x>>[1] = y /\ <<y, x>>[2] = x
    OBVIOUS
  <2> QED BY <1>2, <2>1 DEF Less
<1> QED BY <1>3

(* What holds of 0 and passes on from each number to the next holds of all.*)
LEMMA Counting ==
  ASSUME NEW P, P \subseteq Nat, 0 \in P, \A n \in P : n + 1 \in P
  PROVE  P = Nat
<1> SUFFICES ASSUME Nat \ P # {} PROVE FALSE
  OBVIOUS
<1>1. PICK m \in Nat \ P : \A k \in Nat \ P : m <= k
  <2>1. Nat \ P \in SUBSET Nat
    OBVIOUS
  <2> QED BY <2>1, LeastExists
<1>2. m # 0 /\ m - 1 \in Nat /\ ~ (m <= m - 1) /\ m - 1 + 1 = m
  OBVIOUS
<1>3. m - 1 \in P
  BY <1>1, <1>2
<1> QED BY <1>2, <1>3

Joined(f, g) == f \o g

\* One sequence after the other, as far as the i-th.
Joins(ss, f) == /\ f[1] = ss[1]
                /\ \A i \in 2 .. Len(ss) : f[i] = Joined(f[i - 1], ss[i])

LEMMA Flattened ==
  ASSUME NEW S, NEW ss \in Seq(Seq(S)), Len(ss) # 0
  PROVE  \E f \in [1 .. Len(ss) -> Seq(S)] : Joins(ss, f) /\ Global!FlattenSeq(ss) = f[Len(ss)]
<1> DEFINE N == Len(ss)
           J(m, f) == /\ f \in [1 .. m -> Seq(S)] /\ f[1] = ss[1]
                      /\ \A i \in 2 .. m : f[i] = Joined(f[i - 1], ss[i])
           P == {m \in Nat : m + 1 <= N => \E f : J(m + 1, f)}
<1>0. N \in Nat \ {0} /\ \A i \in 1 .. N : ss[i] \in Seq(S)
  OBVIOUS
<1>1. 0 \in P
  <2>1. J(1, [i \in 1 .. 1 |-> ss[1]])
    BY <1>0
  <2> HIDE DEF J
  <2> QED BY <2>1
<1>2. ASSUME NEW m \in P PROVE m + 1 \in P
  <2> SUFFICES ASSUME m + 1 + 1 <= N PROVE \E f : J(m + 1 + 1, f)
    <3> HIDE DEF J
    <3> QED BY <1>2
  <2>1. PICK f : J(m + 1, f)
    <3> HIDE DEF J
    <3> QED BY <1>0
  <2> DEFINE M == m + 1
             g == [i \in 1 .. M + 1 |-> IF i = M + 1 THEN Joined(f[M], ss[M + 1]) ELSE f[i]]
  <2>2. M \in Nat \ {0} /\ M + 1 \in 1 .. N
    BY <1>0
  <2>3. f[M] \in Seq(S) /\ ss[M + 1] \in Seq(S)
    BY <1>0, <2>1, <2>2
  <2>4. Joined(f[M], ss[M + 1]) \in Seq(S)
    BY <2>3, SeqJoin DEF Joined
  <2> HIDE DEF M
  <2>5. g \in [1 .. M + 1 -> Seq(S)]
    BY <2>1, <2>2, <2>4 DEF M
  <2>6. g[1] = ss[1]
    BY <2>1, <2>2
  <2>7. ASSUME NEW i \in 2 .. M + 1 PROVE g[i] = Joined(g[i - 1], ss[i])
    <3>1. i - 1 \in 1 .. M /\ i - 1 # M + 1 /\ i - 1 \in 1 .. M + 1 /\ i \in 1 .. M + 1
      BY <2>2
    <3>2. g[i - 1] = f[i - 1]
      BY <3>1
    <3>3. CASE i = M + 1
      <4>1. i - 1 = M
        BY <2>2, <3>3
      <4> QED BY <3>1, <3>2, <3>3, <4>1
    <3>4. CASE i # M + 1
      <4>1. i \in 2 .. M
        BY <2>2, <3>4
      <4>2. f[i] = Joined(f[i - 1], ss[i])
        BY <2>1, <4>1 DEF M
      <4> QED BY <3>1, <3>2, <3>4, <4>2
    <3> QED BY <3>3, <3>4
  <2> HIDE DEF g
  <2>8. J(M + 1, g)
    BY <2>5, <2>6, <2>7
  <2> HIDE DEF J
  <2> QED BY <2>8 DEF M
<1>3. \E f : J(N, f)
  <2>1. P \subseteq Nat
    OBVIOUS
  <2> HIDE DEF P, J
  <2>2. P = Nat
    BY <1>1, <1>2, <2>1, Counting
  <2>3. N - 1 \in P /\ N - 1 + 1 = N /\ N <= N
    BY <1>0, <2>2
  <2> QED BY <2>3 DEF P
<1> DEFINE Rule(f) == f = [i \in 1 .. N |-> IF i = 1 THEN ss[i] ELSE Joined(f[i - 1], ss[i])]
<1>4. \E f : Rule(f)
  <2>1. PICK f : J(N, f)
    BY <1>3
  <2>2. ASSUME NEW i \in 1 .. N PROVE f[i] = IF i = 1 THEN ss[i] ELSE Joined(f[i - 1], ss[i])
    BY <1>0, <2>1
  <2>3. f = [i \in 1 .. N |-> f[i]]
    BY <2>1
  <2>4. Rule(f)
    BY <2>2, <2>3
  <2> HIDE DEF Rule
  <2> QED BY <2>4
<1> DEFINE F == CHOOSE f : Rule(f)
<1>5. Rule(F)
  <2> HIDE DEF Rule
  <2> QED BY <1>4
<1>6. Global!FlattenSeq(ss) = F[N]
  BY <1>0 DEF Global!FlattenSeq, Joined
<1> HIDE DEF F
<1>7. F[1] = ss[1] /\ \A i \in 2 .. N : F[i] = Joined(F[i - 1], ss[i])
  <2>1. ASSUME NEW i \in 1 .. N PROVE F[i] = IF i = 1 THEN ss[i] ELSE Joined(F[i - 1], ss[i])
    BY <1>5
  <2>2. 1 \in 1 .. N /\ \A i \in 2 .. N : i \in 1 .. N /\ i # 1
    BY <1>0
  <2> QED BY <2>1, <2>2
<1>8. F \in [1 .. N -> Seq(S)]
  <2> DEFINE Q == {m \in Nat : m + 1 <= N => F[m + 1] \in Seq(S)}
  <2>1. 0 \in Q
    BY <1>0, <1>7
  <2>2. ASSUME NEW m \in Q PROVE m + 1 \in Q
    <3> SUFFICES ASSUME m + 1 + 1 <= N PROVE F[m + 1 + 1] \in Seq(S)
      OBVIOUS
    <3>1. m + 1 + 1 \in 2 .. N /\ m + 1 + 1 - 1 = m + 1 /\ m + 1 <= N /\ m + 1 + 1 \in 1 .. N
      BY <1>0
    <3>2. F[m + 1] \in Seq(S) /\ ss[m + 1 + 1] \in Seq(S)
      BY <1>0, <3>1
    <3>3. F[m + 1 + 1] = Joined(F[m + 1], ss[m + 1 + 1])
      BY <1>7, <3>1
    <3> QED BY <3>2, <3>3, SeqJoin DEF Joined
  <2>3. Q \subseteq Nat
    OBVIOUS
  <2> HIDE DEF Q
  <2>4. Q = Nat
    BY <2>1, <2>2, <2>3, Counting
  <2>5. ASSUME NEW i \in 1 .. N PROVE F[i] \in Seq(S)
    <3>1. i - 1 \in Nat /\ i - 1 + 1 = i /\ i <= N
      BY <1>0
    <3> QED BY <2>4, <3>1 DEF Q
  <2> QED BY <1>5, <2>5
<1> QED BY <1>6, <1>7, <1>8 DEF Joins

LEMMA FlattenTyped ==
  ASSUME NEW S, NEW ss \in Seq(Seq(S))
  PROVE  Global!FlattenSeq(ss) \in Seq(S)
<1>1. CASE Len(ss) = 0
  <2>1. ss = <<>> /\ <<>> \in Seq(S)
    BY <1>1
  <2> QED BY <1>1, <2>1 DEF Global!FlattenSeq
<1>2. CASE Len(ss) # 0
  <2>1. PICK f \in [1 .. Len(ss) -> Seq(S)] : Global!FlattenSeq(ss) = f[Len(ss)]
    BY <1>2, Flattened
  <2>2. Len(ss) \in 1 .. Len(ss)
    <3>1. Len(ss) \in Nat
      OBVIOUS
    <3> QED BY <1>2, <3>1
  <2> QED BY <2>1, <2>2
<1> QED BY <1>1, <1>2

\* The tokens of the files, and those of their integers.  (That "f", which
\* stands for the fields' names, is in STRING is more than the provers know.)
Ints   == [kind : {"int"}, v : Int]
Tokens == Ints \cup [kind : {"str"}, v : STRING \cup {"f"}]

LEMMA SeqOf ==
  ASSUME NEW S, NEW n \in Nat, NEW f, f = [i \in 1 .. n |-> f[i]], \A i \in 1 .. n : f[i] \in S
  PROVE  f \in Seq(S) /\ Len(f) = n
<1>1. f \in [1 .. n -> S]
  OBVIOUS
<1> QED BY <1>1

LEMMA TokenTyped ==
  /\ \A v \in Int : Global!I32(v) \in Ints /\ Global!I32(v) \in Tokens
  /\ \A v \in STRING : Global!Text(v) \in Tokens
  /\ Global!Text("f") \in Tokens
BY DEF Global!I32, Global!Text, Ints, Tokens

LEMMA Tuples ==
  ASSUME NEW S, NEW a \in S, NEW b \in S, NEW c \in S
  PROVE  /\ <<a>> \in Seq(S) /\ Len(<<a>>) = 1
         /\ <<a, b>> \in Seq(S) /\ Len(<<a, b>>) = 2
         /\ <<a, b, c>> \in Seq(S) /\ Len(<<a, b, c>>) = 3
OBVIOUS

LEMMA IntsTyped ==
  ASSUME NEW q \in Seq(Int)
  PROVE  Global!I32s(q) \in Seq(Tokens)
<1>1. Len(q) \in Nat /\ \A i \in 1 .. Len(q) : q[i] \in Int
  OBVIOUS
<1>2. \A i \in 1 .. Len(q) : Global!I32(q[i]) \in Tokens
  BY <1>1, TokenTyped
<1> DEFINE f == [i \in 1 .. Len(q) |-> Global!I32(q[i])]
<1>3. f = [i \in 1 .. Len(q) |-> f[i]] /\ \A i \in 1 .. Len(q) : f[i] \in Tokens
  BY <1>2
<1> HIDE DEF f
<1>4. f \in Seq(Tokens)
  BY <1>1, <1>3, SeqOf
<1> QED BY <1>4 DEF f, Global!I32s

\* Entry by entry.
LEMMA MapTyped ==
  ASSUME NEW S, NEW q, Len(q) \in Nat, NEW f, f = [i \in 1 .. Len(q) |-> f[i]],
         \A i \in 1 .. Len(q) : f[i] \in Seq(S)
  PROVE  Global!FlattenSeq(f) \in Seq(S)
BY SeqOf, FlattenTyped

LEMMA Join3 ==
  ASSUME NEW S, NEW f \in Seq(S), NEW g \in Seq(S), NEW h \in Seq(S)
  PROVE  f \o g \o h \in Seq(S)
<1>1. f \o g \in Seq(S)
  BY SeqJoin
<1> DEFINE fg == f \o g
<1> HIDE DEF fg
<1>2. fg \o h \in Seq(S)
  BY <1>1, SeqJoin DEF fg
<1> QED BY <1>2 DEF fg

LEMMA Join4 ==
  ASSUME NEW S, NEW f \in Seq(S), NEW g \in Seq(S), NEW h \in Seq(S), NEW k \in Seq(S)
  PROVE  f \o g \o h \o k \in Seq(S)
<1>1. f \o g \o h \in Seq(S)
  BY Join3
<1> DEFINE fgh == f \o g \o h
<1> HIDE DEF fgh
<1>2. fgh \o k \in Seq(S)
  BY <1>1, SeqJoin DEF fgh
<1> QED BY <1>2 DEF fgh

RecordType == [type : Int, name : STRING, index : Int, indices : Seq(Int)]
GlobalType == [type : Int, value : Int, name : STRING]
FlatType   == [type : Int, values : Seq(Int)]
ArrayType  == [rank : Int, dims : Seq(Int), flats : Seq(FlatType)]
DefType    == [name : STRING, fields : Seq(Int)]

LEMMA RecordTyped ==
  ASSUME NEW v, NEW r \in RecordType
  PROVE  Global!RecordTokens(v, r) \in Seq(Tokens)
<1> DEFINE a == IF Global!Typed(v) THEN <<Global!I32(r.type), Global!Text(r.name)>>
                ELSE <<Global!I32(r.index)>>
           b == <<Global!I32(Len(r.indices))>>
           c == Global!I32s(r.indices)
<1>1. r.type \in Int /\ r.name \in STRING /\ r.index \in Int /\ r.indices \in Seq(Int)
      /\ Len(r.indices) \in Int
  BY DEF RecordType
<1>2. a \in Seq(Tokens) /\ b \in Seq(Tokens)
  <2>1. /\ Global!I32(r.type) \in Tokens /\ Global!Text(r.name) \in Tokens
        /\ Global!I32(r.index) \in Tokens /\ Global!I32(Len(r.indices)) \in Tokens
    BY <1>1, TokenTyped
  <2> QED BY <2>1, Tuples, Zenon
<1>3. c \in Seq(Tokens)
  BY <1>1, IntsTyped
<1> HIDE DEF a, b, c
<1>4. a \o b \o c \in Seq(Tokens)
  BY <1>2, <1>3, Join3
<1> QED BY <1>4 DEF a, b, c, Global!RecordTokens

LEMMA GlobalTyped ==
  ASSUME NEW v, NEW g \in GlobalType
  PROVE  Global!GlobalTokens(v, g) \in Seq(Tokens) /\ Global!KeyvalTokens(v, g) \in Seq(Tokens)
<1> DEFINE a == <<Global!I32(g.type), Global!I32(g.value), Global!Text(g.name)>>
           b == IF Global!Typed(v) THEN <<Global!I32(1)>> ELSE <<>>
<1>1. g.type \in Int /\ g.value \in Int /\ g.name \in STRING /\ 1 \in Int
  BY DEF GlobalType
<1>2. /\ Global!I32(g.type) \in Tokens /\ Global!Text(g.name) \in Tokens
      /\ Global!I32(g.value) \in Tokens /\ Global!I32(1) \in Tokens
  BY <1>1, TokenTyped
<1>0. <<>> \in Seq(Tokens)
  OBVIOUS
<1>3. Global!KeyvalTokens(v, g) \in Seq(Tokens) /\ a \in Seq(Tokens) /\ b \in Seq(Tokens)
  BY <1>0, <1>2, Tuples, Zenon DEF Global!KeyvalTokens
<1> HIDE DEF a, b
<1>4. a \o b \in Seq(Tokens)
  BY <1>3, SeqJoin
<1> QED BY <1>3, <1>4 DEF a, b, Global!GlobalTokens

LEMMA FlatTyped ==
  ASSUME NEW v, NEW fa \in FlatType
  PROVE  Global!FlatTokens(v, fa) \in Seq(Tokens)
<1> DEFINE n == Len(fa.values)
           pairs == [i \in 1 .. n |-> <<Global!I32(fa.values[i]), Global!I32(fa.type)>>]
           b == Global!FlattenSeq(pairs)
           c == <<Global!I32(fa.type)>> \o Global!I32s(fa.values)
           a == <<Global!I32(n)>>
<1>1. fa.type \in Int /\ fa.values \in Seq(Int) /\ n \in Nat /\ \A i \in 1 .. n : fa.values[i] \in Int
  BY DEF FlatType
<1>2. a \in Seq(Tokens)
  BY <1>1, TokenTyped
<1>3. b \in Seq(Tokens)
  <2>1. ASSUME NEW i \in 1 .. n PROVE pairs[i] \in Seq(Tokens)
    BY <1>1, TokenTyped
  <2>2. pairs = [i \in 1 .. n |-> pairs[i]]
    OBVIOUS
  <2> HIDE DEF pairs
  <2> QED BY <1>1, <2>1, <2>2, MapTyped
<1>4. c \in Seq(Tokens)
  <2>1. <<Global!I32(fa.type)>> \in Seq(Tokens)
    BY <1>1, TokenTyped
  <2>2. Global!I32s(fa.values) \in Seq(Tokens)
    BY <1>1, IntsTyped
  <2> QED BY <2>1, <2>2, SeqJoin
<1> HIDE DEF a, b, c
<1>5. a \o (IF Global!Typed(v) THEN b ELSE c) \in Seq(Tokens)
  BY <1>2, <1>3, <1>4, SeqJoin
<1> QED BY <1>5 DEF a, b, c, Global!FlatTokens

LEMMA ArrayTyped ==
  ASSUME NEW v, NEW a \in ArrayType
  PROVE  Global!ArrayTokens(v, a) \in Seq(Tokens)
<1> DEFINE n == Len(a.flats)
           all == [i \in 1 .. n |-> Global!FlatTokens(v, a.flats[i])]
           f == <<Global!I32(a.rank)>>
           g == Global!I32s(a.dims)
           h == <<Global!I32(n)>>
           k == Global!FlattenSeq(all)
<1>1. a.rank \in Int /\ a.dims \in Seq(Int) /\ n \in Nat /\ \A i \in 1 .. n : a.flats[i] \in FlatType
  BY DEF ArrayType
<1>2. f \in Seq(Tokens) /\ h \in Seq(Tokens)
  BY <1>1, TokenTyped
<1>3. g \in Seq(Tokens)
  BY <1>1, IntsTyped
<1>4. k \in Seq(Tokens)
  <2>1. ASSUME NEW i \in 1 .. n PROVE all[i] \in Seq(Tokens)
    BY <1>1, FlatTyped
  <2>2. all = [i \in 1 .. n |-> all[i]]
    OBVIOUS
  <2> HIDE DEF all
  <2> QED BY <1>1, <2>1, <2>2, MapTyped
<1> HIDE DEF f, g, h, k
<1>5. f \o g \o h \o k \in Seq(Tokens)
  BY <1>2, <1>3, <1>4, Join4
<1> QED BY <1>5 DEF f, g, h, k, Global!ArrayTokens

LEMMA DefTyped ==
  ASSUME NEW d \in DefType
  PROVE  Global!DefTokens(d) \in Seq(Tokens)
<1> DEFINE n == Len(d.fields)
           all == [i \in 1 .. n |-> <<Global!I32(d.fields[i]), Global!Text("f")>>]
           a == <<Global!Text(d.name), Global!I32(n)>>
           b == Global!FlattenSeq(all)
<1>1. d.name \in STRING /\ n \in Nat /\ \A i \in 1 .. n : d.fields[i] \in Int
  BY DEF DefType
<1>2. a \in Seq(Tokens)
  <2>1. Global!Text(d.name) \in Tokens /\ Global!I32(n) \in Tokens
    <3>1. n \in Int
      BY <1>1
    <3> QED BY <1>1, <3>1, TokenTyped
  <2> QED BY <2>1, Tuples, Zenon
<1>3. b \in Seq(Tokens)
  <2>1. ASSUME NEW i \in 1 .. n PROVE all[i] \in Seq(Tokens)
    <3>1. Global!I32(d.fields[i]) \in Tokens /\ Global!Text("f") \in Tokens
      BY <1>1, TokenTyped
    <3> QED BY <3>1, Tuples
  <2>2. all = [i \in 1 .. n |-> all[i]]
    OBVIOUS
  <2> HIDE DEF all
  <2> QED BY <1>1, <2>1, <2>2, MapTyped
<1> HIDE DEF a, b
<1>4. a \o b \in Seq(Tokens)
  BY <1>2, <1>3, SeqJoin
<1> QED BY <1>4 DEF a, b, Global!DefTokens

LEMMA FiveOf ==
  ASSUME NEW S, NEW a \in S, NEW b \in S, NEW c \in S, NEW d \in S, NEW e \in S, NEW t \in 1 .. 5
  PROVE  <<a, b, c, d, e>>[t] \in S
<1> SUFFICES ASSUME NEW u \in {1, 2, 3, 4, 5} PROVE <<a, b, c, d, e>>[u] \in S
  OBVIOUS
<1> QED OBVIOUS

\* The tables of a save.
LEMMA TablesTyped ==
  ASSUME NEW x \in GlobalSave, NEW t \in 1 .. 5
  PROVE  Global!TableTokens(x)[t] \in Seq(Tokens)
<1> DEFINE v  == x.version
           rs == [i \in 1 .. Len(x.records) |-> Global!RecordTokens(v, x.records[i])]
           gs == [i \in 1 .. Len(x.globals) |-> Global!GlobalTokens(v, x.globals[i])]
           ss == [i \in 1 .. Len(x.strings) |-> Global!Text(x.strings[i])]
           as == [i \in 1 .. Len(x.arrays) |-> Global!ArrayTokens(v, x.arrays[i])]
           ks == [i \in 1 .. Len(x.keyvals) |-> Global!KeyvalTokens(v, x.keyvals[i])]
<1>1. /\ x.records \in Seq(RecordType) /\ x.globals \in Seq(GlobalType) /\ x.strings \in Seq(STRING)
      /\ x.arrays \in Seq(ArrayType) /\ x.keyvals \in Seq(GlobalType)
  BY DEF GlobalSave, RecordType, GlobalType, ArrayType, FlatType
<1>2. Global!FlattenSeq(rs) \in Seq(Tokens)
  <2>1. Len(x.records) \in Nat /\ \A i \in 1 .. Len(x.records) : rs[i] \in Seq(Tokens)
    BY <1>1, RecordTyped
  <2>2. rs = [i \in 1 .. Len(x.records) |-> rs[i]]
    OBVIOUS
  <2> HIDE DEF rs
  <2> QED BY <2>1, <2>2, MapTyped
<1>3. Global!FlattenSeq(gs) \in Seq(Tokens)
  <2>1. Len(x.globals) \in Nat /\ \A i \in 1 .. Len(x.globals) : gs[i] \in Seq(Tokens)
    BY <1>1, GlobalTyped
  <2>2. gs = [i \in 1 .. Len(x.globals) |-> gs[i]]
    OBVIOUS
  <2> HIDE DEF gs
  <2> QED BY <2>1, <2>2, MapTyped
<1>4. ss \in Seq(Tokens)
  <2>1. Len(x.strings) \in Nat /\ \A i \in 1 .. Len(x.strings) : ss[i] \in Tokens
    <3>1. Len(x.strings) \in Nat /\ \A i \in 1 .. Len(x.strings) : x.strings[i] \in STRING
      BY <1>1
    <3>2. \A i \in 1 .. Len(x.strings) : Global!Text(x.strings[i]) \in Tokens
      BY <3>1, TokenTyped, Zenon
    <3> QED BY <3>1, <3>2
  <2>2. ss = [i \in 1 .. Len(x.strings) |-> ss[i]]
    OBVIOUS
  <2> HIDE DEF ss
  <2> QED BY <2>1, <2>2, SeqOf
<1>5. Global!FlattenSeq(as) \in Seq(Tokens)
  <2>1. Len(x.arrays) \in Nat /\ \A i \in 1 .. Len(x.arrays) : as[i] \in Seq(Tokens)
    BY <1>1, ArrayTyped
  <2>2. as = [i \in 1 .. Len(x.arrays) |-> as[i]]
    OBVIOUS
  <2> HIDE DEF as
  <2> QED BY <2>1, <2>2, MapTyped
<1>6. Global!FlattenSeq(ks) \in Seq(Tokens)
  <2>1. Len(x.keyvals) \in Nat /\ \A i \in 1 .. Len(x.keyvals) : ks[i] \in Seq(Tokens)
    BY <1>1, GlobalTyped
  <2>2. ks = [i \in 1 .. Len(x.keyvals) |-> ks[i]]
    OBVIOUS
  <2> HIDE DEF ks
  <2> QED BY <2>1, <2>2, MapTyped
<1>7. Global!TableTokens(x) =
        <<Global!FlattenSeq(rs), Global!FlattenSeq(gs), ss, Global!FlattenSeq(as), Global!FlattenSeq(ks)>>
  BY DEF Global!TableTokens, Global!Map
<1> HIDE DEF rs, gs, ss, as, ks
<1> QED BY <1>2, <1>3, <1>4, <1>5, <1>6, <1>7, FiveOf

\* The header is of eleven integers.
LEMMA HeaderTyped ==
  ASSUME NEW head, head = [t \in 1 .. 5 |-> head[t]], \A t \in 1 .. 5 : head[t] \in Seq(Ints) /\ Len(head[t]) = 2
  PROVE  Global!FlattenSeq(head) \in Seq(Ints) /\ Len(Global!FlattenSeq(head)) = 10
<1>1. head \in Seq(Seq(Ints)) /\ Len(head) = 5
  BY SeqOf
<1>2. PICK f \in [1 .. 5 -> Seq(Ints)] : Joins(head, f) /\ Global!FlattenSeq(head) = f[5]
  <2>1. \E f \in [1 .. Len(head) -> Seq(Ints)] : Joins(head, f) /\ Global!FlattenSeq(head) = f[Len(head)]
    <3>1. Len(head) # 0
      BY <1>1
    <3> QED BY <1>1, <3>1, Flattened, Zenon
  <2> QED BY <1>1, <2>1
<1>3. f[1] = head[1] /\ \A i \in 2 .. 5 : f[i] = Joined(f[i - 1], head[i])
  BY <1>1, <1>2 DEF Joins
<1>4. ASSUME NEW i \in 2 .. 5 PROVE Len(f[i]) = Len(f[i - 1]) + 2
  <2>1. i \in 1 .. 5 /\ i - 1 \in 1 .. 5
    OBVIOUS
  <2>2. f[i - 1] \in Seq(Ints) /\ head[i] \in Seq(Ints) /\ Len(head[i]) = 2
    BY <2>1
  <2>3. f[i] = Joined(f[i - 1], head[i])
    BY <1>3
  <2>4. Len(Joined(f[i - 1], head[i])) = Len(f[i - 1]) + Len(head[i])
    BY <2>2, SeqJoin DEF Joined
  <2> QED BY <2>2, <2>3, <2>4
<1>5. Len(f[1]) = 2 /\ Len(f[2]) = 4 /\ Len(f[3]) = 6 /\ Len(f[4]) = 8 /\ Len(f[5]) = 10
  <2>1. Len(f[1]) = 2
    BY <1>3
  <2>2. Len(f[2]) = Len(f[1]) + 2
    <3>1. 2 \in 2 .. 5 /\ 2 - 1 = 1
      OBVIOUS
    <3> QED BY <1>4, <3>1
  <2>3. Len(f[3]) = Len(f[2]) + 2
    <3>1. 3 \in 2 .. 5 /\ 3 - 1 = 2
      OBVIOUS
    <3> QED BY <1>4, <3>1
  <2>4. Len(f[4]) = Len(f[3]) + 2
    <3>1. 4 \in 2 .. 5 /\ 4 - 1 = 3
      OBVIOUS
    <3> QED BY <1>4, <3>1
  <2>5. Len(f[5]) = Len(f[4]) + 2
    <3>1. 5 \in 2 .. 5 /\ 5 - 1 = 4
      OBVIOUS
    <3> QED BY <1>4, <3>1
  <2> QED BY <2>1, <2>2, <2>3, <2>4, <2>5
<1> QED BY <1>2, <1>5

LEMMA OffsetsTyped ==
  ASSUME NEW x \in GlobalSave, NEW offset,
         offset = CHOOSE f : f = [t \in 1 .. 5 |-> IF t = 1 THEN Global!HeaderSize
                                  ELSE f[t - 1] + Len(Global!TableTokens(x)[t - 1])]
  PROVE  \A t \in 1 .. 5 : offset[t] \in Int
<1> DEFINE L(t) == Len(Global!TableTokens(x)[t])
           Rule(f) == f = [t \in 1 .. 5 |-> IF t = 1 THEN Global!HeaderSize ELSE f[t - 1] + L(t - 1)]
           f2 == 11 + L(1)
           f3 == f2 + L(2)
           f4 == f3 + L(3)
           f5 == f4 + L(4)
           g == [t \in 1 .. 5 |-> IF t = 1 THEN 11 ELSE IF t = 2 THEN f2 ELSE IF t = 3 THEN f3
                                  ELSE IF t = 4 THEN f4 ELSE f5]
<1>1. \A t \in 1 .. 5 : L(t) \in Nat
  BY TablesTyped
<1>2. Rule(g)
  <2>1. g[1] = 11 /\ g[2] = f2 /\ g[3] = f3 /\ g[4] = f4 /\ g[5] = f5
    OBVIOUS
  <2>2. ASSUME NEW t \in {1, 2, 3, 4, 5}
        PROVE  g[t] = IF t = 1 THEN Global!HeaderSize ELSE g[t - 1] + L(t - 1)
    <3> HIDE DEF g, L
    <3>1. 2 - 1 = 1 /\ 3 - 1 = 2 /\ 4 - 1 = 3 /\ 5 - 1 = 4
      OBVIOUS
    <3> QED BY <2>1, <3>1 DEF Global!HeaderSize
  <2>3. g = [t \in 1 .. 5 |-> g[t]]
    OBVIOUS
  <2>4. \A t \in 1 .. 5 : g[t] = IF t = 1 THEN Global!HeaderSize ELSE g[t - 1] + L(t - 1)
    <3> HIDE DEF g, L
    <3> SUFFICES ASSUME NEW t \in 1 .. 5
                 PROVE  g[t] = IF t = 1 THEN Global!HeaderSize ELSE g[t - 1] + L(t - 1)
      OBVIOUS
    <3>1. t \in {1, 2, 3, 4, 5}
      OBVIOUS
    <3> QED BY <2>2, <3>1
  <2> HIDE DEF g, L
  <2> QED BY <2>3, <2>4
<1>3. Rule(offset)
  <2>1. offset = CHOOSE f : Rule(f)
    OBVIOUS
  <2> HIDE DEF Rule, g
  <2> QED BY <1>2, <2>1
<1> HIDE DEF g, L
<1>4. \A t \in 1 .. 5 : offset[t] = IF t = 1 THEN Global!HeaderSize ELSE offset[t - 1] + L(t - 1)
  <2> SUFFICES ASSUME NEW t \in 1 .. 5
               PROVE  offset[t] = IF t = 1 THEN Global!HeaderSize ELSE offset[t - 1] + L(t - 1)
    OBVIOUS
  <2> QED BY <1>3
<1> HIDE DEF Rule
<1>5. L(1) \in Int /\ L(2) \in Int /\ L(3) \in Int /\ L(4) \in Int /\ 1 \in 1 .. 5
      /\ 2 \in 1 .. 5 /\ 3 \in 1 .. 5 /\ 4 \in 1 .. 5 /\ 5 \in 1 .. 5
  BY <1>1
<1>6. offset[1] = 11 /\ offset[2] = offset[1] + L(1) /\ offset[3] = offset[2] + L(2)
      /\ offset[4] = offset[3] + L(3) /\ offset[5] = offset[4] + L(4)
  <2>1. 2 - 1 = 1 /\ 3 - 1 = 2 /\ 4 - 1 = 3 /\ 5 - 1 = 4
    OBVIOUS
  <2> QED BY <1>4, <1>5, <2>1 DEF Global!HeaderSize
<1>7. offset[1] \in Int /\ offset[2] \in Int /\ offset[3] \in Int /\ offset[4] \in Int /\ offset[5] \in Int
  <2>1. ASSUME NEW a \in Int, NEW b \in Int PROVE a + b \in Int
    OBVIOUS
  <2>2. offset[1] \in Int
    BY <1>6
  <2>3. offset[2] \in Int
    BY <1>5, <1>6, <2>1, <2>2
  <2>4. offset[3] \in Int
    BY <1>5, <1>6, <2>1, <2>3
  <2>5. offset[4] \in Int
    BY <1>5, <1>6, <2>1, <2>4
  <2>6. offset[5] \in Int
    BY <1>5, <1>6, <2>1, <2>5
  <2> QED BY <2>2, <2>3, <2>4, <2>5, <2>6
<1> SUFFICES ASSUME NEW t \in {1, 2, 3, 4, 5} PROVE offset[t] \in Int
  OBVIOUS
<1> QED BY <1>7

LEMMA JoinedIs ==
  ASSUME NEW S, NEW f \in Seq(S), NEW g \in Seq(S)
  PROVE  /\ Joined(f, g) \in Seq(S) /\ Len(Joined(f, g)) = Len(f) + Len(g)
         /\ \A k \in 1 .. Len(f) : Joined(f, g)[k] = f[k]
BY DEF Joined

LEMMA ElementOf ==
  ASSUME NEW S, NEW f \in Seq(S), NEW k \in 1 .. Len(f)
  PROVE  f[k] \in S
OBVIOUS

\* A header that is longer by what follows it.
LEMMA HeaderGrows ==
  ASSUME NEW f \in Seq(Tokens), NEW g \in Seq(Tokens), HasHeader(f)
  PROVE  Joined(f, g) \in Seq(Tokens) /\ HasHeader(Joined(f, g))
<1> DEFINE h == Joined(f, g)
<1>1. /\ h \in Seq(Tokens) /\ Len(h) = Len(f) + Len(g)
      /\ \A k \in 1 .. Len(f) : h[k] = f[k]
  BY JoinedIs, Zenon
<1> HIDE DEF h
<1>2. Len(f) \in Nat /\ Len(g) \in Nat
  OBVIOUS
<1>3. Len(h) >= 11 /\ \A k \in 1 .. 11 : k \in 1 .. Len(f)
  BY <1>1, <1>2 DEF HasHeader
<1>4. HasHeader(h)
  BY <1>1, <1>3 DEF HasHeader
<1> QED BY <1>1, <1>4 DEF h

LEMMA HeaderFirst ==
  ASSUME NEW a \in Seq(Ints), NEW b \in Seq(Ints), Len(a) = 1, Len(b) = 10,
         NEW c \in Seq(Tokens), NEW d \in Seq(Tokens)
  PROVE  IsFile(a \o b \o c \o d) /\ HasHeader(a \o b \o c \o d)
<1> DEFINE ab == Joined(a, b)
           f  == Joined(Joined(ab, c), d)
<1>1. ab \in Seq(Ints) /\ Len(ab) = Len(a) + Len(b)
  BY JoinedIs, Zenon
<1> HIDE DEF ab
<1>2. ab \in Seq(Tokens)
  BY <1>1 DEF Tokens
<1>3. HasHeader(ab)
  <2>1. Len(ab) = 11
    BY <1>1
  <2>2. ASSUME NEW k \in 1 .. 11 PROVE ab[k] \in Ints
    BY <1>1, <2>1, ElementOf
  <2>3. \A k \in 1 .. 11 : ab[k].kind = "int"
    BY <2>2 DEF Ints
  <2> QED BY <2>1, <2>3 DEF HasHeader
<1>4. f \in Seq(Tokens) /\ HasHeader(f)
  BY <1>2, <1>3, HeaderGrows
<1> HIDE DEF f
<1>5. ASSUME NEW k \in 1 .. Len(f), f[k].kind = "int" PROVE f[k].v \in Int
  <2>1. f[k] \in Tokens
    BY <1>4, ElementOf
  <2> QED BY <1>5, <2>1 DEF Tokens, Ints
<1>6. IsFile(f)
  BY <1>4, <1>5, SeqIs DEF IsFile
<1> QED BY <1>4, <1>6 DEF ab, f, Joined

LEMMA FileTyped ==
  ASSUME NEW x \in GlobalSave
  PROVE  IsFile(Global!FileOf(x)) /\ HasHeader(Global!FileOf(x))
<1> DEFINE tables == Global!TableTokens(x)
           counts == <<Len(x.records), Len(x.globals), Len(x.strings), Len(x.arrays), Len(x.keyvals)>>
           offset == CHOOSE f : f = [t \in 1 .. 5 |-> IF t = 1 THEN Global!HeaderSize
                                     ELSE f[t - 1] + Len(tables[t - 1])]
           head == [t \in 1 .. 5 |-> <<Global!I32(offset[t]), Global!I32(counts[t])>>]
           defs == [i \in 1 .. Len(x.defs) |-> Global!DefTokens(x.defs[i])]
           a == <<Global!I32(x.version)>>
           b == Global!FlattenSeq(head)
           c == Global!FlattenSeq(tables)
           d == IF Global!Typed(x.version) THEN <<>>
                ELSE <<Global!I32(Len(x.defs))>> \o Global!FlattenSeq(defs)
<1>1. a \in Seq(Ints) /\ Len(a) = 1
  <2>1. Global!I32(x.version) \in Ints
    BY TokenTyped DEF GlobalSave
  <2> QED BY <2>1, Tuples
<1>2. b \in Seq(Ints) /\ Len(b) = 10
  <2>1. \A t \in 1 .. 5 : offset[t] \in Int
    BY OffsetsTyped
  <2>2. \A t \in 1 .. 5 : counts[t] \in Int
    <3>1. /\ Len(x.records) \in Int /\ Len(x.globals) \in Int /\ Len(x.strings) \in Int
          /\ Len(x.arrays) \in Int /\ Len(x.keyvals) \in Int
      BY DEF GlobalSave
    <3> QED BY <3>1, FiveOf
  <2> HIDE DEF offset, counts
  <2>3. ASSUME NEW t \in 1 .. 5 PROVE head[t] \in Seq(Ints) /\ Len(head[t]) = 2
    <3>1. Global!I32(offset[t]) \in Ints /\ Global!I32(counts[t]) \in Ints
      BY <2>1, <2>2, TokenTyped
    <3> QED BY <3>1, Tuples
  <2>4. head = [t \in 1 .. 5 |-> head[t]]
    OBVIOUS
  <2> HIDE DEF head
  <2> QED BY <2>3, <2>4, HeaderTyped
<1>3. c \in Seq(Tokens)
  <2>1. Len(tables) = 5 /\ tables = [t \in 1 .. 5 |-> tables[t]]
    BY DEF Global!TableTokens
  <2>2. \A t \in 1 .. 5 : tables[t] \in Seq(Tokens)
    BY TablesTyped
  <2> HIDE DEF tables
  <2>3. tables \in Seq(Seq(Tokens))
    BY <2>1, <2>2, SeqOf
  <2> QED BY <2>3, FlattenTyped
<1>4. d \in Seq(Tokens)
  <2>1. x.defs \in Seq(DefType) /\ Len(x.defs) \in Nat
    BY DEF GlobalSave, DefType
  <2>2. Global!FlattenSeq(defs) \in Seq(Tokens)
    <3>1. ASSUME NEW i \in 1 .. Len(x.defs) PROVE defs[i] \in Seq(Tokens)
      BY <2>1, DefTyped
    <3>2. defs = [i \in 1 .. Len(x.defs) |-> defs[i]]
      OBVIOUS
    <3> HIDE DEF defs
    <3> QED BY <2>1, <3>1, <3>2, MapTyped
  <2> HIDE DEF defs
  <2>3. <<Global!I32(Len(x.defs))>> \in Seq(Tokens)
    <3>1. Len(x.defs) \in Int
      BY <2>1
    <3>2. Global!I32(Len(x.defs)) \in Tokens
      BY <3>1, TokenTyped
    <3> QED BY <3>2, Tuples
  <2>4. <<Global!I32(Len(x.defs))>> \o Global!FlattenSeq(defs) \in Seq(Tokens)
    BY <2>2, <2>3, SeqJoin
  <2>5. <<>> \in Seq(Tokens)
    OBVIOUS
  <2> QED BY <2>4, <2>5, Zenon
<1>5. Global!FileOf(x) = a \o b \o c \o d
  BY DEF Global!FileOf, Global!Map
<1> HIDE DEF a, b, c, d
<1> QED BY <1>1, <1>2, <1>3, <1>4, <1>5, HeaderFirst
-----------------------------------------------------------------------------
(* The parser's invariant, and the theorem.                                *)
Closing == format = "gsave" => GlobalInv

LEMMA InitIsClosing ==
  ASSUME Init
  PROVE  Closing
<1> SUFFICES ASSUME format = "gsave" PROVE GlobalInv
  BY DEF Closing
<1>1. Global!Init
  BY DEF Init
<1>2. IsFile(file) /\ HasHeader(file)
  BY <1>1, SavesAssumption, FileTyped DEF Global!Init, SavesAssumption
<1>3. phase = "idle" /\ s = Global!Empty /\ pos \in Nat /\ flats = 0
  BY <1>1 DEF Global!Init, Global!HeaderSize
<1>4. Progress
  <2>1. \A u \in 1 .. 5 : phase # Global!Table[u]
    <3> SUFFICES ASSUME NEW u \in {1, 2, 3, 4, 5} PROVE phase # Global!Table[u]
      OBVIOUS
    <3> QED BY <1>3 DEF Global!Table
  <2> QED BY <1>3, <2>1 DEF Progress
<1>5. SaveShape
  <2>1. IsSeq(<<>>) /\ Len(<<>>) = 0
    BY DEF IsSeq
  <2> QED BY <1>3, <2>1 DEF SaveShape, Global!Empty
<1>6. Checked
  BY <1>3 DEF Checked, Global!Empty
<1> QED BY <1>2, <1>3, <1>4, <1>5, <1>6 DEF GlobalInv

LEMMA NextIsClosing ==
  ASSUME Closing, [Next]_vars
  PROVE  Closing'
<1> SUFFICES ASSUME format = "gsave", format' = format, GlobalInv PROVE GlobalInv'
  BY DEF Closing, Next, vars
<1>1. CASE Global!Parse
  BY <1>1, ParseKeeps
<1>2. CASE Global!Damage
  BY <1>2, DamageKeeps, SavesAssumption DEF SavesAssumption
<1>3. CASE UNCHANGED vars
  <2>1. Progress'
    BY <1>3 DEF vars, GlobalInv, Progress, Parsed, Global!Count
  <2> QED BY <1>3, <2>1, SameSave DEF vars, GlobalInv
<1> QED BY <1>1, <1>2, <1>3 DEF Next, Global!Next

(* Whatever the damage to the file, every reference that gsave_parse checks*)
(* in a global save it accepts is to a record, variable, string, array or  *)
(* key-value of that save: the checks against the counts of the header are *)
(* as good as checks against what was read, because a save is accepted when*)
(* each table is complete.  The structures of records and the values of    *)
(* key-values of version 7 are not checked.                                *)
THEOREM AcceptedSavesAreClosed == Spec => []AcceptedIsClosed
<1>1. Closing => AcceptedIsClosed
  BY ClosedAtEnd DEF Closing, AcceptedIsClosed
<1> QED BY <1>1, InitIsClosing, NextIsClosing, PTL DEF Spec
-----------------------------------------------------------------------------
(* The tokens of resume saves.                                             *)
RTokens == [kind : {"int"}, v : Int] \cup [kind : {"str"}, v : STRING]
           \cup [kind : {"bytes"}, v : Seq(Int)]

Flat(ss) == Resume!FlattenSeq(ss)

LEMMA FlatIs ==
  ASSUME NEW ss
  PROVE  Flat(ss) = Global!FlattenSeq(ss)
BY Zenon DEF Flat, Resume!FlattenSeq, Global!FlattenSeq

LEMMA FlatEmpty == Flat(<<>>) = <<>>
<1>1. Len(<<>>) = 0
  OBVIOUS
<1> QED BY <1>1, Zenon DEF Flat, Resume!FlattenSeq

LEMMA FlatInSeq ==
  ASSUME NEW S, NEW ss \in Seq(Seq(S))
  PROVE  Flat(ss) \in Seq(S)
<1>1. Global!FlattenSeq(ss) \in Seq(S)
  BY FlattenTyped
<1> QED BY <1>1, FlatIs

LEMMA FlatAppend ==
  ASSUME NEW S, NEW ss \in Seq(Seq(S)), NEW t \in Seq(S)
  PROVE  Flat(Append(ss, t)) = Joined(Flat(ss), t)
<1> DEFINE N == Len(ss)
           tt == Append(ss, t)
<1>1. tt \in Seq(Seq(S)) /\ N \in Nat /\ Len(tt) = N + 1 /\ tt[N + 1] = t
      /\ \A i \in 1 .. N : tt[i] = ss[i]
  OBVIOUS
<1> HIDE DEF tt
<1>2. PICK g \in [1 .. N + 1 -> Seq(S)] : Joins(tt, g) /\ Flat(tt) = g[N + 1]
  BY <1>1, Flattened, FlatIs
<1>3. g[1] = tt[1] /\ \A i \in 2 .. N + 1 : g[i] = Joined(g[i - 1], tt[i])
  BY <1>1, <1>2 DEF Joins
<1>4. CASE N = 0
  <2>1. ss = <<>> /\ Flat(ss) = <<>>
    <3>1. ss = <<>>
      BY <1>4
    <3> QED BY <3>1, FlatEmpty
  <2>2. Flat(tt) = t
    BY <1>1, <1>2, <1>3, <1>4
  <2>3. Joined(<<>>, t) = t
    BY DEF Joined
  <2> QED BY <2>1, <2>2, <2>3 DEF tt
<1>5. CASE N # 0
  <2>1. PICK f \in [1 .. N -> Seq(S)] : Joins(ss, f) /\ Flat(ss) = f[N]
    BY <1>5, Flattened, FlatIs
  <2>2. f[1] = ss[1] /\ \A i \in 2 .. N : f[i] = Joined(f[i - 1], ss[i])
    BY <2>1 DEF Joins
  <2> DEFINE P == {m \in Nat : m + 1 <= N => f[m + 1] = g[m + 1]}
  <2>3. 0 \in P
    BY <1>1, <1>3, <1>5, <2>2
  <2>4. ASSUME NEW m \in P PROVE m + 1 \in P
    <3> SUFFICES ASSUME m + 1 + 1 <= N PROVE f[m + 1 + 1] = g[m + 1 + 1]
      OBVIOUS
    <3>1. /\ m + 1 + 1 \in 2 .. N /\ m + 1 + 1 \in 2 .. N + 1 /\ m + 1 + 1 - 1 = m + 1
          /\ m + 1 <= N /\ m + 1 + 1 \in 1 .. N
      BY <1>1
    <3>2. f[m + 1] = g[m + 1] /\ tt[m + 1 + 1] = ss[m + 1 + 1]
      BY <1>1, <3>1
    <3> QED BY <1>3, <2>2, <3>1, <3>2
  <2>5. P \subseteq Nat
    OBVIOUS
  <2> HIDE DEF P
  <2>6. P = Nat
    BY <2>3, <2>4, <2>5, Counting
  <2>7. f[N] = g[N]
    <3>1. N - 1 \in Nat /\ N - 1 + 1 = N /\ N <= N
      BY <1>1, <1>5
    <3> QED BY <2>6, <3>1 DEF P
  <2>8. N + 1 \in 2 .. N + 1 /\ N + 1 - 1 = N
    BY <1>1, <1>5
  <2>9. Flat(tt) = Joined(g[N], t)
    <3>1. ASSUME NEW i \in 2 .. N + 1 PROVE g[i] = Joined(g[i - 1], tt[i])
      BY <1>3
    <3>2. g[N + 1] = Joined(g[(N + 1) - 1], tt[N + 1])
      BY <2>8, <3>1
    <3>3. (N + 1) - 1 = N
      BY <1>1
    <3> QED BY <1>1, <1>2, <3>2, <3>3
  <2> QED BY <2>1, <2>7, <2>9 DEF tt
<1> QED BY <1>4, <1>5

LEMMA JoinedAssoc ==
  ASSUME NEW S, NEW a \in Seq(S), NEW b \in Seq(S), NEW c \in Seq(S)
  PROVE  Joined(Joined(a, b), c) = Joined(a, Joined(b, c))
BY ConcatAssociative DEF Joined

LEMMA JoinedAt ==
  ASSUME NEW S, NEW a \in Seq(S), NEW b \in Seq(S)
  PROVE  /\ Joined(a, b) \in Seq(S) /\ Len(Joined(a, b)) = Len(a) + Len(b)
         /\ \A k \in 1 .. Len(a) + Len(b) :
              Joined(a, b)[k] = IF k <= Len(a) THEN a[k] ELSE b[k - Len(a)]
BY ConcatProperties, Zenon DEF Joined

LEMMA JoinedNone ==
  ASSUME NEW S, NEW a \in Seq(S)
  PROVE  Joined(a, <<>>) = a /\ Joined(<<>>, a) = a /\ <<>> \in Seq(S)
BY DEF Joined

LEMMA JoinedTyped ==
  ASSUME NEW S, NEW a \in Seq(S), NEW b \in Seq(S)
  PROVE  Joined(a, b) \in Seq(S)
BY DEF Joined

\* The tokens read so far, and those read next.
ReadOf(f, p) == [k \in 1 .. p |-> f[k]]

Follows(f, p, t) == p + Len(t) <= Len(f) /\ \A k \in 1 .. Len(t) : f[p + k] = t[k]

LEMMA ReadMore ==
  ASSUME NEW S, NEW f \in Seq(S), NEW p \in Nat, NEW t \in Seq(S), Follows(f, p, t)
  PROVE  ReadOf(f, p + Len(t)) = Joined(ReadOf(f, p), t)
<1> DEFINE a == ReadOf(f, p)
           b == ReadOf(f, p + Len(t))
           c == Joined(a, t)
<1>1. Len(t) \in Nat /\ Len(f) \in Nat
  OBVIOUS
<1>2. a = [k \in 1 .. p |-> a[k]] /\ \A k \in 1 .. p : a[k] = f[k] /\ a[k] \in S
  BY <1>1 DEF ReadOf, Follows
<1> DEFINE n == p + Len(t)
<1>0. n \in Nat
  BY <1>1
<1>3. b = [k \in 1 .. n |-> b[k]] /\ \A k \in 1 .. n : b[k] = f[k] /\ b[k] \in S
  BY <1>1 DEF ReadOf, Follows
<1> HIDE DEF a, b
<1>4. a \in Seq(S) /\ Len(a) = p
  BY <1>2, SeqOf
<1>5. b \in Seq(S) /\ Len(b) = p + Len(t)
  <2> HIDE DEF n
  <2>1. b \in Seq(S) /\ Len(b) = n
    BY <1>0, <1>3, SeqOf
  <2> QED BY <2>1 DEF n
<1>6. /\ c \in Seq(S) /\ Len(c) = p + Len(t)
      /\ \A k \in 1 .. Len(c) : c[k] = IF k <= p THEN a[k] ELSE t[k - p]
  BY <1>4, JoinedAt
<1> HIDE DEF c
<1>7. ASSUME NEW k \in 1 .. Len(c) PROVE b[k] = c[k]
  <2>1. CASE k <= p
    <3>1. k \in 1 .. p /\ k \in 1 .. p + Len(t)
      BY <1>1, <1>6, <2>1
    <3> QED BY <1>2, <1>3, <1>6, <2>1, <3>1
  <2>2. CASE ~(k <= p)
    <3>1. k - p \in 1 .. Len(t) /\ p + (k - p) = k /\ k \in 1 .. p + Len(t)
      BY <1>1, <1>6, <2>2
    <3>2. f[k] = t[k - p]
      BY <3>1 DEF Follows
    <3> QED BY <1>3, <1>6, <2>2, <3>1, <3>2
  <2> QED BY <2>1, <2>2
<1>8. b = c
  BY <1>5, <1>6, <1>7
<1> QED BY <1>8 DEF a, b, c

LEMMA ReadAll ==
  ASSUME NEW S, NEW f \in Seq(S)
  PROVE  ReadOf(f, Len(f)) = f
BY DEF ReadOf

Texts(c) == [i \in 1 .. Len(c) |-> Resume!Text(c[i])]

LEMMA ResumeTokens ==
  /\ \A v \in Int : Resume!I32(v) \in RTokens
  /\ \A v \in STRING : Resume!Text(v) \in RTokens
  /\ \A v \in Seq(Int) : [kind |-> "bytes", v |-> v] \in RTokens
BY DEF Resume!I32, Resume!Text, RTokens

LEMMA OneToken ==
  ASSUME NEW S, NEW a \in S
  PROVE  <<a>> \in Seq(S) /\ Len(<<a>>) = 1 /\ <<a>>[1] = a
OBVIOUS

LEMMA ResumeInts ==
  ASSUME NEW q \in Seq(Int)
  PROVE  /\ Resume!I32s(q) \in Seq(RTokens) /\ Len(Resume!I32s(q)) = Len(q)
         /\ \A i \in 1 .. Len(q) : Resume!I32s(q)[i] = Resume!I32(q[i])
<1>1. Len(q) \in Nat /\ \A i \in 1 .. Len(q) : q[i] \in Int
  OBVIOUS
<1>2. \A i \in 1 .. Len(q) : Resume!I32(q[i]) \in RTokens
  BY <1>1, ResumeTokens
<1> DEFINE f == [i \in 1 .. Len(q) |-> Resume!I32(q[i])]
<1>3. f = [i \in 1 .. Len(q) |-> f[i]] /\ \A i \in 1 .. Len(q) : f[i] = Resume!I32(q[i]) /\ f[i] \in RTokens
  BY <1>2
<1> HIDE DEF f
<1>4. f \in Seq(RTokens) /\ Len(f) = Len(q)
  BY <1>1, <1>3, SeqOf
<1> QED BY <1>3, <1>4 DEF f, Resume!I32s

LEMMA ResumeTexts ==
  ASSUME NEW c \in Seq(STRING)
  PROVE  /\ Texts(c) \in Seq(RTokens) /\ Len(Texts(c)) = Len(c)
         /\ \A i \in 1 .. Len(c) : Texts(c)[i] = Resume!Text(c[i])
<1>1. Len(c) \in Nat /\ \A i \in 1 .. Len(c) : c[i] \in STRING
  OBVIOUS
<1>2. \A i \in 1 .. Len(c) : Resume!Text(c[i]) \in RTokens
  BY <1>1, ResumeTokens
<1> DEFINE f == [i \in 1 .. Len(c) |-> Resume!Text(c[i])]
<1>3. f = [i \in 1 .. Len(c) |-> f[i]] /\ \A i \in 1 .. Len(c) : f[i] = Resume!Text(c[i]) /\ f[i] \in RTokens
  BY <1>2
<1> HIDE DEF f
<1>4. f \in Seq(RTokens) /\ Len(f) = Len(c)
  BY <1>1, <1>3, SeqOf
<1> QED BY <1>3, <1>4 DEF f, Texts

LEMMA ResumeCounted ==
  ASSUME NEW t \in Seq(RTokens)
  PROVE  /\ Resume!CountedTokens(t) \in Seq(RTokens) /\ Len(Resume!CountedTokens(t)) = 1 + Len(t)
         /\ Resume!CountedTokens(t)[1] = Resume!I32(Len(t))
         /\ \A i \in 1 .. Len(t) : Resume!CountedTokens(t)[1 + i] = t[i]
<1> DEFINE n == Resume!I32(Len(t))
           a == <<n>>
<1>1. Len(t) \in Int /\ Len(t) \in Nat
  OBVIOUS
<1>2. n \in RTokens
  BY <1>1, ResumeTokens
<1>3. a \in Seq(RTokens) /\ Len(a) = 1 /\ a[1] = n
  BY <1>2, OneToken
<1> HIDE DEF n, a
<1>4. /\ Joined(a, t) \in Seq(RTokens) /\ Len(Joined(a, t)) = 1 + Len(t)
      /\ \A k \in 1 .. 1 + Len(t) : Joined(a, t)[k] = IF k <= 1 THEN a[k] ELSE t[k - 1]
  <2>1. /\ Joined(a, t) \in Seq(RTokens) /\ Len(Joined(a, t)) = Len(a) + Len(t)
        /\ \A k \in 1 .. Len(a) + Len(t) :
             Joined(a, t)[k] = IF k <= Len(a) THEN a[k] ELSE t[k - Len(a)]
    BY <1>3, JoinedAt, Zenon
  <2> QED BY <1>3, <2>1
<1>5. Joined(a, t)[1] = n
  BY <1>1, <1>3, <1>4
<1>6. ASSUME NEW i \in 1 .. Len(t) PROVE Joined(a, t)[1 + i] = t[i]
  <2>1. 1 + i \in 1 .. 1 + Len(t) /\ ~(1 + i <= 1) /\ (1 + i) - 1 = i
    BY <1>1
  <2> QED BY <1>4, <2>1
<1> QED BY <1>4, <1>5, <1>6 DEF a, n, Joined, Resume!CountedTokens

(* Tokens at a position of a file.                                         *)
LEMMA TokenIs ==
  ASSUME NEW f \in Seq(RTokens), NEW k \in 1 .. Len(f)
  PROVE  /\ f[k].kind = "int" => f[k].v \in Int /\ f[k] = Resume!I32(f[k].v)
         /\ f[k].kind = "str" => f[k].v \in STRING /\ f[k] = Resume!Text(f[k].v)
         /\ f[k].kind = "bytes" => f[k].v \in Seq(Int) /\ f[k] = [kind |-> "bytes", v |-> f[k].v]
<1>1. f[k] \in RTokens
  OBVIOUS
<1> DEFINE t == f[k]
<1> HIDE DEF t
<1>2. /\ t.kind = "int" => t.v \in Int /\ t = Resume!I32(t.v)
      /\ t.kind = "str" => t.v \in STRING /\ t = Resume!Text(t.v)
      /\ t.kind = "bytes" => t.v \in Seq(Int) /\ t = [kind |-> "bytes", v |-> t.v]
  BY <1>1 DEF t, RTokens, Resume!I32, Resume!Text
<1> QED BY <1>2 DEF t

\* What follows something, and then something else.
LEMMA FollowsBoth ==
  ASSUME NEW S, NEW f \in Seq(S), NEW p \in Nat, NEW a \in Seq(S), NEW b \in Seq(S),
         Follows(f, p, a), Follows(f, p + Len(a), b)
  PROVE  Follows(f, p, Joined(a, b))
<1> DEFINE c == Joined(a, b)
<1>1. /\ Len(c) = Len(a) + Len(b)
      /\ \A k \in 1 .. Len(a) + Len(b) : c[k] = IF k <= Len(a) THEN a[k] ELSE b[k - Len(a)]
  BY JoinedAt, Zenon
<1> HIDE DEF c
<1>2. Len(a) \in Nat /\ Len(b) \in Nat /\ Len(f) \in Nat
  OBVIOUS
<1>3. p + Len(c) <= Len(f)
  BY <1>1, <1>2 DEF Follows
<1>4. ASSUME NEW k \in 1 .. Len(c) PROVE f[p + k] = c[k]
  <2>1. CASE k <= Len(a)
    <3>1. k \in 1 .. Len(a) /\ k \in 1 .. Len(a) + Len(b)
      BY <1>1, <1>2, <2>1
    <3>2. f[p + k] = a[k]
      BY <3>1 DEF Follows
    <3> QED BY <1>1, <2>1, <3>1, <3>2
  <2>2. CASE ~(k <= Len(a))
    <3>1. k - Len(a) \in 1 .. Len(b) /\ (p + Len(a)) + (k - Len(a)) = p + k /\ k \in 1 .. Len(a) + Len(b)
      BY <1>1, <1>2, <2>2
    <3>2. f[(p + Len(a)) + (k - Len(a))] = b[k - Len(a)]
      BY <3>1 DEF Follows
    <3> QED BY <1>1, <2>2, <3>1, <3>2
  <2> QED BY <2>1, <2>2
<1> QED BY <1>3, <1>4 DEF Follows, c

LEMMA FollowsOne ==
  ASSUME NEW f \in Seq(RTokens), NEW p \in Nat, NEW t, p + 1 <= Len(f), f[p + 1] = t
  PROVE  Follows(f, p, <<t>>)
BY DEF Follows

LEMMA FollowsNone ==
  ASSUME NEW S, NEW f \in Seq(S), NEW p \in Nat, p <= Len(f)
  PROVE  Follows(f, p, <<>>)
BY DEF Follows

\* A count and as many tokens.
LEMMA CountedFollows ==
  ASSUME NEW f \in Seq(RTokens), NEW p \in Nat \ {0}, p <= Len(f), NEW t \in Seq(RTokens),
         f[p] = Resume!I32(Len(t)),
         \A k \in 1 .. Len(t) : p + k <= Len(f) /\ f[p + k] = t[k]
  PROVE  Follows(f, p - 1, Resume!CountedTokens(t))
<1> DEFINE n == Len(t)
           c == Resume!CountedTokens(t)
           q == p - 1
<1>1. Len(c) = 1 + n /\ c[1] = Resume!I32(n) /\ \A i \in 1 .. n : c[1 + i] = t[i]
  BY ResumeCounted
<1>2. n \in Nat /\ Len(f) \in Nat /\ q \in Nat /\ p = q + 1
  OBVIOUS
<1> HIDE DEF n, c, q
<1>3. q + Len(c) <= Len(f)
  <2>1. CASE n = 0
    BY <1>1, <1>2, <2>1
  <2>2. CASE n # 0
    <3>1. p + n <= Len(f)
      BY <1>2, <2>2 DEF n
    <3> QED BY <1>1, <1>2, <3>1
  <2> QED BY <2>1, <2>2
<1>4. ASSUME NEW k \in 1 .. Len(c) PROVE f[q + k] = c[k]
  <2>1. CASE k = 1
    BY <1>1, <1>2, <2>1 DEF n
  <2>2. CASE k # 1
    <3> DEFINE i == k - 1
    <3>1. i \in 1 .. n /\ q + k = p + i /\ k = 1 + i
      BY <1>1, <1>2, <2>2
    <3> HIDE DEF i
    <3>2. f[p + i] = t[i]
      BY <3>1 DEF n
    <3>3. c[1 + i] = t[i]
      BY <1>1, <3>1
    <3> QED BY <3>1, <3>2, <3>3
  <2> QED BY <2>1, <2>2
<1> QED BY <1>3, <1>4 DEF Follows, c, q

\* A counted array that was read (IsArray, Array) is in the file.
LEMMA ArrayOfInts ==
  ASSUME file \in Seq(RTokens), pos \in Nat, NEW i \in Nat \ {0}, Resume!IsArray(i, "int")
  PROVE  /\ Resume!Tok(i) \in Nat /\ Resume!Array(i) \in Seq(Int) /\ Len(Resume!Array(i)) = Resume!Tok(i)
         /\ Follows(file, (pos + i) - 1, Resume!CountedTokens(Resume!I32s(Resume!Array(i))))
<1> DEFINE n == Resume!Tok(i)
           a == Resume!Array(i)
           p == pos + i
           t == Resume!I32s(a)
<1>0. p \in Nat /\ p # 0 /\ Len(file) \in Nat
  OBVIOUS
<1>1. p <= Len(file) /\ file[p].kind = "int" /\ n = file[p].v /\ n >= 0
  BY DEF Resume!IsArray, Resume!Tok
<1>2. \A k \in 1 .. n : p + k <= Len(file) /\ file[p + k].kind = "int"
  <2>1. \A k \in 1 .. Resume!Tok(i) : pos + i + k <= Len(file) /\ file[pos + i + k].kind = "int"
    BY Zenon DEF Resume!IsArray
  <2> QED BY <2>1
<1>3. a = [k \in 1 .. n |-> file[pos + ((i + 1) + k - 1)].v]
  BY DEF Resume!Array, Resume!Toks, Resume!Tok
<1> HIDE DEF n, a, p, t
<1>4. n \in Nat /\ file[p] = Resume!I32(n)
  <2>1. p \in 1 .. Len(file)
    BY <1>0, <1>1
  <2>2. file[p].v \in Int /\ file[p] = Resume!I32(file[p].v)
    BY <1>1, <2>1, TokenIs
  <2> QED BY <1>1, <2>2
<1>5. ASSUME NEW k \in 1 .. n PROVE file[p + k].v \in Int /\ file[p + k] = Resume!I32(file[p + k].v)
  <2>1. p + k \in 1 .. Len(file)
    <3>1. k \in Int /\ 1 <= k
      BY <1>4
    <3>2. p + k <= Len(file)
      BY <1>2
    <3> HIDE DEF p
    <3> QED BY <1>0, <3>1, <3>2
  <2> QED BY <1>2, <2>1, TokenIs
<1>6. a = [k \in 1 .. n |-> a[k]] /\ \A k \in 1 .. n : a[k] = file[p + k].v
  <2>1. \A k \in 1 .. n : pos + ((i + 1) + k - 1) = p + k
    BY <1>4 DEF p
  <2> QED BY <1>3, <2>1
<1>7. a \in Seq(Int) /\ Len(a) = n
  BY <1>4, <1>5, <1>6, SeqOf
<1>8. t \in Seq(RTokens) /\ Len(t) = n /\ \A k \in 1 .. n : t[k] = file[p + k]
  <2>1. t \in Seq(RTokens) /\ Len(t) = n /\ \A k \in 1 .. n : t[k] = Resume!I32(a[k])
    BY <1>7, ResumeInts DEF t
  <2> QED BY <1>5, <1>6, <2>1
<1>9. Follows(file, p - 1, Resume!CountedTokens(t))
  BY <1>0, <1>1, <1>2, <1>4, <1>8, CountedFollows
<1> QED BY <1>4, <1>7, <1>9 DEF n, a, p, t

LEMMA ArrayOfTexts ==
  ASSUME file \in Seq(RTokens), pos \in Nat, NEW i \in Nat \ {0}, Resume!IsArray(i, "str")
  PROVE  /\ Resume!Tok(i) \in Nat /\ Resume!Array(i) \in Seq(STRING) /\ Len(Resume!Array(i)) = Resume!Tok(i)
         /\ Follows(file, (pos + i) - 1, Resume!CountedTokens(Texts(Resume!Array(i))))
<1> DEFINE n == Resume!Tok(i)
           a == Resume!Array(i)
           p == pos + i
           t == Texts(a)
<1>0. p \in Nat /\ p # 0 /\ Len(file) \in Nat
  OBVIOUS
<1>1. p <= Len(file) /\ file[p].kind = "int" /\ n = file[p].v /\ n >= 0
  BY DEF Resume!IsArray, Resume!Tok
<1>2. \A k \in 1 .. n : p + k <= Len(file) /\ file[p + k].kind = "str"
  <2>1. \A k \in 1 .. Resume!Tok(i) : pos + i + k <= Len(file) /\ file[pos + i + k].kind = "str"
    BY Zenon DEF Resume!IsArray
  <2> QED BY <2>1
<1>3. a = [k \in 1 .. n |-> file[pos + ((i + 1) + k - 1)].v]
  BY DEF Resume!Array, Resume!Toks, Resume!Tok
<1> HIDE DEF n, a, p, t
<1>4. n \in Nat /\ file[p] = Resume!I32(n)
  <2>1. p \in 1 .. Len(file)
    BY <1>0, <1>1
  <2>2. file[p].v \in Int /\ file[p] = Resume!I32(file[p].v)
    BY <1>1, <2>1, TokenIs
  <2> QED BY <1>1, <2>2
<1>5. ASSUME NEW k \in 1 .. n PROVE file[p + k].v \in STRING /\ file[p + k] = Resume!Text(file[p + k].v)
  <2>1. p + k \in 1 .. Len(file)
    <3>1. k \in Int /\ 1 <= k
      BY <1>4
    <3>2. p + k <= Len(file)
      BY <1>2
    <3> HIDE DEF p
    <3> QED BY <1>0, <3>1, <3>2
  <2> QED BY <1>2, <2>1, TokenIs
<1>6. a = [k \in 1 .. n |-> a[k]] /\ \A k \in 1 .. n : a[k] = file[p + k].v
  <2>1. \A k \in 1 .. n : pos + ((i + 1) + k - 1) = p + k
    BY <1>4 DEF p
  <2> QED BY <1>3, <2>1
<1>7. a \in Seq(STRING) /\ Len(a) = n
  BY <1>4, <1>5, <1>6, SeqOf
<1>8. t \in Seq(RTokens) /\ Len(t) = n /\ \A k \in 1 .. n : t[k] = file[p + k]
  <2>1. t \in Seq(RTokens) /\ Len(t) = n /\ \A k \in 1 .. n : t[k] = Resume!Text(a[k])
    BY <1>7, ResumeTexts DEF t
  <2> QED BY <1>5, <1>6, <2>1
<1>9. Follows(file, p - 1, Resume!CountedTokens(t))
  BY <1>0, <1>1, <1>2, <1>4, <1>8, CountedFollows
<1> QED BY <1>4, <1>7, <1>9 DEF n, a, p, t

(* What rsave_write writes, up to each phase of the parser.                *)
Zero == Resume!I32(0)

HeadIp(x)     == Joined(Joined(Resume!Opening(x), Resume!ReturnTokens(x.ip)), <<Zero>>)
HeadStack(x)  == Joined(HeadIp(x), Resume!CountedTokens(Resume!I32s(x.stack)))
HeadFrames(x) == Joined(HeadStack(x), Resume!FrameTokens(x.frames))

Returned(x)       == [i \in 1 .. Len(x.returns) |-> Resume!ReturnTokens(x.returns[i])]
HeadCount(x, n)   == Joined(HeadFrames(x), <<Resume!I32(n)>>)
HeadReturns(x, n) == Joined(HeadCount(x, n), Flat(Returned(x)))

SeqTokens(x) == IF x.version >= 9 THEN <<Resume!I32(x.next_seq)>> ELSE <<>>
HeadSeq(x)   == Joined(Joined(HeadReturns(x, Len(x.returns)), <<Zero, Zero, Zero>>), SeqTokens(x))

Objects(x)      == [i \in 1 .. Len(x.heap) |-> Resume!ObjectTokens(x.version, x.heap[i])]
HeadSize(x, n)  == Joined(HeadSeq(x), <<Resume!I32(n)>>)
HeadHeap(x, n)  == Joined(HeadSize(x, n), Flat(Objects(x)))
FuncTokens(x)   == IF x.version >= 6 THEN Resume!CountedTokens(Texts(x.funcs)) ELSE <<>>

LEMMA FileIs ==
  ASSUME NEW x
  PROVE  Resume!FileOf(x) = IF x.comments_only THEN Resume!Opening(x)
                            ELSE Joined(HeadHeap(x, Len(x.heap)), FuncTokens(x))
BY Zenon DEF Resume!FileOf, HeadIp, HeadStack, HeadFrames, Returned, HeadCount, HeadReturns, SeqTokens, HeadSeq,
       Objects, HeadSize, HeadHeap, FuncTokens, Zero, Joined, Flat, Resume!Map, Texts

LEMMA OpeningIs ==
  ASSUME NEW x
  PROVE  Resume!Opening(x) = Joined(<<Resume!I32(x.version)>>,
           IF x.version >= 7 THEN Resume!CountedTokens(Texts(x.comments)) ELSE <<>>)
BY Zenon DEF Resume!Opening, Joined, Resume!Map, Texts

(* The fields of heap objects: the writer and the parser agree on them.    *)
FieldKinds == {"int", "flag", "zero", "ints", "slots", "bytes", "id", "none", "name"}

WrittenKind(kind) == IF kind \in {"id", "none", "name"} THEN "symbol"
                     ELSE IF kind \in {"flag", "zero"} THEN "int" ELSE kind

Versions == {4, 6, 7, 9}
HasTag(v, tag) == v \in Versions /\ tag \in 0 .. 5 /\ (tag = 5 => v >= 9)

\* The writer's fields are the reader's, and each has a name of its own.
Matching(l, w) ==
  /\ Len(l) \in Nat /\ Len(w) = Len(l)
  /\ \A i \in 1 .. Len(l) : /\ l[i][1] = w[i][1] /\ w[i][2] = WrittenKind(l[i][2])
                            /\ l[i][2] \in FieldKinds /\ l[i][1] # "tag"
  /\ \A i \in 1 .. Len(l), j \in 1 .. Len(l) : l[i][1] = l[j][1] => i = j

LEMMA TagsAre ==
  /\ Resume!RSAVE_GLOBALS = 0 /\ Resume!RSAVE_LOCALS = 1 /\ Resume!RSAVE_STRING = 2
  /\ Resume!RSAVE_ARRAY = 3 /\ Resume!RSAVE_STRUCT = 4 /\ Resume!RSAVE_DELEGATE = 5
  /\ Resume!RSAVE_NULL = -1
BY DEF Resume!RSAVE_GLOBALS, Resume!RSAVE_LOCALS, Resume!RSAVE_STRING, Resume!RSAVE_ARRAY, Resume!RSAVE_STRUCT,
       Resume!RSAVE_DELEGATE, Resume!RSAVE_NULL

LEMMA TagsDiffer ==
  /\ Resume!RSAVE_GLOBALS # Resume!RSAVE_LOCALS
  /\ Resume!RSAVE_GLOBALS # Resume!RSAVE_STRING
  /\ Resume!RSAVE_GLOBALS # Resume!RSAVE_ARRAY
  /\ Resume!RSAVE_GLOBALS # Resume!RSAVE_STRUCT
  /\ Resume!RSAVE_GLOBALS # Resume!RSAVE_DELEGATE
  /\ Resume!RSAVE_GLOBALS # Resume!RSAVE_NULL
  /\ Resume!RSAVE_LOCALS # Resume!RSAVE_STRING
  /\ Resume!RSAVE_LOCALS # Resume!RSAVE_ARRAY
  /\ Resume!RSAVE_LOCALS # Resume!RSAVE_STRUCT
  /\ Resume!RSAVE_LOCALS # Resume!RSAVE_DELEGATE
  /\ Resume!RSAVE_LOCALS # Resume!RSAVE_NULL
  /\ Resume!RSAVE_STRING # Resume!RSAVE_ARRAY
  /\ Resume!RSAVE_STRING # Resume!RSAVE_STRUCT
  /\ Resume!RSAVE_STRING # Resume!RSAVE_DELEGATE
  /\ Resume!RSAVE_STRING # Resume!RSAVE_NULL
  /\ Resume!RSAVE_ARRAY # Resume!RSAVE_STRUCT
  /\ Resume!RSAVE_ARRAY # Resume!RSAVE_DELEGATE
  /\ Resume!RSAVE_ARRAY # Resume!RSAVE_NULL
  /\ Resume!RSAVE_STRUCT # Resume!RSAVE_DELEGATE
  /\ Resume!RSAVE_STRUCT # Resume!RSAVE_NULL
  /\ Resume!RSAVE_DELEGATE # Resume!RSAVE_NULL
BY TagsAre

\* Element i of two sequences one after the other.
LEMMA ConcatAt ==
  ASSUME NEW S, NEW a \in Seq(S), NEW b \in Seq(S)
  PROVE  /\ Len(a \o b) = Len(a) + Len(b)
         /\ \A k \in 1 .. Len(a) + Len(b) : (a \o b)[k] = IF k <= Len(a) THEN a[k] ELSE b[k - Len(a)]
BY ConcatProperties, Zenon

LEMMA HeadMatches ==
  ASSUME NEW v \in Versions, NEW S, NEW l \in Seq(S), NEW w \in Seq(S), Matching(l, w),
         Resume!Common(v) \in Seq(S),
         \A i \in 1 .. Len(l) : l[i][1] \notin {"ref", "seq"}
  PROVE  Matching(Resume!Common(v) \o l, Resume!Common(v) \o w)
<1> DEFINE h == Resume!Common(v)
           n == Len(h)
           m == Len(l)
           p == h \o l
           q == h \o w
<1>1. /\ n \in {1, 2} /\ \A i \in 1 .. n : /\ h[i][1] \in {"ref", "seq"} /\ h[i][2] = "int"
      /\ \A i \in 1 .. n, j \in 1 .. n : h[i][1] = h[j][1] => i = j
  <2>1. CASE v >= 9
    <3>1. h = <<<<"ref", "int">>, <<"seq", "int">>>>
      BY <2>1 DEF Resume!Common
    <3> HIDE DEF h
    <3> QED BY <3>1
  <2>2. CASE ~(v >= 9)
    <3>1. h = <<<<"ref", "int">>>>
      BY <2>2 DEF Resume!Common
    <3> HIDE DEF h
    <3> QED BY <3>1
  <2> QED BY <2>1, <2>2
<1>2. m \in Nat /\ Len(w) = m
  BY DEF Matching
<1>3. Len(p) = n + m /\ \A k \in 1 .. n + m : p[k] = IF k <= n THEN h[k] ELSE l[k - n]
  BY ConcatAt
<1>4. Len(q) = n + m /\ \A k \in 1 .. n + m : q[k] = IF k <= n THEN h[k] ELSE w[k - n]
  <2>1. Len(q) = n + Len(w) /\ \A k \in 1 .. n + Len(w) : q[k] = IF k <= n THEN h[k] ELSE w[k - n]
    BY ConcatAt
  <2> QED BY <1>2, <2>1
<1>5. /\ \A i \in 1 .. m : /\ l[i][1] = w[i][1] /\ w[i][2] = WrittenKind(l[i][2])
                           /\ l[i][2] \in FieldKinds /\ l[i][1] \notin {"tag", "ref", "seq"}
      /\ \A i \in 1 .. m, j \in 1 .. m : l[i][1] = l[j][1] => i = j
  BY DEF Matching
<1> HIDE DEF h, n, m, p, q
<1>6. n \in Nat /\ n + m \in Nat
  BY <1>1, <1>2
<1>7. ASSUME NEW i \in 1 .. n + m
      PROVE  /\ p[i][1] = q[i][1] /\ q[i][2] = WrittenKind(p[i][2])
             /\ p[i][2] \in FieldKinds /\ p[i][1] # "tag"
  <2>1. CASE i <= n
    <3>1. p[i] = h[i] /\ q[i] = h[i] /\ i \in 1 .. n
      BY <1>2, <1>3, <1>4, <1>6, <2>1
    <3> QED BY <1>1, <3>1 DEF WrittenKind, FieldKinds
  <2>2. CASE ~(i <= n)
    <3>1. p[i] = l[i - n] /\ q[i] = w[i - n] /\ i - n \in 1 .. m
      BY <1>2, <1>3, <1>4, <1>6, <2>2
    <3> QED BY <1>5, <3>1
  <2> QED BY <2>1, <2>2
<1>8. ASSUME NEW i \in 1 .. n + m, NEW j \in 1 .. n + m, p[i][1] = p[j][1]
      PROVE  i = j
  <2>1. /\ i <= n => p[i] = h[i] /\ i \in 1 .. n
        /\ ~(i <= n) => p[i] = l[i - n] /\ i - n \in 1 .. m
    BY <1>2, <1>3, <1>6
  <2>2. /\ j <= n => p[j] = h[j] /\ j \in 1 .. n
        /\ ~(j <= n) => p[j] = l[j - n] /\ j - n \in 1 .. m
    BY <1>2, <1>3, <1>6
  <2>3. CASE i <= n /\ j <= n
    BY <1>1, <1>8, <2>1, <2>2, <2>3
  <2>4. CASE ~(i <= n) /\ ~(j <= n)
    <3>1. i - n = j - n
      BY <1>5, <1>8, <2>1, <2>2, <2>4
    <3> QED BY <1>2, <1>6, <3>1
  <2>5. CASE i <= n /\ ~(j <= n)
    <3>1. h[i][1] \in {"ref", "seq"} /\ l[j - n][1] \notin {"ref", "seq"}
      BY <1>1, <1>5, <2>1, <2>2, <2>5
    <3> QED BY <1>8, <2>1, <2>2, <2>5, <3>1
  <2>6. CASE ~(i <= n) /\ j <= n
    <3>1. h[j][1] \in {"ref", "seq"} /\ l[i - n][1] \notin {"ref", "seq"}
      BY <1>1, <1>5, <2>1, <2>2, <2>6
    <3> QED BY <1>8, <2>1, <2>2, <2>6, <3>1
  <2> QED BY <2>3, <2>4, <2>5, <2>6
<1>9. Matching(p, q)
  BY <1>3, <1>4, <1>6, <1>7, <1>8 DEF Matching
<1> QED BY <1>9 DEF p, q, h

FieldPairs ==
  {"ref", "seq", "func", "types", "slots", "struct_ptr", "uk", "text", "rank_minus_1", "data_type",
   "struct_type", "root_rank", "is_not_empty", "ctor", "dtor"}
  \X (FieldKinds \cup {"symbol"})

LEMMA HeadTyped ==
  ASSUME NEW v
  PROVE  Resume!Common(v) \in Seq(FieldPairs)
<1>1. /\ <<<<"ref", "int">>, <<"seq", "int">>>> \in Seq(FieldPairs)
      /\ <<<<"ref", "int">>>> \in Seq(FieldPairs)
  BY DEF FieldPairs, FieldKinds
<1> QED BY <1>1, Zenon DEF Resume!Common

LEMMA GlobalsMatch ==
  ASSUME NEW v \in Versions
  PROVE  Matching(Resume!Layout(v, Resume!RSAVE_GLOBALS), Resume!Written(v, Resume!RSAVE_GLOBALS))
<1> DEFINE l == <<<<"func", IF v = 4 THEN "id" ELSE "none">>, <<"types", "ints">>,
                 <<"slots", "slots">>>>
           w == <<<<"func", "symbol">>, <<"types", "ints">>, <<"slots", "slots">>>>
<1>1. Len(l) = 3 /\ Len(w) = 3
  OBVIOUS
<1>2. \A i \in 1 .. 3 : l[i][1] = w[i][1] /\ w[i][2] = WrittenKind(l[i][2])
  BY DEF WrittenKind
<1>3. \A i \in 1 .. 3 : l[i][2] \in FieldKinds /\ l[i][1] \notin {"tag", "ref", "seq"}
  BY DEF FieldKinds
<1>4. \A i \in 1 .. 3, j \in 1 .. 3 : l[i][1] = l[j][1] => i = j
  OBVIOUS
<1>5. l \in Seq(FieldPairs) /\ w \in Seq(FieldPairs)
  BY DEF FieldPairs, FieldKinds
<1> HIDE DEF l, w
<1>6. Matching(l, w)
  BY <1>1, <1>2, <1>3, <1>4 DEF Matching
<1>7. Matching(Resume!Common(v) \o l, Resume!Common(v) \o w)
  <2>1. \A i \in 1 .. Len(l) : l[i][1] \notin {"ref", "seq"}
    BY <1>1, <1>3
  <2> QED BY <1>5, <1>6, <2>1, HeadMatches, HeadTyped
<1>8. Resume!Layout(v, Resume!RSAVE_GLOBALS) = Resume!Common(v) \o l
  BY TagsDiffer, Zenon DEF Resume!Layout, l
<1>9. Resume!Written(v, Resume!RSAVE_GLOBALS) = Resume!Common(v) \o w
  BY TagsDiffer, Zenon DEF Resume!Written, w
<1> QED BY <1>7, <1>8, <1>9

LEMMA Locals9Match ==
  ASSUME NEW v \in Versions, v >= 9
  PROVE  Matching(Resume!Layout(v, Resume!RSAVE_LOCALS), Resume!Written(v, Resume!RSAVE_LOCALS))
<1> DEFINE l == <<<<"func", IF v = 4 THEN "id" ELSE "name">>, <<"types", "ints">>,
                 <<"struct_ptr", "int">>, <<"slots", "slots">>>>
           w == <<<<"func", "symbol">>, <<"types", "ints">>, <<"struct_ptr", "int">>,
                  <<"slots", "slots">>>>
<1>1. Len(l) = 4 /\ Len(w) = 4
  OBVIOUS
<1>2. \A i \in 1 .. 4 : l[i][1] = w[i][1] /\ w[i][2] = WrittenKind(l[i][2])
  BY DEF WrittenKind
<1>3. \A i \in 1 .. 4 : l[i][2] \in FieldKinds /\ l[i][1] \notin {"tag", "ref", "seq"}
  BY DEF FieldKinds
<1>4. \A i \in 1 .. 4, j \in 1 .. 4 : l[i][1] = l[j][1] => i = j
  OBVIOUS
<1>5. l \in Seq(FieldPairs) /\ w \in Seq(FieldPairs)
  BY DEF FieldPairs, FieldKinds
<1> HIDE DEF l, w
<1>6. Matching(l, w)
  BY <1>1, <1>2, <1>3, <1>4 DEF Matching
<1>7. Matching(Resume!Common(v) \o l, Resume!Common(v) \o w)
  <2>1. \A i \in 1 .. Len(l) : l[i][1] \notin {"ref", "seq"}
    BY <1>1, <1>3
  <2> QED BY <1>5, <1>6, <2>1, HeadMatches, HeadTyped
<1>8. Resume!Layout(v, Resume!RSAVE_LOCALS) = Resume!Common(v) \o l
  BY TagsDiffer, Zenon DEF Resume!Layout, l
<1>9. Resume!Written(v, Resume!RSAVE_LOCALS) = Resume!Common(v) \o w
  BY TagsDiffer, Zenon DEF Resume!Written, w
<1> QED BY <1>7, <1>8, <1>9

LEMMA LocalsMatch ==
  ASSUME NEW v \in Versions, ~(v >= 9)
  PROVE  Matching(Resume!Layout(v, Resume!RSAVE_LOCALS), Resume!Written(v, Resume!RSAVE_LOCALS))
<1> DEFINE l == <<<<"func", IF v = 4 THEN "id" ELSE "name">>, <<"types", "ints">>,
                 <<"slots", "slots">>>>
           w == <<<<"func", "symbol">>, <<"types", "ints">>, <<"slots", "slots">>>>
<1>1. Len(l) = 3 /\ Len(w) = 3
  OBVIOUS
<1>2. \A i \in 1 .. 3 : l[i][1] = w[i][1] /\ w[i][2] = WrittenKind(l[i][2])
  BY DEF WrittenKind
<1>3. \A i \in 1 .. 3 : l[i][2] \in FieldKinds /\ l[i][1] \notin {"tag", "ref", "seq"}
  BY DEF FieldKinds
<1>4. \A i \in 1 .. 3, j \in 1 .. 3 : l[i][1] = l[j][1] => i = j
  OBVIOUS
<1>5. l \in Seq(FieldPairs) /\ w \in Seq(FieldPairs)
  BY DEF FieldPairs, FieldKinds
<1> HIDE DEF l, w
<1>6. Matching(l, w)
  BY <1>1, <1>2, <1>3, <1>4 DEF Matching
<1>7. Matching(Resume!Common(v) \o l, Resume!Common(v) \o w)
  <2>1. \A i \in 1 .. Len(l) : l[i][1] \notin {"ref", "seq"}
    BY <1>1, <1>3
  <2> QED BY <1>5, <1>6, <2>1, HeadMatches, HeadTyped
<1>8. Resume!Layout(v, Resume!RSAVE_LOCALS) = Resume!Common(v) \o l
  BY TagsDiffer, Zenon DEF Resume!Layout, l
<1>9. Resume!Written(v, Resume!RSAVE_LOCALS) = Resume!Common(v) \o w
  BY TagsDiffer, Zenon DEF Resume!Written, w
<1> QED BY <1>7, <1>8, <1>9

LEMMA StringMatch ==
  ASSUME NEW v \in Versions
  PROVE  Matching(Resume!Layout(v, Resume!RSAVE_STRING), Resume!Written(v, Resume!RSAVE_STRING))
<1> DEFINE l == <<<<"uk", "flag">>, <<"text", "bytes">>>>
           w == <<<<"uk", "int">>, <<"text", "bytes">>>>
<1>1. Len(l) = 2 /\ Len(w) = 2
  OBVIOUS
<1>2. \A i \in 1 .. 2 : l[i][1] = w[i][1] /\ w[i][2] = WrittenKind(l[i][2])
  BY DEF WrittenKind
<1>3. \A i \in 1 .. 2 : l[i][2] \in FieldKinds /\ l[i][1] \notin {"tag", "ref", "seq"}
  BY DEF FieldKinds
<1>4. \A i \in 1 .. 2, j \in 1 .. 2 : l[i][1] = l[j][1] => i = j
  OBVIOUS
<1>5. l \in Seq(FieldPairs) /\ w \in Seq(FieldPairs)
  BY DEF FieldPairs, FieldKinds
<1> HIDE DEF l, w
<1>6. Matching(l, w)
  BY <1>1, <1>2, <1>3, <1>4 DEF Matching
<1>7. Matching(Resume!Common(v) \o l, Resume!Common(v) \o w)
  <2>1. \A i \in 1 .. Len(l) : l[i][1] \notin {"ref", "seq"}
    BY <1>1, <1>3
  <2> QED BY <1>5, <1>6, <2>1, HeadMatches, HeadTyped
<1>8. Resume!Layout(v, Resume!RSAVE_STRING) = Resume!Common(v) \o l
  BY TagsDiffer, Zenon DEF Resume!Layout, l
<1>9. Resume!Written(v, Resume!RSAVE_STRING) = Resume!Common(v) \o w
  BY TagsDiffer, Zenon DEF Resume!Written, w
<1> QED BY <1>7, <1>8, <1>9

LEMMA ArrayMatch ==
  ASSUME NEW v \in Versions
  PROVE  Matching(Resume!Layout(v, Resume!RSAVE_ARRAY), Resume!Written(v, Resume!RSAVE_ARRAY))
<1> DEFINE l == <<<<"rank_minus_1", "int">>, <<"data_type", "int">>,
                 <<"struct_type", IF v = 4 THEN "id" ELSE "name">>,
                 <<"root_rank", "int">>, <<"is_not_empty", "int">>, <<"slots", "slots">>>>
           w == <<<<"rank_minus_1", "int">>, <<"data_type", "int">>,
                  <<"struct_type", "symbol">>, <<"root_rank", "int">>,
                  <<"is_not_empty", "int">>, <<"slots", "slots">>>>
<1>1. Len(l) = 6 /\ Len(w) = 6
  OBVIOUS
<1>2. \A i \in 1 .. 6 : l[i][1] = w[i][1] /\ w[i][2] = WrittenKind(l[i][2])
  BY DEF WrittenKind
<1>3. \A i \in 1 .. 6 : l[i][2] \in FieldKinds /\ l[i][1] \notin {"tag", "ref", "seq"}
  BY DEF FieldKinds
<1>4. \A i \in 1 .. 6, j \in 1 .. 6 : l[i][1] = l[j][1] => i = j
  OBVIOUS
<1>5. l \in Seq(FieldPairs) /\ w \in Seq(FieldPairs)
  BY DEF FieldPairs, FieldKinds
<1> HIDE DEF l, w
<1>6. Matching(l, w)
  BY <1>1, <1>2, <1>3, <1>4 DEF Matching
<1>7. Matching(Resume!Common(v) \o l, Resume!Common(v) \o w)
  <2>1. \A i \in 1 .. Len(l) : l[i][1] \notin {"ref", "seq"}
    BY <1>1, <1>3
  <2> QED BY <1>5, <1>6, <2>1, HeadMatches, HeadTyped
<1>8. Resume!Layout(v, Resume!RSAVE_ARRAY) = Resume!Common(v) \o l
  BY TagsDiffer, Zenon DEF Resume!Layout, l
<1>9. Resume!Written(v, Resume!RSAVE_ARRAY) = Resume!Common(v) \o w
  BY TagsDiffer, Zenon DEF Resume!Written, w
<1> QED BY <1>7, <1>8, <1>9

LEMMA StructMatch ==
  ASSUME NEW v \in Versions
  PROVE  Matching(Resume!Layout(v, Resume!RSAVE_STRUCT), Resume!Written(v, Resume!RSAVE_STRUCT))
<1> DEFINE l == <<<<"ctor", IF v = 4 THEN "id" ELSE "name">>,
                 <<"dtor", IF v = 4 THEN "id" ELSE "name">>, <<"uk", "zero">>,
                 <<"struct_type", IF v = 4 THEN "id" ELSE "name">>, <<"types", "ints">>,
                 <<"slots", "slots">>>>
           w == <<<<"ctor", "symbol">>, <<"dtor", "symbol">>, <<"uk", "int">>,
                  <<"struct_type", "symbol">>, <<"types", "ints">>, <<"slots", "slots">>>>
<1>1. Len(l) = 6 /\ Len(w) = 6
  OBVIOUS
<1>2. \A i \in 1 .. 6 : l[i][1] = w[i][1] /\ w[i][2] = WrittenKind(l[i][2])
  BY DEF WrittenKind
<1>3. \A i \in 1 .. 6 : l[i][2] \in FieldKinds /\ l[i][1] \notin {"tag", "ref", "seq"}
  BY DEF FieldKinds
<1>4. \A i \in 1 .. 6, j \in 1 .. 6 : l[i][1] = l[j][1] => i = j
  OBVIOUS
<1>5. l \in Seq(FieldPairs) /\ w \in Seq(FieldPairs)
  BY DEF FieldPairs, FieldKinds
<1> HIDE DEF l, w
<1>6. Matching(l, w)
  BY <1>1, <1>2, <1>3, <1>4 DEF Matching
<1>7. Matching(Resume!Common(v) \o l, Resume!Common(v) \o w)
  <2>1. \A i \in 1 .. Len(l) : l[i][1] \notin {"ref", "seq"}
    BY <1>1, <1>3
  <2> QED BY <1>5, <1>6, <2>1, HeadMatches, HeadTyped
<1>8. Resume!Layout(v, Resume!RSAVE_STRUCT) = Resume!Common(v) \o l
  BY TagsDiffer, Zenon DEF Resume!Layout, l
<1>9. Resume!Written(v, Resume!RSAVE_STRUCT) = Resume!Common(v) \o w
  BY TagsDiffer, Zenon DEF Resume!Written, w
<1> QED BY <1>7, <1>8, <1>9

LEMMA DelegateMatch ==
  ASSUME NEW v \in Versions
  PROVE  Matching(Resume!Layout(v, Resume!RSAVE_DELEGATE), Resume!Written(v, Resume!RSAVE_DELEGATE))
<1> DEFINE l == <<<<"ref", "int">>, <<"seq", "int">>, <<"slots", "slots">>>>
           w == <<<<"ref", "int">>, <<"seq", "int">>, <<"slots", "slots">>>>
<1>1. Len(l) = 3 /\ Len(w) = 3
  OBVIOUS
<1>2. \A i \in 1 .. 3 : l[i][1] = w[i][1] /\ w[i][2] = WrittenKind(l[i][2])
  BY DEF WrittenKind
<1>3. \A i \in 1 .. 3 : l[i][2] \in FieldKinds /\ l[i][1] \notin {"tag"}
  BY DEF FieldKinds
<1>4. \A i \in 1 .. 3, j \in 1 .. 3 : l[i][1] = l[j][1] => i = j
  OBVIOUS
<1>5. l \in Seq(FieldPairs) /\ w \in Seq(FieldPairs)
  BY DEF FieldPairs, FieldKinds
<1> HIDE DEF l, w
<1>6. Matching(l, w)
  BY <1>1, <1>2, <1>3, <1>4 DEF Matching
<1>7. Resume!Layout(v, Resume!RSAVE_DELEGATE) = l /\ Resume!Written(v, Resume!RSAVE_DELEGATE) = w
  BY TagsDiffer, Zenon DEF Resume!Layout, Resume!Written, l, w
<1> QED BY <1>6, <1>7

LEMMA LayoutMatches ==
  ASSUME NEW v, NEW tag, HasTag(v, tag)
  PROVE  Matching(Resume!Layout(v, tag), Resume!Written(v, tag))
<1>1. v \in Versions /\ tag \in 0 .. 5
  BY DEF HasTag
<1>2. CASE v >= 9
  BY <1>1, <1>2, TagsAre, GlobalsMatch, Locals9Match, StringMatch, ArrayMatch, StructMatch, DelegateMatch
<1>3. CASE ~(v >= 9)
  BY <1>1, <1>3, TagsAre, GlobalsMatch, LocalsMatch, StringMatch, ArrayMatch, StructMatch, DelegateMatch
<1> QED BY <1>2, <1>3

(* A field is written as it was read.                                      *)
NameOf(v, tag, j) == Resume!Layout(v, tag)[j][1]
KindOf(v, tag, j) == Resume!Layout(v, tag)[j][2]

FieldToks(kind, value) == Resume!FieldTokens(WrittenKind(kind), value)

\* The fields read so far, m of them, as they are written.
FieldsOf(v, o, m) == [j \in 1 .. m |-> FieldToks(KindOf(v, o.tag, j), o[NameOf(v, o.tag, j)])]

HasFields(v, o, m) == \A j \in 1 .. m : o[NameOf(v, o.tag, j)] \in FieldValues[KindOf(v, o.tag, j)]

IsPart(v, o, m) ==
  /\ HasTag(v, o.tag) /\ m \in 0 .. Len(Resume!Layout(v, o.tag))
  /\ DOMAIN o = {"tag"} \cup {NameOf(v, o.tag, j) : j \in 1 .. m}
  /\ IsFiniteSet(DOMAIN o) /\ Cardinality(DOMAIN o) = m + 1
  /\ HasFields(v, o, m)

LEMMA FieldTokensAre ==
  ASSUME NEW x
  PROVE  /\ Resume!FieldTokens("int", x) = <<Resume!I32(x)>>
         /\ Resume!FieldTokens("symbol", x) = Resume!SymbolTokens(x)
         /\ Resume!FieldTokens("ints", x) = Resume!CountedTokens(Resume!I32s(x))
         /\ Resume!FieldTokens("slots", x) = Joined(<<Resume!I32(4 * Len(x))>>, Resume!I32s(x))
         /\ Resume!FieldTokens("bytes", x) = <<Resume!I32(Len(x)), [kind |-> "bytes", v |-> x]>>
<1>1. /\ "int" # "symbol" /\ "int" # "ints" /\ "int" # "slots" /\ "int" # "bytes"
      /\ "symbol" # "ints" /\ "symbol" # "slots" /\ "symbol" # "bytes"
      /\ "ints" # "slots" /\ "ints" # "bytes" /\ "slots" # "bytes"
  OBVIOUS
<1>2. Resume!FieldTokens("int", x) = <<Resume!I32(x)>>
  BY <1>1, Zenon DEF Resume!FieldTokens
<1>3. Resume!FieldTokens("symbol", x) = Resume!SymbolTokens(x)
  BY <1>1, Zenon DEF Resume!FieldTokens
<1>4. Resume!FieldTokens("ints", x) = Resume!CountedTokens(Resume!I32s(x))
  BY <1>1, Zenon DEF Resume!FieldTokens
<1>5. Resume!FieldTokens("slots", x) = Joined(<<Resume!I32(4 * Len(x))>>, Resume!I32s(x))
  BY <1>1, Zenon DEF Resume!FieldTokens, Joined
<1>6. Resume!FieldTokens("bytes", x) = <<Resume!I32(Len(x)), [kind |-> "bytes", v |-> x]>>
  BY <1>1, Zenon DEF Resume!FieldTokens
<1> QED BY <1>2, <1>3, <1>4, <1>5, <1>6

\* What a field of each kind is written as.
LEMMA FieldToksAre ==
  ASSUME NEW x
  PROVE  /\ \A kind \in {"int", "flag", "zero"} : FieldToks(kind, x) = <<Resume!I32(x)>>
         /\ \A kind \in {"id", "none", "name"} : FieldToks(kind, x) = Resume!SymbolTokens(x)
         /\ FieldToks("ints", x) = Resume!CountedTokens(Resume!I32s(x))
         /\ FieldToks("slots", x) = Joined(<<Resume!I32(4 * Len(x))>>, Resume!I32s(x))
         /\ FieldToks("bytes", x) = <<Resume!I32(Len(x)), [kind |-> "bytes", v |-> x]>>
<1>1. /\ \A kind \in {"int", "flag", "zero"} : WrittenKind(kind) = "int"
      /\ \A kind \in {"id", "none", "name"} : WrittenKind(kind) = "symbol"
      /\ WrittenKind("ints") = "ints" /\ WrittenKind("slots") = "slots" /\ WrittenKind("bytes") = "bytes"
  BY DEF WrittenKind
<1> QED BY <1>1, FieldTokensAre, Zenon DEF FieldToks

LEMMA NullIsNoName == NULL \notin STRING
BY SavesAssumption

LEMMA SymbolIs ==
  /\ \A n \in Int : Resume!SymbolTokens([name |-> NULL, id |-> n]) = <<Resume!I32(n)>>
  /\ \A t \in STRING, n \in Int : Resume!SymbolTokens([name |-> t, id |-> n]) = <<Resume!Text(t)>>
BY NullIsNoName DEF Resume!SymbolTokens

LEMMA FieldValuesAre ==
  /\ FieldValues["id"] = [name : {NULL}, id : Int]
  /\ FieldValues["none"] = [name : {NULL}, id : {-1}]
  /\ FieldValues["name"] = [name : STRING, id : {0}]
<1>1. FieldValues["id"] = [name : {NULL}, id : Int]
  BY DEF FieldValues
<1>2. FieldValues["none"] = [name : {NULL}, id : {-1}]
  BY DEF FieldValues
<1>3. FieldValues["name"] = [name : STRING, id : {0}]
  BY DEF FieldValues
<1> QED BY <1>1, <1>2, <1>3

LEMMA FieldTyped ==
  ASSUME NEW kind \in FieldKinds, NEW x \in FieldValues[kind]
  PROVE  FieldToks(kind, x) \in Seq(RTokens)
<1>1. CASE kind \in {"int", "flag", "zero"}
  <2>1. x \in Int
    BY <1>1 DEF FieldValues
  <2>2. Resume!I32(x) \in RTokens
    BY <2>1, ResumeTokens
  <2>3. <<Resume!I32(x)>> \in Seq(RTokens)
    BY <2>2, OneToken
  <2> QED BY <1>1, <2>3, FieldToksAre
<1>2. CASE kind \in {"id", "none", "name"}
  <2>1. (\E n \in Int : x = [name |-> NULL, id |-> n]) \/ (\E t \in STRING : x = [name |-> t, id |-> 0])
    <3>1. x \in [name : {NULL}, id : Int] \/ x \in [name : {NULL}, id : {-1}] \/ x \in [name : STRING, id : {0}]
      BY <1>2, FieldValuesAre, Zenon
    <3>2. ASSUME x \in [name : {NULL}, id : Int] PROVE \E n \in Int : x = [name |-> NULL, id |-> n]
      <4>1. x = [name |-> NULL, id |-> x.id] /\ x.id \in Int
        BY <3>2
      <4> QED BY <4>1
    <3>3. ASSUME x \in [name : {NULL}, id : {-1}] PROVE \E n \in Int : x = [name |-> NULL, id |-> n]
      <4>1. x = [name |-> NULL, id |-> -1] /\ -1 \in Int
        BY <3>3
      <4> QED BY <4>1
    <3>4. ASSUME x \in [name : STRING, id : {0}] PROVE \E t \in STRING : x = [name |-> t, id |-> 0]
      <4>1. x = [name |-> x.name, id |-> 0] /\ x.name \in STRING
        BY <3>4
      <4> QED BY <4>1
    <3> QED BY <3>1, <3>2, <3>3, <3>4
  <2>2. Resume!SymbolTokens(x) \in Seq(RTokens)
    <3>1. CASE \E n \in Int : x = [name |-> NULL, id |-> n]
      <4>1. PICK n \in Int : x = [name |-> NULL, id |-> n]
        BY <3>1
      <4>2. Resume!SymbolTokens(x) = <<Resume!I32(n)>> /\ Resume!I32(n) \in RTokens
        BY <4>1, SymbolIs, ResumeTokens
      <4> QED BY <4>2, OneToken
    <3>2. CASE \E t \in STRING : x = [name |-> t, id |-> 0]
      <4>1. PICK t \in STRING : x = [name |-> t, id |-> 0]
        BY <3>2
      <4>2. Resume!SymbolTokens(x) = <<Resume!Text(t)>> /\ Resume!Text(t) \in RTokens
        <5>1. 0 \in Int
          OBVIOUS
        <5> QED BY <4>1, <5>1, SymbolIs, ResumeTokens
      <4> QED BY <4>2, OneToken
    <3> QED BY <2>1, <3>1, <3>2
  <2> QED BY <1>2, <2>2, FieldToksAre
<1>3. CASE kind \in {"ints", "slots", "bytes"}
  <2>1. x \in Seq(Int) /\ Len(x) \in Int /\ 4 * Len(x) \in Int
    BY <1>3 DEF FieldValues
  <2>2. Resume!I32s(x) \in Seq(RTokens)
    BY <2>1, ResumeInts
  <2>3. Resume!CountedTokens(Resume!I32s(x)) \in Seq(RTokens)
    BY <2>2, ResumeCounted
  <2>4. Joined(<<Resume!I32(4 * Len(x))>>, Resume!I32s(x)) \in Seq(RTokens)
    <3>1. <<Resume!I32(4 * Len(x))>> \in Seq(RTokens)
      BY <2>1, ResumeTokens, OneToken
    <3> QED BY <2>2, <3>1, JoinedTyped
  <2>5. <<Resume!I32(Len(x)), [kind |-> "bytes", v |-> x]>> \in Seq(RTokens)
    <3>1. Resume!I32(Len(x)) \in RTokens /\ [kind |-> "bytes", v |-> x] \in RTokens
      BY <2>1, ResumeTokens
    <3> QED BY <3>1
  <2> QED BY <1>3, <2>3, <2>4, <2>5, FieldToksAre
<1> QED BY <1>1, <1>2, <1>3 DEF FieldKinds

LEMMA FieldsTyped ==
  ASSUME NEW v, NEW o, NEW m \in Nat, HasTag(v, o.tag), m <= Len(Resume!Layout(v, o.tag)), HasFields(v, o, m)
  PROVE  FieldsOf(v, o, m) \in Seq(Seq(RTokens)) /\ Len(FieldsOf(v, o, m)) = m
<1> DEFINE f == FieldsOf(v, o, m)
<1>1. \A j \in 1 .. m : KindOf(v, o.tag, j) \in FieldKinds
  BY LayoutMatches DEF Matching, KindOf
<1>2. \A j \in 1 .. m : FieldToks(KindOf(v, o.tag, j), o[NameOf(v, o.tag, j)]) \in Seq(RTokens)
  BY <1>1, FieldTyped DEF HasFields
<1>3. f = [j \in 1 .. m |-> f[j]] /\ \A j \in 1 .. m : f[j] \in Seq(RTokens)
  BY <1>2 DEF FieldsOf
<1> HIDE DEF f
<1>4. f \in Seq(Seq(RTokens)) /\ Len(f) = m
  BY <1>3, SeqOf
<1> QED BY <1>4 DEF f

LEMMA ObjectIs ==
  ASSUME NEW v, NEW o, HasTag(v, o.tag)
  PROVE  Resume!ObjectTokens(v, o)
         = Joined(<<Resume!I32(o.tag)>>, Flat(FieldsOf(v, o, Len(Resume!Layout(v, o.tag)))))
<1> DEFINE l == Resume!Layout(v, o.tag)
           w == Resume!Written(v, o.tag)
           f == [j \in 1 .. Len(w) |-> Resume!FieldTokens(w[j][2], o[w[j][1]])]
<1>1. Matching(l, w)
  BY LayoutMatches
<1>2. Resume!ObjectTokens(v, o) = Joined(<<Resume!I32(o.tag)>>, Flat(f))
  BY Zenon DEF Resume!ObjectTokens, Resume!Map, Joined, Flat
<1> HIDE DEF l, w
<1>3. f = [j \in 1 .. Len(l) |-> FieldToks(l[j][2], o[l[j][1]])]
  BY <1>1 DEF FieldToks, Matching
<1>4. f = FieldsOf(v, o, Len(l))
  BY <1>3 DEF FieldsOf, KindOf, NameOf, l
<1> QED BY <1>2, <1>4 DEF l

IsAppended(b, a, t) ==
  LET m == Len(a) IN
  b = [j \in 1 .. m + 1 |-> b[j]] /\ b[m + 1] = t /\ \A j \in 1 .. m : b[j] = a[j]

LEMMA AppendIs ==
  ASSUME NEW S, NEW a \in Seq(S), NEW t \in S, NEW b, IsAppended(b, a, t)
  PROVE  b = Append(a, t)
<1> DEFINE m == Len(a)
<1>0. b = [j \in 1 .. m + 1 |-> b[j]] /\ b[m + 1] = t /\ \A j \in 1 .. m : b[j] = a[j]
  BY DEF IsAppended
<1> DEFINE c == Append(a, t)
           n == m + 1
<1>1. n \in Nat /\ \A j \in 1 .. n : j # n => j \in 1 .. m
  OBVIOUS
<1>2. c \in Seq(S) /\ Len(c) = n /\ \A j \in 1 .. n : c[j] = IF j = n THEN t ELSE a[j]
  OBVIOUS
<1>3. \A j \in 1 .. n : b[j] \in S
  <2>1. \A j \in 1 .. m : a[j] \in S
    OBVIOUS
  <2> QED BY <1>0, <1>1, <2>1
<1>4. b = [j \in 1 .. n |-> b[j]] /\ \A j \in 1 .. n : b[j] = IF j = n THEN t ELSE a[j]
  BY <1>0, <1>1
<1> HIDE DEF c, n
<1>5. b \in Seq(S) /\ Len(b) = n
  BY <1>1, <1>3, <1>4, SeqOf
<1>6. \A j \in 1 .. n : b[j] = c[j]
  BY <1>2, <1>4
<1> QED BY <1>2, <1>5, <1>6, SeqEqual DEF c

\* The next field of part o, of a name and a value, makes it o2.
PartGrown(v, o, m, name, value, o2) ==
  /\ IsPart(v, o2, m + 1) /\ o2.tag = o.tag
  /\ FieldsOf(v, o2, m + 1) = Append(FieldsOf(v, o, m), FieldToks(KindOf(v, o.tag, m + 1), value))

LEMMA PartGrows ==
  ASSUME NEW v, NEW o, NEW m \in Nat, IsPart(v, o, m), m + 1 <= Len(Resume!Layout(v, o.tag)),
         NEW name, name = NameOf(v, o.tag, m + 1),
         NEW value \in FieldValues[KindOf(v, o.tag, m + 1)],
         NEW o2, o2 = [f \in DOMAIN o \cup {name} |-> IF f = name THEN value ELSE o[f]]
  PROVE  PartGrown(v, o, m, name, value, o2)
<1> DEFINE tag == o.tag
           l == Resume!Layout(v, tag)
<1>1. /\ Len(l) \in Nat
      /\ \A i \in 1 .. Len(l) : NameOf(v, tag, i) # "tag"
      /\ \A i \in 1 .. Len(l), j \in 1 .. Len(l) : NameOf(v, tag, i) = NameOf(v, tag, j) => i = j
  <2>1. Matching(l, Resume!Written(v, tag))
    BY LayoutMatches DEF IsPart
  <2> QED BY <2>1 DEF Matching, NameOf
<1>2. /\ HasTag(v, tag) /\ DOMAIN o = {"tag"} \cup {NameOf(v, tag, j) : j \in 1 .. m}
      /\ IsFiniteSet(DOMAIN o) /\ Cardinality(DOMAIN o) = m + 1 /\ m \in 0 .. Len(l)
      /\ \A j \in 1 .. m : o[NameOf(v, tag, j)] \in FieldValues[KindOf(v, tag, j)]
  BY DEF IsPart, HasFields
<1> HIDE DEF l
<1>3. name \notin DOMAIN o /\ m + 1 \in 1 .. Len(l)
  <2>1. m + 1 \in 1 .. Len(l) /\ \A j \in 1 .. m : j \in 1 .. Len(l) /\ j # m + 1
    BY <1>1 DEF l
  <2> QED BY <1>1, <1>2, <2>1
<1>4. /\ DOMAIN o2 = DOMAIN o \cup {name} /\ o2[name] = value
      /\ \A f \in DOMAIN o : o2[f] = o[f]
  BY <1>3
<1>5. o2.tag = tag
  BY <1>2, <1>4
<1>6. IsFiniteSet(DOMAIN o2) /\ Cardinality(DOMAIN o2) = m + 1 + 1
  <2>1. /\ IsFiniteSet(DOMAIN o \cup {name})
        /\ Cardinality(DOMAIN o \cup {name})
           = IF name \in DOMAIN o THEN Cardinality(DOMAIN o) ELSE Cardinality(DOMAIN o) + 1
    BY <1>2, FS_AddElement, Zenon
  <2>2. IsFiniteSet(DOMAIN o2) /\ Cardinality(DOMAIN o2) = Cardinality(DOMAIN o) + 1
    BY <1>3, <1>4, <2>1, Zenon
  <2> QED BY <1>2, <2>2
<1>7. DOMAIN o2 = {"tag"} \cup {NameOf(v, tag, j) : j \in 1 .. m + 1}
  <2>1. 1 .. m + 1 = (1 .. m) \cup {m + 1}
    OBVIOUS
  <2> QED BY <1>2, <1>4, <2>1, Zenon
<1>8. ASSUME NEW j \in 1 .. m + 1
      PROVE  o2[NameOf(v, tag, j)] = IF j = m + 1 THEN value ELSE o[NameOf(v, tag, j)]
  <2>1. CASE j = m + 1
    BY <1>4, <2>1
  <2>2. CASE j # m + 1
    <3>1. j \in 1 .. m
      BY <2>2
    <3> QED BY <1>2, <1>4, <2>2, <3>1
  <2> QED BY <2>1, <2>2
<1>9. HasFields(v, o2, m + 1)
  <2> SUFFICES ASSUME NEW j \in 1 .. m + 1
               PROVE  o2[NameOf(v, tag, j)] \in FieldValues[KindOf(v, tag, j)]
    BY <1>5 DEF HasFields
  <2>1. CASE j = m + 1
    BY <1>8, <2>1
  <2>2. CASE j # m + 1
    <3>1. j \in 1 .. m
      BY <2>2
    <3> QED BY <1>2, <1>8, <2>2, <3>1
  <2> QED BY <2>1, <2>2
<1>10. IsPart(v, o2, m + 1)
  <2>1. m + 1 \in 0 .. Len(l)
    BY <1>1, <1>3
  <2> QED BY <1>2, <1>5, <1>6, <1>7, <1>9, <2>1 DEF IsPart, l
<1> DEFINE a == FieldsOf(v, o, m)
           t == FieldToks(KindOf(v, tag, m + 1), value)
           b == FieldsOf(v, o2, m + 1)
<1>11. a \in Seq(Seq(RTokens)) /\ Len(a) = m
  <2>1. HasFields(v, o, m) /\ HasTag(v, o.tag) /\ m <= Len(Resume!Layout(v, o.tag))
    BY <1>2 DEF HasFields, l
  <2> QED BY <2>1, FieldsTyped
<1>12. b = Append(a, t)
  <2>1. b = [j \in 1 .. m + 1 |-> b[j]]
    BY DEF FieldsOf
  <2>2. \A j \in 1 .. m + 1 : b[j] = FieldToks(KindOf(v, tag, j), o2[NameOf(v, tag, j)])
    BY <1>5 DEF FieldsOf
  <2>3. \A j \in 1 .. m : a[j] = FieldToks(KindOf(v, tag, j), o[NameOf(v, tag, j)])
    BY DEF FieldsOf
  <2> HIDE DEF a, b
  <2>4. \A j \in 1 .. m : b[j] = a[j]
    <3> SUFFICES ASSUME NEW j \in 1 .. m PROVE b[j] = a[j]
      OBVIOUS
    <3>1. j \in 1 .. m + 1 /\ j # m + 1
      OBVIOUS
    <3>2. o2[NameOf(v, tag, j)] = o[NameOf(v, tag, j)]
      BY <1>8, <3>1
    <3>3. b[j] = FieldToks(KindOf(v, tag, j), o[NameOf(v, tag, j)])
      BY <2>2, <3>1, <3>2
    <3> QED BY <2>3, <3>3
  <2>6. b[m + 1] = t
    <3>1. m + 1 \in 1 .. m + 1
      OBVIOUS
    <3>2. o2[NameOf(v, tag, m + 1)] = value
      BY <1>8, <3>1
    <3> QED BY <2>2, <3>1, <3>2
  <2>5. t \in Seq(RTokens)
    <3>1. KindOf(v, tag, m + 1) \in FieldKinds
      BY <1>2, <1>3, LayoutMatches DEF Matching, KindOf, l
    <3> QED BY <3>1, FieldTyped
  <2> HIDE DEF t
  <2>7. IsAppended(b, a, t)
    BY <1>11, <2>1, <2>4, <2>6 DEF IsAppended
  <2> QED BY <1>11, <2>5, <2>7, AppendIs
<1> QED BY <1>5, <1>10, <1>12 DEF PartGrown

(* Call frames: a method call has the next pointer.                        *)
CallsOf(m, b) == {j \in 1 .. m : b[j] = Resume!RSAVE_METHOD_CALL}

LEMMA CardinalityIs ==
  ASSUME NEW S
  PROVE  Resume!Cardinality(S) = Cardinality(S)
BY Zenon DEF Resume!Cardinality, Cardinality

LEMMA CallsFinite ==
  ASSUME NEW m \in Nat, NEW b
  PROVE  /\ IsFiniteSet(CallsOf(m, b)) /\ Resume!Calls(m, b) = Cardinality(CallsOf(m, b))
         /\ Resume!Calls(m, b) \in Nat
<1>1. IsFiniteSet(1 .. m)
  BY FS_Interval
<1>2. CallsOf(m, b) \subseteq 1 .. m
  BY DEF CallsOf
<1>3. IsFiniteSet(CallsOf(m, b)) /\ Cardinality(CallsOf(m, b)) \in Nat
  BY <1>1, <1>2, FS_Subset, FS_CardinalityType
<1>4. Resume!Calls(m, b) = Cardinality(CallsOf(m, b))
  BY CardinalityIs DEF CallsOf, Resume!Calls
<1> QED BY <1>3, <1>4

LEMMA NoCalls ==
  ASSUME NEW b
  PROVE  Resume!Calls(0, b) = 0
<1>1. CallsOf(0, b) = {}
  BY DEF CallsOf
<1> QED BY <1>1, CallsFinite, FS_EmptySet

LEMMA CallsGrow ==
  ASSUME NEW m \in Nat, NEW b
  PROVE  Resume!Calls(m + 1, b) = IF b[m + 1] = Resume!RSAVE_METHOD_CALL THEN Resume!Calls(m, b) + 1
                                  ELSE Resume!Calls(m, b)
<1>1. 1 .. m + 1 = (1 .. m) \cup {m + 1} /\ m + 1 \notin 1 .. m /\ m + 1 \in Nat
  OBVIOUS
<1>2. CASE b[m + 1] = Resume!RSAVE_METHOD_CALL
  <2>1. CallsOf(m + 1, b) = CallsOf(m, b) \cup {m + 1} /\ m + 1 \notin CallsOf(m, b)
    BY <1>1, <1>2, Zenon DEF CallsOf
  <2>2. Cardinality(CallsOf(m, b) \cup {m + 1}) = Cardinality(CallsOf(m, b)) + 1
    BY <2>1, CallsFinite, FS_AddElement
  <2> QED BY <1>1, <1>2, <2>1, <2>2, CallsFinite
<1>3. CASE b[m + 1] # Resume!RSAVE_METHOD_CALL
  <2>1. CallsOf(m + 1, b) = CallsOf(m, b)
    BY <1>1, <1>3, Zenon DEF CallsOf
  <2> QED BY <1>1, <1>3, <2>1, CallsFinite
<1> QED BY <1>2, <1>3

LEMMA CallsWithin ==
  ASSUME NEW n \in Nat, NEW m \in 0 .. n, NEW b
  PROVE  Resume!Calls(m, b) <= Resume!Calls(n, b)
<1>1. CallsOf(m, b) \subseteq CallsOf(n, b)
  BY DEF CallsOf
<1>2. m \in Nat
  OBVIOUS
<1> QED BY <1>1, <1>2, CallsFinite, FS_Subset

PtrToks(f) == IF f.type = Resume!RSAVE_METHOD_CALL THEN <<Resume!I32(f.ptr)>> ELSE <<>>
Ptrs(frames, m) == [i \in 1 .. m |-> PtrToks(frames[i])]

LEMMA FrameTokensAre ==
  ASSUME NEW fs
  PROVE  Resume!FrameTokens(fs)
         = Joined(Joined(Resume!CountedTokens([i \in 1 .. Len(fs) |-> Resume!I32(fs[i].local)]),
                         Resume!CountedTokens([i \in 1 .. Len(fs) |-> Resume!I32(fs[i].type)])),
                  Resume!CountedTokens(Flat(Ptrs(fs, Len(fs)))))
BY Zenon DEF Resume!FrameTokens, Resume!Map, Joined, Flat, Ptrs, PtrToks

LEMMA PointersWritten ==
  ASSUME NEW a, NEW b \in Seq(Int), NEW c \in Seq(Int), Len(c) = Resume!Calls(Len(b), b)
  PROVE  Flat(Ptrs(Resume!Frames(a, b, c), Len(b))) = Resume!I32s(c)
<1> DEFINE n == Len(b)
           fr == Resume!Frames(a, b, c)
           N(m) == Resume!Calls(m, b)
           t == Resume!I32s(c)
           Q == {m \in Nat : m <= n => /\ Ptrs(fr, m) \in Seq(Seq(RTokens)) /\ Len(Ptrs(fr, m)) = m
                                       /\ Flat(Ptrs(fr, m)) = ReadOf(t, N(m))}
<1>1. n \in Nat /\ t \in Seq(RTokens) /\ Len(t) = N(n) /\ \A k \in 1 .. N(n) : t[k] = Resume!I32(c[k])
  BY ResumeInts
<1>2. ASSUME NEW i \in 1 .. n
      PROVE  PtrToks(fr[i]) = IF b[i] = Resume!RSAVE_METHOD_CALL THEN <<Resume!I32(c[N(i)])>> ELSE <<>>
  <2>1. fr[i] = [type |-> b[i], local |-> a[i],
                 ptr |-> IF b[i] = Resume!RSAVE_METHOD_CALL THEN c[N(i)] ELSE -1]
    BY Zenon DEF Resume!Frames
  <2> QED BY <2>1 DEF PtrToks
<1> HIDE DEF fr, t
<1>3. 0 \in Q
  <2>1. Ptrs(fr, 0) = <<>> /\ ReadOf(t, N(0)) = <<>>
    BY NoCalls DEF Ptrs, ReadOf
  <2>2. Ptrs(fr, 0) \in Seq(Seq(RTokens)) /\ Len(Ptrs(fr, 0)) = 0 /\ Flat(Ptrs(fr, 0)) = ReadOf(t, N(0))
    <3>1. <<>> \in Seq(Seq(RTokens)) /\ Len(<<>>) = 0
      OBVIOUS
    <3> QED BY <2>1, <3>1, FlatEmpty, Zenon
  <2> QED BY <2>2
<1>4. ASSUME NEW m \in Q PROVE m + 1 \in Q
  <2> SUFFICES ASSUME m + 1 <= n
               PROVE  /\ Ptrs(fr, m + 1) \in Seq(Seq(RTokens)) /\ Len(Ptrs(fr, m + 1)) = m + 1
                      /\ Flat(Ptrs(fr, m + 1)) = ReadOf(t, N(m + 1))
    OBVIOUS
  <2>1. m \in Nat /\ m + 1 \in 1 .. n /\ m <= n /\ m + 1 \in 0 .. n
    BY <1>1
  <2> DEFINE p == Ptrs(fr, m)
             q == Ptrs(fr, m + 1)
             u == PtrToks(fr[m + 1])
  <2>2. p \in Seq(Seq(RTokens)) /\ Len(p) = m /\ Flat(p) = ReadOf(t, N(m))
    BY <2>1
  <2>3. N(m) \in Nat /\ N(m + 1) \in Nat /\ N(m + 1) <= N(n)
        /\ N(m + 1) = IF b[m + 1] = Resume!RSAVE_METHOD_CALL THEN N(m) + 1 ELSE N(m)
    BY <1>1, <2>1, CallsFinite, CallsGrow, CallsWithin
  <2>4. u \in Seq(RTokens) /\ ReadOf(t, N(m + 1)) = Joined(ReadOf(t, N(m)), u)
    <3>1. CASE b[m + 1] = Resume!RSAVE_METHOD_CALL
      <4>1. N(m) + 1 \in 1 .. N(n) /\ N(m + 1) = N(m) + 1
        BY <2>3, <3>1
      <4>2. u = <<Resume!I32(c[N(m) + 1])>> /\ t[N(m) + 1] = Resume!I32(c[N(m) + 1])
        BY <1>1, <1>2, <2>1, <3>1, <4>1
      <4>3. t[N(m) + 1] \in RTokens
        BY <1>1, <4>1
      <4>4. u \in Seq(RTokens) /\ Len(u) = 1
        BY <4>2, <4>3, OneToken
      <4>5. Follows(t, N(m), u)
        BY <1>1, <2>3, <4>1, <4>2, FollowsOne
      <4>6. ReadOf(t, N(m) + Len(u)) = Joined(ReadOf(t, N(m)), u)
        BY <1>1, <2>3, <4>4, <4>5, ReadMore
      <4> QED BY <4>1, <4>4, <4>6
    <3>2. CASE b[m + 1] # Resume!RSAVE_METHOD_CALL
      <4>1. u = <<>> /\ N(m + 1) = N(m)
        BY <1>2, <2>1, <2>3, <3>2
      <4>2. Flat(p) \in Seq(RTokens)
        BY <2>2, FlatInSeq
      <4> QED BY <2>2, <4>1, <4>2, JoinedNone
    <3> QED BY <3>1, <3>2
  <2>5. q = Append(p, u)
    <3>1. q = [j \in 1 .. m + 1 |-> q[j]] /\ q[m + 1] = u /\ \A j \in 1 .. m : q[j] = p[j]
      BY <2>1 DEF Ptrs
    <3> HIDE DEF p, q, u
    <3>2. IsAppended(q, p, u)
      BY <2>2, <3>1 DEF IsAppended
    <3> QED BY <2>2, <2>4, <3>2, AppendIs
  <2> HIDE DEF p, q, u
  <2>6. q \in Seq(Seq(RTokens)) /\ Len(q) = m + 1
    <3>1. q \in Seq(Seq(RTokens)) /\ Len(q) = Len(p) + 1
      BY <2>2, <2>4, <2>5, AppendProperties
    <3> QED BY <2>2, <3>1
  <2>7. Flat(q) = Joined(Flat(p), u)
    BY <2>2, <2>4, <2>5, FlatAppend
  <2> QED BY <2>2, <2>4, <2>6, <2>7 DEF q
<1>5. Q \subseteq Nat
  OBVIOUS
<1> HIDE DEF Q
<1>6. Q = Nat
  BY <1>3, <1>4, <1>5, Counting
<1>7. Flat(Ptrs(fr, n)) = ReadOf(t, N(n))
  <2>1. n \in Q /\ n <= n
    BY <1>1, <1>6
  <2> QED BY <2>1 DEF Q
<1>8. ReadOf(t, N(n)) = t
  <2>1. ReadOf(t, Len(t)) = t
    BY <1>1, ReadAll
  <2> QED BY <1>1, <2>1
<1> QED BY <1>7, <1>8 DEF fr, t

LEMMA FramesWritten ==
  ASSUME NEW a \in Seq(Int), NEW b \in Seq(Int), NEW c \in Seq(Int), Len(a) = Len(b),
         Len(c) = Resume!Calls(Len(b), b)
  PROVE  Resume!FrameTokens(Resume!Frames(a, b, c))
         = Joined(Joined(Resume!CountedTokens(Resume!I32s(a)), Resume!CountedTokens(Resume!I32s(b))),
                  Resume!CountedTokens(Resume!I32s(c)))
<1> DEFINE fr == Resume!Frames(a, b, c)
           n == Len(b)
<1>1. fr = [i \in 1 .. n |-> fr[i]] /\ \A i \in 1 .. n : fr[i].local = a[i] /\ fr[i].type = b[i]
  BY DEF Resume!Frames
<1>2. Flat(Ptrs(fr, n)) = Resume!I32s(c)
  BY PointersWritten
<1>3. n \in Nat /\ Len(fr) = n
  <2>1. n \in Nat
    OBVIOUS
  <2> HIDE DEF n, fr
  <2> QED BY <1>1, <2>1
<1> HIDE DEF fr
<1>4. [i \in 1 .. Len(fr) |-> Resume!I32(fr[i].local)] = Resume!I32s(a)
  BY <1>1, <1>3 DEF Resume!I32s
<1>5. [i \in 1 .. Len(fr) |-> Resume!I32(fr[i].type)] = Resume!I32s(b)
  BY <1>1, <1>3 DEF Resume!I32s
<1> QED BY <1>2, <1>3, <1>4, <1>5, FrameTokensAre DEF fr

-----------------------------------------------------------------------------
(* The parser: what was read is what rsave_write makes of the save so far. *)
IsSave(x) ==
  x = [version |-> x.version, comments |-> x.comments, comments_only |-> x.comments_only, ip |-> x.ip,
       stack |-> x.stack, frames |-> x.frames, returns |-> x.returns, next_seq |-> x.next_seq,
       heap |-> x.heap, funcs |-> x.funcs]

\* A save with one field changed.
WithVersion(x, value) == [x EXCEPT !.version = value]
WithComments(x, value) == [x EXCEPT !.comments = value]
WithCommentsOnly(x) == [x EXCEPT !.comments_only = TRUE]
WithIp(x, value) == [x EXCEPT !.ip = value]
WithStack(x, value) == [x EXCEPT !.stack = value]
WithFrames(x, value) == [x EXCEPT !.frames = value]
WithReturns(x, value) == [x EXCEPT !.returns = value]
WithNextSeq(x, value) == [x EXCEPT !.next_seq = value]
WithHeap(x, value) == [x EXCEPT !.heap = value]
WithFuncs(x, value) == [x EXCEPT !.funcs = value]

LEMMA SetVersion ==
  ASSUME NEW x, IsSave(x), NEW value, NEW z, z = WithVersion(x, value)
  PROVE  /\ IsSave(z) /\ z.version = value
         /\ z.comments = x.comments /\ z.comments_only = x.comments_only /\ z.ip = x.ip
         /\ z.stack = x.stack /\ z.frames = x.frames /\ z.returns = x.returns
         /\ z.next_seq = x.next_seq /\ z.heap = x.heap /\ z.funcs = x.funcs
BY DEF IsSave, WithVersion

LEMMA SetComments ==
  ASSUME NEW x, IsSave(x), NEW value, NEW z, z = WithComments(x, value)
  PROVE  /\ IsSave(z) /\ z.comments = value
         /\ z.version = x.version /\ z.comments_only = x.comments_only /\ z.ip = x.ip
         /\ z.stack = x.stack /\ z.frames = x.frames /\ z.returns = x.returns
         /\ z.next_seq = x.next_seq /\ z.heap = x.heap /\ z.funcs = x.funcs
BY DEF IsSave, WithComments

LEMMA SetCommentsOnly ==
  ASSUME NEW x, IsSave(x), NEW z, z = WithCommentsOnly(x)
  PROVE  /\ IsSave(z) /\ z.comments_only
         /\ z.version = x.version /\ z.comments = x.comments /\ z.ip = x.ip /\ z.stack = x.stack
         /\ z.frames = x.frames /\ z.returns = x.returns /\ z.next_seq = x.next_seq
         /\ z.heap = x.heap /\ z.funcs = x.funcs
BY DEF IsSave, WithCommentsOnly

LEMMA SetIp ==
  ASSUME NEW x, IsSave(x), NEW value, NEW z, z = WithIp(x, value)
  PROVE  /\ IsSave(z) /\ z.ip = value
         /\ z.version = x.version /\ z.comments = x.comments
         /\ z.comments_only = x.comments_only /\ z.stack = x.stack /\ z.frames = x.frames
         /\ z.returns = x.returns /\ z.next_seq = x.next_seq /\ z.heap = x.heap
         /\ z.funcs = x.funcs
BY DEF IsSave, WithIp

LEMMA SetStack ==
  ASSUME NEW x, IsSave(x), NEW value, NEW z, z = WithStack(x, value)
  PROVE  /\ IsSave(z) /\ z.stack = value
         /\ z.version = x.version /\ z.comments = x.comments
         /\ z.comments_only = x.comments_only /\ z.ip = x.ip /\ z.frames = x.frames
         /\ z.returns = x.returns /\ z.next_seq = x.next_seq /\ z.heap = x.heap
         /\ z.funcs = x.funcs
BY DEF IsSave, WithStack

LEMMA SetFrames ==
  ASSUME NEW x, IsSave(x), NEW value, NEW z, z = WithFrames(x, value)
  PROVE  /\ IsSave(z) /\ z.frames = value
         /\ z.version = x.version /\ z.comments = x.comments
         /\ z.comments_only = x.comments_only /\ z.ip = x.ip /\ z.stack = x.stack
         /\ z.returns = x.returns /\ z.next_seq = x.next_seq /\ z.heap = x.heap
         /\ z.funcs = x.funcs
BY DEF IsSave, WithFrames

LEMMA SetReturns ==
  ASSUME NEW x, IsSave(x), NEW value, NEW z, z = WithReturns(x, value)
  PROVE  /\ IsSave(z) /\ z.returns = value
         /\ z.version = x.version /\ z.comments = x.comments
         /\ z.comments_only = x.comments_only /\ z.ip = x.ip /\ z.stack = x.stack
         /\ z.frames = x.frames /\ z.next_seq = x.next_seq /\ z.heap = x.heap
         /\ z.funcs = x.funcs
BY DEF IsSave, WithReturns

LEMMA SetNextSeq ==
  ASSUME NEW x, IsSave(x), NEW value, NEW z, z = WithNextSeq(x, value)
  PROVE  /\ IsSave(z) /\ z.next_seq = value
         /\ z.version = x.version /\ z.comments = x.comments
         /\ z.comments_only = x.comments_only /\ z.ip = x.ip /\ z.stack = x.stack
         /\ z.frames = x.frames /\ z.returns = x.returns /\ z.heap = x.heap /\ z.funcs = x.funcs
BY DEF IsSave, WithNextSeq

LEMMA SetHeap ==
  ASSUME NEW x, IsSave(x), NEW value, NEW z, z = WithHeap(x, value)
  PROVE  /\ IsSave(z) /\ z.heap = value
         /\ z.version = x.version /\ z.comments = x.comments
         /\ z.comments_only = x.comments_only /\ z.ip = x.ip /\ z.stack = x.stack
         /\ z.frames = x.frames /\ z.returns = x.returns /\ z.next_seq = x.next_seq
         /\ z.funcs = x.funcs
BY DEF IsSave, WithHeap

LEMMA SetFuncs ==
  ASSUME NEW x, IsSave(x), NEW value, NEW z, z = WithFuncs(x, value)
  PROVE  /\ IsSave(z) /\ z.funcs = value
         /\ z.version = x.version /\ z.comments = x.comments
         /\ z.comments_only = x.comments_only /\ z.ip = x.ip /\ z.stack = x.stack
         /\ z.frames = x.frames /\ z.returns = x.returns /\ z.next_seq = x.next_seq
         /\ z.heap = x.heap
BY DEF IsSave, WithFuncs

LEMMA BlankIs ==
  /\ IsSave(Resume!Blank) /\ ~Resume!Blank.comments_only
  /\ Resume!Blank.returns = <<>> /\ Resume!Blank.heap = <<>>
BY DEF Resume!Blank, IsSave

AtPart == Cardinality(DOMAIN part) - 1

\* All that was read of the file so far, in each phase.
HasRead(p) ==
  LET r == ReadOf(file, pos)
      n == Len(s.returns) + left
      h == Len(s.heap) + left
  IN  /\ p = "ip" => r = Resume!Opening(s)
      /\ p = "stack" => r = HeadIp(s)
      /\ p = "frames" => r = HeadStack(s)
      /\ p = "returns" => r = HeadReturns(s, n) /\ HeadCount(s, n) \in Seq(RTokens)
      /\ p = "heap" /\ part = Resume!NOTHING => r = HeadHeap(s, h)
      /\ p = "heap" => HeadSize(s, h) \in Seq(RTokens)
      /\ p = "heap" /\ part # Resume!NOTHING =>
           r = Joined(Joined(HeadHeap(s, h), <<Resume!I32(part.tag)>>),
                      Flat(FieldsOf(s.version, part, AtPart)))

\* The save as parsed so far.
Under(p) ==
  /\ p \in {"ip", "stack", "frames", "returns", "heap"} => s.version \in Versions /\ ~s.comments_only
  /\ p \in {"ip", "stack", "frames", "returns"} => s.heap = <<>>
  /\ p \in {"ip", "stack", "frames"} => s.returns = <<>>
  /\ p \in {"idle", "ip", "stack", "frames", "returns", "done"} => part = Resume!NOTHING
  /\ p = "returns" => left \in Nat /\ IsSeq(s.returns) /\ Returned(s) \in Seq(Seq(RTokens))
  /\ p = "heap" => left \in Nat /\ IsSeq(s.heap) /\ Objects(s) \in Seq(Seq(RTokens))
  /\ p = "heap" /\ part # Resume!NOTHING => left > 0 /\ IsPart(s.version, part, AtPart)

ResumeInv ==
  /\ file \in Seq(RTokens) /\ pos \in Nat /\ pos <= Len(file)
  /\ IsSave(s)
  /\ phase = "idle" => pos = 0 /\ s = Resume!Blank
  /\ Under(phase) /\ HasRead(phase)
  /\ phase = "done" => /\ Resume!FileOf(s) \in Seq(RTokens)
                       /\ mode = "all" => Resume!FileOf(s) = file

(* The tokens at the position of the reader.                               *)
LEMMA IntAt ==
  ASSUME file \in Seq(RTokens), pos \in Nat, NEW i \in Nat \ {0}, pos + i <= Len(file), file[pos + i].kind = "int"
  PROVE  Resume!Tok(i) \in Int /\ file[pos + i] = Resume!I32(Resume!Tok(i))
<1>1. pos + i \in 1 .. Len(file)
  OBVIOUS
<1>2. file[pos + i].v \in Int /\ file[pos + i] = Resume!I32(file[pos + i].v)
  BY <1>1, TokenIs
<1> QED BY <1>2 DEF Resume!Tok

LEMMA StrAt ==
  ASSUME file \in Seq(RTokens), pos \in Nat, NEW i \in Nat \ {0}, pos + i <= Len(file), file[pos + i].kind = "str"
  PROVE  Resume!Tok(i) \in STRING /\ file[pos + i] = Resume!Text(Resume!Tok(i))
<1>1. pos + i \in 1 .. Len(file)
  OBVIOUS
<1>2. file[pos + i].v \in STRING /\ file[pos + i] = Resume!Text(file[pos + i].v)
  BY <1>1, TokenIs
<1> QED BY <1>2 DEF Resume!Tok

LEMMA BytesAt ==
  ASSUME file \in Seq(RTokens), pos \in Nat, NEW i \in Nat \ {0}, pos + i <= Len(file), file[pos + i].kind = "bytes"
  PROVE  Resume!Tok(i) \in Seq(Int) /\ file[pos + i] = [kind |-> "bytes", v |-> Resume!Tok(i)]
<1>1. pos + i \in 1 .. Len(file)
  OBVIOUS
<1>2. file[pos + i].v \in Seq(Int) /\ file[pos + i] = [kind |-> "bytes", v |-> file[pos + i].v]
  BY <1>1, TokenIs
<1> QED BY <1>2 DEF Resume!Tok

LEMMA NextInt ==
  ASSUME file \in Seq(RTokens), pos \in Nat, Resume!Readable(<<"int">>)
  PROVE  /\ pos + 1 <= Len(file) /\ Resume!Tok(1) \in Int /\ file[pos + 1] = Resume!I32(Resume!Tok(1))
         /\ <<Resume!I32(Resume!Tok(1))>> \in Seq(RTokens) /\ Len(<<Resume!I32(Resume!Tok(1))>>) = 1
         /\ Follows(file, pos, <<Resume!I32(Resume!Tok(1))>>)
<1>1. pos + 1 <= Len(file) /\ file[pos + 1].kind = "int"
  BY DEF Resume!Readable
<1>2. Resume!Tok(1) \in Int /\ file[pos + 1] = Resume!I32(Resume!Tok(1))
  BY <1>1, IntAt
<1>3. Resume!I32(Resume!Tok(1)) \in RTokens
  BY <1>2, ResumeTokens
<1>4. Follows(file, pos, <<Resume!I32(Resume!Tok(1))>>)
  BY <1>1, <1>2, FollowsOne
<1> QED BY <1>1, <1>2, <1>3, <1>4, OneToken

LEMMA Advanced ==
  ASSUME file \in Seq(RTokens), NEW p \in Nat, NEW t \in Seq(RTokens), Follows(file, p, t)
  PROVE  /\ p + Len(t) \in Nat /\ p + Len(t) <= Len(file)
         /\ ReadOf(file, p + Len(t)) = Joined(ReadOf(file, p), t)
<1>1. p + Len(t) \in Nat /\ p + Len(t) <= Len(file)
  BY DEF Follows
<1> QED BY <1>1, ReadMore

LEMMA ReadTyped ==
  ASSUME NEW S, NEW f \in Seq(S), NEW p \in Nat, p <= Len(f)
  PROVE  ReadOf(f, p) \in Seq(S)
<1> DEFINE r == ReadOf(f, p)
<1>1. r = [k \in 1 .. p |-> r[k]]
  BY DEF ReadOf
<1>2. \A k \in 1 .. p : r[k] \in S
  <2> SUFFICES ASSUME NEW k \in 1 .. p PROVE f[k] \in S
    BY DEF ReadOf
  <2>1. k \in 1 .. Len(f)
    OBVIOUS
  <2> QED BY <2>1
<1> HIDE DEF r
<1>3. r \in Seq(S)
  BY <1>1, <1>2, SeqOf
<1> QED BY <1>3 DEF r

LEMMA HeaderRead ==
  ASSUME file \in Seq(RTokens), pos = 0, Resume!Readable(<<"int">>), Resume!Tok(1) >= 7 => Resume!IsArray(2, "str"),
         NEW x, x.version = Resume!Tok(1), Resume!Tok(1) >= 7 => x.comments = Resume!Array(2),
         NEW n, n = IF Resume!Tok(1) >= 7 THEN 2 + Resume!Tok(2) ELSE 1
  PROVE  /\ n \in Nat /\ n <= Len(file)
         /\ ReadOf(file, n) = Resume!Opening(x) /\ Resume!Opening(x) \in Seq(RTokens)
<1> DEFINE v == Resume!Tok(1)
           a == <<Resume!I32(v)>>
<1>0. pos \in Nat
  OBVIOUS
<1>1. v \in Int /\ a \in Seq(RTokens) /\ Len(a) = 1 /\ Follows(file, 0, a)
  BY <1>0, NextInt
<1>2. ReadOf(file, 1) = a /\ 1 <= Len(file)
  <2>1. ReadOf(file, 0) = <<>>
    BY DEF ReadOf
  <2>2. 0 + Len(a) <= Len(file) /\ ReadOf(file, 0 + Len(a)) = Joined(ReadOf(file, 0), a)
    BY <1>1, Advanced
  <2>3. Joined(<<>>, a) = a
    BY <1>1, JoinedNone
  <2> HIDE DEF a
  <2> QED BY <1>1, <2>1, <2>2, <2>3
<1> HIDE DEF v, a
<1>3. CASE v >= 7
  <2> DEFINE t == Resume!CountedTokens(Texts(Resume!Array(2)))
  <2>1. /\ Resume!Tok(2) \in Nat /\ Resume!Array(2) \in Seq(STRING) /\ Len(Resume!Array(2)) = Resume!Tok(2)
        /\ Follows(file, (pos + 2) - 1, t)
    BY <1>0, <1>3, ArrayOfTexts DEF v
  <2>2. t \in Seq(RTokens) /\ Len(t) = 1 + Resume!Tok(2)
    BY <2>1, ResumeTexts, ResumeCounted
  <2>3. (pos + 2) - 1 = 1
    OBVIOUS
  <2> HIDE DEF t
  <2>4. 1 + Len(t) \in Nat /\ 1 + Len(t) <= Len(file) /\ ReadOf(file, 1 + Len(t)) = Joined(a, t)
    BY <1>2, <2>1, <2>2, <2>3, Advanced
  <2>5. n = 1 + Len(t)
    BY <1>3, <2>1, <2>2 DEF v
  <2>6. Resume!Opening(x) = Joined(a, t)
    BY <1>3, OpeningIs, Zenon DEF a, t, v
  <2> QED BY <1>1, <2>2, <2>4, <2>5, <2>6, JoinedTyped
<1>4. CASE ~(v >= 7)
  <2>1. n = 1
    BY <1>4 DEF v
  <2>2. Resume!Opening(x) = Joined(a, <<>>)
    BY <1>4, OpeningIs, Zenon DEF a, v
  <2> QED BY <1>1, <1>2, <2>1, <2>2, JoinedNone
<1> QED BY <1>3, <1>4

LEMMA EndKeepsResume ==
  ASSUME ResumeInv, NEW how \in {"off", "invalid", "unsupported"}, Resume!End(how), file' = file, mode' = mode
  PROVE  ResumeInv'
<1>1. /\ phase' = how /\ pos' = pos /\ left' = left /\ part' = part /\ s' = s
  BY DEF Resume!End
<1> QED BY <1>1 DEF ResumeInv, Under, HasRead, IsSave

LEMMA HeaderKeeps ==
  ASSUME ResumeInv, Resume!ParseHeader, file' = file, mode' = mode, mode \in {"all", "comments"}
  PROVE  ResumeInv'
<1> DEFINE v == Resume!Tok(1)
           x == [s EXCEPT !.version = v]
           y == [x EXCEPT !.comments = Resume!Array(2)]
<1>1. /\ file \in Seq(RTokens) /\ pos = 0 /\ s = Resume!Blank /\ part = Resume!NOTHING /\ phase = "idle"
  BY DEF ResumeInv, Resume!ParseHeader, Under
<1>2. CASE ~Resume!Readable(<<"int">>)
  <2>1. Resume!End("off")
    BY <1>2, Zenon DEF Resume!ParseHeader
  <2> QED BY <2>1, EndKeepsResume
<1>3. CASE Resume!Readable(<<"int">>) /\ v \notin {4, 6, 7, 9}
  <2>1. Resume!End("unsupported")
    BY <1>3, Zenon DEF Resume!ParseHeader
  <2> QED BY <2>1, EndKeepsResume
<1>4. CASE Resume!Readable(<<"int">>) /\ v \in {4, 6, 7, 9} /\ v >= 7 /\ ~Resume!IsArray(2, "str")
  <2>1. Resume!End("off")
    BY <1>4, Zenon DEF Resume!ParseHeader
  <2> QED BY <2>1, EndKeepsResume
<1>5. CASE Resume!Readable(<<"int">>) /\ v \in {4, 6, 7, 9} /\ v >= 7 /\ Resume!IsArray(2, "str")
  <2> DEFINE n == 2 + Resume!Tok(2)
             z == [y EXCEPT !.comments_only = TRUE]
  <2>1. \/ (Resume!AtEnd(n) \/ mode = "comments") /\ Resume!GoOn(n, z, "done")
        \/ Resume!GoOn(n, y, "ip")
    BY <1>5, Zenon DEF Resume!ParseHeader
  <2>2. /\ y.version = v /\ y.comments = Resume!Array(2) /\ IsSave(y) /\ ~y.comments_only
        /\ y.returns = <<>> /\ y.heap = <<>>
        /\ z.version = v /\ z.comments = Resume!Array(2) /\ IsSave(z) /\ z.comments_only
    <3>1. IsSave(s) /\ ~s.comments_only /\ s.returns = <<>> /\ s.heap = <<>>
      BY <1>1, BlankIs, Zenon
    <3>2. /\ x = WithVersion(s, v) /\ y = WithComments(x, Resume!Array(2))
          /\ z = WithCommentsOnly(y)
      BY Zenon DEF WithVersion, WithComments, WithCommentsOnly
    <3> HIDE DEF x, y, z, v
    <3>3. IsSave(x) /\ x.version = v /\ ~x.comments_only /\ x.returns = <<>> /\ x.heap = <<>>
      BY <3>1, <3>2, SetVersion
    <3>4. /\ IsSave(y) /\ y.version = v /\ y.comments = Resume!Array(2) /\ ~y.comments_only
          /\ y.returns = <<>> /\ y.heap = <<>>
      BY <3>2, <3>3, SetComments
    <3>5. IsSave(z) /\ z.version = v /\ z.comments = Resume!Array(2) /\ z.comments_only
      BY <3>2, <3>4, SetCommentsOnly
    <3> QED BY <3>4, <3>5
  <2> HIDE DEF x, y, z, n, v
  <2>3. /\ n \in Nat /\ n <= Len(file) /\ ReadOf(file, n) = Resume!Opening(y)
        /\ ReadOf(file, n) = Resume!Opening(z) /\ Resume!Opening(z) \in Seq(RTokens)
    BY <1>1, <1>5, <2>2, HeaderRead DEF n, v
  <2>4. CASE (Resume!AtEnd(n) \/ mode = "comments") /\ Resume!GoOn(n, z, "done")
    <3>1. /\ pos' = n /\ s' = z /\ phase' = "done" /\ left' = left /\ part' = part
      BY <1>1, <2>3, <2>4 DEF Resume!GoOn
    <3>2. Resume!FileOf(z) = Resume!Opening(z)
      BY <2>2, FileIs
    <3>3. mode = "all" => Resume!FileOf(z) = file
      <4> SUFFICES ASSUME mode = "all" PROVE Resume!FileOf(z) = file
        OBVIOUS
      <4>1. n = Len(file)
        BY <1>1, <2>3, <2>4 DEF Resume!AtEnd
      <4> QED BY <1>1, <2>3, <3>2, <4>1, ReadAll
    <3> QED BY <1>1, <2>2, <2>3, <3>1, <3>2, <3>3 DEF ResumeInv, Under, HasRead
  <2>5. CASE Resume!GoOn(n, y, "ip")
    <3>1. /\ pos' = n /\ s' = y /\ phase' = "ip" /\ left' = left /\ part' = part
      BY <1>1, <2>3, <2>5 DEF Resume!GoOn
    <3> QED BY <1>1, <1>5, <2>2, <2>3, <3>1 DEF ResumeInv, Under, HasRead, Versions
  <2> QED BY <2>1, <2>4, <2>5
<1>6. CASE Resume!Readable(<<"int">>) /\ v \in {4, 6, 7, 9} /\ ~(v >= 7)
  <2> DEFINE z == [x EXCEPT !.comments_only = TRUE]
  <2>1. \/ mode = "comments" /\ Resume!GoOn(1, z, "done")
        \/ Resume!GoOn(1, x, "ip")
    BY <1>6, Zenon DEF Resume!ParseHeader
  <2>2. /\ x.version = v /\ IsSave(x) /\ ~x.comments_only /\ x.returns = <<>> /\ x.heap = <<>>
        /\ z.version = v /\ IsSave(z) /\ z.comments_only
    <3>1. IsSave(s) /\ ~s.comments_only /\ s.returns = <<>> /\ s.heap = <<>>
      BY <1>1, BlankIs, Zenon
    <3>2. x = WithVersion(s, v) /\ z = WithCommentsOnly(x)
      BY Zenon DEF WithVersion, WithCommentsOnly
    <3> HIDE DEF x, z, v
    <3>3. IsSave(x) /\ x.version = v /\ ~x.comments_only /\ x.returns = <<>> /\ x.heap = <<>>
      BY <3>1, <3>2, SetVersion
    <3>4. IsSave(z) /\ z.version = v /\ z.comments_only
      BY <3>2, <3>3, SetCommentsOnly
    <3> QED BY <3>3, <3>4
  <2> HIDE DEF x, z, v
  <2>3. /\ 1 \in Nat /\ 1 <= Len(file) /\ ReadOf(file, 1) = Resume!Opening(x)
        /\ ReadOf(file, 1) = Resume!Opening(z) /\ Resume!Opening(z) \in Seq(RTokens)
    BY <1>1, <1>6, <2>2, HeaderRead DEF v
  <2>4. CASE mode = "comments" /\ Resume!GoOn(1, z, "done")
    <3>1. /\ pos' = 1 /\ s' = z /\ phase' = "done" /\ left' = left /\ part' = part /\ mode' # "all"
      BY <1>1, <2>4 DEF Resume!GoOn
    <3>2. Resume!FileOf(z) = Resume!Opening(z)
      BY <2>2, FileIs
    <3> QED BY <1>1, <2>2, <2>3, <3>1, <3>2 DEF ResumeInv, Under, HasRead
  <2>5. CASE Resume!GoOn(1, x, "ip")
    <3>1. /\ pos' = 1 /\ s' = x /\ phase' = "ip" /\ left' = left /\ part' = part
      BY <1>1, <2>5 DEF Resume!GoOn
    <3> QED BY <1>1, <1>6, <2>2, <2>3, <3>1 DEF ResumeInv, Under, HasRead, Versions
  <2> QED BY <2>1, <2>4, <2>5
<1> QED BY <1>2, <1>3, <1>4, <1>5, <1>6

(* What was written of a save depends on the fields read so far.           *)
SameOpening(x, y) == y.version = x.version /\ y.comments = x.comments
SameIp(x, y)      == SameOpening(x, y) /\ y.ip = x.ip
SameStack(x, y)   == SameIp(x, y) /\ y.stack = x.stack
SameFrames(x, y)  == SameStack(x, y) /\ y.frames = x.frames
SameReturns(x, y) == SameFrames(x, y) /\ y.returns = x.returns
SameSeq(x, y)     == SameReturns(x, y) /\ y.next_seq = x.next_seq
SameHeap(x, y)    == SameSeq(x, y) /\ y.heap = x.heap

LEMMA SameHeads ==
  ASSUME NEW x, NEW y
  PROVE  /\ SameOpening(x, y) => Resume!Opening(y) = Resume!Opening(x)
         /\ SameIp(x, y) => HeadIp(y) = HeadIp(x)
         /\ SameStack(x, y) => HeadStack(y) = HeadStack(x)
         /\ SameFrames(x, y) => HeadFrames(y) = HeadFrames(x)
<1>1. SameOpening(x, y) => Resume!Opening(y) = Resume!Opening(x)
  BY OpeningIs, Zenon DEF SameOpening
<1>2. SameIp(x, y) => HeadIp(y) = HeadIp(x)
  BY <1>1, Zenon DEF SameIp, HeadIp
<1>3. SameStack(x, y) => HeadStack(y) = HeadStack(x)
  BY <1>2, Zenon DEF SameStack, HeadStack
<1>4. SameFrames(x, y) => HeadFrames(y) = HeadFrames(x)
  BY <1>3, Zenon DEF SameFrames, HeadFrames
<1> QED BY <1>1, <1>2, <1>3, <1>4

LEMMA SameCounts ==
  ASSUME NEW x, NEW y, NEW n
  PROVE  /\ SameFrames(x, y) => HeadCount(y, n) = HeadCount(x, n)
         /\ SameReturns(x, y) => HeadReturns(y, n) = HeadReturns(x, n) /\ Returned(y) = Returned(x)
         /\ SameSeq(x, y) => HeadSeq(y) = HeadSeq(x) /\ HeadSize(y, n) = HeadSize(x, n)
         /\ SameHeap(x, y) => HeadHeap(y, n) = HeadHeap(x, n) /\ Objects(y) = Objects(x)
<1>1. SameFrames(x, y) => HeadFrames(y) = HeadFrames(x)
  BY SameHeads
<1>2. SameFrames(x, y) => HeadCount(y, n) = HeadCount(x, n)
  BY <1>1, Zenon DEF HeadCount
<1>3. ASSUME NEW m, SameReturns(x, y)
      PROVE  HeadReturns(y, m) = HeadReturns(x, m) /\ Returned(y) = Returned(x)
  <2>1. HeadCount(y, m) = HeadCount(x, m) /\ y.returns = x.returns
    BY <1>1, <1>3, Zenon DEF HeadCount, SameReturns
  <2>2. Returned(y) = Returned(x)
    BY <2>1, Zenon DEF Returned
  <2> QED BY <2>1, <2>2, Zenon DEF HeadReturns
<1>4. ASSUME SameSeq(x, y)
      PROVE  HeadSeq(y) = HeadSeq(x) /\ HeadSize(y, n) = HeadSize(x, n)
  <2>1. /\ SameReturns(x, y) /\ y.version = x.version /\ y.next_seq = x.next_seq /\ y.returns = x.returns
    BY <1>4 DEF SameSeq, SameReturns, SameFrames, SameStack, SameIp, SameOpening
  <2>2. HeadReturns(y, Len(y.returns)) = HeadReturns(x, Len(x.returns))
    BY <1>3, <2>1
  <2>3. SeqTokens(y) = SeqTokens(x)
    BY <2>1, Zenon DEF SeqTokens
  <2>4. HeadSeq(y) = HeadSeq(x)
    BY <2>2, <2>3, Zenon DEF HeadSeq
  <2> QED BY <2>4, Zenon DEF HeadSize
<1>5. ASSUME SameHeap(x, y)
      PROVE  HeadHeap(y, n) = HeadHeap(x, n) /\ Objects(y) = Objects(x)
  <2>1. /\ SameSeq(x, y) /\ y.version = x.version /\ y.heap = x.heap
    BY <1>5 DEF SameHeap, SameSeq, SameReturns, SameFrames, SameStack, SameIp, SameOpening
  <2>2. Objects(y) = Objects(x)
    BY <2>1, Zenon DEF Objects
  <2> QED BY <1>4, <2>1, <2>2, Zenon DEF HeadHeap
<1> QED BY <1>2, <1>3, <1>4, <1>5

(* The record of a return, at the position of the reader.                  *)
LEMMA BottomIs == Resume!BOTTOM = -1
BY DEF Resume!BOTTOM

LEMMA RecordRead ==
  ASSUME file \in Seq(RTokens), pos \in Nat, Resume!Readable(Resume!ReturnKinds)
  PROVE  /\ Resume!ReturnTokens(Resume!ReturnRecord) \in Seq(RTokens)
         /\ Len(Resume!ReturnTokens(Resume!ReturnRecord)) = Len(Resume!ReturnKinds)
         /\ Follows(file, pos, Resume!ReturnTokens(Resume!ReturnRecord))
<1> DEFINE k == Resume!ReturnKinds
           r == Resume!ReturnRecord
<1>1. k = <<"int">> \/ k = <<"int", "str", "int", "int">>
  BY DEF Resume!ReturnKinds
<1>2. pos + Len(k) <= Len(file) /\ \A i \in 1 .. Len(k) : file[pos + i].kind = k[i]
  BY DEF Resume!Readable
<1>3. Resume!Readable(<<"int">>)
  <2>1. Len(k) >= 1 /\ k[1] = "int" /\ Len(k) \in Nat
    BY <1>1
  <2> HIDE DEF k
  <2>2. pos + 1 <= Len(file) /\ file[pos + 1].kind = "int"
    BY <1>2, <2>1
  <2> QED BY <2>2 DEF Resume!Readable
<1>4. CASE Resume!Tok(1) = Resume!BOTTOM
  <2>1. k = <<"int">> /\ r = [addr |-> Resume!BOTTOM]
    BY <1>3, <1>4, Zenon DEF Resume!ReturnKinds, Resume!ReturnRecord
  <2>2. Resume!ReturnTokens(r) = <<Resume!I32(Resume!BOTTOM)>>
    <3>1. r.addr = Resume!BOTTOM
      BY <2>1
    <3> QED BY <3>1, Zenon DEF Resume!ReturnTokens
  <2>3. Len(k) = 1
    BY <2>1
  <2> QED BY <1>3, <1>4, <2>2, <2>3, NextInt
<1>5. CASE Resume!Tok(1) # Resume!BOTTOM
  <2>1. /\ k = <<"int", "str", "int", "int">>
        /\ r = [addr |-> Resume!Tok(1), func |-> Resume!Tok(2), local |-> Resume!Tok(3), crc |-> Resume!Tok(4)]
    BY <1>3, <1>5, Zenon DEF Resume!ReturnKinds, Resume!ReturnRecord
  <2> DEFINE t == <<Resume!I32(Resume!Tok(1)), Resume!Text(Resume!Tok(2)),
                    Resume!I32(Resume!Tok(3)), Resume!I32(Resume!Tok(4))>>
  <2>2. Resume!ReturnTokens(r) = t
    <3>1. r.addr = Resume!Tok(1) /\ r.func = Resume!Tok(2) /\ r.local = Resume!Tok(3) /\ r.crc = Resume!Tok(4)
      BY <2>1
    <3> QED BY <1>5, <3>1, Zenon DEF Resume!ReturnTokens
  <2>3. /\ Len(k) = 4 /\ k[1] = "int" /\ k[2] = "str" /\ k[3] = "int" /\ k[4] = "int"
    BY <2>1
  <2> HIDE DEF k, r
  <2>4. /\ pos + 4 <= Len(file) /\ Len(file) \in Nat
        /\ file[pos + 1].kind = "int" /\ file[pos + 2].kind = "str"
        /\ file[pos + 3].kind = "int" /\ file[pos + 4].kind = "int"
    BY <1>2, <2>3
  <2>5. Resume!Tok(1) \in Int /\ file[pos + 1] = Resume!I32(Resume!Tok(1))
    BY <2>4, IntAt
  <2>6. Resume!Tok(2) \in STRING /\ file[pos + 2] = Resume!Text(Resume!Tok(2))
    BY <2>4, StrAt
  <2>7. Resume!Tok(3) \in Int /\ file[pos + 3] = Resume!I32(Resume!Tok(3))
    BY <2>4, IntAt
  <2>8. Resume!Tok(4) \in Int /\ file[pos + 4] = Resume!I32(Resume!Tok(4))
    BY <2>4, IntAt
  <2>9. t \in Seq(RTokens) /\ Len(t) = 4
    <3>1. /\ Resume!I32(Resume!Tok(1)) \in RTokens /\ Resume!Text(Resume!Tok(2)) \in RTokens
          /\ Resume!I32(Resume!Tok(3)) \in RTokens /\ Resume!I32(Resume!Tok(4)) \in RTokens
      BY <2>5, <2>6, <2>7, <2>8, ResumeTokens
    <3> QED BY <3>1
  <2>10. Follows(file, pos, t)
    <3>1. t[1] = file[pos + 1] /\ t[2] = file[pos + 2] /\ t[3] = file[pos + 3] /\ t[4] = file[pos + 4]
      BY <2>5, <2>6, <2>7, <2>8
    <3> HIDE DEF t
    <3>2. \A i \in 1 .. 4 : i = 1 \/ i = 2 \/ i = 3 \/ i = 4
      OBVIOUS
    <3>3. \A i \in 1 .. 4 : file[pos + i] = t[i]
      BY <3>1, <3>2
    <3>4. Len(t) = 4 /\ pos + 4 <= Len(file)
      BY <2>4, <2>9
    <3> QED BY <3>3, <3>4, Zenon DEF Follows
  <2> HIDE DEF t
  <2> QED BY <2>2, <2>3, <2>9, <2>10 DEF k, r
<1> QED BY <1>4, <1>5

LEMMA KindsAppended ==
  ASSUME file \in Seq(RTokens), pos \in Nat, Resume!Readable(Resume!ReturnKinds \o <<"int">>)
  PROVE  /\ Resume!Readable(Resume!ReturnKinds) /\ Len(Resume!ReturnKinds) \in Nat
         /\ pos + (Len(Resume!ReturnKinds) + 1) <= Len(file)
         /\ file[pos + (Len(Resume!ReturnKinds) + 1)].kind = "int"
<1> DEFINE k == Resume!ReturnKinds
           a == <<"int">>
           n == Len(k)
<1>1. k \in Seq({"int", "str"}) /\ a \in Seq({"int", "str"}) /\ Len(a) = 1 /\ a[1] = "int"
  <2>1. k = <<"int">> \/ k = <<"int", "str", "int", "int">>
    BY DEF Resume!ReturnKinds
  <2>2. /\ <<"int">> \in Seq({"int", "str"}) /\ <<"int", "str", "int", "int">> \in Seq({"int", "str"})
        /\ Len(a) = 1 /\ a[1] = "int"
    OBVIOUS
  <2> HIDE DEF k, a
  <2> QED BY <2>1, <2>2 DEF a
<1>2. pos + Len(k \o a) <= Len(file) /\ \A i \in 1 .. Len(k \o a) : file[pos + i].kind = (k \o a)[i]
  BY DEF Resume!Readable
<1> HIDE DEF k, a
<1>3. n \in Nat /\ Len(k \o a) = n + 1 /\ \A i \in 1 .. n + 1 : (k \o a)[i] = IF i <= n THEN k[i] ELSE a[i - n]
  <2>1. /\ Len(k \o a) = Len(k) + Len(a)
        /\ \A i \in 1 .. Len(k) + Len(a) : (k \o a)[i] = IF i <= Len(k) THEN k[i] ELSE a[i - Len(k)]
    BY <1>1, ConcatAt
  <2> QED BY <1>1, <2>1
<1> DEFINE c == k \o a
<1> HIDE DEF c, n
<1>4. pos + (n + 1) <= Len(file) /\ \A i \in 1 .. n : file[pos + i].kind = k[i]
  <2>1. pos + Len(c) <= Len(file) /\ \A i \in 1 .. Len(c) : file[pos + i].kind = c[i]
    BY <1>2 DEF c
  <2>2. n \in Nat /\ Len(c) = n + 1 /\ \A i \in 1 .. n : c[i] = k[i]
    BY <1>3 DEF c
  <2> QED BY <2>1, <2>2
<1>5. file[pos + (n + 1)].kind = "int"
  <2>1. pos + Len(c) <= Len(file) /\ \A i \in 1 .. Len(c) : file[pos + i].kind = c[i]
    BY <1>2 DEF c
  <2>2. n \in Nat /\ Len(c) = n + 1 /\ c[n + 1] = "int"
    <3>1. n + 1 \in 1 .. n + 1 /\ ~(n + 1 <= n) /\ (n + 1) - n = 1 /\ n \in Nat
      BY <1>3
    <3> QED BY <1>1, <1>3, <3>1 DEF c
  <2>3. n + 1 \in 1 .. Len(c)
    BY <2>2
  <2> QED BY <2>1, <2>2, <2>3
<1>6. Resume!Readable(k)
  <2>1. pos + n <= Len(file)
    <3>1. Len(file) \in Nat
      OBVIOUS
    <3> QED BY <1>3, <1>4, <3>1
  <2> QED BY <1>4, <2>1 DEF n, Resume!Readable
<1> QED BY <1>3, <1>4, <1>5, <1>6 DEF n, k

LEMMA IpKeeps ==
  ASSUME ResumeInv, Resume!ParseIp, file' = file, mode' = mode, mode \in {"all", "comments"}
  PROVE  ResumeInv'
<1> DEFINE n == Len(Resume!ReturnKinds)
           r == Resume!ReturnRecord
           x == WithIp(s, r)
<1>1. /\ file \in Seq(RTokens) /\ pos \in Nat /\ phase = "ip" /\ IsSave(s) /\ pos <= Len(file)
      /\ s.version \in Versions /\ ~s.comments_only /\ s.heap = <<>> /\ s.returns = <<>>
      /\ part = Resume!NOTHING /\ ReadOf(file, pos) = Resume!Opening(s)
  BY DEF ResumeInv, Resume!ParseIp, Under, HasRead
<1>2. CASE Resume!End("off")
  BY <1>2, EndKeepsResume
<1>3. CASE /\ Resume!Readable(Resume!ReturnKinds \o <<"int">>) /\ Resume!Tok(n + 1) = 0
           /\ Resume!GoOn(n + 1, [s EXCEPT !.ip = r], "stack")
  <2>1. /\ pos' = pos + (n + 1) /\ s' = x /\ phase' = "stack" /\ left' = left /\ part' = part
    BY <1>3 DEF Resume!GoOn, WithIp
  <2> HIDE DEF r, x, n
  <2>2. /\ IsSave(x) /\ x.version = s.version /\ ~x.comments_only /\ x.heap = <<>> /\ x.returns = <<>>
        /\ x.ip = r /\ x.comments = s.comments
    BY <1>1, SetIp DEF x
  <2> DEFINE t == Resume!ReturnTokens(r)
  <2>3. /\ Resume!Readable(Resume!ReturnKinds) /\ n \in Nat /\ pos + (n + 1) <= Len(file)
        /\ file[pos + (n + 1)].kind = "int"
    BY <1>1, <1>3, KindsAppended DEF n
  <2>4. t \in Seq(RTokens) /\ Len(t) = n /\ Follows(file, pos, t)
    BY <1>1, <2>3, RecordRead DEF n, r
  <2> HIDE DEF t
  <2>5. file[pos + (n + 1)] = Zero /\ Zero \in RTokens
    <3>1. n + 1 \in Nat \ {0}
      BY <2>3
    <3>2. file[pos + (n + 1)] = Resume!I32(Resume!Tok(n + 1)) /\ 0 \in Int
      BY <1>1, <2>3, <3>1, IntAt
    <3> QED BY <1>3, <3>2, ResumeTokens DEF Zero
  <2>6. pos + n \in Nat /\ pos + (n + 1) = (pos + n) + 1 /\ pos + Len(t) = pos + n
    BY <1>1, <2>3, <2>4
  <2>7. Follows(file, pos + n, <<Zero>>) /\ <<Zero>> \in Seq(RTokens) /\ Len(<<Zero>>) = 1
    BY <1>1, <2>3, <2>5, <2>6, FollowsOne, OneToken
  <2>8. ReadOf(file, pos + n) = Joined(ReadOf(file, pos), t)
    BY <1>1, <2>4, <2>6, Advanced
  <2>9. ReadOf(file, (pos + n) + 1) = Joined(ReadOf(file, pos + n), <<Zero>>)
    BY <1>1, <2>6, <2>7, Advanced
  <2>10. Resume!Opening(x) = Resume!Opening(s)
    BY <2>2, SameHeads DEF SameOpening
  <2>11. ReadOf(file, pos + (n + 1)) = HeadIp(x)
    BY <1>1, <2>2, <2>6, <2>8, <2>9, <2>10, Zenon DEF HeadIp, t
  <2>12. pos' \in Nat /\ pos' <= Len(file)
    BY <2>1, <2>3, <2>6
  <2> QED BY <1>1, <2>1, <2>2, <2>11, <2>12 DEF ResumeInv, Under, HasRead
<1> QED BY <1>2, <1>3, Zenon DEF Resume!ParseIp

LEMMA StackKeeps ==
  ASSUME ResumeInv, Resume!ParseStack, file' = file, mode' = mode, mode \in {"all", "comments"}
  PROVE  ResumeInv'
<1> DEFINE a == Resume!Array(1)
           x == WithStack(s, a)
           n == 1 + Resume!Tok(1)
<1>1. /\ file \in Seq(RTokens) /\ pos \in Nat /\ phase = "stack" /\ IsSave(s) /\ pos <= Len(file)
      /\ s.version \in Versions /\ ~s.comments_only /\ s.heap = <<>> /\ s.returns = <<>>
      /\ part = Resume!NOTHING /\ ReadOf(file, pos) = HeadIp(s)
  BY DEF ResumeInv, Resume!ParseStack, Under, HasRead
<1>2. CASE Resume!End("off")
  BY <1>2, EndKeepsResume
<1>3. CASE /\ Resume!IsArray(1, "int") /\ Resume!GoOn(n, [s EXCEPT !.stack = a], "frames")
  <2>1. /\ pos' = pos + n /\ s' = x /\ phase' = "frames" /\ left' = left /\ part' = part
    BY <1>3 DEF Resume!GoOn, WithStack
  <2> DEFINE t == Resume!CountedTokens(Resume!I32s(a))
  <2>2. Resume!Tok(1) \in Nat /\ a \in Seq(Int) /\ Len(a) = Resume!Tok(1) /\ Follows(file, (pos + 1) - 1, t)
    BY <1>1, <1>3, ArrayOfInts
  <2>3. t \in Seq(RTokens) /\ Len(t) = n
    BY <2>2, ResumeInts, ResumeCounted
  <2> HIDE DEF a, x, n
  <2>4. /\ IsSave(x) /\ x.version = s.version /\ ~x.comments_only /\ x.heap = <<>> /\ x.returns = <<>>
        /\ x.ip = s.ip /\ x.comments = s.comments /\ x.stack = a
    BY <1>1, SetStack DEF x
  <2> HIDE DEF t
  <2>5. (pos + 1) - 1 = pos
    BY <1>1
  <2>6. /\ pos + n \in Nat /\ pos + n <= Len(file) /\ ReadOf(file, pos + n) = Joined(ReadOf(file, pos), t)
    BY <1>1, <2>2, <2>3, <2>5, Advanced
  <2>7. HeadIp(x) = HeadIp(s)
    BY <2>4, SameHeads DEF SameIp, SameOpening
  <2>8. ReadOf(file, pos + n) = HeadStack(x)
    BY <1>1, <2>4, <2>6, <2>7, Zenon DEF HeadStack, t
  <2> QED BY <1>1, <2>1, <2>4, <2>6, <2>8 DEF ResumeInv, Under, HasRead
<1> QED BY <1>2, <1>3, Zenon DEF Resume!ParseStack

LEMMA NoReturns ==
  ASSUME NEW x, x.returns = <<>>
  PROVE  IsSeq(x.returns) /\ Len(x.returns) = 0 /\ Returned(x) = <<>> /\ Returned(x) \in Seq(Seq(RTokens))
<1>1. IsSeq(<<>>) /\ Len(<<>>) = 0 /\ <<>> \in Seq(Seq(RTokens))
  BY DEF IsSeq
<1>2. Returned(x) = <<>>
  BY DEF Returned
<1> QED BY <1>1, <1>2

LEMMA NoObjects ==
  ASSUME NEW x, x.heap = <<>>
  PROVE  IsSeq(x.heap) /\ Len(x.heap) = 0 /\ Objects(x) = <<>> /\ Objects(x) \in Seq(Seq(RTokens))
<1>1. IsSeq(<<>>) /\ Len(<<>>) = 0 /\ <<>> \in Seq(Seq(RTokens))
  BY DEF IsSeq
<1>2. Objects(x) = <<>>
  BY DEF Objects
<1> QED BY <1>1, <1>2

LEMMA ListEnds ==
  ASSUME NEW b \in Nat, NEW j \in Nat
  PROVE  (b - 1) + (1 + j) = (b + 1 + j) - 1
OBVIOUS

LEMMA NextList ==
  ASSUME NEW i \in Nat, NEW j \in Nat, NEW k, k = i + 1 + j
  PROVE  k \in Nat \ {0}
OBVIOUS

\* The three lists of call frames, one after the other.
LEMMA FramesRead ==
  ASSUME file \in Seq(RTokens), pos \in Nat,
         NEW b, b = 1 + 1 + Resume!Tok(1), NEW c, c = b + 1 + Resume!Tok(b), NEW n, n = c + 1 + Resume!Tok(c),
         Resume!IsArray(1, "int"), Resume!IsArray(b, "int"), Resume!IsArray(c, "int"),
         Resume!Tok(1) = Resume!Tok(b), Resume!Tok(c) = Resume!Calls(Resume!Tok(b), Resume!Array(b))
  PROVE  LET t == Resume!FrameTokens(Resume!Frames(Resume!Array(1), Resume!Array(b), Resume!Array(c)))
         IN  t \in Seq(RTokens) /\ Len(t) = n - 1 /\ n \in Nat \ {0} /\ Follows(file, pos, t)
<1> DEFINE A == Resume!Array(1)
           B == Resume!Array(b)
           C == Resume!Array(c)
           ta == Resume!CountedTokens(Resume!I32s(A))
           tb == Resume!CountedTokens(Resume!I32s(B))
           tc == Resume!CountedTokens(Resume!I32s(C))
<1> HIDE DEF A, B, C, ta, tb, tc
<1>1. Resume!Tok(1) \in Nat /\ A \in Seq(Int) /\ Len(A) = Resume!Tok(1) /\ Follows(file, (pos + 1) - 1, ta)
  BY ArrayOfInts DEF A, ta
<1>2. b \in Nat \ {0}
  BY <1>1
<1>3. Resume!Tok(b) \in Nat /\ B \in Seq(Int) /\ Len(B) = Resume!Tok(b) /\ Follows(file, (pos + b) - 1, tb)
  BY <1>2, ArrayOfInts, Zenon DEF B, tb
<1>4. c \in Nat \ {0}
  <2>1. b \in Nat
    BY <1>2
  <2> QED BY <1>3, <2>1, NextList, Zenon
<1>5. Resume!Tok(c) \in Nat /\ C \in Seq(Int) /\ Len(C) = Resume!Tok(c) /\ Follows(file, (pos + c) - 1, tc)
  BY <1>4, ArrayOfInts, Zenon DEF C, tc
<1>6. ASSUME NEW q \in Seq(Int)
      PROVE  /\ Resume!CountedTokens(Resume!I32s(q)) \in Seq(RTokens)
             /\ Len(Resume!CountedTokens(Resume!I32s(q))) = 1 + Len(q)
  <2>1. Resume!I32s(q) \in Seq(RTokens) /\ Len(Resume!I32s(q)) = Len(q)
    BY ResumeInts
  <2> QED BY <2>1, ResumeCounted
<1>7. ta \in Seq(RTokens) /\ Len(ta) = 1 + Len(A)
  BY <1>1, <1>6, Zenon DEF ta
<1>8. /\ tb \in Seq(RTokens) /\ Len(tb) = 1 + Len(B)
      /\ tc \in Seq(RTokens) /\ Len(tc) = 1 + Len(C)
  BY <1>3, <1>5, <1>6, Zenon DEF tb, tc
<1>9. Resume!FrameTokens(Resume!Frames(A, B, C)) = Joined(Joined(ta, tb), tc)
  <2>1. Len(A) = Len(B) /\ Len(C) = Resume!Calls(Len(B), B)
    BY <1>1, <1>3, <1>5, Zenon DEF B
  <2> QED BY <1>1, <1>3, <1>5, <2>1, FramesWritten DEF ta, tb, tc
<1>10. /\ Joined(ta, tb) \in Seq(RTokens) /\ Len(Joined(ta, tb)) = Len(ta) + Len(tb)
  BY <1>7, <1>8, JoinedAt
<1> DEFINE u == Joined(ta, tb)
           t == Joined(u, tc)
<1>11. Len(ta) = b - 1 /\ Len(u) = c - 1 /\ Len(tc) = n - c /\ b \in Nat /\ c \in Nat /\ n \in Nat \ {0}
  <2>1. Len(ta) = 1 + Resume!Tok(1) /\ Len(tb) = 1 + Resume!Tok(b) /\ Len(tc) = 1 + Resume!Tok(c)
    BY <1>1, <1>3, <1>5, <1>7, <1>8
  <2> HIDE DEF t
  <2>2. Len(u) = Len(ta) + Len(tb)
    BY <1>10
  <2> HIDE DEF u
  <2>3. b \in Nat /\ c \in Nat
    BY <1>2, <1>4
  <2>4. n \in Nat \ {0}
    BY <1>5, <2>3, NextList, Zenon
  <2>5. Len(ta) = b - 1
    BY <1>1, <2>1
  <2>6. Len(u) = c - 1
    <3>1. Len(u) = (b - 1) + (1 + Resume!Tok(b))
      BY <2>1, <2>2, <2>5, Zenon
    <3>2. (b - 1) + (1 + Resume!Tok(b)) = (b + 1 + Resume!Tok(b)) - 1
      BY <1>3, <2>3, ListEnds, Zenon
    <3> QED BY <3>1, <3>2, Zenon
  <2>7. Len(tc) = n - c
    <3> DEFINE k == Resume!Tok(c)
    <3>1. k \in Nat /\ Len(tc) = 1 + k /\ n = c + 1 + k
      BY <1>5, <2>1, Zenon
    <3> HIDE DEF k
    <3> QED BY <2>3, <3>1
  <2> QED BY <2>3, <2>4, <2>5, <2>6, <2>7
<1>12. Follows(file, pos, u)
  <2>1. (pos + 1) - 1 = pos /\ (pos + b) - 1 = pos + Len(ta)
    BY <1>11
  <2>2. Follows(file, pos, ta) /\ Follows(file, pos + Len(ta), tb)
    BY <1>1, <1>3, <2>1, Zenon
  <2> QED BY <1>7, <1>8, <2>2, FollowsBoth, Zenon
<1> HIDE DEF u
<1>13. t \in Seq(RTokens) /\ Len(t) = Len(u) + Len(tc)
  BY <1>8, <1>10, JoinedAt DEF u
<1>14. Follows(file, pos, t)
  <2>1. (pos + c) - 1 = pos + Len(u)
    BY <1>11
  <2> QED BY <1>5, <1>8, <1>10, <1>12, <2>1, FollowsBoth DEF u
<1> HIDE DEF t
<1>15. Len(t) = n - 1
  BY <1>11, <1>13
<1> QED BY <1>9, <1>11, <1>13, <1>14, <1>15 DEF t, u, A, B, C

LEMMA FramesKeeps ==
  ASSUME ResumeInv, Resume!ParseFrames, file' = file, mode' = mode, mode \in {"all", "comments"}
  PROVE  ResumeInv'
<1> DEFINE b == 1 + 1 + Resume!Tok(1)
           c == b + 1 + Resume!Tok(b)
           n == c + 1 + Resume!Tok(c)
           f == Resume!Frames(Resume!Array(1), Resume!Array(b), Resume!Array(c))
           k == Resume!Tok(n)
           x == WithFrames(s, f)
<1>1. /\ file \in Seq(RTokens) /\ pos \in Nat /\ phase = "frames" /\ IsSave(s) /\ pos <= Len(file)
      /\ s.version \in Versions /\ ~s.comments_only /\ s.heap = <<>> /\ s.returns = <<>>
      /\ part = Resume!NOTHING /\ ReadOf(file, pos) = HeadStack(s)
  BY DEF ResumeInv, Resume!ParseFrames, Under, HasRead
<1>2. CASE Resume!End("off")
  BY <1>2, EndKeepsResume
<1>3. CASE /\ Resume!IsArray(1, "int") /\ Resume!IsArray(b, "int") /\ Resume!IsArray(c, "int")
           /\ Resume!Tok(1) = Resume!Tok(b) /\ Resume!Tok(c) = Resume!Calls(Resume!Tok(b), Resume!Array(b))
           /\ ~(pos + n > Len(file)) /\ file[pos + n].kind = "int" /\ ~(k < 0)
           /\ s' = [s EXCEPT !.frames = f]
           /\ pos' = pos + n /\ left' = k /\ phase' = "returns" /\ part' = part
  <2> DEFINE t == Resume!FrameTokens(f)
  <2>1. t \in Seq(RTokens) /\ Len(t) = n - 1 /\ n \in Nat \ {0} /\ Follows(file, pos, t)
    BY <1>1, <1>3, FramesRead, Zenon
  <2>2. s' = x
    BY <1>3 DEF WithFrames
  <2> HIDE DEF x, f, k, n, b, c
  <2>3. /\ IsSave(x) /\ x.version = s.version /\ ~x.comments_only /\ x.heap = <<>> /\ x.returns = <<>>
        /\ x.ip = s.ip /\ x.comments = s.comments /\ x.stack = s.stack /\ x.frames = f
    BY <1>1, SetFrames DEF x
  <2> HIDE DEF t
  <2>4. pos + n <= Len(file) /\ Len(file) \in Nat
    BY <1>1, <1>3, <2>1
  <2>5. k \in Nat /\ file[pos + n] = Resume!I32(k) /\ Resume!I32(k) \in RTokens
    <3>1. k \in Int /\ file[pos + n] = Resume!I32(k)
      BY <1>1, <1>3, <2>1, <2>4, IntAt DEF k
    <3> QED BY <1>3, <3>1, ResumeTokens
  <2> DEFINE m == n - 1
             a == <<Resume!I32(k)>>
  <2>6. pos + m \in Nat /\ pos + n = (pos + m) + 1 /\ Len(t) = m
    BY <1>1, <2>1
  <2>7. Follows(file, pos + m, a) /\ a \in Seq(RTokens) /\ Len(a) = 1
    BY <1>1, <2>4, <2>5, <2>6, FollowsOne, OneToken
  <2> HIDE DEF m, a
  <2>8. ReadOf(file, pos + m) = Joined(ReadOf(file, pos), t)
    BY <1>1, <2>1, <2>6, Advanced
  <2>9. ReadOf(file, (pos + m) + 1) = Joined(ReadOf(file, pos + m), a)
    BY <1>1, <2>6, <2>7, Advanced
  <2>10. HeadStack(x) = HeadStack(s)
    BY <2>3, SameHeads DEF SameStack, SameIp, SameOpening
  <2>11. ReadOf(file, pos + n) = HeadCount(x, k)
    BY <1>1, <2>3, <2>6, <2>8, <2>9, <2>10, Zenon DEF HeadFrames, HeadCount, t, a
  <2>12. pos + n \in Nat /\ ReadOf(file, pos + n) \in Seq(RTokens)
    <3>1. pos + n \in Nat
      BY <1>1, <2>1
    <3> QED BY <1>1, <2>4, <3>1, ReadTyped
  <2>13. /\ IsSeq(x.returns) /\ Returned(x) \in Seq(Seq(RTokens)) /\ Len(x.returns) + k = k
    BY <2>3, <2>5, NoReturns
  <2>14. HeadReturns(x, k) = ReadOf(file, pos + n)
    <3>1. Returned(x) = <<>>
      BY <2>3, NoReturns
    <3>2. Joined(HeadCount(x, k), <<>>) = HeadCount(x, k)
      BY <2>11, <2>12, JoinedNone
    <3> QED BY <2>11, <3>1, <3>2, FlatEmpty, Zenon DEF HeadReturns
  <2>15. pos' = pos + n /\ left' = k /\ phase' = "returns" /\ part' = part
    BY <1>3
  <2> QED BY <1>1, <2>2, <2>3, <2>4, <2>5, <2>11, <2>12, <2>13, <2>14, <2>15 DEF ResumeInv, Under, HasRead
<1> QED BY <1>2, <1>3, Zenon DEF Resume!ParseFrames

LEMMA ReturnKeeps ==
  ASSUME ResumeInv, Resume!ParseReturn, file' = file, mode' = mode, mode \in {"all", "comments"}
  PROVE  ResumeInv'
<1> DEFINE r == Resume!ReturnRecord
           a == Append(s.returns, r)
           x == WithReturns(s, a)
           l == Len(Resume!ReturnKinds)
           n == Len(s.returns) + left
           t == Resume!ReturnTokens(r)
<1>1. /\ file \in Seq(RTokens) /\ pos \in Nat /\ phase = "returns" /\ IsSave(s) /\ pos <= Len(file)
      /\ s.version \in Versions /\ ~s.comments_only /\ s.heap = <<>> /\ part = Resume!NOTHING
      /\ left \in Nat /\ left > 0 /\ IsSeq(s.returns) /\ Returned(s) \in Seq(Seq(RTokens))
      /\ ReadOf(file, pos) = HeadReturns(s, n) /\ HeadCount(s, n) \in Seq(RTokens)
  BY DEF ResumeInv, Resume!ParseReturn, Under, HasRead
<1>2. CASE Resume!End("off")
  BY <1>2, EndKeepsResume
<1>3. CASE /\ Resume!Readable(Resume!ReturnKinds) /\ s' = [s EXCEPT !.returns = Append(@, r)]
           /\ pos' = pos + l /\ left' = left - 1 /\ phase' = phase /\ part' = part
  <2>1. s' = x
    BY <1>3 DEF WithReturns
  <2>2. t \in Seq(RTokens) /\ Len(t) = l /\ Follows(file, pos, t)
    BY <1>1, <1>3, RecordRead
  <2> HIDE DEF x, a, r, l, n, t
  <2>3. /\ IsSave(x) /\ x.version = s.version /\ ~x.comments_only /\ x.heap = <<>>
        /\ x.returns = a /\ SameFrames(s, x)
    BY <1>1, SetReturns DEF x, SameFrames, SameStack, SameIp, SameOpening
  <2>4. /\ IsSeq(x.returns) /\ Len(s.returns) \in Nat /\ Len(x.returns) = Len(s.returns) + 1
        /\ \A i \in 1 .. Len(s.returns) : x.returns[i] = s.returns[i]
        /\ x.returns[Len(s.returns) + 1] = r
    BY <1>1, <2>3, SeqAppend DEF a
  <2>5. left - 1 \in Nat /\ Len(x.returns) + (left - 1) = n
    BY <1>1, <2>4 DEF n
  <2>6. Returned(x) = Append(Returned(s), t)
    <3> DEFINE p == Returned(s)
               q == Returned(x)
               m == Len(s.returns)
    <3>1. Len(p) = m /\ p = [i \in 1 .. m |-> Resume!ReturnTokens(s.returns[i])]
      <4>1. p = [i \in 1 .. m |-> Resume!ReturnTokens(s.returns[i])]
        BY DEF Returned
      <4> HIDE DEF m, p
      <4>2. m \in Nat /\ p = [i \in 1 .. m |-> p[i]]
        BY <2>4, <4>1 DEF m
      <4> QED BY <4>1, <4>2, SeqMade
    <3>2. q = [i \in 1 .. m + 1 |-> q[i]] /\ q[m + 1] = t /\ \A i \in 1 .. m : q[i] = p[i]
      <4>1. q = [i \in 1 .. m + 1 |-> Resume!ReturnTokens(x.returns[i])]
        BY <2>4 DEF Returned
      <4> HIDE DEF p, q
      <4>2. m + 1 \in 1 .. m + 1 /\ \A i \in 1 .. m : i \in 1 .. m + 1
        BY <2>4
      <4> QED BY <2>4, <3>1, <4>1, <4>2 DEF t
    <3> HIDE DEF p, q
    <3>3. IsAppended(q, p, t)
      BY <3>1, <3>2 DEF IsAppended
    <3> QED BY <1>1, <2>2, <3>3, AppendIs DEF p, q
  <2>7. Returned(x) \in Seq(Seq(RTokens)) /\ Flat(Returned(s)) \in Seq(RTokens)
        /\ Flat(Returned(x)) = Joined(Flat(Returned(s)), t)
    <3>1. Append(Returned(s), t) \in Seq(Seq(RTokens))
      BY <1>1, <2>2, AppendProperties
    <3> QED BY <1>1, <2>2, <2>6, <3>1, FlatAppend, FlatInSeq
  <2>8. HeadCount(x, n) = HeadCount(s, n)
    BY <2>3, SameCounts
  <2>9. pos + l \in Nat /\ pos + l <= Len(file) /\ ReadOf(file, pos + l) = Joined(ReadOf(file, pos), t)
    BY <1>1, <2>2, Advanced
  <2>10. ReadOf(file, pos + l) = HeadReturns(x, n)
    <3>1. Joined(Joined(HeadCount(s, n), Flat(Returned(s))), t) = Joined(HeadCount(s, n), Flat(Returned(x)))
      BY <1>1, <2>2, <2>7, JoinedAssoc
    <3> QED BY <1>1, <2>8, <2>9, <3>1, Zenon DEF HeadReturns
  <2>11. pos' = pos + l /\ left' = left - 1 /\ phase' = "returns" /\ part' = part
    BY <1>1, <1>3
  <2> QED BY <1>1, <2>1, <2>3, <2>4, <2>5, <2>7, <2>8, <2>9, <2>10, <2>11 DEF ResumeInv, Under, HasRead
<1> QED BY <1>2, <1>3, Zenon DEF Resume!ParseReturn

LEMMA RejectKeepsResume ==
  ASSUME ResumeInv, Resume!RejectHeap, file' = file, mode' = mode
  PROVE  ResumeInv'
<1>1. /\ phase' = "invalid" /\ pos' = pos /\ left' = left /\ part' = part /\ s' = s
  BY DEF Resume!RejectHeap
<1> QED BY <1>1 DEF ResumeInv, Under, HasRead, IsSave

LEMMA ZerosRead ==
  ASSUME file \in Seq(RTokens), pos \in Nat, NEW z \in {0, 1}, Resume!Readable(Resume!Kinds(4 + z)),
         Resume!Toks(1, 3) = <<0, 0, 0>>
  PROVE  /\ <<Zero, Zero, Zero>> \in Seq(RTokens) /\ Len(<<Zero, Zero, Zero>>) = 3
         /\ Follows(file, pos, <<Zero, Zero, Zero>>)
         /\ \A i \in 1 .. 4 + z : pos + i <= Len(file) /\ file[pos + i].kind = "int"
<1>1. \A i \in 1 .. 4 + z : pos + i <= Len(file) /\ file[pos + i].kind = "int"
  <2> DEFINE k == Resume!Kinds(4 + z)
  <2>1. Len(k) = 4 + z /\ \A i \in 1 .. 4 + z : k[i] = "int"
    BY DEF Resume!Kinds
  <2> HIDE DEF k
  <2>2. pos + Len(k) <= Len(file) /\ \A i \in 1 .. Len(k) : file[pos + i].kind = k[i]
    BY DEF Resume!Readable, k
  <2>3. Len(file) \in Nat
    OBVIOUS
  <2> DEFINE n == 4 + z
  <2>4. n \in Nat
    OBVIOUS
  <2> HIDE DEF n
  <2>5. ASSUME NEW i \in 1 .. n PROVE pos + i <= Len(file) /\ file[pos + i].kind = "int"
    <3>1. Len(k) = n /\ k[i] = "int"
      BY <2>1 DEF n
    <3>2. file[pos + i].kind = k[i] /\ pos + n <= Len(file)
      BY <2>2, <3>1
    <3> QED BY <2>3, <2>4, <3>1, <3>2
  <2> QED BY <2>5 DEF n
<1>2. Resume!Tok(1) = 0 /\ Resume!Tok(2) = 0 /\ Resume!Tok(3) = 0
  <2> DEFINE t == Resume!Toks(1, 3)
             u == <<0, 0, 0>>
  <2>1. t[1] = Resume!Tok(1) /\ t[2] = Resume!Tok(2) /\ t[3] = Resume!Tok(3)
    BY DEF Resume!Toks
  <2>2. u[1] = 0 /\ u[2] = 0 /\ u[3] = 0
    OBVIOUS
  <2>3. t = u
    OBVIOUS
  <2> HIDE DEF t, u
  <2> QED BY <2>1, <2>2, <2>3
<1>3. /\ pos + 1 <= Len(file) /\ file[pos + 1].kind = "int"
      /\ pos + 2 <= Len(file) /\ file[pos + 2].kind = "int"
      /\ pos + 3 <= Len(file) /\ file[pos + 3].kind = "int"
  BY <1>1
<1>4. file[pos + 1] = Zero /\ file[pos + 2] = Zero /\ file[pos + 3] = Zero
  <2>1. file[pos + 1] = Resume!I32(Resume!Tok(1))
    BY <1>3, IntAt
  <2>2. file[pos + 2] = Resume!I32(Resume!Tok(2))
    BY <1>3, IntAt
  <2>3. file[pos + 3] = Resume!I32(Resume!Tok(3))
    BY <1>3, IntAt
  <2> QED BY <1>2, <2>1, <2>2, <2>3, Zenon DEF Zero
<1> DEFINE a == <<Zero, Zero, Zero>>
<1>5. a \in Seq(RTokens) /\ Len(a) = 3 /\ a[1] = Zero /\ a[2] = Zero /\ a[3] = Zero
  <2>1. 0 \in Int
    OBVIOUS
  <2>2. Zero \in RTokens
    BY <2>1, ResumeTokens DEF Zero
  <2> QED BY <2>2
<1> HIDE DEF a
<1>6. Follows(file, pos, a)
  <2>1. \A i \in 1 .. 3 : i = 1 \/ i = 2 \/ i = 3
    OBVIOUS
  <2>2. \A i \in 1 .. 3 : file[pos + i] = a[i]
    BY <1>4, <1>5, <2>1
  <2> QED BY <1>3, <1>5, <2>2 DEF Follows
<1> QED BY <1>1, <1>5, <1>6 DEF a

LEMMA HeapKeeps ==
  ASSUME ResumeInv, Resume!StartHeap, file' = file, mode' = mode, mode \in {"all", "comments"}
  PROVE  ResumeInv'
<1> DEFINE z == IF s.version >= 9 THEN 1 ELSE 0
           v == IF z = 1 THEN Resume!Tok(4) ELSE 0
           x == WithNextSeq(s, v)
           k == Resume!Tok(4 + z)
           n == Len(s.returns)
           a == <<Zero, Zero, Zero>>
           q == SeqTokens(x)
           c == <<Resume!I32(k)>>
<1>1. /\ file \in Seq(RTokens) /\ pos \in Nat /\ phase = "returns" /\ IsSave(s) /\ pos <= Len(file)
      /\ s.version \in Versions /\ ~s.comments_only /\ s.heap = <<>> /\ part = Resume!NOTHING
      /\ IsSeq(s.returns) /\ left = 0 /\ n \in Nat
      /\ ReadOf(file, pos) = HeadReturns(s, n)
  <2>1. /\ phase = "returns" /\ left = 0
    BY DEF Resume!StartHeap
  <2>2. IsSeq(s.returns) /\ ReadOf(file, pos) = HeadReturns(s, Len(s.returns) + left)
    BY <2>1 DEF ResumeInv, Under, HasRead
  <2>3. Len(s.returns) \in Nat
    BY <2>2, SeqIs DEF IsSeq
  <2>4. Len(s.returns) + left = n
    BY <2>1, <2>3
  <2> QED BY <2>1, <2>2, <2>3, <2>4 DEF ResumeInv, Under
<1>2. CASE Resume!End("off")
  BY <1>2, EndKeepsResume
<1>3. CASE /\ Resume!Readable(Resume!Kinds(4 + z)) /\ Resume!Toks(1, 3) = <<0, 0, 0>> /\ ~(k < 0)
           /\ s' = [s EXCEPT !.next_seq = v] /\ pos' = pos + 4 + z /\ left' = k /\ phase' = "heap" /\ part' = part
  <2>1. s' = x
    BY <1>3 DEF WithNextSeq
  <2>2. z \in {0, 1} /\ (z = 1 <=> s.version >= 9)
    OBVIOUS
  <2> HIDE DEF x, z
  <2>3. /\ a \in Seq(RTokens) /\ Len(a) = 3 /\ Follows(file, pos, a)
        /\ \A i \in 1 .. 4 + z : pos + i <= Len(file) /\ file[pos + i].kind = "int"
    BY <1>1, <1>3, <2>2, ZerosRead
  <2> HIDE DEF a, q, c, k, v
  <2>4. /\ IsSave(x) /\ x.version = s.version /\ ~x.comments_only /\ x.heap = <<>> /\ x.next_seq = v
        /\ x.returns = s.returns /\ SameReturns(s, x)
    BY <1>1, SetNextSeq DEF x, SameReturns, SameFrames, SameStack, SameIp, SameOpening
  <2>5. q \in Seq(RTokens) /\ Len(q) = z /\ Follows(file, pos + 3, q)
    <3>1. CASE z = 1
      <4>1. q = <<Resume!I32(Resume!Tok(4))>>
        BY <2>2, <2>4, <3>1, Zenon DEF q, SeqTokens, v
      <4>2. 4 \in 1 .. 4 + z
        BY <3>1
      <4>3. Resume!Tok(4) \in Int /\ file[pos + 4] = Resume!I32(Resume!Tok(4)) /\ pos + 4 <= Len(file)
        BY <1>1, <2>3, <4>2, IntAt
      <4>4. (pos + 3) + 1 = pos + 4 /\ pos + 3 \in Nat
        BY <1>1
      <4>5. Resume!I32(Resume!Tok(4)) \in RTokens
        BY <4>3, ResumeTokens
      <4> QED BY <1>1, <3>1, <4>1, <4>3, <4>4, <4>5, FollowsOne, OneToken
    <3>2. CASE z = 0
      <4>1. q = <<>>
        <5>1. ~(x.version >= 9)
          BY <2>2, <2>4, <3>2
        <5> QED BY <5>1, Zenon DEF q, SeqTokens
      <4>2. pos + 3 \in Nat /\ pos + 3 <= Len(file) /\ <<>> \in Seq(RTokens) /\ Len(<<>>) = 0
        <5>1. 3 \in 1 .. 4 + z
          BY <3>2
        <5> QED BY <1>1, <2>3, <5>1
      <4> QED BY <1>1, <3>2, <4>1, <4>2, FollowsNone
    <3> QED BY <2>2, <3>1, <3>2
  <2>6. k \in Nat /\ c \in Seq(RTokens) /\ Len(c) = 1 /\ Follows(file, pos + 3 + z, c)
    <3>1. 4 + z \in 1 .. 4 + z /\ 4 + z \in Nat \ {0}
      BY <2>2
    <3>2. k \in Int /\ file[pos + (4 + z)] = Resume!I32(k) /\ pos + (4 + z) <= Len(file)
      BY <1>1, <2>3, <3>1, IntAt DEF k
    <3>3. (pos + 3 + z) + 1 = pos + (4 + z) /\ pos + 3 + z \in Nat /\ Resume!I32(k) \in RTokens /\ k \in Nat
      BY <1>1, <1>3, <2>2, <3>2, ResumeTokens
    <3> QED BY <1>1, <3>2, <3>3, FollowsOne, OneToken DEF c
  <2>7. /\ pos + 3 \in Nat /\ ReadOf(file, pos + 3) = Joined(ReadOf(file, pos), a)
    BY <1>1, <2>3, Advanced
  <2>8. /\ pos + 3 + z \in Nat /\ ReadOf(file, pos + 3 + z) = Joined(ReadOf(file, pos + 3), q)
    BY <1>1, <2>5, <2>7, Advanced
  <2>9. /\ (pos + 3 + z) + 1 \in Nat /\ (pos + 3 + z) + 1 <= Len(file)
        /\ ReadOf(file, (pos + 3 + z) + 1) = Joined(ReadOf(file, pos + 3 + z), c)
    BY <1>1, <2>6, <2>8, Advanced
  <2> DEFINE p == pos + 4 + z
  <2>10. p = (pos + 3 + z) + 1
    BY <1>1, <2>2
  <2> HIDE DEF p
  <2>11. HeadReturns(x, n) = HeadReturns(s, n)
    BY <2>4, SameCounts
  <2>12. ReadOf(file, p) = HeadSize(x, k)
    BY <1>1, <2>4, <2>7, <2>8, <2>9, <2>10, <2>11, Zenon DEF HeadSize, HeadSeq, a, q, c
  <2>13. p \in Nat /\ p <= Len(file) /\ ReadOf(file, p) \in Seq(RTokens)
    BY <1>1, <2>9, <2>10, ReadTyped
  <2>14. /\ IsSeq(x.heap) /\ Objects(x) = <<>> /\ Objects(x) \in Seq(Seq(RTokens)) /\ Len(x.heap) + k = k
    BY <2>4, <2>6, NoObjects
  <2>15. HeadHeap(x, k) = ReadOf(file, p)
    <3>1. Joined(HeadSize(x, k), <<>>) = HeadSize(x, k)
      BY <2>12, <2>13, JoinedNone
    <3> QED BY <2>12, <2>14, <3>1, FlatEmpty, Zenon DEF HeadHeap
  <2>16. pos' = p /\ left' = k /\ phase' = "heap" /\ part' = part
    BY <1>3 DEF p
  <2> QED BY <1>1, <2>1, <2>4, <2>6, <2>12, <2>13, <2>14, <2>15, <2>16 DEF ResumeInv, Under, HasRead
<1> QED BY <1>2, <1>3, Zenon DEF Resume!StartHeap, Resume!version

\* The heap of x is that of y and one more object, written as t.
HeapGrown(y, x, t, n) ==
  /\ IsSave(x) /\ x.version = y.version /\ x.comments_only = y.comments_only
  /\ IsSeq(x.heap) /\ Len(y.heap) \in Nat /\ Len(x.heap) = Len(y.heap) + 1
  /\ Objects(x) \in Seq(Seq(RTokens)) /\ HeadSize(x, n) = HeadSize(y, n)
  /\ HeadHeap(x, n) = Joined(HeadHeap(y, n), t) /\ HeadHeap(y, n) \in Seq(RTokens)

LEMMA HeapGrows ==
  ASSUME NEW y, IsSave(y), IsSeq(y.heap), Objects(y) \in Seq(Seq(RTokens)),
         NEW o, NEW t, t = Resume!ObjectTokens(y.version, o), t \in Seq(RTokens),
         NEW x, x = WithHeap(y, Append(y.heap, o)),
         NEW n, HeadSize(y, n) \in Seq(RTokens)
  PROVE  HeapGrown(y, x, t, n)
<1> DEFINE a == Append(y.heap, o)
           m == Len(y.heap)
           p == Objects(y)
           q == Objects(x)
<1> HIDE DEF a
<1>1. /\ IsSave(x) /\ x.version = y.version /\ x.comments_only = y.comments_only /\ x.heap = a
      /\ SameSeq(y, x)
  <2>1. x = WithHeap(y, a)
    BY DEF a
  <2> QED BY <2>1, SetHeap DEF SameSeq, SameReturns, SameFrames, SameStack, SameIp, SameOpening
<1>2. /\ IsSeq(x.heap) /\ m \in Nat /\ Len(x.heap) = m + 1
      /\ \A i \in 1 .. m : x.heap[i] = y.heap[i]
      /\ x.heap[m + 1] = o
  BY <1>1, SeqAppend DEF a
<1>3. q = Append(p, t)
  <2>1. Len(p) = m /\ p = [i \in 1 .. m |-> Resume!ObjectTokens(y.version, y.heap[i])]
    <3>1. p = [i \in 1 .. m |-> Resume!ObjectTokens(y.version, y.heap[i])]
      BY DEF Objects
    <3> HIDE DEF m, p
    <3>2. m \in Nat /\ p = [i \in 1 .. m |-> p[i]]
      BY <1>2, <3>1 DEF m
    <3> QED BY <3>1, <3>2, SeqMade
  <2>2. q = [i \in 1 .. m + 1 |-> q[i]] /\ q[m + 1] = t /\ \A i \in 1 .. m : q[i] = p[i]
    <3>1. q = [i \in 1 .. m + 1 |-> Resume!ObjectTokens(y.version, x.heap[i])]
      BY <1>1, <1>2 DEF Objects
    <3> HIDE DEF p, q
    <3>2. m + 1 \in 1 .. m + 1 /\ \A i \in 1 .. m : i \in 1 .. m + 1
      BY <1>2
    <3> QED BY <1>2, <2>1, <3>1, <3>2
  <2> HIDE DEF p, q
  <2>3. IsAppended(q, p, t)
    BY <2>1, <2>2 DEF IsAppended
  <2> QED BY <2>3, AppendIs DEF p, q
<1>4. /\ q \in Seq(Seq(RTokens)) /\ Flat(p) \in Seq(RTokens) /\ Flat(q) = Joined(Flat(p), t)
  <2>1. Append(p, t) \in Seq(Seq(RTokens))
    BY AppendProperties
  <2> QED BY <1>3, <2>1, FlatAppend, FlatInSeq
<1>5. HeadSize(x, n) = HeadSize(y, n)
  BY <1>1, SameCounts
<1>6. HeadHeap(x, n) = Joined(HeadHeap(y, n), t) /\ HeadHeap(y, n) \in Seq(RTokens)
  <2>1. Joined(Joined(HeadSize(y, n), Flat(p)), t) = Joined(HeadSize(y, n), Flat(q))
    BY <1>4, JoinedAssoc
  <2>2. Joined(HeadSize(y, n), Flat(p)) \in Seq(RTokens)
    BY <1>4, JoinedTyped
  <2> QED BY <1>5, <2>1, <2>2, Zenon DEF HeadHeap
<1> QED BY <1>1, <1>2, <1>4, <1>5, <1>6 DEF HeapGrown

LEMMA FinishKeeps ==
  ASSUME ResumeInv, Resume!Finish, file' = file, mode' = mode, mode \in {"all", "comments"}
  PROVE  ResumeInv'
<1> DEFINE h == Len(s.heap)
           a == Resume!Array(1)
           x == WithFuncs(s, a)
           n == 1 + Resume!Tok(1)
           t == Resume!CountedTokens(Texts(a))
<1>1. /\ file \in Seq(RTokens) /\ pos \in Nat /\ phase = "heap" /\ IsSave(s) /\ pos <= Len(file)
      /\ s.version \in Versions /\ ~s.comments_only /\ part = Resume!NOTHING
      /\ ReadOf(file, pos) = HeadHeap(s, h)
  <2>1. /\ phase = "heap" /\ left = 0 /\ part = Resume!NOTHING
    BY DEF Resume!Finish
  <2>2. IsSeq(s.heap) /\ ReadOf(file, pos) = HeadHeap(s, Len(s.heap) + left)
    BY <2>1 DEF ResumeInv, Under, HasRead
  <2>3. Len(s.heap) \in Nat
    BY <2>2, SeqIs DEF IsSeq
  <2>4. Len(s.heap) + left = h
    BY <2>1, <2>3
  <2> QED BY <2>1, <2>2, <2>4 DEF ResumeInv, Under
<1>2. CASE Resume!End("off")
  BY <1>2, EndKeepsResume
<1>3. CASE Resume!End("invalid")
  BY <1>3, EndKeepsResume
<1>4. CASE s.version < 6 /\ Resume!AtEnd(0) /\ Resume!GoOn(0, s, "done")
  <2>1. pos' = pos /\ s' = s /\ phase' = "done" /\ left' = left /\ part' = part /\ pos = Len(file)
    BY <1>1, <1>4 DEF Resume!GoOn, Resume!AtEnd
  <2>2. ReadOf(file, pos) = file
    BY <1>1, <2>1, ReadAll
  <2>3. Resume!FileOf(s) = file
    <3>1. ~(s.version >= 6)
      BY <1>1, <1>4 DEF Versions
    <3>2. FuncTokens(s) = <<>>
      BY <3>1, Zenon DEF FuncTokens
    <3>3. Resume!FileOf(s) = Joined(HeadHeap(s, h), FuncTokens(s))
      BY <1>1, FileIs, Zenon
    <3>4. Joined(file, <<>>) = file
      BY <1>1, JoinedNone
    <3> QED BY <1>1, <2>2, <3>2, <3>3, <3>4, Zenon
  <2> QED BY <1>1, <2>1, <2>3 DEF ResumeInv, Under, HasRead
<1>5. CASE /\ ~(s.version < 6) /\ Resume!IsArray(1, "str") /\ Resume!AtEnd(n)
           /\ Resume!GoOn(n, [s EXCEPT !.funcs = a], "done")
  <2>1. s' = x /\ pos' = pos + n /\ phase' = "done" /\ left' = left /\ part' = part /\ pos + n = Len(file)
    BY <1>5 DEF Resume!GoOn, Resume!AtEnd, WithFuncs
  <2>2. Resume!Tok(1) \in Nat /\ a \in Seq(STRING) /\ Len(a) = Resume!Tok(1) /\ Follows(file, (pos + 1) - 1, t)
    BY <1>1, <1>5, ArrayOfTexts
  <2> HIDE DEF a
  <2>3. t \in Seq(RTokens) /\ Len(t) = n
    BY <2>2, ResumeTexts, ResumeCounted
  <2>4. (pos + 1) - 1 = pos
    BY <1>1
  <2> HIDE DEF x, n, t
  <2>5. /\ IsSave(x) /\ x.version = s.version /\ ~x.comments_only /\ x.heap = s.heap
        /\ x.funcs = a /\ SameHeap(s, x)
    BY <1>1, SetFuncs DEF x, SameHeap, SameSeq, SameReturns, SameFrames, SameStack, SameIp, SameOpening
  <2>6. ReadOf(file, pos + n) = Joined(ReadOf(file, pos), t)
    BY <1>1, <2>2, <2>3, <2>4, Advanced
  <2>7. Resume!FileOf(x) = file
    <3>1. x.version >= 6
      BY <1>1, <1>5, <2>5 DEF Versions
    <3>2. FuncTokens(x) = t
      BY <2>5, <3>1, Zenon DEF FuncTokens, t
    <3>3. Resume!FileOf(x) = Joined(HeadHeap(x, h), FuncTokens(x))
      BY <2>5, FileIs, Zenon
    <3>4. HeadHeap(x, h) = HeadHeap(s, h)
      BY <2>5, SameCounts
    <3>5. ReadOf(file, pos + n) = file
      BY <1>1, <2>1, ReadAll
    <3> QED BY <1>1, <2>6, <3>2, <3>3, <3>4, <3>5, Zenon
  <2>8. pos + n \in Nat /\ pos + n <= Len(file)
    BY <1>1, <2>1
  <2> QED BY <1>1, <2>1, <2>5, <2>7, <2>8 DEF ResumeInv, Under, HasRead
<1> QED BY <1>2, <1>3, <1>4, <1>5, Zenon DEF Resume!Finish, Resume!version

LEMMA PartIsObject ==
  ASSUME NEW v, NEW o, NEW m, IsPart(v, o, m)
  PROVE  o # Resume!NOTHING
<1>1. "tag" \in DOMAIN o
  BY DEF IsPart
<1>2. DOMAIN Resume!NOTHING = {}
  BY DEF Resume!NOTHING
<1> QED BY <1>1, <1>2

LEMMA NoFields ==
  ASSUME NEW v, NEW o
  PROVE  FieldsOf(v, o, 0) = <<>>
BY DEF FieldsOf

\* An object of which the tag was read.
LEMMA PartStarts ==
  ASSUME NEW v, NEW tag, HasTag(v, tag), NEW o, o = [tag |-> tag]
  PROVE  IsPart(v, o, 0) /\ o.tag = tag /\ Cardinality(DOMAIN o) - 1 = 0
<1>1. o.tag = tag /\ DOMAIN o = {"tag"}
  OBVIOUS
<1>2. IsFiniteSet({"tag"}) /\ Cardinality({"tag"}) = 1
  BY FS_Singleton
<1>3. DOMAIN o = {"tag"} \cup {NameOf(v, o.tag, j) : j \in 1 .. 0}
  <2>1. 1 .. 0 = {}
    OBVIOUS
  <2> QED BY <1>1, <2>1, Zenon
<1>4. HasFields(v, o, 0)
  BY DEF HasFields
<1>5. 0 \in 0 .. Len(Resume!Layout(v, o.tag))
  <2>1. Len(Resume!Layout(v, tag)) \in Nat
    BY LayoutMatches DEF Matching
  <2> QED BY <1>1, <2>1
<1>6. IsFiniteSet(DOMAIN o) /\ Cardinality(DOMAIN o) = 0 + 1
  BY <1>1, <1>2
<1>7. HasTag(v, o.tag)
  BY <1>1
<1>8. IsPart(v, o, 0)
  BY <1>3, <1>4, <1>5, <1>6, <1>7, Zenon DEF IsPart
<1> QED BY <1>1, <1>6, <1>8

LEMMA NullObject ==
  ASSUME NEW v
  PROVE  Resume!ObjectTokens(v, [tag |-> Resume!RSAVE_NULL]) = <<Resume!I32(Resume!RSAVE_NULL)>>
<1> DEFINE o == [tag |-> Resume!RSAVE_NULL]
           w == Resume!Written(v, o.tag)
           f == [j \in 1 .. Len(w) |-> Resume!FieldTokens(w[j][2], o[w[j][1]])]
           t == <<Resume!I32(Resume!RSAVE_NULL)>>
<1>1. o.tag = Resume!RSAVE_NULL
  OBVIOUS
<1>2. Resume!ObjectTokens(v, o) = Joined(<<Resume!I32(o.tag)>>, Flat(f))
  BY Zenon DEF Resume!ObjectTokens, Resume!Map, Joined, Flat
<1>3. w = <<>>
  BY <1>1, TagsDiffer, Zenon DEF Resume!Written
<1>4. f = <<>>
  BY <1>3
<1>5. Joined(t, <<>>) = t
  <2>1. t \in Seq({Resume!I32(Resume!RSAVE_NULL)})
    OBVIOUS
  <2> HIDE DEF t
  <2> QED BY <2>1, JoinedNone
<1> HIDE DEF o, f
<1> QED BY <1>1, <1>2, <1>4, <1>5, FlatEmpty, Zenon DEF t, o

\* A whole heap object was read.
LEMMA HeapAppendKeeps ==
  ASSUME ResumeInv, phase = "heap", left > 0, NEW o, NEW t, t = Resume!ObjectTokens(s.version, o), t \in Seq(RTokens),
         NEW p \in Nat, p <= Len(file), ReadOf(file, p) = Joined(HeadHeap(s, Len(s.heap) + left), t),
         s' = WithHeap(s, Append(s.heap, o)), pos' = p, left' = left - 1, phase' = "heap", part' = Resume!NOTHING,
         file' = file, mode' = mode
  PROVE  ResumeInv'
<1> DEFINE n == Len(s.heap) + left
           x == WithHeap(s, Append(s.heap, o))
<1>1. /\ file \in Seq(RTokens) /\ IsSave(s) /\ s.version \in Versions /\ ~s.comments_only
      /\ left \in Nat /\ IsSeq(s.heap) /\ Objects(s) \in Seq(Seq(RTokens)) /\ HeadSize(s, n) \in Seq(RTokens)
  BY DEF ResumeInv, Under, HasRead
<1> HIDE DEF n, x
<1>2. /\ IsSave(x) /\ x.version = s.version /\ x.comments_only = s.comments_only
      /\ IsSeq(x.heap) /\ Len(s.heap) \in Nat /\ Len(x.heap) = Len(s.heap) + 1
      /\ Objects(x) \in Seq(Seq(RTokens)) /\ HeadSize(x, n) = HeadSize(s, n)
      /\ HeadHeap(x, n) = Joined(HeadHeap(s, n), t)
  <2>1. HeapGrown(s, x, t, n)
    BY <1>1, HeapGrows, Zenon DEF x
  <2> QED BY <2>1 DEF HeapGrown
<1>3. left - 1 \in Nat /\ Len(x.heap) + (left - 1) = n
  BY <1>1, <1>2 DEF n
<1>4. s' = x /\ ReadOf(file, p) = HeadHeap(x, n) /\ x.version \in Versions /\ ~x.comments_only
      /\ HeadSize(x, n) \in Seq(RTokens)
  BY <1>1, <1>2 DEF x, n
<1> QED BY <1>1, <1>2, <1>3, <1>4 DEF ResumeInv, Under, HasRead

LEMMA ObjectKeeps ==
  ASSUME ResumeInv, Resume!StartObject, file' = file, mode' = mode, mode \in {"all", "comments"}
  PROVE  ResumeInv'
<1> DEFINE h == Len(s.heap) + left
           tag == Resume!Tok(1)
           null == [tag |-> Resume!RSAVE_NULL]
<1>1. /\ file \in Seq(RTokens) /\ pos \in Nat /\ phase = "heap" /\ IsSave(s) /\ pos <= Len(file)
      /\ s.version \in Versions /\ ~s.comments_only /\ part = Resume!NOTHING
      /\ left \in Nat /\ left > 0 /\ IsSeq(s.heap) /\ Objects(s) \in Seq(Seq(RTokens))
      /\ ReadOf(file, pos) = HeadHeap(s, h) /\ HeadSize(s, h) \in Seq(RTokens)
  BY DEF ResumeInv, Resume!StartObject, Under, HasRead
<1>2. CASE Resume!End("off")
  BY <1>2, EndKeepsResume
<1>3. CASE Resume!RejectHeap
  BY <1>3, RejectKeepsResume
<1>4. CASE /\ Resume!Readable(<<"int">>) /\ tag = Resume!RSAVE_NULL
           /\ pos' = pos + 1 /\ s' = [s EXCEPT !.heap = Append(@, null)]
           /\ left' = left - 1 /\ part' = part /\ phase' = phase
  <2> DEFINE t == <<Resume!I32(tag)>>
  <2>1. t \in Seq(RTokens) /\ Len(t) = 1 /\ Follows(file, pos, t)
    BY <1>1, <1>4, NextInt
  <2>2. s' = WithHeap(s, Append(s.heap, null))
    BY <1>4 DEF WithHeap
  <2>3. t = Resume!ObjectTokens(s.version, null)
    BY <1>4, NullObject, Zenon
  <2> HIDE DEF t, null, h
  <2>4. pos + 1 \in Nat /\ pos + 1 <= Len(file) /\ ReadOf(file, pos + 1) = Joined(HeadHeap(s, h), t)
    BY <1>1, <2>1, Advanced
  <2>5. pos' = pos + 1 /\ left' = left - 1 /\ part' = Resume!NOTHING /\ phase' = "heap"
    BY <1>1, <1>4
  <2> QED BY <1>1, <2>1, <2>2, <2>3, <2>4, <2>5, HeapAppendKeeps DEF h
<1>5. CASE /\ Resume!Readable(<<"int">>) /\ tag \in Resume!RSAVE_NULL .. Resume!RSAVE_DELEGATE
           /\ ~(tag = Resume!RSAVE_DELEGATE /\ s.version < 9) /\ tag # Resume!RSAVE_NULL
           /\ pos' = pos + 1 /\ part' = [tag |-> tag] /\ s' = s /\ left' = left /\ phase' = phase
  <2> DEFINE t == <<Resume!I32(tag)>>
             o == [tag |-> tag]
  <2>1. t \in Seq(RTokens) /\ Len(t) = 1 /\ Follows(file, pos, t) /\ tag \in Int
    BY <1>1, <1>5, NextInt
  <2> HIDE DEF t, h, tag
  <2>2. HasTag(s.version, tag)
    BY <1>1, <1>5, <2>1, TagsAre DEF HasTag, Versions
  <2>3. IsPart(s.version, o, 0) /\ o.tag = tag /\ Cardinality(DOMAIN o) - 1 = 0
    BY <2>2, PartStarts
  <2>4. pos + 1 \in Nat /\ pos + 1 <= Len(file) /\ ReadOf(file, pos + 1) = Joined(HeadHeap(s, h), t)
    BY <1>1, <2>1, Advanced
  <2>5. pos' = pos + 1 /\ s' = s /\ left' = left /\ part' = o /\ phase' = "heap"
    BY <1>1, <1>5
  <2> HIDE DEF o
  <2>6. o # Resume!NOTHING
    BY <2>3, PartIsObject
  <2>7. AtPart' = 0
    BY <2>3, <2>5 DEF AtPart
  <2>8. ReadOf(file, pos + 1) = Joined(Joined(HeadHeap(s, h), <<Resume!I32(o.tag)>>), Flat(FieldsOf(s.version, o, 0)))
    <3>1. Flat(FieldsOf(s.version, o, 0)) = <<>>
      BY NoFields, FlatEmpty
    <3>2. ReadOf(file, pos + 1) \in Seq(RTokens)
      BY <1>1, <2>4, ReadTyped
    <3>3. Joined(ReadOf(file, pos + 1), <<>>) = ReadOf(file, pos + 1)
      BY <3>2, JoinedNone
    <3>4. t = <<Resume!I32(o.tag)>>
      BY <2>3 DEF t
    <3> QED BY <2>4, <3>1, <3>3, <3>4, Zenon
  <2> QED BY <1>1, <2>3, <2>4, <2>5, <2>6, <2>7, <2>8 DEF ResumeInv, Under, HasRead, h
<1> QED BY <1>2, <1>3, <1>4, <1>5, Zenon DEF Resume!StartObject, Resume!version

\* What is known while the fields of an object are read.
LEMMA PartRead ==
  ASSUME ResumeInv, phase = "heap", part # Resume!NOTHING
  PROVE  /\ file \in Seq(RTokens) /\ pos \in Nat /\ IsSave(s) /\ pos <= Len(file)
         /\ s.version \in Versions /\ ~s.comments_only
         /\ left \in Nat /\ left > 0 /\ IsSeq(s.heap) /\ Objects(s) \in Seq(Seq(RTokens))
         /\ HeadSize(s, Len(s.heap) + left) \in Seq(RTokens)
         /\ HeadHeap(s, Len(s.heap) + left) \in Seq(RTokens)
         /\ IsPart(s.version, part, AtPart) /\ AtPart \in Nat
         /\ <<Resume!I32(part.tag)>> \in Seq(RTokens)
         /\ FieldsOf(s.version, part, AtPart) \in Seq(Seq(RTokens))
         /\ ReadOf(file, pos) = Joined(Joined(HeadHeap(s, Len(s.heap) + left), <<Resume!I32(part.tag)>>),
                                       Flat(FieldsOf(s.version, part, AtPart)))
<1> DEFINE h == Len(s.heap) + left
           m == AtPart
<1>1. /\ file \in Seq(RTokens) /\ pos \in Nat /\ IsSave(s) /\ pos <= Len(file)
      /\ s.version \in Versions /\ ~s.comments_only
      /\ left \in Nat /\ left > 0 /\ IsSeq(s.heap) /\ Objects(s) \in Seq(Seq(RTokens))
      /\ HeadSize(s, h) \in Seq(RTokens) /\ IsPart(s.version, part, m)
      /\ ReadOf(file, pos) = Joined(Joined(HeadHeap(s, h), <<Resume!I32(part.tag)>>),
                                    Flat(FieldsOf(s.version, part, m)))
  BY DEF ResumeInv, Under, HasRead
<1> HIDE DEF h, m
<1>2. /\ HasTag(s.version, part.tag) /\ m \in 0 .. Len(Resume!Layout(s.version, part.tag))
      /\ HasFields(s.version, part, m)
  BY <1>1 DEF IsPart
<1>3. m \in Nat /\ m <= Len(Resume!Layout(s.version, part.tag))
  <2>1. Len(Resume!Layout(s.version, part.tag)) \in Nat
    BY <1>2, LayoutMatches DEF Matching
  <2> QED BY <1>2, <2>1
<1>4. FieldsOf(s.version, part, m) \in Seq(Seq(RTokens))
  BY <1>2, <1>3, FieldsTyped
<1>5. HeadHeap(s, h) \in Seq(RTokens)
  <2>1. Flat(Objects(s)) \in Seq(RTokens)
    BY <1>1, FlatInSeq
  <2> QED BY <1>1, <2>1, JoinedTyped DEF HeadHeap
<1>6. <<Resume!I32(part.tag)>> \in Seq(RTokens)
  <2>1. part.tag \in Int
    BY <1>2 DEF HasTag
  <2> QED BY <2>1, ResumeTokens, OneToken
<1> QED BY <1>1, <1>3, <1>4, <1>5, <1>6 DEF h, m

LEMMA ObjectDoneKeeps ==
  ASSUME ResumeInv, Resume!FinishObject, file' = file, mode' = mode, mode \in {"all", "comments"}
  PROVE  ResumeInv'
<1> DEFINE h == Len(s.heap) + left
           m == AtPart
           v == s.version
           a == <<Resume!I32(part.tag)>>
           f == FieldsOf(v, part, m)
           t == Resume!ObjectTokens(v, part)
<1>1. /\ phase = "heap" /\ part # Resume!NOTHING /\ Resume!Cardinality(DOMAIN part) > Len(Resume!Layout(v, part.tag))
      /\ s' = [s EXCEPT !.heap = Append(@, part)] /\ part' = Resume!NOTHING /\ left' = left - 1
      /\ phase' = phase /\ pos' = pos
  BY DEF Resume!FinishObject, Resume!version
<1>2. /\ file \in Seq(RTokens) /\ pos \in Nat /\ pos <= Len(file) /\ left > 0
      /\ HeadHeap(s, h) \in Seq(RTokens) /\ IsPart(v, part, m) /\ m \in Nat
      /\ a \in Seq(RTokens) /\ f \in Seq(Seq(RTokens))
      /\ ReadOf(file, pos) = Joined(Joined(HeadHeap(s, h), a), Flat(f))
  BY <1>1, PartRead
<1>3. m = Len(Resume!Layout(v, part.tag)) /\ HasTag(v, part.tag)
  <2>1. /\ HasTag(v, part.tag) /\ m \in 0 .. Len(Resume!Layout(v, part.tag))
        /\ Cardinality(DOMAIN part) = m + 1
    BY <1>2 DEF IsPart
  <2>2. m + 1 > Len(Resume!Layout(v, part.tag))
    BY <1>1, <2>1, CardinalityIs
  <2>3. Len(Resume!Layout(v, part.tag)) \in Nat
    BY <2>1, LayoutMatches DEF Matching
  <2> HIDE DEF m
  <2> QED BY <2>1, <2>2, <2>3
<1> HIDE DEF h, m
<1>4. t = Joined(a, Flat(f))
  BY <1>3, ObjectIs, Zenon
<1> HIDE DEF a, f, t
<1>5. Flat(f) \in Seq(RTokens)
  BY <1>2, FlatInSeq
<1>6. t \in Seq(RTokens) /\ ReadOf(file, pos) = Joined(HeadHeap(s, h), t)
  BY <1>2, <1>4, <1>5, JoinedAssoc, JoinedTyped
<1>7. s' = WithHeap(s, Append(s.heap, part))
  BY <1>1 DEF WithHeap
<1>8. t = Resume!ObjectTokens(s.version, part) /\ ReadOf(file, pos) = Joined(HeadHeap(s, Len(s.heap) + left), t)
  BY <1>6 DEF t, h
<1>9. phase' = "heap" /\ pos' = pos /\ left' = left - 1 /\ part' = Resume!NOTHING
  BY <1>1
<1> QED BY <1>1, <1>2, <1>6, <1>7, <1>8, <1>9, HeapAppendKeeps

\* A field of a kind is next in the file: n tokens, of a value.
FieldIsNext(kind, n, value) ==
  LET t == FieldToks(kind, value)
  IN  value \in FieldValues[kind] /\ t \in Seq(RTokens) /\ Len(t) = n /\ Follows(file, pos, t)

LEMMA TakeKeeps ==
  ASSUME ResumeInv, phase = "heap", part # Resume!NOTHING,
         AtPart + 1 <= Len(Resume!Layout(s.version, part.tag)),
         NEW name, name = NameOf(s.version, part.tag, AtPart + 1),
         NEW kind, kind = KindOf(s.version, part.tag, AtPart + 1),
         NEW n, NEW value, FieldIsNext(kind, n, value),
         Resume!TakeField(n, name, value), file' = file, mode' = mode
  PROVE  ResumeInv'
<1> DEFINE h == Len(s.heap) + left
           m == AtPart
           v == s.version
           a == <<Resume!I32(part.tag)>>
           f == FieldsOf(v, part, m)
           t == FieldToks(kind, value)
           o == [g \in DOMAIN part \cup {name} |-> IF g = name THEN value ELSE part[g]]
           f2 == FieldsOf(v, o, m + 1)
<1>1. /\ file \in Seq(RTokens) /\ pos \in Nat /\ IsSave(s) /\ v \in Versions /\ ~s.comments_only
      /\ left \in Nat /\ left > 0 /\ IsSeq(s.heap) /\ Objects(s) \in Seq(Seq(RTokens))
      /\ HeadSize(s, h) \in Seq(RTokens) /\ HeadHeap(s, h) \in Seq(RTokens)
      /\ IsPart(v, part, m) /\ m \in Nat /\ a \in Seq(RTokens) /\ f \in Seq(Seq(RTokens))
      /\ ReadOf(file, pos) = Joined(Joined(HeadHeap(s, h), a), Flat(f))
  BY PartRead
<1>2. pos' = pos + n /\ part' = o /\ s' = s /\ left' = left /\ phase' = "heap"
  BY DEF Resume!TakeField
<1> HIDE DEF h, m, v, a, o
<1>3. IsPart(v, o, m + 1) /\ o.tag = part.tag /\ f2 = Append(f, t)
  <2>1. m + 1 <= Len(Resume!Layout(v, part.tag)) /\ name = NameOf(v, part.tag, m + 1)
        /\ kind = KindOf(v, part.tag, m + 1)
    BY DEF m, v
  <2>2. value \in FieldValues[KindOf(v, part.tag, m + 1)]
    BY <2>1 DEF FieldIsNext
  <2>3. o = [g \in DOMAIN part \cup {name} |-> IF g = name THEN value ELSE part[g]]
    BY DEF o
  <2>4. PartGrown(v, part, m, name, value, o)
    BY <1>1, <2>1, <2>2, <2>3, PartGrows, Zenon
  <2> QED BY <2>1, <2>4 DEF PartGrown
<1> HIDE DEF f, f2, t
<1>4. t \in Seq(RTokens) /\ Len(t) = n /\ Follows(file, pos, t)
  BY DEF FieldIsNext, t
<1>5. pos + n \in Nat /\ pos + n <= Len(file) /\ ReadOf(file, pos + n) = Joined(ReadOf(file, pos), t)
  BY <1>1, <1>4, Advanced
<1>6. ReadOf(file, pos + n) = Joined(Joined(HeadHeap(s, h), <<Resume!I32(o.tag)>>), Flat(f2))
  <2> DEFINE b == Joined(HeadHeap(s, h), a)
  <2>1. b \in Seq(RTokens) /\ Flat(f) \in Seq(RTokens)
    BY <1>1, JoinedTyped, FlatInSeq
  <2> HIDE DEF b
  <2>2. Joined(Joined(b, Flat(f)), t) = Joined(b, Joined(Flat(f), t))
    BY <1>4, <2>1, JoinedAssoc
  <2>3. Flat(f2) = Joined(Flat(f), t)
    BY <1>1, <1>3, <1>4, FlatAppend
  <2>4. a = <<Resume!I32(o.tag)>>
    BY <1>3 DEF a
  <2> QED BY <1>1, <1>5, <2>2, <2>3, <2>4, Zenon DEF b
<1>7. o # Resume!NOTHING
  BY <1>3, PartIsObject
<1>8. AtPart' = m + 1
  <2>1. Cardinality(DOMAIN o) = m + 1 + 1
    BY <1>3 DEF IsPart
  <2> QED BY <1>1, <1>2, <2>1 DEF AtPart
<1> QED BY <1>1, <1>2, <1>3, <1>5, <1>6, <1>7, <1>8 DEF ResumeInv, Under, HasRead, h, v, f2

(* What the parser takes as a field is the field that was written.         *)
LEMMA NumberIsNext ==
  ASSUME file \in Seq(RTokens), pos \in Nat, Resume!Readable(<<"int">>)
  PROVE  /\ FieldIsNext("int", 1, Resume!Tok(1))
         /\ Resume!Tok(1) \in {0, 1} => FieldIsNext("flag", 1, Resume!Tok(1))
         /\ Resume!Tok(1) = 0 => FieldIsNext("zero", 1, 0)
         /\ FieldIsNext("id", 1, [name |-> NULL, id |-> Resume!Tok(1)])
         /\ Resume!Tok(1) = -1 => FieldIsNext("none", 1, [name |-> NULL, id |-> -1])
<1> DEFINE k == Resume!Tok(1)
           t == <<Resume!I32(k)>>
<1>1. k \in Int /\ t \in Seq(RTokens) /\ Len(t) = 1 /\ Follows(file, pos, t)
  BY NextInt
<1> HIDE DEF k
<1>2. /\ FieldValues["int"] = Int /\ FieldValues["flag"] = {0, 1} /\ FieldValues["zero"] = {0}
  BY DEF FieldValues
<1>3. /\ FieldToks("int", k) = t /\ FieldToks("flag", k) = t /\ FieldToks("zero", k) = t
      /\ FieldToks("id", [name |-> NULL, id |-> k]) = t
      /\ FieldToks("none", [name |-> NULL, id |-> k]) = t
  <2>1. \A x : \A kind \in {"int", "flag", "zero"} : FieldToks(kind, x) = <<Resume!I32(x)>>
    BY FieldToksAre
  <2>2. \A x : \A kind \in {"id", "none", "name"} : FieldToks(kind, x) = Resume!SymbolTokens(x)
    BY FieldToksAre
  <2>3. Resume!SymbolTokens([name |-> NULL, id |-> k]) = t
    BY <1>1, SymbolIs, Zenon
  <2> QED BY <2>1, <2>2, <2>3, Zenon
<1>4. /\ [name |-> NULL, id |-> k] \in FieldValues["id"]
      /\ k = -1 => [name |-> NULL, id |-> -1] \in FieldValues["none"]
  BY <1>1, FieldValuesAre
<1> HIDE DEF t
<1>5. FieldIsNext("int", 1, k) /\ FieldIsNext("id", 1, [name |-> NULL, id |-> k])
  BY <1>1, <1>2, <1>3, <1>4, Zenon DEF FieldIsNext
<1>6. k \in {0, 1} => FieldIsNext("flag", 1, k)
  BY <1>1, <1>2, <1>3, Zenon DEF FieldIsNext
<1>7. k = 0 => FieldIsNext("zero", 1, 0)
  <2>1. 0 \in {0}
    OBVIOUS
  <2> QED BY <1>1, <1>2, <1>3, <2>1, Zenon DEF FieldIsNext
<1>8. k = -1 => FieldIsNext("none", 1, [name |-> NULL, id |-> -1])
  BY <1>1, <1>3, <1>4, Zenon DEF FieldIsNext
<1> QED BY <1>5, <1>6, <1>7, <1>8 DEF k

LEMMA NameIsNext ==
  ASSUME file \in Seq(RTokens), pos \in Nat, Resume!Readable(<<"str">>)
  PROVE  FieldIsNext("name", 1, [name |-> Resume!Tok(1), id |-> 0])
<1> DEFINE k == Resume!Tok(1)
           t == <<Resume!Text(k)>>
           x == [name |-> k, id |-> 0]
<1>1. pos + 1 <= Len(file) /\ file[pos + 1].kind = "str"
  BY DEF Resume!Readable
<1>2. k \in STRING /\ file[pos + 1] = Resume!Text(k)
  BY <1>1, StrAt
<1> HIDE DEF k
<1>3. t \in Seq(RTokens) /\ Len(t) = 1 /\ Follows(file, pos, t)
  <2>1. Resume!Text(k) \in RTokens
    BY <1>2, ResumeTokens
  <2> QED BY <1>1, <1>2, <2>1, OneToken, FollowsOne
<1>4. FieldToks("name", x) = t
  <2>1. \A kind \in {"id", "none", "name"} : FieldToks(kind, x) = Resume!SymbolTokens(x)
    BY FieldToksAre
  <2>2. 0 \in Int
    OBVIOUS
  <2>3. Resume!SymbolTokens(x) = t
    BY <1>2, <2>2, SymbolIs, Zenon
  <2> QED BY <2>1, <2>3, Zenon
<1>5. x \in FieldValues["name"]
  BY <1>2, FieldValuesAre
<1> QED BY <1>3, <1>4, <1>5 DEF FieldIsNext, k

LEMMA IntsAreNext ==
  ASSUME file \in Seq(RTokens), pos \in Nat, Resume!IsArray(1, "int")
  PROVE  FieldIsNext("ints", 1 + Resume!Tok(1), Resume!Array(1))
<1> DEFINE a == Resume!Array(1)
           t == Resume!CountedTokens(Resume!I32s(a))
<1>1. Resume!Tok(1) \in Nat /\ a \in Seq(Int) /\ Len(a) = Resume!Tok(1) /\ Follows(file, (pos + 1) - 1, t)
  BY ArrayOfInts
<1>2. t \in Seq(RTokens) /\ Len(t) = 1 + Resume!Tok(1)
  BY <1>1, ResumeInts, ResumeCounted
<1>3. (pos + 1) - 1 = pos
  OBVIOUS
<1> HIDE DEF a
<1>4. FieldToks("ints", a) = t
  BY FieldToksAre, Zenon
<1>5. FieldValues["ints"] = Seq(Int)
  BY DEF FieldValues
<1> HIDE DEF t
<1> QED BY <1>1, <1>2, <1>3, <1>4, <1>5 DEF FieldIsNext, a

LEMMA BytesAreNext ==
  ASSUME file \in Seq(RTokens), pos \in Nat, Resume!Readable(<<"int", "bytes">>),
         Resume!Tok(1) = Len(Resume!Tok(2))
  PROVE  FieldIsNext("bytes", 2, Resume!Tok(2))
<1> DEFINE x == Resume!Tok(2)
           b == [kind |-> "bytes", v |-> x]
           t == <<Resume!I32(Len(x)), b>>
<1>1. /\ pos + 2 <= Len(file) /\ file[pos + 1].kind = "int" /\ file[pos + 2].kind = "bytes"
  BY DEF Resume!Readable
<1>2. Resume!Tok(1) \in Int /\ file[pos + 1] = Resume!I32(Resume!Tok(1))
  BY <1>1, IntAt
<1>3. x \in Seq(Int) /\ file[pos + 2] = b
  BY <1>1, BytesAt
<1>4. file[pos + 1] = Resume!I32(Len(x))
  BY <1>2
<1> HIDE DEF x
<1>5. Resume!I32(Len(x)) \in RTokens /\ b \in RTokens
  <2>1. Len(x) \in Int
    BY <1>3
  <2> QED BY <1>3, <2>1, ResumeTokens
<1> HIDE DEF b
<1>6. t \in Seq(RTokens) /\ Len(t) = 2 /\ t[1] = Resume!I32(Len(x)) /\ t[2] = b
  BY <1>5
<1>7. FieldToks("bytes", x) = t
  BY FieldToksAre, Zenon DEF b
<1>8. FieldValues["bytes"] = Seq(Int)
  BY DEF FieldValues
<1> HIDE DEF t
<1>9. Follows(file, pos, t)
  <2>1. \A i \in 1 .. 2 : i = 1 \/ i = 2
    OBVIOUS
  <2>2. \A i \in 1 .. 2 : file[pos + i] = t[i]
    BY <1>3, <1>4, <1>6, <2>1
  <2> QED BY <1>1, <1>6, <2>2 DEF Follows
<1> QED BY <1>3, <1>6, <1>7, <1>8, <1>9 DEF FieldIsNext, x

LEMMA SlotsAreNext ==
  ASSUME file \in Seq(RTokens), pos \in Nat, Resume!Readable(<<"int">>), Resume!Tok(1) % 4 = 0, ~(Resume!Tok(1) < 0),
         Resume!Readable(Resume!Kinds(1 + Resume!Tok(1) \div 4))
  PROVE  FieldIsNext("slots", 1 + Resume!Tok(1) \div 4, Resume!Toks(2, Resume!Tok(1) \div 4))
<1> DEFINE k == Resume!Tok(1)
           n == k \div 4
           x == Resume!Toks(2, n)
           a == <<Resume!I32(k)>>
           c == Resume!I32s(x)
           t == Joined(a, c)
<1>1. k \in Int /\ a \in Seq(RTokens) /\ Len(a) = 1 /\ Follows(file, pos, a)
  BY NextInt
<1>2. x = [i \in 1 .. n |-> Resume!Tok(2 + i - 1)]
  BY DEF Resume!Toks
<1>3. /\ pos + Len(Resume!Kinds(1 + n)) <= Len(file)
      /\ \A i \in 1 .. Len(Resume!Kinds(1 + n)) : file[pos + i].kind = Resume!Kinds(1 + n)[i]
  BY DEF Resume!Readable
<1>4. k % 4 = 0 /\ ~(k < 0)
  OBVIOUS
<1> HIDE DEF k
<1>5. n \in Nat /\ 4 * n = k
  BY <1>1, <1>4
<1> HIDE DEF n, x, c, a
<1>6. Len(file) \in Nat /\ pos + 1 + n <= Len(file) /\ \A i \in 1 .. 1 + n : file[pos + i].kind = "int"
  <2> DEFINE r == Resume!Kinds(1 + n)
             l == 1 + n
  <2>1. l \in Nat
    BY <1>5
  <2> HIDE DEF l
  <2>2. r = [i \in 1 .. l |-> "int"]
    BY DEF Resume!Kinds, l
  <2> HIDE DEF r
  <2>3. Len(r) = l /\ \A i \in 1 .. l : r[i] = "int"
    BY <2>1, <2>2
  <2>4. Len(file) \in Nat
    OBVIOUS
  <2>5. pos + l <= Len(file) /\ \A i \in 1 .. l : file[pos + i].kind = "int"
    BY <1>3, <2>3 DEF r
  <2> QED BY <1>5, <2>4, <2>5 DEF l
<1>7. ASSUME NEW i \in 1 .. n
      PROVE  x[i] \in Int /\ file[(pos + 1) + i] = Resume!I32(x[i]) /\ (pos + 1) + i <= Len(file)
  <2> DEFINE j == 1 + i
  <2>1. j \in 1 .. 1 + n /\ j \in Nat \ {0} /\ 2 + i - 1 = j /\ (pos + 1) + i = pos + j /\ pos + j <= Len(file)
    BY <1>5, <1>6
  <2> HIDE DEF j
  <2>2. x[i] = Resume!Tok(j)
    BY <1>2, <2>1
  <2>3. Resume!Tok(j) \in Int /\ file[pos + j] = Resume!I32(Resume!Tok(j))
    BY <1>6, <2>1, IntAt
  <2> QED BY <2>1, <2>2, <2>3
<1>8. x \in Seq(Int) /\ Len(x) = n
  <2>1. x = [i \in 1 .. n |-> x[i]]
    BY <1>2
  <2> QED BY <1>5, <1>7, <2>1, SeqOf
<1>9. c \in Seq(RTokens) /\ Len(c) = n /\ \A i \in 1 .. n : c[i] = Resume!I32(x[i])
  BY <1>8, ResumeInts DEF c
<1>10. Follows(file, pos + Len(a), c)
  <2>1. (pos + 1) + Len(c) <= Len(file)
    BY <1>5, <1>6, <1>9
  <2>2. \A i \in 1 .. Len(c) : file[(pos + 1) + i] = c[i]
    BY <1>7, <1>9
  <2> QED BY <1>1, <2>1, <2>2 DEF Follows
<1>11. t \in Seq(RTokens) /\ Len(t) = 1 + n
  <2>1. t \in Seq(RTokens) /\ Len(t) = Len(a) + Len(c)
    BY <1>1, <1>9, JoinedAt
  <2> HIDE DEF t
  <2> QED BY <1>1, <1>9, <2>1
<1>12. Follows(file, pos, t)
  BY <1>1, <1>9, <1>10, FollowsBoth
<1>13. FieldToks("slots", x) = t
  <2>1. FieldToks("slots", x) = Joined(<<Resume!I32(4 * Len(x))>>, Resume!I32s(x))
    BY FieldToksAre, Zenon
  <2>2. 4 * Len(x) = k
    BY <1>5, <1>8
  <2> QED BY <2>1, <2>2, Zenon DEF a, c
<1>14. FieldValues["slots"] = Seq(Int)
  BY DEF FieldValues
<1> HIDE DEF t
<1>15. FieldIsNext("slots", 1 + n, x)
  BY <1>8, <1>11, <1>12, <1>13, <1>14 DEF FieldIsNext
<1> QED BY <1>15 DEF n, x, k

LEMMA KindsDiffer ==
  /\ "slots" # "name" /\ "slots" # "ints" /\ "slots" # "bytes"
  /\ "name" # "ints" /\ "name" # "bytes" /\ "ints" # "bytes"
  /\ \A kind \in {"int", "flag", "zero", "id", "none"} : kind \notin {"slots", "name", "ints", "bytes"}
  /\ "int" # "flag" /\ "int" # "zero" /\ "int" # "id" /\ "int" # "none"
  /\ "flag" # "zero" /\ "flag" # "id" /\ "flag" # "none" /\ "zero" # "id" /\ "zero" # "none" /\ "id" # "none"
OBVIOUS

\* A step that takes the next field, or that ends.
FieldStep(name, kind) ==
  \/ Resume!End("off") \/ Resume!RejectHeap
  \/ \E n, value : Resume!TakeField(n, name, value) /\ FieldIsNext(kind, n, value)

LEMMA NumberStep ==
  ASSUME file \in Seq(RTokens), pos \in Nat, NEW name, NEW kind \in {"int", "flag", "zero", "id", "none"},
         Resume!ParseNumber(name, kind)
  PROVE  FieldStep(name, kind)
<1>1. CASE ~Resume!Readable(<<"int">>)
  <2>1. Resume!End("off")
    BY <1>1, Zenon DEF Resume!ParseNumber
  <2> QED BY <2>1 DEF FieldStep
<1>2. CASE Resume!Readable(<<"int">>)
  <2>1. CASE kind = "int"
    <3>1. Resume!TakeField(1, name, Resume!Tok(1))
      BY <1>2, <2>1, KindsDiffer, Zenon DEF Resume!ParseNumber
    <3>2. FieldIsNext("int", 1, Resume!Tok(1))
      BY <1>2, NumberIsNext
    <3> QED BY <2>1, <3>1, <3>2, Zenon DEF FieldStep
  <2>2. CASE kind = "flag"
    <3>1. (Resume!Tok(1) \in {0, 1} /\ Resume!TakeField(1, name, Resume!Tok(1))) \/ Resume!End("off")
      BY <1>2, <2>2, KindsDiffer, Zenon DEF Resume!ParseNumber
    <3>2. Resume!Tok(1) \in {0, 1} => FieldIsNext("flag", 1, Resume!Tok(1))
      BY <1>2, NumberIsNext
    <3> QED BY <2>2, <3>1, <3>2, Zenon DEF FieldStep
  <2>3. CASE kind = "zero"
    <3>1. (Resume!Tok(1) = 0 /\ Resume!TakeField(1, name, 0)) \/ Resume!End("off")
      BY <1>2, <2>3, KindsDiffer, Zenon DEF Resume!ParseNumber
    <3>2. Resume!Tok(1) = 0 => FieldIsNext("zero", 1, 0)
      BY <1>2, NumberIsNext
    <3> QED BY <2>3, <3>1, <3>2, Zenon DEF FieldStep
  <2>4. CASE kind = "id"
    <3>1. Resume!TakeField(1, name, [name |-> NULL, id |-> Resume!Tok(1)])
      BY <1>2, <2>4, KindsDiffer, Zenon DEF Resume!ParseNumber
    <3>2. FieldIsNext("id", 1, [name |-> NULL, id |-> Resume!Tok(1)])
      BY <1>2, NumberIsNext
    <3> QED BY <2>4, <3>1, <3>2, Zenon DEF FieldStep
  <2>5. CASE kind = "none"
    <3>1. \/ Resume!Tok(1) = -1 /\ Resume!TakeField(1, name, [name |-> NULL, id |-> -1])
          \/ Resume!RejectHeap
      BY <1>2, <2>5, KindsDiffer, Zenon DEF Resume!ParseNumber
    <3>2. Resume!Tok(1) = -1 => FieldIsNext("none", 1, [name |-> NULL, id |-> -1])
      BY <1>2, NumberIsNext
    <3> QED BY <2>5, <3>1, <3>2, Zenon DEF FieldStep
  <2> QED BY <2>1, <2>2, <2>3, <2>4, <2>5
<1> QED BY <1>1, <1>2

LEMMA SlotsStep ==
  ASSUME file \in Seq(RTokens), pos \in Nat, NEW name, Resume!ParseSlots(name)
  PROVE  FieldStep(name, "slots")
<1> DEFINE n == Resume!Tok(1) \div 4
<1>1. \/ Resume!End("off") \/ Resume!RejectHeap
      \/ /\ Resume!Readable(<<"int">>) /\ Resume!Tok(1) % 4 = 0 /\ ~(Resume!Tok(1) < 0)
         /\ Resume!Readable(Resume!Kinds(1 + n)) /\ Resume!TakeField(1 + n, name, Resume!Toks(2, n))
  BY Zenon DEF Resume!ParseSlots
<1>2. /\ Resume!Readable(<<"int">>) /\ Resume!Tok(1) % 4 = 0 /\ ~(Resume!Tok(1) < 0)
      /\ Resume!Readable(Resume!Kinds(1 + n))
      => FieldIsNext("slots", 1 + n, Resume!Toks(2, n))
  BY SlotsAreNext
<1> HIDE DEF n
<1> QED BY <1>1, <1>2, Zenon DEF FieldStep

LEMMA OtherStep ==
  ASSUME file \in Seq(RTokens), pos \in Nat, NEW name
  PROVE  /\ (IF Resume!Readable(<<"str">>) THEN Resume!TakeField(1, name, [name |-> Resume!Tok(1), id |-> 0])
             ELSE Resume!End("off")) => FieldStep(name, "name")
         /\ (IF Resume!IsArray(1, "int") THEN Resume!TakeField(1 + Resume!Tok(1), name, Resume!Array(1))
             ELSE Resume!End("off")) => FieldStep(name, "ints")
         /\ (IF Resume!Readable(<<"int", "bytes">>) /\ Resume!Tok(1) = Len(Resume!Tok(2))
             THEN Resume!TakeField(2, name, Resume!Tok(2)) ELSE Resume!End("off")) => FieldStep(name, "bytes")
<1>1. Resume!Readable(<<"str">>) => FieldIsNext("name", 1, [name |-> Resume!Tok(1), id |-> 0])
  BY NameIsNext
<1>2. Resume!IsArray(1, "int") => FieldIsNext("ints", 1 + Resume!Tok(1), Resume!Array(1))
  BY IntsAreNext
<1>3. Resume!Readable(<<"int", "bytes">>) /\ Resume!Tok(1) = Len(Resume!Tok(2))
      => FieldIsNext("bytes", 2, Resume!Tok(2))
  BY BytesAreNext
<1>4. (IF Resume!Readable(<<"str">>) THEN Resume!TakeField(1, name, [name |-> Resume!Tok(1), id |-> 0])
       ELSE Resume!End("off")) => FieldStep(name, "name")
  BY <1>1, Zenon DEF FieldStep
<1>5. (IF Resume!IsArray(1, "int") THEN Resume!TakeField(1 + Resume!Tok(1), name, Resume!Array(1))
       ELSE Resume!End("off")) => FieldStep(name, "ints")
  BY <1>2, Zenon DEF FieldStep
<1>6. (IF Resume!Readable(<<"int", "bytes">>) /\ Resume!Tok(1) = Len(Resume!Tok(2))
       THEN Resume!TakeField(2, name, Resume!Tok(2)) ELSE Resume!End("off")) => FieldStep(name, "bytes")
  BY <1>3, Zenon DEF FieldStep
<1> QED BY <1>4, <1>5, <1>6, Zenon

LEMMA FieldKeeps ==
  ASSUME ResumeInv, Resume!ParseField, file' = file, mode' = mode, mode \in {"all", "comments"}
  PROVE  ResumeInv'
<1> DEFINE m == AtPart
           v == s.version
           layout == Resume!Layout(v, part.tag)
           i == Resume!Cardinality(DOMAIN part)
           name == layout[i][1]
           kind == layout[i][2]
<1>1. /\ phase = "heap" /\ part # Resume!NOTHING /\ i <= Len(layout)
  BY Zenon DEF Resume!ParseField, Resume!version
<1>2. /\ file \in Seq(RTokens) /\ pos \in Nat /\ IsPart(v, part, m) /\ m \in Nat
  BY <1>1, PartRead
<1>3. i = m + 1 /\ HasTag(v, part.tag)
  <2>1. Cardinality(DOMAIN part) = m + 1 /\ HasTag(v, part.tag)
    BY <1>2 DEF IsPart
  <2> QED BY <2>1, CardinalityIs
<1>4. kind \in FieldKinds
  <2>1. Matching(layout, Resume!Written(v, part.tag))
    BY <1>3, LayoutMatches
  <2>2. i \in 1 .. Len(layout)
    <3>1. Len(layout) \in Nat
      BY <2>1 DEF Matching
    <3> HIDE DEF m, layout, i
    <3> QED BY <1>1, <1>2, <1>3, <3>1
  <2> HIDE DEF layout, i
  <2> QED BY <2>1, <2>2 DEF Matching
<1>5. FieldStep(name, kind)
  <2>1. CASE kind = "slots"
    <3>1. Resume!ParseSlots(name)
      BY <2>1, KindsDiffer, Zenon DEF Resume!ParseField, Resume!version
    <3> QED BY <1>2, <2>1, <3>1, SlotsStep, Zenon
  <2>2. CASE kind = "name"
    <3>1. IF Resume!Readable(<<"str">>) THEN Resume!TakeField(1, name, [name |-> Resume!Tok(1), id |-> 0])
          ELSE Resume!End("off")
      BY <2>2, KindsDiffer, Zenon DEF Resume!ParseField, Resume!version
    <3> QED BY <1>2, <2>2, <3>1, OtherStep, Zenon
  <2>3. CASE kind = "ints"
    <3>1. IF Resume!IsArray(1, "int") THEN Resume!TakeField(1 + Resume!Tok(1), name, Resume!Array(1))
          ELSE Resume!End("off")
      BY <2>3, KindsDiffer, Zenon DEF Resume!ParseField, Resume!version
    <3> QED BY <1>2, <2>3, <3>1, OtherStep, Zenon
  <2>4. CASE kind = "bytes"
    <3>1. IF Resume!Readable(<<"int", "bytes">>) /\ Resume!Tok(1) = Len(Resume!Tok(2))
          THEN Resume!TakeField(2, name, Resume!Tok(2)) ELSE Resume!End("off")
      BY <2>4, KindsDiffer, Zenon DEF Resume!ParseField, Resume!version
    <3> QED BY <1>2, <2>4, <3>1, OtherStep, Zenon
  <2>5. CASE kind \in {"int", "flag", "zero", "id", "none"}
    <3>1. kind # "slots" /\ kind # "name" /\ kind # "ints" /\ kind # "bytes"
      BY <2>5, KindsDiffer, Zenon
    <3>2. Resume!ParseNumber(name, kind)
      BY <3>1, Zenon DEF Resume!ParseField, Resume!version
    <3> QED BY <1>2, <2>5, <3>2, NumberStep, Zenon
  <2> QED BY <1>4, <2>1, <2>2, <2>3, <2>4, <2>5, Zenon DEF FieldKinds
<1>6. CASE Resume!End("off")
  BY <1>6, EndKeepsResume
<1>7. CASE Resume!RejectHeap
  BY <1>7, RejectKeepsResume
<1>8. CASE \E n, value : Resume!TakeField(n, name, value) /\ FieldIsNext(kind, n, value)
  <2>1. PICK n, value : Resume!TakeField(n, name, value) /\ FieldIsNext(kind, n, value)
    BY <1>8
  <2>2. /\ name = NameOf(v, part.tag, m + 1) /\ kind = KindOf(v, part.tag, m + 1)
        /\ m + 1 <= Len(Resume!Layout(v, part.tag))
    BY <1>1, <1>3, Zenon DEF NameOf, KindOf
  <2> HIDE DEF name, kind
  <2> QED BY <1>1, <2>1, <2>2, TakeKeeps
<1> QED BY <1>5, <1>6, <1>7, <1>8, Zenon DEF FieldStep

LEMMA ResumeParseKeeps ==
  ASSUME ResumeInv, mode \in {"all", "comments"}, Resume!Parse
  PROVE  ResumeInv'
<1>1. file' = file /\ mode' = mode
  BY DEF Resume!Parse
<1>2. \/ Resume!ParseHeader \/ Resume!ParseIp \/ Resume!ParseStack \/ Resume!ParseFrames \/ Resume!ParseReturn
      \/ Resume!StartHeap \/ Resume!StartObject \/ Resume!ParseField \/ Resume!FinishObject \/ Resume!Finish
  BY Zenon DEF Resume!Parse
<1> QED BY <1>1, <1>2, HeaderKeeps, IpKeeps, StackKeeps, FramesKeeps, ReturnKeeps, HeapKeeps, ObjectKeeps,
           FieldKeeps, ObjectDoneKeeps, FinishKeeps

LEMMA ResumeDamageKeeps ==
  ASSUME ResumeInv, Resume!Damage
  PROVE  ResumeInv' /\ mode' = mode
<1>1. PICK k \in 1 .. Len(file), v \in DamageValues : Resume!DamageToken(k, v)
  BY DEF Resume!Damage
<1>2. /\ phase = "idle" /\ phase' = phase /\ pos' = pos /\ left' = left /\ part' = part /\ s' = s /\ mode' = mode
      /\ file' = Replaced(file, k, Resume!I32(v))
  BY <1>1 DEF Resume!Damage, Resume!DamageToken, Replaced
<1>3. file \in Seq(RTokens) /\ pos = 0 /\ s = Resume!Blank /\ part = Resume!NOTHING /\ IsSave(s)
  BY <1>2 DEF ResumeInv, Under
<1>4. Resume!I32(v) \in RTokens
  BY SavesAssumption, ResumeTokens
<1>5. Replaced(file, k, Resume!I32(v)) \in Seq(RTokens) /\ Len(Replaced(file, k, Resume!I32(v))) = Len(file)
  BY <1>3, <1>4 DEF Replaced
<1>6. Len(file') \in Nat /\ 0 <= Len(file')
  BY <1>2, <1>3, <1>5
<1> QED BY <1>2, <1>3, <1>5, <1>6 DEF ResumeInv, Under, HasRead

LEMMA RewriteKeeps ==
  ASSUME ResumeInv, Resume!Rewrite
  PROVE  ResumeInv' /\ mode' \in {"all", "comments"}
<1>1. /\ phase = "done" /\ phase' = "idle" /\ pos' = 0 /\ left' = left /\ part' = part /\ s' = Resume!Blank
      /\ file' = Resume!FileOf(s) /\ mode' \in {"all", "comments"}
  BY DEF Resume!Rewrite
<1>2. /\ Resume!FileOf(s) \in Seq(RTokens) /\ part = Resume!NOTHING
  BY <1>1 DEF ResumeInv, Under
<1>3. IsSave(Resume!Blank)
  BY BlankIs
<1>4. Len(file') \in Nat /\ 0 <= Len(file')
  BY <1>1, <1>2
<1> QED BY <1>1, <1>2, <1>3, <1>4 DEF ResumeInv, Under, HasRead

(* What the writer makes of a save is a file.                              *)
LEMMA CountedTyped ==
  /\ \A q \in Seq(Int) : Resume!CountedTokens(Resume!I32s(q)) \in Seq(RTokens)
  /\ \A q \in Seq(STRING) : Resume!CountedTokens(Texts(q)) \in Seq(RTokens)
<1>1. ASSUME NEW q \in Seq(Int) PROVE Resume!CountedTokens(Resume!I32s(q)) \in Seq(RTokens)
  BY ResumeInts, ResumeCounted
<1>2. ASSUME NEW q \in Seq(STRING) PROVE Resume!CountedTokens(Texts(q)) \in Seq(RTokens)
  BY ResumeTexts, ResumeCounted
<1> QED BY <1>1, <1>2

LEMMA OpeningTyped ==
  ASSUME NEW x, x.version \in Int, x.version >= 7 => x.comments \in Seq(STRING)
  PROVE  Resume!Opening(x) \in Seq(RTokens)
<1> DEFINE a == <<Resume!I32(x.version)>>
           b == Resume!CountedTokens(Texts(x.comments))
<1>1. a \in Seq(RTokens)
  BY ResumeTokens, OneToken
<1>2. x.version >= 7 => b \in Seq(RTokens)
  BY CountedTyped
<1> HIDE DEF a, b
<1>3. CASE x.version >= 7
  <2>1. Resume!Opening(x) = Joined(a, b)
    BY <1>3, OpeningIs, Zenon DEF a, b
  <2> QED BY <1>1, <1>2, <1>3, <2>1, JoinedTyped
<1>4. CASE ~(x.version >= 7)
  <2>1. Resume!Opening(x) = Joined(a, <<>>)
    BY <1>4, OpeningIs, Zenon DEF a
  <2> QED BY <1>1, <2>1, JoinedNone
<1> QED BY <1>3, <1>4

LEMMA ReturnTyped ==
  ASSUME NEW r \in ReturnRecords
  PROVE  Resume!ReturnTokens(r) \in Seq(RTokens)
<1>1. CASE r.addr = Resume!BOTTOM
  <2>1. Resume!ReturnTokens(r) = <<Resume!I32(Resume!BOTTOM)>>
    BY <1>1, Zenon DEF Resume!ReturnTokens
  <2>2. Resume!I32(Resume!BOTTOM) \in RTokens
    BY BottomIs, ResumeTokens
  <2> QED BY <2>1, <2>2, OneToken
<1>2. CASE r.addr # Resume!BOTTOM
  <2>1. r.addr \in Int /\ r.func \in STRING /\ r.local \in Int /\ r.crc \in Int
    BY <1>2 DEF ReturnRecords
  <2>2. /\ Resume!I32(r.addr) \in RTokens /\ Resume!Text(r.func) \in RTokens
        /\ Resume!I32(r.local) \in RTokens /\ Resume!I32(r.crc) \in RTokens
    BY <2>1, ResumeTokens
  <2>3. Resume!ReturnTokens(r)
        = <<Resume!I32(r.addr), Resume!Text(r.func), Resume!I32(r.local), Resume!I32(r.crc)>>
    BY <1>2, Zenon DEF Resume!ReturnTokens
  <2> QED BY <2>2, <2>3
<1> QED BY <1>1, <1>2

LEMMA FramesTyped ==
  ASSUME NEW fs \in Seq(CallFrames)
  PROVE  Resume!FrameTokens(fs) \in Seq(RTokens)
<1> DEFINE n == Len(fs)
           a == [i \in 1 .. n |-> Resume!I32(fs[i].local)]
           b == [i \in 1 .. n |-> Resume!I32(fs[i].type)]
           c == Ptrs(fs, n)
<1>1. n \in Nat /\ \A i \in 1 .. n : fs[i] \in CallFrames
  OBVIOUS
<1>2. ASSUME NEW f \in CallFrames
      PROVE  /\ f.local \in Int /\ f.type \in Int
             /\ f.type = Resume!RSAVE_METHOD_CALL => f.ptr \in Int
  BY DEF CallFrames, Resume!RSAVE_METHOD_CALL
<1>3. ASSUME NEW f \in CallFrames
      PROVE  Resume!I32(f.local) \in RTokens /\ Resume!I32(f.type) \in RTokens /\ PtrToks(f) \in Seq(RTokens)
  <2>1. Resume!I32(f.local) \in RTokens /\ Resume!I32(f.type) \in RTokens
    BY <1>2, ResumeTokens
  <2>2. CASE f.type = Resume!RSAVE_METHOD_CALL
    <3>1. Resume!I32(f.ptr) \in RTokens /\ PtrToks(f) = <<Resume!I32(f.ptr)>>
      BY <1>2, <2>2, ResumeTokens DEF PtrToks
    <3> QED BY <2>1, <3>1, OneToken
  <2>3. CASE f.type # Resume!RSAVE_METHOD_CALL
    <3>1. PtrToks(f) = <<>>
      BY <2>3 DEF PtrToks
    <3> QED BY <2>1, <3>1
  <2> QED BY <2>2, <2>3
<1>4. a = [i \in 1 .. n |-> a[i]] /\ \A i \in 1 .. n : a[i] \in RTokens
  BY <1>1, <1>3
<1>5. b = [i \in 1 .. n |-> b[i]] /\ \A i \in 1 .. n : b[i] \in RTokens
  BY <1>1, <1>3
<1>6. c = [i \in 1 .. n |-> c[i]] /\ \A i \in 1 .. n : c[i] \in Seq(RTokens)
  BY <1>1, <1>3 DEF Ptrs
<1>7. Resume!FrameTokens(fs)
      = Joined(Joined(Resume!CountedTokens(a), Resume!CountedTokens(b)), Resume!CountedTokens(Flat(c)))
  BY FrameTokensAre
<1> HIDE DEF n, a, b, c
<1>8. a \in Seq(RTokens) /\ b \in Seq(RTokens) /\ c \in Seq(Seq(RTokens))
  BY <1>1, <1>4, <1>5, <1>6, SeqOf
<1>9. /\ Resume!CountedTokens(a) \in Seq(RTokens) /\ Resume!CountedTokens(b) \in Seq(RTokens)
      /\ Resume!CountedTokens(Flat(c)) \in Seq(RTokens)
  BY <1>8, FlatInSeq, ResumeCounted
<1> QED BY <1>7, <1>9, JoinedTyped

LEMMA ObjectTyped ==
  ASSUME NEW v \in Versions, NEW o, IsObject(v, o)
  PROVE  Resume!ObjectTokens(v, o) \in Seq(RTokens)
<1>1. CASE o = [tag |-> Resume!RSAVE_NULL]
  <2>1. Resume!I32(Resume!RSAVE_NULL) \in RTokens
    BY TagsAre, ResumeTokens
  <2> QED BY <1>1, <2>1, NullObject, OneToken
<1>2. CASE o # [tag |-> Resume!RSAVE_NULL]
  <2> DEFINE l == Resume!Layout(v, o.tag)
             f == FieldsOf(v, o, Len(l))
  <2>1. /\ o.tag \in Resume!RSAVE_GLOBALS .. Resume!RSAVE_DELEGATE
        /\ o.tag = Resume!RSAVE_DELEGATE => v >= 9
        /\ \A i \in 1 .. Len(l) : o[l[i][1]] \in FieldValues[l[i][2]]
    BY <1>2, Zenon DEF IsObject
  <2>2. HasTag(v, o.tag) /\ o.tag \in Int
    BY <2>1, TagsAre DEF HasTag
  <2>3. HasFields(v, o, Len(l))
    BY <2>1, Zenon DEF HasFields, NameOf, KindOf
  <2>4. Len(l) \in Nat
    BY <2>2, LayoutMatches DEF Matching
  <2>5. Resume!ObjectTokens(v, o) = Joined(<<Resume!I32(o.tag)>>, Flat(f))
    BY <2>2, ObjectIs
  <2>6. f \in Seq(Seq(RTokens))
    <3>1. Len(l) <= Len(l)
      BY <2>4
    <3> QED BY <2>2, <2>3, <2>4, <3>1, FieldsTyped
  <2>7. <<Resume!I32(o.tag)>> \in Seq(RTokens)
    BY <2>2, ResumeTokens, OneToken
  <2> HIDE DEF f
  <2>8. Flat(f) \in Seq(RTokens)
    BY <2>6, FlatInSeq
  <2> QED BY <2>5, <2>7, <2>8, JoinedTyped
<1> QED BY <1>1, <1>2

(* A whole save is written as typed tokens, part by part.                  *)
WholeTyped(x) ==
  /\ Resume!Opening(x) \in Seq(RTokens) /\ Resume!ReturnTokens(x.ip) \in Seq(RTokens)
  /\ <<Zero>> \in Seq(RTokens) /\ <<Zero, Zero, Zero>> \in Seq(RTokens)
  /\ HeadIp(x) \in Seq(RTokens)
  /\ Resume!CountedTokens(Resume!I32s(x.stack)) \in Seq(RTokens) /\ HeadStack(x) \in Seq(RTokens)
  /\ Resume!FrameTokens(x.frames) \in Seq(RTokens) /\ HeadFrames(x) \in Seq(RTokens)
  /\ Returned(x) \in Seq(Seq(RTokens)) /\ <<Resume!I32(Len(x.returns))>> \in Seq(RTokens)
  /\ HeadCount(x, Len(x.returns)) \in Seq(RTokens) /\ HeadReturns(x, Len(x.returns)) \in Seq(RTokens)
  /\ SeqTokens(x) \in Seq(RTokens) /\ HeadSeq(x) \in Seq(RTokens)
  /\ Objects(x) \in Seq(Seq(RTokens)) /\ <<Resume!I32(Len(x.heap))>> \in Seq(RTokens)
  /\ HeadSize(x, Len(x.heap)) \in Seq(RTokens) /\ HeadHeap(x, Len(x.heap)) \in Seq(RTokens)
  /\ FuncTokens(x) \in Seq(RTokens)

LEMMA WholeIs ==
  ASSUME NEW x, IsWhole(x)
  PROVE  /\ x.version \in {4, 6, 7, 9} /\ x.comments_only = FALSE
         /\ x.comments \in IF x.version >= 7 THEN Seq(STRING) ELSE {<<>>}
         /\ x.ip \in ReturnRecords /\ x.stack \in Seq(Int)
         /\ x.frames \in Seq(CallFrames) /\ x.returns \in Seq(ReturnRecords)
         /\ x.next_seq \in IF x.version >= 9 THEN Int ELSE {0}
         /\ x.heap \in Seq({x.heap[i] : i \in DOMAIN x.heap})
         /\ \A i \in 1 .. Len(x.heap) : IsObject(x.version, x.heap[i])
         /\ x.funcs \in IF x.version >= 6 THEN Seq(STRING) ELSE {<<>>}
BY Zenon DEF IsWhole

LEMMA WholeIsTyped ==
  ASSUME NEW x, IsWhole(x)
  PROVE  WholeTyped(x) /\ Resume!FileOf(x) = Joined(HeadHeap(x, Len(x.heap)), FuncTokens(x))
<1>0. /\ x.version \in {4, 6, 7, 9} /\ x.comments_only = FALSE
      /\ x.comments \in IF x.version >= 7 THEN Seq(STRING) ELSE {<<>>}
      /\ x.ip \in ReturnRecords /\ x.stack \in Seq(Int)
      /\ x.frames \in Seq(CallFrames) /\ x.returns \in Seq(ReturnRecords)
      /\ x.next_seq \in IF x.version >= 9 THEN Int ELSE {0}
      /\ x.heap \in Seq({x.heap[i] : i \in DOMAIN x.heap})
      /\ \A i \in 1 .. Len(x.heap) : IsObject(x.version, x.heap[i])
      /\ x.funcs \in IF x.version >= 6 THEN Seq(STRING) ELSE {<<>>}
  BY WholeIs
<1>1. ~x.comments_only
  BY <1>0, Zenon
<1>2. x.version \in Int /\ x.version \in Versions
  BY <1>0 DEF Versions
<1>3. /\ Resume!Opening(x) \in Seq(RTokens) /\ Resume!ReturnTokens(x.ip) \in Seq(RTokens)
      /\ <<Zero>> \in Seq(RTokens) /\ <<Zero, Zero, Zero>> \in Seq(RTokens)
      /\ HeadIp(x) \in Seq(RTokens)
  <2>1. Resume!Opening(x) \in Seq(RTokens)
    BY <1>0, <1>2, OpeningTyped
  <2>2. Resume!ReturnTokens(x.ip) \in Seq(RTokens)
    BY <1>0, ReturnTyped
  <2>3. <<Zero>> \in Seq(RTokens) /\ <<Zero, Zero, Zero>> \in Seq(RTokens)
    <3>1. 0 \in Int
      OBVIOUS
    <3>2. Zero \in RTokens
      BY <3>1, ResumeTokens DEF Zero
    <3> QED BY <3>2
  <2> QED BY <2>1, <2>2, <2>3, JoinedTyped DEF HeadIp
<1>4. /\ Resume!CountedTokens(Resume!I32s(x.stack)) \in Seq(RTokens) /\ HeadStack(x) \in Seq(RTokens)
      /\ Resume!FrameTokens(x.frames) \in Seq(RTokens) /\ HeadFrames(x) \in Seq(RTokens)
  <2>1. Resume!CountedTokens(Resume!I32s(x.stack)) \in Seq(RTokens)
    BY <1>0, CountedTyped
  <2>2. HeadStack(x) \in Seq(RTokens)
    BY <1>3, <2>1, JoinedTyped DEF HeadStack
  <2>3. Resume!FrameTokens(x.frames) \in Seq(RTokens)
    BY <1>0, FramesTyped
  <2> QED BY <2>1, <2>2, <2>3, JoinedTyped DEF HeadFrames
<1>5. /\ Returned(x) \in Seq(Seq(RTokens)) /\ <<Resume!I32(Len(x.returns))>> \in Seq(RTokens)
      /\ HeadCount(x, Len(x.returns)) \in Seq(RTokens) /\ HeadReturns(x, Len(x.returns)) \in Seq(RTokens)
  <2> DEFINE n == Len(x.returns)
             r == Returned(x)
  <2>1. n \in Nat /\ \A i \in 1 .. n : x.returns[i] \in ReturnRecords
    BY <1>0
  <2>2. r = [i \in 1 .. n |-> r[i]] /\ \A i \in 1 .. n : r[i] \in Seq(RTokens)
    BY <2>1, ReturnTyped DEF Returned
  <2> HIDE DEF n, r
  <2>3. r \in Seq(Seq(RTokens))
    BY <2>1, <2>2, SeqOf
  <2>4. Flat(r) \in Seq(RTokens)
    BY <2>3, FlatInSeq
  <2>5. <<Resume!I32(n)>> \in Seq(RTokens)
    <3>1. n \in Int
      BY <2>1
    <3> QED BY <3>1, ResumeTokens, OneToken
  <2>6. HeadCount(x, n) \in Seq(RTokens)
    BY <1>4, <2>5, JoinedTyped DEF HeadCount
  <2> QED BY <2>3, <2>4, <2>5, <2>6, JoinedTyped DEF HeadReturns, n, r
<1>6. SeqTokens(x) \in Seq(RTokens) /\ HeadSeq(x) \in Seq(RTokens)
  <2>1. <<Zero, Zero, Zero>> \in Seq(RTokens)
    <3>1. 0 \in Int
      OBVIOUS
    <3>2. Zero \in RTokens
      BY <3>1, ResumeTokens DEF Zero
    <3> QED BY <3>2
  <2>2. SeqTokens(x) \in Seq(RTokens)
    <3>1. CASE x.version >= 9
      <4>1. x.next_seq \in Int
        BY <1>0, <3>1
      <4>2. <<Resume!I32(x.next_seq)>> \in Seq(RTokens)
        BY <4>1, ResumeTokens, OneToken
      <4> QED BY <3>1, <4>2, Zenon DEF SeqTokens
    <3>2. CASE ~(x.version >= 9)
      <4>1. <<>> \in Seq(RTokens)
        OBVIOUS
      <4> QED BY <3>2, <4>1, Zenon DEF SeqTokens
    <3> QED BY <3>1, <3>2
  <2> DEFINE a == <<Zero, Zero, Zero>>
             b == SeqTokens(x)
             c == HeadReturns(x, Len(x.returns))
  <2>3. HeadSeq(x) = Joined(Joined(c, a), b)
    BY DEF HeadSeq
  <2> HIDE DEF a, b, c
  <2>4. Joined(c, a) \in Seq(RTokens)
    BY <1>5, <2>1, JoinedTyped DEF a, c
  <2> QED BY <2>2, <2>3, <2>4, JoinedTyped DEF b
<1>7. /\ Objects(x) \in Seq(Seq(RTokens)) /\ <<Resume!I32(Len(x.heap))>> \in Seq(RTokens)
      /\ HeadSize(x, Len(x.heap)) \in Seq(RTokens) /\ HeadHeap(x, Len(x.heap)) \in Seq(RTokens)
  <2> DEFINE n == Len(x.heap)
             r == Objects(x)
  <2>1. n \in Nat
    BY <1>0
  <2>2. r = [i \in 1 .. n |-> r[i]] /\ \A i \in 1 .. n : r[i] \in Seq(RTokens)
    <3>1. \A i \in 1 .. n : Resume!ObjectTokens(x.version, x.heap[i]) \in Seq(RTokens)
      BY <1>0, <1>2, ObjectTyped
    <3> QED BY <3>1 DEF Objects
  <2> HIDE DEF n, r
  <2>3. r \in Seq(Seq(RTokens))
    BY <2>1, <2>2, SeqOf
  <2>4. Flat(r) \in Seq(RTokens)
    BY <2>3, FlatInSeq
  <2>5. <<Resume!I32(n)>> \in Seq(RTokens)
    <3>1. n \in Int
      BY <2>1
    <3> QED BY <3>1, ResumeTokens, OneToken
  <2>6. HeadSize(x, n) \in Seq(RTokens)
    BY <1>6, <2>5, JoinedTyped DEF HeadSize
  <2> QED BY <2>3, <2>4, <2>5, <2>6, JoinedTyped DEF HeadHeap, n, r
<1>8. FuncTokens(x) \in Seq(RTokens)
  <2>1. CASE x.version >= 6
    <3>1. x.funcs \in Seq(STRING)
      BY <1>0, <2>1
    <3>2. Resume!CountedTokens(Texts(x.funcs)) \in Seq(RTokens)
      BY <3>1, CountedTyped
    <3> QED BY <2>1, <3>2, Zenon DEF FuncTokens
  <2>2. CASE ~(x.version >= 6)
    <3>1. <<>> \in Seq(RTokens)
      OBVIOUS
    <3> QED BY <2>2, <3>1, Zenon DEF FuncTokens
  <2> QED BY <2>1, <2>2
<1>9. Resume!FileOf(x) = Joined(HeadHeap(x, Len(x.heap)), FuncTokens(x))
  BY <1>1, FileIs, Zenon
<1> QED BY <1>1, <1>3, <1>4, <1>5, <1>6, <1>7, <1>8, <1>9, Zenon DEF WholeTyped

LEMMA ResumeFileTyped ==
  ASSUME NEW x, IsResumeSave(x)
  PROVE  Resume!FileOf(x) \in Seq(RTokens)
<1>1. CASE IsBare(x)
  <2>1. x.comments_only
    <3> DEFINE y == [Resume!Blank EXCEPT !.version = x.version, !.comments = x.comments, !.comments_only = TRUE]
    <3>1. y.comments_only
      BY DEF Resume!Blank
    <3>2. x = y
      BY <1>1, Zenon DEF IsBare, CommentsOnly
    <3> HIDE DEF y
    <3> QED BY <3>1, <3>2, Zenon
  <2>2. Resume!FileOf(x) = Resume!Opening(x)
    BY <2>1, FileIs, Zenon
  <2>3. x.version \in Int /\ x.comments \in Seq(STRING)
    BY <1>1 DEF IsBare
  <2> QED BY <2>2, <2>3, OpeningTyped
<1>2. CASE IsWhole(x)
  BY <1>2, WholeIsTyped, JoinedTyped DEF WholeTyped
<1> QED BY <1>1, <1>2, Zenon DEF IsResumeSave

ResumeIs == format = "rsave" => ResumeInv /\ mode \in {"all", "comments"}

LEMMA InitIsResume == Init => ResumeIs
<1> SUFFICES ASSUME Init, format = "rsave" PROVE ResumeInv /\ mode \in {"all", "comments"}
  BY DEF ResumeIs
<1>1. Resume!Init
  BY DEF Init
<1>2. /\ saved \in ResumeSaves /\ file = Resume!FileOf(saved) /\ mode \in {"all", "comments"}
      /\ phase = "idle" /\ pos = 0 /\ left = 0 /\ part = Resume!NOTHING /\ s = Resume!Blank
  BY <1>1 DEF Resume!Init
<1>3. file \in Seq(RTokens)
  <2>1. IsResumeSave(saved)
    BY <1>2, SavesAssumption
  <2> QED BY <1>2, <2>1, ResumeFileTyped
<1>4. IsSave(s)
  BY <1>2, BlankIs
<1>5. Len(file) \in Nat /\ 0 <= Len(file)
  BY <1>3
<1> QED BY <1>2, <1>3, <1>4, <1>5 DEF ResumeInv, Under, HasRead

LEMMA NextIsResume == ResumeIs /\ [Next]_vars => ResumeIs'
<1> SUFFICES ASSUME ResumeIs, [Next]_vars, format' = "rsave"
             PROVE  ResumeInv' /\ mode' \in {"all", "comments"}
  BY DEF ResumeIs
<1>1. CASE Next
  <2>1. format = "rsave" /\ Resume!Next
    BY <1>1 DEF Next
  <2>2. ResumeInv /\ mode \in {"all", "comments"}
    BY <2>1 DEF ResumeIs
  <2>3. CASE Resume!Parse
    <3>1. mode' = mode
      BY <2>3 DEF Resume!Parse
    <3> QED BY <2>2, <2>3, <3>1, ResumeParseKeeps
  <2>4. CASE Resume!Damage
    BY <2>2, <2>4, ResumeDamageKeeps
  <2>5. CASE Resume!Rewrite
    BY <2>2, <2>5, RewriteKeeps
  <2> QED BY <2>1, <2>3, <2>4, <2>5, Zenon DEF Resume!Next
<1>2. CASE UNCHANGED vars
  <2>1. /\ format = "rsave" /\ file' = file /\ phase' = phase /\ pos' = pos /\ left' = left /\ s' = s
        /\ mode' = mode /\ part' = part
    BY <1>2 DEF vars
  <2>2. ResumeInv /\ mode \in {"all", "comments"}
    BY <2>1 DEF ResumeIs
  <2> QED BY <2>1, <2>2 DEF ResumeInv, Under, HasRead, AtPart
<1> QED BY <1>1, <1>2

LEMMA ResumeIsLossless == ResumeIs => Lossless
BY DEF ResumeIs, ResumeInv, Lossless, Resume!Lossless

(* Whatever the damage to the file, a resume save that rsave_parse accepts *)
(* is all that its file holds: the parser drops nothing and makes up       *)
(* nothing, for writing what it read gives the file back.                  *)
THEOREM ResumeSavesAreLossless == Spec => []Lossless
<1>1. Spec => []ResumeIs
  BY InitIsResume, NextIsResume, PTL DEF Spec
<1> QED BY <1>1, ResumeIsLossless, PTL

(* Files that begin with what rsave_write has written.                     *)
Begins(f, a) == \E r \in Seq(RTokens) : f = Joined(a, r)

LEMMA BeginsAll ==
  ASSUME NEW a \in Seq(RTokens), NEW b \in Seq(RTokens)
  PROVE  Begins(a, a) /\ Begins(Joined(a, b), a)
<1>1. <<>> \in Seq(RTokens) /\ Joined(a, <<>>) = a
  BY JoinedNone
<1> QED BY <1>1, Zenon DEF Begins

LEMMA BeginsLess ==
  ASSUME NEW a \in Seq(RTokens), NEW b \in Seq(RTokens), NEW f, Begins(f, Joined(a, b))
  PROVE  Begins(f, a) /\ Follows(f, Len(a), b)
<1>1. PICK r \in Seq(RTokens) : f = Joined(Joined(a, b), r)
  BY DEF Begins
<1>2. f = Joined(a, Joined(b, r)) /\ Joined(b, r) \in Seq(RTokens)
  BY <1>1, JoinedAssoc, JoinedTyped
<1>3. Begins(f, a)
  BY <1>2, Zenon DEF Begins
<1>4. Len(a) \in Nat /\ Len(b) \in Nat /\ Len(r) \in Nat
  OBVIOUS
<1> DEFINE c == Joined(a, b)
<1>5. /\ Len(c) = Len(a) + Len(b) /\ c \in Seq(RTokens)
      /\ \A k \in 1 .. Len(a) + Len(b) : c[k] = IF k <= Len(a) THEN a[k] ELSE b[k - Len(a)]
  BY JoinedAt
<1>6. f = Joined(c, r)
  BY <1>1
<1> HIDE DEF c
<1>7. /\ Len(f) = Len(c) + Len(r)
      /\ \A k \in 1 .. Len(c) + Len(r) : f[k] = IF k <= Len(c) THEN c[k] ELSE r[k - Len(c)]
  <2>1. c \in Seq(RTokens)
    BY <1>5
  <2>2. /\ Len(Joined(c, r)) = Len(c) + Len(r)
        /\ \A k \in 1 .. Len(c) + Len(r) : Joined(c, r)[k] = IF k <= Len(c) THEN c[k] ELSE r[k - Len(c)]
    BY <2>1, JoinedAt
  <2> QED BY <1>6, <2>2, Zenon
<1>8. Len(a) + Len(b) <= Len(f)
  BY <1>4, <1>5, <1>7
<1>9. ASSUME NEW k \in 1 .. Len(b) PROVE f[Len(a) + k] = b[k]
  <2>1. /\ Len(a) + k \in 1 .. Len(a) + Len(b) /\ ~(Len(a) + k <= Len(a)) /\ (Len(a) + k) - Len(a) = k
        /\ Len(a) + k \in 1 .. Len(c) + Len(r) /\ Len(a) + k <= Len(c)
    BY <1>4, <1>5
  <2>2. f[Len(a) + k] = c[Len(a) + k]
    BY <1>7, <2>1
  <2> QED BY <1>5, <2>1, <2>2
<1> QED BY <1>3, <1>8, <1>9 DEF Follows

\* A list of entries, written up to the j-th of them.
UpTo(ss, j) == [i \in 1 .. j |-> ss[i]]

LEMMA UpToMore ==
  ASSUME NEW S, NEW ss \in Seq(Seq(S)), NEW j \in Nat, j < Len(ss)
  PROVE  /\ UpTo(ss, j) \in Seq(Seq(S)) /\ ss[j + 1] \in Seq(S)
         /\ Flat(UpTo(ss, j + 1)) = Joined(Flat(UpTo(ss, j)), ss[j + 1])
         /\ Flat(UpTo(ss, j)) \in Seq(S)
<1>1. Len(ss) \in Nat /\ \A i \in 1 .. Len(ss) : ss[i] \in Seq(S)
  OBVIOUS
<1>2. j + 1 \in 1 .. Len(ss) /\ \A i \in 1 .. j : i \in 1 .. Len(ss)
  BY <1>1
<1>3. UpTo(ss, j) \in Seq(Seq(S)) /\ ss[j + 1] \in Seq(S) /\ Len(UpTo(ss, j)) = j
  BY <1>1, <1>2 DEF UpTo
<1>4. IsAppended(UpTo(ss, j + 1), UpTo(ss, j), ss[j + 1])
  BY <1>3 DEF IsAppended, UpTo
<1>5. UpTo(ss, j + 1) = Append(UpTo(ss, j), ss[j + 1])
  BY <1>3, <1>4, AppendIs
<1> QED BY <1>3, <1>5, FlatAppend, FlatInSeq

LEMMA UpToAll ==
  ASSUME NEW S, NEW ss \in Seq(S)
  PROVE  UpTo(ss, Len(ss)) = ss
BY DEF UpTo

LEMMA BeginsUpTo ==
  ASSUME NEW a \in Seq(RTokens), NEW ss \in Seq(Seq(RTokens)), NEW f, Begins(f, Joined(a, Flat(ss)))
  PROVE  \A j \in 0 .. Len(ss) : Begins(f, Joined(a, Flat(UpTo(ss, j))))
<1> DEFINE n == Len(ss)
           P == {d \in Nat : d <= n => Begins(f, Joined(a, Flat(UpTo(ss, n - d))))}
<1>1. n \in Nat /\ n - 0 = n
  OBVIOUS
<1>2. 0 \in P
  <2>1. UpTo(ss, n) = ss
    BY UpToAll
  <2> QED BY <1>1, <2>1
<1> HIDE DEF n
<1>3. ASSUME NEW d \in P PROVE d + 1 \in P
  <2> SUFFICES ASSUME d + 1 <= n PROVE Begins(f, Joined(a, Flat(UpTo(ss, n - (d + 1)))))
    OBVIOUS
  <2> DEFINE j == n - (d + 1)
  <2>1. j \in Nat /\ j < n /\ j + 1 = n - d /\ d <= n
    BY <1>1
  <2>2. Begins(f, Joined(a, Flat(UpTo(ss, j + 1))))
    BY <2>1
  <2> HIDE DEF j
  <2>3. /\ Flat(UpTo(ss, j + 1)) = Joined(Flat(UpTo(ss, j)), ss[j + 1])
        /\ Flat(UpTo(ss, j)) \in Seq(RTokens) /\ ss[j + 1] \in Seq(RTokens)
    BY <2>1, UpToMore DEF n
  <2>4. Joined(a, Flat(UpTo(ss, j + 1))) = Joined(Joined(a, Flat(UpTo(ss, j))), ss[j + 1])
    BY <2>3, JoinedAssoc
  <2>5. Joined(a, Flat(UpTo(ss, j))) \in Seq(RTokens)
    BY <2>3, JoinedTyped
  <2>6. Begins(f, Joined(a, Flat(UpTo(ss, j))))
    BY <2>2, <2>3, <2>4, <2>5, BeginsLess
  <2> QED BY <2>6 DEF j
<1>4. P = Nat
  <2>1. P \subseteq Nat
    OBVIOUS
  <2> HIDE DEF P
  <2> QED BY <1>2, <1>3, <2>1, Counting
<1>5. ASSUME NEW j \in 0 .. n PROVE Begins(f, Joined(a, Flat(UpTo(ss, j))))
  <2>1. n - j \in Nat /\ n - j <= n /\ n - (n - j) = j
    BY <1>1
  <2>2. n - j \in P
    BY <1>4, <2>1
  <2> QED BY <2>1, <2>2
<1> QED BY <1>5 DEF n

\* The entry after those that were read.
LEMMA NextEntry ==
  ASSUME NEW a \in Seq(RTokens), NEW ss \in Seq(Seq(RTokens)), NEW f, Begins(f, Joined(a, Flat(ss))),
         NEW j \in Nat, j < Len(ss), NEW b, b = Joined(a, Flat(UpTo(ss, j)))
  PROVE  /\ b \in Seq(RTokens) /\ ss[j + 1] \in Seq(RTokens)
         /\ Begins(f, Joined(b, ss[j + 1])) /\ Follows(f, Len(b), ss[j + 1])
<1>1. j + 1 \in 0 .. Len(ss)
  OBVIOUS
<1>2. Begins(f, Joined(a, Flat(UpTo(ss, j + 1))))
  BY <1>1, BeginsUpTo
<1>3. /\ Flat(UpTo(ss, j + 1)) = Joined(Flat(UpTo(ss, j)), ss[j + 1])
      /\ Flat(UpTo(ss, j)) \in Seq(RTokens) /\ ss[j + 1] \in Seq(RTokens)
  BY UpToMore
<1>4. Joined(a, Flat(UpTo(ss, j + 1))) = Joined(b, ss[j + 1])
  BY <1>3, JoinedAssoc
<1>5. b \in Seq(RTokens)
  BY <1>3, JoinedTyped
<1> QED BY <1>2, <1>3, <1>4, <1>5, BeginsLess

(* Tokens that were written, at the position of the reader.                *)
LEMMA IntThere ==
  ASSUME file \in Seq(RTokens), pos \in Nat, NEW i \in Nat \ {0}, NEW q \in Nat, pos + i = q + 1,
         NEW n, Follows(file, q, <<Resume!I32(n)>>)
  PROVE  pos + i <= Len(file) /\ file[pos + i].kind = "int" /\ Resume!Tok(i) = n
<1> DEFINE t == <<Resume!I32(n)>>
<1>1. Len(t) = 1 /\ t[1] = Resume!I32(n)
  OBVIOUS
<1>2. q + Len(t) <= Len(file) /\ \A k \in 1 .. Len(t) : file[q + k] = t[k]
  BY DEF Follows
<1> HIDE DEF t
<1>3. q + 1 <= Len(file) /\ file[q + 1] = Resume!I32(n)
  BY <1>1, <1>2
<1> QED BY <1>3 DEF Resume!I32, Resume!Tok

LEMMA NextIntThere ==
  ASSUME file \in Seq(RTokens), pos \in Nat, NEW n, Follows(file, pos, <<Resume!I32(n)>>)
  PROVE  Resume!Readable(<<"int">>) /\ Resume!Tok(1) = n
<1>1. pos + 1 <= Len(file) /\ file[pos + 1].kind = "int" /\ Resume!Tok(1) = n
  BY IntThere
<1> QED BY <1>1 DEF Resume!Readable

LEMMA IntsThere ==
  ASSUME file \in Seq(RTokens), pos \in Nat, NEW i \in Nat \ {0}, NEW q \in Nat, pos + i = q + 1,
         NEW a \in Seq(Int), Follows(file, q, Resume!CountedTokens(Resume!I32s(a)))
  PROVE  Resume!IsArray(i, "int") /\ Resume!Tok(i) = Len(a) /\ Resume!Array(i) = a
<1> DEFINE t == Resume!I32s(a)
           c == Resume!CountedTokens(t)
           n == Len(a)
<1>0. a = [k \in 1 .. n |-> a[k]]
  OBVIOUS
<1>1. n \in Nat
  OBVIOUS
<1>2. t \in Seq(RTokens) /\ Len(t) = n /\ \A k \in 1 .. n : t[k] = Resume!I32(a[k])
  BY ResumeInts
<1> HIDE DEF t
<1>3. Len(c) = 1 + n /\ c[1] = Resume!I32(n) /\ \A k \in 1 .. n : c[1 + k] = t[k]
  BY <1>2, ResumeCounted
<1>4. q + Len(c) <= Len(file) /\ \A k \in 1 .. Len(c) : file[q + k] = c[k]
  BY DEF Follows, t
<1> HIDE DEF c, n
<1>5. q + 1 <= Len(file) /\ file[q + 1] = Resume!I32(n)
  <2>1. Len(file) \in Nat /\ Len(c) = 1 + n /\ q + Len(c) <= Len(file)
    BY <1>3, <1>4
  <2>2. 1 \in 1 .. Len(c) /\ q + 1 <= Len(file)
    BY <1>1, <2>1
  <2> QED BY <1>3, <1>4, <2>2
<1>6. pos + i <= Len(file) /\ file[pos + i].kind = "int" /\ Resume!Tok(i) = n
  BY <1>5 DEF Resume!I32, Resume!Tok
<1>7. \A k \in 1 .. n : q + (1 + k) <= Len(file) /\ file[q + (1 + k)] = Resume!I32(a[k])
  <2> SUFFICES ASSUME NEW k \in 1 .. n
               PROVE  q + (1 + k) <= Len(file) /\ file[q + (1 + k)] = Resume!I32(a[k])
    OBVIOUS
  <2>0. Len(c) = 1 + n
    BY <1>3
  <2>1. 1 + k \in 1 .. Len(c) /\ q + (1 + k) <= q + Len(c)
    BY <1>1, <2>0
  <2>2. c[1 + k] = Resume!I32(a[k])
    BY <1>2, <1>3
  <2>3. file[q + (1 + k)] = c[1 + k]
    BY <1>4, <2>1
  <2>4. Len(file) \in Nat /\ Len(c) \in Nat /\ q + Len(c) <= Len(file)
    BY <1>1, <1>4, <2>0
  <2>5. q + (1 + k) <= Len(file)
    BY <1>1, <2>1, <2>4
  <2> QED BY <2>2, <2>3, <2>5
<1>8. \A k \in 1 .. n : pos + i + k <= Len(file) /\ file[pos + i + k].kind = "int" /\ file[pos + i + k].v = a[k]
  <2> SUFFICES ASSUME NEW k \in 1 .. n
               PROVE  pos + i + k <= Len(file) /\ file[pos + i + k].kind = "int" /\ file[pos + i + k].v = a[k]
    OBVIOUS
  <2>1. pos + i + k = q + (1 + k)
    BY <1>1
  <2>2. q + (1 + k) <= Len(file) /\ file[q + (1 + k)] = Resume!I32(a[k])
    BY <1>7
  <2>3. Resume!I32(a[k]).kind = "int" /\ Resume!I32(a[k]).v = a[k]
    BY DEF Resume!I32
  <2> QED BY <2>1, <2>2, <2>3
<1>9. Resume!IsArray(i, "int")
  <2>1. Resume!Tok(i) >= 0
    BY <1>1, <1>6
  <2> QED BY <1>6, <1>8, <2>1, Zenon DEF Resume!IsArray
<1>10. Resume!Array(i) = [k \in 1 .. n |-> file[pos + ((i + 1) + k - 1)].v]
  BY <1>6, Zenon DEF Resume!Array, Resume!Toks, Resume!Tok
<1>11. \A k \in 1 .. n : file[pos + ((i + 1) + k - 1)].v = a[k]
  <2> SUFFICES ASSUME NEW k \in 1 .. n PROVE file[pos + ((i + 1) + k - 1)].v = a[k]
    OBVIOUS
  <2>1. pos + ((i + 1) + k - 1) = pos + i + k
    BY <1>1
  <2> QED BY <1>8, <2>1
<1>12. Resume!Array(i) = a
  <2>1. Resume!Array(i) = [k \in 1 .. n |-> a[k]]
    BY <1>10, <1>11
  <2> QED BY <1>0, <2>1, Zenon
<1> QED BY <1>6, <1>9, <1>12 DEF n

LEMMA TextsThere ==
  ASSUME file \in Seq(RTokens), pos \in Nat, NEW i \in Nat \ {0}, NEW q \in Nat, pos + i = q + 1,
         NEW a \in Seq(STRING), Follows(file, q, Resume!CountedTokens(Texts(a)))
  PROVE  Resume!IsArray(i, "str") /\ Resume!Tok(i) = Len(a) /\ Resume!Array(i) = a
<1> DEFINE t == Texts(a)
           c == Resume!CountedTokens(t)
           n == Len(a)
<1>0. a = [k \in 1 .. n |-> a[k]]
  OBVIOUS
<1>1. n \in Nat
  OBVIOUS
<1>2. t \in Seq(RTokens) /\ Len(t) = n /\ \A k \in 1 .. n : t[k] = Resume!Text(a[k])
  BY ResumeTexts
<1> HIDE DEF t
<1>3. Len(c) = 1 + n /\ c[1] = Resume!I32(n) /\ \A k \in 1 .. n : c[1 + k] = t[k]
  BY <1>2, ResumeCounted
<1>4. q + Len(c) <= Len(file) /\ \A k \in 1 .. Len(c) : file[q + k] = c[k]
  BY DEF Follows, t
<1> HIDE DEF c, n
<1>5. q + 1 <= Len(file) /\ file[q + 1] = Resume!I32(n)
  <2>1. Len(file) \in Nat /\ Len(c) = 1 + n /\ q + Len(c) <= Len(file)
    BY <1>3, <1>4
  <2>2. 1 \in 1 .. Len(c) /\ q + 1 <= Len(file)
    BY <1>1, <2>1
  <2> QED BY <1>3, <1>4, <2>2
<1>6. pos + i <= Len(file) /\ file[pos + i].kind = "int" /\ Resume!Tok(i) = n
  BY <1>5 DEF Resume!I32, Resume!Tok
<1>7. \A k \in 1 .. n : q + (1 + k) <= Len(file) /\ file[q + (1 + k)] = Resume!Text(a[k])
  <2> SUFFICES ASSUME NEW k \in 1 .. n
               PROVE  q + (1 + k) <= Len(file) /\ file[q + (1 + k)] = Resume!Text(a[k])
    OBVIOUS
  <2>0. Len(c) = 1 + n
    BY <1>3
  <2>1. 1 + k \in 1 .. Len(c) /\ q + (1 + k) <= q + Len(c)
    BY <1>1, <2>0
  <2>2. c[1 + k] = Resume!Text(a[k])
    BY <1>2, <1>3
  <2>3. file[q + (1 + k)] = c[1 + k]
    BY <1>4, <2>1
  <2>4. Len(file) \in Nat /\ Len(c) \in Nat /\ q + Len(c) <= Len(file)
    BY <1>1, <1>4, <2>0
  <2>5. q + (1 + k) <= Len(file)
    BY <1>1, <2>1, <2>4
  <2> QED BY <2>2, <2>3, <2>5
<1>8. \A k \in 1 .. n : pos + i + k <= Len(file) /\ file[pos + i + k].kind = "str" /\ file[pos + i + k].v = a[k]
  <2> SUFFICES ASSUME NEW k \in 1 .. n
               PROVE  pos + i + k <= Len(file) /\ file[pos + i + k].kind = "str" /\ file[pos + i + k].v = a[k]
    OBVIOUS
  <2>1. pos + i + k = q + (1 + k)
    BY <1>1
  <2>2. q + (1 + k) <= Len(file) /\ file[q + (1 + k)] = Resume!Text(a[k])
    BY <1>7
  <2>3. Resume!Text(a[k]).kind = "str" /\ Resume!Text(a[k]).v = a[k]
    BY DEF Resume!Text
  <2> QED BY <2>1, <2>2, <2>3
<1>9. Resume!IsArray(i, "str")
  <2>1. Resume!Tok(i) >= 0
    BY <1>1, <1>6
  <2> QED BY <1>6, <1>8, <2>1, Zenon DEF Resume!IsArray
<1>10. Resume!Array(i) = [k \in 1 .. n |-> file[pos + ((i + 1) + k - 1)].v]
  BY <1>6, Zenon DEF Resume!Array, Resume!Toks, Resume!Tok
<1>11. \A k \in 1 .. n : file[pos + ((i + 1) + k - 1)].v = a[k]
  <2> SUFFICES ASSUME NEW k \in 1 .. n PROVE file[pos + ((i + 1) + k - 1)].v = a[k]
    OBVIOUS
  <2>1. pos + ((i + 1) + k - 1) = pos + i + k
    BY <1>1
  <2> QED BY <1>8, <2>1
<1>12. Resume!Array(i) = a
  <2>1. Resume!Array(i) = [k \in 1 .. n |-> a[k]]
    BY <1>10, <1>11
  <2> QED BY <1>0, <2>1, Zenon
<1> QED BY <1>6, <1>9, <1>12 DEF n

\* A return record.
LEMMA RecordThere ==
  ASSUME file \in Seq(RTokens), pos \in Nat, NEW r \in ReturnRecords, Follows(file, pos, Resume!ReturnTokens(r))
  PROVE  /\ Resume!Readable(Resume!ReturnKinds) /\ Resume!ReturnRecord = r
         /\ Len(Resume!ReturnKinds) = Len(Resume!ReturnTokens(r)) /\ Len(Resume!ReturnKinds) \in Nat
<1> DEFINE t == Resume!ReturnTokens(r)
<1>0. pos + Len(t) <= Len(file) /\ \A k \in 1 .. Len(t) : file[pos + k] = t[k]
  BY DEF Follows
<1>1. CASE r.addr = Resume!BOTTOM
  <2>1. r = [addr |-> Resume!BOTTOM]
    BY <1>1, BottomIs DEF ReturnRecords
  <2>2. t = <<Resume!I32(Resume!BOTTOM)>>
    BY <1>1, Zenon DEF Resume!ReturnTokens
  <2>3. Resume!Readable(<<"int">>) /\ Resume!Tok(1) = Resume!BOTTOM
    BY <2>2, NextIntThere
  <2>4. Resume!ReturnKinds = <<"int">> /\ Resume!ReturnRecord = [addr |-> Resume!BOTTOM]
    BY <2>3, Zenon DEF Resume!ReturnKinds, Resume!ReturnRecord
  <2>5. Len(t) = 1 /\ Len(<<"int">>) = 1
    BY <2>2
  <2> QED BY <2>1, <2>3, <2>4, <2>5
<1>2. CASE r.addr # Resume!BOTTOM
  <2>1. r = [addr |-> r.addr, func |-> r.func, local |-> r.local, crc |-> r.crc]
    BY <1>2, BottomIs DEF ReturnRecords
  <2>2. t = <<Resume!I32(r.addr), Resume!Text(r.func), Resume!I32(r.local), Resume!I32(r.crc)>>
    BY <1>2, Zenon DEF Resume!ReturnTokens
  <2>3. Len(t) = 4 /\ t[1] = Resume!I32(r.addr) /\ t[2] = Resume!Text(r.func)
        /\ t[3] = Resume!I32(r.local) /\ t[4] = Resume!I32(r.crc)
    BY <2>2
  <2> HIDE DEF t
  <2>4. pos + 4 <= Len(file) /\ file[pos + 1] = Resume!I32(r.addr) /\ file[pos + 2] = Resume!Text(r.func)
        /\ file[pos + 3] = Resume!I32(r.local) /\ file[pos + 4] = Resume!I32(r.crc)
    <3>1. 1 \in 1 .. 4 /\ 2 \in 1 .. 4 /\ 3 \in 1 .. 4 /\ 4 \in 1 .. 4
      OBVIOUS
    <3>2. pos + 4 <= Len(file) /\ \A k \in 1 .. 4 : file[pos + k] = t[k]
      BY <1>0, <2>3
    <3> QED BY <2>3, <3>1, <3>2
  <2>5. /\ file[pos + 1].kind = "int" /\ file[pos + 2].kind = "str"
        /\ file[pos + 3].kind = "int" /\ file[pos + 4].kind = "int"
    BY <2>4 DEF Resume!I32, Resume!Text
  <2>6. /\ Resume!Tok(1) = r.addr /\ Resume!Tok(2) = r.func
        /\ Resume!Tok(3) = r.local /\ Resume!Tok(4) = r.crc
    BY <2>4 DEF Resume!I32, Resume!Text, Resume!Tok
  <2> DEFINE k == <<"int", "str", "int", "int">>
  <2>7. Resume!ReturnKinds = k
    BY <1>2, <2>6, Zenon DEF Resume!ReturnKinds
  <2>8. Resume!ReturnRecord = r
    <3>1. Resume!ReturnRecord = [addr |-> Resume!Tok(1), func |-> Resume!Tok(2),
                                 local |-> Resume!Tok(3), crc |-> Resume!Tok(4)]
      BY <1>2, <2>6, Zenon DEF Resume!ReturnRecord
    <3> QED BY <2>1, <2>6, <3>1
  <2>9. Len(k) = 4 /\ k[1] = "int" /\ k[2] = "str" /\ k[3] = "int" /\ k[4] = "int"
    OBVIOUS
  <2> HIDE DEF k
  <2>10. \A i \in 1 .. 4 : file[pos + i].kind = k[i]
    <3>1. \A i \in 1 .. 4 : i = 1 \/ i = 2 \/ i = 3 \/ i = 4
      OBVIOUS
    <3> QED BY <2>5, <2>9, <3>1
  <2>11. Resume!Readable(k)
    BY <2>4, <2>9, <2>10, Zenon DEF Resume!Readable
  <2> QED BY <2>3, <2>7, <2>8, <2>9, <2>11 DEF t
<1> QED BY <1>1, <1>2

LEMMA KindsExtended ==
  ASSUME file \in Seq(RTokens), pos \in Nat, Resume!Readable(Resume!ReturnKinds),
         pos + (Len(Resume!ReturnKinds) + 1) <= Len(file),
         file[pos + (Len(Resume!ReturnKinds) + 1)].kind = "int"
  PROVE  Resume!Readable(Resume!ReturnKinds \o <<"int">>)
<1> DEFINE k == Resume!ReturnKinds
           e == k \o <<"int">>
<1>1. k = <<"int">> \/ k = <<"int", "str", "int", "int">>
  BY DEF Resume!ReturnKinds
<1>2. k \in Seq({"int", "str"})
  <2>1. <<"int">> \in Seq({"int", "str"}) /\ <<"int", "str", "int", "int">> \in Seq({"int", "str"})
    OBVIOUS
  <2> HIDE DEF k
  <2> QED BY <1>1, <2>1
<1> HIDE DEF k
<1>3. e = Append(k, "int") /\ Len(k) \in Nat
  BY <1>2
<1>4. Len(e) = Len(k) + 1 /\ \A i \in 1 .. Len(k) + 1 : e[i] = IF i = Len(k) + 1 THEN "int" ELSE k[i]
  BY <1>2, <1>3
<1> HIDE DEF e
<1>5. pos + (Len(k) + 1) <= Len(file) /\ file[pos + (Len(k) + 1)].kind = "int"
      /\ \A i \in 1 .. Len(k) : file[pos + i].kind = k[i]
  BY DEF k, Resume!Readable
<1>6. \A i \in 1 .. Len(e) : file[pos + i].kind = e[i]
  <2> SUFFICES ASSUME NEW i \in 1 .. Len(k) + 1 PROVE file[pos + i].kind = e[i]
    BY <1>4
  <2>1. CASE i = Len(k) + 1
    BY <1>4, <1>5, <2>1
  <2>2. CASE i # Len(k) + 1
    <3>1. i \in 1 .. Len(k)
      BY <1>3, <2>2
    <3> QED BY <1>4, <1>5, <2>2, <3>1
  <2> QED BY <2>1, <2>2
<1>7. Resume!Readable(e)
  BY <1>4, <1>5, <1>6 DEF Resume!Readable
<1> QED BY <1>7 DEF e, k
\* What follows is followed piece by piece.
LEMMA FollowsLess ==
  ASSUME NEW S, NEW f \in Seq(S), NEW p \in Nat, NEW a \in Seq(S), NEW b \in Seq(S),
         Follows(f, p, Joined(a, b))
  PROVE  Follows(f, p, a) /\ Follows(f, p + Len(a), b)
<1> DEFINE c == Joined(a, b)
<1>1. /\ Len(c) = Len(a) + Len(b)
      /\ \A k \in 1 .. Len(a) + Len(b) : c[k] = IF k <= Len(a) THEN a[k] ELSE b[k - Len(a)]
  BY JoinedAt, Zenon
<1>2. p + Len(c) <= Len(f) /\ \A k \in 1 .. Len(c) : f[p + k] = c[k]
  BY DEF Follows
<1> HIDE DEF c
<1>3. Len(a) \in Nat /\ Len(b) \in Nat /\ Len(f) \in Nat
  OBVIOUS
<1>4. p + Len(a) <= Len(f) /\ (p + Len(a)) + Len(b) <= Len(f)
  <2>1. p + (Len(a) + Len(b)) <= Len(f)
    BY <1>1, <1>2
  <2> QED BY <1>3, <2>1
<1>5. ASSUME NEW k \in 1 .. Len(a) PROVE f[p + k] = a[k]
  <2>1. k \in 1 .. Len(a) + Len(b) /\ k <= Len(a)
    BY <1>3
  <2> QED BY <1>1, <1>2, <2>1
<1>6. ASSUME NEW k \in 1 .. Len(b) PROVE f[(p + Len(a)) + k] = b[k]
  <2>1. /\ Len(a) + k \in 1 .. Len(a) + Len(b) /\ ~(Len(a) + k <= Len(a)) /\ (Len(a) + k) - Len(a) = k
        /\ (p + Len(a)) + k = p + (Len(a) + k)
    BY <1>3
  <2> QED BY <1>1, <1>2, <2>1
<1> QED BY <1>4, <1>5, <1>6 DEF Follows

\* The struct pointers of call frames, in the order of the method calls.
PointersOf(fs, b, c, m) ==
  /\ c \in Seq(Int) /\ Len(c) = Resume!Calls(m, b)
  /\ \A i \in 1 .. m : b[i] = Resume!RSAVE_METHOD_CALL => c[Resume!Calls(i, b)] = fs[i].ptr

LEMMA PointersGrow ==
  ASSUME NEW fs \in Seq(CallFrames), NEW b, NEW m \in Nat, m + 1 <= Len(fs), NEW c, PointersOf(fs, b, c, m)
  PROVE  \E d : PointersOf(fs, b, d, m + 1)
<1> DEFINE N(i) == Resume!Calls(i, b)
<1>1. /\ N(m) \in Nat /\ N(m + 1) \in Nat
      /\ N(m + 1) = IF b[m + 1] = Resume!RSAVE_METHOD_CALL THEN N(m) + 1 ELSE N(m)
  <2>1. m + 1 \in Nat
    OBVIOUS
  <2> QED BY <2>1, CallsFinite, CallsGrow
<1>2. \A i \in 1 .. m + 1 : i # m + 1 => i \in 1 .. m
  OBVIOUS
<1>3. \A i \in 1 .. m : b[i] = Resume!RSAVE_METHOD_CALL => N(i) \in 1 .. N(m)
  <2> SUFFICES ASSUME NEW i \in 1 .. m, b[i] = Resume!RSAVE_METHOD_CALL PROVE N(i) \in 1 .. N(m)
    OBVIOUS
  <2>1. i - 1 \in Nat /\ (i - 1) + 1 = i /\ i \in 0 .. m /\ i \in Nat
    OBVIOUS
  <2>2. N(i - 1) \in Nat /\ N((i - 1) + 1) = N(i - 1) + 1
    <3>1. N((i - 1) + 1) = IF b[(i - 1) + 1] = Resume!RSAVE_METHOD_CALL THEN N(i - 1) + 1 ELSE N(i - 1)
      BY <2>1, CallsGrow
    <3> QED BY <2>1, <3>1, CallsFinite
  <2>3. N(i) <= N(m) /\ N(i) \in Nat
    BY <2>1, CallsWithin, CallsFinite
  <2> QED BY <1>1, <2>1, <2>2, <2>3
<1>4. CASE b[m + 1] = Resume!RSAVE_METHOD_CALL
  <2> DEFINE d == Append(c, fs[m + 1].ptr)
  <2>1. fs[m + 1].ptr \in Int
    <3>1. fs[m + 1] \in CallFrames
      OBVIOUS
    <3> QED BY <3>1 DEF CallFrames
  <2>2. c \in Seq(Int) /\ Len(c) = N(m)
    BY DEF PointersOf
  <2>3. d \in Seq(Int) /\ Len(d) = N(m) + 1 /\ d[N(m) + 1] = fs[m + 1].ptr /\ \A k \in 1 .. N(m) : d[k] = c[k]
    BY <2>1, <2>2
  <2> HIDE DEF d
  <2>4. ASSUME NEW i \in 1 .. m + 1, b[i] = Resume!RSAVE_METHOD_CALL PROVE d[N(i)] = fs[i].ptr
    <3>1. CASE i = m + 1
      BY <1>1, <1>4, <2>3, <3>1
    <3>2. CASE i # m + 1
      <4>1. i \in 1 .. m /\ N(i) \in 1 .. N(m)
        BY <1>2, <1>3, <2>4, <3>2
      <4>2. c[N(i)] = fs[i].ptr
        BY <2>4, <4>1 DEF PointersOf
      <4> QED BY <2>3, <4>1, <4>2
    <3> QED BY <3>1, <3>2
  <2>5. PointersOf(fs, b, d, m + 1)
    BY <1>1, <1>4, <2>3, <2>4, Zenon DEF PointersOf
  <2> QED BY <2>5
<1>5. CASE b[m + 1] # Resume!RSAVE_METHOD_CALL
  <2>1. N(m + 1) = N(m)
    BY <1>1, <1>5
  <2>2. \A i \in 1 .. m + 1 : b[i] = Resume!RSAVE_METHOD_CALL => i \in 1 .. m
    BY <1>2, <1>5
  <2>3. PointersOf(fs, b, c, m + 1)
    BY <2>1, <2>2, Zenon DEF PointersOf
  <2> QED BY <2>3
<1> QED BY <1>4, <1>5

LEMMA PointersExist ==
  ASSUME NEW fs \in Seq(CallFrames), NEW b
  PROVE  \E c : PointersOf(fs, b, c, Len(fs))
<1> DEFINE Q == {m \in Nat : m <= Len(fs) => \E c : PointersOf(fs, b, c, m)}
<1>1. 0 \in Q
  <2>1. <<>> \in Seq(Int) /\ Len(<<>>) = 0 /\ 1 .. 0 = {}
    OBVIOUS
  <2>2. PointersOf(fs, b, <<>>, 0)
    BY <2>1, NoCalls DEF PointersOf
  <2> QED BY <2>2
<1>2. ASSUME NEW m \in Q PROVE m + 1 \in Q
  <2> SUFFICES ASSUME m + 1 <= Len(fs) PROVE \E c : PointersOf(fs, b, c, m + 1)
    OBVIOUS
  <2>1. m \in Nat /\ m <= Len(fs)
    OBVIOUS
  <2>2. PICK c : PointersOf(fs, b, c, m)
    BY <2>1
  <2> QED BY <2>1, <2>2, PointersGrow
<1>3. Q \subseteq Nat
  OBVIOUS
<1> HIDE DEF Q
<1>4. Q = Nat
  BY <1>1, <1>2, <1>3, Counting
<1>5. Len(fs) \in Q /\ Len(fs) <= Len(fs)
  BY <1>4
<1> QED BY <1>5 DEF Q

\* Call frames are what parse_call_frames makes of their three lists.
LEMMA FramesOf ==
  ASSUME NEW fs \in Seq(CallFrames)
  PROVE  \E a \in Seq(Int), b \in Seq(Int), c \in Seq(Int) :
            /\ Len(a) = Len(b) /\ Len(c) = Resume!Calls(Len(b), b)
            /\ fs = Resume!Frames(a, b, c)
<1> DEFINE n == Len(fs)
           a == [i \in 1 .. n |-> fs[i].local]
           b == [i \in 1 .. n |-> fs[i].type]
<1>0. fs = [i \in 1 .. n |-> fs[i]]
  OBVIOUS
<1>1. n \in Nat
  OBVIOUS
<1>2. ASSUME NEW i \in 1 .. n
      PROVE  /\ fs[i].local \in Int /\ fs[i].type \in Int
             /\ fs[i] = [type |-> fs[i].type, local |-> fs[i].local, ptr |-> fs[i].ptr]
             /\ fs[i].type # Resume!RSAVE_METHOD_CALL => fs[i].ptr = -1
  <2>1. fs[i] \in CallFrames
    OBVIOUS
  <2>2. Resume!RSAVE_METHOD_CALL = 2
    BY DEF Resume!RSAVE_METHOD_CALL
  <2> QED BY <2>1, <2>2 DEF CallFrames
<1> HIDE DEF n
<1>3. a = [i \in 1 .. n |-> a[i]] /\ \A i \in 1 .. n : a[i] = fs[i].local /\ a[i] \in Int
  BY <1>2
<1>4. b = [i \in 1 .. n |-> b[i]] /\ \A i \in 1 .. n : b[i] = fs[i].type /\ b[i] \in Int
  BY <1>2
<1> HIDE DEF a, b
<1>5. a \in Seq(Int) /\ Len(a) = n
  BY <1>1, <1>3, SeqOf
<1>6. b \in Seq(Int) /\ Len(b) = n
  BY <1>1, <1>4, SeqOf
<1>7. PICK c : PointersOf(fs, b, c, n)
  BY PointersExist DEF n
<1>8. c \in Seq(Int) /\ Len(c) = Resume!Calls(Len(b), b)
  BY <1>6, <1>7 DEF PointersOf
<1> DEFINE g == Resume!Frames(a, b, c)
<1>9. g = [i \in 1 .. n |-> g[i]] /\ \A i \in 1 .. n :
         g[i] = [type |-> b[i], local |-> a[i],
                 ptr |-> IF b[i] = Resume!RSAVE_METHOD_CALL THEN c[Resume!Calls(i, b)] ELSE -1]
  BY <1>6 DEF Resume!Frames
<1> HIDE DEF g
<1>10. ASSUME NEW i \in 1 .. n PROVE g[i] = fs[i]
  <2>1. CASE b[i] = Resume!RSAVE_METHOD_CALL
    <3>1. c[Resume!Calls(i, b)] = fs[i].ptr
      BY <1>7, <2>1 DEF PointersOf
    <3>2. g[i] = [type |-> b[i], local |-> a[i], ptr |-> fs[i].ptr]
      BY <1>9, <2>1, <3>1
    <3> QED BY <1>2, <1>3, <1>4, <3>2
  <2>2. CASE b[i] # Resume!RSAVE_METHOD_CALL
    <3>1. fs[i].ptr = -1
      BY <1>2, <1>4, <2>2
    <3>2. g[i] = [type |-> b[i], local |-> a[i], ptr |-> fs[i].ptr]
      BY <1>9, <2>2, <3>1
    <3> QED BY <1>2, <1>3, <1>4, <3>2
  <2> QED BY <2>1, <2>2
<1>11. g = fs
  <2>1. g = [i \in 1 .. n |-> fs[i]]
    BY <1>9, <1>10
  <2> QED BY <1>0, <2>1, Zenon DEF n
<1> QED BY <1>5, <1>6, <1>8, <1>11, Zenon DEF g

LEMMA FramesThere ==
  ASSUME file \in Seq(RTokens), pos \in Nat,
         NEW fs \in Seq(CallFrames), Follows(file, pos, Resume!FrameTokens(fs)),
         NEW b, b = 1 + 1 + Resume!Tok(1), NEW c, c = b + 1 + Resume!Tok(b), NEW n, n = c + 1 + Resume!Tok(c)
  PROVE  /\ Resume!IsArray(1, "int") /\ Resume!IsArray(b, "int") /\ Resume!IsArray(c, "int")
         /\ Resume!Tok(1) = Resume!Tok(b) /\ Resume!Tok(c) = Resume!Calls(Resume!Tok(b), Resume!Array(b))
         /\ Resume!Frames(Resume!Array(1), Resume!Array(b), Resume!Array(c)) = fs
         /\ n \in Nat \ {0} /\ n = Len(Resume!FrameTokens(fs)) + 1
<1>1. PICK A \in Seq(Int), B \in Seq(Int), C \in Seq(Int) :
            /\ Len(A) = Len(B) /\ Len(C) = Resume!Calls(Len(B), B)
            /\ fs = Resume!Frames(A, B, C)
  BY FramesOf
<1> DEFINE ta == Resume!CountedTokens(Resume!I32s(A))
           tb == Resume!CountedTokens(Resume!I32s(B))
           tc == Resume!CountedTokens(Resume!I32s(C))
           t  == Resume!FrameTokens(fs)
<1>2. t = Joined(Joined(ta, tb), tc)
  BY <1>1, FramesWritten
<1> DEFINE la == Len(A)
           lb == Len(B)
           lc == Len(C)
           na == Len(ta)
           nb == Len(tb)
           nt == Len(t)
<1>3. /\ ta \in Seq(RTokens) /\ Len(ta) = 1 + Len(A) /\ tb \in Seq(RTokens) /\ Len(tb) = 1 + Len(B)
      /\ tc \in Seq(RTokens) /\ Len(tc) = 1 + Len(C)
  BY ResumeInts, ResumeCounted
<1>4. la \in Nat /\ lb \in Nat /\ lc \in Nat
  OBVIOUS
<1>4a. na = 1 + la /\ nb = 1 + lb /\ na \in Nat /\ nb \in Nat
  <2>1. na = 1 + la /\ nb = 1 + lb
    BY <1>3
  <2> HIDE DEF na, nb, la, lb
  <2> QED BY <1>4, <2>1
<1> HIDE DEF ta, tb, tc, t, na, nb, nt, la, lb, lc
<1>5. /\ Follows(file, pos, ta) /\ Follows(file, pos + na, tb)
      /\ Follows(file, pos + na + nb, tc) /\ nt = na + nb + 1 + lc
  <2>1. Follows(file, pos, t)
    BY DEF t
  <2>2. /\ Joined(ta, tb) \in Seq(RTokens) /\ Len(Joined(ta, tb)) = Len(ta) + Len(tb)
    BY <1>3, JoinedAt
  <2>3. Len(t) = (Len(ta) + Len(tb)) + Len(tc)
    <3> DEFINE u == Joined(ta, tb)
    <3>1. u \in Seq(RTokens)
      BY <2>2
    <3> HIDE DEF u
    <3>2. Len(Joined(u, tc)) = Len(u) + Len(tc)
      BY <1>3, <3>1, JoinedAt
    <3> QED BY <1>2, <2>2, <3>2, Zenon DEF u
  <2>4. Follows(file, pos, Joined(ta, tb)) /\ Follows(file, pos + Len(Joined(ta, tb)), tc)
    BY <1>2, <1>3, <2>1, <2>2, FollowsLess
  <2>5. Follows(file, pos, ta) /\ Follows(file, pos + Len(ta), tb)
    BY <1>3, <2>4, FollowsLess
  <2>6. nt = (na + nb) + (1 + lc) /\ Len(Joined(ta, tb)) = na + nb
    BY <1>3, <2>2, <2>3, Zenon DEF na, nb, nt, lc
  <2>7. nt = na + nb + 1 + lc /\ pos + (na + nb) = pos + na + nb
    BY <1>4, <1>4a, <2>6
  <2> QED BY <2>4, <2>5, <2>6, <2>7, Zenon DEF na
<1>6. Resume!IsArray(1, "int") /\ Resume!Tok(1) = la /\ Resume!Array(1) = A
  BY <1>5, IntsThere DEF ta, la
<1>7. /\ b \in Nat \ {0} /\ b \in Nat /\ pos + na \in Nat /\ pos + b = (pos + na) + 1
  <2>1. b = 1 + 1 + la
    BY <1>6, Zenon
  <2>2. 1 \in Nat /\ pos + 1 = pos + 1
    OBVIOUS
  <2> QED BY ONLY <1>4, <1>4a, <2>1, pos \in Nat
<1>8. Resume!IsArray(b, "int") /\ Resume!Tok(b) = lb /\ Resume!Array(b) = B
  BY <1>5, <1>7, IntsThere DEF tb, lb
<1>9. /\ c \in Nat \ {0} /\ c \in Nat /\ pos + na + nb \in Nat /\ pos + c = (pos + na + nb) + 1
  <2>1. c = b + 1 + lb
    BY <1>8, Zenon
  <2> QED BY ONLY <1>4, <1>4a, <1>7, <2>1, pos \in Nat
<1>10. Resume!IsArray(c, "int") /\ Resume!Tok(c) = lc /\ Resume!Array(c) = C
  BY <1>5, <1>9, IntsThere DEF tc, lc
<1>11. n \in Nat \ {0} /\ n = nt + 1
  <2>1. n = c + 1 + lc
    BY <1>10, Zenon
  <2>2. nt = na + nb + 1 + lc
    BY <1>5
  <2> QED BY ONLY <1>4, <1>4a, <1>9, <2>1, <2>2, pos \in Nat
<1>12. la = lb /\ lc = Resume!Calls(lb, B)
  BY <1>1, Zenon DEF la, lb, lc
<1> QED BY <1>1, <1>6, <1>8, <1>10, <1>11, <1>12, Zenon DEF t, nt

(* The parser of a field takes the value that was written.                 *)
LEMMA NumberThere ==
  ASSUME file \in Seq(RTokens), pos \in Nat, NEW name, NEW kind \in {"int", "flag", "zero", "id", "none"},
         NEW x \in FieldValues[kind], Follows(file, pos, FieldToks(kind, x)), Resume!ParseNumber(name, kind)
  PROVE  Resume!TakeField(1, name, x)
<1>1. CASE kind = "int"
  <2>1. FieldToks("int", x) = <<Resume!I32(x)>>
    BY FieldToksAre
  <2>2. Resume!Readable(<<"int">>) /\ Resume!Tok(1) = x
    BY <1>1, <2>1, NextIntThere
  <2> QED BY <1>1, <2>2, KindsDiffer, Zenon DEF Resume!ParseNumber
<1>2. CASE kind = "flag"
  <2>1. FieldToks("flag", x) = <<Resume!I32(x)>> /\ x \in {0, 1}
    BY <1>2, FieldToksAre DEF FieldValues
  <2>2. Resume!Readable(<<"int">>) /\ Resume!Tok(1) = x
    BY <1>2, <2>1, NextIntThere
  <2> QED BY <1>2, <2>1, <2>2, KindsDiffer, Zenon DEF Resume!ParseNumber
<1>3. CASE kind = "zero"
  <2>1. FieldToks("zero", x) = <<Resume!I32(x)>> /\ x = 0
    BY <1>3, FieldToksAre DEF FieldValues
  <2>2. Resume!Readable(<<"int">>) /\ Resume!Tok(1) = x
    BY <1>3, <2>1, NextIntThere
  <2> QED BY <1>3, <2>1, <2>2, KindsDiffer, Zenon DEF Resume!ParseNumber
<1>4. CASE kind = "id"
  <2>1. x \in [name : {NULL}, id : Int]
    BY <1>4, FieldValuesAre
  <2> DEFINE n == x.id
  <2>2. n \in Int /\ x = [name |-> NULL, id |-> n]
    BY <2>1
  <2> HIDE DEF n
  <2>3. FieldToks("id", x) = <<Resume!I32(n)>>
    BY <2>2, FieldToksAre, SymbolIs, Zenon
  <2>4. Resume!Readable(<<"int">>) /\ Resume!Tok(1) = n
    BY <1>4, <2>3, NextIntThere
  <2> QED BY <1>4, <2>2, <2>4, KindsDiffer, Zenon DEF Resume!ParseNumber
<1>5. CASE kind = "none"
  <2>1. x \in [name : {NULL}, id : {-1}]
    BY <1>5, FieldValuesAre
  <2>2. x = [name |-> NULL, id |-> -1] /\ -1 \in Int
    BY <2>1
  <2>3. FieldToks("none", x) = <<Resume!I32(-1)>>
    BY <2>2, FieldToksAre, SymbolIs, Zenon
  <2>4. Resume!Readable(<<"int">>) /\ Resume!Tok(1) = -1
    BY <1>5, <2>3, NextIntThere
  <2> QED BY <1>5, <2>2, <2>4, KindsDiffer, Zenon DEF Resume!ParseNumber
<1> QED BY <1>1, <1>2, <1>3, <1>4, <1>5

LEMMA FourTimes ==
  ASSUME NEW n \in Nat, NEW k, k = 4 * n
  PROVE  k % 4 = 0 /\ ~(k < 0) /\ k \div 4 = n
OBVIOUS

LEMMA SlotsThere ==
  ASSUME file \in Seq(RTokens), pos \in Nat, NEW name, NEW x \in Seq(Int),
         Follows(file, pos, FieldToks("slots", x)), Resume!ParseSlots(name)
  PROVE  \E n : Resume!TakeField(n, name, x)
<1> DEFINE n == Len(x)
           k == 4 * n
           a == <<Resume!I32(k)>>
           c == Resume!I32s(x)
           K == Resume!Kinds(1 + n)
<1>0. x = [i \in 1 .. n |-> x[i]]
  OBVIOUS
<1>1. n \in Nat /\ k \in Int
  OBVIOUS
<1>2. c \in Seq(RTokens) /\ Len(c) = n /\ \A i \in 1 .. n : c[i] = Resume!I32(x[i])
  BY ResumeInts
<1>3. FieldToks("slots", x) = Joined(a, c)
  BY FieldToksAre, Zenon
<1>4. a \in Seq(RTokens) /\ Len(a) = 1
  BY <1>1, ResumeTokens, OneToken
<1>5. Follows(file, pos, a) /\ Follows(file, pos + Len(a), c)
  <2> HIDE DEF a, c
  <2> QED BY <1>2, <1>3, <1>4, FollowsLess
<1>6. Resume!Readable(<<"int">>) /\ Resume!Tok(1) = k
  BY <1>5, NextIntThere
<1>7. (pos + 1) + n <= Len(file) /\ \A i \in 1 .. n : file[(pos + 1) + i] = Resume!I32(x[i])
  <2> HIDE DEF a, c
  <2>1. Follows(file, pos + 1, c)
    BY <1>4, <1>5
  <2> QED BY <1>2, <2>1 DEF Follows
<1>8. k % 4 = 0 /\ ~(k < 0) /\ k \div 4 = n
  BY <1>1, FourTimes
<1> HIDE DEF k, n
<1>9. pos + 1 <= Len(file) /\ file[pos + 1].kind = "int"
  BY <1>6 DEF Resume!Readable
<1>10. ASSUME NEW i \in 1 .. 1 + n PROVE file[pos + i].kind = "int"
  <2>1. CASE i = 1
    BY <1>9, <2>1
  <2>2. CASE i # 1
    <3>1. i - 1 \in 1 .. n /\ (pos + 1) + (i - 1) = pos + i
      BY <1>1, <2>2
    <3>2. file[(pos + 1) + (i - 1)] = Resume!I32(x[i - 1])
      BY <1>7, <3>1
    <3>3. Resume!I32(x[i - 1]).kind = "int"
      BY DEF Resume!I32
    <3> QED BY <3>1, <3>2, <3>3
  <2> QED BY <2>1, <2>2
<1>11. Len(K) = 1 + n /\ \A i \in 1 .. 1 + n : K[i] = "int"
  <2> DEFINE l == 1 + n
  <2>1. l \in Nat
    BY <1>1
  <2> HIDE DEF l
  <2>2. K = [i \in 1 .. l |-> "int"]
    BY DEF Resume!Kinds, l
  <2> HIDE DEF K
  <2>3. Len(K) = l /\ \A i \in 1 .. l : K[i] = "int"
    BY <2>1, <2>2
  <2> QED BY <2>3 DEF l
<1>12. Resume!Readable(K)
  <2>1. pos + (1 + n) <= Len(file)
    BY <1>1, <1>7
  <2> HIDE DEF K
  <2>2. pos + Len(K) <= Len(file) /\ \A i \in 1 .. Len(K) : file[pos + i].kind = K[i]
    BY <1>10, <1>11, <2>1
  <2> QED BY <2>2 DEF Resume!Readable
<1>13. Resume!Toks(2, n) = x
  <2>1. Resume!Toks(2, n) = [i \in 1 .. n |-> file[pos + (2 + i - 1)].v]
    BY Zenon DEF Resume!Toks, Resume!Tok
  <2>2. ASSUME NEW i \in 1 .. n PROVE file[pos + (2 + i - 1)].v = x[i]
    <3>1. pos + (2 + i - 1) = (pos + 1) + i
      BY <1>1
    <3>2. Resume!I32(x[i]).v = x[i]
      BY DEF Resume!I32
    <3> QED BY <1>7, <3>1, <3>2
  <2>3. Resume!Toks(2, n) = [i \in 1 .. n |-> x[i]]
    BY <2>1, <2>2
  <2> QED BY <1>0, <2>3, Zenon
<1> HIDE DEF K
<1>14. Resume!TakeField(1 + n, name, x)
  <2>1. Resume!Tok(1) \div 4 = n /\ Resume!Tok(1) % 4 = 0 /\ ~(Resume!Tok(1) < 0)
    BY <1>6, <1>8, Zenon
  <2>2. Resume!Readable(Resume!Kinds(1 + Resume!Tok(1) \div 4))
    BY <1>12, <2>1, Zenon DEF K
  <2> QED BY <1>6, <1>13, <2>1, <2>2, Zenon DEF Resume!ParseSlots
<1> QED BY <1>14

LEMMA NameThere ==
  ASSUME file \in Seq(RTokens), pos \in Nat, NEW x \in FieldValues["name"],
         Follows(file, pos, FieldToks("name", x))
  PROVE  Resume!Readable(<<"str">>) /\ x = [name |-> Resume!Tok(1), id |-> 0]
<1>1. x \in [name : STRING, id : {0}]
  BY FieldValuesAre
<1> DEFINE n == x.name
<1>2. n \in STRING /\ x = [name |-> n, id |-> 0] /\ 0 \in Int
  BY <1>1
<1> HIDE DEF n
<1>3. FieldToks("name", x) = <<Resume!Text(n)>>
  BY <1>2, FieldToksAre, SymbolIs, Zenon
<1> DEFINE t == <<Resume!Text(n)>>
<1>4. Len(t) = 1 /\ t[1] = Resume!Text(n)
  OBVIOUS
<1>5. pos + Len(t) <= Len(file) /\ \A k \in 1 .. Len(t) : file[pos + k] = t[k]
  BY <1>3 DEF Follows
<1> HIDE DEF t
<1>6. pos + 1 <= Len(file) /\ file[pos + 1] = Resume!Text(n)
  BY <1>4, <1>5
<1>7. file[pos + 1].kind = "str" /\ Resume!Tok(1) = n
  BY <1>6 DEF Resume!Text, Resume!Tok
<1>8. Resume!Readable(<<"str">>)
  BY <1>6, <1>7 DEF Resume!Readable
<1> QED BY <1>2, <1>7, <1>8

LEMMA BytesThere ==
  ASSUME file \in Seq(RTokens), pos \in Nat, NEW x \in Seq(Int), Follows(file, pos, FieldToks("bytes", x))
  PROVE  Resume!Readable(<<"int", "bytes">>) /\ Resume!Tok(1) = Len(Resume!Tok(2)) /\ Resume!Tok(2) = x
<1> DEFINE b == [kind |-> "bytes", v |-> x]
           t == <<Resume!I32(Len(x)), b>>
           k == <<"int", "bytes">>
<1>1. FieldToks("bytes", x) = t
  BY FieldToksAre, Zenon
<1>2. Len(t) = 2 /\ t[1] = Resume!I32(Len(x)) /\ t[2] = b
  OBVIOUS
<1>3. pos + Len(t) <= Len(file) /\ \A i \in 1 .. Len(t) : file[pos + i] = t[i]
  BY <1>1, Zenon DEF Follows
<1> HIDE DEF t
<1>4. pos + 2 <= Len(file) /\ file[pos + 1] = Resume!I32(Len(x)) /\ file[pos + 2] = b
  <2>1. 1 \in 1 .. Len(t) /\ 2 \in 1 .. Len(t)
    BY <1>2
  <2> QED BY <1>2, <1>3, <2>1
<1>5. /\ file[pos + 1].kind = "int" /\ Resume!Tok(1) = Len(x)
      /\ file[pos + 2].kind = "bytes" /\ Resume!Tok(2) = x
  BY <1>4 DEF Resume!I32, Resume!Tok
<1>6. Len(k) = 2 /\ k[1] = "int" /\ k[2] = "bytes"
  OBVIOUS
<1> HIDE DEF k
<1>7. Resume!Readable(k)
  <2>1. \A i \in 1 .. 2 : i = 1 \/ i = 2
    OBVIOUS
  <2>2. \A i \in 1 .. 2 : file[pos + i].kind = k[i]
    BY <1>5, <1>6, <2>1
  <2> QED BY <1>4, <1>6, <2>2 DEF Resume!Readable
<1> QED BY <1>5, <1>7 DEF k

\* Whatever its kind.
LEMMA FieldThere ==
  ASSUME file \in Seq(RTokens), pos \in Nat, Resume!ParseField,
         NEW i, i = Resume!Cardinality(DOMAIN part),
         NEW name, name = NameOf(s.version, part.tag, i),
         NEW kind \in FieldKinds, kind = KindOf(s.version, part.tag, i),
         NEW x \in FieldValues[kind], Follows(file, pos, FieldToks(kind, x))
  PROVE  \E n : Resume!TakeField(n, name, x)
<1>0. /\ name = Resume!Layout(s.version, part.tag)[Resume!Cardinality(DOMAIN part)][1]
      /\ kind = Resume!Layout(s.version, part.tag)[Resume!Cardinality(DOMAIN part)][2]
  BY DEF NameOf, KindOf
<1>1. CASE kind = "slots"
  <2>1. Resume!ParseSlots(name)
    BY <1>0, <1>1, KindsDiffer, Zenon DEF Resume!ParseField, Resume!version
  <2>2. x \in Seq(Int)
    BY <1>1 DEF FieldValues
  <2> QED BY <1>1, <2>1, <2>2, SlotsThere
<1>2. CASE kind = "name"
  <2>1. IF Resume!Readable(<<"str">>) THEN Resume!TakeField(1, name, [name |-> Resume!Tok(1), id |-> 0])
        ELSE Resume!End("off")
    BY <1>0, <1>2, KindsDiffer, Zenon DEF Resume!ParseField, Resume!version
  <2>2. Resume!Readable(<<"str">>) /\ x = [name |-> Resume!Tok(1), id |-> 0]
    BY <1>2, NameThere
  <2> QED BY <2>1, <2>2, Zenon
<1>3. CASE kind = "ints"
  <2>1. IF Resume!IsArray(1, "int") THEN Resume!TakeField(1 + Resume!Tok(1), name, Resume!Array(1))
        ELSE Resume!End("off")
    BY <1>0, <1>3, KindsDiffer, Zenon DEF Resume!ParseField, Resume!version
  <2>2. x \in Seq(Int) /\ FieldToks("ints", x) = Resume!CountedTokens(Resume!I32s(x))
    <3>1. FieldValues["ints"] = Seq(Int)
      BY DEF FieldValues
    <3>2. x \in FieldValues["ints"]
      BY <1>3
    <3> QED BY <3>1, <3>2, FieldToksAre, Zenon
  <2>3. Follows(file, pos, Resume!CountedTokens(Resume!I32s(x)))
    BY <1>3, <2>2
  <2>4. 1 \in Nat \ {0} /\ pos + 1 = pos + 1
    OBVIOUS
  <2>5. Resume!IsArray(1, "int") /\ Resume!Array(1) = x
    BY <2>2, <2>3, <2>4, IntsThere
  <2> QED BY <2>1, <2>5, Zenon
<1>4. CASE kind = "bytes"
  <2>1. IF Resume!Readable(<<"int", "bytes">>) /\ Resume!Tok(1) = Len(Resume!Tok(2))
        THEN Resume!TakeField(2, name, Resume!Tok(2)) ELSE Resume!End("off")
    BY <1>0, <1>4, KindsDiffer, Zenon DEF Resume!ParseField, Resume!version
  <2>2. x \in Seq(Int)
    BY <1>4 DEF FieldValues
  <2>3. Resume!Readable(<<"int", "bytes">>) /\ Resume!Tok(1) = Len(Resume!Tok(2)) /\ Resume!Tok(2) = x
    BY <1>4, <2>2, BytesThere
  <2> QED BY <2>1, <2>3, Zenon
<1>5. CASE kind \in {"int", "flag", "zero", "id", "none"}
  <2>1. kind # "slots" /\ kind # "name" /\ kind # "ints" /\ kind # "bytes"
    BY <1>5, KindsDiffer, Zenon
  <2>2. Resume!ParseNumber(name, kind)
    BY <1>0, <2>1, Zenon DEF Resume!ParseField, Resume!version
  <2> QED BY <1>5, <2>2, NumberThere, Zenon
<1> QED BY <1>1, <1>2, <1>3, <1>4, <1>5, Zenon DEF FieldKinds

(* What the parser has of an undamaged file is what was written.           *)
Reading == {"ip", "stack", "frames", "returns", "heap"}

\* The fields of a heap object read so far are those of the object written.
PartOf(o) == part = [f \in DOMAIN part |-> o[f]]

Agrees(p) ==
  /\ p \in {"idle", "done"} \cup Reading
  /\ p \in Reading => /\ IsWhole(saved) /\ mode = "all"
                       /\ s.funcs = <<>> /\ s.comments_only = saved.comments_only
  /\ p \in Reading \ {"heap"} => s.next_seq = 0
  /\ p = "ip" => SameOpening(saved, s)
  /\ p = "stack" => SameIp(saved, s)
  /\ p = "frames" => SameStack(saved, s)
  /\ p = "returns" => /\ SameFrames(saved, s) /\ Len(s.returns) + left = Len(saved.returns)
                      /\ \A i \in 1 .. Len(s.returns) : s.returns[i] = saved.returns[i]
  /\ p = "heap" => /\ SameSeq(saved, s) /\ Len(s.heap) + left = Len(saved.heap)
                   /\ \A i \in 1 .. Len(s.heap) : s.heap[i] = saved.heap[i]
                   /\ part # Resume!NOTHING => PartOf(saved.heap[Len(s.heap) + 1])
  /\ p = "done" => s = IF mode = "comments" THEN CommentsOnly(saved.version, saved.comments) ELSE saved

\* A save of version 4 or 6 that was read for its comments only is written as
\* its version alone, which is read for its comments or not at all.
IsHollow(x) == x.version \in {4, 6} /\ x = CommentsOnly(x.version, <<>>)

HollowAt(p) ==
  /\ p \in {"idle", "ip", "done", "off"}
  /\ p = "ip" => pos = Len(file)
  /\ p = "done" => s = saved

ComesBack ==
  /\ file = Resume!FileOf(saved)
  /\ \/ IsResumeSave(saved) /\ Agrees(phase)
     \/ IsHollow(saved) /\ HollowAt(phase)

LEMMA SavesAreEqual ==
  ASSUME NEW x, NEW y, IsSave(x), IsSave(y), SameHeap(x, y), y.funcs = x.funcs,
         y.comments_only = x.comments_only
  PROVE  y = x
BY DEF IsSave, SameHeap, SameSeq, SameReturns, SameFrames, SameStack, SameIp, SameOpening

LEMMA WholeIsSave ==
  ASSUME NEW x, IsWhole(x)
  PROVE  IsSave(x) /\ ~x.comments_only
<1>1. x = [f \in DOMAIN Resume!Blank |-> x[f]]
  BY Zenon DEF IsWhole
<1>2. DOMAIN Resume!Blank = {"version", "comments", "comments_only", "ip", "stack", "frames", "returns",
                             "next_seq", "heap", "funcs"}
  BY DEF Resume!Blank
<1>3. IsSave(x)
  BY <1>1, <1>2 DEF IsSave
<1>4. x.comments_only = FALSE
  BY WholeIs
<1> QED BY <1>3, <1>4

LEMMA CommentsOnlyIs ==
  ASSUME NEW v, NEW c
  PROVE  /\ CommentsOnly(v, c).version = v /\ CommentsOnly(v, c).comments = c /\ CommentsOnly(v, c).comments_only
         /\ CommentsOnly(v, c) = WithCommentsOnly(WithComments(WithVersion(Resume!Blank, v), c))
         /\ CommentsOnly(v, <<>>) = WithCommentsOnly(WithVersion(Resume!Blank, v))
<1> DEFINE b == Resume!Blank
           x == WithVersion(b, v)
           y == WithComments(x, c)
           z == WithCommentsOnly(y)
           w == WithCommentsOnly(x)
<1>1. IsSave(x) /\ x.version = v /\ x.comments = <<>> /\ ~x.comments_only
  <2>1. b.comments = <<>>
    BY DEF Resume!Blank
  <2> QED BY <2>1, BlankIs, SetVersion
<1>2. z = CommentsOnly(v, c)
  BY DEF CommentsOnly, WithCommentsOnly, WithComments, WithVersion
<1>3. CommentsOnly(v, <<>>) = w
  <2>1. CommentsOnly(v, <<>>) = WithCommentsOnly(WithComments(x, <<>>))
    BY DEF CommentsOnly, WithCommentsOnly, WithComments, WithVersion
  <2> HIDE DEF x
  <2>2. WithComments(x, <<>>) = x
    BY <1>1 DEF WithComments, IsSave
  <2> QED BY <2>1, <2>2
<1> HIDE DEF x, y, z, w
<1>4. IsSave(y) /\ y.comments = c /\ y.version = v
  BY <1>1, SetComments DEF y
<1>5. z.version = v /\ z.comments = c /\ z.comments_only
  BY <1>4, SetCommentsOnly DEF z
<1> QED BY <1>2, <1>3, <1>5, Zenon DEF z, w, y, x

\* A file that is all there, of a whole save.
Ahead(x, f) ==
  /\ Follows(f, 0, Resume!Opening(x))
  /\ Follows(f, Len(Resume!Opening(x)), Resume!ReturnTokens(x.ip))
  /\ Follows(f, Len(Joined(Resume!Opening(x), Resume!ReturnTokens(x.ip))), <<Zero>>)
  /\ Follows(f, Len(HeadIp(x)), Resume!CountedTokens(Resume!I32s(x.stack)))
  /\ Follows(f, Len(HeadStack(x)), Resume!FrameTokens(x.frames))
  /\ Follows(f, Len(HeadFrames(x)), <<Resume!I32(Len(x.returns))>>)
  /\ Begins(f, HeadReturns(x, Len(x.returns)))
  /\ Follows(f, Len(HeadReturns(x, Len(x.returns))), <<Zero, Zero, Zero>>)
  /\ Follows(f, Len(Joined(HeadReturns(x, Len(x.returns)), <<Zero, Zero, Zero>>)), SeqTokens(x))
  /\ Follows(f, Len(HeadSeq(x)), <<Resume!I32(Len(x.heap))>>)
  /\ Begins(f, HeadHeap(x, Len(x.heap)))
  /\ Follows(f, Len(HeadHeap(x, Len(x.heap))), FuncTokens(x))
  /\ Len(f) = Len(HeadHeap(x, Len(x.heap))) + Len(FuncTokens(x))

LEMMA AheadIs ==
  ASSUME NEW x, IsWhole(x), NEW f, f = Resume!FileOf(x)
  PROVE  Ahead(x, f) /\ f \in Seq(RTokens)
<1> DEFINE n == Len(x.returns)
           h == Len(x.heap)
           o == Resume!Opening(x)
           r == Resume!ReturnTokens(x.ip)
           k == Resume!CountedTokens(Resume!I32s(x.stack))
           t == Resume!FrameTokens(x.frames)
           z == <<Zero, Zero, Zero>>
           u == FuncTokens(x)
<1>1. WholeTyped(x) /\ f = Joined(HeadHeap(x, h), u)
  BY WholeIsTyped
<1>2. /\ o \in Seq(RTokens) /\ r \in Seq(RTokens) /\ <<Zero>> \in Seq(RTokens) /\ z \in Seq(RTokens)
      /\ HeadIp(x) \in Seq(RTokens) /\ k \in Seq(RTokens) /\ HeadStack(x) \in Seq(RTokens)
      /\ t \in Seq(RTokens) /\ HeadFrames(x) \in Seq(RTokens) /\ HeadCount(x, n) \in Seq(RTokens)
      /\ HeadReturns(x, n) \in Seq(RTokens) /\ SeqTokens(x) \in Seq(RTokens) /\ HeadSeq(x) \in Seq(RTokens)
      /\ HeadSize(x, h) \in Seq(RTokens) /\ HeadHeap(x, h) \in Seq(RTokens) /\ u \in Seq(RTokens)
  BY <1>1, Zenon DEF WholeTyped
<1>3. /\ Flat(Returned(x)) \in Seq(RTokens) /\ <<Resume!I32(n)>> \in Seq(RTokens)
      /\ Flat(Objects(x)) \in Seq(RTokens) /\ <<Resume!I32(h)>> \in Seq(RTokens)
  <2>1. /\ Returned(x) \in Seq(Seq(RTokens)) /\ <<Resume!I32(n)>> \in Seq(RTokens)
        /\ Objects(x) \in Seq(Seq(RTokens)) /\ <<Resume!I32(h)>> \in Seq(RTokens)
    BY <1>1, Zenon DEF WholeTyped
  <2> QED BY <2>1, FlatInSeq
<1> HIDE DEF n, h, o, r, k, t, z, u
<1>4. Begins(f, HeadHeap(x, h)) /\ Follows(f, Len(HeadHeap(x, h)), u)
  <2>1. Begins(f, Joined(HeadHeap(x, h), u))
    BY <1>1, <1>2, BeginsAll, JoinedTyped
  <2> QED BY <1>2, <2>1, BeginsLess
<1>5. Len(f) = Len(HeadHeap(x, h)) + Len(u)
  BY <1>1, <1>2, JoinedAt
<1>6. Begins(f, HeadSize(x, h))
  BY <1>2, <1>3, <1>4, BeginsLess DEF HeadHeap
<1>7. Begins(f, HeadSeq(x)) /\ Follows(f, Len(HeadSeq(x)), <<Resume!I32(h)>>)
  BY <1>2, <1>3, <1>6, BeginsLess DEF HeadSize
<1>8. /\ Begins(f, Joined(HeadReturns(x, n), z))
      /\ Follows(f, Len(Joined(HeadReturns(x, n), z)), SeqTokens(x))
  <2>1. Joined(HeadReturns(x, n), z) \in Seq(RTokens)
    BY <1>2, JoinedTyped
  <2>2. HeadSeq(x) = Joined(Joined(HeadReturns(x, n), z), SeqTokens(x))
    BY Zenon DEF HeadSeq, n, z
  <2> QED BY <1>2, <1>7, <2>1, <2>2, BeginsLess
<1>9. Begins(f, HeadReturns(x, n)) /\ Follows(f, Len(HeadReturns(x, n)), z)
  BY <1>2, <1>8, BeginsLess
<1>10. Begins(f, HeadCount(x, n))
  BY <1>2, <1>3, <1>9, BeginsLess DEF HeadReturns
<1>11. Begins(f, HeadFrames(x)) /\ Follows(f, Len(HeadFrames(x)), <<Resume!I32(n)>>)
  BY <1>2, <1>3, <1>10, BeginsLess DEF HeadCount
<1>12. Begins(f, HeadStack(x)) /\ Follows(f, Len(HeadStack(x)), t)
  BY <1>2, <1>11, BeginsLess DEF HeadFrames, t
<1>13. Begins(f, HeadIp(x)) /\ Follows(f, Len(HeadIp(x)), k)
  BY <1>2, <1>12, BeginsLess DEF HeadStack, k
<1>14. Begins(f, Joined(o, r)) /\ Follows(f, Len(Joined(o, r)), <<Zero>>)
  <2>1. Joined(o, r) \in Seq(RTokens)
    BY <1>2, JoinedTyped
  <2>2. HeadIp(x) = Joined(Joined(o, r), <<Zero>>)
    BY Zenon DEF HeadIp, o, r
  <2> QED BY <1>2, <1>13, <2>1, <2>2, BeginsLess
<1>15. Begins(f, o) /\ Follows(f, Len(o), r)
  BY <1>2, <1>14, BeginsLess
<1>16. Follows(f, 0, o)
  <2>1. <<>> \in Seq(RTokens) /\ Joined(<<>>, o) = o /\ Len(<<>>) = 0
    BY <1>2, JoinedNone
  <2>2. Begins(f, Joined(<<>>, o))
    BY <1>15, <2>1
  <2> QED BY <1>2, <2>1, <2>2, BeginsLess
<1>17. f \in Seq(RTokens)
  BY <1>1, <1>2, JoinedTyped
<1> QED BY <1>4, <1>5, <1>7, <1>8, <1>9, <1>11, <1>12, <1>13, <1>14, <1>15, <1>16, <1>17, Zenon
        DEF Ahead, n, h, o, r, k, t, z, u

LEMMA OpeningThere ==
  ASSUME file \in Seq(RTokens), pos = 0, NEW x, x.version \in Versions, x.version >= 7 => x.comments \in Seq(STRING),
         Follows(file, 0, Resume!Opening(x))
  PROVE  /\ Resume!Readable(<<"int">>) /\ Resume!Tok(1) = x.version
         /\ x.version >= 7 => /\ Resume!IsArray(2, "str") /\ Resume!Array(2) = x.comments
                              /\ Len(Resume!Opening(x)) = 2 + Resume!Tok(2)
         /\ ~(x.version >= 7) => Len(Resume!Opening(x)) = 1
<1> DEFINE v == x.version
           a == <<Resume!I32(v)>>
           b == Resume!CountedTokens(Texts(x.comments))
<1>0. v \in Int /\ pos \in Nat
  BY DEF Versions
<1>1. a \in Seq(RTokens) /\ Len(a) = 1
  BY <1>0, ResumeTokens, OneToken
<1>2. CASE v >= 7
  <2>1. Resume!Opening(x) = Joined(a, b)
    BY <1>2, OpeningIs, Zenon
  <2>2. b \in Seq(RTokens) /\ Len(b) = 1 + Len(x.comments)
    BY <1>2, ResumeTexts, ResumeCounted
  <2> HIDE DEF a, b
  <2>3. Len(Resume!Opening(x)) = Len(a) + Len(b)
    BY <1>1, <2>1, <2>2, JoinedAt
  <2>4. Follows(file, 0, a) /\ Follows(file, 0 + Len(a), b)
    <3>1. 0 \in Nat
      OBVIOUS
    <3> QED BY <1>1, <2>1, <2>2, <3>1, FollowsLess
  <2>5. Resume!Readable(<<"int">>) /\ Resume!Tok(1) = v
    <3>1. Follows(file, pos, <<Resume!I32(v)>>)
      BY <2>4 DEF a
    <3> QED BY <1>0, <3>1, NextIntThere
  <2>6. Resume!IsArray(2, "str") /\ Resume!Tok(2) = Len(x.comments) /\ Resume!Array(2) = x.comments
    <3>1. Follows(file, 1, Resume!CountedTokens(Texts(x.comments)))
      BY <1>1, <2>4 DEF b
    <3>2. 2 \in Nat \ {0} /\ 1 \in Nat /\ pos + 2 = 1 + 1
      OBVIOUS
    <3> QED BY <1>0, <1>2, <3>1, <3>2, TextsThere
  <2>7. Len(Resume!Opening(x)) = 2 + Resume!Tok(2)
    <3>1. Len(x.comments) \in Nat
      BY <1>2
    <3> QED BY <1>1, <2>2, <2>3, <2>6, <3>1
  <2> QED BY <1>2, <2>5, <2>6, <2>7
<1>3. CASE ~(v >= 7)
  <2>1. Resume!Opening(x) = Joined(a, <<>>)
    BY <1>3, OpeningIs, Zenon
  <2>2. Joined(a, <<>>) = a
    BY <1>1, JoinedNone
  <2>3. Follows(file, pos, <<Resume!I32(v)>>)
    BY <2>1, <2>2
  <2> QED BY <1>0, <1>1, <1>3, <2>1, <2>2, <2>3, NextIntThere
<1> QED BY <1>2, <1>3

LEMMA HeaderIsBack ==
  ASSUME ResumeInv, mode \in {"all", "comments"}, ComesBack, Resume!ParseHeader,
         file' = file, mode' = mode, saved' = saved
  PROVE  ComesBack'
<1> DEFINE v == Resume!Tok(1)
           x == WithVersion(s, v)
           y == WithComments(x, Resume!Array(2))
           z == WithCommentsOnly(y)
           w == WithCommentsOnly(x)
           n == 2 + Resume!Tok(2)
           c == saved.comments
<1>1. /\ file \in Seq(RTokens) /\ pos = 0 /\ s = Resume!Blank /\ phase = "idle" /\ file = Resume!FileOf(saved)
      /\ part = Resume!NOTHING
  BY DEF ResumeInv, Resume!ParseHeader, ComesBack, Under
<1>2. /\ x = [s EXCEPT !.version = v] /\ y = [x EXCEPT !.comments = Resume!Array(2)]
      /\ z = [y EXCEPT !.comments_only = TRUE] /\ w = [x EXCEPT !.comments_only = TRUE]
  BY Zenon DEF WithVersion, WithComments, WithCommentsOnly
<1>3. /\ z = CommentsOnly(v, Resume!Array(2)) /\ w = CommentsOnly(v, <<>>)
  BY <1>1, CommentsOnlyIs, Zenon
<1>4. /\ s.next_seq = 0 /\ s.funcs = <<>> /\ s.comments = <<>> /\ IsSave(s) /\ s.comments_only = FALSE
  BY <1>1, BlankIs DEF Resume!Blank
<1> HIDE DEF v, x, y, z, w, n, c
<1>5. /\ IsSave(x) /\ x.version = v /\ x.comments = <<>> /\ x.next_seq = 0 /\ x.funcs = <<>>
      /\ x.comments_only = FALSE
  BY <1>4, SetVersion DEF x
<1>6. /\ y.version = v /\ y.comments = Resume!Array(2) /\ y.next_seq = 0 /\ y.funcs = <<>>
      /\ y.comments_only = FALSE
  BY <1>5, SetComments DEF y
<1>7. CASE IsWhole(saved)
  <2>1. /\ saved.version \in {4, 6, 7, 9} /\ c \in IF saved.version >= 7 THEN Seq(STRING) ELSE {<<>>}
      /\ saved.comments_only = FALSE
    BY <1>7, WholeIs DEF c
  <2>2. Ahead(saved, file)
    BY <1>1, <1>7, AheadIs
  <2>3. /\ Resume!Readable(<<"int">>) /\ v = saved.version
        /\ v >= 7 => Resume!IsArray(2, "str") /\ Resume!Array(2) = c /\ Len(Resume!Opening(saved)) = n
        /\ ~(v >= 7) => Len(Resume!Opening(saved)) = 1
    <3>1. saved.version \in Versions /\ (saved.version >= 7 => saved.comments \in Seq(STRING))
      BY <2>1 DEF Versions, c
    <3>2. Follows(file, 0, Resume!Opening(saved))
      BY <2>2 DEF Ahead
    <3> QED BY <1>1, <3>1, <3>2, OpeningThere DEF v, n, c
  <2>4. CASE v >= 7
    <3>1. ~Resume!AtEnd(n)
      <4> DEFINE o == Resume!Opening(saved)
                 r == Resume!ReturnTokens(saved.ip)
      <4>1. o \in Seq(RTokens) /\ r \in Seq(RTokens) /\ Len(Joined(o, r)) = Len(o) + Len(r)
        <5>1. o \in Seq(RTokens) /\ r \in Seq(RTokens)
          BY <1>7, WholeIsTyped, Zenon DEF WholeTyped
        <5> HIDE DEF o, r
        <5> QED BY <5>1, JoinedAt
      <4>2. Follows(file, Len(Joined(o, r)), <<Zero>>)
        BY <2>2 DEF Ahead
      <4>3. Len(<<Zero>>) = 1
        OBVIOUS
      <4>4. Len(o) = n
        BY <2>3, <2>4
      <4> HIDE DEF o, r
      <4>5. Len(Joined(o, r)) + 1 <= Len(file)
        BY <4>2, <4>3 DEF Follows
      <4> QED BY <1>1, <4>1, <4>4, <4>5 DEF Resume!AtEnd
    <3>2. IF mode = "comments" THEN Resume!GoOn(n, z, "done") ELSE Resume!GoOn(n, y, "ip")
      BY <1>2, <2>1, <2>3, <2>4, <3>1, Zenon DEF Resume!ParseHeader, v, n
    <3>3. CASE mode = "comments"
      <4>1. phase' = "done" /\ s' = CommentsOnly(saved.version, c)
        BY <1>3, <2>3, <2>4, <3>2, <3>3 DEF Resume!GoOn
      <4>2. Agrees(phase)'
        BY <3>3, <4>1 DEF Agrees, Reading, c
      <4> QED BY <1>1, <1>7, <4>2 DEF ComesBack, IsResumeSave
    <3>4. CASE mode # "comments"
      <4>1. phase' = "ip" /\ s' = y /\ mode = "all" /\ part' = part
        BY <3>2, <3>4 DEF Resume!GoOn
      <4>2. SameOpening(saved, y)
        BY <1>6, <2>3, <2>4 DEF SameOpening, c
      <4>3. Agrees(phase)'
        BY <1>1, <1>6, <1>7, <2>1, <4>1, <4>2 DEF Agrees, Reading, SameOpening
      <4> QED BY <1>1, <1>7, <4>3 DEF ComesBack, IsResumeSave
    <3> QED BY <3>3, <3>4
  <2>5. CASE ~(v >= 7)
    <3>1. c = <<>>
      BY <2>1, <2>3, <2>5
    <3>2. IF mode = "comments" THEN Resume!GoOn(1, w, "done") ELSE Resume!GoOn(1, x, "ip")
      BY <1>2, <2>1, <2>3, <2>5, Zenon DEF Resume!ParseHeader, v
    <3>3. CASE mode = "comments"
      <4>1. phase' = "done" /\ s' = CommentsOnly(saved.version, c)
        BY <1>3, <2>3, <3>1, <3>2, <3>3 DEF Resume!GoOn
      <4>2. Agrees(phase)'
        BY <3>3, <4>1 DEF Agrees, Reading, c
      <4> QED BY <1>1, <1>7, <4>2 DEF ComesBack, IsResumeSave
    <3>4. CASE mode # "comments"
      <4>1. phase' = "ip" /\ s' = x /\ mode = "all" /\ part' = part
        BY <3>2, <3>4 DEF Resume!GoOn
      <4>2. SameOpening(saved, x)
        BY <1>5, <2>3, <3>1 DEF SameOpening, c
      <4>3. Agrees(phase)'
        BY <1>1, <1>5, <1>7, <2>1, <4>1, <4>2 DEF Agrees, Reading, SameOpening
      <4> QED BY <1>1, <1>7, <4>3 DEF ComesBack, IsResumeSave
    <3> QED BY <3>3, <3>4
  <2> QED BY <2>4, <2>5
<1>8. ASSUME saved = CommentsOnly(saved.version, c)
      PROVE  file = Resume!Opening(saved) /\ (file \in Seq(RTokens) => Follows(file, 0, file))
  <2>1. saved.comments_only
    <3>1. CommentsOnly(saved.version, c).comments_only
      BY CommentsOnlyIs
    <3> QED BY <1>8, <3>1, Zenon
  <2>2. file = Resume!Opening(saved)
    BY <1>1, <2>1, FileIs, Zenon
  <2> QED BY <2>2 DEF Follows
<1>9. CASE IsBare(saved)
  <2>1. /\ saved.version \in {7, 9} /\ c \in Seq(STRING) /\ saved = CommentsOnly(saved.version, c)
    BY <1>9 DEF IsBare, c
  <2>2. file = Resume!Opening(saved) /\ Follows(file, 0, Resume!Opening(saved))
    BY <1>1, <1>8, <2>1
  <2>3. /\ Resume!Readable(<<"int">>) /\ v = saved.version
        /\ v >= 7 => Resume!IsArray(2, "str") /\ Resume!Array(2) = c /\ Len(Resume!Opening(saved)) = n
    <3>1. saved.version \in Versions /\ (saved.version >= 7 => saved.comments \in Seq(STRING))
      BY <2>1 DEF Versions, c
    <3> QED BY <1>1, <2>2, <3>1, OpeningThere DEF v, n, c
  <2>4. v >= 7 /\ v \in {4, 6, 7, 9}
    BY <2>1, <2>3
  <2>5. Resume!AtEnd(n)
    <3>1. n = Len(file) /\ Len(file) \in Nat
      BY <1>1, <2>2, <2>3, <2>4
    <3> QED BY <1>1, <3>1 DEF Resume!AtEnd
  <2>6. Resume!GoOn(n, z, "done")
    BY <1>2, <2>3, <2>4, <2>5, Zenon DEF Resume!ParseHeader, v, n
  <2>7. phase' = "done" /\ s' = saved /\ s' = CommentsOnly(saved.version, c)
    BY <1>3, <2>1, <2>3, <2>4, <2>6, Zenon DEF Resume!GoOn
  <2>8. Agrees(phase)'
    BY <2>7 DEF Agrees, Reading, c
  <2> QED BY <1>1, <1>9, <2>8 DEF ComesBack, IsResumeSave
<1>10. CASE IsHollow(saved)
  <2>1. saved.version \in {4, 6} /\ saved = CommentsOnly(saved.version, <<>>)
    BY <1>10 DEF IsHollow
  <2>2. c = <<>>
    <3>1. CommentsOnly(saved.version, <<>>).comments = <<>>
      BY CommentsOnlyIs
    <3> QED BY <2>1, <3>1, Zenon DEF c
  <2>3. file = Resume!Opening(saved) /\ Follows(file, 0, Resume!Opening(saved))
    BY <1>1, <1>8, <2>1, <2>2
  <2>4. /\ Resume!Readable(<<"int">>) /\ v = saved.version /\ ~(v >= 7) /\ Len(Resume!Opening(saved)) = 1
    <3>1. saved.version \in Versions /\ ~(saved.version >= 7)
      BY <2>1 DEF Versions
    <3> QED BY <1>1, <2>3, <3>1, OpeningThere DEF v
  <2>5. v \in {4, 6, 7, 9}
    BY <2>1, <2>4
  <2>6. IF mode = "comments" THEN Resume!GoOn(1, w, "done") ELSE Resume!GoOn(1, x, "ip")
    BY <1>2, <2>4, <2>5, Zenon DEF Resume!ParseHeader, v
  <2>7. CASE mode = "comments"
    <3>1. phase' = "done" /\ s' = saved
      BY <1>3, <2>1, <2>4, <2>6, <2>7 DEF Resume!GoOn
    <3>2. HollowAt(phase)'
      BY <3>1 DEF HollowAt
    <3> QED BY <1>1, <1>10, <3>2 DEF ComesBack
  <2>8. CASE mode # "comments"
    <3>1. phase' = "ip" /\ pos' = pos + 1
      BY <2>6, <2>8 DEF Resume!GoOn
    <3>2. pos' = Len(file)
      BY <1>1, <2>3, <2>4, <3>1
    <3>3. HollowAt(phase)'
      BY <3>1, <3>2 DEF HollowAt
    <3> QED BY <1>1, <1>10, <3>3 DEF ComesBack
  <2> QED BY <2>7, <2>8
<1> QED BY <1>7, <1>9, <1>10 DEF ComesBack, IsResumeSave

LEMMA ReadLength ==
  ASSUME NEW f, NEW p \in Nat
  PROVE  Len(ReadOf(f, p)) = p
<1> DEFINE r == ReadOf(f, p)
<1>1. r = [k \in 1 .. p |-> f[k]]
  BY DEF ReadOf
<1> HIDE DEF r
<1>2. Len(r) = p
  BY <1>1
<1> QED BY <1>2 DEF r

LEMMA StillWhole ==
  ASSUME ResumeInv, ComesBack, phase \in {"stack", "frames", "returns", "heap"}
  PROVE  /\ file \in Seq(RTokens) /\ pos \in Nat /\ IsSave(s) /\ s.version \in Versions /\ ~s.comments_only
         /\ IsWhole(saved) /\ Ahead(saved, file) /\ file = Resume!FileOf(saved)
         /\ Agrees(phase) /\ mode = "all" /\ s.funcs = <<>> /\ s.comments_only = saved.comments_only
         /\ phase # "heap" => part = Resume!NOTHING /\ s.next_seq = 0
<1>1. /\ file \in Seq(RTokens) /\ pos \in Nat /\ IsSave(s) /\ s.version \in Versions /\ ~s.comments_only
      /\ phase # "heap" => part = Resume!NOTHING
  BY DEF ResumeInv, Under
<1>2. Agrees(phase) /\ file = Resume!FileOf(saved)
  BY DEF ComesBack, HollowAt
<1>3. IsWhole(saved) /\ mode = "all" /\ s.funcs = <<>> /\ s.comments_only = saved.comments_only /\ (phase # "heap" => s.next_seq = 0)
  BY <1>2 DEF Agrees, Reading
<1>4. Ahead(saved, file)
  BY <1>2, <1>3, AheadIs
<1> QED BY <1>1, <1>2, <1>3, <1>4

LEMMA WholeComesBack ==
  ASSUME IsWhole(saved), file = Resume!FileOf(saved), Agrees(phase)', file' = file, saved' = saved
  PROVE  ComesBack'
BY DEF ComesBack, IsResumeSave

LEMMA IpIsBack ==
  ASSUME ResumeInv, mode \in {"all", "comments"}, ComesBack, Resume!ParseIp,
         file' = file, mode' = mode, saved' = saved
  PROVE  ComesBack'
<1> DEFINE n == Len(Resume!ReturnKinds)
           r == Resume!ReturnRecord
           x == WithIp(s, r)
<1>1. /\ file \in Seq(RTokens) /\ pos \in Nat /\ phase = "ip" /\ IsSave(s) /\ file = Resume!FileOf(saved)
      /\ part = Resume!NOTHING /\ ReadOf(file, pos) = Resume!Opening(s)
  BY DEF ResumeInv, Resume!ParseIp, Under, HasRead, ComesBack
<1>2. CASE Agrees(phase)
  <2>1. /\ IsWhole(saved) /\ mode = "all" /\ s.funcs = <<>> /\ s.comments_only = saved.comments_only /\ s.next_seq = 0 /\ SameOpening(saved, s)
    BY <1>1, <1>2 DEF Agrees, Reading
  <2> DEFINE o == Resume!Opening(saved)
             t == Resume!ReturnTokens(saved.ip)
  <2>2. /\ Follows(file, Len(o), t) /\ Follows(file, Len(Joined(o, t)), <<Zero>>)
    BY <1>1, <2>1, AheadIs DEF Ahead
  <2>3. o \in Seq(RTokens) /\ t \in Seq(RTokens)
    BY <2>1, WholeIsTyped, Zenon DEF WholeTyped
  <2>4. Len(o) = pos
    <3>1. Resume!Opening(s) = o
      BY <2>1, SameHeads
    <3> QED BY <1>1, <3>1, ReadLength
  <2> HIDE DEF o
  <2>5. /\ Resume!Readable(Resume!ReturnKinds) /\ r = saved.ip /\ n = Len(t) /\ n \in Nat
    <3>1. saved.ip \in ReturnRecords
      BY <2>1, WholeIs
    <3>2. Follows(file, pos, Resume!ReturnTokens(saved.ip))
      BY <2>2, <2>4
    <3> QED BY <1>1, <3>1, <3>2, RecordThere
  <2> HIDE DEF t, n, r
  <2>6. Follows(file, pos + n, <<Resume!I32(0)>>)
    <3>1. Len(Joined(o, t)) = Len(o) + Len(t)
      BY <2>3, JoinedAt
    <3> QED BY <2>2, <2>4, <2>5, <3>1, Zenon DEF Zero
  <2>7. pos + (n + 1) <= Len(file) /\ file[pos + (n + 1)].kind = "int" /\ Resume!Tok(n + 1) = 0
    <3>1. n + 1 \in Nat \ {0} /\ pos + n \in Nat /\ pos + (n + 1) = (pos + n) + 1
      BY <1>1, <2>5
    <3> QED BY <1>1, <2>6, <3>1, IntThere
  <2>8. Resume!Readable(Resume!ReturnKinds \o <<"int">>)
    BY <1>1, <2>5, <2>7, KindsExtended DEF n
  <2>9. phase' = "stack" /\ s' = x /\ part' = part
    <3>1. Resume!GoOn(n + 1, [s EXCEPT !.ip = r], "stack")
      BY <2>7, <2>8, Zenon DEF Resume!ParseIp, n, r
    <3> QED BY <3>1 DEF Resume!GoOn, WithIp
  <2> HIDE DEF x
  <2>10. x.ip = saved.ip /\ SameOpening(saved, x) /\ x.next_seq = 0 /\ x.funcs = <<>> /\ x.comments_only = saved.comments_only
    BY <1>1, <2>1, <2>5, SetIp DEF x, SameOpening
  <2>11. Agrees(phase)'
    BY <1>1, <2>1, <2>9, <2>10 DEF Agrees, Reading, SameIp, SameOpening
  <2> QED BY <1>1, <2>1, <2>11, WholeComesBack
<1>3. CASE IsHollow(saved) /\ HollowAt(phase)
  <2>1. pos = Len(file)
    BY <1>1, <1>3 DEF HollowAt
  <2>2. ~Resume!Readable(Resume!ReturnKinds \o <<"int">>)
    <3> SUFFICES ASSUME Resume!Readable(Resume!ReturnKinds \o <<"int">>) PROVE FALSE
      OBVIOUS
    <3>1. n \in Nat /\ pos + (n + 1) <= Len(file)
      BY <1>1, KindsAppended
    <3> HIDE DEF n
    <3> QED BY <1>1, <2>1, <3>1
  <2>3. Resume!End("off")
    BY <2>2, Zenon DEF Resume!ParseIp
  <2>4. HollowAt(phase)'
    BY <2>3 DEF Resume!End, HollowAt
  <2> QED BY <1>1, <1>3, <2>4 DEF ComesBack
<1> QED BY <1>2, <1>3 DEF ComesBack

LEMMA StackIsBack ==
  ASSUME ResumeInv, ComesBack, Resume!ParseStack, file' = file, mode' = mode, saved' = saved
  PROVE  ComesBack'
<1> DEFINE a == Resume!Array(1)
           x == WithStack(s, a)
           n == 1 + Resume!Tok(1)
<1>1. phase = "stack" /\ ReadOf(file, pos) = HeadIp(s)
  BY DEF Resume!ParseStack, ResumeInv, HasRead
<1>2. /\ file \in Seq(RTokens) /\ pos \in Nat /\ IsSave(s) /\ IsWhole(saved) /\ Ahead(saved, file)
      /\ file = Resume!FileOf(saved) /\ Agrees(phase) /\ mode = "all" /\ s.funcs = <<>> /\ s.comments_only = saved.comments_only
      /\ part = Resume!NOTHING /\ s.next_seq = 0
  BY <1>1, StillWhole
<1>3. SameIp(saved, s)
  BY <1>1, <1>2 DEF Agrees
<1>4. Len(HeadIp(saved)) = pos
  BY <1>1, <1>2, <1>3, SameHeads, ReadLength
<1>5. Resume!IsArray(1, "int") /\ a = saved.stack
  <2>1. Follows(file, pos, Resume!CountedTokens(Resume!I32s(saved.stack)))
    BY <1>2, <1>4 DEF Ahead
  <2>2. saved.stack \in Seq(Int)
    BY <1>2, WholeIs
  <2>3. 1 \in Nat \ {0} /\ pos + 1 = pos + 1
    OBVIOUS
  <2> QED BY <1>2, <2>1, <2>2, <2>3, IntsThere
<1>6. phase' = "frames" /\ s' = x /\ part' = part
  <2>1. Resume!GoOn(n, [s EXCEPT !.stack = a], "frames")
    BY <1>5, Zenon DEF Resume!ParseStack
  <2> QED BY <2>1 DEF Resume!GoOn, WithStack
<1> HIDE DEF x, a
<1>7. x.stack = saved.stack /\ SameIp(saved, x) /\ x.next_seq = 0 /\ x.funcs = <<>> /\ x.comments_only = saved.comments_only
  BY <1>2, <1>3, <1>5, SetStack DEF x, SameIp, SameOpening
<1>8. Agrees(phase)'
  BY <1>2, <1>6, <1>7 DEF Agrees, Reading, SameStack, SameIp, SameOpening
<1> QED BY <1>2, <1>8, WholeComesBack

LEMMA FramesIsBack ==
  ASSUME ResumeInv, ComesBack, Resume!ParseFrames, file' = file, mode' = mode, saved' = saved
  PROVE  ComesBack'
<1> DEFINE b == 1 + 1 + Resume!Tok(1)
           c == b + 1 + Resume!Tok(b)
           n == c + 1 + Resume!Tok(c)
           f == Resume!Frames(Resume!Array(1), Resume!Array(b), Resume!Array(c))
           k == Resume!Tok(n)
           x == WithFrames(s, f)
           t == Resume!FrameTokens(saved.frames)
           m == Len(saved.returns)
<1>1. phase = "frames" /\ ReadOf(file, pos) = HeadStack(s)
  BY DEF Resume!ParseFrames, ResumeInv, HasRead
<1>2. /\ file \in Seq(RTokens) /\ pos \in Nat /\ IsSave(s) /\ IsWhole(saved) /\ Ahead(saved, file)
      /\ file = Resume!FileOf(saved) /\ Agrees(phase) /\ mode = "all" /\ s.funcs = <<>> /\ s.comments_only = saved.comments_only
      /\ part = Resume!NOTHING /\ s.next_seq = 0
  BY <1>1, StillWhole
<1>3. SameStack(saved, s)
  BY <1>1, <1>2 DEF Agrees
<1>4. Len(HeadStack(saved)) = pos
  BY <1>1, <1>2, <1>3, SameHeads, ReadLength
<1>5. saved.frames \in Seq(CallFrames) /\ saved.returns \in Seq(ReturnRecords) /\ m \in Nat
  <2>1. saved.frames \in Seq(CallFrames) /\ saved.returns \in Seq(ReturnRecords)
    BY <1>2, WholeIs, Zenon
  <2> QED BY <2>1
<1>6. /\ Resume!IsArray(1, "int") /\ Resume!IsArray(b, "int") /\ Resume!IsArray(c, "int")
      /\ Resume!Tok(1) = Resume!Tok(b) /\ Resume!Tok(c) = Resume!Calls(Resume!Tok(b), Resume!Array(b))
      /\ f = saved.frames /\ n \in Nat \ {0} /\ n = Len(t) + 1
  <2>1. Follows(file, pos, Resume!FrameTokens(saved.frames))
    BY <1>2, <1>4 DEF Ahead
  <2>2. b = 1 + 1 + Resume!Tok(1) /\ c = b + 1 + Resume!Tok(b) /\ n = c + 1 + Resume!Tok(c)
    OBVIOUS
  <2> HIDE DEF b, c, n
  <2> DEFINE fs == saved.frames
  <2>3. fs \in Seq(CallFrames) /\ Follows(file, pos, Resume!FrameTokens(fs))
    BY <1>5, <2>1
  <2> HIDE DEF fs
  <2>4. /\ Resume!IsArray(1, "int") /\ Resume!IsArray(b, "int") /\ Resume!IsArray(c, "int")
        /\ Resume!Tok(1) = Resume!Tok(b) /\ Resume!Tok(c) = Resume!Calls(Resume!Tok(b), Resume!Array(b))
        /\ Resume!Frames(Resume!Array(1), Resume!Array(b), Resume!Array(c)) = fs
        /\ n \in Nat \ {0} /\ n = Len(Resume!FrameTokens(fs)) + 1
    BY <1>2, <2>2, <2>3, FramesThere
  <2> QED BY <2>4, Zenon DEF fs
<1>7. pos + n <= Len(file) /\ file[pos + n].kind = "int" /\ k = m
  <2>1. HeadStack(saved) \in Seq(RTokens) /\ t \in Seq(RTokens)
    BY <1>2, WholeIsTyped, Zenon DEF WholeTyped
  <2>2. Follows(file, Len(HeadFrames(saved)), <<Resume!I32(m)>>)
    BY <1>2, Zenon DEF Ahead
  <2> HIDE DEF t, n, k, m, f, c, b
  <2>3. Len(HeadFrames(saved)) = pos + Len(t) /\ Len(t) \in Nat
    <3>1. Len(Joined(HeadStack(saved), t)) = Len(HeadStack(saved)) + Len(t)
      BY <2>1, JoinedAt
    <3>2. HeadFrames(saved) = Joined(HeadStack(saved), t)
      BY Zenon DEF HeadFrames, t
    <3> QED BY <1>4, <2>1, <3>1, <3>2
  <2> DEFINE q == Len(HeadFrames(saved))
  <2>4. q \in Nat /\ pos + n = q + 1 /\ Follows(file, q, <<Resume!I32(m)>>)
    BY <1>2, <1>6, <2>2, <2>3
  <2> HIDE DEF q
  <2> QED BY <1>2, <1>6, <2>4, IntThere DEF k
<1>8. phase' = "returns" /\ s' = x /\ part' = part /\ left' = m
  <2>1. ~(pos + n > Len(file)) /\ ~(file[pos + n].kind # "int" \/ k < 0)
    <3> HIDE DEF n, k, m
    <3>1. Len(file) \in Nat
      BY <1>2
    <3>2. ~(pos + n > Len(file))
      BY <1>2, <1>6, <1>7, <3>1
    <3> QED BY <1>5, <1>7, <3>2
  <2>2. ~(Resume!Tok(1) # Resume!Tok(b) \/ Resume!Tok(c) # Resume!Calls(Resume!Tok(b), Resume!Array(b)))
    BY <1>6
  <2>3. /\ s' = [s EXCEPT !.frames = f] /\ left' = k /\ phase' = "returns" /\ UNCHANGED <<part, crash>>
    BY <1>6, <2>1, <2>2, Zenon DEF Resume!ParseFrames
  <2> QED BY <1>7, <2>3 DEF WithFrames
<1> HIDE DEF x, f, m
<1>9. /\ x.frames = saved.frames /\ SameStack(saved, x) /\ x.next_seq = 0 /\ x.funcs = <<>> /\ x.comments_only = saved.comments_only /\ x.returns = <<>>
  <2>1. s.returns = <<>>
    BY <1>1 DEF ResumeInv, Under
  <2> QED BY <1>2, <1>3, <1>6, <2>1, SetFrames DEF x, SameStack, SameIp, SameOpening
<1>10. Len(x.returns) + m = m /\ \A i \in 1 .. Len(x.returns) : FALSE
  BY <1>5, <1>9
<1>11. SameFrames(saved, x)
  BY <1>9 DEF SameFrames
<1>12. Agrees(phase)'
  BY <1>2, <1>8, <1>9, <1>10, <1>11 DEF Agrees, Reading, SameFrames, SameStack, SameIp, SameOpening, m
<1> QED BY <1>2, <1>12, WholeComesBack

\* Two sequences of the same entries.
LEMMA SeqsAreEqual ==
  ASSUME NEW S, NEW a, IsSeq(a), NEW b \in Seq(S), Len(a) = Len(b), \A i \in 1 .. Len(a) : a[i] = b[i]
  PROVE  a = b
<1> DEFINE n == Len(a)
<1>1. n \in Nat /\ a = [i \in 1 .. n |-> a[i]]
  BY SeqIs DEF IsSeq
<1>2. b = [i \in 1 .. Len(b) |-> b[i]]
  OBVIOUS
<1> HIDE DEF n
<1>3. [i \in 1 .. n |-> a[i]] = [i \in 1 .. n |-> b[i]]
  BY DEF n
<1> QED BY <1>1, <1>2, <1>3, Zenon DEF n

LEMMA ReturnedUpTo ==
  ASSUME NEW x, NEW y, NEW m \in Nat, m = Len(y.returns), NEW n \in Nat, n = Len(x.returns), m <= n,
         \A i \in 1 .. m : y.returns[i] = x.returns[i]
  PROVE  Returned(y) = UpTo(Returned(x), m)
<1> DEFINE r == Returned(x)
<1>1. \A i \in 1 .. m : r[i] = Resume!ReturnTokens(x.returns[i])
  BY DEF Returned
<1> HIDE DEF r
<1>2. UpTo(r, m) = [i \in 1 .. m |-> Resume!ReturnTokens(y.returns[i])]
  BY <1>1 DEF UpTo
<1>3. Returned(y) = [i \in 1 .. m |-> Resume!ReturnTokens(y.returns[i])]
  BY Zenon DEF Returned
<1> QED BY <1>2, <1>3, Zenon DEF r

LEMMA ReturnIsBack ==
  ASSUME ResumeInv, ComesBack, Resume!ParseReturn, file' = file, mode' = mode, saved' = saved
  PROVE  ComesBack'
<1> DEFINE r == Resume!ReturnRecord
           a == Append(s.returns, r)
           x == WithReturns(s, a)
           m == Len(s.returns)
           n == Len(saved.returns)
           z == saved.returns[m + 1]
<1>1. /\ phase = "returns" /\ left > 0 /\ left \in Nat /\ IsSeq(s.returns)
      /\ ReadOf(file, pos) = HeadReturns(s, m + left)
  BY DEF Resume!ParseReturn, ResumeInv, Under, HasRead
<1>2. /\ file \in Seq(RTokens) /\ pos \in Nat /\ IsSave(s) /\ IsWhole(saved) /\ Ahead(saved, file)
      /\ file = Resume!FileOf(saved) /\ Agrees(phase) /\ mode = "all" /\ s.funcs = <<>> /\ s.comments_only = saved.comments_only
      /\ part = Resume!NOTHING /\ s.next_seq = 0
  BY <1>1, StillWhole
<1>3. SameFrames(saved, s) /\ m + left = n /\ \A i \in 1 .. m : s.returns[i] = saved.returns[i]
  BY <1>1, <1>2 DEF Agrees
<1>4. saved.returns \in Seq(ReturnRecords)
  BY <1>2, WholeIs, Zenon
<1>5. m \in Nat /\ n \in Nat /\ m < n /\ m + 1 \in 1 .. n /\ z \in ReturnRecords
  <2>1. m \in Nat /\ n \in Nat
    BY <1>1, <1>4, SeqIs DEF IsSeq
  <2>2. m < n /\ m + 1 \in 1 .. n
    <3> HIDE DEF m, n
    <3> QED BY <1>1, <1>3, <2>1
  <2> QED BY <1>4, <2>1, <2>2
<1> HIDE DEF r, a, x, m, n
<1>6. Follows(file, pos, Resume!ReturnTokens(z))
  <2> DEFINE ss == Returned(saved)
             c == HeadCount(saved, n)
             b == HeadReturns(s, n)
  <2>1. ss \in Seq(Seq(RTokens)) /\ c \in Seq(RTokens)
    BY <1>2, WholeIsTyped, Zenon DEF WholeTyped, n
  <2>2. Begins(file, Joined(c, Flat(ss)))
    BY <1>2, Zenon DEF Ahead, HeadReturns, n
  <2>3. Len(ss) = n /\ ss[m + 1] = Resume!ReturnTokens(z)
    <3>1. ss = [i \in 1 .. n |-> Resume!ReturnTokens(saved.returns[i])]
      BY Zenon DEF Returned, n
    <3> HIDE DEF ss
    <3> QED BY <1>5, <2>1, <3>1
  <2>4. b = Joined(c, Flat(UpTo(ss, m)))
    <3>1. Returned(s) = UpTo(ss, m)
      <4>1. m <= n
        BY <1>5
      <4> QED BY <1>3, <1>5, <4>1, ReturnedUpTo DEF m, n
    <3>2. HeadCount(s, n) = c
      BY <1>3, SameCounts
    <3> QED BY <3>1, <3>2, Zenon DEF HeadReturns
  <2>5. Len(b) = pos
    <3>1. ReadOf(file, pos) = b
      BY <1>1, <1>3
    <3> QED BY <1>2, <3>1, ReadLength
  <2> HIDE DEF ss, c, b
  <2>6. Follows(file, Len(b), ss[m + 1])
    BY <1>5, <2>1, <2>2, <2>3, <2>4, NextEntry
  <2> QED BY <2>3, <2>5, <2>6, Zenon
<1> HIDE DEF z
<1>7. Resume!Readable(Resume!ReturnKinds) /\ r = z
  BY <1>2, <1>5, <1>6, RecordThere DEF r
<1>8. phase' = "returns" /\ s' = x /\ part' = part /\ left' = left - 1
  <2>1. /\ s' = [s EXCEPT !.returns = Append(@, r)] /\ left' = left - 1 /\ UNCHANGED <<phase, part, crash>>
    BY <1>7, Zenon DEF Resume!ParseReturn, r
  <2> QED BY <1>1, <2>1 DEF WithReturns, x, a
<1>9. x.returns = a /\ SameFrames(saved, x) /\ x.next_seq = 0 /\ x.funcs = <<>> /\ x.comments_only = saved.comments_only
  BY <1>2, <1>3, SetReturns DEF x, SameFrames, SameStack, SameIp, SameOpening
<1>10. /\ Len(a) = m + 1 /\ \A i \in 1 .. m : a[i] = s.returns[i]
       /\ a[m + 1] = r
  BY <1>1, SeqAppend DEF a, m
<1>11. Len(a) + (left - 1) = n /\ \A i \in 1 .. Len(a) : a[i] = saved.returns[i]
  <2>1. Len(a) + (left - 1) = n
    BY <1>1, <1>3, <1>5, <1>10
  <2>2. \A i \in 1 .. m + 1 : i = m + 1 \/ i \in 1 .. m
    BY <1>5
  <2>3. \A i \in 1 .. m + 1 : a[i] = saved.returns[i]
    BY <1>3, <1>7, <1>10, <2>2 DEF z
  <2> QED BY <1>10, <2>1, <2>3
<1>12. Agrees(phase)'
  BY <1>2, <1>8, <1>9, <1>11 DEF Agrees, Reading, n
<1> QED BY <1>2, <1>12, WholeComesBack

\* A read list is all of the list written when nothing is left.
LEMMA NothingLeft ==
  ASSUME NEW S, NEW a, IsSeq(a), NEW b \in Seq(S), Len(a) + left = Len(b), left = 0,
         \A i \in 1 .. Len(a) : a[i] = b[i]
  PROVE  a = b /\ Len(a) + left = Len(a)
<1>1. Len(a) \in Nat
  BY SeqIs DEF IsSeq
<1>2. Len(a) = Len(b) /\ Len(a) + left = Len(a)
  BY <1>1
<1> QED BY <1>2, SeqsAreEqual

\* Three zeros, the next sequence number from version 9 on, and a count.
LEMMA ZerosThere ==
  ASSUME file \in Seq(RTokens), pos \in Nat, NEW z \in {0, 1}, NEW q, NEW k \in Nat,
         Follows(file, pos, <<Zero, Zero, Zero>>),
         z = 1 => Follows(file, pos + 3, <<Resume!I32(q)>>), Follows(file, pos + 3 + z, <<Resume!I32(k)>>)
  PROVE  /\ Resume!Readable(Resume!Kinds(4 + z)) /\ Resume!Toks(1, 3) = <<0, 0, 0>>
         /\ z = 1 => Resume!Tok(4) = q
         /\ Resume!Tok(4 + z) = k /\ ~(Resume!Tok(4 + z) < 0)
<1> DEFINE a == <<Zero, Zero, Zero>>
           n == 4 + z
<1>1. Len(a) = 3 /\ a[1] = Zero /\ a[2] = Zero /\ a[3] = Zero
  OBVIOUS
<1>2. /\ file[pos + 1] = Zero /\ file[pos + 2] = Zero /\ file[pos + 3] = Zero
  <2>1. \A i \in 1 .. Len(a) : file[pos + i] = a[i]
    BY DEF Follows
  <2> HIDE DEF a
  <2>2. 1 \in 1 .. Len(a) /\ 2 \in 1 .. Len(a) /\ 3 \in 1 .. Len(a)
    BY <1>1
  <2> QED BY <1>1, <2>1, <2>2
<1>3. z = 1 => file[pos + 4].kind = "int" /\ Resume!Tok(4) = q
  <2> SUFFICES ASSUME z = 1 PROVE file[pos + 4].kind = "int" /\ Resume!Tok(4) = q
    OBVIOUS
  <2>1. 4 \in Nat \ {0} /\ pos + 3 \in Nat /\ pos + 4 = (pos + 3) + 1
    OBVIOUS
  <2> QED BY <2>1, IntThere
<1>4. n \in Nat \ {0} /\ pos + 3 + z \in Nat /\ pos + n = (pos + 3 + z) + 1
  OBVIOUS
<1> HIDE DEF n
<1>5. pos + n <= Len(file) /\ file[pos + n].kind = "int" /\ Resume!Tok(n) = k
  BY <1>4, IntThere
<1>6. Zero.kind = "int" /\ Zero.v = 0
  BY DEF Zero, Resume!I32
<1>7. \A i \in 1 .. n : file[pos + i].kind = "int"
  <2>1. \A i \in 1 .. n : i = 1 \/ i = 2 \/ i = 3 \/ i = n \/ (i = 4 /\ z = 1)
    BY DEF n
  <2> QED BY <1>2, <1>3, <1>5, <1>6, <2>1
<1>8. Resume!Readable(Resume!Kinds(n))
  <2> DEFINE c == Resume!Kinds(n)
  <2>1. c = [i \in 1 .. n |-> "int"]
    BY Zenon DEF Resume!Kinds
  <2> HIDE DEF c
  <2>2. Len(c) = n /\ \A i \in 1 .. n : c[i] = "int"
    BY <1>4, <2>1
  <2> QED BY <1>5, <1>7, <2>2 DEF Resume!Readable, c
<1>9. Resume!Toks(1, 3) = <<0, 0, 0>>
  <2> DEFINE t == Resume!Toks(1, 3)
  <2>1. t = [i \in 1 .. 3 |-> file[pos + (1 + i - 1)].v]
    BY Zenon DEF Resume!Toks, Resume!Tok
  <2>2. \A i \in 1 .. 3 : file[pos + (1 + i - 1)].v = 0
    <3>1. \A i \in 1 .. 3 : i = 1 \/ i = 2 \/ i = 3
      OBVIOUS
    <3>2. 1 + 1 - 1 = 1 /\ 1 + 2 - 1 = 2 /\ 1 + 3 - 1 = 3
      OBVIOUS
    <3> QED BY <1>2, <1>6, <3>1, <3>2
  <2>3. t = [i \in 1 .. 3 |-> 0]
    BY <2>1, <2>2
  <2>4. <<0, 0, 0>> = [i \in 1 .. 3 |-> 0]
    OBVIOUS
  <2> QED BY <2>3, <2>4, Zenon
<1>10. ~(Resume!Tok(n) < 0)
  BY <1>5
<1> QED BY <1>3, <1>5, <1>8, <1>9, <1>10, Zenon DEF n

LEMMA HeapIsBack ==
  ASSUME ResumeInv, ComesBack, Resume!StartHeap, file' = file, mode' = mode, saved' = saved
  PROVE  ComesBack'
<1> DEFINE z == IF s.version >= 9 THEN 1 ELSE 0
           v == IF z = 1 THEN Resume!Tok(4) ELSE 0
           x == WithNextSeq(s, v)
           n == Len(saved.returns)
           h == Len(saved.heap)
           a == <<Zero, Zero, Zero>>
           r == HeadReturns(saved, n)
           ra == Joined(r, a)
           q == SeqTokens(saved)
<1>1. /\ phase = "returns" /\ left = 0 /\ IsSeq(s.returns)
      /\ ReadOf(file, pos) = HeadReturns(s, Len(s.returns) + left) /\ s.heap = <<>>
  BY DEF Resume!StartHeap, ResumeInv, Under, HasRead
<1>2. /\ file \in Seq(RTokens) /\ pos \in Nat /\ IsSave(s) /\ IsWhole(saved) /\ Ahead(saved, file)
      /\ file = Resume!FileOf(saved) /\ Agrees(phase) /\ mode = "all" /\ s.funcs = <<>> /\ s.comments_only = saved.comments_only
      /\ part = Resume!NOTHING
  BY <1>1, StillWhole
<1>3. SameReturns(saved, s) /\ Len(s.returns) + left = n
  <2>1. /\ SameFrames(saved, s) /\ Len(s.returns) + left = n
        /\ \A i \in 1 .. Len(s.returns) : s.returns[i] = saved.returns[i]
    BY <1>1, <1>2 DEF Agrees
  <2>2. saved.returns \in Seq(ReturnRecords)
    BY <1>2, WholeIs, Zenon
  <2>3. s.returns = saved.returns
    BY <1>1, <2>1, <2>2, NothingLeft
  <2> QED BY <2>1, <2>3 DEF SameReturns
<1>4. s.version = saved.version
  BY <1>3 DEF SameReturns, SameFrames, SameStack, SameIp, SameOpening
<1>5. h \in Nat
  <2>1. saved.heap \in Seq({saved.heap[i] : i \in DOMAIN saved.heap})
    BY <1>2, WholeIs, Zenon
  <2> QED BY <2>1
<1>6. Len(r) = pos
  <2>1. ReadOf(file, pos) = r
    BY <1>1, <1>3, SameCounts
  <2> QED BY <1>2, <2>1, ReadLength
<1>7. z \in {0, 1} /\ (z = 1 <=> saved.version >= 9)
  BY <1>4
<1>8. q = IF z = 1 THEN <<Resume!I32(saved.next_seq)>> ELSE <<>>
  BY <1>7, Zenon DEF SeqTokens
<1>9. /\ r \in Seq(RTokens) /\ a \in Seq(RTokens) /\ q \in Seq(RTokens) /\ HeadSeq(saved) = Joined(ra, q)
  <2>1. r \in Seq(RTokens) /\ a \in Seq(RTokens) /\ q \in Seq(RTokens)
    BY <1>2, WholeIsTyped, Zenon DEF WholeTyped
  <2>2. HeadSeq(saved) = Joined(ra, q)
    BY Zenon DEF HeadSeq
  <2> QED BY <2>1, <2>2
<1>10. /\ Follows(file, Len(r), a) /\ Follows(file, Len(ra), q)
       /\ Follows(file, Len(HeadSeq(saved)), <<Resume!I32(h)>>)
  BY <1>2, Zenon DEF Ahead
<1>11. Len(a) = 3
  OBVIOUS
<1>12. Len(q) = z
  BY <1>7, <1>8
<1> HIDE DEF z, a, r, q, h, n
<1>13. Len(ra) = pos + 3 /\ ra \in Seq(RTokens)
  <2>1. Joined(r, a) \in Seq(RTokens) /\ Len(Joined(r, a)) = Len(r) + Len(a)
    BY <1>9, JoinedAt
  <2> QED BY <1>6, <1>11, <2>1
<1> HIDE DEF ra
<1>14. Len(HeadSeq(saved)) = pos + 3 + z
  <2>1. Len(Joined(ra, q)) = Len(ra) + Len(q)
    BY <1>9, <1>13, JoinedAt
  <2> QED BY <1>9, <1>12, <1>13, <2>1
<1>15. /\ Resume!Readable(Resume!Kinds(4 + z)) /\ Resume!Toks(1, 3) = <<0, 0, 0>>
       /\ z = 1 => Resume!Tok(4) = saved.next_seq
       /\ Resume!Tok(4 + z) = h /\ ~(Resume!Tok(4 + z) < 0)
  <2>1. Follows(file, pos, <<Zero, Zero, Zero>>)
    BY <1>6, <1>10 DEF a
  <2>2. z = 1 => Follows(file, pos + 3, <<Resume!I32(saved.next_seq)>>)
    BY <1>8, <1>10, <1>13
  <2>3. Follows(file, pos + 3 + z, <<Resume!I32(h)>>)
    BY <1>10, <1>14
  <2> QED BY <1>2, <1>5, <1>7, <2>1, <2>2, <2>3, ZerosThere
<1>16. v = saved.next_seq
  <2>1. CASE z = 1
    BY <1>15, <2>1
  <2>2. CASE z # 1
    <3>1. saved.next_seq \in IF saved.version >= 9 THEN Int ELSE {0}
      BY <1>2, WholeIs, Zenon
    <3>2. ~(saved.version >= 9)
      BY <1>7, <2>2
    <3>3. saved.next_seq = 0
      BY <3>1, <3>2
    <3> QED BY <2>2, <3>3
  <2> QED BY <2>1, <2>2
<1>17. phase' = "heap" /\ s' = x /\ part' = part /\ left' = h
  <2>1. /\ s' = [s EXCEPT !.next_seq = v] /\ left' = Resume!Tok(4 + z) /\ phase' = "heap" /\ UNCHANGED <<part, crash>>
    BY <1>15, Zenon DEF Resume!StartHeap, Resume!version, z
  <2> QED BY <1>15, <2>1 DEF WithNextSeq
<1> HIDE DEF v, x
<1>18. SameSeq(saved, x) /\ x.heap = <<>> /\ x.funcs = <<>> /\ x.comments_only = saved.comments_only
  BY <1>1, <1>2, <1>3, <1>16, SetNextSeq DEF x, SameSeq, SameReturns, SameFrames, SameStack, SameIp, SameOpening
<1>19. Len(x.heap) + h = h /\ \A i \in 1 .. Len(x.heap) : FALSE
  BY <1>5, <1>18
<1>20. Agrees(phase)'
  BY <1>2, <1>17, <1>18, <1>19 DEF Agrees, Reading, h
<1> QED BY <1>2, <1>20, WholeComesBack

\* An object that is written, when it is no null object.
IsLive(v, o) ==
  LET l == Len(Resume!Layout(v, o.tag))
      f == FieldsOf(v, o, l)
  IN  /\ HasTag(v, o.tag) /\ l \in Nat /\ HasFields(v, o, l)
      /\ DOMAIN o = {"tag"} \cup {NameOf(v, o.tag, j) : j \in 1 .. l}
      /\ o = [g \in DOMAIN o |-> o[g]]
      /\ f \in Seq(Seq(RTokens)) /\ Len(f) = l /\ <<Resume!I32(o.tag)>> \in Seq(RTokens)
      /\ Resume!ObjectTokens(v, o) = Joined(<<Resume!I32(o.tag)>>, Flat(f))

LEMMA LiveObject ==
  ASSUME NEW v \in Versions, NEW o, IsObject(v, o), o # [tag |-> Resume!RSAVE_NULL]
  PROVE  IsLive(v, o)
<1> DEFINE l == Resume!Layout(v, o.tag)
           n == Len(l)
           f == FieldsOf(v, o, n)
           D == {"tag"} \cup {l[i][1] : i \in 1 .. n}
<1>1. /\ o.tag \in Resume!RSAVE_GLOBALS .. Resume!RSAVE_DELEGATE
      /\ o.tag = Resume!RSAVE_DELEGATE => v >= 9
      /\ o = [g \in D |-> o[g]]
      /\ \A i \in 1 .. n : o[l[i][1]] \in FieldValues[l[i][2]]
  BY Zenon DEF IsObject
<1>2. HasTag(v, o.tag) /\ o.tag \in Int
  <2>1. /\ o.tag \in Resume!RSAVE_GLOBALS .. Resume!RSAVE_DELEGATE
        /\ o.tag = Resume!RSAVE_DELEGATE => v >= 9
    BY <1>1
  <2> QED BY <2>1, TagsAre DEF HasTag
<1>3. HasFields(v, o, n)
  BY <1>1, Zenon DEF HasFields, NameOf, KindOf
<1>4. n \in Nat
  BY <1>2, LayoutMatches DEF Matching
<1>5. Resume!ObjectTokens(v, o) = Joined(<<Resume!I32(o.tag)>>, Flat(f))
  BY <1>2, ObjectIs
<1>6. f \in Seq(Seq(RTokens)) /\ Len(f) = n
  <2>1. n <= n
    BY <1>4
  <2> QED BY <1>2, <1>3, <1>4, <2>1, FieldsTyped
<1>7. <<Resume!I32(o.tag)>> \in Seq(RTokens)
  BY <1>2, ResumeTokens, OneToken
<1>8. D = {"tag"} \cup {NameOf(v, o.tag, j) : j \in 1 .. n}
  BY Zenon DEF NameOf
<1> HIDE DEF D, f, n
<1>9. DOMAIN o = D
  <2>1. DOMAIN [g \in D |-> o[g]] = D
    OBVIOUS
  <2> QED BY <1>1, <2>1, Zenon
<1>10. o = [g \in DOMAIN o |-> o[g]]
  BY <1>1, <1>9, Zenon
<1> QED BY <1>2, <1>3, <1>4, <1>5, <1>6, <1>7, <1>8, <1>9, <1>10, Zenon DEF IsLive, f, n

LEMMA ObjectsUpTo ==
  ASSUME NEW x, NEW y, y.version = x.version, NEW m \in Nat, m = Len(y.heap), NEW n \in Nat, n = Len(x.heap), m <= n,
         \A i \in 1 .. m : y.heap[i] = x.heap[i]
  PROVE  Objects(y) = UpTo(Objects(x), m)
<1> DEFINE r == Objects(x)
<1>1. \A i \in 1 .. m : r[i] = Resume!ObjectTokens(x.version, x.heap[i])
  BY DEF Objects
<1> HIDE DEF r
<1>2. UpTo(r, m) = [i \in 1 .. m |-> Resume!ObjectTokens(y.version, y.heap[i])]
  BY <1>1 DEF UpTo
<1>3. Objects(y) = [i \in 1 .. m |-> Resume!ObjectTokens(y.version, y.heap[i])]
  BY Zenon DEF Objects
<1> QED BY <1>2, <1>3, Zenon DEF r

\* The object that is read next, or under way, and what was read before it.
NextObject == saved.heap[Len(s.heap) + 1]

HeadNow == HeadHeap(s, Len(s.heap) + left)

LEMMA HeapAhead ==
  ASSUME ResumeInv, ComesBack, phase = "heap", left > 0
  PROVE  /\ IsObject(s.version, NextObject) /\ HeadNow \in Seq(RTokens)
         /\ Resume!ObjectTokens(s.version, NextObject) \in Seq(RTokens)
         /\ Begins(file, Joined(HeadNow, Resume!ObjectTokens(s.version, NextObject)))
<1> DEFINE m == Len(s.heap)
           n == Len(saved.heap)
           z == saved.heap[m + 1]
           ss == Objects(saved)
           c == HeadSize(saved, n)
           b == HeadHeap(s, n)
<1>1. left \in Nat /\ IsSeq(s.heap)
  BY DEF ResumeInv, Under
<1>2. /\ file \in Seq(RTokens) /\ IsWhole(saved) /\ Ahead(saved, file) /\ Agrees(phase)
  BY StillWhole
<1>3. SameSeq(saved, s) /\ m + left = n /\ \A i \in 1 .. m : s.heap[i] = saved.heap[i]
  BY <1>2 DEF Agrees
<1>4. s.version = saved.version
  BY <1>3 DEF SameSeq, SameReturns, SameFrames, SameStack, SameIp, SameOpening
<1>5. m \in Nat /\ n \in Nat /\ m < n /\ m + 1 \in 1 .. n
  <2>1. saved.heap \in Seq({saved.heap[i] : i \in DOMAIN saved.heap})
    BY <1>2, WholeIs, Zenon
  <2>2. m \in Nat /\ n \in Nat
    BY <1>1, <2>1, SeqIs DEF IsSeq
  <2> HIDE DEF m, n
  <2> QED BY <1>1, <1>3, <2>2
<1>6. IsObject(s.version, z)
  <2>1. \A i \in 1 .. Len(saved.heap) : IsObject(saved.version, saved.heap[i])
    BY <1>2, WholeIs, Zenon
  <2> QED BY <1>4, <1>5, <2>1, Zenon
<1> HIDE DEF m, n
<1>7. ss \in Seq(Seq(RTokens)) /\ c \in Seq(RTokens)
  BY <1>2, WholeIsTyped, Zenon DEF WholeTyped, n
<1>8. Begins(file, Joined(c, Flat(ss)))
  BY <1>2, Zenon DEF Ahead, HeadHeap, n
<1>9. Len(ss) = n /\ ss[m + 1] = Resume!ObjectTokens(saved.version, z)
  <2>1. ss = [i \in 1 .. n |-> Resume!ObjectTokens(saved.version, saved.heap[i])]
    BY Zenon DEF Objects, n
  <2> HIDE DEF ss
  <2> QED BY <1>5, <1>7, <2>1
<1>10. b = Joined(c, Flat(UpTo(ss, m)))
  <2>1. Objects(s) = UpTo(ss, m)
    <3>1. m <= n
      BY <1>5
    <3> QED BY <1>3, <1>4, <1>5, <3>1, ObjectsUpTo DEF m, n
  <2>2. HeadSize(s, n) = c
    BY <1>3, SameCounts
  <2> QED BY <2>1, <2>2, Zenon DEF HeadHeap
<1> HIDE DEF ss, c, b, z
<1>11. b \in Seq(RTokens) /\ ss[m + 1] \in Seq(RTokens) /\ Begins(file, Joined(b, ss[m + 1]))
  BY <1>5, <1>7, <1>8, <1>9, <1>10, NextEntry
<1>12. HeadNow = b /\ NextObject = z
  BY <1>3, Zenon DEF HeadNow, NextObject, b, m, z
<1> QED BY <1>4, <1>6, <1>9, <1>11, <1>12, Zenon

\* The whole object was read.
LEMMA ObjectComesBack ==
  ASSUME ResumeInv, ComesBack, phase = "heap", left > 0, s' = WithHeap(s, Append(s.heap, NextObject)),
         left' = left - 1, phase' = "heap", part' = Resume!NOTHING,
         file' = file, mode' = mode, saved' = saved
  PROVE  ComesBack'
<1> DEFINE m == Len(s.heap)
           n == Len(saved.heap)
           z == NextObject
           a == Append(s.heap, z)
           x == WithHeap(s, a)
<1>1. left \in Nat /\ IsSeq(s.heap)
  BY DEF ResumeInv, Under
<1>2. /\ IsWhole(saved) /\ Agrees(phase) /\ mode = "all" /\ s.funcs = <<>> /\ s.comments_only = saved.comments_only
      /\ IsSave(s) /\ file = Resume!FileOf(saved)
  BY StillWhole
<1>3. SameSeq(saved, s) /\ m + left = n /\ \A i \in 1 .. m : s.heap[i] = saved.heap[i]
  BY <1>2 DEF Agrees
<1>4. m \in Nat
  BY <1>1, SeqIs DEF IsSeq
<1> HIDE DEF m, n, a, x
<1>5. z = saved.heap[m + 1]
  BY DEF NextObject, m
<1> HIDE DEF z
<1>6. /\ x.heap = a /\ SameSeq(saved, x) /\ x.funcs = <<>> /\ x.comments_only = saved.comments_only
  BY <1>2, <1>3, SetHeap DEF x, SameSeq, SameReturns, SameFrames, SameStack, SameIp, SameOpening
<1>7. Len(a) = m + 1 /\ a[m + 1] = z /\ \A i \in 1 .. m : a[i] = s.heap[i]
  BY <1>1, SeqAppend DEF a, m
<1>8. Len(a) + (left - 1) = n /\ \A i \in 1 .. Len(a) : a[i] = saved.heap[i]
  <2>1. Len(a) + (left - 1) = n
    BY <1>1, <1>3, <1>4, <1>7
  <2>2. \A i \in 1 .. m + 1 : i = m + 1 \/ i \in 1 .. m
    BY <1>4
  <2>3. \A i \in 1 .. m + 1 : a[i] = saved.heap[i]
    BY <1>3, <1>5, <1>7, <2>2
  <2> QED BY <1>7, <2>1, <2>3
<1>9. s' = x
  BY DEF x, a, z
<1>10. Agrees(phase)'
  BY <1>2, <1>6, <1>8, <1>9 DEF Agrees, Reading, n
<1> QED BY <1>2, <1>10, WholeComesBack

LEMMA ObjectIsBack ==
  ASSUME ResumeInv, ComesBack, Resume!StartObject, file' = file, mode' = mode, saved' = saved
  PROVE  ComesBack'
<1> DEFINE v == s.version
           z == NextObject
           o == Resume!ObjectTokens(v, z)
           tag == z.tag
           null == [tag |-> Resume!RSAVE_NULL]
           a == <<Resume!I32(tag)>>
<1>1. phase = "heap" /\ part = Resume!NOTHING /\ left > 0 /\ ReadOf(file, pos) = HeadNow
  BY DEF Resume!StartObject, ResumeInv, HasRead, HeadNow
<1>2. /\ file \in Seq(RTokens) /\ pos \in Nat /\ IsWhole(saved) /\ Agrees(phase) /\ mode = "all"
      /\ s.funcs = <<>> /\ s.comments_only = saved.comments_only /\ v \in Versions /\ file = Resume!FileOf(saved)
  BY <1>1, StillWhole
<1>3. IsObject(v, z) /\ o \in Seq(RTokens) /\ HeadNow \in Seq(RTokens) /\ Begins(file, Joined(HeadNow, o))
  BY <1>1, HeapAhead
<1>4. Follows(file, pos, o)
  <2>1. Len(HeadNow) = pos
    BY <1>1, <1>2, ReadLength
  <2> HIDE DEF o
  <2> QED BY <1>3, <2>1, BeginsLess
<1> HIDE DEF z, o, v
<1>5. CASE z = null
  <2>1. o = <<Resume!I32(Resume!RSAVE_NULL)>>
    BY <1>5, NullObject, Zenon DEF o
  <2>2. Resume!Readable(<<"int">>) /\ Resume!Tok(1) = Resume!RSAVE_NULL
    BY <1>2, <1>4, <2>1, NextIntThere
  <2>3. ~(Resume!Tok(1) \notin Resume!RSAVE_NULL .. Resume!RSAVE_DELEGATE)
        /\ ~(Resume!Tok(1) = Resume!RSAVE_DELEGATE)
    BY <2>2, TagsAre
  <2>4. /\ s' = [s EXCEPT !.heap = Append(@, null)] /\ left' = left - 1
        /\ UNCHANGED part /\ UNCHANGED <<phase, crash>>
    BY <2>2, <2>3, Zenon DEF Resume!StartObject, Resume!version
  <2>5. s' = WithHeap(s, Append(s.heap, z)) /\ left' = left - 1 /\ phase' = "heap" /\ part' = Resume!NOTHING
    BY <1>1, <1>5, <2>4 DEF WithHeap
  <2> QED BY <1>1, <2>5, ObjectComesBack DEF z
<1>6. CASE z # null
  <2>1. IsLive(v, z)
    BY <1>2, <1>3, <1>6, LiveObject
  <2> DEFINE f == FieldsOf(v, z, Len(Resume!Layout(v, tag)))
  <2>2. /\ HasTag(v, tag) /\ a \in Seq(RTokens) /\ f \in Seq(Seq(RTokens)) /\ o = Joined(a, Flat(f))
        /\ DOMAIN z = {"tag"} \cup {NameOf(v, tag, j) : j \in 1 .. Len(Resume!Layout(v, tag))}
    BY <2>1, Zenon DEF IsLive, o
  <2> HIDE DEF f, a
  <2>3. Follows(file, pos, a)
    <3>1. Flat(f) \in Seq(RTokens)
      BY <2>2, FlatInSeq
    <3> QED BY <1>2, <1>4, <2>2, <3>1, FollowsLess
  <2>4. Resume!Readable(<<"int">>) /\ Resume!Tok(1) = tag
    BY <1>2, <2>3, NextIntThere DEF a
  <2> HIDE DEF tag
  <2>5. /\ ~(Resume!Tok(1) \notin Resume!RSAVE_NULL .. Resume!RSAVE_DELEGATE)
        /\ ~(Resume!Tok(1) = Resume!RSAVE_DELEGATE /\ v < 9) /\ Resume!Tok(1) # Resume!RSAVE_NULL
    BY <2>2, <2>4, TagsAre DEF HasTag, Versions
  <2>6. part' = [tag |-> tag] /\ UNCHANGED <<s, left>> /\ UNCHANGED <<phase, crash>>
    BY <2>4, <2>5, Zenon DEF Resume!StartObject, Resume!version, v
  <2>7. [tag |-> tag] = [g \in {"tag"} |-> z[g]]
    BY DEF tag
  <2>8. part' = [g \in DOMAIN part' |-> z[g]]
    BY <2>6, <2>7
  <2>9. PartOf(NextObject)'
    BY <2>6, <2>8, Zenon DEF PartOf, NextObject, z
  <2>10. Agrees(phase)'
    <3>1. /\ SameSeq(saved, s) /\ Len(s.heap) + left = Len(saved.heap)
          /\ \A i \in 1 .. Len(s.heap) : s.heap[i] = saved.heap[i]
      BY <1>1, <1>2 DEF Agrees
    <3>2. s' = s /\ left' = left /\ phase' = "heap"
      BY <1>1, <2>6
    <3> QED BY <1>2, <2>9, <3>1, <3>2 DEF Agrees, Reading, NextObject
  <2> QED BY <1>2, <2>10, WholeComesBack
<1> QED BY <1>5, <1>6

\* The object under way is the one that was written.
LEMMA PartIsLive ==
  ASSUME ResumeInv, ComesBack, phase = "heap", part # Resume!NOTHING
  PROVE  /\ IsLive(s.version, NextObject) /\ part.tag = NextObject.tag /\ PartOf(NextObject)
         /\ SameSeq(saved, s) /\ Len(s.heap) + left = Len(saved.heap)
         /\ \A i \in 1 .. Len(s.heap) : s.heap[i] = saved.heap[i]
<1> DEFINE v == s.version
           z == NextObject
<1>1. /\ IsPart(v, part, AtPart) /\ left > 0 /\ v \in Versions
  BY PartRead
<1>2. /\ SameSeq(saved, s) /\ Len(s.heap) + left = Len(saved.heap)
      /\ \A i \in 1 .. Len(s.heap) : s.heap[i] = saved.heap[i]
      /\ PartOf(z)
  <2>1. Agrees(phase)
    BY StillWhole
  <2> QED BY <2>1 DEF Agrees, NextObject
<1>3. HasTag(v, part.tag) /\ "tag" \in DOMAIN part
  BY <1>1 DEF IsPart
<1> HIDE DEF z, v
<1>4. part.tag = z.tag
  BY <1>2, <1>3 DEF PartOf
<1>5. z # [tag |-> Resume!RSAVE_NULL]
  BY <1>3, <1>4, TagsAre DEF HasTag
<1>6. IsObject(v, z)
  BY <1>1, HeapAhead DEF v, z
<1>7. IsLive(v, z)
  BY <1>1, <1>5, <1>6, LiveObject
<1> QED BY <1>2, <1>4, <1>7 DEF v, z

\* The fields read so far are the first ones written.
LEMMA FieldsUpTo ==
  ASSUME NEW v, NEW p, NEW z, NEW n \in Nat, NEW m \in Nat, m <= n, p.tag = z.tag,
         p = [f \in DOMAIN p |-> z[f]], {NameOf(v, p.tag, j) : j \in 1 .. m} \subseteq DOMAIN p
  PROVE  FieldsOf(v, p, m) = UpTo(FieldsOf(v, z, n), m)
<1> DEFINE F == FieldsOf(v, z, n)
<1>1. \A j \in 1 .. m : p[NameOf(v, p.tag, j)] = z[NameOf(v, z.tag, j)]
  OBVIOUS
<1>2. \A j \in 1 .. m : F[j] = FieldToks(KindOf(v, z.tag, j), z[NameOf(v, z.tag, j)])
  BY DEF FieldsOf
<1> HIDE DEF F
<1>3. FieldsOf(v, p, m) = [j \in 1 .. m |-> FieldToks(KindOf(v, z.tag, j), z[NameOf(v, z.tag, j)])]
  BY <1>1 DEF FieldsOf
<1>4. UpTo(F, m) = [j \in 1 .. m |-> FieldToks(KindOf(v, z.tag, j), z[NameOf(v, z.tag, j)])]
  BY <1>2 DEF UpTo
<1> QED BY <1>3, <1>4, Zenon DEF F

LEMMA FieldIsBack ==
  ASSUME ResumeInv, ComesBack, Resume!ParseField, file' = file, mode' = mode, saved' = saved
  PROVE  ComesBack'
<1> DEFINE m == AtPart
           v == s.version
           z == NextObject
           tag == z.tag
           layout == Resume!Layout(v, part.tag)
           L == Len(Resume!Layout(v, tag))
           i == Resume!Cardinality(DOMAIN part)
           name == NameOf(v, part.tag, i)
           kind == KindOf(v, part.tag, i)
           a == <<Resume!I32(tag)>>
           F == FieldsOf(v, z, L)
           c == Joined(HeadNow, a)
<1>1. /\ phase = "heap" /\ part # Resume!NOTHING /\ i <= Len(layout)
  BY Zenon DEF Resume!ParseField, Resume!version
<1>2. /\ file \in Seq(RTokens) /\ pos \in Nat /\ IsPart(v, part, m) /\ m \in Nat /\ left > 0
      /\ ReadOf(file, pos) = Joined(Joined(HeadNow, <<Resume!I32(part.tag)>>), Flat(FieldsOf(v, part, m)))
  BY <1>1, PartRead DEF HeadNow
<1>3. /\ IsLive(v, z) /\ part.tag = tag /\ PartOf(z)
      /\ SameSeq(saved, s) /\ Len(s.heap) + left = Len(saved.heap)
      /\ \A k \in 1 .. Len(s.heap) : s.heap[k] = saved.heap[k]
  BY <1>1, PartIsLive
<1>4. /\ IsWhole(saved) /\ mode = "all" /\ s.funcs = <<>> /\ s.comments_only = saved.comments_only
      /\ file = Resume!FileOf(saved)
  BY <1>1, StillWhole
<1>5. i = m + 1 /\ HasTag(v, part.tag) /\ DOMAIN part = {"tag"} \cup {NameOf(v, part.tag, j) : j \in 1 .. m}
  <2>1. /\ Cardinality(DOMAIN part) = m + 1 /\ HasTag(v, part.tag)
        /\ DOMAIN part = {"tag"} \cup {NameOf(v, part.tag, j) : j \in 1 .. m}
    BY <1>2 DEF IsPart
  <2> QED BY <2>1, CardinalityIs
<1>6. /\ L \in Nat /\ HasFields(v, z, L) /\ F \in Seq(Seq(RTokens)) /\ Len(F) = L /\ a \in Seq(RTokens)
      /\ Resume!ObjectTokens(v, z) = Joined(a, Flat(F))
      /\ DOMAIN z = {"tag"} \cup {NameOf(v, tag, j) : j \in 1 .. L}
  BY <1>3, Zenon DEF IsLive
<1>7. /\ HeadNow \in Seq(RTokens) /\ Begins(file, Joined(HeadNow, Joined(a, Flat(F))))
  <2>1. HeadNow \in Seq(RTokens) /\ Begins(file, Joined(HeadNow, Resume!ObjectTokens(v, z)))
    BY <1>1, <1>2, HeapAhead
  <2> QED BY <1>6, <2>1, Zenon
<1>8. m < L /\ i \in 1 .. L
  <2>1. m + 1 <= L
    BY <1>1, <1>3, <1>5
  <2> HIDE DEF m, L, i
  <2> QED BY <1>2, <1>5, <1>6, <2>1
<1> HIDE DEF m, L, i
<1>9. FieldsOf(v, part, m) = UpTo(F, m)
  <2>1. {NameOf(v, part.tag, j) : j \in 1 .. m} \subseteq DOMAIN part
    BY <1>5
  <2>2. part = [f \in DOMAIN part |-> z[f]]
    BY <1>3, Zenon DEF PartOf
  <2>3. m <= L
    BY <1>2, <1>6, <1>8
  <2> HIDE DEF z
  <2> QED BY <1>2, <1>3, <1>6, <2>1, <2>2, <2>3, FieldsUpTo
<1>10. F[m + 1] = FieldToks(kind, z[name])
  <2>1. F = [j \in 1 .. L |-> FieldToks(KindOf(v, z.tag, j), z[NameOf(v, z.tag, j)])]
    BY Zenon DEF FieldsOf
  <2> HIDE DEF F, z
  <2>2. F[i] = FieldToks(KindOf(v, z.tag, i), z[NameOf(v, z.tag, i)])
    BY <1>8, <2>1
  <2> QED BY <1>3, <1>5, <2>2
<1>11. kind \in FieldKinds /\ z[name] \in FieldValues[kind]
  <2>1. Matching(layout, Resume!Written(v, part.tag))
    BY <1>5, LayoutMatches
  <2>2. kind \in FieldKinds
    BY <1>3, <1>8, <2>1 DEF Matching, KindOf, L
  <2>3. z[name] \in FieldValues[kind]
    BY <1>3, <1>6, <1>8 DEF HasFields
  <2> QED BY <2>2, <2>3
<1> HIDE DEF F, a, name, kind
<1>12. Follows(file, pos, FieldToks(kind, z[name]))
  <2>1. Flat(F) \in Seq(RTokens)
    BY <1>6, FlatInSeq
  <2>2. c \in Seq(RTokens) /\ Joined(HeadNow, Joined(a, Flat(F))) = Joined(c, Flat(F))
    BY <1>6, <1>7, <2>1, JoinedAssoc, JoinedTyped
  <2>3. Joined(c, Flat(UpTo(F, m))) = ReadOf(file, pos)
    BY <1>2, <1>3, <1>9, Zenon DEF a
  <2> HIDE DEF c
  <2>4. Follows(file, Len(ReadOf(file, pos)), F[m + 1])
    BY <1>2, <1>6, <1>7, <1>8, <2>2, <2>3, NextEntry
  <2>5. Len(ReadOf(file, pos)) = pos
    BY <1>2, ReadLength
  <2> QED BY <1>10, <2>4, <2>5
<1>13. \E n : Resume!TakeField(n, name, z[name])
  BY <1>2, <1>11, <1>12, FieldThere DEF i, name, kind
<1>14. PICK n : Resume!TakeField(n, name, z[name])
  BY <1>13
<1>15. /\ part' = [f \in DOMAIN part \cup {name} |-> IF f = name THEN z[name] ELSE part[f]]
       /\ phase' = phase /\ left' = left /\ s' = s
  BY <1>14 DEF Resume!TakeField
<1>16. part' = [f \in DOMAIN part' |-> z[f]]
  <2>1. part = [f \in DOMAIN part |-> z[f]]
    BY <1>3, Zenon DEF PartOf
  <2>2. \A f \in DOMAIN part : part[f] = z[f]
    BY <2>1
  <2> HIDE DEF z
  <2>3. part' = [f \in DOMAIN part \cup {name} |-> z[f]]
    BY <1>15, <2>2
  <2> QED BY <2>3
<1>17. PartOf(NextObject)'
  BY <1>15, <1>16, Zenon DEF PartOf, NextObject, z
<1>18. Agrees(phase)'
  BY <1>1, <1>3, <1>4, <1>15, <1>17 DEF Agrees, Reading, NextObject
<1> QED BY <1>4, <1>18, WholeComesBack

LEMMA ObjectDoneIsBack ==
  ASSUME ResumeInv, ComesBack, Resume!FinishObject, file' = file, mode' = mode, saved' = saved
  PROVE  ComesBack'
<1> DEFINE m == AtPart
           v == s.version
           z == NextObject
           L == Len(Resume!Layout(v, part.tag))
<1>1. /\ phase = "heap" /\ part # Resume!NOTHING /\ Resume!Cardinality(DOMAIN part) > L
      /\ s' = [s EXCEPT !.heap = Append(@, part)] /\ part' = Resume!NOTHING /\ left' = left - 1
      /\ phase' = phase
  BY DEF Resume!FinishObject, Resume!version
<1>2. IsPart(v, part, m) /\ left > 0
  BY <1>1, PartRead
<1>3. IsLive(v, z) /\ part.tag = z.tag /\ PartOf(z)
  BY <1>1, PartIsLive
<1>4. m = L
  <2>1. HasTag(v, part.tag) /\ m \in 0 .. L /\ Cardinality(DOMAIN part) = m + 1
    BY <1>2 DEF IsPart
  <2>2. m + 1 > L
    BY <1>1, <2>1, CardinalityIs
  <2>3. L \in Nat
    BY <2>1, LayoutMatches DEF Matching
  <2> HIDE DEF m, L
  <2> QED BY <2>1, <2>2, <2>3
<1>5. DOMAIN part = {"tag"} \cup {NameOf(v, part.tag, j) : j \in 1 .. L}
  BY <1>2, <1>4 DEF IsPart
<1>6. /\ DOMAIN z = {"tag"} \cup {NameOf(v, z.tag, j) : j \in 1 .. Len(Resume!Layout(v, z.tag))}
      /\ z = [g \in DOMAIN z |-> z[g]]
  BY <1>3, Zenon DEF IsLive
<1>7. part = [f \in DOMAIN part |-> z[f]]
  BY <1>3, Zenon DEF PartOf
<1> HIDE DEF z
<1>8. part = z
  <2>1. DOMAIN part = DOMAIN z
    BY <1>3, <1>5, <1>6
  <2> QED BY <1>6, <1>7, <2>1, Zenon
<1>9. s' = WithHeap(s, Append(s.heap, NextObject)) /\ phase' = "heap"
  BY <1>1, <1>8 DEF WithHeap, z
<1> QED BY <1>1, <1>2, <1>9, ObjectComesBack

\* The heap that was read is the heap written.
LEMMA HeapIsAll ==
  ASSUME ResumeInv, ComesBack, phase = "heap", part = Resume!NOTHING, left = 0
  PROVE  SameHeap(saved, s) /\ Follows(file, pos, FuncTokens(saved)) /\ Len(file) = pos + Len(FuncTokens(saved))
<1> DEFINE h == Len(saved.heap)
<1>1. /\ IsSeq(s.heap) /\ ReadOf(file, pos) = HeadHeap(s, Len(s.heap) + left)
  BY DEF ResumeInv, Under, HasRead
<1>2. IsWhole(saved) /\ Ahead(saved, file) /\ Agrees(phase) /\ pos \in Nat
  BY StillWhole
<1>3. /\ SameSeq(saved, s) /\ Len(s.heap) + left = h
      /\ \A i \in 1 .. Len(s.heap) : s.heap[i] = saved.heap[i]
  BY <1>2 DEF Agrees
<1>4. saved.heap \in Seq({saved.heap[i] : i \in DOMAIN saved.heap})
  BY <1>2, WholeIs, Zenon
<1>5. s.heap = saved.heap
  BY <1>1, <1>3, <1>4, NothingLeft
<1> HIDE DEF h
<1>6. SameHeap(saved, s)
  BY <1>3, <1>5 DEF SameHeap
<1>7. HeadHeap(s, h) = HeadHeap(saved, h)
  BY <1>6, SameCounts
<1>8. Len(HeadHeap(saved, h)) = pos
  BY <1>1, <1>2, <1>3, <1>7, ReadLength
<1>9. /\ Follows(file, Len(HeadHeap(saved, h)), FuncTokens(saved))
      /\ Len(file) = Len(HeadHeap(saved, h)) + Len(FuncTokens(saved))
  BY <1>2, Zenon DEF Ahead, h
<1> QED BY <1>6, <1>8, <1>9

LEMMA FinishIsBack ==
  ASSUME ResumeInv, ComesBack, Resume!Finish, file' = file, mode' = mode, saved' = saved
  PROVE  ComesBack'
<1> DEFINE a == Resume!Array(1)
           x == WithFuncs(s, a)
           n == 1 + Resume!Tok(1)
           v == saved.version
           t == FuncTokens(saved)
<1>1. phase = "heap" /\ part = Resume!NOTHING /\ left = 0
  BY DEF Resume!Finish
<1>2. /\ file \in Seq(RTokens) /\ pos \in Nat /\ IsSave(s) /\ IsWhole(saved) /\ ~s.comments_only
      /\ file = Resume!FileOf(saved) /\ mode = "all" /\ s.funcs = <<>> /\ s.comments_only = saved.comments_only
  BY <1>1, StillWhole
<1>3. SameHeap(saved, s) /\ Follows(file, pos, t) /\ Len(file) = pos + Len(t)
  BY <1>1, HeapIsAll
<1>4. s.version = v
  BY <1>3 DEF SameHeap, SameSeq, SameReturns, SameFrames, SameStack, SameIp, SameOpening
<1>5. /\ v \in {4, 6, 7, 9} /\ saved.funcs \in IF v >= 6 THEN Seq(STRING) ELSE {<<>>}
      /\ IsSave(saved)
  BY <1>2, WholeIs, WholeIsSave
<1>6. CASE ~(v >= 6)
  <2>1. t = <<>>
    BY <1>6, Zenon DEF FuncTokens
  <2>2. Resume!AtEnd(0)
    BY <1>2, <1>3, <2>1 DEF Resume!AtEnd
  <2>3. s.version < 6
    BY <1>4, <1>5, <1>6
  <2>4. Resume!GoOn(0, s, "done")
    BY <2>2, <2>3, Zenon DEF Resume!Finish, Resume!version
  <2>5. s' = s /\ phase' = "done"
    BY <2>4 DEF Resume!GoOn
  <2>6. saved.funcs = <<>>
    BY <1>5, <1>6
  <2>7. s = saved
    BY <1>2, <1>3, <1>5, <2>6, SavesAreEqual
  <2>8. Agrees(phase)'
    BY <1>2, <2>5, <2>7 DEF Agrees, Reading
  <2> QED BY <1>2, <2>8, WholeComesBack
<1>7. CASE v >= 6
  <2>1. t = Resume!CountedTokens(Texts(saved.funcs))
    BY <1>7, Zenon DEF FuncTokens
  <2>2. saved.funcs \in Seq(STRING)
    BY <1>5, <1>7
  <2>3. Resume!IsArray(1, "str") /\ a = saved.funcs /\ Resume!Tok(1) = Len(saved.funcs)
    <3>1. 1 \in Nat \ {0} /\ pos + 1 = pos + 1
      OBVIOUS
    <3>2. Follows(file, pos, Resume!CountedTokens(Texts(saved.funcs)))
      BY <1>3, <2>1
    <3> QED BY <1>2, <2>2, <3>1, <3>2, TextsThere
  <2>4. Len(t) = n
    BY <2>1, <2>2, <2>3, ResumeTexts, ResumeCounted
  <2>5. Resume!AtEnd(n)
    BY <1>3, <2>4 DEF Resume!AtEnd
  <2>6. ~(s.version < 6)
    BY <1>4, <1>5, <1>7
  <2>7. Resume!GoOn(n, [s EXCEPT !.funcs = a], "done")
    BY <2>3, <2>5, <2>6, Zenon DEF Resume!Finish, Resume!version
  <2>8. s' = x /\ phase' = "done"
    BY <2>7 DEF Resume!GoOn, WithFuncs
  <2> HIDE DEF x, a
  <2>9. IsSave(x) /\ x.funcs = saved.funcs /\ x.comments_only = saved.comments_only /\ SameHeap(saved, x)
    BY <1>2, <1>3, <2>3, SetFuncs DEF x, SameHeap, SameSeq, SameReturns, SameFrames, SameStack, SameIp, SameOpening
  <2>10. x = saved
    BY <1>5, <2>9, SavesAreEqual
  <2>11. Agrees(phase)'
    BY <1>2, <2>8, <2>10 DEF Agrees, Reading
  <2> QED BY <1>2, <2>11, WholeComesBack
<1> QED BY <1>6, <1>7

LEMMA ReadComesBack ==
  ASSUME ResumeInv, mode \in {"all", "comments"}, ComesBack, Resume!Parse
  PROVE  ComesBack'
<1>1. file' = file /\ mode' = mode /\ saved' = saved
  BY DEF Resume!Parse
<1>2. \/ Resume!ParseHeader \/ Resume!ParseIp \/ Resume!ParseStack \/ Resume!ParseFrames \/ Resume!ParseReturn
      \/ Resume!StartHeap \/ Resume!StartObject \/ Resume!ParseField \/ Resume!FinishObject \/ Resume!Finish
  BY Zenon DEF Resume!Parse
<1> QED BY <1>1, <1>2, HeaderIsBack, IpIsBack, StackIsBack, FramesIsBack, ReturnIsBack, HeapIsBack, ObjectIsBack,
           FieldIsBack, ObjectDoneIsBack, FinishIsBack

\* A save that was read for its comments is one that can be written.
LEMMA CommentsAreBare ==
  ASSUME IsResumeSave(saved), NEW x, x = CommentsOnly(saved.version, saved.comments)
  PROVE  IsResumeSave(x) \/ IsHollow(x)
<1> DEFINE v == saved.version
           c == saved.comments
<1>1. CASE IsBare(saved)
  <2>1. x = saved
    BY <1>1, Zenon DEF IsBare
  <2> QED BY <2>1, Zenon
<1>2. CASE IsWhole(saved)
  <2>1. v \in {4, 6, 7, 9} /\ c \in IF v >= 7 THEN Seq(STRING) ELSE {<<>>}
    BY <1>2, WholeIs
  <2>2. x.version = v /\ x.comments = c
    BY CommentsOnlyIs
  <2> HIDE DEF v, c
  <2>3. x = CommentsOnly(v, c)
    BY DEF v, c
  <2>4. CASE v >= 7
    <3>1. v \in {7, 9} /\ c \in Seq(STRING)
      BY <2>1, <2>4
    <3>2. IsBare(x)
      BY <2>2, <2>3, <3>1, Zenon DEF IsBare
    <3> QED BY <3>2, Zenon DEF IsResumeSave
  <2>5. CASE ~(v >= 7)
    <3>1. v \in {4, 6} /\ c = <<>>
      BY <2>1, <2>5
    <3>2. IsHollow(x)
      BY <2>2, <2>3, <3>1, Zenon DEF IsHollow
    <3> QED BY <3>2
  <2> QED BY <2>4, <2>5
<1> QED BY <1>1, <1>2, Zenon DEF IsResumeSave

LEMMA RewriteIsBack ==
  ASSUME ComesBack, Resume!Rewrite
  PROVE  ComesBack'
<1>1. phase = "done" /\ saved' = s /\ file' = Resume!FileOf(s) /\ phase' = "idle"
  BY DEF Resume!Rewrite
<1>2. IsResumeSave(s) \/ IsHollow(s)
  <2>1. CASE IsResumeSave(saved) /\ Agrees(phase)
    <3>1. s = IF mode = "comments" THEN CommentsOnly(saved.version, saved.comments) ELSE saved
      BY <1>1, <2>1, Zenon DEF Agrees
    <3>2. CASE mode = "comments"
      BY <2>1, <3>1, <3>2, CommentsAreBare
    <3>3. CASE mode # "comments"
      BY <2>1, <3>1, <3>3, Zenon
    <3> QED BY <3>2, <3>3
  <2>2. CASE IsHollow(saved) /\ HollowAt(phase)
    BY <1>1, <2>2 DEF HollowAt
  <2> QED BY <2>1, <2>2, Zenon DEF ComesBack
<1>3. Agrees(phase)' /\ HollowAt(phase)'
  BY <1>1 DEF Agrees, Reading, HollowAt
<1>4. IsResumeSave(saved)' \/ IsHollow(saved)'
  BY <1>1, <1>2, Zenon DEF IsResumeSave, IsHollow, IsBare, IsWhole
<1> QED BY <1>1, <1>3, <1>4, Zenon DEF ComesBack

\* A file that was not damaged comes back, and stays one of a save.
UndamagedBack == format = "rsave" => (~damaged => ComesBack)

ResumeBack == ResumeIs /\ UndamagedBack

LEMMA InitIsBack == Init => ResumeBack
<1> SUFFICES ASSUME Init PROVE ResumeBack
  OBVIOUS
<1>1. ResumeIs
  BY InitIsResume
<1>2. ASSUME format = "rsave" PROVE ComesBack
  <2>1. Resume!Init
    BY <1>2 DEF Init
  <2>2. saved \in ResumeSaves /\ file = Resume!FileOf(saved) /\ phase = "idle"
    BY <2>1 DEF Resume!Init
  <2>3. IsResumeSave(saved)
    BY <2>2, SavesAssumption
  <2>4. Agrees(phase)
    BY <2>2 DEF Agrees, Reading
  <2> QED BY <2>2, <2>3, <2>4, Zenon DEF ComesBack
<1> QED BY <1>1, <1>2 DEF ResumeBack, UndamagedBack

LEMMA NextIsBack == ResumeBack /\ [Next]_vars => ResumeBack'
<1> SUFFICES ASSUME ResumeBack, [Next]_vars PROVE ResumeBack'
  OBVIOUS
<1>1. ResumeIs'
  BY NextIsResume DEF ResumeBack
<1>2. ASSUME format' = "rsave", ~damaged' PROVE ComesBack'
  <2>1. CASE Next
    <3>1. format = "rsave" /\ Resume!Next
      BY <1>2, <2>1 DEF Next
    <3>2. ResumeInv /\ mode \in {"all", "comments"} /\ (~damaged => ComesBack)
      BY <3>1 DEF ResumeBack, ResumeIs, UndamagedBack
    <3>3. CASE Resume!Parse
      <4>1. damaged' = damaged
        BY <3>3 DEF Resume!Parse
      <4> QED BY <1>2, <3>2, <3>3, <4>1, ReadComesBack
    <3>4. CASE Resume!Damage
      <4>1. damaged'
        BY <3>4 DEF Resume!Damage, Resume!DamageToken
      <4> QED BY <1>2, <4>1
    <3>5. CASE Resume!Rewrite
      <4>1. damaged' = damaged
        BY <3>5 DEF Resume!Rewrite
      <4> QED BY <1>2, <3>2, <3>5, <4>1, RewriteIsBack
    <3> QED BY <3>1, <3>3, <3>4, <3>5, Zenon DEF Resume!Next
  <2>2. CASE UNCHANGED vars
    <3>1. /\ format' = format /\ damaged' = damaged /\ file' = file /\ phase' = phase /\ pos' = pos
          /\ left' = left /\ s' = s /\ mode' = mode /\ part' = part /\ saved' = saved
      BY <2>2 DEF vars
    <3>2. ComesBack
      BY <1>2, <3>1 DEF ResumeBack, UndamagedBack
    <3>3. Agrees(phase)' <=> Agrees(phase)
      BY <3>1 DEF Agrees, PartOf
    <3>4. HollowAt(phase)' <=> HollowAt(phase)
      BY <3>1 DEF HollowAt
    <3> QED BY <3>1, <3>2, <3>3, <3>4, Zenon DEF ComesBack, IsResumeSave, IsHollow, IsBare, IsWhole
  <2> QED BY <2>1, <2>2
<1> QED BY <1>1, <1>2 DEF ResumeBack, UndamagedBack

LEMMA CommentsOnlyFlag ==
  ASSUME NEW v, NEW c
  PROVE  CommentsOnly(v, c).comments_only = TRUE
BY DEF CommentsOnly, Resume!Blank

LEMMA BackIsRoundTrip == ResumeBack => (format = "rsave" => RoundTrip)
<1> SUFFICES ASSUME ResumeBack, format = "rsave", ~damaged, ~Resume!Hollow(saved)
             PROVE  /\ phase \notin {"invalid", "unsupported", "off"}
                    /\ phase = "done" =>
                         /\ s.version = saved.version /\ s.comments = saved.comments
                         /\ s.comments_only = (saved.comments_only \/ mode = "comments")
                         /\ ~s.comments_only => s = saved
  BY DEF RoundTrip, Resume!RoundTrip
<1>1. ComesBack /\ mode \in {"all", "comments"}
  BY DEF ResumeBack, ResumeIs, UndamagedBack
<1>2. ~IsHollow(saved)
  <2> SUFFICES ASSUME IsHollow(saved) PROVE FALSE
    OBVIOUS
  <2>1. saved.version \in {4, 6} /\ saved = CommentsOnly(saved.version, <<>>)
    BY Zenon DEF IsHollow
  <2> DEFINE w == CommentsOnly(saved.version, <<>>)
  <2>2. saved.comments_only
    <3>1. w.comments_only
      BY CommentsOnlyIs
    <3>2. saved = w
      BY <2>1
    <3> HIDE DEF w
    <3> QED BY <3>1, <3>2, Zenon
  <2>3. saved.version < 7
    BY <2>1
  <2> QED BY <2>2, <2>3, Zenon DEF Resume!Hollow
<1>3. IsResumeSave(saved) /\ Agrees(phase)
  BY <1>1, <1>2, Zenon DEF ComesBack
<1>4. phase \notin {"invalid", "unsupported", "off"}
  BY <1>3 DEF Agrees, Reading
<1>5. ASSUME phase = "done"
      PROVE  /\ s.version = saved.version /\ s.comments = saved.comments
             /\ s.comments_only = (saved.comments_only \/ mode = "comments")
             /\ ~s.comments_only => s = saved
  <2>1. s = IF mode = "comments" THEN CommentsOnly(saved.version, saved.comments) ELSE saved
    BY <1>3, <1>5, Zenon DEF Agrees
  <2>2. CASE mode = "comments"
    <3>1. s = CommentsOnly(saved.version, saved.comments)
      BY <2>1, <2>2
    <3> DEFINE w == CommentsOnly(saved.version, saved.comments)
    <3>2. s.version = saved.version /\ s.comments = saved.comments
      <4>1. w.version = saved.version /\ w.comments = saved.comments
        BY CommentsOnlyIs
      <4>2. s = w
        BY <3>1
      <4> HIDE DEF w
      <4> QED BY <4>1, <4>2, Zenon
    <3>3. s.comments_only = TRUE
      BY <3>1, CommentsOnlyFlag, Zenon
    <3> QED BY <2>2, <3>2, <3>3, Zenon
  <2>3. CASE mode # "comments"
    <3>1. s = saved
      BY <2>1, <2>3
    <3>2. saved.comments_only \in BOOLEAN
      <4>1. CASE IsBare(saved)
        <5>1. saved = CommentsOnly(saved.version, saved.comments)
          BY <4>1, Zenon DEF IsBare
        <5>2. saved.comments_only = TRUE
          BY <5>1, CommentsOnlyFlag, Zenon
        <5> QED BY <5>2, Zenon
      <4>2. CASE IsWhole(saved)
        <5>1. saved.comments_only = FALSE
          BY <4>2, WholeIs, Zenon
        <5> QED BY <5>1, Zenon
      <4> QED BY <1>3, <4>1, <4>2, Zenon DEF IsResumeSave
    <3>3. saved.comments_only = (saved.comments_only \/ mode = "comments")
      <4>1. CASE saved.comments_only = TRUE
        BY <4>1, Zenon
      <4>2. CASE saved.comments_only = FALSE
        BY <2>3, <4>2, Zenon
      <4> QED BY <3>2, <4>1, <4>2, Zenon
    <3> QED BY <3>1, <3>3, Zenon
  <2> QED BY <2>2, <2>3
<1> QED BY <1>4, <1>5

(* A resume save that was written is read back as it was, by the reader of *)
(* everything or of the comments, as often as what was read is written     *)
(* again: an undamaged file is never refused.                              *)
THEOREM ResumeSavesComeBack == Spec => [](format = "rsave" => RoundTrip)
<1>1. Spec => []ResumeBack
  BY InitIsBack, NextIsBack, PTL DEF Spec
<1> QED BY <1>1, BackIsRoundTrip, PTL
=============================================================================
