------------------------------ MODULE GsaveFile ------------------------------
(***************************************************************************)
(* Writing a global save and reading it back: gsave_write and gsave_parse  *)
(* of src/src/savefile.c.  The parser is a state machine that takes one    *)
(* entry of a table at a time, so that it can stop anywhere, as it does on *)
(* a damaged file.  The header's key, its three constants and the group    *)
(* are left out.                                                           *)
(***************************************************************************)
EXTENDS SaveTokens

CONSTANTS Saves,         \* the saves that get written
          NULL,
          DamageValues   \* what a damaged integer of a file can be

\* ain_data_type and gsave_record_type
AIN_STRING       == 12
AIN_STRUCT       == 13
AIN_ARRAY_TYPE   == 14 .. 17 \cup {30, 50, 58, 66}
AIN_REF_TYPE     == 18 .. 25 \cup {31, 32, 51, 52, 59, 60, 67, 69, 80}
GLOBALS          == 1000
EmptyString      == 2147483647   \* GSAVE7_EMPTY_STRING

\* The types whose values are taken as they are: void, int, float, function
\* types, bool, long int and delegates, and all references.
Unchecked == {0, 10, 11, 27, 47, 55, 63} \cup AIN_REF_TYPE

\* Versions 4 and 5 store types and names with records, array values and
\* key-values; version 7 stores struct definitions.
Typed(v) == v <= 5

VARIABLES saved,    \* the save that was written
          left,     \* entries of the table still to read
          flats,    \* flat arrays of the last array still to read
          s,        \* the save as parsed so far
          crash     \* gsave_free of the rejected save follows a null pointer

vars == <<saved, damaged, file, phase, pos, left, flats, s, crash>>
-----------------------------------------------------------------------------
(* gsave_write.                                                            *)

RecordTokens(v, r) ==
  (IF Typed(v) THEN <<I32(r.type), Text(r.name)>> ELSE <<I32(r.index)>>)
  \o <<I32(Len(r.indices))>> \o I32s(r.indices)

GlobalTokens_Untyped(v, g) == <<I32(g.type), I32(g.value), Text(g.name)>>

GlobalTokens(v, g) == <<I32(g.type), I32(g.value), Text(g.name)>>
                      \o (IF Typed(v) THEN <<I32(1)>> ELSE <<>>)

FlatTokens(v, fa) ==
  <<I32(Len(fa.values))>>
  \o (IF Typed(v)
      THEN FlattenSeq([i \in 1 .. Len(fa.values) |-> <<I32(fa.values[i]), I32(fa.type)>>])
      ELSE <<I32(fa.type)>> \o I32s(fa.values))

ArrayTokens(v, a) == <<I32(a.rank)>> \o I32s(a.dims) \o <<I32(Len(a.flats))>>
                     \o FlattenSeq([i \in 1 .. Len(a.flats) |-> FlatTokens(v, a.flats[i])])

KeyvalTokens(v, kv) == IF Typed(v) THEN <<I32(kv.type), I32(kv.value), Text(kv.name)>>
                       ELSE <<I32(kv.value)>>

DefTokens(d) == <<Text(d.name), I32(Len(d.fields))>>
                \o FlattenSeq([i \in 1 .. Len(d.fields) |-> <<I32(d.fields[i]), Text("f")>>])

TableTokens(x) ==
  LET Records(r) == RecordTokens(x.version, r)
      Globals(g) == GlobalTokens(x.version, g)
      Arrays(a)  == ArrayTokens(x.version, a)
      Keyvals(k) == KeyvalTokens(x.version, k)
  IN  <<FlattenSeq(Map(Records, x.records)), FlattenSeq(Map(Globals, x.globals)),
        Map(Text, x.strings), FlattenSeq(Map(Arrays, x.arrays)),
        FlattenSeq(Map(Keyvals, x.keyvals))>>

HeaderSize == 11

FileOf(x) ==
  LET tables == TableTokens(x)
      counts == <<Len(x.records), Len(x.globals), Len(x.strings), Len(x.arrays), Len(x.keyvals)>>
      offset[t \in 1 .. 5] == IF t = 1 THEN HeaderSize ELSE offset[t - 1] + Len(tables[t - 1])
  IN  <<I32(x.version)>>
      \o FlattenSeq([t \in 1 .. 5 |-> <<I32(offset[t]), I32(counts[t])>>])
      \o FlattenSeq(tables)
      \o (IF Typed(x.version) THEN <<>>
          ELSE <<I32(Len(x.defs))>> \o FlattenSeq(Map(DefTokens, x.defs)))
-----------------------------------------------------------------------------
(* Steps of the parser.                                                    *)

Table == <<"records", "globals", "strings", "arrays", "keyvals", "defs">>
Count(t) == file[1 + 2 * t].v
Offset(t) == file[2 * t].v

End(how) == /\ phase' = how
            /\ UNCHANGED <<pos, left, flats, s, crash>>

\* Take n tokens as one entry of the table.
Consume(n, save) == /\ pos' = pos + n
                    /\ left' = left - 1
                    /\ s' = save
                    /\ UNCHANGED <<phase, flats, crash>>

AcceptIf(valid, n, save) == IF valid THEN Consume(n, save) ELSE End("invalid")

InTable(t) == phase = Table[t] /\ left > 0 /\ flats = 0

\* gsave_validate_value, against the counts of the header.
ValidValue_OffByOne(v, type) ==
  \/ type \in Unchecked
  \/ type = AIN_STRING /\ (v \in 0 .. Count(3) \/ v = EmptyString)
  \/ type = AIN_STRUCT /\ v \in 0 .. Count(1) - 1
  \/ type \in AIN_ARRAY_TYPE /\ v \in 0 .. Count(4) - 1

ValidValue(v, type) ==
  \/ type \in Unchecked
  \/ type = AIN_STRING /\ (v \in 0 .. Count(3) - 1 \/ v = EmptyString)
  \/ type = AIN_STRUCT /\ v \in 0 .. Count(1) - 1
  \/ type \in AIN_ARRAY_TYPE /\ v \in 0 .. Count(4) - 1
-----------------------------------------------------------------------------
(* gsave_parse, table by table.  The version decides what entries look     *)
(* like.                                                                   *)
version == file[1].v

Empty == [records |-> <<>>, globals |-> <<>>, strings |-> <<>>, arrays |-> <<>>,
          keyvals |-> <<>>, defs |-> <<>>]

Init == /\ saved \in Saves
        /\ file = FileOf(saved)
        /\ damaged = FALSE
        /\ phase = "idle" /\ pos = HeaderSize /\ left = 0 /\ flats = 0
        /\ s = Empty
        /\ crash = FALSE

Damage == /\ \E k \in 1 .. Len(file), v \in DamageValues : DamageToken(k, v)
          /\ UNCHANGED <<saved, phase, pos, left, flats, s, crash>>

\* The table must start where the header says, and is allocated for its count.
StartTable(t) ==
  IF pos # Offset(t) THEN End("invalid")
  ELSE IF Count(t) < 0 THEN End("off")
  ELSE /\ phase' = Table[t]
       /\ left' = Count(t)
       /\ UNCHANGED <<pos, flats, s, crash>>

Begin == phase = "idle" /\ IF version \in {4, 5, 7} THEN StartTable(1)
                           ELSE End("unsupported")

\* From version 7 on the struct definitions follow, under a count of their own.
StartDefs ==
  IF Typed(version) THEN End("done")
  ELSE IF ~Readable(Kinds(1)) \/ (Readable(Kinds(1)) /\ Tok(1) < 0) THEN End("off")
  ELSE /\ phase' = "defs" /\ left' = Tok(1) /\ pos' = pos + 1
       /\ UNCHANGED <<flats, s, crash>>

NextTable == \E t \in 1 .. 6 :
  /\ phase = Table[t] /\ left = 0 /\ flats = 0
  /\ CASE t < 5 -> StartTable(t + 1)
       [] t = 5 -> StartDefs
       [] t = 6 -> End("done")

\* A record is of the globals if its type (version 7: struct index) says so.
ParseRecord ==
  LET head  == IF Typed(version) THEN <<"int", "str", "int">> ELSE <<"int", "int">>
      h     == Len(head)
      n     == Tok(h)
      type  == IF Typed(version) THEN Tok(1)
               ELSE IF Tok(1) = -1 THEN GLOBALS ELSE AIN_STRUCT
      rec   == [type    |-> type,
                name    |-> IF Typed(version) THEN Tok(2) ELSE NULL,
                index   |-> IF Typed(version) THEN 0 ELSE Tok(1),
                indices |-> Toks(h + 1, n)]
      bound == IF type = GLOBALS THEN Count(2) ELSE Count(5)
  IN  /\ InTable(1)
      /\ IF ~Readable(head) THEN End("off")
         ELSE IF n < 0 THEN End("off")
         ELSE IF type \notin {AIN_STRUCT, GLOBALS} THEN End("invalid")
         ELSE IF ~Readable(head \o Kinds(n)) THEN End("off")
         ELSE AcceptIf(\A i \in 1 .. n : rec.indices[i] \in 0 .. bound - 1, h + n,
                       [s EXCEPT !.records = Append(@, rec)])

ParseGlobal ==
  LET kinds == <<"int", "int", "str">> \o (IF Typed(version) THEN Kinds(1) ELSE <<>>)
      g == [type |-> Tok(1), value |-> Tok(2), name |-> Tok(3)]
  IN  /\ InTable(2)
      /\ IF ~Readable(kinds) THEN End("off")
         ELSE AcceptIf(ValidValue(g.value, g.type), Len(kinds),
                       [s EXCEPT !.globals = Append(@, g)])

ParseString ==
  /\ InTable(3)
  /\ IF ~Readable(<<"str">>) THEN End("off")
     ELSE Consume(1, [s EXCEPT !.strings = Append(@, Tok(1))])

\* The flat arrays an array must have: none if unallocated, otherwise the
\* product of the dimensions after the first (they are in reversed order).
NrFlats(dims) ==
  LET product[i \in 1 .. Len(dims)] == IF i = 1 THEN 1 ELSE product[i - 1] * dims[i]
  IN  IF dims = <<>> THEN 0 ELSE product[Len(dims)]

ParseArray ==
  LET r    == IF Tok(1) > 0 THEN Tok(1) ELSE 0
      dims == Toks(2, r)
      n    == Tok(r + 2)
  IN  /\ InTable(4)
      /\ IF ~Readable(Kinds(1)) THEN End("off")
         ELSE IF ~Readable(Kinds(r + 2)) THEN End("off")
         ELSE IF n # NrFlats(dims)
              THEN phase' = "invalid" /\ crash' = (n > 0) /\ UNCHANGED <<pos, left, flats, s>>
         ELSE IF n < 0 THEN End("off")
         ELSE /\ s' = [s EXCEPT !.arrays = Append(@, [rank |-> Tok(1), dims |-> dims, flats |-> <<>>])]
              /\ flats' = n /\ left' = left - 1 /\ pos' = pos + r + 2
              /\ UNCHANGED <<phase, crash>>

\* The flat arrays of the array just read.
ParseFlat ==
  LET a      == s.arrays[Len(s.arrays)]
      n      == Tok(1)
      size   == IF Typed(version) THEN 1 + 2 * n ELSE 2 + n
      type   == IF Typed(version) THEN 0 ELSE Tok(2)
      values == [i \in 1 .. n |-> IF Typed(version) THEN Tok(2 * i) ELSE Tok(2 + i)]
      types  == [i \in 1 .. n |-> IF Typed(version) THEN Tok(1 + 2 * i) ELSE type]
      more   == [a EXCEPT !.flats = Append(@, [type |-> type, types |-> types, values |-> values])]
  IN  /\ phase = "arrays" /\ flats > 0
      /\ IF ~Readable(Kinds(1)) THEN End("off")
         ELSE IF n # a.dims[1] THEN End("invalid")
         ELSE IF n < 0 THEN End("off")
         ELSE IF ~Readable(Kinds(size)) THEN End("off")
         ELSE IF \A i \in 1 .. n : ValidValue(values[i], types[i])
              THEN /\ s' = [s EXCEPT !.arrays[Len(s.arrays)] = more]
                   /\ flats' = flats - 1 /\ pos' = pos + size
                   /\ UNCHANGED <<phase, left, crash>>
         ELSE End("invalid")

\* From version 7 on a key-value is a bare value, and is not checked.
ParseKeyval ==
  LET kinds == IF Typed(version) THEN <<"int", "int", "str">> ELSE <<"int">>
      kv == IF Typed(version)
            THEN [type |-> Tok(1), value |-> Tok(2), name |-> Tok(3)]
            ELSE [type |-> 0, value |-> Tok(1), name |-> NULL]
  IN  /\ InTable(5)
      /\ IF ~Readable(kinds) THEN End("off")
         ELSE AcceptIf(Typed(version) => ValidValue(kv.value, kv.type), Len(kinds),
                       [s EXCEPT !.keyvals = Append(@, kv)])

ParseDef ==
  LET n == Tok(2)
      kinds == <<"str", "int">> \o [i \in 1 .. 2 * n |-> IF i % 2 = 1 THEN "int" ELSE "str"]
      d == [name |-> Tok(1), fields |-> [i \in 1 .. n |-> Tok(1 + 2 * i)]]
  IN  /\ InTable(6)
      /\ IF ~Readable(<<"str", "int">>) THEN End("off")
         ELSE IF n < 0 THEN End("off")
         ELSE IF ~Readable(kinds) THEN End("off")
         ELSE Consume(Len(kinds), [s EXCEPT !.defs = Append(@, d)])

Parse == /\ \/ Begin \/ NextTable
            \/ ParseRecord \/ ParseGlobal \/ ParseString
            \/ ParseArray \/ ParseFlat \/ ParseKeyval \/ ParseDef
         /\ UNCHANGED <<saved, damaged, file>>

Next == Parse \/ Damage

Spec == Init /\ [][Next]_vars
-----------------------------------------------------------------------------
(* What was written is read back: an undamaged file is never refused, and  *)
(* in the end every field its version stores is as it was, whatever the    *)
(* tables hold.                                                            *)
SameRecord(r, q) == /\ r.indices = q.indices /\ r.type = q.type
                    /\ IF Typed(saved.version) THEN r.name = q.name ELSE r.index = q.index

SameArray(a, b) ==
  /\ a.rank = b.rank /\ a.dims = b.dims /\ Len(a.flats) = Len(b.flats)
  /\ \A i \in 1 .. Len(a.flats) :
       LET f == a.flats[i]
           g == b.flats[i]
       IN  /\ f.values = g.values
           /\ g.types = [j \in 1 .. Len(f.values) |-> f.type]
           /\ ~Typed(saved.version) => g.type = f.type

SameKeyval(k, l) == /\ k.value = l.value
                    /\ Typed(saved.version) => k.type = l.type /\ k.name = l.name

SameTable(x, y, Same(_, _)) ==
  Len(x) = Len(y) /\ \A i \in 1 .. Len(x) : Same(x[i], y[i])

RoundTrip ==
  ~damaged =>
    /\ phase \notin {"invalid", "unsupported", "off"}
    /\ phase = "done" =>
         /\ SameTable(saved.records, s.records, SameRecord)
         /\ saved.globals = s.globals
         /\ saved.strings = s.strings
         /\ SameTable(saved.arrays, s.arrays, SameArray)
         /\ SameTable(saved.keyvals, s.keyvals, SameKeyval)
         /\ s.defs = IF Typed(saved.version) THEN <<>> ELSE saved.defs

(* A save that was accepted can be followed: whatever the damage, every    *)
(* index of a record, and every string, struct or array that a global, an  *)
(* array value or a key-value refers to, is that of an entry that was read.*)
(* Two indices of version 7 are exceptions, for nothing checks them: the   *)
(* value of a key-value, which has no type to check it by, and the index of*)
(* a record's structure among the definitions.                             *)
Refers(v, type) ==
  \/ type \in Unchecked
  \/ type = AIN_STRING /\ (v \in 0 .. Len(s.strings) - 1 \/ v = EmptyString)
  \/ type = AIN_STRUCT /\ v \in 0 .. Len(s.records) - 1
  \/ type \in AIN_ARRAY_TYPE /\ v \in 0 .. Len(s.arrays) - 1

AcceptedIsClosed ==
  phase = "done" =>
    /\ \A i \in 1 .. Len(s.records) : \A j \in 1 .. Len(s.records[i].indices) :
         s.records[i].indices[j] \in
           0 .. Len(IF s.records[i].type = GLOBALS THEN s.globals ELSE s.keyvals) - 1
    /\ \A i \in 1 .. Len(s.globals) : Refers(s.globals[i].value, s.globals[i].type)
    /\ \A i \in 1 .. Len(s.arrays) : \A j \in 1 .. Len(s.arrays[i].flats) :
         LET fa == s.arrays[i].flats[j] IN
         \A k \in 1 .. Len(fa.values) : Refers(fa.values[k], fa.types[k])
    /\ Typed(version) =>
         \A i \in 1 .. Len(s.keyvals) : Refers(s.keyvals[i].value, s.keyvals[i].type)

(* A file that is not a save is refused with SAVEFILE_INVALID: cleaning up *)
(* what was parsed of it must not follow a pointer that was never set.     *)
RefusedCleanly == ~crash
=============================================================================
