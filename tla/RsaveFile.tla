------------------------------ MODULE RsaveFile ------------------------------
(***************************************************************************)
(* Resume saves: rsave_write, rsave_parse and rsave_free of                *)
(* src/src/savefile.c.  A save holds comments, the call stack and a heap   *)
(* of objects whose fields depend on their tag and on the version; it can  *)
(* be read for its comments only.  The parser takes one field of one heap  *)
(* object at a time, so that it can stop at any of them.  The signature    *)
(* and the key are left out.                                               *)
(***************************************************************************)
EXTENDS SaveTokens

CONSTANTS Saves,         \* the saves that get written
          NULL,          \* a name a symbol does not have, a record not read yet
          DamageValues   \* what a damaged integer of a file can be

\* enum rsave_heap_tag
RSAVE_GLOBALS     == 0
RSAVE_LOCALS      == 1
RSAVE_STRING      == 2
RSAVE_ARRAY       == 3
RSAVE_STRUCT      == 4
RSAVE_DELEGATE    == 5
RSAVE_NULL == -1

RSAVE_METHOD_CALL == 2     \* a call frame that has a struct pointer
BOTTOM      == -1    \* return_addr of the record at the stack's bottom
NOTHING     == <<>>

VARIABLES saved,   \* the save that was last written
          mode,    \* what is read of the file: "all" or "comments"
          left,    \* entries of the list under way still to read
          part,    \* the heap object under way: its tag and fields, or NOTHING
          s,       \* the save as parsed so far
          crash    \* rsave_free of the rejected save follows a null pointer

vars == <<file, damaged, phase, pos, saved, mode, left, part, s, crash>>
-----------------------------------------------------------------------------
(* rsave_write.                                                            *)

SymbolTokens(y) == IF y.name # NULL THEN <<Text(y.name)>> ELSE <<I32(y.id)>>

CountedTokens(tokens) == <<I32(Len(tokens))>> \o tokens

ReturnTokens(r) == IF r.addr = BOTTOM THEN <<I32(BOTTOM)>>
                   ELSE <<I32(r.addr), Text(r.func), I32(r.local), I32(r.crc)>>

FrameTokens(frames) ==
  LET Local(f) == I32(f.local)
      Type(f)  == I32(f.type)
      Ptr(f)   == IF f.type = RSAVE_METHOD_CALL THEN <<I32(f.ptr)>> ELSE <<>>
  IN  CountedTokens(Map(Local, frames)) \o CountedTokens(Map(Type, frames))
      \o CountedTokens(FlattenSeq(Map(Ptr, frames)))

\* The fields every object but a delegate begins with.
Common(v) == IF v >= 9 THEN <<<<"ref", "int">>, <<"seq", "int">>>> ELSE <<<<"ref", "int">>>>

\* The fields write_heap_... writes after the tag, with their kinds.
Written(v, tag) ==
  CASE tag = RSAVE_GLOBALS -> Common(v) \o <<<<"func", "symbol">>, <<"types", "ints">>, <<"slots", "slots">>>>
    [] tag = RSAVE_LOCALS  -> Common(v) \o
         IF v >= 9 THEN <<<<"func", "symbol">>, <<"types", "ints">>, <<"struct_ptr", "int">>, <<"slots", "slots">>>>
                   ELSE <<<<"func", "symbol">>, <<"types", "ints">>, <<"slots", "slots">>>>
    [] tag = RSAVE_STRING  -> Common(v) \o <<<<"uk", "int">>, <<"text", "bytes">>>>
    [] tag = RSAVE_ARRAY   -> Common(v) \o
         <<<<"rank_minus_1", "int">>, <<"data_type", "int">>, <<"struct_type", "symbol">>,
           <<"root_rank", "int">>, <<"is_not_empty", "int">>, <<"slots", "slots">>>>
    [] tag = RSAVE_STRUCT  -> Common(v) \o
         <<<<"ctor", "symbol">>, <<"dtor", "symbol">>, <<"uk", "int">>,
           <<"struct_type", "symbol">>, <<"types", "ints">>, <<"slots", "slots">>>>
    [] tag = RSAVE_DELEGATE -> <<<<"ref", "int">>, <<"seq", "int">>, <<"slots", "slots">>>>
    [] tag = RSAVE_NULL    -> <<>>

FieldTokens(kind, value) ==
  CASE kind = "int"    -> <<I32(value)>>
    [] kind = "symbol" -> SymbolTokens(value)
    [] kind = "ints"   -> CountedTokens(I32s(value))
    [] kind = "slots"  -> <<I32(4 * Len(value))>> \o I32s(value)
    [] kind = "bytes"  -> <<I32(Len(value)), [kind |-> "bytes", v |-> value]>>

ObjectTokens(v, o) ==
  LET Tokens(field) == FieldTokens(field[2], o[field[1]])
  IN  <<I32(o.tag)>> \o FlattenSeq(Map(Tokens, Written(v, o.tag)))

Opening(x) == <<I32(x.version)>>
              \o (IF x.version >= 7 THEN CountedTokens(Map(Text, x.comments)) ELSE <<>>)

FileOf(x) ==
  LET Object(o) == ObjectTokens(x.version, o) IN
  IF x.comments_only THEN Opening(x)
  ELSE Opening(x) \o ReturnTokens(x.ip) \o <<I32(0)>>
       \o CountedTokens(I32s(x.stack)) \o FrameTokens(x.frames)
       \o <<I32(Len(x.returns))>> \o FlattenSeq(Map(ReturnTokens, x.returns))
       \o <<I32(0), I32(0), I32(0)>>
       \o (IF x.version >= 9 THEN <<I32(x.next_seq)>> ELSE <<>>)
       \o <<I32(Len(x.heap))>> \o FlattenSeq(Map(Object, x.heap))
       \o (IF x.version >= 6 THEN CountedTokens(Map(Text, x.funcs)) ELSE <<>>)
-----------------------------------------------------------------------------
(* Steps of the parser.                                                    *)

version == s.version

Blank == [version |-> 0, comments |-> <<>>, comments_only |-> FALSE, ip |-> NULL,
          stack |-> <<>>, frames |-> <<>>, returns |-> <<>>, next_seq |-> 0,
          heap |-> <<>>, funcs |-> <<>>]

End(how) == phase' = how /\ UNCHANGED <<pos, left, part, s, crash>>

\* SAVEFILE_INVALID while the heap is read: the pointers of this object and
\* of those after it are null, and rsave_free reads the tags they point to.
RejectHeap == /\ phase' = "invalid" /\ crash' = TRUE
              /\ UNCHANGED <<pos, left, part, s>>

\* Take n tokens, and go on with the save so changed in another phase.
GoOn(n, save, next) == /\ pos' = pos + n /\ s' = save /\ phase' = next
                       /\ UNCHANGED <<left, part, crash>>

\* A count at token i and as many tokens of a kind (parse_int_array, ...).
IsArray(i, kind) ==
  /\ pos + i <= Len(file) /\ file[pos + i].kind = "int" /\ Tok(i) >= 0
  /\ \A k \in 1 .. Tok(i) : pos + i + k <= Len(file) /\ file[pos + i + k].kind = kind

Array(i) == Toks(i + 1, Tok(i))

AtEnd(n) == pos + n = Len(file)

ParseHeader ==
  LET v == Tok(1)
      x == [s EXCEPT !.version = v]
      y == [x EXCEPT !.comments = Array(2)]
  IN  /\ phase = "idle"
      /\ IF ~Readable(<<"int">>) THEN End("off")
         ELSE IF v \notin {4, 6, 7, 9} THEN End("unsupported")
         ELSE IF v >= 7 /\ ~IsArray(2, "str") THEN End("off")
         ELSE IF v >= 7 /\ (AtEnd(2 + Tok(2)) \/ mode = "comments")
              THEN GoOn(2 + Tok(2), [y EXCEPT !.comments_only = TRUE], "done")
         ELSE IF v >= 7 THEN GoOn(2 + Tok(2), y, "ip")
         ELSE IF mode = "comments" THEN GoOn(1, [x EXCEPT !.comments_only = TRUE], "done")
         ELSE GoOn(1, x, "ip")

\* parse_return_record; the record is of tokens 1 to Len(kinds).
ReturnKinds == IF Readable(<<"int">>) /\ Tok(1) = BOTTOM THEN <<"int">>
               ELSE <<"int", "str", "int", "int">>

ReturnRecord == IF Tok(1) = BOTTOM THEN [addr |-> BOTTOM]
                ELSE [addr |-> Tok(1), func |-> Tok(2), local |-> Tok(3), crc |-> Tok(4)]

ParseIp ==
  LET n == Len(ReturnKinds) IN
  /\ phase = "ip"
  /\ IF Readable(ReturnKinds \o <<"int">>) /\ Tok(n + 1) = 0
     THEN GoOn(n + 1, [s EXCEPT !.ip = ReturnRecord], "stack") ELSE End("off")

ParseStack ==
  /\ phase = "stack"
  /\ IF IsArray(1, "int") THEN GoOn(1 + Tok(1), [s EXCEPT !.stack = Array(1)], "frames")
     ELSE End("off")

\* The method calls among the first i frames.
Calls(i, types) == Cardinality({j \in 1 .. i : types[j] = RSAVE_METHOD_CALL})

\* parse_call_frames: a method call takes the next struct pointer.
Frames(locals, types, ptrs) ==
  [i \in 1 .. Len(types) |->
     [type |-> types[i], local |-> locals[i],
      ptr |-> IF types[i] = RSAVE_METHOD_CALL THEN ptrs[Calls(i, types)] ELSE -1]]

ParseFrames ==
  LET a == 1
      b == a + 1 + Tok(a)
      c == b + 1 + Tok(b)
      n == c + 1 + Tok(c)
  IN  /\ phase = "frames"
      /\ IF ~IsArray(a, "int") THEN End("off")
         ELSE IF ~IsArray(b, "int") THEN End("off")
         ELSE IF ~IsArray(c, "int") THEN End("off")
         ELSE IF Tok(a) # Tok(b) \/ Tok(c) # Calls(Tok(b), Array(b)) THEN End("off")
         ELSE IF pos + n > Len(file) THEN End("off")
         ELSE IF file[pos + n].kind # "int" \/ Tok(n) < 0 THEN End("off")
         ELSE /\ s' = [s EXCEPT !.frames = Frames(Array(a), Array(b), Array(c))]
              /\ pos' = pos + n /\ left' = Tok(n) /\ phase' = "returns"
              /\ UNCHANGED <<part, crash>>

ParseReturn ==
  /\ phase = "returns" /\ left > 0
  /\ IF Readable(ReturnKinds)
     THEN /\ s' = [s EXCEPT !.returns = Append(@, ReturnRecord)]
          /\ pos' = pos + Len(ReturnKinds) /\ left' = left - 1
          /\ UNCHANGED <<phase, part, crash>>
     ELSE End("off")

\* Three zeros, the next sequence number, and the size of the heap.
StartHeap ==
  LET z == IF version >= 9 THEN 1 ELSE 0 IN
  /\ phase = "returns" /\ left = 0
  /\ IF ~Readable(Kinds(4 + z)) THEN End("off")
     ELSE IF Toks(1, 3) # <<0, 0, 0>> \/ Tok(4 + z) < 0 THEN End("off")
     ELSE /\ s' = [s EXCEPT !.next_seq = IF z = 1 THEN Tok(4) ELSE 0]
          /\ pos' = pos + 4 + z /\ left' = Tok(4 + z) /\ phase' = "heap"
          /\ UNCHANGED <<part, crash>>

\* The fields parse_heap_... reads after the tag, with their kinds.
Layout(v, tag) ==
  LET symbol == IF v = 4 THEN "id" ELSE "name"
      global == IF v = 4 THEN "id" ELSE "none"
  IN  CASE tag = RSAVE_GLOBALS -> Common(v) \o <<<<"func", global>>, <<"types", "ints">>, <<"slots", "slots">>>>
        [] tag = RSAVE_LOCALS  -> Common(v) \o
             IF v >= 9 THEN <<<<"func", symbol>>, <<"types", "ints">>, <<"struct_ptr", "int">>, <<"slots", "slots">>>>
                       ELSE <<<<"func", symbol>>, <<"types", "ints">>, <<"slots", "slots">>>>
        [] tag = RSAVE_STRING  -> Common(v) \o <<<<"uk", "flag">>, <<"text", "bytes">>>>
        [] tag = RSAVE_ARRAY   -> Common(v) \o
             <<<<"rank_minus_1", "int">>, <<"data_type", "int">>, <<"struct_type", symbol>>,
               <<"root_rank", "int">>, <<"is_not_empty", "int">>, <<"slots", "slots">>>>
        [] tag = RSAVE_STRUCT  -> Common(v) \o
             <<<<"ctor", symbol>>, <<"dtor", symbol>>, <<"uk", "zero">>,
               <<"struct_type", symbol>>, <<"types", "ints">>, <<"slots", "slots">>>>
        [] tag = RSAVE_DELEGATE -> <<<<"ref", "int">>, <<"seq", "int">>, <<"slots", "slots">>>>

\* The next object: its tag decides how it goes on.  A null object is complete.
StartObject ==
  /\ phase = "heap" /\ part = NOTHING /\ left > 0
  /\ IF ~Readable(<<"int">>) THEN End("off")
     ELSE IF Tok(1) \notin RSAVE_NULL .. RSAVE_DELEGATE \/ (Tok(1) = RSAVE_DELEGATE /\ version < 9)
          THEN RejectHeap
     ELSE /\ pos' = pos + 1
          /\ IF Tok(1) = RSAVE_NULL
             THEN s' = [s EXCEPT !.heap = Append(@, [tag |-> RSAVE_NULL])] /\ left' = left - 1
                  /\ UNCHANGED part
             ELSE part' = [tag |-> Tok(1)] /\ UNCHANGED <<s, left>>
          /\ UNCHANGED <<phase, crash>>

TakeField(n, name, value) ==
  /\ pos' = pos + n
  /\ part' = [f \in DOMAIN part \cup {name} |-> IF f = name THEN value ELSE part[f]]
  /\ UNCHANGED <<phase, left, s, crash>>

\* A size in bytes at token 1 that is no number of slots is refused; what a
\* negative one does is undefined.
ParseSlots(name) ==
  IF ~Readable(<<"int">>) THEN End("off")
  ELSE IF Tok(1) % 4 # 0 THEN RejectHeap
  ELSE IF Tok(1) < 0 THEN End("off")
  ELSE IF ~Readable(Kinds(1 + Tok(1) \div 4)) THEN End("off")
  ELSE TakeField(1 + Tok(1) \div 4, name, Toks(2, Tok(1) \div 4))

ParseNumber(name, kind) ==
  IF ~Readable(<<"int">>) THEN End("off")
  ELSE CASE kind = "id"   -> TakeField(1, name, [name |-> NULL, id |-> Tok(1)])
         [] kind = "none" -> IF Tok(1) = -1 THEN TakeField(1, name, [name |-> NULL, id |-> -1])
                             ELSE RejectHeap
         [] kind = "flag" -> IF Tok(1) \in {0, 1} THEN TakeField(1, name, Tok(1)) ELSE End("off")
         [] kind = "zero" -> IF Tok(1) = 0 THEN TakeField(1, name, 0) ELSE End("off")
         [] kind = "int"  -> TakeField(1, name, Tok(1))

ParseField ==
  LET layout == Layout(version, part.tag)
      i      == Cardinality(DOMAIN part)     \* the tag is the first
      name   == layout[i][1]
      kind   == layout[i][2]
  IN  /\ phase = "heap" /\ part # NOTHING
      /\ i <= Len(layout)
      /\ CASE kind = "slots" -> ParseSlots(name)
           [] kind = "name"  -> IF Readable(<<"str">>)
                                THEN TakeField(1, name, [name |-> Tok(1), id |-> 0]) ELSE End("off")
           [] kind = "ints"  -> IF IsArray(1, "int")
                                THEN TakeField(1 + Tok(1), name, Array(1)) ELSE End("off")
           [] kind = "bytes" -> IF Readable(<<"int", "bytes">>) /\ Tok(1) = Len(Tok(2))
                                THEN TakeField(2, name, Tok(2)) ELSE End("off")
           [] OTHER          -> ParseNumber(name, kind)

FinishObject ==
  /\ phase = "heap" /\ part # NOTHING
  /\ Cardinality(DOMAIN part) > Len(Layout(version, part.tag))
  /\ s' = [s EXCEPT !.heap = Append(@, part)]
  /\ part' = NOTHING /\ left' = left - 1
  /\ UNCHANGED <<phase, pos, crash>>

\* The names of the functions, and then the file must end.
Finish_IgnoresRest ==
  /\ phase = "heap" /\ part = NOTHING /\ left = 0
  /\ IF version < 6 THEN GoOn(0, s, "done")
     ELSE IF ~IsArray(1, "str") THEN End("off")
     ELSE GoOn(1 + Tok(1), [s EXCEPT !.funcs = Array(1)], "done")

Finish ==
  /\ phase = "heap" /\ part = NOTHING /\ left = 0
  /\ IF version < 6 THEN IF AtEnd(0) THEN GoOn(0, s, "done") ELSE End("invalid")
     ELSE IF ~IsArray(1, "str") THEN End("off")
     ELSE IF AtEnd(1 + Tok(1))
          THEN GoOn(1 + Tok(1), [s EXCEPT !.funcs = Array(1)], "done")
     ELSE End("invalid")
-----------------------------------------------------------------------------
Init == /\ saved \in Saves
        /\ file = FileOf(saved)
        /\ mode \in {"all", "comments"}
        /\ damaged = FALSE
        /\ phase = "idle" /\ pos = 0 /\ left = 0 /\ part = NOTHING
        /\ s = Blank
        /\ crash = FALSE

Damage == /\ \E k \in 1 .. Len(file), v \in DamageValues : DamageToken(k, v)
          /\ UNCHANGED <<phase, pos, saved, mode, left, part, s, crash>>

Parse == /\ \/ ParseHeader \/ ParseIp \/ ParseStack \/ ParseFrames \/ ParseReturn
            \/ StartHeap \/ StartObject \/ ParseField \/ FinishObject \/ Finish
         /\ UNCHANGED <<file, damaged, saved, mode>>

\* What was read, for all or for its comments only, is written and read again.
Rewrite == /\ phase = "done"
           /\ saved' = s
           /\ file' = FileOf(s)
           /\ mode' \in {"all", "comments"}
           /\ phase' = "idle" /\ pos' = 0 /\ s' = Blank
           /\ UNCHANGED <<damaged, left, part, crash>>

Next == Parse \/ Damage \/ Rewrite

Spec == Init /\ [][Next]_vars
-----------------------------------------------------------------------------
(* A save without comments that was read for them only lost everything: it *)
(* is written back as a file that cannot be read.                          *)
Hollow(x) == x.comments_only /\ x.version < 7

(* What was written is read back, by the reader of everything or of the    *)
(* comments, again and again: an undamaged file is never refused.          *)
RoundTrip ==
  (~damaged /\ ~Hollow(saved)) =>
    /\ phase \notin {"invalid", "unsupported", "off"}
    /\ phase = "done" =>
         /\ s.version = saved.version /\ s.comments = saved.comments
         /\ s.comments_only = (saved.comments_only \/ mode = "comments")
         /\ ~s.comments_only => s = saved

(* No accepted file, damaged or not, holds anything the parser dropped or  *)
(* made up: what rsave_write makes of the save is the file it came from.   *)
Lossless ==
  (phase = "done" /\ mode = "all") => FileOf(s) = file

(* A file that is not a save is refused with SAVEFILE_INVALID: cleaning up *)
(* what was parsed of it must not follow a pointer that was never set.     *)
RefusedCleanly == ~crash
=============================================================================
