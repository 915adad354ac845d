-------------------------------- MODULE MCSaves --------------------------------
(* Global saves with every kind of reference: a global of each type, a     *)
(* struct with two key-values, arrays of rank -1 (unallocated), 1 and 2,   *)
(* one of the flat arrays empty, and, from version 7 on, the empty         *)
(* string's index.  Resume saves of each version with an object of every   *)
(* tag the version has, with and without slots, a method call among their  *)
(* frames, and the record at the bottom of the stack; and saves of         *)
(* comments only.                                                          *)
EXTENDS Saves, SequencesExt, TLC

\* ain_data_type, gsave_record_type, GSAVE7_EMPTY_STRING and rsave_heap_tag.
AIN_INT          == 10
AIN_STRING       == 12
AIN_STRUCT       == 13
AIN_ARRAY_INT    == 14
AIN_ARRAY_STRING == 16
AIN_REF_INT      == 18
GLOBALS          == 1000
EmptyString      == 2147483647

RSAVE_GLOBALS     == 0
RSAVE_LOCALS      == 1
RSAVE_STRING      == 2
RSAVE_ARRAY       == 3
RSAVE_STRUCT      == 4
RSAVE_DELEGATE    == 5
RSAVE_NULL        == -1
RSAVE_METHOD_CALL == 2
BOTTOM            == -1

GlobalVar(type, value) == [type |-> type, value |-> value, name |-> "g"]
Keyval(type, value) == [type |-> type, value |-> value, name |-> "k"]
Flat(type, values) == [type |-> type, values |-> values]

GlobalsRecord(v, n) ==
  [type |-> GLOBALS, name |-> "", index |-> -1, indices |-> [i \in 1 .. n |-> i - 1]]

StructRecord(ks) == [type |-> AIN_STRUCT, name |-> "S", index |-> 0, indices |-> ks]

Big(v) ==
  [version |-> v,
   records |-> <<GlobalsRecord(v, 3), StructRecord(<<1, 0>>)>>,
   globals |-> <<GlobalVar(AIN_STRING, 1), GlobalVar(AIN_STRUCT, 1), GlobalVar(AIN_ARRAY_STRING, 1)>>,
   strings |-> <<"s", "">>,
   arrays  |-> <<[rank |-> -1, dims |-> <<>>, flats |-> <<>>],
                 [rank |-> 2, dims |-> <<1, 2>>,
                  flats |-> <<Flat(AIN_STRING, <<0>>), Flat(AIN_STRING, <<EmptyString>>)>>],
                 [rank |-> 1, dims |-> <<0>>, flats |-> <<Flat(AIN_INT, <<>>)>>]>>,
   keyvals |-> <<Keyval(AIN_ARRAY_INT, 2), Keyval(AIN_REF_INT, 7)>>,
   defs    |-> <<[name |-> "S", fields |-> <<AIN_ARRAY_INT, AIN_REF_INT>>]>>]

None(v) == [version |-> v, records |-> <<GlobalsRecord(v, 0)>>, globals |-> <<>>,
            strings |-> <<>>, arrays |-> <<>>, keyvals |-> <<>>, defs |-> <<>>]

MCGlobalSaves == {Big(4), Big(5), Big(7), None(5), None(7)}

-----------------------------------------------------------------------------
Sym(v, n) == IF v = 4 THEN [name |-> NULL, id |-> n] ELSE [name |-> "f", id |-> 0]
Seq9(v, o) == IF v >= 9 THEN o @@ [seq |-> 3] ELSE o
Ptr9(v, o) == IF v >= 9 THEN o @@ [struct_ptr |-> 2] ELSE o

Heap(v) ==
  <<Seq9(v, [tag |-> RSAVE_GLOBALS, ref |-> 1, func |-> [name |-> NULL, id |-> IF v = 4 THEN 7 ELSE -1],
             types |-> <<>>, slots |-> <<5>>]),
    [tag |-> RSAVE_NULL],
    Ptr9(v, Seq9(v, [tag |-> RSAVE_LOCALS, ref |-> 1, func |-> Sym(v, 8), types |-> <<10>>, slots |-> <<>>])),
    Seq9(v, [tag |-> RSAVE_STRING, ref |-> 2, uk |-> 0, text |-> <<65, 0>>]),
    Seq9(v, [tag |-> RSAVE_ARRAY, ref |-> 1, rank_minus_1 |-> -1, data_type |-> 14, struct_type |-> Sym(v, -1),
             root_rank |-> -1, is_not_empty |-> 0, slots |-> <<>>]),
    Seq9(v, [tag |-> RSAVE_STRUCT, ref |-> 1, ctor |-> Sym(v, 1), dtor |-> Sym(v, -1), uk |-> 0,
             struct_type |-> Sym(v, 0), types |-> <<10, 12>>, slots |-> <<4, 3>>])>>
  \o (IF v >= 9 THEN <<[tag |-> RSAVE_DELEGATE, ref |-> 1, seq |-> 4, slots |-> <<0, 1, 2>>]>> ELSE <<>>)

Whole(v) ==
  [version |-> v, comments |-> IF v >= 7 THEN <<"c">> ELSE <<>>, comments_only |-> FALSE,
   ip |-> [addr |-> 6, func |-> "f", local |-> 1, crc |-> 9],
   stack |-> <<0>>,
   frames |-> <<[type |-> 0, local |-> 0, ptr |-> -1], [type |-> RSAVE_METHOD_CALL, local |-> 2, ptr |-> 5]>>,
   returns |-> <<[addr |-> BOTTOM], [addr |-> 6, func |-> "g", local |-> 0, crc |-> 1]>>,
   next_seq |-> IF v >= 9 THEN 5 ELSE 0,
   heap |-> Heap(v),
   funcs |-> IF v >= 6 THEN <<"f", "g">> ELSE <<>>]

Bare(v) ==
  [version |-> v, comments |-> <<"c", "d">>, comments_only |-> TRUE, ip |-> NULL, stack |-> <<>>,
   frames |-> <<>>, returns |-> <<>>, next_seq |-> 0, heap |-> <<>>, funcs |-> <<>>]

MCResumeSaves == {Whole(v) : v \in {4, 6, 7, 9}} \cup {Bare(7), Bare(9)}

MCDamage == -1 .. 9 \cup {AIN_STRING, AIN_STRUCT, AIN_ARRAY_STRING}
=============================================================================
