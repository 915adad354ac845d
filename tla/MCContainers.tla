----------------------------- MODULE MCContainers -----------------------------
(* Four keys in two buckets, one of them empty of collisions; buffers that *)
(* grow from two bytes; and ini files of up to three entries, in which a   *)
(* name may be a list, a single value, a formation or a position of a list.*)
EXTENDS Containers, TLC

MCHash == "a" :> 0 @@ "b" :> 2 @@ "c" :> 4 @@ "d" :> 1

MCInts    == {-1, 2, 258}
MCStrings == {<<1>>, <<1, 2, 2>>}

\* Where items begin, inside them, and on both sides of the data.
MCOffsets == {-4, -1, 0, 1, 2, 3, 4, 5, 7, 16}

Str(id) == [type |-> "string", id |-> id]
Number  == [type |-> "integer"]

Line(id, name, position, values) ==
  [kind |-> "entry", name |-> [text |-> name, id |-> id], position |-> position, values |-> values]

\* What the k-th entry of a file may be; its strings are objects of its own.
Lines(k) ==
  LET s == Str(<<k, 1>>)
      t == Str(<<k, 2>>)
  IN  {Line(<<k, 0>>, "a", NULL, vs) : vs \in {<<s>>, <<s, Number>>, <<[type |-> "list", list |-> <<s>>]>>}}
      \cup {Line(<<k, 0>>, "a", p, <<s>>) : p \in {0, 2}}
      \cup {Line(<<k, 0>>, "b", NULL, <<Number>>), Line(<<k, 0>>, "b", 1, <<Number, t>>)}
      \cup {[kind |-> "formation", name |-> [text |-> n, id |-> <<k, 0>>],
             entries |-> <<Line(<<k, 3>>, "a", 0, <<s>>), Line(<<k, 4>>, "a", NULL, <<t>>)>>] :
              n \in {"a", "f"}}

\* The values of these entries, and the strings in lists of others.
MCIniValues ==
  UNION {LET s == Str(<<k, 1>>)
             t == Str(<<k, 2>>)
             nested == [type |-> "list", list |-> <<s>>]
         IN  {Number, s, t, nested, [type |-> "list", list |-> <<s, Number>>],
              [type |-> "list", list |-> <<Number, t>>]} : k \in 1 .. 3}

MCIniFiles == {<<x>> : x \in Lines(1)} \cup {<<x, y, z>> : x \in Lines(1), y \in Lines(2), z \in Lines(3)}
=============================================================================
