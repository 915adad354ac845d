----------------------------- MODULE MCExDocuments -----------------------------
(* Three documents that meet in every way: a string that is overwritten, a *)
(* list and a table that are joined, trees that share a subtree and a leaf *)
(* whose type changes, a name that is another's beginning, and a name used *)
(* for two types.  Tables of no, one, two and three rows and fields, the   *)
(* square ones included, whose order their sizes do not show.              *)
EXTENDS ExDocuments, TLC

Str(text, id) == [text |-> text, id |-> id]
Num(n) == [type |-> "int", v |-> n]
Text(text, id) == [type |-> "string", v |-> Str(text, id)]
Block(name, val) == [name |-> name, val |-> val]
Leaf(name, value, lname) == [name |-> name, leaf |-> TRUE, moved |-> FALSE, lname |-> lname, value |-> value]
Inner(name, kids) == [name |-> name, leaf |-> FALSE, moved |-> FALSE, kids |-> kids]
Tree(name, kids) == [type |-> "tree", v |-> Inner(name, kids)]
TableOf(field, rows) == [type |-> "table", v |-> [fields |-> <<field>>, rows |-> rows]]
Key(name) == [name |-> name, type |-> "string", index |-> TRUE]

FileA == <<Block(Str(<<"s">>, "a1"), Text(<<"u">>, "a2")),
           Block(Str(<<"t">>, "a3"),
                 Tree(Str(<<"t">>, "a4"),
                      <<Leaf(Str(<<"a">>, "a5"), Text(<<"u">>, "a6"), Str(<<"a">>, "a7")),
                        Inner(Str(<<"a", "b">>, "a8"),
                              <<Leaf(Str(<<"x">>, "a9"), Num(1), Str(<<"x">>, "a10"))>>)>>))>>

FileB == <<Block(Str(<<"s">>, "b1"), Text(<<"w">>, "b2")),
           Block(Str(<<"t">>, "b3"),
                 Tree(Str(<<"t">>, "b4"),
                      <<Inner(Str(<<"a", "b">>, "b5"),
                              <<Leaf(Str(<<"y">>, "b6"), Text(<<"w">>, "b7"), Str(<<"y">>, "b8"))>>),
                        Leaf(Str(<<"a">>, "b9"), Num(2), Str(<<"a">>, "b10")),
                        Inner(Str(<<"c">>, "b11"), <<>>)>>))>>

FileC == <<Block(Str(<<"t">>, "c1"), Num(5)),
           Block(Str(<<"q">>, "c2"), TableOf(Key(Str(<<"k">>, "c3")), <<<<Text(<<"u">>, "c4")>>>>)),
           Block(Str(<<"l">>, "c5"), [type |-> "list", v |-> <<Num(2)>>])>>

MCFiles == {FileA, FileB, FileC}

MCSizes == 0 .. 3

Symmetry == Permutations(Handles)
=============================================================================
