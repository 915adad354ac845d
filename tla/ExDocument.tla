----------------------------- MODULE ExDocument -----------------------------
(***************************************************************************)
(* EX documents (src/src/ex.c) as values: a sequence of named blocks of    *)
(* type "int", "string", "table", "list" or "tree" (floats are like ints), *)
(* how documents are appended, extracted and replaced, and how values are  *)
(* looked up.  Strings are shared by reference: a string is an object      *)
(* [text, id], compared by its text, and every operation lists the objects *)
(* it takes references to (`refs') and those it frees (`frees').           *)
(*                                                                         *)
(* A value is [type, v].  A table's v is [fields, rows], a list's the      *)
(* sequence of its items, a tree's a node: [name, leaf, moved, lname,      *)
(* value] if it is a leaf, else [name, leaf, moved, kids].  Beside its     *)
(* children a node has an array of values, one pointing at each of them,   *)
(* and `moved' says of a child that the pointer is older than the place    *)
(* the child is at.  Sizes and default values of fields are left out, and  *)
(* so are tables in tables.                                                *)
(***************************************************************************)
EXTENDS Integers, SequencesExt

Nothing == [type |-> "none"]   \* a NULL result

First(S) == IF S = {} THEN 0 ELSE CHOOSE i \in S : \A j \in S : i <= j

\* The first child of that name (strcmp), or 0.
ChildNamed(kids, text) == First({i \in DOMAIN kids : kids[i].name.text = text})

\* ex_get_block: the first block of that name and type, or 0.
GetBlock(doc, text, type) ==
  First({i \in DOMAIN doc : doc[i].val.type = type /\ doc[i].name.text = text})
-----------------------------------------------------------------------------
(* The strings that copying a value takes references to, and that freeing  *)
(* it frees: one per occurrence.                                           *)
RECURSIVE ValueStrings(_), NodeStrings(_)

ValueStrings(x) ==
  CASE x.type = "int"    -> <<>>
    [] x.type = "string" -> <<x.v>>
    [] x.type = "table"  -> [i \in DOMAIN x.v.fields |-> x.v.fields[i].name]
                            \o FlattenSeq([r \in DOMAIN x.v.rows |->
                                 FlattenSeq([k \in DOMAIN x.v.rows[r] |-> ValueStrings(x.v.rows[r][k])])])
    [] x.type = "list"   -> FlattenSeq([i \in DOMAIN x.v |-> ValueStrings(x.v[i])])
    [] x.type = "tree"   -> NodeStrings(x.v)

NodeStrings(t) ==
  <<t.name>> \o (IF t.leaf THEN <<t.lname>> \o ValueStrings(t.value)
                 ELSE FlattenSeq([i \in DOMAIN t.kids |-> NodeStrings(t.kids[i])]))

BlockStrings(b) == <<b.name>> \o ValueStrings(b.val)

DocStrings(doc) == FlattenSeq([i \in DOMAIN doc |-> BlockStrings(doc[i])])

\* _ex_copy_tree: the pointers of a copy are its own.
RECURSIVE CopyTree(_)

CopyTree_KeepsPointers(t) == t

CopyTree(t) ==
  IF t.leaf THEN [t EXCEPT !.moved = FALSE]
  ELSE [t EXCEPT !.moved = FALSE, !.kids = [i \in DOMAIN t.kids |-> CopyTree(t.kids[i])]]

CopyBlock(b) == IF b.val.type = "tree" THEN [b EXCEPT !.val.v = CopyTree(b.val.v)] ELSE b
-----------------------------------------------------------------------------
(* Appending.  A result is [v, refs, frees, lost]: `lost' are the strings  *)
(* that are overwritten without being freed.                               *)

Unchanged(v) == [v |-> v, refs |-> <<>>, frees |-> <<>>, lost |-> <<>>]

Changed(r, v, refs, frees) ==
  [r EXCEPT !.v = v, !.refs = @ \o refs, !.frees = @ \o frees]

\* ex_header_equal
SameHeader(t, u) ==
  /\ Len(t.fields) = Len(u.fields)
  /\ \A i \in DOMAIN t.fields : /\ t.fields[i].name.text = u.fields[i].name.text
                                /\ t.fields[i].type = u.fields[i].type
                                /\ t.fields[i].index = u.fields[i].index

RowStrings(rows) ==
  FlattenSeq([r \in DOMAIN rows |-> FlattenSeq([k \in DOMAIN rows[r] |-> ValueStrings(rows[r][k])])])

AppendTable(t, u) ==
  Changed(Unchanged(t), [t EXCEPT !.rows = @ \o u.rows], RowStrings(u.rows), <<>>)

AppendList(l, m) ==
  Changed(Unchanged(l), l \o m, ValueStrings([type |-> "list", v |-> m]), <<>>)

RECURSIVE AppendTree(_, _), CanAppendTree(_, _)

\* A new child: the array of children grows by xrealloc_array and so moves.
AddChild(r, child) ==
  Changed(r, Append([i \in DOMAIN r.v |-> [r.v[i] EXCEPT !.moved = TRUE]], CopyTree(child)),
          NodeStrings(child), <<>>)

\* ex_tree_append_child: a child of the same name is updated.
AppendChild_AlwaysNew(r, child) == AddChild(r, child)

AppendChild_KeepsOldValue(r, child) ==
  LET i == ChildNamed(r.v, child.name.text) IN
  IF i = 0 THEN AddChild(r, child)
  ELSE IF child.leaf
       THEN Changed(r, [r.v EXCEPT ![i].value = child.value], ValueStrings(child.value), <<>>)
  ELSE LET m == AppendTree(r.v[i], child)
       IN  Changed(r, [r.v EXCEPT ![i] = m.v], m.refs, m.frees)

AppendChild(r, child) ==
  LET i == ChildNamed(r.v, child.name.text) IN
  IF i = 0 THEN AddChild(r, child)
  ELSE IF child.leaf
       THEN Changed(r, [r.v EXCEPT ![i].value = child.value],
                    ValueStrings(child.value), ValueStrings(r.v[i].value))
  ELSE LET m == AppendTree(r.v[i], child)
       IN  Changed(r, [r.v EXCEPT ![i] = m.v], m.refs, m.frees)

AppendTree(t, u) ==
  LET m == FoldLeft(AppendChild, Unchanged(t.kids), u.kids)
  IN  [m EXCEPT !.v = [t EXCEPT !.kids = m.v]]

\* Appending to a leaf, or a leaf to a node of its name, is an ERROR.
CanAppendTree(t, u) ==
  /\ ~t.leaf /\ ~u.leaf
  /\ \A k \in DOMAIN u.kids :
       LET i == ChildNamed(t.kids, u.kids[k].name.text) IN
       i # 0 => /\ t.kids[i].leaf = u.kids[k].leaf
                /\ ~u.kids[k].leaf => CanAppendTree(t.kids[i], u.kids[k])

AppendValue(x, y) ==
  LET m == CASE x.type = "table" -> AppendTable(x.v, y.v)
             [] x.type = "list"  -> AppendList(x.v, y.v)
             [] x.type = "tree"  -> AppendTree(x.v, y.v)
  IN  [m EXCEPT !.v = [x EXCEPT !.v = m.v]]

IsScalar(x) == x.type \in {"int", "string"}

\* The append ends without an ERROR.
CanAppend(base, app) ==
  \A k \in DOMAIN app :
    LET i == GetBlock(base, app[k].name.text, app[k].val.type) IN
    i # 0 => CASE app[k].val.type = "table" -> SameHeader(base[i].val.v, app[k].val.v)
               [] app[k].val.type = "tree"  -> CanAppendTree(base[i].val.v, app[k].val.v)
               [] OTHER -> TRUE
-----------------------------------------------------------------------------
(* ex_append.  A scalar is overwritten, and a string so overwritten is not *)
(* freed.                                                                  *)
AppendBlock(r, b) ==
  LET i == GetBlock(r.v, b.name.text, b.val.type)
      m == AppendValue(r.v[i].val, b.val)
  IN  IF i = 0 THEN Changed(r, Append(r.v, CopyBlock(b)), BlockStrings(b), <<>>)
      ELSE IF IsScalar(b.val)
           THEN [Changed(r, [r.v EXCEPT ![i].val = b.val], ValueStrings(b.val), <<>>)
                 EXCEPT !.lost = @ \o ValueStrings(r.v[i].val)]
      ELSE Changed(r, [r.v EXCEPT ![i].val = m.v], m.refs, m.frees)

ExAppend(base, app) == FoldLeft(AppendBlock, Unchanged(base), app)

\* ex_extract_append: a new document, of a block for each one of app.
ExtractBlock(r, base, b) ==
  LET i == GetBlock(base, b.name.text, b.val.type)
      m == AppendValue(CopyBlock(base[i]).val, b.val)
  IN  IF i = 0 \/ IsScalar(b.val) THEN Changed(r, Append(r.v, CopyBlock(b)), BlockStrings(b), <<>>)
      ELSE Changed(r, Append(r.v, [base[i] EXCEPT !.val = m.v]),
                   BlockStrings(base[i]) \o m.refs, m.frees)

ExExtractAppend(base, app) ==
  LET Extract(r, b) == ExtractBlock(r, base, b) IN FoldLeft(Extract, Unchanged(<<>>), app)

\* ex_replace
ReplaceBlock_KeepsType(r, b) ==
  LET i == First({k \in DOMAIN r.v : r.v[k].name.text = b.name.text})
  IN  IF i = 0 THEN Changed(r, Append(r.v, CopyBlock(b)), BlockStrings(b), <<>>)
      ELSE Changed(r, [r.v EXCEPT ![i].val = CopyBlock(b).val],
                   ValueStrings(b.val), ValueStrings(r.v[i].val))

ReplaceBlock(r, b) ==
  LET i == GetBlock(r.v, b.name.text, b.val.type)
  IN  IF i = 0 THEN Changed(r, Append(r.v, CopyBlock(b)), BlockStrings(b), <<>>)
      ELSE Changed(r, [r.v EXCEPT ![i].val = CopyBlock(b).val],
                   ValueStrings(b.val), ValueStrings(r.v[i].val))

ExReplace(base, rep) == FoldLeft(ReplaceBlock, Unchanged(base), rep)
-----------------------------------------------------------------------------
(* ex_get: a path is a sequence of texts, each a sequence of characters.   *)
(* strncmp compares as many characters as the path's part has, so a name   *)
(* the part is a prefix of matches too.                                    *)
RECURSIVE TreeGetPath(_, _)

TreeGetPath_NameLength(t, path) ==
  IF t.leaf THEN IF Len(path) = 1 /\ t.lname.text = path[1] THEN t.value ELSE Nothing
  ELSE LET i == First({k \in DOMAIN t.kids : IsPrefix(t.kids[k].name.text, path[1])}) IN
       IF i = 0 THEN Nothing
       ELSE IF Len(path) > 1 THEN TreeGetPath(t.kids[i], Tail(path))
       ELSE IF t.kids[i].leaf THEN t.kids[i].value
       ELSE [type |-> "tree", v |-> t.kids[i]]

TreeGetPath(t, path) ==
  IF t.leaf THEN IF Len(path) = 1 /\ t.lname.text = path[1] THEN t.value ELSE Nothing
  ELSE LET i == First({k \in DOMAIN t.kids : IsPrefix(path[1], t.kids[k].name.text)}) IN
       IF i = 0 THEN Nothing
       ELSE IF Len(path) > 1 THEN TreeGetPath(t.kids[i], Tail(path))
       ELSE IF t.kids[i].leaf THEN t.kids[i].value
       ELSE [type |-> "tree", v |-> t.kids[i]]

ExGet(doc, path) ==
  LET i == First({k \in DOMAIN doc : IsPrefix(path[1], doc[k].name.text)}) IN
  IF i = 0 THEN Nothing
  ELSE IF Len(path) = 1 THEN doc[i].val
  ELSE IF doc[i].val.type # "tree" THEN Nothing
  ELSE TreeGetPath(doc[i].val.v, Tail(path))
=============================================================================
