----------------------------- MODULE ExDocuments -----------------------------
(***************************************************************************)
(* A client of EX documents (src/src/ex.c): it reads documents from files, *)
(* appends, extracts and replaces in any order, takes strings out of them  *)
(* and frees them.  The strings of the documents are shared by reference   *)
(* counts; the program ends at an ERROR, so a call that would meet one is  *)
(* not made.                                                               *)
(*                                                                         *)
(* Beside the documents stands the layout of tables that the reader keeps  *)
(* from file to file (ExTableLayout).  A document has its tables from the  *)
(* reader whatever the layout, so a behaviour is about one of the two.     *)
(***************************************************************************)
EXTENDS ExDocument, FiniteSetsExt, TLC, ExTableLayout

CONSTANTS Handles,      \* variables of the client that hold a document
          NULL,
          Files,        \* the documents in files; in each, names are distinct
          MaxEdits,     \* bound: documents appended, extracted or replaced
          MaxHeld       \* bound: strings the client holds

VARIABLES subject, \* what the behaviour is about: "documents" or "layout"
          docs,    \* the document of each handle, or NULL
          ref,     \* the reference count of each string
          held,    \* the strings the client has taken out
          lost,    \* ghost: references no one will free, for each string
          grown,   \* ghost: the handles whose document was appended to
          edits    \* bound: appends, extracts and replaces so far

storeVars == <<docs, ref, held, lost, grown, edits>>
varsEx    == <<subject, vars, storeVars>>

Live == {h \in Handles : docs[h] # NULL}

Count(x, strings) == Cardinality({i \in DOMAIN strings : strings[i].id = x})

StringsOf(doc) == {s.id : s \in Range(DocStrings(doc))}

Strings == UNION {StringsOf(d) : d \in Files}

\* string_ref and free_string, as often as a result says.
Balance(r) == ref' = [x \in Strings |-> ref[x] + Count(x, r.refs) - Count(x, r.frees)]
-----------------------------------------------------------------------------
InitStore == /\ docs = [h \in Handles |-> NULL]
             /\ ref = [x \in Strings |-> 0]
             /\ held = {}
             /\ lost = [x \in Strings |-> 0]
             /\ grown = {}
             /\ edits = 0

\* ex_read: every string of the document is a new object.  Objects are named
\* after their place in the file, so it is read again once they are gone.
Read(h, d) ==
  /\ docs[h] = NULL
  /\ \A x \in StringsOf(d) : ref[x] = 0
  /\ docs' = [docs EXCEPT ![h] = d]
  /\ ref' = [x \in Strings |-> ref[x] + Count(x, DocStrings(d))]
  /\ UNCHANGED <<held, lost, grown, edits>>

Edit == edits < MaxEdits /\ edits' = edits + 1

\* ex_append.  A document is not appended to itself.
AppendDoc(h, g) ==
  LET r == ExAppend(docs[h], docs[g]) IN
  /\ h # g /\ CanAppend(docs[h], docs[g])
  /\ docs' = [docs EXCEPT ![h] = r.v]
  /\ Balance(r)
  /\ lost' = [x \in Strings |-> lost[x] + Count(x, r.lost)]
  /\ grown' = grown \cup {h}
  /\ Edit /\ UNCHANGED held

\* ex_extract_append
ExtractDoc(h, base, app) ==
  LET r == ExExtractAppend(docs[base], docs[app]) IN
  /\ docs[h] = NULL /\ CanAppend(docs[base], docs[app])
  /\ docs' = [docs EXCEPT ![h] = r.v]
  /\ Balance(r)
  /\ grown' = grown \cup {h}
  /\ Edit /\ UNCHANGED <<held, lost>>

\* ex_replace.  A document does not replace itself.
ReplaceDoc(h, g) ==
  LET r == ExReplace(docs[h], docs[g]) IN
  /\ h # g
  /\ docs' = [docs EXCEPT ![h] = r.v]
  /\ Balance(r)
  /\ Edit /\ UNCHANGED <<held, lost, grown>>

\* ex_get_string: the client gets a reference of its own.
GetString(h, text) ==
  LET i == GetBlock(docs[h], text, "string") IN
  /\ i # 0
  /\ docs[h][i].val.v.id \notin held /\ Cardinality(held) < MaxHeld
  /\ held' = held \cup {docs[h][i].val.v.id}
  /\ ref' = [ref EXCEPT ![docs[h][i].val.v.id] = @ + 1]
  /\ UNCHANGED <<docs, lost, grown, edits>>

\* The client frees a string it holds.
FreeHeld(x) ==
  /\ held' = held \ {x}
  /\ ref' = [ref EXCEPT ![x] = @ - 1]
  /\ UNCHANGED <<docs, lost, grown, edits>>

\* ex_free
FreeDoc(h) ==
  /\ docs' = [docs EXCEPT ![h] = NULL]
  /\ ref' = [x \in Strings |-> ref[x] - Count(x, DocStrings(docs[h]))]
  /\ grown' = grown \ {h}
  /\ UNCHANGED <<held, lost, edits>>

NextStore ==
  \/ \E h \in Handles, d \in Files : Read(h, d)
  \/ \E h, g \in Live : AppendDoc(h, g)
  \/ \E h \in Handles, g, e \in Live : ExtractDoc(h, g, e)
  \/ \E h, g \in Live : ReplaceDoc(h, g)
  \/ \E h \in Live : \E b \in Range(docs[h]) : GetString(h, b.name.text)
  \/ \E x \in held : FreeHeld(x)
  \/ \E h \in Live : FreeDoc(h)

InitEx == subject \in {"documents", "layout"} /\ Init /\ InitStore

NextEx ==
  /\ UNCHANGED subject
  /\ \/ subject = "documents" /\ NextStore /\ UNCHANGED vars
     \/ subject = "layout"    /\ Next      /\ UNCHANGED storeVars

SpecEx == InitEx /\ [][NextEx]_varsEx
-----------------------------------------------------------------------------
(* A string is counted once for each place that refers to it: the          *)
(* documents, the client, and what ex_append has overwritten.  Nothing is  *)
(* freed while it is in use, and nothing but the overwritten is leaked.    *)
RefExact ==
  \A x \in Strings :
    ref[x] = FoldSet(LAMBDA h, n : n + Count(x, DocStrings(docs[h])), 0, Live)
             + lost[x] + (IF x \in held THEN 1 ELSE 0)

(* What a document says, seen from outside: pairs of a key and a value, a  *)
(* key being the name and type of a block and, in trees, the path to a leaf.*)
RECURSIVE Leaves(_)

Leaves(t) ==
  IF t.leaf THEN {<<<<>>, t.value>>}
  ELSE UNION {{<<<<t.kids[i].name.text>> \o l[1], l[2]>> : l \in Leaves(t.kids[i])} : i \in DOMAIN t.kids}

BlockContent(b) ==
  IF b.val.type = "tree" THEN {<<<<b.name.text, "tree", l[1]>>, l[2]>> : l \in Leaves(b.val.v)}
  ELSE {<<<<b.name.text, b.val.type, <<>>>>, b.val>>}

Content(doc) == UNION {BlockContent(b) : b \in Range(doc)}

Joined(x, y) == CASE x.type = "list"  -> [x EXCEPT !.v = @ \o y.v]
                  [] x.type = "table" -> [x EXCEPT !.v.rows = @ \o y.v.rows]
                  [] OTHER            -> y

(* Whatever documents a client has come to, appending one to another keeps *)
(* what only one of them says, lets the appended win where both say        *)
(* something, and joins lists and tables (ex_append).                      *)
AppendMerges ==
  \A h, g \in Live :
    h # g /\ CanAppend(docs[h], docs[g]) =>
      LET A == Content(docs[h])
          B == Content(docs[g])
          Only(S, T) == {a \in S : \A b \in T : b[1] # a[1]}
      IN  Content(ExAppend(docs[h], docs[g]).v)
            = Only(A, B) \cup Only(B, A)
              \cup UNION {{<<a[1], Joined(a[2], b[2])>> : b \in {c \in B : c[1] = a[1]}} : a \in A}

(* ex_extract_append gives "only the objects added/modified": replacing    *)
(* them in the base comes to the same as appending.                        *)
ReplaceOfExtract ==
  \A h, g \in Live :
    h # g /\ CanAppend(docs[h], docs[g]) =>
      Content(ExReplace(docs[h], ExExtractAppend(docs[h], docs[g]).v).v)
        = Content(ExAppend(docs[h], docs[g]).v)

\* No earlier sibling's name begins with a part of the path.
RECURSIVE InSight(_, _)

InSight(t, path) ==
  \/ path = <<>>
  \/ LET i == ChildNamed(t.kids, path[1]) IN
     /\ i # 0
     /\ \A j \in 1 .. i - 1 : ~IsPrefix(path[1], t.kids[j].name.text)
     /\ InSight(t.kids[i], Tail(path))

(* After an append, ex_get finds every appended leaf under its path, with  *)
(* the appended value, unless an earlier name hides it by having a part of *)
(* the path as its beginning.                                              *)
AppendedIsFound ==
  \A h, g \in Live :
    h # g /\ CanAppend(docs[h], docs[g]) =>
      LET doc == ExAppend(docs[h], docs[g]).v IN
      \A b \in Range(docs[g]) :
        b.val.type = "tree" =>
          LET i == GetBlock(doc, b.name.text, "tree") IN
          \A l \in Leaves(b.val.v) :
            /\ \A j \in 1 .. i - 1 : ~IsPrefix(b.name.text, doc[j].name.text)
            /\ InSight(doc[i].val.v, l[1])
            => ExGet(doc, <<b.name.text>> \o l[1]) = l[2]

\* The subtrees ex_get can be asked for.
RECURSIVE InnerPaths(_)

InnerPaths(t) ==
  IF t.leaf THEN {}
  ELSE {<<>>} \cup UNION {{<<t.kids[i].name.text>> \o p : p \in InnerPaths(t.kids[i])} : i \in DOMAIN t.kids}

(* The subtrees that ex_get hands out are where the document has them, as  *)
(* long as nothing was appended to that very document, whatever happened   *)
(* to those it was copied from.  (After an append they may not be: growing *)
(* the children leaves the pointers beside them behind.)                   *)
LookupsLive ==
  \A h \in Live \ grown : \A b \in Range(docs[h]) :
    b.val.type = "tree" =>
      \A p \in InnerPaths(b.val.v) :
        LET x == ExGet(docs[h], <<b.name.text>> \o p) IN x.type = "tree" => ~x.v.moved
=============================================================================
