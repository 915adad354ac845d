------------------------------- MODULE IniFile -------------------------------
(***************************************************************************)
(* The entries of an ini file and the memory they own (src/src/ini.c and   *)
(* the functions of src/src/ini_parser.y that build values).  The grammar  *)
(* yields entries `name = values', `name[position] = values' and groups of *)
(* entries; ini_parse takes them one by one and gathers the entries with a *)
(* position in lists; the client then frees each entry.                    *)
(***************************************************************************)
EXTENDS Integers, SequencesExt

CONSTANTS IniFiles,   \* sequences of what the grammar finds (see MCContainers)
          IniValues,  \* the values of their entries, and those in a list of another
          IniDepth,   \* bound on how deep the lists of values nest
          NULL

VARIABLES source,    \* the file
          next,      \* entries of it that were parsed
          ini,       \* the entries parsed so far
          freed,     \* strings freed, in order
          lost,      \* strings that nothing points to any more
          clearing   \* entries the client has freed

vars == <<source, next, ini, freed, lost, clearing>>

(* A value is a record with its type; a string stands for the one object   *)
(* that the lexer made for it.                                             *)
Null            == [type |-> "null"]
ListOf(values)  == [type |-> "list", list |-> values]

\* make_entry_value: one value is no list.
EntryValue(values) == IF Len(values) = 1 THEN values[1] ELSE ListOf(values)

Entry(name, value) == [name |-> name.text, at |-> name.id, value |-> value]

\* make_entry and make_list_assign.
PlainEntry(e) ==
  Entry(e.name, IF e.position = NULL THEN EntryValue(e.values)
                ELSE [type |-> "entry", pos |-> e.position, value |-> EntryValue(e.values)])

\* make_formation: what is in a formation stays as it is.  The grammar allows
\* formations in formations (ini_parser.y:142); they are left out.
Made(e) ==
  IF e.kind = "formation"
  THEN Entry(e.name, [type |-> "formation", entries |-> [i \in DOMAIN e.entries |-> PlainEntry(e.entries[i])]])
  ELSE PlainEntry(e)

\* ini_free_value: the strings it frees, in order.
Owned(value) ==
  LET Within[n \in 0 .. IniDepth] ==
        [v \in IniValues \cup {Null} |->
           IF v.type = "string" THEN <<v.id>>
           ELSE IF v.type = "list" /\ n # 0
           THEN FlattenSeq([i \in DOMAIN v.list |-> Within[n - 1][v.list[i]]]) ELSE <<>>]
  IN  Within[IniDepth][value]

OwnedInList(list) == FlattenSeq([i \in DOMAIN list |-> Owned(list[i])])

\* ini_free_entry: the name, and the strings of the value.
OwnedByPlain(e) ==
  <<e.at>> \o (CASE e.value.type = "list"  -> OwnedInList(e.value.list)
                 [] e.value.type = "entry" -> Owned(e.value.value)
                 [] OTHER                  -> Owned(e.value))

OwnedBy(e) ==
  IF e.value.type = "formation"
  THEN <<e.at>> \o FlattenSeq([i \in DOMAIN e.value.entries |-> OwnedByPlain(e.value.entries[i])])
  ELSE OwnedByPlain(e)

StringsOf(e) == ToSet(OwnedBy(e))

\* list_assign: the list grows to the position; what was there is overwritten.
Larger(list, n) == [i \in 1 .. n |-> IF i \in DOMAIN list THEN list[i] ELSE Null]

ListAssign_GrowsByOne(list, pos, value) ==
  [Larger(list, IF pos + 1 > Len(list) THEN Len(list) + 1 ELSE Len(list)) EXCEPT ![pos + 1] = value]

ListAssign(list, pos, value) ==
  [Larger(list, IF pos + 1 > Len(list) THEN pos + 1 ELSE Len(list)) EXCEPT ![pos + 1] = value]

Overwritten(list, pos) == IF pos + 1 \in DOMAIN list THEN ToSet(Owned(list[pos + 1])) ELSE {}

(* What the grammar finds: entries and formations of entries, with values  *)
(* that are no entries themselves, and strings of their own, since the     *)
(* lexer makes one of every text (ini_lexer.l:56 and 64).                  *)
IniLines == UNION {ToSet(f) : f \in IniFiles}

IsEntry(e) == /\ e.kind = "entry" /\ e.values \in Seq(IniValues)
              /\ e.position = NULL \/ e.position \in Nat
              /\ EntryValue(e.values) \in IniValues

IsLine(e) == IF e.kind = "formation"
             THEN e.entries \in Seq(ToSet(e.entries)) /\ \A x \in ToSet(e.entries) : IsEntry(x)
             ELSE IsEntry(e)

OwnsItsStrings(f) ==
  \A j, k \in DOMAIN f : /\ IsInjective(OwnedBy(Made(f[k])))
                         /\ j # k => StringsOf(Made(f[j])) \cap StringsOf(Made(f[k])) = {}

IniAssumption ==
  /\ IniDepth \in Nat
  /\ \A v \in IniValues : /\ v.type \notin {"entry", "formation"}
                          /\ v.type = "list" => v = ListOf(v.list) /\ v.list \in Seq(IniValues)
  /\ \A e \in IniLines : IsLine(e)
  /\ \A f \in IniFiles : f \in Seq(IniLines) /\ OwnsItsStrings(f)
-----------------------------------------------------------------------------
Init == /\ source \in IniFiles
        /\ next = 0 /\ ini = <<>> /\ freed = <<>> /\ lost = {} /\ clearing = 0

Parsing == next < Len(source)
Current == Made(source[next + 1])

\* The first entry of the name decides.
Same(e) == {i \in DOMAIN ini : ini[i].name = e.name}
FirstSame(e) == CHOOSE i \in Same(e) : \A j \in Same(e) : i <= j

ParsePlain ==
  /\ Parsing /\ Current.value.type # "entry"
  /\ ini' = Append(ini, Current)
  /\ next' = next + 1
  /\ UNCHANGED <<source, freed, lost, clearing>>

\* The entry has no list to go to: a new one is made, with its name.
ParseNewList ==
  LET e == Current IN
  /\ Parsing /\ e.value.type = "entry" /\ Same(e) = {}
  /\ ini' = Append(ini, [e EXCEPT !.value = ListOf(ListAssign(<<>>, e.value.pos, e.value.value))])
  /\ next' = next + 1
  /\ UNCHANGED <<source, freed, lost, clearing>>

\* It goes to a list of its name, and its own name is freed.
ParseIntoList ==
  LET e == Current
      i == FirstSame(e)
  IN
  /\ Parsing /\ e.value.type = "entry" /\ Same(e) # {} /\ ini[i].value.type = "list"
  /\ ini' = [ini EXCEPT ![i].value.list = ListAssign(@, e.value.pos, e.value.value)]
  /\ lost' = lost \cup Overwritten(ini[i].value.list, e.value.pos)
  /\ freed' = Append(freed, e.at)
  /\ next' = next + 1
  /\ UNCHANGED <<source, clearing>>

\* The name is that of something else: the entry is dropped, and not freed.
ParseIgnored ==
  LET e == Current IN
  /\ Parsing /\ e.value.type = "entry" /\ Same(e) # {} /\ ini[FirstSame(e)].value.type # "list"
  /\ lost' = lost \cup StringsOf(e)
  /\ next' = next + 1
  /\ UNCHANGED <<source, ini, freed, clearing>>

\* The client frees the entries with ini_free_entry.
FreeEntry ==
  /\ ~Parsing /\ clearing < Len(ini)
  /\ clearing' = clearing + 1
  /\ freed' = freed \o OwnedBy(ini[clearing + 1])
  /\ UNCHANGED <<source, next, ini, lost>>

Next == ParsePlain \/ ParseNewList \/ ParseIntoList \/ ParseIgnored \/ FreeEntry

Spec == Init /\ [][Next]_vars
-----------------------------------------------------------------------------
(* Reference: what a file means.  Entry k of the file, from the top:       *)
EntryOf(k) == Made(source[k])
Positioned(k) == EntryOf(k).value.type = "entry"
Named(k, n) == EntryOf(k).name = n

\* The first of a name makes the entry that list assignments go to.
Opens(k) == ~Positioned(k) \/ \A j \in 1 .. k - 1 : ~Named(j, EntryOf(k).name)

Assigned(k, p) == {j \in k .. next : /\ Positioned(j) /\ Named(j, EntryOf(k).name)
                                     /\ EntryOf(j).value.pos = p}

\* Position p of the list that entry k makes was written.
Written(k, p) == \/ Assigned(k, p) # {}
                 \/ ~Positioned(k) /\ p + 1 \in DOMAIN EntryOf(k).value.list

\* What is at position p of the list that entry k of the file makes.
Element(k, p) ==
  IF Assigned(k, p) # {}
  THEN EntryOf(CHOOSE j \in Assigned(k, p) : \A i \in Assigned(k, p) : i <= j).value.value
  ELSE IF Written(k, p) THEN EntryOf(k).value.list[p + 1] ELSE Null

First(k) == \A j \in 1 .. k - 1 : ~Named(j, EntryOf(k).name)

(* The entries are those of the file in order, `made' says which; the last *)
(* assignment to each position of a list counts, unassigned positions are  *)
(* null, and a list is as long as its last position (ini_parse,            *)
(* list_assign).                                                           *)
ListAsWritten(k, list) ==
  /\ \A p \in 0 .. Len(list) - 1 : list[p + 1] = Element(k, p)
  /\ \A j \in k .. next : Positioned(j) /\ Named(j, EntryOf(k).name)
                         => EntryOf(j).value.pos < Len(list)
  /\ ~Positioned(k) => Len(EntryOf(k).value.list) <= Len(list)
  /\ list # <<>> => Written(k, Len(list) - 1)

EntriesAsWritten ==
  \E made \in [DOMAIN ini -> 1 .. next] :
    /\ \A i, j \in DOMAIN ini : i < j => made[i] < made[j]
    /\ {made[i] : i \in DOMAIN ini} = {k \in 1 .. next : Opens(k)}
    /\ \A i \in DOMAIN ini :
         LET k == made[i] IN
         /\ ini[i].name = EntryOf(k).name /\ ini[i].at = EntryOf(k).at
         /\ IF First(k) /\ (Positioned(k) \/ EntryOf(k).value.type = "list")
            THEN ini[i].value.type = "list" /\ ListAsWritten(k, ini[i].value.list)
            ELSE ini[i].value = EntryOf(k).value

AllStrings == UNION {StringsOf(EntryOf(k)) : k \in DOMAIN source}

(* No string is freed twice, or freed after it was lost; and when all      *)
(* entries are freed every string is freed, but those of a position that   *)
(* was assigned twice and of an assignment to what is no list, which       *)
(* nothing frees any more (ini.c:41 and 74).                               *)
FreedOnceOrLost ==
  /\ \A i, j \in DOMAIN freed : freed[i] = freed[j] => i = j
  /\ \A i \in DOMAIN freed : freed[i] \notin lost
  /\ ~Parsing /\ clearing = Len(ini) => {freed[i] : i \in DOMAIN freed} = AllStrings \ lost

IniAsWritten == EntriesAsWritten /\ FreedOnceOrLost
=============================================================================
