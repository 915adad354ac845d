------------------------------ MODULE AinTables ------------------------------
(***************************************************************************)
(* The tables of an AIN code image in memory that know of each other       *)
(* (src/src/ain.c): functions and structures, found by name through hash   *)
(* tables, and enumerations, which are searched.  A function whose name is *)
(* S@f belongs to the structure or enumeration S.  A client adds,          *)
(* duplicates, looks up and frees whole tables, as an assembler does to an *)
(* image it has read or made with ain_new.                                 *)
(*                                                                         *)
(* A hash table is the map that HashTable implements.  Every slot ain.c    *)
(* gets from ht_put it uses before the next put.                           *)
(***************************************************************************)
EXTENDS Integers, Sequences

CONSTANTS Owners,     \* names of structures and enumerations
          Members,    \* names of functions after the '@', if they have one
          Images,     \* what ain_open may have read
          NULL,
          MaxFunctions, MaxStructures  \* bounds on the length of a table

\* S@f is [owner |-> "S", member |-> "f"]; a plain name has no owner.
FunctionNames == [owner : Owners \cup {NULL}, member : Members]

ImageType == [functions  : Seq([name : FunctionNames, default : BOOLEAN]),
              structures : Seq(Owners),
              enums      : Seq(Owners)]

ASSUME AinTablesAssumption == NULL \notin Owners /\ Images \subseteq ImageType

VARIABLES functions,    \* the table of functions
          func_ht,      \* _func_ht: the list of indexes of each name
          indexed,      \* functions ain_index_functions has added, or -1 when it is done
          structures,   \* names of the structures
          struct_ht,    \* _struct_ht: the index of each name, or -1
          enums,        \* names of the enumerations
          stale,        \* ghost: tables freed since their index was built
          inferred,     \* ghost: ain_init_member_functions saw these structures and enumerations
          duplicated,   \* ghost: a function with a default text was duplicated
          fault         \* ghost: something was freed twice

functionVars == <<functions, func_ht, indexed>>
structVars   == <<structures, struct_ht, enums>>
ghosts       == <<inferred, duplicated, fault>>
vars == <<functions, func_ht, indexed, structures, struct_ht, enums,
          stale, inferred, duplicated, fault>>

IsIn(x, s) == \E i \in DOMAIN s : s[i] = x

\* The index (from 0) of the first and of the last entry x, or -1.
First(x, s) == IF IsIn(x, s)
               THEN CHOOSE i \in 0 .. Len(s) - 1 :
                      s[i + 1] = x /\ \A j \in 0 .. i - 1 : s[j + 1] # x
               ELSE -1

Last(x, s) == IF IsIn(x, s)
              THEN CHOOSE i \in 0 .. Len(s) - 1 :
                     s[i + 1] = x /\ \A j \in i + 1 .. Len(s) - 1 : s[j + 1] # x
              ELSE -1

\* default: a parameter has a default text; owned: no one else frees that text.
Function(name, struct_type, enum_type, default) ==
  [name |-> name, struct_type |-> struct_type, enum_type |-> enum_type,
   default |-> default, owned |-> TRUE]

NoLists == [n \in FunctionNames |-> <<>>]

\* After the tables were read (read_tag) or made (ain_new), with the index of
\* structures; ain_index_functions is about to begin.  A function's owner is
\* not known yet: its types are 0, not -1.
InitWith(image) ==
  /\ functions = [i \in 1 .. Len(image.functions) |->
                   Function(image.functions[i].name, 0, 0, image.functions[i].default)]
  /\ func_ht = NoLists
  /\ indexed = 0
  /\ structures = image.structures
  /\ struct_ht = [n \in Owners |-> Last(n, image.structures)]
  /\ enums = image.enums
  /\ stale = {}
  /\ inferred = FALSE
  /\ duplicated = FALSE
  /\ fault = FALSE

Init == \E image \in Images : InitWith(image)

Idle == ~fault /\ indexed = -1
-----------------------------------------------------------------------------
(* Functions.                                                              *)

\* func_ht_add.
Listed(ht, name, i) == [ht EXCEPT ![name] = Append(@, i)]

\* ain_index_functions: a new table, to which one function after another is added.
IndexFunctions ==
  /\ Idle
  /\ func_ht' = NoLists
  /\ indexed' = 0
  /\ stale' = stale \ {"functions"}
  /\ UNCHANGED <<functions, structVars, ghosts>>

IndexNext ==
  /\ ~fault /\ indexed # -1
  /\ IF indexed < Len(functions)
     THEN /\ func_ht' = Listed(func_ht, functions[indexed + 1].name, indexed)
          /\ indexed' = indexed + 1
     ELSE indexed' = -1 /\ UNCHANGED func_ht
  /\ UNCHANGED <<functions, structVars, stale, ghosts>>

\* function_init_struct_type: by the index of the structures, then by a search
\* of the enumerations.
StructType(name) == IF name.owner = NULL THEN -1 ELSE struct_ht[name.owner]

EnumType(name) == IF name.owner = NULL \/ StructType(name) >= 0 THEN -1 ELSE First(name.owner, enums)

\* A stale list is not shortened: its length is bounded too.
Room(name) == Len(functions) < MaxFunctions /\ Len(func_ht[name]) < MaxFunctions

Added(f) == /\ functions' = Append(functions, f)
            /\ func_ht' = Listed(func_ht, f.name, Len(functions))
            /\ UNCHANGED <<indexed, structVars, stale, inferred, fault>>

AddFunction_EnumFirst(name) ==
  LET e == IF name.owner = NULL THEN -1 ELSE First(name.owner, enums) IN
  /\ Idle /\ Room(name)
  /\ Added(Function(name, IF e >= 0 THEN -1 ELSE StructType(name), e, FALSE))
  /\ UNCHANGED duplicated

AddFunction(name) ==
  /\ Idle /\ Room(name)
  /\ Added(Function(name, StructType(name), EnumType(name), FALSE))
  /\ UNCHANGED duplicated

\* ain_dup_function copies the pointers of default values.
DupFunction_NotListed(i) ==
  /\ Idle /\ Room(functions[i + 1].name)
  /\ functions' = Append(functions, [functions[i + 1] EXCEPT !.owned = FALSE])
  /\ duplicated' = (duplicated \/ functions[i + 1].default)
  /\ UNCHANGED <<func_ht, indexed, structVars, stale, inferred, fault>>

DupFunction(i) ==
  /\ Idle /\ Room(functions[i + 1].name)
  /\ Added([functions[i + 1] EXCEPT !.owned = FALSE])
  /\ duplicated' = (duplicated \/ functions[i + 1].default)

\* ain_init_member_functions, from the names alone: the first structure of the
\* owner's name, otherwise the first enumeration.
Inferred(f) ==
  LET s == IF f.name.owner = NULL THEN -1 ELSE First(f.name.owner, structures)
      e == IF f.name.owner = NULL \/ s # -1 THEN -1 ELSE First(f.name.owner, enums)
  IN  [f EXCEPT !.struct_type = s, !.enum_type = e]

InitMemberFunctions ==
  /\ Idle
  /\ functions' = [i \in DOMAIN functions |-> Inferred(functions[i])]
  /\ inferred' = TRUE
  /\ UNCHANGED <<func_ht, indexed, structVars, stale, duplicated, fault>>

FreesTwice == \E i \in DOMAIN functions : functions[i].default /\ ~functions[i].owned

\* ain_free_functions: the index stays.
FreeFunctions_KeepsTable ==
  /\ Idle
  /\ fault' = FreesTwice
  /\ functions' = [i \in DOMAIN functions |-> [functions[i] EXCEPT !.owned = FALSE]]
  /\ stale' = stale \cup {"functions"}
  /\ UNCHANGED <<func_ht, indexed, structVars, inferred, duplicated>>

FreeFunctions ==
  /\ Idle
  /\ fault' = FreesTwice
  /\ functions' = <<>>
  /\ stale' = stale \cup {"functions"}
  /\ UNCHANGED <<func_ht, indexed, structVars, inferred, duplicated>>

\* ain_get_function of name#n, and ain_get_function_index of the function at i.
GetFunction(name, n) == IF n < Len(func_ht[name]) THEN func_ht[name][n + 1] ELSE -1

GetFunctionIndex(i) == LET p == First(i, func_ht[functions[i + 1].name]) IN IF p = -1 THEN 0 ELSE p
-----------------------------------------------------------------------------
(* Structures.                                                             *)

\* struct_ht_add stores over the index of an earlier structure of the name.
AddStruct_KeepsFirst(name) ==
  /\ Idle /\ Len(structures) < MaxStructures
  /\ structures' = Append(structures, name)
  /\ struct_ht' = IF struct_ht[name] >= 0 THEN struct_ht ELSE [struct_ht EXCEPT ![name] = Len(structures)]
  /\ inferred' = FALSE
  /\ UNCHANGED <<functionVars, enums, stale, duplicated, fault>>

AddStruct(name) ==
  /\ Idle /\ Len(structures) < MaxStructures
  /\ structures' = Append(structures, name)
  /\ struct_ht' = [struct_ht EXCEPT ![name] = Len(structures)]
  /\ inferred' = FALSE
  /\ UNCHANGED <<functionVars, enums, stale, duplicated, fault>>

FreeStructures ==
  /\ Idle
  /\ structures' = <<>>
  /\ stale' = stale \cup {"structures"}
  /\ inferred' = FALSE
  /\ UNCHANGED <<functionVars, struct_ht, enums, duplicated, fault>>

FreeEnums ==
  /\ Idle
  /\ enums' = <<>>
  /\ inferred' = FALSE
  /\ UNCHANGED <<functionVars, structures, struct_ht, stale, duplicated, fault>>
-----------------------------------------------------------------------------
Next == \/ IndexFunctions \/ IndexNext
        \/ \E name \in FunctionNames : AddFunction(name)
        \/ \E i \in 0 .. Len(functions) - 1 : DupFunction(i)
        \/ InitMemberFunctions \/ FreeFunctions
        \/ \E name \in Owners : AddStruct(name)
        \/ FreeStructures \/ FreeEnums

\* ain_index_functions runs to its end.
Spec == Init /\ [][Next]_vars
-----------------------------------------------------------------------------
FunctionType == [name : FunctionNames, struct_type : Int, enum_type : Int,
                 default : BOOLEAN, owned : BOOLEAN]

TypeOK == /\ functions \in Seq(FunctionType)
          /\ func_ht \in [FunctionNames -> Seq(Nat)]
          /\ indexed \in {-1} \cup 0 .. Len(functions)
          /\ structures \in Seq(Owners) /\ enums \in Seq(Owners)
          /\ struct_ht \in [Owners -> Int]
          /\ stale \subseteq {"functions", "structures"}
          /\ inferred \in BOOLEAN /\ duplicated \in BOOLEAN /\ fault \in BOOLEAN

Fresh(t) == t \notin stale

(* ain_get_function finds a function by the number ain_get_function_index  *)
(* gives for it, through additions, duplicates and rebuilt indexes, and    *)
(* the numbers go by age.  Not so once ain_free_functions has run, until   *)
(* ain_index_functions does.                                               *)
FunctionsFound ==
  Fresh("functions") /\ indexed = -1 =>
    /\ \A i \in 0 .. Len(functions) - 1 :
         GetFunction(functions[i + 1].name, GetFunctionIndex(i)) = i
    /\ \A name \in FunctionNames : \A p, q \in 1 .. Len(func_ht[name]) :
         p < q => func_ht[name][p] < func_ht[name][q]

(* ain_get_struct finds the last structure of a name, or none if there is  *)
(* none, unless ain_free_structures left the index as it was.              *)
StructuresFound ==
  Fresh("structures") => \A name \in Owners : struct_ht[name] = Last(name, structures)

Distinct(s) == \A i, j \in DOMAIN s : s[i] = s[j] => i = j

(* Once ain_init_member_functions has inferred the owners of the functions *)
(* from their names, those of the functions that ain_add_function and      *)
(* ain_dup_function add are what a new inference would make them, though   *)
(* function_init_struct_type searches in another way.  Not so if two       *)
(* structures have one name, or the structures were freed.                 *)
OwnersInferred ==
  inferred /\ Fresh("structures") /\ Distinct(structures) =>
    \A i \in DOMAIN functions : functions[i] = Inferred(functions[i])

(* Freeing the functions frees nothing twice, unless one with a default    *)
(* text was duplicated: ain_dup_function shares the text's pointer.        *)
FreedOnce == fault => duplicated
=============================================================================
