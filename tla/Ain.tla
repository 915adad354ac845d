--------------------------------- MODULE Ain ---------------------------------
(***************************************************************************)
(* An AIN code image and those who work on it (src/include/system4/ain.h): *)
(* a loader that opens a file, an assembler that adds to the tables of an  *)
(* image or to the sections of a new one, and a disassembler that walks    *)
(* the code.  They share the image and no state that the others change, so *)
(* a behaviour is that of one of them: `work` says which.                  *)
(***************************************************************************)
EXTENDS AinTables

CONSTANTS Texts, StringTables, MaxStrings,  \* of the string table: what ain_open may have read
          Versions, MaxEntries,             \* of ain_new, and of the tables of a new image
          Files, Garbage,                   \* of AinReader
          Programs, StackSize               \* of Dasm

ASSUME AinAssumption ==
  /\ StackSize \in Nat \ {0}
  /\ StringTables \subseteq Seq(Texts)
  /\ NULL \notin Programs
  /\ \A a \in Programs : a.version \in Nat /\ a.code \in Seq([op : STRING, arg : Int])
  /\ \A v \in Versions : v.major \in Nat /\ v.minor \in Nat

VARIABLES work,       \* "tables", "strings", "sections", "reader" or "cursor"
          strings,    \* the string table
          string_ht,  \* _string_ht: the index of each text, or -1; NULL until it is needed
          fresh,      \* ghost: the string table was not freed since its index was made
          major, new_minor,  \* version and minor_version of a new image
          present, entries,  \* its sections that are present, and how many entries each has
          written, status, index, version, minor, image, sections, section,
          modern, ain, addr, instr, func, func_stack, entered, depth, walked

Reader  == INSTANCE AinReader
Cursor  == INSTANCE Dasm

stringVars == <<strings, string_ht, fresh>>
newVars    == <<major, new_minor, present, entries>>
readerVars == <<written, status, index, version, minor, image, sections, section>>
cursorVars == <<modern, ain, addr, instr, func, func_stack, entered, depth, walked>>

varsAin == <<work, vars, stringVars, newVars, readerVars, cursorVars>>
-----------------------------------------------------------------------------
(* The string table and its index (src/src/ain.c), which is made when it   *)
(* is first needed: ain_add_string, ain_get_string_no and ain_free_strings *)
(* in any order, on an image that was read.                                *)
InitStrings == strings \in StringTables /\ string_ht = NULL /\ fresh = TRUE

\* init_string_ht, if there is no index yet, keeps the first of equal strings.
StringIndex == IF string_ht = NULL THEN [t \in Texts |-> First(t, strings)] ELSE string_ht

AddString_PastEnd(t) ==
  LET i == StringIndex[t] IN
  /\ Len(strings) < MaxStrings
  /\ string_ht' = IF i >= 0 THEN StringIndex ELSE [StringIndex EXCEPT ![t] = Len(strings) + 1]
  /\ strings' = IF i < 0 \/ i = Len(strings) THEN Append(strings, t) ELSE strings
  /\ UNCHANGED fresh

\* A string is appended when its index is the size of the table: a new one,
\* or a stale one that happens to be.
AddString(t) ==
  LET i == StringIndex[t] IN
  /\ Len(strings) < MaxStrings
  /\ string_ht' = IF i >= 0 THEN StringIndex ELSE [StringIndex EXCEPT ![t] = Len(strings)]
  /\ strings' = IF i < 0 \/ i = Len(strings) THEN Append(strings, t) ELSE strings
  /\ UNCHANGED fresh

GetStringNo == /\ string_ht' = StringIndex
               /\ UNCHANGED <<strings, fresh>>

\* ain_free_strings: the index, if there is one, stays.
FreeStrings == /\ strings' = <<>>
               /\ fresh' = (string_ht = NULL)
               /\ UNCHANGED string_ht

NextStrings == (\E t \in Texts : AddString(t)) \/ GetStringNo \/ FreeStrings
-----------------------------------------------------------------------------
(* Which sections a new image has (ain_new of src/src/ain.c) and what the  *)
(* functions that add to its tables do about them: an image is written     *)
(* from the tables whose section is present.                               *)
Sections == {"KEYC", "GLOB", "GSET", "STRT", "MSG0", "MSG1", "HLL0", "SWI0", "SLBL", "FNAM",
             "OJMP", "FNCT", "DELG", "OBJG", "ENUM"}

\* MSG1 takes the place of MSG0 in games after version 6.0.
HasMsg1 == major > 6 \/ (major = 6 /\ new_minor > 0)

Messages == IF HasMsg1 THEN "MSG1" ELSE "MSG0"

PresentIf(cond, tags) == IF cond THEN tags ELSE {}

\* ain_new.
InitSections == \E v \in Versions :
  /\ major = v.major /\ new_minor = v.minor
  /\ present = {"GLOB", "STRT", "HLL0", "SWI0"} \cup {Messages}
                 \cup PresentIf(major < 12, {"KEYC", "GSET", "FNAM"})
                 \cup PresentIf(major = 1, {"SLBL"})
                 \cup PresentIf(major < 7, {"OJMP", "FNCT"})
                 \cup PresentIf(major >= 7, {"DELG"})
                 \cup PresentIf(major >= 5, {"OBJG"})
                 \cup PresentIf(major >= 12, {"ENUM"})
  /\ entries = [s \in Sections |-> IF s = Messages THEN 1 ELSE 0]

Grow(s) ==
  /\ entries[s] < MaxEntries
  /\ entries' = [entries EXCEPT ![s] = @ + 1]
  /\ UNCHANGED <<major, new_minor>>

\* ain_add_global, ain_add_initval, ain_add_struct, ain_add_library,
\* ain_add_switch, ain_add_file and ain_add_message.
AddEntry == \E s \in {"GLOB", "GSET", "STRT", "HLL0", "SWI0", "FNAM", Messages} :
               Grow(s) /\ UNCHANGED present

\* ain_add_functype and ain_add_delegate.
AddType_NotPresent == \E s \in {"FNCT", "DELG"} : Grow(s) /\ UNCHANGED present

AddType == \E s \in {"FNCT", "DELG"} : Grow(s) /\ present' = present \cup {s}

\* ain_free_globals and its like: the section stays.
FreeTable == /\ \E s \in Sections : entries' = [entries EXCEPT ![s] = 0]
             /\ UNCHANGED <<major, new_minor, present>>

NextSections == AddEntry \/ AddType \/ FreeTable
-----------------------------------------------------------------------------
\* What the others have, where one works.
NoStrings == strings = <<>> /\ string_ht = NULL /\ fresh = TRUE
NoTables  == InitWith([functions |-> <<>>, structures |-> <<>>, enums |-> <<>>])
NotMade   == major = 0 /\ new_minor = 0 /\ present = {} /\ entries = NULL
NotRead   == /\ written = NULL /\ status = NULL /\ index = 1 /\ version = -1 /\ minor = 0
             /\ image = NULL /\ sections = NULL /\ section = NULL
NoCursor  == Cursor!Init

InitAin ==
  \/ work = "tables"   /\ Init         /\ NoStrings    /\ NotMade      /\ NotRead     /\ NoCursor
  \/ work = "strings"  /\ InitStrings  /\ NoTables     /\ NotMade      /\ NotRead     /\ NoCursor
  \/ work = "sections" /\ InitSections /\ NoTables     /\ NoStrings    /\ NotRead     /\ NoCursor
  \/ work = "reader"   /\ Reader!Init  /\ NoTables     /\ NoStrings    /\ NotMade     /\ NoCursor
  \/ work = "cursor"   /\ Cursor!Init  /\ NoTables     /\ NoStrings    /\ NotMade     /\ NotRead

NextAin ==
  /\ UNCHANGED work
  /\ \/ /\ work = "tables" /\ Next
        /\ UNCHANGED <<stringVars, newVars, readerVars, cursorVars>>
     \/ /\ work = "strings" /\ NextStrings
        /\ UNCHANGED <<vars, newVars, readerVars, cursorVars>>
     \/ /\ work = "sections" /\ NextSections
        /\ UNCHANGED <<vars, stringVars, readerVars, cursorVars>>
     \/ /\ work = "reader" /\ Reader!Next
        /\ UNCHANGED <<vars, stringVars, newVars, cursorVars>>
     \/ /\ work = "cursor" /\ Cursor!Next
        /\ UNCHANGED <<vars, stringVars, newVars, readerVars>>

SpecAin == InitAin /\ [][NextAin]_varsAin
-----------------------------------------------------------------------------
(* ain_get_string_no finds the first occurrence of a text, also of one that*)
(* the file repeats and one that ain_add_string added, unless the strings  *)
(* were freed under the index.                                             *)
StringsFound ==
  fresh /\ string_ht # NULL => \A t \in Texts : string_ht[t] = First(t, strings)

(* Nothing that is added to a new image is lost when its present sections  *)
(* are written, in any version, but file names and initial values of       *)
(* globals in version 12 and later: ain_add_file and ain_add_initval, not  *)
(* like ain_add_functype, do not bring their section back.                 *)
NothingDropped ==
  work = "sections" =>
    \A s \in Sections : entries[s] > 0 /\ s \notin present => major >= 12 /\ s \in {"GSET", "FNAM"}

(* An image that ain_open accepts is the one that was written.             *)
OpenedAsWritten == work = "reader" => Reader!OpenedAsWritten

(* The cursor of dasm.c is never inside an instruction, unless a newer     *)
(* image changed the table of instructions.                                *)
CursorOnInstruction == Cursor!CursorOnInstruction

(* dasm_function is the innermost function, as far as its stack goes.      *)
FunctionIsInnermost == Cursor!FunctionIsInnermost
=============================================================================
