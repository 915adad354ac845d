------------------------------ MODULE AinReader ------------------------------
(***************************************************************************)
(* How an AIN file is read (src/src/ain.c, ain_open and what it calls).    *)
(* The file is a sequence of sections, each a tag and its contents; what   *)
(* the contents are depends on the version, whose minor number no section  *)
(* has: it is guessed from the names of functions and the kind of the      *)
(* messages.                                                               *)
(*                                                                         *)
(* A file is a sequence of tokens <<kind, value>>: a tag, an integer, a    *)
(* string, the masked bytes of a message, the code, or a junk byte.        *)
(* Positions count tokens.                                                 *)
(***************************************************************************)
EXTENDS Integers, Sequences

LOCAL INSTANCE SequencesExt

CONSTANTS Files,     \* [raw, tokens, and what was written: major, minor, marked, image]
          NULL,
          Garbage    \* what is read where the file holds something else

VARIABLES written,   \* the file that is opened
          status,    \* "reading", "read", then the result of ain_open
          index,     \* the next token
          version, minor,
          image,     \* what each section had, by tag
          sections,  \* the file map: [addr, size] of each section, NULL if not present
          section    \* the tag of the section being read, or NULL

vars == <<written, status, index, version, minor, image, sections, section>>

Tags == {"VERS", "KEYC", "CODE", "FUNC", "GLOB", "GSET", "STRT", "MSG0", "MSG1", "MAIN", "MSGF",
         "HLL0", "SWI0", "GVER", "SLBL", "STR0", "FNAM", "OJMP", "FNCT", "DELG", "OBJG", "ENUM"}

file == written.tokens

\* AIN_VERSION_GTE.
Gte(a, b) == version > a \/ (version = a /\ minor >= b)
-----------------------------------------------------------------------------
(* The layout of each entry of a section: the kinds of its fields, in the  *)
(* order read_... reads them.  A kind in the plural is a count and as many *)
(* items.  Which fields an entry has depends on the version.               *)

When(cond, kind) == IF cond THEN kind ELSE "nothing"

\* read_return_type, and the type of an argument or a result in a library.
ReturnType == IF Gte(11, 0) THEN "type" ELSE "pair"
HllType    == IF Gte(14, 0) THEN "type" ELSE "int"

\* read_variables.
Variable == <<"string", When(Gte(12, 0), "string"), "type", When(Gte(8, 0), "initval")>>

\* read_globals.
Global == <<"string", When(Gte(12, 0), "string"), "type", When(Gte(5, 0), "int")>>

\* read_functions: address, name, is_label, result, arguments, variables,
\* is_lambda and crc, then the variables.
Function == <<"int", "name", When(version > 1 /\ version < 7, "int"), ReturnType, "int", "int",
              When(Gte(11, 0), "int"), When(version > 1, "int"), "locals">>

NrVars(entry)       == entry[6]
AddressOf(function) == function[1]
NameOf(function)    == function[2]

\* read_initvals: the global, the type and the value.
GlobalInitval == <<"int", "int", "value">>

\* read_structures; the list of virtual methods is new in version 14.1.
Structure == <<"string", When(Gte(11, 0), "pairs"), "pair", "variables", When(Gte(14, 1), "ints")>>

\* read_hll_arguments, read_hll_functions and read_libraries.
HllArgument == <<"string", HllType>>
HllFunction == <<"string", HllType, "arguments">>
Library     == <<"string", "hll_functions">>

\* read_switches and read_switch_cases.
Switch == <<"pair", "pairs">>

\* read_scenario_labels and read_function_types.
ScenarioLabel == <<"string", "int">>
FunctionType  == <<"string", ReturnType, "int", "variables">>

Layout(kind) ==
  CASE kind = "pair"           -> <<"int", "int">>
    [] kind = "variable"       -> Variable
    [] kind = "global"         -> Global
    [] kind = "function"       -> Function
    [] kind = "global_initval" -> GlobalInitval
    [] kind = "structure"      -> Structure
    [] kind = "argument"       -> HllArgument
    [] kind = "hll_function"   -> HllFunction
    [] kind = "library"        -> Library
    [] kind = "switch"         -> Switch
    [] kind = "scenario_label" -> ScenarioLabel
    [] kind = "function_type"  -> FunctionType

ListOf ==
  [ints |-> "int", strings |-> "string", pairs |-> "pair", variables |-> "variable",
   globals |-> "global", functions |-> "function", global_initvals |-> "global_initval",
   structures |-> "structure", arguments |-> "argument", hll_functions |-> "hll_function",
   libraries |-> "library", switches |-> "switch", scenario_labels |-> "scenario_label",
   function_types |-> "function_type"]

Kinds == UNION {{k, ListOf[k]} : k \in DOMAIN ListOf} \cup {"nothing", "name", "type"}
-----------------------------------------------------------------------------
(* What is read at a position: a value, and the next position.             *)
Item(value, at) == [value |-> value, at |-> at]

Read(kind, p) ==
  Item(IF p \in DOMAIN file /\ file[p][1] = kind THEN file[p][2] ELSE Garbage, p + 1)

Int32(p)  == Read("int", p)
String(p) == Read("string", p)

\* read_variable_type: <<data, struc, rank>>, followed from version 11 on by
\* the type of the elements if there is a rank.
Type(p) ==
  LET int(q) == Int32(q).value
      t[q \in Nat] ==
        IF Gte(11, 0) /\ int(q + 2) \notin {0, Garbage}
        THEN Item(<<<<int(q), int(q + 1), int(q + 2)>>>> \o t[q + 3].value, t[q + 3].at)
        ELSE Item(<<<<int(q), int(q + 1), int(q + 2)>>>>, q + 3)
  IN  t[p]

AIN_STRING == 12

\* AIN_STRUCT, AIN_DELEGATE, AIN_ARRAY and the types of references.
Valueless == {13, 63, 79} \cup 18 .. 25 \cup {31, 32, 51, 52, 59, 60, 67, 69, 80}

\* read_variable_initval: some types have no value.
Initval(type, p) ==
  IF Int32(p).value = 0 THEN Item(NULL, p + 1)
  ELSE CASE type[1][1] = AIN_STRING -> String(p + 1)
         [] type[1][1] \in Valueless -> Item(0, p + 1)
         [] OTHER                    -> Int32(p + 1)

\* The value of a global is of the type before it.
Value(type, p) == IF type = AIN_STRING THEN String(p) ELSE Int32(p)

\* Junk in front of a function's name.
PastJunk(p) == CHOOSE q \in p .. p + Len(file) :
  /\ \A r \in p .. q - 1 : r \in DOMAIN file /\ file[r][1] = "junk"
  /\ ~ (q \in DOMAIN file /\ file[q][1] = "junk")

\* Something of a kind at a position.  Three kinds of fields depend on the
\* fields of the entry before them.
reading[kind \in Kinds, p \in Nat] ==
  LET then(got, x) == Item(Append(got.value, x.value), x.at)
      item(got, k)  == then(got, reading[k, got.at])
      many(k, n, q) == IF n = Garbage THEN Item(Garbage, q)
                       ELSE FoldLeft(item, Item(<<>>, q), [i \in 1 .. n |-> k])
      field(got, k) ==
        CASE k = "initval" -> then(got, Initval(Last(got.value), got.at))
          [] k = "value"   -> then(got, Value(Last(got.value), got.at))
          [] k = "locals"  -> then(got, many("variable", NrVars(got.value), got.at))
          [] OTHER         -> item(got, k)
  IN  CASE kind = "int"          -> Int32(p)
        [] kind = "string"       -> String(p)
        [] kind = "name"         -> String(PastJunk(p))
        [] kind = "type"         -> Type(p)
        [] kind = "nothing"      -> Item(NULL, p)
        [] kind \in DOMAIN ListOf -> many(ListOf[kind], Int32(p).value, p + 1)
        [] OTHER                 -> FoldLeft(field, Item(<<>>, p), Layout(kind))
-----------------------------------------------------------------------------
(* Enumerations (read_enums): the symbols of one are the nonempty strings  *)
(* that its function pushes, if it has one function of the expected name.  *)
ToStringOf(enum) == enum \o (IF version < 14 THEN "@String" ELSE "::ToString")

Symbols(enum) ==
  LET funs == {i \in DOMAIN image["FUNC"] : NameOf(image["FUNC"][i]) = ToStringOf(enum)}
      code == image["CODE"]
      strs == image["STR0"]
      \* The symbols found from address a (from 0) to the end of the function.
      from[a \in 0 .. Len(code)] ==
        IF a = Len(code) \/ code[a + 1].op = "ENDFUNC" THEN <<>>
        ELSE IF code[a + 1].op = "S_PUSH" /\ code[a + 1].arg \in 0 .. Len(strs) - 1
                  /\ strs[code[a + 1].arg + 1] # ""
             THEN <<strs[code[a + 1].arg + 1]>> \o from[a + 1]
             ELSE from[a + 1]
  IN  IF \E i \in funs : funs = {i}
      THEN from[AddressOf(image["FUNC"][CHOOSE i \in funs : TRUE])]
      ELSE <<>>

Enums(p) ==
  LET names == reading["strings", p]
      enum(name) == [name |-> name, symbols |-> Symbols(name)]
  IN  Item([i \in DOMAIN names.value |-> enum(names.value[i])], names.at)

\* read_msg1_string: the i-th byte of a message is masked with i + 0x60.
Message(p) == LET m == Read("masked", p + 1)
              IN  Item([i \in DOMAIN m.value |-> (m.value[i] - (i - 1) - 96) % 256], m.at)

\* read_msg1_strings: the count, an unused integer, and the messages.
Messages(p) == LET next(got, k) == LET m == Message(got.at) IN Item(Append(got.value, m.value), m.at)
               IN  FoldLeft(next, Item(<<>>, p + 2), [k \in 1 .. Int32(p).value |-> k])

\* What read_tag reads after each tag.
Contents(tag, p) ==
  CASE tag \in {"VERS", "KEYC", "MAIN", "MSGF", "GVER", "OJMP"} -> Int32(p)
    [] tag = "CODE"           -> Read("code", p)
    [] tag = "FUNC"           -> reading["functions", p]
    [] tag = "GLOB"           -> reading["globals", p]
    [] tag = "GSET"           -> reading["global_initvals", p]
    [] tag = "STRT"           -> reading["structures", p]
    [] tag = "MSG1"           -> Messages(p)
    [] tag = "HLL0"           -> reading["libraries", p]
    [] tag = "SWI0"           -> reading["switches", p]
    [] tag = "SLBL"           -> reading["scenario_labels", p]
    [] tag \in {"FNCT", "DELG"} -> reading["function_types", p + 1]
    [] tag = "ENUM"           -> Enums(p)
    [] tag \in {"MSG0", "STR0", "FNAM", "OBJG"} -> reading["strings", p]
-----------------------------------------------------------------------------
(* ain_read: what the file is tells whether it is read at all.             *)
Init == /\ written \in Files
        /\ status = CASE written.raw = "missing"                 -> "AIN_FILE_ERROR"
                      [] written.raw = "broken"                  -> "AIN_INVALID"
                      [] written.raw = "other"                   -> "AIN_UNRECOGNIZED_FORMAT"
                      [] written.raw \in {"AI2", "encrypted"}    -> "reading"
        /\ index = 1
        /\ version = -1 /\ minor = 0
        /\ image = [t \in Tags |-> <<>>]
        /\ sections = [t \in Tags |-> NULL]
        /\ section = NULL

\* start_section: the section before ends here.
Ended == IF section = NULL THEN sections
         ELSE [sections EXCEPT ![section] = [addr |-> @.addr, size |-> index - @.addr]]

StartSection(tag) ==
  /\ sections' = [Ended EXCEPT ![tag] = [addr |-> index, size |-> 0]]
  /\ section' = tag

NextTag == IF index \in DOMAIN file /\ file[index][1] = "tag" THEN file[index][2] ELSE NULL

ReadSection(tag) ==
  LET got == Contents(tag, index + 1) IN
  /\ status = "reading" /\ NextTag = tag
  /\ StartSection(tag)
  /\ image' = [image EXCEPT ![tag] = got.value]
  /\ index' = got.at

\* Version 14 is taken for 14.1 until a function says otherwise.
ReadVersion ==
  /\ ReadSection("VERS")
  /\ version' = image'["VERS"]
  /\ minor' = IF version' = 14 THEN 1 ELSE minor
  /\ UNCHANGED <<written, status>>

Games140 == {"C_MedicaMenu@0", "CInvasionHexScene@0", "_ALICETOOLS_AINV14_00"}

ReadFunctions_NoGame ==
  /\ ReadSection("FUNC")
  /\ UNCHANGED <<written, status, version, minor>>

ReadFunctions ==
  /\ ReadSection("FUNC")
  /\ minor' = IF version = 14 /\ \E i \in DOMAIN image'["FUNC"] : NameOf(image'["FUNC"][i]) \in Games140
              THEN 0 ELSE minor
  /\ UNCHANGED <<written, status, version>>

ReadOther ==
  /\ \E tag \in Tags \ {"VERS", "FUNC"} : ReadSection(tag)
  /\ UNCHANGED <<written, status, version, minor>>

\* The end of the file, or a tag that is none.
Stop ==
  /\ status = "reading" /\ NextTag \notin Tags
  /\ status' = "read"
  /\ sections' = Ended
  /\ section' = NULL
  /\ UNCHANGED <<written, index, version, minor, image>>

\* distribute_initvals: a later value of a global replaces an earlier one.
Distributed ==
  [g \in DOMAIN image["GLOB"] |->
     LET vs == {i \in DOMAIN image["GSET"] : image["GSET"][i][1] = g - 1}
     IN  IF vs = {} THEN image["GLOB"][g]
         ELSE Append(image["GLOB"][g],
                     image["GSET"][CHOOSE i \in vs : \A j \in vs : j <= i][3])]

\* The end of ain_open_conv.
Finish ==
  /\ status = "read"
  /\ status' = IF version = -1 THEN "AIN_INVALID" ELSE "AIN_SUCCESS"
  /\ minor' = IF version = 6 /\ sections["MSG1"] # NULL /\ minor < 1 THEN 1 ELSE minor
  /\ image' = IF version = -1 THEN image ELSE [image EXCEPT !["GLOB"] = Distributed]
  /\ UNCHANGED <<written, index, version, sections, section>>

Next == ReadVersion \/ ReadFunctions \/ ReadOther \/ Stop \/ Finish

Spec == Init /\ [][Next]_vars
-----------------------------------------------------------------------------
Opened == status = "AIN_SUCCESS"

(* The minor version, which no section has, is found out, but for version  *)
(* 14.0: ain_new names a function after the version only if the minor      *)
(* version is not 0, so that such an image is known only by a function of  *)
(* one of two games.                                                       *)
VersionKnown ==
  /\ version = written.major
  /\ minor = written.minor \/ (version = 14 /\ written.minor = 0 /\ ~written.marked)

(* What each section is read as is what was written: every reader asks for *)
(* the version where the format changed, and what an earlier section says  *)
(* (the game's functions, the code and the strings of an enumeration's     *)
(* symbols) is known when a later one needs it.                            *)
ReadAsWritten == minor = written.minor => \A t \in Tags : image[t] = written.image[t]

(* The file map: the sections lie one after the other, each up to the next *)
(* or to where the reader stopped (start_section).                         *)
Mapped == {t \in Tags : sections[t] # NULL}

SectionsTile ==
  \A t \in Mapped :
    LET end == sections[t].addr + sections[t].size IN
    /\ end = index \/ \E u \in Mapped \ {t} : sections[u].addr = end
    /\ \A u \in Mapped \ {t} : ~ (sections[u].addr >= sections[t].addr /\ sections[u].addr < end)

(* An image that ain_open accepts is the one that was written, whatever    *)
(* its version.                                                            *)
OpenedAsWritten == Opened => VersionKnown /\ ReadAsWritten /\ SectionsTile
=============================================================================
