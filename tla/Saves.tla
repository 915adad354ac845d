-------------------------------- MODULE Saves --------------------------------
(***************************************************************************)
(* A save file of either kind, written and read back (src/src/savefile.c): *)
(* the two parsers share the file, the position, and the way they end.     *)
(***************************************************************************)
EXTENDS Integers, Sequences

CONSTANTS GlobalSaves, ResumeSaves, DamageValues, NULL

\* struct gsave and what it points to (src/include/system4/savefile.h).
GlobalSave ==
  [version : Int,
   records : Seq([type : Int, name : STRING, index : Int, indices : Seq(Int)]),
   globals : Seq([type : Int, value : Int, name : STRING]),
   strings : Seq(STRING),
   arrays  : Seq([rank : Int, dims : Seq(Int),
                  flats : Seq([type : Int, values : Seq(Int)])]),
   keyvals : Seq([type : Int, value : Int, name : STRING]),
   defs    : Seq([name : STRING, fields : Seq(Int)])]

VARIABLES format,   \* "gsave" or "rsave"
          file, damaged, phase, pos, saved, left, s, crash,
          flats,        \* of GsaveFile
          mode, part    \* of RsaveFile

Global == INSTANCE GsaveFile WITH Saves <- GlobalSaves
Resume == INSTANCE RsaveFile WITH Saves <- ResumeSaves

\* struct rsave and what it points to.  The fields of a heap object depend
\* on its tag and on the version.
FieldValues ==
  [int |-> Int, flag |-> {0, 1}, zero |-> {0}, ints |-> Seq(Int), slots |-> Seq(Int), bytes |-> Seq(Int),
   id |-> [name : {NULL}, id : Int], none |-> [name : {NULL}, id : {-1}], name |-> [name : STRING, id : {0}]]

IsObject(v, o) ==
  \/ o = [tag |-> Resume!RSAVE_NULL]
  \/ LET layout == Resume!Layout(v, o.tag) IN
     /\ o.tag \in Resume!RSAVE_GLOBALS .. Resume!RSAVE_DELEGATE
     /\ o.tag = Resume!RSAVE_DELEGATE => v >= 9
     /\ o = [f \in {"tag"} \cup {layout[i][1] : i \in 1 .. Len(layout)} |-> o[f]]
     /\ \A i \in 1 .. Len(layout) : o[layout[i][1]] \in FieldValues[layout[i][2]]

ReturnRecords == [addr : {Resume!BOTTOM}]
                 \cup [addr : Int \ {Resume!BOTTOM}, func : STRING, local : Int, crc : Int]

CallFrames == [type : {Resume!RSAVE_METHOD_CALL}, local : Int, ptr : Int]
              \cup [type : Int \ {Resume!RSAVE_METHOD_CALL}, local : Int, ptr : {-1}]

CommentsOnly(v, comments) ==
  [Resume!Blank EXCEPT !.version = v, !.comments = comments, !.comments_only = TRUE]

IsBare(x) == x.version \in {7, 9} /\ x.comments \in Seq(STRING) /\ x = CommentsOnly(x.version, x.comments)

IsWhole(x) ==
  /\ x = [f \in DOMAIN Resume!Blank |-> x[f]]
  /\ x.version \in {4, 6, 7, 9} /\ x.comments_only = FALSE
  /\ x.comments \in IF x.version >= 7 THEN Seq(STRING) ELSE {<<>>}
  /\ x.ip \in ReturnRecords /\ x.stack \in Seq(Int)
  /\ x.frames \in Seq(CallFrames) /\ x.returns \in Seq(ReturnRecords)
  /\ x.next_seq \in IF x.version >= 9 THEN Int ELSE {0}
  /\ x.heap \in Seq({x.heap[i] : i \in DOMAIN x.heap})
  /\ \A i \in 1 .. Len(x.heap) : IsObject(x.version, x.heap[i])
  /\ x.funcs \in IF x.version >= 6 THEN Seq(STRING) ELSE {<<>>}

IsResumeSave(x) == IsBare(x) \/ IsWhole(x)

ASSUME SavesAssumption ==
  /\ GlobalSaves \subseteq GlobalSave /\ \A x \in ResumeSaves : IsResumeSave(x)
  /\ DamageValues \subseteq Int /\ NULL \notin STRING

vars == <<format, file, damaged, phase, pos, saved, left, s, crash, flats, mode, part>>

Init == \/ format = "gsave" /\ Global!Init /\ mode = "all" /\ part = Resume!NOTHING
        \/ format = "rsave" /\ Resume!Init /\ flats = 0

Next == /\ UNCHANGED format
        /\ \/ format = "gsave" /\ Global!Next /\ UNCHANGED <<mode, part>>
           \/ format = "rsave" /\ Resume!Next /\ UNCHANGED flats

Spec == Init /\ [][Next]_vars
-----------------------------------------------------------------------------
(* A save that was written is read back as it was, by gsave_parse and, for *)
(* all of it or for its comments, by rsave_parse.                          *)
RoundTrip == IF format = "gsave" THEN Global!RoundTrip ELSE Resume!RoundTrip

(* Whatever the damage, a global save that gsave_parse accepts refers only *)
(* to entries it has, where gsave_parse checks the number: not with a value*)
(* of a type it does not check, nor, of version 7, with the structure of a *)
(* record or the value of a key-value.                                     *)
AcceptedIsClosed == format = "gsave" => Global!AcceptedIsClosed

(* Whatever the damage, a resume save that rsave_parse accepts is all that *)
(* its file holds.                                                         *)
Lossless == format = "rsave" => Resume!Lossless

(* gsave_parse refuses what is no global save, and frees what it parsed,   *)
(* without following a pointer that was never set.                         *)
GlobalRefusedCleanly == format = "gsave" => Global!RefusedCleanly

(* rsave_parse refuses what is no resume save, and frees what it parsed,   *)
(* without following a pointer that was never set.                         *)
ResumeRefusedCleanly == format = "rsave" => Resume!RefusedCleanly
=============================================================================
