------------------------------ MODULE Containers ------------------------------
(***************************************************************************)
(* The containers other parts of the library are built on: hash tables     *)
(* (src/src/hashtable.c), byte buffers (src/src/buffer.c) and the entries  *)
(* of ini files (src/src/ini.c).  Each belongs to one client, and they     *)
(* share nothing: a behaviour is that of one of them, `user` says which.   *)
(***************************************************************************)
EXTENDS HashTable

CONSTANTS Ints, Strings, FirstSize, MaxItems, Offsets, MaxIndex, Undefined,  \* of Buffer
          IniFiles, IniValues, IniDepth                                      \* of IniFile

VARIABLES user,  \* "table", "buffer" or "ini"
          phase, buf, index, items, got, matched, trusted, outside,
          source, next, ini, freed, lost, clearing

Bytes == INSTANCE Buffer
Ini   == INSTANCE IniFile

ASSUME BytesAssumption == Bytes!BufferAssumption
ASSUME IniFilesAssumption == Ini!IniAssumption

bufferVars == <<phase, buf, index, items, got, matched, trusted, outside>>
iniVars    == <<source, next, ini, freed, lost, clearing>>
varsContainers == <<user, vars, bufferVars, iniVars>>

\* An ini file without entries stands for none.
NoIni == source = <<>> /\ next = 0 /\ ini = <<>> /\ freed = <<>> /\ lost = {} /\ clearing = 0

InitContainers == /\ user \in {"table", "buffer", "ini"}
                  /\ Init
                  /\ Bytes!Init
                  /\ IF user = "ini" THEN Ini!Init ELSE NoIni

NextContainers ==
  /\ UNCHANGED user
  /\ \/ user = "table"  /\ Next       /\ UNCHANGED <<bufferVars, iniVars>>
     \/ user = "buffer" /\ Bytes!Next /\ UNCHANGED <<vars, iniVars>>
     \/ user = "ini"    /\ Ini!Next   /\ UNCHANGED <<vars, bufferVars>>

SpecContainers == InitContainers /\ [][NextContainers]_varsContainers
-----------------------------------------------------------------------------
(* A buffer gives back what was written to it, and reads and writes stay   *)
(* inside it unless a length, a terminator or an offset in the data leads  *)
(* out of it.                                                              *)
BufferKeepsData == Bytes!BufferKeepsData

(* The entries of an ini file are those it assigns, and own what is freed  *)
(* with them.                                                              *)
IniAsWritten == Ini!IniAsWritten
=============================================================================
