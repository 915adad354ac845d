------------------------------- MODULE Archive -------------------------------
(***************************************************************************)
(* The archive interface of src/include/system4/archive.h: an open archive *)
(* carries the operations of its format, and each inline function calls    *)
(* them.  A client that opens archives of every format, one after another, *)
(* calls these functions in any order.                                     *)
(***************************************************************************)
EXTENDS ArchiveMemory

CONSTANTS IoErrors,   \* can reading an AFA archive's file fail?
          Garbage     \* the bytes an unchecked read leaves undefined

ASSUME ArchiveAssumption ==
  /\ NULL \notin Addr /\ Iter \in Handle
  /\ Unused \notin Nat \cup {Garbage}
  /\ \A a \in Archives :
       /\ a.format \in {"alk", "dlf", "afa", "ald", "flat", "aar"}
       /\ Len(a.files) \in Nat
       /\ a.format # "flat" => a.mmapped \in BOOLEAN

VARIABLE load         \* the call of aar_load_file under way, or NULL

varsArchive == <<ar, desc, heap, visit, fault, load>>

Of(formats) == {a \in Archives : a.format \in formats}

Table == INSTANCE TableArchive WITH Archives <- Of({"alk", "dlf"})
Afa   == INSTANCE AfaArchive   WITH Archives <- Of({"afa"})
Ald   == INSTANCE AldArchive   WITH Archives <- Of({"ald"})
Flat  == INSTANCE FlatArchive  WITH Archives <- Of({"flat"})
Aar   == INSTANCE AarArchive   WITH Archives <- Of({"aar"})

\* ar->ops are those of one of the formats, once an archive is open.
Ops(formats) == ar # NULL => ar.format \in formats

InitArchive == Init /\ load = NULL

Next == \/ Ops({"alk", "dlf"}) /\ Table!Next /\ UNCHANGED load
        \/ Ops({"afa"}) /\ Afa!Next /\ UNCHANGED load
        \/ Ops({"ald"}) /\ Ald!Next /\ UNCHANGED load
        \/ Ops({"flat"}) /\ Flat!Next /\ UNCHANGED load
        \/ Ops({"aar"}) /\ Aar!Next

\* A load that has begun runs on; nothing obliges the client to make a call.
Spec == InitArchive /\ [][Next]_varsArchive /\ WF_varsArchive(Aar!LoadStep)
-----------------------------------------------------------------------------
Is(format) == ar # NULL /\ ar.format = format

(* A loaded descriptor shows the bytes of the file it was got for: where   *)
(* the table has the file (ALK, DLF, AFA, FLAT), where the volume has it,  *)
(* or undefined bytes after an unchecked read (ALD), or at the end of its  *)
(* links (AAR).                                                            *)
ShowsItsFile ==
  /\ Is("alk") \/ Is("dlf") \/ Is("afa") \/ Is("flat") => ShowsOwnFile
  /\ Is("ald") => \A h \in Live : desc[h].data # NULL =>
                    Content(desc[h].data) \in {desc[h].at, Garbage}
  /\ Is("aar") => Aar!ShowsLinkedFile

(* The size of a FLAT descriptor is that of the bytes it shows, inflated   *)
(* or stored, through loads, releases and copies.                          *)
SizesMatch == Is("flat") => Flat!SizeOfData

(* Memory is misused in two ways only, in any format: after an AFA read    *)
(* that failed, and when an AAR file's data is given up that lies at the   *)
(* end of the map or behind it.  Every other sequence of calls frees each  *)
(* descriptor and each buffer once, and touches nothing that is gone.      *)
ReadFails == Is("afa") /\ \E h \in Handle : Afa!GetFails(h) \/ Afa!UseGone(h)

FreesPastMap == Is("aar") /\ \E h \in Live : Aar!PastMap(h) /\ desc'[h] # desc[h]

FaultsHaveCause == [][fault' => ReadFails \/ FreesPastMap]_varsArchive

(* Loading returns, unless AAR links run in a circle.                      *)
LoadReturns ==
  (load # NULL /\ ~Aar!Circular(load.d.file)) ~> (load = NULL)

(* Every format but FLAT behaves as archive.h says (ArchiveContract),      *)
(* whatever the client does with its descriptors, also inside a callback   *)
(* and with copies that outlive it.  (A FLAT archive's descriptors are     *)
(* never unloaded; the contract is shown nothing of it.)                   *)
Shown == IF Is("flat") THEN NULL ELSE ar

FilesThere ==
  IF Shown = NULL THEN NULL
  ELSE CASE ar.format \in {"alk", "dlf"} -> Table!FilesThere
         [] ar.format = "afa"            -> Afa!FilesThere
         [] ar.format = "ald"            -> Ald!FilesThere
         [] ar.format = "aar"            -> Aar!FilesThere

Contract == INSTANCE ArchiveContract
            WITH files <- FilesThere,
                 held  <- IF Is("flat") THEN [h \in Handle |-> NULL] ELSE HeldBy,
                 todo  <- IF Is("flat") THEN NULL ELSE StillToVisit(FilesThere)

ImplementsContract == Contract!Spec
=============================================================================
