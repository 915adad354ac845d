----------------------------- MODULE FlatArchive -----------------------------
(***************************************************************************)
(* FLAT archives (src/src/flat.c): the whole archive is in memory, so a    *)
(* descriptor shows its file from the start, and loading only matters for  *)
(* zlib files: it replaces the pointer by a block with the inflated data,  *)
(* and releasing puts the pointer back.                                    *)
(***************************************************************************)
EXTENDS ArchiveMemory

File(e) == ar.files[e]   \* [stored, real: sizes; zlib, good: BOOLEAN]

\* flat_get: the data pointer is set at once.
NewDescriptor(e) ==
  [file |-> e, size |-> File(e).stored, data |-> InArchive(e), inflated |-> FALSE]

Get(h) == /\ ar # NULL
          /\ h \in Handle \ (Live \cup {Iter})
          /\ \E e \in Entries : desc' = [desc EXCEPT ![h] = NewDescriptor(e)]
          /\ UNCHANGED <<ar, heap, visit, fault>>

\* flat_load_file; archive.h asks for an unloaded descriptor.
LoadFile(h) ==
  /\ h \in Live /\ ~desc[h].inflated
  /\ LET d == desc[h]
         f == File(d.file)
     IN  \/ f.zlib /\ f.good
            /\ ShowInBlock(h, [d EXCEPT !.size = f.real, !.inflated = TRUE], d.file)
         \/ ~(f.zlib /\ f.good) /\ ShowInArchive(h, d, d.file)

\* flat_release_file
Release_KeepsSize(h) ==
  /\ h \in Live /\ desc[h].inflated
  /\ Dispose(h, [desc[h] EXCEPT !.data = InArchive(desc[h].file), !.inflated = FALSE], TRUE)
  /\ UNCHANGED visit

Release(h) ==
  /\ h \in Live /\ desc[h].inflated
  /\ Dispose(h, NewDescriptor(desc[h].file), TRUE)
  /\ UNCHANGED visit

\* flat_copy_descriptor: not inflated, whatever the source was.
Copy(h) ==
  /\ h \in Handle \ (Live \cup {Iter})
  /\ \E g \in Live :
       desc' = [desc EXCEPT ![h] = [desc[g] EXCEPT !.data = NULL, !.inflated = FALSE]]
  /\ UNCHANGED <<ar, heap, visit, fault>>

\* flat_free_data
Owned(h) == desc[h].inflated

FreeData(h) == /\ h \in Live \ {Iter}
               /\ Dispose(h, NULL, Owned(h))
               /\ UNCHANGED visit

\* flat_for_each, over the entries of the LIBL and TALT sections.
Visit == AtEntry /\ CallIter(NewDescriptor(visit))

ReturnIter == /\ Iter \in Live
              /\ Dispose(Iter, NULL, Owned(Iter))
              /\ visit' = visit + 1

Next ==
  /\ ~fault
  /\ \/ OpenArchive \/ FreeArchive
     \/ BeginForEach \/ Visit \/ ReturnIter \/ EndForEach
     \/ \E h \in Handle : \/ Get(h) \/ LoadFile(h) \/ Release(h)
                          \/ Copy(h) \/ FreeData(h)
-----------------------------------------------------------------------------
(* The size of a descriptor is that of what its data points to: of the     *)
(* inflated block while it is inflated, of the stored bytes before and     *)
(* after, also for copies of inflated descriptors.                         *)
SizeOfData ==
  \A h \in Live :
    desc[h].data # NULL =>
      desc[h].size = IF desc[h].data \in Addr THEN File(desc[h].file).real
                                              ELSE File(desc[h].file).stored
=============================================================================
