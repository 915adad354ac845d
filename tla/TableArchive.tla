---------------------------- MODULE TableArchive ----------------------------
(***************************************************************************)
(* The two formats with a fixed numbered table, ALK (src/src/alk.c) and    *)
(* DLF (src/src/dlf.c).  They differ in which table entries exist: ALK     *)
(* asks for a size, DLF for an offset, so only a DLF file can be empty.    *)
(***************************************************************************)
EXTENDS ArchiveMemory

HasFile(e) == IF ar.format = "alk" THEN ar.files[e].size > 0
                                   ELSE ar.files[e].off # 0

NewDescriptor(e) == [file |-> e, data |-> NULL]

\* fread of no bytes counts as a failure, and so does an I/O error; the
\* buffer is then freed and the descriptor stays unloaded.
CanRead(e) == ar.files[e].size > 0

LoadInto(h, d) ==
  \/ ar.mmapped /\ ShowInArchive(h, d, d.file)
  \/ ~ar.mmapped /\ CanRead(d.file) /\ ShowInBlock(h, d, d.file)

\* alk_get, dlf_get; a failure frees the descriptor and changes nothing.
Get(h) ==
  /\ ar # NULL
  /\ h \in Handle \ (Live \cup {Iter})
  /\ \E e \in Entries : HasFile(e) /\ LoadInto(h, NewDescriptor(e))

LoadFile(h) == h \in Live /\ desc[h].data = NULL /\ LoadInto(h, desc[h])

\* alk_free_data, dlf_free_data
FreesData(h) == desc[h].data # NULL /\ ~ar.mmapped

FreeData(h) == /\ h \in Live \ {Iter}
               /\ Dispose(h, NULL, FreesData(h))
               /\ UNCHANGED visit

\* alk_for_each, dlf_for_each
Visit == \/ AtEntry /\ ~HasFile(visit) /\ SkipEntry
         \/ AtEntry /\ HasFile(visit) /\ CallIter(NewDescriptor(visit))

ReturnIter == /\ Iter \in Live
              /\ Dispose(Iter, NULL, FreesData(Iter))
              /\ visit' = visit + 1

Next ==
  /\ ~fault
  /\ \/ OpenArchive \/ FreeArchive
     \/ BeginForEach \/ Visit \/ ReturnIter \/ EndForEach
     \/ \E h \in Handle : \/ Get(h) \/ LoadFile(h) \/ ReleaseFile(h)
                          \/ CopyDescriptor(h) \/ FreeData(h)
-----------------------------------------------------------------------------
(* The files a client can find, for ArchiveContract.                       *)
FilesThere == IF ar = NULL THEN NULL ELSE {e \in Entries : HasFile(e)}
=============================================================================
