----------------------------- MODULE AldArchive -----------------------------
(***************************************************************************)
(* ALD archives (src/src/ald.c): a file map in the first volume gives each *)
(* file number a volume and a slot of that volume's pointer table.  Name   *)
(* and size are in the file's own header.  Reading is unchecked: a header  *)
(* that was not read gives undefined sizes and an undefined name, and a    *)
(* failed read of the data a block of undefined bytes and a report of      *)
(* success.  That an undefined size can be had is assumed.                 *)
(***************************************************************************)
EXTENDS ArchiveMemory

CONSTANT Garbage   \* undefined bytes

\* get_filemap stores the volume in a `char' and the slot in a `short', one
\* less than in the file.
Signed(n, w) == IF n >= w \div 2 THEN n - w ELSE n

Disk(e) == Signed((ar.files[e].disk - 1) % 256, 256)
Slot(e) == Signed((ar.files[e].slot - 1) % 65536, 65536)

\* _ald_get: a registered file of a volume that was opened, between two
\* offsets of its pointer table (slots count from 0).
Offset(d, i) == ar.volumes[d][i + 1]

HasFile(e) ==
  /\ Disk(e) \in DOMAIN ar.volumes /\ Slot(e) >= 0
  /\ LET from == Offset(Disk(e), Slot(e))
         to   == Offset(Disk(e), Slot(e) + 1)
     IN  from # 0 /\ to # 0 /\ to # from

Where(e) == [disk |-> Disk(e), dataptr |-> Offset(Disk(e), Slot(e))]

\* ald_get_descriptor: `header' says whether the file's header was read.
NewDescriptor(e, header) == [file |-> e, data |-> NULL, at |-> Where(e), header |-> header]

Descriptors(e) == {NewDescriptor(e, header) : header \in {TRUE, ar.mmapped}}

\* The name in the header at a place of a volume.
NameAt(at) == ar.names[at.disk][at.dataptr]

\* ald_get_by_name: the first file of that name, but one whose header is not
\* read is passed over, or taken, whatever its name.
MayHaveName(d, n) == ~d.header \/ NameAt(d.at) = n

MustHaveName(e, n) == HasFile(e) /\ ar.mmapped /\ NameAt(Where(e)) = n

\* ald_load_file; archive.h asks for an unloaded descriptor.
LoadInto(h, d) ==
  \/ ar.mmapped /\ ShowInArchive(h, d, d.at)
  \/ ~ar.mmapped /\ d.header /\ ShowInBlock(h, d, d.at)
  \/ ~ar.mmapped /\ ShowInBlock(h, d, Garbage)

CanGet(h) == ar # NULL /\ h \in Handle \ (Live \cup {Iter})

Get(h) == /\ CanGet(h)
          /\ \E e \in Entries :
               HasFile(e) /\ \E d \in Descriptors(e) : LoadInto(h, d)

GetByName(h, n) ==
  /\ CanGet(h)
  /\ \E e \in Entries :
       /\ HasFile(e)
       /\ \A f \in 1 .. e - 1 : ~MustHaveName(f, n)
       /\ \E d \in Descriptors(e) : MayHaveName(d, n) /\ LoadInto(h, d)

LoadFile(h) == h \in Live /\ desc[h].data = NULL /\ LoadInto(h, desc[h])

\* ald_free_data
Owned(h) == desc[h].data # NULL /\ ~ar.mmapped

FreeData(h) == /\ h \in Live \ {Iter}
               /\ Dispose(h, NULL, Owned(h))
               /\ UNCHANGED visit

\* ald_for_each
Visit == \/ AtEntry /\ ~HasFile(visit) /\ SkipEntry
         \/ AtEntry /\ HasFile(visit) /\ \E d \in Descriptors(visit) : CallIter(d)

ReturnIter == /\ Iter \in Live
              /\ Dispose(Iter, NULL, Owned(Iter))
              /\ visit' = visit + 1

Next ==
  /\ ~fault
  /\ \/ OpenArchive \/ FreeArchive
     \/ BeginForEach \/ Visit \/ ReturnIter \/ EndForEach
     \/ \E h \in Handle : \/ Get(h) \/ LoadFile(h) \/ ReleaseFile(h)
                          \/ CopyDescriptor(h) \/ FreeData(h)
                          \/ ar # NULL /\ \E n \in ar.allNames : GetByName(h, n)
-----------------------------------------------------------------------------
(* The files a client can find, for ArchiveContract.                       *)
FilesThere == IF ar = NULL THEN NULL ELSE {e \in Entries : HasFile(e)}
=============================================================================
