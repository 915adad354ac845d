--------------------------- MODULE ArchiveMemory ---------------------------
(***************************************************************************)
(* What the archive formats share (src/src/archive.c and the structures of *)
(* src/include/system4/archive.h): an open archive, the descriptors the    *)
(* client holds, the heap blocks their data may own, and the progress of   *)
(* archive_for_each.  A format module adds its file table and its own      *)
(* `struct archive_ops'.                                                   *)
(*                                                                         *)
(* A descriptor's data is NULL, a pointer into the archive's own memory    *)
(* (its map, or its buffer) or a heap block.  `fault' records undefined    *)
(* behaviour: freeing what is not an allocated block, or using a           *)
(* descriptor that was freed.  Nothing is modelled beyond a fault.         *)
(***************************************************************************)
EXTENDS Integers, Sequences, FiniteSets

CONSTANTS Handle,    \* the client's variables of type `struct archive_data *'
          Iter,      \* the descriptor archive_for_each lends to its callback
          Addr,      \* heap addresses
          NULL,
          Unused,      \* the content of an address that is not allocated
          Archives   \* the archives that can be opened

VARIABLES ar,      \* the open archive (a format's record), or NULL
          desc,    \* the descriptor each handle points to, or NULL
          heap,    \* the file whose data a block holds, or Unused
          visit,   \* index of the iteration in the file table, 0 if none
          fault

vars == <<ar, desc, heap, visit, fault>>

Live  == {h \in Handle : desc[h] # NULL}
Fresh == {a \in Addr : heap[a] = Unused}

Entries == 1 .. Len(ar.files)

\* A pointer to file e inside the archive's own memory.
InArchive(e) == <<e>>

Content(p) == IF p \in Addr THEN heap[p] ELSE p[1]

Init == /\ ar    = NULL
        /\ desc  = [h \in Handle |-> NULL]
        /\ heap  = [a \in Addr |-> Unused]
        /\ visit = 0
        /\ fault = FALSE

OpenArchive == /\ ar = NULL
               /\ ar' \in Archives
               /\ UNCHANGED <<desc, heap, visit, fault>>

\* archive_free; the client has freed its descriptors before.
FreeArchive == /\ ar # NULL /\ Live = {} /\ visit = 0
               /\ ar' = NULL
               /\ UNCHANGED <<desc, heap, visit, fault>>
-----------------------------------------------------------------------------
(* Steps the formats build their operations from.                          *)

FreeBlock(p) == IF p \in Addr THEN [heap EXCEPT ![p] = Unused] ELSE heap

BadFree(p) == p # NULL /\ (p \notin Addr \/ heap[p] = Unused)

\* Point h at descriptor d with its data inside the archive.
ShowInArchive(h, d, e) ==
  /\ desc' = [desc EXCEPT ![h] = [d EXCEPT !.data = InArchive(e)]]
  /\ UNCHANGED <<ar, heap, visit, fault>>

\* Point h at descriptor d with its data in a new heap block.
ShowInBlock(h, d, content) ==
  /\ \E a \in Fresh :
       /\ heap' = [heap EXCEPT ![a] = content]
       /\ desc' = [desc EXCEPT ![h] = [d EXCEPT !.data = a]]
  /\ UNCHANGED <<ar, visit, fault>>

\* Point h at d, which needs no memory, after free() of h's data if it owns it.
Dispose(h, d, owned) ==
  /\ desc'  = [desc EXCEPT ![h] = d]
  /\ heap'  = IF owned THEN FreeBlock(desc[h].data) ELSE heap
  /\ fault' = (owned /\ BadFree(desc[h].data))
  /\ UNCHANGED ar

\* _archive_release_file and _archive_copy_descriptor, the default operations.
ReleaseFile(h) ==
  /\ h \in Live
  /\ Dispose(h, [desc[h] EXCEPT !.data = NULL], ~ar.mmapped)
  /\ UNCHANGED visit

CopyDescriptor_SharesData(h) ==
  /\ h \in Handle \ (Live \cup {Iter})
  /\ \E g \in Live : desc' = [desc EXCEPT ![h] = desc[g]]
  /\ UNCHANGED <<ar, heap, visit, fault>>

CopyDescriptor(h) ==
  /\ h \in Handle \ (Live \cup {Iter})
  /\ \E g \in Live : desc' = [desc EXCEPT ![h] = [desc[g] EXCEPT !.data = NULL]]
  /\ UNCHANGED <<ar, heap, visit, fault>>

\* The loop of every format's for_each: over the file table from the start,
\* skipping the entries without a descriptor, one callback at a time.
BeginForEach == /\ ar # NULL /\ visit = 0
                /\ visit' = 1
                /\ UNCHANGED <<ar, desc, heap, fault>>

AtEntry == ar # NULL /\ visit \in Entries /\ Iter \notin Live

SkipEntry == /\ AtEntry
             /\ visit' = visit + 1
             /\ UNCHANGED <<ar, desc, heap, fault>>

CallIter(d) == /\ AtEntry
               /\ desc' = [desc EXCEPT ![Iter] = d]
               /\ UNCHANGED <<ar, heap, visit, fault>>

EndForEach_OneShort == /\ ar # NULL /\ visit = Len(ar.files)
                       /\ Iter \notin Live
                       /\ visit' = 0
                       /\ UNCHANGED <<ar, desc, heap, fault>>

EndForEach == /\ ar # NULL /\ visit = Len(ar.files) + 1
              /\ visit' = 0
              /\ UNCHANGED <<ar, desc, heap, fault>>
-----------------------------------------------------------------------------
(* Every allocated block of data belongs to exactly one descriptor and     *)
(* every descriptor's block is allocated: no data is leaked, freed under a *)
(* descriptor that still shows it, or shared by two that will both free it.*)
(* The blocks are those of the data; names are not among them.             *)
BlocksOwned ==
  \A a \in Addr :
    Cardinality({h \in Live : desc[h].data = a}) = (IF a \in Fresh THEN 0 ELSE 1)

(* A loaded descriptor shows the data of the file it was made for.         *)
ShowsOwnFile ==
  \A h \in Live : desc[h].data # NULL => Content(desc[h].data) = desc[h].file

(* No operation frees a block twice, frees what was never allocated, or    *)
(* touches a descriptor that is gone.                                      *)
MemorySafe == ~fault
-----------------------------------------------------------------------------
(* What ArchiveContract sees of this state; `present' is the set of files. *)
HeldBy == [h \in Handle |->
             IF desc[h] = NULL THEN NULL
             ELSE [file |-> desc[h].file, loaded |-> desc[h].data # NULL]]

StillToVisit(present) ==
  IF visit = 0 THEN NULL
  ELSE {e \in present : e > visit \/ (e = visit /\ desc[Iter] = NULL)}
=============================================================================
