----------------------------- MODULE AarArchive -----------------------------
(***************************************************************************)
(* AAR archives (src/src/aar.c): raw, compressed and link entries.  Loading*)
(* a link follows it by name, one lookup per link, until it reaches an     *)
(* entry that holds data; compressed data is inflated into a block even    *)
(* when the archive is mapped, so whether a descriptor owns its data is    *)
(* found out from the pointer.  The offset of a raw file is whatever the   *)
(* index says; compressed data is taken to be inside the archive.          *)
(***************************************************************************)
EXTENDS ArchiveMemory

VARIABLE load   \* the call of aar_load_file under way, or NULL:
                \* for handle h and descriptor d, at entry `at' of the table

NoEntry == 0

\* ht_get_ignorecase; ht_put_ignorecase keeps the first of equal keys.  A
\* name stands for its upper-case form.
Lookup(n) ==
  LET S == {e \in Entries : ar.files[e].name = n}
  IN  IF S = {} THEN NoEntry ELSE CHOOSE e \in S : \A f \in S : e <= f

IsLink(e) == ar.files[e].type = "link"

\* aar_get_descriptor: the size may be that of a link or of compressed data.
NewDescriptor(e) == [file |-> e, size |-> ar.files[e].size, data |-> NULL]

CanStart == ar # NULL /\ load = NULL

\* archive_get (and get_by_name): a descriptor of its own, loaded at once.
Get(h) ==
  /\ CanStart /\ h \in Handle \ (Live \cup {Iter})
  /\ \E e \in Entries \cup {Lookup(ar.files[e].name) : e \in Entries} :
       load' = [h |-> h, d |-> NewDescriptor(e), at |-> e]
  /\ UNCHANGED vars

LoadFile(h) ==
  /\ CanStart /\ h \in Live /\ desc[h].data = NULL
  /\ load' = [h |-> h, d |-> desc[h], at |-> desc[h].file]
  /\ UNCHANGED vars

FollowLink_OwnTarget ==
  /\ load # NULL /\ IsLink(load.at)
  /\ LET e == Lookup(ar.files[load.d.file].target) IN
       load' = IF e = NoEntry THEN NULL ELSE [load EXCEPT !.at = e]
  /\ UNCHANGED vars

FollowLink ==
  /\ load # NULL /\ IsLink(load.at)
  /\ LET e == Lookup(ar.files[load.at].target) IN
       load' = IF e = NoEntry THEN NULL ELSE [load EXCEPT !.at = e]
  /\ UNCHANGED vars

\* aar_inflate_entry refuses bad data.  A failed read or inflation leaves no
\* block behind, and no descriptor if it was part of a get.
LoadFails ==
  /\ load # NULL /\ ~IsLink(load.at)
  /\ ~ar.mmapped \/ ar.files[load.at].type = "bad"
  /\ load' = NULL
  /\ UNCHANGED vars

FinishLoad ==
  /\ load # NULL /\ ar.files[load.at].type \in {"raw", "zlb"}
  /\ LET d == [load.d EXCEPT !.size = ar.files[load.at].real] IN
       IF ar.mmapped /\ ar.files[load.at].type = "raw"
       THEN ShowInArchive(load.h, d, load.at)
       ELSE ShowInBlock(load.h, d, load.at)
  /\ load' = NULL

LoadStep == FollowLink \/ LoadFails \/ FinishLoad

\* aar_release_file frees what does not point into the map.  The data of an
\* empty file that lies at the end of a mapped archive does not, nor does it
\* point to a block.
Owned_Always(h) == TRUE

InMap(p) == ar.mmapped /\ p \notin Addr /\ ar.files[p[1]].off < ar.fileSize

Owned(h) == desc[h].data # NULL /\ ~InMap(desc[h].data)

PastMap(h) == desc[h].data \notin Addr \cup {NULL} /\ ~InMap(desc[h].data)

Release(h) ==
  /\ CanStart /\ h \in Live /\ desc[h].data # NULL
  /\ Dispose(h, [desc[h] EXCEPT !.data = NULL], Owned(h))
  /\ UNCHANGED <<visit, load>>

Copy(h) == CanStart /\ CopyDescriptor(h) /\ UNCHANGED load

\* aar_free_data: aar_release_file, then the descriptor.
FreeData(h) ==
  /\ CanStart /\ h \in Live \ {Iter}
  /\ Dispose(h, NULL, Owned(h))
  /\ UNCHANGED <<visit, load>>

\* aar_for_each
Visit == CanStart /\ AtEntry /\ CallIter(NewDescriptor(visit)) /\ UNCHANGED load

ReturnIter == /\ CanStart /\ Iter \in Live
              /\ Dispose(Iter, NULL, Owned(Iter))
              /\ visit' = visit + 1
              /\ UNCHANGED load

Frame == load = NULL /\ UNCHANGED load

Next ==
  /\ ~fault
  /\ \/ OpenArchive /\ Frame
     \/ FreeArchive /\ Frame
     \/ BeginForEach /\ Frame
     \/ EndForEach /\ Frame
     \/ Visit \/ ReturnIter \/ LoadStep
     \/ \E h \in Handle : \/ Get(h) \/ LoadFile(h) \/ Release(h)
                          \/ Copy(h) \/ FreeData(h)
-----------------------------------------------------------------------------
(* Where the links of entry e end, if they do, in at most as many steps as *)
(* there are entries: NoEntry for a link to a name that is not there, and  *)
(* a link still if they run in a circle.                                   *)
LinkEnd(e) ==
  LET end[n \in Nat] ==
        IF n = 0 THEN e
        ELSE LET f == end[n - 1] IN
             IF f = NoEntry THEN NoEntry
             ELSE IF IsLink(f) THEN Lookup(ar.files[f].target) ELSE f
  IN  end[Len(ar.files)]

Circular(e) == LinkEnd(e) # NoEntry /\ IsLink(LinkEnd(e))

(* A loaded descriptor shows the inflated data of the entry its links end  *)
(* at, under the size of that data.                                        *)
ShowsLinkedFile ==
  \A h \in Live :
    desc[h].data # NULL =>
      LET e == LinkEnd(desc[h].file) IN
      /\ Content(desc[h].data) = e
      /\ desc[h].size = ar.files[e].real

(* The files a client can find, for ArchiveContract.                       *)
FilesThere == IF ar = NULL THEN NULL ELSE Entries
=============================================================================
