----------------------------- MODULE AfaArchive -----------------------------
(***************************************************************************)
(* AFA archives (src/src/afa.c, and src/src/afa3.c, which fills the same   *)
(* tables without file numbers).  Files are found by number, by name or by *)
(* base name, but a descriptor remembers only its number, and loading it   *)
(* looks that number up again.  A read that fails frees the descriptor its *)
(* caller still holds: that descriptor is `gone', and touching it a fault. *)
(***************************************************************************)
EXTENDS ArchiveMemory

CONSTANT IoErrors   \* can reading the archive's file fail?

NoEntry == 0

FirstOf(S) == IF S = {} THEN NoEntry ELSE CHOOSE e \in S : \A f \in S : e <= f

\* afa_read_entry: the stored id less one, or the index if that is negative.
Number(e) == IF ar.hasNumber /\ ar.files[e].id > 0
             THEN ar.files[e].id - 1
             ELSE e - 1

\* The lazily built indexes; ht_put keeps the first of equal keys.
EntryByNumber_AsIndex(no) == IF no + 1 \in Entries THEN no + 1 ELSE NoEntry

EntryByNumber(no) ==
  IF ar.hasNumber THEN FirstOf({e \in Entries : Number(e) = no})
  ELSE IF no + 1 \in Entries THEN no + 1 ELSE NoEntry

EntryByName(n) == FirstOf({e \in Entries : ar.files[e].name = n})

\* archive_basename drops the extension and folds case.
EntryByBasename(b) == FirstOf({e \in Entries : ar.files[e].base = b})

\* afa_entry_to_descriptor
NewDescriptor(e) == [file |-> e, no |-> Number(e), data |-> NULL, gone |-> FALSE]

\* afa_load_file of an unloaded descriptor d held by h.
LoadInto(h, d) ==
  LET e == EntryByNumber(d.no) IN
  \/ ar.mmapped /\ ShowInArchive(h, d, e)
  \/ ~ar.mmapped /\ ar.files[e].size > 0 /\ ShowInBlock(h, d, e)

ReadFails(d) == /\ ~ar.mmapped
                /\ IoErrors \/ ar.files[EntryByNumber(d.no)].size = 0

Usable == {h \in Live : ~desc[h].gone}

\* Entries a get can find: by number, name or base name.
Gettable == ({EntryByNumber(Number(e)) : e \in Entries}
             \cup {EntryByName(ar.files[e].name) : e \in Entries}
             \cup {EntryByBasename(ar.files[e].base) : e \in Entries})

CanGet(h) == ar # NULL /\ h \in Handle \ (Live \cup {Iter})

Get(h) == CanGet(h) /\ \E e \in Gettable : LoadInto(h, NewDescriptor(e))

\* afa_get_by_entry frees the descriptor afa_load_file has already freed.
GetFails(h) == /\ CanGet(h)
               /\ \E e \in Gettable : ReadFails(NewDescriptor(e))
               /\ fault' = TRUE
               /\ UNCHANGED <<ar, desc, heap, visit>>

LoadFile(h) == /\ h \in Usable /\ desc[h].data = NULL
               /\ LoadInto(h, desc[h])

LoadFileFails(h) == /\ h \in Usable /\ desc[h].data = NULL
                    /\ ReadFails(desc[h])
                    /\ desc' = [desc EXCEPT ![h].gone = TRUE]
                    /\ UNCHANGED <<ar, heap, visit, fault>>

\* Any use of a descriptor that is gone, the one afa_for_each makes included.
UseGone(h) == /\ h \in Live \ Usable
              /\ fault' = TRUE
              /\ UNCHANGED <<ar, desc, heap, visit>>

Release(h) == h \in Usable /\ ReleaseFile(h)

Copy(h) == Live = Usable /\ CopyDescriptor(h)

\* afa_free_data
FreesData(h) == desc[h].data # NULL /\ ~ar.mmapped

FreeData(h) == /\ h \in Usable \ {Iter}
               /\ Dispose(h, NULL, FreesData(h))
               /\ UNCHANGED visit

\* afa_for_each
Visit == AtEntry /\ CallIter(NewDescriptor(visit))

ReturnIter == /\ Iter \in Usable
              /\ Dispose(Iter, NULL, FreesData(Iter))
              /\ visit' = visit + 1

Next ==
  /\ ~fault
  /\ \/ OpenArchive \/ FreeArchive
     \/ BeginForEach \/ Visit \/ ReturnIter \/ EndForEach
     \/ \E h \in Handle : \/ Get(h) \/ GetFails(h) \/ LoadFile(h) \/ LoadFileFails(h)
                          \/ Release(h) \/ Copy(h) \/ FreeData(h) \/ UseGone(h)

Spec == Init /\ [][Next]_vars
-----------------------------------------------------------------------------
(* The files a client can find, for ArchiveContract.                       *)
FilesThere == IF ar = NULL THEN NULL ELSE Entries
=============================================================================
