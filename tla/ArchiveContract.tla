-------------------------- MODULE ArchiveContract --------------------------
(***************************************************************************)
(* What src/include/system4/archive.h promises of every archive format:    *)
(* an archive is a set of numbered files; a client holds descriptors, each *)
(* for one file and either unloaded or showing that file's data; and       *)
(* archive_for_each lends the client a descriptor of each file in turn,    *)
(* initially unloaded and closed when the callback returns.                *)
(***************************************************************************)
EXTENDS Integers

CONSTANTS Handle,   \* the client's variables of type `struct archive_data *'
          Iter,     \* the descriptor archive_for_each lends to its callback
          NULL

VARIABLES files,    \* the files of the open archive, or NULL
          held,     \* what each handle holds: NULL or [file, loaded]
          todo      \* the files the iteration has yet to visit, or NULL

vars == <<files, held, todo>>

Descriptor(f, isLoaded) == [file |-> f, loaded |-> isLoaded]

Held == {h \in Handle : held[h] # NULL}

Init == files = NULL /\ held = [h \in Handle |-> NULL] /\ todo = NULL

Open == /\ files = NULL /\ files' # NULL
        /\ files' \in SUBSET Nat
        /\ UNCHANGED <<held, todo>>

Free == /\ files # NULL /\ Held = {} /\ todo = NULL
        /\ files' = NULL
        /\ UNCHANGED <<held, todo>>

\* A descriptor is loaded when the client gets it.
Get(h) ==
  /\ files # NULL /\ h \notin Held \cup {Iter}
  /\ \E f \in files : held' = [held EXCEPT ![h] = Descriptor(f, TRUE)]
  /\ UNCHANGED <<files, todo>>

Load(h) == /\ h \in Held
           /\ held' = [held EXCEPT ![h].loaded = TRUE]
           /\ UNCHANGED <<files, todo>>

Release(h) == /\ h \in Held
              /\ held' = [held EXCEPT ![h].loaded = FALSE]
              /\ UNCHANGED <<files, todo>>

\* A copy is initially unloaded, even if its source was loaded.
Copy(h) ==
  /\ h \notin Held \cup {Iter}
  /\ \E g \in Held : held' = [held EXCEPT ![h] = Descriptor(held[g].file, FALSE)]
  /\ UNCHANGED <<files, todo>>

FreeData(h) == /\ h \in Held \ {Iter}
               /\ held' = [held EXCEPT ![h] = NULL]
               /\ UNCHANGED <<files, todo>>

BeginForEach == /\ files # NULL /\ todo = NULL
                /\ todo' = files
                /\ UNCHANGED <<files, held>>

\* Every file once, in the order of their numbers, initially unloaded.
Visit ==
  /\ todo # NULL /\ Iter \notin Held
  /\ \E f \in todo :
       /\ \A g \in todo : f <= g
       /\ todo' = todo \ {f}
       /\ held' = [held EXCEPT ![Iter] = Descriptor(f, FALSE)]
  /\ UNCHANGED files

Return == /\ Iter \in Held
          /\ held' = [held EXCEPT ![Iter] = NULL]
          /\ UNCHANGED <<files, todo>>

EndForEach == /\ todo = {} /\ Iter \notin Held
              /\ todo' = NULL
              /\ UNCHANGED <<files, held>>

Next == \/ Open \/ Free \/ BeginForEach \/ Visit \/ Return \/ EndForEach
        \/ \E h \in Handle : Get(h) \/ Load(h) \/ Release(h) \/ Copy(h) \/ FreeData(h)

Spec == Init /\ [][Next]_vars
=============================================================================
