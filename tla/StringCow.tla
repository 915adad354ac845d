------------------------------ MODULE StringCow ------------------------------
(***************************************************************************)
(* The reference-counted, copy-on-write strings of src/src/string.c.       *)
(* A `struct string' is an object with a 24-bit reference count, a `cow'   *)
(* flag and its text; handles hold pointers to objects.  Memory is a set   *)
(* of addresses: malloc and realloc may return any free one, and an        *)
(* address is free exactly while its count is 0.  Every function runs to   *)
(* completion (the library is sequential); the hard part is the order of   *)
(* calls on handles that share an object.                                  *)
(***************************************************************************)
EXTENDS SjisText, FiniteSets

CONSTANTS Handle,      \* the places that can hold a string
          Obj,         \* addresses
          Empty,       \* the static object EMPTY_STRING
          NULL,
          TextInput,   \* the texts a string can be made from
          CharInput,   \* the characters (byte sequences) given to mutators
          MaxIndex,    \* bound on the character indices given to mutators
          MaxBytes,    \* bound on the size of a text
          RefMod       \* the count is a bit-field: 2^24 in the source

ASSUME CowAssumption ==
  /\ IsFiniteSet(Handle)
  /\ Empty \in Obj
  /\ NULL \notin Obj
  /\ NULL \notin Text
  /\ TextInput \subseteq Text
  /\ CharInput \subseteq Text
  /\ MaxIndex \in Nat
  /\ MaxBytes \in Nat
  /\ RefMod \in Nat
  /\ Cardinality(Handle) + 1 < RefMod

VARIABLES ptr,    \* what each handle points to
          ref,    \* reference counts; 0 is free memory
          cow,    \* copy-on-write flags
          text    \* texts, sizes included

vars == <<ptr, ref, cow, text>>

Holders(o) == {h \in Handle : ptr[h] = o}
Held       == {h \in Handle : ptr[h] # NULL}
Free       == {o \in Obj : ref[o] = 0}
TextOf(h)  == text[ptr[h]]

Init ==
  /\ ptr  = [h \in Handle |-> NULL]
  /\ ref  = [o \in Obj |-> IF o = Empty THEN 1 ELSE 0]
  /\ cow  = [o \in Obj |-> o = Empty]
  /\ text = [o \in Obj |-> <<>>]
-----------------------------------------------------------------------------
(* Memory.  Freed objects are given a blank state.                         *)

\* A new object at a free address, its only reference in handle h.
Alloc(h, t, isCow) ==
  /\ Len(t) <= MaxBytes
  /\ \E o \in Free :
       /\ ptr'  = [ptr EXCEPT ![h] = o]
       /\ ref'  = [ref EXCEPT ![o] = 1]
       /\ cow'  = [cow EXCEPT ![o] = isCow]
       /\ text' = [text EXCEPT ![o] = t]

(* cow_check followed by writing the text t: a shared object is left to    *)
(* the other holders and h gets a copy; an unshared one loses its flag and *)
(* is written in place.                                                    *)
Shared_OffByOne(o) == cow[o] /\ ref[o] > 2

Shared(o) == cow[o] /\ ref[o] > 1

WriteCopy_KeepsReference(h, t) ==
  /\ Shared(ptr[h])
  /\ \E o \in Free :
       /\ ptr'  = [ptr EXCEPT ![h] = o]
       /\ ref'  = [ref EXCEPT ![o] = 1]
       /\ cow'  = [cow EXCEPT ![o] = FALSE]
       /\ text' = [text EXCEPT ![o] = t]

WriteCopy(h, t) ==
  /\ Shared(ptr[h])
  /\ \E o \in Free :
       /\ ptr'  = [ptr EXCEPT ![h] = o]
       /\ ref'  = [ref EXCEPT ![o] = 1, ![ptr[h]] = @ - 1]
       /\ cow'  = [cow EXCEPT ![o] = FALSE]
       /\ text' = [text EXCEPT ![o] = t]

WriteInPlace(h, t) ==
  /\ ~Shared(ptr[h])
  /\ cow'  = [cow EXCEPT ![ptr[h]] = FALSE]
  /\ text' = [text EXCEPT ![ptr[h]] = t]
  /\ UNCHANGED <<ptr, ref>>

\* xrealloc moved the object: only h learns of the new address.
WriteMoved(h, t) ==
  /\ ~Shared(ptr[h])
  /\ \E o \in Free :
       /\ ptr'  = [ptr EXCEPT ![h] = o]
       /\ ref'  = [ref EXCEPT ![o] = ref[ptr[h]], ![ptr[h]] = 0]
       /\ cow'  = [cow EXCEPT ![o] = FALSE, ![ptr[h]] = FALSE]
       /\ text' = [text EXCEPT ![o] = t, ![ptr[h]] = <<>>]

Write(h, t) == WriteCopy(h, t) \/ WriteInPlace(h, t)

Rewrite(h, t) == Len(t) <= MaxBytes /\ (Write(h, t) \/ WriteMoved(h, t))
-----------------------------------------------------------------------------
(* The operations.  An ERROR ends the program, so the arguments that raise *)
(* one are excluded by the guard.                                          *)

\* make_string, string_alloc, cstr_to_string, integer_to_string, ...
MakeString(h) == h \notin Held /\ \E t \in TextInput : Alloc(h, t, FALSE)

\* read_vm_string (ain.c): the only strings born copy-on-write.
ReadVmString(h) == h \notin Held /\ \E t \in TextInput : Alloc(h, t, TRUE)

StringDup(h) == h \notin Held /\ \E g \in Held : Alloc(h, TextOf(g), FALSE)

StringConcatenate(h) ==
  /\ h \notin Held
  /\ \E f, g \in Held : Alloc(h, AppendText(TextOf(f), TextOf(g)), FALSE)

StringCopy(h) ==
  /\ h \notin Held
  /\ \E g \in Held, k \in 0 .. MaxIndex, n \in 0 .. MaxIndex :
       Alloc(h, CopyText(TextOf(g), k, n), FALSE)

\* string_ref of object o, the result stored in h.
StringRefObj_NoFlag(h, o) ==
  /\ ptr' = [ptr EXCEPT ![h] = o]
  /\ ref' = [ref EXCEPT ![o] = (@ + 1) % RefMod]
  /\ UNCHANGED <<cow, text>>

StringRefObj(h, o) ==
  /\ ptr' = [ptr EXCEPT ![h] = o]
  /\ ref' = [ref EXCEPT ![o] = (@ + 1) % RefMod]
  /\ cow' = [cow EXCEPT ![o] = TRUE]
  /\ UNCHANGED text

StringRef(h) ==
  /\ h \notin Held
  /\ \E g \in Held : StringRefObj(h, ptr[g])

\* Clients of the library take references to the static EMPTY_STRING.
StringRefEmpty(h) == h \notin Held /\ StringRefObj(h, Empty)

FreeString(h) ==
  /\ h \in Held
  /\ ref[ptr[h]] # 0
  /\ ptr' = [ptr EXCEPT ![h] = NULL]
  /\ ref' = [ref EXCEPT ![ptr[h]] = @ - 1]
  /\ IF ref[ptr[h]] = 1
     THEN /\ cow'  = [cow EXCEPT ![ptr[h]] = FALSE]
          /\ text' = [text EXCEPT ![ptr[h]] = <<>>]
     ELSE UNCHANGED <<cow, text>>

\* string_append_cstr and string_push_back; appending no bytes is a no-op.
StringAppendCstr(h) ==
  /\ h \in Held
  /\ \E t \in (TextInput \cup CharInput) \ {<<>>} :
       Rewrite(h, AppendText(TextOf(h), t))

(* string_append reads b after *a may have been reallocated, so b must not *)
(* be an object whose only reference is *a itself.                         *)
StringAppend(h) ==
  /\ h \in Held
  /\ \E g \in Held :
       /\ ptr[g] # ptr[h] \/ Shared(ptr[h])
       /\ Rewrite(h, AppendText(TextOf(h), TextOf(g)))

StringPopBack(h) == h \in Held /\ Write(h, PopBack(TextOf(h)))

\* string_erase returns before cow_check when there is no such character.  A
\* program that erases or replaces a broken-off one is not followed any further.
StringErase_NoCowCheck(h) ==
  /\ h \in Held
  /\ \E k \in 0 .. MaxIndex :
       text' = [text EXCEPT ![ptr[h]] = Erase(TextOf(h), k)]
  /\ UNCHANGED <<ptr, ref, cow>>

StringErase(h) ==
  /\ h \in Held
  /\ \E k \in 0 .. MaxIndex :
       /\ SjisIndex(TextOf(h), k) # NoChar /\ ~BrokenOff(TextOf(h), k)
       /\ Write(h, Erase(TextOf(h), k))

\* string_set_char runs cow_check first, even if it then writes nothing.
StringSetChar(h) ==
  /\ h \in Held
  /\ \E k \in 0 .. MaxIndex, c \in CharInput \cup {<<>>} :
       /\ k < Len(TextOf(h))
       /\ c # <<>> => ~BrokenOff(TextOf(h), k)
       /\ \/ ~SetCharGrows(TextOf(h), k, c) /\ Write(h, SetChar(TextOf(h), k, c))
          \/ SetCharGrows(TextOf(h), k, c) /\ Rewrite(h, SetChar(TextOf(h), k, c))

\* string_clear has no cow_check: it takes the object, not the handle.
StringClear(h) ==
  /\ h \in Held
  /\ text' = [text EXCEPT ![ptr[h]] = <<>>]
  /\ UNCHANGED <<ptr, ref, cow>>

Next ==
  \E h \in Handle :
    \/ MakeString(h) \/ ReadVmString(h) \/ StringDup(h)
    \/ StringConcatenate(h) \/ StringCopy(h)
    \/ StringRef(h) \/ StringRefEmpty(h) \/ FreeString(h)
    \/ StringAppendCstr(h) \/ StringAppend(h) \/ StringPopBack(h)
    \/ StringErase(h) \/ StringSetChar(h) \/ StringClear(h)

Spec == Init /\ [][Next]_vars
-----------------------------------------------------------------------------
TypeOK ==
  /\ ptr  \in [Handle -> Obj \cup {NULL}]
  /\ ref  \in [Obj -> 0 .. RefMod - 1]
  /\ cow  \in [Obj -> BOOLEAN]
  /\ text \in [Obj -> Text]

(* The count of an object is the number of handles that hold it, plus the  *)
(* static reference of EMPTY_STRING: no string is leaked, none is freed    *)
(* while a handle still points to it, and free_string never reports a      *)
(* double free.                                                            *)
RefCountExact ==
  \A o \in Obj :
    ref[o] = Cardinality(Holders(o)) + (IF o = Empty THEN 1 ELSE 0)

(* A string two handles see is copy-on-write.  cow_check asks for the flag *)
(* AND a second reference before it copies, so without this a mutator      *)
(* would write, or reallocate, under the other holders.                    *)
SharedIsCow == \A o \in Obj : ref[o] > 1 => cow[o]

(* EMPTY_STRING is static: it is never freed or reallocated, and since     *)
(* every module may borrow it, it is never written.                        *)
EmptyStringIntact == ref[Empty] >= 1 /\ cow[Empty] /\ text[Empty] = <<>>

(* The handles behave as if each held a text of its own (StringValues).    *)
Value == [h \in Handle |-> IF ptr[h] = NULL THEN NULL ELSE TextOf(h)]

Values == INSTANCE StringValues WITH value <- Value, NoString <- NULL

ImplementsValues == Values!Spec
=============================================================================
