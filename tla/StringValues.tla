---------------------------- MODULE StringValues ----------------------------
(***************************************************************************)
(* What string.c promises its users: every handle (a variable, field or    *)
(* table slot of type `struct string *') holds a text of its own, or no    *)
(* string.  There are no objects, no reference counts and no copying on    *)
(* write here; StringCow is shown to implement this.                       *)
(***************************************************************************)
EXTENDS SjisText

CONSTANTS Handle,      \* the places that can hold a string
          NoString,    \* a handle that holds none (NULL)
          TextInput,   \* the texts a string can be made from
          CharInput,   \* the characters (byte sequences) given to mutators
          MaxIndex     \* bound on the character indices given to mutators

VARIABLE value

Held == {h \in Handle : value[h] # NoString}

Set(h, t) == value' = [value EXCEPT ![h] = t]

\* A new text: made from bytes, or from the texts of other handles.
Make(h) ==
  /\ h \notin Held
  /\ \/ \E t \in TextInput \cup {<<>>} : Set(h, t)
     \/ \E g \in Held : Set(h, value[g])
     \/ \E f, g \in Held : Set(h, AppendText(value[f], value[g]))
     \/ \E g \in Held, k \in 0 .. MaxIndex, n \in 0 .. MaxIndex :
          Set(h, CopyText(value[g], k, n))

Drop(h) == h \in Held /\ Set(h, NoString)

\* The mutators, each on the one handle it is given.
Mutate(h) ==
  /\ h \in Held
  /\ \/ \E t \in TextInput \cup CharInput : Set(h, AppendText(value[h], t))
     \/ \E g \in Held : Set(h, AppendText(value[h], value[g]))
     \/ Set(h, PopBack(value[h]))
     \/ \E k \in 0 .. MaxIndex : Set(h, Erase(value[h], k))
     \/ \E k \in 0 .. MaxIndex, c \in CharInput \cup {<<>>} :
          Set(h, SetChar(value[h], k, c))

(* string_clear is the exception: it empties the object it is given, so it *)
(* may empty further handles, but only ones that held the same text.       *)
Clear(h) ==
  \E others \in SUBSET Held :
    /\ h \in others
    /\ \A g \in others : value[g] = value[h]
    /\ value' = [g \in Handle |-> IF g \in others THEN <<>> ELSE value[g]]

Init == value = [h \in Handle |-> NoString]

Next == \E h \in Handle : Make(h) \/ Drop(h) \/ Mutate(h) \/ Clear(h)

Spec == Init /\ [][Next]_value
=============================================================================
