-------------------------------- MODULE PutMap --------------------------------
(***************************************************************************)
(* What the users of src/src/hashtable.c count on: a map in which putting  *)
(* a key that is there changes nothing, and which hands out the place of   *)
(* the value, so that the caller can look at it and store another.         *)
(***************************************************************************)
CONSTANTS Keys, Values,
          Absent,   \* in place of the value of a key that was never put
          NULL      \* no key

VARIABLES map,      \* the value of each key
          at        \* the key whose place the client was given, or NULL

Init == map = [k \in Keys |-> Absent] /\ at = NULL

Put(k, v) == /\ map' = IF map[k] = Absent THEN [map EXCEPT ![k] = v] ELSE map
             /\ at' = k

Store(v) == /\ at # NULL
            /\ map' = [map EXCEPT ![at] = v]
            /\ UNCHANGED at

\* Freeing the table and creating another.
Clear == map' = [k \in Keys |-> Absent] /\ at' = NULL

Next == \/ \E k \in Keys, v \in Values : Put(k, v)
        \/ \E v \in Values : Store(v)
        \/ Clear

Spec == Init /\ [][Next]_<<map, at>>
=============================================================================
