------------------------------ MODULE HashTable ------------------------------
(***************************************************************************)
(* The hash tables of src/src/hashtable.c: an array of buckets, each an    *)
(* allocation of its own that holds slots of a key and a value.  A new key *)
(* makes its bucket longer, which may move it, while the client holds the  *)
(* address of a slot that an earlier put returned.  Tables with strings    *)
(* and tables with integers for keys differ in the hash only.              *)
(***************************************************************************)
EXTENDS Integers, Sequences

CONSTANTS Keys,
          Values,      \* NULL may be one: a key can be put without a value yet
          NULL, Absent,
          NrBuckets,   \* a power of two in the code
          Hash         \* string_hash or int_hash of each key

Bucket == 0 .. NrBuckets - 1

Pointers == [bucket : Bucket, index : Nat \ {0}, home : Nat]

ASSUME TableAssumption ==
  /\ NrBuckets \in Nat \ {0}
  /\ Hash \in [Keys -> Nat]
  /\ NULL \notin Keys /\ Absent \notin Values
  /\ NULL \notin Pointers

VARIABLES buckets,   \* the slots of each bucket
          home,      \* how often each bucket has moved: where it is now
          slot       \* the pointer the last put returned, or NULL

vars == <<buckets, home, slot>>

BucketOf(k) == Hash[k] % NrBuckets

Slot == [key : Keys, value : Values]
-----------------------------------------------------------------------------
(* A search in the key's bucket of table t stops at the first slot of the  *)
(* key.                                                                    *)
Places(t, k) == {i \in DOMAIN t[BucketOf(k)] : t[BucketOf(k)][i].key = k}

Present(t, k) == Places(t, k) # {}

Place(t, k) == CHOOSE i \in Places(t, k) : \A j \in Places(t, k) : i <= j

Get(t, k, dflt) == IF Present(t, k) THEN t[BucketOf(k)][Place(t, k)].value ELSE dflt

Pointer(b, i, h) == [bucket |-> b, index |-> i, home |-> h[b]]

Init == /\ buckets = [b \in Bucket |-> <<>>]
        /\ home = [b \in Bucket |-> 0]
        /\ slot = NULL

\* The key is there: its slot is returned, whatever the new value.
PutPresent(k) ==
  /\ Present(buckets, k)
  /\ slot' = Pointer(BucketOf(k), Place(buckets, k), home)
  /\ UNCHANGED <<buckets, home>>

\* A new slot at the end of the bucket, which xmalloc or xrealloc may place
\* somewhere else.
PutNew_StaleSlot(k, v) ==
  LET b == BucketOf(k) IN
  /\ ~Present(buckets, k)
  /\ buckets' = [buckets EXCEPT ![b] = Append(@, [key |-> k, value |-> v])]
  /\ home' \in {home, [home EXCEPT ![b] = @ + 1]}
  /\ slot' = Pointer(b, Len(buckets[b]) + 1, home)

PutNew_OtherBucket(k, v) ==
  LET b == (BucketOf(k) + 1) % NrBuckets IN
  /\ ~Present(buckets, k)
  /\ buckets' = [buckets EXCEPT ![b] = Append(@, [key |-> k, value |-> v])]
  /\ home' \in {home, [home EXCEPT ![b] = @ + 1]}
  /\ slot' = Pointer(b, Len(buckets[b]) + 1, home')

PutNew(k, v) ==
  LET b == BucketOf(k) IN
  /\ ~Present(buckets, k)
  /\ buckets' = [buckets EXCEPT ![b] = Append(@, [key |-> k, value |-> v])]
  /\ home' \in {home, [home EXCEPT ![b] = @ + 1]}
  /\ slot' = Pointer(b, Len(buckets[b]) + 1, home')

Put(k, v) == PutPresent(k) \/ PutNew(k, v)

\* The client sets the value of the slot it was given last.
Store(v) ==
  /\ slot # NULL
  /\ buckets' = [buckets EXCEPT ![slot.bucket][slot.index].value = v]
  /\ UNCHANGED <<home, slot>>

\* ht_free or ht_free_int, and ht_create.
Recreate == /\ buckets' = [b \in Bucket |-> <<>>]
            /\ home' = [b \in Bucket |-> 0]
            /\ slot' = NULL

Next == \/ \E k \in Keys, v \in Values : Put(k, v)
        \/ \E v \in Values : Store(v)
        \/ Recreate

Spec == Init /\ [][Next]_vars
-----------------------------------------------------------------------------
TypeOK ==
  /\ buckets \in [Bucket -> Seq(Slot)]
  /\ home \in [Bucket -> Nat]
  /\ slot \in {NULL} \cup Pointers

(* A client that stores through the slot of its last put stores into a     *)
(* bucket that is still there, however often the bucket has moved.         *)
SlotLive ==
  slot # NULL => /\ slot.index \in DOMAIN buckets[slot.bucket]
                 /\ slot.home = home[slot.bucket]

(* No key has two slots, so that ht_foreach_value passes a value to its    *)
(* function (free, in ain.c) once, and a key is where a search looks.      *)
KeysOnce ==
  \A b \in Bucket : \A i, j \in DOMAIN buckets[b] :
    /\ BucketOf(buckets[b][i].key) = b
    /\ buckets[b][i].key = buckets[b][j].key => i = j

(* The table is the map of the first puts and the later stores, whatever   *)
(* keys share a bucket.                                                    *)
Map == INSTANCE PutMap WITH
         map <- [k \in Keys |-> Get(buckets, k, Absent)],
         at  <- IF slot = NULL THEN NULL ELSE buckets[slot.bucket][slot.index].key

ImplementsMap == Map!Spec
=============================================================================
