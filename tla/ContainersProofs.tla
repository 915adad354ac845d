--------------------------- MODULE ContainersProofs ---------------------------
(***************************************************************************)
(* For any keys, any number of buckets and any hash: the slot a client was *)
(* given last is where it is told, no key has two slots, and the table is  *)
(* the map of PutMap.  For any integers, texts and size of a new buffer:   *)
(* a buffer gives back what was written to it, and stays inside itself.    *)
(* For any ini files with strings of their own, values nested to any bound *)
(* and any number of entries: the entries are what the file says, and no   *)
(* string is freed twice.                                                  *)
(***************************************************************************)
EXTENDS Containers, NaturalsInduction, WellFoundedInduction, TLAPS

-----------------------------------------------------------------------------
(* Hash tables.                                                            *)

IInv == TypeOK /\ SlotLive /\ KeysOnce

LEMMA BucketOfKey ==
  \A k \in Keys : BucketOf(k) \in Bucket
BY TableAssumption DEF BucketOf, Bucket

(* The slots of a bucket have keys and values.                             *)
LEMMA SlotOf ==
  ASSUME TypeOK, NEW b \in Bucket, NEW i \in DOMAIN buckets[b]
  PROVE  /\ i \in Nat \ {0}
         /\ buckets[b][i] \in Slot
         /\ buckets[b][i].key \in Keys
<1>1. buckets[b] \in Seq(Slot)
  BY DEF TypeOK
<1>2. i \in Nat \ {0} /\ buckets[b][i] \in Slot
  BY <1>1
<1> QED
  BY <1>2 DEF Slot

(* A table whose keys are in their own buckets, each once.                 *)
OwnBuckets(t) ==
  \A b \in Bucket : \A i, j \in DOMAIN t[b] :
    /\ BucketOf(t[b][i].key) = b
    /\ t[b][i].key = t[b][j].key => i = j

(* A search for a key stops at the one slot the key has.                   *)
LEMMA PlaceOf ==
  ASSUME NEW t \in [Bucket -> Seq(Slot)], OwnBuckets(t), NEW k \in Keys,
         NEW i \in DOMAIN t[BucketOf(k)], t[BucketOf(k)][i].key = k
  PROVE  Present(t, k) /\ Place(t, k) = i
<1>1. BucketOf(k) \in Bucket /\ t[BucketOf(k)] \in Seq(Slot)
  BY BucketOfKey
<1>2. Places(t, k) = {i}
  BY <1>1 DEF OwnBuckets, Places
<1>3. i \in Nat
  BY <1>1
<1> QED
  BY <1>2, <1>3 DEF Present, Place

LEMMA PresentPlace ==
  ASSUME NEW t \in [Bucket -> Seq(Slot)], OwnBuckets(t), NEW k \in Keys, Present(t, k)
  PROVE  /\ Place(t, k) \in DOMAIN t[BucketOf(k)]
         /\ t[BucketOf(k)][Place(t, k)].key = k
<1>1. PICK i \in DOMAIN t[BucketOf(k)] : t[BucketOf(k)][i].key = k
  BY DEF Present, Places
<1> QED
  BY <1>1, PlaceOf

LEMMA TableOfState ==
  ASSUME IInv
  PROVE  buckets \in [Bucket -> Seq(Slot)] /\ OwnBuckets(buckets)
BY DEF IInv, TypeOK, KeysOnce, OwnBuckets

LEMMA InitIInv == Init => IInv
<1> SUFFICES ASSUME Init
             PROVE  IInv
  OBVIOUS
<1>1. TypeOK
  BY TableAssumption DEF Init, TypeOK, Slot
<1>2. SlotLive /\ KeysOnce
  BY DEF Init, SlotLive, KeysOnce
<1> QED
  BY <1>1, <1>2 DEF IInv
-----------------------------------------------------------------------------
LEMMA PutPresentIInv ==
  ASSUME IInv, NEW k \in Keys, PutPresent(k)
  PROVE  IInv'
<1>1. /\ BucketOf(k) \in Bucket
      /\ Place(buckets, k) \in DOMAIN buckets[BucketOf(k)]
      /\ Place(buckets, k) \in Nat \ {0}
  BY BucketOfKey, TableOfState, PresentPlace, SlotOf DEF IInv, PutPresent
<1>2. slot' = [bucket |-> BucketOf(k), index |-> Place(buckets, k), home |-> home[BucketOf(k)]]
  BY DEF PutPresent, Pointer
<1>3. UNCHANGED <<buckets, home>>
  BY DEF PutPresent
<1>4. TypeOK'
  BY <1>1, <1>2, <1>3 DEF IInv, TypeOK, Pointers
<1>5. SlotLive'
  BY <1>1, <1>2, <1>3 DEF SlotLive
<1>6. KeysOnce'
  BY <1>3 DEF IInv, KeysOnce, BucketOf
<1> QED
  BY <1>4, <1>5, <1>6 DEF IInv

(* What a put of a new key does to the slots.                              *)
LEMMA NewSlot ==
  ASSUME IInv, NEW k \in Keys, NEW v \in Values, PutNew(k, v)
  PROVE  LET b == BucketOf(k)
             n == Len(buckets[b]) + 1
         IN  /\ b \in Bucket /\ n \in Nat \ {0}
             /\ DOMAIN buckets'[b] = DOMAIN buckets[b] \cup {n}
             /\ n \notin DOMAIN buckets[b]
             /\ buckets'[b][n] = [key |-> k, value |-> v]
             /\ \A i \in DOMAIN buckets[b] : buckets'[b][i] = buckets[b][i]
             /\ \A c \in Bucket \ {b} : buckets'[c] = buckets[c]
             /\ slot' = [bucket |-> b, index |-> n, home |-> home'[b]]
<1> DEFINE b == BucketOf(k)
<1>1. b \in Bucket /\ buckets[b] \in Seq(Slot) /\ DOMAIN buckets = Bucket
  BY BucketOfKey DEF IInv, TypeOK
<1>2. buckets' = [buckets EXCEPT ![b] = Append(buckets[b], [key |-> k, value |-> v])]
  BY DEF PutNew
<1>3. slot' = [bucket |-> b, index |-> Len(buckets[b]) + 1, home |-> home'[b]]
  BY DEF PutNew, Pointer
<1> QED
  BY <1>1, <1>2, <1>3

LEMMA PutNewIInv ==
  ASSUME IInv, NEW k \in Keys, NEW v \in Values, PutNew(k, v)
  PROVE  IInv'
<1> DEFINE b == BucketOf(k)
           n == Len(buckets[b]) + 1
<1>1. /\ b \in Bucket /\ n \in Nat \ {0}
      /\ DOMAIN buckets'[b] = DOMAIN buckets[b] \cup {n}
      /\ n \notin DOMAIN buckets[b]
      /\ buckets'[b][n] = [key |-> k, value |-> v]
      /\ \A i \in DOMAIN buckets[b] : buckets'[b][i] = buckets[b][i]
      /\ \A c \in Bucket \ {b} : buckets'[c] = buckets[c]
      /\ slot' = [bucket |-> b, index |-> n, home |-> home'[b]]
  BY NewSlot
<1>2. home' \in [Bucket -> Nat]
  <2>1. home \in [Bucket -> Nat] /\ b \in Bucket
    BY <1>1 DEF IInv, TypeOK
  <2>2. home' \in {home, [home EXCEPT ![b] = home[b] + 1]}
    BY DEF PutNew
  <2> QED
    BY <2>1, <2>2
<1>3. buckets' \in [Bucket -> Seq(Slot)]
  <2>1. [key |-> k, value |-> v] \in Slot
    BY DEF Slot
  <2> QED
    BY <1>1, <2>1 DEF IInv, TypeOK, PutNew
<1>4. TypeOK'
  BY <1>1, <1>2, <1>3 DEF TypeOK, Pointers
<1>5. SlotLive'
  BY <1>1 DEF SlotLive
<1>6. \A i \in DOMAIN buckets[b] : buckets[b][i].key # k
  BY <1>1 DEF PutNew, Present, Places
<1>7. KeysOnce'
  <2> SUFFICES ASSUME NEW c \in Bucket, NEW i \in DOMAIN buckets'[c], NEW j \in DOMAIN buckets'[c]
               PROVE  /\ BucketOf(buckets'[c][i].key) = c
                      /\ buckets'[c][i].key = buckets'[c][j].key => i = j
    BY DEF KeysOnce, BucketOf
  <2>1. CASE c # b
    BY <1>1, <2>1 DEF IInv, KeysOnce
  <2>2. CASE c = b
    BY <1>1, <1>6, <2>2 DEF IInv, KeysOnce
  <2> QED
    BY <2>1, <2>2
<1> QED
  BY <1>4, <1>5, <1>7 DEF IInv

(* A store changes the value in one slot, and no key.                      *)
LEMMA StoredSlot ==
  ASSUME IInv, NEW v \in Values, Store(v)
  PROVE  LET b == slot.bucket
             n == slot.index
         IN  /\ b \in Bucket /\ n \in DOMAIN buckets[b]
             /\ buckets' \in [Bucket -> Seq(Slot)]
             /\ \A c \in Bucket : /\ DOMAIN buckets'[c] = DOMAIN buckets[c]
                                  /\ \A i \in DOMAIN buckets[c] :
                                       buckets'[c][i].key = buckets[c][i].key
             /\ buckets'[b][n].value = v
             /\ \A c \in Bucket : \A i \in DOMAIN buckets[c] :
                  c # b \/ i # n => buckets'[c][i] = buckets[c][i]
<1> DEFINE b == slot.bucket
           n == slot.index
           s == [key |-> buckets[b][n].key, value |-> v]
<1>1. b \in Bucket /\ n \in DOMAIN buckets[b]
  <2>1. slot \in Pointers
    BY DEF IInv, TypeOK, Store
  <2> QED
    BY <2>1 DEF IInv, SlotLive, Store, Pointers
<1>2. /\ s \in Slot /\ s.value = v /\ s.key = buckets[b][n].key
      /\ [buckets[b][n] EXCEPT !.value = v] = s
  <2>1. buckets[b][n] \in Slot
    BY <1>1, SlotOf DEF IInv
  <2> QED
    BY <2>1 DEF Slot
<1>3. buckets[b] \in Seq(Slot) /\ buckets \in [Bucket -> Seq(Slot)]
  BY <1>1 DEF IInv, TypeOK
<1>4. buckets' = [buckets EXCEPT ![b] = [buckets[b] EXCEPT ![n] = s]]
  <2>1. buckets' = [buckets EXCEPT ![b] = [buckets[b] EXCEPT ![n] = [buckets[b][n] EXCEPT !.value = v]]]
    BY Zenon DEF Store
  <2> QED
    BY <1>2, <2>1, Zenon
<1>5. [buckets[b] EXCEPT ![n] = s] \in Seq(Slot)
  BY <1>1, <1>2, <1>3
<1> QED
  BY <1>1, <1>2, <1>3, <1>4, <1>5

LEMMA StoreIInv ==
  ASSUME IInv, NEW v \in Values, Store(v)
  PROVE  IInv'
<1>1. UNCHANGED <<home, slot>>
  BY DEF Store
<1>2. TypeOK'
  BY <1>1, StoredSlot DEF IInv, TypeOK
<1>3. SlotLive'
  BY <1>1, StoredSlot DEF IInv, SlotLive
<1>4. KeysOnce'
  <2> SUFFICES ASSUME NEW c \in Bucket, NEW i \in DOMAIN buckets'[c], NEW j \in DOMAIN buckets'[c]
               PROVE  /\ BucketOf(buckets'[c][i].key) = c
                      /\ buckets'[c][i].key = buckets'[c][j].key => i = j
    BY DEF KeysOnce, BucketOf
  <2> QED
    BY StoredSlot DEF IInv, KeysOnce
<1> QED
  BY <1>2, <1>3, <1>4 DEF IInv

LEMMA NextIInv == IInv /\ [Next]_vars => IInv'
<1> SUFFICES ASSUME IInv, [Next]_vars
             PROVE  IInv'
  OBVIOUS
<1>1. CASE \E k \in Keys, v \in Values : Put(k, v)
  BY <1>1, PutPresentIInv, PutNewIInv DEF Put
<1>2. CASE \E v \in Values : Store(v)
  BY <1>2, StoreIInv
<1>3. CASE Recreate
  <2>1. TypeOK'
    BY <1>3, TableAssumption DEF Recreate, TypeOK, Slot
  <2>2. SlotLive' /\ KeysOnce'
    BY <1>3 DEF Recreate, SlotLive, KeysOnce
  <2> QED
    BY <2>1, <2>2 DEF IInv
<1>4. CASE UNCHANGED vars
  BY <1>4 DEF vars, IInv, TypeOK, SlotLive, KeysOnce, BucketOf
<1> QED
  BY <1>1, <1>2, <1>3, <1>4 DEF Next

(* The slot of the last put can be stored to (ain.c does, with the lists   *)
(* of functions): it has not been left behind by a bucket that moved.      *)
THEOREM LastSlotIsLive == Spec => []SlotLive
<1>1. Spec => []IInv
  BY InitIInv, NextIInv, PTL DEF Spec
<1>2. IInv => SlotLive
  BY DEF IInv
<1> QED
  BY <1>1, <1>2, PTL

(* No key ever has two slots, whatever its hash shares.                    *)
THEOREM KeysAreOnce == Spec => []KeysOnce
<1>1. Spec => []IInv
  BY InitIInv, NextIInv, PTL DEF Spec
<1>2. IInv => KeysOnce
  BY DEF IInv
<1> QED
  BY <1>1, <1>2, PTL
-----------------------------------------------------------------------------
(* What a search finds, by whether the key has a slot.                     *)
LEMMA GetPresent ==
  ASSUME NEW t \in [Bucket -> Seq(Slot)], OwnBuckets(t), NEW k \in Keys,
         NEW i \in DOMAIN t[BucketOf(k)], t[BucketOf(k)][i].key = k
  PROVE  Get(t, k, Absent) = t[BucketOf(k)][i].value
BY PlaceOf DEF Get

LEMMA GetAbsent ==
  ASSUME NEW t, NEW k, \A i \in DOMAIN t[BucketOf(k)] : t[BucketOf(k)][i].key # k
  PROVE  Get(t, k, Absent) = Absent /\ ~Present(t, k)
BY DEF Get, Present, Places

LEMMA PresentHasValue ==
  ASSUME NEW t \in [Bucket -> Seq(Slot)], OwnBuckets(t), NEW k \in Keys, Present(t, k)
  PROVE  Get(t, k, Absent) # Absent
<1>1. BucketOf(k) \in Bucket /\ t[BucketOf(k)] \in Seq(Slot)
  BY BucketOfKey
<1>2. t[BucketOf(k)][Place(t, k)] \in Slot
  BY <1>1, PresentPlace
<1> QED
  BY <1>2, TableAssumption DEF Get, Slot

(* A key whose slots are the same in two tables has the same value.        *)
LEMMA SameSlots ==
  ASSUME NEW t, NEW u, NEW k, u[BucketOf(k)] = t[BucketOf(k)]
  PROVE  Get(u, k, Absent) = Get(t, k, Absent)
<1>1. Places(u, k) = Places(t, k)
  BY DEF Places
<1>2. Present(u, k) = Present(t, k) /\ Place(u, k) = Place(t, k)
  BY <1>1 DEF Present, Place
<1> QED
  BY <1>2 DEF Get

LEMMA InitMaps == Init => Map!Init
<1> SUFFICES ASSUME Init
             PROVE  Map!Init
  OBVIOUS
<1>1. \A k \in Keys : buckets[BucketOf(k)] = <<>>
  BY BucketOfKey DEF Init
<1>2. \A k \in Keys : Get(buckets, k, Absent) = Absent
  <2>0. DOMAIN <<>> = {}
    OBVIOUS
  <2>1. \A k \in Keys : Places(buckets, k) = {}
    BY <1>1, <2>0, Zenon DEF Places
  <2> QED
    BY <2>1 DEF Get, Present
<1> QED
  BY <1>2 DEF Init, Map!Init

(* The value of every key after a step, from the slots after it.           *)
LEMMA PutPresentMaps ==
  ASSUME IInv, NEW k \in Keys, NEW v \in Values, PutPresent(k)
  PROVE  Map!Put(k, v)
<1>1. buckets' = buckets /\ slot' = Pointer(BucketOf(k), Place(buckets, k), home)
  BY DEF PutPresent
<1>2. Get(buckets, k, Absent) # Absent
  BY TableOfState, PresentHasValue DEF PutPresent
<1>3. buckets[BucketOf(k)][Place(buckets, k)].key = k
  BY TableOfState, PresentPlace DEF PutPresent
<1>4. slot' # NULL /\ buckets'[slot'.bucket][slot'.index].key = k
  <2>2. slot' = [bucket |-> BucketOf(k), index |-> Place(buckets, k), home |-> home[BucketOf(k)]]
    BY <1>1 DEF Pointer
  <2>3. slot' \in Pointers
    <3>1. BucketOf(k) \in Bucket /\ home[BucketOf(k)] \in Nat
      BY BucketOfKey DEF IInv, TypeOK
    <3>2. Place(buckets, k) \in Nat \ {0}
      BY <3>1, TableOfState, PresentPlace, SlotOf DEF IInv, PutPresent
    <3> QED
      BY <2>2, <3>1, <3>2 DEF Pointers
  <2> QED
    BY <1>1, <1>3, <2>2, <2>3, TableAssumption
<1> QED
  BY <1>1, <1>2, <1>4 DEF Map!Put

LEMMA PutNewMaps ==
  ASSUME IInv, NEW k \in Keys, NEW v \in Values, PutNew(k, v)
  PROVE  Map!Put(k, v)
<1> DEFINE b == BucketOf(k)
           n == Len(buckets[b]) + 1
<1>1. /\ buckets' \in [Bucket -> Seq(Slot)] /\ OwnBuckets(buckets')
      /\ slot' \in {NULL} \cup Pointers
  <2>1. IInv'
    BY PutNewIInv
  <2> QED
    BY <2>1 DEF IInv, TypeOK, KeysOnce, OwnBuckets, BucketOf
<1>2. /\ b \in Bucket
      /\ DOMAIN buckets'[b] = DOMAIN buckets[b] \cup {n}
      /\ buckets'[b][n] = [key |-> k, value |-> v]
      /\ \A i \in DOMAIN buckets[b] : buckets'[b][i] = buckets[b][i]
      /\ \A c \in Bucket \ {b} : buckets'[c] = buckets[c]
      /\ slot' = [bucket |-> b, index |-> n, home |-> home'[b]]
  BY NewSlot
<1>3. Get(buckets', k, Absent) = v
  BY <1>1, <1>2, GetPresent
<1>4. Get(buckets, k, Absent) = Absent
  BY DEF PutNew, Get
<1>5. \A c \in Keys \ {k} : Get(buckets', c, Absent) = Get(buckets, c, Absent)
  <2> SUFFICES ASSUME NEW c \in Keys \ {k}
               PROVE  Get(buckets', c, Absent) = Get(buckets, c, Absent)
    OBVIOUS
  <2>1. CASE BucketOf(c) # b
    <3>1. buckets'[BucketOf(c)] = buckets[BucketOf(c)]
      BY <1>2, <2>1, BucketOfKey
    <3> QED
      BY <3>1, SameSlots
  <2>2. CASE BucketOf(c) = b /\ Present(buckets, c)
    <3> DEFINE i == Place(buckets, c)
    <3>1. i \in DOMAIN buckets[b] /\ buckets[b][i].key = c
      BY <2>2, TableOfState, PresentPlace
    <3>2. i \in DOMAIN buckets'[b] /\ buckets'[b][i] = buckets[b][i]
      BY <1>2, <3>1
    <3>3. Get(buckets', c, Absent) = buckets'[b][i].value
      BY <1>1, <2>2, <3>1, <3>2, GetPresent
    <3>4. Get(buckets, c, Absent) = buckets[b][i].value
      BY <2>2, <3>1, TableOfState, GetPresent
    <3> QED
      BY <3>2, <3>3, <3>4
  <2>3. CASE BucketOf(c) = b /\ ~Present(buckets, c)
    <3>1. \A i \in DOMAIN buckets[b] : buckets[b][i].key # c
      BY <2>3 DEF Present, Places
    <3>2. \A i \in DOMAIN buckets'[b] : buckets'[b][i].key # c
      BY <1>2, <3>1
    <3> QED
      BY <2>3, <3>1, <3>2, GetAbsent
  <2> QED
    BY <2>1, <2>2, <2>3
<1>6. slot' # NULL /\ buckets'[slot'.bucket][slot'.index].key = k
  <2>1. slot' \in Pointers
    <3>1. home' \in [Bucket -> Nat] /\ n \in Nat \ {0}
      BY PutNewIInv, NewSlot DEF IInv, TypeOK
    <3> QED
      BY <1>2, <3>1 DEF Pointers
  <2> QED
    BY <1>2, <2>1, TableAssumption
<1> QED
  BY <1>3, <1>4, <1>5, <1>6 DEF Map!Put

LEMMA StoreMaps ==
  ASSUME IInv, NEW v \in Values, Store(v)
  PROVE  Map!Store(v)
<1> DEFINE b == slot.bucket
           n == slot.index
           k == buckets[b][n].key
<1>1. slot # NULL /\ slot' = slot
  BY DEF Store
<1>2. /\ b \in Bucket /\ n \in DOMAIN buckets[b] /\ n \in DOMAIN buckets'[b]
      /\ buckets'[b][n].key = k /\ buckets'[b][n].value = v
  BY StoredSlot
<1>3. k \in Keys /\ BucketOf(k) = b
  BY <1>2, SlotOf DEF IInv, KeysOnce
<1>4. buckets' \in [Bucket -> Seq(Slot)] /\ OwnBuckets(buckets')
  <2>1. IInv'
    BY StoreIInv
  <2> QED
    BY <2>1 DEF IInv, TypeOK, KeysOnce, OwnBuckets, BucketOf
<1>5. Get(buckets', k, Absent) = v
  BY <1>2, <1>3, <1>4, GetPresent
<1>6. \A c \in Keys \ {k} : Get(buckets', c, Absent) = Get(buckets, c, Absent)
  <2> SUFFICES ASSUME NEW c \in Keys \ {k}
               PROVE  Get(buckets', c, Absent) = Get(buckets, c, Absent)
    OBVIOUS
  <2> DEFINE d == BucketOf(c)
  <2>0. d \in Bucket
    BY BucketOfKey
  <2>1. CASE Present(buckets, c)
    <3> DEFINE i == Place(buckets, c)
    <3>1. i \in DOMAIN buckets[d] /\ buckets[d][i].key = c
      BY <2>1, TableOfState, PresentPlace
    <3>2. d # b \/ i # n
      BY <3>1
    <3>3. i \in DOMAIN buckets'[d] /\ buckets'[d][i] = buckets[d][i]
      BY <2>0, <3>1, <3>2, StoredSlot
    <3>4. Get(buckets', c, Absent) = buckets'[d][i].value
      BY <1>4, <3>1, <3>3, GetPresent
    <3>5. Get(buckets, c, Absent) = buckets[d][i].value
      BY <3>1, TableOfState, GetPresent
    <3> QED
      BY <3>3, <3>4, <3>5
  <2>2. CASE ~Present(buckets, c)
    <3>1. \A i \in DOMAIN buckets[d] : buckets[d][i].key # c
      BY <2>2 DEF Present, Places
    <3>2. \A i \in DOMAIN buckets'[d] : buckets'[d][i].key # c
      BY <2>0, <3>1, StoredSlot
    <3> QED
      BY <3>1, <3>2, GetAbsent
  <2> QED
    BY <2>1, <2>2
<1>7. k # NULL
  BY <1>3, TableAssumption
<1> QED
  BY <1>1, <1>2, <1>3, <1>5, <1>6, <1>7 DEF Map!Store

LEMMA RecreateMaps == Recreate => Map!Clear
<1> SUFFICES ASSUME Recreate
             PROVE  Map!Clear
  OBVIOUS
<1>1. \A k \in Keys : buckets'[BucketOf(k)] = <<>>
  BY BucketOfKey DEF Recreate
<1>2. \A k \in Keys : Get(buckets', k, Absent) = Absent
  BY <1>1 DEF Get, Present, Places
<1> QED
  BY <1>2 DEF Recreate, Map!Clear

(* The table is the map of the first puts and the later stores.            *)
THEOREM HashTableImplementsMap == Spec => ImplementsMap
<1>1. Spec => []IInv
  BY InitIInv, NextIInv, PTL DEF Spec
<1>2. IInv /\ [Next]_vars => [Map!Next]_<<[k \in Keys |-> Get(buckets, k, Absent)],
          IF slot = NULL THEN NULL ELSE buckets[slot.bucket][slot.index].key>>
  <2> SUFFICES ASSUME IInv, [Next]_vars
               PROVE  [Map!Next]_<<[k \in Keys |-> Get(buckets, k, Absent)],
                        IF slot = NULL THEN NULL ELSE buckets[slot.bucket][slot.index].key>>
    OBVIOUS
  <2>1. CASE \E k \in Keys, v \in Values : Put(k, v)
    BY <2>1, PutPresentMaps, PutNewMaps DEF Put, Map!Next
  <2>2. CASE \E v \in Values : Store(v)
    BY <2>2, StoreMaps DEF Map!Next
  <2>3. CASE Recreate
    BY <2>3, RecreateMaps DEF Map!Next
  <2>4. CASE UNCHANGED vars
    <3>1. \A k \in Keys : Get(buckets', k, Absent) = Get(buckets, k, Absent)
      BY <2>4, SameSlots DEF vars
    <3> QED
      BY <2>4, <3>1 DEF vars
  <2> QED
    BY <2>1, <2>2, <2>3, <2>4 DEF Next
<1> QED
  BY <1>1, <1>2, InitMaps, PTL DEF Spec, ImplementsMap, Map!Spec

(* The table of the containers is a table of its own.                      *)
LEMMA TableOfContainers == SpecContainers => Spec
<1>1. InitContainers => Init
  BY DEF InitContainers
<1>2. [NextContainers]_varsContainers => [Next]_vars
  BY DEF NextContainers, varsContainers
<1> QED BY <1>1, <1>2, PTL DEF SpecContainers, Spec

-----------------------------------------------------------------------------
(* Buffers: numbers, and how a buffer grows.                               *)

(* Every nonempty set of naturals has a least element.                     *)
Less == {p \in Nat \X Nat : p[1] < p[2]}

LEMMA LeastExists ==
  ASSUME NEW T \in SUBSET Nat, T # {}
  PROVE  \E x \in T : \A y \in T : x <= y
<1>1. IsWellFoundedOn(Less, Nat)
  <2>1. OpToRel(<, Nat) = Less
    BY Zenon DEF Less, OpToRel
  <2> QED BY <2>1, NatLessThanWellFounded
<1>2. PICK x \in T : \A y \in T : ~ (<<y, x>> \in Less)
  BY <1>1, WFMin
<1>3. \A y \in T : y \in Nat /\ ~ (y < x)
  <2> SUFFICES ASSUME NEW y \in T PROVE y \in Nat /\ ~ (y < x)
    OBVIOUS
  <2>1. <<y, x>> \in Nat \X Nat /\ <<y, x>>[1] = y /\ <<y, x>>[2] = x
    OBVIOUS
  <2> QED BY <1>2, <2>1 DEF Less
<1> QED BY <1>3

(* What holds of 0 and passes on from each number to the next holds of all.*)
LEMMA Counting ==
  ASSUME NEW P, P \subseteq Nat, 0 \in P, \A n \in P : n + 1 \in P
  PROVE  P = Nat
<1> SUFFICES ASSUME Nat \ P # {} PROVE FALSE
  OBVIOUS
<1>1. PICK m \in Nat \ P : \A k \in Nat \ P : m <= k
  <2>1. Nat \ P \in SUBSET Nat
    OBVIOUS
  <2> QED BY <2>1, LeastExists
<1>2. m # 0 /\ m - 1 \in Nat /\ ~ (m <= m - 1) /\ m - 1 + 1 = m
  OBVIOUS
<1>3. m - 1 \in P
  BY <1>1, <1>2
<1> QED BY <1>2, <1>3

(* Doubling a size reaches any number in as many steps.                    *)
LEMMA DoublingExists ==
  ASSUME NEW N \in Nat, NEW size
  PROVE  \E f : f = [k \in 0 .. N |-> IF k = 0 THEN size ELSE 2 * f[k - 1]]
<1> DEFINE J(m, f) == f = [k \in 0 .. m |-> IF k = 0 THEN size ELSE 2 * f[k - 1]]
           P == {m \in Nat : \E f : J(m, f)}
<1>1. 0 \in P
  <2>1. J(0, [k \in 0 .. 0 |-> size])
    OBVIOUS
  <2> HIDE DEF J
  <2> QED BY <2>1
<1>2. ASSUME NEW m \in P PROVE m + 1 \in P
  <2>1. PICK f : J(m, f)
    <3> HIDE DEF J
    <3> QED OBVIOUS
  <2> DEFINE g == [k \in 0 .. m + 1 |-> IF k = m + 1 THEN 2 * f[m] ELSE f[k]]
  <2>2. ASSUME NEW k \in 0 .. m + 1
        PROVE  g[k] = IF k = 0 THEN size ELSE 2 * g[k - 1]
    <3>1. CASE k = m + 1
      <4>1. k - 1 = m /\ k # 0 /\ m \in 0 .. m + 1 /\ m # m + 1
        BY <3>1
      <4> QED BY <3>1, <4>1
    <3>2. CASE k = 0
      BY <2>1, <3>2
    <3>3. CASE k # 0 /\ k # m + 1
      <4>1. k - 1 \in 0 .. m + 1 /\ k - 1 # m + 1 /\ k \in 0 .. m
        BY <3>3
      <4>2. f[k] = 2 * f[k - 1]
        BY <2>1, <3>3, <4>1
      <4> QED BY <3>3, <4>1, <4>2
    <3> QED BY <3>1, <3>2, <3>3
  <2>3. g = [k \in 0 .. m + 1 |-> g[k]]
    OBVIOUS
  <2> HIDE DEF g
  <2>4. J(m + 1, g)
    BY <2>2, <2>3
  <2> HIDE DEF J
  <2> QED BY <2>4
<1>3. P \subseteq Nat
  OBVIOUS
<1> HIDE DEF P, J
<1>4. P = Nat
  BY <1>1, <1>2, <1>3, Counting
<1>5. \E f : J(N, f)
  BY <1>4 DEF P
<1> QED BY <1>5 DEF J

(* A size that is doubled grows with every step.                           *)
LEMMA DoublingGrows ==
  ASSUME NEW N \in Nat, NEW size \in Nat \ {0}, NEW d,
         d = [k \in 0 .. N |-> IF k = 0 THEN size ELSE 2 * d[k - 1]]
  PROVE  \A k \in 0 .. N : d[k] \in Nat /\ d[k] >= size + k
<1> DEFINE P == {k \in Nat : k <= N => d[k] \in Nat /\ d[k] >= size + k}
<1>1. 0 \in P
  OBVIOUS
<1>2. ASSUME NEW k \in P PROVE k + 1 \in P
  <2> SUFFICES ASSUME k + 1 <= N PROVE d[k + 1] \in Nat /\ d[k + 1] >= size + (k + 1)
    OBVIOUS
  <2>1. k + 1 \in 0 .. N /\ k + 1 # 0 /\ k + 1 - 1 = k
    OBVIOUS
  <2>2. d[k + 1] = 2 * d[k]
    BY <2>1
  <2>3. d[k] \in Nat /\ d[k] >= size + k
    OBVIOUS
  <2> QED BY <2>2, <2>3
<1>3. P \subseteq Nat
  OBVIOUS
<1> HIDE DEF P
<1>4. P = Nat
  BY <1>1, <1>2, <1>3, Counting
<1> QED
  <2>1. ASSUME NEW k \in 0 .. N PROVE k \in P /\ k <= N
    BY <1>4
  <2> QED BY <2>1 DEF P

(* A buffer is doubled until it exceeds what is needed (buffer.c:125).     *)
LEMMA DoubledExceeds ==
  ASSUME NEW size \in Nat \ {0}, NEW needed \in Nat
  PROVE  /\ Bytes!Doubled(size, needed) \in Nat
         /\ Bytes!Doubled(size, needed) > needed
         /\ Bytes!Doubled(size, needed) >= size
<1> DEFINE Rule(f) == f = [k \in 0 .. needed + 1 |-> IF k = 0 THEN size ELSE 2 * f[k - 1]]
           d == CHOOSE f : Rule(f)
<1>1. Rule(d)
  <2>1. needed + 1 \in Nat
    OBVIOUS
  <2>2. \E f : Rule(f)
    BY <2>1, DoublingExists
  <2> HIDE DEF Rule
  <2> QED BY <2>2
<1> DEFINE k == CHOOSE k \in DOMAIN d : d[k] > needed /\ \A j \in 0 .. k - 1 : d[j] <= needed
<1>2. Bytes!Doubled(size, needed) = d[k]
  BY DEF Bytes!Doubled
<1> HIDE DEF d
<1>3. DOMAIN d = 0 .. needed + 1
  BY <1>1
<1>4. \A i \in 0 .. needed + 1 : d[i] \in Nat /\ d[i] >= size + i
  <2>1. needed + 1 \in Nat
    OBVIOUS
  <2> QED BY <1>1, <2>1, DoublingGrows
<1>5. \E i \in DOMAIN d : d[i] > needed /\ \A j \in 0 .. i - 1 : d[j] <= needed
  <2> DEFINE T == {i \in 0 .. needed + 1 : d[i] > needed}
  <2>1. needed + 1 \in T
    BY <1>4
  <2>2. PICK i \in T : \A j \in T : i <= j
    <3>1. T \in SUBSET Nat /\ T # {}
      BY <2>1
    <3> HIDE DEF T
    <3> QED BY <3>1, LeastExists
  <2>3. \A j \in 0 .. i - 1 : d[j] <= needed
    BY <1>4, <2>2
  <2> QED BY <1>3, <2>2, <2>3
<1>6. k \in DOMAIN d /\ d[k] > needed
  BY <1>5
<1> HIDE DEF k
<1> QED BY <1>2, <1>3, <1>4, <1>6
-----------------------------------------------------------------------------
Octets == 0 .. 255

(* The weights of the four bytes.                                          *)
LEMMA RadixIs ==
  Bytes!Radix[1] = 1 /\ Bytes!Radix[2] = 256 /\ Bytes!Radix[3] = (256 * 256) /\ Bytes!Radix[4] = (256 * 256 * 256)
BY DEF Bytes!Radix

(* The bytes of a number, the lowest first.                                *)
LEMMA BytesAre ==
  ASSUME NEW v \in Int
  PROVE  /\ Bytes!Bytes(v, 1) = <<v % 256>>
         /\ Bytes!Bytes(v, 2) = <<v % 256, (v \div 256) % 256>>
         /\ Bytes!Bytes(v, 4) = <<v % 256, (v \div 256) % 256, (v \div (256 * 256)) % 256, (v \div (256 * 256 * 256)) % 256>>
<1>1. v \div 1 = v
  OBVIOUS
<1>2. 1 .. 1 = {1} /\ 1 .. 2 = {1, 2} /\ 1 .. 4 = {1, 2, 3, 4}
  OBVIOUS
<1>3. Bytes!Bytes(v, 1) = <<v % 256>>
  BY <1>1, <1>2, RadixIs DEF Bytes!Bytes
<1>4. Bytes!Bytes(v, 2) = <<v % 256, (v \div 256) % 256>>
  BY <1>1, <1>2, RadixIs DEF Bytes!Bytes
<1>5. Bytes!Bytes(v, 4) = <<v % 256, (v \div 256) % 256, (v \div (256 * 256)) % 256, (v \div (256 * 256 * 256)) % 256>>
  BY <1>1, <1>2, RadixIs DEF Bytes!Bytes
<1> QED BY <1>3, <1>4, <1>5

(* Short tuples are sequences.                                             *)
LEMMA Tuples ==
  ASSUME NEW S, NEW a \in S, NEW b \in S, NEW c \in S, NEW d \in S
  PROVE  /\ <<a>> \in Seq(S) /\ Len(<<a>>) = 1
         /\ <<a, b>> \in Seq(S) /\ Len(<<a, b>>) = 2
         /\ <<a, b, c, d>> \in Seq(S) /\ Len(<<a, b, c, d>>) = 4
OBVIOUS

(* They are octets, as many as asked for.                                  *)
LEMMA BytesOctets ==
  ASSUME NEW v \in Int
  PROVE  /\ Bytes!Bytes(v, 1) \in Seq(Octets) /\ Len(Bytes!Bytes(v, 1)) = 1
         /\ Bytes!Bytes(v, 2) \in Seq(Octets) /\ Len(Bytes!Bytes(v, 2)) = 2
         /\ Bytes!Bytes(v, 4) \in Seq(Octets) /\ Len(Bytes!Bytes(v, 4)) = 4
<1>1. \A x \in Int : x % 256 \in Octets
  BY DEF Octets
<1>2. v \div 256 \in Int /\ v \div (256 * 256) \in Int /\ v \div (256 * 256 * 256) \in Int
  OBVIOUS
<1>3. /\ v % 256 \in Octets /\ (v \div 256) % 256 \in Octets
      /\ (v \div (256 * 256)) % 256 \in Octets /\ (v \div (256 * 256 * 256)) % 256 \in Octets
  BY <1>1, <1>2
<1> DEFINE a == v % 256
           b == (v \div 256) % 256
           c == (v \div (256 * 256)) % 256
           d == (v \div (256 * 256 * 256)) % 256
<1>4. Bytes!Bytes(v, 1) = <<a>> /\ Bytes!Bytes(v, 2) = <<a, b>> /\ Bytes!Bytes(v, 4) = <<a, b, c, d>>
  BY BytesAre
<1> HIDE DEF a, b, c, d
<1>5. a \in Octets /\ b \in Octets /\ c \in Octets /\ d \in Octets
  BY <1>3 DEF a, b, c, d
<1>6. /\ <<a>> \in Seq(Octets) /\ Len(<<a>>) = 1
      /\ <<a, b>> \in Seq(Octets) /\ Len(<<a, b>>) = 2
      /\ <<a, b, c, d>> \in Seq(Octets) /\ Len(<<a, b, c, d>>) = 4
  BY <1>5, Tuples, Zenon
<1> QED BY <1>4, <1>6, Zenon

(* A number is read from its bytes as it was written.                      *)
LEMMA NumberIs ==
  ASSUME NEW bs, \A i \in DOMAIN bs : bs[i] \in Octets
  PROVE  /\ bs \in Seq(Octets) /\ Len(bs) = 1 => Bytes!Number(bs) = bs[1]
         /\ bs \in Seq(Octets) /\ Len(bs) = 2 => Bytes!Number(bs) = bs[1] + 256 * bs[2]
         /\ bs \in Seq(Octets) /\ Len(bs) = 4 =>
              Bytes!Number(bs) = bs[1] + 256 * bs[2] + (256 * 256) * bs[3]
                                 + (256 * 256 * 256) * (IF bs[4] >= 128 THEN bs[4] - 256 ELSE bs[4])
<1>1. ~ \E i \in DOMAIN bs : bs[i] = Undefined
  BY BytesAssumption DEF Bytes!BufferAssumption, Octets
<1>2. ASSUME bs \in Seq(Octets), Len(bs) = 1
      PROVE  Bytes!Number(bs) = bs[1]
  <2> DEFINE top == IF 1 = 4 /\ bs[1] >= 128 THEN bs[1] - 256 ELSE bs[1]
             Digit(i) == IF i < 1 THEN bs[i] * Bytes!Radix[i] ELSE IF i = 1 THEN top * Bytes!Radix[i] ELSE 0
  <2>1. Bytes!Number(bs) = Digit(1) + Digit(2) + Digit(3) + Digit(4)
    BY <1>1, <1>2 DEF Bytes!Number
  <2>2. \A i \in 1 .. 1 : bs[i] \in Octets
    BY <1>2
  <2>3. Digit(1) = bs[1] /\ Digit(2) = 0 /\ Digit(3) = 0 /\ Digit(4) = 0
    BY <2>2, RadixIs DEF Octets
  <2> HIDE DEF Digit, top
  <2>4. \A i \in 1 .. 1 : bs[i] \in Int
    BY <2>2 DEF Octets
  <2> QED BY <2>1, <2>3, <2>4
<1>3. ASSUME bs \in Seq(Octets), Len(bs) = 2
      PROVE  Bytes!Number(bs) = bs[1] + 256 * bs[2]
  <2> DEFINE top == IF 2 = 4 /\ bs[2] >= 128 THEN bs[2] - 256 ELSE bs[2]
             Digit(i) == IF i < 2 THEN bs[i] * Bytes!Radix[i] ELSE IF i = 2 THEN top * Bytes!Radix[i] ELSE 0
  <2>1. Bytes!Number(bs) = Digit(1) + Digit(2) + Digit(3) + Digit(4)
    BY <1>1, <1>3 DEF Bytes!Number
  <2>2. \A i \in 1 .. 2 : bs[i] \in Octets
    BY <1>3
  <2>3. Digit(1) = bs[1] /\ Digit(2) = 256 * bs[2] /\ Digit(3) = 0 /\ Digit(4) = 0
    BY <2>2, RadixIs DEF Octets
  <2> HIDE DEF Digit, top
  <2>4. \A i \in 1 .. 2 : bs[i] \in Int
    BY <2>2 DEF Octets
  <2> QED BY <2>1, <2>3, <2>4
<1>4. ASSUME bs \in Seq(Octets), Len(bs) = 4
      PROVE  Bytes!Number(bs) = bs[1] + 256 * bs[2] + (256 * 256) * bs[3]
                                + (256 * 256 * 256) * (IF bs[4] >= 128 THEN bs[4] - 256 ELSE bs[4])
  <2> DEFINE top == IF 4 = 4 /\ bs[4] >= 128 THEN bs[4] - 256 ELSE bs[4]
             Digit(i) == IF i < 4 THEN bs[i] * Bytes!Radix[i] ELSE IF i = 4 THEN top * Bytes!Radix[i] ELSE 0
  <2>1. Bytes!Number(bs) = Digit(1) + Digit(2) + Digit(3) + Digit(4)
    BY <1>1, <1>4 DEF Bytes!Number
  <2>2. \A i \in 1 .. 4 : bs[i] \in Octets
    BY <1>4
  <2>3. /\ Digit(1) = bs[1] /\ Digit(2) = 256 * bs[2] /\ Digit(3) = 256 * 256 * bs[3]
        /\ Digit(4) = 256 * 256 * 256 * (IF bs[4] >= 128 THEN bs[4] - 256 ELSE bs[4])
    BY <2>2, RadixIs DEF Octets
  <2> HIDE DEF Digit, top
  <2>4. \A i \in 1 .. 4 : bs[i] \in Int
    BY <2>2 DEF Octets
  <2> QED BY <2>1, <2>3, <2>4
<1> QED BY <1>2, <1>3, <1>4

(* Division by 256, again and again.                                       *)
LEMMA Divided ==
  ASSUME NEW v \in Int
  PROVE  /\ v = 256 * (v \div 256) + (v % 256)
         /\ v \div (256 * 256) = (v \div 256) \div 256
         /\ v \div (256 * 256 * 256) = ((v \div 256) \div 256) \div 256
OBVIOUS

(* The i-th byte of a number.                                              *)
Byte(v, i) == (v \div Bytes!Radix[i]) % 256

LEMMA BytesOf ==
  ASSUME NEW v \in Int
  PROVE  /\ Bytes!Bytes(v, 1)[1] = Byte(v, 1)
         /\ \A i \in {1, 2} : Bytes!Bytes(v, 2)[i] = Byte(v, i)
         /\ \A i \in {1, 2, 3, 4} : Bytes!Bytes(v, 4)[i] = Byte(v, i)
<1>1. \A n \in {1, 2, 4} : \A i \in 1 .. n : Bytes!Bytes(v, n)[i] = Byte(v, i)
  BY DEF Bytes!Bytes, Byte
<1>2. /\ 1 \in 1 .. 1 /\ \A i \in {1, 2} : i \in 1 .. 2
      /\ \A i \in {1, 2, 3, 4} : i \in 1 .. 4
  OBVIOUS
<1> QED BY <1>1, <1>2

(* The elements of octets are octets.                                      *)
LEMMA OctetsIn ==
  ASSUME NEW bs \in Seq(Octets)
  PROVE  \A i \in DOMAIN bs : bs[i] \in Octets
OBVIOUS

(* The largest integer of four bytes.                                      *)
LEMMA MaxIs == Bytes!INT32_MAX \in Int /\ Bytes!INT32_MAX = 128 * (256 * 256 * 256) - 1
BY SMT DEF Bytes!INT32_MAX

(* What buffer_write_int32 and the others write is read as it was.         *)
LEMMA NumberOfBytes ==
  ASSUME NEW v \in Int
  PROVE  /\ v \in 0 .. 255 => Bytes!Number(Bytes!Bytes(v, 1)) = v /\ Bytes!Number(Bytes!Bytes(v, 2)) = v
         /\ v \in (-Bytes!INT32_MAX - 1) .. Bytes!INT32_MAX => Bytes!Number(Bytes!Bytes(v, 4)) = v
<1>0. /\ Byte(v, 1) = v % 256 /\ Byte(v, 2) = (v \div 256) % 256
      /\ Byte(v, 3) = ((v \div 256) \div 256) % 256
      /\ Byte(v, 4) = (((v \div 256) \div 256) \div 256) % 256
  <2>1. v \div 1 = v
    OBVIOUS
  <2>2. Byte(v, 1) = v % 256
    BY <2>1, RadixIs DEF Byte
  <2>3. Byte(v, 2) = (v \div 256) % 256
    BY RadixIs DEF Byte
  <2>4. Byte(v, 3) = (v \div (256 * 256)) % 256
    BY RadixIs DEF Byte
  <2>5. Byte(v, 4) = (v \div (256 * 256 * 256)) % 256
    BY RadixIs DEF Byte
  <2> QED BY <2>2, <2>3, <2>4, <2>5, Divided
<1>1. ASSUME v \in 0 .. 255 PROVE Bytes!Number(Bytes!Bytes(v, 1)) = v
  <2> DEFINE bs == Bytes!Bytes(v, 1)
  <2>1. bs \in Seq(Octets) /\ Len(bs) = 1
    BY BytesOctets
  <2>4. bs[1] = v % 256
    BY <1>0, BytesOf
  <2> HIDE DEF bs
  <2>2. Bytes!Number(bs) = bs[1]
    BY <2>1, OctetsIn, NumberIs
  <2>3. v % 256 = v
    BY <1>1
  <2> QED BY <2>2, <2>3, <2>4 DEF bs
<1>2. ASSUME v \in 0 .. 255 PROVE Bytes!Number(Bytes!Bytes(v, 2)) = v
  <2> DEFINE bs == Bytes!Bytes(v, 2)
  <2>1. bs \in Seq(Octets) /\ Len(bs) = 2
    BY BytesOctets
  <2>4. bs[1] = v % 256 /\ bs[2] = (v \div 256) % 256
    <3>1. bs[1] = Byte(v, 1) /\ bs[2] = Byte(v, 2)
      BY BytesOf
    <3> HIDE DEF bs
    <3> QED BY <1>0, <3>1
  <2> HIDE DEF bs
  <2>2. Bytes!Number(bs) = bs[1] + 256 * bs[2]
    BY <2>1, OctetsIn, NumberIs
  <2>3. v % 256 = v /\ (v \div 256) % 256 = 0
    BY <1>2
  <2> QED BY <1>2, <2>2, <2>3, <2>4 DEF bs
<1>3. ASSUME v \in (-Bytes!INT32_MAX - 1) .. Bytes!INT32_MAX PROVE Bytes!Number(Bytes!Bytes(v, 4)) = v
  <2> DEFINE bs == Bytes!Bytes(v, 4)
             q  == v \div 256
             r  == q \div 256
             t  == r \div 256
             top == t % 256
  <2>1. bs \in Seq(Octets) /\ Len(bs) = 4
    BY BytesOctets
  <2>2. bs[1] = v % 256 /\ bs[2] = q % 256 /\ bs[3] = r % 256 /\ bs[4] = t % 256
    <3>1. bs[1] = Byte(v, 1) /\ bs[2] = Byte(v, 2) /\ bs[3] = Byte(v, 3) /\ bs[4] = Byte(v, 4)
      BY BytesOf
    <3> HIDE DEF bs
    <3> QED BY <1>0, <3>1
  <2>3. q \in Int /\ v = 256 * q + (v % 256) /\ v % 256 \in 0 .. 255
    BY Divided
  <2> HIDE DEF q
  <2>4. r \in Int /\ q = 256 * r + (q % 256) /\ q % 256 \in 0 .. 255
    BY <2>3
  <2> HIDE DEF r
  <2>5. t \in Int /\ r = 256 * t + (r % 256) /\ r % 256 \in 0 .. 255
    BY <2>4
  <2> HIDE DEF t, bs
  <2>6. t \in -128 .. 127
    <3>1. -(128 * (256 * 256 * 256)) <= v /\ v < 128 * (256 * 256 * 256)
      <4>1. Bytes!INT32_MAX \in Int
        BY MaxIs
      <4>2. -Bytes!INT32_MAX - 1 <= v /\ v <= Bytes!INT32_MAX
        BY <1>3, <4>1
      <4>3. 0 <= v + (128 * (256 * 256 * 256)) /\ v < 128 * (256 * 256 * 256)
        BY <4>1, <4>2, MaxIs
      <4> QED BY <4>3
    <3>2. -(128 * (256 * 256)) <= q /\ q < 128 * (256 * 256)
      BY <2>3, <3>1
    <3>3. -(128 * 256) <= r /\ r < 128 * 256
      BY <2>4, <3>2
    <3> QED BY <2>5, <3>3
  <2>7. (IF top >= 128 THEN top - 256 ELSE top) = t
    BY <2>6
  <2>8. Bytes!Number(bs) = bs[1] + 256 * bs[2] + (256 * 256) * bs[3]
                           + (256 * 256 * 256) * (IF bs[4] >= 128 THEN bs[4] - 256 ELSE bs[4])
    BY <2>1, OctetsIn, NumberIs
  <2>9. Bytes!Number(bs) = v
    BY <2>2, <2>3, <2>4, <2>5, <2>7, <2>8
  <2> QED BY <2>9 DEF bs
<1> QED BY <1>1, <1>2, <1>3
-----------------------------------------------------------------------------
\* A byte, or one that was never written.
Cell == Octets \cup {Undefined}

(* The allocation holds what it held and what is written.                  *)
LEMMA AllocatedIs ==
  ASSUME buf \in Seq(Cell), NEW p \in Nat, NEW n \in Nat
  PROVE  /\ Bytes!Allocated(p, n) \in Nat
         /\ Bytes!Allocated(p, n) >= Len(buf)
         /\ Bytes!Allocated(p, n) >= p + n
<1>1. Len(buf) \in Nat /\ p + n \in Nat /\ FirstSize \in Nat \ {0}
  BY BytesAssumption DEF Bytes!BufferAssumption
<1>2. CASE p + n < Len(buf)
  BY <1>1, <1>2 DEF Bytes!Allocated, Bytes!Size
<1>3. CASE ~ (p + n < Len(buf))
  <2> DEFINE size == IF Len(buf) = 0 THEN FirstSize ELSE Len(buf)
  <2>1. size \in Nat \ {0} /\ size >= Len(buf)
    BY <1>1
  <2>2. Bytes!Allocated(p, n) = Bytes!Doubled(size, p + n)
    BY <1>3 DEF Bytes!Allocated, Bytes!Size
  <2> HIDE DEF size
  <2>3. /\ Bytes!Doubled(size, p + n) \in Nat
        /\ Bytes!Doubled(size, p + n) > p + n
        /\ Bytes!Doubled(size, p + n) >= size
    BY <1>1, <2>1, DoubledExceeds
  <2> QED BY <1>1, <2>1, <2>2, <2>3
<1> QED BY <1>2, <1>3

(* A write changes the bytes it writes, and no others.                     *)
LEMMA PutKeeps ==
  ASSUME buf \in Seq(Cell), outside \in BOOLEAN,
         NEW p \in Nat, NEW bs \in Seq(Octets), Bytes!Put(p, bs)
  PROVE  /\ buf' \in Seq(Cell)
         /\ Len(buf') >= Len(buf) /\ Len(buf') >= p + Len(bs)
         /\ \A i \in 1 .. Len(bs) : buf'[p + i] = bs[i]
         /\ \A i \in 1 .. Len(buf) : i \notin p + 1 .. p + Len(bs) => buf'[i] = buf[i]
         /\ outside' = outside
<1> DEFINE n == Bytes!Allocated(p, Len(bs))
<1>1. Len(bs) \in Nat /\ Len(buf) \in Nat
  OBVIOUS
<1>2. n \in Nat /\ n >= Len(buf) /\ n >= p + Len(bs)
  BY <1>1, AllocatedIs
<1>3. /\ buf' = [i \in 1 .. n |-> IF i \in p + 1 .. p + Len(bs) THEN bs[i - p]
                                   ELSE IF i \in DOMAIN buf THEN buf[i] ELSE Undefined]
      /\ outside' = (outside \/ p + Len(bs) > n)
  BY DEF Bytes!Put
<1> HIDE DEF n
<1>4. \A i \in 1 .. n : i \in p + 1 .. p + Len(bs) => i - p \in 1 .. Len(bs) /\ bs[i - p] \in Octets
  BY <1>1
<1>5. \A i \in 1 .. n : buf'[i] \in Cell
  BY <1>3, <1>4 DEF Cell
<1>6. buf' \in [1 .. n -> Cell]
  BY <1>3, <1>5
<1>7. buf' \in Seq(Cell) /\ Len(buf') = n
  BY <1>2, <1>6
<1>8. ASSUME NEW i \in 1 .. Len(bs) PROVE buf'[p + i] = bs[i]
  <2>1. p + i \in 1 .. n /\ p + i \in p + 1 .. p + Len(bs) /\ p + i - p = i
    BY <1>1, <1>2
  <2> QED BY <1>3, <2>1
<1>9. ASSUME NEW i \in 1 .. Len(buf), i \notin p + 1 .. p + Len(bs) PROVE buf'[i] = buf[i]
  <2>1. i \in 1 .. n /\ i \in DOMAIN buf
    BY <1>1, <1>2
  <2> QED BY <1>3, <1>9, <2>1
<1>10. outside' = outside
  BY <1>1, <1>2, <1>3
<1> QED BY <1>2, <1>7, <1>8, <1>9, <1>10
-----------------------------------------------------------------------------
IntKind == {"int32", "int16", "int8"}
TextKind == {"bytes", "string", "pascal"}

\* What is written to a buffer.
Writable(kind, v) == \/ kind \in IntKind /\ v \in Ints /\ (kind # "int32" => v \in 0 .. 255)
                     \/ kind \in TextKind /\ v \in Strings

Bounded == -Bytes!INT32_MAX - 1 .. Bytes!INT32_MAX

(* Integers are written as four bytes.                                     *)
LEMMA IntsAre == \A v \in Ints : v \in Int /\ v \in Bounded
<1>1. Bytes!INT32_MAX \in Int
  BY MaxIs
<1>2. Ints \subseteq Bounded
  BY BytesAssumption DEF Bytes!BufferAssumption, Bounded
<1>3. Bounded \subseteq Int
  BY <1>1 DEF Bounded
<1> QED BY <1>2, <1>3

(* The elements of a sequence.                                             *)
LEMMA ElementsOf ==
  ASSUME NEW S, NEW s \in Seq(S)
  PROVE  /\ Len(s) \in Nat /\ DOMAIN s = 1 .. Len(s) /\ s = [i \in 1 .. Len(s) |-> s[i]]
         /\ \A i \in 1 .. Len(s) : s[i] \in S
OBVIOUS

(* Texts are octets that are not 0, and their lengths are integers.        *)
LEMMA StringsAre ==
  \A v \in Strings : /\ v \in Seq(Octets) /\ Len(v) \in Nat /\ Len(v) \in Bounded
                     /\ \A i \in 1 .. Len(v) : v[i] # 0
<1> SUFFICES ASSUME NEW v \in Strings
             PROVE  /\ v \in Seq(Octets) /\ Len(v) \in Nat /\ Len(v) \in Bounded
                    /\ \A i \in 1 .. Len(v) : v[i] # 0
  OBVIOUS
<1>1. v \in Seq(1 .. 255) /\ Len(v) <= Bytes!INT32_MAX
  BY BytesAssumption DEF Bytes!BufferAssumption
<1> DEFINE Letters == 1 .. 255
<1>7. \A x \in Letters : x \in Octets /\ x # 0
  BY DEF Octets
<1> HIDE DEF Letters
<1>2. Len(v) \in Nat /\ v = [i \in 1 .. Len(v) |-> v[i]] /\ \A i \in 1 .. Len(v) : v[i] \in Letters
  BY <1>1, ElementsOf DEF Letters
<1>3. v \in [1 .. Len(v) -> Octets] /\ Len(v) \in Nat
  BY <1>2, <1>7
<1>4. v \in Seq(Octets)
  BY <1>3
<1>5. Bytes!INT32_MAX \in Nat
  BY MaxIs
<1>6. Len(v) \in Bounded
  BY <1>1, <1>3, <1>5 DEF Bounded
<1> QED BY <1>2, <1>3, <1>4, <1>6, <1>7

Joined(f, g) == f \o g

(* Elements of two sequences joined.                                       *)
LEMMA SeqJoin ==
  ASSUME NEW S, NEW x \in Seq(S), NEW y \in Seq(S)
  PROVE  /\ Joined(x, y) \in Seq(S) /\ Len(Joined(x, y)) = Len(x) + Len(y)
         /\ \A i \in 1 .. Len(x) + Len(y) :
              Joined(x, y)[i] = IF i <= Len(x) THEN x[i] ELSE y[i - Len(x)]
BY DEF Joined


(* What an item takes in the buffer.                                       *)
LEMMA EncodedInt ==
  ASSUME NEW kind \in IntKind, NEW v \in Ints
  PROVE  /\ kind = "int32" => Bytes!Encoded(kind, v) = Bytes!Bytes(v, 4)
         /\ kind = "int16" => Bytes!Encoded(kind, v) = Bytes!Bytes(v, 2)
         /\ kind = "int8"  => Bytes!Encoded(kind, v) = Bytes!Bytes(v, 1)
BY Zenon DEF Bytes!Encoded

(* Texts: as they are, with a 0, with a length.                            *)
LEMMA EncodedText ==
  ASSUME NEW v \in Strings
  PROVE  /\ Bytes!Encoded("bytes", v) = v
         /\ Bytes!Encoded("string", v) = v \o <<0>>
         /\ Bytes!Encoded("pascal", v) = Bytes!Bytes(Len(v), 4) \o v
BY Zenon DEF Bytes!Encoded

(* A text with the 0 at its end.                                           *)
LEMMA StringCells ==
  ASSUME NEW v \in Strings, NEW e, e = Bytes!Encoded("string", v)
  PROVE  /\ e \in Seq(Octets) /\ Len(e) = Len(v) + 1
         /\ \A i \in 1 .. Len(v) : e[i] = v[i]
         /\ e[Len(v) + 1] = 0
<1> DEFINE z == <<0>>
<1>1. z \in Seq(Octets) /\ Len(z) = 1 /\ z[1] = 0
  <2>1. 0 \in Octets
    BY DEF Octets
  <2>2. z[1] = 0
    OBVIOUS
  <2>3. z \in Seq(Octets) /\ Len(z) = 1
    BY <2>1, Tuples, Zenon
  <2> QED BY <2>2, <2>3
<1>2. e = Joined(v, z)
  BY EncodedText DEF Joined
<1> HIDE DEF z
<1>3. v \in Seq(Octets) /\ Len(v) \in Nat
  BY StringsAre
<1>4. /\ e \in Seq(Octets) /\ Len(e) = Len(v) + Len(z)
      /\ \A i \in 1 .. Len(v) + Len(z) : e[i] = IF i <= Len(v) THEN v[i] ELSE z[i - Len(v)]
  <2>1. v \in Seq(Octets) /\ z \in Seq(Octets) /\ e = Joined(v, z)
    BY <1>1, <1>2, <1>3
  <2>2. Joined(v, z) \in Seq(Octets) /\ Len(Joined(v, z)) = Len(v) + Len(z)
    BY <2>1, SeqJoin
  <2>3. ASSUME NEW i \in 1 .. Len(v) + Len(z)
        PROVE  Joined(v, z)[i] = IF i <= Len(v) THEN v[i] ELSE z[i - Len(v)]
    BY <2>1, SeqJoin
  <2> QED BY <2>1, <2>2, <2>3
<1>5. Len(e) = Len(v) + 1
  BY <1>1, <1>4
<1>6. ASSUME NEW i \in 1 .. Len(v) PROVE e[i] = v[i]
  BY <1>1, <1>3, <1>4
<1>7. e[Len(v) + 1] = 0
  <2>1. Len(v) + 1 \in 1 .. Len(v) + Len(z) /\ ~ (Len(v) + 1 <= Len(v)) /\ Len(v) + 1 - Len(v) = 1
    BY <1>1, <1>3
  <2> QED BY <1>1, <1>4, <2>1
<1> QED BY <1>4, <1>5, <1>6, <1>7

(* A text with its length before it.                                       *)
LEMMA PascalCells ==
  ASSUME NEW v \in Strings, NEW e, e = Bytes!Encoded("pascal", v)
  PROVE  /\ e \in Seq(Octets) /\ Len(e) = Len(v) + 4
         /\ \A i \in 1 .. 4 : e[i] = Bytes!Bytes(Len(v), 4)[i]
         /\ \A i \in 1 .. Len(v) : e[4 + i] = v[i]
<1> DEFINE n == Bytes!Bytes(Len(v), 4)
<1>1. v \in Seq(Octets) /\ Len(v) \in Int
  BY StringsAre
<1>2. n \in Seq(Octets) /\ Len(n) = 4
  BY <1>1, BytesOctets
<1>3. e = Joined(n, v)
  BY EncodedText DEF Joined
<1> HIDE DEF n
<1>4. /\ e \in Seq(Octets) /\ Len(e) = Len(n) + Len(v)
      /\ \A i \in 1 .. Len(n) + Len(v) : e[i] = IF i <= Len(n) THEN n[i] ELSE v[i - Len(n)]
  <2>1. n \in Seq(Octets) /\ v \in Seq(Octets) /\ e = Joined(n, v)
    BY <1>1, <1>2, <1>3
  <2>2. Joined(n, v) \in Seq(Octets) /\ Len(Joined(n, v)) = Len(n) + Len(v)
    BY <2>1, SeqJoin
  <2>3. ASSUME NEW i \in 1 .. Len(n) + Len(v)
        PROVE  Joined(n, v)[i] = IF i <= Len(n) THEN n[i] ELSE v[i - Len(n)]
    BY <2>1, SeqJoin
  <2> QED BY <2>1, <2>2, <2>3
<1>5. Len(e) = Len(v) + 4
  BY <1>1, <1>2, <1>4
<1>6. ASSUME NEW i \in 1 .. 4 PROVE e[i] = n[i]
  <2>1. i \in 1 .. Len(n) + Len(v) /\ i <= Len(n)
    BY <1>1, <1>2, StringsAre
  <2> QED BY <1>4, <2>1
<1>7. ASSUME NEW i \in 1 .. Len(v) PROVE e[4 + i] = v[i]
  <2>1. 4 + i \in 1 .. Len(n) + Len(v) /\ ~ (4 + i <= Len(n)) /\ 4 + i - Len(n) = i
    BY <1>1, <1>2
  <2> QED BY <1>4, <2>1
<1> QED BY <1>4, <1>5, <1>6, <1>7 DEF n

(* Every item is written as octets.                                        *)
LEMMA EncodedOctets ==
  ASSUME NEW kind, NEW v, Writable(kind, v)
  PROVE  Bytes!Encoded(kind, v) \in Seq(Octets) /\ Len(Bytes!Encoded(kind, v)) \in Nat
<1>1. CASE kind \in IntKind /\ v \in Ints
  <2>1. v \in Int
    BY <1>1, IntsAre
  <2>2. kind = "int32" \/ kind = "int16" \/ kind = "int8"
    BY <1>1 DEF IntKind
  <2> QED BY <1>1, <2>1, <2>2, EncodedInt, BytesOctets
<1>2. CASE kind \in TextKind /\ v \in Strings
  <2>1. v \in Seq(Octets) /\ Len(v) \in Nat
    BY <1>2, StringsAre
  <2>2. CASE kind = "bytes"
    BY <1>2, <2>1, <2>2, EncodedText
  <2>3. CASE kind = "string"
    <3>1. Bytes!Encoded("string", v) \in Seq(Octets) /\ Len(Bytes!Encoded("string", v)) = Len(v) + 1
      BY <1>2, StringCells
    <3> QED BY <2>1, <2>3, <3>1
  <2>4. CASE kind = "pascal"
    <3>1. Bytes!Encoded("pascal", v) \in Seq(Octets) /\ Len(Bytes!Encoded("pascal", v)) = Len(v) + 4
      BY <1>2, PascalCells
    <3> QED BY <2>1, <2>4, <3>1
  <2> QED BY <1>2, <2>2, <2>3, <2>4 DEF TextKind
<1> QED BY <1>1, <1>2 DEF Writable
-----------------------------------------------------------------------------
Item == {it \in [kind : IntKind \cup TextKind, value : Ints \cup Strings, at : Nat] : Writable(it.kind, it.value)}

Coded(it) == Bytes!Encoded(it.kind, it.value)

EndOf(it) == it.at + Len(Coded(it))

\* Where the first m items end.
Reach(m) == IF m = 0 THEN 0 ELSE EndOf(items[m])

\* How far the buffer was written.
Filled == IF phase = "write" THEN index ELSE Len(buf)

BufferType ==
  /\ phase \in {"write", "read", "error"}
  /\ buf \in Seq(Cell) /\ index \in Int /\ items \in Seq(Item)
  /\ phase = "write" => index \in Nat
  /\ outside \in BOOLEAN /\ trusted \in BOOLEAN

\* The items are one after the other, from the start of the buffer.
Spaced ==
  /\ \A k \in 1 .. Len(items) : items[k].at = Reach(k - 1)
  /\ \A j, k \in 1 .. Len(items) : j < k => EndOf(items[j]) <= items[k].at
  /\ Filled = IF Len(items) = 0 THEN 0 ELSE EndOf(items[Len(items)])

\* Every item is in the buffer where it was written, as it is now.
Stored ==
  /\ Filled <= Len(buf)
  /\ \A k \in 1 .. Len(items) : /\ EndOf(items[k]) <= Filled
                                /\ \A i \in 1 .. Len(Coded(items[k])) :
                                     buf[items[k].at + i] = Coded(items[k])[i]
  /\ \A i \in 1 .. Filled : buf[i] \in Octets

\* A reader that went in order is after the last item it read.
InOrder ==
  /\ phase = "write" => matched = -1 /\ ~outside /\ ~trusted
  /\ phase # "write" => matched \in -1 .. Len(items) /\ (matched >= 0 => index = Reach(matched))

BufferInv == BufferType /\ Spaced /\ Stored /\ InOrder /\ Bytes!StaysInside /\ Bytes!ReadsBack

(* An item and its place.                                                  *)
LEMMA ItemIs ==
  ASSUME BufferType, NEW k \in 1 .. Len(items)
  PROVE  /\ items[k] \in Item /\ items[k].at \in Nat
         /\ Writable(items[k].kind, items[k].value)
         /\ Coded(items[k]) \in Seq(Octets) /\ Len(Coded(items[k])) \in Nat
         /\ EndOf(items[k]) \in Nat
<1>1. items[k] \in Item /\ items[k].at \in Nat /\ Writable(items[k].kind, items[k].value)
  BY DEF BufferType, Item
<1>2. Coded(items[k]) \in Seq(Octets) /\ Len(Coded(items[k])) \in Nat
  BY <1>1, EncodedOctets DEF Coded
<1> QED BY <1>1, <1>2 DEF EndOf

(* A new buffer is empty.                                                  *)
LEMMA InitBuffer == InitContainers => BufferInv
<1> SUFFICES ASSUME InitContainers PROVE BufferInv
  OBVIOUS
<1>1. /\ phase = "write" /\ buf = <<>> /\ index = 0 /\ items = <<>>
      /\ matched = -1 /\ trusted = FALSE /\ outside = FALSE
  BY DEF InitContainers, Bytes!Init
<1>2. BufferType
  <2>1. \A S : <<>> \in Seq(S)
    OBVIOUS
  <2>2. buf \in Seq(Cell) /\ items \in Seq(Item)
    BY <1>1, <2>1
  <2>3. index \in Nat /\ index \in Int
    BY <1>1
  <2> QED BY <1>1, <2>2, <2>3 DEF BufferType
<1>4. Len(items) = 0 /\ Filled = 0 /\ Reach(0) = 0 /\ 1 .. 0 = {} /\ Len(buf) = 0
  BY <1>1 DEF Filled, Reach
<1>5. Spaced /\ Stored /\ InOrder
  BY <1>1, <1>4 DEF Spaced, Stored, InOrder
<1>3. Bytes!StaysInside /\ Bytes!ReadsBack
  BY <1>1, <1>4 DEF Bytes!StaysInside, Bytes!ReadsBack, Bytes!Size
<1> QED BY <1>2, <1>3, <1>5 DEF BufferInv

(* A sequence with one element more.                                       *)
LEMMA AppendIs ==
  ASSUME NEW S, NEW s \in Seq(S), NEW x \in S
  PROVE  /\ Append(s, x) \in Seq(S) /\ Len(Append(s, x)) = Len(s) + 1 /\ Len(s) \in Nat
         /\ \A i \in 1 .. Len(s) : Append(s, x)[i] = s[i]
         /\ Append(s, x)[Len(s) + 1] = x
OBVIOUS

(* A write at the end puts an item after the others.                       *)
LEMMA WriteKeeps ==
  ASSUME BufferInv, NEW kind, NEW v, Writable(kind, v), Bytes!Write(kind, v)
  PROVE  BufferInv'
<1> DEFINE e  == Bytes!Encoded(kind, v)
           it == [kind |-> kind, value |-> v, at |-> index]
           n  == Len(items)
<1>1. /\ phase = "write" /\ phase' = "write" /\ Bytes!Put(index, e) /\ index' = index + Len(e)
      /\ items' = Append(items, it)
      /\ got' = got /\ matched' = matched /\ trusted' = trusted
  BY DEF Bytes!Write, Bytes!readVars
<1>2. /\ BufferType /\ Spaced /\ Stored
      /\ index \in Nat /\ buf \in Seq(Cell) /\ items \in Seq(Item)
      /\ outside \in BOOLEAN /\ trusted \in BOOLEAN
      /\ matched = -1 /\ ~outside /\ ~trusted /\ Filled = index /\ Filled <= Len(buf)
  BY <1>1 DEF BufferInv, BufferType, Stored, InOrder, Filled
<1>3. e \in Seq(Octets) /\ Len(e) \in Nat
  BY EncodedOctets
<1>4. it \in Item
  <2>1. kind \in IntKind \cup TextKind /\ v \in Ints \cup Strings
    BY DEF Writable
  <2> QED BY <1>2, <2>1 DEF Item
<1>5. Coded(it) = e /\ EndOf(it) = index + Len(e) /\ it.at = index
  BY DEF Coded, EndOf
<1> HIDE DEF it, e
<1>6. /\ items' \in Seq(Item) /\ Len(items') = n + 1 /\ n \in Nat
      /\ \A k \in 1 .. n : items'[k] = items[k]
      /\ items'[n + 1] = it
  BY <1>1, <1>2, <1>4, AppendIs
<1>7. /\ buf' \in Seq(Cell)
      /\ Len(buf') >= Len(buf) /\ Len(buf') >= index + Len(e)
      /\ \A i \in 1 .. Len(e) : buf'[index + i] = e[i]
      /\ \A i \in 1 .. Len(buf) : i \notin index + 1 .. index + Len(e) => buf'[i] = buf[i]
      /\ outside' = outside
  BY <1>1, <1>2, <1>3, PutKeeps
<1>8. Len(buf) \in Nat /\ Len(buf') \in Nat
  BY <1>2, <1>7, ElementsOf
<1>9. BufferType'
  <2>1. index' \in Nat
    BY <1>1, <1>2, <1>3
  <2> QED BY <1>1, <1>2, <1>6, <1>7, <2>1 DEF BufferType
<1>10. Filled' = index + Len(e)
  BY <1>1 DEF Filled
<1>11. \A k \in 1 .. n : items[k].at \in Nat /\ EndOf(items[k]) \in Nat /\ EndOf(items[k]) <= index
  BY <1>2, ItemIs DEF Stored
<1>12. \A m \in 0 .. n : Reach(m)' = Reach(m)
  BY <1>6 DEF Reach
<1>13. Spaced'
  <2> SUFFICES /\ \A k \in 1 .. n + 1 : items'[k].at = Reach(k - 1)'
               /\ \A j, k \in 1 .. n + 1 : j < k => EndOf(items'[j]) <= items'[k].at
               /\ Filled' = EndOf(items'[n + 1])
    BY <1>6 DEF Spaced
  <2>1. ASSUME NEW k \in 1 .. n + 1 PROVE items'[k].at = Reach(k - 1)'
    <3>1. k - 1 \in 0 .. n /\ (k = n + 1 \/ k \in 1 .. n)
      BY <1>6
    <3>2. CASE k = n + 1
      <4>1. k - 1 = n /\ Reach(n) = index
        BY <1>2, <1>6, <3>2 DEF Spaced, Reach
      <4> QED BY <1>5, <1>6, <1>12, <3>1, <3>2, <4>1
    <3>3. CASE k \in 1 .. n
      BY <1>2, <1>6, <1>12, <3>1, <3>3 DEF Spaced
    <3> QED BY <3>1, <3>2, <3>3
  <2>2. ASSUME NEW j \in 1 .. n + 1, NEW k \in 1 .. n + 1, j < k
        PROVE  EndOf(items'[j]) <= items'[k].at
    <3>1. j \in 1 .. n /\ (k = n + 1 \/ k \in 1 .. n)
      BY <1>6, <2>2
    <3>2. CASE k = n + 1
      BY <1>5, <1>6, <1>11, <3>1, <3>2
    <3>3. CASE k \in 1 .. n
      BY <1>2, <1>6, <2>2, <3>1, <3>3 DEF Spaced
    <3> QED BY <3>1, <3>2, <3>3
  <2>3. Filled' = EndOf(items'[n + 1])
    BY <1>5, <1>6, <1>10
  <2> QED BY <2>1, <2>2, <2>3
<1>14. Stored'
  <2> SUFFICES /\ Filled' <= Len(buf')
               /\ \A k \in 1 .. n + 1 : /\ EndOf(items'[k]) <= Filled'
                                        /\ \A i \in 1 .. Len(Coded(items'[k])) :
                                             buf'[items'[k].at + i] = Coded(items'[k])[i]
               /\ \A i \in 1 .. Filled' : buf'[i] \in Octets
    BY <1>6 DEF Stored
  <2>1. \A i \in 1 .. index : buf'[i] = buf[i]
    BY <1>2, <1>3, <1>7, <1>8
  <2>2. ASSUME NEW k \in 1 .. n + 1
        PROVE  /\ EndOf(items'[k]) <= Filled'
               /\ \A i \in 1 .. Len(Coded(items'[k])) : buf'[items'[k].at + i] = Coded(items'[k])[i]
    <3>1. CASE k = n + 1
      BY <1>2, <1>3, <1>5, <1>6, <1>7, <1>10, <3>1
    <3>2. CASE k \in 1 .. n
      <4>1. items'[k] = items[k] /\ EndOf(items[k]) <= Filled'
        BY <1>2, <1>3, <1>6, <1>10, <1>11, <3>2
      <4>2. ASSUME NEW i \in 1 .. Len(Coded(items[k])) PROVE buf'[items[k].at + i] = Coded(items[k])[i]
        <5>1. items[k].at \in Nat /\ Len(Coded(items[k])) \in Nat
          BY <1>2, <3>2, ItemIs
        <5>2. items[k].at + i \in 1 .. index
          BY <1>2, <1>11, <3>2, <5>1 DEF EndOf
        <5> QED BY <1>2, <2>1, <3>2, <5>2 DEF Stored
      <4> QED BY <4>1, <4>2
    <3> QED BY <1>6, <3>1, <3>2
  <2>3. ASSUME NEW i \in 1 .. Filled' PROVE buf'[i] \in Octets
    <3>1. CASE i \in 1 .. index
      BY <1>2, <2>1, <3>1 DEF Stored
    <3>2. CASE i \notin 1 .. index
      <4>1. i - index \in 1 .. Len(e) /\ index + (i - index) = i
        BY <1>2, <1>3, <1>10, <3>2
      <4>2. e[i - index] \in Octets
        BY <1>3, <4>1, ElementsOf
      <4> QED BY <1>7, <4>1, <4>2
    <3> QED BY <3>1, <3>2
  <2> QED BY <1>7, <1>10, <2>2, <2>3
<1>15. InOrder' /\ Bytes!StaysInside' /\ Bytes!ReadsBack'
  <2>1. index' \in 0 .. Len(buf') /\ ~outside'
    BY <1>1, <1>2, <1>3, <1>7, <1>8
  <2> QED BY <1>1, <1>2, <2>1 DEF InOrder, Bytes!StaysInside, Bytes!ReadsBack, Bytes!Size
<1> QED BY <1>9, <1>13, <1>14, <1>15 DEF BufferInv

(* A write over an integer leaves all other items as they are.             *)
LEMMA PatchKeeps ==
  ASSUME BufferInv, NEW k \in DOMAIN items, NEW v \in Ints, Bytes!WriteInt32At(k, v)
  PROVE  BufferInv'
<1> DEFINE e  == Bytes!Bytes(v, 4)
           n  == Len(items)
           p  == items[k].at
           it == [items[k] EXCEPT !.value = v]
<1>1. /\ phase = "write" /\ phase' = "write" /\ Bytes!Put(p, e) /\ index' = index
      /\ items[k].kind = "int32" /\ items' = [items EXCEPT ![k] = it]
      /\ got' = got /\ matched' = matched /\ trusted' = trusted
  BY DEF Bytes!WriteInt32At, Bytes!readVars
<1>2. /\ BufferType /\ Spaced /\ Stored
      /\ index \in Nat /\ buf \in Seq(Cell) /\ items \in Seq(Item)
      /\ outside \in BOOLEAN /\ trusted \in BOOLEAN
      /\ matched = -1 /\ ~outside /\ ~trusted /\ Filled = index /\ Filled <= Len(buf)
  BY <1>1 DEF BufferInv, BufferType, Stored, InOrder, Filled
<1>3. v \in Int /\ e \in Seq(Octets) /\ Len(e) = 4
  BY IntsAre, BytesOctets
<1>4. n \in Nat /\ k \in 1 .. n /\ p \in Nat /\ items[k] \in Item
  BY <1>2, ItemIs, ElementsOf
<1>5. /\ it \in Item /\ it.at = p /\ Coded(it) = e /\ EndOf(it) = p + 4
      /\ Len(Coded(items[k])) = 4 /\ EndOf(items[k]) = p + 4
  <2>1. /\ it.kind = "int32" /\ it.value = v /\ it.at = p
        /\ it \in [kind : IntKind \cup TextKind, value : Ints \cup Strings, at : Nat]
    BY <1>1, <1>4 DEF Item
  <2>2. "int32" \in IntKind /\ Writable("int32", v)
    BY DEF Writable, IntKind
  <2>3. it \in Item
    BY <2>1, <2>2 DEF Item
  <2>4. Coded(it) = e
    BY <2>1, <2>2, EncodedInt DEF Coded
  <2>5. items[k].value \in Ints /\ items[k].value \in Int
    <3>1. items[k].value \in Ints
      BY <1>1, <1>4 DEF Item, Writable, TextKind
    <3> QED BY <3>1, IntsAre
  <2>6. Coded(items[k]) = Bytes!Bytes(items[k].value, 4)
    BY <1>1, <2>2, <2>5, EncodedInt DEF Coded
  <2>7. Len(Coded(items[k])) = 4
    BY <2>5, <2>6, BytesOctets
  <2> HIDE DEF e, it
  <2> QED BY <1>3, <2>1, <2>3, <2>4, <2>7 DEF EndOf
<1> HIDE DEF it, e
<1>6. /\ items' \in Seq(Item) /\ Len(items') = n
      /\ \A j \in 1 .. n : items'[j] = IF j = k THEN it ELSE items[j]
  BY <1>1, <1>2, <1>4, <1>5
<1>7. /\ buf' \in Seq(Cell)
      /\ Len(buf') >= Len(buf)
      /\ \A i \in 1 .. Len(e) : buf'[p + i] = e[i]
      /\ \A i \in 1 .. Len(buf) : i \notin p + 1 .. p + Len(e) => buf'[i] = buf[i]
      /\ outside' = outside
  BY <1>1, <1>2, <1>3, <1>4, PutKeeps
<1>8. Len(buf) \in Nat /\ Len(buf') \in Nat
  BY <1>2, <1>7, ElementsOf
<1>9. BufferType'
  BY <1>1, <1>2, <1>6, <1>7 DEF BufferType
<1>10. Filled' = index
  BY <1>1 DEF Filled
<1>11. \A j \in 1 .. n : /\ items'[j].at = items[j].at /\ EndOf(items'[j]) = EndOf(items[j])
                         /\ items[j].at \in Nat /\ EndOf(items[j]) \in Nat
                         /\ EndOf(items[j]) <= index
  BY <1>2, <1>5, <1>6, ItemIs DEF Stored
<1>12. \A m \in 0 .. n : Reach(m)' = Reach(m)
  BY <1>4, <1>11 DEF Reach
<1>13. Spaced'
  <2> SUFFICES /\ \A j \in 1 .. n : items'[j].at = Reach(j - 1)'
               /\ \A i, j \in 1 .. n : i < j => EndOf(items'[i]) <= items'[j].at
               /\ Filled' = IF n = 0 THEN 0 ELSE EndOf(items'[n])
    BY <1>6 DEF Spaced
  <2>1. \A j \in 1 .. n : items'[j].at = Reach(j - 1)'
    BY <1>2, <1>4, <1>11, <1>12 DEF Spaced
  <2>2. \A i, j \in 1 .. n : i < j => EndOf(items'[i]) <= items'[j].at
    BY <1>2, <1>11 DEF Spaced
  <2>3. Filled' = IF n = 0 THEN 0 ELSE EndOf(items'[n])
    BY <1>2, <1>4, <1>10, <1>11 DEF Spaced
  <2> QED BY <2>1, <2>2, <2>3
<1>14. Stored'
  <2> SUFFICES /\ Filled' <= Len(buf')
               /\ \A j \in 1 .. n : /\ EndOf(items'[j]) <= Filled'
                                    /\ \A i \in 1 .. Len(Coded(items'[j])) :
                                         buf'[items'[j].at + i] = Coded(items'[j])[i]
               /\ \A i \in 1 .. Filled' : buf'[i] \in Octets
    BY <1>6 DEF Stored
  <2>1. ASSUME NEW j \in 1 .. n, NEW i \in 1 .. Len(Coded(items'[j]))
        PROVE  buf'[items'[j].at + i] = Coded(items'[j])[i]
    <3>1. CASE j = k
      <4>1. items'[j] = it
        BY <1>6, <3>1
      <4>2. i \in 1 .. Len(e) /\ items'[j].at = p /\ Coded(items'[j]) = e
        BY <1>5, <4>1
      <4> QED BY <1>7, <4>2
    <3>2. CASE j # k
      <4>1. items'[j] = items[j] /\ Len(Coded(items[j])) \in Nat /\ items[j].at \in Nat
        BY <1>2, <1>6, <3>2, ItemIs
      <4>2. EndOf(items[j]) = items[j].at + Len(Coded(items[j]))
        BY DEF EndOf
      <4>3. items[j].at + i \in 1 .. Len(buf)
        BY <1>2, <1>8, <1>11, <4>1, <4>2
      <4>4. items[j].at + i \notin p + 1 .. p + Len(e)
        <5>1. CASE j < k
          <6>1. EndOf(items[j]) <= p
            BY <1>2, <1>4, <5>1 DEF Spaced
          <6> QED BY <1>4, <4>1, <4>2, <6>1
        <5>2. CASE k < j
          <6>1. p + 4 <= items[j].at
            BY <1>2, <1>4, <1>5, <5>2 DEF Spaced
          <6> QED BY <1>3, <1>4, <4>1, <6>1
        <5> QED BY <1>4, <3>2, <5>1, <5>2
      <4>5. buf'[items[j].at + i] = buf[items[j].at + i]
        BY <1>7, <4>3, <4>4
      <4> QED BY <1>2, <4>1, <4>5 DEF Stored
    <3> QED BY <3>1, <3>2
  <2>2. ASSUME NEW i \in 1 .. Filled' PROVE buf'[i] \in Octets
    <3>1. CASE i \in p + 1 .. p + Len(e)
      <4>1. i - p \in 1 .. Len(e) /\ p + (i - p) = i
        BY <1>3, <1>4, <3>1
      <4>2. e[i - p] \in Octets
        BY <1>3, <4>1, ElementsOf
      <4> QED BY <1>7, <4>1, <4>2
    <3>2. CASE i \notin p + 1 .. p + Len(e)
      <4>1. i \in 1 .. Len(buf) /\ i \in 1 .. Filled
        BY <1>2, <1>8, <1>10
      <4> QED BY <1>2, <1>7, <3>2, <4>1 DEF Stored
    <3> QED BY <3>1, <3>2
  <2>3. Filled' <= Len(buf')
    BY <1>2, <1>7, <1>8, <1>10
  <2>4. \A j \in 1 .. n : EndOf(items'[j]) <= Filled'
    BY <1>10, <1>11
  <2> QED BY <2>1, <2>2, <2>3, <2>4
<1>15. InOrder' /\ Bytes!StaysInside' /\ Bytes!ReadsBack'
  <2>1. index' \in 0 .. Len(buf') /\ ~outside'
    BY <1>1, <1>2, <1>7, <1>8
  <2> QED BY <1>1, <1>2, <2>1 DEF InOrder, Bytes!StaysInside, Bytes!ReadsBack, Bytes!Size
<1> QED BY <1>9, <1>13, <1>14, <1>15 DEF BufferInv

(* Reading starts at the first item.                                       *)
LEMMA StartKeeps ==
  ASSUME BufferInv, Bytes!StartReading
  PROVE  BufferInv'
<1>1. /\ phase = "write" /\ phase' = "read" /\ matched' = 0 /\ index' = 0
      /\ buf' = SubSeq(buf, 1, index) /\ items' = items
      /\ got' = got /\ trusted' = trusted /\ outside' = outside
  BY DEF Bytes!StartReading
<1>2. /\ BufferType /\ Spaced /\ Stored
      /\ index \in Nat /\ buf \in Seq(Cell) /\ items \in Seq(Item)
      /\ ~outside /\ ~trusted /\ Filled = index /\ Filled <= Len(buf)
  BY <1>1 DEF BufferInv, BufferType, Stored, InOrder, Filled
<1>3. /\ buf' \in Seq(Cell) /\ Len(buf') = index
      /\ \A i \in 1 .. index : buf'[i] = buf[i]
  BY <1>1, <1>2
<1>4. BufferType'
  BY <1>1, <1>2, <1>3 DEF BufferType
<1>5. Filled' = Filled
  BY <1>1, <1>2, <1>3 DEF Filled
<1>6. \A m : Reach(m)' = Reach(m)
  BY <1>1 DEF Reach
<1>7. Spaced'
  BY <1>1, <1>2, <1>5, <1>6 DEF Spaced
<1>8. Stored'
  <2> SUFFICES /\ Filled' <= Len(buf')
               /\ \A k \in 1 .. Len(items) :
                    /\ EndOf(items[k]) <= Filled'
                    /\ \A i \in 1 .. Len(Coded(items[k])) :
                         buf'[items[k].at + i] = Coded(items[k])[i]
               /\ \A i \in 1 .. Filled' : buf'[i] \in Octets
    BY <1>1 DEF Stored
  <2>1. ASSUME NEW k \in 1 .. Len(items), NEW i \in 1 .. Len(Coded(items[k]))
        PROVE  buf'[items[k].at + i] = Coded(items[k])[i]
    <3>1. /\ items[k].at \in Nat /\ Len(Coded(items[k])) \in Nat
          /\ items[k].at + Len(Coded(items[k])) <= index
      BY <1>2, ItemIs DEF Stored, EndOf
    <3>2. items[k].at + i \in 1 .. index
      BY <1>2, <3>1
    <3> QED BY <1>2, <1>3, <3>2 DEF Stored
  <2> QED BY <1>2, <1>3, <1>5, <2>1 DEF Stored
<1>9. InOrder' /\ Bytes!StaysInside' /\ Bytes!ReadsBack'
  <2>1. Reach(0) = 0 /\ Len(items) \in Nat
    BY <1>2 DEF Reach
  <2>2. InOrder'
    BY <1>1, <1>6, <2>1 DEF InOrder, Reach
  <2>3. index' \in 0 .. Len(buf')
    BY <1>1, <1>2, <1>3
  <2> QED BY <1>1, <1>2, <2>2, <2>3 DEF Bytes!StaysInside, Bytes!ReadsBack, Bytes!Size
<1> QED BY <1>4, <1>7, <1>8, <1>9 DEF BufferInv
-----------------------------------------------------------------------------
(* What the reader finds where the next item is.                           *)
LEMMA NextItem ==
  ASSUME BufferInv, phase = "read", matched \in 0 .. Len(items) - 1
  PROVE  LET it == items[matched + 1] IN
         /\ matched + 1 \in 1 .. Len(items) /\ it \in Item /\ index \in Nat
         /\ Reach(matched + 1) = index + Len(Coded(it)) /\ Len(Coded(it)) \in Nat
         /\ index + Len(Coded(it)) <= Len(buf)
         /\ \A i \in 1 .. Len(Coded(it)) :
              index + i \in DOMAIN buf /\ buf[index + i] = Coded(it)[i]
<1> DEFINE it == items[matched + 1]
           e  == Coded(it)
<1>1. /\ BufferType /\ Spaced /\ Stored /\ index = Reach(matched)
      /\ buf \in Seq(Cell) /\ items \in Seq(Item) /\ Filled = Len(buf)
  BY DEF BufferInv, BufferType, InOrder, Filled
<1>2. Len(items) \in Nat /\ Len(buf) \in Nat /\ DOMAIN buf = 1 .. Len(buf)
  BY <1>1, ElementsOf
<1>3. /\ matched + 1 \in 1 .. Len(items) /\ matched + 1 - 1 = matched /\ matched + 1 # 0
      /\ matched \in Int
  BY <1>2
<1>4. it \in Item /\ Len(e) \in Nat /\ it.at = index /\ index \in Nat
  BY <1>1, <1>3, ItemIs DEF Spaced
<1>5. Reach(matched + 1) = index + Len(e)
  BY <1>3, <1>4 DEF Reach, EndOf
<1>6. index + Len(e) <= Len(buf)
  BY <1>1, <1>3, <1>4 DEF Stored, EndOf
<1>7. ASSUME NEW i \in 1 .. Len(e) PROVE index + i \in DOMAIN buf /\ buf[index + i] = e[i]
  <2>1. index + i \in DOMAIN buf
    BY <1>1, <1>2, <1>4, <1>6
  <2>2. \A j \in 1 .. Len(Coded(items[matched + 1])) :
           buf[items[matched + 1].at + j] = Coded(items[matched + 1])[j]
    BY <1>1, <1>3 DEF Stored
  <2> QED BY <1>4, <2>1, <2>2
<1> QED BY <1>3, <1>4, <1>5, <1>6, <1>7

(* It is what is in memory from the index on.                              *)
LEMMA MemoryIs ==
  ASSUME BufferInv, phase = "read", matched \in 0 .. Len(items) - 1,
         NEW n \in 0 .. Len(Coded(items[matched + 1]))
  PROVE  Bytes!Memory(n) = [i \in 1 .. n |-> Coded(items[matched + 1])[i]]
<1> DEFINE e == Coded(items[matched + 1])
<1>1. /\ Len(e) \in Nat
      /\ \A i \in 1 .. Len(e) : index + i \in DOMAIN buf /\ buf[index + i] = e[i]
  BY NextItem
<1> HIDE DEF e
<1>2. \A i \in 1 .. n : i \in 1 .. Len(e)
  BY <1>1 DEF e
<1>3. Bytes!Memory(n) = [i \in 1 .. n |-> e[i]]
  BY <1>1, <1>2 DEF Bytes!Memory
<1> QED BY <1>3 DEF e

(* A reader that moves stays where the items it counts are.                *)
LEMMA ReaderKeeps ==
  ASSUME BufferInv, phase = "read", phase' = phase, buf' = buf, items' = items,
         index' \in Int, outside' \in BOOLEAN, trusted' \in BOOLEAN,
         outside' \/ index' \notin 0 .. Len(buf) => trusted',
         matched' \in -1 .. Len(items), matched' >= 0 => index' = Reach(matched'),
         matched' > 0 /\ got' # NULL => got' = items[matched'].value
  PROVE  BufferInv'
<1>1. BufferType /\ Spaced /\ Stored
  BY DEF BufferInv
<1>2. BufferType'
  BY <1>1 DEF BufferType
<1>3. Filled' = Filled
  BY DEF Filled
<1>4. \A m : Reach(m)' = Reach(m)
  BY DEF Reach
<1>5. Spaced'
  BY <1>1, <1>3, <1>4 DEF Spaced
<1>6. Stored'
  BY <1>1, <1>3 DEF Stored
<1>7. Bytes!StaysInside' /\ Bytes!ReadsBack'
  BY DEF Bytes!StaysInside, Bytes!Size, Bytes!ReadsBack
<1>8. InOrder'
  <2>1. phase' # "write" /\ items' = items
    OBVIOUS
  <2> QED BY <2>1 DEF InOrder, Reach
<1> QED BY <1>2, <1>5, <1>6, <1>7, <1>8 DEF BufferInv

(* A read of any kind, which finds the next item if it asks for it.        *)
LEMMA ReadKeeps ==
  ASSUME BufferInv, phase = "read", NEW kind, NEW n, NEW v, Bytes!Returns(kind, n, v),
         phase' = phase, buf' = buf, items' = items,
         index' \in Int, outside' \in BOOLEAN, trusted' \in BOOLEAN,
         outside' \/ index' \notin 0 .. Len(buf) => trusted',
         Bytes!Expects(kind, n) =>
           index' = Reach(matched + 1) /\ (v # NULL => v = items[matched + 1].value)
  PROVE  BufferInv'
<1>1. Len(items) \in Nat
  BY ElementsOf DEF BufferInv, BufferType
<1>2. got' = v /\ matched' = IF Bytes!Expects(kind, n) THEN matched + 1 ELSE -1
  BY DEF Bytes!Returns
<1>3. Bytes!Expects(kind, n) => matched + 1 \in 1 .. Len(items)
  BY <1>1 DEF Bytes!Expects
<1>4. CASE Bytes!Expects(kind, n)
  BY <1>1, <1>2, <1>3, <1>4, ReaderKeeps
<1>5. CASE ~ Bytes!Expects(kind, n)
  BY <1>1, <1>2, <1>5, ReaderKeeps
<1> QED BY <1>4, <1>5

(* A reader that lost its order.                                           *)
LEMMA LostKeeps ==
  ASSUME BufferInv, phase = "read", phase' = phase, buf' = buf, items' = items,
         index' \in Int, outside' \in BOOLEAN, trusted' \in BOOLEAN,
         outside' \/ index' \notin 0 .. Len(buf) => trusted', matched' = -1
  PROVE  BufferInv'
<1>1. Len(items) \in Nat
  BY ElementsOf DEF BufferInv, BufferType
<1> QED BY <1>1, ReaderKeeps

(* An error ends the program, with the buffer as it was.                   *)
LEMMA ErrorKeeps ==
  ASSUME BufferInv, phase = "read", Bytes!Error
  PROVE  BufferInv'
<1>1. /\ phase' = "error" /\ buf' = buf /\ index' = index /\ items' = items
      /\ got' = got /\ matched' = matched /\ trusted' = trusted /\ outside' = outside
  BY DEF Bytes!Error, Bytes!readVars
<1>2. Filled' = Filled /\ \A m : Reach(m)' = Reach(m)
  BY <1>1 DEF Filled, Reach
<1>3. BufferType' /\ Stored' /\ Bytes!StaysInside' /\ Bytes!ReadsBack'
  BY <1>1, <1>2
     DEF BufferInv, BufferType, Stored, Bytes!StaysInside, Bytes!ReadsBack, Bytes!Size
<1>4. Spaced'
  BY <1>1, <1>2 DEF BufferInv, Spaced
<1>5. InOrder'
  <2>1. matched \in -1 .. Len(items) /\ (matched >= 0 => index = Reach(matched))
    BY DEF BufferInv, InOrder
  <2> QED BY <1>1, <2>1 DEF InOrder, Reach
<1> QED BY <1>3, <1>4, <1>5 DEF BufferInv
-----------------------------------------------------------------------------
(* What a reader has.                                                      *)
LEMMA ReadingFacts ==
  ASSUME BufferInv, phase = "read"
  PROVE  /\ buf \in Seq(Cell) /\ index \in Int /\ items \in Seq(Item) /\ Len(buf) \in Nat
         /\ DOMAIN buf = 1 .. Len(buf) /\ Len(items) \in Nat
         /\ outside \in BOOLEAN /\ trusted \in BOOLEAN
         /\ (outside \/ index \notin 0 .. Len(buf) => trusted)
         /\ \A i \in DOMAIN buf : buf[i] \in Octets
<1>1. buf \in Seq(Cell) /\ Len(buf) \in Nat /\ DOMAIN buf = 1 .. Len(buf) /\ Len(items) \in Nat
  BY ElementsOf DEF BufferInv, BufferType
<1> QED BY <1>1 DEF BufferInv, BufferType, Bytes!StaysInside, Bytes!Size, Stored, Filled

\* n bytes from the index on are in the buffer.
Within(n) == n = 0 \/ (index >= 0 /\ index + n <= Len(buf))

(* Integers of one, two and four bytes.                                    *)
LEMMA IntBytes ==
  ASSUME NEW kind \in IntKind, NEW v, Writable(kind, v), NEW n \in {1, 2, 4},
         kind = "int32" <=> n = 4, kind = "int16" <=> n = 2, kind = "int8" <=> n = 1
  PROVE  /\ Bytes!Encoded(kind, v) = Bytes!Bytes(v, n) /\ Len(Bytes!Bytes(v, n)) = n
         /\ Bytes!Number(Bytes!Bytes(v, n)) = v
<1>1. v \in Ints /\ (kind # "int32" => v \in 0 .. 255)
  BY DEF Writable, IntKind, TextKind
<1>2. v \in Int /\ v \in Bounded
  BY <1>1, IntsAre
<1>3. Bytes!Encoded(kind, v) = Bytes!Bytes(v, n)
  BY <1>1, EncodedInt
<1>4. Len(Bytes!Bytes(v, n)) = n
  BY <1>2, BytesOctets
<1>5. Bytes!Number(Bytes!Bytes(v, n)) = v
  <2>1. CASE n = 4
    <3>1. v \in (-Bytes!INT32_MAX - 1) .. Bytes!INT32_MAX
      BY <1>2 DEF Bounded
    <3> QED BY <1>2, <2>1, <3>1, NumberOfBytes
  <2>2. CASE n # 4
    <3>1. v \in 0 .. 255
      BY <1>1, <2>2
    <3>2. Bytes!Number(Bytes!Bytes(v, 1)) = v /\ Bytes!Number(Bytes!Bytes(v, 2)) = v
      BY <1>2, <3>1, NumberOfBytes
    <3> QED BY <2>2, <3>2
  <2> QED BY <2>1, <2>2
<1> QED BY <1>3, <1>4, <1>5

(* buffer_read_int32, _u16 and _u8.                                        *)
LEMMA ReadIntKeeps ==
  ASSUME BufferInv, NEW kind \in IntKind, NEW n \in {1, 2, 4},
         kind = "int32" <=> n = 4, kind = "int16" <=> n = 2, kind = "int8" <=> n = 1,
         Bytes!ReadInt(kind, n)
  PROVE  BufferInv'
<1> DEFINE v == Bytes!Number(Bytes!Memory(n))
<1>1. phase = "read"
  BY DEF Bytes!ReadInt, Bytes!Reading
<1>2. CASE index + n \notin 0 .. Len(buf)
  <2>1. Bytes!Error
    BY <1>2 DEF Bytes!ReadInt, Bytes!Size
  <2> QED BY <1>1, <2>1, ErrorKeeps
<1>3. CASE index + n \in 0 .. Len(buf)
  <2>1. /\ Bytes!Returns(kind, n, v) /\ index' = index + n
        /\ phase' = phase /\ trusted' = trusted /\ buf' = buf /\ items' = items
        /\ outside' = (outside \/ ~Within(n))
    BY <1>3 DEF Bytes!ReadInt, Bytes!Size, Bytes!Touches, Bytes!Inside, Within
  <2>2. index' \in Int /\ outside' \in BOOLEAN /\ trusted' \in BOOLEAN
    BY <1>1, <2>1, ReadingFacts
  <2>3. outside' \/ index' \notin 0 .. Len(buf) => trusted'
    BY <1>1, <1>3, <2>1, ReadingFacts DEF Within
  <2>4. ASSUME Bytes!Expects(kind, n)
        PROVE  index' = Reach(matched + 1) /\ v = items[matched + 1].value
    <3> DEFINE it == items[matched + 1]
    <3>1. matched \in 0 .. Len(items) - 1 /\ it.kind = kind
      BY <2>4 DEF Bytes!Expects
    <3>2. it \in Item /\ Reach(matched + 1) = index + Len(Coded(it))
      BY <1>1, <3>1, NextItem
    <3>3. Writable(kind, it.value)
      BY <3>1, <3>2 DEF Item
    <3> DEFINE bs == Bytes!Bytes(it.value, n)
    <3>4. Coded(it) = bs /\ Len(bs) = n /\ Bytes!Number(bs) = it.value
      BY <3>1, <3>3, IntBytes DEF Coded
    <3>5. n \in 0 .. Len(Coded(it))
      BY <3>4
    <3>6. Bytes!Memory(n) = [i \in 1 .. n |-> Coded(it)[i]]
      BY <1>1, <3>1, <3>5, MemoryIs
    <3>7. bs = [i \in 1 .. n |-> bs[i]]
      BY DEF Bytes!Bytes
    <3>8. Bytes!Memory(n) = bs
      BY <3>4, <3>6, <3>7
    <3> QED BY <2>1, <3>2, <3>4, <3>8
  <2> HIDE DEF v
  <2> QED BY <1>1, <2>1, <2>2, <2>3, <2>4, ReadKeeps
<1> QED BY <1>2, <1>3

(* A text ends at its 0, and else where the buffer does.                   *)
LEMMA StrlenIs ==
  ASSUME BufferInv, phase = "read", index \in 0 .. Len(buf)
  PROVE  /\ Bytes!Strlen \in Nat /\ index + Bytes!Strlen <= Len(buf)
         /\ Bytes!Ends # {} => /\ index + Bytes!Strlen + 1 <= Len(buf)
                               /\ Bytes!Strlen \in Bytes!Ends
                               /\ \A m \in Bytes!Ends : Bytes!Strlen <= m
<1>1. Len(buf) \in Nat /\ index \in Nat
  BY ReadingFacts
<1>2. Bytes!Ends = {n \in 0 .. Len(buf) - index - 1 : buf[index + n + 1] = 0}
  BY DEF Bytes!Ends, Bytes!Size
<1>3. CASE Bytes!Ends = {}
  BY <1>1, <1>3 DEF Bytes!Strlen, Bytes!Size
<1>4. CASE Bytes!Ends # {}
  <2>1. Bytes!Ends \in SUBSET Nat
    BY <1>2
  <2>2. \E n \in Bytes!Ends : \A m \in Bytes!Ends : n <= m
    BY <1>4, <2>1, LeastExists
  <2>3. Bytes!Strlen = CHOOSE n \in Bytes!Ends : \A m \in Bytes!Ends : n <= m
    BY <1>4 DEF Bytes!Strlen
  <2>4. Bytes!Strlen \in Bytes!Ends /\ \A m \in Bytes!Ends : Bytes!Strlen <= m
    BY <2>2, <2>3
  <2>5. Bytes!Strlen \in 0 .. Len(buf) - index - 1
    BY <1>2, <2>4
  <2> QED BY <1>1, <2>4, <2>5
<1> QED BY <1>3, <1>4

(* The next text is read to its 0, which is the first.                     *)
LEMMA NextString ==
  ASSUME BufferInv, phase = "read", index \in 0 .. Len(buf), matched \in 0 .. Len(items) - 1,
         items[matched + 1].kind = "string"
  PROVE  /\ Bytes!Memory(Bytes!Strlen) = items[matched + 1].value
         /\ Reach(matched + 1) = index + Bytes!Strlen + 1
         /\ index + Bytes!Strlen + 1 <= Len(buf)
<1> DEFINE it == items[matched + 1]
           e  == Coded(it)
           t  == it.value
<1>1. /\ it \in Item /\ Reach(matched + 1) = index + Len(e)
      /\ index + Len(e) <= Len(buf) /\ Len(e) \in Nat
      /\ \A i \in 1 .. Len(e) : index + i \in DOMAIN buf /\ buf[index + i] = e[i]
  BY NextItem
<1>2. t \in Strings
  BY <1>1 DEF Item, Writable, IntKind
<1>3. t \in Seq(Octets) /\ Len(t) \in Nat /\ \A i \in 1 .. Len(t) : t[i] # 0
  BY <1>2, StringsAre
<1>4. e = Bytes!Encoded("string", t)
  BY DEF Coded
<1>5. Len(e) = Len(t) + 1 /\ (\A i \in 1 .. Len(t) : e[i] = t[i]) /\ e[Len(t) + 1] = 0
  BY <1>2, <1>4, StringCells
<1>6. index \in Nat /\ Len(buf) \in Nat
  BY NextItem, ReadingFacts
<1>7. Bytes!Ends = {n \in 0 .. Len(buf) - index - 1 : buf[index + n + 1] = 0}
  BY DEF Bytes!Ends, Bytes!Size
<1>12. Bytes!Memory(Len(t)) = [i \in 1 .. Len(t) |-> e[i]]
  <2>1. Len(t) \in 0 .. Len(e)
    BY <1>3, <1>5
  <2> QED BY <2>1, MemoryIs
<1> HIDE DEF e, t
<1>8. Len(t) \in Bytes!Ends
  <2>1. Len(t) + 1 \in 1 .. Len(e) /\ index + Len(t) + 1 = index + (Len(t) + 1)
    BY <1>3, <1>5, <1>6
  <2>2. buf[index + Len(t) + 1] = 0
    BY <1>1, <1>5, <2>1
  <2>3. Len(t) \in 0 .. Len(buf) - index - 1
    BY <1>1, <1>3, <1>5, <1>6
  <2> QED BY <1>7, <2>2, <2>3
<1>9. ASSUME NEW n \in Bytes!Ends, n < Len(t) PROVE FALSE
  <2>1. n \in Nat /\ buf[index + n + 1] = 0
    BY <1>7
  <2>2. n + 1 \in 1 .. Len(t) /\ n + 1 \in 1 .. Len(e) /\ index + n + 1 = index + (n + 1)
    BY <1>3, <1>5, <1>6, <1>9, <2>1
  <2>3. buf[index + n + 1] = t[n + 1]
    BY <1>1, <1>5, <2>2
  <2> QED BY <1>3, <2>1, <2>2, <2>3
<1>10. Bytes!Strlen = Len(t)
  <2>1. Bytes!Strlen \in Nat /\ Bytes!Strlen \in Bytes!Ends /\ Bytes!Strlen <= Len(t)
    BY <1>8, StrlenIs
  <2> QED BY <1>3, <1>9, <2>1
<1>11. t = [i \in 1 .. Len(t) |-> t[i]]
  BY <1>3, ElementsOf
<1>13. Bytes!Memory(Len(t)) = t
  BY <1>5, <1>11, <1>12
<1>14. index + Len(e) = index + Len(t) + 1
  BY <1>3, <1>5, <1>6
<1> QED BY <1>1, <1>10, <1>13, <1>14 DEF t

(* buffer_read_string and buffer_skip_string.                              *)
LEMMA ReadStringKeeps ==
  ASSUME BufferInv, Bytes!ReadString
  PROVE  BufferInv'
<1> DEFINE n == Bytes!Strlen
           v == Bytes!Memory(n)
<1>1. /\ phase = "read" /\ index \in 0 .. Len(buf) /\ Bytes!Returns("string", n, v)
      /\ phase' = phase /\ buf' = buf /\ items' = items
      /\ outside' = (outside \/ ~Within(n + 1))
      /\ trusted' = (trusted \/ Bytes!Ends = {})
      /\ index' = IF index + (n + 1) \in 0 .. Len(buf) THEN index + (n + 1) ELSE Len(buf)
  BY DEF Bytes!ReadString, Bytes!Reading, Bytes!Touches, Bytes!Inside, Within, Bytes!Skipped,
         Bytes!Size
<1>2. /\ n \in Nat /\ index + n <= Len(buf)
      /\ (Bytes!Ends # {} => index + n + 1 <= Len(buf))
  BY <1>1, StrlenIs
<1>3. /\ index \in Int /\ Len(buf) \in Nat /\ outside \in BOOLEAN /\ trusted \in BOOLEAN
      /\ (outside \/ index \notin 0 .. Len(buf) => trusted)
  BY <1>1, ReadingFacts
<1>4. ASSUME Bytes!Expects("string", n)
      PROVE  index' = Reach(matched + 1) /\ v = items[matched + 1].value
  <2>1. matched \in 0 .. Len(items) - 1 /\ items[matched + 1].kind = "string"
    BY <1>4 DEF Bytes!Expects
  <2>2. /\ v = items[matched + 1].value
        /\ Reach(matched + 1) = index + n + 1 /\ index + n + 1 <= Len(buf)
    BY <1>1, <2>1, NextString
  <2> HIDE DEF n, v
  <2>3. index' = index + n + 1
    BY <1>1, <1>2, <1>3, <2>2
  <2> QED BY <2>2, <2>3
<1> HIDE DEF n, v
<1>5. index' \in Int /\ outside' \in BOOLEAN /\ trusted' \in BOOLEAN
  BY <1>1, <1>2, <1>3
<1>6. outside' \/ index' \notin 0 .. Len(buf) => trusted'
  BY <1>1, <1>2, <1>3 DEF Within
<1> QED BY <1>1, <1>4, <1>5, <1>6, ReadKeeps

(* Four bytes of the buffer are a number.                                  *)
LEMMA LengthIsNumber ==
  ASSUME BufferInv, phase = "read", index >= 0, index + 4 <= Len(buf)
  PROVE  Bytes!Number(Bytes!Memory(4)) \in Int
<1> DEFINE m == Bytes!Memory(4)
<1>1. /\ index \in Nat /\ Len(buf) \in Nat /\ DOMAIN buf = 1 .. Len(buf)
      /\ \A i \in DOMAIN buf : buf[i] \in Octets
  BY ReadingFacts
<1>2. m = [i \in 1 .. 4 |-> IF index + i \in DOMAIN buf THEN buf[index + i] ELSE Undefined]
  BY DEF Bytes!Memory
<1> HIDE DEF m
<1>3. \A i \in 1 .. 4 : index + i \in DOMAIN buf
  BY <1>1
<1>4. \A i \in 1 .. 4 : m[i] \in Octets
  BY <1>1, <1>2, <1>3
<1>5. m \in Seq(Octets) /\ Len(m) = 4 /\ DOMAIN m = 1 .. 4
  <2> DEFINE four == 4
  <2>1. m \in [1 .. four -> Octets] /\ four \in Nat
    BY <1>2, <1>4
  <2> HIDE DEF four
  <2>2. m \in Seq(Octets) /\ Len(m) = four /\ DOMAIN m = 1 .. four
    BY <2>1
  <2> QED BY <2>2 DEF four
<1>6. Bytes!Number(m) = m[1] + 256 * m[2] + (256 * 256) * m[3]
                        + (256 * 256 * 256) * (IF m[4] >= 128 THEN m[4] - 256 ELSE m[4])
  BY <1>4, <1>5, NumberIs
<1>7. m[1] \in Int /\ m[2] \in Int /\ m[3] \in Int /\ m[4] \in Int
  <2>1. 1 \in 1 .. 4 /\ 2 \in 1 .. 4 /\ 3 \in 1 .. 4 /\ 4 \in 1 .. 4
    OBVIOUS
  <2>2. \A x \in Octets : x \in Int
    BY DEF Octets
  <2> QED BY <1>4, <2>1, <2>2
<1> DEFINE top == IF m[4] >= 128 THEN m[4] - 256 ELSE m[4]
<1>9. top \in Int
  BY <1>7
<1>10. Bytes!Number(m) = m[1] + 256 * m[2] + (256 * 256) * m[3] + (256 * 256 * 256) * top
  BY <1>6
<1> HIDE DEF top
<1> DEFINE b == 256 * m[2]
           c == (256 * 256) * m[3]
           d == (256 * 256 * 256) * top
<1>12. Bytes!Number(m) = m[1] + b + c + d
  BY <1>10
<1>13. b \in Int /\ c \in Int /\ d \in Int
  BY <1>7, <1>9
<1> HIDE DEF b, c, d
<1>11. Bytes!Number(m) \in Int
  BY <1>7, <1>12, <1>13
<1> QED BY <1>11 DEF m

Part(s, i, n) == SubSeq(s, i, i + n - 1)

(* A part of a sequence.                                                   *)
LEMMA SubSeqIs ==
  ASSUME NEW S, NEW s \in Seq(S), NEW i \in Nat, NEW n \in Nat, 1 <= i, i + n <= Len(s) + 1
  PROVE  /\ Part(s, i, n) \in Seq(S) /\ Len(Part(s, i, n)) = n
         /\ \A k \in 1 .. n : Part(s, i, n)[k] = s[i + k - 1]
<1>1. Len(s) \in Nat /\ (i + n - 1) - i + 1 = n
  OBVIOUS
<1>2. Part(s, i, n) = [k \in 1 .. (i + n - 1) - i + 1 |-> s[i + k - 1]]
  BY <1>1 DEF Part
<1>3. \A k \in 1 .. n : i + k - 1 \in 1 .. Len(s) /\ s[i + k - 1] \in S
  BY <1>1
<1>4. Part(s, i, n) \in [1 .. n -> S]
  BY <1>1, <1>2, <1>3
<1> QED BY <1>1, <1>2, <1>4

\* The text after the length n that is at the index.
Text(n) == SubSeq(buf, index + 5, index + 4 + n)

(* The next text with a length has that length.                            *)
LEMMA NextPascal ==
  ASSUME BufferInv, phase = "read", matched \in 0 .. Len(items) - 1,
         items[matched + 1].kind = "pascal",
         NEW n, n = Bytes!Number(Bytes!Memory(4))
  PROVE  /\ n \in Nat /\ Reach(matched + 1) = index + 4 + n /\ index + 4 + n <= Len(buf)
         /\ Text(n) = items[matched + 1].value
<1> DEFINE it == items[matched + 1]
           e  == Coded(it)
           t  == it.value
<1>1. /\ it \in Item /\ Reach(matched + 1) = index + Len(e)
      /\ index + Len(e) <= Len(buf) /\ Len(e) \in Nat
      /\ \A i \in 1 .. Len(e) : index + i \in DOMAIN buf /\ buf[index + i] = e[i]
  BY NextItem
<1>2. t \in Strings
  BY <1>1 DEF Item, Writable, IntKind
<1>3. t \in Seq(Octets) /\ Len(t) \in Nat /\ Len(t) \in Bounded
  BY <1>2, StringsAre
<1>4. e = Bytes!Encoded("pascal", t)
  BY DEF Coded
<1>5. /\ Len(e) = Len(t) + 4
      /\ \A i \in 1 .. 4 : e[i] = Bytes!Bytes(Len(t), 4)[i]
      /\ \A i \in 1 .. Len(t) : e[4 + i] = t[i]
  BY <1>2, <1>4, PascalCells
<1>6. /\ index \in Nat /\ Len(buf) \in Nat /\ DOMAIN buf = 1 .. Len(buf) /\ buf \in Seq(Cell)
  BY NextItem, ReadingFacts
<1>7. Bytes!Memory(4) = Bytes!Bytes(Len(t), 4)
  <2>1. 4 \in 0 .. Len(e)
    BY <1>3, <1>5
  <2>2. Bytes!Memory(4) = [i \in 1 .. 4 |-> e[i]]
    BY <2>1, MemoryIs
  <2>3. Bytes!Bytes(Len(t), 4) = [i \in 1 .. 4 |-> Bytes!Bytes(Len(t), 4)[i]]
    BY DEF Bytes!Bytes
  <2> HIDE DEF e, t
  <2> QED BY <1>5, <2>2, <2>3
<1>8. n = Len(t)
  <2>1. Len(t) \in Int /\ Len(t) \in (-Bytes!INT32_MAX - 1) .. Bytes!INT32_MAX
    BY <1>3 DEF Bounded
  <2> QED BY <1>7, <2>1, NumberOfBytes
<1> HIDE DEF e, t
<1>9. n \in Nat /\ Len(e) = 4 + n /\ index + Len(e) = index + 4 + n
  <2>1. n \in Nat /\ Len(e) = n + 4
    BY <1>3, <1>5, <1>8
  <2> QED BY <1>6, <2>1
<1>10. Text(n) = t
  <2>1. /\ Text(n) \in Seq(Cell) /\ Len(Text(n)) = n
        /\ \A i \in 1 .. n : Text(n)[i] = buf[index + 5 + i - 1]
    <3> DEFINE from == index + 5
    <3>1. /\ index + 4 + n = from + n - 1 /\ from \in Nat /\ 1 <= from
          /\ from + n <= Len(buf) + 1
      BY <1>1, <1>6, <1>9
    <3>2. Text(n) = Part(buf, from, n)
      BY <3>1 DEF Text, Part
    <3> HIDE DEF from
    <3>3. buf \in Seq(Cell) /\ n \in Nat
      BY <1>6, <1>9
    <3>4. Part(buf, from, n) \in Seq(Cell) /\ Len(Part(buf, from, n)) = n
      BY <3>1, <3>3, SubSeqIs
    <3>5. \A i \in 1 .. n : Part(buf, from, n)[i] = buf[from + i - 1]
      BY <3>1, <3>3, SubSeqIs
    <3> QED BY <3>2, <3>4, <3>5 DEF from
  <2>2. ASSUME NEW i \in 1 .. n PROVE buf[index + 5 + i - 1] = t[i]
    <3>1. index + 5 + i - 1 = index + (4 + i) /\ 4 + i \in 1 .. Len(e) /\ i \in 1 .. Len(t)
      <4>1. i \in Nat /\ 1 <= i /\ i <= n /\ n \in Nat /\ index \in Nat
        BY <1>6, <1>9
      <4>2. 4 + i \in 1 .. Len(e)
        BY <1>9, <4>1
      <4>3. i \in 1 .. Len(t)
        BY <1>8
      <4> QED BY <4>1, <4>2, <4>3
    <3> QED BY <1>1, <1>5, <3>1
  <2>3. Text(n) = [i \in 1 .. n |-> Text(n)[i]]
    BY <2>1, ElementsOf
  <2>4. t = [i \in 1 .. n |-> t[i]]
    BY <1>3, <1>8, ElementsOf
  <2> QED BY <2>1, <2>2, <2>3, <2>4
<1> QED BY <1>1, <1>3, <1>8, <1>9, <1>10 DEF t

(* buffer_read_pascal_string.                                              *)
LEMMA ReadPascalStringKeeps ==
  ASSUME BufferInv, Bytes!ReadPascalString
  PROVE  BufferInv'
<1> DEFINE n == Bytes!Number(Bytes!Memory(4))
           v == IF index + 4 + n > Len(buf) THEN NULL ELSE Text(n)
<1>1. phase = "read" /\ Bytes!Inside(4)
  BY DEF Bytes!ReadPascalString, Bytes!Reading
<1>2. CASE n < 0
  <2>1. Bytes!Error
    BY <1>2 DEF Bytes!ReadPascalString
  <2> QED BY <1>1, <2>1, ErrorKeeps
<1>3. CASE ~ (n < 0)
  <2>1. /\ Bytes!Returns("pascal", n, v) /\ index' = index + 4 + n
        /\ phase' = phase /\ buf' = buf /\ items' = items
        /\ trusted' = (trusted \/ index + 4 + n > Len(buf))
        /\ outside' = (outside \/ ~Within(4 + n))
    BY <1>3 DEF Bytes!ReadPascalString, Bytes!Size, Bytes!Touches, Bytes!Inside, Within, Text
  <2>2. /\ index \in Int /\ Len(buf) \in Nat /\ outside \in BOOLEAN /\ trusted \in BOOLEAN
        /\ (outside \/ index \notin 0 .. Len(buf) => trusted)
    BY <1>1, ReadingFacts
  <2>3. index >= 0 /\ index + 4 <= Len(buf)
    BY <1>1, <2>2 DEF Bytes!Inside, Bytes!Size
  <2>4. n \in Nat
    <3>1. n \in Int
      BY <1>1, <2>3, LengthIsNumber
    <3> HIDE DEF n
    <3> QED BY <1>3, <3>1
  <2>5. ASSUME Bytes!Expects("pascal", n)
        PROVE  index' = Reach(matched + 1) /\ (v # NULL => v = items[matched + 1].value)
    <3>1. matched \in 0 .. Len(items) - 1 /\ items[matched + 1].kind = "pascal"
      BY <2>5 DEF Bytes!Expects
    <3>2. Reach(matched + 1) = index + 4 + n /\ Text(n) = items[matched + 1].value
      BY <1>1, <3>1, NextPascal
    <3> HIDE DEF n
    <3> QED BY <2>1, <3>2
  <2> HIDE DEF n, v
  <2>6. index' \in Int /\ outside' \in BOOLEAN /\ trusted' \in BOOLEAN
    <3>1. n \in Int /\ index \in Int
      BY <2>2, <2>4
    <3>2. index' \in Int
      BY <2>1, <3>1
    <3> QED BY <2>1, <3>2
  <2>7. outside' \/ index' \notin 0 .. Len(buf) => trusted'
    <3>1. CASE index + 4 + n > Len(buf)
      BY <2>1, <3>1
    <3>2. CASE ~ (index + 4 + n > Len(buf))
      <4>1. Within(4 + n) /\ index + 4 + n \in 0 .. Len(buf) /\ index \in 0 .. Len(buf)
        BY <2>2, <2>3, <2>4, <3>2 DEF Within
      <4> QED BY <2>1, <2>2, <4>1
    <3> QED BY <3>1, <3>2
  <2> QED BY <1>1, <2>1, <2>5, <2>6, <2>7, ReadKeeps
<1> QED BY <1>2, <1>3

(* buffer_conv_pascal_string.                                              *)
LEMMA ConvPascalStringKeeps ==
  ASSUME BufferInv, Bytes!ConvPascalString
  PROVE  BufferInv'
<1> DEFINE n == Bytes!Number(Bytes!Memory(4))
           v == IF n < 0 \/ index + 4 + n > Len(buf) THEN NULL ELSE Text(n)
<1>1. phase = "read" /\ Bytes!Inside(4)
  BY DEF Bytes!ConvPascalString, Bytes!Reading
<1>2. /\ Bytes!Returns("pascal", n, v)
      /\ phase' = phase /\ buf' = buf /\ items' = items
      /\ trusted' = (trusted \/ index + 4 + n > Len(buf))
      /\ outside' = (outside \/ ~Within(IF n < 0 THEN 4 ELSE 4 + n))
      /\ index' = IF n < 0 THEN index + 4
                  ELSE IF index + (4 + n) \in 0 .. Len(buf) THEN index + (4 + n) ELSE Len(buf)
  BY DEF Bytes!ConvPascalString, Bytes!Size, Bytes!Touches, Bytes!Inside, Within, Bytes!Skipped,
         Text
<1>3. /\ index \in Int /\ Len(buf) \in Nat /\ outside \in BOOLEAN /\ trusted \in BOOLEAN
      /\ (outside \/ index \notin 0 .. Len(buf) => trusted)
  BY <1>1, ReadingFacts
<1>4. index >= 0 /\ index + 4 <= Len(buf)
  BY <1>1, <1>3 DEF Bytes!Inside, Bytes!Size
<1>5. n \in Int
  BY <1>1, <1>4, LengthIsNumber
<1>6. ASSUME Bytes!Expects("pascal", n)
      PROVE  index' = Reach(matched + 1) /\ (v # NULL => v = items[matched + 1].value)
  <2>1. matched \in 0 .. Len(items) - 1 /\ items[matched + 1].kind = "pascal"
    BY <1>6 DEF Bytes!Expects
  <2>2. /\ n \in Nat /\ Reach(matched + 1) = index + 4 + n /\ index + 4 + n <= Len(buf)
        /\ Text(n) = items[matched + 1].value
    BY <1>1, <2>1, NextPascal
  <2> HIDE DEF n
  <2>3. index' = index + 4 + n
    BY <1>2, <1>3, <1>4, <2>2
  <2> QED BY <2>2, <2>3
<1> HIDE DEF n, v
<1>7. index' \in Int /\ outside' \in BOOLEAN /\ trusted' \in BOOLEAN
  BY <1>2, <1>3, <1>5 DEF Within
<1>8. outside' \/ index' \notin 0 .. Len(buf) => trusted'
  BY <1>2, <1>3, <1>4, <1>5 DEF Within
<1> QED BY <1>1, <1>2, <1>6, <1>7, <1>8, ReadKeeps

(* A text outside the data.                                                *)
LEMMA ReadStringAstrayKeeps ==
  ASSUME BufferInv, Bytes!ReadStringAstray
  PROVE  BufferInv'
<1> DEFINE places == IF index < 0 THEN 0 .. Len(buf) ELSE {Len(buf)}
<1>1. /\ phase = "read" /\ index \notin 0 .. Len(buf)
      /\ index' \in places /\ matched' = -1 /\ outside' = TRUE
      /\ phase' = phase /\ buf' = buf /\ items' = items /\ trusted' = trusted
  BY DEF Bytes!ReadStringAstray, Bytes!Reading, Bytes!Astray, Bytes!Size
<1>2. Len(buf) \in Nat /\ trusted = TRUE
  BY <1>1, ReadingFacts
<1>3. index' \in Int
  BY <1>1, <1>2
<1> QED BY <1>1, <1>2, <1>3, LostKeeps

(* A length that is not all in the data.                                   *)
LEMMA ReadPascalAstrayKeeps ==
  ASSUME BufferInv, Bytes!ReadPascalAstray
  PROVE  BufferInv'
<1>1. phase = "read" /\ ~Bytes!Inside(4)
  BY DEF Bytes!ReadPascalAstray, Bytes!Reading
<1>2. CASE Bytes!Error
  BY <1>1, <1>2, ErrorKeeps
<1>3. CASE ~Bytes!Error
  <2>1. /\ index + 4 \in 0 .. Len(buf)
        /\ index' \in Offsets /\ matched' = -1 /\ outside' = TRUE
        /\ phase' = phase /\ buf' = buf /\ items' = items /\ trusted' = trusted
    BY <1>3 DEF Bytes!ReadPascalAstray, Bytes!Astray, Bytes!Size
  <2>2. index \in Int /\ Len(buf) \in Nat /\ (index \notin 0 .. Len(buf) => trusted = TRUE)
    BY <1>1, ReadingFacts
  <2>3. index < 0
    BY <1>1, <2>1, <2>2 DEF Bytes!Inside, Bytes!Size
  <2>4. trusted = TRUE
    BY <2>2, <2>3
  <2>5. index' \in Int
    BY <2>1, BytesAssumption DEF Bytes!BufferAssumption
  <2> QED BY <1>1, <2>1, <2>4, <2>5, LostKeeps
<1> QED BY <1>2, <1>3

(* The next bytes are those that were written.                             *)
LEMMA NextBytes ==
  ASSUME BufferInv, phase = "read", NEW n \in Nat, Bytes!Expects("bytes", n)
  PROVE  /\ Bytes!Memory(n) = items[matched + 1].value
         /\ Reach(matched + 1) = index + n /\ index + n <= Len(buf)
<1> DEFINE it == items[matched + 1]
           t  == it.value
<1>1. matched \in 0 .. Len(items) - 1 /\ it.kind = "bytes" /\ Len(t) = n
  BY DEF Bytes!Expects
<1>2. /\ it \in Item /\ Reach(matched + 1) = index + Len(Coded(it))
      /\ index + Len(Coded(it)) <= Len(buf)
  BY <1>1, NextItem
<1>3. t \in Strings
  BY <1>1, <1>2 DEF Item, Writable, IntKind
<1>4. Coded(it) = t
  BY <1>1, <1>3, EncodedText DEF Coded
<1>5. t \in Seq(Octets)
  BY <1>3, StringsAre
<1>6. Bytes!Memory(n) = [i \in 1 .. n |-> t[i]]
  <2>1. n \in 0 .. Len(Coded(it))
    BY <1>1, <1>4
  <2> QED BY <1>1, <1>4, <2>1, MemoryIs
<1>7. t = [i \in 1 .. n |-> t[i]]
  BY <1>1, <1>5, ElementsOf
<1> QED BY <1>1, <1>2, <1>4, <1>6, <1>7

(* buffer_read_bytes.                                                      *)
LEMMA ReadBytesKeeps ==
  ASSUME BufferInv, NEW n \in Nat, Bytes!ReadBytes(n)
  PROVE  BufferInv'
<1> DEFINE v == Bytes!Memory(n)
<1>1. phase = "read"
  BY DEF Bytes!ReadBytes, Bytes!Reading
<1>2. /\ index \in Int /\ Len(buf) \in Nat /\ outside \in BOOLEAN /\ trusted \in BOOLEAN
      /\ (outside \/ index \notin 0 .. Len(buf) => trusted)
  BY <1>1, ReadingFacts
<1>3. CASE Bytes!Fewer(n)
  <2>1. Bytes!Error
    BY <1>3 DEF Bytes!ReadBytes
  <2> QED BY <1>1, <2>1, ErrorKeeps
<1>4. CASE ~ Bytes!Fewer(n)
  <2>1. /\ Bytes!Returns("bytes", n, v) /\ index' = index + n
        /\ phase' = phase /\ trusted' = trusted /\ buf' = buf /\ items' = items
        /\ outside' = (outside \/ ~Within(n))
    BY <1>4 DEF Bytes!ReadBytes, Bytes!Size, Bytes!Touches, Bytes!Inside, Within
  <2>2. index > Len(buf) \/ index + n <= Len(buf)
    BY <1>2, <1>4 DEF Bytes!Fewer, Bytes!Size
  <2>3. Bytes!Expects("bytes", n) =>
          index' = Reach(matched + 1) /\ v = items[matched + 1].value
    BY <1>1, <2>1, NextBytes
  <2>4. index' \in Int /\ outside' \in BOOLEAN /\ trusted' \in BOOLEAN
    BY <1>2, <2>1
  <2>5. outside' \/ index' \notin 0 .. Len(buf) => trusted'
    BY <1>2, <2>1, <2>2 DEF Within
  <2> HIDE DEF v
  <2> QED BY <1>1, <2>1, <2>3, <2>4, <2>5, ReadKeeps
<1> QED BY <1>3, <1>4

(* buffer_check_bytes.                                                     *)
LEMMA CheckBytesKeeps ==
  ASSUME BufferInv, NEW bs \in Strings, Bytes!CheckBytes(bs)
  PROVE  BufferInv'
<1> DEFINE n == Len(bs)
<1>1. /\ phase = "read" /\ phase' = phase /\ trusted' = trusted /\ buf' = buf /\ items' = items
      /\ index' = IF index + n \in 0 .. Len(buf) THEN index + n ELSE Len(buf)
  BY DEF Bytes!CheckBytes, Bytes!Reading, Bytes!Size, Bytes!Touches, Bytes!Skipped
<1>2. /\ index \in Int /\ Len(buf) \in Nat /\ outside \in BOOLEAN /\ trusted \in BOOLEAN
      /\ (outside \/ index \notin 0 .. Len(buf) => trusted)
  BY <1>1, ReadingFacts
<1>3. n \in Nat
  BY StringsAre
<1>4. ASSUME Bytes!Expects("bytes", n)
      PROVE  /\ Bytes!Memory(n) = items[matched + 1].value
             /\ index' = Reach(matched + 1) /\ Within(n)
  <2>1. /\ matched \in 0 .. Len(items) - 1 /\ Bytes!Memory(n) = items[matched + 1].value
        /\ Reach(matched + 1) = index + n /\ index + n <= Len(buf)
    BY <1>1, <1>3, <1>4, NextBytes DEF Bytes!Expects
  <2>2. index \in Nat
    BY <1>1, <2>1, NextItem
  <2> HIDE DEF n
  <2> QED BY <1>1, <1>2, <1>3, <2>1, <2>2 DEF Within
<1>5. PICK v : /\ Bytes!Returns("bytes", n, v)
               /\ outside' = (outside \/ ~Within(IF Bytes!Fewer(n) THEN 0 ELSE n))
               /\ v # NULL => v = bs /\ (Within(n) => Bytes!Memory(n) = bs)
  <2>1. CASE /\ Bytes!Fewer(n) /\ Bytes!Returns("bytes", n, NULL) /\ Bytes!Touches(0)
    BY <2>1 DEF Bytes!Touches, Bytes!Inside, Bytes!Size, Within
  <2>2. CASE /\ ~Bytes!Fewer(n) /\ Bytes!Touches(n)
             /\ \E v \in {bs, NULL} :
                  /\ Bytes!Inside(n) => (v = bs <=> Bytes!Memory(n) = bs)
                  /\ Bytes!Returns("bytes", n, v)
    <3>1. Bytes!Inside(n) <=> Within(n)
      BY DEF Bytes!Inside, Bytes!Size, Within
    <3>2. outside' = (outside \/ ~Within(IF Bytes!Fewer(n) THEN 0 ELSE n))
      BY <2>2, <3>1 DEF Bytes!Touches
    <3>3. PICK v \in {bs, NULL} : /\ Bytes!Inside(n) => (v = bs <=> Bytes!Memory(n) = bs)
                                  /\ Bytes!Returns("bytes", n, v)
      BY <2>2
    <3> HIDE DEF n
    <3>4. v # NULL => v = bs /\ (Within(n) => Bytes!Memory(n) = bs)
      BY <3>1, <3>3
    <3> QED BY <3>2, <3>3, <3>4
  <2> QED BY <2>1, <2>2 DEF Bytes!CheckBytes
<1>6. Bytes!Expects("bytes", n) =>
        index' = Reach(matched + 1) /\ (v # NULL => v = items[matched + 1].value)
  BY <1>4, <1>5
<1> HIDE DEF n
<1>7. index' \in 0 .. Len(buf) /\ index' \in Int
  BY <1>1, <1>2, <1>3
<1>8. outside' \in BOOLEAN /\ trusted' \in BOOLEAN /\ (outside' => trusted')
  <2>1. CASE Bytes!Fewer(n)
    BY <1>1, <1>2, <1>5, <2>1 DEF Within
  <2>2. CASE ~Bytes!Fewer(n)
    <3>1. index > Len(buf) \/ index + n <= Len(buf)
      BY <1>2, <1>3, <2>2 DEF Bytes!Fewer, Bytes!Size
    <3> QED BY <1>1, <1>2, <1>3, <1>5, <2>2, <3>1 DEF Within
  <2> QED BY <2>1, <2>2
<1>9. outside' \/ index' \notin 0 .. Len(buf) => trusted'
  BY <1>7, <1>8
<1> QED BY <1>1, <1>5, <1>6, <1>7, <1>8, <1>9, ReadKeeps

(* buffer_skip.                                                            *)
LEMMA SkipKeeps ==
  ASSUME BufferInv, NEW n \in Nat, Bytes!Skip(n)
  PROVE  BufferInv'
<1>1. /\ phase = "read" /\ phase' = phase /\ buf' = buf /\ items' = items
      /\ index' = IF index + n \in 0 .. Len(buf) THEN index + n ELSE Len(buf)
      /\ matched' = -1 /\ trusted' = trusted /\ outside' = outside
  BY DEF Bytes!Skip, Bytes!Reading, Bytes!Skipped, Bytes!Size
<1>2. /\ index \in Int /\ Len(buf) \in Nat /\ outside \in BOOLEAN /\ trusted \in BOOLEAN
      /\ (outside => trusted)
  BY <1>1, ReadingFacts
<1>3. index' \in 0 .. Len(buf) /\ index' \in Int
  BY <1>1, <1>2
<1> QED BY <1>1, <1>2, <1>3, LostKeeps

(* buffer_seek: where an item begins, the items before it were read.       *)
LEMMA SeekKeeps ==
  ASSUME BufferInv, NEW off \in Offsets, Bytes!Seek(off)
  PROVE  BufferInv'
<1> DEFINE there == {k \in DOMAIN items : items[k].at = off}
<1>1. /\ phase = "read" /\ index' = off /\ got' = NULL
      /\ matched' \in IF there = {} THEN {-1} ELSE {k - 1 : k \in there}
      /\ phase' = phase /\ buf' = buf /\ items' = items
      /\ trusted' = (trusted \/ off \notin 0 .. Len(buf)) /\ outside' = outside
  BY DEF Bytes!Seek, Bytes!Reading, Bytes!Size
<1>2. /\ Len(buf) \in Nat /\ outside \in BOOLEAN /\ trusted \in BOOLEAN /\ (outside => trusted)
      /\ Len(items) \in Nat /\ items \in Seq(Item)
  BY <1>1, ReadingFacts
<1>3. DOMAIN items = 1 .. Len(items)
  BY <1>2, ElementsOf
<1>4. off \in Int
  BY BytesAssumption DEF Bytes!BufferAssumption
<1>5. outside' \/ index' \notin 0 .. Len(buf) => trusted'
  BY <1>1, <1>2
<1>6. CASE there = {}
  BY <1>1, <1>2, <1>4, <1>5, <1>6, LostKeeps
<1>7. CASE there # {}
  <2>1. PICK k \in there : matched' = k - 1
    BY <1>1, <1>7
  <2>2. k \in 1 .. Len(items) /\ items[k].at = off
    BY <1>3, <2>1
  <2>3. matched' \in -1 .. Len(items)
    BY <1>2, <2>1, <2>2
  <2>4. off = Reach(k - 1)
    BY <2>2 DEF BufferInv, Spaced
  <2>5. index' = Reach(matched')
    BY <1>1, <2>1, <2>4
  <2> HIDE DEF there
  <2> QED BY <1>1, <1>2, <1>4, <1>5, <2>3, <2>5, ReaderKeeps
<1> QED BY <1>6, <1>7

(* Every step of the containers keeps the invariant of the buffer.         *)
LEMMA NextBuffer == BufferInv /\ [NextContainers]_varsContainers => BufferInv'
<1> SUFFICES ASSUME BufferInv, [NextContainers]_varsContainers PROVE BufferInv'
  OBVIOUS
<1>1. CASE UNCHANGED bufferVars
  <2>1. /\ phase' = phase /\ buf' = buf /\ index' = index /\ items' = items /\ got' = got
        /\ matched' = matched /\ trusted' = trusted /\ outside' = outside
    BY <1>1 DEF bufferVars
  <2>2. Filled' = Filled /\ \A m : Reach(m)' = Reach(m)
    BY <2>1 DEF Filled, Reach
  <2>3. BufferType' /\ Spaced' /\ Stored' /\ Bytes!StaysInside' /\ Bytes!ReadsBack'
    BY <2>1, <2>2 DEF BufferInv, BufferType, Spaced, Stored, Bytes!StaysInside,
                      Bytes!ReadsBack, Bytes!Size
  <2>4. InOrder'
    <3>1. InOrder
      BY DEF BufferInv
    <3> QED BY <2>1, <3>1 DEF InOrder, Reach
  <2> QED BY <2>3, <2>4 DEF BufferInv
<1>2. CASE Bytes!Next
  <2>1. ASSUME NEW k \in Bytes!IntKinds, NEW v \in Ints, k # "int32" => v \in 0 .. 255,
               Bytes!Write(k, v)
        PROVE  BufferInv'
    <3>1. Writable(k, v)
      BY <2>1 DEF Writable, IntKind, Bytes!IntKinds
    <3> QED BY <2>1, <3>1, WriteKeeps
  <2>2. ASSUME NEW k \in {"bytes", "string", "pascal"}, NEW v \in Strings, Bytes!Write(k, v)
        PROVE  BufferInv'
    <3>1. Writable(k, v)
      BY DEF Writable, TextKind
    <3> QED BY <2>2, <3>1, WriteKeeps
  <2>3. ASSUME NEW k \in DOMAIN items, NEW v \in Ints, Bytes!WriteInt32At(k, v)
        PROVE  BufferInv'
    BY <2>3, PatchKeeps
  <2>4. ASSUME Bytes!StartReading PROVE BufferInv'
    BY <2>4, StartKeeps
  <2>5. ASSUME Bytes!ReadInt("int32", 4) PROVE BufferInv'
    BY <2>5, ReadIntKeeps DEF IntKind
  <2>6. ASSUME Bytes!ReadInt("int16", 2) PROVE BufferInv'
    BY <2>6, ReadIntKeeps DEF IntKind
  <2>7. ASSUME Bytes!ReadInt("int8", 1) PROVE BufferInv'
    BY <2>7, ReadIntKeeps DEF IntKind
  <2>8. ASSUME NEW v \in Strings, Bytes!ReadBytes(Len(v)) PROVE BufferInv'
    BY <2>8, StringsAre, ReadBytesKeeps
  <2>9. ASSUME NEW v \in Strings, Bytes!CheckBytes(v) PROVE BufferInv'
    BY <2>9, CheckBytesKeeps
  <2>10. ASSUME NEW off \in Offsets, Bytes!Seek(off) PROVE BufferInv'
    BY <2>10, SeekKeeps
  <2>11. ASSUME NEW v \in Strings, Bytes!Skip(Len(v)) PROVE BufferInv'
    BY <2>11, StringsAre, SkipKeeps
  <2> QED BY <1>2, <2>1, <2>2, <2>3, <2>4, <2>5, <2>6, <2>7, <2>8, <2>9, <2>10, <2>11,
             ReadStringKeeps, ReadPascalStringKeeps, ConvPascalStringKeeps,
             ReadStringAstrayKeeps, ReadPascalAstrayKeeps DEF Bytes!Next
<1> QED BY <1>1, <1>2 DEF NextContainers, varsContainers

(* A buffer gives back what was written to it, and stays inside itself     *)
(* until a length, a missing terminator or an offset leads out of it.      *)
THEOREM BuffersKeepData == SpecContainers => []BufferKeepsData
<1>1. BufferInv => BufferKeepsData
  BY DEF BufferInv, BufferKeepsData, Bytes!BufferKeepsData
<1> QED BY <1>1, InitBuffer, NextBuffer, PTL DEF SpecContainers

-----------------------------------------------------------------------------
(* Ini files: sequences of strings, each of which is there once.           *)

\* What is in a sequence.
Elements(s) == {s[i] : i \in DOMAIN s}

\* Nothing is there twice.
Once(s) == \A i, j \in DOMAIN s : s[i] = s[j] => i = j

\* Sequences, one after the other.
Flat(ss) == Ini!FlattenSeq(ss)

\* Two sequences joined hold what both hold.
LEMMA JoinElements ==
  ASSUME NEW S, NEW s \in Seq(S), NEW t \in Seq(S)
  PROVE  /\ Elements(Joined(s, t)) = Elements(s) \cup Elements(t)
         /\ Once(Joined(s, t)) <=> Once(s) /\ Once(t) /\ Elements(s) \cap Elements(t) = {}
<1> DEFINE m == Len(s)
           n == Len(t)
           r == Joined(s, t)
<1>1. m \in Nat /\ n \in Nat /\ DOMAIN s = 1 .. m /\ DOMAIN t = 1 .. n
  OBVIOUS
<1>2. /\ r \in Seq(S) /\ Len(r) = m + n
      /\ \A i \in 1 .. m + n : r[i] = IF i <= m THEN s[i] ELSE t[i - m]
  BY SeqJoin
<1>3. DOMAIN r = 1 .. m + n
  BY <1>2, ElementsOf
<1> HIDE DEF r, m, n
<1>4. \A i \in 1 .. m : i \in 1 .. m + n /\ r[i] = s[i]
  BY <1>1, <1>2
<1>5. \A i \in 1 .. n : m + i \in 1 .. m + n /\ r[m + i] = t[i]
  <2> SUFFICES ASSUME NEW i \in 1 .. n PROVE m + i \in 1 .. m + n /\ r[m + i] = t[i]
    OBVIOUS
  <2> DEFINE k == m + i
  <2>1. k \in 1 .. m + n /\ ~ (k <= m) /\ k - m = i
    BY <1>1
  <2> HIDE DEF k
  <2>2. r[k] = t[k - m]
    BY <1>2, <2>1
  <2> QED BY <2>1, <2>2 DEF k
<1>6. \A k \in 1 .. m + n : k \in 1 .. m \/ (k - m \in 1 .. n /\ m + (k - m) = k)
  BY <1>1
<1>7. Elements(r) = Elements(s) \cup Elements(t)
  <2>1. ASSUME NEW k \in 1 .. m + n PROVE r[k] \in Elements(s) \cup Elements(t)
    <3>1. CASE k \in 1 .. m
      BY <1>1, <1>4, <3>1 DEF Elements
    <3>2. CASE k - m \in 1 .. n /\ m + (k - m) = k
      <4>1. r[k] = t[k - m]
        BY <1>5, <3>2
      <4> QED BY <1>1, <3>2, <4>1 DEF Elements
    <3> QED BY <1>6, <3>1, <3>2
  <2>2. ASSUME NEW k \in 1 .. m PROVE s[k] \in Elements(r)
    BY <1>3, <1>4 DEF Elements
  <2>3. ASSUME NEW k \in 1 .. n PROVE t[k] \in Elements(r)
    <3>1. m + k \in DOMAIN r /\ r[m + k] = t[k]
      BY <1>3, <1>5
    <3> QED BY <3>1 DEF Elements
  <2>4. Elements(r) \subseteq Elements(s) \cup Elements(t)
    BY <1>3, <2>1 DEF Elements
  <2>5. Elements(s) \subseteq Elements(r) /\ Elements(t) \subseteq Elements(r)
    BY <1>1, <2>2, <2>3 DEF Elements
  <2> QED BY <2>4, <2>5
<1>8. ASSUME Once(r) PROVE Once(s) /\ Once(t) /\ Elements(s) \cap Elements(t) = {}
  <2>1. \A i, j \in 1 .. m + n : r[i] = r[j] => i = j
    BY <1>3, <1>8 DEF Once
  <2>2. Once(s)
    BY <1>1, <1>4, <2>1 DEF Once
  <2>3. ASSUME NEW i \in 1 .. n, NEW j \in 1 .. n, t[i] = t[j] PROVE i = j
    <3>1. m + i = m + j
      BY <1>5, <2>1, <2>3
    <3> QED BY <1>1, <3>1
  <2>4. ASSUME NEW i \in 1 .. m, NEW j \in 1 .. n, s[i] = t[j] PROVE FALSE
    <3>1. i = m + j
      BY <1>4, <1>5, <2>1, <2>4
    <3> QED BY <1>1, <3>1
  <2>5. Elements(s) \cap Elements(t) = {}
    BY <1>1, <2>4 DEF Elements
  <2> QED BY <1>1, <2>2, <2>3, <2>5 DEF Once
<1>9. ASSUME Once(s), Once(t), Elements(s) \cap Elements(t) = {} PROVE Once(r)
  <2>1. \A i, j \in 1 .. m : s[i] = s[j] => i = j
    BY <1>1, <1>9 DEF Once
  <2>2. \A i, j \in 1 .. n : t[i] = t[j] => i = j
    BY <1>1, <1>9 DEF Once
  <2>3. \A i \in 1 .. m, j \in 1 .. n : s[i] # t[j]
    BY <1>1, <1>9 DEF Elements
  <2>4. \A i \in 1 .. m + n : ~ (i \in 1 .. m) => r[i] = t[i - m] /\ i - m \in 1 .. n
    BY <1>2, <1>6, <1>1
  <2> SUFFICES ASSUME NEW i \in 1 .. m + n, NEW j \in 1 .. m + n, r[i] = r[j] PROVE i = j
    BY <1>3 DEF Once
  <2>5. CASE i \in 1 .. m /\ j \in 1 .. m
    BY <1>4, <2>1, <2>5
  <2>6. CASE i \in 1 .. m /\ ~ (j \in 1 .. m)
    BY <1>4, <2>3, <2>4, <2>6
  <2>7. CASE ~ (i \in 1 .. m) /\ j \in 1 .. m
    BY <1>4, <2>3, <2>4, <2>7
  <2>8. CASE ~ (i \in 1 .. m) /\ ~ (j \in 1 .. m)
    <3>1. i - m = j - m
      BY <2>2, <2>4, <2>8
    <3> QED BY <1>1, <3>1
  <2> QED BY <2>5, <2>6, <2>7, <2>8
<1> QED BY <1>7, <1>8, <1>9 DEF r

\* One sequence after the other, as far as the i-th.
Joins(ss, f) == /\ f[1] = ss[1]
                /\ \A i \in 2 .. Len(ss) : f[i] = Joined(f[i - 1], ss[i])

\* Flattening joins one sequence at a time.
LEMMA Flattened ==
  ASSUME NEW S, NEW ss \in Seq(Seq(S)), Len(ss) # 0
  PROVE  \E f \in [1 .. Len(ss) -> Seq(S)] : Joins(ss, f) /\ Ini!FlattenSeq(ss) = f[Len(ss)]
<1> DEFINE N == Len(ss)
           J(m, f) == /\ f \in [1 .. m -> Seq(S)] /\ f[1] = ss[1]
                      /\ \A i \in 2 .. m : f[i] = Joined(f[i - 1], ss[i])
           P == {m \in Nat : m + 1 <= N => \E f : J(m + 1, f)}
<1>0. N \in Nat \ {0} /\ \A i \in 1 .. N : ss[i] \in Seq(S)
  OBVIOUS
<1>1. 0 \in P
  <2>1. J(1, [i \in 1 .. 1 |-> ss[1]])
    BY <1>0
  <2> HIDE DEF J
  <2> QED BY <2>1
<1>2. ASSUME NEW m \in P PROVE m + 1 \in P
  <2> SUFFICES ASSUME m + 1 + 1 <= N PROVE \E f : J(m + 1 + 1, f)
    <3> HIDE DEF J
    <3> QED BY <1>2
  <2>1. PICK f : J(m + 1, f)
    <3> HIDE DEF J
    <3> QED BY <1>0
  <2> DEFINE M == m + 1
             g == [i \in 1 .. M + 1 |-> IF i = M + 1 THEN Joined(f[M], ss[M + 1]) ELSE f[i]]
  <2>2. M \in Nat \ {0} /\ M + 1 \in 1 .. N
    BY <1>0
  <2>3. f[M] \in Seq(S) /\ ss[M + 1] \in Seq(S)
    BY <1>0, <2>1, <2>2
  <2>4. Joined(f[M], ss[M + 1]) \in Seq(S)
    BY <2>3, SeqJoin DEF Joined
  <2> HIDE DEF M
  <2>5. g \in [1 .. M + 1 -> Seq(S)]
    BY <2>1, <2>2, <2>4 DEF M
  <2>6. g[1] = ss[1]
    BY <2>1, <2>2
  <2>7. ASSUME NEW i \in 2 .. M + 1 PROVE g[i] = Joined(g[i - 1], ss[i])
    <3>1. i - 1 \in 1 .. M /\ i - 1 # M + 1 /\ i - 1 \in 1 .. M + 1 /\ i \in 1 .. M + 1
      BY <2>2
    <3>2. g[i - 1] = f[i - 1]
      BY <3>1
    <3>3. CASE i = M + 1
      <4>1. i - 1 = M
        BY <2>2, <3>3
      <4> QED BY <3>1, <3>2, <3>3, <4>1
    <3>4. CASE i # M + 1
      <4>1. i \in 2 .. M
        BY <2>2, <3>4
      <4>2. f[i] = Joined(f[i - 1], ss[i])
        BY <2>1, <4>1 DEF M
      <4> QED BY <3>1, <3>2, <3>4, <4>2
    <3> QED BY <3>3, <3>4
  <2> HIDE DEF g
  <2>8. J(M + 1, g)
    BY <2>5, <2>6, <2>7
  <2> HIDE DEF J
  <2> QED BY <2>8 DEF M
<1>3. \E f : J(N, f)
  <2>1. P \subseteq Nat
    OBVIOUS
  <2> HIDE DEF P, J
  <2>2. P = Nat
    BY <1>1, <1>2, <2>1, Counting
  <2>3. N - 1 \in P /\ N - 1 + 1 = N /\ N <= N
    BY <1>0, <2>2
  <2> QED BY <2>3 DEF P
<1> DEFINE Rule(f) == f = [i \in 1 .. N |-> IF i = 1 THEN ss[i] ELSE Joined(f[i - 1], ss[i])]
<1>4. \E f : Rule(f)
  <2>1. PICK f : J(N, f)
    BY <1>3
  <2>2. ASSUME NEW i \in 1 .. N PROVE f[i] = IF i = 1 THEN ss[i] ELSE Joined(f[i - 1], ss[i])
    BY <1>0, <2>1
  <2>3. f = [i \in 1 .. N |-> f[i]]
    BY <2>1
  <2>4. Rule(f)
    BY <2>2, <2>3
  <2> HIDE DEF Rule
  <2> QED BY <2>4
<1> DEFINE F == CHOOSE f : Rule(f)
<1>5. Rule(F)
  <2> HIDE DEF Rule
  <2> QED BY <1>4
<1>6. Ini!FlattenSeq(ss) = F[N]
  BY <1>0 DEF Ini!FlattenSeq, Joined
<1> HIDE DEF F
<1>7. F[1] = ss[1] /\ \A i \in 2 .. N : F[i] = Joined(F[i - 1], ss[i])
  <2>1. ASSUME NEW i \in 1 .. N PROVE F[i] = IF i = 1 THEN ss[i] ELSE Joined(F[i - 1], ss[i])
    BY <1>5
  <2>2. 1 \in 1 .. N /\ \A i \in 2 .. N : i \in 1 .. N /\ i # 1
    BY <1>0
  <2> QED BY <2>1, <2>2
<1>8. F \in [1 .. N -> Seq(S)]
  <2> DEFINE Q == {m \in Nat : m + 1 <= N => F[m + 1] \in Seq(S)}
  <2>1. 0 \in Q
    BY <1>0, <1>7
  <2>2. ASSUME NEW m \in Q PROVE m + 1 \in Q
    <3> SUFFICES ASSUME m + 1 + 1 <= N PROVE F[m + 1 + 1] \in Seq(S)
      OBVIOUS
    <3>1. m + 1 + 1 \in 2 .. N /\ m + 1 + 1 - 1 = m + 1 /\ m + 1 <= N /\ m + 1 + 1 \in 1 .. N
      BY <1>0
    <3>2. F[m + 1] \in Seq(S) /\ ss[m + 1 + 1] \in Seq(S)
      BY <1>0, <3>1
    <3>3. F[m + 1 + 1] = Joined(F[m + 1], ss[m + 1 + 1])
      BY <1>7, <3>1
    <3> QED BY <3>2, <3>3, SeqJoin DEF Joined
  <2>3. Q \subseteq Nat
    OBVIOUS
  <2> HIDE DEF Q
  <2>4. Q = Nat
    BY <2>1, <2>2, <2>3, Counting
  <2>5. ASSUME NEW i \in 1 .. N PROVE F[i] \in Seq(S)
    <3>1. i - 1 \in Nat /\ i - 1 + 1 = i /\ i <= N
      BY <1>0
    <3> QED BY <2>4, <3>1 DEF Q
  <2> QED BY <1>5, <2>5
<1> QED BY <1>6, <1>7, <1>8 DEF Joins

\* The first m of the sequences have each string once, and share none.
Alone(ss, m) == /\ \A i \in 1 .. m : Once(ss[i])
                /\ \A i, j \in 1 .. m : i # j => Elements(ss[i]) \cap Elements(ss[j]) = {}

\* What the first m of the sequences hold.
Upto(ss, m) == UNION {Elements(ss[i]) : i \in 1 .. m}

\* One sequence more.
LEMMA OneMore ==
  ASSUME NEW ss, NEW m \in Nat
  PROVE  /\ Upto(ss, m + 1) = Upto(ss, m) \cup Elements(ss[m + 1])
         /\ Alone(ss, m + 1) <=> /\ Alone(ss, m) /\ Once(ss[m + 1])
                                 /\ Upto(ss, m) \cap Elements(ss[m + 1]) = {}
<1>1. 1 .. m + 1 = 1 .. m \cup {m + 1} /\ m + 1 \notin 1 .. m
  OBVIOUS
<1>2. Upto(ss, m + 1) = Upto(ss, m) \cup Elements(ss[m + 1])
  BY <1>1 DEF Upto
<1>3. ASSUME Alone(ss, m + 1)
      PROVE  Alone(ss, m) /\ Once(ss[m + 1]) /\ Upto(ss, m) \cap Elements(ss[m + 1]) = {}
  <2>1. \A i \in 1 .. m : i \in 1 .. m + 1 /\ i # m + 1
    BY <1>1
  <2>2. Alone(ss, m) /\ Once(ss[m + 1])
    BY <1>1, <1>3, <2>1 DEF Alone
  <2>3. \A i \in 1 .. m : Elements(ss[i]) \cap Elements(ss[m + 1]) = {}
    BY <1>1, <1>3, <2>1 DEF Alone
  <2> QED BY <2>2, <2>3 DEF Upto
<1>4. ASSUME Alone(ss, m), Once(ss[m + 1]), Upto(ss, m) \cap Elements(ss[m + 1]) = {}
      PROVE  Alone(ss, m + 1)
  <2>1. \A i \in 1 .. m : Elements(ss[i]) \cap Elements(ss[m + 1]) = {}
    BY <1>4 DEF Upto
  <2> QED BY <1>1, <1>4, <2>1 DEF Alone
<1> QED BY <1>2, <1>3, <1>4

\* Joined, sequences hold what they all hold.
LEMMA FlatElements ==
  ASSUME NEW S, NEW ss \in Seq(Seq(S))
  PROVE  /\ Flat(ss) \in Seq(S)
         /\ Elements(Flat(ss)) = Upto(ss, Len(ss))
         /\ Once(Flat(ss)) <=> Alone(ss, Len(ss))
<1> DEFINE N == Len(ss)
<1>1. N \in Nat /\ DOMAIN ss = 1 .. N /\ \A i \in 1 .. N : ss[i] \in Seq(S)
  OBVIOUS
<1>2. CASE N = 0
  <2>1. Flat(ss) = <<>>
    BY <1>1, <1>2 DEF Flat, Ini!FlattenSeq
  <2>2. <<>> \in Seq(S) /\ DOMAIN <<>> = {}
    OBVIOUS
  <2>3. 1 .. N = {}
    BY <1>2
  <2> QED BY <2>1, <2>2, <2>3 DEF Elements, Once, Upto, Alone
<1>3. CASE N # 0
  <2>1. PICK f \in [1 .. N -> Seq(S)] : Joins(ss, f) /\ Flat(ss) = f[N]
    BY <1>3, Flattened DEF Flat
  <2> DEFINE Settled(m) == Elements(f[m]) = Upto(ss, m) /\ (Once(f[m]) <=> Alone(ss, m))
             P == {m \in Nat : m + 1 <= N => Settled(m + 1)}
  <2>2. Settled(1)
    <3>1. f[1] = ss[1] /\ 1 .. 1 = {1}
      BY <2>1 DEF Joins
    <3>2. Elements(f[1]) = Upto(ss, 1)
      BY <3>1 DEF Upto
    <3>3. Once(f[1]) <=> Alone(ss, 1)
      BY <3>1 DEF Alone
    <3> QED BY <3>2, <3>3
  <2>3. ASSUME NEW M \in Nat \ {0}, M + 1 <= N, Settled(M)
        PROVE  Settled(M + 1)
    <3>1. M + 1 \in 2 .. N /\ M \in 1 .. N /\ M + 1 \in 1 .. N /\ M + 1 - 1 = M /\ M \in Nat
      BY <1>1, <2>3
    <3>2. f[M + 1] = Joined(f[M], ss[M + 1])
      <4>1. \A i \in 2 .. N : f[i] = Joined(f[i - 1], ss[i])
        BY <2>1 DEF Joins
      <4> QED BY <3>1, <4>1
    <3>4. f[M] \in Seq(S) /\ ss[M + 1] \in Seq(S)
      BY <1>1, <2>1, <3>1
    <3>5. /\ Elements(f[M + 1]) = Elements(f[M]) \cup Elements(ss[M + 1])
          /\ Once(f[M + 1]) <=> /\ Once(f[M]) /\ Once(ss[M + 1])
                                /\ Elements(f[M]) \cap Elements(ss[M + 1]) = {}
      BY <3>2, <3>4, JoinElements
    <3> QED BY <2>3, <3>1, <3>5, OneMore
  <2> HIDE DEF Settled
  <2>4. 0 \in P
    BY <2>2
  <2>5. ASSUME NEW m \in P PROVE m + 1 \in P
    <3>1. m \in Nat /\ (m + 1 <= N => Settled(m + 1))
      OBVIOUS
    <3>2. m + 1 + 1 <= N => Settled(m + 1 + 1)
      <4>1. m + 1 \in Nat \ {0} /\ (m + 1 + 1 <= N => m + 1 <= N)
        BY <1>1, <3>1
      <4> QED BY <2>3, <3>1, <4>1
    <3> QED BY <3>1, <3>2
  <2>6. P \subseteq Nat
    OBVIOUS
  <2> HIDE DEF P
  <2>7. P = Nat
    BY <2>4, <2>5, <2>6, Counting
  <2>8. Settled(N)
    <3>1. N - 1 \in P /\ N - 1 + 1 = N /\ N <= N
      BY <1>1, <1>3, <2>7
    <3> QED BY <3>1 DEF P
  <2>9. N \in 1 .. N
    BY <1>1, <1>3
  <2> QED BY <2>1, <2>8, <2>9 DEF Settled
<1> QED BY <1>2, <1>3
-----------------------------------------------------------------------------
(* The strings of a value, and of an entry.                                *)

\* The values of a list.
Value == IniValues \cup {Ini!Null}

\* The strings of the files.
Ids == {v.id : v \in IniValues} \cup {e.name.id : e \in Ini!IniLines}
       \cup UNION {{x.name.id : x \in Ini!ToSet(e.entries)} : e \in Ini!IniLines}

\* The strings of a value, those deeper being found by g.
Inner(n, g) ==
  [v \in Value |->
     IF v.type = "string" THEN <<v.id>>
     ELSE IF v.type = "list" /\ n # 0
     THEN Ini!FlattenSeq([i \in DOMAIN v.list |-> g[v.list[i]]]) ELSE <<>>]

\* How the strings of a value are found, to any depth.
Descent(f, m) == f = [n \in 0 .. m |-> Inner(n, f[n - 1])]

\* They are found by descending into the lists.
LEMMA DescentExists ==
  ASSUME NEW N \in Nat
  PROVE  \E f : Descent(f, N)
<1> DEFINE P == {m \in Nat : \E f : Descent(f, m)}
<1>1. 0 \in P
  <2> DEFINE g == [n \in 0 .. 0 |-> Inner(n, [k \in {} |-> k][n - 1])]
             h == [n \in 0 .. 0 |-> Inner(0, [v \in {} |-> v])]
  <2>1. \A x, y : Inner(0, x) = Inner(0, y)
    BY DEF Inner
  <2>2. Descent(h, 0)
    BY <2>1 DEF Descent
  <2> QED BY <2>2
<1>2. ASSUME NEW m \in P PROVE m + 1 \in P
  <2>1. PICK f : Descent(f, m)
    OBVIOUS
  <2> DEFINE g == [n \in 0 .. m + 1 |-> IF n = m + 1 THEN Inner(n, f[m]) ELSE f[n]]
  <2>0. m \in Nat
    OBVIOUS
  <2>2. ASSUME NEW n \in 0 .. m + 1 PROVE g[n] = Inner(n, g[n - 1])
    <3>1. CASE n = m + 1
      <4>1. n - 1 = m /\ m \in 0 .. m + 1 /\ m # m + 1
        BY <2>0, <3>1
      <4> QED BY <3>1, <4>1
    <3>2. CASE n = 0
      <4>1. 0 # m + 1 /\ 0 \in 0 .. m /\ 0 \in 0 .. m + 1
        BY <2>0
      <4>2. f[0] = Inner(0, f[0 - 1])
        BY <2>1, <4>1 DEF Descent
      <4>3. g[0] = f[0]
        BY <4>1
      <4>4. \A x, y : Inner(0, x) = Inner(0, y)
        BY DEF Inner
      <4> HIDE DEF g
      <4>5. Inner(0, g[0 - 1]) = Inner(0, f[0 - 1])
        BY <4>4
      <4> QED BY <3>2, <4>2, <4>3, <4>5
    <3>3. CASE n # 0 /\ n # m + 1
      <4>1. n - 1 \in 0 .. m + 1 /\ n - 1 # m + 1 /\ n \in 0 .. m
        BY <2>0, <3>3
      <4>2. f[n] = Inner(n, f[n - 1])
        BY <2>1, <4>1 DEF Descent
      <4> QED BY <3>3, <4>1, <4>2
    <3> QED BY <3>1, <3>2, <3>3
  <2>3. g = [n \in 0 .. m + 1 |-> g[n]]
    OBVIOUS
  <2> HIDE DEF g
  <2>4. Descent(g, m + 1)
    BY <2>2, <2>3 DEF Descent
  <2> QED BY <2>0, <2>4
<1>3. P \subseteq Nat
  OBVIOUS
<1> HIDE DEF P
<1>4. P = Nat
  BY <1>1, <1>2, <1>3, Counting
<1> QED BY <1>4 DEF P

\* The strings that ini_free_value frees.
OfValue(v) == Ini!Owned(v)

\* The descent that finds them.
Owns == CHOOSE f : Descent(f, IniDepth)

\* It is the one of the model.
LEMMA OwnedDescends ==
  Descent(Owns, IniDepth) /\ \A v : OfValue(v) = Owns[IniDepth][v]
<1>1. IniDepth \in Nat
  BY IniFilesAssumption DEF Ini!IniAssumption
<1>2. Descent(Owns, IniDepth)
  BY <1>1, DescentExists DEF Owns
<1>3. ASSUME NEW v PROVE OfValue(v) = Owns[IniDepth][v]
  BY DEF OfValue, Owns, Ini!Owned, Descent, Inner, Value
<1> QED BY <1>2, <1>3

\* It finds strings.
LEMMA OwnedTyped ==
  \A n \in 0 .. IniDepth : \A v \in Value : Owns[n][v] \in Seq(Ids)
<1>1. IniDepth \in Nat
  BY IniFilesAssumption DEF Ini!IniAssumption
<1> DEFINE f == Owns
           Typed(n) == \A v \in Value : f[n][v] \in Seq(Ids)
           P == {n \in Nat : n <= IniDepth => Typed(n)}
<1> HIDE DEF f
<1>2. \A n \in 0 .. IniDepth : f[n] = Inner(n, f[n - 1])
  BY OwnedDescends DEF Descent, f
<1>3. \A v \in Value : v.type = "string" => <<v.id>> \in Seq(Ids)
  <2> SUFFICES ASSUME NEW v \in Value, v.type = "string" PROVE <<v.id>> \in Seq(Ids)
    OBVIOUS
  <2>1. v \in IniValues
    BY DEF Value, Ini!Null
  <2>2. v.id \in Ids
    BY <2>1 DEF Ids
  <2> QED BY <2>2
<1>4. \A v \in Value : v.type = "list" => v.list \in Seq(Value)
  <2> SUFFICES ASSUME NEW v \in Value, v.type = "list" PROVE v.list \in Seq(Value)
    OBVIOUS
  <2>1. v \in IniValues
    BY DEF Value, Ini!Null
  <2>2. v.list \in Seq(IniValues)
    BY <2>1, IniFilesAssumption DEF Ini!IniAssumption
  <2>3. \A s \in Seq(IniValues) : s \in Seq(Value)
    BY DEF Value
  <2> QED BY <2>2, <2>3
<1>5. <<>> \in Seq(Ids)
  OBVIOUS
<1>6. ASSUME NEW n \in 0 .. IniDepth, n # 0 => Typed(n - 1)
      PROVE  Typed(n)
  <2> SUFFICES ASSUME NEW v \in Value PROVE f[n][v] \in Seq(Ids)
    OBVIOUS
  <2> HIDE DEF Typed
  <2>1. f[n][v] = IF v.type = "string" THEN <<v.id>>
              ELSE IF v.type = "list" /\ n # 0
              THEN Flat([i \in DOMAIN v.list |-> f[n - 1][v.list[i]]]) ELSE <<>>
    BY <1>2 DEF Inner, Flat
  <2>2. CASE v.type = "string"
    <3>1. v.type # "list"
      BY <2>2
    <3>2. f[n][v] = <<v.id>>
      BY <2>1, <2>2, <3>1, Zenon
    <3> QED BY <1>3, <2>2, <3>2
  <2>3. CASE v.type = "list" /\ n # 0
    <3> DEFINE ss == [i \in DOMAIN v.list |-> f[n - 1][v.list[i]]]
    <3>1. v.type # "string"
      BY <2>3
    <3>2. f[n][v] = Flat(ss)
      BY <2>1, <2>3, <3>1, Zenon
    <3>3. v.list \in Seq(Value)
      BY <1>4, <2>3
    <3>4. \A i \in DOMAIN v.list : f[n - 1][v.list[i]] \in Seq(Ids)
      BY <1>6, <2>3, <3>3 DEF Typed
    <3>5. ss \in Seq(Seq(Ids))
      <4> DEFINE L == v.list
                 T == Seq(Ids)
      <4>1. Len(L) \in Nat /\ DOMAIN L = 1 .. Len(L)
        BY <3>3, ElementsOf
      <4>2. ss \in [1 .. Len(L) -> T]
        BY <3>4, <4>1
      <4> HIDE DEF ss, L, T
      <4>3. ss \in Seq(T)
        BY <4>1, <4>2
      <4> QED BY <4>3 DEF T
    <3> HIDE DEF ss
    <3> QED BY <3>2, <3>5, FlatElements
  <2>4. CASE v.type # "string" /\ ~ (v.type = "list" /\ n # 0)
    <3>1. f[n][v] = <<>>
      BY <2>1, <2>4, Zenon
    <3> QED BY <1>5, <3>1
  <2> QED BY <2>2, <2>3, <2>4
<1>7. 0 \in P
  <2>1. 0 \in 0 .. IniDepth
    BY <1>1
  <2> HIDE DEF Typed
  <2> QED BY <1>6, <2>1
<1>8. ASSUME NEW n \in P PROVE n + 1 \in P
  <2>1. n \in Nat /\ (n <= IniDepth => Typed(n))
    <3> HIDE DEF Typed
    <3> QED OBVIOUS
  <2> HIDE DEF Typed
  <2>2. n + 1 <= IniDepth => Typed(n + 1)
    <3> SUFFICES ASSUME n + 1 <= IniDepth PROVE Typed(n + 1)
      OBVIOUS
    <3>1. n + 1 \in 0 .. IniDepth /\ n + 1 - 1 = n /\ n <= IniDepth
      BY <1>1, <2>1
    <3> QED BY <1>6, <2>1, <3>1
  <2> QED BY <2>1, <2>2
<1>9. P \subseteq Nat
  OBVIOUS
<1> HIDE DEF P, Typed
<1>10. P = Nat
  BY <1>7, <1>8, <1>9, Counting
<1>11. ASSUME NEW n \in 0 .. IniDepth PROVE Typed(n)
  <2>1. n \in Nat /\ n <= IniDepth
    BY <1>1
  <2> QED BY <1>10, <2>1 DEF P
<1> QED BY <1>11 DEF Typed, f

\* A value has strings, and null has none.
LEMMA OfValueIs ==
  /\ \A v \in Value : OfValue(v) \in Seq(Ids)
  /\ OfValue(Ini!Null) = <<>>
<1>1. IniDepth \in Nat /\ IniDepth \in 0 .. IniDepth
  BY IniFilesAssumption DEF Ini!IniAssumption
<1>2. Owns[IniDepth] = Inner(IniDepth, Owns[IniDepth - 1])
  BY <1>1, OwnedDescends DEF Descent
<1>3. Ini!Null \in Value /\ Ini!Null.type # "string" /\ Ini!Null.type # "list"
  BY DEF Value, Ini!Null
<1>4. \A n, g : Inner(n, g)[Ini!Null] = <<>>
  BY <1>3, Zenon DEF Inner
<1> QED BY <1>1, <1>2, <1>4, OwnedTyped, OwnedDescends

\* The strings of a list.
InList(list) == Ini!OwnedInList(list)

\* They are those of its values.
LEMMA InListIs ==
  ASSUME NEW list \in Seq(Value)
  PROVE  /\ InList(list) \in Seq(Ids)
         /\ Elements(InList(list)) = UNION {Elements(OfValue(list[i])) : i \in 1 .. Len(list)}
         /\ Once(InList(list)) <=>
              /\ \A i \in 1 .. Len(list) : Once(OfValue(list[i]))
              /\ \A i, j \in 1 .. Len(list) :
                   i # j => Elements(OfValue(list[i])) \cap Elements(OfValue(list[j])) = {}
<1> DEFINE ss == [i \in DOMAIN list |-> OfValue(list[i])]
           n  == Len(list)
           T  == Seq(Ids)
<1>1. n \in Nat /\ DOMAIN list = 1 .. n /\ \A i \in 1 .. n : list[i] \in Value
  BY ElementsOf
<1>2. InList(list) = Flat(ss)
  BY DEF InList, Ini!OwnedInList, Flat, OfValue
<1>3. \A i \in 1 .. n : OfValue(list[i]) \in T
  BY <1>1, OfValueIs
<1> HIDE DEF n, T
<1>4. ss \in [1 .. n -> T] /\ \A i \in 1 .. n : ss[i] = OfValue(list[i])
  BY <1>1, <1>3
<1> HIDE DEF ss
<1>5. ss \in Seq(T) /\ Len(ss) = n
  BY <1>1, <1>4
<1>6. /\ Flat(ss) \in Seq(Ids)
      /\ Elements(Flat(ss)) = Upto(ss, n)
      /\ Once(Flat(ss)) <=> Alone(ss, n)
  BY <1>5, FlatElements DEF T
<1>7. Upto(ss, n) = UNION {Elements(OfValue(list[i])) : i \in 1 .. n}
  BY <1>4 DEF Upto
<1>8. Alone(ss, n) <=> /\ \A i \in 1 .. n : Once(OfValue(list[i]))
                       /\ \A i, j \in 1 .. n :
                            i # j => Elements(OfValue(list[i])) \cap Elements(OfValue(list[j])) = {}
  BY <1>4 DEF Alone
<1> QED BY <1>2, <1>6, <1>7, <1>8 DEF n

-----------------------------------------------------------------------------
(* Ini files: the entries the parser makes of a line.                      *)

\* The strings that ini_free_entry frees.
By(e) == Ini!OwnedBy(e)

\* Those of an entry with a list, an assignment, and of any other.
LEMMA ListBy ==
  ASSUME NEW e, e.value.type = "list"
  PROVE  By(e) = Joined(<<e.at>>, InList(e.value.list))
<1>1. Ini!OwnedByPlain(e) = <<e.at>> \o InList(e.value.list)
  BY Zenon DEF Ini!OwnedByPlain, InList
<1> QED BY <1>1 DEF By, Ini!OwnedBy, Joined

LEMMA AssignBy ==
  ASSUME NEW e, e.value.type = "entry"
  PROVE  Ini!OwnedByPlain(e) = Joined(<<e.at>>, OfValue(e.value.value))
<1>1. e.value.type # "list"
  OBVIOUS
<1> QED BY <1>1, Zenon DEF Ini!OwnedByPlain, OfValue, Joined

LEMMA OtherBy ==
  ASSUME NEW e, e.value.type \notin {"list", "entry"}
  PROVE  Ini!OwnedByPlain(e) = Joined(<<e.at>>, OfValue(e.value))
<1>1. e.value.type # "list" /\ e.value.type # "entry"
  OBVIOUS
<1> QED BY <1>1, Zenon DEF Ini!OwnedByPlain, OfValue, Joined

\* The entries of a file that are no formations, as the parser makes them.
Shaped(e) ==
  /\ e = [name |-> e.name, at |-> e.at, value |-> e.value] /\ e.at \in Ids
  /\ By(e) \in Seq(Ids)
  /\ e.value.type = "list"  => e.value = Ini!ListOf(e.value.list) /\ e.value.list \in Seq(Value)
  /\ e.value.type = "entry" => /\ e.value.pos \in Nat /\ e.value.value \in Value
                               /\ By(e) = Joined(<<e.at>>, OfValue(e.value.value))

\* The parser makes entries of this shape of plain entries.
LEMMA PlainShape ==
  ASSUME NEW x, Ini!IsEntry(x), x.name.id \in Ids
  PROVE  LET e == Ini!PlainEntry(x) IN
         /\ Shaped(e) /\ e.value.type # "formation" /\ By(e) = Ini!OwnedByPlain(e)
<1> DEFINE e == Ini!PlainEntry(x)
           v == Ini!EntryValue(x.values)
<1>1. v \in IniValues /\ v \in Value /\ v.type # "entry" /\ v.type # "formation"
  <2>1. v \in IniValues
    BY DEF Ini!IsEntry
  <2>2. \A w \in IniValues : w.type \notin {"entry", "formation"}
    BY IniFilesAssumption, Zenon DEF Ini!IniAssumption
  <2> HIDE DEF v
  <2> QED BY <2>1, <2>2 DEF Value
<1>2. v.type = "list" => v = Ini!ListOf(v.list) /\ v.list \in Seq(Value)
  <2>1. \A w \in IniValues : w.type = "list" => w = Ini!ListOf(w.list) /\ w.list \in Seq(IniValues)
    BY IniFilesAssumption DEF Ini!IniAssumption
  <2>2. \A s \in Seq(IniValues) : s \in Seq(Value)
    BY DEF Value
  <2> HIDE DEF v
  <2> QED BY <1>1, <2>1, <2>2
<1>3. <<x.name.id>> \in Seq(Ids)
  OBVIOUS
<1> HIDE DEF v
<1>4. CASE x.position = NULL
  <2>1. e = [name |-> x.name.text, at |-> x.name.id, value |-> v]
    BY <1>4 DEF Ini!PlainEntry, Ini!Entry, v
  <2> HIDE DEF e
  <2>2. e.value = v /\ e.at = x.name.id /\ e = [name |-> e.name, at |-> e.at, value |-> e.value]
    BY <2>1
  <2>3. By(e) = Ini!OwnedByPlain(e)
    BY <1>1, <2>2 DEF By, Ini!OwnedBy
  <2>4. By(e) \in Seq(Ids)
    <3>1. CASE v.type = "list"
      <4>1. By(e) = Joined(<<e.at>>, InList(e.value.list))
        BY <2>2, <3>1, ListBy
      <4>2. InList(e.value.list) \in Seq(Ids)
        BY <1>2, <2>2, <3>1, InListIs
      <4> QED BY <1>3, <2>2, <4>1, <4>2, SeqJoin DEF Joined
    <3>2. CASE v.type # "list"
      <4>1. By(e) = Joined(<<e.at>>, OfValue(e.value))
        BY <1>1, <2>2, <2>3, <3>2, OtherBy
      <4>2. OfValue(e.value) \in Seq(Ids)
        BY <1>1, <2>2, OfValueIs
      <4> QED BY <1>3, <2>2, <4>1, <4>2, SeqJoin DEF Joined
    <3> QED BY <3>1, <3>2
  <2> QED BY <1>1, <1>2, <2>2, <2>3, <2>4 DEF Shaped, e
<1>5. CASE x.position # NULL
  <2>1. e = [name |-> x.name.text, at |-> x.name.id,
             value |-> [type |-> "entry", pos |-> x.position, value |-> v]]
    BY <1>5 DEF Ini!PlainEntry, Ini!Entry, v
  <2>0. x.position \in Nat
    BY <1>5 DEF Ini!IsEntry
  <2> HIDE DEF e
  <2>2. /\ e.value = [type |-> "entry", pos |-> x.position, value |-> v]
        /\ e.at = x.name.id /\ e = [name |-> e.name, at |-> e.at, value |-> e.value]
    BY <2>1
  <2>3. e.value.type = "entry" /\ e.value.pos = x.position /\ e.value.value = v
    BY <2>2
  <2>4. By(e) = Ini!OwnedByPlain(e)
    BY <2>3 DEF By, Ini!OwnedBy
  <2>5. By(e) = Joined(<<e.at>>, OfValue(e.value.value))
    BY <2>3, <2>4, AssignBy
  <2>6. By(e) \in Seq(Ids)
    <3>1. OfValue(v) \in Seq(Ids)
      BY <1>1, OfValueIs
    <3> QED BY <1>3, <2>2, <2>3, <2>5, <3>1, SeqJoin DEF Joined
  <2> QED BY <1>1, <2>0, <2>2, <2>3, <2>4, <2>5, <2>6 DEF Shaped, e
<1> QED BY <1>4, <1>5 DEF e

\* Line k of a file.
LineOf(f, k) == Ini!Made(f[k])

\* It makes them of every line.
LEMMA LineShape ==
  ASSUME NEW f \in Seq(Ini!IniLines), NEW k \in 1 .. Len(f)
  PROVE  Shaped(LineOf(f, k))
<1> DEFINE x == f[k]
           e == LineOf(f, k)
<1>1. x \in Ini!IniLines /\ x.name.id \in Ids /\ Ini!IsLine(x)
  <2>1. x \in Ini!IniLines
    BY ElementsOf
  <2>2. x.name.id \in Ids
    BY <2>1 DEF Ids
  <2> QED BY <2>1, <2>2, IniFilesAssumption DEF Ini!IniAssumption
<1>2. CASE x.kind # "formation"
  <2>1. e = Ini!PlainEntry(x) /\ Ini!IsEntry(x)
    BY <1>1, <1>2 DEF LineOf, Ini!Made, Ini!IsLine
  <2> QED BY <1>1, <2>1, PlainShape
<1>3. CASE x.kind = "formation"
  <2> DEFINE es == [i \in DOMAIN x.entries |-> Ini!PlainEntry(x.entries[i])]
             ss == [i \in DOMAIN es |-> Ini!OwnedByPlain(es[i])]
             T == Seq(Ids)
             n == Len(x.entries)
  <2>1. e = [name |-> x.name.text, at |-> x.name.id, value |-> [type |-> "formation", entries |-> es]]
    BY <1>3 DEF LineOf, Ini!Made, Ini!Entry
  <2>2. n \in Nat /\ DOMAIN x.entries = 1 .. n
    <3>1. x.entries \in Seq(Ini!ToSet(x.entries))
      BY <1>1, <1>3 DEF Ini!IsLine
    <3> QED BY <3>1, ElementsOf
  <2>3. ASSUME NEW i \in 1 .. n PROVE Ini!OwnedByPlain(es[i]) \in T
    <3>1. x.entries[i] \in Ini!ToSet(x.entries)
      BY <2>2 DEF Ini!ToSet
    <3>2. Ini!IsEntry(x.entries[i])
      BY <1>1, <1>3, <3>1 DEF Ini!IsLine
    <3>3. x.entries[i].name.id \in Ids
      <4>1. x.entries[i].name.id \in {y.name.id : y \in Ini!ToSet(x.entries)}
        BY <3>1
      <4> QED BY <1>1, <4>1 DEF Ids
    <3>4. es[i] = Ini!PlainEntry(x.entries[i])
      BY <2>2
    <3> QED BY <3>2, <3>3, <3>4, PlainShape DEF Shaped
  <2>4. DOMAIN es = 1 .. n
    BY <2>2
  <2> HIDE DEF es, n, T
  <2>5. ss \in [1 .. n -> T]
    BY <2>3, <2>4
  <2> HIDE DEF ss
  <2>6. ss \in Seq(T)
    BY <2>2, <2>5
  <2>7. Flat(ss) \in Seq(Ids)
    BY <2>6, FlatElements DEF T
  <2> HIDE DEF e
  <2>8. /\ e.value = [type |-> "formation", entries |-> es] /\ e.at = x.name.id
        /\ e = [name |-> e.name, at |-> e.at, value |-> e.value]
    BY <2>1
  <2>9. e.value.type = "formation" /\ e.value.entries = es
    BY <2>8
  <2>10. By(e) = Joined(<<e.at>>, Flat(ss))
    BY <2>9 DEF By, Ini!OwnedBy, Joined, Flat, ss
  <2>11. <<x.name.id>> \in Seq(Ids)
    BY <1>1
  <2>12. By(e) \in Seq(Ids)
    BY <2>7, <2>8, <2>10, <2>11, SeqJoin DEF Joined
  <2> QED BY <1>1, <2>8, <2>9, <2>12 DEF Shaped, e
<1> QED BY <1>2, <1>3

-----------------------------------------------------------------------------
(* Ini files: assigning a position of a list.                              *)

\* list_assign.
Assigned(list, pos, v) == Ini!ListAssign(list, pos, v)

\* How long it makes the list.
NewLen(list, pos) == IF pos + 1 > Len(list) THEN pos + 1 ELSE Len(list)

\* It changes one position, and fills those before it with null.
LEMMA AssignedIs ==
  ASSUME NEW list \in Seq(Value), NEW pos \in Nat, NEW v \in Value
  PROVE  /\ Assigned(list, pos, v) \in Seq(Value)
         /\ Len(Assigned(list, pos, v)) = NewLen(list, pos)
         /\ \A i \in 1 .. NewLen(list, pos) :
              Assigned(list, pos, v)[i] =
                IF i = pos + 1 THEN v ELSE IF i \in 1 .. Len(list) THEN list[i] ELSE Ini!Null
<1> DEFINE n == NewLen(list, pos)
           g == Ini!Larger(list, n)
           h == [g EXCEPT ![pos + 1] = v]
<1>1. Len(list) \in Nat /\ DOMAIN list = 1 .. Len(list) /\ \A i \in 1 .. Len(list) : list[i] \in Value
  BY ElementsOf
<1>2. n \in Nat /\ pos + 1 \in 1 .. n
  BY <1>1 DEF NewLen
<1>3. Ini!Null \in Value
  BY DEF Value
<1>4. g = [i \in 1 .. n |-> IF i \in 1 .. Len(list) THEN list[i] ELSE Ini!Null]
  BY <1>1 DEF Ini!Larger
<1>5. Assigned(list, pos, v) = h
  BY DEF Assigned, Ini!ListAssign, NewLen
<1> HIDE DEF g, n
<1>6. h \in [1 .. n -> Value]
  BY <1>1, <1>3, <1>4
<1>7. \A i \in 1 .. n : h[i] = IF i = pos + 1 THEN v ELSE IF i \in 1 .. Len(list) THEN list[i] ELSE Ini!Null
  BY <1>4
<1> HIDE DEF h
<1>8. h \in Seq(Value) /\ Len(h) = n
  BY <1>2, <1>6
<1> QED BY <1>5, <1>7, <1>8 DEF n

\* What an entry holds.
Strs(e) == Elements(By(e))

\* What is lost when a position of a list is assigned.
LostAt(list, pos) == IF pos + 1 \in 1 .. Len(list) THEN Elements(OfValue(list[pos + 1])) ELSE {}

\* They are those of the model.
LEMMA LostIs ==
  ASSUME NEW list \in Seq(Value), NEW pos
  PROVE  Ini!Overwritten(list, pos) = LostAt(list, pos)
BY ElementsOf DEF Ini!Overwritten, LostAt, OfValue, Ini!ToSet, Elements

(* Assigning a position changes one value of the list for another.         *)
LEMMA AssignedStrings ==
  ASSUME NEW list \in Seq(Value), NEW pos \in Nat, NEW v \in Value,
         Once(InList(list)), Once(OfValue(v)),
         Elements(OfValue(v)) \cap Elements(InList(list)) = {}
  PROVE  LET new == InList(Assigned(list, pos, v)) IN
         /\ Once(new)
         /\ LostAt(list, pos) \subseteq Elements(InList(list))
         /\ Elements(new) = (Elements(InList(list)) \ LostAt(list, pos)) \cup Elements(OfValue(v))
<1> DEFINE new == Assigned(list, pos, v)
           n == NewLen(list, pos)
           m == Len(list)
           Old(i) == Elements(OfValue(list[i]))
           New(i) == Elements(OfValue(new[i]))
           V == Elements(OfValue(v))
<1>1. m \in Nat /\ n \in Nat /\ pos + 1 \in 1 .. n /\ m <= n
      /\ (m < n => n = pos + 1)
  BY ElementsOf DEF NewLen
<1>2. /\ new \in Seq(Value) /\ Len(new) = n
      /\ \A i \in 1 .. n : new[i] = IF i = pos + 1 THEN v ELSE IF i \in 1 .. m THEN list[i] ELSE Ini!Null
  BY AssignedIs
<1>3. /\ Elements(InList(list)) = UNION {Old(i) : i \in 1 .. m}
      /\ \A i \in 1 .. m : Once(OfValue(list[i]))
      /\ \A i, j \in 1 .. m : i # j => Old(i) \cap Old(j) = {}
  BY InListIs
<1> HIDE DEF new, n
<1>4. /\ Elements(InList(new)) = UNION {New(i) : i \in 1 .. n}
      /\ Once(InList(new)) <=> /\ \A i \in 1 .. n : Once(OfValue(new[i]))
                               /\ \A i, j \in 1 .. n : i # j => New(i) \cap New(j) = {}
  BY <1>2, InListIs
<1>5. Elements(<<>>) = {} /\ Once(<<>>)
  BY DEF Elements, Once
<1>6. \A i \in 1 .. n : i # pos + 1 /\ i \in 1 .. m => new[i] = list[i] /\ New(i) = Old(i)
  BY <1>2
<1>7. \A i \in 1 .. n : i # pos + 1 /\ i \notin 1 .. m => new[i] = Ini!Null /\ New(i) = {}
  BY <1>2, <1>5, OfValueIs
<1>8. new[pos + 1] = v /\ New(pos + 1) = V
  BY <1>1, <1>2
<1> DEFINE k == pos + 1
<1>9. \A i \in 1 .. m : i \in 1 .. n
  BY <1>1
<1>10. LostAt(list, pos) = IF k \in 1 .. m THEN Old(k) ELSE {}
  BY DEF LostAt
<1>11. V \cap UNION {Old(i) : i \in 1 .. m} = {}
  BY <1>3
<1>12. k \in 1 .. n
  BY <1>1
<1> HIDE DEF k, Old, New, V, m
<1>13. Once(InList(new))
  <2>1. ASSUME NEW i \in 1 .. n PROVE Once(OfValue(new[i]))
    BY <1>3, <1>5, <1>6, <1>7, <1>8, OfValueIs DEF k
  <2>2. ASSUME NEW i \in 1 .. n, NEW j \in 1 .. n, i # j PROVE New(i) \cap New(j) = {}
    <3>1. \A l \in 1 .. n : l # k => New(l) = {} \/ (l \in 1 .. m /\ New(l) = Old(l))
      BY <1>6, <1>7 DEF k
    <3>2. New(k) = V
      BY <1>8 DEF k
    <3>3. \A l \in 1 .. m : V \cap Old(l) = {}
      BY <1>11
    <3> QED BY <1>3, <2>2, <3>1, <3>2, <3>3
  <2> QED BY <1>4, <2>1, <2>2
<1>14. UNION {New(i) : i \in 1 .. n} = ((UNION {Old(i) : i \in 1 .. m}) \ LostAt(list, pos)) \cup V
  <2>1. ASSUME NEW x, NEW i \in 1 .. n, x \in New(i)
        PROVE  x \in ((UNION {Old(j) : j \in 1 .. m}) \ LostAt(list, pos)) \cup V
    <3>1. CASE i = k
      BY <1>8, <2>1, <3>1 DEF k
    <3>2. CASE i # k
      <4>1. i \in 1 .. m /\ x \in Old(i)
        BY <1>6, <1>7, <2>1, <3>2 DEF k
      <4>2. x \notin LostAt(list, pos)
        BY <1>3, <1>10, <3>2, <4>1
      <4> QED BY <4>1, <4>2
    <3> QED BY <3>1, <3>2
  <2>2. ASSUME NEW x, NEW i \in 1 .. m, x \in Old(i), x \notin LostAt(list, pos)
        PROVE  x \in UNION {New(j) : j \in 1 .. n}
    <3>1. i # k
      BY <1>10, <2>2
    <3>2. i \in 1 .. n /\ New(i) = Old(i)
      BY <1>6, <1>9, <3>1 DEF k
    <3> QED BY <2>2, <3>2
  <2>3. V \subseteq UNION {New(j) : j \in 1 .. n}
    BY <1>8, <1>12 DEF k
  <2> QED BY <2>1, <2>2, <2>3
<1>15. LostAt(list, pos) \subseteq Elements(InList(list))
  BY <1>3, <1>10
<1> QED BY <1>3, <1>4, <1>13, <1>14, <1>15 DEF new, V

-----------------------------------------------------------------------------
(* Ini files: the list that lines of a file make.                          *)

\* What line k of a file is: an assignment or not, and its parts.
Assigns(f, k) == LineOf(f, k).value.type = "entry"
NameOf(f, k)  == LineOf(f, k).name
PosOf(f, k)   == LineOf(f, k).value.pos
ValueOf(f, k) == LineOf(f, k).value.value
GivenBy(f, k) == LineOf(f, k).value.list
IsList(f, k)  == LineOf(f, k).value.type = "list"

\* Line j assigns to the list of line k.
Reaches(f, j, k) == Assigns(f, j) /\ NameOf(f, j) = NameOf(f, k)

\* The lines to n that assign position p of the list of line k.
Targets(f, k, p, n) == {j \in k .. n : Reaches(f, j, k) /\ PosOf(f, j) = p}

\* The last of them.
Latest(T) == CHOOSE j \in T : \A i \in T : i <= j

\* The position was written.
WrittenBy(f, k, p, n) == \/ Targets(f, k, p, n) # {}
                         \/ ~Assigns(f, k) /\ p + 1 \in DOMAIN GivenBy(f, k)

\* What is there then.
ContentOf(f, k, p, n) ==
  IF Targets(f, k, p, n) # {} THEN ValueOf(f, Latest(Targets(f, k, p, n)))
  ELSE IF WrittenBy(f, k, p, n) THEN GivenBy(f, k)[p + 1] ELSE Ini!Null

\* The list is what line k and the assignments to it made.
ListIs(f, k, list, n) ==
  /\ \A p \in 0 .. Len(list) - 1 : list[p + 1] = ContentOf(f, k, p, n)
  /\ \A j \in k .. n : Reaches(f, j, k) => PosOf(f, j) < Len(list)
  /\ ~Assigns(f, k) => Len(GivenBy(f, k)) <= Len(list)
  /\ list # <<>> => WrittenBy(f, k, Len(list) - 1, n)

\* The parts of a line.
LEMMA LineIs ==
  ASSUME NEW f \in Seq(Ini!IniLines), NEW k \in 1 .. Len(f)
  PROVE  /\ Shaped(LineOf(f, k)) /\ k \in Nat
         /\ Assigns(f, k) => PosOf(f, k) \in Nat /\ ValueOf(f, k) \in Value
         /\ IsList(f, k)  => /\ GivenBy(f, k) \in Seq(Value) /\ ~Assigns(f, k)
                             /\ LineOf(f, k).value = Ini!ListOf(GivenBy(f, k))
<1> DEFINE e == LineOf(f, k)
<1>1. Shaped(e) /\ k \in Nat
  BY LineShape, ElementsOf
<1> HIDE DEF e
<1>2. e.value.type = "entry" => e.value.pos \in Nat /\ e.value.value \in Value
  BY <1>1 DEF Shaped
<1>3. e.value.type = "list" => /\ e.value.list \in Seq(Value) /\ e.value.type # "entry"
                               /\ e.value = Ini!ListOf(e.value.list)
  BY <1>1 DEF Shaped
<1> QED BY <1>1, <1>2, <1>3 DEF Assigns, IsList, GivenBy, PosOf, ValueOf, e

\* The newest line is the last.
LEMMA LatestIs ==
  ASSUME NEW n \in Nat, NEW T \in SUBSET Nat, n \in T, \A j \in T : j <= n
  PROVE  Latest(T) = n
<1>1. \E j \in T : \A i \in T : i <= j
  OBVIOUS
<1>2. Latest(T) \in T /\ \A i \in T : i <= Latest(T)
  BY <1>1 DEF Latest
<1>3. Latest(T) \in Nat /\ Latest(T) <= n /\ n <= Latest(T)
  BY <1>2
<1> QED BY <1>3

\* A line more assigns one position, or none.
LEMMA TargetsGrow ==
  ASSUME NEW f, NEW n \in Nat, NEW k \in 1 .. n, NEW p
  PROVE  Targets(f, k, p, n + 1) =
           IF Reaches(f, n + 1, k) /\ PosOf(f, n + 1) = p THEN Targets(f, k, p, n) \cup {n + 1}
           ELSE Targets(f, k, p, n)
<1>1. k .. n + 1 = (k .. n) \cup {n + 1} /\ n + 1 \notin k .. n
  OBVIOUS
<1> DEFINE m == n + 1
<1> HIDE DEF m
<1>2. k .. m = (k .. n) \cup {m} /\ m \notin k .. n
  BY <1>1 DEF m
<1>3. Targets(f, k, p, m) =
           IF Reaches(f, m, k) /\ PosOf(f, m) = p THEN Targets(f, k, p, n) \cup {m}
           ELSE Targets(f, k, p, n)
  BY <1>2 DEF Targets
<1> QED BY <1>3 DEF m

\* A line that does not assign to the list changes nothing about it.
LEMMA NotReached ==
  ASSUME NEW f, NEW n \in Nat, NEW k \in 1 .. n, NEW list, ~Reaches(f, n + 1, k)
  PROVE  ListIs(f, k, list, n + 1) <=> ListIs(f, k, list, n)
<1>1. \A p : Targets(f, k, p, n + 1) = Targets(f, k, p, n)
  BY TargetsGrow
<1>2. \A p : /\ ContentOf(f, k, p, n + 1) = ContentOf(f, k, p, n)
             /\ WrittenBy(f, k, p, n + 1) <=> WrittenBy(f, k, p, n)
  BY <1>1 DEF ContentOf, WrittenBy
<1>3. (\A j \in k .. n + 1 : Reaches(f, j, k) => PosOf(f, j) < Len(list))
      <=> (\A j \in k .. n : Reaches(f, j, k) => PosOf(f, j) < Len(list))
  <2>1. k .. n + 1 = (k .. n) \cup {n + 1}
    OBVIOUS
  <2> QED BY <2>1
<1> QED BY <1>2, <1>3 DEF ListIs

\* A list as the file gives it.
LEMMA GivenList ==
  ASSUME NEW f \in Seq(Ini!IniLines), NEW k \in 1 .. Len(f), IsList(f, k)
  PROVE  ListIs(f, k, GivenBy(f, k), k)
<1>1. ~Assigns(f, k) /\ GivenBy(f, k) \in Seq(Value) /\ k \in Nat
  BY LineIs
<1>2. \A j \in k .. k : ~Reaches(f, j, k)
  <2>1. k .. k = {k}
    BY <1>1
  <2> QED BY <1>1, <2>1 DEF Reaches
<1>3. \A p : Targets(f, k, p, k) = {}
  BY <1>2 DEF Targets
<1> DEFINE list == GivenBy(f, k)
<1>4. Len(list) \in Nat /\ DOMAIN list = 1 .. Len(list)
  BY <1>1, ElementsOf
<1> HIDE DEF list
<1>5. ASSUME NEW p \in 0 .. Len(list) - 1
      PROVE  WrittenBy(f, k, p, k) /\ ContentOf(f, k, p, k) = list[p + 1]
  <2>1. p + 1 \in DOMAIN list
    BY <1>4
  <2> QED BY <1>1, <1>3, <2>1 DEF WrittenBy, ContentOf, list
<1>6. list # <<>> => Len(list) - 1 \in 0 .. Len(list) - 1
  BY <1>1, <1>4 DEF list
<1>7. Len(list) <= Len(list)
  BY <1>4
<1> QED BY <1>2, <1>5, <1>6, <1>7 DEF ListIs, list

\* A list that begins with an assignment.
LEMMA NewList ==
  ASSUME NEW f \in Seq(Ini!IniLines), NEW k \in 1 .. Len(f), Assigns(f, k)
  PROVE  ListIs(f, k, Assigned(<<>>, PosOf(f, k), ValueOf(f, k)), k)
<1> DEFINE p0 == PosOf(f, k)
           v == ValueOf(f, k)
           list == Assigned(<<>>, p0, v)
<1>1. p0 \in Nat /\ v \in Value /\ k \in Nat
  BY LineIs
<1> HIDE DEF p0, v
<1>2. <<>> \in Seq(Value) /\ Len(<<>>) = 0
  OBVIOUS
<1>3. NewLen(<<>>, p0) = p0 + 1
  BY <1>1, <1>2 DEF NewLen
<1>4. Len(list) = p0 + 1 /\ \A i \in 1 .. p0 + 1 : list[i] = IF i = p0 + 1 THEN v ELSE Ini!Null
  <2> DEFINE none == <<>>
  <2>1. none \in Seq(Value) /\ Len(none) = 0 /\ \A i : i \notin 1 .. Len(none)
    OBVIOUS
  <2> HIDE DEF none
  <2>2. /\ Len(Assigned(none, p0, v)) = NewLen(none, p0)
        /\ \A i \in 1 .. NewLen(none, p0) : Assigned(none, p0, v)[i] =
              IF i = p0 + 1 THEN v ELSE IF i \in 1 .. Len(none) THEN none[i] ELSE Ini!Null
    BY <1>1, <2>1, AssignedIs
  <2>3. list = Assigned(none, p0, v) /\ NewLen(none, p0) = p0 + 1
    BY <1>3 DEF none
  <2> HIDE DEF list
  <2> QED BY <2>1, <2>2, <2>3
<1> HIDE DEF list
<1>5. k .. k = {k} /\ Reaches(f, k, k)
  BY <1>1 DEF Reaches
<1>6. \A p : Targets(f, k, p, k) = IF p = p0 THEN {k} ELSE {}
  BY <1>5 DEF Targets, p0
<1>7. Latest({k}) = k
  BY <1>1, LatestIs
<1>8. ASSUME NEW p \in 0 .. Len(list) - 1 PROVE list[p + 1] = ContentOf(f, k, p, k)
  <2>1. p \in 0 .. p0 /\ p + 1 \in 1 .. p0 + 1 /\ (p + 1 = p0 + 1 <=> p = p0)
    BY <1>1, <1>4
  <2>2. CASE p = p0
    <3>1. ContentOf(f, k, p, k) = v
      BY <1>6, <1>7, <2>2 DEF ContentOf, v
    <3> QED BY <1>4, <2>1, <2>2, <3>1
  <2>3. CASE p # p0
    <3>1. ContentOf(f, k, p, k) = Ini!Null
      BY <1>6, <2>3 DEF ContentOf, WrittenBy
    <3> QED BY <1>4, <2>1, <2>3, <3>1
  <2> QED BY <2>2, <2>3
<1>9. \A j \in k .. k : Reaches(f, j, k) => PosOf(f, j) < Len(list)
  BY <1>1, <1>4, <1>5 DEF p0
<1>10. WrittenBy(f, k, Len(list) - 1, k)
  <2>1. Len(list) - 1 = p0
    BY <1>1, <1>4
  <2>2. Targets(f, k, p0, k) # {}
    BY <1>6
  <2>3. WrittenBy(f, k, p0, k)
    BY <2>2 DEF WrittenBy
  <2> QED BY <2>1, <2>3
<1> QED BY <1>8, <1>9, <1>10 DEF ListIs, list, p0, v

\* A list that is assigned to.
LEMMA IntoList ==
  ASSUME NEW f \in Seq(Ini!IniLines), NEW n \in Nat, n + 1 \in 1 .. Len(f), NEW k \in 1 .. n,
         NEW list \in Seq(Value), ListIs(f, k, list, n),
         Reaches(f, n + 1, k), Assigns(f, k) \/ IsList(f, k)
  PROVE  ListIs(f, k, Assigned(list, PosOf(f, n + 1), ValueOf(f, n + 1)), n + 1)
<1> DEFINE p0 == PosOf(f, n + 1)
           v == ValueOf(f, n + 1)
           new == Assigned(list, p0, v)
           N == NewLen(list, p0)
           m == Len(list)
<1>1. p0 \in Nat /\ v \in Value
  BY LineIs DEF Reaches
<1>5. \A p : Targets(f, k, p, n + 1) = IF p = p0 THEN Targets(f, k, p, n) \cup {n + 1}
                                       ELSE Targets(f, k, p, n)
  BY TargetsGrow
<1> HIDE DEF p0, v
<1>2. ~Assigns(f, k) => GivenBy(f, k) \in Seq(Value)
  BY LineIs
<1>3. m \in Nat /\ N \in Nat /\ p0 + 1 <= N /\ m <= N /\ (N = m \/ N = p0 + 1)
  BY <1>1, ElementsOf DEF NewLen
<1>4. Len(new) = N /\ \A i \in 1 .. N : new[i] = IF i = p0 + 1 THEN v
                                               ELSE IF i \in 1 .. m THEN list[i] ELSE Ini!Null
  BY <1>1, AssignedIs
<1>6. Latest(Targets(f, k, p0, n + 1)) = n + 1 /\ Targets(f, k, p0, n + 1) # {}
  <2> DEFINE T == Targets(f, k, p0, n + 1)
  <2>0. Targets(f, k, p0, n + 1) = Targets(f, k, p0, n) \cup {n + 1}
    BY <1>5
  <2>1. n + 1 \in T /\ n + 1 \in Nat
    BY <2>0
  <2>2. T \subseteq k .. n + 1
    BY DEF Targets
  <2> HIDE DEF T
  <2>3. T \in SUBSET Nat /\ \A j \in T : j <= n + 1
    BY <2>2
  <2> QED BY <2>1, <2>3, LatestIs DEF T
<1> HIDE DEF new, N, m
<1>7. ContentOf(f, k, p0, n + 1) = v
  BY <1>6 DEF ContentOf, v
<1>8. \A p : p # p0 => /\ ContentOf(f, k, p, n + 1) = ContentOf(f, k, p, n)
                       /\ WrittenBy(f, k, p, n + 1) <=> WrittenBy(f, k, p, n)
  BY <1>5 DEF ContentOf, WrittenBy
<1>9. /\ \A p \in 0 .. m - 1 : list[p + 1] = ContentOf(f, k, p, n)
      /\ \A j \in k .. n : Reaches(f, j, k) => PosOf(f, j) < m
      /\ ~Assigns(f, k) => Len(GivenBy(f, k)) <= m
      /\ list # <<>> => WrittenBy(f, k, m - 1, n)
  BY DEF ListIs, m
<1>10. ASSUME NEW p \in Nat, p >= m PROVE ContentOf(f, k, p, n) = Ini!Null
  <2>1. Targets(f, k, p, n) = {}
    <3>1. \A j \in k .. n : Reaches(f, j, k) => PosOf(f, j) # p
      BY <1>3, <1>9, <1>10
    <3> QED BY <3>1 DEF Targets
  <2>2. ~WrittenBy(f, k, p, n)
    <3>1. ~Assigns(f, k) => p + 1 \notin DOMAIN GivenBy(f, k)
      <4> SUFFICES ASSUME ~Assigns(f, k) PROVE p + 1 \notin DOMAIN GivenBy(f, k)
        OBVIOUS
      <4>1. /\ DOMAIN GivenBy(f, k) = 1 .. Len(GivenBy(f, k)) /\ Len(GivenBy(f, k)) \in Nat
            /\ Len(GivenBy(f, k)) <= m
        BY <1>2, <1>9, ElementsOf
      <4> QED BY <1>3, <1>10, <4>1
    <3> QED BY <2>1, <3>1 DEF WrittenBy
  <2> QED BY <2>1, <2>2 DEF ContentOf
<1>11. ASSUME NEW p \in 0 .. N - 1 PROVE new[p + 1] = ContentOf(f, k, p, n + 1)
  <2>1. p + 1 \in 1 .. N /\ p \in Nat /\ (p + 1 = p0 + 1 <=> p = p0)
    BY <1>1, <1>3
  <2>2. CASE p = p0
    BY <1>4, <1>7, <2>1, <2>2
  <2>3. CASE p # p0 /\ p < m
    <3>1. p + 1 \in 1 .. m /\ p \in 0 .. m - 1
      BY <1>3, <2>1, <2>3
    <3> QED BY <1>4, <1>8, <1>9, <2>1, <2>3, <3>1
  <2>4. CASE p # p0 /\ ~ (p < m)
    <3>1. p + 1 \notin 1 .. m /\ p >= m
      BY <1>3, <2>1, <2>4
    <3>2. ContentOf(f, k, p, n) = Ini!Null
      BY <1>10, <2>1, <3>1
    <3> QED BY <1>4, <1>8, <2>1, <2>4, <3>1, <3>2
  <2> QED BY <2>2, <2>3, <2>4
<1>12. ASSUME NEW j \in k .. n + 1, Reaches(f, j, k) PROVE PosOf(f, j) < N
  <2>1. CASE j = n + 1
    <3>1. p0 < N
      BY <1>1, <1>3
    <3> QED BY <2>1, <3>1 DEF p0
  <2>2. CASE j # n + 1
    <3>1. j \in k .. n /\ j \in 1 .. Len(f)
      BY <2>2, ElementsOf
    <3>2. PosOf(f, j) < m
      BY <1>9, <1>12, <3>1
    <3>3. PosOf(f, j) \in Nat
      BY <1>12, <3>1, LineIs DEF Reaches
    <3> QED BY <1>3, <3>2, <3>3
  <2> QED BY <2>1, <2>2
<1>13. ~Assigns(f, k) => Len(GivenBy(f, k)) <= N
  <2> SUFFICES ASSUME ~Assigns(f, k) PROVE Len(GivenBy(f, k)) <= N
    OBVIOUS
  <2>1. Len(GivenBy(f, k)) \in Nat /\ Len(GivenBy(f, k)) <= m
    BY <1>2, <1>9, ElementsOf
  <2> QED BY <1>3, <2>1
<1>14. WrittenBy(f, k, N - 1, n + 1)
  <2>1. CASE N - 1 = p0
    <3>1. WrittenBy(f, k, p0, n + 1)
      BY <1>6 DEF WrittenBy
    <3> QED BY <2>1, <3>1
  <2>2. CASE N - 1 # p0
    <3>1. N = m /\ m # 0
      BY <1>1, <1>3, <2>2
    <3>2. list # <<>>
      BY <3>1 DEF m
    <3> QED BY <1>8, <1>9, <2>2, <3>1, <3>2
  <2> QED BY <2>1, <2>2
<1> QED BY <1>4, <1>11, <1>12, <1>13, <1>14 DEF ListIs, new, p0, v

-----------------------------------------------------------------------------
(* Ini files: the entries that lines of a file make.                       *)

\* Line k is the first of its name.
FirstLine(f, k) == \A j \in 1 .. k - 1 : NameOf(f, j) # NameOf(f, k)

\* Line k makes an entry of its own.
OpensLine(f, k) == ~Assigns(f, k) \/ FirstLine(f, k)

\* Line k makes the list that assignments to its name go to.
Gathers(f, k) == FirstLine(f, k) /\ (Assigns(f, k) \/ IsList(f, k))

\* e is what line k and those after it say.
Renders(f, k, e, n) ==
  /\ e.name = NameOf(f, k) /\ e.at = LineOf(f, k).at
  /\ IF Gathers(f, k) THEN e.value.type = "list" /\ ListIs(f, k, e.value.list, n)
     ELSE e.value = LineOf(f, k).value

\* The entries are those of n lines, the i-th that of line m[i].
MadeOf(f, m, es, n) ==
  /\ m \in [1 .. Len(es) -> 1 .. n]
  /\ \A i, j \in 1 .. Len(es) : i < j => m[i] < m[j]
  /\ \A i \in 1 .. Len(es) : OpensLine(f, m[i])
  /\ \A k \in 1 .. n : OpensLine(f, k) => \E i \in 1 .. Len(es) : m[i] = k
  /\ \A i \in 1 .. Len(es) : Renders(f, m[i], es[i], n)

\* The entries are what n lines mean.
Meant(f, es, n) == \E m : MadeOf(f, m, es, n)

\* The entries that lines of a file can make.
EntrySet(f) ==
  {e \in [name  : {NameOf(f, k) : k \in 1 .. Len(f)},
          at    : Ids,
          value : {LineOf(f, k).value : k \in 1 .. Len(f)} \cup {Ini!ListOf(l) : l \in Seq(Value)}] :
     Shaped(e)}

\* An entry with a list for its value.
WithList(e, list) == [name |-> e.name, at |-> e.at, value |-> Ini!ListOf(list)]

\* A line makes such an entry.
LEMMA LineEntry ==
  ASSUME NEW f \in Seq(Ini!IniLines), NEW k \in 1 .. Len(f)
  PROVE  LineOf(f, k) \in EntrySet(f)
<1> DEFINE e == LineOf(f, k)
<1>1. Shaped(e) /\ e.name = NameOf(f, k)
  BY LineIs DEF NameOf
<1>2. e = [name |-> e.name, at |-> e.at, value |-> e.value] /\ e.at \in Ids
  BY <1>1 DEF Shaped
<1>3. e.name \in {NameOf(f, j) : j \in 1 .. Len(f)} /\ e.value \in {LineOf(f, j).value : j \in 1 .. Len(f)}
  BY <1>1
<1> HIDE DEF e
<1> QED BY <1>1, <1>2, <1>3 DEF EntrySet, e

\* So does an entry whose list is another.
LEMMA ListEntry ==
  ASSUME NEW f, NEW e \in EntrySet(f), NEW list \in Seq(Value)
  PROVE  /\ WithList(e, list) \in EntrySet(f)
         /\ By(WithList(e, list)) = Joined(<<e.at>>, InList(list))
<1> DEFINE r == WithList(e, list)
<1>1. /\ e.name \in {NameOf(f, j) : j \in 1 .. Len(f)} /\ e.at \in Ids
  BY DEF EntrySet
<1>2. r.name = e.name /\ r.at = e.at /\ r.value = Ini!ListOf(list)
      /\ r = [name |-> r.name, at |-> r.at, value |-> r.value]
  BY DEF WithList
<1> HIDE DEF r
<1>3. r.value.type = "list" /\ r.value.list = list
  BY <1>2 DEF Ini!ListOf
<1>4. By(r) = Joined(<<e.at>>, InList(list))
  BY <1>2, <1>3, ListBy
<1>5. By(r) \in Seq(Ids)
  <2>1. <<e.at>> \in Seq(Ids)
    BY <1>1
  <2>2. InList(list) \in Seq(Ids)
    BY InListIs
  <2> QED BY <1>4, <2>1, <2>2, SeqJoin
<1>6. Shaped(r)
  BY <1>1, <1>2, <1>3, <1>5 DEF Shaped
<1>7. r.value \in {Ini!ListOf(l) : l \in Seq(Value)}
  BY <1>2
<1> QED BY <1>1, <1>2, <1>4, <1>6, <1>7 DEF EntrySet, r

\* The first line of a name.
LEMMA FirstExists ==
  ASSUME NEW f, NEW k \in Nat \ {0}
  PROVE  \E j \in 1 .. k : FirstLine(f, j) /\ NameOf(f, j) = NameOf(f, k)
<1> DEFINE T == {j \in 1 .. k : NameOf(f, j) = NameOf(f, k)}
<1>1. T \in SUBSET Nat /\ k \in T
  OBVIOUS
<1>2. PICK j \in T : \A i \in T : j <= i
  BY <1>1, LeastExists
<1>3. ASSUME NEW i \in 1 .. j - 1 PROVE NameOf(f, i) # NameOf(f, j)
  <2>1. i \in 1 .. k /\ ~ (j <= i) /\ j \in 1 .. k /\ NameOf(f, j) = NameOf(f, k)
    BY <1>2
  <2> QED BY <1>2, <2>1
<1> QED BY <1>2, <1>3 DEF FirstLine

\* A name has one first line.
LEMMA FirstUnique ==
  ASSUME NEW f, NEW j \in Nat \ {0}, NEW k \in Nat \ {0}, FirstLine(f, j), FirstLine(f, k),
         NameOf(f, j) = NameOf(f, k)
  PROVE  j = k
<1>1. ~ (j < k)
  <2>1. j < k => j \in 1 .. k - 1
    OBVIOUS
  <2> QED BY <2>1 DEF FirstLine
<1>2. ~ (k < j)
  <2>1. k < j => k \in 1 .. j - 1
    OBVIOUS
  <2> QED BY <2>1 DEF FirstLine
<1> QED BY <1>1, <1>2

\* A line that does not assign to an entry leaves it what it was.
LEMMA StillRenders ==
  ASSUME NEW f, NEW n \in Nat, NEW k \in 1 .. n, NEW e,
         Renders(f, k, e, n), Gathers(f, k) => ~Reaches(f, n + 1, k)
  PROVE  Renders(f, k, e, n + 1)
<1>1. Gathers(f, k) => (ListIs(f, k, e.value.list, n + 1) <=> ListIs(f, k, e.value.list, n))
  BY NotReached
<1> QED BY <1>1 DEF Renders

\* The next line makes an entry of its own.
LEMMA OneEntryMore ==
  ASSUME NEW f \in Seq(Ini!IniLines), NEW n \in Nat, NEW m, NEW es \in Seq(EntrySet(f)),
         MadeOf(f, m, es, n), NEW e \in EntrySet(f), Renders(f, n + 1, e, n + 1), OpensLine(f, n + 1),
         \A i \in 1 .. Len(es) : Gathers(f, m[i]) => ~Reaches(f, n + 1, m[i])
  PROVE  Meant(f, Append(es, e), n + 1)
<1> DEFINE N == Len(es)
           all == Append(es, e)
           g == [i \in 1 .. N + 1 |-> IF i = N + 1 THEN n + 1 ELSE m[i]]
<1>1. /\ N \in Nat /\ Len(all) = N + 1 /\ all[N + 1] = e
      /\ \A i \in 1 .. N : all[i] = es[i]
  BY AppendIs
<1> HIDE DEF all
<1>2. /\ \A i \in 1 .. N : m[i] \in 1 .. n /\ OpensLine(f, m[i]) /\ Renders(f, m[i], es[i], n)
      /\ \A i, j \in 1 .. N : i < j => m[i] < m[j]
      /\ \A k \in 1 .. n : OpensLine(f, k) => \E i \in 1 .. N : m[i] = k
  BY DEF MadeOf
<1> HIDE DEF N
<1>3. g[N + 1] = n + 1 /\ \A i \in 1 .. N : g[i] = m[i] /\ i \in 1 .. N + 1 /\ i # N + 1
  BY <1>1
<1>4. g \in [1 .. N + 1 -> 1 .. n + 1]
  BY <1>1, <1>2
<1> HIDE DEF g
<1>5. 1 .. N + 1 = (1 .. N) \cup {N + 1} /\ 1 .. n + 1 = (1 .. n) \cup {n + 1}
  BY <1>1
<1>6. ASSUME NEW i \in 1 .. N + 1, NEW j \in 1 .. N + 1, i < j PROVE g[i] < g[j]
  <2>1. i \in 1 .. N
    BY <1>1, <1>6
  <2>2. CASE j \in 1 .. N
    BY <1>2, <1>3, <1>6, <2>1, <2>2
  <2>3. CASE j = N + 1
    <3>1. m[i] < n + 1
      BY <1>2, <2>1
    <3> QED BY <1>3, <2>1, <2>3, <3>1
  <2> QED BY <1>5, <2>2, <2>3
<1>7. ASSUME NEW i \in 1 .. N + 1 PROVE OpensLine(f, g[i])
  BY <1>2, <1>3, <1>5
<1>8. ASSUME NEW k \in 1 .. n + 1, OpensLine(f, k) PROVE \E i \in 1 .. N + 1 : g[i] = k
  <2>1. CASE k = n + 1
    BY <1>3, <1>5, <2>1
  <2>2. CASE k \in 1 .. n
    BY <1>2, <1>3, <1>8, <2>2
  <2> QED BY <1>5, <2>1, <2>2
<1>9. ASSUME NEW i \in 1 .. N + 1 PROVE Renders(f, g[i], all[i], n + 1)
  <2>1. CASE i = N + 1
    BY <1>1, <1>3, <2>1
  <2>2. CASE i \in 1 .. N
    <3>1. Renders(f, m[i], es[i], n + 1)
      BY <1>2, <2>2, StillRenders DEF N
    <3> QED BY <1>1, <1>3, <2>2, <3>1
  <2> QED BY <1>5, <2>1, <2>2
<1>10. MadeOf(f, g, all, n + 1)
  BY <1>1, <1>4, <1>6, <1>7, <1>8, <1>9 DEF MadeOf
<1> QED BY <1>10 DEF Meant, all

\* The next line makes none.
LEMMA NoEntryMore ==
  ASSUME NEW f \in Seq(Ini!IniLines), NEW n \in Nat, NEW m, NEW es, NEW new,
         MadeOf(f, m, es, n), ~OpensLine(f, n + 1), Len(new) = Len(es),
         \A i \in 1 .. Len(es) : Renders(f, m[i], new[i], n + 1)
  PROVE  Meant(f, new, n + 1)
<1>1. 1 .. n + 1 = (1 .. n) \cup {n + 1}
  OBVIOUS
<1>2. \A k \in 1 .. n + 1 : OpensLine(f, k) => \E i \in 1 .. Len(es) : m[i] = k
  <2>1. \A k \in 1 .. n : OpensLine(f, k) => \E i \in 1 .. Len(es) : m[i] = k
    BY DEF MadeOf
  <2> QED BY <1>1, <2>1
<1>3. m \in [1 .. Len(es) -> 1 .. n + 1]
  <2>1. m \in [1 .. Len(es) -> 1 .. n]
    BY DEF MadeOf
  <2> QED BY <1>1, <2>1
<1>4. /\ \A i, j \in 1 .. Len(es) : i < j => m[i] < m[j]
      /\ \A i \in 1 .. Len(es) : OpensLine(f, m[i])
  BY DEF MadeOf
<1>5. MadeOf(f, m, new, n + 1)
  BY <1>2, <1>3, <1>4 DEF MadeOf
<1> QED BY <1>5 DEF Meant

\* Entries of the name of line k.
SameName(f, es, k) == {i \in 1 .. Len(es) : es[i].name = NameOf(f, k)}

\* The first entry of a name is that of the first line of it.
LEMMA FirstOfName ==
  ASSUME NEW f, NEW n \in Nat, NEW m, NEW es \in Seq(EntrySet(f)), MadeOf(f, m, es, n)
  PROVE  /\ SameName(f, es, n + 1) = {} => FirstLine(f, n + 1)
         /\ SameName(f, es, n + 1) # {} => ~FirstLine(f, n + 1)
         /\ \A i \in SameName(f, es, n + 1) :
              /\ (\A j \in SameName(f, es, n + 1) : i <= j) => FirstLine(f, m[i])
              /\ FirstLine(f, m[i]) => \A j \in SameName(f, es, n + 1) : i <= j
<1> DEFINE N == Len(es)
           S == SameName(f, es, n + 1)
<1>1. /\ N \in Nat
      /\ \A i \in 1 .. N : m[i] \in 1 .. n /\ es[i].name = NameOf(f, m[i])
      /\ \A i, j \in 1 .. N : i < j => m[i] < m[j]
      /\ \A k \in 1 .. n : OpensLine(f, k) => \E i \in 1 .. N : m[i] = k
  BY ElementsOf DEF MadeOf, Renders
<1> HIDE DEF N
<1>2. S = {i \in 1 .. N : NameOf(f, m[i]) = NameOf(f, n + 1)}
  BY <1>1 DEF SameName, N
<1> HIDE DEF S
<1>3. PICK k \in 1 .. n + 1 : FirstLine(f, k) /\ NameOf(f, k) = NameOf(f, n + 1)
  BY FirstExists
<1>4. CASE k = n + 1
  <2>1. \A i \in 1 .. N : m[i] \in 1 .. n + 1 - 1
    BY <1>1
  <2>2. S = {}
    BY <1>2, <1>3, <1>4, <2>1 DEF FirstLine
  <2> QED BY <1>3, <1>4, <2>2 DEF S
<1>5. CASE k # n + 1
  <2>1. k \in 1 .. n /\ OpensLine(f, k)
    BY <1>3, <1>5 DEF OpensLine
  <2>2. PICK i0 \in 1 .. N : m[i0] = k
    BY <1>1, <2>1
  <2>3. i0 \in S
    BY <1>2, <1>3, <2>2
  <2>4. ~FirstLine(f, n + 1)
    <3>1. k \in 1 .. n + 1 - 1
      BY <2>1
    <3> QED BY <1>3, <3>1 DEF FirstLine
  <2>5. ASSUME NEW j \in S PROVE i0 <= j
    <3>1. j \in 1 .. N /\ NameOf(f, m[j]) = NameOf(f, k)
      BY <1>2, <1>3
    <3>2. ~ (m[j] < k)
      <4>1. m[j] < k => m[j] \in 1 .. k - 1
        BY <1>1, <3>1
      <4> QED BY <1>3, <3>1, <4>1 DEF FirstLine
    <3>3. ~ (j < i0)
      BY <1>1, <2>2, <3>1, <3>2
    <3> QED BY <1>1, <3>1, <3>3
  <2>6. ASSUME NEW i \in S, \A j \in S : i <= j PROVE FirstLine(f, m[i])
    <3>1. i <= i0 /\ i0 <= i /\ i \in 1 .. N
      BY <1>2, <2>3, <2>5, <2>6
    <3>2. i = i0
      BY <1>1, <3>1
    <3> QED BY <1>3, <2>2, <3>2
  <2>7. ASSUME NEW i \in S, FirstLine(f, m[i]) PROVE \A j \in S : i <= j
    <3>1. i \in 1 .. N /\ NameOf(f, m[i]) = NameOf(f, k)
      BY <1>2, <1>3
    <3>2. m[i] = k
      <4>1. m[i] \in Nat \ {0} /\ k \in Nat \ {0}
        BY <1>1, <3>1
      <4> QED BY <1>3, <2>7, <3>1, <4>1, FirstUnique
    <3>3. ~ (i < i0) /\ ~ (i0 < i)
      <4>1. m[i0] \in Nat /\ ~ (m[i0] < m[i]) /\ ~ (m[i] < m[i0])
        BY <1>1, <2>2, <3>2
      <4> QED BY <1>1, <3>1, <4>1
    <3>4. i = i0
      BY <1>1, <3>1, <3>3
    <3> QED BY <2>5, <3>4
  <2> QED BY <2>3, <2>4, <2>6, <2>7 DEF S
<1> QED BY <1>4, <1>5

(* The four things ini_parse does with an entry.                           *)

\* An entry without a position is added.
LEMMA PlainMeant ==
  ASSUME NEW f \in Seq(Ini!IniLines), NEW n \in Nat, n + 1 \in 1 .. Len(f),
         NEW es \in Seq(EntrySet(f)), Meant(f, es, n), ~Assigns(f, n + 1)
  PROVE  Meant(f, Append(es, LineOf(f, n + 1)), n + 1)
<1>1. PICK m : MadeOf(f, m, es, n)
  BY DEF Meant
<1> DEFINE e == LineOf(f, n + 1)
<1>2. e \in EntrySet(f) /\ OpensLine(f, n + 1)
  BY LineEntry DEF OpensLine
<1>3. Renders(f, n + 1, e, n + 1)
  <2>1. CASE Gathers(f, n + 1)
    <3>1. IsList(f, n + 1)
      BY <2>1 DEF Gathers
    <3>2. ListIs(f, n + 1, GivenBy(f, n + 1), n + 1)
      BY <3>1, GivenList
    <3> QED BY <2>1, <3>1, <3>2 DEF Renders, NameOf, GivenBy, IsList
  <2>2. CASE ~Gathers(f, n + 1)
    BY <2>2 DEF Renders, NameOf
  <2> QED BY <2>1, <2>2
<1>4. \A k : ~Reaches(f, n + 1, k)
  BY DEF Reaches
<1> HIDE DEF e
<1>5. Meant(f, Append(es, e), n + 1)
  BY <1>1, <1>2, <1>3, <1>4, OneEntryMore
<1> QED BY <1>5 DEF e

\* The first of a name opens a list.
LEMMA NewListMeant ==
  ASSUME NEW f \in Seq(Ini!IniLines), NEW n \in Nat, n + 1 \in 1 .. Len(f),
         NEW es \in Seq(EntrySet(f)), Meant(f, es, n), Assigns(f, n + 1), SameName(f, es, n + 1) = {}
  PROVE  Meant(f, Append(es, WithList(LineOf(f, n + 1),
                                      Assigned(<<>>, PosOf(f, n + 1), ValueOf(f, n + 1)))), n + 1)
<1>1. PICK m : MadeOf(f, m, es, n)
  BY DEF Meant
<1> DEFINE list == Assigned(<<>>, PosOf(f, n + 1), ValueOf(f, n + 1))
           e == WithList(LineOf(f, n + 1), list)
<1>2. list \in Seq(Value)
  <2>1. <<>> \in Seq(Value)
    OBVIOUS
  <2>2. PosOf(f, n + 1) \in Nat /\ ValueOf(f, n + 1) \in Value
    BY LineIs
  <2> QED BY <2>1, <2>2, AssignedIs
<1>3. ListIs(f, n + 1, list, n + 1)
  BY NewList
<1> HIDE DEF list
<1>4. e \in EntrySet(f)
  BY <1>2, LineEntry, ListEntry
<1>5. FirstLine(f, n + 1) /\ OpensLine(f, n + 1) /\ Gathers(f, n + 1)
  BY <1>1, FirstOfName DEF OpensLine, Gathers
<1>6. Renders(f, n + 1, e, n + 1)
  BY <1>3, <1>5 DEF Renders, WithList, Ini!ListOf, NameOf
<1>7. ASSUME NEW i \in 1 .. Len(es) PROVE ~Reaches(f, n + 1, m[i])
  <2>1. es[i].name = NameOf(f, m[i])
    BY <1>1 DEF MadeOf, Renders
  <2>2. es[i].name # NameOf(f, n + 1)
    BY DEF SameName
  <2> QED BY <2>1, <2>2 DEF Reaches
<1> HIDE DEF e
<1>8. Meant(f, Append(es, e), n + 1)
  BY <1>1, <1>4, <1>5, <1>6, <1>7, OneEntryMore
<1> QED BY <1>8 DEF e, list

\* An assignment changes the list of its name.
LEMMA IntoListMeant ==
  ASSUME NEW f \in Seq(Ini!IniLines), NEW n \in Nat, n + 1 \in 1 .. Len(f),
         NEW es \in Seq(EntrySet(f)), Meant(f, es, n), Assigns(f, n + 1),
         NEW i0 \in SameName(f, es, n + 1), \A j \in SameName(f, es, n + 1) : i0 <= j,
         es[i0].value.type = "list", NEW new, Len(new) = Len(es),
         \A i \in 1 .. Len(es) :
           new[i] =
             IF i = i0
             THEN WithList(es[i], Assigned(es[i].value.list, PosOf(f, n + 1), ValueOf(f, n + 1)))
             ELSE es[i]
  PROVE  Meant(f, new, n + 1)
<1>1. PICK m : MadeOf(f, m, es, n)
  BY DEF Meant
<1> DEFINE N == Len(es)
<1>2. /\ N \in Nat
      /\ \A i \in 1 .. N : m[i] \in 1 .. n /\ es[i] \in EntrySet(f) /\ Renders(f, m[i], es[i], n)
  BY <1>1, ElementsOf DEF MadeOf
<1>3. FirstLine(f, m[i0]) /\ ~FirstLine(f, n + 1) /\ ~OpensLine(f, n + 1)
  BY <1>1, FirstOfName DEF OpensLine
<1>4. i0 \in 1 .. N /\ es[i0].name = NameOf(f, n + 1)
  BY DEF SameName
<1>5. Gathers(f, m[i0])
  <2> SUFFICES ASSUME ~Gathers(f, m[i0]) PROVE FALSE
    OBVIOUS
  <2>1. es[i0].value = LineOf(f, m[i0]).value
    BY <1>2, <1>4 DEF Renders
  <2> QED BY <1>3, <2>1 DEF Gathers, IsList
<1> HIDE DEF N
<1>6. ASSUME NEW i \in 1 .. N PROVE Renders(f, m[i], new[i], n + 1)
  <2>1. CASE i = i0
    <3> DEFINE list == es[i0].value.list
               list2 == Assigned(list, PosOf(f, n + 1), ValueOf(f, n + 1))
    <3>1. ListIs(f, m[i0], list, n) /\ es[i0].name = NameOf(f, m[i0]) /\ es[i0].at = LineOf(f, m[i0]).at
      BY <1>2, <1>4, <1>5 DEF Renders
    <3>2. list \in Seq(Value)
      BY <1>2, <1>4 DEF EntrySet, Shaped
    <3>3. Reaches(f, n + 1, m[i0])
      BY <1>4, <3>1 DEF Reaches
    <3>4. Assigns(f, m[i0]) \/ IsList(f, m[i0])
      BY <1>5 DEF Gathers
    <3> HIDE DEF list
    <3>5. ListIs(f, m[i0], list2, n + 1)
      BY <1>2, <1>4, <3>1, <3>2, <3>3, <3>4, IntoList
    <3>6. new[i0] = WithList(es[i0], list2)
      BY <1>4 DEF list, N
    <3> HIDE DEF list2
    <3>7. new[i0].name = es[i0].name /\ new[i0].at = es[i0].at /\ new[i0].value.type = "list"
          /\ new[i0].value.list = list2
      BY <3>6 DEF WithList, Ini!ListOf
    <3> QED BY <1>5, <2>1, <3>1, <3>5, <3>7 DEF Renders
  <2>2. CASE i # i0
    <3>1. new[i] = es[i]
      BY <2>2 DEF N
    <3>2. Gathers(f, m[i]) => ~Reaches(f, n + 1, m[i])
      <4> SUFFICES ASSUME Gathers(f, m[i]), Reaches(f, n + 1, m[i]) PROVE FALSE
        OBVIOUS
      <4>1. i \in SameName(f, es, n + 1)
        BY <1>2 DEF SameName, Reaches, Renders, N
      <4>2. FirstLine(f, m[i])
        BY DEF Gathers
      <4>3. i <= i0 /\ i0 <= i
        BY <1>1, <4>1, <4>2, FirstOfName
      <4> QED BY <1>2, <1>4, <2>2, <4>3
    <3> QED BY <1>2, <3>1, <3>2, StillRenders
  <2> QED BY <2>1, <2>2
<1> QED BY <1>1, <1>3, <1>6, NoEntryMore DEF N

\* An assignment to what is no list changes nothing.
LEMMA IgnoredMeant ==
  ASSUME NEW f \in Seq(Ini!IniLines), NEW n \in Nat, n + 1 \in 1 .. Len(f),
         NEW es \in Seq(EntrySet(f)), Meant(f, es, n), Assigns(f, n + 1),
         NEW i0 \in SameName(f, es, n + 1), \A j \in SameName(f, es, n + 1) : i0 <= j,
         es[i0].value.type # "list"
  PROVE  Meant(f, es, n + 1)
<1>1. PICK m : MadeOf(f, m, es, n)
  BY DEF Meant
<1>2. \A i \in 1 .. Len(es) : m[i] \in 1 .. n /\ Renders(f, m[i], es[i], n)
  BY <1>1 DEF MadeOf
<1>3. ~OpensLine(f, n + 1)
  BY <1>1, FirstOfName DEF OpensLine
<1>4. ASSUME NEW i \in 1 .. Len(es) PROVE Renders(f, m[i], es[i], n + 1)
  <2>1. Gathers(f, m[i]) => ~Reaches(f, n + 1, m[i])
    <3> SUFFICES ASSUME Gathers(f, m[i]), Reaches(f, n + 1, m[i]) PROVE FALSE
      OBVIOUS
    <3>1. i \in SameName(f, es, n + 1)
      BY <1>2 DEF SameName, Reaches, Renders
    <3>2. FirstLine(f, m[i])
      BY DEF Gathers
    <3>3. i <= i0 /\ i0 <= i
      BY <1>1, <3>1, <3>2, FirstOfName
    <3>4. i = i0
      BY <3>1, <3>3, ElementsOf DEF SameName
    <3>5. es[i].value.type = "list"
      BY <1>2 DEF Renders
    <3> QED BY <3>4, <3>5
  <2> QED BY <1>2, <2>1, StillRenders
<1> QED BY <1>1, <1>3, <1>4, NoEntryMore

-----------------------------------------------------------------------------
(* Ini files: each string in one place.                                    *)

\* The strings of the first n lines.
Taken(f, n) == UNION {Strs(LineOf(f, k)) : k \in 1 .. n}

\* What the entries hold that are not freed.
Held(es, c) == UNION {Strs(es[i]) : i \in c + 1 .. Len(es)}

\* They share no string.
Apart(es, c) ==
  /\ \A i \in c + 1 .. Len(es) : Once(By(es[i]))
  /\ \A i, j \in c + 1 .. Len(es) : i # j => Strs(es[i]) \cap Strs(es[j]) = {}

(* Every string is held by one entry, or was freed once, or is lost.       *)
Shared(f, es, c, fr, lo, n) ==
  /\ Apart(es, c) /\ Once(fr) /\ Elements(fr) \cap lo = {}
  /\ Held(es, c) \cap (Elements(fr) \cup lo) = {}
  /\ Elements(fr) \cup lo \cup Held(es, c) = Taken(f, n)

\* The strings of the next line are new.
LEMMA NextTaken ==
  ASSUME NEW f \in Seq(Ini!IniLines), Ini!OwnsItsStrings(f), NEW n \in Nat, n + 1 \in 1 .. Len(f)
  PROVE  /\ Once(By(LineOf(f, n + 1)))
         /\ Strs(LineOf(f, n + 1)) \cap Taken(f, n) = {}
         /\ Taken(f, n + 1) = Taken(f, n) \cup Strs(LineOf(f, n + 1))
<1>1. DOMAIN f = 1 .. Len(f) /\ Len(f) \in Nat
  BY ElementsOf
<1>2. /\ \A k \in 1 .. Len(f) : Once(By(LineOf(f, k)))
      /\ \A j, k \in 1 .. Len(f) : j # k => Strs(LineOf(f, j)) \cap Strs(LineOf(f, k)) = {}
  <2>1. \A j, k \in 1 .. Len(f) :
          /\ Ini!IsInjective(By(LineOf(f, k)))
          /\ j # k => Ini!StringsOf(LineOf(f, j)) \cap Ini!StringsOf(LineOf(f, k)) = {}
    BY <1>1, Zenon DEF Ini!OwnsItsStrings, LineOf, By
  <2>2. \A e : Ini!StringsOf(e) = Strs(e)
    BY DEF Ini!StringsOf, Ini!ToSet, Strs, Elements, By
  <2>3. \A s : Ini!IsInjective(s) <=> Once(s)
    BY DEF Ini!IsInjective, Once
  <2> QED BY <2>1, <2>2, <2>3
<1>3. 1 .. n + 1 = (1 .. n) \cup {n + 1}
  OBVIOUS
<1>4. \A k \in 1 .. n : k \in 1 .. Len(f) /\ k # n + 1
  BY <1>1
<1>5. Strs(LineOf(f, n + 1)) \cap Taken(f, n) = {}
  BY <1>2, <1>4 DEF Taken
<1>6. Taken(f, n + 1) = Taken(f, n) \cup Strs(LineOf(f, n + 1))
  BY <1>3 DEF Taken
<1> QED BY <1>2, <1>5, <1>6

\* An entry more.
LEMMA HeldAppend ==
  ASSUME NEW f, NEW es \in Seq(EntrySet(f)), NEW e \in EntrySet(f), NEW c \in 0 .. Len(es)
  PROVE  /\ Held(Append(es, e), c) = Held(es, c) \cup Strs(e)
         /\ Apart(es, c) /\ Once(By(e)) /\ Strs(e) \cap Held(es, c) = {} => Apart(Append(es, e), c)
<1> DEFINE N == Len(es)
           all == Append(es, e)
<1>1. /\ N \in Nat /\ Len(all) = N + 1 /\ all[N + 1] = e
      /\ \A i \in 1 .. N : all[i] = es[i]
  BY AppendIs
<1> HIDE DEF all, N
<1>2. c + 1 .. N + 1 = (c + 1 .. N) \cup {N + 1} /\ N + 1 \notin c + 1 .. N
      /\ \A i \in c + 1 .. N : i \in 1 .. N
  BY <1>1 DEF N
<1>3. \A i \in c + 1 .. N : all[i] = es[i]
  BY <1>1, <1>2
<1>4. Held(all, c) = Held(es, c) \cup Strs(e)
  BY <1>1, <1>2, <1>3 DEF Held, N
<1>5. ASSUME Apart(es, c), Once(By(e)), Strs(e) \cap Held(es, c) = {} PROVE Apart(all, c)
  <2>1. \A i \in c + 1 .. N : Strs(e) \cap Strs(es[i]) = {}
    BY <1>5 DEF Held, N
  <2>2. \A i \in c + 1 .. N : Once(By(es[i]))
    BY <1>5 DEF Apart, N
  <2>3. \A i, j \in c + 1 .. N : i # j => Strs(es[i]) \cap Strs(es[j]) = {}
    BY <1>5 DEF Apart, N
  <2>4. \A i \in c + 1 .. N + 1 : Once(By(all[i]))
    BY <1>1, <1>2, <1>3, <1>5, <2>2
  <2>5. \A i, j \in c + 1 .. N + 1 : i # j => Strs(all[i]) \cap Strs(all[j]) = {}
    BY <1>1, <1>2, <1>3, <2>1, <2>3
  <2> QED BY <1>1, <2>4, <2>5 DEF Apart
<1> QED BY <1>4, <1>5 DEF all

\* An entry that lost the strings of L, and got those of V.
LEMMA HeldReplaced ==
  ASSUME NEW es, NEW new, NEW i0 \in 1 .. Len(es), Len(new) = Len(es),
         \A i \in 1 .. Len(es) : i # i0 => new[i] = es[i],
         Apart(es, 0), Once(By(new[i0])), NEW L, NEW V, L \subseteq Strs(es[i0]),
         Strs(new[i0]) = (Strs(es[i0]) \ L) \cup V, V \cap Held(es, 0) = {}
  PROVE  /\ Apart(new, 0)
         /\ \A x : x \in Held(new, 0) <=> (x \in Held(es, 0) /\ x \notin L) \/ x \in V
<1> DEFINE N == Len(es)
<1>1. /\ \A i \in 1 .. N : Once(By(es[i]))
      /\ \A i, j \in 1 .. N : i # j => Strs(es[i]) \cap Strs(es[j]) = {}
      /\ Held(es, 0) = UNION {Strs(es[i]) : i \in 1 .. N}
      /\ Held(new, 0) = UNION {Strs(new[i]) : i \in 1 .. N}
  BY DEF Apart, Held
<1> HIDE DEF N
<1>2. \A i \in 1 .. N : i # i0 => new[i] = es[i]
  BY DEF N
<1>3. i0 \in 1 .. N
  BY DEF N
<1>4. \A i \in 1 .. N : V \cap Strs(es[i]) = {}
  BY <1>1
<1>5. \A i \in 1 .. N : Once(By(new[i]))
  BY <1>1, <1>2
<1>6. \A i, j \in 1 .. N : i # j => Strs(new[i]) \cap Strs(new[j]) = {}
  <2> SUFFICES ASSUME NEW i \in 1 .. N, NEW j \in 1 .. N, i # j
               PROVE  Strs(new[i]) \cap Strs(new[j]) = {}
    OBVIOUS
  <2>1. CASE i = i0
    BY <1>1, <1>2, <1>4, <2>1
  <2>2. CASE j = i0
    BY <1>1, <1>2, <1>4, <2>2
  <2>3. CASE i # i0 /\ j # i0
    BY <1>1, <1>2, <2>3
  <2> QED BY <2>1, <2>2, <2>3
<1>7. Apart(new, 0)
  BY <1>5, <1>6 DEF Apart, N
<1>8. Held(new, 0) \subseteq (Held(es, 0) \ L) \cup V
  <2> SUFFICES ASSUME NEW i \in 1 .. N, NEW x \in Strs(new[i])
               PROVE  x \in (Held(es, 0) \ L) \cup V
    BY <1>1
  <2>1. CASE i = i0
    BY <1>1, <2>1
  <2>2. CASE i # i0
    <3>1. x \in Strs(es[i]) /\ x \notin L
      BY <1>1, <1>2, <1>3, <2>2
    <3> QED BY <1>1, <3>1
  <2> QED BY <2>1, <2>2
<1>9. (Held(es, 0) \ L) \cup V \subseteq Held(new, 0)
  <2>1. V \subseteq Held(new, 0)
    BY <1>1, <1>3
  <2>2. ASSUME NEW i \in 1 .. N, NEW x \in Strs(es[i]), x \notin L PROVE x \in Held(new, 0)
    <3>1. CASE i = i0
      BY <1>1, <2>2, <3>1
    <3>2. CASE i # i0
      BY <1>1, <1>2, <2>2, <3>2
    <3> QED BY <3>1, <3>2
  <2> QED BY <1>1, <2>1, <2>2
<1> QED BY <1>7, <1>8, <1>9

\* An entry less.
LEMMA HeldFreed ==
  ASSUME NEW es, Len(es) \in Nat, NEW c \in Nat, c < Len(es), Apart(es, c)
  PROVE  /\ Once(By(es[c + 1])) /\ Apart(es, c + 1)
         /\ Held(es, c) = Held(es, c + 1) \cup Strs(es[c + 1])
         /\ Strs(es[c + 1]) \cap Held(es, c + 1) = {}
<1> DEFINE N == Len(es)
           T == c + 1 + 1 .. N
<1>1. c + 1 .. N = T \cup {c + 1} /\ c + 1 \notin T
  OBVIOUS
<1>2. /\ \A i \in c + 1 .. N : Once(By(es[i]))
      /\ \A i, j \in c + 1 .. N : i # j => Strs(es[i]) \cap Strs(es[j]) = {}
  BY DEF Apart
<1> HIDE DEF N, T
<1>3. Once(By(es[c + 1]))
  BY <1>1, <1>2
<1>4. (\A i \in T : Once(By(es[i]))) /\ \A i, j \in T : i # j => Strs(es[i]) \cap Strs(es[j]) = {}
  BY <1>1, <1>2
<1>5. Apart(es, c + 1)
  BY <1>4 DEF Apart, T, N
<1>6. Held(es, c) = UNION {Strs(es[i]) : i \in c + 1 .. N} /\ Held(es, c + 1) = UNION {Strs(es[i]) : i \in T}
  BY DEF Held, T, N
<1>7. Held(es, c) = Held(es, c + 1) \cup Strs(es[c + 1])
  BY <1>1, <1>6
<1>8. \A i \in T : Strs(es[c + 1]) \cap Strs(es[i]) = {}
  BY <1>1, <1>2
<1>9. Strs(es[c + 1]) \cap Held(es, c + 1) = {}
  BY <1>6, <1>8
<1> QED BY <1>3, <1>5, <1>7, <1>9

\* A string more.
LEMMA OneString ==
  ASSUME NEW S, NEW s \in Seq(S), NEW x \in S
  PROVE  /\ Elements(<<x>>) = {x} /\ Once(<<x>>) /\ <<x>> \in Seq(S)
         /\ Append(s, x) \in Seq(S)
         /\ Elements(Append(s, x)) = Elements(s) \cup {x}
         /\ Once(Append(s, x)) <=> Once(s) /\ x \notin Elements(s)
<1>1. Elements(<<x>>) = {x} /\ Once(<<x>>)
  <2>1. DOMAIN <<x>> = {1} /\ <<x>>[1] = x
    OBVIOUS
  <2> QED BY <2>1 DEF Elements, Once
<1>2. <<x>> \in Seq(S) /\ Append(s, x) \in Seq(S)
  OBVIOUS
<1>3. Append(s, x) = Joined(s, <<x>>)
  BY DEF Joined
<1> DEFINE one == <<x>>
<1>4. one \in Seq(S) /\ Elements(one) = {x} /\ Once(one) /\ Append(s, x) = Joined(s, one)
  BY <1>1, <1>2, <1>3
<1> HIDE DEF one
<1>5. Elements(Joined(s, one)) = Elements(s) \cup Elements(one)
  BY <1>4, JoinElements
<1>6. Once(Joined(s, one)) <=> Once(s) /\ Once(one) /\ Elements(s) \cap Elements(one) = {}
  BY <1>4, JoinElements
<1>7. Elements(Append(s, x)) = Elements(s) \cup {x} /\ (Once(Append(s, x)) <=> Once(s) /\ x \notin Elements(s))
  BY <1>4, <1>5, <1>6
<1> QED BY <1>1, <1>2, <1>7

\* A name, and the strings after it.
LEMMA NameFirst ==
  ASSUME NEW x \in Ids, NEW s \in Seq(Ids)
  PROVE  /\ Elements(Joined(<<x>>, s)) = {x} \cup Elements(s)
         /\ Once(Joined(<<x>>, s)) <=> Once(s) /\ x \notin Elements(s)
<1> DEFINE one == <<x>>
<1>1. one \in Seq(Ids) /\ Elements(one) = {x} /\ Once(one)
  BY OneString
<1> HIDE DEF one
<1>2. Elements(Joined(one, s)) = Elements(one) \cup Elements(s)
  BY <1>1, JoinElements
<1>3. Once(Joined(one, s)) <=> Once(one) /\ Once(s) /\ Elements(one) \cap Elements(s) = {}
  BY <1>1, JoinElements
<1>4. Elements(Joined(one, s)) = {x} \cup Elements(s) /\ (Once(Joined(one, s)) <=> Once(s) /\ x \notin Elements(s))
  BY <1>1, <1>2, <1>3
<1> QED BY <1>4 DEF one

\* What an entry with a list holds: its name, and the strings of the list.
LEMMA ListHolds ==
  ASSUME NEW f, NEW e \in EntrySet(f), NEW list \in Seq(Value)
  PROVE  /\ Strs(WithList(e, list)) = {e.at} \cup Elements(InList(list))
         /\ Once(By(WithList(e, list))) <=> Once(InList(list)) /\ e.at \notin Elements(InList(list))
<1>1. By(WithList(e, list)) = Joined(<<e.at>>, InList(list))
  BY ListEntry
<1>2. e.at \in Ids
  BY DEF EntrySet
<1>3. InList(list) \in Seq(Ids)
  BY InListIs
<1> QED BY <1>1, <1>2, <1>3, NameFirst DEF Strs

\* What an assignment holds: its name, and the strings of its value.
LEMMA AssignHolds ==
  ASSUME NEW f \in Seq(Ini!IniLines), NEW k \in 1 .. Len(f), Assigns(f, k)
  PROVE  LET e == LineOf(f, k)
             v == ValueOf(f, k)
         IN  /\ e.at \in Ids /\ Strs(e) = {e.at} \cup Elements(OfValue(v))
             /\ Once(By(e)) <=> Once(OfValue(v)) /\ e.at \notin Elements(OfValue(v))
<1> DEFINE e == LineOf(f, k)
           v == ValueOf(f, k)
<1>1. By(e) = Joined(<<e.at>>, OfValue(v)) /\ e.at \in Ids /\ v \in Value
  BY LineIs DEF Shaped, Assigns, ValueOf
<1> HIDE DEF e, v
<1>2. OfValue(v) \in Seq(Ids)
  BY <1>1, OfValueIs
<1>3. /\ Elements(By(e)) = {e.at} \cup Elements(OfValue(v))
      /\ Once(By(e)) <=> Once(OfValue(v)) /\ e.at \notin Elements(OfValue(v))
  BY <1>1, <1>2, NameFirst
<1> QED BY <1>1, <1>3 DEF Strs, e, v

\* The strings of a line go to a new entry.
LEMMA AppendShared ==
  ASSUME NEW f \in Seq(Ini!IniLines), Ini!OwnsItsStrings(f), NEW n \in Nat, n + 1 \in 1 .. Len(f),
         NEW es \in Seq(EntrySet(f)), NEW fr, NEW lo, Shared(f, es, 0, fr, lo, n),
         NEW e \in EntrySet(f), Once(By(e)), Strs(e) = Strs(LineOf(f, n + 1))
  PROVE  Shared(f, Append(es, e), 0, fr, lo, n + 1)
<1>1. /\ Strs(e) \cap Taken(f, n) = {}
      /\ Taken(f, n + 1) = Taken(f, n) \cup Strs(e)
  BY NextTaken
<1>2. Elements(fr) \cup lo \cup Held(es, 0) = Taken(f, n)
  BY DEF Shared
<1>3. 0 \in 0 .. Len(es)
  BY ElementsOf
<1>4. Held(Append(es, e), 0) = Held(es, 0) \cup Strs(e)
  BY <1>3, HeldAppend
<1>5. Apart(es, 0) /\ Strs(e) \cap Held(es, 0) = {}
  BY <1>1, <1>2 DEF Shared
<1>6. Apart(Append(es, e), 0)
  BY <1>3, <1>5, HeldAppend
<1> QED BY <1>1, <1>2, <1>4, <1>6 DEF Shared

\* The new list holds what its line did.
LEMMA NewListHolds ==
  ASSUME NEW f \in Seq(Ini!IniLines), Ini!OwnsItsStrings(f), NEW n \in Nat, n + 1 \in 1 .. Len(f),
         Assigns(f, n + 1)
  PROVE  LET e == WithList(LineOf(f, n + 1), Assigned(<<>>, PosOf(f, n + 1), ValueOf(f, n + 1)))
         IN  /\ e \in EntrySet(f) /\ Once(By(e)) /\ Strs(e) = Strs(LineOf(f, n + 1))
<1> DEFINE l == LineOf(f, n + 1)
           v == ValueOf(f, n + 1)
           p == PosOf(f, n + 1)
           none == <<>>
           list == Assigned(none, p, v)
<1>1. l \in EntrySet(f) /\ p \in Nat /\ v \in Value
  BY LineEntry, LineIs
<1>2. Once(By(l)) /\ Strs(l) = {l.at} \cup Elements(OfValue(v))
      /\ Once(OfValue(v)) /\ l.at \notin Elements(OfValue(v))
  BY NextTaken, AssignHolds
<1>3. none \in Seq(Value) /\ Len(none) = 0 /\ 1 .. Len(none) = {}
  OBVIOUS
<1> HIDE DEF l, v, p, none
<1>4. Elements(InList(none)) = {} /\ Once(InList(none))
  BY <1>3, InListIs
<1>5. LostAt(none, p) = {}
  BY <1>3 DEF LostAt
<1>6. Once(InList(list)) /\ Elements(InList(list)) = Elements(OfValue(v))
  <2>1. Elements(OfValue(v)) \cap Elements(InList(none)) = {}
    BY <1>4
  <2>2. /\ Once(InList(list))
        /\ Elements(InList(list)) = (Elements(InList(none)) \ LostAt(none, p)) \cup Elements(OfValue(v))
    BY <1>1, <1>2, <1>3, <1>4, <2>1, AssignedStrings
  <2> QED BY <1>4, <1>5, <2>2
<1>7. list \in Seq(Value)
  BY <1>1, <1>3, AssignedIs
<1> HIDE DEF list
<1>8. WithList(l, list) \in EntrySet(f)
  BY <1>1, <1>7, ListEntry
<1>9. Strs(WithList(l, list)) = {l.at} \cup Elements(InList(list))
      /\ (Once(By(WithList(l, list))) <=> Once(InList(list)) /\ l.at \notin Elements(InList(list)))
  BY <1>1, <1>7, ListHolds
<1>10. Once(By(WithList(l, list))) /\ Strs(WithList(l, list)) = Strs(l)
  BY <1>2, <1>6, <1>9
<1> QED BY <1>8, <1>10 DEF l, v, p, none, list

\* They go to the list, the name is freed, what was there is lost.
LEMMA IntoListShared ==
  ASSUME NEW f \in Seq(Ini!IniLines), Ini!OwnsItsStrings(f), NEW n \in Nat, n + 1 \in 1 .. Len(f),
         NEW es \in Seq(EntrySet(f)), NEW fr \in Seq(Ids), NEW lo, Shared(f, es, 0, fr, lo, n),
         Assigns(f, n + 1), NEW i0 \in 1 .. Len(es), es[i0].value.type = "list",
         NEW new, Len(new) = Len(es),
         \A i \in 1 .. Len(es) :
           new[i] =
             IF i = i0
             THEN WithList(es[i], Assigned(es[i].value.list, PosOf(f, n + 1), ValueOf(f, n + 1)))
             ELSE es[i]
  PROVE  Shared(f, new, 0, Append(fr, LineOf(f, n + 1).at),
                lo \cup LostAt(es[i0].value.list, PosOf(f, n + 1)), n + 1)
<1> DEFINE l == LineOf(f, n + 1)
           v == ValueOf(f, n + 1)
           p == PosOf(f, n + 1)
           e == es[i0]
           list == e.value.list
           list2 == Assigned(list, p, v)
           V == Elements(OfValue(v))
           L == LostAt(list, p)
           a == l.at
<1>1. p \in Nat /\ v \in Value
  BY LineIs
<1>2. /\ a \in Ids /\ Strs(l) = {a} \cup V /\ Once(OfValue(v)) /\ a \notin V
      /\ Strs(l) \cap Taken(f, n) = {} /\ Taken(f, n + 1) = Taken(f, n) \cup Strs(l)
  BY NextTaken, AssignHolds
<1>3. e \in EntrySet(f)
  BY ElementsOf
<1>4. list \in Seq(Value) /\ e = WithList(e, list)
  BY <1>3 DEF EntrySet, Shaped, WithList
<1>5. new[i0] = WithList(e, list2) /\ \A i \in 1 .. Len(es) : i # i0 => new[i] = es[i]
  OBVIOUS
<1>6. /\ Apart(es, 0) /\ Once(fr) /\ Elements(fr) \cap lo = {}
      /\ Held(es, 0) \cap (Elements(fr) \cup lo) = {}
      /\ Elements(fr) \cup lo \cup Held(es, 0) = Taken(f, n)
  BY DEF Shared
<1>7. Once(By(e)) /\ Strs(e) \subseteq Held(es, 0)
  BY <1>6 DEF Apart, Held
<1> HIDE DEF l, v, p, e
<1>8. Strs(e) = {e.at} \cup Elements(InList(list)) /\ Once(InList(list)) /\ e.at \notin Elements(InList(list))
  <2> DEFINE w == list
  <2>1. w \in Seq(Value) /\ e = WithList(e, w)
    BY <1>4
  <2> HIDE DEF w
  <2>2. Strs(e) = {e.at} \cup Elements(InList(w)) /\ Once(InList(w)) /\ e.at \notin Elements(InList(w))
    BY <1>3, <1>7, <2>1, ListHolds
  <2> QED BY <2>2 DEF w
<1> HIDE DEF list
<1>9. /\ V \cap Elements(InList(list)) = {} /\ V \cap Held(es, 0) = {}
      /\ a \notin Held(es, 0) \cup Elements(fr) \cup lo
      /\ V \cap (Elements(fr) \cup lo) = {}
  BY <1>2, <1>6, <1>7, <1>8
<1>10. /\ Once(InList(list2)) /\ L \subseteq Elements(InList(list))
       /\ Elements(InList(list2)) = (Elements(InList(list)) \ L) \cup V
  BY <1>1, <1>2, <1>4, <1>8, <1>9, AssignedStrings
<1>11. list2 \in Seq(Value)
  BY <1>1, <1>4, AssignedIs
<1> HIDE DEF list2, L, V, a
<1>12. Strs(new[i0]) = {e.at} \cup Elements(InList(list2))
       /\ (Once(By(new[i0])) <=> Once(InList(list2)) /\ e.at \notin Elements(InList(list2)))
  BY <1>3, <1>5, <1>11, ListHolds
<1>13. e.at \notin V
  BY <1>7, <1>8, <1>9
<1>14. Once(By(new[i0])) /\ Strs(new[i0]) = (Strs(e) \ L) \cup V /\ L \subseteq Strs(e)
  BY <1>8, <1>10, <1>12, <1>13
<1>15. Apart(new, 0) /\ Held(new, 0) = (Held(es, 0) \ L) \cup V
  <2>1. Once(By(new[i0])) /\ Strs(new[i0]) = (Strs(es[i0]) \ L) \cup V /\ L \subseteq Strs(es[i0])
    BY <1>14 DEF e
  <2>2. /\ i0 \in 1 .. Len(es) /\ Len(new) = Len(es) /\ Apart(es, 0)
        /\ \A i \in 1 .. Len(es) : i # i0 => new[i] = es[i]
    BY <1>5, <1>6
  <2>3. V \cap Held(es, 0) = {}
    BY <1>9
  <2>4. Apart(new, 0)
    BY <2>1, <2>2, <2>3, HeldReplaced
  <2>5. Held(new, 0) = (Held(es, 0) \ L) \cup V
    <3>1. \A x : x \in Held(new, 0) <=> (x \in Held(es, 0) /\ x \notin L) \/ x \in V
      BY <2>1, <2>2, <2>3, HeldReplaced
    <3> QED BY <3>1
  <2> QED BY <2>4, <2>5
<1>16. Elements(Append(fr, a)) = Elements(fr) \cup {a} /\ Once(Append(fr, a))
  BY <1>2, <1>6, <1>9, OneString
<1>17. L \subseteq Held(es, 0)
  BY <1>7, <1>14
<1>18. Elements(Append(fr, a)) \cap (lo \cup L) = {}
  BY <1>6, <1>9, <1>16, <1>17
<1>19. Held(new, 0) \cap (Elements(Append(fr, a)) \cup (lo \cup L)) = {}
  <2>1. a \notin Held(new, 0)
    BY <1>2, <1>9, <1>15
  <2>2. Held(new, 0) \cap (Elements(fr) \cup lo) = {}
    BY <1>6, <1>9, <1>15
  <2>3. Held(new, 0) \cap L = {}
    BY <1>9, <1>15, <1>17
  <2> QED BY <1>16, <2>1, <2>2, <2>3
<1>20. Elements(Append(fr, a)) \cup (lo \cup L) \cup Held(new, 0) = Taken(f, n + 1)
  BY <1>2, <1>6, <1>15, <1>16, <1>17
<1>21. Shared(f, new, 0, Append(fr, a), lo \cup L, n + 1)
  BY <1>15, <1>16, <1>18, <1>19, <1>20 DEF Shared
<1> QED BY <1>21 DEF a, l, L, list, e, p

\* They are lost.
LEMMA IgnoredShared ==
  ASSUME NEW f \in Seq(Ini!IniLines), Ini!OwnsItsStrings(f), NEW n \in Nat, n + 1 \in 1 .. Len(f),
         NEW es, NEW fr, NEW lo, Shared(f, es, 0, fr, lo, n)
  PROVE  Shared(f, es, 0, fr, lo \cup Strs(LineOf(f, n + 1)), n + 1)
<1>1. /\ Strs(LineOf(f, n + 1)) \cap Taken(f, n) = {}
      /\ Taken(f, n + 1) = Taken(f, n) \cup Strs(LineOf(f, n + 1))
  BY NextTaken
<1> QED BY <1>1 DEF Shared

\* They are freed with their entry.
LEMMA FreeShared ==
  ASSUME NEW f \in Seq(Ini!IniLines), NEW n, NEW es \in Seq(EntrySet(f)), NEW fr \in Seq(Ids), NEW lo,
         NEW c \in Nat, c < Len(es), Shared(f, es, c, fr, lo, n)
  PROVE  /\ Joined(fr, By(es[c + 1])) \in Seq(Ids)
         /\ Shared(f, es, c + 1, Joined(fr, By(es[c + 1])), lo, n)
<1> DEFINE e == es[c + 1]
<1>1. Len(es) \in Nat /\ c + 1 \in 1 .. Len(es)
  BY ElementsOf
<1>2. e \in EntrySet(f)
  BY <1>1, ElementsOf
<1>3. By(e) \in Seq(Ids)
  BY <1>2 DEF EntrySet, Shaped
<1>4. /\ Once(By(e)) /\ Apart(es, c + 1) /\ Held(es, c) = Held(es, c + 1) \cup Strs(e)
      /\ Strs(e) \cap Held(es, c + 1) = {}
  BY <1>1, HeldFreed DEF Shared
<1>5. /\ Elements(Joined(fr, By(e))) = Elements(fr) \cup Strs(e)
      /\ Once(Joined(fr, By(e))) <=> Once(fr) /\ Once(By(e)) /\ Elements(fr) \cap Strs(e) = {}
      /\ Joined(fr, By(e)) \in Seq(Ids)
  <2> DEFINE b == By(e)
  <2>1. b \in Seq(Ids)
    BY <1>3
  <2> HIDE DEF b
  <2>2. Joined(fr, b) \in Seq(Ids)
    BY <2>1, SeqJoin
  <2>3. Elements(Joined(fr, b)) = Elements(fr) \cup Elements(b)
    BY <2>1, JoinElements
  <2>4. Once(Joined(fr, b)) <=> Once(fr) /\ Once(b) /\ Elements(fr) \cap Elements(b) = {}
    BY <2>1, JoinElements
  <2> QED BY <2>2, <2>3, <2>4 DEF b, Strs
<1> HIDE DEF e
<1>6. Shared(f, es, c + 1, Joined(fr, By(e)), lo, n)
  BY <1>4, <1>5 DEF Shared
<1> QED BY <1>5, <1>6 DEF e

-----------------------------------------------------------------------------
(* Ini files: the invariant.                                               *)

(* The file is one that may be parsed, the entries are what its first      *)
(* `next' lines say, and every string of these lines is in one place.      *)
IniInv ==
  /\ source \in Seq(Ini!IniLines) /\ Ini!OwnsItsStrings(source)
  /\ next \in 0 .. Len(source)
  /\ ini \in Seq(EntrySet(source)) /\ freed \in Seq(Ids)
  /\ clearing \in 0 .. Len(ini) /\ (clearing # 0 => next = Len(source))
  /\ Meant(source, ini, next)
  /\ Shared(source, ini, clearing, freed, lost, next)

\* Before the first line.
LEMMA NothingParsed ==
  ASSUME NEW f \in Seq(Ini!IniLines)
  PROVE  Meant(f, <<>>, 0) /\ Shared(f, <<>>, 0, <<>>, {}, 0)
<1> DEFINE none == <<>>
           m == [i \in 1 .. 0 |-> 1]
<1>1. Len(none) = 0 /\ 1 .. 0 = {} /\ DOMAIN none = {} /\ 0 + 1 .. 0 = {}
  OBVIOUS
<1> HIDE DEF none
<1>2. m \in [1 .. Len(none) -> 1 .. 0]
  BY <1>1
<1> HIDE DEF m
<1>3. MadeOf(f, m, none, 0)
  BY <1>1, <1>2 DEF MadeOf
<1>4. Meant(f, none, 0)
  BY <1>3 DEF Meant
<1>5. Taken(f, 0) = {} /\ Held(none, 0) = {} /\ Elements(none) = {} /\ Apart(none, 0) /\ Once(none)
  BY <1>1 DEF Taken, Held, Elements, Apart, Once
<1>6. Shared(f, none, 0, none, {}, 0)
  BY <1>5 DEF Shared
<1> QED BY <1>4, <1>6 DEF none

\* The invariant holds at first, and each step keeps it.
LEMMA InitIni == InitContainers => IniInv
<1> SUFFICES ASSUME InitContainers PROVE IniInv
  OBVIOUS
<1>1. next = 0 /\ ini = <<>> /\ freed = <<>> /\ lost = {} /\ clearing = 0
  BY DEF InitContainers, Ini!Init, NoIni
<1>2. source \in IniFiles \/ source = <<>>
  BY DEF InitContainers, Ini!Init, NoIni
<1>3. source \in Seq(Ini!IniLines) /\ Ini!OwnsItsStrings(source)
  <2>1. CASE source \in IniFiles
    BY <2>1, IniFilesAssumption DEF Ini!IniAssumption
  <2>2. CASE source = <<>>
    BY <2>2 DEF Ini!OwnsItsStrings
  <2> QED BY <1>2, <2>1, <2>2
<1>4. Meant(source, <<>>, 0) /\ Shared(source, <<>>, 0, <<>>, {}, 0)
  BY <1>3, NothingParsed
<1>5. /\ <<>> \in Seq(EntrySet(source)) /\ <<>> \in Seq(Ids) /\ Len(<<>>) = 0 /\ 0 \in 0 .. 0
      /\ 0 \in 0 .. Len(source)
  BY <1>3, ElementsOf
<1> QED BY <1>1, <1>3, <1>4, <1>5 DEF IniInv

\* What is there to parse.
LEMMA ParsingFacts ==
  ASSUME IniInv, Ini!Parsing
  PROVE  /\ next \in Nat /\ next + 1 \in 1 .. Len(source) /\ next + 1 \in 0 .. Len(source)
         /\ clearing = 0 /\ 0 \in 0 .. Len(ini)
         /\ Ini!Current = LineOf(source, next + 1)
         /\ (Ini!Current.value.type = "entry") = Assigns(source, next + 1)
         /\ Ini!Same(Ini!Current) = SameName(source, ini, next + 1)
         /\ LineOf(source, next + 1) \in EntrySet(source)
<1>1. Len(source) \in Nat /\ next \in 0 .. Len(source) /\ next < Len(source)
  BY ElementsOf DEF IniInv, Ini!Parsing
<1>2. next \in Nat /\ next + 1 \in 1 .. Len(source) /\ next + 1 \in 0 .. Len(source)
  BY <1>1
<1>3. clearing = 0
  BY <1>1 DEF IniInv
<1>4. DOMAIN ini = 1 .. Len(ini) /\ Len(ini) \in Nat
  BY ElementsOf DEF IniInv
<1>5. Ini!Current = LineOf(source, next + 1)
  BY DEF Ini!Current, LineOf
<1>6. (Ini!Current.value.type = "entry") = Assigns(source, next + 1)
  BY <1>5 DEF Assigns
<1>7. Ini!Same(Ini!Current) = SameName(source, ini, next + 1)
  BY <1>4, <1>5 DEF Ini!Same, SameName, NameOf
<1>8. LineOf(source, next + 1) \in EntrySet(source)
  BY <1>2, LineEntry DEF IniInv
<1> QED BY <1>2, <1>3, <1>4, <1>5, <1>6, <1>7, <1>8

\* The first entry of the name of the next line.
LEMMA FirstSameIs ==
  ASSUME IniInv, Ini!Parsing, Ini!Same(Ini!Current) # {}
  PROVE  LET i == Ini!FirstSame(Ini!Current) IN
         /\ i \in SameName(source, ini, next + 1)
         /\ \A j \in SameName(source, ini, next + 1) : i <= j
<1> DEFINE S == SameName(source, ini, next + 1)
           i == Ini!FirstSame(Ini!Current)
<1>1. S = Ini!Same(Ini!Current) /\ S # {}
  BY ParsingFacts
<1>2. S \in SUBSET Nat
  BY DEF SameName
<1> HIDE DEF S
<1>3. \E x \in S : \A y \in S : x <= y
  BY <1>1, <1>2, LeastExists
<1>4. i \in S /\ \A j \in S : i <= j
  BY <1>1, <1>3 DEF Ini!FirstSame
<1> QED BY <1>4 DEF S

LEMMA ParsePlainKeeps == IniInv /\ Ini!ParsePlain => IniInv'
<1> SUFFICES ASSUME IniInv, Ini!ParsePlain PROVE IniInv'
  OBVIOUS
<1> DEFINE n == next
           e == LineOf(source, n + 1)
<1>0. Ini!Parsing
  BY DEF Ini!ParsePlain
<1>1. /\ n \in Nat /\ n + 1 \in 1 .. Len(source) /\ n + 1 \in 0 .. Len(source) /\ clearing = 0
      /\ e \in EntrySet(source) /\ Ini!Current = e
      /\ (Ini!Current.value.type = "entry") = Assigns(source, n + 1)
  BY <1>0, ParsingFacts
<1>2. ~Assigns(source, n + 1)
  BY <1>1 DEF Ini!ParsePlain
<1>3. /\ source' = source /\ next' = n + 1 /\ ini' = Append(ini, e)
      /\ freed' = freed /\ lost' = lost /\ clearing' = 0
  BY <1>1 DEF Ini!ParsePlain
<1>4. /\ source \in Seq(Ini!IniLines) /\ Ini!OwnsItsStrings(source)
      /\ ini \in Seq(EntrySet(source)) /\ freed \in Seq(Ids)
      /\ Meant(source, ini, n) /\ Shared(source, ini, 0, freed, lost, n)
  BY <1>1 DEF IniInv
<1> HIDE DEF n
<1>5. Meant(source, Append(ini, e), n + 1)
  BY <1>1, <1>2, <1>4, PlainMeant
<1>6. Once(By(e))
  BY <1>1, <1>4, NextTaken
<1> HIDE DEF e
<1>7. Shared(source, Append(ini, e), 0, freed, lost, n + 1)
  BY <1>1, <1>4, <1>6, AppendShared DEF e
<1>8. Append(ini, e) \in Seq(EntrySet(source)) /\ 0 \in 0 .. Len(Append(ini, e))
  BY <1>1, <1>4, AppendIs
<1> QED BY <1>1, <1>3, <1>4, <1>5, <1>7, <1>8 DEF IniInv

LEMMA ParseNewListKeeps == IniInv /\ Ini!ParseNewList => IniInv'
<1> SUFFICES ASSUME IniInv, Ini!ParseNewList PROVE IniInv'
  OBVIOUS
<1> DEFINE n == next
           l == LineOf(source, n + 1)
           list == Assigned(<<>>, PosOf(source, n + 1), ValueOf(source, n + 1))
           e == WithList(l, list)
<1>0. Ini!Parsing
  BY DEF Ini!ParseNewList
<1>1. /\ n \in Nat /\ n + 1 \in 1 .. Len(source) /\ n + 1 \in 0 .. Len(source) /\ clearing = 0
      /\ l \in EntrySet(source) /\ Ini!Current = l
      /\ (Ini!Current.value.type = "entry") = Assigns(source, n + 1)
      /\ Ini!Same(Ini!Current) = SameName(source, ini, n + 1)
  BY <1>0, ParsingFacts
<1>2. Assigns(source, n + 1) /\ SameName(source, ini, n + 1) = {}
  BY <1>1 DEF Ini!ParseNewList
<1>3. e = [l EXCEPT !.value = Ini!ListOf(Ini!ListAssign(<<>>, l.value.pos, l.value.value))]
  <2>1. l = [name |-> l.name, at |-> l.at, value |-> l.value]
    BY <1>1 DEF EntrySet, Shaped
  <2> QED BY <2>1 DEF WithList, Assigned, PosOf, ValueOf
<1>4. /\ source' = source /\ next' = n + 1 /\ ini' = Append(ini, e)
      /\ freed' = freed /\ lost' = lost /\ clearing' = 0
  BY <1>1, <1>3 DEF Ini!ParseNewList
<1>5. /\ source \in Seq(Ini!IniLines) /\ Ini!OwnsItsStrings(source)
      /\ ini \in Seq(EntrySet(source)) /\ freed \in Seq(Ids)
      /\ Meant(source, ini, n) /\ Shared(source, ini, 0, freed, lost, n)
  BY <1>1 DEF IniInv
<1> HIDE DEF n
<1>6. Meant(source, Append(ini, e), n + 1)
  BY <1>1, <1>2, <1>5, NewListMeant
<1>7. e \in EntrySet(source) /\ Once(By(e)) /\ Strs(e) = Strs(l)
  BY <1>1, <1>2, <1>5, NewListHolds
<1> HIDE DEF e
<1>8. Shared(source, Append(ini, e), 0, freed, lost, n + 1)
  BY <1>1, <1>5, <1>7, AppendShared
<1>9. Append(ini, e) \in Seq(EntrySet(source)) /\ 0 \in 0 .. Len(Append(ini, e))
  BY <1>5, <1>7, AppendIs
<1> QED BY <1>1, <1>4, <1>5, <1>6, <1>8, <1>9 DEF IniInv

LEMMA ParseIntoListKeeps == IniInv /\ Ini!ParseIntoList => IniInv'
<1> SUFFICES ASSUME IniInv, Ini!ParseIntoList PROVE IniInv'
  OBVIOUS
<1> DEFINE n == next
           l == LineOf(source, n + 1)
           p == PosOf(source, n + 1)
           v == ValueOf(source, n + 1)
           i0 == Ini!FirstSame(Ini!Current)
           S == SameName(source, ini, n + 1)
           new == ini'
<1>0. Ini!Parsing
  BY DEF Ini!ParseIntoList
<1>1. /\ n \in Nat /\ n + 1 \in 1 .. Len(source) /\ n + 1 \in 0 .. Len(source) /\ clearing = 0
      /\ l \in EntrySet(source) /\ Ini!Current = l
      /\ (Ini!Current.value.type = "entry") = Assigns(source, n + 1)
  BY <1>0, ParsingFacts
<1>2. Assigns(source, n + 1) /\ ini[i0].value.type = "list"
  BY <1>1 DEF Ini!ParseIntoList
<1>3. i0 \in S /\ \A j \in S : i0 <= j
  <2>1. Ini!Same(Ini!Current) # {}
    BY DEF Ini!ParseIntoList
  <2> QED BY <1>0, <2>1, FirstSameIs
<1>4. /\ source \in Seq(Ini!IniLines) /\ Ini!OwnsItsStrings(source)
      /\ ini \in Seq(EntrySet(source)) /\ freed \in Seq(Ids)
      /\ Meant(source, ini, n) /\ Shared(source, ini, 0, freed, lost, n)
  BY <1>1 DEF IniInv
<1>5. i0 \in 1 .. Len(ini)
  BY <1>3 DEF SameName
<1>6. /\ source' = source /\ next' = n + 1 /\ clearing' = 0
      /\ new = [ini EXCEPT ![i0].value.list = Ini!ListAssign(@, l.value.pos, l.value.value)]
      /\ freed' = Append(freed, l.at) /\ lost' = lost \cup Ini!Overwritten(ini[i0].value.list, l.value.pos)
  BY <1>1 DEF Ini!ParseIntoList
<1> HIDE DEF i0, S, n, new
<1>7. Len(ini) \in Nat /\ DOMAIN ini = 1 .. Len(ini) /\ \A i \in 1 .. Len(ini) : ini[i] \in EntrySet(source)
  BY <1>4, ElementsOf
<1> DEFINE e == ini[i0]
           list == Assigned(e.value.list, p, v)
<1>8. /\ e \in EntrySet(source) /\ e = [name |-> e.name, at |-> e.at, value |-> e.value]
      /\ e.value = Ini!ListOf(e.value.list) /\ e.value.list \in Seq(Value)
  BY <1>2, <1>5, <1>7 DEF EntrySet, Shaped
<1>9. [e EXCEPT !.value.list = Ini!ListAssign(@, l.value.pos, l.value.value)] = WithList(e, list)
  <2>1. Ini!ListAssign(e.value.list, l.value.pos, l.value.value) = list
    BY DEF Assigned, PosOf, ValueOf
  <2> HIDE DEF list
  <2>2. [e EXCEPT !.value.list = Ini!ListAssign(@, l.value.pos, l.value.value)]
        = [e EXCEPT !.value = [e.value EXCEPT !.list = list]]
    BY <2>1
  <2>3. [e.value EXCEPT !.list = list] = Ini!ListOf(list)
    BY <1>8 DEF Ini!ListOf
  <2> QED BY <1>8, <2>2, <2>3 DEF WithList
<1>10. \A i \in 1 .. Len(ini) : new[i] = IF i = i0 THEN WithList(e, list) ELSE ini[i]
  BY <1>5, <1>6, <1>7, <1>9
<1>11. DOMAIN new = 1 .. Len(ini) /\ new = [i \in 1 .. Len(ini) |-> new[i]]
  BY <1>6, <1>7
<1>12. p \in Nat /\ v \in Value
  BY <1>1, <1>2, <1>4, LineIs
<1>13. list \in Seq(Value)
  BY <1>8, <1>12, AssignedIs
<1>14. WithList(e, list) \in EntrySet(source)
  BY <1>8, <1>13, ListEntry
<1> HIDE DEF list
<1>15. \A i \in 1 .. Len(ini) : new[i] \in EntrySet(source)
  BY <1>7, <1>10, <1>14
<1>16. new \in Seq(EntrySet(source)) /\ Len(new) = Len(ini)
  BY <1>7, <1>11, <1>15
<1>17. \A i \in 1 .. Len(ini) : new[i] = IF i = i0 THEN WithList(ini[i], Assigned(ini[i].value.list, p, v))
                                         ELSE ini[i]
  BY <1>10 DEF list
<1>18. Meant(source, new, n + 1)
  BY <1>1, <1>2, <1>3, <1>4, <1>16, <1>17, IntoListMeant DEF S
<1>19. Shared(source, new, 0, Append(freed, l.at), lost \cup LostAt(ini[i0].value.list, p), n + 1)
  BY <1>1, <1>2, <1>4, <1>5, <1>16, <1>17, IntoListShared
<1>20. lost' = lost \cup LostAt(ini[i0].value.list, p)
  BY <1>6, <1>8, LostIs DEF PosOf
<1>21. Append(freed, l.at) \in Seq(Ids)
  BY <1>1, <1>4 DEF EntrySet
<1>22. 0 \in 0 .. Len(new)
  BY <1>7, <1>16
<1> QED BY <1>1, <1>4, <1>6, <1>16, <1>18, <1>19, <1>20, <1>21, <1>22 DEF IniInv, new

LEMMA ParseIgnoredKeeps == IniInv /\ Ini!ParseIgnored => IniInv'
<1> SUFFICES ASSUME IniInv, Ini!ParseIgnored PROVE IniInv'
  OBVIOUS
<1> DEFINE n == next
           l == LineOf(source, n + 1)
           i0 == Ini!FirstSame(Ini!Current)
           S == SameName(source, ini, n + 1)
<1>0. Ini!Parsing
  BY DEF Ini!ParseIgnored
<1>1. /\ n \in Nat /\ n + 1 \in 1 .. Len(source) /\ n + 1 \in 0 .. Len(source) /\ clearing = 0
      /\ Ini!Current = l
      /\ (Ini!Current.value.type = "entry") = Assigns(source, n + 1)
  BY <1>0, ParsingFacts
<1>2. Assigns(source, n + 1) /\ ini[i0].value.type # "list"
  BY <1>1 DEF Ini!ParseIgnored
<1>3. i0 \in S /\ \A j \in S : i0 <= j
  <2>1. Ini!Same(Ini!Current) # {}
    BY DEF Ini!ParseIgnored
  <2> QED BY <1>0, <2>1, FirstSameIs
<1>4. /\ source \in Seq(Ini!IniLines) /\ Ini!OwnsItsStrings(source)
      /\ ini \in Seq(EntrySet(source)) /\ freed \in Seq(Ids)
      /\ Meant(source, ini, n) /\ Shared(source, ini, 0, freed, lost, n)
  BY <1>1 DEF IniInv
<1>5. Ini!StringsOf(l) = Strs(l)
  BY DEF Ini!StringsOf, Ini!ToSet, Strs, Elements, By
<1>6. /\ source' = source /\ next' = n + 1 /\ clearing' = 0 /\ ini' = ini /\ freed' = freed
      /\ lost' = lost \cup Strs(l)
  BY <1>1, <1>5 DEF Ini!ParseIgnored
<1> HIDE DEF i0, n
<1>7. Meant(source, ini, n + 1)
  BY <1>1, <1>2, <1>3, <1>4, IgnoredMeant
<1>8. Shared(source, ini, 0, freed, lost \cup Strs(l), n + 1)
  BY <1>1, <1>4, IgnoredShared
<1>9. 0 \in 0 .. Len(ini)
  BY <1>4, ElementsOf
<1> QED BY <1>1, <1>4, <1>6, <1>7, <1>8, <1>9 DEF IniInv

LEMMA FreeEntryKeeps == IniInv /\ Ini!FreeEntry => IniInv'
<1> SUFFICES ASSUME IniInv, Ini!FreeEntry PROVE IniInv'
  OBVIOUS
<1> DEFINE c == clearing
           b == By(ini[c + 1])
<1>1. Len(source) \in Nat /\ Len(ini) \in Nat /\ next \in 0 .. Len(source) /\ c \in 0 .. Len(ini)
  BY ElementsOf DEF IniInv
<1>2. ~(next < Len(source)) /\ c < Len(ini)
  BY DEF Ini!FreeEntry, Ini!Parsing
<1>3. next = Len(source) /\ c \in Nat /\ c + 1 \in 0 .. Len(ini)
  BY <1>1, <1>2
<1>4. /\ source' = source /\ next' = next /\ ini' = ini /\ lost' = lost
      /\ clearing' = c + 1 /\ freed' = Joined(freed, b)
  BY DEF Ini!FreeEntry, Joined, By
<1>5. /\ source \in Seq(Ini!IniLines) /\ Ini!OwnsItsStrings(source) /\ next \in 0 .. Len(source)
      /\ ini \in Seq(EntrySet(source)) /\ freed \in Seq(Ids)
      /\ Meant(source, ini, next) /\ Shared(source, ini, c, freed, lost, next)
  BY DEF IniInv
<1> HIDE DEF c
<1>6. Joined(freed, b) \in Seq(Ids)
  BY <1>2, <1>3, <1>5, FreeShared
<1>7. Shared(source, ini, c + 1, Joined(freed, b), lost, next)
  BY <1>2, <1>3, <1>5, FreeShared
<1> HIDE DEF b
<1> QED BY <1>3, <1>4, <1>5, <1>6, <1>7 DEF IniInv

LEMMA NextIni == IniInv /\ [NextContainers]_varsContainers => IniInv'
<1> SUFFICES ASSUME IniInv, [NextContainers]_varsContainers PROVE IniInv'
  OBVIOUS
<1>1. ASSUME UNCHANGED iniVars PROVE IniInv'
  BY <1>1 DEF IniInv, iniVars
<1>2. CASE Ini!Next
  BY <1>2, ParsePlainKeeps, ParseNewListKeeps, ParseIntoListKeeps, ParseIgnoredKeeps, FreeEntryKeeps
  DEF Ini!Next
<1>3. CASE UNCHANGED varsContainers
  BY <1>1, <1>3 DEF varsContainers
<1> QED BY <1>1, <1>2, <1>3 DEF NextContainers

\* What the model says of the lines of its file.
LEMMA LinesOfFile ==
  ASSUME NEW k
  PROVE  /\ Ini!EntryOf(k) = LineOf(source, k)
         /\ Ini!Positioned(k) = Assigns(source, k)
         /\ \A j : Ini!Positioned(j) /\ Ini!Named(j, Ini!EntryOf(k).name) <=> Reaches(source, j, k)
         /\ Ini!First(k) <=> FirstLine(source, k)
         /\ Ini!Opens(k) <=> OpensLine(source, k)
<1>1. \A j : Ini!EntryOf(j) = LineOf(source, j)
  BY DEF Ini!EntryOf, LineOf
<1>2. \A j : Ini!Positioned(j) = Assigns(source, j)
  BY <1>1 DEF Ini!Positioned, Assigns
<1>3. \A j : Ini!Named(j, Ini!EntryOf(k).name) <=> NameOf(source, j) = NameOf(source, k)
  BY <1>1 DEF Ini!Named, NameOf
<1>4. Ini!First(k) <=> FirstLine(source, k)
  BY <1>3 DEF Ini!First, FirstLine
<1>5. Ini!Opens(k) <=> OpensLine(source, k)
  BY <1>2, <1>3 DEF Ini!Opens, OpensLine, FirstLine
<1>6. \A j : Ini!Positioned(j) /\ Ini!Named(j, Ini!EntryOf(k).name) <=> Reaches(source, j, k)
  BY <1>2, <1>3 DEF Reaches
<1> QED BY <1>1, <1>2, <1>4, <1>5, <1>6

\* The reference, as a formula of the file and the lines parsed.
LEMMA ListOfFile ==
  ASSUME NEW k, NEW list
  PROVE  Ini!ListAsWritten(k, list) <=> ListIs(source, k, list, next)
<1>1. \A j : /\ Ini!EntryOf(j) = LineOf(source, j)
             /\ Ini!Positioned(j) = Assigns(source, j)
             /\ Ini!Positioned(j) /\ Ini!Named(j, Ini!EntryOf(k).name) <=> Reaches(source, j, k)
  BY LinesOfFile
<1>2. \A p : Ini!Assigned(k, p) = Targets(source, k, p, next)
  BY <1>1 DEF Ini!Assigned, Targets, PosOf
<1>3. \A p : Ini!Written(k, p) <=> WrittenBy(source, k, p, next)
  BY <1>1, <1>2 DEF Ini!Written, WrittenBy, GivenBy
<1>4. ASSUME NEW p PROVE Ini!Element(k, p) = ContentOf(source, k, p, next)
  <2> DEFINE A == Ini!Assigned(k, p)
             T == Targets(source, k, p, next)
  <2>1. /\ Ini!Element(k, p) = IF A # {} THEN Ini!EntryOf(Latest(A)).value.value
                               ELSE IF Ini!Written(k, p) THEN Ini!EntryOf(k).value.list[p + 1] ELSE Ini!Null
        /\ A = T
    BY <1>2, Zenon DEF Ini!Element, Latest
  <2>2. ContentOf(source, k, p, next) =
          IF T # {} THEN LineOf(source, Latest(T)).value.value
          ELSE IF WrittenBy(source, k, p, next) THEN LineOf(source, k).value.list[p + 1] ELSE Ini!Null
    BY Zenon DEF ContentOf, ValueOf, GivenBy
  <2> HIDE DEF A, T
  <2> QED BY <1>1, <1>3, <2>1, <2>2
<1>5. \A j : (Ini!Positioned(j) /\ Ini!Named(j, Ini!EntryOf(k).name) => Ini!EntryOf(j).value.pos < Len(list))
             <=> (Reaches(source, j, k) => PosOf(source, j) < Len(list))
  BY <1>1 DEF PosOf
<1>6. (~Ini!Positioned(k) => Len(Ini!EntryOf(k).value.list) <= Len(list))
      <=> (~Assigns(source, k) => Len(GivenBy(source, k)) <= Len(list))
  BY <1>1 DEF GivenBy
<1> QED BY <1>3, <1>4, <1>5, <1>6 DEF Ini!ListAsWritten, ListIs

\* What the invariant says of the entries, and of the strings.
LEMMA EntriesOfFile == IniInv => Ini!EntriesAsWritten
<1> SUFFICES ASSUME IniInv PROVE Ini!EntriesAsWritten
  OBVIOUS
<1> DEFINE f == source
           N == Len(ini)
<1>1. N \in Nat /\ DOMAIN ini = 1 .. N /\ next \in Nat
  BY ElementsOf DEF IniInv
<1>2. PICK m : MadeOf(f, m, ini, next)
  BY DEF IniInv, Meant
<1>3. /\ m \in [1 .. N -> 1 .. next]
      /\ \A i, j \in 1 .. N : i < j => m[i] < m[j]
      /\ \A i \in 1 .. N : m[i] \in 1 .. next /\ OpensLine(f, m[i]) /\ Renders(f, m[i], ini[i], next)
      /\ \A k \in 1 .. next : OpensLine(f, k) => \E i \in 1 .. N : m[i] = k
  BY <1>2 DEF MadeOf
<1> HIDE DEF N
<1>4. {m[i] : i \in 1 .. N} = {k \in 1 .. next : Ini!Opens(k)}
  BY <1>3, LinesOfFile
<1>5. ASSUME NEW i \in 1 .. N
      PROVE  LET k == m[i] IN
             /\ ini[i].name = Ini!EntryOf(k).name /\ ini[i].at = Ini!EntryOf(k).at
             /\ IF Ini!First(k) /\ (Ini!Positioned(k) \/ Ini!EntryOf(k).value.type = "list")
                THEN ini[i].value.type = "list" /\ Ini!ListAsWritten(k, ini[i].value.list)
                ELSE ini[i].value = Ini!EntryOf(k).value
  <2> DEFINE k == m[i]
  <2>1. Renders(f, k, ini[i], next)
    BY <1>3
  <2> HIDE DEF k
  <2>2. /\ Ini!EntryOf(k) = LineOf(f, k)
        /\ Ini!ListAsWritten(k, ini[i].value.list) = ListIs(f, k, ini[i].value.list, next)
    BY LinesOfFile, ListOfFile
  <2>3. Ini!First(k) /\ (Ini!Positioned(k) \/ Ini!EntryOf(k).value.type = "list") <=> Gathers(f, k)
    BY <2>2, LinesOfFile DEF Gathers, IsList
  <2> QED BY <2>1, <2>2, <2>3 DEF Renders, NameOf, k
<1>6. /\ m \in [DOMAIN ini -> 1 .. next]
      /\ \A i, j \in DOMAIN ini : i < j => m[i] < m[j]
      /\ {m[i] : i \in DOMAIN ini} = {k \in 1 .. next : Ini!Opens(k)}
  BY <1>1, <1>3, <1>4
<1> QED BY <1>1, <1>5, <1>6, Zenon DEF Ini!EntriesAsWritten

LEMMA StringsOfFile == IniInv => Ini!FreedOnceOrLost
<1> SUFFICES ASSUME IniInv PROVE Ini!FreedOnceOrLost
  OBVIOUS
<1>1. /\ Once(freed) /\ Elements(freed) \cap lost = {}
      /\ Held(ini, clearing) \cap (Elements(freed) \cup lost) = {}
      /\ Elements(freed) \cup lost \cup Held(ini, clearing) = Taken(source, next)
  BY DEF IniInv, Shared
<1>2. /\ Len(source) \in Nat /\ DOMAIN source = 1 .. Len(source) /\ Len(ini) \in Nat
      /\ next \in 0 .. Len(source)
  BY ElementsOf DEF IniInv
<1>3. Ini!AllStrings = Taken(source, Len(source))
  <2>1. \A k : Ini!StringsOf(Ini!EntryOf(k)) = Strs(LineOf(source, k))
    BY LinesOfFile DEF Ini!StringsOf, Ini!ToSet, Strs, Elements, By
  <2> QED BY <1>2, <2>1 DEF Ini!AllStrings, Taken
<1>4. ASSUME ~Ini!Parsing, clearing = Len(ini)
      PROVE  Elements(freed) = Ini!AllStrings \ lost
  <2>1. next = Len(source)
    <3>1. ~(next < Len(source))
      BY <1>4 DEF Ini!Parsing
    <3>2. next \in 0 .. Len(source) /\ Len(source) \in Nat
      BY <1>2
    <3> QED BY <3>1, <3>2
  <2>2. Held(ini, clearing) = {}
    BY <1>2, <1>4 DEF Held
  <2> QED BY <1>1, <1>3, <2>1, <2>2
<1>5. Elements(freed) = {freed[i] : i \in DOMAIN freed}
  BY DEF Elements
<1> QED BY <1>1, <1>4, <1>5 DEF Ini!FreedOnceOrLost, Once

(* The entries are what the lines of the file say, a list being what the   *)
(* assignments to its name made of it, and no string is freed twice, or    *)
(* freed after it was lost; all others are freed with the entries          *)
(* (ini_parse, list_assign, ini_free_entry).                               *)
THEOREM IniEntriesAsWritten == SpecContainers => []IniAsWritten
<1>1. IniInv => IniAsWritten
  BY EntriesOfFile, StringsOfFile DEF IniAsWritten, Ini!IniAsWritten
<1> QED BY <1>1, InitIni, NextIni, PTL DEF SpecContainers
=============================================================================
