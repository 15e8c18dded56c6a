----------------------------- MODULE DictProofs ------------------------------
(***************************************************************************)
(* The dict for any items, keys and hashes and any number of expansions:   *)
(* every item is in the chain that is searched for its key, the load is    *)
(* bounded, what an iteration meets and when it meets an item again, and   *)
(* to its caller the dict is the map of ItemMap.                           *)
(*                                                                         *)
(* The lemmas speak of a dict d that is Sound: its arrays are as long as   *)
(* bucket_size says, its items in place, and no item in both arrays.  The  *)
(* last is what TypeOK and InPlace leave out: moving a bucket is right     *)
(* only because what is moved is not there already.                        *)
(***************************************************************************)
EXTENDS Dict, FiniteSetTheorems, TLAPS

\* A value of the C struct.
IsStruct(d) ==
  d = [buckets |-> d.buckets, prev_buckets |-> d.prev_buckets,
       bucket_size |-> d.bucket_size, split |-> d.split, count |-> d.count,
       expansion |-> d.expansion]

Shape(d) ==
  /\ IsStruct(d)
  /\ d.bucket_size \in Pow2
  /\ d.split \in Nat
  /\ d.count \in Nat
  /\ d.expansion \in BOOLEAN
  /\ IsChains(d.buckets, d.bucket_size)
  /\ \/ d.prev_buckets = NoBuckets
     \/ /\ d.bucket_size % 2 = 0
        /\ IsChains(d.prev_buckets, d.bucket_size \div 2)
        /\ d.split < d.bucket_size \div 2

\* InPlace, of d.
Placed(d) ==
  /\ \A x \in DOMAIN d.buckets : \A i \in d.buckets[x] : IndexOf(i, d.bucket_size) = x
  /\ \A x \in DOMAIN d.prev_buckets :
       /\ \A i \in d.prev_buckets[x] : IndexOf(i, d.bucket_size \div 2) = x
       /\ x < d.split => d.prev_buckets[x] = {}

Apart(d) ==
  \A x \in DOMAIN d.buckets, y \in DOMAIN d.prev_buckets :
    d.buckets[x] \cap d.prev_buckets[y] = {}

Sound(d) == Shape(d) /\ Placed(d) /\ Apart(d)

\* Only wuy_dict_del_node() leaves the count above the number of items.
Counted(d) ==
  /\ IsFiniteSet(Stored(d))
  /\ Cardinality(Stored(d)) =< d.count
  /\ d.expansion => d.count = Cardinality(Stored(d))

-----------------------------------------------------------------------------
(* Assignments to members of the struct.                                   *)

\* The members but for those named are the same in e as in d.
Same(e, d, others) ==
  /\ "buckets" \in others \/ e.buckets = d.buckets
  /\ "prev_buckets" \in others \/ e.prev_buckets = d.prev_buckets
  /\ "bucket_size" \in others \/ e.bucket_size = d.bucket_size
  /\ "split" \in others \/ e.split = d.split
  /\ "count" \in others \/ e.count = d.count
  /\ "expansion" \in others \/ e.expansion = d.expansion

LEMMA SetBuckets ==
  ASSUME NEW d, IsStruct(d), NEW v
  PROVE  LET e == [d EXCEPT !.buckets = v] IN
         IsStruct(e) /\ e.buckets = v /\ Same(e, d, {"buckets"})
BY DEF IsStruct, Same

LEMMA SetPrevBuckets ==
  ASSUME NEW d, IsStruct(d), NEW v
  PROVE  LET e == [d EXCEPT !.prev_buckets = v] IN
         IsStruct(e) /\ e.prev_buckets = v /\ Same(e, d, {"prev_buckets"})
BY DEF IsStruct, Same

LEMMA SetBucketSize ==
  ASSUME NEW d, IsStruct(d), NEW v
  PROVE  LET e == [d EXCEPT !.bucket_size = v] IN
         IsStruct(e) /\ e.bucket_size = v /\ Same(e, d, {"bucket_size"})
BY DEF IsStruct, Same

LEMMA SetSplit ==
  ASSUME NEW d, IsStruct(d), NEW v
  PROVE  LET e == [d EXCEPT !.split = v] IN
         IsStruct(e) /\ e.split = v /\ Same(e, d, {"split"})
BY DEF IsStruct, Same

LEMMA SetCount ==
  ASSUME NEW d, IsStruct(d), NEW v
  PROVE  LET e == [d EXCEPT !.count = v] IN
         IsStruct(e) /\ e.count = v /\ Same(e, d, {"count"})
BY DEF IsStruct, Same

LEMMA SetExpansion ==
  ASSUME NEW d, IsStruct(d), NEW v
  PROVE  LET e == [d EXCEPT !.expansion = v] IN
         IsStruct(e) /\ e.expansion = v /\ Same(e, d, {"expansion"})
BY DEF IsStruct, Same

LEMMA SplitMembers ==
  ASSUME NEW d, IsStruct(d)
  PROVE  LET e == Split(d) IN
         /\ IsStruct(e) /\ Same(e, d, {"buckets", "prev_buckets", "split"})
         /\ e.buckets = [x \in DOMAIN d.buckets |-> d.buckets[x] \cup MovedTo(d, x)]
         /\ e.prev_buckets = IF d.split + 1 = d.bucket_size \div 2 THEN NoBuckets
                             ELSE [d.prev_buckets EXCEPT ![d.split] = {}]
         /\ e.split = d.split + 1
<1> DEFINE b == [x \in DOMAIN d.buckets |-> d.buckets[x] \cup MovedTo(d, x)]
           p == IF d.split + 1 = d.bucket_size \div 2 THEN NoBuckets
                ELSE [d.prev_buckets EXCEPT ![d.split] = {}]
           s == d.split + 1
           d1 == [d EXCEPT !.buckets = b]
           d2 == [d1 EXCEPT !.prev_buckets = p]
           d3 == [d2 EXCEPT !.split = s]
<1>1. Split(d) = [d EXCEPT !.buckets = b, !.prev_buckets = p, !.split = s]
  BY DEF Split
<1> HIDE DEF b, p, s
<1>2. Split(d) = d3
  BY <1>1
<1> HIDE DEF d1, d2, d3
<1>3. IsStruct(d1) /\ d1.buckets = b /\ Same(d1, d, {"buckets"})
  BY SetBuckets DEF d1
<1>4. IsStruct(d2) /\ d2.prev_buckets = p /\ Same(d2, d1, {"prev_buckets"})
  BY <1>3, SetPrevBuckets DEF d2
<1>5. IsStruct(d3) /\ d3.split = s /\ Same(d3, d2, {"split"})
  BY <1>4, SetSplit DEF d3
<1>6. /\ d3.buckets = b /\ d3.prev_buckets = p
      /\ Same(d3, d, {"buckets", "prev_buckets", "split"})
  BY <1>3, <1>4, <1>5 DEF Same
<1> QED BY <1>2, <1>5, <1>6 DEF b, p, s

-----------------------------------------------------------------------------
(* Indexes.                                                                *)

LEMMA DivisionUnique ==
  ASSUME NEW n \in Nat \ {0}, NEW a \in Nat, NEW r \in 0 .. n - 1
  PROVE  (n * a + r) % n = r
<1> DEFINE h == n * a + r
           b == h \div n
           s == h % n
<1>0. n * a \in Nat /\ h \in Nat
  OBVIOUS
<1>1. b \in Nat /\ s \in 0 .. n - 1 /\ h = n * b + s
  BY <1>0
<1>2. a =< b \/ a >= b + 1
  BY <1>1
<1>3. ASSUME a >= b + 1 PROVE FALSE
  <2>1. PICK e \in Nat : a = b + 1 + e
    BY <1>1, <1>3
  <2>2. n * a = n * b + n + n * e /\ n * e \in Nat
    BY <1>1, <2>1
  <2> QED BY <1>1, <2>2
<1>4. ASSUME b >= a + 1 PROVE FALSE
  <2>1. PICK e \in Nat : b = a + 1 + e
    BY <1>1, <1>4
  <2>2. n * b = n * a + n + n * e /\ n * e \in Nat
    BY <1>1, <2>1
  <2> QED BY <1>1, <2>2
<1>5. a = b
  BY <1>1, <1>2, <1>3, <1>4
<1> QED BY <1>1, <1>5

LEMMA DivisionOf ==
  ASSUME NEW h \in Nat, NEW m \in Nat \ {0}
  PROVE  h \div m \in Nat /\ h % m \in 0 .. m - 1 /\ h = m * (h \div m) + (h % m)
OBVIOUS

LEMMA TwiceTimes ==
  ASSUME NEW n \in Nat, NEW q \in Nat
  PROVE  n * (2 * q) = (2 * n) * q /\ n * (2 * q + 1) = (2 * n) * q + n
OBVIOUS

\* In an array of half the size the index is without its upper bit.
LEMMA HalfIndex ==
  ASSUME NEW h \in Nat, NEW n \in Nat \ {0}
  PROVE  LET x == h % (2 * n) IN
         /\ x \in 0 .. 2 * n - 1
         /\ h % n = IF x >= n THEN x - n ELSE x
         /\ h % n \in 0 .. n - 1
<1> DEFINE x == h % (2 * n)
           q == h \div (2 * n)
<1>1. 2 * n \in Nat \ {0}
  OBVIOUS
<1>2. q \in Nat /\ x \in 0 .. 2 * n - 1 /\ h = (2 * n) * q + x
  BY <1>1, DivisionOf
<1>3. n * (2 * q) = (2 * n) * q /\ n * (2 * q + 1) = (2 * n) * q + n
  BY <1>2, TwiceTimes
<1> HIDE DEF q, x
<1>4. CASE x >= n
  <2>1. h = n * (2 * q + 1) + (x - n) /\ x - n \in 0 .. n - 1 /\ 2 * q + 1 \in Nat
    BY <1>2, <1>3, <1>4
  <2>2. h % n = x - n
    BY <2>1, DivisionUnique
  <2> QED BY <1>2, <1>4, <2>1, <2>2
<1>5. CASE x < n
  <2>1. h = n * (2 * q) + x /\ x \in 0 .. n - 1 /\ 2 * q \in Nat
    BY <1>2, <1>3, <1>5
  <2>2. h % n = x
    BY <2>1, DivisionUnique
  <2> QED BY <1>2, <1>5, <2>1, <2>2
<1> QED BY <1>2, <1>4, <1>5

LEMMA IndexRange ==
  ASSUME NEW i \in Items, NEW size \in Pow2
  PROVE  IndexOf(i, size) \in 0 .. size - 1
BY DivisionOf, DictAssumption DEF IndexOf, Index

\* The facts about the old array of a dict that has one, with its size as half.
LEMMA OldArray ==
  ASSUME NEW d, Shape(d), d.prev_buckets # NoBuckets
  PROVE  LET half == d.bucket_size \div 2 IN
         /\ half \in Nat \ {0} /\ d.bucket_size = 2 * half
         /\ d.prev_buckets \in [0 .. half - 1 -> SUBSET Items]
         /\ d.split \in 0 .. half - 1
<1>1. d.bucket_size \in Nat \ {0}
  BY DictAssumption DEF Shape
<1>2. /\ d.bucket_size % 2 = 0 /\ d.split < d.bucket_size \div 2 /\ d.split \in Nat
      /\ d.prev_buckets \in [0 .. (d.bucket_size \div 2) - 1 -> SUBSET Items]
  BY DEF Shape, IsChains
<1> QED BY <1>1, <1>2

LEMMA NewArray ==
  ASSUME NEW d, Shape(d)
  PROVE  /\ d.bucket_size \in Nat \ {0}
         /\ d.buckets \in [0 .. d.bucket_size - 1 -> SUBSET Items]
BY DictAssumption DEF Shape, IsChains

LEMMA NoOldArray ==
  /\ DOMAIN NoBuckets = {}
  /\ \A n \in Nat \ {0} : \A f \in [0 .. n - 1 -> SUBSET Items] : f # NoBuckets
<1>1. DOMAIN NoBuckets = {} BY DEF NoBuckets
<1>2. ASSUME NEW n \in Nat \ {0}, NEW f \in [0 .. n - 1 -> SUBSET Items]
      PROVE  f # NoBuckets
  <2>1. 0 \in DOMAIN f BY <1>2
  <2> QED BY <1>1, <2>1
<1> QED BY <1>1, <1>2

\* The two halves of the new array that a bucket of the old one comes to.
LEMMA IndexHalves ==
  ASSUME NEW i \in Items, NEW half \in Nat \ {0}
  PROVE  LET x == IndexOf(i, 2 * half) IN
         /\ x \in 0 .. 2 * half - 1
         /\ IndexOf(i, half) = IF x >= half THEN x - half ELSE x
         /\ IndexOf(i, half) \in 0 .. half - 1
<1>1. Hash[KeyOf[i]] \in Nat
  BY DictAssumption
<1> QED BY <1>1, HalfIndex DEF IndexOf, Index

LEMMA StoredIn ==
  ASSUME NEW d, NEW i
  PROVE  i \in Stored(d) <=> \/ \E x \in DOMAIN d.buckets : i \in d.buckets[x]
                             \/ \E x \in DOMAIN d.prev_buckets : i \in d.prev_buckets[x]
BY DEF Stored

\* What is linked is in one of the two buckets that are searched for its key.
LEMMA StoredWhere ==
  ASSUME NEW d, Sound(d), NEW i
  PROVE  LET half == d.bucket_size \div 2 IN
         /\ i \in Stored(d) => i \in Items
         /\ i \in Stored(d) <=>
              \/ i \in Items /\ i \in d.buckets[IndexOf(i, d.bucket_size)]
              \/ /\ i \in Items /\ d.prev_buckets # NoBuckets
                 /\ i \in d.prev_buckets[IndexOf(i, half)]
<1> DEFINE half == d.bucket_size \div 2
<1>1. /\ d.bucket_size \in Nat \ {0} /\ d.bucket_size \in Pow2
      /\ d.buckets \in [0 .. d.bucket_size - 1 -> SUBSET Items]
  BY NewArray DEF Sound, Shape
<1>2. d.prev_buckets # NoBuckets =>
        /\ half \in Nat \ {0} /\ d.bucket_size = 2 * half
        /\ d.prev_buckets \in [0 .. half - 1 -> SUBSET Items]
  BY OldArray DEF Sound
<1>3. ASSUME i \in Stored(d)
      PROVE  /\ i \in Items
             /\ \/ i \in d.buckets[IndexOf(i, d.bucket_size)]
                \/ /\ d.prev_buckets # NoBuckets
                   /\ i \in d.prev_buckets[IndexOf(i, half)]
  <2>1. CASE \E x \in DOMAIN d.buckets : i \in d.buckets[x]
    BY <1>1, <2>1 DEF Sound, Placed
  <2>2. CASE \E x \in DOMAIN d.prev_buckets : i \in d.prev_buckets[x]
    <3>1. d.prev_buckets # NoBuckets BY <2>2, NoOldArray
    <3> QED BY <1>2, <2>2, <3>1 DEF Sound, Placed
  <2> QED BY <1>3, <2>1, <2>2, StoredIn
<1>4. ASSUME i \in Items, i \in d.buckets[IndexOf(i, d.bucket_size)]
      PROVE  i \in Stored(d)
  <2>1. IndexOf(i, d.bucket_size) \in DOMAIN d.buckets BY <1>1, <1>4, IndexRange
  <2> QED BY <1>4, <2>1, StoredIn
<1>5. ASSUME i \in Items, d.prev_buckets # NoBuckets, i \in d.prev_buckets[IndexOf(i, half)]
      PROVE  i \in Stored(d)
  <2>1. IndexOf(i, half) \in DOMAIN d.prev_buckets BY <1>2, <1>5, IndexHalves
  <2> QED BY <1>5, <2>1, StoredIn
<1> HIDE DEF half
<1>6. \/ i \in Stored(d) /\ i \in Items
      \/ i \notin Stored(d)
  BY <1>3
<1>7. i \in Stored(d) <=>
        \/ i \in Items /\ i \in d.buckets[IndexOf(i, d.bucket_size)]
        \/ i \in Items /\ d.prev_buckets # NoBuckets /\ i \in d.prev_buckets[IndexOf(i, half)]
  BY <1>3, <1>4, <1>5
<1> QED BY <1>6, <1>7 DEF half

-----------------------------------------------------------------------------
(* wuy_dict_expasion().                                                    *)

\* Moving a bucket.
LEMMA SplitSound ==
  ASSUME NEW d, Sound(d), d.prev_buckets # NoBuckets
  PROVE  /\ Sound(Split(d))
         /\ Stored(Split(d)) = Stored(d)
         /\ Split(d).bucket_size = d.bucket_size
         /\ Split(d).split = d.split + 1
         /\ Split(d).count = d.count
         /\ Split(d).expansion = d.expansion
         /\ Split(d).prev_buckets = NoBuckets \/ d.split + 1 < d.bucket_size \div 2
<1> DEFINE half == d.bucket_size \div 2
           size == d.bucket_size
           e == Split(d)
<1>1. /\ half \in Nat \ {0} /\ size = 2 * half /\ size \in Pow2
      /\ d.prev_buckets \in [0 .. half - 1 -> SUBSET Items]
      /\ d.split \in 0 .. half - 1
      /\ d.buckets \in [0 .. size - 1 -> SUBSET Items]
  BY OldArray, NewArray DEF Sound, Shape
<1>2. /\ IsStruct(e)
      /\ e.buckets = [x \in 0 .. size - 1 |-> d.buckets[x] \cup MovedTo(d, x)]
      /\ e.prev_buckets = IF d.split + 1 = half THEN NoBuckets
                          ELSE [d.prev_buckets EXCEPT ![d.split] = {}]
      /\ e.bucket_size = size
      /\ e.split = d.split + 1
      /\ e.count = d.count
      /\ e.expansion = d.expansion
  BY <1>1, SplitMembers DEF Sound, Shape, Same
<1>3. \A x : MovedTo(d, x) = {i \in d.prev_buckets[d.split] : IndexOf(i, size) = x}
  BY DEF MovedTo
<1>4. \A x \in 0 .. half - 1 : \A i \in d.prev_buckets[x] :
        i \in Items /\ IndexOf(i, half) = x /\ IndexOf(i, size) \in 0 .. size - 1
  BY <1>1, IndexRange DEF Sound, Placed
<1>5. \A x \in 0 .. size - 1 : \A i \in d.buckets[x] : i \in Items /\ IndexOf(i, size) = x
  BY <1>1 DEF Sound, Placed
<1>6. \A x \in 0 .. half - 1 : x < d.split => d.prev_buckets[x] = {}
  BY <1>1 DEF Sound, Placed
<1>7. \A x \in 0 .. size - 1, y \in 0 .. half - 1 : d.buckets[x] \cap d.prev_buckets[y] = {}
  BY <1>1 DEF Sound, Apart
<1>8. d.count \in Nat /\ d.expansion \in BOOLEAN
  BY DEF Sound, Shape
<1> HIDE DEF half, size, e
<1>9. e.buckets \in [0 .. size - 1 -> SUBSET Items]
  BY <1>1, <1>2, <1>3, <1>4
<1>12. /\ DOMAIN e.buckets = 0 .. size - 1
       /\ \A x \in 0 .. size - 1 : e.buckets[x] = d.buckets[x] \cup MovedTo(d, x)
  BY <1>2
<1>10. CASE d.split + 1 = half
  <2>1. e.prev_buckets = NoBuckets /\ DOMAIN e.prev_buckets = {}
    BY <1>2, <1>10, NoOldArray
  <2>2. Shape(e)
    BY <1>1, <1>2, <1>8, <1>9, <2>1 DEF Shape, IsChains
  <2>3. Placed(e)
    BY <1>1, <1>2, <1>3, <1>5, <2>1 DEF Placed
  <2>4. Apart(e)
    BY <2>1 DEF Apart
  <2>5. ASSUME NEW i PROVE i \in Stored(e) <=> i \in Stored(d)
    <3>1. i \in Stored(e) <=> \E x \in 0 .. size - 1 : i \in d.buckets[x] \cup MovedTo(d, x)
      BY <1>12, <2>1, StoredIn
    <3>2. i \in Stored(d) <=> \/ \E x \in 0 .. size - 1 : i \in d.buckets[x]
                              \/ \E x \in 0 .. half - 1 : i \in d.prev_buckets[x]
      BY <1>1, StoredIn
    <3>3. \A x \in 0 .. half - 1 : x = d.split \/ d.prev_buckets[x] = {}
      BY <1>1, <1>6, <1>10
    <3>4. (\E x \in 0 .. half - 1 : i \in d.prev_buckets[x]) <=> i \in d.prev_buckets[d.split]
      BY <1>1, <3>3
    <3>5. (\E x \in 0 .. size - 1 : i \in MovedTo(d, x)) <=> i \in d.prev_buckets[d.split]
      BY <1>1, <1>3, <1>4
    <3>6. i \in Stored(e) <=> \/ \E x \in 0 .. size - 1 : i \in d.buckets[x]
                              \/ \E x \in 0 .. size - 1 : i \in MovedTo(d, x)
      BY <3>1
    <3> QED BY <3>2, <3>4, <3>5, <3>6
  <2> QED BY <1>2, <2>1, <2>2, <2>3, <2>4, <2>5 DEF Sound, e, half, size
<1>11. CASE d.split + 1 # half
  <2>0. e.prev_buckets = [d.prev_buckets EXCEPT ![d.split] = {}]
    BY <1>2, <1>11
  <2>1. /\ e.prev_buckets \in [0 .. half - 1 -> SUBSET Items]
        /\ e.prev_buckets[d.split] = {}
        /\ \A x \in 0 .. half - 1 : x # d.split => e.prev_buckets[x] = d.prev_buckets[x]
        /\ d.split + 1 < half
    BY <1>1, <1>11, <2>0
  <2>6. DOMAIN e.prev_buckets = 0 .. half - 1
    BY <2>1
  <2>2. Shape(e)
    BY <1>1, <1>2, <1>8, <1>9, <2>1 DEF Shape, IsChains, half, size
  <2>3. Placed(e)
    <3>1. \A x \in DOMAIN e.buckets : \A i \in e.buckets[x] : IndexOf(i, e.bucket_size) = x
      BY <1>1, <1>2, <1>3, <1>5
    <3>2. \A x \in DOMAIN e.prev_buckets :
            /\ \A i \in e.prev_buckets[x] : IndexOf(i, half) = x
            /\ x < d.split + 1 => e.prev_buckets[x] = {}
      <4> SUFFICES ASSUME NEW x \in 0 .. half - 1
                   PROVE  /\ \A i \in e.prev_buckets[x] : IndexOf(i, half) = x
                          /\ x < d.split + 1 => e.prev_buckets[x] = {}
        BY <2>1
      <4>1. CASE x = d.split
        BY <2>1, <4>1
      <4>2. CASE x # d.split
        BY <1>1, <1>4, <1>6, <2>1, <4>2, SMTT(30)
      <4> QED BY <4>1, <4>2
    <3> QED BY <1>2, <3>1, <3>2 DEF Placed, half, size
  <2>4. Apart(e)
    <3>1. ASSUME NEW x \in 0 .. size - 1, NEW y \in 0 .. half - 1
          PROVE  e.buckets[x] \cap e.prev_buckets[y] = {}
      <4>1. CASE y = d.split
        BY <2>1, <4>1
      <4>2. CASE y # d.split
        <5>1. e.prev_buckets[y] = d.prev_buckets[y]
              /\ e.buckets[x] = d.buckets[x] \cup MovedTo(d, x)
          BY <1>1, <1>2, <2>1, <4>2
        <5>2. MovedTo(d, x) \cap d.prev_buckets[y] = {}
          BY <1>1, <1>3, <1>4, <4>2
        <5> QED BY <1>7, <5>1, <5>2
      <4> QED BY <4>1, <4>2
    <3> QED BY <1>2, <2>1, <3>1 DEF Apart
  <2>5. ASSUME NEW i PROVE i \in Stored(e) <=> i \in Stored(d)
    <3>1. i \in Stored(e) <=>
            \/ \E x \in 0 .. size - 1 : i \in d.buckets[x] \cup MovedTo(d, x)
            \/ \E x \in 0 .. half - 1 : i \in e.prev_buckets[x]
      BY <1>12, <2>6, StoredIn
    <3>2. i \in Stored(d) <=> \/ \E x \in 0 .. size - 1 : i \in d.buckets[x]
                              \/ \E x \in 0 .. half - 1 : i \in d.prev_buckets[x]
      BY <1>1, StoredIn
    <3>3. (\E x \in 0 .. size - 1 : i \in MovedTo(d, x)) <=> i \in d.prev_buckets[d.split]
      BY <1>1, <1>3, <1>4
    <3>4. (\E x \in 0 .. half - 1 : i \in d.prev_buckets[x]) <=>
            (\E x \in 0 .. half - 1 : i \in e.prev_buckets[x]) \/ i \in d.prev_buckets[d.split]
      BY <1>1, <2>1
    <3>5. i \in Stored(e) <=> \/ \E x \in 0 .. size - 1 : i \in d.buckets[x]
                              \/ \E x \in 0 .. size - 1 : i \in MovedTo(d, x)
                              \/ \E x \in 0 .. half - 1 : i \in e.prev_buckets[x]
      BY <3>1
    <3> QED BY <3>2, <3>3, <3>4, <3>5
  <2> QED BY <1>2, <2>1, <2>2, <2>3, <2>4, <2>5 DEF Sound, e, half, size
<1> QED BY <1>10, <1>11

LEMMA GrownMembers ==
  ASSUME NEW d, IsStruct(d)
  PROVE  LET e == Grown(d) IN
         /\ IsStruct(e)
         /\ Same(e, d, {"buckets", "prev_buckets", "bucket_size", "split"})
         /\ e.buckets = Empty(2 * d.bucket_size) /\ e.prev_buckets = d.buckets
         /\ e.bucket_size = 2 * d.bucket_size /\ e.split = 0
<1> DEFINE b == Empty(2 * d.bucket_size)
           z == 2 * d.bucket_size
           d1 == [d EXCEPT !.buckets = b]
           d2 == [d1 EXCEPT !.prev_buckets = d.buckets]
           d3 == [d2 EXCEPT !.bucket_size = z]
           d4 == [d3 EXCEPT !.split = 0]
<1>1. Grown(d) = [d EXCEPT !.buckets = b, !.prev_buckets = d.buckets,
                           !.bucket_size = z, !.split = 0]
  BY DEF Grown
<1> HIDE DEF b, z
<1>2. Grown(d) = d4
  BY <1>1
<1> HIDE DEF d1, d2, d3, d4
<1>3. IsStruct(d1) /\ d1.buckets = b /\ Same(d1, d, {"buckets"})
  BY SetBuckets DEF d1
<1>4. IsStruct(d2) /\ d2.prev_buckets = d.buckets /\ Same(d2, d1, {"prev_buckets"})
  BY <1>3, SetPrevBuckets DEF d2
<1>5. IsStruct(d3) /\ d3.bucket_size = z /\ Same(d3, d2, {"bucket_size"})
  BY <1>4, SetBucketSize DEF d3
<1>6. IsStruct(d4) /\ d4.split = 0 /\ Same(d4, d3, {"split"})
  BY <1>5, SetSplit DEF d4
<1>7. /\ d4.buckets = b /\ d4.prev_buckets = d.buckets /\ d4.bucket_size = z
      /\ Same(d4, d, {"buckets", "prev_buckets", "bucket_size", "split"})
  BY <1>3, <1>4, <1>5, <1>6 DEF Same
<1> QED BY <1>2, <1>6, <1>7 DEF b, z

\* Doubling the array.
LEMMA GrownSound ==
  ASSUME NEW d, Sound(d), d.prev_buckets = NoBuckets, d.bucket_size < SizeMax
  PROVE  /\ Sound(Grown(d))
         /\ Stored(Grown(d)) = Stored(d)
         /\ Grown(d).prev_buckets = d.buckets
         /\ Grown(d).prev_buckets # NoBuckets
         /\ Grown(d).bucket_size = 2 * d.bucket_size
         /\ Grown(d).split = 0
         /\ Grown(d).count = d.count
         /\ Grown(d).expansion = d.expansion
<1> DEFINE size == d.bucket_size
           e == Grown(d)
<1>1. /\ size \in Pow2 /\ size \in Nat \ {0} /\ 2 * size \in Pow2
      /\ d.buckets \in [0 .. size - 1 -> SUBSET Items]
      /\ d.count \in Nat /\ d.expansion \in BOOLEAN /\ IsStruct(d)
  BY NewArray, DictAssumption DEF Sound, Shape
<1>2. /\ IsStruct(e) /\ e.buckets = Empty(2 * size) /\ e.prev_buckets = d.buckets
      /\ e.bucket_size = 2 * size /\ e.split = 0
      /\ e.count = d.count /\ e.expansion = d.expansion
  BY <1>1, GrownMembers DEF Same
<1>3. \A x \in 0 .. size - 1 : \A i \in d.buckets[x] : IndexOf(i, size) = x
  BY <1>1 DEF Sound, Placed
<1> HIDE DEF size, e
<1>4. /\ e.buckets \in [0 .. 2 * size - 1 -> SUBSET Items]
      /\ \A x \in DOMAIN e.buckets : e.buckets[x] = {}
  BY <1>1, <1>2 DEF Empty
<1>5. (2 * size) % 2 = 0 /\ (2 * size) \div 2 = size
  BY <1>1
<1>6. e.prev_buckets # NoBuckets
  BY <1>1, <1>2, NoOldArray
<1>7. Shape(e)
  BY <1>1, <1>2, <1>4, <1>5 DEF Shape, IsChains
<1>8. Placed(e)
  BY <1>1, <1>2, <1>3, <1>4, <1>5 DEF Placed
<1>9. Apart(e)
  BY <1>4 DEF Apart
<1>10. ASSUME NEW i PROVE i \in Stored(e) <=> i \in Stored(d)
  <2>1. DOMAIN d.prev_buckets = {}
    BY NoOldArray
  <2> QED BY <1>2, <1>4, <2>1, StoredIn
<1> QED BY <1>2, <1>6, <1>7, <1>8, <1>9, <1>10 DEF Sound, e, size

\* wuy_dict_expasion() changes nothing, moves a bucket, or doubles the array and
\* moves its first bucket; it never loses an item.
LEMMA ExpasionSound ==
  ASSUME NEW d, Sound(d), NEW e \in Expasion(d)
  PROVE  /\ Sound(e)
         /\ Stored(e) = Stored(d)
         /\ e.count = d.count /\ e.expansion = d.expansion
         /\ \/ e = d
            \/ d.prev_buckets # NoBuckets /\ e = Split(d)
            \/ MustGrow(d) /\ e = Split(Grown(d))
<1>1. \/ e = d
      \/ d.prev_buckets # NoBuckets /\ e = Split(d)
      \/ MustGrow(d) /\ e = Split(Grown(d))
  BY DEF Expasion
<1>2. CASE e = d
  BY <1>2
<1>3. CASE d.prev_buckets # NoBuckets /\ e = Split(d)
  BY <1>3, SplitSound
<1>4. CASE MustGrow(d) /\ e = Split(Grown(d))
  <2>1. Sound(Grown(d)) /\ Grown(d).prev_buckets # NoBuckets
        /\ Stored(Grown(d)) = Stored(d)
        /\ Grown(d).count = d.count /\ Grown(d).expansion = d.expansion
    BY <1>4, GrownSound DEF MustGrow
  <2> QED BY <1>4, <2>1, SplitSound
<1> QED BY <1>1, <1>2, <1>3, <1>4

-----------------------------------------------------------------------------
(* The items in the public calls.                                          *)

LEMMA InsertedMembers ==
  ASSUME NEW d, IsStruct(d), NEW i
  PROVE  LET e == Inserted(d, i) IN
         /\ IsStruct(e) /\ Same(e, d, {"buckets", "count"})
         /\ e.buckets = [d.buckets EXCEPT ![IndexOf(i, d.bucket_size)] = @ \cup {i}]
         /\ e.count = d.count + 1
<1> DEFINE b == [d.buckets EXCEPT ![IndexOf(i, d.bucket_size)] = @ \cup {i}]
           c == d.count + 1
           d1 == [d EXCEPT !.buckets = b]
           d2 == [d1 EXCEPT !.count = c]
<1>1. Inserted(d, i) = [d EXCEPT !.buckets = b, !.count = c]
  BY DEF Inserted
<1> HIDE DEF b, c
<1>2. Inserted(d, i) = d2
  BY <1>1
<1> HIDE DEF d1, d2
<1>3. IsStruct(d1) /\ d1.buckets = b /\ Same(d1, d, {"buckets"})
  BY SetBuckets DEF d1
<1>4. IsStruct(d2) /\ d2.count = c /\ Same(d2, d1, {"count"})
  BY <1>3, SetCount DEF d2
<1>5. d2.buckets = b /\ Same(d2, d, {"buckets", "count"})
  BY <1>3, <1>4 DEF Same
<1> QED BY <1>2, <1>4, <1>5 DEF b, c

LEMMA InsertedSound ==
  ASSUME NEW d, Sound(d), NEW i \in Items, i \notin Stored(d)
  PROVE  LET e == Inserted(d, i) IN
         /\ Sound(e)
         /\ Stored(e) = Stored(d) \cup {i}
         /\ Same(e, d, {"buckets", "count"})
         /\ e.count = d.count + 1
         /\ \A x \in DOMAIN d.buckets : d.buckets[x] \subseteq e.buckets[x]
         /\ DOMAIN e.buckets = DOMAIN d.buckets
<1> DEFINE size == d.bucket_size
           e == Inserted(d, i)
           at == IndexOf(i, size)
<1>1. /\ size \in Pow2 /\ size \in Nat \ {0} /\ d.count \in Nat /\ IsStruct(d)
      /\ d.buckets \in [0 .. size - 1 -> SUBSET Items] /\ at \in 0 .. size - 1
  BY NewArray, IndexRange DEF Sound, Shape
<1>2. /\ IsStruct(e) /\ Same(e, d, {"buckets", "count"}) /\ e.count = d.count + 1
      /\ e.buckets = [d.buckets EXCEPT ![at] = @ \cup {i}]
  BY <1>1, InsertedMembers
<1>3. /\ e.bucket_size = size /\ e.prev_buckets = d.prev_buckets
      /\ e.split = d.split /\ e.expansion = d.expansion
  BY <1>2 DEF Same
<1>4. i \notin Stored(d) => \A y \in DOMAIN d.prev_buckets : i \notin d.prev_buckets[y]
  BY StoredIn
<1>5. \A x \in 0 .. size - 1 : \A j \in d.buckets[x] : IndexOf(j, size) = x
  BY <1>1 DEF Sound, Placed
<1>6. IndexOf(i, size) = at
  OBVIOUS
<1> HIDE DEF size, e, at
<1>7. /\ e.buckets \in [0 .. size - 1 -> SUBSET Items]
      /\ DOMAIN e.buckets = 0 .. size - 1
      /\ \A x \in 0 .. size - 1 :
           e.buckets[x] = IF x = at THEN d.buckets[x] \cup {i} ELSE d.buckets[x]
  BY <1>1, <1>2, ZenonT(30)
<1>8. Shape(e)
  BY <1>1, <1>2, <1>3, <1>7 DEF Sound, Shape, IsChains, size
<1>9. Placed(e)
  <2>1. ASSUME NEW x \in DOMAIN e.buckets, NEW j \in e.buckets[x]
        PROVE  IndexOf(j, e.bucket_size) = x
    <3>1. x \in 0 .. size - 1 /\ (j \in d.buckets[x] \/ (j = i /\ x = at))
      BY <1>7, <2>1
    <3> QED BY <1>3, <1>5, <1>6, <3>1
  <2> QED BY <1>3, <2>1 DEF Sound, Placed, size
<1>10. Apart(e)
  <2>1. \A x \in 0 .. size - 1, y \in DOMAIN d.prev_buckets :
          d.buckets[x] \cap d.prev_buckets[y] = {}
    BY <1>1 DEF Sound, Apart
  <2>2. \A x \in 0 .. size - 1, y \in DOMAIN d.prev_buckets :
          e.buckets[x] \cap d.prev_buckets[y] = {}
    BY <1>4, <1>7, <2>1
  <2> QED BY <1>3, <1>7, <2>2 DEF Apart
<1>11. ASSUME NEW j PROVE j \in Stored(e) <=> j \in Stored(d) \/ j = i
  <2>1. (\E x \in 0 .. size - 1 : j \in e.buckets[x]) <=>
          (\E x \in 0 .. size - 1 : j \in d.buckets[x]) \/ j = i
    BY <1>1, <1>7
  <2>2. DOMAIN d.buckets = 0 .. size - 1
    BY <1>1
  <2> QED BY <1>3, <1>7, <2>1, <2>2, StoredIn
<1>12. Stored(e) = Stored(d) \cup {i}
  BY <1>11
<1> QED BY <1>1, <1>2, <1>7, <1>8, <1>9, <1>10, <1>12 DEF Sound, e

LEMMA UnlinkedMembers ==
  ASSUME NEW d, IsStruct(d), NEW i
  PROVE  LET e == Unlinked(d, i) IN
         /\ IsStruct(e) /\ Same(e, d, {"buckets", "prev_buckets"})
         /\ e.buckets = [x \in DOMAIN d.buckets |-> d.buckets[x] \ {i}]
         /\ e.prev_buckets = [x \in DOMAIN d.prev_buckets |-> d.prev_buckets[x] \ {i}]
<1> DEFINE b == [x \in DOMAIN d.buckets |-> d.buckets[x] \ {i}]
           p == [x \in DOMAIN d.prev_buckets |-> d.prev_buckets[x] \ {i}]
           d1 == [d EXCEPT !.buckets = b]
           d2 == [d1 EXCEPT !.prev_buckets = p]
<1>1. Unlinked(d, i) = [d EXCEPT !.buckets = b, !.prev_buckets = p]
  BY DEF Unlinked
<1> HIDE DEF b, p
<1>2. Unlinked(d, i) = d2
  BY <1>1
<1> HIDE DEF d1, d2
<1>3. IsStruct(d1) /\ d1.buckets = b /\ Same(d1, d, {"buckets"})
  BY SetBuckets DEF d1
<1>4. IsStruct(d2) /\ d2.prev_buckets = p /\ Same(d2, d1, {"prev_buckets"})
  BY <1>3, SetPrevBuckets DEF d2
<1>5. d2.buckets = b /\ Same(d2, d, {"buckets", "prev_buckets"})
  BY <1>3, <1>4 DEF Same
<1> QED BY <1>2, <1>4, <1>5 DEF b, p

\* e is d without item i.
Without(e, d, i) ==
  /\ Sound(e)
  /\ Stored(e) = Stored(d) \ {i}
  /\ e.bucket_size = d.bucket_size /\ e.split = d.split /\ e.expansion = d.expansion
  /\ DOMAIN e.buckets = DOMAIN d.buckets
  /\ DOMAIN e.prev_buckets = DOMAIN d.prev_buckets
  /\ e.prev_buckets = NoBuckets <=> d.prev_buckets = NoBuckets
  /\ \A x \in DOMAIN d.buckets : e.buckets[x] = d.buckets[x] \ {i}
  /\ \A x \in DOMAIN d.prev_buckets : e.prev_buckets[x] = d.prev_buckets[x] \ {i}

LEMMA UnlinkedSound ==
  ASSUME NEW d, Sound(d), NEW i
  PROVE  Without(Unlinked(d, i), d, i) /\ Unlinked(d, i).count = d.count
<1> DEFINE e == Unlinked(d, i)
           size == d.bucket_size
           half == d.bucket_size \div 2
<1>1. /\ IsStruct(d) /\ d.buckets \in [0 .. size - 1 -> SUBSET Items]
  BY NewArray DEF Sound, Shape
<1>2. /\ IsStruct(e) /\ Same(e, d, {"buckets", "prev_buckets"})
      /\ e.buckets = [x \in DOMAIN d.buckets |-> d.buckets[x] \ {i}]
      /\ e.prev_buckets = [x \in DOMAIN d.prev_buckets |-> d.prev_buckets[x] \ {i}]
  BY <1>1, UnlinkedMembers
<1> HIDE DEF e
<1>3. /\ DOMAIN e.buckets = DOMAIN d.buckets
      /\ DOMAIN e.prev_buckets = DOMAIN d.prev_buckets
      /\ \A x \in DOMAIN d.buckets : e.buckets[x] = d.buckets[x] \ {i}
      /\ \A x \in DOMAIN d.prev_buckets : e.prev_buckets[x] = d.prev_buckets[x] \ {i}
  BY <1>2
<1>4. /\ e.bucket_size = size /\ e.split = d.split /\ e.count = d.count
      /\ e.expansion = d.expansion
  BY <1>2 DEF Same
<1>5. e.buckets \in [0 .. size - 1 -> SUBSET Items]
  BY <1>1, <1>2
<1>6. d.prev_buckets = NoBuckets => e.prev_buckets = NoBuckets
  BY <1>2, NoOldArray DEF NoBuckets
<1>7. d.prev_buckets # NoBuckets =>
        e.prev_buckets # NoBuckets /\ e.prev_buckets \in [0 .. half - 1 -> SUBSET Items]
  <2> SUFFICES ASSUME d.prev_buckets # NoBuckets
               PROVE  e.prev_buckets # NoBuckets
                      /\ e.prev_buckets \in [0 .. half - 1 -> SUBSET Items]
    OBVIOUS
  <2>1. half \in Nat \ {0} /\ d.prev_buckets \in [0 .. half - 1 -> SUBSET Items]
    BY OldArray DEF Sound
  <2>2. e.prev_buckets \in [0 .. half - 1 -> SUBSET Items]
    BY <1>2, <2>1
  <2> QED BY <2>1, <2>2, NoOldArray
<1>8. Shape(e)
  BY <1>2, <1>4, <1>5, <1>6, <1>7 DEF Sound, Shape, IsChains
<1>9. Placed(e)
  BY <1>3, <1>4 DEF Sound, Placed
<1>10. Apart(e)
  BY <1>3 DEF Sound, Apart
<1>11. ASSUME NEW j PROVE j \in Stored(e) <=> j \in Stored(d) /\ j # i
  BY <1>3, StoredIn
<1>12. Stored(e) = Stored(d) \ {i}
  BY <1>11
<1>13. e.prev_buckets = NoBuckets <=> d.prev_buckets = NoBuckets
  BY <1>6, <1>7
<1> QED BY <1>3, <1>4, <1>8, <1>9, <1>10, <1>12, <1>13 DEF Sound, Without, e

LEMMA DeletedSound ==
  ASSUME NEW d, Sound(d), Counted(d), NEW i \in Stored(d)
  PROVE  /\ Without(Deleted(d, i), d, i) /\ Counted(Deleted(d, i))
         /\ Deleted(d, i).count = d.count - 1 /\ d.count > 0
<1> DEFINE u == Unlinked(d, i)
           e == Deleted(d, i)
<1>1. Without(u, d, i)
  BY UnlinkedSound
<1>2. /\ Cardinality(Stored(d)) > 0 /\ Cardinality(Stored(d)) \in Nat
      /\ IsFiniteSet(Stored(d) \ {i})
      /\ Cardinality(Stored(d) \ {i}) = Cardinality(Stored(d)) - 1
  <2>1. IsFiniteSet(Stored(d))
    BY DEF Counted
  <2>2. /\ IsFiniteSet(Stored(d) \ {i})
        /\ Cardinality(Stored(d) \ {i}) = Cardinality(Stored(d)) - 1
    BY <2>1, FS_RemoveElement
  <2>3. Cardinality(Stored(d)) \in Nat /\ Cardinality(Stored(d) \ {i}) \in Nat
    BY <2>1, <2>2, FS_CardinalityType
  <2> QED BY <2>2, <2>3
<1>3. d.count \in Nat /\ d.count > 0 /\ d.count - 1 \in Nat
  BY <1>2 DEF Sound, Shape, Counted
<1>4. IsStruct(e) /\ e.count = d.count - 1 /\ Same(e, u, {"count"})
  BY <1>1, SetCount DEF Deleted, Without, Sound, Shape
<1> HIDE DEF u, e
<1>5. Sound(e)
  BY <1>1, <1>3, <1>4 DEF Same, Without, Sound, Shape, Placed, Apart
<1>6. Without(e, d, i)
  <2>1. Stored(e) = Stored(u)
    BY <1>4 DEF Same, Stored
  <2> QED BY <1>1, <1>4, <1>5, <2>1 DEF Same, Without
<1>7. Counted(e)
  BY <1>2, <1>3, <1>4, <1>6 DEF Counted, Without
<1> QED BY <1>3, <1>4, <1>6, <1>7 DEF e

\* _wuy_dict_get() finds an item of the key when there is one, in whichever array.
LEMMA FoundRight ==
  ASSUME NEW d, Sound(d), NEW k \in Keys
  PROVE  /\ \A i \in Found(d, k) : i \in Stored(d) /\ KeyOf[i] = k
         /\ Found(d, k) = {} => \A i \in Stored(d) : KeyOf[i] # k
<1> DEFINE size == d.bucket_size
           half == d.bucket_size \div 2
           x == Index(k, size)
           px == IF x >= half THEN x - half ELSE x
           inCurr == {i \in d.buckets[x] : KeyOf[i] = k}
           inPrev == IF d.prev_buckets = NoBuckets THEN {}
                     ELSE {i \in d.prev_buckets[px] : KeyOf[i] = k}
<1>1. Found(d, k) = IF inCurr # {} THEN inCurr ELSE inPrev
  BY DEF Found
<1>2. /\ size \in Nat \ {0} /\ Hash[k] \in Nat
      /\ d.buckets \in [0 .. size - 1 -> SUBSET Items]
  BY NewArray, DictAssumption DEF Sound
<1>3. x \in 0 .. size - 1
  BY <1>2, DivisionOf DEF Index
<1>4. d.prev_buckets # NoBuckets =>
        /\ half \in Nat \ {0} /\ size = 2 * half
        /\ d.prev_buckets \in [0 .. half - 1 -> SUBSET Items]
  BY OldArray DEF Sound
<1>5. d.prev_buckets # NoBuckets => px = Hash[k] % half /\ px \in 0 .. half - 1
  BY <1>2, <1>4, HalfIndex, ZenonT(30) DEF Index
<1>6. \A i : KeyOf[i] = k => IndexOf(i, size) = x /\ IndexOf(i, half) = Hash[k] % half
  BY DEF IndexOf, Index
<1>7. \A i : i \in inCurr => i \in Stored(d) /\ KeyOf[i] = k
  BY <1>2, <1>3, StoredIn
<1>8. \A i : i \in inPrev => i \in Stored(d) /\ KeyOf[i] = k
  <2> SUFFICES ASSUME NEW i \in inPrev PROVE i \in Stored(d) /\ KeyOf[i] = k
    OBVIOUS
  <2>1. d.prev_buckets # NoBuckets /\ i \in d.prev_buckets[px] /\ KeyOf[i] = k
    OBVIOUS
  <2>2. px \in DOMAIN d.prev_buckets
    BY <1>4, <1>5, <2>1
  <2> QED BY <2>1, <2>2, StoredIn
<1>9. ASSUME NEW i \in Stored(d), KeyOf[i] = k
      PROVE  i \in inCurr \/ i \in inPrev
  <2>1. CASE i \in d.buckets[IndexOf(i, size)]
    BY <1>6, <1>9, <2>1
  <2>2. CASE d.prev_buckets # NoBuckets /\ i \in d.prev_buckets[IndexOf(i, half)]
    BY <1>5, <1>6, <1>9, <2>2
  <2> QED BY <2>1, <2>2, StoredWhere
<1> HIDE DEF inCurr, inPrev
<1> QED BY <1>1, <1>7, <1>8, <1>9

-----------------------------------------------------------------------------
(* What a call makes of the arrays an iteration is in.                     *)

\* The old array of e, as it was in d.
OldBefore(d, e) == IF e.bucket_size = d.bucket_size THEN d.prev_buckets ELSE d.buckets

\* As long as the size stays, an old bucket gets no items; when it has doubled, the
\* old buckets were the new ones; and an old bucket is moved as a whole.
Steps(d, e) ==
  /\ e.bucket_size = d.bucket_size \/ e.bucket_size = 2 * d.bucket_size
  /\ \A y \in DOMAIN e.prev_buckets :
       /\ y \in DOMAIN OldBefore(d, e)
       /\ e.prev_buckets[y] \cap Stored(d) \subseteq OldBefore(d, e)[y]
       /\ \A x \in DOMAIN e.buckets :
            e.buckets[x] \cap OldBefore(d, e)[y] # {} => e.prev_buckets[y] = {}

LEMMA SplitOld ==
  ASSUME NEW d, Sound(d), d.prev_buckets # NoBuckets
  PROVE  \A y \in DOMAIN Split(d).prev_buckets :
           /\ y \in DOMAIN d.prev_buckets
           /\ Split(d).prev_buckets[y] \subseteq d.prev_buckets[y]
           /\ \A x \in DOMAIN Split(d).buckets :
                Split(d).buckets[x] \cap d.prev_buckets[y] # {}
                  => Split(d).prev_buckets[y] = {}
<1> DEFINE half == d.bucket_size \div 2
           p == Split(d).prev_buckets
           c == Split(d).buckets
<1>1. /\ d.prev_buckets \in [0 .. half - 1 -> SUBSET Items] /\ d.split \in 0 .. half - 1
      /\ IsStruct(d)
  BY OldArray DEF Sound, Shape
<1>2. /\ p = NoBuckets \/ p = [d.prev_buckets EXCEPT ![d.split] = {}]
      /\ c = [x \in DOMAIN d.buckets |-> d.buckets[x] \cup MovedTo(d, x)]
  BY <1>1, SplitMembers
<1> HIDE DEF p, c, half
<1>3. CASE p = NoBuckets
  BY <1>3, NoOldArray DEF p
<1>4. CASE p = [d.prev_buckets EXCEPT ![d.split] = {}]
  <2>1. DOMAIN p = DOMAIN d.prev_buckets
        /\ \A y \in DOMAIN p : p[y] = IF y = d.split THEN {} ELSE d.prev_buckets[y]
    BY <1>1, <1>4
  <2>2. ASSUME NEW y \in DOMAIN p, NEW x \in DOMAIN c, NEW j \in c[x],
               j \in d.prev_buckets[y]
        PROVE  y = d.split
    <3>1. x \in DOMAIN d.buckets /\ (j \in d.buckets[x] \/ j \in MovedTo(d, x))
      BY <1>2, <2>2
    <3>2. j \notin d.buckets[x]
      BY <2>1, <2>2, <3>1 DEF Sound, Apart
    <3>3. j \in d.prev_buckets[d.split] /\ d.split \in DOMAIN d.prev_buckets
      BY <1>1, <3>1, <3>2 DEF MovedTo
    <3> QED BY <2>1, <2>2, <3>3 DEF Sound, Placed
  <2> QED BY <2>1, <2>2 DEF p, c
<1> QED BY <1>2, <1>3, <1>4

LEMMA SameSteps ==
  ASSUME NEW d, Sound(d)
  PROVE  Steps(d, d)
BY DEF Steps, OldBefore, Sound, Apart

LEMMA ExpasionSteps ==
  ASSUME NEW d, Sound(d), NEW e \in Expasion(d)
  PROVE  Steps(d, e)
<1>0. d.bucket_size \in Nat \ {0}
  BY NewArray DEF Sound, Shape
<1>1. CASE e = d
  BY <1>1, SameSteps
<1>2. CASE d.prev_buckets # NoBuckets /\ e = Split(d)
  <2>1. e.bucket_size = d.bucket_size
    BY <1>2, SplitSound
  <2> QED BY <1>2, <2>1, SplitOld DEF Steps, OldBefore
<1>3. CASE MustGrow(d) /\ e = Split(Grown(d))
  <2> DEFINE g == Grown(d)
  <2>1. /\ Sound(g) /\ g.prev_buckets # NoBuckets /\ g.prev_buckets = d.buckets
        /\ g.bucket_size = 2 * d.bucket_size
    BY <1>3, GrownSound DEF MustGrow
  <2>2. e.bucket_size = g.bucket_size
    BY <1>3, <2>1, SplitSound
  <2>3. \A y \in DOMAIN e.prev_buckets :
          /\ y \in DOMAIN g.prev_buckets /\ e.prev_buckets[y] \subseteq g.prev_buckets[y]
          /\ \A x \in DOMAIN e.buckets :
               e.buckets[x] \cap g.prev_buckets[y] # {} => e.prev_buckets[y] = {}
    BY <1>3, <2>1, SplitOld
  <2>4. e.bucket_size # d.bucket_size /\ e.bucket_size = 2 * d.bucket_size
    BY <1>0, <2>1, <2>2
  <2> HIDE DEF g
  <2> QED BY <2>1, <2>3, <2>4 DEF Steps, OldBefore
<1> QED BY <1>1, <1>2, <1>3, ExpasionSound

LEMMA InsertSteps ==
  ASSUME NEW d, Sound(d), NEW i \in Items, i \notin Stored(d),
         NEW e \in Expasion(Inserted(d, i))
  PROVE  Steps(d, e)
<1> DEFINE f == Inserted(d, i)
<1>1. /\ Sound(f) /\ Stored(f) = Stored(d) \cup {i} /\ Same(f, d, {"buckets", "count"})
      /\ \A x \in DOMAIN d.buckets : d.buckets[x] \subseteq f.buckets[x]
      /\ DOMAIN f.buckets = DOMAIN d.buckets
  BY InsertedSound
<1>2. Steps(f, e)
  BY <1>1, ExpasionSteps
<1>3. f.bucket_size = d.bucket_size /\ f.prev_buckets = d.prev_buckets
  BY <1>1 DEF Same
<1>4. \A y \in DOMAIN d.buckets : f.buckets[y] \cap Stored(d) \subseteq d.buckets[y]
  <2>1. ASSUME NEW y \in DOMAIN d.buckets, NEW j \in f.buckets[y], j \in Stored(d)
        PROVE  j \in d.buckets[y]
    <3>1. j \in Items /\ IndexOf(j, d.bucket_size) = y
      BY <1>1, <1>3, <2>1, StoredWhere DEF Sound, Placed
    <3>2. CASE j \in d.buckets[IndexOf(j, d.bucket_size)]
      BY <3>1, <3>2
    <3>3. CASE \E x \in DOMAIN d.prev_buckets : j \in d.prev_buckets[x]
      BY <1>1, <1>3, <2>1, <3>3 DEF Sound, Apart
    <3> QED BY <2>1, <3>1, <3>2, <3>3, StoredIn DEF Sound, Placed
  <2> QED BY <2>1
<1>5. \A y \in DOMAIN OldBefore(f, e) :
        /\ y \in DOMAIN OldBefore(d, e)
        /\ OldBefore(d, e)[y] \subseteq OldBefore(f, e)[y]
        /\ OldBefore(f, e)[y] \cap Stored(d) \subseteq OldBefore(d, e)[y]
  BY <1>1, <1>3, <1>4 DEF OldBefore
<1> HIDE DEF f
<1> QED BY <1>1, <1>2, <1>3, <1>5 DEF Steps

LEMMA WithoutSteps ==
  ASSUME NEW d, NEW f, Steps(d, f), Stored(f) = Stored(d), NEW i, NEW e, Without(e, f, i)
  PROVE  Steps(d, e)
<1>1. OldBefore(d, e) = OldBefore(d, f)
  BY DEF OldBefore, Without
<1> QED BY <1>1 DEF Steps, Without

-----------------------------------------------------------------------------
(* The invariant of the struct, and what the calls do to it.               *)

DictInv ==
  /\ Sound(dict) /\ Counted(dict)
  /\ dict.count =< MaxCount
  /\ memory \in Memory

LEMMA EmptyArray ==
  ASSUME NEW size \in Nat
  PROVE  /\ Empty(size) \in [0 .. size - 1 -> SUBSET Items]
         /\ \A x \in DOMAIN Empty(size) : Empty(size)[x] = {}
BY DEF Empty

\* A dict without items or an old array, as it is made.
LEMMA EmptySound ==
  ASSUME NEW d, IsStruct(d), d.bucket_size \in Pow2, d.buckets = Empty(d.bucket_size),
         d.prev_buckets = NoBuckets, d.split \in Nat, d.count = 0, d.expansion \in BOOLEAN
  PROVE  Sound(d) /\ Counted(d) /\ Stored(d) = {}
<1>1. d.bucket_size \in Nat
  BY DictAssumption
<1>2. /\ d.buckets \in [0 .. d.bucket_size - 1 -> SUBSET Items]
      /\ \A x \in DOMAIN d.buckets : d.buckets[x] = {}
      /\ DOMAIN d.prev_buckets = {}
  BY <1>1, EmptyArray, NoOldArray
<1>3. Sound(d)
  BY <1>2 DEF Sound, Shape, IsChains, Placed, Apart
<1>4. \A i : i \notin Stored(d)
  BY <1>2, StoredIn
<1>5. Stored(d) = {}
  BY <1>4
<1> QED BY <1>3, <1>5, FS_EmptySet DEF Counted

LEMMA DictInitially == Init => DictInv /\ Stored(dict) = {}
<1> SUFFICES ASSUME Init PROVE DictInv /\ Stored(dict) = {}
  OBVIOUS
<1>1. /\ IsStruct(dict) /\ dict.bucket_size \in Pow2
      /\ dict.buckets = Empty(dict.bucket_size) /\ dict.prev_buckets = NoBuckets
      /\ dict.split \in Nat /\ dict.count = 0 /\ dict.expansion \in BOOLEAN
  BY DictAssumption DEF Init, IsStruct
<1>2. Sound(dict) /\ Counted(dict) /\ Stored(dict) = {}
  BY <1>1, EmptySound
<1>3. memory \in Memory
  BY DEF Init
<1>4. dict.count =< MaxCount
  BY <1>1, DictAssumption
<1> QED BY <1>2, <1>3, <1>4 DEF DictInv

LEMMA AddDoes ==
  ASSUME DictInv, NEW i \in Items, Add(i)
  PROVE  /\ Sound(dict') /\ Counted(dict') /\ dict'.count =< MaxCount
         /\ Stored(dict') = Stored(dict) \cup {i}
         /\ Steps(dict, dict')
<1> DEFINE f == Inserted(dict, i)
<1>1. i \notin Stored(dict) /\ dict.count < MaxCount /\ dict' \in Expasion(f)
  BY DEF Add
<1>2. /\ Sound(f) /\ Stored(f) = Stored(dict) \cup {i} /\ f.count = dict.count + 1
      /\ f.expansion = dict.expansion
  BY <1>1, InsertedSound DEF DictInv, Same
<1>3. /\ Sound(dict') /\ Stored(dict') = Stored(f) /\ dict'.count = f.count
      /\ dict'.expansion = f.expansion
  BY <1>1, <1>2, ExpasionSound
<1>4. /\ IsFiniteSet(Stored(f)) /\ Cardinality(Stored(f)) = Cardinality(Stored(dict)) + 1
      /\ Cardinality(Stored(dict)) \in Nat
  BY <1>1, <1>2, FS_AddElement, FS_CardinalityType DEF DictInv, Counted
<1>5. Counted(dict') /\ dict'.count =< MaxCount
  BY <1>1, <1>2, <1>3, <1>4, DictAssumption DEF DictInv, Counted, Sound, Shape
<1> QED BY <1>1, <1>2, <1>3, <1>5, InsertSteps DEF DictInv

LEMMA GetDoes ==
  ASSUME DictInv, NEW k \in Keys, Get(k)
  PROVE  /\ Sound(dict') /\ Counted(dict') /\ dict'.count =< MaxCount
         /\ Stored(dict') = Stored(dict)
         /\ Steps(dict, dict')
<1>1. dict' \in Expasion(dict)
  BY DEF Get
<1>2. /\ Sound(dict') /\ Stored(dict') = Stored(dict) /\ dict'.count = dict.count
      /\ dict'.expansion = dict.expansion
  BY <1>1, ExpasionSound DEF DictInv
<1> QED BY <1>1, <1>2, ExpasionSteps DEF DictInv, Counted

LEMMA DeleteDoes ==
  ASSUME DictInv, NEW i \in Items, Delete(i)
  PROVE  /\ Sound(dict') /\ Counted(dict') /\ dict'.count =< MaxCount
         /\ Stored(dict') = Stored(dict) \ {i}
         /\ Steps(dict, dict')
<1>1. i \in Stored(dict) /\ dict' = Deleted(dict, i)
  BY DEF Delete
<1>2. /\ Without(dict', dict, i) /\ Counted(dict') /\ dict'.count = dict.count - 1
  BY <1>1, DeletedSound DEF DictInv
<1>3. Steps(dict, dict)
  BY SameSteps DEF DictInv
<1>4. Steps(dict, dict')
  BY <1>2, <1>3, WithoutSteps
<1> QED BY <1>2, <1>4, DictAssumption DEF Without, DictInv, Sound, Shape

LEMMA DelKeyDoes ==
  ASSUME DictInv, NEW k \in Keys, DelKey(k)
  PROVE  /\ Sound(dict') /\ Counted(dict') /\ dict'.count =< MaxCount
         /\ Steps(dict, dict')
         /\ \/ \E i \in Stored(dict) : /\ KeyOf[i] = k /\ ret' = <<k, i>>
                                       /\ Stored(dict') = Stored(dict) \ {i}
            \/ /\ \A i \in Stored(dict) : KeyOf[i] # k
               /\ ret' = <<k, NoItem>> /\ Stored(dict') = Stored(dict)
<1>1. PICK d \in Expasion(dict) :
        \/ \E i \in Found(d, k) : dict' = Deleted(d, i) /\ ret' = <<k, i>>
        \/ Found(d, k) = {} /\ dict' = d /\ ret' = <<k, NoItem>>
  BY DEF DelKey
<1>2. /\ Sound(d) /\ Stored(d) = Stored(dict) /\ d.count = dict.count
      /\ d.expansion = dict.expansion /\ Steps(dict, d)
  BY ExpasionSound, ExpasionSteps DEF DictInv
<1>3. Counted(d) /\ d.count =< MaxCount
  BY <1>2 DEF DictInv, Counted
<1>4. /\ \A i \in Found(d, k) : i \in Stored(d) /\ KeyOf[i] = k
      /\ Found(d, k) = {} => \A i \in Stored(d) : KeyOf[i] # k
  BY <1>2, FoundRight
<1>5. ASSUME NEW i \in Found(d, k), dict' = Deleted(d, i)
      PROVE  /\ Sound(dict') /\ Counted(dict') /\ dict'.count =< MaxCount
             /\ Stored(dict') = Stored(dict) \ {i} /\ Steps(dict, dict')
  <2>1. /\ Without(dict', d, i) /\ Counted(dict') /\ dict'.count = d.count - 1
    BY <1>2, <1>3, <1>4, <1>5, DeletedSound
  <2>2. Steps(dict, dict')
    BY <1>2, <2>1, WithoutSteps
  <2> QED BY <1>2, <1>3, <2>1, <2>2, DictAssumption DEF Without, Sound, Shape
<1>6. CASE \E i \in Found(d, k) : dict' = Deleted(d, i) /\ ret' = <<k, i>>
  <2>1. PICK i \in Found(d, k) : dict' = Deleted(d, i) /\ ret' = <<k, i>>
    BY <1>6
  <2> QED BY <1>2, <1>4, <1>5, <2>1
<1>7. CASE Found(d, k) = {} /\ dict' = d /\ ret' = <<k, NoItem>>
  BY <1>2, <1>3, <1>4, <1>7
<1> QED BY <1>1, <1>6, <1>7

LEMMA DelNodeDoes ==
  ASSUME DictInv, NEW i \in Items, DelNode(i)
  PROVE  /\ Sound(dict') /\ Counted(dict') /\ dict'.count =< MaxCount
         /\ Stored(dict') = Stored(dict) \ {i}
         /\ Steps(dict, dict')
<1>1. i \in Stored(dict) /\ dict' = Unlinked(dict, i) /\ ~dict.expansion
  BY DEF DelNode
<1>2. Without(dict', dict, i) /\ dict'.count = dict.count
  BY <1>1, UnlinkedSound DEF DictInv
<1>3. Steps(dict, dict)
  BY SameSteps DEF DictInv
<1>4. Steps(dict, dict')
  BY <1>2, <1>3, WithoutSteps
<1>5. /\ IsFiniteSet(Stored(dict) \ {i})
      /\ Cardinality(Stored(dict) \ {i}) =< Cardinality(Stored(dict))
      /\ Cardinality(Stored(dict)) \in Nat /\ Cardinality(Stored(dict) \ {i}) \in Nat
  <2>1. IsFiniteSet(Stored(dict)) /\ Cardinality(Stored(dict)) \in Nat
    BY FS_CardinalityType DEF DictInv, Counted
  <2>2. /\ IsFiniteSet(Stored(dict) \ {i})
        /\ Cardinality(Stored(dict) \ {i}) = Cardinality(Stored(dict)) - 1
    BY <1>1, <2>1, FS_RemoveElement
  <2> QED BY <2>1, <2>2, FS_CardinalityType
<1>6. Counted(dict')
  BY <1>1, <1>2, <1>5 DEF Without, Counted, DictInv, Sound, Shape
<1> QED BY <1>2, <1>4, <1>6 DEF Without, DictInv

LEMMA DisableDoes ==
  ASSUME DictInv, NEW size \in FixedSizes, DisableExpasion(size)
  PROVE  /\ Sound(dict') /\ Counted(dict') /\ dict'.count =< MaxCount
         /\ dict'.expansion = FALSE
         /\ Stored(dict) = {} /\ Stored(dict') = {}
<1>1. PICK align \in Pow2 :
        dict' = [dict EXCEPT !.expansion = FALSE, !.bucket_size = align,
                             !.buckets = Empty(align)]
  BY DEF DisableExpasion
<1>2. dict.count = 0 /\ dict.prev_buckets = NoBuckets
  BY DEF DisableExpasion
<1>3. IsStruct(dict) /\ dict.split \in Nat
  BY DEF DictInv, Sound, Shape
<1> DEFINE d1 == [dict EXCEPT !.expansion = FALSE]
           d2 == [d1 EXCEPT !.bucket_size = align]
           d3 == [d2 EXCEPT !.buckets = Empty(align)]
<1>4. dict' = d3
  BY <1>1
<1> HIDE DEF d1, d2, d3
<1>5. IsStruct(d1) /\ d1.expansion = FALSE /\ Same(d1, dict, {"expansion"})
  BY <1>3, SetExpansion DEF d1
<1>6. IsStruct(d2) /\ d2.bucket_size = align /\ Same(d2, d1, {"bucket_size"})
  BY <1>5, SetBucketSize DEF d2
<1>7. IsStruct(d3) /\ d3.buckets = Empty(align) /\ Same(d3, d2, {"buckets"})
  BY <1>6, SetBuckets DEF d3
<1>8. /\ d3.bucket_size = align /\ d3.expansion = FALSE /\ d3.prev_buckets = NoBuckets
      /\ d3.split = dict.split /\ d3.count = 0
  BY <1>2, <1>5, <1>6, <1>7 DEF Same
<1>9. Sound(d3) /\ Counted(d3) /\ Stored(d3) = {}
  BY <1>3, <1>7, <1>8, EmptySound
<1>10. Stored(dict) = {}
  <2>1. Cardinality(Stored(dict)) = 0
    BY <1>2, FS_CardinalityType DEF DictInv, Counted
  <2> QED BY <2>1, FS_EmptySet DEF DictInv, Counted
<1> QED BY <1>4, <1>8, <1>9, <1>10, DictAssumption

\* A call of the program, that is not wuy_dict_disable_expasion().
ACall ==
  \/ \E i \in Items : Add(i) \/ Delete(i) \/ DelNode(i)
  \/ \E k \in Keys : Get(k) \/ DelKey(k)

IterStep == IterBegin \/ IterBucket \/ IterItem \/ IterFreed \/ IterOld \/ IterEnd

\* What a call does to the iteration.
IterCalled == (iter = NoIter /\ iter' = NoIter) \/ BodyCalled

LEMMA NextCases ==
  ASSUME [Next]_vars
  PROVE  \/ ACall /\ IterCalled /\ memory' = memory
         \/ /\ \E size \in FixedSizes : DisableExpasion(size)
            /\ iter = NoIter /\ iter' = NoIter /\ memory' = memory
         \/ IterStep /\ UNCHANGED <<dict, ret, memory>>
         \/ UNCHANGED vars
BY DEF Next, ACall, IterCalled, IterStep, IterBegin, IterBucket, IterItem, IterFreed, IterOld,
       IterEnd, vars

LEMMA CallDoes ==
  ASSUME DictInv, ACall
  PROVE  /\ Sound(dict') /\ Counted(dict') /\ dict'.count =< MaxCount
         /\ Steps(dict, dict')
BY AddDoes, GetDoes, DeleteDoes, DelKeyDoes, DelNodeDoes DEF ACall

LEMMA DictStep == DictInv /\ [Next]_vars => DictInv'
<1> SUFFICES ASSUME DictInv, [Next]_vars PROVE DictInv'
  OBVIOUS
<1>1. CASE ACall /\ memory' = memory
  BY <1>1, CallDoes DEF DictInv
<1>2. CASE (\E size \in FixedSizes : DisableExpasion(size)) /\ memory' = memory
  BY <1>2, DisableDoes DEF DictInv
<1>3. CASE UNCHANGED <<dict, memory>>
  BY <1>3 DEF DictInv
<1> QED BY <1>1, <1>2, <1>3, NextCases DEF vars

LEMMA DictInvImplies == DictInv => TypeOK /\ InPlace
<1> SUFFICES ASSUME DictInv PROVE TypeOK /\ InPlace
  OBVIOUS
<1>1. TypeOK
  BY DictAssumption DEF DictInv, Sound, Shape, TypeOK
<1>2. InPlace
  BY DEF DictInv, Sound, Placed, InPlace
<1> QED BY <1>1, <1>2

\* Whatever is called, the arrays have the lengths that bucket_size says and the
\* bucket to be moved next is one of the old array.
THEOREM TypeTheorem == Spec => []TypeOK
<1>1. Init => DictInv BY DictInitially
<1>2. DictInv => TypeOK BY DictInvImplies
<1> QED BY <1>1, <1>2, DictStep, PTL DEF Spec

\* An item is always in the chain that wuy_dict_get() walks for its key, through
\* every stage of every expansion.
THEOREM InPlaceTheorem == Spec => []InPlace
<1>1. Init => DictInv BY DictInitially
<1>2. DictInv => InPlace BY DictInvImplies
<1> QED BY <1>1, <1>2, DictStep, PTL DEF Spec

-----------------------------------------------------------------------------
(* The load.                                                               *)

\* One more item, or none, and the load is what LoadBounded allows.
LoadBelow(d, more) ==
  /\ d.bucket_size < SizeMax => d.count < Factor * d.bucket_size + more
  /\ d.prev_buckets # NoBuckets => d.count < d.bucket_size + d.split + more

LEMMA ExpasionLoad ==
  ASSUME NEW d, Sound(d), d.expansion, LoadBelow(d, 1), memory # "short",
         NEW e \in Expasion(d)
  PROVE  LoadBelow(e, 0)
<1>0. d.bucket_size \in Nat \ {0} /\ d.count \in Nat /\ d.split \in Nat /\ SizeMax \in Nat
  BY NewArray, DictAssumption DEF Sound, Shape
<1>1. CASE MustGrow(d)
  <2> DEFINE g == Grown(d)
  <2>1. e = Split(g)
    BY <1>1 DEF Expasion
  <2>2. /\ Sound(g) /\ g.prev_buckets # NoBuckets /\ g.bucket_size = 2 * d.bucket_size
        /\ g.split = 0 /\ g.count = d.count
    BY <1>1, GrownSound DEF MustGrow
  <2>3. e.bucket_size = 2 * d.bucket_size /\ e.split = 1 /\ e.count = d.count
    BY <2>1, <2>2, SplitSound
  <2>4. d.count < 2 * d.bucket_size + 1
    BY <1>1 DEF MustGrow, LoadBelow, Factor
  <2> QED BY <1>0, <2>3, <2>4 DEF LoadBelow, Factor
<1>2. CASE d.prev_buckets # NoBuckets
  <2>1. e = Split(d)
    BY <1>2 DEF Expasion, MustGrow
  <2>2. e.bucket_size = d.bucket_size /\ e.split = d.split + 1 /\ e.count = d.count
    BY <1>2, <2>1, SplitSound
  <2>3. d.split < d.bucket_size \div 2 /\ d.bucket_size = 2 * (d.bucket_size \div 2)
    BY <1>2, OldArray DEF Sound
  <2>4. d.count < d.bucket_size + d.split + 1
    BY <1>2 DEF LoadBelow
  <2> QED BY <1>0, <2>2, <2>3, <2>4 DEF LoadBelow, Factor
<1>3. CASE ~MustGrow(d) /\ d.prev_buckets = NoBuckets
  <2>1. e = d
    BY <1>3 DEF Expasion
  <2> QED BY <1>0, <1>3, <2>1 DEF LoadBelow, MustGrow, Factor
<1> QED BY <1>1, <1>2, <1>3

LoadInv == memory = "ample" /\ dict.expansion => LoadBelow(dict, 0)

LEMMA LoadStep == DictInv /\ LoadInv /\ [Next]_vars => LoadInv'
<1> SUFFICES ASSUME DictInv, LoadInv, [Next]_vars, memory' = "ample", dict'.expansion
             PROVE  LoadBelow(dict', 0)
  BY DEF LoadInv
<1>1. memory = "ample"
  BY NextCases DEF vars
<1>2. dict.count \in Nat /\ dict.bucket_size \in Nat /\ dict.split \in Nat
  BY NewArray DEF DictInv, Sound, Shape
<1>3. ASSUME NEW i \in Items, Add(i) PROVE LoadBelow(dict', 0)
  <2> DEFINE f == Inserted(dict, i)
  <2>1. i \notin Stored(dict) /\ dict' \in Expasion(f)
    BY <1>3 DEF Add
  <2>2. Sound(f) /\ f.count = dict.count + 1 /\ Same(f, dict, {"buckets", "count"})
    BY <2>1, InsertedSound DEF DictInv
  <2>3. f.expansion /\ dict.expansion
    BY <2>1, <2>2, ExpasionSound DEF Same
  <2>4. LoadBelow(dict, 0)
    BY <1>1, <2>3 DEF LoadInv
  <2>5. LoadBelow(f, 1)
    BY <1>2, <2>2, <2>4, DictAssumption DEF Same, LoadBelow, Factor
  <2> QED BY <1>1, <2>1, <2>2, <2>3, <2>5, ExpasionLoad
<1>4. ASSUME NEW d \in Expasion(dict), d.expansion PROVE LoadBelow(d, 0)
  <2>1. dict.expansion
    BY <1>4, ExpasionSound DEF DictInv
  <2>2. LoadBelow(dict, 1)
    BY <1>1, <1>2, <2>1, DictAssumption DEF LoadInv, LoadBelow, Factor
  <2> QED BY <1>1, <1>4, <2>1, <2>2, ExpasionLoad DEF DictInv
<1>5. ASSUME NEW d, Sound(d), Counted(d), NEW i \in Stored(d), dict' = Deleted(d, i),
             d.expansion => LoadBelow(d, 0)
      PROVE  LoadBelow(dict', 0)
  <2>1. /\ Without(dict', d, i) /\ dict'.count = d.count - 1
    BY <1>5, DeletedSound
  <2>2. d.bucket_size \in Nat /\ d.count \in Nat /\ d.split \in Nat
    BY <1>5, NewArray DEF Sound, Shape
  <2> QED BY <1>5, <2>1, <2>2, DictAssumption DEF Without, LoadBelow, Factor
<1>6. ASSUME NEW k \in Keys, Get(k) PROVE LoadBelow(dict', 0)
  BY <1>4, <1>6 DEF Get
<1>7. ASSUME NEW i \in Items, Delete(i) PROVE LoadBelow(dict', 0)
  BY <1>1, <1>5, <1>7 DEF Delete, DictInv, LoadInv
<1>8. ASSUME NEW k \in Keys, DelKey(k) PROVE LoadBelow(dict', 0)
  <2>1. PICK d \in Expasion(dict) :
          (\E i \in Found(d, k) : dict' = Deleted(d, i)) \/ dict' = d
    BY <1>8 DEF DelKey
  <2>2. Sound(d) /\ Counted(d)
    BY ExpasionSound DEF DictInv, Counted
  <2>3. \A i \in Found(d, k) : i \in Stored(d)
    BY <2>2, FoundRight
  <2> QED BY <1>4, <1>5, <2>1, <2>2, <2>3
<1>9. ASSUME NEW i \in Items, DelNode(i) PROVE FALSE
  BY <1>9, UnlinkedSound DEF DelNode, DictInv, Without
<1>10. ASSUME NEW size \in FixedSizes, DisableExpasion(size) PROVE FALSE
  BY <1>10, DisableDoes
<1>11. CASE dict' = dict
  BY <1>1, <1>11 DEF LoadInv
<1> QED BY <1>3, <1>6, <1>7, <1>8, <1>9, <1>10, <1>11, NextCases DEF ACall, vars

\* With memory available the table always grows in time, one bucket per call, and
\* the count is right at every stage of it.
THEOREM LoadTheorem == Spec => []LoadBounded
<1>1. Init => DictInv /\ LoadInv
  <2>1. ASSUME Init PROVE LoadInv
    <3>1. /\ dict.count = 0 /\ dict.bucket_size = SizeInit /\ SizeInit \in Nat \ {0}
          /\ dict.prev_buckets = NoBuckets
      BY <2>1, DictAssumption DEF Init
    <3> QED BY <3>1 DEF LoadInv, LoadBelow, Factor
  <2> QED BY <2>1, DictInitially
<1>2. DictInv /\ LoadInv => LoadBounded
  <2> SUFFICES ASSUME DictInv, LoadInv PROVE LoadBounded
    OBVIOUS
  <2>1. dict.count \in Nat /\ dict.bucket_size \in Nat /\ dict.split \in Nat
    BY NewArray DEF DictInv, Sound, Shape
  <2> QED BY <2>1 DEF DictInv, Counted, LoadInv, LoadBelow, LoadBounded, Factor
<1> QED BY <1>1, <1>2, DictStep, LoadStep, PTL DEF Spec

-----------------------------------------------------------------------------
(* The iteration.                                                          *)

\* Where a stored item is: the facts about ArrayOf.
WhereIs(d, i) ==
  /\ i \in Items /\ ArrayOf(d, i) \in Nat \ {0}
  /\ IndexOf(i, ArrayOf(d, i)) \in 0 .. ArrayOf(d, i) - 1
  /\ ArrayOf(d, i) \in DOMAIN Arrays(d)
  /\ i \in Arrays(d)[ArrayOf(d, i)][IndexOf(i, ArrayOf(d, i))]
  /\ \/ /\ ArrayOf(d, i) = d.bucket_size
        /\ IndexOf(i, ArrayOf(d, i)) \in DOMAIN d.buckets
        /\ i \in d.buckets[IndexOf(i, ArrayOf(d, i))]
        /\ \A y \in DOMAIN d.prev_buckets : i \notin d.prev_buckets[y]
     \/ /\ 2 * ArrayOf(d, i) = d.bucket_size /\ d.prev_buckets # NoBuckets
        /\ ArrayOf(d, i) # d.bucket_size
        /\ IndexOf(i, ArrayOf(d, i)) \in DOMAIN d.prev_buckets
        /\ i \in d.prev_buckets[IndexOf(i, ArrayOf(d, i))]
        /\ ~(IndexOf(i, ArrayOf(d, i)) < d.split)

\* The array an iteration can be in.
LEMMA WhichArray ==
  ASSUME NEW d, Sound(d)
  PROVE  LET size == d.bucket_size
             half == d.bucket_size \div 2 IN
         /\ size \in Nat \ {0} /\ size \in DOMAIN Arrays(d) /\ Arrays(d)[size] = d.buckets
         /\ d.prev_buckets # NoBuckets =>
              /\ half \in DOMAIN Arrays(d) /\ Arrays(d)[half] = d.prev_buckets
              /\ 2 * half = size /\ half # size /\ half \in Nat \ {0}
         /\ \A s \in DOMAIN Arrays(d) :
              s = size \/ (s = half /\ d.prev_buckets # NoBuckets)
<1> DEFINE size == d.bucket_size
           half == d.bucket_size \div 2
           S == {size} \cup (IF d.prev_buckets = NoBuckets THEN {} ELSE {half})
<1>1. Arrays(d) = [s \in S |-> IF s = size THEN d.buckets ELSE d.prev_buckets]
  BY DEF Arrays
<1>2. size \in Nat \ {0}
  BY NewArray DEF Sound
<1>3. d.prev_buckets # NoBuckets => size = 2 * half /\ half \in Nat \ {0} /\ half # size
  BY OldArray DEF Sound
<1>4. DOMAIN Arrays(d) = S
      /\ \A s \in S : Arrays(d)[s] = IF s = size THEN d.buckets ELSE d.prev_buckets
  BY <1>1
<1>5. size \in S /\ (d.prev_buckets # NoBuckets => half \in S)
      /\ \A s \in S : s = size \/ (s = half /\ d.prev_buckets # NoBuckets)
  OBVIOUS
<1> HIDE DEF size, half, S
<1> QED BY <1>2, <1>3, <1>4, <1>5 DEF size, half

LEMMA StoredIs ==
  ASSUME NEW d, Sound(d), NEW i \in Stored(d)
  PROVE  WhereIs(d, i)
<1> DEFINE size == d.bucket_size
           half == d.bucket_size \div 2
           a == ArrayOf(d, i)
<1>1. /\ size \in Nat \ {0} /\ size \in Pow2 /\ size \in DOMAIN Arrays(d)
      /\ Arrays(d)[size] = d.buckets
      /\ d.buckets \in [0 .. size - 1 -> SUBSET Items]
      /\ d.prev_buckets # NoBuckets =>
           /\ half \in DOMAIN Arrays(d) /\ Arrays(d)[half] = d.prev_buckets
           /\ 2 * half = size /\ half # size /\ half \in Nat \ {0}
           /\ d.prev_buckets \in [0 .. half - 1 -> SUBSET Items]
  BY WhichArray, NewArray, OldArray DEF Sound, Shape
<1>2. i \in Items
  BY StoredWhere
<1>3. CASE i \in d.buckets[IndexOf(i, size)]
  <2>1. a = size /\ IndexOf(i, size) \in 0 .. size - 1
    BY <1>1, <1>2, <1>3, IndexRange DEF ArrayOf
  <2>2. \A y \in DOMAIN d.prev_buckets : i \notin d.prev_buckets[y]
    BY <1>1, <1>3, <2>1 DEF Sound, Apart
  <2> HIDE DEF size
  <2> QED BY <1>1, <1>2, <1>3, <2>1, <2>2 DEF WhereIs, size
<1>4. CASE i \notin d.buckets[IndexOf(i, size)]
  <2>1. d.prev_buckets # NoBuckets /\ i \in d.prev_buckets[IndexOf(i, half)] /\ a = half
    BY <1>4, StoredWhere DEF ArrayOf
  <2>2. IndexOf(i, half) \in 0 .. half - 1
    BY <1>1, <1>2, <2>1, IndexHalves
  <2>3. ~(IndexOf(i, half) < d.split)
    BY <1>1, <2>1, <2>2 DEF Sound, Placed
  <2> HIDE DEF size, half
  <2> QED BY <1>1, <1>2, <2>1, <2>2, <2>3 DEF WhereIs, size, half
<1> QED BY <1>3, <1>4

\* The items of a chain.
LEMMA ChainItems ==
  ASSUME NEW d, Sound(d), NEW s \in DOMAIN Arrays(d), NEW x \in 0 .. s - 1,
         NEW i \in Arrays(d)[s][x]
  PROVE  i \in Stored(d) /\ ArrayOf(d, i) = s /\ IndexOf(i, s) = x
<1> DEFINE size == d.bucket_size
           half == d.bucket_size \div 2
<1>1. /\ size \in Nat \ {0} /\ Arrays(d)[size] = d.buckets
      /\ d.buckets \in [0 .. size - 1 -> SUBSET Items]
      /\ d.prev_buckets # NoBuckets =>
           /\ Arrays(d)[half] = d.prev_buckets /\ half # size
           /\ d.prev_buckets \in [0 .. half - 1 -> SUBSET Items]
      /\ s = size \/ (s = half /\ d.prev_buckets # NoBuckets)
  BY WhichArray, NewArray, OldArray DEF Sound
<1>2. CASE s = size
  <2>1. x \in DOMAIN d.buckets /\ i \in d.buckets[x]
    BY <1>1, <1>2
  <2> QED BY <1>2, <2>1, StoredIn DEF Sound, Placed, ArrayOf
<1>3. CASE s = half /\ d.prev_buckets # NoBuckets
  <2>1. x \in DOMAIN d.prev_buckets /\ i \in d.prev_buckets[x]
    BY <1>1, <1>3
  <2>2. i \in Stored(d) /\ IndexOf(i, half) = x
    BY <2>1, StoredIn DEF Sound, Placed
  <2>3. WhereIs(d, i)
    BY <2>2, StoredIs
  <2>4. ArrayOf(d, i) # size
    BY <2>1, <2>3 DEF WhereIs
  <2> QED BY <1>3, <2>2, <2>4 DEF ArrayOf
<1> QED BY <1>1, <1>2, <1>3

\* A call moves items to larger arrays only,
LEMMA Forward ==
  ASSUME NEW d, NEW e, Sound(d), Sound(e), Steps(d, e), NEW i \in Stored(d), i \in Stored(e)
  PROVE  /\ ArrayOf(d, i) =< ArrayOf(e, i)
         /\ ArrayOf(e, i) = ArrayOf(d, i) /\ ArrayOf(d, i) # d.bucket_size =>
              e.bucket_size = d.bucket_size
<1>1. WhereIs(d, i) /\ WhereIs(e, i)
  BY StoredIs
<1>2. d.bucket_size \in Nat \ {0} /\ e.bucket_size \in Nat \ {0}
  BY NewArray DEF Sound
<1>3. CASE e.bucket_size = d.bucket_size
  <2>1. ASSUME ArrayOf(d, i) = d.bucket_size PROVE ArrayOf(e, i) = e.bucket_size
    <3>1. \A y \in DOMAIN e.prev_buckets : i \notin e.prev_buckets[y]
      BY <1>1, <1>2, <1>3, <2>1 DEF WhereIs, Steps, OldBefore
    <3> QED BY <1>1, <3>1 DEF WhereIs
  <2> QED BY <1>1, <1>2, <1>3, <2>1 DEF WhereIs
<1>4. CASE e.bucket_size = 2 * d.bucket_size
  BY <1>1, <1>2, <1>4 DEF WhereIs
<1> QED BY <1>3, <1>4 DEF Steps

\* and moves a chain as a whole.
LEMMA Together ==
  ASSUME NEW d, NEW e, Sound(d), Sound(e), Steps(d, e),
         NEW i \in Stored(d), i \in Stored(e), NEW j \in Stored(d), j \in Stored(e),
         NEW a, ArrayOf(d, i) = a, ArrayOf(d, j) = a, IndexOf(i, a) = IndexOf(j, a),
         ArrayOf(e, i) = a
  PROVE  ArrayOf(e, j) = a
<1> DEFINE y == IndexOf(i, a)
<1>1. WhereIs(d, i) /\ WhereIs(e, i) /\ WhereIs(d, j) /\ WhereIs(e, j)
  BY StoredIs
<1>2. d.bucket_size \in Nat \ {0} /\ e.bucket_size \in Nat \ {0} /\ a \in Nat \ {0}
  BY <1>1, NewArray DEF Sound, WhereIs
<1>3. a =< ArrayOf(e, j) /\ ArrayOf(e, j) \in Nat
  BY <1>1, Forward DEF WhereIs
<1>4. CASE a = e.bucket_size
  BY <1>1, <1>2, <1>3, <1>4 DEF WhereIs
<1>5. CASE a # e.bucket_size
  <2>1. y \in DOMAIN e.prev_buckets /\ i \in e.prev_buckets[y] /\ 2 * a = e.bucket_size
    BY <1>1, <1>5 DEF WhereIs
  <2>2. j \in OldBefore(d, e)[y]
    <3>1. CASE e.bucket_size = d.bucket_size
      BY <1>1, <1>5, <3>1 DEF WhereIs, OldBefore
    <3>2. CASE e.bucket_size = 2 * d.bucket_size
      <4>1. a = d.bucket_size /\ e.bucket_size # d.bucket_size
        BY <1>2, <2>1, <3>2
      <4> QED BY <1>1, <4>1 DEF WhereIs, OldBefore
    <3> QED BY <3>1, <3>2 DEF Steps
  <2>3. \A x \in DOMAIN e.buckets : j \notin e.buckets[x]
    BY <2>1, <2>2 DEF Steps
  <2>4. ArrayOf(e, j) # e.bucket_size
    BY <1>1, <2>3 DEF WhereIs
  <2> QED BY <1>1, <1>2, <2>1, <2>4 DEF WhereIs
<1> QED BY <1>4, <1>5
-----------------------------------------------------------------------------
(* The invariant of an iteration.                                          *)

IsIter(it) ==
  it = [array |-> it.array, at |-> it.at, end |-> it.end, pos |-> it.pos,
        ahead |-> it.ahead, met |-> it.met, due |-> it.due]

\* What is met is in the array the iteration is in, in a bucket it has come to, or has
\* been carried off.
MetBehind ==
  \A i \in iter.met :
    /\ iter.array =< ArrayOf(dict, i)
    /\ ArrayOf(dict, i) = iter.array =>
         \/ IndexOf(i, iter.array) < iter.at
         \/ iter.pos # NoItem /\ IndexOf(i, iter.array) = iter.at

\* What is due and not met is still ahead.
DueAhead ==
  \A i \in iter.due \ iter.met :
    \/ /\ ArrayOf(dict, i) = iter.array
       /\ \/ IndexOf(i, iter.array) > iter.at
          \/ IndexOf(i, iter.array) = iter.at /\ (iter.pos = NoItem \/ i \in iter.ahead)
    \/ iter.array = dict.bucket_size /\ ArrayOf(dict, i) # iter.array

\* The item at hand and those behind it are of the bucket the iteration is at, and
\* those are not met; or all of them are in other arrays.
ItemAtHand ==
  iter.pos # NoItem =>
    /\ iter.pos \in Stored(dict) /\ iter.ahead \subseteq Stored(dict)
    /\ iter.pos \notin iter.ahead /\ iter.array =< ArrayOf(dict, iter.pos)
    /\ ~Astray => /\ IndexOf(iter.pos, iter.array) = iter.at
                  /\ \A i \in iter.ahead : /\ ArrayOf(dict, i) = iter.array
                                           /\ IndexOf(i, iter.array) = iter.at
                                           /\ i \notin iter.met
    /\ Astray => \A i \in iter.ahead : iter.array < ArrayOf(dict, i)

Iterating ==
  /\ IsIter(iter)
  /\ iter.array \in Nat \ {0} /\ iter.at \in Nat /\ iter.end = iter.array
  /\ iter.array =< dict.bucket_size
  /\ iter.met \subseteq Stored(dict) /\ iter.due \subseteq Stored(dict)
  /\ MetBehind /\ DueAhead /\ ItemAtHand

IterInv == iter # NoIter => Iterating

\* The members of the iteration when some of them are assigned.
LEMMA SetPlace ==
  ASSUME IsIter(iter), NEW a, NEW at, NEW end,
         iter' = [iter EXCEPT !.array = a, !.at = at, !.end = end]
  PROVE  /\ IsIter(iter') /\ iter'.array = a /\ iter'.at = at /\ iter'.end = end
         /\ iter'.pos = iter.pos /\ iter'.ahead = iter.ahead
         /\ iter'.met = iter.met /\ iter'.due = iter.due
<1> DEFINE j == [iter EXCEPT !.array = a]
           k == [j EXCEPT !.at = at]
<1>1. /\ IsIter(j) /\ j.array = a /\ j.met = iter.met /\ j.due = iter.due
      /\ j.pos = iter.pos /\ j.ahead = iter.ahead
  BY DEF IsIter
<1>2. iter' = [k EXCEPT !.end = end]
  OBVIOUS
<1> HIDE DEF j
<1>3. /\ IsIter(k) /\ k.array = a /\ k.at = at /\ k.met = iter.met /\ k.due = iter.due
      /\ k.pos = iter.pos /\ k.ahead = iter.ahead
  BY <1>1 DEF IsIter
<1> HIDE DEF k
<1> QED BY <1>2, <1>3 DEF IsIter

LEMMA SetItem ==
  ASSUME IsIter(iter), NEW pos, NEW ahead, NEW met,
         iter' = [iter EXCEPT !.pos = pos, !.ahead = ahead, !.met = met]
  PROVE  /\ IsIter(iter') /\ iter'.pos = pos /\ iter'.ahead = ahead /\ iter'.met = met
         /\ iter'.array = iter.array /\ iter'.at = iter.at /\ iter'.end = iter.end
         /\ iter'.due = iter.due
<1> DEFINE j == [iter EXCEPT !.pos = pos]
           k == [j EXCEPT !.ahead = ahead]
<1>1. /\ IsIter(j) /\ j.pos = pos /\ j.due = iter.due
      /\ j.array = iter.array /\ j.at = iter.at /\ j.end = iter.end
  BY DEF IsIter
<1>2. iter' = [k EXCEPT !.met = met]
  OBVIOUS
<1> HIDE DEF j
<1>3. /\ IsIter(k) /\ k.pos = pos /\ k.ahead = ahead /\ k.due = iter.due
      /\ k.array = iter.array /\ k.at = iter.at /\ k.end = iter.end
  BY <1>1 DEF IsIter
<1> HIDE DEF k
<1> QED BY <1>2, <1>3 DEF IsIter

LEMMA SetNext ==
  ASSUME IsIter(iter), NEW pos, NEW at, iter' = [iter EXCEPT !.pos = pos, !.at = at]
  PROVE  /\ IsIter(iter') /\ iter'.pos = pos /\ iter'.at = at
         /\ iter'.array = iter.array /\ iter'.end = iter.end /\ iter'.ahead = iter.ahead
         /\ iter'.met = iter.met /\ iter'.due = iter.due
<1> DEFINE j == [iter EXCEPT !.pos = pos]
<1>1. /\ IsIter(j) /\ j.pos = pos /\ j.array = iter.array /\ j.end = iter.end
      /\ j.ahead = iter.ahead /\ j.met = iter.met /\ j.due = iter.due
  BY DEF IsIter
<1>2. iter' = [j EXCEPT !.at = at]
  OBVIOUS
<1> HIDE DEF j
<1> QED BY <1>1, <1>2 DEF IsIter

LEMMA SetNotes ==
  ASSUME IsIter(iter), NEW ahead, NEW met, NEW due,
         iter' = [iter EXCEPT !.ahead = ahead, !.met = met, !.due = due]
  PROVE  /\ IsIter(iter') /\ iter'.ahead = ahead /\ iter'.met = met /\ iter'.due = due
         /\ iter'.array = iter.array /\ iter'.at = iter.at /\ iter'.end = iter.end
         /\ iter'.pos = iter.pos
<1> DEFINE j == [iter EXCEPT !.ahead = ahead]
           k == [j EXCEPT !.met = met]
<1>1. /\ IsIter(j) /\ j.ahead = ahead /\ j.array = iter.array /\ j.at = iter.at
      /\ j.end = iter.end /\ j.pos = iter.pos
  BY DEF IsIter
<1>2. iter' = [k EXCEPT !.due = due]
  OBVIOUS
<1> HIDE DEF j
<1>3. /\ IsIter(k) /\ k.ahead = ahead /\ k.met = met /\ k.array = iter.array
      /\ k.at = iter.at /\ k.end = iter.end /\ k.pos = iter.pos
  BY <1>1 DEF IsIter
<1> HIDE DEF k
<1> QED BY <1>2, <1>3 DEF IsIter

\* What is due is stored, and in a bucket of its array.
LEMMA DueIs ==
  ASSUME DictInv, Iterating, NEW i, i \in iter.due \/ i \in iter.met
  PROVE  i \in Stored(dict) /\ WhereIs(dict, i)
BY StoredIs DEF DictInv, Iterating

LEMMA IterBeginStarts ==
  ASSUME DictInv, IterBegin
  PROVE  Iterating'
<1> DEFINE size == dict.bucket_size
<1>1. /\ iter' = [array |-> size, at |-> 0, end |-> size, pos |-> NoItem, ahead |-> {},
                  met |-> {}, due |-> Stored(dict)]
      /\ dict' = dict
  BY DEF IterBegin
<1>2. /\ IsIter(iter') /\ iter'.array = size /\ iter'.at = 0 /\ iter'.end = size
      /\ iter'.pos = NoItem /\ iter'.met = {} /\ iter'.due = Stored(dict)
  BY <1>1 DEF IsIter
<1>3. size \in Nat \ {0}
  BY NewArray DEF DictInv, Sound
<1>4. MetBehind' /\ ItemAtHand'
  BY <1>1, <1>2 DEF MetBehind, ItemAtHand
<1>5. DueAhead'
  <2>1. ASSUME NEW i \in Stored(dict), ArrayOf(dict, i) = size
        PROVE  IndexOf(i, size) > 0 \/ IndexOf(i, size) = 0
    <3>1. WhereIs(dict, i)
      BY StoredIs DEF DictInv
    <3> QED BY <1>3, <2>1, <3>1 DEF WhereIs
  <2> QED BY <1>1, <1>2, <2>1 DEF DueAhead
<1> QED BY <1>1, <1>2, <1>3, <1>4, <1>5 DEF Iterating

\* The first item of a chain is one that was not met, nor was any behind it.
LEMMA IterBucketMeets ==
  ASSUME DictInv, Iterating, IterBucket
  PROVE  /\ Iterating'
         /\ iter'.pos # NoItem => iter'.pos \notin iter.met
<1> DEFINE chain == Arrays(dict)[iter.array][iter.at]
<1>1. /\ iter.pos = NoItem /\ iter.at < iter.end /\ iter.array \in DOMAIN Arrays(dict)
      /\ dict' = dict
      /\ \/ \E i \in chain : Meet(i, chain)
         \/ chain = {} /\ iter' = [iter EXCEPT !.at = @ + 1]
  BY DEF IterBucket, BetweenChains
<1>2. /\ iter.array \in Nat \ {0} /\ iter.at \in 0 .. iter.array - 1
      /\ iter.end = iter.array /\ IsIter(iter)
  BY <1>1 DEF Iterating
<1>3. \A i \in chain : /\ i \in Stored(dict) /\ ArrayOf(dict, i) = iter.array
                       /\ IndexOf(i, iter.array) = iter.at
  BY <1>1, <1>2, ChainItems DEF DictInv
<1>4. \A i \in chain : i \notin iter.met /\ i # NoItem
  BY <1>1, <1>2, <1>3, DictAssumption, StoredWhere DEF Iterating, MetBehind, DictInv
<1>5. \A i \in iter.due \ iter.met :
        \/ /\ ArrayOf(dict, i) = iter.array
           /\ IndexOf(i, iter.array) > iter.at \/ i \in chain
        \/ iter.array = dict.bucket_size /\ ArrayOf(dict, i) # iter.array
  <2>1. ASSUME NEW i \in iter.due \ iter.met, ArrayOf(dict, i) = iter.array,
               IndexOf(i, iter.array) = iter.at
        PROVE  i \in chain
    BY <2>1, DueIs DEF WhereIs
  <2> QED BY <2>1 DEF Iterating, DueAhead
<1> HIDE DEF chain
<1>6. ASSUME NEW i \in chain, Meet(i, chain)
      PROVE  /\ Iterating'
             /\ iter'.pos # NoItem => iter'.pos \notin iter.met
  <2>1. /\ IsIter(iter') /\ iter'.pos = i /\ iter'.ahead = chain \ {i}
        /\ iter'.met = iter.met \cup {i} /\ iter'.due = iter.due
        /\ iter'.array = iter.array /\ iter'.at = iter.at /\ iter'.end = iter.end
    <3> DEFINE ahead == chain \ {i}
               met == iter.met \cup {i}
    <3>1. iter' = [iter EXCEPT !.pos = i, !.ahead = ahead, !.met = met]
      BY <1>6 DEF Meet
    <3> HIDE DEF ahead, met
    <3>2. /\ IsIter(iter') /\ iter'.pos = i /\ iter'.ahead = ahead
          /\ iter'.met = met /\ iter'.due = iter.due
          /\ iter'.array = iter.array /\ iter'.at = iter.at /\ iter'.end = iter.end
      BY <1>2, <3>1, SetItem
    <3> QED BY <3>2 DEF ahead, met
  <2>2. MetBehind'
    BY <1>1, <1>2, <1>3, <1>4, <2>1 DEF MetBehind, Iterating
  <2>3. DueAhead'
    BY <1>1, <1>3, <1>5, <2>1 DEF DueAhead
  <2>4. ItemAtHand'
    <3>1. ~Astray'
      BY <1>1, <1>3, <2>1 DEF Astray
    <3> QED BY <1>1, <1>2, <1>3, <1>4, <2>1, <3>1 DEF ItemAtHand
  <2> QED BY <1>1, <1>2, <1>3, <1>4, <2>1, <2>2, <2>3, <2>4 DEF Iterating
<1>7. CASE chain = {} /\ iter' = [iter EXCEPT !.at = @ + 1]
  <2>1. /\ IsIter(iter') /\ iter'.pos = NoItem /\ iter'.ahead = iter.ahead
        /\ iter'.met = iter.met /\ iter'.due = iter.due
        /\ iter'.array = iter.array /\ iter'.at = iter.at + 1 /\ iter'.end = iter.end
    BY <1>1, <1>2, <1>7 DEF IsIter
  <2>2. MetBehind'
    <3>1. ASSUME NEW i \in iter.met, ArrayOf(dict, i) = iter.array
          PROVE  IndexOf(i, iter.array) < iter.at + 1
      <4>1. IndexOf(i, iter.array) < iter.at /\ WhereIs(dict, i)
        BY <1>1, <3>1, DueIs DEF Iterating, MetBehind
      <4> QED BY <1>2, <3>1, <4>1 DEF WhereIs
    <3> QED BY <1>1, <2>1, <3>1 DEF MetBehind, Iterating
  <2>3. DueAhead'
    <3>1. ASSUME NEW i \in iter.due, ArrayOf(dict, i) = iter.array,
                 IndexOf(i, iter.array) > iter.at
          PROVE  \/ IndexOf(i, iter.array) > iter.at + 1
                 \/ IndexOf(i, iter.array) = iter.at + 1
      BY <1>2, <3>1, DueIs DEF WhereIs
    <3> QED BY <1>1, <1>5, <1>7, <2>1, <3>1 DEF DueAhead
  <2> QED BY <1>1, <1>2, <2>1, <2>2, <2>3 DEF Iterating, ItemAtHand
<1> QED BY <1>1, <1>6, <1>7

\* The next item of the chain: it was met only if the item at hand had been carried off.
LEMMA IterItemMeets ==
  ASSUME DictInv, Iterating, IterItem
  PROVE  /\ Iterating'
         /\ iter'.pos # NoItem => iter'.pos \notin iter.met \/ Astray'
<1>1. /\ iter # NoIter /\ iter.pos # NoItem /\ dict' = dict
      /\ \/ \E i \in iter.ahead : Meet(i, iter.ahead)
         \/ iter.ahead = {} /\ iter' = [iter EXCEPT !.pos = NoItem, !.at = @ + 1]
  BY DEF IterItem, AtItem
<1>2. /\ iter.array \in Nat \ {0} /\ iter.at \in Nat /\ IsIter(iter)
      /\ iter.end = iter.array
  BY DEF Iterating
<1>3. /\ iter.pos \in Stored(dict) /\ iter.ahead \subseteq Stored(dict)
      /\ \A i \in iter.ahead : /\ WhereIs(dict, i) /\ i # NoItem
                               /\ iter.array =< ArrayOf(dict, i)
                               /\ ~Astray => /\ ArrayOf(dict, i) = iter.array
                                             /\ IndexOf(i, iter.array) = iter.at
                                             /\ i \notin iter.met
                               /\ Astray => iter.array < ArrayOf(dict, i)
  <2>1. /\ iter.pos \in Stored(dict) /\ iter.ahead \subseteq Stored(dict)
        /\ ~Astray => \A i \in iter.ahead : /\ ArrayOf(dict, i) = iter.array
                                            /\ IndexOf(i, iter.array) = iter.at
                                            /\ i \notin iter.met
        /\ Astray => \A i \in iter.ahead : iter.array < ArrayOf(dict, i)
    BY <1>1 DEF Iterating, ItemAtHand
  <2>2. ASSUME NEW i \in iter.ahead
        PROVE  WhereIs(dict, i) /\ i # NoItem /\ iter.array =< ArrayOf(dict, i)
    <3>1. WhereIs(dict, i)
      BY <2>1, StoredIs DEF DictInv
    <3> QED BY <1>2, <2>1, <3>1, DictAssumption DEF WhereIs
  <2> QED BY <2>1, <2>2
<1>4. ASSUME NEW i \in iter.ahead, Meet(i, iter.ahead)
      PROVE  /\ Iterating'
             /\ iter'.pos # NoItem => iter'.pos \notin iter.met \/ Astray'
  <2>1. /\ IsIter(iter') /\ iter'.pos = i /\ iter'.ahead = iter.ahead \ {i}
        /\ iter'.met = iter.met \cup {i} /\ iter'.due = iter.due
        /\ iter'.array = iter.array /\ iter'.at = iter.at /\ iter'.end = iter.end
    <3> DEFINE ahead == iter.ahead \ {i}
               met == iter.met \cup {i}
    <3>1. iter' = [iter EXCEPT !.pos = i, !.ahead = ahead, !.met = met]
      BY <1>4 DEF Meet
    <3> HIDE DEF ahead, met
    <3>2. /\ IsIter(iter') /\ iter'.pos = i /\ iter'.ahead = ahead
          /\ iter'.met = met /\ iter'.due = iter.due
          /\ iter'.array = iter.array /\ iter'.at = iter.at /\ iter'.end = iter.end
      BY <1>2, <3>1, SetItem
    <3> QED BY <3>2 DEF ahead, met
  <2>2. Astray' <=> ArrayOf(dict, i) # iter.array
    <3>1. iter' # NoIter
      BY <2>1 DEF IsIter, NoIter
    <3> QED BY <1>1, <1>3, <2>1, <3>1 DEF Astray, AtItem
  <2>3. Astray' <=> Astray
    <3>1. CASE Astray
      BY <1>2, <1>3, <2>2, <3>1 DEF WhereIs
    <3>2. CASE ~Astray
      BY <1>3, <2>2, <3>2
    <3> QED BY <3>1, <3>2
  <2>4. MetBehind'
    <3>1. ArrayOf(dict, i) = iter.array => IndexOf(i, iter.array) = iter.at
      BY <1>3, <2>2, <2>3
    <3> QED BY <1>1, <1>3, <2>1, <3>1 DEF MetBehind, Iterating
  <2>5. DueAhead'
    BY <1>1, <2>1 DEF DueAhead, Iterating
  <2>6. ItemAtHand'
    <3>1. CASE Astray
      BY <1>1, <1>3, <2>1, <2>3, <3>1 DEF ItemAtHand
    <3>2. CASE ~Astray
      BY <1>1, <1>3, <2>1, <2>3, <3>2 DEF ItemAtHand
    <3> QED BY <3>1, <3>2
  <2> QED BY <1>1, <1>2, <1>3, <2>1, <2>2, <2>3, <2>4, <2>5, <2>6 DEF Iterating
<1>5. CASE iter.ahead = {} /\ iter' = [iter EXCEPT !.pos = NoItem, !.at = @ + 1]
  <2>1. /\ IsIter(iter') /\ iter'.pos = NoItem
        /\ iter'.met = iter.met /\ iter'.due = iter.due
        /\ iter'.array = iter.array /\ iter'.at = iter.at + 1 /\ iter'.end = iter.end
    <3> DEFINE at == iter.at + 1
    <3>1. iter' = [iter EXCEPT !.pos = NoItem, !.at = at]
      BY <1>5
    <3> HIDE DEF at
    <3>2. /\ IsIter(iter') /\ iter'.pos = NoItem
          /\ iter'.met = iter.met /\ iter'.due = iter.due
          /\ iter'.array = iter.array /\ iter'.at = at /\ iter'.end = iter.end
      BY <1>2, <3>1, SetNext
    <3> QED BY <3>2 DEF at
  <2>2. MetBehind'
    <3>1. ASSUME NEW i \in iter.met, ArrayOf(dict, i) = iter.array
          PROVE  IndexOf(i, iter.array) < iter.at + 1
      <4>1. /\ IndexOf(i, iter.array) < iter.at \/ IndexOf(i, iter.array) = iter.at
            /\ WhereIs(dict, i)
        BY <1>1, <3>1, DueIs DEF Iterating, MetBehind
      <4> QED BY <1>2, <3>1, <4>1 DEF WhereIs
    <3> QED BY <1>1, <2>1, <3>1 DEF MetBehind, Iterating
  <2>3. DueAhead'
    <3>1. ASSUME NEW i \in iter.due \ iter.met
          PROVE  \/ /\ ArrayOf(dict, i) = iter.array
                    /\ \/ IndexOf(i, iter.array) > iter.at + 1
                       \/ IndexOf(i, iter.array) = iter.at + 1
                 \/ iter.array = dict.bucket_size /\ ArrayOf(dict, i) # iter.array
      <4>1. \/ ArrayOf(dict, i) = iter.array /\ IndexOf(i, iter.array) > iter.at
            \/ iter.array = dict.bucket_size /\ ArrayOf(dict, i) # iter.array
        BY <1>1, <1>5, <3>1 DEF Iterating, DueAhead
      <4> QED BY <1>2, <3>1, <4>1, DueIs DEF WhereIs
    <3> QED BY <1>1, <2>1, <3>1 DEF DueAhead
  <2> QED BY <1>1, <1>2, <2>1, <2>2, <2>3 DEF Iterating, ItemAtHand
<1> QED BY <1>1, <1>4, <1>5

\* The old array is begun at `split': what is before it is empty.
LEMMA IterOldStarts ==
  ASSUME DictInv, Iterating, IterOld
  PROVE  Iterating'
<1> DEFINE size == dict.bucket_size
           half == dict.bucket_size \div 2
<1>1. /\ iter.at >= iter.end /\ dict.prev_buckets # NoBuckets /\ iter.array = size
      /\ iter.pos = NoItem /\ iter.end = iter.array
      /\ iter' = [iter EXCEPT !.array = half, !.at = dict.split, !.end = half]
      /\ dict' = dict
  BY DEF IterOld, HasOldNext, OldFrom, BetweenChains, Iterating
<1>2. /\ IsIter(iter') /\ iter'.array = half /\ iter'.at = dict.split /\ iter'.end = half
      /\ iter'.met = iter.met /\ iter'.due = iter.due /\ iter'.pos = NoItem
  <2> HIDE DEF half
  <2>1. IsIter(iter)
    BY DEF Iterating
  <2> QED BY <1>1, <2>1, SetPlace
<1>3. /\ half \in Nat \ {0} /\ size = 2 * half /\ dict.split \in Nat /\ half < size
  BY <1>1, OldArray, SMTT(30) DEF DictInv, Sound
<1>4. iter.at \in Nat
  BY DEF Iterating
<1> HIDE DEF size, half
<1>5. MetBehind'
  <2>1. ASSUME NEW i \in iter.met PROVE half =< ArrayOf(dict, i) /\ ArrayOf(dict, i) # half
    <3>1. size =< ArrayOf(dict, i) /\ WhereIs(dict, i)
      BY <1>1, <2>1, DueIs DEF Iterating, MetBehind
    <3> QED BY <1>3, <3>1 DEF WhereIs
  <2> QED BY <1>1, <1>2, <2>1 DEF MetBehind
<1>6. DueAhead'
  <2>1. ASSUME NEW i \in iter.due \ iter.met
        PROVE  /\ ArrayOf(dict, i) = half
               /\ IndexOf(i, half) > dict.split \/ IndexOf(i, half) = dict.split
    <3>1. WhereIs(dict, i)
      BY <2>1, DueIs
    <3>2. ArrayOf(dict, i) # size
      <4>1. SUFFICES ASSUME ArrayOf(dict, i) = size PROVE FALSE
        OBVIOUS
      <4>2. IndexOf(i, size) > iter.at \/ IndexOf(i, size) = iter.at
        BY <1>1, <2>1, <4>1 DEF Iterating, DueAhead
      <4> QED BY <1>1, <1>3, <1>4, <3>1, <4>1, <4>2 DEF WhereIs
    <3>3. 2 * ArrayOf(dict, i) = size /\ ArrayOf(dict, i) \in Nat
          /\ ~(IndexOf(i, ArrayOf(dict, i)) < dict.split)
          /\ IndexOf(i, ArrayOf(dict, i)) \in Nat
      BY <3>1, <3>2 DEF WhereIs, size
    <3>4. ArrayOf(dict, i) = half
      BY <1>3, <3>3
    <3> QED BY <1>3, <3>3, <3>4
  <2> QED BY <1>1, <1>2, <2>1 DEF DueAhead
<1>7. ItemAtHand'
  BY <1>2 DEF ItemAtHand
<1> QED BY <1>1, <1>2, <1>3, <1>5, <1>6, <1>7 DEF Iterating, size

LEMMA IterEndMet ==
  ASSUME DictInv, Iterating, IterEnd
  PROVE  iter.due \subseteq iter.met
<1>1. /\ iter.at >= iter.array /\ iter.array \in Nat \ {0} /\ iter.at \in Nat
      /\ dict.prev_buckets = NoBuckets \/ iter.array # dict.bucket_size
  BY DEF IterEnd, HasOldNext, Iterating
<1>2. SUFFICES ASSUME NEW i \in iter.due \ iter.met PROVE FALSE
  OBVIOUS
<1>3. WhereIs(dict, i)
  BY DueIs
<1>4. \/ /\ ArrayOf(dict, i) = iter.array
         /\ IndexOf(i, iter.array) > iter.at \/ IndexOf(i, iter.array) = iter.at
      \/ iter.array = dict.bucket_size /\ ArrayOf(dict, i) # iter.array
  BY DEF Iterating, DueAhead
<1> QED BY <1>1, <1>3, <1>4 DEF WhereIs

\* A call of the body: what is met stays behind and what is due ahead, whatever the
\* call moves, because a chain is moved as a whole and to a larger array only.
LEMMA IterCall ==
  ASSUME DictInv, Sound(dict'), Steps(dict, dict'), Iterating, BodyCalled, iter' # NoIter
  PROVE  Iterating'
<1> DEFINE kept == Stored(dict')
           due == {i \in iter.due \cap kept : ~Carried(i)}
           ahead == Behind
<1>1. /\ iter # NoIter /\ iter.pos # NoItem /\ iter.pos \in kept
      /\ iter' = [iter EXCEPT !.ahead = ahead, !.met = iter.met \cap kept, !.due = due]
  BY DEF BodyCalled, AtItem, IsIter, Iterating
<1>2. /\ IsIter(iter') /\ iter'.ahead = ahead /\ iter'.met = iter.met \cap kept
      /\ iter'.due = due /\ iter'.pos = iter.pos
      /\ iter'.array = iter.array /\ iter'.at = iter.at /\ iter'.end = iter.end
  <2> DEFINE met == iter.met \cap kept
  <2> HIDE DEF due, met, ahead
  <2>1. IsIter(iter)
    BY DEF Iterating
  <2>2. iter' = [iter EXCEPT !.ahead = ahead, !.met = met, !.due = due]
    BY <1>1 DEF met
  <2>3. /\ IsIter(iter') /\ iter'.ahead = ahead /\ iter'.met = met /\ iter'.due = due
        /\ iter'.array = iter.array /\ iter'.at = iter.at /\ iter'.end = iter.end
        /\ iter'.pos = iter.pos
    BY <2>1, <2>2, SetNotes
  <2> QED BY <2>3 DEF met
<1> HIDE DEF ahead
<1>3. /\ dict.bucket_size \in Nat \ {0} /\ iter.array \in Nat \ {0} /\ iter.at \in Nat
      /\ iter.array =< dict.bucket_size
      /\ dict'.bucket_size \in Nat \ {0} /\ dict.bucket_size =< dict'.bucket_size
  BY NewArray DEF DictInv, Sound, Iterating, Steps
<1>4. \A i \in Stored(dict) : i \in kept =>
        /\ WhereIs(dict, i) /\ WhereIs(dict', i)
        /\ ArrayOf(dict, i) =< ArrayOf(dict', i)
        /\ ArrayOf(dict', i) = ArrayOf(dict, i) /\ ArrayOf(dict, i) # dict.bucket_size =>
             dict'.bucket_size = dict.bucket_size
  BY StoredIs, Forward DEF DictInv
<1>5. MetBehind'
  <2>1. ASSUME NEW i \in iter.met, i \in kept
        PROVE  /\ iter.array =< ArrayOf(dict', i)
               /\ ArrayOf(dict', i) = iter.array =>
                    \/ IndexOf(i, iter.array) < iter.at
                    \/ IndexOf(i, iter.array) = iter.at
    <3>1. /\ i \in Stored(dict) /\ iter.array =< ArrayOf(dict, i)
          /\ ArrayOf(dict, i) = iter.array =>
               \/ IndexOf(i, iter.array) < iter.at
               \/ IndexOf(i, iter.array) = iter.at
      BY <2>1 DEF Iterating, MetBehind
    <3>2. /\ ArrayOf(dict, i) \in Nat /\ ArrayOf(dict', i) \in Nat
          /\ ArrayOf(dict, i) =< ArrayOf(dict', i)
      BY <1>4, <2>1, <3>1 DEF WhereIs
    <3> QED BY <1>3, <3>1, <3>2
  <2> QED BY <1>1, <1>2, <2>1 DEF MetBehind
<1>6. /\ iter.pos \in Stored(dict) /\ iter.ahead \subseteq Stored(dict)
      /\ iter.pos \notin iter.ahead /\ iter.array =< ArrayOf(dict, iter.pos)
      /\ ArrayOf(dict, iter.pos) = iter.array =>
           /\ IndexOf(iter.pos, iter.array) = iter.at
           /\ \A i \in iter.ahead : /\ ArrayOf(dict, i) = iter.array
                                    /\ IndexOf(i, iter.array) = iter.at
                                    /\ i \notin iter.met
      /\ ArrayOf(dict, iter.pos) # iter.array =>
           \A i \in iter.ahead : iter.array < ArrayOf(dict, i)
  BY <1>1 DEF Iterating, ItemAtHand, Astray, AtItem
<1>7. DueAhead'
  <2> SUFFICES ASSUME NEW i \in due, i \notin iter.met
               PROVE  \/ /\ ArrayOf(dict', i) = iter.array
                         /\ \/ IndexOf(i, iter.array) > iter.at
                            \/ IndexOf(i, iter.array) = iter.at /\ i \in ahead
                      \/ iter.array = dict'.bucket_size /\ ArrayOf(dict', i) # iter.array
    BY <1>2 DEF DueAhead
  <2>1. /\ i \in iter.due /\ i \in kept /\ i \in Stored(dict)
        /\ ArrayOf(dict', i) = ArrayOf(dict, i)
    BY DEF Carried, Iterating
  <2>2. CASE iter.array = dict.bucket_size /\ ArrayOf(dict, i) # iter.array
    BY <1>4, <2>1, <2>2
  <2>3. CASE ArrayOf(dict, i) = iter.array /\ IndexOf(i, iter.array) > iter.at
    BY <2>1, <2>3
  <2>4. CASE /\ ArrayOf(dict, i) = iter.array /\ IndexOf(i, iter.array) = iter.at
             /\ i \in iter.ahead
    <3>1. ArrayOf(dict, iter.pos) = iter.array /\ IndexOf(iter.pos, iter.array) = iter.at
      BY <1>3, <1>6, <2>4
    <3>2. ArrayOf(dict', iter.pos) = iter.array
      BY <1>1, <1>6, <2>1, <2>4, <3>1, Together DEF DictInv
    <3>3. i \in ahead
      BY <2>1, <2>4, <3>1, <3>2 DEF ahead, Behind, Carried
    <3> QED BY <2>1, <2>4, <3>3
  <2> QED BY <1>1, <2>1, <2>2, <2>3, <2>4 DEF Iterating, DueAhead
<1>8. ItemAtHand'
  <2>1. Astray' <=> ArrayOf(dict', iter.pos) # iter.array
    BY <1>1, <1>2 DEF Astray, AtItem
  <2>2. /\ iter.array =< ArrayOf(dict', iter.pos)
        /\ ArrayOf(dict', iter.pos) \in Nat /\ ArrayOf(dict, iter.pos) \in Nat
        /\ ArrayOf(dict, iter.pos) =< ArrayOf(dict', iter.pos)
    <3>1. WhereIs(dict, iter.pos) /\ WhereIs(dict', iter.pos)
          /\ ArrayOf(dict, iter.pos) =< ArrayOf(dict', iter.pos)
      BY <1>1, <1>4, <1>6
    <3>2. ArrayOf(dict, iter.pos) \in Nat /\ ArrayOf(dict', iter.pos) \in Nat
      BY <3>1 DEF WhereIs
    <3> QED BY <1>3, <1>6, <3>1, <3>2
  <2>3. CASE Carried(iter.pos)
    <3> DEFINE chain == ChainOf(dict', iter.pos)
               a == ArrayOf(dict', iter.pos)
    <3>1. ahead = chain \ (iter.ahead \cup {iter.pos})
      BY <2>3 DEF ahead, Behind
    <3>2. \A i \in chain : i \in kept /\ ArrayOf(dict', i) = a
      <4>1. WhereIs(dict', iter.pos)
        BY <1>1, StoredIs
      <4> QED BY <4>1, ChainItems DEF ChainOf, WhereIs
    <3>3. iter.array < a
      BY <1>3, <1>6, <2>2, <2>3 DEF Carried
    <3> HIDE DEF chain, a
    <3>4. \A i \in ahead : i \in kept /\ iter.array < ArrayOf(dict', i)
      BY <3>1, <3>2, <3>3
    <3>5. Astray'
      BY <1>3, <2>1, <2>2, <3>3 DEF a
    <3> QED BY <1>1, <1>2, <2>2, <3>1, <3>4, <3>5 DEF ItemAtHand
  <2>4. CASE ~Carried(iter.pos) /\ ArrayOf(dict, iter.pos) # iter.array
    <3>1. ahead = iter.ahead \cap kept /\ Astray'
      BY <2>1, <2>4 DEF ahead, Behind, Carried
    <3>2. ASSUME NEW i \in ahead PROVE iter.array < ArrayOf(dict', i)
      <4>1. /\ iter.array < ArrayOf(dict, i) /\ WhereIs(dict, i) /\ WhereIs(dict', i)
            /\ ArrayOf(dict, i) =< ArrayOf(dict', i)
        BY <1>4, <1>6, <2>4, <3>1, <3>2
      <4> QED BY <1>3, <4>1 DEF WhereIs
    <3> QED BY <1>1, <1>2, <1>6, <2>2, <3>1, <3>2 DEF ItemAtHand
  <2>5. CASE ~Carried(iter.pos) /\ ArrayOf(dict, iter.pos) = iter.array
    <3>1. /\ ahead = iter.ahead \cap kept /\ ~Astray'
          /\ ArrayOf(dict', iter.pos) = iter.array
      BY <2>1, <2>5 DEF ahead, Behind, Carried
    <3>2. ASSUME NEW i \in ahead
          PROVE  /\ ArrayOf(dict', i) = iter.array /\ IndexOf(i, iter.array) = iter.at
                 /\ i \notin iter.met
      <4>1. /\ ArrayOf(dict, i) = iter.array /\ IndexOf(i, iter.array) = iter.at
            /\ i \notin iter.met /\ i \in Stored(dict) /\ i \in kept
            /\ IndexOf(iter.pos, iter.array) = iter.at
        BY <1>6, <2>5, <3>1, <3>2
      <4>2. ArrayOf(dict', i) = iter.array
        BY <1>1, <1>6, <2>5, <3>1, <4>1, Together DEF DictInv
      <4> QED BY <4>1, <4>2
    <3> QED BY <1>1, <1>2, <1>6, <2>2, <2>5, <3>1, <3>2 DEF ItemAtHand
  <2> QED BY <2>3, <2>4, <2>5
<1>9. iter'.met \subseteq kept /\ iter'.due \subseteq kept
  BY <1>2
<1> QED BY <1>2, <1>3, <1>5, <1>7, <1>8, <1>9 DEF Iterating

LEMMA IterStepInv == DictInv /\ IterInv /\ [Next]_vars => IterInv'
<1> SUFFICES ASSUME DictInv, IterInv, [Next]_vars, iter' # NoIter PROVE Iterating'
  BY DEF IterInv
<1>1. CASE ACall /\ IterCalled
  <2>1. BodyCalled /\ iter # NoIter
    BY <1>1 DEF IterCalled, BodyCalled, AtItem
  <2> QED BY <1>1, <2>1, CallDoes, IterCall DEF IterInv
<1>2. CASE IterStep
  <2>1. CASE IterBegin
    BY <2>1, IterBeginStarts
  <2>2. CASE IterBucket
    BY <2>2, IterBucketMeets DEF IterInv, IterBucket, BetweenChains
  <2>3. CASE IterItem
    BY <2>3, IterItemMeets DEF IterInv, IterItem, AtItem
  <2>4. CASE IterOld
    BY <2>4, IterOldStarts DEF IterInv, IterOld, BetweenChains
  <2>5. CASE IterFreed \/ IterEnd
    BY <2>5 DEF IterFreed, IterEnd
  <2> QED BY <1>2, <2>1, <2>2, <2>3, <2>4, <2>5 DEF IterStep
<1>3. CASE UNCHANGED vars
  BY <1>3 DEF vars, IterInv, Iterating, MetBehind, DueAhead, ItemAtHand, Astray, AtItem
<1> QED BY <1>1, <1>2, <1>3, NextCases

\* An iteration whose body makes any calls at each item meets an item twice only on a
\* chain to which a split has carried the item at hand, and it misses no item that
\* stays and that no split moves.
THEOREM IterTheorem == Spec => IterMeetsEach
<1>1. Init => DictInv /\ IterInv
  BY DictInitially DEF Init, IterInv
<1>2. DictInv /\ IterInv =>
        [/\ Meets => iter'.pos \notin iter.met \/ Astray'
         /\ IterEnd => iter.due \subseteq iter.met]_vars
  BY IterBucketMeets, IterItemMeets, IterEndMet
     DEF Meets, IterInv, IterBucket, IterItem, IterEnd, BetweenChains, AtItem
<1> QED BY <1>1, <1>2, DictStep, IterStepInv, PTL DEF Spec, IterMeetsEach

-----------------------------------------------------------------------------
(* The refinement.                                                         *)

LEMMA MapStep == DictInv /\ [Next]_vars => [Map!MapNext]_(Map!mapVars)
<1> SUFFICES ASSUME DictInv, [Next]_vars PROVE [Map!MapNext]_(Map!mapVars)
  OBVIOUS
<1>1. ASSUME NEW i \in Items, Add(i) PROVE Map!MapAdd(i)
  BY <1>1, AddDoes DEF Add, Map!MapAdd
<1>2. ASSUME NEW i \in Items, Delete(i) \/ DelNode(i) PROVE Map!MapDelete(i)
  BY <1>2, DeleteDoes, DelNodeDoes DEF Delete, DelNode, Map!MapDelete
<1>3. ASSUME NEW k \in Keys, Get(k) PROVE Map!MapGet(k)
  <2>1. /\ Stored(dict') = Stored(dict)
        /\ \A i \in Found(dict', k) : i \in Stored(dict') /\ KeyOf[i] = k
        /\ Found(dict', k) = {} => \A i \in Stored(dict') : KeyOf[i] # k
    BY <1>3, GetDoes, FoundRight
  <2>2. \/ \E i \in Found(dict', k) : ret' = <<k, i>>
        \/ Found(dict', k) = {} /\ ret' = <<k, NoItem>>
    BY <1>3 DEF Get
  <2> QED BY <2>1, <2>2 DEF Map!MapGet, Map!WithKey
<1>4. ASSUME NEW k \in Keys, DelKey(k) PROVE Map!MapDelKey(k)
  BY <1>4, DelKeyDoes DEF Map!MapDelKey, Map!WithKey
<1>5. ASSUME NEW size \in FixedSizes, DisableExpasion(size) PROVE Map!MapNothing
  BY <1>5, DisableDoes DEF DisableExpasion, Map!MapNothing
<1>6. CASE UNCHANGED <<dict, ret>>
  BY <1>6 DEF Map!mapVars
<1> QED BY <1>1, <1>2, <1>3, <1>4, <1>5, <1>6, NextCases DEF ACall, vars, Map!MapNext

\* For every table, whatever expansion is under way, with memory and without: add,
\* get, delete, del_key and del_node are those of a bag of items found by key.
THEOREM MapTheorem == Spec => IsMap
<1>1. Init => Map!MapInit
  BY DictInitially DEF Init, Map!MapInit
<1>2. Init => DictInv
  BY DictInitially
<1> QED BY <1>1, <1>2, DictStep, MapStep, PTL DEF Spec, IsMap, Map!MapSpec
=============================================================================
