-------------------------------- MODULE Dict --------------------------------
(***************************************************************************)
(* wuy_dict.c: a hash table that grows by incremental expansion.  When the *)
(* load reaches a factor the bucket array is doubled, and every later add  *)
(* or get moves one bucket of the old array into the new one.              *)
(*                                                                         *)
(* `dict' is the C struct.  A bucket is the set of the items linked in it: *)
(* the order of the chain shows only in which of two items of equal key a  *)
(* search meets first, and the search here may meet either.                *)
(***************************************************************************)
EXTENDS Integers, FiniteSets

CONSTANTS
  Items,      \* the caller's structs, each embedding one wuy_dict_node_t
  Keys,
  KeyOf,      \* the key of every item
  Hash,       \* the 32-bit hash of every key
  NoItem,     \* NULL, as a search result
  Pow2,       \* the powers of two a bucket array may have as its size
  SizeInit,   \* WUY_DICT_SIZE_INIT
  SizeMax,    \* WUY_DICT_SIZE_MAX
  FixedSizes, \* the sizes asked of wuy_dict_disable_expasion()
  Memory,     \* what behaviours are looked at: {"ample", "short"} or one of them
  MaxCount,   \* bound on dict->count, which del_node never brings down
  MaxIterated \* iterations begin with fewer items

Factor == 2   \* WUY_DICT_EXPANSION_FACTOR

ASSUME DictAssumption ==
  /\ KeyOf \in [Items -> Keys]
  /\ Hash \in [Keys -> Nat]
  /\ NoItem \notin Items
  /\ Pow2 \subseteq Nat \ {0}
  /\ SizeInit \in Pow2
  /\ SizeMax \in Nat
  /\ \A s \in Pow2 : s < SizeMax => 2 * s \in Pow2
  /\ FixedSizes \subseteq Nat
  /\ Memory \subseteq {"ample", "short"}
  /\ MaxCount \in Nat /\ MaxIterated \in Nat

VARIABLES
  dict,    \* the struct wuy_dict_s
  memory,  \* "short" in the behaviours where calloc() may fail; never changes
  ret,     \* what the last call returned: <<key, item or NoItem>>, <<>> if void
  iter     \* the wuy_dict_iter() under way, see there

vars == <<dict, memory, ret, iter>>

NoBuckets == <<>>
NoIter == <<>>
Empty(size) == [x \in 0 .. size - 1 |-> {}]

\* hash & (bucket_size - 1), the size being a power of two.
Index(k, size) == Hash[k] % size
IndexOf(i, size) == Index(KeyOf[i], size)

Init ==
  /\ dict = [buckets      |-> Empty(SizeInit),
             prev_buckets |-> NoBuckets,
             bucket_size  |-> SizeInit,
             split        |-> 0,
             count        |-> 0,
             expansion    |-> TRUE]
  /\ memory \in Memory
  /\ ret = <<>>
  /\ iter = NoIter

Stored(d) ==
  (UNION {d.buckets[x] : x \in DOMAIN d.buckets})
    \cup (UNION {d.prev_buckets[x] : x \in DOMAIN d.prev_buckets})

-----------------------------------------------------------------------------
(* wuy_dict_expasion(): the dicts it may leave d as.                       *)

MustGrow(d) ==
  /\ d.count >= d.bucket_size * Factor
  /\ d.prev_buckets = NoBuckets
  /\ d.bucket_size < SizeMax

Grown(d) ==
  [d EXCEPT !.buckets = Empty(2 * d.bucket_size),
            !.prev_buckets = d.buckets,
            !.bucket_size = 2 * d.bucket_size,
            !.split = 0]

\* Mutant: the new index is taken with the old size.
MovedToOld(d, x) ==
  {i \in d.prev_buckets[d.split] : IndexOf(i, d.bucket_size \div 2) = x}

MovedTo(d, x) == {i \in d.prev_buckets[d.split] : IndexOf(i, d.bucket_size) = x}

\* Mutant: the old array is taken to be as long as the new one.
SplitTooFar(d) ==
  [d EXCEPT
     !.buckets = [x \in DOMAIN d.buckets |-> d.buckets[x] \cup MovedTo(d, x)],
     !.prev_buckets = IF d.split + 1 = d.bucket_size THEN NoBuckets
                      ELSE [d.prev_buckets EXCEPT ![d.split] = {}],
     !.split = d.split + 1]

Split(d) ==
  [d EXCEPT
     !.buckets = [x \in DOMAIN d.buckets |-> d.buckets[x] \cup MovedTo(d, x)],
     !.prev_buckets = IF d.split + 1 = d.bucket_size \div 2
                      THEN NoBuckets
                      ELSE [d.prev_buckets EXCEPT ![d.split] = {}],
     !.split = d.split + 1]

\* Mutant: a bucket is split only when the table grows.
ExpasionOnGrowth(d) ==
  IF d.expansion /\ MustGrow(d) THEN {Split(Grown(d))} ELSE {d}

Expasion(d) ==
  IF ~d.expansion THEN {d}
  ELSE IF MustGrow(d)
       THEN {Split(Grown(d))} \cup (IF memory = "short" THEN {d} ELSE {})
       ELSE {IF d.prev_buckets # NoBuckets THEN Split(d) ELSE d}

-----------------------------------------------------------------------------
(* The public calls.                                                       *)

Inserted(d, i) ==
  [d EXCEPT !.buckets = [d.buckets EXCEPT
                           ![IndexOf(i, d.bucket_size)] = @ \cup {i}],
            !.count = d.count + 1]

\* hlist_delete() unlinks the node from whichever chain it is in.
Unlinked(d, i) ==
  [d EXCEPT !.buckets = [x \in DOMAIN d.buckets |-> d.buckets[x] \ {i}],
            !.prev_buckets =
              [x \in DOMAIN d.prev_buckets |-> d.prev_buckets[x] \ {i}]]

\* Mutant: the count is left as it was.
DeletedUncounted(d, i) == Unlinked(d, i)

Deleted(d, i) == [Unlinked(d, i) EXCEPT !.count = d.count - 1]

\* Mutant: the upper half of the indexes is not looked for in prev_buckets.
FoundBelowHalf(d, k) ==
  LET x      == Index(k, d.bucket_size)
      inCurr == {i \in d.buckets[x] : KeyOf[i] = k}
      inPrev == IF d.prev_buckets = NoBuckets \/ x >= d.bucket_size \div 2 THEN {}
                ELSE {i \in d.prev_buckets[x] : KeyOf[i] = k}
  IN  IF inCurr # {} THEN inCurr ELSE inPrev

\* The items _wuy_dict_get() may return: from buckets, else from prev_buckets.
Found(d, k) ==
  LET x      == Index(k, d.bucket_size)
      half   == d.bucket_size \div 2
      px     == IF x >= half THEN x - half ELSE x
      inCurr == {i \in d.buckets[x] : KeyOf[i] = k}
      inPrev == IF d.prev_buckets = NoBuckets THEN {}
                ELSE {i \in d.prev_buckets[px] : KeyOf[i] = k}
  IN  IF inCurr # {} THEN inCurr ELSE inPrev

\* The caller adds an item that is in no dict: its node is linked once.
Add(i) ==
  /\ i \notin Stored(dict)
  /\ dict.count < MaxCount
  /\ dict' \in Expasion(Inserted(dict, i))
  /\ ret' = <<>>

Get(k) ==
  /\ dict' \in Expasion(dict)
  /\ \/ \E i \in Found(dict', k) : ret' = <<k, i>>
     \/ Found(dict', k) = {} /\ ret' = <<k, NoItem>>

\* "So you MUST make sure that item is in this dict" (wuy_dict.h:124).
Delete(i) ==
  /\ i \in Stored(dict)
  /\ dict' = Deleted(dict, i)
  /\ ret' = <<>>

DelKey(k) ==
  \E d \in Expasion(dict) :
    \/ \E i \in Found(d, k) : dict' = Deleted(d, i) /\ ret' = <<k, i>>
    \/ Found(d, k) = {} /\ dict' = d /\ ret' = <<k, NoItem>>

\* "you MUST call wuy_dict_disable_expasion() before" (wuy_dict.h:148).
DelNode(i) ==
  /\ ~dict.expansion
  /\ i \in Stored(dict)
  /\ dict' = Unlinked(dict, i)
  /\ ret' = <<>>

\* The code asserts count == 0.  The header allows the call only before the
\* first add, when no expansion has begun; with an emptied dict that is still
\* splitting the assertion passes and prev_buckets would be left behind.
DisableExpasion(size) ==
  /\ dict.count = 0
  /\ dict.prev_buckets = NoBuckets
  /\ \E align \in Pow2 :
       /\ align >= size
       /\ align = 1 \/ align \div 2 < size
       /\ dict' = [dict EXCEPT !.expansion = FALSE,
                               !.bucket_size = align,
                               !.buckets = Empty(align)]
  /\ ret' = <<>>

-----------------------------------------------------------------------------
(* wuy_dict_iter(): the arrays from _wuy_dict_iter_buckets(), bucket by    *)
(* bucket, and each chain item by item.  Its body may make any call at the *)
(* item at hand, whose next node is read only behind the body.  An array   *)
(* is known by its size: none is as large as one before.                   *)

\* The arrays that are there, by their sizes.
Arrays(d) ==
  [s \in {d.bucket_size} \cup (IF d.prev_buckets = NoBuckets THEN {} ELSE {d.bucket_size \div 2})
     |-> IF s = d.bucket_size THEN d.buckets ELSE d.prev_buckets]

\* The array a stored item is in, and its chain there.
ArrayOf(d, i) ==
  IF i \in d.buckets[IndexOf(i, d.bucket_size)] THEN d.bucket_size ELSE d.bucket_size \div 2
ChainOf(d, i) == Arrays(d)[ArrayOf(d, i)][IndexOf(i, ArrayOf(d, i))]

\* at: the bucket _ib; pos: the item the body runs at, or NoItem between two chains;
\* ahead: the items behind it in the chain.  For the specification only, met: the
\* items it has met; due: those that have been where they were since it began.
IterBegin ==
  /\ iter = NoIter /\ dict.count < MaxIterated
  /\ iter' = [array |-> dict.bucket_size, at |-> 0, end |-> dict.bucket_size,
              pos |-> NoItem, ahead |-> {}, met |-> {}, due |-> Stored(dict)]
  /\ UNCHANGED <<dict, ret>>

BetweenChains == iter # NoIter /\ iter.pos = NoItem
AtItem == iter # NoIter /\ iter.pos # NoItem

Meet(i, others) ==
  iter' = [iter EXCEPT !.pos = i, !.ahead = others \ {i}, !.met = @ \cup {i}]

\* The next bucket: its first item, or the bucket behind it.
IterBucket ==
  /\ BetweenChains /\ iter.at < iter.end
  /\ iter.array \in DOMAIN Arrays(dict)
  /\ LET chain == Arrays(dict)[iter.array][iter.at]
     IN  \/ \E i \in chain : Meet(i, chain)
         \/ chain = {} /\ iter' = [iter EXCEPT !.at = @ + 1]
  /\ UNCHANGED <<dict, ret>>

\* The body has returned and the next node is read from the one at hand.
IterItem ==
  /\ AtItem
  /\ \/ \E i \in iter.ahead : Meet(i, iter.ahead)
     \/ iter.ahead = {} /\ iter' = [iter EXCEPT !.pos = NoItem, !.at = @ + 1]
  /\ UNCHANGED <<dict, ret>>

\* The array has been freed since: what is met from here is undefined.
IterFreed ==
  /\ BetweenChains /\ iter.at < iter.end
  /\ iter.array \notin DOMAIN Arrays(dict)
  /\ iter' = NoIter
  /\ UNCHANGED <<dict, ret>>

\* Mutant: the old array is begun behind the bucket that is next to be moved.
OldFromNext == dict.split + 1

OldFrom == dict.split

\* Mutant: the old array is begun again when it has been gone through.
HasOldAgain == dict.prev_buckets # NoBuckets

HasOldNext ==
  dict.prev_buckets # NoBuckets /\ iter.array = dict.bucket_size

IterOld ==
  /\ BetweenChains /\ iter.at >= iter.end /\ HasOldNext
  /\ iter' = [iter EXCEPT !.array = dict.bucket_size \div 2,
                          !.at = OldFrom, !.end = dict.bucket_size \div 2]
  /\ UNCHANGED <<dict, ret>>

IterEnd ==
  /\ BetweenChains /\ iter.at >= iter.end /\ ~HasOldNext
  /\ iter' = NoIter
  /\ UNCHANGED <<dict, ret>>

\* The call the body made has moved i into the larger array.
Carried(i) == ArrayOf(dict', i) # ArrayOf(dict, i)

\* What is behind the item at hand then.  A split takes a chain from its front and
\* puts every node before the first of its new chain: an item that is carried is
\* followed by those that were before it, and by what the new chain held already.
Behind ==
  IF Carried(iter.pos)
  THEN ChainOf(dict', iter.pos) \ (iter.ahead \cup {iter.pos})
  ELSE iter.ahead \cap Stored(dict')

\* A call made by the body.  It must not unlink the item at hand ("it's NOT safe to
\* delete node", wuy_hlist.h:97): of an iteration that does nothing is known.
BodyCalled ==
  /\ AtItem
  /\ \/ iter.pos \notin Stored(dict') /\ iter' = NoIter
     \/ /\ iter.pos \in Stored(dict')
        /\ iter' = [iter EXCEPT !.ahead = Behind,
                                !.met = @ \cap Stored(dict'),
                                !.due = {i \in @ \cap Stored(dict') : ~Carried(i)}]

-----------------------------------------------------------------------------
Next ==
  /\ \/ /\ \/ \E i \in Items : Add(i) \/ Delete(i) \/ DelNode(i)
           \/ \E k \in Keys : Get(k) \/ DelKey(k)
        /\ (iter = NoIter /\ UNCHANGED iter) \/ BodyCalled
     \/ /\ iter = NoIter /\ UNCHANGED iter
        /\ \E size \in FixedSizes : DisableExpasion(size)
     \/ IterBegin \/ IterBucket \/ IterItem \/ IterFreed \/ IterOld \/ IterEnd
  /\ UNCHANGED memory

Spec == Init /\ [][Next]_vars
-----------------------------------------------------------------------------
(* Properties.                                                             *)

IsChains(f, size) == f \in [0 .. size - 1 -> SUBSET Items]

\* The one type invariant: the arrays are as long as bucket_size says, the old
\* one half of it, and split points inside the old one.
TypeOK ==
  /\ dict.bucket_size \in Pow2
  /\ dict.count \in 0 .. MaxCount
  /\ dict.split \in Nat
  /\ dict.expansion \in BOOLEAN
  /\ memory \in Memory
  /\ IsChains(dict.buckets, dict.bucket_size)
  /\ dict.prev_buckets # NoBuckets =>
       /\ dict.bucket_size % 2 = 0
       /\ IsChains(dict.prev_buckets, dict.bucket_size \div 2)
       /\ dict.split < dict.bucket_size \div 2

\* Every linked item is in the chain _wuy_dict_get() will walk for its key,
\* and the old buckets already split stay empty although adds and splits go on.
InPlace ==
  /\ \A x \in DOMAIN dict.buckets : \A i \in dict.buckets[x] :
       IndexOf(i, dict.bucket_size) = x
  /\ \A x \in DOMAIN dict.prev_buckets :
       /\ \A i \in dict.prev_buckets[x] : IndexOf(i, dict.bucket_size \div 2) = x
       /\ x < dict.split => dict.prev_buckets[x] = {}

\* Unless wuy_dict_del_node() was used, the count is that of the items linked,
\* through every stage of an expansion; and with memory available the load stays
\* below the factor and an expansion is finished long before the next is due: one
\* bucket per call is fast enough.
LoadBounded ==
  /\ dict.expansion => dict.count = Cardinality(Stored(dict))
  /\ memory = "ample" /\ dict.expansion =>
       /\ dict.bucket_size < SizeMax => dict.count < Factor * dict.bucket_size
       /\ dict.prev_buckets # NoBuckets => dict.count < dict.bucket_size + dict.split

\* The item at hand has been carried off to another array, and the walk with it.
Astray == AtItem /\ ArrayOf(dict, iter.pos) # iter.array

Meets == (IterBucket \/ IterItem) /\ iter'.pos # NoItem

\* Whatever its body adds, gets and deletes at each item, an iteration meets an item
\* twice only on a chain it was carried to with the item at hand, as wuy_dict.h:170
\* makes it do; and at its end it has met every item that was there all the
\* time and that no split has moved.
IterMeetsEach ==
  [][/\ Meets => iter'.pos \notin iter.met \/ Astray'
     /\ IterEnd => iter.due \subseteq iter.met]_vars

\* To its caller the dict is a bag of items found by key: add, get, delete
\* and del_key behave as ItemMap says, whatever expansion is under way.
Map == INSTANCE ItemMap WITH stored <- Stored(dict)
IsMap == Map!MapSpec
=============================================================================
