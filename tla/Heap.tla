-------------------------------- MODULE Heap --------------------------------
(***************************************************************************)
(* wuy_heap.c: the intrusive binary heap.                                  *)
(*                                                                         *)
(* Every public call runs to its end on the caller's thread; the loops of  *)
(* heapify_up, heapify_down and rebuild are modelled one iteration per     *)
(* step, so `call' names the call in progress, `loop' and `cur' the loop   *)
(* it is in and that loop's index, and no other call starts before it is   *)
(* "none" again.  Two variables are for the specification only: `held',    *)
(* the items the caller has handed to the heap and not yet got back, and   *)
(* `orderly', whether the deletions since the last rebuild were ones that  *)
(* wuy_heap_delete() is right for.                                         *)
(***************************************************************************)
EXTENDS Integers, FiniteSets

CONSTANTS
  Items,        \* the caller's structs, each embedding one wuy_heap_node_t
  NoItem,       \* a slot of the array that was never written
  Keys,         \* the values the compared key takes
  KeyReverse,   \* key_reverse of wuy_heap_new_type()
  SizeInit,     \* WUY_HEAP_SIZE_INIT
  PtrSize,      \* sizeof(wuy_heap_node_t *)
  MaxCount,     \* bound: the caller never has more items than this inside
  IndexGarbage  \* what the uninitialised node->index may hold

ASSUME HeapAssumption ==
  /\ NoItem \notin Items
  /\ Keys \subseteq Int
  /\ KeyReverse \in BOOLEAN
  /\ SizeInit \in Nat \ {0}
  /\ PtrSize \in {4, 8}
  /\ MaxCount \in Nat \ {0}
  /\ IndexGarbage \subseteq Nat

VARIABLES
  array,    \* heap->array
  count,    \* heap->count
  capture,  \* heap->capture, the capacity the code believes in
  slots,    \* the slots heap->array really has
  index,    \* node->index of every item
  key,      \* the compared key of every item
  call,     \* the public call in progress
  loop,     \* "up" or "down": the heapify loop it is in
  cur,      \* that loop's i
  bound,    \* rebuild's i
  held,     \* specification only
  orderly   \* specification only

vars == <<array, count, capture, slots, index, key, call, loop, cur, bound, held,
          orderly>>

Slot == 0 .. MaxCount - 1
Parent(i) == (i - 1) \div 2

\* Mutant: key_reverse is forgotten.
KeyLessForward(a, b) == a < b

\* wuy_heap_less() on keys: with key_reverse it is not a strict order.
KeyLess(a, b) == IF KeyReverse THEN ~(a < b) ELSE a < b
Less(i, j) == KeyLess(key[array[i]], key[array[j]])

\* Mutant: the slot is not looked at, only the index.
IsLinkedByIndex(n) == index[n] < count

IsLinked(n) == index[n] < count /\ array[index[n]] = n

Init ==
  /\ array = [i \in Slot |-> NoItem]
  /\ count = 0
  /\ capture = SizeInit
  /\ slots = SizeInit
  /\ index \in [Items -> IndexGarbage]
  /\ key \in [Items -> Keys]
  /\ call = "none"
  /\ loop = "up"
  /\ cur = 0
  /\ bound = 0
  /\ held = {}
  /\ orderly = TRUE

-----------------------------------------------------------------------------
Idle == call = "none"

\* Mutant: only one of the two nodes learns its new slot.
SwapOneIndex(i, j) ==
  /\ array' = [array EXCEPT ![i] = array[j], ![j] = array[i]]
  /\ index' = [index EXCEPT ![array[j]] = i]

Swap(i, j) ==
  /\ array' = [array EXCEPT ![i] = array[j], ![j] = array[i]]
  /\ index' = [index EXCEPT ![array[j]] = i, ![array[i]] = j]

Begin(c, l, i) == call' = c /\ loop' = l /\ cur' = i

\* The call returns; the loop indexes are gone with its stack frame.
Return == call' = "none" /\ loop' = "up" /\ cur' = 0 /\ bound' = 0

-----------------------------------------------------------------------------
(* wuy_heap_push_node(), up to the call of wuy_heapify_up().               *)

\* realloc() succeeded for `c' bytes: capture counts slots, realloc bytes, so
\* the new block is too short even for the items inside.  (When the first
\* realloc() failed the second is given NULL and returns a fresh block.)
GrownTo(c) == capture' = c /\ slots' = c \div PtrSize

RoomForOne ==
  \/ count < capture /\ UNCHANGED <<capture, slots>>
  \/ count >= capture /\ GrownTo(capture * 2)
  \/ count >= capture /\ GrownTo(capture + SizeInit)

\* array[count] = node is outside the block: the behaviour is undefined from
\* here on and the model stops; its other variables keep their last values.
Overrun ==
  /\ slots' <= count
  /\ Begin("overrun", "up", 0)
  /\ UNCHANGED <<array, index, held>>

StoreLast(n) ==
  /\ slots' > count
  /\ array' = [array EXCEPT ![count] = n]
  /\ index' = [index EXCEPT ![n] = count]
  /\ held' = held \cup {n}
  /\ Begin("push", "up", count)

\* The caller has set the key of the item it pushes.
PushNode(n, k) ==
  /\ count < MaxCount
  /\ key' = [key EXCEPT ![n] = k]
  /\ \/ RoomForOne /\ (StoreLast(n) \/ Overrun)
     \/ /\ count >= capture    \* both realloc() fail: roll back
        /\ UNCHANGED <<array, capture, slots, index, call, loop, cur, held>>
  /\ UNCHANGED <<count, bound, orderly>>

\* wuy_heap_push() asserts that the node is not linked.
Push(n, k) == Idle /\ ~IsLinked(n) /\ PushNode(n, k)

-----------------------------------------------------------------------------
(* wuy_heap_fix(): the caller has changed the key of a linked item.        *)

FixNode(n, k) ==
  /\ key' = [key EXCEPT ![n] = k]
  /\ LET i == index[n]
         up == i > 0 /\ KeyLess(k, key[array[Parent(i)]])
     IN  Begin("fix", IF up THEN "up" ELSE "down", i)
  /\ UNCHANGED <<array, count, capture, slots, index, bound, held, orderly>>

\* wuy_heap_fix() asserts that the node is linked.
Fix(n, k) == Idle /\ IsLinked(n) /\ FixNode(n, k)

\* Mutant: the item is pushed again.
PushAlways(n, k) == Idle /\ PushNode(n, k)

PushOrFix(n, k) ==
  /\ Idle
  /\ \/ IsLinked(n) /\ FixNode(n, k)
     \/ ~IsLinked(n) /\ PushNode(n, k)

-----------------------------------------------------------------------------
(* wuy_heap_rebuild(): update item i, then heapify_up(i), for i upwards.   *)
(* The new key is any key, the old one when key_update is NULL.            *)

UpdateKey(i, k) == key' = [key EXCEPT ![array[i]] = k]

Rebuild(k) ==
  /\ Idle
  /\ count > 0
  /\ UpdateKey(0, k)
  /\ Begin("rebuild", "up", 0)
  /\ UNCHANGED <<array, count, capture, slots, index, bound, held, orderly>>

\* Mutant: the item is updated after its predecessor was sifted.
RebuildLate(k) ==
  /\ bound + 1 < count
  /\ UpdateKey(bound + 1, k)
  /\ bound' = bound + 1
  /\ Begin("rebuild", "up", bound)
  /\ UNCHANGED count

\* Mutant: the loop runs to count itself.
RebuildPastEnd(k) ==
  /\ bound + 1 <= count
  /\ UpdateKey(bound + 1, k)
  /\ bound' = bound + 1
  /\ Begin("rebuild", "up", bound + 1)
  /\ UNCHANGED count

RebuildNext(k) ==
  /\ bound + 1 < count
  /\ UpdateKey(bound + 1, k)
  /\ bound' = bound + 1
  /\ Begin("rebuild", "up", bound + 1)
  /\ UNCHANGED count

-----------------------------------------------------------------------------
(* wuy_heap_delete_index() and its two callers.                            *)

\* Mutant: the last item but one takes the free slot.
DeleteIndexSecondLast(i) ==
  /\ count' = count - 1
  /\ held' = held \ {array[i]}
  /\ \/ /\ count - 1 > 0
        /\ Swap(i, count - 2)
        /\ Begin("delete", "down", i)
     \/ /\ count - 1 <= 0
        /\ UNCHANGED <<array, index, call, loop, cur>>
  /\ UNCHANGED <<capture, slots, key, bound>>

DeleteIndex(i) ==
  /\ count' = count - 1
  /\ held' = held \ {array[i]}
  /\ \/ /\ count - 1 > 0
        /\ Swap(i, count - 1)
        /\ Begin("delete", "down", i)
     \/ /\ count - 1 <= 0
        /\ UNCHANGED <<array, index, call, loop, cur>>
  /\ UNCHANGED <<capture, slots, key, bound>>

\* Mutant: an empty heap is popped.
PopUnguarded == Idle /\ DeleteIndex(0) /\ UNCHANGED orderly

Pop == Idle /\ count > 0 /\ DeleteIndex(0) /\ UNCHANGED orderly

\* The strict order behind wuy_heap_less().
Before(a, b) == IF KeyReverse THEN a > b ELSE a < b
KeyAt(i) == key[array[i]]

\* Specification only: sifting down is enough for the last item when it takes
\* slot i, as it does not belong above its new parent.
SinksFrom(i) ==
  \/ i = 0
  \/ i = count - 1
  \/ ~Before(KeyAt(count - 1), KeyAt(Parent(i)))

\* wuy_heap_delete() returns false when the item is not linked.
Delete(n) ==
  /\ Idle /\ IsLinked(n)
  /\ DeleteIndex(index[n])
  /\ orderly' = (orderly /\ SinksFrom(index[n]))

-----------------------------------------------------------------------------
(* One iteration of the heapify loops, and what follows the last one.      *)

SiftsUp == cur > 0 /\ Less(cur, Parent(cur))

UpStep ==
  /\ call \in {"push", "fix", "rebuild"} /\ loop = "up"
  /\ SiftsUp
  /\ Swap(cur, Parent(cur))
  /\ cur' = Parent(cur)
  /\ UNCHANGED <<count, capture, slots, key, call, loop, bound, held, orderly>>

UpDone ==
  /\ call \in {"push", "fix", "rebuild"} /\ loop = "up"
  /\ ~SiftsUp
  /\ \/ call = "push" /\ count' = count + 1 /\ Return /\ UNCHANGED <<key, orderly>>
     \/ call = "fix" /\ Return /\ UNCHANGED <<count, key, orderly>>
     \/ call = "rebuild" /\ \E k \in Keys : RebuildNext(k) /\ UNCHANGED orderly
     \/ /\ call = "rebuild" /\ bound + 1 >= count
        /\ Return /\ orderly' = TRUE /\ UNCHANGED <<count, key>>
  /\ UNCHANGED <<array, capture, slots, index, held>>

\* Mutants: the right child is left out; it is compared with the parent only.
SwapWithLeft ==
  LET left == cur * 2 + 1
  IN  IF left < count /\ Less(left, cur) THEN left ELSE cur

SwapWithEither ==
  LET left  == cur * 2 + 1
      right == left + 1
      first == IF left < count /\ Less(left, cur) THEN left ELSE cur
  IN  IF right < count /\ Less(right, cur) THEN right ELSE first

\* The `swap' of wuy_heapify_down(): cur, or the child to exchange it with.
SwapWith ==
  LET left  == cur * 2 + 1
      right == left + 1
      first == IF left < count /\ Less(left, cur) THEN left ELSE cur
  IN  IF right < count /\ Less(right, first) THEN right ELSE first

\* Mutant: the loop does not follow the item it moved.
DownStepInPlace ==
  /\ call \in {"fix", "delete"} /\ loop = "down"
  /\ SwapWith # cur
  /\ Swap(cur, SwapWith)
  /\ UNCHANGED <<count, capture, slots, key, call, loop, cur, bound, held,
                 orderly>>

DownStep ==
  /\ call \in {"fix", "delete"} /\ loop = "down"
  /\ SwapWith # cur
  /\ Swap(cur, SwapWith)
  /\ cur' = SwapWith
  /\ UNCHANGED <<count, capture, slots, key, call, loop, bound, held, orderly>>

DownDone ==
  /\ call \in {"fix", "delete"} /\ loop = "down"
  /\ SwapWith = cur
  /\ Return
  /\ UNCHANGED <<array, count, capture, slots, index, key, held, orderly>>

-----------------------------------------------------------------------------
Iterate == UpStep \/ UpDone \/ DownStep \/ DownDone

Next ==
  \/ \E n \in Items, k \in Keys : Push(n, k) \/ Fix(n, k) \/ PushOrFix(n, k)
  \/ \E k \in Keys : Rebuild(k)
  \/ Pop
  \/ \E n \in Items : Delete(n)
  \/ Iterate

Spec == Init /\ [][Next]_vars

\* A call that has started is run to its end by the thread that made it.
FairSpec == Spec /\ WF_vars(Iterate)
-----------------------------------------------------------------------------
(* Structure.                                                              *)

\* How far the array is in use: push counts its item only when it returns.
Top == IF call = "push" THEN count + 1 ELSE count

\* The one type invariant: the state is well typed and the loop indexes stay
\* inside the part of the array that is in use; only the deletion of the item in
\* the last slot sifts down from that slot, which it has just given up.
TypeOK ==
  /\ array \in [Slot -> Items \cup {NoItem}]
  /\ count \in 0 .. MaxCount
  /\ capture \in Nat
  /\ slots \in Nat
  /\ index \in [Items -> Nat]
  /\ key \in [Items -> Keys]
  /\ call \in {"none", "push", "fix", "rebuild", "delete", "overrun"}
  /\ loop \in {"up", "down"}
  /\ cur \in Nat /\ bound \in Nat
  /\ call \in {"push", "fix"} => cur < Top
  /\ call = "rebuild" => cur <= bound /\ bound < count
  /\ call = "delete" => cur <= count
  /\ held \subseteq Items
  /\ orderly \in BOOLEAN

\* Array and back-pointers agree in every state, also half-way through a
\* call: the item in a used slot names that slot (wuy_heap_swap(), push_node).
BackPointers ==
  \A i \in 0 .. Top - 1 : array[i] \in Items /\ index[array[i]] = i

\* The used slots hold exactly the items the caller handed over and did not
\* get back: no heapify step loses or duplicates one.
HoldsExactly == held = {array[i] : i \in 0 .. Top - 1}

\* wuy_heap_is_linked() is right for every item whatever its uninitialised,
\* or left-over, node->index says; push, fix and delete rely on it.
LinkedIffHeld == Idle => \A n \in Items : IsLinked(n) <=> n \in held

\* wuy_heap_count() is the number of items inside.
CountIsHeld == Idle => count = Cardinality(held)

\* The code never writes outside the block realloc() gave it (wuy_heap.h:95
\* allows push to fail, not to do that).
StaysInBlock == call # "overrun"

-----------------------------------------------------------------------------
(* Order.                                                                  *)

\* K, the keys by slot, is in heap order on the first n slots,
Ordered(K, n) == \A i \in 1 .. n - 1 : ~Before(K[i], K[Parent(i)])

\* but for slot c and its parent, as wuy_heapify_up() goes along,
OrderedButUp(K, n, c) ==
  /\ \A i \in 1 .. n - 1 : i = c \/ ~Before(K[i], K[Parent(i)])
  /\ c > 0 => \A i \in 1 .. n - 1 :
                Parent(i) = c => ~Before(K[i], K[Parent(c)])

\* but for slot c and its children, as wuy_heapify_down() goes along.
OrderedButDown(K, n, c) ==
  /\ \A i \in 1 .. n - 1 : Parent(i) = c \/ ~Before(K[i], K[Parent(i)])
  /\ c > 0 => \A i \in 1 .. n - 1 :
                Parent(i) = c => ~Before(K[i], K[Parent(c)])

KeysUpTo(n) == [i \in 0 .. n - 1 |-> KeyAt(i)]

\* Between calls every item is in heap order with its parent, from the start
\* and again after every wuy_heap_rebuild(), until a deletion that does not sink.
HeapOrder == Idle /\ orderly => Ordered(KeysUpTo(count), count)

\* No used slot holds an item before the root's.
RootIsFirst == \A i \in 0 .. count - 1 : ~Before(KeyAt(i), KeyAt(0))

\* What wuy_heap_min() and wuy_heap_pop() return is then a minimum.
MinAtRoot == Idle /\ orderly => RootIsFirst

\* "Pop and return the min item" (wuy_heap.h:100), whatever was deleted.
PopsMin == Idle => RootIsFirst

\* The part of the array the call in progress has in order: rebuild has come
\* to `bound'.
Extent == IF call = "rebuild" THEN bound + 1 ELSE Top

\* What the loops know half-way through a call.
InOrderSoFar ==
  LET K == KeysUpTo(Extent)
  IN  IF Idle THEN Ordered(K, Extent)
      ELSE IF loop = "up" THEN OrderedButUp(K, Extent, cur)
                          ELSE OrderedButDown(K, Extent, cur)

\* HeapOrder made inductive.  A rebuild needs no order to start from: the part
\* it has been through is in order whatever came before.
AlmostOrdered == orderly \/ call = "rebuild" => InOrderSoFar

\* Every call comes to its end, the push that left its block excepted.
CallsReturn == ~Idle ~> (Idle \/ call = "overrun")
=============================================================================
