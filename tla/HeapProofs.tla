----------------------------- MODULE HeapProofs -----------------------------
(***************************************************************************)
(* Theorems about Heap, for every set of items, keys and sizes: first that *)
(* nothing is lost, then the order.                                        *)
(***************************************************************************)
EXTENDS Heap, TLAPS, FiniteSetTheorems, WellFoundedInduction

-----------------------------------------------------------------------------
(* The array as a tree.                                                    *)

\* A slot other than the root is the left or the right child of its parent.
LEMMA ParentFacts ==
  ASSUME NEW i \in Nat \ {0}
  PROVE  /\ Parent(i) \in Nat
         /\ Parent(i) < i
         /\ i = 2 * Parent(i) + 1 \/ i = 2 * Parent(i) + 2
BY DEF Parent

\* Array and back-pointers agree on the first n slots.
Wired(arr, ind, n) == \A i \in 0 .. n - 1 : arr[i] \in Items /\ ind[arr[i]] = i

\* wuy_heap_swap() keeps slots and back-pointers in step, and exchanges the
\* items of the two slots and no others.
LEMMA SwapWired ==
  ASSUME NEW n \in 0 .. MaxCount, NEW i \in 0 .. n - 1, NEW j \in 0 .. n - 1,
         array \in [Slot -> Items \cup {NoItem}], index \in [Items -> Nat],
         MaxCount \in Nat,
         Wired(array, index, n), Swap(i, j)
  PROVE  /\ array' \in [Slot -> Items \cup {NoItem}]
         /\ index' \in [Items -> Nat]
         /\ Wired(array', index', n)
         /\ \A m \in 0 .. n - 1 :
              array'[m] = IF m = i THEN array[j] ELSE IF m = j THEN array[i] ELSE array[m]
<1>1. /\ i \in Slot /\ j \in Slot /\ 0 .. n - 1 \subseteq Slot
      /\ array[i] \in Items /\ array[j] \in Items
  BY DEF Slot, Wired
<1>2. array' \in [Slot -> Items \cup {NoItem}] /\ index' \in [Items -> Nat]
  BY <1>1 DEF Swap
<1>3. \A m \in 0 .. n - 1 :
        array'[m] = IF m = i THEN array[j] ELSE IF m = j THEN array[i] ELSE array[m]
  BY <1>1 DEF Swap
<1>4. Wired(array', index', n)
  BY <1>1, <1>3 DEF Swap, Wired
<1> QED  BY <1>2, <1>3, <1>4
-----------------------------------------------------------------------------
(* Structure: array, back-pointers, and the items the caller handed over.  *)

\* Which loop is in progress, and how far it may be.
LoopOK ==
  /\ call = "push" => loop = "up" /\ cur <= count /\ count < MaxCount
  /\ call = "rebuild" => loop = "up" /\ cur <= bound /\ bound < count
  /\ call # "rebuild" => bound = 0
  /\ call = "fix" => cur < count
  /\ call = "delete" => loop = "down" /\ cur <= count

\* The inductive invariant behind the structural properties.
StructInv == TypeOK /\ BackPointers /\ HoldsExactly /\ LoopOK

\* Distinct used slots hold distinct items.
LEMMA Distinct ==
  ASSUME BackPointers, NEW i \in 0 .. Top - 1, NEW j \in 0 .. Top - 1,
         array[i] = array[j]
  PROVE  i = j
BY DEF BackPointers

LEMMA InitStruct == Init => StructInv
BY HeapAssumption
   DEF Init, StructInv, TypeOK, BackPointers, HoldsExactly, LoopOK, Top, Slot

LEMMA PushStruct ==
  ASSUME StructInv, NEW n \in Items, NEW k \in Keys, Idle, ~IsLinked(n),
         PushNode(n, k)
  PROVE  StructInv'
<1> USE HeapAssumption DEF StructInv, Idle
<1>1. key' \in [Items -> Keys] /\ capture' \in Nat /\ slots' \in Nat
  <2>1. key' \in [Items -> Keys]
    BY DEF TypeOK, PushNode
  <2>2. CASE RoomForOne
    BY <2>1, <2>2 DEF TypeOK, RoomForOne, GrownTo
  <2>3. CASE UNCHANGED <<capture, slots>>
    BY <2>1, <2>3 DEF TypeOK
  <2> QED  BY <2>1, <2>2, <2>3 DEF PushNode
<1>2. n \notin held
  <2>1. SUFFICES ASSUME NEW i \in 0 .. count - 1, array[i] = n  PROVE FALSE
    BY DEF HoldsExactly, Top
  <2>2. index[n] = i
    BY <2>1 DEF BackPointers, Top
  <2> QED  BY <2>1, <2>2, ~IsLinked(n) DEF IsLinked, TypeOK
<1>3. CASE StoreLast(n)
  <2>1. count' = count /\ Top = count /\ Top' = count + 1 /\ count \in Slot
    BY <1>3 DEF PushNode, StoreLast, Begin, Top, TypeOK, Slot
  <2>2. /\ array' \in [Slot -> Items \cup {NoItem}] /\ index' \in [Items -> Nat]
        /\ array'[count] = n /\ index'[n] = count
        /\ \A i \in 0 .. count - 1 : array'[i] = array[i] /\ array[i] # n
    BY <1>2, <1>3, <2>1 DEF StoreLast, TypeOK, Slot, HoldsExactly
  <2>3. BackPointers'
    BY <1>3, <2>1, <2>2 DEF BackPointers, StoreLast, TypeOK
  <2>4. HoldsExactly'
    BY <1>3, <2>1, <2>2 DEF HoldsExactly, StoreLast, TypeOK
  <2>5. TypeOK' /\ LoopOK'
    BY <1>1, <1>3, <2>1, <2>2 DEF TypeOK, LoopOK, PushNode, StoreLast, Begin
  <2> QED  BY <2>3, <2>4, <2>5
<1>4. CASE Overrun
  <2>1. UNCHANGED <<array, index, held, count>> /\ Top' = Top /\ call' = "overrun"
    BY <1>4 DEF Overrun, PushNode, Begin, Top
  <2>2. BackPointers' /\ HoldsExactly'
    BY <2>1 DEF BackPointers, HoldsExactly
  <2>3. TypeOK' /\ LoopOK'
    BY <1>1, <1>4, <2>1 DEF TypeOK, LoopOK, PushNode, Overrun, Begin
  <2> QED  BY <2>2, <2>3
<1>5. CASE UNCHANGED <<array, capture, slots, index, call, loop, cur, held>>
  <2>1. UNCHANGED <<array, index, held, count, call>> /\ Top' = Top
    BY <1>5 DEF PushNode, Top
  <2>2. BackPointers' /\ HoldsExactly'
    BY <2>1 DEF BackPointers, HoldsExactly
  <2>3. TypeOK' /\ LoopOK'
    BY <1>1, <1>5, <2>1 DEF TypeOK, LoopOK, PushNode
  <2> QED  BY <2>2, <2>3
<1> QED  BY <1>3, <1>4, <1>5 DEF PushNode

LEMMA FixStruct ==
  ASSUME StructInv, NEW n \in Items, NEW k \in Keys, Idle, IsLinked(n),
         FixNode(n, k)
  PROVE  StructInv'
<1>1. UNCHANGED <<array, index, held, count, capture, slots, bound, orderly>>
      /\ Top' = Top
  BY DEF FixNode, Begin, Top, Idle
<1>2. BackPointers' /\ HoldsExactly'
  BY <1>1 DEF BackPointers, HoldsExactly, StructInv
<1>3. key' \in [Items -> Keys] /\ call' = "fix" /\ cur' = index[n]
      /\ loop' \in {"up", "down"}
  BY DEF StructInv, TypeOK, FixNode, Begin
<1>4. index[n] \in 0 .. count - 1
  BY DEF IsLinked, StructInv, TypeOK
<1>5. TypeOK' /\ LoopOK'
  BY <1>1, <1>3, <1>4, HeapAssumption DEF TypeOK, LoopOK, StructInv, Idle, Top
<1> QED  BY <1>2, <1>5 DEF StructInv

LEMMA RebuildStruct ==
  ASSUME StructInv, NEW k \in Keys, Rebuild(k)
  PROVE  StructInv'
<1>1. UNCHANGED <<array, index, held, count, capture, slots, bound, orderly>>
      /\ Top' = Top
  BY DEF Rebuild, Begin, Top, Idle
<1>2. BackPointers' /\ HoldsExactly'
  BY <1>1 DEF BackPointers, HoldsExactly, StructInv
<1>3. key' \in [Items -> Keys]
  BY DEF Rebuild, UpdateKey, StructInv, TypeOK
<1>4. call = "none" /\ call' = "rebuild" /\ loop' = "up" /\ cur' = 0 /\ count > 0
  BY DEF Rebuild, Begin, Idle
<1>5. TypeOK' /\ LoopOK'
  BY <1>1, <1>3, <1>4, HeapAssumption DEF TypeOK, LoopOK, StructInv
<1> QED  BY <1>2, <1>5 DEF StructInv

LEMMA DeleteStruct ==
  ASSUME StructInv, Idle, NEW i \in 0 .. count - 1, DeleteIndex(i),
         orderly' \in BOOLEAN
  PROVE  StructInv'
<1> USE DEF StructInv
<1>1. count \in 1 .. MaxCount /\ MaxCount \in Nat /\ Top = count
  BY HeapAssumption DEF TypeOK, Top, Idle
<1>2. count' = count - 1 /\ UNCHANGED <<capture, slots, key, bound>>
      /\ held' = held \ {array[i]}
  BY DEF DeleteIndex
<1>3. CASE /\ count - 1 > 0
           /\ Swap(i, count - 1)
           /\ Begin("delete", "down", i)
  <2>1. Top' = count - 1
    BY <1>2, <1>3 DEF Top, Begin
  <2>2. /\ array' \in [Slot -> Items \cup {NoItem}] /\ index' \in [Items -> Nat]
        /\ Wired(array', index', count)
        /\ \A m \in 0 .. count - 1 :
             array'[m] = IF m = i THEN array[count - 1]
                         ELSE IF m = count - 1 THEN array[i] ELSE array[m]
    <3>1. Wired(array, index, count)
      BY <1>1 DEF BackPointers, Wired
    <3>2. count \in 0 .. MaxCount /\ count - 1 \in 0 .. count - 1
      BY <1>1
    <3> QED  BY <1>1, <1>3, <3>1, <3>2, SwapWired DEF TypeOK
  <2>3. BackPointers'
    BY <1>1, <2>1, <2>2 DEF BackPointers, Wired
  <2>4. HoldsExactly'
    <3>1. held = {array[m] : m \in 0 .. count - 1}
      BY <1>1 DEF HoldsExactly
    <3>2. \A m \in 0 .. count - 1 : array[m] = array[i] => m = i
      BY <1>1, Distinct
    <3>3. {array'[m] : m \in 0 .. count - 2} = held \ {array[i]}
      <4>1. ASSUME NEW m \in 0 .. count - 2  PROVE array'[m] \in held \ {array[i]}
        BY <1>1, <2>2, <3>1, <3>2
      <4>2. ASSUME NEW m \in 0 .. count - 1, m # i
            PROVE  \E p \in 0 .. count - 2 : array'[p] = array[m]
        <5>1. CASE m = count - 1
          BY <1>1, <2>2, <4>2, <5>1
        <5>2. CASE m # count - 1
          BY <1>1, <2>2, <4>2, <5>2
        <5> QED  BY <5>1, <5>2
      <4>3. \A n \in held \ {array[i]} : \E p \in 0 .. count - 2 : n = array'[p]
        BY <3>1, <4>2
      <4> QED  BY <4>1, <4>3
    <3>4. 0 .. Top' - 1 = 0 .. count - 2
      BY <1>1, <2>1
    <3> QED  BY <1>2, <3>3, <3>4 DEF HoldsExactly
  <2>5. TypeOK' /\ LoopOK'
    BY <1>1, <1>2, <1>3, <2>2 DEF TypeOK, LoopOK, Begin, Idle
  <2> QED  BY <2>3, <2>4, <2>5
<1>4. CASE count - 1 <= 0 /\ UNCHANGED <<array, index, call, loop, cur>>
  <2>1. count = 1 /\ i = 0 /\ Top' = 0 /\ count' = 0
    BY <1>1, <1>2, <1>4 DEF Top, Idle
  <2>2. held' = {}
    BY <1>1, <1>2, <2>1 DEF HoldsExactly
  <2>3. BackPointers' /\ HoldsExactly'
    BY <2>1, <2>2 DEF BackPointers, HoldsExactly
  <2>4. TypeOK' /\ LoopOK'
    BY <1>1, <1>2, <1>4, <2>1, <2>2 DEF TypeOK, LoopOK, Idle
  <2> QED  BY <2>3, <2>4
<1> QED  BY <1>3, <1>4 DEF DeleteIndex

\* Exchanging two used slots inside a loop keeps the structure.
LEMMA LoopSwapStruct ==
  ASSUME StructInv, NEW i \in 0 .. Top - 1, NEW j \in 0 .. Top - 1, Swap(i, j),
         UNCHANGED <<count, capture, slots, key, call, loop, bound, held>>
  PROVE  /\ array' \in [Slot -> Items \cup {NoItem}] /\ index' \in [Items -> Nat]
         /\ BackPointers' /\ HoldsExactly'
<1>1. Top' = Top
  BY DEF Top
<1>2. MaxCount \in Nat /\ Top \in 0 .. MaxCount
  BY HeapAssumption DEF StructInv, TypeOK, LoopOK, Top
<1>3. /\ array' \in [Slot -> Items \cup {NoItem}] /\ index' \in [Items -> Nat]
      /\ Wired(array', index', Top)
      /\ \A m \in 0 .. Top - 1 :
           array'[m] = IF m = i THEN array[j] ELSE IF m = j THEN array[i] ELSE array[m]
  <2>1. Wired(array, index, Top)
    BY DEF StructInv, BackPointers, Wired
  <2> QED  BY <1>2, <2>1, SwapWired DEF StructInv, TypeOK
<1>4. BackPointers'
  BY <1>1, <1>3 DEF BackPointers, Wired
<1>5. {array'[m] : m \in 0 .. Top - 1} = {array[m] : m \in 0 .. Top - 1}
  <2>1. \A m \in 0 .. Top - 1 : \E p \in 0 .. Top - 1 : array'[m] = array[p]
    BY <1>3
  <2>2. \A m \in 0 .. Top - 1 : \E p \in 0 .. Top - 1 : array[m] = array'[p]
    BY <1>3
  <2> DEFINE A == {array'[m] : m \in 0 .. Top - 1}  B == {array[m] : m \in 0 .. Top - 1}
  <2>3. ASSUME NEW x \in A  PROVE x \in B
    <3>1. PICK m \in 0 .. Top - 1 : x = array'[m]
      OBVIOUS
    <3> QED  BY <2>1, <3>1
  <2>4. ASSUME NEW x \in B  PROVE x \in A
    <3>1. PICK m \in 0 .. Top - 1 : x = array[m]
      OBVIOUS
    <3> QED  BY <2>2, <3>1
  <2> HIDE DEF A, B
  <2>5. A = B
    BY <2>3, <2>4
  <2> QED  BY <2>5 DEF A, B
<1> QED  BY <1>1, <1>3, <1>4, <1>5 DEF StructInv, HoldsExactly

LEMMA UpStruct ==
  ASSUME StructInv, UpStep
  PROVE  StructInv'
<1>1. /\ cur \in Nat \ {0} /\ Swap(cur, Parent(cur)) /\ cur' = Parent(cur)
      /\ UNCHANGED <<count, capture, slots, key, call, loop, bound, held, orderly>>
  BY DEF UpStep, SiftsUp, StructInv, TypeOK
<1>2. Parent(cur) \in 0 .. cur - 1 /\ cur \in 0 .. Top - 1
  BY <1>1, ParentFacts DEF UpStep, StructInv, LoopOK, TypeOK, Top
<1>3. Parent(cur) \in 0 .. Top - 1
  BY <1>2 DEF StructInv, TypeOK, Top
<1>4. /\ array' \in [Slot -> Items \cup {NoItem}] /\ index' \in [Items -> Nat]
      /\ BackPointers' /\ HoldsExactly'
  BY <1>1, <1>2, <1>3, LoopSwapStruct
<1>5. TypeOK' /\ LoopOK'
  BY <1>1, <1>2, <1>4, HeapAssumption DEF StructInv, TypeOK, LoopOK, UpStep, Top
<1> QED  BY <1>4, <1>5 DEF StructInv

LEMMA DownStruct ==
  ASSUME StructInv, DownStep
  PROVE  StructInv'
<1>1. /\ Swap(cur, SwapWith) /\ cur' = SwapWith /\ SwapWith # cur /\ cur \in Nat
      /\ UNCHANGED <<count, capture, slots, key, call, loop, bound, held, orderly>>
  BY DEF DownStep, StructInv, TypeOK
<1>2. SwapWith \in cur + 1 .. count - 1 /\ Top = count
  BY <1>1 DEF SwapWith, DownStep, StructInv, TypeOK, Top
<1>3. SwapWith \in 0 .. Top - 1 /\ cur \in 0 .. Top - 1
  BY <1>1, <1>2 DEF StructInv, TypeOK
<1>4. /\ array' \in [Slot -> Items \cup {NoItem}] /\ index' \in [Items -> Nat]
      /\ BackPointers' /\ HoldsExactly'
  BY <1>1, <1>3, LoopSwapStruct
<1>5. TypeOK' /\ LoopOK'
  BY <1>1, <1>2, <1>4, HeapAssumption DEF StructInv, TypeOK, LoopOK, DownStep, Top
<1> QED  BY <1>4, <1>5 DEF StructInv

LEMMA UpDoneStruct ==
  ASSUME StructInv, UpDone
  PROVE  StructInv'
<1>1. UNCHANGED <<array, capture, slots, index, held>>
  BY DEF UpDone
<1>2. CASE call = "push" /\ count' = count + 1 /\ Return /\ UNCHANGED <<key, orderly>>
  <2>1. Top' = Top
    BY <1>2 DEF Top, Return
  <2>2. BackPointers' /\ HoldsExactly'
    BY <1>1, <2>1 DEF BackPointers, HoldsExactly, StructInv
  <2>3. TypeOK' /\ LoopOK'
    BY <1>1, <1>2, HeapAssumption DEF TypeOK, LoopOK, StructInv, Return
  <2> QED  BY <2>2, <2>3 DEF StructInv
<1>3. CASE /\ call \in {"fix", "rebuild"} /\ Return /\ UNCHANGED <<count, key>>
           /\ orderly' \in BOOLEAN
  <2>1. Top' = Top
    BY <1>3 DEF Top, Return
  <2>2. BackPointers' /\ HoldsExactly'
    BY <1>1, <2>1 DEF BackPointers, HoldsExactly, StructInv
  <2>3. TypeOK' /\ LoopOK'
    BY <1>1, <1>3, HeapAssumption DEF TypeOK, LoopOK, StructInv, Return
  <2> QED  BY <2>2, <2>3 DEF StructInv
<1>4. CASE call = "rebuild" /\ \E k \in Keys : RebuildNext(k) /\ UNCHANGED orderly
  <2>1. PICK k \in Keys : RebuildNext(k) /\ UNCHANGED orderly
    BY <1>4
  <2>2. Top' = Top
    BY <1>4, <2>1 DEF Top, RebuildNext, Begin
  <2>3. BackPointers' /\ HoldsExactly'
    BY <1>1, <2>2 DEF BackPointers, HoldsExactly, StructInv
  <2>4. key' \in [Items -> Keys]
    BY <2>1 DEF RebuildNext, UpdateKey, StructInv, TypeOK
  <2>5. /\ bound + 1 < count /\ bound' = bound + 1 /\ cur' = bound + 1
        /\ count' = count /\ orderly' = orderly /\ call' = "rebuild" /\ loop' = "up"
    BY <2>1 DEF RebuildNext, Begin
  <2>6. TypeOK' /\ LoopOK'
    BY <1>1, <2>4, <2>5, HeapAssumption DEF TypeOK, LoopOK, StructInv
  <2> QED  BY <2>3, <2>6 DEF StructInv
<1>5. orderly \in BOOLEAN
  BY DEF StructInv, TypeOK
<1>6. CASE UNCHANGED orderly
  <2>1. orderly' \in BOOLEAN
    BY <1>5, <1>6
  <2> QED  BY <1>2, <1>3, <1>4, <1>6, <2>1 DEF UpDone
<1>7. CASE orderly' = TRUE
  <2>1. orderly' \in BOOLEAN
    BY <1>7
  <2> QED  BY <1>2, <1>3, <1>4, <1>7, <2>1 DEF UpDone
<1> QED  BY <1>6, <1>7 DEF UpDone

LEMMA DownDoneStruct ==
  ASSUME StructInv, DownDone
  PROVE  StructInv'
<1>1. UNCHANGED <<array, index, held, count>> /\ Top' = Top
  BY DEF DownDone, Return, Top
<1>2. BackPointers' /\ HoldsExactly'
  BY <1>1 DEF BackPointers, HoldsExactly, StructInv
<1>3. TypeOK' /\ LoopOK'
  BY <1>1, HeapAssumption DEF TypeOK, LoopOK, StructInv, DownDone, Return
<1> QED  BY <1>2, <1>3 DEF StructInv

LEMMA NextStruct == StructInv /\ [Next]_vars => StructInv'
<1> SUFFICES ASSUME StructInv, [Next]_vars  PROVE StructInv'
  OBVIOUS
<1>1. ASSUME NEW n \in Items, NEW k \in Keys, Push(n, k)  PROVE StructInv'
  BY <1>1, PushStruct DEF Push
<1>2. ASSUME NEW n \in Items, NEW k \in Keys, Fix(n, k)  PROVE StructInv'
  BY <1>2, FixStruct DEF Fix
<1>3. ASSUME NEW n \in Items, NEW k \in Keys, PushOrFix(n, k)  PROVE StructInv'
  BY <1>3, PushStruct, FixStruct DEF PushOrFix
<1>4. ASSUME NEW k \in Keys, Rebuild(k)  PROVE StructInv'
  BY <1>4, RebuildStruct
<1>5. CASE Pop
  <2>1. 0 \in 0 .. count - 1
    BY <1>5 DEF Pop, StructInv, TypeOK
  <2>2. orderly' \in BOOLEAN
    BY <1>5 DEF Pop, StructInv, TypeOK
  <2> QED  BY <1>5, <2>1, <2>2, DeleteStruct DEF Pop
<1>6. ASSUME NEW n \in Items, Delete(n)  PROVE StructInv'
  <2>1. index[n] \in 0 .. count - 1
    BY <1>6 DEF Delete, IsLinked, StructInv, TypeOK
  <2>2. orderly' \in BOOLEAN
    BY <1>6 DEF Delete, StructInv, TypeOK, SinksFrom
  <2> QED  BY <1>6, <2>1, <2>2, DeleteStruct DEF Delete
<1>7. CASE Iterate
  BY <1>7, UpStruct, UpDoneStruct, DownStruct, DownDoneStruct DEF Iterate
<1>8. CASE UNCHANGED vars
  BY <1>8 DEF vars, StructInv, TypeOK, BackPointers, HoldsExactly, LoopOK, Top
<1> QED  BY <1>1, <1>2, <1>3, <1>4, <1>5, <1>6, <1>7, <1>8 DEF Next

\* TypeOK, BackPointers and HoldsExactly hold in every state of every
\* behaviour, half-way through a call included: the heapify loops lose no item
\* and leave no back-pointer behind.
THEOREM Structure == Spec => [](TypeOK /\ BackPointers /\ HoldsExactly)
<1>1. Spec => []StructInv
  BY InitStruct, NextStruct, PTL DEF Spec
<1>2. StructInv => TypeOK /\ BackPointers /\ HoldsExactly
  BY DEF StructInv
<1> QED  BY <1>1, <1>2, PTL

\* The first part of it: array, indexes and the position of the heapify loops stay in
\* range at every step of a call.
THEOREM TypeTheorem == Spec => []TypeOK
BY Structure, PTL

\* wuy_heap_is_linked() answers rightly whatever an item outside the heap has
\* in its node.
THEOREM LinkedTheorem == Spec => []LinkedIffHeld
<1>1. StructInv => LinkedIffHeld
  <2>1. SUFFICES ASSUME StructInv, Idle, NEW n \in Items
                 PROVE  IsLinked(n) <=> n \in held
    BY DEF LinkedIffHeld
  <2>2. Top = count /\ index[n] \in Nat /\ count \in Nat
    BY <2>1 DEF Top, Idle, StructInv, TypeOK
  <2>3. IsLinked(n) => n \in held
    BY <2>1, <2>2 DEF IsLinked, StructInv, HoldsExactly
  <2>4. n \in held => IsLinked(n)
    BY <2>1, <2>2 DEF IsLinked, StructInv, HoldsExactly, BackPointers
  <2> QED  BY <2>3, <2>4
<1>2. Spec => []StructInv
  BY InitStruct, NextStruct, PTL DEF Spec
<1> QED  BY <1>1, <1>2, PTL

\* The items inside are counted: push counts its item only when it returns.
HeldCounted == IsFiniteSet(held) /\ Cardinality(held) = Top

LEMMA AddCounted ==
  ASSUME StructInv, HeldCounted, NEW n \in Items, NEW k \in Keys, Idle,
         ~IsLinked(n), PushNode(n, k)
  PROVE  HeldCounted'
<1>1. Top = count /\ count \in Nat
  BY DEF Top, Idle, StructInv, TypeOK
<1>2. n \notin held
  <2>1. SUFFICES ASSUME n \in held  PROVE IsLinked(n)
    OBVIOUS
  <2> QED  BY <1>1, <2>1 DEF IsLinked, StructInv, HoldsExactly, BackPointers
<1>3. CASE StoreLast(n)
  <2>1. held' = held \cup {n} /\ Top' = count + 1
    BY <1>3 DEF StoreLast, Begin, PushNode, Top
  <2> QED  BY <1>1, <1>2, <2>1, FS_AddElement DEF HeldCounted
<1>4. CASE ~StoreLast(n)
  <2>1. held' = held /\ Top' = count
    BY <1>1, <1>4 DEF PushNode, Overrun, Begin, Top, Idle
  <2> QED  BY <1>1, <2>1 DEF HeldCounted
<1> QED  BY <1>3, <1>4

LEMMA RemoveCounted ==
  ASSUME StructInv, HeldCounted, Idle, NEW i \in 0 .. count - 1, DeleteIndex(i)
  PROVE  HeldCounted'
<1>1. Top = count /\ count \in Nat
  BY DEF Top, Idle, StructInv, TypeOK
<1>2. array[i] \in held
  BY <1>1 DEF StructInv, HoldsExactly
<1>3. held' = held \ {array[i]} /\ Top' = count - 1
  BY DEF DeleteIndex, Begin, Top, Idle
<1> QED  BY <1>1, <1>2, <1>3, FS_RemoveElement DEF HeldCounted

LEMMA NextCounted == StructInv /\ HeldCounted /\ [Next]_vars => HeldCounted'
<1> SUFFICES ASSUME StructInv, HeldCounted, [Next]_vars  PROVE HeldCounted'
  OBVIOUS
<1>1. held' = held /\ Top' = Top => HeldCounted'
  BY DEF HeldCounted
<1>2. ASSUME NEW n \in Items, NEW k \in Keys, FixNode(n, k), Idle
      PROVE  held' = held /\ Top' = Top
  BY <1>2 DEF FixNode, Begin, Top, Idle
<1>3. ASSUME NEW n \in Items, NEW k \in Keys, Push(n, k) \/ PushOrFix(n, k)
      PROVE  HeldCounted'
  BY <1>1, <1>2, <1>3, AddCounted DEF Push, PushOrFix
<1>4. ASSUME NEW n \in Items, NEW k \in Keys, Fix(n, k)  PROVE HeldCounted'
  BY <1>1, <1>2, <1>4 DEF Fix
<1>5. ASSUME NEW k \in Keys, Rebuild(k)  PROVE HeldCounted'
  <2>1. held' = held /\ Top' = Top
    BY <1>5 DEF Rebuild, Begin, Top, Idle
  <2> QED  BY <1>1, <2>1
<1>6. CASE Pop
  <2>1. 0 \in 0 .. count - 1
    BY <1>6 DEF Pop, StructInv, TypeOK
  <2> QED  BY <1>6, <2>1, RemoveCounted DEF Pop
<1>7. ASSUME NEW n \in Items, Delete(n)  PROVE HeldCounted'
  <2>1. index[n] \in 0 .. count - 1
    BY <1>7 DEF Delete, IsLinked, StructInv, TypeOK
  <2> QED  BY <1>7, <2>1, RemoveCounted DEF Delete
<1>8. CASE Iterate
  <2>1. held' = held /\ Top' = Top
    BY <1>8 DEF Iterate, UpStep, UpDone, DownStep, DownDone, RebuildNext, Begin,
                Return, Top
  <2> QED  BY <1>1, <2>1
<1>9. CASE UNCHANGED vars
  BY <1>1, <1>9 DEF vars, Top
<1> QED  BY <1>3, <1>4, <1>5, <1>6, <1>7, <1>8, <1>9 DEF Next

\* wuy_heap_count() is right between any two calls.
THEOREM CountTheorem == Spec => []CountIsHeld
<1>1. Init => HeldCounted
  BY FS_EmptySet DEF Init, HeldCounted, Top
<1>2. HeldCounted => CountIsHeld
  BY DEF HeldCounted, CountIsHeld, Top, Idle
<1> QED  BY <1>1, <1>2, InitStruct, NextStruct, NextCounted, PTL DEF Spec

-----------------------------------------------------------------------------
(* The order of the heap.  The lemmas up to the steps speak of the keys by *)
(* slot, a function K on 0 .. n-1.                                         *)

\* The keys after wuy_heap_swap().
Exchanged(K, i, j) ==
  [m \in DOMAIN K |-> IF m = i THEN K[j] ELSE IF m = j THEN K[i] ELSE K[m]]

-----------------------------------------------------------------------------
(* The order, and one iteration of the two loops on the keys.              *)

LEMMA ParentAll ==
  \A i \in Nat \ {0} : /\ Parent(i) \in Nat
                       /\ Parent(i) < i
                       /\ i = 2 * Parent(i) + 1 \/ i = 2 * Parent(i) + 2
BY ParentFacts

LEMMA NotBeforeTransitive ==
  ASSUME NEW a \in Int, NEW b \in Int, NEW c \in Int,
         ~Before(a, b), ~Before(b, c)
  PROVE  ~Before(a, c)
BY DEF Before

LEMMA KeyLessFacts ==
  ASSUME NEW a \in Int, NEW b \in Int
  PROVE  /\ KeyLess(a, b) => ~Before(b, a)
         /\ ~KeyLess(a, b) => ~Before(a, b)
BY DEF KeyLess, Before

LEMMA UpKeeps ==
  ASSUME NEW n \in Nat, NEW K \in [0 .. n - 1 -> Int], NEW c \in 1 .. n - 1,
         OrderedButUp(K, n, c), KeyLess(K[c], K[Parent(c)])
  PROVE  OrderedButUp(Exchanged(K, c, Parent(c)), n, Parent(c))
<1> DEFINE p == Parent(c)  L == Exchanged(K, c, p)
<1>1. p \in 0 .. c - 1 /\ p \in 0 .. n - 1 /\ c \in 0 .. n - 1
  BY ParentAll
<1>2. \A i \in 1 .. n - 1 : Parent(i) \in 0 .. n - 1 /\ Parent(i) < i
  BY ParentAll
<1>3. L[c] = K[p] /\ L[p] = K[c] /\ \A m \in 0 .. n - 1 : m # c /\ m # p => L[m] = K[m]
  BY <1>1 DEF Exchanged
<1>4. ~Before(K[p], K[c])
  BY <1>1, KeyLessFacts
<1>5. ASSUME NEW i \in 1 .. n - 1, i # p  PROVE ~Before(L[i], L[Parent(i)])
  <2>1. CASE i = c
    BY <1>3, <1>4, <2>1
  <2>2. CASE i # c /\ Parent(i) = p
    <3>1. ~Before(K[i], K[p])
      BY <2>2 DEF OrderedButUp
    <3> QED  BY <1>1, <1>2, <1>3, <1>4, <1>5, <2>2, <3>1, NotBeforeTransitive
  <2>3. CASE Parent(i) = c
    <3>1. ~Before(K[i], K[p]) /\ i # c
      BY <1>1, <1>2, <2>3 DEF OrderedButUp
    <3> QED  BY <1>2, <1>3, <1>5, <2>3, <3>1
  <2>4. CASE i # c /\ Parent(i) # p /\ Parent(i) # c
    <3>1. ~Before(K[i], K[Parent(i)])
      BY <2>4 DEF OrderedButUp
    <3> QED  BY <1>2, <1>3, <1>5, <2>4, <3>1, SMTT(30)
  <2> QED  BY <2>1, <2>2, <2>3, <2>4
<1>6. ASSUME p > 0, NEW i \in 1 .. n - 1, Parent(i) = p
      PROVE  ~Before(L[i], L[Parent(p)])
  <2>1. p \in 1 .. n - 1 /\ p # c /\ Parent(p) \in 0 .. n - 1 /\ Parent(p) < p
    BY <1>1, <1>2, <1>6, SMTT(30)
  <2>2. ~Before(K[p], K[Parent(p)]) /\ L[Parent(p)] = K[Parent(p)]
    BY <1>1, <1>3, <2>1 DEF OrderedButUp
  <2>3. CASE i = c
    BY <1>3, <2>2, <2>3
  <2>4. CASE i # c
    <3>1. ~Before(K[i], K[p]) /\ L[i] = K[i]
      BY <1>2, <1>3, <1>6, <2>4 DEF OrderedButUp
    <3> QED  BY <1>1, <2>1, <2>2, <3>1, NotBeforeTransitive
  <2> QED  BY <2>3, <2>4
<1> QED  BY <1>5, <1>6 DEF OrderedButUp

LEMMA UpEnds ==
  ASSUME NEW n \in Nat, NEW K \in [0 .. n - 1 -> Int], NEW c \in 0 .. n - 1,
         OrderedButUp(K, n, c), c = 0 \/ ~KeyLess(K[c], K[Parent(c)])
  PROVE  Ordered(K, n)
<1>1. ASSUME NEW i \in 1 .. n - 1, i = c  PROVE ~Before(K[i], K[Parent(i)])
  BY <1>1, ParentAll, KeyLessFacts
<1> QED  BY <1>1 DEF Ordered, OrderedButUp

\* The child wuy_heapify_down() exchanges with is no later than slot c and
\* than the other child.
LEMMA DownKeeps ==
  ASSUME NEW n \in Nat, NEW K \in [0 .. n - 1 -> Int], NEW c \in 0 .. n - 1,
         NEW s \in 1 .. n - 1, OrderedButDown(K, n, c), Parent(s) = c,
         ~Before(K[c], K[s]),
         \A i \in 1 .. n - 1 : Parent(i) = c => ~Before(K[i], K[s])
  PROVE  OrderedButDown(Exchanged(K, c, s), n, s)
<1> DEFINE L == Exchanged(K, c, s)
<1>1. c \in 0 .. n - 1 /\ s \in 0 .. n - 1 /\ c < s
  BY ParentAll
<1>2. \A i \in 1 .. n - 1 : Parent(i) \in 0 .. n - 1 /\ Parent(i) < i
  BY ParentAll
<1>3. L[c] = K[s] /\ L[s] = K[c] /\ \A m \in 0 .. n - 1 : m # c /\ m # s => L[m] = K[m]
  BY <1>1 DEF Exchanged
<1>4. ASSUME NEW i \in 1 .. n - 1, Parent(i) # s  PROVE ~Before(L[i], L[Parent(i)])
  <2>1. CASE i = s
    BY <1>3, <2>1
  <2>2. CASE i # s /\ Parent(i) = c
    <3>1. ~Before(K[i], K[s]) /\ i # c
      BY <1>2, <2>2
    <3> QED  BY <1>3, <2>2, <3>1
  <2>3. CASE i = c
    <3>1. ~Before(K[s], K[Parent(c)])
      BY <2>3 DEF OrderedButDown
    <3>2. L[Parent(c)] = K[Parent(c)]
      BY <1>1, <1>2, <1>3, <2>3
    <3> QED  BY <1>3, <2>3, <3>1, <3>2
  <2>4. CASE i # s /\ i # c /\ Parent(i) # c
    <3>1. ~Before(K[i], K[Parent(i)])
      BY <2>4 DEF OrderedButDown
    <3>2. i \in 0 .. n - 1 /\ Parent(i) \in 0 .. n - 1
      BY <1>2
    <3>3. L[i] = K[i] /\ L[Parent(i)] = K[Parent(i)]
      BY <1>3, <1>4, <2>4, <3>2
    <3> QED  BY <3>1, <3>3
  <2> QED  BY <2>1, <2>2, <2>3, <2>4
<1>5. ASSUME NEW i \in 1 .. n - 1, Parent(i) = s  PROVE ~Before(L[i], L[Parent(s)])
  <2>1. ~Before(K[i], K[s]) /\ i # s /\ i # c
    BY <1>1, <1>2, <1>5 DEF OrderedButDown
  <2> QED  BY <1>3, <2>1
<1> QED  BY <1>4, <1>5 DEF OrderedButDown

LEMMA DownEnds ==
  ASSUME NEW n \in Nat, NEW K \in [0 .. n - 1 -> Int], NEW c \in Nat,
         OrderedButDown(K, n, c),
         \A i \in 1 .. n - 1 : Parent(i) = c => ~Before(K[i], K[c])
  PROVE  Ordered(K, n)
BY DEF Ordered, OrderedButDown

\* wuy_heap_push(): a new last slot.
LEMMA PushBegins ==
  ASSUME NEW n \in Nat, NEW K \in [0 .. n - 1 -> Int], NEW L \in [0 .. n -> Int],
         Ordered(K, n), \A m \in 0 .. n - 1 : L[m] = K[m]
  PROVE  OrderedButUp(L, n + 1, n)
<1>1. \A i \in 1 .. n : Parent(i) \in 0 .. n - 1
  BY ParentAll
<1>2. \A i \in 1 .. n - 1 : ~Before(L[i], L[Parent(i)])
  BY <1>1 DEF Ordered
<1> QED  BY <1>1, <1>2 DEF OrderedButUp

\* wuy_heap_fix(): slot c has got another key.
LEMMA FixBegins ==
  ASSUME NEW n \in Nat, NEW K \in [0 .. n - 1 -> Int], NEW L \in [0 .. n - 1 -> Int],
         NEW c \in 0 .. n - 1,
         Ordered(K, n), \A m \in 0 .. n - 1 : m # c => L[m] = K[m]
  PROVE  /\ c > 0 /\ KeyLess(L[c], L[Parent(c)]) => OrderedButUp(L, n, c)
         /\ ~(c > 0 /\ KeyLess(L[c], L[Parent(c)])) => OrderedButDown(L, n, c)
<1>1. \A i \in 1 .. n - 1 : Parent(i) \in 0 .. n - 1 /\ Parent(i) < i
  BY ParentAll
<1>2. \A i \in 1 .. n - 1 : i # c /\ Parent(i) # c => ~Before(L[i], L[Parent(i)])
  BY <1>1, SMTT(30) DEF Ordered
<1>3. ASSUME c > 0, NEW i \in 1 .. n - 1, Parent(i) = c
      PROVE  ~Before(L[i], L[Parent(c)])
  <2>1. c \in 1 .. n - 1 /\ i # c /\ Parent(c) # c /\ Parent(c) \in 0 .. n - 1
    BY <1>1, <1>3
  <2>2. ~Before(K[i], K[c]) /\ ~Before(K[c], K[Parent(c)])
    BY <1>3, <2>1 DEF Ordered
  <2> QED  BY <2>1, <2>2, NotBeforeTransitive
<1>4. ASSUME c > 0, KeyLess(L[c], L[Parent(c)]), NEW i \in 1 .. n - 1, Parent(i) = c
      PROVE  ~Before(L[i], L[c])
  <2>1. ~Before(L[i], L[Parent(c)])
    BY <1>3, <1>4
  <2>2. Parent(c) \in 0 .. n - 1 /\ ~Before(L[Parent(c)], L[c])
    BY <1>1, <1>4, KeyLessFacts
  <2> QED  BY <2>1, <2>2, NotBeforeTransitive
<1>5. ASSUME c > 0, ~KeyLess(L[c], L[Parent(c)])  PROVE ~Before(L[c], L[Parent(c)])
  BY <1>1, <1>5, KeyLessFacts
<1> QED  BY <1>2, <1>3, <1>4, <1>5 DEF OrderedButUp, OrderedButDown

\* wuy_heap_delete_index(): the last slot is gone and its key is in slot c.
LEMMA DeleteBegins ==
  ASSUME NEW n \in Nat, NEW K \in [0 .. n -> Int], NEW L \in [0 .. n - 1 -> Int],
         NEW c \in 0 .. n, Ordered(K, n + 1),
         \A m \in 0 .. n - 1 : m # c => L[m] = K[m],
         c # n => L[c] = K[n],
         c = 0 \/ c = n \/ ~Before(K[n], K[Parent(c)])
  PROVE  OrderedButDown(L, n, c)
<1>1. \A i \in 1 .. n : Parent(i) \in 0 .. n - 1 /\ Parent(i) < i
  BY ParentAll
<1>2. \A i \in 1 .. n : ~Before(K[i], K[Parent(i)])
  BY DEF Ordered
<1>3. ASSUME NEW i \in 1 .. n - 1, Parent(i) # c  PROVE ~Before(L[i], L[Parent(i)])
  <2>1. Parent(i) \in 0 .. n - 1 /\ L[Parent(i)] = K[Parent(i)]
    BY <1>1, <1>3
  <2>2. CASE i = c
    <3>1. c # 0 /\ c # n
      BY <2>2
    <3>2. L[i] = K[n] /\ ~Before(K[n], K[Parent(i)])
      BY <2>2, <3>1
    <3> QED  BY <2>1, <3>2
  <2>3. CASE i # c
    BY <1>2, <2>1, <2>3
  <2> QED  BY <2>2, <2>3
<1>4. ASSUME c > 0, NEW i \in 1 .. n - 1, Parent(i) = c
      PROVE  ~Before(L[i], L[Parent(c)])
  <2>1. /\ c \in 1 .. n /\ i # c /\ Parent(c) # c /\ Parent(c) \in 0 .. n - 1
        /\ i \in 1 .. n
    BY <1>1, <1>4
  <2>2. ~Before(K[i], K[c]) /\ ~Before(K[c], K[Parent(c)])
    BY <1>2, <1>4, <2>1
  <2>3. ~Before(K[i], K[Parent(c)])
    BY <2>1, <2>2, NotBeforeTransitive
  <2> QED  BY <2>1, <2>3
<1> QED  BY <1>3, <1>4 DEF OrderedButDown

-----------------------------------------------------------------------------
(* The root of an ordered heap is a minimum: an item before it, and of     *)
(* those the one in the first slot, would be before its parent too.        *)

LEMMA LeastElement ==
  ASSUME NEW T \in SUBSET Nat, T # {}
  PROVE  \E x \in T : \A y \in T : x <= y
<1>1. IsWellFoundedOn(OpToRel(<, Nat), Nat)
  BY NatLessThanWellFounded
<1>2. PICK x \in T : \A y \in T : <<y, x>> \notin OpToRel(<, Nat)
  BY <1>1, WFMin
<1>3. \A y \in T : ~(y < x)
  BY <1>2 DEF OpToRel
<1> QED  BY <1>3

LEMMA RootIsMin ==
  ASSUME NEW n \in Nat, NEW K \in [0 .. n - 1 -> Int], Ordered(K, n)
  PROVE  \A i \in 0 .. n - 1 : ~Before(K[i], K[0])
<1> DEFINE T == {i \in 0 .. n - 1 : Before(K[i], K[0])}
<1>1. SUFFICES ASSUME T # {}  PROVE FALSE
  OBVIOUS
<1>2. PICK x \in T : \A y \in T : x <= y
  <2>1. T \in SUBSET Nat
    OBVIOUS
  <2> QED  BY <1>1, <2>1, LeastElement
<1>3. x # 0
  BY <1>2 DEF Before
<1>4. Parent(x) \in 0 .. n - 1 /\ Parent(x) < x /\ ~Before(K[x], K[Parent(x)])
  BY <1>2, <1>3, ParentAll DEF Ordered
<1>5. ~Before(K[Parent(x)], K[0])
  BY <1>2, <1>4
<1>6. K[x] \in Int /\ K[Parent(x)] \in Int /\ K[0] \in Int /\ Before(K[x], K[0])
  BY <1>2, <1>4
<1> QED  BY <1>4, <1>5, <1>6, NotBeforeTransitive

-----------------------------------------------------------------------------
(* The steps of Heap.                                                      *)

LEMMA KeysTyped ==
  ASSUME StructInv, NEW n \in 0 .. Top
  PROVE  KeysUpTo(n) \in [0 .. n - 1 -> Int]
<1>1. ASSUME NEW i \in 0 .. n - 1  PROVE KeyAt(i) \in Int
  <2>1. i \in 0 .. Top - 1
    BY DEF StructInv, TypeOK, Top
  <2>2. array[i] \in Items
    BY <2>1 DEF StructInv, BackPointers
  <2> QED  BY <2>2, HeapAssumption DEF StructInv, TypeOK, KeyAt
<1> QED  BY <1>1 DEF KeysUpTo

LEMMA ExtentFacts ==
  ASSUME StructInv
  PROVE  /\ Extent \in 0 .. Top /\ Extent \in Nat /\ count \in Nat
         /\ call \in {"push", "fix", "rebuild"} => cur \in 0 .. Extent - 1
         /\ call \in {"fix", "delete"} => Extent = count
BY DEF StructInv, TypeOK, LoopOK, Extent, Top

LEMMA SwapKeys ==
  ASSUME StructInv, NEW n \in 0 .. Top, NEW i \in 0 .. n - 1, NEW j \in 0 .. n - 1,
         Swap(i, j), key' = key
  PROVE  [m \in 0 .. n - 1 |-> key'[array'[m]]] = Exchanged(KeysUpTo(n), i, j)
<1>1. 0 .. n - 1 \subseteq Slot /\ DOMAIN KeysUpTo(n) = 0 .. n - 1
  BY HeapAssumption DEF StructInv, TypeOK, LoopOK, Top, Slot, KeysUpTo
<1>2. \A m \in 0 .. n - 1 :
        array'[m] = IF m = i THEN array[j] ELSE IF m = j THEN array[i] ELSE array[m]
  BY <1>1 DEF Swap, StructInv, TypeOK
<1>3. \A m \in 0 .. n - 1 : key'[array'[m]] = Exchanged(KeysUpTo(n), i, j)[m]
  BY <1>1, <1>2 DEF KeyAt, KeysUpTo, Exchanged
<1> QED  BY <1>1, <1>3 DEF Exchanged

LEMMA UpOrder ==
  ASSUME StructInv, InOrderSoFar, UpStep
  PROVE  InOrderSoFar'
<1> DEFINE n == Extent  K == KeysUpTo(n)  p == Parent(cur)
<1>1. n \in Nat /\ n \in 0 .. Top /\ cur \in 1 .. n - 1 /\ K \in [0 .. n - 1 -> Int]
  BY ExtentFacts, KeysTyped DEF UpStep, SiftsUp
<1>2. p \in 0 .. cur - 1
  BY <1>1, ParentAll
<1>3. OrderedButUp(K, n, cur) /\ KeyLess(K[cur], K[p])
  BY <1>1, <1>2 DEF InOrderSoFar, UpStep, Idle, SiftsUp, Less, KeysUpTo, KeyAt
<1>4. OrderedButUp(Exchanged(K, cur, p), n, p)
  BY <1>1, <1>3, UpKeeps
<1>5. Extent' = n /\ cur' = p /\ call' = call /\ loop' = "up" /\ ~Idle'
  BY DEF UpStep, Extent, Top, Idle
<1>6. KeysUpTo(Extent)' = Exchanged(K, cur, p)
  BY <1>1, <1>2, <1>5, SwapKeys DEF UpStep, KeysUpTo, KeyAt
<1> QED  BY <1>4, <1>5, <1>6 DEF InOrderSoFar

LEMMA UpDoneOrder ==
  ASSUME StructInv, InOrderSoFar, UpDone
  PROVE  InOrderSoFar'
<1> DEFINE n == Extent  K == KeysUpTo(n)
<1>1. n \in Nat /\ n \in 0 .. Top /\ cur \in 0 .. n - 1 /\ K \in [0 .. n - 1 -> Int]
  BY ExtentFacts, KeysTyped DEF UpDone
<1>2. Ordered(K, n)
  <2>1. OrderedButUp(K, n, cur)
    BY DEF InOrderSoFar, UpDone, Idle
  <2>2. cur = 0 \/ ~KeyLess(K[cur], K[Parent(cur)])
    <3>1. cur # 0 => Parent(cur) \in 0 .. n - 1
      BY <1>1, ParentAll
    <3> QED  BY <1>1, <3>1 DEF UpDone, SiftsUp, Less, KeysUpTo, KeyAt
  <2> QED  BY <1>1, <2>1, <2>2, UpEnds
<1>3. array' = array
  BY DEF UpDone
<1>4. CASE Return /\ key' = key /\ Extent' = n
  <2>1. KeysUpTo(Extent)' = K /\ Idle'
    BY <1>3, <1>4 DEF KeysUpTo, KeyAt, Return, Idle
  <2> QED  BY <1>2, <1>4, <2>1 DEF InOrderSoFar
<1>5. CASE call = "rebuild" /\ \E k \in Keys : RebuildNext(k)
  <2>1. PICK k \in Keys : RebuildNext(k)
    BY <1>5
  <2>2. /\ n = bound + 1 /\ Extent' = n + 1 /\ ~Idle' /\ loop' = "up" /\ cur' = n
        /\ n < count /\ Top = count
    BY <1>5, <2>1 DEF RebuildNext, Begin, Extent, Idle, Top, StructInv, TypeOK
  <2> DEFINE L == [m \in 0 .. n |-> key'[array[m]]]
  <2>3. \A m \in 0 .. n : array[m] \in Items
    BY <1>1, <2>2 DEF StructInv, BackPointers, TypeOK
  <2>4. L \in [0 .. n -> Int]
    <3>1. key' \in [Items -> Keys]
      BY <2>1 DEF RebuildNext, UpdateKey, StructInv, TypeOK
    <3> QED  BY <2>3, <3>1, HeapAssumption
  <2>5. \A m \in 0 .. n - 1 : L[m] = K[m]
    <3>1. ASSUME NEW m \in 0 .. n - 1  PROVE array[m] # array[n]
      <4>1. m \in 0 .. Top - 1 /\ n \in 0 .. Top - 1 /\ m # n
        BY <1>1, <2>2 DEF StructInv, TypeOK
      <4> QED  BY <4>1, Distinct DEF StructInv
    <3>2. key' = [key EXCEPT ![array[n]] = k]
      BY <2>1, <2>2 DEF RebuildNext, UpdateKey
    <3> QED  BY <1>1, <2>3, <3>1, <3>2 DEF StructInv, TypeOK, KeysUpTo, KeyAt
  <2>6. OrderedButUp(L, n + 1, n)
    BY <1>1, <1>2, <2>4, <2>5, PushBegins
  <2>7. KeysUpTo(Extent)' = L
    <3>1. 0 .. Extent' - 1 = 0 .. n
      BY <1>1, <2>2
    <3> QED  BY <1>3, <3>1 DEF KeysUpTo, KeyAt
  <2> QED  BY <2>2, <2>6, <2>7 DEF InOrderSoFar
<1>6. ASSUME ~(call = "rebuild" /\ \E k \in Keys : RebuildNext(k))
      PROVE  Return /\ key' = key /\ Extent' = n
  BY <1>1, <1>6 DEF UpDone, Return, Extent, Top, StructInv, LoopOK, TypeOK
<1> QED  BY <1>4, <1>5, <1>6

\* The child chosen is not after slot cur, nor after the other child.
LEMMA SwapWithFacts ==
  ASSUME StructInv, loop = "down", call \in {"fix", "delete"},
         NEW K, K = KeysUpTo(count)
  PROVE  /\ SwapWith # cur =>
              /\ cur \in 0 .. count - 1 /\ SwapWith \in 1 .. count - 1
              /\ Parent(SwapWith) = cur
              /\ ~Before(K[cur], K[SwapWith])
              /\ \A i \in 1 .. count - 1 :
                   Parent(i) = cur => ~Before(K[i], K[SwapWith])
         /\ SwapWith = cur =>
              \A i \in 1 .. count - 1 : Parent(i) = cur => ~Before(K[i], K[cur])
<1> DEFINE left == cur * 2 + 1  right == left + 1
<1>1. count \in Nat /\ cur \in Nat /\ K \in [0 .. count - 1 -> Int]
  <2>1. count \in 0 .. Top
    BY ExtentFacts DEF StructInv, TypeOK, Top
  <2> QED  BY <2>1, KeysTyped DEF StructInv, TypeOK
<1>2. \A i, j \in 0 .. count - 1 : Less(i, j) = KeyLess(K[i], K[j])
  BY DEF Less, KeysUpTo, KeyAt
<1>3. /\ \A i \in 1 .. count - 1 : Parent(i) = cur <=> i \in {left, right}
      /\ left \in Nat \ {0} /\ right \in Nat \ {0} /\ Parent(left) = cur
      /\ Parent(right) = cur
  <2>1. Parent(left) = cur /\ Parent(right) = cur
    BY <1>1 DEF Parent
  <2>2. left \in Nat \ {0} /\ right \in Nat \ {0}
    BY <1>1
  <2>3. ASSUME NEW i \in 1 .. count - 1, Parent(i) = cur  PROVE i \in {left, right}
    <3>1. i = 2 * cur + 1 \/ i = 2 * cur + 2
      BY <2>3, ParentAll
    <3> QED  BY <1>1, <3>1
  <2> QED  BY <2>1, <2>2, <2>3
<1>4. \A a, b, c \in Int : ~Before(a, b) /\ ~Before(b, c) => ~Before(a, c)
  BY NotBeforeTransitive
<1>5. \A a, b \in Int : /\ KeyLess(a, b) => ~Before(b, a)
                        /\ ~KeyLess(a, b) => ~Before(a, b)
                        /\ ~Before(a, a)
  BY KeyLessFacts DEF Before
<1>6. CASE left >= count
  BY <1>1, <1>3, <1>6 DEF SwapWith
<1>7. CASE left < count
  <2>1. cur \in 0 .. count - 1 /\ left \in 0 .. count - 1
        /\ K[cur] \in Int /\ K[left] \in Int
    BY <1>1, <1>7
  <2>2. CASE right >= count
    <3>1. SwapWith = IF KeyLess(K[left], K[cur]) THEN left ELSE cur
      BY <1>1, <1>2, <1>7, <2>1, <2>2 DEF SwapWith
    <3> QED  BY <1>1, <1>3, <1>5, <2>1, <2>2, <3>1
  <2>3. CASE right < count
    <3>1. right \in 0 .. count - 1 /\ K[right] \in Int
      BY <1>1, <2>3
    <3>2. CASE KeyLess(K[left], K[cur])
      <4>1. SwapWith = IF KeyLess(K[right], K[left]) THEN right ELSE left
        BY <1>1, <1>2, <1>7, <2>1, <2>3, <3>1, <3>2 DEF SwapWith
      <4> QED  BY <1>1, <1>3, <1>4, <1>5, <2>1, <3>1, <3>2, <4>1, SMTT(30)
    <3>3. CASE ~KeyLess(K[left], K[cur])
      <4>1. SwapWith = IF KeyLess(K[right], K[cur]) THEN right ELSE cur
        BY <1>1, <1>2, <1>7, <2>1, <2>3, <3>1, <3>3 DEF SwapWith
      <4>2. ~Before(K[left], K[cur])
        BY <1>5, <2>1, <3>3
      <4>3. CASE KeyLess(K[right], K[cur])
        <5>1. ~Before(K[cur], K[right]) /\ ~Before(K[right], K[right])
          BY <1>5, <2>1, <3>1, <4>3
        <5>2. ~Before(K[left], K[right])
          BY <1>4, <2>1, <3>1, <4>2, <5>1
        <5>3. SwapWith = right /\ right \in 1 .. count - 1 /\ right # cur
          BY <1>1, <2>3, <4>1, <4>3
        <5>4. \A i \in 1 .. count - 1 : Parent(i) = cur => ~Before(K[i], K[right])
          BY <1>3, <5>1, <5>2
        <5> QED  BY <1>3, <2>1, <5>1, <5>3, <5>4
      <4>4. CASE ~KeyLess(K[right], K[cur])
        <5>1. ~Before(K[right], K[cur])
          BY <1>5, <2>1, <3>1, <4>4
        <5> QED  BY <1>3, <4>1, <4>2, <4>4, <5>1
      <4> QED  BY <4>3, <4>4
    <3> QED  BY <3>2, <3>3
  <2> QED  BY <1>1, <2>2, <2>3
<1> QED  BY <1>1, <1>6, <1>7

LEMMA DownOrder ==
  ASSUME StructInv, InOrderSoFar, DownStep
  PROVE  InOrderSoFar'
<1> DEFINE n == count  K == KeysUpTo(n)  s == SwapWith
<1>1. n \in Nat /\ n \in 0 .. Top /\ Extent = n /\ K \in [0 .. n - 1 -> Int]
  BY ExtentFacts, KeysTyped DEF DownStep
<1>2. /\ cur \in 0 .. n - 1 /\ s \in 1 .. n - 1 /\ Parent(s) = cur
      /\ ~Before(K[cur], K[s])
      /\ \A i \in 1 .. n - 1 : Parent(i) = cur => ~Before(K[i], K[s])
  BY SwapWithFacts DEF DownStep
<1>3. OrderedButDown(K, n, cur)
  BY <1>1 DEF InOrderSoFar, DownStep, Idle
<1>4. OrderedButDown(Exchanged(K, cur, s), n, s)
  BY <1>1, <1>2, <1>3, DownKeeps
<1>5. Extent' = n /\ cur' = s /\ loop' = "down" /\ ~Idle'
  BY <1>1 DEF DownStep, Extent, Top, Idle
<1>6. KeysUpTo(Extent)' = Exchanged(K, cur, s)
  BY <1>1, <1>2, <1>5, SwapKeys DEF DownStep, KeysUpTo, KeyAt
<1> QED  BY <1>4, <1>5, <1>6 DEF InOrderSoFar

LEMMA DownDoneOrder ==
  ASSUME StructInv, InOrderSoFar, DownDone
  PROVE  InOrderSoFar'
<1> DEFINE n == count  K == KeysUpTo(n)
<1>1. n \in Nat /\ n \in 0 .. Top /\ Extent = n /\ K \in [0 .. n - 1 -> Int]
      /\ cur \in Nat
  BY ExtentFacts, KeysTyped DEF DownDone, StructInv, TypeOK
<1>2. OrderedButDown(K, n, cur)
  BY <1>1 DEF InOrderSoFar, DownDone, Idle
<1>3. Ordered(K, n)
  BY <1>1, <1>2, SwapWithFacts, DownEnds DEF DownDone
<1>4. KeysUpTo(Extent)' = K /\ Extent' = n /\ Idle'
  BY <1>1 DEF DownDone, Return, Extent, Top, Idle, KeysUpTo, KeyAt
<1> QED  BY <1>3, <1>4 DEF InOrderSoFar

LEMMA PushOrder ==
  ASSUME StructInv, InOrderSoFar, NEW x \in Items, NEW k \in Keys, Idle,
         ~IsLinked(x), PushNode(x, k), StructInv'
  PROVE  InOrderSoFar'
<1> DEFINE n == count  K == KeysUpTo(n)
<1>1. n \in Nat /\ n \in 0 .. Top /\ Extent = n /\ Top = n /\ K \in [0 .. n - 1 -> Int]
  <2>1. Extent = n /\ Top = n
    BY DEF Extent, Top, Idle
  <2> QED  BY <2>1, ExtentFacts, KeysTyped
<1>2. Ordered(K, n)
  BY <1>1 DEF InOrderSoFar
<1>3. ASSUME NEW m \in 0 .. n - 1  PROVE array[m] \in Items \ {x}
  <2>1. array[m] \in Items /\ index[array[m]] = m
    BY <1>1 DEF StructInv, BackPointers
  <2> QED  BY <1>1, <2>1 DEF IsLinked
<1>4. \A m \in 0 .. n - 1 : key'[array[m]] = K[m]
  BY <1>3 DEF PushNode, KeysUpTo, KeyAt, StructInv, TypeOK
<1>5. CASE StoreLast(x)
  <2>1. Extent' = n + 1 /\ Top' = n + 1 /\ loop' = "up" /\ cur' = n /\ ~Idle'
    BY <1>5 DEF StoreLast, PushNode, Begin, Extent, Top, Idle
  <2> DEFINE L == [m \in 0 .. n |-> key'[array'[m]]]
  <2>2. L \in [0 .. n -> Int]
    <3>1. \A m \in 0 .. n : array'[m] \in Items
      BY <1>1, <2>1 DEF StructInv, BackPointers
    <3>2. key' \in [Items -> Keys] /\ 0 .. (n + 1) - 1 = 0 .. n
      BY <1>1 DEF StructInv, TypeOK
    <3> QED  BY <3>1, <3>2, HeapAssumption
  <2>3. \A m \in 0 .. n - 1 : L[m] = K[m]
    <3>1. \A m \in 0 .. n - 1 : array'[m] = array[m]
      BY <1>1, <1>5 DEF StoreLast, StructInv, TypeOK
    <3> QED  BY <1>1, <1>4, <3>1
  <2>4. OrderedButUp(L, n + 1, n)
    BY <1>1, <1>2, <2>2, <2>3, PushBegins
  <2>5. KeysUpTo(Extent)' = L
    <3>1. 0 .. Extent' - 1 = 0 .. n
      BY <1>1, <2>1
    <3> QED  BY <3>1 DEF KeysUpTo, KeyAt
  <2> QED  BY <2>1, <2>4, <2>5 DEF InOrderSoFar
<1>6. CASE array' = array /\ (Overrun \/ UNCHANGED <<call, loop, cur>>)
  <2>1. Extent' = n /\ count' = n /\ KeysUpTo(n)' = K
    BY <1>4, <1>6 DEF PushNode, Overrun, Begin, Extent, Top, Idle, KeysUpTo, KeyAt
  <2>2. Idle' \/ (~Idle' /\ loop' = "up" /\ cur' = 0)
    BY <1>6 DEF Overrun, Begin, Idle
  <2>3. OrderedButUp(K, n, 0)
    BY <1>1, <1>2 DEF Ordered, OrderedButUp
  <2> QED  BY <1>2, <2>1, <2>2, <2>3 DEF InOrderSoFar
<1> QED  BY <1>5, <1>6 DEF PushNode, Overrun

LEMMA FixOrder ==
  ASSUME StructInv, InOrderSoFar, NEW x \in Items, NEW k \in Keys, Idle,
         IsLinked(x), FixNode(x, k), StructInv'
  PROVE  InOrderSoFar'
<1> DEFINE n == count  K == KeysUpTo(n)  c == index[x]  L == KeysUpTo(n)'
<1>1. n \in Nat /\ n \in 0 .. Top /\ Extent = n /\ Top = n /\ K \in [0 .. n - 1 -> Int]
  <2>1. Extent = n /\ Top = n
    BY DEF Extent, Top, Idle
  <2> QED  BY <2>1, ExtentFacts, KeysTyped
<1>2. Ordered(K, n)
  BY <1>1 DEF InOrderSoFar
<1>3. c \in 0 .. n - 1 /\ array[c] = x
  BY DEF IsLinked, StructInv, TypeOK
<1>4. /\ Extent' = n /\ Top' = n /\ ~Idle' /\ cur' = c /\ array' = array /\ count' = n
      /\ key' = [key EXCEPT ![x] = k]
  BY DEF FixNode, Begin, Extent, Top, Idle
<1>5. ASSUME NEW m \in 0 .. n - 1  PROVE array[m] \in Items /\ (m # c => array[m] # x)
  BY <1>1, <1>3 DEF StructInv, BackPointers
<1>6. L \in [0 .. n - 1 -> Int]
  <2>1. key' \in [Items -> Keys]
    BY DEF StructInv, TypeOK
  <2> QED  BY <1>4, <1>5, <2>1, HeapAssumption DEF KeysUpTo, KeyAt
<1>7. \A m \in 0 .. n - 1 : m # c => L[m] = K[m]
  BY <1>4, <1>5 DEF KeysUpTo, KeyAt, StructInv, TypeOK
<1>8. loop' = IF c > 0 /\ KeyLess(L[c], L[Parent(c)]) THEN "up" ELSE "down"
  <2>1. L[c] = k
    BY <1>3, <1>4 DEF KeysUpTo, KeyAt, StructInv, TypeOK
  <2>2. CASE c > 0
    <3>1. Parent(c) \in 0 .. n - 1 /\ Parent(c) # c
      BY <1>1, <1>3, <2>2, ParentAll
    <3>2. L[Parent(c)] = key[array[Parent(c)]]
      BY <1>7, <3>1 DEF KeysUpTo, KeyAt
    <3> QED  BY <2>1, <2>2, <3>2 DEF FixNode, Begin
  <2>3. CASE ~(c > 0)
    BY <2>3 DEF FixNode, Begin
  <2> QED  BY <2>2, <2>3
<1>9. /\ c > 0 /\ KeyLess(L[c], L[Parent(c)]) => OrderedButUp(L, n, c)
      /\ ~(c > 0 /\ KeyLess(L[c], L[Parent(c)])) => OrderedButDown(L, n, c)
  BY <1>1, <1>2, <1>3, <1>6, <1>7, FixBegins
<1> QED  BY <1>4, <1>8, <1>9 DEF InOrderSoFar

\* One item is in order: rebuild may start from any order.
LEMMA RebuildOrder ==
  ASSUME StructInv, NEW k \in Keys, Rebuild(k)
  PROVE  InOrderSoFar'
<1>1. Extent' = 1 /\ ~Idle' /\ loop' = "up"
  BY DEF Rebuild, Begin, Extent, Idle, StructInv, LoopOK
<1> QED  BY <1>1 DEF InOrderSoFar, OrderedButUp, Rebuild, Begin

LEMMA DeleteOrder ==
  ASSUME StructInv, InOrderSoFar, Idle, NEW i \in 0 .. count - 1, DeleteIndex(i),
         i = 0 \/ i = count - 1 \/ ~Before(KeyAt(count - 1), KeyAt(Parent(i))),
         StructInv'
  PROVE  InOrderSoFar'
<1> DEFINE n == count - 1
           K == KeysUpTo(count)
           L == [m \in 0 .. n - 1 |-> key'[array'[m]]]
<1>1. /\ n \in Nat /\ count \in Nat /\ Extent = count /\ Top = count
      /\ K \in [0 .. n -> Int] /\ count' = n /\ i \in 0 .. n
  <2>1. Extent = count /\ Top = count
    BY DEF Extent, Top, Idle
  <2>2. count \in Nat /\ K \in [0 .. count - 1 -> Int]
    BY <2>1, ExtentFacts, KeysTyped
  <2> QED  BY <2>1, <2>2 DEF DeleteIndex
<1>2. Ordered(K, n + 1)
  BY <1>1 DEF InOrderSoFar
<1>3. i = 0 \/ i = n \/ ~Before(K[n], K[Parent(i)])
  <2>1. i # 0 => Parent(i) \in 0 .. count - 1
    BY <1>1, ParentAll
  <2> QED  BY <1>1, <2>1 DEF KeysUpTo
<1>4. CASE Swap(i, n) /\ Begin("delete", "down", i)
  <2>1. Extent' = n /\ Top' = n /\ ~Idle' /\ loop' = "down" /\ cur' = i
    BY <1>1, <1>4 DEF Begin, Extent, Top, Idle
  <2>2. key' = key /\ n \in 0 .. count - 1 /\ count \in 0 .. Top
    BY <1>1 DEF DeleteIndex
  <2>3. [m \in 0 .. count - 1 |-> key'[array'[m]]] = Exchanged(K, i, n)
    BY <1>4, <2>2, SwapKeys
  <2>4. \A m \in 0 .. n - 1 : L[m] = Exchanged(K, i, n)[m]
    BY <1>1, <2>3
  <2>5. \A m \in 0 .. n - 1 : L[m] = IF m = i THEN K[n] ELSE K[m]
    <3>1. DOMAIN K = 0 .. n
      BY <1>1
    <3>2. \A m \in 0 .. n - 1 : m \in DOMAIN K /\ m # n
      BY <1>1, <3>1
    <3> HIDE DEF K, n, L
    <3> QED  BY <2>4, <3>2 DEF Exchanged
  <2>6. L \in [0 .. n - 1 -> Int]
    BY <1>1, <2>5
  <2>7. OrderedButDown(L, n, i)
    <3>1. \A m \in 0 .. n - 1 : m # i => L[m] = K[m]
      BY <2>5
    <3>2. i # n => L[i] = K[n]
      <4>1. i # n => i \in 0 .. n - 1
        BY <1>1
      <4> HIDE DEF n, K, L
      <4> QED  BY <4>1, <2>5
    <3> HIDE DEF n, K, L
    <3> QED  BY <1>1, <1>2, <1>3, <2>6, <3>1, <3>2, DeleteBegins
  <2>8. KeysUpTo(Extent)' = L
    BY <2>1 DEF KeysUpTo, KeyAt
  <2> QED  BY <2>1, <2>7, <2>8 DEF InOrderSoFar
<1>5. CASE n = 0 /\ UNCHANGED <<array, index, call, loop, cur>>
  <2>1. Extent' = 0 /\ Idle'
    BY <1>1, <1>5 DEF Extent, Top, Idle
  <2> QED  BY <2>1 DEF InOrderSoFar, Ordered
<1> QED  BY <1>1, <1>4, <1>5 DEF DeleteIndex

-----------------------------------------------------------------------------
(* The theorems.                                                           *)

LEMMA IterateOrder ==
  ASSUME StructInv, InOrderSoFar, Iterate
  PROVE  InOrderSoFar'
BY UpOrder, UpDoneOrder, DownOrder, DownDoneOrder DEF Iterate

\* A call that is not wuy_heap_rebuild() finds the heap in order when `orderly'
\* says so, and `orderly' is TRUE after it only when it was TRUE before it.
LEMMA CallOrder ==
  ASSUME StructInv, AlmostOrdered, StructInv', orderly',
         NEW x \in Items, NEW k \in Keys,
         Push(x, k) \/ Fix(x, k) \/ PushOrFix(x, k) \/ Delete(x) \/ Pop
  PROVE  InOrderSoFar'
<1>1. Idle /\ InOrderSoFar
  <2>1. Idle /\ orderly
    BY DEF Push, Fix, PushOrFix, PushNode, FixNode, Delete, Pop
  <2> QED  BY <2>1 DEF AlmostOrdered
<1>2. CASE Push(x, k) \/ Fix(x, k) \/ PushOrFix(x, k)
  BY <1>1, <1>2, PushOrder, FixOrder DEF Push, Fix, PushOrFix
<1>3. CASE Pop
  <2>1. 0 \in 0 .. count - 1
    BY <1>3 DEF Pop, StructInv, TypeOK
  <2> QED  BY <1>1, <1>3, <2>1, DeleteOrder DEF Pop
<1>4. CASE Delete(x)
  <2>1. index[x] \in 0 .. count - 1
    BY <1>4 DEF Delete, IsLinked, StructInv, TypeOK
  <2>2. SinksFrom(index[x])
    BY <1>4 DEF Delete
  <2> QED  BY <1>1, <1>4, <2>1, <2>2, DeleteOrder DEF Delete, SinksFrom
<1> QED  BY <1>2, <1>3, <1>4

LEMMA NextOrder ==
  ASSUME StructInv, AlmostOrdered, [Next]_vars
  PROVE  AlmostOrdered'
<1>1. StructInv'
  BY NextStruct
<1>2. ASSUME NEW x \in Items, NEW k \in Keys,
             Push(x, k) \/ Fix(x, k) \/ PushOrFix(x, k) \/ Delete(x) \/ Pop
      PROVE  AlmostOrdered'
  <2>1. call' # "rebuild"
    BY <1>2 DEF Push, Fix, PushOrFix, PushNode, FixNode, StoreLast, Overrun, Begin,
                Idle, Delete, Pop, DeleteIndex
  <2> QED  BY <1>1, <1>2, <2>1, CallOrder DEF AlmostOrdered
<1>3. ASSUME NEW k \in Keys, Rebuild(k)  PROVE AlmostOrdered'
  BY <1>3, RebuildOrder DEF AlmostOrdered
<1>4. CASE Iterate
  <2>1. orderly' \/ call' = "rebuild" => orderly \/ call = "rebuild"
    BY <1>4 DEF Iterate, UpStep, UpDone, DownStep, DownDone, Return
  <2>2. orderly \/ call = "rebuild" => InOrderSoFar'
    BY <1>4, IterateOrder DEF AlmostOrdered
  <2> QED  BY <2>1, <2>2 DEF AlmostOrdered
<1>5. CASE UNCHANGED vars
  BY <1>5 DEF vars, AlmostOrdered, InOrderSoFar, Extent, Top, Idle, KeysUpTo, KeyAt
<1>6. ASSUME NEW x \in Items, Keys = {}, Delete(x)  PROVE FALSE
  BY <1>6 DEF StructInv, TypeOK
<1>7. ASSUME Pop  PROVE \E x \in Items, k \in Keys : TRUE
  <2>1. array[0] \in Items
    BY <1>7 DEF Pop, StructInv, BackPointers, TypeOK, Top, Idle
  <2>2. key[array[0]] \in Keys
    BY <2>1 DEF StructInv, TypeOK
  <2> QED  BY <2>1, <2>2
<1> QED  BY <1>2, <1>3, <1>4, <1>5, <1>6, <1>7 DEF Next

LEMMA InitOrder == Init => AlmostOrdered
BY DEF Init, AlmostOrdered, InOrderSoFar, Idle, Extent, Top, Ordered

LEMMA AlmostOrderedIdle ==
  ASSUME StructInv, AlmostOrdered, Idle, orderly
  PROVE  Ordered(KeysUpTo(count), count)
BY DEF AlmostOrdered, InOrderSoFar, Idle, Extent, Top

\* The parts of the array the loops have been through are in order, half-way
\* through every call.
THEOREM AlmostOrderedTheorem == Spec => []AlmostOrdered
<1>1. Init => StructInv /\ AlmostOrdered
  BY InitStruct, InitOrder
<1>2. StructInv /\ AlmostOrdered /\ [Next]_vars => StructInv' /\ AlmostOrdered'
  BY NextStruct, NextOrder
<1> QED  BY <1>1, <1>2, PTL DEF Spec

\* Between calls the heap is in order: from the start, and after every
\* wuy_heap_rebuild(), until a deletion puts an item below a parent it belongs
\* above.
THEOREM OrderTheorem == Spec => []HeapOrder
<1>1. Init => StructInv /\ AlmostOrdered
  BY InitStruct, InitOrder
<1>2. StructInv /\ AlmostOrdered /\ [Next]_vars => StructInv' /\ AlmostOrdered'
  BY NextStruct, NextOrder
<1>3. StructInv /\ AlmostOrdered => HeapOrder
  BY AlmostOrderedIdle DEF HeapOrder
<1> QED  BY <1>1, <1>2, <1>3, PTL DEF Spec

\* Meanwhile wuy_heap_min() and wuy_heap_pop() return a minimum.
THEOREM MinTheorem == Spec => []MinAtRoot
<1>1. Init => StructInv /\ AlmostOrdered
  BY InitStruct, InitOrder
<1>2. StructInv /\ AlmostOrdered /\ [Next]_vars => StructInv' /\ AlmostOrdered'
  BY NextStruct, NextOrder
<1>3. StructInv /\ AlmostOrdered => MinAtRoot
  <2>1. SUFFICES ASSUME StructInv, AlmostOrdered, Idle, orderly
                 PROVE  \A i \in 0 .. count - 1 : ~Before(KeyAt(i), KeyAt(0))
    BY DEF MinAtRoot, RootIsFirst
  <2>2. count \in Nat /\ count \in 0 .. Top /\ Ordered(KeysUpTo(count), count)
    BY <2>1, AlmostOrderedIdle DEF StructInv, TypeOK, Top, Idle
  <2>3. \A i \in 0 .. count - 1 : ~Before(KeysUpTo(count)[i], KeysUpTo(count)[0])
    BY <2>1, <2>2, KeysTyped, RootIsMin
  <2> QED  BY <2>2, <2>3 DEF KeysUpTo
<1> QED  BY <1>1, <1>2, <1>3, PTL DEF Spec
=============================================================================
