------------------------------ MODULE Skiplist ------------------------------
(***************************************************************************)
(* wuy_skiplist.c: a skip list whose items hold one pointer, the level 0   *)
(* link; an item drawn higher gets a separate malloc'ed express node for   *)
(* the levels above, whose nexts[0] leads back to the item.                *)
(*                                                                         *)
(* chain[l] is the sequence of the items met by following nexts[l] from    *)
(* the header: the items themselves on level 0, their express nodes above. *)
(* A `previous' pointer is a position in a chain, 0 being the header.      *)
(***************************************************************************)
EXTENDS Integers, Sequences, FiniteSets

CONSTANTS
  Items, Keys,
  KeyOf,       \* the key of every item
  KeyReverse,  \* key_reverse of wuy_skiplist_new_type()
  MaxLevel,    \* max_level
  LevelBound,  \* bound: no level drawn is above this
  NoItem,      \* NULL, as a search result
  StopKeys,    \* the keys iterations stop at
  NoKey,       \* NULL, as such a key
  MaxFailed,   \* bound on the inserts whose malloc() fails
  MaxIterated  \* bound: iterations begin with fewer items

ASSUME SkiplistAssumption ==
  /\ Keys \subseteq Int
  /\ KeyOf \in [Items -> Keys]
  /\ KeyReverse \in BOOLEAN
  /\ MaxLevel \in Nat \ {0}
  /\ LevelBound \in Nat /\ LevelBound >= MaxLevel
  /\ NoItem \notin Items
  /\ StopKeys \subseteq Keys /\ NoKey \notin Keys
  /\ MaxFailed \in Nat /\ MaxIterated \in Nat

VARIABLES
  chain,   \* level -> sequence of items
  level,   \* skiplist->level
  count,   \* skiplist->count
  ret,     \* what the last call returned: <<key, item or NoItem>>, or <<true>>
           \* or <<false>> from insert and delete; <<>> at first
  fault,   \* "none", or the invalid access the program made
  failed,  \* specification only: the inserts that returned false
  iter     \* the wuy_skiplist_iter() under way, see there

vars == <<chain, level, count, ret, fault, failed, iter>>

NoIter == <<>>

Levels == 0 .. MaxLevel - 1

Init ==
  /\ chain = [l \in Levels |-> <<>>]
  /\ level = 0
  /\ count = 0
  /\ ret = <<>>
  /\ fault = "none"
  /\ failed = 0
  /\ iter = NoIter

\* wuy_skiplist_less() on keys: with key_reverse it is not a strict order.
Less(a, b) == IF KeyReverse THEN ~(a < b) ELSE a < b

ItemsIn(l) == {chain[l][p] : p \in 1 .. Len(chain[l])}
Linked == ItemsIn(0)

-----------------------------------------------------------------------------
(* wuy_skiplist_get_previous().                                            *)

\* Mutant: at most one node is passed on each level.
WalkOnce(c, p, k) ==
  IF p < Len(c) /\ Less(KeyOf[c[p + 1]], k) THEN p + 1 ELSE p

\* Where the walk for key k along chain c stops that starts at position p.
Walk(c, p, k) ==
  CHOOSE q \in p .. Len(c) :
    /\ q = Len(c) \/ ~Less(KeyOf[c[q + 1]], k)
    /\ \A r \in p .. q - 1 : Less(KeyOf[c[r + 1]], k)

\* The walk goes on one level down from the same node, the header included.
Below(l, p) ==
  IF p = 0 THEN 0
  ELSE CHOOSE q \in 1 .. Len(chain[l]) : chain[l][q] = chain[l + 1][p]

Previous(k) ==
  LET prev[l \in Levels] ==
        IF l > 0 /\ l >= level THEN 0     \* not set by get_previous()
        ELSE Walk(chain[l],
                  IF l + 1 >= level THEN 0 ELSE Below(l, prev[l + 1]), k)
  IN  prev

-----------------------------------------------------------------------------
(* wuy_skiplist_insert().                                                  *)

\* Mutant: compared with max before the step up.
RandomLevelsOver == 1 .. MaxLevel + 1

\* wuy_skiplist_random_level(): it compares with max only after a step up.
RandomLevels == IF MaxLevel = 1 THEN 1 .. LevelBound ELSE 1 .. MaxLevel

InsertAfter(c, p, i) == SubSeq(c, 1, p) \o <<i>> \o SubSeq(c, p + 1, Len(c))

\* The item is on no list and its key is new (wuy_skiplist.h:42-44).
MayInsert(i) == \A j \in Linked : KeyOf[j] # KeyOf[i]

InsertAtLevels(i, n) ==
  LET prev == Previous(KeyOf[i])
  IN  chain' = [l \in Levels |-> IF l < n THEN InsertAfter(chain[l], prev[l], i)
                                 ELSE chain[l]]

\* Mutants: the loop runs once too often; only an empty list is raised.
RaiseOver(n) == level' = IF level <= n THEN n + 1 ELSE level
RaiseFirst(n) == level' = IF level = 0 THEN n ELSE level

Raise(n) == level' = IF level < n THEN n ELSE level

Insert(i, n) ==
  /\ MayInsert(i)
  /\ 0 <= level /\ n <= MaxLevel
  /\ Raise(n)
  /\ InsertAtLevels(i, n)
  /\ count' = count + 1
  /\ ret' = <<TRUE>>
  /\ UNCHANGED <<fault, failed>>

\* The malloc() comes after level 0 is linked and the level is raised.
InsertNoMemory(i, n) ==
  /\ failed < MaxFailed
  /\ MayInsert(i)
  /\ 0 <= level /\ n \in 2 .. MaxLevel
  /\ Raise(n)
  /\ InsertAtLevels(i, 1)
  /\ ret' = <<FALSE>>
  /\ failed' = failed + 1
  /\ UNCHANGED <<count, fault>>

\* previous[] has MaxLevel slots, from 0.
InsertOutside(i, n) ==
  /\ MayInsert(i)
  /\ level < 0 \/ n > MaxLevel
  /\ fault' = "previous"
  /\ UNCHANGED <<chain, level, count, ret, failed>>

-----------------------------------------------------------------------------
(* wuy_skiplist_delete_node() and its two callers.                         *)

RemoveAfter(c, p) == SubSeq(c, 1, p) \o SubSeq(c, p + 2, Len(c))

\* Mutant: at most one level is given up.
LoweredOnce(c) == IF c[level - 1] = <<>> THEN level - 1 ELSE level

\* The loop ends at nexts[-1], which by the struct's layout is count, not yet
\* decremented, and nexts[-2], level and max_level, which is never NULL.
LoweredLevel(c) ==
  LET used == {l \in 0 .. level - 1 : c[l] # <<>>}
  IN  IF used # {} THEN 1 + (CHOOSE l \in used : \A m \in used : m <= l)
      ELSE IF count = 0 THEN -1 ELSE 0

\* Mutant: the express node stays behind.
DeleteNodeFlat(prev, i) ==
  LET cut == [chain EXCEPT ![0] = RemoveAfter(@, prev[0])]
  IN  /\ chain' = cut
      /\ level' = LoweredLevel(cut)
      /\ count' = count - 1

\* From the level of i's express node, if it has one, down to 0, drop the
\* node that follows previous[].
DeleteNode(prev, i) ==
  LET meets == {l \in 1 .. level - 1 :
                  prev[l] < Len(chain[l]) /\ chain[l][prev[l] + 1] = i}
      top   == IF meets = {} THEN 0
               ELSE CHOOSE l \in meets : \A m \in meets : m <= l
      cut   == [l \in Levels |-> IF l <= top THEN RemoveAfter(chain[l], prev[l])
                                 ELSE chain[l]]
  IN  /\ chain' = cut
      /\ level' = LoweredLevel(cut)
      /\ count' = count - 1

\* The item after previous[0], which search compares with the key.
Candidate(prev) ==
  IF prev[0] < Len(chain[0]) THEN chain[0][prev[0] + 1] ELSE NoItem

\* Mutant: whatever the walk comes to is deleted.
DeleteAny(i) ==
  LET prev == Previous(KeyOf[i])
  IN  /\ ret' = <<level # 0>>
      /\ IF level # 0 THEN DeleteNode(prev, i) ELSE UNCHANGED <<chain, level, count>>
      /\ UNCHANGED <<fault, failed>>

\* Returns false, and changes nothing, when the item is not the one found.
Delete(i) ==
  LET prev  == Previous(KeyOf[i])
      found == level # 0 /\ Candidate(prev) = i
  IN  /\ ret' = <<found>>
      /\ IF found THEN DeleteNode(prev, i) ELSE UNCHANGED <<chain, level, count>>
      /\ UNCHANGED <<fault, failed>>

-----------------------------------------------------------------------------
(* wuy_skiplist_search_key() and its two callers.                          *)

\* Mutant: the item found is not compared with the key.
MissesEmpty(k) == level = 0

Misses(k) ==
  level = 0 \/ LET c == Candidate(Previous(k))
               IN  c # NoItem /\ Less(k, KeyOf[c])
PastEnd(k) == level # 0 /\ Candidate(Previous(k)) = NoItem
Hits(k) == ~Misses(k) /\ ~PastEnd(k)

Search(k) ==
  /\ \/ Misses(k) /\ ret' = <<k, NoItem>>
     \/ Hits(k) /\ ret' = <<k, Candidate(Previous(k))>>
  /\ UNCHANGED <<chain, level, count, fault, failed>>

DelKey(k) ==
  /\ \/ /\ Misses(k)
        /\ ret' = <<k, NoItem>>
        /\ UNCHANGED <<chain, level, count>>
     \/ /\ Hits(k)
        /\ ret' = <<k, Candidate(Previous(k))>>
        /\ DeleteNode(Previous(k), Candidate(Previous(k)))
  /\ UNCHANGED <<fault, failed>>

\* previous[0]->nexts[0] is NULL and is dereferenced.
SearchPastEnd(k) ==
  /\ PastEnd(k)
  /\ fault' = "null"
  /\ UNCHANGED <<chain, level, count, ret, failed>>

-----------------------------------------------------------------------------
(* wuy_skiplist_iter() and _iter_stop().  Their body may make any call, but*)
(* must not delete the item that comes next.                               *)

First == IF chain[0] = <<>> THEN NoItem ELSE chain[0][1]

\* Mutant: the second item after it.
AfterNext(i) ==
  LET p == CHOOSE q \in 1 .. Len(chain[0]) : chain[0][q] = i
  IN  IF p + 2 =< Len(chain[0]) THEN chain[0][p + 2] ELSE NoItem

After(i) ==
  LET p == CHOOSE q \in 1 .. Len(chain[0]) : chain[0][q] = i
  IN  IF p < Len(chain[0]) THEN chain[0][p + 1] ELSE NoItem

\* For the specification only, last: the last item met, and due: those not met yet
\* that have been linked since it began.
IterNew(stop) ==
  /\ iter = NoIter /\ Cardinality(Linked) < MaxIterated
  /\ iter' = [next |-> First, stop |-> stop, last |-> NoItem, due |-> Linked]

Stops ==
  iter.next # NoItem => iter.stop # NoKey /\ ~Less(KeyOf[iter.next], iter.stop)

IterNext ==
  /\ iter # NoIter /\ ~Stops
  /\ iter' = [iter EXCEPT !.next = After(iter.next), !.last = iter.next,
                          !.due = @ \ {iter.next}]

IterEnd ==
  /\ iter # NoIter /\ Stops
  /\ iter' = NoIter

IterBody ==
  IF iter = NoIter THEN iter' = NoIter
  ELSE /\ iter.next \in Linked' \cup {NoItem}
       /\ iter' = [iter EXCEPT !.due = @ \cap Linked']

-----------------------------------------------------------------------------
Next ==
  /\ fault = "none"
  /\ \/ /\ \/ \E i \in Items, n \in RandomLevels :
                Insert(i, n) \/ InsertNoMemory(i, n) \/ InsertOutside(i, n)
           \/ \E i \in Items : Delete(i)
           \/ \E k \in Keys : Search(k) \/ DelKey(k) \/ SearchPastEnd(k)
        /\ IterBody
     \/ /\ (\E stop \in StopKeys \cup {NoKey} : IterNew(stop)) \/ IterNext \/ IterEnd
        /\ UNCHANGED <<chain, level, count, ret, fault, failed>>

Spec == Init /\ [][Next]_vars

-----------------------------------------------------------------------------
(* Properties.                                                             *)

\* The one type invariant: chains of items, as many levels as previous[] has room
\* for, and as count what is linked but for the items of inserts that failed.
TypeOK ==
  /\ chain \in [Levels -> Seq(Items)]
  /\ level \in -1 .. MaxLevel
  /\ count = Cardinality(Linked) - failed
  /\ fault \in {"none", "previous", "null"}

Before(a, b) == IF KeyReverse THEN a > b ELSE a < b

\* Every level is sorted, so the walk that skips ahead on the express levels
\* lands where the walk along level 0 would (wuy_skiplist_get_previous()).
Sorted ==
  \A l \in Levels : \A p \in 1 .. Len(chain[l]) - 1 :
    Before(KeyOf[chain[l][p]], KeyOf[chain[l][p + 1]])

\* An express node is on every level below its top one and leads to an item
\* that is still linked: none is left behind by delete_node().  None is at or above
\* skiplist->level, where get_previous() does not look, and the top level is in
\* use, unless an insert raised the level and then failed.
Nested ==
  /\ \A l \in Levels \ {0} : ItemsIn(l) \subseteq ItemsIn(l - 1)
  /\ \A l \in Levels : l >= level => chain[l] = <<>>
  /\ failed = 0 /\ level > 0 => chain[level - 1] # <<>>

\* While no insert has failed only a search for a key behind the last item
\* goes wrong: no other call dereferences NULL or leaves previous[], whatever
\* calls came before.
FaultsOnlyPastEnd ==
  /\ fault = "previous" => failed > 0
  /\ fault = "null" => \E k \in Keys : \A i \in Linked : Before(KeyOf[i], k)

\* An iteration whose body inserts, deletes and searches meets items in the order
\* of their keys, and when it is over, or at its stop, it has met each one on the
\* way that was linked all the time.
IterInOrder ==
  [][/\ IterNext => iter.last = NoItem \/ Before(KeyOf[iter.last], KeyOf[iter.next])
     /\ IterEnd => \A i \in iter.due : iter.stop # NoKey /\ ~Before(KeyOf[i], iter.stop)]_vars

\* "return true if success, or false if memory allocation fails"
\* (wuy_skiplist.h:95): an insert that fails leaves the list as it was.
FailedInsertChangesNothing ==
  [][ret' = <<FALSE>> => Linked' = Linked]_vars

\* "return true if success, or false if the item is not linked"
\* (wuy_skiplist.h:102): a linked item can be deleted.
DeleteFindsLinked ==
  [][\A i \in Linked : Delete(i) => i \notin Linked']_vars

\* To its caller the skip list is a bag of items found by key.
Map == INSTANCE ItemMap WITH
         stored <- Linked,
         ret <- IF Len(ret) = 2 THEN ret ELSE <<>>
IsMap == Map!MapSpec
=============================================================================
