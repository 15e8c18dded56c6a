----------------------------- MODULE NodeLists ------------------------------
(***************************************************************************)
(* What the callers of the intrusive lists keep in mind: a sequence of     *)
(* nodes per list, no node in two places, what the comment of each call in *)
(* the headers says it does to them, and an iteration whose body may make  *)
(* calls.  The modules of the lists take each call together with what it   *)
(* does to the memory, and state how the two agree.                        *)
(***************************************************************************)
EXTENDS Naturals, Sequences

CONSTANTS
  Heads,  \* the lists
  Nodes,  \* the nodes, each embedded in a struct of the caller
  Null,   \* the null pointer
  None    \* no list

\* A head is no node, and no node is at address NULL.
ASSUME NodeListsAssumption == Heads \cap Nodes = {} /\ Null \notin Nodes

VARIABLES
  lists,
  iter,     \* the list iterated over, or None
  node,     \* the node the iteration is at
  visited,  \* the nodes its body has run for
  stayed    \* the nodes that have been in the list since it began

In(l) == {lists[l][i] : i \in 1 .. Len(lists[l])}
Linked(n) == \E l \in Heads : n \in In(l)

ListsInit == lists = [l \in Heads |-> <<>>]

\* n comes to place k of list l.
PutAt(l, k, n) ==
  /\ ~Linked(n)
  /\ lists' = [lists EXCEPT ![l] = SubSeq(@, 1, k - 1) \o <<n>> \o SubSeq(@, k, Len(@))]

PutFirst(l, n) == PutAt(l, 1, n)
PutLast(l, n) == PutAt(l, Len(lists[l]) + 1, n)

PutAfter(d, n) ==
  \E l \in Heads : \E k \in 1 .. Len(lists[l]) : lists[l][k] = d /\ PutAt(l, k + 1, n)

PutBefore(d, n) ==
  \E l \in Heads : \E k \in 1 .. Len(lists[l]) : lists[l][k] = d /\ PutAt(l, k, n)

TakeOut(n) ==
  \E l \in Heads : \E k \in 1 .. Len(lists[l]) :
    /\ lists[l][k] = n
    /\ lists' = [lists EXCEPT ![l] = SubSeq(@, 1, k - 1) \o SubSeq(@, k + 1, Len(@))]
-----------------------------------------------------------------------------
\* An iteration that allows deletion meets every node that stays in the list
\* exactly once, whatever else its body deletes and adds.
IterMeetsAll ==
  [][iter # None /\ iter' = iter =>
       /\ node' # node => node' \notin visited' \cap stayed
       /\ node' \in Heads \cup {Null} => stayed' \subseteq visited'
    ]_<<lists, iter, node, visited, stayed>>
=============================================================================
