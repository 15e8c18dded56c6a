------------------------------- MODULE HList --------------------------------
(***************************************************************************)
(* wuy_hlist.h and wuy_nop_hlist.h: doubly linked lists with one pointer   *)
(* for a head.  next[l] of a list is its first node, and pprev of a node   *)
(* is the list or the node whose next points to it.  The first node of a   *)
(* wuy_nop_hlist holds offset 0 there, which leads to the base, not to its *)
(* list: Front is what the first node of a list holds, and delete writes   *)
(* through it.                                                             *)
(***************************************************************************)
EXTENDS NodeLists

CONSTANT
  Front    \* what the first node of each list has in pprev

VARIABLES
  next, pprev,
  safe

cursor == <<iter, node, safe, visited, stayed>>
hlistVars == <<lists, next, pprev, cursor>>

HInit ==
  /\ ListsInit
  /\ next = [a \in Heads \cup Nodes |-> Null]
  /\ pprev = [n \in Nodes |-> Null]
  /\ iter = None /\ node = Null /\ safe = Null
  /\ visited = {} /\ stayed = {}

HInsert(l, n) ==
  /\ PutFirst(l, n)
  /\ next' = [next EXCEPT ![n] = next[l], ![l] = n]
  /\ pprev' = [m \in Nodes |-> IF m = n THEN Front[l]
                               ELSE IF m = next[l] THEN n ELSE pprev[m]]
  /\ UNCHANGED cursor

\* Mutant: the node after keeps pointing back into the deleted one.
HDeleteForgets(n) ==
  /\ n # safe
  /\ TakeOut(n)
  /\ next' = [next EXCEPT ![pprev[n]] = next[n]]
  /\ stayed' = stayed \ {n}
  /\ UNCHANGED <<pprev, iter, node, safe, visited>>

\* n keeps its pointers.  The body of a safe iteration does not delete the
\* node that comes next.
HDelete(n) ==
  /\ n # safe
  /\ TakeOut(n)
  /\ next' = [next EXCEPT ![pprev[n]] = next[n]]
  /\ pprev' = [m \in Nodes |-> IF m = next[n] THEN pprev[n] ELSE pprev[m]]
  /\ stayed' = stayed \ {n}
  /\ UNCHANGED <<iter, node, safe, visited>>

HAfter(n) == IF n = Null THEN Null ELSE next[n]

HIterBegin(l) ==
  /\ iter = None
  /\ iter' = l /\ node' = next[l] /\ safe' = HAfter(next[l])
  /\ visited' = {} /\ stayed' = In(l)
  /\ UNCHANGED <<lists, next, pprev>>

HIterNext ==
  /\ iter # None /\ node # Null
  /\ visited' = visited \cup {node}
  /\ node' = safe /\ safe' = HAfter(safe)
  /\ UNCHANGED <<lists, next, pprev, iter, stayed>>

HIterEnd ==
  /\ iter # None /\ node = Null
  /\ iter' = None /\ safe' = Null /\ visited' = {} /\ stayed' = {}
  /\ UNCHANGED <<lists, next, pprev, node>>

HNext ==
  \/ \E l \in Heads, n \in Nodes : HInsert(l, n)
  \/ \E n \in Nodes : HDelete(n)
  \/ \E l \in Heads : HIterBegin(l)
  \/ HIterNext \/ HIterEnd

-----------------------------------------------------------------------------
\* From every list next leads through its nodes in order and ends in NULL, and
\* each node points back to what points to it: after every call, also one made
\* by the body of an iteration.
HThrough(l) == <<l>> \o lists[l] \o <<Null>>
HChained ==
  \A l \in Heads : \A k \in 1 .. Len(lists[l]) + 1 :
    /\ next[HThrough(l)[k]] = HThrough(l)[k + 1]
    /\ k \in 2 .. Len(lists[l]) =>
         pprev[lists[l][k]] = lists[l][k - 1]
    /\ lists[l] # <<>> => pprev[lists[l][1]] = Front[l]
=============================================================================
