------------------------------- MODULE SList --------------------------------
(***************************************************************************)
(* wuy_slist.h: the singly linked list.  next[l] of a list is its first    *)
(* node, so `pprev' of the iteration, a pointer to a pointer, is the list  *)
(* or the node whose next it points to.  The body of the iteration may     *)
(* delete the node it is at, append, and add and take at the head as long  *)
(* as pprev does not point into what it takes or past what it adds.        *)
(***************************************************************************)
EXTENDS NodeLists

VARIABLES
  next, last,
  pprev   \* of wuy_slist_iter_prev()

cursor == <<iter, node, pprev, visited, stayed>>
slistVars == <<lists, next, last, cursor>>

SInit ==
  /\ ListsInit
  /\ next = [a \in Heads \cup Nodes |-> Null]
  /\ last = [l \in Heads |-> Null]
  /\ iter = None /\ node = Null /\ pprev = None
  /\ visited = {} /\ stayed = {}

SInsert(l, n) ==
  /\ pprev # l
  /\ PutFirst(l, n)
  /\ next' = [next EXCEPT ![n] = next[l], ![l] = n]
  /\ last' = [last EXCEPT ![l] = IF @ = Null THEN n ELSE @]
  /\ UNCHANGED cursor

SAppend(l, n) ==
  /\ PutLast(l, n)
  /\ next' = [next EXCEPT ![IF next[l] = Null THEN l ELSE last[l]] = n, ![n] = Null]
  /\ last' = [last EXCEPT ![l] = n]
  /\ UNCHANGED cursor

\* NULL, and no change, for an empty list.
SPop(l) ==
  \/ next[l] = Null /\ UNCHANGED slistVars
  \/ LET n == next[l] IN
     /\ n # Null /\ pprev # n
     /\ lists' = [lists EXCEPT ![l] = SubSeq(@, 2, Len(@))]
     /\ next' = [next EXCEPT ![l] = next[n], ![n] = Null]
     /\ last' = [last EXCEPT ![l] = IF next[n] = Null THEN Null ELSE @]
     /\ stayed' = stayed \ {n}
     /\ UNCHANGED <<iter, node, pprev, visited>>

\* Mutant: the list keeps a last node that is deleted.
SDeleteKeepsLast ==
  /\ iter # None /\ node # Null /\ next[pprev] = node
  /\ TakeOut(node)
  /\ next' = [next EXCEPT ![pprev] = next[node], ![node] = Null]
  /\ stayed' = stayed \ {node}
  /\ UNCHANGED <<last, iter, node, pprev, visited>>

\* The body deletes the node it is at.
SDelete ==
  /\ iter # None /\ node # Null /\ next[pprev] = node
  /\ TakeOut(node)
  /\ next' = [next EXCEPT ![pprev] = next[node], ![node] = Null]
  /\ last' = [last EXCEPT ![iter] =
                IF @ # node THEN @ ELSE IF pprev = iter THEN Null ELSE pprev]
  /\ stayed' = stayed \ {node}
  /\ UNCHANGED <<iter, node, pprev, visited>>

SIterBegin(l) ==
  /\ iter = None
  /\ iter' = l /\ pprev' = l /\ node' = next[l]
  /\ visited' = {} /\ stayed' = In(l)
  /\ UNCHANGED <<lists, next, last>>

\* Mutant: the iteration goes on from the node also when the body deleted it.
SIterNextFromNode ==
  /\ iter # None /\ node # Null
  /\ visited' = visited \cup {node}
  /\ pprev' = node
  /\ node' = next[pprev']
  /\ UNCHANGED <<lists, next, last, iter, stayed>>

SIterNext ==
  /\ iter # None /\ node # Null
  /\ visited' = visited \cup {node}
  /\ pprev' = IF next[pprev] = node THEN node ELSE pprev
  /\ node' = next[pprev']
  /\ UNCHANGED <<lists, next, last, iter, stayed>>

SIterEnd ==
  /\ iter # None /\ node = Null
  /\ iter' = None /\ pprev' = None /\ visited' = {} /\ stayed' = {}
  /\ UNCHANGED <<lists, next, last, node>>

SNext ==
  \/ \E l \in Heads, n \in Nodes : SInsert(l, n) \/ SAppend(l, n)
  \/ \E l \in Heads : SPop(l) \/ SIterBegin(l)
  \/ SDelete \/ SIterNext \/ SIterEnd

-----------------------------------------------------------------------------
\* From every list next leads through its nodes in order and ends in NULL, and
\* last is the node it ends at, NULL for an empty list: after every call, also
\* one made by the body of an iteration.
SThrough(l) == <<l>> \o lists[l] \o <<Null>>
SChained ==
  \A l \in Heads :
    /\ \A k \in 1 .. Len(lists[l]) + 1 : next[SThrough(l)[k]] = SThrough(l)[k + 1]
    /\ last[l] = IF lists[l] = <<>> THEN Null ELSE lists[l][Len(lists[l])]
=============================================================================
