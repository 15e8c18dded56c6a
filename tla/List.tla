-------------------------------- MODULE List --------------------------------
(***************************************************************************)
(* wuy_list.h: the doubly linked list.  A list is the node of its head, so *)
(* heads and nodes are addresses alike; next and prev are the memory at    *)
(* each of them.  The body of a safe iteration may make any call but the   *)
(* deletion of the node that comes next, `safe'.                           *)
(***************************************************************************)
EXTENDS NodeLists

CONSTANT
  Cleared  \* what delete leaves in a node: NULL, or offset 0 in wuy_nop_list.h

VARIABLES
  next, prev,
  reverse,  \* iterated over by wuy_list_iter_reverse_safe()
  safe

pointers == <<next, prev>>
cursor == <<iter, reverse, node, safe, visited, stayed>>
listVars == <<lists, pointers, cursor>>

Addresses == Heads \cup Nodes

\* The caller's nodes are zeroed, or initialised by wuy_list_node_init().
Init ==
  /\ ListsInit
  /\ \E fresh \in [Nodes -> {"zeroed", "initialised"}] :
       next = [a \in Addresses |->
                 IF a \in Nodes /\ fresh[a] = "zeroed" THEN Cleared ELSE a]
  /\ prev = next
  /\ iter = None /\ reverse = FALSE /\ node = None /\ safe = None
  /\ visited = {} /\ stayed = {}

-----------------------------------------------------------------------------
(* _list_add(), and the calls made of it.                                  *)

\* Mutant: the node after is not told.
AddBetweenHalf(n, p, q) ==
  /\ next' = [next EXCEPT ![n] = q, ![p] = n]
  /\ prev' = [prev EXCEPT ![n] = p]

AddBetween(n, p, q) ==
  /\ next' = [next EXCEPT ![n] = q, ![p] = n]
  /\ prev' = [prev EXCEPT ![n] = p, ![q] = n]

Insert(l, n) == PutFirst(l, n) /\ AddBetween(n, l, next[l]) /\ UNCHANGED cursor
AppendTo(l, n) == PutLast(l, n) /\ AddBetween(n, prev[l], l) /\ UNCHANGED cursor
AddAfter(d, n) == PutAfter(d, n) /\ AddBetween(n, d, next[d]) /\ UNCHANGED cursor
AddBefore(d, n) == PutBefore(d, n) /\ AddBetween(n, prev[d], d) /\ UNCHANGED cursor

-----------------------------------------------------------------------------
(* _list_del(), and the calls made of it.                                  *)

\* n is unlinked; nextLeft and prevLeft are in it then.
Unlink(n, nextLeft, prevLeft) ==
  /\ next' = [[next EXCEPT ![prev[n]] = next[n]] EXCEPT ![n] = nextLeft]
  /\ prev' = [[prev EXCEPT ![next[n]] = prev[n]] EXCEPT ![n] = prevLeft]

Deletes(n, nextLeft, prevLeft) ==
  /\ n # safe
  /\ TakeOut(n)
  /\ Unlink(n, nextLeft, prevLeft)
  /\ stayed' = stayed \ {n}
  /\ UNCHANGED <<iter, reverse, node, safe, visited>>

Delete(n) == Deletes(n, Cleared, Cleared)

\* A node that was initialised and not added is unlinked from itself.
DelInit(n) ==
  \/ Deletes(n, n, n)
  \/ ~Linked(n) /\ next[n] = n /\ UNCHANGED listVars

\* The node keeps its pointers, so the caller must not ask a second time.
DelIf(n) ==
  \/ Deletes(n, next[n], prev[n])
  \/ prev[n] \in {Cleared, n} /\ UNCHANGED listVars

\* NULL, and no change, for an empty list.
Pop(l) ==
  \/ next[l] = l /\ UNCHANGED listVars
  \/ /\ next[l] # l /\ next[l] # safe
     /\ lists' = [lists EXCEPT ![l] = SubSeq(@, 2, Len(@))]
     /\ Unlink(next[l], Cleared, Cleared)
     /\ stayed' = stayed \ {next[l]}
     /\ UNCHANGED <<iter, reverse, node, safe, visited>>

-----------------------------------------------------------------------------
(* wuy_list_iter_safe() and wuy_list_iter_reverse_safe().                  *)

Follow(back, a) == IF back THEN prev[a] ELSE next[a]

IterBegin(l, back) ==
  /\ iter = None
  /\ iter' = l /\ reverse' = back
  /\ node' = Follow(back, l) /\ safe' = Follow(back, node')
  /\ visited' = {} /\ stayed' = In(l)
  /\ UNCHANGED <<lists, pointers>>

IterNext ==
  /\ iter # None /\ node # iter
  /\ visited' = visited \cup {node}
  /\ node' = safe /\ safe' = Follow(reverse, safe)
  /\ UNCHANGED <<lists, pointers, iter, reverse, stayed>>

IterEnd ==
  /\ iter # None /\ node = iter
  /\ iter' = None /\ reverse' = FALSE /\ node' = None /\ safe' = None
  /\ visited' = {} /\ stayed' = {}
  /\ UNCHANGED <<lists, pointers>>

-----------------------------------------------------------------------------
Next ==
  \/ \E l \in Heads, n \in Nodes : Insert(l, n) \/ AppendTo(l, n)
  \/ \E d, n \in Nodes : AddAfter(d, n) \/ AddBefore(d, n)
  \/ \E n \in Nodes : Delete(n) \/ DelInit(n) \/ DelIf(n)
  \/ \E l \in Heads : Pop(l)
  \/ \E l \in Heads, back \in BOOLEAN : IterBegin(l, back)
  \/ IterNext \/ IterEnd

Spec == Init /\ [][Next]_listVars

-----------------------------------------------------------------------------
\* From every head the pointers lead through the nodes of its list in order
\* and back to it, and prev the same way back: after every call, also one made
\* by the body of an iteration.
Around(l) == <<l>> \o lists[l] \o <<l>>
Chained ==
  \A l \in Heads : \A k \in 1 .. Len(lists[l]) + 1 :
    /\ next[Around(l)[k]] = Around(l)[k + 1]
    /\ prev[Around(l)[k + 1]] = Around(l)[k]

=============================================================================
