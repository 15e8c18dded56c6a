------------------------------ MODULE NopList -------------------------------
(***************************************************************************)
(* wuy_nop_list.h: the calls of wuy_list.h that it offers, on offsets from *)
(* the address of the list in place of pointers, so that several processes *)
(* can use a list in memory each has mapped elsewhere.  Offset 0 is the    *)
(* list itself, and also what a node holds that is in no list.  An offset  *)
(* stands for the address it leads to: _nop_list_2node() takes back what   *)
(* _nop_list_2addr() gives as long as 32 bits hold the offset.             *)
(***************************************************************************)
CONSTANTS Base, Nodes, Null, None

VARIABLES lists, next, prev, iter, reverse, node, safe, visited, stayed

O == INSTANCE List WITH Heads <- {Base}, Cleared <- Base

NopInit == O!Init /\ next = [a \in O!Addresses |-> Base]

NopInsert(n) == O!Insert(Base, n)
NopAppend(n) == O!AppendTo(Base, n)
NopDelete(n) == O!Delete(n)
NopPop == O!Pop(Base)

NopIterate == (\E back \in BOOLEAN : O!IterBegin(Base, back)) \/ O!IterNext \/ O!IterEnd

NopNext ==
  \/ \E n \in Nodes : NopInsert(n) \/ NopAppend(n) \/ NopDelete(n)
  \/ NopPop \/ NopIterate
=============================================================================
