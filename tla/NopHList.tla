------------------------------ MODULE NopHList ------------------------------
(***************************************************************************)
(* wuy_nop_hlist.h: wuy_hlist.h on offsets from a base.  Offset 0, the     *)
(* base itself, ends a list and is what its first node has in pprev: the   *)
(* only list that delete finds the head of is the one at the base.         *)
(***************************************************************************)
CONSTANTS Base, Nodes, None

VARIABLES lists, next, pprev, iter, node, safe, visited, stayed

O == INSTANCE HList WITH Heads <- {Base}, Null <- Base, Front <- [l \in {Base} |-> Base]

NopHInit == O!HInit

NopHInsert(n) == O!HInsert(Base, n)
NopHDelete(n) == O!HDelete(n)
NopHIterate == O!HIterBegin(Base) \/ O!HIterNext \/ O!HIterEnd

NopHNext == (\E n \in Nodes : NopHInsert(n) \/ NopHDelete(n)) \/ NopHIterate
=============================================================================
