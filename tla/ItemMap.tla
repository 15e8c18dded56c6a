------------------------------ MODULE ItemMap -------------------------------
(***************************************************************************)
(* What wuy_dict.h and wuy_skiplist.h promise their callers: a bag of the  *)
(* caller's items, found and deleted by key.  `ret' is the key and the     *)
(* item of the last call that looked a key up, <<>> after the others.      *)
(***************************************************************************)
CONSTANTS Items, Keys, KeyOf, NoItem

VARIABLES stored, ret

mapVars == <<stored, ret>>

WithKey(k) == {i \in stored : KeyOf[i] = k}

MapInit == stored = {} /\ ret = <<>>

MapAdd(i) ==
  /\ i \notin stored
  /\ stored' = stored \cup {i}
  /\ ret' = <<>>

\* An item with that key when there is one, NULL only when there is none.
MapGet(k) ==
  /\ \/ \E i \in WithKey(k) : ret' = <<k, i>>
     \/ WithKey(k) = {} /\ ret' = <<k, NoItem>>
  /\ UNCHANGED stored

MapDelete(i) ==
  /\ i \in stored
  /\ stored' = stored \ {i}
  /\ ret' = <<>>

MapDelKey(k) ==
  \/ \E i \in WithKey(k) : ret' = <<k, i>> /\ stored' = stored \ {i}
  \/ WithKey(k) = {} /\ ret' = <<k, NoItem>> /\ UNCHANGED stored

\* A call that changes nothing, such as a delete that finds nothing to do.
MapNothing == ret' = <<>> /\ UNCHANGED stored

MapNext ==
  \/ \E i \in Items : MapAdd(i) \/ MapDelete(i)
  \/ \E k \in Keys : MapGet(k) \/ MapDelKey(k)
  \/ MapNothing

MapSpec == MapInit /\ [][MapNext]_mapVars
==============================================================================
