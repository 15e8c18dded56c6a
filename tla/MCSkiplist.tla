----------------------------- MODULE MCSkiplist -----------------------------
(***************************************************************************)
(* Small instances of Skiplist for TLC: two items share the key 3, so they *)
(* take turns in the list; the other keys are searched present and absent. *)
(* Init chooses a larger instance or one with iterations.                  *)
(***************************************************************************)
EXTENDS Skiplist, TLC

CONSTANTS s1, s2, s3, s4, s5

KeyOfItems == s1 :> 1 @@ s2 :> 2 @@ s3 :> 3 @@ s4 :> 3 @@ s5 :> 5
KeyOfSome == [i \in Items |-> KeyOfItems[i]]

VARIABLE iterated

Iterated == INSTANCE Skiplist WITH Items <- Items \ {s4}, Keys <- {3},
                                   MaxFailed <- 0, MaxIterated <- 5

mcVars == <<vars, iterated>>

MCInit == iterated \in BOOLEAN /\ IF iterated THEN Iterated!Init ELSE Init
MCNext == UNCHANGED iterated /\ IF iterated THEN Iterated!Next ELSE Next
MCSpec == MCInit /\ [][MCNext]_mcVars
=============================================================================
