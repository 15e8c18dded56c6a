------------------------------- MODULE MCDict -------------------------------
(***************************************************************************)
(* Small instances of Dict for TLC: two items share a key, and the hashes  *)
(* collide in the small tables and part ways as the table doubles.  Init   *)
(* chooses a larger instance or one with iterations.                       *)
(***************************************************************************)
EXTENDS Dict, TLC

CONSTANTS i1, i2, i3, i4, i5, i6, i7, i8, i9, ka, kb, kc, kd

MCKeyOf ==
  (i1 :> ka @@ i2 :> ka @@ i3 :> kb @@ i4 :> kb @@ i5 :> kc @@ i6 :> kc
     @@ i7 :> kd @@ i8 :> kd @@ i9 :> kd)
MCHash == ka :> 0 @@ kb :> 2 @@ kc :> 5 @@ kd :> 7

KeyOfSome == [i \in Items |-> MCKeyOf[i]]
HashOfSome == [k \in Keys |-> MCHash[k]]

VARIABLE iterated

\* All items of some keys, so that the symmetry is one of this instance, too.
Iterated == INSTANCE Dict WITH Items <- {i1, i2, i3, i4, i7, i8}, MaxIterated <- 6,
                          FixedSizes <- {}, Memory <- {"ample"}

mcVars == <<vars, iterated>>

MCInit == iterated \in BOOLEAN /\ IF iterated THEN Iterated!Init ELSE Init
MCNext == UNCHANGED iterated /\ IF iterated THEN Iterated!Next ELSE Next
MCSpec == MCInit /\ [][MCNext]_mcVars

\* Items of equal key are interchangeable.
Symmetry ==
  UNION {Permutations({i \in Items : MCKeyOf[i] = k}) : k \in Keys}
=============================================================================
