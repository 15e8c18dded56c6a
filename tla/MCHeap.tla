------------------------------- MODULE MCHeap -------------------------------
(***************************************************************************)
(* Small instances of Heap for TLC.  Few has less of everything, so that   *)
(* its heap grows and items can be told apart; the constants of a run give *)
(* the other, of which the order is looked at.  The initial state chooses. *)
(***************************************************************************)
EXTENDS Heap, TLC

CONSTANTS n1, n2, n3, n4, n5, n6, n7,
          Chosen  \* the values of few

VARIABLE few

FewItems == {n1, n2, n3, n4}
FewKeys == {0, 1}
FewGarbage == {0, 5}

Few == INSTANCE Heap WITH Items <- FewItems, Keys <- FewKeys, IndexGarbage <- FewGarbage,
                          SizeInit <- 3, MaxCount <- 4

\* In every instance there are nodes for all the items.  Those that Few does not use
\* have one index and one key.
MCInit ==
  /\ few \in Chosen
  /\ array = [i \in Slot |-> NoItem] /\ held = {} /\ orderly = TRUE
  /\ count = 0 /\ call = "none" /\ loop = "up" /\ cur = 0 /\ bound = 0
  /\ LET size == IF few THEN 3 ELSE SizeInit IN capture = size /\ slots = size
  /\ index \in [Items -> IndexGarbage \cup FewGarbage]
  /\ key \in [Items -> Keys]
  /\ \A n \in Items :
       IF few THEN IF n \in FewItems THEN key[n] \in FewKeys ELSE index[n] = 0 /\ key[n] = 0
       ELSE index[n] \in IndexGarbage

MCNext == (IF few THEN Few!Next ELSE Next) /\ UNCHANGED few

MCSpec == MCInit /\ [][MCNext]_<<vars, few>> /\ WF_vars(Iterate /\ UNCHANGED few)

Symmetry == Permutations(Items)

\* What the order of the heap depends on: the keys by slot and the loop in
\* progress.  Which item sits where, and what an item outside left in its
\* node and in the slots past the end, tells no call apart as long as
\* BackPointers and LinkedIffHeld hold, for which Few keeps all of it.
OrderView ==
  <<few, [i \in 0 .. Top - 1 |-> KeyAt(i)], count, call, loop, cur, bound,
    orderly, IF few THEN vars ELSE <<>>>>
=============================================================================
