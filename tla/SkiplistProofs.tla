--------------------------- MODULE SkiplistProofs ---------------------------
(***************************************************************************)
(* The skip list for any items, keys, number of levels and order of calls: *)
(* its levels are sorted and nested, an iteration keeps to the order, and  *)
(* to its caller the list is the map of ItemMap.                           *)
(*                                                                         *)
(* All of it rests on PreviousRight: on every level get_previous() stops   *)
(* between the items that are Less than the key and the others.  The levels*)
(* are gone through from the top; the proof that this goes well, and that  *)
(* the recursive function Previous exists at all, is by induction, as the  *)
(* least number of a set (Least).                                          *)
(***************************************************************************)
EXTENDS Skiplist, FiniteSetTheorems, WellFoundedInduction, TLAPS

-----------------------------------------------------------------------------
(* Induction.                                                              *)

LEMMA Least ==
  ASSUME NEW T, T \subseteq Nat, T # {}
  PROVE  \E m \in T : \A n \in T : m =< n
<1> DEFINE R == OpToRel(<, Nat)
<1>1. IsWellFoundedOn(R, Nat)
  BY NatLessThanWellFounded
<1>2. \A x, y \in Nat : x < y => <<x, y>> \in R
  BY DEF OpToRel
<1> HIDE DEF R
<1>3. PICK m \in T : \A n \in T : ~(<<n, m>> \in R)
  BY <1>1, WFMin
<1>4. \A n \in T : n \in Nat
  OBVIOUS
<1>5. \A n \in T : ~(n < m)
  BY <1>2, <1>3, <1>4
<1>6. \A n \in T : m =< n
  BY <1>4, <1>5
<1> QED BY <1>6

LEMMA Greatest ==
  ASSUME NEW N \in Nat, NEW T, T \subseteq 0 .. N, T # {}
  PROVE  \E m \in T : \A n \in T : n =< m
<1> DEFINE U == {N - n : n \in T}
<1>1. \A n \in T : n \in Nat /\ n =< N /\ N - n \in U
  OBVIOUS
<1>2. U \subseteq Nat /\ U # {}
  <2>1. ASSUME NEW n \in T PROVE N - n \in Nat
    BY <1>1
  <2> QED BY <1>1, <2>1
<1>3. PICK u \in U : \A v \in U : u =< v
  BY <1>2, Least
<1>4. PICK m \in T : u = N - m
  BY <1>3
<1>5. \A n \in T : N - m =< N - n
  BY <1>1, <1>3, <1>4
<1> QED BY <1>1, <1>5

-----------------------------------------------------------------------------
(* The order of the keys.                                                  *)

LEMMA KeysOrder ==
  ASSUME NEW a \in Keys, NEW b \in Keys, NEW c \in Keys
  PROVE  /\ ~Less(a, b) /\ Before(a, c) => ~Less(c, b)
         /\ Before(a, b) /\ Less(b, c) => Less(a, c)
         /\ Before(a, b) => ~Before(b, a) /\ a # b
         /\ Before(a, b) /\ Before(b, c) => Before(a, c)
         /\ Less(a, b) /\ a # b => Before(a, b)
         /\ ~Less(a, b) /\ a # b => Before(b, a)
         /\ Before(a, b) => Less(a, b)
         /\ ~Less(a, b) /\ ~Less(b, a) => a = b
BY SkiplistAssumption DEF Less, Before

LEMMA KeyOfItem == \A i \in Items : KeyOf[i] \in Keys /\ i # NoItem
BY SkiplistAssumption

Ordered(c) ==
  \A p, q \in 1 .. Len(c) : p < q => Before(KeyOf[c[p]], KeyOf[c[q]])

\* Position p is between the items of c that are Less than k and the others.
Between(c, p, k) ==
  /\ p \in 0 .. Len(c)
  /\ \A q \in 1 .. p : Less(KeyOf[c[q]], k)
  /\ \A q \in p + 1 .. Len(c) : ~Less(KeyOf[c[q]], k)

\* What the walks along the levels rely on.
ChainInv ==
  /\ chain \in [Levels -> Seq(Items)]
  /\ level \in -1 .. MaxLevel
  /\ \A l \in Levels : Ordered(chain[l])
  /\ \A l, m \in Levels : l < m => ItemsIn(m) \subseteq ItemsIn(l)
  /\ \A l \in Levels : l >= level => chain[l] = <<>>

LEMMA LevelsAre ==
  /\ MaxLevel \in Nat \ {0} /\ 0 \in Levels /\ Levels \subseteq Nat
  /\ \A l \in Nat : l < MaxLevel => l \in Levels
BY SkiplistAssumption DEF Levels

LEMMA ChainTypes ==
  ASSUME ChainInv, NEW l \in Levels
  PROVE  /\ chain[l] \in Seq(Items) /\ Len(chain[l]) \in Nat /\ Ordered(chain[l])
         /\ \A p \in 1 .. Len(chain[l]) :
              chain[l][p] \in Items /\ KeyOf[chain[l][p]] \in Keys
BY KeyOfItem DEF ChainInv

\* A walk from a position that is not too far.
LEMMA WalkRight ==
  ASSUME NEW c \in Seq(Items), Ordered(c), NEW k \in Keys, NEW p \in 0 .. Len(c),
         \A q \in 1 .. p : Less(KeyOf[c[q]], k)
  PROVE  Between(c, Walk(c, p, k), k)
<1> DEFINE T == {q \in p .. Len(c) : q = Len(c) \/ ~Less(KeyOf[c[q + 1]], k)}
           Stop(q) == /\ q = Len(c) \/ ~Less(KeyOf[c[q + 1]], k)
                      /\ \A r \in p .. q - 1 : Less(KeyOf[c[r + 1]], k)
           w == Walk(c, p, k)
<1>0. Len(c) \in Nat /\ p \in Nat /\ p =< Len(c)
  OBVIOUS
<1>1. PICK m \in T : \A n \in T : m =< n
  <2>1. T \subseteq Nat /\ Len(c) \in T
    BY <1>0
  <2> HIDE DEF T
  <2> QED BY <2>1, Least
<1>2. m \in p .. Len(c) /\ Stop(m)
  BY <1>0, <1>1
<1>3. w \in p .. Len(c) /\ Stop(w)
  BY <1>2 DEF Walk
<1> HIDE DEF w
<1>4. ASSUME NEW q \in 1 .. w PROVE Less(KeyOf[c[q]], k)
  <2>1. CASE q =< p
    BY <1>0, <2>1
  <2>2. CASE q > p
    <3>1. q - 1 \in p .. w - 1 /\ q - 1 + 1 = q
      BY <1>0, <1>3, <2>2
    <3> QED BY <1>3, <3>1
  <2> QED BY <1>0, <2>1, <2>2
<1>5. ASSUME NEW q \in w + 1 .. Len(c) PROVE ~Less(KeyOf[c[q]], k)
  <2>1. w \in Nat /\ w # Len(c) /\ w + 1 \in 1 .. Len(c) /\ q \in 1 .. Len(c)
    BY <1>0, <1>3
  <2>2. ~Less(KeyOf[c[w + 1]], k)
    BY <1>3, <2>1
  <2>3. q = w + 1 \/ Before(KeyOf[c[w + 1]], KeyOf[c[q]])
    BY <1>5, <2>1 DEF Ordered
  <2>4. KeyOf[c[w + 1]] \in Keys /\ KeyOf[c[q]] \in Keys
    BY <2>1, KeyOfItem
  <2> QED BY <2>2, <2>3, <2>4, KeysOrder
<1>6. w \in 0 .. Len(c)
  BY <1>0, <1>3
<1> QED BY <1>4, <1>5, <1>6 DEF Between, w

\* One level down the walk goes on from the same node.
LEMMA BelowRight ==
  ASSUME ChainInv, NEW l \in Levels, l + 1 \in Levels, NEW k \in Keys, NEW p,
         Between(chain[l + 1], p, k)
  PROVE  /\ Below(l, p) \in 0 .. Len(chain[l])
         /\ \A q \in 1 .. Below(l, p) : Less(KeyOf[chain[l][q]], k)
<1> DEFINE b == Below(l, p)
<1>1. l \in Nat /\ p \in Nat /\ Len(chain[l]) \in Nat /\ Len(chain[l + 1]) \in Nat
  BY LevelsAre, ChainTypes DEF Between
<1>2. CASE p = 0
  BY <1>1, <1>2 DEF Below
<1>3. CASE p # 0
  <2> DEFINE i == chain[l + 1][p]
  <2>1. p \in 1 .. Len(chain[l + 1]) /\ p \in 1 .. p
    BY <1>1, <1>3 DEF Between
  <2>2. i \in ItemsIn(l + 1) /\ Less(KeyOf[i], k) /\ i \in Items
    BY <2>1, ChainTypes DEF ItemsIn, Between
  <2>3. i \in ItemsIn(l)
    BY <1>1, <2>2 DEF ChainInv
  <2>4. b = CHOOSE q \in 1 .. Len(chain[l]) : chain[l][q] = i
    BY <1>3 DEF Below
  <2>5. \E q \in 1 .. Len(chain[l]) : chain[l][q] = i
    BY <2>3 DEF ItemsIn
  <2> HIDE DEF b, i
  <2>6. b \in 1 .. Len(chain[l]) /\ chain[l][b] = i
    BY <2>4, <2>5
  <2>7. ASSUME NEW q \in 1 .. b PROVE Less(KeyOf[chain[l][q]], k)
    <3>1. q \in 1 .. Len(chain[l]) /\ (q = b \/ q < b)
      BY <1>1, <2>6
    <3>2. q = b \/ Before(KeyOf[chain[l][q]], KeyOf[i])
      BY <2>6, <3>1, ChainTypes DEF Ordered
    <3>3. KeyOf[chain[l][q]] \in Keys /\ KeyOf[i] \in Keys
      BY <2>2, <3>1, ChainTypes, KeyOfItem
    <3> QED BY <2>2, <2>6, <3>2, <3>3, KeysOrder
  <2>8. b \in 0 .. Len(chain[l])
    BY <1>1, <2>6
  <2> QED BY <2>7, <2>8 DEF b
<1> QED BY <1>2, <1>3

\* What get_previous() sets on level l, prev being what it has set above.
SetAt(prev, l, k) ==
  IF l > 0 /\ l >= level THEN 0
  ELSE Walk(chain[l], IF l + 1 >= level THEN 0 ELSE Below(l, prev[l + 1]), k)

LEMMA PreviousExists ==
  ASSUME ChainInv, NEW k
  PROVE  Previous(k) = [l \in Levels |-> SetAt(Previous(k), l, k)]
<1> DEFINE From(f, n) == f = [l \in Levels |-> f[l]] /\ \A l \in Levels : l >= n => f[l] = SetAt(f, l, k)
           Missing == {m \in 0 .. MaxLevel : ~\E f : From(f, MaxLevel - m)}
<1>1. Missing = {}
  <2> SUFFICES ASSUME Missing # {} PROVE FALSE
    OBVIOUS
  <2>1. PICK m \in Missing : \A n \in Missing : m =< n
    <3>1. Missing \subseteq Nat
      OBVIOUS
    <3> HIDE DEF Missing
    <3> QED BY <3>1, Least
  <2>2. m \in 0 .. MaxLevel /\ ~\E f : From(f, MaxLevel - m)
    OBVIOUS
  <2>3. m # 0
    <3>1. [l \in Levels |-> 0] = [l \in Levels |-> [x \in Levels |-> 0][l]]
      OBVIOUS
    <3>2. From([l \in Levels |-> 0], MaxLevel)
      BY <3>1, LevelsAre DEF Levels
    <3> QED BY <2>2, <3>2, LevelsAre
  <2>4. m - 1 \in 0 .. MaxLevel /\ ~(m =< m - 1) /\ MaxLevel - (m - 1) = MaxLevel - m + 1
    BY <2>2, <2>3, LevelsAre
  <2>5. PICK f : From(f, MaxLevel - m + 1)
    BY <2>1, <2>4
  <2> DEFINE x == MaxLevel - m
             g == [f EXCEPT ![x] = SetAt(f, x, k)]
  <2>6. x \in Levels /\ x \in Nat
    BY <2>2, <2>3, LevelsAre DEF Levels
  <2>7. /\ g = [l \in Levels |-> g[l]] /\ g[x] = SetAt(f, x, k)
        /\ \A l \in Levels : l # x => g[l] = f[l]
    <3>1. f = [l \in Levels |-> f[l]]
      BY <2>5
    <3> QED BY <2>6, <3>1
  <2> HIDE DEF g
  <2>8. ASSUME NEW l \in Levels, l >= x PROVE SetAt(g, l, k) = SetAt(f, l, k)
    <3>1. CASE l + 1 \in Levels
      <4>1. l + 1 # x
        BY <2>6, <2>8, LevelsAre
      <4> QED BY <2>7, <3>1, <4>1 DEF SetAt
    <3>2. CASE l + 1 \notin Levels
      <4>1. l + 1 >= MaxLevel /\ level \in Int /\ level =< MaxLevel /\ l \in Nat
        BY <3>2, LevelsAre DEF ChainInv
      <4>2. l + 1 >= level
        BY <4>1, LevelsAre
      <4> QED BY <4>2 DEF SetAt
    <3> QED BY <3>1, <3>2
  <2>9. ASSUME NEW l \in Levels, l >= x PROVE g[l] = SetAt(g, l, k)
    <3>1. CASE l = x
      BY <2>7, <2>8, <2>9, <3>1
    <3>2. CASE l # x
      <4>1. l >= x + 1
        BY <2>6, <2>9, <3>2, LevelsAre
      <4> QED BY <2>5, <2>7, <2>8, <2>9, <3>2, <4>1
    <3> QED BY <3>1, <3>2
  <2>10. From(g, MaxLevel - m)
    BY <2>7, <2>9
  <2> QED BY <2>2, <2>10
<1>2. PICK f : From(f, 0)
  <2>1. MaxLevel \in 0 .. MaxLevel /\ MaxLevel - MaxLevel = 0
    BY LevelsAre
  <2> QED BY <1>1, <2>1
<1>3. f = [l \in Levels |-> SetAt(f, l, k)]
  BY <1>2, LevelsAre
<1> HIDE DEF From, Missing
<1>4. Previous(k) = CHOOSE g : g = [l \in Levels |-> SetAt(g, l, k)]
  BY DEF Previous, SetAt
<1> QED BY <1>3, <1>4

LEMMA PreviousRight ==
  ASSUME ChainInv, NEW k \in Keys
  PROVE  \A l \in Levels : Between(chain[l], Previous(k)[l], k)
<1> DEFINE prev == Previous(k)
           Wrong == {l \in Levels : ~Between(chain[l], prev[l], k)}
<1>1. \A l \in Levels : prev[l] = SetAt(prev, l, k)
  BY PreviousExists
<1> HIDE DEF prev
<1> SUFFICES ASSUME Wrong # {} PROVE FALSE
  BY DEF prev
<1>2. PICK l \in Wrong : \A n \in Wrong : n =< l
  <2>1. Wrong \subseteq 0 .. MaxLevel /\ MaxLevel \in Nat
    BY LevelsAre DEF Levels
  <2> HIDE DEF Wrong
  <2> QED BY <2>1, Greatest
<1>3. l \in Levels /\ l \in Nat /\ ~Between(chain[l], prev[l], k)
  BY LevelsAre
<1>4. /\ chain[l] \in Seq(Items) /\ Ordered(chain[l]) /\ level \in Int /\ level =< MaxLevel
  BY <1>3, ChainTypes, LevelsAre DEF ChainInv
<1>5. CASE l > 0 /\ l >= level
  <2>1. prev[l] = 0 /\ chain[l] = <<>>
    BY <1>1, <1>3, <1>5 DEF SetAt, ChainInv
  <2>2. Between(<<>>, 0, k)
    BY DEF Between
  <2> QED BY <1>3, <2>1, <2>2
<1>6. CASE ~(l > 0 /\ l >= level) /\ l + 1 >= level
  <2>1. prev[l] = Walk(chain[l], 0, k)
    BY <1>1, <1>3, <1>6 DEF SetAt
  <2>2. Between(chain[l], Walk(chain[l], 0, k), k)
    BY <1>4, WalkRight
  <2> QED BY <1>3, <2>1, <2>2
<1>7. CASE ~(l + 1 >= level)
  <2>1. l + 1 \in Levels /\ ~(l >= level)
    BY <1>3, <1>4, <1>7, LevelsAre
  <2>2. Between(chain[l + 1], prev[l + 1], k)
    BY <1>2, <1>3, <2>1
  <2>3. /\ Below(l, prev[l + 1]) \in 0 .. Len(chain[l])
        /\ \A q \in 1 .. Below(l, prev[l + 1]) : Less(KeyOf[chain[l][q]], k)
    BY <1>3, <2>1, <2>2, BelowRight
  <2>4. prev[l] = Walk(chain[l], Below(l, prev[l + 1]), k)
    BY <1>1, <1>3, <1>7, <2>1 DEF SetAt
  <2> QED BY <1>3, <1>4, <2>3, <2>4, WalkRight
<1> QED BY <1>3, <1>5, <1>6, <1>7

-----------------------------------------------------------------------------
(* Inserting into a chain, and removing from it.                           *)

LEMMA Joined ==
  ASSUME NEW a \in Seq(Items), NEW b \in Seq(Items)
  PROVE  /\ a \o b \in Seq(Items) /\ Len(a \o b) = Len(a) + Len(b)
         /\ \A q \in 1 .. Len(a) : (a \o b)[q] = a[q]
         /\ \A q \in Len(a) + 1 .. Len(a) + Len(b) : (a \o b)[q] = b[q - Len(a)]
OBVIOUS

LEMMA InsertedInto ==
  ASSUME NEW c \in Seq(Items), NEW p \in 0 .. Len(c), NEW i \in Items
  PROVE  LET e == InsertAfter(c, p, i) IN
         /\ e \in Seq(Items) /\ Len(e) = Len(c) + 1
         /\ e[p + 1] = i
         /\ \A q \in 1 .. p : e[q] = c[q]
         /\ \A q \in p + 1 .. Len(c) : e[q + 1] = c[q]
<1> DEFINE a == SubSeq(c, 1, p)
           b == SubSeq(c, p + 1, Len(c))
           f == a \o <<i>>
           e == f \o b
<1>1. /\ a \in Seq(Items) /\ Len(a) = p /\ \A q \in 1 .. p : a[q] = c[q]
  OBVIOUS
<1>2. /\ b \in Seq(Items) /\ Len(b) = Len(c) - p
      /\ \A q \in 1 .. Len(c) - p : b[q] = c[p + q]
  OBVIOUS
<1>0. InsertAfter(c, p, i) = e
  BY DEF InsertAfter
<1> HIDE DEF a, b
<1>3. /\ f \in Seq(Items) /\ Len(f) = p + 1 /\ f[p + 1] = i
      /\ \A q \in 1 .. p : f[q] = c[q]
  BY <1>1
<1> HIDE DEF f
<1>4. /\ e \in Seq(Items) /\ Len(e) = Len(c) + 1
      /\ \A q \in 1 .. p + 1 : e[q] = f[q]
      /\ \A q \in p + 2 .. Len(c) + 1 : e[q] = b[q - (p + 1)]
  BY <1>2, <1>3
<1> HIDE DEF e
<1>5. ASSUME NEW q \in p + 1 .. Len(c) PROVE e[q + 1] = c[q]
  <2>1. q + 1 \in p + 2 .. Len(c) + 1 /\ q + 1 - (p + 1) = q - p
        /\ q - p \in 1 .. Len(c) - p /\ p + (q - p) = q
    OBVIOUS
  <2>2. e[q + 1] = b[q - p]
    BY <1>4, <2>1
  <2>3. b[q - p] = c[q]
    BY <1>2, <2>1
  <2> QED BY <2>2, <2>3
<1>6. e[p + 1] = i /\ \A q \in 1 .. p : e[q] = c[q]
  BY <1>3, <1>4
<1> QED BY <1>0, <1>4, <1>5, <1>6

LEMMA RemovedFrom ==
  ASSUME NEW c \in Seq(Items), NEW p \in 0 .. Len(c) - 1
  PROVE  LET e == RemoveAfter(c, p) IN
         /\ e \in Seq(Items) /\ Len(e) = Len(c) - 1
         /\ \A q \in 1 .. p : e[q] = c[q]
         /\ \A q \in p + 1 .. Len(c) - 1 : e[q] = c[q + 1]
<1> DEFINE a == SubSeq(c, 1, p)
           b == SubSeq(c, p + 2, Len(c))
           e == a \o b
<1>1. /\ a \in Seq(Items) /\ Len(a) = p /\ \A q \in 1 .. p : a[q] = c[q]
  OBVIOUS
<1>2. /\ b \in Seq(Items) /\ Len(b) = Len(c) - 1 - p
      /\ \A q \in 1 .. Len(c) - 1 - p : b[q] = c[p + 1 + q]
  OBVIOUS
<1>0. RemoveAfter(c, p) = e
  BY DEF RemoveAfter
<1> HIDE DEF a, b
<1>4. /\ e \in Seq(Items) /\ Len(e) = Len(c) - 1
      /\ \A q \in 1 .. p : e[q] = a[q]
      /\ \A q \in p + 1 .. Len(c) - 1 : e[q] = b[q - p]
  <2>1. /\ e \in Seq(Items) /\ Len(e) = Len(a) + Len(b)
        /\ \A q \in 1 .. Len(a) : e[q] = a[q]
        /\ \A q \in Len(a) + 1 .. Len(a) + Len(b) : e[q] = b[q - Len(a)]
    BY <1>1, <1>2, Joined
  <2>2. Len(a) = p /\ Len(a) + Len(b) = Len(c) - 1
    BY <1>1, <1>2
  <2> HIDE DEF e
  <2> QED BY <2>1, <2>2
<1> HIDE DEF e
<1>5. ASSUME NEW q \in p + 1 .. Len(c) - 1 PROVE e[q] = c[q + 1]
  <2>1. q - p \in 1 .. Len(c) - 1 - p /\ p + 1 + (q - p) = q + 1
    OBVIOUS
  <2> QED BY <1>2, <1>4, <2>1
<1> QED BY <1>0, <1>1, <1>4, <1>5

Members(c) == {c[p] : p \in 1 .. Len(c)}

\* A new key goes between the smaller and the greater ones.
LEMMA InsertOrdered ==
  ASSUME NEW c \in Seq(Items), Ordered(c), NEW i \in Items, NEW p,
         Between(c, p, KeyOf[i]), \A j \in Members(c) : KeyOf[j] # KeyOf[i]
  PROVE  LET e == InsertAfter(c, p, i) IN
         /\ e \in Seq(Items) /\ Ordered(e) /\ Members(e) = Members(c) \cup {i}
<1> DEFINE e == InsertAfter(c, p, i)
<1>0. p \in 0 .. Len(c) /\ p \in Nat /\ Len(c) \in Nat
  BY DEF Between
<1>1. /\ e \in Seq(Items) /\ Len(e) = Len(c) + 1
      /\ e[p + 1] = i
      /\ \A q \in 1 .. p : e[q] = c[q]
      /\ \A q \in p + 1 .. Len(c) : e[q + 1] = c[q]
  BY <1>0, InsertedInto, ZenonT(30)
<1>2. \A q \in 1 .. Len(c) : c[q] \in Items /\ KeyOf[c[q]] \in Keys /\ KeyOf[c[q]] # KeyOf[i]
  BY KeyOfItem DEF Members
<1> HIDE DEF e
<1>3. /\ \A q \in 1 .. p : Before(KeyOf[c[q]], KeyOf[i])
      /\ \A q \in p + 1 .. Len(c) : Before(KeyOf[i], KeyOf[c[q]])
  <2>1. ASSUME NEW q \in 1 .. p PROVE Before(KeyOf[c[q]], KeyOf[i])
    <3>1. q \in 1 .. Len(c) /\ Less(KeyOf[c[q]], KeyOf[i])
      BY <1>0 DEF Between
    <3> QED BY <1>2, <3>1, KeyOfItem, KeysOrder
  <2>2. ASSUME NEW q \in p + 1 .. Len(c) PROVE Before(KeyOf[i], KeyOf[c[q]])
    <3>1. q \in 1 .. Len(c) /\ ~Less(KeyOf[c[q]], KeyOf[i])
      BY <1>0 DEF Between
    <3> QED BY <1>2, <3>1, KeyOfItem, KeysOrder
  <2> QED BY <2>1, <2>2
\* Where each item of e comes from.
<1>4. ASSUME NEW q \in 1 .. Len(e)
      PROVE  \/ q \in 1 .. p /\ e[q] = c[q]
             \/ q = p + 1 /\ e[q] = i
             \/ q - 1 \in p + 1 .. Len(c) /\ e[q] = c[q - 1]
  <2>1. q \in 1 .. p \/ q = p + 1 \/ (q - 1 \in p + 1 .. Len(c) /\ q - 1 + 1 = q)
    BY <1>0, <1>1
  <2> QED BY <1>1, <2>1
<1>5. ASSUME NEW q \in 1 .. Len(e), NEW r \in 1 .. Len(e), q < r
      PROVE  Before(KeyOf[e[q]], KeyOf[e[r]])
  <2>1. CASE q \in 1 .. p /\ e[q] = c[q]
    <3>1. CASE r \in 1 .. p /\ e[r] = c[r]
      BY <1>0, <1>5, <2>1, <3>1 DEF Ordered
    <3>2. CASE r = p + 1 /\ e[r] = i
      BY <1>3, <2>1, <3>2
    <3>3. CASE r - 1 \in p + 1 .. Len(c) /\ e[r] = c[r - 1]
      <4>1. q \in 1 .. Len(c) /\ r - 1 \in 1 .. Len(c) /\ q < r - 1
        BY <1>0, <2>1, <3>3
      <4> QED BY <2>1, <3>3, <4>1 DEF Ordered
    <3> QED BY <1>4, <3>1, <3>2, <3>3
  <2>2. CASE q = p + 1 /\ e[q] = i
    <3>1. r - 1 \in p + 1 .. Len(c) /\ e[r] = c[r - 1]
      BY <1>0, <1>4, <1>5, <2>2
    <3> QED BY <1>3, <2>2, <3>1
  <2>3. CASE q - 1 \in p + 1 .. Len(c) /\ e[q] = c[q - 1]
    <3>1. r - 1 \in p + 1 .. Len(c) /\ e[r] = c[r - 1]
      BY <1>0, <1>4, <1>5, <2>3
    <3>2. q - 1 \in 1 .. Len(c) /\ r - 1 \in 1 .. Len(c) /\ q - 1 < r - 1
      BY <1>0, <1>5, <2>3, <3>1
    <3> QED BY <2>3, <3>1, <3>2 DEF Ordered
  <2> QED BY <1>4, <2>1, <2>2, <2>3
<1>6. ASSUME NEW j PROVE j \in Members(e) <=> j \in Members(c) \/ j = i
  <2>1. ASSUME j \in Members(e) PROVE j \in Members(c) \/ j = i
    <3>1. PICK q \in 1 .. Len(e) : e[q] = j
      BY <2>1 DEF Members
    <3>2. q \in 1 .. p => q \in 1 .. Len(c)
      BY <1>0
    <3>3. q - 1 \in p + 1 .. Len(c) => q - 1 \in 1 .. Len(c)
      BY <1>0
    <3> QED BY <1>4, <3>1, <3>2, <3>3 DEF Members
  <2>2. ASSUME j \in Members(c) PROVE j \in Members(e)
    <3>1. PICK q \in 1 .. Len(c) : c[q] = j
      BY <2>2 DEF Members
    <3>2. CASE q \in 1 .. p
      <4>1. q \in 1 .. Len(e) /\ e[q] = j
        BY <1>0, <1>1, <3>1, <3>2
      <4> QED BY <4>1 DEF Members
    <3>3. CASE q \in p + 1 .. Len(c)
      <4>1. q + 1 \in 1 .. Len(e) /\ e[q + 1] = j
        BY <1>0, <1>1, <3>1, <3>3
      <4> QED BY <4>1 DEF Members
    <3> QED BY <1>0, <3>1, <3>2, <3>3
  <2>3. i \in Members(e)
    <3>1. p + 1 \in 1 .. Len(e)
      BY <1>0, <1>1
    <3> QED BY <1>1, <3>1 DEF Members
  <2> QED BY <2>1, <2>2, <2>3
<1>7. Members(e) = Members(c) \cup {i}
  BY <1>6
<1>8. Ordered(e)
  BY <1>5 DEF Ordered
<1> QED BY <1>1, <1>7, <1>8 DEF e

\* The chain without the item behind position p.
LEMMA RemoveOrdered ==
  ASSUME NEW c \in Seq(Items), Ordered(c), NEW p \in 0 .. Len(c) - 1
  PROVE  LET e == RemoveAfter(c, p) IN
         /\ e \in Seq(Items) /\ Ordered(e) /\ Members(e) = Members(c) \ {c[p + 1]}
<1> DEFINE e == RemoveAfter(c, p)
           i == c[p + 1]
<1>0. p \in Nat /\ Len(c) \in Nat /\ p < Len(c)
  OBVIOUS
<1>1. /\ e \in Seq(Items) /\ Len(e) = Len(c) - 1
      /\ \A q \in 1 .. p : e[q] = c[q]
      /\ \A q \in p + 1 .. Len(c) - 1 : e[q] = c[q + 1]
  BY RemovedFrom
<1> HIDE DEF e
\* Where each item of e comes from.
<1>4. ASSUME NEW q \in 1 .. Len(e)
      PROVE  \/ q =< p /\ q \in 1 .. Len(c) /\ e[q] = c[q]
             \/ q > p /\ q + 1 \in 1 .. Len(c) /\ e[q] = c[q + 1]
  <2>1. q \in 1 .. p \/ q \in p + 1 .. Len(c) - 1
    BY <1>0, <1>1
  <2>2. q \in 1 .. p => q =< p /\ q \in 1 .. Len(c)
    BY <1>0
  <2>3. q \in p + 1 .. Len(c) - 1 => q > p /\ q + 1 \in 1 .. Len(c)
    BY <1>0
  <2> QED BY <1>1, <2>1, <2>2, <2>3
<1>5. ASSUME NEW q \in 1 .. Len(e), NEW r \in 1 .. Len(e), q < r
      PROVE  Before(KeyOf[e[q]], KeyOf[e[r]])
  <2>1. PICK x \in 1 .. Len(c), y \in 1 .. Len(c) : x < y /\ e[q] = c[x] /\ e[r] = c[y]
    <3>1. CASE q =< p /\ r =< p
      BY <1>0, <1>4, <1>5, <3>1
    <3>2. CASE q =< p /\ r > p
      <4>1. q < r + 1 /\ q \in 1 .. Len(c) /\ r + 1 \in 1 .. Len(c)
            /\ e[q] = c[q] /\ e[r] = c[r + 1]
        BY <1>0, <1>4, <1>5, <3>2
      <4> QED BY <4>1
    <3>3. CASE q > p /\ r > p
      <4>1. q + 1 < r + 1 /\ q + 1 \in 1 .. Len(c) /\ r + 1 \in 1 .. Len(c)
            /\ e[q] = c[q + 1] /\ e[r] = c[r + 1]
        BY <1>0, <1>4, <1>5, <3>3
      <4> QED BY <4>1
    <3> QED BY <1>0, <1>5, <3>1, <3>2, <3>3
  <2> QED BY <2>1 DEF Ordered
<1>6. ASSUME NEW j PROVE j \in Members(e) <=> j \in Members(c) /\ j # i
  <2>0. p + 1 \in 1 .. Len(c)
    BY <1>0
  <2>1. ASSUME NEW x \in 1 .. Len(c), x # p + 1 PROVE c[x] # i
    <3>1. x < p + 1 \/ p + 1 < x
      BY <1>0, <2>1
    <3>2. Before(KeyOf[c[x]], KeyOf[i]) \/ Before(KeyOf[i], KeyOf[c[x]])
      BY <2>0, <3>1 DEF Ordered
    <3>3. KeyOf[c[x]] \in Keys /\ KeyOf[i] \in Keys
      BY <2>0, KeyOfItem
    <3> QED BY <3>2, <3>3, KeysOrder
  <2>2. ASSUME j \in Members(e) PROVE j \in Members(c) /\ j # i
    <3>1. PICK q \in 1 .. Len(e) : e[q] = j
      BY <2>2 DEF Members
    <3>2. PICK x \in 1 .. Len(c) : x # p + 1 /\ j = c[x]
      <4>1. CASE q =< p /\ q \in 1 .. Len(c) /\ e[q] = c[q]
        BY <1>0, <3>1, <4>1
      <4>2. CASE q > p /\ q + 1 \in 1 .. Len(c) /\ e[q] = c[q + 1]
        <5>1. q + 1 # p + 1
          BY <1>0, <4>2
        <5> QED BY <3>1, <4>2, <5>1
      <4> QED BY <1>4, <4>1, <4>2
    <3> QED BY <2>1, <3>2 DEF Members
  <2>3. ASSUME j \in Members(c), j # i PROVE j \in Members(e)
    <3>1. PICK x \in 1 .. Len(c) : c[x] = j
      BY <2>3 DEF Members
    <3>2. x # p + 1
      BY <2>3, <3>1
    <3>3. CASE x \in 1 .. p
      <4>1. x \in 1 .. Len(e) /\ e[x] = j
        BY <1>0, <1>1, <3>1, <3>3
      <4> QED BY <4>1 DEF Members
    <3>4. CASE x - 1 \in p + 1 .. Len(c) - 1
      <4>1. x - 1 + 1 = x
        BY <3>1
      <4>2. x - 1 \in 1 .. Len(e) /\ e[x - 1] = j
        BY <1>0, <1>1, <3>1, <3>4, <4>1
      <4> QED BY <4>2 DEF Members
    <3> QED BY <1>0, <3>1, <3>2, <3>3, <3>4
  <2> QED BY <2>2, <2>3
<1>7. Members(e) = Members(c) \ {i}
  BY <1>6
<1>8. Ordered(e)
  BY <1>5 DEF Ordered
<1> QED BY <1>1, <1>7, <1>8 DEF e, i

-----------------------------------------------------------------------------
(* The chains in the calls.                                                *)

LEMMA ItemsInIs == \A l : ItemsIn(l) = Members(chain[l]) /\ ItemsIn(l)' = Members(chain'[l])
BY DEF ItemsIn, Members

LEMMA EmptyMembers == ASSUME NEW c \in Seq(Items) PROVE Members(c) = {} <=> c = <<>>
<1>1. c # <<>> => 1 \in 1 .. Len(c)
  OBVIOUS
<1> QED BY <1>1 DEF Members

LEMMA InsertChains ==
  ASSUME ChainInv, NEW i \in Items, MayInsert(i), NEW n \in 1 .. MaxLevel,
         InsertAtLevels(i, n), level' \in -1 .. MaxLevel, level' >= n, level' >= level
  PROVE  /\ ChainInv'
         /\ \A l \in Levels : l < n => ItemsIn(l)' = ItemsIn(l) \cup {i}
         /\ \A l \in Levels : ~(l < n) => ItemsIn(l)' = ItemsIn(l) /\ chain'[l] = chain[l]
<1> DEFINE k == KeyOf[i]
           prev == Previous(k)
<1>1. k \in Keys
  BY KeyOfItem
<1>2. \A l \in Levels : Between(chain[l], prev[l], k)
  BY <1>1, PreviousRight
<1>3. chain' = [l \in Levels |-> IF l < n THEN InsertAfter(chain[l], prev[l], i)
                                 ELSE chain[l]]
  BY DEF InsertAtLevels
<1> HIDE DEF prev
<1>4. ASSUME NEW l \in Levels, l < n
      PROVE  /\ chain'[l] \in Seq(Items) /\ Ordered(chain'[l])
             /\ ItemsIn(l)' = ItemsIn(l) \cup {i}
  <2>1. \A j \in Members(chain[l]) : KeyOf[j] # k
    <3>1. Members(chain[l]) \subseteq Linked
      <4>1. l = 0 \/ 0 < l
        BY LevelsAre
      <4>2. ItemsIn(l) \subseteq ItemsIn(0)
        BY <4>1, LevelsAre DEF ChainInv
      <4> QED BY <4>2, ItemsInIs DEF Linked
    <3> QED BY <3>1 DEF MayInsert
  <2>2. chain'[l] = InsertAfter(chain[l], prev[l], i)
    BY <1>3, <1>4
  <2> QED BY <1>2, <2>1, <2>2, InsertOrdered, ChainTypes, ItemsInIs
<1>5. ASSUME NEW l \in Levels, ~(l < n) PROVE chain'[l] = chain[l] /\ ItemsIn(l)' = ItemsIn(l)
  BY <1>3, <1>5, ItemsInIs
<1>6. chain' \in [Levels -> Seq(Items)]
  <2>1. \A l \in Levels : chain'[l] \in Seq(Items)
    BY <1>4, <1>5, ChainTypes
  <2> QED BY <1>3, <2>1
<1>7. \A l \in Levels : Ordered(chain'[l])
  BY <1>4, <1>5, ChainTypes
<1>8. ASSUME NEW l \in Levels, NEW m \in Levels, l < m PROVE ItemsIn(m)' \subseteq ItemsIn(l)'
  <2>1. ItemsIn(m) \subseteq ItemsIn(l)
    BY <1>8 DEF ChainInv
  <2>2. m < n => l < n
    BY <1>8, LevelsAre
  <2> QED BY <1>4, <1>5, <2>1, <2>2
<1>9. ASSUME NEW l \in Levels, l >= level' PROVE chain'[l] = <<>>
  <2>1. ~(l < n) /\ l >= level
    BY <1>9, LevelsAre DEF ChainInv
  <2> QED BY <1>5, <2>1 DEF ChainInv
<1>10. ChainInv'
  BY <1>6, <1>7, <1>8, <1>9 DEF ChainInv
<1> QED BY <1>4, <1>5, <1>10

\* What the search comes to: whether it has the key or not.
LEMMA CandidateIs ==
  ASSUME ChainInv, NEW k \in Keys
  PROVE  LET c == Candidate(Previous(k)) IN
         /\ c # NoItem => c \in Linked /\ c \in Items /\ ~Less(KeyOf[c], k)
         /\ c = NoItem => \A i \in Linked : Less(KeyOf[i], k)
         /\ c # NoItem => \A i \in Linked : i = c \/ Less(KeyOf[i], k) \/ Before(KeyOf[c], KeyOf[i])
<1> DEFINE p == Previous(k)[0]
           c == chain[0]
           x == Candidate(Previous(k))
<1>1. /\ c \in Seq(Items) /\ Ordered(c) /\ Between(c, p, k)
      /\ \A q \in 1 .. Len(c) : c[q] \in Items
  BY LevelsAre, PreviousRight, ChainTypes
<1>2. x = IF p < Len(c) THEN c[p + 1] ELSE NoItem
  BY DEF Candidate
<1>3. Linked = {c[q] : q \in 1 .. Len(c)}
  BY DEF Linked, ItemsIn
<1> HIDE DEF p, c, x
<1>4. p \in Nat /\ p =< Len(c) /\ Len(c) \in Nat
  BY <1>1 DEF Between
<1>5. CASE p < Len(c)
  <2>1. p + 1 \in 1 .. Len(c) /\ p + 1 \in p + 1 .. Len(c)
    BY <1>4, <1>5
  <2>2. x = c[p + 1] /\ x \in Items /\ x \in Linked /\ x # NoItem /\ ~Less(KeyOf[x], k)
    BY <1>1, <1>2, <1>3, <1>5, <2>1, KeyOfItem DEF Between
  <2>3. ASSUME NEW i \in Linked PROVE i = x \/ Less(KeyOf[i], k) \/ Before(KeyOf[x], KeyOf[i])
    <3>1. PICK q \in 1 .. Len(c) : i = c[q]
      BY <1>3
    <3>2. q \in 1 .. p \/ q = p + 1 \/ p + 1 < q
      BY <1>4, <3>1
    <3> QED BY <1>1, <2>1, <2>2, <3>1, <3>2 DEF Between, Ordered
  <2> QED BY <2>2, <2>3 DEF x
<1>6. CASE ~(p < Len(c))
  <2>1. x = NoItem /\ p = Len(c)
    BY <1>2, <1>4, <1>6
  <2>2. \A i \in Linked : Less(KeyOf[i], k)
    BY <1>1, <1>3, <2>1 DEF Between
  <2> QED BY <2>1, <2>2 DEF x
<1> QED BY <1>5, <1>6

\* On every level that an item is on it is the one behind previous[], when the
\* search for its key comes to it.
LEMMA BehindPrevious ==
  ASSUME ChainInv, NEW i \in Items, NEW k, k = KeyOf[i], i = Candidate(Previous(k))
  PROVE  \A l \in Levels :
           /\ Previous(k)[l] \in 0 .. Len(chain[l])
           /\ i \in ItemsIn(l) <=> /\ Previous(k)[l] < Len(chain[l])
                                   /\ chain[l][Previous(k)[l] + 1] = i
<1>1. k \in Keys /\ i # NoItem
  BY KeyOfItem
<1>2. ~Less(k, k)
  BY <1>1, CandidateIs
<1> SUFFICES ASSUME NEW l \in Levels
             PROVE  /\ Previous(k)[l] \in 0 .. Len(chain[l])
                    /\ i \in ItemsIn(l) <=> /\ Previous(k)[l] < Len(chain[l])
                                            /\ chain[l][Previous(k)[l] + 1] = i
  OBVIOUS
<1> DEFINE p == Previous(k)[l]
           c == chain[l]
<1>3. /\ c \in Seq(Items) /\ Ordered(c) /\ Between(c, p, k)
      /\ \A q \in 1 .. Len(c) : c[q] \in Items /\ KeyOf[c[q]] \in Keys
  BY <1>1, PreviousRight, ChainTypes
<1>4. ItemsIn(l) = {c[q] : q \in 1 .. Len(c)}
  BY DEF ItemsIn
<1> HIDE DEF p, c
<1>5. p \in Nat /\ p =< Len(c) /\ Len(c) \in Nat
  BY <1>3 DEF Between
<1>6. ASSUME i \in ItemsIn(l) PROVE p < Len(c) /\ c[p + 1] = i
  <2>1. PICK q \in 1 .. Len(c) : c[q] = i
    BY <1>4, <1>6
  <2>2. ~(q \in 1 .. p)
    BY <1>2, <1>3, <2>1 DEF Between
  <2>3. p + 1 \in 1 .. Len(c) /\ p + 1 \in p + 1 .. Len(c) /\ p < Len(c)
        /\ (q = p + 1 \/ p + 1 < q)
    BY <1>5, <2>1, <2>2
  <2>4. ASSUME p + 1 < q PROVE FALSE
    <3>1. Before(KeyOf[c[p + 1]], k) /\ ~Less(KeyOf[c[p + 1]], k)
      BY <1>3, <2>1, <2>3, <2>4 DEF Ordered, Between
    <3> QED BY <1>1, <1>3, <2>3, <3>1, KeysOrder
  <2> QED BY <2>1, <2>3, <2>4
<1>7. ASSUME p < Len(c), c[p + 1] = i PROVE i \in ItemsIn(l)
  <2>1. p + 1 \in 1 .. Len(c)
    BY <1>5, <1>7
  <2> QED BY <1>4, <1>7, <2>1
<1>8. p \in 0 .. Len(c)
  BY <1>5
<1> QED BY <1>6, <1>7, <1>8 DEF p, c

\* The level that is left when the emptied ones are given up.
LEMMA LoweredIs ==
  ASSUME NEW c, level \in 0 .. MaxLevel,
         \A l \in Levels : l >= level => c[l] = <<>>
  PROVE  LET e == LoweredLevel(c) IN
         /\ e \in -1 .. MaxLevel
         /\ \A l \in Levels : l >= e => c[l] = <<>>
         /\ e > 0 => c[e - 1] # <<>>
         /\ count # 0 => e >= 0
<1> DEFINE used == {l \in 0 .. level - 1 : c[l] # <<>>}
           e == LoweredLevel(c)
           top == CHOOSE l \in used : \A m \in used : m =< l
<1>1. e = IF used # {} THEN 1 + top ELSE IF count = 0 THEN -1 ELSE 0
  BY DEF LoweredLevel
<1>2. MaxLevel \in Nat /\ level \in Nat /\ level =< MaxLevel
  BY LevelsAre
<1>3. CASE used # {}
  <2>1. \E l \in used : \A m \in used : m =< l
    <3>1. used \subseteq 0 .. MaxLevel
      BY <1>2
    <3> HIDE DEF used
    <3> QED BY <1>2, <1>3, <3>1, Greatest
  <2>2. top \in used /\ \A m \in used : m =< top
    <3> HIDE DEF used
    <3> QED BY <2>1
  <2> HIDE DEF top, e
  <2>3. top \in 0 .. level - 1 /\ c[top] # <<>> /\ e = 1 + top
    BY <1>1, <1>3, <2>2
  <2>4. e \in 1 .. MaxLevel /\ e - 1 = top
    BY <1>2, <2>3
  <2>5. ASSUME NEW l \in Levels, l >= e PROVE c[l] = <<>>
    <3>1. l \in Nat /\ ~(l =< top)
      BY <1>2, <2>3, <2>5, LevelsAre
    <3>2. l \notin used
      BY <2>2, <3>1
    <3> QED BY <1>2, <3>1, <3>2
  <2> QED BY <1>2, <2>3, <2>4, <2>5 DEF e
<1>4. CASE used = {}
  <2>1. ASSUME NEW l \in Levels PROVE c[l] = <<>>
    <3>1. l \in Nat
      BY LevelsAre
    <3>2. l >= level \/ l \in 0 .. level - 1
      BY <1>2, <3>1
    <3> QED BY <1>4, <3>2
  <2>2. e = IF count = 0 THEN -1 ELSE 0
    BY <1>1, <1>4
  <2> HIDE DEF e
  <2> QED BY <1>2, <2>1, <2>2 DEF e
<1> QED BY <1>3, <1>4

LEMMA DeleteChains ==
  ASSUME ChainInv, NEW i \in Items, NEW k, k = KeyOf[i], i = Candidate(Previous(k)),
         DeleteNode(Previous(k), i)
  PROVE  /\ ChainInv' /\ i \in Linked
         /\ \A l \in Levels : ItemsIn(l)' = ItemsIn(l) \ {i}
         /\ count' = count - 1
         /\ level' > 0 => chain'[level' - 1] # <<>>
         /\ count # 0 => level' >= 0
<1> DEFINE prev == Previous(k)
           meets == {l \in 1 .. level - 1 :
                       prev[l] < Len(chain[l]) /\ chain[l][prev[l] + 1] = i}
           top == IF meets = {} THEN 0 ELSE CHOOSE l \in meets : \A m \in meets : m =< l
           cut == [l \in Levels |-> IF l =< top THEN RemoveAfter(chain[l], prev[l])
                                    ELSE chain[l]]
<1>1. chain' = cut /\ level' = LoweredLevel(cut) /\ count' = count - 1
  BY DEF DeleteNode
<1>2. \A l \in Levels :
        /\ prev[l] \in 0 .. Len(chain[l])
        /\ i \in ItemsIn(l) <=> prev[l] < Len(chain[l]) /\ chain[l][prev[l] + 1] = i
  BY BehindPrevious
<1>3. i \in Linked
  BY KeyOfItem, CandidateIs
<1> HIDE DEF prev
<1>4. 0 \in Levels /\ i \in ItemsIn(0) /\ level \in 1 .. MaxLevel
  <2>1. 0 \in Levels /\ i \in ItemsIn(0)
    BY <1>3, LevelsAre DEF Linked
  <2>2. chain[0] # <<>>
    BY <2>1, ItemsInIs, EmptyMembers, ChainTypes
  <2>3. ~(0 >= level) /\ level \in -1 .. MaxLevel
    BY <2>1, <2>2 DEF ChainInv
  <2> QED BY <2>1, <2>3, LevelsAre
<1>5. \A l : l \in meets <=> l \in 1 .. level - 1 /\ i \in ItemsIn(l)
  <2>1. 1 .. level - 1 \subseteq Levels
    BY <1>4, LevelsAre DEF Levels
  <2> QED BY <1>2, <2>1
<1>6. \A l \in Levels : l =< top <=> i \in ItemsIn(l)
  <2>1. \A l \in Levels : i \in ItemsIn(l) => l \in 0 .. level - 1
    <3>1. ASSUME NEW l \in Levels, i \in ItemsIn(l) PROVE l \in 0 .. level - 1
      <4>1. chain[l] # <<>>
        BY <3>1, ItemsInIs, EmptyMembers, ChainTypes
      <4>2. ~(l >= level) /\ l \in Nat
        BY <4>1, LevelsAre DEF ChainInv
      <4> QED BY <1>4, <4>2
    <3> QED BY <3>1
  <2>2. CASE meets = {}
    <3>1. top = 0
      BY <2>2
    <3>2. \A l \in Levels : i \in ItemsIn(l) => l = 0
      BY <1>4, <1>5, <2>1, <2>2
    <3> HIDE DEF top
    <3> QED BY <1>4, <3>1, <3>2, LevelsAre
  <2>3. CASE meets # {}
    <3>1. \E l \in meets : \A m \in meets : m =< l
      <4>1. meets \subseteq 0 .. MaxLevel /\ MaxLevel \in Nat
        BY <1>4, LevelsAre
      <4> HIDE DEF meets
      <4> QED BY <2>3, <4>1, Greatest
    <3>2. top \in meets /\ \A m \in meets : m =< top
      <4> HIDE DEF meets
      <4> QED BY <2>3, <3>1
    <3> HIDE DEF top, meets
    <3>3. top \in Levels /\ top \in 1 .. level - 1 /\ i \in ItemsIn(top)
      BY <1>4, <1>5, <3>2, LevelsAre DEF Levels
    <3>4. ASSUME NEW l \in Levels, l =< top PROVE i \in ItemsIn(l)
      <4>1. l = top \/ l < top
        BY <3>3, <3>4, LevelsAre
      <4> QED BY <3>3, <4>1 DEF ChainInv
    <3>5. ASSUME NEW l \in Levels, i \in ItemsIn(l) PROVE l =< top
      <4>1. l \in 0 .. level - 1
        BY <2>1, <3>5
      <4>2. l = 0 \/ l \in meets
        BY <1>4, <1>5, <3>5, <4>1
      <4> QED BY <3>2, <3>3, <4>2
    <3> QED BY <3>4, <3>5
  <2> QED BY <2>2, <2>3
<1> HIDE DEF top, meets
<1>7. ASSUME NEW l \in Levels
      PROVE  /\ cut[l] \in Seq(Items) /\ Ordered(cut[l])
             /\ Members(cut[l]) = ItemsIn(l) \ {i}
             /\ i \notin ItemsIn(l) => cut[l] = chain[l]
  <2>1. CASE i \in ItemsIn(l)
    <3>1. cut[l] = RemoveAfter(chain[l], prev[l])
      BY <1>6, <2>1
    <3>2. prev[l] \in 0 .. Len(chain[l]) - 1 /\ chain[l][prev[l] + 1] = i
      BY <1>2, <2>1
    <3> QED BY <2>1, <3>1, <3>2, RemoveOrdered, ChainTypes, ItemsInIs
  <2>2. CASE i \notin ItemsIn(l)
    <3>1. cut[l] = chain[l]
      BY <1>6, <2>2
    <3> QED BY <2>2, <3>1, ChainTypes, ItemsInIs
  <2> QED BY <2>1, <2>2
<1>8. cut \in [Levels -> Seq(Items)]
  BY <1>7
<1> HIDE DEF cut
<1>9. \A l \in Levels : ItemsIn(l)' = ItemsIn(l) \ {i}
  BY <1>1, <1>7, ItemsInIs
<1>10. \A l \in Levels : l >= level => cut[l] = <<>>
  <2>1. ASSUME NEW l \in Levels, l >= level PROVE cut[l] = <<>>
    <3>1. chain[l] = <<>>
      BY <2>1 DEF ChainInv
    <3>2. i \notin ItemsIn(l)
      BY <3>1, ItemsInIs, EmptyMembers, ChainTypes
    <3> QED BY <1>7, <3>1, <3>2
  <2> QED BY <2>1
<1>11. /\ level' \in -1 .. MaxLevel
       /\ \A l \in Levels : l >= level' => cut[l] = <<>>
       /\ level' > 0 => cut[level' - 1] # <<>>
       /\ count # 0 => level' >= 0
  BY <1>1, <1>4, <1>10, LoweredIs
<1>12. \A l, m \in Levels : l < m => ItemsIn(m)' \subseteq ItemsIn(l)'
  BY <1>9 DEF ChainInv
<1>13. ChainInv'
  BY <1>1, <1>7, <1>8, <1>11, <1>12 DEF ChainInv
<1> QED BY <1>1, <1>3, <1>9, <1>11, <1>13

-----------------------------------------------------------------------------
(* The inductive invariant.                                                *)

SkipInv ==
  /\ ChainInv
  /\ IsFiniteSet(Linked)
  /\ failed \in Nat
  /\ count = Cardinality(Linked) - failed
  /\ fault \in {"none", "previous", "null"}
  /\ failed = 0 => level >= 0 /\ (level > 0 => chain[level - 1] # <<>>)

LEMMA SkipInitially == Init => SkipInv
<1> SUFFICES ASSUME Init PROVE SkipInv
  OBVIOUS
<1>1. /\ chain = [l \in Levels |-> <<>>] /\ level = 0 /\ count = 0
      /\ fault = "none" /\ failed = 0
  BY DEF Init
<1>2. \A l \in Levels : chain[l] = <<>> /\ Ordered(chain[l]) /\ ItemsIn(l) = {}
  <2>1. Ordered(<<>>) /\ {<<>>[p] : p \in 1 .. Len(<<>>)} = {}
    BY DEF Ordered
  <2> QED BY <1>1, <2>1 DEF ItemsIn
<1>3. chain \in [Levels -> Seq(Items)]
  BY <1>1
<1>4. level \in -1 .. MaxLevel
  BY <1>1, LevelsAre
<1>5. ChainInv
  BY <1>2, <1>3, <1>4 DEF ChainInv
<1>6. Linked = {}
  BY <1>2, LevelsAre DEF Linked
<1>7. IsFiniteSet(Linked) /\ Cardinality(Linked) = 0
  BY <1>6, FS_EmptySet
<1> QED BY <1>1, <1>5, <1>7 DEF SkipInv

\* The item is new, and so is its key.
LEMMA NotLinkedYet == \A i \in Items : MayInsert(i) => i \notin Linked
BY DEF MayInsert

LEMMA CardinalityOfLinked ==
  ASSUME SkipInv, NEW i, NEW S
  PROVE  /\ Cardinality(Linked) \in Nat
         /\ i \notin Linked /\ S = Linked \cup {i} =>
              IsFiniteSet(S) /\ Cardinality(S) = Cardinality(Linked) + 1
         /\ i \in Linked /\ S = Linked \ {i} =>
              IsFiniteSet(S) /\ Cardinality(S) = Cardinality(Linked) - 1
<1>1. IsFiniteSet(Linked)
  BY DEF SkipInv
<1> QED BY <1>1, FS_AddElement, FS_RemoveElement, FS_CardinalityType

LEMMA InsertDoes ==
  ASSUME SkipInv, NEW i \in Items, NEW n \in RandomLevels, Insert(i, n)
  PROVE  SkipInv' /\ i \notin Linked /\ Linked' = Linked \cup {i}
<1>1. n \in 1 .. MaxLevel /\ MaxLevel \in Nat
  BY LevelsAre, SkiplistAssumption DEF RandomLevels, Insert
<1>2. level \in Int /\ 0 =< level /\ level =< MaxLevel /\ ChainInv
  BY LevelsAre DEF SkipInv, ChainInv, Insert
<1>3. /\ level' \in 1 .. MaxLevel /\ level' >= n /\ level' >= level
      /\ level' = n \/ level' = level
  BY <1>1, <1>2 DEF Insert, Raise
<1>4. /\ ChainInv'
      /\ \A l \in Levels : l < n => ItemsIn(l)' = ItemsIn(l) \cup {i}
      /\ \A l \in Levels : ~(l < n) => ItemsIn(l)' = ItemsIn(l) /\ chain'[l] = chain[l]
  BY <1>1, <1>2, <1>3, InsertChains DEF Insert
<1>5. i \notin Linked
  BY NotLinkedYet DEF Insert
<1>6. Linked' = Linked \cup {i}
  BY <1>1, <1>4, LevelsAre DEF Linked
<1>7. IsFiniteSet(Linked') /\ count' = Cardinality(Linked') - failed
  <2>1. /\ IsFiniteSet(Linked') /\ Cardinality(Linked') = Cardinality(Linked) + 1
        /\ Cardinality(Linked) \in Nat
    BY <1>5, <1>6, CardinalityOfLinked
  <2> QED BY <2>1 DEF SkipInv, Insert
<1>8. failed = 0 => chain'[level' - 1] # <<>>
  <2>1. PICK l \in Levels : l = level' - 1
    <3>1. ASSUME NEW x \in 1 .. MaxLevel PROVE \E l \in Levels : l = x - 1
      BY <1>1 DEF Levels
    <3> QED BY <1>3, <3>1
  <2>0. l \in Nat /\ level' = l + 1
    <3>1. ASSUME NEW x \in 1 .. MaxLevel, l = x - 1 PROVE l \in Nat /\ x = l + 1
      BY <1>1, <3>1
    <3> QED BY <1>3, <2>1, <3>1
  <2>2. CASE l < n
    <3>1. ItemsIn(l)' # {} /\ chain'[l] \in Seq(Items)
      BY <1>4, <2>2, ZenonT(30) DEF ChainInv
    <3> QED BY <2>1, <3>1, ItemsInIs, EmptyMembers
  <2>3. CASE ~(l < n)
    <3>1. level' # n
      BY <1>1, <2>0, <2>3
    <3>2. level' = level
      BY <1>3, <3>1
    <3> QED BY <1>3, <1>4, <2>1, <2>3, <3>2 DEF SkipInv
  <2> QED BY <2>2, <2>3
<1>9. failed' = failed /\ fault' = fault
  BY DEF Insert
<1>10. SkipInv'
  BY <1>3, <1>4, <1>7, <1>8, <1>9 DEF SkipInv
<1> QED BY <1>5, <1>6, <1>10

LEMMA InsertNoMemoryDoes ==
  ASSUME SkipInv, NEW i \in Items, NEW n, InsertNoMemory(i, n)
  PROVE  SkipInv' /\ i \notin Linked /\ Linked' = Linked \cup {i}
<1>1. n \in 2 .. MaxLevel /\ MaxLevel \in Nat /\ 1 \in 1 .. MaxLevel
  BY LevelsAre DEF InsertNoMemory
<1>2. level \in Int /\ 0 =< level /\ level =< MaxLevel /\ ChainInv
  BY LevelsAre DEF SkipInv, ChainInv, InsertNoMemory
<1>3. level' \in -1 .. MaxLevel /\ level' >= 1 /\ level' >= level
  BY <1>1, <1>2 DEF InsertNoMemory, Raise
<1>4. ChainInv' /\ \A l \in Levels : l < 1 => ItemsIn(l)' = ItemsIn(l) \cup {i}
  BY <1>1, <1>2, <1>3, InsertChains DEF InsertNoMemory
<1>5. i \notin Linked
  BY NotLinkedYet DEF InsertNoMemory
<1>6. Linked' = Linked \cup {i}
  BY <1>4, LevelsAre DEF Linked
<1>7. failed' = failed + 1 /\ failed \in Nat /\ count' = count /\ fault' = fault
  BY DEF InsertNoMemory, SkipInv
<1>8. IsFiniteSet(Linked') /\ count' = Cardinality(Linked') - failed'
  <2>1. /\ IsFiniteSet(Linked') /\ Cardinality(Linked') = Cardinality(Linked) + 1
        /\ Cardinality(Linked) \in Nat
    BY <1>5, <1>6, CardinalityOfLinked
  <2> QED BY <1>7, <2>1 DEF SkipInv
<1>9. SkipInv'
  BY <1>4, <1>7, <1>8 DEF SkipInv
<1> QED BY <1>5, <1>6, <1>9

LEMMA DeleteNodeDoes ==
  ASSUME SkipInv, NEW i \in Items, NEW k, k = KeyOf[i], i = Candidate(Previous(k)),
         DeleteNode(Previous(k), i), UNCHANGED <<fault, failed>>
  PROVE  SkipInv' /\ i \in Linked /\ Linked' = Linked \ {i}
<1>1. /\ ChainInv' /\ i \in Linked
      /\ \A l \in Levels : ItemsIn(l)' = ItemsIn(l) \ {i}
      /\ count' = count - 1
      /\ level' > 0 => chain'[level' - 1] # <<>>
      /\ count # 0 => level' >= 0
  BY DeleteChains DEF SkipInv
<1>2. Linked' = Linked \ {i}
  BY <1>1, LevelsAre DEF Linked
<1>3. IsFiniteSet(Linked') /\ count' = Cardinality(Linked') - failed
  <2>1. /\ IsFiniteSet(Linked') /\ Cardinality(Linked') = Cardinality(Linked) - 1
        /\ Cardinality(Linked) \in Nat
    BY <1>1, <1>2, CardinalityOfLinked
  <2> QED BY <1>1, <2>1 DEF SkipInv
<1>4. failed = 0 => count # 0
  <2>1. Cardinality(Linked) # 0
    BY <1>1, FS_EmptySet DEF SkipInv
  <2> QED BY <2>1 DEF SkipInv
<1>5. SkipInv'
  BY <1>1, <1>3, <1>4 DEF SkipInv
<1> QED BY <1>1, <1>2, <1>5

LEMMA SameLinked == ASSUME UNCHANGED chain PROVE Linked' = Linked
BY DEF Linked, ItemsIn

LEMMA SameDoes ==
  ASSUME SkipInv, UNCHANGED <<chain, level, count, failed>>,
         fault' \in {"none", "previous", "null"}
  PROVE  SkipInv' /\ Linked' = Linked
<1>1. Linked' = Linked
  BY SameLinked
<1>2. ChainInv'
  <2>1. \A l : ItemsIn(l)' = ItemsIn(l)
    BY ItemsInIs
  <2> QED BY <2>1 DEF SkipInv, ChainInv
<1> QED BY <1>1, <1>2 DEF SkipInv

\* What a search comes to.
LEMMA HitIs ==
  ASSUME SkipInv, NEW k \in Keys, Hits(k)
  PROVE  LET c == Candidate(Previous(k)) IN c \in Linked /\ c \in Items /\ KeyOf[c] = k
<1> DEFINE c == Candidate(Previous(k))
<1>1. c # NoItem /\ ~Less(k, KeyOf[c])
  BY DEF Hits, Misses, PastEnd
<1>2. c \in Linked /\ c \in Items /\ ~Less(KeyOf[c], k)
  BY <1>1, CandidateIs DEF SkipInv
<1> HIDE DEF c
<1>3. KeyOf[c] = k
  BY <1>1, <1>2, KeyOfItem, KeysOrder
<1> QED BY <1>2, <1>3 DEF c

\* The calls that an iteration's body may make, and what is linked after them.
Calls ==
  \/ \E i \in Items, n \in RandomLevels :
        Insert(i, n) \/ InsertNoMemory(i, n) \/ InsertOutside(i, n)
  \/ \E i \in Items : Delete(i)
  \/ \E k \in Keys : Search(k) \/ DelKey(k) \/ SearchPastEnd(k)

IterSteps == (\E stop \in StopKeys \cup {NoKey} : IterNew(stop)) \/ IterNext \/ IterEnd

LEMMA NextCases ==
  Next <=> /\ fault = "none"
           /\ \/ Calls /\ IterBody
              \/ IterSteps /\ UNCHANGED <<chain, level, count, ret, fault, failed>>
BY DEF Next, Calls, IterSteps

LEMMA DeleteDoes ==
  ASSUME SkipInv, NEW i \in Items, Delete(i)
  PROVE  /\ SkipInv'
         /\ \/ ret' = <<FALSE>> /\ Linked' = Linked
            \/ ret' = <<TRUE>> /\ i \in Linked /\ Linked' = Linked \ {i}
<1> DEFINE k == KeyOf[i]
           found == level # 0 /\ Candidate(Previous(k)) = i
<1>1. /\ UNCHANGED <<fault, failed>> /\ ret' = <<found>>
      /\ IF found THEN DeleteNode(Previous(k), i) ELSE UNCHANGED <<chain, level, count>>
  BY DEF Delete
<1>2. CASE found
  BY <1>1, <1>2, DeleteNodeDoes
<1>3. CASE ~found
  <2>1. fault' \in {"none", "previous", "null"}
    BY <1>1 DEF SkipInv
  <2> QED BY <1>1, <1>3, <2>1, SameDoes
<1> QED BY <1>2, <1>3

LEMMA DelKeyDoes ==
  ASSUME SkipInv, NEW k \in Keys, DelKey(k)
  PROVE  /\ SkipInv'
         /\ \/ Misses(k) /\ ret' = <<k, NoItem>> /\ Linked' = Linked
            \/ \E i \in Linked : /\ i \in Items /\ KeyOf[i] = k
                                 /\ ret' = <<k, i>> /\ Linked' = Linked \ {i}
<1>1. UNCHANGED <<fault, failed>>
  BY DEF DelKey
<1>2. CASE Misses(k) /\ ret' = <<k, NoItem>> /\ UNCHANGED <<chain, level, count>>
  <2>1. fault' \in {"none", "previous", "null"}
    BY <1>1 DEF SkipInv
  <2> QED BY <1>1, <1>2, <2>1, SameDoes
<1>3. CASE /\ Hits(k) /\ ret' = <<k, Candidate(Previous(k))>>
           /\ DeleteNode(Previous(k), Candidate(Previous(k)))
  <2> DEFINE c == Candidate(Previous(k))
  <2>1. c \in Linked /\ c \in Items /\ KeyOf[c] = k
    BY <1>3, HitIs
  <2>2. SkipInv' /\ Linked' = Linked \ {c}
    BY <1>1, <1>3, <2>1, DeleteNodeDoes
  <2> HIDE DEF c
  <2>3. ret' = <<k, c>>
    BY <1>3 DEF c
  <2> QED BY <2>1, <2>2, <2>3
<1> QED BY <1>2, <1>3 DEF DelKey

LEMMA CallStep == SkipInv /\ Calls => SkipInv'
<1> SUFFICES ASSUME SkipInv, Calls PROVE SkipInv'
  OBVIOUS
<1>1. ASSUME NEW i \in Items, NEW n \in RandomLevels,
             Insert(i, n) \/ InsertNoMemory(i, n) \/ InsertOutside(i, n)
      PROVE  SkipInv'
  <2>1. CASE InsertOutside(i, n)
    <3>1. UNCHANGED <<chain, level, count, failed>> /\ fault' = "previous"
      BY <2>1 DEF InsertOutside
    <3> QED BY <3>1, SameDoes
  <2> QED BY <1>1, <2>1, InsertDoes, InsertNoMemoryDoes
<1>2. ASSUME NEW k \in Keys, Search(k) \/ SearchPastEnd(k) PROVE SkipInv'
  <2>1. /\ UNCHANGED <<chain, level, count, failed>>
        /\ fault' \in {"none", "previous", "null"}
    BY <1>2 DEF Search, SearchPastEnd, SkipInv
  <2> QED BY <2>1, SameDoes
<1>3. ASSUME NEW k \in Keys, DelKey(k) PROVE SkipInv'
  BY <1>3, DelKeyDoes
<1>4. ASSUME NEW i \in Items, Delete(i) PROVE SkipInv'
  BY <1>4, DeleteDoes
<1> QED BY <1>1, <1>2, <1>3, <1>4 DEF Calls

LEMMA SkipStep == SkipInv /\ [Next]_vars => SkipInv'
<1> SUFFICES ASSUME SkipInv, [Next]_vars PROVE SkipInv'
  OBVIOUS
<1>1. CASE Calls
  BY <1>1, CallStep
<1>2. CASE UNCHANGED <<chain, level, count, ret, fault, failed>>
  <2>1. fault' \in {"none", "previous", "null"}
    BY <1>2 DEF SkipInv
  <2> QED BY <1>2, <2>1, SameDoes
<1> QED BY <1>1, <1>2, NextCases DEF vars

LEMMA SkipInvImplies == SkipInv => TypeOK /\ Sorted /\ Nested
<1> SUFFICES ASSUME SkipInv PROVE TypeOK /\ Sorted /\ Nested
  OBVIOUS
<1>1. TypeOK
  BY DEF SkipInv, ChainInv, TypeOK
<1>2. Sorted
  <2>1. ASSUME NEW l \in Levels, NEW p \in 1 .. Len(chain[l]) - 1
        PROVE  Before(KeyOf[chain[l][p]], KeyOf[chain[l][p + 1]])
    <3>1. Ordered(chain[l]) /\ Len(chain[l]) \in Nat
      BY ChainTypes DEF SkipInv
    <3>2. p \in 1 .. Len(chain[l]) /\ p + 1 \in 1 .. Len(chain[l]) /\ p < p + 1
      BY <3>1
    <3> QED BY <3>1, <3>2 DEF Ordered
  <2> QED BY <2>1 DEF Sorted
<1>3. Nested
  <2>1. ASSUME NEW l \in Levels \ {0} PROVE ItemsIn(l) \subseteq ItemsIn(l - 1)
    <3>1. l - 1 \in Levels /\ l - 1 < l
      BY LevelsAre DEF Levels
    <3> QED BY <3>1 DEF SkipInv, ChainInv
  <2> QED BY <2>1 DEF SkipInv, ChainInv, Nested
<1> QED BY <1>1, <1>2, <1>3

\* The chains hold items only, and count is what is linked but for the items whose
\* insert failed, after any calls: insert, delete, search, del_key and iterations.
THEOREM TypeTheorem == Spec => []TypeOK
<1>1. SkipInv => TypeOK
  BY SkipInvImplies
<1> QED BY <1>1, SkipInitially, SkipStep, PTL DEF Spec

\* Every level stays in the order of the keys, the express levels drawn at random
\* included, so that get_previous() may skip along them.
THEOREM SortedTheorem == Spec => []Sorted
<1>1. SkipInv => Sorted
  BY SkipInvImplies
<1> QED BY <1>1, SkipInitially, SkipStep, PTL DEF Spec

\* delete_node() leaves no express node behind, and skiplist->level is always the
\* highest level in use, unless an insert failed after raising it.
THEOREM NestedTheorem == Spec => []Nested
<1>1. SkipInv => Nested
  BY SkipInvImplies
<1> QED BY <1>1, SkipInitially, SkipStep, PTL DEF Spec

-----------------------------------------------------------------------------
(* The faults.                                                             *)

FaultInv ==
  /\ fault = "previous" => failed > 0
  /\ fault = "null" => \E k \in Keys : \A i \in Linked : Less(KeyOf[i], k)

\* Only an insert that failed leads outside previous[], and only a search for a
\* key behind the last item to NULL.  The hypotheses are needed: with max_level 1
\* random_level() exceeds it, and with key_reverse an equal key is Less.
THEOREM FaultTheorem ==
  ASSUME ~KeyReverse, MaxLevel > 1
  PROVE  Spec => []FaultsOnlyPastEnd
<1>1. Init => SkipInv /\ FaultInv
  BY SkipInitially DEF Init, FaultInv
<1>2. SkipInv /\ FaultInv /\ [Next]_vars => FaultInv'
  <2> SUFFICES ASSUME SkipInv, FaultInv, [Next]_vars PROVE FaultInv'
    OBVIOUS
  <2>1. ASSUME fault = "none", NEW i \in Items, NEW n \in RandomLevels, InsertOutside(i, n)
        PROVE  FaultInv'
    <3>1. n =< MaxLevel /\ n \in Int /\ MaxLevel \in Int
      BY LevelsAre, SkiplistAssumption DEF RandomLevels
    <3>2. level < 0
      BY <2>1, <3>1 DEF InsertOutside
    <3>3. failed # 0 /\ failed \in Nat
      BY <3>2 DEF SkipInv, ChainInv
    <3>4. failed' = failed /\ fault' = "previous"
      BY <2>1 DEF InsertOutside
    <3> QED BY <3>3, <3>4 DEF FaultInv
  <2>2. ASSUME fault = "none", NEW k \in Keys, SearchPastEnd(k) PROVE FaultInv'
    <3>1. \A i \in Linked : Less(KeyOf[i], k)
      BY <2>2, CandidateIs DEF SearchPastEnd, PastEnd, SkipInv
    <3>2. Linked' = Linked /\ fault' = "null"
      BY <2>2, SameLinked DEF SearchPastEnd
    <3>3. \E key \in Keys : \A i \in Linked' : Less(KeyOf[i], key)
      BY <3>1, <3>2
    <3> QED BY <3>2, <3>3 DEF FaultInv
  <2>3. CASE fault' = "none"
    BY <2>3 DEF FaultInv
  <2>4. CASE UNCHANGED <<chain, fault, failed>>
    <3>1. Linked' = Linked
      BY <2>4, SameLinked
    <3> QED BY <2>4, <3>1 DEF FaultInv
  <2>5. ASSUME fault = "none", NEW i \in Items, NEW n \in RandomLevels,
               Insert(i, n) \/ InsertNoMemory(i, n)
        PROVE  fault' = "none"
    BY <2>5 DEF Insert, InsertNoMemory
  <2>6. ASSUME fault = "none", NEW i \in Items, Delete(i) PROVE fault' = "none"
    BY <2>6 DEF Delete
  <2>7. ASSUME fault = "none", NEW k \in Keys, Search(k) \/ DelKey(k) PROVE fault' = "none"
    BY <2>7 DEF Search, DelKey
  <2> QED BY <2>1, <2>2, <2>3, <2>4, <2>5, <2>6, <2>7, NextCases DEF Calls, vars
<1>3. SkipInv /\ FaultInv => FaultsOnlyPastEnd
  <2>1. \A a, b : Less(a, b) <=> Before(a, b)
    BY DEF Less, Before
  <2> QED BY <2>1 DEF FaultInv, FaultsOnlyPastEnd
<1> QED BY <1>1, <1>2, <1>3, SkipStep, PTL DEF Spec

-----------------------------------------------------------------------------
(* The iterations.                                                         *)

\* What comes next, and first.
LEMMA AfterIs ==
  ASSUME SkipInv, NEW i \in Linked
  PROVE  /\ After(i) \in Linked \cup {NoItem}
         /\ After(i) # NoItem => Before(KeyOf[i], KeyOf[After(i)])
         /\ \A j \in Linked : Before(KeyOf[i], KeyOf[j]) =>
              /\ After(i) # NoItem
              /\ j = After(i) \/ Before(KeyOf[After(i)], KeyOf[j])
<1> DEFINE c == chain[0]
           p == CHOOSE q \in 1 .. Len(c) : c[q] = i
           a == After(i)
<1>1. /\ Linked = {c[q] : q \in 1 .. Len(c)} /\ Len(c) \in Nat /\ Ordered(c)
      /\ \A q \in 1 .. Len(c) : c[q] \in Items /\ c[q] # NoItem /\ KeyOf[c[q]] \in Keys
  BY LevelsAre, ChainTypes, KeyOfItem DEF SkipInv, Linked, ItemsIn
<1>2. a = IF p < Len(c) THEN c[p + 1] ELSE NoItem
  BY DEF After
<1> HIDE DEF a, c
<1>3. p \in 1 .. Len(c) /\ c[p] = i
  BY <1>1
<1> HIDE DEF p
<1>4. ASSUME NEW j \in Linked, Before(KeyOf[i], KeyOf[j])
      PROVE  a # NoItem /\ (j = a \/ Before(KeyOf[a], KeyOf[j]))
  <2>1. PICK q \in 1 .. Len(c) : c[q] = j
    BY <1>1
  <2>2. ~(q =< p)
    <3>1. ~Before(KeyOf[j], KeyOf[i]) /\ j # i
      BY <1>1, <1>3, <1>4, <2>1, KeysOrder
    <3> QED BY <1>1, <1>3, <2>1, <3>1 DEF Ordered
  <2>3. p < Len(c) /\ p + 1 \in 1 .. Len(c) /\ (q = p + 1 \/ p + 1 < q)
    BY <1>1, <1>3, <2>1, <2>2
  <2> QED BY <1>1, <1>2, <2>1, <2>3 DEF Ordered
<1>5. a \in Linked \cup {NoItem} /\ (a # NoItem => Before(KeyOf[i], KeyOf[a]))
  <2>1. CASE p < Len(c)
    <3>1. p + 1 \in 1 .. Len(c) /\ p < p + 1
      BY <1>1, <1>3, <2>1
    <3> QED BY <1>1, <1>2, <1>3, <2>1, <3>1 DEF Ordered
  <2> QED BY <1>2, <2>1
<1> QED BY <1>4, <1>5 DEF a

LEMMA FirstIs ==
  ASSUME SkipInv
  PROVE  /\ First \in Linked \cup {NoItem}
         /\ \A j \in Linked : /\ First # NoItem
                              /\ j = First \/ Before(KeyOf[First], KeyOf[j])
<1> DEFINE c == chain[0]
<1>1. /\ Linked = {c[q] : q \in 1 .. Len(c)} /\ Len(c) \in Nat /\ Ordered(c)
      /\ c \in Seq(Items) /\ \A q \in 1 .. Len(c) : c[q] # NoItem
  BY LevelsAre, ChainTypes, KeyOfItem DEF SkipInv, Linked, ItemsIn
<1>2. First = IF c = <<>> THEN NoItem ELSE c[1]
  BY DEF First
<1> HIDE DEF c
<1>3. CASE c = <<>>
  <2>1. Linked = {}
    BY <1>1, <1>3
  <2> QED BY <1>2, <1>3, <2>1
<1>4. CASE c # <<>>
  <2>1. 1 \in 1 .. Len(c)
    BY <1>1, <1>4
  <2>2. ASSUME NEW j \in Linked PROVE j = c[1] \/ Before(KeyOf[c[1]], KeyOf[j])
    <3>1. PICK q \in 1 .. Len(c) : c[q] = j
      BY <1>1
    <3>2. q = 1 \/ 1 < q
      BY <1>1, <3>1
    <3> QED BY <1>1, <2>1, <3>1, <3>2 DEF Ordered
  <2> QED BY <1>1, <1>2, <1>4, <2>1, <2>2
<1> QED BY <1>3, <1>4

\* An iteration: next is linked, behind last, and before all that are due but itself.
Iterates(it) ==
  /\ it.next \in Linked \cup {NoItem}
  /\ it.stop \in StopKeys \cup {NoKey}
  /\ it.last \in Items \cup {NoItem}
  /\ it.last # NoItem /\ it.next # NoItem => Before(KeyOf[it.last], KeyOf[it.next])
  /\ it.due \subseteq Linked
  /\ \A j \in it.due : /\ it.next # NoItem
                       /\ j = it.next \/ Before(KeyOf[it.next], KeyOf[j])

IsIter(it) == it = [next |-> it.next, stop |-> it.stop, last |-> it.last, due |-> it.due]

IterInv == iter # NoIter => IsIter(iter) /\ Iterates(iter)

LEMMA IterAdvance ==
  ASSUME SkipInv, IterInv, IterNext, UNCHANGED chain
  PROVE  IterInv'
<1> DEFINE i == iter.next
           it == [next |-> After(i), stop |-> iter.stop, last |-> i, due |-> iter.due \ {i}]
<1>1. IsIter(iter) /\ Iterates(iter) /\ i # NoItem
  BY DEF IterInv, IterNext, Stops
<1>2. iter' = it
  <2> DEFINE n == iter.next
             s == iter.stop
             l == iter.last
             d == iter.due
  <2>1. iter = [next |-> n, stop |-> s, last |-> l, due |-> d]
    BY <1>1 DEF IsIter
  <2>2. iter' = [iter EXCEPT !.next = After(n), !.last = n, !.due = d \ {n}]
    BY DEF IterNext
  <2> HIDE DEF n, s, l, d
  <2>3. iter' = [next |-> After(n), stop |-> s, last |-> n, due |-> d \ {n}]
    BY <2>1, <2>2
  <2> QED BY <2>3 DEF n, s, l, d
<1>3. i \in Linked /\ i \in Items
  <2>1. i \in Linked
    BY <1>1 DEF Iterates
  <2> QED BY <2>1, ChainTypes, LevelsAre DEF SkipInv, Linked, ItemsIn
<1>4. Iterates(it)
  <2>1. /\ After(i) \in Linked \cup {NoItem}
        /\ After(i) # NoItem => Before(KeyOf[i], KeyOf[After(i)])
        /\ \A j \in Linked : Before(KeyOf[i], KeyOf[j]) =>
             /\ After(i) # NoItem
             /\ j = After(i) \/ Before(KeyOf[After(i)], KeyOf[j])
    BY <1>3, AfterIs
  <2>2. /\ iter.due \subseteq Linked /\ iter.stop \in StopKeys \cup {NoKey}
        /\ \A j \in iter.due \ {i} : Before(KeyOf[i], KeyOf[j])
    BY <1>1 DEF Iterates
  <2>3. it.next = After(i) /\ it.stop = iter.stop /\ it.last = i /\ it.due = iter.due \ {i}
    OBVIOUS
  <2> HIDE DEF i, it
  <2>4. \A j \in it.due : j \in Linked /\ Before(KeyOf[i], KeyOf[j])
    BY <2>2, <2>3
  <2> QED BY <1>3, <2>1, <2>2, <2>3, <2>4 DEF Iterates
<1>5. IsIter(it)
  BY DEF IsIter
<1>6. Linked' = Linked
  BY SameLinked
<1> HIDE DEF it
<1>7. IsIter(iter') /\ Iterates(iter)'
  BY <1>2, <1>4, <1>5, <1>6 DEF Iterates
<1> QED BY <1>7 DEF IterInv, IsIter

LEMMA IterAtBody == ASSUME IterInv, IterBody PROVE IterInv'
<1>1. CASE iter = NoIter
  BY <1>1 DEF IterBody, IterInv
<1>2. CASE iter # NoIter
  <2> DEFINE n == iter.next
             s == iter.stop
             l == iter.last
             d == iter.due
             it == [next |-> n, stop |-> s, last |-> l, due |-> d \cap Linked']
  <2>1. IsIter(iter) /\ Iterates(iter)
    BY <1>2 DEF IterInv
  <2>2. iter = [next |-> n, stop |-> s, last |-> l, due |-> d]
    BY <2>1 DEF IsIter
  <2>3. iter' = [iter EXCEPT !.due = d \cap Linked'] /\ n \in Linked' \cup {NoItem}
    BY <1>2 DEF IterBody
  <2> HIDE DEF n, s, l, d
  <2>4. iter' = it
    BY <2>2, <2>3
  <2>5. it.next = n /\ it.stop = s /\ it.last = l /\ it.due = d \cap Linked'
    OBVIOUS
  <2>6. IsIter(it)
    BY DEF IsIter
  <2> HIDE DEF it
  <2>7. IsIter(iter')
    BY <2>4, <2>6
  <2>8. Iterates(iter)'
    BY <2>1, <2>3, <2>4, <2>5 DEF Iterates, n, s, l, d
  <2> QED BY <2>7, <2>8 DEF IterInv, IsIter
<1> QED BY <1>1, <1>2

LEMMA IterStep == SkipInv /\ IterInv /\ [Next]_vars => IterInv'
<1> SUFFICES ASSUME SkipInv, IterInv, [Next]_vars PROVE IterInv'
  OBVIOUS
<1>1. CASE IterBody
  BY <1>1, IterAtBody
<1>2. ASSUME UNCHANGED chain, IterNext PROVE IterInv'
  BY <1>2, IterAdvance
<1>3. ASSUME UNCHANGED chain, IterEnd PROVE IterInv'
  BY <1>3 DEF IterEnd, IterInv
<1>4. ASSUME UNCHANGED chain, NEW stop \in StopKeys \cup {NoKey}, IterNew(stop) PROVE IterInv'
  <2> DEFINE it == [next |-> First, stop |-> stop, last |-> NoItem, due |-> Linked]
  <2>1. iter' = it
    BY <1>4 DEF IterNew
  <2>2. it.next = First /\ it.stop = stop /\ it.last = NoItem /\ it.due = Linked
    OBVIOUS
  <2>3. IsIter(it)
    BY DEF IsIter
  <2> HIDE DEF it
  <2>4. Iterates(it)
    BY <2>2, FirstIs DEF Iterates
  <2>5. Linked' = Linked
    BY <1>4, SameLinked
  <2>6. IsIter(iter') /\ Iterates(iter)'
    BY <2>1, <2>3, <2>4, <2>5 DEF Iterates
  <2> QED BY <2>6 DEF IterInv, IsIter
<1>5. CASE UNCHANGED vars
  <2>1. Linked' = Linked /\ iter' = iter
    BY <1>5, SameLinked DEF vars
  <2> QED BY <2>1 DEF IterInv, Iterates, IsIter
<1> QED BY <1>1, <1>2, <1>3, <1>4, <1>5, NextCases DEF IterSteps

\* Whatever the body inserts, deletes and searches, an iteration goes up the keys
\* and passes over nothing that is linked all the time before its end or its stop.
THEOREM IterTheorem == Spec => IterInOrder
<1>1. Init => SkipInv /\ IterInv
  BY SkipInitially DEF Init, IterInv
<1>2. SkipInv /\ IterInv =>
        /\ IterNext => iter.last = NoItem \/ Before(KeyOf[iter.last], KeyOf[iter.next])
        /\ IterEnd => \A i \in iter.due : iter.stop # NoKey /\ ~Before(KeyOf[i], iter.stop)
  <2> SUFFICES ASSUME SkipInv, IterInv
               PROVE  /\ IterNext => iter.last = NoItem \/ Before(KeyOf[iter.last], KeyOf[iter.next])
                      /\ IterEnd => \A i \in iter.due :
                                      iter.stop # NoKey /\ ~Before(KeyOf[i], iter.stop)
    OBVIOUS
  <2>1. ASSUME IterNext PROVE iter.last = NoItem \/ Before(KeyOf[iter.last], KeyOf[iter.next])
    BY <2>1 DEF IterNext, Stops, IterInv, Iterates
  <2>2. ASSUME IterEnd, NEW i \in iter.due
        PROVE  iter.stop # NoKey /\ ~Before(KeyOf[i], iter.stop)
    <3>1. /\ iter.next # NoItem /\ iter.next \in Linked /\ i \in Linked
          /\ i = iter.next \/ Before(KeyOf[iter.next], KeyOf[i])
          /\ iter.stop \in StopKeys \cup {NoKey}
      BY <2>2 DEF IterEnd, IterInv, Iterates
    <3>2. iter.stop # NoKey /\ ~Less(KeyOf[iter.next], iter.stop)
      BY <2>2, <3>1 DEF IterEnd, Stops
    <3>3. KeyOf[iter.next] \in Keys /\ KeyOf[i] \in Keys /\ iter.stop \in Keys
      <4>1. \A j \in Linked : KeyOf[j] \in Keys
        BY ChainTypes, LevelsAre DEF SkipInv, Linked, ItemsIn
      <4> QED BY <3>1, <3>2, <4>1, SkiplistAssumption
    <3> QED BY <3>1, <3>2, <3>3, KeysOrder
  <2> QED BY <2>1, <2>2
<1> QED BY <1>1, <1>2, IterStep, SkipStep, PTL DEF Spec, IterInOrder

-----------------------------------------------------------------------------
(* The map.                                                                *)

\* What a caller learns from a search that finds nothing, if the order is strict.
LEMMA MissIs ==
  ASSUME ~KeyReverse, SkipInv, NEW k \in Keys, Misses(k)
  PROVE  \A i \in Linked : KeyOf[i] # k
<1>1. ASSUME level = 0 PROVE Linked = {}
  <2>1. chain[0] = <<>>
    BY <1>1, LevelsAre DEF SkipInv, ChainInv
  <2> QED BY <2>1 DEF Linked, ItemsIn
<1>2. ASSUME level # 0, NEW i \in Linked PROVE KeyOf[i] # k
  <2> DEFINE c == Candidate(Previous(k))
  <2>1. c # NoItem /\ Less(k, KeyOf[c])
    BY <1>2 DEF Misses
  <2>2. c \in Items /\ (i = c \/ Less(KeyOf[i], k) \/ Before(KeyOf[c], KeyOf[i]))
    BY <2>1, CandidateIs DEF SkipInv
  <2>3. KeyOf[i] \in Keys
    BY ChainTypes, LevelsAre DEF SkipInv, Linked, ItemsIn
  <2> HIDE DEF c
  <2>4. KeyOf[c] \in Keys
    BY <2>2, KeyOfItem
  <2>5. \A a, b \in Keys : a \in Int /\ (Less(a, b) <=> a < b) /\ (Before(a, b) <=> a < b)
    BY SkiplistAssumption DEF Less, Before
  <2>6. KeyOf[i] = KeyOf[c] \/ KeyOf[i] < k \/ KeyOf[c] < KeyOf[i]
    BY <2>2, <2>3, <2>4, <2>5
  <2>7. k < KeyOf[c] /\ k \in Int /\ KeyOf[c] \in Int /\ KeyOf[i] \in Int
    BY <2>1, <2>3, <2>4, <2>5
  <2> QED BY <2>6, <2>7
<1> QED BY <1>1, <1>2

LEMMA MapStep == ASSUME ~KeyReverse PROVE SkipInv /\ [Next]_vars => [Map!MapNext]_(Map!mapVars)
<1> SUFFICES ASSUME SkipInv, [Next]_vars PROVE [Map!MapNext]_(Map!mapVars)
  OBVIOUS
<1> DEFINE r == IF Len(ret) = 2 THEN ret ELSE <<>>
<1>1. /\ \A b : ret' = <<b>> => r' = <<>>
      /\ \A k, i : ret' = <<k, i>> => r' = <<k, i>>
  OBVIOUS
<1> HIDE DEF r
<1>2. ASSUME NEW i \in Items, NEW n \in RandomLevels, Insert(i, n) \/ InsertNoMemory(i, n)
      PROVE  Map!MapAdd(i)
  <2>1. i \notin Linked /\ Linked' = Linked \cup {i}
    BY <1>2, InsertDoes, InsertNoMemoryDoes
  <2>2. r' = <<>>
    BY <1>1, <1>2 DEF Insert, InsertNoMemory
  <2> QED BY <2>1, <2>2 DEF Map!MapAdd, r
<1>3. ASSUME NEW i \in Items, Delete(i) PROVE Map!MapDelete(i) \/ Map!MapNothing
  <2>1. \/ ret' = <<FALSE>> /\ Linked' = Linked
        \/ ret' = <<TRUE>> /\ i \in Linked /\ Linked' = Linked \ {i}
    BY <1>3, DeleteDoes
  <2>2. r' = <<>>
    BY <1>1, <2>1
  <2> QED BY <2>1, <2>2 DEF Map!MapDelete, Map!MapNothing, r
<1>4. ASSUME NEW k \in Keys, Search(k) PROVE Map!MapGet(k)
  <2>1. Linked' = Linked
    BY <1>4, SameLinked DEF Search
  <2>2. CASE Misses(k) /\ ret' = <<k, NoItem>>
    <3>1. r' = <<k, NoItem>> /\ \A i \in Linked : KeyOf[i] # k
      BY <1>1, <2>2, MissIs
    <3> QED BY <2>1, <3>1 DEF Map!MapGet, Map!WithKey, r
  <2>3. CASE Hits(k) /\ ret' = <<k, Candidate(Previous(k))>>
    <3> DEFINE c == Candidate(Previous(k))
    <3>1. c \in Linked /\ KeyOf[c] = k
      BY <2>3, HitIs
    <3> HIDE DEF c
    <3>2. ret' = <<k, c>>
      BY <2>3 DEF c
    <3>3. r' = <<k, c>>
      BY <1>1, <3>2
    <3> QED BY <2>1, <3>1, <3>3 DEF Map!MapGet, Map!WithKey, r
  <2> QED BY <1>4, <2>2, <2>3 DEF Search
<1>5. ASSUME NEW k \in Keys, DelKey(k) PROVE Map!MapDelKey(k)
  <2>1. CASE Misses(k) /\ ret' = <<k, NoItem>> /\ Linked' = Linked
    <3>1. r' = <<k, NoItem>> /\ \A i \in Linked : KeyOf[i] # k
      BY <1>1, <2>1, MissIs
    <3> QED BY <2>1, <3>1 DEF Map!MapDelKey, Map!WithKey, r
  <2>2. ASSUME NEW i \in Linked, KeyOf[i] = k, ret' = <<k, i>>, Linked' = Linked \ {i}
        PROVE  Map!MapDelKey(k)
    <3>1. r' = <<k, i>>
      BY <1>1, <2>2
    <3> QED BY <2>2, <3>1 DEF Map!MapDelKey, Map!WithKey, r
  <2> QED BY <1>5, <2>1, <2>2, DelKeyDoes
<1>6. CASE UNCHANGED <<chain, ret>>
  <2>1. Linked' = Linked /\ r' = r
    BY <1>6, SameLinked DEF r
  <2> QED BY <2>1 DEF Map!mapVars, r
<1>7. ASSUME NEW i \in Items, NEW n \in RandomLevels, InsertOutside(i, n)
      PROVE  UNCHANGED <<chain, ret>>
  BY <1>7 DEF InsertOutside
<1>8. ASSUME NEW k \in Keys, SearchPastEnd(k) PROVE UNCHANGED <<chain, ret>>
  BY <1>8 DEF SearchPastEnd
<1> QED BY <1>2, <1>3, <1>4, <1>5, <1>6, <1>7, <1>8, NextCases DEF Calls, vars, Map!MapNext

\* Insert, search, delete and del_key are those of a bag of items found by key,
\* whatever levels are drawn; an insert that runs out of memory adds its item too.
\* The hypothesis is needed: with key_reverse a search for a key that is there
\* comes to the item behind it.
THEOREM MapTheorem == ASSUME ~KeyReverse PROVE Spec => IsMap
<1>1. Init => Map!MapInit
  <2>1. Init => chain[0] = <<>> /\ ret = <<>>
    BY LevelsAre DEF Init
  <2>2. chain[0] = <<>> => Linked = {}
    BY DEF Linked, ItemsIn
  <2> QED BY <2>1, <2>2 DEF Map!MapInit
<1> QED BY <1>1, SkipInitially, SkipStep, MapStep, PTL DEF Spec, IsMap, Map!MapSpec
=============================================================================
