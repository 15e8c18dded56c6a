----------------------------- MODULE ListProofs ------------------------------
(***************************************************************************)
(* The five kinds of lists lead through their nodes, and an iteration that *)
(* allows deletion meets all that stay, for any number of lists and nodes. *)
(* The first parts speak of sequences and of functions on addresses; the   *)
(* later ones relate them to the steps of each kind of list.               *)
(***************************************************************************)
EXTENDS MCLists, TLAPS

-----------------------------------------------------------------------------
(* A sequence into which an element is put, or out of which one is taken.  *)

IsPut(t, s, k, n) ==
  /\ Len(t) = Len(s) + 1
  /\ \A i \in 1 .. Len(t) : t[i] = IF i < k THEN s[i] ELSE IF i = k THEN n ELSE s[i - 1]

IsTaken(t, s, k) ==
  /\ Len(t) = Len(s) - 1
  /\ \A i \in 1 .. Len(t) : t[i] = IF i < k THEN s[i] ELSE s[i + 1]

LEMMA PartIs ==
  ASSUME NEW S, NEW s \in Seq(S), NEW a \in Nat \ {0}, NEW b \in Nat, b =< Len(s), a =< b + 1
  PROVE  /\ SubSeq(s, a, b) \in Seq(S) /\ Len(SubSeq(s, a, b)) = b - a + 1
         /\ \A i \in 1 .. b - a + 1 : SubSeq(s, a, b)[i] = s[a + i - 1]
OBVIOUS

LEMMA JoinIs ==
  ASSUME NEW S, NEW s \in Seq(S), NEW t \in Seq(S)
  PROVE  /\ s \o t \in Seq(S) /\ Len(s \o t) = Len(s) + Len(t)
         /\ \A i \in 1 .. Len(s) + Len(t) : (s \o t)[i] = IF i =< Len(s) THEN s[i] ELSE t[i - Len(s)]
OBVIOUS

LEMMA PutIs ==
  ASSUME NEW S, NEW s \in Seq(S), NEW n \in S, NEW k \in 1 .. Len(s) + 1
  PROVE  LET t == SubSeq(s, 1, k - 1) \o <<n>> \o SubSeq(s, k, Len(s))
         IN  t \in Seq(S) /\ IsPut(t, s, k, n)
<1> DEFINE a == SubSeq(s, 1, k - 1)
           c == SubSeq(s, k, Len(s))
           b == a \o <<n>>
           t == b \o c
<1>1. k - 1 \in Nat /\ k - 1 =< Len(s) /\ k \in Nat \ {0} /\ Len(s) \in Nat /\ k - 1 - 1 + 1 = k - 1
  OBVIOUS
<1>2. a \in Seq(S) /\ Len(a) = k - 1 /\ \A i \in 1 .. k - 1 : a[i] = s[i]
  <2>1. /\ a \in Seq(S) /\ Len(a) = k - 1 - 1 + 1
        /\ \A i \in 1 .. k - 1 - 1 + 1 : a[i] = s[1 + i - 1]
    BY <1>1, PartIs
  <2>2. \A i \in 1 .. k - 1 : 1 + i - 1 = i
    OBVIOUS
  <2> HIDE DEF a
  <2> QED BY <1>1, <2>1, <2>2
<1>3. c \in Seq(S) /\ Len(c) = Len(s) - k + 1 /\ \A i \in 1 .. Len(s) - k + 1 : c[i] = s[k + i - 1]
  BY <1>1, PartIs
<1>4. <<n>> \in Seq(S) /\ Len(<<n>>) = 1 /\ <<n>>[1] = n
  OBVIOUS
<1> DEFINE o == <<n>>
<1> HIDE DEF a, c, o
<1>5. /\ b \in Seq(S) /\ Len(b) = k
      /\ \A i \in 1 .. k : b[i] = IF i =< k - 1 THEN a[i] ELSE o[i - (k - 1)]
  BY <1>1, <1>2, <1>4, JoinIs DEF o
<1> HIDE DEF b
<1>6. /\ t \in Seq(S) /\ Len(t) = k + (Len(s) - k + 1)
      /\ \A i \in 1 .. k + (Len(s) - k + 1) : t[i] = IF i =< k THEN b[i] ELSE c[i - k]
  BY <1>3, <1>5, JoinIs
<1> HIDE DEF t
<1>7. Len(t) = Len(s) + 1 /\ k + (Len(s) - k + 1) = Len(s) + 1
  BY <1>1, <1>6
<1>8. ASSUME NEW i \in 1 .. Len(t)
      PROVE  t[i] = IF i < k THEN s[i] ELSE IF i = k THEN n ELSE s[i - 1]
  <2>1. CASE i < k
    BY <1>1, <1>2, <1>5, <1>6, <1>7, <2>1, SMTT(30)
  <2>2. CASE i = k
    <3>1. k \in 1 .. k /\ ~(k =< k - 1) /\ k - (k - 1) = 1
      BY <1>1
    <3>2. b[k] = o[1]
      BY <1>5, <3>1
    <3>3. i \in 1 .. k + (Len(s) - k + 1) /\ i =< k
      BY <1>1, <1>7, <2>2
    <3>4. t[i] = b[i]
      BY <1>6, <3>3
    <3> QED BY <1>4, <2>2, <3>2, <3>4 DEF o
  <2>3. CASE i > k
    <3>1. t[i] = c[i - k] /\ i - k \in 1 .. Len(s) - k + 1 /\ k + (i - k) - 1 = i - 1
      BY <1>1, <1>6, <1>7, <2>3
    <3>2. t[i] = s[i - 1]
      BY <1>3, <3>1
    <3>3. ~(i < k) /\ i # k
      BY <1>1, <1>7, <2>3
    <3> QED BY <3>2, <3>3
  <2>4. i < k \/ i = k \/ i > k
    BY <1>1, <1>7
  <2> QED BY <2>1, <2>2, <2>3, <2>4
<1> QED BY <1>6, <1>7, <1>8 DEF IsPut, t, b, a, c, o

LEMMA TakenIs ==
  ASSUME NEW S, NEW s \in Seq(S), NEW k \in 1 .. Len(s)
  PROVE  LET t == SubSeq(s, 1, k - 1) \o SubSeq(s, k + 1, Len(s))
         IN  t \in Seq(S) /\ IsTaken(t, s, k)
<1> DEFINE a == SubSeq(s, 1, k - 1)
           c == SubSeq(s, k + 1, Len(s))
           t == a \o c
<1>1. /\ k - 1 \in Nat /\ k - 1 =< Len(s) /\ k + 1 \in Nat \ {0} /\ Len(s) \in Nat
      /\ k + 1 =< Len(s) + 1 /\ k - 1 - 1 + 1 = k - 1
  OBVIOUS
<1>2. a \in Seq(S) /\ Len(a) = k - 1 /\ \A i \in 1 .. k - 1 : a[i] = s[i]
  <2>1. /\ a \in Seq(S) /\ Len(a) = k - 1 - 1 + 1
        /\ \A i \in 1 .. k - 1 - 1 + 1 : a[i] = s[1 + i - 1]
    BY <1>1, PartIs
  <2>2. \A i \in 1 .. k - 1 : 1 + i - 1 = i
    OBVIOUS
  <2> HIDE DEF a
  <2> QED BY <1>1, <2>1, <2>2
<1>3. /\ c \in Seq(S) /\ Len(c) = Len(s) - (k + 1) + 1
      /\ \A i \in 1 .. Len(s) - (k + 1) + 1 : c[i] = s[k + 1 + i - 1]
  BY <1>1, PartIs
<1> HIDE DEF a, c
<1>4. /\ t \in Seq(S) /\ Len(t) = k - 1 + (Len(s) - (k + 1) + 1)
      /\ \A i \in 1 .. k - 1 + (Len(s) - (k + 1) + 1) : t[i] = IF i =< k - 1 THEN a[i] ELSE c[i - (k - 1)]
  <2>1. /\ t \in Seq(S) /\ Len(t) = Len(a) + Len(c)
        /\ \A i \in 1 .. Len(a) + Len(c) : t[i] = IF i =< Len(a) THEN a[i] ELSE c[i - Len(a)]
    BY <1>2, <1>3, JoinIs
  <2> HIDE DEF t
  <2> QED BY <1>2, <1>3, <2>1
<1> HIDE DEF t
<1>5. Len(t) = Len(s) - 1 /\ k - 1 + (Len(s) - (k + 1) + 1) = Len(s) - 1
  BY <1>1, <1>4
<1>6. ASSUME NEW i \in 1 .. Len(t)
      PROVE  t[i] = IF i < k THEN s[i] ELSE s[i + 1]
  <2>1. CASE i < k
    BY <1>1, <1>2, <1>4, <1>5, <2>1
  <2>2. CASE i >= k
    <3>1. t[i] = c[i - (k - 1)] /\ i - (k - 1) \in 1 .. Len(s) - (k + 1) + 1
          /\ k + 1 + (i - (k - 1)) - 1 = i + 1
      BY <1>1, <1>4, <1>5, <2>2
    <3>2. t[i] = s[i + 1]
      BY <1>3, <3>1
    <3>3. ~(i < k)
      BY <1>1, <1>5, <2>2
    <3> QED BY <3>2, <3>3
  <2>3. i < k \/ i >= k
    BY <1>1, <1>5
  <2> QED BY <2>1, <2>2, <2>3
<1> QED BY <1>4, <1>5, <1>6 DEF IsTaken, t, a, c

LEMMA FirstTakenIs ==
  ASSUME NEW S, NEW s \in Seq(S), s # <<>>
  PROVE  SubSeq(s, 2, Len(s)) \in Seq(S) /\ IsTaken(SubSeq(s, 2, Len(s)), s, 1) /\ 1 \in 1 .. Len(s)
<1>1. Len(s) \in Nat /\ Len(s) >= 1
  OBVIOUS
<1> DEFINE t == SubSeq(s, 2, Len(s))
<1>2. /\ t \in Seq(S) /\ Len(t) = Len(s) - 2 + 1
      /\ \A i \in 1 .. Len(s) - 2 + 1 : t[i] = s[2 + i - 1]
  <2>1. 2 \in Nat \ {0} /\ Len(s) \in Nat /\ Len(s) =< Len(s) /\ 2 =< Len(s) + 1
    BY <1>1
  <2>2. PICK a \in Nat \ {0}, b \in Nat : a = 2 /\ b = Len(s)
    BY <2>1
  <2>3. SubSeq(s, a, b) = t
    BY <2>2
  <2> HIDE DEF t
  <2>4. b =< Len(s) /\ a =< b + 1
    BY <2>1, <2>2
  <2>5. /\ t \in Seq(S) /\ Len(t) = b - a + 1
        /\ \A i \in 1 .. b - a + 1 : t[i] = s[a + i - 1]
    BY <2>3, <2>4, PartIs, ZenonT(30)
  <2> QED BY <2>2, <2>5
<1> HIDE DEF t
<1>3. Len(t) = Len(s) - 1 /\ \A i \in 1 .. Len(t) : ~(i < 1) /\ 2 + i - 1 = i + 1
  BY <1>1, <1>2
<1> QED BY <1>1, <1>2, <1>3 DEF IsTaken, t

-----------------------------------------------------------------------------
(* A list as it is gone through: from the head a through s to the end e.   *)

Stop(s, a, e, i) == IF i = 0 THEN a ELSE IF i = Len(s) + 1 THEN e ELSE s[i]

LEMMA StopIs ==
  ASSUME NEW S, NEW s \in Seq(S), NEW a, NEW e, NEW i \in 0 .. Len(s) + 1
  PROVE  (<<a>> \o s \o <<e>>)[i + 1] = Stop(s, a, e, i)
<1> DEFINE T == S \cup {a, e}
           b == <<a>> \o s
<1>1. <<a>> \in Seq(T) /\ Len(<<a>>) = 1 /\ <<a>>[1] = a /\ <<e>> \in Seq(T) /\ Len(<<e>>) = 1 /\ <<e>>[1] = e
  OBVIOUS
<1>2. s \in Seq(T) /\ Len(s) \in Nat
  OBVIOUS
<1> DEFINE x == <<a>>
           z == <<e>>
<1> HIDE DEF T, x, z
<1>3. /\ b \in Seq(T) /\ Len(b) = 1 + Len(s)
      /\ \A j \in 1 .. 1 + Len(s) : b[j] = IF j =< 1 THEN x[j] ELSE s[j - 1]
  BY <1>1, <1>2, JoinIs DEF x
<1> HIDE DEF b
<1>4. \A j \in 1 .. 1 + Len(s) + 1 : (b \o z)[j] = IF j =< 1 + Len(s) THEN b[j] ELSE z[j - (1 + Len(s))]
  <2>1. \A j \in 1 .. Len(b) + Len(z) : (b \o z)[j] = IF j =< Len(b) THEN b[j] ELSE z[j - Len(b)]
    BY <1>1, <1>3, JoinIs DEF z
  <2> QED BY <1>1, <1>3, <2>1 DEF z
<1>5. i + 1 \in 1 .. 1 + Len(s) + 1 /\ i \in Nat
  BY <1>2
<1>6. CASE i = 0
  BY <1>1, <1>2, <1>3, <1>4, <1>5, <1>6 DEF Stop, x, z, b
<1>7. CASE i \in 1 .. Len(s)
  <2>1. i + 1 =< 1 + Len(s) /\ i + 1 \in 1 .. 1 + Len(s) /\ ~(i + 1 =< 1) /\ i + 1 - 1 = i /\ i # 0 /\ i # Len(s) + 1
    BY <1>2, <1>7
  <2>2. (b \o z)[i + 1] = s[i]
    BY <1>3, <1>4, <1>5, <2>1
  <2> QED BY <2>1, <2>2 DEF Stop, z, b
<1>8. CASE i = Len(s) + 1
  <2>1. ~(i + 1 =< 1 + Len(s)) /\ (i + 1) - (1 + Len(s)) = 1 /\ i # 0
    BY <1>2, <1>8
  <2>2. (b \o z)[i + 1] = z[(i + 1) - (1 + Len(s))]
    BY <1>4, <1>5, <2>1
  <2>3. (b \o z)[i + 1] = z[1]
    BY <2>1, <2>2
  <2> QED BY <1>1, <1>8, <2>1, <2>3 DEF Stop, z, b
<1> QED BY <1>2, <1>6, <1>7, <1>8

LEMMA StopPut ==
  ASSUME NEW S, NEW s \in Seq(S), NEW t \in Seq(S), NEW n, NEW k \in 1 .. Len(s) + 1, IsPut(t, s, k, n),
         NEW a, NEW e, NEW i \in 0 .. Len(t) + 1
  PROVE  Stop(t, a, e, i) = IF i < k THEN Stop(s, a, e, i)
                            ELSE IF i = k THEN n ELSE Stop(s, a, e, i - 1)
<1>1. Len(t) = Len(s) + 1 /\ Len(s) \in Nat /\ i \in Nat /\ k \in Nat
  BY DEF IsPut
<1>2. CASE i = 0
  BY <1>1, <1>2 DEF Stop
<1>3. CASE i = Len(t) + 1
  <2>1. i - 1 = Len(s) + 1 /\ ~(i < k) /\ i # k /\ i # 0
    BY <1>1, <1>3
  <2> QED BY <1>1, <1>3, <2>1 DEF Stop
<1>4. CASE i \in 1 .. Len(t)
  <2>1. t[i] = IF i < k THEN s[i] ELSE IF i = k THEN n ELSE s[i - 1]
    BY <1>4 DEF IsPut
  <2>2. Stop(t, a, e, i) = t[i]
    BY <1>1, <1>4 DEF Stop
  <2>3. CASE i < k
    <3>1. i # 0 /\ i # Len(s) + 1
      BY <1>1, <1>4, <2>3
    <3> QED BY <2>1, <2>2, <2>3, <3>1 DEF Stop
  <2>4. CASE i = k
    BY <1>1, <2>1, <2>2, <2>4
  <2>5. CASE i > k
    <3>1. i - 1 # 0 /\ i - 1 # Len(s) + 1 /\ ~(i < k) /\ i # k
      BY <1>1, <1>4, <2>5
    <3> QED BY <2>1, <2>2, <3>1 DEF Stop
  <2> QED BY <1>1, <2>3, <2>4, <2>5
<1> QED BY <1>1, <1>2, <1>3, <1>4

LEMMA StopTaken ==
  ASSUME NEW S, NEW s \in Seq(S), NEW t \in Seq(S), NEW k \in 1 .. Len(s), IsTaken(t, s, k),
         NEW a, NEW e, NEW i \in 0 .. Len(t) + 1
  PROVE  Stop(t, a, e, i) = IF i < k THEN Stop(s, a, e, i) ELSE Stop(s, a, e, i + 1)
<1>1. Len(t) = Len(s) - 1 /\ Len(s) \in Nat /\ Len(t) \in Nat /\ i \in Nat /\ k \in Nat
  BY DEF IsTaken
<1>2. CASE i = 0
  BY <1>1, <1>2 DEF Stop
<1>3. CASE i = Len(t) + 1
  <2>1. i + 1 = Len(s) + 1 /\ ~(i < k) /\ i # 0 /\ i + 1 # 0
    BY <1>1, <1>3
  <2> QED BY <1>1, <1>3, <2>1 DEF Stop
<1>4. CASE i \in 1 .. Len(t)
  <2>1. t[i] = IF i < k THEN s[i] ELSE s[i + 1]
    BY <1>4 DEF IsTaken
  <2>2. i # 0 /\ i # Len(t) + 1 /\ i # Len(s) + 1 /\ i + 1 # 0 /\ i + 1 # Len(s) + 1
    BY <1>1, <1>4
  <2> QED BY <2>1, <2>2 DEF Stop
<1> QED BY <1>1, <1>2, <1>3, <1>4

-----------------------------------------------------------------------------
(* The lists of the heads H, and what a call does to them.                 *)

\* No node is in two places.
Good(H, ls) ==
  /\ ls \in [H -> Seq(Nodes)]
  /\ \A l, m \in H : \A i \in 1 .. Len(ls[l]), j \in 1 .. Len(ls[m]) :
       ls[l][i] = ls[m][j] => l = m /\ i = j

\* n is put at place k of list l.
Put(H, ls, ls2, l, k, n) ==
  /\ l \in H /\ k \in 1 .. Len(ls[l]) + 1 /\ n \in Nodes
  /\ \A m \in H : \A i \in 1 .. Len(ls[m]) : ls[m][i] # n
  /\ ls2 \in [H -> Seq(Nodes)]
  /\ IsPut(ls2[l], ls[l], k, n)
  /\ \A m \in H : m # l => ls2[m] = ls[m]

\* n is taken out of place k of list l.
Take(H, ls, ls2, l, k, n) ==
  /\ l \in H /\ k \in 1 .. Len(ls[l]) /\ n = ls[l][k]
  /\ ls2 \in [H -> Seq(Nodes)]
  /\ IsTaken(ls2[l], ls[l], k)
  /\ \A m \in H : m # l => ls2[m] = ls[m]

LEMMA PutGood ==
  ASSUME NEW H, NEW ls, NEW ls2, NEW l, NEW k, NEW n, Good(H, ls), Put(H, ls, ls2, l, k, n)
  PROVE  Good(H, ls2)
<1> DEFINE Old(m, i) == IF m = l /\ i > k THEN i - 1 ELSE i
<1>1. /\ l \in H /\ k \in 1 .. Len(ls[l]) + 1 /\ n \in Nodes
      /\ \A m \in H : Len(ls[m]) \in Nat
  BY DEF Put, Good
<1>2. ASSUME NEW m \in H, NEW i \in 1 .. Len(ls2[m])
      PROVE  /\ m = l /\ i = k => ls2[m][i] = n
             /\ ~(m = l /\ i = k) => Old(m, i) \in 1 .. Len(ls[m]) /\ ls2[m][i] = ls[m][Old(m, i)]
                                     /\ ls2[m][i] # n
  <2>1. CASE m # l
    BY <2>1 DEF Put
  <2>2. CASE m = l
    <3>1. /\ Len(ls2[l]) = Len(ls[l]) + 1
          /\ ls2[l][i] = IF i < k THEN ls[l][i] ELSE IF i = k THEN n ELSE ls[l][i - 1]
      BY <2>2 DEF Put, IsPut
    <3>2. CASE i < k
      BY <1>1, <2>2, <3>1, <3>2 DEF Put
    <3>3. CASE i = k
      BY <1>1, <2>2, <3>1, <3>3
    <3>4. CASE i > k
      <4>1. i - 1 \in 1 .. Len(ls[l]) /\ ~(i < k) /\ i # k
        BY <1>1, <2>2, <3>1, <3>4
      <4> QED BY <2>2, <3>1, <3>4, <4>1 DEF Put
    <3> QED BY <1>1, <3>2, <3>3, <3>4
  <2> QED BY <2>1, <2>2
<1>3. ASSUME NEW m \in H, NEW p \in H, NEW i \in 1 .. Len(ls2[m]), NEW j \in 1 .. Len(ls2[p]),
             ls2[m][i] = ls2[p][j]
      PROVE  m = p /\ i = j
  <2>1. CASE m = l /\ i = k
    BY <1>2, <1>3, <2>1
  <2>2. CASE p = l /\ j = k
    BY <1>2, <1>3, <2>2
  <2>3. CASE ~(m = l /\ i = k) /\ ~(p = l /\ j = k)
    <3> HIDE DEF Old
    <3>1. PICK a \in 1 .. Len(ls[m]), b \in 1 .. Len(ls[p]) :
            a = Old(m, i) /\ b = Old(p, j) /\ ls2[m][i] = ls[m][a] /\ ls2[p][j] = ls[p][b]
      BY <1>2, <2>3
    <3>2. m = p /\ Old(m, i) = Old(p, j)
      <4>1. ls[m][a] = ls[p][b]
        BY <1>3, <3>1
      <4>2. m = p /\ a = b
        BY <4>1 DEF Good
      <4> QED BY <3>1, <4>2
    <3>3. i \in Nat /\ j \in Nat /\ k \in Nat
      BY <1>1
    <3> QED BY <2>3, <3>2, <3>3 DEF Old
  <2> QED BY <2>1, <2>2, <2>3
<1> QED BY <1>3 DEF Good, Put

LEMMA TakeGood ==
  ASSUME NEW H, NEW ls, NEW ls2, NEW l, NEW k, NEW n, Good(H, ls), Take(H, ls, ls2, l, k, n)
  PROVE  /\ Good(H, ls2) /\ n \in Nodes
         /\ \A m \in H : \A i \in 1 .. Len(ls2[m]) : ls2[m][i] # n
<1> DEFINE Old(m, i) == IF m = l /\ i >= k THEN i + 1 ELSE i
<1>1. /\ l \in H /\ k \in 1 .. Len(ls[l]) /\ n = ls[l][k] /\ n \in Nodes
      /\ \A m \in H : Len(ls[m]) \in Nat /\ Len(ls2[m]) \in Nat
  BY DEF Take, Good
<1>2. ASSUME NEW m \in H, NEW i \in 1 .. Len(ls2[m])
      PROVE  /\ Old(m, i) \in 1 .. Len(ls[m]) /\ ls2[m][i] = ls[m][Old(m, i)]
             /\ ~(m = l /\ Old(m, i) = k)
  <2>1. CASE m # l
    BY <2>1 DEF Take
  <2>2. CASE m = l
    <3>1. Len(ls2[l]) = Len(ls[l]) - 1 /\ ls2[l][i] = IF i < k THEN ls[l][i] ELSE ls[l][i + 1]
      BY <2>2 DEF Take, IsTaken
    <3>2. CASE i < k
      <4>1. i \in 1 .. Len(ls[l]) /\ ~(i >= k) /\ i # k
        BY <1>1, <2>2, <3>1, <3>2
      <4> QED BY <2>2, <3>1, <3>2, <4>1
    <3>3. CASE i >= k
      <4>1. i + 1 \in 1 .. Len(ls[l]) /\ ~(i < k) /\ i + 1 # k
        BY <1>1, <2>2, <3>1, <3>3
      <4> QED BY <2>2, <3>1, <3>3, <4>1
    <3> QED BY <1>1, <3>2, <3>3
  <2> QED BY <2>1, <2>2
<1>3. \A m \in H : \A i \in 1 .. Len(ls2[m]) : ls2[m][i] # n
  <2> SUFFICES ASSUME NEW m \in H, NEW i \in 1 .. Len(ls2[m]), ls2[m][i] = n PROVE FALSE
    OBVIOUS
  <2>1. Old(m, i) \in 1 .. Len(ls[m]) /\ ls[m][Old(m, i)] = ls[l][k] /\ ~(m = l /\ Old(m, i) = k)
    BY <1>1, <1>2
  <2> HIDE DEF Old
  <2> QED BY <1>1, <2>1 DEF Good
<1>4. ASSUME NEW m \in H, NEW p \in H, NEW i \in 1 .. Len(ls2[m]), NEW j \in 1 .. Len(ls2[p]),
             ls2[m][i] = ls2[p][j]
      PROVE  m = p /\ i = j
  <2> HIDE DEF Old
  <2>1. PICK a \in 1 .. Len(ls[m]), b \in 1 .. Len(ls[p]) :
          a = Old(m, i) /\ b = Old(p, j) /\ ls2[m][i] = ls[m][a] /\ ls2[p][j] = ls[p][b]
    BY <1>2
  <2>2. i \in Nat /\ j \in Nat /\ k \in Nat
    BY <1>1
  <2>3. m = p /\ Old(m, i) = Old(p, j)
    <3>1. ls[m][a] = ls[p][b]
      BY <1>4, <2>1
    <3>2. m = p /\ a = b
      BY <3>1 DEF Good
    <3> QED BY <2>1, <3>2
  <2> QED BY <2>2, <2>3 DEF Old
<1> QED BY <1>1, <1>3, <1>4 DEF Good, Take

LEMMA StopIn ==
  ASSUME NEW H, NEW ls, Good(H, ls), NEW l \in H, NEW e, NEW i \in 0 .. Len(ls[l])
  PROVE  /\ Stop(ls[l], l, e, i) \in H \cup Nodes
         /\ i = 0 => Stop(ls[l], l, e, i) = l
         /\ i # 0 => i \in 1 .. Len(ls[l]) /\ Stop(ls[l], l, e, i) = ls[l][i] /\ ls[l][i] \in Nodes
<1>1. ls[l] \in Seq(Nodes) /\ Len(ls[l]) \in Nat
  BY DEF Good
<1>2. i # Len(ls[l]) + 1 /\ i \in Nat
  BY <1>1
<1> QED BY <1>1, <1>2 DEF Stop

-----------------------------------------------------------------------------
(* The pointers: nx from each node of a list to the one after it, pv back  *)
(* to the one before it, la from a list to its last node.  E is where each *)
(* list ends, F what its first node points back to, D what la is of an     *)
(* empty one.                                                              *)

Leads(H, ls, nx, E) ==
  \A l \in H : \A i \in 0 .. Len(ls[l]) :
    nx[Stop(ls[l], l, E[l], i)] = Stop(ls[l], l, E[l], i + 1)

Backs(H, ls, pv, F) ==
  \A l \in H : \A i \in 1 .. Len(ls[l]) : pv[ls[l][i]] = Stop(ls[l], F[l], F[l], i - 1)

Lasts(H, ls, la, D) == \A l \in H : la[l] = Stop(ls[l], D[l], D[l], Len(ls[l]))

NextPut(H, ls, nx, nx2, E, l, k, n) ==
  \A a \in H \cup Nodes :
    nx2[a] = IF a = n THEN Stop(ls[l], l, E[l], k)
             ELSE IF a = Stop(ls[l], l, E[l], k - 1) THEN n ELSE nx[a]

NextTaken(H, ls, nx, nx2, E, l, k, n) ==
  \A a \in H \cup Nodes :
    a # n => nx2[a] = IF a = Stop(ls[l], l, E[l], k - 1) THEN Stop(ls[l], l, E[l], k + 1) ELSE nx[a]

BackPut(ls, pv, pv2, F, l, k, n) ==
  \A a \in Nodes :
    pv2[a] = IF a = n THEN Stop(ls[l], F[l], F[l], k - 1)
             ELSE IF k =< Len(ls[l]) /\ a = ls[l][k] THEN n ELSE pv[a]

BackTaken(ls, pv, pv2, F, l, k, n) ==
  \A a \in Nodes :
    a # n => pv2[a] = IF k < Len(ls[l]) /\ a = ls[l][k + 1] THEN Stop(ls[l], F[l], F[l], k - 1)
                      ELSE pv[a]

LastPut(H, ls, la, la2, l, k, n) ==
  \A a \in H : la2[a] = IF a = l /\ k = Len(ls[l]) + 1 THEN n ELSE la[a]

LastTaken(H, ls, la, la2, D, l, k) ==
  \A a \in H : la2[a] = IF a = l /\ k = Len(ls[l]) THEN Stop(ls[l], D[l], D[l], k - 1) ELSE la[a]

\* The stops of the lists but for their ends are as many addresses, and n is one
\* of them only at place k of list l.
StopsKnown(H, ls, E) ==
  /\ \A l, m \in H : \A i \in 0 .. Len(ls[l]), j \in 0 .. Len(ls[m]) :
       Stop(ls[l], l, E[l], i) = Stop(ls[m], m, E[m], j) => l = m /\ i = j
  /\ \A l \in H : \A i \in 0 .. Len(ls[l]) :
       /\ Stop(ls[l], l, E[l], i) \in H \cup Nodes
       /\ i = 0 => Stop(ls[l], l, E[l], i) = l
       /\ i # 0 => i \in 1 .. Len(ls[l]) /\ Stop(ls[l], l, E[l], i) = ls[l][i] /\ ls[l][i] \in Nodes

LEMMA StopsAreKnown ==
  ASSUME NEW H, NEW ls, NEW E, Good(H, ls), H \cap Nodes = {}
  PROVE  StopsKnown(H, ls, E)
<1>1. ASSUME NEW l \in H, NEW i \in 0 .. Len(ls[l])
      PROVE  /\ Stop(ls[l], l, E[l], i) \in H \cup Nodes
             /\ i = 0 => Stop(ls[l], l, E[l], i) = l
             /\ i # 0 => i \in 1 .. Len(ls[l]) /\ Stop(ls[l], l, E[l], i) = ls[l][i] /\ ls[l][i] \in Nodes
  BY StopIn
<1>2. ASSUME NEW l \in H, NEW m \in H, NEW i \in 0 .. Len(ls[l]), NEW j \in 0 .. Len(ls[m]),
             Stop(ls[l], l, E[l], i) = Stop(ls[m], m, E[m], j)
      PROVE  l = m /\ i = j
  <2>1. CASE i = 0 \/ j = 0
    BY <1>1, <1>2, <2>1
  <2>2. CASE i # 0 /\ j # 0
    <3>1. i \in 1 .. Len(ls[l]) /\ j \in 1 .. Len(ls[m]) /\ ls[l][i] = ls[m][j]
      BY <1>1, <1>2, <2>2
    <3> QED BY <3>1 DEF Good
  <2> QED BY <2>1, <2>2
<1> QED BY <1>1, <1>2 DEF StopsKnown

LEMMA PutLeads ==
  ASSUME NEW H, NEW ls, NEW ls2, NEW nx, NEW nx2, NEW E, NEW l, NEW k, NEW n,
         Good(H, ls), H \cap Nodes = {}, Put(H, ls, ls2, l, k, n),
         Leads(H, ls, nx, E), NextPut(H, ls, nx, nx2, E, l, k, n)
  PROVE  Leads(H, ls2, nx2, E)
<1> SUFFICES ASSUME NEW m \in H, NEW i \in 0 .. Len(ls2[m])
             PROVE  nx2[Stop(ls2[m], m, E[m], i)] = Stop(ls2[m], m, E[m], i + 1)
  BY DEF Leads
<1>1. /\ l \in H /\ k \in 1 .. Len(ls[l]) + 1 /\ n \in Nodes /\ ls[l] \in Seq(Nodes) /\ ls2[l] \in Seq(Nodes)
      /\ IsPut(ls2[l], ls[l], k, n) /\ Len(ls[l]) \in Nat /\ Len(ls2[l]) = Len(ls[l]) + 1
      /\ k - 1 \in 0 .. Len(ls[l]) /\ k \in Nat /\ k - 1 + 1 = k
  BY DEF Put, Good, IsPut
<1>0. StopsKnown(H, ls, E)
  BY StopsAreKnown
\* A stop other than n and the one before it.
<1>2. ASSUME NEW j \in 0 .. Len(ls[m]), ~(m = l /\ j = k - 1)
      PROVE  nx2[Stop(ls[m], m, E[m], j)] = Stop(ls[m], m, E[m], j + 1)
  <2>1. Stop(ls[m], m, E[m], j) \in H \cup Nodes /\ Stop(ls[m], m, E[m], j) # n
    BY <1>0, <1>1 DEF Put, StopsKnown
  <2>2. Stop(ls[m], m, E[m], j) # Stop(ls[l], l, E[l], k - 1)
    BY <1>0, <1>1, <1>2 DEF StopsKnown
  <2> QED BY <2>1, <2>2 DEF NextPut, Leads
<1>3. CASE m # l
  <2>1. ls2[m] = ls[m]
    BY <1>3 DEF Put
  <2> QED BY <1>2, <1>3, <2>1
<1>4. CASE m = l
  <2> DEFINE Old(j) == Stop(ls[l], l, E[l], j)
             New(j) == Stop(ls2[l], l, E[l], j)
  <2>1. \A j \in 0 .. Len(ls2[l]) + 1 : New(j) = IF j < k THEN Old(j) ELSE IF j = k THEN n ELSE Old(j - 1)
    BY <1>1, StopPut
  <2>2. \A j \in 0 .. Len(ls[l]) : j # k - 1 => nx2[Old(j)] = Old(j + 1)
    BY <1>2, <1>4
  <2>3. nx2[Old(k - 1)] = n /\ nx2[n] = Old(k)
    <3>1. /\ Old(k - 1) \in H \cup Nodes
          /\ k - 1 = 0 => Old(k - 1) = l
          /\ k - 1 # 0 => k - 1 \in 1 .. Len(ls[l]) /\ Old(k - 1) = ls[l][k - 1]
      BY <1>0, <1>1 DEF StopsKnown
    <3> HIDE DEF Old
    <3>2. Old(k - 1) # n
      BY <1>1, <3>1 DEF Put
    <3> USE DEF Old
    <3> QED BY <1>1, <3>1, <3>2 DEF NextPut
  <2> HIDE DEF Old, New
  <2>4. i \in 0 .. Len(ls[l]) + 1 /\ i \in Nat /\ i \in 0 .. Len(ls2[l]) + 1 /\ i + 1 \in 0 .. Len(ls2[l]) + 1
    BY <1>1, <1>4
  <2>5. nx2[New(i)] = New(i + 1)
    <3>1. CASE i < k - 1
      <4>1. i < k /\ i + 1 < k /\ i \in 0 .. Len(ls[l]) /\ i # k - 1
        BY <1>1, <2>4, <3>1
      <4> QED BY <2>1, <2>2, <2>4, <4>1
    <3>2. CASE i = k - 1
      <4>1. i < k /\ i + 1 = k /\ ~(i + 1 < k)
        BY <1>1, <2>4, <3>2
      <4> QED BY <2>1, <2>3, <2>4, <3>2, <4>1
    <3>3. CASE i = k
      <4>1. ~(i < k) /\ ~(i + 1 < k) /\ i + 1 # k /\ i + 1 - 1 = i
        BY <1>1, <2>4, <3>3
      <4> QED BY <2>1, <2>3, <2>4, <3>3, <4>1
    <3>4. CASE i > k
      <4>1. /\ ~(i < k) /\ i # k /\ ~(i + 1 < k) /\ i + 1 # k /\ i + 1 - 1 = i /\ i - 1 + 1 = i
            /\ i - 1 \in 0 .. Len(ls[l]) /\ i - 1 # k - 1
        BY <1>1, <2>4, <3>4
      <4>2. nx2[Old(i - 1)] = Old(i)
        BY <2>2, <4>1
      <4> QED BY <2>1, <2>4, <4>1, <4>2
    <3> QED BY <1>1, <2>4, <3>1, <3>2, <3>3, <3>4
  <2> QED BY <1>4, <2>5 DEF New
<1> QED BY <1>3, <1>4

LEMMA TakeLeads ==
  ASSUME NEW H, NEW ls, NEW ls2, NEW nx, NEW nx2, NEW E, NEW l, NEW k, NEW n,
         Good(H, ls), H \cap Nodes = {}, Take(H, ls, ls2, l, k, n),
         Leads(H, ls, nx, E), NextTaken(H, ls, nx, nx2, E, l, k, n)
  PROVE  Leads(H, ls2, nx2, E)
<1> SUFFICES ASSUME NEW m \in H, NEW i \in 0 .. Len(ls2[m])
             PROVE  nx2[Stop(ls2[m], m, E[m], i)] = Stop(ls2[m], m, E[m], i + 1)
  BY DEF Leads
<1>1. /\ l \in H /\ k \in 1 .. Len(ls[l]) /\ n = ls[l][k] /\ ls[l] \in Seq(Nodes) /\ ls2[l] \in Seq(Nodes)
      /\ IsTaken(ls2[l], ls[l], k) /\ Len(ls[l]) \in Nat /\ Len(ls2[l]) = Len(ls[l]) - 1
      /\ k - 1 \in 0 .. Len(ls[l]) /\ k \in 0 .. Len(ls[l]) /\ k \in Nat /\ k # 0 /\ k # k - 1
  BY DEF Take, Good, IsTaken
<1>0. StopsKnown(H, ls, E)
  BY StopsAreKnown
<1>2. ASSUME NEW j \in 0 .. Len(ls[m]), ~(m = l /\ j = k - 1), ~(m = l /\ j = k)
      PROVE  nx2[Stop(ls[m], m, E[m], j)] = Stop(ls[m], m, E[m], j + 1)
  <2>1. Stop(ls[m], m, E[m], j) \in H \cup Nodes /\ Stop(ls[l], l, E[l], k) = n
    BY <1>0, <1>1 DEF StopsKnown
  <2>2. Stop(ls[m], m, E[m], j) # Stop(ls[l], l, E[l], k - 1)
    BY <1>0, <1>1, <1>2 DEF StopsKnown
  <2>3. Stop(ls[m], m, E[m], j) # n
    BY <1>0, <1>1, <1>2, <2>1 DEF StopsKnown
  <2> QED BY <2>1, <2>2, <2>3 DEF NextTaken, Leads
<1>3. CASE m # l
  <2>1. ls2[m] = ls[m]
    BY <1>3 DEF Take
  <2> QED BY <1>2, <1>3, <2>1
<1>4. CASE m = l
  <2> DEFINE Old(j) == Stop(ls[l], l, E[l], j)
             New(j) == Stop(ls2[l], l, E[l], j)
  <2>1. \A j \in 0 .. Len(ls2[l]) + 1 : New(j) = IF j < k THEN Old(j) ELSE Old(j + 1)
    BY <1>1, StopTaken
  <2>2. \A j \in 0 .. Len(ls[l]) : j # k - 1 /\ j # k => nx2[Old(j)] = Old(j + 1)
    BY <1>2, <1>4
  <2>3. nx2[Old(k - 1)] = Old(k + 1)
    <3>1. Old(k - 1) \in H \cup Nodes /\ Old(k) = n
      BY <1>0, <1>1 DEF StopsKnown
    <3>2. Old(k - 1) # Old(k)
      BY <1>0, <1>1 DEF StopsKnown
    <3> QED BY <3>1, <3>2 DEF NextTaken
  <2> HIDE DEF Old, New
  <2>4. i \in Nat /\ i =< Len(ls2[l]) /\ i \in 0 .. Len(ls2[l]) + 1 /\ i + 1 \in 0 .. Len(ls2[l]) + 1
    BY <1>1, <1>4
  <2>5. nx2[New(i)] = New(i + 1)
    <3>1. CASE i < k - 1
      <4>1. i < k /\ i + 1 < k /\ i \in 0 .. Len(ls[l]) /\ i # k - 1 /\ i # k
        BY <1>1, <2>4, <3>1
      <4> QED BY <2>1, <2>2, <2>4, <4>1
    <3>2. CASE i = k - 1
      <4>1. i < k /\ i + 1 = k /\ ~(i + 1 < k)
        BY <1>1, <2>4, <3>2
      <4> QED BY <2>1, <2>3, <2>4, <3>2, <4>1
    <3>3. CASE i >= k
      <4>1. /\ ~(i < k) /\ ~(i + 1 < k) /\ i + 1 \in 0 .. Len(ls[l]) /\ i + 1 # k - 1 /\ i + 1 # k
        BY <1>1, <2>4, <3>3
      <4>2. nx2[Old(i + 1)] = Old(i + 1 + 1)
        BY <2>2, <4>1
      <4> QED BY <2>1, <2>4, <4>1, <4>2
    <3> QED BY <1>1, <2>4, <3>1, <3>2, <3>3
  <2> QED BY <1>4, <2>5 DEF New
<1> QED BY <1>3, <1>4

LEMMA PutBacks ==
  ASSUME NEW H, NEW ls, NEW ls2, NEW pv, NEW pv2, NEW F, NEW l, NEW k, NEW n,
         Good(H, ls), Put(H, ls, ls2, l, k, n), Backs(H, ls, pv, F), BackPut(ls, pv, pv2, F, l, k, n)
  PROVE  Backs(H, ls2, pv2, F)
<1> SUFFICES ASSUME NEW m \in H, NEW i \in 1 .. Len(ls2[m])
             PROVE  pv2[ls2[m][i]] = Stop(ls2[m], F[m], F[m], i - 1)
  BY DEF Backs
<1>1. /\ l \in H /\ k \in 1 .. Len(ls[l]) + 1 /\ n \in Nodes /\ ls[l] \in Seq(Nodes) /\ ls2[l] \in Seq(Nodes)
      /\ IsPut(ls2[l], ls[l], k, n) /\ Len(ls[l]) \in Nat /\ Len(ls2[l]) = Len(ls[l]) + 1 /\ k \in Nat
  BY DEF Put, Good, IsPut
\* A node that was linked, other than the one that follows n now.
<1>2. ASSUME NEW j \in 1 .. Len(ls[m]), ~(m = l /\ j = k)
      PROVE  pv2[ls[m][j]] = Stop(ls[m], F[m], F[m], j - 1)
  <2>1. ls[m][j] \in Nodes /\ ls[m][j] # n
    BY DEF Put, Good
  <2>2. k =< Len(ls[l]) => ls[m][j] # ls[l][k]
    <3> HAVE k =< Len(ls[l])
    <3>1. k \in 1 .. Len(ls[l])
      BY <1>1
    <3> QED BY <1>1, <1>2, <3>1 DEF Good
  <2>3. pv2[ls[m][j]] = pv[ls[m][j]]
    BY <2>1, <2>2 DEF BackPut
  <2> QED BY <2>3 DEF Backs
<1>3. CASE m # l
  <2>1. ls2[m] = ls[m]
    BY <1>3 DEF Put
  <2> QED BY <1>2, <1>3, <2>1
<1>4. CASE m = l
  <2> DEFINE Old(j) == Stop(ls[l], F[l], F[l], j)
             New(j) == Stop(ls2[l], F[l], F[l], j)
  <2>1. \A j \in 0 .. Len(ls2[l]) + 1 : New(j) = IF j < k THEN Old(j) ELSE IF j = k THEN n ELSE Old(j - 1)
    BY <1>1, StopPut
  <2>2. \A j \in 1 .. Len(ls[l]) : j # k => pv2[ls[l][j]] = Old(j - 1)
    BY <1>2, <1>4
  <2>3. pv2[n] = Old(k - 1) /\ (k =< Len(ls[l]) => pv2[ls[l][k]] = n)
    <3>1. pv2[n] = Old(k - 1)
      BY <1>1 DEF BackPut
    <3>2. ASSUME k =< Len(ls[l]) PROVE pv2[ls[l][k]] = n
      <4>1. k \in 1 .. Len(ls[l])
        BY <1>1, <3>2
      <4>2. ls[l][k] \in Nodes /\ ls[l][k] # n
        BY <1>1, <4>1 DEF Put
      <4> QED BY <3>2, <4>2 DEF BackPut
    <3> QED BY <3>1, <3>2
  <2> HIDE DEF Old, New
  <2>4. i \in 1 .. Len(ls2[l]) /\ i \in Nat /\ i =< Len(ls[l]) + 1 /\ i - 1 \in 0 .. Len(ls2[l]) + 1
    BY <1>1, <1>4
  <2>5. ls2[l][i] = IF i < k THEN ls[l][i] ELSE IF i = k THEN n ELSE ls[l][i - 1]
    BY <1>1, <2>4 DEF IsPut
  <2>6. pv2[ls2[l][i]] = New(i - 1)
    <3>1. CASE i < k
      <4>1. i - 1 < k /\ i \in 1 .. Len(ls[l]) /\ i # k
        BY <1>1, <2>4, <3>1
      <4> QED BY <2>1, <2>2, <2>4, <2>5, <3>1, <4>1
    <3>2. CASE i = k
      <4>1. i - 1 < k /\ ~(i < k)
        BY <1>1, <3>2
      <4> QED BY <2>1, <2>3, <2>4, <2>5, <3>2, <4>1
    <3>3. CASE i = k + 1
      <4>1. ~(i < k) /\ i # k /\ i - 1 = k /\ ~(i - 1 < k) /\ k =< Len(ls[l])
        BY <1>1, <2>4, <3>3
      <4>2. pv2[ls[l][k]] = n /\ ls2[l][i] = ls[l][k] /\ New(i - 1) = n
        BY <2>1, <2>3, <2>4, <2>5, <4>1
      <4> QED BY <4>2
    <3>4. CASE i > k + 1
      <4>1. /\ ~(i < k) /\ i # k /\ ~(i - 1 < k) /\ i - 1 # k /\ i - 1 \in 1 .. Len(ls[l])
        BY <1>1, <2>4, <3>4
      <4>2. pv2[ls[l][i - 1]] = Old(i - 1 - 1)
        BY <2>2, <4>1
      <4> QED BY <2>1, <2>4, <2>5, <4>1, <4>2
    <3> QED BY <1>1, <2>4, <3>1, <3>2, <3>3, <3>4
  <2> QED BY <1>4, <2>6 DEF New
<1> QED BY <1>3, <1>4

LEMMA TakeBacks ==
  ASSUME NEW H, NEW ls, NEW ls2, NEW pv, NEW pv2, NEW F, NEW l, NEW k, NEW n,
         Good(H, ls), Take(H, ls, ls2, l, k, n), Backs(H, ls, pv, F), BackTaken(ls, pv, pv2, F, l, k, n)
  PROVE  Backs(H, ls2, pv2, F)
<1> SUFFICES ASSUME NEW m \in H, NEW i \in 1 .. Len(ls2[m])
             PROVE  pv2[ls2[m][i]] = Stop(ls2[m], F[m], F[m], i - 1)
  BY DEF Backs
<1>1. /\ l \in H /\ k \in 1 .. Len(ls[l]) /\ n = ls[l][k] /\ ls[l] \in Seq(Nodes) /\ ls2[l] \in Seq(Nodes)
      /\ IsTaken(ls2[l], ls[l], k) /\ Len(ls[l]) \in Nat /\ Len(ls2[l]) = Len(ls[l]) - 1 /\ k \in Nat
  BY DEF Take, Good, IsTaken
<1>2. ASSUME NEW j \in 1 .. Len(ls[m]), ~(m = l /\ j = k), ~(m = l /\ j = k + 1)
      PROVE  pv2[ls[m][j]] = Stop(ls[m], F[m], F[m], j - 1)
  <2>1. ls[m][j] \in Nodes /\ ls[m][j] # n
    BY <1>1, <1>2 DEF Good
  <2>2. k < Len(ls[l]) => ls[m][j] # ls[l][k + 1]
    <3> HAVE k < Len(ls[l])
    <3>1. k + 1 \in 1 .. Len(ls[l])
      BY <1>1
    <3> QED BY <1>1, <1>2, <3>1 DEF Good
  <2>3. pv2[ls[m][j]] = pv[ls[m][j]]
    BY <2>1, <2>2 DEF BackTaken
  <2> QED BY <2>3 DEF Backs
<1>3. CASE m # l
  <2>1. ls2[m] = ls[m]
    BY <1>3 DEF Take
  <2> QED BY <1>2, <1>3, <2>1
<1>4. CASE m = l
  <2> DEFINE Old(j) == Stop(ls[l], F[l], F[l], j)
             New(j) == Stop(ls2[l], F[l], F[l], j)
  <2>1. \A j \in 0 .. Len(ls2[l]) + 1 : New(j) = IF j < k THEN Old(j) ELSE Old(j + 1)
    BY <1>1, StopTaken
  <2>2. \A j \in 1 .. Len(ls[l]) : j # k /\ j # k + 1 => pv2[ls[l][j]] = Old(j - 1)
    BY <1>2, <1>4
  <2>3. k < Len(ls[l]) => pv2[ls[l][k + 1]] = Old(k - 1)
    <3> HAVE k < Len(ls[l])
    <3>1. k + 1 \in 1 .. Len(ls[l]) /\ k + 1 # k
      BY <1>1
    <3>2. ls[l][k + 1] \in Nodes /\ ls[l][k + 1] # n
      BY <1>1, <3>1 DEF Good
    <3> QED BY <3>2 DEF BackTaken
  <2> HIDE DEF Old, New
  <2>4. i \in 1 .. Len(ls2[l]) /\ i \in Nat /\ i =< Len(ls[l]) - 1 /\ i - 1 \in 0 .. Len(ls2[l]) + 1
    BY <1>1, <1>4
  <2>5. ls2[l][i] = IF i < k THEN ls[l][i] ELSE ls[l][i + 1]
    BY <1>1, <2>4 DEF IsTaken
  <2>6. pv2[ls2[l][i]] = New(i - 1)
    <3>1. CASE i < k
      <4>1. i - 1 < k /\ i \in 1 .. Len(ls[l]) /\ i # k /\ i # k + 1
        BY <1>1, <2>4, <3>1
      <4> QED BY <2>1, <2>2, <2>4, <2>5, <3>1, <4>1
    <3>2. CASE i = k
      <4>1. i - 1 < k /\ ~(i < k) /\ k < Len(ls[l])
        BY <1>1, <2>4, <3>2
      <4> QED BY <2>1, <2>3, <2>4, <2>5, <3>2, <4>1
    <3>3. CASE i > k
      <4>1. /\ ~(i < k) /\ ~(i - 1 < k) /\ i + 1 \in 1 .. Len(ls[l]) /\ i + 1 # k /\ i + 1 # k + 1
            /\ i + 1 - 1 = i - 1 + 1
        BY <1>1, <2>4, <3>3, SMTT(30)
      <4>2. pv2[ls[l][i + 1]] = Old(i + 1 - 1)
        BY <2>2, <4>1
      <4> QED BY <2>1, <2>4, <2>5, <4>1, <4>2
    <3> QED BY <1>1, <2>4, <3>1, <3>2, <3>3
  <2> QED BY <1>4, <2>6 DEF New
<1> QED BY <1>3, <1>4

LEMMA PutLasts ==
  ASSUME NEW H, NEW ls, NEW ls2, NEW la, NEW la2, NEW D, NEW l, NEW k, NEW n,
         Good(H, ls), Put(H, ls, ls2, l, k, n), Lasts(H, ls, la, D), LastPut(H, ls, la, la2, l, k, n)
  PROVE  Lasts(H, ls2, la2, D)
<1> SUFFICES ASSUME NEW m \in H PROVE la2[m] = Stop(ls2[m], D[m], D[m], Len(ls2[m]))
  BY DEF Lasts
<1>1. /\ l \in H /\ k \in 1 .. Len(ls[l]) + 1 /\ ls[l] \in Seq(Nodes) /\ ls2[l] \in Seq(Nodes)
      /\ IsPut(ls2[l], ls[l], k, n) /\ Len(ls[l]) \in Nat /\ Len(ls2[l]) = Len(ls[l]) + 1 /\ k \in Nat
  BY DEF Put, Good, IsPut
<1>2. CASE m # l
  BY <1>2 DEF Put, Lasts, LastPut
<1>3. CASE m = l
  <2>1. \A j \in 0 .. Len(ls2[l]) + 1 :
          Stop(ls2[l], D[l], D[l], j) = IF j < k THEN Stop(ls[l], D[l], D[l], j)
                                        ELSE IF j = k THEN n ELSE Stop(ls[l], D[l], D[l], j - 1)
    BY <1>1, StopPut
  <2>2. Len(ls[l]) + 1 \in 0 .. Len(ls2[l]) + 1 /\ ~(Len(ls[l]) + 1 < k) /\ Len(ls[l]) + 1 - 1 = Len(ls[l])
    BY <1>1
  <2>3. la2[l] = IF k = Len(ls[l]) + 1 THEN n ELSE Stop(ls[l], D[l], D[l], Len(ls[l]))
    BY <1>1 DEF Lasts, LastPut
  <2>4. Stop(ls2[l], D[l], D[l], Len(ls[l]) + 1)
          = IF Len(ls[l]) + 1 = k THEN n ELSE Stop(ls[l], D[l], D[l], Len(ls[l]))
    BY <2>1, <2>2
  <2> QED BY <1>1, <1>3, <2>3, <2>4
<1> QED BY <1>2, <1>3

LEMMA TakeLasts ==
  ASSUME NEW H, NEW ls, NEW ls2, NEW la, NEW la2, NEW D, NEW l, NEW k, NEW n,
         Good(H, ls), Take(H, ls, ls2, l, k, n), Lasts(H, ls, la, D), LastTaken(H, ls, la, la2, D, l, k)
  PROVE  Lasts(H, ls2, la2, D)
<1> SUFFICES ASSUME NEW m \in H PROVE la2[m] = Stop(ls2[m], D[m], D[m], Len(ls2[m]))
  BY DEF Lasts
<1>1. /\ l \in H /\ k \in 1 .. Len(ls[l]) /\ ls[l] \in Seq(Nodes) /\ ls2[l] \in Seq(Nodes)
      /\ IsTaken(ls2[l], ls[l], k) /\ Len(ls[l]) \in Nat /\ Len(ls2[l]) = Len(ls[l]) - 1 /\ k \in Nat
  BY DEF Take, Good, IsTaken
<1>2. CASE m # l
  BY <1>2 DEF Take, Lasts, LastTaken
<1>3. CASE m = l
  <2>1. \A j \in 0 .. Len(ls2[l]) + 1 :
          Stop(ls2[l], D[l], D[l], j) = IF j < k THEN Stop(ls[l], D[l], D[l], j)
                                        ELSE Stop(ls[l], D[l], D[l], j + 1)
    BY <1>1, StopTaken
  <2>2. /\ Len(ls[l]) - 1 \in 0 .. Len(ls2[l]) + 1 /\ Len(ls[l]) - 1 + 1 = Len(ls[l])
        /\ (Len(ls[l]) - 1 < k <=> k = Len(ls[l]))
    BY <1>1
  <2>3. la2[l] = IF k = Len(ls[l]) THEN Stop(ls[l], D[l], D[l], k - 1)
                 ELSE Stop(ls[l], D[l], D[l], Len(ls[l]))
    BY <1>1 DEF Lasts, LastTaken
  <2>4. Stop(ls2[l], D[l], D[l], Len(ls[l]) - 1)
          = IF Len(ls[l]) - 1 < k THEN Stop(ls[l], D[l], D[l], Len(ls[l]) - 1)
            ELSE Stop(ls[l], D[l], D[l], Len(ls[l]) - 1 + 1)
    BY <2>1, <2>2
  <2> QED BY <1>1, <1>3, <2>2, <2>3, <2>4
<1> QED BY <1>2, <1>3

-----------------------------------------------------------------------------
(* An iteration that is at place k of a list s, or when it goes back comes *)
(* from there: it has seen those of the kept nodes that are behind it.     *)

Behind(back, i, k) == IF back THEN i > k ELSE i < k

Met(s, kept, seen, back, k) ==
  /\ \A x \in kept : \E i \in 1 .. Len(s) : s[i] = x
  /\ \A i \in 1 .. Len(s) : s[i] \in kept => (Behind(back, i, k) <=> s[i] \in seen)

LEMMA PutMet ==
  ASSUME NEW s \in Seq(Nodes), NEW t \in Seq(Nodes), NEW j \in 1 .. Len(s) + 1, NEW n, IsPut(t, s, j, n),
         NEW kept, NEW seen, NEW back \in BOOLEAN, NEW k \in 0 .. Len(s) + 1, Met(s, kept, seen, back, k),
         n \notin kept, NEW m,
         \/ m = IF j =< k THEN k + 1 ELSE k
         \/ ~back /\ m = IF j < k THEN k + 1 ELSE k
  PROVE  Met(t, kept, seen, back, m)
<1> DEFINE now(i) == IF i < j THEN i ELSE i + 1
           was(i) == IF i < j THEN i ELSE i - 1
<1>1. Len(s) \in Nat /\ Len(t) = Len(s) + 1 /\ j \in Nat /\ k \in Nat /\ m \in Nat
  BY DEF IsPut
<1>2. ASSUME NEW i \in 1 .. Len(s) PROVE now(i) \in 1 .. Len(t) /\ t[now(i)] = s[i]
  <2>1. now(i) \in 1 .. Len(t)
    BY <1>1
  <2>2. t[now(i)] = IF now(i) < j THEN s[now(i)] ELSE IF now(i) = j THEN n ELSE s[now(i) - 1]
    <3> HIDE DEF now
    <3> QED BY <2>1 DEF IsPut
  <2>3. CASE i < j
    BY <2>1, <2>2, <2>3
  <2>4. CASE ~(i < j)
    <3>1. ~(i + 1 < j) /\ i + 1 # j /\ i + 1 - 1 = i
      BY <1>1, <2>4
    <3> QED BY <2>1, <2>2, <2>4, <3>1
  <2> QED BY <2>3, <2>4
<1>3. \A x \in kept : \E i \in 1 .. Len(t) : t[i] = x
  <2> SUFFICES ASSUME NEW x \in kept PROVE \E i \in 1 .. Len(t) : t[i] = x
    OBVIOUS
  <2>1. PICK i \in 1 .. Len(s) : s[i] = x
    BY DEF Met
  <2> HIDE DEF now
  <2> QED BY <1>2, <2>1
<1>4. ASSUME NEW i \in 1 .. Len(t), t[i] \in kept PROVE Behind(back, i, m) <=> t[i] \in seen
  <2>1. t[i] = IF i < j THEN s[i] ELSE IF i = j THEN n ELSE s[i - 1]
    BY DEF IsPut
  <2>2. i # j
    BY <1>1, <1>4, <2>1
  <2>3. was(i) \in 1 .. Len(s) /\ t[i] = s[was(i)]
    BY <1>1, <2>1, <2>2
  <2> HIDE DEF was
  <2>4. Behind(back, was(i), k) <=> t[i] \in seen
    BY <1>4, <2>3 DEF Met
  <2>5. Behind(back, was(i), k) <=> Behind(back, i, m)
    <3>1. CASE back
      <4>1. m = IF j =< k THEN k + 1 ELSE k
        BY <3>1
      <4> QED BY <1>1, <2>2, <3>1, <4>1 DEF Behind, was
    <3>2. CASE ~back
      BY <1>1, <2>2, <3>2 DEF Behind, was
    <3> QED BY <3>1, <3>2
  <2> QED BY <2>4, <2>5
<1> QED BY <1>3, <1>4 DEF Met

LEMMA TakeMet ==
  ASSUME NEW s \in Seq(Nodes), NEW t \in Seq(Nodes), NEW j \in 1 .. Len(s), IsTaken(t, s, j),
         NEW kept, NEW seen, NEW back \in BOOLEAN, NEW k \in 0 .. Len(s) + 1, Met(s, kept, seen, back, k),
         ~back \/ j # k, NEW m, m = IF j < k THEN k - 1 ELSE k,
         NEW left, left \subseteq kept, s[j] \notin left
  PROVE  Met(t, left, seen, back, m)
<1> DEFINE now(i) == IF i < j THEN i ELSE i - 1
           was(i) == IF i < j THEN i ELSE i + 1
<1>1. Len(s) \in Nat /\ Len(t) = Len(s) - 1 /\ j \in Nat /\ k \in Nat /\ m \in Nat
  BY DEF IsTaken
<1>2. ASSUME NEW i \in 1 .. Len(s), i # j PROVE now(i) \in 1 .. Len(t) /\ t[now(i)] = s[i]
  <2>1. now(i) \in 1 .. Len(t)
    BY <1>1, <1>2
  <2>2. t[now(i)] = IF now(i) < j THEN s[now(i)] ELSE s[now(i) + 1]
    <3> HIDE DEF now
    <3> QED BY <2>1 DEF IsTaken
  <2>3. CASE i < j
    BY <2>1, <2>2, <2>3
  <2>4. CASE ~(i < j)
    <3>1. ~(i - 1 < j) /\ i - 1 + 1 = i
      BY <1>1, <1>2, <2>4
    <3> QED BY <2>1, <2>2, <2>4, <3>1
  <2> QED BY <2>3, <2>4
<1>3. \A x \in left : \E i \in 1 .. Len(t) : t[i] = x
  <2> SUFFICES ASSUME NEW x \in left PROVE \E i \in 1 .. Len(t) : t[i] = x
    OBVIOUS
  <2>1. PICK i \in 1 .. Len(s) : s[i] = x
    BY DEF Met
  <2> HIDE DEF now
  <2> QED BY <1>2, <2>1
<1>4. ASSUME NEW i \in 1 .. Len(t), t[i] \in left PROVE Behind(back, i, m) <=> t[i] \in seen
  <2>1. t[i] = IF i < j THEN s[i] ELSE s[i + 1]
    BY DEF IsTaken
  <2>2. was(i) \in 1 .. Len(s) /\ t[i] = s[was(i)]
    BY <1>1, <2>1
  <2> HIDE DEF was
  <2>3. Behind(back, was(i), k) <=> t[i] \in seen
    BY <1>4, <2>2 DEF Met
  <2>4. Behind(back, was(i), k) <=> Behind(back, i, m)
    <3>1. CASE back
      BY <1>1, <3>1 DEF Behind, was
    <3>2. CASE ~back
      BY <1>1, <3>2 DEF Behind, was
    <3> QED BY <3>1, <3>2
  <2> QED BY <2>3, <2>4
<1> QED BY <1>3, <1>4 DEF Met

\* The places an iteration can go on from.
Places(s, back) == IF back THEN 0 .. Len(s) ELSE 1 .. Len(s) + 1

\* An iteration over list l with the node nd and, taken before its body runs, what
\* comes next.
Iterating(H, ls, E, l, back, nd, nxt, kept, seen) ==
  /\ l \in H
  /\ IF nd = E[l] THEN kept \subseteq seen
     ELSE /\ nd \in Nodes
          /\ \E k \in Places(ls[l], back) : /\ nxt = Stop(ls[l], l, E[l], k)
                                            /\ Met(ls[l], kept, seen \cup {nd}, back, k)

LEMMA PutIterating ==
  ASSUME NEW H, NEW ls, NEW ls2, NEW E, NEW it, NEW back \in BOOLEAN, NEW nd, NEW nxt, NEW kept, NEW seen,
         NEW l, NEW j, NEW n,
         Good(H, ls), Put(H, ls, ls2, l, j, n), Iterating(H, ls, E, it, back, nd, nxt, kept, seen)
  PROVE  Iterating(H, ls2, E, it, back, nd, nxt, kept, seen)
<1>1. CASE nd = E[it]
  BY <1>1 DEF Iterating
<1>2. CASE nd # E[it]
  <2>1. PICK k \in Places(ls[it], back) : /\ nxt = Stop(ls[it], it, E[it], k)
                                          /\ Met(ls[it], kept, seen \cup {nd}, back, k)
    BY <1>2 DEF Iterating
  <2>2. it \in H /\ nd \in Nodes
    BY <1>2 DEF Iterating
  <2>3. CASE l # it
    <3>1. ls2[it] = ls[it]
      BY <2>2, <2>3 DEF Put
    <3> QED BY <1>2, <2>1, <2>2, <3>1 DEF Iterating
  <2>4. CASE l = it
    <3> DEFINE s == ls[it]
               t == ls2[it]
               m == IF j =< k THEN k + 1 ELSE k
    <3>1. /\ s \in Seq(Nodes) /\ t \in Seq(Nodes) /\ j \in 1 .. Len(s) + 1 /\ IsPut(t, s, j, n)
          /\ Len(s) \in Nat /\ Len(t) = Len(s) + 1 /\ j \in Nat
      BY <2>2, <2>4 DEF Good, Put, IsPut
    <3>2. n \notin kept
      BY <2>1, <2>2 DEF Put, Met
    <3> HIDE DEF s, t
    <3>3. k \in 0 .. Len(s) + 1 /\ m \in Places(t, back) /\ m \in 0 .. Len(t) + 1
      BY <2>1, <3>1 DEF Places, s
    <3>4. Met(t, kept, seen \cup {nd}, back, m)
      BY <2>1, <3>1, <3>2, <3>3, PutMet DEF s
    <3>5. Stop(t, it, E[it], m) = IF m < j THEN Stop(s, it, E[it], m)
                                  ELSE IF m = j THEN n ELSE Stop(s, it, E[it], m - 1)
      BY <3>1, <3>3, StopPut
    <3>6. Stop(t, it, E[it], m) = Stop(s, it, E[it], k)
      <4>1. CASE j =< k
        <5>1. m = k + 1 /\ ~(m < j) /\ m # j /\ m - 1 = k
          BY <3>1, <3>3, <4>1
        <5> HIDE DEF m
        <5> QED BY <3>5, <5>1
      <4>2. CASE ~(j =< k)
        <5>1. m = k /\ m < j
          BY <3>1, <3>3, <4>2
        <5> HIDE DEF m
        <5> QED BY <3>5, <5>1
      <4> QED BY <4>1, <4>2
    <3> HIDE DEF m
    <3> QED BY <1>2, <2>1, <2>2, <3>3, <3>4, <3>6 DEF Iterating, s, t
  <2> QED BY <2>3, <2>4
<1> QED BY <1>1, <1>2

LEMMA TakeIterating ==
  ASSUME NEW H, NEW ls, NEW ls2, NEW E, NEW it, NEW back \in BOOLEAN, NEW nd, NEW nxt, NEW kept, NEW seen,
         NEW l, NEW j, NEW n,
         Good(H, ls), Take(H, ls, ls2, l, j, n), Iterating(H, ls, E, it, back, nd, nxt, kept, seen),
         n # nxt
  PROVE  Iterating(H, ls2, E, it, back, nd, nxt, kept \ {n}, seen)
<1>1. CASE nd = E[it]
  BY <1>1 DEF Iterating
<1>2. CASE nd # E[it]
  <2>1. PICK k \in Places(ls[it], back) : /\ nxt = Stop(ls[it], it, E[it], k)
                                          /\ Met(ls[it], kept, seen \cup {nd}, back, k)
    BY <1>2 DEF Iterating
  <2>2. it \in H /\ nd \in Nodes
    BY <1>2 DEF Iterating
  <2>3. CASE l # it
    <3>1. ls2[it] = ls[it]
      BY <2>2, <2>3 DEF Take
    <3>2. \A x \in kept : x # n
      <4> SUFFICES ASSUME NEW x \in kept, x = n PROVE FALSE
        OBVIOUS
      <4>1. PICK i \in 1 .. Len(ls[it]) : ls[it][i] = n
        BY <2>1 DEF Met
      <4> QED BY <2>2, <2>3, <4>1 DEF Take, Good
    <3>3. kept \ {n} = kept
      BY <3>2
    <3> QED BY <1>2, <2>1, <2>2, <3>1, <3>3 DEF Iterating
  <2>4. CASE l = it
    <3> DEFINE s == ls[it]
               t == ls2[it]
               m == IF j < k THEN k - 1 ELSE k
    <3>1. /\ s \in Seq(Nodes) /\ t \in Seq(Nodes) /\ j \in 1 .. Len(s) /\ IsTaken(t, s, j) /\ n = s[j]
          /\ Len(s) \in Nat /\ Len(t) = Len(s) - 1 /\ j \in Nat
      <4>1. /\ ls[l] \in Seq(Nodes) /\ ls2[l] \in Seq(Nodes) /\ j \in 1 .. Len(ls[l])
            /\ IsTaken(ls2[l], ls[l], j) /\ n = ls[l][j]
        BY <2>2, <2>4 DEF Good, Take
      <4>2. Len(s) \in Nat /\ Len(t) = Len(s) - 1 /\ j \in Nat
        BY <2>4, <4>1 DEF IsTaken
      <4> QED BY <2>4, <4>1, <4>2
    <3> HIDE DEF s, t
    <3>2. j # k
      <4> SUFFICES ASSUME j = k PROVE FALSE
        OBVIOUS
      <4>1. k # 0 /\ k # Len(s) + 1
        BY <3>1
      <4> QED BY <2>1, <3>1, <4>1 DEF Stop, s
    <3>3. k \in 0 .. Len(s) + 1 /\ m \in Places(t, back) /\ m \in 0 .. Len(t) + 1
      BY <2>1, <3>1, <3>2 DEF Places, s
    <3>4. Met(t, kept \ {n}, seen \cup {nd}, back, m)
      <4> DEFINE w == seen \cup {nd}
      <4>1. Met(s, kept, w, back, k)
        BY <2>1 DEF s
      <4>2. m = IF j < k THEN k - 1 ELSE k
        OBVIOUS
      <4> DEFINE left == kept \ {n}
      <4>3. left \subseteq kept /\ s[j] \notin left
        BY <3>1
      <4> HIDE DEF w, m, left
      <4>4. Met(t, left, w, back, m)
        BY <3>1, <3>2, <3>3, <4>1, <4>2, <4>3, TakeMet
      <4> QED BY <4>4 DEF w, left
    <3>5. Stop(t, it, E[it], m) = IF m < j THEN Stop(s, it, E[it], m) ELSE Stop(s, it, E[it], m + 1)
      BY <3>1, <3>3, StopTaken
    <3>6. Stop(t, it, E[it], m) = Stop(s, it, E[it], k)
      <4>1. CASE j < k
        <5>1. m = k - 1 /\ ~(m < j) /\ m + 1 = k
          BY <3>1, <3>3, <4>1
        <5> HIDE DEF m
        <5> QED BY <3>5, <5>1
      <4>2. CASE ~(j < k)
        <5>1. m = k /\ m < j
          BY <3>1, <3>2, <3>3, <4>2
        <5> HIDE DEF m
        <5> QED BY <3>5, <5>1
      <4> QED BY <4>1, <4>2
    <3> HIDE DEF m
    <3> QED BY <1>2, <2>1, <2>2, <3>3, <3>4, <3>6 DEF Iterating, s, t
  <2> QED BY <2>3, <2>4
<1> QED BY <1>1, <1>2

\* A list is where it ends itself, and where its first node points back to.
Itself(H) == [l \in H |-> l]

\* What an iteration finds after nd.
After(back, nx, pv, nd) == IF back THEN pv[nd] ELSE nx[nd]

\* The place after k, on the way the iteration goes.
Onward(back, k) == IF back THEN k - 1 ELSE k + 1

\* The pointers that an iteration over list l follows are right.
Ways(H, ls, E, nx, pv, l, back) ==
  /\ Leads(H, ls, nx, E)
  /\ back => Backs(H, ls, pv, Itself(H)) /\ Lasts(H, ls, pv, Itself(H)) /\ E[l] = l

LEMMA AfterIs ==
  ASSUME NEW H, NEW ls, NEW E, NEW nx, NEW pv, NEW it \in H, NEW back \in BOOLEAN, NEW k \in 1 .. Len(ls[it]),
         Good(H, ls), Ways(H, ls, E, nx, pv, it, back)
  PROVE  After(back, nx, pv, ls[it][k]) = Stop(ls[it], it, E[it], Onward(back, k))
<1>1. Len(ls[it]) \in Nat /\ k # 0 /\ k # Len(ls[it]) + 1 /\ k \in 0 .. Len(ls[it])
  BY DEF Good
<1>2. CASE back
  <2>1. Backs(H, ls, pv, Itself(H)) /\ E[it] = it /\ Itself(H)[it] = it
    BY <1>2 DEF Itself, Ways
  <2>2. pv[ls[it][k]] = Stop(ls[it], Itself(H)[it], Itself(H)[it], k - 1)
    BY <2>1 DEF Backs
  <2> QED BY <1>2, <2>1, <2>2 DEF After, Onward
<1>3. CASE ~back
  <2>1. nx[Stop(ls[it], it, E[it], k)] = Stop(ls[it], it, E[it], k + 1)
    BY <1>1 DEF Leads, Ways
  <2>2. Stop(ls[it], it, E[it], k) = ls[it][k]
    BY <1>1 DEF Stop
  <2> QED BY <1>3, <2>1, <2>2 DEF After, Onward
<1> QED BY <1>2, <1>3

LEMMA NextIterating ==
  ASSUME NEW H, NEW ls, NEW E, NEW nx, NEW pv, NEW it, NEW back \in BOOLEAN, NEW nd, NEW nxt, NEW kept,
         NEW seen, NEW after,
         Good(H, ls), Ways(H, ls, E, nx, pv, it, back),
         Iterating(H, ls, E, it, back, nd, nxt, kept, seen), nd # E[it], E[it] \notin Nodes,
         nxt \in Nodes => after = After(back, nx, pv, nxt), NEW w, w = seen \cup {nd}
  PROVE  /\ Iterating(H, ls, E, it, back, nxt, after, kept, w)
         /\ nxt \in kept => nxt \notin w
<1> DEFINE s == ls[it]
<1>1. PICK k \in Places(s, back) : nxt = Stop(s, it, E[it], k) /\ Met(s, kept, w, back, k)
  BY DEF Iterating
<1>2. it \in H /\ s \in Seq(Nodes) /\ Len(s) \in Nat
  BY DEF Iterating, Good
<1>3. \A i, j \in 1 .. Len(s) : s[i] = s[j] => i = j
  BY <1>2 DEF Good
<1>4. k \in Nat /\ k \in 0 .. Len(s) + 1 /\ (back => k # Len(s) + 1) /\ (~back => k # 0)
  BY <1>1, <1>2 DEF Places
<1>5. CASE k \in 1 .. Len(s)
  <2>1. nxt = s[k] /\ nxt \in Nodes /\ nxt # E[it]
    BY <1>1, <1>2, <1>5 DEF Stop
  <2>2. s[k] \in kept => s[k] \notin w
    BY <1>1, <1>4, <1>5 DEF Met, Behind
  <2> DEFINE m == Onward(back, k)
  <2>3. after = Stop(s, it, E[it], m)
    <3>1. After(back, nx, pv, s[k]) = Stop(s, it, E[it], m)
      BY <1>2, <1>5, AfterIs
    <3>2. after = After(back, nx, pv, nxt)
      BY <2>1
    <3> QED BY <2>1, <3>1, <3>2
  <2>4. m \in Places(s, back)
    BY <1>2, <1>5 DEF Places, Onward
  <2>5. ASSUME NEW i \in 1 .. Len(s), s[i] \in kept
        PROVE  Behind(back, i, m) <=> s[i] \in w \cup {nxt}
    <3>1. Behind(back, i, m) <=> Behind(back, i, k) \/ i = k
      BY <1>4 DEF Behind, Onward
    <3>2. s[i] = nxt <=> i = k
      BY <1>3, <1>5, <2>1
    <3>3. Behind(back, i, k) <=> s[i] \in w
      BY <1>1, <2>5 DEF Met
    <3> QED BY <3>1, <3>2, <3>3
  <2> HIDE DEF m
  <2>6. Met(s, kept, w \cup {nxt}, back, m)
    BY <1>1, <2>5 DEF Met
  <2> QED BY <1>2, <2>1, <2>2, <2>3, <2>4, <2>6 DEF Iterating
<1>6. CASE k \notin 1 .. Len(s)
  <2>1. nxt = E[it]
    <3>1. CASE back
      <4>1. k = 0 /\ E[it] = it
        BY <1>2, <1>4, <1>6, <3>1 DEF Ways
      <4> QED BY <1>1, <4>1 DEF Stop
    <3>2. CASE ~back
      <4>1. k = Len(s) + 1 /\ k # 0
        BY <1>2, <1>4, <1>6, <3>2
      <4> QED BY <1>1, <4>1 DEF Stop
    <3> QED BY <3>1, <3>2
  <2>2. kept \subseteq w /\ kept \subseteq Nodes
    <3> SUFFICES ASSUME NEW x \in kept PROVE x \in w /\ x \in Nodes
      OBVIOUS
    <3>1. PICK i \in 1 .. Len(s) : s[i] = x
      BY <1>1 DEF Met
    <3>2. Behind(back, i, k)
      BY <1>2, <1>4, <1>6 DEF Behind
    <3> QED BY <1>1, <1>2, <3>1, <3>2 DEF Met
  <2> QED BY <1>2, <2>1, <2>2 DEF Iterating
<1> QED BY <1>5, <1>6

LEMMA BeginIterating ==
  ASSUME NEW H, NEW ls, NEW E, NEW nx, NEW pv, NEW it \in H, NEW back \in BOOLEAN, NEW nd, NEW nxt, NEW kept,
         Good(H, ls), Ways(H, ls, E, nx, pv, it, back), E[it] \notin Nodes,
         kept = {ls[it][i] : i \in 1 .. Len(ls[it])},
         nd = After(back, nx, pv, it), nd \in Nodes => nxt = After(back, nx, pv, nd)
  PROVE  Iterating(H, ls, E, it, back, nd, nxt, kept, {})
<1> DEFINE s == ls[it]
           f == IF back THEN Len(s) ELSE 1
<1>1. s \in Seq(Nodes) /\ Len(s) \in Nat /\ f \in Nat
  BY DEF Good
<1>2. \A i, j \in 1 .. Len(s) : s[i] = s[j] => i = j
  BY DEF Good
<1>3. nd = Stop(s, it, E[it], f)
  <2>1. CASE back
    <3>1. Itself(H)[it] = it /\ E[it] = it
      BY <2>1 DEF Itself, Ways
    <3>2. pv[it] = Stop(s, Itself(H)[it], Itself(H)[it], Len(s))
      BY <2>1 DEF Lasts, Ways
    <3> QED BY <2>1, <3>1, <3>2 DEF After
  <2>2. CASE ~back
    <3>1. nx[Stop(s, it, E[it], 0)] = Stop(s, it, E[it], 0 + 1)
      BY <1>1 DEF Leads, Ways
    <3>2. Stop(s, it, E[it], 0) = it /\ 0 + 1 = 1
      BY DEF Stop
    <3> QED BY <2>2, <3>1, <3>2 DEF After
  <2> QED BY <2>1, <2>2
<1>4. CASE s = <<>>
  <2>1. nd = E[it]
    <3>1. Len(s) = 0
      BY <1>4
    <3>2. CASE back
      BY <1>3, <3>1, <3>2 DEF Stop, Ways
    <3>3. CASE ~back
      BY <1>3, <3>1, <3>3 DEF Stop
    <3> QED BY <3>2, <3>3
  <2>2. kept = {}
    BY <1>4
  <2> QED BY <2>1, <2>2 DEF Iterating
<1>5. CASE s # <<>>
  <2>1. f \in 1 .. Len(s) /\ f # 0 /\ f # Len(s) + 1
    BY <1>1, <1>5
  <2> HIDE DEF f
  <2>2. nd = s[f] /\ nd \in Nodes /\ nd # E[it]
    BY <1>1, <1>3, <2>1 DEF Stop
  <2> DEFINE m == Onward(back, f)
  <2>3. nxt = Stop(s, it, E[it], m)
    <3>1. After(back, nx, pv, s[f]) = Stop(s, it, E[it], m)
      BY <2>1, AfterIs
    <3>2. nxt = After(back, nx, pv, nd)
      BY <2>2
    <3> QED BY <2>2, <3>1, <3>2
  <2>4. m \in Places(s, back)
    BY <1>1, <2>1 DEF Places, Onward
  <2>5. ASSUME NEW i \in 1 .. Len(s), s[i] \in kept
        PROVE  Behind(back, i, m) <=> s[i] \in {} \cup {nd}
    <3>1. Behind(back, i, m) <=> i = f
      BY <1>1 DEF Behind, Onward, f
    <3> QED BY <1>2, <2>1, <2>2, <3>1
  <2> HIDE DEF m
  <2>6. Met(s, kept, {} \cup {nd}, back, m)
    BY <2>5 DEF Met
  <2> QED BY <2>2, <2>3, <2>4, <2>6 DEF Iterating
<1> QED BY <1>4, <1>5

-----------------------------------------------------------------------------
(* The iteration over a singly linked list knows of a place by what points *)
(* to it, pp, and its body may have deleted the node nd it is at.          *)

\* Every list ends at e.
Ends(H, e) == [l \in H |-> e]

SIterating(H, ls, l, nd, pp, kept, seen) ==
  /\ l \in H
  /\ IF nd = Null THEN kept \subseteq seen
     ELSE /\ nd \in Nodes
          /\ \E k \in 1 .. Len(ls[l]) + 1 :
               /\ pp = Stop(ls[l], l, Null, k - 1)
               /\ Met(ls[l], kept, seen, FALSE, k)
               /\ nd \in kept => k =< Len(ls[l]) /\ ls[l][k] = nd

LEMMA PutSIterating ==
  ASSUME NEW H, NEW ls, NEW ls2, NEW it, NEW nd, NEW pp, NEW kept, NEW seen, NEW l, NEW j, NEW n,
         Good(H, ls), Put(H, ls, ls2, l, j, n), SIterating(H, ls, it, nd, pp, kept, seen),
         j = Len(ls[l]) + 1 \/ pp # Stop(ls[l], l, Null, j - 1)
  PROVE  SIterating(H, ls2, it, nd, pp, kept, seen)
<1>1. CASE nd = Null
  BY <1>1 DEF SIterating
<1>2. CASE nd # Null
  <2>1. PICK k \in 1 .. Len(ls[it]) + 1 :
          /\ pp = Stop(ls[it], it, Null, k - 1)
          /\ Met(ls[it], kept, seen, FALSE, k)
          /\ nd \in kept => k =< Len(ls[it]) /\ ls[it][k] = nd
    BY <1>2 DEF SIterating
  <2>2. it \in H /\ nd \in Nodes
    BY <1>2 DEF SIterating
  <2>3. CASE l # it
    <3>1. ls2[it] = ls[it]
      BY <2>2, <2>3 DEF Put
    <3> QED BY <1>2, <2>1, <2>2, <3>1 DEF SIterating
  <2>4. CASE l = it
    <3> DEFINE s == ls[it]
               t == ls2[it]
               m == IF j < k THEN k + 1 ELSE k
    <3>1. /\ s \in Seq(Nodes) /\ t \in Seq(Nodes) /\ j \in 1 .. Len(s) + 1 /\ IsPut(t, s, j, n)
          /\ Len(s) \in Nat /\ Len(t) = Len(s) + 1 /\ j \in Nat
      BY <2>2, <2>4 DEF Good, Put, IsPut
    <3>2. n \notin kept
      BY <2>1, <2>2 DEF Put, Met
    <3>3. j = k => k = Len(s) + 1
      <4> HAVE j = k
      <4> QED BY <2>1, <2>4
    <3> HIDE DEF s, t
    <3>4. k \in 0 .. Len(s) + 1 /\ m \in 1 .. Len(t) + 1 /\ m - 1 \in 0 .. Len(t) + 1
      BY <2>1, <3>1 DEF s
    <3>5. Met(t, kept, seen, FALSE, m)
      BY <2>1, <3>1, <3>2, <3>4, PutMet DEF s
    <3>6. Stop(t, it, Null, m - 1) = IF m - 1 < j THEN Stop(s, it, Null, m - 1)
                                  ELSE IF m - 1 = j THEN n ELSE Stop(s, it, Null, m - 1 - 1)
      BY <3>1, <3>4, StopPut
    <3>7. Stop(t, it, Null, m - 1) = pp
      <4>1. CASE j < k
        <5>1. ~(m - 1 < j) /\ m - 1 # j /\ m - 1 - 1 = k - 1
          BY <3>1, <3>4, <4>1
        <5> HIDE DEF m
        <5> QED BY <2>1, <3>6, <5>1 DEF s
      <4>2. CASE ~(j < k)
        <5>1. m = k /\ m - 1 < j
          BY <3>1, <3>4, <4>2
        <5> HIDE DEF m
        <5> QED BY <2>1, <3>6, <5>1 DEF s
      <4> QED BY <4>1, <4>2
    <3>8. ASSUME nd \in kept PROVE m =< Len(t) /\ t[m] = nd
      <4>1. k =< Len(s) /\ s[k] = nd /\ k # j
        BY <2>1, <3>1, <3>3, <3>8 DEF s
      <4>2. m \in 1 .. Len(t) /\ (m < j => m = k) /\ m # j /\ (~(m < j) => m - 1 = k)
        BY <3>1, <3>4, <4>1
      <4> HIDE DEF m
      <4>3. t[m] = IF m < j THEN s[m] ELSE IF m = j THEN n ELSE s[m - 1]
        BY <3>1, <4>2 DEF IsPut
      <4> QED BY <3>1, <4>1, <4>2, <4>3
    <3> HIDE DEF m
    <3> QED BY <1>2, <2>2, <3>4, <3>5, <3>7, <3>8 DEF SIterating, t
  <2> QED BY <2>3, <2>4
<1> QED BY <1>1, <1>2

LEMMA TakeSIterating ==
  ASSUME NEW H, NEW ls, NEW ls2, NEW it, NEW nd, NEW pp, NEW kept, NEW seen, NEW l, NEW j, NEW n,
         Good(H, ls), Take(H, ls, ls2, l, j, n), SIterating(H, ls, it, nd, pp, kept, seen), pp # n
  PROVE  SIterating(H, ls2, it, nd, pp, kept \ {n}, seen)
<1>1. CASE nd = Null
  BY <1>1 DEF SIterating
<1>2. CASE nd # Null
  <2>1. PICK k \in 1 .. Len(ls[it]) + 1 :
          /\ pp = Stop(ls[it], it, Null, k - 1)
          /\ Met(ls[it], kept, seen, FALSE, k)
          /\ nd \in kept => k =< Len(ls[it]) /\ ls[it][k] = nd
    BY <1>2 DEF SIterating
  <2>2. it \in H /\ nd \in Nodes
    BY <1>2 DEF SIterating
  <2>3. CASE l # it
    <3>1. ls2[it] = ls[it]
      BY <2>2, <2>3 DEF Take
    <3>2. \A x \in kept : x # n
      <4> SUFFICES ASSUME NEW x \in kept, x = n PROVE FALSE
        OBVIOUS
      <4>1. PICK i \in 1 .. Len(ls[it]) : ls[it][i] = n
        BY <2>1 DEF Met
      <4> QED BY <2>2, <2>3, <4>1 DEF Take, Good
    <3>3. kept \ {n} = kept
      BY <3>2
    <3> QED BY <1>2, <2>1, <2>2, <3>1, <3>3 DEF SIterating
  <2>4. CASE l = it
    <3> DEFINE s == ls[it]
               t == ls2[it]
               m == IF j < k THEN k - 1 ELSE k
               left == kept \ {n}
    <3>1. /\ s \in Seq(Nodes) /\ t \in Seq(Nodes) /\ j \in 1 .. Len(s) /\ IsTaken(t, s, j) /\ n = s[j]
          /\ Len(s) \in Nat /\ Len(t) = Len(s) - 1 /\ j \in Nat
      <4>1. /\ ls[l] \in Seq(Nodes) /\ ls2[l] \in Seq(Nodes) /\ j \in 1 .. Len(ls[l])
            /\ IsTaken(ls2[l], ls[l], j) /\ n = ls[l][j]
        BY <2>2, <2>4 DEF Good, Take
      <4>2. Len(s) \in Nat /\ Len(t) = Len(s) - 1 /\ j \in Nat
        BY <2>4, <4>1 DEF IsTaken
      <4> QED BY <2>4, <4>1, <4>2
    <3> HIDE DEF s, t
    <3>2. j # k - 1
      <4> SUFFICES ASSUME j = k - 1 PROVE FALSE
        OBVIOUS
      <4>1. k - 1 # 0 /\ k - 1 # Len(s) + 1
        BY <3>1
      <4> QED BY <2>1, <3>1, <4>1 DEF Stop, s
    <3>3. k \in 0 .. Len(s) + 1 /\ m \in 1 .. Len(t) + 1 /\ m - 1 \in 0 .. Len(t) + 1
      BY <2>1, <3>1, <3>2 DEF s
    <3>4. left \subseteq kept /\ s[j] \notin left /\ m = IF j < k THEN k - 1 ELSE k
      BY <3>1
    <3>5. Met(s, kept, seen, FALSE, k)
      BY <2>1 DEF s
    <3>6. Met(t, left, seen, FALSE, m)
      <4> HIDE DEF m, left
      <4> QED BY <3>1, <3>3, <3>4, <3>5, TakeMet
    <3>7. Stop(t, it, Null, m - 1) = IF m - 1 < j THEN Stop(s, it, Null, m - 1)
                                     ELSE Stop(s, it, Null, m - 1 + 1)
      BY <3>1, <3>3, StopTaken
    <3>8. Stop(t, it, Null, m - 1) = pp
      <4>1. CASE j < k
        <5>1. ~(m - 1 < j) /\ m - 1 + 1 = k - 1
          BY <3>1, <3>2, <3>3, <4>1
        <5> HIDE DEF m
        <5> QED BY <2>1, <3>7, <5>1 DEF s
      <4>2. CASE ~(j < k)
        <5>1. m = k /\ m - 1 < j
          BY <3>1, <3>3, <4>2
        <5> HIDE DEF m
        <5> QED BY <2>1, <3>7, <5>1 DEF s
      <4> QED BY <4>1, <4>2
    <3>9. ASSUME nd \in left PROVE m =< Len(t) /\ t[m] = nd
      <4>1. k =< Len(s) /\ s[k] = nd /\ k # j
        BY <2>1, <3>1, <3>9 DEF s
      <4>2. m \in 1 .. Len(t) /\ (m < j => m = k) /\ (~(m < j) => m + 1 = k)
        BY <3>1, <3>2, <3>3, <4>1
      <4> HIDE DEF m
      <4>3. t[m] = IF m < j THEN s[m] ELSE s[m + 1]
        BY <3>1, <4>2 DEF IsTaken
      <4> QED BY <3>1, <4>1, <4>2, <4>3
    <3> HIDE DEF m, left
    <3>10. SIterating(H, ls2, it, nd, pp, left, seen)
      BY <1>2, <2>2, <3>3, <3>6, <3>8, <3>9 DEF SIterating, t
    <3> QED BY <3>10 DEF left
  <2> QED BY <2>3, <2>4
<1> QED BY <1>1, <1>2

LEMMA NextSIterating ==
  ASSUME NEW H, NEW ls, NEW nx, NEW it, NEW nd, NEW pp, NEW kept, NEW seen, NEW nd2, NEW pp2,
         Good(H, ls), Leads(H, ls, nx, Ends(H, Null)), Null \notin Nodes,
         SIterating(H, ls, it, nd, pp, kept, seen), nd # Null,
         pp2 = IF nx[pp] = nd THEN nd ELSE pp, nd2 = nx[pp2], NEW w, w = seen \cup {nd}
  PROVE  /\ SIterating(H, ls, it, nd2, pp2, kept, w)
         /\ nd2 \in kept => nd2 \notin w
<1> DEFINE s == ls[it]
<1>1. PICK k \in 1 .. Len(s) + 1 : /\ pp = Stop(s, it, Null, k - 1)
                                   /\ Met(s, kept, seen, FALSE, k)
                                   /\ nd \in kept => k =< Len(s) /\ s[k] = nd
  BY DEF SIterating
<1>2. it \in H /\ s \in Seq(Nodes) /\ Len(s) \in Nat /\ nd \in Nodes
  BY DEF SIterating, Good
<1>3. \A i, j \in 1 .. Len(s) : s[i] = s[j] => i = j
  BY <1>2 DEF Good
<1>4. \A i \in 0 .. Len(s) : nx[Stop(s, it, Null, i)] = Stop(s, it, Null, i + 1)
  BY <1>2 DEF Leads, Ends
\* Where it goes on from, and what has been seen by then.
<1>5. PICK m \in 1 .. Len(s) + 1 : pp2 = Stop(s, it, Null, m - 1) /\ Met(s, kept, w, FALSE, m)
  <2>1. nx[pp] = Stop(s, it, Null, k)
    <3>1. k - 1 \in 0 .. Len(s) /\ k - 1 + 1 = k
      BY <1>1, <1>2
    <3> QED BY <1>1, <1>4, <3>1
  <2>2. CASE nx[pp] = nd
    <3>1. k =< Len(s)
      BY <1>1, <1>2, <2>1, <2>2 DEF Stop
    <3>2. nd = s[k] /\ k \in 1 .. Len(s) /\ k + 1 \in 1 .. Len(s) + 1 /\ k + 1 - 1 = k
      BY <1>1, <1>2, <2>1, <2>2, <3>1 DEF Stop
    <3>3. ASSUME NEW i \in 1 .. Len(s), s[i] \in kept
          PROVE  Behind(FALSE, i, k + 1) <=> s[i] \in w
      <4>1. Behind(FALSE, i, k + 1) <=> Behind(FALSE, i, k) \/ i = k
        BY <1>1, <1>2 DEF Behind
      <4>2. s[i] = nd <=> i = k
        BY <1>3, <3>2
      <4>3. Behind(FALSE, i, k) <=> s[i] \in seen
        BY <1>1, <3>3 DEF Met
      <4> QED BY <4>1, <4>2, <4>3
    <3>4. Met(s, kept, w, FALSE, k + 1)
      BY <1>1, <3>3 DEF Met
    <3>5. pp2 = Stop(s, it, Null, k + 1 - 1)
      BY <2>1, <2>2, <3>2
    <3>6. k + 1 \in 1 .. Len(s) + 1
      BY <3>2
    <3>7. PICK m \in 1 .. Len(s) + 1 : m = k + 1
      BY <3>6
    <3>8. pp2 = Stop(s, it, Null, m - 1)
      BY <3>5, <3>7
    <3>9. Met(s, kept, w, FALSE, m)
      BY <3>4, <3>7
    <3> QED BY <3>8, <3>9
  <2>3. CASE nx[pp] # nd
    <3>1. nd \notin kept
      BY <1>1, <1>2, <2>1, <2>3 DEF Stop
    <3>2. Met(s, kept, w, FALSE, k)
      BY <1>1, <3>1 DEF Met
    <3>3. pp2 = Stop(s, it, Null, k - 1)
      BY <1>1, <2>3
    <3> QED BY <1>1, <3>2, <3>3
  <2> QED BY <2>2, <2>3
<1>6. nd2 = Stop(s, it, Null, m)
  <2>1. m - 1 \in 0 .. Len(s) /\ m - 1 + 1 = m
    BY <1>2, <1>5
  <2> QED BY <1>4, <1>5, <2>1
<1>7. CASE m = Len(s) + 1
  <2>1. nd2 = Null
    BY <1>2, <1>6, <1>7 DEF Stop
  <2>2. kept \subseteq w /\ kept \subseteq Nodes
    <3> SUFFICES ASSUME NEW x \in kept PROVE x \in w /\ x \in Nodes
      OBVIOUS
    <3>1. PICK i \in 1 .. Len(s) : s[i] = x
      BY <1>5 DEF Met
    <3>2. Behind(FALSE, i, m)
      BY <1>2, <1>7 DEF Behind
    <3>3. s[i] \in kept
      BY <3>1
    <3>4. s[i] \in w
      BY <1>5, <3>2, <3>3 DEF Met
    <3>5. s[i] \in Nodes
      BY <1>2
    <3> QED BY <3>1, <3>4, <3>5
  <2> QED BY <1>2, <2>1, <2>2 DEF SIterating
<1>8. CASE m # Len(s) + 1
  <2>1. m \in 1 .. Len(s) /\ m =< Len(s) /\ nd2 = s[m] /\ nd2 \in Nodes
    BY <1>2, <1>5, <1>6, <1>8 DEF Stop
  <2>2. ~Behind(FALSE, m, m)
    BY <1>2, <1>5 DEF Behind
  <2>3. nd2 \in kept => nd2 \notin w
    BY <1>5, <2>1, <2>2 DEF Met
  <2>4. SIterating(H, ls, it, nd2, pp2, kept, w)
    BY <1>2, <1>5, <2>1 DEF SIterating
  <2> QED BY <2>3, <2>4
<1> QED BY <1>7, <1>8

LEMMA BeginSIterating ==
  ASSUME NEW H, NEW ls, NEW nx, NEW it \in H, NEW nd, NEW kept,
         Good(H, ls), Leads(H, ls, nx, Ends(H, Null)), Null \notin Nodes,
         kept = {ls[it][i] : i \in 1 .. Len(ls[it])}, nd = nx[it]
  PROVE  SIterating(H, ls, it, nd, it, kept, {})
<1> DEFINE s == ls[it]
<1>1. s \in Seq(Nodes) /\ Len(s) \in Nat
  BY DEF Good
<1>2. nd = Stop(s, it, Null, 1)
  <2>1. nx[Stop(s, it, Null, 0)] = Stop(s, it, Null, 0 + 1)
    BY <1>1 DEF Leads, Ends
  <2>2. Stop(s, it, Null, 0) = it /\ 0 + 1 = 1
    BY DEF Stop
  <2> QED BY <2>1, <2>2
<1>3. CASE s = <<>>
  <2>1. nd = Null
    BY <1>2, <1>3 DEF Stop
  <2>2. kept = {}
    BY <1>3
  <2> QED BY <2>1, <2>2 DEF SIterating
<1>4. CASE s # <<>>
  <2>1. 1 \in 1 .. Len(s) /\ 1 =< Len(s) /\ 1 \in 1 .. Len(s) + 1 /\ 1 - 1 = 0
    BY <1>1, <1>4
  <2>2. nd = s[1] /\ nd \in Nodes
    BY <1>1, <1>2, <2>1 DEF Stop
  <2>3. Met(s, kept, {}, FALSE, 1)
    BY DEF Met, Behind
  <2>4. it = Stop(s, it, Null, 1 - 1)
    BY <2>1 DEF Stop
  <2> QED BY <2>1, <2>2, <2>3, <2>4 DEF SIterating
<1> QED BY <1>3, <1>4

-----------------------------------------------------------------------------
(* What the calls do to the lists, for the lists of the heads H.           *)

PutsAt(H, l, k, n) ==
  /\ \A m \in H : n \notin {lists[m][i] : i \in 1 .. Len(lists[m])}
  /\ lists' = [lists EXCEPT ![l] = SubSeq(@, 1, k - 1) \o <<n>> \o SubSeq(@, k, Len(@))]

TakesAt(l, k, n) ==
  /\ lists[l][k] = n
  /\ lists' = [lists EXCEPT ![l] = SubSeq(@, 1, k - 1) \o SubSeq(@, k + 1, Len(@))]

TakesFirst(l) == lists' = [lists EXCEPT ![l] = SubSeq(@, 2, Len(@))]

LEMMA PutsAtPlace ==
  ASSUME NEW H, Good(H, lists), NEW l \in H, NEW k \in 1 .. Len(lists[l]) + 1, NEW n \in Nodes,
         PutsAt(H, l, k, n)
  PROVE  Put(H, lists, lists', l, k, n)
<1> DEFINE t == SubSeq(lists[l], 1, k - 1) \o <<n>> \o SubSeq(lists[l], k, Len(lists[l]))
<1>1. lists \in [H -> Seq(Nodes)] /\ lists[l] \in Seq(Nodes)
  BY DEF Good
<1>2. t \in Seq(Nodes) /\ IsPut(t, lists[l], k, n)
  BY <1>1, PutIs
<1>3. lists' = [lists EXCEPT ![l] = t]
  BY DEF PutsAt
<1> HIDE DEF t
<1>4. lists' \in [H -> Seq(Nodes)] /\ lists'[l] = t /\ \A m \in H : m # l => lists'[m] = lists[m]
  BY <1>1, <1>2, <1>3
<1>5. \A m \in H : \A i \in 1 .. Len(lists[m]) : lists[m][i] # n
  BY DEF PutsAt
<1> QED BY <1>2, <1>4, <1>5 DEF Put

LEMMA TakesAtPlace ==
  ASSUME NEW H, Good(H, lists), NEW l \in H, NEW k \in 1 .. Len(lists[l]), NEW n, TakesAt(l, k, n)
  PROVE  Take(H, lists, lists', l, k, n)
<1> DEFINE t == SubSeq(lists[l], 1, k - 1) \o SubSeq(lists[l], k + 1, Len(lists[l]))
<1>1. lists \in [H -> Seq(Nodes)] /\ lists[l] \in Seq(Nodes)
  BY DEF Good
<1>2. t \in Seq(Nodes) /\ IsTaken(t, lists[l], k)
  BY <1>1, TakenIs
<1>3. lists' = [lists EXCEPT ![l] = t]
  BY DEF TakesAt
<1> HIDE DEF t
<1>4. lists' \in [H -> Seq(Nodes)] /\ lists'[l] = t /\ \A m \in H : m # l => lists'[m] = lists[m]
  BY <1>1, <1>2, <1>3
<1> QED BY <1>2, <1>4 DEF Take, TakesAt

LEMMA TakesFirstPlace ==
  ASSUME NEW H, Good(H, lists), NEW l \in H, lists[l] # <<>>, TakesFirst(l)
  PROVE  Take(H, lists, lists', l, 1, lists[l][1])
<1> DEFINE t == SubSeq(lists[l], 2, Len(lists[l]))
<1>1. lists \in [H -> Seq(Nodes)] /\ lists[l] \in Seq(Nodes)
  BY DEF Good
<1>2. t \in Seq(Nodes) /\ IsTaken(t, lists[l], 1) /\ 1 \in 1 .. Len(lists[l])
  BY <1>1, FirstTakenIs
<1>3. lists' = [lists EXCEPT ![l] = t]
  BY DEF TakesFirst
<1> HIDE DEF t
<1>4. lists' \in [H -> Seq(Nodes)] /\ lists'[l] = t /\ \A m \in H : m # l => lists'[m] = lists[m]
  BY <1>1, <1>2, <1>3
<1> QED BY <1>2, <1>4 DEF Take

-----------------------------------------------------------------------------
(* wuy_list.h and wuy_nop_list.h.                                          *)

Room(H) == H \cup Nodes \cup {Null}

Cursor == <<iter, reverse, node, safe, visited, stayed>>

ListGood(H) ==
  /\ Good(H, lists)
  /\ next \in [H \cup Nodes -> Room(H)] /\ prev \in [H \cup Nodes -> Room(H)]
  /\ Leads(H, lists, next, Itself(H))
  /\ Backs(H, lists, prev, Itself(H))
  /\ Lasts(H, lists, prev, Itself(H))
  /\ reverse \in BOOLEAN
  /\ iter # None => Iterating(H, lists, Itself(H), iter, reverse, node, safe, stayed, visited)

\* The node met is new among those that stay.
MeetsNew == iter # None /\ iter' = iter /\ node' # node => node' \notin visited' \cap stayed

\* n comes between p and q.
ListPut(H, l, k, n) ==
  LET p == Stop(lists[l], l, l, k - 1)
      q == Stop(lists[l], l, l, k)
  IN  /\ Put(H, lists, lists', l, k, n)
      /\ next' = [next EXCEPT ![n] = q, ![p] = n]
      /\ prev' = [prev EXCEPT ![n] = p, ![q] = n]
      /\ UNCHANGED Cursor

ListTake(H, l, k, n, a, b) ==
  LET p == Stop(lists[l], l, l, k - 1)
      q == Stop(lists[l], l, l, k + 1)
  IN  /\ Take(H, lists, lists', l, k, n) /\ n # safe
      /\ next' = [[next EXCEPT ![p] = q] EXCEPT ![n] = a]
      /\ prev' = [[prev EXCEPT ![q] = p] EXCEPT ![n] = b]
      /\ a \in Room(H) /\ b \in Room(H)
      /\ stayed' = stayed \ {n}
      /\ UNCHANGED <<iter, reverse, node, safe, visited>>

ListBegin(H, l, back) ==
  /\ l \in H /\ back \in BOOLEAN
  /\ iter = None
  /\ iter' = l /\ reverse' = back
  /\ node' = After(back, next, prev, l) /\ safe' = After(back, next, prev, node')
  /\ visited' = {} /\ stayed' = {lists[l][i] : i \in 1 .. Len(lists[l])}
  /\ UNCHANGED <<lists, next, prev>>

ListGoesOn ==
  /\ iter # None /\ node # iter
  /\ visited' = visited \cup {node}
  /\ node' = safe /\ safe' = After(reverse, next, prev, safe)
  /\ UNCHANGED <<lists, next, prev, iter, reverse, stayed>>

ListEnds ==
  /\ iter' = None /\ reverse' = FALSE
  /\ UNCHANGED <<lists, next, prev>>

LEMMA ListPutKeeps ==
  ASSUME NEW H, H \cap Nodes = {}, ListGood(H), NEW l, NEW k, NEW n, ListPut(H, l, k, n)
  PROVE  ListGood(H)' /\ MeetsNew
<1> DEFINE s == lists[l]
           p == Stop(s, l, l, k - 1)
           q == Stop(s, l, l, k)
<1>1. Put(H, lists, lists', l, k, n) /\ Good(H, lists)
  BY DEF ListPut, ListGood
<1>2. /\ l \in H /\ k \in 1 .. Len(s) + 1 /\ n \in Nodes /\ Itself(H)[l] = l /\ s \in Seq(Nodes)
      /\ Len(s) \in Nat /\ k - 1 \in 0 .. Len(s)
  BY <1>1 DEF Put, Itself, Good
<1>3. StopsKnown(H, lists, Itself(H))
  BY <1>1, StopsAreKnown
<1>4. /\ p \in H \cup Nodes /\ q \in H \cup Nodes /\ p # n /\ q # n
      /\ k = Len(s) + 1 => q = l
      /\ k # Len(s) + 1 => q = s[k] /\ q \in Nodes
  <2>1. /\ p \in H \cup Nodes
        /\ k - 1 = 0 => p = l
        /\ k - 1 # 0 => k - 1 \in 1 .. Len(s) /\ p = s[k - 1]
    BY <1>2, <1>3 DEF StopsKnown
  <2>2. /\ k = Len(s) + 1 => q = l
        /\ k # Len(s) + 1 => k \in 1 .. Len(s) /\ q = s[k] /\ s[k] \in Nodes
    BY <1>2 DEF Stop
  <2> HIDE DEF p, q
  <2> QED BY <1>1, <1>2, <2>1, <2>2 DEF Put
<1>5. next' = [next EXCEPT ![n] = q, ![p] = n] /\ prev' = [prev EXCEPT ![n] = p, ![q] = n]
  BY DEF ListPut
<1>6. next \in [H \cup Nodes -> Room(H)] /\ prev \in [H \cup Nodes -> Room(H)]
  BY DEF ListGood
<1> HIDE DEF p, q
<1>7. /\ next' \in [H \cup Nodes -> Room(H)] /\ prev' \in [H \cup Nodes -> Room(H)]
      /\ \A a \in H \cup Nodes : next'[a] = IF a = p THEN n ELSE IF a = n THEN q ELSE next[a]
      /\ \A a \in H \cup Nodes : prev'[a] = IF a = q THEN n ELSE IF a = n THEN p ELSE prev[a]
  BY <1>2, <1>4, <1>5, <1>6 DEF Room
<1>8. NextPut(H, lists, next, next', Itself(H), l, k, n)
  <2>1. \A a \in H \cup Nodes : next'[a] = IF a = n THEN q ELSE IF a = p THEN n ELSE next[a]
    BY <1>4, <1>7
  <2> QED BY <1>2, <2>1 DEF NextPut, p, q
<1>9. BackPut(lists, prev, prev', Itself(H), l, k, n)
  <2>1. \A a \in Nodes : prev'[a] = IF a = n THEN p ELSE IF k =< Len(s) /\ a = s[k] THEN n ELSE prev[a]
    BY <1>2, <1>4, <1>7
  <2>2. p = Stop(s, Itself(H)[l], Itself(H)[l], k - 1)
    BY <1>2 DEF p
  <2> QED BY <2>1, <2>2 DEF BackPut
<1>10. LastPut(H, lists, prev, prev', l, k, n)
  BY <1>2, <1>4, <1>7 DEF LastPut
<1>11. Good(H, lists') /\ Leads(H, lists', next', Itself(H))
  <2>1. Leads(H, lists, next, Itself(H))
    BY DEF ListGood
  <2> QED BY <1>1, <1>8, <2>1, PutGood, PutLeads
<1>12. Backs(H, lists', prev', Itself(H))
  <2>1. Backs(H, lists, prev, Itself(H))
    BY DEF ListGood
  <2> QED BY <1>1, <1>9, <2>1, PutBacks
<1>13. Lasts(H, lists', prev', Itself(H))
  <2>1. Lasts(H, lists, prev, Itself(H))
    BY DEF ListGood
  <2> QED BY <1>1, <1>10, <2>1, PutLasts
<1>14. UNCHANGED Cursor
  BY DEF ListPut
<1>15. reverse \in BOOLEAN
  BY DEF ListGood
<1>16. iter # None => Iterating(H, lists', Itself(H), iter, reverse, node, safe, stayed, visited)
  <2> HAVE iter # None
  <2>1. Iterating(H, lists, Itself(H), iter, reverse, node, safe, stayed, visited)
    BY DEF ListGood
  <2> QED BY <1>1, <1>15, <2>1, PutIterating
<1> QED BY <1>7, <1>11, <1>12, <1>13, <1>14, <1>15, <1>16 DEF ListGood, Cursor, MeetsNew

LEMMA ListTakeKeeps ==
  ASSUME NEW H, H \cap Nodes = {}, ListGood(H), NEW l, NEW k, NEW n, NEW a, NEW b,
         ListTake(H, l, k, n, a, b)
  PROVE  ListGood(H)' /\ MeetsNew
<1> DEFINE s == lists[l]
           p == Stop(s, l, l, k - 1)
           q == Stop(s, l, l, k + 1)
<1>1. Take(H, lists, lists', l, k, n) /\ Good(H, lists) /\ n # safe /\ a \in Room(H) /\ b \in Room(H)
  BY DEF ListTake, ListGood
<1>2. /\ l \in H /\ k \in 1 .. Len(s) /\ n = s[k] /\ n \in Nodes /\ Itself(H)[l] = l /\ s \in Seq(Nodes)
      /\ Len(s) \in Nat /\ k - 1 \in 0 .. Len(s) /\ k \in 0 .. Len(s) /\ k # 0 /\ k # k - 1
  BY <1>1 DEF Take, Itself, Good
<1>3. StopsKnown(H, lists, Itself(H))
  BY <1>1, StopsAreKnown
<1>4. /\ p \in H \cup Nodes /\ q \in H \cup Nodes /\ p # n /\ q # n
      /\ k = Len(s) => q = l
      /\ k # Len(s) => k + 1 \in 1 .. Len(s) /\ q = s[k + 1] /\ q \in Nodes
  <2>1. /\ p \in H \cup Nodes
        /\ k - 1 = 0 => p = l
        /\ k - 1 # 0 => k - 1 \in 1 .. Len(s) /\ p = s[k - 1]
    BY <1>2, <1>3 DEF StopsKnown
  <2>2. /\ k = Len(s) => q = l
        /\ k # Len(s) => k + 1 \in 1 .. Len(s) /\ q = s[k + 1] /\ s[k + 1] \in Nodes
    BY <1>2 DEF Stop
  <2> HIDE DEF p, q
  <2>3. p # n
    <3>1. CASE k - 1 = 0
      BY <1>2, <2>1, <3>1
    <3>2. CASE k - 1 # 0
      BY <1>1, <1>2, <2>1, <3>2 DEF Good
    <3> QED BY <3>1, <3>2
  <2>4. q # n
    <3>1. CASE k = Len(s)
      BY <1>2, <2>2, <3>1
    <3>2. CASE k # Len(s)
      <4>1. k + 1 # k
        BY <1>2
      <4> QED BY <1>1, <1>2, <2>2, <3>2, <4>1 DEF Good
    <3> QED BY <3>1, <3>2
  <2> QED BY <1>2, <2>1, <2>2, <2>3, <2>4
<1>5. /\ next' = [[next EXCEPT ![p] = q] EXCEPT ![n] = a]
      /\ prev' = [[prev EXCEPT ![q] = p] EXCEPT ![n] = b]
  BY DEF ListTake
<1>6. next \in [H \cup Nodes -> Room(H)] /\ prev \in [H \cup Nodes -> Room(H)]
  BY DEF ListGood
<1> HIDE DEF p, q
<1>7. /\ next' \in [H \cup Nodes -> Room(H)] /\ prev' \in [H \cup Nodes -> Room(H)]
      /\ \A c \in H \cup Nodes : c # n => next'[c] = IF c = p THEN q ELSE next[c]
      /\ \A c \in H \cup Nodes : c # n => prev'[c] = IF c = q THEN p ELSE prev[c]
  <2>1. p \in Room(H) /\ q \in Room(H)
    BY <1>4 DEF Room
  <2> QED BY <1>1, <1>2, <1>4, <1>5, <1>6, <2>1
<1>8. NextTaken(H, lists, next, next', Itself(H), l, k, n)
  BY <1>2, <1>7 DEF NextTaken, p, q
<1>9. BackTaken(lists, prev, prev', Itself(H), l, k, n)
  <2>1. \A c \in Nodes : c # n => prev'[c] = IF k < Len(s) /\ c = s[k + 1] THEN p ELSE prev[c]
    BY <1>2, <1>4, <1>7
  <2>2. p = Stop(s, Itself(H)[l], Itself(H)[l], k - 1)
    BY <1>2 DEF p
  <2> QED BY <2>1, <2>2 DEF BackTaken
<1>10. LastTaken(H, lists, prev, prev', Itself(H), l, k)
  <2>1. \A c \in H : prev'[c] = IF c = l /\ k = Len(s) THEN p ELSE prev[c]
    BY <1>2, <1>4, <1>7
  <2>2. p = Stop(s, Itself(H)[l], Itself(H)[l], k - 1)
    BY <1>2 DEF p
  <2> QED BY <2>1, <2>2 DEF LastTaken
<1>11. Good(H, lists') /\ Leads(H, lists', next', Itself(H))
  <2>1. Leads(H, lists, next, Itself(H))
    BY DEF ListGood
  <2> QED BY <1>1, <1>8, <2>1, TakeGood, TakeLeads
<1>12. Backs(H, lists', prev', Itself(H))
  <2>1. Backs(H, lists, prev, Itself(H))
    BY DEF ListGood
  <2> QED BY <1>1, <1>9, <2>1, TakeBacks
<1>13. Lasts(H, lists', prev', Itself(H))
  <2>1. Lasts(H, lists, prev, Itself(H))
    BY DEF ListGood
  <2> QED BY <1>1, <1>10, <2>1, TakeLasts
<1>14. UNCHANGED <<iter, reverse, node, safe, visited>> /\ stayed' = stayed \ {n}
  BY DEF ListTake
<1>15. reverse \in BOOLEAN
  BY DEF ListGood
<1>16. iter # None => Iterating(H, lists', Itself(H), iter, reverse, node, safe, stayed \ {n}, visited)
  <2> HAVE iter # None
  <2>1. Iterating(H, lists, Itself(H), iter, reverse, node, safe, stayed, visited)
    BY DEF ListGood
  <2> QED BY <1>1, <1>15, <2>1, TakeIterating
<1> QED BY <1>7, <1>11, <1>12, <1>13, <1>14, <1>15, <1>16 DEF ListGood, MeetsNew

LEMMA ListWays ==
  ASSUME NEW H, ListGood(H), NEW l \in H, NEW back \in BOOLEAN
  PROVE  Ways(H, lists, Itself(H), next, prev, l, back) /\ Itself(H)[l] = l
BY DEF ListGood, Ways, Itself

LEMMA ListBeginKeeps ==
  ASSUME NEW H, H \cap Nodes = {}, ListGood(H), NEW l, NEW back, ListBegin(H, l, back)
  PROVE  ListGood(H)' /\ MeetsNew
<1>1. /\ l \in H /\ back \in BOOLEAN /\ iter = None /\ iter' = l /\ reverse' = back
      /\ node' = After(back, next, prev, l) /\ safe' = After(back, next, prev, node')
      /\ visited' = {} /\ stayed' = {lists[l][i] : i \in 1 .. Len(lists[l])}
      /\ lists' = lists /\ next' = next /\ prev' = prev
  BY DEF ListBegin
<1>2. Good(H, lists) /\ Ways(H, lists, Itself(H), next, prev, l, back) /\ Itself(H)[l] \notin Nodes
  BY <1>1, ListWays DEF ListGood
<1>3. Iterating(H, lists, Itself(H), l, back, node', safe', stayed', {})
  BY <1>1, <1>2, BeginIterating
<1> QED BY <1>1, <1>3 DEF ListGood, MeetsNew

LEMMA ListGoesOnKeeps ==
  ASSUME NEW H, H \cap Nodes = {}, ListGood(H), ListGoesOn
  PROVE  ListGood(H)' /\ MeetsNew
<1>1. /\ iter # None /\ node # iter /\ visited' = visited \cup {node}
      /\ node' = safe /\ safe' = After(reverse, next, prev, safe)
      /\ lists' = lists /\ next' = next /\ prev' = prev /\ iter' = iter /\ reverse' = reverse
      /\ stayed' = stayed
  BY DEF ListGoesOn
<1>2. Iterating(H, lists, Itself(H), iter, reverse, node, safe, stayed, visited) /\ reverse \in BOOLEAN
  BY <1>1 DEF ListGood
<1>3. iter \in H
  BY <1>2 DEF Iterating
<1>4. /\ Good(H, lists) /\ Ways(H, lists, Itself(H), next, prev, iter, reverse)
      /\ Itself(H)[iter] \notin Nodes /\ node # Itself(H)[iter]
  BY <1>1, <1>2, <1>3, ListWays DEF ListGood
<1>5. /\ Iterating(H, lists, Itself(H), iter, reverse, safe, safe', stayed, visited')
      /\ safe \in stayed => safe \notin visited'
  BY <1>1, <1>2, <1>4, NextIterating
<1> QED BY <1>1, <1>5 DEF ListGood, MeetsNew

LEMMA ListEndKeeps ==
  ASSUME NEW H, ListGood(H), ListEnds
  PROVE  ListGood(H)' /\ MeetsNew
BY DEF ListGood, ListEnds, MeetsNew

LEMMA ListStaysGood ==
  ASSUME NEW H, ListGood(H), UNCHANGED <<lists, next, prev, Cursor>>
  PROVE  ListGood(H)' /\ MeetsNew
BY DEF ListGood, Cursor, MeetsNew

-----------------------------------------------------------------------------
(* What the pointers hold, as places of the lists.                         *)

LEMMA NextIs ==
  ASSUME NEW H, NEW ls, NEW nx, NEW E, Good(H, ls), Leads(H, ls, nx, E), NEW l \in H
  PROVE  /\ nx[l] = Stop(ls[l], l, E[l], 1)
         /\ \A k \in 1 .. Len(ls[l]) : nx[ls[l][k]] = Stop(ls[l], l, E[l], k + 1)
<1>1. Len(ls[l]) \in Nat /\ 0 \in 0 .. Len(ls[l]) /\ 0 + 1 = 1
  BY DEF Good
<1>2. Stop(ls[l], l, E[l], 0) = l
  BY DEF Stop
<1>3. nx[l] = Stop(ls[l], l, E[l], 1)
  BY <1>1, <1>2 DEF Leads
<1>4. ASSUME NEW k \in 1 .. Len(ls[l])
      PROVE  nx[ls[l][k]] = Stop(ls[l], l, E[l], k + 1)
  <2>1. k \in 0 .. Len(ls[l]) /\ k # 0 /\ k # Len(ls[l]) + 1
    BY <1>1
  <2>2. Stop(ls[l], l, E[l], k) = ls[l][k]
    BY <2>1 DEF Stop
  <2> QED BY <2>1, <2>2 DEF Leads
<1> QED BY <1>3, <1>4

LEMMA PrevIs ==
  ASSUME NEW H, NEW ls, NEW pv, Good(H, ls), Backs(H, ls, pv, Itself(H)), NEW l \in H,
         NEW k \in 1 .. Len(ls[l])
  PROVE  pv[ls[l][k]] = Stop(ls[l], l, l, k - 1)
<1>1. Itself(H)[l] = l
  BY DEF Itself
<1> QED BY <1>1 DEF Backs

\* Short of the end, where a list ends does not matter.
LEMMA StopSame ==
  ASSUME NEW S, NEW s \in Seq(S), NEW l, NEW e, NEW f, NEW i \in 0 .. Len(s)
  PROVE  Stop(s, l, e, i) = Stop(s, l, f, i)
<1>1. i # Len(s) + 1
  OBVIOUS
<1> QED BY <1>1 DEF Stop

-----------------------------------------------------------------------------
(* wuy_hlist.h and wuy_nop_hlist.h: lists that end at e.                   *)

HCursor == <<iter, node, safe, visited, stayed>>

HGood(H, e) ==
  /\ Good(H, lists)
  /\ next \in [H \cup Nodes -> Room(H)] /\ prev \in [Nodes -> Room(H)]
  /\ Leads(H, lists, next, Ends(H, e))
  /\ Backs(H, lists, prev, Itself(H))
  /\ iter # None => Iterating(H, lists, Ends(H, e), iter, FALSE, node, safe, stayed, visited)

HPut(H, l, n) ==
  /\ Put(H, lists, lists', l, 1, n)
  /\ next' = [next EXCEPT ![n] = next[l], ![l] = n]
  /\ prev' = [m \in Nodes |-> IF m = n THEN l ELSE IF m = next[l] THEN n ELSE prev[m]]
  /\ UNCHANGED HCursor

HTake(H, l, k, n) ==
  /\ Take(H, lists, lists', l, k, n) /\ n # safe
  /\ next' = [next EXCEPT ![prev[n]] = next[n]]
  /\ prev' = [m \in Nodes |-> IF m = next[n] THEN prev[n] ELSE prev[m]]
  /\ stayed' = stayed \ {n}
  /\ UNCHANGED <<iter, node, safe, visited>>

HBegin(H, e, l) ==
  /\ l \in H /\ iter = None
  /\ iter' = l /\ node' = next[l] /\ safe' = IF next[l] = e THEN e ELSE next[next[l]]
  /\ visited' = {} /\ stayed' = {lists[l][i] : i \in 1 .. Len(lists[l])}
  /\ UNCHANGED <<lists, next, prev>>

HGoesOn(e) ==
  /\ iter # None /\ node # e
  /\ visited' = visited \cup {node}
  /\ node' = safe /\ safe' = IF safe = e THEN e ELSE next[safe]
  /\ UNCHANGED <<lists, next, prev, iter, stayed>>

HEnds == iter' = None /\ UNCHANGED <<lists, next, prev>>

LEMMA HPutKeeps ==
  ASSUME NEW H, NEW e \in Room(H) \ Nodes, H \cap Nodes = {}, HGood(H, e), NEW l, NEW n, HPut(H, l, n)
  PROVE  HGood(H, e)' /\ MeetsNew
<1> DEFINE s == lists[l]
           q == next[l]
<1>1. Put(H, lists, lists', l, 1, n) /\ Good(H, lists)
  BY DEF HPut, HGood
<1>2. /\ l \in H /\ n \in Nodes /\ Itself(H)[l] = l /\ Ends(H, e)[l] = e /\ s \in Seq(Nodes)
      /\ Len(s) \in Nat /\ 1 - 1 = 0 /\ l # n
  BY <1>1 DEF Put, Itself, Ends, Good
<1>3. Leads(H, lists, next, Ends(H, e)) /\ Backs(H, lists, prev, Itself(H))
  BY DEF HGood
<1>4. q = Stop(s, l, e, 1)
  BY <1>1, <1>2, <1>3, NextIs
<1>5. /\ q \in Room(H) /\ q # n
      /\ Len(s) = 0 => q = e
      /\ Len(s) # 0 => 1 \in 1 .. Len(s) /\ 1 =< Len(s) /\ q = s[1]
  <2>1. /\ Len(s) = 0 => q = e
        /\ Len(s) # 0 => 1 \in 1 .. Len(s) /\ 1 =< Len(s) /\ q = s[1] /\ s[1] \in Nodes
    BY <1>2, <1>4 DEF Stop
  <2> HIDE DEF q
  <2> QED BY <1>1, <1>2, <2>1 DEF Put, Room
<1>6. /\ next' = [next EXCEPT ![n] = q, ![l] = n]
      /\ prev' = [m \in Nodes |-> IF m = n THEN l ELSE IF m = q THEN n ELSE prev[m]]
  BY DEF HPut
<1>7. next \in [H \cup Nodes -> Room(H)] /\ prev \in [Nodes -> Room(H)]
  BY DEF HGood
<1> HIDE DEF q
<1>8. /\ next' \in [H \cup Nodes -> Room(H)] /\ prev' \in [Nodes -> Room(H)]
      /\ \A a \in H \cup Nodes : next'[a] = IF a = n THEN q ELSE IF a = l THEN n ELSE next[a]
      /\ \A a \in Nodes : prev'[a] = IF a = n THEN l ELSE IF a = q THEN n ELSE prev[a]
  BY <1>2, <1>5, <1>6, <1>7 DEF Room
<1>9. NextPut(H, lists, next, next', Ends(H, e), l, 1, n)
  <2>1. Stop(s, l, e, 0) = l
    BY DEF Stop
  <2> QED BY <1>2, <1>4, <1>8, <2>1 DEF NextPut
<1>10. BackPut(lists, prev, prev', Itself(H), l, 1, n)
  <2>1. Stop(s, l, l, 0) = l
    BY DEF Stop
  <2>2. \A a \in Nodes : prev'[a] = IF a = n THEN l ELSE IF 1 =< Len(s) /\ a = s[1] THEN n ELSE prev[a]
    BY <1>2, <1>5, <1>8
  <2> QED BY <1>2, <2>1, <2>2 DEF BackPut
<1>11. Good(H, lists') /\ Leads(H, lists', next', Ends(H, e))
  BY <1>1, <1>3, <1>9, PutGood, PutLeads
<1>12. Backs(H, lists', prev', Itself(H))
  BY <1>1, <1>3, <1>10, PutBacks
<1>13. UNCHANGED HCursor
  BY DEF HPut
<1>14. iter # None => Iterating(H, lists', Ends(H, e), iter, FALSE, node, safe, stayed, visited)
  <2> HAVE iter # None
  <2>1. Iterating(H, lists, Ends(H, e), iter, FALSE, node, safe, stayed, visited)
    BY DEF HGood
  <2>2. FALSE \in BOOLEAN
    OBVIOUS
  <2> QED BY <1>1, <2>1, <2>2, PutIterating
<1> QED BY <1>8, <1>11, <1>12, <1>13, <1>14 DEF HGood, HCursor, MeetsNew

LEMMA HTakeKeeps ==
  ASSUME NEW H, NEW e \in Room(H) \ Nodes, H \cap Nodes = {}, HGood(H, e), NEW l, NEW k, NEW n,
         HTake(H, l, k, n)
  PROVE  HGood(H, e)' /\ MeetsNew
<1> DEFINE s == lists[l]
           p == prev[n]
           q == next[n]
<1>1. Take(H, lists, lists', l, k, n) /\ Good(H, lists) /\ n # safe
  BY DEF HTake, HGood
<1>2. /\ l \in H /\ k \in 1 .. Len(s) /\ n = s[k] /\ n \in Nodes /\ Itself(H)[l] = l /\ Ends(H, e)[l] = e
      /\ s \in Seq(Nodes) /\ Len(s) \in Nat /\ k - 1 \in 0 .. Len(s) /\ k \in 0 .. Len(s) /\ k # 0
  BY <1>1 DEF Take, Itself, Ends, Good
<1>3. Leads(H, lists, next, Ends(H, e)) /\ Backs(H, lists, prev, Itself(H))
  BY DEF HGood
<1>4. q = Stop(s, l, e, k + 1)
  BY <1>1, <1>2, <1>3, NextIs
<1>5. p = Stop(s, l, l, k - 1) /\ p = Stop(s, l, e, k - 1)
  <2>1. p = Stop(s, l, l, k - 1)
    BY <1>1, <1>2, <1>3, PrevIs
  <2> QED BY <1>2, <2>1, StopSame
<1>6. StopsKnown(H, lists, Ends(H, e))
  BY <1>1, StopsAreKnown
<1>7. /\ p \in H \cup Nodes /\ q \in Room(H)
      /\ k = Len(s) => q = e
      /\ k # Len(s) => k + 1 \in 1 .. Len(s) /\ q = s[k + 1]
  <2>1. p \in H \cup Nodes
    BY <1>2, <1>5, <1>6 DEF StopsKnown
  <2>2. /\ k = Len(s) => q = e
        /\ k # Len(s) => k + 1 \in 1 .. Len(s) /\ q = s[k + 1] /\ s[k + 1] \in Nodes
    BY <1>2, <1>4 DEF Stop
  <2> HIDE DEF p, q
  <2> QED BY <1>2, <2>1, <2>2 DEF Room
<1>8. /\ next' = [next EXCEPT ![p] = q]
      /\ prev' = [m \in Nodes |-> IF m = q THEN p ELSE prev[m]]
  BY DEF HTake
<1>9. next \in [H \cup Nodes -> Room(H)] /\ prev \in [Nodes -> Room(H)]
  BY DEF HGood
<1> HIDE DEF p, q
<1>10. /\ next' \in [H \cup Nodes -> Room(H)] /\ prev' \in [Nodes -> Room(H)]
       /\ \A a \in H \cup Nodes : next'[a] = IF a = p THEN q ELSE next[a]
       /\ \A a \in Nodes : prev'[a] = IF a = q THEN p ELSE prev[a]
  BY <1>2, <1>7, <1>8, <1>9 DEF Room
<1>11. NextTaken(H, lists, next, next', Ends(H, e), l, k, n)
  BY <1>2, <1>4, <1>5, <1>10 DEF NextTaken
<1>12. BackTaken(lists, prev, prev', Itself(H), l, k, n)
  <2>1. \A a \in Nodes : a # n => prev'[a] = IF k < Len(s) /\ a = s[k + 1] THEN p ELSE prev[a]
    BY <1>2, <1>7, <1>10
  <2> QED BY <1>2, <1>5, <2>1 DEF BackTaken
<1>13. Good(H, lists') /\ Leads(H, lists', next', Ends(H, e))
  BY <1>1, <1>3, <1>11, TakeGood, TakeLeads
<1>14. Backs(H, lists', prev', Itself(H))
  BY <1>1, <1>3, <1>12, TakeBacks
<1>15. UNCHANGED <<iter, node, safe, visited>> /\ stayed' = stayed \ {n}
  BY DEF HTake
<1>16. iter # None => Iterating(H, lists', Ends(H, e), iter, FALSE, node, safe, stayed \ {n}, visited)
  <2> HAVE iter # None
  <2>1. Iterating(H, lists, Ends(H, e), iter, FALSE, node, safe, stayed, visited)
    BY DEF HGood
  <2>2. FALSE \in BOOLEAN
    OBVIOUS
  <2> QED BY <1>1, <2>1, <2>2, TakeIterating
<1> QED BY <1>10, <1>13, <1>14, <1>15, <1>16 DEF HGood, MeetsNew

LEMMA HWays ==
  ASSUME NEW H, NEW e, HGood(H, e), NEW l \in H
  PROVE  Ways(H, lists, Ends(H, e), next, prev, l, FALSE) /\ Ends(H, e)[l] = e
BY DEF HGood, Ways, Ends

LEMMA HBeginKeeps ==
  ASSUME NEW H, NEW e \in Room(H) \ Nodes, HGood(H, e), NEW l, HBegin(H, e, l)
  PROVE  HGood(H, e)' /\ MeetsNew
<1>1. /\ l \in H /\ iter = None /\ iter' = l /\ node' = next[l]
      /\ safe' = IF next[l] = e THEN e ELSE next[next[l]]
      /\ visited' = {} /\ stayed' = {lists[l][i] : i \in 1 .. Len(lists[l])}
      /\ lists' = lists /\ next' = next /\ prev' = prev
  BY DEF HBegin
<1>2. /\ Good(H, lists) /\ Ways(H, lists, Ends(H, e), next, prev, l, FALSE)
      /\ Ends(H, e)[l] = e /\ Ends(H, e)[l] \notin Nodes /\ FALSE \in BOOLEAN
  BY <1>1, HWays DEF HGood
<1>3. node' = After(FALSE, next, prev, l) /\ (node' \in Nodes => safe' = After(FALSE, next, prev, node'))
  BY <1>1 DEF After
<1>4. Iterating(H, lists, Ends(H, e), l, FALSE, node', safe', stayed', {})
  BY <1>1, <1>2, <1>3, BeginIterating
<1> QED BY <1>1, <1>4 DEF HGood, MeetsNew

LEMMA HGoesOnKeeps ==
  ASSUME NEW H, NEW e \in Room(H) \ Nodes, HGood(H, e), HGoesOn(e)
  PROVE  HGood(H, e)' /\ MeetsNew
<1>1. /\ iter # None /\ node # e /\ visited' = visited \cup {node}
      /\ node' = safe /\ safe' = IF safe = e THEN e ELSE next[safe]
      /\ lists' = lists /\ next' = next /\ prev' = prev /\ iter' = iter /\ stayed' = stayed
  BY DEF HGoesOn
<1>2. Iterating(H, lists, Ends(H, e), iter, FALSE, node, safe, stayed, visited)
  BY <1>1 DEF HGood
<1>3. iter \in H
  BY <1>2 DEF Iterating
<1>4. /\ Good(H, lists) /\ Ways(H, lists, Ends(H, e), next, prev, iter, FALSE)
      /\ Ends(H, e)[iter] \notin Nodes /\ node # Ends(H, e)[iter] /\ FALSE \in BOOLEAN
  BY <1>1, <1>3, HWays DEF HGood
<1>5. safe \in Nodes => safe' = After(FALSE, next, prev, safe)
  BY <1>1 DEF After
<1>6. /\ Iterating(H, lists, Ends(H, e), iter, FALSE, safe, safe', stayed, visited')
      /\ safe \in stayed => safe \notin visited'
  <2> DEFINE w == visited'
             x == safe'
             E == Ends(H, e)
             back == FALSE
  <2>1. w = visited \cup {node} /\ back \in BOOLEAN
    BY <1>1
  <2>2. safe \in Nodes => x = After(back, next, prev, safe)
    BY <1>5
  <2>3. /\ Good(H, lists) /\ Ways(H, lists, E, next, prev, iter, back)
        /\ Iterating(H, lists, E, iter, back, node, safe, stayed, visited)
        /\ node # E[iter] /\ E[iter] \notin Nodes
    BY <1>2, <1>4
  <2> HIDE DEF w, x, E, back
  <2>4. /\ Iterating(H, lists, E, iter, back, safe, x, stayed, w)
        /\ safe \in stayed => safe \notin w
    BY <2>1, <2>2, <2>3, NextIterating
  <2> QED BY <2>4 DEF w, x, E, back
<1> QED BY <1>1, <1>6 DEF HGood, MeetsNew

LEMMA HEndKeeps ==
  ASSUME NEW H, NEW e, HGood(H, e), HEnds
  PROVE  HGood(H, e)' /\ MeetsNew
BY DEF HGood, HEnds, MeetsNew

LEMMA HStaysGood ==
  ASSUME NEW H, NEW e, HGood(H, e), UNCHANGED <<lists, next, prev, HCursor>>
  PROVE  HGood(H, e)' /\ MeetsNew
BY DEF HGood, HCursor, MeetsNew

-----------------------------------------------------------------------------
(* wuy_slist.h: prev is the last node of each list, safe is pprev.         *)

SGood(H) ==
  /\ Good(H, lists)
  /\ next \in [H \cup Nodes -> Room(H)] /\ prev \in [H -> Room(H)]
  /\ Leads(H, lists, next, Ends(H, Null))
  /\ Lasts(H, lists, prev, Ends(H, Null))
  /\ iter # None => SIterating(H, lists, iter, node, safe, stayed, visited)

SPut(H, l, k, n) ==
  /\ Put(H, lists, lists', l, k, n)
  /\ next' \in [H \cup Nodes -> Room(H)] /\ prev' \in [H -> Room(H)]
  /\ NextPut(H, lists, next, next', Ends(H, Null), l, k, n)
  /\ LastPut(H, lists, prev, prev', l, k, n)
  /\ k = Len(lists[l]) + 1 \/ safe # Stop(lists[l], l, Null, k - 1)
  /\ UNCHANGED HCursor

STake(H, l, k, n) ==
  /\ Take(H, lists, lists', l, k, n) /\ safe # n
  /\ next' \in [H \cup Nodes -> Room(H)] /\ prev' \in [H -> Room(H)]
  /\ NextTaken(H, lists, next, next', Ends(H, Null), l, k, n)
  /\ LastTaken(H, lists, prev, prev', Ends(H, Null), l, k)
  /\ stayed' = stayed \ {n}
  /\ UNCHANGED <<iter, node, safe, visited>>

SBegin(H, l) ==
  /\ l \in H /\ iter = None
  /\ iter' = l /\ safe' = l /\ node' = next[l]
  /\ visited' = {} /\ stayed' = {lists[l][i] : i \in 1 .. Len(lists[l])}
  /\ UNCHANGED <<lists, next, prev>>

SGoesOn ==
  /\ iter # None /\ node # Null
  /\ visited' = visited \cup {node}
  /\ safe' = IF next[safe] = node THEN node ELSE safe
  /\ node' = next[safe']
  /\ UNCHANGED <<lists, next, prev, iter, stayed>>

LEMMA SPutKeeps ==
  ASSUME NEW H, H \cap Nodes = {}, SGood(H), NEW l, NEW k, NEW n, SPut(H, l, k, n)
  PROVE  SGood(H)' /\ MeetsNew
<1>1. /\ Put(H, lists, lists', l, k, n) /\ Good(H, lists)
      /\ NextPut(H, lists, next, next', Ends(H, Null), l, k, n)
      /\ LastPut(H, lists, prev, prev', l, k, n)
      /\ Leads(H, lists, next, Ends(H, Null)) /\ Lasts(H, lists, prev, Ends(H, Null))
      /\ k = Len(lists[l]) + 1 \/ safe # Stop(lists[l], l, Null, k - 1)
  BY DEF SPut, SGood
<1>2. Good(H, lists') /\ Leads(H, lists', next', Ends(H, Null))
  BY <1>1, PutGood, PutLeads
<1>3. Lasts(H, lists', prev', Ends(H, Null))
  BY <1>1, PutLasts
<1>4. iter # None => SIterating(H, lists', iter, node, safe, stayed, visited)
  <2> HAVE iter # None
  <2>1. SIterating(H, lists, iter, node, safe, stayed, visited)
    BY DEF SGood
  <2> QED BY <1>1, <2>1, PutSIterating
<1> QED BY <1>2, <1>3, <1>4 DEF SGood, SPut, HCursor, MeetsNew

LEMMA STakeKeeps ==
  ASSUME NEW H, H \cap Nodes = {}, SGood(H), NEW l, NEW k, NEW n, STake(H, l, k, n)
  PROVE  SGood(H)' /\ MeetsNew
<1>1. /\ Take(H, lists, lists', l, k, n) /\ Good(H, lists) /\ safe # n
      /\ NextTaken(H, lists, next, next', Ends(H, Null), l, k, n)
      /\ LastTaken(H, lists, prev, prev', Ends(H, Null), l, k)
      /\ Leads(H, lists, next, Ends(H, Null)) /\ Lasts(H, lists, prev, Ends(H, Null))
  BY DEF STake, SGood
<1>2. Good(H, lists') /\ Leads(H, lists', next', Ends(H, Null))
  BY <1>1, TakeGood, TakeLeads
<1>3. Lasts(H, lists', prev', Ends(H, Null))
  BY <1>1, TakeLasts
<1>4. iter # None => SIterating(H, lists', iter, node, safe, stayed \ {n}, visited)
  <2> HAVE iter # None
  <2>1. SIterating(H, lists, iter, node, safe, stayed, visited)
    BY DEF SGood
  <2> QED BY <1>1, <2>1, TakeSIterating
<1> QED BY <1>2, <1>3, <1>4 DEF SGood, STake, MeetsNew

LEMMA SBeginKeeps ==
  ASSUME NEW H, Null \notin Nodes, SGood(H), NEW l, SBegin(H, l)
  PROVE  SGood(H)' /\ MeetsNew
<1>1. /\ l \in H /\ iter = None /\ iter' = l /\ safe' = l /\ node' = next[l]
      /\ visited' = {} /\ stayed' = {lists[l][i] : i \in 1 .. Len(lists[l])}
      /\ lists' = lists /\ next' = next /\ prev' = prev
  BY DEF SBegin
<1>2. Good(H, lists) /\ Leads(H, lists, next, Ends(H, Null))
  BY DEF SGood
<1>3. SIterating(H, lists, l, node', l, stayed', {})
  BY <1>1, <1>2, BeginSIterating
<1> QED BY <1>1, <1>3 DEF SGood, MeetsNew

LEMMA SGoesOnKeeps ==
  ASSUME NEW H, Null \notin Nodes, SGood(H), SGoesOn
  PROVE  SGood(H)' /\ MeetsNew
<1>1. /\ iter # None /\ node # Null /\ visited' = visited \cup {node}
      /\ safe' = IF next[safe] = node THEN node ELSE safe
      /\ node' = next[safe']
      /\ lists' = lists /\ next' = next /\ prev' = prev /\ iter' = iter /\ stayed' = stayed
  BY DEF SGoesOn
<1>2. /\ Good(H, lists) /\ Leads(H, lists, next, Ends(H, Null))
      /\ SIterating(H, lists, iter, node, safe, stayed, visited)
  BY <1>1 DEF SGood
<1>3. /\ SIterating(H, lists, iter, node', safe', stayed, visited')
      /\ node' \in stayed => node' \notin visited'
  <2> DEFINE w == visited'
             x == node'
             y == safe'
  <2>1. w = visited \cup {node} /\ (y = IF next[safe] = node THEN node ELSE safe) /\ x = next[y]
    BY <1>1
  <2>2. node # Null
    BY <1>1
  <2> HIDE DEF w, x, y
  <2>3. SIterating(H, lists, iter, x, y, stayed, w) /\ (x \in stayed => x \notin w)
    BY <1>2, <2>1, <2>2, NextSIterating
  <2> QED BY <2>3 DEF w, x, y
<1> QED BY <1>1, <1>3 DEF SGood, MeetsNew

LEMMA SEndKeeps ==
  ASSUME NEW H, SGood(H), HEnds
  PROVE  SGood(H)' /\ MeetsNew
BY DEF SGood, HEnds, MeetsNew

LEMMA SStaysGood ==
  ASSUME NEW H, SGood(H), UNCHANGED <<lists, next, prev, HCursor>>
  PROVE  SGood(H)' /\ MeetsNew
BY DEF SGood, HCursor, MeetsNew

-----------------------------------------------------------------------------
(* The calls of wuy_list.h, for the lists of the heads H.                  *)

Between(n, p, q) ==
  /\ next' = [next EXCEPT ![n] = q, ![p] = n]
  /\ prev' = [prev EXCEPT ![n] = p, ![q] = n]
  /\ UNCHANGED Cursor

Unlinks(n, a, b) ==
  /\ n # safe
  /\ next' = [[next EXCEPT ![prev[n]] = next[n]] EXCEPT ![n] = a]
  /\ prev' = [[prev EXCEPT ![next[n]] = prev[n]] EXCEPT ![n] = b]
  /\ stayed' = stayed \ {n}
  /\ UNCHANGED <<iter, reverse, node, safe, visited>>

\* What next and prev hold, in the terms of ListPut and ListTake.
LEMMA ListPointers ==
  ASSUME NEW H, ListGood(H), NEW l \in H
  PROVE  /\ Good(H, lists) /\ lists[l] \in Seq(Nodes) /\ Len(lists[l]) \in Nat
         /\ next[l] = Stop(lists[l], l, l, 1)
         /\ prev[l] = Stop(lists[l], l, l, Len(lists[l]))
         /\ \A k \in 1 .. Len(lists[l]) :
              /\ lists[l][k] = Stop(lists[l], l, l, k)
              /\ next[lists[l][k]] = Stop(lists[l], l, l, k + 1)
              /\ prev[lists[l][k]] = Stop(lists[l], l, l, k - 1)
<1>1. /\ Good(H, lists) /\ Leads(H, lists, next, Itself(H)) /\ Backs(H, lists, prev, Itself(H))
      /\ Lasts(H, lists, prev, Itself(H)) /\ Itself(H)[l] = l
  BY DEF ListGood, Itself
<1>2. lists[l] \in Seq(Nodes) /\ Len(lists[l]) \in Nat
  BY <1>1 DEF Good
<1>3. prev[l] = Stop(lists[l], l, l, Len(lists[l]))
  BY <1>1 DEF Lasts
<1>4. ASSUME NEW k \in 1 .. Len(lists[l])
      PROVE  /\ lists[l][k] = Stop(lists[l], l, l, k)
             /\ prev[lists[l][k]] = Stop(lists[l], l, l, k - 1)
  <2>1. k # 0 /\ k # Len(lists[l]) + 1
    BY <1>2
  <2>2. prev[lists[l][k]] = Stop(lists[l], l, l, k - 1)
    BY <1>1, PrevIs
  <2> QED BY <2>1, <2>2 DEF Stop
<1>5. /\ next[l] = Stop(lists[l], l, Itself(H)[l], 1)
      /\ \A k \in 1 .. Len(lists[l]) : next[lists[l][k]] = Stop(lists[l], l, Itself(H)[l], k + 1)
  BY <1>1, NextIs
<1> QED BY <1>1, <1>2, <1>3, <1>4, <1>5

LEMMA AddKeeps ==
  ASSUME NEW H, H \cap Nodes = {}, ListGood(H), NEW l \in H, NEW k \in 1 .. Len(lists[l]) + 1,
         NEW n \in Nodes, PutsAt(H, l, k, n), NEW p, NEW q, Between(n, p, q),
         p = Stop(lists[l], l, l, k - 1), q = Stop(lists[l], l, l, k)
  PROVE  ListGood(H)' /\ MeetsNew
<1>1. Put(H, lists, lists', l, k, n)
  BY PutsAtPlace DEF ListGood
<1>2. ListPut(H, l, k, n)
  BY <1>1 DEF ListPut, Between
<1> QED BY <1>2, ListPutKeeps

LEMMA InsertKeeps ==
  ASSUME NEW H, H \cap Nodes = {}, ListGood(H), NEW l \in H, NEW n \in Nodes,
         PutsAt(H, l, 1, n), Between(n, l, next[l])
  PROVE  ListGood(H)' /\ MeetsNew
<1>1. 1 \in 1 .. Len(lists[l]) + 1 /\ next[l] = Stop(lists[l], l, l, 1)
  BY ListPointers
<1>2. l = Stop(lists[l], l, l, 1 - 1)
  BY DEF Stop
<1> QED BY <1>1, <1>2, AddKeeps

LEMMA AppendKeeps ==
  ASSUME NEW H, H \cap Nodes = {}, ListGood(H), NEW l \in H, NEW n \in Nodes,
         PutsAt(H, l, Len(lists[l]) + 1, n), Between(n, prev[l], l)
  PROVE  ListGood(H)' /\ MeetsNew
<1>1. Len(lists[l]) \in Nat /\ prev[l] = Stop(lists[l], l, l, Len(lists[l]))
  BY ListPointers
<1>2. PICK k \in 1 .. Len(lists[l]) + 1 : k = Len(lists[l]) + 1 /\ k - 1 = Len(lists[l]) /\ k # 0
  BY <1>1
<1>3. prev[l] = Stop(lists[l], l, l, k - 1) /\ l = Stop(lists[l], l, l, k)
  BY <1>1, <1>2 DEF Stop
<1>4. PutsAt(H, l, k, n)
  BY <1>2
<1> QED BY <1>3, <1>4, AddKeeps

LEMMA AddAfterKeeps ==
  ASSUME NEW H, H \cap Nodes = {}, ListGood(H), NEW l \in H, NEW k \in 1 .. Len(lists[l]),
         NEW n \in Nodes, NEW d, lists[l][k] = d, PutsAt(H, l, k + 1, n), Between(n, d, next[d])
  PROVE  ListGood(H)' /\ MeetsNew
<1>1. Len(lists[l]) \in Nat /\ d = Stop(lists[l], l, l, k) /\ next[d] = Stop(lists[l], l, l, k + 1)
  BY ListPointers
<1>2. PICK m \in 1 .. Len(lists[l]) + 1 : m = k + 1 /\ m - 1 = k
  BY <1>1
<1>3. d = Stop(lists[l], l, l, m - 1) /\ next[d] = Stop(lists[l], l, l, m)
  BY <1>1, <1>2
<1>4. PutsAt(H, l, m, n)
  BY <1>2
<1> QED BY <1>3, <1>4, AddKeeps

LEMMA AddBeforeKeeps ==
  ASSUME NEW H, H \cap Nodes = {}, ListGood(H), NEW l \in H, NEW k \in 1 .. Len(lists[l]),
         NEW n \in Nodes, NEW d, lists[l][k] = d, PutsAt(H, l, k, n), Between(n, prev[d], d)
  PROVE  ListGood(H)' /\ MeetsNew
<1>1. /\ Len(lists[l]) \in Nat /\ d = Stop(lists[l], l, l, k)
      /\ prev[d] = Stop(lists[l], l, l, k - 1)
  BY ListPointers
<1>2. k \in 1 .. Len(lists[l]) + 1
  BY <1>1
<1> QED BY <1>1, <1>2, AddKeeps

LEMMA DeleteKeeps ==
  ASSUME NEW H, H \cap Nodes = {}, ListGood(H), NEW l \in H, NEW k \in 1 .. Len(lists[l]), NEW n,
         TakesAt(l, k, n), NEW a \in Room(H), NEW b \in Room(H), Unlinks(n, a, b)
  PROVE  ListGood(H)' /\ MeetsNew
<1>1. Take(H, lists, lists', l, k, n) /\ lists[l][k] = n
  BY TakesAtPlace DEF ListGood, TakesAt
<1>2. next[n] = Stop(lists[l], l, l, k + 1) /\ prev[n] = Stop(lists[l], l, l, k - 1)
  BY <1>1, ListPointers
<1>3. ListTake(H, l, k, n, a, b)
  BY <1>1, <1>2 DEF ListTake, Unlinks
<1> QED BY <1>3, ListTakeKeeps

LEMMA PopKeeps ==
  ASSUME NEW H, H \cap Nodes = {}, ListGood(H), NEW l \in H, next[l] # l,
         TakesFirst(l), NEW a \in Room(H), NEW b \in Room(H), Unlinks(next[l], a, b)
  PROVE  ListGood(H)' /\ MeetsNew
<1>1. /\ lists[l] \in Seq(Nodes) /\ Len(lists[l]) \in Nat /\ next[l] = Stop(lists[l], l, l, 1)
      /\ \A k \in 1 .. Len(lists[l]) : /\ next[lists[l][k]] = Stop(lists[l], l, l, k + 1)
                                       /\ prev[lists[l][k]] = Stop(lists[l], l, l, k - 1)
  BY ListPointers
<1>2. lists[l] # <<>>
  <2> SUFFICES ASSUME lists[l] = <<>> PROVE FALSE
    OBVIOUS
  <2>1. Len(lists[l]) = 0
    OBVIOUS
  <2> QED BY <1>1, <2>1 DEF Stop
<1>3. 1 \in 1 .. Len(lists[l]) /\ 1 # Len(lists[l]) + 1
  BY <1>1, <1>2
<1>4. next[l] = lists[l][1]
  BY <1>1, <1>3 DEF Stop
<1> DEFINE n == lists[l][1]
<1>5. Take(H, lists, lists', l, 1, n)
  BY <1>2, TakesFirstPlace DEF ListGood
<1>6. next[n] = Stop(lists[l], l, l, 1 + 1) /\ prev[n] = Stop(lists[l], l, l, 1 - 1)
  BY <1>1, <1>3
<1>7. Unlinks(n, a, b)
  BY <1>4
<1> HIDE DEF n
<1>8. ListTake(H, l, 1, n, a, b)
  BY <1>5, <1>6, <1>7 DEF ListTake, Unlinks
<1> QED BY <1>8, ListTakeKeeps

-----------------------------------------------------------------------------
(* wuy_list.h.                                                             *)

LEMMA LStep ==
  ASSUME ListGood(Heads), L!Next
  PROVE  ListGood(Heads)' /\ MeetsNew
<1> USE NodeListsAssumption
<1>1. ASSUME NEW l \in Heads, NEW n \in Nodes, L!Insert(l, n) PROVE ListGood(Heads)' /\ MeetsNew
  <2>1. PutsAt(Heads, l, 1, n) /\ Between(n, l, next[l])
    BY <1>1 DEF L!Insert, L!PutFirst, L!PutAt, L!Linked, L!In, L!AddBetween, L!cursor, PutsAt, Between, Cursor
  <2> QED BY <2>1, InsertKeeps
<1>2. ASSUME NEW l \in Heads, NEW n \in Nodes, L!AppendTo(l, n) PROVE ListGood(Heads)' /\ MeetsNew
  <2>1. PutsAt(Heads, l, Len(lists[l]) + 1, n) /\ Between(n, prev[l], l)
    BY <1>2 DEF L!AppendTo, L!PutLast, L!PutAt, L!Linked, L!In, L!AddBetween, L!cursor, PutsAt, Between, Cursor
  <2> QED BY <2>1, AppendKeeps
<1>3. ASSUME NEW d \in Nodes, NEW n \in Nodes, L!AddAfter(d, n) PROVE ListGood(Heads)' /\ MeetsNew
  <2>1. PICK l \in Heads : \E k \in 1 .. Len(lists[l]) :
          lists[l][k] = d /\ PutsAt(Heads, l, k + 1, n) /\ Between(n, d, next[d])
    BY <1>3 DEF L!AddAfter, L!PutAfter, L!PutAt, L!Linked, L!In, L!AddBetween, L!cursor, PutsAt, Between, Cursor
  <2>2. PICK k \in 1 .. Len(lists[l]) :
          lists[l][k] = d /\ PutsAt(Heads, l, k + 1, n) /\ Between(n, d, next[d])
    BY <2>1
  <2> QED BY <2>2, AddAfterKeeps
<1>4. ASSUME NEW d \in Nodes, NEW n \in Nodes, L!AddBefore(d, n) PROVE ListGood(Heads)' /\ MeetsNew
  <2>1. PICK l \in Heads : \E k \in 1 .. Len(lists[l]) :
          lists[l][k] = d /\ PutsAt(Heads, l, k, n) /\ Between(n, prev[d], d)
    BY <1>4 DEF L!AddBefore, L!PutBefore, L!PutAt, L!Linked, L!In, L!AddBetween, L!cursor, PutsAt, Between, Cursor
  <2>2. PICK k \in 1 .. Len(lists[l]) :
          lists[l][k] = d /\ PutsAt(Heads, l, k, n) /\ Between(n, prev[d], d)
    BY <2>1
  <2> QED BY <2>2, AddBeforeKeeps
<1>5. ASSUME NEW n \in Nodes, NEW a \in Room(Heads), NEW b \in Room(Heads), L!Deletes(n, a, b)
      PROVE  ListGood(Heads)' /\ MeetsNew
  <2>1. PICK l \in Heads : \E k \in 1 .. Len(lists[l]) : TakesAt(l, k, n) /\ Unlinks(n, a, b)
    BY <1>5 DEF L!Deletes, L!TakeOut, L!Unlink, TakesAt, Unlinks
  <2>2. PICK k \in 1 .. Len(lists[l]) :
          TakesAt(l, k, n) /\ Unlinks(n, a, b)
    BY <2>1
  <2> QED BY <2>2, DeleteKeeps
<1>6. ASSUME UNCHANGED L!listVars PROVE ListGood(Heads)' /\ MeetsNew
  BY <1>6, ListStaysGood DEF L!listVars, L!pointers, L!cursor, Cursor
<1>7. ASSUME NEW n \in Nodes, L!Delete(n) \/ L!DelInit(n) \/ L!DelIf(n) PROVE ListGood(Heads)' /\ MeetsNew
  <2>1. Null \in Room(Heads) /\ n \in Room(Heads) /\ next[n] \in Room(Heads) /\ prev[n] \in Room(Heads)
    BY DEF Room, ListGood
  <2> QED BY <1>5, <1>6, <1>7, <2>1 DEF L!Delete, L!DelInit, L!DelIf
<1>8. ASSUME NEW l \in Heads, L!Pop(l) PROVE ListGood(Heads)' /\ MeetsNew
  <2>1. CASE next[l] # l /\ TakesFirst(l) /\ Unlinks(next[l], Null, Null)
    <3>1. Null \in Room(Heads)
      BY DEF Room
    <3> QED BY <2>1, <3>1, PopKeeps
  <2>2. CASE UNCHANGED L!listVars
    BY <1>6, <2>2
  <2>3. \/ UNCHANGED L!listVars
        \/ next[l] # l /\ TakesFirst(l) /\ Unlinks(next[l], Null, Null)
    BY <1>8 DEF L!Pop, L!Unlink, TakesFirst, Unlinks
  <2> QED BY <2>1, <2>2, <2>3
<1>9. ASSUME NEW l \in Heads, NEW back \in BOOLEAN, L!IterBegin(l, back)
      PROVE  ListGood(Heads)' /\ MeetsNew
  <2>1. ListBegin(Heads, l, back)
    BY <1>9 DEF L!IterBegin, L!Follow, L!In, L!pointers, ListBegin, After
  <2> QED BY <2>1, ListBeginKeeps
<1>10. ASSUME L!IterNext PROVE ListGood(Heads)' /\ MeetsNew
  <2>1. ListGoesOn
    BY <1>10 DEF L!IterNext, L!Follow, L!pointers, ListGoesOn, After
  <2> QED BY <2>1, ListGoesOnKeeps
<1>11. ASSUME L!IterEnd PROVE ListGood(Heads)' /\ MeetsNew
  <2>1. ListEnds
    BY <1>11 DEF L!IterEnd, L!pointers, ListEnds
  <2> QED BY <2>1, ListEndKeeps
<1> QED BY <1>1, <1>2, <1>3, <1>4, <1>7, <1>8, <1>9, <1>10, <1>11 DEF L!Next

-----------------------------------------------------------------------------
(* wuy_nop_list.h: the list l1 is the base of the offsets.                 *)

LEMMA BaseIsHead == {l1} \cap Nodes = {} /\ l1 \notin Nodes /\ l1 \in Heads /\ Null \notin Nodes
BY NodeListsAssumption, ListsAssumption

LEMMA NLStep ==
  ASSUME ListGood({l1}), NL!NopNext
  PROVE  ListGood({l1})' /\ MeetsNew
<1> DEFINE H == {l1}
<1>0. H \cap Nodes = {} /\ l1 \in H /\ ListGood(H)
  BY BaseIsHead
<1>1. ASSUME NEW n \in Nodes, NL!NopInsert(n) PROVE ListGood(H)' /\ MeetsNew
  <2>1. PutsAt(H, l1, 1, n) /\ Between(n, l1, next[l1])
    BY <1>1 DEF NL!NopInsert, NL!O!Insert, NL!O!PutFirst, NL!O!PutAt, NL!O!Linked, NL!O!In,
                NL!O!AddBetween, NL!O!cursor, PutsAt, Between, Cursor
  <2> HIDE DEF H
  <2> QED BY <1>0, <2>1, InsertKeeps
<1>2. ASSUME NEW n \in Nodes, NL!NopAppend(n) PROVE ListGood(H)' /\ MeetsNew
  <2>1. PutsAt(H, l1, Len(lists[l1]) + 1, n) /\ Between(n, prev[l1], l1)
    BY <1>2 DEF NL!NopAppend, NL!O!AppendTo, NL!O!PutLast, NL!O!PutAt, NL!O!Linked, NL!O!In,
                NL!O!AddBetween, NL!O!cursor, PutsAt, Between, Cursor
  <2> HIDE DEF H
  <2> QED BY <1>0, <2>1, AppendKeeps
<1>3. l1 \in Room(H)
  BY DEF Room
<1>4. ASSUME NEW n \in Nodes, NL!NopDelete(n) PROVE ListGood(H)' /\ MeetsNew
  <2>1. PICK l \in H : \E k \in 1 .. Len(lists[l]) : TakesAt(l, k, n) /\ Unlinks(n, l1, l1)
    BY <1>4 DEF NL!NopDelete, NL!O!Delete, NL!O!Deletes, NL!O!TakeOut, NL!O!Unlink, TakesAt, Unlinks
  <2>2. PICK k \in 1 .. Len(lists[l]) : TakesAt(l, k, n) /\ Unlinks(n, l1, l1)
    BY <2>1
  <2> HIDE DEF H
  <2> QED BY <1>0, <1>3, <2>2, DeleteKeeps
<1>5. ASSUME NL!NopPop PROVE ListGood(H)' /\ MeetsNew
  <2>1. \/ UNCHANGED <<lists, next, prev, Cursor>>
        \/ next[l1] # l1 /\ TakesFirst(l1) /\ Unlinks(next[l1], l1, l1)
    BY <1>5 DEF NL!NopPop, NL!O!Pop, NL!O!Unlink, NL!O!listVars, NL!O!pointers, NL!O!cursor, Cursor,
                TakesFirst, Unlinks
  <2>2. CASE next[l1] # l1 /\ TakesFirst(l1) /\ Unlinks(next[l1], l1, l1)
    <3> HIDE DEF H
    <3> QED BY <1>0, <1>3, <2>2, PopKeeps
  <2>3. CASE UNCHANGED <<lists, next, prev, Cursor>>
    BY <2>3, ListStaysGood
  <2> QED BY <2>1, <2>2, <2>3
<1>6. ASSUME NEW back \in BOOLEAN, NL!O!IterBegin(l1, back) PROVE ListGood(H)' /\ MeetsNew
  <2>1. ListBegin(H, l1, back)
    BY <1>6 DEF NL!O!IterBegin, NL!O!Follow, NL!O!In, NL!O!pointers, ListBegin, After
  <2> HIDE DEF H
  <2> QED BY <1>0, <2>1, ListBeginKeeps
<1>7. ASSUME NL!O!IterNext PROVE ListGood(H)' /\ MeetsNew
  <2>1. ListGoesOn
    BY <1>7 DEF NL!O!IterNext, NL!O!Follow, NL!O!pointers, ListGoesOn, After
  <2> HIDE DEF H
  <2> QED BY <1>0, <2>1, ListGoesOnKeeps
<1>8. ASSUME NL!O!IterEnd PROVE ListGood(H)' /\ MeetsNew
  <2>1. ListEnds
    BY <1>8 DEF NL!O!IterEnd, NL!O!pointers, ListEnds
  <2> HIDE DEF H
  <2> QED BY <1>0, <2>1, ListEndKeeps
<1> QED BY <1>1, <1>2, <1>4, <1>5, <1>6, <1>7, <1>8 DEF NL!NopNext, NL!NopIterate

-----------------------------------------------------------------------------
(* The calls of wuy_hlist.h, for the lists of the heads H, and its two     *)
(* instances.                                                              *)

HLinks(l, n) ==
  /\ next' = [next EXCEPT ![n] = next[l], ![l] = n]
  /\ prev' = [m \in Nodes |-> IF m = n THEN l ELSE IF m = next[l] THEN n ELSE prev[m]]
  /\ UNCHANGED HCursor

HUnlinks(n) ==
  /\ n # safe
  /\ next' = [next EXCEPT ![prev[n]] = next[n]]
  /\ prev' = [m \in Nodes |-> IF m = next[n] THEN prev[n] ELSE prev[m]]
  /\ stayed' = stayed \ {n} /\ UNCHANGED <<iter, node, safe, visited>>

LEMMA HInsertKeeps ==
  ASSUME NEW H, NEW e \in Room(H) \ Nodes, H \cap Nodes = {}, HGood(H, e), NEW l \in H, NEW n \in Nodes,
         PutsAt(H, l, 1, n), HLinks(l, n)
  PROVE  HGood(H, e)' /\ MeetsNew
<1>1. Good(H, lists)
  BY DEF HGood
<1>2. 1 \in 1 .. Len(lists[l]) + 1
  BY <1>1 DEF Good
<1>3. Put(H, lists, lists', l, 1, n)
  BY <1>1, <1>2, PutsAtPlace
<1>4. HPut(H, l, n)
  BY <1>3 DEF HPut, HLinks
<1> QED BY <1>4, HPutKeeps

LEMMA HDeleteKeeps ==
  ASSUME NEW H, NEW e \in Room(H) \ Nodes, H \cap Nodes = {}, HGood(H, e), NEW l \in H,
         NEW k \in 1 .. Len(lists[l]), NEW n, TakesAt(l, k, n), HUnlinks(n)
  PROVE  HGood(H, e)' /\ MeetsNew
<1>1. Take(H, lists, lists', l, k, n)
  BY TakesAtPlace DEF HGood
<1>2. HTake(H, l, k, n)
  BY <1>1 DEF HTake, HUnlinks
<1> QED BY <1>2, HTakeKeeps

LEMMA HLStep ==
  ASSUME HGood(Heads, Null), HL!HNext
  PROVE  HGood(Heads, Null)' /\ MeetsNew
<1>0. Null \in Room(Heads) \ Nodes /\ Heads \cap Nodes = {}
  BY NodeListsAssumption DEF Room
<1>1. ASSUME NEW l \in Heads, NEW n \in Nodes, HL!HInsert(l, n) PROVE HGood(Heads, Null)' /\ MeetsNew
  <2>1. PutsAt(Heads, l, 1, n) /\ HLinks(l, n)
    BY <1>1 DEF HL!HInsert, HL!PutFirst, HL!PutAt, HL!Linked, HL!In, HL!cursor, PutsAt, HCursor, HLinks
  <2> QED BY <1>0, <2>1, HInsertKeeps
<1>2. ASSUME NEW n \in Nodes, HL!HDelete(n) PROVE HGood(Heads, Null)' /\ MeetsNew
  <2>1. PICK l \in Heads : \E k \in 1 .. Len(lists[l]) : TakesAt(l, k, n)
    BY <1>2 DEF HL!HDelete, HL!TakeOut, TakesAt
  <2>2. PICK k \in 1 .. Len(lists[l]) : TakesAt(l, k, n)
    BY <2>1
  <2>3. HUnlinks(n)
    BY <1>2 DEF HL!HDelete, HUnlinks
  <2> QED BY <1>0, <2>2, <2>3, HDeleteKeeps
<1>3. ASSUME NEW l \in Heads, HL!HIterBegin(l) PROVE HGood(Heads, Null)' /\ MeetsNew
  <2>1. HBegin(Heads, Null, l)
    BY <1>3 DEF HL!HIterBegin, HL!HAfter, HL!In, HBegin
  <2> QED BY <1>0, <2>1, HBeginKeeps
<1>4. ASSUME HL!HIterNext PROVE HGood(Heads, Null)' /\ MeetsNew
  <2>1. HGoesOn(Null)
    BY <1>4 DEF HL!HIterNext, HL!HAfter, HGoesOn
  <2> QED BY <1>0, <2>1, HGoesOnKeeps
<1>5. ASSUME HL!HIterEnd PROVE HGood(Heads, Null)' /\ MeetsNew
  <2>1. HEnds
    BY <1>5 DEF HL!HIterEnd, HEnds
  <2> QED BY <2>1, HEndKeeps
<1> QED BY <1>1, <1>2, <1>3, <1>4, <1>5 DEF HL!HNext

LEMMA NHLStep ==
  ASSUME HGood({l1}, l1), NHL!NopHNext
  PROVE  HGood({l1}, l1)' /\ MeetsNew
<1> DEFINE H == {l1}
<1>0. l1 \in Room(H) \ Nodes /\ H \cap Nodes = {} /\ l1 \in H /\ HGood(H, l1)
  BY BaseIsHead DEF Room
<1>1. ASSUME NEW n \in Nodes, NHL!NopHInsert(n) PROVE HGood(H, l1)' /\ MeetsNew
  <2>1. PutsAt(H, l1, 1, n) /\ HLinks(l1, n)
    BY <1>1 DEF NHL!NopHInsert, NHL!O!HInsert, NHL!O!PutFirst, NHL!O!PutAt, NHL!O!Linked, NHL!O!In,
                NHL!O!cursor, PutsAt, HCursor, HLinks
  <2> HIDE DEF H
  <2> QED BY <1>0, <2>1, HInsertKeeps
<1>2. ASSUME NEW n \in Nodes, NHL!NopHDelete(n) PROVE HGood(H, l1)' /\ MeetsNew
  <2>1. PICK l \in H : \E k \in 1 .. Len(lists[l]) : TakesAt(l, k, n)
    BY <1>2 DEF NHL!NopHDelete, NHL!O!HDelete, NHL!O!TakeOut, TakesAt
  <2>2. PICK k \in 1 .. Len(lists[l]) : TakesAt(l, k, n)
    BY <2>1
  <2>3. HUnlinks(n)
    BY <1>2 DEF NHL!NopHDelete, NHL!O!HDelete, HUnlinks
  <2> HIDE DEF H
  <2> QED BY <1>0, <2>2, <2>3, HDeleteKeeps
<1>3. ASSUME NHL!O!HIterBegin(l1) PROVE HGood(H, l1)' /\ MeetsNew
  <2>1. HBegin(H, l1, l1)
    BY <1>3 DEF NHL!O!HIterBegin, NHL!O!HAfter, NHL!O!In, HBegin
  <2> HIDE DEF H
  <2> QED BY <1>0, <2>1, HBeginKeeps
<1>4. ASSUME NHL!O!HIterNext PROVE HGood(H, l1)' /\ MeetsNew
  <2>1. HGoesOn(l1)
    BY <1>4 DEF NHL!O!HIterNext, NHL!O!HAfter, HGoesOn
  <2> HIDE DEF H
  <2> QED BY <1>0, <2>1, HGoesOnKeeps
<1>5. ASSUME NHL!O!HIterEnd PROVE HGood(H, l1)' /\ MeetsNew
  <2>1. HEnds
    BY <1>5 DEF NHL!O!HIterEnd, HEnds
  <2> HIDE DEF H
  <2> QED BY <1>0, <2>1, HEndKeeps
<1> QED BY <1>1, <1>2, <1>3, <1>4, <1>5 DEF NHL!NopHNext, NHL!NopHIterate

-----------------------------------------------------------------------------
(* The calls of wuy_slist.h.                                               *)

LEMMA SPointers ==
  ASSUME NEW H, SGood(H), NEW l \in H
  PROVE  /\ Good(H, lists) /\ lists[l] \in Seq(Nodes) /\ Len(lists[l]) \in Nat
         /\ next[l] = Stop(lists[l], l, Null, 1)
         /\ prev[l] = Stop(lists[l], Null, Null, Len(lists[l]))
         /\ \A k \in 1 .. Len(lists[l]) : next[lists[l][k]] = Stop(lists[l], l, Null, k + 1)
<1>1. /\ Good(H, lists) /\ Leads(H, lists, next, Ends(H, Null))
      /\ Lasts(H, lists, prev, Ends(H, Null)) /\ Ends(H, Null)[l] = Null
  BY DEF SGood, Ends
<1>2. lists[l] \in Seq(Nodes) /\ Len(lists[l]) \in Nat
  BY <1>1 DEF Good
<1>3. prev[l] = Stop(lists[l], Null, Null, Len(lists[l]))
  BY <1>1 DEF Lasts
<1>4. /\ next[l] = Stop(lists[l], l, Ends(H, Null)[l], 1)
      /\ \A k \in 1 .. Len(lists[l]) : next[lists[l][k]] = Stop(lists[l], l, Ends(H, Null)[l], k + 1)
  BY <1>1, NextIs
<1> QED BY <1>1, <1>2, <1>3, <1>4

\* n comes to place k, after p and before q; la is the last node then.
SLinks(l, n, p, q, la) ==
  /\ next' = [[next EXCEPT ![p] = n] EXCEPT ![n] = q]
  /\ prev' = [prev EXCEPT ![l] = la]
  /\ UNCHANGED HCursor

LEMMA SLinksKeep ==
  ASSUME NEW H, H \cap Nodes = {}, SGood(H), NEW l \in H, NEW k \in 1 .. Len(lists[l]) + 1,
         NEW n \in Nodes, PutsAt(H, l, k, n), NEW p, NEW q, NEW la, SLinks(l, n, p, q, la),
         p = Stop(lists[l], l, Null, k - 1), q = Stop(lists[l], l, Null, k),
         la = IF k = Len(lists[l]) + 1 THEN n ELSE prev[l],
         k = Len(lists[l]) + 1 \/ safe # p
  PROVE  SGood(H)' /\ MeetsNew
<1> DEFINE s == lists[l]
<1>1. Put(H, lists, lists', l, k, n) /\ Good(H, lists)
  BY PutsAtPlace DEF SGood
<1>2. s \in Seq(Nodes) /\ Len(s) \in Nat /\ l # n /\ Ends(H, Null)[l] = Null
  BY <1>1 DEF Good, Ends
<1>3. next \in [H \cup Nodes -> Room(H)] /\ prev \in [H -> Room(H)]
  BY DEF SGood
<1>4. p \in H \cup Nodes /\ p # n /\ q \in Room(H)
  <2>1. CASE k = 1
    <3>1. p = l
      BY <2>1 DEF Stop
    <3>2. q \in Nodes \cup {Null}
      BY <1>2, <2>1 DEF Stop
    <3> QED BY <1>2, <3>1, <3>2 DEF Room
  <2>2. CASE k # 1
    <3>1. k - 1 \in 1 .. Len(s) /\ k - 1 # 0 /\ k - 1 # Len(s) + 1
      BY <1>2, <2>2
    <3>2. p = s[k - 1] /\ s[k - 1] \in Nodes
      BY <1>2, <3>1 DEF Stop
    <3>3. p # n
      BY <1>1, <3>1, <3>2 DEF Put
    <3>4. q \in Nodes \cup {Null}
      BY <1>2 DEF Stop
    <3> QED BY <3>2, <3>3, <3>4 DEF Room
  <2> QED BY <2>1, <2>2
<1>5. /\ next' \in [H \cup Nodes -> Room(H)]
      /\ \A a \in H \cup Nodes : next'[a] = IF a = n THEN q ELSE IF a = p THEN n ELSE next[a]
  BY <1>3, <1>4 DEF SLinks, Room
<1>6. la \in Room(H)
  BY <1>3 DEF Room
<1>7. /\ prev' \in [H -> Room(H)]
      /\ \A a \in H : prev'[a] = IF a = l THEN la ELSE prev[a]
  BY <1>3, <1>6 DEF SLinks
<1>8. NextPut(H, lists, next, next', Ends(H, Null), l, k, n)
  BY <1>2, <1>5 DEF NextPut
<1>9. LastPut(H, lists, prev, prev', l, k, n)
  BY <1>7 DEF LastPut
<1>10. SPut(H, l, k, n)
  BY <1>1, <1>5, <1>7, <1>8, <1>9 DEF SPut, SLinks
<1> QED BY <1>10, SPutKeeps

\* n goes, which p points to; la is the last node then.
SUnlinks(l, n, p, la) ==
  /\ next' = [[next EXCEPT ![p] = next[n]] EXCEPT ![n] = Null]
  /\ prev' = [prev EXCEPT ![l] = la]
  /\ stayed' = stayed \ {n}
  /\ UNCHANGED <<iter, node, safe, visited>>

LEMMA SUnlinksKeep ==
  ASSUME NEW H, H \cap Nodes = {}, SGood(H), NEW l \in H, NEW k \in 1 .. Len(lists[l]),
         NEW n, Take(H, lists, lists', l, k, n), NEW p, NEW la, SUnlinks(l, n, p, la),
         p = Stop(lists[l], l, Null, k - 1),
         la = IF k = Len(lists[l]) THEN Stop(lists[l], Null, Null, k - 1) ELSE prev[l],
         safe # n
  PROVE  SGood(H)' /\ MeetsNew
<1> DEFINE s == lists[l]
<1>1. Good(H, lists) /\ n = s[k]
  BY DEF SGood, Take
<1>2. s \in Seq(Nodes) /\ Len(s) \in Nat /\ n \in Nodes /\ l # n /\ Ends(H, Null)[l] = Null
  BY <1>1 DEF Good, Ends
<1>3. next \in [H \cup Nodes -> Room(H)] /\ prev \in [H -> Room(H)]
  BY DEF SGood
<1>4. p \in H \cup Nodes /\ p # n /\ next[n] = Stop(s, l, Null, k + 1)
  <2>1. next[n] = Stop(s, l, Null, k + 1)
    BY <1>1, SPointers
  <2>2. CASE k = 1
    <3>1. p = l
      BY <2>2 DEF Stop
    <3> QED BY <1>2, <2>1, <3>1
  <2>3. CASE k # 1
    <3>1. k - 1 \in 1 .. Len(s) /\ k - 1 # 0 /\ k - 1 # Len(s) + 1 /\ k - 1 # k
      BY <1>2, <2>3
    <3>2. p = s[k - 1] /\ s[k - 1] \in Nodes
      BY <1>2, <3>1 DEF Stop
    <3>3. p # n
      BY <1>1, <3>1, <3>2 DEF Good
    <3> QED BY <2>1, <3>2, <3>3
  <2> QED BY <2>2, <2>3
<1>5. /\ next' \in [H \cup Nodes -> Room(H)]
      /\ \A a \in H \cup Nodes : next'[a] = IF a = n THEN Null ELSE IF a = p THEN next[n] ELSE next[a]
  BY <1>2, <1>3, <1>4 DEF SUnlinks, Room
<1>6. la \in Room(H)
  <2>1. CASE k = Len(s)
    <3>1. k - 1 = 0 \/ (k - 1 \in 1 .. Len(s) /\ k - 1 # 0 /\ k - 1 # Len(s) + 1)
      BY <1>2
    <3>2. la = Stop(s, Null, Null, k - 1)
      BY <2>1
    <3>3. la = Null \/ la \in Nodes
      BY <1>2, <3>1, <3>2 DEF Stop
    <3> QED BY <3>3 DEF Room
  <2>2. CASE k # Len(s)
    BY <1>3, <2>2
  <2> QED BY <2>1, <2>2
<1>7. /\ prev' \in [H -> Room(H)]
      /\ \A a \in H : prev'[a] = IF a = l THEN la ELSE prev[a]
  BY <1>3, <1>6 DEF SUnlinks
<1>8. NextTaken(H, lists, next, next', Ends(H, Null), l, k, n)
  BY <1>2, <1>4, <1>5 DEF NextTaken
<1>9. LastTaken(H, lists, prev, prev', Ends(H, Null), l, k)
  BY <1>2, <1>7 DEF LastTaken
<1>10. STake(H, l, k, n)
  BY <1>5, <1>7, <1>8, <1>9 DEF STake, SUnlinks
<1> QED BY <1>10, STakeKeeps

LEMMA SInsertKeeps ==
  ASSUME NEW H, H \cap Nodes = {}, SGood(H), Null \notin Nodes, NEW l \in H, NEW n \in Nodes,
         PutsAt(H, l, 1, n), NEW la, SLinks(l, n, l, next[l], la),
         la = IF prev[l] = Null THEN n ELSE prev[l], safe # l
  PROVE  SGood(H)' /\ MeetsNew
<1>1. /\ lists[l] \in Seq(Nodes) /\ Len(lists[l]) \in Nat
      /\ next[l] = Stop(lists[l], l, Null, 1)
      /\ prev[l] = Stop(lists[l], Null, Null, Len(lists[l]))
  BY SPointers
<1>2. 1 \in 1 .. Len(lists[l]) + 1 /\ l = Stop(lists[l], l, Null, 1 - 1)
  BY <1>1 DEF Stop
<1>3. prev[l] = Null <=> 1 = Len(lists[l]) + 1
  <2>1. CASE Len(lists[l]) = 0
    BY <1>1, <2>1 DEF Stop
  <2>2. CASE Len(lists[l]) # 0
    <3>1. /\ Len(lists[l]) \in 1 .. Len(lists[l]) /\ Len(lists[l]) # Len(lists[l]) + 1
          /\ 1 # Len(lists[l]) + 1
      BY <1>1, <2>2
    <3>2. prev[l] = lists[l][Len(lists[l])] /\ lists[l][Len(lists[l])] \in Nodes
      BY <1>1, <2>2, <3>1 DEF Stop
    <3> QED BY <3>1, <3>2
  <2> QED BY <2>1, <2>2
<1>4. la = IF 1 = Len(lists[l]) + 1 THEN n ELSE prev[l]
  BY <1>3
<1> QED BY <1>1, <1>2, <1>4, SLinksKeep

LEMMA SAppendKeeps ==
  ASSUME NEW H, H \cap Nodes = {}, SGood(H), Null \notin Nodes, NEW l \in H, NEW n \in Nodes,
         PutsAt(H, l, Len(lists[l]) + 1, n), NEW p, p = IF next[l] = Null THEN l ELSE prev[l],
         SLinks(l, n, p, Null, n)
  PROVE  SGood(H)' /\ MeetsNew
<1>1. /\ lists[l] \in Seq(Nodes) /\ Len(lists[l]) \in Nat
      /\ next[l] = Stop(lists[l], l, Null, 1)
      /\ prev[l] = Stop(lists[l], Null, Null, Len(lists[l]))
  BY SPointers
<1>2. p = Stop(lists[l], l, Null, Len(lists[l]))
  <2>1. CASE Len(lists[l]) = 0
    BY <1>1, <2>1 DEF Stop
  <2>2. CASE Len(lists[l]) # 0
    <3>1. 1 \in 1 .. Len(lists[l]) /\ 1 # Len(lists[l]) + 1 /\ Len(lists[l]) # Len(lists[l]) + 1
      BY <1>1, <2>2
    <3>2. next[l] = lists[l][1] /\ lists[l][1] \in Nodes
      BY <1>1, <3>1 DEF Stop
    <3> QED BY <1>1, <2>2, <3>1, <3>2 DEF Stop
  <2> QED BY <2>1, <2>2
<1>3. PICK k \in 1 .. Len(lists[l]) + 1 : k = Len(lists[l]) + 1 /\ k - 1 = Len(lists[l]) /\ k # 0
  BY <1>1
<1>4. p = Stop(lists[l], l, Null, k - 1) /\ Null = Stop(lists[l], l, Null, k)
  BY <1>2, <1>3 DEF Stop
<1>5. PutsAt(H, l, k, n) /\ n = IF k = Len(lists[l]) + 1 THEN n ELSE prev[l]
  BY <1>3
<1> QED BY <1>3, <1>4, <1>5, SLinksKeep

LEMMA SecondIs ==
  ASSUME NEW m \in Nat, m # 0
  PROVE  /\ m = 1 => 2 = m + 1 /\ 2 # 0
         /\ m # 1 => 2 \in 1 .. m /\ 2 # m + 1 /\ 2 # 0
OBVIOUS

LEMMA SPopKeeps ==
  ASSUME NEW H, H \cap Nodes = {}, SGood(H), Null \notin Nodes, NEW l \in H, NEW n, n = next[l],
         n # Null, safe # n, TakesFirst(l), NEW la, SUnlinks(l, n, l, la),
         la = IF next[n] = Null THEN Null ELSE prev[l]
  PROVE  SGood(H)' /\ MeetsNew
<1>1. /\ Good(H, lists) /\ lists[l] \in Seq(Nodes) /\ Len(lists[l]) \in Nat
      /\ next[l] = Stop(lists[l], l, Null, 1)
      /\ prev[l] = Stop(lists[l], Null, Null, Len(lists[l]))
      /\ \A k \in 1 .. Len(lists[l]) : next[lists[l][k]] = Stop(lists[l], l, Null, k + 1)
  BY SPointers
<1>2. Len(lists[l]) # 0
  BY <1>1 DEF Stop
<1>3. lists[l] # <<>> /\ 1 \in 1 .. Len(lists[l]) /\ 1 # Len(lists[l]) + 1
  BY <1>1, <1>2
<1>4. n = lists[l][1]
  BY <1>1, <1>3 DEF Stop
<1>5. Take(H, lists, lists', l, 1, n)
  BY <1>1, <1>3, <1>4, TakesFirstPlace
<1>6. l = Stop(lists[l], l, Null, 1 - 1)
  BY DEF Stop
<1>7. next[n] = Null <=> 1 = Len(lists[l])
  <2>1. next[n] = Stop(lists[l], l, Null, 2)
    BY <1>1, <1>3, <1>4
  <2>2. CASE 1 = Len(lists[l])
    <3>1. 2 = Len(lists[l]) + 1 /\ 2 # 0
      BY <1>1, <1>2, <2>2, SecondIs
    <3>2. next[n] = Null
      BY <2>1, <3>1 DEF Stop
    <3> QED BY <2>2, <3>2
  <2>3. CASE 1 # Len(lists[l])
    <3>1. 2 \in 1 .. Len(lists[l]) /\ 2 # Len(lists[l]) + 1 /\ 2 # 0
      BY <1>1, <1>2, <2>3, SecondIs
    <3>2. next[n] = lists[l][2] /\ lists[l][2] \in Nodes
      BY <1>1, <2>1, <3>1 DEF Stop
    <3> QED BY <2>3, <3>2
  <2> QED BY <2>2, <2>3
<1>8. la = IF 1 = Len(lists[l]) THEN Stop(lists[l], Null, Null, 1 - 1) ELSE prev[l]
  BY <1>7 DEF Stop
<1> QED BY <1>3, <1>5, <1>6, <1>8, SUnlinksKeep

\* The node the iteration is at is where pprev leads to, so it is the one deleted.
LEMMA SDeleteKeeps ==
  ASSUME NEW H, H \cap Nodes = {}, SGood(H), Null \notin Nodes, iter # None, node # Null,
         next[safe] = node, NEW l \in H, NEW k \in 1 .. Len(lists[l]), TakesAt(l, k, node),
         NEW la, SUnlinks(iter, node, safe, la),
         la = IF prev[iter] # node THEN prev[iter] ELSE IF safe = iter THEN Null ELSE safe
  PROVE  SGood(H)' /\ MeetsNew
<1> DEFINE s == lists[iter]
<1>1. /\ Good(H, lists) /\ SIterating(H, lists, iter, node, safe, stayed, visited)
      /\ Leads(H, lists, next, Ends(H, Null)) /\ lists[l][k] = node
  BY DEF SGood, TakesAt
<1>2. /\ iter \in H /\ node \in Nodes
      /\ \E j \in 1 .. Len(s) + 1 : safe = Stop(s, iter, Null, j - 1)
  BY <1>1 DEF SIterating
<1>3. PICK j \in 1 .. Len(s) + 1 : safe = Stop(s, iter, Null, j - 1)
  BY <1>2
<1>4. /\ s \in Seq(Nodes) /\ Len(s) \in Nat
      /\ prev[iter] = Stop(s, Null, Null, Len(s)) /\ Ends(H, Null)[iter] = Null
  BY <1>2, SPointers DEF Ends
<1>5. node = Stop(s, iter, Null, j)
  <2>1. j - 1 \in 0 .. Len(s) /\ j - 1 + 1 = j
    BY <1>4
  <2>2. next[Stop(s, iter, Null, j - 1)] = Stop(s, iter, Null, j)
    BY <1>1, <1>2, <1>4, <2>1 DEF Leads
  <2> QED BY <1>3, <2>2
<1>6. j \in 1 .. Len(s) /\ j # 0 /\ j # Len(s) + 1 /\ s[j] = node
  BY <1>2, <1>4, <1>5 DEF Stop
<1>7. l = iter /\ j = k
  BY <1>1, <1>2, <1>6 DEF Good
<1>8. Take(H, lists, lists', iter, j, node)
  BY <1>1, <1>7, TakesAtPlace
<1>9. /\ j = 1 => safe = iter
      /\ j # 1 => j - 1 \in 1 .. Len(s) /\ j - 1 # 0 /\ j - 1 # Len(s) + 1 /\ j - 1 # j
  BY <1>3, <1>4, <1>6 DEF Stop
<1>10. j # 1 => safe = s[j - 1] /\ s[j - 1] \in Nodes /\ s[j - 1] # s[j]
  BY <1>1, <1>2, <1>3, <1>4, <1>6, <1>9 DEF Stop, Good
<1>11. safe # node
  BY <1>2, <1>6, <1>9, <1>10
<1>12. prev[iter] = node <=> j = Len(s)
  <2>1. Len(s) \in 1 .. Len(s) /\ Len(s) # 0 /\ Len(s) # Len(s) + 1
    BY <1>4, <1>6
  <2>2. prev[iter] = s[Len(s)]
    BY <1>4, <2>1 DEF Stop
  <2> QED BY <1>1, <1>2, <1>6, <2>1, <2>2 DEF Good
<1>13. la = IF j = Len(s) THEN Stop(s, Null, Null, j - 1) ELSE prev[iter]
  <2>1. CASE j = 1
    BY <1>9, <1>12, <2>1 DEF Stop
  <2>2. CASE j # 1
    <3>1. safe # iter /\ safe = Stop(s, Null, Null, j - 1)
      BY <1>2, <1>9, <1>10, <2>2 DEF Stop
    <3> QED BY <1>12, <3>1
  <2> QED BY <2>1, <2>2
<1> QED BY <1>2, <1>3, <1>6, <1>8, <1>11, <1>13, SUnlinksKeep

LEMMA SLStep ==
  ASSUME SGood(Heads), SL!SNext
  PROVE  SGood(Heads)' /\ MeetsNew
<1> USE NodeListsAssumption
<1>1. ASSUME NEW l \in Heads, NEW n \in Nodes, SL!SInsert(l, n) PROVE SGood(Heads)' /\ MeetsNew
  <2>1. PICK la : la = IF prev[l] = Null THEN n ELSE prev[l]
    OBVIOUS
  <2>2. PutsAt(Heads, l, 1, n) /\ safe # l
    BY <1>1 DEF SL!SInsert, SL!PutFirst, SL!PutAt, SL!Linked, SL!In, PutsAt
  <2>3. SLinks(l, n, l, next[l], la)
    <3>1. next \in [Heads \cup Nodes -> Room(Heads)] /\ prev \in [Heads -> Room(Heads)] /\ l # n
      BY DEF SGood
    <3>2. next' = [[next EXCEPT ![l] = n] EXCEPT ![n] = next[l]]
      BY <1>1, <3>1 DEF SL!SInsert
    <3>3. prev' = [prev EXCEPT ![l] = la]
      BY <1>1, <2>1, <3>1 DEF SL!SInsert
    <3> QED BY <1>1, <3>2, <3>3 DEF SL!SInsert, SL!cursor, SLinks, HCursor
  <2> QED BY <2>1, <2>2, <2>3, SInsertKeeps
<1>2. ASSUME NEW l \in Heads, NEW n \in Nodes, SL!SAppend(l, n) PROVE SGood(Heads)' /\ MeetsNew
  <2>1. PICK p : p = IF next[l] = Null THEN l ELSE prev[l]
    OBVIOUS
  <2>2. PutsAt(Heads, l, Len(lists[l]) + 1, n)
    BY <1>2 DEF SL!SAppend, SL!PutLast, SL!PutAt, SL!Linked, SL!In, PutsAt
  <2>3. SLinks(l, n, p, Null, n)
    BY <1>2, <2>1 DEF SL!SAppend, SL!cursor, SLinks, HCursor
  <2> QED BY <2>1, <2>2, <2>3, SAppendKeeps
<1>3. ASSUME NEW l \in Heads, SL!SPop(l) PROVE SGood(Heads)' /\ MeetsNew
  <2>1. CASE UNCHANGED SL!slistVars
    BY <2>1, SStaysGood DEF SL!slistVars, SL!cursor, HCursor
  <2>2. CASE ~UNCHANGED SL!slistVars
    <3>1. PICK n : n = next[l]
      OBVIOUS
    <3>2. PICK la : la = IF next[n] = Null THEN Null ELSE prev[l]
      OBVIOUS
    <3>3. n # Null /\ safe # n /\ TakesFirst(l) /\ SUnlinks(l, n, l, la)
      BY <1>3, <2>2, <3>1, <3>2 DEF SL!SPop, TakesFirst, SUnlinks
    <3> QED BY <3>1, <3>2, <3>3, SPopKeeps
  <2> QED BY <2>1, <2>2
<1>4. ASSUME SL!SDelete PROVE SGood(Heads)' /\ MeetsNew
  <2>1. PICK la : la = IF prev[iter] # node THEN prev[iter] ELSE IF safe = iter THEN Null ELSE safe
    OBVIOUS
  <2>2. PICK l \in Heads : \E k \in 1 .. Len(lists[l]) : TakesAt(l, k, node)
    BY <1>4 DEF SL!SDelete, SL!TakeOut, TakesAt
  <2>3. PICK k \in 1 .. Len(lists[l]) : TakesAt(l, k, node)
    BY <2>2
  <2>4. iter # None /\ node # Null /\ next[safe] = node /\ SUnlinks(iter, node, safe, la)
    BY <1>4, <2>1 DEF SL!SDelete, SUnlinks
  <2> QED BY <2>1, <2>3, <2>4, SDeleteKeeps
<1>5. ASSUME NEW l \in Heads, SL!SIterBegin(l) PROVE SGood(Heads)' /\ MeetsNew
  <2>1. SBegin(Heads, l)
    BY <1>5 DEF SL!SIterBegin, SL!In, SBegin
  <2> QED BY <2>1, SBeginKeeps
<1>6. ASSUME SL!SIterNext PROVE SGood(Heads)' /\ MeetsNew
  <2>1. SGoesOn
    BY <1>6 DEF SL!SIterNext, SGoesOn
  <2> QED BY <2>1, SGoesOnKeeps
<1>7. ASSUME SL!SIterEnd PROVE SGood(Heads)' /\ MeetsNew
  <2>1. HEnds
    BY <1>7 DEF SL!SIterEnd, HEnds
  <2> QED BY <2>1, SEndKeeps
<1> QED BY <1>1, <1>2, <1>3, <1>4, <1>5, <1>6, <1>7 DEF SL!SNext

-----------------------------------------------------------------------------
(* What the invariants say of the paths through a list.                    *)

Through(l, s, e) == <<l>> \o s \o <<e>>

LEMMA ThroughIs ==
  ASSUME NEW H, NEW ls, NEW nx, NEW E, Good(H, ls), Leads(H, ls, nx, E), NEW l \in H,
         NEW e, E[l] = e, NEW k \in 1 .. Len(ls[l]) + 1, NEW T, T = Through(l, ls[l], e)
  PROVE  /\ T[k] = Stop(ls[l], l, e, k - 1) /\ T[k + 1] = Stop(ls[l], l, e, k)
         /\ nx[T[k]] = T[k + 1]
<1>1. ls[l] \in Seq(Nodes) /\ Len(ls[l]) \in Nat
  BY DEF Good
<1>2. k - 1 \in 0 .. Len(ls[l]) /\ k - 1 \in 0 .. Len(ls[l]) + 1 /\ k \in 0 .. Len(ls[l]) + 1 /\ (k - 1) + 1 = k
  BY <1>1
<1>3. T[(k - 1) + 1] = Stop(ls[l], l, e, k - 1)
  BY <1>1, <1>2, StopIs DEF Through
<1>4. T[k + 1] = Stop(ls[l], l, e, k)
  BY <1>1, <1>2, StopIs DEF Through
<1>5. nx[Stop(ls[l], l, E[l], k - 1)] = Stop(ls[l], l, E[l], (k - 1) + 1)
  BY <1>2 DEF Leads
<1> QED BY <1>2, <1>3, <1>4, <1>5

LEMMA ListRound ==
  ASSUME NEW H, ListGood(H), NEW l \in H, NEW k \in 1 .. Len(lists[l]) + 1,
         NEW T, T = Through(l, lists[l], l)
  PROVE  next[T[k]] = T[k + 1] /\ prev[T[k + 1]] = T[k]
<1>1. /\ Good(H, lists) /\ Leads(H, lists, next, Itself(H)) /\ Itself(H)[l] = l
      /\ Len(lists[l]) \in Nat
      /\ prev[l] = Stop(lists[l], l, l, Len(lists[l]))
      /\ \A i \in 1 .. Len(lists[l]) : prev[lists[l][i]] = Stop(lists[l], l, l, i - 1)
  BY ListPointers DEF ListGood, Itself
<1>3. /\ T[k] = Stop(lists[l], l, l, k - 1) /\ T[k + 1] = Stop(lists[l], l, l, k)
      /\ next[T[k]] = T[k + 1]
  BY <1>1, ThroughIs
<1>4. prev[T[k + 1]] = T[k]
  <2>1. CASE k = Len(lists[l]) + 1
    <3>1. k # 0 /\ k - 1 = Len(lists[l])
      BY <1>1, <2>1
    <3>2. T[k + 1] = l
      BY <1>3, <2>1, <3>1 DEF Stop
    <3> QED BY <1>1, <1>3, <3>1, <3>2
  <2>2. CASE k # Len(lists[l]) + 1
    <3>1. k \in 1 .. Len(lists[l]) /\ k # 0
      BY <1>1, <2>2
    <3>2. T[k + 1] = lists[l][k]
      BY <1>3, <2>2, <3>1 DEF Stop
    <3> QED BY <1>1, <1>3, <3>1, <3>2
  <2> QED BY <2>1, <2>2
<1> QED BY <1>3, <1>4

LEMMA HThroughIs ==
  ASSUME NEW H, NEW e, HGood(H, e), NEW l \in H, NEW k \in 1 .. Len(lists[l]) + 1,
         NEW T, T = Through(l, lists[l], e)
  PROVE  /\ next[T[k]] = T[k + 1]
         /\ k \in 2 .. Len(lists[l]) => prev[lists[l][k]] = lists[l][k - 1]
         /\ lists[l] # <<>> => prev[lists[l][1]] = l
<1>1. /\ Good(H, lists) /\ Leads(H, lists, next, Ends(H, e)) /\ Ends(H, e)[l] = e
      /\ Backs(H, lists, prev, Itself(H)) /\ lists[l] \in Seq(Nodes) /\ Len(lists[l]) \in Nat
  BY DEF HGood, Ends, Good
<1>3. next[T[k]] = T[k + 1]
  BY <1>1, ThroughIs
<1>4. ASSUME k \in 2 .. Len(lists[l]) PROVE prev[lists[l][k]] = lists[l][k - 1]
  <2>1. k \in 1 .. Len(lists[l]) /\ k - 1 # 0 /\ k - 1 # Len(lists[l]) + 1
    BY <1>1, <1>4
  <2>2. prev[lists[l][k]] = Stop(lists[l], l, l, k - 1)
    BY <1>1, <2>1, PrevIs
  <2> QED BY <2>1, <2>2 DEF Stop
<1>5. ASSUME lists[l] # <<>> PROVE prev[lists[l][1]] = l
  <2>1. 1 \in 1 .. Len(lists[l])
    BY <1>1, <1>5
  <2>2. prev[lists[l][1]] = Stop(lists[l], l, l, 1 - 1)
    BY <1>1, <2>1, PrevIs
  <2> QED BY <2>2 DEF Stop
<1> QED BY <1>3, <1>4, <1>5

LEMMA SThroughIs ==
  ASSUME NEW H, SGood(H), NEW l \in H
  PROVE  /\ \A k \in 1 .. Len(lists[l]) + 1 :
              next[(<<l>> \o lists[l] \o <<Null>>)[k]] = (<<l>> \o lists[l] \o <<Null>>)[k + 1]
         /\ prev[l] = IF lists[l] = <<>> THEN Null ELSE lists[l][Len(lists[l])]
<1>1. /\ Good(H, lists) /\ Leads(H, lists, next, Ends(H, Null)) /\ Ends(H, Null)[l] = Null
      /\ lists[l] \in Seq(Nodes) /\ Len(lists[l]) \in Nat
      /\ prev[l] = Stop(lists[l], Null, Null, Len(lists[l]))
  BY SPointers DEF SGood, Ends
<1>2. ASSUME NEW k \in 1 .. Len(lists[l]) + 1
      PROVE  next[(<<l>> \o lists[l] \o <<Null>>)[k]] = (<<l>> \o lists[l] \o <<Null>>)[k + 1]
  <2>1. PICK T : T = Through(l, lists[l], Null)
    OBVIOUS
  <2>2. next[T[k]] = T[k + 1]
    BY <1>1, <2>1, ThroughIs
  <2> QED BY <2>1, <2>2 DEF Through
<1>3. CASE lists[l] = <<>>
  <2>1. Len(lists[l]) = 0
    BY <1>3
  <2> QED BY <1>1, <1>2, <1>3, <2>1 DEF Stop
<1>4. CASE lists[l] # <<>>
  <2>1. Len(lists[l]) # 0 /\ Len(lists[l]) # Len(lists[l]) + 1
    BY <1>1, <1>4
  <2> QED BY <1>1, <1>2, <1>4, <2>1 DEF Stop
<1> QED BY <1>3, <1>4

LEMMA IteratingDone ==
  ASSUME NEW H, NEW ls, NEW E, NEW l, NEW back, NEW nd, NEW nxt, NEW kept, NEW seen,
         Iterating(H, ls, E, l, back, nd, nxt, kept, seen), nd \notin Nodes
  PROVE  kept \subseteq seen
BY DEF Iterating

LEMMA SIteratingDone ==
  ASSUME NEW H, NEW ls, NEW l, NEW nd, NEW pp, NEW kept, NEW seen,
         SIterating(H, ls, l, nd, pp, kept, seen), nd \notin Nodes
  PROVE  kept \subseteq seen
BY DEF SIterating

-----------------------------------------------------------------------------
(* The five kinds of lists as MCLists runs them.                           *)

ListPartSpec == ListPartInit /\ [][ListPartNext /\ UNCHANGED part]_<<part, listPartVars>>

ListPartInv ==
  /\ part = "list" => ListGood(Heads)
  /\ part = "nop_list" => ListGood({l1})
  /\ part = "slist" => SGood(Heads)
  /\ part = "hlist" => HGood(Heads, Null)
  /\ part = "nop_hlist" => HGood({l1}, l1)

LEMMA EmptyGood ==
  ASSUME NEW H, NEW ls, ls = [l \in H |-> <<>>]
  PROVE  Good(H, ls) /\ \A l \in H : Len(ls[l]) = 0
<1>1. \A l \in H : ls[l] = <<>> /\ Len(ls[l]) = 0 /\ ls[l] \in Seq(Nodes)
  OBVIOUS
<1>2. ls \in [H -> Seq(Nodes)]
  BY <1>1
<1> QED BY <1>1, <1>2 DEF Good

LEMMA ListGoodInit ==
  ASSUME NEW H, lists = [l \in H |-> <<>>], next \in [H \cup Nodes -> Room(H)], prev = next,
         \A l \in H : next[l] = l, reverse = FALSE, iter = None
  PROVE  ListGood(H)
<1>1. /\ Good(H, lists)
      /\ \A l \in H : /\ Len(lists[l]) = 0 /\ Stop(lists[l], l, l, 0) = l
                       /\ Stop(lists[l], l, l, 1) = l /\ Itself(H)[l] = l
  <2>1. Good(H, lists) /\ \A l \in H : Len(lists[l]) = 0
    BY EmptyGood
  <2> QED BY <2>1 DEF Stop, Itself
<1>2. Leads(H, lists, next, Itself(H))
  <2> SUFFICES ASSUME NEW l \in H, NEW i \in 0 .. Len(lists[l])
               PROVE  next[Stop(lists[l], l, l, i)] = Stop(lists[l], l, l, i + 1)
    BY <1>1 DEF Leads
  <2>1. i = 0 /\ i + 1 = 1
    BY <1>1
  <2> QED BY <1>1, <2>1
<1>3. Backs(H, lists, prev, Itself(H)) /\ Lasts(H, lists, prev, Itself(H))
  BY <1>1 DEF Backs, Lasts
<1> QED BY <1>1, <1>2, <1>3 DEF ListGood

LEMMA HGoodInit ==
  ASSUME NEW H, NEW e, lists = [l \in H |-> <<>>], next = [a \in H \cup Nodes |-> e],
         e \in Room(H), prev = [n \in Nodes |-> e], iter = None
  PROVE  HGood(H, e)
<1>1. /\ Good(H, lists)
      /\ \A l \in H : /\ Len(lists[l]) = 0 /\ Stop(lists[l], l, e, 0) = l
                       /\ Stop(lists[l], l, e, 1) = e /\ Ends(H, e)[l] = e
  <2>1. Good(H, lists) /\ \A l \in H : Len(lists[l]) = 0
    BY EmptyGood
  <2> QED BY <2>1 DEF Stop, Ends
<1>2. Leads(H, lists, next, Ends(H, e))
  <2> SUFFICES ASSUME NEW l \in H, NEW i \in 0 .. Len(lists[l])
               PROVE  next[Stop(lists[l], l, e, i)] = Stop(lists[l], l, e, i + 1)
    BY <1>1 DEF Leads
  <2>1. i = 0 /\ i + 1 = 1
    BY <1>1
  <2> QED BY <1>1, <2>1
<1>3. Backs(H, lists, prev, Itself(H))
  BY <1>1 DEF Backs
<1> QED BY <1>1, <1>2, <1>3 DEF HGood

LEMMA SGoodInit ==
  ASSUME NEW H, lists = [l \in H |-> <<>>], next = [a \in H \cup Nodes |-> Null],
         prev = [l \in H |-> Null], iter = None
  PROVE  SGood(H)
<1>1. /\ Good(H, lists)
      /\ \A l \in H : /\ Len(lists[l]) = 0 /\ Stop(lists[l], l, Null, 0) = l
                       /\ Stop(lists[l], l, Null, 1) = Null /\ Ends(H, Null)[l] = Null
                       /\ Stop(lists[l], Null, Null, 0) = Null
  <2>1. Good(H, lists) /\ \A l \in H : Len(lists[l]) = 0
    BY EmptyGood
  <2> QED BY <2>1 DEF Stop, Ends
<1>2. Leads(H, lists, next, Ends(H, Null))
  <2> SUFFICES ASSUME NEW l \in H, NEW i \in 0 .. Len(lists[l])
               PROVE  next[Stop(lists[l], l, Null, i)] = Stop(lists[l], l, Null, i + 1)
    BY <1>1 DEF Leads
  <2>1. i = 0 /\ i + 1 = 1
    BY <1>1
  <2> QED BY <1>1, <2>1
<1>3. Lasts(H, lists, prev, Ends(H, Null))
  BY <1>1 DEF Lasts
<1> QED BY <1>1, <1>2, <1>3 DEF SGood, Room

LEMMA ListPartInitInv == ListPartInit => ListPartInv
<1> SUFFICES ASSUME ListPartInit PROVE ListPartInv
  OBVIOUS
<1>1. ASSUME part = "list" PROVE ListGood(Heads)
  <2>1. L!Init
    BY <1>1 DEF ListPartInit, ListParts
  <2>2. next \in [Heads \cup Nodes -> Room(Heads)] /\ \A l \in Heads : next[l] = l
    BY <2>1, NodeListsAssumption DEF L!Init, L!Addresses, Room
  <2> QED BY <2>1, <2>2, ListGoodInit DEF L!Init, L!ListsInit
<1>2. ASSUME part = "nop_list" PROVE ListGood({l1})
  <2>1. NL!O!Init /\ next = [a \in NL!O!Addresses |-> l1]
    BY <1>2 DEF ListPartInit, ListParts, NL!NopInit
  <2>2. next \in [{l1} \cup Nodes -> Room({l1})] /\ \A l \in {l1} : next[l] = l
    BY <2>1 DEF NL!O!Addresses, Room
  <2> QED BY <2>1, <2>2, ListGoodInit DEF NL!O!Init, NL!O!ListsInit
<1>3. ASSUME part = "slist" PROVE SGood(Heads)
  <2>1. SL!SInit
    BY <1>3 DEF ListPartInit, ListParts
  <2> QED BY <2>1, SGoodInit DEF SL!SInit, SL!ListsInit
<1>4. ASSUME part = "hlist" PROVE HGood(Heads, Null)
  <2>1. HL!HInit /\ Null \in Room(Heads)
    BY <1>4 DEF ListPartInit, ListParts, Room
  <2> QED BY <2>1, HGoodInit DEF HL!HInit, HL!ListsInit
<1>5. ASSUME part = "nop_hlist" PROVE HGood({l1}, l1)
  <2>1. NHL!O!HInit /\ l1 \in Room({l1})
    BY <1>5 DEF ListPartInit, ListParts, NHL!NopHInit, Room
  <2> QED BY <2>1, HGoodInit DEF NHL!O!HInit, NHL!O!ListsInit
<1> QED BY <1>1, <1>2, <1>3, <1>4, <1>5 DEF ListPartInv

\* What a step comes to, in the terms of IterMeetsAll.
MeetsAll ==
  iter # None /\ iter' = iter =>
    /\ node' # node => node' \notin visited' \cap stayed
    /\ node' \in Heads \cup {Null} => stayed' \subseteq visited'

LEMMA ListMeetsAll ==
  ASSUME NEW H, ListGood(H)', MeetsNew
  PROVE  MeetsAll
<1> USE NodeListsAssumption
<1> SUFFICES ASSUME iter # None, iter' = iter
             PROVE  node' \in Heads \cup {Null} => stayed' \subseteq visited'
  BY DEF MeetsAll, MeetsNew
<1>1. Iterating(H, lists', Itself(H), iter', reverse', node', safe', stayed', visited')
  BY DEF ListGood
<1> QED BY <1>1, IteratingDone

LEMMA HMeetsAll ==
  ASSUME NEW H, NEW e, HGood(H, e)', MeetsNew
  PROVE  MeetsAll
<1> USE NodeListsAssumption
<1> SUFFICES ASSUME iter # None, iter' = iter
             PROVE  node' \in Heads \cup {Null} => stayed' \subseteq visited'
  BY DEF MeetsAll, MeetsNew
<1>1. Iterating(H, lists', Ends(H, e), iter', FALSE, node', safe', stayed', visited')
  BY DEF HGood
<1> QED BY <1>1, IteratingDone

LEMMA SMeetsAll ==
  ASSUME NEW H, SGood(H)', MeetsNew
  PROVE  MeetsAll
<1> USE NodeListsAssumption
<1> SUFFICES ASSUME iter # None, iter' = iter
             PROVE  node' \in Heads \cup {Null} => stayed' \subseteq visited'
  BY DEF MeetsAll, MeetsNew
<1>1. SIterating(H, lists', iter', node', safe', stayed', visited')
  BY DEF SGood
<1> QED BY <1>1, SIteratingDone

LEMMA ListPartStep ==
  ASSUME ListPartInv, ListPartNext, UNCHANGED part
  PROVE  ListPartInv' /\ MeetsAll
<1>1. ASSUME part = "list", L!Next PROVE ListPartInv' /\ MeetsAll
  <2>1. ListGood(Heads)' /\ MeetsNew
    BY <1>1, LStep DEF ListPartInv
  <2>2. MeetsAll
    BY <2>1, ListMeetsAll
  <2> QED BY <1>1, <2>1, <2>2 DEF ListPartInv
<1>2. ASSUME part = "nop_list", NL!NopNext PROVE ListPartInv' /\ MeetsAll
  <2>1. ListGood({l1})' /\ MeetsNew
    BY <1>2, NLStep DEF ListPartInv
  <2>2. MeetsAll
    <3> DEFINE H == {l1}
    <3>1. ListGood(H)'
      BY <2>1
    <3> HIDE DEF H
    <3> QED BY <2>1, <3>1, ListMeetsAll
  <2> QED BY <1>2, <2>1, <2>2 DEF ListPartInv
<1>3. ASSUME part = "slist", SL!SNext PROVE ListPartInv' /\ MeetsAll
  <2>1. SGood(Heads)' /\ MeetsNew
    BY <1>3, SLStep DEF ListPartInv
  <2>2. MeetsAll
    BY <2>1, SMeetsAll
  <2> QED BY <1>3, <2>1, <2>2 DEF ListPartInv
<1>4. ASSUME part = "hlist", HL!HNext PROVE ListPartInv' /\ MeetsAll
  <2>1. HGood(Heads, Null)' /\ MeetsNew
    BY <1>4, HLStep DEF ListPartInv
  <2>2. MeetsAll
    BY <2>1, HMeetsAll
  <2> QED BY <1>4, <2>1, <2>2 DEF ListPartInv
<1>5. ASSUME part = "nop_hlist", NHL!NopHNext PROVE ListPartInv' /\ MeetsAll
  <2>1. HGood({l1}, l1)' /\ MeetsNew
    BY <1>5, NHLStep DEF ListPartInv
  <2>2. MeetsAll
    <3> DEFINE H == {l1}
    <3>1. HGood(H, l1)'
      BY <2>1
    <3> HIDE DEF H
    <3> QED BY <2>1, <3>1, HMeetsAll
  <2> QED BY <1>5, <2>1, <2>2 DEF ListPartInv
<1> QED BY <1>1, <1>2, <1>3, <1>4, <1>5 DEF ListPartNext

LEMMA ListPartStays ==
  ASSUME ListPartInv, UNCHANGED <<part, listPartVars>>
  PROVE  ListPartInv' /\ UNCHANGED <<lists, iter, node, visited, stayed>>
<1>1. UNCHANGED <<part, lists, iter, node, visited, stayed, next, prev, reverse, safe>>
  BY DEF listPartVars
<1> QED BY <1>1 DEF ListPartInv, ListGood, HGood, SGood

LEMMA ListPartAlways == ListPartSpec => []ListPartInv
<1>1. ListPartInv /\ [ListPartNext /\ UNCHANGED part]_<<part, listPartVars>> => ListPartInv'
  BY ListPartStep, ListPartStays
<1> QED BY <1>1, ListPartInitInv, PTL DEF ListPartSpec

LEMMA ListPartChained == ListPartInv => ListsChained
<1> SUFFICES ASSUME ListPartInv PROVE ListsChained
  OBVIOUS
<1>1. ASSUME part = "list" PROVE L!Chained
  <2> SUFFICES ASSUME NEW l \in Heads, NEW k \in 1 .. Len(lists[l]) + 1
               PROVE  /\ next[L!Around(l)[k]] = L!Around(l)[k + 1]
                      /\ prev[L!Around(l)[k + 1]] = L!Around(l)[k]
    BY DEF L!Chained
  <2>1. ListGood(Heads) /\ L!Around(l) = Through(l, lists[l], l)
    BY <1>1 DEF ListPartInv, L!Around, Through
  <2> QED BY <2>1, ListRound
<1>2. ASSUME part = "nop_list" PROVE NL!O!Chained
  <2> SUFFICES ASSUME NEW l \in {l1}, NEW k \in 1 .. Len(lists[l]) + 1
               PROVE  /\ next[NL!O!Around(l)[k]] = NL!O!Around(l)[k + 1]
                      /\ prev[NL!O!Around(l)[k + 1]] = NL!O!Around(l)[k]
    BY DEF NL!O!Chained
  <2>1. ListGood({l1}) /\ NL!O!Around(l) = Through(l, lists[l], l)
    BY <1>2 DEF ListPartInv, NL!O!Around, Through
  <2> QED BY <2>1, ListRound
<1>3. ASSUME part = "slist" PROVE SL!SChained
  <2>1. SGood(Heads)
    BY <1>3 DEF ListPartInv
  <2> QED BY <2>1, SThroughIs DEF SL!SChained, SL!SThrough
<1>4. ASSUME part = "hlist" PROVE HL!HChained
  <2> SUFFICES ASSUME NEW l \in Heads, NEW k \in 1 .. Len(lists[l]) + 1
               PROVE  /\ next[HL!HThrough(l)[k]] = HL!HThrough(l)[k + 1]
                      /\ k \in 2 .. Len(lists[l]) => prev[lists[l][k]] = lists[l][k - 1]
                      /\ lists[l] # <<>> => prev[lists[l][1]] = l
    BY DEF HL!HChained
  <2>1. HGood(Heads, Null) /\ HL!HThrough(l) = Through(l, lists[l], Null)
    BY <1>4 DEF ListPartInv, HL!HThrough, Through
  <2> QED BY <2>1, HThroughIs
<1>5. ASSUME part = "nop_hlist" PROVE NHL!O!HChained
  <2> SUFFICES ASSUME NEW l \in {l1}, NEW k \in 1 .. Len(lists[l]) + 1
               PROVE  /\ next[NHL!O!HThrough(l)[k]] = NHL!O!HThrough(l)[k + 1]
                      /\ k \in 2 .. Len(lists[l]) => prev[lists[l][k]] = lists[l][k - 1]
                      /\ lists[l] # <<>> => prev[lists[l][1]] = l
    BY DEF NHL!O!HChained
  <2>1. HGood({l1}, l1) /\ NHL!O!HThrough(l) = Through(l, lists[l], l1)
    BY <1>5 DEF ListPartInv, NHL!O!HThrough, Through
  <2> QED BY <2>1, HThroughIs
<1> QED BY <1>1, <1>2, <1>3, <1>4, <1>5 DEF ListsChained

\* After every call, also one made by the body of an iteration, the pointers of the
\* lists of wuy_list.h, wuy_slist.h, wuy_hlist.h, wuy_nop_list.h and wuy_nop_hlist.h
\* lead through their nodes in order, and the way back is right: for any number of
\* nodes, and of lists of the first three kinds; of the kinds on offsets the list is
\* the one at its base.
THEOREM ListsChainedAlways == ListPartSpec => []ListsChained
BY ListPartAlways, ListPartChained, PTL

\* The iterations of those lists that allow deletion meet every node that stays,
\* and none twice, whatever else the calls of the body delete and add.
THEOREM IterationMeetsAll == ListPartSpec => IterMeetsAll
<1>1. ListPartInv /\ [ListPartNext /\ UNCHANGED part]_<<part, listPartVars>>
      => [MeetsAll]_<<lists, iter, node, visited, stayed>>
  BY ListPartStep, ListPartStays
<1>2. [MeetsAll]_<<lists, iter, node, visited, stayed>>
      => [iter # None /\ iter' = iter =>
            /\ node' # node => node' \notin visited' \cap stayed
            /\ node' \in Heads \cup {Null} => stayed' \subseteq visited'
         ]_<<lists, iter, node, visited, stayed>>
  BY DEF MeetsAll
<1> QED BY <1>1, <1>2, ListPartAlways, PTL DEF ListPartSpec, IterMeetsAll
=============================================================================
