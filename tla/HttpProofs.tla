----------------------------- MODULE HttpProofs ------------------------------
(***************************************************************************)
(* A message is read as it was sent, for any message, number base, limit   *)
(* of sizes, and wherever the bytes were cut on their way.                 *)
(***************************************************************************)
EXTENDS HttpMessage, WellFoundedInduction, TLAPS

-----------------------------------------------------------------------------
(* Numbers.                                                                *)

LEMMA LeastOf ==
  ASSUME NEW T, T \subseteq Nat, T # {}
  PROVE  \E m \in T : \A n \in T : m =< n
<1> DEFINE R == OpToRel(<, Nat)
<1>1. IsWellFoundedOn(R, Nat)
  BY NatLessThanWellFounded
<1>2. \A x, y \in Nat : x < y => <<x, y>> \in R
  BY DEF OpToRel
<1> HIDE DEF R
<1>3. PICK m \in T : \A n \in T : ~(<<n, m>> \in R)
  BY <1>1, WFMin
<1>4. \A n \in T : n \in Nat
  OBVIOUS
<1>5. \A n \in T : ~(n < m)
  BY <1>2, <1>3, <1>4
<1>6. \A n \in T : m =< n
  BY <1>4, <1>5
<1> QED BY <1>6

LEMMA BaseIs == Base \in Nat /\ Base >= 2
<1>1. \A x \in Nat \ {0, 1} : x \in Nat /\ x >= 2
  OBVIOUS
<1>2. Len(Digits) \in Nat \ {0, 1}
  BY ChunkedAssumption
<1> QED BY <1>1, <1>2 DEF Base


\* The powers up to Base ^ N, and that there is one such function.
IsPower(f, N) == f[0] = 1 /\ \A n \in 1 .. N : f[n] = Base * f[n - 1]

LEMMA PowersExist == \A N \in Nat : \E f : IsPower(f, N)
<1> DEFINE Missing == {N \in Nat : ~\E f : IsPower(f, N)}
<1> SUFFICES ASSUME Missing # {} PROVE FALSE
  OBVIOUS
<1>1. PICK N \in Missing : \A n \in Missing : N =< n
  <2>1. Missing \subseteq Nat
    OBVIOUS
  <2> HIDE DEF Missing
  <2> QED BY <2>1, LeastOf
<1>2. N # 0
  <2>1. IsPower([n \in {0} |-> 1], 0)
    BY DEF IsPower
  <2> QED BY <1>1, <2>1
<1>3. N - 1 \in Nat /\ ~(N =< N - 1)
  BY <1>2
<1>4. PICK f : IsPower(f, N - 1)
  BY <1>1, <1>3
<1> DEFINE g == [n \in 0 .. N |-> IF n = N THEN Base * f[N - 1] ELSE f[n]]
<1>5. g[0] = 1 /\ \A n \in 1 .. N - 1 : g[n] = f[n] /\ g[n - 1] = f[n - 1]
  BY <1>2, <1>4 DEF IsPower
<1>6. g[N] = Base * f[N - 1] /\ g[N - 1] = f[N - 1]
  BY <1>3
<1> HIDE DEF g
<1>7. \A n \in 1 .. N : n = N \/ n \in 1 .. N - 1
  BY <1>1
<1>8. IsPower(g, N)
  BY <1>4, <1>5, <1>6, <1>7 DEF IsPower
<1> QED BY <1>1, <1>8

LEMMA PowersAgree ==
  ASSUME NEW f, NEW g, NEW N \in Nat, NEW M \in Nat, IsPower(f, N), IsPower(g, M)
  PROVE  \A n \in Nat : n =< N /\ n =< M => f[n] = g[n]
<1> DEFINE Apart == {n \in Nat : n =< N /\ n =< M /\ f[n] # g[n]}
<1> SUFFICES ASSUME Apart # {} PROVE FALSE
  OBVIOUS
<1>1. PICK n \in Apart : \A k \in Apart : n =< k
  <2>1. Apart \subseteq Nat
    OBVIOUS
  <2> HIDE DEF Apart
  <2> QED BY <2>1, LeastOf
<1>2. n # 0
  BY <1>1 DEF IsPower
<1>3. n - 1 \in Nat /\ n - 1 =< N /\ n - 1 =< M /\ ~(n =< n - 1) /\ n \in 1 .. N /\ n \in 1 .. M
  BY <1>2
<1>4. f[n - 1] = g[n - 1]
  BY <1>1, <1>3
<1> QED BY <1>3, <1>4 DEF IsPower

LEMMA PowerIs ==
  /\ Power[0] = 1
  /\ \A n \in Nat : Power[n] \in Nat \ {0} /\ Power[n + 1] = Base * Power[n]
<1> DEFINE of(n) == CHOOSE f : IsPower(f, n)
           h == [n \in Nat |-> of(n)[n]]
<1>1. \A n \in Nat : IsPower(of(n), n)
  BY PowersExist
<1> HIDE DEF of
<1>2. ASSUME NEW n \in Nat PROVE h[n] = IF n = 0 THEN 1 ELSE Base * h[n - 1]
  <2>1. CASE n = 0
    BY <1>1, <2>1 DEF IsPower
  <2>2. CASE n # 0
    <3>1. n - 1 \in Nat /\ n - 1 =< n /\ n \in 1 .. n
      BY <2>2
    <3>2. of(n - 1)[n - 1] = of(n)[n - 1]
      BY <1>1, <3>1, PowersAgree
    <3>3. of(n)[n] = Base * of(n)[n - 1]
      BY <1>1, <3>1 DEF IsPower
    <3> QED BY <2>2, <3>1, <3>2, <3>3
  <2> QED BY <2>1, <2>2
<1>3. h = [n \in Nat |-> IF n = 0 THEN 1 ELSE Base * h[n - 1]]
  BY <1>2
<1> HIDE DEF h
<1>4. Power = CHOOSE f : f = [n \in Nat |-> IF n = 0 THEN 1 ELSE Base * f[n - 1]]
  BY DEF Power
<1>5. Power = [n \in Nat |-> IF n = 0 THEN 1 ELSE Base * Power[n - 1]]
  BY <1>3, <1>4
<1>6. Power[0] = 1 /\ \A n \in Nat : Power[n + 1] = Base * Power[n]
  <2>1. \A n \in Nat : n + 1 \in Nat /\ n + 1 # 0 /\ n + 1 - 1 = n
    OBVIOUS
  <2> QED BY <1>5, <2>1
<1>7. \A n \in Nat : Power[n] \in Nat \ {0}
  <2> DEFINE Bad == {n \in Nat : Power[n] \notin Nat \ {0}}
  <2> SUFFICES ASSUME Bad # {} PROVE FALSE
    OBVIOUS
  <2>1. PICK n \in Bad : \A k \in Bad : n =< k
    <3>1. Bad \subseteq Nat
      OBVIOUS
    <3> HIDE DEF Bad
    <3> QED BY <3>1, LeastOf
  <2>2. n \in Nat /\ n # 0
    BY <1>6
  <2>3. n - 1 \in Nat /\ ~(n =< n - 1) /\ n - 1 + 1 = n
    BY <2>2
  <2>4. Power[n - 1] \in Nat \ {0}
    BY <2>1, <2>3
  <2>5. Power[n] = Base * Power[n - 1]
    BY <1>6, <2>3
  <2>6. \A b \in Nat : \A x \in Nat \ {0} : b >= 2 => b * x \in Nat \ {0}
    OBVIOUS
  <2>7. Power[n] \in Nat \ {0}
    BY <2>4, <2>5, <2>6, BaseIs
  <2> QED BY <2>7
<1> QED BY <1>6, <1>7

LEMMA LimitIs ==
  /\ Limit \in Nat
  /\ \A n \in Nat, v \in 0 .. Base - 1 :
       n =< Limit => n * Base + v \in 0 .. Power[SizeWidth] - 1
  /\ \A n \in Nat : n =< Limit => n \in 0 .. Power[SizeWidth] - 1
<1> DEFINE P == Power[SizeWidth - 1]
<1>1. SizeWidth - 1 \in Nat /\ SizeWidth - 1 + 1 = SizeWidth
  BY ChunkedAssumption
<1>2. P \in Nat /\ P >= 1 /\ Power[SizeWidth] = Base * P /\ Limit = P - 1
  BY <1>1, PowerIs DEF Limit
<1> HIDE DEF P
<1>3. ASSUME NEW b \in Nat, b >= 2, NEW q \in Nat, q >= 1, NEW n \in Nat, n =< q - 1,
             NEW v \in 0 .. b - 1
      PROVE  n * b + v \in 0 .. b * q - 1 /\ n \in 0 .. b * q - 1
  <2>1. n * b =< (q - 1) * b
    BY <1>3
  <2>2. (q - 1) * b = b * q - b /\ n =< n * b /\ n * b \in Nat /\ b * q \in Nat
    BY <1>3
  <2> QED BY <2>1, <2>2, <1>3
<1>4. 0 \in 0 .. Base - 1
  BY BaseIs
<1> QED BY <1>2, <1>3, <1>4, BaseIs

\* Reading a numeral digit by digit gives its number.
LEMMA NumeralIs ==
  ASSUME NEW n \in Nat, NEW w \in Nat \ {0}, n < Power[w]
  PROVE  /\ Numeral(n, w) \in Seq(Bytes) /\ Len(Numeral(n, w)) = w
         /\ \A k \in 0 .. w : n \div Power[w - k] \in Nat
         /\ n \div Power[w] = 0 /\ n \div Power[0] = n
         /\ \A k \in 0 .. w - 1 :
              /\ IsDigit(Numeral(n, w)[k + 1])
              /\ n \div Power[w - (k + 1)]
                   = (n \div Power[w - k]) * Base + Value(Numeral(n, w)[k + 1])
<1> DEFINE d(k) == ((n \div Power[w - k]) % Base) + 1
<1>1. \A k \in 0 .. w : w - k \in Nat /\ Power[w - k] \in Nat \ {0} /\ n \div Power[w - k] \in Nat
  <2>1. \A a \in Nat : \A b \in Nat \ {0} : a \div b \in Nat
    OBVIOUS
  <2>2. ASSUME NEW k \in 0 .. w PROVE w - k \in Nat
    OBVIOUS
  <2>3. ASSUME NEW k \in 0 .. w PROVE Power[w - k] \in Nat \ {0}
    BY <2>2, PowerIs
  <2> QED BY <2>1, <2>2, <2>3
<1>2. \A k \in 1 .. w : d(k) \in 1 .. Base
  <2>1. \A a \in Nat : \A b \in Nat : b >= 2 => (a % b) + 1 \in 1 .. b
    OBVIOUS
  <2> QED BY <1>1, <2>1, BaseIs
<1>3. Numeral(n, w) = [i \in 1 .. w |-> Digits[d(i)]]
  BY DEF Numeral
<1> HIDE DEF d
<1>4. \A i \in 1 .. Base : Digits[i] \in Bytes
  BY MessageAssumption DEF Base
<1>5. /\ Numeral(n, w) \in Seq(Bytes) /\ Len(Numeral(n, w)) = w
      /\ \A i \in 1 .. w : Numeral(n, w)[i] = Digits[d(i)]
  <2>1. \A i \in 1 .. w : Digits[d(i)] \in Bytes
    BY <1>2, <1>4
  <2> QED BY <1>3, <2>1
<1>6. n \div Power[w] = 0
  <2>1. \A a \in Nat : \A b \in Nat : a < b => a \div b = 0
    OBVIOUS
  <2> QED BY <2>1, PowerIs
<1>7. n \div Power[0] = n
  BY PowerIs
<1>8. ASSUME NEW k \in 0 .. w - 1
      PROVE  /\ IsDigit(Numeral(n, w)[k + 1])
             /\ n \div Power[w - (k + 1)]
                  = (n \div Power[w - k]) * Base + Value(Numeral(n, w)[k + 1])
  <2> DEFINE x == Power[w - (k + 1)]
             q == n \div x
  <2>1. k + 1 \in 1 .. w /\ k + 1 \in 0 .. w /\ w - (k + 1) \in Nat /\ w - (k + 1) + 1 = w - k
    OBVIOUS
  <2>2. x \in Nat \ {0} /\ q \in Nat /\ Power[w - k] = Base * x
    BY <1>1, <2>1, PowerIs
  <2>3. d(k + 1) \in 1 .. Base /\ d(k + 1) = (q % Base) + 1
    BY <1>2, <2>1 DEF d
  <2>4. IsDigit(Digits[d(k + 1)]) /\ Value(Digits[d(k + 1)]) = q % Base
    <3> HIDE DEF q
    <3>1. \A i \in 1 .. Base : Digits[i] = Digits[d(k + 1)] => i = d(k + 1)
      BY <2>3, ChunkedAssumption DEF Base
    <3>2. (CHOOSE i \in 1 .. Base : Digits[i] = Digits[d(k + 1)]) = d(k + 1)
      BY <2>3, <3>1
    <3>3. q % Base \in Nat
      BY <2>2, BaseIs
    <3>5. Value(Digits[d(k + 1)]) = d(k + 1) - 1
      BY <3>2 DEF Value
    <3>6. IsDigit(Digits[d(k + 1)])
      BY <2>3 DEF IsDigit
    <3>7. \A v, y \in Nat : v = y + 1 => v - 1 = y
      OBVIOUS
    <3>8. d(k + 1) - 1 = q % Base
      BY <2>3, <3>3, <3>7
    <3> QED BY <3>5, <3>6, <3>8
  <2> HIDE DEF x
  <2>5. n \div (Base * x) = q \div Base
    <3>1. ASSUME NEW b \in Nat \ {0}, NEW c \in Nat \ {0} PROVE n \div (b * c) = (n \div c) \div b
      OBVIOUS
    <3>2. Base \in Nat \ {0}
      BY BaseIs
    <3> QED BY <2>2, <3>1, <3>2
  <2> HIDE DEF q
  <2>6. q = ((q \div Base) * Base) + (q % Base)
    BY <2>2, BaseIs
  <2> QED BY <1>5, <2>1, <2>2, <2>4, <2>5, <2>6 DEF q, x
<1> QED BY <1>1, <1>5, <1>6, <1>7, <1>8

-----------------------------------------------------------------------------
(* Sequences within sequences.                                             *)

\* s is what w holds behind its first `at' elements.
Carries(w, at, s) ==
  /\ at \in Nat /\ at + Len(s) =< Len(w)
  /\ \A j \in 1 .. Len(s) : w[at + j] = s[j]

LEMMA Concatenated ==
  ASSUME NEW S, NEW a \in Seq(S), NEW b \in Seq(S)
  PROVE  /\ a \o b \in Seq(S) /\ Len(a \o b) = Len(a) + Len(b)
         /\ Carries(a \o b, 0, a) /\ Carries(a \o b, Len(a), b)
<1> DEFINE c == a \o b
<1>1. /\ c \in Seq(S) /\ Len(c) = Len(a) + Len(b) /\ Len(a) \in Nat /\ Len(b) \in Nat
      /\ \A i \in 1 .. Len(a) : c[i] = a[i]
      /\ \A i \in Len(a) + 1 .. Len(a) + Len(b) : c[i] = b[i - Len(a)]
  OBVIOUS
<1> HIDE DEF c
<1>2. ASSUME NEW j \in 1 .. Len(b) PROVE c[Len(a) + j] = b[j]
  <2>1. Len(a) + j \in Len(a) + 1 .. Len(a) + Len(b) /\ Len(a) + j - Len(a) = j
    BY <1>1
  <2> QED BY <1>1, <2>1
<1>3. \A j \in 1 .. Len(a) : 0 + j = j
  BY <1>1
<1> QED BY <1>1, <1>2, <1>3 DEF Carries, c

LEMMA CarriesWithin ==
  ASSUME NEW S, NEW w \in Seq(S), NEW s \in Seq(S), NEW t \in Seq(S), NEW x, NEW y,
         Carries(w, x, s), Carries(s, y, t)
  PROVE  Carries(w, x + y, t)
<1>1. /\ x \in Nat /\ y \in Nat /\ x + Len(s) =< Len(w) /\ y + Len(t) =< Len(s)
      /\ Len(w) \in Nat /\ Len(s) \in Nat /\ Len(t) \in Nat
  BY DEF Carries
<1>2. ASSUME NEW j \in 1 .. Len(t) PROVE w[x + y + j] = t[j]
  <2>1. y + j \in 1 .. Len(s) /\ x + (y + j) = x + y + j
    BY <1>1
  <2> QED BY <2>1 DEF Carries
<1> QED BY <1>1, <1>2 DEF Carries

\* Where each of the sequences ss begins in FlattenSeq(ss).
IsStarts(ss, at) ==
  /\ at \in [0 .. Len(ss) -> Nat] /\ at[0] = 0
  /\ Len(FlattenSeq(ss)) = at[Len(ss)]
  /\ \A n \in 0 .. Len(ss) - 1 :
       at[n + 1] = at[n] + Len(ss[n + 1]) /\ Carries(FlattenSeq(ss), at[n], ss[n + 1])

Starts(ss) == CHOOSE at : IsStarts(ss, at)

\* What flattening the first N of them comes to.
IsFlat(ss, f, N) ==
  f = [i \in 1 .. N |-> IF i = 1 THEN ss[i] ELSE f[i - 1] \o ss[i]]

LEMMA FlatExists ==
  ASSUME NEW S, NEW ss \in Seq(Seq(S))
  PROVE  \A N \in 0 .. Len(ss) : \E f : IsFlat(ss, f, N)
<1> DEFINE Missing == {N \in 0 .. Len(ss) : ~\E f : IsFlat(ss, f, N)}
<1> SUFFICES ASSUME Missing # {} PROVE FALSE
  OBVIOUS
<1>0. Len(ss) \in Nat
  OBVIOUS
<1>1. PICK N \in Missing : \A n \in Missing : N =< n
  <2>1. Missing \subseteq Nat
    OBVIOUS
  <2> HIDE DEF Missing
  <2> QED BY <2>1, LeastOf
<1>2. N # 0
  <2>1. <<>> = [i \in 1 .. 0 |-> IF i = 1 THEN ss[i] ELSE <<>>[i - 1] \o ss[i]]
    OBVIOUS
  <2>2. IsFlat(ss, <<>>, 0)
    BY <2>1 DEF IsFlat
  <2> QED BY <1>1, <2>2
<1>3. N \in Nat /\ N - 1 \in 0 .. Len(ss) /\ ~(N =< N - 1)
  BY <1>0, <1>2
<1>4. PICK f : IsFlat(ss, f, N - 1)
  BY <1>1, <1>3
<1> DEFINE e == IF N = 1 THEN ss[N] ELSE f[N - 1] \o ss[N]
           g == [i \in 1 .. N |-> IF i = N THEN e ELSE f[i]]
<1>5. \A i \in 1 .. N - 1 : i \in 1 .. N /\ i # N /\ g[i] = f[i]
  BY <1>3
<1>6. g[N] = e
  BY <1>2, <1>3
<1> HIDE DEF e
<1>7. ASSUME NEW i \in 1 .. N PROVE g[i] = IF i = 1 THEN ss[i] ELSE g[i - 1] \o ss[i]
  <2>1. i # 1 => i - 1 \in 1 .. N - 1
    BY <1>3
  <2>2. CASE i = N
    BY <1>5, <1>6, <2>1, <2>2 DEF e
  <2>3. CASE i # N
    <3>1. i \in 1 .. N - 1
      BY <1>3, <2>3
    <3>2. f[i] = IF i = 1 THEN ss[i] ELSE f[i - 1] \o ss[i]
      BY <1>4, <3>1 DEF IsFlat
    <3> QED BY <1>5, <2>1, <3>1, <3>2
  <2> QED BY <2>2, <2>3
<1>8. g = [i \in 1 .. N |-> g[i]]
  OBVIOUS
<1> HIDE DEF g
<1>9. IsFlat(ss, g, N)
  BY <1>7, <1>8 DEF IsFlat
<1> QED BY <1>1, <1>9

LEMMA StartsIs ==
  ASSUME NEW S, NEW ss \in Seq(Seq(S))
  PROVE  IsStarts(ss, Starts(ss)) /\ FlattenSeq(ss) \in Seq(S)
<1> DEFINE N == Len(ss)
           f == CHOOSE g : IsFlat(ss, g, N)
           at == [n \in 0 .. N |-> IF n = 0 THEN 0 ELSE Len(f[n])]
<1>0. N \in Nat /\ \A n \in 1 .. N : ss[n] \in Seq(S)
  OBVIOUS
<1>1. IsFlat(ss, f, N)
  BY <1>0, FlatExists
<1>2. FlattenSeq(ss) = IF N = 0 THEN <<>> ELSE f[N]
  <2>1. N = 0 => ss = <<>>
    OBVIOUS
  <2> QED BY <2>1 DEF FlattenSeq, IsFlat
<1> HIDE DEF f
<1>3. /\ \A n \in 1 .. N : n = 1 => f[n] = ss[n]
      /\ \A n \in 1 .. N - 1 : f[n + 1] = f[n] \o ss[n + 1]
  <2>1. \A n \in 1 .. N : f[n] = IF n = 1 THEN ss[n] ELSE f[n - 1] \o ss[n]
    BY <1>1 DEF IsFlat
  <2>2. ASSUME NEW n \in 1 .. N - 1 PROVE f[n + 1] = f[n] \o ss[n + 1]
    <3>1. PICK k \in 1 .. N : k = n + 1 /\ k # 1 /\ k - 1 = n
      BY <1>0
    <3>2. f[k] = f[k - 1] \o ss[k]
      BY <2>1, <3>1
    <3> QED BY <3>1, <3>2
  <2> QED BY <2>1, <2>2
<1>4. \A n \in 1 .. N : f[n] \in Seq(S)
  <2> DEFINE Bad == {n \in 1 .. N : f[n] \notin Seq(S)}
  <2> SUFFICES ASSUME Bad # {} PROVE FALSE
    OBVIOUS
  <2>1. PICK n \in Bad : \A k \in Bad : n =< k
    <3>1. Bad \subseteq Nat
      OBVIOUS
    <3> HIDE DEF Bad
    <3> QED BY <3>1, LeastOf
  <2>2. n # 1
    BY <1>0, <1>3
  <2>3. n - 1 \in 1 .. N /\ n - 1 \in 1 .. N - 1 /\ ~(n =< n - 1) /\ n - 1 + 1 = n
    BY <1>0, <2>2
  <2>4. f[n - 1] \in Seq(S) /\ ss[n] \in Seq(S)
    BY <1>0, <2>1, <2>3
  <2>5. f[n] = f[n - 1] \o ss[n]
    BY <1>3, <2>3
  <2>6. f[n] \in Seq(S)
    BY <2>4, <2>5, Concatenated
  <2> QED BY <2>6
<1>5. /\ at \in [0 .. N -> Nat] /\ at[0] = 0
      /\ \A n \in 1 .. N : at[n] = Len(f[n])
  BY <1>0, <1>4
<1> HIDE DEF at
<1>6. \A n \in 0 .. N - 1 : at[n + 1] = at[n] + Len(ss[n + 1]) /\ Carries(f[n + 1], at[n], ss[n + 1])
  <2> SUFFICES ASSUME NEW n \in 0 .. N - 1
               PROVE  at[n + 1] = at[n] + Len(ss[n + 1]) /\ Carries(f[n + 1], at[n], ss[n + 1])
    OBVIOUS
  <2>1. n + 1 \in 1 .. N /\ n + 1 - 1 = n /\ ss[n + 1] \in Seq(S) /\ at[n + 1] = Len(f[n + 1])
    BY <1>0, <1>5
  <2>2. CASE n = 0
    <3>1. f[n + 1] = ss[n + 1] /\ at[n] = 0
      BY <1>3, <1>5, <2>1, <2>2
    <3>2. \A s \in Seq(S) : Len(s) \in Nat /\ Carries(s, 0, s)
      BY DEF Carries
    <3> QED BY <2>1, <3>1, <3>2
  <2>3. CASE n # 0
    <3>1. n \in 1 .. N /\ n \in 1 .. N - 1
      BY <1>0, <2>3
    <3>2. f[n + 1] = f[n] \o ss[n + 1] /\ f[n] \in Seq(S) /\ at[n] = Len(f[n])
      BY <1>3, <1>4, <1>5, <2>1, <3>1
    <3> QED BY <2>1, <3>2, Concatenated
  <2> QED BY <2>2, <2>3
<1>7. \A n \in 1 .. N : Carries(f[N], 0, f[n])
  <2> DEFINE Bad == {k \in 0 .. N - 1 : ~Carries(f[N], 0, f[N - k])}
  <2>1. Bad = {}
    <3> SUFFICES ASSUME Bad # {} PROVE FALSE
      OBVIOUS
    <3>1. PICK k \in Bad : \A j \in Bad : k =< j
      <4>1. Bad \subseteq Nat
        OBVIOUS
      <4> HIDE DEF Bad
      <4> QED BY <4>1, LeastOf
    <3>2. k # 0
      <4>1. \A s \in Seq(S) : Carries(s, 0, s)
        BY DEF Carries
      <4>2. N - 0 = N /\ N \in 1 .. N
        BY <1>0, <3>1
      <4> QED BY <1>4, <3>1, <4>1, <4>2
    <3>3. k - 1 \in 0 .. N - 1 /\ ~(k =< k - 1) /\ N - (k - 1) = N - k + 1
          /\ N - k \in 1 .. N /\ N - k \in 1 .. N - 1 /\ N - k + 1 \in 1 .. N /\ N \in 1 .. N
      BY <1>0, <3>2
    <3>4. Carries(f[N], 0, f[N - k + 1])
      BY <3>1, <3>3
    <3>5. f[N - k + 1] = f[N - k] \o ss[N - k + 1]
      BY <1>3, <3>3
    <3>6. Carries(f[N - k + 1], 0, f[N - k])
      <4>1. f[N - k] \in Seq(S) /\ ss[N - k + 1] \in Seq(S)
        BY <1>0, <1>4, <3>3
      <4>2. Carries(f[N - k] \o ss[N - k + 1], 0, f[N - k])
        BY <4>1, Concatenated
      <4> QED BY <3>5, <4>2
    <3>7. Carries(f[N], 0 + 0, f[N - k])
      BY <1>4, <3>3, <3>4, <3>6, CarriesWithin
    <3> QED BY <3>1, <3>7
  <2>2. ASSUME NEW n \in 1 .. N PROVE Carries(f[N], 0, f[n])
    <3>1. N - n \in 0 .. N - 1 /\ N - (N - n) = n
      BY <1>0
    <3> QED BY <2>1, <3>1
  <2> QED BY <2>2
<1>8. IsStarts(ss, at) /\ FlattenSeq(ss) \in Seq(S)
  <2>1. CASE N = 0
    BY <1>2, <1>5, <2>1 DEF IsStarts
  <2>2. CASE N # 0
    <3>1. N \in 1 .. N /\ N \in 0 .. N
      BY <1>0, <2>2
    <3>2. FlattenSeq(ss) = f[N] /\ f[N] \in Seq(S) /\ Len(f[N]) = at[N]
      BY <1>2, <1>4, <1>5, <2>2, <3>1
    <3>3. ASSUME NEW n \in 0 .. N - 1 PROVE Carries(f[N], at[n], ss[n + 1])
      <4>1. n + 1 \in 1 .. N
        BY <1>0
      <4>2. Carries(f[N], 0, f[n + 1]) /\ Carries(f[n + 1], at[n], ss[n + 1])
        BY <1>6, <1>7, <4>1
      <4>3. Carries(f[N], 0 + at[n], ss[n + 1])
        BY <1>0, <1>4, <3>1, <4>1, <4>2, CarriesWithin
      <4>0. at[n] \in Nat
        <5> HIDE DEF N
        <5>1. n \in 0 .. N
          BY <1>0
        <5> QED BY <1>5, <5>1
      <4>4. 0 + at[n] = at[n]
        BY <4>0
      <4> QED BY <4>3, <4>4
    <3> QED BY <1>5, <1>6, <3>2, <3>3 DEF IsStarts
  <2> QED BY <2>1, <2>2
<1> QED BY <1>8 DEF Starts

-----------------------------------------------------------------------------
(* The bytes of a message.                                                 *)

LEMMA CrLfIs ==
  /\ CrLf \in Seq(Bytes) /\ Len(CrLf) = 2 /\ CrLf[1] = "cr" /\ CrLf[2] = "lf"
  /\ <<":">> \in Seq(Bytes)
<1>1. "cr" \in Bytes /\ "lf" \in Bytes /\ ":" \in Bytes
  BY MessageAssumption
<1>2. ASSUME NEW S, NEW a \in S, NEW b \in S
      PROVE  <<a, b>> \in Seq(S) /\ Len(<<a, b>>) = 2 /\ <<a, b>>[1] = a /\ <<a, b>>[2] = b
             /\ <<a>> \in Seq(S)
  OBVIOUS
<1> QED BY <1>1, <1>2 DEF CrLf

\* c is a followed by b.
Joins(c, a, b) ==
  /\ c \in Seq(Bytes) /\ Len(c) = Len(a) + Len(b)
  /\ Len(a) \in Nat /\ Len(b) \in Nat
  /\ \A i \in 1 .. Len(a) : c[i] = a[i]
  /\ \A j \in 1 .. Len(b) : c[Len(a) + j] = b[j]

LEMMA Joined == \A a, b \in Seq(Bytes) : Joins(a \o b, a, b)
<1> SUFFICES ASSUME NEW a \in Seq(Bytes), NEW b \in Seq(Bytes) PROVE Joins(a \o b, a, b)
  OBVIOUS
<1>1. \A i \in 1 .. Len(a) : 0 + i = i
  OBVIOUS
<1> QED BY <1>1, Concatenated DEF Carries, Joins

HeaderType == [name : Seq(Bytes), spaces : Nat, value : Seq(Bytes)]
ChunkType == [width : Nat \ {0}, size : Nat, data : Seq(Bytes)]

LEMMA HeaderBytesAre ==
  ASSUME NEW h \in HeaderType
  PROVE  LET e == HeaderBytes(h)
             a == Len(h.name)
             v == Len(h.value)
         IN  /\ e \in Seq(Bytes) /\ Len(e) = a + 1 + h.spaces + v + 2
             /\ a \in Nat /\ v \in Nat /\ h.spaces \in Nat
             /\ \A i \in 1 .. a : e[i] = h.name[i]
             /\ e[a + 1] = ":"
             /\ \A j \in 1 .. h.spaces : e[a + 1 + j] = "sp"
             /\ \A j \in 1 .. v : e[a + 1 + h.spaces + j] = h.value[j]
             /\ e[a + 1 + h.spaces + v + 1] = "cr" /\ e[a + 1 + h.spaces + v + 2] = "lf"
<1> DEFINE n == h.name
           s == h.spaces
           u == h.value
           sp == [i \in 1 .. s |-> "sp"]
           b == n \o <<":">>
           c == b \o sp
           d == c \o u
           e == d \o CrLf
<1>1. HeaderBytes(h) = e
  BY DEF HeaderBytes
<1>2. n \in Seq(Bytes) /\ s \in Nat /\ u \in Seq(Bytes) /\ Len(n) \in Nat /\ Len(u) \in Nat
  BY DEF HeaderType
<1>3. sp \in Seq(Bytes) /\ Len(sp) = s /\ \A j \in 1 .. s : sp[j] = "sp"
  <2>1. "sp" \in Bytes
    BY MessageAssumption
  <2>2. ASSUME NEW x \in Bytes, NEW k \in Nat, NEW f, f = [i \in 1 .. k |-> x]
        PROVE  f \in Seq(Bytes) /\ Len(f) = k /\ \A j \in 1 .. k : f[j] = x
    BY <2>2
  <2> QED BY <1>2, <2>1, <2>2
<1> HIDE DEF n, s, u, sp
<1>b. b = n \o <<":">> /\ c = b \o sp /\ d = c \o u /\ e = d \o CrLf
  OBVIOUS
<1> HIDE DEF b, c, d, e
<1>4. /\ b \in Seq(Bytes) /\ Len(b) = Len(n) + 1 /\ b[Len(n) + 1] = ":"
      /\ \A i \in 1 .. Len(n) : b[i] = n[i]
  <2>1. Len(<<":">>) = 1 /\ <<":">>[1] = ":" /\ 1 \in 1 .. 1
    OBVIOUS
  <2>2. Joins(b, n, <<":">>)
    BY <1>b, <1>2, CrLfIs, Joined
  <2> QED BY <2>1, <2>2 DEF Joins
<1>5. /\ c \in Seq(Bytes) /\ Len(c) = Len(b) + s
      /\ \A i \in 1 .. Len(b) : c[i] = b[i]
      /\ \A j \in 1 .. s : c[Len(b) + j] = "sp"
  <2>1. Joins(c, b, sp)
    BY <1>b, <1>3, <1>4, Joined
  <2> QED BY <1>3, <2>1 DEF Joins
<1>6. /\ d \in Seq(Bytes) /\ Len(d) = Len(c) + Len(u)
      /\ \A i \in 1 .. Len(c) : d[i] = c[i]
      /\ \A j \in 1 .. Len(u) : d[Len(c) + j] = u[j]
  <2>1. Joins(d, c, u)
    BY <1>b, <1>2, <1>5, Joined
  <2> QED BY <2>1 DEF Joins
<1>7. /\ e \in Seq(Bytes) /\ Len(e) = Len(d) + 2
      /\ \A i \in 1 .. Len(d) : e[i] = d[i]
      /\ e[Len(d) + 1] = "cr" /\ e[Len(d) + 2] = "lf"
  <2>1. 1 \in 1 .. 2 /\ 2 \in 1 .. 2
    OBVIOUS
  <2>2. Joins(e, d, CrLf)
    BY <1>b, <1>6, CrLfIs, Joined
  <2> QED BY <2>1, <2>2, CrLfIs DEF Joins
<1>8. Len(b) = Len(n) + 1 /\ Len(c) = Len(n) + 1 + s /\ Len(d) = Len(n) + 1 + s + Len(u)
  BY <1>2, <1>4, <1>5, <1>6
<1>9. \A i \in 1 .. Len(n) : e[i] = n[i]
  <2>1. ASSUME NEW i \in 1 .. Len(n) PROVE e[i] = n[i]
    <3>1. i \in 1 .. Len(b) /\ i \in 1 .. Len(c) /\ i \in 1 .. Len(d)
      BY <1>2, <1>8
    <3>2. b[i] = n[i]
      BY <1>4
    <3>3. c[i] = b[i]
      BY <1>5, <3>1
    <3>4. d[i] = c[i] /\ e[i] = d[i]
      BY <1>6, <1>7, <3>1
    <3> QED BY <3>2, <3>3, <3>4
  <2> QED BY <2>1
<1>10. e[Len(n) + 1] = ":"
  <2>1. Len(n) + 1 \in 1 .. Len(b) /\ Len(n) + 1 \in 1 .. Len(c) /\ Len(n) + 1 \in 1 .. Len(d)
    BY <1>2, <1>8
  <2> QED BY <1>4, <1>5, <1>6, <1>7, <2>1
<1>11. \A j \in 1 .. s : e[Len(n) + 1 + j] = "sp"
  <2>1. ASSUME NEW j \in 1 .. s PROVE e[Len(n) + 1 + j] = "sp"
    <3>1. Len(b) + j \in 1 .. Len(c) /\ Len(b) + j \in 1 .. Len(d)
      BY <1>2, <1>8
    <3>2. e[Len(b) + j] = "sp"
      BY <1>5, <1>6, <1>7, <3>1
    <3> QED BY <1>8, <3>2
  <2> QED BY <2>1
<1>12. \A j \in 1 .. Len(u) : e[Len(n) + 1 + s + j] = u[j]
  <2>1. ASSUME NEW j \in 1 .. Len(u) PROVE e[Len(n) + 1 + s + j] = u[j]
    <3>1. Len(c) + j \in 1 .. Len(d)
      BY <1>2, <1>8
    <3>2. e[Len(c) + j] = u[j]
      BY <1>6, <1>7, <3>1
    <3> QED BY <1>8, <3>2
  <2> QED BY <2>1
<1>13. e[Len(n) + 1 + s + Len(u) + 1] = "cr" /\ e[Len(n) + 1 + s + Len(u) + 2] = "lf"
  BY <1>7, <1>8
<1>14. Len(e) = Len(n) + 1 + s + Len(u) + 2
  BY <1>7, <1>8
<1> QED BY <1>1, <1>2, <1>7, <1>9, <1>10, <1>11, <1>12, <1>13, <1>14 DEF n, s, u

\* Where the data of a chunk end among its bytes.
DataEnd(c) == c.width + 2 + Len(c.data)

LEMMA ChunkBytesAre ==
  ASSUME NEW c \in ChunkType, c.size < Power[c.width]
  PROVE  LET e == ChunkBytes(c)
             w == c.width
             d == Len(c.data)
         IN  /\ e \in Seq(Bytes) /\ Len(e) = w + 2 + d + 2
             /\ w \in Nat /\ d \in Nat
             /\ \A i \in 1 .. w : e[i] = Numeral(c.size, w)[i]
             /\ e[w + 1] = "cr" /\ e[w + 2] = "lf"
             /\ \A j \in 1 .. d : e[w + 2 + j] = c.data[j]
             /\ e[w + 2 + d + 1] = "cr" /\ e[w + 2 + d + 2] = "lf"
<1> DEFINE w == c.width
           u == c.data
           n == Numeral(c.size, w)
           a == n \o CrLf
           b == a \o u
           e == b \o CrLf
<1>1. ChunkBytes(c) = e
  BY DEF ChunkBytes
<1>2. w \in Nat \ {0} /\ u \in Seq(Bytes) /\ Len(u) \in Nat /\ c.size \in Nat
  BY DEF ChunkType
<1>3. n \in Seq(Bytes) /\ Len(n) = w
  BY <1>2, NumeralIs
<1> HIDE DEF w, u, n
<1>0. 1 \in 1 .. 2 /\ 2 \in 1 .. 2
  OBVIOUS
<1>b. a = n \o CrLf /\ b = a \o u /\ e = b \o CrLf
  OBVIOUS
<1> HIDE DEF a, b, e
<1>4. /\ a \in Seq(Bytes) /\ Len(a) = w + 2
      /\ a[w + 1] = "cr" /\ a[w + 2] = "lf"
      /\ \A i \in 1 .. w : a[i] = n[i]
  <2>1. Joins(a, n, CrLf)
    BY <1>b, <1>3, CrLfIs, Joined
  <2> QED BY <1>0, <1>3, <2>1, CrLfIs DEF Joins
<1>5. /\ b \in Seq(Bytes) /\ Len(b) = w + 2 + Len(u)
      /\ \A i \in 1 .. w + 2 : b[i] = a[i]
      /\ \A j \in 1 .. Len(u) : b[w + 2 + j] = u[j]
  <2>1. Joins(b, a, u)
    BY <1>b, <1>2, <1>4, Joined
  <2> QED BY <1>4, <2>1 DEF Joins
<1>6. /\ e \in Seq(Bytes) /\ Len(e) = w + 2 + Len(u) + 2
      /\ \A i \in 1 .. w + 2 + Len(u) : e[i] = b[i]
      /\ e[w + 2 + Len(u) + 1] = "cr" /\ e[w + 2 + Len(u) + 2] = "lf"
  <2>1. Joins(e, b, CrLf)
    BY <1>b, <1>5, CrLfIs, Joined
  <2> QED BY <1>0, <1>5, <2>1, CrLfIs DEF Joins
<1>7. \A i \in 1 .. w + 2 : e[i] = a[i]
  <2>1. ASSUME NEW i \in 1 .. w + 2 PROVE i \in 1 .. w + 2 + Len(u)
    BY <1>2
  <2> QED BY <1>5, <1>6, <2>1
<1>8. \A i \in 1 .. w : e[i] = n[i]
  <2>1. ASSUME NEW i \in 1 .. w PROVE i \in 1 .. w + 2
    BY <1>2
  <2> QED BY <1>4, <1>7, <2>1
<1>9. e[w + 1] = "cr" /\ e[w + 2] = "lf"
  <2>1. w + 1 \in 1 .. w + 2 /\ w + 2 \in 1 .. w + 2
    BY <1>2
  <2> QED BY <1>4, <1>7, <2>1
<1>10. \A j \in 1 .. Len(u) : e[w + 2 + j] = u[j]
  <2>1. ASSUME NEW j \in 1 .. Len(u) PROVE w + 2 + j \in 1 .. w + 2 + Len(u)
    BY <1>2
  <2> QED BY <1>5, <1>6, <2>1
<1> QED BY <1>1, <1>2, <1>6, <1>8, <1>9, <1>10 DEF w, u, n

-----------------------------------------------------------------------------
(* Where the parts of a message are.                                       *)

HeaderSeq(m) == [i \in 1 .. Len(m.headers) |-> HeaderBytes(m.headers[i])]
SentSeq(m) == [n \in 1 .. Len(m.chunks) |-> Sent(m, n)]
DataSeq(m) == [n \in 1 .. Len(m.chunks) |-> m.chunks[n].data]

\* How many bytes are in front of header i + 1, of the empty line if there is
\* none, of chunk n + 1, and how many of the content in front of its data.
HeaderAt(m, i) == Len(m.line) + 2 + Starts(HeaderSeq(m))[i]
ChunkAt(m, n) == Len(HeadBytes(m)) + Starts(SentSeq(m))[n]
DataAt(m, n) == Starts(DataSeq(m))[n]

LEMMA CarriesBoth ==
  ASSUME NEW a \in Seq(Bytes), NEW b \in Seq(Bytes), NEW c, c = a \o b
  PROVE  c \in Seq(Bytes) /\ Len(c) = Len(a) + Len(b) /\ Carries(c, 0, a) /\ Carries(c, Len(a), b)
BY Concatenated

LEMMA MessageParts ==
  ASSUME NEW m \in Messages
  PROVE  /\ m \in MessageType /\ MessageOK(m)
         /\ m.line \in Seq(Bytes) /\ Len(m.line) \in Nat
         /\ Len(m.headers) \in Nat /\ Len(m.chunks) \in Nat \ {0}
         /\ \A i \in 1 .. Len(m.headers) : m.headers[i] \in HeaderType /\ HeaderOK(m.headers[i])
         /\ \A n \in 1 .. Len(m.chunks) :
              /\ m.chunks[n] \in ChunkType
              /\ ChunkOK(m.chunks[n])
              /\ m.chunks[n].size = 0 <=> n = Len(m.chunks)
<1>1. m \in MessageType /\ MessageOK(m)
  BY MessageAssumption
<1>2. m.line \in Seq(Bytes) /\ m.headers \in Seq(HeaderType) /\ m.chunks \in Seq(ChunkType)
  BY <1>1 DEF MessageType, HeaderType, ChunkType
<1>3. \A S : \A s \in Seq(S) : Len(s) \in Nat /\ (\A i \in 1 .. Len(s) : s[i] \in S)
                               /\ (s # <<>> => Len(s) # 0)
  OBVIOUS
<1>4. m.chunks # <<>>
  BY <1>1 DEF MessageOK
<1> QED BY <1>1, <1>2, <1>3, <1>4 DEF MessageOK

LEMMA SentIs ==
  ASSUME NEW m \in Messages, NEW n \in 1 .. Len(m.chunks)
  PROVE  /\ Sent(m, n) \in Seq(Bytes) /\ Len(Sent(m, n)) = DataEnd(m.chunks[n]) + 2
         /\ \A i \in 1 .. DataEnd(m.chunks[n]) + 2 :
              Sent(m, n)[i] = IF m.damage = <<n, i>> THEN "damaged" ELSE ChunkBytes(m.chunks[n])[i]
<1> DEFINE b == ChunkBytes(m.chunks[n])
           k == DataEnd(m.chunks[n]) + 2
<1>1. b \in Seq(Bytes) /\ Len(b) = k /\ k \in Nat
  <2> DEFINE c == m.chunks[n]
  <2>1. c \in ChunkType /\ c.size < Power[c.width]
    BY MessageParts DEF ChunkOK
  <2> HIDE DEF c
  <2>2. /\ ChunkBytes(c) \in Seq(Bytes) /\ Len(ChunkBytes(c)) = c.width + 2 + Len(c.data) + 2
        /\ c.width \in Nat /\ Len(c.data) \in Nat
    BY <2>1, ChunkBytesAre
  <2> QED BY <2>2 DEF c, DataEnd
<1>2. Sent(m, n) = [i \in 1 .. Len(b) |-> IF m.damage = <<n, i>> THEN "damaged" ELSE b[i]]
  BY DEF Sent
<1> HIDE DEF b, k
<1>3. "damaged" \in Bytes
  BY MessageAssumption
<1>4. \A i \in 1 .. k : b[i] \in Bytes
  BY <1>1
<1> QED BY <1>1, <1>2, <1>3, <1>4 DEF b, k

\* The content as it was put into the chunks.
LEMMA ContentIs ==
  ASSUME NEW m \in Messages
  PROVE  /\ Content(m) \in Seq(Bytes)
         /\ DataAt(m, 0) = 0 /\ Len(Content(m)) = DataAt(m, Len(m.chunks))
         /\ \A n \in 0 .. Len(m.chunks) : DataAt(m, n) \in Nat
         /\ \A n \in 0 .. Len(m.chunks) - 1 :
              /\ DataAt(m, n + 1) = DataAt(m, n) + Len(m.chunks[n + 1].data)
              /\ Carries(Content(m), DataAt(m, n), m.chunks[n + 1].data)
<1> DEFINE ss == DataSeq(m)
<1>1. \A n \in 1 .. Len(m.chunks) : m.chunks[n].data \in Seq(Bytes)
  BY MessageParts DEF ChunkType
<1>2. ss \in Seq(Seq(Bytes)) /\ Len(ss) = Len(m.chunks)
      /\ \A n \in 1 .. Len(m.chunks) : ss[n] = m.chunks[n].data
  BY <1>1, MessageParts DEF DataSeq
<1>3. Content(m) = FlattenSeq(ss)
  BY DEF Content, DataSeq
<1>4. IsStarts(ss, Starts(ss)) /\ FlattenSeq(ss) \in Seq(Bytes)
  BY <1>2, StartsIs
<1>5. \A n \in 0 .. Len(m.chunks) - 1 : n + 1 \in 1 .. Len(m.chunks)
  BY MessageParts
<1>6. \A n : DataAt(m, n) = Starts(ss)[n]
  BY DEF DataAt
<1> HIDE DEF ss
<1> DEFINE at == Starts(ss)
<1>7. /\ at \in [0 .. Len(ss) -> Nat] /\ at[0] = 0
      /\ Len(FlattenSeq(ss)) = at[Len(ss)]
      /\ \A n \in 0 .. Len(ss) - 1 :
           at[n + 1] = at[n] + Len(ss[n + 1]) /\ Carries(FlattenSeq(ss), at[n], ss[n + 1])
  BY <1>4 DEF IsStarts
<1> HIDE DEF at
<1>8. \A n : DataAt(m, n) = at[n]
  BY <1>6 DEF at
<1>9. \A n \in 0 .. Len(m.chunks) : DataAt(m, n) \in Nat
  BY <1>2, <1>7, <1>8
<1>10. ASSUME NEW n \in 0 .. Len(m.chunks) - 1
       PROVE  /\ DataAt(m, n + 1) = DataAt(m, n) + Len(m.chunks[n + 1].data)
              /\ Carries(Content(m), DataAt(m, n), m.chunks[n + 1].data)
  <2>1. ss[n + 1] = m.chunks[n + 1].data
    BY <1>2, <1>5
  <2>2. at[n + 1] = at[n] + Len(ss[n + 1]) /\ Carries(FlattenSeq(ss), at[n], ss[n + 1])
    BY <1>2, <1>7
  <2> QED BY <1>3, <1>8, <2>1, <2>2
<1>11. Content(m) \in Seq(Bytes) /\ DataAt(m, 0) = 0 /\ Len(Content(m)) = DataAt(m, Len(m.chunks))
  BY <1>2, <1>3, <1>4, <1>7, <1>8
<1> QED BY <1>9, <1>10, <1>11

\* The first line, the headers and the empty line.
LEMMA HeadIs ==
  ASSUME NEW m \in Messages
  PROVE  LET h == HeadBytes(m)
             k == Len(m.headers)
         IN  /\ h \in Seq(Bytes) /\ Len(h) = HeaderAt(m, k) + 2
             /\ HeaderAt(m, 0) = Len(m.line) + 2
             /\ \A i \in 0 .. k : HeaderAt(m, i) \in Nat
             /\ \A i \in 0 .. k - 1 :
                  /\ HeaderAt(m, i + 1) = HeaderAt(m, i) + Len(HeaderBytes(m.headers[i + 1]))
                  /\ Carries(h, HeaderAt(m, i), HeaderBytes(m.headers[i + 1]))
             /\ Carries(h, 0, m.line) /\ Carries(h, Len(m.line), CrLf)
             /\ Carries(h, HeaderAt(m, k), CrLf)
<1> DEFINE ss == HeaderSeq(m)
           k == Len(m.headers)
           f == FlattenSeq(ss)
           at == Starts(ss)
           l == m.line
           a == l \o CrLf
           b == a \o f
           h == b \o CrLf
<1>1. \A i \in 1 .. k : HeaderBytes(m.headers[i]) \in Seq(Bytes) /\ k \in Nat
  BY MessageParts, HeaderBytesAre
<1>2. ss \in Seq(Seq(Bytes)) /\ Len(ss) = k
      /\ \A i \in 1 .. k : ss[i] = HeaderBytes(m.headers[i])
  BY <1>1, MessageParts DEF HeaderSeq
<1>3. HeadBytes(m) = h
  BY DEF HeadBytes, HeaderSeq
<1>4. IsStarts(ss, at) /\ f \in Seq(Bytes)
  BY <1>2, StartsIs
<1>5. \A i \in 0 .. k - 1 : i + 1 \in 1 .. k
  BY MessageParts
<1>6. \A i : HeaderAt(m, i) = Len(l) + 2 + at[i]
  BY DEF HeaderAt
<1>7. /\ at[0] = 0 /\ Len(f) = at[k] /\ k \in Nat
      /\ \A i \in 0 .. k : at[i] \in Nat
      /\ \A i \in 0 .. k - 1 : /\ at[i + 1] = at[i] + Len(HeaderBytes(m.headers[i + 1]))
                               /\ Carries(f, at[i], HeaderBytes(m.headers[i + 1]))
  BY <1>2, <1>4, <1>5, MessageParts DEF IsStarts
<1>8. l \in Seq(Bytes) /\ Len(l) \in Nat /\ CrLf \in Seq(Bytes) /\ Len(CrLf) = 2
  BY MessageParts, CrLfIs
<1>9. a = l \o CrLf /\ b = a \o f /\ h = b \o CrLf
  OBVIOUS
<1> HIDE DEF ss, k, f, at, l, a, b, h
<1>10. a \in Seq(Bytes) /\ Len(a) = Len(l) + 2 /\ Carries(a, 0, l) /\ Carries(a, Len(l), CrLf)
  <2>1. Len(a) = Len(l) + Len(CrLf)
    BY <1>8, <1>9, CarriesBoth
  <2> QED BY <1>8, <1>9, <2>1, CarriesBoth
<1>11. b \in Seq(Bytes) /\ Len(b) = Len(a) + Len(f) /\ Carries(b, 0, a) /\ Carries(b, Len(a), f)
  BY <1>4, <1>9, <1>10, CarriesBoth
<1>12. h \in Seq(Bytes) /\ Len(h) = Len(b) + 2 /\ Carries(h, 0, b) /\ Carries(h, Len(b), CrLf)
  <2>1. Len(h) = Len(b) + Len(CrLf)
    BY <1>8, <1>9, <1>11, CarriesBoth
  <2> QED BY <1>8, <1>9, <1>11, <2>1, CarriesBoth
<1>13. Carries(h, 0 + 0, a)
  BY <1>10, <1>11, <1>12, CarriesWithin
<1>14. Carries(h, 0 + 0 + 0, l) /\ Carries(h, 0 + 0 + Len(l), CrLf)
  BY <1>8, <1>10, <1>12, <1>13, CarriesWithin
<1>15. Carries(h, 0, l) /\ Carries(h, Len(l), CrLf)
  <2>1. 0 + 0 + 0 = 0 /\ 0 + 0 + Len(l) = Len(l)
    BY <1>8
  <2> QED BY <1>14, <2>1
<1>16. Carries(h, 0 + Len(a), f)
  BY <1>4, <1>11, <1>12, CarriesWithin
<1>17. ASSUME NEW i \in 0 .. k - 1
       PROVE  Carries(h, HeaderAt(m, i), HeaderBytes(m.headers[i + 1]))
  <2>1. HeaderBytes(m.headers[i + 1]) \in Seq(Bytes)
    BY <1>1, <1>5
  <2>2. Carries(h, 0 + Len(a) + at[i], HeaderBytes(m.headers[i + 1]))
    BY <1>4, <1>7, <1>12, <1>16, <2>1, CarriesWithin
  <2>3. i \in 0 .. k
    BY <1>7
  <2>4. 0 + Len(a) + at[i] = HeaderAt(m, i)
    BY <1>6, <1>7, <1>8, <1>10, <2>3
  <2> QED BY <2>2, <2>4
<1>18. k \in 0 .. k /\ 0 \in 0 .. k /\ Len(b) = HeaderAt(m, k)
  BY <1>6, <1>7, <1>8, <1>10, <1>11
<1>19. ASSUME NEW i \in 0 .. k - 1
       PROVE  HeaderAt(m, i + 1) = HeaderAt(m, i) + Len(HeaderBytes(m.headers[i + 1]))
  <2>1. i \in 0 .. k /\ i + 1 \in 0 .. k
    BY <1>7
  <2>2. at[i] \in Nat /\ at[i + 1] = at[i] + Len(HeaderBytes(m.headers[i + 1]))
    BY <1>7, <2>1
  <2>3. Len(HeaderBytes(m.headers[i + 1])) \in Nat
    BY <1>1, <1>5
  <2>4. HeaderAt(m, i) = Len(l) + 2 + at[i] /\ HeaderAt(m, i + 1) = Len(l) + 2 + at[i + 1]
    BY <1>6
  <2> QED BY <1>8, <2>2, <2>3, <2>4
<1>20. /\ HeaderAt(m, 0) = Len(l) + 2
       /\ \A i \in 0 .. k : HeaderAt(m, i) \in Nat
  <2>1. ASSUME NEW i \in 0 .. k PROVE HeaderAt(m, i) \in Nat
    <3>1. at[i] \in Nat /\ HeaderAt(m, i) = Len(l) + 2 + at[i]
      BY <1>6, <1>7
    <3> QED BY <1>8, <3>1
  <2>2. HeaderAt(m, 0) = Len(l) + 2 + at[0]
    BY <1>6
  <2> QED BY <1>7, <1>8, <2>1, <2>2
<1> QED BY <1>3, <1>12, <1>15, <1>17, <1>18, <1>19, <1>20 DEF k, l

\* All of it.
LEMMA WireIs ==
  ASSUME NEW m \in Messages
  PROVE  LET k == Len(m.chunks)
         IN  /\ Wire(m) \in Seq(Bytes) /\ Len(Wire(m)) \in Nat /\ Len(Wire(m)) =< MaxWire
             /\ Carries(Wire(m), 0, HeadBytes(m))
             /\ ChunkAt(m, 0) = Len(HeadBytes(m)) /\ Len(Wire(m)) = ChunkAt(m, k)
             /\ \A n \in 0 .. k : ChunkAt(m, n) \in Nat
             /\ \A n \in 0 .. k - 1 :
                  /\ ChunkAt(m, n + 1) = ChunkAt(m, n) + Len(Sent(m, n + 1))
                  /\ Carries(Wire(m), ChunkAt(m, n), Sent(m, n + 1))
<1> DEFINE ss == SentSeq(m)
           k == Len(m.chunks)
           f == FlattenSeq(ss)
           at == Starts(ss)
           a == HeadBytes(m)
           w == a \o f
<1>1. \A n \in 1 .. k : Sent(m, n) \in Seq(Bytes)
  BY SentIs
<1>2. ss \in Seq(Seq(Bytes)) /\ Len(ss) = k /\ \A n \in 1 .. k : ss[n] = Sent(m, n)
  BY <1>1, MessageParts DEF SentSeq
<1>3. Wire(m) = w
  BY DEF Wire, SentSeq
<1>4. IsStarts(ss, at) /\ f \in Seq(Bytes)
  BY <1>2, StartsIs
<1>5. \A n \in 0 .. k - 1 : n + 1 \in 1 .. k
  BY MessageParts
<1>6. \A n : ChunkAt(m, n) = Len(a) + at[n]
  BY DEF ChunkAt
<1>7. /\ at[0] = 0 /\ Len(f) = at[k] /\ k \in Nat
      /\ \A n \in 0 .. k : at[n] \in Nat
      /\ \A n \in 0 .. k - 1 : /\ at[n + 1] = at[n] + Len(Sent(m, n + 1))
                               /\ Carries(f, at[n], Sent(m, n + 1))
  BY <1>2, <1>4, <1>5, MessageParts DEF IsStarts
<1>8. a \in Seq(Bytes) /\ Len(a) \in Nat
  BY HeadIs
<1>9. w = a \o f
  OBVIOUS
<1> HIDE DEF ss, k, f, at, a, w
<1>10. w \in Seq(Bytes) /\ Len(w) = Len(a) + Len(f) /\ Carries(w, 0, a) /\ Carries(w, Len(a), f)
  BY <1>4, <1>8, <1>9, CarriesBoth
<1>11. ASSUME NEW n \in 0 .. k - 1
       PROVE  /\ ChunkAt(m, n + 1) = ChunkAt(m, n) + Len(Sent(m, n + 1))
              /\ Carries(w, ChunkAt(m, n), Sent(m, n + 1))
  <2>1. n \in 0 .. k /\ n + 1 \in 0 .. k /\ Sent(m, n + 1) \in Seq(Bytes)
    BY <1>1, <1>5, <1>7
  <2>2. Carries(w, Len(a) + at[n], Sent(m, n + 1))
    BY <1>4, <1>7, <1>10, <2>1, CarriesWithin
  <2>3. Len(Sent(m, n + 1)) \in Nat
    BY <2>1
  <2>4. ChunkAt(m, n) = Len(a) + at[n] /\ ChunkAt(m, n + 1) = Len(a) + at[n + 1]
    BY <1>6
  <2>5. at[n] \in Nat /\ at[n + 1] = at[n] + Len(Sent(m, n + 1))
    BY <1>7, <2>1
  <2> QED BY <1>8, <2>2, <2>3, <2>4, <2>5
<1>12. 0 \in 0 .. k /\ k \in 0 .. k
  BY <1>7
<1>13. /\ ChunkAt(m, 0) = Len(a) /\ Len(w) = ChunkAt(m, k) /\ Len(w) \in Nat
       /\ \A n \in 0 .. k : ChunkAt(m, n) \in Nat
  <2>1. ASSUME NEW n \in 0 .. k PROVE ChunkAt(m, n) \in Nat
    <3>1. at[n] \in Nat /\ ChunkAt(m, n) = Len(a) + at[n]
      BY <1>6, <1>7
    <3> QED BY <1>8, <3>1
  <2>2. ChunkAt(m, 0) = Len(a) + at[0] /\ ChunkAt(m, k) = Len(a) + at[k]
    BY <1>6
  <2> QED BY <1>7, <1>8, <1>10, <1>12, <2>1, <2>2
<1>14. Len(w) =< MaxWire
  BY <1>3, MessageParts DEF MessageOK
<1> QED BY <1>3, <1>10, <1>11, <1>13, <1>14 DEF k, a

\* Chunk n + 1 in all of it.
LEMMA ChunkIs ==
  ASSUME NEW m \in Messages, NEW n \in 0 .. Len(m.chunks) - 1
  PROVE  LET c  == m.chunks[n + 1]
             at == ChunkAt(m, n)
             e  == DataEnd(c)
             Comes(i, byte) ==
               Wire(m)[at + i] = IF m.damage = <<n + 1, i>> THEN "damaged" ELSE byte
         IN  /\ c.width \in Nat \ {0} /\ c.size \in Nat /\ c.data \in Seq(Bytes)
             /\ Len(c.data) \in Nat /\ e = c.width + 2 + Len(c.data) /\ at \in Nat
             /\ c.size < Power[c.width] /\ (c.size =< Limit => Len(c.data) = c.size)
             /\ c.size = 0 <=> n + 1 = Len(m.chunks)
             /\ at + e + 2 = ChunkAt(m, n + 1)
             /\ ChunkAt(m, n + 1) =< Len(Wire(m))
             /\ \A i \in 1 .. c.width : Comes(i, Numeral(c.size, c.width)[i])
             /\ Comes(c.width + 1, "cr") /\ Comes(c.width + 2, "lf")
             /\ \A j \in 1 .. Len(c.data) : Comes(c.width + 2 + j, c.data[j])
             /\ Comes(e + 1, "cr") /\ Comes(e + 2, "lf")
<1> DEFINE c == m.chunks[n + 1]
           at == ChunkAt(m, n)
           s == Sent(m, n + 1)
           w == c.width
           d == Len(c.data)
           b == ChunkBytes(c)
           e == DataEnd(c)
<1>1. n + 1 \in 1 .. Len(m.chunks) /\ n + 1 \in 0 .. Len(m.chunks) /\ n \in 0 .. Len(m.chunks)
  BY MessageParts
<1>2. c \in ChunkType /\ c.size < Power[c.width] /\ (c.size =< Limit => d = c.size)
      /\ (c.size = 0 <=> n + 1 = Len(m.chunks))
  BY <1>1, MessageParts DEF ChunkOK
<1>3. w \in Nat \ {0} /\ c.size \in Nat /\ c.data \in Seq(Bytes) /\ d \in Nat /\ e = w + 2 + d
  BY <1>2 DEF ChunkType, DataEnd
<1>4. /\ \A i \in 1 .. w : b[i] = Numeral(c.size, w)[i]
      /\ b[w + 1] = "cr" /\ b[w + 2] = "lf"
      /\ \A j \in 1 .. d : b[w + 2 + j] = c.data[j]
      /\ b[e + 1] = "cr" /\ b[e + 2] = "lf"
  <2> HIDE DEF c
  <2> QED BY <1>2, <1>3, ChunkBytesAre
<1>5. /\ Len(s) = e + 2 /\ Carries(Wire(m), at, s) /\ ChunkAt(m, n + 1) = at + Len(s)
      /\ at \in Nat /\ at + Len(s) =< Len(Wire(m))
      /\ \A i \in 1 .. e + 2 : s[i] = IF m.damage = <<n + 1, i>> THEN "damaged" ELSE b[i]
  <2>1. /\ Carries(Wire(m), at, s) /\ ChunkAt(m, n + 1) = at + Len(s) /\ at \in Nat
    BY <1>1, WireIs
  <2>2. at + Len(s) =< Len(Wire(m))
    BY <2>1 DEF Carries
  <2> QED BY <1>1, <2>1, <2>2, SentIs
<1> HIDE DEF c, at, s, w, d, b, e
<1>6. ASSUME NEW i \in 1 .. e + 2
      PROVE  Wire(m)[at + i] = IF m.damage = <<n + 1, i>> THEN "damaged" ELSE b[i]
  <2>1. Wire(m)[at + i] = s[i]
    BY <1>5 DEF Carries
  <2> QED BY <1>5, <2>1
<1>7. /\ \A i \in 1 .. w : i \in 1 .. e + 2
      /\ w + 1 \in 1 .. e + 2 /\ w + 2 \in 1 .. e + 2 /\ e + 1 \in 1 .. e + 2 /\ e + 2 \in 1 .. e + 2
      /\ \A j \in 1 .. d : w + 2 + j \in 1 .. e + 2
  BY <1>3
<1>8. at + e + 2 = ChunkAt(m, n + 1) /\ ChunkAt(m, n + 1) =< Len(Wire(m)) /\ at \in Nat
  BY <1>3, <1>5
<1>9. /\ Wire(m)[at + (w + 1)] = IF m.damage = <<n + 1, w + 1>> THEN "damaged" ELSE "cr"
      /\ Wire(m)[at + (w + 2)] = IF m.damage = <<n + 1, w + 2>> THEN "damaged" ELSE "lf"
      /\ Wire(m)[at + (e + 1)] = IF m.damage = <<n + 1, e + 1>> THEN "damaged" ELSE "cr"
      /\ Wire(m)[at + (e + 2)] = IF m.damage = <<n + 1, e + 2>> THEN "damaged" ELSE "lf"
  BY <1>4, <1>6, <1>7
<1>10. /\ \A i \in 1 .. w :
            Wire(m)[at + i] = IF m.damage = <<n + 1, i>> THEN "damaged" ELSE Numeral(c.size, w)[i]
       /\ \A j \in 1 .. d :
            Wire(m)[at + (w + 2 + j)]
              = IF m.damage = <<n + 1, w + 2 + j>> THEN "damaged" ELSE c.data[j]
  BY <1>4, <1>6, <1>7
<1> QED BY <1>2, <1>3, <1>8, <1>9, <1>10 DEF c, at, w, d, e

-----------------------------------------------------------------------------
(* The lines of the head.                                                  *)

LEMMA FindsFirst ==
  ASSUME NEW buf, NEW c, NEW from \in Nat, NEW q \in from .. Len(buf), buf[q] = c,
         \A i \in from .. q - 1 : buf[i] # c, Len(buf) \in Nat
  PROVE  Find(buf, c, from) = q
<1> DEFINE hits == {i \in from .. Len(buf) : buf[i] = c}
<1>1. q \in hits /\ \A j \in hits : q =< j /\ j \in Nat
  OBVIOUS
<1>2. \A i \in hits : (\A j \in hits : i =< j) => i = q
  BY <1>1
<1>3. First(hits) = q
  <2> HIDE DEF hits
  <2> QED BY <1>1, <1>2 DEF First
<1> QED BY <1>1, <1>3 DEF Find

LEMMA FindsNothing ==
  ASSUME NEW buf, NEW c, NEW from, \A i \in from .. Len(buf) : buf[i] # c
  PROVE  Find(buf, c, from) = 0
BY DEF Find

\* buf is what has arrived of line and the end of it.
Begins(buf, line) ==
  \A j \in 1 .. Len(buf) :
    /\ j =< Len(line) => buf[j] = line[j]
    /\ j = Len(line) + 1 => buf[j] = "cr"
    /\ j = Len(line) + 2 => buf[j] = "lf"

\* What a parser returns for a line of n bytes, of which `have' are there or
\* more, when "lf" follows in memory and when it does not.
Reads(lf, stale, n, have) ==
  \/ lf = Again /\ stale = Again
  \/ lf = n /\ stale = n /\ n =< have
  \/ lf = n /\ stale = Error /\ n = have + 1

LEMMA RequestLineRight ==
  ASSUME NEW line \in Seq(Bytes), RequestOK(line), NEW buf \in Seq(Bytes), Begins(buf, line)
  PROVE  Reads(RequestLine(buf), RequestLine(buf), Len(line) + 2, Len(buf))
<1> DEFINE n == Len(line)
           b == Len(buf)
           method == Find(buf, "sp", 1)
           url == Find(buf, "sp", method + 1)
<1>1. /\ n \in Nat /\ b \in Nat /\ n >= 4 /\ line[1] \in Methods /\ line[n] \in Versions
      /\ \A i \in 1 .. n - 1 : line[i] = "sp" <=> i \in {2, n - 1}
  BY DEF RequestOK
<1>2. \A j \in 1 .. b : /\ j =< n => buf[j] = line[j]
                        /\ j = n + 1 => buf[j] = "cr"
                        /\ j = n + 2 => buf[j] = "lf"
  BY DEF Begins
<1>3. RequestLine(buf) =
        IF method = 0 THEN Again
        ELSE IF SubSeq(buf, 1, method - 1) \notin {<<m>> : m \in Methods} THEN Error
        ELSE IF url = 0 \/ b < url + 3 THEN Again
        ELSE IF \/ buf[url + 1] \notin Versions
                \/ buf[url + 2] # "cr" \/ buf[url + 3] # "lf" THEN Error
        ELSE url + 3
  BY DEF RequestLine
<1>4. CASE b < 2
  <2>1. \A i \in 1 .. b : buf[i] # "sp"
    <3>1. \A i \in 1 .. b : i = 1 /\ i \in 1 .. n - 1 /\ i =< n
      BY <1>1, <1>4
    <3> QED BY <1>1, <1>2, <3>1
  <2>2. method = 0
    BY <2>1, FindsNothing
  <2> QED BY <1>3, <2>2 DEF Reads
<1>5. CASE b >= 2
  <2>1. method = 2
    <3>1. 2 \in 1 .. b /\ 2 \in 1 .. n - 1 /\ 2 =< n /\ \A i \in 1 .. 1 : i \in 1 .. b /\ i \in 1 .. n - 1 /\ i =< n /\ i # 2 /\ i # n - 1
      BY <1>1, <1>5
    <3>2. buf[2] = "sp" /\ \A i \in 1 .. 2 - 1 : buf[i] # "sp"
      BY <1>1, <1>2, <3>1
    <3> QED BY <1>1, <3>1, <3>2, FindsFirst
  <2>2. SubSeq(buf, 1, method - 1) \in {<<m>> : m \in Methods}
    <3>1. SubSeq(buf, 1, 1) = <<buf[1]>>
      <4>1. ASSUME NEW S, NEW t \in Seq(S), Len(t) = 1 PROVE t = <<t[1]>>
        BY <4>1
      <4>2. /\ SubSeq(buf, 1, 1) \in Seq(Bytes) /\ Len(SubSeq(buf, 1, 1)) = 1
            /\ SubSeq(buf, 1, 1)[1] = buf[1]
        BY <1>5
      <4> QED BY <4>1, <4>2
    <3>2. buf[1] = line[1]
      BY <1>1, <1>2, <1>5
    <3> QED BY <1>1, <2>1, <3>1, <3>2
  <2>3. CASE b < n - 1
    <3>1. ASSUME NEW i \in 3 .. b PROVE buf[i] # "sp"
      <4>1. i \in 1 .. b /\ i =< n /\ i \in 1 .. n - 1 /\ i # 2 /\ i # n - 1
        BY <1>1, <2>3
      <4> QED BY <1>1, <1>2, <4>1
    <3>2. url = 0
      <4> HIDE DEF method
      <4> QED BY <2>1, <3>1, FindsNothing
    <3> QED BY <1>3, <2>1, <2>2, <3>2 DEF Reads
  <2>4. CASE b >= n - 1
    <3>1. ASSUME NEW i \in 3 .. n - 1 - 1 PROVE buf[i] # "sp"
      <4>1. i \in 1 .. b /\ i =< n /\ i \in 1 .. n - 1 /\ i # 2 /\ i # n - 1
        BY <1>1, <2>4
      <4> QED BY <1>1, <1>2, <4>1
    <3>2. n - 1 \in 3 .. b /\ buf[n - 1] = "sp"
      <4>1. n - 1 \in 1 .. b /\ n - 1 =< n /\ n - 1 \in 1 .. n - 1 /\ n - 1 \in 3 .. b
        BY <1>1, <2>4
      <4> QED BY <1>1, <1>2, <4>1
    <3>3. Find(buf, "sp", 3) = n - 1
      <4> HIDE DEF n, b
      <4>1. 3 \in Nat
        OBVIOUS
      <4> QED BY <1>1, <3>1, <3>2, <4>1, FindsFirst DEF b
    <3>4. url = n - 1
      BY <2>1, <3>3
    <3> HIDE DEF method, url
    <3>5. CASE b < n + 2
      <4>1. b < url + 3 /\ method # 0
        BY <1>1, <2>1, <3>4, <3>5
      <4> QED BY <1>3, <2>2, <4>1 DEF Reads
    <3>6. CASE b >= n + 2
      <4>1. /\ url + 1 = n /\ url + 2 = n + 1 /\ url + 3 = n + 2 /\ ~(b < url + 3)
            /\ method # 0 /\ url # 0
        BY <1>1, <2>1, <3>4, <3>6
      <4>2. n \in 1 .. b /\ n + 1 \in 1 .. b /\ n + 2 \in 1 .. b /\ n =< n
        BY <1>1, <3>6
      <4>3. buf[n] = line[n] /\ buf[n + 1] = "cr" /\ buf[n + 2] = "lf"
        BY <1>2, <4>2
      <4>4. RequestLine(buf) = n + 2
        BY <1>1, <1>3, <2>2, <4>1, <4>3
      <4> QED BY <3>6, <1>1, <4>4 DEF Reads
    <3> QED BY <1>1, <3>5, <3>6
  <2> QED BY <1>1, <2>3, <2>4
<1> QED BY <1>1, <1>4, <1>5

LEMMA StatusLineRight ==
  ASSUME NEW line \in Seq(Bytes), ResponseOK(line), NEW buf \in Seq(Bytes), Begins(buf, line)
  PROVE  Reads(StatusLine(buf, "lf"), StatusLine(buf, "stale"), Len(line) + 2, Len(buf))
<1> DEFINE n == Len(line)
           b == Len(buf)
           end == Find(buf, "cr", 4)
<1>1. /\ n \in Nat /\ b \in Nat /\ n >= 3
      /\ line[1] \in Versions /\ line[2] = "sp" /\ line[3] \in StatusCodes
      /\ \A i \in 4 .. n : line[i] # "cr"
  BY DEF ResponseOK
<1>2. \A j \in 1 .. b : /\ j =< n => buf[j] = line[j]
                        /\ j = n + 1 => buf[j] = "cr"
                        /\ j = n + 2 => buf[j] = "lf"
  BY DEF Begins
<1>3. \A past : StatusLine(buf, past) =
        IF b < 5 THEN Again
        ELSE IF \/ buf[1] \notin Versions \/ buf[2] # "sp"
                \/ buf[3] \notin StatusCodes THEN Error
        ELSE IF end = 0 THEN Again
        ELSE IF Byte(buf, end + 1, past) # "lf" THEN Error
        ELSE end + 1
  BY DEF StatusLine
<1>4. CASE b < 5
  BY <1>3, <1>4 DEF Reads
<1>5. CASE b >= 5
  <2>1. buf[1] \in Versions /\ buf[2] = "sp" /\ buf[3] \in StatusCodes
    <3>1. 1 \in 1 .. b /\ 2 \in 1 .. b /\ 3 \in 1 .. b /\ 1 =< n /\ 2 =< n /\ 3 =< n
      BY <1>1, <1>5
    <3> QED BY <1>1, <1>2, <3>1
  <2>2. ASSUME NEW i \in 4 .. b, i =< n PROVE buf[i] # "cr"
    <3>1. i \in 1 .. b /\ i \in 4 .. n
      BY <1>1, <2>2
    <3> QED BY <1>1, <1>2, <2>2, <3>1
  <2>3. CASE b =< n
    <3>1. \A i \in 4 .. b : buf[i] # "cr"
      BY <1>1, <2>2, <2>3
    <3>2. end = 0
      BY <3>1, FindsNothing
    <3> QED BY <1>1, <1>3, <1>5, <2>1, <3>2 DEF Reads
  <2>4. CASE b > n
    <3>1. n + 1 \in 4 .. b /\ n + 1 \in 1 .. b
      BY <1>1, <2>4
    <3>2. \A i \in 4 .. n + 1 - 1 : buf[i] # "cr"
      BY <1>1, <2>2, <2>4
    <3>3. buf[n + 1] = "cr"
      BY <1>2, <3>1
    <3>4. end = n + 1
      <4> HIDE DEF n, b
      <4>1. 4 \in Nat
        OBVIOUS
      <4> QED BY <1>1, <3>1, <3>2, <3>3, <4>1, FindsFirst DEF b
    <3> HIDE DEF end
    <3>5. CASE b >= n + 2
      <4>1. n + 2 \in 1 .. b /\ end + 1 = n + 2 /\ end # 0 /\ n + 2 =< b /\ ~(b < 5)
        BY <1>1, <1>5, <3>4, <3>5
      <4>2. \A past : Byte(buf, end + 1, past) = "lf"
        BY <1>2, <4>1 DEF Byte
      <4> QED BY <1>3, <2>1, <4>1, <4>2 DEF Reads
    <3>6. CASE b = n + 1
      <4>1. end + 1 = n + 2 /\ end # 0 /\ ~(n + 2 =< b) /\ ~(b < 5) /\ n + 2 = b + 1
        BY <1>1, <1>5, <3>4, <3>6
      <4>2. \A past : Byte(buf, end + 1, past) = past
        BY <4>1 DEF Byte
      <4>3. StatusLine(buf, "lf") = n + 2
        BY <1>3, <2>1, <4>1, <4>2
      <4>4. StatusLine(buf, "stale") = Error
        BY <1>3, <2>1, <4>1, <4>2
      <4> QED BY <4>1, <4>3, <4>4 DEF Reads
    <3> QED BY <1>1, <2>4, <3>5, <3>6
  <2> QED BY <1>1, <2>3, <2>4
<1> QED BY <1>1, <1>4, <1>5

LEMMA PartIs ==
  ASSUME NEW S, NEW x \in Seq(S), NEW y \in Seq(S), NEW from \in Nat, from >= 1,
         NEW to, to = from - 1 + Len(y), to =< Len(x),
         \A j \in 1 .. Len(y) : x[from - 1 + j] = y[j]
  PROVE  SubSeq(x, from, to) = y
<1> DEFINE z == SubSeq(x, from, to)
<1>1. Len(y) \in Nat /\ Len(x) \in Nat
  OBVIOUS
<1>2. /\ z \in Seq(S) /\ Len(z) = Len(y)
      /\ \A j \in 1 .. Len(y) : z[j] = x[from + j - 1]
  BY <1>1
<1>3. \A j \in 1 .. Len(y) : from + j - 1 = from - 1 + j
  OBVIOUS
<1>4. \A j \in 1 .. Len(y) : z[j] = y[j]
  BY <1>2, <1>3
<1> HIDE DEF z
<1>5. z = y
  BY <1>2, <1>4
<1> QED BY <1>5 DEF z

LEMMA HeaderRight ==
  ASSUME NEW h \in HeaderType, HeaderOK(h), NEW buf \in Seq(Bytes),
         \A j \in 1 .. Len(buf) : j =< Len(HeaderBytes(h)) => buf[j] = HeaderBytes(h)[j]
  PROVE  /\ Reads(Header(buf, "lf"), Header(buf, "stale"), Len(HeaderBytes(h)), Len(buf))
         /\ Len(HeaderBytes(h)) > 2
         /\ Header(buf, "lf") # Again =>
              NameAndValue(buf) = [name |-> h.name, value |-> h.value]
<1> DEFINE a == Len(h.name)
           s == h.spaces
           v == Len(h.value)
           e == HeaderBytes(h)
           n == Len(e)
           b == Len(buf)
<1>1. /\ a \in Nat /\ s \in Nat /\ v \in Nat /\ n = a + 1 + s + v + 2 /\ b \in Nat
      /\ h.name \in Seq(Bytes) /\ h.value \in Seq(Bytes)
  BY HeaderBytesAre DEF HeaderType
<1>2. /\ \A i \in 1 .. a : e[i] = h.name[i]
      /\ e[a + 1] = ":"
      /\ \A j \in 1 .. s : e[a + 1 + j] = "sp"
      /\ \A j \in 1 .. v : e[a + 1 + s + j] = h.value[j]
      /\ e[a + 1 + s + v + 1] = "cr" /\ e[a + 1 + s + v + 2] = "lf"
  BY HeaderBytesAre
<1>3. /\ a # 0 => h.name[1] # "cr"
      /\ \A i \in 1 .. a : h.name[i] # ":"
      /\ v # 0 => h.value[1] # "sp"
      /\ \A i \in 1 .. v : h.value[i] # "cr"
  <2>1. (h.name = <<>> => a = 0) /\ (h.value = <<>> => v = 0)
    OBVIOUS
  <2> QED BY <2>1 DEF HeaderOK
<1>4. \A j \in 1 .. b : j =< n => buf[j] = e[j]
  OBVIOUS
<1> DEFINE N == h.name
           V == h.value
<1>0. N = h.name /\ V = h.value
  OBVIOUS
<1> HIDE DEF a, s, v, e, n, b, N, V
<1>5. ASSUME NEW j \in 1 .. b
      PROVE  /\ j =< a => buf[j] = N[j] /\ buf[j] # ":"
             /\ j = a + 1 => buf[j] = ":"
             /\ j > a + 1 /\ j =< a + 1 + s => buf[j] = "sp"
             /\ j = a + s + 2 => buf[j] # "sp"
             /\ j > a + 1 + s /\ j =< a + 1 + s + v =>
                  buf[j] = V[j - (a + 1 + s)] /\ buf[j] # "cr"
             /\ j = a + s + v + 2 => buf[j] = "cr"
             /\ j = a + s + v + 3 => buf[j] = "lf"
  <2>1. ASSUME j =< a PROVE buf[j] = N[j] /\ buf[j] # ":"
    <3>1. j =< n /\ j \in 1 .. a
      BY <1>1, <2>1
    <3> QED BY <1>0, <1>2, <1>3, <1>4, <3>1
  <2>2. ASSUME j = a + 1 PROVE buf[j] = ":"
    <3>1. j =< n
      BY <1>1, <2>2
    <3> QED BY <1>2, <1>4, <2>2, <3>1
  <2>3. ASSUME j > a + 1, j =< a + 1 + s PROVE buf[j] = "sp"
    <3>1. j =< n /\ j - (a + 1) \in 1 .. s /\ a + 1 + (j - (a + 1)) = j
      BY <1>1, <2>3
    <3> QED BY <1>2, <1>4, <3>1
  <2>4. ASSUME j > a + 1 + s, j =< a + 1 + s + v
        PROVE  buf[j] = V[j - (a + 1 + s)] /\ buf[j] # "cr"
    <3>1. /\ j =< n /\ j - (a + 1 + s) \in 1 .. v /\ a + 1 + s + (j - (a + 1 + s)) = j
      BY <1>1, <2>4
    <3>2. buf[j] = V[j - (a + 1 + s)]
      BY <1>0, <1>2, <1>4, <3>1
    <3> QED BY <1>0, <1>3, <3>1, <3>2
  <2>5. ASSUME j = a + s + v + 2 PROVE buf[j] = "cr"
    <3>1. j =< n /\ j = a + 1 + s + v + 1
      BY <1>1, <2>5
    <3> QED BY <1>2, <1>4, <3>1
  <2>6. ASSUME j = a + s + v + 3 PROVE buf[j] = "lf"
    <3>1. j =< n /\ j = a + 1 + s + v + 2
      BY <1>1, <2>6
    <3> QED BY <1>2, <1>4, <3>1
  <2>7. ASSUME j = a + s + 2 PROVE buf[j] # "sp"
    <3>1. CASE v = 0
      <4>1. j = a + s + v + 2
        BY <1>1, <2>7, <3>1
      <4> QED BY <2>5, <4>1
    <3>2. CASE v # 0
      <4>1. j > a + 1 + s /\ j =< a + 1 + s + v /\ j - (a + 1 + s) = 1
        BY <1>1, <2>7, <3>2
      <4> QED BY <1>0, <1>3, <2>4, <3>2, <4>1
    <3> QED BY <3>1, <3>2
  <2> QED BY <2>1, <2>2, <2>3, <2>4, <2>5, <2>6, <2>7
<1> DEFINE colon == Find(buf, ":", 1)
           start == ValueStart(buf)
           end == ValueEnd(buf)
<1>6. IF b < a + 1 THEN colon = 0 ELSE colon = a + 1
  <2>1. CASE b < a + 1
    <3>1. \A i \in 1 .. b : buf[i] # ":"
      BY <1>1, <1>5, <2>1
    <3>2. colon = 0
      BY <3>1, FindsNothing DEF b
    <3> QED BY <2>1, <3>2
  <2>2. CASE ~(b < a + 1)
    <3>1. a + 1 \in 1 .. b /\ \A i \in 1 .. a + 1 - 1 : i \in 1 .. b /\ i =< a
      BY <1>1, <2>2
    <3>2. buf[a + 1] = ":" /\ \A i \in 1 .. a + 1 - 1 : buf[i] # ":"
      BY <1>5, <3>1
    <3>3. 1 \in Nat
      OBVIOUS
    <3>4. colon = a + 1
      BY <1>1, <3>1, <3>2, <3>3, FindsFirst DEF b
    <3> QED BY <2>2, <3>4
  <2> QED BY <2>1, <2>2
<1>7. IF b < a + s + 2 THEN start = 0 ELSE start = a + s + 2
  <2> DEFINE rest == {i \in colon + 1 .. b : buf[i] # "sp"}
  <2>0. start = IF colon = 0 \/ rest = {} THEN 0 ELSE First(rest)
    BY DEF ValueStart, b
  <2> HIDE DEF start, colon
  <2>1. CASE b < a + 1
    BY <1>1, <1>6, <2>0, <2>1
  <2>2. CASE ~(b < a + 1) /\ b < a + s + 2
    <3>1. \A i \in a + 1 + 1 .. b : i \in 1 .. b /\ i > a + 1 /\ i =< a + 1 + s
      BY <1>1, <2>2
    <3>2. \A i \in a + 1 + 1 .. b : buf[i] = "sp"
      BY <1>5, <3>1
    <3>3. rest = {}
      BY <1>6, <2>2, <3>2
    <3> QED BY <2>0, <2>2, <3>3
  <2>3. CASE ~(b < a + s + 2)
    <3>1. /\ a + s + 2 \in 1 .. b /\ a + s + 2 \in a + 1 + 1 .. b /\ ~(b < a + 1) /\ a + 1 # 0
          /\ \A i \in a + 1 + 1 .. b : i < a + s + 2 => i \in 1 .. b /\ i > a + 1 /\ i =< a + 1 + s
      BY <1>1, <2>3
    <3>2. buf[a + s + 2] # "sp" /\ \A i \in a + 1 + 1 .. b : i < a + s + 2 => buf[i] = "sp"
      BY <1>5, <3>1
    <3>3. colon = a + 1
      BY <1>6, <3>1
    <3>4. a + s + 2 \in rest /\ \A j \in rest : a + s + 2 =< j /\ j \in Nat
      BY <1>1, <3>1, <3>2, <3>3
    <3>5. \A i \in rest : (\A j \in rest : i =< j) => i = a + s + 2
      BY <1>1, <3>4
    <3>6. First(rest) = a + s + 2
      <4> HIDE DEF rest
      <4> QED BY <3>4, <3>5 DEF First
    <3>7. start = a + s + 2
      BY <2>0, <3>1, <3>3, <3>4, <3>6
    <3> QED BY <2>3, <3>7
  <2> QED BY <1>1, <2>1, <2>2, <2>3
<1> HIDE DEF colon
<1>8. ~(b < a + s + 2) =>
        IF b < a + s + v + 2 THEN end = 0 ELSE end = a + s + v + 2
  <2> SUFFICES ASSUME ~(b < a + s + 2)
               PROVE  IF b < a + s + v + 2 THEN end = 0 ELSE end = a + s + v + 2
    OBVIOUS
  <2>0. end = Find(buf, "cr", a + s + 2) /\ a + s + 2 \in Nat
    BY <1>1, <1>7 DEF ValueEnd
  <2> HIDE DEF end, start
  <2>1. CASE b < a + s + v + 2
    <3>1. \A i \in a + s + 2 .. b : i \in 1 .. b /\ i > a + 1 + s /\ i =< a + 1 + s + v
      BY <1>1, <2>1
    <3>2. \A i \in a + s + 2 .. b : buf[i] # "cr"
      BY <1>5, <3>1
    <3>3. end = 0
      BY <2>0, <3>2, FindsNothing DEF b
    <3> QED BY <2>1, <3>3
  <2>2. CASE ~(b < a + s + v + 2)
    <3>1. /\ a + s + v + 2 \in 1 .. b /\ a + s + v + 2 \in a + s + 2 .. b
          /\ \A i \in a + s + 2 .. a + s + v + 2 - 1 :
               i \in 1 .. b /\ i > a + 1 + s /\ i =< a + 1 + s + v
      BY <1>1, <2>2
    <3>2. buf[a + s + v + 2] = "cr" /\ \A i \in a + s + 2 .. a + s + v + 2 - 1 : buf[i] # "cr"
      BY <1>5, <3>1
    <3>3. end = a + s + v + 2
      BY <1>1, <2>0, <3>1, <3>2, FindsFirst DEF b
    <3> QED BY <2>2, <3>3
  <2> QED BY <2>1, <2>2
<1>9. \A past : Header(buf, past) =
        IF b < 2 THEN Again
        ELSE IF buf[1] = "cr" THEN IF buf[2] = "lf" THEN 2 ELSE Error
        ELSE IF start = 0 \/ end = 0 THEN Again
        ELSE IF Byte(buf, end + 1, past) # "lf" THEN Error
        ELSE end + 1
  BY DEF Header, b
<1> HIDE DEF start, end
<1>10. b >= 2 => buf[1] # "cr"
  <2>1. b >= 2 => 1 \in 1 .. b
    BY <1>1
  <2>2. CASE a = 0
    BY <1>5, <2>1, <2>2
  <2>3. CASE a # 0
    BY <1>0, <1>1, <1>3, <1>5, <2>1, <2>3
  <2> QED BY <2>2, <2>3
<1> DEFINE Right == /\ Reads(Header(buf, "lf"), Header(buf, "stale"), n, b)
                    /\ n > 2
                    /\ Header(buf, "lf") # Again =>
                         NameAndValue(buf) = [name |-> h.name, value |-> h.value]
<1>11. ASSUME b < 2 \/ b < a + s + v + 2 PROVE Right
  <2>1. \A past : Header(buf, past) = Again
    BY <1>1, <1>7, <1>8, <1>9, <1>10, <1>11
  <2> QED BY <1>1, <2>1 DEF Reads
<1>12. ASSUME b >= 2 /\ b >= a + s + v + 2 PROVE Right
  <2>1. start = a + s + 2 /\ end = a + s + v + 2 /\ colon = a + 1 /\ start # 0 /\ end # 0
    BY <1>1, <1>6, <1>7, <1>8, <1>12
  <2>2. \A past : Header(buf, past) = IF Byte(buf, end + 1, past) # "lf" THEN Error ELSE n
    <3>1. end + 1 = n /\ ~(b < 2)
      BY <1>1, <1>12, <2>1
    <3> QED BY <1>9, <1>10, <1>12, <2>1, <3>1
  <2>3. NameAndValue(buf) = [name |-> h.name, value |-> h.value]
    <3>1. NameAndValue(buf) = [name  |-> SubSeq(buf, 1, a),
                               value |-> SubSeq(buf, a + s + 2, a + s + v + 1)]
      <4>1. \A x, y \in Nat : x = y + 1 => x - 1 = y
        OBVIOUS
      <4>2. a + s + v + 2 = a + s + v + 1 + 1 /\ a + s + v + 1 \in Nat /\ a + 1 \in Nat
            /\ a + s + v + 2 \in Nat
        BY <1>1
      <4>3. colon - 1 = a /\ end - 1 = a + s + v + 1
        BY <1>1, <2>1, <4>1, <4>2
      <4> QED BY <2>1, <4>3 DEF NameAndValue, colon, start, end
    <3>2. N \in Seq(Bytes) /\ V \in Seq(Bytes) /\ Len(N) = a /\ Len(V) = v /\ Len(buf) = b
      BY <1>0, <1>1 DEF a, v, b
    <3>3. SubSeq(buf, 1, a) = N
      <4>1. \A j \in 1 .. a : 1 - 1 + j = j /\ j \in 1 .. b /\ j =< a
        BY <1>1, <1>12
      <4>2. \A j \in 1 .. a : buf[1 - 1 + j] = N[j]
        BY <1>5, <4>1
      <4>3. a = 1 - 1 + a /\ 1 \in Nat /\ 1 >= 1 /\ a =< b
        BY <1>1, <1>12
      <4> QED BY <3>2, <4>2, <4>3, PartIs
    <3>4. SubSeq(buf, a + s + 2, a + s + v + 1) = V
      <4> DEFINE from == a + s + 2
                 to == a + s + v + 1
      <4>1. ASSUME NEW j \in 1 .. v PROVE buf[from - 1 + j] = V[j]
        <5> DEFINE i == from - 1 + j
        <5>1. i \in 1 .. b /\ i > a + 1 + s /\ i =< a + 1 + s + v /\ i - (a + 1 + s) = j
          BY <1>1, <1>12
        <5> HIDE DEF i
        <5>2. buf[i] = V[j]
          BY <1>5, <5>1
        <5> QED BY <5>2 DEF i
      <4>2. to = from - 1 + v /\ from \in Nat /\ from >= 1 /\ to =< b
        BY <1>1, <1>12
      <4> HIDE DEF from, to
      <4>3. SubSeq(buf, from, to) = V
        BY <3>2, <4>1, <4>2, PartIs
      <4> QED BY <4>3 DEF from, to
    <3> QED BY <1>0, <3>1, <3>3, <3>4
  <2>4. CASE b >= n
    <3>1. end + 1 \in 1 .. b /\ end + 1 =< b /\ end + 1 = a + s + v + 3 /\ n =< b
      BY <1>1, <2>1, <2>4
    <3>2. \A past : Byte(buf, end + 1, past) = "lf"
      BY <1>5, <3>1 DEF Byte, b
    <3>3. \A past : Header(buf, past) = n
      BY <2>2, <3>2
    <3> QED BY <1>1, <2>3, <3>1, <3>3 DEF Reads
  <2>5. CASE ~(b >= n)
    <3>1. ~(end + 1 =< b) /\ n = b + 1
      BY <1>1, <1>12, <2>1, <2>5
    <3>2. \A past : Byte(buf, end + 1, past) = past
      BY <3>1 DEF Byte, b
    <3>3. Header(buf, "lf") = n
      BY <2>2, <3>2
    <3>4. Header(buf, "stale") = Error
      BY <2>2, <3>2
    <3> QED BY <1>1, <2>3, <3>1, <3>3, <3>4 DEF Reads
  <2> QED BY <2>4, <2>5
<1>13. b < 2 \/ b < a + s + v + 2 \/ (b >= 2 /\ b >= a + s + v + 2)
  BY <1>1
<1> HIDE DEF Right
<1>14. Right
  BY <1>11, <1>12, <1>13
<1> QED BY <1>14 DEF Right, n, e, b

LEMMA EmptyLineRight ==
  ASSUME NEW buf \in Seq(Bytes),
         \A j \in 1 .. Len(buf) : (j = 1 => buf[j] = "cr") /\ (j = 2 => buf[j] = "lf")
  PROVE  Reads(Header(buf, "lf"), Header(buf, "stale"), 2, Len(buf))
<1>1. Len(buf) \in Nat
  OBVIOUS
<1>2. CASE Len(buf) < 2
  BY <1>2 DEF Header, Reads
<1>3. CASE ~(Len(buf) < 2)
  <2>1. 1 \in 1 .. Len(buf) /\ 2 \in 1 .. Len(buf) /\ 2 =< Len(buf)
    BY <1>1, <1>3
  <2>2. \A past : Header(buf, past) = 2
    BY <1>3, <2>1 DEF Header
  <2> QED BY <2>1, <2>2 DEF Reads
<1> QED BY <1>2, <1>3

-----------------------------------------------------------------------------
(* Reading the head.                                                       *)

FirstHeaders(m, n) ==
  [i \in 1 .. n |-> [name |-> m.headers[i].name, value |-> m.headers[i].value]]

\* The decoder has not been called.
NotYet == state = "DISABLE" /\ size = 0 /\ p = 0 /\ ~decoding /\ out = <<>>

\* Where the caller is in the head, and what holds of every state.  A line can
\* only be misread by a byte behind the buffer.
HeadInv ==
  /\ msg \in Messages /\ wire = Wire(msg)
  /\ arrived \in 0 .. Len(wire) /\ pos \in 0 .. Len(wire) /\ (beyond \/ pos =< arrived)
  /\ p \in 0 .. arrived
  /\ decoding \in BOOLEAN /\ failed \in BOOLEAN /\ beyond \in BOOLEAN
  /\ decoding => ~failed /\ pos =< p
  /\ failed => beyond \/ ~Intact(msg)
  /\ size \in 0 .. Power[SizeWidth] - 1
  /\ state \in {"BODY", "HEADER_TAIL_LF"} => size =< Limit
  /\ phase \in {"line", "headers", "body"}
  /\ phase = "line" => NotYet /\ pos = 0 /\ headers = <<>>
  /\ phase = "headers" =>
       /\ NotYet
       /\ \E n \in 0 .. Len(msg.headers) :
            pos = HeaderAt(msg, n) /\ headers = FirstHeaders(msg, n)
  /\ phase = "body" =>
       /\ headers = FirstHeaders(msg, Len(msg.headers))
       /\ pos >= Len(HeadBytes(msg))

LEMMA BufferIs ==
  ASSUME msg \in Messages, wire = Wire(msg), arrived \in 0 .. Len(wire), pos \in 0 .. Len(wire)
  PROVE  /\ Buffer \in Seq(Bytes) /\ Len(Buffer) \in Nat
         /\ \A j \in 1 .. Len(Buffer) : Buffer[j] = wire[pos + j]
         /\ pos + Len(Buffer) =< Len(wire)
         /\ Len(Buffer) > 0 => pos + Len(Buffer) = arrived
<1>1. wire \in Seq(Bytes) /\ Len(wire) \in Nat
  BY WireIs
<1>2. CASE pos =< arrived
  <2>1. Len(Buffer) = arrived - pos
    BY <1>1, <1>2 DEF Buffer
  <2>2. Buffer \in Seq(Bytes)
    BY <1>1, <1>2 DEF Buffer
  <2>3. ASSUME NEW j \in 1 .. arrived - pos PROVE Buffer[j] = wire[pos + j]
    <3>1. Buffer[j] = wire[pos + 1 + j - 1]
      BY <1>1, <1>2 DEF Buffer
    <3>2. pos + 1 + j - 1 = pos + j
      OBVIOUS
    <3> QED BY <3>1, <3>2
  <2> QED BY <1>1, <1>2, <2>1, <2>2, <2>3
<1>3. CASE ~(pos =< arrived)
  <2>1. Buffer = <<>>
    BY <1>1, <1>3 DEF Buffer
  <2> QED BY <1>1, <2>1
<1> QED BY <1>2, <1>3

LEMMA FirstLineRight ==
  ASSUME HeadInv, phase = "line"
  PROVE  /\ Reads(FirstLine("lf"), FirstLine("stale"), Len(msg.line) + 2, Len(Buffer))
         /\ Len(msg.line) \in Nat /\ HeaderAt(msg, 0) = Len(msg.line) + 2
         /\ HeaderAt(msg, 0) =< Len(wire)
<1> DEFINE l == msg.line
           h == HeadBytes(msg)
<1>1. /\ msg \in Messages /\ wire = Wire(msg) /\ pos = 0
      /\ arrived \in 0 .. Len(wire) /\ pos \in 0 .. Len(wire)
  BY DEF HeadInv
<1>2. /\ l \in Seq(Bytes) /\ Len(l) \in Nat /\ h \in Seq(Bytes) /\ wire \in Seq(Bytes)
      /\ Carries(wire, 0, h) /\ Carries(h, 0, l) /\ Carries(h, Len(l), CrLf)
      /\ HeaderAt(msg, 0) = Len(l) + 2
  BY <1>1, MessageParts, HeadIs, WireIs
<1>3. /\ Buffer \in Seq(Bytes) /\ \A j \in 1 .. Len(Buffer) : Buffer[j] = wire[pos + j]
      /\ Len(Buffer) \in Nat
  BY <1>1, BufferIs
<1> HIDE DEF l, h
<1>4. Carries(wire, 0 + 0, l) /\ Carries(wire, 0 + Len(l), CrLf)
  BY <1>2, CrLfIs, CarriesWithin
<1>5. /\ \A j \in 1 .. Len(l) : wire[0 + 0 + j] = l[j]
      /\ wire[0 + Len(l) + 1] = "cr" /\ wire[0 + Len(l) + 2] = "lf"
      /\ 0 + Len(l) + 2 =< Len(wire)
  <2>1. 1 \in 1 .. 2 /\ 2 \in 1 .. 2
    OBVIOUS
  <2> QED BY <1>4, <2>1, CrLfIs DEF Carries
<1>6. Begins(Buffer, l)
  <2> SUFFICES ASSUME NEW j \in 1 .. Len(Buffer)
               PROVE  /\ j =< Len(l) => Buffer[j] = l[j]
                      /\ j = Len(l) + 1 => Buffer[j] = "cr"
                      /\ j = Len(l) + 2 => Buffer[j] = "lf"
    BY DEF Begins
  <2>1. /\ pos + j = j /\ 0 + 0 + j = j /\ 0 + Len(l) + 1 = Len(l) + 1 /\ 0 + Len(l) + 2 = Len(l) + 2
        /\ j =< Len(l) => j \in 1 .. Len(l)
    BY <1>1, <1>2, <1>3
  <2>2. Buffer[j] = wire[j]
    BY <1>3, <2>1
  <2> QED BY <1>5, <2>1, <2>2
<1>7. IF msg.request THEN RequestOK(l) ELSE ResponseOK(l)
  BY <1>1, MessageParts DEF MessageOK, l
<1>8. Reads(FirstLine("lf"), FirstLine("stale"), Len(l) + 2, Len(Buffer))
  <2>1. CASE msg.request
    <3>1. \A past : FirstLine(past) = RequestLine(Buffer)
      BY <2>1 DEF FirstLine
    <3> QED BY <1>2, <1>3, <1>6, <1>7, <2>1, <3>1, RequestLineRight
  <2>2. CASE ~msg.request
    <3>1. \A past : FirstLine(past) = StatusLine(Buffer, past)
      BY <2>2 DEF FirstLine
    <3> QED BY <1>2, <1>3, <1>6, <1>7, <2>2, <3>1, StatusLineRight
  <2> QED BY <2>1, <2>2
<1>9. 0 + Len(l) + 2 = Len(l) + 2
  BY <1>2
<1> QED BY <1>2, <1>5, <1>8, <1>9 DEF l

LEMMA NextHeaderRight ==
  ASSUME HeadInv, NEW n \in 0 .. Len(msg.headers) - 1, pos = HeaderAt(msg, n)
  PROVE  LET h == msg.headers[n + 1]
             e == Len(HeaderBytes(h))
         IN  /\ Reads(Header(Buffer, "lf"), Header(Buffer, "stale"), e, Len(Buffer))
             /\ e \in Nat /\ e > 2 /\ HeaderAt(msg, n + 1) = pos + e /\ pos + e =< Len(wire)
             /\ Header(Buffer, "lf") # Again =>
                  NameAndValue(Buffer) = [name |-> h.name, value |-> h.value]
<1> DEFINE h == msg.headers[n + 1]
           s == HeaderBytes(h)
           head == HeadBytes(msg)
<1>1. /\ msg \in Messages /\ wire = Wire(msg)
      /\ arrived \in 0 .. Len(wire) /\ pos \in 0 .. Len(wire)
  BY DEF HeadInv
<1>2. n + 1 \in 1 .. Len(msg.headers) /\ h \in HeaderType /\ HeaderOK(h)
  BY <1>1, MessageParts
<1>3. /\ head \in Seq(Bytes) /\ wire \in Seq(Bytes) /\ Carries(wire, 0, head) /\ Carries(head, pos, s)
      /\ HeaderAt(msg, n + 1) = pos + Len(s)
  BY <1>1, HeadIs, WireIs
<1>4. /\ Buffer \in Seq(Bytes) /\ \A j \in 1 .. Len(Buffer) : Buffer[j] = wire[pos + j]
      /\ Len(Buffer) \in Nat
  BY <1>1, BufferIs
<1> HIDE DEF h, head
<1>5. s \in Seq(Bytes) /\ Len(s) \in Nat
  BY <1>2, HeaderBytesAre
<1> HIDE DEF s
<1>6. Carries(wire, 0 + pos, s)
  BY <1>3, <1>5, CarriesWithin
<1>7. /\ 0 + pos = pos /\ pos + Len(s) =< Len(wire)
      /\ \A j \in 1 .. Len(s) : wire[pos + j] = s[j]
  <2>1. 0 + pos = pos
    BY <1>1
  <2> QED BY <1>6, <2>1 DEF Carries
<1>8. \A j \in 1 .. Len(Buffer) : j =< Len(s) => Buffer[j] = s[j]
  BY <1>4, <1>5, <1>7
<1>9. /\ Reads(Header(Buffer, "lf"), Header(Buffer, "stale"), Len(s), Len(Buffer))
      /\ Len(s) > 2
      /\ Header(Buffer, "lf") # Again =>
           NameAndValue(Buffer) = [name |-> h.name, value |-> h.value]
  BY <1>2, <1>4, <1>8, HeaderRight DEF s
<1> QED BY <1>3, <1>5, <1>7, <1>9 DEF h, s

LEMMA HeadEndRight ==
  ASSUME HeadInv, pos = HeaderAt(msg, Len(msg.headers))
  PROVE  /\ Reads(Header(Buffer, "lf"), Header(Buffer, "stale"), 2, Len(Buffer))
         /\ Len(HeadBytes(msg)) = pos + 2 /\ pos + 2 =< Len(wire)
<1> DEFINE head == HeadBytes(msg)
<1>1. /\ msg \in Messages /\ wire = Wire(msg)
      /\ arrived \in 0 .. Len(wire) /\ pos \in 0 .. Len(wire)
  BY DEF HeadInv
<1>3. /\ head \in Seq(Bytes) /\ wire \in Seq(Bytes) /\ Carries(wire, 0, head) /\ Carries(head, pos, CrLf)
      /\ Len(head) = pos + 2
  BY <1>1, HeadIs, WireIs
<1>4. /\ Buffer \in Seq(Bytes) /\ \A j \in 1 .. Len(Buffer) : Buffer[j] = wire[pos + j]
      /\ Len(Buffer) \in Nat
  BY <1>1, BufferIs
<1> HIDE DEF head
<1>6. Carries(wire, 0 + pos, CrLf)
  BY <1>3, CrLfIs, CarriesWithin
<1>7. pos + 2 =< Len(wire) /\ wire[pos + 1] = "cr" /\ wire[pos + 2] = "lf"
  <2>1. 0 + pos = pos /\ 1 \in 1 .. 2 /\ 2 \in 1 .. 2
    BY <1>1
  <2> QED BY <1>6, <2>1, CrLfIs DEF Carries
<1>8. \A j \in 1 .. Len(Buffer) : (j = 1 => Buffer[j] = "cr") /\ (j = 2 => Buffer[j] = "lf")
  BY <1>4, <1>7
<1>9. Reads(Header(Buffer, "lf"), Header(Buffer, "stale"), 2, Len(Buffer))
  BY <1>4, <1>8, EmptyLineRight
<1> QED BY <1>3, <1>7, <1>9 DEF head

LEMMA HeadInitially == Init => HeadInv
<1> SUFFICES ASSUME Init PROVE HeadInv
  OBVIOUS
<1>1. msg \in Messages /\ wire = Wire(msg) /\ Len(wire) \in Nat
  BY WireIs DEF Init
<1>2. 0 \in 0 .. Power[SizeWidth] - 1 /\ 0 =< Limit
  <2>1. 0 \in Nat /\ 0 =< Limit
    BY LimitIs
  <2> QED BY <2>1, LimitIs
<1>3. /\ arrived = 0 /\ pos = 0 /\ p = 0 /\ decoding = FALSE /\ failed = FALSE /\ beyond = FALSE
      /\ size = 0 /\ state = "DISABLE" /\ phase = "line" /\ headers = <<>> /\ out = <<>>
  BY DEF Init, ChunkedInit
<1>4. NotYet
  BY <1>3 DEF NotYet
<1>5. /\ arrived \in 0 .. Len(wire) /\ pos \in 0 .. Len(wire) /\ pos =< arrived /\ p \in 0 .. arrived
      /\ size \in 0 .. Power[SizeWidth] - 1 /\ size =< Limit
  BY <1>1, <1>2, <1>3
<1> QED BY <1>1, <1>3, <1>4, <1>5 DEF HeadInv

LEMMA LineStep == HeadInv /\ ReadLine => HeadInv' /\ phase' # "body"
<1> SUFFICES ASSUME HeadInv, ReadLine PROVE HeadInv' /\ phase' # "body"
  OBVIOUS
<1>1. /\ msg \in Messages /\ wire = Wire(msg) /\ phase = "line" /\ ~failed
      /\ NotYet /\ pos = 0 /\ headers = <<>>
      /\ arrived \in 0 .. Len(wire) /\ pos \in 0 .. Len(wire)
  BY DEF HeadInv, ReadLine
<1> DEFINE n == Len(msg.line) + 2
<1>2. PICK past \in Past :
        LET r == FirstLine(past)
        IN  /\ r # Again
            /\ IF r = Error THEN failed' = TRUE /\ UNCHANGED <<pos, phase>>
                            ELSE pos' = pos + r /\ phase' = "headers" /\ UNCHANGED failed
  BY DEF ReadLine
<1> DEFINE r == FirstLine(past)
<1>3. /\ n \in Nat /\ n >= 2 /\ HeaderAt(msg, 0) = n /\ n =< Len(wire)
      /\ Reads(FirstLine("lf"), FirstLine("stale"), n, Len(Buffer))
  BY <1>1, FirstLineRight
<1>4. Len(Buffer) \in Nat /\ (Len(Buffer) > 0 => pos + Len(Buffer) = arrived)
  BY <1>1, BufferIs
<1>5. r # Again /\ (r = FirstLine("lf") \/ r = FirstLine("stale"))
  BY <1>2 DEF Past
<1> HIDE DEF n, r
<1>6. /\ r = n \/ (r = Error /\ FirstLine("lf") # FirstLine("stale"))
      /\ n =< Len(Buffer) \/ FirstLine("lf") # FirstLine("stale")
  BY <1>3, <1>4, <1>5 DEF Reads, Again, Error
<1>7. beyond' = TRUE \/ (n =< Len(Buffer) /\ beyond' = beyond)
  <2>1. beyond' = (beyond \/ \E a, b \in Past : FirstLine(a) # FirstLine(b))
    BY DEF ReadLine
  <2>2. beyond \in BOOLEAN
    BY DEF HeadInv
  <2>3. (\E a, b \in Past : FirstLine(a) # FirstLine(b)) => beyond' = TRUE
    BY <2>1
  <2>4. (~\E a, b \in Past : FirstLine(a) # FirstLine(b)) => beyond' = beyond
    BY <2>1, <2>2
  <2>5. FirstLine("lf") # FirstLine("stale") => \E a, b \in Past : FirstLine(a) # FirstLine(b)
    BY DEF Past
  <2> QED BY <1>6, <2>3, <2>4, <2>5
<1>8. UNCHANGED <<wire, arrived, state, size, p, decoding, out, msg, headers>>
  BY DEF ReadLine
<1>9. CASE r = Error
  <2>1. failed' = TRUE /\ pos' = pos /\ phase' = "line"
    BY <1>1, <1>2, <1>9 DEF r
  <2>2. beyond' = TRUE
    <3>1. n # Error
      BY <1>3 DEF Error
    <3>2. FirstLine("lf") # FirstLine("stale")
      BY <1>6, <1>9, <3>1
    <3> QED BY <3>2 DEF ReadLine, Past
  <2> QED BY <1>1, <1>8, <2>1, <2>2 DEF HeadInv, NotYet
<1>10. CASE r # Error
  <2>1. r = n /\ pos' = n /\ phase' = "headers" /\ failed' = failed
    BY <1>1, <1>2, <1>3, <1>6, <1>10 DEF r
  <2>2. beyond' = TRUE \/ (beyond' = beyond /\ pos' =< arrived)
    BY <1>1, <1>3, <1>4, <1>7, <2>1
  <2>3. 0 \in 0 .. Len(msg.headers) /\ headers' = FirstHeaders(msg, 0)
    <3>1. headers = FirstHeaders(msg, 0)
      BY <1>1 DEF FirstHeaders
    <3> QED BY <1>1, <1>8, <3>1, MessageParts
  <2>4. pos' \in 0 .. Len(wire)
    BY <1>1, <1>3, <2>1
  <2>5. HeaderAt(msg, 0) = pos'
    BY <1>3, <2>1
  <2> QED BY <1>1, <1>8, <2>1, <2>2, <2>3, <2>4, <2>5 DEF HeadInv, NotYet
<1> QED BY <1>9, <1>10

LEMMA HeaderStep == HeadInv /\ ReadHeader => HeadInv'
<1> SUFFICES ASSUME HeadInv, ReadHeader PROVE HeadInv'
  OBVIOUS
<1>1. /\ msg \in Messages /\ wire = Wire(msg) /\ phase = "headers" /\ ~failed /\ NotYet
      /\ arrived \in 0 .. Len(wire) /\ pos \in 0 .. Len(wire)
      /\ Len(msg.headers) \in Nat /\ Len(wire) \in Nat
  BY MessageParts, WireIs DEF HeadInv, ReadHeader
<1>2. PICK n \in 0 .. Len(msg.headers) :
        pos = HeaderAt(msg, n) /\ headers = FirstHeaders(msg, n)
  BY <1>1 DEF HeadInv
<1>3. PICK past \in Past :
        LET r == Header(Buffer, past)
        IN  \/ /\ r = Error
               /\ failed' = TRUE
               /\ UNCHANGED <<pos, phase, state, headers>>
            \/ /\ r = 2
               /\ pos' = pos + 2
               /\ phase' = "body"
               /\ Enable
               /\ UNCHANGED <<failed, headers>>
            \/ /\ r > 2
               /\ pos' = pos + r
               /\ headers' = Append(headers, NameAndValue(Buffer))
               /\ UNCHANGED <<failed, phase, state>>
  BY DEF ReadHeader
<1> DEFINE r == Header(Buffer, past)
           lf == Header(Buffer, "lf")
           stale == Header(Buffer, "stale")
<1>4. Len(Buffer) \in Nat /\ (Len(Buffer) > 0 => pos + Len(Buffer) = arrived)
  BY <1>1, BufferIs
<1>5. r # Again /\ (r = lf \/ r = stale)
  <2>1. ~(Again = Error) /\ ~(Again = 2) /\ ~(Again > 2)
    BY DEF Again, Error
  <2> QED BY <1>3, <2>1 DEF Past
<1>6. UNCHANGED <<wire, arrived, size, p, decoding, out, msg>>
  BY DEF ReadHeader
<1>7. beyond' \in BOOLEAN /\ (lf # stale => beyond' = TRUE) /\ (beyond' = TRUE \/ beyond' = beyond)
  <2>1. beyond' = (beyond \/ \E a, b \in Past : Header(Buffer, a) # Header(Buffer, b))
    BY DEF ReadHeader
  <2>2. beyond \in BOOLEAN
    BY DEF HeadInv
  <2>3. (\E a, b \in Past : Header(Buffer, a) # Header(Buffer, b)) => beyond' = TRUE
    BY <2>1
  <2>4. (~\E a, b \in Past : Header(Buffer, a) # Header(Buffer, b)) => beyond' = beyond
    BY <2>1, <2>2
  <2>5. lf # stale => \E a, b \in Past : Header(Buffer, a) # Header(Buffer, b)
    BY DEF Past
  <2> QED BY <2>2, <2>3, <2>4, <2>5
<1>8. Error # 2 /\ ~(Error > 2)
  BY DEF Error
<1>9. CASE r = Error
  <2>1. failed' = TRUE /\ UNCHANGED <<pos, phase, state, headers>>
    BY <1>3, <1>8, <1>9
  <2> DEFINE e == IF n = Len(msg.headers) THEN 2 ELSE Len(HeaderBytes(msg.headers[n + 1]))
  <2>2. e \in Nat /\ e >= 2 /\ Reads(lf, stale, e, Len(Buffer))
    <3>1. CASE n = Len(msg.headers)
      BY <1>2, <3>1, HeadEndRight
    <3>2. CASE n # Len(msg.headers)
      <4>1. n \in 0 .. Len(msg.headers) - 1
        BY <1>1, <3>2
      <4>2. Len(HeaderBytes(msg.headers[n + 1])) \in Nat /\ Len(HeaderBytes(msg.headers[n + 1])) > 2
            /\ Reads(lf, stale, Len(HeaderBytes(msg.headers[n + 1])), Len(Buffer))
        BY <1>2, <4>1, NextHeaderRight
      <4> QED BY <3>2, <4>2
    <3> QED BY <3>1, <3>2
  <2> HIDE DEF e, r, lf, stale
  <2>3. r = e \/ lf # stale
    BY <1>4, <1>5, <2>2 DEF Reads, Again, Error
  <2>4. beyond' = TRUE
    BY <1>7, <1>9, <2>2, <2>3 DEF Error
  <2> QED BY <1>1, <1>2, <1>6, <2>1, <2>4 DEF HeadInv, NotYet
<1>10. CASE r # Error /\ n = Len(msg.headers)
  <2>1. Reads(lf, stale, 2, Len(Buffer)) /\ Len(HeadBytes(msg)) = pos + 2 /\ pos + 2 =< Len(wire)
    BY <1>2, <1>10, HeadEndRight
  <2> HIDE DEF r, lf, stale
  <2>2. r = 2 /\ (2 =< Len(Buffer) \/ lf # stale)
    BY <1>4, <1>5, <1>10, <2>1 DEF Reads, Again, Error
  <2>3. pos' = pos + 2 /\ phase' = "body" /\ state' = "HEADER" /\ UNCHANGED <<failed, headers>>
    BY <1>3, <1>8, <2>2 DEF r, Enable
  <2>4. beyond' = TRUE \/ (beyond' = beyond /\ pos' =< arrived)
    BY <1>1, <1>4, <1>7, <2>2, <2>3
  <2>5. pos' \in 0 .. Len(wire)
    BY <1>1, <2>1, <2>3
  <2> QED BY <1>1, <1>2, <1>6, <1>7, <1>10, <2>1, <2>3, <2>4, <2>5 DEF HeadInv, NotYet
<1>11. CASE r # Error /\ n # Len(msg.headers)
  <2> DEFINE h == msg.headers[n + 1]
             e == Len(HeaderBytes(h))
  <2>1. n \in 0 .. Len(msg.headers) - 1 /\ n + 1 \in 0 .. Len(msg.headers)
    BY <1>1, <1>11
  <2>2. /\ Reads(lf, stale, e, Len(Buffer))
        /\ e \in Nat /\ e > 2 /\ HeaderAt(msg, n + 1) = pos + e /\ pos + e =< Len(wire)
        /\ lf # Again => NameAndValue(Buffer) = [name |-> h.name, value |-> h.value]
    BY <1>2, <2>1, NextHeaderRight
  <2> HIDE DEF r, lf, stale, e, h
  <2>3. r = e /\ (e =< Len(Buffer) \/ lf # stale) /\ lf # Again
    <3>1. r = e /\ (e =< Len(Buffer) \/ lf # stale)
      BY <1>4, <1>5, <1>11, <2>2 DEF Reads, Again, Error
    <3>2. lf # Again
      BY <1>5, <2>2 DEF Reads, Again, Error
    <3> QED BY <3>1, <3>2
  <2>4. /\ pos' = pos + e /\ UNCHANGED <<failed, phase, state>>
        /\ headers' = Append(headers, [name |-> h.name, value |-> h.value])
    <3>1. r # 2 /\ r # Error
      BY <1>11, <2>2, <2>3
    <3> QED BY <1>3, <2>2, <2>3, <3>1 DEF r
  <2>5. headers' = FirstHeaders(msg, n + 1)
    <3>1. ASSUME NEW k \in Nat, NEW f, NEW x, NEW g, g = [i \in 1 .. k |-> f[i]], f[k + 1] = x
          PROVE  Append(g, x) = [i \in 1 .. k + 1 |-> f[i]]
      <4>1. Append(g, x) = [i \in 1 .. k + 1 |-> IF i = k + 1 THEN x ELSE g[i]]
        BY <3>1
      <4>2. \A i \in 1 .. k + 1 : i = k + 1 \/ i \in 1 .. k
        OBVIOUS
      <4> QED BY <3>1, <4>1, <4>2
    <3> DEFINE f == [i \in 1 .. n + 1 |-> [name |-> msg.headers[i].name, value |-> msg.headers[i].value]]
    <3>2. f[n + 1] = [name |-> h.name, value |-> h.value]
      BY <2>1 DEF h
    <3>3. headers = [i \in 1 .. n |-> f[i]]
      BY <1>2, <2>1 DEF FirstHeaders
    <3>4. FirstHeaders(msg, n + 1) = [i \in 1 .. n + 1 |-> f[i]]
      BY <2>1 DEF FirstHeaders
    <3> HIDE DEF f
    <3>5. Append(headers, [name |-> h.name, value |-> h.value]) = [i \in 1 .. n + 1 |-> f[i]]
      BY <2>1, <3>1, <3>2, <3>3
    <3> QED BY <2>4, <3>4, <3>5
  <2>6. beyond' = TRUE \/ (beyond' = beyond /\ pos' =< arrived)
    BY <1>1, <1>4, <1>7, <2>2, <2>3, <2>4
  <2>7. pos' \in 0 .. Len(wire) /\ pos' = HeaderAt(msg, n + 1)
    BY <1>1, <2>2, <2>4
  <2> QED BY <1>1, <1>6, <1>7, <2>1, <2>4, <2>5, <2>6, <2>7 DEF HeadInv, NotYet
<1> QED BY <1>9, <1>10, <1>11

LEMMA ArriveStep == HeadInv /\ Arrive => HeadInv'
<1> SUFFICES ASSUME HeadInv, Arrive PROVE HeadInv'
  OBVIOUS
<1>1. Len(wire) \in Nat
  BY WireIs DEF HeadInv
<1>2. arrived' \in 0 .. Len(wire) /\ p \in 0 .. arrived' /\ arrived =< arrived'
  BY <1>1 DEF HeadInv, Arrive
<1>3. UNCHANGED <<wire, pos, state, size, p, decoding, failed, out, msg, phase, headers, beyond>>
  BY DEF Arrive
<1>4. beyond' \/ pos' =< arrived'
  BY <1>1, <1>2, <1>3 DEF HeadInv
<1> QED BY <1>2, <1>3, <1>4 DEF HeadInv, NotYet

-----------------------------------------------------------------------------
(* Reading the body.                                                       *)

LEMMA DigitsAre ==
  /\ ~IsDigit("cr") /\ ~IsDigit("damaged")
  /\ \A c : IsDigit(c) => Value(c) \in 0 .. Base - 1
<1>1. \A i \in 1 .. Base : Digits[i] # "cr" /\ Digits[i] # "damaged"
  BY ChunkedAssumption, MessageAssumption DEF Base
<1>2. ASSUME NEW c, IsDigit(c) PROVE Value(c) \in 0 .. Base - 1
  <2>1. \E i \in 1 .. Base : Digits[i] = c
    BY <1>2 DEF IsDigit
  <2>2. (CHOOSE i \in 1 .. Base : Digits[i] = c) \in 1 .. Base
    BY <2>1
  <2>3. \A b \in Nat : \A i \in 1 .. b : i - 1 \in 0 .. b - 1
    OBVIOUS
  <2> QED BY <2>2, <2>3, BaseIs DEF Value
<1> QED BY <1>1, <1>2 DEF IsDigit

\* No byte up to the k-th of the n-th chunk is damaged.
Unhurt(n, k) ==
  \/ msg.damage = NoDamage
  \/ msg.damage[1] > n
  \/ msg.damage[1] = n /\ msg.damage[2] > k

LEMMA DamageIs ==
  ASSUME msg \in Messages
  PROVE  /\ msg.damage \in Nat \X Nat /\ msg.damage = <<msg.damage[1], msg.damage[2]>>
         /\ msg.damage # NoDamage =>
              /\ msg.damage[1] \in 1 .. Len(msg.chunks) /\ msg.damage[2] \in Nat \ {0}
              /\ LET c == msg.chunks[msg.damage[1]]
                 IN  \/ msg.damage[2] =< c.width + 2
                     \/ /\ msg.damage[1] # Len(msg.chunks)
                        /\ msg.damage[2] \in DataEnd(c) + 1 .. DataEnd(c) + 2
<1>1. msg.damage \in Nat \X Nat /\ DamageOK(msg)
  BY MessageParts DEF MessageType, MessageOK
<1>2. msg.damage = <<msg.damage[1], msg.damage[2]>> /\ msg.damage[1] \in Nat /\ msg.damage[2] \in Nat
  BY <1>1
<1>3. ASSUME msg.damage # NoDamage
      PROVE  /\ msg.damage[1] \in 1 .. Len(msg.chunks) /\ msg.damage[2] \in Nat \ {0}
             /\ LET c == msg.chunks[msg.damage[1]]
                IN  \/ msg.damage[2] =< c.width + 2
                    \/ /\ msg.damage[1] # Len(msg.chunks)
                       /\ msg.damage[2] \in DataEnd(c) + 1 .. DataEnd(c) + 2
  <2> DEFINE c == msg.chunks[msg.damage[1]]
             x == msg.damage[2]
  <2>1. /\ msg.damage[1] \in 1 .. Len(msg.chunks)
        /\ \/ x \in 1 .. c.width + 2
           \/ msg.damage[1] # Len(msg.chunks) /\ x \in DataEnd(c) + 1 .. DataEnd(c) + 2
    BY <1>1, <1>3 DEF DamageOK, DataEnd
  <2>2. c \in ChunkType
    BY <2>1, MessageParts
  <2> HIDE DEF c, x
  <2>3. c.width \in Nat
    BY <2>2 DEF ChunkType
  <2>4. PICK w \in Nat : w = c.width
    BY <2>3
  <2>5. PICK d \in Nat : d = Len(c.data)
    BY <2>2 DEF ChunkType
  <2>6. DataEnd(c) = w + 2 + d
    BY <2>4, <2>5 DEF DataEnd
  <2>7. x \in Nat \ {0} /\ (x \in 1 .. c.width + 2 => x =< c.width + 2)
    BY <2>1, <2>4, <2>6
  <2> QED BY <2>1, <2>7 DEF c, x
<1> QED BY <1>1, <1>2, <1>3

LEMMA UnhurtFirst == ASSUME msg \in Messages PROVE Unhurt(1, 0)
<1>1. msg.damage[1] \in 1 .. Len(msg.chunks) => msg.damage[1] = 1 \/ msg.damage[1] > 1
  OBVIOUS
<1>2. msg.damage[2] \in Nat \ {0} => msg.damage[2] > 0
  OBVIOUS
<1> QED BY <1>1, <1>2, DamageIs DEF Unhurt

LEMMA UnhurtOn ==
  ASSUME msg \in Messages, NEW n \in Nat, NEW k \in Nat, Unhurt(n, k), msg.damage # <<n, k + 1>>
  PROVE  Unhurt(n, k + 1)
<1> DEFINE a == msg.damage[1]
           b == msg.damage[2]
<1>1. a \in Nat /\ b \in Nat /\ msg.damage = <<a, b>>
  BY DamageIs
<1> HIDE DEF a, b
<1>2. msg.damage = NoDamage \/ a > n \/ (a = n /\ b > k)
  BY DEF Unhurt, a, b
<1>3. a = n => b # k + 1
  BY <1>1
<1>4. msg.damage = NoDamage \/ a > n \/ (a = n /\ b > k + 1)
  BY <1>1, <1>2, <1>3
<1> QED BY <1>4 DEF Unhurt, a, b

\* In the data of a chunk nothing is damaged, nor behind those of the last.
LEMMA UnhurtBehind ==
  ASSUME msg \in Messages, NEW n \in 0 .. Len(msg.chunks) - 1
  PROVE  LET c == msg.chunks[n + 1]
             e == DataEnd(c)
         IN  /\ \A j \in 1 .. Len(c.data) : msg.damage # <<n + 1, c.width + 2 + j>>
             /\ Unhurt(n + 1, c.width + 2) => Unhurt(n + 1, e)
             /\ Unhurt(n + 1, e + 2) => Unhurt(n + 2, 0)
             /\ n + 1 = Len(msg.chunks) =>
                  /\ msg.damage # <<n + 1, e + 1>> /\ msg.damage # <<n + 1, e + 2>>
                  /\ Unhurt(n + 1, c.width + 2) => msg.damage = NoDamage
<1> DEFINE c == msg.chunks[n + 1]
           w == c.width
           d == Len(c.data)
           e == DataEnd(c)
           a == msg.damage[1]
           b == msg.damage[2]
           N == Len(msg.chunks)
<1>1. w \in Nat \ {0} /\ d \in Nat /\ e = w + 2 + d /\ N \in Nat \ {0}
  <2>1. w \in Nat \ {0} /\ d \in Nat /\ e = w + 2 + d
    BY ChunkIs, ZenonT(30)
  <2>2. N \in Nat \ {0}
    BY MessageParts, ZenonT(30)
  <2> QED BY <2>1, <2>2
<1>2. /\ a \in Nat /\ b \in Nat /\ msg.damage = <<a, b>>
      /\ msg.damage # NoDamage =>
           /\ a \in 1 .. N /\ b \in Nat \ {0}
           /\ a = n + 1 => b =< w + 2 \/ (n + 1 # N /\ b \in e + 1 .. e + 2)
  BY DamageIs
<1>3. \A x, y : Unhurt(x, y) <=> msg.damage = NoDamage \/ a > x \/ (a = x /\ b > y)
  BY DEF Unhurt
<1>4. \A x, y : msg.damage = <<x, y>> <=> a = x /\ b = y
  BY <1>2
<1>5. msg.damage = NoDamage <=> a = 0 /\ b = 0
  BY <1>4 DEF NoDamage
<1> HIDE DEF c, w, d, e, a, b, N
<1>6. n \in Nat /\ n + 1 =< N
  BY <1>1 DEF N
<1>7. ASSUME NEW j \in 1 .. d PROVE msg.damage # <<n + 1, w + 2 + j>>
  BY <1>1, <1>2, <1>4, <1>5, <1>6
<1>8. Unhurt(n + 1, w + 2) => Unhurt(n + 1, e)
  BY <1>1, <1>2, <1>3, <1>6
<1>9. Unhurt(n + 1, e + 2) => Unhurt(n + 2, 0)
  BY <1>1, <1>2, <1>3, <1>6
<1>10. n + 1 = N =>
         /\ msg.damage # <<n + 1, e + 1>> /\ msg.damage # <<n + 1, e + 2>>
         /\ Unhurt(n + 1, w + 2) => msg.damage = NoDamage
  BY <1>1, <1>2, <1>3, <1>4, <1>5, <1>6
<1> QED BY <1>7, <1>8, <1>9, <1>10 DEF c, w, d, e, N

\* The reading position of the decoder; a call that fails stops at p.
Cur == IF decoding \/ failed THEN p ELSE pos

\* What the caller got so far.
Handed(k) == k \in 0 .. Len(Content(msg)) /\ out = SubSeq(Content(msg), 1, k)

SizesUpTo(n) == \A j \in 1 .. n : msg.chunks[j].size =< Limit

AtSize(n) ==
  LET c == msg.chunks[n + 1]
  IN  /\ state = "HEADER"
      /\ SizesUpTo(n) /\ Handed(DataAt(msg, n))
      /\ \E k \in 0 .. c.width :
           /\ Cur = ChunkAt(msg, n) + k
           /\ size = c.size \div Power[c.width - k]
           /\ Unhurt(n + 1, k)

AtSizeEnd(n) ==
  LET c == msg.chunks[n + 1]
  IN  /\ state = "HEADER_TAIL_LF"
      /\ SizesUpTo(n + 1) /\ Handed(DataAt(msg, n))
      /\ Cur = ChunkAt(msg, n) + c.width + 1
      /\ size = c.size
      /\ Unhurt(n + 1, c.width + 1)

AtData(n) ==
  LET c == msg.chunks[n + 1]
  IN  /\ state = "BODY"
      /\ SizesUpTo(n + 1)
      /\ \E k \in 0 .. c.size - 1 :
           /\ Handed(DataAt(msg, n) + k)
           /\ Cur = ChunkAt(msg, n) + c.width + 2 + k
           /\ size = c.size - k
      /\ Unhurt(n + 1, c.width + 2)

AtDataEnd(n) ==
  LET c == msg.chunks[n + 1]
  IN  /\ SizesUpTo(n + 1) /\ Handed(DataAt(msg, n + 1))
      /\ size = 0 /\ c.size # 0
      /\ \/ /\ state = "BODY_TAIL_CR"
            /\ Cur = ChunkAt(msg, n) + DataEnd(c)
            /\ Unhurt(n + 1, DataEnd(c))
         \/ /\ state = "BODY_TAIL_LF"
            /\ Cur = ChunkAt(msg, n) + DataEnd(c) + 1
            /\ Unhurt(n + 1, DataEnd(c) + 1)

\* Only an undamaged body gets here.
AtEnd(n) ==
  LET c == msg.chunks[n + 1]
  IN  /\ state = "FINISH"
      /\ n + 1 = Len(msg.chunks) /\ Intact(msg) /\ Handed(Len(Content(msg)))
      /\ size = 0
      /\ Cur \in ChunkAt(msg, n) + c.width + 2 .. Len(wire)

InChunk(n) == AtSize(n) \/ AtSizeEnd(n) \/ AtData(n) \/ AtDataEnd(n) \/ AtEnd(n)

BodyInv == phase = "body" => \E n \in 0 .. Len(msg.chunks) - 1 : InChunk(n)

\* What a step is to a reader of Delivery.
Delivers == D!HandOut \/ D!End \/ UNCHANGED D!deliveryVars

Reading == phase = "body" /\ HeadInv /\ BodyInv
Read == HeadInv' /\ BodyInv' /\ Delivers

LEMMA NothingHanded ==
  ASSUME UNCHANGED <<msg, out>>, (state = "FINISH") = (state' = "FINISH")
  PROVE  UNCHANGED D!deliveryVars
BY DEF D!deliveryVars

LEMMA SameChunk ==
  ASSUME UNCHANGED <<msg, wire, state, size, out>>, Cur' = Cur, NEW n, InChunk(n)
  PROVE  InChunk(n)'
<1>1. \A k : Handed(k)' <=> Handed(k)
  BY DEF Handed
<1>2. \A k : SizesUpTo(k)' <=> SizesUpTo(k)
  BY DEF SizesUpTo
<1>3. \A i, k : Unhurt(i, k)' <=> Unhurt(i, k)
  BY DEF Unhurt
<1>4. AtSize(n) => AtSize(n)'
  BY <1>1, <1>2, <1>3 DEF AtSize
<1>5. AtSizeEnd(n) => AtSizeEnd(n)'
  BY <1>1, <1>2, <1>3 DEF AtSizeEnd
<1>6. AtData(n) => AtData(n)'
  BY <1>1, <1>2, <1>3 DEF AtData
<1>7. AtDataEnd(n) => AtDataEnd(n)'
  BY <1>1, <1>2, <1>3 DEF AtDataEnd
<1>8. AtEnd(n) => AtEnd(n)'
  BY <1>1, <1>2, <1>3 DEF AtEnd
<1> QED BY <1>4, <1>5, <1>6, <1>7, <1>8 DEF InChunk

\* A call that fails changes nothing else; it may on a body that is not intact.
LEMMA FailDoes ==
  ASSUME Reading, ReadBody, Fail, ~Intact(msg), decoding
  PROVE  Read
<1>1. UNCHANGED <<wire, arrived, pos, state, size, p, out, msg, phase, headers, beyond>>
      /\ decoding' = FALSE /\ failed' = TRUE
  BY DEF Fail, ReadBody
<1>2. Cur' = Cur
  BY <1>1 DEF Cur
<1>3. ASSUME NEW n \in 0 .. Len(msg.chunks) - 1, InChunk(n) PROVE InChunk(n)'
  BY <1>1, <1>2, <1>3, SameChunk
<1>4. BodyInv'
  BY <1>1, <1>3 DEF BodyInv, Reading
<1>5. HeadInv'
  BY <1>1 DEF HeadInv, Reading
<1> QED BY <1>1, <1>4, <1>5, NothingHanded DEF Read, Delivers

LEMMA CallDoes ==
  ASSUME Reading, ReadBody, Call \/ ReturnNothing
  PROVE  Read
<1>1. UNCHANGED <<wire, arrived, state, size, failed, out, msg, phase, headers, beyond>>
  BY DEF Call, ReturnNothing, ReadBody
<1> DEFINE Right == /\ Cur' = Cur /\ p' \in 0 .. arrived /\ pos' \in 0 .. Len(wire)
                    /\ beyond \/ pos' =< arrived
                    /\ decoding' => ~failed /\ pos' =< p'
                    /\ decoding' \in BOOLEAN
                    /\ pos' >= Len(HeadBytes(msg))
<1>2. Right
  <2>0. Len(wire) \in Nat /\ Len(HeadBytes(msg)) \in Nat
    BY WireIs, HeadIs DEF HeadInv, Reading
  <2>1. CASE Call
    BY <1>1, <2>0, <2>1 DEF Call, Cur, HeadInv, Reading
  <2>2. CASE ReturnNothing
    <3>1. decoding /\ decoding' = FALSE /\ p = arrived /\ pos' = p /\ p' = p /\ failed' = failed
      BY <2>2 DEF ReturnNothing
    <3>2. ~failed /\ pos =< p /\ pos \in 0 .. Len(wire) /\ p \in 0 .. arrived /\ arrived \in 0 .. Len(wire)
          /\ pos >= Len(HeadBytes(msg))
      BY <3>1 DEF HeadInv, Reading
    <3>3. ~failed'
      BY <3>1, <3>2
    <3>4. Cur = p /\ Cur' = p
      BY <3>1, <3>3 DEF Cur
    <3>5. pos' \in 0 .. Len(wire) /\ pos' =< arrived /\ pos' >= Len(HeadBytes(msg)) /\ p' \in 0 .. arrived
      BY <2>0, <3>1, <3>2
    <3> QED BY <3>1, <3>4, <3>5
  <2> HIDE DEF Right
  <2> QED BY <2>1, <2>2
<1>3. ASSUME NEW n \in 0 .. Len(msg.chunks) - 1, InChunk(n) PROVE InChunk(n)'
  BY <1>1, <1>2, <1>3, SameChunk
<1>4. BodyInv'
  BY <1>1, <1>3 DEF BodyInv, Reading
<1>5. HeadInv'
  BY <1>1, <1>2 DEF HeadInv, Reading
<1> QED BY <1>1, <1>4, <1>5, NothingHanded DEF Read, Delivers

\* The byte a step looks at is the one sent, or damaged.
LEMMA Looks ==
  ASSUME Reading, More, NEW n \in 0 .. Len(msg.chunks) - 1, NEW i \in Nat, NEW byte,
         Cur = ChunkAt(msg, n) + i,
         Wire(msg)[ChunkAt(msg, n) + (i + 1)]
           = IF msg.damage = <<n + 1, i + 1>> THEN "damaged" ELSE byte
  PROVE  \/ At = byte /\ msg.damage # <<n + 1, i + 1>>
         \/ At = "damaged" /\ ~Intact(msg)
<1>1. decoding /\ wire = Wire(msg) /\ msg \in Messages
  BY DEF More, Reading, HeadInv
<1>2. p = ChunkAt(msg, n) + i /\ ChunkAt(msg, n) \in Nat
  BY <1>1, ChunkIs DEF Cur
<1>3. At = Wire(msg)[ChunkAt(msg, n) + (i + 1)]
  <2>1. p + 1 = ChunkAt(msg, n) + (i + 1)
    BY <1>2
  <2> QED BY <1>1, <2>1 DEF At
<1>4. <<n + 1, i + 1>> # NoDamage
  <2>1. n + 1 # 0
    OBVIOUS
  <2> QED BY <2>1 DEF NoDamage
<1>5. CASE msg.damage = <<n + 1, i + 1>>
  BY <1>3, <1>4, <1>5 DEF Intact
<1>6. CASE msg.damage # <<n + 1, i + 1>>
  BY <1>3, <1>6
<1> QED BY <1>5, <1>6

\* A step over one byte.
LEMMA StepDoes ==
  ASSUME Reading, ReadBody, More, NEW next, Step(next), size' \in 0 .. Power[SizeWidth] - 1,
         next \in {"BODY", "HEADER_TAIL_LF"} => size' =< Limit
  PROVE  HeadInv' /\ Cur' = Cur + 1 /\ state' = next /\ UNCHANGED <<msg, wire, arrived, out, phase>>
         /\ p = Cur /\ p + 1 =< Len(wire) /\ p \in Nat
<1>1. UNCHANGED <<wire, arrived, pos, decoding, failed, out, msg, phase, headers, beyond>>
      /\ p' = p + 1 /\ state' = next
  BY DEF Step, ReadBody
<1>2. decoding /\ p < arrived
  BY DEF More
<1>3. ~failed /\ pos =< p /\ p \in 0 .. arrived /\ arrived \in 0 .. Len(wire) /\ pos \in 0 .. Len(wire)
  BY <1>2 DEF Reading, HeadInv
<1>4. Len(wire) \in Nat
  BY WireIs DEF Reading, HeadInv
<1>5. p' \in 0 .. arrived /\ pos =< p' /\ p + 1 =< Len(wire) /\ p \in Nat
  BY <1>1, <1>2, <1>3, <1>4
<1>6. Cur = p /\ Cur' = p + 1
  BY <1>1, <1>2 DEF Cur
<1>7. HeadInv'
  BY <1>1, <1>5 DEF Reading, HeadInv
<1> QED BY <1>1, <1>5, <1>6, <1>7

LEMMA StepRead ==
  ASSUME Reading, ReadBody, More, NEW next, Step(next), HeadInv',
         NEW n \in 0 .. Len(msg.chunks) - 1, InChunk(n)',
         (state = "FINISH") = (next = "FINISH")
  PROVE  Read
<1>1. BodyInv' /\ UNCHANGED <<msg, out>> /\ state' = next
  BY DEF Step, ReadBody, BodyInv
<1> QED BY <1>1, NothingHanded DEF Read, Delivers

\* In which chunk the decoder is.
LEMMA WhichChunk ==
  ASSUME Reading
  PROVE  /\ msg \in Messages /\ wire = Wire(msg) /\ Len(msg.chunks) \in Nat \ {0}
         /\ size \in 0 .. Power[SizeWidth] - 1
         /\ \E n \in 0 .. Len(msg.chunks) - 1 :
              /\ InChunk(n)
              /\ state = "HEADER" => AtSize(n)
              /\ state = "HEADER_TAIL_LF" => AtSizeEnd(n)
              /\ state = "BODY" => AtData(n)
              /\ state \in {"BODY_TAIL_CR", "BODY_TAIL_LF"} => AtDataEnd(n)
              /\ state = "FINISH" => AtEnd(n)
<1>1. msg \in Messages /\ wire = Wire(msg) /\ size \in 0 .. Power[SizeWidth] - 1
  BY DEF Reading, HeadInv
<1>2. PICK n \in 0 .. Len(msg.chunks) - 1 : InChunk(n)
  BY DEF Reading, BodyInv
<1>3. /\ state = "HEADER" => AtSize(n)
      /\ state = "HEADER_TAIL_LF" => AtSizeEnd(n)
      /\ state = "BODY" => AtData(n)
      /\ state \in {"BODY_TAIL_CR", "BODY_TAIL_LF"} => AtDataEnd(n)
      /\ state = "FINISH" => AtEnd(n)
  BY <1>2 DEF InChunk, AtSize, AtSizeEnd, AtData, AtDataEnd, AtEnd
<1> QED BY <1>1, <1>2, <1>3, MessageParts

LEMMA SizeDoes ==
  ASSUME Reading, ReadBody, SizeDigit \/ SizeEnd \/ SizeWrong
  PROVE  Read
<1>1. state = "HEADER" /\ More
  BY DEF SizeDigit, SizeEnd, SizeWrong
<1>2. /\ msg \in Messages /\ wire = Wire(msg) /\ Len(msg.chunks) \in Nat \ {0}
      /\ size \in 0 .. Power[SizeWidth] - 1
  BY WhichChunk
<1>3. PICK n \in 0 .. Len(msg.chunks) - 1 : AtSize(n)
  BY <1>1, WhichChunk
<1> DEFINE c == msg.chunks[n + 1]
           w == c.width
           N == Numeral(c.size, w)
           at == ChunkAt(msg, n)
<1>4. PICK k \in 0 .. w : /\ Cur = at + k
                          /\ size = c.size \div Power[w - k]
                          /\ Unhurt(n + 1, k)
  BY <1>3 DEF AtSize
<1>5. SizesUpTo(n) /\ Handed(DataAt(msg, n))
  BY <1>3 DEF AtSize
<1>6. /\ w \in Nat \ {0} /\ c.size \in Nat /\ c.size < Power[w] /\ at \in Nat
      /\ \A i \in 1 .. w :
           Wire(msg)[at + i] = IF msg.damage = <<n + 1, i>> THEN "damaged" ELSE N[i]
      /\ Wire(msg)[at + (w + 1)] = IF msg.damage = <<n + 1, w + 1>> THEN "damaged" ELSE "cr"
  BY <1>2, ChunkIs
<1>7. /\ c.size \div Power[0] = c.size
      /\ \A i \in 0 .. w : c.size \div Power[w - i] \in Nat
      /\ \A i \in 0 .. w - 1 :
              /\ IsDigit(N[i + 1])
              /\ c.size \div Power[w - (i + 1)] = (c.size \div Power[w - i]) * Base + Value(N[i + 1])
  BY <1>6, NumeralIs
<1> HIDE DEF c, w, N, at
<1>8. n + 1 \in Nat /\ k \in Nat /\ size \in Nat
  <2>1. n + 1 \in Nat
    OBVIOUS
  <2>2. k \in Nat
    BY <1>4, <1>6
  <2>3. size \in Nat
    BY <1>4, <1>7
  <2> QED BY <2>1, <2>2, <2>3
<1>9. k < w \/ k = w
  BY <1>4, <1>6
<1>10. k < w => \/ At = N[k + 1] /\ msg.damage # <<n + 1, k + 1>>
                \/ At = "damaged" /\ ~Intact(msg)
  <2> SUFFICES ASSUME k < w PROVE \/ At = N[k + 1] /\ msg.damage # <<n + 1, k + 1>>
                                  \/ At = "damaged" /\ ~Intact(msg)
    OBVIOUS
  <2>1. k + 1 \in 1 .. w
    BY <1>6, <1>8
  <2>2. Wire(msg)[at + (k + 1)] = IF msg.damage = <<n + 1, k + 1>> THEN "damaged" ELSE N[k + 1]
    BY <1>6, <2>1
  <2> QED BY <1>1, <1>4, <1>8, <2>2, Looks DEF at
<1>11. k = w => \/ At = "cr" /\ msg.damage # <<n + 1, k + 1>>
                \/ At = "damaged" /\ ~Intact(msg)
  <2> SUFFICES ASSUME k = w PROVE \/ At = "cr" /\ msg.damage # <<n + 1, k + 1>>
                                  \/ At = "damaged" /\ ~Intact(msg)
    OBVIOUS
  <2>1. Wire(msg)[at + (k + 1)] = IF msg.damage = <<n + 1, k + 1>> THEN "damaged" ELSE "cr"
    BY <1>6
  <2> QED BY <1>1, <1>4, <1>8, <2>1, Looks DEF at
<1>12. CASE SizeDigit
  <2>1. size =< Limit /\ IsDigit(At) /\ size' = size * Base + Value(At) /\ Step("HEADER")
    BY <1>12 DEF SizeDigit
  <2>2. size' \in 0 .. Power[SizeWidth] - 1
    BY <1>8, <2>1, LimitIs, DigitsAre
  <2>3. HeadInv' /\ Cur' = Cur + 1 /\ state' = "HEADER" /\ UNCHANGED <<msg, wire, out>>
    BY <1>1, <2>1, <2>2, StepDoes
  <2>4. k < w /\ At = N[k + 1] /\ msg.damage # <<n + 1, k + 1>>
    BY <1>9, <1>10, <1>11, <2>1, DigitsAre
  <2>5. k \in 0 .. w - 1 /\ k + 1 \in 0 .. w
    BY <1>6, <1>8, <2>4
  <2>6. size' = c.size \div Power[w - (k + 1)]
    BY <1>4, <1>7, <2>1, <2>4, <2>5
  <2>7. Unhurt(n + 1, k + 1)
    BY <1>2, <1>4, <1>8, <2>4, UnhurtOn
  <2>8. Cur' = at + (k + 1)
    BY <1>4, <1>6, <1>8, <2>3
  <2>9. AtSize(n)'
    <3>1. Handed(DataAt(msg, n))' /\ SizesUpTo(n)' /\ Unhurt(n + 1, k + 1)'
      BY <1>5, <2>3, <2>7 DEF Handed, SizesUpTo, Unhurt
    <3> QED BY <2>3, <2>5, <2>6, <2>8, <3>1 DEF AtSize, c, w, at
  <2> QED BY <1>1, <2>1, <2>3, <2>9, StepRead DEF InChunk
<1>13. CASE SizeEnd
  <2>1. size =< Limit /\ At = "cr" /\ size' = size /\ Step("HEADER_TAIL_LF")
    BY <1>13 DEF SizeEnd
  <2>2. HeadInv' /\ Cur' = Cur + 1 /\ state' = "HEADER_TAIL_LF" /\ UNCHANGED <<msg, wire, out>>
    BY <1>1, <1>2, <2>1, StepDoes
  <2>3. k = w /\ msg.damage # <<n + 1, k + 1>>
    <3>1. k < w => k \in 0 .. w - 1
      BY <1>6, <1>8
    <3> QED BY <1>7, <1>9, <1>10, <1>11, <2>1, <3>1, DigitsAre
  <2>4. size' = c.size
    <3>1. w - w = 0
      BY <1>6
    <3> QED BY <1>4, <1>7, <2>1, <2>3, <3>1
  <2>5. Unhurt(n + 1, w + 1)
    BY <1>2, <1>4, <1>8, <2>3, UnhurtOn
  <2>6. Cur' = at + w + 1
    BY <1>4, <1>6, <1>8, <2>2, <2>3
  <2>7. SizesUpTo(n + 1)
    <3>1. ASSUME NEW j \in 1 .. n + 1 PROVE j \in 1 .. n \/ j = n + 1
      OBVIOUS
    <3> QED BY <1>5, <2>1, <2>4, <3>1 DEF SizesUpTo, c
  <2>8. AtSizeEnd(n)'
    <3>1. Handed(DataAt(msg, n))' /\ SizesUpTo(n + 1)' /\ Unhurt(n + 1, w + 1)'
      <4>1. w' = w
        BY <2>2 DEF w, c
      <4> QED BY <1>5, <2>2, <2>5, <2>7, <4>1 DEF Handed, SizesUpTo, Unhurt
    <3> QED BY <2>2, <2>4, <2>6, <3>1 DEF AtSizeEnd, c, w, at
  <2> QED BY <1>1, <2>1, <2>2, <2>8, StepRead DEF InChunk
<1>14. CASE SizeWrong
  <2>1. (size > Limit \/ (~IsDigit(At) /\ At # "cr")) /\ Fail
    BY <1>14 DEF SizeWrong
  <2>2. ASSUME size > Limit PROVE ~Intact(msg)
    <3>1. size =< c.size
      <4>1. \A a \in Nat : \A b \in Nat \ {0} : a \div b =< a
        OBVIOUS
      <4>2. w - k \in Nat
        BY <1>4, <1>6, <1>8
      <4>3. Power[w - k] \in Nat \ {0}
        BY <4>2, PowerIs
      <4>4. size = c.size \div Power[w - k] /\ c.size \in Nat
        BY <1>4, <1>6
      <4> QED BY <4>1, <4>3, <4>4
    <3>2. ~(c.size =< Limit)
      BY <1>6, <1>8, <2>2, <3>1, LimitIs
    <3>3. n + 1 \in 1 .. Len(msg.chunks)
      BY <1>2
    <3> QED BY <3>2, <3>3 DEF Intact, c
  <2>3. ASSUME ~IsDigit(At), At # "cr" PROVE ~Intact(msg)
    <3>1. k < w => k \in 0 .. w - 1
      BY <1>6, <1>8
    <3> QED BY <1>7, <1>9, <1>10, <1>11, <2>3, <3>1
  <2>4. decoding
    BY <1>1 DEF More
  <2> QED BY <2>1, <2>2, <2>3, <2>4, FailDoes
<1> QED BY <1>12, <1>13, <1>14

LEMMA HeaderTailDoes ==
  ASSUME Reading, ReadBody, HeaderTail
  PROVE  Read
<1>1. state = "HEADER_TAIL_LF" /\ More
  BY DEF HeaderTail
<1>2. /\ msg \in Messages /\ wire = Wire(msg) /\ Len(msg.chunks) \in Nat \ {0}
      /\ size \in 0 .. Power[SizeWidth] - 1
  BY WhichChunk
<1>3. PICK n \in 0 .. Len(msg.chunks) - 1 : AtSizeEnd(n)
  BY <1>1, WhichChunk
<1> DEFINE c == msg.chunks[n + 1]
           w == c.width
           at == ChunkAt(msg, n)
<1>4. /\ SizesUpTo(n + 1) /\ Handed(DataAt(msg, n))
      /\ Cur = at + w + 1 /\ size = c.size /\ Unhurt(n + 1, w + 1)
  BY <1>3 DEF AtSizeEnd
<1>5. /\ w \in Nat \ {0} /\ c.size \in Nat /\ at \in Nat /\ Len(c.data) \in Nat
      /\ (c.size =< Limit => Len(c.data) = c.size)
      /\ (c.size = 0 <=> n + 1 = Len(msg.chunks))
      /\ Wire(msg)[at + (w + 2)] = IF msg.damage = <<n + 1, w + 2>> THEN "damaged" ELSE "lf"
  BY <1>2, ChunkIs
<1>6. size =< Limit
  BY <1>1 DEF Reading, HeadInv
<1> HIDE DEF c, w, at
<1>7. \/ At = "lf" /\ msg.damage # <<n + 1, w + 2>>
      \/ At = "damaged" /\ ~Intact(msg)
  <2>1. \A a, b \in Nat : b + 1 \in Nat /\ b + 1 + 1 = b + 2 /\ a + b + 1 = a + (b + 1)
    OBVIOUS
  <2>2. w \in Nat /\ at \in Nat /\ Cur = at + w + 1
    BY <1>4, <1>5
  <2>3. w + 1 \in Nat /\ w + 1 + 1 = w + 2 /\ Cur = at + (w + 1)
    BY <2>1, <2>2
  <2> QED BY <1>1, <1>5, <2>3, Looks DEF at
<1>8. CASE At # "lf"
  <2>1. Fail /\ decoding
    BY <1>1, <1>8 DEF HeaderTail, More
  <2> QED BY <1>7, <1>8, <2>1, FailDoes
<1>9. CASE At = "lf"
  <2> DEFINE next == IF size # 0 THEN "BODY" ELSE "FINISH"
  <2>1. Step(next) /\ size' = size
    BY <1>9 DEF HeaderTail
  <2>2. HeadInv' /\ Cur' = Cur + 1 /\ state' = next /\ UNCHANGED <<msg, wire, out>>
        /\ p = Cur /\ p + 1 =< Len(wire)
    BY <1>1, <1>2, <1>6, <2>1, StepDoes
  <2>3. Unhurt(n + 1, w + 2)
    <3>1. w + 1 \in Nat /\ w + 1 + 1 = w + 2 /\ n + 1 \in Nat
      BY <1>5
    <3> QED BY <1>2, <1>4, <1>7, <1>9, <3>1, UnhurtOn
  <2>4. Cur' = at + w + 2
    BY <1>4, <1>5, <2>2
  <2>5. w' = w /\ at' = at /\ c' = c
    BY <2>2 DEF w, at, c
  <2>6. CASE size # 0
    <3>1. state' = "BODY" /\ 0 \in 0 .. c.size - 1
      BY <1>4, <1>5, <2>2, <2>6
    <3>2. Handed(DataAt(msg, n) + 0)' /\ SizesUpTo(n + 1)' /\ Unhurt(n + 1, w + 2)'
      <4>1. DataAt(msg, n) + 0 = DataAt(msg, n)
        BY <1>2, ContentIs
      <4> QED BY <1>4, <2>2, <2>3, <2>5, <4>1 DEF Handed, SizesUpTo, Unhurt
    <3>3. Cur' = at + w + 2 + 0 /\ size' = c.size - 0
      BY <1>4, <1>5, <2>1, <2>4
    <3>4. AtData(n)'
      BY <2>2, <2>5, <3>1, <3>2, <3>3 DEF AtData, c, w, at
    <3>5. Step("BODY")
      BY <2>1, <2>6
    <3> QED BY <1>1, <2>2, <3>4, <3>5, StepRead DEF InChunk
  <2>7. CASE size = 0
    <3>1. state' = "FINISH" /\ n + 1 = Len(msg.chunks) /\ Len(c.data) = 0
      BY <1>4, <1>5, <1>6, <2>2, <2>7
    <3>2. DataAt(msg, n) = Len(Content(msg))
      <4>1. DataAt(msg, n + 1) = DataAt(msg, n) + Len(c.data) /\ DataAt(msg, n) \in Nat
            /\ Len(Content(msg)) = DataAt(msg, n + 1)
        BY <1>2, <3>1, ContentIs DEF c
      <4> QED BY <3>1, <4>1
    <3>3. Intact(msg)
      <4>1. msg.damage = NoDamage
        BY <1>2, <2>3, <3>1, UnhurtBehind DEF w, c
      <4> QED BY <1>4, <3>1, <4>1 DEF Intact, SizesUpTo
    <3>4. Cur' \in at + w + 2 .. Len(wire)
      <4>1. Len(wire) \in Nat
        BY <1>2, WireIs
      <4> QED BY <1>4, <1>5, <2>2, <2>4, <4>1
    <3>5. AtEnd(n)'
      <4>1. Handed(Len(Content(msg)))'
        BY <1>4, <2>2, <3>2 DEF Handed
      <4> QED BY <2>1, <2>2, <2>5, <2>7, <3>1, <3>3, <3>4, <4>1 DEF AtEnd, c, w, at
    <3>6. D!End
      <4>1. out = Content(msg)
        <5>1. Content(msg) \in Seq(Bytes) /\ out = SubSeq(Content(msg), 1, Len(Content(msg)))
          BY <1>2, <1>4, <3>2, ContentIs DEF Handed
        <5>2. ASSUME NEW S, NEW s \in Seq(S) PROVE SubSeq(s, 1, Len(s)) = s
          OBVIOUS
        <5> QED BY <5>1, <5>2
      <4> QED BY <1>1, <2>2, <3>1, <3>3, <4>1 DEF D!End
    <3>7. BodyInv'
      BY <2>2, <3>5 DEF BodyInv, InChunk
    <3> QED BY <2>2, <3>6, <3>7 DEF Read, Delivers
  <2> QED BY <2>6, <2>7
<1> QED BY <1>8, <1>9

LEMMA TailDoes ==
  ASSUME Reading, ReadBody, BodyTailCr \/ BodyTailLf
  PROVE  Read
<1>1. /\ state \in {"BODY_TAIL_CR", "BODY_TAIL_LF"} /\ More
      /\ BodyTailCr => state = "BODY_TAIL_CR"
      /\ BodyTailLf => state = "BODY_TAIL_LF"
  BY DEF BodyTailCr, BodyTailLf
<1>2. /\ msg \in Messages /\ wire = Wire(msg) /\ Len(msg.chunks) \in Nat \ {0}
      /\ size \in 0 .. Power[SizeWidth] - 1
  BY WhichChunk
<1>3. PICK n \in 0 .. Len(msg.chunks) - 1 : AtDataEnd(n)
  BY <1>1, WhichChunk
<1> DEFINE c == msg.chunks[n + 1]
           e == DataEnd(c)
           at == ChunkAt(msg, n)
<1>4. /\ SizesUpTo(n + 1) /\ Handed(DataAt(msg, n + 1)) /\ size = 0 /\ c.size # 0
      /\ state = "BODY_TAIL_CR" => Cur = at + e /\ Unhurt(n + 1, e)
      /\ state = "BODY_TAIL_LF" => Cur = at + e + 1 /\ Unhurt(n + 1, e + 1)
  BY <1>3 DEF AtDataEnd
<1>5. /\ e \in Nat /\ at \in Nat /\ at + e + 2 = ChunkAt(msg, n + 1)
      /\ (c.size = 0 <=> n + 1 = Len(msg.chunks))
      /\ Wire(msg)[at + (e + 1)] = IF msg.damage = <<n + 1, e + 1>> THEN "damaged" ELSE "cr"
      /\ Wire(msg)[at + (e + 2)] = IF msg.damage = <<n + 1, e + 2>> THEN "damaged" ELSE "lf"
  <2>1. /\ c.width \in Nat \ {0} /\ Len(c.data) \in Nat /\ e = c.width + 2 + Len(c.data)
        /\ at \in Nat /\ at + e + 2 = ChunkAt(msg, n + 1)
        /\ (c.size = 0 <=> n + 1 = Len(msg.chunks))
        /\ Wire(msg)[at + (e + 1)] = IF msg.damage = <<n + 1, e + 1>> THEN "damaged" ELSE "cr"
        /\ Wire(msg)[at + (e + 2)] = IF msg.damage = <<n + 1, e + 2>> THEN "damaged" ELSE "lf"
    BY <1>2, ChunkIs
  <2> HIDE DEF c, e, at
  <2>2. \A a, b \in Nat : a + 2 + b \in Nat
    OBVIOUS
  <2>3. c.width \in Nat
    BY <2>1
  <2>4. c.width + 2 + Len(c.data) \in Nat
    BY <2>1, <2>2, <2>3
  <2>5. e \in Nat
    BY <2>1, <2>4
  <2> QED BY <2>1, <2>5
<1> HIDE DEF c, e, at
<1>6. CASE BodyTailCr
  <2>1. state = "BODY_TAIL_CR" /\ Cur = at + e /\ Unhurt(n + 1, e)
    BY <1>1, <1>4, <1>6
  <2>2. \/ At = "cr" /\ msg.damage # <<n + 1, e + 1>>
        \/ At = "damaged" /\ ~Intact(msg)
    BY <1>1, <1>5, <2>1, Looks DEF at
  <2>3. CASE At # "cr"
    <3>1. Fail /\ decoding
      BY <1>1, <1>6, <2>3 DEF BodyTailCr, More
    <3> QED BY <2>2, <2>3, <3>1, FailDoes
  <2>4. CASE At = "cr"
    <3>1. Step("BODY_TAIL_LF") /\ size' = size
      BY <1>6, <2>4 DEF BodyTailCr
    <3>2. HeadInv' /\ Cur' = Cur + 1 /\ state' = "BODY_TAIL_LF" /\ UNCHANGED <<msg, wire, out>>
      BY <1>1, <1>2, <3>1, StepDoes
    <3>3. Unhurt(n + 1, e + 1)
      <4>1. n + 1 \in Nat
        OBVIOUS
      <4> QED BY <1>2, <1>5, <2>1, <2>2, <2>4, <4>1, UnhurtOn
    <3>4. Cur' = at + e + 1
      BY <1>5, <2>1, <3>2
    <3>5. e' = e /\ at' = at /\ c' = c
      BY <3>2 DEF e, at, c
    <3>6. Handed(DataAt(msg, n + 1))' /\ SizesUpTo(n + 1)' /\ Unhurt(n + 1, e + 1)'
      BY <1>4, <3>2, <3>3, <3>5 DEF Handed, SizesUpTo, Unhurt
    <3>7. AtDataEnd(n)'
      BY <1>4, <3>1, <3>2, <3>4, <3>5, <3>6 DEF AtDataEnd, c, e, at
    <3> QED BY <1>1, <2>1, <3>1, <3>2, <3>7, StepRead DEF InChunk
  <2> QED BY <2>3, <2>4
<1>7. CASE BodyTailLf
  <2>1. state = "BODY_TAIL_LF" /\ Cur = at + e + 1 /\ Unhurt(n + 1, e + 1)
    BY <1>1, <1>4, <1>7
  <2>2. \/ At = "lf" /\ msg.damage # <<n + 1, e + 2>>
        \/ At = "damaged" /\ ~Intact(msg)
    <3>1. e + 1 \in Nat /\ e + 1 + 1 = e + 2 /\ Cur = at + (e + 1)
      BY <1>5, <2>1
    <3> QED BY <1>1, <1>5, <3>1, Looks DEF at
  <2>3. CASE At # "lf"
    <3>1. Fail /\ decoding
      BY <1>1, <1>7, <2>3 DEF BodyTailLf, More
    <3> QED BY <2>2, <2>3, <3>1, FailDoes
  <2>4. CASE At = "lf"
    <3>1. Step("HEADER") /\ size' = size
      BY <1>7, <2>4 DEF BodyTailLf
    <3>2. HeadInv' /\ Cur' = Cur + 1 /\ state' = "HEADER" /\ UNCHANGED <<msg, wire, out>>
      BY <1>1, <1>2, <3>1, StepDoes
    <3>3. Unhurt(n + 1, e + 2)
      <4>1. n + 1 \in Nat /\ e + 1 \in Nat /\ e + 1 + 1 = e + 2
        BY <1>5
      <4> QED BY <1>2, <2>1, <2>2, <2>4, <4>1, UnhurtOn
    <3>4. n + 1 \in 0 .. Len(msg.chunks) - 1 /\ n + 1 + 1 = n + 2
      BY <1>2, <1>4, <1>5
    <3>5. Unhurt(n + 2, 0)
      BY <1>2, <3>3, UnhurtBehind DEF e, c
    <3>6. Cur' = ChunkAt(msg, n + 1) + 0
      BY <1>5, <2>1, <3>2
    <3> DEFINE v == msg.chunks[n + 1 + 1]
    <3>7. 0 \in 0 .. v.width /\ size' = v.size \div Power[v.width - 0]
      <4>1. v.width \in Nat \ {0} /\ v.size \in Nat /\ v.size < Power[v.width]
        BY <1>2, <3>4, ChunkIs
      <4>2. v.size \div Power[v.width] = 0 /\ v.width - 0 = v.width
        BY <4>1, NumeralIs
      <4> QED BY <1>4, <3>1, <4>1, <4>2
    <3>8. Handed(DataAt(msg, n + 1))' /\ SizesUpTo(n + 1)' /\ Unhurt(n + 1 + 1, 0)'
      BY <1>4, <3>2, <3>4, <3>5 DEF Handed, SizesUpTo, Unhurt
    <3>9. AtSize(n + 1)'
      BY <3>2, <3>6, <3>7, <3>8 DEF AtSize
    <3> QED BY <1>1, <2>1, <3>1, <3>2, <3>4, <3>9, StepRead DEF InChunk
  <2> QED BY <2>3, <2>4
<1> QED BY <1>6, <1>7

LEMMA FinishDoes ==
  ASSUME Reading, ReadBody, Finish
  PROVE  Read
<1>1. state = "FINISH" /\ More
  BY DEF Finish
<1>2. /\ msg \in Messages /\ wire = Wire(msg) /\ Len(msg.chunks) \in Nat \ {0}
      /\ size \in 0 .. Power[SizeWidth] - 1
  BY WhichChunk
<1>3. PICK n \in 0 .. Len(msg.chunks) - 1 : AtEnd(n)
  BY <1>1, WhichChunk
<1> DEFINE c == msg.chunks[n + 1]
           w == c.width
           e == DataEnd(c)
           at == ChunkAt(msg, n)
<1>4. /\ n + 1 = Len(msg.chunks) /\ Intact(msg) /\ Handed(Len(Content(msg))) /\ size = 0
      /\ Cur \in at + w + 2 .. Len(wire)
  BY <1>3 DEF AtEnd
<1>5. /\ w \in Nat \ {0} /\ at \in Nat /\ e = w + 2
      /\ at + e + 2 = Len(wire)
      /\ Wire(msg)[at + (e + 1)] = IF msg.damage = <<n + 1, e + 1>> THEN "damaged" ELSE "cr"
      /\ Wire(msg)[at + (e + 2)] = IF msg.damage = <<n + 1, e + 2>> THEN "damaged" ELSE "lf"
  <2>1. /\ w \in Nat \ {0} /\ at \in Nat /\ e = w + 2 + Len(c.data) /\ Len(c.data) \in Nat
        /\ (c.size =< Limit => Len(c.data) = c.size)
        /\ (c.size = 0 <=> n + 1 = Len(msg.chunks))
        /\ at + e + 2 = ChunkAt(msg, n + 1)
        /\ Wire(msg)[at + (e + 1)] = IF msg.damage = <<n + 1, e + 1>> THEN "damaged" ELSE "cr"
        /\ Wire(msg)[at + (e + 2)] = IF msg.damage = <<n + 1, e + 2>> THEN "damaged" ELSE "lf"
    BY <1>2, ChunkIs, ZenonT(30)
  <2>2. c.size = 0 /\ c.size =< Limit
    BY <1>4, <2>1, LimitIs
  <2>3. Len(c.data) = 0
    BY <2>1, <2>2
  <2>4. e = w + 2
    <3> HIDE DEF e, w
    <3> QED BY <2>1, <2>3
  <2>5. Len(wire) = ChunkAt(msg, n + 1)
    BY <1>2, <1>4, WireIs
  <2> QED BY <2>1, <2>4, <2>5
<1>6. p = Cur /\ p < arrived /\ arrived =< Len(wire) /\ Len(wire) \in Nat /\ arrived \in Nat
  <2>1. Len(wire) \in Nat
    BY <1>2, WireIs
  <2> QED BY <1>1, <2>1 DEF More, Cur, Reading, HeadInv
<1> HIDE DEF c, w, e, at
<1>7. Cur = at + e \/ Cur = at + (e + 1)
  BY <1>4, <1>5, <1>6
<1>8. At \in {"cr", "lf"}
  <2>1. e \in Nat /\ e + 1 \in Nat /\ e + 1 + 1 = e + 2
    BY <1>5
  <2>2. CASE Cur = at + e
    <3>1. At = "cr" \/ ~Intact(msg)
      BY <1>1, <1>5, <2>1, <2>2, Looks DEF at
    <3> QED BY <1>4, <3>1
  <2>3. CASE Cur = at + (e + 1)
    <3>1. At = "lf" \/ ~Intact(msg)
      BY <1>1, <1>5, <2>1, <2>3, Looks DEF at
    <3> QED BY <1>4, <3>1
  <2> QED BY <1>7, <2>2, <2>3
<1>9. Step("FINISH") /\ size' = size
  BY <1>8 DEF Finish
<1>10. HeadInv' /\ Cur' = Cur + 1 /\ state' = "FINISH" /\ UNCHANGED <<msg, wire, out>>
       /\ p = Cur /\ p + 1 =< Len(wire) /\ p \in Nat
  BY <1>1, <1>2, <1>9, StepDoes
<1>11. Cur' \in at + w + 2 .. Len(wire)
  BY <1>4, <1>5, <1>6, <1>10
<1>12. AtEnd(n)'
  <2>1. Handed(Len(Content(msg)))'
    BY <1>4, <1>10 DEF Handed
  <2>2. w' = w /\ at' = at /\ c' = c
    BY <1>10 DEF w, at, c
  <2> QED BY <1>4, <1>9, <1>10, <1>11, <2>1, <2>2 DEF AtEnd, c, w, at
<1> QED BY <1>1, <1>9, <1>10, <1>12, StepRead DEF InChunk

\* The b elements of x behind its first a, found behind the first q of y.
Continues(x, a, y, q, b) ==
  /\ a + b =< Len(x) /\ q + b =< Len(y)
  /\ \A j \in 1 .. b : y[q + j] = x[a + j]

LEMMA Onward ==
  ASSUME NEW S, NEW x \in Seq(S), NEW y \in Seq(S), NEW a \in Nat, NEW b \in Nat, NEW q \in Nat,
         Continues(x, a, y, q, b)
  PROVE  SubSeq(x, 1, a) \o SubSeq(y, q + 1, q + b) = SubSeq(x, 1, a + b)
<1>0. a + b =< Len(x) /\ q + b =< Len(y) /\ \A j \in 1 .. b : y[q + j] = x[a + j]
  BY DEF Continues
<1> DEFINE u == SubSeq(x, 1, a)
           v == SubSeq(y, q + 1, q + b)
           z == SubSeq(x, 1, a + b)
<1>1. u \in Seq(S) /\ Len(u) = a /\ \A i \in 1 .. a : u[i] = x[i]
  BY <1>0
<1>2. v \in Seq(S) /\ Len(v) = b /\ \A i \in 1 .. b : v[i] = y[q + i]
  <2>1. q + 1 \in Nat /\ q + b \in Nat /\ q + b - (q + 1) + 1 = b
    OBVIOUS
  <2>2. ASSUME NEW f \in Nat, NEW t \in Nat, t =< Len(y), f >= 1, f =< t + 1
        PROVE  /\ SubSeq(y, f, t) \in Seq(S) /\ Len(SubSeq(y, f, t)) = t - f + 1
               /\ \A i \in 1 .. t - f + 1 : SubSeq(y, f, t)[i] = y[f + i - 1]
    BY <2>2
  <2>3. /\ v \in Seq(S) /\ Len(v) = q + b - (q + 1) + 1
        /\ \A i \in 1 .. q + b - (q + 1) + 1 : v[i] = y[q + 1 + i - 1]
    BY <1>0, <2>1, <2>2
  <2>4. \A i \in 1 .. b : q + 1 + i - 1 = q + i
    OBVIOUS
  <2> HIDE DEF v
  <2> QED BY <2>1, <2>3, <2>4
<1>3. z \in Seq(S) /\ Len(z) = a + b /\ \A i \in 1 .. a + b : z[i] = x[i]
  BY <1>0
<1> HIDE DEF u, v, z
<1>4. /\ u \o v \in Seq(S) /\ Len(u \o v) = a + b
      /\ Carries(u \o v, 0, u) /\ Carries(u \o v, a, v)
  BY <1>1, <1>2, Concatenated
<1>5. ASSUME NEW i \in 1 .. a + b PROVE (u \o v)[i] = z[i]
  <2>1. CASE i \in 1 .. a
    <3>1. (u \o v)[0 + i] = u[i] /\ 0 + i = i
      BY <1>1, <1>4, <2>1 DEF Carries
    <3> QED BY <1>1, <1>3, <2>1, <3>1
  <2>2. CASE i \notin 1 .. a
    <3>1. i - a \in 1 .. b /\ a + (i - a) = i
      BY <2>2
    <3>2. (u \o v)[a + (i - a)] = v[i - a]
      BY <1>2, <1>4, <3>1 DEF Carries
    <3>3. v[i - a] = x[a + (i - a)]
      BY <1>0, <1>2, <3>1
    <3> QED BY <1>3, <3>1, <3>2, <3>3
  <2> QED BY <2>1, <2>2
<1>6. u \o v = z
  <2>1. ASSUME NEW f \in Seq(S), NEW g \in Seq(S), Len(f) = Len(g),
               \A i \in 1 .. Len(f) : f[i] = g[i]
        PROVE  f = g
    BY <2>1
  <2>2. Len(u \o v) = Len(z) /\ \A i \in 1 .. Len(u \o v) : (u \o v)[i] = z[i]
    BY <1>3, <1>4, <1>5
  <2> DEFINE f == u \o v
  <2>3. f \in Seq(S) /\ Len(f) = Len(z) /\ \A i \in 1 .. Len(f) : f[i] = z[i]
    BY <1>4, <2>2
  <2> HIDE DEF f
  <2>4. f = z
    BY <1>3, <2>1, <2>3
  <2> QED BY <2>4 DEF f
<1> QED BY <1>6 DEF u, v, z

LEMMA BodyDoes ==
  ASSUME Reading, ReadBody, Body
  PROVE  Read
<1> DEFINE whole == size =< arrived - p
           m == IF whole THEN size ELSE arrived - p
<1>1. /\ state = "BODY" /\ More /\ decoding
      /\ state' = IF whole THEN "BODY_TAIL_CR" ELSE "BODY"
      /\ size' = size - m
      /\ out' = out \o SubSeq(wire, p + 1, p + m)
      /\ pos' = p + m
      /\ decoding' = FALSE
      /\ UNCHANGED <<wire, arrived, p, failed, msg, phase, headers, beyond>>
  BY DEF Body, ReadBody, More
<1>2. /\ msg \in Messages /\ wire = Wire(msg) /\ Len(msg.chunks) \in Nat \ {0}
      /\ size \in 0 .. Power[SizeWidth] - 1
  BY WhichChunk
<1>3. PICK n \in 0 .. Len(msg.chunks) - 1 : AtData(n)
  BY <1>1, WhichChunk
<1> DEFINE c == msg.chunks[n + 1]
           w == c.width
           at == ChunkAt(msg, n)
           got == DataAt(msg, n)
           all == Content(msg)
<1>4. PICK k \in 0 .. c.size - 1 : Handed(got + k) /\ Cur = at + w + 2 + k /\ size = c.size - k
  BY <1>3 DEF AtData
<1>5. SizesUpTo(n + 1) /\ Unhurt(n + 1, w + 2)
  BY <1>3 DEF AtData
<1>6. /\ w \in Nat \ {0} /\ c.size \in Nat /\ at \in Nat /\ DataEnd(c) = w + 2 + Len(c.data)
      /\ c.data \in Seq(Bytes)
      /\ (c.size =< Limit => Len(c.data) = c.size)
      /\ \A j \in 1 .. Len(c.data) :
           Wire(msg)[at + (w + 2 + j)]
             = IF msg.damage = <<n + 1, w + 2 + j>> THEN "damaged" ELSE c.data[j]
  BY <1>2, ChunkIs, ZenonT(30)
<1>7. n + 1 \in 1 .. n + 1 /\ c.size =< Limit
  <2>1. n + 1 \in 1 .. n + 1
    OBVIOUS
  <2> QED BY <1>5, <2>1 DEF SizesUpTo
<1>8. \A j \in 1 .. Len(c.data) : msg.damage # <<n + 1, w + 2 + j>>
  BY <1>2, UnhurtBehind
<1>9. /\ all \in Seq(Bytes) /\ Carries(all, got, c.data) /\ got \in Nat
      /\ DataAt(msg, n + 1) = got + Len(c.data) /\ Len(all) \in Nat
  BY <1>2, ContentIs
<1>10. /\ p < arrived /\ p \in Nat /\ arrived \in 0 .. Len(wire) /\ ~failed
       /\ wire \in Seq(Bytes) /\ Len(wire) \in Nat /\ pos =< p /\ pos \in Nat
       /\ Len(HeadBytes(msg)) \in Nat /\ pos >= Len(HeadBytes(msg))
  BY <1>1, <1>2, WireIs, HeadIs DEF More, Reading, HeadInv
<1>11. Cur = p /\ Cur' = p + m
  BY <1>1, <1>10 DEF Cur
<1>12. Unhurt(n + 1, DataEnd(c))
  BY <1>2, <1>5, UnhurtBehind
<1> HIDE DEF c, w, at, got, all, m, whole
<1>13. PICK d \in Nat : d = c.size
  BY <1>6
<1>14. k \in Nat /\ size = d - k /\ k < d /\ Len(c.data) = d
  BY <1>4, <1>6, <1>7, <1>13
<1>15. size \in Nat /\ size > 0 /\ arrived \in Nat
  BY <1>10, <1>14
<1>16. m \in Nat /\ m > 0 /\ m =< size /\ p + m =< arrived /\ (whole => m = size)
       /\ (~whole => m < size)
  BY <1>10, <1>15 DEF m, whole
<1>17. PICK h \in Nat : h = k + m
  BY <1>14, <1>16
<1>18. /\ h > k /\ h =< d /\ m = h - k /\ (whole => h = d) /\ (~whole => h < d)
       /\ size' = d - h
  BY <1>1, <1>14, <1>15, <1>16, <1>17
<1>19. \A j \in 1 .. m : wire[p + j] = all[got + k + j]
  <2> SUFFICES ASSUME NEW j \in 1 .. m PROVE wire[p + j] = all[got + k + j]
    OBVIOUS
  <2>1. k + j \in 1 .. Len(c.data) /\ p + j = at + (w + 2 + (k + j)) /\ got + k + j = got + (k + j)
    <3>1. \A x, y, z \in Nat : x + y + z = x + (y + z)
      OBVIOUS
    <3>2. \A x, y, z \in Nat : x + y + 2 + k + z = x + (y + 2 + (k + z))
      BY <1>14
    <3>3. p = at + w + 2 + k
      BY <1>4, <1>11
    <3>4. w \in Nat /\ at \in Nat /\ j \in Nat
      BY <1>6
    <3>5. p + j = at + (w + 2 + (k + j))
      BY <3>2, <3>3, <3>4
    <3>6. k + j \in 1 .. d
      BY <1>14, <1>16, <1>17, <1>18
    <3> QED BY <1>9, <1>14, <3>1, <3>4, <3>5, <3>6
  <2>2. wire[p + j] = c.data[k + j]
    BY <1>2, <1>6, <1>8, <2>1
  <2>3. all[got + (k + j)] = c.data[k + j]
    BY <1>9, <2>1 DEF Carries
  <2> QED BY <2>1, <2>2, <2>3
<1>20. /\ got + k \in Nat /\ got + h \in Nat /\ got + k + m = got + h
       /\ got + h =< Len(all) /\ got + k =< Len(all) /\ got + k < got + h
  <2>1. got + d =< Len(all)
    BY <1>9, <1>14 DEF Carries
  <2> QED BY <1>9, <1>14, <1>16, <1>17, <1>18, <2>1
<1>21. out = SubSeq(all, 1, got + k)
  BY <1>4 DEF Handed, all
<1>22. out' = SubSeq(all, 1, got + h)
  <2>1. got + k + m =< Len(all) /\ p + m =< Len(wire)
    BY <1>10, <1>16, <1>20
  <2>2. SubSeq(all, 1, got + k) \o SubSeq(wire, p + 1, p + m) = SubSeq(all, 1, got + k + m)
    <3>1. PICK a \in Nat : a = got + k
      BY <1>20
    <3>2. PICK b \in Nat : b = m
      BY <1>16
    <3>3. a + b =< Len(all) /\ p + b =< Len(wire) /\ \A j \in 1 .. b : wire[p + j] = all[a + j]
      BY <1>19, <2>1, <3>1, <3>2
    <3>4. SubSeq(all, 1, a) \o SubSeq(wire, p + 1, p + b) = SubSeq(all, 1, a + b)
      <4>1. Continues(all, a, wire, p, b)
        BY <3>3 DEF Continues
      <4>2. all \in Seq(Bytes) /\ wire \in Seq(Bytes) /\ p \in Nat
        BY <1>9, <1>10
      <4> QED BY <4>1, <4>2, Onward
    <3> QED BY <3>1, <3>2, <3>4
  <2> QED BY <1>1, <1>20, <1>21, <2>2
<1>23. PICK x \in Nat : x = got + h
  BY <1>20
<1>24. x \in 0 .. Len(all) /\ out' = SubSeq(all, 1, x)
  BY <1>9, <1>20, <1>22, <1>23
<1>25. c' = c /\ w' = w /\ at' = at /\ got' = got /\ all' = all /\ DataAt(msg, n + 1)' = DataAt(msg, n + 1)
  BY <1>1 DEF c, w, at, got, all
<1>26. Handed(x)'
  BY <1>24, <1>25 DEF Handed, all
<1>27. D!HandOut
  <2>1. Len(out) = got + k
    <3>1. ASSUME NEW S, NEW s \in Seq(S), NEW a \in Nat, a =< Len(s) PROVE Len(SubSeq(s, 1, a)) = a
      BY <3>1
    <3> QED BY <1>9, <1>20, <1>21, <3>1
  <2>2. x \in Len(out) + 1 .. Len(all)
    BY <1>9, <1>20, <1>23, <2>1
  <2>3. state # "FINISH" /\ state' # "FINISH" /\ msg' = msg
    BY <1>1
  <2> QED BY <1>24, <2>2, <2>3 DEF D!HandOut, all
<1>28. HeadInv'
  <2>1. pos' \in 0 .. Len(wire) /\ pos' =< arrived /\ pos' >= Len(HeadBytes(msg))
    BY <1>1, <1>10, <1>15, <1>16
  <2>2. size' \in 0 .. Power[SizeWidth] - 1 /\ size' =< Limit
    <3>1. size - m \in Nat /\ size - m =< size
      BY <1>15, <1>16
    <3>2. size =< Limit
      BY <1>1 DEF Reading, HeadInv
    <3>3. size - m =< Limit
      BY <1>15, <3>1, <3>2, LimitIs
    <3> QED BY <1>1, <3>1, <3>3, LimitIs
  <2>3. ~failed' /\ decoding' = FALSE
    BY <1>1, <1>10
  <2> QED BY <1>1, <2>1, <2>2, <2>3 DEF Reading, HeadInv
<1>29. InChunk(n)'
  <2>1. SizesUpTo(n + 1)' /\ Unhurt(n + 1, w + 2)' /\ Unhurt(n + 1, DataEnd(c))'
    BY <1>1, <1>5, <1>12, <1>25 DEF SizesUpTo, Unhurt
  <2>2. Cur' = at + w + 2 + h
    <3>1. Cur' = at + w + 2 + k + m
      BY <1>4, <1>11
    <3>2. \A a, b \in Nat : a + b + 2 + k + m = a + b + 2 + (k + m)
      BY <1>14, <1>16
    <3> QED BY <1>6, <1>17, <3>1, <3>2
  <2>3. CASE whole
    <3>1. state' = "BODY_TAIL_CR" /\ size' = 0 /\ h = d /\ d # 0
      BY <1>1, <1>14, <1>18, <2>3
    <3>2. Cur' = at + DataEnd(c)
      <4>1. \A a, b \in Nat : a + b + 2 + d = a + (b + 2 + d)
        OBVIOUS
      <4> QED BY <1>6, <1>14, <2>2, <3>1, <4>1
    <3>3. x = DataAt(msg, n + 1)
      BY <1>9, <1>14, <1>23, <3>1
    <3>4. Handed(DataAt(msg, n + 1))'
      BY <1>24, <1>25, <3>3 DEF Handed, all
    <3>5. AtDataEnd(n)'
      BY <1>1, <1>13, <1>25, <2>1, <3>1, <3>2, <3>4 DEF AtDataEnd, c, at
    <3> QED BY <3>5 DEF InChunk
  <2>4. CASE ~whole
    <3>1. state' = "BODY" /\ h \in 0 .. c.size - 1 /\ size' = c.size - h
      BY <1>1, <1>13, <1>18, <2>4
    <3>2. Handed(got + h)'
      BY <1>23, <1>24, <1>25 DEF Handed, all
    <3>3. AtData(n)'
      BY <1>1, <1>25, <2>1, <2>2, <3>1, <3>2 DEF AtData, c, w, at, got
    <3> QED BY <3>3 DEF InChunk
  <2> QED BY <2>3, <2>4
<1>30. BodyInv'
  BY <1>1, <1>29 DEF BodyInv
<1> QED BY <1>27, <1>28, <1>30 DEF Read, Delivers

-----------------------------------------------------------------------------
(* The whole message.                                                      *)

HttpInv == HeadInv /\ BodyInv

LEMMA HttpInitially == Init => HttpInv
BY HeadInitially DEF HttpInv, BodyInv, Init

\* The decoder begins where the head ends.
LEMMA BodyBegins ==
  ASSUME HeadInv, ReadHeader, phase' = "body"
  PROVE  BodyInv'
<1>1. HeadInv' /\ msg \in Messages /\ phase = "headers"
  BY HeaderStep DEF HeadInv, ReadHeader
<1>2. /\ ~failed /\ NotYet
      /\ UNCHANGED <<wire, arrived, size, p, decoding, out, msg>>
  BY <1>1 DEF ReadHeader, HeadInv
<1>3. PICK n \in 0 .. Len(msg.headers) :
        pos = HeaderAt(msg, n)
  BY <1>1 DEF HeadInv
<1>4. state' = "HEADER" /\ failed' = FALSE /\ pos' = pos + 2 /\ \E past \in Past : Header(Buffer, past) = 2
  BY <1>1, <1>2 DEF ReadHeader, Enable, HeadInv
<1>5. n = Len(msg.headers)
  <2> SUFFICES ASSUME n # Len(msg.headers) PROVE FALSE
    OBVIOUS
  <2>1. n \in 0 .. Len(msg.headers) - 1
    BY <1>1, MessageParts
  <2> DEFINE e == Len(HeaderBytes(msg.headers[n + 1]))
  <2>2. Reads(Header(Buffer, "lf"), Header(Buffer, "stale"), e, Len(Buffer)) /\ e \in Nat /\ e > 2
    BY <1>3, <2>1, NextHeaderRight
  <2> HIDE DEF e
  <2>3. Header(Buffer, "lf") = 2 \/ Header(Buffer, "stale") = 2
    BY <1>4 DEF Past
  <2> QED BY <2>2, <2>3 DEF Reads, Again, Error
<1>6. pos' = Len(HeadBytes(msg))
  BY <1>3, <1>4, <1>5, HeadEndRight
<1>7. 0 \in 0 .. Len(msg.chunks) - 1 /\ 0 + 1 = 1 /\ 1 \in 1 .. Len(msg.chunks)
  BY <1>1, MessageParts
<1> DEFINE c == msg.chunks[0 + 1]
<1>8. c.width \in Nat \ {0} /\ c.size \in Nat /\ c.size < Power[c.width] /\ ChunkAt(msg, 0) = Len(HeadBytes(msg))
      /\ ChunkAt(msg, 0) \in Nat
  BY <1>1, <1>7, ChunkIs, WireIs
<1>9. 0 \in 0 .. c.width /\ size' = c.size \div Power[c.width - 0]
  <2>1. c.size \div Power[c.width] = 0 /\ c.width - 0 = c.width
    BY <1>8, NumeralIs
  <2>2. size' = 0 /\ 0 \in 0 .. c.width
    BY <1>2, <1>8 DEF NotYet
  <2> QED BY <2>1, <2>2
<1>10. Cur' = ChunkAt(msg, 0) + 0
  BY <1>2, <1>4, <1>6, <1>8 DEF Cur, NotYet
<1>11. Handed(DataAt(msg, 0))' /\ SizesUpTo(0)' /\ Unhurt(0 + 1, 0)'
  <2>1. DataAt(msg, 0) = 0 /\ Len(Content(msg)) \in Nat /\ Content(msg) \in Seq(Bytes)
    BY <1>1, ContentIs
  <2>2. Unhurt(0 + 1, 0)
    BY <1>1, <1>7, UnhurtFirst
  <2>3. out = SubSeq(Content(msg), 1, 0)
    BY <1>2, <2>1 DEF NotYet
  <2>4. 0 \in 0 .. Len(Content(msg))
    BY <2>1
  <2> QED BY <1>2, <2>1, <2>2, <2>3, <2>4 DEF Handed, SizesUpTo, Unhurt
<1>12. AtSize(0)'
  BY <1>2, <1>4, <1>9, <1>10, <1>11 DEF AtSize
<1> QED BY <1>2, <1>7, <1>12 DEF BodyInv, InChunk

LEMMA HttpStep ==
  HttpInv /\ [Next]_vars => HttpInv' /\ [D!HandOut \/ D!End]_(D!deliveryVars)
<1> SUFFICES ASSUME HttpInv, [Next]_vars
             PROVE  HttpInv' /\ (D!HandOut \/ D!End \/ UNCHANGED D!deliveryVars)
  OBVIOUS
<1>1. HeadInv /\ BodyInv
  BY DEF HttpInv
<1>2. CASE Arrive
  <2>1. HeadInv'
    BY <1>1, <1>2, ArriveStep
  <2>2. UNCHANGED <<wire, pos, state, size, p, decoding, failed, out, msg, phase>>
    BY <1>2 DEF Arrive
  <2>3. Cur' = Cur
    BY <2>2 DEF Cur
  <2>4. BodyInv'
    BY <1>1, <2>2, <2>3, SameChunk DEF BodyInv
  <2> QED BY <2>1, <2>2, <2>4, NothingHanded DEF HttpInv
<1>3. CASE ReadLine
  <2>1. HeadInv' /\ BodyInv'
    BY <1>1, <1>3, LineStep DEF BodyInv
  <2>2. UNCHANGED <<msg, out, state>>
    BY <1>3 DEF ReadLine
  <2> QED BY <2>1, <2>2, NothingHanded DEF HttpInv
<1>4. CASE ReadHeader
  <2>1. HeadInv'
    BY <1>1, <1>4, HeaderStep
  <2>2. BodyInv'
    BY <1>1, <1>4, BodyBegins DEF BodyInv
  <2>3. UNCHANGED <<msg, out>> /\ state # "FINISH" /\ state' # "FINISH"
    <3>1. state = "DISABLE" /\ UNCHANGED <<msg, out>>
      BY <1>1, <1>4 DEF ReadHeader, HeadInv, NotYet
    <3>2. state' = state \/ state' = "HEADER"
      BY <1>4 DEF ReadHeader, Enable
    <3> QED BY <3>1, <3>2
  <2> QED BY <2>1, <2>2, <2>3, NothingHanded DEF HttpInv
<1>5. CASE ReadBody
  <2>1. Reading /\ Decode
    BY <1>1, <1>5 DEF Reading, ReadBody
  <2>2. Read
    BY <1>5, <2>1, CallDoes, SizeDoes, HeaderTailDoes, BodyDoes, TailDoes, FinishDoes DEF Decode
  <2> QED BY <2>2 DEF Read, Delivers, HttpInv
<1>6. CASE UNCHANGED vars
  <2>1. UNCHANGED <<wire, arrived, pos, state, size, p, decoding, failed, out, msg, phase, headers, beyond>>
    BY <1>6 DEF vars, chunkedVars
  <2>2. Cur' = Cur
    BY <2>1 DEF Cur
  <2>3. BodyInv'
    BY <1>1, <2>1, <2>2, SameChunk DEF BodyInv
  <2>4. HeadInv'
    BY <1>1, <2>1 DEF HeadInv, NotYet
  <2> QED BY <2>1, <2>3, <2>4, NothingHanded DEF HttpInv
<1> QED BY <1>2, <1>3, <1>4, <1>5, <1>6 DEF Next

LEMMA HttpAlways == Spec => []HttpInv
<1>1. HttpInv /\ [Next]_vars => HttpInv'
  BY HttpStep
<1> QED BY HttpInitially, <1>1, PTL DEF Spec

-----------------------------------------------------------------------------
(* The theorems.                                                           *)

\* Whatever the message and wherever it is cut, the parsers of wuy_http.c stay
\* inside what arrived and a chunk's size inside its 32 bits.
THEOREM TypeTheorem == Spec => []TypeOK
<1>1. HttpInv => TypeOK
  <2> SUFFICES ASSUME HttpInv PROVE TypeOK
    OBVIOUS
  <2>1. HeadInv /\ BodyInv
    BY DEF HttpInv
  <2>2. Len(wire) =< MaxWire /\ Len(wire) \in Nat
    BY <2>1, WireIs, MessageParts DEF HeadInv
  <2>3. state \in {"DISABLE", "HEADER", "HEADER_TAIL_LF", "BODY", "BODY_TAIL_CR",
                  "BODY_TAIL_LF", "FINISH"}
    <3>1. CASE phase = "body"
      <4>1. PICK n \in 0 .. Len(msg.chunks) - 1 : InChunk(n)
        BY <2>1, <3>1 DEF BodyInv
      <4> QED BY <4>1 DEF InChunk, AtSize, AtSizeEnd, AtData, AtDataEnd, AtEnd
    <3>2. CASE phase # "body"
      BY <2>1, <3>2 DEF HeadInv, NotYet
    <3> QED BY <3>1, <3>2
  <2>4. pos \in 0 .. IF beyond THEN Len(wire) ELSE arrived
    BY <2>1, <2>2 DEF HeadInv
  <2> QED BY <2>1, <2>2, <2>3, <2>4 DEF HeadInv, TypeOK
<1> QED BY HttpAlways, <1>1, PTL

\* wuy_http_request_line(), wuy_http_status_line() and wuy_http_header() give
\* the headers that were sent, in order, wherever the calls came between bytes,
\* unless one decided on a byte behind the buffer.
THEOREM HeadersTheorem == Spec => []HeadersAsSent
<1>1. HttpInv => HeadersAsSent
  <2> SUFFICES ASSUME HttpInv, ~beyond
               PROVE  /\ IsPrefix(headers, FirstHeaders(msg, Len(msg.headers)))
                      /\ phase = "body" =>
                           headers = FirstHeaders(msg, Len(msg.headers)) /\ pos >= Len(HeadBytes(msg))
    BY DEF HeadersAsSent, FirstHeaders
  <2>1. HeadInv
    BY DEF HttpInv
  <2> DEFINE N == Len(msg.headers)
  <2>2. N \in Nat
    BY <2>1, MessageParts DEF HeadInv
  <2>3. \E n \in 0 .. N : headers = FirstHeaders(msg, n)
    <3>1. CASE phase = "line"
      <4>1. headers = FirstHeaders(msg, 0) /\ 0 \in 0 .. N
        BY <2>1, <2>2, <3>1 DEF HeadInv, FirstHeaders
      <4> QED BY <4>1
    <3>2. CASE phase = "headers"
      BY <2>1, <3>2 DEF HeadInv
    <3>3. CASE phase = "body"
      BY <2>1, <2>2, <3>3 DEF HeadInv
    <3> QED BY <2>1, <3>1, <3>2, <3>3 DEF HeadInv
  <2>4. PICK n \in 0 .. N : headers = FirstHeaders(msg, n)
    BY <2>3
  <2> DEFINE f == FirstHeaders(msg, n)
             g == FirstHeaders(msg, N)
             S == {[name |-> h.name, value |-> h.value] : h \in {msg.headers[i] : i \in 1 .. N}}
  <2>5. /\ f \in Seq(S) /\ Len(f) = n /\ g \in Seq(S) /\ Len(g) = N
        /\ \A i \in 1 .. n : f[i] = g[i]
    BY <2>2, SMTT(30) DEF FirstHeaders
  <2> HIDE DEF f, g, S, N
  <2>6. f = SubSeq(g, 1, Len(f))
    <3>1. SubSeq(g, 1, n) \in Seq(S) /\ Len(SubSeq(g, 1, n)) = n
          /\ \A i \in 1 .. n : SubSeq(g, 1, n)[i] = g[i]
      BY <2>2, <2>5
    <3>2. ASSUME NEW x \in Seq(S), NEW y \in Seq(S), Len(x) = Len(y),
                 \A i \in 1 .. Len(x) : x[i] = y[i]
          PROVE  x = y
      BY <3>2
    <3> DEFINE y == SubSeq(g, 1, n)
    <3>3. y \in Seq(S) /\ Len(f) = Len(y) /\ \A i \in 1 .. Len(f) : f[i] = y[i]
      BY <2>5, <3>1
    <3> HIDE DEF y
    <3>4. f = y
      BY <2>5, <3>2, <3>3
    <3> QED BY <2>5, <3>4 DEF y
  <2>7. Len(f) =< Len(g)
    BY <2>2, <2>5
  <2>8. IsPrefix(headers, g)
    BY <2>4, <2>6, <2>7 DEF IsPrefix, f
  <2> QED BY <2>1, <2>8 DEF HeadInv, g, N
<1> QED BY HttpAlways, <1>1, PTL

\* No cut makes wuy_http.c refuse a message that is not damaged, unless a byte
\* behind the buffer was taken for one of the message.
THEOREM AlarmTheorem == Spec => []NoFalseAlarm
<1>1. HttpInv => NoFalseAlarm
  BY DEF HttpInv, HeadInv, NoFalseAlarm
<1> QED BY HttpAlways, <1>1, PTL

\* What the calls of wuy_http_chunked_decode() hand out is the body: the model
\* of the decoder implements Delivery.
THEOREM DeliveryTheorem == Spec => BodyAsSent
<1>1. Init => D!DeliveryInit
  BY DEF Init, ChunkedInit, D!DeliveryInit
<1>2. HttpInv /\ [Next]_vars => [D!HandOut \/ D!End]_(D!deliveryVars)
  BY HttpStep
<1> QED BY HttpAlways, <1>1, <1>2, PTL DEF Spec, BodyAsSent, D!DeliverySpec
=============================================================================
