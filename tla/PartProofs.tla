----------------------------- MODULE PartProofs -----------------------------
(***************************************************************************)
(* Parts that keep to themselves, each for every value of its constants:   *)
(* the texts of times, the meter, the JSON writer, base64 and the pool.    *)
(***************************************************************************)
EXTENDS Timestamp, Meter, JsonDump, Pool, Base64, TLAPS, SequenceTheorems, WellFoundedInduction

-----------------------------------------------------------------------------
(* The texts of times.                                                     *)

LEMMA Divided ==
  ASSUME NEW h \in Int, NEW m \in Nat \ {0}, h % m = 0
  PROVE  h \div m \in Int /\ h = m * (h \div m)
OBVIOUS

\* A multiple of m that is at most 0 is so many times m.
LEMMA TimesSmall ==
  ASSUME NEW m \in Nat \ {0}, NEW d \in Int, m * d \in 0 .. m - 1
  PROVE  d = 0
<1>1. CASE d >= 1
  <2>1. PICK e \in Nat : d = 1 + e
    BY <1>1
  <2>2. m * d = m + m * e /\ m * e \in Nat
    BY <2>1
  <2> QED BY <2>2
<1>2. CASE -d >= 1
  <2>1. PICK e \in Nat : d = -(1 + e)
    BY <1>2
  <2>2. m * d = -(m + m * e) /\ m * e \in Nat
    BY <2>1
  <2> QED BY <2>2
<1> QED BY <1>1, <1>2

LEMMA NegativeDivided ==
  ASSUME NEW h \in Int, NEW m \in Nat \ {0}, h % m = 0
  PROVE  ((-h) \div m) * m = -h
<1>1. PICK a \in Int : a = h \div m /\ h = m * a
  BY Divided
<1>2. PICK g \in Int : g = -h
  OBVIOUS
<1>3. PICK b \in Int, r \in 0 .. m - 1 : b = g \div m /\ g = m * b + r
  <2>1. g \div m \in Int /\ g % m \in 0 .. m - 1 /\ g = m * (g \div m) + (g % m)
    BY <1>2
  <2> QED BY <2>1
<1>4. m * ((-a) - b) = r
  <2>1. m * ((-a) - b) = m * (-a) - m * b /\ m * (-a) = -(m * a)
    BY <1>1, <1>3
  <2> QED BY <1>1, <1>2, <1>3, <2>1
<1>5. (-a) - b = 0
  <2>1. PICK d \in Int : d = (-a) - b
    BY <1>1, <1>3
  <2>2. m * d \in 0 .. m - 1
    BY <1>3, <1>4, <2>1
  <2> QED BY <2>1, <2>2, TimesSmall
<1>6. b = -a /\ m * b = g
  <2>1. b = -a
    BY <1>1, <1>3, <1>5
  <2>2. m * (-a) = -(m * a)
    BY <1>1
  <2> QED BY <1>1, <1>2, <2>1, <2>2
<1> QED BY <1>2, <1>3, <1>6

LEMMA ZoneIs ==
  ASSUME NEW o \in Offsets, o % Minute = 0
  PROVE  Zone(o) = o
<1>1. o \in Int /\ Minute \in Nat \ {0}
  BY TimestampAssumption
<1>2. CASE o >= 0
  <2>1. o \div Minute \in Int /\ o = Minute * (o \div Minute)
    BY <1>1, Divided
  <2> QED BY <1>1, <1>2, <2>1 DEF Zone
<1>3. CASE ~(o >= 0)
  <2>1. ((-o) \div Minute) * Minute = -o
    BY <1>1, NegativeDivided
  <2> QED BY <1>1, <1>3, <2>1 DEF Zone
<1> QED BY <1>2, <1>3

\* What is kept is the second it was made for, or nothing yet.
TimeInv ==
  /\ clock \in Seconds /\ local \in Offsets /\ gmtoff \in Offsets \cup {Unset}
  /\ \/ last_sec = 0 /\ buf_sec = NoText
     \/ last_sec \in Int /\ last_sec > 0 /\ buf_sec = last_sec
  /\ TextIsOfTime

LEMMA TimeInvInit == TimestampInit => TimeInv
BY DEF TimestampInit, TimeInv, TextIsOfTime

LEMMA Rfc3339Keeps ==
  ASSUME TimeInv, NEW asked \in Offsets \cup {Local}, Rfc3339(asked)
  PROVE  TimeInv'
<1> DEFINE o == IF asked = Local THEN gmtoff' ELSE asked
<1>1. gmtoff' \in Offsets \cup {Unset} /\ o \in Offsets
  BY DEF TimeInv, Rfc3339
<1>2. /\ last_sec' = IF Fresh(o) THEN last_sec ELSE clock + o
      /\ buf_sec' = IF Fresh(o) THEN buf_sec ELSE clock + o
      /\ text' = [second |-> buf_sec', zone |-> Zone(o), asked |-> o, at |-> clock]
      /\ UNCHANGED <<clock, local, cache>>
  BY DEF Rfc3339
<1> HIDE DEF o
<1>3. o \in Int /\ clock \in Int /\ clock + o \in Int /\ clock + o > 0
  BY <1>1, TimestampAssumption DEF TimeInv
<1>4. last_sec' = clock + o /\ buf_sec' = clock + o
  BY <1>2, <1>3 DEF Fresh, TimeInv
<1>5. TextIsOfTime'
  <2>1. /\ text'.second = clock + o /\ text'.zone = Zone(o)
        /\ text'.asked = o /\ text'.at = clock
    BY <1>2, <1>4
  <2>2. o % Minute = 0 => Zone(o) = o
    BY <1>1, ZoneIs
  <2> QED BY <1>3, <2>1, <2>2 DEF TextIsOfTime
<1> QED BY <1>1, <1>2, <1>3, <1>4, <1>5 DEF TimeInv

LEMMA DateMakeKeeps ==
  ASSUME TimeInv, NEW ts \in Seconds \cup {0}, DateMake(ts)
  PROVE  TimeInv'
<1>1. ts \in Int
  BY TimestampAssumption
<1>2. ts # 0 => text'.second = ts /\ text'.zone = 0 /\ text'.at = ts
  BY DEF DateMake
<1>3. text'.at = ts
  BY DEF DateMake
<1>4. TextIsOfTime'
  <2> SUFFICES ASSUME ts # 0 PROVE ts - 0 = ts
    BY <1>1, <1>2, <1>3 DEF TextIsOfTime
  <2> QED BY <1>1
<1> QED BY <1>4 DEF TimeInv, DateMake

LEMMA TimeInvNext == TimeInv /\ [TimestampNext]_timestampVars => TimeInv'
<1> SUFFICES ASSUME TimeInv, [TimestampNext]_timestampVars PROVE TimeInv'
  OBVIOUS
<1>1. ASSUME NEW s \in Seconds, NEW o \in Offsets, Passes(s, o) PROVE TimeInv'
  BY <1>1 DEF TimeInv, TextIsOfTime, Passes
<1>2. CASE UNCHANGED timestampVars
  BY <1>2 DEF TimeInv, TextIsOfTime, timestampVars
<1> QED BY <1>1, <1>2, Rfc3339Keeps, DateMakeKeeps DEF TimestampNext

\* The text that wuy_time_rfc3339() or wuy_http_date_make() returns stands for the
\* time that is meant, whatever zones and times were asked for before.
THEOREM TextTheorem == TimestampSpec => []TextIsOfTime
<1>1. TimeInv => TextIsOfTime
  BY DEF TimeInv
<1> QED BY <1>1, TimeInvInit, TimeInvNext, PTL DEF TimestampSpec

-----------------------------------------------------------------------------
(* The meter.  The tokens are the least that any period which ends with    *)
(* the last check leaves.                                                  *)

Checks == [time : Int, cost : Int, granted : BOOLEAN]

IsPaid(f, s, N) == f = [i \in 0 .. N |-> IF i = 0 THEN 0 ELSE f[i - 1] + s[i].cost]

LEMMA LeastNumber ==
  ASSUME NEW T, T \subseteq Nat, T # {}
  PROVE  \E m \in T : \A n \in T : m =< n
<1> DEFINE R == OpToRel(<, Nat)
<1>1. IsWellFoundedOn(R, Nat)
  BY NatLessThanWellFounded
<1>2. \A x, y \in Nat : x < y => <<x, y>> \in R
  BY DEF OpToRel
<1> HIDE DEF R
<1>3. PICK m \in T : \A n \in T : ~(<<n, m>> \in R)
  BY <1>1, WFMin
<1>4. \A n \in T : n \in Nat
  OBVIOUS
<1>5. \A n \in T : ~(n < m)
  BY <1>2, <1>3, <1>4
<1>6. \A n \in T : m =< n
  BY <1>4, <1>5
<1> QED BY <1>6

LEMMA PaidExists ==
  ASSUME NEW s \in Seq(Checks)
  PROVE  \A N \in 0 .. Len(s) : \E f : IsPaid(f, s, N)
<1> DEFINE Missing == {N \in 0 .. Len(s) : ~\E f : IsPaid(f, s, N)}
<1> SUFFICES ASSUME Missing # {} PROVE FALSE
  OBVIOUS
<1>0. Len(s) \in Nat
  OBVIOUS
<1>1. PICK N \in Missing : \A n \in Missing : N =< n
  <2>1. Missing \subseteq Nat
    OBVIOUS
  <2> HIDE DEF Missing
  <2> QED BY <2>1, LeastNumber
<1>2. N # 0
  <2> DEFINE f == [i \in 0 .. 0 |-> 0]
  <2>1. f = [i \in 0 .. 0 |-> IF i = 0 THEN 0 ELSE f[i - 1] + s[i].cost]
    OBVIOUS
  <2> HIDE DEF f
  <2>2. IsPaid(f, s, 0)
    BY <2>1 DEF IsPaid
  <2> QED BY <1>1, <2>2
<1>3. N \in Nat /\ N - 1 \in 0 .. Len(s) /\ ~(N =< N - 1)
  BY <1>0, <1>2
<1>4. PICK f : IsPaid(f, s, N - 1)
  BY <1>1, <1>3
<1> DEFINE e == f[N - 1] + s[N].cost
           g == [i \in 0 .. N |-> IF i = N THEN e ELSE f[i]]
<1>5. \A i \in 0 .. N - 1 : i \in 0 .. N /\ i # N /\ g[i] = f[i]
  BY <1>3
<1>6. g[N] = e
  BY <1>2, <1>3
<1> HIDE DEF e
<1>7. ASSUME NEW i \in 0 .. N PROVE g[i] = IF i = 0 THEN 0 ELSE g[i - 1] + s[i].cost
  <2>1. i # 0 => i - 1 \in 0 .. N - 1
    BY <1>3
  <2>2. CASE i = N
    BY <1>2, <1>5, <1>6, <2>1, <2>2 DEF e
  <2>3. CASE i # N
    <3>1. i \in 0 .. N - 1
      BY <1>3, <2>3
    <3>2. f[i] = IF i = 0 THEN 0 ELSE f[i - 1] + s[i].cost
      BY <1>4, <3>1 DEF IsPaid
    <3> QED BY <1>5, <2>1, <3>1, <3>2
  <2> QED BY <2>2, <2>3
<1>8. g = [i \in 0 .. N |-> g[i]]
  OBVIOUS
<1> HIDE DEF g
<1>9. IsPaid(g, s, N)
  BY <1>7, <1>8 DEF IsPaid
<1> QED BY <1>1, <1>9

LEMMA PaidIs ==
  ASSUME NEW s \in Seq(Checks)
  PROVE  /\ Paid(s)[0] = 0
         /\ \A n \in 1 .. Len(s) : Paid(s)[n] = Paid(s)[n - 1] + s[n].cost
         /\ \A n \in 0 .. Len(s) : Paid(s)[n] \in Int
<1> DEFINE f == Paid(s)
           Bad == {n \in 0 .. Len(s) : f[n] \notin Int}
<1>0. Len(s) \in Nat /\ \A n \in 1 .. Len(s) : s[n].cost \in Int
  <2>1. \A n \in 1 .. Len(s) : s[n] \in Checks
    OBVIOUS
  <2>2. \A c \in Checks : c.cost \in Int
    BY DEF Checks
  <2> QED BY <2>1, <2>2
<1>1. IsPaid(f, s, Len(s))
  <2>1. Len(s) \in 0 .. Len(s)
    BY <1>0
  <2>2. \E h : IsPaid(h, s, Len(s))
    BY <2>1, PaidExists
  <2>3. f = CHOOSE h : IsPaid(h, s, Len(s))
    BY DEF Paid, IsPaid
  <2> HIDE DEF f
  <2> QED BY <2>2, <2>3
<1> HIDE DEF f
<1>2. \A n \in 0 .. Len(s) : f[n] = IF n = 0 THEN 0 ELSE f[n - 1] + s[n].cost
  BY <1>1 DEF IsPaid
<1>3. ASSUME Bad # {} PROVE FALSE
  <2>1. PICK n \in Bad : \A k \in Bad : n =< k
    <3>1. Bad \subseteq Nat
      OBVIOUS
    <3> HIDE DEF Bad
    <3> QED BY <1>3, <3>1, LeastNumber
  <2>2. n # 0
    BY <1>2
  <2>3. n - 1 \in 0 .. Len(s) /\ n \in 1 .. Len(s) /\ ~(n =< n - 1)
    BY <1>0, <2>2
  <2>4. f[n - 1] \in Int /\ s[n].cost \in Int
    BY <1>0, <2>1, <2>3
  <2> QED BY <1>2, <2>2, <2>4
<1>4. f[0] = 0
  BY <1>0, <1>2
<1>5. \A n \in 1 .. Len(s) : f[n] = f[n - 1] + s[n].cost
  BY <1>0, <1>2
<1> QED BY <1>3, <1>4, <1>5 DEF f

LEMMA PaidAppend ==
  ASSUME NEW s \in Seq(Checks), NEW c \in Checks, NEW t, t = Append(s, c)
  PROVE  /\ \A n \in 0 .. Len(s) : Paid(t)[n] = Paid(s)[n]
         /\ Paid(t)[Len(s) + 1] = Paid(s)[Len(s)] + c.cost
<1> DEFINE N == Len(s)
           f == Paid(s)
           g == Paid(t)
           Bad == {n \in 0 .. N : g[n] # f[n]}
<1>0. /\ N \in Nat /\ t \in Seq(Checks) /\ Len(t) = N + 1 /\ t[N + 1] = c
      /\ \A n \in 1 .. N : t[n] = s[n]
  BY AppendProperties
<1>1. f[0] = 0 /\ \A n \in 1 .. N : f[n] = f[n - 1] + s[n].cost
  BY PaidIs
<1>2. g[0] = 0 /\ \A n \in 1 .. N + 1 : g[n] = g[n - 1] + t[n].cost
  BY <1>0, PaidIs
<1> HIDE DEF f, g, N
<1>3. ASSUME Bad # {} PROVE FALSE
  <2>1. PICK n \in Bad : \A k \in Bad : n =< k
    <3>1. Bad \subseteq Nat
      BY <1>0
    <3> HIDE DEF Bad
    <3> QED BY <1>3, <3>1, LeastNumber
  <2>2. n # 0
    BY <1>1, <1>2
  <2>3. n - 1 \in 0 .. N /\ n \in 1 .. N /\ n \in 1 .. N + 1 /\ ~(n =< n - 1)
    BY <1>0, <2>2
  <2>4. g[n - 1] = f[n - 1]
    BY <2>1, <2>3
  <2> QED BY <1>0, <1>1, <1>2, <2>3, <2>4
<1>4. g[N + 1] = f[N] + c.cost
  <2>1. PICK k \in 1 .. N + 1 : k = N + 1 /\ k - 1 = N
    BY <1>0
  <2>2. N \in 0 .. N
    BY <1>0
  <2>3. g[k] = g[k - 1] + t[k].cost
    BY <1>2, <2>1
  <2>4. g[N] = f[N]
    BY <1>3, <2>2
  <2> QED BY <1>0, <2>1, <2>3, <2>4
<1> QED BY <1>3, <1>4 DEF f, g, N

\* What a period that begins with check j of them and ends at the time leaves.
Leaves(seq, j, time) ==
  (Burst + Rate * (time - seq[j].time)) - (Paid(seq)[Len(seq)] - Paid(seq)[j - 1])

IsLeast(left, seq, time) ==
  /\ \A j \in 1 .. Len(seq) : left =< Leaves(seq, j, time)
  /\ \E j \in 1 .. Len(seq) : left = Leaves(seq, j, time)

MeterInv ==
  /\ now \in Int /\ now >= Start /\ reset \in Int /\ tokens \in Int /\ checks \in Seq(Checks)
  /\ checks = <<>> => reset = 0 /\ tokens = 0
  /\ checks # <<>> =>
       /\ checks[Len(checks)].time = reset
       /\ checks[Len(checks)].granted = (tokens >= 0)
       /\ IsLeast(tokens, checks, reset)

LEMMA Leaving ==
  ASSUME NEW a \in Int, NEW b \in Int, NEW c \in Int
  PROVE  Rate \in Int /\ Rate * (a - c) = Rate * (b - c) + (a - b) * Rate
BY MeterAssumption

\* The time that goes on, and the check at its end, count for all periods.
LEMMA LeavesOn ==
  ASSUME NEW s \in Seq(Checks), NEW c \in Checks, NEW t, t = Append(s, c), NEW time \in Int
  PROVE  /\ \A j \in 1 .. Len(s) : /\ Leaves(s, j, time) \in Int
                                   /\ Leaves(t, j, c.time) = Leaves(s, j, time) + (c.time - time) * Rate - c.cost
         /\ Leaves(t, Len(s) + 1, c.time) = Burst - c.cost
<1> DEFINE N == Len(s)
           f == Paid(s)
           g == Paid(t)
<1>0. /\ N \in Nat /\ t \in Seq(Checks) /\ Len(t) = N + 1 /\ t[N + 1] = c
      /\ \A n \in 1 .. N : t[n] = s[n]
  BY AppendProperties
<1>1. (\A n \in 0 .. N : g[n] = f[n] /\ f[n] \in Int) /\ g[N + 1] = f[N] + c.cost
  <2>1. \A n \in 0 .. N : f[n] \in Int
    BY PaidIs
  <2>2. (\A n \in 0 .. N : g[n] = f[n]) /\ g[N + 1] = f[N] + c.cost
    BY PaidAppend
  <2> QED BY <2>1, <2>2
<1>2. c.time \in Int /\ c.cost \in Int /\ \A j \in 1 .. N : s[j].time \in Int
  <2>1. \A n \in 1 .. N : s[n] \in Checks
    OBVIOUS
  <2>2. \A d \in Checks : d.cost \in Int /\ d.time \in Int
    BY DEF Checks
  <2> QED BY <2>1, <2>2
<1>3. Burst \in Int /\ Rate \in Int
  BY MeterAssumption
<1>4. /\ \A j : Leaves(s, j, time) = (Burst + Rate * (time - s[j].time)) - (f[N] - f[j - 1])
      /\ \A j : Leaves(t, j, c.time) = (Burst + Rate * (c.time - t[j].time)) - (g[N + 1] - g[j - 1])
  BY <1>0 DEF Leaves
<1> HIDE DEF N, f, g
<1>5. ASSUME NEW j \in 1 .. N
      PROVE  /\ Leaves(s, j, time) \in Int
             /\ Leaves(t, j, c.time) = Leaves(s, j, time) + (c.time - time) * Rate - c.cost
  <2>1. PICK u \in Int : u = s[j].time /\ u = t[j].time
    BY <1>0, <1>2
  <2>2. j - 1 \in 0 .. N /\ N \in 0 .. N
    BY <1>0
  <2>3. PICK p \in Int : p = f[j - 1] /\ p = g[j - 1]
    BY <1>1, <2>2
  <2>4. PICK q \in Int : q = f[N] /\ g[N + 1] = q + c.cost
    BY <1>1, <2>2
  <2>5. PICK ct \in Int, cc \in Int : ct = c.time /\ cc = c.cost
    BY <1>2
  <2>6. Rate * (ct - u) = Rate * (time - u) + (ct - time) * Rate
    BY Leaving
  <2>7. PICK x \in Int, y \in Int, z \in Int :
          x = Rate * (time - u) /\ y = (ct - time) * Rate /\ z = Rate * (ct - u)
    BY <1>3
  <2>8. Leaves(s, j, time) = (Burst + x) - (q - p)
    BY <1>4, <2>1, <2>3, <2>4, <2>7
  <2>9. Leaves(t, j, c.time) = (Burst + z) - ((q + cc) - p)
    BY <1>4, <2>1, <2>3, <2>4, <2>5, <2>7
  <2>10. z = x + y
    BY <2>6, <2>7
  <2>11. (Burst + z) - ((q + cc) - p) = ((Burst + x) - (q - p)) + y - cc
    BY <1>3, <2>10
  <2>12. (Burst + x) - (q - p) \in Int
    BY <1>3
  <2> QED BY <2>5, <2>7, <2>8, <2>9, <2>11, <2>12
<1>6. Leaves(t, N + 1, c.time) = Burst - c.cost
  <2>1. (N + 1) - 1 = N /\ N \in 0 .. N
    BY <1>0
  <2>2. PICK q \in Int, ct \in Int, cc \in Int : q = f[N] /\ q = g[N] /\ ct = c.time /\ cc = c.cost
    BY <1>1, <1>2, <2>1
  <2>3. Leaves(t, N + 1, c.time) = (Burst + Rate * (ct - ct)) - ((q + cc) - q)
    <3>1. t[N + 1].time = ct /\ g[N + 1] = q + cc /\ g[(N + 1) - 1] = q
      BY <1>0, <1>1, <2>1, <2>2
    <3>2. PICK k : k = N + 1
      OBVIOUS
    <3>3. Leaves(t, k, c.time) = (Burst + Rate * (c.time - t[k].time)) - (g[N + 1] - g[k - 1])
      BY <1>4
    <3> QED BY <2>2, <3>1, <3>2, <3>3
  <2>4. Rate * (ct - ct) = 0
    BY <1>3
  <2>5. (Burst + 0) - ((q + cc) - q) = Burst - cc
    BY <1>3
  <2> QED BY <2>2, <2>3, <2>4, <2>5
<1> QED BY <1>5, <1>6 DEF N

LEMMA CheckKeeps ==
  ASSUME MeterInv, NEW cost \in Costs, Check(cost)
  PROVE  MeterInv'
<1> DEFINE c == [time |-> now, cost |-> cost, granted |-> tokens' >= 0]
           N == Len(checks)
           y == (now - reset) * Rate
           b == IF tokens + y > Burst THEN Burst ELSE tokens + y
<1>1. /\ now \in Int /\ now >= Start /\ reset \in Int /\ tokens \in Int /\ checks \in Seq(Checks)
      /\ cost \in Int /\ Burst \in Int /\ Rate \in Int
  BY MeterAssumption DEF MeterInv
<1>2. tokens' = b - cost /\ reset' = now /\ checks' = Append(checks, c) /\ now' = now
  BY DEF Check, Filled
<1>3. y \in Int /\ b \in Int
  BY <1>1
<1>4. c \in Checks /\ c.time = now /\ c.cost = cost /\ c.granted = (tokens' >= 0)
  BY <1>1 DEF Checks
<1>5. PICK s \in Seq(Checks) : s = checks
  BY <1>1
<1>6. PICK d \in Checks : d = c
  BY <1>4
<1>7. PICK t : t = Append(s, d) /\ t = checks'
  BY <1>2, <1>5, <1>6
<1>8. PICK u \in Int : u = reset
  BY <1>1
<1> HIDE DEF y, b, c, N
<1>9. /\ \A j \in 1 .. N : Leaves(s, j, u) \in Int /\ Leaves(t, j, now) = Leaves(s, j, u) + y - cost
      /\ Leaves(t, N + 1, now) = Burst - cost
  <2>1. /\ \A j \in 1 .. N : Leaves(s, j, u) \in Int /\ Leaves(t, j, d.time) = Leaves(s, j, u) + (d.time - u) * Rate - d.cost
        /\ Leaves(t, N + 1, d.time) = Burst - d.cost
    <3>1. /\ \A j \in 1 .. Len(s) : /\ Leaves(s, j, u) \in Int
                                      /\ Leaves(t, j, d.time) = Leaves(s, j, u) + (d.time - u) * Rate - d.cost
          /\ Leaves(t, Len(s) + 1, d.time) = Burst - d.cost
      BY <1>7, LeavesOn
    <3>2. Len(s) = N
      BY <1>5 DEF N
    <3> QED BY <3>1, <3>2
  <2> QED BY <1>4, <1>6, <1>8, <2>1 DEF y
<1>10. /\ N \in Nat /\ t \in Seq(Checks) /\ Len(t) = N + 1 /\ t[N + 1] = d
       /\ \A j \in 1 .. N + 1 : j \in 1 .. N \/ j = N + 1
       /\ \A j \in 1 .. N : j \in 1 .. N + 1
       /\ N + 1 \in 1 .. N + 1
  <2>1. Len(s) = N /\ N \in Nat
    BY <1>5 DEF N
  <2>2. t \in Seq(Checks) /\ Len(t) = N + 1 /\ t[N + 1] = d
    <3>1. t \in Seq(Checks) /\ Len(t) = Len(s) + 1 /\ t[Len(s) + 1] = d
      <4>1. t = Append(s, d)
        BY <1>7
      <4> QED BY <4>1, AppendProperties
    <3> QED BY <2>1, <3>1
  <2> QED BY <2>1, <2>2
<1>11. IsLeast(b - cost, t, now)
  <2>1. CASE checks = <<>>
    <3>1. N = 0 /\ reset = 0 /\ tokens = 0
      BY <2>1 DEF MeterInv, N
    <3>2. y >= Burst
      <4>1. now * Rate >= Start * Rate /\ Start * Rate >= Burst
        BY <1>1, MeterAssumption
      <4>2. y = now * Rate
        BY <1>1, <3>1 DEF y
      <4> QED BY <1>1, <4>1, <4>2, MeterAssumption
    <3>3. b = Burst
      BY <1>1, <1>3, <3>1, <3>2 DEF b
    <3>4. \A j \in 1 .. N + 1 : Leaves(t, j, now) = b - cost
      BY <1>9, <1>10, <3>1, <3>3
    <3> QED BY <1>1, <1>3, <1>10, <3>4 DEF IsLeast
  <2>2. CASE checks # <<>>
    <3>1. IsLeast(tokens, s, u)
      BY <1>5, <1>8, <2>2 DEF MeterInv
    <3>2. b =< Burst /\ b =< tokens + y /\ (b = Burst \/ b = tokens + y)
      BY <1>1, <1>3 DEF b
    <3>3. \A j \in 1 .. N + 1 : b - cost =< Leaves(t, j, now)
      <4>1. ASSUME NEW j \in 1 .. N PROVE b - cost =< Leaves(t, j, now)
        <5>1. PICK x \in Int : x = Leaves(s, j, u) /\ Leaves(t, j, now) = x + y - cost
          BY <1>9
        <5>2. tokens =< x
          BY <1>5, <3>1, <5>1 DEF IsLeast, N
        <5> QED BY <1>1, <1>3, <3>2, <5>1, <5>2
      <4>2. b - cost =< Leaves(t, N + 1, now)
        BY <1>1, <1>3, <1>9, <3>2
      <4> QED BY <1>10, <4>1, <4>2
    <3>4. \E j \in 1 .. N + 1 : b - cost = Leaves(t, j, now)
      <4>1. CASE b = Burst
        <5>1. b - cost = Leaves(t, N + 1, now)
          BY <1>9, <4>1
        <5> QED BY <1>10, <5>1
      <4>2. CASE b = tokens + y
        <5>1. PICK j \in 1 .. N : tokens = Leaves(s, j, u)
          BY <1>5, <3>1 DEF IsLeast, N
        <5>2. Leaves(t, j, now) = tokens + y - cost
          BY <1>9, <5>1
        <5>3. b - cost = Leaves(t, j, now) /\ j \in 1 .. N + 1
          <6>1. j \in 1 .. N + 1
            BY <1>10
          <6>2. b - cost = Leaves(t, j, now)
            BY <1>1, <1>3, <4>2, <5>2
          <6> QED BY <6>1, <6>2
        <5> QED BY <5>3
      <4> QED BY <3>2, <4>1, <4>2
    <3> QED BY <1>10, <3>3, <3>4 DEF IsLeast
  <2> QED BY <2>1, <2>2
<1>12. /\ checks' # <<>> /\ checks'[Len(checks')].time = reset'
       /\ checks'[Len(checks')].granted = (tokens' >= 0)
  <2>1. checks' # <<>> /\ checks'[Len(checks')] = d
    BY <1>7, <1>10
  <2> QED BY <1>2, <1>4, <1>6, <2>1
<1>13. IsLeast(tokens, checks, reset)'
  <2>1. IsLeast(tokens', checks', reset')
    BY <1>2, <1>7, <1>11
  <2> QED BY <2>1 DEF IsLeast, Leaves, Paid
<1>14. tokens' \in Int /\ checks' \in Seq(Checks)
  BY <1>1, <1>2, <1>3, <1>7, <1>10
<1> QED BY <1>1, <1>2, <1>12, <1>13, <1>14 DEF MeterInv

\* A check is granted if and only if no period that ends with it has cost more than
\* a burst and what its time earns: by wuy_meter_check(), wherever the clock is set.
THEOREM MeterTheorem == MeterSpec => []GrantedAsEarned
<1>1. MeterInit => MeterInv
  BY MeterAssumption DEF MeterInit, MeterInv
<1>2. MeterInv /\ [MeterNext]_meterVars => MeterInv'
  <2> SUFFICES ASSUME MeterInv, [MeterNext]_meterVars PROVE MeterInv'
    OBVIOUS
  <2>1. ASSUME NEW t \in Start .. MaxNow, Clock(t) PROVE MeterInv'
    <3>1. t \in Int /\ t >= Start
      BY MeterAssumption
    <3>2. now' = t /\ checks' = checks /\ reset' = reset /\ tokens' = tokens
      BY <2>1 DEF Clock
    <3>3. IsLeast(tokens, checks, reset)' = IsLeast(tokens, checks, reset)
      BY <3>2 DEF IsLeast, Leaves, Paid
    <3> QED BY <3>1, <3>2, <3>3 DEF MeterInv
  <2>2. CASE UNCHANGED meterVars
    BY <2>2 DEF MeterInv, meterVars, IsLeast, Leaves, Paid
  <2> QED BY <2>1, <2>2, CheckKeeps DEF MeterNext
<1>3. MeterInv => GrantedAsEarned
  <2> SUFFICES ASSUME MeterInv, checks # <<>>
               PROVE  checks[Len(checks)].granted <=>
                        \A j \in 1 .. Len(checks) :
                          Paid(checks)[Len(checks)] - Paid(checks)[j - 1]
                            =< Burst + Rate * (checks[Len(checks)].time - checks[j].time)
    BY DEF GrantedAsEarned
  <2> DEFINE n == Len(checks)
             f == Paid(checks)
             x(j) == Burst + Rate * (reset - checks[j].time)
  <2>1. /\ checks[n].time = reset /\ checks[n].granted = (tokens >= 0)
        /\ reset \in Int /\ tokens \in Int /\ checks \in Seq(Checks) /\ IsLeast(tokens, checks, reset)
    BY DEF MeterInv
  <2>2. \A j \in 1 .. n : x(j) \in Int /\ f[n] - f[j - 1] \in Int
    <3>1. Burst \in Int /\ Rate \in Int /\ n \in Nat /\ n \in 0 .. n
      BY <2>1, MeterAssumption
    <3>2. \A j \in 1 .. n : checks[j].time \in Int
      <4>1. \A j \in 1 .. n : checks[j] \in Checks
        BY <2>1
      <4>2. \A d \in Checks : d.time \in Int
        BY DEF Checks
      <4> QED BY <4>1, <4>2
    <3>3. \A j \in 0 .. n : f[j] \in Int
      BY <2>1, PaidIs
    <3>4. ASSUME NEW j \in 1 .. n PROVE x(j) \in Int /\ f[n] - f[j - 1] \in Int
      <4>1. j - 1 \in 0 .. n
        BY <3>1
      <4>2. f[n] \in Int /\ f[j - 1] \in Int
        BY <3>1, <3>3, <4>1
      <4>3. reset - checks[j].time \in Int
        BY <2>1, <3>2
      <4>4. x(j) \in Int
        BY <3>1, <4>3
      <4> QED BY <4>2, <4>4
    <3> QED BY <3>4
  <2>3. \A j : Leaves(checks, j, reset) = x(j) - (f[n] - f[j - 1])
    BY DEF Leaves
  <2> HIDE DEF x, f, n
  <2>4. ASSUME NEW j \in 1 .. n
        PROVE  Leaves(checks, j, reset) \in Int /\ (f[n] - f[j - 1] =< x(j) <=> Leaves(checks, j, reset) >= 0)
    <3>1. PICK p \in Int, q \in Int : p = x(j) /\ q = f[n] - f[j - 1]
      BY <2>2
    <3>2. Leaves(checks, j, reset) = p - q
      BY <2>3, <3>1
    <3>3. q =< p <=> p - q >= 0
      OBVIOUS
    <3> QED BY <3>1, <3>2, <3>3
  <2>5. tokens >= 0 <=> \A j \in 1 .. n : Leaves(checks, j, reset) >= 0
    <3>1. \A j \in 1 .. n : tokens =< Leaves(checks, j, reset)
      BY <2>1 DEF IsLeast, n
    <3>2. \E j \in 1 .. n : tokens = Leaves(checks, j, reset)
      BY <2>1 DEF IsLeast, n
    <3>3. ASSUME tokens >= 0, NEW j \in 1 .. n PROVE Leaves(checks, j, reset) >= 0
      <4>1. PICK p \in Int : p = Leaves(checks, j, reset)
        BY <2>4
      <4> QED BY <2>1, <3>1, <3>3, <4>1
    <3> QED BY <3>2, <3>3
  <2>6. tokens >= 0 <=> \A j \in 1 .. n : f[n] - f[j - 1] =< x(j)
    BY <2>4, <2>5
  <2> QED BY <2>1, <2>6 DEF x, f, n
<1> QED BY <1>1, <1>2, <1>3, PTL DEF MeterSpec

-----------------------------------------------------------------------------
(* Sequences joined by FlattenSeq.                                         *)

\* What flattening the first N of them comes to.
IsFlat(ss, f, N) ==
  f = [i \in 1 .. N |-> IF i = 1 THEN ss[i] ELSE f[i - 1] \o ss[i]]

LEMMA FlatExists ==
  ASSUME NEW S, NEW ss \in Seq(Seq(S))
  PROVE  \A N \in 0 .. Len(ss) : \E f : IsFlat(ss, f, N)
<1> DEFINE Missing == {N \in 0 .. Len(ss) : ~\E f : IsFlat(ss, f, N)}
<1> SUFFICES ASSUME Missing # {} PROVE FALSE
  OBVIOUS
<1>0. Len(ss) \in Nat
  OBVIOUS
<1>1. PICK N \in Missing : \A n \in Missing : N =< n
  <2>1. Missing \subseteq Nat
    OBVIOUS
  <2> HIDE DEF Missing
  <2> QED BY <2>1, LeastNumber
<1>2. N # 0
  <2>1. <<>> = [i \in 1 .. 0 |-> IF i = 1 THEN ss[i] ELSE <<>>[i - 1] \o ss[i]]
    OBVIOUS
  <2>2. IsFlat(ss, <<>>, 0)
    BY <2>1 DEF IsFlat
  <2> QED BY <1>1, <2>2
<1>3. N \in Nat /\ N - 1 \in 0 .. Len(ss) /\ ~(N =< N - 1)
  BY <1>0, <1>2
<1>4. PICK f : IsFlat(ss, f, N - 1)
  BY <1>1, <1>3
<1> DEFINE e == IF N = 1 THEN ss[N] ELSE f[N - 1] \o ss[N]
           g == [i \in 1 .. N |-> IF i = N THEN e ELSE f[i]]
<1>5. \A i \in 1 .. N - 1 : i \in 1 .. N /\ i # N /\ g[i] = f[i]
  BY <1>3
<1>6. g[N] = e
  BY <1>2, <1>3
<1> HIDE DEF e
<1>7. ASSUME NEW i \in 1 .. N PROVE g[i] = IF i = 1 THEN ss[i] ELSE g[i - 1] \o ss[i]
  <2>1. i # 1 => i - 1 \in 1 .. N - 1
    BY <1>3
  <2>2. CASE i = N
    BY <1>5, <1>6, <2>1, <2>2 DEF e
  <2>3. CASE i # N
    <3>1. i \in 1 .. N - 1
      BY <1>3, <2>3
    <3>2. f[i] = IF i = 1 THEN ss[i] ELSE f[i - 1] \o ss[i]
      BY <1>4, <3>1 DEF IsFlat
    <3> QED BY <1>5, <2>1, <3>1, <3>2
  <2> QED BY <2>2, <2>3
<1>8. g = [i \in 1 .. N |-> g[i]]
  OBVIOUS
<1> HIDE DEF g
<1>9. IsFlat(ss, g, N)
  BY <1>7, <1>8 DEF IsFlat
<1> QED BY <1>1, <1>9

LEMMA FlatIs ==
  ASSUME NEW S, NEW ss \in Seq(Seq(S)), NEW f, IsFlat(ss, f, Len(ss))
  PROVE  /\ \A n \in 1 .. Len(ss) : f[n] \in Seq(S)
         /\ \A n \in 1 .. Len(ss) : f[n] = IF n = 1 THEN ss[n] ELSE f[n - 1] \o ss[n]
<1> DEFINE N == Len(ss)
           Bad == {n \in 1 .. N : f[n] \notin Seq(S)}
<1>0. N \in Nat /\ \A n \in 1 .. N : ss[n] \in Seq(S)
  OBVIOUS
<1>1. \A n \in 1 .. N : f[n] = IF n = 1 THEN ss[n] ELSE f[n - 1] \o ss[n]
  BY DEF IsFlat
<1>2. ASSUME Bad # {} PROVE FALSE
  <2>1. PICK n \in Bad : \A k \in Bad : n =< k
    <3>1. Bad \subseteq Nat
      OBVIOUS
    <3> HIDE DEF Bad
    <3> QED BY <1>2, <3>1, LeastNumber
  <2>2. n # 1
    BY <1>0, <1>1
  <2>3. n - 1 \in 1 .. N /\ ~(n =< n - 1)
    BY <1>0, <2>2
  <2>4. f[n - 1] \in Seq(S) /\ ss[n] \in Seq(S)
    BY <1>0, <2>1, <2>3
  <2>5. f[n] = f[n - 1] \o ss[n]
    BY <1>1, <2>2
  <2> QED BY <2>4, <2>5, ConcatProperties
<1> QED BY <1>1, <1>2

LEMMA FlatAppend ==
  ASSUME NEW S, NEW ss \in Seq(Seq(S)), NEW x \in Seq(S)
  PROVE  /\ FlattenSeq(ss) \in Seq(S)
         /\ FlattenSeq(Append(ss, x)) = FlattenSeq(ss) \o x
<1> DEFINE N == Len(ss)
           t == Append(ss, x)
           f == CHOOSE h : IsFlat(ss, h, N)
           g == CHOOSE h : IsFlat(t, h, Len(t))
<1>0. /\ N \in Nat /\ t \in Seq(Seq(S)) /\ Len(t) = N + 1 /\ t[N + 1] = x
      /\ \A n \in 1 .. N : ss[n] \in Seq(S) /\ t[n] = ss[n]
  BY AppendProperties
<1>1. IsFlat(ss, f, N) /\ IsFlat(t, g, Len(t))
  <2>1. N \in 0 .. N /\ Len(t) \in 0 .. Len(t)
    BY <1>0
  <2>2. (\E h : IsFlat(ss, h, N)) /\ (\E h : IsFlat(t, h, Len(t)))
    BY <1>0, <2>1, FlatExists
  <2> QED BY <2>2
<1>2. FlattenSeq(ss) = IF N = 0 THEN <<>> ELSE f[N]
  <2>1. N = 0 => ss = <<>>
    OBVIOUS
  <2> QED BY <2>1 DEF FlattenSeq, IsFlat
<1>3. FlattenSeq(t) = g[N + 1]
  <2>1. Len(t) # 0
    BY <1>0
  <2>2. FlattenSeq(t) = g[Len(t)]
    BY <2>1 DEF FlattenSeq, IsFlat
  <2> QED BY <1>0, <2>2
<1> HIDE DEF f, g
<1>4. /\ \A n \in 1 .. N : f[n] \in Seq(S)
      /\ \A n \in 1 .. N : f[n] = IF n = 1 THEN ss[n] ELSE f[n - 1] \o ss[n]
  BY <1>1, FlatIs
<1>5. \A n \in 1 .. N + 1 : g[n] = IF n = 1 THEN t[n] ELSE g[n - 1] \o t[n]
  BY <1>0, <1>1 DEF IsFlat
<1>6. \A n \in 1 .. N : g[n] = f[n]
  <2> DEFINE Bad == {n \in 1 .. N : g[n] # f[n]}
  <2> SUFFICES ASSUME Bad # {} PROVE FALSE
    OBVIOUS
  <2>1. PICK n \in Bad : \A k \in Bad : n =< k
    <3>1. Bad \subseteq Nat
      OBVIOUS
    <3> HIDE DEF Bad
    <3> QED BY <3>1, LeastNumber
  <2>2. n \in 1 .. N + 1 /\ t[n] = ss[n]
    BY <1>0
  <2>3. n # 1
    BY <1>4, <1>5, <2>2
  <2>4. n - 1 \in 1 .. N /\ ~(n =< n - 1)
    BY <1>0, <2>3
  <2>5. g[n - 1] = f[n - 1]
    BY <2>1, <2>4
  <2> QED BY <1>4, <1>5, <2>2, <2>3, <2>5
<1>7. CASE N = 0
  <2>1. g[1] = x
    BY <1>0, <1>5, <1>7
  <2> QED BY <1>2, <1>3, <1>7, <2>1, ConcatEmptySeq
<1>8. CASE N # 0
  <2>1. PICK k \in 1 .. N + 1 : k = N + 1 /\ k # 1 /\ k - 1 = N /\ N \in 1 .. N
    BY <1>0, <1>8
  <2>2. g[k] = g[k - 1] \o t[k]
    BY <1>5, <2>1
  <2>3. g[k] = f[N] \o x /\ f[N] \in Seq(S)
    BY <1>0, <1>4, <1>6, <2>1, <2>2
  <2> QED BY <1>2, <1>3, <1>8, <2>1, <2>3
<1> QED BY <1>7, <1>8

-----------------------------------------------------------------------------
(* base64.  The pieces of a text are all of one length, so the place of a  *)
(* letter tells its piece.                                                 *)

\* Where the elements of sequences of length k are when they are joined.
Evenly(S, ss, k) ==
  /\ FlattenSeq(ss) \in Seq(S) /\ Len(FlattenSeq(ss)) = k * Len(ss)
  /\ \A i \in 1 .. Len(ss), j \in 1 .. k : FlattenSeq(ss)[k * (i - 1) + j] = ss[i][j]

LEMMA FlatEven ==
  ASSUME NEW S, NEW ss \in Seq(Seq(S)), NEW k \in {3, 4},
         \A i \in 1 .. Len(ss) : Len(ss[i]) = k
  PROVE  Evenly(S, ss, k)
<1> DEFINE N == Len(ss)
           f == CHOOSE h : IsFlat(ss, h, N)
           Right(n) == /\ f[n] \in Seq(S) /\ Len(f[n]) = k * n
                       /\ \A i \in 1 .. n, j \in 1 .. k : f[n][k * (i - 1) + j] = ss[i][j]
           Unlike == {n \in 1 .. N : ~Right(n)}
<1>0. N \in Nat /\ \A n \in 1 .. N : ss[n] \in Seq(S) /\ Len(ss[n]) = k
  OBVIOUS
<1>1. IsFlat(ss, f, N)
  <2>1. N \in 0 .. N
    BY <1>0
  <2>2. \E h : IsFlat(ss, h, N)
    BY <2>1, FlatExists
  <2> QED BY <2>2
<1>2. FlattenSeq(ss) = IF N = 0 THEN <<>> ELSE f[N]
  <2>1. N = 0 => ss = <<>>
    OBVIOUS
  <2> QED BY <2>1 DEF FlattenSeq, IsFlat
<1> HIDE DEF f
<1>3. \A n \in 1 .. N : f[n] = IF n = 1 THEN ss[n] ELSE f[n - 1] \o ss[n]
  BY <1>1 DEF IsFlat
<1>4. ASSUME Unlike # {} PROVE FALSE
  <2>1. PICK n \in Unlike : \A m \in Unlike : n =< m
    <3>1. Unlike \subseteq Nat
      OBVIOUS
    <3> HIDE DEF Unlike
    <3> QED BY <1>4, <3>1, LeastNumber
  <2>2. n \in 1 .. N /\ ~Right(n) /\ ss[n] \in Seq(S) /\ Len(ss[n]) = k
    BY <1>0, <2>1
  <2>3. CASE n = 1
    <3>1. f[n] = ss[n]
      BY <1>3, <2>2, <2>3
    <3>2. Len(f[n]) = k * n
      BY <2>2, <2>3, <3>1
    <3>3. ASSUME NEW i \in 1 .. n, NEW j \in 1 .. k
          PROVE  f[n][k * (i - 1) + j] = ss[i][j]
      <4>1. i = n /\ k * (i - 1) + j = j
        BY <2>3
      <4> QED BY <3>1, <4>1
    <3> QED BY <2>2, <3>1, <3>2, <3>3
  <2>4. CASE n # 1
    <3>1. n - 1 \in 1 .. N /\ ~(n =< n - 1)
      <4>1. n \in 1 .. N
        BY <2>2
      <4> HIDE DEF N
      <4> QED BY <1>0, <2>4, <4>1
    <3>2. Right(n - 1)
      <4> HIDE DEF Right
      <4>1. n - 1 \notin Unlike
        BY <2>1, <3>1
      <4> QED BY <3>1, <4>1
    <3> DEFINE g == f[n - 1]
    <3>3. g \in Seq(S) /\ Len(g) = k * (n - 1)
      BY <3>2
    <3>4. \A i \in 1 .. n - 1, j \in 1 .. k : g[k * (i - 1) + j] = ss[i][j]
      BY <3>2
    <3>5. f[n] = g \o ss[n]
      BY <1>3, <2>2, <2>4
    <3> HIDE DEF g
    <3>6. /\ g \o ss[n] \in Seq(S) /\ Len(g \o ss[n]) = Len(g) + k
          /\ \A x \in 1 .. Len(g) + k :
               (g \o ss[n])[x] = IF x =< Len(g) THEN g[x] ELSE ss[n][x - Len(g)]
      <4>1. PICK t \in Seq(S) : t = ss[n] /\ Len(t) = k
        BY <2>2
      <4>2. /\ g \o t \in Seq(S) /\ Len(g \o t) = Len(g) + Len(t)
            /\ \A x \in 1 .. Len(g) + Len(t) :
                 (g \o t)[x] = IF x =< Len(g) THEN g[x] ELSE t[x - Len(g)]
        BY <3>3, ConcatProperties
      <4> QED BY <4>1, <4>2
    <3>7. Len(g) + k = k * n
      BY <2>2, <3>3
    <3>8. ASSUME NEW i \in 1 .. n, NEW j \in 1 .. k
          PROVE  f[n][k * (i - 1) + j] = ss[i][j]
      <4> DEFINE x == k * (i - 1) + j
      <4>1. x \in 1 .. Len(g) + k
        <5>1. x >= 1 /\ x \in Int
          OBVIOUS
        <5>2. i =< n /\ j =< k /\ n \in Nat
          BY <2>2
        <5>3. x =< k * n
          BY <5>2
        <5> HIDE DEF x
        <5> QED BY <3>3, <3>7, <5>1, <5>3
      <4>2. CASE i = n
        <5>1. ~(x =< Len(g)) /\ x - Len(g) = j
          BY <2>2, <3>3, <4>2
        <5> HIDE DEF x
        <5>2. (g \o ss[n])[x] = ss[n][j]
          BY <3>6, <4>1, <5>1
        <5>3. f[n][x] = ss[n][j]
          BY <3>5, <5>2
        <5> QED BY <4>2, <5>3 DEF x
      <4>3. CASE i # n
        <5>1. i \in 1 .. n - 1
          BY <2>2, <4>3
        <5>2. x =< Len(g)
          BY <2>2, <3>3, <5>1, SMTT(30)
        <5>3. g[x] = ss[i][j]
          BY <3>4, <5>1
        <5> HIDE DEF x
        <5>4. (g \o ss[n])[x] = g[x]
          BY <3>6, <4>1, <5>2
        <5>5. f[n][x] = g[x]
          BY <3>5, <5>4
        <5> QED BY <5>3, <5>5 DEF x
      <4> QED BY <4>2, <4>3
    <3> QED BY <2>2, <3>5, <3>6, <3>7, <3>8
  <2> QED BY <2>3, <2>4
<1>5. CASE N = 0
  <2>1. FlattenSeq(ss) = <<>>
    BY <1>2, <1>5
  <2> QED BY <1>5, <2>1 DEF Evenly
<1>6. CASE N # 0
  <2>1. N \in 1 .. N
    BY <1>0, <1>6
  <2>2. Right(N)
    BY <1>4, <2>1
  <2> QED BY <1>2, <1>6, <2>2 DEF Evenly
<1> QED BY <1>5, <1>6

Octets == 0 .. 255

\* w, x, y and z are the sextets of three bytes, and n is their number.
Sextets(a, b, c, w, x, y, z, n) ==
  /\ w = a \div 4
  /\ x = (a % 4) * 16 + b \div 16
  /\ y = (b % 16) * 4 + c \div 64
  /\ z = c % 64
  /\ n = ((w * 64 + x) * 64 + y) * 64 + z

LEMMA SextetsBack ==
  ASSUME NEW a \in Octets, NEW b \in Octets, NEW c \in Octets,
         NEW w, NEW x, NEW y, NEW z, NEW n, Sextets(a, b, c, w, x, y, z, n)
  PROVE  /\ w \in 0 .. 63 /\ x \in 0 .. 63 /\ y \in 0 .. 63 /\ z \in 0 .. 63
         /\ n \div 65536 = a /\ (n \div 256) % 256 = b /\ n % 256 = c
<1>0. a \in 0 .. 255 /\ b \in 0 .. 255 /\ c \in 0 .. 255
  BY DEF Octets
<1>1. a = 4 * w + (a % 4) /\ a % 4 \in 0 .. 3 /\ w \in 0 .. 63
  BY <1>0 DEF Sextets
<1>2. b = 16 * (b \div 16) + (b % 16) /\ b % 16 \in 0 .. 15 /\ b \div 16 \in 0 .. 15
  BY <1>0
<1>3. c = 64 * (c \div 64) + z /\ z \in 0 .. 63 /\ c \div 64 \in 0 .. 3
  BY <1>0 DEF Sextets
<1>4. x \in 0 .. 63 /\ y \in 0 .. 63
  <2>1. x = (a % 4) * 16 + b \div 16
    BY DEF Sextets
  <2>2. y = (b % 16) * 4 + c \div 64
    BY DEF Sextets
  <2>3. x \in 0 .. 63
    BY <1>1, <1>2, <2>1
  <2>4. y \in 0 .. 63
    <3>1. b % 16 \in 0 .. 15 /\ c \div 64 \in 0 .. 3
      BY <1>2, <1>3
    <3> QED BY <2>2, <3>1
  <2> QED BY <2>3, <2>4
<1>5. n = 65536 * a + 256 * b + c
  <2>1. x = (a % 4) * 16 + b \div 16 /\ y = (b % 16) * 4 + c \div 64
    BY DEF Sextets
  <2>2. n = ((w * 64 + x) * 64 + y) * 64 + z
    BY DEF Sextets
  <2> QED BY <1>0, <1>1, <1>2, <1>3, <2>1, <2>2
<1>6. n \div 65536 = a
  BY <1>0, <1>5
<1>7. n \div 256 = 256 * a + b
  BY <1>0, <1>5
<1>8. (256 * a + b) % 256 = b
  BY <1>0
<1>9. n % 256 = c
  BY <1>0, <1>5
<1> QED BY <1>1, <1>3, <1>4, <1>6, <1>7, <1>8, <1>9

\* A piece of bytes is decoded to itself, with 0 where it is too short, and its letters
\* tell how short.
LEMMA PieceDecoded ==
  ASSUME NEW p \in Seq(Octets), Len(p) \in {1, 2, 3}
  PROVE  LET q == EncodePiece(p)
             d == DecodePiece(q)
         IN  /\ q \in Seq(Nat) /\ Len(q) = 4
             /\ d \in Seq(Nat) /\ Len(d) = 3
             /\ \A j \in 1 .. Len(p) : d[j] = p[j]
             /\ (q[4] = Pad) = (Len(p) # 3)
             /\ (q[3] = Pad) = (Len(p) = 1)
<1> DEFINE a == p[1]
           b == IF Len(p) > 1 THEN p[2] ELSE 0
           c == IF Len(p) > 2 THEN p[3] ELSE 0
           w == a \div 4
           x == (a % 4) * 16 + b \div 16
           y == (b % 16) * 4 + c \div 64
           z == c % 64
           n == ((w * 64 + x) * 64 + y) * 64 + z
           q == EncodePiece(p)
           d == DecodePiece(q)
<1>0. Len(p) = 3 \/ Len(p) < 3
  <2>1. PICK l \in {1, 2, 3} : l = Len(p)
    OBVIOUS
  <2>2. l = 3 \/ l < 3
    OBVIOUS
  <2> QED BY <2>1, <2>2
<1>1. a \in Octets /\ b \in Octets /\ c \in Octets
  <2>1. p[1] \in Octets /\ (Len(p) > 1 => p[2] \in Octets) /\ (Len(p) > 2 => p[3] \in Octets)
    OBVIOUS
  <2> QED BY <2>1 DEF Octets
<1>4. (Len(p) = 1 => y = 0) /\ (Len(p) < 3 => z = 0)
  <2>1. Len(p) < 3 => c = 0 /\ z = 0 /\ c \div 64 = 0
    OBVIOUS
  <2>2. Len(p) = 1 => b = 0 /\ b % 16 = 0
    OBVIOUS
  <2> QED BY <2>1, <2>2
<1>3. q = <<w, x, IF Len(p) = 1 THEN Pad ELSE y, IF Len(p) < 3 THEN Pad ELSE z>>
  BY DEF EncodePiece
<1> HIDE DEF a, b, c
<1>2. /\ w \in 0 .. 63 /\ x \in 0 .. 63 /\ y \in 0 .. 63 /\ z \in 0 .. 63
      /\ n \div 65536 = a /\ (n \div 256) % 256 = b /\ n % 256 = c
  <2>1. Sextets(a, b, c, w, x, y, z, n)
    BY DEF Sextets
  <2> HIDE DEF w, x, y, z, n
  <2> QED BY <1>1, <2>1, SextetsBack
<1> HIDE DEF w, x, y, z
<1>5. q \in Seq(Nat) /\ Len(q) = 4
  BY <1>2, <1>3 DEF Pad
<1>6. /\ q[1] = w /\ q[2] = x
      /\ q[3] = IF Len(p) = 1 THEN Pad ELSE y
      /\ q[4] = IF Len(p) < 3 THEN Pad ELSE z
  BY <1>3
<1> HIDE DEF q
<1>7. Value(q[1]) = w /\ Value(q[2]) = x /\ Value(q[3]) = y /\ Value(q[4]) = z
  <2>1. w # Pad /\ x # Pad /\ y # Pad /\ z # Pad
    BY <1>2 DEF Pad
  <2>2. Value(w) = w /\ Value(x) = x /\ Value(y) = y /\ Value(z) = z /\ Value(Pad) = 0
    BY <2>1 DEF Value
  <2>3. Value(q[3]) = y
    BY <1>4, <1>6, <2>2
  <2>4. Value(q[4]) = z
    BY <1>4, <1>6, <2>2
  <2> QED BY <1>6, <2>2, <2>3, <2>4
<1>8. d = <<a, b, c>>
  <2>1. d = <<n \div 65536, (n \div 256) % 256, n % 256>>
    BY <1>7 DEF DecodePiece
  <2> HIDE DEF n, d
  <2> QED BY <1>2, <2>1
<1> HIDE DEF d, n
<1>9. d \in Seq(Nat) /\ Len(d) = 3 /\ d[1] = a /\ d[2] = b /\ d[3] = c
  BY <1>1, <1>8 DEF Octets
<1>10. \A j \in 1 .. Len(p) : d[j] = p[j]
  BY <1>9, SMTT(30) DEF a, b, c
<1>11. (q[4] = Pad) = (Len(p) # 3)
  <2>1. CASE Len(p) = 3
    <3>1. q[4] = z
      BY <1>6, <2>1
    <3>2. z # Pad
      BY <1>2 DEF Pad
    <3> QED BY <2>1, <3>1, <3>2
  <2>2. CASE Len(p) # 3
    <3>1. Len(p) < 3
      BY <1>0, <2>2
    <3>2. q[4] = Pad
      BY <1>6, <3>1
    <3> QED BY <2>2, <3>2
  <2> QED BY <2>1, <2>2
<1>12. (q[3] = Pad) = (Len(p) = 1)
  <2>1. CASE Len(p) = 1
    BY <1>6, <2>1
  <2>2. CASE Len(p) # 1
    BY <1>2, <1>6, <2>2, SMTT(30) DEF Pad
  <2> QED BY <2>1, <2>2
<1> QED BY <1>5, <1>9, <1>10, <1>11, <1>12 DEF q, d

\* The pieces of s are k elements long, but for the last one, and each is where
\* the ones before it end.
Pieced(S, s, k) ==
  /\ InPieces(s, k) \in Seq(Seq(S))
  /\ Len(InPieces(s, k)) = (Len(s) + k - 1) \div k
  /\ \A i \in 1 .. Len(InPieces(s, k)) :
       /\ Len(InPieces(s, k)[i]) = IF k * i < Len(s) THEN k ELSE Len(s) - k * (i - 1)
       /\ \A j \in 1 .. Len(InPieces(s, k)[i]) :
            InPieces(s, k)[i][j] = s[k * (i - 1) + j]

LEMMA PiecesAre ==
  ASSUME NEW S, NEW s \in Seq(S), NEW k \in {3, 4}
  PROVE  Pieced(S, s, k)
<1> DEFINE m == (Len(s) + k - 1) \div k
           to(i) == IF k * i < Len(s) THEN k * i ELSE Len(s)
           piece(i) == SubSeq(s, k * (i - 1) + 1, to(i))
<1>1. InPieces(s, k) = [i \in 1 .. m |-> piece(i)]
  BY DEF InPieces
<1>2. m \in Nat /\ k * m - Len(s) \in 0 .. k - 1 /\ Len(s) \in Nat
  OBVIOUS
<1> HIDE DEF m
<1>3. ASSUME NEW i \in 1 .. m
      PROVE  /\ piece(i) \in Seq(S)
             /\ Len(piece(i)) = IF k * i < Len(s) THEN k ELSE Len(s) - k * (i - 1)
             /\ \A j \in 1 .. Len(piece(i)) : piece(i)[j] = s[k * (i - 1) + j]
  <2> DEFINE lo == k * (i - 1) + 1
             hi == to(i)
  <2>1. i \in Nat /\ i >= 1 /\ i =< m
    OBVIOUS
  <2>2. lo \in Nat /\ lo >= 1 /\ lo - 1 = k * (i - 1)
    BY <2>1
  <2>3. hi \in Nat /\ hi =< Len(s)
    BY <1>2, <2>1
  <2>4. lo =< hi
    <3>1. CASE i = m
      BY <1>2, <2>1, <3>1
    <3>2. CASE i < m
      BY <1>2, <2>1, <3>2
    <3> QED BY <1>2, <2>1, <3>1, <3>2
  <2>5. hi - lo + 1 = IF k * i < Len(s) THEN k ELSE Len(s) - k * (i - 1)
    <3>1. CASE k * i < Len(s)
      <4>1. hi = k * i
        BY <3>1
      <4>2. k * i - (k * (i - 1) + 1) + 1 = k
        BY <2>1
      <4> QED BY <3>1, <4>1, <4>2
    <3>2. CASE ~(k * i < Len(s))
      <4>1. hi = Len(s)
        BY <3>2
      <4>2. Len(s) - (k * (i - 1) + 1) + 1 = Len(s) - k * (i - 1)
        BY <1>2, <2>1
      <4> QED BY <3>2, <4>1, <4>2
    <3> QED BY <3>1, <3>2
  <2>6. \A x \in 1 .. hi - lo + 1 : lo + x - 1 = k * (i - 1) + x
    BY <2>1
  <2> HIDE DEF lo, hi
  <2>7. \A x \in lo .. hi : x \in 1 .. Len(s) /\ s[x] \in S
    BY <2>2, <2>3
  <2>8. lo \in Int /\ hi \in Int
    BY <2>2, <2>3
  <2>9. /\ SubSeq(s, lo, hi) \in Seq(S)
        /\ Len(SubSeq(s, lo, hi)) = hi - lo + 1
        /\ \A x \in 1 .. hi - lo + 1 : SubSeq(s, lo, hi)[x] = s[lo + x - 1]
    BY <2>4, <2>7, <2>8, SubSeqProperties
  <2>10. piece(i) = SubSeq(s, lo, hi)
    BY DEF lo, hi
  <2> HIDE DEF piece
  <2> QED BY <2>5, <2>6, <2>9, <2>10
<1> HIDE DEF piece
<1>4. \A i \in 1 .. m : InPieces(s, k)[i] = piece(i)
  BY <1>1
<1>5. InPieces(s, k) \in Seq(Seq(S)) /\ Len(InPieces(s, k)) = m
  BY <1>1, <1>2, <1>3
<1>6. Len(InPieces(s, k)) = (Len(s) + k - 1) \div k
  BY <1>5 DEF m
<1>7. \A i \in 1 .. m :
        /\ Len(InPieces(s, k)[i]) = IF k * i < Len(s) THEN k ELSE Len(s) - k * (i - 1)
        /\ \A j \in 1 .. Len(InPieces(s, k)[i]) :
             InPieces(s, k)[i][j] = s[k * (i - 1) + j]
  BY <1>3, <1>4
<1> QED BY <1>5, <1>6, <1>7 DEF Pieced

\* Each piece of the text is decoded to its piece of the bytes, so that the bytes come
\* back, without what was written for the pads.
LEMMA BytesBack ==
  ASSUME NEW s \in Seq(Octets)
  PROVE  /\ Decode(Encode(s)) = s
         /\ Len(Encode(s)) = 4 * ((Len(s) + 2) \div 3)
<1> DEFINE m == (Len(s) + 2) \div 3
           ps == InPieces(s, 3)
           es == [i \in 1 .. Len(ps) |-> EncodePiece(ps[i])]
           T == Encode(s)
           qs == InPieces(T, 4)
           ds == [i \in 1 .. Len(T) \div 4 |-> DecodePiece(qs[i])]
           W == FlattenSeq(ds)
<1>1. m \in Nat /\ 3 * m - Len(s) \in 0 .. 2 /\ Len(s) \in Nat
  OBVIOUS
<1>2. /\ ps \in Seq(Seq(Octets)) /\ Len(ps) = m
      /\ \A i \in 1 .. m :
           /\ Len(ps[i]) = IF 3 * i < Len(s) THEN 3 ELSE Len(s) - 3 * (i - 1)
           /\ \A j \in 1 .. Len(ps[i]) : ps[i][j] = s[3 * (i - 1) + j]
  <2>1. 3 \in {3, 4} /\ s \in Seq(Octets)
    OBVIOUS
  <2>2. /\ ps \in Seq(Seq(Octets)) /\ Len(ps) = (Len(s) + 3 - 1) \div 3
        /\ \A i \in 1 .. Len(ps) :
             /\ Len(ps[i]) = IF 3 * i < Len(s) THEN 3 ELSE Len(s) - 3 * (i - 1)
             /\ \A j \in 1 .. Len(ps[i]) : ps[i][j] = s[3 * (i - 1) + j]
    <3>1. Pieced(Octets, s, 3)
      BY <2>1, PiecesAre
    <3> QED BY <3>1 DEF Pieced
  <2>3. (Len(s) + 3 - 1) \div 3 = m
    BY <1>1
  <2> HIDE DEF m, ps
  <2> QED BY <2>2, <2>3
<1> HIDE DEF m, ps
<1>3. \A i \in 1 .. m : ps[i] \in Seq(Octets) /\ Len(ps[i]) \in {1, 2, 3}
  <2> SUFFICES ASSUME NEW i \in 1 .. m PROVE ps[i] \in Seq(Octets) /\ Len(ps[i]) \in {1, 2, 3}
    OBVIOUS
  <2>1. ps[i] \in Seq(Octets)
    BY <1>2
  <2>2. Len(ps[i]) = IF 3 * i < Len(s) THEN 3 ELSE Len(s) - 3 * (i - 1)
    BY <1>2
  <2>3. i =< m /\ i \in Nat
    BY <1>1
  <2> QED BY <1>1, <2>1, <2>2, <2>3
<1> DEFINE e(i) == EncodePiece(ps[i])
<1>4. \A i \in 1 .. m :
        /\ e(i) \in Seq(Nat) /\ Len(e(i)) = 4
        /\ DecodePiece(e(i)) \in Seq(Nat) /\ Len(DecodePiece(e(i))) = 3
        /\ \A j \in 1 .. Len(ps[i]) : DecodePiece(e(i))[j] = ps[i][j]
        /\ (e(i)[4] = Pad) = (Len(ps[i]) # 3)
        /\ (e(i)[3] = Pad) = (Len(ps[i]) = 1)
  BY <1>3, PieceDecoded
<1> HIDE DEF e
<1>5. es \in Seq(Seq(Nat)) /\ Len(es) = m /\ \A i \in 1 .. m : es[i] = e(i)
  <2>1. es = [i \in 1 .. m |-> e(i)]
    BY <1>2 DEF e
  <2> HIDE DEF es
  <2> QED BY <1>1, <1>4, <2>1
<1>6. T = FlattenSeq(es)
  BY DEF Encode, ps
<1> HIDE DEF es, T
<1>7. /\ T \in Seq(Nat) /\ Len(T) = 4 * m
      /\ \A i \in 1 .. m, j \in 1 .. 4 : T[4 * (i - 1) + j] = e(i)[j]
  <2>1. \A i \in 1 .. Len(es) : Len(es[i]) = 4
    BY <1>4, <1>5
  <2>2. /\ FlattenSeq(es) \in Seq(Nat) /\ Len(FlattenSeq(es)) = 4 * Len(es)
        /\ \A i \in 1 .. Len(es), j \in 1 .. 4 : FlattenSeq(es)[4 * (i - 1) + j] = es[i][j]
    <3>1. 4 \in {3, 4}
      OBVIOUS
    <3>2. Evenly(Nat, es, 4)
      BY <1>5, <2>1, <3>1, FlatEven
    <3> QED BY <3>2 DEF Evenly
  <2> QED BY <1>5, <1>6, <2>2
<1>8. \A i \in 1 .. m : qs[i] = e(i)
  <2>1. (Len(T) + 4 - 1) \div 4 = m
    BY <1>1, <1>7
  <2>2. /\ qs \in Seq(Seq(Nat)) /\ Len(qs) = m
        /\ \A i \in 1 .. m :
             /\ Len(qs[i]) = IF 4 * i < Len(T) THEN 4 ELSE Len(T) - 4 * (i - 1)
             /\ \A j \in 1 .. Len(qs[i]) : qs[i][j] = T[4 * (i - 1) + j]
    <3>1. 4 \in {3, 4} /\ T \in Seq(Nat)
      BY <1>7
    <3>2. /\ qs \in Seq(Seq(Nat)) /\ Len(qs) = (Len(T) + 4 - 1) \div 4
          /\ \A i \in 1 .. Len(qs) :
               /\ Len(qs[i]) = IF 4 * i < Len(T) THEN 4 ELSE Len(T) - 4 * (i - 1)
               /\ \A j \in 1 .. Len(qs[i]) : qs[i][j] = T[4 * (i - 1) + j]
      <4>1. Pieced(Nat, T, 4)
        BY <3>1, PiecesAre
      <4> QED BY <4>1 DEF Pieced
    <3> HIDE DEF qs
    <3> QED BY <2>1, <3>2
  <2> HIDE DEF qs
  <2> SUFFICES ASSUME NEW i \in 1 .. m PROVE qs[i] = e(i)
    OBVIOUS
  <2>3. Len(qs[i]) = 4
    <3>1. i \in Nat /\ i =< m
      BY <1>1
    <3>2. Len(qs[i]) = IF 4 * i < Len(T) THEN 4 ELSE Len(T) - 4 * (i - 1)
      BY <2>2
    <3>3. Len(T) = 4 * m
      BY <1>7
    <3>4. CASE i = m
      BY <1>1, <3>1, <3>2, <3>3, <3>4
    <3>5. CASE i # m
      <4>1. 4 * i < 4 * m
        BY <1>1, <3>1, <3>5
      <4> QED BY <3>2, <3>3, <4>1
    <3> QED BY <3>4, <3>5
  <2>4. \A j \in 1 .. 4 : qs[i][j] = e(i)[j]
    BY <1>7, <2>2, <2>3, ZenonT(30)
  <2>5. qs[i] \in Seq(Nat) /\ e(i) \in Seq(Nat) /\ Len(e(i)) = 4
    BY <1>4, <2>2
  <2> QED BY <2>3, <2>4, <2>5, SeqEqual
<1> HIDE DEF qs
<1>9. ds \in Seq(Seq(Nat)) /\ Len(ds) = m /\ \A i \in 1 .. m : ds[i] = DecodePiece(e(i))
  <2>1. Len(T) \div 4 = m
    BY <1>1, <1>7
  <2>2. ds = [i \in 1 .. m |-> DecodePiece(e(i))]
    BY <1>8, <2>1
  <2> HIDE DEF ds
  <2> QED BY <1>1, <1>4, <2>2
<1> HIDE DEF ds
<1>10. /\ W \in Seq(Nat) /\ Len(W) = 3 * m
       /\ \A i \in 1 .. m, j \in 1 .. 3 : W[3 * (i - 1) + j] = DecodePiece(e(i))[j]
  <2>1. \A i \in 1 .. Len(ds) : Len(ds[i]) = 3
    BY <1>4, <1>9
  <2>2. /\ FlattenSeq(ds) \in Seq(Nat) /\ Len(FlattenSeq(ds)) = 3 * Len(ds)
        /\ \A i \in 1 .. Len(ds), j \in 1 .. 3 : FlattenSeq(ds)[3 * (i - 1) + j] = ds[i][j]
    <3>1. 3 \in {3, 4} /\ ds \in Seq(Seq(Nat))
      BY <1>9
    <3>2. Evenly(Nat, ds, 3)
      BY <2>1, <3>1, FlatEven
    <3> QED BY <3>2 DEF Evenly
  <2> QED BY <1>9, <2>2, ZenonT(30)
<1> HIDE DEF W
<1>11. ASSUME NEW x \in 1 .. Len(s) PROVE W[x] = s[x]
  <2> DEFINE i == (x + 2) \div 3
             j == x - 3 * (i - 1)
  <2>1. x = 3 * (i - 1) + j /\ j \in 1 .. 3 /\ i \in 1 .. m
    BY <1>1 DEF m
  <2> HIDE DEF i, j
  <2>2. j =< Len(ps[i])
    <3>1. Len(ps[i]) = IF 3 * i < Len(s) THEN 3 ELSE Len(s) - 3 * (i - 1)
      BY <1>2, <2>1
    <3> QED BY <1>1, <2>1, <3>1
  <2>3. j \in 1 .. Len(ps[i])
    BY <1>3, <2>1, <2>2
  <2>4. W[3 * (i - 1) + j] = DecodePiece(e(i))[j]
    BY <1>10, <2>1
  <2>5. DecodePiece(e(i))[j] = ps[i][j] /\ ps[i][j] = s[3 * (i - 1) + j]
    BY <1>2, <1>4, <2>1, <2>3
  <2> QED BY <2>1, <2>4, <2>5
<1>12. T # <<>> => Padding(T) = 3 * m - Len(s)
  <2> SUFFICES ASSUME T # <<>> PROVE Padding(T) = 3 * m - Len(s)
    OBVIOUS
  <2>1. m # 0
    BY <1>7, EmptySeq
  <2>2. m \in 1 .. m
    BY <1>1, <2>1
  <2>3. Len(ps[m]) = Len(s) - 3 * (m - 1)
    <3>1. Len(ps[m]) = IF 3 * m < Len(s) THEN 3 ELSE Len(s) - 3 * (m - 1)
      BY <1>2, <2>2
    <3>2. ~(3 * m < Len(s))
      BY <1>1
    <3> QED BY <3>1, <3>2
  <2>4. T[4 * m] = e(m)[4] /\ T[4 * m - 1] = e(m)[3]
    <3>1. T[4 * (m - 1) + 4] = e(m)[4] /\ T[4 * (m - 1) + 3] = e(m)[3]
      <4>1. \A j \in 1 .. 4 : T[4 * (m - 1) + j] = e(m)[j]
        BY <1>7, <2>2
      <4>2. 3 \in 1 .. 4 /\ 4 \in 1 .. 4
        OBVIOUS
      <4> QED BY <4>1, <4>2
    <3>2. 4 * (m - 1) + 4 = 4 * m /\ 4 * (m - 1) + 3 = 4 * m - 1
      BY <1>1
    <3> QED BY <3>1, <3>2
  <2>5. (T[4 * m] = Pad) = (Len(ps[m]) # 3) /\ (T[4 * m - 1] = Pad) = (Len(ps[m]) = 1)
    BY <1>4, <2>2, <2>4
  <2>6. Padding(T) = IF T[4 * m] # Pad THEN 0 ELSE IF T[4 * m - 1] = Pad THEN 2 ELSE 1
    BY <1>7 DEF Padding, Last
  <2>7. Len(ps[m]) \in {1, 2, 3}
    BY <1>3, <2>2
  <2>8. Padding(T) = 3 - Len(ps[m])
    <3>1. CASE Len(ps[m]) = 3
      BY <2>5, <2>6, <3>1
    <3>2. CASE Len(ps[m]) = 2
      BY <2>5, <2>6, <3>2
    <3>3. CASE Len(ps[m]) = 1
      BY <2>5, <2>6, <3>3
    <3> QED BY <2>7, <3>1, <3>2, <3>3
  <2> QED BY <1>1, <2>3, <2>8
<1>13. CASE T = <<>>
  <2>1. Len(T) = 0
    BY <1>13
  <2>2. m = 0
    BY <1>1, <1>7, <2>1
  <2>3. Len(s) = 0
    BY <1>1, <2>2
  <2>4. s = <<>>
    BY <2>3, EmptySeq
  <2>5. Decode(T) = <<>>
    BY <1>13 DEF Decode
  <2> QED BY <1>7, <2>4, <2>5 DEF T, m
<1>14. CASE T # <<>>
  <2>1. Decode(T) = SubSeq(W, 1, Len(W) - Padding(T))
    BY <1>14 DEF Decode, W, ds, qs
  <2>2. Len(W) - Padding(T) = Len(s)
    BY <1>1, <1>10, <1>12, <1>14
  <2>3. \A x \in 1 .. Len(s) : W[x] \in Octets
    BY <1>11
  <2>4. /\ SubSeq(W, 1, Len(s)) \in Seq(Octets)
        /\ Len(SubSeq(W, 1, Len(s))) = IF 1 =< Len(s) THEN Len(s) - 1 + 1 ELSE 0
        /\ \A x \in 1 .. Len(s) - 1 + 1 : SubSeq(W, 1, Len(s))[x] = W[1 + x - 1]
    BY <1>1, <2>3, SubSeqProperties
  <2>5. Len(SubSeq(W, 1, Len(s))) = Len(s)
    BY <1>1, <2>4
  <2>6. \A x \in 1 .. Len(s) : SubSeq(W, 1, Len(s))[x] = s[x]
    <3>1. \A x \in 1 .. Len(s) : x \in 1 .. Len(s) - 1 + 1 /\ 1 + x - 1 = x
      BY <1>1
    <3> QED BY <1>11, <2>4, <3>1
  <2>7. SubSeq(W, 1, Len(s)) = s
    BY <2>4, <2>5, <2>6, SeqEqual
  <2> QED BY <1>7, <2>1, <2>2, <2>7 DEF T, m
<1> QED BY <1>13, <1>14

\* What is encoded decodes to itself, for bytes of any number.
THEOREM Base64Theorem == Base64Spec => []DecodedAsEncoded
<1> DEFINE Typed == bytes \in Seq(Octets)
<1>1. Base64Init => Typed
  BY DEF Base64Init
<1>2. Typed /\ [Base64Next]_base64Vars => Typed'
  <2> SUFFICES ASSUME Typed, [Base64Next]_base64Vars PROVE Typed'
    OBVIOUS
  <2>1. CASE Base64Next
    <3>1. PICK b \in Bytes : bytes' = Append(bytes, b)
      BY <2>1 DEF Base64Next
    <3>2. b \in Octets
      BY Base64Assumption DEF Octets
    <3> QED BY <3>1, <3>2, AppendProperties
  <2>2. CASE UNCHANGED base64Vars
    BY <2>2 DEF base64Vars
  <2> QED BY <2>1, <2>2
<1>3. Typed => DecodedAsEncoded
  BY BytesBack DEF DecodedAsEncoded
<1> QED BY <1>1, <1>2, <1>3, PTL DEF Base64Spec

-----------------------------------------------------------------------------
(* The document.  What the calls have written for the containers begun, if *)
(* nothing was cut off, is Render(tree): a comma is behind each item.      *)

Chars == STRING \cup {"{", "}", "[", "]", ",", "newline"}

Containers == [kind : Kinds, name : Seq(Chars), items : Seq(Seq(Chars))]

Comma(i) == IF i = 1 THEN <<>> ELSE <<",">>

WithComma(items) == [i \in 1 .. Len(items) |-> Comma(i) \o items[i]]

Listed(items) == FlattenSeq(WithComma(items))

Open(c) ==
  (c.name \o <<Begin(c.kind)>>) \o (IF c.items = <<>> THEN <<>> ELSE Listed(c.items) \o <<",">>)

Opens(t) == [i \in 1 .. Len(t) |-> Open(t[i])]

Render(t) == FlattenSeq(Opens(t))

LEMMA SignsIn ==
  /\ <<",">> \in Seq(Chars) /\ <<>> \in Seq(Chars)
  /\ \A k \in Kinds : /\ <<Begin(k)>> \in Seq(Chars) /\ Begin(k) # "," /\ Begin(k) \in Chars
                      /\ <<End(k)>> \in Seq(Chars)
<1>1. /\ "," \in Chars
      /\ \A k \in Kinds : Begin(k) \in Chars /\ End(k) \in Chars /\ Begin(k) # ","
  BY DEF Chars, Kinds, Begin, End
<1>2. \A x \in Chars : <<x>> \in Seq(Chars)
  OBVIOUS
<1>3. <<>> \in Seq(Chars)
  OBVIOUS
<1> QED BY <1>1, <1>2, <1>3

LEMMA FirstOnes ==
  ASSUME NEW S, NEW s \in Seq(S), NEW b \in Nat, b =< Len(s)
  PROVE  /\ SubSeq(s, 1, b) \in Seq(S) /\ Len(SubSeq(s, 1, b)) = b
         /\ \A i \in 1 .. b : SubSeq(s, 1, b)[i] = s[i]
OBVIOUS

LEMMA SequenceOf ==
  ASSUME NEW S, NEW n \in Nat, NEW f \in [1 .. n -> S]
  PROVE  f \in Seq(S) /\ Len(f) = n
OBVIOUS

LEMMA WithCommaAppend ==
  ASSUME NEW items \in Seq(Seq(Chars)), NEW x \in Seq(Chars)
  PROVE  /\ WithComma(items) \in Seq(Seq(Chars))
         /\ WithComma(Append(items, x)) = Append(WithComma(items), Comma(Len(items) + 1) \o x)
<1> DEFINE N == Len(items)
           e == Append(items, x)
           w == WithComma(items)
           y == Comma(N + 1) \o x
           v == WithComma(e)
<1>0. /\ N \in Nat /\ e \in Seq(Seq(Chars)) /\ Len(e) = N + 1 /\ e[N + 1] = x
      /\ \A i \in 1 .. N : items[i] \in Seq(Chars) /\ e[i] = items[i]
  BY AppendProperties
<1>1. \A a \in Seq(Chars) : \A i : Comma(i) \o a \in Seq(Chars)
  <2>1. \A i : Comma(i) \in Seq(Chars)
    BY SignsIn DEF Comma
  <2> QED BY <2>1, ConcatProperties
<1>2. y \in Seq(Chars) /\ \A i \in 1 .. N : Comma(i) \o items[i] \in Seq(Chars)
  BY <1>0, <1>1
<1>3. w = [i \in 1 .. N |-> Comma(i) \o items[i]] /\ v = [i \in 1 .. N + 1 |-> Comma(i) \o e[i]]
  BY <1>0 DEF WithComma
<1> HIDE DEF w, v, y, e, N
<1>4. w \in [1 .. N -> Seq(Chars)] /\ \A i \in 1 .. N : w[i] = Comma(i) \o items[i]
  BY <1>2, <1>3
<1>5. \A i \in 1 .. N + 1 : i = N + 1 \/ i \in 1 .. N
  BY <1>0
<1>6. \A i \in 1 .. N : i \in 1 .. N + 1 /\ N + 1 \in 1 .. N + 1
  BY <1>0
<1>7. /\ v[N + 1] = y
      /\ \A i \in 1 .. N : v[i] = w[i]
      /\ DOMAIN v = 1 .. N + 1 /\ v = [i \in 1 .. N + 1 |-> v[i]]
  <2>1. N + 1 \in 1 .. N + 1
    BY <1>0
  <2>2. v[N + 1] = y
    BY <1>0, <1>3, <2>1 DEF y
  <2>3. \A i \in 1 .. N : v[i] = w[i]
    BY <1>0, <1>3, <1>4, <1>6
  <2> QED BY <1>3, <2>2, <2>3
<1>8. \A i \in 1 .. N + 1 : v[i] \in Seq(Chars)
  BY <1>2, <1>4, <1>5, <1>7
<1>9. v \in [1 .. N + 1 -> Seq(Chars)]
  BY <1>7, <1>8
<1>10. /\ w \in Seq(Seq(Chars)) /\ Len(w) = N
       /\ v \in Seq(Seq(Chars)) /\ Len(v) = N + 1
  <2>1. w \in Seq(Seq(Chars)) /\ Len(w) = N
    BY <1>0, <1>4, SequenceOf
  <2>2. N + 1 \in Nat
    BY <1>0
  <2>3. v \in Seq(Seq(Chars)) /\ Len(v) = N + 1
    BY <1>9, <2>2, SequenceOf
  <2> QED BY <2>1, <2>3
<1>11. /\ Append(w, y) \in Seq(Seq(Chars)) /\ Len(Append(w, y)) = N + 1 /\ Append(w, y)[N + 1] = y
       /\ \A i \in 1 .. N : Append(w, y)[i] = w[i]
  BY <1>2, <1>10, AppendProperties
<1>12. v = Append(w, y)
  <2>1. \A i \in 1 .. N + 1 : v[i] = Append(w, y)[i]
    BY <1>5, <1>7, <1>11
  <2> QED BY <1>10, <1>11, <2>1, SeqEqual
<1> QED BY <1>10, <1>12 DEF w, v, y, e, N

LEMMA ListedIs ==
  ASSUME NEW items \in Seq(Seq(Chars)), NEW x \in Seq(Chars)
  PROVE  /\ Listed(items) \in Seq(Chars)
         /\ Listed(Append(items, x)) = IF items = <<>> THEN x ELSE Listed(items) \o (<<",">> \o x)
<1> DEFINE y == Comma(Len(items) + 1) \o x
<1>0. Len(items) \in Nat /\ (items = <<>> <=> Len(items) = 0)
  OBVIOUS
<1>1. /\ items = <<>> => y = x
      /\ items # <<>> => y = <<",">> \o x
      /\ y \in Seq(Chars)
  <2>1. CASE items = <<>>
    <3>1. Comma(Len(items) + 1) = <<>>
      BY <2>1 DEF Comma
    <3> QED BY <2>1, <3>1, ConcatEmptySeq
  <2>2. CASE items # <<>>
    <3>1. Len(items) + 1 # 1
      BY <1>0, <2>2
    <3>2. Comma(Len(items) + 1) = <<",">>
      BY <3>1 DEF Comma
    <3> QED BY <2>2, <3>2, SignsIn, ConcatProperties
  <2> QED BY <2>1, <2>2
<1>2. /\ Listed(items) \in Seq(Chars)
      /\ Listed(Append(items, x)) = Listed(items) \o y
  <2>1. WithComma(items) \in Seq(Seq(Chars)) /\ WithComma(Append(items, x)) = Append(WithComma(items), y)
    BY WithCommaAppend
  <2> HIDE DEF y
  <2> QED BY <1>1, <2>1, FlatAppend DEF Listed
<1> HIDE DEF y
<1>3. CASE items = <<>>
  <2>1. WithComma(items) = <<>>
    BY <1>0, <1>3 DEF WithComma
  <2>2. Listed(items) = <<>>
    BY <2>1 DEF Listed, FlattenSeq
  <2> QED BY <1>1, <1>2, <1>3, <2>2, ConcatEmptySeq
<1>4. CASE items # <<>>
  BY <1>1, <1>2, <1>4
<1> QED BY <1>2, <1>3, <1>4

LEMMA OpenIs ==
  ASSUME NEW c \in Containers
  PROVE  Open(c) \in Seq(Chars) /\ c.name \o <<Begin(c.kind)>> \in Seq(Chars)
<1>1. c.kind \in Kinds /\ c.name \in Seq(Chars) /\ c.items \in Seq(Seq(Chars))
  BY DEF Containers
<1>2. <<",">> \in Seq(Chars) /\ <<>> \in Seq(Chars) /\ <<Begin(c.kind)>> \in Seq(Chars)
  BY <1>1, SignsIn
<1>3. c.name \o <<Begin(c.kind)>> \in Seq(Chars)
  BY <1>1, <1>2, ConcatProperties
<1>4. Listed(c.items) \in Seq(Chars)
  BY <1>1, <1>2, ListedIs
<1>5. Listed(c.items) \o <<",">> \in Seq(Chars)
  BY <1>2, <1>4, ConcatProperties
<1>6. (IF c.items = <<>> THEN <<>> ELSE Listed(c.items) \o <<",">>) \in Seq(Chars)
  BY <1>2, <1>5
<1> QED BY <1>3, <1>6, ConcatProperties DEF Open

Together(a, b, c) == (a \o b) \o c = a \o (b \o c)

\* x comes between r, a comma, and a comma.
CommaSign == <<",">>

LEMMA JoinTwice == \A a, b, c \in Seq(Chars) : Together(a, b, c)
BY DEF Together

LEMMA Regrouped ==
  ASSUME NEW a \in Seq(Chars), NEW r \in Seq(Chars), NEW x \in Seq(Chars)
  PROVE  a \o ((r \o (CommaSign \o x)) \o CommaSign) = (a \o (r \o CommaSign)) \o (x \o CommaSign)
<1>1. PICK m \in Seq(Chars) : m = CommaSign
  BY SignsIn DEF CommaSign
<1>2. PICK y \in Seq(Chars) : y = m \o x
  BY ConcatProperties
<1>3. PICK z \in Seq(Chars) : z = x \o m
  BY ConcatProperties
<1>4. PICK w \in Seq(Chars) : w = r \o m
  BY ConcatProperties
<1>5. Together(r, y, m) /\ Together(m, x, m) /\ Together(r, m, z) /\ Together(a, w, z)
  BY JoinTwice
<1> QED BY <1>1, <1>2, <1>3, <1>4, <1>5 DEF Together

LEMMA OpenAdds ==
  ASSUME NEW c \in Containers, NEW x \in Seq(Chars), NEW d, d = [c EXCEPT !.items = Append(@, x)]
  PROVE  d \in Containers /\ Open(d) = Open(c) \o (x \o <<",">>)
<1> DEFINE a == c.name \o <<Begin(c.kind)>>
           r == Listed(c.items)
           m == CommaSign
<1>1. c.items \in Seq(Seq(Chars)) /\ Append(c.items, x) \in Seq(Seq(Chars)) /\ Append(c.items, x) # <<>>
  <2>1. c.items \in Seq(Seq(Chars))
    BY DEF Containers
  <2>2. Append(c.items, x) \in Seq(Seq(Chars)) /\ Len(Append(c.items, x)) = Len(c.items) + 1
    BY <2>1, AppendProperties
  <2>3. Len(c.items) + 1 # 0
    BY <2>1
  <2> QED BY <2>1, <2>2, <2>3
<1>2. /\ d \in Containers /\ d.kind = c.kind /\ d.name = c.name
      /\ d.items = Append(c.items, x)
  BY <1>1 DEF Containers
<1>3. Open(d) = a \o (Listed(Append(c.items, x)) \o m)
  BY <1>1, <1>2 DEF Open, CommaSign
<1>4. Open(c) = a \o (IF c.items = <<>> THEN <<>> ELSE r \o m)
  BY DEF Open, CommaSign
<1>5. /\ Listed(Append(c.items, x)) = IF c.items = <<>> THEN x ELSE r \o (m \o x)
      /\ r \in Seq(Chars) /\ m \in Seq(Chars) /\ a \in Seq(Chars)
  BY <1>1, ListedIs, SignsIn, OpenIs DEF CommaSign
<1> SUFFICES Open(d) = Open(c) \o (x \o m)
  BY <1>2 DEF CommaSign
<1> HIDE DEF a, r
<1>6. CASE c.items = <<>>
  <2>1. a \o <<>> = a
    BY <1>5, ConcatEmptySeq
  <2>2. Open(c) = a
    BY <1>4, <1>6, <2>1
  <2>3. Open(d) = a \o (x \o m)
    BY <1>3, <1>5, <1>6
  <2> QED BY <2>2, <2>3
<1>7. CASE c.items # <<>>
  <2>1. a \o ((r \o (m \o x)) \o m) = (a \o (r \o m)) \o (x \o m)
    BY <1>5, Regrouped
  <2>2. Open(c) = a \o (r \o m)
    BY <1>4, <1>7
  <2>3. Open(d) = a \o ((r \o (m \o x)) \o m)
    BY <1>3, <1>5, <1>7
  <2> QED BY <2>1, <2>2, <2>3
<1> QED BY <1>6, <1>7

LEMMA OpensAppend ==
  ASSUME NEW u \in Seq(Containers), NEW c \in Containers
  PROVE  Opens(u) \in Seq(Seq(Chars)) /\ Opens(Append(u, c)) = Append(Opens(u), Open(c))
<1> DEFINE N == Len(u)
           e == Append(u, c)
           w == Opens(u)
           v == Opens(e)
           y == Open(c)
<1>0. /\ N \in Nat /\ e \in Seq(Containers) /\ Len(e) = N + 1 /\ e[N + 1] = c
      /\ \A i \in 1 .. N : u[i] \in Containers /\ e[i] = u[i]
  BY AppendProperties
<1>2. y \in Seq(Chars) /\ \A i \in 1 .. N : Open(u[i]) \in Seq(Chars)
  BY <1>0, OpenIs
<1>3. w = [i \in 1 .. N |-> Open(u[i])] /\ v = [i \in 1 .. N + 1 |-> Open(e[i])]
  BY <1>0 DEF Opens
<1> HIDE DEF w, v, y, e, N
<1>4. w \in [1 .. N -> Seq(Chars)] /\ \A i \in 1 .. N : w[i] = Open(u[i])
  BY <1>2, <1>3
<1>5. \A i \in 1 .. N + 1 : i = N + 1 \/ i \in 1 .. N
  BY <1>0
<1>6. \A i \in 1 .. N : i \in 1 .. N + 1 /\ N + 1 \in 1 .. N + 1
  BY <1>0
<1>7. /\ v[N + 1] = y
      /\ \A i \in 1 .. N : v[i] = w[i]
      /\ DOMAIN v = 1 .. N + 1 /\ v = [i \in 1 .. N + 1 |-> v[i]]
  <2>1. N + 1 \in 1 .. N + 1
    BY <1>0
  <2>2. v[N + 1] = y
    BY <1>0, <1>3, <2>1 DEF y
  <2>3. \A i \in 1 .. N : v[i] = w[i]
    BY <1>0, <1>3, <1>4, <1>6
  <2> QED BY <1>3, <2>2, <2>3
<1>8. \A i \in 1 .. N + 1 : v[i] \in Seq(Chars)
  BY <1>2, <1>4, <1>5, <1>7
<1>9. v \in [1 .. N + 1 -> Seq(Chars)]
  BY <1>7, <1>8
<1>10. /\ w \in Seq(Seq(Chars)) /\ Len(w) = N
       /\ v \in Seq(Seq(Chars)) /\ Len(v) = N + 1
  <2>1. w \in Seq(Seq(Chars)) /\ Len(w) = N
    BY <1>0, <1>4, SequenceOf
  <2>2. N + 1 \in Nat
    BY <1>0
  <2>3. v \in Seq(Seq(Chars)) /\ Len(v) = N + 1
    BY <1>9, <2>2, SequenceOf
  <2> QED BY <2>1, <2>3
<1>11. /\ Append(w, y) \in Seq(Seq(Chars)) /\ Len(Append(w, y)) = N + 1 /\ Append(w, y)[N + 1] = y
       /\ \A i \in 1 .. N : Append(w, y)[i] = w[i]
  BY <1>2, <1>10, AppendProperties
<1>12. v = Append(w, y)
  <2>1. \A i \in 1 .. N + 1 : v[i] = Append(w, y)[i]
    BY <1>5, <1>7, <1>11
  <2> QED BY <1>10, <1>11, <2>1, SeqEqual
<1> QED BY <1>10, <1>12 DEF w, v, y, e, N

LEMMA RenderAppend ==
  ASSUME NEW u \in Seq(Containers), NEW c \in Containers
  PROVE  Render(u) \in Seq(Chars) /\ Render(Append(u, c)) = Render(u) \o Open(c)
BY OpensAppend, OpenIs, FlatAppend DEF Render

LEMMA RenderEmpty == Render(<<>>) = <<>>
BY DEF Render, Opens, FlattenSeq

\* The containers begun but the last, and that.
LEMMA TreeIs ==
  ASSUME NEW t \in Seq(Containers), t # <<>>
  PROVE  /\ Front(t) \in Seq(Containers) /\ Last(t) \in Containers
         /\ t = Append(Front(t), Last(t)) /\ Len(t) \in Nat \ {0} /\ t[Len(t)] = Last(t)
         /\ Len(t) = 1 => Front(t) = <<>>
         /\ Len(t) # 1 => Front(t) # <<>>
         /\ Render(Front(t)) \in Seq(Chars)
         /\ Render(t) = Render(Front(t)) \o Open(Last(t))
<1>1. Len(t) \in Nat \ {0}
  OBVIOUS
<1>2. /\ Front(t) \in Seq(Containers) /\ Len(Front(t)) = Len(t) - 1
      /\ \A i \in 1 .. Len(t) - 1 : Front(t)[i] = t[i]
  <2>1. PICK b \in Nat : b = Len(t) - 1
    BY <1>1
  <2>2. Front(t) = SubSeq(t, 1, b)
    BY <2>1 DEF Front
  <2>3. /\ SubSeq(t, 1, b) \in Seq(Containers) /\ Len(SubSeq(t, 1, b)) = b
        /\ \A i \in 1 .. b : SubSeq(t, 1, b)[i] = t[i]
    BY <1>1, <2>1, FirstOnes
  <2> QED BY <2>1, <2>2, <2>3
<1>3. Last(t) \in Containers /\ t[Len(t)] = Last(t)
  BY <1>1 DEF Last
<1>4. t = Append(Front(t), Last(t))
  <2> DEFINE f == Front(t)
             x == Last(t)
  <2>1. f \in Seq(Containers) /\ Len(f) = Len(t) - 1 /\ x \in Containers
        /\ (\A i \in 1 .. Len(t) - 1 : f[i] = t[i]) /\ t[Len(t)] = x
    BY <1>2, <1>3
  <2> HIDE DEF f, x
  <2>2. /\ Append(f, x) \in Seq(Containers) /\ Len(Append(f, x)) = Len(t)
        /\ Append(f, x)[Len(t)] = x
        /\ \A i \in 1 .. Len(t) - 1 : Append(f, x)[i] = f[i]
    BY <1>1, <2>1, AppendProperties
  <2>3. \A i \in 1 .. Len(t) : t[i] = Append(f, x)[i]
    BY <1>1, <2>1, <2>2
  <2>4. t = Append(f, x)
    BY <2>2, <2>3, SeqEqual
  <2> QED BY <2>4 DEF f, x
<1>5. (Len(t) = 1 => Front(t) = <<>>) /\ (Len(t) # 1 => Front(t) # <<>>)
  BY <1>1, <1>2
<1> QED BY <1>1, <1>2, <1>3, <1>4, <1>5, RenderAppend

LEMMA ThisTogether ==
  ASSUME NEW a \in Seq(Chars), NEW b \in Seq(Chars), NEW c \in Seq(Chars)
  PROVE  (a \o b) \o c = a \o (b \o c)
BY JoinTwice DEF Together

\* The container begun last gets an item: it comes behind all that is written.
LEMMA RenderInto ==
  ASSUME NEW t \in Seq(Containers), t # <<>>, NEW x \in Seq(Chars)
  PROVE  /\ Into(t, x) \in Seq(Containers) /\ Into(t, x) # <<>>
         /\ Render(Into(t, x)) = Render(t) \o (x \o CommaSign)
<1> DEFINE n == Len(t)
           u == Front(t)
           c == Last(t)
           d == [c EXCEPT !.items = Append(@, x)]
           e == Into(t, x)
           o == Open(c)
           y == x \o CommaSign
           r == Render(u)
<1>1. /\ u \in Seq(Containers) /\ c \in Containers /\ t = Append(u, c)
      /\ n \in Nat \ {0} /\ t[n] = c /\ r \in Seq(Chars) /\ Render(t) = r \o o
  BY TreeIs
<1>2. Len(u) = n - 1 /\ \A i \in 1 .. n - 1 : u[i] = t[i]
  <2> HIDE DEF u, c, n
  <2>1. Len(Append(u, c)) = Len(u) + 1 /\ \A i \in 1 .. Len(u) : Append(u, c)[i] = u[i]
    BY <1>1, AppendProperties
  <2>2. n = Len(u) + 1 /\ Len(u) \in Nat
    BY <1>1, <2>1 DEF n
  <2> QED BY <1>1, <2>1, <2>2
<1>3. d \in Containers /\ Open(d) = o \o y
  BY <1>1, OpenAdds DEF CommaSign
<1>4. e = [t EXCEPT ![n] = d]
  BY <1>1 DEF Into
<1>5. o \in Seq(Chars) /\ y \in Seq(Chars)
  BY <1>1, OpenIs, SignsIn, ConcatProperties DEF CommaSign
<1> HIDE DEF n, u, c, d, e, o, y, r
<1>6. e \in Seq(Containers) /\ Len(e) = n /\ e[n] = d /\ \A i \in 1 .. n - 1 : e[i] = u[i]
  <2>1. n = Len(t)
    BY DEF n
  <2>2. e \in Seq(Containers) /\ Len(e) = n
    BY <1>1, <1>3, <1>4, <2>1
  <2>3. DOMAIN t = 1 .. n /\ n \in 1 .. n
    BY <1>1, <2>1
  <2>4. e[n] = d
    BY <1>4, <2>3
  <2>5. \A i \in 1 .. n - 1 : i \in 1 .. n /\ i # n
    BY <1>1
  <2>6. \A i \in 1 .. n - 1 : e[i] = u[i]
    BY <1>2, <1>4, <2>3, <2>5
  <2> QED BY <2>2, <2>4, <2>6
<1>7. e = Append(u, d)
  <2>1. /\ Append(u, d) \in Seq(Containers) /\ Len(Append(u, d)) = n
        /\ Append(u, d)[n] = d /\ \A i \in 1 .. n - 1 : Append(u, d)[i] = u[i]
    BY <1>1, <1>2, <1>3, AppendProperties
  <2>2. \A i \in 1 .. n : e[i] = Append(u, d)[i]
    <3>1. \A i \in 1 .. n : i = n \/ i \in 1 .. n - 1
      BY <1>1
    <3> QED BY <1>6, <2>1, <3>1
  <2> QED BY <1>6, <2>1, <2>2, SeqEqual
<1>8. Render(e) = r \o (o \o y)
  BY <1>1, <1>3, <1>7, RenderAppend DEF r
<1>9. r \o (o \o y) = (r \o o) \o y
  BY <1>1, <1>5, ThisTogether
<1>10. e # <<>>
  BY <1>1, <1>6
<1> QED BY <1>1, <1>6, <1>8, <1>9, <1>10 DEF e, y

LEMMA LastSign ==
  ASSUME NEW p \in Seq(Chars), NEW q \in Chars, NEW w, w = p \o <<q>>
  PROVE  /\ w \in Seq(Chars) /\ Len(w) = Len(p) + 1 /\ w # <<>>
         /\ Last(w) = q /\ Front(w) = p
<1>1. Len(p) \in Nat /\ <<q>> \in Seq(Chars) /\ Len(<<q>>) = 1 /\ <<q>>[1] = q
  OBVIOUS
<1>2. /\ w \in Seq(Chars) /\ Len(w) = Len(p) + 1 /\ w[Len(p) + 1] = q
      /\ \A i \in 1 .. Len(p) : w[i] = p[i]
  OBVIOUS
<1>3. w # <<>> /\ Last(w) = q
  BY <1>1, <1>2 DEF Last
<1>4. Front(w) = p
  <2>1. Front(w) = SubSeq(w, 1, Len(p))
    BY <1>1, <1>2 DEF Front
  <2>2. /\ SubSeq(w, 1, Len(p)) \in Seq(Chars) /\ Len(SubSeq(w, 1, Len(p))) = Len(p)
        /\ \A i \in 1 .. Len(p) : SubSeq(w, 1, Len(p))[i] = w[i]
    BY <1>1, <1>2, FirstOnes
  <2> QED BY <1>2, <2>1, <2>2, SeqEqual
<1> QED BY <1>2, <1>3, <1>4

\* What is written of a container and its end is the container as an item.
Regroups(r, n, b, l, e, m) ==
  (r \o ((n \o b) \o l)) \o (e \o m) = r \o ((n \o ((b \o l) \o e)) \o m)

LEMMA ClosedIs ==
  ASSUME NEW r \in Seq(Chars), NEW n \in Seq(Chars), NEW b \in Seq(Chars), NEW l \in Seq(Chars),
         NEW e \in Seq(Chars), NEW m \in Seq(Chars)
  PROVE  Regroups(r, n, b, l, e, m)
<1>1. PICK bl \in Seq(Chars) : bl = b \o l
  BY ConcatProperties
<1>2. PICK em \in Seq(Chars) : em = e \o m
  BY ConcatProperties
<1>3. PICK ble \in Seq(Chars) : ble = bl \o e
  BY ConcatProperties
<1>4. PICK nb \in Seq(Chars) : nb = n \o b
  BY ConcatProperties
<1>5. PICK nbl \in Seq(Chars) : nbl = nb \o l
  BY ConcatProperties
<1>6. /\ Together(n, ble, m) /\ Together(bl, e, m) /\ Together(n, bl, em)
      /\ Together(n, b, l) /\ Together(r, nbl, em)
  BY JoinTwice
<1>7. (n \o ble) \o m = n \o (bl \o em)
  BY <1>2, <1>3, <1>6 DEF Together
<1>8. n \o (bl \o em) = nbl \o em
  BY <1>1, <1>4, <1>5, <1>6 DEF Together
<1>9. (r \o nbl) \o em = r \o (nbl \o em)
  BY <1>6 DEF Together
<1>10. (r \o nbl) \o em = r \o ((n \o ble) \o m)
  BY <1>7, <1>8, <1>9
<1> QED BY <1>1, <1>2, <1>3, <1>4, <1>5, <1>10 DEF Regroups

Item(t) == Last(t).name \o Joined(Last(t).kind, Last(t).items)

Ended(w, kind) == (IF Last(w) = "," THEN Front(w) ELSE w) \o <<End(kind), ",">>

LEMMA TwoSigns == \A x, y : <<x, y>> = <<x>> \o <<y>>
<1> SUFFICES ASSUME NEW x, NEW y PROVE <<x, y>> = <<x>> \o <<y>>
  OBVIOUS
<1> DEFINE S == {x, y}
<1>1. <<x, y>> \in Seq(S) /\ <<x>> \in Seq(S) /\ <<y>> \in Seq(S)
  OBVIOUS
<1>2. Len(<<x, y>>) = 2 /\ <<x, y>>[1] = x /\ <<x, y>>[2] = y
  OBVIOUS
<1>3. /\ <<x>> \o <<y>> \in Seq(S) /\ Len(<<x>> \o <<y>>) = 2
      /\ (<<x>> \o <<y>>)[1] = x /\ (<<x>> \o <<y>>)[2] = y
  BY <1>1
<1> HIDE DEF S
<1>4. \A i \in 1 .. 2 : <<x, y>>[i] = (<<x>> \o <<y>>)[i]
  BY <1>2, <1>3
<1> QED BY <1>1, <1>2, <1>3, <1>4, SeqEqual

LEMMA RenderClose ==
  ASSUME NEW t \in Seq(Containers), t # <<>>
  PROVE  /\ Item(t) \in Seq(Chars)
         /\ Last(Render(t)) \in {",", Begin(Last(t).kind)}
         /\ Ended(Render(t), Last(t).kind) = Render(Front(t)) \o (Item(t) \o CommaSign)
         /\ Len(Render(t)) < Len(Ended(Render(t), Last(t).kind))
<1> DEFINE c == Last(t)
           n == c.name
           k == c.kind
           l == IF c.items = <<>> THEN <<>> ELSE Listed(c.items)
           b == <<Begin(k)>>
           e == <<End(k)>>
           m == CommaSign
           r == Render(Front(t))
           nbl == (n \o b) \o l
           stem == r \o nbl
           w == Render(t)
<1>1. c \in Containers /\ r \in Seq(Chars) /\ w = r \o Open(c)
  BY TreeIs
<1>2. c.items \in Seq(Seq(Chars)) /\ n \in Seq(Chars) /\ k \in Kinds
  BY <1>1 DEF Containers
<1>3. /\ l \in Seq(Chars) /\ b \in Seq(Chars) /\ e \in Seq(Chars) /\ m \in Seq(Chars)
      /\ Begin(k) \in Chars /\ Begin(k) # "," /\ "," \in Chars
  <2>1. \A x \in Seq(Chars) : Listed(c.items) \in Seq(Chars)
    BY <1>2, ListedIs
  <2>2. Listed(c.items) \in Seq(Chars)
    BY <2>1, SignsIn
  <2> QED BY <1>2, <2>2, SignsIn DEF CommaSign, Chars
<1>4. c.items = <<>> => Listed(c.items) = <<>>
  BY DEF Listed, WithComma, FlattenSeq
<1>5. Joined(k, c.items) = (b \o l) \o e
  <2>1. Joined(k, c.items) = (b \o Listed(c.items)) \o e
    BY DEF Joined, Listed, WithComma, Comma
  <2> QED BY <1>4, <2>1
<1>6. Item(t) = n \o ((b \o l) \o e)
  BY <1>5 DEF Item
<1>7. Open(c) = (n \o b) \o (IF c.items = <<>> THEN <<>> ELSE l \o m)
  BY DEF Open, CommaSign
<1>8. m = <<",">> /\ <<End(k), ",">> = e \o m
  <2>1. m = <<",">>
    BY DEF CommaSign
  <2>2. <<End(k), ",">> = <<End(k)>> \o <<",">>
    BY TwoSigns
  <2> QED BY <2>1, <2>2
<1>9. /\ n \o b \in Seq(Chars) /\ nbl \in Seq(Chars) /\ stem \in Seq(Chars)
      /\ e \o m \in Seq(Chars) /\ Len(e \o m) = 2 /\ Len(m) = 1
  <2>1. n \o b \in Seq(Chars)
    BY <1>2, <1>3, ConcatProperties
  <2>2. nbl \in Seq(Chars)
    BY <1>3, <2>1, ConcatProperties
  <2>3. stem \in Seq(Chars)
    BY <1>1, <2>2, ConcatProperties
  <2>4. e \o m \in Seq(Chars)
    BY <1>3, ConcatProperties
  <2>5. Len(e \o m) = 2 /\ Len(m) = 1
    BY <1>8
  <2> QED BY <2>1, <2>2, <2>3, <2>4, <2>5
<1> HIDE DEF n, k, l, b, e, m, r
<1>10. PICK nb \in Seq(Chars) : nb = n \o b
  BY <1>9
<1>11. PICK x \in Seq(Chars) : x = nb \o l
  BY <1>9, <1>10
<1>12. stem = r \o x
  BY <1>10, <1>11
<1>13. \/ Last(w) = Begin(k) /\ w = stem
       \/ Last(w) = "," /\ Front(w) = stem /\ Len(w) = Len(stem) + 1
  <2>1. ASSUME c.items = <<>> PROVE Last(w) = Begin(k) /\ w = stem
    <3>1. l = <<>>
      BY <2>1 DEF l
    <3>2. x = nb /\ Open(c) = nb
      BY <1>7, <1>10, <1>11, <2>1, <3>1, ConcatEmptySeq
    <3>3. w = stem
      BY <1>1, <1>12, <3>2
    <3>4. PICK p \in Seq(Chars) : p = r \o n
      BY <1>1, <1>2, ConcatProperties
    <3>5. Together(r, n, b)
      BY <1>1, <1>2, <1>3, JoinTwice
    <3>6. stem = p \o <<Begin(k)>>
      BY <1>10, <1>12, <3>2, <3>4, <3>5 DEF Together, b
    <3> HIDE DEF nbl, stem, w, c
    <3> QED BY <1>3, <3>3, <3>4, <3>6, LastSign
  <2>2. ASSUME c.items # <<>> PROVE Last(w) = "," /\ Front(w) = stem /\ Len(w) = Len(stem) + 1
    <3>1. w = r \o (nb \o (l \o m))
      BY <1>1, <1>7, <1>10, <2>2
    <3>2. Together(nb, l, m) /\ Together(r, x, m)
      BY <1>1, <1>3, JoinTwice
    <3>3. w = stem \o <<",">>
      BY <1>8, <1>11, <1>12, <3>1, <3>2 DEF Together
    <3> HIDE DEF nbl, stem, w, c
    <3> QED BY <1>3, <1>9, <3>3, LastSign
  <2> QED BY <2>1, <2>2
<1>14. Ended(w, k) = stem \o (e \o m)
  <2> HIDE DEF nbl, stem, w
  <2>1. (IF Last(w) = "," THEN Front(w) ELSE w) = stem
    BY <1>3, <1>13
  <2> QED BY <1>8, <2>1 DEF Ended
<1>15. Ended(w, k) = r \o (Item(t) \o m)
  <2>1. Regroups(r, n, b, l, e, m)
    BY <1>1, <1>2, <1>3, ClosedIs
  <2> QED BY <1>6, <1>14, <2>1 DEF Regroups
<1>16. Len(w) < Len(Ended(w, k))
  <2> HIDE DEF nbl, stem, w
  <2>1. Len(stem) \in Nat
    BY <1>9
  <2>2. Len(stem \o (e \o m)) = Len(stem) + Len(e \o m)
    BY <1>9, ConcatProperties
  <2>3. Len(w) < Len(stem) + 2
    <3>1. PICK a \in Nat : a = Len(stem)
      BY <2>1
    <3>2. Len(w) = a \/ Len(w) = a + 1
      BY <1>13, <3>1
    <3>3. Len(w) < a + 2
      BY <3>2
    <3> QED BY <3>1, <3>3
  <2> QED BY <1>9, <1>14, <2>2, <2>3
<1>17. Item(t) \in Seq(Chars)
  <2>1. PICK bl \in Seq(Chars) : bl = b \o l
    BY <1>3, ConcatProperties
  <2>2. PICK ble \in Seq(Chars) : ble = bl \o e
    BY <1>3, ConcatProperties
  <2>3. n \o ble \in Seq(Chars)
    BY <1>2, <2>2, ConcatProperties
  <2> QED BY <1>6, <2>1, <2>2, <2>3
<1> QED BY <1>13, <1>15, <1>16, <1>17 DEF r, m, k

-----------------------------------------------------------------------------
(* What is in the buffer is what the calls have written, as long as that   *)
(* fits; once it does not, it never does.                                  *)

Holding(r) == dumped = r \/ (Full /\ Len(r) >= bufferSize)

Started == tree = <<>> /\ dumped = <<>> /\ returned = 0

Nested == tree \in Seq(Containers) /\ tree # <<>> /\ Holding(Render(tree)) /\ returned = 0

Finished ==
  \E doc \in Seq(Chars) :
    /\ tree = <<[kind |-> "done", text |-> doc]>>
    /\ \/ returned = 0 /\ Holding(doc \o CommaSign)
       \/ IF Len(doc) + 1 < bufferSize
          THEN returned = Len(doc) + 1 /\ dumped = Append(doc, "newline")
          ELSE returned = bufferSize

JsonInv ==
  /\ bufferSize \in Nat /\ dumped \in Seq(Chars) /\ aborted = FALSE
  /\ Started \/ Nested \/ Finished

\* A step that writes x where the document goes on with x.
LEMMA BuildFits ==
  ASSUME bufferSize \in Nat, dumped \in Seq(Chars), NEW r \in Seq(Chars), Holding(r),
         NEW x \in Seq(Chars), NEW w, w = r \o x, Build(x), bufferSize' = bufferSize
  PROVE  Holding(w)' /\ dumped' \in Seq(Chars)
<1>1. /\ Len(r) \in Nat /\ Len(x) \in Nat /\ Len(dumped) \in Nat
      /\ Len(w) = Len(r) + Len(x)
  BY ConcatProperties
<1>2. CASE Full
  <2>1. dumped' = dumped
    BY <1>2 DEF Build
  <2>2. Full' /\ Len(r) >= bufferSize
    BY <1>2, <2>1 DEF Holding, Full
  <2>3. Len(w) >= bufferSize
    BY <1>1, <2>2
  <2> QED BY <2>1, <2>2, <2>3 DEF Holding
<1>3. CASE ~Full
  <2>1. dumped = r /\ dumped' = dumped \o x
    BY <1>3 DEF Build, Holding
  <2> QED BY <2>1, ConcatProperties DEF Holding
<1> QED BY <1>2, <1>3

LEMMA TextIs ==
  ASSUME NEW v \in Seq(STRING)
  PROVE  v \in Seq(Chars)
<1>1. Len(v) \in Nat /\ v \in [1 .. Len(v) -> STRING]
  OBVIOUS
<1>2. v \in [1 .. Len(v) -> Chars]
  BY <1>1 DEF Chars
<1> QED BY <1>1, <1>2, SequenceOf

LEMMA NameIs ==
  ASSUME tree \in Seq(Containers), tree # <<>>
  PROVE  /\ Name \in Seq(Chars) /\ Last(tree) \in Containers /\ Last(tree).kind \in Kinds
         /\ Render(tree) \in Seq(Chars) /\ Last(tree).kind # "done"
<1>1. Last(tree) \in Containers
  BY TreeIs
<1>2. Last(tree).kind \in Kinds /\ Last(tree).kind # "done"
  BY <1>1 DEF Containers, Kinds
<1>3. MemberKey \in Seq(Chars)
  BY JsonAssumption, TextIs
<1>4. Render(tree) \in Seq(Chars)
  <2>1. PICK u \in Seq(Containers) : u = Front(tree) /\ tree = Append(u, Last(tree))
    BY TreeIs
  <2>2. Render(u) \in Seq(Chars) /\ Render(tree) = Render(u) \o Open(Last(tree)) /\ Open(Last(tree)) \in Seq(Chars)
    BY <1>1, <2>1, TreeIs, OpenIs
  <2> QED BY <2>2, ConcatProperties
<1> QED BY <1>1, <1>2, <1>3, <1>4, SignsIn DEF Name

LEMMA BuildingIs ==
  ASSUME JsonInv, Building, tree # <<>>
  PROVE  Nested
<1>1. ASSUME Finished PROVE FALSE
  <2>1. PICK doc \in Seq(Chars) : tree = <<[kind |-> "done", text |-> doc]>>
    BY <1>1 DEF Finished
  <2>2. Len(tree) = 1 /\ tree[1].kind = "done"
    BY <2>1
  <2>3. Last(tree).kind = "done"
    BY <2>2 DEF Last
  <2> QED BY <2>3 DEF Building
<1> QED BY <1>1 DEF JsonInv, Started

LEMMA NewDocumentStep ==
  ASSUME JsonInv, NEW kind \in Kinds, NewDocument(kind)
  PROVE  JsonInv'
<1> DEFINE b == <<Begin(kind)>>
           c == [kind |-> kind, name |-> <<>>, items |-> <<>>]
<1>1. /\ tree = <<>> /\ dumped = <<>> /\ Build(b) /\ tree' = <<c>>
      /\ UNCHANGED <<bufferSize, returned, aborted>>
      /\ bufferSize \in Nat /\ aborted = FALSE
  BY DEF NewDocument, JsonInv
<1>2. returned = 0
  BY <1>1 DEF JsonInv, Started, Nested, Finished
<1>3. b \in Seq(Chars) /\ <<>> \in Seq(Chars) /\ <<>> \o b = b
  BY SignsIn, ConcatEmptySeq
<1>4. c \in Containers /\ c.name = <<>> /\ c.kind = kind /\ c.items = <<>>
  <2>1. <<>> \in Seq(Seq(Chars))
    OBVIOUS
  <2> QED BY <1>3, <2>1 DEF Containers
<1>5. Open(c) = b
  <2>1. Open(c) = (<<>> \o b) \o <<>>
    BY <1>4 DEF Open
  <2> HIDE DEF b
  <2> QED BY <1>3, <2>1, ConcatEmptySeq
<1> HIDE DEF b, c
<1>6. <<c>> \in Seq(Containers) /\ <<c>> # <<>> /\ Append(<<>>, c) = <<c>>
  BY <1>4
<1>7. Render(<<c>>) = <<>> \o b
  <2>1. <<>> \in Seq(Containers)
    OBVIOUS
  <2>2. Render(Append(<<>>, c)) = <<>> \o Open(c)
    BY <1>4, <2>1, RenderAppend, RenderEmpty
  <2> QED BY <1>5, <1>6, <2>2
<1>8. Holding(<<>>)
  BY <1>1 DEF Holding
<1> DEFINE w == Render(<<c>>)
<1>9. w = <<>> \o b
  BY <1>7
<1> HIDE DEF w
<1>10. Holding(w)' /\ dumped' \in Seq(Chars)
  BY <1>1, <1>3, <1>8, <1>9, BuildFits
<1>11. Holding(Render(tree))'
  BY <1>1, <1>10 DEF w, Holding, Full
<1>12. Nested'
  BY <1>1, <1>2, <1>6, <1>11 DEF Nested
<1> QED BY <1>1, <1>10, <1>12 DEF JsonInv

LEMMA ScalarStep ==
  ASSUME JsonInv, Building, NEW v \in Scalars, Scalar(v)
  PROVE  JsonInv'
<1> DEFINE x == Name \o v
           t == Into(tree, x)
<1>1. /\ tree # <<>> /\ Build((Name \o v) \o <<",">>) /\ tree' = t
      /\ UNCHANGED <<bufferSize, returned, aborted>>
      /\ bufferSize \in Nat /\ aborted = FALSE /\ dumped \in Seq(Chars)
  BY DEF Scalar, JsonInv
<1>2. Nested
  BY <1>1, BuildingIs
<1>3. tree \in Seq(Containers) /\ Holding(Render(tree)) /\ returned = 0
  BY <1>2 DEF Nested
<1>4. Name \in Seq(Chars) /\ v \in Seq(Chars) /\ Render(tree) \in Seq(Chars)
  <2>1. v \in Seq(Chars)
    BY JsonAssumption, TextIs
  <2> QED BY <1>1, <1>3, <2>1, NameIs
<1>5. x \in Seq(Chars)
  BY <1>4, ConcatProperties
<1>6. Build(x \o CommaSign)
  BY <1>1 DEF CommaSign
<1> HIDE DEF x
<1>7. t \in Seq(Containers) /\ t # <<>> /\ Render(t) = Render(tree) \o (x \o CommaSign)
  BY <1>1, <1>3, <1>5, RenderInto
<1>8. PICK y \in Seq(Chars) : y = x \o CommaSign
  BY <1>5, SignsIn, ConcatProperties DEF CommaSign
<1>9. PICK r \in Seq(Chars) : r = Render(tree)
  BY <1>4
<1>10. PICK w : w = Render(t)
  OBVIOUS
<1> HIDE DEF t
<1>11. Holding(Render(tree))'
  <2>1. Holding(r) /\ w = r \o y /\ Build(y) /\ bufferSize' = bufferSize
    BY <1>1, <1>3, <1>6, <1>7, <1>8, <1>9, <1>10
  <2>2. Holding(w)'
    BY <1>1, <2>1, BuildFits
  <2> QED BY <1>1, <1>10, <2>2 DEF Holding, Full
<1>13. dumped' \in Seq(Chars)
  BY <1>1, <1>3, <1>6, <1>8, <1>9, BuildFits
<1>12. Nested'
  BY <1>1, <1>3, <1>7, <1>11 DEF Nested
<1> QED BY <1>1, <1>12, <1>13 DEF JsonInv

LEMMA NestStep ==
  ASSUME JsonInv, Building, NEW kind \in Kinds, Nest(kind)
  PROVE  JsonInv'
<1> DEFINE b == <<Begin(kind)>>
           y == Name \o b
           c == [kind |-> kind, name |-> Name, items |-> <<>>]
           t == Append(tree, c)
<1>1. /\ tree # <<>> /\ Build(y) /\ tree' = t
      /\ UNCHANGED <<bufferSize, returned, aborted>>
      /\ bufferSize \in Nat /\ aborted = FALSE /\ dumped \in Seq(Chars)
  BY DEF Nest, JsonInv
<1>2. Nested
  BY <1>1, BuildingIs
<1>3. tree \in Seq(Containers) /\ Holding(Render(tree)) /\ returned = 0
  BY <1>2 DEF Nested
<1>4. Name \in Seq(Chars) /\ b \in Seq(Chars) /\ Render(tree) \in Seq(Chars)
  BY <1>1, <1>3, NameIs, SignsIn
<1>5. y \in Seq(Chars)
  BY <1>4, ConcatProperties
<1>6. c \in Containers /\ c.kind = kind /\ c.name = Name /\ c.items = <<>>
  <2>1. <<>> \in Seq(Seq(Chars))
    OBVIOUS
  <2> QED BY <1>4, <2>1 DEF Containers
<1>7. Open(c) = y
  <2>1. Open(c) = y \o <<>>
    BY <1>6 DEF Open
  <2> HIDE DEF y
  <2> QED BY <1>5, <2>1, ConcatEmptySeq
<1> HIDE DEF y, b, c
<1>8. t \in Seq(Containers) /\ t # <<>>
  <2>1. t \in Seq(Containers) /\ Len(t) = Len(tree) + 1 /\ Len(tree) \in Nat
    BY <1>3, <1>6, AppendProperties
  <2> QED BY <2>1
<1>9. PICK r \in Seq(Chars) : r = Render(tree)
  BY <1>4
<1>10. PICK w : w = Render(t)
  OBVIOUS
<1>11. w = r \o y
  BY <1>3, <1>6, <1>7, <1>9, <1>10, RenderAppend
<1> HIDE DEF t
<1>12. PICK x \in Seq(Chars) : x = y
  BY <1>5
<1>13. Holding(r) /\ w = r \o x /\ Build(x) /\ bufferSize' = bufferSize
  BY <1>1, <1>3, <1>9, <1>11, <1>12
<1>14. Holding(w)' /\ dumped' \in Seq(Chars)
  BY <1>1, <1>13, BuildFits
<1>15. Nested'
  <2>1. Holding(Render(tree))'
    BY <1>1, <1>10, <1>14 DEF Holding, Full
  <2> QED BY <1>1, <1>3, <1>8, <2>1 DEF Nested
<1> QED BY <1>1, <1>14, <1>15 DEF JsonInv

LEMMA CloseStep ==
  ASSUME JsonInv, Building, Close
  PROVE  JsonInv'
<1> DEFINE k == Last(tree).kind
           x == Item(tree)
           f == Front(tree)
           r == Render(tree)
           w == Render(f) \o (x \o CommaSign)
<1>1. /\ tree # <<>> /\ UNCHANGED <<bufferSize, returned>>
      /\ bufferSize \in Nat /\ aborted = FALSE /\ dumped \in Seq(Chars)
      /\ \/ Full /\ UNCHANGED <<dumped, aborted>>
         \/ ~Full /\ IF Last(dumped) \in {",", Begin(k)}
                     THEN dumped' = Ended(dumped, k) /\ UNCHANGED aborted
                     ELSE aborted' = TRUE /\ UNCHANGED dumped
      /\ tree' = IF Len(tree) = 1 THEN <<[kind |-> "done", text |-> x]>> ELSE Into(f, x)
  BY DEF Close, JsonInv, Closed, Ended, Item
<1>2. Nested
  BY <1>1, BuildingIs
<1>3. tree \in Seq(Containers) /\ Holding(Render(tree)) /\ returned = 0
  BY <1>2 DEF Nested
<1>4. /\ x \in Seq(Chars) /\ Last(r) \in {",", Begin(k)} /\ Ended(r, k) = w /\ Len(r) < Len(w)
  BY <1>1, <1>3, RenderClose
<1>5. /\ f \in Seq(Containers)
      /\ Len(tree) = 1 => f = <<>>
      /\ Len(tree) # 1 => f # <<>>
      /\ Render(f) \in Seq(Chars) /\ r \in Seq(Chars)
  BY <1>1, <1>3, TreeIs, NameIs
<1>6. x \o CommaSign \in Seq(Chars)
  BY <1>4, SignsIn, ConcatProperties DEF CommaSign
<1>7. w \in Seq(Chars)
  BY <1>5, <1>6, ConcatProperties
<1>8. Len(r) \in Nat /\ Len(w) \in Nat
  BY <1>5, <1>7
<1> HIDE DEF k, x, f, r, w
<1>9. PICK q \in Seq(Chars) : q = w
  BY <1>7
<1>10. PICK doc \in Seq(Chars) : doc = x
  BY <1>4
<1>11. Holding(q)' /\ dumped' \in Seq(Chars) /\ aborted' = FALSE
  <2>0. bufferSize \in Nat /\ bufferSize' = bufferSize /\ dumped \in Seq(Chars) /\ aborted = FALSE
    BY <1>1
  <2>1. CASE Full
    <3>1. dumped' = dumped /\ aborted' = FALSE
      BY <1>1, <2>1
    <3>2. Full' /\ Len(r) >= bufferSize
      BY <2>0, <1>3, <2>1, <3>1 DEF Full, Holding, r
    <3>3. Len(q) >= bufferSize
      <4>1. Len(r) < Len(w) /\ bufferSize \in Nat
        BY <1>4, <2>0
      <4>2. Len(w) >= bufferSize
        BY <1>8, <3>2, <4>1
      <4> QED BY <1>9, <4>2
    <3>4. Holding(q)'
      BY <2>0, <3>2, <3>3 DEF Holding
    <3> QED BY <2>0, <3>1, <3>4
  <2>2. CASE ~Full
    <3>1. dumped = r
      BY <1>3, <2>2 DEF Holding, r
    <3>2. dumped' = w /\ aborted' = FALSE
      BY <1>1, <1>4, <2>2, <3>1
    <3>3. dumped' = q
      BY <1>9, <3>2
    <3> QED BY <3>2, <3>3 DEF Holding
  <2> QED BY <2>1, <2>2
<1>12. CASE Len(tree) = 1
  <2>1. w = x \o CommaSign
    <3>1. Render(f) = <<>>
      BY <1>5, <1>12, RenderEmpty
    <3> QED BY <1>6, <3>1, ConcatEmptySeq DEF w
  <2>2. tree' = <<[kind |-> "done", text |-> doc]>>
    BY <1>1, <1>10, <1>12
  <2>3. q = doc \o CommaSign
    BY <1>9, <1>10, <2>1
  <2>4. Holding(doc \o CommaSign)'
    BY <1>11, <2>3
  <2>5. Finished'
    BY <1>1, <1>3, <2>2, <2>4 DEF Finished
  <2> QED BY <1>1, <1>11, <2>5 DEF JsonInv
<1>13. CASE Len(tree) # 1
  <2>1. tree' = Into(f, x)
    BY <1>1, <1>13
  <2>2. Into(f, x) \in Seq(Containers) /\ Into(f, x) # <<>> /\ Render(Into(f, x)) = w
    BY <1>4, <1>5, <1>13, RenderInto DEF w
  <2>3. tree' \in Seq(Containers) /\ tree' # <<>> /\ Render(tree') = q
    BY <1>9, <2>1, <2>2
  <2>4. Holding(Render(tree))'
    BY <1>11, <2>3 DEF Holding
  <2>5. Nested'
    BY <1>1, <1>3, <2>3, <2>4 DEF Nested
  <2> QED BY <1>1, <1>11, <2>5 DEF JsonInv
<1> QED BY <1>12, <1>13

LEMMA DoneStep ==
  ASSUME JsonInv, Done
  PROVE  JsonInv'
<1>1. /\ tree # <<>> /\ Last(tree).kind = "done" /\ returned = 0
      /\ UNCHANGED <<bufferSize, tree>>
      /\ bufferSize \in Nat /\ aborted = FALSE /\ dumped \in Seq(Chars)
      /\ \/ Full /\ returned' = bufferSize /\ UNCHANGED <<dumped, aborted>>
         \/ ~Full /\ IF Last(dumped) = ","
                     THEN /\ dumped' = Append(Front(dumped), "newline")
                          /\ returned' = Len(dumped) /\ UNCHANGED aborted
                     ELSE aborted' = TRUE /\ UNCHANGED <<dumped, returned>>
  BY DEF Done, JsonInv
<1>2. Finished
  <2>1. ~Nested
    BY <1>1, NameIs DEF Nested
  <2> QED BY <1>1, <2>1 DEF JsonInv, Started
<1>3. PICK doc \in Seq(Chars) :
        /\ tree = <<[kind |-> "done", text |-> doc]>>
        /\ \/ returned = 0 /\ Holding(doc \o CommaSign)
           \/ IF Len(doc) + 1 < bufferSize
              THEN returned = Len(doc) + 1 /\ dumped = Append(doc, "newline")
              ELSE returned = bufferSize
  BY <1>2 DEF Finished
<1>4. PICK w : w = doc \o CommaSign
  OBVIOUS
<1>5. w \in Seq(Chars) /\ Len(w) = Len(doc) + 1 /\ Last(w) = "," /\ Front(w) = doc /\ Len(doc) \in Nat
  <2>1. PICK q \in Chars : q = ","
    BY DEF Chars
  <2>2. w = doc \o <<q>>
    BY <1>4, <2>1 DEF CommaSign
  <2>3. w \in Seq(Chars) /\ Len(w) = Len(doc) + 1 /\ Last(w) = q /\ Front(w) = doc
    BY <2>2, LastSign
  <2>4. Len(doc) \in Nat
    OBVIOUS
  <2> QED BY <2>1, <2>3, <2>4
<1>0. bufferSize \in Nat /\ Len(dumped) \in Nat
  <2>1. bufferSize \in Nat /\ dumped \in Seq(Chars)
    BY <1>1
  <2> QED BY <2>1
<1> DEFINE n == Len(doc)
<1>8. n \in Nat /\ Len(w) = n + 1
  BY <1>5
<1>6. CASE Full
  <2>1. /\ dumped' = dumped /\ aborted' = FALSE /\ returned' = bufferSize /\ bufferSize' = bufferSize
        /\ tree' = tree
    BY <1>1, <1>6
  <2>2. ~(Len(doc) + 1 < bufferSize)
    <3>1. Len(dumped) >= bufferSize
      BY <1>6 DEF Full
    <3>2. CASE Holding(w)
      <4>1. Len(w) >= bufferSize
        BY <3>1, <3>2 DEF Holding
      <4> HIDE DEF n
      <4>2. ~(n + 1 < bufferSize)
        BY <1>0, <1>8, <4>1
      <4> QED BY <4>2 DEF n
    <3>3. CASE ~Holding(w)
      <4>1. ~(returned = 0 /\ Holding(doc \o CommaSign))
        BY <1>4, <3>3
      <4>2. returned = 0
        BY <1>1
      <4>3. IF Len(doc) + 1 < bufferSize
            THEN returned = Len(doc) + 1 /\ dumped = Append(doc, "newline")
            ELSE returned = bufferSize
        BY <1>3, <4>1
      <4>4. n + 1 < bufferSize => returned = n + 1
        BY <4>3
      <4> HIDE DEF n
      <4>5. ~(n + 1 < bufferSize)
        BY <1>8, <4>2, <4>4
      <4> QED BY <4>5 DEF n
    <3> QED BY <3>2, <3>3
  <2>3. Finished'
    BY <1>1, <1>3, <2>1, <2>2 DEF Finished
  <2> QED BY <1>1, <2>1, <2>3 DEF JsonInv
<1>7. CASE ~Full
  <2>0. Len(dumped) < bufferSize
    BY <1>0, <1>7 DEF Full
  <2>1. Holding(w)
    <3>1. returned = 0
      BY <1>1
    <3>2. ~(IF Len(doc) + 1 < bufferSize
            THEN returned = Len(doc) + 1 /\ dumped = Append(doc, "newline")
            ELSE returned = bufferSize)
      <4>1. n + 1 # 0 /\ bufferSize # 0
        <5> HIDE DEF n
        <5> QED BY <1>0, <1>8, <2>0
      <4> QED BY <3>1, <4>1
    <3> QED BY <1>3, <1>4, <3>2
  <2>2. dumped = w
    BY <1>7, <2>1 DEF Holding
  <2>3. /\ dumped' = Append(doc, "newline") /\ returned' = Len(doc) + 1 /\ aborted' = FALSE
        /\ bufferSize' = bufferSize /\ tree' = tree
    BY <1>1, <1>5, <1>7, <2>2
  <2>4. Len(doc) + 1 < bufferSize
    BY <1>0, <1>5, <2>0, <2>2
  <2>5. dumped' \in Seq(Chars)
    BY <2>3, AppendProperties DEF Chars
  <2>6. Finished'
    BY <1>1, <1>3, <2>3, <2>4 DEF Finished
  <2> QED BY <1>1, <2>3, <2>5, <2>6 DEF JsonInv
<1> QED BY <1>6, <1>7

\* A document that is finished is the items in their containers with commas only
\* between them, or is reported as not having fit; and no call of wuy_json.h aborts.
THEOREM JsonTheorem == JsonSpec => []DumpedAsBuilt
<1>1. JsonInit => JsonInv
  BY JsonAssumption DEF JsonInit, JsonInv, Started
<1>2. JsonInv /\ [JsonNext]_jsonVars => JsonInv'
  <2> SUFFICES ASSUME JsonInv, [JsonNext]_jsonVars PROVE JsonInv'
    OBVIOUS
  <2>1. CASE JsonNext
    BY <2>1, NewDocumentStep, ScalarStep, NestStep, CloseStep, DoneStep DEF JsonNext
  <2>2. CASE UNCHANGED jsonVars
    <3>1. /\ bufferSize' = bufferSize /\ dumped' = dumped /\ returned' = returned
          /\ aborted' = aborted /\ tree' = tree
      BY <2>2 DEF jsonVars
    <3>2. (Started \/ Nested \/ Finished)'
      BY <3>1 DEF JsonInv, Started, Nested, Finished, Holding, Full
    <3> QED BY <3>1, <3>2 DEF JsonInv
  <2> QED BY <2>1, <2>2
<1>3. JsonInv => DumpedAsBuilt
  <2> SUFFICES ASSUME JsonInv, returned # 0
               PROVE  LET document == Append(tree[1].text, "newline")
                      IN  IF Len(document) < bufferSize
                          THEN returned = Len(document) /\ dumped = document
                          ELSE returned = bufferSize
    BY DEF JsonInv, DumpedAsBuilt
  <2>1. Finished
    BY DEF JsonInv, Started, Nested
  <2>2. PICK doc \in Seq(Chars) :
          /\ tree = <<[kind |-> "done", text |-> doc]>>
          /\ IF Len(doc) + 1 < bufferSize
             THEN returned = Len(doc) + 1 /\ dumped = Append(doc, "newline")
             ELSE returned = bufferSize
    BY <2>1 DEF Finished
  <2>3. tree[1].text = doc
    BY <2>2
  <2>4. Len(Append(doc, "newline")) = Len(doc) + 1
    <3>1. PICK q \in Chars : q = "newline"
      BY DEF Chars
    <3>2. Len(Append(doc, q)) = Len(doc) + 1
      BY AppendProperties
    <3> QED BY <3>1, <3>2
  <2> QED BY <2>2, <2>3, <2>4
<1> QED BY <1>1, <1>2, <1>3, PTL DEF JsonSpec
-----------------------------------------------------------------------------
(* The pieces of a pool share no byte, whatever its block size, the sizes  *)
(* and the alignments asked for: as long as half a block fits behind the   *)
(* header of one, and a note of a big allocation is below half a block     *)
(* (PoolAssumption).  And destroying it frees everything once, and nothing *)
(* that is needed yet.                                                     *)
(*                                                                         *)
(* Separate says of each piece that it lies behind the earlier ones of its *)
(* block.  It is kept because the offset is behind all of the head block   *)
(* (Carved), and because a new block is one that has no pieces yet.        *)
(* DestroyFreesAll rests on what the memory that calloc() gave is, Owned,  *)
(* and on where the notes are, NotesKept.                                  *)

Pieces == [block : Nat, from : Nat, size : Nat]

\* The piece ends at the offset or before, if it is in the head block.
BeforeOffset(p) ==
  doing = "open" /\ blocks # <<>> /\ p.block = blocks[1] => p.from + p.size =< offset

Carved ==
  /\ blockSize \in BlockSizes /\ given \in Nat /\ offset \in Nat
  /\ blocks \in Seq(Nat) /\ pieces \in Seq(Pieces)
  /\ doing = "open" /\ blocks # <<>> => BlockHeader =< offset
  /\ \A k \in DOMAIN blocks : blocks[k] =< given
  /\ \A k \in DOMAIN pieces : pieces[k].block =< given /\ BeforeOffset(pieces[k])

CarvedSeparate == Carved /\ Separate

\* Rounding up does not round down.
LEMMA RoundUpBounds ==
  ASSUME NEW n \in Nat, NEW align \in Nat \ {0}
  PROVE  RoundUp(n, align) \in Nat /\ RoundUp(n, align) >= n
<1>1. n % align \in Nat /\ n % align < align OBVIOUS
<1> QED BY <1>1 DEF RoundUp

\* A piece that is carved lies behind the header, within the block, and behind
\* every earlier piece of its block.
LEMMA PieceFree ==
  ASSUME CarvedSeparate, doing = "open",
         NEW size \in Nat, size < blockSize \div 2,
         NEW align \in Nat \ {0}, NEW g \in Nat, g >= given
  PROVE  LET p == Piece(size, align, g) IN
         /\ p \in Pieces /\ p.size = size
         /\ BlockHeader =< p.from /\ p.from + p.size =< blockSize
         /\ \A j \in DOMAIN pieces :
              pieces[j].block = p.block => pieces[j].from + pieces[j].size =< p.from
<1> USE DEF CarvedSeparate
<1>0. BlockHeader \in Nat /\ blockSize \in Nat /\ blockSize \div 2 \in Nat
      /\ BlockHeader + (blockSize \div 2) =< blockSize + 1
  <2>1. blockSize \in BlockSizes
    BY DEF Carved
  <2>2. blockSize \in Nat /\ BlockHeader \in Nat /\ BlockHeader + (blockSize \div 2) =< blockSize + 1
    BY <2>1, PoolAssumption
  <2>3. blockSize \div 2 \in Nat
    BY <2>2
  <2> QED BY <2>2, <2>3
<1>1. RoundUp(offset, align) \in Nat /\ RoundUp(offset, align) >= offset
  BY RoundUpBounds DEF Carved
<1>2. CASE Fits(size, align)
  <2>1. blocks # <<>> /\ blocks[1] \in Nat /\ RoundUp(offset, align) + size =< blockSize
    BY <1>2 DEF Fits, Carved
  <2>2. Piece(size, align, g)
          = [block |-> blocks[1], from |-> RoundUp(offset, align), size |-> size]
    BY <1>2 DEF Piece
  <2>3. BlockHeader =< RoundUp(offset, align)
    BY <1>0, <1>1, <2>1 DEF Carved
  <2>4. ASSUME NEW j \in DOMAIN pieces, pieces[j].block = blocks[1]
        PROVE  pieces[j].from + pieces[j].size =< RoundUp(offset, align)
    <3>1. pieces[j] \in Pieces BY DEF Carved
    <3>2. pieces[j].from + pieces[j].size =< offset
      BY <2>1, <2>4 DEF Carved, BeforeOffset
    <3> QED BY <1>1, <3>1, <3>2 DEF Pieces, Carved
  <2> QED BY <1>1, <2>1, <2>2, <2>3, <2>4 DEF Pieces
<1>3. CASE ~Fits(size, align)
  <2>1. Piece(size, align, g) = [block |-> g + 1, from |-> BlockHeader, size |-> size]
    BY <1>3 DEF Piece
  <2>2. \A j \in DOMAIN pieces : pieces[j].block # g + 1
    <3>1. \A j \in DOMAIN pieces : pieces[j] \in Pieces /\ pieces[j].block =< given
      BY DEF Carved
    <3> QED BY <3>1 DEF Carved, Pieces
  <2>3. BlockHeader + size =< blockSize BY <1>0
  <2> QED BY <1>0, <2>1, <2>2, <2>3 DEF Pieces
<1> QED BY <1>2, <1>3

LEMMA CarveKeeps ==
  ASSUME CarvedSeparate, doing = "open", UNCHANGED <<blockSize, doing>>,
         NEW size \in Nat, size < blockSize \div 2,
         NEW align \in Nat \ {0}, NEW g \in Nat, g >= given,
         Carve(size, align, g)
  PROVE  CarvedSeparate'
<1> DEFINE p == Piece(size, align, g)
<1>1. /\ p \in Pieces /\ p.size = size
      /\ BlockHeader =< p.from /\ p.from + p.size =< blockSize
      /\ \A j \in DOMAIN pieces :
           pieces[j].block = p.block => pieces[j].from + pieces[j].size =< p.from
  BY PieceFree
<1>2. /\ pieces' = Append(pieces, p)
      /\ blocks' = IF Fits(size, align) THEN blocks ELSE <<p.block>> \o blocks
      /\ offset' = p.from + size
      /\ given' = IF Fits(size, align) THEN g ELSE g + 1
  BY DEF Carve
<1>3. /\ blockSize \in BlockSizes /\ given \in Nat /\ offset \in Nat
      /\ blocks \in Seq(Nat) /\ pieces \in Seq(Pieces)
      /\ \A k \in DOMAIN blocks : blocks[k] =< given
      /\ \A k \in DOMAIN pieces : pieces[k].block =< given
  BY DEF CarvedSeparate, Carved
<1>4. /\ pieces' \in Seq(Pieces) /\ DOMAIN pieces' = 1 .. Len(pieces) + 1
      /\ pieces'[Len(pieces) + 1] = p
      /\ \A k \in DOMAIN pieces : pieces'[k] = pieces[k]
      /\ DOMAIN pieces = 1 .. Len(pieces)
  BY <1>1, <1>2, <1>3
<1>5. given' \in Nat /\ given' >= given /\ offset' \in Nat
  BY <1>1, <1>2, <1>3 DEF Pieces
<1>6. /\ blocks' \in Seq(Nat) /\ blocks' # <<>> /\ blocks'[1] = p.block
      /\ p.block =< given' /\ \A k \in DOMAIN blocks' : blocks'[k] =< given'
  <2>1. CASE Fits(size, align)
    <3>1. p.block = blocks[1] /\ blocks # <<>> BY <2>1 DEF Fits, Piece
    <3> QED BY <1>2, <1>3, <1>5, <2>1, <3>1
  <2>2. CASE ~Fits(size, align)
    <3>1. p.block = g + 1 BY <2>2 DEF Piece
    <3>2. blocks' = <<g + 1>> \o blocks /\ given' = g + 1 BY <1>2, <2>2, <3>1
    <3>3. /\ blocks' \in Seq(Nat) /\ DOMAIN blocks' = 1 .. Len(blocks) + 1
          /\ blocks'[1] = g + 1 /\ \A k \in 2 .. Len(blocks) + 1 : blocks'[k] = blocks[k - 1]
      BY <1>3, <3>2
    <3>4. DOMAIN blocks = 1 .. Len(blocks) /\ Len(blocks) \in Nat BY <1>3
    <3>5. ASSUME NEW k \in 2 .. Len(blocks) + 1 PROVE blocks'[k] =< g + 1
      <4>1. k - 1 \in DOMAIN blocks /\ blocks'[k] = blocks[k - 1] BY <3>3, <3>4
      <4>2. PICK b \in Nat : b = blocks[k - 1] /\ b =< given BY <1>3, <4>1
      <4>3. given \in Nat BY <1>3
      <4>4. b =< g + 1 BY <4>2, <4>3
      <4> QED BY <4>1, <4>2, <4>4
    <3> QED BY <3>1, <3>2, <3>3, <3>5
  <2> QED BY <2>1, <2>2
<1> HIDE DEF p
<1>7. \A k \in DOMAIN pieces' : pieces'[k].block =< given' /\ BeforeOffset(pieces[k])'
  <2> SUFFICES ASSUME NEW k \in DOMAIN pieces'
               PROVE  pieces'[k].block =< given' /\ BeforeOffset(pieces[k])'
    OBVIOUS
  <2>1. CASE k = Len(pieces) + 1
    <3>1. pieces'[k] = p
      BY <1>4, <2>1
    <3>2. p.from + p.size =< offset'
      BY <1>1, <1>2 DEF Pieces
    <3> QED BY <1>6, <3>1, <3>2 DEF BeforeOffset
  <2>2. CASE k \in DOMAIN pieces
    <3>0. pieces'[k] = pieces[k] /\ pieces[k] \in Pieces /\ pieces[k].block =< given
      BY <1>3, <1>4, <2>2
    <3>1. pieces'[k] = pieces[k] /\ pieces[k] \in Pieces /\ pieces[k].block =< given'
      <4>1. pieces[k].block \in Nat
        BY <3>0 DEF Pieces
      <4>2. given \in Nat
        BY <1>3
      <4> QED BY <1>5, <3>0, <4>1, <4>2
    <3>2. pieces[k].block = p.block => pieces[k].from + pieces[k].size =< offset'
      <4>1. /\ pieces[k].from \in Nat /\ pieces[k].size \in Nat
            /\ p.from \in Nat /\ p.from =< offset'
        BY <1>1, <1>2, <3>0, SMTT(30) DEF Pieces
      <4>2. pieces[k].block = p.block => pieces[k].from + pieces[k].size =< p.from
        BY <1>1, <2>2
      <4>3. offset' \in Nat
        BY <1>5
      <4> QED BY <4>1, <4>2, <4>3
    <3> QED BY <1>6, <3>1, <3>2 DEF BeforeOffset
  <2> QED BY <1>4, <2>1, <2>2
<1>8. Separate'
  <2> SUFFICES ASSUME NEW k \in DOMAIN pieces'
               PROVE  /\ BlockHeader =< pieces'[k].from
                      /\ pieces'[k].from + pieces'[k].size =< blockSize
                      /\ \A j \in 1 .. k - 1 :
                           pieces'[j].block = pieces'[k].block =>
                             pieces'[j].from + pieces'[j].size =< pieces'[k].from
    BY DEF Separate
  <2>1. CASE k = Len(pieces) + 1
    BY <1>1, <1>4, <2>1
  <2>2. CASE k \in DOMAIN pieces
    <3>1. /\ BlockHeader =< pieces[k].from
          /\ pieces[k].from + pieces[k].size =< blockSize
          /\ \A j \in 1 .. k - 1 :
               pieces[j].block = pieces[k].block =>
                 pieces[j].from + pieces[j].size =< pieces[k].from
      BY <2>2 DEF CarvedSeparate, Separate
    <3>2. DOMAIN pieces = 1 .. Len(pieces) /\ Len(pieces) \in Nat
      BY <1>3
    <3>3. \A j \in 1 .. k - 1 : j \in DOMAIN pieces
      BY <2>2, <3>2
    <3>4. pieces'[k] = pieces[k] /\ \A j \in 1 .. k - 1 : pieces'[j] = pieces[j]
      BY <1>4, <2>2, <3>3
    <3> QED BY <3>1, <3>4
  <2> QED BY <1>4, <2>1, <2>2
<1>9. BlockHeader =< offset'
  BY <1>1, <1>2, PoolAssumption DEF Pieces
<1> QED BY <1>3, <1>4, <1>5, <1>6, <1>7, <1>8, <1>9 DEF CarvedSeparate, Carved

-----------------------------------------------------------------------------
LEMMA PoolInitially == PoolInit => CarvedSeparate
BY DEF PoolInit, CarvedSeparate, Carved, Separate

\* Nothing is carved, and nothing will be if the blocks change.
LEMMA NothingCarved ==
  ASSUME CarvedSeparate, UNCHANGED <<blockSize, offset, pieces>>,
         given' \in Nat, given' >= given,
         blocks' \in Seq(Nat), \A k \in DOMAIN blocks' : blocks'[k] =< given',
         doing' = "open" => doing = "open" /\ blocks' = blocks
  PROVE  CarvedSeparate'
<1>1. \A k \in DOMAIN pieces : pieces[k] \in Pieces /\ pieces[k].block =< given
  BY DEF CarvedSeparate, Carved
<1>2. \A k \in DOMAIN pieces : pieces[k].block =< given'
  BY <1>1 DEF CarvedSeparate, Carved, Pieces
<1>3. \A k \in DOMAIN pieces : BeforeOffset(pieces[k])'
  BY DEF CarvedSeparate, Carved, BeforeOffset
<1>4. blockSize' \in BlockSizes /\ offset' \in Nat /\ pieces' \in Seq(Pieces)
  BY DEF CarvedSeparate, Carved
<1>5. doing' = "open" /\ blocks' # <<>> => BlockHeader =< offset'
  BY DEF CarvedSeparate, Carved
<1>6. Carved'
  BY <1>2, <1>3, <1>4, <1>5 DEF Carved
<1> QED BY <1>6 DEF CarvedSeparate, Separate

LEMMA PoolStep == CarvedSeparate /\ [PoolNext]_poolVars => CarvedSeparate'
<1> SUFFICES ASSUME CarvedSeparate, [PoolNext]_poolVars PROVE CarvedSeparate'
  OBVIOUS
<1>0. /\ blockSize \in BlockSizes /\ blockSize \in Nat /\ given \in Nat
      /\ BigNote \in Nat /\ BigNote < blockSize \div 2
      /\ FreeNote \in Nat /\ Pointer \in Nat \ {0}
  BY PoolAssumption DEF CarvedSeparate, Carved
<1>1. ASSUME NEW size \in Sizes, AllocBig(size) PROVE CarvedSeparate'
  BY <1>0, <1>1, CarveKeeps DEF AllocBig, Called
<1>2. ASSUME NEW size \in Sizes, NEW align \in Aligns, AllocSmall(size, align)
      PROVE  CarvedSeparate'
  <2>1. size \in Nat /\ align \in Nat \ {0} /\ size < blockSize \div 2
    BY <1>0, <1>2, PoolAssumption DEF AllocSmall, IsBig
  <2> QED BY <1>0, <1>2, <2>1, CarveKeeps DEF AllocSmall, Called
<1>3. ASSUME ReallocFirst PROVE CarvedSeparate'
  BY <1>0, <1>3, CarveKeeps DEF ReallocFirst, Called
<1>4. ASSUME NEW k \in DOMAIN reallocs, Realloc(k) PROVE CarvedSeparate'
  <2>1. /\ UNCHANGED <<blockSize, blocks, offset, pieces, doing>> /\ given' = given + 1
    BY <1>4 DEF Realloc, Called
  <2>2. \A m \in DOMAIN blocks : blocks[m] \in Nat /\ blocks[m] =< given
    BY DEF CarvedSeparate, Carved
  <2>3. blocks' \in Seq(Nat) BY <2>1 DEF CarvedSeparate, Carved
  <2>4. \A m \in DOMAIN blocks' : blocks'[m] =< given' BY <1>0, <2>1, <2>2
  <2> QED BY <1>0, <2>1, <2>3, <2>4, NothingCarved
<1>5. ASSUME NEW data \in OwnData, AddFree(data) PROVE CarvedSeparate'
  <2>1. CASE IsBig(FreeNote)
    BY <1>0, <1>5, <2>1, CarveKeeps DEF AddFree, Called
  <2>2. CASE ~IsBig(FreeNote)
    <3>1. FreeNote < blockSize \div 2 BY <1>0, <2>2 DEF IsBig
    <3> QED BY <1>0, <1>5, <2>2, <3>1, CarveKeeps DEF AddFree, Called
  <2> QED BY <2>1, <2>2
<1>6. ASSUME Destroy \/ DestroyThen \/ UNCHANGED poolVars PROVE CarvedSeparate'
  <2>1. /\ UNCHANGED <<blockSize, given, offset, pieces, blocks>>
        /\ doing' = "open" => doing = "open"
    BY <1>6 DEF Destroy, DestroyThen, chains, Then, poolVars
  <2> QED BY <1>0, <2>1, NothingCarved DEF CarvedSeparate, Carved
<1>7. ASSUME DestroyStep PROVE CarvedSeparate'
  <2>1. /\ UNCHANGED <<blockSize, given, offset, pieces, doing>> /\ doing # "open"
        /\ blocks' = blocks \/ (blocks' = Tail(blocks) /\ blocks # <<>>)
    BY <1>7 DEF DestroyStep, Then, Left
  <2>2. blocks \in Seq(Nat) /\ \A k \in DOMAIN blocks : blocks[k] =< given
    BY DEF CarvedSeparate, Carved
  <2>3. blocks' \in Seq(Nat) /\ \A k \in DOMAIN blocks' : blocks'[k] =< given
    <3>1. ASSUME blocks' = Tail(blocks), blocks # <<>>
          PROVE  /\ Tail(blocks) \in Seq(Nat) /\ DOMAIN Tail(blocks) = 1 .. Len(blocks) - 1
                 /\ \A k \in 1 .. Len(blocks) - 1 : Tail(blocks)[k] = blocks[k + 1]
      BY <2>2, <3>1
    <3>2. DOMAIN blocks = 1 .. Len(blocks) /\ Len(blocks) \in Nat BY <2>2
    <3>3. ASSUME blocks' = Tail(blocks), blocks # <<>>, NEW k \in DOMAIN blocks'
          PROVE  blocks'[k] =< given
      <4>1. k + 1 \in DOMAIN blocks /\ blocks'[k] = blocks[k + 1] BY <3>1, <3>2, <3>3
      <4> QED BY <2>2, <4>1
    <3> QED BY <2>1, <2>2, <3>1, <3>3
  <2> QED BY <1>0, <2>1, <2>3, NothingCarved
<1> QED BY <1>1, <1>2, <1>3, <1>4, <1>5, <1>6, <1>7 DEF PoolNext

\* The pieces that wuy_pool_alloc() and its like hand out, and those the pool
\* takes for its notes, never overlap and never leave their block.
THEOREM SeparateTheorem == PoolSpec => []Separate
<1>1. CarvedSeparate => Separate BY DEF CarvedSeparate
<1> QED BY <1>1, PoolInitially, PoolStep, PTL DEF PoolSpec

-----------------------------------------------------------------------------
(* What is freed.  Every memory given is a block, the data of a note, or    *)
(* freed, and only one of these; and what a note or a handler is in is      *)
(* freed by a later loop of wuy_pool_destroy() than the one that needs it.  *)

Notes == [at : Nat, data : Nat]
Datas(s) == {s[k].data : k \in DOMAIN s}
DistinctData(s) == \A j, k \in DOMAIN s : s[j].data = s[k].data => j = k

Blocks == ToSet(blocks)
OfBigs == Datas(bigs)
OfReallocs == Datas(reallocs)

\* The four parts are disjoint, and together all that calloc() gave.
Parts(b, d, r, f, n) ==
  /\ b \cap d = {} /\ b \cap r = {} /\ b \cap f = {}
  /\ d \cap r = {} /\ d \cap f = {} /\ r \cap f = {}
  /\ b \cup d \cup r \cup f = 1 .. n

Owned ==
  /\ bigs \in Seq(Notes) /\ reallocs \in Seq(Notes) /\ frees \in Seq(Notes)
  /\ \A j, k \in DOMAIN blocks : blocks[j] = blocks[k] => j = k
  /\ DistinctData(bigs) /\ DistinctData(reallocs)
  /\ Parts(Blocks, OfBigs, OfReallocs, freed, given)

NotesKept ==
  /\ \A k \in DOMAIN bigs : bigs[k].at \in Blocks
  /\ \A k \in DOMAIN reallocs : reallocs[k].at \in Blocks
  /\ \A k \in DOMAIN frees : /\ frees[k].at \in Blocks \cup OfBigs
                             /\ frees[k].data \in {0} \cup Blocks \cup OfBigs

\* The loops behind which a list is empty.
LoopsDone ==
  /\ doing \in {"open", "frees", "bigs", "reallocs", "blocks", "pool"}
  /\ doing \in {"bigs", "reallocs", "blocks", "pool"} => frees = <<>>
  /\ doing \in {"reallocs", "blocks", "pool"} => bigs = <<>>
  /\ doing \in {"blocks", "pool"} => reallocs = <<>>
  /\ doing = "pool" => blocks = <<>>

PoolInv == CarvedSeparate /\ Owned /\ NotesKept /\ LoopsDone

LEMMA Prepended ==
  ASSUME NEW S, NEW s \in Seq(S), NEW x \in S, NEW t, t = <<x>> \o s
  PROVE  /\ t \in Seq(S) /\ 1 \in DOMAIN t /\ t[1] = x
         /\ \A k \in DOMAIN t : k = 1 \/ (k - 1 \in DOMAIN s /\ t[k] = s[k - 1])
         /\ \A k \in DOMAIN s : k + 1 \in DOMAIN t /\ t[k + 1] = s[k]
OBVIOUS

LEMMA WithoutFirst ==
  ASSUME NEW S, NEW s \in Seq(S), s # <<>>
  PROVE  LET t == Tail(s) IN
         /\ t \in Seq(S) /\ 1 \in DOMAIN s
         /\ \A k \in DOMAIN t : k + 1 \in DOMAIN s /\ t[k] = s[k + 1]
         /\ \A k \in DOMAIN s : k = 1 \/ (k - 1 \in DOMAIN t /\ t[k - 1] = s[k])
OBVIOUS

LEMMA NoteAdded ==
  ASSUME NEW s \in Seq(Notes), DistinctData(s), NEW n \in Notes, n.data \notin Datas(s)
  PROVE  LET t == <<n>> \o s IN
         /\ t \in Seq(Notes) /\ DistinctData(t) /\ Datas(t) = Datas(s) \cup {n.data}
         /\ \A k \in DOMAIN t : t[k] = n \/ \E j \in DOMAIN s : t[k] = s[j]
<1> DEFINE t == <<n>> \o s
<1>1. /\ t \in Seq(Notes) /\ 1 \in DOMAIN t /\ t[1] = n
      /\ \A k \in DOMAIN t : k = 1 \/ (k - 1 \in DOMAIN s /\ t[k] = s[k - 1])
      /\ \A k \in DOMAIN s : k + 1 \in DOMAIN t /\ t[k + 1] = s[k]
  BY Prepended
<1>2. DOMAIN t \subseteq Int /\ DOMAIN s \subseteq Int
  BY <1>1
<1> HIDE DEF t
<1>3. DistinctData(t)
  <2>1. ASSUME NEW j \in DOMAIN t, NEW k \in DOMAIN t, t[j].data = t[k].data PROVE j = k
    <3>1. \A i \in DOMAIN s : s[i].data # n.data
      BY DEF Datas
    <3>2. (j = 1 /\ t[j] = n) \/ (j - 1 \in DOMAIN s /\ t[j] = s[j - 1])
      BY <1>1
    <3>3. (k = 1 /\ t[k] = n) \/ (k - 1 \in DOMAIN s /\ t[k] = s[k - 1])
      BY <1>1
    <3>4. CASE j - 1 \in DOMAIN s /\ t[j] = s[j - 1] /\ k - 1 \in DOMAIN s /\ t[k] = s[k - 1]
      <4>1. j - 1 = k - 1
        BY <2>1, <3>4 DEF DistinctData
      <4> QED BY <1>2, <4>1
    <3> QED BY <2>1, <3>1, <3>2, <3>3, <3>4
  <2> QED BY <2>1 DEF DistinctData
<1>4. ASSUME NEW x PROVE x \in Datas(t) <=> x \in Datas(s) \/ x = n.data
  <2>1. ASSUME x \in Datas(t) PROVE x \in Datas(s) \/ x = n.data
    <3>1. PICK k \in DOMAIN t : t[k].data = x
      BY <2>1 DEF Datas
    <3>2. t[k] = n \/ (k - 1 \in DOMAIN s /\ t[k] = s[k - 1])
      BY <1>1
    <3> QED BY <3>1, <3>2 DEF Datas
  <2>2. x \in Datas(s) => x \in Datas(t)
    BY <1>1 DEF Datas
  <2>3. x = n.data => x \in Datas(t)
    BY <1>1 DEF Datas
  <2> QED BY <2>1, <2>2, <2>3
<1>5. \A k \in DOMAIN t : t[k] = n \/ \E j \in DOMAIN s : t[k] = s[j]
  BY <1>1
<1> QED BY <1>1, <1>3, <1>4, <1>5 DEF t

LEMMA NoteDone ==
  ASSUME NEW s \in Seq(Notes), DistinctData(s), s # <<>>
  PROVE  LET t == Tail(s) IN
         /\ t \in Seq(Notes) /\ DistinctData(t) /\ Datas(t) = Datas(s) \ {s[1].data}
         /\ s[1].data \in Datas(s)
         /\ \A k \in DOMAIN t : \E j \in DOMAIN s : t[k] = s[j]
<1> DEFINE t == Tail(s)
<1>1. /\ t \in Seq(Notes) /\ 1 \in DOMAIN s
      /\ \A k \in DOMAIN t : k + 1 \in DOMAIN s /\ t[k] = s[k + 1]
      /\ \A k \in DOMAIN s : k = 1 \/ (k - 1 \in DOMAIN t /\ t[k - 1] = s[k])
  BY WithoutFirst
<1>2. \A k \in DOMAIN t : k \in Nat \ {0}
  BY <1>1
<1> HIDE DEF t
<1>3. DistinctData(t)
  BY <1>1, <1>2, SMTT(30) DEF DistinctData
<1>4. ASSUME NEW x PROVE x \in Datas(t) <=> x \in Datas(s) /\ x # s[1].data
  <2>1. x \in Datas(t) => x \in Datas(s)
    BY <1>1 DEF Datas
  <2>2. ASSUME x \in Datas(t), x = s[1].data PROVE FALSE
    <3>1. PICK k \in DOMAIN t : t[k].data = x
      BY <2>2 DEF Datas
    <3>2. k + 1 \in DOMAIN s /\ s[k + 1].data = s[1].data /\ 1 \in DOMAIN s
      BY <1>1, <2>2, <3>1
    <3>3. k + 1 = 1
      BY <3>2 DEF DistinctData
    <3> QED BY <1>2, <3>3
  <2>3. ASSUME x \in Datas(s), x # s[1].data PROVE x \in Datas(t)
    <3>1. PICK k \in DOMAIN s : s[k].data = x
      BY <2>3 DEF Datas
    <3>2. k - 1 \in DOMAIN t /\ t[k - 1] = s[k]
      BY <1>1, <2>3, <3>1
    <3> QED BY <3>1, <3>2 DEF Datas
  <2> QED BY <2>1, <2>2, <2>3
<1> QED BY <1>1, <1>3, <1>4 DEF t, Datas

\* The next memory belongs to none of the parts.
LEMMA NextIsNew ==
  ASSUME NEW b, NEW d, NEW r, NEW f, NEW n \in Nat, Parts(b, d, r, f, n)
  PROVE  /\ n + 1 \notin b \cup d \cup r \cup f
         /\ Parts(b \cup {n + 1}, d, r, f, n + 1)
         /\ Parts(b, d \cup {n + 1}, r, f, n + 1)
         /\ Parts(b, d, r \cup {n + 1}, f, n + 1)
<1>1. n + 1 \notin 1 .. n /\ 1 .. n + 1 = (1 .. n) \cup {n + 1}
  OBVIOUS
<1> QED BY <1>1 DEF Parts

\* The block that a piece is carved from is one of the pool's, and a new one is the
\* next memory.
LEMMA CarveOwns ==
  ASSUME PoolInv, NEW size, NEW align, NEW g \in Nat, g >= given,
         Carve(size, align, g)
  PROVE  /\ \A j, k \in DOMAIN blocks' : blocks'[j] = blocks'[k] => j = k
         /\ Piece(size, align, g).block \in Blocks'
         /\ Piece(size, align, g).block \in Nat
         /\ \/ given' = g /\ Blocks' = Blocks
            \/ given' = g + 1 /\ Blocks' = Blocks \cup {g + 1}
<1> DEFINE p == Piece(size, align, g)
<1>1. /\ blocks' = IF Fits(size, align) THEN blocks ELSE <<p.block>> \o blocks
      /\ given' = IF Fits(size, align) THEN g ELSE g + 1
  BY DEF Carve
<1>2. /\ given \in Nat /\ blocks \in Seq(Nat) /\ \A k \in DOMAIN blocks : blocks[k] =< given
      /\ \A j, k \in DOMAIN blocks : blocks[j] = blocks[k] => j = k
  BY DEF PoolInv, CarvedSeparate, Carved, Owned
<1>3. CASE Fits(size, align)
  <2>1. blocks # <<>> /\ p.block = blocks[1]
    BY <1>3 DEF Fits, Piece
  <2>2. 1 \in DOMAIN blocks /\ blocks[1] \in Nat
    BY <1>2, <2>1
  <2> QED BY <1>1, <1>2, <1>3, <2>1, <2>2 DEF Blocks, ToSet
<1>4. CASE ~Fits(size, align)
  <2> DEFINE t == <<g + 1>> \o blocks
  <2>1. p.block = g + 1 /\ blocks' = t /\ given' = g + 1
    BY <1>1, <1>4 DEF Piece
  <2>2. /\ t \in Seq(Nat) /\ 1 \in DOMAIN t /\ t[1] = g + 1
        /\ \A k \in DOMAIN t : k = 1 \/ (k - 1 \in DOMAIN blocks /\ t[k] = blocks[k - 1])
        /\ \A k \in DOMAIN blocks : k + 1 \in DOMAIN t /\ t[k + 1] = blocks[k]
    BY <1>2, Prepended
  <2>3. \A k \in DOMAIN t : k \in Nat
    BY <2>2
  <2> HIDE DEF t
  <2>4. \A k \in DOMAIN blocks : blocks[k] # g + 1
    BY <1>2
  <2>5. ASSUME NEW j \in DOMAIN t, NEW k \in DOMAIN t, t[j] = t[k] PROVE j = k
    <3>1. (j = 1 /\ t[j] = g + 1) \/ (j - 1 \in DOMAIN blocks /\ t[j] = blocks[j - 1])
      BY <2>2
    <3>2. (k = 1 /\ t[k] = g + 1) \/ (k - 1 \in DOMAIN blocks /\ t[k] = blocks[k - 1])
      BY <2>2
    <3>3. CASE /\ j - 1 \in DOMAIN blocks /\ t[j] = blocks[j - 1]
               /\ k - 1 \in DOMAIN blocks /\ t[k] = blocks[k - 1]
      <4>1. j - 1 = k - 1
        BY <1>2, <2>5, <3>3
      <4> QED BY <2>3, <4>1
    <3> QED BY <2>4, <2>5, <3>1, <3>2, <3>3
  <2>6. {t[k] : k \in DOMAIN t} = {blocks[k] : k \in DOMAIN blocks} \cup {g + 1}
    BY <2>2
  <2> QED BY <2>1, <2>2, <2>5, <2>6 DEF Blocks, ToSet
<1> QED BY <1>3, <1>4

\* An allocation of its own with its note: what is true of bigs and of reallocs then.
LEMMA NoteOwns ==
  ASSUME PoolInv, Carve(BigNote, Pointer, given + 1)
  PROVE  /\ Note \in Notes /\ Note.data = given + 1 /\ Note.at \in Blocks'
         /\ given + 1 \notin OfBigs /\ given + 1 \notin OfReallocs
         /\ \A j, k \in DOMAIN blocks' : blocks'[j] = blocks'[k] => j = k
         /\ Blocks \subseteq Blocks'
         /\ Parts(Blocks', OfBigs \cup {given + 1}, OfReallocs, freed, given')
         /\ Parts(Blocks', OfBigs, OfReallocs \cup {given + 1}, freed, given')
<1> DEFINE n == given + 1
<1>1. given \in Nat /\ n \in Nat /\ n >= given
  BY DEF PoolInv, CarvedSeparate, Carved
<1>2. /\ \A j, k \in DOMAIN blocks' : blocks'[j] = blocks'[k] => j = k
      /\ Piece(BigNote, Pointer, n).block \in Blocks'
      /\ Piece(BigNote, Pointer, n).block \in Nat
      /\ \/ given' = n /\ Blocks' = Blocks
         \/ given' = n + 1 /\ Blocks' = Blocks \cup {n + 1}
  BY <1>1, CarveOwns
<1>3. Note \in Notes /\ Note.data = n /\ Note.at \in Blocks'
  BY <1>1, <1>2 DEF Note, Notes
<1>4. /\ n \notin OfBigs /\ n \notin OfReallocs
      /\ Parts(Blocks, OfBigs \cup {n}, OfReallocs, freed, n)
      /\ Parts(Blocks, OfBigs, OfReallocs \cup {n}, freed, n)
  BY <1>1, NextIsNew DEF PoolInv, Owned
<1> HIDE DEF n
<1>5. /\ Parts(Blocks \cup {n + 1}, OfBigs \cup {n}, OfReallocs, freed, n + 1)
      /\ Parts(Blocks \cup {n + 1}, OfBigs, OfReallocs \cup {n}, freed, n + 1)
  BY <1>1, <1>4, NextIsNew
<1> QED BY <1>2, <1>3, <1>4, <1>5 DEF n

-----------------------------------------------------------------------------
LEMMA PoolInvInitially == PoolInit => PoolInv
<1> SUFFICES ASSUME PoolInit PROVE PoolInv
  OBVIOUS
<1>1. Blocks = {} /\ OfBigs = {} /\ OfReallocs = {} /\ freed = {} /\ 1 .. given = {}
  BY DEF PoolInit, Blocks, ToSet, OfBigs, OfReallocs, Datas
<1>2. Owned
  BY <1>1 DEF PoolInit, Owned, DistinctData, Parts
<1> QED BY <1>2, PoolInitially DEF PoolInit, PoolInv, NotesKept, LoopsDone

\* The calls on an open pool.
LEMMA AllocBigOwns ==
  ASSUME PoolInv, NEW size \in Sizes, AllocBig(size)
  PROVE  Owned' /\ NotesKept' /\ LoopsDone'
<1>1. /\ doing = "open" /\ bigs' = <<Note>> \o bigs /\ Carve(BigNote, Pointer, given + 1)
      /\ UNCHANGED <<freed, reallocs, frees, doing>>
  BY DEF AllocBig, Called
<1>2. /\ Note \in Notes /\ Note.data = given + 1 /\ Note.at \in Blocks'
      /\ given + 1 \notin OfBigs
      /\ \A j, k \in DOMAIN blocks' : blocks'[j] = blocks'[k] => j = k
      /\ Blocks \subseteq Blocks'
      /\ Parts(Blocks', OfBigs \cup {given + 1}, OfReallocs, freed, given')
  BY <1>1, NoteOwns
<1>3. /\ bigs' \in Seq(Notes) /\ DistinctData(bigs') /\ OfBigs' = OfBigs \cup {given + 1}
      /\ \A k \in DOMAIN bigs' : bigs'[k] = Note \/ \E j \in DOMAIN bigs : bigs'[k] = bigs[j]
  BY <1>1, <1>2, NoteAdded DEF PoolInv, Owned, OfBigs
<1>4. OfReallocs' = OfReallocs /\ Owned'
  BY <1>1, <1>2, <1>3 DEF PoolInv, Owned, OfReallocs
<1>5. NotesKept'
  BY <1>1, <1>2, <1>3 DEF PoolInv, NotesKept
<1> QED BY <1>1, <1>4, <1>5 DEF PoolInv, LoopsDone

LEMMA ReallocFirstOwns ==
  ASSUME PoolInv, ReallocFirst
  PROVE  Owned' /\ NotesKept' /\ LoopsDone'
<1>1. /\ doing = "open" /\ reallocs' = <<Note>> \o reallocs
      /\ Carve(BigNote, Pointer, given + 1)
      /\ UNCHANGED <<freed, bigs, frees, doing>>
  BY DEF ReallocFirst, Called
<1>2. /\ Note \in Notes /\ Note.data = given + 1 /\ Note.at \in Blocks'
      /\ given + 1 \notin OfReallocs
      /\ \A j, k \in DOMAIN blocks' : blocks'[j] = blocks'[k] => j = k
      /\ Blocks \subseteq Blocks'
      /\ Parts(Blocks', OfBigs, OfReallocs \cup {given + 1}, freed, given')
  BY <1>1, NoteOwns
<1>3. /\ reallocs' \in Seq(Notes) /\ DistinctData(reallocs')
      /\ OfReallocs' = OfReallocs \cup {given + 1}
      /\ \A k \in DOMAIN reallocs' :
           reallocs'[k] = Note \/ \E j \in DOMAIN reallocs : reallocs'[k] = reallocs[j]
  BY <1>1, <1>2, NoteAdded DEF PoolInv, Owned, OfReallocs
<1>4. OfBigs' = OfBigs /\ Owned'
  BY <1>1, <1>2, <1>3 DEF PoolInv, Owned, OfBigs
<1>5. NotesKept'
  BY <1>1, <1>2, <1>3, <1>4 DEF PoolInv, NotesKept
<1> QED BY <1>1, <1>4, <1>5 DEF PoolInv, LoopsDone

LEMMA ReallocOwns ==
  ASSUME PoolInv, NEW k \in DOMAIN reallocs, Realloc(k)
  PROVE  Owned' /\ NotesKept' /\ LoopsDone'
<1> DEFINE old == reallocs[k].data
           n == given + 1
<1>1. /\ given' = n /\ freed' = freed \cup {old}
      /\ reallocs' = [reallocs EXCEPT ![k].data = n]
      /\ UNCHANGED <<blocks, bigs, frees, doing>> /\ doing = "open"
  BY DEF Realloc, Called
<1>2. given \in Nat /\ n \in Nat /\ reallocs \in Seq(Notes) /\ DistinctData(reallocs)
  BY DEF PoolInv, CarvedSeparate, Carved, Owned
<1>3. /\ n \notin OfReallocs
      /\ Parts(Blocks, OfBigs, OfReallocs \cup {n}, freed, n)
  BY <1>2, NextIsNew DEF PoolInv, Owned
<1>4. \A j \in DOMAIN reallocs : reallocs[j] \in Notes /\ reallocs[j].data # n
  BY <1>2, <1>3 DEF OfReallocs, Datas
<1>5. [reallocs[k] EXCEPT !.data = n] \in Notes
      /\ [reallocs[k] EXCEPT !.data = n].data = n
      /\ [reallocs[k] EXCEPT !.data = n].at = reallocs[k].at
  BY <1>2, <1>4 DEF Notes
<1>6. /\ reallocs' \in Seq(Notes) /\ DOMAIN reallocs' = DOMAIN reallocs
      /\ reallocs'[k].data = n /\ reallocs'[k].at = reallocs[k].at
      /\ \A j \in DOMAIN reallocs : j # k => reallocs'[j] = reallocs[j]
  <2> DEFINE note == [reallocs[k] EXCEPT !.data = n]
  <2>1. reallocs' = [reallocs EXCEPT ![k] = note]
    BY <1>1
  <2> HIDE DEF note
  <2>2. note \in Notes
    BY <1>5 DEF note
  <2>3. /\ reallocs' \in Seq(Notes) /\ DOMAIN reallocs' = DOMAIN reallocs
        /\ reallocs'[k] = note
        /\ \A j \in DOMAIN reallocs : j # k => reallocs'[j] = reallocs[j]
    BY <1>2, <2>1, <2>2
  <2> QED BY <1>5, <2>3 DEF note
<1> HIDE DEF n
<1>7. DistinctData(reallocs')
  BY <1>2, <1>4, <1>6 DEF DistinctData
<1>8. OfReallocs' = (OfReallocs \ {old}) \cup {n}
  <2>1. ASSUME NEW x PROVE x \in OfReallocs' <=> (x \in OfReallocs /\ x # old) \/ x = n
    BY <1>2, <1>4, <1>6 DEF OfReallocs, Datas, DistinctData
  <2> QED BY <2>1
<1>9. old \in OfReallocs /\ old # n
  BY <1>4 DEF OfReallocs, Datas
<1> HIDE DEF old
<1>10. Parts(Blocks', OfBigs', OfReallocs', freed', given')
  BY <1>1, <1>3, <1>8, <1>9 DEF Parts, Blocks, OfBigs
<1>11. Owned'
  BY <1>1, <1>6, <1>7, <1>10 DEF PoolInv, Owned
<1>12. NotesKept'
  <2>1. \A j \in DOMAIN reallocs' : reallocs'[j].at = reallocs[j].at /\ j \in DOMAIN reallocs
    BY <1>6
  <2> QED BY <1>1, <2>1 DEF PoolInv, NotesKept, Blocks, OfBigs
<1> QED BY <1>1, <1>11, <1>12 DEF PoolInv, LoopsDone

LEMMA AllocSmallOwns ==
  ASSUME PoolInv, NEW size, NEW align, AllocSmall(size, align)
  PROVE  Owned' /\ NotesKept' /\ LoopsDone'
<1>1. /\ Carve(size, align, given) /\ UNCHANGED <<freed, bigs, reallocs, frees, doing>>
      /\ doing = "open"
  BY DEF AllocSmall, Called
<1>2. given \in Nat /\ given >= given
  BY DEF PoolInv, CarvedSeparate, Carved
<1>3. /\ \A j, k \in DOMAIN blocks' : blocks'[j] = blocks'[k] => j = k
      /\ \/ given' = given /\ Blocks' = Blocks
         \/ given' = given + 1 /\ Blocks' = Blocks \cup {given + 1}
  BY <1>1, <1>2, CarveOwns
<1>4. Parts(Blocks', OfBigs, OfReallocs, freed, given')
  <2>1. Parts(Blocks, OfBigs, OfReallocs, freed, given)
    BY DEF PoolInv, Owned
  <2>2. Parts(Blocks \cup {given + 1}, OfBigs, OfReallocs, freed, given + 1)
    BY <1>2, <2>1, NextIsNew
  <2> QED BY <1>3, <2>1, <2>2
<1>5. OfBigs' = OfBigs /\ OfReallocs' = OfReallocs /\ Blocks \subseteq Blocks'
  BY <1>1, <1>3 DEF OfBigs, OfReallocs
<1>6. Owned'
  BY <1>1, <1>3, <1>4, <1>5 DEF PoolInv, Owned
<1>7. NotesKept'
  BY <1>1, <1>5 DEF PoolInv, NotesKept
<1> QED BY <1>1, <1>6, <1>7 DEF PoolInv, LoopsDone

LEMMA AddFreeOwns ==
  ASSUME PoolInv, NEW data \in OwnData, AddFree(data)
  PROVE  Owned' /\ NotesKept' /\ LoopsDone'
<1>0. given \in Nat /\ given >= given /\ frees \in Seq(Notes)
  BY DEF PoolInv, CarvedSeparate, Carved, Owned
<1>1. data \in {0} \cup Blocks \cup OfBigs /\ data \in Nat
  <2>1. data \in {0} \cup Blocks \cup OfBigs
    BY DEF OwnData, Blocks, OfBigs, Datas
  <2>2. Blocks \cup OfBigs \subseteq 1 .. given
    BY DEF PoolInv, Owned, Parts
  <2> QED BY <1>0, <2>1, <2>2
<1>2. UNCHANGED <<freed, reallocs, doing>> /\ doing = "open"
  BY DEF AddFree, Called
\* The note n that frees gets is in memory of the pool, and so is its data.
<1>3. ASSUME NEW at \in Nat, frees' = <<[at |-> at, data |-> data]>> \o frees,
             at \in Blocks' \cup OfBigs', frees' \in Seq(Notes) => Owned',
             Blocks \subseteq Blocks', OfBigs \subseteq OfBigs',
             \A k \in DOMAIN bigs' : bigs'[k].at \in Blocks'
      PROVE  Owned' /\ NotesKept' /\ LoopsDone'
  <2> DEFINE n == [at |-> at, data |-> data]
  <2>1. n \in Notes /\ n.at = at /\ n.data = data
    BY <1>1, <1>3 DEF Notes
  <2> HIDE DEF n
  <2>2. /\ frees' \in Seq(Notes)
        /\ \A k \in DOMAIN frees' :
             frees'[k] = n \/ (k - 1 \in DOMAIN frees /\ frees'[k] = frees[k - 1])
    <3> DEFINE t == <<n>> \o frees
    <3>1. /\ t \in Seq(Notes) /\ t[1] = n
          /\ \A k \in DOMAIN t : k = 1 \/ (k - 1 \in DOMAIN frees /\ t[k] = frees[k - 1])
      BY <1>0, <2>1, Prepended
    <3>2. frees' = t
      BY <1>3 DEF n
    <3> HIDE DEF t
    <3> QED BY <3>1, <3>2
  <2>3. NotesKept'
    <3>1. ASSUME NEW k \in DOMAIN frees'
          PROVE  /\ frees'[k].at \in Blocks' \cup OfBigs'
                 /\ frees'[k].data \in {0} \cup Blocks' \cup OfBigs'
      BY <1>1, <1>3, <2>1, <2>2 DEF PoolInv, NotesKept
    <3> QED BY <1>2, <1>3, <3>1 DEF PoolInv, NotesKept
  <2> QED BY <1>2, <1>3, <2>2, <2>3 DEF PoolInv, LoopsDone
<1>4. CASE IsBig(FreeNote)
  <2>1. /\ frees' = <<[at |-> given + 1, data |-> data]>> \o frees
        /\ bigs' = <<Note>> \o bigs /\ Carve(BigNote, Pointer, given + 1)
    BY <1>4 DEF AddFree
  <2>2. /\ Note \in Notes /\ Note.data = given + 1 /\ Note.at \in Blocks'
        /\ given + 1 \notin OfBigs
        /\ \A j, k \in DOMAIN blocks' : blocks'[j] = blocks'[k] => j = k
        /\ Blocks \subseteq Blocks'
        /\ Parts(Blocks', OfBigs \cup {given + 1}, OfReallocs, freed, given')
    BY <2>1, NoteOwns
  <2>3. /\ bigs' \in Seq(Notes) /\ DistinctData(bigs') /\ OfBigs' = OfBigs \cup {given + 1}
        /\ \A k \in DOMAIN bigs' : bigs'[k] = Note \/ \E j \in DOMAIN bigs : bigs'[k] = bigs[j]
    BY <2>1, <2>2, NoteAdded, SMTT(30) DEF PoolInv, Owned, OfBigs
  <2>4. OfReallocs' = OfReallocs /\ (frees' \in Seq(Notes) => Owned')
    BY <1>2, <2>2, <2>3 DEF PoolInv, Owned, OfReallocs
  <2>5. \A k \in DOMAIN bigs' : bigs'[k].at \in Blocks'
    BY <2>2, <2>3 DEF PoolInv, NotesKept
  <2>6. given + 1 \in Nat
    BY <1>0
  <2> QED BY <1>3, <2>1, <2>2, <2>3, <2>4, <2>5, <2>6
<1>5. CASE ~IsBig(FreeNote)
  <2> DEFINE at == Piece(FreeNote, Pointer, given).block
  <2>1. /\ frees' = <<[at |-> at, data |-> data]>> \o frees
        /\ Carve(FreeNote, Pointer, given) /\ bigs' = bigs
    BY <1>5 DEF AddFree
  <2>2. /\ \A j, k \in DOMAIN blocks' : blocks'[j] = blocks'[k] => j = k
        /\ at \in Blocks' /\ at \in Nat
        /\ \/ given' = given /\ Blocks' = Blocks
           \/ given' = given + 1 /\ Blocks' = Blocks \cup {given + 1}
    BY <1>0, <2>1, CarveOwns
  <2> HIDE DEF at
  <2>3. Parts(Blocks', OfBigs, OfReallocs, freed, given')
    <3>1. Parts(Blocks, OfBigs, OfReallocs, freed, given)
      BY DEF PoolInv, Owned
    <3>2. Parts(Blocks \cup {given + 1}, OfBigs, OfReallocs, freed, given + 1)
      BY <1>0, <3>1, NextIsNew
    <3> QED BY <2>2, <3>1, <3>2
  <2>4. OfBigs' = OfBigs /\ OfReallocs' = OfReallocs /\ Blocks \subseteq Blocks'
    BY <1>2, <2>1, <2>2 DEF OfBigs, OfReallocs
  <2>5. frees' \in Seq(Notes) => Owned'
    BY <1>2, <2>1, <2>2, <2>3, <2>4 DEF PoolInv, Owned
  <2>6. \A k \in DOMAIN bigs' : bigs'[k].at \in Blocks'
    BY <2>1, <2>4 DEF PoolInv, NotesKept
  <2> QED BY <1>3, <2>1, <2>2, <2>4, <2>5, <2>6
<1> QED BY <1>4, <1>5

\* A step of a loop of wuy_pool_destroy().
LEMMA DestroyStepOwns ==
  ASSUME PoolInv, DestroyStep
  PROVE  Owned' /\ NotesKept' /\ LoopsDone'
<1>1. /\ doing \in {"frees", "bigs", "reallocs", "blocks"} /\ Left # <<>>
      /\ freed' = freed \cup Frees /\ given' = given /\ doing' = doing
      /\ frees' = IF doing = "frees" THEN Tail(frees) ELSE frees
      /\ bigs' = IF doing = "bigs" THEN Tail(bigs) ELSE bigs
      /\ reallocs' = IF doing = "reallocs" THEN Tail(reallocs) ELSE reallocs
      /\ blocks' = IF doing = "blocks" THEN Tail(blocks) ELSE blocks
  BY DEF DestroyStep, Then
<1>2. LoopsDone'
  BY <1>1 DEF PoolInv, LoopsDone
<1>3. CASE doing = "frees"
  <2>1. frees # <<>> /\ Frees = {}
    BY <1>1, <1>3 DEF Left, Frees
  <2>2. /\ frees' \in Seq(Notes)
        /\ \A k \in DOMAIN frees' : k + 1 \in DOMAIN frees /\ frees'[k] = frees[k + 1]
    BY <1>1, <1>3, <2>1, WithoutFirst DEF PoolInv, Owned
  <2>3. /\ UNCHANGED <<blocks, bigs, reallocs, freed, given>>
        /\ Blocks' = Blocks /\ OfBigs' = OfBigs /\ OfReallocs' = OfReallocs
    BY <1>1, <1>3, <2>1 DEF Blocks, OfBigs, OfReallocs
  <2>4. Owned'
    BY <2>2, <2>3 DEF PoolInv, Owned
  <2>5. NotesKept'
    BY <2>2, <2>3 DEF PoolInv, NotesKept
  <2> QED BY <1>2, <2>4, <2>5
<1>4. CASE doing = "bigs"
  <2>1. bigs # <<>> /\ Frees = {bigs[1].data} /\ frees = <<>>
    BY <1>1, <1>4 DEF Left, Frees, PoolInv, LoopsDone
  <2>2. /\ bigs' \in Seq(Notes) /\ DistinctData(bigs')
        /\ OfBigs' = OfBigs \ {bigs[1].data} /\ bigs[1].data \in OfBigs
        /\ \A k \in DOMAIN bigs' : \E j \in DOMAIN bigs : bigs'[k] = bigs[j]
    BY <1>1, <1>4, <2>1, NoteDone DEF PoolInv, Owned, OfBigs
  <2>3. /\ UNCHANGED <<blocks, frees, reallocs, given>> /\ freed' = freed \cup {bigs[1].data}
        /\ Blocks' = Blocks /\ OfReallocs' = OfReallocs
    BY <1>1, <1>4, <2>1 DEF Blocks, OfReallocs
  <2>4. Parts(Blocks', OfBigs', OfReallocs', freed', given')
    BY <2>2, <2>3 DEF PoolInv, Owned, Parts
  <2>5. Owned'
    BY <2>2, <2>3, <2>4 DEF PoolInv, Owned
  <2>6. NotesKept'
    BY <2>1, <2>2, <2>3 DEF PoolInv, NotesKept
  <2> QED BY <1>2, <2>5, <2>6
<1>5. CASE doing = "reallocs"
  <2>1. reallocs # <<>> /\ Frees = {reallocs[1].data}
    BY <1>1, <1>5 DEF Left, Frees
  <2>2. /\ reallocs' \in Seq(Notes) /\ DistinctData(reallocs')
        /\ OfReallocs' = OfReallocs \ {reallocs[1].data} /\ reallocs[1].data \in OfReallocs
        /\ \A k \in DOMAIN reallocs' : \E j \in DOMAIN reallocs : reallocs'[k] = reallocs[j]
    BY <1>1, <1>5, <2>1, NoteDone DEF PoolInv, Owned, OfReallocs
  <2>3. /\ UNCHANGED <<blocks, frees, bigs, given>>
        /\ freed' = freed \cup {reallocs[1].data}
        /\ Blocks' = Blocks /\ OfBigs' = OfBigs
    BY <1>1, <1>5, <2>1 DEF Blocks, OfBigs
  <2>4. Parts(Blocks', OfBigs', OfReallocs', freed', given')
    BY <2>2, <2>3 DEF PoolInv, Owned, Parts
  <2>5. Owned'
    BY <2>2, <2>3, <2>4 DEF PoolInv, Owned
  <2>6. NotesKept'
    BY <2>1, <2>2, <2>3 DEF PoolInv, NotesKept
  <2> QED BY <1>2, <2>5, <2>6
<1>6. CASE doing = "blocks"
  <2>1. /\ blocks # <<>> /\ Frees = {blocks[1]}
        /\ frees = <<>> /\ bigs = <<>> /\ reallocs = <<>>
    BY <1>1, <1>6 DEF Left, Frees, PoolInv, LoopsDone
  <2>2. /\ blocks \in Seq(Nat) /\ \A j, k \in DOMAIN blocks : blocks[j] = blocks[k] => j = k
    BY DEF PoolInv, CarvedSeparate, Carved, Owned
  <2>3. /\ 1 \in DOMAIN blocks
        /\ \A k \in DOMAIN blocks' : k + 1 \in DOMAIN blocks /\ blocks'[k] = blocks[k + 1]
        /\ \A k \in DOMAIN blocks : k = 1 \/ (k - 1 \in DOMAIN blocks' /\ blocks'[k - 1] = blocks[k])
        /\ blocks' \in Seq(Nat)
    BY <1>1, <1>6, <2>1, <2>2, WithoutFirst
  <2>4. \A k \in DOMAIN blocks' : k \in Nat \ {0}
    BY <2>3
  <2>5. ASSUME NEW j \in DOMAIN blocks', NEW k \in DOMAIN blocks', blocks'[j] = blocks'[k]
        PROVE  j = k
    <3>1. j + 1 = k + 1
      BY <2>2, <2>3, <2>5
    <3> QED BY <2>4, <3>1
  <2>6. ASSUME NEW x PROVE x \in Blocks' <=> x \in Blocks /\ x # blocks[1]
    <3>1. x \in Blocks' => x \in Blocks
      BY <2>3 DEF Blocks, ToSet
    <3>2. ASSUME x \in Blocks', x = blocks[1] PROVE FALSE
      <4>1. PICK k \in DOMAIN blocks' : blocks'[k] = x
        BY <3>2 DEF Blocks, ToSet
      <4>2. k + 1 = 1
        BY <2>2, <2>3, <3>2, <4>1
      <4> QED BY <2>4, <4>2
    <3>3. x \in Blocks /\ x # blocks[1] => x \in Blocks'
      BY <2>3 DEF Blocks, ToSet
    <3> QED BY <3>1, <3>2, <3>3
  <2>7. Blocks' = Blocks \ {blocks[1]} /\ blocks[1] \in Blocks
    BY <2>3, <2>6 DEF Blocks, ToSet
  <2>8. /\ UNCHANGED <<frees, bigs, reallocs, given>> /\ freed' = freed \cup {blocks[1]}
        /\ OfBigs' = OfBigs /\ OfReallocs' = OfReallocs
    BY <1>1, <1>6, <2>1 DEF OfBigs, OfReallocs
  <2>9. Parts(Blocks', OfBigs', OfReallocs', freed', given')
    BY <2>7, <2>8 DEF PoolInv, Owned, Parts
  <2>10. Owned'
    BY <2>5, <2>8, <2>9 DEF PoolInv, Owned
  <2>11. NotesKept'
    BY <2>1, <2>8 DEF NotesKept
  <2> QED BY <1>2, <2>10, <2>11
<1> QED BY <1>1, <1>3, <1>4, <1>5, <1>6

LEMMA PoolInvStep == PoolInv /\ [PoolNext]_poolVars => PoolInv'
<1> SUFFICES ASSUME PoolInv, [PoolNext]_poolVars PROVE PoolInv'
  OBVIOUS
<1>1. CarvedSeparate'
  BY PoolStep DEF PoolInv
<1>2. ASSUME UNCHANGED <<given, freed, chains>>, LoopsDone' PROVE PoolInv'
  <2>1. UNCHANGED <<given, freed, blocks, bigs, reallocs, frees>>
    BY <1>2 DEF chains
  <2> QED BY <1>1, <1>2, <2>1
       DEF PoolInv, Owned, NotesKept, Blocks, OfBigs, OfReallocs
<1>3. CASE Destroy
  BY <1>2, <1>3 DEF Destroy, chains, PoolInv, LoopsDone
<1>4. CASE DestroyThen
  <2>1. /\ UNCHANGED <<given, freed, chains>> /\ Left = <<>>
        /\ \/ doing = "frees" /\ doing' = "bigs"
           \/ doing = "bigs" /\ doing' = "reallocs"
           \/ doing = "reallocs" /\ doing' = "blocks"
           \/ doing = "blocks" /\ doing' = "pool"
    BY <1>4 DEF DestroyThen, Then
  <2>2. LoopsDone'
    BY <2>1 DEF Left, chains, PoolInv, LoopsDone
  <2> QED BY <1>2, <2>1, <2>2
<1>5. CASE UNCHANGED poolVars
  BY <1>2, <1>5 DEF poolVars, chains, PoolInv, LoopsDone
<1> QED BY <1>1, <1>3, <1>4, <1>5, AllocBigOwns, AllocSmallOwns, ReallocFirstOwns, ReallocOwns,
           AddFreeOwns, DestroyStepOwns DEF PoolInv, PoolNext

\* wuy_pool_destroy() uses no memory that it has freed, a handler's included, frees
\* nothing twice and leaves nothing.
THEOREM DestroyTheorem == PoolSpec => []DestroyFreesAll
<1>1. ASSUME PoolInv PROVE Needs \cap freed = {}
  <2>1. 0 \notin freed /\ given \in Nat
    BY <1>1 DEF PoolInv, Owned, Parts, CarvedSeparate, Carved
  <2>2. Needs \subseteq {0} \cup Blocks \cup OfBigs \cup OfReallocs
    <3>1. CASE Left = <<>>
      BY <3>1 DEF Needs
    <3>2. CASE Left # <<>> /\ doing = "frees"
      <4>1. frees # <<>> /\ Needs = {frees[1].at, frees[1].data} /\ frees \in Seq(Notes)
        BY <1>1, <3>2 DEF Left, Needs, PoolInv, Owned
      <4>2. 1 \in DOMAIN frees
        BY <4>1
      <4> QED BY <1>1, <4>1, <4>2 DEF PoolInv, NotesKept
    <3>3. CASE Left # <<>> /\ doing = "bigs"
      <4>1. bigs # <<>> /\ Needs = {bigs[1].at, bigs[1].data} /\ bigs \in Seq(Notes)
        BY <1>1, <3>3 DEF Left, Needs, PoolInv, Owned
      <4>2. 1 \in DOMAIN bigs
        BY <4>1
      <4> QED BY <1>1, <4>1, <4>2 DEF PoolInv, NotesKept, OfBigs, Datas
    <3>4. CASE Left # <<>> /\ doing = "reallocs"
      <4>1. /\ reallocs # <<>> /\ Needs = {reallocs[1].at, reallocs[1].data}
            /\ reallocs \in Seq(Notes)
        BY <1>1, <3>4 DEF Left, Needs, PoolInv, Owned
      <4>2. 1 \in DOMAIN reallocs
        BY <4>1
      <4> QED BY <1>1, <4>1, <4>2 DEF PoolInv, NotesKept, OfReallocs, Datas
    <3>5. CASE Left # <<>> /\ doing = "blocks"
      <4>1. blocks # <<>> /\ Needs = {blocks[1]} /\ blocks \in Seq(Nat)
        BY <1>1, <3>5 DEF Left, Needs, PoolInv, CarvedSeparate, Carved
      <4>2. 1 \in DOMAIN blocks
        BY <4>1
      <4> QED BY <4>1, <4>2 DEF Blocks, ToSet
    <3> QED BY <3>1, <3>2, <3>3, <3>4, <3>5 DEF Left
  <2> QED BY <1>1, <2>1, <2>2 DEF PoolInv, Owned, Parts
<1>2. ASSUME PoolInv, doing = "pool" PROVE freed = 1 .. given
  <2>1. Blocks = {} /\ OfBigs = {} /\ OfReallocs = {}
    BY <1>2 DEF PoolInv, LoopsDone, Blocks, ToSet, OfBigs, OfReallocs, Datas
  <2> QED BY <1>2, <2>1 DEF PoolInv, Owned, Parts
<1>3. PoolInv => DestroyFreesAll
  BY <1>1, <1>2 DEF DestroyFreesAll
<1> QED BY <1>3, PoolInvInitially, PoolInvStep, PTL DEF PoolSpec

=============================================================================
