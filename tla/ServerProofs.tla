---------------------------- MODULE ServerProofs ----------------------------
(***************************************************************************)
(* What a server reads and waits for besides a message: the event loop,    *)
(* the ranges of a request, and the path it is for.  Each is proved of the *)
(* specification of its own module, for every value of its constants.      *)
(***************************************************************************)
EXTENDS MCHttp, TLAPS, SequenceTheorems, FiniteSetTheorems, WellFoundedInduction

-----------------------------------------------------------------------------
(* The status of descriptors, for any number of them, and whatever calls   *)
(* the kernel refuses: it watches each one for what its status says or,    *)
(* after a refused call, for nothing.  The invariant adds that the status  *)
(* is not clear as long as a refusal is remembered: so a call on a clear   *)
(* status finds nothing watched, and EPOLL_CTL_ADD is what it needs.       *)

EventTypes ==
  /\ status \in [Fds -> SUBSET Flags]
  /\ interest \in [Fds -> SUBSET Flags]
  /\ refused \in [Fds -> BOOLEAN]

RefusalKnown == \A f \in Fds \ Listeners : refused[f] => status[f] # {}

Watched == EventTypes /\ StatusIsInterest /\ RefusalKnown

LEMMA EventInitially == EventInit => Watched
BY DEF EventInit, Watched, EventTypes, StatusIsInterest, RefusalKnown, Flags

\* A call that sets the status to s and asks the kernel for s, by the operation
\* that fits what was watched before.
LEMMA Asks ==
  ASSUME Watched, NEW f \in Fds \ Listeners, NEW s \in SUBSET Flags, s # status[f],
         Sets(f, s),
         \/ status[f] = {} /\ Add(f, s)
         \/ s # {} /\ status[f] # {} /\ Mod(f, s)
         \/ s = {} /\ Del(f)
  PROVE  Watched'
<1>1. /\ status' = [status EXCEPT ![f] = s]
      /\ refused' = [refused EXCEPT ![f] = s # {} /\ (refused[f] \/ interest'[f] = interest[f])]
  BY DEF Sets
<1>2. interest[f] = (IF refused[f] THEN {} ELSE status[f]) /\ (refused[f] => status[f] # {})
  BY DEF Watched, StatusIsInterest, RefusalKnown
<1>3. \/ interest' = [interest EXCEPT ![f] = s] /\ (s # {} => ~refused[f] /\ interest[f] # s)
      \/ interest' = interest /\ interest[f] = {}
  <2>1. CASE status[f] = {} /\ Add(f, s)
    BY <1>2, <2>1 DEF Add, Watch, NotTaken
  <2>2. CASE s # {} /\ status[f] # {} /\ Mod(f, s)
    BY <1>2, <2>2 DEF Mod, Watch, NotTaken
  <2>3. CASE s = {} /\ Del(f)
    BY <1>2, <2>3 DEF Del, Watch, NotTaken
  <2> QED BY <2>1, <2>2, <2>3
<1>4. EventTypes'
  <2>1. interest' \in [Fds -> SUBSET Flags]
    BY <1>3 DEF Watched, EventTypes
  <2>2. status' \in [Fds -> SUBSET Flags]
    BY <1>1 DEF Watched, EventTypes
  <2>3. refused' \in [Fds -> BOOLEAN]
    <3>1. (s # {} /\ (refused[f] \/ interest'[f] = interest[f])) \in BOOLEAN OBVIOUS
    <3> QED BY <1>1, <3>1 DEF Watched, EventTypes
  <2> QED BY <2>1, <2>2, <2>3 DEF EventTypes
<1>5. ASSUME NEW g \in Fds \ Listeners
      PROVE  /\ interest'[g] = IF refused'[g] THEN {} ELSE status'[g]
             /\ refused'[g] => status'[g] # {}
  <2>1. CASE g = f
    <3>1. status'[f] = s /\ (refused'[f] <=> (s # {} /\ (refused[f] \/ interest'[f] = interest[f])))
      BY <1>1 DEF Watched, EventTypes
    <3>2. (interest'[f] = s /\ (s # {} => ~refused[f] /\ interest[f] # s))
          \/ (interest'[f] = {} /\ interest[f] = {})
      BY <1>3 DEF Watched, EventTypes
    <3> QED BY <2>1, <3>1, <3>2
  <2>2. CASE g # f
    <3>1. interest'[g] = interest[g] /\ status'[g] = status[g] /\ refused'[g] = refused[g]
      BY <1>1, <1>3, <2>2 DEF Watched, EventTypes
    <3> QED BY <3>1 DEF Watched, StatusIsInterest, RefusalKnown
  <2> QED BY <2>1, <2>2
<1> QED BY <1>4, <1>5 DEF Watched, StatusIsInterest, RefusalKnown

LEMMA EventStep == Watched /\ [EventNext]_eventVars => Watched'
<1> SUFFICES ASSUME Watched, [EventNext]_eventVars PROVE Watched'
  OBVIOUS
<1>0. \A f \in Fds : status[f] \in SUBSET Flags
  BY DEF Watched, EventTypes
<1>1. ASSUME NEW f \in Fds, NEW flag \in Flags, AddFlag(f, flag) PROVE Watched'
  <2>1. f \in Fds \ Listeners /\ flag \notin status[f] /\ Sets(f, status[f] \cup {flag})
    BY <1>1 DEF AddFlag, User
  <2>2. CASE status[f] = {}
    <3>1. Add(f, {flag}) /\ status[f] \cup {flag} = {flag} BY <1>1, <2>2 DEF AddFlag
    <3> QED BY <2>1, <2>2, <3>1, Asks
  <2>3. CASE status[f] # {}
    <3>1. Mod(f, Flags) BY <1>1, <2>3 DEF AddFlag
    <3>2. status[f] \cup {flag} = Flags BY <1>0, <2>1, <2>3 DEF Flags
    <3> QED BY <2>1, <2>3, <3>1, <3>2, Asks
  <2> QED BY <2>2, <2>3
<1>2. ASSUME NEW f \in Fds, NEW flag \in Flags, DelFlag(f, flag) PROVE Watched'
  <2>1. f \in Fds \ Listeners /\ flag \in status[f] /\ Sets(f, status[f] \ {flag})
    BY <1>2 DEF DelFlag, User
  <2>2. status[f] \ {flag} \in SUBSET Flags /\ status[f] \ {flag} # status[f]
    BY <1>0, <2>1
  <2>3. CASE status[f] = {flag}
    <3>1. Del(f) /\ status[f] \ {flag} = {} BY <1>2, <2>3 DEF DelFlag
    <3> QED BY <2>1, <2>2, <3>1, Asks
  <2>4. CASE status[f] # {flag}
    <3>1. Mod(f, status[f] \ {flag}) /\ status[f] \ {flag} # {}
      BY <1>2, <2>1, <2>4 DEF DelFlag
    <3> QED BY <2>1, <2>2, <3>1, Asks
  <2> QED BY <2>3, <2>4
<1>3. ASSUME NEW f \in Fds, AddBoth(f) PROVE Watched'
  <2>1. f \in Fds \ Listeners /\ status[f] # Flags /\ Sets(f, Flags)
        /\ (status[f] = {} => Add(f, Flags)) /\ (status[f] # {} => Mod(f, Flags))
    BY <1>3 DEF AddBoth, User
  <2>2. Flags # {} BY DEF Flags
  <2> QED BY <2>1, <2>2, Asks
<1>4. ASSUME NEW f \in Fds, DelBoth(f) PROVE Watched'
  <2>1. f \in Fds \ Listeners /\ status[f] # {} /\ Sets(f, {}) /\ Del(f)
    BY <1>4 DEF DelBoth, User
  <2> QED BY <2>1, Asks
<1>5. ASSUME NEW f \in Fds, AddListen(f) PROVE Watched'
  <2>1. f \in Listeners /\ interest' = [interest EXCEPT ![f] = {"read"}]
        /\ UNCHANGED <<status, refused>>
    BY <1>5 DEF AddListen, Watch
  <2> QED BY <2>1 DEF Watched, EventTypes, StatusIsInterest, RefusalKnown, Flags
<1>6. ASSUME UNCHANGED <<status, interest, refused>> PROVE Watched'
  BY <1>6 DEF Watched, EventTypes, StatusIsInterest, RefusalKnown
<1>7. ASSUME NEW f \in Fds, NEW c \in Happenings, Happens(f, c) \/ Over(f, c) PROVE Watched'
  BY <1>6, <1>7 DEF Happens, Over
<1>8. ASSUME Run \/ HandleNext \/ UNCHANGED eventVars PROVE Watched'
  BY <1>6, <1>8 DEF Run, HandleNext, eventVars
<1> QED BY <1>1, <1>2, <1>3, <1>4, <1>5, <1>7, <1>8 DEF EventNext

\* The status bits and the kernel never disagree, whatever the user calls and in
\* whatever order, but for descriptors with a refused call, which are not
\* watched at all until their status is clear.
THEOREM StatusTheorem == EventSpec => []StatusIsInterest
<1>1. Watched => StatusIsInterest BY DEF Watched
<1> QED BY <1>1, EventInitially, EventStep, PTL DEF EventSpec

\* The same for the run, but for its setting with a listener, which is another
\* instance of Event.
THEOREM WatchedAlways == EventSpec /\ [](part # "listen") => []WatchedAsAsked
<1>1. part # "listen" /\ StatusIsInterest => WatchedAsAsked
  BY DEF WatchedAsAsked
<1> QED BY <1>1, StatusTheorem, PTL

-----------------------------------------------------------------------------
(* Ranges.  RangeParsed is a function because there is one up to each of   *)
(* its arguments, and these agree.                                         *)

LEMMA LeastOf ==
  ASSUME NEW T, T \subseteq Nat, T # {}
  PROVE  \E m \in T : \A n \in T : m =< n
<1> DEFINE R == OpToRel(<, Nat)
<1>1. IsWellFoundedOn(R, Nat)
  BY NatLessThanWellFounded
<1>2. \A x, y \in Nat : x < y => <<x, y>> \in R
  BY DEF OpToRel
<1> HIDE DEF R
<1>3. PICK m \in T : \A n \in T : ~(<<n, m>> \in R)
  BY <1>1, WFMin
<1>4. \A n \in T : n \in Nat /\ ~(n < m)
  BY <1>2, <1>3
<1> QED BY <1>4

Unread == [ok |-> TRUE, ranges |-> <<>>]

IsParse(f, N) == f[0] = Unread /\ \A n \in 1 .. N : f[n] = RangeStep(f[n - 1], asked[n])

LEMMA ParsesExist == \A N \in Nat : \E f : IsParse(f, N)
<1> DEFINE Missing == {N \in Nat : ~\E f : IsParse(f, N)}
<1> SUFFICES ASSUME Missing # {} PROVE FALSE
  OBVIOUS
<1>1. PICK N \in Missing : \A n \in Missing : N =< n
  <2>1. Missing \subseteq Nat
    OBVIOUS
  <2> HIDE DEF Missing
  <2> QED BY <2>1, LeastOf
<1>2. N # 0
  <2>1. IsParse([n \in {0} |-> Unread], 0)
    BY DEF IsParse
  <2> QED BY <1>1, <2>1
<1>3. N \in Nat /\ N - 1 \in Nat /\ ~(N =< N - 1)
  BY <1>1, <1>2
<1>4. PICK f : IsParse(f, N - 1)
  BY <1>1, <1>3
<1> DEFINE g == [n \in 0 .. N |-> IF n = N THEN RangeStep(f[N - 1], asked[N]) ELSE f[n]]
<1>5. g[0] = Unread /\ \A n \in 1 .. N - 1 : g[n] = f[n] /\ g[n - 1] = f[n - 1]
  BY <1>2, <1>3, <1>4 DEF IsParse
<1>6. g[N] = RangeStep(f[N - 1], asked[N]) /\ g[N - 1] = f[N - 1]
  BY <1>3
<1> HIDE DEF g
<1>7. \A n \in 1 .. N : n = N \/ n \in 1 .. N - 1
  BY <1>3
<1>8. IsParse(g, N)
  BY <1>4, <1>5, <1>6, <1>7 DEF IsParse
<1> QED BY <1>1, <1>8

LEMMA ParsesAgree ==
  ASSUME NEW f, NEW g, NEW N \in Nat, NEW M \in Nat, IsParse(f, N), IsParse(g, M)
  PROVE  \A n \in Nat : n =< N /\ n =< M => f[n] = g[n]
<1> DEFINE Differ == {n \in Nat : n =< N /\ n =< M /\ f[n] # g[n]}
<1> SUFFICES ASSUME Differ # {} PROVE FALSE
  OBVIOUS
<1>1. PICK n \in Differ : \A k \in Differ : n =< k
  <2>1. Differ \subseteq Nat
    OBVIOUS
  <2> HIDE DEF Differ
  <2> QED BY <2>1, LeastOf
<1>2. n # 0
  BY <1>1 DEF IsParse
<1>3. n - 1 \in Nat /\ n - 1 =< N /\ n - 1 =< M /\ ~(n =< n - 1) /\ n \in 1 .. N /\ n \in 1 .. M
  BY <1>1, <1>2
<1>4. f[n - 1] = g[n - 1]
  BY <1>1, <1>3
<1>5. f[n] = g[n]
  BY <1>3, <1>4 DEF IsParse
<1> QED BY <1>1, <1>5

LEMMA RangeParsedIs ==
  /\ RangeParsed[0] = Unread
  /\ \A n \in Nat : RangeParsed[n + 1] = RangeStep(RangeParsed[n], asked[n + 1])
<1> DEFINE of(n) == CHOOSE f : IsParse(f, n)
           h == [n \in Nat |-> of(n)[n]]
<1>1. \A n \in Nat : IsParse(of(n), n)
  BY ParsesExist
<1> HIDE DEF of
<1>2. ASSUME NEW n \in Nat
      PROVE  h[n] = IF n = 0 THEN Unread ELSE RangeStep(h[n - 1], asked[n])
  <2>1. CASE n = 0
    BY <1>1, <2>1 DEF IsParse
  <2>2. CASE n # 0
    <3>1. n - 1 \in Nat /\ n - 1 =< n /\ n \in 1 .. n
      BY <2>2
    <3>2. of(n - 1)[n - 1] = of(n)[n - 1]
      BY <1>1, <3>1, ParsesAgree
    <3>3. of(n)[n] = RangeStep(of(n)[n - 1], asked[n])
      BY <1>1, <3>1 DEF IsParse
    <3> QED BY <2>2, <3>1, <3>2, <3>3
  <2> QED BY <2>1, <2>2
<1>3. h = [n \in Nat |-> IF n = 0 THEN Unread ELSE RangeStep(h[n - 1], asked[n])]
  BY <1>2
<1> HIDE DEF h
<1>4. RangeParsed
        = CHOOSE f : f = [n \in Nat |-> IF n = 0 THEN Unread ELSE RangeStep(f[n - 1], asked[n])]
  BY DEF RangeParsed, Unread
<1>5. RangeParsed
        = [n \in Nat |-> IF n = 0 THEN Unread ELSE RangeStep(RangeParsed[n - 1], asked[n])]
  BY <1>3, <1>4
<1>6. \A n \in Nat : n + 1 \in Nat /\ n + 1 # 0 /\ n + 1 - 1 = n
  OBVIOUS
<1> QED BY <1>5, <1>6

\* The numbers a header can hold.
RangeTypes == asked \in Seq(AskedRanges) /\ total \in Nat /\ room \in Nat

Spans == [first : Int, last : Int]
Parses == [ok : BOOLEAN, ranges : Seq(Spans)]

\* The last of the ranges ends the furthest of those counted.
EndsLast(ranges, n) ==
  /\ ranges = <<>> => Counted(n) = {}
  /\ ranges # <<>> => /\ \E j \in Counted(n) : Meant(asked[j]) = Last(ranges)
                      /\ \A j \in Counted(n) : Meant(asked[j]).last =< Last(ranges).last

\* What the parser has come to behind n of the ranges.
ReadUpTo(s, n) ==
  /\ s \in Parses
  /\ s.ok <=> \A i \in 1 .. n : Accepted(i)
  /\ s.ok => /\ Cardinality(Counted(n)) = Len(s.ranges)
             /\ \A j \in Counted(n) : Meant(asked[j]).last =< total - 1
             /\ EndsLast(s.ranges, n)
             /\ Gives(s.ranges, n)

LEMMA NumbersIn ==
  ASSUME NEW r \in AskedRanges
  PROVE  /\ r.from \in Nat \/ r.from = NoNumber
         /\ r.to \in Nat \/ r.to = NoNumber
         /\ r = Garbled <=> r.from = NoNumber /\ r.to = NoNumber
<1>1. r.from \in Positions \cup {NoNumber} /\ r.to \in Positions \cup {NoNumber}
  BY DEF AskedRanges
<1>2. r = Garbled <=> r.from = NoNumber /\ r.to = NoNumber
  <2>1. r = [from |-> r.from, to |-> r.to]
    BY DEF AskedRanges
  <2> QED BY <2>1 DEF Garbled
<1> QED BY <1>1, <1>2, RangeAssumption

\* Where ranges end, and which of those with a first byte can be satisfied.
LEMMA SatisfiableIs ==
  ASSUME NEW r \in AskedRanges, total \in Nat
  PROVE  /\ Meant(r) \in Spans
         /\ Open(r) => ~Suffix(r)
         /\ Suffix(r) => Meant(r).last = total - 1
         /\ ~Suffix(r) => /\ r # Garbled /\ Meant(r).first = r.from /\ r.from \in Nat
                          /\ Meant(r).last =< total - 1
                          /\ Satisfiable(r) <=> /\ ~(r.from >= total)
                                                /\ ~(~Open(r) /\ r.to < r.from)
                          /\ Satisfiable(r) => r.from =< Meant(r).last
<1>1. CASE Suffix(r)
  <2>1. r.to \in Nat \/ r.to = NoNumber
    BY NumbersIn
  <2>2. Meant(r) = [first |-> IF r.to < total THEN total - r.to ELSE 0, last |-> total - 1]
    BY <1>1 DEF Meant
  <2>3. Meant(r) \in Spans
    BY <2>1, <2>2 DEF Spans, NoNumber
  <2>4. ~Open(r)
    BY <1>1, NumbersIn DEF Open, Suffix
  <2> QED BY <1>1, <2>2, <2>3, <2>4
<1>2. CASE ~Suffix(r)
  <2>1. r.from \in Nat /\ r # Garbled /\ (r.to \in Nat \/ r.to = NoNumber)
        /\ (Open(r) <=> r.to = NoNumber)
    BY <1>2, NumbersIn DEF Suffix, Open
  <2>2. Meant(r) = [first |-> r.from,
                    last |-> IF Open(r) \/ r.to >= total THEN total - 1 ELSE r.to]
    BY <1>2 DEF Meant
  <2>3. Meant(r).first = r.from
        /\ Meant(r).last = IF Open(r) \/ r.to >= total THEN total - 1 ELSE r.to
    BY <2>2
  <2>4. Meant(r).last \in Int /\ Meant(r).last =< total - 1
    BY <2>1, <2>3 DEF NoNumber
  <2>5. Meant(r) \in Spans
    BY <2>1, <2>2, <2>3, <2>4 DEF Spans
  <2>6. Satisfiable(r) <=> r.from < total /\ r.from =< Meant(r).last
    BY <2>1, <2>3 DEF Satisfiable
  <2>7. Satisfiable(r) <=> ~(r.from >= total) /\ ~(~Open(r) /\ r.to < r.from)
    <3>1. CASE Open(r)
      BY <2>1, <2>3, <2>6, <3>1
    <3>2. CASE ~Open(r)
      BY <2>1, <2>3, <2>6, <3>2
    <3> QED BY <3>1, <3>2
  <2> QED BY <1>2, <2>1, <2>3, <2>4, <2>5, <2>6, <2>7
<1> QED BY <1>1, <1>2

\* One more range is counted, or not.
LEMMA CountedOneMore ==
  ASSUME NEW n \in Nat
  PROVE  /\ Open(asked[n + 1]) => Counted(n + 1) = Counted(n)
         /\ ~Open(asked[n + 1]) => Counted(n + 1) = Counted(n) \cup {n + 1}
         /\ IsFiniteSet(Counted(n)) /\ Cardinality(Counted(n)) \in Nat
         /\ ~Open(asked[n + 1]) => Cardinality(Counted(n + 1)) = Cardinality(Counted(n)) + 1
<1>1. \A i : i \in 1 .. n + 1 <=> i \in 1 .. n \/ i = n + 1
  OBVIOUS
<1>2. /\ Open(asked[n + 1]) => Counted(n + 1) = Counted(n)
      /\ ~Open(asked[n + 1]) => Counted(n + 1) = Counted(n) \cup {n + 1}
  BY <1>1 DEF Counted
<1>3. IsFiniteSet(1 .. n)
  BY FS_Interval
<1>4. Counted(n) \subseteq 1 .. n
  BY DEF Counted
<1>5. IsFiniteSet(Counted(n)) /\ Cardinality(Counted(n)) \in Nat
  BY <1>3, <1>4, FS_Subset, FS_CardinalityType
<1>6. ~(n + 1 \in Counted(n))
  BY <1>4
<1>7. Cardinality(Counted(n) \cup {n + 1}) = Cardinality(Counted(n)) + 1
  BY <1>5, <1>6, FS_AddElement
<1> QED BY <1>2, <1>5, <1>7

LEMMA Appended ==
  ASSUME NEW S, NEW n \in Nat, NEW t \in Seq(S), Len(t) = n, NEW x \in S, NEW u, u = Append(t, x)
  PROVE  u \in Seq(S) /\ Len(u) = n + 1 /\ u[n + 1] = x /\ \A i \in 1 .. n : u[i] = t[i]
OBVIOUS

\* What is given stays given behind an open range.
LEMMA GivesSame ==
  ASSUME NEW n \in Nat, NEW ranges, Gives(ranges, n), Len(ranges) \in Nat, Open(asked[n + 1])
  PROVE  Gives(ranges, n + 1)
<1>1. PICK at \in [1 .. Len(ranges) -> 1 .. n] :
        /\ \A i, j \in 1 .. Len(ranges) : i < j => at[i] < at[j]
        /\ {at[i] : i \in 1 .. Len(ranges)} = Counted(n)
        /\ \A i \in 1 .. Len(ranges) : ranges[i] = Meant(asked[at[i]])
  BY DEF Gives
<1>2. at \in [1 .. Len(ranges) -> 1 .. n + 1]
  <2>1. \A i \in 1 .. n : i \in 1 .. n + 1
    OBVIOUS
  <2> QED BY <2>1
<1>3. Counted(n + 1) = Counted(n)
  BY CountedOneMore
<1> QED BY <1>1, <1>2, <1>3 DEF Gives

\* And with one more that is taken.
LEMMA GivesMore ==
  ASSUME NEW n \in Nat, NEW ranges \in Seq(Spans), Gives(ranges, n), ~Open(asked[n + 1]),
         Meant(asked[n + 1]) \in Spans
  PROVE  Gives(Append(ranges, Meant(asked[n + 1])), n + 1)
<1> DEFINE x == Meant(asked[n + 1])
           u == Append(ranges, x)
<1>1. PICK at \in [1 .. Len(ranges) -> 1 .. n] :
        /\ \A i, j \in 1 .. Len(ranges) : i < j => at[i] < at[j]
        /\ {at[i] : i \in 1 .. Len(ranges)} = Counted(n)
        /\ \A i \in 1 .. Len(ranges) : ranges[i] = Meant(asked[at[i]])
  BY DEF Gives
<1>2. PICK l \in Nat : l = Len(ranges)
  OBVIOUS
<1>3. Len(u) = l + 1 /\ u[l + 1] = x /\ \A i \in 1 .. l : u[i] = ranges[i]
  BY <1>2, Appended
<1> DEFINE more == [i \in 1 .. l + 1 |-> IF i = l + 1 THEN n + 1 ELSE at[i]]
<1> HIDE DEF u
<1>4. /\ \A i \in 1 .. l + 1 : i = l + 1 \/ i \in 1 .. l
      /\ \A i \in 1 .. l : i \in 1 .. l + 1 /\ i # l + 1 /\ i < l + 1 /\ ~(l + 1 < i)
      /\ l + 1 \in 1 .. l + 1 /\ ~(l + 1 < l + 1)
      /\ \A i \in 1 .. n : i \in 1 .. n + 1 /\ i < n + 1
      /\ n + 1 \in 1 .. n + 1
  BY <1>2
<1>5. more[l + 1] = n + 1 /\ \A i \in 1 .. l : more[i] = at[i] /\ at[i] \in 1 .. n
  BY <1>1, <1>2, <1>4
<1>6. more \in [1 .. l + 1 -> 1 .. n + 1]
  BY <1>1, <1>2, <1>4
<1> HIDE DEF more
<1>7. \A i, j \in 1 .. l + 1 : i < j => more[i] < more[j]
  <2> SUFFICES ASSUME NEW i \in 1 .. l + 1, NEW j \in 1 .. l + 1, i < j PROVE more[i] < more[j]
    OBVIOUS
  <2>1. i \in 1 .. l
    BY <1>2
  <2>2. CASE j = l + 1
    BY <1>4, <1>5, <2>1, <2>2
  <2>3. CASE j \in 1 .. l
    BY <1>1, <1>2, <1>5, <2>1, <2>3
  <2> QED BY <1>4, <2>2, <2>3
<1>8. {more[i] : i \in 1 .. l + 1} = Counted(n + 1)
  <2>1. {more[i] : i \in 1 .. l + 1} = {at[i] : i \in 1 .. l} \cup {n + 1}
    <3>1. \A k : (\E i \in 1 .. l + 1 : k = more[i]) <=> (\E i \in 1 .. l : k = at[i]) \/ k = n + 1
      BY <1>4, <1>5
    <3> QED BY <3>1
  <2>2. {at[i] : i \in 1 .. l} = Counted(n)
    BY <1>1, <1>2
  <2> QED BY <2>1, <2>2, CountedOneMore
<1>9. \A i \in 1 .. l + 1 : u[i] = Meant(asked[more[i]])
  <2> SUFFICES ASSUME NEW i \in 1 .. l + 1 PROVE u[i] = Meant(asked[more[i]])
    OBVIOUS
  <2>1. CASE i = l + 1
    BY <1>3, <1>5, <2>1
  <2>2. CASE i \in 1 .. l
    BY <1>1, <1>2, <1>3, <1>5, <2>2
  <2> QED BY <1>4, <2>1, <2>2
<1>10. Gives(u, n + 1)
  BY <1>3, <1>6, <1>7, <1>8, <1>9 DEF Gives
<1> QED BY <1>10 DEF u

\* All of them are accepted, one more or not.
LEMMA AcceptedOneMore ==
  ASSUME NEW n \in Nat
  PROVE  (\A i \in 1 .. n + 1 : Accepted(i)) <=> (\A i \in 1 .. n : Accepted(i)) /\ Accepted(n + 1)
<1>1. /\ \A i \in 1 .. n + 1 : i = n + 1 \/ i \in 1 .. n
      /\ \A i \in 1 .. n : i \in 1 .. n + 1
      /\ n + 1 \in 1 .. n + 1
  OBVIOUS
<1> QED BY <1>1

\* The one that is looked at, after those that were taken.
LEMMA AcceptedIs ==
  ASSUME RangeTypes, NEW n \in Nat, n + 1 \in 1 .. Len(asked),
         NEW r \in AskedRanges, r = asked[n + 1], NEW s, ReadUpTo(s, n), s.ok
  PROVE  Accepted(n + 1)
           <=> /\ ~(Len(s.ranges) > room \/ r = Garbled)
               /\ ~Suffix(r) => /\ ~(r.from >= total)
                                /\ ~(s.ranges # <<>> /\ r.from =< Last(s.ranges).last)
                                /\ ~(~Open(r) /\ r.to < r.from)
<1>1. total \in Nat /\ room \in Nat /\ s.ranges \in Seq(Spans)
  BY DEF RangeTypes, ReadUpTo, Parses
<1>2. Cardinality(Counted(n)) = Len(s.ranges) /\ EndsLast(s.ranges, n) /\ Len(s.ranges) \in Nat
  BY <1>1 DEF ReadUpTo
<1>3. Accepted(n + 1)
        <=> /\ r # Garbled
            /\ Suffix(r) \/ (Satisfiable(r)
                              /\ \A j \in Counted(n) : Meant(asked[j]).last < Meant(r).first)
            /\ Cardinality(Counted(n)) =< room
  <2>1. n + 1 - 1 = n
    OBVIOUS
  <2> QED BY <2>1 DEF Accepted
<1>4. Cardinality(Counted(n)) =< room <=> ~(Len(s.ranges) > room)
  BY <1>1, <1>2
<1>5. CASE Suffix(r)
  BY <1>3, <1>4, <1>5
<1>6. CASE ~Suffix(r)
  <2>1. /\ r # Garbled /\ Meant(r).first = r.from /\ r.from \in Nat
        /\ Satisfiable(r) <=> ~(r.from >= total) /\ ~(~Open(r) /\ r.to < r.from)
    BY <1>1, <1>6, SatisfiableIs
  <2>2. \A j \in Counted(n) : Meant(asked[j]).last \in Int
    <3> SUFFICES ASSUME NEW j \in Counted(n) PROVE Meant(asked[j]).last \in Int
      OBVIOUS
    <3>1. j \in 1 .. Len(asked)
      BY DEF Counted, RangeTypes
    <3>2. asked[j] \in AskedRanges
      BY <3>1 DEF RangeTypes
    <3>3. Meant(asked[j]) \in Spans
      BY <1>1, <3>2, SatisfiableIs
    <3> QED BY <3>3 DEF Spans
  <2>3. (\A j \in Counted(n) : Meant(asked[j]).last < r.from)
          <=> ~(s.ranges # <<>> /\ r.from =< Last(s.ranges).last)
    <3>1. CASE s.ranges = <<>>
      BY <1>2, <3>1 DEF EndsLast
    <3>2. CASE s.ranges # <<>>
      <4>1. PICK L : L = Last(s.ranges).last
        OBVIOUS
      <4>2. /\ \E j \in Counted(n) : Meant(asked[j]).last = L
            /\ \A j \in Counted(n) : Meant(asked[j]).last =< L
        BY <1>2, <3>2, <4>1 DEF EndsLast
      <4>3. L \in Int
        BY <2>2, <4>2
      <4>4. (\A j \in Counted(n) : Meant(asked[j]).last < r.from) <=> ~(r.from =< L)
        BY <2>1, <2>2, <4>2, <4>3
      <4> QED BY <3>2, <4>1, <4>4
    <3> QED BY <3>1, <3>2
  <2> QED BY <1>3, <1>4, <1>6, <2>1, <2>3
<1> QED BY <1>5, <1>6

\* An accepted range ends behind those before it, and within the data.
LEMMA AcceptedEnds ==
  ASSUME RangeTypes, NEW n \in Nat, NEW r \in AskedRanges, r = asked[n + 1], Accepted(n + 1),
         \A j \in Counted(n) : Meant(asked[j]).last =< total - 1,
         \A j \in Counted(n) : Meant(asked[j]).last \in Int
  PROVE  /\ Meant(r).last =< total - 1
         /\ \A j \in Counted(n) : Meant(asked[j]).last =< Meant(r).last
<1>1. total \in Nat /\ Meant(r).last \in Int
  BY SatisfiableIs DEF RangeTypes, Spans
<1>2. CASE Suffix(r)
  BY <1>1, <1>2, SatisfiableIs
<1>3. CASE ~Suffix(r)
  <2>1. Satisfiable(r) /\ \A j \in Counted(n) : Meant(asked[j]).last < Meant(r).first
    <3>1. n + 1 - 1 = n
      OBVIOUS
    <3> QED BY <1>3, <3>1 DEF Accepted
  <2>2. Meant(r).last =< total - 1 /\ Meant(r).first =< Meant(r).last /\ Meant(r).first \in Int
    BY <1>1, <1>3, <2>1, SatisfiableIs
  <2> QED BY <1>1, <2>1, <2>2
<1> QED BY <1>2, <1>3

\* Taking an accepted range.
LEMMA TakesOne ==
  ASSUME RangeTypes, NEW n \in Nat, n + 1 \in 1 .. Len(asked),
         NEW r \in AskedRanges, r = asked[n + 1], NEW s, ReadUpTo(s, n), s.ok,
         Accepted(n + 1), ~Open(r)
  PROVE  ReadUpTo(Take(s, Meant(r)), n + 1)
<1> DEFINE x == Meant(r)
           u == Append(s.ranges, x)
<1>1. /\ s \in Parses /\ s.ranges \in Seq(Spans) /\ Len(s.ranges) \in Nat
      /\ Cardinality(Counted(n)) = Len(s.ranges) /\ EndsLast(s.ranges, n) /\ Gives(s.ranges, n)
      /\ \A j \in Counted(n) : Meant(asked[j]).last =< total - 1
      /\ \A i \in 1 .. n : Accepted(i)
  BY DEF ReadUpTo, Parses
<1>2. x \in Spans
  BY SatisfiableIs DEF RangeTypes
<1> HIDE DEF x
<1>3. u \in Seq(Spans) /\ Len(u) = Len(s.ranges) + 1 /\ u[Len(s.ranges) + 1] = x
  BY <1>1, <1>2, Appended
<1>33. Take(s, x) = [s EXCEPT !.ranges = u]
  BY DEF Take
<1>34. /\ Take(s, x) \in Parses /\ Take(s, x).ok = s.ok /\ Take(s, x).ranges = u
  <2> HIDE DEF u
  <2> QED BY <1>1, <1>3, <1>33 DEF Parses
<1>4. Counted(n + 1) = Counted(n) \cup {n + 1}
      /\ Cardinality(Counted(n + 1)) = Cardinality(Counted(n)) + 1
  BY CountedOneMore
<1>5. \A j \in Counted(n) : Meant(asked[j]).last \in Int
  <2> SUFFICES ASSUME NEW j \in Counted(n) PROVE Meant(asked[j]).last \in Int
    OBVIOUS
  <2>1. j \in 1 .. Len(asked)
    BY DEF Counted, RangeTypes
  <2>2. asked[j] \in AskedRanges
    BY <2>1 DEF RangeTypes
  <2>3. Meant(asked[j]) \in Spans
    BY <2>2, SatisfiableIs DEF RangeTypes
  <2> QED BY <2>3 DEF Spans
<1>6. x.last =< total - 1 /\ \A j \in Counted(n) : Meant(asked[j]).last =< x.last
  BY <1>1, <1>5, AcceptedEnds DEF x
<1>7. /\ u \in Seq(Spans) /\ Len(u) = Len(s.ranges) + 1 /\ u[Len(u)] = x /\ u # <<>>
  <2> HIDE DEF u
  <2>1. Len(u) # 0
    BY <1>1, <1>3
  <2> QED BY <1>3, <2>1
<1>8. Last(u) = x
  BY <1>7 DEF Last
<1>9. x.last =< x.last
  BY <1>2 DEF Spans
<1>10. EndsLast(u, n + 1)
  BY <1>4, <1>6, <1>7, <1>8, <1>9 DEF EndsLast, x
<1>11. Gives(u, n + 1)
  BY <1>1, <1>2, GivesMore DEF x
<1>12. \A i \in 1 .. n + 1 : Accepted(i)
  BY <1>1, AcceptedOneMore
<1>13. \A j \in Counted(n + 1) : Meant(asked[j]).last =< total - 1
  BY <1>1, <1>4, <1>6 DEF x
<1>14. Cardinality(Counted(n + 1)) = Len(u)
  BY <1>1, <1>4, <1>7
<1> HIDE DEF u
<1>15. ReadUpTo(Take(s, x), n + 1)
  BY <1>34, <1>10, <1>11, <1>12, <1>13, <1>14 DEF ReadUpTo
<1> QED BY <1>15 DEF x

\* One iteration of the parser's loop.
LEMMA OneRange ==
  ASSUME RangeTypes, NEW n \in Nat, n + 1 \in 1 .. Len(asked), NEW s, ReadUpTo(s, n)
  PROVE  ReadUpTo(RangeStep(s, asked[n + 1]), n + 1)
<1>1. PICK r \in AskedRanges : r = asked[n + 1]
  BY DEF RangeTypes
<1>2. s \in Parses /\ s.ok \in BOOLEAN
  BY DEF ReadUpTo, Parses
<1>3. Refuse(s) \in Parses /\ ~Refuse(s).ok
  BY <1>2 DEF Refuse, Parses
<1>4. ASSUME RangeStep(s, r) = Refuse(s), ~s.ok \/ ~Accepted(n + 1)
      PROVE  ReadUpTo(RangeStep(s, r), n + 1)
  <2>1. ~\A i \in 1 .. n + 1 : Accepted(i)
    BY <1>4, AcceptedOneMore DEF ReadUpTo
  <2> QED BY <1>3, <1>4, <2>1 DEF ReadUpTo
<1>5. CASE ~s.ok
  BY <1>1, <1>4, <1>5 DEF RangeStep
<1>6. CASE s.ok
  <2> DEFINE Full == Len(s.ranges) > room \/ r = Garbled
             Refused == \/ r.from >= total
                        \/ s.ranges # <<>> /\ r.from =< Last(s.ranges).last
                        \/ ~Open(r) /\ r.to < r.from
  <2>1. Accepted(n + 1) <=> ~Full /\ (~Suffix(r) => ~Refused)
    BY <1>1, <1>6, AcceptedIs
  <2>2. RangeStep(s, r) = IF Full THEN Refuse(s)
                          ELSE IF Suffix(r) THEN Take(s, Meant(r))
                          ELSE IF Refused THEN Refuse(s)
                          ELSE IF Open(r) THEN s ELSE Take(s, Meant(r))
    BY <1>6 DEF RangeStep
  <2>3. Open(r) => ~Suffix(r)
    BY SatisfiableIs DEF RangeTypes
  <2> HIDE DEF Full, Refused
  <2>4. CASE ~Accepted(n + 1)
    BY <1>1, <1>4, <2>1, <2>2, <2>4
  <2>5. CASE Accepted(n + 1) /\ ~Open(r)
    <3>1. RangeStep(s, r) = Take(s, Meant(r))
      BY <2>1, <2>2, <2>5
    <3> QED BY <1>1, <1>6, <2>5, <3>1, TakesOne
  <2>6. CASE Accepted(n + 1) /\ Open(r)
    <3>1. RangeStep(s, r) = s
      BY <2>1, <2>2, <2>3, <2>6
    <3>2. Counted(n + 1) = Counted(n)
      BY <1>1, <2>6, CountedOneMore
    <3>3. Gives(s.ranges, n + 1)
      BY <1>1, <1>2, <1>6, <2>6, GivesSame DEF ReadUpTo, Parses
    <3>4. \A i \in 1 .. n + 1 : Accepted(i)
      BY <1>6, <2>6, AcceptedOneMore DEF ReadUpTo
    <3>5. ReadUpTo(s, n + 1)
      BY <1>6, <3>2, <3>3, <3>4 DEF ReadUpTo, EndsLast
    <3> QED BY <1>1, <3>1, <3>5
  <2> QED BY <2>4, <2>5, <2>6
<1> QED BY <1>2, <1>5, <1>6

\* All iterations.
LEMMA AllRanges ==
  ASSUME RangeTypes
  PROVE  \A n \in 0 .. Len(asked) : ReadUpTo(RangeParsed[n], n)
<1> DEFINE Wrong == {n \in 0 .. Len(asked) : ~ReadUpTo(RangeParsed[n], n)}
<1>0. Len(asked) \in Nat
  BY DEF RangeTypes
<1> SUFFICES ASSUME Wrong # {} PROVE FALSE
  OBVIOUS
<1>1. PICK m \in Wrong : \A k \in Wrong : m =< k
  <2>1. Wrong \subseteq Nat
    BY <1>0
  <2> HIDE DEF Wrong
  <2> QED BY <2>1, LeastOf
<1>2. m \in Nat /\ m =< Len(asked) /\ ~ReadUpTo(RangeParsed[m], m)
  BY <1>0, <1>1
<1>3. m # 0
  <2>1. Counted(0) = {} /\ Cardinality({}) = 0
    BY FS_EmptySet DEF Counted
  <2>2. Unread \in Parses /\ Unread.ok /\ Unread.ranges = <<>> /\ Len(<<>>) = 0
    BY DEF Unread, Parses
  <2>3. Gives(<<>>, 0)
    <3> DEFINE at == [i \in {} |-> 0]
    <3>1. at \in [1 .. Len(<<>>) -> 1 .. 0]
      OBVIOUS
    <3>2. {at[k] : k \in 1 .. Len(<<>>)} = {}
      OBVIOUS
    <3>3. 1 .. Len(<<>>) = {}
      OBVIOUS
    <3>4. \E f \in [1 .. Len(<<>>) -> 1 .. 0] : {f[k] : k \in 1 .. Len(<<>>)} = {}
      BY <3>1, <3>2
    <3> HIDE DEF at
    <3> QED BY <2>1, <3>3, <3>4 DEF Gives
  <2>4. EndsLast(<<>>, 0)
    BY <2>1 DEF EndsLast
  <2>5. \A i \in 1 .. 0 : Accepted(i)
    OBVIOUS
  <2>6. ReadUpTo(Unread, 0)
    BY <2>1, <2>2, <2>3, <2>4, <2>5 DEF ReadUpTo
  <2> QED BY <1>2, <2>6, RangeParsedIs
<1>4. PICK n \in Nat : m = n + 1
  <2>1. m - 1 \in Nat /\ m = (m - 1) + 1
    BY <1>2, <1>3
  <2> QED BY <2>1
<1>5. n \in 0 .. Len(asked) /\ n + 1 \in 1 .. Len(asked) /\ ~(m =< n)
  BY <1>0, <1>2, <1>4
<1>6. ReadUpTo(RangeParsed[n], n)
  BY <1>1, <1>5
<1> HIDE DEF Wrong
<1>7. PICK s : s = RangeParsed[n]
  OBVIOUS
<1>8. ReadUpTo(RangeStep(s, asked[n + 1]), n + 1)
  BY <1>5, <1>6, <1>7, OneRange
<1>9. RangeParsed[n + 1] = RangeStep(s, asked[n + 1])
  BY <1>7, RangeParsedIs
<1> QED BY <1>2, <1>4, <1>8, <1>9

LEMMA RangesStay == RangeTypes /\ [RangeNext]_rangeVars => RangeTypes'
<1> SUFFICES ASSUME RangeTypes, [RangeNext]_rangeVars PROVE RangeTypes'
  OBVIOUS
<1>1. ASSUME NEW r \in AskedRanges, Ask(r) PROVE RangeTypes'
  BY <1>1 DEF RangeTypes, Ask
<1>2. CASE UNCHANGED rangeVars
  BY <1>2 DEF RangeTypes, rangeVars
<1> QED BY <1>1, <1>2 DEF RangeNext

\* Whatever numbers a Range header holds, and for every size and room, also 0:
\* wuy_http_range_parse() refuses exactly the values with a range that is not
\* Accepted, and gives what the counted ranges of the others mean, in order.
THEOREM RangesTheorem == RangeSpec => []RangesAsMeant
<1>1. RangeInit => RangeTypes
  BY RangeAssumption DEF RangeInit, RangeTypes
<1>2. RangeTypes => RangesAsMeant
  <2> SUFFICES ASSUME RangeTypes PROVE RangesAsMeant
    OBVIOUS
  <2>1. Len(asked) \in 0 .. Len(asked)
    BY DEF RangeTypes
  <2>2. ReadUpTo(RangeParse, Len(asked))
    BY <2>1, AllRanges DEF RangeParse
  <2> QED BY <2>2 DEF RangesAsMeant, ReadUpTo
<1> QED BY <1>1, <1>2, RangesStay, PTL DEF RangeSpec

\* The same for the run's part.
THEOREM RangesReadAlways == RangeSpec => []RangesRead
<1>1. RangesAsMeant => RangesRead
  BY DEF RangesRead
<1> QED BY <1>1, RangesTheorem, PTL

-----------------------------------------------------------------------------
(* Sequences joined by FlattenSeq.                                         *)

\* What flattening the first N of them comes to.
IsFlat(ss, f, N) ==
  f = [i \in 1 .. N |-> IF i = 1 THEN ss[i] ELSE f[i - 1] \o ss[i]]

LEMMA FlatExists ==
  ASSUME NEW S, NEW ss \in Seq(Seq(S))
  PROVE  \A N \in 0 .. Len(ss) : \E f : IsFlat(ss, f, N)
<1> DEFINE Missing == {N \in 0 .. Len(ss) : ~\E f : IsFlat(ss, f, N)}
<1> SUFFICES ASSUME Missing # {} PROVE FALSE
  OBVIOUS
<1>0. Len(ss) \in Nat
  OBVIOUS
<1>1. PICK N \in Missing : \A n \in Missing : N =< n
  <2>1. Missing \subseteq Nat
    OBVIOUS
  <2> HIDE DEF Missing
  <2> QED BY <2>1, LeastOf
<1>2. N # 0
  <2>1. <<>> = [i \in 1 .. 0 |-> IF i = 1 THEN ss[i] ELSE <<>>[i - 1] \o ss[i]]
    OBVIOUS
  <2>2. IsFlat(ss, <<>>, 0)
    BY <2>1 DEF IsFlat
  <2> QED BY <1>1, <2>2
<1>3. N \in Nat /\ N - 1 \in 0 .. Len(ss) /\ ~(N =< N - 1)
  BY <1>0, <1>2
<1>4. PICK f : IsFlat(ss, f, N - 1)
  BY <1>1, <1>3
<1> DEFINE e == IF N = 1 THEN ss[N] ELSE f[N - 1] \o ss[N]
           g == [i \in 1 .. N |-> IF i = N THEN e ELSE f[i]]
<1>5. \A i \in 1 .. N - 1 : i \in 1 .. N /\ i # N /\ g[i] = f[i]
  BY <1>3
<1>6. g[N] = e
  BY <1>2, <1>3
<1> HIDE DEF e
<1>7. ASSUME NEW i \in 1 .. N PROVE g[i] = IF i = 1 THEN ss[i] ELSE g[i - 1] \o ss[i]
  <2>1. i # 1 => i - 1 \in 1 .. N - 1
    BY <1>3
  <2>2. CASE i = N
    BY <1>5, <1>6, <2>1, <2>2 DEF e
  <2>3. CASE i # N
    <3>1. i \in 1 .. N - 1
      BY <1>3, <2>3
    <3>2. f[i] = IF i = 1 THEN ss[i] ELSE f[i - 1] \o ss[i]
      BY <1>4, <3>1 DEF IsFlat
    <3> QED BY <1>5, <2>1, <3>1, <3>2
  <2> QED BY <2>2, <2>3
<1>8. g = [i \in 1 .. N |-> g[i]]
  OBVIOUS
<1> HIDE DEF g
<1>9. IsFlat(ss, g, N)
  BY <1>7, <1>8 DEF IsFlat
<1> QED BY <1>1, <1>9

LEMMA FlatIs ==
  ASSUME NEW S, NEW ss \in Seq(Seq(S)), NEW f, IsFlat(ss, f, Len(ss))
  PROVE  /\ \A n \in 1 .. Len(ss) : f[n] \in Seq(S)
         /\ \A n \in 1 .. Len(ss) : f[n] = IF n = 1 THEN ss[n] ELSE f[n - 1] \o ss[n]
<1> DEFINE N == Len(ss)
           Wrong == {n \in 1 .. N : f[n] \notin Seq(S)}
<1>0. N \in Nat /\ \A n \in 1 .. N : ss[n] \in Seq(S)
  OBVIOUS
<1>1. \A n \in 1 .. N : f[n] = IF n = 1 THEN ss[n] ELSE f[n - 1] \o ss[n]
  BY DEF IsFlat
<1>2. ASSUME Wrong # {} PROVE FALSE
  <2>1. PICK n \in Wrong : \A k \in Wrong : n =< k
    <3>1. Wrong \subseteq Nat
      OBVIOUS
    <3> HIDE DEF Wrong
    <3> QED BY <1>2, <3>1, LeastOf
  <2>2. n # 1
    BY <1>0, <1>1
  <2>3. n - 1 \in 1 .. N /\ ~(n =< n - 1)
    BY <1>0, <2>2
  <2>4. f[n - 1] \in Seq(S) /\ ss[n] \in Seq(S)
    BY <1>0, <2>1, <2>3
  <2>5. f[n] = f[n - 1] \o ss[n]
    BY <1>1, <2>2
  <2> QED BY <2>4, <2>5, ConcatProperties
<1> QED BY <1>1, <1>2

LEMMA FlatAppend ==
  ASSUME NEW S, NEW ss \in Seq(Seq(S)), NEW x \in Seq(S)
  PROVE  /\ FlattenSeq(ss) \in Seq(S)
         /\ FlattenSeq(Append(ss, x)) = FlattenSeq(ss) \o x
<1> DEFINE N == Len(ss)
           t == Append(ss, x)
           f == CHOOSE h : IsFlat(ss, h, N)
           g == CHOOSE h : IsFlat(t, h, Len(t))
<1>0. /\ N \in Nat /\ t \in Seq(Seq(S)) /\ Len(t) = N + 1 /\ t[N + 1] = x
      /\ \A n \in 1 .. N : ss[n] \in Seq(S) /\ t[n] = ss[n]
  BY AppendProperties
<1>1. IsFlat(ss, f, N) /\ IsFlat(t, g, Len(t))
  <2>1. N \in 0 .. N /\ Len(t) \in 0 .. Len(t)
    BY <1>0
  <2>2. (\E h : IsFlat(ss, h, N)) /\ (\E h : IsFlat(t, h, Len(t)))
    BY <1>0, <2>1, FlatExists
  <2> QED BY <2>2
<1>2. FlattenSeq(ss) = IF N = 0 THEN <<>> ELSE f[N]
  <2>1. N = 0 => ss = <<>>
    OBVIOUS
  <2> QED BY <2>1 DEF FlattenSeq, IsFlat
<1>3. FlattenSeq(t) = g[N + 1]
  <2>1. Len(t) # 0
    BY <1>0
  <2>2. FlattenSeq(t) = g[Len(t)]
    BY <2>1 DEF FlattenSeq, IsFlat
  <2> QED BY <1>0, <2>2
<1> HIDE DEF f, g
<1>4. /\ \A n \in 1 .. N : f[n] \in Seq(S)
      /\ \A n \in 1 .. N : f[n] = IF n = 1 THEN ss[n] ELSE f[n - 1] \o ss[n]
  BY <1>1, FlatIs
<1>5. \A n \in 1 .. N + 1 : g[n] = IF n = 1 THEN t[n] ELSE g[n - 1] \o t[n]
  BY <1>0, <1>1 DEF IsFlat
<1>6. \A n \in 1 .. N : g[n] = f[n]
  <2> DEFINE Wrong == {n \in 1 .. N : g[n] # f[n]}
  <2> SUFFICES ASSUME Wrong # {} PROVE FALSE
    OBVIOUS
  <2>1. PICK n \in Wrong : \A k \in Wrong : n =< k
    <3>1. Wrong \subseteq Nat
      OBVIOUS
    <3> HIDE DEF Wrong
    <3> QED BY <3>1, LeastOf
  <2>2. n \in 1 .. N + 1 /\ t[n] = ss[n]
    BY <1>0
  <2>3. n # 1
    BY <1>4, <1>5, <2>2
  <2>4. n - 1 \in 1 .. N /\ ~(n =< n - 1)
    BY <1>0, <2>3
  <2>5. g[n - 1] = f[n - 1]
    BY <2>1, <2>4
  <2> QED BY <1>4, <1>5, <2>2, <2>3, <2>5
<1>7. CASE N = 0
  <2>1. g[1] = x
    BY <1>0, <1>5, <1>7
  <2> QED BY <1>2, <1>3, <1>7, <2>1, ConcatEmptySeq
<1>8. CASE N # 0
  <2>1. PICK k \in 1 .. N + 1 : k = N + 1 /\ k # 1 /\ k - 1 = N /\ N \in 1 .. N
    BY <1>0, <1>8
  <2>2. g[k] = g[k - 1] \o t[k]
    BY <1>5, <2>1
  <2>3. g[k] = f[N] \o x /\ f[N] \in Seq(S)
    BY <1>0, <1>4, <1>6, <2>1, <2>2
  <2> QED BY <1>2, <1>3, <1>8, <2>1, <2>3
<1> QED BY <1>7, <1>8

-----------------------------------------------------------------------------
(* Paths.  First, what a path's characters are: a slash, and what follows. *)

UriChars == DOMAIN Code \cup {"other"}
Texts == Seq(UriChars \cup {Bad})

\* One character of Unescape, when from tells the rest.
Unescaping(from, src, i) ==
  IF i > Len(src) \/ src[i] = "nul" THEN <<>>
  ELSE IF ~Unescaped(src[i]) THEN <<Bad>>
  ELSE IF src[i] # "%" THEN <<IF src[i] = "+" THEN "+" ELSE src[i]>> \o from[i + 1]
  ELSE IF i + 2 > Len(src) \/ CharHex(src[i + 1]) < 0 \/ CharHex(src[i + 2]) < 0
       THEN <<Bad>>
  ELSE <<Char((CharHex(src[i + 1]) * 16 + CharHex(src[i + 2])) % 256)>> \o from[i + 3]

\* From the character k on.
IsUnescape(from, src, k) == from = [i \in k .. Len(src) + 1 |-> Unescaping(from, src, i)]

LEMMA UnescapingSame ==
  ASSUME NEW f, NEW g, NEW src, Len(src) \in Nat, NEW i \in Nat,
         \A j \in i + 1 .. Len(src) + 1 : f[j] = g[j]
  PROVE  Unescaping(f, src, i) = Unescaping(g, src, i)
<1>1. ~(i > Len(src)) => f[i + 1] = g[i + 1]
  OBVIOUS
<1>2. ~(i + 2 > Len(src)) => f[i + 3] = g[i + 3]
  OBVIOUS
<1> QED BY <1>1, <1>2 DEF Unescaping

LEMMA UnescapesExist ==
  ASSUME NEW src, Len(src) \in Nat
  PROVE  \A N \in 0 .. Len(src) : \E f : IsUnescape(f, src, Len(src) + 1 - N)
<1> DEFINE L == Len(src)
           Missing == {N \in 0 .. L : ~\E f : IsUnescape(f, src, L + 1 - N)}
<1> SUFFICES ASSUME Missing # {} PROVE FALSE
  OBVIOUS
<1>1. PICK N \in Missing : \A n \in Missing : N =< n
  <2>1. Missing \subseteq Nat
    OBVIOUS
  <2> HIDE DEF Missing
  <2> QED BY <2>1, LeastOf
<1>2. N \in Nat /\ N =< L /\ L \in Nat
  BY <1>1
<1>3. N # 0
  <2> DEFINE f == [i \in {L + 1} |-> <<>>]
  <2>1. L + 1 - 0 .. L + 1 = {L + 1} /\ L + 1 > L
    BY <1>2
  <2>2. Unescaping(f, src, L + 1) = <<>>
    BY <2>1 DEF Unescaping
  <2>3. f = [i \in L + 1 - 0 .. L + 1 |-> Unescaping(f, src, i)]
    BY <2>1, <2>2
  <2>4. IsUnescape(f, src, L + 1 - 0)
    BY <2>3 DEF IsUnescape
  <2> QED BY <1>1, <2>4
<1> DEFINE k == L + 1 - N
<1>4. /\ N - 1 \in 0 .. L /\ ~(N =< N - 1) /\ k \in Nat /\ k \in 1 .. L
      /\ L + 1 - (N - 1) = k + 1
  BY <1>2, <1>3
<1>5. PICK f : IsUnescape(f, src, k + 1)
  BY <1>1, <1>4
<1> DEFINE g == [i \in k .. L + 1 |-> IF i = k THEN Unescaping(f, src, k) ELSE f[i]]
<1> HIDE DEF k
<1>6. g[k] = Unescaping(f, src, k) /\ \A i \in k + 1 .. L + 1 : g[i] = f[i]
  BY <1>2, <1>4
<1>7. g = [i \in k .. L + 1 |-> g[i]]
  OBVIOUS
<1> HIDE DEF g
<1>8. ASSUME NEW i \in k .. L + 1 PROVE g[i] = Unescaping(g, src, i)
  <2>1. i \in Nat /\ \A j \in i + 1 .. L + 1 : j \in k + 1 .. L + 1
    BY <1>2, <1>4
  <2>2. Unescaping(f, src, i) = Unescaping(g, src, i)
    BY <1>6, <2>1, UnescapingSame
  <2>3. CASE i = k
    BY <1>6, <2>2, <2>3
  <2>4. CASE i # k
    <3>1. i \in k + 1 .. L + 1
      BY <1>2, <1>4, <2>4
    <3>2. f[i] = Unescaping(f, src, i)
      BY <1>5, <3>1 DEF IsUnescape
    <3> QED BY <1>6, <2>2, <3>1, <3>2
  <2> QED BY <2>3, <2>4
<1>9. IsUnescape(g, src, k)
  BY <1>7, <1>8 DEF IsUnescape
<1> QED BY <1>1, <1>9 DEF k

LEMMA SlashIs == Code["/"] = 47 /\ "/" \in DOMAIN Code /\ Unescaped("/")
<1>1. Code["/"] = 47
  BY UriAssumption
<1>2. "/" \in DOMAIN Code
  <2>1. "/" \in {"%", "+", "/", ".", "?", "#", "&", "=", ";", " ", "nul"}
    OBVIOUS
  <2> QED BY <2>1, UriAssumption
<1> QED BY <1>1, <1>2 DEF Unescaped

\* A text that begins with a slash is unescaped to one that does.
LEMMA UnescapeIs ==
  ASSUME NEW src \in Seq(DOMAIN Code), Len(src) >= 1, src[1] = "/"
  PROVE  LET cs == Unescape(src, "+") IN cs \in Texts /\ Len(cs) >= 1 /\ cs[1] = "/"
<1> DEFINE L == Len(src)
           f == CHOOSE h : IsUnescape(h, src, 1)
<1>1. L \in Nat /\ L >= 1
  OBVIOUS
<1>2. IsUnescape(f, src, 1)
  <2>1. L \in 0 .. L /\ L + 1 - L = 1
    BY <1>1
  <2>2. \E h : IsUnescape(h, src, 1)
    BY <1>1, <2>1, UnescapesExist
  <2> QED BY <2>2
<1>3. Unescape(src, "+") = f[1]
  BY DEF Unescape, IsUnescape, Unescaping
<1> HIDE DEF f
<1>4. \A i \in 1 .. L + 1 : f[i] = Unescaping(f, src, i)
  BY <1>2 DEF IsUnescape
<1>5. \A n : Char(n) \in UriChars
  BY DEF Char, UriChars
<1>6. \A i \in 1 .. L : src[i] \in UriChars
  BY DEF UriChars
<1>7. "+" \in UriChars
  BY UriAssumption DEF UriChars
<1>8. \A x \in UriChars \cup {Bad} : <<x>> \in Texts
  BY DEF Texts
<1>9. \A x \in UriChars, t \in Texts : <<x>> \o t \in Texts
  <2>1. \A x \in UriChars : <<x>> \in Texts
    BY <1>8
  <2> QED BY <2>1, ConcatProperties DEF Texts
<1>10. <<>> \in Texts
  BY DEF Texts
<1>11. ASSUME NEW i \in 1 .. L + 1, \A j \in i + 1 .. L + 1 : f[j] \in Texts
       PROVE  f[i] \in Texts
  <2>1. ~(i > L) => f[i + 1] \in Texts /\ i \in 1 .. L
    BY <1>1, <1>11
  <2>2. ~(i + 2 > L) => f[i + 3] \in Texts
    BY <1>1, <1>11
  <2>3. CASE i > L \/ src[i] = "nul"
    BY <1>4, <1>10, <2>3, ZenonT(30) DEF Unescaping
  <2>4. CASE ~(i > L \/ src[i] = "nul") /\ (~Unescaped(src[i]) \/ f[i] = <<Bad>>)
    <3>1. f[i] = <<Bad>>
      BY <1>4, <2>4 DEF Unescaping
    <3>2. <<Bad>> \in Texts
      BY <1>8
    <3> QED BY <3>1, <3>2
  <2>5. CASE ~(i > L \/ src[i] = "nul") /\ Unescaped(src[i]) /\ src[i] # "%"
    <3>1. f[i] = <<IF src[i] = "+" THEN "+" ELSE src[i]>> \o f[i + 1]
      BY <1>4, <2>5 DEF Unescaping
    <3>2. PICK x : x = IF src[i] = "+" THEN "+" ELSE src[i]
      OBVIOUS
    <3>3. x \in UriChars
      BY <1>6, <1>7, <2>1, <2>5, <3>2
    <3> QED BY <1>9, <2>1, <2>5, <3>1, <3>2, <3>3
  <2>6. CASE ~(i > L \/ src[i] = "nul") /\ Unescaped(src[i]) /\ src[i] = "%" /\ f[i] # <<Bad>>
    <3>1. /\ ~(i + 2 > L)
          /\ f[i] = <<Char((CharHex(src[i + 1]) * 16 + CharHex(src[i + 2])) % 256)>> \o f[i + 3]
      BY <1>4, <2>6 DEF Unescaping
    <3>2. PICK x : x = Char((CharHex(src[i + 1]) * 16 + CharHex(src[i + 2])) % 256)
      OBVIOUS
    <3> QED BY <1>5, <1>9, <2>2, <3>1, <3>2
  <2> QED BY <2>3, <2>4, <2>5, <2>6
<1>12. \A i \in 1 .. L + 1 : f[i] \in Texts
  <2> DEFINE Wrong == {N \in 0 .. L : f[L + 1 - N] \notin Texts}
  <2>1. Wrong = {}
    <3> SUFFICES ASSUME Wrong # {} PROVE FALSE
      OBVIOUS
    <3>1. PICK N \in Wrong : \A n \in Wrong : N =< n
      <4>1. Wrong \subseteq Nat
        BY <1>1
      <4> HIDE DEF Wrong
      <4> QED BY <4>1, LeastOf
    <3>2. L + 1 - N \in 1 .. L + 1
      BY <1>1
    <3>3. ASSUME NEW j \in L + 1 - N + 1 .. L + 1 PROVE f[j] \in Texts
      <4>1. L + 1 - j \in 0 .. L /\ ~(N =< L + 1 - j) /\ L + 1 - (L + 1 - j) = j
        BY <1>1
      <4>2. L + 1 - j \notin Wrong
        BY <3>1, <4>1
      <4> QED BY <4>1, <4>2
    <3>4. f[L + 1 - N] \in Texts
      BY <1>11, <3>2, <3>3
    <3> QED BY <3>4
  <2>2. \A i \in 1 .. L + 1 : L + 1 - i \in 0 .. L /\ L + 1 - (L + 1 - i) = i
    BY <1>1
  <2> QED BY <2>1, <2>2
<1>13. f[1] = <<"/">> \o f[2]
  <2>1. ~(1 > L) /\ 1 \in 1 .. L + 1 /\ 1 + 1 = 2
    BY <1>1
  <2>2. Unescaped("/")
    BY SlashIs
  <2>3. f[1] = Unescaping(f, src, 1)
    BY <1>4, <2>1
  <2>4. src[1] = "/" /\ "/" # "nul" /\ "/" # "%" /\ "/" # "+"
    OBVIOUS
  <2>5. Unescaping(f, src, 1) = <<"/">> \o f[1 + 1]
    BY <2>1, <2>2, <2>4 DEF Unescaping
  <2> QED BY <2>1, <2>3, <2>5
<1>14. f[2] \in Texts /\ <<"/">> \in Texts
  <2>1. 2 \in 1 .. L + 1 /\ "/" \in UriChars
    BY <1>1, SlashIs DEF UriChars
  <2> QED BY <1>8, <1>12, <2>1
<1>15. PICK t \in Texts : t = f[2]
  BY <1>14
<1>16. PICK cs : cs = <<"/">> \o t
  OBVIOUS
<1>17. cs \in Texts /\ Len(cs) = Len(<<"/">>) + Len(t) /\ \A i \in 1 .. Len(<<"/">>) : cs[i] = <<"/">>[i]
  BY <1>14, <1>16, ConcatProperties DEF Texts
<1>18. Len(t) \in Nat /\ Len(<<"/">>) = 1 /\ <<"/">>[1] = "/" /\ 1 \in 1 .. 1
  BY DEF Texts
<1>19. Len(cs) >= 1 /\ cs[1] = "/"
  BY <1>17, <1>18
<1> QED BY <1>3, <1>13, <1>15, <1>16, <1>17, <1>19

-----------------------------------------------------------------------------
(* Where the directories and the name are in what is written.              *)

PathChars == UriChars \ {"/"}
PathNames == Seq(PathChars)

Rendered(ds, name) == FlattenSeq(Slashed(ds)) \o <<"/">> \o name

LEMMA PathCharsIn ==
  /\ PathChars \subseteq UriChars /\ "/" \in UriChars /\ "/" \notin PathChars
  /\ Bad \notin UriChars /\ Bad # "/"
  /\ PathNames \subseteq Seq(UriChars) /\ <<"/">> \in Seq(UriChars)
  /\ \A x \in PathNames : x \in Seq(UriChars)
<1>1. Bad \notin UriChars
  <2>1. "bad" \notin DOMAIN Code /\ "bad" # "other"
    BY UriAssumption
  <2> QED BY <2>1 DEF UriChars, Bad
<1>2. "/" \in UriChars
  BY SlashIs DEF UriChars
<1>3. PathChars \subseteq UriChars /\ "/" \notin PathChars
  BY DEF PathChars
<1>4. ASSUME NEW x \in PathNames PROVE x \in Seq(UriChars)
  BY <1>3, <1>4 DEF PathNames
<1> QED BY <1>1, <1>2, <1>3, <1>4 DEF Bad

\* The names with their slashes, and one more of them.
LEMMA SlashedIs ==
  ASSUME NEW ds \in Seq(PathNames)
  PROVE  /\ Slashed(ds) \in Seq(Seq(UriChars)) /\ FlattenSeq(Slashed(ds)) \in Seq(UriChars)
         /\ \A x \in PathNames :
              /\ Append(ds, x) \in Seq(PathNames)
              /\ FlattenSeq(Slashed(Append(ds, x))) = FlattenSeq(Slashed(ds)) \o (<<"/">> \o x)
<1>1. ASSUME NEW x \in PathNames PROVE <<"/">> \o x \in Seq(UriChars)
  BY PathCharsIn, ConcatProperties
<1>2. Slashed(ds) \in Seq(Seq(UriChars))
  <2>1. \A i \in 1 .. Len(ds) : ds[i] \in PathNames
    OBVIOUS
  <2>2. \A i \in 1 .. Len(ds) : <<"/">> \o ds[i] \in Seq(UriChars)
    BY <1>1, <2>1
  <2> QED BY <2>2 DEF Slashed
<1>3. \A y \in Seq(UriChars) :
        /\ FlattenSeq(Slashed(ds)) \in Seq(UriChars)
        /\ FlattenSeq(Append(Slashed(ds), y)) = FlattenSeq(Slashed(ds)) \o y
  BY <1>2, FlatAppend
<1>4. FlattenSeq(Slashed(ds)) \in Seq(UriChars)
  BY <1>3, PathCharsIn
<1>5. ASSUME NEW x \in PathNames
      PROVE  /\ Append(ds, x) \in Seq(PathNames)
             /\ Slashed(Append(ds, x)) = Append(Slashed(ds), <<"/">> \o x)
  <2> DEFINE es == Append(ds, x)
             y  == <<"/">> \o x
             n  == Len(ds)
             u  == Slashed(es)
             v  == Append(Slashed(ds), y)
  <2>1. es \in Seq(PathNames) /\ Len(es) = n + 1 /\ es[n + 1] = x /\ n \in Nat
        /\ \A i \in 1 .. n : es[i] = ds[i]
    BY AppendProperties
  <2>2. y \in Seq(UriChars)
    BY <1>1
  <2>3. Len(Slashed(ds)) = n /\ \A i \in 1 .. n : Slashed(ds)[i] = <<"/">> \o ds[i]
    BY DEF Slashed
  <2> HIDE DEF es, y
  <2>4. v \in Seq(Seq(UriChars)) /\ Len(v) = n + 1 /\ v[n + 1] = y
        /\ \A i \in 1 .. n : v[i] = Slashed(ds)[i]
    BY <1>2, <2>2, <2>3, AppendProperties
  <2>5. u = [i \in 1 .. n + 1 |-> <<"/">> \o es[i]]
    BY <2>1 DEF Slashed
  <2> HIDE DEF u, v, n
  <2>6. \A i \in 1 .. n + 1 : i = n + 1 \/ i \in 1 .. n
    BY <2>1
  <2>7. ASSUME NEW i \in 1 .. n + 1 PROVE v[i] = <<"/">> \o es[i]
    <3>1. CASE i = n + 1
      BY <2>1, <2>4, <3>1 DEF y
    <3>2. CASE i \in 1 .. n
      BY <2>1, <2>3, <2>4, <3>2
    <3> QED BY <2>6, <3>1, <3>2
  <2>8. v = [i \in 1 .. n + 1 |-> v[i]]
    BY <2>4
  <2>9. u = v
    BY <2>5, <2>7, <2>8
  <2> QED BY <2>1, <2>9 DEF es, u, v, y
<1>6. ASSUME NEW x \in PathNames
      PROVE  FlattenSeq(Slashed(Append(ds, x))) = FlattenSeq(Slashed(ds)) \o (<<"/">> \o x)
  BY <1>1, <1>3, <1>5
<1> QED BY <1>2, <1>4, <1>5, <1>6

\* Character by character, a is the length of the directories.
Laid(d, a, name) ==
  /\ a \in Nat /\ Len(d) = a + 1 + Len(name) /\ d[a + 1] = "/"
  /\ \A i \in 1 .. Len(name) : d[a + 1 + i] = name[i]

LEMMA Joined ==
  ASSUME NEW S, NEW r \in Seq(S), NEW x \in S, NEW t \in Seq(S), NEW d, d = r \o <<x>> \o t
  PROVE  /\ d \in Seq(S) /\ Len(d) = Len(r) + 1 + Len(t) /\ d[Len(r) + 1] = x
         /\ \A i \in 1 .. Len(r) : d[i] = r[i]
         /\ \A i \in 1 .. Len(t) : d[Len(r) + 1 + i] = t[i]
<1> DEFINE b == r \o <<x>>
<1>1. /\ b \in Seq(S) /\ Len(b) = Len(r) + 1 /\ b[Len(r) + 1] = x
      /\ \A i \in 1 .. Len(r) : b[i] = r[i]
  OBVIOUS
<1>2. d = b \o t
  OBVIOUS
<1> HIDE DEF b
<1>3. /\ d \in Seq(S) /\ Len(d) = Len(b) + Len(t)
      /\ \A i \in 1 .. Len(b) : d[i] = b[i]
      /\ \A i \in 1 .. Len(t) : d[Len(b) + i] = t[i]
  BY <1>1, <1>2
<1>4. Len(r) \in Nat /\ Len(r) + 1 \in 1 .. Len(r) + 1 /\ \A i \in 1 .. Len(r) : i \in 1 .. Len(r) + 1
  OBVIOUS
<1> QED BY <1>1, <1>3, <1>4

LEMMA RenderedAt ==
  ASSUME NEW ds \in Seq(PathNames), NEW name \in PathNames, NEW d, d = Rendered(ds, name)
  PROVE  d \in Seq(UriChars) /\ Laid(d, Len(FlattenSeq(Slashed(ds))), name)
<1> DEFINE r == FlattenSeq(Slashed(ds))
<1>1. r \in Seq(UriChars) /\ name \in Seq(UriChars) /\ "/" \in UriChars
  BY SlashedIs, PathCharsIn
<1>2. d = r \o <<"/">> \o name
  BY DEF Rendered
<1> HIDE DEF r
<1>3. Len(r) \in Nat
  BY <1>1
<1>4. d \in Seq(UriChars) /\ Len(d) = Len(r) + 1 + Len(name) /\ d[Len(r) + 1] = "/"
      /\ \A i \in 1 .. Len(name) : d[Len(r) + 1 + i] = name[i]
  BY <1>1, <1>2, Joined
<1> QED BY <1>3, <1>4 DEF Laid, r

\* The name is told by how the text ends.
LEMMA EndingIs ==
  ASSUME NEW d, NEW a \in Nat, NEW name \in PathNames, Laid(d, a, name)
  PROVE  /\ EndsWith(d, <<"/">>) <=> name = <<>>
         /\ EndsWith(d, <<"/", ".">>) <=> name = <<".">>
         /\ EndsWith(d, <<"/", ".", ".">>) <=> name = Dots
         /\ d # <<>> /\ d # <<".">> /\ d # <<".", ".">> /\ d # Failure /\ d # Outside
<1> DEFINE n == Len(name)
<1>1. /\ n \in Nat /\ Len(d) = a + 1 + n /\ d[a + 1] = "/"
      /\ \A i \in 1 .. n : d[a + 1 + i] = name[i]
  BY DEF Laid, PathNames
<1>2. \A i \in 1 .. n : name[i] # "/"
  BY DEF PathNames, PathChars
<1>3. "." # "/" /\ "bad" # "/" /\ "outside" # "/"
  OBVIOUS
<1>4. /\ name = <<>> <=> n = 0
      /\ name = <<".">> <=> n = 1 /\ name[1] = "."
      /\ name = Dots <=> n = 2 /\ name[1] = "." /\ name[2] = "."
  BY DEF PathNames, Dots
<1>5. \A k \in a + 1 .. a + 1 + n : d[k] = "/" <=> k = a + 1
  <2> SUFFICES ASSUME NEW k \in a + 1 .. a + 1 + n PROVE d[k] = "/" <=> k = a + 1
    OBVIOUS
  <2>1. CASE k # a + 1
    <3>1. k - (a + 1) \in 1 .. n /\ a + 1 + (k - (a + 1)) = k
      BY <1>1, <2>1
    <3>2. d[k] = name[k - (a + 1)]
      BY <1>1, <3>1
    <3> QED BY <1>2, <2>1, <3>1, <3>2
  <2> QED BY <1>1, <2>1
<1>6. a + 1 + n \in a + 1 .. a + 1 + n
  BY <1>1
<1> HIDE DEF n
<1>7. EndsWith(d, <<"/">>) <=> d[a + 1 + n] = "/"
  BY <1>1 DEF EndsWith
<1>8. EndsWith(d, <<"/", ".">>) <=> 2 =< a + 1 + n /\ d[a + n] = "/" /\ d[a + 1 + n] = "."
  <2>1. Len(<<"/", ".">>) = 2 /\ <<"/", ".">>[1] = "/" /\ <<"/", ".">>[2] = "."
    OBVIOUS
  <2>2. 1 .. 2 = {1, 2} /\ a + 1 + n - 2 + 1 = a + n /\ a + 1 + n - 2 + 2 = a + 1 + n
    BY <1>1
  <2> QED BY <1>1, <2>1, <2>2 DEF EndsWith
<1>9. EndsWith(d, <<"/", ".", ".">>)
        <=> /\ 3 =< a + 1 + n /\ d[a + n - 1] = "/"
            /\ d[a + n] = "." /\ d[a + 1 + n] = "."
  <2>1. Len(<<"/", ".", ".">>) = 3 /\ <<"/", ".", ".">>[1] = "/"
        /\ <<"/", ".", ".">>[2] = "." /\ <<"/", ".", ".">>[3] = "."
    OBVIOUS
  <2>2. /\ 1 .. 3 = {1, 2, 3} /\ a + 1 + n - 3 + 1 = a + n - 1
        /\ a + 1 + n - 3 + 2 = a + n /\ a + 1 + n - 3 + 3 = a + 1 + n
    BY <1>1
  <2> QED BY <1>1, <2>1, <2>2, SMTT(30) DEF EndsWith
<1>10. EndsWith(d, <<"/">>) <=> name = <<>>
  <2>1. a + 1 + n = a + 1 <=> n = 0
    BY <1>1
  <2> QED BY <1>4, <1>5, <1>6, <1>7, <2>1
<1>11. EndsWith(d, <<"/", ".">>) <=> name = <<".">>
  <2>1. CASE n = 0
    <3>1. a + 1 + n = a + 1
      BY <1>1, <2>1
    <3> QED BY <1>1, <1>3, <1>4, <1>8, <2>1, <3>1
  <2>2. CASE n = 1
    <3>1. a + n = a + 1 /\ a + 1 + n = a + 1 + 1 /\ 2 =< a + 1 + n /\ 1 \in 1 .. n
      BY <1>1, <2>2
    <3> QED BY <1>1, <1>4, <1>8, <2>2, <3>1
  <2>3. CASE n # 0 /\ n # 1
    <3>1. a + n \in a + 1 .. a + 1 + n /\ a + n # a + 1
      BY <1>1, <2>3
    <3> QED BY <1>4, <1>5, <1>8, <2>3, <3>1
  <2> QED BY <2>1, <2>2, <2>3
<1>12. EndsWith(d, <<"/", ".", ".">>) <=> name = Dots
  <2>1. CASE n = 0
    <3>1. a + 1 + n = a + 1
      BY <1>1, <2>1
    <3> QED BY <1>1, <1>3, <1>4, <1>9, <2>1, <3>1
  <2>2. CASE n = 1
    <3>1. a + n = a + 1
      BY <1>1, <2>2
    <3> QED BY <1>1, <1>3, <1>4, <1>9, <2>2, <3>1
  <2>3. CASE n = 2
    <3>1. /\ a + n - 1 = a + 1 /\ a + n = a + 1 + 1 /\ a + 1 + n = a + 1 + 2
          /\ 3 =< a + 1 + n /\ 1 \in 1 .. n /\ 2 \in 1 .. n
      BY <1>1, <2>3
    <3> QED BY <1>1, <1>4, <1>9, <2>3, <3>1
  <2>4. CASE n # 0 /\ n # 1 /\ n # 2
    <3>1. a + n - 1 \in a + 1 .. a + 1 + n /\ a + n - 1 # a + 1
      BY <1>1, <2>4
    <3> QED BY <1>4, <1>5, <1>9, <2>4, <3>1
  <2> QED BY <2>1, <2>2, <2>3, <2>4
<1>13. ASSUME NEW x \in {".", "bad", "outside"} PROVE d # <<x>>
  <2>1. CASE d = <<x>>
    <3>1. Len(d) = 1 /\ d[1] = x
      BY <2>1
    <3>2. n \in Nat /\ a + 1 + n = 1
      BY <1>1, <3>1
    <3>3. a + 1 = 1
      BY <3>2
    <3> QED BY <1>1, <1>3, <1>13, <3>1, <3>3
  <2> QED BY <2>1
<1>14. d # <<".", ".">>
  <2>1. CASE d = <<".", ".">>
    <3>1. Len(d) = 2 /\ d[1] = "." /\ d[2] = "."
      BY <2>1
    <3>2. n \in Nat /\ a + 1 + n = 2
      BY <1>1, <3>1
    <3>3. a + 1 = 1 \/ a + 1 = 2
      BY <3>2
    <3> QED BY <1>1, <1>3, <3>1, <3>3
  <2> QED BY <2>1
<1>15. d # <<>>
  BY <1>1
<1> QED BY <1>10, <1>11, <1>12, <1>13, <1>14, <1>15 DEF Failure, Outside, Bad

-----------------------------------------------------------------------------
(* The decoder and the walk, character by character.                       *)

IsWritten(cs, f, N) ==
  f = [n \in 0 .. N |-> IF n = 0 THEN <<>> ELSE PathStep(f[n - 1], cs[n])]

LEMMA WritingsExist ==
  ASSUME NEW cs
  PROVE  \A N \in Nat : \E f : IsWritten(cs, f, N)
<1> DEFINE Missing == {N \in Nat : ~\E f : IsWritten(cs, f, N)}
<1> SUFFICES ASSUME Missing # {} PROVE FALSE
  OBVIOUS
<1>1. PICK N \in Missing : \A n \in Missing : N =< n
  <2>1. Missing \subseteq Nat
    OBVIOUS
  <2> HIDE DEF Missing
  <2> QED BY <2>1, LeastOf
<1>2. N # 0
  <2>1. IsWritten(cs, [n \in 0 .. 0 |-> <<>>], 0)
    BY DEF IsWritten
  <2> QED BY <1>1, <2>1
<1>3. N \in Nat /\ N - 1 \in Nat /\ ~(N =< N - 1) /\ N \in 0 .. N
  BY <1>1, <1>2
<1>4. PICK f : IsWritten(cs, f, N - 1)
  BY <1>1, <1>3
<1> DEFINE e == IF N = 0 THEN <<>> ELSE PathStep(f[N - 1], cs[N])
           g == [n \in 0 .. N |-> IF n = N THEN e ELSE f[n]]
<1>5. \A n \in 0 .. N - 1 : n \in 0 .. N /\ n # N /\ g[n] = f[n]
  BY <1>3
<1>6. g[N] = e
  BY <1>3
<1> HIDE DEF e
<1>7. ASSUME NEW n \in 0 .. N PROVE g[n] = IF n = 0 THEN <<>> ELSE PathStep(g[n - 1], cs[n])
  <2>1. n # 0 => n - 1 \in 0 .. N - 1
    BY <1>3
  <2>2. CASE n = N
    BY <1>5, <1>6, <2>1, <2>2 DEF e
  <2>3. CASE n # N
    <3>1. n \in 0 .. N - 1
      BY <1>3, <2>3
    <3>2. f[n] = IF n = 0 THEN <<>> ELSE PathStep(f[n - 1], cs[n])
      BY <1>4, <3>1 DEF IsWritten
    <3> QED BY <1>5, <2>1, <3>1, <3>2
  <2> QED BY <2>2, <2>3
<1>8. g = [n \in 0 .. N |-> g[n]]
  OBVIOUS
<1> HIDE DEF g
<1>9. IsWritten(cs, g, N)
  BY <1>7, <1>8 DEF IsWritten
<1> QED BY <1>1, <1>9

LEMMA WrittenIs ==
  ASSUME NEW cs, Len(cs) \in Nat
  PROVE  /\ PathWritten(cs)[0] = <<>>
         /\ \A n \in 1 .. Len(cs) : PathWritten(cs)[n] = PathStep(PathWritten(cs)[n - 1], cs[n])
<1> DEFINE f == CHOOSE h : IsWritten(cs, h, Len(cs))
<1>1. IsWritten(cs, f, Len(cs))
  BY WritingsExist
<1>2. PathWritten(cs) = f
  BY DEF PathWritten, IsWritten
<1> HIDE DEF f
<1>3. \A n \in 1 .. Len(cs) : n \in 0 .. Len(cs) /\ n # 0
  OBVIOUS
<1>4. 0 \in 0 .. Len(cs)
  OBVIOUS
<1> QED BY <1>1, <1>2, <1>3, <1>4 DEF IsWritten

Outset == [dirs |-> <<>>, name |-> <<>>]

IsWalk(cs, f, N) ==
  f = [n \in 1 .. N |-> IF n = 1 THEN Outset ELSE WalkStep(f[n - 1], cs[n])]

LEMMA WalksExist ==
  ASSUME NEW cs
  PROVE  \A N \in Nat : \E f : IsWalk(cs, f, N)
<1> DEFINE Missing == {N \in Nat : ~\E f : IsWalk(cs, f, N)}
<1> SUFFICES ASSUME Missing # {} PROVE FALSE
  OBVIOUS
<1>1. PICK N \in Missing : \A n \in Missing : N =< n
  <2>1. Missing \subseteq Nat
    OBVIOUS
  <2> HIDE DEF Missing
  <2> QED BY <2>1, LeastOf
<1>2. N # 0
  <2>1. <<>> = [n \in 1 .. 0 |-> IF n = 1 THEN Outset ELSE WalkStep(<<>>[n - 1], cs[n])]
    OBVIOUS
  <2>2. IsWalk(cs, <<>>, 0)
    BY <2>1 DEF IsWalk
  <2> QED BY <1>1, <2>2
<1>3. N \in Nat /\ N - 1 \in Nat /\ ~(N =< N - 1) /\ N \in 1 .. N
  BY <1>1, <1>2
<1>4. PICK f : IsWalk(cs, f, N - 1)
  BY <1>1, <1>3
<1> DEFINE e == IF N = 1 THEN Outset ELSE WalkStep(f[N - 1], cs[N])
           g == [n \in 1 .. N |-> IF n = N THEN e ELSE f[n]]
<1>5. \A n \in 1 .. N - 1 : n \in 1 .. N /\ n # N /\ g[n] = f[n]
  BY <1>3
<1>6. g[N] = e
  BY <1>3
<1> HIDE DEF e
<1>7. ASSUME NEW n \in 1 .. N PROVE g[n] = IF n = 1 THEN Outset ELSE WalkStep(g[n - 1], cs[n])
  <2>1. n # 1 => n - 1 \in 1 .. N - 1
    BY <1>3
  <2>2. CASE n = N
    BY <1>5, <1>6, <2>1, <2>2 DEF e
  <2>3. CASE n # N
    <3>1. n \in 1 .. N - 1
      BY <1>3, <2>3
    <3>2. f[n] = IF n = 1 THEN Outset ELSE WalkStep(f[n - 1], cs[n])
      BY <1>4, <3>1 DEF IsWalk
    <3> QED BY <1>5, <2>1, <3>1, <3>2
  <2> QED BY <2>2, <2>3
<1>8. g = [n \in 1 .. N |-> g[n]]
  OBVIOUS
<1> HIDE DEF g
<1>9. IsWalk(cs, g, N)
  BY <1>7, <1>8 DEF IsWalk
<1> QED BY <1>1, <1>9

LEMMA WalkedIs ==
  ASSUME NEW cs, Len(cs) \in Nat, Len(cs) >= 1
  PROVE  /\ Walked(cs)[1] = Outset
         /\ \A n \in 2 .. Len(cs) : Walked(cs)[n] = WalkStep(Walked(cs)[n - 1], cs[n])
<1> DEFINE f == CHOOSE h : IsWalk(cs, h, Len(cs))
<1>1. IsWalk(cs, f, Len(cs))
  BY WalksExist
<1>2. Walked(cs) = f
  BY DEF Walked, IsWalk, Outset
<1> HIDE DEF f
<1>3. \A n \in 2 .. Len(cs) : n \in 1 .. Len(cs) /\ n # 1
  OBVIOUS
<1>4. 1 \in 1 .. Len(cs)
  OBVIOUS
<1> QED BY <1>1, <1>2, <1>3, <1>4 DEF IsWalk

-----------------------------------------------------------------------------
(* After so many characters the decoder has written the directories and    *)
(* the name of the walk, of which the name is what was read last.          *)

Behind(cs, name, n) ==
  /\ Len(name) < n /\ cs[n - Len(name)] = "/"
  /\ \A i \in 1 .. Len(name) : cs[n - Len(name) + i] = name[i]

Tracks(cs, d, w, n) ==
  \/ d = Failure /\ w.dirs = <<Failure>>
  \/ /\ w \in [dirs : Seq(PathNames), name : PathNames]
     /\ d = Rendered(w.dirs, w.name) /\ Behind(cs, w.name, n)

LEMMA FailureIs == Failure \notin PathNames /\ \A ds \in Seq(PathNames) : ds # <<Failure>>
<1>1. Failure \notin PathNames
  <2> SUFFICES ASSUME Failure \in PathNames PROVE FALSE
    OBVIOUS
  <2>1. PICK x \in Seq(UriChars) : x = Failure
    BY PathCharsIn
  <2>2. Len(x) = 1 /\ x[1] = Bad
    BY <2>1 DEF Failure
  <2> QED BY <2>1, <2>2, PathCharsIn
<1>2. ASSUME NEW ds \in Seq(PathNames), ds = <<Failure>> PROVE FALSE
  <2>1. Len(ds) = 1 /\ ds[1] = Failure
    BY <1>2
  <2>2. ds[1] \in PathNames
    BY <2>1, SMTT(30)
  <2> QED BY <1>1, <2>1, <2>2
<1> QED BY <1>1, <1>2

\* A name of two dots ends nowhere in a path that does not go up.
LEMMA NoDots ==
  ASSUME NEW cs \in Texts, ~GoesUp(cs), NEW n \in 1 .. Len(cs), NEW name \in PathNames,
         Behind(cs, name, n), n = Len(cs) \/ cs[n + 1] \in {"/", Bad}
  PROVE  name # Dots
<1> SUFFICES ASSUME name = Dots PROVE FALSE
  OBVIOUS
<1>1. Len(name) = 2 /\ name[1] = "." /\ name[2] = "."
  BY DEF Dots
<1>2. Len(cs) \in Nat /\ n \in Nat /\ n =< Len(cs)
  BY DEF Texts
<1>3. n - 2 >= 1 /\ cs[n - 2] = "/" /\ cs[n - 2 + 1] = "." /\ cs[n - 2 + 2] = "."
  BY <1>1, <1>2 DEF Behind
<1>4. PICK i \in Nat : n = i + 2
  <2>1. n - 2 \in Nat /\ n = (n - 2) + 2
    BY <1>2, <1>3
  <2> QED BY <2>1
<1>5. i \in 1 .. Len(cs) - 2 /\ i + 3 = n + 1 /\ n - 2 = i
  BY <1>2, <1>3, <1>4
<1>6. SubSeq(cs, i, i + 2) = <<"/", ".", ".">>
  <2> DEFINE t == SubSeq(cs, i, i + 2)
             S == UriChars \cup {Bad}
  <2>1. cs \in Seq(S)
    BY DEF Texts
  <2> HIDE DEF S
  <2>2. Len(t) = 3 /\ t[1] = cs[i] /\ t[2] = cs[i + 1] /\ t[3] = cs[i + 2]
    BY <1>2, <1>4, <1>5, <2>1
  <2>3. t \in Seq(S)
    BY <1>2, <1>4, <1>5, <2>1
  <2> HIDE DEF t
  <2>4. t = <<t[1], t[2], t[3]>>
    BY <2>2, <2>3
  <2> QED BY <1>3, <1>5, <2>2, <2>4 DEF t
<1>7. i + 2 = Len(cs) \/ cs[i + 3] \in {"/", Bad}
  BY <1>4, <1>5
<1> QED BY <1>5, <1>6, <1>7 DEF GoesUp

\* One more character of a name.
LEMMA NameGrows ==
  ASSUME NEW ds \in Seq(PathNames), NEW name \in PathNames, NEW c \in PathChars
  PROVE  /\ Append(name, c) \in PathNames
         /\ Append(Rendered(ds, name), c) = Rendered(ds, Append(name, c))
<1> DEFINE r == FlattenSeq(Slashed(ds)) \o <<"/">>
<1>1. r \in Seq(UriChars) /\ name \in Seq(UriChars) /\ c \in UriChars
  <2>1. FlattenSeq(Slashed(ds)) \in Seq(UriChars) /\ <<"/">> \in Seq(UriChars)
    BY SlashedIs, PathCharsIn
  <2> QED BY <2>1, PathCharsIn, ConcatProperties
<1>2. \A t : Rendered(ds, t) = r \o t
  BY DEF Rendered
<1> HIDE DEF r
<1>3. <<c>> \in Seq(UriChars) /\ r \o name \in Seq(UriChars)
  BY <1>1, ConcatProperties
<1>4. Append(r \o name, c) = (r \o name) \o <<c>>
  BY <1>1, <1>3, AppendIsConcat
<1>5. (r \o name) \o <<c>> = r \o (name \o <<c>>)
  BY <1>1, <1>3, ConcatAssociative
<1>6. Append(name, c) = name \o <<c>>
  BY <1>1, AppendIsConcat
<1>7. Append(name, c) \in PathNames
  BY DEF PathNames
<1> QED BY <1>2, <1>4, <1>5, <1>6, <1>7

\* A slash behind a name, behind none, and behind a dot.
LEMMA NameEnds ==
  ASSUME NEW ds \in Seq(PathNames), NEW name \in PathNames
  PROVE  /\ <<>> \in PathNames /\ Append(ds, name) \in Seq(PathNames)
         /\ Append(Rendered(ds, name), "/") = Rendered(Append(ds, name), <<>>)
         /\ name = <<".">> => Front(Rendered(ds, name)) = Rendered(ds, <<>>)
<1> DEFINE q == FlattenSeq(Slashed(ds))
           s == <<"/">>
<1>1. q \in Seq(UriChars) /\ s \in Seq(UriChars) /\ name \in Seq(UriChars) /\ "/" \in UriChars
  BY SlashedIs, PathCharsIn
<1>2. \A t : Rendered(ds, t) = (q \o s) \o t
  BY DEF Rendered
<1>3. Rendered(Append(ds, name), <<>>) = ((q \o (s \o name)) \o s) \o <<>>
  BY SlashedIs DEF Rendered
<1>4. <<>> \in PathNames /\ Append(ds, name) \in Seq(PathNames)
  BY SlashedIs DEF PathNames
<1>5. \A t \in Seq(UriChars) : Append(t, "/") = t \o s
  BY <1>1, AppendIsConcat
<1> HIDE DEF q, s
<1>6. q \o s \in Seq(UriChars) /\ s \o name \in Seq(UriChars)
  BY <1>1, ConcatProperties
<1>7. (q \o s) \o name = q \o (s \o name) /\ (q \o s) \o name \in Seq(UriChars)
  BY <1>1, <1>6, ConcatAssociative, ConcatProperties, SMTT(30)
<1>8. (q \o (s \o name)) \o s \in Seq(UriChars)
  BY <1>1, <1>7, ConcatProperties
<1>9. Append(Rendered(ds, name), "/") = Rendered(Append(ds, name), <<>>)
  BY <1>2, <1>3, <1>5, <1>7, <1>8, ConcatEmptySeq
<1>10. ASSUME name = <<".">> PROVE Front(Rendered(ds, name)) = Rendered(ds, <<>>)
  <2> DEFINE b == q \o s
  <2>1. name[1] \in UriChars /\ name = <<name[1]>>
    BY <1>1, <1>10
  <2>2. PICK x \in UriChars : name = <<x>>
    BY <2>1
  <2>3. Rendered(ds, name) = Append(b, x) /\ Rendered(ds, <<>>) = b
    BY <1>2, <1>6, <2>2, AppendIsConcat, ConcatEmptySeq
  <2> HIDE DEF b
  <2>4. b \in Seq(UriChars)
    BY <1>6 DEF b
  <2>5. Front(Append(b, x)) = b
    BY <2>4 DEF Front
  <2> QED BY <2>3, <2>5
<1> QED BY <1>4, <1>9, <1>10

LEMMA BehindGrows ==
  ASSUME NEW cs \in Texts, NEW n \in 1 .. Len(cs) - 1, NEW name \in PathNames, Behind(cs, name, n),
         NEW c \in PathChars, cs[n + 1] = c
  PROVE  Behind(cs, Append(name, c), n + 1)
<1> DEFINE t == Append(name, c)
           m == Len(name)
<1>1. m \in Nat /\ Len(t) = m + 1 /\ t[m + 1] = c /\ \A i \in 1 .. m : t[i] = name[i]
  BY AppendProperties DEF PathNames
<1>2. n \in Nat /\ m < n /\ cs[n - m] = "/" /\ \A i \in 1 .. m : cs[n - m + i] = name[i]
  BY DEF Behind
<1> HIDE DEF t, m
<1>3. n + 1 - (m + 1) = n - m /\ m + 1 < n + 1 /\ n - m + (m + 1) = n + 1
  BY <1>1, <1>2
<1>4. \A i \in 1 .. m + 1 : i = m + 1 \/ i \in 1 .. m
  BY <1>1
<1>5. \A i \in 1 .. m + 1 : cs[n - m + i] = t[i]
  BY <1>1, <1>2, <1>3, <1>4
<1> HIDE DEF Behind
<1>6. \A i \in 1 .. m + 1 : cs[n + 1 - (m + 1) + i] = t[i]
  BY <1>3, <1>5
<1>7. Len(t) < n + 1 /\ cs[n + 1 - Len(t)] = "/" /\ \A i \in 1 .. Len(t) : cs[n + 1 - Len(t) + i] = t[i]
  BY <1>1, <1>2, <1>3, <1>6
<1>8. Behind(cs, t, n + 1)
  BY <1>7 DEF Behind
<1> QED BY <1>8 DEF t

\* A character that is read.
LEMMA OneCharacter ==
  ASSUME NEW cs \in Texts, ~GoesUp(cs), NEW n \in 1 .. Len(cs) - 1,
         NEW d, NEW w, Tracks(cs, d, w, n)
  PROVE  Tracks(cs, PathStep(d, cs[n + 1]), WalkStep(w, cs[n + 1]), n + 1)
<1> DEFINE c == cs[n + 1]
<1>1. Len(cs) \in Nat /\ n \in Nat /\ n \in 1 .. Len(cs) /\ n + 1 \in 1 .. Len(cs)
  BY DEF Texts
<1>2. c \in PathChars \/ c = "/" \/ c = Bad
  BY <1>1 DEF Texts, PathChars
<1> HIDE DEF c
<1>3. CASE d = Failure /\ w.dirs = <<Failure>>
  BY <1>3 DEF Tracks, PathStep, WalkStep, c
<1>4. ASSUME w \in [dirs : Seq(PathNames), name : PathNames],
             d = Rendered(w.dirs, w.name), Behind(cs, w.name, n)
      PROVE  Tracks(cs, PathStep(d, cs[n + 1]), WalkStep(w, cs[n + 1]), n + 1)
  <2>1. PICK ds \in Seq(PathNames), name \in PathNames : w = [dirs |-> ds, name |-> name]
    BY <1>4
  <2>2. w.dirs = ds /\ w.name = name /\ d = Rendered(ds, name) /\ Behind(cs, name, n)
    BY <1>4, <2>1
  <2>3. ds # <<Failure>>
    BY FailureIs
  <2>4. /\ EndsWith(d, <<"/">>) <=> name = <<>>
        /\ EndsWith(d, <<"/", ".">>) <=> name = <<".">>
        /\ EndsWith(d, <<"/", ".", ".">>) <=> name = Dots
        /\ d # <<>> /\ d # <<".">> /\ d # <<".", ".">> /\ d # Failure /\ d # Outside
    <3>1. PICK a : a = Len(FlattenSeq(Slashed(ds)))
      OBVIOUS
    <3>2. Laid(d, a, name)
      BY <2>2, <3>1, RenderedAt
    <3>3. a \in Nat
      BY <3>2 DEF Laid
    <3> QED BY <3>2, <3>3, EndingIs
  <2>5. CASE c = Bad
    <3>1. PathStep(d, c) = Failure
      BY <2>4, <2>5 DEF PathStep
    <3>2. WalkStep(w, c) = [w EXCEPT !.dirs = <<Failure>>]
      BY <2>2, <2>3, <2>5 DEF WalkStep
    <3>3. WalkStep(w, c).dirs = <<Failure>>
      BY <2>1, <3>2
    <3> QED BY <3>1, <3>3 DEF Tracks, c
  <2>6. CASE c \in PathChars
    <3>1. c # "/" /\ c # Bad
      BY <2>6, PathCharsIn
    <3>2. PathStep(d, c) = Append(d, c)
      BY <2>4, <3>1 DEF PathStep
    <3>3. WalkStep(w, c) = [w EXCEPT !.name = Append(@, c)]
      BY <2>2, <2>3, <3>1 DEF WalkStep
    <3>4. WalkStep(w, c) = [dirs |-> ds, name |-> Append(name, c)]
      BY <2>1, <3>3
    <3>5. Append(name, c) \in PathNames /\ Append(d, c) = Rendered(ds, Append(name, c))
      BY <2>2, <2>6, NameGrows
    <3>6. Behind(cs, Append(name, c), n + 1)
      BY <2>2, <2>6, BehindGrows DEF c
    <3> QED BY <3>2, <3>4, <3>5, <3>6 DEF Tracks, c
  <2>7. CASE c = "/"
    <3>1. name # Dots
      BY <1>1, <2>2, <2>7, NoDots DEF c
    <3>2. c # Bad
      BY <2>7, PathCharsIn
    <3>3. WalkStep(w, c) = Leave(w)
      BY <2>2, <2>3, <2>7, <3>2 DEF WalkStep
    <3> DEFINE es == IF name \in {<<>>, <<".">>} THEN ds ELSE Append(ds, name)
    <3>4. Leave(w) = [dirs |-> es, name |-> <<>>]
      BY <2>2, <3>1 DEF Leave
    <3>5. <<>> \in PathNames /\ es \in Seq(PathNames)
      BY NameEnds
    <3>6. PathStep(d, c) = Rendered(es, <<>>)
      <4>1. CASE name = <<>>
        <5>1. PathStep(d, c) = d
          BY <2>4, <2>7, <3>2, <4>1 DEF PathStep, Dots
        <5> QED BY <2>2, <4>1, <5>1
      <4>2. CASE name = <<".">>
        <5>1. name # <<>>
          BY <4>2
        <5>2. PathStep(d, c) = Front(d)
          BY <2>4, <2>7, <3>1, <3>2, <4>2, <5>1 DEF PathStep
        <5> QED BY <2>2, <4>2, <5>2, NameEnds
      <4>3. CASE name # <<>> /\ name # <<".">>
        <5>1. PathStep(d, c) = Append(d, c)
          BY <2>4, <2>7, <3>1, <3>2, <4>3 DEF PathStep
        <5> QED BY <2>2, <2>7, <4>3, <5>1, NameEnds
      <4> QED BY <4>1, <4>2, <4>3
    <3>7. Behind(cs, <<>>, n + 1)
      BY <1>1, <2>7 DEF Behind, c
    <3> HIDE DEF es
    <3>8. PICK v : v = [dirs |-> es, name |-> <<>>]
      OBVIOUS
    <3>9. v \in [dirs : Seq(PathNames), name : PathNames] /\ v.dirs = es /\ v.name = <<>>
      BY <3>5, <3>8
    <3> QED BY <3>3, <3>4, <3>6, <3>7, <3>8, <3>9 DEF Tracks, c
  <2> QED BY <1>2, <2>5, <2>6, <2>7
<1> QED BY <1>3, <1>4 DEF Tracks

LEMMA TracksAll ==
  ASSUME NEW cs \in Texts, ~GoesUp(cs), Len(cs) >= 1, cs[1] = "/"
  PROVE  Tracks(cs, PathWritten(cs)[Len(cs)], Walked(cs)[Len(cs)], Len(cs))
<1> DEFINE L == Len(cs)
           Kept(n) == Tracks(cs, PathWritten(cs)[n], Walked(cs)[n], n)
           Lost == {n \in 1 .. L : ~Kept(n)}
<1>1. L \in Nat /\ L >= 1 /\ L \in 1 .. L
  BY DEF Texts
<1>2. Kept(1)
  <2>1. PathWritten(cs)[1] = PathStep(<<>>, "/")
    <3>1. 1 \in 1 .. Len(cs) /\ 1 - 1 = 0
      BY <1>1
    <3> QED BY <1>1, <3>1, WrittenIs
  <2>2. <<>> \notin {Failure, Outside} /\ "/" # Bad
    BY DEF Failure, Outside, Bad
  <2>3. PathStep(<<>>, "/") = Append(<<>>, "/")
    BY <2>2 DEF PathStep
  <2>4. Walked(cs)[1] = Outset
    BY <1>1, WalkedIs
  <2>5. Rendered(<<>>, <<>>) = <<"/">>
    <3>1. FlattenSeq(Slashed(<<>>)) = <<>>
      BY DEF Slashed, FlattenSeq
    <3>2. <<"/">> \in Seq(UriChars)
      BY PathCharsIn
    <3> QED BY <3>1, <3>2, ConcatEmptySeq DEF Rendered
  <2>6. Append(<<>>, "/") = <<"/">>
    OBVIOUS
  <2>7. Outset \in [dirs : Seq(PathNames), name : PathNames] /\ Outset.dirs = <<>> /\ Outset.name = <<>>
    BY DEF Outset, PathNames
  <2>8. Behind(cs, <<>>, 1)
    BY DEF Behind
  <2> QED BY <2>1, <2>3, <2>4, <2>5, <2>6, <2>7, <2>8 DEF Tracks
<1>3. ASSUME Lost # {} PROVE FALSE
  <2>1. PICK m \in Lost : \A k \in Lost : m =< k
    <3>1. Lost \subseteq Nat
      OBVIOUS
    <3> HIDE DEF Lost
    <3> QED BY <1>3, <3>1, LeastOf
  <2>2. m \in 1 .. L /\ ~Kept(m)
    BY <2>1
  <2> HIDE DEF Kept
  <2>3. PICK n \in Nat : m = n + 1
    <3>1. m - 1 \in Nat /\ m = (m - 1) + 1
      BY <1>1, <2>2
    <3> QED BY <3>1
  <2>4. n # 0
    BY <1>2, <2>2, <2>3
  <2>5. n \in 1 .. L /\ n \in 1 .. L - 1 /\ ~(m =< n) /\ m \in 2 .. L /\ m - 1 = n
    BY <1>1, <2>2, <2>3, <2>4
  <2>6. Kept(n)
    BY <2>1, <2>5
  <2>7. /\ PathWritten(cs)[m] = PathStep(PathWritten(cs)[n], cs[m])
        /\ Walked(cs)[m] = WalkStep(Walked(cs)[n], cs[m])
    BY <1>1, <2>2, <2>5, WrittenIs, WalkedIs
  <2>8. Tracks(cs, PathStep(PathWritten(cs)[n], cs[n + 1]), WalkStep(Walked(cs)[n], cs[n + 1]), n + 1)
    BY <2>5, <2>6, OneCharacter DEF Kept
  <2>9. Kept(m)
    BY <2>3, <2>7, <2>8 DEF Kept
  <2> QED BY <2>2, <2>9
<1>4. Kept(L)
  BY <1>1, <1>3
<1> QED BY <1>4

\* What the decoder makes of a text that begins with a slash.
LEMMA PathRight ==
  ASSUME NEW src \in Seq(DOMAIN Code), Len(src) >= 1, src[1] = "/",
         ~GoesUp(Unescape(src, "+"))
  PROVE  DecodePath(src) = Resolved(Unescape(src, "+"))
<1>1. PICK cs : cs = Unescape(src, "+")
  OBVIOUS
<1>2. cs \in Texts /\ Len(cs) >= 1 /\ cs[1] = "/" /\ ~GoesUp(cs)
  BY <1>1, UnescapeIs
<1> DEFINE d == PathWritten(cs)[Len(cs)]
           w == Walked(cs)[Len(cs)]
<1>3. Tracks(cs, d, w, Len(cs))
  BY <1>2, TracksAll
<1>4. DecodePath(src) = IF EndsWith(d, <<"/", ".", ".">>) THEN Up(d) ELSE d
  BY <1>1 DEF DecodePath
<1>5. Walk(cs) = IF w.name = Dots /\ w.dirs # <<Failure>> THEN Leave(w) ELSE w
  BY DEF Walk
<1> HIDE DEF d, w
<1>6. CASE d = Failure /\ w.dirs = <<Failure>>
  <2>1. ~EndsWith(d, <<"/", ".", ".">>)
    <3>1. Len(d) = 1 /\ Len(<<"/", ".", ".">>) = 3
      BY <1>6 DEF Failure
    <3> QED BY <3>1 DEF EndsWith
  <2>2. Walk(cs) = w
    BY <1>5, <1>6
  <2>3. Resolved(cs) = Failure
    BY <1>6, <2>2 DEF Resolved
  <2> QED BY <1>1, <1>4, <1>6, <2>1, <2>3
<1>7. CASE /\ w \in [dirs : Seq(PathNames), name : PathNames]
           /\ d = Rendered(w.dirs, w.name) /\ Behind(cs, w.name, Len(cs))
  <2>1. PICK ds \in Seq(PathNames), name \in PathNames : ds = w.dirs /\ name = w.name
    BY <1>7
  <2>2. d = Rendered(ds, name) /\ Behind(cs, name, Len(cs)) /\ Len(cs) \in 1 .. Len(cs)
    BY <1>2, <1>7, <2>1 DEF Texts
  <2>3. name # Dots
    BY <1>2, <2>2, NoDots
  <2>4. ~EndsWith(d, <<"/", ".", ".">>)
    <3>1. PICK a : a = Len(FlattenSeq(Slashed(ds)))
      OBVIOUS
    <3>2. Laid(d, a, name)
      BY <2>2, <3>1, RenderedAt
    <3>3. a \in Nat
      BY <3>2 DEF Laid
    <3> QED BY <2>3, <3>2, <3>3, EndingIs
  <2>5. Walk(cs) = w
    BY <1>5, <2>1, <2>3
  <2>6. w.dirs # <<Failure>>
    BY <2>1, FailureIs
  <2>7. Resolved(cs) = FlattenSeq(Slashed(w.dirs)) \o <<"/">> \o w.name
    BY <2>5, <2>6 DEF Resolved
  <2>8. Resolved(cs) = d
    BY <1>7, <2>7 DEF Rendered
  <2> QED BY <1>1, <1>4, <2>4, <2>8
<1> QED BY <1>3, <1>6, <1>7 DEF Tracks

\* A client's path is made of characters and begins with a slash.
PathInv ==
  /\ path \in Seq(Seq(DOMAIN Code)) /\ FlattenSeq(path) \in Seq(DOMAIN Code)
  /\ Len(FlattenSeq(path)) >= 1 /\ FlattenSeq(path)[1] = "/"

LEMMA PathInitially == TargetInit => PathInv
<1> SUFFICES ASSUME TargetInit PROVE PathInv
  OBVIOUS
<1>1. path = <<<<"/">>>> /\ path = Append(<<>>, <<"/">>)
  BY DEF TargetInit
<1>2. <<"/">> \in Seq(DOMAIN Code) /\ <<>> \in Seq(Seq(DOMAIN Code))
  BY SlashIs
<1>3. path \in Seq(Seq(DOMAIN Code))
  BY <1>1, <1>2
<1>4. FlattenSeq(path) = FlattenSeq(<<>>) \o <<"/">>
  BY <1>1, <1>2, FlatAppend
<1>5. FlattenSeq(<<>>) = <<>>
  BY DEF FlattenSeq
<1>6. FlattenSeq(path) = <<"/">>
  BY <1>2, <1>4, <1>5, ConcatEmptySeq
<1> QED BY <1>2, <1>3, <1>6 DEF PathInv

LEMMA PathStays == PathInv /\ [TargetNext]_targetVars => PathInv'
<1> SUFFICES ASSUME PathInv, [TargetNext]_targetVars PROVE PathInv'
  OBVIOUS
<1>1. ASSUME path' = path PROVE PathInv'
  BY <1>1 DEF PathInv
<1>2. ASSUME NEW piece \in Pieces, AddPiece(piece) PROVE PathInv'
  <2>1. path' = Append(path, piece) /\ piece \in Seq(DOMAIN Code)
    BY <1>2, TargetAssumption DEF AddPiece
  <2>2. PICK p0 \in Seq(Seq(DOMAIN Code)) : p0 = path
    BY DEF PathInv
  <2>3. PICK src \in Seq(DOMAIN Code) : src = FlattenSeq(path)
    BY DEF PathInv
  <2>4. Append(p0, piece) \in Seq(Seq(DOMAIN Code)) /\ FlattenSeq(Append(p0, piece)) = src \o piece
    BY <2>1, <2>2, <2>3, FlatAppend, AppendProperties
  <2>5. Len(src) >= 1 /\ src[1] = "/"
    BY <2>3 DEF PathInv
  <2>6. src \o piece \in Seq(DOMAIN Code) /\ Len(src \o piece) >= 1 /\ (src \o piece)[1] = "/"
    BY <2>1, <2>5
  <2> QED BY <2>1, <2>2, <2>4, <2>6 DEF PathInv
<1>3. ASSUME NEW nm \in Names, NEW v \in Values, AddField(nm, v) PROVE PathInv'
  BY <1>1, <1>3 DEF AddField
<1>4. CASE UNCHANGED targetVars
  BY <1>1, <1>4 DEF targetVars
<1> QED BY <1>2, <1>3, <1>4 DEF TargetNext

\* wuy_http_decode_path() gives the directories and the name that a path leads to,
\* whatever its characters, and whichever of them are escaped, doubled or a dot; or
\* refuses it when one of its escapes is wrong: as long as it goes nowhere up.
THEOREM PathTheorem == TargetSpec => []PathAsWritten
<1>1. PathInv => PathAsWritten
  BY PathRight DEF PathInv, PathAsWritten, Decoded, Characters
<1> QED BY <1>1, PathInitially, PathStays, PTL DEF TargetSpec

\* The same for the run's part.
THEOREM PathDecodedAlways == TargetSpec => []PathDecoded
<1>1. PathAsWritten => PathDecoded
  BY DEF PathDecoded
<1> QED BY <1>1, PathTheorem, PTL
=============================================================================
