----------------------------- MODULE ShmProofs ------------------------------
(***************************************************************************)
(* Shared memory, for any number of processes, names, sizes and pools: the *)
(* names that are in the system have a pool that will unlink them, and     *)
(* what was handed out is there, is nobody else's within its pool, and is  *)
(* the same memory for those who asked for the same.  The first parts say  *)
(* what the variables' values are and what each step of a process comes    *)
(* to; each later part has one of the invariants, and a lemma per step.    *)
(***************************************************************************)
EXTENDS MCLists, TLAPS, SequenceTheorems, WellFoundedInduction

-----------------------------------------------------------------------------
(* Shared memory: the values its variables take.                           *)

GotPieces == [seg : Nat, from : Nat, size : Nat]

PoolSet ==
  [name : Names, smallSize : SmallSizes, segment : Nat, smallPos : Nat, bigIndex : 0 .. BigMax,
   listed : BOOLEAN, freed : BOOLEAN, asked : Seq(Nat), got : Seq(GotPieces)]

BusySet ==
  [call : {"none", "new", "big", "destroy", "cleanup", "undefined"},
   at : {"none", "stat", "resize", "unlink"}, seg : Nat, size : Nat, pool : Nat, index : Nat]

\* A call that has begun goes on with a segment and a pool that there are.
BusyTyped(r) ==
  /\ busy[r].call = "none" => busy[r].at = "none"
  /\ busy[r].at \in {"stat", "resize"} =>
       /\ busy[r].call \in {"new", "big"} /\ busy[r].seg \in 1 .. Len(length)
       /\ busy[r].pool \in 1 .. Len(pools[r])
  /\ busy[r].at = "unlink" =>
       busy[r].call \in {"destroy", "cleanup"} /\ busy[r].pool \in 1 .. Len(pools[r])
  /\ busy[r].call = "cleanup" /\ busy[r].at = "none" => Listed(r) # {}

ShmTyped ==
  /\ link \in [AllNames -> Nat] /\ \A m \in AllNames : link[m] =< Len(length)
  /\ length \in Seq(Nat) /\ truncated \in Seq(SUBSET Nat) /\ Len(truncated) = Len(length)
  /\ pools \in [Procs -> Seq(PoolSet)]
  /\ current \in [Procs -> Nat] /\ \A r \in Procs : current[r] =< Len(pools[r])
  /\ busy \in [Procs -> BusySet] /\ \A r \in Procs : BusyTyped(r)

\* Pool k of r is another than before, the others are as they were.
Kept(ps, r, k, q) ==
  /\ ps \in [Procs -> Seq(PoolSet)]
  /\ \A s \in Procs : Len(ps[s]) = Len(pools[s])
  /\ ps[r][k] = q
  /\ \A s \in Procs : \A j \in 1 .. Len(pools[s]) : s # r \/ j # k => ps[s][j] = pools[s][j]

LEMMA SetPool ==
  ASSUME ShmTyped, NEW r \in Procs, NEW k \in 1 .. Len(pools[r]), NEW q \in PoolSet,
         NEW ps, ps = [pools EXCEPT ![r][k] = q]
  PROVE  Kept(ps, r, k, q)
<1>1. pools \in [Procs -> Seq(PoolSet)]
  BY DEF ShmTyped
<1>2. PICK u \in Seq(PoolSet) : u = pools[r] /\ k \in 1 .. Len(u)
  BY <1>1
<1>3. PICK v : v = [u EXCEPT ![k] = q]
  OBVIOUS
<1>4. /\ v \in Seq(PoolSet) /\ Len(v) = Len(u) /\ v[k] = q
      /\ \A j \in 1 .. Len(u) : j # k => v[j] = u[j]
  BY <1>2, <1>3
<1>5. ps = [pools EXCEPT ![r] = v]
  BY <1>2, <1>3
<1>6. ps \in [Procs -> Seq(PoolSet)] /\ ps[r] = v /\ \A s \in Procs : s # r => ps[s] = pools[s]
  BY <1>1, <1>4, <1>5
<1> QED BY <1>2, <1>4, <1>6 DEF Kept

LEMMA NamesAre ==
  /\ \A n \in Names : SmallName(n) \in AllNames
  /\ \A n \in Names, i \in 0 .. BigMax - 1 : BigName(n, i) \in AllNames
  /\ \A m, n : SmallName(m) = SmallName(n) => m = n
  /\ \A m, n, i, j : BigName(m, i) = BigName(n, j) => m = n /\ i = j
  /\ \A m, n, i : SmallName(m) # BigName(n, i)
<1>1. \A m, n : SmallName(m) = SmallName(n) => m = n
  <2> SUFFICES ASSUME NEW m, NEW n, <<m>> = <<n>> PROVE m = n
    BY DEF SmallName
  <2> QED BY <<m>>[1] = m, <<n>>[1] = n
<1>2. \A m, n, i, j : BigName(m, i) = BigName(n, j) => m = n /\ i = j
  <2> SUFFICES ASSUME NEW m, NEW n, NEW i, NEW j, <<m, i>> = <<n, j>> PROVE m = n /\ i = j
    BY DEF BigName
  <2> QED BY <<m, i>>[1] = m, <<n, j>>[1] = n, <<m, i>>[2] = i, <<n, j>>[2] = j
<1>3. \A m, n, i : SmallName(m) # BigName(n, i)
  <2> SUFFICES ASSUME NEW m, NEW n, NEW i, <<m>> = <<n, i>> PROVE FALSE
    BY DEF SmallName, BigName
  <2> QED BY Len(<<m>>) = 1, Len(<<n, i>>) = 2
<1> QED BY <1>1, <1>2, <1>3 DEF AllNames

\* What shm_open() comes to.
Opening(r, call, k, name, size, new, seg) ==
  /\ seg \in Nat \ {0} /\ seg =< Len(length') /\ Len(length) =< Len(length')
  /\ new = (link[name] = 0)
  /\ new => /\ seg = Len(length) + 1 /\ Len(length') = Len(length) + 1
            /\ length'[seg] = 0
  /\ ~new => seg = link[name] /\ Len(length') = Len(length)
  /\ \A i \in 1 .. Len(length) : length'[i] = length[i] /\ truncated'[i] = truncated[i]
  /\ length' \in Seq(Nat) /\ truncated' \in Seq(SUBSET Nat) /\ Len(truncated') = Len(length')
  /\ link' \in [AllNames -> Nat] /\ link'[name] = seg
  /\ \A m \in AllNames : m # name => link'[m] = link[m]
  /\ \A m \in AllNames : link'[m] =< Len(length')
  /\ busy' \in [Procs -> BusySet]
  /\ busy'[r] = [call |-> call, at |-> "stat", seg |-> seg, size |-> size, pool |-> k, index |-> 0]
  /\ \A s \in Procs : s # r => busy'[s] = busy[s]

LEMMA OpenIsOpening ==
  ASSUME ShmTyped, NEW r \in Procs, NEW call \in {"new", "big"}, NEW k \in Nat,
         NEW name \in AllNames, NEW size \in Nat, ShmOpen(r, call, k, name, size)
  PROVE  \E new \in BOOLEAN, seg \in Nat : Opening(r, call, k, name, size, new, seg)
<1> DEFINE new == link[name] = 0
           seg == IF new THEN Len(length) + 1 ELSE link[name]
<1>1. /\ busy' = [busy EXCEPT ![r] = [call |-> call, at |-> "stat", seg |-> seg,
                                        size |-> size, pool |-> k, index |-> 0]]
      /\ link' = [link EXCEPT ![name] = seg]
      /\ length' = IF new THEN Append(length, 0) ELSE length
      /\ truncated' = IF new THEN Append(truncated, {}) ELSE truncated
  BY DEF ShmOpen
<1>2. /\ link \in [AllNames -> Nat] /\ (\A m \in AllNames : link[m] =< Len(length))
      /\ length \in Seq(Nat) /\ truncated \in Seq(SUBSET Nat) /\ Len(truncated) = Len(length)
      /\ busy \in [Procs -> BusySet] /\ Len(length) \in Nat
  BY DEF ShmTyped
<1>3. seg \in Nat \ {0} /\ (new => seg = Len(length) + 1) /\ (~new => seg = link[name] /\ seg =< Len(length))
  BY <1>2
<1> HIDE DEF seg
<1>4. CASE new
  <2>1. /\ length' = Append(length, 0) /\ truncated' = Append(truncated, {})
        /\ seg = Len(length) + 1
    BY <1>1, <1>3, <1>4
  <2>2. /\ length' \in Seq(Nat) /\ Len(length') = Len(length) + 1 /\ length'[seg] = 0
        /\ \A i \in 1 .. Len(length) : length'[i] = length[i]
    BY <1>2, <2>1, AppendProperties
  <2>3. /\ truncated' \in Seq(SUBSET Nat) /\ Len(truncated') = Len(length) + 1
        /\ \A i \in 1 .. Len(length) : truncated'[i] = truncated[i]
    <3>1. {} \in SUBSET Nat
      OBVIOUS
    <3> QED BY <1>2, <2>1, <3>1, AppendProperties
  <2>4. /\ link' \in [AllNames -> Nat] /\ link'[name] = seg
        /\ \A m \in AllNames : m # name => link'[m] = link[m]
    BY <1>1, <1>2, <1>3
  <2>5. \A m \in AllNames : link'[m] =< Len(length')
    BY <1>2, <2>1, <2>2, <2>4, SMTT(30)
  <2>6. /\ busy' \in [Procs -> BusySet]
        /\ busy'[r] = [call |-> call, at |-> "stat", seg |-> seg, size |-> size, pool |-> k, index |-> 0]
        /\ \A s \in Procs : s # r => busy'[s] = busy[s]
    <3>1. [call |-> call, at |-> "stat", seg |-> seg, size |-> size, pool |-> k, index |-> 0] \in BusySet
      BY <1>3 DEF BusySet
    <3> QED BY <1>1, <1>2, <3>1
  <2>7. seg =< Len(length') /\ Len(length) =< Len(length')
    BY <1>2, <2>1, <2>2
  <2>8. Opening(r, call, k, name, size, TRUE, seg)
    BY <1>2, <1>3, <1>4, <2>1, <2>2, <2>3, <2>4, <2>5, <2>6, <2>7 DEF Opening
  <2> QED BY <1>3, <2>8
<1>5. CASE ~new
  <2>1. /\ length' = length /\ truncated' = truncated
        /\ seg = link[name] /\ seg \in 1 .. Len(length)
    BY <1>1, <1>2, <1>3, <1>5
  <2>4. /\ link' \in [AllNames -> Nat] /\ link'[name] = seg
        /\ \A m \in AllNames : m # name => link'[m] = link[m]
    BY <1>1, <1>2, <1>3
  <2>5. \A m \in AllNames : link'[m] =< Len(length')
    BY <1>2, <2>1, <2>4
  <2>6. /\ busy' \in [Procs -> BusySet]
        /\ busy'[r] = [call |-> call, at |-> "stat", seg |-> seg, size |-> size, pool |-> k, index |-> 0]
        /\ \A s \in Procs : s # r => busy'[s] = busy[s]
    <3>1. [call |-> call, at |-> "stat", seg |-> seg, size |-> size, pool |-> k, index |-> 0] \in BusySet
      BY <1>3 DEF BusySet
    <3> QED BY <1>1, <1>2, <3>1
  <2>8. Opening(r, call, k, name, size, FALSE, seg)
    BY <1>2, <1>3, <1>5, <2>1, <2>4, <2>5, <2>6 DEF Opening
  <2> QED BY <1>3, <2>8
<1> QED BY <1>4, <1>5

LEMMA RoundedIs ==
  ASSUME NEW n \in Requests
  PROVE  RoundedUp(n) \in Nat \ {0}
<1>1. n \in Nat \ {0}
  BY ShmpoolAssumption
<1> QED BY <1>1 DEF RoundedUp

-----------------------------------------------------------------------------
(* What each step of a process comes to.                                   *)

NewPool(n, size) ==
  [name |-> n, smallSize |-> size, segment |-> 0, smallPos |-> 0, bigIndex |-> 0,
   listed |-> TRUE, freed |-> FALSE, asked |-> <<>>, got |-> <<>>]

Added(r, q) ==
  /\ pools' \in [Procs -> Seq(PoolSet)]
  /\ Len(pools'[r]) = Len(pools[r]) + 1 /\ pools'[r][Len(pools[r]) + 1] = q
  /\ \A s \in Procs : s # r => pools'[s] = pools[s]
  /\ \A j \in 1 .. Len(pools[r]) : pools'[r][j] = pools[r][j]

NewDone(r, n, size) ==
  /\ Free(r) /\ Added(r, NewPool(n, size)) /\ disturbed' = disturbed
  /\ \E new \in BOOLEAN, seg \in Nat :
       Opening(r, "new", Len(pools[r]) + 1, SmallName(n), size, new, seg)

LEMMA OthersBusy ==
  ASSUME ShmTyped, NEW r \in Procs, NEW s \in Procs, s # r, busy'[s] = busy[s],
         pools'[s] = pools[s], Len(length) =< Len(length'), Len(length') \in Nat
  PROVE  BusyTyped(s)'
<1>1. /\ BusyTyped(s) /\ busy[s] \in BusySet /\ Len(length) \in Nat
  BY DEF ShmTyped
<1>2. Listed(s)' = Listed(s)
  BY DEF Listed, Pool
<1>3. \A g \in 1 .. Len(length) : g \in 1 .. Len(length')
  BY <1>1
<1> QED BY <1>1, <1>2, <1>3 DEF BusyTyped

LEMMA NewStep ==
  ASSUME ShmTyped, NEW r \in Procs, NEW n \in Names, NEW size \in SmallSizes, ShmNew(r, n, size)
  PROVE  NewDone(r, n, size) /\ ShmTyped'
<1> DEFINE q == NewPool(n, size)
           k == Len(pools[r]) + 1
<1>1. /\ Free(r) /\ pools' = [pools EXCEPT ![r] = Append(pools[r], q)]
      /\ ShmOpen(r, "new", k, SmallName(n), size)
      /\ UNCHANGED <<current, permanent, disturbed, failures>>
  BY DEF ShmNew, NewPool
<1>2. pools \in [Procs -> Seq(PoolSet)] /\ size \in Nat /\ SmallName(n) \in AllNames
  BY ShmpoolAssumption, NamesAre DEF ShmTyped
<1>3. q \in PoolSet
  <2>1. 0 \in 0 .. BigMax
    BY ShmpoolAssumption
  <2> QED BY <2>1 DEF NewPool, PoolSet
<1> HIDE DEF q
<1>4. Added(r, q)
  <2>1. PICK u \in Seq(PoolSet) : u = pools[r]
    BY <1>2
  <2>2. PICK v : v = Append(u, q)
    OBVIOUS
  <2>3. /\ v \in Seq(PoolSet) /\ Len(v) = Len(u) + 1 /\ v[Len(u) + 1] = q
        /\ \A j \in 1 .. Len(u) : v[j] = u[j]
    BY <1>3, <2>2, AppendProperties
  <2>4. pools' = [pools EXCEPT ![r] = v]
    BY <1>1, <2>1, <2>2
  <2>5. pools' \in [Procs -> Seq(PoolSet)] /\ pools'[r] = v /\ \A s \in Procs : s # r => pools'[s] = pools[s]
    BY <1>2, <2>3, <2>4
  <2> QED BY <2>1, <2>3, <2>5 DEF Added
<1>5. k \in Nat
  BY <1>2
<1>6. PICK new \in BOOLEAN, seg \in Nat : Opening(r, "new", k, SmallName(n), size, new, seg)
  <2> HIDE DEF k
  <2> QED BY <1>1, <1>2, <1>5, OpenIsOpening
<1>7. NewDone(r, n, size)
  BY <1>1, <1>4, <1>6 DEF NewDone, q
<1>8. ASSUME NEW s \in Procs PROVE BusyTyped(s)'
  <2>1. CASE s # r
    <3>1. busy'[s] = busy[s] /\ pools'[s] = pools[s] /\ Len(length) =< Len(length') /\ Len(length') \in Nat
      BY <1>4, <1>6, <2>1 DEF Opening, Added
    <3> QED BY <2>1, <3>1, OthersBusy
  <2>2. CASE s = r
    <3>1. busy'[r] = [call |-> "new", at |-> "stat", seg |-> seg, size |-> size, pool |-> k, index |-> 0]
      BY <1>6 DEF Opening
    <3>2. seg \in 1 .. Len(length')
      BY <1>6 DEF Opening
    <3>3. k \in 1 .. Len(pools'[r])
      BY <1>4, <1>5 DEF Added
    <3> QED BY <2>2, <3>1, <3>2, <3>3 DEF BusyTyped
  <2> QED BY <2>1, <2>2
<1>9. \A s \in Procs : current'[s] =< Len(pools'[s])
  <2>1. current' = current /\ (\A s \in Procs : current[s] \in Nat /\ current[s] =< Len(pools[s]) /\ Len(pools[s]) \in Nat)
    BY <1>1, <1>2 DEF ShmTyped
  <2>2. \A s \in Procs : s # r => Len(pools'[s]) = Len(pools[s])
    BY <1>4 DEF Added
  <2>3. Len(pools'[r]) = Len(pools[r]) + 1
    BY <1>4 DEF Added
  <2> QED BY <2>1, <2>2, <2>3
<1>10. current' \in [Procs -> Nat]
  BY <1>1 DEF ShmTyped
<1> QED BY <1>4, <1>6, <1>7, <1>8, <1>9, <1>10 DEF ShmTyped, Opening, Added

\* A call that has begun and ended, or goes on, with pool k changed to q.
LEMMA TypedKept ==
  ASSUME ShmTyped, NEW r \in Procs, NEW k, NEW q, Kept(pools', r, k, q),
         link' \in [AllNames -> Nat], \A m \in AllNames : link'[m] =< Len(length'),
         length' \in Seq(Nat), truncated' \in Seq(SUBSET Nat), Len(truncated') = Len(length'),
         Len(length) =< Len(length'),
         current' \in [Procs -> Nat], \A s \in Procs : current'[s] =< Len(pools'[s]),
         busy' \in [Procs -> BusySet], \A s \in Procs : s # r => busy'[s] = busy[s],
         BusyTyped(r)'
  PROVE  ShmTyped'
<1>1. ASSUME NEW s \in Procs PROVE BusyTyped(s)'
  <2>1. CASE s # r
    <3>1. Len(length') \in Nat /\ busy'[s] = busy[s]
      BY <2>1
    <3>2. pools'[s] = pools[s]
      <4>1. /\ pools'[s] \in Seq(PoolSet) /\ pools[s] \in Seq(PoolSet) /\ Len(pools'[s]) = Len(pools[s])
            /\ \A j \in 1 .. Len(pools[s]) : pools'[s][j] = pools[s][j]
        BY <2>1 DEF Kept, ShmTyped
      <4> QED BY <4>1, SeqEqual
    <3> QED BY <2>1, <3>1, <3>2, OthersBusy
  <2> QED BY <2>1
<1> QED BY <1>1 DEF ShmTyped, Kept

SmallGiven(p, size) ==
  LET fits == SmallFits(p, size) IN
  [p EXCEPT !.asked = Append(@, size),
            !.smallPos = IF fits THEN @ + size ELSE @,
            !.got = Append(@, [seg  |-> IF fits THEN p.segment ELSE 0,
                               from |-> IF fits THEN p.smallPos ELSE 0,
                               size |-> size])]

Refused(p, size) ==
  [p EXCEPT !.asked = Append(@, size), !.got = Append(@, [seg |-> 0, from |-> 0, size |-> size])]

BigBegun(p, size) == [p EXCEPT !.asked = Append(@, size), !.bigIndex = @ + 1]

Alike == UNCHANGED <<link, length, truncated, disturbed>>

\* An allocation from the pool that is current, of so many bytes.
AllocDone(r, k, size) ==
  /\ Free(r) /\ k \in 1 .. Len(pools[r]) /\ ~pools[r][k].freed /\ size \in Nat \ {0}
  /\ \/ /\ size =< BigSize /\ Kept(pools', r, k, SmallGiven(pools[r][k], size))
        /\ busy' = busy /\ Alike
     \/ /\ ~(size =< BigSize) /\ pools[r][k].bigIndex >= BigMax
        /\ Kept(pools', r, k, Refused(pools[r][k], size))
        /\ busy' = busy /\ Alike
     \/ /\ ~(size =< BigSize) /\ pools[r][k].bigIndex < BigMax
        /\ Kept(pools', r, k, BigBegun(pools[r][k], size)) /\ disturbed' = disturbed
        /\ \E new \in BOOLEAN, seg \in Nat :
             Opening(r, "big", k, BigName(pools[r][k].name, pools[r][k].bigIndex), size, new, seg)

LEMMA PoolsAfter ==
  ASSUME NEW p \in PoolSet, NEW size \in Nat
  PROVE  /\ SmallGiven(p, size) \in PoolSet
         /\ Refused(p, size) \in PoolSet
         /\ p.bigIndex < BigMax => BigBegun(p, size) \in PoolSet
<1>1. /\ p.smallPos \in Nat /\ p.segment \in Nat /\ p.asked \in Seq(Nat) /\ p.got \in Seq(GotPieces)
      /\ p.bigIndex \in 0 .. BigMax /\ p.smallSize \in SmallSizes
  BY DEF PoolSet
<1>2. Append(p.asked, size) \in Seq(Nat)
  BY <1>1
<1>3. \A g \in GotPieces : Append(p.got, g) \in Seq(GotPieces)
  BY <1>1
<1>4. /\ [seg |-> 0, from |-> 0, size |-> size] \in GotPieces
      /\ \A b \in BOOLEAN : [seg |-> IF b THEN p.segment ELSE 0, from |-> IF b THEN p.smallPos ELSE 0, size |-> size] \in GotPieces
  BY <1>1 DEF GotPieces
<1>5. \A b \in BOOLEAN : (IF b THEN p.smallPos + size ELSE p.smallPos) \in Nat
  BY <1>1
<1>6. SmallGiven(p, size) \in PoolSet
  BY <1>2, <1>3, <1>4, <1>5 DEF PoolSet, SmallGiven
<1>7. Refused(p, size) \in PoolSet
  BY <1>2, <1>3, <1>4 DEF PoolSet, Refused
<1>8. ASSUME p.bigIndex < BigMax PROVE BigBegun(p, size) \in PoolSet
  <2>1. p.bigIndex + 1 \in 0 .. BigMax
    BY <1>1, <1>8, ShmpoolAssumption
  <2> QED BY <1>2, <2>1 DEF PoolSet, BigBegun
<1> QED BY <1>6, <1>7, <1>8

LEMMA FreeIs ==
  ASSUME ShmTyped, NEW r \in Procs, Free(r)
  PROVE  busy[r].at = "none"
BY DEF ShmTyped, BusyTyped, Free

\* With busy as it was, pool k still there.
LEMMA FreeTyped ==
  ASSUME ShmTyped, NEW r \in Procs, Free(r), busy'[r] = busy[r]
  PROVE  BusyTyped(r)'
BY FreeIs DEF BusyTyped, Free

LEMMA AllocStep ==
  ASSUME ShmTyped, NEW r \in Procs, NEW asked \in Requests, Alloc(r, asked),
         ~Pool(r, current[r]).freed
  PROVE  AllocDone(r, current[r], RoundedUp(asked)) /\ ShmTyped'
<1> DEFINE size == RoundedUp(asked)
           k == current[r]
           p == pools[r][k]
<1>0. size \in Nat \ {0}
  BY RoundedIs
<1>1. /\ Free(r) /\ k # 0 /\ ~p.freed
      /\ IF size > BigSize THEN ShmAllocBig(r, size) ELSE ShmAllocSmall(r, size)
      /\ UNCHANGED <<current, permanent, disturbed, failures>>
  BY DEF Alloc, Pool
<1>2. /\ pools \in [Procs -> Seq(PoolSet)] /\ k \in Nat /\ k =< Len(pools[r])
      /\ pools[r] \in Seq(PoolSet) /\ Len(pools[r]) \in Nat
  BY DEF ShmTyped
<1>3. k \in 1 .. Len(pools[r])
  BY <1>1, <1>2
<1>4. p \in PoolSet
  BY <1>2, <1>3
<1>11. ASSUME ~(size > BigSize)
       PROVE  pools' = [pools EXCEPT ![r][k] = SmallGiven(p, size)] /\ UNCHANGED <<busy, link, length, truncated>>
  BY <1>1, <1>11 DEF ShmAllocSmall, SmallGiven, Pool
<1>12. ASSUME size > BigSize, ~(p.bigIndex < BigMax)
       PROVE  pools' = [pools EXCEPT ![r][k] = Refused(p, size)] /\ UNCHANGED <<busy, link, length, truncated>>
  BY <1>1, <1>12 DEF ShmAllocBig, Refused, Pool
<1>13. ASSUME size > BigSize, ~(p.bigIndex >= BigMax)
       PROVE  /\ pools' = [pools EXCEPT ![r][k] = BigBegun(p, size)]
              /\ ShmOpen(r, "big", k, BigName(p.name, p.bigIndex), size)
  BY <1>1, <1>13 DEF ShmAllocBig, BigBegun, Pool
<1> HIDE DEF size, k
<1>5. ASSUME NEW q, Kept(pools', r, k, q) PROVE \A s \in Procs : current'[s] =< Len(pools'[s])
  BY <1>1, <1>5 DEF ShmTyped, Kept
<1>6. current' \in [Procs -> Nat]
  BY <1>1 DEF ShmTyped
<1>7. CASE ~(size > BigSize)
  <2>1. pools' = [pools EXCEPT ![r][k] = SmallGiven(p, size)] /\ UNCHANGED <<busy, link, length, truncated>>
    BY <1>7, <1>11
  <2>2. SmallGiven(p, size) \in PoolSet
    BY <1>0, <1>4, PoolsAfter
  <2>3. Kept(pools', r, k, SmallGiven(p, size))
    <3> DEFINE q == SmallGiven(p, size)
    <3> HIDE DEF q
    <3> QED BY <1>3, <2>1, <2>2, SetPool DEF q
  <2>4. size =< BigSize
    BY <1>0, <1>7, ShmpoolAssumption
  <2>5. AllocDone(r, k, size)
    BY <1>0, <1>1, <1>3, <2>1, <2>3, <2>4 DEF AllocDone, Alike
  <2>6. BusyTyped(r)'
    BY <1>1, <2>1, FreeTyped
  <2>7. /\ link' \in [AllNames -> Nat] /\ \A m \in AllNames : link'[m] =< Len(length')
        /\ length' \in Seq(Nat) /\ truncated' \in Seq(SUBSET Nat) /\ Len(truncated') = Len(length')
        /\ Len(length) =< Len(length')
        /\ busy' \in [Procs -> BusySet] /\ \A s \in Procs : s # r => busy'[s] = busy[s]
    BY <2>1 DEF ShmTyped
  <2> DEFINE q == SmallGiven(p, size)
  <2>8. Kept(pools', r, k, q)
    BY <2>3
  <2> HIDE DEF q
  <2>9. ShmTyped'
    BY <1>5, <1>6, <2>6, <2>7, <2>8, TypedKept
  <2> QED BY <2>5, <2>9 DEF k, size
<1>8. CASE size > BigSize /\ p.bigIndex >= BigMax
  <2>1. pools' = [pools EXCEPT ![r][k] = Refused(p, size)] /\ UNCHANGED <<busy, link, length, truncated>>
    <3>1. ~(p.bigIndex < BigMax)
      BY <1>4, <1>8, ShmpoolAssumption DEF PoolSet
    <3> QED BY <1>8, <1>12, <3>1
  <2>2. Refused(p, size) \in PoolSet
    BY <1>0, <1>4, PoolsAfter
  <2>3. Kept(pools', r, k, Refused(p, size))
    <3> DEFINE q == Refused(p, size)
    <3> HIDE DEF q
    <3> QED BY <1>3, <2>1, <2>2, SetPool DEF q
  <2>4. ~(size =< BigSize)
    BY <1>0, <1>8, ShmpoolAssumption
  <2>5. AllocDone(r, k, size)
    BY <1>0, <1>1, <1>3, <1>8, <2>1, <2>3, <2>4 DEF AllocDone, Alike
  <2>6. BusyTyped(r)'
    BY <1>1, <2>1, FreeTyped
  <2>7. /\ link' \in [AllNames -> Nat] /\ \A m \in AllNames : link'[m] =< Len(length')
        /\ length' \in Seq(Nat) /\ truncated' \in Seq(SUBSET Nat) /\ Len(truncated') = Len(length')
        /\ Len(length) =< Len(length')
        /\ busy' \in [Procs -> BusySet] /\ \A s \in Procs : s # r => busy'[s] = busy[s]
    BY <2>1 DEF ShmTyped
  <2> DEFINE q == Refused(p, size)
  <2>8. Kept(pools', r, k, q)
    BY <2>3
  <2> HIDE DEF q
  <2>9. ShmTyped'
    BY <1>5, <1>6, <2>6, <2>7, <2>8, TypedKept
  <2> QED BY <2>5, <2>9 DEF k, size
<1>9. CASE size > BigSize /\ ~(p.bigIndex >= BigMax)
  <2>0. p.bigIndex < BigMax /\ p.bigIndex \in 0 .. BigMax - 1 /\ p.name \in Names
    BY <1>4, <1>9, ShmpoolAssumption, SMTT(30) DEF PoolSet
  <2>1. /\ pools' = [pools EXCEPT ![r][k] = BigBegun(p, size)]
        /\ ShmOpen(r, "big", k, BigName(p.name, p.bigIndex), size)
    BY <1>9, <1>13
  <2>2. BigBegun(p, size) \in PoolSet
    BY <1>0, <1>4, <2>0, PoolsAfter
  <2>3. Kept(pools', r, k, BigBegun(p, size))
    <3> DEFINE q == BigBegun(p, size)
    <3> HIDE DEF q
    <3> QED BY <1>3, <2>1, <2>2, SetPool DEF q
  <2>4. ~(size =< BigSize)
    BY <1>0, <1>9, ShmpoolAssumption
  <2>5. PICK new \in BOOLEAN, seg \in Nat : Opening(r, "big", k, BigName(p.name, p.bigIndex), size, new, seg)
    <3> DEFINE nm == BigName(p.name, p.bigIndex)
    <3>1. nm \in AllNames /\ ShmOpen(r, "big", k, nm, size) /\ k \in Nat /\ size \in Nat
      BY <1>0, <1>3, <2>0, <2>1, NamesAre
    <3> HIDE DEF nm
    <3>2. \E new \in BOOLEAN, seg \in Nat : Opening(r, "big", k, nm, size, new, seg)
      BY <3>1, OpenIsOpening
    <3> QED BY <3>2 DEF nm
  <2>6. AllocDone(r, k, size)
    BY <1>0, <1>1, <1>3, <2>0, <2>3, <2>4, <2>5 DEF AllocDone
  <2>7. BusyTyped(r)'
    <3>1. busy'[r] = [call |-> "big", at |-> "stat", seg |-> seg, size |-> size, pool |-> k, index |-> 0]
      BY <2>5 DEF Opening
    <3>2. seg \in 1 .. Len(length')
      BY <2>5 DEF Opening
    <3>3. k \in 1 .. Len(pools'[r])
      BY <1>3, <2>3 DEF Kept
    <3> QED BY <3>1, <3>2, <3>3 DEF BusyTyped
  <2>8. /\ link' \in [AllNames -> Nat] /\ \A m \in AllNames : link'[m] =< Len(length')
        /\ length' \in Seq(Nat) /\ truncated' \in Seq(SUBSET Nat) /\ Len(truncated') = Len(length')
        /\ Len(length) =< Len(length')
        /\ busy' \in [Procs -> BusySet] /\ \A s \in Procs : s # r => busy'[s] = busy[s]
    BY <2>5 DEF Opening
  <2> DEFINE q == BigBegun(p, size)
  <2>9. Kept(pools', r, k, q)
    BY <2>3
  <2> HIDE DEF q
  <2>10. ShmTyped'
    BY <1>5, <1>6, <2>7, <2>8, <2>9, TypedKept
  <2> QED BY <2>6, <2>10 DEF k, size
<1> QED BY <1>7, <1>8, <1>9

\* Nothing but where a process is in its call.
Resting(r) ==
  /\ pools' = pools /\ Alike
  /\ busy' \in [Procs -> BusySet] /\ \A s \in Procs : s # r => busy'[s] = busy[s]
  /\ \/ busy'[r] = busy[r]
     \/ Free(r) /\ busy'[r] = [busy[r] EXCEPT !.call = "undefined"]
     \/ busy[r].at = "stat" /\ busy'[r] = [busy[r] EXCEPT !.at = "resize"]

LEMMA SetBusy ==
  ASSUME ShmTyped, NEW r \in Procs, NEW b \in BusySet, busy' = [busy EXCEPT ![r] = b]
  PROVE  /\ busy' \in [Procs -> BusySet] /\ busy'[r] = b
         /\ \A s \in Procs : s # r => busy'[s] = busy[s]
BY DEF ShmTyped

LEMMA RestTyped ==
  ASSUME ShmTyped, NEW r \in Procs, Resting(r),
         current' \in [Procs -> Nat], \A s \in Procs : current'[s] =< Len(pools[s])
  PROVE  ShmTyped'
<1>1. /\ pools' = pools /\ link' = link /\ length' = length /\ truncated' = truncated
      /\ busy[r] \in BusySet /\ Len(length) \in Nat
  BY DEF Resting, Alike, ShmTyped
<1>2. ASSUME NEW s \in Procs PROVE BusyTyped(s)'
  <2>1. CASE s # r
    <3>1. busy'[s] = busy[s] /\ pools'[s] = pools[s] /\ Len(length) =< Len(length') /\ Len(length') \in Nat
      BY <1>1, <2>1 DEF Resting
    <3> QED BY <2>1, <3>1, OthersBusy
  <2>2. CASE s = r
    <3>0. BusyTyped(r) /\ Listed(r)' = Listed(r)
      BY <1>1 DEF ShmTyped, Listed, Pool
    <3>1. CASE busy'[r] = busy[r]
      BY <1>1, <2>2, <3>0, <3>1 DEF BusyTyped
    <3>2. CASE Free(r) /\ busy'[r] = [busy[r] EXCEPT !.call = "undefined"]
      <4>1. busy'[r].at = "none" /\ busy'[r].call = "undefined"
        BY <1>1, <3>2, FreeIs DEF BusySet
      <4> QED BY <2>2, <4>1 DEF BusyTyped
    <3>3. CASE busy[r].at = "stat" /\ busy'[r] = [busy[r] EXCEPT !.at = "resize"]
      <4>1. /\ busy'[r].at = "resize" /\ busy'[r].call = busy[r].call /\ busy'[r].seg = busy[r].seg
            /\ busy'[r].pool = busy[r].pool
        BY <1>1, <3>3 DEF BusySet
      <4> QED BY <1>1, <2>2, <3>0, <3>3, <4>1 DEF BusyTyped
    <3> QED BY <3>1, <3>2, <3>3 DEF Resting
  <2> QED BY <2>1, <2>2
<1> QED BY <1>1, <1>2 DEF ShmTyped, Resting

LEMMA FinishStep ==
  ASSUME ShmTyped, NEW r \in Procs, Finish(r)
  PROVE  Resting(r) /\ ShmTyped'
<1>1. UNCHANGED <<link, length, pools, busy, permanent, truncated, disturbed, failures>>
      /\ current' = [current EXCEPT ![r] = 0]
  BY DEF Finish
<1>2. Resting(r)
  BY <1>1 DEF Resting, Alike, ShmTyped
<1>3. current' \in [Procs -> Nat] /\ \A s \in Procs : current'[s] =< Len(pools[s])
  BY <1>1 DEF ShmTyped
<1> QED BY <1>2, <1>3, RestTyped

LEMMA PermanentStep ==
  ASSUME ShmTyped, NEW r \in Procs, NEW asked \in Requests, AllocPermanent(r, asked)
  PROVE  Resting(r) /\ ShmTyped'
<1>1. UNCHANGED <<link, length, pools, current, busy, truncated, disturbed, failures>>
  BY DEF AllocPermanent
<1>2. Resting(r)
  BY <1>1 DEF Resting, Alike, ShmTyped
<1>3. current' \in [Procs -> Nat] /\ \A s \in Procs : current'[s] =< Len(pools[s])
  BY <1>1 DEF ShmTyped
<1> QED BY <1>2, <1>3, RestTyped

LEMMA UndefinedStep ==
  ASSUME ShmTyped, NEW r \in Procs, NEW asked \in Requests, Alloc(r, asked),
         Pool(r, current[r]).freed
  PROVE  Resting(r) /\ ShmTyped'
<1>1. /\ Free(r) /\ Undefined(r) /\ UNCHANGED <<pools, link, length, truncated>>
      /\ UNCHANGED <<current, permanent, disturbed, failures>>
  BY DEF Alloc
<1>2. Resting(r)
  <2> DEFINE b == [busy[r] EXCEPT !.call = "undefined"]
  <2>1. b \in BusySet /\ busy' = [busy EXCEPT ![r] = b]
    BY <1>1 DEF Undefined, ShmTyped, BusySet
  <2> HIDE DEF b
  <2>2. /\ busy' \in [Procs -> BusySet] /\ busy'[r] = b
        /\ \A s \in Procs : s # r => busy'[s] = busy[s]
    BY <2>1, SetBusy
  <2> QED BY <1>1, <2>2 DEF b, Resting, Alike
<1>3. current' \in [Procs -> Nat] /\ \A s \in Procs : current'[s] =< Len(pools[s])
  BY <1>1 DEF ShmTyped
<1> QED BY <1>2, <1>3, RestTyped

GotBig(p, seg, size) == [p EXCEPT !.got = Append(@, [seg |-> seg, from |-> 0, size |-> size])]

Mapped(p, seg) == [p EXCEPT !.segment = seg]

\* ftruncate() has given segment i that length, or none.
SegmentCut(i, size) ==
  /\ truncated' \in Seq(SUBSET Nat) /\ Len(truncated') = Len(length)
  /\ \A j \in 1 .. Len(length) : truncated[j] \subseteq truncated'[j]
  /\ length'[i] = length[i] \/ (length'[i] = size /\ size \in truncated'[i])

\* Memory of a shared segment is mapped, or not, and the call returns.
OpenedDone(r, seg) ==
  LET b == busy[r]
      p == pools[r][b.pool]
  IN  /\ b.at \in {"stat", "resize"} /\ link' = link /\ disturbed' = disturbed
      /\ busy' \in [Procs -> BusySet] /\ busy'[r] = Idle
      /\ \A s \in Procs : s # r => busy'[s] = busy[s]
      /\ b.call = "new" => Kept(pools', r, b.pool, Mapped(p, seg))
      /\ b.call = "big" => Kept(pools', r, b.pool, GotBig(p, seg, b.size))
      /\ length' \in Seq(Nat) /\ Len(length') = Len(length)
      /\ \A i \in 1 .. Len(length) : i # b.seg => length'[i] = length[i]
      /\ seg = 0 \/ (seg = b.seg /\ length'[seg] = b.size)
      /\ SegmentCut(b.seg, b.size)

LEMMA OpenedStep ==
  ASSUME ShmTyped, NEW r \in Procs, NEW seg, seg \in {0, busy[r].seg},
         busy[r].at \in {"stat", "resize"}, Opened(r, seg),
         UNCHANGED <<link, permanent, disturbed>>,
         length' \in Seq(Nat), Len(length') = Len(length),
         \A i \in 1 .. Len(length) : i # busy[r].seg => length'[i] = length[i],
         SegmentCut(busy[r].seg, busy[r].size),
         seg = 0 \/ (seg = busy[r].seg /\ length'[seg] = busy[r].size)
  PROVE  OpenedDone(r, seg) /\ ShmTyped'
<1> DEFINE b == busy[r]
           k == b.pool
           p == pools[r][k]
<1>1. /\ b \in BusySet /\ BusyTyped(r) /\ k \in 1 .. Len(pools[r]) /\ b.call \in {"new", "big"}
      /\ pools \in [Procs -> Seq(PoolSet)] /\ b.seg \in Nat /\ b.size \in Nat /\ seg \in Nat
  BY SMTT(30) DEF ShmTyped, BusyTyped, BusySet
<1>2. p \in PoolSet
  BY <1>1
<1>3. busy' = [busy EXCEPT ![r] = Idle] /\ Idle \in BusySet
  BY DEF Opened, Idle, BusySet
<1>4. /\ busy' \in [Procs -> BusySet] /\ busy'[r] = Idle
      /\ \A s \in Procs : s # r => busy'[s] = busy[s]
  <2> DEFINE i == Idle
  <2>1. i \in BusySet /\ busy' = [busy EXCEPT ![r] = i]
    BY <1>3
  <2> HIDE DEF i
  <2> QED BY <2>1, SetBusy DEF i
<1>5. ASSUME b.call = "new"
      PROVE  pools' = [pools EXCEPT ![r][k] = Mapped(p, seg)] /\ current' = [current EXCEPT ![r] = k]
  BY <1>5 DEF Opened, Mapped
<1>6. ASSUME b.call # "new"
      PROVE  pools' = [pools EXCEPT ![r][k] = GotBig(p, seg, b.size)] /\ current' = current
  BY <1>6 DEF Opened, GotBig
<1>7. Mapped(p, seg) \in PoolSet
  BY <1>1, <1>2 DEF Mapped, PoolSet
<1>8. GotBig(p, seg, b.size) \in PoolSet
  <2>1. [seg |-> seg, from |-> 0, size |-> b.size] \in GotPieces /\ p.got \in Seq(GotPieces)
    BY <1>1, <1>2 DEF GotPieces, PoolSet
  <2> HIDE DEF b, p
  <2>2. Append(p.got, [seg |-> seg, from |-> 0, size |-> b.size]) \in Seq(GotPieces)
    BY <2>1
  <2> QED BY <1>2, <2>2 DEF PoolSet, GotBig
<1>9. BusyTyped(r)'
  <2>1. busy'[r].at = "none" /\ busy'[r].call = "none"
    BY <1>4 DEF Idle
  <2> QED BY <2>1 DEF BusyTyped
<1>10. /\ link' = link /\ disturbed' = disturbed
       /\ link' \in [AllNames -> Nat] /\ \A m \in AllNames : link'[m] =< Len(length')
       /\ truncated' \in Seq(SUBSET Nat) /\ Len(truncated') = Len(length') /\ Len(length) =< Len(length')
  BY DEF ShmTyped, SegmentCut
<1>11. CASE b.call = "new"
  <2> DEFINE q == Mapped(p, seg)
  <2>1. q \in PoolSet /\ pools' = [pools EXCEPT ![r][k] = q]
    BY <1>5, <1>7, <1>11
  <2> HIDE DEF q, k
  <2>2. Kept(pools', r, k, q)
    BY <1>1, <2>1, SetPool
  <2>3. current' \in [Procs -> Nat] /\ \A s \in Procs : current'[s] =< Len(pools'[s])
    <3>1. current' = [current EXCEPT ![r] = k] /\ current \in [Procs -> Nat] /\ k \in Nat
          /\ k =< Len(pools[r]) /\ \A s \in Procs : current[s] =< Len(pools[s])
      BY <1>1, <1>5, <1>11 DEF ShmTyped, k
    <3>2. \A s \in Procs : Len(pools'[s]) = Len(pools[s])
      BY <2>2 DEF Kept
    <3> QED BY <3>1, <3>2
  <2>4. ShmTyped'
    BY <1>4, <1>9, <1>10, <2>2, <2>3, TypedKept
  <2>5. Kept(pools', r, k, Mapped(p, seg))
    BY <2>2 DEF q
  <2> QED BY <1>4, <1>10, <1>11, <2>4, <2>5 DEF OpenedDone, k
<1>12. CASE b.call = "big"
  <2> DEFINE q == GotBig(p, seg, b.size)
  <2>1. q \in PoolSet /\ pools' = [pools EXCEPT ![r][k] = q]
    BY <1>6, <1>8, <1>12
  <2> HIDE DEF q, k
  <2>2. Kept(pools', r, k, q)
    BY <1>1, <2>1, SetPool
  <2>3. current' \in [Procs -> Nat] /\ \A s \in Procs : current'[s] =< Len(pools'[s])
    <3>1. current' = current
      BY <1>6, <1>12
    <3>2. \A s \in Procs : Len(pools'[s]) = Len(pools[s])
      BY <2>2 DEF Kept
    <3> QED BY <3>1, <3>2 DEF ShmTyped
  <2>4. ShmTyped'
    BY <1>4, <1>9, <1>10, <2>2, <2>3, TypedKept
  <2>5. Kept(pools', r, k, GotBig(p, seg, b.size))
    BY <2>2 DEF q
  <2> QED BY <1>4, <1>10, <1>12, <2>4, <2>5 DEF OpenedDone, k
<1> QED BY <1>1, <1>11, <1>12

LEMMA OpenStepIs ==
  ASSUME ShmTyped, NEW r \in Procs, OpenStep(r)
  PROVE  (Resting(r) \/ (\E seg \in Nat : OpenedDone(r, seg))) /\ ShmTyped'
<1> DEFINE b == busy[r]
<1>0. /\ UNCHANGED <<link, permanent, disturbed>> /\ length \in Seq(Nat)
      /\ truncated \in Seq(SUBSET Nat) /\ Len(truncated) = Len(length)
      /\ b \in BusySet /\ b.seg \in Nat /\ b.size \in Nat
  BY DEF OpenStep, ShmTyped, BusySet
<1>1. CASE Stat(r) /\ length[b.seg] = 0
  <2>1. /\ b.at = "stat" /\ UNCHANGED <<pools, current, length, truncated>>
        /\ busy' = [busy EXCEPT ![r] = [b EXCEPT !.at = "resize"]]
    BY <1>1 DEF Stat
  <2> DEFINE c == [b EXCEPT !.at = "resize"]
  <2>2. c \in BusySet
    BY <1>0 DEF BusySet
  <2>3. /\ busy' \in [Procs -> BusySet] /\ busy'[r] = c
        /\ \A s \in Procs : s # r => busy'[s] = busy[s]
    <3>1. busy' = [busy EXCEPT ![r] = c]
      BY <2>1
    <3> HIDE DEF c
    <3> QED BY <2>2, <3>1, SetBusy
  <2>4. Resting(r)
    BY <1>0, <2>1, <2>3 DEF Resting, Alike
  <2>5. current' \in [Procs -> Nat] /\ \A s \in Procs : current'[s] =< Len(pools[s])
    BY <2>1 DEF ShmTyped
  <2> QED BY <2>4, <2>5, RestTyped
<1>2. CASE Stat(r) /\ length[b.seg] # 0
  <2>1. PICK seg : seg = IF length[b.seg] = b.size THEN b.seg ELSE 0
    OBVIOUS
  <2>2. b.at = "stat" /\ Opened(r, seg) /\ length' = length /\ SegmentCut(b.seg, b.size)
    BY <1>0, <1>2, <2>1 DEF Stat, SegmentCut
  <2>3. /\ seg \in {0, b.seg} /\ seg \in Nat
        /\ seg = 0 \/ (seg = b.seg /\ length'[seg] = b.size)
    BY <1>0, <2>1, <2>2
  <2>4. OpenedDone(r, seg) /\ ShmTyped'
    BY <1>0, <2>2, <2>3, OpenedStep
  <2> QED BY <2>3, <2>4
<1>3. CASE Resize(r)
  <2>1. b.at = "resize" /\ b.seg \in 1 .. Len(length)
    BY <1>3 DEF Resize, ShmTyped, BusyTyped
  <2>2. CASE /\ length' = [length EXCEPT ![b.seg] = b.size] /\ Opened(r, b.seg)
             /\ truncated' = [truncated EXCEPT ![b.seg] = @ \cup {b.size}]
    <3>1. /\ length' \in Seq(Nat) /\ Len(length') = Len(length) /\ length'[b.seg] = b.size
          /\ \A i \in 1 .. Len(length) : i # b.seg => length'[i] = length[i]
      BY <1>0, <2>1, <2>2
    <3>2. /\ truncated' \in Seq(SUBSET Nat) /\ Len(truncated') = Len(length) /\ b.size \in truncated'[b.seg]
          /\ \A i \in 1 .. Len(length) : truncated[i] \subseteq truncated'[i]
      <4>1. truncated[b.seg] \cup {b.size} \in SUBSET Nat
        BY <1>0, <2>1
      <4> QED BY <1>0, <2>1, <2>2, <4>1
    <3>3. SegmentCut(b.seg, b.size)
      BY <3>1, <3>2 DEF SegmentCut
    <3>4. OpenedDone(r, b.seg) /\ ShmTyped'
      BY <1>0, <2>1, <2>2, <3>1, <3>3, OpenedStep
    <3> QED BY <1>0, <3>4
  <2>3. CASE Opened(r, 0) /\ length' = length /\ truncated' = truncated
    <3>1. SegmentCut(b.seg, b.size)
      BY <1>0, <2>3 DEF SegmentCut
    <3>2. OpenedDone(r, 0) /\ ShmTyped'
      BY <1>0, <2>1, <2>3, <3>1, OpenedStep
    <3> QED BY <3>2
  <2> QED BY <1>3, <2>2, <2>3 DEF Resize
<1> QED BY <1>1, <1>2, <1>3 DEF OpenStep

Unlinking(call, k) ==
  [call |-> call, at |-> "unlink", seg |-> 0, size |-> 0, pool |-> k, index |-> 0]

\* A pool that is there begins to be destroyed; it may be taken off the list.
UnlinkBegun(r, k) ==
  /\ busy[r].at = "none" /\ k \in 1 .. Len(pools[r]) /\ ~pools[r][k].freed
  /\ \/ pools' = pools
     \/ Kept(pools', r, k, [pools[r][k] EXCEPT !.listed = FALSE])
  /\ length' = length /\ truncated' = truncated /\ disturbed' = disturbed /\ current' = current
  /\ link' \in [AllNames -> Nat] /\ link'[SmallName(pools[r][k].name)] = 0
  /\ \A m \in AllNames : m # SmallName(pools[r][k].name) => link'[m] = link[m]
  /\ busy' \in [Procs -> BusySet] /\ \A s \in Procs : s # r => busy'[s] = busy[s]
  /\ \E call \in {"destroy", "cleanup"} : busy'[r] = Unlinking(call, k)

\* One that was freed is taken off the list.
FreedListed(r, k) ==
  /\ busy[r].at = "none" /\ k \in 1 .. Len(pools[r])
  /\ Kept(pools', r, k, [pools[r][k] EXCEPT !.listed = FALSE])
  /\ Alike /\ current' = current
  /\ busy' \in [Procs -> BusySet] /\ \A s \in Procs : s # r => busy'[s] = busy[s]
  /\ busy'[r] = [busy[r] EXCEPT !.call = "undefined"]

LEMMA UnlinkSmallIs ==
  ASSUME ShmTyped, NEW r \in Procs, NEW k \in 1 .. Len(pools[r]),
         NEW call \in {"destroy", "cleanup"}, UnlinkSmall(r, call, k)
  PROVE  /\ link' \in [AllNames -> Nat] /\ link'[SmallName(pools[r][k].name)] = 0
         /\ \A m \in AllNames : m # SmallName(pools[r][k].name) => link'[m] = link[m]
         /\ \A m \in AllNames : link'[m] =< Len(length)
         /\ busy' \in [Procs -> BusySet] /\ \A s \in Procs : s # r => busy'[s] = busy[s]
         /\ busy'[r] = Unlinking(call, k)
<1>1. /\ busy' = [busy EXCEPT ![r] = Unlinking(call, k)]
      /\ link' = [link EXCEPT ![SmallName(pools[r][k].name)] = 0]
  BY DEF UnlinkSmall, Unlinking, Pool
<1>0. pools[r][k] \in PoolSet
  BY DEF ShmTyped
<1>2. /\ pools[r][k].name \in Names /\ link \in [AllNames -> Nat] /\ Len(length) \in Nat
      /\ \A m \in AllNames : link[m] =< Len(length)
  <2>1. pools[r][k].name \in Names
    BY <1>0 DEF PoolSet
  <2> QED BY <2>1 DEF ShmTyped
<1>3. SmallName(pools[r][k].name) \in AllNames
  BY <1>2, NamesAre
<1>4. Unlinking(call, k) \in BusySet
  BY DEF Unlinking, BusySet
<1>5. /\ busy' \in [Procs -> BusySet] /\ busy'[r] = Unlinking(call, k)
      /\ \A s \in Procs : s # r => busy'[s] = busy[s]
  <2> DEFINE b == Unlinking(call, k)
  <2>1. b \in BusySet /\ busy' = [busy EXCEPT ![r] = b]
    BY <1>1, <1>4
  <2> HIDE DEF b
  <2> QED BY <2>1, SetBusy DEF b
<1>6. /\ link' \in [AllNames -> Nat] /\ link'[SmallName(pools[r][k].name)] = 0
      /\ \A m \in AllNames : m # SmallName(pools[r][k].name) => link'[m] = link[m]
  BY <1>1, <1>2, <1>3
<1> QED BY <1>2, <1>5, <1>6

LEMMA UnlinkBegunTyped ==
  ASSUME ShmTyped, NEW r \in Procs, NEW k, UnlinkBegun(r, k),
         \A m \in AllNames : link'[m] =< Len(length)
  PROVE  ShmTyped'
<1>1. PICK q : Kept(pools', r, k, q)
  <2>1. CASE pools' = pools
    BY <2>1 DEF ShmTyped, Kept
  <2> QED BY <2>1 DEF UnlinkBegun
<1>2. /\ k \in 1 .. Len(pools[r]) /\ length' = length /\ truncated' = truncated /\ current' = current
      /\ \A s \in Procs : Len(pools'[s]) = Len(pools[s])
  BY <1>1 DEF UnlinkBegun, Kept
<1>3. BusyTyped(r)'
  <2>1. PICK call \in {"destroy", "cleanup"} : busy'[r] = Unlinking(call, k)
    BY DEF UnlinkBegun
  <2>2. busy'[r].at = "unlink" /\ busy'[r].call = call /\ busy'[r].pool = k
    BY <2>1 DEF Unlinking
  <2>3. k \in 1 .. Len(pools'[r])
    BY <1>2
  <2> QED BY <2>2, <2>3 DEF BusyTyped
<1>4. current' \in [Procs -> Nat] /\ \A s \in Procs : current'[s] =< Len(pools'[s])
  BY <1>2 DEF ShmTyped
<1>5. /\ link' \in [AllNames -> Nat] /\ \A m \in AllNames : link'[m] =< Len(length')
      /\ length' \in Seq(Nat) /\ truncated' \in Seq(SUBSET Nat) /\ Len(truncated') = Len(length')
      /\ Len(length) =< Len(length')
      /\ busy' \in [Procs -> BusySet] /\ \A s \in Procs : s # r => busy'[s] = busy[s]
  BY <1>2 DEF UnlinkBegun, ShmTyped
<1> QED BY <1>1, <1>3, <1>4, <1>5, TypedKept

LEMMA DestroyStep ==
  ASSUME ShmTyped, NEW r \in Procs, NEW k \in 1 .. Len(pools[r]), ShmDestroy(r, k)
  PROVE  UnlinkBegun(r, k) /\ ShmTyped'
<1>1. /\ Free(r) /\ ~pools[r][k].freed /\ UnlinkSmall(r, "destroy", k)
      /\ UNCHANGED <<pools, length, current, permanent, truncated, disturbed, failures>>
  BY DEF ShmDestroy, Pool
<1>2. /\ link' \in [AllNames -> Nat] /\ link'[SmallName(pools[r][k].name)] = 0
      /\ \A m \in AllNames : m # SmallName(pools[r][k].name) => link'[m] = link[m]
      /\ \A m \in AllNames : link'[m] =< Len(length)
      /\ busy' \in [Procs -> BusySet] /\ \A s \in Procs : s # r => busy'[s] = busy[s]
      /\ busy'[r] = Unlinking("destroy", k)
  BY <1>1, UnlinkSmallIs
<1>3. busy[r].at = "none"
  BY <1>1, FreeIs
<1>4. UnlinkBegun(r, k)
  BY <1>1, <1>2, <1>3 DEF UnlinkBegun
<1> QED BY <1>2, <1>4, UnlinkBegunTyped

LEMMA LeastOf ==
  ASSUME NEW T, T \subseteq Nat, T # {}
  PROVE  \E m \in T : \A n \in T : m =< n
<1> DEFINE R == OpToRel(<, Nat)
<1>1. IsWellFoundedOn(R, Nat)
  BY NatLessThanWellFounded
<1>2. \A x, y \in Nat : x < y => <<x, y>> \in R
  BY DEF OpToRel
<1> HIDE DEF R
<1>3. PICK m \in T : \A n \in T : ~(<<n, m>> \in R)
  BY <1>1, WFMin
<1>4. \A n \in T : n \in Nat
  OBVIOUS
<1>5. \A n \in T : ~(n < m)
  BY <1>2, <1>3, <1>4
<1> QED BY <1>3, <1>4, <1>5

LEMMA TakenOff ==
  ASSUME NEW p \in PoolSet
  PROVE  [p EXCEPT !.listed = FALSE] \in PoolSet
BY DEF PoolSet

LEMMA IndexOn ==
  ASSUME NEW d \in BusySet, NEW b, b = [d EXCEPT !.index = @ + 1]
  PROVE  /\ b \in BusySet /\ b.at = d.at /\ b.call = d.call /\ b.pool = d.pool
         /\ b.index = d.index + 1
<1>1. d.index + 1 \in Nat
  BY DEF BusySet
<1> QED BY <1>1 DEF BusySet

LEMMA CleanupStep ==
  ASSUME ShmTyped, NEW r \in Procs, busy[r].at = "none", Listed(r) # {}, CleanupNext(r),
         UNCHANGED <<length, current, permanent, truncated, disturbed, failures>>
  PROVE  (\E k \in Nat : UnlinkBegun(r, k) \/ FreedListed(r, k)) /\ ShmTyped'
<1>1. PICK k : k = CHOOSE j \in Listed(r) : \A i \in Listed(r) : j =< i
  OBVIOUS
<1>2. k \in Listed(r)
  <2>1. Listed(r) \subseteq Nat
    BY DEF Listed
  <2>2. \E j \in Listed(r) : \A i \in Listed(r) : j =< i
    <3> DEFINE T == Listed(r)
    <3>1. T \subseteq Nat /\ T # {}
      BY <2>1
    <3> HIDE DEF T
    <3>2. \E j \in T : \A i \in T : j =< i
      BY <3>1, LeastOf
    <3> QED BY <3>2 DEF T
  <2> QED BY <1>1, <2>2
<1>3. k \in 1 .. Len(pools[r]) /\ k \in Nat /\ pools[r] \in Seq(PoolSet)
  BY <1>2 DEF Listed, ShmTyped
<1>4. /\ pools' = [pools EXCEPT ![r][k].listed = FALSE]
      /\ IF pools[r][k].freed THEN Undefined(r) /\ UNCHANGED link ELSE UnlinkSmall(r, "cleanup", k)
  BY <1>1 DEF CleanupNext, Pool
<1> DEFINE q == [pools[r][k] EXCEPT !.listed = FALSE]
<1>5. q \in PoolSet /\ pools' = [pools EXCEPT ![r][k] = q]
  <2>1. pools[r][k] \in PoolSet
    BY <1>3
  <2> QED BY <1>4, <2>1, TakenOff
<1>6. Kept(pools', r, k, q)
  <2> HIDE DEF q
  <2> QED BY <1>3, <1>5, SetPool
<1>7. CASE ~pools[r][k].freed
  <2>1. /\ link' \in [AllNames -> Nat] /\ link'[SmallName(pools[r][k].name)] = 0
        /\ \A m \in AllNames : m # SmallName(pools[r][k].name) => link'[m] = link[m]
        /\ \A m \in AllNames : link'[m] =< Len(length)
        /\ busy' \in [Procs -> BusySet] /\ \A s \in Procs : s # r => busy'[s] = busy[s]
        /\ busy'[r] = Unlinking("cleanup", k)
    <3>1. UnlinkSmall(r, "cleanup", k)
      BY <1>4, <1>7
    <3> QED BY <1>3, <3>1, UnlinkSmallIs
  <2>2. UnlinkBegun(r, k)
    BY <1>3, <1>6, <1>7, <2>1 DEF UnlinkBegun
  <2> QED BY <1>3, <2>1, <2>2, UnlinkBegunTyped
<1>8. CASE pools[r][k].freed
  <2> DEFINE b == [busy[r] EXCEPT !.call = "undefined"]
  <2>1. b \in BusySet /\ busy' = [busy EXCEPT ![r] = b] /\ b.at = "none" /\ b.call = "undefined"
    BY <1>4, <1>8 DEF Undefined, ShmTyped, BusySet
  <2>2. /\ busy' \in [Procs -> BusySet] /\ busy'[r] = b
        /\ \A s \in Procs : s # r => busy'[s] = busy[s]
    <3> HIDE DEF b
    <3> QED BY <2>1, SetBusy
  <2>3. link' = link
    BY <1>4, <1>8
  <2>4. FreedListed(r, k)
    BY <1>3, <1>6, <2>2, <2>3 DEF FreedListed, Alike
  <2>5. BusyTyped(r)'
    BY <2>1, <2>2 DEF BusyTyped
  <2>6. /\ link' \in [AllNames -> Nat] /\ \A m \in AllNames : link'[m] =< Len(length')
        /\ length' \in Seq(Nat) /\ truncated' \in Seq(SUBSET Nat) /\ Len(truncated') = Len(length')
        /\ Len(length) =< Len(length') /\ current' \in [Procs -> Nat]
    BY <2>3 DEF ShmTyped
  <2>7. \A s \in Procs : current'[s] =< Len(pools'[s])
    BY <1>6 DEF ShmTyped, Kept
  <2>8. ShmTyped'
    <3> HIDE DEF q
    <3> QED BY <1>6, <2>2, <2>5, <2>6, <2>7, TypedKept
  <2> QED BY <1>3, <2>4, <2>8
<1> QED BY <1>7, <1>8

\* The name of a big segment is unlinked.
BigUnlinked(r) ==
  LET d == busy[r]
      p == pools[r][d.pool]
      n == BigName(p.name, d.index)
  IN  /\ d.at = "unlink" /\ d.index < p.bigIndex
      /\ link' \in [AllNames -> Nat] /\ link'[n] = 0 /\ \A m \in AllNames : m # n => link'[m] = link[m]
      /\ busy' \in [Procs -> BusySet] /\ \A s \in Procs : s # r => busy'[s] = busy[s]
      /\ busy'[r] = [d EXCEPT !.index = @ + 1]
      /\ disturbed' = disturbed \cup {link[SmallName(p.name)]}
      /\ UNCHANGED <<pools, length, current, permanent, truncated, failures>>

LEMMA UnlinkBigStep ==
  ASSUME ShmTyped, NEW r \in Procs, UnlinkBig(r)
  PROVE  BigUnlinked(r) /\ ShmTyped'
<1> DEFINE d == busy[r]
           p == pools[r][d.pool]
           n == BigName(p.name, d.index)
<1>1. /\ d.at = "unlink" /\ d.index < p.bigIndex
      /\ link' = [link EXCEPT ![n] = 0]
      /\ busy' = [busy EXCEPT ![r].index = @ + 1]
      /\ disturbed' = disturbed \cup {link[SmallName(p.name)]}
      /\ UNCHANGED <<pools, length, current, permanent, truncated, failures>>
  BY DEF UnlinkBig, BigLeft, Pool
<1>2. /\ BusyTyped(r) /\ d \in BusySet /\ link \in [AllNames -> Nat]
      /\ \A m \in AllNames : link[m] =< Len(length)
  BY DEF ShmTyped
<1>3. d.pool \in 1 .. Len(pools[r]) /\ d.index \in Nat /\ d.call \in {"destroy", "cleanup"}
  BY <1>1, <1>2 DEF BusyTyped, BusySet
<1>4. p.name \in Names /\ d.index \in 0 .. BigMax - 1
  <2>1. p \in PoolSet
    BY <1>3 DEF ShmTyped
  <2>2. p.bigIndex \in Nat /\ p.bigIndex =< BigMax /\ p.name \in Names
    BY <2>1, ShmpoolAssumption DEF PoolSet
  <2> QED BY <1>1, <1>3, <2>2, ShmpoolAssumption, SMTT(30)
<1>5. n \in AllNames
  BY <1>4, NamesAre
<1>6. link' \in [AllNames -> Nat] /\ link'[n] = 0 /\ \A m \in AllNames : m # n => link'[m] = link[m]
  <2> HIDE DEF n
  <2> QED BY <1>1, <1>2, <1>5
<1>7. \A m \in AllNames : link'[m] =< Len(length)
  <2>1. Len(length) \in Nat
    BY DEF ShmTyped
  <2> QED BY <1>2, <1>6, <2>1
<1> DEFINE b == [d EXCEPT !.index = @ + 1]
<1>8. b \in BusySet /\ b.at = "unlink" /\ b.call = d.call /\ b.pool = d.pool
  <2> HIDE DEF d
  <2> QED BY <1>1, <1>2, IndexOn
<1>9. /\ busy' \in [Procs -> BusySet] /\ busy'[r] = b
      /\ \A s \in Procs : s # r => busy'[s] = busy[s]
  <2>1. busy' = [busy EXCEPT ![r] = b]
    BY <1>1
  <2> HIDE DEF b
  <2> QED BY <1>8, <2>1, SetBusy
<1>10. BigUnlinked(r)
  BY <1>1, <1>6, <1>9 DEF BigUnlinked
<1>11. BusyTyped(r)'
  BY <1>1, <1>3, <1>8, <1>9 DEF BusyTyped
<1>12. Kept(pools', r, d.pool, p)
  BY <1>1 DEF Kept, ShmTyped
<1>13. /\ length' \in Seq(Nat) /\ truncated' \in Seq(SUBSET Nat) /\ Len(truncated') = Len(length')
       /\ Len(length) =< Len(length') /\ current' \in [Procs -> Nat]
       /\ \A s \in Procs : current'[s] =< Len(pools'[s])
       /\ \A m \in AllNames : link'[m] =< Len(length')
  BY <1>1, <1>7 DEF ShmTyped
<1>14. ShmTyped'
  <2> HIDE DEF d, p, n, b
  <2> QED BY <1>6, <1>9, <1>11, <1>12, <1>13, TypedKept
<1> QED BY <1>10, <1>14

Gone(p) ==
  [p EXCEPT !.freed = TRUE, !.segment = 0, !.bigIndex = 0, !.smallPos = 0, !.asked = <<>>, !.got = <<>>]

\* All its names are unlinked, and the pool is freed.
PoolFreed(r) ==
  LET d == busy[r] IN
  /\ d.at = "unlink" /\ ~(d.index < pools[r][d.pool].bigIndex)
  /\ Kept(pools', r, d.pool, Gone(pools[r][d.pool]))
  /\ Alike /\ current' = current
  /\ busy' \in [Procs -> BusySet] /\ \A s \in Procs : s # r => busy'[s] = busy[s]
  /\ busy'[r].at = "none"

LEMMA DestroyedStep ==
  ASSUME ShmTyped, NEW r \in Procs, Destroyed(r)
  PROVE  PoolFreed(r) /\ ShmTyped'
<1> DEFINE d == busy[r]
           p == pools[r][d.pool]
           b == IF d.call = "cleanup" /\ Listed(r) # {} THEN [Idle EXCEPT !.call = "cleanup"] ELSE Idle
<1>1. /\ d.at = "unlink" /\ ~(d.index < p.bigIndex)
      /\ pools' = [pools EXCEPT ![r][d.pool] = Gone(p)]
      /\ busy' = [busy EXCEPT ![r] = b]
      /\ UNCHANGED <<link, length, current, permanent, truncated, disturbed, failures>>
  BY DEF Destroyed, BigLeft, Pool, Gone
<1>2. /\ BusyTyped(r) /\ d \in BusySet /\ pools[r] \in Seq(PoolSet)
  BY DEF ShmTyped
<1>3. d.pool \in 1 .. Len(pools[r])
  BY <1>1, <1>2 DEF BusyTyped
<1>4. Gone(p) \in PoolSet
  <2>1. p \in PoolSet
    BY <1>2, <1>3
  <2>2. 0 \in 0 .. BigMax /\ <<>> \in Seq(Nat) /\ <<>> \in Seq(GotPieces)
    BY ShmpoolAssumption
  <2> QED BY <2>1, <2>2 DEF Gone, PoolSet
<1>5. Kept(pools', r, d.pool, Gone(p))
  <2> DEFINE q == Gone(p)
             k == d.pool
  <2>1. q \in PoolSet /\ k \in 1 .. Len(pools[r]) /\ pools' = [pools EXCEPT ![r][k] = q]
    BY <1>1, <1>3, <1>4
  <2> HIDE DEF q, k
  <2>2. Kept(pools', r, k, q)
    BY <2>1, SetPool
  <2> QED BY <2>2 DEF q, k
<1>6. /\ b \in BusySet /\ b.at = "none" /\ b.call \in {"none", "cleanup"}
      /\ b.call = "cleanup" => Listed(r) # {}
  BY DEF Idle, BusySet
<1>7. /\ busy' \in [Procs -> BusySet] /\ busy'[r] = b
      /\ \A s \in Procs : s # r => busy'[s] = busy[s]
  <2> HIDE DEF b
  <2> QED BY <1>1, <1>6, SetBusy
<1>8. PoolFreed(r)
  BY <1>1, <1>5, <1>6, <1>7 DEF PoolFreed, Alike
<1>9. Listed(r)' = Listed(r)
  <2>1. /\ Gone(p).listed = p.listed
    BY <1>2, <1>3 DEF Gone, PoolSet
  <2>2. Len(pools'[r]) = Len(pools[r]) /\ \A j \in 1 .. Len(pools[r]) : pools'[r][j].listed = pools[r][j].listed
    BY <1>5, <2>1 DEF Kept
  <2> QED BY <2>2 DEF Listed, Pool
<1>10. BusyTyped(r)'
  BY <1>6, <1>7, <1>9 DEF BusyTyped
<1>11. /\ link' \in [AllNames -> Nat] /\ \A m \in AllNames : link'[m] =< Len(length')
       /\ length' \in Seq(Nat) /\ truncated' \in Seq(SUBSET Nat) /\ Len(truncated') = Len(length')
       /\ Len(length) =< Len(length') /\ current' \in [Procs -> Nat]
       /\ \A s \in Procs : current'[s] =< Len(pools'[s])
  BY <1>1, <1>5 DEF ShmTyped, Kept
<1>12. ShmTyped'
  <2> DEFINE q == Gone(p)
             k == d.pool
  <2>1. Kept(pools', r, k, q)
    BY <1>5
  <2> HIDE DEF q, k, d, p, b
  <2> QED BY <1>7, <1>10, <1>11, <2>1, TypedKept
<1> QED BY <1>8, <1>12

Done(r) ==
  \/ \E n \in Names, size \in SmallSizes : NewDone(r, n, size)
  \/ \E k \in Nat, size \in Nat : AllocDone(r, k, size)
  \/ Resting(r)
  \/ \E seg \in Nat : OpenedDone(r, seg)
  \/ \E k \in Nat : UnlinkBegun(r, k) \/ FreedListed(r, k)
  \/ BigUnlinked(r)
  \/ PoolFreed(r)

LEMMA StepIsDone ==
  ASSUME ShmTyped, ShmNext
  PROVE  ShmTyped' /\ \E r \in Procs : Done(r)
<1>1. PICK r \in Procs :
        \/ \E n \in Names, size \in SmallSizes : ShmNew(r, n, size)
        \/ \E size \in Requests : Alloc(r, size) \/ AllocPermanent(r, size)
        \/ Finish(r)
        \/ OpenStep(r)
        \/ \E k \in 1 .. Len(pools[r]) : ShmDestroy(r, k)
        \/ Cleanup(r) \/ UnlinkBig(r) \/ Destroyed(r) \/ CleanupGoesOn(r)
  BY DEF ShmNext
<1>2. CASE \E n \in Names, size \in SmallSizes : ShmNew(r, n, size)
  BY <1>2, NewStep DEF Done
<1>3. ASSUME NEW asked \in Requests, Alloc(r, asked) PROVE ShmTyped' /\ Done(r)
  <2>1. CASE Pool(r, current[r]).freed
    BY <1>3, <2>1, UndefinedStep DEF Done
  <2>2. CASE ~Pool(r, current[r]).freed
    <3>1. AllocDone(r, current[r], RoundedUp(asked)) /\ ShmTyped'
      BY <1>3, <2>2, AllocStep
    <3>2. current[r] \in Nat /\ RoundedUp(asked) \in Nat
      BY RoundedIs DEF ShmTyped
    <3> QED BY <3>1, <3>2 DEF Done
  <2> QED BY <2>1, <2>2
<1>4. ASSUME NEW asked \in Requests, AllocPermanent(r, asked) PROVE ShmTyped' /\ Done(r)
  BY <1>4, PermanentStep DEF Done
<1>5. CASE Finish(r)
  BY <1>5, FinishStep DEF Done
<1>6. CASE OpenStep(r)
  BY <1>6, OpenStepIs DEF Done
<1>7. CASE \E k \in 1 .. Len(pools[r]) : ShmDestroy(r, k)
  <2>1. PICK k \in 1 .. Len(pools[r]) : ShmDestroy(r, k)
    BY <1>7
  <2>2. UnlinkBegun(r, k) /\ ShmTyped' /\ k \in Nat
    BY <2>1, DestroyStep
  <2> QED BY <2>2 DEF Done
<1>8. CASE Cleanup(r) \/ CleanupGoesOn(r)
  <2>1. /\ busy[r].at = "none" /\ Listed(r) # {} /\ CleanupNext(r)
        /\ UNCHANGED <<length, current, permanent, truncated, disturbed, failures>>
    BY <1>8, FreeIs DEF Cleanup, CleanupGoesOn, ShmTyped, BusyTyped
  <2>2. (\E k \in Nat : UnlinkBegun(r, k) \/ FreedListed(r, k)) /\ ShmTyped'
    BY <2>1, CleanupStep
  <2> QED BY <2>2 DEF Done
<1>9. CASE UnlinkBig(r)
  BY <1>9, UnlinkBigStep DEF Done
<1>10. CASE Destroyed(r)
  BY <1>10, DestroyedStep DEF Done
<1> QED BY <1>1, <1>2, <1>3, <1>4, <1>5, <1>6, <1>7, <1>8, <1>9, <1>10

LEMMA InitTyped ==
  ASSUME ShmInit
  PROVE  ShmTyped
<1>1. /\ link = [m \in AllNames |-> 0] /\ length = <<>> /\ truncated = <<>>
      /\ pools = [r \in Procs |-> <<>>] /\ current = [r \in Procs |-> 0]
      /\ busy = [r \in Procs |-> Idle]
  BY DEF ShmInit
<1>2. Idle \in BusySet /\ Idle.call = "none" /\ Idle.at = "none"
  BY DEF Idle, BusySet
<1>3. \A r \in Procs : BusyTyped(r)
  BY <1>1, <1>2 DEF BusyTyped
<1>4. <<>> \in Seq(PoolSet) /\ <<>> \in Seq(Nat) /\ <<>> \in Seq(SUBSET Nat) /\ Len(<<>>) = 0
  OBVIOUS
<1> QED BY <1>1, <1>2, <1>3, <1>4 DEF ShmTyped

-----------------------------------------------------------------------------
(* The names that are in the system.                                       *)

LEMMA PoolIs ==
  ASSUME ShmTyped, NEW s \in Procs, NEW j \in 1 .. Len(pools[s])
  PROVE  /\ pools[s][j] \in PoolSet /\ pools[s][j].bigIndex \in Nat
         /\ pools[s][j].bigIndex =< BigMax /\ pools[s][j].name \in Names
         /\ pools[s][j].smallSize \in Nat /\ pools[s][j].smallPos \in Nat
         /\ pools[s][j].segment \in Nat /\ pools[s][j].got \in Seq(GotPieces)
         /\ pools[s][j].asked \in Seq(Nat)
<1>1. PICK p : p = pools[s][j]
  OBVIOUS
<1>2. p \in PoolSet
  BY <1>1 DEF ShmTyped
<1>3. /\ p.bigIndex \in Nat /\ p.bigIndex =< BigMax /\ p.name \in Names
      /\ p.smallSize \in Nat /\ p.smallPos \in Nat
      /\ p.segment \in Nat /\ p.got \in Seq(GotPieces) /\ p.asked \in Seq(Nat)
  <2>1. p.bigIndex \in 0 .. BigMax /\ p.smallSize \in SmallSizes
    BY <1>2 DEF PoolSet
  <2>2. p.bigIndex \in Nat /\ p.bigIndex =< BigMax /\ p.smallSize \in Nat
    <3>1. BigMax \in Nat /\ \A z \in SmallSizes : z \in Nat
      BY ShmpoolAssumption
    <3>2. \A b \in 0 .. BigMax : b \in Nat /\ b =< BigMax
      BY <3>1
    <3> QED BY <2>1, <3>1, <3>2
  <2>3. /\ p.name \in Names /\ p.smallPos \in Nat
        /\ p.segment \in Nat /\ p.got \in Seq(GotPieces) /\ p.asked \in Seq(Nat)
    BY <1>2 DEF PoolSet
  <2> QED BY <2>2, <2>3
<1> QED BY <1>1, <1>2, <1>3

\* Pool j of s will unlink what it would have unlinked before.
StillUnlinks(s, j) ==
  /\ j \in 1 .. Len(pools'[s]) /\ pools'[s][j].name = pools[s][j].name
  /\ pools'[s][j].freed = pools[s][j].freed /\ pools'[s][j].bigIndex >= pools[s][j].bigIndex
  /\ Ending(s, j)' => Ending(s, j) /\ busy'[s].index = busy[s].index

LEMMA UnlinksAfter ==
  ASSUME ShmTyped, ShmTyped', NEW s \in Procs, NEW j \in 1 .. Len(pools[s]), StillUnlinks(s, j)
  PROVE  /\ \A n : UnlinksSmall(s, j, n) => UnlinksSmall(s, j, n)'
         /\ \A n, i : i \in Nat /\ UnlinksBig(s, j, n, i) => UnlinksBig(s, j, n, i)'
<1>0. j \in 1 .. Len(pools'[s])
  BY DEF StillUnlinks
<1>1. pools[s][j] \in PoolSet /\ pools'[s][j] \in PoolSet
  BY <1>0 DEF ShmTyped
<1>2. pools[s][j].bigIndex \in Nat /\ pools'[s][j].bigIndex \in Nat
  <2>1. pools[s][j].bigIndex \in 0 .. BigMax /\ pools'[s][j].bigIndex \in 0 .. BigMax
    BY <1>1 DEF PoolSet
  <2>2. BigMax \in Nat
    BY ShmpoolAssumption
  <2>3. \A b \in 0 .. BigMax : b \in Nat
    BY <2>2
  <2> QED BY <2>1, <2>3
<1>3. ASSUME NEW n, UnlinksSmall(s, j, n) PROVE UnlinksSmall(s, j, n)'
  BY <1>3 DEF UnlinksSmall, StillUnlinks, Pool
<1>4. ASSUME NEW n, NEW i \in Nat, UnlinksBig(s, j, n, i) PROVE UnlinksBig(s, j, n, i)'
  BY <1>2, <1>4 DEF UnlinksBig, StillUnlinks, Pool
<1> QED BY <1>3, <1>4

OwnedSmall(n) == \E r \in Procs : \E k \in 1 .. Len(pools[r]) : UnlinksSmall(r, k, n)

OwnedBig(n, i) == \E r \in Procs : \E k \in 1 .. Len(pools[r]) : UnlinksBig(r, k, n, i)

LEMMA NamesStay ==
  ASSUME ShmTyped, ShmTyped', NamesOwned,
         \A s \in Procs : \A j \in 1 .. Len(pools[s]) : StillUnlinks(s, j),
         \A n \in Names : link'[SmallName(n)] # 0 => link[SmallName(n)] # 0 \/ OwnedSmall(n)',
         \A n \in Names : \A i \in 0 .. BigMax - 1 :
           link'[BigName(n, i)] # 0 => link[BigName(n, i)] # 0 \/ OwnedBig(n, i)'
  PROVE  NamesOwned'
<1>1. ASSUME NEW n \in Names, OwnedSmall(n) PROVE OwnedSmall(n)'
  <2>0. PICK s \in Procs : \E j \in 1 .. Len(pools[s]) : UnlinksSmall(s, j, n)
    BY <1>1 DEF OwnedSmall
  <2>1. PICK j \in 1 .. Len(pools[s]) : UnlinksSmall(s, j, n)
    BY <2>0
  <2>2. j \in 1 .. Len(pools'[s])
    BY DEF StillUnlinks
  <2>3. UnlinksSmall(s, j, n)'
    BY <2>1, UnlinksAfter
  <2> QED BY <2>2, <2>3 DEF OwnedSmall
<1>2. ASSUME NEW n \in Names, NEW i \in 0 .. BigMax - 1, OwnedBig(n, i) PROVE OwnedBig(n, i)'
  <2>0. PICK s \in Procs : \E j \in 1 .. Len(pools[s]) : UnlinksBig(s, j, n, i)
    BY <1>2 DEF OwnedBig
  <2>1. PICK j \in 1 .. Len(pools[s]) : UnlinksBig(s, j, n, i)
    BY <2>0
  <2>2. j \in 1 .. Len(pools'[s]) /\ i \in Nat
    BY DEF StillUnlinks
  <2>3. UnlinksBig(s, j, n, i)'
    BY <2>1, <2>2, UnlinksAfter
  <2> QED BY <2>2, <2>3 DEF OwnedBig
<1>3. \A n \in Names : link'[SmallName(n)] # 0 => OwnedSmall(n)'
  BY <1>1 DEF NamesOwned, OwnedSmall
<1>4. \A n \in Names : \A i \in 0 .. BigMax - 1 : link'[BigName(n, i)] # 0 => OwnedBig(n, i)'
  BY <1>2 DEF NamesOwned, OwnedBig
<1> QED BY <1>3, <1>4 DEF NamesOwned, OwnedSmall, OwnedBig

LEMMA NewNames ==
  ASSUME ShmTyped, ShmTyped', NamesOwned, NEW r \in Procs, NEW n \in Names, NEW size \in SmallSizes,
         NewDone(r, n, size)
  PROVE  NamesOwned'
<1>1. PICK k : k = Len(pools[r]) + 1
  OBVIOUS
<1>2. /\ Free(r) /\ Added(r, NewPool(n, size)) /\ k \in Nat
      /\ \E new \in BOOLEAN, seg \in Nat : Opening(r, "new", k, SmallName(n), size, new, seg)
  BY <1>1 DEF NewDone, ShmTyped
<1>3. /\ \A m \in AllNames : m # SmallName(n) => link'[m] = link[m]
      /\ busy'[r].at = "stat" /\ \A s \in Procs : s # r => busy'[s] = busy[s]
  BY <1>2 DEF Opening
<1>4. ASSUME NEW s \in Procs, NEW j \in 1 .. Len(pools[s]) PROVE StillUnlinks(s, j)
  <2>1. /\ j \in 1 .. Len(pools'[s]) /\ pools'[s][j] = pools[s][j]
    <3>1. CASE s # r
      BY <1>2, <3>1 DEF Added
    <3>2. CASE s = r
      <4>1. Len(pools[r]) \in Nat /\ Len(pools'[r]) = Len(pools[r]) + 1
        BY <1>2 DEF Added, ShmTyped
      <4> QED BY <1>2, <3>2, <4>1 DEF Added
    <3> QED BY <3>1, <3>2
  <2>2. pools[s][j].bigIndex \in Nat
    BY PoolIs
  <2>3. Ending(s, j)' => Ending(s, j) /\ busy'[s].index = busy[s].index
    BY <1>3 DEF Ending
  <2> QED BY <2>1, <2>2, <2>3 DEF StillUnlinks
<1>5. UnlinksSmall(r, k, n)' /\ k \in 1 .. Len(pools'[r])
  <2>1. pools'[r][k] = NewPool(n, size) /\ Len(pools'[r]) = k
    BY <1>1, <1>2 DEF Added
  <2>2. k \in 1 .. Len(pools'[r])
    BY <1>1, <2>1 DEF ShmTyped
  <2>3. pools'[r][k].name = n /\ ~pools'[r][k].freed
    BY <2>1 DEF NewPool
  <2> QED BY <1>3, <2>2, <2>3 DEF UnlinksSmall, Pool, Ending
<1>6. OwnedSmall(n)'
  BY <1>5 DEF OwnedSmall
<1>7. \A m \in Names : link'[SmallName(m)] # 0 => link[SmallName(m)] # 0 \/ OwnedSmall(m)'
  BY <1>3, <1>6, NamesAre
<1>8. \A m \in Names : \A i \in 0 .. BigMax - 1 :
        link'[BigName(m, i)] # 0 => link[BigName(m, i)] # 0 \/ OwnedBig(m, i)'
  BY <1>3, NamesAre
<1> QED BY <1>4, <1>7, <1>8, NamesStay

\* Pool k of r is another, and where r is in its call.
LEMMA KeptUnlinks ==
  ASSUME ShmTyped, NEW r \in Procs, NEW k \in 1 .. Len(pools[r]), NEW q, Kept(pools', r, k, q),
         q.name = pools[r][k].name, q.freed = pools[r][k].freed, q.bigIndex >= pools[r][k].bigIndex,
         \A s \in Procs : s # r => busy'[s] = busy[s],
         busy'[r] = busy[r] \/ busy'[r].at # "unlink"
  PROVE  \A s \in Procs : \A j \in 1 .. Len(pools[s]) : StillUnlinks(s, j)
<1> SUFFICES ASSUME NEW s \in Procs, NEW j \in 1 .. Len(pools[s]) PROVE StillUnlinks(s, j)
  OBVIOUS
<1>1. j \in 1 .. Len(pools'[s])
  BY DEF Kept
<1>2. pools[s][j].bigIndex \in Nat
  BY PoolIs
<1>3. Ending(s, j)' => Ending(s, j) /\ busy'[s].index = busy[s].index
  BY DEF Ending
<1>4. CASE s = r /\ j = k
  BY <1>1, <1>3, <1>4 DEF StillUnlinks, Kept
<1>5. CASE s # r \/ j # k
  BY <1>1, <1>2, <1>3, <1>5 DEF StillUnlinks, Kept
<1> QED BY <1>4, <1>5

LEMMA AllocNames ==
  ASSUME ShmTyped, ShmTyped', NamesOwned, NEW r \in Procs, NEW k \in Nat, NEW size \in Nat,
         AllocDone(r, k, size)
  PROVE  NamesOwned'
<1>1. k \in 1 .. Len(pools[r]) /\ Free(r) /\ busy[r].at = "none"
  BY FreeIs DEF AllocDone
<1>2. PICK p \in PoolSet : p = pools[r][k]
  BY <1>1, PoolIs
<1>3. p.bigIndex \in Nat /\ p.name \in Names
  BY <1>1, <1>2, PoolIs
<1>4. /\ SmallGiven(p, size).name = p.name /\ SmallGiven(p, size).freed = p.freed
      /\ SmallGiven(p, size).bigIndex = p.bigIndex
  BY <1>2 DEF SmallGiven, PoolSet
<1>5. /\ Refused(p, size).name = p.name /\ Refused(p, size).freed = p.freed
      /\ Refused(p, size).bigIndex = p.bigIndex
  BY <1>2 DEF Refused, PoolSet
<1>6. /\ BigBegun(p, size).name = p.name /\ BigBegun(p, size).freed = p.freed
      /\ BigBegun(p, size).bigIndex = p.bigIndex + 1
  BY <1>2 DEF BigBegun, PoolSet
<1>7. CASE busy' = busy /\ Alike /\ \E q \in {SmallGiven(p, size), Refused(p, size)} : Kept(pools', r, k, q)
  <2>1. PICK q \in {SmallGiven(p, size), Refused(p, size)} : Kept(pools', r, k, q)
    BY <1>7
  <2>2. q.name = p.name /\ q.freed = p.freed /\ q.bigIndex >= p.bigIndex
    BY <1>3, <1>4, <1>5, <2>1
  <2>3. \A s \in Procs : \A j \in 1 .. Len(pools[s]) : StillUnlinks(s, j)
    BY <1>1, <1>2, <1>7, <2>1, <2>2, KeptUnlinks
  <2>4. link' = link
    BY <1>7 DEF Alike
  <2> QED BY <2>3, <2>4, NamesStay
<1>8. CASE /\ Kept(pools', r, k, BigBegun(p, size)) /\ p.bigIndex < BigMax
           /\ \E new \in BOOLEAN, seg \in Nat :
                Opening(r, "big", k, BigName(p.name, p.bigIndex), size, new, seg)
  <2>1. PICK q : q = BigBegun(p, size)
    OBVIOUS
  <2>2. /\ q.name = p.name /\ q.freed = p.freed /\ q.bigIndex = p.bigIndex + 1 /\ q.bigIndex >= p.bigIndex
        /\ Kept(pools', r, k, q)
    BY <1>3, <1>6, <1>8, <2>1
  <2>3. PICK n : n = BigName(p.name, p.bigIndex)
    OBVIOUS
  <2>4. /\ \A m \in AllNames : m # n => link'[m] = link[m]
        /\ busy'[r].at = "stat" /\ \A s \in Procs : s # r => busy'[s] = busy[s]
    BY <1>8, <2>3 DEF Opening
  <2>5. \A s \in Procs : \A j \in 1 .. Len(pools[s]) : StillUnlinks(s, j)
    BY <1>1, <1>2, <2>2, <2>4, KeptUnlinks
  <2>6. OwnedBig(p.name, p.bigIndex)'
    <3>1. k \in 1 .. Len(pools'[r]) /\ pools'[r][k] = q
      BY <1>1, <2>2 DEF Kept
    <3>2. p.bigIndex < q.bigIndex
      BY <1>3, <2>2
    <3>3. UnlinksBig(r, k, p.name, p.bigIndex)'
      BY <2>2, <2>4, <3>1, <3>2 DEF UnlinksBig, Ending, Pool
    <3> QED BY <3>1, <3>3 DEF OwnedBig
  <2>7. \A m \in Names : link'[SmallName(m)] # 0 => link[SmallName(m)] # 0 \/ OwnedSmall(m)'
    BY <2>3, <2>4, NamesAre
  <2>8. ASSUME NEW m \in Names, NEW i \in 0 .. BigMax - 1, link'[BigName(m, i)] # 0
        PROVE  link[BigName(m, i)] # 0 \/ OwnedBig(m, i)'
    <3>1. CASE m = p.name /\ i = p.bigIndex
      BY <2>6, <3>1
    <3>2. CASE ~(m = p.name /\ i = p.bigIndex)
      <4>1. BigName(m, i) # n /\ BigName(m, i) \in AllNames
        BY <2>3, <3>2, NamesAre
      <4> QED BY <2>4, <2>8, <4>1
    <3> QED BY <3>1, <3>2
  <2> QED BY <2>5, <2>7, <2>8, NamesStay
<1> QED BY <1>2, <1>7, <1>8 DEF AllocDone

LEMMA RestNames ==
  ASSUME ShmTyped, ShmTyped', NamesOwned, NEW r \in Procs, Resting(r)
  PROVE  NamesOwned'
<1>1. ASSUME NEW s \in Procs, NEW j \in 1 .. Len(pools[s]) PROVE StillUnlinks(s, j)
  <2>1. pools' = pools /\ pools[s][j].bigIndex \in Nat
    BY PoolIs DEF Resting
  <2>2. Ending(s, j)' => Ending(s, j) /\ busy'[s].index = busy[s].index
    <3>1. CASE s # r
      BY <3>1 DEF Resting, Ending
    <3>2. CASE s = r /\ busy'[r].at # "unlink"
      BY <3>2 DEF Ending
    <3>3. CASE s = r /\ busy'[r] = busy[r]
      BY <3>3 DEF Ending
    <3>4. CASE Free(r) /\ busy'[r] = [busy[r] EXCEPT !.call = "undefined"]
      <4>1. busy[r].at = "none" /\ busy[r] \in BusySet
        BY <3>4, FreeIs DEF ShmTyped
      <4>2. busy'[r].at # "unlink"
        BY <3>4, <4>1 DEF BusySet
      <4> QED BY <3>1, <3>2, <4>2
    <3>5. CASE busy'[r] = [busy[r] EXCEPT !.at = "resize"]
      <4>1. busy[r] \in BusySet
        BY DEF ShmTyped
      <4>2. busy'[r].at # "unlink"
        BY <3>5, <4>1 DEF BusySet
      <4> QED BY <3>1, <3>2, <4>2
    <3> QED BY <3>1, <3>3, <3>4, <3>5 DEF Resting
  <2> QED BY <2>1, <2>2 DEF StillUnlinks
<1>2. link' = link
  BY DEF Resting, Alike
<1> QED BY <1>1, <1>2, NamesStay

LEMMA OpenedNames ==
  ASSUME ShmTyped, ShmTyped', NamesOwned, NEW r \in Procs, NEW seg \in Nat, OpenedDone(r, seg)
  PROVE  NamesOwned'
<1>1. PICK k : k = busy[r].pool
  OBVIOUS
<1>2. k \in 1 .. Len(pools[r]) /\ busy[r].call \in {"new", "big"}
  BY <1>1 DEF OpenedDone, ShmTyped, BusyTyped
<1>3. PICK p \in PoolSet : p = pools[r][k]
  BY <1>2, PoolIs
<1>4. p.bigIndex \in Nat
  BY <1>2, <1>3, PoolIs
<1>5. PICK q : Kept(pools', r, k, q) /\ q.name = p.name /\ q.freed = p.freed /\ q.bigIndex = p.bigIndex
  <2>1. CASE busy[r].call = "new"
    <3>1. Kept(pools', r, k, Mapped(p, seg))
      BY <1>1, <1>3, <2>1 DEF OpenedDone
    <3>2. /\ Mapped(p, seg).name = p.name /\ Mapped(p, seg).freed = p.freed
          /\ Mapped(p, seg).bigIndex = p.bigIndex
      BY <1>3 DEF Mapped, PoolSet
    <3> QED BY <3>1, <3>2
  <2>2. CASE busy[r].call = "big"
    <3>1. Kept(pools', r, k, GotBig(p, seg, busy[r].size))
      BY <1>1, <1>3, <2>2 DEF OpenedDone
    <3>2. /\ GotBig(p, seg, busy[r].size).name = p.name /\ GotBig(p, seg, busy[r].size).freed = p.freed
          /\ GotBig(p, seg, busy[r].size).bigIndex = p.bigIndex
      BY <1>3 DEF GotBig, PoolSet
    <3> QED BY <3>1, <3>2
  <2> QED BY <1>2, <2>1, <2>2
<1>6. busy'[r].at # "unlink" /\ link' = link /\ \A s \in Procs : s # r => busy'[s] = busy[s]
  BY DEF OpenedDone, Idle
<1>7. q.bigIndex >= p.bigIndex
  BY <1>4, <1>5
<1>8. \A s \in Procs : \A j \in 1 .. Len(pools[s]) : StillUnlinks(s, j)
  BY <1>2, <1>3, <1>5, <1>6, <1>7, KeptUnlinks
<1> QED BY <1>6, <1>8, NamesStay

LEMMA FreedListedNames ==
  ASSUME ShmTyped, ShmTyped', NamesOwned, NEW r \in Procs, NEW k \in Nat, FreedListed(r, k)
  PROVE  NamesOwned'
<1>1. k \in 1 .. Len(pools[r]) /\ busy[r].at = "none" /\ busy[r] \in BusySet /\ link' = link
  BY DEF FreedListed, ShmTyped, Alike
<1>2. PICK p \in PoolSet : p = pools[r][k]
  BY <1>1, PoolIs
<1>3. PICK q : q = [p EXCEPT !.listed = FALSE]
  OBVIOUS
<1>4. q.name = p.name /\ q.freed = p.freed /\ q.bigIndex = p.bigIndex /\ p.bigIndex \in Nat
  BY <1>1, <1>2, <1>3, PoolIs DEF PoolSet
<1>5. /\ Kept(pools', r, k, q) /\ busy'[r].at # "unlink"
      /\ \A s \in Procs : s # r => busy'[s] = busy[s]
  BY <1>1, <1>2, <1>3 DEF FreedListed, BusySet
<1>6. q.bigIndex >= p.bigIndex
  BY <1>4
<1>7. \A s \in Procs : \A j \in 1 .. Len(pools[s]) : StillUnlinks(s, j)
  BY <1>1, <1>2, <1>4, <1>5, <1>6, KeptUnlinks
<1> QED BY <1>1, <1>7, NamesStay

LEMMA UnlinkBegunNames ==
  ASSUME ShmTyped, ShmTyped', NamesOwned, NEW r \in Procs, NEW k \in Nat, UnlinkBegun(r, k)
  PROVE  NamesOwned'
<1>1. /\ k \in 1 .. Len(pools[r]) /\ busy[r].at = "none"
      /\ \A m \in AllNames : m # SmallName(pools[r][k].name) => link'[m] = link[m]
      /\ link'[SmallName(pools[r][k].name)] = 0
      /\ \A s \in Procs : s # r => busy'[s] = busy[s]
  BY DEF UnlinkBegun
<1>2. PICK p \in PoolSet : p = pools[r][k]
  BY <1>1, PoolIs
<1>3. PICK q : Kept(pools', r, k, q) /\ q.name = p.name /\ q.freed = p.freed /\ q.bigIndex = p.bigIndex
  <2>1. CASE pools' = pools
    BY <1>2, <2>1 DEF ShmTyped, Kept
  <2>2. CASE Kept(pools', r, k, [p EXCEPT !.listed = FALSE])
    BY <1>2, <2>2 DEF PoolSet
  <2> QED BY <1>2, <2>1, <2>2 DEF UnlinkBegun
<1>4. busy'[r].at = "unlink" /\ busy'[r].pool = k /\ busy'[r].index = 0
  BY DEF UnlinkBegun, Unlinking
<1>5. ASSUME NEW s \in Procs, NEW j \in 1 .. Len(pools[s])
      PROVE  /\ j \in 1 .. Len(pools'[s]) /\ pools'[s][j].name = pools[s][j].name
             /\ pools'[s][j].freed = pools[s][j].freed /\ pools'[s][j].bigIndex = pools[s][j].bigIndex
  <2>1. CASE s = r /\ j = k
    BY <1>2, <1>3, <2>1 DEF Kept
  <2>2. CASE s # r \/ j # k
    BY <1>3, <2>2 DEF Kept
  <2> QED BY <2>1, <2>2
<1>6. ASSUME NEW n \in Names, link'[SmallName(n)] # 0 PROVE OwnedSmall(n)'
  <2>1. n # p.name /\ SmallName(n) # SmallName(p.name) /\ SmallName(n) \in AllNames
    BY <1>1, <1>2, <1>6, NamesAre
  <2>2. OwnedSmall(n)
    BY <1>1, <1>2, <1>6, <2>1 DEF NamesOwned, OwnedSmall
  <2>3. PICK s \in Procs : \E j \in 1 .. Len(pools[s]) : UnlinksSmall(s, j, n)
    BY <2>2 DEF OwnedSmall
  <2>4. PICK j \in 1 .. Len(pools[s]) : UnlinksSmall(s, j, n)
    BY <2>3
  <2>5. ~(s = r /\ j = k)
    BY <1>2, <2>1, <2>4 DEF UnlinksSmall, Pool
  <2>6. ~Ending(s, j)'
    BY <1>1, <1>4, <2>4, <2>5 DEF Ending, UnlinksSmall
  <2>7. UnlinksSmall(s, j, n)' /\ j \in 1 .. Len(pools'[s])
    BY <1>5, <2>4, <2>6 DEF UnlinksSmall, Pool
  <2> QED BY <2>7 DEF OwnedSmall
<1>7. ASSUME NEW n \in Names, NEW i \in 0 .. BigMax - 1, link'[BigName(n, i)] # 0 PROVE OwnedBig(n, i)'
  <2>1. link[BigName(n, i)] # 0
    BY <1>1, <1>7, NamesAre
  <2>2. OwnedBig(n, i)
    BY <2>1 DEF NamesOwned, OwnedBig
  <2>3. PICK s \in Procs : \E j \in 1 .. Len(pools[s]) : UnlinksBig(s, j, n, i)
    BY <2>2 DEF OwnedBig
  <2>4. PICK j \in 1 .. Len(pools[s]) : UnlinksBig(s, j, n, i)
    BY <2>3
  <2>5. Ending(s, j)' => i >= busy'[s].index
    <3>1. CASE s = r
      BY <1>4, <3>1
    <3>2. CASE s # r
      BY <1>1, <2>4, <3>2 DEF Ending, UnlinksBig
    <3> QED BY <3>1, <3>2
  <2>6. UnlinksBig(s, j, n, i)' /\ j \in 1 .. Len(pools'[s])
    BY <1>5, <2>4, <2>5 DEF UnlinksBig, Pool
  <2> QED BY <2>6 DEF OwnedBig
<1> QED BY <1>6, <1>7 DEF NamesOwned, OwnedSmall, OwnedBig

LEMMA BigUnlinkedNames ==
  ASSUME ShmTyped, ShmTyped', NamesOwned, NEW r \in Procs, BigUnlinked(r)
  PROVE  NamesOwned'
<1>1. PICK k, at : k = busy[r].pool /\ at = busy[r].index
  OBVIOUS
<1>2. PICK p : p = pools[r][k]
  OBVIOUS
<1>3. /\ \A m \in AllNames : m # BigName(p.name, at) => link'[m] = link[m]
      /\ link'[BigName(p.name, at)] = 0 /\ pools' = pools
      /\ \A s \in Procs : s # r => busy'[s] = busy[s]
  BY <1>1, <1>2 DEF BigUnlinked
<1>4. busy'[r].at = "unlink" /\ busy[r].at = "unlink" /\ busy'[r].pool = k /\ busy'[r].index = at + 1 /\ at \in Nat
  <2>1. PICK d \in BusySet : d = busy[r]
    BY DEF ShmTyped
  <2>2. busy'[r] = [d EXCEPT !.index = @ + 1] /\ d.at = "unlink"
    BY <2>1 DEF BigUnlinked
  <2>3. PICK b : b = [d EXCEPT !.index = @ + 1]
    OBVIOUS
  <2>4. b.at = d.at /\ b.pool = d.pool /\ b.index = d.index + 1
    BY <2>3, IndexOn
  <2> QED BY <1>1, <2>1, <2>2, <2>3, <2>4 DEF BusySet
<1>5. ASSUME NEW n \in Names, link'[SmallName(n)] # 0 PROVE OwnedSmall(n)'
  <2>1. link[SmallName(n)] # 0
    BY <1>3, <1>5, NamesAre
  <2>2. OwnedSmall(n)
    BY <2>1 DEF NamesOwned, OwnedSmall
  <2>3. PICK s \in Procs : \E j \in 1 .. Len(pools[s]) : UnlinksSmall(s, j, n)
    BY <2>2 DEF OwnedSmall
  <2>4. PICK j \in 1 .. Len(pools[s]) : UnlinksSmall(s, j, n)
    BY <2>3
  <2>5. Ending(s, j)' => Ending(s, j)
    BY <1>1, <1>3, <1>4 DEF Ending
  <2>6. UnlinksSmall(s, j, n)' /\ j \in 1 .. Len(pools'[s])
    BY <1>3, <2>4, <2>5 DEF UnlinksSmall, Pool
  <2> QED BY <2>6 DEF OwnedSmall
<1>6. ASSUME NEW n \in Names, NEW i \in 0 .. BigMax - 1, link'[BigName(n, i)] # 0 PROVE OwnedBig(n, i)'
  <2>1. BigName(n, i) # BigName(p.name, at) /\ link[BigName(n, i)] # 0
    BY <1>3, <1>6, NamesAre
  <2>2. OwnedBig(n, i)
    BY <2>1 DEF NamesOwned, OwnedBig
  <2>3. PICK s \in Procs : \E j \in 1 .. Len(pools[s]) : UnlinksBig(s, j, n, i)
    BY <2>2 DEF OwnedBig
  <2>4. PICK j \in 1 .. Len(pools[s]) : UnlinksBig(s, j, n, i)
    BY <2>3
  <2>5. Ending(s, j)' => i >= busy'[s].index
    <3>1. CASE s = r /\ j = k
      <4>1. i >= at /\ i # at
        BY <1>1, <1>2, <1>4, <2>1, <2>4, <3>1 DEF Ending, UnlinksBig, Pool
      <4> QED BY <1>4, <3>1, <4>1
    <3>2. CASE s = r /\ j # k
      BY <1>4, <3>2 DEF Ending
    <3>3. CASE s # r
      BY <1>3, <2>4, <3>3 DEF Ending, UnlinksBig
    <3> QED BY <3>1, <3>2, <3>3
  <2>6. UnlinksBig(s, j, n, i)' /\ j \in 1 .. Len(pools'[s])
    BY <1>3, <2>4, <2>5 DEF UnlinksBig, Pool
  <2> QED BY <2>6 DEF OwnedBig
<1> QED BY <1>5, <1>6 DEF NamesOwned, OwnedSmall, OwnedBig

LEMMA FreedNames ==
  ASSUME ShmTyped, ShmTyped', NamesOwned, NEW r \in Procs, PoolFreed(r)
  PROVE  NamesOwned'
<1>1. PICK k : k = busy[r].pool
  OBVIOUS
<1>2. /\ busy[r].at = "unlink" /\ ~(busy[r].index < pools[r][k].bigIndex)
      /\ Kept(pools', r, k, Gone(pools[r][k])) /\ link' = link
      /\ \A s \in Procs : s # r => busy'[s] = busy[s]
      /\ busy'[r].at = "none"
  BY <1>1 DEF PoolFreed, Alike
<1>3. k \in 1 .. Len(pools[r]) /\ busy[r].index \in Nat
  BY <1>1, <1>2 DEF ShmTyped, BusyTyped, BusySet
<1>4. pools[r][k].bigIndex \in Nat
  BY <1>3, PoolIs
<1>5. ASSUME NEW s \in Procs, NEW j \in 1 .. Len(pools[s]), s # r \/ j # k
      PROVE  StillUnlinks(s, j)
  <2>1. pools'[s][j] = pools[s][j] /\ j \in 1 .. Len(pools'[s])
    BY <1>2, <1>5 DEF Kept
  <2>2. pools[s][j].bigIndex \in Nat
    BY PoolIs
  <2> QED BY <1>2, <2>1, <2>2 DEF StillUnlinks, Ending
<1>6. ASSUME NEW n \in Names, link'[SmallName(n)] # 0 PROVE OwnedSmall(n)'
  <2>2. OwnedSmall(n)
    BY <1>2, <1>6 DEF NamesOwned, OwnedSmall
  <2>3. PICK s \in Procs : \E j \in 1 .. Len(pools[s]) : UnlinksSmall(s, j, n)
    BY <2>2 DEF OwnedSmall
  <2>4. PICK j \in 1 .. Len(pools[s]) : UnlinksSmall(s, j, n)
    BY <2>3
  <2>5. s # r \/ j # k
    BY <1>1, <1>2, <2>4 DEF UnlinksSmall, Ending
  <2>6. StillUnlinks(s, j)
    BY <1>5, <2>5
  <2>7. UnlinksSmall(s, j, n)' /\ j \in 1 .. Len(pools'[s])
    BY <2>4, <2>6, UnlinksAfter DEF StillUnlinks
  <2> QED BY <2>7 DEF OwnedSmall
<1>7. ASSUME NEW n \in Names, NEW i \in 0 .. BigMax - 1, link'[BigName(n, i)] # 0 PROVE OwnedBig(n, i)'
  <2>2. OwnedBig(n, i)
    BY <1>2, <1>7 DEF NamesOwned, OwnedBig
  <2>3. PICK s \in Procs : \E j \in 1 .. Len(pools[s]) : UnlinksBig(s, j, n, i)
    BY <2>2 DEF OwnedBig
  <2>4. PICK j \in 1 .. Len(pools[s]) : UnlinksBig(s, j, n, i)
    BY <2>3
  <2>5. s # r \/ j # k
    <3>1. SUFFICES ASSUME s = r, j = k PROVE FALSE
      OBVIOUS
    <3>2. i < pools[r][k].bigIndex /\ i >= busy[r].index
      BY <1>1, <1>2, <2>4, <3>1 DEF UnlinksBig, Ending, Pool
    <3> QED BY <1>2, <1>3, <1>4, <3>2
  <2>6. StillUnlinks(s, j) /\ i \in Nat
    BY <1>5, <2>5
  <2>7. UnlinksBig(s, j, n, i)' /\ j \in 1 .. Len(pools'[s])
    BY <2>4, <2>6, UnlinksAfter DEF StillUnlinks
  <2> QED BY <2>7 DEF OwnedBig
<1> QED BY <1>6, <1>7 DEF NamesOwned, OwnedSmall, OwnedBig

\* A name that is in the system belongs to a pool that will unlink it.
THEOREM NamesTheorem == ShmSpec => []NamesOwned
<1> DEFINE Inv == ShmTyped /\ NamesOwned
<1>1. ShmInit => Inv
  <2> SUFFICES ASSUME ShmInit PROVE NamesOwned /\ ShmTyped
    OBVIOUS
  <2>1. \A m \in AllNames : link[m] = 0
    BY DEF ShmInit
  <2> QED BY <2>1, NamesAre, InitTyped DEF NamesOwned
<1>2. Inv /\ [ShmNext]_shmVars => Inv'
  <2> SUFFICES ASSUME ShmTyped, NamesOwned, [ShmNext]_shmVars PROVE ShmTyped' /\ NamesOwned'
    OBVIOUS
  <2>1. CASE ShmNext
    <3>1. PICK r \in Procs : ShmTyped' /\ Done(r)
      BY <2>1, StepIsDone
    <3> QED BY <3>1, NewNames, AllocNames, RestNames, OpenedNames, UnlinkBegunNames,
               FreedListedNames, BigUnlinkedNames, FreedNames DEF Done
  <2>2. CASE UNCHANGED shmVars
    <3>1. UNCHANGED <<link, length, pools, current, busy, truncated>>
      BY <2>2 DEF shmVars
    <3>2. ShmTyped'
      <4>1. \A s \in Procs : BusyTyped(s)' = BusyTyped(s)
        BY <3>1 DEF BusyTyped, Listed, Pool
      <4> QED BY <3>1, <4>1 DEF ShmTyped
    <3>3. NamesOwned'
      BY <3>1 DEF NamesOwned, UnlinksSmall, UnlinksBig, Ending, Pool
    <3> QED BY <3>2, <3>3
  <2> QED BY <2>1, <2>2
<1>3. Inv => NamesOwned
  OBVIOUS
<1> QED BY <1>1, <1>2, <1>3, PTL DEF ShmSpec

-----------------------------------------------------------------------------
(* What was handed out is there.                                           *)

\* In a step of r every pool but k of r is one there was, as it was.
Others(r, k, q) ==
  /\ \A s \in Procs : s # r => busy'[s] = busy[s]
  /\ \A s \in Procs : \A j \in 1 .. Len(pools'[s]) :
       \/ s = r /\ j = k /\ pools'[s][j] = q
       \/ (s # r \/ j # k) /\ j \in 1 .. Len(pools[s]) /\ pools'[s][j] = pools[s][j]

LEMMA KeptOthers ==
  ASSUME ShmTyped, NEW r \in Procs, NEW k, NEW q, Kept(pools', r, k, q),
         \A s \in Procs : s # r => busy'[s] = busy[s]
  PROVE  Others(r, k, q)
BY DEF Kept, Others

LEMMA SameOthers ==
  ASSUME ShmTyped, NEW r \in Procs, NEW q, pools' = pools,
         \A s \in Procs : s # r => busy'[s] = busy[s]
  PROVE  Others(r, 0, q)
<1>1. \A s \in Procs : \A j \in 1 .. Len(pools[s]) : j # 0
  OBVIOUS
<1> QED BY <1>1 DEF Others

LEMMA AddedOthers ==
  ASSUME ShmTyped, NEW r \in Procs, NEW q, Added(r, q), NEW k, k = Len(pools[r]) + 1,
         \A s \in Procs : s # r => busy'[s] = busy[s]
  PROVE  Others(r, k, q)
<1>1. Len(pools[r]) \in Nat
  BY DEF ShmTyped
<1>2. ASSUME NEW j \in 1 .. Len(pools'[r])
      PROVE  \/ j = k /\ pools'[r][j] = q
             \/ j # k /\ j \in 1 .. Len(pools[r]) /\ pools'[r][j] = pools[r][j]
  BY <1>1 DEF Added
<1> QED BY <1>2 DEF Others, Added

\* Segments stay, and what was asked of them; one that has a length keeps one.
Grown ==
  \A i \in 1 .. Len(length) :
    i \in 1 .. Len(length') /\ truncated[i] \subseteq truncated'[i] /\ (length[i] # 0 => length'[i] # 0)

Backed(i, w) == i \in 1 .. Len(length) /\ length[i] # 0 /\ w \in truncated[i]

PieceWhole(g) == g.seg # 0 => \E w \in Nat : Backed(g.seg, w) /\ g.from + g.size =< w

PoolWhole(p) ==
  /\ p.smallPos =< p.smallSize /\ (p.segment # 0 => Backed(p.segment, p.smallSize))
  /\ \A k \in 1 .. Len(p.got) : PieceWhole(p.got[k])

BusyWhole(r) ==
  busy[r].at \in {"stat", "resize"} =>
    /\ busy[r].size # 0
    /\ busy[r].call = "new" => busy[r].size = pools[r][busy[r].pool].smallSize

LengthsGiven == \A i \in 1 .. Len(length) : length[i] = 0 \/ length[i] \in truncated[i]

WholeInv ==
  /\ LengthsGiven
  /\ \A r \in Procs : BusyWhole(r)
  /\ \A r \in Procs : \A k \in 1 .. Len(pools[r]) : PoolWhole(pools[r][k])

LEMMA BackedStays ==
  ASSUME Grown, NEW i, NEW w, Backed(i, w)
  PROVE  Backed(i, w)'
BY DEF Grown, Backed

LEMMA PieceStays ==
  ASSUME Grown, NEW g, PieceWhole(g)
  PROVE  PieceWhole(g)'
<1> SUFFICES ASSUME g.seg # 0 PROVE \E w \in Nat : Backed(g.seg, w)' /\ g.from + g.size =< w
  BY DEF PieceWhole
<1>1. PICK w \in Nat : Backed(g.seg, w) /\ g.from + g.size =< w
  BY DEF PieceWhole
<1>2. PICK i : i = g.seg
  OBVIOUS
<1>3. Backed(i, w)'
  BY <1>1, <1>2, BackedStays
<1> QED BY <1>1, <1>2, <1>3

LEMMA PoolStays ==
  ASSUME Grown, NEW p, PoolWhole(p)
  PROVE  PoolWhole(p)'
<1>1. p.segment # 0 => Backed(p.segment, p.smallSize)'
  <2>1. PICK i, w : i = p.segment /\ w = p.smallSize
    OBVIOUS
  <2>2. Backed(i, w) => Backed(i, w)'
    BY BackedStays
  <2> QED BY <2>1, <2>2 DEF PoolWhole
<1>2. ASSUME NEW k \in 1 .. Len(p.got) PROVE PieceWhole(p.got[k])'
  <2>1. PICK g : g = p.got[k]
    OBVIOUS
  <2>2. PieceWhole(g)'
    BY <2>1, PieceStays DEF PoolWhole
  <2> QED BY <2>1, <2>2
<1> QED BY <1>1, <1>2 DEF PoolWhole

LEMMA WholeAfter ==
  ASSUME ShmTyped, ShmTyped', WholeInv, NEW r \in Procs, NEW k, NEW q, Others(r, k, q), Grown,
         k \in 1 .. Len(pools'[r]) => PoolWhole(q)', BusyWhole(r)', LengthsGiven'
  PROVE  WholeInv'
<1>1. ASSUME NEW s \in Procs, s # r PROVE BusyWhole(s)'
  <2>0. busy'[s] = busy[s]
    BY <1>1 DEF Others
  <2> SUFFICES ASSUME busy[s].at \in {"stat", "resize"}
               PROVE  /\ busy[s].size # 0
                      /\ busy[s].call = "new" => busy[s].size = pools'[s][busy[s].pool].smallSize
    BY <2>0 DEF BusyWhole
  <2>1. BusyTyped(s) /\ BusyTyped(s)' /\ BusyWhole(s)
    BY DEF ShmTyped, WholeInv
  <2>2. busy[s].seg \in 1 .. Len(length) /\ busy[s].pool \in 1 .. Len(pools'[s])
    BY <2>0, <2>1 DEF BusyTyped
  <2>3. pools'[s][busy[s].pool] = pools[s][busy[s].pool]
    BY <1>1, <2>2 DEF Others
  <2> QED BY <2>1, <2>3 DEF BusyWhole
<1>2. ASSUME NEW s \in Procs, NEW j \in 1 .. Len(pools'[s]) PROVE PoolWhole(pools[s][j])'
  <2>1. PICK p : p = pools'[s][j]
    OBVIOUS
  <2>2. PoolWhole(p)'
    <3>1. CASE s = r /\ j = k /\ p = q
      BY <1>2, <3>1
    <3>2. CASE j \in 1 .. Len(pools[s]) /\ p = pools[s][j]
      <4>1. PoolWhole(p)
        BY <3>2 DEF WholeInv
      <4> QED BY <4>1, PoolStays
    <3> QED BY <2>1, <3>1, <3>2 DEF Others
  <2>3. PoolWhole(pools[s][j])' <=> PoolWhole(p)'
    BY <2>1 DEF PoolWhole, PieceWhole, Backed
  <2> QED BY <2>2, <2>3
<1>3. \A s \in Procs : BusyWhole(s)'
  BY <1>1
<1> QED BY <1>2, <1>3 DEF WholeInv

LEMMA AppendedPiece ==
  ASSUME NEW got \in Seq(GotPieces), NEW g \in GotPieces
  PROVE  /\ Append(got, g) \in Seq(GotPieces) /\ Len(Append(got, g)) = Len(got) + 1
         /\ Append(got, g)[Len(got) + 1] = g
         /\ \A k \in 1 .. Len(got) : Append(got, g)[k] = got[k]
         /\ \A k \in 1 .. Len(Append(got, g)) : k \in 1 .. Len(got) \/ k = Len(got) + 1
<1>1. /\ Append(got, g) \in Seq(GotPieces) /\ Len(Append(got, g)) = Len(got) + 1
      /\ Append(got, g)[Len(got) + 1] = g
      /\ \A k \in 1 .. Len(got) : Append(got, g)[k] = got[k]
  BY AppendProperties
<1> QED BY <1>1

SmallPiece(p, size) ==
  [seg |-> IF SmallFits(p, size) THEN p.segment ELSE 0,
   from |-> IF SmallFits(p, size) THEN p.smallPos ELSE 0, size |-> size]

NoPiece(size) == [seg |-> 0, from |-> 0, size |-> size]

BigPiece(seg, size) == [seg |-> seg, from |-> 0, size |-> size]

\* q is p with so many bytes asked for, where it is in its segment, how many big
\* segments it has named, and a piece given.
Becomes(p, q, asked, pos, index, got) ==
  /\ q.name = p.name /\ q.smallSize = p.smallSize /\ q.segment = p.segment /\ q.freed = p.freed
  /\ q.asked = asked /\ q.smallPos = pos /\ q.bigIndex = index /\ q.got = got

LEMMA PoolsBecome ==
  ASSUME NEW p \in PoolSet, NEW size \in Nat, NEW seg \in Nat
  PROVE  /\ Becomes(p, SmallGiven(p, size), Append(p.asked, size),
                    IF SmallFits(p, size) THEN p.smallPos + size ELSE p.smallPos, p.bigIndex,
                    Append(p.got, SmallPiece(p, size)))
         /\ Becomes(p, Refused(p, size), Append(p.asked, size), p.smallPos, p.bigIndex,
                    Append(p.got, NoPiece(size)))
         /\ Becomes(p, BigBegun(p, size), Append(p.asked, size), p.smallPos, p.bigIndex + 1, p.got)
         /\ Becomes(p, GotBig(p, seg, size), p.asked, p.smallPos, p.bigIndex,
                    Append(p.got, BigPiece(seg, size)))
         /\ SmallPiece(p, size) \in GotPieces /\ NoPiece(size) \in GotPieces
         /\ BigPiece(seg, size) \in GotPieces
<1>1. Becomes(p, SmallGiven(p, size), Append(p.asked, size),
              IF SmallFits(p, size) THEN p.smallPos + size ELSE p.smallPos, p.bigIndex,
              Append(p.got, SmallPiece(p, size)))
  BY DEF PoolSet, SmallGiven, SmallFits, SmallPiece, Becomes
<1>2. Becomes(p, Refused(p, size), Append(p.asked, size), p.smallPos, p.bigIndex,
              Append(p.got, NoPiece(size)))
  BY DEF PoolSet, Refused, NoPiece, Becomes
<1>3. Becomes(p, BigBegun(p, size), Append(p.asked, size), p.smallPos, p.bigIndex + 1, p.got)
  BY DEF PoolSet, BigBegun, Becomes
<1>4. Becomes(p, GotBig(p, seg, size), p.asked, p.smallPos, p.bigIndex,
              Append(p.got, BigPiece(seg, size)))
  BY DEF PoolSet, GotBig, BigPiece, Becomes
<1>5. /\ SmallPiece(p, size) \in GotPieces /\ NoPiece(size) \in GotPieces
      /\ BigPiece(seg, size) \in GotPieces
  BY DEF PoolSet, SmallPiece, NoPiece, BigPiece, GotPieces
<1> QED BY <1>1, <1>2, <1>3, <1>4, <1>5

\* A pool is whole with another piece that is.
LEMMA WholeAppended ==
  ASSUME NEW p \in PoolSet, NEW q, NEW asked, NEW pos, NEW index, NEW g \in GotPieces,
         NEW got, got = Append(p.got, g) \/ got = p.got,
         Becomes(p, q, asked, pos, index, got), pos =< p.smallSize,
         PoolWhole(p)', got = p.got \/ PieceWhole(g)'
  PROVE  PoolWhole(q)'
<1>1. q.got = got /\ q.smallPos = pos /\ q.smallSize = p.smallSize /\ q.segment = p.segment
  BY DEF Becomes
<1>2. q.segment # 0 => Backed(q.segment, q.smallSize)'
  BY <1>1 DEF PoolWhole, Backed
<1>3. ASSUME NEW k \in 1 .. Len(q.got) PROVE PieceWhole(q.got[k])'
  <2>1. CASE got = p.got
    BY <1>1, <1>3, <2>1 DEF PoolWhole
  <2>2. CASE got = Append(p.got, g) /\ PieceWhole(g)'
    <3>1. p.got \in Seq(GotPieces)
      BY DEF PoolSet
    <3>2. (k \in 1 .. Len(p.got) /\ q.got[k] = p.got[k]) \/ q.got[k] = g
      BY <1>1, <1>3, <2>2, <3>1, AppendedPiece
    <3>3. CASE k \in 1 .. Len(p.got) /\ q.got[k] = p.got[k]
      BY <3>3 DEF PoolWhole
    <3>4. CASE q.got[k] = g
      BY <2>2, <3>4
    <3> QED BY <3>2, <3>3, <3>4
  <2> QED BY <2>1, <2>2
<1> QED BY <1>1, <1>2, <1>3 DEF PoolWhole

LEMMA OpeningGrown ==
  ASSUME ShmTyped, WholeInv, NEW r \in Procs, NEW call, NEW k, NEW name, NEW size \in Nat,
         NEW new \in BOOLEAN, NEW seg \in Nat, Opening(r, call, k, name, size, new, seg)
  PROVE  Grown /\ LengthsGiven'
<1>1. Len(length) \in Nat /\ Len(length') \in Nat /\ Len(length) =< Len(length')
  BY DEF ShmTyped, Opening
<1>2. \A i \in 1 .. Len(length) : i \in 1 .. Len(length')
  BY <1>1
<1>3. CASE new
  <2>1. /\ seg = Len(length) + 1 /\ Len(length') = Len(length) + 1 /\ length'[seg] = 0
        /\ \A i \in 1 .. Len(length) : length'[i] = length[i] /\ truncated'[i] = truncated[i]
    BY <1>3 DEF Opening
  <2>2. \A i \in 1 .. Len(length') : i \in 1 .. Len(length) \/ i = seg
    BY <1>1, <2>1
  <2> QED BY <1>2, <2>1, <2>2 DEF Grown, LengthsGiven, WholeInv
<1>4. CASE ~new
  <2>1. /\ Len(length') = Len(length)
        /\ \A i \in 1 .. Len(length) : length'[i] = length[i] /\ truncated'[i] = truncated[i]
    BY <1>4 DEF Opening
  <2> QED BY <1>2, <2>1 DEF Grown, LengthsGiven, WholeInv
<1> QED BY <1>3, <1>4

LEMMA SameGrown ==
  ASSUME ShmTyped, WholeInv, length' = length, truncated' = truncated
  PROVE  Grown /\ LengthsGiven'
BY DEF Grown, LengthsGiven, WholeInv

LEMMA NewWhole ==
  ASSUME ShmTyped, ShmTyped', WholeInv, NEW r \in Procs, NEW n \in Names, NEW size \in SmallSizes,
         NewDone(r, n, size)
  PROVE  WholeInv'
<1>0. size \in Nat /\ size # 0
  BY ShmpoolAssumption
<1>1. PICK k : k = Len(pools[r]) + 1
  OBVIOUS
<1>2. PICK new \in BOOLEAN, seg \in Nat : Opening(r, "new", k, SmallName(n), size, new, seg)
  BY <1>1 DEF NewDone
<1>3. PICK q : q = NewPool(n, size)
  OBVIOUS
<1>4. /\ Added(r, q) /\ \A s \in Procs : s # r => busy'[s] = busy[s]
      /\ busy'[r] = [call |-> "new", at |-> "stat", seg |-> seg, size |-> size, pool |-> k, index |-> 0]
  BY <1>2, <1>3 DEF NewDone, Opening
<1>5. Others(r, k, q)
  BY <1>1, <1>4, AddedOthers
<1>6. Grown /\ LengthsGiven'
  BY <1>0, <1>2, OpeningGrown
<1>7. PoolWhole(q)'
  <2>1. q.smallPos = 0 /\ q.smallSize = size /\ q.segment = 0 /\ Len(q.got) = 0
    BY <1>3 DEF NewPool
  <2> QED BY <1>0, <2>1 DEF PoolWhole
<1>8. BusyWhole(r)'
  <2>1. pools'[r][k] = q /\ q.smallSize = size
    BY <1>1, <1>3, <1>4 DEF Added, NewPool
  <2>2. busy'[r].size = size /\ busy'[r].seg = seg /\ busy'[r].pool = k
    BY <1>4
  <2> QED BY <1>0, <2>1, <2>2 DEF BusyWhole
<1> QED BY <1>5, <1>6, <1>7, <1>8, WholeAfter

LEMMA IdleWhole ==
  ASSUME NEW r \in Procs, busy'[r].at \notin {"stat", "resize"}
  PROVE  BusyWhole(r)'
BY DEF BusyWhole

LEMMA AllocWhole ==
  ASSUME ShmTyped, ShmTyped', WholeInv, NEW r \in Procs, NEW k \in Nat, NEW size \in Nat,
         AllocDone(r, k, size)
  PROVE  WholeInv'
<1>1. k \in 1 .. Len(pools[r]) /\ Free(r) /\ busy[r].at = "none" /\ size # 0
  BY FreeIs DEF AllocDone
<1>2. PICK p \in PoolSet : p = pools[r][k]
  BY <1>1, PoolIs
<1>3. /\ p.smallPos \in Nat /\ p.smallSize \in Nat /\ p.got \in Seq(GotPieces) /\ p.segment \in Nat
      /\ PoolWhole(p)
  BY <1>1, <1>2, PoolIs DEF WholeInv
<1>4. p.smallPos =< p.smallSize
  BY <1>3 DEF PoolWhole
<1>5. CASE /\ Kept(pools', r, k, SmallGiven(p, size)) /\ busy' = busy /\ Alike
  <2>1. length' = length /\ truncated' = truncated /\ Grown /\ LengthsGiven'
    BY <1>5, SameGrown DEF Alike
  <2>2. PICK q, g, pos, asked, got :
          /\ q = SmallGiven(p, size) /\ g = SmallPiece(p, size) /\ asked = Append(p.asked, size)
          /\ pos = IF SmallFits(p, size) THEN p.smallPos + size ELSE p.smallPos
          /\ got = Append(p.got, g)
    OBVIOUS
  <2>3. Becomes(p, q, asked, pos, p.bigIndex, got) /\ g \in GotPieces
    BY <2>2, PoolsBecome
  <2>4. Others(r, k, q)
    BY <1>5, <2>2, KeptOthers
  <2>5. pos =< p.smallSize
    BY <1>3, <1>4, <2>2 DEF SmallFits
  <2>6. PieceWhole(g)'
    <3> SUFFICES ASSUME g.seg # 0 PROVE PieceWhole(g)'
      BY DEF PieceWhole
    <3>1. SmallFits(p, size) /\ g.seg = p.segment /\ g.from = p.smallPos /\ g.size = size
      BY <2>2 DEF SmallPiece
    <3>2. p.smallPos + size =< p.smallSize
      BY <1>3, <3>1 DEF SmallFits
    <3>3. Backed(p.segment, p.smallSize)'
      BY <1>3, <2>1, <3>1 DEF PoolWhole, Backed
    <3> QED BY <1>3, <3>1, <3>2, <3>3 DEF PieceWhole, Backed
  <2>7. PoolWhole(p)'
    BY <1>3, <2>1, PoolStays
  <2>8. PoolWhole(q)'
    BY <2>2, <2>3, <2>5, <2>6, <2>7, WholeAppended, ZenonT(30)
  <2>9. BusyWhole(r)'
    BY <1>1, <1>5, IdleWhole
  <2> QED BY <2>1, <2>4, <2>8, <2>9, WholeAfter
<1>6. CASE /\ Kept(pools', r, k, Refused(p, size)) /\ busy' = busy /\ Alike
  <2>1. length' = length /\ truncated' = truncated /\ Grown /\ LengthsGiven'
    BY <1>6, SameGrown DEF Alike
  <2>2. PICK q, g, asked, got :
          /\ q = Refused(p, size) /\ g = NoPiece(size) /\ asked = Append(p.asked, size)
          /\ got = Append(p.got, g)
    OBVIOUS
  <2>3. Becomes(p, q, asked, p.smallPos, p.bigIndex, got) /\ g \in GotPieces
    BY <2>2, PoolsBecome
  <2>4. Others(r, k, q)
    BY <1>6, <2>2, KeptOthers
  <2>6. PieceWhole(g)'
    BY <2>2 DEF NoPiece, PieceWhole
  <2>7. PoolWhole(p)'
    BY <1>3, <2>1, PoolStays
  <2>8. PoolWhole(q)'
    BY <1>4, <2>2, <2>3, <2>6, <2>7, WholeAppended
  <2>9. BusyWhole(r)'
    BY <1>1, <1>6, IdleWhole
  <2> QED BY <2>1, <2>4, <2>8, <2>9, WholeAfter
<1>7. CASE /\ Kept(pools', r, k, BigBegun(p, size))
           /\ \E new \in BOOLEAN, seg \in Nat :
                Opening(r, "big", k, BigName(p.name, p.bigIndex), size, new, seg)
  <2>1. PICK name : name = BigName(p.name, p.bigIndex)
    OBVIOUS
  <2>2. PICK new \in BOOLEAN, seg \in Nat : Opening(r, "big", k, name, size, new, seg)
    BY <1>7, <2>1
  <2>3. Grown /\ LengthsGiven'
    BY <2>2, OpeningGrown
  <2>4. PICK q, asked : q = BigBegun(p, size) /\ asked = Append(p.asked, size)
    OBVIOUS
  <2>5. Becomes(p, q, asked, p.smallPos, p.bigIndex + 1, p.got)
    BY <2>4, PoolsBecome
  <2>6. /\ busy'[r] = [call |-> "big", at |-> "stat", seg |-> seg, size |-> size, pool |-> k, index |-> 0]
        /\ \A s \in Procs : s # r => busy'[s] = busy[s]
    BY <2>2 DEF Opening
  <2>7. Others(r, k, q)
    BY <1>7, <2>4, <2>6, KeptOthers
  <2>8. PoolWhole(q)'
    <3>1. PoolWhole(p)'
      BY <1>3, <2>3, PoolStays
    <3>2. q.smallPos = p.smallPos /\ q.smallSize = p.smallSize /\ q.segment = p.segment /\ q.got = p.got
      BY <2>5 DEF Becomes
    <3> QED BY <3>1, <3>2 DEF PoolWhole
  <2>9. BusyWhole(r)'
    <3>1. busy'[r].size = size /\ busy'[r].seg = seg /\ busy'[r].call = "big"
      BY <2>6
    <3> QED BY <1>1, <3>1 DEF BusyWhole
  <2> QED BY <2>3, <2>7, <2>8, <2>9, WholeAfter
<1> QED BY <1>2, <1>5, <1>6, <1>7 DEF AllocDone

LEMMA RestWhole ==
  ASSUME ShmTyped, ShmTyped', WholeInv, NEW r \in Procs, Resting(r)
  PROVE  WholeInv'
<1>1. pools' = pools /\ length' = length /\ truncated' = truncated /\ \A s \in Procs : s # r => busy'[s] = busy[s]
  BY DEF Resting, Alike
<1>2. Others(r, 0, 0) /\ Grown /\ LengthsGiven' /\ 0 \notin 1 .. Len(pools'[r])
  BY <1>1, SameOthers, SameGrown
<1>3. BusyWhole(r)'
  <2>0. busy[r] \in BusySet /\ BusyWhole(r)
    BY DEF ShmTyped, WholeInv
  <2>1. CASE busy'[r] = busy[r]
    BY <1>1, <2>0, <2>1 DEF BusyWhole
  <2>2. CASE Free(r) /\ busy'[r] = [busy[r] EXCEPT !.call = "undefined"]
    <3>1. busy'[r].at = "none"
      BY <2>0, <2>2, FreeIs DEF BusySet
    <3> QED BY <3>1, IdleWhole
  <2>3. CASE busy[r].at = "stat" /\ busy'[r] = [busy[r] EXCEPT !.at = "resize"]
    <3>1. /\ busy'[r].call = busy[r].call /\ busy'[r].seg = busy[r].seg
          /\ busy'[r].pool = busy[r].pool /\ busy'[r].size = busy[r].size
      BY <2>0, <2>3 DEF BusySet
    <3> QED BY <1>1, <2>0, <2>3, <3>1 DEF BusyWhole
  <2> QED BY <2>1, <2>2, <2>3 DEF Resting
<1> QED BY <1>2, <1>3, WholeAfter

LEMMA OpenedWhole ==
  ASSUME ShmTyped, ShmTyped', WholeInv, NEW r \in Procs, NEW seg \in Nat, OpenedDone(r, seg)
  PROVE  WholeInv'
<1>1. PICK k, size, i : k = busy[r].pool /\ size = busy[r].size /\ i = busy[r].seg
  OBVIOUS
<1>2. /\ k \in 1 .. Len(pools[r]) /\ busy[r].call \in {"new", "big"} /\ i \in 1 .. Len(length)
      /\ size # 0 /\ size \in Nat /\ busy[r].at \in {"stat", "resize"}
      /\ busy[r].call = "new" => size = pools[r][k].smallSize
  BY <1>1 DEF OpenedDone, ShmTyped, BusyTyped, WholeInv, BusyWhole, BusySet
<1>3. /\ length' \in Seq(Nat) /\ Len(length') = Len(length) /\ SegmentCut(i, size)
      /\ \A j \in 1 .. Len(length) : j # i => length'[j] = length[j]
      /\ seg = 0 \/ (seg = i /\ length'[seg] = size)
      /\ busy'[r].at = "none" /\ \A s \in Procs : s # r => busy'[s] = busy[s]
  BY <1>1, SMTT(30) DEF OpenedDone, Idle
<1>4. Grown /\ LengthsGiven'
  BY <1>2, <1>3 DEF Grown, LengthsGiven, WholeInv, SegmentCut
<1>5. seg # 0 => Backed(seg, size)'
  <2> SUFFICES ASSUME seg # 0 PROVE Backed(seg, size)'
    OBVIOUS
  <2>1. seg = i /\ length'[i] = size /\ i \in 1 .. Len(length')
    BY <1>2, <1>3
  <2>2. size \in truncated'[i]
    BY <1>2, <1>4, <2>1 DEF LengthsGiven
  <2> QED BY <1>2, <2>1, <2>2 DEF Backed
<1>6. PICK p \in PoolSet : p = pools[r][k]
  BY <1>2, PoolIs
<1>7. PoolWhole(p)'
  BY <1>2, <1>4, <1>6, PoolStays DEF WholeInv
<1>8. BusyWhole(r)'
  BY <1>3, IdleWhole
<1>9. CASE busy[r].call = "new"
  <2>1. PICK q : q = Mapped(p, seg)
    OBVIOUS
  <2>2. Kept(pools', r, k, q)
    BY <1>1, <1>6, <1>9, <2>1 DEF OpenedDone
  <2>3. /\ q.smallPos = p.smallPos /\ q.smallSize = p.smallSize /\ q.segment = seg /\ q.got = p.got
    BY <1>6, <2>1 DEF Mapped, PoolSet
  <2>4. PoolWhole(q)'
    BY <1>2, <1>5, <1>6, <1>7, <1>9, <2>3 DEF PoolWhole
  <2>5. Others(r, k, q)
    BY <1>3, <2>2, KeptOthers
  <2> QED BY <1>4, <1>8, <2>4, <2>5, WholeAfter
<1>10. CASE busy[r].call = "big"
  <2>1. PICK q, g, got : q = GotBig(p, seg, size) /\ g = BigPiece(seg, size) /\ got = Append(p.got, g)
    OBVIOUS
  <2>2. Kept(pools', r, k, q)
    BY <1>1, <1>6, <1>10, <2>1 DEF OpenedDone
  <2>3. Becomes(p, q, p.asked, p.smallPos, p.bigIndex, got) /\ g \in GotPieces
    BY <1>2, <2>1, PoolsBecome
  <2>4. PieceWhole(g)'
    <3>1. g.seg = seg /\ g.from = 0 /\ g.size = size
      BY <2>1 DEF BigPiece
    <3> QED BY <1>2, <1>5, <3>1 DEF PieceWhole
  <2>5. p.smallPos =< p.smallSize
    BY <1>7 DEF PoolWhole
  <2>6. PoolWhole(q)'
    BY <1>7, <2>1, <2>3, <2>4, <2>5, WholeAppended
  <2>7. Others(r, k, q)
    BY <1>3, <2>2, KeptOthers
  <2> QED BY <1>4, <1>8, <2>6, <2>7, WholeAfter
<1> QED BY <1>2, <1>9, <1>10

LEMMA ListedWhole ==
  ASSUME ShmTyped, WholeInv, NEW r \in Procs, NEW k \in 1 .. Len(pools[r]), NEW q,
         q = [pools[r][k] EXCEPT !.listed = FALSE], Grown
  PROVE  PoolWhole(q)'
<1>1. PICK p \in PoolSet : p = pools[r][k]
  BY PoolIs
<1>2. /\ q.smallPos = p.smallPos /\ q.smallSize = p.smallSize /\ q.segment = p.segment /\ q.got = p.got
  BY <1>1 DEF PoolSet
<1>3. PoolWhole(p)'
  BY <1>1, PoolStays DEF WholeInv
<1> QED BY <1>2, <1>3 DEF PoolWhole

LEMMA UnlinkWhole ==
  ASSUME ShmTyped, ShmTyped', WholeInv, NEW r \in Procs, NEW k \in Nat,
         UnlinkBegun(r, k) \/ FreedListed(r, k)
  PROVE  WholeInv'
<1>1. /\ length' = length /\ truncated' = truncated /\ \A s \in Procs : s # r => busy'[s] = busy[s]
      /\ k \in 1 .. Len(pools[r]) /\ busy[r].at = "none" /\ busy[r] \in BusySet
  BY DEF UnlinkBegun, FreedListed, Alike, ShmTyped
<1>2. Grown /\ LengthsGiven'
  BY <1>1, SameGrown
<1>3. busy'[r].at \in {"none", "unlink"}
  BY <1>1 DEF UnlinkBegun, FreedListed, Unlinking, BusySet
<1>4. BusyWhole(r)'
  BY <1>3, IdleWhole
<1>5. CASE pools' = pools
  <2>1. Others(r, 0, 0) /\ 0 \notin 1 .. Len(pools'[r])
    BY <1>1, <1>5, SameOthers
  <2> QED BY <1>2, <1>4, <2>1, WholeAfter
<1>6. CASE Kept(pools', r, k, [pools[r][k] EXCEPT !.listed = FALSE])
  <2>1. PICK q : q = [pools[r][k] EXCEPT !.listed = FALSE]
    OBVIOUS
  <2>2. Others(r, k, q)
    BY <1>1, <1>6, <2>1, KeptOthers
  <2>3. PoolWhole(q)'
    BY <1>1, <1>2, <2>1, ListedWhole
  <2> QED BY <1>2, <1>4, <2>2, <2>3, WholeAfter
<1> QED BY <1>5, <1>6 DEF UnlinkBegun, FreedListed

LEMMA BigUnlinkedWhole ==
  ASSUME ShmTyped, ShmTyped', WholeInv, NEW r \in Procs, BigUnlinked(r)
  PROVE  WholeInv'
<1>1. PICK d \in BusySet : d = busy[r]
  BY DEF ShmTyped
<1>2. PICK b : b = [d EXCEPT !.index = @ + 1]
  OBVIOUS
<1>3. /\ pools' = pools /\ length' = length /\ truncated' = truncated /\ busy'[r] = b /\ d.at = "unlink"
      /\ \A s \in Procs : s # r => busy'[s] = busy[s]
  BY <1>1, <1>2 DEF BigUnlinked
<1>4. b.at = "unlink"
  BY <1>2, <1>3, IndexOn
<1>5. Others(r, 0, 0) /\ Grown /\ LengthsGiven' /\ 0 \notin 1 .. Len(pools'[r])
  BY <1>3, SameOthers, SameGrown
<1>6. BusyWhole(r)'
  BY <1>3, <1>4, IdleWhole
<1> QED BY <1>5, <1>6, WholeAfter

LEMMA FreedWhole ==
  ASSUME ShmTyped, ShmTyped', WholeInv, NEW r \in Procs, PoolFreed(r)
  PROVE  WholeInv'
<1>1. PICK k : k = busy[r].pool
  OBVIOUS
<1>2. k \in 1 .. Len(pools[r])
  BY <1>1 DEF PoolFreed, ShmTyped, BusyTyped
<1>3. PICK p \in PoolSet : p = pools[r][k]
  BY <1>2, PoolIs
<1>4. PICK q : q = Gone(p)
  OBVIOUS
<1>5. /\ Kept(pools', r, k, q) /\ length' = length /\ truncated' = truncated
      /\ busy'[r].at = "none" /\ \A s \in Procs : s # r => busy'[s] = busy[s]
  BY <1>1, <1>3, <1>4 DEF PoolFreed, Alike
<1>6. PoolWhole(q)'
  <2>1. q.smallPos = 0 /\ q.smallSize = p.smallSize /\ q.segment = 0 /\ Len(q.got) = 0
    BY <1>3, <1>4 DEF Gone, PoolSet
  <2>2. p.smallSize \in Nat
    BY <1>2, <1>3, PoolIs
  <2> QED BY <2>1, <2>2 DEF PoolWhole
<1>7. Others(r, k, q) /\ Grown /\ LengthsGiven'
  BY <1>5, KeptOthers, SameGrown
<1>8. BusyWhole(r)'
  BY <1>5, IdleWhole
<1> QED BY <1>6, <1>7, <1>8, WholeAfter

LEMMA WholeIs ==
  ASSUME ShmTyped, WholeInv
  PROVE  Whole
<1> SUFFICES ASSUME NEW p \in AllPools, NEW k \in 1 .. Len(p.got), p.got[k].seg # 0,
                    \A a, b \in truncated[p.got[k].seg] : a = b
             PROVE  p.got[k].from + p.got[k].size =< length[p.got[k].seg]
  BY DEF Whole, There
<1>1. PICK r \in Procs : \E j \in 1 .. Len(pools[r]) : p = pools[r][j]
  BY DEF AllPools, Pool
<1>2. PICK j \in 1 .. Len(pools[r]) : p = pools[r][j]
  BY <1>1
<1>3. PieceWhole(p.got[k])
  BY <1>2 DEF WholeInv, PoolWhole
<1>4. PICK g : g = p.got[k]
  OBVIOUS
<1>5. PICK w \in Nat : Backed(g.seg, w) /\ g.from + g.size =< w
  BY <1>3, <1>4 DEF PieceWhole
<1>6. length[g.seg] = w
  BY <1>4, <1>5 DEF WholeInv, LengthsGiven, Backed
<1> QED BY <1>4, <1>5, <1>6

LEMMA WholeStep ==
  ASSUME ShmTyped, ShmTyped', WholeInv, NEW r \in Procs, Done(r)
  PROVE  WholeInv'
BY NewWhole, AllocWhole, RestWhole, OpenedWhole, UnlinkWhole, BigUnlinkedWhole, FreedWhole DEF Done

-----------------------------------------------------------------------------
(* The pieces of a pool.  A segment is one name's, for good: `own' says    *)
(* whose; a pool's pieces are in its small segment, below smallPos, or     *)
(* each at the beginning of a big one of its own.                          *)

Owners == [Nat -> AllNames \cup {<<>>}]

OwnsNames(own) == \A m \in AllNames : link[m] # 0 => own[link[m]] = m

BigOf(own, p, seg) == \E i \in Nat : i < p.bigIndex /\ own[seg] = BigName(p.name, i)

PieceOf(own, p, g) ==
  g.seg # 0 => \/ own[g.seg] = SmallName(p.name) /\ g.from + g.size =< p.smallPos
               \/ g.from = 0 /\ BigOf(own, p, g.seg)

PoolApart(own, p) ==
  /\ p.segment # 0 => own[p.segment] = SmallName(p.name)
  /\ \A k \in 1 .. Len(p.got) : PieceOf(own, p, p.got[k])
  /\ Apart(p.got)

BusyApart(own, r) ==
  LET b == busy[r]
      p == pools[r][b.pool]
  IN  b.at \in {"stat", "resize"} =>
        /\ b.call = "new" => own[b.seg] = SmallName(p.name) /\ Len(p.got) = 0
        /\ b.call = "big" => /\ BigOf(own, p, b.seg)
                             /\ \A k \in 1 .. Len(p.got) : p.got[k].seg # b.seg

Apartness(own) ==
  /\ OwnsNames(own)
  /\ \A r \in Procs : BusyApart(own, r)
  /\ \A r \in Procs : \A k \in 1 .. Len(pools[r]) : PoolApart(own, pools[r][k])

ApartInv == \E own \in Owners : Apartness(own)

LEMMA ApartAppended ==
  ASSUME NEW got \in Seq(GotPieces), NEW g \in GotPieces, Apart(got),
         \A i \in 1 .. Len(got) : got[i].seg # 0 /\ got[i].seg = g.seg =>
           got[i].from + got[i].size =< g.from \/ g.from + g.size =< got[i].from
  PROVE  Apart(Append(got, g))
<1>1. PICK all : all = Append(got, g)
  OBVIOUS
<1>2. /\ Len(all) = Len(got) + 1 /\ Len(got) \in Nat /\ all[Len(got) + 1] = g
      /\ \A k \in 1 .. Len(got) : all[k] = got[k]
  BY <1>1, AppendedPiece
<1>3. ASSUME NEW i \in 1 .. Len(all), NEW j \in 1 .. Len(all), i < j, all[i].seg # 0,
             all[i].seg = all[j].seg
      PROVE  \/ all[i].from + all[i].size =< all[j].from
             \/ all[j].from + all[j].size =< all[i].from
  <2>1. i \in 1 .. Len(got) /\ all[i] = got[i]
    BY <1>2, <1>3
  <2>2. CASE j \in 1 .. Len(got)
    <3>1. all[j] = got[j]
      BY <1>2, <2>2
    <3> QED BY <1>3, <2>1, <2>2, <3>1 DEF Apart
  <2>3. CASE j = Len(got) + 1
    BY <1>2, <1>3, <2>1, <2>3
  <2> QED BY <1>2, <2>2, <2>3
<1> QED BY <1>1, <1>3 DEF Apart

\* A pool that is whole does not know of the segments there will be.
LEMMA ApartAgain ==
  ASSUME NEW own, NEW own2, NEW p, PoolApart(own, p), PoolWhole(p),
         \A i \in 1 .. Len(length) : own2[i] = own[i]
  PROVE  PoolApart(own2, p)
<1>1. p.segment # 0 => own2[p.segment] = SmallName(p.name)
  BY DEF PoolApart, PoolWhole, Backed
<1>2. ASSUME NEW k \in 1 .. Len(p.got) PROVE PieceOf(own2, p, p.got[k])
  <2>1. PICK g : g = p.got[k]
    OBVIOUS
  <2>2. PieceOf(own, p, g) /\ PieceWhole(g)
    BY <2>1 DEF PoolApart, PoolWhole
  <2>3. g.seg # 0 => own2[g.seg] = own[g.seg]
    BY <2>2 DEF PieceWhole, Backed
  <2>4. PieceOf(own2, p, g)
    BY <2>2, <2>3 DEF PieceOf, BigOf
  <2> QED BY <2>1, <2>4
<1> QED BY <1>1, <1>2 DEF PoolApart

LEMMA ApartAfter ==
  ASSUME ShmTyped, ShmTyped', WholeInv, NEW own, NEW own2, Apartness(own),
         \A i \in 1 .. Len(length) : own2[i] = own[i],
         NEW r \in Procs, NEW k, NEW q, Others(r, k, q),
         k \in 1 .. Len(pools'[r]) => PoolApart(own2, q), BusyApart(own2, r)', OwnsNames(own2)'
  PROVE  Apartness(own2)'
<1>1. ASSUME NEW s \in Procs, s # r PROVE BusyApart(own2, s)'
  <2>0. busy'[s] = busy[s]
    BY <1>1 DEF Others
  <2>1. CASE busy[s].at \notin {"stat", "resize"}
    BY <2>0, <2>1 DEF BusyApart
  <2>2. CASE busy[s].at \in {"stat", "resize"}
    <3>1. BusyTyped(s) /\ BusyTyped(s)' /\ BusyApart(own, s)
      BY DEF ShmTyped, Apartness
    <3>2. busy[s].seg \in 1 .. Len(length) /\ busy[s].pool \in 1 .. Len(pools'[s])
      BY <2>0, <2>2, <3>1 DEF BusyTyped
    <3>3. pools'[s][busy[s].pool] = pools[s][busy[s].pool] /\ own2[busy[s].seg] = own[busy[s].seg]
      BY <1>1, <3>2 DEF Others
    <3> QED BY <2>0, <2>2, <3>1, <3>3, ZenonT(30) DEF BusyApart, BigOf
  <2> QED BY <2>1, <2>2
<1>2. ASSUME NEW s \in Procs, NEW j \in 1 .. Len(pools'[s]) PROVE PoolApart(own2, pools'[s][j])
  <2>1. PICK p : p = pools'[s][j]
    OBVIOUS
  <2>2. PoolApart(own2, p)
    <3>1. CASE s = r /\ j = k /\ p = q
      BY <1>2, <3>1
    <3>2. CASE j \in 1 .. Len(pools[s]) /\ p = pools[s][j]
      <4>1. PoolApart(own, p) /\ PoolWhole(p)
        BY <3>2 DEF Apartness, WholeInv
      <4> QED BY <4>1, ApartAgain
    <3> QED BY <2>1, <3>1, <3>2 DEF Others
  <2> QED BY <2>1, <2>2
<1>3. \A s \in Procs : BusyApart(own2, s)'
  BY <1>1
<1> QED BY <1>2, <1>3 DEF Apartness

LEMMA OwnersAfter ==
  ASSUME ShmTyped, NEW own \in Owners, OwnsNames(own), NEW r \in Procs, NEW call, NEW k,
         NEW name \in AllNames, NEW size, NEW new \in BOOLEAN, NEW seg \in Nat,
         Opening(r, call, k, name, size, new, seg)
  PROVE  \E own2 \in Owners : /\ OwnsNames(own2)' /\ own2[seg] = name
                              /\ \A i \in 1 .. Len(length) : own2[i] = own[i]
<1>0. /\ Len(length) \in Nat /\ link \in [AllNames -> Nat] /\ (\A m \in AllNames : link[m] =< Len(length))
      /\ link'[name] = seg /\ seg \in Nat \ {0} /\ new = (link[name] = 0)
      /\ \A m \in AllNames : m # name => link'[m] = link[m]
  BY DEF ShmTyped, Opening
<1>1. CASE new
  <2>1. PICK own2 : own2 = [own EXCEPT ![seg] = name]
    OBVIOUS
  <2>2. own2 \in Owners /\ own2[seg] = name /\ \A i \in Nat : i # seg => own2[i] = own[i]
    BY <1>0, <2>1 DEF Owners
  <2>3. seg = Len(length) + 1
    BY <1>1 DEF Opening
  <2>4. \A i \in 1 .. Len(length) : own2[i] = own[i]
    BY <1>0, <2>2, <2>3
  <2>5. ASSUME NEW m \in AllNames, link'[m] # 0 PROVE own2[link'[m]] = m
    <3>1. CASE m = name
      BY <1>0, <2>2, <3>1
    <3>2. CASE m # name
      <4>1. link'[m] = link[m] /\ link[m] \in 1 .. Len(length)
        BY <1>0, <2>5, <3>2
      <4> QED BY <2>4, <2>5, <4>1 DEF OwnsNames
    <3> QED BY <3>1, <3>2
  <2>6. OwnsNames(own2)'
    BY <2>5 DEF OwnsNames
  <2> QED BY <2>2, <2>4, <2>6
<1>2. CASE ~new
  <2>1. seg = link[name] /\ own[seg] = name
    BY <1>0, <1>2 DEF Opening, OwnsNames
  <2>2. OwnsNames(own)'
    BY <1>0, <2>1 DEF OwnsNames
  <2> QED BY <2>1, <2>2
<1> QED BY <1>1, <1>2

\* Pool p with its smallPos or bigIndex advanced and a piece that is like the others.
LEMMA ApartWith ==
  ASSUME NEW own, NEW p \in PoolSet, NEW q \in PoolSet, NEW asked, NEW pos \in Nat, NEW index \in Nat,
         NEW got, NEW g \in GotPieces, Becomes(p, q, asked, pos, index, got),
         p.smallPos =< pos, p.bigIndex =< index, PoolApart(own, p),
         \/ got = p.got
         \/ /\ got = Append(p.got, g) /\ PieceOf(own, q, g)
            /\ \A i \in 1 .. Len(p.got) : p.got[i].seg # 0 /\ p.got[i].seg = g.seg =>
                 p.got[i].from + p.got[i].size =< g.from
  PROVE  PoolApart(own, q)
<1>0. /\ p.smallPos \in Nat /\ p.bigIndex \in Nat /\ p.got \in Seq(GotPieces)
  <2>1. p.bigIndex \in 0 .. BigMax /\ BigMax \in Nat
    BY ShmpoolAssumption DEF PoolSet
  <2>2. p.bigIndex \in Nat
    BY <2>1
  <2> QED BY <2>2 DEF PoolSet
<1>1. /\ q.name = p.name /\ q.segment = p.segment /\ q.smallPos = pos /\ q.bigIndex = index /\ q.got = got
  BY DEF Becomes
<1>2. ASSUME NEW k \in 1 .. Len(p.got) PROVE PieceOf(own, q, p.got[k])
  <2>1. PICK h \in GotPieces : h = p.got[k]
    BY <1>0
  <2>2. PieceOf(own, p, h) /\ h.from + h.size \in Nat
    BY <2>1, SMTT(30) DEF PoolApart, GotPieces
  <2>3. PieceOf(own, q, h)
    <3>1. SUFFICES ASSUME h.seg # 0
                   PROVE  \/ own[h.seg] = SmallName(q.name) /\ h.from + h.size =< q.smallPos
                          \/ h.from = 0 /\ BigOf(own, q, h.seg)
      BY DEF PieceOf
    <3>2. CASE own[h.seg] = SmallName(p.name) /\ h.from + h.size =< p.smallPos
      BY <1>0, <1>1, <2>2, <3>2
    <3>3. CASE h.from = 0 /\ BigOf(own, p, h.seg)
      <4>1. PICK i \in Nat : i < p.bigIndex /\ own[h.seg] = BigName(p.name, i)
        BY <3>3 DEF BigOf
      <4>2. i < index
        BY <1>0, <4>1
      <4> QED BY <1>1, <3>3, <4>1, <4>2 DEF BigOf
    <3> QED BY <2>2, <3>1, <3>2, <3>3 DEF PieceOf
  <2> QED BY <2>1, <2>3
<1>3. CASE got = p.got
  BY <1>1, <1>2, <1>3 DEF PoolApart
<1>4. CASE /\ got = Append(p.got, g) /\ PieceOf(own, q, g)
           /\ \A i \in 1 .. Len(p.got) : p.got[i].seg # 0 /\ p.got[i].seg = g.seg =>
                 p.got[i].from + p.got[i].size =< g.from
  <2>1. Apart(got)
    <3>1. Apart(p.got)
      BY DEF PoolApart
    <3>2. PICK old \in Seq(GotPieces) : old = p.got
      BY <1>0
    <3>3. Apart(Append(old, g))
      BY <1>4, <3>1, <3>2, ApartAppended
    <3> QED BY <1>4, <3>2, <3>3
  <2>2. ASSUME NEW k \in 1 .. Len(got) PROVE PieceOf(own, q, got[k])
    <3>1. (k \in 1 .. Len(p.got) /\ got[k] = p.got[k]) \/ got[k] = g
      BY <1>0, <1>4, <2>2, AppendedPiece
    <3> QED BY <1>2, <1>4, <3>1
  <2> QED BY <1>1, <2>1, <2>2 DEF PoolApart
<1> QED BY <1>3, <1>4

LEMMA KeptPool ==
  ASSUME NEW r \in Procs, NEW k \in 1 .. Len(pools[r]), NEW q, Kept(pools', r, k, q)
  PROVE  q \in PoolSet /\ k \in 1 .. Len(pools'[r]) /\ pools'[r][k] = q
BY DEF Kept

LEMMA IdleApart ==
  ASSUME NEW own, NEW r \in Procs, busy'[r].at \notin {"stat", "resize"}
  PROVE  BusyApart(own, r)'
BY DEF BusyApart

LEMMA NewApart ==
  ASSUME ShmTyped, ShmTyped', WholeInv, NEW own \in Owners, Apartness(own), NEW r \in Procs,
         NEW n \in Names, NEW size \in SmallSizes, NewDone(r, n, size)
  PROVE  ApartInv'
<1>1. PICK k : k = Len(pools[r]) + 1
  OBVIOUS
<1>2. PICK name \in AllNames : name = SmallName(n)
  BY NamesAre
<1>3. PICK new \in BOOLEAN, seg \in Nat : Opening(r, "new", k, name, size, new, seg)
  BY <1>1, <1>2 DEF NewDone
<1>4. PICK q : q = NewPool(n, size)
  OBVIOUS
<1>5. /\ Added(r, q) /\ \A s \in Procs : s # r => busy'[s] = busy[s]
      /\ busy'[r] = [call |-> "new", at |-> "stat", seg |-> seg, size |-> size, pool |-> k, index |-> 0]
  BY <1>3, <1>4 DEF NewDone, Opening
<1>6. Others(r, k, q)
  BY <1>1, <1>5, AddedOthers
<1>7. PICK own2 \in Owners : /\ OwnsNames(own2)' /\ own2[seg] = name
                             /\ \A i \in 1 .. Len(length) : own2[i] = own[i]
  BY <1>3, OwnersAfter DEF Apartness
<1>8. q.name = n /\ q.segment = 0 /\ Len(q.got) = 0
  BY <1>4 DEF NewPool
<1>9. PoolApart(own2, q)
  BY <1>8 DEF PoolApart, Apart
<1>10. BusyApart(own2, r)'
  <2>1. pools'[r][k] = q
    BY <1>1, <1>5 DEF Added
  <2>2. busy'[r].call = "new" /\ busy'[r].seg = seg /\ busy'[r].pool = k
    BY <1>5
  <2> QED BY <1>2, <1>7, <1>8, <2>1, <2>2 DEF BusyApart
<1>11. Apartness(own2)'
  BY <1>6, <1>7, <1>9, <1>10, ApartAfter
<1> QED BY <1>11 DEF ApartInv

\* With the names as they were, or fewer.
LEMMA ApartWhenSame ==
  ASSUME ShmTyped, ShmTyped', WholeInv, NEW own \in Owners, Apartness(own), NEW r \in Procs,
         NEW k, NEW q, Others(r, k, q), k \in 1 .. Len(pools'[r]) => PoolApart(own, q),
         BusyApart(own, r)', \A m \in AllNames : link'[m] \in {0, link[m]}
  PROVE  ApartInv'
<1>1. OwnsNames(own)'
  BY DEF OwnsNames, Apartness
<1>2. Apartness(own)'
  BY <1>1, ApartAfter
<1> QED BY <1>2 DEF ApartInv

LEMMA AllocApart ==
  ASSUME ShmTyped, ShmTyped', WholeInv, NEW own \in Owners, Apartness(own), NEW r \in Procs,
         NEW k \in Nat, NEW size \in Nat, AllocDone(r, k, size)
  PROVE  ApartInv'
<1>1. k \in 1 .. Len(pools[r]) /\ Free(r) /\ busy[r].at = "none"
  BY FreeIs DEF AllocDone
<1>2. PICK p \in PoolSet : p = pools[r][k]
  BY <1>1, PoolIs
<1>3. /\ p.smallPos \in Nat /\ p.got \in Seq(GotPieces) /\ p.segment \in Nat /\ p.bigIndex \in Nat
      /\ p.name \in Names /\ p.bigIndex =< BigMax /\ PoolApart(own, p) /\ PoolWhole(p)
  BY <1>1, <1>2, PoolIs DEF Apartness, WholeInv
<1>4. CASE /\ Kept(pools', r, k, SmallGiven(p, size)) /\ busy' = busy /\ Alike
  <2>1. PICK q, g, pos, asked, got :
          /\ q = SmallGiven(p, size) /\ g = SmallPiece(p, size) /\ asked = Append(p.asked, size)
          /\ pos = IF SmallFits(p, size) THEN p.smallPos + size ELSE p.smallPos
          /\ got = Append(p.got, g)
    OBVIOUS
  <2>2. Becomes(p, q, asked, pos, p.bigIndex, got) /\ g \in GotPieces
    BY <2>1, PoolsBecome
  <2>3. Others(r, k, q) /\ q \in PoolSet
    BY <1>1, <1>4, <2>1, KeptOthers, KeptPool
  <2>4. pos \in Nat /\ p.smallPos =< pos
    BY <1>3, <2>1
  <2>5. g.seg # 0 => /\ g.seg = p.segment /\ g.from = p.smallPos /\ pos = p.smallPos + size
                     /\ g.size = size /\ own[g.seg] = SmallName(p.name)
    BY <1>3, <2>1 DEF SmallPiece, PoolApart
  <2>6. PieceOf(own, q, g)
    <3>1. q.name = p.name /\ q.smallPos = pos
      BY <2>2 DEF Becomes
    <3>2. g.seg # 0 => g.from + g.size =< pos
      BY <1>3, <2>4, <2>5
    <3> QED BY <2>5, <3>1, <3>2 DEF PieceOf
  <2>7. ASSUME NEW i \in 1 .. Len(p.got), p.got[i].seg # 0, p.got[i].seg = g.seg
        PROVE  p.got[i].from + p.got[i].size =< g.from
    <3>1. PICK h : h = p.got[i]
      OBVIOUS
    <3>2. PieceOf(own, p, h) /\ own[h.seg] = SmallName(p.name)
      BY <1>3, <2>5, <2>7, <3>1 DEF PoolApart
    <3>3. ~BigOf(own, p, h.seg)
      BY <3>2, NamesAre DEF BigOf
    <3> QED BY <2>5, <2>7, <3>1, <3>2, <3>3 DEF PieceOf
  <2>8. PoolApart(own, q)
    <3>1. p.bigIndex =< p.bigIndex
      BY <1>3
    <3> QED BY <1>3, <2>1, <2>2, <2>3, <2>4, <2>6, <2>7, <3>1, ApartWith
  <2>9. BusyApart(own, r)' /\ \A m \in AllNames : link'[m] \in {0, link[m]}
    BY <1>1, <1>4, IdleApart DEF Alike
  <2> QED BY <2>3, <2>8, <2>9, ApartWhenSame
<1>5. CASE /\ Kept(pools', r, k, Refused(p, size)) /\ busy' = busy /\ Alike
  <2>1. PICK q, g, asked, got :
          /\ q = Refused(p, size) /\ g = NoPiece(size) /\ asked = Append(p.asked, size)
          /\ got = Append(p.got, g)
    OBVIOUS
  <2>2. Becomes(p, q, asked, p.smallPos, p.bigIndex, got) /\ g \in GotPieces /\ g.seg = 0
    BY <2>1, PoolsBecome DEF NoPiece
  <2>3. Others(r, k, q) /\ q \in PoolSet
    BY <1>1, <1>5, <2>1, KeptOthers, KeptPool
  <2>4. PieceOf(own, q, g) /\ \A i \in 1 .. Len(p.got) : p.got[i].seg # 0 => p.got[i].seg # g.seg
    BY <2>2 DEF PieceOf
  <2>8. PoolApart(own, q)
    <3>1. p.bigIndex =< p.bigIndex /\ p.smallPos =< p.smallPos
      BY <1>3
    <3> QED BY <1>3, <2>1, <2>2, <2>3, <2>4, <3>1, ApartWith
  <2>9. BusyApart(own, r)' /\ \A m \in AllNames : link'[m] \in {0, link[m]}
    BY <1>1, <1>5, IdleApart DEF Alike
  <2> QED BY <2>3, <2>8, <2>9, ApartWhenSame
<1>6. CASE /\ Kept(pools', r, k, BigBegun(p, size)) /\ p.bigIndex < BigMax
           /\ \E new \in BOOLEAN, seg \in Nat :
                Opening(r, "big", k, BigName(p.name, p.bigIndex), size, new, seg)
  <2>1. PICK name \in AllNames : name = BigName(p.name, p.bigIndex)
    <3>1. p.bigIndex \in 0 .. BigMax - 1
      BY <1>3, <1>6, ShmpoolAssumption
    <3> QED BY <1>3, <3>1, NamesAre
  <2>2. PICK new \in BOOLEAN, seg \in Nat : Opening(r, "big", k, name, size, new, seg)
    BY <1>6, <2>1
  <2>3. PICK own2 \in Owners : /\ OwnsNames(own2)' /\ own2[seg] = name
                               /\ \A i \in 1 .. Len(length) : own2[i] = own[i]
    BY <2>2, OwnersAfter DEF Apartness
  <2>4. PICK q, asked, index : q = BigBegun(p, size) /\ asked = Append(p.asked, size) /\ index = p.bigIndex + 1
    OBVIOUS
  <2>5. Becomes(p, q, asked, p.smallPos, index, p.got)
    BY <2>4, PoolsBecome
  <2>6. /\ busy'[r] = [call |-> "big", at |-> "stat", seg |-> seg, size |-> size, pool |-> k, index |-> 0]
        /\ \A s \in Procs : s # r => busy'[s] = busy[s]
    BY <2>2 DEF Opening
  <2>7. Others(r, k, q) /\ q \in PoolSet /\ pools'[r][k] = q
    BY <1>1, <1>6, <2>4, <2>6, KeptOthers, KeptPool
  <2>8. PoolApart(own2, p)
    BY <1>3, <2>3, ApartAgain
  <2>9. PoolApart(own2, q)
    <3>1. p.bigIndex =< index /\ p.smallPos =< p.smallPos /\ index \in Nat
      BY <1>3, <2>4
    <3>2. PICK g : g \in GotPieces
      BY PoolsBecome
    <3> QED BY <1>3, <2>5, <2>7, <2>8, <3>1, <3>2, ApartWith
  <2>10. BusyApart(own2, r)'
    <3>1. busy'[r].call = "big" /\ busy'[r].seg = seg /\ busy'[r].pool = k
      BY <2>6
    <3>2. q.name = p.name /\ q.bigIndex = index /\ q.got = p.got
      BY <2>5 DEF Becomes
    <3>3. BigOf(own2, q, seg)
      <4>1. p.bigIndex < index
        BY <1>3, <2>4
      <4> QED BY <1>3, <2>1, <2>3, <3>2, <4>1 DEF BigOf
    <3>4. ASSUME NEW i \in 1 .. Len(p.got), p.got[i].seg = seg PROVE FALSE
      <4>1. PICK h : h = p.got[i]
        OBVIOUS
      <4>2. PieceOf(own2, p, h) /\ h.seg # 0
        BY <2>2, <2>8, <3>4, <4>1 DEF PoolApart, Opening
      <4>3. own2[h.seg] # SmallName(p.name)
        BY <2>1, <2>3, <3>4, <4>1, NamesAre
      <4>4. PICK j \in Nat : j < p.bigIndex /\ own2[h.seg] = BigName(p.name, j)
        BY <4>2, <4>3 DEF PieceOf, BigOf
      <4>5. j = p.bigIndex
        <5>1. BigName(p.name, j) = BigName(p.name, p.bigIndex)
          BY <2>1, <2>3, <3>4, <4>1, <4>4
        <5> QED BY <5>1, NamesAre
      <4> QED BY <1>3, <4>4, <4>5
    <3> QED BY <2>7, <3>1, <3>2, <3>3, <3>4 DEF BusyApart, BigOf
  <2>11. Apartness(own2)'
    BY <2>3, <2>7, <2>9, <2>10, ApartAfter
  <2> QED BY <2>11 DEF ApartInv
<1> QED BY <1>2, <1>4, <1>5, <1>6 DEF AllocDone

LEMMA RestApart ==
  ASSUME ShmTyped, ShmTyped', WholeInv, NEW own \in Owners, Apartness(own), NEW r \in Procs,
         Resting(r)
  PROVE  ApartInv'
<1>1. pools' = pools /\ link' = link /\ \A s \in Procs : s # r => busy'[s] = busy[s]
  BY DEF Resting, Alike
<1>2. Others(r, 0, 0) /\ 0 \notin 1 .. Len(pools'[r])
  BY <1>1, SameOthers
<1>3. BusyApart(own, r)'
  <2>0. busy[r] \in BusySet /\ BusyApart(own, r)
    BY DEF ShmTyped, Apartness
  <2>1. CASE busy'[r] = busy[r]
    BY <1>1, <2>0, <2>1 DEF BusyApart, BigOf
  <2>2. CASE Free(r) /\ busy'[r] = [busy[r] EXCEPT !.call = "undefined"]
    <3>1. busy'[r].at = "none"
      BY <2>0, <2>2, FreeIs DEF BusySet
    <3> QED BY <3>1, IdleApart
  <2>3. CASE busy[r].at = "stat" /\ busy'[r] = [busy[r] EXCEPT !.at = "resize"]
    <3>1. /\ busy'[r].call = busy[r].call /\ busy'[r].seg = busy[r].seg
          /\ busy'[r].pool = busy[r].pool
      BY <2>0, <2>3 DEF BusySet
    <3> QED BY <1>1, <2>0, <2>3, <3>1 DEF BusyApart, BigOf
  <2> QED BY <2>1, <2>2, <2>3 DEF Resting
<1> QED BY <1>1, <1>2, <1>3, ApartWhenSame

LEMMA OpenedApart ==
  ASSUME ShmTyped, ShmTyped', WholeInv, NEW own \in Owners, Apartness(own), NEW r \in Procs,
         NEW seg \in Nat, OpenedDone(r, seg)
  PROVE  ApartInv'
<1>1. PICK k, size, i : k = busy[r].pool /\ size = busy[r].size /\ i = busy[r].seg
  OBVIOUS
<1>2. /\ k \in 1 .. Len(pools[r]) /\ busy[r].call \in {"new", "big"} /\ size \in Nat
      /\ busy[r].at \in {"stat", "resize"} /\ BusyApart(own, r) /\ (seg = 0 \/ seg = i)
      /\ link' = link /\ busy'[r].at = "none" /\ \A s \in Procs : s # r => busy'[s] = busy[s]
  BY <1>1, SMTT(30) DEF OpenedDone, ShmTyped, BusyTyped, Apartness, BusySet, Idle
<1>3. PICK p \in PoolSet : p = pools[r][k]
  BY <1>2, PoolIs
<1>4. /\ p.smallPos \in Nat /\ p.got \in Seq(GotPieces) /\ p.bigIndex \in Nat /\ PoolApart(own, p)
  BY <1>2, <1>3, PoolIs DEF Apartness
<1>5. BusyApart(own, r)' /\ \A m \in AllNames : link'[m] \in {0, link[m]}
  BY <1>2, IdleApart
<1>6. CASE busy[r].call = "new"
  <2>1. PICK q : q = Mapped(p, seg)
    OBVIOUS
  <2>2. Kept(pools', r, k, q)
    BY <1>1, <1>3, <1>6, <2>1 DEF OpenedDone
  <2>3. q.name = p.name /\ q.segment = seg /\ q.got = p.got
    BY <1>3, <2>1 DEF Mapped, PoolSet
  <2>4. own[i] = SmallName(p.name) /\ Len(p.got) = 0
    BY <1>1, <1>2, <1>3, <1>6 DEF BusyApart
  <2>5. PoolApart(own, q)
    BY <1>2, <2>3, <2>4 DEF PoolApart, Apart
  <2>6. Others(r, k, q)
    BY <1>2, <2>2, KeptOthers
  <2> QED BY <1>5, <2>5, <2>6, ApartWhenSame
<1>7. CASE busy[r].call = "big"
  <2>1. PICK q, g, got : q = GotBig(p, seg, size) /\ g = BigPiece(seg, size) /\ got = Append(p.got, g)
    OBVIOUS
  <2>2. Kept(pools', r, k, q)
    BY <1>1, <1>3, <1>7, <2>1 DEF OpenedDone
  <2>3. Becomes(p, q, p.asked, p.smallPos, p.bigIndex, got) /\ g \in GotPieces
    BY <1>2, <2>1, PoolsBecome
  <2>4. Others(r, k, q) /\ q \in PoolSet
    BY <1>2, <2>2, KeptOthers, KeptPool
  <2>5. /\ BigOf(own, p, i) /\ \A j \in 1 .. Len(p.got) : p.got[j].seg # i
    BY <1>1, <1>2, <1>3, <1>7 DEF BusyApart
  <2>6. g.seg = seg /\ g.from = 0
    BY <2>1 DEF BigPiece
  <2>7. PieceOf(own, q, g)
    <3>1. q.name = p.name /\ q.bigIndex = p.bigIndex
      BY <2>3 DEF Becomes
    <3> QED BY <1>2, <2>5, <2>6, <3>1 DEF PieceOf, BigOf
  <2>8. \A j \in 1 .. Len(p.got) : p.got[j].seg # 0 => p.got[j].seg # g.seg
    BY <1>2, <2>5, <2>6
  <2>9. PoolApart(own, q)
    <3>1. p.bigIndex =< p.bigIndex /\ p.smallPos =< p.smallPos
      BY <1>4
    <3> QED BY <1>4, <2>1, <2>3, <2>4, <2>7, <2>8, <3>1, ApartWith
  <2> QED BY <1>5, <2>4, <2>9, ApartWhenSame
<1> QED BY <1>2, <1>6, <1>7

LEMMA UnlinkApart ==
  ASSUME ShmTyped, ShmTyped', WholeInv, NEW own \in Owners, Apartness(own), NEW r \in Procs,
         NEW k \in Nat, UnlinkBegun(r, k) \/ FreedListed(r, k)
  PROVE  ApartInv'
<1>1. /\ \A s \in Procs : s # r => busy'[s] = busy[s]
      /\ k \in 1 .. Len(pools[r]) /\ busy[r].at = "none" /\ busy[r] \in BusySet
      /\ \A m \in AllNames : link'[m] \in {0, link[m]}
  BY DEF UnlinkBegun, FreedListed, Alike, ShmTyped
<1>3. busy'[r].at \in {"none", "unlink"}
  BY <1>1, SMTT(30) DEF UnlinkBegun, FreedListed, Unlinking, BusySet
<1>4. BusyApart(own, r)'
  BY <1>3, IdleApart
<1>5. CASE pools' = pools
  <2>1. Others(r, 0, 0) /\ 0 \notin 1 .. Len(pools'[r])
    BY <1>1, <1>5, SameOthers
  <2> QED BY <1>1, <1>4, <2>1, ApartWhenSame
<1>6. CASE Kept(pools', r, k, [pools[r][k] EXCEPT !.listed = FALSE])
  <2>1. PICK q : q = [pools[r][k] EXCEPT !.listed = FALSE]
    OBVIOUS
  <2>2. Others(r, k, q)
    BY <1>1, <1>6, <2>1, KeptOthers
  <2>3. PICK p \in PoolSet : p = pools[r][k]
    BY <1>1, PoolIs
  <2>4. /\ q.name = p.name /\ q.smallPos = p.smallPos /\ q.segment = p.segment /\ q.got = p.got
        /\ q.bigIndex = p.bigIndex
    BY <2>1, <2>3 DEF PoolSet
  <2>5. PoolApart(own, p)
    BY <1>1, <2>3 DEF Apartness
  <2>6. PoolApart(own, q)
    BY <2>4, <2>5 DEF PoolApart, PieceOf, BigOf
  <2> QED BY <1>1, <1>4, <2>2, <2>6, ApartWhenSame
<1> QED BY <1>5, <1>6 DEF UnlinkBegun, FreedListed

LEMMA BigUnlinkedApart ==
  ASSUME ShmTyped, ShmTyped', WholeInv, NEW own \in Owners, Apartness(own), NEW r \in Procs,
         BigUnlinked(r)
  PROVE  ApartInv'
<1>1. PICK d \in BusySet : d = busy[r]
  BY DEF ShmTyped
<1>2. PICK b : b = [d EXCEPT !.index = @ + 1]
  OBVIOUS
<1>3. /\ pools' = pools /\ busy'[r] = b /\ d.at = "unlink"
      /\ \A s \in Procs : s # r => busy'[s] = busy[s]
      /\ \A m \in AllNames : link'[m] \in {0, link[m]}
  BY <1>1, <1>2 DEF BigUnlinked
<1>4. b.at = "unlink"
  BY <1>2, <1>3, IndexOn
<1>5. Others(r, 0, 0) /\ 0 \notin 1 .. Len(pools'[r])
  BY <1>3, SameOthers
<1>6. BusyApart(own, r)'
  BY <1>3, <1>4, IdleApart
<1> QED BY <1>3, <1>5, <1>6, ApartWhenSame

LEMMA FreedApart ==
  ASSUME ShmTyped, ShmTyped', WholeInv, NEW own \in Owners, Apartness(own), NEW r \in Procs,
         PoolFreed(r)
  PROVE  ApartInv'
<1>1. PICK k : k = busy[r].pool
  OBVIOUS
<1>2. k \in 1 .. Len(pools[r])
  BY <1>1 DEF PoolFreed, ShmTyped, BusyTyped
<1>3. PICK p \in PoolSet : p = pools[r][k]
  BY <1>2, PoolIs
<1>4. PICK q : q = Gone(p)
  OBVIOUS
<1>5. /\ Kept(pools', r, k, q) /\ link' = link
      /\ busy'[r].at = "none" /\ \A s \in Procs : s # r => busy'[s] = busy[s]
  BY <1>1, <1>3, <1>4 DEF PoolFreed, Alike
<1>6. PoolApart(own, q)
  <2>1. q.segment = 0 /\ Len(q.got) = 0
    BY <1>3, <1>4 DEF Gone, PoolSet
  <2> QED BY <2>1 DEF PoolApart, Apart
<1>7. Others(r, k, q) /\ \A m \in AllNames : link'[m] \in {0, link[m]}
  BY <1>5, KeptOthers
<1>8. BusyApart(own, r)'
  BY <1>5, IdleApart
<1> QED BY <1>6, <1>7, <1>8, ApartWhenSame

LEMMA ApartStep ==
  ASSUME ShmTyped, ShmTyped', WholeInv, ApartInv, NEW r \in Procs, Done(r)
  PROVE  ApartInv'
<1>1. PICK own \in Owners : Apartness(own)
  BY DEF ApartInv
<1> QED BY <1>1, NewApart, AllocApart, RestApart, OpenedApart, UnlinkApart, BigUnlinkedApart,
           FreedApart DEF Done

-----------------------------------------------------------------------------
(* The permanent memory of a process: the mapping in use is a page, or has *)
(* nothing left.                                                           *)

PermSet == [map : Nat, from : Nat, left : Nat, pieces : Seq(GotPieces)]

PermGood(p) ==
  /\ p.left = 0 \/ p.from + p.left = PageSize
  /\ \A k \in 1 .. Len(p.pieces) :
       LET g == p.pieces[k] IN
       /\ g.seg =< p.map /\ (g.seg = p.map => g.from + g.size =< p.from)
       /\ g.from + g.size =< PageSize \/ g.from = 0
  /\ Apart(p.pieces)

PermInv ==
  /\ permanent \in [Procs -> PermSet]
  /\ \A r \in Procs : PermGood(permanent[r])

\* A piece is taken from a mapping, where it begins in it and what it leaves.
LEMMA PieceTaken ==
  ASSUME NEW p \in PermSet, PermGood(p), NEW size \in Nat \ {0},
         NEW map \in Nat, NEW from \in Nat, NEW left \in Nat,
         \/ map = p.map + 1 /\ from = 0 /\ (left = 0 \/ size + left = PageSize)
         \/ map = p.map /\ from = p.from /\ p.left # 0 /\ size + left = p.left,
         NEW g, g = [seg |-> map, from |-> from, size |-> size],
         NEW got, got = Append(p.pieces, g),
         NEW q, q = [map |-> map, from |-> from + size, left |-> left, pieces |-> got]
  PROVE  q \in PermSet /\ PermGood(q)
<1>1. /\ p.map \in Nat /\ p.from \in Nat /\ p.left \in Nat /\ p.pieces \in Seq(GotPieces)
      /\ PageSize \in Nat
  BY ShmpoolAssumption DEF PermSet
<1>2. g \in GotPieces /\ g.seg = map /\ g.from = from /\ g.size = size
  BY DEF GotPieces
<1>3. q.map = map /\ q.from = from + size /\ q.left = left /\ q.pieces = got
  OBVIOUS
<1>4. PICK old \in Seq(GotPieces) : old = p.pieces
  BY <1>1
<1>5. /\ got \in Seq(GotPieces)
      /\ \A k \in 1 .. Len(got) : (k \in 1 .. Len(old) /\ got[k] = old[k]) \/ got[k] = g
  BY <1>2, <1>4, AppendedPiece
<1>6. q \in PermSet
  BY <1>5 DEF PermSet
<1>7. \A k \in 1 .. Len(old) :
        /\ old[k] \in GotPieces /\ old[k].seg =< p.map
        /\ old[k].seg = p.map => old[k].from + old[k].size =< p.from
        /\ old[k].from + old[k].size =< PageSize \/ old[k].from = 0
  BY <1>4 DEF PermGood
<1>8. left = 0 \/ (from + size) + left = PageSize
  <2>1. CASE map = p.map /\ from = p.from /\ p.left # 0 /\ size + left = p.left
    <3>1. p.from + p.left = PageSize
      BY <2>1 DEF PermGood
    <3> QED BY <1>1, <2>1, <3>1
  <2>2. CASE from = 0 /\ (left = 0 \/ size + left = PageSize)
    BY <1>1, <2>2
  <2> QED BY <2>1, <2>2
<1>9. from + size =< PageSize \/ from = 0
  <2>1. CASE map = p.map /\ from = p.from /\ p.left # 0 /\ size + left = p.left
    <3>1. p.from + p.left = PageSize
      BY <2>1 DEF PermGood
    <3> QED BY <1>1, <2>1, <3>1
  <2> QED BY <2>1
<1>10. ASSUME NEW k \in 1 .. Len(old)
       PROVE  /\ old[k].seg =< map /\ (old[k].seg = map => old[k].from + old[k].size =< from)
              /\ old[k].seg = map => old[k].from + old[k].size =< from + size
  <2>1. PICK h \in GotPieces : h = old[k]
    BY <1>7
  <2>2. h.seg \in Nat /\ h.from + h.size \in Nat
    <3>1. h.seg \in Nat /\ h.from \in Nat /\ h.size \in Nat
      BY <2>1 DEF GotPieces
    <3> QED BY <3>1, SMTT(30)
  <2>3. h.seg =< p.map /\ (h.seg = p.map => h.from + h.size =< p.from)
    BY <1>7, <2>1
  <2>4. h.seg =< map /\ (h.seg = map => h.from + h.size =< from)
    BY <1>1, <2>2, <2>3, SMTT(30)
  <2> QED BY <2>1, <2>2, <2>4
<1>11. ASSUME NEW k \in 1 .. Len(got)
       PROVE  /\ got[k].seg =< map /\ (got[k].seg = map => got[k].from + got[k].size =< from + size)
              /\ got[k].from + got[k].size =< PageSize \/ got[k].from = 0
  <2>1. CASE k \in 1 .. Len(old) /\ got[k] = old[k]
    BY <1>7, <1>10, <2>1
  <2>2. CASE got[k] = g
    <3>1. got[k].seg = map /\ got[k].from = from /\ got[k].size = size
      BY <1>2, <2>2
    <3>2. map =< map /\ from + size =< from + size
      OBVIOUS
    <3> QED BY <1>9, <3>1, <3>2
  <2> QED BY <1>5, <2>1, <2>2
<1>12. Apart(got)
  <2>1. Apart(old)
    BY <1>4 DEF PermGood
  <2>2. \A i \in 1 .. Len(old) : old[i].seg # 0 /\ old[i].seg = g.seg =>
          old[i].from + old[i].size =< g.from \/ g.from + g.size =< old[i].from
    BY <1>2, <1>10
  <2>3. Apart(Append(old, g))
    BY <1>2, <2>1, <2>2, ApartAppended
  <2> QED BY <1>4, <2>3
<1>13. PermGood(q)
  BY <1>3, <1>8, <1>11, <1>12 DEF PermGood
<1> QED BY <1>6, <1>13

LEMMA PermanentGood ==
  ASSUME NEW p \in PermSet, PermGood(p), NEW size \in Nat \ {0}
  PROVE  Permanent(p, size) \in PermSet /\ PermGood(Permanent(p, size))
<1>1. /\ p.map \in Nat /\ p.from \in Nat /\ p.left \in Nat /\ PageSize \in Nat \ {0}
  BY ShmpoolAssumption DEF PermSet
<1>2. PICK map, from, room :
        /\ map  = IF size > p.left THEN p.map + 1 ELSE p.map
        /\ from = IF size > p.left THEN 0 ELSE p.from
        /\ room = IF ~(size > p.left) THEN p.left ELSE IF size > PageSize THEN size ELSE PageSize
  OBVIOUS
<1>3. PICK g : g = [seg |-> map, from |-> from, size |-> size]
  OBVIOUS
<1>4. PICK left, got : left = room - size /\ got = Append(p.pieces, g)
  OBVIOUS
<1>5. PICK q : q = [map |-> map, from |-> from + size, left |-> left, pieces |-> got]
  OBVIOUS
<1>6. q = Permanent(p, size)
  BY <1>2, <1>3, <1>4, <1>5 DEF Permanent, PermanentFrom
<1>7. /\ map \in Nat /\ from \in Nat /\ left \in Nat
      /\ \/ map = p.map + 1 /\ from = 0 /\ (left = 0 \/ size + left = PageSize)
         \/ map = p.map /\ from = p.from /\ p.left # 0 /\ size + left = p.left
  <2>1. CASE size > p.left
    BY <1>1, <1>2, <1>4, <2>1
  <2>2. CASE ~(size > p.left)
    BY <1>1, <1>2, <1>4, <2>2
  <2> QED BY <2>1, <2>2
<1>8. q \in PermSet /\ PermGood(q)
  BY <1>3, <1>4, <1>5, <1>7, PieceTaken, ZenonT(30)
<1> QED BY <1>6, <1>8

LEMMA PermStep ==
  ASSUME PermInv, [ShmNext]_shmVars
  PROVE  PermInv'
<1>1. CASE permanent' = permanent
  BY <1>1 DEF PermInv, PermGood
<1>2. ASSUME NEW r \in Procs, NEW asked \in Requests, AllocPermanent(r, asked) PROVE PermInv'
  <2>1. PICK p, q : p = permanent[r] /\ q = Permanent(p, RoundedUp(asked))
    OBVIOUS
  <2>2. p \in PermSet /\ PermGood(p)
    BY <2>1 DEF PermInv
  <2>3. q \in PermSet /\ PermGood(q)
    <3>1. PICK size \in Nat \ {0} : size = RoundedUp(asked)
      BY RoundedIs
    <3> QED BY <2>1, <2>2, <3>1, PermanentGood
  <2>4. permanent' = [permanent EXCEPT ![r] = q]
    BY <1>2, <2>1 DEF AllocPermanent
  <2>5. permanent' \in [Procs -> PermSet] /\ permanent'[r] = q
        /\ \A s \in Procs : s # r => permanent'[s] = permanent[s]
    BY <2>3, <2>4 DEF PermInv
  <2>6. \A s \in Procs : PermGood(permanent'[s])
    BY <2>3, <2>5 DEF PermInv
  <2> QED BY <2>5, <2>6 DEF PermInv, PermGood
<1>3. CASE ShmNext
  <2>1. PICK r \in Procs :
        \/ \E n \in Names, size \in SmallSizes : ShmNew(r, n, size)
        \/ \E size \in Requests : Alloc(r, size) \/ AllocPermanent(r, size)
        \/ Finish(r)
        \/ OpenStep(r)
        \/ \E k \in 1 .. Len(pools[r]) : ShmDestroy(r, k)
        \/ Cleanup(r) \/ UnlinkBig(r) \/ Destroyed(r) \/ CleanupGoesOn(r)
    BY <1>3 DEF ShmNext
  <2>2. CASE \E n \in Names, size \in SmallSizes : ShmNew(r, n, size)
    BY <1>1, <2>2 DEF ShmNew
  <2>3. CASE \E size \in Requests : Alloc(r, size)
    BY <1>1, <2>3 DEF Alloc
  <2>4. CASE \E k \in 1 .. Len(pools[r]) : ShmDestroy(r, k)
    BY <1>1, <2>4 DEF ShmDestroy
  <2>5. CASE Finish(r) \/ OpenStep(r)
    BY <1>1, <2>5 DEF Finish, OpenStep
  <2>6. CASE Cleanup(r) \/ UnlinkBig(r)
    BY <1>1, <2>6 DEF Cleanup, UnlinkBig
  <2>7. CASE Destroyed(r) \/ CleanupGoesOn(r)
    BY <1>1, <2>7 DEF Destroyed, CleanupGoesOn
  <2> QED BY <1>2, <2>1, <2>2, <2>3, <2>4, <2>5, <2>6, <2>7
<1> QED BY <1>1, <1>3 DEF shmVars

LEMMA PiecesAre ==
  ASSUME ApartInv, PermInv
  PROVE  PiecesApart
<1>1. ASSUME NEW p \in AllPools PROVE Apart(p.got)
  <2>1. PICK r \in Procs : \E j \in 1 .. Len(pools[r]) : p = pools[r][j]
    BY DEF AllPools, Pool
  <2>2. PICK j \in 1 .. Len(pools[r]) : p = pools[r][j]
    BY <2>1
  <2> QED BY <2>2 DEF ApartInv, Apartness, PoolApart
<1> QED BY <1>1 DEF PermInv, PermGood, PiecesApart

-----------------------------------------------------------------------------
(* The same memory for the same requests.  Where a request is met follows  *)
(* from those before it: pos and idx are smallPos and bigIndex after each. *)

Marks == [Nat -> Nat]

NextPos(z, at, size) ==
  IF size > BigSize THEN at ELSE IF z - at >= size THEN at + size ELSE at

NextIdx(i, size) == IF size > BigSize /\ i < BigMax THEN i + 1 ELSE i

Runs(p, pos, idx) ==
  /\ pos[0] = 0 /\ idx[0] = 0
  /\ \A j \in 1 .. Len(p.asked) :
       /\ pos[j] = NextPos(p.smallSize, pos[j - 1], p.asked[j])
       /\ idx[j] = NextIdx(idx[j - 1], p.asked[j])
  /\ pos[Len(p.asked)] = p.smallPos /\ idx[Len(p.asked)] = p.bigIndex

MetBig(g, index) == g.from = 0 /\ (g.seg # 0 => index < BigMax)

MetSmall(g, segment, smallSize, at) ==
  IF smallSize - at >= g.size THEN g.seg = segment /\ g.from = at ELSE g.seg = 0 /\ g.from = 0

MetAt(p, pos, idx, j) ==
  LET g == p.got[j] IN
  /\ g.size = p.asked[j]
  /\ IF p.asked[j] > BigSize THEN MetBig(g, idx[j - 1])
     ELSE MetSmall(g, p.segment, p.smallSize, pos[j - 1])

Settled(p) == Len(p.asked) = Len(p.got)

\* Every request is met, or the last, a big one, is going to be.
Trace(p, pos, idx) ==
  /\ Runs(p, pos, idx)
  /\ \A j \in 1 .. Len(p.got) : MetAt(p, pos, idx, j)
  /\ ~Settled(p) => /\ Len(p.asked) = Len(p.got) + 1 /\ p.asked[Len(p.asked)] > BigSize
                    /\ idx[Len(p.got)] + 1 = p.bigIndex

Live(p) ==
  p.segment # 0 /\ link[SmallName(p.name)] = p.segment /\ p.segment \notin disturbed

StillLinked(p, idx) ==
  Live(p) => \A j \in 1 .. Len(p.got) :
               p.got[j].seg # 0 /\ p.asked[j] > BigSize =>
                 link[BigName(p.name, idx[j - 1])] = p.got[j].seg

PoolView(p) ==
  \E pos, idx \in Marks : Trace(p, pos, idx) /\ StillLinked(p, idx)

BusyOn(r, k) == busy[r].at \in {"stat", "resize"} /\ busy[r].call = "big" /\ busy[r].pool = k

BusyView(r) ==
  LET b == busy[r]
      p == pools[r][b.pool]
  IN  b.at \in {"stat", "resize"} =>
        /\ b.call = "new" => Len(p.asked) = 0 /\ Len(p.got) = 0
        /\ b.call = "big" =>
             /\ ~Settled(p) /\ p.asked[Len(p.asked)] = b.size /\ p.bigIndex # 0
             /\ Live(p) => link[BigName(p.name, p.bigIndex - 1)] = b.seg

AllSettled(r) == \A k \in 1 .. Len(pools[r]) : Settled(pools[r][k]) \/ BusyOn(r, k)

ViewInv ==
  \A r \in Procs :
    /\ BusyView(r) /\ AllSettled(r)
    /\ \A k \in 1 .. Len(pools[r]) : PoolView(pools[r][k])

\* What is pool p's stays its own, as long as it is live.
LinksGo(p) ==
  Live(p)' => /\ Live(p)
              /\ \A i \in 0 .. BigMax - 1 :
                   link[BigName(p.name, i)] # 0 => link'[BigName(p.name, i)] = link[BigName(p.name, i)]

LEMMA MarksAre ==
  \A f \in Marks, i \in Nat : f[i] \in Nat
BY DEF Marks

Marked(f, i, v, e) == e[i] = v /\ \A j \in Nat : j # i => e[j] = f[j]

LEMMA MarkMore ==
  ASSUME NEW i \in Nat
  PROVE  \A f \in Marks, v \in Nat : \E e \in Marks : Marked(f, i, v, e)
<1> SUFFICES ASSUME NEW f \in Marks, NEW v \in Nat
             PROVE  \E e \in Marks : Marked(f, i, v, e)
  OBVIOUS
<1>1. PICK e : e = [f EXCEPT ![i] = v]
  OBVIOUS
<1>2. e \in Marks /\ Marked(f, i, v, e)
  BY <1>1 DEF Marks, Marked
<1> QED BY <1>2

LEMMA ViewStays ==
  ASSUME NEW p \in PoolSet, LinksGo(p), PoolView(p)
  PROVE  PoolView(p)'
<1>1. PICK pos \in Marks, idx \in Marks : Trace(p, pos, idx) /\ StillLinked(p, idx)
  BY DEF PoolView
<1>2. ASSUME Live(p)', NEW j \in 1 .. Len(p.got), p.got[j].seg # 0, p.asked[j] > BigSize
      PROVE  link'[BigName(p.name, idx[j - 1])] = p.got[j].seg
  <2>1. PICK i : i = idx[j - 1]
    OBVIOUS
  <2>2. link[BigName(p.name, i)] = p.got[j].seg
    BY <1>1, <1>2, <2>1 DEF StillLinked, LinksGo
  <2>3. i \in 0 .. BigMax - 1
    <3>1. j - 1 \in Nat
      OBVIOUS
    <3>2. i \in Nat
      BY <2>1, <3>1, MarksAre
    <3>3. i < BigMax
      BY <1>1, <1>2, <2>1 DEF Trace, MetAt, MetBig
    <3> QED BY <3>2, <3>3, ShmpoolAssumption
  <2>4. link'[BigName(p.name, i)] = link[BigName(p.name, i)]
    BY <1>2, <2>2, <2>3 DEF LinksGo
  <2> QED BY <2>1, <2>2, <2>4
<1>3. StillLinked(p, idx)'
  BY <1>2 DEF StillLinked
<1>4. Trace(p, pos, idx)'
  BY <1>1 DEF Trace, Runs, MetAt, Settled
<1> QED BY <1>1, <1>3, <1>4 DEF PoolView

LEMMA ViewAfter ==
  ASSUME ShmTyped, ShmTyped', WholeInv, ViewInv, NEW r \in Procs, NEW k, NEW q, Others(r, k, q),
         \A p \in PoolSet : PoolWhole(p) => LinksGo(p),
         k \in 1 .. Len(pools'[r]) => PoolView(q)',
         BusyView(r)', AllSettled(r)'
  PROVE  ViewInv'
<1>1. ASSUME NEW s \in Procs, s # r PROVE BusyView(s)' /\ AllSettled(s)'
  <2>0. /\ busy'[s] = busy[s]
        /\ \A j \in 1 .. Len(pools'[s]) : j \in 1 .. Len(pools[s]) /\ pools'[s][j] = pools[s][j]
    BY <1>1 DEF Others
  <2>1. AllSettled(s)'
    <3>1. AllSettled(s)
      BY DEF ViewInv
    <3> QED BY <2>0, <3>1 DEF AllSettled, BusyOn
  <2>2. CASE busy[s].at \notin {"stat", "resize"}
    BY <2>0, <2>1, <2>2 DEF BusyView
  <2>3. CASE busy[s].at \in {"stat", "resize"}
    <3>1. PICK j : j = busy[s].pool
      OBVIOUS
    <3>2. /\ j \in 1 .. Len(pools'[s]) /\ j \in 1 .. Len(pools[s]) /\ busy[s].seg \in 1 .. Len(length)
          /\ pools'[s][j] = pools[s][j]
      BY <2>0, <2>3, <3>1 DEF ShmTyped, BusyTyped
    <3>3. PICK p \in PoolSet : p = pools[s][j]
      BY <3>2, PoolIs
    <3>4. p.bigIndex \in Nat /\ p.bigIndex =< BigMax /\ PoolWhole(p) /\ BusyView(s)
      BY <3>2, <3>3, PoolIs DEF WholeInv, ViewInv
    <3>5. LinksGo(p)
      BY <3>4
    <3>6. ASSUME busy[s].call = "big", Live(p)'
          PROVE  link'[BigName(p.name, p.bigIndex - 1)] = busy[s].seg
      <4>1. PICK i : i = p.bigIndex - 1
        OBVIOUS
      <4>2. p.bigIndex # 0 /\ Live(p)
        BY <2>3, <3>1, <3>3, <3>4, <3>5, <3>6 DEF BusyView, LinksGo
      <4>3. i \in 0 .. BigMax - 1
        BY <3>4, <4>1, <4>2, ShmpoolAssumption
      <4>4. link[BigName(p.name, i)] = busy[s].seg /\ busy[s].seg # 0
        <5>1. link[BigName(p.name, p.bigIndex - 1)] = busy[s].seg
          BY <2>3, <3>1, <3>3, <3>4, <3>6, <4>2 DEF BusyView
        <5>2. busy[s].seg # 0
          BY <3>2
        <5> QED BY <4>1, <5>1, <5>2
      <4>5. link'[BigName(p.name, i)] = busy[s].seg
        BY <3>5, <3>6, <4>3, <4>4 DEF LinksGo
      <4> QED BY <4>1, <4>5
    <3>7. Live(pools[s][j])' = Live(p)'
      BY <3>2, <3>3 DEF Live
    <3>8. BusyView(s)'
      BY <2>0, <2>3, <3>1, <3>2, <3>3, <3>4, <3>6, <3>7 DEF BusyView, Settled
    <3> QED BY <2>1, <3>8
  <2> QED BY <2>2, <2>3
<1>2. ASSUME NEW s \in Procs, NEW j \in 1 .. Len(pools'[s]) PROVE PoolView(pools[s][j])'
  <2>1. PICK p : p = pools'[s][j]
    OBVIOUS
  <2>2. PoolView(p)'
    <3>1. CASE s = r /\ j = k /\ p = q
      BY <1>2, <3>1
    <3>2. CASE j \in 1 .. Len(pools[s]) /\ p = pools[s][j]
      <4>1. PoolView(p) /\ PoolWhole(p) /\ p \in PoolSet
        BY <3>2, PoolIs DEF ViewInv, WholeInv
      <4> QED BY <4>1, ViewStays
    <3> QED BY <2>1, <3>1, <3>2 DEF Others
  <2>3. PoolView(pools[s][j])' <=> PoolView(p)'
    BY <2>1 DEF PoolView, Trace, StillLinked, Live, Runs, MetAt, Settled
  <2> QED BY <2>2, <2>3
<1>3. \A s \in Procs : BusyView(s)' /\ AllSettled(s)'
  BY <1>1
<1> QED BY <1>2, <1>3 DEF ViewInv

LEMMA LinksSame ==
  ASSUME link' = link, disturbed' = disturbed, NEW p
  PROVE  LinksGo(p)
BY DEF LinksGo, Live

LEMMA LinksOpened ==
  ASSUME ShmTyped, NEW r \in Procs, NEW call, NEW k, NEW name \in AllNames, NEW size,
         NEW new \in BOOLEAN, NEW seg \in Nat, Opening(r, call, k, name, size, new, seg),
         disturbed' = disturbed, NEW p \in PoolSet, PoolWhole(p)
  PROVE  LinksGo(p)
<1>1. /\ \A m \in AllNames : m # name => link'[m] = link[m]
      /\ link'[name] = seg /\ new = (link[name] = 0) /\ Len(length) \in Nat
      /\ new => seg = Len(length) + 1
      /\ ~new => seg = link[name]
  BY DEF Opening, ShmTyped
<1>2. p.name \in Names /\ SmallName(p.name) \in AllNames
  BY NamesAre DEF PoolSet
<1>3. ASSUME NEW m \in AllNames, link[m] # 0 PROVE link'[m] = link[m]
  BY <1>1, <1>3
<1>4. ASSUME Live(p)' PROVE Live(p)
  <2>1. p.segment \in 1 .. Len(length)
    BY <1>4 DEF Live, PoolWhole, Backed
  <2>2. link'[SmallName(p.name)] = p.segment /\ p.segment \notin disturbed /\ p.segment # 0
    BY <1>4 DEF Live
  <2>3. link[SmallName(p.name)] = p.segment
    BY <1>1, <1>2, <2>1, <2>2
  <2> QED BY <2>2, <2>3 DEF Live
<1>5. \A i \in 0 .. BigMax - 1 : BigName(p.name, i) \in AllNames
  BY <1>2, NamesAre
<1> QED BY <1>3, <1>4, <1>5 DEF LinksGo

LEMMA LinksUnlinked ==
  ASSUME NEW r \in Procs, NEW k \in Nat, UnlinkBegun(r, k), NEW p \in PoolSet
  PROVE  LinksGo(p)
<1>1. PICK n : n = SmallName(pools[r][k].name)
  OBVIOUS
<1>2. link'[n] = 0 /\ disturbed' = disturbed /\ \A m \in AllNames : m # n => link'[m] = link[m]
  BY <1>1 DEF UnlinkBegun
<1>3. p.name \in Names /\ SmallName(p.name) \in AllNames
  BY NamesAre DEF PoolSet
<1>4. \A i \in 0 .. BigMax - 1 : BigName(p.name, i) \in AllNames /\ BigName(p.name, i) # n
  BY <1>1, <1>3, NamesAre
<1>5. Live(p)' => Live(p)
  BY <1>2, <1>3 DEF Live
<1> QED BY <1>2, <1>4, <1>5 DEF LinksGo

LEMMA LinksBigUnlinked ==
  ASSUME ShmTyped, NEW r \in Procs, BigUnlinked(r), NEW p \in PoolSet
  PROVE  LinksGo(p)
<1>1. PICK d, n, i : d = busy[r] /\ n = pools[r][d.pool].name /\ i = d.index
  OBVIOUS
<1>2. /\ \A m \in AllNames : m # BigName(n, i) => link'[m] = link[m]
      /\ disturbed' = disturbed \cup {link[SmallName(n)]}
  BY <1>1 DEF BigUnlinked
<1>3. p.name \in Names /\ SmallName(p.name) \in AllNames
  BY NamesAre DEF PoolSet
<1>4. link'[SmallName(p.name)] = link[SmallName(p.name)]
  BY <1>2, <1>3, NamesAre
<1>5. Live(p)' => Live(p) /\ p.name # n
  BY <1>2, <1>4 DEF Live
<1>6. ASSUME p.name # n, NEW j \in 0 .. BigMax - 1
      PROVE  link'[BigName(p.name, j)] = link[BigName(p.name, j)]
  <2>1. BigName(p.name, j) \in AllNames /\ BigName(p.name, j) # BigName(n, i)
    BY <1>3, <1>6, NamesAre
  <2> QED BY <1>2, <2>1
<1> QED BY <1>5, <1>6 DEF LinksGo

\* A sequence with one more at the end.
More(old, new, x) ==
  /\ Len(new) = Len(old) + 1 /\ new[Len(old) + 1] = x
  /\ \A k \in 1 .. Len(old) : new[k] = old[k]

LEMMA AppendIsMore ==
  /\ \A old \in Seq(Nat), x \in Nat : More(old, Append(old, x), x)
  /\ \A old \in Seq(GotPieces), x \in GotPieces : More(old, Append(old, x), x)
<1>1. ASSUME NEW old \in Seq(Nat), NEW x \in Nat PROVE More(old, Append(old, x), x)
  BY AppendProperties DEF More
<1>2. ASSUME NEW old \in Seq(GotPieces), NEW x \in GotPieces PROVE More(old, Append(old, x), x)
  BY AppendProperties DEF More
<1> QED BY <1>1, <1>2

LEMMA Below ==
  ASSUME NEW n \in Nat, NEW m \in Nat, m = n + 1, NEW j \in 1 .. m
  PROVE  /\ m - 1 = n /\ n \in 0 .. n /\ 0 \in 0 .. n
         /\ j = m => j - 1 = n
         /\ j # m => j \in 1 .. n /\ j - 1 \in 0 .. n
OBVIOUS

LEMMA Within ==
  ASSUME NEW n \in Nat, NEW j \in 1 .. n
  PROVE  j - 1 \in 0 .. n
OBVIOUS

LEMMA NextIsNat ==
  /\ \A z \in Nat, a \in Nat, size \in Nat : NextPos(z, a, size) \in Nat
  /\ \A i \in Nat, size \in Nat : NextIdx(i, size) \in Nat
BY DEF NextPos, NextIdx

LEMMA PoolNumbers ==
  ASSUME NEW p \in PoolSet
  PROVE  /\ p.smallPos \in Nat /\ p.bigIndex \in Nat /\ p.smallSize \in Nat
         /\ p.bigIndex =< BigMax
         /\ Len(p.asked) \in Nat /\ Len(p.got) \in Nat
<1>1. p.bigIndex \in 0 .. BigMax /\ p.smallSize \in SmallSizes
  BY DEF PoolSet
<1>2. p.bigIndex \in Nat /\ p.bigIndex =< BigMax
  BY <1>1, ShmpoolAssumption
<1>3. p.smallSize \in Nat
  BY <1>1, ShmpoolAssumption
<1> QED BY <1>2, <1>3 DEF PoolSet

GoesOn(p, q, size) ==
  /\ More(p.asked, q.asked, size) /\ q.smallSize = p.smallSize
  /\ q.smallPos = NextPos(p.smallSize, p.smallPos, size) /\ q.bigIndex = NextIdx(p.bigIndex, size)

LEMMA RunsOn ==
  ASSUME NEW p \in PoolSet, NEW q, NEW size \in Nat, GoesOn(p, q, size),
         NEW pos \in Marks, NEW idx \in Marks, Runs(p, pos, idx)
  PROVE  \E pos2, idx2 \in Marks :
           /\ Runs(q, pos2, idx2)
           /\ \A j \in 0 .. Len(p.asked) : pos2[j] = pos[j] /\ idx2[j] = idx[j]
<1>1. PICK n \in Nat, m \in Nat : n = Len(p.asked) /\ m = n + 1
  BY PoolNumbers
<1>2. PICK at \in Nat, index \in Nat : at = q.smallPos /\ index = q.bigIndex
  <2>1. PICK z \in Nat, a \in Nat, i \in Nat :
          z = p.smallSize /\ a = p.smallPos /\ i = p.bigIndex
    BY PoolNumbers
  <2>2. q.smallPos = NextPos(z, a, size) /\ q.bigIndex = NextIdx(i, size)
    BY <2>1 DEF GoesOn
  <2>3. NextPos(z, a, size) \in Nat /\ NextIdx(i, size) \in Nat
    BY NextIsNat
  <2> QED BY <2>2, <2>3
<1>9. PICK asked : asked = q.asked
  OBVIOUS
<1>3. PICK pos2 \in Marks : Marked(pos, m, at, pos2)
  BY MarkMore
<1>4. PICK idx2 \in Marks : Marked(idx, m, index, idx2)
  BY MarkMore
<1>6. /\ pos2 \in Marks /\ idx2 \in Marks /\ pos2[m] = at /\ idx2[m] = index
  BY <1>3, <1>4 DEF Marked
<1>7. \A j \in 0 .. n : pos2[j] = pos[j] /\ idx2[j] = idx[j]
  <2>1. \A j \in 0 .. n : j \in Nat /\ j # m
    BY <1>1
  <2> QED BY <1>3, <1>4, <2>1 DEF Marked
<1>8. /\ Len(asked) = m /\ asked[m] = size /\ \A j \in 1 .. n : asked[j] = p.asked[j]
  BY <1>1, <1>9 DEF More, GoesOn
<1>10. pos[n] = p.smallPos /\ idx[n] = p.bigIndex /\ pos[0] = 0 /\ idx[0] = 0
  BY <1>1 DEF Runs
<1>11. ASSUME NEW j \in 1 .. m
       PROVE  /\ pos2[j] = NextPos(p.smallSize, pos2[j - 1], asked[j])
              /\ idx2[j] = NextIdx(idx2[j - 1], asked[j])
  <2>1. CASE j = m
    <3>1. j - 1 = n /\ n \in 0 .. n
      BY <1>1, <2>1, Below
    <3>2. pos2[j - 1] = p.smallPos /\ idx2[j - 1] = p.bigIndex
      BY <1>7, <1>10, <3>1
    <3> QED BY <1>2, <1>6, <1>8, <1>9, <2>1, <3>2 DEF GoesOn
  <2>2. CASE j # m
    <3>1. j \in 1 .. n /\ j - 1 \in 0 .. n
      BY <1>1, <2>2, Below
    <3>2. /\ pos[j] = NextPos(p.smallSize, pos[j - 1], p.asked[j])
          /\ idx[j] = NextIdx(idx[j - 1], p.asked[j])
      BY <1>1, <3>1 DEF Runs
    <3>3. pos2[j] = pos[j] /\ idx2[j] = idx[j] /\ pos2[j - 1] = pos[j - 1] /\ idx2[j - 1] = idx[j - 1]
      BY <1>7, <3>1
    <3> QED BY <1>8, <3>1, <3>2, <3>3
  <2> QED BY <2>1, <2>2
<1>12. pos2[0] = 0 /\ idx2[0] = 0
  <2>1. 0 \in 0 .. n
    BY <1>1
  <2> QED BY <1>7, <1>10, <2>1
<1>13. Runs(q, pos2, idx2)
  BY <1>2, <1>6, <1>8, <1>9, <1>11, <1>12 DEF Runs, GoesOn
<1> QED BY <1>1, <1>6, <1>7, <1>13

\* The pieces there were are met as they were.
LEMMA MetStill ==
  ASSUME NEW p \in PoolSet, NEW q, NEW pos, NEW idx, NEW pos2, NEW idx2, NEW j \in 1 .. Len(p.got),
         MetAt(p, pos, idx, j), q.got[j] = p.got[j], q.asked[j] = p.asked[j], q.segment = p.segment,
         q.smallSize = p.smallSize, pos2[j - 1] = pos[j - 1], idx2[j - 1] = idx[j - 1]
  PROVE  MetAt(q, pos2, idx2, j)
BY DEF MetAt

\* A request is met at once.
LEMMA ViewMet ==
  ASSUME NEW p \in PoolSet, Settled(p), PoolView(p)', NEW q, NEW size \in Nat, NEW g \in GotPieces,
         NEW asked, More(p.asked, asked, size), NEW got, More(p.got, got, g),
         NEW at, at = NextPos(p.smallSize, p.smallPos, size),
         NEW index, index = NextIdx(p.bigIndex, size), Becomes(p, q, asked, at, index, got),
         g.size = size,
         IF size > BigSize THEN g.seg = 0 /\ g.from = 0
         ELSE MetSmall(g, p.segment, p.smallSize, p.smallPos)
  PROVE  PoolView(q)' /\ Settled(q)
<1>1. PICK pos \in Marks, idx \in Marks : Trace(p, pos, idx)' /\ StillLinked(p, idx)'
  BY DEF PoolView
<1>2. Runs(p, pos, idx) /\ \A j \in 1 .. Len(p.got) : MetAt(p, pos, idx, j)
  BY <1>1 DEF Trace, Runs, MetAt
<1>3. PICK pos2 \in Marks, idx2 \in Marks :
        /\ Runs(q, pos2, idx2)
        /\ \A j \in 0 .. Len(p.asked) : pos2[j] = pos[j] /\ idx2[j] = idx[j]
  <2>1. GoesOn(p, q, size)
    BY DEF GoesOn, Becomes
  <2> QED BY <1>2, <2>1, RunsOn
<1>4. PICK n \in Nat, m \in Nat : n = Len(p.asked) /\ n = Len(p.got) /\ m = n + 1
  BY PoolNumbers DEF Settled
<1>5. /\ q.asked = asked /\ q.got = got /\ q.segment = p.segment /\ q.name = p.name
      /\ q.smallSize = p.smallSize
  BY DEF Becomes
<1>6. /\ Len(asked) = m /\ asked[m] = size /\ \A j \in 1 .. n : asked[j] = p.asked[j]
  BY <1>4 DEF More
<1>7. /\ Len(got) = m /\ got[m] = g /\ \A j \in 1 .. n : got[j] = p.got[j]
  BY <1>4 DEF More
<1>8. pos2[n] = p.smallPos /\ idx2[n] = p.bigIndex /\ m - 1 = n
  <2>1. n \in 0 .. n /\ m - 1 = n
    BY <1>4
  <2> QED BY <1>2, <1>3, <1>4, <2>1 DEF Runs
<1>9. ASSUME NEW j \in 1 .. m PROVE MetAt(q, pos2, idx2, j)
  <2>1. CASE j = m
    BY <1>5, <1>6, <1>7, <1>8, <2>1 DEF MetAt, MetBig
  <2>2. CASE j # m
    <3>1. j \in 1 .. n /\ j - 1 \in 0 .. n
      BY <1>4, <2>2, Below
    <3>2. MetAt(p, pos, idx, j) /\ j \in 1 .. Len(p.got)
      BY <1>2, <1>4, <3>1
    <3>3. pos2[j - 1] = pos[j - 1] /\ idx2[j - 1] = idx[j - 1]
      BY <1>3, <1>4, <3>1
    <3>4. q.got[j] = p.got[j] /\ q.asked[j] = p.asked[j]
      BY <1>5, <1>6, <1>7, <3>1
    <3> QED BY <1>5, <3>2, <3>3, <3>4, MetStill
  <2> QED BY <2>1, <2>2
<1>10. Settled(q)
  BY <1>5, <1>6, <1>7 DEF Settled
<1>11. Trace(q, pos2, idx2)
  BY <1>3, <1>5, <1>7, <1>9, <1>10 DEF Trace
<1>12. StillLinked(q, idx2)'
  <2> SUFFICES ASSUME Live(q)', NEW j \in 1 .. m, got[j].seg # 0, asked[j] > BigSize
               PROVE  link'[BigName(p.name, idx2[j - 1])] = got[j].seg
    BY <1>5, <1>7 DEF StillLinked
  <2>1. Live(p)'
    BY <1>5 DEF Live
  <2>2. j # m
    BY <1>6, <1>7
  <2>3. j \in 1 .. n /\ j - 1 \in 0 .. n /\ j \in 1 .. Len(p.got)
    BY <1>4, <2>2, Below
  <2>4. idx2[j - 1] = idx[j - 1] /\ got[j] = p.got[j] /\ asked[j] = p.asked[j]
    BY <1>3, <1>4, <1>6, <1>7, <2>3
  <2> QED BY <1>1, <2>1, <2>3, <2>4 DEF StillLinked
<1>13. Trace(q, pos2, idx2)'
  BY <1>11 DEF Trace, Runs, MetAt, Settled
<1> QED BY <1>10, <1>12, <1>13 DEF PoolView

\* A big one is going to be.
LEMMA ViewBegun ==
  ASSUME NEW p \in PoolSet, Settled(p), PoolView(p)', NEW q, NEW size \in Nat, size > BigSize,
         NEW asked, More(p.asked, asked, size), NEW index, index = p.bigIndex + 1,
         p.bigIndex < BigMax, Becomes(p, q, asked, p.smallPos, index, p.got)
  PROVE  PoolView(q)' /\ ~Settled(q) /\ q.asked[Len(q.asked)] = size
<1>1. PICK pos \in Marks, idx \in Marks : Trace(p, pos, idx)' /\ StillLinked(p, idx)'
  BY DEF PoolView
<1>2. Runs(p, pos, idx) /\ \A j \in 1 .. Len(p.got) : MetAt(p, pos, idx, j)
  BY <1>1 DEF Trace, Runs, MetAt
<1>3. PICK pos2 \in Marks, idx2 \in Marks :
        /\ Runs(q, pos2, idx2)
        /\ \A j \in 0 .. Len(p.asked) : pos2[j] = pos[j] /\ idx2[j] = idx[j]
  <2>1. p.smallPos = NextPos(p.smallSize, p.smallPos, size) /\ index = NextIdx(p.bigIndex, size)
    BY DEF NextPos, NextIdx
  <2>2. GoesOn(p, q, size)
    BY <2>1 DEF GoesOn, Becomes
  <2> QED BY <1>2, <2>2, RunsOn
<1>4. PICK n \in Nat, m \in Nat : n = Len(p.asked) /\ n = Len(p.got) /\ m = n + 1
  BY PoolNumbers DEF Settled
<1>5. /\ q.asked = asked /\ q.got = p.got /\ q.segment = p.segment /\ q.name = p.name
      /\ q.bigIndex = index /\ q.smallSize = p.smallSize
  BY DEF Becomes
<1>6. /\ Len(asked) = m /\ asked[m] = size /\ \A j \in 1 .. n : asked[j] = p.asked[j]
  BY <1>4 DEF More
<1>7. ASSUME NEW j \in 1 .. n
      PROVE  MetAt(q, pos2, idx2, j) /\ idx2[j - 1] = idx[j - 1] /\ q.asked[j] = p.asked[j]
  <2>1. j - 1 \in 0 .. n
    BY <1>4, Within
  <2>2. MetAt(p, pos, idx, j) /\ j \in 1 .. Len(p.got)
    BY <1>2, <1>4
  <2>3. pos2[j - 1] = pos[j - 1] /\ idx2[j - 1] = idx[j - 1]
    BY <1>3, <1>4, <2>1
  <2>4. q.got[j] = p.got[j] /\ q.asked[j] = p.asked[j]
    BY <1>5, <1>6
  <2> QED BY <1>5, <2>2, <2>3, <2>4, MetStill
<1>8. idx2[n] + 1 = index
  <2>1. n \in 0 .. n
    BY <1>4
  <2>2. idx2[n] = p.bigIndex
    BY <1>2, <1>3, <1>4, <2>1 DEF Runs
  <2> QED BY <2>2
<1>9. ~Settled(q) /\ q.asked[Len(q.asked)] = size
  <2>1. n # m
    BY <1>4
  <2> QED BY <1>4, <1>5, <1>6, <2>1 DEF Settled
<1>10. Trace(q, pos2, idx2)
  BY <1>3, <1>4, <1>5, <1>6, <1>7, <1>8 DEF Trace
<1>11. StillLinked(q, idx2)'
  <2>1. Live(q)' = Live(p)'
    BY <1>5 DEF Live
  <2> QED BY <1>1, <1>4, <1>5, <1>7, <2>1 DEF StillLinked
<1>12. Trace(q, pos2, idx2)'
  BY <1>10 DEF Trace, Runs, MetAt, Settled
<1> QED BY <1>9, <1>11, <1>12 DEF PoolView

\* And is.
LEMMA ViewGot ==
  ASSUME NEW p \in PoolSet, ~Settled(p), PoolView(p)', NEW q, NEW size \in Nat, NEW seg \in Nat,
         NEW g \in GotPieces, g = BigPiece(seg, size), NEW got, More(p.got, got, g),
         Becomes(p, q, p.asked, p.smallPos, p.bigIndex, got), p.asked[Len(p.asked)] = size,
         Live(p)' /\ seg # 0 => link'[BigName(p.name, p.bigIndex - 1)] = seg
  PROVE  PoolView(q)' /\ Settled(q)
<1>1. PICK pos \in Marks, idx \in Marks : Trace(p, pos, idx)' /\ StillLinked(p, idx)'
  BY DEF PoolView
<1>2. Trace(p, pos, idx)
  BY <1>1 DEF Trace, Runs, MetAt, Settled
<1>4. PICK n \in Nat, m \in Nat : n = Len(p.got) /\ m = n + 1
  BY PoolNumbers
<1>5. /\ q.asked = p.asked /\ q.got = got /\ q.segment = p.segment /\ q.name = p.name
      /\ q.bigIndex = p.bigIndex /\ q.smallSize = p.smallSize /\ q.smallPos = p.smallPos
  BY DEF Becomes
<1>6. /\ Len(p.asked) = m /\ p.asked[m] = size /\ size > BigSize /\ idx[n] + 1 = p.bigIndex
  BY <1>2, <1>4 DEF Trace
<1>7. /\ Len(got) = m /\ got[m] = g /\ \A j \in 1 .. n : got[j] = p.got[j]
  BY <1>4 DEF More
<1>8. idx[n] \in Nat /\ idx[n] < BigMax /\ m - 1 = n /\ p.bigIndex - 1 = idx[n]
  <2>1. PICK i \in Nat, b \in Nat : i = idx[n] /\ b = p.bigIndex
    BY MarksAre, PoolNumbers
  <2>2. i + 1 = b /\ b =< BigMax /\ BigMax \in Nat
    BY <1>6, <2>1, PoolNumbers, ShmpoolAssumption
  <2>3. i < BigMax /\ b - 1 = i
    BY <2>2
  <2>4. m - 1 = n
    BY <1>4
  <2> QED BY <2>1, <2>3, <2>4
<1>9. g.seg = seg /\ g.from = 0 /\ g.size = size
  BY DEF BigPiece
<1>10. Settled(q)
  BY <1>5, <1>6, <1>7 DEF Settled
<1>11. ASSUME NEW j \in 1 .. m PROVE MetAt(q, pos, idx, j)
  <2>1. CASE j = m
    BY <1>5, <1>6, <1>7, <1>8, <1>9, <2>1 DEF MetAt, MetBig
  <2>2. CASE j # m
    <3>1. j \in 1 .. n /\ j \in 1 .. Len(p.got)
      BY <1>4, <2>2, Below
    <3>2. MetAt(p, pos, idx, j)
      BY <1>2, <3>1 DEF Trace
    <3>3. q.got[j] = p.got[j] /\ q.asked[j] = p.asked[j]
      BY <1>5, <1>7, <3>1
    <3> QED BY <1>5, <3>1, <3>2, <3>3, MetStill
  <2> QED BY <2>1, <2>2
<1>12. Runs(q, pos, idx)
  BY <1>2, <1>5 DEF Trace, Runs
<1>13. Trace(q, pos, idx)
  BY <1>5, <1>7, <1>10, <1>11, <1>12 DEF Trace
<1>14. StillLinked(q, idx)'
  <2> SUFFICES ASSUME Live(q)', NEW j \in 1 .. m, got[j].seg # 0, p.asked[j] > BigSize
               PROVE  link'[BigName(p.name, idx[j - 1])] = got[j].seg
    BY <1>5, <1>7 DEF StillLinked
  <2>1. Live(p)'
    BY <1>5 DEF Live
  <2>2. CASE j = m
    BY <1>7, <1>8, <1>9, <2>1, <2>2
  <2>3. CASE j # m
    <3>1. j \in 1 .. n /\ j \in 1 .. Len(p.got)
      BY <1>4, <2>3, Below
    <3> QED BY <1>1, <1>7, <2>1, <3>1 DEF StillLinked
  <2> QED BY <2>2, <2>3
<1>15. Trace(q, pos, idx)'
  BY <1>13 DEF Trace, Runs, MetAt, Settled
<1> QED BY <1>10, <1>14, <1>15 DEF PoolView

\* Nothing was asked of it.
LEMMA EmptyView ==
  ASSUME NEW q, Len(q.asked) = 0, Len(q.got) = 0, q.smallPos = 0, q.bigIndex = 0
  PROVE  PoolView(q)' /\ Settled(q)
<1>1. PICK z : z = [i \in Nat |-> 0]
  OBVIOUS
<1>2. z \in Marks /\ z[0] = 0
  BY <1>1 DEF Marks
<1>3. Runs(q, z, z)
  BY <1>2 DEF Runs
<1>4. Trace(q, z, z)'
  BY <1>3 DEF Trace, Runs, Settled
<1>5. StillLinked(q, z)'
  BY DEF StillLinked
<1> QED BY <1>2, <1>4, <1>5 DEF PoolView, Settled

LEMMA SettledAfter ==
  ASSUME ShmTyped, ViewInv, NEW r \in Procs, NEW k, NEW q, Others(r, k, q),
         \A j : BusyOn(r, j) => j = k,
         k \in 1 .. Len(pools'[r]) => Settled(q) \/ BusyOn(r, k)'
  PROVE  AllSettled(r)'
<1>1. ASSUME NEW j \in 1 .. Len(pools'[r]) PROVE Settled(pools'[r][j]) \/ BusyOn(r, j)'
  <2>1. CASE j = k /\ pools'[r][j] = q
    BY <1>1, <2>1
  <2>2. CASE j # k /\ j \in 1 .. Len(pools[r]) /\ pools'[r][j] = pools[r][j]
    <3>1. Settled(pools[r][j]) \/ BusyOn(r, j)
      BY <2>2 DEF ViewInv, AllSettled
    <3> QED BY <2>2, <3>1
  <2> QED BY <2>1, <2>2 DEF Others
<1> QED BY <1>1 DEF AllSettled, Settled

LEMMA QuietView ==
  ASSUME NEW r \in Procs, busy'[r].at \notin {"stat", "resize"}
  PROVE  BusyView(r)'
BY DEF BusyView

LEMMA NewView ==
  ASSUME ShmTyped, ShmTyped', WholeInv, ViewInv, NEW r \in Procs, NEW n \in Names,
         NEW size \in SmallSizes, NewDone(r, n, size)
  PROVE  ViewInv'
<1>0. size \in Nat
  BY ShmpoolAssumption
<1>1. PICK k, q, name : k = Len(pools[r]) + 1 /\ q = NewPool(n, size) /\ name = SmallName(n)
  OBVIOUS
<1>2. PICK new \in BOOLEAN, seg \in Nat : Opening(r, "new", k, name, size, new, seg)
  BY <1>1 DEF NewDone
<1>3. /\ Added(r, q) /\ disturbed' = disturbed /\ \A s \in Procs : s # r => busy'[s] = busy[s]
      /\ busy'[r] = [call |-> "new", at |-> "stat", seg |-> seg, size |-> size, pool |-> k, index |-> 0]
  BY <1>1, <1>2 DEF NewDone, Opening
<1>4. Others(r, k, q)
  BY <1>1, <1>3, AddedOthers
<1>5. name \in AllNames
  BY <1>1, NamesAre
<1>6. \A p \in PoolSet : PoolWhole(p) => LinksGo(p)
  BY <1>0, <1>2, <1>3, <1>5, LinksOpened
<1>7. Len(q.asked) = 0 /\ Len(q.got) = 0 /\ q.smallPos = 0 /\ q.bigIndex = 0
  BY <1>1 DEF NewPool
<1>8. PoolView(q)' /\ Settled(q)
  BY <1>7, EmptyView
<1>9. BusyView(r)'
  <2>1. pools'[r][k] = q
    BY <1>1, <1>3 DEF Added
  <2>2. busy'[r].pool = k /\ busy'[r].call = "new"
    BY <1>3
  <2> QED BY <1>7, <2>1, <2>2 DEF BusyView
<1>10. \A j : ~BusyOn(r, j)
  <2>1. busy[r].at = "none"
    BY FreeIs DEF NewDone
  <2> QED BY <2>1 DEF BusyOn
<1>11. AllSettled(r)'
  BY <1>4, <1>8, <1>10, SettledAfter
<1> QED BY <1>4, <1>6, <1>8, <1>9, <1>11, ViewAfter

LEMMA RestView ==
  ASSUME ShmTyped, ShmTyped', WholeInv, ViewInv, NEW r \in Procs, Resting(r)
  PROVE  ViewInv'
<1>1. pools' = pools /\ link' = link /\ disturbed' = disturbed /\ \A s \in Procs : s # r => busy'[s] = busy[s]
  BY DEF Resting, Alike
<1>2. Others(r, 0, 0) /\ 0 \notin 1 .. Len(pools'[r])
  BY <1>1, SameOthers
<1>3. \A p \in PoolSet : PoolWhole(p) => LinksGo(p)
  BY <1>1, LinksSame
<1>4. /\ busy[r] \in BusySet /\ BusyView(r) /\ AllSettled(r)
  BY DEF ShmTyped, ViewInv
<1>5. BusyView(r)' /\ AllSettled(r)'
  <2>1. CASE busy'[r] = busy[r]
    BY <1>1, <1>4, <2>1 DEF BusyView, AllSettled, BusyOn, Settled, Live
  <2>2. CASE Free(r) /\ busy'[r] = [busy[r] EXCEPT !.call = "undefined"]
    <3>1. busy'[r].at = "none" /\ busy[r].at = "none"
      BY <1>4, <2>2, FreeIs DEF BusySet
    <3>2. AllSettled(r)'
      BY <1>1, <1>4, <3>1 DEF AllSettled, BusyOn, Settled
    <3> QED BY <3>1, <3>2, QuietView
  <2>3. CASE busy[r].at = "stat" /\ busy'[r] = [busy[r] EXCEPT !.at = "resize"]
    <3>1. /\ busy'[r].call = busy[r].call /\ busy'[r].seg = busy[r].seg /\ busy'[r].at = "resize"
          /\ busy'[r].pool = busy[r].pool /\ busy'[r].size = busy[r].size
      BY <1>4, <2>3 DEF BusySet
    <3>2. AllSettled(r)'
      BY <1>1, <1>4, <2>3, <3>1 DEF AllSettled, BusyOn, Settled
    <3>3. BusyView(r)'
      BY <1>1, <1>4, <2>3, <3>1 DEF BusyView, Settled, Live
    <3> QED BY <3>2, <3>3
  <2> QED BY <2>1, <2>2, <2>3 DEF Resting
<1> QED BY <1>2, <1>3, <1>5, ViewAfter

\* A step that leaves what the pools are made of.
LEMMA ListedView ==
  ASSUME ShmTyped, WholeInv, ViewInv, NEW r \in Procs, NEW k \in 1 .. Len(pools[r]), NEW q,
         q = [pools[r][k] EXCEPT !.listed = FALSE],
         \A p \in PoolSet : PoolWhole(p) => LinksGo(p)
  PROVE  PoolView(q)' /\ (Settled(pools[r][k]) => Settled(q))
<1>1. PICK p \in PoolSet : p = pools[r][k]
  BY PoolIs
<1>2. /\ q.smallPos = p.smallPos /\ q.smallSize = p.smallSize /\ q.segment = p.segment /\ q.got = p.got
      /\ q.asked = p.asked /\ q.name = p.name /\ q.bigIndex = p.bigIndex
  BY <1>1 DEF PoolSet
<1>3. PoolWhole(p) /\ PoolView(p)
  BY <1>1 DEF WholeInv, ViewInv
<1>4. PoolView(p)'
  BY <1>3, ViewStays
<1>5. PoolView(q)'
  <2>1. PICK pos \in Marks, idx \in Marks : Trace(p, pos, idx)' /\ StillLinked(p, idx)'
    BY <1>4 DEF PoolView
  <2>2. Trace(q, pos, idx)'
    <3>1. Runs(p, pos, idx) /\ \A j \in 1 .. Len(p.got) : MetAt(p, pos, idx, j)
      BY <2>1 DEF Trace, Runs, MetAt
    <3>2. /\ Runs(q, pos, idx) /\ Settled(q) = Settled(p)
      BY <1>2, <3>1 DEF Runs, Settled
    <3>3. \A j \in 1 .. Len(q.got) : MetAt(q, pos, idx, j)
      BY <1>2, <3>1, MetStill
    <3>4. ~Settled(p) => /\ Len(p.asked) = Len(p.got) + 1 /\ p.asked[Len(p.asked)] > BigSize
                         /\ idx[Len(p.got)] + 1 = p.bigIndex
      BY <2>1 DEF Trace, Settled
    <3>5. Trace(q, pos, idx)
      BY <1>2, <3>2, <3>3, <3>4 DEF Trace
    <3> QED BY <3>5 DEF Trace, Runs, MetAt, Settled
  <2>3. Live(q)' = Live(p)'
    BY <1>2 DEF Live
  <2>4. StillLinked(q, idx)'
    BY <1>2, <2>1, <2>3 DEF StillLinked
  <2> QED BY <2>2, <2>4 DEF PoolView
<1> QED BY <1>1, <1>2, <1>4, <1>5 DEF Settled

LEMMA UnlinkView ==
  ASSUME ShmTyped, ShmTyped', WholeInv, ViewInv, NEW r \in Procs, NEW k \in Nat,
         UnlinkBegun(r, k) \/ FreedListed(r, k)
  PROVE  ViewInv'
<1>1. /\ \A s \in Procs : s # r => busy'[s] = busy[s]
      /\ k \in 1 .. Len(pools[r]) /\ busy[r].at = "none" /\ busy[r] \in BusySet
  BY DEF UnlinkBegun, FreedListed, Alike, ShmTyped
<1>2. \A p \in PoolSet : PoolWhole(p) => LinksGo(p)
  <2>1. CASE UnlinkBegun(r, k)
    BY <2>1, LinksUnlinked
  <2>2. CASE FreedListed(r, k)
    BY <2>2, LinksSame DEF FreedListed, Alike
  <2> QED BY <2>1, <2>2
<1>3. busy'[r].at \in {"none", "unlink"}
  BY <1>1, SMTT(30) DEF UnlinkBegun, FreedListed, Unlinking, BusySet
<1>4. BusyView(r)' /\ \A j : ~BusyOn(r, j)
  BY <1>1, <1>3, QuietView DEF BusyOn
<1>5. CASE pools' = pools
  <2>1. Others(r, 0, 0) /\ 0 \notin 1 .. Len(pools'[r])
    BY <1>1, <1>5, SameOthers
  <2>2. AllSettled(r)'
    BY <1>4, <2>1, SettledAfter
  <2> QED BY <1>2, <1>4, <2>1, <2>2, ViewAfter
<1>6. CASE Kept(pools', r, k, [pools[r][k] EXCEPT !.listed = FALSE])
  <2>1. PICK q : q = [pools[r][k] EXCEPT !.listed = FALSE]
    OBVIOUS
  <2>2. Others(r, k, q)
    BY <1>1, <1>6, <2>1, KeptOthers
  <2>3. PoolView(q)' /\ (Settled(pools[r][k]) => Settled(q))
    BY <1>1, <1>2, <2>1, ListedView
  <2>4. Settled(pools[r][k])
    BY <1>1, <1>4 DEF ViewInv, AllSettled
  <2>5. AllSettled(r)'
    BY <1>4, <2>2, <2>3, <2>4, SettledAfter
  <2> QED BY <1>2, <1>4, <2>2, <2>3, <2>5, ViewAfter
<1> QED BY <1>5, <1>6 DEF UnlinkBegun, FreedListed

LEMMA BigUnlinkedView ==
  ASSUME ShmTyped, ShmTyped', WholeInv, ViewInv, NEW r \in Procs, BigUnlinked(r)
  PROVE  ViewInv'
<1>1. PICK d \in BusySet : d = busy[r]
  BY DEF ShmTyped
<1>2. PICK b : b = [d EXCEPT !.index = @ + 1]
  OBVIOUS
<1>3. /\ pools' = pools /\ busy'[r] = b /\ d.at = "unlink"
      /\ \A s \in Procs : s # r => busy'[s] = busy[s]
  BY <1>1, <1>2 DEF BigUnlinked
<1>4. b.at = "unlink"
  BY <1>2, <1>3, IndexOn
<1>5. Others(r, 0, 0) /\ 0 \notin 1 .. Len(pools'[r])
  BY <1>3, SameOthers
<1>6. BusyView(r)' /\ \A j : ~BusyOn(r, j)
  BY <1>1, <1>3, <1>4, QuietView DEF BusyOn
<1>7. AllSettled(r)'
  BY <1>5, <1>6, SettledAfter
<1>8. \A p \in PoolSet : PoolWhole(p) => LinksGo(p)
  BY LinksBigUnlinked
<1> QED BY <1>5, <1>6, <1>7, <1>8, ViewAfter

LEMMA FreedView ==
  ASSUME ShmTyped, ShmTyped', WholeInv, ViewInv, NEW r \in Procs, PoolFreed(r)
  PROVE  ViewInv'
<1>1. PICK k : k = busy[r].pool
  OBVIOUS
<1>2. k \in 1 .. Len(pools[r]) /\ busy[r].at = "unlink"
  BY <1>1 DEF PoolFreed, ShmTyped, BusyTyped
<1>3. PICK p \in PoolSet : p = pools[r][k]
  BY <1>2, PoolIs
<1>4. PICK q : q = Gone(p)
  OBVIOUS
<1>5. /\ Kept(pools', r, k, q) /\ link' = link /\ disturbed' = disturbed
      /\ busy'[r].at = "none" /\ \A s \in Procs : s # r => busy'[s] = busy[s]
  BY <1>1, <1>3, <1>4 DEF PoolFreed, Alike
<1>6. Len(q.asked) = 0 /\ Len(q.got) = 0 /\ q.smallPos = 0 /\ q.bigIndex = 0
  BY <1>3, <1>4 DEF Gone, PoolSet
<1>7. PoolView(q)' /\ Settled(q)
  BY <1>6, EmptyView
<1>8. Others(r, k, q)
  BY <1>5, KeptOthers
<1>9. \A x \in PoolSet : PoolWhole(x) => LinksGo(x)
  BY <1>5, LinksSame
<1>10. BusyView(r)' /\ \A j : ~BusyOn(r, j)
  BY <1>2, <1>5, QuietView DEF BusyOn
<1>11. AllSettled(r)'
  BY <1>7, <1>8, <1>10, SettledAfter
<1> QED BY <1>7, <1>8, <1>9, <1>10, <1>11, ViewAfter

LEMMA OpenedView ==
  ASSUME ShmTyped, ShmTyped', WholeInv, ViewInv, NEW r \in Procs, NEW seg \in Nat, OpenedDone(r, seg)
  PROVE  ViewInv'
<1>1. PICK k, size, i : k = busy[r].pool /\ size = busy[r].size /\ i = busy[r].seg
  OBVIOUS
<1>2. /\ k \in 1 .. Len(pools[r]) /\ busy[r].call \in {"new", "big"} /\ size \in Nat
      /\ busy[r].at \in {"stat", "resize"}
  BY <1>1 DEF OpenedDone, ShmTyped, BusyTyped, BusySet
<1>3. /\ link' = link /\ disturbed' = disturbed /\ (seg = 0 \/ seg = i)
      /\ busy'[r].at = "none" /\ \A s \in Procs : s # r => busy'[s] = busy[s]
  BY <1>1 DEF OpenedDone, Idle
<1>4. PICK p \in PoolSet : p = pools[r][k]
  BY <1>2, PoolIs
<1>5. PoolWhole(p) /\ PoolView(p) /\ BusyView(r)
  BY <1>2, <1>4 DEF WholeInv, ViewInv
<1>6. \A x \in PoolSet : PoolWhole(x) => LinksGo(x)
  BY <1>3, LinksSame
<1>7. PoolView(p)'
  BY <1>5, <1>6, ViewStays
<1>8. BusyView(r)' /\ \A j : BusyOn(r, j) => j = k
  BY <1>1, <1>3, QuietView DEF BusyOn
<1>9. CASE busy[r].call = "new"
  <2>1. PICK q : q = Mapped(p, seg)
    OBVIOUS
  <2>2. Kept(pools', r, k, q)
    BY <1>1, <1>4, <1>9, <2>1 DEF OpenedDone
  <2>3. /\ q.smallPos = p.smallPos /\ q.bigIndex = p.bigIndex /\ q.asked = p.asked /\ q.got = p.got
    BY <1>4, <2>1 DEF Mapped, PoolSet
  <2>4. Len(p.asked) = 0 /\ Len(p.got) = 0
    BY <1>1, <1>2, <1>4, <1>5, <1>9 DEF BusyView
  <2>5. p.smallPos = 0 /\ p.bigIndex = 0
    BY <1>5, <2>4 DEF PoolView, Trace, Runs
  <2>6. PoolView(q)' /\ Settled(q)
    BY <2>3, <2>4, <2>5, EmptyView
  <2>7. Others(r, k, q)
    BY <1>3, <2>2, KeptOthers
  <2>8. AllSettled(r)'
    BY <1>8, <2>6, <2>7, SettledAfter
  <2> QED BY <1>6, <1>8, <2>6, <2>7, <2>8, ViewAfter
<1>10. CASE busy[r].call = "big"
  <2>1. PICK q, g, got : q = GotBig(p, seg, size) /\ g = BigPiece(seg, size) /\ got = Append(p.got, g)
    OBVIOUS
  <2>2. Kept(pools', r, k, q)
    BY <1>1, <1>4, <1>10, <2>1 DEF OpenedDone
  <2>3. Becomes(p, q, p.asked, p.smallPos, p.bigIndex, got) /\ g \in GotPieces
    BY <1>2, <2>1, PoolsBecome
  <2>4. More(p.got, got, g)
    <3>1. p.got \in Seq(GotPieces)
      BY DEF PoolSet
    <3> QED BY <2>1, <2>3, <3>1, AppendIsMore
  <2>5. ~Settled(p) /\ p.asked[Len(p.asked)] = size
    BY <1>1, <1>2, <1>4, <1>5, <1>10 DEF BusyView
  <2>6. Live(p)' /\ seg # 0 => link'[BigName(p.name, p.bigIndex - 1)] = seg
    BY <1>1, <1>2, <1>3, <1>4, <1>5, <1>10 DEF BusyView, Live
  <2>7. PoolView(q)' /\ Settled(q)
    BY <1>2, <1>7, <2>1, <2>3, <2>4, <2>5, <2>6, ViewGot
  <2>8. Others(r, k, q)
    BY <1>3, <2>2, KeptOthers
  <2>9. AllSettled(r)'
    BY <1>8, <2>7, <2>8, SettledAfter
  <2> QED BY <1>6, <1>8, <2>7, <2>8, <2>9, ViewAfter
<1> QED BY <1>2, <1>9, <1>10

LEMMA AllocView ==
  ASSUME ShmTyped, ShmTyped', WholeInv, ViewInv, NEW r \in Procs, NEW k \in Nat, NEW size \in Nat,
         AllocDone(r, k, size)
  PROVE  ViewInv'
<1>1. k \in 1 .. Len(pools[r]) /\ Free(r) /\ busy[r].at = "none"
  BY FreeIs DEF AllocDone
<1>2. PICK p \in PoolSet : p = pools[r][k]
  BY <1>1, PoolIs
<1>3. /\ p.smallPos \in Nat /\ p.smallSize \in Nat /\ p.got \in Seq(GotPieces) /\ p.asked \in Seq(Nat)
      /\ p.bigIndex \in Nat /\ p.name \in Names /\ PoolWhole(p) /\ PoolView(p)
  BY <1>1, <1>2, PoolIs DEF WholeInv, ViewInv
<1>4. \A j : ~BusyOn(r, j)
  BY <1>1 DEF BusyOn
<1>5. Settled(p)
  BY <1>1, <1>2, <1>4 DEF ViewInv, AllSettled
<1>6. PICK asked : asked = Append(p.asked, size)
  OBVIOUS
<1>7. More(p.asked, asked, size)
  BY <1>3, <1>6, AppendIsMore
<1>8. CASE size =< BigSize /\ Kept(pools', r, k, SmallGiven(p, size)) /\ busy' = busy /\ Alike
  <2>1. \A x \in PoolSet : PoolWhole(x) => LinksGo(x)
    BY <1>8, LinksSame DEF Alike
  <2>2. PICK q, g, pos, got :
          /\ q = SmallGiven(p, size) /\ g = SmallPiece(p, size)
          /\ pos = IF SmallFits(p, size) THEN p.smallPos + size ELSE p.smallPos
          /\ got = Append(p.got, g)
    OBVIOUS
  <2>3. Becomes(p, q, asked, pos, p.bigIndex, got) /\ g \in GotPieces
    BY <1>6, <2>2, PoolsBecome
  <2>4. Others(r, k, q)
    BY <1>8, <2>2, KeptOthers
  <2>5. More(p.got, got, g)
    BY <1>3, <2>2, <2>3, AppendIsMore
  <2>6. ~(size > BigSize)
    BY <1>8, ShmpoolAssumption
  <2>7. pos = NextPos(p.smallSize, p.smallPos, size) /\ p.bigIndex = NextIdx(p.bigIndex, size)
    BY <2>2, <2>6 DEF NextPos, NextIdx, SmallFits
  <2>8. g.size = size /\ MetSmall(g, p.segment, p.smallSize, p.smallPos)
    BY <2>2 DEF SmallPiece, SmallFits, MetSmall
  <2>9. PoolView(p)'
    BY <1>3, <2>1, ViewStays
  <2>10. PICK index : index = p.bigIndex
    OBVIOUS
  <2>11. PoolView(q)' /\ Settled(q)
    BY <1>5, <1>7, <2>3, <2>5, <2>6, <2>7, <2>8, <2>9, <2>10, ViewMet
  <2>12. AllSettled(r)'
    BY <1>4, <2>4, <2>11, SettledAfter
  <2>13. BusyView(r)'
    BY <1>1, <1>8, QuietView
  <2> QED BY <2>1, <2>4, <2>11, <2>12, <2>13, ViewAfter
<1>9. CASE /\ ~(size =< BigSize) /\ p.bigIndex >= BigMax
           /\ Kept(pools', r, k, Refused(p, size)) /\ busy' = busy /\ Alike
  <2>1. \A x \in PoolSet : PoolWhole(x) => LinksGo(x)
    BY <1>9, LinksSame DEF Alike
  <2>2. PICK q, g, got :
          q = Refused(p, size) /\ g = NoPiece(size) /\ got = Append(p.got, g)
    OBVIOUS
  <2>3. Becomes(p, q, asked, p.smallPos, p.bigIndex, got) /\ g \in GotPieces
    BY <1>6, <2>2, PoolsBecome
  <2>4. Others(r, k, q)
    BY <1>9, <2>2, KeptOthers
  <2>5. More(p.got, got, g)
    BY <1>3, <2>2, <2>3, AppendIsMore
  <2>6. size > BigSize /\ ~(p.bigIndex < BigMax)
    BY <1>3, <1>9, ShmpoolAssumption
  <2>7. p.smallPos = NextPos(p.smallSize, p.smallPos, size) /\ p.bigIndex = NextIdx(p.bigIndex, size)
    BY <2>6 DEF NextPos, NextIdx
  <2>8. g.size = size /\ g.seg = 0 /\ g.from = 0
    BY <2>2 DEF NoPiece
  <2>9. PoolView(p)'
    BY <1>3, <2>1, ViewStays
  <2>10. PICK pos, index : pos = p.smallPos /\ index = p.bigIndex
    OBVIOUS
  <2>11. PoolView(q)' /\ Settled(q)
    BY <1>5, <1>7, <2>3, <2>5, <2>6, <2>7, <2>8, <2>9, <2>10, ViewMet
  <2>12. AllSettled(r)'
    BY <1>4, <2>4, <2>11, SettledAfter
  <2>13. BusyView(r)'
    BY <1>1, <1>9, QuietView
  <2> QED BY <2>1, <2>4, <2>11, <2>12, <2>13, ViewAfter
<1>10. CASE /\ ~(size =< BigSize) /\ p.bigIndex < BigMax
            /\ Kept(pools', r, k, BigBegun(p, size)) /\ disturbed' = disturbed
            /\ \E new \in BOOLEAN, seg \in Nat :
                 Opening(r, "big", k, BigName(p.name, p.bigIndex), size, new, seg)
  <2>1. PICK name : name = BigName(p.name, p.bigIndex)
    OBVIOUS
  <2>2. PICK new \in BOOLEAN, seg \in Nat : Opening(r, "big", k, name, size, new, seg)
    BY <1>10, <2>1
  <2>3. name \in AllNames
    <3>1. PICK i \in Nat : i = p.bigIndex /\ i < BigMax
      BY <1>3, <1>10
    <3>2. i \in 0 .. BigMax - 1
      BY <3>1, ShmpoolAssumption
    <3> QED BY <1>3, <2>1, <3>1, <3>2, NamesAre
  <2>4. \A x \in PoolSet : PoolWhole(x) => LinksGo(x)
    BY <1>10, <2>2, <2>3, LinksOpened
  <2>5. PICK q, index : q = BigBegun(p, size) /\ index = p.bigIndex + 1
    OBVIOUS
  <2>6. Becomes(p, q, asked, p.smallPos, index, p.got)
    BY <1>6, <2>5, PoolsBecome
  <2>7. /\ busy'[r] = [call |-> "big", at |-> "stat", seg |-> seg, size |-> size, pool |-> k, index |-> 0]
        /\ link'[name] = seg /\ \A s \in Procs : s # r => busy'[s] = busy[s]
    BY <2>2 DEF Opening
  <2>8. Others(r, k, q)
    BY <1>10, <2>5, <2>7, KeptOthers
  <2>9. PoolView(p)'
    BY <1>3, <2>4, ViewStays
  <2>10. size > BigSize
    BY <1>10, ShmpoolAssumption
  <2>11. PoolView(q)' /\ ~Settled(q) /\ q.asked[Len(q.asked)] = size
    BY <1>5, <1>7, <1>10, <2>5, <2>6, <2>9, <2>10, ViewBegun
  <2>12. BusyOn(r, k)'
    BY <2>7 DEF BusyOn
  <2>13. AllSettled(r)'
    BY <1>4, <2>8, <2>12, SettledAfter
  <2>14. BusyView(r)'
    <3>1. q.bigIndex = index /\ q.name = p.name
      BY <2>6 DEF Becomes
    <3>2. index # 0 /\ index - 1 = p.bigIndex
      BY <1>3, <2>5
    <3>3. pools'[r][k] = q
      BY <1>10, <2>5 DEF Kept
    <3>4. busy'[r].pool = k /\ busy'[r].call = "big" /\ busy'[r].seg = seg /\ busy'[r].size = size
      BY <2>7
    <3>5. link'[BigName(q.name, q.bigIndex - 1)] = seg
      BY <2>1, <2>7, <3>1, <3>2
    <3>6. q.bigIndex # 0
      BY <3>1, <3>2
    <3> QED BY <2>11, <3>3, <3>4, <3>5, <3>6 DEF BusyView, Settled
  <2> QED BY <2>4, <2>8, <2>11, <2>13, <2>14, ViewAfter
<1> QED BY <1>2, <1>8, <1>9, <1>10 DEF AllocDone

LEMMA ViewStep ==
  ASSUME ShmTyped, ShmTyped', WholeInv, ViewInv, NEW r \in Procs, Done(r)
  PROVE  ViewInv'
BY NewView, AllocView, RestView, OpenedView, UnlinkView, BigUnlinkedView, FreedView DEF Done

AskedAlike(p, q, n) ==
  /\ p.smallSize = q.smallSize
  /\ n \in Nat /\ Len(p.asked) \in Nat /\ Len(q.asked) \in Nat
  /\ n =< Len(p.asked) /\ n =< Len(q.asked)
  /\ \A j \in 1 .. n : p.asked[j] = q.asked[j]

\* Where the same was asked of pools made alike, it is met at the same places.
LEMMA SamePlaces ==
  ASSUME NEW p, NEW q, NEW pos, NEW idx, NEW pos2, NEW idx2, NEW n,
         Runs(p, pos, idx), Runs(q, pos2, idx2), AskedAlike(p, q, n)
  PROVE  \A j \in 0 .. n : pos[j] = pos2[j] /\ idx[j] = idx2[j]
<1>0. /\ p.smallSize = q.smallSize /\ n \in Nat /\ Len(p.asked) \in Nat /\ Len(q.asked) \in Nat
      /\ n =< Len(p.asked) /\ n =< Len(q.asked) /\ \A j \in 1 .. n : p.asked[j] = q.asked[j]
  BY DEF AskedAlike
<1>1. PICK S : S = {j \in 0 .. n : ~(pos[j] = pos2[j] /\ idx[j] = idx2[j])}
  OBVIOUS
<1>2. SUFFICES ASSUME S # {} PROVE FALSE
  BY <1>1
<1>3. S \subseteq Nat
  BY <1>0, <1>1
<1>4. PICK j \in S : \A i \in S : j =< i
  BY <1>2, <1>3, LeastOf
<1>5. j \in 0 .. n /\ ~(pos[j] = pos2[j] /\ idx[j] = idx2[j])
  BY <1>1, <1>4
<1>6. j # 0
  BY <1>5 DEF Runs
<1>7. PICK i \in 0 .. n : i = j - 1 /\ i < j
  BY <1>0, <1>5, <1>6
<1>8. i \notin S
  BY <1>3, <1>4, <1>7
<1>9. pos[i] = pos2[i] /\ idx[i] = idx2[i]
  BY <1>1, <1>7, <1>8
<1>10. j \in 1 .. Len(p.asked) /\ j \in 1 .. Len(q.asked) /\ j \in 1 .. n
  BY <1>0, <1>5, <1>6
<1>11. /\ pos[j] = NextPos(p.smallSize, pos[i], p.asked[j]) /\ idx[j] = NextIdx(idx[i], p.asked[j])
       /\ pos2[j] = NextPos(q.smallSize, pos2[i], q.asked[j]) /\ idx2[j] = NextIdx(idx2[i], q.asked[j])
  BY <1>7, <1>10 DEF Runs
<1>12. p.asked[j] = q.asked[j]
  BY <1>0, <1>10
<1> QED BY <1>0, <1>5, <1>9, <1>11, <1>12

LEMMA SameBeginning ==
  ASSUME NEW s \in Seq(Nat), NEW t \in Seq(Nat), NEW k \in Nat, k =< Len(s), k =< Len(t),
         SubSeq(s, 1, k) = SubSeq(t, 1, k)
  PROVE  \A j \in 1 .. k : s[j] = t[j]
<1> SUFFICES ASSUME NEW j \in 1 .. k PROVE s[j] = t[j]
  OBVIOUS
<1>1. SubSeq(s, 1, k)[j] = s[j] /\ SubSeq(t, 1, k)[j] = t[j]
  OBVIOUS
<1> QED BY <1>1

LEMMA ViewIs ==
  ASSUME ShmTyped, ViewInv
  PROVE  SameView
<1> SUFFICES ASSUME NEW p \in AllPools, NEW q \in AllPools, MadeAlike(p, q), NEW k \in 1 .. Len(p.got),
                    k =< Len(q.got), SubSeq(p.asked, 1, k) = SubSeq(q.asked, 1, k)
             PROVE  \/ p.got[k] = q.got[k]
                    \/ p.asked[k] > BigSize /\ (0 \in {p.got[k].seg, q.got[k].seg} \/ ~NamesKept(p))
  BY DEF SameView
<1>1. p \in PoolSet /\ PoolView(p) /\ q \in PoolSet /\ PoolView(q)
  <2>1. ASSUME NEW x \in AllPools PROVE x \in PoolSet /\ PoolView(x)
    <3>1. PICK r \in Procs : \E j \in 1 .. Len(pools[r]) : x = pools[r][j]
      BY DEF AllPools, Pool
    <3>2. PICK j \in 1 .. Len(pools[r]) : x = pools[r][j]
      BY <3>1
    <3>3. x \in PoolSet
      BY <3>2, PoolIs
    <3> QED BY <3>2, <3>3 DEF ViewInv
  <2> QED BY <2>1
<1>2. /\ p.segment = q.segment /\ p.name = q.name /\ p.smallSize = q.smallSize
      /\ NamesKept(p) => Live(p) /\ Live(q)
  BY DEF MadeAlike, NamesKept, Live
<1>3. PICK pos \in Marks, idx \in Marks : Trace(p, pos, idx) /\ StillLinked(p, idx)
  BY <1>1 DEF PoolView
<1>4. PICK pos2 \in Marks, idx2 \in Marks : Trace(q, pos2, idx2) /\ StillLinked(q, idx2)
  BY <1>1 DEF PoolView
<1>5. /\ Len(p.asked) \in Nat /\ Len(p.got) \in Nat /\ Len(q.asked) \in Nat /\ Len(q.got) \in Nat
      /\ p.asked \in Seq(Nat) /\ q.asked \in Seq(Nat) /\ p.got \in Seq(GotPieces) /\ q.got \in Seq(GotPieces)
  BY <1>1 DEF PoolSet
<1>6. Len(p.got) =< Len(p.asked) /\ Len(q.got) =< Len(q.asked)
  <2>1. /\ Len(p.asked) = Len(p.got) \/ Len(p.asked) = Len(p.got) + 1
        /\ Len(q.asked) = Len(q.got) \/ Len(q.asked) = Len(q.got) + 1
    BY <1>3, <1>4 DEF Trace, Settled
  <2> QED BY <1>5, <2>1
<1>7. k \in Nat /\ k =< Len(p.asked) /\ k =< Len(q.asked) /\ k \in 1 .. Len(q.got) /\ k \in 1 .. k
      /\ k - 1 \in 0 .. k
  BY <1>5, <1>6, SMTT(30)
<1>8. \A j \in 1 .. k : p.asked[j] = q.asked[j]
  BY <1>5, <1>7, SameBeginning
<1>9. Runs(p, pos, idx) /\ Runs(q, pos2, idx2)
  BY <1>3, <1>4 DEF Trace
<1>10. \A j \in 0 .. k : pos[j] = pos2[j] /\ idx[j] = idx2[j]
  <2>1. AskedAlike(p, q, k)
    BY <1>2, <1>5, <1>7, <1>8 DEF AskedAlike
  <2> QED BY <1>9, <2>1, SamePlaces
<1>11. pos[k - 1] = pos2[k - 1] /\ idx[k - 1] = idx2[k - 1] /\ p.asked[k] = q.asked[k]
  BY <1>7, <1>8, <1>10
<1>12. MetAt(p, pos, idx, k) /\ MetAt(q, pos2, idx2, k)
  BY <1>3, <1>4, <1>7 DEF Trace
<1>13. PICK g \in GotPieces, h \in GotPieces : g = p.got[k] /\ h = q.got[k]
  <2>1. p.got[k] \in GotPieces
    BY <1>5
  <2>2. q.got[k] \in GotPieces
    BY <1>5, <1>7
  <2> QED BY <2>1, <2>2
<1>14. g.size = h.size /\ g.size = p.asked[k]
  BY <1>11, <1>12, <1>13 DEF MetAt
<1>15. CASE p.asked[k] > BigSize
  <2> SUFFICES ASSUME g.seg # 0, h.seg # 0, NamesKept(p) PROVE g = h
    BY <1>13, <1>15
  <2>1. g.from = 0 /\ h.from = 0
    BY <1>11, <1>12, <1>13, <1>15 DEF MetAt, MetBig
  <2>2. g.seg = link[BigName(p.name, idx[k - 1])] /\ h.seg = link[BigName(q.name, idx2[k - 1])]
    BY <1>2, <1>3, <1>4, <1>7, <1>11, <1>13, <1>15 DEF StillLinked
  <2>3. g.seg = h.seg /\ g.from = h.from /\ g.size = h.size
    BY <1>2, <1>11, <1>14, <2>1, <2>2
  <2> QED BY <2>3 DEF GotPieces
<1>16. CASE ~(p.asked[k] > BigSize)
  <2>1. MetSmall(g, p.segment, p.smallSize, pos[k - 1]) /\ MetSmall(h, q.segment, q.smallSize, pos2[k - 1])
    BY <1>11, <1>12, <1>13, <1>16 DEF MetAt
  <2>2. g.seg = h.seg /\ g.from = h.from /\ g.size = h.size
    BY <1>2, <1>11, <1>14, <2>1 DEF MetSmall
  <2>3. g = h
    BY <2>2 DEF GotPieces
  <2> QED BY <1>13, <2>3
<1> QED BY <1>15, <1>16

-----------------------------------------------------------------------------
(* The theorems.                                                           *)

ShmGood == ShmTyped /\ WholeInv /\ ApartInv /\ PermInv /\ ViewInv

LEMMA GoodInitially == ShmInit => ShmGood
<1> SUFFICES ASSUME ShmInit PROVE ShmGood
  OBVIOUS
<1>1. /\ link = [m \in AllNames |-> 0] /\ length = <<>> /\ truncated = <<>>
      /\ pools = [r \in Procs |-> <<>>] /\ busy = [r \in Procs |-> Idle]
      /\ permanent = [r \in Procs |-> [map |-> 0, from |-> 0, left |-> 0, pieces |-> <<>>]]
  BY DEF ShmInit
<1>2. ShmTyped
  BY InitTyped
<1>3. /\ \A r \in Procs : pools[r] = <<>> /\ busy[r].at = "none"
      /\ \A r \in Procs : \A k \in 1 .. Len(pools[r]) : FALSE
      /\ \A i \in 1 .. Len(length) : FALSE
  BY <1>1 DEF Idle
<1>4. WholeInv
  BY <1>3 DEF WholeInv, LengthsGiven, BusyWhole
<1>5. ApartInv
  <2>1. PICK own : own = [i \in Nat |-> <<>>]
    OBVIOUS
  <2>2. own \in Owners
    BY <2>1 DEF Owners
  <2>3. OwnsNames(own)
    BY <1>1 DEF OwnsNames
  <2>4. \A r \in Procs : BusyApart(own, r)
    BY <1>3 DEF BusyApart
  <2> QED BY <1>3, <2>2, <2>3, <2>4 DEF ApartInv, Apartness
<1>6. PermInv
  <2>1. PICK p : p = [map |-> 0, from |-> 0, left |-> 0, pieces |-> <<>>]
    OBVIOUS
  <2>2. p \in PermSet /\ p.left = 0 /\ Len(p.pieces) = 0
    BY <2>1 DEF PermSet
  <2>3. PermGood(p)
    BY <2>2 DEF PermGood, Apart
  <2>4. permanent = [r \in Procs |-> p]
    BY <1>1, <2>1
  <2> QED BY <2>2, <2>3, <2>4 DEF PermInv
<1>7. ViewInv
  BY <1>3 DEF ViewInv, BusyView, AllSettled
<1> QED BY <1>2, <1>4, <1>5, <1>6, <1>7 DEF ShmGood

LEMMA GoodStep == ShmGood /\ [ShmNext]_shmVars => ShmGood'
<1> SUFFICES ASSUME ShmGood, [ShmNext]_shmVars PROVE ShmGood'
  OBVIOUS
<1>1. ShmTyped /\ WholeInv /\ ApartInv /\ PermInv /\ ViewInv
  BY DEF ShmGood
<1>2. PermInv'
  BY <1>1, PermStep
<1>3. CASE ShmNext
  <2>1. PICK r \in Procs : ShmTyped' /\ Done(r)
    BY <1>1, <1>3, StepIsDone
  <2>2. WholeInv'
    BY <1>1, <2>1, WholeStep
  <2>3. ApartInv'
    BY <1>1, <2>1, ApartStep
  <2>4. ViewInv'
    BY <1>1, <2>1, ViewStep
  <2> QED BY <1>2, <2>1, <2>2, <2>3, <2>4 DEF ShmGood
<1>4. CASE UNCHANGED shmVars
  <2>1. UNCHANGED <<link, length, pools, current, busy, truncated, disturbed>>
    BY <1>4 DEF shmVars
  <2>2. ShmTyped'
    <3>1. \A s \in Procs : BusyTyped(s)' = BusyTyped(s)
      BY <2>1 DEF BusyTyped, Listed, Pool
    <3> QED BY <1>1, <2>1, <3>1 DEF ShmTyped
  <2>3. CASE Procs = {}
    <3>1. WholeInv'
      BY <1>1, <2>1, <2>3 DEF WholeInv, LengthsGiven
    <3>2. ApartInv'
      BY <1>1, <2>1, <2>3 DEF ApartInv, Apartness, OwnsNames
    <3>3. ViewInv'
      BY <2>3 DEF ViewInv
    <3> QED BY <1>2, <2>2, <3>1, <3>2, <3>3 DEF ShmGood
  <2>4. CASE Procs # {}
    <3>1. PICK r \in Procs : TRUE
      BY <2>4
    <3>2. busy \in [Procs -> BusySet]
      BY <1>1 DEF ShmTyped
    <3>3. Resting(r)
      BY <2>1, <3>2 DEF Resting, Alike
    <3>4. WholeInv'
      BY <1>1, <2>2, <3>3, RestWhole
    <3>5. ApartInv'
      <4>1. Done(r)
        BY <3>3 DEF Done
      <4> QED BY <1>1, <2>2, <4>1, ApartStep
    <3>6. ViewInv'
      BY <1>1, <2>2, <3>3, RestView
    <3> QED BY <1>2, <2>2, <3>4, <3>5, <3>6 DEF ShmGood
  <2> QED BY <2>3, <2>4
<1> QED BY <1>3, <1>4

LEMMA GoodIs == ShmGood => SameView /\ Whole /\ PiecesApart
BY ViewIs, WholeIs, PiecesAre DEF ShmGood

\* Pools made alike in one segment give the same small pieces to the same requests,
\* and the same big ones as long as no pool of the name has been destroyed since and
\* neither has failed to map one.  A piece in a segment is there to its last byte,
\* unless ftruncate() gave the segment two lengths; where a piece has no segment it
\* says nothing.  No two pieces of a pool in a segment, or of the permanent memory of
\* a process, share a byte.  For any number of processes, names and sizes, in whatever
\* order their system calls happen, and whichever of them fail.
THEOREM MemoryTheorem == ShmSpec => [](SameView /\ Whole /\ PiecesApart)
BY GoodInitially, GoodStep, GoodIs, PTL DEF ShmSpec

\* The two theorems in the words of the run, whose other parts are the same
\* specification with other constants.
THEOREM NamesGoAlways == ShmSpec /\ [](part = "shmpool") => []NamesGo
<1>1. NamesOwned /\ part = "shmpool" => NamesGo
  BY DEF NamesGo
<1> QED BY <1>1, NamesTheorem, PTL

\* Likewise what the run checks of the memory.
THEOREM MemorySharedAlways == ShmSpec /\ [](part = "shmpool") => []MemoryShared
<1>1. SameView /\ Whole /\ PiecesApart /\ part = "shmpool" => MemoryShared
  BY DEF MemoryShared
<1> QED BY <1>1, MemoryTheorem, PTL
=============================================================================
