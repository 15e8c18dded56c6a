----------------------------- MODULE HttpRange ------------------------------
(***************************************************************************)
(* wuy_http_range_parse() of wuy_http.c.  A range that a client asks for   *)
(* is its numbers, NoNumber for one left out, or Garbled; how they are put *)
(* into digits, commas and spaces is left out.                             *)
(***************************************************************************)
EXTENDS Integers, SequencesExt, FiniteSets

CONSTANTS
  Totals,     \* sizes of what ranges are asked of
  Positions,  \* numbers in ranges
  Rooms,      \* how many ranges the caller has room for: range_num
  MaxAskedRanges

ASSUME RangeAssumption ==
  Totals \subseteq Nat /\ Positions \subseteq Nat /\ Rooms \subseteq Nat

VARIABLES
  asked,      \* the ranges of the header's value, in order
  total, room

rangeVars == <<asked, total, room>>

NoNumber == -1
Garbled == [from |-> NoNumber, to |-> NoNumber]
AskedRanges == [from : Positions \cup {NoNumber}, to : Positions \cup {NoNumber}]

RangeInit == asked = <<>> /\ total \in Totals /\ room \in Rooms

Ask(r) ==
  /\ Len(asked) < MaxAskedRanges
  /\ asked' = Append(asked, r)
  /\ UNCHANGED <<total, room>>

RangeNext == \E r \in AskedRanges : Ask(r)
RangeSpec == RangeInit /\ [][RangeNext]_rangeVars

-----------------------------------------------------------------------------
Suffix(r) == r.from = NoNumber
Open(r) == r # Garbled /\ r.to = NoNumber

\* What the client means by a range, by RFC 7233.
Meant(r) ==
  IF Suffix(r) THEN [first |-> IF r.to < total THEN total - r.to ELSE 0, last |-> total - 1]
  ELSE [first |-> r.from, last |-> IF Open(r) \/ r.to >= total THEN total - 1 ELSE r.to]

Refuse(s) == [s EXCEPT !.ok = FALSE]
Take(s, r) == [s EXCEPT !.ranges = Append(@, r)]

\* Mutant: a range may begin at the byte that ends the one before.
RangeStepTouching(s, r) ==
  IF ~s.ok \/ Len(s.ranges) > room \/ r = Garbled THEN Refuse(s)
  ELSE IF Suffix(r) THEN Take(s, Meant(r))
  ELSE IF \/ r.from >= total
          \/ s.ranges # <<>> /\ r.from < Last(s.ranges).last
          \/ ~Open(r) /\ r.to < r.from THEN Refuse(s)
  ELSE IF Open(r) THEN s
  ELSE Take(s, Meant(r))

\* One iteration of the loop: s.ranges are those in front of `range'.  A suffix is
\* compared with nothing, and an open range is not counted (`range' stays).
RangeStep(s, r) ==
  IF ~s.ok \/ Len(s.ranges) > room \/ r = Garbled THEN Refuse(s)
  ELSE IF Suffix(r) THEN Take(s, Meant(r))
  ELSE IF \/ r.from >= total
          \/ s.ranges # <<>> /\ r.from <= Last(s.ranges).last
          \/ ~Open(r) /\ r.to < r.from THEN Refuse(s)
  ELSE IF Open(r) THEN s
  ELSE Take(s, Meant(r))

\* After so many of the ranges.
RangeParsed[n \in Nat] ==
  IF n = 0 THEN [ok |-> TRUE, ranges |-> <<>>] ELSE RangeStep(RangeParsed[n - 1], asked[n])

RangeParse == RangeParsed[Len(asked)]

-----------------------------------------------------------------------------
\* Some byte of the data is in it.
Satisfiable(r) ==
  /\ r # Garbled /\ Meant(r).first < total
  /\ Meant(r).first <= Meant(r).last

\* Those of the first n ranges that take one of the caller's places.
Counted(n) == {j \in 1 .. n : ~Open(asked[j])}

\* Whether the i-th range leaves the value to be taken: it is not garbled, it has
\* a byte of the data and begins behind the counted ones before it, unless it is a
\* suffix, and it finds at most one more counted than there is room for.
Accepted(i) ==
  LET r == asked[i]
  IN  /\ r # Garbled
      /\ \/ Suffix(r)
         \/ /\ Satisfiable(r)
            /\ \A j \in Counted(i - 1) : Meant(asked[j]).last < Meant(r).first
      /\ Cardinality(Counted(i - 1)) <= room

\* The ranges are those counted of the first n, in their order, as they are meant.
Gives(ranges, n) ==
  \E at \in [1 .. Len(ranges) -> 1 .. n] :
    /\ \A i, j \in 1 .. Len(ranges) : i < j => at[i] < at[j]
    /\ {at[i] : i \in 1 .. Len(ranges)} = Counted(n)
    /\ \A i \in 1 .. Len(ranges) : ranges[i] = Meant(asked[at[i]])

\* What wuy_http_range_parse() does with any value, also with one that it should
\* not take: it refuses exactly the values with a range that is not Accepted, and
\* for the others gives what their counted ranges mean.  So of ranges with both
\* ends none is given that overlaps another or is out of order, and none is
\* forgotten.  But it takes, against its own comment, a suffix that overlaps or is
\* unsatisfiable (OverlapsFail), it never gives an open range (line 681), and one
\* range more than there is room for is put behind the caller's room (the check of
\* line 639 has > for >=).
RangesAsMeant ==
  /\ RangeParse.ok <=> \A i \in 1 .. Len(asked) : Accepted(i)
  /\ RangeParse.ok => Gives(RangeParse.ranges, Len(asked))

\* "overlap ranges are allowed, and unsatisfiable ranges are ignored ... However we
\* return fail for both case." (wuy_http.c:624-626): what is taken has neither.
OverlapsFail ==
  RangeParse.ok =>
    /\ \A i \in 1 .. Len(asked) : Satisfiable(asked[i])
    /\ \A i, j \in 1 .. Len(asked) :
         i < j => \/ Meant(asked[i]).last < Meant(asked[j]).first
                  \/ Meant(asked[j]).last < Meant(asked[i]).first
=============================================================================
