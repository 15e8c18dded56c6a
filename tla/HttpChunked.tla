---------------------------- MODULE HttpChunked -----------------------------
(***************************************************************************)
(* wuy_http_chunked_decode() of wuy_http.c, one iteration of its loops per *)
(* step, over a buffer that has arrived only in part: `wire' is all the    *)
(* peer sends, the first `arrived' bytes of it are in the caller's buffer  *)
(* and the first `pos' were taken out of it.                               *)
(***************************************************************************)
EXTENDS Naturals, Sequences

CONSTANTS
  Digits,     \* the digits of a chunk size by value: 16 in the code
  SizeWidth,  \* how many of them fit into the size: 8 of 4 bits in the code
  MaxWire     \* bound: the bytes of the longest message

ASSUME ChunkedAssumption ==
  /\ Len(Digits) \in Nat \ {0, 1}
  /\ \A i, j \in 1 .. Len(Digits) : Digits[i] = Digits[j] => i = j
  /\ \A i \in 1 .. Len(Digits) : Digits[i] \notin {"cr", "lf"}
  /\ SizeWidth \in Nat \ {0}

VARIABLES
  wire, arrived, pos,
  state,     \* chunked->state
  size,      \* chunked->size
  p,         \* the local p of the call, counted from the start of wire
  decoding,  \* a call is in progress
  failed,    \* a call returned less than 0: the caller gives up
  out        \* the body, as the caller got it

chunkedVars == <<wire, arrived, pos, state, size, p, decoding, failed, out>>

Base == Len(Digits)

\* Base ^ n, in a form that can be reasoned about.
Power[n \in Nat] == IF n = 0 THEN 1 ELSE Base * Power[n - 1]

At == wire[p + 1]
More == decoding /\ p < arrived

IsDigit(c) == \E i \in 1 .. Base : Digits[i] = c
Value(c) == (CHOOSE i \in 1 .. Base : Digits[i] = c) - 1

\* Mutant: a size that already has all its digits takes another.
LimitTooWide == Power[SizeWidth] - 1

\* 0xFFFFFFF: one digit more fits into the 32 bits.
Limit == Power[SizeWidth - 1] - 1

ChunkedInit ==
  /\ state = "DISABLE"
  /\ size = 0
  /\ p = 0
  /\ decoding = FALSE
  /\ failed = FALSE
  /\ out = <<>>

Enable == state' = "HEADER"

-----------------------------------------------------------------------------
\* Mutant: what an earlier call read of the size is forgotten.
CallAnew ==
  /\ ~decoding /\ ~failed /\ state # "DISABLE" /\ pos < arrived
  /\ decoding' = TRUE
  /\ p' = pos
  /\ size' = IF state = "HEADER" THEN 0 ELSE size
  /\ UNCHANGED <<wire, arrived, pos, state, failed, out>>

Call ==
  /\ ~decoding /\ ~failed /\ state # "DISABLE" /\ pos < arrived
  /\ decoding' = TRUE
  /\ p' = pos
  /\ UNCHANGED <<wire, arrived, pos, state, size, failed, out>>

\* The loop has come to buf_end: 0, and *p_buffer moves on.
ReturnNothing ==
  /\ decoding /\ p = arrived
  /\ decoding' = FALSE
  /\ pos' = p
  /\ UNCHANGED <<wire, arrived, state, size, p, failed, out>>

\* A return of less than 0 leaves *p_buffer where it was.
Fail ==
  /\ decoding' = FALSE
  /\ failed' = TRUE
  /\ UNCHANGED <<wire, arrived, pos, state, size, p, out>>

Step(next) ==
  /\ p' = p + 1
  /\ state' = next
  /\ UNCHANGED <<wire, arrived, pos, decoding, failed, out>>

-----------------------------------------------------------------------------
(* One character of wuy_http_chunked_size().  It stores the size when it   *)
(* returns; a size it was half-way through is lost with a -1 only.         *)

SizeDigit ==
  /\ More /\ state = "HEADER" /\ size <= Limit
  /\ IsDigit(At)
  /\ size' = size * Base + Value(At)
  /\ Step("HEADER")

SizeEnd ==
  /\ More /\ state = "HEADER" /\ size <= Limit
  /\ At = "cr"
  /\ Step("HEADER_TAIL_LF")
  /\ UNCHANGED size

SizeWrong ==
  /\ More /\ state = "HEADER"
  /\ size > Limit \/ (~IsDigit(At) /\ At # "cr")
  /\ Fail

\* Mutant: a size of 0 is no end.
HeaderTailAlways ==
  /\ More /\ state = "HEADER_TAIL_LF"
  /\ IF At = "lf" THEN Step("BODY") /\ UNCHANGED size ELSE Fail

HeaderTail ==
  /\ More /\ state = "HEADER_TAIL_LF"
  /\ IF At = "lf" THEN Step(IF size # 0 THEN "BODY" ELSE "FINISH") /\ UNCHANGED size
                  ELSE Fail

\* The bytes of the chunk that are there are returned, and the caller takes
\* them out of its buffer.
Body ==
  /\ More /\ state = "BODY"
  /\ LET whole == size <= arrived - p
         n     == IF whole THEN size ELSE arrived - p
     IN  /\ state' = IF whole THEN "BODY_TAIL_CR" ELSE "BODY"
         /\ size' = size - n
         /\ out' = out \o SubSeq(wire, p + 1, p + n)
         /\ pos' = p + n
  /\ decoding' = FALSE
  /\ UNCHANGED <<wire, arrived, p, failed>>

BodyTailCr ==
  /\ More /\ state = "BODY_TAIL_CR"
  /\ IF At = "cr" THEN Step("BODY_TAIL_LF") /\ UNCHANGED size ELSE Fail

BodyTailLf ==
  /\ More /\ state = "BODY_TAIL_LF"
  /\ IF At = "lf" THEN Step("HEADER") /\ UNCHANGED size ELSE Fail

Finish ==
  /\ More /\ state = "FINISH"
  /\ IF At \in {"cr", "lf"} THEN Step("FINISH") /\ UNCHANGED size ELSE Fail

Decode ==
  \/ Call \/ ReturnNothing
  \/ SizeDigit \/ SizeEnd \/ SizeWrong \/ HeaderTail
  \/ Body \/ BodyTailCr \/ BodyTailLf \/ Finish
=============================================================================
