------------------------------- MODULE Base64 -------------------------------
(***************************************************************************)
(* wuy_base64.c.  A letter is its index in the table of the encoder, the   *)
(* decoder's table being the inverse of it; Pad is "=", which the decoder  *)
(* takes for 0 as it does every byte that is not in the table.             *)
(***************************************************************************)
EXTENDS Integers, SequencesExt

CONSTANTS
  Bytes,     \* what is encoded
  MaxBytes   \* bound on how many

ASSUME Base64Assumption == Bytes \subseteq 0 .. 255 /\ MaxBytes \in Nat

VARIABLE bytes   \* the bytes to be sent

base64Vars == <<bytes>>

Pad == 64
Base64Init == bytes = <<>>
Base64Next ==
  \E b \in Bytes : Len(bytes) < MaxBytes /\ bytes' = Append(bytes, b)
Base64Spec == Base64Init /\ [][Base64Next]_base64Vars

-----------------------------------------------------------------------------
\* s in pieces of n, the last one of what is left.
InPieces(s, n) ==
  [i \in 1 .. (Len(s) + n - 1) \div n |->
     SubSeq(s, n * (i - 1) + 1, IF n * i < Len(s) THEN n * i ELSE Len(s))]

\* Three bytes are four letters; two are three and a pad, one two and two pads.
EncodePiece(p) ==
  LET a == p[1]
      b == IF Len(p) > 1 THEN p[2] ELSE 0
      c == IF Len(p) > 2 THEN p[3] ELSE 0
  IN  <<a \div 4, (a % 4) * 16 + b \div 16,
        IF Len(p) = 1 THEN Pad ELSE (b % 16) * 4 + c \div 64,
        IF Len(p) < 3 THEN Pad ELSE c % 64>>

Encode(s) == FlattenSeq([i \in 1 .. Len(InPieces(s, 3)) |-> EncodePiece(InPieces(s, 3)[i])])

Value(letter) == IF letter = Pad THEN 0 ELSE letter

DecodePiece(q) ==
  LET n == ((Value(q[1]) * 64 + Value(q[2])) * 64 + Value(q[3])) * 64 + Value(q[4])
  IN  <<n \div 65536, (n \div 256) % 256, n % 256>>

\* Mutant: only the last letter is looked at.
PaddingOfOne(text) == IF Last(text) = Pad THEN 1 ELSE 0

\* What is written for the pads is not counted.
Padding(text) ==
  IF Last(text) # Pad THEN 0 ELSE IF text[Len(text) - 1] = Pad THEN 2 ELSE 1

\* wuy_base64_decode(), for a length that is a multiple of 4.
Decode(text) ==
  LET written == FlattenSeq([i \in 1 .. Len(text) \div 4 |-> DecodePiece(InPieces(text, 4)[i])])
  IN  IF text = <<>> THEN <<>> ELSE SubSeq(written, 1, Len(written) - Padding(text))

-----------------------------------------------------------------------------
\* What is encoded decodes to itself, however many bytes are in the last piece; its
\* text is as long as four letters for each three bytes.
DecodedAsEncoded ==
  /\ Decode(Encode(bytes)) = bytes
  /\ Len(Encode(bytes)) = 4 * ((Len(bytes) + 2) \div 3)
=============================================================================
