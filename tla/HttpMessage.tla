---------------------------- MODULE HttpMessage -----------------------------
(***************************************************************************)
(* A message read with wuy_http.c from a connection: the first line, the   *)
(* headers up to the empty line, and a chunked body, each parsed as soon   *)
(* as the caller's buffer may hold it, wherever the bytes were cut on      *)
(* their way.  The caller follows wuy_http.h: it calls again with more     *)
(* bytes when it gets 0 and gives up when it gets less.                    *)
(***************************************************************************)
EXTENDS HttpChunked, HttpLines, SequencesExt

CONSTANTS
  Bytes,
  Messages   \* what peers send, see MessageAssumption

VARIABLES
  msg,
  phase,     \* what the caller reads: "line", "headers" or "body"
  headers,   \* the headers it got
  beyond     \* specification only: a parser decided on a byte not yet there

vars == <<chunkedVars, msg, phase, headers, beyond>>

-----------------------------------------------------------------------------
(* The bytes of a message.                                                 *)

CrLf == <<"cr", "lf">>

\* n in as many digits as `width' says.
Numeral(n, width) ==
  [i \in 1 .. width |-> Digits[((n \div Power[width - i]) % Base) + 1]]

HeaderBytes(h) ==
  h.name \o <<":">> \o [i \in 1 .. h.spaces |-> "sp"] \o h.value \o CrLf

ChunkBytes(c) == Numeral(c.size, c.width) \o CrLf \o c.data \o CrLf

HeadBytes(m) ==
  m.line \o CrLf \o FlattenSeq([i \in 1 .. Len(m.headers) |-> HeaderBytes(m.headers[i])])
    \o CrLf

\* The n-th chunk as it comes out on the way.
Sent(m, n) ==
  LET bytes == ChunkBytes(m.chunks[n])
  IN  [i \in 1 .. Len(bytes) |-> IF m.damage = <<n, i>> THEN "damaged" ELSE bytes[i]]

Wire(m) == HeadBytes(m) \o FlattenSeq([n \in 1 .. Len(m.chunks) |-> Sent(m, n)])

Content(m) == FlattenSeq([n \in 1 .. Len(m.chunks) |-> m.chunks[n].data])

NoDamage == <<0, 0>>

\* A size wider than 7 digits of 16 is an error; no size is left out or wrong.
Intact(m) ==
  m.damage = NoDamage /\ \A n \in 1 .. Len(m.chunks) : m.chunks[n].size <= Limit

-----------------------------------------------------------------------------
(* What peers may send: the first line up to its end; headers; chunks, the *)
(* last of size 0; and maybe a byte that is replaced on its way, where the *)
(* decoder can notice: in what frames the data of a chunk, up to the end   *)
(* of the last chunk's line.                                               *)

MessageType ==
  [request : BOOLEAN,
   line    : Seq(Bytes),
   headers : Seq([name : Seq(Bytes), spaces : Nat, value : Seq(Bytes)]),
   chunks  : Seq([width : Nat \ {0}, size : Nat, data : Seq(Bytes)]),
   damage  : Nat \X Nat]     \* the chunk, and which of its bytes

RequestOK(line) ==
  LET n == Len(line)
  IN  /\ n >= 4 /\ line[1] \in Methods /\ line[n] \in Versions
      /\ \A i \in 1 .. n - 1 : line[i] = "sp" <=> i \in {2, n - 1}

ResponseOK(line) ==
  /\ Len(line) >= 3
  /\ line[1] \in Versions /\ line[2] = "sp" /\ line[3] \in StatusCodes
  /\ \A i \in 4 .. Len(line) : line[i] # "cr"

HeaderOK(h) ==
  /\ h.name # <<>> => h.name[1] # "cr"
  /\ \A i \in 1 .. Len(h.name) : h.name[i] # ":"
  /\ h.value # <<>> => h.value[1] # "sp"
  /\ \A i \in 1 .. Len(h.value) : h.value[i] # "cr"

\* What follows a size that is refused does not matter.
ChunkOK(c) == c.size < Power[c.width] /\ (c.size <= Limit => Len(c.data) = c.size)

DamageOK(m) ==
  m.damage # NoDamage =>
    /\ m.damage[1] \in 1 .. Len(m.chunks)
    /\ LET c    == m.chunks[m.damage[1]]
           tail == c.width + 2 + Len(c.data)
       IN  \/ m.damage[2] \in 1 .. c.width + 2
           \/ m.damage[1] # Len(m.chunks) /\ m.damage[2] \in tail + 1 .. tail + 2

MessageOK(m) ==
  /\ IF m.request THEN RequestOK(m.line) ELSE ResponseOK(m.line)
  /\ \A i \in 1 .. Len(m.headers) : HeaderOK(m.headers[i])
  /\ m.chunks # <<>>
  /\ \A n \in 1 .. Len(m.chunks) :
       ChunkOK(m.chunks[n]) /\ (m.chunks[n].size = 0 <=> n = Len(m.chunks))
  /\ DamageOK(m)
  /\ Len(Wire(m)) <= MaxWire

ASSUME MessageAssumption ==
  /\ Digits \in Seq(Bytes \ {"damaged"})
  /\ {"cr", "lf", "sp", ":", "damaged"} \subseteq Bytes
  /\ MaxWire \in Nat
  /\ \A m \in Messages : m \in MessageType /\ MessageOK(m)

-----------------------------------------------------------------------------
Buffer == SubSeq(wire, pos + 1, arrived)

\* What the memory behind the buffer may hold.
Past == {"lf", "stale"}

Init ==
  /\ msg \in Messages
  /\ wire = Wire(msg)
  /\ arrived = 0 /\ pos = 0
  /\ ChunkedInit
  /\ phase = "line"
  /\ headers = <<>>
  /\ beyond = FALSE

Arrive ==
  /\ ~decoding /\ ~failed
  /\ arrived' \in arrived + 1 .. Len(wire)
  /\ UNCHANGED <<wire, pos, state, size, p, decoding, failed, out, msg, phase,
                 headers, beyond>>

FirstLine(past) ==
  IF msg.request THEN RequestLine(Buffer) ELSE StatusLine(Buffer, past)

ReadLine ==
  /\ phase = "line" /\ ~failed
  /\ \E past \in Past :
       LET r == FirstLine(past)
       IN  /\ r # Again
           /\ IF r = Error THEN failed' = TRUE /\ UNCHANGED <<pos, phase>>
                           ELSE pos' = pos + r /\ phase' = "headers" /\ UNCHANGED failed
  /\ beyond' = (beyond \/ \E a, b \in Past : FirstLine(a) # FirstLine(b))
  /\ UNCHANGED <<wire, arrived, state, size, p, decoding, out, msg, headers>>

\* 2 is the end of the headers: the body begins.
ReadHeader ==
  /\ phase = "headers" /\ ~failed
  /\ \E past \in Past :
       LET r == Header(Buffer, past)
       IN  \/ /\ r = Error
              /\ failed' = TRUE
              /\ UNCHANGED <<pos, phase, state, headers>>
           \/ /\ r = 2
              /\ pos' = pos + 2
              /\ phase' = "body"
              /\ Enable
              /\ UNCHANGED <<failed, headers>>
           \/ /\ r > 2
              /\ pos' = pos + r
              /\ headers' = Append(headers, NameAndValue(Buffer))
              /\ UNCHANGED <<failed, phase, state>>
  /\ beyond' = (beyond \/ \E a, b \in Past : Header(Buffer, a) # Header(Buffer, b))
  /\ UNCHANGED <<wire, arrived, size, p, decoding, out, msg>>

ReadBody == phase = "body" /\ Decode /\ UNCHANGED <<msg, phase, headers, beyond>>

Next == Arrive \/ ReadLine \/ ReadHeader \/ ReadBody

Spec == Init /\ [][Next]_vars

\* The peer sends on, and the caller calls again as long as a call may help.
FairSpec == Spec /\ WF_vars(Next)

-----------------------------------------------------------------------------
\* The state is well typed, the parsers stay inside what arrived (but for the
\* byte `beyond' is about), and the size never grows out of its 32 bits.
TypeOK ==
  /\ arrived \in 0 .. Len(wire) /\ Len(wire) <= MaxWire
  /\ pos \in 0 .. IF beyond THEN Len(wire) ELSE arrived
  /\ p \in 0 .. arrived
  /\ state \in {"DISABLE", "HEADER", "HEADER_TAIL_LF", "BODY", "BODY_TAIL_CR",
                "BODY_TAIL_LF", "FINISH"}
  /\ size \in 0 .. Power[SizeWidth] - 1
  /\ state \in {"BODY", "HEADER_TAIL_LF"} => size <= Limit
  /\ phase \in {"line", "headers", "body"}
  /\ decoding \in BOOLEAN /\ failed \in BOOLEAN /\ beyond \in BOOLEAN

\* Wherever the bytes were cut, the headers are those sent, in order, with
\* their spaces stripped, and the body begins behind the empty line.
HeadersAsSent ==
  LET sent == [i \in 1 .. Len(msg.headers) |->
                 [name |-> msg.headers[i].name, value |-> msg.headers[i].value]]
  IN  ~beyond => /\ IsPrefix(headers, sent)
                 /\ phase = "body" => headers = sent /\ pos >= Len(HeadBytes(msg))

\* An undamaged message is not refused because of where it was cut,
NoFalseAlarm == Intact(msg) /\ ~beyond => ~failed

\* "or -1 if fail, or 0 if expect more data" (wuy_http.h): nor for any reason.
AgainUntilWhole == Intact(msg) => ~failed

\* The calls of wuy_http_chunked_decode() hand out the body as it was sent,
\* and only an undamaged one is finished.
D == INSTANCE Delivery WITH
       Bodies <- {[content |-> Content(m), intact |-> Intact(m)] : m \in Messages},
       body <- [content |-> Content(msg), intact |-> Intact(msg)],
       delivered <- out, ended <- state = "FINISH"
BodyAsSent == D!DeliverySpec

\* The caller comes to the end of the message, or to an error: no cut leaves
\* it waiting for bytes that it has.
ComesToEnd == <>(failed \/ (state = "FINISH" /\ pos = Len(wire)))
=============================================================================
