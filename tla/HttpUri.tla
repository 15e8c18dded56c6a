------------------------------ MODULE HttpUri -------------------------------
(***************************************************************************)
(* The parts of wuy_http.c that read and write the text of a request's     *)
(* target and of its cookies.  A text is a sequence of characters; what    *)
(* the code tells of a character by its place in ASCII, it tells here by   *)
(* Code.  -1 is the text Error.                                            *)
(***************************************************************************)
EXTENDS Integers, SequencesExt

CONSTANTS
  Code    \* of every character: its byte, 0 .. 255

ASSUME UriAssumption ==
  /\ \A c \in DOMAIN Code : Code[c] \in 0 .. 255
  /\ \A c, d \in DOMAIN Code : Code[c] = Code[d] => c = d
  /\ {"%", "+", "/", ".", "?", "#", "&", "=", ";", " ", "nul"} \subseteq DOMAIN Code
  /\ Code["/"] = 47
  /\ {"bad", "outside", "other"} \cap DOMAIN Code = {}

Bad == "bad"
Outside == <<"outside">>   \* a byte in front of the caller's buffer was read
Failure == <<Bad>>

\* memchr() from position `from' up to the end of s; 0 when there is none.
Memchr(s, c, from) == SelectInSubSeq(s, from, Len(s), LAMBDA x : x = c)

Char(n) ==
  IF \E c \in DOMAIN Code : Code[c] = n THEN CHOOSE c \in DOMAIN Code : Code[c] = n
                                        ELSE "other"

-----------------------------------------------------------------------------
(* Escapes.                                                                *)

\* wuy_http_char_hex(), which takes all letters: -1 for what is none.
CharHex(c) ==
  CASE Code[c] \in 48 .. 57 -> Code[c] - 48
    [] Code[c] \in 97 .. 122 -> Code[c] - 97 + 10
    [] Code[c] \in 65 .. 90 -> Code[c] - 65 + 10
    [] OTHER -> -1

\* Control characters, the space and what is not ASCII must be escaped.
Unescaped(c) == Code[c] > 32 /\ Code[c] < 127

\* The characters that both decoders see, up to a NUL; Bad ends them when
\* something is wrong.  `plus' is what "+" stands for when it is not escaped.
Unescape(src, plus) ==
  LET from[i \in 1 .. Len(src) + 1] ==
        IF i > Len(src) \/ src[i] = "nul" THEN <<>>
        ELSE IF ~Unescaped(src[i]) THEN <<Bad>>
        ELSE IF src[i] # "%" THEN <<IF src[i] = "+" THEN plus ELSE src[i]>> \o from[i + 1]
        ELSE IF i + 2 > Len(src) \/ CharHex(src[i + 1]) < 0 \/ CharHex(src[i + 2]) < 0
             THEN <<Bad>>
        ELSE <<Char((CharHex(src[i + 1]) * 16 + CharHex(src[i + 2])) % 256)>> \o from[i + 3]
  IN  from[1]

DecodeQueryValue(src) ==
  LET cs == Unescape(src, " ") IN IF Contains(cs, Bad) THEN Failure ELSE cs

-----------------------------------------------------------------------------
(* wuy_http_decode_path().                                                 *)

\* memrchr() for the slash in front of the last directory of dest, which ends
\* in "/..": what is written next overwrites that slash.
Up(dest) ==
  LET slash == SelectLastInSubSeq(dest, 1, Len(dest) - 3, LAMBDA c : c = "/")
  IN  IF slash = 0 THEN Failure ELSE SubSeq(dest, 1, slash - 1)

EndsWith(dest, s) ==
  /\ Len(s) <= Len(dest)
  /\ \A i \in 1 .. Len(s) : dest[Len(dest) - Len(s) + i] = s[i]

\* Mutant: a name that ends in a dot is taken for ".".
PathStepDot(dest, c) ==
  IF dest = Failure \/ c = Bad THEN Failure
  ELSE IF c # "/" \/ dest = <<>> THEN Append(dest, c)
  ELSE IF EndsWith(dest, <<"/">>) THEN dest
  ELSE IF EndsWith(dest, <<".">>) THEN Front(dest)
  ELSE Append(dest, c)

\* One iteration of the loop: c is the next character, dest what is written.
PathStep(dest, c) ==
  IF dest \in {Failure, Outside} THEN dest
  ELSE IF c = Bad THEN Failure
  ELSE IF c # "/" \/ dest = <<>> THEN Append(dest, c)
  ELSE CASE EndsWith(dest, <<"/">>) -> dest
         [] dest = <<".">> -> Failure
         [] EndsWith(dest, <<"/", ".">>) -> Front(dest)
         [] dest = <<".", ".">> -> Outside
         [] EndsWith(dest, <<"/", ".", ".">>) -> Up(dest)
         [] OTHER -> Append(dest, c)

\* What is written after so many of the characters cs.
PathWritten(cs) ==
  LET dest[n \in 0 .. Len(cs)] == IF n = 0 THEN <<>> ELSE PathStep(dest[n - 1], cs[n])
  IN  dest

DecodePath(src) ==
  LET cs   == Unescape(src, "+")
      dest == PathWritten(cs)[Len(cs)]
  IN  IF EndsWith(dest, <<"/", ".", ".">>) THEN Up(dest) ELSE dest

-----------------------------------------------------------------------------
(* wuy_http_uri().                                                         *)

Http == <<"http", ":", "/", "/">>
Https == <<"https", ":", "/", "/">>

\* Where host, path, query and fragment of the uri begin, 0 for NULL, and the
\* length of the path; Error when it has no path.
Uri(uri) ==
  LET scheme == IF uri[1] = "/" THEN 0
                ELSE IF IsPrefix(Http, uri) \/ IsPrefix(Https, uri) THEN 4 ELSE -1
      path   == IF scheme = 0 THEN 1
                ELSE IF scheme = -1 \/ Len(uri) = 4 THEN 0 ELSE Memchr(uri, "/", 5)
      query  == Memchr(uri, "?", path)
      fragment == Memchr(uri, "#", IF query = 0 THEN path ELSE query)
      end    == IF query # 0 THEN query ELSE IF fragment # 0 THEN fragment ELSE Len(uri) + 1
  IN  IF uri = <<>> THEN [length |-> -1]
      ELSE IF uri = <<"*">> THEN [host |-> 0, path |-> 1, query |-> 0, fragment |-> 0, length |-> 1]
      ELSE IF uri[1] = "*" \/ path = 0 THEN [length |-> -1]
      ELSE [host |-> IF scheme = 0 THEN 0 ELSE 5, path |-> path, query |-> query,
            fragment |-> fragment, length |-> end - path]

-----------------------------------------------------------------------------
(* Queries and cookies.                                                    *)

\* wuy_http_uri_query_get(): the value of the first field that has the key.
QueryGet(query, key) ==
  LET at[p \in 1 .. Len(query) + 1] ==
        IF Len(query) - p + 1 <= Len(key) THEN Failure
        ELSE IF SubSeq(query, p, p + Len(key) - 1) = key /\ query[p + Len(key)] = "="
             THEN LET next == Memchr(query, "&", p + Len(key) + 1)
                  IN  DecodeQueryValue(SubSeq(query, p + Len(key) + 1,
                                              IF next = 0 THEN Len(query) ELSE next - 1))
        ELSE LET next == Memchr(query, "&", p) IN IF next = 0 THEN Failure ELSE at[next + 1]
  IN  at[IF query[1] = "?" THEN 2 ELSE 1]

\* wuy_http_uri_query_first(): the first field and how long it is.  The value
\* is decoded with the byte behind it, `behind' after the whole query.
QueryFirst(query, behind) ==
  LET next  == Memchr(query, "&", 2)
      end   == IF next = 0 THEN Len(query) + 1 ELSE next
      equal == SelectInSubSeq(query, 2, end - 1, LAMBDA c : c = "=")
  IN  [length |-> end - 1,
       key    |-> SubSeq(query, 2, (IF equal = 0 THEN end ELSE equal) - 1),
       value  |-> IF equal = 0 THEN <<>>
                  ELSE DecodeQueryValue(SubSeq(Append(query, behind), equal + 1, end))]

\* Mutant: "+" is taken for one of them.
PlainPlus(c) ==
  \/ Code[c] \in 48 .. 57 \cup 65 .. 90 \cup 97 .. 122
  \/ Code[c] \in {43, 45, 46, 95, 126}

\* isalnum(), or one of "-._~".
Plain(c) ==
  \/ Code[c] \in 48 .. 57 \cup 65 .. 90 \cup 97 .. 122
  \/ Code[c] \in {45, 46, 95, 126}

HexChar(n) == Char(IF n < 10 THEN n + 48 ELSE n + 65 - 10)

Escaped(c) ==
  IF Plain(c) THEN <<c>> ELSE IF c = " " THEN <<"+">>
  ELSE <<"%", HexChar(Code[c] \div 16), HexChar(Code[c] % 16)>>

\* wuy_http_encode_query(): what comes to stand at out_buffer, and behind its
\* end when it is longer than the room there is.
EncodeQuery(key, value, room) ==
  FoldLeft(LAMBDA out, c : IF Len(out) >= room THEN out ELSE out \o Escaped(c),
           <<"&">> \o key \o <<"=">>, value)

LowerCode(c) == IF Code[c] \in 65 .. 90 THEN Code[c] + 32 ELSE Code[c]

\* strncasecmp() and the "=" behind the name; the line's end is no name.
CookieAt(cookie, p, name) ==
  /\ p + Len(name) <= Len(cookie)
  /\ \A i \in 1 .. Len(name) : LowerCode(cookie[p + i - 1]) = LowerCode(name[i])
  /\ cookie[p + Len(name)] = "="

\* wuy_http_cookie_get(): the value of the first cookie of that name.
CookieGet(cookie, name) ==
  LET at[p \in 1 .. Len(cookie) + 1] ==
        IF CookieAt(cookie, p, name)
        THEN LET end == Memchr(cookie, ";", p + Len(name) + 1)
             IN  SubSeq(cookie, p + Len(name) + 1, IF end = 0 THEN Len(cookie) ELSE end - 1)
        ELSE LET end  == Memchr(cookie, ";", p)
                 rest == SelectInSubSeq(cookie, end + 1, Len(cookie), LAMBDA c : c # " ")
             IN  IF end = 0 THEN Failure ELSE at[IF rest = 0 THEN Len(cookie) + 1 ELSE rest]
  IN  at[1]
=============================================================================
