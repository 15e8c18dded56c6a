----------------------------- MODULE HttpLines ------------------------------
(***************************************************************************)
(* wuy_http_request_line(), wuy_http_status_line() and wuy_http_header():  *)
(* what they return for a buffer into which a message has arrived in part. *)
(* A buffer is a sequence of "sp", ":", "cr", "lf" and other bytes; a      *)
(* method, a version and a status code are one element each.               *)
(***************************************************************************)
EXTENDS Integers, Sequences

CONSTANTS
  Methods,      \* WUY_HTTP_METHOD_TABLE
  Versions,     \* HTTP/1.0 and HTTP/1.1
  StatusCodes   \* 200 .. 999

Error == -1
Again == 0

First(S) == CHOOSE i \in S : \A j \in S : i <= j

\* memchr() from position `from' on; 0 when there is none.
Find(buf, c, from) ==
  LET hits == {i \in from .. Len(buf) : buf[i] = c}
  IN  IF hits = {} THEN 0 ELSE First(hits)

\* buf[i], also when it has not arrived and the memory there is `past'.
Byte(buf, i, past) == IF i <= Len(buf) THEN buf[i] ELSE past

\* Mutant: the length without the end of the line.
RequestLineShort(buf) ==
  LET method == Find(buf, "sp", 1)
      url    == Find(buf, "sp", method + 1)
  IN  IF method = 0 THEN Again
      ELSE IF SubSeq(buf, 1, method - 1) \notin {<<m>> : m \in Methods} THEN Error
      ELSE IF url = 0 \/ Len(buf) < url + 1 THEN Again
      ELSE IF \/ buf[url + 1] \notin Versions
              \/ Byte(buf, url + 2, "lf") # "cr" \/ Byte(buf, url + 3, "lf") # "lf" THEN Error
      ELSE url + 3

\* The length of the line, Again or Error.
RequestLine(buf) ==
  LET method == Find(buf, "sp", 1)
      url    == Find(buf, "sp", method + 1)
  IN  IF method = 0 THEN Again
      ELSE IF SubSeq(buf, 1, method - 1) \notin {<<m>> : m \in Methods} THEN Error
      ELSE IF url = 0 \/ Len(buf) < url + 3 THEN Again
      ELSE IF \/ buf[url + 1] \notin Versions
              \/ buf[url + 2] # "cr" \/ buf[url + 3] # "lf" THEN Error
      ELSE url + 3

\* The reason phrase ends at the first "cr".
StatusLine(buf, past) ==
  LET end == Find(buf, "cr", 4)
  IN  IF Len(buf) < 5 THEN Again
      ELSE IF \/ buf[1] \notin Versions \/ buf[2] # "sp"
              \/ buf[3] \notin StatusCodes THEN Error
      ELSE IF end = 0 THEN Again
      ELSE IF Byte(buf, end + 1, past) # "lf" THEN Error
      ELSE end + 1

\* Mutant: one space is skipped, not all of them.
ValueStartOneSpace(buf) ==
  LET colon == Find(buf, ":", 1)
      rest  == {i \in colon + 1 .. Len(buf) : i > colon + 1 \/ buf[i] # "sp"}
  IN  IF colon = 0 \/ rest = {} THEN 0 ELSE First(rest)

\* Where the value of the header begins: behind the spaces; 0 for nowhere yet.
ValueStart(buf) ==
  LET colon == Find(buf, ":", 1)
      rest  == {i \in colon + 1 .. Len(buf) : buf[i] # "sp"}
  IN  IF colon = 0 \/ rest = {} THEN 0 ELSE First(rest)

ValueEnd(buf) == Find(buf, "cr", ValueStart(buf))

\* The length of the header, 2 for the empty line behind the headers.
Header(buf, past) ==
  IF Len(buf) < 2 THEN Again
  ELSE IF buf[1] = "cr" THEN IF buf[2] = "lf" THEN 2 ELSE Error
  ELSE IF ValueStart(buf) = 0 \/ ValueEnd(buf) = 0 THEN Again
  ELSE IF Byte(buf, ValueEnd(buf) + 1, past) # "lf" THEN Error
  ELSE ValueEnd(buf) + 1

\* *out_name_len, and what *out_value_start and *out_value_len delimit.
NameAndValue(buf) ==
  [name  |-> SubSeq(buf, 1, Find(buf, ":", 1) - 1),
   value |-> SubSeq(buf, ValueStart(buf), ValueEnd(buf) - 1)]
=============================================================================
