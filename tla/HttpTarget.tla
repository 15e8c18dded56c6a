----------------------------- MODULE HttpTarget -----------------------------
(***************************************************************************)
(* A client writes a path, fields of a query, one wuy_http_encode_query()  *)
(* after the other into a buffer of its own, and cookies; a server reads   *)
(* them with the functions of HttpUri.                                     *)
(***************************************************************************)
EXTENDS HttpUri

CONSTANTS
  Names, Values,  \* of fields: sequences of characters
  MaxFields,      \* bound on the fields of a query
  QueryRoom,      \* the size of the client's buffer
  Pieces,         \* of paths: characters, escapes and the like
  MaxPath         \* bound on the pieces of a path

ASSUME TargetAssumption == Pieces \subseteq Seq(DOMAIN Code)

VARIABLES
  path,     \* the pieces of the path, as the client writes them
  fields,   \* specification only: <<name, value>> of what was written
  query     \* the client's buffer, with "?" in the place of its first "&"

targetVars == <<path, fields, query>>

TargetInit == path = <<<<"/">>>> /\ fields = <<>> /\ query = <<>>

AddPiece(piece) ==
  Len(path) < MaxPath /\ path' = Append(path, piece) /\ UNCHANGED <<fields, query>>

\* A result that is not less than the room is of a field that was cut off.
AddField(name, value) ==
  LET room == QueryRoom - Len(query)
      text == EncodeQuery(name, value, room)
  IN  /\ Len(fields) < MaxFields /\ Len(text) < room
      /\ query' = IF query = <<>> THEN <<"?">> \o Tail(text) ELSE query \o text
      /\ fields' = Append(fields, <<name, value>>)
      /\ UNCHANGED path

TargetNext ==
  \/ \E piece \in Pieces : AddPiece(piece)
  \/ \E n \in Names, v \in Values : AddField(n, v)

TargetSpec == TargetInit /\ [][TargetNext]_targetVars

-----------------------------------------------------------------------------
\* The value of the first field called name.
Written(name) ==
  LET at == SelectInSeq(fields, LAMBDA f : f[1] = name)
  IN  IF at = 0 THEN Failure ELSE fields[at][2]

\* wuy_http_uri() finds each part where it begins, with this in front of the
\* path and that behind the query.
SplitAt(front, behind) ==
  LET here  == FlattenSeq(path)
      u     == Uri(front \o here \o query \o behind)
  IN  /\ u.host = (IF front = <<>> THEN 0 ELSE 5)
      /\ u.path = Len(front) + 1 /\ u.length = Len(here)
      /\ u.query = (IF query = <<>> THEN 0 ELSE Len(front \o here) + 1)
      /\ u.fragment = (IF behind = <<>> THEN 0 ELSE Len(front \o here \o query) + 1)

\* wuy_http_uri_query_first() from the first field on, each time behind the field
\* before; a NUL is behind the query.
Firsts ==
  LET from[q \in 0 .. Len(query)] ==
        IF q = Len(query) THEN <<>>
        ELSE LET f == QueryFirst(SubSeq(query, q + 1, Len(query)), "nul")
             IN  <<f.key>> \o from[q + f.length]
  IN  from[0]

CookieText ==
  FlattenSeq([i \in 1 .. Len(fields) |->
    (IF i = 1 THEN <<>> ELSE <<";", " ">>) \o fields[i][1] \o <<"=">> \o fields[i][2]])

\* What a client writes with wuy_http_encode_query(), whatever characters are in
\* it and however often a name comes, the server finds with wuy_http_uri() and
\* reads by name; and likewise with cookies, that are not escaped.  Who walks the
\* query with wuy_http_uri_query_first() comes by every field once and in order,
\* and reads its name.  The value it reads is none to rely on: wuy_http.c:337 decodes
\* one byte too many, the "&" of the next field or what is behind the query.
FieldsAsWritten ==
  /\ \A front \in {<<>>, Http \o <<"h">>}, behind \in {<<>>, <<"#", "u">>} :
       SplitAt(front, behind)
  /\ query # <<>> => \A name \in Names : QueryGet(query, name) = Written(name)
  /\ Firsts = [i \in 1 .. Len(fields) |-> fields[i][1]]
  /\ (\A i \in 1 .. Len(fields) : {";", " "} \cap ToSet(fields[i][2]) = {}) =>
       \A name \in Names : CookieGet(CookieText, name) = Written(name)

-----------------------------------------------------------------------------
(* Paths.  A directory goes up when its name is two dots, and is left out  *)
(* when it has none or is one dot; what is behind the last slash stays.    *)

Dots == <<".", ".">>

Leave(s) ==
  IF s.name = Dots THEN [dirs |-> IF s.dirs = <<>> THEN <<Failure>> ELSE Front(s.dirs),
                         name |-> <<>>]
  ELSE [dirs |-> IF s.name \in {<<>>, <<".">>} THEN s.dirs ELSE Append(s.dirs, s.name),
        name |-> <<>>]

WalkStep(s, c) ==
  IF s.dirs = <<Failure>> THEN s
  ELSE IF c = Bad THEN [s EXCEPT !.dirs = <<Failure>>]
  ELSE IF c = "/" THEN Leave(s)
  ELSE [s EXCEPT !.name = Append(@, c)]

\* The directories and the name that the first characters of cs lead to.
Walked(cs) ==
  LET at[n \in 1 .. Len(cs)] ==
        IF n = 1 THEN [dirs |-> <<>>, name |-> <<>>] ELSE WalkStep(at[n - 1], cs[n])
  IN  at

\* And all of them.
Walk(cs) ==
  LET last == Walked(cs)[Len(cs)]
  IN  IF last.name = Dots /\ last.dirs # <<Failure>> THEN Leave(last) ELSE last

Slashed(dirs) == [i \in 1 .. Len(dirs) |-> <<"/">> \o dirs[i]]

\* What the characters cs should be decoded to.
Resolved(cs) ==
  LET w == Walk(cs)
  IN  IF w.dirs = <<Failure>> THEN Failure
      ELSE FlattenSeq(Slashed(w.dirs)) \o <<"/">> \o w.name

\* Is there a name of two dots, as it is or escaped?
GoesUp(cs) ==
  \E i \in 1 .. Len(cs) - 2 :
    /\ SubSeq(cs, i, i + 2) = <<"/", ".", ".">>
    /\ i + 2 = Len(cs) \/ cs[i + 3] \in {"/", Bad}

Decoded == DecodePath(FlattenSeq(path))
Characters == Unescape(FlattenSeq(path), "+")

\* wuy_http_decode_path() gives the directories and the name that the path leads
\* to, whatever part of it is escaped, doubled or a dot, when it never goes up.
PathAsWritten == ~GoesUp(Characters) => Decoded = Resolved(Characters)

\* "go up level for "/../"" (wuy_http.c:116): and also when it does.
PathGoesUp == Decoded = Resolved(Characters)
=============================================================================
