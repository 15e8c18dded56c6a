------------------------------- MODULE MCHttp -------------------------------
(***************************************************************************)
(* What a server does with its connections, in small instances.  Init      *)
(* chooses one of: a message read from a peer, with sizes of base 4 whose  *)
(* width is 2, so that 3 is the largest chunk and 4 is refused; the target *)
(* of a request, its path or its query; the ranges a request asks for; and *)
(* two settings of the loop that waits for connections.                    *)
(***************************************************************************)
EXTENDS HttpMessage, HttpTarget, HttpRange, Event

CONSTANTS f1, f2

VARIABLE part

FourDigits == <<"0", "1", "2", "3">>

\* With `last' digits in the size of the last chunk.
RequestOf(line, hs, chunks, last) ==
  [request |-> TRUE, line |-> line, headers |-> hs, damage |-> NoDamage,
   chunks |-> Append(chunks, [width |-> last, size |-> 0, data |-> <<>>])]

Get  == <<"GET", "sp", "u", "sp", "1.1">>
Ok   == <<"1.1", "sp", "200", "sp", "x">>
Host == [name |-> <<"h">>, spaces |-> 1, value |-> <<"x", ":">>]
None == [name |-> <<"n", "n">>, spaces |-> 2, value |-> <<>>]

One    == [width |-> 1, size |-> 1, data |-> <<"lf">>]
Two    == [width |-> 3, size |-> 2, data |-> <<"a", "1">>]
Three  == [width |-> 2, size |-> 3, data |-> <<"cr", "lf", "0">>]
Huge   == [width |-> 3, size |-> 16, data |-> <<>>]
TooBig == [width |-> 2, size |-> 4, data |-> <<"a", "a", "a", "a">>]

Sound ==
  {RequestOf(Get, hs, cs, last) :
     hs \in {<<>>, <<Host>>, <<None, Host>>},
     cs \in {<<>>, <<One>>, <<Two, Three>>},
     last \in 1 .. 2}
  \cup {[RequestOf(Ok, <<Host>>, <<Two, One>>, 1) EXCEPT !.request = FALSE],
        RequestOf(Get, <<>>, <<One, TooBig, One>>, 1),
        RequestOf(Get, <<>>, <<Huge>>, 1)}

\* A byte of the framing is damaged, up to the end of the last chunk's line.
Damaged ==
  LET m == RequestOf(Get, <<>>, <<Two, One>>, 1)
  IN  {d \in {[m EXCEPT !.damage = <<n, i>>] : n \in 1 .. 3, i \in 1 .. 9} : DamageOK(d)}

SomeBytes ==
  {"0", "1", "2", "3", "cr", "lf", "sp", ":", "damaged", "GET", "1.1", "200",
   "u", "x", "h", "n", "a"}

SomeMessages == Sound \cup Damaged

SomeCodes ==
  "nul" :> 0 @@ " " :> 32 @@ "#" :> 35 @@ "%" :> 37 @@ "&" :> 38 @@ "+" :> 43 @@ "." :> 46
    @@ "/" :> 47 @@ "2" :> 50 @@ "3" :> 51 @@ "5" :> 53 @@ "6" :> 54 @@ "9" :> 57 @@ ";" :> 59
    @@ "=" :> 61 @@ "?" :> 63 @@ "B" :> 66 @@ "C" :> 67 @@ "D" :> 68 @@ "E" :> 69 @@ "F" :> 70
    @@ "N" :> 78 @@ "e" :> 101 @@ "f" :> 102 @@ "n" :> 110 @@ "u" :> 117 @@ "high" :> 233

SomePieces == {<<"/">>, <<".">>, <<"u">>, <<"%", "2", "e">>, <<"%", "2", "F">>, <<"%">>}
SomeNames == {<<"n">>, <<"n", "N">>}
SomeValues ==
  {<<>>, <<"u">>, <<" ", "#">>, <<"&", "?">>, <<"=", ";">>, <<"+", "%">>, <<"high">>}

-----------------------------------------------------------------------------
\* The constants give a pair of descriptors with a status, in batches of two.
\* Here one is a listener, the other may fail, and the ready list outgrows the
\* batch.
Listen == INSTANCE Event WITH Listeners <- {f1}, MaxEvents <- 1,
                              Happenings <- {"read", "write", "error"}

mcVars == <<part, vars, targetVars, rangeVars, eventVars>>

Idle == CHOOSE m \in Messages : TRUE

MCInit ==
  /\ part \in {"message", "path", "query", "range", "pair", "listen"}
  /\ Init /\ (part # "message" => msg = Idle)
  /\ TargetInit
  /\ RangeInit /\ (part # "range" => \A r \in Rooms, s \in Totals : room <= r /\ total <= s)
  /\ EventInit

MCNext ==
  /\ UNCHANGED part
  /\ \/ part = "message" /\ Next /\ UNCHANGED <<targetVars, rangeVars, eventVars>>
     \/ /\ part = "path" /\ (\E piece \in Pieces : AddPiece(piece))
        /\ UNCHANGED <<vars, rangeVars, eventVars>>
     \/ /\ part = "query" /\ (\E n \in Names, v \in Values : AddField(n, v))
        /\ UNCHANGED <<vars, rangeVars, eventVars>>
     \/ part = "range" /\ RangeNext /\ UNCHANGED <<vars, targetVars, eventVars>>
     \/ part = "pair" /\ EventNext /\ UNCHANGED <<vars, targetVars, rangeVars>>
     \/ part = "listen" /\ Listen!EventNext /\ UNCHANGED <<vars, targetVars, rangeVars>>

\* The peer sends on, the caller calls again, and the program runs its loop.
MCFair ==
  WF_mcVars(/\ UNCHANGED part
            /\ \/ /\ part = "message" /\ Next
                  /\ UNCHANGED <<targetVars, rangeVars, eventVars>>
               \/ /\ \/ part = "pair" /\ (Run \/ HandleNext)
                     \/ part = "listen" /\ (Listen!Run \/ Listen!HandleNext)
                  /\ UNCHANGED <<vars, targetVars, rangeVars>>)

MCSpec == MCInit /\ [][MCNext]_mcVars /\ MCFair

\* PathAsWritten of wuy_http_decode_path(), and PathGoesUp, what a comment in it
\* says: the path leads where the escaped one does, without .. and with it.
PathDecoded == part = "path" => PathAsWritten
PathUpDecoded == part = "path" => PathGoesUp

\* FieldsAsWritten of wuy_http_uri(), the query and the cookie functions: fields
\* are read by name as they were written, and their names in order.
FieldsRead == part = "query" => FieldsAsWritten

\* RangesAsMeant of wuy_http_range_parse(): which values of a header are refused,
\* and what ranges are given for the others.
RangesRead == part = "range" => RangesAsMeant

\* OverlapsFail, what a comment in it says.
OverlapsRefused == part = "range" => OverlapsFail

\* ComesToEnd of HttpMessage, where a message is read.
MessageComesToEnd == part = "message" => ComesToEnd

\* StatusIsInterest of wuy_event.c: the kernel watches a descriptor for what its
\* status says, also after refused calls.
WatchedAsAsked ==
  (part = "pair" => StatusIsInterest) /\ (part = "listen" => Listen!StatusIsInterest)

\* Served of wuy_event.c: what the user asked to be told of comes to the handler.
ToldAsAsked ==
  (part = "pair" => Served) /\ (part = "listen" => Listen!Served)
=============================================================================
