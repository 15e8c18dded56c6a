------------------------------ MODULE JsonDump ------------------------------
(***************************************************************************)
(* wuy_json.h: a document written call by call into a buffer that may be   *)
(* too small.  `dumped' is what start .. pos would hold in a buffer large  *)
(* enough: its length is that of pos, and what is behind size - 1 was cut  *)
(* off by snprintf().                                                      *)
(***************************************************************************)
EXTENDS Naturals, SequencesExt

CONSTANTS
  BufferSizes,  \* sizes of buffers
  Scalars,      \* numbers, strings and the like: sequences of characters
  MemberKey,    \* how the name of a member is written
  MaxDepth,     \* bound on containers in each other
  MaxItems      \* bound on the items in all

\* A character is a string.
ASSUME JsonAssumption ==
  BufferSizes \subseteq Nat /\ Scalars \subseteq Seq(STRING) /\ MemberKey \in Seq(STRING)

VARIABLES
  bufferSize,   \* end - start
  dumped,
  returned,     \* by wuy_json_done(); 0 before
  aborted,      \* a call has called abort()
  tree,         \* specification only: the containers begun, each with what is in it,
  begun         \* and the number of items so far

jsonVars == <<bufferSize, dumped, returned, aborted, tree, begun>>

Kinds == {"object", "array"}
Begin(kind) == IF kind = "object" THEN "{" ELSE "["
End(kind) == IF kind = "object" THEN "}" ELSE "]"

JsonInit ==
  /\ bufferSize \in BufferSizes
  /\ dumped = <<>> /\ returned = 0 /\ aborted = FALSE
  /\ tree = <<>> /\ begun = 0

Full == Len(dumped) >= bufferSize

\* WUY_JSON_BUILD().
Build(text) == dumped' = IF Full THEN dumped ELSE dumped \o text

\* What has been put together: a container of the kind with these items in it.
Joined(kind, items) ==
  <<Begin(kind)>>
    \o FlattenSeq([i \in 1 .. Len(items) |-> (IF i = 1 THEN <<>> ELSE <<",">>) \o items[i]])
    \o <<End(kind)>>

\* The container begun last gets an item.
Into(t, item) == [t EXCEPT ![Len(t)].items = Append(@, item)]

\* Members of objects have a name.
Name == IF Last(tree).kind = "object" THEN MemberKey ELSE <<>>

\* wuy_json_new_object() and wuy_json_new_array(): the document itself.
NewDocument(kind) ==
  /\ tree = <<>> /\ dumped = <<>>
  /\ Build(<<Begin(kind)>>)
  /\ tree' = <<[kind |-> kind, name |-> <<>>, items |-> <<>>]>>
  /\ UNCHANGED <<bufferSize, returned, aborted, begun>>

\* wuy_json_object_int() .. _bool(), and those for arrays.
Scalar(v) ==
  /\ tree # <<>> /\ begun < MaxItems /\ begun' = begun + 1
  /\ Build(Name \o v \o <<",">>)
  /\ tree' = Into(tree, Name \o v)
  /\ UNCHANGED <<bufferSize, returned, aborted>>

\* wuy_json_object_array(), _object_object(), _array_array(), _array_object().
Nest(kind) ==
  /\ tree # <<>> /\ Len(tree) < MaxDepth /\ begun < MaxItems /\ begun' = begun + 1
  /\ Build(Name \o <<Begin(kind)>>)
  /\ tree' = Append(tree, [kind |-> kind, name |-> Name, items |-> <<>>])
  /\ UNCHANGED <<bufferSize, returned, aborted>>

\* Mutant: the comma behind the last item stays.
ClosedWithComma(kind) == dumped \o <<End(kind), ",">>

\* A comma is taken back before the end of the container is written.
Closed(kind) ==
  (IF Last(dumped) = "," THEN Front(dumped) ELSE dumped) \o <<End(kind), ",">>

\* wuy_json_object_close() and wuy_json_array_close().
Close ==
  /\ tree # <<>> /\ ~aborted
  /\ LET kind == Last(tree).kind
         item == Last(tree).name \o Joined(kind, Last(tree).items)
     IN  /\ \/ Full /\ UNCHANGED <<dumped, aborted>>
            \/ ~Full /\ IF Last(dumped) \in {",", Begin(kind)}
                        THEN dumped' = Closed(kind) /\ UNCHANGED aborted
                        ELSE aborted' = TRUE /\ UNCHANGED dumped
         /\ tree' = IF Len(tree) = 1 THEN <<[kind |-> "done", text |-> item]>>
                    ELSE Into(Front(tree), item)
  /\ UNCHANGED <<bufferSize, returned, begun>>

\* wuy_json_done().
Done ==
  /\ tree # <<>> /\ Last(tree).kind = "done" /\ returned = 0
  /\ \/ Full /\ returned' = bufferSize /\ UNCHANGED <<dumped, aborted>>
     \/ ~Full /\ IF Last(dumped) = ","
                 THEN /\ dumped' = Append(Front(dumped), "newline")
                      /\ returned' = Len(dumped) /\ UNCHANGED aborted
                 ELSE aborted' = TRUE /\ UNCHANGED <<dumped, returned>>
  /\ UNCHANGED <<bufferSize, tree, begun>>

Building == tree # <<>> => Last(tree).kind # "done"

JsonNext ==
  \/ Building /\ (\E kind \in Kinds : NewDocument(kind) \/ Nest(kind))
  \/ Building /\ (\E v \in Scalars : Scalar(v))
  \/ Building /\ Close
  \/ Done

JsonSpec == JsonInit /\ [][JsonNext]_jsonVars

-----------------------------------------------------------------------------
\* A document that is finished is the items in their containers, with commas only
\* between them, if the result is less than the size; and is only cut off when it
\* does not fit.  No call aborts, however much was cut off in front of it.
DumpedAsBuilt ==
  /\ ~aborted
  /\ returned # 0 =>
       LET document == Append(tree[1].text, "newline")
       IN  IF Len(document) < bufferSize
           THEN returned = Len(document) /\ dumped = document
           ELSE returned = bufferSize
=============================================================================
