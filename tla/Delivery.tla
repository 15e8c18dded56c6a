------------------------------ MODULE Delivery ------------------------------
(***************************************************************************)
(* What a reader of a body promises: the bytes the peer put into it come   *)
(* out in order, none lost, doubled or added, and the end is reported      *)
(* after the last of them and only for a body that arrived undamaged.      *)
(***************************************************************************)
EXTENDS Naturals, Sequences

CONSTANTS
  Bodies    \* the bodies a peer may send: what is in them, and whether intact

VARIABLES
  body,       \* [content |-> a sequence of bytes, intact |-> BOOLEAN]
  delivered,  \* the bytes handed out so far
  ended       \* the end was reported

deliveryVars == <<body, delivered, ended>>

DeliveryInit == body \in Bodies /\ delivered = <<>> /\ ended = FALSE

HandOut ==
  /\ ~ended
  /\ \E n \in Len(delivered) + 1 .. Len(body.content) :
       delivered' = SubSeq(body.content, 1, n)
  /\ UNCHANGED <<body, ended>>

End ==
  /\ ~ended /\ body.intact /\ delivered = body.content
  /\ ended' = TRUE
  /\ UNCHANGED <<body, delivered>>

DeliverySpec == DeliveryInit /\ [][HandOut \/ End]_deliveryVars
=============================================================================
