---------------------------- MODULE FrameChannel ----------------------------
(***************************************************************************)
(* What framing promises over a connection: messages arrive whole, once    *)
(* and in the order they were sent, until an error strikes in the middle   *)
(* of a frame.  After that nothing is promised.  Frame implements it.      *)
(***************************************************************************)
EXTENDS Naturals, Sequences

CONSTANTS Messages   \* what can be sent or read, garbled messages included

VARIABLES sent, delivered, whole

Init == sent = <<>> /\ delivered = <<>> /\ whole = TRUE

Send ==
  /\ \E m \in Messages : sent' = Append(sent, m)
  /\ UNCHANGED <<delivered, whole>>

Deliver ==
  /\ whole /\ Len(delivered) < Len(sent)
  /\ delivered' = Append(delivered, sent[Len(delivered) + 1])
  /\ UNCHANGED <<sent, whole>>

Break ==
  /\ whole' = FALSE
  /\ UNCHANGED <<sent, delivered>>

DeliverGarbled ==
  /\ ~whole
  /\ \E m \in Messages : delivered' = Append(delivered, m)
  /\ UNCHANGED <<sent, whole>>

Next == Send \/ Deliver \/ Break \/ DeliverGarbled

Spec == Init /\ [][Next]_<<sent, delivered, whole>>
=============================================================================
