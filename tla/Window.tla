-------------------------------- MODULE Window --------------------------------
(***************************************************************************)
(* What one direction of a wire promises, whatever happens to the          *)
(* connections below it: of the messages put, the first few were sent; of  *)
(* those some were received, the last of them being `received'; and the    *)
(* sender was told of the messages up to `confirmed'.  Nothing is received *)
(* before it was sent or confirmed before it was received, and none of the *)
(* four counts goes back.                                                  *)
(***************************************************************************)
EXTENDS Naturals

VARIABLES
  put,        \* how many messages were handed to the wire
  sent,       \* the number of the last one that left
  received,   \* the highest number that arrived
  confirmed   \* the highest number the sender knows to have arrived

window == <<put, sent, received, confirmed>>

Init == put = 0 /\ sent = 0 /\ received = 0 /\ confirmed = 0

Put == put' = put + 1 /\ UNCHANGED <<sent, received, confirmed>>

Send == sent < put /\ sent' = sent + 1 /\ UNCHANGED <<put, received, confirmed>>

Receive ==
  /\ received' \in (received + 1) .. sent
  /\ UNCHANGED <<put, sent, confirmed>>

Confirm ==
  /\ confirmed' \in (confirmed + 1) .. received
  /\ UNCHANGED <<put, sent, received>>

Next == Put \/ Send \/ Receive \/ Confirm

Spec == Init /\ [][Next]_window

=============================================================================
