----------------------------- MODULE MCDelivery -----------------------------
(***************************************************************************)
(* Instance of Delivery for TLC.                                           *)
(***************************************************************************)
EXTENDS Delivery, TLC

CONSTANTS m1, m2, c1, c2

\* Effective QoS of the messages.
QoS12 == (m1 :> 1) @@ (m2 :> 2)

\* Receive Maximum of the connections.
Recv12 == (c1 :> 1) @@ (c2 :> 2)

\* Messages above the Maximum Packet Size of the connections.
Oversize2 == (c1 :> {}) @@ (c2 :> {m1})
=============================================================================
