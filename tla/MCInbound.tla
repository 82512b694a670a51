------------------------------ MODULE MCInbound ------------------------------
(* Instances of Inbound for TLC. *)
EXTENDS Inbound

CONSTANTS m1, m2, m3, m4, m5, c1, c2, c3

\* m1 and m2 are QoS 2 messages that use one identifier after the other; m3 to
\* m5 are QoS 1 messages that share another one.
QoS2       == {m1, m2}
PacketIDs  == [m \in Msgs |-> IF m \in QoS2 THEN 1 ELSE 2]
MixedQoS   == [m \in Msgs |-> IF m \in QoS2 THEN 2 ELSE 1]
=============================================================================
