----------------------------- MODULE ExactlyOnce -----------------------------
(***************************************************************************)
(* What QoS 2 promises a publisher: a message it sends is handed to the     *)
(* subscribers at most once, it is confirmed only after that, and a message *)
(* whose session the broker lost is not handed on behind the publisher's    *)
(* back.                                                                   *)
(***************************************************************************)
EXTENDS Naturals

CONSTANT Messages

VARIABLES
  status,     \* what the publisher knows of each message
  delivered   \* how often each message was handed to the router

Init ==
  /\ status = [m \in Messages |-> "unsent"]
  /\ delivered = [m \in Messages |-> 0]

Send(m) ==
  /\ status[m] = "unsent"
  /\ status' = [status EXCEPT ![m] = "sent"]
  /\ UNCHANGED delivered

Deliver(m) ==
  /\ status[m] = "sent" /\ delivered[m] = 0
  /\ delivered' = [delivered EXCEPT ![m] = 1]
  /\ UNCHANGED status

Confirm(m) ==
  /\ status[m] = "sent" /\ delivered[m] = 1
  /\ status' = [status EXCEPT ![m] = "confirmed"]
  /\ UNCHANGED delivered

\* The session is gone: the publisher gives up all it has not got confirmed.
Abandon ==
  /\ status' = [m \in Messages |-> IF status[m] = "sent" THEN "abandoned" ELSE status[m]]
  /\ UNCHANGED delivered

Next == Abandon \/ \E m \in Messages : Send(m) \/ Deliver(m) \/ Confirm(m)

Spec == Init /\ [][Next]_<<status, delivered>>
=============================================================================
