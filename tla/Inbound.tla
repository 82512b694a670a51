------------------------------- MODULE Inbound -------------------------------
(***************************************************************************)
(* Inbound PUBLISH handling: handlePublish and handlePubrel of             *)
(* internal/broker/client.go with the inbound in-flight map of             *)
(* internal/session/session.go, for one publishing client whose            *)
(* connections succeed each other and share its session.                   *)
(*                                                                         *)
(* The client (external) is a conforming MQTT publisher: it uses a packet  *)
(* identifier for one unfinished message at a time, answers PUBREC with    *)
(* PUBREL, and when it reconnects it sends again what is unfinished, or    *)
(* gives it up if CONNACK says the session is not present.                 *)
(***************************************************************************)
EXTENDS Integers, Sequences, FiniteSets

CONSTANTS
  Msgs,            \* messages the client publishes
  Conns,           \* its connections
  NoMsg, NoConn,
  PacketID,        \* packet identifier the client gives each message
  QoS,             \* QoS of each message: 1 or 2
  Denied,          \* messages CanPublish refuses
  Refused,         \* messages a plugin refuses or that have expired
  WriteQueueSize,  \* capacity of Client.writeQ
  MaxRestarts,     \* bound on broker restarts
  Overlap          \* may the client connect while the broker still works on
                   \* packets of its previous connection?

Ids == {PacketID[m] : m \in Msgs}

ASSUME ConstantsAssumption ==
  /\ NoMsg \notin Msgs /\ NoConn \notin Conns
  /\ QoS \in [Msgs -> 1 .. 2]
  /\ PacketID \in [Msgs -> Nat \ {0}]
  /\ Denied \subseteq Msgs /\ Refused \subseteq Msgs \ Denied
  /\ WriteQueueSize \in Nat \ {0}
  /\ MaxRestarts \in Nat
  /\ Overlap \in BOOLEAN

\* What travels: to the broker a PUBLISH or PUBREL, back an acknowledgement.
\* A PUBREL or an acknowledgement carries only the identifier.
Publish(m) == [type |-> "PUBLISH", id |-> PacketID[m], msg |-> m]
Pubrel(i)  == [type |-> "PUBREL", id |-> i, msg |-> NoMsg]

VARIABLES
  \* The client.
  phase,      \* per message: new, publish (awaits PUBACK/PUBREC), release
              \* (awaits PUBCOMP), done, lost (given up)
  current,    \* the connection it uses
  resend,     \* messages still to be sent again on it
  \* The connections: what was sent and not yet read, per direction.
  toBroker, toClient,
  \* The broker.
  pc,         \* goroutine of each connection
  cur,        \* message it is working on
  inFlight,   \* Session.inFlight
  exists,     \* is the session in the store?
  restarts,
  published   \* router.Publish calls per message

clientVars == <<phase, current, resend>>
netVars    == <<toBroker, toClient>>
vars == <<clientVars, netVars, pc, cur, inFlight, exists, restarts, published>>

Init ==
  /\ phase = [m \in Msgs |-> "new"]
  /\ current = NoConn
  /\ resend = {}
  /\ toBroker = [c \in Conns |-> <<>>]
  /\ toClient = [c \in Conns |-> <<>>]
  /\ pc = [c \in Conns |-> "new"]
  /\ cur = [c \in Conns |-> NoMsg]
  /\ inFlight = [i \in Ids |-> NoMsg]
  /\ exists = FALSE
  /\ restarts = 0
  /\ published = [m \in Msgs |-> 0]

-----------------------------------------------------------------------------
(* The client. *)

Unfinished == {m \in Msgs : phase[m] \in {"publish", "release"}}

\* CONNECT and CONNACK: GetOrCreate resumes the session or makes a new one,
\* and the client sends its unfinished messages again or gives them up.
Connect(c) ==
  /\ pc[c] = "new" /\ current = NoConn
  /\ Overlap \/ \A d \in Conns : pc[d] \in {"new", "closed"}
  /\ current' = c
  /\ pc' = [pc EXCEPT ![c] = "read"]
  /\ exists' = TRUE
  /\ IF exists
     THEN resend' = Unfinished /\ UNCHANGED <<phase, inFlight>>
     ELSE /\ resend' = {}
          /\ phase' = [m \in Msgs |-> IF m \in Unfinished THEN "lost" ELSE phase[m]]
          /\ inFlight' = [i \in Ids |-> NoMsg]
  /\ UNCHANGED <<netVars, cur, restarts, published>>

ClientPublish(m) ==
  /\ current # NoConn /\ phase[m] = "new"
  /\ \A n \in Unfinished : PacketID[n] # PacketID[m]
  /\ phase' = [phase EXCEPT ![m] = "publish"]
  /\ toBroker' = [toBroker EXCEPT ![current] = Append(@, Publish(m))]
  /\ UNCHANGED <<current, resend, toClient, pc, cur, inFlight, exists, restarts,
                 published>>

ClientResend(m) ==
  /\ m \in resend
  /\ resend' = resend \ {m}
  /\ toBroker' = [toBroker EXCEPT ![current] =
                    Append(@, IF phase[m] = "publish" THEN Publish(m) ELSE Pubrel(PacketID[m]))]
  /\ UNCHANGED <<phase, current, toClient, pc, cur, inFlight, exists, restarts,
                 published>>

\* The client reads an acknowledgement; one that fits no message is ignored.
ClientReceive ==
  /\ current # NoConn /\ toClient[current] # <<>>
  /\ LET a    == Head(toClient[current])
         open == {m \in Unfinished : PacketID[m] = a.id}
     IN /\ phase' = [m \in Msgs |->
             CASE m \in open /\ a.type = "PUBACK" /\ QoS[m] = 1 -> "done"
               [] m \in open /\ a.type = "PUBREC" /\ QoS[m] = 2 -> "release"
               [] m \in open /\ a.type = "PUBCOMP" /\ phase[m] = "release" -> "done"
               [] OTHER -> phase[m]]
        /\ toBroker' = IF a.type = "PUBREC" /\ \E m \in open : QoS[m] = 2
                       THEN [toBroker EXCEPT ![current] = Append(@, Pubrel(a.id))]
                       ELSE toBroker
  /\ toClient' = [toClient EXCEPT ![current] = Tail(@)]
  /\ UNCHANGED <<current, resend, pc, cur, inFlight, exists, restarts, published>>

\* The network connection breaks.  What the client has sent may still be read.
ClientDrop ==
  /\ current # NoConn
  /\ toClient' = [toClient EXCEPT ![current] = <<>>]
  /\ current' = NoConn
  /\ resend' = {}
  /\ UNCHANGED <<phase, toBroker, pc, cur, inFlight, exists, restarts, published>>

-----------------------------------------------------------------------------
(* The broker. *)

\* enqueuePubAck: nothing reaches a client that is gone, and a full writeQ
\* drops the packet.
enqueuePubAck(c, type, id) ==
  IF c = current /\ Len(toClient[c]) < WriteQueueSize
  THEN [toClient EXCEPT ![c] = Append(@, [type |-> type, id |-> id])]
  ELSE toClient

\* readLoop of c takes the next packet, a type.
Packet(c) == Head(toBroker[c])

Reads(c, type) ==
  /\ pc[c] = "read" /\ toBroker[c] # <<>>
  /\ Packet(c).type = type
  /\ toBroker' = [toBroker EXCEPT ![c] = Tail(@)]

\* Mutant: QoS 1 is acknowledged before the plugins are asked.
handlePublishRefusedAcks(c) ==
  LET p == Packet(c)
  IN /\ Reads(c, "PUBLISH")
     /\ p.msg \in Denied \cup Refused
     /\ toClient' = IF QoS[p.msg] = 1 THEN enqueuePubAck(c, "PUBACK", p.id) ELSE toClient
     /\ UNCHANGED <<clientVars, pc, cur, inFlight, exists, restarts, published>>

\* handlePublish of a message CanPublish denies (QoS 1 is acknowledged all the
\* same) or that is refused by a plugin or expired (never acknowledged).
handlePublishRefused(c) ==
  LET p == Packet(c)
  IN /\ Reads(c, "PUBLISH")
     /\ p.msg \in Denied \cup Refused
     /\ toClient' = IF p.msg \in Denied /\ QoS[p.msg] = 1
                    THEN enqueuePubAck(c, "PUBACK", p.id) ELSE toClient
     /\ UNCHANGED <<clientVars, pc, cur, inFlight, exists, restarts, published>>

\* handlePublish, QoS 1: publish, then acknowledge.
handlePublishQoS1(c) ==
  LET p == Packet(c)
  IN /\ Reads(c, "PUBLISH")
     /\ p.msg \notin Denied \cup Refused /\ QoS[p.msg] = 1
     /\ published' = [published EXCEPT ![p.msg] = @ + 1]
     /\ toClient' = enqueuePubAck(c, "PUBACK", p.id)
     /\ UNCHANGED <<clientVars, pc, cur, inFlight, exists, restarts>>

\* handlePublish, QoS 2: GetInFlight.  A known identifier is acknowledged at
\* once, otherwise the message is stored in a second critical section.
handlePublishQoS2(c) ==
  LET p == Packet(c)
  IN /\ Reads(c, "PUBLISH")
     /\ p.msg \notin Denied \cup Refused /\ QoS[p.msg] = 2
     /\ \/ /\ inFlight[p.id] # NoMsg
           /\ toClient' = enqueuePubAck(c, "PUBREC", p.id)
           /\ UNCHANGED <<pc, cur>>
        \/ /\ inFlight[p.id] = NoMsg
           /\ pc' = [pc EXCEPT ![c] = "add"]
           /\ cur' = [cur EXCEPT ![c] = p.msg]
           /\ UNCHANGED toClient
     /\ UNCHANGED <<clientVars, inFlight, exists, restarts, published>>

\* AddInFlight, then PUBREC.
AddInFlight(c) ==
  LET m == cur[c]
  IN /\ pc[c] = "add"
     /\ inFlight' = [inFlight EXCEPT ![PacketID[m]] = m]
     /\ toClient' = enqueuePubAck(c, "PUBREC", PacketID[m])
     /\ pc' = [pc EXCEPT ![c] = "read"]
     /\ cur' = [cur EXCEPT ![c] = NoMsg]
     /\ UNCHANGED <<clientVars, toBroker, exists, restarts, published>>

\* Mutant: the entry is looked up and not removed.
handlePubrelKeeps(c) ==
  LET p == Packet(c)
  IN /\ Reads(c, "PUBREL")
     /\ \/ /\ inFlight[p.id] # NoMsg
           /\ pc' = [pc EXCEPT ![c] = "publish"]
           /\ cur' = [cur EXCEPT ![c] = inFlight[p.id]]
           /\ UNCHANGED toClient
        \/ /\ inFlight[p.id] = NoMsg
           /\ toClient' = enqueuePubAck(c, "PUBCOMP", p.id)
           /\ UNCHANGED <<pc, cur>>
     /\ UNCHANGED <<clientVars, inFlight, exists, restarts, published>>

\* handlePubrel: AckInFlight removes the message; without one PUBCOMP goes out
\* at once.
handlePubrel(c) ==
  LET p == Packet(c)
  IN /\ Reads(c, "PUBREL")
     /\ inFlight' = [inFlight EXCEPT ![p.id] = NoMsg]
     /\ \/ /\ inFlight[p.id] # NoMsg
           /\ pc' = [pc EXCEPT ![c] = "publish"]
           /\ cur' = [cur EXCEPT ![c] = inFlight[p.id]]
           /\ UNCHANGED toClient
        \/ /\ inFlight[p.id] = NoMsg
           /\ toClient' = enqueuePubAck(c, "PUBCOMP", p.id)
           /\ UNCHANGED <<pc, cur>>
     /\ UNCHANGED <<clientVars, exists, restarts, published>>

\* handlePubrel: router.Publish of the message, then PUBCOMP.
PublishReleased(c) ==
  LET m == cur[c]
  IN /\ pc[c] = "publish"
     /\ published' = [published EXCEPT ![m] = @ + 1]
     /\ toClient' = enqueuePubAck(c, "PUBCOMP", PacketID[m])
     /\ pc' = [pc EXCEPT ![c] = "read"]
     /\ cur' = [cur EXCEPT ![c] = NoMsg]
     /\ UNCHANGED <<clientVars, toBroker, inFlight, exists, restarts>>

\* readLoop ends: end of stream, a takeover closed the socket, an error.  The
\* persistent session stays in the store.
ReadLoopEnds(c) ==
  /\ pc[c] = "read"
  /\ pc' = [pc EXCEPT ![c] = "closed"]
  /\ toBroker' = [toBroker EXCEPT ![c] = <<>>]
  /\ toClient' = [toClient EXCEPT ![c] = <<>>]
  /\ IF c = current THEN current' = NoConn /\ resend' = {}
                    ELSE UNCHANGED <<current, resend>>
  /\ UNCHANGED <<phase, cur, inFlight, exists, restarts, published>>

\* The broker process restarts: sessions live in memory only.
Restart ==
  /\ restarts < MaxRestarts
  /\ restarts' = restarts + 1
  /\ exists' = FALSE
  /\ inFlight' = [i \in Ids |-> NoMsg]
  /\ pc' = [c \in Conns |-> IF pc[c] = "new" THEN "new" ELSE "closed"]
  /\ cur' = [c \in Conns |-> NoMsg]
  /\ toBroker' = [c \in Conns |-> <<>>]
  /\ toClient' = [c \in Conns |-> <<>>]
  /\ current' = NoConn
  /\ resend' = {}
  /\ UNCHANGED <<phase, published>>

-----------------------------------------------------------------------------
ClientStep ==
  \/ ClientReceive \/ ClientDrop
  \/ \E c \in Conns : Connect(c)
  \/ \E m \in Msgs : ClientPublish(m) \/ ClientResend(m)

BrokerStep(c) ==
  \/ handlePublishRefused(c) \/ handlePublishQoS1(c) \/ handlePublishQoS2(c)
  \/ AddInFlight(c) \/ handlePubrel(c) \/ PublishReleased(c) \/ ReadLoopEnds(c)

Next == ClientStep \/ Restart \/ \E c \in Conns : BrokerStep(c)

Spec == Init /\ [][Next]_vars

-----------------------------------------------------------------------------
(* Properties. *)

\* QoS 1: what the client counts as acknowledged was published at least once,
\* unless the access rules forbade it.
AtLeastOnce ==
  \A m \in Msgs : QoS[m] = 1 /\ phase[m] = "done" /\ m \notin Denied => published[m] >= 1

\* QoS 2 refines ExactlyOnce: over reconnects, retransmissions, lost
\* acknowledgements and broker restarts.
QoS2Msgs == {m \in Msgs : QoS[m] = 2}

Status(m) == CASE phase[m] = "new" -> "unsent"
               [] phase[m] \in {"publish", "release"} -> "sent"
               [] phase[m] = "done" -> "confirmed"
               [] phase[m] = "lost" -> "abandoned"

Abstract == INSTANCE ExactlyOnce WITH
  Messages  <- QoS2Msgs,
  status    <- [m \in QoS2Msgs |-> Status(m)],
  delivered <- [m \in QoS2Msgs |-> published[m]]

ImplementsExactlyOnce == Abstract!Spec
=============================================================================
