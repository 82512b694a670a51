--------------------------- MODULE Inbound_proofs ---------------------------
(***************************************************************************)
(* Theorems about Inbound, for any number of messages, identifiers,        *)
(* connections and restarts: QoS 1 is at least once and, as long as the    *)
(* connections of a client do not overlap, QoS 2 implements ExactlyOnce.   *)
(***************************************************************************)
EXTENDS Inbound, TLAPS

Ack(type, id) == [type |-> type, id |-> id]

ToBroker == {Publish(m) : m \in Msgs} \cup {Pubrel(i) : i \in Ids}
ToClient == [type : {"PUBACK", "PUBREC", "PUBCOMP"}, id : Ids]

\* x is in the channel s; x is there once at most.
In(s, x)   == \E i \in DOMAIN s : s[i] = x
Once(s, x) == \A i, j \in DOMAIN s : s[i] = x /\ s[j] = x => i = j

TypeInv ==
  /\ phase \in [Msgs -> {"new", "publish", "release", "done", "lost"}]
  /\ current \in Conns \cup {NoConn}
  /\ resend \subseteq Msgs
  /\ resend # {} => current # NoConn
  /\ toBroker \in [Conns -> Seq(ToBroker)]
  /\ toClient \in [Conns -> Seq(ToClient)]
  /\ pc \in [Conns -> {"new", "read", "add", "publish", "closed"}]
  /\ cur \in [Conns -> Msgs \cup {NoMsg}]
  /\ \A c \in Conns : pc[c] \in {"add", "publish"} => cur[c] \in QoS2Msgs
  /\ inFlight \in [Ids -> QoS2Msgs \cup {NoMsg}]
  /\ published \in [Msgs -> Nat]

\* The client uses an identifier for one message at a time, QoS 1 has no second phase, and
\* a connection not made yet carries nothing.
ClientInv ==
  /\ \A m, n \in Unfinished : PacketID[m] = PacketID[n] => m = n
  /\ \A m \in Msgs : QoS[m] = 1 => phase[m] # "release"
  /\ current # NoConn => pc[current] # "new"
  /\ \A c \in Conns : pc[c] = "new" => toBroker[c] = <<>> /\ toClient[c] = <<>>

\* A QoS 1 message travels as one packet of the present connection at most: it waits to be
\* sent again, or its PUBLISH is on its way, or its PUBACK is.
QoS1Packets(m) ==
  /\ Once(toBroker[current], Publish(m))
  /\ m \in resend \/ In(toBroker[current], Publish(m)) => phase[m] = "publish"
  /\ m \in resend => ~In(toBroker[current], Publish(m))
  /\ In(toClient[current], Ack("PUBACK", PacketID[m])) /\ phase[m] = "publish" =>
       /\ m \notin resend /\ ~In(toBroker[current], Publish(m))
       /\ m \in Denied \/ published[m] >= 1

\* A PUBACK on its way is the only one with its identifier, and there is a message of the
\* client it belongs to.
PubackInv(i) ==
  /\ Once(toClient[current], Ack("PUBACK", i))
  /\ In(toClient[current], Ack("PUBACK", i)) =>
       \E m \in Msgs : QoS[m] = 1 /\ phase[m] = "publish" /\ PacketID[m] = i

QoS1Inv ==
  current # NoConn =>
    /\ \A m \in Msgs : QoS[m] = 1 => QoS1Packets(m)
    /\ \A i \in Ids : PubackInv(i)

-----------------------------------------------------------------------------
(* Channels. *)

\* What joining and leaving a channel does to membership.
LEMMA Channels ==
  ASSUME NEW S, NEW s \in Seq(S), NEW e \in S
  PROVE  /\ Append(s, e) \in Seq(S)
         /\ \A x : In(Append(s, e), x) <=> In(s, x) \/ x = e
         /\ \A x : Once(s, x) /\ (x = e => ~In(s, x)) => Once(Append(s, e), x)
<1> DEFINE t == Append(s, e)
<1>1. t \in Seq(S) /\ Len(s) \in Nat /\ Len(t) = Len(s) + 1
  OBVIOUS
<1>2. t[Len(s) + 1] = e /\ \A i \in 1 .. Len(s) : t[i] = s[i]
  OBVIOUS
<1>3. DOMAIN s = 1 .. Len(s) /\ DOMAIN t = 1 .. Len(s) + 1
  BY <1>1
<1>4. \A i : i \in 1 .. Len(s) + 1 <=> i \in 1 .. Len(s) \/ i = Len(s) + 1
  BY <1>1
<1> HIDE DEF t
<1>5. \A x : In(t, x) <=> In(s, x) \/ x = e
  BY Zenon, <1>2, <1>3, <1>4 DEF In
<1>6. \A x : Once(s, x) /\ (x = e => ~In(s, x)) => Once(t, x)
  BY Zenon, <1>2, <1>3, <1>4 DEF In, Once
<1> QED BY Zenon, <1>1, <1>5, <1>6 DEF t

\* What taking the first packet does to a channel.
LEMMA ChannelHead ==
  ASSUME NEW S, NEW s \in Seq(S), s # <<>>
  PROVE  /\ Head(s) \in S /\ Tail(s) \in Seq(S)
         /\ In(s, Head(s))
         /\ \A x : In(Tail(s), x) => In(s, x)
         /\ \A x : Once(s, x) => Once(Tail(s), x)
         /\ Once(s, Head(s)) => ~In(Tail(s), Head(s))
<1>1. Head(s) \in S /\ Tail(s) \in Seq(S) /\ Len(s) \in Nat \ {0} /\ Len(Tail(s)) = Len(s) - 1
  OBVIOUS
<1>2. Head(s) = s[1] /\ \A i \in 1 .. Len(s) - 1 : Tail(s)[i] = s[i + 1]
  OBVIOUS
<1>3. DOMAIN s = 1 .. Len(s) /\ DOMAIN Tail(s) = 1 .. Len(s) - 1
  BY <1>1
<1>4. \A i \in 1 .. Len(s) - 1 : i \in Int /\ i + 1 \in 1 .. Len(s) /\ i + 1 # 1
  BY <1>1
<1>5. In(s, Head(s))
  BY <1>1, <1>2, <1>3 DEF In
<1>6. \A x : In(Tail(s), x) => In(s, x)
  BY Zenon, <1>2, <1>3, <1>4 DEF In
<1>7. \A x : Once(s, x) => Once(Tail(s), x)
  BY <1>2, <1>3, <1>4 DEF Once
<1>8. Once(s, Head(s)) => ~In(Tail(s), Head(s))
  BY <1>1, <1>2, <1>3, <1>4 DEF In, Once
<1> QED BY Zenon, <1>1, <1>5, <1>6, <1>7, <1>8

\* What is not in a channel is not there twice.
LEMMA AbsentOnce == ASSUME NEW s, NEW x, ~In(s, x) PROVE Once(s, x)
  BY Zenon DEF In, Once

\* An empty channel holds nothing.
LEMMA EmptyChannel == \A x : ~In(<<>>, x) /\ Once(<<>>, x)
  BY DEF In, Once

\* Packets are told apart by their type and what they carry.
LEMMA Packets ==
  /\ \A m \in Msgs : Publish(m) \in ToBroker /\ PacketID[m] \in Ids
  /\ \A i \in Ids : Pubrel(i) \in ToBroker
  /\ \A m, n \in Msgs : Publish(m) = Publish(n) => m = n
  /\ \A i, j \in Ids : Pubrel(i) = Pubrel(j) => i = j
  /\ \A m \in Msgs, i \in Ids : Publish(m) # Pubrel(i)
  /\ \A t, u, i, j : Ack(t, i) = Ack(u, j) => t = u /\ i = j
  /\ \A t \in {"PUBACK", "PUBREC", "PUBCOMP"}, i \in Ids : Ack(t, i) \in ToClient
  BY Zenon DEF Publish, Pubrel, Ack, ToBroker, ToClient, Ids

\* A packet read is the PUBLISH of its message or a PUBREL of its identifier.
LEMMA PacketForms ==
  /\ \A p \in ToBroker : p.type = "PUBLISH" => p.msg \in Msgs /\ p = Publish(p.msg) /\ p.id = PacketID[p.msg]
  /\ \A p \in ToBroker : p.type = "PUBREL" => p.id \in Ids /\ p = Pubrel(p.id)
  /\ \A a \in ToClient : a = Ack(a.type, a.id) /\ a.id \in Ids
  BY DEF Publish, Pubrel, Ack, ToBroker, ToClient

-----------------------------------------------------------------------------
(* What the steps do to the channels. *)

\* enqueuePubAck adds its packet to the channel of the present connection or nothing.
LEMMA AckEffect ==
  ASSUME TypeInv, NEW c \in Conns, NEW t \in {"PUBACK", "PUBREC", "PUBCOMP"}, NEW i \in Ids,
         toClient' = enqueuePubAck(c, t, i)
  PROVE  /\ toClient' \in [Conns -> Seq(ToClient)]
         /\ \A d \in Conns : d # c \/ c # current => toClient'[d] = toClient[d]
         /\ \A d \in Conns : \A x : In(toClient[d], x) => In(toClient'[d], x)
         /\ \A d \in Conns : \A x : In(toClient'[d], x) =>
              In(toClient[d], x) \/ (x = Ack(t, i) /\ d = c /\ c = current)
         /\ \A d \in Conns : \A x : Once(toClient[d], x) /\ (x = Ack(t, i) /\ d = c => ~In(toClient[d], x))
              => Once(toClient'[d], x)
<1>1. toClient \in [Conns -> Seq(ToClient)] /\ Ack(t, i) \in ToClient
  BY Zenon, Packets DEF TypeInv
<1>2. CASE toClient' = toClient
  BY Zenon, <1>1, <1>2
<1>3. CASE c = current /\ toClient' = [toClient EXCEPT ![c] = Append(@, Ack(t, i))]
  <2>1. toClient[c] \in Seq(ToClient) /\ toClient'[c] = Append(toClient[c], Ack(t, i))
    BY Zenon, <1>1, <1>3
  <2>2. \A d \in Conns : d # c => toClient'[d] = toClient[d]
    BY Zenon, <1>1, <1>3
  <2>3. /\ toClient'[c] \in Seq(ToClient)
        /\ \A x : In(toClient'[c], x) <=> In(toClient[c], x) \/ x = Ack(t, i)
        /\ \A x : Once(toClient[c], x) /\ (x = Ack(t, i) => ~In(toClient[c], x)) => Once(toClient'[c], x)
    BY <1>1, <2>1, Channels
  <2>4. toClient' \in [Conns -> Seq(ToClient)]
    BY Zenon, <1>1, <1>3, <2>1, <2>3
  <2> QED BY Zenon, <1>3, <2>2, <2>3, <2>4
<1> QED BY Zenon, <1>2, <1>3 DEF enqueuePubAck, Ack

\* readLoop takes the first packet of its connection.
LEMMA ReadEffect ==
  ASSUME TypeInv, NEW c \in Conns, NEW t, Reads(c, t)
  PROVE  /\ Packet(c) \in ToBroker /\ Packet(c).type = t /\ In(toBroker[c], Packet(c))
         /\ pc[c] = "read" /\ toBroker[c] # <<>>
         /\ toBroker' \in [Conns -> Seq(ToBroker)]
         /\ \A d \in Conns : d # c => toBroker'[d] = toBroker[d]
         /\ \A d \in Conns : \A x : In(toBroker'[d], x) => In(toBroker[d], x)
         /\ \A d \in Conns : \A x : Once(toBroker[d], x) => Once(toBroker'[d], x)
         /\ Once(toBroker[c], Packet(c)) => ~In(toBroker'[c], Packet(c))
<1>1. toBroker \in [Conns -> Seq(ToBroker)] /\ toBroker[c] \in Seq(ToBroker) /\ toBroker[c] # <<>>
  BY Zenon DEF TypeInv, Reads
<1>2. /\ Head(toBroker[c]) \in ToBroker /\ Tail(toBroker[c]) \in Seq(ToBroker)
      /\ In(toBroker[c], Head(toBroker[c]))
      /\ \A x : In(Tail(toBroker[c]), x) => In(toBroker[c], x)
      /\ \A x : Once(toBroker[c], x) => Once(Tail(toBroker[c]), x)
      /\ Once(toBroker[c], Head(toBroker[c])) => ~In(Tail(toBroker[c]), Head(toBroker[c]))
  BY Zenon, <1>1, ChannelHead
<1>3. toBroker' = [toBroker EXCEPT ![c] = Tail(toBroker[c])] /\ pc[c] = "read" /\ Packet(c).type = t
  BY Zenon DEF Reads
<1>4. toBroker'[c] = Tail(toBroker[c]) /\ \A d \in Conns : d # c => toBroker'[d] = toBroker[d]
  BY Zenon, <1>1, <1>3
<1>5. toBroker' \in [Conns -> Seq(ToBroker)]
  BY Zenon, <1>1, <1>2, <1>3
<1> QED BY Zenon, <1>1, <1>2, <1>3, <1>4, <1>5 DEF Packet

\* The client sends a packet on its connection.
LEMMA SendEffect ==
  ASSUME TypeInv, current # NoConn, NEW e \in ToBroker,
         toBroker' = [toBroker EXCEPT ![current] = Append(@, e)]
  PROVE  /\ toBroker' \in [Conns -> Seq(ToBroker)]
         /\ \A d \in Conns : d # current => toBroker'[d] = toBroker[d]
         /\ \A d \in Conns : \A x : In(toBroker'[d], x) <=> In(toBroker[d], x) \/ (d = current /\ x = e)
         /\ \A d \in Conns : \A x : Once(toBroker[d], x) /\ (d = current /\ x = e => ~In(toBroker[d], x))
              => Once(toBroker'[d], x)
<1>1. toBroker \in [Conns -> Seq(ToBroker)] /\ current \in Conns /\ toBroker[current] \in Seq(ToBroker)
  BY Zenon DEF TypeInv
<1>2. /\ Append(toBroker[current], e) \in Seq(ToBroker)
      /\ \A x : In(Append(toBroker[current], e), x) <=> In(toBroker[current], x) \/ x = e
      /\ \A x : Once(toBroker[current], x) /\ (x = e => ~In(toBroker[current], x))
           => Once(Append(toBroker[current], e), x)
  BY Zenon, <1>1, Channels
<1>3. toBroker'[current] = Append(toBroker[current], e) /\ \A d \in Conns : d # current => toBroker'[d] = toBroker[d]
  BY Zenon, <1>1
<1>4. toBroker' \in [Conns -> Seq(ToBroker)]
  BY Zenon, <1>1, <1>2
<1> QED BY Zenon, <1>2, <1>3, <1>4

\* The client takes the first acknowledgement of its connection.
LEMMA ReceiveEffect ==
  ASSUME TypeInv, current # NoConn, toClient[current] # <<>>,
         toClient' = [toClient EXCEPT ![current] = Tail(@)]
  PROVE  LET a == Head(toClient[current]) IN
         /\ a \in ToClient /\ In(toClient[current], a)
         /\ toClient' \in [Conns -> Seq(ToClient)]
         /\ \A d \in Conns : d # current => toClient'[d] = toClient[d]
         /\ \A d \in Conns : \A x : In(toClient'[d], x) => In(toClient[d], x)
         /\ \A d \in Conns : \A x : Once(toClient[d], x) => Once(toClient'[d], x)
         /\ Once(toClient[current], a) => ~In(toClient'[current], a)
<1>1. toClient \in [Conns -> Seq(ToClient)] /\ current \in Conns /\ toClient[current] \in Seq(ToClient)
  BY Zenon DEF TypeInv
<1>2. /\ Head(toClient[current]) \in ToClient /\ Tail(toClient[current]) \in Seq(ToClient)
      /\ In(toClient[current], Head(toClient[current]))
      /\ \A x : In(Tail(toClient[current]), x) => In(toClient[current], x)
      /\ \A x : Once(toClient[current], x) => Once(Tail(toClient[current]), x)
      /\ Once(toClient[current], Head(toClient[current])) => ~In(Tail(toClient[current]), Head(toClient[current]))
  BY Zenon, <1>1, ChannelHead
<1>3. toClient'[current] = Tail(toClient[current]) /\ \A d \in Conns : d # current => toClient'[d] = toClient[d]
  BY Zenon, <1>1
<1>4. toClient' \in [Conns -> Seq(ToClient)]
  BY Zenon, <1>1, <1>2
<1> QED BY Zenon, <1>2, <1>3, <1>4

\* What an acknowledgement does to the messages of the client.
LEMMA ReceivePhases ==
  ASSUME TypeInv, ClientReceive
  PROVE  LET a == Head(toClient[current]) IN
         /\ phase' \in [Msgs -> {"new", "publish", "release", "done", "lost"}]
         /\ \A m \in Msgs : phase'[m] = phase[m] \/
              /\ m \in Unfinished /\ PacketID[m] = a.id
              /\ \/ a.type = "PUBACK" /\ QoS[m] = 1 /\ phase'[m] = "done"
                 \/ a.type = "PUBREC" /\ QoS[m] = 2 /\ phase'[m] = "release"
                 \/ a.type = "PUBCOMP" /\ phase[m] = "release" /\ phase'[m] = "done"
         /\ \A m \in Unfinished : PacketID[m] = a.id =>
              /\ a.type = "PUBACK" /\ QoS[m] = 1 => phase'[m] = "done"
              /\ a.type = "PUBREC" /\ QoS[m] = 2 => phase'[m] = "release"
              /\ a.type = "PUBCOMP" /\ phase[m] = "release" => phase'[m] = "done"
<1> DEFINE a == Head(toClient[current])
           open == {m \in Unfinished : PacketID[m] = a.id}
           new(m) == CASE m \in open /\ a.type = "PUBACK" /\ QoS[m] = 1 -> "done"
                       [] m \in open /\ a.type = "PUBREC" /\ QoS[m] = 2 -> "release"
                       [] m \in open /\ a.type = "PUBCOMP" /\ phase[m] = "release" -> "done"
                       [] OTHER -> phase[m]
<1>1. phase' = [m \in Msgs |-> new(m)]
  BY Zenon DEF ClientReceive
<1>2. \A m \in Msgs : phase[m] \in {"new", "publish", "release", "done", "lost"}
  BY Zenon DEF TypeInv
<1>3. \A m \in Msgs : m \in open <=> m \in Unfinished /\ PacketID[m] = a.id
  BY Zenon
<1>4. Unfinished \subseteq Msgs
  BY Zenon DEF Unfinished
<1> HIDE DEF a, open
<1>5. \A m \in Msgs : new(m) = phase[m] \/
              /\ m \in open
              /\ \/ a.type = "PUBACK" /\ QoS[m] = 1 /\ new(m) = "done"
                 \/ a.type = "PUBREC" /\ QoS[m] = 2 /\ new(m) = "release"
                 \/ a.type = "PUBCOMP" /\ phase[m] = "release" /\ new(m) = "done"
  BY Zenon
<1>6. \A m \in open :
              /\ a.type = "PUBACK" /\ QoS[m] = 1 => new(m) = "done"
              /\ a.type = "PUBREC" /\ QoS[m] = 2 => new(m) = "release"
              /\ a.type = "PUBCOMP" /\ phase[m] = "release" => new(m) = "done"
  BY Zenon
<1> HIDE DEF new
<1>7. \A m \in Msgs : phase'[m] = new(m)
  BY Zenon, <1>1
<1>8. phase' \in [Msgs -> {"new", "publish", "release", "done", "lost"}]
  BY Zenon, <1>1, <1>2, <1>5
<1> QED BY <1>3, <1>4, <1>5, <1>6, <1>7, <1>8 DEF a

-----------------------------------------------------------------------------
(* Types, and the client's own rules. *)

\* The initial state.
LEMMA InitType == Init => TypeInv /\ ClientInv
<1> SUFFICES ASSUME Init PROVE TypeInv /\ ClientInv
  BY Zenon
<1>1. <<>> \in Seq(ToBroker) /\ <<>> \in Seq(ToClient)
  OBVIOUS
<1>2. TypeInv
  BY Zenon, <1>1 DEF Init, TypeInv
<1>3. ClientInv
  BY Zenon DEF Init, ClientInv, Unfinished
<1> QED BY Zenon, <1>2, <1>3

\* The client keeps them.
LEMMA ClientStepType ==
  ASSUME TypeInv, ClientInv, ClientStep
  PROVE  TypeInv' /\ ClientInv'
<1> USE ConstantsAssumption
<1> Unfinished \subseteq Msgs /\ \A m \in Msgs : m \in Unfinished <=> phase[m] \in {"publish", "release"}
  BY Zenon DEF Unfinished
<1> \A m : m \in Unfinished' <=> m \in Msgs /\ phase'[m] \in {"publish", "release"}
  BY Zenon DEF Unfinished
<1>1. CASE ClientReceive
  <2> DEFINE a == Head(toClient[current])
  <2>1. current # NoConn /\ toClient[current] # <<>> /\ toClient' = [toClient EXCEPT ![current] = Tail(@)]
    BY Zenon, <1>1 DEF ClientReceive
  <2>2. a \in ToClient /\ toClient' \in [Conns -> Seq(ToClient)]
        /\ \A d \in Conns : d # current => toClient'[d] = toClient[d]
    BY Zenon, <2>1, ReceiveEffect
  <2>3. /\ phase' \in [Msgs -> {"new", "publish", "release", "done", "lost"}]
        /\ \A m \in Msgs : phase'[m] = phase[m] \/
             /\ m \in Unfinished
             /\ \/ phase'[m] = "done"
                \/ QoS[m] = 2 /\ phase'[m] = "release" /\ PacketID[m] = a.id
    BY Zenon, <1>1, ReceivePhases
  <2>4. /\ toBroker' \in [Conns -> Seq(ToBroker)]
        /\ \A d \in Conns : d # current => toBroker'[d] = toBroker[d]
    <3>1. a.id \in Ids /\ Pubrel(a.id) \in ToBroker
      BY Zenon, <2>2, Packets, PacketForms
    <3>2. CASE toBroker' = [toBroker EXCEPT ![current] = Append(@, Pubrel(a.id))]
      BY Zenon, <3>1, <3>2, <2>1, SendEffect
    <3>3. CASE toBroker' = toBroker
      BY Zenon, <3>3 DEF TypeInv
    <3> QED BY Zenon, <1>1, <3>2, <3>3 DEF ClientReceive
  <2>5. UNCHANGED <<current, resend, pc, cur, inFlight, published>>
    BY Zenon, <1>1 DEF ClientReceive
  <2>6. TypeInv'
    BY Zenon, <2>2, <2>3, <2>4, <2>5 DEF TypeInv, QoS2Msgs
  <2>7. /\ \A m \in Unfinished' : m \in Unfinished
        /\ \A m \in Msgs : QoS[m] = 1 => phase'[m] # "release"
    BY <2>3 DEF ClientInv
  <2>9. ClientInv'
    BY Zenon, <2>1, <2>2, <2>4, <2>5, <2>7 DEF ClientInv
  <2> QED BY Zenon, <2>6, <2>9
<1>2. CASE ClientDrop
  <2>1. toClient' \in [Conns -> Seq(ToClient)] /\ \A c \in Conns : toClient'[c] \in {toClient[c], <<>>}
    BY <1>2 DEF ClientDrop, TypeInv
  <2>2. TypeInv'
    BY Zenon, <1>2, <2>1 DEF ClientDrop, TypeInv, QoS2Msgs
  <2>3. ClientInv'
    BY Zenon, <1>2, <2>1 DEF ClientDrop, ClientInv
  <2> QED BY Zenon, <2>2, <2>3
<1>3. ASSUME NEW c \in Conns, Connect(c) PROVE TypeInv' /\ ClientInv'
  <2>1. TypeInv'
    BY <1>3 DEF Connect, TypeInv, QoS2Msgs, netVars
  <2>2. ClientInv'
    <3>1. UNCHANGED <<toBroker, toClient>> /\ current' = c /\ pc' = [pc EXCEPT ![c] = "read"]
      BY Zenon, <1>3 DEF Connect, netVars
    <3>2. \A m \in Msgs : phase'[m] = phase[m] \/ phase'[m] = "lost"
      BY Zenon, <1>3 DEF Connect, TypeInv
    <3> QED BY Zenon, <3>1, <3>2 DEF TypeInv, ClientInv
  <2> QED BY Zenon, <2>1, <2>2
<1>4. ASSUME NEW m \in Msgs, ClientPublish(m) PROVE TypeInv' /\ ClientInv'
  <2>1. Publish(m) \in ToBroker /\ current # NoConn
    BY Zenon, <1>4, Packets DEF ClientPublish
  <2>2. toBroker' \in [Conns -> Seq(ToBroker)] /\ \A d \in Conns : d # current => toBroker'[d] = toBroker[d]
    BY Zenon, <1>4, <2>1, SendEffect DEF ClientPublish
  <2>3. TypeInv'
    BY Zenon, <1>4, <2>2 DEF ClientPublish, TypeInv, QoS2Msgs
  <2>4. ClientInv'
    <3>1. UNCHANGED <<current, pc, toClient>>
      BY Zenon, <1>4 DEF ClientPublish
    <3>2. phase'[m] = "publish" /\ \A n \in Msgs : n # m => phase'[n] = phase[n]
      BY Zenon, <1>4 DEF ClientPublish, TypeInv
    <3>3. \A n \in Unfinished' : n = m \/ (n \in Unfinished /\ PacketID[n] # PacketID[m])
      BY Zenon, <1>4, <3>2 DEF ClientPublish
    <3>4. \A n, k \in Unfinished' : PacketID[n] = PacketID[k] => n = k
      BY Zenon, <3>3 DEF ClientInv
    <3> QED BY Zenon, <2>1, <2>2, <3>1, <3>2, <3>4 DEF TypeInv, ClientInv
  <2> QED BY Zenon, <2>3, <2>4
<1>5. ASSUME NEW m \in Msgs, ClientResend(m) PROVE TypeInv' /\ ClientInv'
  <2> DEFINE e == IF phase[m] = "publish" THEN Publish(m) ELSE Pubrel(PacketID[m])
  <2>1. e \in ToBroker /\ current # NoConn
    BY Zenon, <1>5, Packets DEF ClientResend, TypeInv
  <2>2. toBroker' = [toBroker EXCEPT ![current] = Append(@, e)]
    BY Zenon, <1>5 DEF ClientResend
  <2> HIDE DEF e
  <2>3. toBroker' \in [Conns -> Seq(ToBroker)] /\ \A d \in Conns : d # current => toBroker'[d] = toBroker[d]
    BY Zenon, <2>1, <2>2, SendEffect
  <2>4. TypeInv'
    BY Zenon, <1>5, <2>1, <2>3 DEF ClientResend, TypeInv, QoS2Msgs
  <2>5. ClientInv'
    BY Zenon, <1>5, <2>3 DEF ClientResend, TypeInv, ClientInv
  <2> QED BY Zenon, <2>4, <2>5
<1> QED BY Zenon, <1>1, <1>2, <1>3, <1>4, <1>5 DEF ClientStep

\* The broker keeps them.
LEMMA BrokerStepType ==
  ASSUME TypeInv, ClientInv, NEW c \in Conns, BrokerStep(c)
  PROVE  TypeInv' /\ ClientInv'
<1> USE ConstantsAssumption
<1> DEFINE p == Packet(c)
<1> Unfinished' = {m \in Msgs : phase'[m] \in {"publish", "release"}}
  BY Zenon DEF Unfinished
<1>a. ASSUME Reads(c, "PUBLISH")
      PROVE  /\ p.msg \in Msgs /\ p.id = PacketID[p.msg] /\ p.id \in Ids /\ pc[c] = "read"
             /\ toBroker' \in [Conns -> Seq(ToBroker)]
             /\ \A d \in Conns : d # c => toBroker'[d] = toBroker[d]
  BY <1>a, ReadEffect, PacketForms, Packets
<1>b. ASSUME toClient' \in [Conns -> Seq(ToClient)],
             \A d \in Conns : d # c => toClient'[d] = toClient[d],
             \A d \in Conns : d # c => toBroker'[d] = toBroker[d],
             UNCHANGED clientVars, pc[c] # "new",
             \A d \in Conns : pc'[d] = "new" => pc[d] = "new" /\ d # c
      PROVE  ClientInv'
  BY Zenon, <1>b DEF ClientInv, clientVars, Unfinished, TypeInv
<1>1. CASE handlePublishRefused(c)
  <2>1. Reads(c, "PUBLISH") /\ UNCHANGED <<clientVars, pc, cur, inFlight, published>>
    BY Zenon, <1>1 DEF handlePublishRefused
  <2>2. toClient' \in [Conns -> Seq(ToClient)] /\ \A d \in Conns : d # c => toClient'[d] = toClient[d]
    <3>1. CASE toClient' = toClient
      BY Zenon, <3>1 DEF TypeInv
    <3>2. CASE toClient' = enqueuePubAck(c, "PUBACK", p.id)
      BY Zenon, <1>a, <2>1, <3>2, AckEffect
    <3> QED BY Zenon, <1>1, <3>1, <3>2 DEF handlePublishRefused
  <2>3. TypeInv'
    BY Zenon, <1>a, <2>1, <2>2 DEF TypeInv, clientVars, QoS2Msgs
  <2> QED BY Zenon, <1>a, <1>b, <2>1, <2>2, <2>3
<1>2. CASE handlePublishQoS1(c)
  <2>1. Reads(c, "PUBLISH") /\ UNCHANGED <<clientVars, pc, cur, inFlight>>
    BY Zenon, <1>2 DEF handlePublishQoS1
  <2>2. toClient' \in [Conns -> Seq(ToClient)] /\ \A d \in Conns : d # c => toClient'[d] = toClient[d]
    BY Zenon, <1>2, <1>a, <2>1, AckEffect DEF handlePublishQoS1
  <2>3. published' \in [Msgs -> Nat]
    BY <1>2, <1>a, <2>1 DEF handlePublishQoS1, TypeInv
  <2>4. TypeInv'
    BY Zenon, <1>a, <2>1, <2>2, <2>3 DEF TypeInv, clientVars, QoS2Msgs
  <2> QED BY Zenon, <1>a, <1>b, <2>1, <2>2, <2>4
<1>3. CASE handlePublishQoS2(c)
  <2>1. Reads(c, "PUBLISH") /\ UNCHANGED <<clientVars, inFlight, published>>
    BY Zenon, <1>3 DEF handlePublishQoS2
  <2>2. toClient' \in [Conns -> Seq(ToClient)] /\ \A d \in Conns : d # c => toClient'[d] = toClient[d]
    <3>1. CASE toClient' = toClient
      BY Zenon, <3>1 DEF TypeInv
    <3>2. CASE toClient' = enqueuePubAck(c, "PUBREC", p.id)
      BY Zenon, <1>a, <2>1, <3>2, AckEffect
    <3> QED BY Zenon, <1>3, <3>1, <3>2 DEF handlePublishQoS2
  <2>3. p.msg \in QoS2Msgs
    BY Zenon, <1>3, <1>a, <2>1 DEF handlePublishQoS2, QoS2Msgs
  <2>4. /\ pc' \in [Conns -> {"new", "read", "add", "publish", "closed"}]
        /\ cur' \in [Conns -> Msgs \cup {NoMsg}]
        /\ \A d \in Conns : pc'[d] \in {"add", "publish"} => cur'[d] \in QoS2Msgs
        /\ \A d \in Conns : pc'[d] = "new" => pc[d] = "new" /\ d # c
    <3>1. CASE UNCHANGED <<pc, cur>>
      BY Zenon, <3>1, <1>a, <2>1 DEF TypeInv
    <3>2. CASE pc' = [pc EXCEPT ![c] = "add"] /\ cur' = [cur EXCEPT ![c] = p.msg]
      BY Zenon, <3>2, <1>a, <2>1, <2>3 DEF TypeInv
    <3> QED BY Zenon, <1>3, <3>1, <3>2 DEF handlePublishQoS2
  <2>5. TypeInv'
    BY Zenon, <1>a, <2>1, <2>2, <2>4 DEF TypeInv, clientVars, QoS2Msgs
  <2> QED BY Zenon, <1>a, <1>b, <2>1, <2>2, <2>4, <2>5
<1>4. CASE AddInFlight(c)
  <2>1. /\ cur[c] \in QoS2Msgs /\ cur[c] \in Msgs /\ PacketID[cur[c]] \in Ids
        /\ UNCHANGED <<clientVars, toBroker, published>> /\ pc[c] = "add"
    BY Zenon, <1>4, Packets DEF AddInFlight, TypeInv, QoS2Msgs
  <2>2. toClient' \in [Conns -> Seq(ToClient)] /\ \A d \in Conns : d # c => toClient'[d] = toClient[d]
    BY Zenon, <1>4, <2>1, AckEffect DEF AddInFlight
  <2>3. TypeInv'
    BY ZenonT(60), <1>4, <2>1, <2>2 DEF AddInFlight, TypeInv, clientVars, QoS2Msgs
  <2>4. \A d \in Conns : pc'[d] = "new" => pc[d] = "new" /\ d # c
    BY Zenon, <1>4 DEF AddInFlight, TypeInv
  <2> QED BY Zenon, <1>b, <2>1, <2>2, <2>3, <2>4
<1>5. CASE handlePubrel(c)
  <2>1. Reads(c, "PUBREL") /\ UNCHANGED <<clientVars, published>>
    BY Zenon, <1>5 DEF handlePubrel
  <2>2. /\ p.id \in Ids /\ pc[c] = "read" /\ toBroker' \in [Conns -> Seq(ToBroker)]
        /\ \A d \in Conns : d # c => toBroker'[d] = toBroker[d]
    BY <2>1, ReadEffect, PacketForms
  <2>3. toClient' \in [Conns -> Seq(ToClient)] /\ \A d \in Conns : d # c => toClient'[d] = toClient[d]
    <3>1. CASE toClient' = toClient
      BY Zenon, <3>1 DEF TypeInv
    <3>2. CASE toClient' = enqueuePubAck(c, "PUBCOMP", p.id)
      BY Zenon, <2>2, <3>2, AckEffect
    <3> QED BY Zenon, <1>5, <3>1, <3>2 DEF handlePubrel
  <2>4. /\ pc' \in [Conns -> {"new", "read", "add", "publish", "closed"}]
        /\ cur' \in [Conns -> Msgs \cup {NoMsg}]
        /\ \A d \in Conns : pc'[d] \in {"add", "publish"} => cur'[d] \in QoS2Msgs
        /\ \A d \in Conns : pc'[d] = "new" => pc[d] = "new" /\ d # c
    <3>1. CASE UNCHANGED <<pc, cur>>
      BY <3>1, <2>2 DEF TypeInv
    <3>2. CASE pc' = [pc EXCEPT ![c] = "publish"] /\ cur' = [cur EXCEPT ![c] = inFlight[p.id]] /\ inFlight[p.id] # NoMsg
      <4>1. inFlight[p.id] \in QoS2Msgs /\ inFlight[p.id] \in Msgs
        BY <3>2, <2>2 DEF TypeInv, QoS2Msgs
      <4> QED BY <3>2, <4>1, <2>2 DEF TypeInv
    <3> QED BY Zenon, <1>5, <3>1, <3>2 DEF handlePubrel
  <2>5. inFlight' \in [Ids -> QoS2Msgs \cup {NoMsg}]
    BY Zenon, <1>5, <2>2 DEF handlePubrel, TypeInv
  <2>6. TypeInv'
    BY Zenon, <2>1, <2>2, <2>3, <2>4, <2>5 DEF TypeInv, clientVars, QoS2Msgs
  <2> QED BY Zenon, <1>b, <2>1, <2>2, <2>3, <2>4, <2>6
<1>6. CASE PublishReleased(c)
  <2>1. /\ cur[c] \in Msgs /\ PacketID[cur[c]] \in Ids
        /\ UNCHANGED <<clientVars, toBroker, inFlight>> /\ pc[c] = "publish"
    BY Zenon, <1>6, Packets DEF PublishReleased, TypeInv, QoS2Msgs
  <2>2. toClient' \in [Conns -> Seq(ToClient)] /\ \A d \in Conns : d # c => toClient'[d] = toClient[d]
    BY Zenon, <1>6, <2>1, AckEffect DEF PublishReleased
  <2>3. published' \in [Msgs -> Nat]
    BY <1>6, <2>1 DEF PublishReleased, TypeInv
  <2>4. TypeInv'
    BY ZenonT(60), <1>6, <2>1, <2>2, <2>3 DEF PublishReleased, TypeInv, clientVars, QoS2Msgs
  <2>5. \A d \in Conns : pc'[d] = "new" => pc[d] = "new" /\ d # c
    BY Zenon, <1>6 DEF PublishReleased, TypeInv
  <2> QED BY Zenon, <1>b, <2>1, <2>2, <2>4, <2>5
<1>7. CASE ReadLoopEnds(c)
  <2>1. TypeInv'
    BY <1>7 DEF ReadLoopEnds, TypeInv, QoS2Msgs
  <2>2. ClientInv'
    BY <1>7 DEF ReadLoopEnds, TypeInv, ClientInv, Unfinished
  <2> QED BY Zenon, <2>1, <2>2
<1> QED BY Zenon, <1>1, <1>2, <1>3, <1>4, <1>5, <1>6, <1>7 DEF BrokerStep

\* Every step keeps the types and the rules of the client.
LEMMA TypeStep ==
  ASSUME TypeInv, ClientInv, [Next]_vars
  PROVE  TypeInv' /\ ClientInv'
<1>1. CASE ClientStep
  BY Zenon, <1>1, ClientStepType
<1>2. CASE Restart
  <2>1. <<>> \in Seq(ToBroker) /\ <<>> \in Seq(ToClient)
    OBVIOUS
  <2>2. TypeInv'
    BY Zenon, <1>2, <2>1 DEF Restart, TypeInv, QoS2Msgs
  <2>3. ClientInv'
    BY Zenon, <1>2 DEF Restart, TypeInv, ClientInv, Unfinished
  <2> QED BY Zenon, <2>2, <2>3
<1>3. CASE \E c \in Conns : BrokerStep(c)
  BY Zenon, <1>3, BrokerStepType
<1>4. CASE UNCHANGED vars
  BY Zenon, <1>4 DEF vars, clientVars, netVars, TypeInv, ClientInv, Unfinished, QoS2Msgs
<1> QED BY Zenon, <1>1, <1>2, <1>3, <1>4 DEF Next

-----------------------------------------------------------------------------
(* QoS 1. *)

\* The client's steps keep a QoS 1 message to one packet, and count it as acknowledged
\* only by a PUBACK that was sent for it.
LEMMA ClientStepQoS1 ==
  ASSUME TypeInv, ClientInv, QoS1Inv, AtLeastOnce, ClientStep, TypeInv'
  PROVE  QoS1Inv' /\ AtLeastOnce'
<1> USE ConstantsAssumption
<1>u. Unfinished \subseteq Msgs /\ \A m \in Msgs : m \in Unfinished <=> phase[m] \in {"publish", "release"}
  BY Zenon DEF Unfinished
<1>1. CASE ClientReceive
  <2> DEFINE a == Head(toClient[current])
  <2>1. current # NoConn /\ current \in Conns /\ toClient[current] # <<>>
        /\ toClient' = [toClient EXCEPT ![current] = Tail(@)]
        /\ UNCHANGED <<current, resend, published>>
    BY Zenon, <1>1 DEF ClientReceive, TypeInv
  <2>2. /\ a \in ToClient /\ In(toClient[current], a) /\ a = Ack(a.type, a.id) /\ a.id \in Ids
        /\ \A x : In(toClient'[current], x) => In(toClient[current], x)
        /\ \A x : Once(toClient[current], x) => Once(toClient'[current], x)
        /\ Once(toClient[current], a) => ~In(toClient'[current], a)
    BY Zenon, <2>1, ReceiveEffect, PacketForms
  <2>3. /\ \A m \in Msgs : QoS[m] = 1 => phase'[m] = phase[m] \/
             /\ phase[m] = "publish" /\ PacketID[m] = a.id
             /\ a.type = "PUBACK" /\ phase'[m] = "done"
        /\ \A m \in Msgs : QoS[m] = 1 /\ phase[m] = "publish" /\ PacketID[m] = a.id /\ a.type = "PUBACK" =>
             phase'[m] = "done"
    BY <1>1, <1>u, ReceivePhases DEF ClientInv
  <2>4. \A m \in Msgs :
          /\ In(toBroker'[current], Publish(m)) => In(toBroker[current], Publish(m))
          /\ Once(toBroker[current], Publish(m)) => Once(toBroker'[current], Publish(m))
    <3>1. Pubrel(a.id) \in ToBroker /\ \A m \in Msgs : Publish(m) # Pubrel(a.id)
      BY Zenon, <2>2, Packets
    <3>2. CASE toBroker' = [toBroker EXCEPT ![current] = Append(@, Pubrel(a.id))]
      BY Zenon, <3>1, <3>2, <2>1, SendEffect
    <3>3. CASE toBroker' = toBroker
      BY Zenon, <3>3
    <3> QED BY Zenon, <1>1, <3>2, <3>3 DEF ClientReceive
  <2> HIDE DEF a
  <2>5. \A m \in Msgs : QoS[m] = 1 /\ phase[m] = "publish" /\ phase'[m] = "done" =>
          /\ m \notin resend /\ ~In(toBroker[current], Publish(m)) /\ (m \in Denied \/ published[m] >= 1)
    BY Zenon, <2>1, <2>2, <2>3 DEF QoS1Inv, QoS1Packets
  <2>6. AtLeastOnce'
    BY Zenon, <2>1, <2>3, <2>5 DEF AtLeastOnce
  <2>7. \A m \in Msgs : QoS[m] = 1 => QoS1Packets(m)'
    <3>1. SUFFICES ASSUME NEW m \in Msgs, QoS[m] = 1 PROVE QoS1Packets(m)'
      BY Zenon
    <3>2. QoS1Packets(m)
      BY Zenon, <3>1, <2>1 DEF QoS1Inv
    <3> QED BY Zenon, <2>1, <2>2, <2>3, <2>4, <2>5, <3>1, <3>2 DEF QoS1Packets
  <2>8. \A i \in Ids : PubackInv(i)'
    <3>1. SUFFICES ASSUME NEW i \in Ids PROVE PubackInv(i)'
      BY Zenon
    <3>2. PubackInv(i) /\ PubackInv(a.id)
      BY Zenon, <2>1, <2>2 DEF QoS1Inv
    <3>3. Once(toClient'[current], Ack("PUBACK", i))
      BY Zenon, <2>2, <3>2 DEF PubackInv
    <3>4. ASSUME In(toClient'[current], Ack("PUBACK", i))
          PROVE  \E m \in Msgs : QoS[m] = 1 /\ phase'[m] = "publish" /\ PacketID[m] = i
      <4>1. PICK m \in Msgs : QoS[m] = 1 /\ phase[m] = "publish" /\ PacketID[m] = i
        BY Zenon, <3>2, <3>4, <2>2 DEF PubackInv
      <4>2. ~(a.type = "PUBACK" /\ a.id = i)
        BY Zenon, <3>2, <3>4, <2>2 DEF PubackInv
      <4>3. phase'[m] = "publish"
        BY Zenon, <2>3, <4>1, <4>2
      <4> QED BY Zenon, <4>1, <4>3
    <3> QED BY Zenon, <2>1, <3>3, <3>4 DEF PubackInv
  <2> QED BY Zenon, <2>1, <2>6, <2>7, <2>8 DEF QoS1Inv
<1>2. CASE ClientDrop
  <2>1. current' = NoConn /\ UNCHANGED <<phase, published>>
    BY Zenon, <1>2 DEF ClientDrop
  <2> QED BY Zenon, <2>1 DEF QoS1Inv, AtLeastOnce
<1>3. ASSUME NEW c \in Conns, Connect(c) PROVE QoS1Inv' /\ AtLeastOnce'
  <2>1. /\ current' = c /\ UNCHANGED <<toBroker, toClient, published>>
        /\ resend' = {} \/ (resend' = Unfinished /\ UNCHANGED phase)
        /\ \A m \in Msgs : phase'[m] # phase[m] => phase'[m] = "lost"
    BY <1>3 DEF Connect, netVars, TypeInv
  <2>2. toBroker[c] = <<>> /\ toClient[c] = <<>>
    BY Zenon, <1>3 DEF Connect, ClientInv
  <2>3. AtLeastOnce'
    BY Zenon, <2>1 DEF AtLeastOnce
  <2>4. QoS1Inv'
    BY <2>1, <2>2, <1>u, EmptyChannel DEF QoS1Inv, QoS1Packets, PubackInv, ClientInv
  <2> QED BY Zenon, <2>3, <2>4
<1>4. ASSUME NEW m \in Msgs, ClientPublish(m) PROVE QoS1Inv' /\ AtLeastOnce'
  <2>1. /\ current # NoConn /\ current \in Conns /\ UNCHANGED <<current, resend, toClient, published>>
        /\ phase[m] = "new" /\ \A n \in Unfinished : PacketID[n] # PacketID[m]
    BY Zenon, <1>4 DEF ClientPublish, TypeInv
  <2>2. phase'[m] = "publish" /\ \A n \in Msgs : n # m => phase'[n] = phase[n]
    BY <1>4 DEF ClientPublish, TypeInv
  <2>3. /\ \A x : In(toBroker'[current], x) <=> In(toBroker[current], x) \/ x = Publish(m)
        /\ \A x : Once(toBroker[current], x) /\ (x = Publish(m) => ~In(toBroker[current], x))
              => Once(toBroker'[current], x)
    BY Zenon, <1>4, <2>1, Packets, SendEffect DEF ClientPublish
  <2>4. AtLeastOnce'
    BY Zenon, <2>1, <2>2 DEF AtLeastOnce
  <2>5. ~In(toClient[current], Ack("PUBACK", PacketID[m]))
    BY Zenon, <2>1, <1>u, Packets DEF QoS1Inv, PubackInv
  <2>6. \A n \in Msgs : QoS[n] = 1 => QoS1Packets(n)'
    <3>1. SUFFICES ASSUME NEW n \in Msgs, QoS[n] = 1 PROVE QoS1Packets(n)'
      BY Zenon
    <3>2. QoS1Packets(n)
      BY Zenon, <3>1, <2>1 DEF QoS1Inv
    <3>3. CASE n = m
      BY Zenon, <3>2, <3>3, <2>1, <2>2, <2>3, <2>5 DEF QoS1Packets
    <3>4. CASE n # m
      <4>1. Publish(n) # Publish(m)
        BY Zenon, <3>4, Packets
      <4> QED BY Zenon, <3>2, <3>4, <4>1, <2>1, <2>2, <2>3 DEF QoS1Packets
    <3> QED BY Zenon, <3>3, <3>4
  <2>7. \A i \in Ids : PubackInv(i)'
    BY <2>1, <2>2 DEF QoS1Inv, PubackInv
  <2> QED BY Zenon, <2>1, <2>4, <2>6, <2>7 DEF QoS1Inv
<1>5. ASSUME NEW m \in Msgs, ClientResend(m) PROVE QoS1Inv' /\ AtLeastOnce'
  <2> DEFINE e == IF phase[m] = "publish" THEN Publish(m) ELSE Pubrel(PacketID[m])
  <2>1. /\ current # NoConn /\ current \in Conns /\ UNCHANGED <<phase, current, toClient, published>>
        /\ m \in resend /\ resend' = resend \ {m}
        /\ toBroker' = [toBroker EXCEPT ![current] = Append(@, e)]
    BY Zenon, <1>5 DEF ClientResend, TypeInv
  <2>2. e \in ToBroker /\ \A n \in Msgs : Publish(n) = e => n = m
    BY Zenon, Packets
  <2>3. /\ \A x : In(toBroker'[current], x) <=> In(toBroker[current], x) \/ x = e
        /\ \A x : Once(toBroker[current], x) /\ (x = e => ~In(toBroker[current], x))
              => Once(toBroker'[current], x)
    BY Zenon, <2>1, <2>2, SendEffect
  <2> HIDE DEF e
  <2>4. AtLeastOnce'
    BY Zenon, <2>1 DEF AtLeastOnce
  <2>5. \A n \in Msgs : QoS[n] = 1 => QoS1Packets(n)'
    <3>1. SUFFICES ASSUME NEW n \in Msgs, QoS[n] = 1 PROVE QoS1Packets(n)'
      BY Zenon
    <3>2. QoS1Packets(n)
      BY Zenon, <3>1, <2>1 DEF QoS1Inv
    <3> QED BY Zenon, <3>1, <3>2, <2>1, <2>2, <2>3 DEF QoS1Packets
  <2>6. \A i \in Ids : PubackInv(i)'
    BY Zenon, <2>1 DEF QoS1Inv, PubackInv
  <2> QED BY Zenon, <2>1, <2>4, <2>5, <2>6 DEF QoS1Inv
<1> QED BY Zenon, <1>1, <1>2, <1>3, <1>4, <1>5 DEF ClientStep

\* The broker's steps: a PUBACK takes the place of the PUBLISH it answers.
LEMMA BrokerStepQoS1 ==
  ASSUME TypeInv, ClientInv, QoS1Inv, AtLeastOnce, NEW c \in Conns, BrokerStep(c)
  PROVE  QoS1Inv' /\ AtLeastOnce'
<1> USE ConstantsAssumption
<1> DEFINE p == Packet(c)
\* A step that leaves the client alone, takes nothing from the count of published
\* messages, and adds no PUBACK and no PUBLISH.
<1>a. ASSUME UNCHANGED <<phase, current, resend>>,
             \A m \in Msgs : published[m] >= 1 => published'[m] >= 1,
             \A d \in Conns, m \in Msgs :
               /\ In(toBroker'[d], Publish(m)) => In(toBroker[d], Publish(m))
               /\ Once(toBroker[d], Publish(m)) => Once(toBroker'[d], Publish(m)),
             \A d \in Conns, i \in Ids :
               /\ In(toClient'[d], Ack("PUBACK", i)) => In(toClient[d], Ack("PUBACK", i))
               /\ Once(toClient[d], Ack("PUBACK", i)) => Once(toClient'[d], Ack("PUBACK", i))
      PROVE  QoS1Inv' /\ AtLeastOnce'
  <2>1. AtLeastOnce'
    BY Zenon, <1>a DEF AtLeastOnce
  <2>2. \A m \in Msgs : PacketID[m] \in Ids
    BY Zenon, Packets
  <2>3. ASSUME current # NoConn PROVE \A m \in Msgs : QoS[m] = 1 => QoS1Packets(m)'
    BY Zenon, <2>2, <2>3, <1>a DEF QoS1Inv, QoS1Packets, TypeInv
  <2>4. ASSUME current # NoConn PROVE \A i \in Ids : PubackInv(i)'
    BY Zenon, <2>4, <1>a DEF QoS1Inv, PubackInv, TypeInv
  <2> QED BY Zenon, <1>a, <2>1, <2>3, <2>4 DEF QoS1Inv
\* An acknowledgement of another kind is no PUBACK.
<1>b. ASSUME NEW t \in {"PUBREC", "PUBCOMP"}, NEW j \in Ids, toClient' = enqueuePubAck(c, t, j)
      PROVE  \A d \in Conns, i \in Ids :
               /\ In(toClient'[d], Ack("PUBACK", i)) => In(toClient[d], Ack("PUBACK", i))
               /\ Once(toClient[d], Ack("PUBACK", i)) => Once(toClient'[d], Ack("PUBACK", i))
  <2>1. \A i \in Ids : Ack("PUBACK", i) # Ack(t, j)
    BY Packets
  <2>2. t \in {"PUBACK", "PUBREC", "PUBCOMP"}
    BY Zenon
  <2>3. /\ \A d \in Conns : \A x : In(toClient'[d], x) => In(toClient[d], x) \/ x = Ack(t, j)
        /\ \A d \in Conns : \A x : Once(toClient[d], x) /\ x # Ack(t, j) => Once(toClient'[d], x)
    BY ZenonT(60), <1>b, <2>2, AckEffect
  <2> QED BY Zenon, <2>1, <2>3
\* A QoS 1 PUBLISH is read and answered with a PUBACK.
<1>c. ASSUME Reads(c, "PUBLISH"), QoS[p.msg] = 1, UNCHANGED <<phase, current, resend>>,
             \A m \in Msgs : published[m] >= 1 => published'[m] >= 1,
             p.msg \in Denied \/ published'[p.msg] >= 1,
             toClient' = enqueuePubAck(c, "PUBACK", p.id)
      PROVE  QoS1Inv' /\ AtLeastOnce'
  <2>1. /\ p.msg \in Msgs /\ p.id = PacketID[p.msg] /\ p.id \in Ids /\ p = Publish(p.msg)
        /\ In(toBroker[c], p)
        /\ \A d \in Conns : d # c => toBroker'[d] = toBroker[d]
        /\ \A d \in Conns : \A x : In(toBroker'[d], x) => In(toBroker[d], x)
        /\ \A d \in Conns : \A x : Once(toBroker[d], x) => Once(toBroker'[d], x)
        /\ Once(toBroker[c], p) => ~In(toBroker'[c], p)
    <3>1. Reads(c, "PUBLISH")
      BY Zenon, <1>c
    <3>2. /\ p \in ToBroker /\ p.type = "PUBLISH" /\ In(toBroker[c], p)
          /\ \A d \in Conns : d # c => toBroker'[d] = toBroker[d]
          /\ \A d \in Conns : \A x : In(toBroker'[d], x) => In(toBroker[d], x)
          /\ \A d \in Conns : \A x : Once(toBroker[d], x) => Once(toBroker'[d], x)
          /\ Once(toBroker[c], p) => ~In(toBroker'[c], p)
      BY Zenon, <3>1, ReadEffect
    <3> HIDE DEF p
    <3> QED BY Zenon, <3>2, PacketForms, Packets
  <2>2. /\ \A d \in Conns : d # c \/ c # current => toClient'[d] = toClient[d]
        /\ \A d \in Conns : \A x : In(toClient'[d], x) =>
              In(toClient[d], x) \/ (x = Ack("PUBACK", p.id) /\ d = c /\ c = current)
        /\ \A d \in Conns : \A x : Once(toClient[d], x) /\ (x = Ack("PUBACK", p.id) /\ d = c => ~In(toClient[d], x))
              => Once(toClient'[d], x)
    BY Zenon, <1>c, <2>1, AckEffect
  <2>3. CASE c # current
    BY Zenon, <2>1, <2>2, <2>3, <1>a, <1>c
  <2>4. CASE c = current
    <3>1. current # NoConn
      BY Zenon, <2>4
    <3>2. QoS1Packets(p.msg) /\ phase[p.msg] = "publish"
      BY Zenon, <1>c, <2>1, <2>4, <3>1 DEF QoS1Inv, QoS1Packets
    <3>3. ~In(toClient[current], Ack("PUBACK", p.id)) /\ p.msg \notin resend /\ ~In(toBroker'[current], p)
      BY Zenon, <2>1, <2>4, <3>2 DEF QoS1Packets
    <3>4. AtLeastOnce'
      BY Zenon, <1>c DEF AtLeastOnce
    <3>5. \A m \in Msgs : QoS[m] = 1 => QoS1Packets(m)'
      <4>1. SUFFICES ASSUME NEW m \in Msgs, QoS[m] = 1 PROVE QoS1Packets(m)'
        BY Zenon
      <4>2. QoS1Packets(m) /\ current \in Conns
        BY Zenon, <4>1, <3>1, <2>4 DEF QoS1Inv
      <4>3. CASE m = p.msg
        BY Zenon, <4>2, <4>3, <1>c, <2>1, <2>4, <3>2, <3>3 DEF QoS1Packets
      <4>4. CASE m # p.msg
        <5>1. phase[m] = "publish" => Ack("PUBACK", PacketID[m]) # Ack("PUBACK", p.id)
          BY <4>4, <2>1, <3>2, Packets DEF ClientInv, Unfinished
        <5> QED BY Zenon, <4>2, <4>4, <5>1, <1>c, <2>1, <2>2, <2>4 DEF QoS1Packets
      <4> QED BY Zenon, <4>3, <4>4
    <3>6. \A i \in Ids : PubackInv(i)'
      <4>1. SUFFICES ASSUME NEW i \in Ids PROVE PubackInv(i)'
        BY Zenon
      <4>2. PubackInv(i) /\ current \in Conns
        BY Zenon, <3>1, <2>4 DEF QoS1Inv
      <4>3. i # p.id => Ack("PUBACK", i) # Ack("PUBACK", p.id)
        BY Zenon, Packets
      <4> QED BY Zenon, <4>2, <4>3, <1>c, <2>1, <2>2, <2>4, <3>2, <3>3 DEF PubackInv
    <3> QED BY Zenon, <1>c, <3>1, <3>4, <3>5, <3>6 DEF QoS1Inv
  <2> QED BY Zenon, <2>3, <2>4
<1>d. ASSUME NEW t, Reads(c, t)
      PROVE  \A d \in Conns, m \in Msgs :
               /\ In(toBroker'[d], Publish(m)) => In(toBroker[d], Publish(m))
               /\ Once(toBroker[d], Publish(m)) => Once(toBroker'[d], Publish(m))
  BY Zenon, <1>d, ReadEffect
<1>1. CASE handlePublishRefused(c)
  <2>1. Reads(c, "PUBLISH") /\ UNCHANGED <<phase, current, resend, published>>
    BY Zenon, <1>1 DEF handlePublishRefused, clientVars
  <2>2. CASE toClient' = toClient
    BY Zenon, <2>1, <2>2, <1>a, <1>d
  <2>3. CASE p.msg \in Denied /\ QoS[p.msg] = 1 /\ toClient' = enqueuePubAck(c, "PUBACK", p.id)
    BY Zenon, <2>1, <2>3, <1>c
  <2> QED BY Zenon, <1>1, <2>2, <2>3 DEF handlePublishRefused
<1>2. CASE handlePublishQoS1(c)
  <2>1. /\ Reads(c, "PUBLISH") /\ UNCHANGED <<phase, current, resend>> /\ QoS[p.msg] = 1
        /\ toClient' = enqueuePubAck(c, "PUBACK", p.id)
        /\ published' = [published EXCEPT ![p.msg] = @ + 1]
    BY Zenon, <1>2 DEF handlePublishQoS1, clientVars
  <2>2. p.msg \in Msgs
    BY <2>1, ReadEffect, PacketForms
  <2>3. published'[p.msg] >= 1 /\ \A m \in Msgs : published[m] >= 1 => published'[m] >= 1
    BY <2>1, <2>2 DEF TypeInv
  <2> QED BY Zenon, <2>1, <2>3, <1>c
<1>3. CASE handlePublishQoS2(c)
  <2>1. Reads(c, "PUBLISH") /\ UNCHANGED <<phase, current, resend, published>>
    BY Zenon, <1>3 DEF handlePublishQoS2, clientVars
  <2>2. p.id \in Ids
    BY <2>1, ReadEffect, PacketForms, Packets
  <2>3. CASE toClient' = toClient
    BY Zenon, <2>1, <2>3, <1>a, <1>d
  <2>4. CASE toClient' = enqueuePubAck(c, "PUBREC", p.id)
    BY Zenon, <2>1, <2>2, <2>4, <1>a, <1>b, <1>d
  <2> QED BY Zenon, <1>3, <2>3, <2>4 DEF handlePublishQoS2
<1>4. CASE AddInFlight(c)
  <2>1. UNCHANGED <<phase, current, resend, toBroker, published>> /\ PacketID[cur[c]] \in Ids
    BY Zenon, <1>4, Packets DEF AddInFlight, clientVars, TypeInv, QoS2Msgs
  <2>2. toClient' = enqueuePubAck(c, "PUBREC", PacketID[cur[c]])
    BY Zenon, <1>4 DEF AddInFlight
  <2> QED BY Zenon, <2>1, <2>2, <1>a, <1>b
<1>5. CASE handlePubrel(c)
  <2>1. Reads(c, "PUBREL") /\ UNCHANGED <<phase, current, resend, published>>
    BY Zenon, <1>5 DEF handlePubrel, clientVars
  <2>2. p.id \in Ids
    BY <2>1, ReadEffect, PacketForms
  <2>3. CASE toClient' = toClient
    BY Zenon, <2>1, <2>3, <1>a, <1>d
  <2>4. CASE toClient' = enqueuePubAck(c, "PUBCOMP", p.id)
    BY Zenon, <2>1, <2>2, <2>4, <1>a, <1>b, <1>d
  <2> QED BY Zenon, <1>5, <2>3, <2>4 DEF handlePubrel
<1>6. CASE PublishReleased(c)
  <2>1. UNCHANGED <<phase, current, resend, toBroker>> /\ cur[c] \in Msgs /\ PacketID[cur[c]] \in Ids
    BY Zenon, <1>6, Packets DEF PublishReleased, clientVars, TypeInv, QoS2Msgs
  <2>2. toClient' = enqueuePubAck(c, "PUBCOMP", PacketID[cur[c]])
    BY Zenon, <1>6 DEF PublishReleased
  <2>3. \A m \in Msgs : published[m] >= 1 => published'[m] >= 1
    BY <1>6, <2>1 DEF PublishReleased, TypeInv
  <2> QED BY Zenon, <2>1, <2>2, <2>3, <1>a, <1>b
<1>7. CASE ReadLoopEnds(c)
  <2>1. UNCHANGED <<phase, published>> /\ (current' = NoConn \/ (c # current /\ UNCHANGED <<current, resend>>))
    BY Zenon, <1>7 DEF ReadLoopEnds
  <2>2. AtLeastOnce'
    BY Zenon, <2>1 DEF AtLeastOnce
  <2>3. \A d \in Conns : /\ toBroker'[d] = toBroker[d] \/ toBroker'[d] = <<>>
                         /\ toClient'[d] = toClient[d] \/ toClient'[d] = <<>>
    BY Zenon, <1>7 DEF ReadLoopEnds, TypeInv
  <2>4. CASE current' = NoConn
    BY Zenon, <2>4, <2>2 DEF QoS1Inv
  <2>5. CASE UNCHANGED <<current, resend>>
    BY Zenon, <2>1, <2>3, <2>5, <1>a, EmptyChannel
  <2> QED BY Zenon, <2>1, <2>4, <2>5
<1> QED BY Zenon, <1>1, <1>2, <1>3, <1>4, <1>5, <1>6, <1>7 DEF BrokerStep

\* Every step keeps QoS 1 in order.
LEMMA QoS1Step ==
  ASSUME TypeInv, ClientInv, QoS1Inv, AtLeastOnce, [Next]_vars
  PROVE  QoS1Inv' /\ AtLeastOnce'
<1>1. CASE ClientStep
  BY Zenon, <1>1, TypeStep, ClientStepQoS1
<1>2. CASE Restart
  <2>1. current' = NoConn /\ UNCHANGED <<phase, published>>
    BY Zenon, <1>2 DEF Restart
  <2> QED BY Zenon, <2>1 DEF QoS1Inv, AtLeastOnce
<1>3. CASE \E c \in Conns : BrokerStep(c)
  BY Zenon, <1>3, BrokerStepQoS1
<1>4. CASE UNCHANGED vars
  <2>1. UNCHANGED <<phase, current, resend, toBroker, toClient, published>>
    BY Zenon, <1>4 DEF vars, clientVars, netVars
  <2>2. AtLeastOnce'
    BY Zenon, <2>1 DEF AtLeastOnce
  <2>3. QoS1Inv'
    BY Zenon, <2>1 DEF QoS1Inv, QoS1Packets, PubackInv
  <2> QED BY Zenon, <2>2, <2>3
<1> QED BY Zenon, <1>1, <1>2, <1>3, <1>4 DEF Next

\* handlePublish, QoS 1: whatever connections overlap, break or are taken over, and however
\* often messages are sent again, a message the client counts as acknowledged was published,
\* or was one the access rules deny.
THEOREM AcknowledgedIsPublished == Spec => []AtLeastOnce
<1>1. Init => QoS1Inv /\ AtLeastOnce
  BY Zenon DEF Init, QoS1Inv, AtLeastOnce
<1>2. TypeInv /\ ClientInv /\ QoS1Inv /\ AtLeastOnce /\ [Next]_vars
        => (TypeInv /\ ClientInv /\ QoS1Inv /\ AtLeastOnce)'
  BY TypeStep, QoS1Step
<1> QED BY <1>1, <1>2, InitType, PTL DEF Spec

-----------------------------------------------------------------------------
\* One connection at a time has a goroutine and packets on their way.
SerialInv ==
  /\ \A c, d \in Conns : pc[c] \notin {"new", "closed"} /\ pc[d] \notin {"new", "closed"} => c = d
  /\ current # NoConn => pc[current] \notin {"new", "closed"} /\ exists
  /\ \A c \in Conns : toClient[c] # <<>> => c = current
  /\ \A c \in Conns : pc[c] \in {"new", "closed"} => toBroker[c] = <<>>
  /\ ~exists => \A i \in Ids : inFlight[i] = NoMsg
  /\ ~exists => \A c \in Conns : pc[c] \in {"new", "closed"}

\* Where a QoS 2 message of phase "publish" is: nowhere, or in one of the four places on
\* the way to PUBREC.
PublishPhase(m, c) ==
  LET i    == PacketID[m]
      sent == In(toBroker[c], Publish(m))
      adds == pc[c] = "add" /\ cur[c] = m
      rec  == In(toClient[c], Ack("PUBREC", i))
  IN  /\ published[m] = 0 /\ inFlight[i] \in {NoMsg, m}
      /\ Once(toBroker[c], Publish(m)) /\ Once(toClient[c], Ack("PUBREC", i))
      /\ m \in resend => ~sent /\ ~adds /\ ~rec
      /\ sent => ~adds /\ ~rec
      /\ adds => ~rec /\ inFlight[i] = NoMsg
      /\ rec => inFlight[i] = m
      /\ ~In(toBroker[c], Pubrel(i)) /\ ~(pc[c] = "publish" /\ cur[c] = m)
      /\ ~In(toClient[c], Ack("PUBCOMP", i))

\* The same on the way to PUBCOMP; before the PUBREL is handled the message is in the
\* session, after that it is in the hands of handlePubrel or published.
ReleasePhase(m, c) ==
  LET i    == PacketID[m]
      rel  == In(toBroker[c], Pubrel(i))
      pubs == pc[c] = "publish" /\ cur[c] = m
      comp == In(toClient[c], Ack("PUBCOMP", i))
  IN  /\ published[m] \in {0, 1} /\ inFlight[i] \in {NoMsg, m}
      /\ inFlight[i] = m => published[m] = 0 /\ ~pubs
      /\ Once(toBroker[c], Pubrel(i)) /\ Once(toClient[c], Ack("PUBCOMP", i))
      /\ m \in resend => ~rel /\ ~pubs /\ ~comp
      /\ rel => ~pubs /\ ~comp
      /\ pubs => ~comp /\ published[m] = 0
      /\ comp => published[m] = 1
      /\ exists /\ published[m] = 0 =>
           inFlight[i] = m \/ \E d \in Conns : pc[d] = "publish" /\ cur[d] = m
      /\ ~In(toBroker[c], Publish(m)) /\ ~(pc[c] = "add" /\ cur[c] = m)
      /\ ~In(toClient[c], Ack("PUBREC", i))

\* A message not yet sent, confirmed or given up is nowhere on its way.
NoPhase(m, c) ==
  /\ m \notin resend
  /\ ~In(toBroker[c], Publish(m))
  /\ ~(pc[c] \in {"add", "publish"} /\ cur[c] = m)

\* What carries an identifier only belongs to an unfinished message.
Owned(i, c) ==
  /\ In(toClient[c], Ack("PUBREC", i)) =>
       \E m \in QoS2Msgs : PacketID[m] = i /\ phase[m] = "publish"
  /\ In(toBroker[c], Pubrel(i)) \/ In(toClient[c], Ack("PUBCOMP", i)) =>
       \E m \in QoS2Msgs : PacketID[m] = i /\ phase[m] = "release"

QoS2Packets(m, c) ==
  /\ phase[m] = "publish" => PublishPhase(m, c)
  /\ phase[m] = "release" => ReleasePhase(m, c)
  /\ phase[m] \in {"new", "done", "lost"} => NoPhase(m, c)
  /\ phase[m] = "new" => published[m] = 0

QoS2Inv ==
  /\ \A m \in QoS2Msgs, c \in Conns : QoS2Packets(m, c)
  /\ \A i \in Ids : inFlight[i] # NoMsg => inFlight[i] \in Unfinished /\ PacketID[inFlight[i]] = i
  /\ \A i \in Ids, c \in Conns : Owned(i, c)

-----------------------------------------------------------------------------
(* QoS 2, when a client connects again only after the broker is done with its   *)
(* previous connection.                                                         *)

\* Only one connection at a time is at work.
LEMMA SerialStep ==
  ASSUME TypeInv, SerialInv, ~Overlap, [Next]_vars
  PROVE  SerialInv'
<1> USE ConstantsAssumption
<1>a. ASSUME NEW c \in Conns, pc[c] \notin {"new", "closed"}, UNCHANGED <<current, exists>>,
             \A d \in Conns : d # c => pc'[d] = pc[d] /\ toBroker'[d] = toBroker[d],
             pc'[c] \notin {"new", "closed"},
             \A d \in Conns : d # c \/ c # current => toClient'[d] = toClient[d]
      PROVE  SerialInv'
  BY Zenon, <1>a DEF SerialInv, TypeInv
<1>b. ASSUME NEW c \in Conns, NEW t \in {"PUBACK", "PUBREC", "PUBCOMP"}, NEW i \in Ids,
             toClient' = enqueuePubAck(c, t, i) \/ toClient' = toClient
      PROVE  \A d \in Conns : d # c \/ c # current => toClient'[d] = toClient[d]
  BY <1>b, AckEffect
<1>c. ASSUME NEW c \in Conns, NEW t, Reads(c, t)
      PROVE  /\ Packet(c) \in ToBroker /\ Packet(c).type = t /\ pc[c] = "read"
             /\ \A d \in Conns : d # c => toBroker'[d] = toBroker[d]
  BY Zenon, <1>c, ReadEffect
<1>1. CASE ClientReceive
  BY Zenon, <1>1 DEF ClientReceive, SerialInv, TypeInv
<1>2. CASE ClientDrop
  BY Zenon, <1>2 DEF ClientDrop, SerialInv, TypeInv
<1>3. ASSUME NEW c \in Conns, Connect(c) PROVE SerialInv'
  <2>1. /\ current = NoConn /\ current' = c /\ exists' /\ UNCHANGED <<toBroker, toClient>>
        /\ \A d \in Conns : pc[d] \in {"new", "closed"}
        /\ pc'[c] = "read" /\ \A d \in Conns : d # c => pc'[d] = pc[d]
    BY Zenon, <1>3 DEF Connect, TypeInv, netVars
  <2> QED BY Zenon, <2>1 DEF SerialInv, TypeInv
<1>4. ASSUME NEW m \in Msgs, ClientPublish(m) \/ ClientResend(m) PROVE SerialInv'
  <2>1. /\ UNCHANGED <<current, toClient, pc, inFlight, exists>> /\ current # NoConn
        /\ \A d \in Conns : d # current => toBroker'[d] = toBroker[d]
    BY Zenon, <1>4 DEF ClientPublish, ClientResend, TypeInv
  <2> QED BY Zenon, <2>1 DEF SerialInv, TypeInv
<1>5. CASE Restart
  <2>1. /\ ~exists' /\ current' = NoConn
        /\ \A c \in Conns : toBroker'[c] = <<>> /\ toClient'[c] = <<>> /\ pc'[c] \in {"new", "closed"}
        /\ \A i \in Ids : inFlight'[i] = NoMsg
    BY Zenon, <1>5 DEF Restart
  <2> QED BY Zenon, <2>1 DEF SerialInv
<1>6. ASSUME NEW c \in Conns, handlePublishRefused(c) PROVE SerialInv'
  <2>1. Reads(c, "PUBLISH") /\ UNCHANGED <<current, exists, pc>>
    BY Zenon, <1>6 DEF handlePublishRefused, clientVars
  <2>2. Packet(c).id \in Ids
    BY Zenon, <1>c, <2>1, PacketForms, Packets
  <2>3. toClient' = enqueuePubAck(c, "PUBACK", Packet(c).id) \/ toClient' = toClient
    BY Zenon, <1>6 DEF handlePublishRefused
  <2> QED BY Zenon, <1>a, <1>b, <1>c, <2>1, <2>2, <2>3
<1>7. ASSUME NEW c \in Conns, handlePublishQoS1(c) PROVE SerialInv'
  <2>1. Reads(c, "PUBLISH") /\ UNCHANGED <<current, exists, pc>>
    BY Zenon, <1>7 DEF handlePublishQoS1, clientVars
  <2>2. Packet(c).id \in Ids
    BY Zenon, <1>c, <2>1, PacketForms, Packets
  <2>3. toClient' = enqueuePubAck(c, "PUBACK", Packet(c).id)
    BY Zenon, <1>7 DEF handlePublishQoS1
  <2> QED BY Zenon, <1>a, <1>b, <1>c, <2>1, <2>2, <2>3
<1>8. ASSUME NEW c \in Conns, handlePublishQoS2(c) PROVE SerialInv'
  <2>1. Reads(c, "PUBLISH") /\ UNCHANGED <<current, exists>>
    BY Zenon, <1>8 DEF handlePublishQoS2, clientVars
  <2>2. Packet(c).id \in Ids /\ pc[c] = "read"
    BY Zenon, <1>c, <2>1, PacketForms, Packets
  <2>3. toClient' = enqueuePubAck(c, "PUBREC", Packet(c).id) \/ toClient' = toClient
    BY Zenon, <1>8 DEF handlePublishQoS2
  <2>4. pc'[c] \in {"read", "add"} /\ \A d \in Conns : d # c => pc'[d] = pc[d]
    BY Zenon, <1>8, <2>2 DEF handlePublishQoS2, TypeInv
  <2> QED BY <1>a, <1>b, <1>c, <2>1, <2>2, <2>3, <2>4
<1>9. ASSUME NEW c \in Conns, AddInFlight(c) PROVE SerialInv'
  <2>1. UNCHANGED <<current, exists, toBroker>> /\ PacketID[cur[c]] \in Ids /\ pc[c] = "add"
    BY Zenon, <1>9, Packets DEF AddInFlight, clientVars, TypeInv, QoS2Msgs
  <2>2. toClient' = enqueuePubAck(c, "PUBREC", PacketID[cur[c]])
    BY Zenon, <1>9 DEF AddInFlight
  <2>3. pc'[c] = "read" /\ \A d \in Conns : d # c => pc'[d] = pc[d]
    BY Zenon, <1>9 DEF AddInFlight, TypeInv
  <2> QED BY Zenon, <1>a, <1>b, <2>1, <2>2, <2>3
<1>10. ASSUME NEW c \in Conns, handlePubrel(c) PROVE SerialInv'
  <2>1. Reads(c, "PUBREL") /\ UNCHANGED <<current, exists>>
    BY Zenon, <1>10 DEF handlePubrel, clientVars
  <2>2. Packet(c).id \in Ids /\ pc[c] = "read"
    BY Zenon, <1>c, <2>1, PacketForms
  <2>3. toClient' = enqueuePubAck(c, "PUBCOMP", Packet(c).id) \/ toClient' = toClient
    BY Zenon, <1>10 DEF handlePubrel
  <2>4. pc'[c] \in {"read", "publish"} /\ \A d \in Conns : d # c => pc'[d] = pc[d]
    BY Zenon, <1>10, <2>2 DEF handlePubrel, TypeInv
  <2> QED BY <1>a, <1>b, <1>c, <2>1, <2>2, <2>3, <2>4
<1>11. ASSUME NEW c \in Conns, PublishReleased(c) PROVE SerialInv'
  <2>1. UNCHANGED <<current, exists, toBroker>> /\ PacketID[cur[c]] \in Ids /\ pc[c] = "publish"
    BY Zenon, <1>11, Packets DEF PublishReleased, clientVars, TypeInv, QoS2Msgs
  <2>2. toClient' = enqueuePubAck(c, "PUBCOMP", PacketID[cur[c]])
    BY Zenon, <1>11 DEF PublishReleased
  <2>3. pc'[c] = "read" /\ \A d \in Conns : d # c => pc'[d] = pc[d]
    BY Zenon, <1>11 DEF PublishReleased, TypeInv
  <2> QED BY Zenon, <1>a, <1>b, <2>1, <2>2, <2>3
<1>12. ASSUME NEW c \in Conns, ReadLoopEnds(c) PROVE SerialInv'
  BY <1>12 DEF ReadLoopEnds, SerialInv, TypeInv
<1>13. CASE UNCHANGED vars
  BY Zenon, <1>13 DEF vars, clientVars, netVars, SerialInv
<1> QED BY Zenon, <1>1, <1>2, <1>3, <1>4, <1>5, <1>6, <1>7, <1>8, <1>9, <1>10, <1>11, <1>12, <1>13
        DEF Next, ClientStep, BrokerStep

\* A step that does not concern identifier i: no packet with it joins a channel and the
\* session holds the same message under it.
IdAlone(i) ==
  /\ inFlight'[i] = inFlight[i]
  /\ \A d \in Conns :
       /\ Once(toBroker[d], Pubrel(i)) => Once(toBroker'[d], Pubrel(i))
       /\ In(toBroker'[d], Pubrel(i)) => In(toBroker[d], Pubrel(i))
       /\ \A t \in {"PUBREC", "PUBCOMP"} :
            /\ Once(toClient[d], Ack(t, i)) => Once(toClient'[d], Ack(t, i))
            /\ In(toClient'[d], Ack(t, i)) => In(toClient[d], Ack(t, i))

\* A step that does not concern message m: its phase and count stay, it joins no channel
\* and no goroutine takes or leaves it.
MsgAlone(m) ==
  /\ phase'[m] = phase[m] /\ published'[m] = published[m]
  /\ m \in resend' => m \in resend
  /\ \A d \in Conns :
       /\ Once(toBroker[d], Publish(m)) => Once(toBroker'[d], Publish(m))
       /\ In(toBroker'[d], Publish(m)) => In(toBroker[d], Publish(m))
       /\ \A t \in {"add", "publish"} : pc'[d] = t /\ cur'[d] = m <=> pc[d] = t /\ cur[d] = m

\* A message a step does not concern stays where it is.
LEMMA AloneKeeps ==
  ASSUME TypeInv, NEW m \in QoS2Msgs, NEW c \in Conns, QoS2Packets(m, c), MsgAlone(m), exists' => exists,
         phase[m] \in {"publish", "release"} => IdAlone(PacketID[m])
  PROVE  QoS2Packets(m, c)'
<1>1. phase'[m] = phase[m] /\ published'[m] = published[m] /\ (m \in resend' => m \in resend)
  BY Zenon DEF MsgAlone
<1>2. phase[m] \in {"new", "publish", "release", "done", "lost"}
  BY Zenon DEF TypeInv, QoS2Msgs
<1>3. phase'[m] = "new" => published'[m] = 0
  BY Zenon, <1>1 DEF QoS2Packets
<1>4. ASSUME phase[m] = "publish" PROVE PublishPhase(m, c)'
  BY Zenon, <1>4 DEF QoS2Packets, PublishPhase, MsgAlone, IdAlone
<1>5. ASSUME phase[m] = "release" PROVE ReleasePhase(m, c)'
  BY Zenon, <1>5 DEF QoS2Packets, ReleasePhase, MsgAlone, IdAlone
<1>6. ASSUME phase[m] \in {"new", "done", "lost"} PROVE NoPhase(m, c)'
  BY Zenon, <1>6 DEF QoS2Packets, NoPhase, MsgAlone
<1> QED BY Zenon, <1>1, <1>2, <1>3, <1>4, <1>5, <1>6 DEF QoS2Packets

\* An identifier whose messages keep their phase and that gains no packet stays owned.
LEMMA OwnedKeeps ==
  ASSUME NEW i \in Ids, NEW c \in Conns, Owned(i, c),
         \A m \in QoS2Msgs : PacketID[m] = i => phase'[m] = phase[m], IdAlone(i)
  PROVE  Owned(i, c)'
  BY Zenon DEF Owned, IdAlone, QoS2Msgs

\* What a live connection says of all the others.
LEMMA Quiet ==
  ASSUME TypeInv, SerialInv, NEW c \in Conns, pc[c] \notin {"new", "closed"},
         NEW d \in Conns, d # c
  PROVE  /\ pc[d] \in {"new", "closed"} /\ d # current
         /\ \A x : ~In(toBroker[d], x) /\ ~In(toClient[d], x)
<1>1. pc[d] \in {"new", "closed"} /\ toBroker[d] = <<>>
  BY Zenon DEF SerialInv
<1>2. d # current /\ toClient[d] = <<>>
  BY Zenon, <1>1, ConstantsAssumption DEF SerialInv
<1> QED BY Zenon, <1>1, <1>2, EmptyChannel

\* A step that concerns no QoS 2 message.
LEMMA NoneMoves ==
  ASSUME TypeInv, QoS2Inv, exists' => exists,
         \A m \in QoS2Msgs : MsgAlone(m), \A i \in Ids : IdAlone(i)
  PROVE  QoS2Inv'
<1>1. \A m \in QoS2Msgs, c \in Conns : QoS2Packets(m, c)'
  BY Zenon, AloneKeeps, Packets DEF QoS2Inv, QoS2Msgs
<1>2. \A i \in Ids, c \in Conns : Owned(i, c)'
  BY Zenon, OwnedKeeps DEF QoS2Inv, MsgAlone
<1>3. \A i \in Ids : inFlight'[i] # NoMsg => inFlight'[i] \in Unfinished' /\ PacketID[inFlight'[i]] = i
  <2>1. SUFFICES ASSUME NEW i \in Ids, inFlight'[i] # NoMsg
                 PROVE  inFlight'[i] \in Unfinished' /\ PacketID[inFlight'[i]] = i
    BY Zenon
  <2>2. inFlight'[i] = inFlight[i] /\ inFlight[i] \in Unfinished /\ PacketID[inFlight[i]] = i
        /\ inFlight[i] \in QoS2Msgs
    BY Zenon, <2>1 DEF IdAlone, QoS2Inv, TypeInv
  <2> QED BY <2>2 DEF MsgAlone, Unfinished
<1>4. QoS2Msgs' = QoS2Msgs
  BY Zenon DEF QoS2Msgs
<1> QED BY Zenon, <1>1, <1>2, <1>3, <1>4 DEF QoS2Inv

\* A step that concerns one QoS 2 message, unfinished before or after it, and its identifier.
LEMMA OneMoves ==
  ASSUME TypeInv, ClientInv, ClientInv', QoS2Inv, NEW m \in QoS2Msgs, exists' => exists,
         phase[m] \in {"publish", "release"} \/ phase'[m] \in {"publish", "release"},
         \A n \in QoS2Msgs : n # m => MsgAlone(n),
         \A i \in Ids : i # PacketID[m] => IdAlone(i),
         \A c \in Conns : QoS2Packets(m, c)' /\ Owned(PacketID[m], c)',
         LET k == inFlight'[PacketID[m]] IN
           k = NoMsg \/ (k = m /\ phase'[m] \in {"publish", "release"})
  PROVE  QoS2Inv'
<1> USE ConstantsAssumption
<1> DEFINE i0 == PacketID[m]
<1>0. m \in Msgs /\ QoS2Msgs \subseteq Msgs /\ i0 \in Ids
  BY Zenon, Packets DEF QoS2Msgs
<1>1. \A n \in QoS2Msgs : n # m /\ PacketID[n] = i0 => phase[n] \notin {"publish", "release"}
  BY Zenon, <1>0 DEF ClientInv, Unfinished, MsgAlone
<1>2. \A n \in QoS2Msgs, c \in Conns : QoS2Packets(n, c)'
  <2>1. SUFFICES ASSUME NEW n \in QoS2Msgs, NEW c \in Conns, n # m PROVE QoS2Packets(n, c)'
    BY Zenon
  <2>2. phase[n] \in {"publish", "release"} => IdAlone(PacketID[n])
    BY Zenon, <1>0, <1>1, <2>1, Packets
  <2> QED BY Zenon, <2>1, <2>2, AloneKeeps DEF QoS2Inv
<1>3. \A i \in Ids, c \in Conns : Owned(i, c)'
  <2>1. SUFFICES ASSUME NEW i \in Ids, NEW c \in Conns, i # i0 PROVE Owned(i, c)'
    BY Zenon
  <2>2. \A n \in QoS2Msgs : PacketID[n] = i => phase'[n] = phase[n]
    BY Zenon, <2>1 DEF MsgAlone
  <2> QED BY Zenon, <2>1, <2>2, OwnedKeeps DEF QoS2Inv
<1>4. \A i \in Ids : inFlight'[i] # NoMsg => inFlight'[i] \in Unfinished' /\ PacketID[inFlight'[i]] = i
  <2>1. SUFFICES ASSUME NEW i \in Ids, inFlight'[i] # NoMsg
                 PROVE  inFlight'[i] \in Unfinished' /\ PacketID[inFlight'[i]] = i
    BY Zenon
  <2>2. CASE i = i0
    BY Zenon, <1>0, <2>1, <2>2 DEF Unfinished
  <2>3. CASE i # i0
    <3>1. inFlight'[i] = inFlight[i] /\ inFlight[i] \in Unfinished /\ PacketID[inFlight[i]] = i
          /\ inFlight[i] \in QoS2Msgs
      BY Zenon, <2>1, <2>3 DEF IdAlone, QoS2Inv, TypeInv
    <3> QED BY <2>3, <3>1 DEF MsgAlone, Unfinished
  <2> QED BY Zenon, <2>2, <2>3
<1>5. QoS2Msgs' = QoS2Msgs
  BY Zenon DEF QoS2Msgs
<1> QED BY Zenon, <1>2, <1>3, <1>4, <1>5 DEF QoS2Inv

\* The client's steps: PUBLISH, PUBREC, PUBREL and PUBCOMP of a message follow each other.
LEMMA ReceiveQoS2 ==
  ASSUME TypeInv, ClientInv, SerialInv, QoS2Inv, ClientReceive, ClientInv'
  PROVE  QoS2Inv'
<1> USE ConstantsAssumption
<1> DEFINE a == Head(toClient[current])
<1>1. /\ current # NoConn /\ current \in Conns /\ toClient[current] # <<>>
      /\ toClient' = [toClient EXCEPT ![current] = Tail(@)]
      /\ UNCHANGED <<resend, pc, cur, inFlight, exists, published>>
  BY Zenon DEF ClientReceive, TypeInv
<1>2. /\ In(toClient[current], a) /\ a = Ack(a.type, a.id) /\ a.id \in Ids
      /\ a.type \in {"PUBACK", "PUBREC", "PUBCOMP"}
      /\ \A d \in Conns : \A x : In(toClient'[d], x) => In(toClient[d], x)
      /\ \A d \in Conns : \A x : Once(toClient[d], x) => Once(toClient'[d], x)
      /\ Once(toClient[current], a) => ~In(toClient'[current], a)
  <2>1. a \in ToClient
    BY Zenon, <1>1, ReceiveEffect
  <2>2. a.type \in {"PUBACK", "PUBREC", "PUBCOMP"}
    BY Zenon, <2>1 DEF ToClient
  <2> QED BY Zenon, <1>1, <2>1, <2>2, ReceiveEffect, PacketForms
<1>3. /\ \A m \in QoS2Msgs : phase'[m] = phase[m] \/
           /\ phase[m] \in {"publish", "release"} /\ PacketID[m] = a.id
           /\ \/ a.type = "PUBREC" /\ phase'[m] = "release"
              \/ a.type = "PUBCOMP" /\ phase[m] = "release" /\ phase'[m] = "done"
      /\ \A m \in QoS2Msgs : PacketID[m] = a.id =>
           /\ a.type = "PUBREC" /\ phase[m] \in {"publish", "release"} => phase'[m] = "release"
           /\ a.type = "PUBCOMP" /\ phase[m] = "release" => phase'[m] = "done"
  BY ReceivePhases DEF QoS2Msgs, Unfinished
<1>4. \A d \in Conns : d # current => \A x : ~In(toBroker[d], x) /\ ~In(toClient[d], x)
  BY Zenon, <1>1, Quiet DEF SerialInv
<1>5. QoS2Msgs \subseteq Msgs /\ \A m \in QoS2Msgs : PacketID[m] \in Ids
  BY Zenon, Packets DEF QoS2Msgs
<1>6. CASE a.type = "PUBACK"
  <2>1. toBroker' = toBroker
    BY Zenon, <1>6 DEF ClientReceive
  <2>2. \A m \in QoS2Msgs : MsgAlone(m)
    BY Zenon, <1>1, <1>3, <1>6, <2>1 DEF MsgAlone
  <2>3. \A i \in Ids : IdAlone(i)
    BY Zenon, <1>1, <1>2, <2>1 DEF IdAlone
  <2> QED BY Zenon, <1>1, <2>2, <2>3, NoneMoves
<1>7. CASE a.type = "PUBREC"
  <2>1. PICK m \in QoS2Msgs : PacketID[m] = a.id /\ phase[m] = "publish"
    BY <1>1, <1>2, <1>7 DEF QoS2Inv, Owned
  <2>2. phase'[m] = "release" /\ \A n \in QoS2Msgs : n # m => phase'[n] = phase[n]
    BY <1>3, <1>5, <1>7, <2>1 DEF ClientInv, Unfinished
  <2>3. toBroker' = [toBroker EXCEPT ![current] = Append(@, Pubrel(a.id))]
    BY Zenon, <1>7, <2>1 DEF ClientReceive, Unfinished, QoS2Msgs
  <2>4. Pubrel(a.id) \in ToBroker
    BY Zenon, <1>2, Packets
  <2>5. /\ \A d \in Conns : \A x : In(toBroker'[d], x) <=> In(toBroker[d], x) \/ (d = current /\ x = Pubrel(a.id))
        /\ \A d \in Conns : \A x : Once(toBroker[d], x) /\ (d = current /\ x = Pubrel(a.id) => ~In(toBroker[d], x))
              => Once(toBroker'[d], x)
    BY Zenon, <1>1, <2>3, <2>4, SendEffect
  <2>6. \A n \in QoS2Msgs : n # m => MsgAlone(n)
    <3>1. \A n \in QoS2Msgs : Publish(n) # Pubrel(a.id)
      BY <1>2, <1>5, Packets
    <3> QED BY Zenon, <1>1, <2>2, <2>5, <3>1 DEF MsgAlone
  <2>7. \A i \in Ids : i # PacketID[m] => IdAlone(i)
    <3>1. \A i \in Ids : i # PacketID[m] => Pubrel(i) # Pubrel(a.id)
      BY Zenon, <1>2, <2>1, Packets
    <3> QED BY Zenon, <1>1, <1>2, <2>1, <2>5, <3>1 DEF IdAlone
  <2>8. \A d \in Conns : PublishPhase(m, d)
    BY Zenon, <2>1 DEF QoS2Inv, QoS2Packets
  <2>9. a = Ack("PUBREC", PacketID[m]) /\ Publish(m) # Pubrel(a.id)
    BY Zenon, <1>2, <1>5, <1>7, <2>1, Packets
  <2>10. ~In(toClient'[current], Ack("PUBREC", PacketID[m]))
    BY Zenon, <1>1, <1>2, <2>8, <2>9 DEF PublishPhase
  <2>11. \A d \in Conns : ReleasePhase(m, d)'
    <3>1. SUFFICES ASSUME NEW d \in Conns PROVE ReleasePhase(m, d)'
      BY Zenon
    <3>2. PublishPhase(m, d) /\ PublishPhase(m, current)
      BY Zenon, <1>1, <2>8
    <3>3. published[m] = 0 /\ inFlight[PacketID[m]] = m /\ m \notin resend
      BY Zenon, <1>1, <1>2, <2>9, <3>2 DEF PublishPhase
    <3>4. /\ ~In(toClient'[d], Ack("PUBCOMP", PacketID[m])) /\ Once(toClient'[d], Ack("PUBCOMP", PacketID[m]))
          /\ Once(toBroker'[d], Pubrel(PacketID[m]))
      BY Zenon, <1>2, <2>1, <2>5, <3>2, AbsentOnce DEF PublishPhase
    <3>5. ~In(toClient'[d], Ack("PUBREC", PacketID[m]))
      BY Zenon, <1>2, <1>4, <2>10
    <3>6. ~In(toBroker'[d], Publish(m)) /\ ~(pc[d] = "add" /\ cur[d] = m) /\ ~(pc[d] = "publish" /\ cur[d] = m)
      <4>1. ~In(toBroker[d], Publish(m))
        BY Zenon, <1>1, <1>2, <1>4, <2>9, <3>2 DEF PublishPhase
      <4>2. ~(pc[d] = "add" /\ cur[d] = m) /\ ~(pc[d] = "publish" /\ cur[d] = m)
        BY Zenon, <1>5, <3>2, <3>3 DEF PublishPhase
      <4> QED BY Zenon, <2>5, <2>9, <4>1, <4>2
    <3> QED BY Zenon, <1>1, <2>1, <3>3, <3>4, <3>5, <3>6 DEF ReleasePhase
  <2>12. \A d \in Conns : Owned(PacketID[m], d)'
    <3>1. \A d \in Conns : ~In(toClient'[d], Ack("PUBREC", PacketID[m]))
      BY Zenon, <1>2, <1>4, <2>10
    <3>2. \A d \in Conns : ~In(toClient'[d], Ack("PUBCOMP", PacketID[m]))
      BY Zenon, <1>2, <2>8 DEF PublishPhase
    <3>3. QoS2Msgs' = QoS2Msgs
      BY Zenon DEF QoS2Msgs
    <3> QED BY Zenon, <2>2, <3>1, <3>2, <3>3 DEF Owned
  <2>13. inFlight'[PacketID[m]] = m
    BY Zenon, <1>1, <1>2, <2>8, <2>9 DEF PublishPhase
  <2>14. \A d \in Conns : QoS2Packets(m, d)'
    BY Zenon, <2>2, <2>11 DEF QoS2Packets
  <2> QED BY Zenon, <1>1, <2>1, <2>2, <2>6, <2>7, <2>12, <2>13, <2>14, OneMoves
<1>8. CASE a.type = "PUBCOMP"
  <2>0. toBroker' = toBroker
    BY Zenon, <1>8 DEF ClientReceive
  <2>1. PICK m \in QoS2Msgs : PacketID[m] = a.id /\ phase[m] = "release"
    BY <1>1, <1>2, <1>8 DEF QoS2Inv, Owned
  <2>2. phase'[m] = "done" /\ \A n \in QoS2Msgs : n # m => phase'[n] = phase[n]
    BY <1>3, <1>5, <1>8, <2>1 DEF ClientInv, Unfinished
  <2>3. \A n \in QoS2Msgs : n # m => MsgAlone(n)
    BY Zenon, <1>1, <2>0, <2>2 DEF MsgAlone
  <2>4. \A i \in Ids : i # PacketID[m] => IdAlone(i)
    BY Zenon, <1>1, <1>2, <2>0 DEF IdAlone
  <2>5. \A d \in Conns : ReleasePhase(m, d)
    BY Zenon, <2>1 DEF QoS2Inv, QoS2Packets
  <2>6. a = Ack("PUBCOMP", PacketID[m])
    BY Zenon, <1>2, <1>8, <2>1
  <2>7. ~In(toClient'[current], Ack("PUBCOMP", PacketID[m]))
    BY Zenon, <1>1, <1>2, <2>5, <2>6 DEF ReleasePhase
  <2>8. m \notin resend /\ inFlight[PacketID[m]] = NoMsg
    BY <1>1, <1>2, <2>5, <2>6 DEF ReleasePhase
  <2>9. \A d \in Conns : NoPhase(m, d)'
    <3>1. SUFFICES ASSUME NEW d \in Conns PROVE NoPhase(m, d)'
      BY Zenon
    <3>2. pc[d] = "publish" /\ cur[d] = m => d = current
      BY Zenon, <1>1, Quiet DEF SerialInv
    <3>3. ~(pc[d] = "publish" /\ cur[d] = m)
      BY Zenon, <1>1, <1>2, <2>5, <2>6, <3>2 DEF ReleasePhase
    <3> QED BY Zenon, <1>1, <2>0, <2>5, <2>8, <3>3 DEF NoPhase, ReleasePhase
  <2>10. \A d \in Conns : Owned(PacketID[m], d)'
    <3>1. \A d \in Conns : ~In(toClient'[d], Ack("PUBCOMP", PacketID[m]))
      BY Zenon, <1>2, <1>4, <2>7
    <3>2. \A d \in Conns : ~In(toClient'[d], Ack("PUBREC", PacketID[m]))
      BY Zenon, <1>2, <2>5 DEF ReleasePhase
    <3>3. \A d \in Conns : ~In(toBroker'[d], Pubrel(PacketID[m]))
      BY Zenon, <1>1, <1>2, <1>4, <2>0, <2>5, <2>6 DEF ReleasePhase
    <3> QED BY Zenon, <3>1, <3>2, <3>3 DEF Owned
  <2>11. \A d \in Conns : QoS2Packets(m, d)'
    BY Zenon, <2>2, <2>9 DEF QoS2Packets
  <2> QED BY Zenon, <1>1, <2>1, <2>3, <2>4, <2>8, <2>10, <2>11, OneMoves
<1> QED BY Zenon, <1>2, <1>6, <1>7, <1>8

\* The client's other steps: a message starts with no packet of it anywhere.
LEMMA ClientStepQoS2 ==
  ASSUME TypeInv, ClientInv, SerialInv, QoS1Inv, QoS2Inv, ~Overlap, ClientStep, TypeInv', ClientInv'
  PROVE  QoS2Inv'
<1> USE ConstantsAssumption
<1>a. QoS2Msgs \subseteq Msgs /\ QoS2Msgs' = QoS2Msgs /\ \A m \in QoS2Msgs : PacketID[m] \in Ids /\ QoS[m] = 2
  BY Zenon, Packets DEF QoS2Msgs
<1>b. \A m \in Msgs : m \notin QoS2Msgs => QoS[m] = 1
  BY DEF QoS2Msgs
<1>1. CASE ClientDrop
  <2>1. /\ UNCHANGED <<phase, toBroker, pc, cur, inFlight, exists, published>> /\ resend' = {}
        /\ \A d \in Conns : toClient'[d] = toClient[d] \/ toClient'[d] = <<>>
    BY Zenon, <1>1 DEF ClientDrop, TypeInv
  <2>2. \A m \in QoS2Msgs : MsgAlone(m)
    BY Zenon, <2>1 DEF MsgAlone
  <2>3. \A i \in Ids : IdAlone(i)
    BY Zenon, <2>1, EmptyChannel DEF IdAlone
  <2> QED BY Zenon, <2>1, <2>2, <2>3, NoneMoves
<1>2. ASSUME NEW c \in Conns, Connect(c) PROVE QoS2Inv'
  <2>1. /\ current = NoConn /\ UNCHANGED <<toBroker, toClient, cur, published>> /\ exists'
        /\ \A d \in Conns : pc[d] \in {"new", "closed"} /\ pc'[d] \in {"new", "closed", "read"}
    BY Zenon, <1>2 DEF Connect, TypeInv, netVars
  <2>2. \A d \in Conns : \A x : ~In(toBroker[d], x) /\ ~In(toClient[d], x) /\ Once(toBroker[d], x) /\ Once(toClient[d], x)
    BY <2>1, EmptyChannel DEF SerialInv
  <2>3. \A i \in Ids, d \in Conns : Owned(i, d)'
    BY Zenon, <2>1, <2>2 DEF Owned
  <2>4. CASE exists
    <3>1. UNCHANGED <<phase, inFlight>> /\ resend' = Unfinished
      BY Zenon, <1>2, <2>4 DEF Connect
    <3>2. \A m \in QoS2Msgs, d \in Conns : QoS2Packets(m, d)'
      <4>1. SUFFICES ASSUME NEW m \in QoS2Msgs, NEW d \in Conns PROVE QoS2Packets(m, d)'
        BY Zenon, <1>a
      <4>2. QoS2Packets(m, d) /\ m \in Msgs
        BY Zenon, <1>a DEF QoS2Inv
      <4>3. ASSUME phase[m] = "publish" PROVE PublishPhase(m, d)'
        BY Zenon, <4>2, <4>3, <2>1, <2>2, <3>1 DEF QoS2Packets, PublishPhase
      <4>4. ASSUME phase[m] = "release" PROVE ReleasePhase(m, d)'
        BY Zenon, <4>2, <4>4, <2>1, <2>2, <2>4, <3>1 DEF QoS2Packets, ReleasePhase
      <4>5. ASSUME phase[m] \in {"new", "done", "lost"} PROVE NoPhase(m, d)'
        BY Zenon, <4>2, <4>5, <2>1, <2>2, <3>1 DEF QoS2Packets, NoPhase, Unfinished
      <4> QED BY Zenon, <4>2, <4>3, <4>4, <4>5, <2>1, <3>1 DEF QoS2Packets
    <3>3. \A i \in Ids : inFlight'[i] # NoMsg => inFlight'[i] \in Unfinished' /\ PacketID[inFlight'[i]] = i
      BY Zenon, <3>1 DEF QoS2Inv, Unfinished
    <3> QED BY Zenon, <1>a, <2>3, <3>2, <3>3 DEF QoS2Inv
  <2>5. CASE ~exists
    <3>1. /\ \A i \in Ids : inFlight'[i] = NoMsg
          /\ resend' = {}
          /\ \A m \in Msgs : phase'[m] = IF m \in Unfinished THEN "lost" ELSE phase[m]
      BY Zenon, <1>2, <2>5 DEF Connect
    <3>2. \A m \in QoS2Msgs, d \in Conns : QoS2Packets(m, d)'
      <4>1. SUFFICES ASSUME NEW m \in QoS2Msgs, NEW d \in Conns PROVE QoS2Packets(m, d)'
        BY Zenon, <1>a
      <4>2. QoS2Packets(m, d) /\ m \in Msgs
        BY Zenon, <1>a DEF QoS2Inv
      <4>3. phase'[m] \in {"new", "done", "lost"} /\ (phase'[m] = "new" => phase[m] = "new")
        BY Zenon, <4>2, <3>1 DEF Unfinished, TypeInv
      <4>4. NoPhase(m, d)'
        BY Zenon, <2>1, <2>2, <3>1 DEF NoPhase
      <4> QED BY Zenon, <4>2, <4>3, <4>4, <2>1 DEF QoS2Packets
    <3> QED BY Zenon, <1>a, <2>3, <3>1, <3>2 DEF QoS2Inv
  <2> QED BY Zenon, <2>4, <2>5
<1>3. ASSUME NEW m \in Msgs, ClientPublish(m) PROVE QoS2Inv'
  <2>1. /\ current # NoConn /\ current \in Conns /\ phase[m] = "new"
        /\ UNCHANGED <<current, resend, toClient, pc, cur, inFlight, exists, published>>
        /\ \A n \in Unfinished : PacketID[n] # PacketID[m]
        /\ phase'[m] = "publish" /\ \A n \in Msgs : n # m => phase'[n] = phase[n]
    BY <1>3 DEF ClientPublish, TypeInv
  <2>2. /\ \A d \in Conns : \A x : In(toBroker'[d], x) <=> In(toBroker[d], x) \/ (d = current /\ x = Publish(m))
        /\ \A d \in Conns : \A x : Once(toBroker[d], x) /\ (d = current /\ x = Publish(m) => ~In(toBroker[d], x))
              => Once(toBroker'[d], x)
    BY Zenon, <1>3, <2>1, Packets, SendEffect DEF ClientPublish
  <2>3. \A n \in QoS2Msgs : n # m => MsgAlone(n)
    <3>1. \A n \in QoS2Msgs : n # m => Publish(n) # Publish(m)
      BY Zenon, <1>a, Packets
    <3> QED BY Zenon, <1>a, <2>1, <2>2, <3>1 DEF MsgAlone
  <2>4. \A i \in Ids : IdAlone(i)
    <3>1. \A i \in Ids : Pubrel(i) # Publish(m)
      BY Zenon, Packets
    <3> QED BY Zenon, <2>1, <2>2, <3>1 DEF IdAlone
  <2>5. CASE m \notin QoS2Msgs
    BY Zenon, <2>1, <2>3, <2>4, <2>5, NoneMoves
  <2>6. CASE m \in QoS2Msgs
    <3>1. \A n \in Msgs : PacketID[n] = PacketID[m] => phase[n] \notin {"publish", "release"}
      BY Zenon, <2>1 DEF Unfinished
    <3>2. inFlight[PacketID[m]] = NoMsg
      BY Zenon, <1>a, <2>6, <2>1 DEF QoS2Inv
    <3>3. \A d \in Conns :
            /\ ~In(toClient[d], Ack("PUBREC", PacketID[m])) /\ ~In(toClient[d], Ack("PUBCOMP", PacketID[m]))
            /\ ~In(toBroker[d], Pubrel(PacketID[m]))
      BY <1>a, <2>6, <3>1 DEF QoS2Inv, Owned
    <3>4. \A d \in Conns : NoPhase(m, d) /\ published[m] = 0
      BY Zenon, <2>1, <2>6 DEF QoS2Inv, QoS2Packets
    <3>5. \A d \in Conns : QoS2Packets(m, d)' /\ Owned(PacketID[m], d)'
      <4>1. SUFFICES ASSUME NEW d \in Conns PROVE PublishPhase(m, d)' /\ Owned(PacketID[m], d)'
        BY Zenon, <2>1 DEF QoS2Packets
      <4>2. Pubrel(PacketID[m]) # Publish(m)
        BY Zenon, <1>a, <2>6, Packets
      <4>3. Once(toBroker'[d], Publish(m)) /\ Once(toClient'[d], Ack("PUBREC", PacketID[m]))
        BY Zenon, <2>1, <2>2, <3>3, <3>4, AbsentOnce DEF NoPhase
      <4>4. PublishPhase(m, d)'
        BY Zenon, <2>1, <2>2, <3>2, <3>3, <3>4, <4>2, <4>3 DEF PublishPhase, NoPhase
      <4>5. Owned(PacketID[m], d)'
        BY Zenon, <2>1, <2>2, <3>3, <4>2 DEF Owned
      <4> QED BY Zenon, <4>4, <4>5
    <3> QED BY Zenon, <2>1, <2>3, <2>4, <2>6, <3>2, <3>5, OneMoves
  <2> QED BY Zenon, <2>5, <2>6
<1>4. ASSUME NEW m \in Msgs, ClientResend(m) PROVE QoS2Inv'
  <2> DEFINE e == IF phase[m] = "publish" THEN Publish(m) ELSE Pubrel(PacketID[m])
  <2>1. /\ current # NoConn /\ current \in Conns /\ m \in resend /\ resend' = resend \ {m}
        /\ UNCHANGED <<phase, current, toClient, pc, cur, inFlight, exists, published>>
    BY Zenon, <1>4 DEF ClientResend, TypeInv
  <2>2. e \in ToBroker /\ toBroker' = [toBroker EXCEPT ![current] = Append(@, e)]
    BY Zenon, <1>4, Packets DEF ClientResend
  <2>e. /\ phase[m] = "publish" => e = Publish(m)
        /\ phase[m] # "publish" => e = Pubrel(PacketID[m])
    BY Zenon
  <2> HIDE DEF e
  <2>3. /\ \A d \in Conns : \A x : In(toBroker'[d], x) <=> In(toBroker[d], x) \/ (d = current /\ x = e)
        /\ \A d \in Conns : \A x : Once(toBroker[d], x) /\ (d = current /\ x = e => ~In(toBroker[d], x))
              => Once(toBroker'[d], x)
    BY Zenon, <2>1, <2>2, SendEffect
  <2>4. \A n \in QoS2Msgs : n # m => MsgAlone(n)
    <3>1. \A n \in QoS2Msgs : n # m => Publish(n) # e
      BY Zenon, <1>a, <2>e, Packets
    <3> QED BY Zenon, <2>1, <2>3, <3>1 DEF MsgAlone
  <2>5. \A i \in Ids : i # PacketID[m] \/ phase[m] = "publish" => IdAlone(i)
    <3>1. \A i \in Ids : i # PacketID[m] \/ phase[m] = "publish" => Pubrel(i) # e
      BY Zenon, <2>e, Packets
    <3> QED BY Zenon, <2>1, <2>3, <3>1 DEF IdAlone
  <2>6. CASE m \notin QoS2Msgs
    <3>1. phase[m] = "publish"
      BY Zenon, <1>b, <2>1, <2>6 DEF QoS1Inv, QoS1Packets
    <3> QED BY Zenon, <2>1, <2>4, <2>5, <2>6, <3>1, NoneMoves
  <2>7. CASE m \in QoS2Msgs
    <3>1. Publish(m) # Pubrel(PacketID[m]) /\ PacketID[m] \in Ids
      BY Zenon, <1>a, <2>7, Packets
    <3>2. phase[m] \in {"publish", "release"}
      BY <2>1, <2>7 DEF QoS2Inv, QoS2Packets, NoPhase, TypeInv
    <3>3. inFlight[PacketID[m]] = NoMsg \/ inFlight[PacketID[m]] = m
      BY Zenon, <2>1, <2>7, <3>2 DEF QoS2Inv, QoS2Packets, PublishPhase, ReleasePhase
    <3>4. CASE phase[m] = "publish"
      <4>1. \A d \in Conns : PublishPhase(m, d)
        BY Zenon, <2>7, <3>4 DEF QoS2Inv, QoS2Packets
      <4>2. \A d \in Conns : PublishPhase(m, d)'
        BY <2>1, <2>3, <2>e, <3>1, <3>4, <4>1 DEF PublishPhase
      <4>3. \A d \in Conns : Owned(PacketID[m], d)'
        BY <1>a, <2>1, <2>3, <2>e, <2>7, <3>1, <3>4 DEF QoS2Inv, Owned
      <4>4. \A d \in Conns : QoS2Packets(m, d)'
        BY Zenon, <2>1, <3>4, <4>2 DEF QoS2Packets
      <4> QED BY Zenon, <2>1, <2>4, <2>5, <2>7, <3>2, <3>3, <4>3, <4>4, OneMoves
    <3>5. CASE phase[m] = "release"
      <4>1. \A d \in Conns : ReleasePhase(m, d)
        BY Zenon, <2>7, <3>5 DEF QoS2Inv, QoS2Packets
      <4>2. \A d \in Conns : ReleasePhase(m, d)'
        <5>1. SUFFICES ASSUME NEW d \in Conns PROVE ReleasePhase(m, d)'
          BY Zenon
        <5>2. ReleasePhase(m, d)
          BY Zenon, <4>1
        <5> QED BY Zenon, <2>1, <2>3, <2>e, <3>1, <3>5, <5>2 DEF ReleasePhase
      <4>3. \A d \in Conns : Owned(PacketID[m], d)'
        BY <1>a, <2>1, <2>7, <2>3, <3>1, <3>5 DEF QoS2Inv, Owned
      <4>4. \A d \in Conns : QoS2Packets(m, d)'
        BY Zenon, <2>1, <3>5, <4>2 DEF QoS2Packets
      <4> QED BY Zenon, <2>1, <2>4, <2>5, <2>7, <3>2, <3>3, <4>3, <4>4, OneMoves
    <3> QED BY Zenon, <3>2, <3>4, <3>5
  <2> QED BY Zenon, <2>6, <2>7
<1> QED BY Zenon, <1>1, <1>2, <1>3, <1>4, ReceiveQoS2 DEF ClientStep

\* The broker's steps on a PUBLISH of QoS 2: it is acknowledged when it is in the session.
LEMMA PublishQoS2 ==
  ASSUME TypeInv, ClientInv, SerialInv, QoS2Inv, ClientInv', NEW c \in Conns,
         handlePublishQoS2(c) \/ AddInFlight(c)
  PROVE  QoS2Inv'
<1> USE ConstantsAssumption
<1>a. QoS2Msgs \subseteq Msgs /\ QoS2Msgs' = QoS2Msgs /\ \A m \in QoS2Msgs : PacketID[m] \in Ids
  BY Zenon, Packets DEF QoS2Msgs
<1>b. UNCHANGED <<phase, current, resend, exists, published>>
  BY Zenon DEF handlePublishQoS2, AddInFlight, clientVars
<1>c. ASSUME pc[c] \notin {"new", "closed"}
      PROVE  \A d \in Conns : d # c => /\ pc[d] \in {"new", "closed"}
                                       /\ \A x : ~In(toBroker[d], x) /\ ~In(toClient[d], x)
  BY Zenon, <1>c, Quiet
<1>1. CASE handlePublishQoS2(c)
  <2>1. Reads(c, "PUBLISH") /\ QoS[Packet(c).msg] = 2 /\ UNCHANGED inFlight
    BY Zenon, <1>1 DEF handlePublishQoS2
  <2>0. /\ Packet(c) \in ToBroker /\ Packet(c).type = "PUBLISH" /\ In(toBroker[c], Packet(c)) /\ pc[c] = "read"
        /\ \A d \in Conns : \A x : In(toBroker'[d], x) => In(toBroker[d], x)
        /\ \A d \in Conns : \A x : Once(toBroker[d], x) => Once(toBroker'[d], x)
        /\ Once(toBroker[c], Packet(c)) => ~In(toBroker'[c], Packet(c))
    BY Zenon, <2>1, ReadEffect
  <2>4. PICK m \in QoS2Msgs : Packet(c) = Publish(m) /\ Packet(c).msg = m /\ Packet(c).id = PacketID[m]
    <3>1. Packet(c).msg \in Msgs /\ Packet(c) = Publish(Packet(c).msg) /\ Packet(c).id = PacketID[Packet(c).msg]
      BY Zenon, <2>0, PacketForms
    <3> QED BY Zenon, <2>1, <3>1 DEF QoS2Msgs
  <2>2. /\ In(toBroker[c], Publish(m)) /\ pc[c] = "read" /\ m \in Msgs /\ PacketID[m] \in Ids
        /\ \A d \in Conns : \A x : In(toBroker'[d], x) => In(toBroker[d], x)
        /\ \A d \in Conns : \A x : Once(toBroker[d], x) => Once(toBroker'[d], x)
        /\ Once(toBroker[c], Publish(m)) => ~In(toBroker'[c], Publish(m))
    BY Zenon, <1>a, <2>0, <2>4
  <2>3. \/ /\ inFlight[PacketID[m]] # NoMsg
           /\ toClient' = enqueuePubAck(c, "PUBREC", PacketID[m]) /\ UNCHANGED <<pc, cur>>
        \/ /\ inFlight[PacketID[m]] = NoMsg /\ UNCHANGED toClient
           /\ pc' = [pc EXCEPT ![c] = "add"] /\ cur' = [cur EXCEPT ![c] = m]
    BY Zenon, <1>1, <2>4 DEF handlePublishQoS2
  <2>5. phase[m] = "publish"
    BY <1>a, <2>2, <2>4 DEF QoS2Inv, QoS2Packets, ReleasePhase, NoPhase, TypeInv
  <2>6. \A d \in Conns : PublishPhase(m, d)
    BY Zenon, <2>4, <2>5 DEF QoS2Inv, QoS2Packets
  <2>7. /\ In(toBroker[c], Publish(m)) /\ ~In(toBroker'[c], Publish(m))
        /\ m \notin resend /\ ~In(toClient[c], Ack("PUBREC", PacketID[m]))
    BY Zenon, <2>2, <2>4, <2>6 DEF PublishPhase
  <2>8. CASE inFlight[PacketID[m]] # NoMsg /\ toClient' = enqueuePubAck(c, "PUBREC", PacketID[m]) /\ UNCHANGED <<pc, cur>>
    <3>1. /\ \A d \in Conns : \A x : In(toClient'[d], x) =>
              In(toClient[d], x) \/ (x = Ack("PUBREC", PacketID[m]) /\ d = c)
          /\ \A d \in Conns : \A x : Once(toClient[d], x) /\ (x = Ack("PUBREC", PacketID[m]) /\ d = c => ~In(toClient[d], x))
              => Once(toClient'[d], x)
      BY Zenon, <2>2, <2>8, AckEffect
    <3>2. inFlight[PacketID[m]] = m
      BY Zenon, <2>4, <2>6, <2>8 DEF PublishPhase
    <3>3. \A n \in QoS2Msgs : n # m => MsgAlone(n)
      BY Zenon, <1>b, <2>2, <2>8 DEF MsgAlone
    <3>4. \A i \in Ids : i # PacketID[m] => IdAlone(i)
      <4>1. \A i \in Ids, t \in {"PUBREC", "PUBCOMP"} : i # PacketID[m] => Ack(t, i) # Ack("PUBREC", PacketID[m])
        BY <2>4, Packets
      <4> QED BY Zenon, <2>1, <2>2, <3>1, <4>1 DEF IdAlone
    <3>5. Ack("PUBCOMP", PacketID[m]) # Ack("PUBREC", PacketID[m])
      BY Zenon, Packets
    <3>6. \A d \in Conns : PublishPhase(m, d)'
      <4>1. SUFFICES ASSUME NEW d \in Conns PROVE PublishPhase(m, d)'
        BY Zenon
      <4>2. PublishPhase(m, d)
        BY Zenon, <2>6
      <4>3. CASE d = c
        <5>1. Once(toClient'[d], Ack("PUBREC", PacketID[m]))
          BY Zenon, <2>4, <2>7, <3>1, <4>2, <4>3 DEF PublishPhase
        <5> QED BY Zenon, <1>b, <2>1, <2>2, <2>4, <2>7, <2>8, <3>1, <3>2, <3>5, <4>2, <4>3, <5>1 DEF PublishPhase
      <4>4. CASE d # c
        BY Zenon, <1>b, <2>1, <2>2, <2>4, <2>8, <3>1, <3>2, <3>5, <4>2, <4>4 DEF PublishPhase
      <4> QED BY Zenon, <4>3, <4>4
    <3>7. \A d \in Conns : QoS2Packets(m, d)'
      BY Zenon, <1>b, <2>5, <3>6 DEF QoS2Packets
    <3>8. \A d \in Conns : Owned(PacketID[m], d)'
      BY Zenon, <1>a, <1>b, <2>2, <2>4, <2>5, <2>6, <3>1, <3>5 DEF PublishPhase, Owned
    <3> QED BY Zenon, <1>b, <2>1, <2>4, <2>5, <3>2, <3>3, <3>4, <3>7, <3>8, OneMoves
  <2>9. CASE /\ inFlight[PacketID[m]] = NoMsg /\ UNCHANGED toClient
             /\ pc' = [pc EXCEPT ![c] = "add"] /\ cur' = [cur EXCEPT ![c] = m]
    <3>1. /\ pc'[c] = "add" /\ cur'[c] = m
          /\ \A d \in Conns : d # c => pc'[d] = pc[d] /\ cur'[d] = cur[d]
      BY Zenon, <2>9 DEF TypeInv
    <3>2. \A n \in QoS2Msgs : n # m => MsgAlone(n)
      BY Zenon, <1>b, <2>2, <3>1 DEF MsgAlone
    <3>3. \A i \in Ids : IdAlone(i)
      BY Zenon, <2>1, <2>2, <2>9 DEF IdAlone
    <3>4. \A d \in Conns : PublishPhase(m, d)'
      <4>1. SUFFICES ASSUME NEW d \in Conns PROVE PublishPhase(m, d)'
        BY Zenon
      <4>2. PublishPhase(m, d)
        BY Zenon, <2>6
      <4> QED BY Zenon, <1>b, <2>1, <2>2, <2>4, <2>7, <2>9, <3>1, <4>2 DEF PublishPhase
    <3>5. \A d \in Conns : QoS2Packets(m, d)'
      BY Zenon, <1>b, <2>5, <3>4 DEF QoS2Packets
    <3>6. \A d \in Conns : Owned(PacketID[m], d)'
      BY Zenon, <1>a, <1>b, <2>2, <2>4, <2>6, <2>9 DEF PublishPhase, QoS2Inv, Owned
    <3> QED BY Zenon, <1>b, <2>1, <2>4, <2>5, <2>9, <3>2, <3>3, <3>5, <3>6, OneMoves
  <2> QED BY Zenon, <2>3, <2>8, <2>9
<1>2. CASE AddInFlight(c)
  <2>0. PICK m \in QoS2Msgs : m = cur[c]
    BY Zenon, <1>2 DEF AddInFlight, TypeInv
  <2> DEFINE i == PacketID[m]
  <2>1. m = cur[c] /\ m \in Msgs /\ i \in Ids /\ pc[c] = "add" /\ UNCHANGED toBroker
    BY Zenon, <1>a, <1>2, <2>0 DEF AddInFlight
  <2>2. toClient' = enqueuePubAck(c, "PUBREC", i) /\ inFlight' = [inFlight EXCEPT ![i] = m]
    BY Zenon, <1>2, <2>1 DEF AddInFlight
  <2>3. pc'[c] = "read" /\ \A d \in Conns : d # c => pc'[d] = pc[d] /\ cur'[d] = cur[d]
    BY Zenon, <1>2 DEF AddInFlight, TypeInv
  <2>4. inFlight'[i] = m /\ \A j \in Ids : j # i => inFlight'[j] = inFlight[j]
    BY Zenon, <2>1, <2>2 DEF TypeInv
  <2> HIDE DEF i
  <2>5. /\ \A d \in Conns : \A x : In(toClient'[d], x) =>
              In(toClient[d], x) \/ (x = Ack("PUBREC", i) /\ d = c)
        /\ \A d \in Conns : \A x : Once(toClient[d], x) /\ (x = Ack("PUBREC", i) /\ d = c => ~In(toClient[d], x))
              => Once(toClient'[d], x)
    BY Zenon, <2>1, <2>2, AckEffect
  <2>6. phase[m] = "publish"
    BY <2>1 DEF QoS2Inv, QoS2Packets, ReleasePhase, NoPhase, TypeInv
  <2>7. \A d \in Conns : PublishPhase(m, d)
    BY Zenon, <2>1, <2>6 DEF QoS2Inv, QoS2Packets
  <2>8. m \notin resend /\ ~In(toBroker[c], Publish(m)) /\ ~In(toClient[c], Ack("PUBREC", i))
    BY Zenon, <2>1, <2>7 DEF PublishPhase, i
  <2>9. \A n \in QoS2Msgs : n # m => MsgAlone(n)
    BY Zenon, <1>b, <2>1, <2>3 DEF MsgAlone
  <2>10. \A j \in Ids : j # PacketID[m] => IdAlone(j)
    <3>1. \A j \in Ids, t \in {"PUBREC", "PUBCOMP"} : j # i => Ack(t, j) # Ack("PUBREC", i)
      BY Zenon, Packets
    <3> QED BY Zenon, <2>1, <2>4, <2>5, <3>1 DEF IdAlone, i
  <2>11. Ack("PUBCOMP", i) # Ack("PUBREC", i)
    BY Zenon, Packets
  <2>12. \A d \in Conns : PublishPhase(m, d)'
    <3>1. SUFFICES ASSUME NEW d \in Conns PROVE PublishPhase(m, d)'
      BY Zenon
    <3>2. PublishPhase(m, d) /\ i = PacketID[m]
      BY Zenon, <2>7 DEF i
    <3>3. Once(toClient'[d], Ack("PUBREC", i))
      BY Zenon, <2>5, <2>8, <3>2 DEF PublishPhase
    <3>4. ~(pc'[d] \in {"add", "publish"} /\ cur'[d] = m)
      BY Zenon, <1>c, <2>1, <2>3
    <3>5. d # c => ~In(toBroker[d], Publish(m)) /\ ~In(toClient[d], Ack("PUBREC", i))
      BY Zenon, <1>c, <2>1
    <3> QED BY Zenon, <1>b, <2>1, <2>4, <2>5, <2>8, <2>11, <3>2, <3>3, <3>4, <3>5 DEF PublishPhase
  <2>13. \A d \in Conns : QoS2Packets(m, d)'
    BY Zenon, <1>b, <2>6, <2>12 DEF QoS2Packets
  <2>14. \A d \in Conns : Owned(PacketID[m], d)'
    BY Zenon, <1>a, <1>b, <2>1, <2>5, <2>6, <2>7, <2>11 DEF PublishPhase, Owned, i
  <2> QED BY Zenon, <1>b, <2>1, <2>4, <2>6, <2>9, <2>10, <2>13, <2>14, OneMoves DEF i
<1> QED BY Zenon, <1>1, <1>2

\* The broker's steps on a PUBREL: the message leaves the session before it is published,
\* and PUBCOMP goes out when it is.
LEMMA PubrelQoS2 ==
  ASSUME TypeInv, ClientInv, SerialInv, QoS2Inv, ClientInv', NEW c \in Conns,
         handlePubrel(c) \/ PublishReleased(c)
  PROVE  QoS2Inv'
<1> USE ConstantsAssumption
<1>a. QoS2Msgs \subseteq Msgs /\ QoS2Msgs' = QoS2Msgs /\ \A m \in QoS2Msgs : PacketID[m] \in Ids
  BY Zenon, Packets DEF QoS2Msgs
<1>b. UNCHANGED <<phase, current, resend, exists>>
  BY Zenon DEF handlePubrel, PublishReleased, clientVars
<1>c. ASSUME pc[c] \notin {"new", "closed"}
      PROVE  /\ exists
             /\ \A d \in Conns : d # c => /\ pc[d] \in {"new", "closed"}
                                          /\ \A x : ~In(toBroker[d], x) /\ ~In(toClient[d], x)
  BY Zenon, <1>c, Quiet DEF SerialInv
<1>1. CASE handlePubrel(c)
  <2>0. Reads(c, "PUBREL") /\ UNCHANGED published
    BY Zenon, <1>1 DEF handlePubrel
  <2>1. PICK i \in Ids : Packet(c).id = i /\ Packet(c) = Pubrel(i)
    BY <2>0, ReadEffect, PacketForms
  <2>2. /\ In(toBroker[c], Pubrel(i)) /\ pc[c] = "read"
        /\ \A d \in Conns : \A x : In(toBroker'[d], x) => In(toBroker[d], x)
        /\ \A d \in Conns : \A x : Once(toBroker[d], x) => Once(toBroker'[d], x)
        /\ Once(toBroker[c], Pubrel(i)) => ~In(toBroker'[c], Pubrel(i))
    <3>1. /\ In(toBroker[c], Packet(c)) /\ pc[c] = "read"
          /\ \A d \in Conns : \A x : In(toBroker'[d], x) => In(toBroker[d], x)
          /\ \A d \in Conns : \A x : Once(toBroker[d], x) => Once(toBroker'[d], x)
          /\ Once(toBroker[c], Packet(c)) => ~In(toBroker'[c], Packet(c))
      BY Zenon, <2>0, ReadEffect
    <3> QED BY Zenon, <2>1, <3>1
  <2>3. PICK m \in QoS2Msgs : PacketID[m] = i /\ phase[m] = "release"
    BY Zenon, <2>2 DEF QoS2Inv, Owned
  <2>4. \A d \in Conns : ReleasePhase(m, d)
    BY Zenon, <2>3 DEF QoS2Inv, QoS2Packets
  <2>5. inFlight'[i] = NoMsg /\ \A j \in Ids : j # i => inFlight'[j] = inFlight[j]
    BY Zenon, <1>1, <2>1 DEF handlePubrel, TypeInv
  <2>6. /\ m \in Msgs /\ m # NoMsg /\ m \notin resend /\ inFlight[i] \in {NoMsg, m}
        /\ ~In(toBroker'[c], Pubrel(i)) /\ ~In(toClient[c], Ack("PUBCOMP", i))
    BY Zenon, <1>a, <2>2, <2>3, <2>4 DEF ReleasePhase
  <2>7. CASE /\ inFlight[i] = m /\ UNCHANGED toClient
             /\ pc' = [pc EXCEPT ![c] = "publish"] /\ cur' = [cur EXCEPT ![c] = m]
    <3>1. /\ pc'[c] = "publish" /\ cur'[c] = m
          /\ \A d \in Conns : d # c => pc'[d] = pc[d] /\ cur'[d] = cur[d]
      BY Zenon, <2>7 DEF TypeInv
    <3>2. \A n \in QoS2Msgs : n # m => MsgAlone(n)
      BY Zenon, <1>b, <2>0, <2>2, <3>1 DEF MsgAlone
    <3>3. \A j \in Ids : j # i => IdAlone(j)
      BY Zenon, <2>2, <2>5, <2>7 DEF IdAlone
    <3>4. \A d \in Conns : ReleasePhase(m, d)'
      <4>1. SUFFICES ASSUME NEW d \in Conns PROVE ReleasePhase(m, d)'
        BY Zenon
      <4>2. ReleasePhase(m, d) /\ published[m] = 0
        BY Zenon, <2>3, <2>4, <2>7 DEF ReleasePhase
      <4> QED BY Zenon, <1>b, <2>0, <2>2, <2>3, <2>5, <2>6, <2>7, <3>1, <4>2 DEF ReleasePhase
    <3>5. \A d \in Conns : QoS2Packets(m, d)'
      BY Zenon, <1>b, <2>3, <3>4 DEF QoS2Packets
    <3>6. \A d \in Conns : Owned(i, d)'
      BY Zenon, <1>a, <1>b, <2>2, <2>3, <2>4, <2>7 DEF ReleasePhase, Owned
    <3> QED BY Zenon, <1>b, <2>3, <2>5, <3>2, <3>3, <3>5, <3>6, OneMoves
  <2>8. CASE inFlight[i] = NoMsg /\ toClient' = enqueuePubAck(c, "PUBCOMP", i) /\ UNCHANGED <<pc, cur>>
    <3>1. /\ \A d \in Conns : \A x : In(toClient'[d], x) =>
              In(toClient[d], x) \/ (x = Ack("PUBCOMP", i) /\ d = c)
          /\ \A d \in Conns : \A x : Once(toClient[d], x) /\ (x = Ack("PUBCOMP", i) /\ d = c => ~In(toClient[d], x))
              => Once(toClient'[d], x)
      BY Zenon, <2>8, AckEffect
    <3>2. published[m] = 1
      <4>1. \A d \in Conns : ~(pc[d] = "publish" /\ cur[d] = m)
        BY Zenon, <1>c, <2>2
      <4> QED BY Zenon, <1>c, <2>2, <2>3, <2>4, <2>6, <2>8, <4>1 DEF ReleasePhase
    <3>3. \A n \in QoS2Msgs : n # m => MsgAlone(n)
      BY Zenon, <1>b, <2>0, <2>2, <2>8 DEF MsgAlone
    <3>4. \A j \in Ids : j # i => IdAlone(j)
      <4>1. \A j \in Ids, t \in {"PUBREC", "PUBCOMP"} : j # i => Ack(t, j) # Ack("PUBCOMP", i)
        BY Zenon, Packets
      <4> QED BY Zenon, <2>2, <2>5, <3>1, <4>1 DEF IdAlone
    <3>5. Ack("PUBREC", i) # Ack("PUBCOMP", i)
      BY Zenon, Packets
    <3>6. \A d \in Conns : ReleasePhase(m, d)'
      <4>1. SUFFICES ASSUME NEW d \in Conns PROVE ReleasePhase(m, d)'
        BY Zenon
      <4>2. ReleasePhase(m, d)
        BY Zenon, <2>4
      <4>3. Once(toClient'[d], Ack("PUBCOMP", i))
        BY Zenon, <2>3, <2>6, <3>1, <4>2 DEF ReleasePhase
      <4>4. ~(pc[d] = "publish" /\ cur[d] = m) /\ ~In(toBroker'[d], Pubrel(i))
        BY Zenon, <1>c, <2>2, <2>6
      <4> QED BY Zenon, <1>b, <2>0, <2>2, <2>3, <2>5, <2>6, <2>8, <3>1, <3>2, <3>5, <4>2, <4>3, <4>4 DEF ReleasePhase
    <3>7. \A d \in Conns : QoS2Packets(m, d)'
      BY Zenon, <1>b, <2>3, <3>6 DEF QoS2Packets
    <3>8. \A d \in Conns : Owned(i, d)'
      BY Zenon, <1>a, <1>b, <2>3, <2>4, <3>1, <3>5 DEF ReleasePhase, Owned
    <3> QED BY Zenon, <1>b, <2>3, <2>5, <3>3, <3>4, <3>7, <3>8, OneMoves
  <2>9. \/ /\ inFlight[i] # NoMsg /\ UNCHANGED toClient
           /\ pc' = [pc EXCEPT ![c] = "publish"] /\ cur' = [cur EXCEPT ![c] = inFlight[i]]
        \/ inFlight[i] = NoMsg /\ toClient' = enqueuePubAck(c, "PUBCOMP", i) /\ UNCHANGED <<pc, cur>>
    BY Zenon, <1>1, <2>1 DEF handlePubrel
  <2> QED BY Zenon, <2>6, <2>7, <2>8, <2>9
<1>2. CASE PublishReleased(c)
  <2>0. PICK m \in QoS2Msgs : m = cur[c]
    BY Zenon, <1>2 DEF PublishReleased, TypeInv
  <2> DEFINE i == PacketID[m]
  <2>1. m = cur[c] /\ m \in Msgs /\ i \in Ids /\ pc[c] = "publish" /\ UNCHANGED <<toBroker, inFlight>>
    BY Zenon, <1>a, <1>2, <2>0 DEF PublishReleased
  <2>2. toClient' = enqueuePubAck(c, "PUBCOMP", i)
    BY Zenon, <1>2, <2>1 DEF PublishReleased
  <2>3. pc'[c] = "read" /\ \A d \in Conns : d # c => pc'[d] = pc[d] /\ cur'[d] = cur[d]
    BY Zenon, <1>2 DEF PublishReleased, TypeInv
  <2>4. published'[m] = published[m] + 1 /\ \A n \in Msgs : n # m => published'[n] = published[n]
    BY Zenon, <1>2, <2>1 DEF PublishReleased, TypeInv
  <2> HIDE DEF i
  <2>5. /\ \A d \in Conns : \A x : In(toClient'[d], x) =>
              In(toClient[d], x) \/ (x = Ack("PUBCOMP", i) /\ d = c)
        /\ \A d \in Conns : \A x : Once(toClient[d], x) /\ (x = Ack("PUBCOMP", i) /\ d = c => ~In(toClient[d], x))
              => Once(toClient'[d], x)
    BY Zenon, <2>1, <2>2, AckEffect
  <2>6. phase[m] = "release"
    BY <2>1 DEF QoS2Inv, QoS2Packets, PublishPhase, NoPhase, TypeInv
  <2>7. \A d \in Conns : ReleasePhase(m, d)
    BY Zenon, <2>6 DEF QoS2Inv, QoS2Packets
  <2>8. /\ m \notin resend /\ ~In(toBroker[c], Pubrel(i)) /\ ~In(toClient[c], Ack("PUBCOMP", i))
        /\ published[m] = 0 /\ inFlight[i] = NoMsg
    BY Zenon, <2>1, <2>7 DEF ReleasePhase, i
  <2>9. \A n \in QoS2Msgs : n # m => MsgAlone(n)
    BY Zenon, <1>a, <1>b, <2>1, <2>3, <2>4 DEF MsgAlone
  <2>10. \A j \in Ids : j # PacketID[m] => IdAlone(j)
    <3>1. \A j \in Ids, t \in {"PUBREC", "PUBCOMP"} : j # i => Ack(t, j) # Ack("PUBCOMP", i)
      BY Zenon, Packets
    <3> QED BY Zenon, <2>1, <2>5, <3>1 DEF IdAlone, i
  <2>11. Ack("PUBREC", i) # Ack("PUBCOMP", i)
    BY Zenon, Packets
  <2>12. \A d \in Conns : ReleasePhase(m, d)'
    <3>1. SUFFICES ASSUME NEW d \in Conns PROVE ReleasePhase(m, d)'
      BY Zenon
    <3>2. ReleasePhase(m, d) /\ i = PacketID[m]
      BY Zenon, <2>7 DEF i
    <3>3. Once(toClient'[d], Ack("PUBCOMP", i))
      BY Zenon, <2>5, <2>8, <3>2 DEF ReleasePhase
    <3>4. ~(pc'[d] \in {"add", "publish"} /\ cur'[d] = m)
      BY Zenon, <1>c, <2>1, <2>3
    <3>5. ~In(toBroker[d], Pubrel(i))
      BY Zenon, <1>c, <2>1, <2>8
    <3>6. published'[m] = 1
      BY <2>4, <2>8
    <3>7. published'[m] # 0
      BY <3>6
    <3>8. /\ ~In(toClient'[d], Ack("PUBREC", i)) /\ ~In(toBroker'[d], Publish(m))
          /\ ~In(toBroker'[d], Pubrel(i)) /\ Once(toBroker'[d], Pubrel(i))
      BY Zenon, <2>1, <2>5, <2>11, <3>2, <3>5 DEF ReleasePhase
    <3>9. m \notin resend' /\ inFlight'[i] = NoMsg /\ NoMsg # m
      BY Zenon, <1>a, <1>b, <2>1, <2>8
    <3> QED BY Zenon, <3>2, <3>3, <3>4, <3>6, <3>7, <3>8, <3>9 DEF ReleasePhase
  <2>13. \A d \in Conns : QoS2Packets(m, d)'
    BY Zenon, <1>b, <2>6, <2>12 DEF QoS2Packets
  <2>14. \A d \in Conns : Owned(PacketID[m], d)'
    BY Zenon, <1>a, <1>b, <2>1, <2>5, <2>6, <2>7, <2>11 DEF ReleasePhase, Owned, i
  <2> QED BY Zenon, <1>b, <2>1, <2>6, <2>8, <2>9, <2>10, <2>13, <2>14, OneMoves DEF i
<1> QED BY Zenon, <1>1, <1>2

\* The broker's other steps concern no QoS 2 message.
LEMMA BrokerStepQoS2 ==
  ASSUME TypeInv, ClientInv, SerialInv, QoS2Inv, ClientInv', NEW c \in Conns, BrokerStep(c)
  PROVE  QoS2Inv'
<1> USE ConstantsAssumption
<1>a. QoS2Msgs \subseteq Msgs
  BY Zenon DEF QoS2Msgs
<1>b. ASSUME Reads(c, "PUBLISH"), UNCHANGED <<phase, resend, pc, cur, inFlight, exists>>,
             \A m \in QoS2Msgs : published'[m] = published[m],
             toClient' = enqueuePubAck(c, "PUBACK", Packet(c).id) \/ toClient' = toClient
      PROVE  QoS2Inv'
  <2>1. Packet(c) \in ToBroker /\ Packet(c).type = "PUBLISH"
    BY Zenon, <1>b, ReadEffect
  <2>2. PICK i \in Ids : i = Packet(c).id
    BY Zenon, <2>1, PacketForms, Packets
  <2>3. \A d \in Conns : \A x : /\ In(toBroker'[d], x) => In(toBroker[d], x)
                                /\ Once(toBroker[d], x) => Once(toBroker'[d], x)
    BY Zenon, <1>b, ReadEffect
  <2>4. \A d \in Conns : \A x : x # Ack("PUBACK", i) =>
                                /\ In(toClient'[d], x) => In(toClient[d], x)
                                /\ Once(toClient[d], x) => Once(toClient'[d], x)
    <3>1. CASE toClient' = toClient
      BY Zenon, <3>1
    <3>2. CASE toClient' = enqueuePubAck(c, "PUBACK", i)
      BY Zenon, <3>2, AckEffect
    <3> QED BY Zenon, <1>b, <2>2, <3>1, <3>2
  <2>5. \A m \in QoS2Msgs : MsgAlone(m)
    BY Zenon, <1>b, <2>3 DEF MsgAlone
  <2>6. \A j \in Ids, t \in {"PUBREC", "PUBCOMP"} : Ack(t, j) # Ack("PUBACK", i)
    BY Zenon, Packets
  <2>7. \A j \in Ids : IdAlone(j)
    BY Zenon, <1>b, <2>3, <2>4, <2>6 DEF IdAlone
  <2> QED BY Zenon, <1>b, <2>5, <2>7, NoneMoves
<1>1. CASE handlePublishRefused(c)
  <2>1. /\ Reads(c, "PUBLISH") /\ UNCHANGED <<phase, resend, pc, cur, inFlight, exists, published>>
        /\ toClient' = enqueuePubAck(c, "PUBACK", Packet(c).id) \/ toClient' = toClient
    BY Zenon, <1>1 DEF handlePublishRefused, clientVars
  <2> QED BY Zenon, <1>b, <2>1
<1>2. CASE handlePublishQoS1(c)
  <2>1. /\ Reads(c, "PUBLISH") /\ UNCHANGED <<phase, resend, pc, cur, inFlight, exists>>
        /\ toClient' = enqueuePubAck(c, "PUBACK", Packet(c).id)
        /\ QoS[Packet(c).msg] = 1 /\ published' = [published EXCEPT ![Packet(c).msg] = @ + 1]
    BY Zenon, <1>2 DEF handlePublishQoS1, clientVars
  <2>2. \A m \in QoS2Msgs : published'[m] = published[m]
    BY <2>1 DEF TypeInv, QoS2Msgs
  <2> QED BY Zenon, <1>b, <2>1, <2>2
<1>3. CASE ReadLoopEnds(c)
  <2>1. /\ UNCHANGED <<phase, cur, inFlight, exists, published>>
        /\ resend' = {} \/ UNCHANGED resend
        /\ \A d \in Conns :
             /\ toClient'[d] = toClient[d] \/ toClient'[d] = <<>>
             /\ toBroker'[d] = toBroker[d] \/ toBroker'[d] = <<>>
             /\ \A t \in {"add", "publish"} : pc'[d] = t <=> pc[d] = t
    BY Zenon, <1>3 DEF ReadLoopEnds, TypeInv
  <2>2. \A m \in QoS2Msgs : MsgAlone(m)
    BY Zenon, <2>1, EmptyChannel DEF MsgAlone
  <2>3. \A i \in Ids : IdAlone(i)
    BY <2>1, EmptyChannel DEF IdAlone
  <2> QED BY Zenon, <2>1, <2>2, <2>3, NoneMoves
<1> QED BY Zenon, <1>1, <1>2, <1>3, PublishQoS2, PubrelQoS2 DEF BrokerStep

\* Every step keeps QoS 2 in order; a restart takes all packets and the session.
LEMMA QoS2Step ==
  ASSUME TypeInv, ClientInv, SerialInv, QoS1Inv, QoS2Inv, ~Overlap, [Next]_vars
  PROVE  QoS2Inv'
<1> USE ConstantsAssumption
<1>0. TypeInv' /\ ClientInv'
  BY Zenon, TypeStep
<1>1. CASE ClientStep
  BY Zenon, <1>0, <1>1, ClientStepQoS2
<1>2. CASE Restart
  <2>1. /\ ~exists' /\ resend' = {} /\ UNCHANGED <<phase, published>>
        /\ \A c \in Conns : toBroker'[c] = <<>> /\ toClient'[c] = <<>> /\ pc'[c] \in {"new", "closed"}
        /\ \A i \in Ids : inFlight'[i] = NoMsg
    BY Zenon, <1>2 DEF Restart
  <2>2. QoS2Msgs' = QoS2Msgs /\ \A m \in QoS2Msgs : m \in Msgs /\ PacketID[m] \in Ids
    BY Zenon, Packets DEF QoS2Msgs
  <2>3. \A m \in QoS2Msgs, c \in Conns : QoS2Packets(m, c)'
    <3>1. SUFFICES ASSUME NEW m \in QoS2Msgs, NEW c \in Conns PROVE QoS2Packets(m, c)'
      BY Zenon, <2>2
    <3>2. QoS2Packets(m, c)
      BY Zenon DEF QoS2Inv
    <3>a. /\ \A x : ~In(toBroker'[c], x) /\ Once(toBroker'[c], x)
          /\ \A x : ~In(toClient'[c], x) /\ Once(toClient'[c], x)
      BY Zenon, <2>1, EmptyChannel
    <3>b. /\ m \notin resend' /\ inFlight'[PacketID[m]] = NoMsg /\ m # NoMsg
          /\ pc'[c] # "add" /\ pc'[c] # "publish"
      BY Zenon, <2>1, <2>2
    <3>3. ASSUME phase[m] = "publish" PROVE PublishPhase(m, c)'
      <4>1. published'[m] = 0
        BY Zenon, <2>1, <3>2, <3>3 DEF QoS2Packets, PublishPhase
      <4> QED BY Zenon, <3>a, <3>b, <4>1 DEF PublishPhase
    <3>4. ASSUME phase[m] = "release" PROVE ReleasePhase(m, c)'
      <4>1. published'[m] \in {0, 1}
        BY Zenon, <2>1, <3>2, <3>4 DEF QoS2Packets, ReleasePhase
      <4> QED BY Zenon, <2>1, <3>a, <3>b, <4>1 DEF ReleasePhase
    <3>5. ASSUME phase[m] \in {"new", "done", "lost"} PROVE NoPhase(m, c)'
      BY Zenon, <2>1, <2>2, EmptyChannel DEF NoPhase
    <3> QED BY Zenon, <2>1, <3>2, <3>3, <3>4, <3>5 DEF QoS2Packets
  <2>4. \A i \in Ids, c \in Conns : Owned(i, c)'
    BY <2>1, EmptyChannel DEF Owned
  <2> QED BY Zenon, <2>1, <2>2, <2>3, <2>4 DEF QoS2Inv
<1>3. CASE \E c \in Conns : BrokerStep(c)
  BY Zenon, <1>0, <1>3, BrokerStepQoS2
<1>4. CASE UNCHANGED vars
  <2>1. UNCHANGED <<phase, resend, toBroker, toClient, pc, cur, inFlight, exists, published>>
    BY Zenon, <1>4 DEF vars, clientVars, netVars
  <2>2. (\A m \in QoS2Msgs : MsgAlone(m)) /\ \A i \in Ids : IdAlone(i)
    BY Zenon, <2>1 DEF MsgAlone, IdAlone
  <2> QED BY Zenon, <2>1, <2>2, NoneMoves
<1> QED BY Zenon, <1>1, <1>2, <1>3, <1>4 DEF Next

-----------------------------------------------------------------------------
(* The refinement. *)

\* The phase of a message tells its abstract status, and the other way round.
LEMMA StatusIs ==
  ASSUME TypeInv, NEW m \in QoS2Msgs
  PROVE  /\ phase[m] = "new" <=> Status(m) = "unsent"
         /\ phase[m] \in {"publish", "release"} <=> Status(m) = "sent"
         /\ phase[m] = "done" <=> Status(m) = "confirmed"
         /\ phase[m] = "lost" <=> Status(m) = "abandoned"
  BY Zenon DEF TypeInv, Status, QoS2Msgs

\* A step that changes neither the status nor the count of a QoS 2 message stutters.
LEMMA Stutters ==
  ASSUME \A m \in QoS2Msgs : Status(m)' = Status(m) /\ published'[m] = published[m]
  PROVE  [Abstract!Next]_<<[m \in QoS2Msgs |-> Status(m)], [m \in QoS2Msgs |-> published[m]]>>
<1>1. QoS2Msgs' = QoS2Msgs
  BY Zenon DEF QoS2Msgs
<1> QED BY Zenon, <1>1

\* Every step of Inbound is a step of ExactlyOnce or none.
LEMMA RefinesStep ==
  ASSUME TypeInv, TypeInv', ClientInv, SerialInv, QoS2Inv, ~Overlap, [Next]_vars
  PROVE  [Abstract!Next]_<<[m \in QoS2Msgs |-> Status(m)], [m \in QoS2Msgs |-> published[m]]>>
<1> USE ConstantsAssumption
<1> DEFINE st == [m \in QoS2Msgs |-> Status(m)]
           dl == [m \in QoS2Msgs |-> published[m]]
<1>a. QoS2Msgs \subseteq Msgs /\ QoS2Msgs' = QoS2Msgs
  BY Zenon DEF QoS2Msgs
<1>b. ASSUME UNCHANGED <<phase, published>>
      PROVE  [Abstract!Next]_<<st, dl>>
  <2>1. \A m \in QoS2Msgs : Status(m)' = Status(m) /\ published'[m] = published[m]
    BY Zenon, <1>b DEF Status
  <2> QED BY Zenon, <2>1, Stutters
<1>c. \A m \in QoS2Msgs : st[m] = Status(m) /\ st'[m] = Status(m)' /\ dl[m] = published[m] /\ dl'[m] = published'[m]
  BY Zenon, <1>a
<1>d. ASSUME \A m \in QoS2Msgs : published'[m] = published[m]
      PROVE  dl' = dl
  BY Zenon, <1>a, <1>d
<1>1. CASE ClientReceive
  <2> DEFINE a == Head(toClient[current])
  <2>1. current # NoConn /\ current \in Conns /\ UNCHANGED <<published, inFlight>>
    BY Zenon, <1>1 DEF ClientReceive, TypeInv
  <2>2. \A m \in QoS2Msgs : phase'[m] = phase[m] \/
           /\ phase[m] \in {"publish", "release"} /\ PacketID[m] = a.id
           /\ \/ phase'[m] = "release"
              \/ a.type = "PUBCOMP" /\ phase[m] = "release" /\ phase'[m] = "done"
    <3>1. SUFFICES ASSUME NEW m \in QoS2Msgs, phase'[m] # phase[m]
                   PROVE  /\ phase[m] \in {"publish", "release"} /\ PacketID[m] = a.id
                          /\ \/ phase'[m] = "release"
                             \/ a.type = "PUBCOMP" /\ phase[m] = "release" /\ phase'[m] = "done"
      BY Zenon
    <3>2. m \in Msgs /\ QoS[m] = 2
      BY Zenon DEF QoS2Msgs
    <3>3. QoS[m] # 1
      BY <3>2
    <3>4. /\ m \in Unfinished /\ PacketID[m] = a.id
          /\ \/ a.type = "PUBACK" /\ QoS[m] = 1 /\ phase'[m] = "done"
             \/ a.type = "PUBREC" /\ QoS[m] = 2 /\ phase'[m] = "release"
             \/ a.type = "PUBCOMP" /\ phase[m] = "release" /\ phase'[m] = "done"
      BY Zenon, <1>1, <3>1, <3>2, ReceivePhases
    <3> QED
      BY Zenon, <3>3, <3>4 DEF Unfinished
  <2>3. CASE \A m \in QoS2Msgs : phase'[m] = phase[m] \/ phase'[m] = "release"
    <3>1. \A m \in QoS2Msgs : Status(m)' = Status(m)
      BY Zenon, <2>2, <2>3 DEF Status
    <3> QED BY Zenon, <2>1, <3>1, Stutters
  <2>4. CASE ~\A m \in QoS2Msgs : phase'[m] = phase[m] \/ phase'[m] = "release"
    <3>1. PICK m \in QoS2Msgs : a.type = "PUBCOMP" /\ phase[m] = "release" /\ phase'[m] = "done" /\ PacketID[m] = a.id
      BY Zenon, <2>2, <2>4
    <3>2. \A n \in QoS2Msgs : n # m => phase'[n] = phase[n] \/ (phase[n] = "publish" /\ phase'[n] = "release")
                                       \/ (phase[n] = "release" /\ phase'[n] = "release")
      BY <1>a, <2>2, <3>1 DEF ClientInv, Unfinished
    <3>3. \A n \in QoS2Msgs : n # m => Status(n)' = Status(n)
      BY Zenon, <3>2 DEF Status
    <3>4. Status(m) = "sent" /\ Status(m)' = "confirmed"
      BY Zenon, <3>1 DEF Status
    <3>5. a \in ToClient /\ In(toClient[current], a)
      BY Zenon, <1>1, <2>1, ReceiveEffect DEF ClientReceive
    <3>6. In(toClient[current], Ack("PUBCOMP", PacketID[m]))
      BY Zenon, <3>1, <3>5, PacketForms
    <3>7. published[m] = 1
      BY Zenon, <2>1, <3>1, <3>6 DEF QoS2Inv, QoS2Packets, ReleasePhase
    <3>8. st' = [st EXCEPT ![m] = "confirmed"]
      BY Zenon, <1>a, <3>3, <3>4
    <3>9. dl' = dl
      BY Zenon, <1>d, <2>1
    <3>10. Abstract!Confirm(m)
      BY Zenon, <1>c, <3>4, <3>7, <3>8, <3>9 DEF Abstract!Confirm
    <3> QED BY Zenon, <3>10 DEF Abstract!Next
  <2> QED BY Zenon, <2>3, <2>4
<1>2. ASSUME NEW c \in Conns, Connect(c) PROVE [Abstract!Next]_<<st, dl>>
  <2>1. CASE exists
    BY Zenon, <1>2, <2>1, <1>b DEF Connect
  <2>2. CASE ~exists
    <3>1. UNCHANGED published /\ \A m \in Msgs : phase'[m] = IF m \in Unfinished THEN "lost" ELSE phase[m]
      BY Zenon, <1>2, <2>2 DEF Connect
    <3>2. \A m \in QoS2Msgs : Status(m)' = IF Status(m) = "sent" THEN "abandoned" ELSE Status(m)
      <4>1. SUFFICES ASSUME NEW m \in QoS2Msgs
                     PROVE  Status(m)' = IF Status(m) = "sent" THEN "abandoned" ELSE Status(m)
        BY Zenon
      <4>2. CASE phase[m] \in {"publish", "release"}
        <5>1. phase'[m] = "lost"
          BY Zenon, <1>a, <3>1, <4>2 DEF Unfinished
        <5> QED BY Zenon, <4>2, <5>1 DEF Status
      <4>3. CASE phase[m] \notin {"publish", "release"}
        <5>1. phase'[m] = phase[m]
          BY Zenon, <1>a, <3>1, <4>3 DEF Unfinished
        <5>2. Status(m)' = Status(m)
          BY Zenon, <5>1 DEF Status
        <5> QED BY Zenon, <4>3, <5>2, StatusIs
      <4> QED BY Zenon, <4>2, <4>3
    <3>3. st' = [m \in QoS2Msgs |-> IF st[m] = "sent" THEN "abandoned" ELSE st[m]]
      BY Zenon, <1>a, <3>2
    <3>4. dl' = dl
      BY Zenon, <1>d, <3>1
    <3>5. Abstract!Abandon
      BY Zenon, <3>3, <3>4 DEF Abstract!Abandon
    <3> QED BY Zenon, <3>5 DEF Abstract!Next
  <2> QED BY Zenon, <2>1, <2>2
<1>3. ASSUME NEW m \in Msgs, ClientPublish(m) PROVE [Abstract!Next]_<<st, dl>>
  <2>1. /\ phase[m] = "new" /\ phase'[m] = "publish" /\ UNCHANGED published
        /\ \A n \in Msgs : n # m => phase'[n] = phase[n]
    BY <1>3 DEF ClientPublish, TypeInv
  <2>2. \A n \in QoS2Msgs : n # m => Status(n)' = Status(n)
    BY Zenon, <1>a, <2>1 DEF Status
  <2>3. CASE m \notin QoS2Msgs
    BY Zenon, <2>1, <2>2, <2>3, Stutters
  <2>4. CASE m \in QoS2Msgs
    <3>1. Status(m) = "unsent" /\ Status(m)' = "sent"
      BY Zenon, <2>1 DEF Status
    <3>2. st' = [st EXCEPT ![m] = "sent"]
      BY Zenon, <1>a, <2>2, <2>4, <3>1
    <3>3. dl' = dl
      BY Zenon, <1>d, <2>1
    <3>4. Abstract!Send(m)
      BY Zenon, <1>c, <2>4, <3>1, <3>2, <3>3 DEF Abstract!Send
    <3> QED BY Zenon, <2>4, <3>4 DEF Abstract!Next
  <2> QED BY Zenon, <2>3, <2>4
<1>4. ASSUME NEW c \in Conns, handlePublishQoS1(c) PROVE [Abstract!Next]_<<st, dl>>
  <2>1. UNCHANGED phase /\ QoS[Packet(c).msg] = 1 /\ published' = [published EXCEPT ![Packet(c).msg] = @ + 1]
    BY Zenon, <1>4 DEF handlePublishQoS1, clientVars
  <2>2. \A m \in QoS2Msgs : published'[m] = published[m]
    BY <2>1 DEF TypeInv, QoS2Msgs
  <2>3. \A m \in QoS2Msgs : Status(m)' = Status(m)
    BY Zenon, <2>1 DEF Status
  <2> QED BY Zenon, <2>2, <2>3, Stutters
<1>5. ASSUME NEW c \in Conns, PublishReleased(c) PROVE [Abstract!Next]_<<st, dl>>
  <2>1. PICK m \in QoS2Msgs : m = cur[c]
    BY Zenon, <1>5 DEF PublishReleased, TypeInv
  <2>2. /\ UNCHANGED phase /\ pc[c] = "publish" /\ published'[m] = published[m] + 1
        /\ \A n \in Msgs : n # m => published'[n] = published[n]
    BY Zenon, <1>5, <1>a, <2>1 DEF PublishReleased, TypeInv, clientVars
  <2>3. phase[m] = "release"
    BY <2>1, <2>2 DEF QoS2Inv, QoS2Packets, PublishPhase, NoPhase, TypeInv, QoS2Msgs
  <2>4. published[m] = 0
    BY Zenon, <2>1, <2>2, <2>3 DEF QoS2Inv, QoS2Packets, ReleasePhase
  <2>5. st' = st
    <3>1. \A n \in QoS2Msgs : Status(n)' = Status(n)
      BY Zenon, <2>2 DEF Status
    <3> QED BY Zenon, <1>a, <3>1
  <2>6. dl' = [dl EXCEPT ![m] = 1]
    <3>1. published'[m] = 1 /\ \A n \in QoS2Msgs : n # m => published'[n] = published[n]
      BY <1>a, <2>2, <2>4
    <3> QED BY Zenon, <1>a, <3>1
  <2>7. Status(m) = "sent"
    BY Zenon, <2>3 DEF Status
  <2>8. Abstract!Deliver(m)
    BY Zenon, <1>c, <2>4, <2>5, <2>6, <2>7 DEF Abstract!Deliver
  <2> QED BY Zenon, <2>8 DEF Abstract!Next
<1>6. ASSUME UNCHANGED vars \/ ClientDrop \/ Restart \/ (\E m \in Msgs : ClientResend(m))
             \/ \E c \in Conns : handlePublishRefused(c) \/ handlePublishQoS2(c) \/ AddInFlight(c)
                                 \/ handlePubrel(c) \/ ReadLoopEnds(c)
      PROVE  [Abstract!Next]_<<st, dl>>
  <2>1. UNCHANGED <<phase, published>>
    BY Zenon, <1>6 DEF vars, clientVars, ClientDrop, Restart, ClientResend, handlePublishRefused,
                handlePublishQoS2, AddInFlight, handlePubrel, ReadLoopEnds
  <2> QED BY Zenon, <1>b, <2>1
<1> QED BY Zenon, <1>1, <1>2, <1>3, <1>4, <1>5, <1>6 DEF Next, ClientStep, BrokerStep

\* handlePublish and handlePubrel, QoS 2: over reconnects, retransmissions, lost
\* acknowledgements and restarts, a message is handed to the router at most once, is
\* confirmed only after that, and is not handed on once the client has given it up, when a
\* client connects again only after the broker is done with its previous connection.
THEOREM QoS2IsExactlyOnce == ~Overlap => (Spec => ImplementsExactlyOnce)
<1> SUFFICES ASSUME ~Overlap PROVE Spec => ImplementsExactlyOnce
  BY Zenon
<1> DEFINE Inv == TypeInv /\ ClientInv /\ QoS1Inv /\ AtLeastOnce /\ SerialInv /\ QoS2Inv
<1>1. Init => Inv
  <2> SUFFICES ASSUME Init PROVE Inv
    BY Zenon
  <2>1. QoS1Inv /\ AtLeastOnce
    BY Zenon DEF Init, QoS1Inv, AtLeastOnce
  <2>2. SerialInv
    BY Zenon DEF Init, SerialInv
  <2>3. \A m \in QoS2Msgs, c \in Conns : QoS2Packets(m, c)
    BY Zenon, EmptyChannel DEF Init, QoS2Packets, NoPhase, QoS2Msgs
  <2>4. \A i \in Ids, c \in Conns : Owned(i, c)
    BY Zenon, EmptyChannel DEF Init, Owned
  <2>5. QoS2Inv
    BY Zenon, <2>3, <2>4 DEF Init, QoS2Inv
  <2> QED BY Zenon, <2>1, <2>2, <2>5, InitType
<1>2. Inv /\ [Next]_vars => Inv'
  BY Zenon, TypeStep, QoS1Step, SerialStep, QoS2Step
<1>3. Init => Abstract!Init
  <2> SUFFICES ASSUME Init PROVE Abstract!Init
    BY Zenon
  <2>1. \A m \in QoS2Msgs : Status(m) = "unsent" /\ published[m] = 0
    BY Zenon DEF Init, Status, QoS2Msgs
  <2> QED BY Zenon, <2>1 DEF Abstract!Init
<1>4. Inv /\ Inv' /\ [Next]_vars =>
        [Abstract!Next]_<<[m \in QoS2Msgs |-> Status(m)], [m \in QoS2Msgs |-> published[m]]>>
  BY Zenon, RefinesStep
<1> HIDE DEF Inv
<1> QED BY <1>1, <1>2, <1>3, <1>4, PTL DEF Spec, ImplementsExactlyOnce, Abstract!Spec

=============================================================================
