-------------------------------- MODULE Wire ---------------------------------
(***************************************************************************)
(* One connection as two byte streams.  The client encodes its packets as  *)
(* MQTT prescribes and may send several without waiting; the read loop     *)
(* cuts the stream into packets, decodes and handles each, and the client  *)
(* reads the answers and deliveries back.  Only what depends on the wire   *)
(* format is here: sessions, routing and authentication are in the other   *)
(* modules, and a refusal by the ACL or a plugin is a choice.              *)
(***************************************************************************)
EXTENDS Codec

CONSTANTS
  Scripts,      \* what a client may send: sequences of packets, CONNECT first
  Messages,     \* messages the router may have for the client
  PacketIds,    \* identifiers NextPacketID may return
  Options,      \* connackV5FromConfig: properties of the CONNACK
  ServerMaximumQoS, MaxPacketSize,  \* configuration
  MaxDeliveries \* bound on the messages for the client

ASSUME WireAssumption ==
  /\ \A s \in Scripts : s[1].Type = "CONNECT"
  /\ ServerMaximumQoS \in 0 .. 2
  /\ \A n \in {MaxPacketSize, MaxDeliveries} : n \in Nat

VARIABLES
  state,   \* "handshaking", "connected", "closed"; "failed" by a decode error
  version, \* Client.version, 0 before CONNECT
  peerMax, \* peerMaxPacketSize, 0 for none
  up, down,     \* bytes on their way to the broker, to the client
  script,       \* what the client will send
  sent, got,    \* packets the client sent, the broker decoded
  said, heard,  \* packets the broker sent, the client decoded
  deliveries    \* messages routed to the client so far

vars == <<state, version, peerMax, up, down, script, sent, got, said, heard,
          deliveries>>

Init ==
  /\ state = "handshaking" /\ version = 0 /\ peerMax = 0
  /\ up = <<>> /\ down = <<>>
  /\ script \in Scripts
  /\ sent = <<>> /\ got = <<>> /\ said = <<>> /\ heard = <<>>
  /\ deliveries = 0

-----------------------------------------------------------------------------
(* The client: the encoding of MQTT, independent of Codec's encoders.      *)
(* Properties are a sequence of pairs <<identifier, bytes>>.               *)

Level == script[1].Version

\* Variable byte integer of up to three bytes.
VarBytes(n) ==
  IF n < 128 THEN <<n>>
  ELSE IF n < 16384 THEN <<128 + (n % 128), n \div 128>>
  ELSE <<128 + (n % 128), 128 + ((n \div 128) % 128), n \div 16384>>
Str(s) == <<Len(s) \div 256, Len(s) % 256>> \o s
Num(n) == <<n \div 256, n % 256>>
All(strs) == FlattenSeq([i \in 1 .. Len(strs) |-> Str(strs[i])])

PropBytes(ps) == FlattenSeq([i \in 1 .. Len(ps) |-> <<ps[i][1]>> \o ps[i][2]])
Section(v, ps) ==
  IF v = V50 THEN VarBytes(Len(PropBytes(ps))) \o PropBytes(ps) ELSE <<>>
Given(ps, id, width) ==
  LET at == {i \in 1 .. Len(ps) : ps[i][1] = id}
  IN  IF at = {} THEN Zeros(width) ELSE ps[Min(at)][2]

\* Bits of a byte, the most significant one first.
Bits(b) == FoldLeft(LAMBDA a, x : 2 * a + (IF x THEN 1 ELSE 0), 0, b)

HasWill(p) == p.WillTopic # <<>>

ClientBody(v, p) ==
  CASE p.Type = "CONNECT" ->
         Str(Mqtt) \o <<v, Bits(<<p.Username # <<>>, p.Password # <<>>,
                                  p.WillRetain, p.WillQoS > 1,
                                  p.WillQoS % 2 = 1, HasWill(p),
                                  p.CleanSession, FALSE>>)>>
           \o Num(p.KeepAlive) \o Section(v, p.props) \o Str(p.ClientID)
           \o (IF HasWill(p) THEN Section(v, <<>>) ELSE <<>>)
           \o All(p.WillTopic) \o All(p.WillPayload)
           \o All(p.Username) \o All(p.Password)
    [] p.Type = "PUBLISH" ->
         Str(p.Topic) \o (IF p.QoS > 0 THEN Num(p.PacketID) ELSE <<>>)
           \o Section(v, p.props) \o p.Payload
    [] p.Type \in {"PUBACK", "PUBREC", "PUBREL", "PUBCOMP"} ->
         Num(p.PacketID) \o (IF p.props = <<>> THEN <<>>
                             ELSE <<0>> \o Section(v, p.props))
    [] p.Type = "SUBSCRIBE" ->
         Num(p.PacketID) \o Section(v, p.props)
           \o FlattenSeq([i \in 1 .. Len(p.subs) |->
                            Append(Str(p.subs[i].Filter), p.subs[i].QoS)])
    [] p.Type = "UNSUBSCRIBE" ->
         Num(p.PacketID) \o Section(v, p.props) \o All(p.filters)
    [] p.Type = "DISCONNECT" ->
         IF v = V50 /\ p.props # <<>>
         THEN <<p.ReasonCode>> \o Section(v, p.props) ELSE <<>>
    [] OTHER -> <<>>

ClientFlags(p) ==
  CASE p.Type = "PUBLISH" -> Bits(<<p.Dup, p.QoS > 1, p.QoS % 2 = 1, p.Retain>>)
    [] p.Type \in {"PUBREL", "SUBSCRIBE", "UNSUBSCRIBE"} -> 2
    [] OTHER -> 0

ClientBytes(v, p) ==
  <<16 * (CHOOSE t \in 1 .. 15 : packetNames[t] = p.Type) + ClientFlags(p)>>
    \o VarBytes(Len(ClientBody(v, p))) \o ClientBody(v, p)

ClientSend ==
  /\ Len(sent) < Len(script)
  /\ LET p == script[Len(sent) + 1]
     IN  /\ up' = up \o ClientBytes(Level, p)
         /\ sent' = Append(sent, p)
  /\ UNCHANGED <<script, state, version, peerMax, down, got, said, heard, deliveries>>

-----------------------------------------------------------------------------
(* The broker. *)

fh   == ReadFixed(up)
body == SubSeq(up, fh.header + 1, fh.header + fh.RemainingLength)

\* One round of readLoop has its packet, of the given types.
Receive(types) ==
  /\ state \in {"handshaking", "connected"}
  /\ fh.ok /\ Len(up) >= fh.header + fh.RemainingLength
  /\ fh.Type \in types
  /\ up' = SubSeq(up, fh.header + fh.RemainingLength + 1, Len(up))
  /\ UNCHANGED <<script, sent, heard, deliveries>>

Fits == fh.RemainingLength <= MaxPacketSize

\* enqueue and writeLoop: record r goes out as the bytes b.
Enqueue(r, b) == said' = Append(said, r) /\ down' = down \o b
Quiet == UNCHANGED <<said, down>>

\* The handler returned an error: the connection ends.
HandleError(d) ==
  /\ ~d.ok
  /\ state' = "failed"
  /\ UNCHANGED <<version, peerMax, got>>

Decoded(d) ==
  /\ d.ok
  /\ got' = Append(got, d)
  /\ UNCHANGED <<version, peerMax>>

readLoopOversized ==
  /\ state \in {"handshaking", "connected"}
  /\ fh.ok /\ ~Fits
  /\ state' = "failed"
  /\ UNCHANGED <<version, peerMax, up, script, sent, got, heard, deliveries>>
  /\ Quiet

\* What a CONNACK without a property means.
DefaultOptions ==
  [ReceiveMaximum |-> 0, MaximumQoS |-> 2, MaxPacketSize |-> Zeros(4),
   TopicAliasMax |-> 0, available |-> [i \in 1 .. 4 |-> TRUE]]

Connack(present, code, opts) ==
  [Type |-> "CONNACK", present |-> present, code |-> code, opts |-> opts]

sendConnackFailure(reasonV5) ==
  IF version = V50 \/ PeekConnectProtocolLevel(body) = V50
  THEN Enqueue(Connack(FALSE, reasonV5, DefaultOptions),
               EncodeConnackV5(FALSE, reasonV5, DefaultOptions))
  ELSE Enqueue(Connack(FALSE, 1, DefaultOptions), EncodeConnack(FALSE, 1))

Uint32(s) == 65536 * Uint16(SubSeq(s, 1, 2)) + Uint16(SubSeq(s, 3, 4))

\* The refusals after decoding, and the reason code of level 5 for each:
\* authentication, a plugin, or an identifier that is not acceptable.
ConnackReasonV5FromV311 == (2 :> 133) @@ (4 :> 134) @@ (5 :> 135)

NegotiatedAliasMax(d) ==
  LET ta == Uint16(d.TopicAliasMaximum)
  IN  IF ta > 0 /\ (Options.TopicAliasMax = 0 \/ ta < Options.TopicAliasMax)
      THEN ta ELSE Options.TopicAliasMax

\* Only a clean session may leave the identifier to the broker.
NoIdentifier(d) == d.ClientID = <<>> /\ ~d.CleanSession

ConnectRefused(d, code) ==
  /\ d.ok
  /\ got' = Append(got, d)
  /\ version' = d.Version
  /\ state' = "closed"
  /\ UNCHANGED peerMax
  /\ IF d.Version = V50
     THEN LET reason == ConnackReasonV5FromV311[code]
          IN  Enqueue(Connack(FALSE, reason, DefaultOptions),
                      EncodeConnackV5(FALSE, reason, DefaultOptions))
     ELSE Enqueue(Connack(FALSE, code, DefaultOptions), EncodeConnack(FALSE, code))

ConnectAccepted(d, present) ==
  /\ d.ok
  /\ got' = Append(got, d)
  /\ version' = d.Version
  /\ peerMax' = Uint32(d.MaximumPacketSize)
  /\ state' = "connected"
  /\ IF d.Version = V50
     THEN LET opts == [Options EXCEPT !.TopicAliasMax = NegotiatedAliasMax(d)]
          IN  Enqueue(Connack(present, 0, opts), EncodeConnackV5(present, 0, opts))
     ELSE Enqueue(Connack(present, 0, DefaultOptions), EncodeConnack(present, 0))

handleConnect ==
  /\ Receive({"CONNECT"}) /\ Fits
  /\ \E d \in {DecodeConnect(body)} :
         \/ HandleError(d) /\ sendConnackFailure(ConnackReasonV5ForDecodeError(d.err))
         \/ ConnectRefused(d, 4)
         \/ ConnectRefused(d, 2) /\ NoIdentifier(d)
         \/ ConnectRefused(d, 5) /\ ~NoIdentifier(d)
         \/ \E present \in BOOLEAN :
              ConnectAccepted(d, present) /\ ~NoIdentifier(d)

Ack(t, id) == [Type |-> t, PacketID |-> id]

enqueuePubAck(t, id) ==
  Enqueue(Ack(t, id), IF version = V50 THEN EncodeAckV5(t, id, 0, <<>>)
                      ELSE EncodeAck(t, id))

\* Besides a decode error: the topic alias may not resolve, the message may be
\* dropped (expiry, ACL, plugin) without an answer, or it is handled.
handlePublish ==
  /\ Receive({"PUBLISH"}) /\ Fits
  /\ \E d \in {DecodePublish(version, fh.Flags, body)} :
         \/ HandleError(d) /\ Quiet
         \/ Decoded(d) /\ d.TopicAlias # Zeros(2) /\ state' = "closed" /\ Quiet
         \/ Decoded(d) /\ UNCHANGED state /\ Quiet
         \/ Decoded(d) /\ UNCHANGED state
            /\ d.QoS = 1 /\ enqueuePubAck("PUBACK", d.PacketID)
         \/ Decoded(d) /\ UNCHANGED state
            /\ d.QoS = 2 /\ enqueuePubAck("PUBREC", d.PacketID)

\* handlePuback, handlePubrec, handlePubrel and handlePubcomp.
handleAck ==
  /\ Receive({"PUBACK", "PUBREC", "PUBREL", "PUBCOMP"}) /\ Fits
  /\ LET d  == DecodePacketID(body)
         id == Uint16(d.val)
     IN  /\ d.ok
         /\ got' = Append(got, Ack(fh.Type, id))
         /\ UNCHANGED <<state, version, peerMax>>
         /\ CASE fh.Type = "PUBREC" -> enqueuePubAck("PUBREL", id)
              [] fh.Type = "PUBREL" -> enqueuePubAck("PUBCOMP", id)
              [] OTHER -> Quiet

\* Why a filter that is valid may be refused.
Verdicts(n, reasons) == [1 .. n -> reasons]
Deny(filter, verdict) == IF ValidTopicFilter(filter) THEN verdict ELSE "filter"

Codes(t, id, codes) == [Type |-> t, PacketID |-> id, codes |-> codes]

handleSubscribe ==
  /\ Receive({"SUBSCRIBE"}) /\ Fits
  /\ \E d \in {DecodeSubscribe(version, body)} :
         \/ HandleError(d) /\ Quiet
         \/ /\ Decoded(d) /\ UNCHANGED state
            /\ \E verdict \in Verdicts(Len(d.subs), {"ok", "acl", "plugin"}) :
                 LET codes == [i \in 1 .. Len(d.subs) |->
                       SubackReasonByte(version,
                         Min({d.subs[i].QoS, ServerMaximumQoS}),
                         Deny(d.subs[i].Filter, verdict[i]))]
                 IN  Enqueue(Codes("SUBACK", d.PacketID, codes),
                             IF version = V50
                             THEN EncodeSubackV5("SUBACK", d.PacketID, <<>>, codes)
                             ELSE EncodeSuback(d.PacketID, codes))

handleUnsubscribe ==
  /\ Receive({"UNSUBSCRIBE"}) /\ Fits
  /\ \E d \in {DecodeUnsubscribe(version, body)} :
         /\ Decoded(d) /\ UNCHANGED state
         /\ IF version = V50
            THEN \E verdict \in Verdicts(Len(d.filters), {"ok", "acl"}) :
                   LET codes == [i \in 1 .. Len(d.filters) |->
                         UnsubackReasonByte(Deny(d.filters[i], verdict[i]))]
                   IN  Enqueue(Codes("UNSUBACK", d.PacketID, codes),
                               EncodeSubackV5("UNSUBACK", d.PacketID, <<>>, codes))
            ELSE Enqueue(Codes("UNSUBACK", d.PacketID, <<>>),
                         EncodeUnsuback(d.PacketID))

handlePingreq ==
  /\ Receive({"PINGREQ"}) /\ Fits
  /\ got' = Append(got, [Type |-> "PINGREQ"])
  /\ UNCHANGED <<state, version, peerMax>>
  /\ Enqueue([Type |-> "PINGRESP"], Pingresp)

handleDisconnect ==
  /\ Receive({"DISCONNECT"}) /\ Fits
  /\ Decoded(DecodeDisconnect(version, body))
  /\ state' = "closed"
  /\ Quiet

\* handle: the rate limiter refuses the packet, ReasonQuotaExceeded.
RateLimited ==
  /\ state = "connected"
  /\ Receive(Range(packetNames)) /\ Fits
  /\ state' = "closed"
  /\ UNCHANGED <<version, peerMax, got>>
  /\ IF version = V50
     THEN Enqueue([Type |-> "DISCONNECT", ReasonCode |-> 151],
                  EncodeDisconnectV5(151, <<>>))
     ELSE Enqueue([Type |-> "DISCONNECT", ReasonCode |-> 0], EncodeDisconnectV311)

\* The deliver closure (the in-flight table is in Delivery).
Deliver(m, id) ==
  /\ state = "connected" /\ deliveries < MaxDeliveries
  /\ deliveries' = deliveries + 1
  /\ UNCHANGED <<state, version, peerMax, up, script, sent, got, heard>>
  /\ IF peerMax > 0 /\ ApproxClientOutboundPublishBytes(version, m.Topic,
                         Len(m.Payload), m.QoS) > peerMax
     THEN Quiet
     ELSE LET pid == IF m.QoS > 0 THEN id ELSE 0
          IN  Enqueue(
                [ok |-> TRUE, Type |-> "PUBLISH", Dup |-> FALSE, QoS |-> m.QoS,
                 Retain |-> m.Retain, Topic |-> m.Topic, PacketID |-> pid,
                 MessageExpiryInterval |-> Zeros(4), TopicAlias |-> Zeros(2),
                 Payload |-> m.Payload],
                IF version = V50
                THEN EncodePublishV5(m.Topic, m.Payload, m.QoS, m.Retain, pid,
                                     FALSE, <<>>)
                ELSE EncodePublish(m.Topic, m.Payload, m.QoS, m.Retain, pid,
                                   FALSE))

-----------------------------------------------------------------------------
(* The client reads. *)

ackWidths ==
  [id \in {33, 34, 36, 37, 39, 40, 41, 42} |->
     CASE id \in {33, 34} -> 2 [] id = 39 -> 4 [] OTHER -> 1]

\* Properties of a CONNACK as options; absent ones have their default.
ConnackOptions(ps) ==
  LET P(id, default) == IF id \in DOMAIN ps THEN ps[id] ELSE default
  IN  [ReceiveMaximum |-> Uint16(P(33, <<0, 0>>)), MaximumQoS |-> P(36, <<2>>)[1],
       MaxPacketSize |-> P(39, Zeros(4)), TopicAliasMax |-> Uint16(P(34, <<0, 0>>)),
       available |-> [i \in 1 .. 4 |-> P(<<37, 40, 41, 42>>[i], <<1>>) = <<1>>]]

\* Packet h with body b as a client of level v understands it.
ClientDecode(v, h, b) ==
  LET at(k)  == [newSliceReader(b) EXCEPT !.pos = k]
      ps(k)  == IF v = V50 THEN PropScan(at(k), ackWidths) ELSE NoProps(at(k))
      id     == IF Len(b) >= 2 THEN Uint16(b) ELSE 0
      Rest(r) == SubSeq(b, r.pos + 1, Len(b))
  IN  CASE h.Type = "CONNACK" ->
             IF ps(2).ok /\ Rest(ps(2)) = <<>>
             THEN Connack(b[1] = 1, b[2], ConnackOptions(ps(2).val))
             ELSE Err("connack")
        [] h.Type = "PUBLISH" -> DecodePublish(v, h.Flags, b)
        [] h.Type \in {"PUBACK", "PUBREC", "PUBREL", "PUBCOMP"} ->
             IF /\ h.Flags = AckFlags(h.Type)
                /\ (v = V50 /\ Len(b) = 4 /\ b[3] = 0 /\ b[4] = 0) \/ Len(b) = 2
             THEN Ack(h.Type, id) ELSE Err("ack")
        [] h.Type \in {"SUBACK", "UNSUBACK"} ->
             Codes(h.Type, id, Rest(ps(2)))
        [] h.Type = "DISCONNECT" ->
             [Type |-> h.Type, ReasonCode |-> DecodeDisconnect(v, b).ReasonCode]
        [] OTHER -> [Type |-> h.Type]

Incoming == ReadFixed(down)  \* header of the next packet for the client
NextBody == SubSeq(down, Incoming.header + 1, Incoming.header + Incoming.RemainingLength)

ClientRead ==
  /\ Incoming.ok /\ Len(down) >= Incoming.header + Incoming.RemainingLength
  /\ down' = SubSeq(down, Incoming.header + Incoming.RemainingLength + 1, Len(down))
  /\ heard' = Append(heard, ClientDecode(Level, Incoming, NextBody))
  /\ UNCHANGED <<state, version, peerMax, up, script, sent, got, said, deliveries>>

-----------------------------------------------------------------------------
Next ==
  \/ ClientSend
  \/ readLoopOversized
  \/ handleConnect
  \/ handlePublish
  \/ handleAck
  \/ handleSubscribe
  \/ handleUnsubscribe
  \/ handlePingreq
  \/ handleDisconnect
  \/ RateLimited
  \/ \E m \in Messages, id \in PacketIds : Deliver(m, id)
  \/ ClientRead

Spec == Init /\ [][Next]_vars

-----------------------------------------------------------------------------
(* Properties. *)

\* What the client meant by packet p, as the broker should see it.
Meant(p) ==
  CASE p.Type = "CONNECT" ->
         [ok |-> TRUE, Type |-> "CONNECT", Version |-> p.Version,
          CleanSession |-> p.CleanSession, KeepAlive |-> p.KeepAlive,
          WillQoS |-> p.WillQoS, WillRetain |-> p.WillRetain,
          SessionExpiryInterval |-> Given(p.props, 17, 4),
          ReceiveMaximum |-> Given(p.props, 33, 2),
          TopicAliasMaximum |-> Given(p.props, 34, 2),
          MaximumPacketSize |-> Given(p.props, 39, 4),
          ClientID |-> p.ClientID, WillTopic |-> p.WillTopic,
          WillPayload |-> p.WillPayload, Username |-> p.Username,
          Password |-> p.Password]
    [] p.Type = "PUBLISH" ->
         [ok |-> TRUE, Type |-> "PUBLISH", Dup |-> p.Dup, QoS |-> p.QoS,
          Retain |-> p.Retain, Topic |-> p.Topic,
          PacketID |-> IF p.QoS > 0 THEN p.PacketID ELSE 0,
          MessageExpiryInterval |-> Given(p.props, 2, 4),
          TopicAlias |-> Given(p.props, 35, 2), Payload |-> p.Payload]
    [] p.Type = "SUBSCRIBE" ->
         [ok |-> TRUE, Type |-> "SUBSCRIBE", PacketID |-> p.PacketID,
          subs |-> p.subs]
    [] p.Type = "UNSUBSCRIBE" ->
         [ok |-> TRUE, Type |-> "UNSUBSCRIBE", PacketID |-> p.PacketID,
          filters |-> p.filters]
    [] p.Type = "DISCONNECT" ->
         [ok |-> TRUE, Type |-> "DISCONNECT", ReasonCode |-> p.ReasonCode,
          HasSessionExpiryProp |-> \E i \in 1 .. Len(p.props) : p.props[i][1] = 17,
          SessionExpiryInterval |-> Given(p.props, 17, 4)]
    [] p.Type = "PINGREQ" -> [Type |-> "PINGREQ"]
    [] OTHER -> Ack(p.Type, p.PacketID)

\* Packets MQTT allows, within the broker's size limit.
WellFormed(p) ==
  /\ Len(ClientBody(Level, p)) <= MaxPacketSize
  /\ p.Type = "CONNECT" =>
       /\ p.Version \in {V311, V50}
       /\ p.WillTopic = <<>> => p.WillQoS = 0 /\ ~p.WillRetain
       /\ p.WillQoS < 3
       /\ \A i \in 1 .. Len(p.props) :
            p.props[i][1] \in {33, 39} => \E j \in DOMAIN p.props[i][2] :
                                            p.props[i][2][j] # 0
  /\ p.Type = "PUBLISH" =>
       /\ p.QoS < 3 /\ (p.Dup => p.QoS > 0)
       /\ p.QoS > 0 => p.PacketID # 0
       /\ p.Topic = <<>> => Level = V50 /\ Given(p.props, 35, 2) # <<0, 0>>
       /\ {Plus, Hash, 0} \cap Range(p.Topic) = {}
  /\ p.Type = "SUBSCRIBE" => p.subs # <<>>

\* The read loop stays in step with the client: it decodes exactly the packets
\* the client sent, in order and with the values the client gave them, however
\* many are in the stream; and it gives up on a decode error only at a packet
\* that MQTT or the size limit forbids, and at each of those (ReadFixed, readLoop
\* and the decoders).  And a client that knows MQTT reads every answer and
\* delivery as the broker meant it, in its own protocol level: no encoder
\* announces a wrong length, and a refused CONNECT is answered in the level it
\* asked for (sendConnackFailure).
InStep ==
  /\ IsPrefix(heard, said)
  /\ \A i \in 1 .. Len(got) :
       i <= Len(sent) /\ WellFormed(sent[i]) /\ got[i] = Meant(sent[i])
  /\ state = "failed" =>
       Len(got) < Len(sent) /\ ~WellFormed(sent[Len(got) + 1])

\* MQTT's rule for a filter, by positions: "+" fills a level, "#" fills the last.
PlainFilter(f) ==
  /\ f # <<>> /\ 0 \notin Range(f)
  /\ \A i \in 1 .. Len(f) :
       f[i] \in {Plus, Hash} =>
         /\ i = 1 \/ f[i - 1] = Slash
         /\ i = Len(f) \/ (f[i] = Plus /\ f[i + 1] = Slash)

\* $share/name/filter with a name free of wildcards.
LegalFilter(f) ==
  IF IsPrefix(SharePrefix, f)
  THEN \E i \in 9 .. Len(f) :
         /\ f[i] = Slash
         /\ \A j \in 8 .. i - 1 : f[j] \notin {Slash, Plus, Hash, 0}
         /\ PlainFilter(SubSeq(f, i + 1, Len(f)))
         /\ ~IsPrefix(SharePrefix, SubSeq(f, i + 1, Len(f)))
  ELSE PlainFilter(f)

OfType(s, t) == SelectSeq(s, LAMBDA p : p.Type = t)

\* The k-th SUBACK (UNSUBACK) the client reads answers its k-th SUBSCRIBE
\* (UNSUBSCRIBE): same identifier, one code for each filter in its order, a
\* grant of the smaller QoS only for a legal filter, and a level 5 client is
\* told "topic filter invalid" exactly of the illegal ones (handleSubscribe,
\* handleUnsubscribe, ValidTopicFilter).
SubackTruthful ==
  /\ LET acks == OfType(heard, "SUBACK") subs == OfType(got, "SUBSCRIBE")
     IN  \A k \in 1 .. Len(acks) :
           /\ acks[k].PacketID = subs[k].PacketID
           /\ Len(acks[k].codes) = Len(subs[k].subs)
           /\ \A i \in 1 .. Len(acks[k].codes) :
                LET c == acks[k].codes[i] s == subs[k].subs[i]
                IN  /\ c < 128 => /\ c = Min({s.QoS, ServerMaximumQoS})
                                  /\ LegalFilter(s.Filter)
                    /\ version = V50 => (c = 143) = ~LegalFilter(s.Filter)
  /\ LET acks == OfType(heard, "UNSUBACK") uns == OfType(got, "UNSUBSCRIBE")
     IN  \A k \in 1 .. Len(acks) :
           /\ acks[k].PacketID = uns[k].PacketID
           /\ version = V50 =>
                /\ Len(acks[k].codes) = Len(uns[k].filters)
                /\ \A i \in 1 .. Len(acks[k].codes) :
                     (acks[k].codes[i] = 143) = ~LegalFilter(uns[k].filters[i])

\* No PUBLISH the broker sends is larger than the Maximum Packet Size the client
\* gave in CONNECT: the estimate in the deliver closure is an upper bound.
FramesFit ==
  Incoming.ok /\ Incoming.Type = "PUBLISH" /\ peerMax > 0 =>
    Incoming.header + Incoming.RemainingLength <= peerMax
=============================================================================
