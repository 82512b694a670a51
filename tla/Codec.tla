-------------------------------- MODULE Codec --------------------------------
(***************************************************************************)
(* The wire format (internal/protocol/packet.go) as operators on sequences *)
(* of bytes: what the broker decodes, what it encodes, and its checks of   *)
(* topic names and filters.                                                *)
(*                                                                         *)
(* A sliceReader is a record that also carries the value read last and     *)
(* whether every read so far succeeded; a failed read makes all later ones *)
(* fail, which is the early return of the code.  Four-byte integers stay   *)
(* sequences of four bytes.                                                *)
(***************************************************************************)
EXTENDS Integers, Sequences, FiniteSets, TLC, SequencesExt, FiniteSetsExt

V311 == 4
V50  == 5

\* PacketType: the index is the number on the wire.
packetNames ==
  <<"CONNECT", "CONNACK", "PUBLISH", "PUBACK", "PUBREC", "PUBREL", "PUBCOMP",
    "SUBSCRIBE", "SUBACK", "UNSUBSCRIBE", "UNSUBACK", "PINGREQ", "PINGRESP",
    "DISCONNECT", "AUTH">>

\* Characters the code looks at.
Slash == 47
Plus  == 43
Hash  == 35
SharePrefix == <<36, 115, 104, 97, 114, 101, 47>>          \* "$share/"
Mqtt        == <<77, 81, 84, 84>>                          \* "MQTT"
MqIsdp      == <<77, 81, 73, 115, 100, 112>>               \* "MQIsdp"
MaxTopicLen == 65535

Bit(b, k) == (b \div 2^k) % 2 = 1
Zeros(w)  == [i \in 1 .. w |-> 0]

-----------------------------------------------------------------------------
(* Reading. *)

newSliceReader(b) == [ok |-> TRUE, data |-> b, pos |-> 0, val |-> <<>>]
Remaining(r)      == Len(r.data) - r.pos
Fail(r)           == [r EXCEPT !.ok = FALSE]

\* io.ReadFull of n bytes.
Take(r, n) ==
  IF r.ok /\ (n = 0 \/ Remaining(r) >= n)
  THEN [r EXCEPT !.pos = @ + n, !.val = SubSeq(r.data, r.pos + 1, r.pos + n)]
  ELSE Fail(r)

Uint16(s)     == 256 * s[1] + s[2]
AsUint16(b)   == IF b.ok THEN [b EXCEPT !.val = Uint16(@)] ELSE b
readUint16(r) == AsUint16(Take(r, 2))
TakeLen(l)    == Take(l, l.val)
readString(r) == TakeLen(readUint16(r))

VarDigitsSwapped(r, k) ==
  MapThenSumSet(LAMBDA i : (r.data[r.pos + i] % 128) * 128^(k - i), 1 .. k)
\* The k low seven-bit digits at the reader, least significant first.
VarDigits(r, k) ==
  MapThenSumSet(LAMBDA i : (r.data[r.pos + i] % 128) * 128^(i - 1), 1 .. k)

\* Places among the next four bytes where the integer ends.
VarEnds(r) == {i \in 1 .. 4 : i <= Remaining(r) /\ r.data[r.pos + i] < 128}

readVarInt(r) ==
  IF r.ok /\ VarEnds(r) # {}
  THEN LET k == Min(VarEnds(r))
       IN  [r EXCEPT !.val = VarDigits(r, k), !.pos = @ + k]
  ELSE Fail(r)

\* skipProps has its own loop, which takes four bytes without an end as well.
SkipTo(r, p) ==
  IF p > Len(r.data) THEN Fail(r) ELSE [r EXCEPT !.pos = p]
skipProps(r) ==
  IF r.ok /\ (VarEnds(r) # {} \/ Remaining(r) >= 4)
  THEN LET k == Min(VarEnds(r) \cup {4}) IN SkipTo(r, r.pos + k + VarDigits(r, k))
  ELSE Fail(r)

\* readProps and readConnectProps: width gives the properties the function
\* knows.  The first unknown one ends the scan; the rest is skipped unread.
ScanTo(l, end, width) ==
  LET Add(rest, id, bytes) == [rest EXCEPT !.val = @ @@ (id :> bytes)]
      Scan[p \in l.pos .. Len(l.data)] ==
        IF p >= end THEN [l EXCEPT !.pos = p, !.val = <<>>]
        ELSE IF p >= Len(l.data) THEN Fail(l)
        ELSE LET id == l.data[p + 1]
                 q  == p + 1 + width[id]
             IN  IF id \notin DOMAIN width THEN [l EXCEPT !.pos = end, !.val = <<>>]
                 ELSE IF q > Len(l.data) THEN Fail(l)
                 ELSE Add(Scan[q], id, SubSeq(l.data, p + 2, q))
  IN  IF l.ok THEN Scan[l.pos] ELSE l
Scanned(l, width) == ScanTo(l, l.pos + l.val, width)
PropScan(r, width) == Scanned(readVarInt(r), width)

propWidths        == (2 :> 4) @@ (35 :> 2) @@ (17 :> 4)
connectPropWidths == (17 :> 4) @@ (33 :> 2) @@ (34 :> 2) @@ (39 :> 4)
readProps(r)        == PropScan(r, propWidths)
readConnectProps(r) == PropScan(r, connectPropWidths)

\* Property id of a scan, zero when absent.
Prop(props, id, width) ==
  IF id \in DOMAIN props THEN props[id] ELSE Zeros(width)

\* Only protocol level 5 has a property section.
NoProps(r) == [r EXCEPT !.val = <<>>]
SkipV50(version, r) == IF version = V50 THEN skipProps(r) ELSE r

\* The fixed header at the start of the stream s; not ok while bytes are
\* missing.  header is the number of bytes it takes.
ReadFixed(s) ==
  LET b == Take(newSliceReader(s), 1)
      n == readVarInt(b)
  IN  IF n.ok THEN [ok |-> TRUE, Type |-> packetNames[b.val[1] \div 16],
                    Flags |-> b.val[1] % 16, RemainingLength |-> n.val,
                    header |-> n.pos]
      ELSE [ok |-> FALSE]

-----------------------------------------------------------------------------
(* Topic names and filters. *)

ValidTopicName(t) ==
  /\ Len(t) \in 1 .. MaxTopicLen
  /\ \A i \in 1 .. Len(t) : t[i] \notin {Plus, Hash, 0}

splitFilter(f) ==
  LET cuts == SetToSortSeq({i \in 0 .. Len(f) + 1 :
                              i \in {0, Len(f) + 1} \/ f[i] = Slash}, <)
  IN  [k \in 1 .. Len(cuts) - 1 |-> SubSeq(f, cuts[k] + 1, cuts[k + 1] - 1)]

NotShared == [ok |-> FALSE]
ParseSharedTopicFilter(f) ==
  LET rest  == SubSeq(f, Len(SharePrefix) + 1, Len(f))
      slash == {i \in 1 .. Len(rest) : rest[i] = Slash}
      i     == Min(slash)
      share == SubSeq(rest, 1, i - 1)
      inner == SubSeq(rest, i + 1, Len(rest))
  IN  IF \/ Len(f) <= Len(SharePrefix) + 1 \/ ~IsPrefix(SharePrefix, f)
         \/ slash = {}
      THEN NotShared
      ELSE IF \/ share = <<>> \/ inner = <<>>
              \/ \E j \in 1 .. Len(share) : share[j] \in {Plus, Hash, 0}
              \/ IsPrefix(SharePrefix, inner)
      THEN NotShared
      ELSE [ok |-> TRUE, shareName |-> share, topicFilter |-> inner]

validTopicFilterSegmentsAnywhere(segs) ==
  \A i \in 1 .. Len(segs) :
    \/ segs[i] \in {<<Plus>>, <<Hash>>}
    \/ \A j \in 1 .. Len(segs[i]) : segs[i][j] \notin {Plus, Hash, 0}
validTopicFilterSegments(segs) ==
  \A i \in 1 .. Len(segs) :
    \/ segs[i] = <<Hash>> /\ i = Len(segs)
    \/ segs[i] = <<Plus>>
    \/ \A j \in 1 .. Len(segs[i]) : segs[i][j] \notin {Plus, Hash, 0}

ValidTopicFilter(f) ==
  /\ Len(f) \in 1 .. MaxTopicLen
  /\ IF IsPrefix(SharePrefix, f)
     THEN LET p == ParseSharedTopicFilter(f)
          IN  p.ok /\ validTopicFilterSegments(splitFilter(p.topicFilter))
     ELSE validTopicFilterSegments(splitFilter(f))

-----------------------------------------------------------------------------
(* Decoding.  A decoder returns [ok, ...]; err is the class of an error    *)
(* that the broker tells apart.                                            *)

Err(class) == [ok |-> FALSE, err |-> class]
ErrMalformed          == Err("malformed")
ErrProtocolViolation  == Err("violation")
ErrUnsupportedVersion == Err("version")

\* Protocol name and level.
ConnectName(body)  == readString(newSliceReader(body))
ConnectLevel(body) == Take(ConnectName(body), 1)
KnownName(body)    == ConnectName(body).ok
                      /\ ConnectName(body).val \in {Mqtt, MqIsdp}

\* A string behind a flag: a sequence of one string, or of none.
Optional(r, present) ==
  IF ~present THEN [r EXCEPT !.val = <<>>]
  ELSE LET One(s) == IF s.ok THEN [s EXCEPT !.val = <<@>>] ELSE s IN One(readString(r))

\* The connect flags byte f, without the checks.
ConnectFlags(f) ==
  [clean |-> Bit(f, 1), will |-> Bit(f, 2), willQoS |-> (f \div 8) % 4,
   willRetain |-> Bit(f, 5), password |-> Bit(f, 6), username |-> Bit(f, 7)]

\* The payload that follows the properties.
ConnectPayload(version, flags, r) ==
  LET id     == readString(r)
      wprops == IF flags.will THEN SkipV50(version, id) ELSE id
      topic  == Optional(wprops, flags.will)
      wpay   == Optional(topic, flags.will)
      user   == Optional(wpay, flags.username)
      pass   == Optional(user, flags.password)
  IN  [ok |-> pass.ok, ClientID |-> id.val, WillTopic |-> topic.val,
       WillPayload |-> wpay.val, Username |-> user.val, Password |-> pass.val]

\* Receive Maximum and Maximum Packet Size may not be 0.
ZeroGiven(props) ==
  \E id \in {33, 39} : id \in DOMAIN props /\ props[id] = Zeros(Len(props[id]))

ConnectPacket(v, flags, keepAlive, props, load) ==
  [ok |-> TRUE, Type |-> "CONNECT", Version |-> v,
   CleanSession |-> flags.clean, KeepAlive |-> keepAlive,
   WillQoS |-> flags.willQoS, WillRetain |-> flags.willRetain,
   SessionExpiryInterval |-> Prop(props, 17, 4), ReceiveMaximum |-> Prop(props, 33, 2),
   TopicAliasMaximum |-> Prop(props, 34, 2), MaximumPacketSize |-> Prop(props, 39, 4),
   ClientID |-> load.ClientID, WillTopic |-> load.WillTopic,
   WillPayload |-> load.WillPayload, Username |-> load.Username,
   Password |-> load.Password]

\* What follows the level v: flags, keep-alive, properties, payload.
DecodeConnectRest(v, fb) ==
  LET flags == ConnectFlags(fb.val[1])
      ka    == readUint16(fb)
      props == IF v = V50 THEN readConnectProps(ka) ELSE NoProps(ka)
      load  == ConnectPayload(v, flags, props)
  IN  IF ~fb.ok THEN ErrMalformed
      ELSE IF Bit(fb.val[1], 0) \/ (~flags.will /\ (flags.willQoS # 0
                                                    \/ flags.willRetain))
           THEN ErrProtocolViolation
      ELSE IF flags.willQoS > 2 \/ ~ka.ok \/ ~props.ok THEN ErrMalformed
      ELSE IF ZeroGiven(props.val) THEN ErrProtocolViolation
      ELSE IF ~load.ok THEN ErrMalformed
      ELSE ConnectPacket(v, flags, ka.val, props.val, load)

DecodeConnect(body) ==
  LET level == ConnectLevel(body)
      v     == level.val[1]
  IN  IF ~ConnectName(body).ok THEN ErrMalformed
      ELSE IF ~KnownName(body) THEN ErrUnsupportedVersion
      ELSE IF ~level.ok THEN ErrMalformed
      ELSE IF v \notin {V311, V50} THEN ErrUnsupportedVersion
      ELSE DecodeConnectRest(v, Take(level, 1))

\* 0 stands for "not ok".
PeekConnectProtocolLevel(body) ==
  IF KnownName(body) /\ ConnectLevel(body).ok THEN ConnectLevel(body).val[1]
  ELSE 0

DecodePublish(version, flags, body) ==
  LET qos   == (flags \div 2) % 4
      topic == readString(newSliceReader(body))
      id    == IF qos > 0 THEN readUint16(topic) ELSE [topic EXCEPT !.val = 0]
      props == IF version = V50 THEN readProps(id) ELSE NoProps(id)
      alias == Prop(props.val, 35, 2)
  IN  IF qos > 2 \/ (qos = 0 /\ Bit(flags, 3)) \/ ~topic.ok THEN ErrMalformed
      ELSE IF \/ (version # V50 \/ topic.val # <<>>) /\ ~ValidTopicName(topic.val)
              \/ ~id.ok \/ (qos > 0 /\ id.val = 0) \/ ~props.ok
              \/ version = V50 /\ topic.val = <<>> /\ alias = Zeros(2)
      THEN ErrMalformed
      ELSE [ok |-> TRUE, Type |-> "PUBLISH", Dup |-> Bit(flags, 3), QoS |-> qos,
            Retain |-> Bit(flags, 0), Topic |-> topic.val, PacketID |-> id.val,
            MessageExpiryInterval |-> Prop(props.val, 2, 4),
            TopicAlias |-> alias,
            Payload |-> SubSeq(body, props.pos + 1, Len(body))]

DecodePacketID(body) == Take(newSliceReader(body), 2)

\* The entries from r on: each a string followed by tail bytes (the options
\* byte of SUBSCRIBE, nothing in UNSUBSCRIBE).
Entries(r, tail) ==
  LET E[p \in 0 .. Len(r.data)] ==
        IF p = Len(r.data) THEN [r EXCEPT !.pos = p, !.val = <<>>]
        ELSE LET s == readString([r EXCEPT !.pos = p])
                 t == Take(s, tail)
                 rest == E[t.pos]
             IN  IF ~t.ok THEN t
                 ELSE [rest EXCEPT !.val = <<<<s.val, t.val>>>> \o @]
  IN  IF r.ok THEN E[r.pos] ELSE r

DecodeSubscribe(version, body) ==
  LET id   == readUint16(newSliceReader(body))
      subs == Entries(SkipV50(version, id), 1)
  IN  IF ~subs.ok THEN ErrMalformed
      ELSE IF subs.val = <<>> THEN ErrProtocolViolation
      ELSE [ok |-> TRUE, Type |-> "SUBSCRIBE", PacketID |-> id.val,
            subs |-> [i \in 1 .. Len(subs.val) |->
                        [Filter |-> subs.val[i][1], QoS |-> subs.val[i][2][1] % 4]]]

DecodeUnsubscribe(version, body) ==
  LET id == readUint16(newSliceReader(body))
      fs == Entries(SkipV50(version, id), 0)
  IN  IF ~fs.ok THEN ErrMalformed
      ELSE [ok |-> TRUE, Type |-> "UNSUBSCRIBE", PacketID |-> id.val,
            filters |-> [i \in 1 .. Len(fs.val) |-> fs.val[i][1]]]

DecodeDisconnect(version, body) ==
  LET rc    == Take(newSliceReader(body), 1)
      props == readProps(rc)
      D(reason, has, sec) == [ok |-> TRUE, Type |-> "DISCONNECT",
        ReasonCode |-> reason, HasSessionExpiryProp |-> has,
        SessionExpiryInterval |-> sec]
  IN  IF version # V50 /\ body # <<>> THEN ErrProtocolViolation
      ELSE IF body = <<>> THEN D(0, FALSE, Zeros(4))
      ELSE IF ~props.ok \/ Remaining(props) # 0 THEN ErrMalformed
      ELSE D(rc.val[1], 17 \in DOMAIN props.val, Prop(props.val, 17, 4))

-----------------------------------------------------------------------------
(* Encoding. *)

encodeVarInt(n) ==
  LET k == Min({i \in 1 .. 4 : n < 128^i})
  IN  [i \in 1 .. k |-> ((n \div 128^(i - 1)) % 128) + (IF i < k THEN 128 ELSE 0)]

appendUint16(v) == <<v \div 256, v % 256>>
appendString(s) ==
  LET t == IF Len(s) > MaxTopicLen THEN SubSeq(s, 1, MaxTopicLen) ELSE s
  IN  appendUint16(Len(t)) \o t

\* Type, flags and the remaining length as the encoder computed it.
Header(type, flags, remaining) ==
  <<16 * (CHOOSE t \in 1 .. 15 : packetNames[t] = type) + flags>>
    \o encodeVarInt(remaining)

\* Property length and properties.
PropSection(props) == encodeVarInt(Len(props)) \o props

EncodeConnack(sessionPresent, code) ==
  Header("CONNACK", 0, 2) \o <<IF sessionPresent THEN 1 ELSE 0, code>>

\* ConnackMQTT5Options as properties; flags are in the order of the code.
ConnackProps(o) ==
  LET flag == [i \in 1 .. 4 |-> <<<<37, 40, 41, 42>>[i],
                                  IF o.available[i] THEN 1 ELSE 0>>]
  IN  (IF o.ReceiveMaximum > 0 THEN <<33>> \o appendUint16(o.ReceiveMaximum)
       ELSE <<>>)
      \o (IF o.MaximumQoS < 2 THEN <<36, o.MaximumQoS>> ELSE <<>>)
      \o (IF o.MaxPacketSize # Zeros(4) THEN <<39>> \o o.MaxPacketSize
          ELSE <<>>)
      \o (IF o.TopicAliasMax > 0 THEN <<34>> \o appendUint16(o.TopicAliasMax)
          ELSE <<>>)
      \o FlattenSeq(flag)

EncodeConnackV5(sessionPresent, reasonCode, opts) ==
  LET props == IF reasonCode = 0 THEN ConnackProps(opts) ELSE <<>>
      flags == IF reasonCode = 0 /\ sessionPresent THEN 1 ELSE 0
  IN  Header("CONNACK", 0, 2 + Len(PropSection(props)))
        \o <<flags, reasonCode>> \o PropSection(props)

PublishFlags(qos, retain, dup) ==
  (IF dup THEN 8 ELSE 0) + 2 * (qos % 4) + (IF retain THEN 1 ELSE 0)
PacketIDBytes(qos, id) == IF qos > 0 THEN appendUint16(id) ELSE <<>>

EncodePublish(topic, payload, qos, retain, id, dup) ==
  Header("PUBLISH", PublishFlags(qos, retain, dup),
         2 + Len(topic) + (IF qos > 0 THEN 2 ELSE 0) + Len(payload))
    \o appendString(topic) \o PacketIDBytes(qos, id) \o payload

EncodePublishV5(topic, payload, qos, retain, id, dup, props) ==
  Header("PUBLISH", PublishFlags(qos, retain, dup),
         2 + Len(topic) + (IF qos > 0 THEN 2 ELSE 0)
           + Len(PropSection(props)) + Len(payload))
    \o appendString(topic) \o PacketIDBytes(qos, id) \o PropSection(props)
    \o payload

AckFlags(t) == IF t = "PUBREL" THEN 2 ELSE 0
EncodeAck(t, id) == Header(t, AckFlags(t), 2) \o appendUint16(id)
EncodeAckV5(t, id, reasonCode, props) ==
  Header(t, AckFlags(t), 3 + Len(PropSection(props)))
    \o appendUint16(id) \o <<reasonCode>> \o PropSection(props)

EncodeSuback(id, codes) ==
  Header("SUBACK", 0, 2 + Len(codes)) \o appendUint16(id) \o codes
EncodeUnsuback(id) == Header("UNSUBACK", 0, 2) \o appendUint16(id)

\* EncodeSubackV5 and EncodeUnsubackV5 differ in the type only.
EncodeSubackV5(type, id, props, codes) ==
  Header(type, 0, 2 + Len(PropSection(props)) + Len(codes))
    \o appendUint16(id) \o PropSection(props) \o codes

Pingresp == Header("PINGRESP", 0, 0)
EncodeDisconnectV311 == Header("DISCONNECT", 0, 0)
EncodeDisconnectV5(reasonCode, props) ==
  Header("DISCONNECT", 0, 1 + Len(PropSection(props)))
    \o <<reasonCode>> \o PropSection(props)

ApproxTight(version, topic, payloadLen, qos) ==
  1 + 2 + Len(topic) + (IF qos > 0 THEN 2 ELSE 0)
    + (IF version = V50 THEN 1 ELSE 0) + payloadLen
ApproxClientOutboundPublishBytes(version, topic, payloadLen, qos) ==
  1 + 4 + 2 + Len(topic) + (IF qos > 0 THEN 2 ELSE 0)
    + (IF version = V50 THEN 1 ELSE 0) + payloadLen

-----------------------------------------------------------------------------
(* Reason codes. *)

SubackReasonByte(version, grantedQoS, deny) ==
  IF deny = "ok" THEN Min({grantedQoS % 4, 2})
  ELSE IF version # V50 THEN 128
  ELSE CASE deny = "filter" -> 143 [] deny = "acl" -> 135 [] deny = "plugin" -> 131

UnsubackReasonByte(deny) ==
  CASE deny = "filter" -> 143 [] deny = "acl" -> 135 [] OTHER -> 0

ConnackReasonV5ForDecodeError(err) ==
  CASE err = "version" -> 132 [] err = "violation" -> 130 [] OTHER -> 129
=============================================================================
