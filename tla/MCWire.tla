------------------------------- MODULE MCWire --------------------------------
EXTENDS Wire

CONSTANT MaxFilter  \* bound on the length of the filters tried one by one

A == <<97>>
B == <<98>>
AB == <<97, Slash, 98>>
Bytes(n) == [i \in 1 .. n |-> 7]

Conn(v, props) ==
  [Type |-> "CONNECT", Version |-> v, CleanSession |-> TRUE, KeepAlive |-> 300,
   WillQoS |-> 0, WillRetain |-> FALSE, ClientID |-> A, WillTopic |-> <<>>,
   WillPayload |-> <<>>, Username |-> <<>>, Password |-> <<>>, props |-> props]
WithWill(c) ==
  [c EXCEPT !.WillTopic = <<AB>>, !.WillPayload = << <<>> >>, !.WillQoS = 2,
            !.WillRetain = TRUE, !.Password = <<B>>]

UserProperty == <<38, <<0, 1, 97, 0, 1, 98>>>>

MCConnects ==
  {Conn(V311, <<>>), WithWill(Conn(V311, <<>>)),
   [Conn(V311, <<>>) EXCEPT !.WillQoS = 1],
   [WithWill(Conn(V311, <<>>)) EXCEPT !.WillQoS = 3],
   Conn(3, <<>>), Conn(V50, <<>>),
   WithWill(Conn(V50, << <<33, <<1, 2>>>>, <<17, <<255, 255, 255, 255>>>>,
                         <<34, <<0, 3>>>>, UserProperty>>)),
   Conn(V50, << <<39, <<0, 0, 0, 12>>>> >>),
   Conn(V50, << <<39, <<0, 0, 0, 130>>>> >>),
   Conn(V50, << <<33, <<0, 0>>>> >>),
   [Conn(V50, <<>>) EXCEPT !.ClientID = <<>>, !.CleanSession = FALSE,
                           !.Username = <<AB>>]}

Pub(topic, qos, id, payload, props) ==
  [Type |-> "PUBLISH", Dup |-> FALSE, QoS |-> qos, Retain |-> FALSE,
   Topic |-> topic, PacketID |-> id, Payload |-> payload, props |-> props]
AckPkt(t, props) == [Type |-> t, PacketID |-> 258, props |-> props]
Sub(subs) == [Type |-> "SUBSCRIBE", PacketID |-> 513, subs |-> subs,
              props |-> <<>>]
Unsub(fs) == [Type |-> "UNSUBSCRIBE", PacketID |-> 7, filters |-> fs,
              props |-> <<>>]
Filter(f, q) == [Filter |-> f, QoS |-> q]

Strings(alphabet, n) == UNION {[1 .. k -> alphabet] : k \in 1 .. n}
Filters ==
  Strings({97, Slash, Plus, Hash}, MaxFilter)
    \cup {SharePrefix \o s : s \in Strings({97, Slash, Plus}, MaxFilter + 1)}
    \cup {SharePrefix, <<>>, <<97, 0>>, SharePrefix \o <<97, Slash>> \o SharePrefix,
          SharePrefix \o <<97, Slash>> \o SharePrefix \o <<97, Slash, 97>>}

Common ==
  {Pub(A, 0, 0, <<>>, <<>>), Pub(AB, 1, 258, <<1>>, <<>>),
   [Pub(A, 2, 1, <<1, 2>>, <<>>) EXCEPT !.Dup = TRUE, !.Retain = TRUE],
   [Pub(A, 0, 0, <<>>, <<>>) EXCEPT !.Dup = TRUE],
   Pub(A, 3, 1, <<>>, <<>>), Pub(A, 1, 0, <<>>, <<>>),
   Pub(<<97, Plus>>, 0, 0, <<>>, <<>>), Pub(<<>>, 0, 0, <<>>, <<>>)}
  \cup {Pub(A, 0, 0, Bytes(n), <<>>) : n \in {124, 125, 400}}
  \cup {AckPkt(t, <<>>) : t \in {"PUBACK", "PUBREC", "PUBREL", "PUBCOMP"}}
  \cup {[Type |-> "PINGREQ"], Sub(<<>>), Unsub(<<>>), Unsub(<<A, <<Hash, Hash>>>>),
        Sub(<<Filter(AB, 2), Filter(<<Hash, 97>>, 1)>>)}

Bye(reason, props) ==
  [Type |-> "DISCONNECT", ReasonCode |-> reason, props |-> props]

OnlyV50 ==
  {Pub(<<>>, 0, 0, A, << <<35, <<0, 7>>>> >>),
   Pub(A, 1, 9, <<2>>, << <<2, <<0, 0, 1, 2>>>>, <<35, <<1, 7>>>>, UserProperty>>),
   AckPkt("PUBREC", <<UserProperty>>),
   [Sub(<<Filter(A, 0)>>) EXCEPT !.props = <<UserProperty>>],
   [Unsub(<<A>>) EXCEPT !.props = <<UserProperty>>],
   Bye(4, << <<17, <<0, 0, 0, 9>>>> >>), Bye(129, <<UserProperty>>)}

Followers == {Pub(AB, 1, 300, <<0>>, <<>>), [Type |-> "PINGREQ"],
              Sub(<<Filter(A, 2), Filter(<<Plus, 97>>, 0)>>)}

First(v) == Common \cup {Bye(0, <<>>)} \cup (IF v = V50 THEN OnlyV50 ELSE {})

MCScripts ==
  {<<c, f>> : c \in MCConnects, f \in Followers}
    \cup UNION {{<<Conn(v, <<>>), p, f>> : p \in First(v), f \in Followers} :
                 v \in {V311, V50}}
    \cup {<<Conn(v, <<>>), Sub(<<Filter(f, 1)>>)>> :
            v \in {V311, V50}, f \in Filters}

MCMessages ==
  {[Topic |-> AB, Payload |-> Bytes(n), QoS |-> q, Retain |-> q = 1] :
     n \in {1, 121, 122}, q \in {0, 1}}

MCOptions ==
  [ReceiveMaximum |-> 1000, MaximumQoS |-> 1, MaxPacketSize |-> <<0, 1, 0, 2>>,
   TopicAliasMax |-> 5, available |-> <<TRUE, FALSE, TRUE, FALSE>>]
=============================================================================
