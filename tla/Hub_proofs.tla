----------------------------- MODULE Hub_proofs -----------------------------
(***************************************************************************)
(* The WebSocket stream is exact, for any number of clients, any queue and *)
(* channel capacities and any number of messages: what a client is sent is *)
(* ordered, begins with the welcome and lacks nothing unless a queue was   *)
(* full; and what the hub counts is its clients less those it discounted   *)
(* twice.                                                                  *)
(***************************************************************************)
EXTENDS Hub, FiniteSetTheorems, SequenceTheorems, TLAPS

Frames == [event : {"connected", "mqtt_message", "answer"}, n : Nat]

TypeInv ==
  /\ ch \in Seq(Nat) /\ casting \in [msg : Nat, todo : SUBSET Clients]
  /\ clients \subseteq Clients /\ count \in Int
  /\ pc \in [Clients -> [handler : {"none", "welcome", "read", "done"},
                         pump : {"none", "write", "close", "done"}]]
  /\ send \in [Clients -> Seq(Frames)] /\ wire \in [Clients -> Seq(Frames)]
  /\ conn \in [Clients -> {"none", "open", "broken", "closed"}]
  /\ pubs \in Nat /\ cmds \in Nat /\ since \in [Clients -> Nat]

\* A client is in the hub until its handler or its pump has removed it.  The pump starts
\* after the welcome, and writes on an open connection, which has got the welcome.
Phase(c) ==
  /\ c \in clients <=> pc[c].handler \in {"welcome", "read"} /\ pc[c].pump \in {"none", "write"}
  /\ pc[c].pump = "none" <=> pc[c].handler \in {"none", "welcome"}
  /\ pc[c].pump = "none" => wire[c] = <<>>
  /\ pc[c].pump = "write" /\ conn[c] = "open" => wire[c] # <<>>

\* The messages in the channel come after the one that is broadcast.
ChannelInv ==
  /\ casting.msg <= pubs
  /\ \A i \in DOMAIN ch : casting.msg < ch[i] /\ ch[i] <= pubs
  /\ \A i, j \in DOMAIN ch : i < j => ch[i] < ch[j]

\* A frame was numbered before the next of its kind.
Past(c, f) ==
  /\ f.event = "answer" => f.n <= cmds
  /\ f.event = "mqtt_message" => f.n <= casting.msg /\ (c \in casting.todo => f.n < casting.msg)

Stream(c) ==
  /\ Len(send[c]) <= SendCap
  /\ \A i \in DOMAIN send[c] : send[c][i].event # "connected"
  /\ wire[c] # <<>> => wire[c][1].event = "connected"
  /\ Ordered(Sent(c))
  /\ \A i \in DOMAIN Sent(c) : Past(c, Sent(c)[i])

\* Client c has n, or it is on its way.
Reaches(c, n) ==
  \/ Has(Sent(c), Frame("mqtt_message", n)) \/ Has(ch, n)
  \/ c \in casting.todo /\ casting.msg = n

Complete(c) == c \in clients \ full => \A n \in ((since[c] + 1) .. pubs) \ lost : Reaches(c, n)

\* The clients that were discounted twice.
Ended == {c \in Clients : pc[c].handler = "done" /\ pc[c].pump \in {"close", "done"}}

CountInv == IsFiniteSet(clients) /\ IsFiniteSet(Ended) /\ count = Cardinality(clients) - Cardinality(Ended)

Inv == /\ TypeInv /\ ChannelInv /\ CountInv
       /\ \A c \in Clients : Phase(c) /\ Stream(c) /\ Complete(c)

----------------------------------------------------------------------------
(* Queues. *)

\* A frame that the pump takes from the queue to the connection keeps its place.
LEMMA Pumped ==
  ASSUME NEW w \in Seq(Frames), NEW s \in Seq(Frames), s # <<>>
  PROVE  Append(w, Head(s)) \o Tail(s) = w \o s
<1>1. Head(s) \in Frames /\ Tail(s) \in Seq(Frames) /\ Len(s) \in Nat \ {0}
  BY HeadTailProperties, EmptySeq
<1>2. Append(w, Head(s)) = w \o <<Head(s)>> /\ <<Head(s)>> \in Seq(Frames)
  BY <1>1, AppendIsConcat
<1>3. s = <<Head(s)>> \o Tail(s)
  <2>1. s = SubSeq(s, 1, Len(s)) /\ Tail(s) = SubSeq(s, 2, Len(s))
    BY Zenon, SubSeqFull, TailIsSubSeq
  <2>2. SubSeq(s, 1, Len(s)) = <<s[1]>> \o SubSeq(s, 1 + 1, Len(s))
    <3>1. 1 \in 1 .. Len(s) /\ Len(s) \in 1 .. Len(s)
      BY <1>1
    <3> QED
      BY Zenon, <3>1, SubSeqRecursiveFirst
  <2>3. Head(s) = s[1] /\ 1 + 1 = 2
    BY <1>1
  <2> QED
    BY Zenon, <2>1, <2>2, <2>3
<1>4. (w \o <<Head(s)>>) \o Tail(s) = w \o (<<Head(s)>> \o Tail(s))
  BY <1>1, <1>2, ConcatAssociative
<1> QED
  BY Zenon, <1>2, <1>3, <1>4

\* A frame that is queued is the last a client is sent.
LEMMA Queued ==
  ASSUME NEW w \in Seq(Frames), NEW s \in Seq(Frames), NEW f \in Frames
  PROVE  w \o Append(s, f) = Append(w \o s, f)
<1>1. <<f>> \in Seq(Frames) /\ w \o s \in Seq(Frames)
  BY ConcatProperties
<1>2. Append(s, f) = s \o <<f>> /\ Append(w \o s, f) = (w \o s) \o <<f>>
  BY Zenon, <1>1, AppendIsConcat
<1> QED
  BY <1>1, <1>2, ConcatAssociative

\* What joining a queue does to membership and order.
LEMMA Joins ==
  ASSUME NEW s \in Seq(Frames), NEW f \in Frames
  PROVE  /\ Append(s, f) \in Seq(Frames)
         /\ \A x : Has(Append(s, f), x) <=> Has(s, x) \/ x = f
         /\ \A i \in DOMAIN Append(s, f) : Append(s, f)[i] = f \/ (i \in DOMAIN s /\ Append(s, f)[i] = s[i])
         /\ Ordered(s) /\ (\A i \in DOMAIN s : s[i].event = f.event => s[i].n < f.n) => Ordered(Append(s, f))
<1> DEFINE t == Append(s, f)
<1>1. /\ t \in Seq(Frames) /\ Len(s) \in Nat /\ DOMAIN s = 1 .. Len(s) /\ DOMAIN t = 1 .. Len(s) + 1
      /\ \A i \in 1 .. Len(s) : t[i] = s[i] /\ i \in 1 .. Len(s) + 1
      /\ t[Len(s) + 1] = f /\ Len(s) + 1 \in 1 .. Len(s) + 1
  BY AppendProperties, LenProperties
<1>2. \A i \in 1 .. Len(s) + 1 : i \in 1 .. Len(s) \/ i = Len(s) + 1
  BY <1>1
<1> HIDE DEF t
<1>3. \A x : Has(t, x) <=> Has(s, x) \/ x = f
  BY Zenon, <1>1, <1>2 DEF Has
<1>4. \A i \in DOMAIN t : t[i] = f \/ (i \in DOMAIN s /\ t[i] = s[i])
  BY Zenon, <1>1, <1>2
<1>5. ASSUME Ordered(s), \A i \in DOMAIN s : s[i].event = f.event => s[i].n < f.n,
             NEW i \in DOMAIN t, NEW j \in DOMAIN t, i < j, t[i].event = t[j].event
      PROVE  t[i].n < t[j].n
  <2>1. i \in 1 .. Len(s)
    BY <1>1, <1>5
  <2>2. CASE j \in 1 .. Len(s)
    BY Zenon, <1>1, <1>5, <2>1, <2>2 DEF Ordered
  <2>3. CASE j = Len(s) + 1
    BY Zenon, <1>1, <1>5, <2>1, <2>3
  <2> QED
    BY Zenon, <1>1, <1>2, <2>2, <2>3
<1> QED
  BY Zenon, <1>1, <1>3, <1>4, <1>5 DEF t, Ordered

\* The queue alone is ordered when all that was sent is, and what is sent includes it.
LEMMA Suffix ==
  ASSUME NEW w \in Seq(Frames), NEW s \in Seq(Frames), Ordered(w \o s)
  PROVE  /\ Ordered(s) /\ <<>> \o s = s
         /\ \A i \in DOMAIN s : Has(w \o s, s[i])
<1>1. /\ Len(w) \in Nat /\ Len(s) \in Nat /\ DOMAIN s = 1 .. Len(s)
      /\ DOMAIN (w \o s) = 1 .. Len(w) + Len(s)
  BY ConcatProperties, LenProperties
<1>2. \A i \in 1 .. Len(s) : (w \o s)[Len(w) + i] = s[i] /\ Len(w) + i \in DOMAIN (w \o s)
  BY <1>1, ConcatProperties
<1>3. \A i, j \in 1 .. Len(s) : i < j => Len(w) + i < Len(w) + j
  BY <1>1
<1>4. Ordered(s)
  BY Zenon, <1>1, <1>2, <1>3 DEF Ordered
<1> QED
  BY Zenon, <1>1, <1>2, <1>4, ConcatEmptySeq DEF Has

\* The welcome comes before what is queued.
LEMMA Prefixed ==
  ASSUME NEW s \in Seq(Frames), NEW f \in Frames, Ordered(s),
         \A i \in DOMAIN s : s[i].event # f.event
  PROVE  /\ Ordered(Append(<<>>, f) \o s) /\ Append(<<>>, f)[1] = f /\ Append(<<>>, f) # <<>>
         /\ \A i \in DOMAIN (Append(<<>>, f) \o s) :
              (Append(<<>>, f) \o s)[i] = f \/ Has(s, (Append(<<>>, f) \o s)[i])
         /\ \A x : Has(s, x) => Has(Append(<<>>, f) \o s, x)
<1> DEFINE w == Append(<<>>, f)
           t == w \o s
<1>0. w \in Seq(Frames) /\ Len(w) = 1 /\ w[1] = f /\ w # <<>>
  BY EmptySeq, AppendProperties
<1>1. /\ Len(s) \in Nat /\ DOMAIN s = 1 .. Len(s) /\ DOMAIN t = 1 .. 1 + Len(s)
  BY <1>0, ConcatProperties, LenProperties
<1>2. t[1] = f /\ \A i \in 1 .. Len(s) : t[1 + i] = s[i] /\ 1 + i \in DOMAIN t
  <2> HIDE DEF w
  <2> QED
    BY <1>0, <1>1, ConcatProperties
<1>3. \A i \in DOMAIN t : i = 1 \/ (i - 1 \in 1 .. Len(s) /\ i = 1 + (i - 1))
  BY <1>1
<1> HIDE DEF w, t
<1>4. \A i \in DOMAIN t : i # 1 => i - 1 \in DOMAIN s /\ t[i] = s[i - 1]
  BY Zenon, <1>1, <1>2, <1>3
<1>5. ASSUME NEW i \in DOMAIN t, NEW j \in DOMAIN t, i < j, t[i].event = t[j].event
      PROVE  t[i].n < t[j].n
  <2>1. j # 1
    BY <1>1, <1>5
  <2>2. i # 1
    BY Zenon, <1>2, <1>4, <1>5, <2>1
  <2>3. i - 1 < j - 1
    BY <1>1, <1>5
  <2> QED
    BY Zenon, <1>4, <1>5, <2>1, <2>2, <2>3 DEF Ordered
<1>6. \A x : Has(s, x) => Has(t, x)
  BY Zenon, <1>1, <1>2 DEF Has
<1> QED
  BY Zenon, <1>0, <1>2, <1>4, <1>5, <1>6 DEF t, w, Ordered, Has

----------------------------------------------------------------------------
(* Steps. *)

\* The steps that a client's goroutines, the stream and the peers take.
LEMMA Steps ==
  ASSUME [Next]_vars
  PROVE  \/ \E c \in Clients :
              \/ handleWebSocket(c) \/ welcome(c) \/ handleWSCommand(c) \/ readFails(c)
              \/ pumpWrite(c) \/ pumpFails(c) \/ pumpClose(c) \/ Broadcast(c)
              \/ \E how \in {"quiet", "gone"} : peerLeaves(c, how)
         \/ SubscribeWS \/ ingestRedisMessages \/ UNCHANGED vars
BY Zenon DEF Next

\* A frame finds room in the queue or a full queue, which full records.
LEMMA Tries ==
  ASSUME TypeInv, NEW c \in Clients, NEW f \in Frames, TrySend(c, f)
  PROVE  /\ \A d \in Clients \ {c} : send'[d] = send[d]
         /\ \/ send'[c] = Append(send[c], f) /\ Len(send[c]) < SendCap
            \/ send'[c] = send[c] /\ ~(Len(send[c]) < SendCap)
         /\ send' \in [Clients -> Seq(Frames)]
         /\ full \subseteq full' /\ (c \in clients /\ Len(send'[c]) = SendCap => c \in full')
<1>1. send \in [Clients -> Seq(Frames)] /\ send[c] \in Seq(Frames)
  BY Zenon DEF TypeInv
<1>2. Append(send[c], f) \in Seq(Frames)
  BY Zenon, <1>1, Joins
<1>3. CASE Len(send[c]) < SendCap
  <2>1. send' = [send EXCEPT ![c] = Append(@, f)]
    BY Zenon, <1>3 DEF TrySend
  <2>2. send'[c] = Append(send[c], f) /\ \A d \in Clients \ {c} : send'[d] = send[d]
    BY Zenon, <1>1, <2>1
  <2>3. send' \in [Clients -> Seq(Frames)]
    BY Zenon, <1>1, <1>2, <2>1
  <2> QED
    BY Zenon, <1>3, <2>2, <2>3 DEF TrySend
<1>4. CASE ~(Len(send[c]) < SendCap)
  BY Zenon, <1>1, <1>4 DEF TrySend
<1> QED
  BY Zenon, <1>3, <1>4

\* Every step keeps the types.
LEMMA TypeStep ==
  ASSUME TypeInv, [Next]_vars
  PROVE  TypeInv'
<1>0. /\ ch \in Seq(Nat) /\ casting \in [msg : Nat, todo : SUBSET Clients]
      /\ clients \subseteq Clients /\ count \in Int
      /\ pc \in [Clients -> [handler : {"none", "welcome", "read", "done"},
                             pump : {"none", "write", "close", "done"}]]
      /\ send \in [Clients -> Seq(Frames)] /\ wire \in [Clients -> Seq(Frames)]
      /\ conn \in [Clients -> {"none", "open", "broken", "closed"}]
      /\ pubs \in Nat /\ cmds \in Nat /\ since \in [Clients -> Nat]
  BY Zenon DEF TypeInv
<1>p. ASSUME NEW c \in Clients, NEW l \in {"none", "welcome", "read", "done"}
      PROVE  [pc EXCEPT ![c].handler = l] \in [Clients -> [handler : {"none", "welcome", "read", "done"},
                                                          pump : {"none", "write", "close", "done"}]]
  BY Zenon, <1>0
<1>q. ASSUME NEW c \in Clients, NEW l \in {"none", "write", "close", "done"}
      PROVE  [pc EXCEPT ![c].pump = l] \in [Clients -> [handler : {"none", "welcome", "read", "done"},
                                                       pump : {"none", "write", "close", "done"}]]
  BY Zenon, <1>0
<1>r. ASSUME NEW c \in Clients, NEW l \in {"none", "open", "broken", "closed"}
      PROVE  [conn EXCEPT ![c] = l] \in [Clients -> {"none", "open", "broken", "closed"}]
  BY Zenon, <1>0
<1>1. ASSUME NEW c \in Clients,
             handleWebSocket(c) \/ readFails(c) \/ pumpFails(c) PROVE TypeInv'
  <2>1. UNCHANGED <<ch, casting, send, wire, pubs, cmds>>
    BY Zenon, <1>1 DEF handleWebSocket, readFails, pumpFails, streamVars, connVars
  <2>2. add(c) \/ remove(c)
    BY Zenon, <1>1 DEF handleWebSocket, readFails, pumpFails
  <2>3. clients' \subseteq Clients /\ count' \in Int
    BY <1>0, <2>2 DEF add, remove
  <2>4. since' \in [Clients -> Nat]
    <3>1. 0 \in Nat
      OBVIOUS
    <3>2. since' = [since EXCEPT ![c] = pubs] \/ since' = [since EXCEPT ![c] = 0]
      BY Zenon, <2>2 DEF add, remove
    <3> QED
      BY Zenon, <1>0, <3>1, <3>2
  <2>5. conn' \in [Clients -> {"none", "open", "broken", "closed"}]
    BY Zenon, <1>0, <1>1, <1>r DEF handleWebSocket, readFails, pumpFails, connVars
  <2>6. pc' \in [Clients -> [handler : {"none", "welcome", "read", "done"},
                             pump : {"none", "write", "close", "done"}]]
    <3>1. CASE handleWebSocket(c)
      BY Zenon, <1>p, <3>1 DEF handleWebSocket
    <3>2. CASE readFails(c)
      BY Zenon, <1>p, <3>2 DEF readFails
    <3>3. CASE pumpFails(c)
      BY Zenon, <1>q, <3>3 DEF pumpFails
    <3> QED
      BY Zenon, <1>1, <3>1, <3>2, <3>3
  <2> QED
    BY Zenon, <1>0, <2>1, <2>3, <2>4, <2>5, <2>6 DEF TypeInv
<1>2. ASSUME NEW c \in Clients, welcome(c) PROVE TypeInv'
  <2>1. UNCHANGED <<ch, casting, clients, count, since, send, pubs, cmds>>
    BY Zenon, <1>2 DEF welcome, hubVars, streamVars
  <2>2. pc' \in [Clients -> [handler : {"none", "welcome", "read", "done"},
                             pump : {"none", "write", "close", "done"}]]
    BY <1>0, <1>2 DEF welcome
  <2>3. conn' \in [Clients -> {"none", "open", "broken", "closed"}]
    BY Zenon, <1>0, <1>2 DEF welcome
  <2>4. wire' \in [Clients -> Seq(Frames)]
    <3>1. PICK f \in Frames : f = Frame("connected", 0)
      BY Zenon DEF Frame, Frames
    <3>2. Append(wire[c], f) \in Seq(Frames)
      BY Zenon, <1>0, Joins
    <3>3. wire' = wire \/ wire' = [wire EXCEPT ![c] = Append(@, f)]
      BY Zenon, <1>2, <3>1 DEF welcome
    <3> QED
      BY Zenon, <1>0, <3>2, <3>3
  <2> QED
    BY Zenon, <1>0, <2>1, <2>2, <2>3, <2>4 DEF TypeInv
<1>3. ASSUME NEW c \in Clients, handleWSCommand(c) PROVE TypeInv'
  <2>1. UNCHANGED <<ch, casting, clients, count, since, wire, conn, pc, pubs>> /\ cmds' = cmds + 1
    BY Zenon, <1>3 DEF handleWSCommand, streamVars, connVars
  <2>4. cmds' \in Nat
    BY <1>0, <2>1
  <2>2. PICK f \in Frames : f = Frame("answer", cmds')
    BY Zenon, <2>4 DEF Frame, Frames
  <2>3. send' \in [Clients -> Seq(Frames)]
    BY Zenon, <1>3, <2>2, Tries DEF handleWSCommand
  <2> QED
    BY Zenon, <1>0, <2>1, <2>3, <2>4 DEF TypeInv
<1>4. ASSUME NEW c \in Clients, pumpWrite(c) \/ pumpClose(c) PROVE TypeInv'
  <2>1. UNCHANGED <<ch, casting, clients, count, since, pubs, cmds>>
    BY Zenon, <1>4 DEF pumpWrite, pumpClose, hubVars, streamVars
  <2>2. /\ pc' \in [Clients -> [handler : {"none", "welcome", "read", "done"},
                                pump : {"none", "write", "close", "done"}]]
        /\ conn' \in [Clients -> {"none", "open", "broken", "closed"}]
    <3>1. CASE pumpWrite(c)
      BY Zenon, <1>0, <3>1 DEF pumpWrite
    <3>2. CASE pumpClose(c)
      BY Zenon, <1>q, <1>r, <3>2 DEF pumpClose
    <3> QED
      BY Zenon, <1>4, <3>1, <3>2
  <2>3. send' \in [Clients -> Seq(Frames)] /\ wire' \in [Clients -> Seq(Frames)]
    <3>1. CASE pumpClose(c)
      BY <1>0, <3>1 DEF pumpClose
    <3>2. CASE pumpWrite(c)
      <4>1. send[c] \in Seq(Frames) /\ wire[c] \in Seq(Frames) /\ send[c] # <<>>
        BY Zenon, <1>0, <3>2 DEF pumpWrite
      <4>2. Head(send[c]) \in Frames /\ Tail(send[c]) \in Seq(Frames)
        BY Zenon, <4>1, HeadTailProperties
      <4>3. Append(wire[c], Head(send[c])) \in Seq(Frames)
        BY Zenon, <4>1, <4>2, Joins
      <4> QED
        BY Zenon, <1>0, <3>2, <4>2, <4>3 DEF pumpWrite
    <3> QED
      BY Zenon, <1>4, <3>1, <3>2
  <2> QED
    BY Zenon, <1>0, <2>1, <2>2, <2>3 DEF TypeInv
<1>5. ASSUME NEW c \in Clients, Broadcast(c) PROVE TypeInv'
  <2>1. UNCHANGED <<ch, clients, count, since, wire, conn, pc, pubs, cmds>>
    BY Zenon, <1>5 DEF Broadcast, connVars
  <2>2. casting' \in [msg : Nat, todo : SUBSET Clients]
    BY Zenon, <1>0, <1>5 DEF Broadcast
  <2>3. PICK f \in Frames : f = Frame("mqtt_message", casting.msg)
    BY Zenon, <1>0 DEF Frame, Frames
  <2>4. send' \in [Clients -> Seq(Frames)]
    BY Zenon, <1>5, <2>3, Tries DEF Broadcast
  <2> QED
    BY Zenon, <1>0, <2>1, <2>2, <2>4 DEF TypeInv
<1>6. ASSUME NEW c \in Clients, NEW how \in {"quiet", "gone"}, peerLeaves(c, how) PROVE TypeInv'
  BY Zenon, <1>0, <1>6 DEF peerLeaves, hubVars, streamVars, TypeInv
<1>7. CASE SubscribeWS
  <2>1. UNCHANGED <<casting, clients, count, since, send, wire, conn, pc, cmds>> /\ pubs' = pubs + 1
    BY Zenon, <1>7 DEF SubscribeWS, hubVars, connVars
  <2>2. pubs' \in Nat
    BY <1>0, <2>1
  <2>3. ch' \in Seq(Nat)
    <3>1. Append(ch, pubs') \in Seq(Nat)
      BY <1>0, <2>2
    <3> QED
      BY Zenon, <1>0, <1>7, <3>1 DEF SubscribeWS
  <2> QED
    BY Zenon, <1>0, <2>1, <2>2, <2>3 DEF TypeInv
<1>8. CASE ingestRedisMessages
  <2>1. UNCHANGED <<clients, count, since, send, wire, conn, pc, pubs, cmds>>
    BY Zenon, <1>8 DEF ingestRedisMessages, hubVars, connVars
  <2>2. ch # <<>> /\ casting' = [msg |-> Head(ch), todo |-> clients] /\ ch' = Tail(ch)
    BY Zenon, <1>8 DEF ingestRedisMessages
  <2>3. Head(ch) \in Nat /\ ch' \in Seq(Nat)
    BY Zenon, <1>0, <2>2, HeadTailProperties
  <2>4. casting' \in [msg : Nat, todo : SUBSET Clients]
    BY <1>0, <2>2, <2>3
  <2> QED
    BY Zenon, <1>0, <2>1, <2>3, <2>4 DEF TypeInv
<1>9. CASE UNCHANGED vars
  BY Zenon, <1>0, <1>9 DEF vars, hubVars, streamVars, connVars, TypeInv
<1> QED
  BY Zenon, <1>1, <1>2, <1>3, <1>4, <1>5, <1>6, <1>7, <1>8, <1>9, Steps

\* Every step keeps what the goroutines of a client say of its place in the hub.
LEMMA PhaseStep ==
  ASSUME TypeInv, [Next]_vars, NEW d \in Clients, Phase(d)
  PROVE  Phase(d)'
<1>0. /\ pc \in [Clients -> [handler : {"none", "welcome", "read", "done"},
                             pump : {"none", "write", "close", "done"}]]
      /\ send \in [Clients -> Seq(Frames)] /\ wire \in [Clients -> Seq(Frames)]
      /\ conn \in [Clients -> {"none", "open", "broken", "closed"}]
  BY Zenon DEF TypeInv
<1>s. ASSUME pc'[d] = pc[d], wire'[d] = wire[d], conn'[d] = conn[d], d \in clients' <=> d \in clients
      PROVE  Phase(d)'
  BY Zenon, <1>s DEF Phase
<1>1. ASSUME NEW c \in Clients, c # d,
             \/ handleWebSocket(c) \/ welcome(c) \/ readFails(c)
             \/ pumpWrite(c) \/ pumpFails(c) \/ pumpClose(c)
      PROVE Phase(d)'
  <2>1. pc'[d] = pc[d] /\ wire'[d] = wire[d] /\ conn'[d] = conn[d]
    BY Zenon, <1>0, <1>1 DEF handleWebSocket, welcome, readFails, pumpWrite, pumpFails, pumpClose, connVars
  <2>2. d \in clients' <=> d \in clients
    BY Zenon, <1>1 DEF handleWebSocket, welcome, readFails, pumpWrite, pumpFails, pumpClose, add, remove, hubVars
  <2> QED
    BY Zenon, <1>s, <2>1, <2>2
<1>2. CASE handleWebSocket(d)
  <2>1. /\ pc[d].handler = "none" /\ pc'[d] = [pc[d] EXCEPT !.handler = "welcome"] /\ wire' = wire
        /\ d \in clients'
    BY <1>0, <1>2 DEF handleWebSocket, add
  <2> QED
    BY <1>0, <2>1 DEF Phase
<1>3. CASE welcome(d)
  <2>1. /\ pc[d].handler = "welcome" /\ pc'[d] = [handler |-> "read", pump |-> "write"]
        /\ clients' = clients
    BY <1>0, <1>3 DEF welcome, hubVars
  <2>2. conn'[d] = "open" => wire'[d] # <<>>
    <3>1. CASE wire' = [wire EXCEPT ![d] = Append(@, Frame("connected", 0))]
      <4>1. PICK f \in Frames : f = Frame("connected", 0)
        BY Zenon DEF Frame, Frames
      <4>2. wire'[d] = Append(wire[d], f)
        BY Zenon, <1>0, <3>1, <4>1
      <4> QED
        BY <1>0, <4>2, AppendProperties
    <3>2. CASE conn' = [conn EXCEPT ![d] = "broken"]
      BY <1>0, <3>2
    <3> QED
      BY Zenon, <1>3, <3>1, <3>2 DEF welcome
  <2> QED
    BY <1>0, <2>1, <2>2 DEF Phase
<1>4. CASE readFails(d)
  <2>1. /\ pc[d].handler = "read" /\ pc'[d] = [pc[d] EXCEPT !.handler = "done"] /\ wire' = wire /\ conn' = conn
        /\ d \notin clients'
    BY <1>0, <1>4 DEF readFails, remove, connVars
  <2> QED
    BY <1>0, <2>1 DEF Phase
<1>5. CASE pumpWrite(d)
  <2>1. pc' = pc /\ conn' = conn /\ clients' = clients /\ pc[d].pump = "write"
    BY Zenon, <1>5 DEF pumpWrite, hubVars
  <2>2. wire'[d] # <<>>
    <3>1. send[d] \in Seq(Frames) /\ send[d] # <<>> /\ wire'[d] = Append(wire[d], Head(send[d]))
      BY Zenon, <1>0, <1>5 DEF pumpWrite
    <3>2. Head(send[d]) \in Frames
      BY Zenon, <3>1, HeadTailProperties
    <3> QED
      BY <1>0, <3>1, <3>2, AppendProperties
  <2> QED
    BY <2>1, <2>2 DEF Phase
<1>6. CASE pumpFails(d)
  <2>1. /\ pc[d].pump = "write" /\ pc'[d] = [pc[d] EXCEPT !.pump = "close"] /\ wire' = wire
        /\ d \notin clients'
    BY <1>0, <1>6 DEF pumpFails, remove
  <2> QED
    BY <1>0, <2>1 DEF Phase
<1>7. CASE pumpClose(d)
  <2>1. /\ pc[d].pump = "close" /\ pc'[d] = [pc[d] EXCEPT !.pump = "done"] /\ clients' = clients
    BY <1>0, <1>7 DEF pumpClose, hubVars
  <2> QED
    BY <1>0, <2>1 DEF Phase
<1>8. CASE \/ \E c \in Clients : handleWSCommand(c) \/ Broadcast(c) \/ \E how \in {"quiet", "gone"} : peerLeaves(c, how)
           \/ SubscribeWS \/ ingestRedisMessages \/ UNCHANGED vars
  <2>1. pc' = pc /\ wire' = wire /\ conn' = conn /\ clients' = clients
    BY Zenon, <1>8 DEF handleWSCommand, Broadcast, peerLeaves, SubscribeWS, ingestRedisMessages, vars,
      connVars, hubVars
  <2> QED
    BY Zenon, <1>s, <2>1
<1> QED
  BY Zenon, <1>1, <1>2, <1>3, <1>4, <1>5, <1>6, <1>7, <1>8, Steps

\* Every step keeps the order of the channel.
LEMMA ChannelStep ==
  ASSUME TypeInv, ChannelInv, [Next]_vars
  PROVE  ChannelInv' /\ casting.msg <= casting'.msg /\ pubs <= pubs'
<1>0. ch \in Seq(Nat) /\ casting.msg \in Nat /\ pubs \in Nat
  BY DEF TypeInv
<1>1. ASSUME UNCHANGED <<ch, pubs>>, casting'.msg = casting.msg
      PROVE  ChannelInv' /\ casting.msg <= casting'.msg /\ pubs <= pubs'
  BY <1>0, <1>1 DEF ChannelInv
<1>2. ASSUME NEW c \in Clients, Broadcast(c) PROVE casting'.msg = casting.msg /\ UNCHANGED <<ch, pubs>>
  BY <1>2 DEF Broadcast, TypeInv
<1>3. CASE \/ \E c \in Clients :
                \/ handleWebSocket(c) \/ welcome(c) \/ handleWSCommand(c) \/ readFails(c)
                \/ pumpWrite(c) \/ pumpFails(c) \/ pumpClose(c)
                \/ \E how \in {"quiet", "gone"} : peerLeaves(c, how)
           \/ UNCHANGED vars
  <2>1. casting' = casting /\ UNCHANGED <<ch, pubs>>
    BY Zenon, <1>3 DEF handleWebSocket, welcome, handleWSCommand, readFails, pumpWrite, pumpFails,
      pumpClose, peerLeaves, vars, streamVars
  <2> QED
    BY Zenon, <1>1, <2>1
<1>4. CASE SubscribeWS
  <2>1. pubs' = pubs + 1 /\ casting' = casting /\ ch' \in {ch, Append(ch, pubs + 1)}
    BY Zenon, <1>4 DEF SubscribeWS
  <2>2. CASE ch' = ch
    BY <1>0, <2>1, <2>2 DEF ChannelInv
  <2>3. CASE ch' = Append(ch, pubs + 1)
    <3>1. /\ Len(ch) \in Nat /\ DOMAIN ch = 1 .. Len(ch) /\ DOMAIN ch' = 1 .. Len(ch) + 1
          /\ \A i \in 1 .. Len(ch) : ch'[i] = ch[i]
          /\ ch'[Len(ch) + 1] = pubs + 1
      BY <1>0, <2>3
    <3>2. \A i \in DOMAIN ch' : casting.msg < ch'[i] /\ ch'[i] <= pubs + 1
      <4>1. \A i \in 1 .. Len(ch) : casting.msg < ch[i] /\ ch[i] <= pubs + 1
        BY <1>0 DEF ChannelInv
      <4>2. casting.msg < pubs + 1 /\ pubs + 1 <= pubs + 1
        BY <1>0 DEF ChannelInv
      <4>3. \A i \in DOMAIN ch' : i \in 1 .. Len(ch) \/ i = Len(ch) + 1
        BY <3>1
      <4> QED
        BY Zenon, <3>1, <4>1, <4>2, <4>3
    <3>3. ASSUME NEW i \in DOMAIN ch', NEW j \in DOMAIN ch', i < j PROVE ch'[i] < ch'[j]
      <4>1. i \in 1 .. Len(ch) /\ (j \in 1 .. Len(ch) \/ j = Len(ch) + 1)
        BY <3>1, <3>3
      <4>2. ch[i] < pubs + 1
        BY <1>0, <3>1, <4>1 DEF ChannelInv
      <4> QED
        BY Zenon, <3>1, <3>3, <4>1, <4>2 DEF ChannelInv
    <3>4. casting'.msg <= pubs' /\ casting.msg <= casting'.msg /\ pubs <= pubs'
      BY <1>0, <2>1 DEF ChannelInv
    <3> QED
      BY Zenon, <2>1, <3>2, <3>3, <3>4 DEF ChannelInv
  <2> QED
    BY Zenon, <2>1, <2>2, <2>3
<1>5. CASE ingestRedisMessages
  <2>1. ch # <<>> /\ ch' = Tail(ch) /\ casting'.msg = Head(ch) /\ pubs' = pubs
    BY <1>5 DEF ingestRedisMessages
  <2>2. /\ Len(ch) \in Nat \ {0} /\ DOMAIN ch = 1 .. Len(ch) /\ DOMAIN ch' = 1 .. Len(ch) - 1
        /\ \A i \in 1 .. Len(ch) - 1 : ch'[i] = ch[i + 1]
        /\ Head(ch) = ch[1] /\ \A i \in 1 .. Len(ch) : ch[i] \in Nat
    BY <1>0, <2>1
  <2>3. /\ casting.msg < ch[1] /\ ch[1] <= pubs
        /\ \A i \in 1 .. Len(ch) - 1 : ch[1] < ch[i + 1] /\ ch[i + 1] <= pubs
        /\ \A i, j \in 1 .. Len(ch) - 1 : i < j => ch[i + 1] < ch[j + 1]
    <3>1. /\ 1 \in 1 .. Len(ch) /\ \A i \in 1 .. Len(ch) - 1 : i + 1 \in 1 .. Len(ch) /\ 1 < i + 1
          /\ \A i, j \in 1 .. Len(ch) - 1 : i < j => i + 1 < j + 1
      BY <2>2
    <3> QED
      BY Zenon, <2>2, <3>1 DEF ChannelInv
  <2>4. ChannelInv'
    <3>1. (\A i \in DOMAIN ch : casting.msg < ch[i] /\ ch[i] <= pubs)'
      BY Zenon, <2>1, <2>2, <2>3
    <3>2. ASSUME NEW i \in DOMAIN ch', NEW j \in DOMAIN ch', i < j PROVE ch'[i] < ch'[j]
      <4>1. ch'[i] = ch[i + 1] /\ ch'[j] = ch[j + 1]
        BY Zenon, <2>2
      <4> QED
        BY Zenon, <2>2, <2>3, <3>2, <4>1
    <3>3. (casting.msg <= pubs)'
      BY Zenon, <2>1, <2>2, <2>3
    <3> QED
      BY Zenon, <3>1, <3>2, <3>3 DEF ChannelInv
  <2> QED
    BY <1>0, <2>1, <2>2, <2>3, <2>4
<1> QED
  BY Zenon, <1>1, <1>2, <1>3, <1>4, <1>5, Steps

\* A frame that was numbered before the next of its kind still was.
LEMMA PastStays ==
  ASSUME TypeInv, ChannelInv, [Next]_vars, NEW d \in Clients, NEW f \in Frames, Past(d, f)
  PROVE  Past(d, f)'
<1>0. f.n \in Nat /\ casting.msg \in Nat /\ cmds \in Nat /\ casting'.msg \in Nat
  BY TypeStep DEF TypeInv, Frames
<1>1. cmds' = cmds \/ cmds' = cmds + 1
  BY Zenon, Steps DEF handleWebSocket, welcome, handleWSCommand, readFails, pumpWrite, pumpFails,
    pumpClose, peerLeaves, Broadcast, SubscribeWS, ingestRedisMessages, vars
<1>2. casting.msg <= casting'.msg
  BY Zenon, ChannelStep
<1>3. CASE ingestRedisMessages
  <2>1. casting'.msg = Head(ch) /\ ch # <<>> /\ ch \in Seq(Nat)
    BY <1>3 DEF ingestRedisMessages, TypeInv
  <2>2. casting.msg < casting'.msg
    BY <2>1 DEF ChannelInv
  <2> QED
    BY <1>0, <1>1, <2>2 DEF Past
<1>4. CASE casting'.todo \subseteq casting.todo /\ casting'.msg = casting.msg
  BY <1>0, <1>1, <1>4 DEF Past
<1>5. ASSUME NEW c \in Clients, Broadcast(c) PROVE casting'.todo \subseteq casting.todo /\ casting'.msg = casting.msg
  BY <1>5 DEF Broadcast, TypeInv
<1>6. casting' = casting => casting'.todo \subseteq casting.todo /\ casting'.msg = casting.msg
  OBVIOUS
<1>7. casting' = casting \/ ingestRedisMessages \/ \E c \in Clients : Broadcast(c)
  BY Zenon, Steps DEF handleWebSocket, welcome, handleWSCommand, readFails, pumpWrite, pumpFails,
    pumpClose, peerLeaves, SubscribeWS, vars, streamVars
<1> QED
  BY Zenon, <1>3, <1>4, <1>5, <1>6, <1>7

\* What a step does to the frames of a client: it sends one more, writes one, opens or
\* closes the connection, or leaves them alone.
Adds(d, f) ==
  /\ f \in Frames /\ wire'[d] = wire[d]
  /\ \/ send'[d] = Append(send[d], f) /\ Len(send[d]) < SendCap
     \/ send'[d] = send[d] /\ ~(Len(send[d]) < SendCap)

\* The frames of a client change in no other way.
LEMMA FrameSteps ==
  ASSUME TypeInv, [Next]_vars, NEW d \in Clients
  PROVE  \/ wire'[d] = wire[d] /\ send'[d] = send[d]
         \/ handleWSCommand(d) /\ Adds(d, Frame("answer", cmds + 1)) /\ cmds' = cmds + 1
         \/ Broadcast(d) /\ Adds(d, Frame("mqtt_message", casting.msg))
         \/ /\ welcome(d) /\ send'[d] = send[d] /\ wire'[d] = Append(wire[d], Frame("connected", 0))
         \/ /\ pumpWrite(d) /\ send[d] # <<>>
            /\ wire'[d] = Append(wire[d], Head(send[d])) /\ send'[d] = Tail(send[d])
         \/ pumpClose(d) /\ send'[d] = send[d] /\ wire'[d] = <<>>
<1>0. /\ send \in [Clients -> Seq(Frames)] /\ wire \in [Clients -> Seq(Frames)]
      /\ cmds \in Nat /\ casting.msg \in Nat
  BY DEF TypeInv
<1>1. ASSUME NEW c \in Clients, handleWSCommand(c)
      PROVE  /\ c # d => wire'[d] = wire[d] /\ send'[d] = send[d]
             /\ c = d => Adds(d, Frame("answer", cmds + 1)) /\ cmds' = cmds + 1
  <2>1. cmds' = cmds + 1 /\ wire' = wire /\ TrySend(c, Frame("answer", cmds'))
    BY Zenon, <1>1 DEF handleWSCommand, connVars
  <2>2. Frame("answer", cmds + 1) \in Frames
    BY <1>0 DEF Frame, Frames
  <2>3. TrySend(c, Frame("answer", cmds + 1))
    BY Zenon, <2>1
  <2> QED
    BY Zenon, <2>1, <2>2, <2>3, Tries DEF Adds
<1>2. ASSUME NEW c \in Clients, Broadcast(c)
      PROVE  /\ c # d => wire'[d] = wire[d] /\ send'[d] = send[d]
             /\ c = d => Adds(d, Frame("mqtt_message", casting.msg))
  <2>1. wire' = wire /\ TrySend(c, Frame("mqtt_message", casting.msg))
    BY Zenon, <1>2 DEF Broadcast, connVars
  <2>2. Frame("mqtt_message", casting.msg) \in Frames
    BY <1>0 DEF Frame, Frames
  <2> QED
    BY Zenon, <2>1, <2>2, Tries DEF Adds
<1>3. ASSUME NEW c \in Clients, welcome(c)
      PROVE  /\ c # d => wire'[d] = wire[d] /\ send'[d] = send[d]
             /\ c = d => /\ send'[d] = send[d]
                         /\ wire'[d] \in {wire[d], Append(wire[d], Frame("connected", 0))}
  BY Zenon, <1>0, <1>3 DEF welcome
<1>4. ASSUME NEW c \in Clients, pumpWrite(c)
      PROVE  /\ c # d => wire'[d] = wire[d] /\ send'[d] = send[d]
             /\ c = d => /\ send[d] # <<>> /\ wire'[d] = Append(wire[d], Head(send[d]))
                         /\ send'[d] = Tail(send[d])
  BY Zenon, <1>0, <1>4 DEF pumpWrite
<1>5. ASSUME NEW c \in Clients, pumpClose(c)
      PROVE  /\ c # d => wire'[d] = wire[d] /\ send'[d] = send[d]
             /\ c = d => send'[d] = send[d] /\ wire'[d] = <<>>
  BY Zenon, <1>0, <1>5 DEF pumpClose
<1>6. CASE \/ \E c \in Clients : \/ handleWebSocket(c) \/ readFails(c) \/ pumpFails(c)
                                 \/ \E how \in {"quiet", "gone"} : peerLeaves(c, how)
           \/ SubscribeWS \/ ingestRedisMessages \/ UNCHANGED vars
  BY Zenon, <1>6 DEF handleWebSocket, readFails, pumpFails, peerLeaves, SubscribeWS, ingestRedisMessages,
    vars, connVars
<1> QED
  BY Zenon, <1>1, <1>2, <1>3, <1>4, <1>5, <1>6, Steps

\* One more frame goes to the end of what was sent, or the queue was full.
LEMMA AddsStep ==
  ASSUME TypeInv, NEW d \in Clients, NEW f, Adds(d, f), Len(send[d]) <= SendCap
  PROVE  /\ send[d] \in Seq(Frames) /\ wire[d] \in Seq(Frames) /\ Sent(d) \in Seq(Frames)
         /\ Len(send'[d]) <= SendCap
         /\ \/ send'[d] = Append(send[d], f) /\ Sent(d)' = Append(Sent(d), f)
            \/ send'[d] = send[d] /\ Sent(d)' = Sent(d) /\ Len(send'[d]) = SendCap
<1>0. send[d] \in Seq(Frames) /\ wire[d] \in Seq(Frames) /\ f \in Frames
  BY Zenon DEF TypeInv, Adds
<1>1. Sent(d) \in Seq(Frames) /\ Len(send[d]) \in Nat /\ SendCap \in Nat
  BY <1>0, ConcatProperties, ConstantsAssumption DEF Sent
<1>2. CASE send'[d] = Append(send[d], f) /\ Len(send[d]) < SendCap
  <2>1. Len(send'[d]) = Len(send[d]) + 1
    BY <1>0, <1>2, AppendProperties
  <2>2. Sent(d)' = Append(Sent(d), f)
    <3>1. Sent(d)' = wire[d] \o Append(send[d], f)
      BY Zenon, <1>2 DEF Sent, Adds
    <3>2. wire[d] \o Append(send[d], f) = Append(wire[d] \o send[d], f)
      BY Zenon, <1>0, Queued
    <3> QED
      BY Zenon, <3>1, <3>2 DEF Sent
  <2>3. Len(send'[d]) <= SendCap
    BY <1>1, <1>2, <2>1
  <2> QED
    BY Zenon, <1>0, <1>1, <1>2, <2>2, <2>3
<1>3. CASE send'[d] = send[d] /\ ~(Len(send[d]) < SendCap)
  <2>1. Len(send[d]) = SendCap
    BY <1>1, <1>3
  <2> QED
    BY Zenon, <1>0, <1>1, <1>3, <2>1 DEF Sent, Adds
<1> QED
  BY Zenon, <1>2, <1>3 DEF Adds

\* What a client was sent was numbered before the next of its kind.
LEMMA PastOf ==
  ASSUME NEW d \in Clients, Stream(d), NEW x \in Frames, Has(Sent(d), x)
  PROVE  Past(d, x)
BY Zenon DEF Stream, Has

\* A client is sent one more frame, later than those of its kind.
LEMMA StreamAdds ==
  ASSUME TypeInv, ChannelInv, [Next]_vars, NEW d \in Clients, Stream(d),
         NEW f \in Frames, Adds(d, f), f.event # "connected", Past(d, f)',
         \A x \in Frames : Past(d, x) /\ x.event = f.event => x.n < f.n
  PROVE  Stream(d)'
<1>0. f \in Frames /\ wire'[d] = wire[d]
  BY Zenon DEF Adds
<1>1. /\ send[d] \in Seq(Frames) /\ Sent(d) \in Seq(Frames)
      /\ Len(send'[d]) <= SendCap
      /\ \/ send'[d] = Append(send[d], f) /\ Sent(d)' = Append(Sent(d), f)
         \/ send'[d] = send[d] /\ Sent(d)' = Sent(d)
  BY Zenon, AddsStep DEF Stream
<1>3. \A x \in Frames : Has(Sent(d), x) => Past(d, x)'
  BY Zenon, PastOf, PastStays
<1>4. \A i \in DOMAIN Sent(d) : Sent(d)[i].event = f.event => Sent(d)[i].n < f.n
  <2>1. ASSUME NEW i \in DOMAIN Sent(d) PROVE Sent(d)[i] \in Frames
    BY <1>1
  <2> QED
    BY Zenon, <2>1 DEF Stream
<1>5. \A i \in DOMAIN send'[d] : send'[d][i].event # "connected"
  <2>1. CASE send'[d] = send[d]
    BY Zenon, <2>1 DEF Stream
  <2>2. CASE send'[d] = Append(send[d], f)
    <3>1. \A i \in DOMAIN Append(send[d], f) :
            Append(send[d], f)[i] = f \/ (i \in DOMAIN send[d] /\ Append(send[d], f)[i] = send[d][i])
      BY ZenonT(60), <1>0, <1>1, Joins
    <3> QED
      BY Zenon, <2>2, <3>1 DEF Stream
  <2> QED
    BY Zenon, <1>1, <2>1, <2>2
<1>6. Ordered(Sent(d)') /\ Sent(d)' \in Seq(Frames) /\ \A x \in Frames : Has(Sent(d)', x) => Past(d, x)'
  <2>1. CASE Sent(d)' = Sent(d)
    BY Zenon, <1>1, <1>3, <2>1 DEF Stream
  <2>2. CASE Sent(d)' = Append(Sent(d), f)
    <3>1. Ordered(Append(Sent(d), f)) /\ Append(Sent(d), f) \in Seq(Frames)
      BY Zenon, <1>0, <1>1, <1>4, Joins DEF Stream
    <3>2. \A x \in Frames : Has(Append(Sent(d), f), x) => Has(Sent(d), x) \/ x = f
      BY Zenon, <1>0, <1>1, Joins
    <3> QED
      BY Zenon, <1>3, <2>2, <3>1, <3>2
  <2> QED
    BY Zenon, <1>1, <2>1, <2>2
<1>7. \A i \in DOMAIN Sent(d)' : Sent(d)'[i] \in Frames
  BY <1>6
<1>8. (\A i \in DOMAIN Sent(d) : Past(d, Sent(d)[i]))'
  BY Zenon, <1>6, <1>7 DEF Has, Past
<1> QED
  BY Zenon, <1>0, <1>1, <1>5, <1>6, <1>8 DEF Stream

\* A step that sends a client nothing new but the welcome.
LEMMA StreamFrom ==
  ASSUME TypeInv, ChannelInv, [Next]_vars, NEW d \in Clients, Stream(d),
         Len(send'[d]) <= SendCap,
         \A i \in DOMAIN send'[d] : send'[d][i].event # "connected",
         wire'[d] # <<>> => wire'[d][1].event = "connected",
         Ordered(Sent(d)'),
         \A x \in Frames : Has(Sent(d)', x) => Has(Sent(d), x) \/ x.event = "connected"
  PROVE  Stream(d)'
<1>1. \A x \in Frames : x.event = "connected" => Past(d, x)'
  BY DEF Past
<1>2. \A x \in Frames : Has(Sent(d)', x) => Past(d, x)'
  BY Zenon, <1>1, PastOf, PastStays
<1>3. send'[d] \in Seq(Frames) /\ wire'[d] \in Seq(Frames)
  BY Zenon, TypeStep DEF TypeInv
<1>4. \A i \in DOMAIN Sent(d)' : Sent(d)'[i] \in Frames
  <2>1. wire'[d] \o send'[d] \in Seq(Frames)
    BY Zenon, <1>3, ConcatProperties
  <2>2. Sent(d)' \in Seq(Frames)
    BY Zenon, <2>1 DEF Sent
  <2> QED
    BY <2>2
<1>5. (\A i \in DOMAIN Sent(d) : Past(d, Sent(d)[i]))'
  BY Zenon, <1>2, <1>4 DEF Has, Past
<1> QED
  BY Zenon, <1>5 DEF Stream

\* Before the pump starts nothing but the queue was sent.
LEMMA Unwelcomed ==
  ASSUME TypeInv, NEW d \in Clients, Phase(d), Stream(d), welcome(d)
  PROVE  wire[d] = <<>> /\ send[d] \in Seq(Frames) /\ Sent(d) = send[d] /\ Ordered(send[d])
<1>1. wire[d] = <<>>
  BY DEF welcome, Phase, TypeInv
<1>2. wire[d] \in Seq(Frames) /\ send[d] \in Seq(Frames) /\ Ordered(wire[d] \o send[d])
  BY Zenon DEF TypeInv, Stream, Sent
<1> QED
  BY Zenon, <1>1, <1>2, Suffix DEF Sent

\* Every step keeps the order of what a client is sent.
LEMMA StreamStep ==
  ASSUME TypeInv, ChannelInv, [Next]_vars, NEW d \in Clients, Phase(d), Stream(d)
  PROVE  Stream(d)'
<1>0. /\ send[d] \in Seq(Frames) /\ wire[d] \in Seq(Frames)
      /\ cmds \in Nat /\ casting.msg \in Nat
  BY DEF TypeInv
<1>1. CASE wire'[d] = wire[d] /\ send'[d] = send[d]
  <2>1. Sent(d)' = Sent(d)
    BY Zenon, <1>1 DEF Sent
  <2> QED
    BY Zenon, <1>1, <2>1, StreamFrom DEF Stream
<1>2. CASE handleWSCommand(d) /\ Adds(d, Frame("answer", cmds + 1)) /\ cmds' = cmds + 1
  <2>1. PICK f \in Frames : f = Frame("answer", cmds + 1)
    BY Zenon, <1>2 DEF Adds
  <2>2. Past(d, f)' /\ f.event # "connected"
    BY <1>0, <1>2, <2>1 DEF Past, Frame
  <2>3. \A x \in Frames : Past(d, x) /\ x.event = f.event => x.n < f.n
    BY <1>0, <2>1 DEF Past, Frame, Frames
  <2> QED
    BY Zenon, <1>2, <2>1, <2>2, <2>3, StreamAdds
<1>3. CASE Broadcast(d) /\ Adds(d, Frame("mqtt_message", casting.msg))
  <2>1. PICK f \in Frames : f = Frame("mqtt_message", casting.msg)
    BY Zenon, <1>3 DEF Adds
  <2>2. casting'.msg = casting.msg /\ d \notin casting'.todo /\ d \in casting.todo
    BY <1>3 DEF Broadcast, TypeInv
  <2>3. Past(d, f)' /\ f.event # "connected"
    BY <1>0, <2>1, <2>2 DEF Past, Frame
  <2>4. \A x \in Frames : Past(d, x) /\ x.event = f.event => x.n < f.n
    BY <1>0, <2>1, <2>2 DEF Past, Frame
  <2> QED
    BY Zenon, <1>3, <2>1, <2>3, <2>4, StreamAdds
<1>4. CASE welcome(d) /\ send'[d] = send[d] /\ wire'[d] = Append(wire[d], Frame("connected", 0))
  <2>1. PICK f \in Frames : f = Frame("connected", 0)
    BY Zenon DEF Frame, Frames
  <2>2. f.event = "connected"
    BY <2>1 DEF Frame
  <2>3. wire'[d] = Append(<<>>, f) /\ Sent(d) = send[d] /\ Ordered(send[d])
    BY Zenon, <1>4, <2>1, Unwelcomed
  <2>4. Sent(d)' = Append(<<>>, f) \o send[d]
    BY Zenon, <1>4, <2>3 DEF Sent
  <2>5. \A i \in DOMAIN send[d] : send[d][i].event # f.event
    BY Zenon, <2>2 DEF Stream
  <2>6. /\ Ordered(Append(<<>>, f) \o send[d]) /\ Append(<<>>, f)[1] = f
        /\ \A i \in DOMAIN (Append(<<>>, f) \o send[d]) :
             (Append(<<>>, f) \o send[d])[i] = f \/ Has(send[d], (Append(<<>>, f) \o send[d])[i])
    BY Zenon, <1>0, <2>3, <2>5, Prefixed
  <2>7. \A x \in Frames : Has(Sent(d)', x) => Has(Sent(d), x) \/ x.event = "connected"
    BY Zenon, <2>2, <2>3, <2>4, <2>6 DEF Has
  <2>8. Ordered(Sent(d)')
    BY Zenon, <2>4, <2>6
  <2>9. wire'[d] # <<>> => wire'[d][1].event = "connected"
    BY Zenon, <2>2, <2>3, <2>6
  <2> QED
    BY Zenon, <1>4, <2>7, <2>8, <2>9, StreamFrom DEF Stream
<1>5. CASE /\ pumpWrite(d) /\ send[d] # <<>>
           /\ wire'[d] = Append(wire[d], Head(send[d])) /\ send'[d] = Tail(send[d])
  <2>1. Sent(d)' = Sent(d)
    BY Zenon, <1>0, <1>5, Pumped DEF Sent
  <2>2. /\ Len(send[d]) \in Nat \ {0} /\ DOMAIN send[d] = 1 .. Len(send[d])
        /\ Len(send'[d]) = Len(send[d]) - 1
        /\ DOMAIN send'[d] = 1 .. Len(send[d]) - 1
        /\ \A i \in 1 .. Len(send[d]) - 1 : send'[d][i] = send[d][i + 1] /\ i + 1 \in 1 .. Len(send[d])
    BY <1>0, <1>5
  <2>3. \A i \in DOMAIN send'[d] : send'[d][i].event # "connected"
    BY Zenon, <2>2 DEF Stream
  <2>4. Len(send'[d]) <= SendCap
    BY <2>2, ConstantsAssumption DEF Stream
  <2>5. wire[d] # <<>>
    BY Zenon, <1>5 DEF Phase, pumpWrite
  <2>6. wire'[d][1] = wire[d][1]
    <3>1. Head(send[d]) \in Frames
      BY Zenon, <1>0, <1>5, HeadTailProperties
    <3> QED
      BY <1>0, <1>5, <2>5, <3>1
  <2>7. wire'[d][1].event = "connected"
    BY Zenon, <2>5, <2>6 DEF Stream
  <2> QED
    BY Zenon, <2>1, <2>3, <2>4, <2>7, StreamFrom DEF Stream
<1>6. CASE pumpClose(d) /\ send'[d] = send[d] /\ wire'[d] = <<>>
  <2>1. Sent(d)' = <<>> \o send[d]
    BY Zenon, <1>6 DEF Sent
  <2>2. Sent(d)' = send[d] /\ Ordered(send[d]) /\ \A i \in DOMAIN send[d] : Has(Sent(d), send[d][i])
    BY Zenon, <1>0, <2>1, Suffix DEF Stream, Sent
  <2>3. \A x \in Frames : Has(Sent(d)', x) => Has(Sent(d), x)
    BY Zenon, <2>2 DEF Has
  <2> QED
    BY Zenon, <1>6, <2>2, <2>3, StreamFrom DEF Stream
<1> QED
  BY Zenon, <1>1, <1>2, <1>3, <1>4, <1>5, <1>6, FrameSteps

----------------------------------------------------------------------------
(* Nothing is missing. *)

\* A client that is in the hub after a step and did not enter it was there before.
LEMMA Member ==
  ASSUME TypeInv, [Next]_vars, NEW d \in Clients, ~handleWebSocket(d), d \in clients' \ full'
  PROVE  d \in clients \ full /\ since'[d] = since[d] /\ lost \subseteq lost'
<1>0. since \in [Clients -> Nat]
  BY Zenon DEF TypeInv
<1>1. ASSUME NEW c \in Clients, c # d, handleWebSocket(c)
      PROVE  d \in clients \ full /\ since'[d] = since[d] /\ lost \subseteq lost'
  BY Zenon, <1>0, <1>1 DEF handleWebSocket, add, streamVars
<1>2. ASSUME NEW c \in Clients, readFails(c) \/ pumpFails(c)
      PROVE  d \in clients \ full /\ since'[d] = since[d] /\ lost \subseteq lost'
  BY Zenon, <1>0, <1>2 DEF readFails, pumpFails, remove, streamVars
<1>3. ASSUME NEW c \in Clients, handleWSCommand(c) \/ Broadcast(c)
      PROVE  d \in clients \ full /\ since'[d] = since[d] /\ lost \subseteq lost'
  <2>1. clients' = clients /\ since' = since /\ lost' = lost
    BY Zenon, <1>3 DEF handleWSCommand, Broadcast, streamVars
  <2>2. full \subseteq full'
    BY Zenon, <1>3 DEF handleWSCommand, Broadcast, TrySend
  <2> QED
    BY Zenon, <2>1, <2>2
<1>4. CASE \/ \E c \in Clients : \/ welcome(c) \/ pumpWrite(c) \/ pumpClose(c)
                                 \/ \E how \in {"quiet", "gone"} : peerLeaves(c, how)
           \/ SubscribeWS \/ ingestRedisMessages \/ UNCHANGED vars
  <2>1. clients' = clients /\ since' = since /\ full' = full
    BY Zenon, <1>4 DEF welcome, pumpWrite, pumpClose, peerLeaves, SubscribeWS, ingestRedisMessages, vars, hubVars
  <2>2. lost \subseteq lost'
    BY Zenon, <1>4 DEF welcome, pumpWrite, pumpClose, peerLeaves, SubscribeWS, ingestRedisMessages, vars, streamVars
  <2> QED
    BY Zenon, <2>1, <2>2
<1> QED
  BY Zenon, <1>1, <1>2, <1>3, <1>4, Steps

\* A client of the hub keeps what it was sent.
LEMMA HasStays ==
  ASSUME TypeInv, [Next]_vars, NEW d \in Clients, Phase(d), Stream(d), d \in clients,
         NEW x, Has(Sent(d), x)
  PROVE  Has(Sent(d)', x)
<1>0. send[d] \in Seq(Frames) /\ wire[d] \in Seq(Frames)
  BY Zenon DEF TypeInv
<1>1. CASE wire'[d] = wire[d] /\ send'[d] = send[d]
  BY Zenon, <1>1 DEF Sent
<1>2. ASSUME NEW f, Adds(d, f) PROVE Has(Sent(d)', x)
  <2>1. /\ Sent(d) \in Seq(Frames) /\ f \in Frames
        /\ Sent(d)' = Append(Sent(d), f) \/ Sent(d)' = Sent(d)
    BY Zenon, <1>2, AddsStep DEF Stream, Adds
  <2>2. Has(Append(Sent(d), f), x)
    BY Zenon, <2>1, Joins
  <2> QED
    BY Zenon, <2>1, <2>2
<1>3. CASE welcome(d) /\ send'[d] = send[d] /\ wire'[d] = Append(wire[d], Frame("connected", 0))
  <2>1. PICK f \in Frames : f = Frame("connected", 0)
    BY Zenon DEF Frame, Frames
  <2>2. f.event = "connected"
    BY <2>1 DEF Frame
  <2>3. wire'[d] = Append(<<>>, f) /\ Sent(d) = send[d] /\ Ordered(send[d])
    BY Zenon, <1>3, <2>1, Unwelcomed
  <2>4. Sent(d)' = Append(<<>>, f) \o send[d]
    BY Zenon, <1>3, <2>3 DEF Sent
  <2>5. \A i \in DOMAIN send[d] : send[d][i].event # f.event
    BY Zenon, <2>2 DEF Stream
  <2>6. \A y : Has(send[d], y) => Has(Append(<<>>, f) \o send[d], y)
    BY Zenon, <1>0, <2>3, <2>5, Prefixed
  <2> QED
    BY Zenon, <2>3, <2>4, <2>6
<1>4. CASE /\ pumpWrite(d) /\ send[d] # <<>>
           /\ wire'[d] = Append(wire[d], Head(send[d])) /\ send'[d] = Tail(send[d])
  BY Zenon, <1>0, <1>4, Pumped DEF Sent
<1>5. CASE pumpClose(d)
  BY <1>5 DEF pumpClose, Phase
<1> QED
  BY Zenon, <1>1, <1>2, <1>3, <1>4, <1>5, FrameSteps

\* A message in the channel stays there until it is broadcast.
LEMMA ChannelKeeps ==
  ASSUME TypeInv, [Next]_vars, NEW n, Has(ch, n)
  PROVE  Has(ch', n) \/ (ingestRedisMessages /\ casting' = [msg |-> n, todo |-> clients])
<1>0. ch \in Seq(Nat) /\ pubs \in Nat
  BY Zenon DEF TypeInv
<1>1. CASE SubscribeWS
  <2>1. ch' = ch \/ ch' = Append(ch, pubs + 1)
    BY Zenon, <1>1 DEF SubscribeWS
  <2> QED
    BY <1>0, <2>1 DEF Has
<1>2. CASE ingestRedisMessages
  <2>1. ch # <<>> /\ casting' = [msg |-> Head(ch), todo |-> clients] /\ ch' = Tail(ch)
    BY Zenon, <1>2 DEF ingestRedisMessages
  <2>2. PICK i \in DOMAIN ch : ch[i] = n
    BY Zenon DEF Has
  <2>3. CASE i = 1
    BY <1>0, <1>2, <2>1, <2>2, <2>3
  <2>4. CASE i # 1
    <3>1. i - 1 \in DOMAIN ch' /\ ch'[i - 1] = n
      BY <1>0, <2>1, <2>2, <2>4
    <3> QED
      BY Zenon, <3>1 DEF Has
  <2> QED
    BY Zenon, <2>3, <2>4
<1>3. CASE ~SubscribeWS /\ ~ingestRedisMessages
  <2>1. ch' = ch
    BY Zenon, <1>3, Steps DEF handleWebSocket, welcome, handleWSCommand, readFails, pumpWrite, pumpFails,
      pumpClose, peerLeaves, Broadcast, vars, streamVars
  <2> QED
    BY Zenon, <2>1
<1> QED
  BY Zenon, <1>1, <1>2, <1>3

\* A message that Broadcast is to send a client of the hub is sent, unless its queue is full.
LEMMA CastKeeps ==
  ASSUME TypeInv, [Next]_vars, NEW d \in Clients, Stream(d), d \in clients' \ full',
         d \in clients, d \in casting.todo
  PROVE  \/ Has(Sent(d)', Frame("mqtt_message", casting.msg))
         \/ d \in casting'.todo /\ casting'.msg = casting.msg
<1>0. casting \in [msg : Nat, todo : SUBSET Clients]
  BY Zenon DEF TypeInv
<1>1. CASE Broadcast(d)
  <2>1. PICK f \in Frames : f = Frame("mqtt_message", casting.msg)
    BY Zenon, <1>0 DEF Frame, Frames
  <2>2. TrySend(d, f) /\ wire' = wire
    BY Zenon, <1>1, <2>1 DEF Broadcast, connVars
  <2>3. Adds(d, f) /\ (d \in clients /\ Len(send'[d]) = SendCap => d \in full')
    BY Zenon, <2>2, Tries DEF Adds
  <2>4. Sent(d) \in Seq(Frames) /\ Sent(d)' = Append(Sent(d), f)
    BY Zenon, <2>3, AddsStep DEF Stream
  <2>5. Has(Append(Sent(d), f), f)
    BY Zenon, <2>4, Joins
  <2> QED
    BY Zenon, <2>1, <2>4, <2>5
<1>2. ASSUME NEW c \in Clients, c # d, Broadcast(c)
      PROVE  d \in casting'.todo /\ casting'.msg = casting.msg
  BY <1>0, <1>2 DEF Broadcast
<1>3. CASE ingestRedisMessages
  BY Zenon, <1>3 DEF ingestRedisMessages
<1>4. CASE ~ingestRedisMessages /\ ~\E c \in Clients : Broadcast(c)
  <2>1. casting' = casting
    BY Zenon, <1>4, Steps DEF handleWebSocket, welcome, handleWSCommand, readFails, pumpWrite, pumpFails,
      pumpClose, peerLeaves, SubscribeWS, vars, streamVars
  <2> QED
    BY Zenon, <2>1
<1> QED
  BY Zenon, <1>1, <1>2, <1>3, <1>4

\* Every step keeps the stream of a client complete.
LEMMA CompleteStep ==
  ASSUME TypeInv, [Next]_vars, NEW d \in Clients, Phase(d), Stream(d), Complete(d)
  PROVE  Complete(d)'
<1>0. /\ pubs \in Nat /\ since \in [Clients -> Nat] /\ since[d] \in Nat
      /\ ch \in Seq(Nat) /\ pubs' \in Nat /\ since'[d] \in Nat
  BY Zenon, TypeStep DEF TypeInv
<1> SUFFICES ASSUME d \in clients' \ full', NEW n \in (since'[d] + 1) .. pubs', n \notin lost'
             PROVE  Reaches(d, n)'
  BY Zenon DEF Complete
<1>1. ~handleWebSocket(d)
  <2>1. CASE handleWebSocket(d)
    <3>1. since'[d] = pubs /\ pubs' = pubs
      BY Zenon, <1>0, <2>1 DEF handleWebSocket, add, streamVars
    <3> QED
      BY <1>0, <3>1
  <2> QED
    BY Zenon, <2>1
<1>2. d \in clients \ full /\ since'[d] = since[d] /\ n \notin lost
  BY Zenon, <1>1, Member
<1>3. CASE n \in (since[d] + 1) .. pubs
  <2>1. Reaches(d, n)
    BY Zenon, <1>2, <1>3 DEF Complete
  <2>2. CASE Has(Sent(d), Frame("mqtt_message", n))
    BY Zenon, <1>2, <2>2, HasStays DEF Reaches
  <2>3. CASE Has(ch, n)
    <3>1. casting' = [msg |-> n, todo |-> clients] => casting'.msg = n /\ casting'.todo = clients
      OBVIOUS
    <3> QED
      BY Zenon, <1>2, <2>3, <3>1, ChannelKeeps DEF Reaches
  <2>4. CASE d \in casting.todo /\ casting.msg = n
    BY Zenon, <1>2, <2>4, CastKeeps DEF Reaches
  <2> QED
    BY Zenon, <2>1, <2>2, <2>3, <2>4 DEF Reaches
<1>4. CASE n \notin (since[d] + 1) .. pubs
  <2>1. pubs' # pubs
    BY <1>2, <1>4
  <2>2. SubscribeWS
    BY Zenon, <2>1, Steps DEF handleWebSocket, welcome, handleWSCommand, readFails, pumpWrite, pumpFails,
      pumpClose, peerLeaves, Broadcast, ingestRedisMessages, vars, streamVars
  <2>3. pubs' = pubs + 1 /\ (ch' = Append(ch, pubs') \/ lost' = lost \cup {pubs'})
    BY Zenon, <2>2 DEF SubscribeWS
  <2>4. n = pubs'
    BY <1>0, <1>2, <1>4, <2>3
  <2>5. ch' = Append(ch, n)
    BY Zenon, <2>3, <2>4
  <2>6. Len(ch) + 1 \in DOMAIN ch' /\ ch'[Len(ch) + 1] = n
    BY <1>0, <2>4, <2>5
  <2> QED
    BY Zenon, <2>6 DEF Has, Reaches
<1> QED
  BY Zenon, <1>3, <1>4

----------------------------------------------------------------------------
(* The count. *)

\* A goroutine of client c ends or starts: what becomes of the clients discounted twice.
LEMMA EndedSame ==
  ASSUME \A c \in Clients : c \in Ended' <=> c \in Ended
  PROVE  Ended' = Ended
BY Zenon DEF Ended

\* A client that no goroutine of which moves stays among the ended, or outside.
LEMMA EndedOf ==
  ASSUME NEW c \in Clients
  PROVE  /\ c \in Ended <=> pc[c].handler = "done" /\ pc[c].pump \in {"close", "done"}
         /\ c \in Ended' <=> pc'[c].handler = "done" /\ pc'[c].pump \in {"close", "done"}
BY Zenon DEF Ended

\* A goroutine of client c ends and removes it: either it was in the hub, or its other
\* goroutine has ended before.
LEMMA RemoveCounts ==
  ASSUME CountInv, count \in Int, NEW c \in Clients, remove(c),
         \A d \in Clients \ {c} : d \in Ended' <=> d \in Ended,
         \/ c \in clients /\ c \notin Ended /\ c \notin Ended'
         \/ c \notin clients /\ c \notin Ended /\ c \in Ended'
  PROVE  CountInv'
<1>0. IsFiniteSet(clients) /\ IsFiniteSet(Ended) /\ count = Cardinality(clients) - Cardinality(Ended)
  BY Zenon DEF CountInv
<1>1. Cardinality(clients) \in Nat /\ Cardinality(Ended) \in Nat
  BY Zenon, <1>0, FS_CardinalityType
<1>2. clients' = clients \ {c} /\ count' = count - 1
  BY Zenon DEF remove
<1>3. CASE c \in clients /\ c \notin Ended /\ c \notin Ended'
  <2>1. Ended' = Ended
    BY Zenon, <1>3, EndedSame
  <2>2. IsFiniteSet(clients') /\ Cardinality(clients') = Cardinality(clients) - 1
    BY <1>0, <1>2, <1>3, FS_RemoveElement
  <2>3. count' = Cardinality(clients') - Cardinality(Ended)
    BY <1>0, <1>1, <1>2, <2>2
  <2> QED
    BY Zenon, <1>0, <2>1, <2>2, <2>3 DEF CountInv
<1>4. CASE c \notin clients /\ c \notin Ended /\ c \in Ended'
  <2>1. clients' = clients
    BY Zenon, <1>2, <1>4
  <2>2. Ended' = Ended \cup {c}
    <3>1. \A d : d \in Ended => d \in Clients
      BY Zenon DEF Ended
    <3>2. \A d : d \in Ended' => d \in Clients
      BY Zenon DEF Ended
    <3> QED
      BY Zenon, <1>4, <3>1, <3>2
  <2>3. IsFiniteSet(Ended \cup {c}) /\ Cardinality(Ended \cup {c}) = Cardinality(Ended) + 1
    BY <1>0, <1>4, FS_AddElement
  <2>4. count' = Cardinality(clients) - Cardinality(Ended \cup {c})
    BY <1>0, <1>1, <1>2, <2>3
  <2> QED
    BY Zenon, <1>0, <2>1, <2>2, <2>3, <2>4 DEF CountInv
<1> QED
  BY Zenon, <1>3, <1>4

\* Every step keeps the count.
LEMMA CountStep ==
  ASSUME TypeInv, [Next]_vars, \A c \in Clients : Phase(c), CountInv
  PROVE  CountInv'
<1>0. /\ pc \in [Clients -> [handler : {"none", "welcome", "read", "done"},
                             pump : {"none", "write", "close", "done"}]]
      /\ count \in Int
  BY Zenon DEF TypeInv
<1>s. ASSUME \A c \in Clients : c \in Ended' <=> c \in Ended, clients' = clients, count' = count
      PROVE  CountInv'
  BY Zenon, <1>s, EndedSame DEF CountInv
<1>1. ASSUME NEW c \in Clients, handleWebSocket(c) PROVE CountInv'
  <2>1. /\ pc[c].handler = "none" /\ pc'[c].handler = "welcome"
        /\ \A d \in Clients \ {c} : pc'[d] = pc[d]
    BY <1>0, <1>1 DEF handleWebSocket
  <2>2. c \notin clients /\ c \notin Ended /\ c \notin Ended'
    BY <2>1, EndedOf DEF Phase
  <2>3. Ended' = Ended
    BY Zenon, <2>1, <2>2, EndedOf, EndedSame
  <2>4. clients' = clients \cup {c} /\ count' = count + 1
    BY Zenon, <1>1 DEF handleWebSocket, add
  <2>5. IsFiniteSet(clients') /\ Cardinality(clients') = Cardinality(clients) + 1
    BY <2>2, <2>4, FS_AddElement DEF CountInv
  <2>6. Cardinality(clients) \in Nat /\ Cardinality(Ended) \in Nat
    BY Zenon, FS_CardinalityType DEF CountInv
  <2>7. count' = Cardinality(clients') - Cardinality(Ended)
    BY <2>4, <2>5, <2>6 DEF CountInv
  <2> QED
    BY Zenon, <2>3, <2>5, <2>7 DEF CountInv
<1>2. ASSUME NEW c \in Clients, readFails(c) PROVE CountInv'
  <2>1. /\ pc[c].handler = "read" /\ pc'[c] = [pc[c] EXCEPT !.handler = "done"] /\ remove(c)
        /\ \A d \in Clients \ {c} : pc'[d] = pc[d]
    BY <1>0, <1>2 DEF readFails
  <2>2. \/ c \in clients /\ c \notin Ended /\ c \notin Ended'
        \/ c \notin clients /\ c \notin Ended /\ c \in Ended'
    BY <1>0, <2>1, EndedOf DEF Phase
  <2>3. \A d \in Clients \ {c} : d \in Ended' <=> d \in Ended
    BY Zenon, <2>1, EndedOf
  <2> QED
    BY Zenon, <1>0, <2>1, <2>2, <2>3, RemoveCounts
<1>3. ASSUME NEW c \in Clients, pumpFails(c) PROVE CountInv'
  <2>1. /\ pc[c].pump = "write" /\ pc'[c] = [pc[c] EXCEPT !.pump = "close"] /\ remove(c)
        /\ \A d \in Clients \ {c} : pc'[d] = pc[d]
    BY <1>0, <1>3 DEF pumpFails
  <2>2. \/ c \in clients /\ c \notin Ended /\ c \notin Ended'
        \/ c \notin clients /\ c \notin Ended /\ c \in Ended'
    BY <1>0, <2>1, EndedOf DEF Phase
  <2>3. \A d \in Clients \ {c} : d \in Ended' <=> d \in Ended
    BY Zenon, <2>1, EndedOf
  <2> QED
    BY Zenon, <1>0, <2>1, <2>2, <2>3, RemoveCounts
<1>4. ASSUME NEW c \in Clients, welcome(c) \/ pumpClose(c) PROVE CountInv'
  <2>1. clients' = clients /\ count' = count
    BY Zenon, <1>4 DEF welcome, pumpClose, hubVars
  <2>2. \A d \in Clients : d \in Ended' <=> d \in Ended
    <3>1. ASSUME NEW d \in Clients \ {c} PROVE pc'[d] = pc[d]
      BY <1>0, <1>4 DEF welcome, pumpClose
    <3>2. c \in Ended' <=> c \in Ended
      <4>1. CASE welcome(c)
        BY <1>0, <4>1, EndedOf DEF welcome
      <4>2. CASE pumpClose(c)
        BY <1>0, <4>2, EndedOf DEF pumpClose
      <4> QED
        BY Zenon, <1>4, <4>1, <4>2
    <3> QED
      BY Zenon, <3>1, <3>2, EndedOf
  <2> QED
    BY Zenon, <1>s, <2>1, <2>2
<1>5. CASE \/ \E c \in Clients : \/ handleWSCommand(c) \/ pumpWrite(c) \/ Broadcast(c)
                                 \/ \E how \in {"quiet", "gone"} : peerLeaves(c, how)
           \/ SubscribeWS \/ ingestRedisMessages \/ UNCHANGED vars
  <2>1. clients' = clients /\ count' = count /\ pc' = pc
    BY Zenon, <1>5 DEF handleWSCommand, pumpWrite, Broadcast, peerLeaves, SubscribeWS, ingestRedisMessages,
      vars, hubVars
  <2> QED
    BY Zenon, <1>s, <2>1, EndedOf
<1> QED
  BY Zenon, <1>1, <1>2, <1>3, <1>4, <1>5, Steps

----------------------------------------------------------------------------
(* Theorems. *)

\* The hub starts without clients, messages or queues.
LEMMA InitInv ==
  ASSUME Init
  PROVE  Inv
<1>1. TypeInv
  <2>1. casting \in [msg : Nat, todo : SUBSET Clients] /\ ch \in Seq(Nat)
    BY DEF Init
  <2>2. pc \in [Clients -> [handler : {"none", "welcome", "read", "done"},
                            pump : {"none", "write", "close", "done"}]]
    BY DEF Init
  <2>3. /\ send \in [Clients -> Seq(Frames)] /\ wire \in [Clients -> Seq(Frames)]
        /\ conn \in [Clients -> {"none", "open", "broken", "closed"}]
    BY DEF Init
  <2>4. clients \subseteq Clients /\ count \in Int /\ pubs \in Nat /\ cmds \in Nat /\ since \in [Clients -> Nat]
    BY DEF Init
  <2> QED
    BY Zenon, <2>1, <2>2, <2>3, <2>4 DEF TypeInv
<1>2. ChannelInv
  BY DEF Init, ChannelInv
<1>3. CountInv
  <2>1. Ended = {} /\ clients = {} /\ count = 0
    BY DEF Init, Ended
  <2>2. IsFiniteSet({}) /\ Cardinality({}) = 0
    BY FS_EmptySet
  <2> QED
    BY <2>1, <2>2 DEF CountInv
<1>4. ASSUME NEW c \in Clients PROVE Phase(c) /\ Stream(c) /\ Complete(c)
  <2>1. Phase(c)
    BY DEF Init, Phase
  <2>2. send[c] = <<>> /\ wire[c] = <<>> /\ clients = {}
    BY DEF Init
  <2>3. Sent(c) = <<>>
    BY <2>2 DEF Sent
  <2>4. Stream(c)
    BY <2>2, <2>3, ConstantsAssumption DEF Stream, Ordered
  <2> QED
    BY Zenon, <2>1, <2>2, <2>4 DEF Complete
<1> QED
  BY Zenon, <1>1, <1>2, <1>3, <1>4 DEF Inv

\* Every step of the hub, of its clients and of the stream keeps the invariant.
LEMMA InvStep ==
  ASSUME Inv, [Next]_vars
  PROVE  Inv'
<1>1. TypeInv' /\ ChannelInv' /\ CountInv'
  BY Zenon, TypeStep, ChannelStep, CountStep DEF Inv
<1>2. ASSUME NEW c \in Clients PROVE Phase(c)' /\ Stream(c)' /\ Complete(c)'
  BY Zenon, PhaseStep, StreamStep, CompleteStep DEF Inv
<1> QED
  BY Zenon, <1>1, <1>2 DEF Inv

\* The inductive invariant of the hub and its clients (handleWebSocket, its pump and
\* Broadcast): the goroutines of a client tell whether it is in the hub, frames are
\* numbered before the next of their kind, and nothing is on no way at all.
THEOREM HubInvariant == Spec => []Inv
<1>1. Init => Inv
  BY Zenon, InitInv
<1>2. Inv /\ [Next]_vars => Inv'
  BY Zenon, InvStep
<1> QED
  BY <1>1, <1>2, PTL DEF Spec

\* What handleWebSocket, the pump and Broadcast send a client begins with the welcome, is
\* in order and has nothing twice; and nothing of the channel of SubscribeWS is missing
\* while the client is in the hub, unless its queue was full.
THEOREM StreamIsExact == Spec => []StreamExact
<1>1. Inv => StreamExact
  BY Zenon DEF Inv, Stream, Complete, Reaches, StreamExact
<1> QED
  BY <1>1, HubInvariant, PTL

\* WSHub.count is the number of clients less those that remove has discounted twice, by
\* the handler and by the pump.
THEOREM HubCountIsExact == Spec => []HubCount
<1>1. Inv => HubCount
  BY Zenon DEF Inv, CountInv, Ended, HubCount
<1> QED
  BY <1>1, HubInvariant, PTL

=============================================================================
