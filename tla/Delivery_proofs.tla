--------------------------- MODULE Delivery_proofs ---------------------------
(***************************************************************************)
(* Theorems about Delivery, for every set of messages and connections,     *)
(* every size of the identifier space and of the queues, and every Receive *)
(* Maximum.                                                                *)
(***************************************************************************)
EXTENDS Delivery, FiniteSetTheorems, TLAPS

\* What the peer holds carries an identifier, and PUBLISH packets name a
\* message; needed to see that acknowledgements stay inside outFlight.
PacketsOK ==
  /\ \A c \in Conns : \A k \in inbox[c] :
       k.id # 0 /\ (k.type \in {"PUBLISH", "PUBREC"} => k.msg \in Msgs)
  /\ \A c \in Conns : \A i \in DOMAIN writeQ[c] :
       writeQ[c][i].type \in {"PUBLISH", "PUBREC"} => writeQ[c][i].msg \in Msgs

TypeInv == TypeOK /\ PacketsOK

\* The counter of NextPacketID modulo 2^16 stays in range.
LEMMA CounterRange ==
  ASSUME NEW n \in 0 .. (IdSpace - 1)
  PROVE  /\ (n + 1) % IdSpace \in 0 .. (IdSpace - 1)
         /\ (n + 1) % IdSpace = IF n + 1 = IdSpace THEN 0 ELSE n + 1
BY ConstantsAssumption, SMT

\* Appending to and removing from a sequence keeps the type of its elements.
LEMMA SeqFacts ==
  ASSUME NEW S, NEW s \in Seq(S), NEW e \in S
  PROVE  /\ Append(s, e) \in Seq(S)
         /\ s # <<>> => Head(s) \in S /\ Tail(s) \in Seq(S)
         /\ s # <<>> => Len(Tail(s)) = Len(s) - 1
         /\ Len(Append(s, e)) = Len(s) + 1
OBVIOUS

\* The elements of a sequence after Append, Head and Tail.
LEMMA SeqElements ==
  ASSUME NEW S, NEW s \in Seq(S), NEW e \in S
  PROVE  /\ \A i \in DOMAIN Append(s, e) :
              Append(s, e)[i] = e \/ (i \in DOMAIN s /\ Append(s, e)[i] = s[i])
         /\ s # <<>> => 1 \in DOMAIN s /\ Head(s) = s[1]
         /\ s # <<>> => \A i \in DOMAIN Tail(s) :
              i + 1 \in DOMAIN s /\ Tail(s)[i] = s[i + 1]
OBVIOUS

\* Client.enqueue keeps the write queues well formed.
LEMMA EnqueueType ==
  ASSUME TypeInv, NEW c \in Conns, NEW k \in Packets,
         k.type \in {"PUBLISH", "PUBREC"} => k.msg \in Msgs
  PROVE  /\ enqueue(c, k) \in [Conns -> Seq(Packets)]
         /\ \A d \in Conns : \A i \in DOMAIN enqueue(c, k)[d] :
              enqueue(c, k)[d][i].type \in {"PUBLISH", "PUBREC"}
                => enqueue(c, k)[d][i].msg \in Msgs
<1>1. writeQ \in [Conns -> Seq(Packets)]
  BY Zenon DEF TypeInv, TypeOK, ConnTypeOK
<1>2. Append(writeQ[c], k) \in Seq(Packets)
  BY Zenon, <1>1, SeqFacts
<1>3. \A i \in DOMAIN Append(writeQ[c], k) :
        Append(writeQ[c], k)[i] = k
          \/ (i \in DOMAIN writeQ[c] /\ Append(writeQ[c], k)[i] = writeQ[c][i])
  BY <1>1, SeqElements
<1>. QED
  BY Zenon, <1>1, <1>2, <1>3 DEF enqueue, TypeInv, PacketsOK

\* Every step of the broker keeps the types.
LEMMA TypeStep == TypeInv /\ [Next]_vars => TypeInv'
<1>. SUFFICES ASSUME TypeInv, [Next]_vars PROVE TypeInv'
  BY Zenon
<1>. USE ConstantsAssumption
<1>0. SessTypeOK /\ ConnTypeOK /\ ProcTypeOK /\ HistTypeOK /\ PacketsOK
  BY Zenon DEF TypeInv, TypeOK
<1>1. ASSUME NEW c \in Conns, Connect(c) PROVE TypeInv'
  <2>1. SessTypeOK'
    BY Zenon, <1>0, <1>1 DEF Connect, SessTypeOK, sessVars
  <2>2. ConnTypeOK'
    BY Zenon, <1>0, <1>1 DEF Connect, ConnTypeOK, connVars
  <2>3. ProcTypeOK'
    BY Zenon, <1>0, <1>1 DEF Connect, ProcTypeOK, procVars, InCall, HoldsId, Procs
  <2>4. HistTypeOK'
    BY Zenon, <1>0, <1>1 DEF Connect, HistTypeOK, histVars
  <2>5. PacketsOK'
    BY Zenon, <1>0, <1>1 DEF Connect, PacketsOK, connVars
  <2>. QED
    BY Zenon, <2>1, <2>2, <2>3, <2>4, <2>5 DEF TypeInv, TypeOK
<1>2. ASSUME NEW c \in Conns, Subscribe(c) PROVE TypeInv'
  <2>1. SessTypeOK'
    BY Zenon, <1>0, <1>2 DEF Subscribe, SessTypeOK, sessVars
  <2>2. ConnTypeOK'
    BY Zenon, <1>0, <1>2 DEF Subscribe, ConnTypeOK, connVars
  <2>3. ProcTypeOK'
    BY Zenon, <1>0, <1>2 DEF Subscribe, ProcTypeOK, procVars, InCall, HoldsId, Procs
  <2>4. HistTypeOK'
    BY Zenon, <1>0, <1>2 DEF Subscribe, HistTypeOK, histVars
  <2>5. PacketsOK'
    BY Zenon, <1>0, <1>2 DEF Subscribe, PacketsOK, connVars
  <2>. QED
    BY Zenon, <2>1, <2>2, <2>3, <2>4, <2>5 DEF TypeInv, TypeOK
<1>3. ASSUME NEW c \in Conns, restoreSession(c) PROVE TypeInv'
  <2>1. SessTypeOK'
    BY Zenon, <1>0, <1>3 DEF restoreSession, SessTypeOK, sessVars
  <2>2. ConnTypeOK'
    BY Zenon, <1>0, <1>3 DEF restoreSession, ConnTypeOK, connVars
  <2>3. ProcTypeOK'
    BY Zenon, <1>0, <1>3 DEF restoreSession, ProcTypeOK, procVars, InCall, HoldsId, Procs
  <2>4. HistTypeOK'
    BY Zenon, <1>0, <1>3 DEF restoreSession, HistTypeOK, histVars
  <2>5. PacketsOK'
    BY Zenon, <1>0, <1>3 DEF restoreSession, PacketsOK, connVars
  <2>. QED
    BY Zenon, <2>1, <2>2, <2>3, <2>4, <2>5 DEF TypeInv, TypeOK
<1>4. ASSUME NEW c \in Conns, cleanup(c) PROVE TypeInv'
  <2>1. SessTypeOK'
    BY Zenon, <1>0, <1>4 DEF cleanup, SessTypeOK, sessVars
  <2>2. ConnTypeOK'
    BY Zenon, <1>0, <1>4 DEF cleanup, ConnTypeOK, connVars
  <2>3. ProcTypeOK'
    BY Zenon, <1>0, <1>4 DEF cleanup, ProcTypeOK, procVars, InCall, HoldsId, Procs
  <2>4. HistTypeOK'
    BY Zenon, <1>0, <1>4 DEF cleanup, HistTypeOK, histVars
  <2>5. PacketsOK'
    BY Zenon, <1>0, <1>4 DEF cleanup, PacketsOK, connVars
  <2>. QED
    BY Zenon, <2>1, <2>2, <2>3, <2>4, <2>5 DEF TypeInv, TypeOK
<1>5. ASSUME NEW c \in Conns, Write(c) PROVE TypeInv'
  <2>1. writeQ[c] \in Seq(Packets) /\ writeQ[c] # <<>>
    BY Zenon, <1>0, <1>5 DEF ConnTypeOK, Write
  <2>2. Head(writeQ[c]) \in Packets /\ Tail(writeQ[c]) \in Seq(Packets)
    BY <2>1
  <2>3. /\ 1 \in DOMAIN writeQ[c] /\ Head(writeQ[c]) = writeQ[c][1]
        /\ \A i \in DOMAIN Tail(writeQ[c]) :
             i + 1 \in DOMAIN writeQ[c] /\ Tail(writeQ[c])[i] = writeQ[c][i + 1]
    BY <2>1
  <2>4. SessTypeOK'
    BY Zenon, <1>0, <1>5 DEF Write, SessTypeOK, sessVars
  <2>5. ConnTypeOK'
    BY Zenon, <1>0, <1>5, <2>2 DEF Write, ConnTypeOK, connVars
  <2>6. ProcTypeOK'
    BY Zenon, <1>0, <1>5 DEF Write, ProcTypeOK, procVars, InCall, HoldsId, Procs
  <2>7. HistTypeOK'
    BY Zenon, <1>0, <1>5 DEF Write, HistTypeOK, histVars
  <2>8. PacketsOK'
    BY <1>0, <1>5, <2>2, <2>3 DEF Write, PacketsOK, connVars, ConnTypeOK
  <2>. QED
    BY Zenon, <2>4, <2>5, <2>6, <2>7, <2>8 DEF TypeInv, TypeOK
<1>6. ASSUME NEW c \in Conns, WriteError(c) PROVE TypeInv'
  <2>1. writeQ[c] \in Seq(Packets) /\ writeQ[c] # <<>>
    BY Zenon, <1>0, <1>6 DEF ConnTypeOK, WriteError
  <2>2. Tail(writeQ[c]) \in Seq(Packets)
    BY <2>1
  <2>3. \A i \in DOMAIN Tail(writeQ[c]) :
          i + 1 \in DOMAIN writeQ[c] /\ Tail(writeQ[c])[i] = writeQ[c][i + 1]
    BY <2>1
  <2>4. SessTypeOK'
    BY Zenon, <1>0, <1>6 DEF WriteError, SessTypeOK, sessVars
  <2>5. ConnTypeOK'
    BY Zenon, <1>0, <1>6, <2>2 DEF WriteError, ConnTypeOK, connVars
  <2>6. ProcTypeOK'
    BY Zenon, <1>0, <1>6 DEF WriteError, ProcTypeOK, procVars, InCall, HoldsId, Procs
  <2>7. HistTypeOK'
    BY Zenon, <1>0, <1>6 DEF WriteError, HistTypeOK, histVars
  <2>8. PacketsOK'
    BY ZenonT(40), <1>0, <1>6, <2>3 DEF WriteError, PacketsOK, connVars, ConnTypeOK
  <2>. QED
    BY Zenon, <2>4, <2>5, <2>6, <2>7, <2>8 DEF TypeInv, TypeOK
<1>7. ASSUME NEW c \in Conns, handlePuback(c) PROVE TypeInv'
  <2>1. PICK k \in inbox[c] :
          /\ k.type = "PUBLISH" /\ AckOutFlight(k.id)
          /\ inbox' = [inbox EXCEPT ![c] = @ \ {k}]
    BY Zenon, <1>7 DEF handlePuback
  <2>2. k.id \in Ids
    BY <1>0, <2>1 DEF ConnTypeOK, PacketsOK, Packets, Ids
  <2>3. SessTypeOK'
    BY Zenon, <1>0, <1>7, <2>1, <2>2 DEF handlePuback, SessTypeOK, sessVars, AckOutFlight
  <2>4. ConnTypeOK'
    BY Zenon, <1>0, <1>7, <2>1 DEF handlePuback, ConnTypeOK, connVars
  <2>5. ProcTypeOK'
    BY ZenonT(40), <1>0, <1>7 DEF handlePuback, ProcTypeOK, procVars, InCall, HoldsId, Procs
  <2>6. HistTypeOK'
    BY <1>0, <1>7, <2>1, <2>2 DEF handlePuback, HistTypeOK, histVars, AckOutFlight, SessTypeOK, Entries
  <2>7. PacketsOK'
    BY Zenon, <1>0, <1>7, <2>1 DEF handlePuback, PacketsOK, connVars, ConnTypeOK
  <2>. QED
    BY Zenon, <2>3, <2>4, <2>5, <2>6, <2>7 DEF TypeInv, TypeOK
<1>8. ASSUME NEW c \in Conns, handlePubcomp(c) PROVE TypeInv'
  <2>1. PICK k \in inbox[c], r \in inbox[c] :
          /\ k.type = "PUBREC" /\ AckOutFlight(k.id)
          /\ inbox' = [inbox EXCEPT ![c] = @ \ {k, r}]
    BY Zenon, <1>8 DEF handlePubcomp
  <2>2. k.id \in Ids
    BY <1>0, <2>1 DEF ConnTypeOK, PacketsOK, Packets, Ids
  <2>3. SessTypeOK'
    BY Zenon, <1>0, <1>8, <2>1, <2>2 DEF handlePubcomp, SessTypeOK, sessVars, AckOutFlight
  <2>4. ConnTypeOK'
    BY Zenon, <1>0, <1>8, <2>1 DEF handlePubcomp, ConnTypeOK, connVars
  <2>5. ProcTypeOK'
    BY <1>0, <1>8 DEF handlePubcomp, ProcTypeOK, procVars, InCall, HoldsId, Procs
  <2>6. HistTypeOK'
    BY <1>0, <1>8, <2>1, <2>2 DEF handlePubcomp, HistTypeOK, histVars, AckOutFlight, SessTypeOK, Entries
  <2>7. PacketsOK'
    BY Zenon, <1>0, <1>8, <2>1 DEF handlePubcomp, PacketsOK, connVars, ConnTypeOK
  <2>. QED
    BY Zenon, <2>3, <2>4, <2>5, <2>6, <2>7 DEF TypeInv, TypeOK
<1>9. ASSUME NEW c \in Conns, handlePubrec(c) PROVE TypeInv'
  <2>1. PICK k \in inbox[c] :
          /\ k.type = "PUBLISH"
          /\ outFlight' = IF outFlight[k.id] = NoEntry THEN outFlight
                          ELSE [outFlight EXCEPT ![k.id].phase = "QoS2Received"]
          /\ writeQ' = enqueue(c, [type |-> "PUBREL", id |-> k.id, msg |-> NoMsg])
          /\ inbox' = [inbox EXCEPT ![c] = (@ \ {k}) \cup {[k EXCEPT !.type = "PUBREC"]}]
    BY Zenon, <1>9 DEF handlePubrec
  <2>2. k \in Packets /\ k.id \in Ids /\ k.msg \in Msgs
    BY <1>0, <2>1 DEF ConnTypeOK, PacketsOK, Packets, Ids
  <2>3. ASSUME outFlight[k.id] # NoEntry
        PROVE  [outFlight[k.id] EXCEPT !.phase = "QoS2Received"] \in Entries
    BY ZenonT(60), <1>0, <2>2, <2>3 DEF SessTypeOK, Entries, Phases
  <2>4. [type |-> "PUBREL", id |-> k.id, msg |-> NoMsg] \in Packets
    BY Zenon, <2>2 DEF Packets
  <2>5. /\ writeQ' \in [Conns -> Seq(Packets)]
        /\ \A d \in Conns : \A i \in DOMAIN writeQ'[d] :
             writeQ'[d][i].type \in {"PUBLISH", "PUBREC"} => writeQ'[d][i].msg \in Msgs
    BY Zenon, <2>1, <2>4, EnqueueType
  <2>6. /\ [k EXCEPT !.type = "PUBREC"] \in Packets
        /\ [k EXCEPT !.type = "PUBREC"].id \in Ids
        /\ [k EXCEPT !.type = "PUBREC"].msg \in Msgs
    BY Zenon, <2>2 DEF Packets
  <2>7. inbox' \in [Conns -> SUBSET Packets]
    BY ZenonT(40), <1>0, <2>1, <2>6 DEF ConnTypeOK
  <2>8. \A d \in Conns : \A j \in inbox'[d] :
          j \in inbox[d] \/ (j.id \in Ids /\ j.msg \in Msgs)
    BY Zenon, <1>0, <2>1, <2>6 DEF ConnTypeOK
  <2>9. SessTypeOK'
    BY Zenon, <1>0, <1>9, <2>1, <2>2, <2>3 DEF handlePubrec, SessTypeOK, sessVars
  <2>10. ConnTypeOK'
    BY Zenon, <1>0, <1>9, <2>5, <2>7 DEF handlePubrec, ConnTypeOK, connVars
  <2>11. ProcTypeOK'
    BY <1>0, <1>9 DEF handlePubrec, ProcTypeOK, procVars, InCall, HoldsId, Procs
  <2>12. HistTypeOK'
    BY Zenon, <1>0, <1>9 DEF handlePubrec, HistTypeOK, histVars
  <2>13. PacketsOK'
    <3>1. \A d \in Conns : \A j \in inbox'[d] :
            j.id # 0 /\ (j.type \in {"PUBLISH", "PUBREC"} => j.msg \in Msgs)
      BY <1>0, <2>8 DEF PacketsOK, Ids
    <3>. QED
      BY Zenon, <2>5, <3>1 DEF PacketsOK
  <2>. QED
    BY Zenon, <2>9, <2>10, <2>11, <2>12, <2>13 DEF TypeInv, TypeOK
<1>10. ASSUME NEW m \in Msgs, RoutePublish(m) PROVE TypeInv'
  <2>1. SessTypeOK'
    BY Zenon, <1>0, <1>10 DEF RoutePublish, SessTypeOK, sessVars
  <2>2. ConnTypeOK'
    BY Zenon, <1>0, <1>10 DEF RoutePublish, ConnTypeOK, connVars
  <2>3. ProcTypeOK'
    BY <1>0, <1>10 DEF RoutePublish, ProcTypeOK, procVars, InCall, HoldsId, Procs, Goto, ConnTypeOK
  <2>4. HistTypeOK'
    BY Zenon, <1>0, <1>10 DEF RoutePublish, HistTypeOK, histVars
  <2>5. PacketsOK'
    BY Zenon, <1>0, <1>10 DEF RoutePublish, PacketsOK, connVars
  <2>. QED
    BY Zenon, <2>1, <2>2, <2>3, <2>4, <2>5 DEF TypeInv, TypeOK
<1>11. ASSUME NEW p \in Procs, DeliverCheck(p) PROVE TypeInv'
  <2>1. SessTypeOK'
    BY Zenon, <1>0, <1>11 DEF DeliverCheck, SessTypeOK, sessVars
  <2>2. ConnTypeOK'
    BY Zenon, <1>0, <1>11 DEF DeliverCheck, ConnTypeOK, connVars
  <2>3. ProcTypeOK'
    BY Zenon, <1>0, <1>11 DEF DeliverCheck, ProcTypeOK, procVars, InCall, HoldsId, Procs, Goto
  <2>4. HistTypeOK'
    BY Zenon, <1>0, <1>11 DEF DeliverCheck, HistTypeOK, histVars
  <2>5. PacketsOK'
    BY Zenon, <1>0, <1>11 DEF DeliverCheck, PacketsOK, connVars
  <2>. QED
    BY Zenon, <2>1, <2>2, <2>3, <2>4, <2>5 DEF TypeInv, TypeOK
<1>12. ASSUME NEW p \in Procs, NextPacketIDAdd(p) PROVE TypeInv'
  <2>1. /\ (nextPktID + 1) % IdSpace \in 0 .. (IdSpace - 1)
        /\ (IF (nextPktID + 1) % IdSpace = 0 THEN 1 ELSE (nextPktID + 1) % IdSpace) \in Ids
    BY <1>0, CounterRange DEF SessTypeOK, Ids
  <2>2. SessTypeOK'
    BY Zenon, <1>0, <1>12, <2>1 DEF NextPacketIDAdd, SessTypeOK, sessVars
  <2>3. ConnTypeOK'
    BY Zenon, <1>0, <1>12 DEF NextPacketIDAdd, ConnTypeOK, connVars
  <2>4. ProcTypeOK'
    BY <1>0, <1>12, <2>1 DEF NextPacketIDAdd, ProcTypeOK, procVars, InCall, HoldsId, Procs, Goto, Ids
  <2>5. HistTypeOK'
    BY Zenon, <1>0, <1>12 DEF NextPacketIDAdd, HistTypeOK, histVars
  <2>6. PacketsOK'
    BY Zenon, <1>0, <1>12 DEF NextPacketIDAdd, PacketsOK, connVars
  <2>. QED
    BY Zenon, <2>2, <2>3, <2>4, <2>5, <2>6 DEF TypeInv, TypeOK
<1>13. ASSUME NEW p \in Procs, NextPacketIDProbe(p) PROVE TypeInv'
  <2>1. SessTypeOK'
    BY Zenon, <1>0, <1>13 DEF NextPacketIDProbe, SessTypeOK, sessVars
  <2>2. ConnTypeOK'
    BY Zenon, <1>0, <1>13 DEF NextPacketIDProbe, ConnTypeOK, connVars
  <2>3. ProcTypeOK'
    BY Zenon, <1>0, <1>13 DEF NextPacketIDProbe, ProcTypeOK, procVars, InCall, HoldsId, Procs, Goto
  <2>4. HistTypeOK'
    BY Zenon, <1>0, <1>13 DEF NextPacketIDProbe, HistTypeOK, histVars
  <2>5. PacketsOK'
    BY Zenon, <1>0, <1>13 DEF NextPacketIDProbe, PacketsOK, connVars
  <2>. QED
    BY Zenon, <2>1, <2>2, <2>3, <2>4, <2>5 DEF TypeInv, TypeOK
<1>14. ASSUME NEW p \in Procs, AddOutFlightLimited(p) PROVE TypeInv'
  <2>1. SessTypeOK'
    BY Zenon, <1>0, <1>14 DEF AddOutFlightLimited, SessTypeOK, sessVars, ProcTypeOK, InCall, HoldsId, Entries, Phases
  <2>2. ConnTypeOK'
    BY Zenon, <1>0, <1>14 DEF AddOutFlightLimited, ConnTypeOK, connVars
  <2>3. ProcTypeOK'
    BY Zenon, <1>0, <1>14 DEF AddOutFlightLimited, ProcTypeOK, procVars, InCall, HoldsId, Procs, Goto
  <2>4. HistTypeOK'
    BY Zenon, <1>0, <1>14 DEF AddOutFlightLimited, HistTypeOK, histVars
  <2>5. PacketsOK'
    BY Zenon, <1>0, <1>14 DEF AddOutFlightLimited, PacketsOK, connVars
  <2>. QED
    BY Zenon, <2>1, <2>2, <2>3, <2>4, <2>5 DEF TypeInv, TypeOK
<1>15. ASSUME NEW p \in Procs, DeliverSend(p) PROVE TypeInv'
  <2>1. via[p] \in Conns /\ msg[p] \in Msgs /\ pid[p] \in 0 .. (IdSpace - 1)
    BY Zenon, <1>0, <1>15 DEF ProcTypeOK, InCall, DeliverSend
  <2>2. PICK k \in Packets : k.msg \in Msgs /\ writeQ' = enqueue(via[p], k)
    <3>. DEFINE x == IF QoS[msg[p]] = 0 THEN 0 ELSE pid[p]
                k == [type |-> "PUBLISH", id |-> x, msg |-> msg[p]]
    <3>1. writeQ' = enqueue(via[p], k)
      BY Zenon, <1>15 DEF DeliverSend
    <3>0. 0 \in 0 .. (IdSpace - 1)
      BY ConstantsAssumption
    <3>2. x \in 0 .. (IdSpace - 1)
      BY Zenon, <2>1, <3>0
    <3>. HIDE DEF x
    <3>3. k \in Packets /\ k.msg \in Msgs
      BY Zenon, <2>1, <3>2 DEF Packets
    <3>. HIDE DEF k
    <3>. QED
      BY Zenon, <3>1, <3>3
  <2>3. /\ writeQ' \in [Conns -> Seq(Packets)]
        /\ \A d \in Conns : \A i \in DOMAIN writeQ'[d] :
             writeQ'[d][i].type \in {"PUBLISH", "PUBREC"} => writeQ'[d][i].msg \in Msgs
    BY Zenon, <2>1, <2>2, EnqueueType
  <2>4. SessTypeOK'
    BY Zenon, <1>0, <1>15 DEF DeliverSend, SessTypeOK, sessVars
  <2>5. ConnTypeOK'
    BY Zenon, <1>0, <1>15, <2>3 DEF DeliverSend, ConnTypeOK, connVars
  <2>6. ProcTypeOK'
    BY Zenon, <1>0, <1>15 DEF DeliverSend, ProcTypeOK, procVars, InCall, HoldsId, Procs, Return, Goto
  <2>7. HistTypeOK'
    BY <1>0, <1>15 DEF DeliverSend, HistTypeOK, histVars, Gauge
  <2>8. PacketsOK'
    BY Zenon, <1>0, <1>15, <2>3 DEF DeliverSend, PacketsOK, connVars
  <2>. QED
    BY Zenon, <2>4, <2>5, <2>6, <2>7, <2>8 DEF TypeInv, TypeOK
<1>16. ASSUME NEW p \in Procs, Enqueue(p) PROVE TypeInv'
  <2>1. msg[p] \in Msgs /\ queue \in Seq(Msgs) /\ Len(queue) <= MaxQueue
    BY Zenon, <1>0, <1>16 DEF ProcTypeOK, SessTypeOK, InCall, Enqueue
  <2>2. Len(queue) >= MaxQueue =>
          /\ Head(queue) \in Msgs
          /\ Append(Tail(queue), msg[p]) \in Seq(Msgs)
          /\ Len(Append(Tail(queue), msg[p])) <= MaxQueue
    BY <2>1
  <2>3. Len(queue) < MaxQueue =>
          /\ Append(queue, msg[p]) \in Seq(Msgs)
          /\ Len(Append(queue, msg[p])) <= MaxQueue
    BY <2>1
  <2>4. SessTypeOK'
    <3>1. \/ queue' = queue
          \/ Len(queue) >= MaxQueue /\ queue' = Append(Tail(queue), msg[p])
          \/ ~(Len(queue) >= MaxQueue) /\ queue' = Append(queue, msg[p])
      BY <1>16, Zenon DEF Enqueue
    <3>2. queue' \in Seq(Msgs) /\ Len(queue') <= MaxQueue
      <4>1. CASE queue' = queue
        BY Zenon, <2>1, <4>1
      <4>2. CASE Len(queue) >= MaxQueue /\ queue' = Append(Tail(queue), msg[p])
        BY Zenon, <2>2, <4>2
      <4>3. CASE ~(Len(queue) >= MaxQueue) /\ queue' = Append(queue, msg[p])
        <5>1. Len(queue) < MaxQueue
          BY <2>1, <4>3
        <5>. QED
          BY Zenon, <2>3, <4>3, <5>1
      <4>. QED
        BY Zenon, <3>1, <4>1, <4>2, <4>3
    <3>. QED
      BY Zenon, <1>0, <1>16, <3>2 DEF Enqueue, SessTypeOK
  <2>5. ConnTypeOK'
    BY Zenon, <1>0, <1>16 DEF Enqueue, ConnTypeOK, connVars
  <2>6. ProcTypeOK'
    BY Zenon, <1>0, <1>16 DEF Enqueue, ProcTypeOK, procVars, InCall, HoldsId, Procs, Return, Goto
  <2>7. HistTypeOK'
    BY SMTT(20), <1>0, <1>16, <2>1, <2>2 DEF Enqueue, HistTypeOK, histVars, Gauge
  <2>8. PacketsOK'
    BY Zenon, <1>0, <1>16 DEF Enqueue, PacketsOK, connVars
  <2>. QED
    BY Zenon, <2>4, <2>5, <2>6, <2>7, <2>8 DEF TypeInv, TypeOK
<1>17. ASSUME NEW c \in Conns, DrainQueue(c) PROVE TypeInv'
  <2>1. SessTypeOK'
    BY <1>0, <1>17 DEF DrainQueue, SessTypeOK, sessVars
  <2>2. ConnTypeOK'
    BY Zenon, <1>0, <1>17 DEF DrainQueue, ConnTypeOK, connVars
  <2>3. ProcTypeOK'
    BY Zenon, <1>0, <1>17 DEF DrainQueue, ProcTypeOK, procVars, InCall, HoldsId, Procs, Goto, SessTypeOK
  <2>4. HistTypeOK'
    BY Zenon, <1>0, <1>17 DEF DrainQueue, HistTypeOK, histVars
  <2>5. PacketsOK'
    BY Zenon, <1>0, <1>17 DEF DrainQueue, PacketsOK, connVars
  <2>. QED
    BY Zenon, <2>1, <2>2, <2>3, <2>4, <2>5 DEF TypeInv, TypeOK
<1>18. ASSUME NEW c \in Conns, DrainNext(c) PROVE TypeInv'
  <2>1. drainBuf[c] \in Seq(Msgs)
    BY Zenon, <1>0 DEF ProcTypeOK
  <2>2. drainBuf[c] # <<>> => Head(drainBuf[c]) \in Msgs /\ Tail(drainBuf[c]) \in Seq(Msgs)
    BY <2>1
  <2>3. SessTypeOK'
    BY Zenon, <1>0, <1>18 DEF DrainNext, SessTypeOK, sessVars
  <2>4. ConnTypeOK'
    BY Zenon, <1>0, <1>18 DEF DrainNext, ConnTypeOK, connVars
  <2>5. ProcTypeOK'
    <3>1. CASE drainBuf[c] = <<>>
      BY ZenonT(40), <1>0, <1>18, <3>1 DEF DrainNext, ProcTypeOK, InCall, HoldsId, Procs, Goto
    <3>2. CASE drainBuf[c] # <<>>
      <4>1. /\ pc' = [pc EXCEPT ![c] = "call"]
            /\ msg' = [msg EXCEPT ![c] = Head(drainBuf[c])]
            /\ via' = [via EXCEPT ![c] = c]
            /\ drainBuf' = [drainBuf EXCEPT ![c] = Tail(drainBuf[c])]
            /\ pid' = pid
        BY Zenon, <1>18, <3>2 DEF DrainNext, Goto
      <4>2. c \in Procs /\ c \notin Msgs /\ Head(drainBuf[c]) \in Msgs
            /\ Tail(drainBuf[c]) \in Seq(Msgs)
        BY Zenon, <2>2, <3>2 DEF Procs
      <4>. QED
        BY <1>0, <4>1, <4>2 DEF ProcTypeOK, InCall, HoldsId
    <3>. QED
      BY Zenon, <3>1, <3>2
  <2>6. HistTypeOK'
    BY Zenon, <1>0, <1>18 DEF DrainNext, HistTypeOK, histVars
  <2>7. PacketsOK'
    BY Zenon, <1>0, <1>18 DEF DrainNext, PacketsOK, connVars
  <2>. QED
    BY Zenon, <2>3, <2>4, <2>5, <2>6, <2>7 DEF TypeInv, TypeOK
<1>19. CASE UNCHANGED vars
  BY Zenon, <1>0, <1>19 DEF TypeInv, TypeOK, SessTypeOK, sessVars, ConnTypeOK, connVars, ProcTypeOK, procVars, InCall, HoldsId, Procs, HistTypeOK, histVars, PacketsOK, vars
<1>. QED
  BY Zenon, <1>1, <1>2, <1>3, <1>4, <1>5, <1>6, <1>7, <1>8, <1>9, <1>10, <1>11, <1>12, <1>13, <1>14, <1>15, <1>16, <1>17, <1>18, <1>19 DEF Next, DeliverStep, DrainStep

\* The initial state, an empty session without connections, has the right types.
LEMMA InitType == Init => TypeInv
<1>. SUFFICES ASSUME Init PROVE TypeInv
  BY Zenon
<1>0. <<>> \in Seq(Msgs) /\ Len(<<>>) = 0
  OBVIOUS
<1>1. SessTypeOK /\ HistTypeOK
  <2>1. nextPktID \in 0 .. (IdSpace - 1) /\ Len(queue) <= MaxQueue /\ queue \in Seq(Msgs)
    BY ConstantsAssumption, <1>0 DEF Init
  <2>2. outFlight \in [Ids -> Entries \cup {NoEntry}]
    BY Zenon DEF Init
  <2>3. HistTypeOK
    <3>1. offlineQueued \in Int
      BY DEF Init
    <3>2. acked \in SUBSET Msgs /\ overflowed \in SUBSET Msgs /\ wrapped \in BOOLEAN
      BY Zenon DEF Init
    <3>. QED
      BY Zenon, <3>1, <3>2 DEF HistTypeOK
  <2>. QED
    BY Zenon, <2>1, <2>2, <2>3 DEF SessTypeOK
<1>2. ConnTypeOK /\ PacketsOK
  BY ConstantsAssumption DEF Init, ConnTypeOK, PacketsOK
<1>3. ProcTypeOK
  BY ConstantsAssumption DEF Init, ProcTypeOK, InCall, HoldsId, Procs
<1>. QED
  BY Zenon, <1>1, <1>2, <1>3 DEF TypeInv, TypeOK

\* The type invariant: whatever the sizes and the interleaving, identifiers
\* handed out by NextPacketID are never 0 and fit, and the offline queue never
\* exceeds maxQueue.
THEOREM TypeCorrect == Spec => []TypeOK
<1>1. Init => TypeInv
  BY Zenon, InitType
<1>2. TypeInv /\ [Next]_vars => TypeInv'
  BY Zenon, TypeStep
<1>3. TypeInv => TypeOK
  BY Zenon DEF TypeInv
<1>. QED
  BY <1>1, <1>2, <1>3, PTL DEF Spec

-----------------------------------------------------------------------------
(* Until the counter wraps, identifiers are handed out in increasing order:  *)
(* everything in use or in a caller's hands is at most nextPktID.            *)

IdInv ==
  ~wrapped =>
    /\ \A i \in Ids : outFlight[i] # NoEntry => i <= nextPktID
    /\ \A p \in Procs : HoldsId(p) => pid[p] <= nextPktID /\ outFlight[pid[p]] = NoEntry
    /\ \A p, q \in Procs : HoldsId(p) /\ HoldsId(q) /\ p # q => pid[p] # pid[q]

\* A packet that the peer of its connection still has to acknowledge.
Awaits(k) == k.id # 0 /\ k.type # "PUBREL"

\* Process p has stored its message in outFlight and not yet enqueued it.
Stored(p) == pc[p] = "send" /\ QoS[msg[p]] > 0

\* The entry of outFlight under id i is message m, sent on connection c.
EntryIs(i, m, c) ==
  i \in Ids /\ outFlight[i] # NoEntry /\ outFlight[i].msg = m /\ outFlight[i].conn = c

\* Every step of a deliver call, a drain or a connection keeps the identifiers of one
\* round of NextPacketID apart.
LEMMA IdStep == TypeInv /\ IdInv /\ [Next]_vars => IdInv'
<1>. SUFFICES ASSUME TypeInv, IdInv, [Next]_vars PROVE IdInv'
  BY Zenon
<1>0. SessTypeOK /\ ConnTypeOK /\ ProcTypeOK /\ PacketsOK /\ wrapped \in BOOLEAN
  BY Zenon DEF TypeInv, TypeOK, HistTypeOK
\* Most steps hand out no identifier and store no entry.
<1>frame. ASSUME UNCHANGED <<nextPktID, wrapped, pid>>,
                 \A i \in Ids : outFlight'[i] # NoEntry => outFlight[i] # NoEntry,
                 \A p \in Procs : HoldsId(p)' => HoldsId(p)
          PROVE  IdInv'
  BY Zenon, <1>0, <1>frame DEF IdInv, ProcTypeOK
<1>1. ASSUME NEW c \in Conns,
             \/ Connect(c) \/ Subscribe(c) \/ restoreSession(c) \/ cleanup(c)
             \/ Write(c) \/ WriteError(c) \/ DrainQueue(c) \/ DrainNext(c)
      PROVE  IdInv'
  <2>1. UNCHANGED <<nextPktID, wrapped, pid, outFlight>>
    BY Zenon, <1>1 DEF Connect, Subscribe, restoreSession, cleanup, Write, WriteError,
         DrainQueue, DrainNext, sessVars, procVars, histVars
  <2>2. \A p \in Procs : HoldsId(p)' => HoldsId(p)
    BY Zenon, <1>0, <1>1 DEF Connect, Subscribe, restoreSession, cleanup, Write, WriteError,
         DrainQueue, DrainNext, procVars, Goto, HoldsId, ProcTypeOK
  <2>. QED
    BY Zenon, <1>frame, <2>1, <2>2
<1>2. ASSUME NEW c \in Conns, handlePuback(c) \/ handlePubrec(c) \/ handlePubcomp(c)
      PROVE  IdInv'
  <2>1. UNCHANGED <<nextPktID, wrapped, pid, pc>>
    BY Zenon, <1>2 DEF handlePuback, handlePubrec, handlePubcomp, procVars, histVars
  <2>2. \A i \in Ids : outFlight'[i] # NoEntry => outFlight[i] # NoEntry
    BY Zenon, <1>0, <1>2 DEF handlePuback, handlePubrec, handlePubcomp, AckOutFlight, SessTypeOK
  <2>. QED
    BY Zenon, <1>frame, <2>1, <2>2 DEF HoldsId
<1>3. ASSUME NEW m \in Msgs, RoutePublish(m) PROVE IdInv'
  BY Zenon, <1>0, <1>3, <1>frame DEF RoutePublish, sessVars, histVars, Goto, HoldsId, ProcTypeOK, Procs
<1>4. ASSUME NEW p \in Procs,
             DeliverCheck(p) \/ NextPacketIDProbe(p) \/ DeliverSend(p) \/ Enqueue(p)
      PROVE  IdInv'
  <2>1. UNCHANGED <<nextPktID, wrapped, pid, outFlight>>
    BY Zenon, <1>4 DEF DeliverCheck, NextPacketIDProbe, DeliverSend, Enqueue, sessVars, histVars
  <2>2. \A q \in Procs : HoldsId(q)' => HoldsId(q)
    BY Zenon, <1>0, <1>4 DEF DeliverCheck, NextPacketIDProbe, DeliverSend, Enqueue, Return,
         Goto, HoldsId, ProcTypeOK
  <2>. QED
    BY Zenon, <1>frame, <2>1, <2>2
\* The increment: the new identifier is larger than all others, or the counter
\* has wrapped.
<1>5. ASSUME NEW p \in Procs, NextPacketIDAdd(p) PROVE IdInv'
  <2>. SUFFICES ASSUME ~wrapped' PROVE IdInv'
    BY Zenon DEF IdInv
  <2>1. ~wrapped /\ (nextPktID + 1) % IdSpace # 0
    BY <1>5, Zenon DEF NextPacketIDAdd
  <2>2. (nextPktID + 1) % IdSpace = nextPktID + 1 /\ nextPktID + 1 \in Ids
    BY <1>0, <2>1, CounterRange, ConstantsAssumption DEF SessTypeOK, Ids
  <2>3. /\ nextPktID' = nextPktID + 1
        /\ pid' = [pid EXCEPT ![p] = nextPktID + 1]
        /\ pc' = [pc EXCEPT ![p] = "probe"]
        /\ outFlight' = outFlight
    BY Zenon, <1>5, <2>1, <2>2 DEF NextPacketIDAdd, Goto
  <2>4. \A i \in Ids : outFlight[i] # NoEntry => i <= nextPktID
    BY Zenon, <2>1 DEF IdInv
  <2>5. nextPktID \in Nat /\ \A i \in Ids : i \in Nat
    BY <1>0, ConstantsAssumption DEF SessTypeOK, Ids
  <2>6. outFlight[nextPktID + 1] = NoEntry
    BY <2>2, <2>4, <2>5
  <2>7. \A q \in Procs : q # p /\ HoldsId(q)' => HoldsId(q) /\ pid'[q] = pid[q] /\ pid[q] \in Ids
    BY Zenon, <1>0, <2>3 DEF HoldsId, ProcTypeOK
  <2>8. pid'[p] = nextPktID + 1
    BY Zenon, <1>0, <2>3 DEF ProcTypeOK
  <2>9. \A q \in Procs : HoldsId(q) => pid[q] <= nextPktID /\ outFlight[pid[q]] = NoEntry
    BY Zenon, <2>1 DEF IdInv
  <2>10. \A i \in Ids : outFlight'[i] # NoEntry => i <= nextPktID'
    BY <2>3, <2>4, <2>5
  <2>11. \A q \in Procs : HoldsId(q)' => pid'[q] <= nextPktID' /\ outFlight'[pid'[q]] = NoEntry
    BY <2>3, <2>5, <2>6, <2>7, <2>8, <2>9
  <2>12. \A q, r \in Procs : HoldsId(q) /\ HoldsId(r) /\ q # r => pid[q] # pid[r]
    BY Zenon, <2>1 DEF IdInv
  <2>13. \A q, r \in Procs : HoldsId(q)' /\ HoldsId(r)' /\ q # r => pid'[q] # pid'[r]
    BY <2>5, <2>7, <2>8, <2>9, <2>12
  <2>. QED
    BY Zenon, <2>10, <2>11, <2>13 DEF IdInv
\* The caller stores under its own identifier and gives it up.
<1>6. ASSUME NEW p \in Procs, AddOutFlightLimited(p) PROVE IdInv'
  <2>. SUFFICES ASSUME ~wrapped' PROVE IdInv'
    BY Zenon DEF IdInv
  <2>1. ~wrapped /\ UNCHANGED <<nextPktID, pid>> /\ pc[p] = "add"
    BY <1>6, Zenon DEF AddOutFlightLimited, histVars
  <2>2. HoldsId(p) /\ pid[p] \in Ids
    BY Zenon, <1>0, <2>1 DEF HoldsId, ProcTypeOK
  <2>3. \A i \in Ids : i # pid[p] => outFlight'[i] = outFlight[i]
    BY Zenon, <1>0, <1>6 DEF AddOutFlightLimited, SessTypeOK
  <2>4. \A q \in Procs : HoldsId(q)' => HoldsId(q) /\ q # p /\ pid[q] \in Ids
    BY Zenon, <1>0, <1>6 DEF AddOutFlightLimited, Goto, HoldsId, ProcTypeOK
  <2>. QED
    BY Zenon, <2>1, <2>2, <2>3, <2>4 DEF IdInv
<1>7. CASE UNCHANGED vars
  BY Zenon, <1>7, <1>frame DEF vars, sessVars, procVars, histVars, HoldsId
<1>. QED
  BY Zenon, <1>1, <1>2, <1>3, <1>4, <1>5, <1>6, <1>7 DEF Next, DeliverStep, DrainStep

\* Nothing is handed out initially.
LEMMA IdInit == Init => IdInv
<1> SUFFICES ASSUME Init PROVE IdInv
  OBVIOUS
<1>1. \A i \in Ids : outFlight[i] = NoEntry
  BY Zenon DEF Init
<1>2. \A p \in Procs : pc[p] = "idle"
  BY Zenon DEF Init
<1>3. \A p \in Procs : ~HoldsId(p)
  BY <1>2 DEF HoldsId
<1> QED BY Zenon, <1>1, <1>3 DEF IdInv

\* For every number of concurrent deliver calls: as long as the 16-bit counter
\* has not wrapped, NextPacketID followed by AddOutFlightLimited never reuses an
\* identifier although nothing is reserved between the two.
THEOREM IdsUnique == Spec => []UniqueUntilWrap
<1>1. Init => TypeInv /\ IdInv
  BY Zenon, InitType, IdInit
<1>2. TypeInv /\ IdInv /\ [Next]_vars => (TypeInv /\ IdInv)'
  BY Zenon, TypeStep, IdStep
<1>3. IdInv => UniqueUntilWrap
  BY Zenon DEF IdInv, UniqueUntilWrap, UnusedId, HoldsId
<1>. QED
  BY <1>1, <1>2, <1>3, PTL DEF Spec

-----------------------------------------------------------------------------
\* What the flow-control invariants say of the packets of connection c, with
\* its peer's inbox b and write queue w.
EntriesExist(c, b, w) ==
  /\ \A k \in b : Awaits(k) => EntryIs(k.id, k.msg, c)
  /\ \A i \in DOMAIN w : Awaits(w[i]) => EntryIs(w[i].id, w[i].msg, c)

EntriesDistinct(b, w) ==
  /\ \A j, k \in b : Awaits(j) /\ Awaits(k) /\ j.id = k.id => j = k
  /\ \A i, j \in DOMAIN w : Awaits(w[i]) /\ Awaits(w[j]) /\ w[i].id = w[j].id => i = j
  /\ \A k \in b, i \in DOMAIN w : Awaits(k) /\ Awaits(w[i]) => k.id # w[i].id

\* No packet of the connection uses identifier x.
Unsent(x, b, w) ==
  /\ \A k \in b : Awaits(k) => k.id # x
  /\ \A i \in DOMAIN w : Awaits(w[i]) => w[i].id # x

FlowFacts ==
  /\ \A c \in Conns : EntriesExist(c, inbox[c], writeQ[c])
  /\ \A c \in Conns : EntriesDistinct(inbox[c], writeQ[c])
  /\ \A p \in Procs : Stored(p) =>
       EntryIs(pid[p], msg[p], via[p]) /\ Unsent(pid[p], inbox[via[p]], writeQ[via[p]])
  /\ \A p, q \in Procs : Stored(p) /\ Stored(q) /\ p # q => pid[p] # pid[q]

FlowInv == ~wrapped => FlowFacts

\* enqueue: a packet appended to the write queue.
LEMMA AppendFlow ==
  ASSUME NEW c, NEW b, NEW w \in Seq(Packets), NEW k \in Packets,
         EntriesExist(c, b, w), EntriesDistinct(b, w),
         Awaits(k) => EntryIs(k.id, k.msg, c) /\ Unsent(k.id, b, w)
  PROVE  /\ EntriesExist(c, b, Append(w, k))
         /\ EntriesDistinct(b, Append(w, k))
         /\ \A x : Unsent(x, b, w) /\ (Awaits(k) => x # k.id) => Unsent(x, b, Append(w, k))
<1>1. \A i \in DOMAIN Append(w, k) :
        \/ i = Len(w) + 1 /\ Append(w, k)[i] = k
        \/ i \in DOMAIN w /\ Append(w, k)[i] = w[i]
  BY SMTT(20)
<1>2. EntriesExist(c, b, Append(w, k))
  BY Zenon, <1>1 DEF EntriesExist
<1>3. EntriesDistinct(b, Append(w, k))
  BY Zenon, <1>1 DEF EntriesDistinct, Unsent
<1>4. \A x : Unsent(x, b, w) /\ (Awaits(k) => x # k.id) => Unsent(x, b, Append(w, k))
  BY Zenon, <1>1 DEF Unsent
<1>. QED
  BY Zenon, <1>2, <1>3, <1>4

\* writeLoop: the first packet leaves the write queue, for the peer or for good.
LEMMA TailFlow ==
  ASSUME NEW c, NEW b, NEW w \in Seq(Packets), w # <<>>, NEW d, d \subseteq {Head(w)},
         EntriesExist(c, b, w), EntriesDistinct(b, w)
  PROVE  /\ EntriesExist(c, b \cup d, Tail(w))
         /\ EntriesDistinct(b \cup d, Tail(w))
         /\ \A x : Unsent(x, b, w) => Unsent(x, b \cup d, Tail(w))
<1>1. \A i \in DOMAIN Tail(w) : i \in Nat /\ i # 0 /\ i + 1 \in DOMAIN w /\ Tail(w)[i] = w[i + 1]
  OBVIOUS
<1>2. 1 \in DOMAIN w /\ \A k \in d : k = w[1]
  OBVIOUS
<1>3. EntriesExist(c, b \cup d, Tail(w))
  BY Zenon, <1>1, <1>2 DEF EntriesExist
<1>4. EntriesDistinct(b \cup d, Tail(w))
  <2>1. \A j, k \in b \cup d : Awaits(j) /\ Awaits(k) /\ j.id = k.id => j = k
    BY Zenon, <1>2 DEF EntriesDistinct
  <2>2. \A i, j \in DOMAIN Tail(w) :
          Awaits(Tail(w)[i]) /\ Awaits(Tail(w)[j]) /\ Tail(w)[i].id = Tail(w)[j].id => i = j
    <3>1. \A i, j \in DOMAIN Tail(w) :
            Awaits(Tail(w)[i]) /\ Awaits(Tail(w)[j]) /\ Tail(w)[i].id = Tail(w)[j].id
              => i + 1 = j + 1
      BY Zenon, <1>1 DEF EntriesDistinct
    <3>. QED
      BY <1>1, <3>1
  <2>3. \A k \in b \cup d, i \in DOMAIN Tail(w) :
          Awaits(k) /\ Awaits(Tail(w)[i]) => k.id # Tail(w)[i].id
    <3>1. \A i \in DOMAIN Tail(w) : i + 1 # 1
      BY <1>1
    <3>. QED
      BY Zenon, <1>1, <1>2, <3>1 DEF EntriesDistinct
  <2>. QED
    BY Zenon, <2>1, <2>2, <2>3 DEF EntriesDistinct
<1>5. \A x : Unsent(x, b, w) => Unsent(x, b \cup d, Tail(w))
  BY Zenon, <1>1, <1>2 DEF Unsent
<1>. QED
  BY Zenon, <1>3, <1>4, <1>5

\* Steps that touch no packet, remove no entry and store none.
LEMMA FlowFrame ==
  ASSUME FlowFacts, UNCHANGED <<inbox, writeQ, outFlight>>,
         \A p \in Procs : Stored(p)' =>
           Stored(p) /\ pid'[p] = pid[p] /\ msg'[p] = msg[p] /\ via'[p] = via[p]
  PROVE  FlowFacts'
<1>inv. /\ \A d \in Conns : EntriesExist(d, inbox[d], writeQ[d])
        /\ \A d \in Conns : EntriesDistinct(inbox[d], writeQ[d])
        /\ \A q \in Procs : Stored(q) =>
             EntryIs(pid[q], msg[q], via[q]) /\ Unsent(pid[q], inbox[via[q]], writeQ[via[q]])
        /\ \A q, r \in Procs : Stored(q) /\ Stored(r) /\ q # r => pid[q] # pid[r]
  BY Zenon DEF FlowFacts
<1>1. \A i, m, c : EntryIs(i, m, c)' <=> EntryIs(i, m, c)
  BY Zenon DEF EntryIs
<1>2. \A c \in Conns : EntriesExist(c, inbox[c], writeQ[c])'
  BY Zenon, <1>inv, <1>1 DEF EntriesExist, Awaits
<1>3. \A c \in Conns : EntriesDistinct(inbox[c], writeQ[c])'
  BY ZenonT(40), <1>inv DEF EntriesDistinct, Awaits
<1>4. \A p \in Procs : Stored(p)' =>
        /\ EntryIs(pid[p], msg[p], via[p])'
        /\ Unsent(pid[p], inbox[via[p]], writeQ[via[p]])'
  <2>. SUFFICES ASSUME NEW p \in Procs, Stored(p)'
                PROVE  /\ EntryIs(pid[p], msg[p], via[p])'
                       /\ Unsent(pid[p], inbox[via[p]], writeQ[via[p]])'
    BY Zenon
  <2>1. Stored(p) /\ pid'[p] = pid[p] /\ msg'[p] = msg[p] /\ via'[p] = via[p]
    BY Zenon
  <2>2. EntryIs(pid[p], msg[p], via[p]) /\ Unsent(pid[p], inbox[via[p]], writeQ[via[p]])
    BY Zenon, <1>inv, <2>1
  <2>3. EntryIs(pid[p], msg[p], via[p])'
    BY Zenon, <2>1, <2>2 DEF EntryIs
  <2>4. Unsent(pid[p], inbox[via[p]], writeQ[via[p]])'
    BY Zenon, <2>1, <2>2 DEF Unsent, Awaits
  <2>. QED
    BY Zenon, <2>3, <2>4
<1>5. \A p, q \in Procs : Stored(p)' /\ Stored(q)' /\ p # q => pid'[p] # pid'[q]
  BY Zenon, <1>inv
<1>. QED
  BY Zenon, <1>2, <1>3, <1>4, <1>5 DEF FlowFacts

\* Steps that move packets of one connection and keep the entries.
LEMMA FlowMove ==
  ASSUME TypeInv, FlowFacts, NEW c \in Conns, NEW b, NEW w, UNCHANGED <<pid, msg, via>>,
         inbox' = [inbox EXCEPT ![c] = b], writeQ' = [writeQ EXCEPT ![c] = w],
         \A i, m, d : EntryIs(i, m, d) => EntryIs(i, m, d)',
         EntriesExist(c, b, w), EntriesDistinct(b, w),
         \A p \in Procs : Stored(p)' =>
           Stored(p) /\ (via[p] = c => Unsent(pid[p], b, w))
  PROVE  FlowFacts'
<1>0. SessTypeOK /\ ConnTypeOK /\ ProcTypeOK /\ PacketsOK
  BY Zenon DEF TypeInv, TypeOK
<1>inv. /\ \A d \in Conns : EntriesExist(d, inbox[d], writeQ[d])
        /\ \A d \in Conns : EntriesDistinct(inbox[d], writeQ[d])
        /\ \A q \in Procs : Stored(q) =>
             EntryIs(pid[q], msg[q], via[q]) /\ Unsent(pid[q], inbox[via[q]], writeQ[via[q]])
        /\ \A q, r \in Procs : Stored(q) /\ Stored(r) /\ q # r => pid[q] # pid[r]
  BY Zenon DEF FlowFacts
<1>1. inbox'[c] = b /\ writeQ'[c] = w
      /\ \A d \in Conns : d # c => inbox'[d] = inbox[d] /\ writeQ'[d] = writeQ[d]
  BY Zenon, <1>0 DEF ConnTypeOK
<1>2. \A d \in Conns : EntriesExist(d, inbox[d], writeQ[d])'
  <2>. SUFFICES ASSUME NEW d \in Conns PROVE EntriesExist(d, inbox[d], writeQ[d])'
    BY Zenon
  <2>1. EntriesExist(d, inbox'[d], writeQ'[d])
    BY Zenon, <1>inv, <1>1
  <2>. QED
    BY Zenon, <2>1 DEF EntriesExist, Awaits
<1>3. \A d \in Conns : EntriesDistinct(inbox[d], writeQ[d])'
  <2>. SUFFICES ASSUME NEW d \in Conns PROVE EntriesDistinct(inbox[d], writeQ[d])'
    BY Zenon
  <2>1. EntriesDistinct(inbox'[d], writeQ'[d])
    BY Zenon, <1>inv, <1>1
  <2>. QED
    BY Zenon, <2>1 DEF EntriesDistinct, Awaits
<1>4. \A p \in Procs : Stored(p) => via[p] \in Conns
  BY Zenon, <1>0 DEF Stored, ProcTypeOK, InCall
<1>5. \A p \in Procs : Stored(p)' =>
        /\ EntryIs(pid[p], msg[p], via[p])'
        /\ Unsent(pid[p], inbox[via[p]], writeQ[via[p]])'
  <2>. SUFFICES ASSUME NEW p \in Procs, Stored(p)'
                PROVE  /\ EntryIs(pid[p], msg[p], via[p])'
                       /\ Unsent(pid[p], inbox[via[p]], writeQ[via[p]])'
    BY Zenon
  <2>1. Stored(p) /\ (via[p] = c => Unsent(pid[p], b, w)) /\ via[p] \in Conns
    BY Zenon, <1>4
  <2>2. EntryIs(pid[p], msg[p], via[p]) /\ Unsent(pid[p], inbox[via[p]], writeQ[via[p]])
    BY Zenon, <1>inv, <2>1
  <2>3. EntryIs(pid[p], msg[p], via[p])'
    <3>1. pid'[p] = pid[p] /\ msg'[p] = msg[p] /\ via'[p] = via[p]
      BY Zenon
    <3>2. \A i, m, d : EntryIs(i, m, d) =>
            i \in Ids /\ outFlight'[i] # NoEntry /\ outFlight'[i].msg = m /\ outFlight'[i].conn = d
      BY Zenon DEF EntryIs
    <3>. QED
      BY Zenon, <2>2, <3>1, <3>2 DEF EntryIs
  <2>4. Unsent(pid[p], inbox'[via[p]], writeQ'[via[p]])
    BY Zenon, <1>1, <2>1, <2>2
  <2>5. Unsent(pid[p], inbox[via[p]], writeQ[via[p]])'
    BY Zenon, <2>4 DEF Unsent, Awaits
  <2>. QED
    BY Zenon, <2>3, <2>5
<1>6. \A p, q \in Procs : Stored(p)' /\ Stored(q)' /\ p # q => pid'[p] # pid'[q]
  BY Zenon, <1>inv
<1>. QED
  BY Zenon, <1>2, <1>3, <1>5, <1>6 DEF FlowFacts

\* CONNECT, SUBSCRIBE, restoreSession, cleanup and the drain touch no packet.
LEMMA FlowConn ==
  ASSUME TypeInv, FlowFacts, NEW c \in Conns,
         \/ Connect(c) \/ Subscribe(c) \/ restoreSession(c) \/ cleanup(c)
         \/ DrainQueue(c) \/ DrainNext(c)
  PROVE  FlowFacts'
<1>0. SessTypeOK /\ ConnTypeOK /\ ProcTypeOK /\ PacketsOK
  BY Zenon DEF TypeInv, TypeOK
<1>1. UNCHANGED <<inbox, writeQ, outFlight>>
  BY Zenon DEF Connect, Subscribe, restoreSession, cleanup, DrainQueue, DrainNext,
       sessVars, connVars
<1>2. \A p \in Procs : Stored(p)' =>
        Stored(p) /\ pid'[p] = pid[p] /\ msg'[p] = msg[p] /\ via'[p] = via[p]
  BY Zenon, <1>0 DEF Connect, Subscribe, restoreSession, cleanup, DrainQueue, DrainNext,
       procVars, Goto, Stored, ProcTypeOK
<1>. QED
  BY Zenon, FlowFrame, <1>1, <1>2

\* A publisher that calls the closure has sent nothing yet.
LEMMA FlowRoute ==
  ASSUME TypeInv, FlowFacts, NEW m \in Msgs, RoutePublish(m)
  PROVE  FlowFacts'
<1>0. SessTypeOK /\ ConnTypeOK /\ ProcTypeOK /\ PacketsOK
  BY Zenon DEF TypeInv, TypeOK
<1>. QED
  BY Zenon, <1>0, FlowFrame
     DEF RoutePublish, sessVars, connVars, Goto, Stored, ProcTypeOK, Procs

\* A deliver call before AddOutFlightLimited, or ending in the offline queue.
LEMMA FlowCall ==
  ASSUME TypeInv, FlowFacts, NEW p \in Procs,
         \/ DeliverCheck(p) \/ NextPacketIDAdd(p) \/ NextPacketIDProbe(p) \/ Enqueue(p)
  PROVE  FlowFacts'
<1>0. SessTypeOK /\ ConnTypeOK /\ ProcTypeOK /\ PacketsOK
  BY Zenon DEF TypeInv, TypeOK
<1>1. UNCHANGED <<inbox, writeQ, outFlight>>
  BY Zenon DEF DeliverCheck, NextPacketIDAdd, NextPacketIDProbe, Enqueue, sessVars, connVars
<1>2. \A q \in Procs : Stored(q)' =>
        Stored(q) /\ pid'[q] = pid[q] /\ msg'[q] = msg[q] /\ via'[q] = via[q]
  <2>1. CASE DeliverCheck(p)
    BY <1>0, <2>1 DEF DeliverCheck, Return, Goto, Stored, ProcTypeOK
  <2>2. CASE NextPacketIDAdd(p)
    BY Zenon, <1>0, <2>2 DEF NextPacketIDAdd, Goto, Stored, ProcTypeOK
  <2>3. CASE NextPacketIDProbe(p)
    BY Zenon, <1>0, <2>3 DEF NextPacketIDProbe, Goto, Stored, ProcTypeOK
  <2>4. CASE Enqueue(p)
    BY Zenon, <1>0, <2>4 DEF Enqueue, Return, Goto, Stored, ProcTypeOK
  <2>. QED
    BY Zenon, <2>1, <2>2, <2>3, <2>4
<1>. QED
  BY Zenon, FlowFrame, <1>1, <1>2

\* AddOutFlightLimited finds its identifier free, so every other entry stays and
\* no packet uses the identifier.
LEMMA FlowAdd ==
  ASSUME TypeInv, IdInv, ~wrapped, FlowFacts, NEW p \in Procs, AddOutFlightLimited(p)
  PROVE  FlowFacts'
<1>0. SessTypeOK /\ ConnTypeOK /\ ProcTypeOK /\ PacketsOK
  BY Zenon DEF TypeInv, TypeOK
<1>inv. /\ \A d \in Conns : EntriesExist(d, inbox[d], writeQ[d])
        /\ \A d \in Conns : EntriesDistinct(inbox[d], writeQ[d])
        /\ \A q \in Procs : Stored(q) =>
             EntryIs(pid[q], msg[q], via[q]) /\ Unsent(pid[q], inbox[via[q]], writeQ[via[q]])
        /\ \A q, r \in Procs : Stored(q) /\ Stored(r) /\ q # r => pid[q] # pid[r]
  BY Zenon DEF FlowFacts
<1>. DEFINE e == [msg |-> msg[p], phase |-> "QoS2Published", conn |-> via[p]]
<1>1. /\ pc[p] = "add" /\ pid[p] \in Ids /\ outFlight[pid[p]] = NoEntry
      /\ UNCHANGED <<inbox, writeQ, pid, msg, via>>
  BY Zenon, <1>0 DEF AddOutFlightLimited, IdInv, HoldsId, ProcTypeOK, connVars
<1>2. CASE outFlight' = outFlight /\ pc' = [pc EXCEPT ![p] = "queue"]
  <2>1. \A q \in Procs : Stored(q)' => Stored(q)
    BY Zenon, <1>0, <1>1, <1>2 DEF Stored, ProcTypeOK
  <2>. QED
    BY Zenon, FlowFrame, <1>1, <1>2, <2>1
<1>3. CASE outFlight' = [outFlight EXCEPT ![pid[p]] = e] /\ pc' = [pc EXCEPT ![p] = "send"]
  <2>1. \A i, m, c : EntryIs(i, m, c) => EntryIs(i, m, c)' /\ i # pid[p]
    BY Zenon, <1>0, <1>1, <1>3 DEF EntryIs, SessTypeOK
  <2>2. EntryIs(pid[p], msg[p], via[p])'
    <3>1. e \in Entries
      BY Zenon, <1>0, <1>1 DEF ProcTypeOK, InCall, Entries, Phases
    <3>2. outFlight'[pid[p]] = e
      BY Zenon, <1>0, <1>1, <1>3 DEF SessTypeOK
    <3>3. e.msg = msg[p] /\ e.conn = via[p] /\ e # NoEntry
      BY Zenon, <3>1, NoEntryAssumption
    <3>4. pid'[p] = pid[p] /\ msg'[p] = msg[p] /\ via'[p] = via[p]
      BY Zenon, <1>1
    <3>. HIDE DEF e
    <3>. QED
      BY Zenon, <1>1, <3>2, <3>3, <3>4 DEF EntryIs
  <2>3. \A q \in Procs : Stored(q)' => q = p \/ Stored(q)
    BY Zenon, <1>0, <1>1, <1>3 DEF Stored, ProcTypeOK
  <2>4. via[p] \in Conns
    BY Zenon, <1>0, <1>1 DEF ProcTypeOK, InCall
  <2>5. Unsent(pid[p], inbox[via[p]], writeQ[via[p]])
    BY Zenon, <1>inv, <2>1, <2>4 DEF EntriesExist, Unsent
  <2>6. \A c \in Conns : EntriesExist(c, inbox[c], writeQ[c])'
    BY Zenon, <1>inv, <1>1, <2>1 DEF EntriesExist, Awaits
  <2>7. \A c \in Conns : EntriesDistinct(inbox[c], writeQ[c])'
    BY Zenon, <1>inv, <1>1 DEF EntriesDistinct, Awaits
  <2>8. \A q \in Procs : Stored(q)' =>
          /\ EntryIs(pid[q], msg[q], via[q])'
          /\ Unsent(pid[q], inbox[via[q]], writeQ[via[q]])'
    <3>. SUFFICES ASSUME NEW q \in Procs, Stored(q)'
                  PROVE  /\ EntryIs(pid[q], msg[q], via[q])'
                         /\ Unsent(pid[q], inbox[via[q]], writeQ[via[q]])'
      BY Zenon
    <3>1. pid'[q] = pid[q] /\ msg'[q] = msg[q] /\ via'[q] = via[q]
      BY Zenon, <1>1
    <3>2. Unsent(pid[q], inbox[via[q]], writeQ[via[q]])
      BY Zenon, <1>inv, <2>3, <2>5
    <3>3. Unsent(pid[q], inbox[via[q]], writeQ[via[q]])'
      BY Zenon, <1>1, <3>1, <3>2 DEF Unsent, Awaits
    <3>4. q # p => EntryIs(pid[q], msg[q], via[q])
      BY Zenon, <1>inv, <2>3
    <3>5. \A i, m, d : EntryIs(i, m, d) =>
            i \in Ids /\ outFlight'[i] # NoEntry /\ outFlight'[i].msg = m /\ outFlight'[i].conn = d
      BY ZenonT(40), <2>1 DEF EntryIs
    <3>6. q # p => EntryIs(pid[q], msg[q], via[q])'
      BY <3>1, <3>4, <3>5 DEF EntryIs
    <3>. QED
      BY Zenon, <2>2, <3>3, <3>6
  <2>9. \A q, r \in Procs : Stored(q)' /\ Stored(r)' /\ q # r => pid'[q] # pid'[r]
    BY Zenon, <1>inv, <1>1, <2>1, <2>3
  <2>. QED
    BY Zenon, <2>6, <2>7, <2>8, <2>9 DEF FlowFacts
<1>. QED
  BY Zenon, <1>2, <1>3 DEF AddOutFlightLimited, Goto

\* The PUBLISH is enqueued under the identifier its call has stored.
LEMMA FlowSend ==
  ASSUME TypeInv, FlowFacts, NEW p \in Procs, DeliverSend(p)
  PROVE  FlowFacts'
<1>0. SessTypeOK /\ ConnTypeOK /\ ProcTypeOK /\ PacketsOK
  BY Zenon DEF TypeInv, TypeOK
<1>inv. /\ \A d \in Conns : EntriesExist(d, inbox[d], writeQ[d])
        /\ \A d \in Conns : EntriesDistinct(inbox[d], writeQ[d])
        /\ \A q \in Procs : Stored(q) =>
             EntryIs(pid[q], msg[q], via[q]) /\ Unsent(pid[q], inbox[via[q]], writeQ[via[q]])
        /\ \A q, r \in Procs : Stored(q) /\ Stored(r) /\ q # r => pid[q] # pid[r]
  BY Zenon DEF FlowFacts
<1>. DEFINE x == IF QoS[msg[p]] = 0 THEN 0 ELSE pid[p]
            k == [type |-> "PUBLISH", id |-> x, msg |-> msg[p]]
            c == via[p]
<1>1. c \in Conns /\ msg[p] \in Msgs /\ pid[p] \in 0 .. (IdSpace - 1) /\ pc[p] = "send"
  BY Zenon, <1>0 DEF ProcTypeOK, InCall, DeliverSend
<1>2. /\ UNCHANGED <<pid, msg, via, outFlight, inbox>>
      /\ writeQ' = enqueue(c, k)
      /\ pc' = [pc EXCEPT ![p] = IF p \in Msgs THEN "done" ELSE "next"]
  BY Zenon DEF DeliverSend, Return, Goto, sessVars
<1>3. \A q \in Procs : Stored(q)' => Stored(q) /\ q # p
  BY Zenon, <1>0, <1>2 DEF Stored, ProcTypeOK
<1>4. CASE writeQ' = writeQ
  BY Zenon, FlowFrame, <1>2, <1>3, <1>4
<1>5. CASE writeQ' = [writeQ EXCEPT ![c] = Append(writeQ[c], k)]
  <2>1. k \in Packets /\ k.id = x /\ k.msg = msg[p] /\ writeQ[c] \in Seq(Packets)
    <3>0. 0 \in 0 .. (IdSpace - 1)
      BY ConstantsAssumption
    <3>1. x \in 0 .. (IdSpace - 1)
      BY Zenon, <1>1, <3>0
    <3>. HIDE DEF x
    <3>2. k \in Packets /\ k.id = x /\ k.msg = msg[p]
      BY Zenon, <1>1, <3>1 DEF Packets
    <3>. QED
      BY Zenon, <1>0, <1>1, <3>2 DEF ConnTypeOK
  <2>2. Awaits(k) => Stored(p) /\ x = pid[p]
    <3>1. QoS[msg[p]] \in 0 .. 2
      BY Zenon, <1>1, ConstantsAssumption
    <3>2. Awaits(k) => x # 0
      BY Zenon, <2>1 DEF Awaits
    <3>3. x # 0 => QoS[msg[p]] # 0 /\ x = pid[p]
      BY Zenon
    <3>4. QoS[msg[p]] # 0 => QoS[msg[p]] > 0
      BY <3>1
    <3>. QED
      BY Zenon, <1>1, <3>2, <3>3, <3>4 DEF Stored
  <2>3. Awaits(k) => EntryIs(k.id, k.msg, c) /\ Unsent(k.id, inbox[c], writeQ[c])
    BY Zenon, <1>inv, <2>1, <2>2
  <2>. HIDE DEF k, x
  <2>4. /\ EntriesExist(c, inbox[c], Append(writeQ[c], k))
        /\ EntriesDistinct(inbox[c], Append(writeQ[c], k))
        /\ \A y : Unsent(y, inbox[c], writeQ[c]) /\ (Awaits(k) => y # k.id)
              => Unsent(y, inbox[c], Append(writeQ[c], k))
    BY Zenon, <1>inv, <1>1, <2>1, <2>3, AppendFlow
  <2>5. \A q \in Procs : Stored(q)' =>
          Stored(q) /\ (via[q] = c => Unsent(pid[q], inbox[c], Append(writeQ[c], k)))
    <3>. SUFFICES ASSUME NEW q \in Procs, Stored(q)', via[q] = c
                  PROVE  Unsent(pid[q], inbox[c], Append(writeQ[c], k))
      BY Zenon, <1>3
    <3>1. Stored(q) /\ q # p
      BY Zenon, <1>3
    <3>2. Unsent(pid[q], inbox[c], writeQ[c])
      BY Zenon, <1>inv, <3>1
    <3>3. Awaits(k) => pid[q] # k.id
      BY Zenon, <1>inv, <2>1, <2>2, <3>1
    <3>. QED
      BY Zenon, <2>4, <3>2, <3>3
  <2>6. inbox' = [inbox EXCEPT ![c] = inbox[c]]
    BY Zenon, <1>0, <1>2 DEF ConnTypeOK
  <2>7. \A i, m, d : EntryIs(i, m, d) => EntryIs(i, m, d)'
    BY Zenon, <1>2 DEF EntryIs
  <2>. QED
    BY Zenon, FlowMove, <1>1, <1>2, <1>5, <2>4, <2>5, <2>6, <2>7
<1>. QED
  BY Zenon, <1>2, <1>4, <1>5 DEF enqueue

\* writeLoop hands the first packet to the peer, or loses it.
LEMMA FlowWrite ==
  ASSUME TypeInv, FlowFacts, NEW c \in Conns, Write(c) \/ WriteError(c)
  PROVE  FlowFacts'
<1>0. SessTypeOK /\ ConnTypeOK /\ ProcTypeOK /\ PacketsOK
  BY Zenon DEF TypeInv, TypeOK
<1>inv. /\ \A d \in Conns : EntriesExist(d, inbox[d], writeQ[d])
        /\ \A d \in Conns : EntriesDistinct(inbox[d], writeQ[d])
        /\ \A q \in Procs : Stored(q) =>
             EntryIs(pid[q], msg[q], via[q]) /\ Unsent(pid[q], inbox[via[q]], writeQ[via[q]])
        /\ \A q, r \in Procs : Stored(q) /\ Stored(r) /\ q # r => pid[q] # pid[r]
  BY Zenon DEF FlowFacts
<1>1. /\ UNCHANGED <<pid, msg, via, outFlight, pc>>
      /\ writeQ[c] # <<>> /\ writeQ' = [writeQ EXCEPT ![c] = Tail(writeQ[c])]
  BY Zenon DEF Write, WriteError, sessVars, procVars
<1>2. PICK d : d \subseteq {Head(writeQ[c])} /\ inbox' = [inbox EXCEPT ![c] = inbox[c] \cup d]
  <2>1. CASE inbox' = inbox
    <3>1. inbox' = [inbox EXCEPT ![c] = inbox[c] \cup {}]
      BY Zenon, <1>0, <2>1 DEF ConnTypeOK
    <3>. QED
      BY Zenon, <3>1
  <2>2. CASE inbox' = [inbox EXCEPT ![c] = @ \cup {Head(writeQ[c])}]
    BY Zenon, <2>2
  <2>. QED
    BY Zenon, <2>1, <2>2 DEF Write, WriteError
<1>3. writeQ[c] \in Seq(Packets)
  BY Zenon, <1>0 DEF ConnTypeOK
<1>4. /\ EntriesExist(c, inbox[c] \cup d, Tail(writeQ[c]))
      /\ EntriesDistinct(inbox[c] \cup d, Tail(writeQ[c]))
      /\ \A x : Unsent(x, inbox[c], writeQ[c]) => Unsent(x, inbox[c] \cup d, Tail(writeQ[c]))
  BY Zenon, <1>inv, <1>1, <1>2, <1>3, TailFlow
<1>5. \A i, m, e : EntryIs(i, m, e) => EntryIs(i, m, e)'
  BY Zenon, <1>1 DEF EntryIs
<1>6. \A p \in Procs : Stored(p)' =>
        Stored(p) /\ (via[p] = c => Unsent(pid[p], inbox[c] \cup d, Tail(writeQ[c])))
  BY Zenon, <1>inv, <1>1, <1>4 DEF Stored
<1>. QED
  BY Zenon, FlowMove, <1>1, <1>2, <1>4, <1>5, <1>6

\* PUBREC: the entry changes its phase, the packet its mark, and a PUBREL,
\* which awaits nothing of the kind, is enqueued.
LEMMA FlowPubrec ==
  ASSUME TypeInv, FlowFacts, NEW c \in Conns, handlePubrec(c)
  PROVE  FlowFacts'
<1>0. SessTypeOK /\ ConnTypeOK /\ ProcTypeOK /\ PacketsOK
  BY Zenon DEF TypeInv, TypeOK
<1>inv. /\ \A d \in Conns : EntriesExist(d, inbox[d], writeQ[d])
        /\ \A d \in Conns : EntriesDistinct(inbox[d], writeQ[d])
        /\ \A q \in Procs : Stored(q) =>
             EntryIs(pid[q], msg[q], via[q]) /\ Unsent(pid[q], inbox[via[q]], writeQ[via[q]])
        /\ \A q, r \in Procs : Stored(q) /\ Stored(r) /\ q # r => pid[q] # pid[r]
  BY Zenon DEF FlowFacts
<1>1. PICK k \in inbox[c] :
        /\ k.type = "PUBLISH"
        /\ outFlight' = IF outFlight[k.id] = NoEntry THEN outFlight
                        ELSE [outFlight EXCEPT ![k.id].phase = "QoS2Received"]
        /\ writeQ' = enqueue(c, [type |-> "PUBREL", id |-> k.id, msg |-> NoMsg])
        /\ inbox' = [inbox EXCEPT ![c] = (@ \ {k}) \cup {[k EXCEPT !.type = "PUBREC"]}]
  BY Zenon DEF handlePubrec
<1>2. k \in Packets /\ k.id # 0 /\ k.id \in Ids
  BY <1>0, <1>1 DEF ConnTypeOK, PacketsOK, Packets, Ids
<1>3. PICK j : /\ j = [k EXCEPT !.type = "PUBREC"]
               /\ j \in Packets /\ j.id = k.id /\ j.msg = k.msg /\ j.type = "PUBREC"
  <2>1. /\ [k EXCEPT !.type = "PUBREC"] \in Packets
        /\ [k EXCEPT !.type = "PUBREC"].id = k.id
        /\ [k EXCEPT !.type = "PUBREC"].msg = k.msg
        /\ [k EXCEPT !.type = "PUBREC"].type = "PUBREC"
    BY Zenon, <1>2 DEF Packets
  <2>. QED
    BY Zenon, <2>1
<1>4. PICK r : /\ r = [type |-> "PUBREL", id |-> k.id, msg |-> NoMsg]
               /\ r \in Packets /\ ~Awaits(r)
  <2>1. /\ [type |-> "PUBREL", id |-> k.id, msg |-> NoMsg] \in Packets
        /\ ~Awaits([type |-> "PUBREL", id |-> k.id, msg |-> NoMsg])
    BY Zenon, <1>2 DEF Packets, Awaits
  <2>. QED
    BY Zenon, <2>1
<1>. DEFINE b == (inbox[c] \ {k}) \cup {j}
<1>5. Awaits(k) /\ Awaits(j)
  BY Zenon, <1>1, <1>2, <1>3 DEF Awaits
<1>6. /\ EntriesExist(c, b, writeQ[c]) /\ EntriesDistinct(b, writeQ[c])
      /\ \A x : Unsent(x, inbox[c], writeQ[c]) => Unsent(x, b, writeQ[c])
  <2>1. EntriesExist(c, inbox[c], writeQ[c]) /\ EntriesDistinct(inbox[c], writeQ[c])
    BY Zenon, <1>inv
  <2>2. EntriesExist(c, b, writeQ[c])
    BY Zenon, <1>3, <1>5, <2>1 DEF EntriesExist
  <2>3. EntriesDistinct(b, writeQ[c])
    <3>1. \A y, z \in b : Awaits(y) /\ Awaits(z) /\ y.id = z.id => y = z
      <4>1. \A y, z \in inbox[c] : Awaits(y) /\ Awaits(z) /\ y.id = z.id => y = z
        BY Zenon, <2>1 DEF EntriesDistinct
      <4>2. j.id = k.id /\ Awaits(k) /\ k \in inbox[c]
        BY Zenon, <1>1, <1>3, <1>5
      <4>. QED
        BY Zenon, <4>1, <4>2
    <3>2. \A y \in b, i \in DOMAIN writeQ[c] :
            Awaits(y) /\ Awaits(writeQ[c][i]) => y.id # writeQ[c][i].id
      BY ZenonT(40), <1>3, <1>5, <2>1 DEF EntriesDistinct
    <3>. QED
      BY Zenon, <2>1, <3>1, <3>2 DEF EntriesDistinct
  <2>4. \A x : Unsent(x, inbox[c], writeQ[c]) => Unsent(x, b, writeQ[c])
    BY Zenon, <1>3, <1>5 DEF Unsent
  <2>. QED
    BY Zenon, <2>2, <2>3, <2>4
<1>7. \A i, m, d : EntryIs(i, m, d) => EntryIs(i, m, d)'
  <2>1. CASE outFlight' = outFlight
    BY Zenon, <2>1 DEF EntryIs
  <2>2. CASE outFlight[k.id] # NoEntry
             /\ outFlight' = [outFlight EXCEPT ![k.id].phase = "QoS2Received"]
    <3>1. outFlight[k.id] \in Entries
      BY Zenon, <1>0, <1>2, <2>2 DEF SessTypeOK
    <3>2. /\ [outFlight[k.id] EXCEPT !.phase = "QoS2Received"] \in Entries
          /\ [outFlight[k.id] EXCEPT !.phase = "QoS2Received"].msg = outFlight[k.id].msg
          /\ [outFlight[k.id] EXCEPT !.phase = "QoS2Received"].conn = outFlight[k.id].conn
      BY Zenon, <3>1 DEF Entries, Phases
    <3>3. /\ outFlight'[k.id] # NoEntry
          /\ outFlight'[k.id].msg = outFlight[k.id].msg
          /\ outFlight'[k.id].conn = outFlight[k.id].conn
          /\ \A i \in Ids : i # k.id => outFlight'[i] = outFlight[i]
      BY Zenon, <1>0, <1>2, <2>2, <3>2, NoEntryAssumption DEF SessTypeOK
    <3>. QED
      BY Zenon, <3>3 DEF EntryIs
  <2>. QED
    BY Zenon, <1>1, <2>1, <2>2
<1>8. UNCHANGED <<pid, msg, via, pc>> /\ inbox' = [inbox EXCEPT ![c] = b]
  BY Zenon, <1>1, <1>3 DEF handlePubrec, procVars
<1>9. \A p \in Procs : Stored(p)' => Stored(p) /\ (via[p] = c => Unsent(pid[p], b, writeQ[c]))
  BY Zenon, <1>inv, <1>6, <1>8 DEF Stored
<1>. HIDE DEF b
<1>10. CASE writeQ' = writeQ
  <2>1. writeQ' = [writeQ EXCEPT ![c] = writeQ[c]]
    BY Zenon, <1>0, <1>10 DEF ConnTypeOK
  <2>. QED
    BY Zenon, FlowMove, <1>6, <1>7, <1>8, <1>9, <2>1
<1>11. CASE writeQ' = [writeQ EXCEPT ![c] = Append(writeQ[c], r)]
  <2>1. writeQ[c] \in Seq(Packets)
    BY Zenon, <1>0 DEF ConnTypeOK
  <2>2. /\ EntriesExist(c, b, Append(writeQ[c], r)) /\ EntriesDistinct(b, Append(writeQ[c], r))
        /\ \A x : Unsent(x, b, writeQ[c]) => Unsent(x, b, Append(writeQ[c], r))
    BY Zenon, <1>4, <1>6, <2>1, AppendFlow
  <2>. QED
    BY Zenon, FlowMove, <1>7, <1>8, <1>9, <1>11, <2>2
<1>. QED
  BY Zenon, <1>1, <1>4, <1>10, <1>11 DEF enqueue

\* PUBACK and PUBCOMP: the packet and its entry go, and nobody else used it.
LEMMA FlowAck ==
  ASSUME TypeInv, FlowFacts, NEW c \in Conns, handlePuback(c) \/ handlePubcomp(c)
  PROVE  FlowFacts'
<1>0. SessTypeOK /\ ConnTypeOK /\ ProcTypeOK /\ PacketsOK
  BY Zenon DEF TypeInv, TypeOK
<1>inv. /\ \A d \in Conns : EntriesExist(d, inbox[d], writeQ[d])
        /\ \A d \in Conns : EntriesDistinct(inbox[d], writeQ[d])
        /\ \A q \in Procs : Stored(q) =>
             EntryIs(pid[q], msg[q], via[q]) /\ Unsent(pid[q], inbox[via[q]], writeQ[via[q]])
        /\ \A q, r \in Procs : Stored(q) /\ Stored(r) /\ q # r => pid[q] # pid[r]
  BY Zenon DEF FlowFacts
<1>1. PICK k \in inbox[c], r \in inbox[c] :
        /\ k.type \in {"PUBLISH", "PUBREC"} /\ AckOutFlight(k.id)
        /\ inbox' = [inbox EXCEPT ![c] = inbox[c] \ {k, r}]
        /\ r = k \/ r.type = "PUBREL"
  <2>1. CASE handlePuback(c)
    <3>1. PICK k \in inbox[c] : /\ k.type = "PUBLISH" /\ AckOutFlight(k.id)
                                 /\ inbox' = [inbox EXCEPT ![c] = @ \ {k}]
      BY Zenon, <2>1 DEF handlePuback
    <3>2. inbox[c] \ {k} = inbox[c] \ {k, k}
      BY Zenon
    <3>. QED
      BY Zenon, <3>1, <3>2
  <2>2. CASE handlePubcomp(c)
    BY Zenon, <2>2 DEF handlePubcomp
  <2>. QED
    BY Zenon, <2>1, <2>2
<1>2. Awaits(k) /\ k.id \in Ids
  BY <1>0, <1>1 DEF ConnTypeOK, PacketsOK, Packets, Ids, Awaits
<1>3. /\ UNCHANGED <<pid, msg, via, pc, writeQ>>
      /\ outFlight' = [outFlight EXCEPT ![k.id] = NoEntry]
  BY Zenon, <1>1 DEF handlePuback, handlePubcomp, procVars, AckOutFlight
<1>4. \A i, m, d : EntryIs(i, m, d) /\ i # k.id => EntryIs(i, m, d)'
  BY Zenon, <1>0, <1>3 DEF EntryIs, SessTypeOK
<1>5. \A m, d : EntryIs(k.id, m, d) => d = c
  BY Zenon, <1>inv, <1>1, <1>2 DEF EntriesExist, EntryIs
<1>6. \A d \in Conns : inbox'[d] \subseteq inbox[d] /\ (d = c => k \notin inbox'[d])
  BY Zenon, <1>0, <1>1 DEF ConnTypeOK
<1>7. \A d \in Conns : EntriesExist(d, inbox[d], writeQ[d])'
  <2>. SUFFICES ASSUME NEW d \in Conns PROVE EntriesExist(d, inbox[d], writeQ[d])'
    BY Zenon
  <2>1. \A j \in inbox'[d] : Awaits(j) => EntryIs(j.id, j.msg, d)'
    BY Zenon, <1>inv, <1>1, <1>2, <1>4, <1>5, <1>6 DEF EntriesExist, EntriesDistinct
  <2>2. \A i \in DOMAIN writeQ[d] :
          Awaits(writeQ[d][i]) => EntryIs(writeQ[d][i].id, writeQ[d][i].msg, d)'
    <3>. SUFFICES ASSUME NEW i \in DOMAIN writeQ[d], Awaits(writeQ[d][i])
                  PROVE  EntryIs(writeQ[d][i].id, writeQ[d][i].msg, d)'
      BY Zenon
    <3>1. EntryIs(writeQ[d][i].id, writeQ[d][i].msg, d)
      BY Zenon, <1>inv DEF EntriesExist
    <3>2. d = c => writeQ[d][i].id # k.id
      BY Zenon, <1>inv, <1>1, <1>2 DEF EntriesDistinct
    <3>. QED
      BY Zenon, <1>3, <1>4, <1>5, <3>1, <3>2
  <2>. QED
    BY Zenon, <1>3, <2>1, <2>2 DEF EntriesExist, Awaits
<1>8. \A d \in Conns : EntriesDistinct(inbox[d], writeQ[d])'
  <2>. SUFFICES ASSUME NEW d \in Conns PROVE EntriesDistinct(inbox[d], writeQ[d])'
    BY Zenon
  <2>1. EntriesDistinct(inbox[d], writeQ[d]) /\ inbox'[d] \subseteq inbox[d]
    BY Zenon, <1>inv, <1>6
  <2>2. EntriesDistinct(inbox'[d], writeQ[d])
    BY Zenon, <2>1 DEF EntriesDistinct
  <2>. QED
    BY Zenon, <1>3, <2>2 DEF EntriesDistinct, Awaits
<1>9. \A p \in Procs : Stored(p)' <=> Stored(p)
  BY Zenon, <1>3 DEF Stored
<1>10. \A p \in Procs : Stored(p) => pid[p] # k.id /\ via[p] \in Conns
  <2>1. \A p \in Procs : Stored(p) => via[p] \in Conns
    BY Zenon, <1>0 DEF Stored, ProcTypeOK, InCall
  <2>. QED
    BY Zenon, <1>inv, <1>1, <1>2, <1>5, <2>1 DEF Unsent
<1>11. \A p \in Procs : Stored(p)' =>
         /\ EntryIs(pid[p], msg[p], via[p])'
         /\ Unsent(pid[p], inbox[via[p]], writeQ[via[p]])'
  BY Zenon, <1>inv, <1>3, <1>4, <1>6, <1>9, <1>10 DEF Unsent, Awaits
<1>12. \A p, q \in Procs : Stored(p)' /\ Stored(q)' /\ p # q => pid'[p] # pid'[q]
  BY Zenon, <1>inv, <1>3, <1>9
<1>. QED
  BY Zenon, <1>7, <1>8, <1>11, <1>12 DEF FlowFacts

\* Every step keeps what the peer has not acknowledged within the entries of outFlight.
LEMMA FlowStep == TypeInv /\ IdInv /\ FlowInv /\ [Next]_vars => FlowInv'
<1>. SUFFICES ASSUME TypeInv, IdInv, FlowInv, [Next]_vars, ~wrapped' PROVE FlowFacts'
  BY Zenon DEF FlowInv
<1>1. ~wrapped
  BY ZenonT(40) DEF Next, DeliverStep, DrainStep, vars, Connect, Subscribe, restoreSession,
       cleanup, Write, WriteError, handlePuback, handlePubrec, handlePubcomp,
       RoutePublish, DeliverCheck, NextPacketIDAdd, NextPacketIDProbe,
       AddOutFlightLimited, DeliverSend, Enqueue, DrainQueue, DrainNext, histVars
<1>2. FlowFacts
  BY Zenon, <1>1 DEF FlowInv
<1>3. CASE UNCHANGED vars
  <2>1. UNCHANGED <<inbox, writeQ, outFlight, pc, pid, msg, via>>
    BY Zenon, <1>3 DEF vars, sessVars, connVars, procVars
  <2>. QED
    BY Zenon, <1>2, <2>1, FlowFrame DEF Stored
<1>4. CASE Next
  BY Zenon, <1>1, <1>2, <1>4, FlowConn, FlowRoute, FlowCall, FlowAdd, FlowSend, FlowWrite,
     FlowPubrec, FlowAck DEF Next, DeliverStep, DrainStep
<1>. QED
  BY Zenon, <1>3, <1>4

\* The entries stored through the closure of connection c.
EntriesOf(c) == {i \in Ids : outFlight[i] # NoEntry /\ outFlight[i].conn = c}

LimitInv ==
  ~wrapped => \A c \in Conns : RecvMax[c] > 0 => Cardinality(EntriesOf(c)) <= RecvMax[c]

\* outFlight, a Go map over 16-bit keys, has finitely many entries in all and per connection.
LEMMA EntriesFinite ==
  /\ IsFiniteSet(UsedIds) /\ Cardinality(UsedIds) \in Nat
  /\ \A c : IsFiniteSet(EntriesOf(c)) /\ Cardinality(EntriesOf(c)) \in Nat
<1>1. IsFiniteSet(Ids)
  BY ConstantsAssumption, FS_Interval DEF Ids
<1>2. UsedIds \in SUBSET Ids /\ \A c : EntriesOf(c) \in SUBSET Ids
  BY Zenon DEF UsedIds, EntriesOf
<1>. QED
  BY Zenon, <1>1, <1>2, FS_Subset, FS_CardinalityType

\* Every step keeps the entries of a connection within its Receive Maximum, the check
\* AddOutFlightLimited makes under outMu.
LEMMA LimitStep == TypeInv /\ IdInv /\ LimitInv /\ [Next]_vars => LimitInv'
<1>. SUFFICES ASSUME TypeInv, IdInv, LimitInv, [Next]_vars, ~wrapped' PROVE LimitInv'
  BY Zenon DEF LimitInv
<1>0. SessTypeOK /\ ConnTypeOK /\ ProcTypeOK /\ PacketsOK /\ RecvMax \in [Conns -> Nat]
  BY Zenon, ConstantsAssumption DEF TypeInv, TypeOK
\* Steps that store no entry.
<1>frame. ASSUME ~wrapped, \A c \in Conns : EntriesOf(c)' \subseteq EntriesOf(c) PROVE LimitInv'
  <2>. SUFFICES ASSUME NEW c \in Conns, RecvMax[c] > 0
                PROVE  Cardinality(EntriesOf(c)') <= RecvMax[c]
    BY Zenon DEF LimitInv
  <2>1. Cardinality(EntriesOf(c)) <= RecvMax[c]
    BY Zenon, <1>frame DEF LimitInv
  <2>2. EntriesOf(c)' \in SUBSET EntriesOf(c)
    BY Zenon, <1>frame
  <2>3. /\ Cardinality(EntriesOf(c)') <= Cardinality(EntriesOf(c))
        /\ Cardinality(EntriesOf(c)') \in Nat
    BY Zenon, <2>2, EntriesFinite, FS_Subset, FS_CardinalityType
  <2>. QED
    BY <1>0, <2>1, <2>3, EntriesFinite
<1>1. ASSUME ~wrapped, outFlight' = outFlight PROVE LimitInv'
  BY Zenon, <1>1, <1>frame DEF EntriesOf
<1>2. ASSUME NEW c \in Conns,
             \/ Connect(c) \/ Subscribe(c) \/ restoreSession(c) \/ cleanup(c)
             \/ Write(c) \/ WriteError(c) \/ DrainQueue(c) \/ DrainNext(c)
      PROVE  LimitInv'
  BY Zenon, <1>1, <1>2 DEF Connect, Subscribe, restoreSession, cleanup, Write, WriteError,
       DrainQueue, DrainNext, sessVars, histVars
<1>3. ASSUME NEW m \in Msgs, RoutePublish(m) PROVE LimitInv'
  BY Zenon, <1>1, <1>3 DEF RoutePublish, sessVars, histVars
<1>4. ASSUME NEW p \in Procs,
             \/ DeliverCheck(p) \/ NextPacketIDAdd(p) \/ NextPacketIDProbe(p)
             \/ DeliverSend(p) \/ Enqueue(p)
      PROVE  LimitInv'
  <2>1. outFlight' = outFlight
    BY Zenon, <1>4 DEF DeliverCheck, NextPacketIDAdd, NextPacketIDProbe, DeliverSend, Enqueue, sessVars
  <2>2. ~wrapped
    BY <1>4, Zenon DEF DeliverCheck, NextPacketIDAdd, NextPacketIDProbe, DeliverSend, Enqueue, histVars
  <2>. QED
    BY Zenon, <1>1, <2>1, <2>2
<1>5. ASSUME NEW c \in Conns, handlePuback(c) \/ handlePubrec(c) \/ handlePubcomp(c)
      PROVE  LimitInv'
  <2>1. ~wrapped
    BY Zenon, <1>5 DEF handlePuback, handlePubrec, handlePubcomp, histVars
  <2>2. PICK k \in inbox[c] :
          \/ outFlight' = [outFlight EXCEPT ![k.id] = NoEntry]
          \/ outFlight' = outFlight
          \/ /\ k.type = "PUBLISH" /\ outFlight[k.id] # NoEntry
             /\ outFlight' = [outFlight EXCEPT ![k.id].phase = "QoS2Received"]
    BY <1>5, Zenon DEF handlePuback, handlePubrec, handlePubcomp, AckOutFlight
  <2>3. k.id \in Ids
    BY <1>0, <2>2 DEF ConnTypeOK, PacketsOK, Packets, Ids
  <2>4. CASE outFlight' = outFlight
    BY Zenon, <1>1, <2>1, <2>4
  <2>5. CASE outFlight' = [outFlight EXCEPT ![k.id] = NoEntry]
    BY Zenon, <1>0, <1>frame, <2>1, <2>5 DEF EntriesOf, SessTypeOK
  <2>6. CASE /\ outFlight[k.id] # NoEntry
             /\ outFlight' = [outFlight EXCEPT ![k.id].phase = "QoS2Received"]
    <3>1. outFlight[k.id] \in Entries
      BY Zenon, <1>0, <2>3, <2>6 DEF SessTypeOK
    <3>2. [outFlight[k.id] EXCEPT !.phase = "QoS2Received"].conn = outFlight[k.id].conn
      BY Zenon, <3>1 DEF Entries
    <3>3. /\ outFlight'[k.id].conn = outFlight[k.id].conn
          /\ \A i \in Ids : i # k.id => outFlight'[i] = outFlight[i]
      BY Zenon, <1>0, <2>3, <2>6, <3>2 DEF SessTypeOK
    <3>4. \A d \in Conns : EntriesOf(d)' \subseteq EntriesOf(d)
      BY Zenon, <2>6, <3>3 DEF EntriesOf
    <3>. QED
      BY Zenon, <1>frame, <2>1, <3>4
  <2>. QED
    BY Zenon, <2>2, <2>4, <2>5, <2>6
\* The one step that stores an entry has just counted all of outFlight.
<1>6. ASSUME NEW p \in Procs, AddOutFlightLimited(p) PROVE LimitInv'
  <2>. DEFINE e   == [msg |-> msg[p], phase |-> "QoS2Published", conn |-> via[p]]
              lim == RecvMax[via[p]]
  <2>1. ~wrapped /\ pc[p] = "add"
    BY <1>6, Zenon DEF AddOutFlightLimited, histVars
  <2>2. pid[p] \in Ids /\ via[p] \in Conns
    BY Zenon, <1>0, <2>1 DEF ProcTypeOK, InCall, HoldsId
  <2>3. CASE outFlight' = outFlight
    BY Zenon, <1>1, <2>1, <2>3
  <2>4. CASE /\ lim = 0 \/ Cardinality(UsedIds) < lim
             /\ outFlight' = [outFlight EXCEPT ![pid[p]] = e]
    <3>1. outFlight'[pid[p]].conn = via[p] /\ \A i \in Ids : i # pid[p] => outFlight'[i] = outFlight[i]
      BY Zenon, <1>0, <2>2, <2>4 DEF SessTypeOK
    <3>. SUFFICES ASSUME NEW c \in Conns, RecvMax[c] > 0
                  PROVE  Cardinality(EntriesOf(c)') <= RecvMax[c]
      BY Zenon DEF LimitInv
    <3>2. CASE c # via[p]
      <4>1. EntriesOf(c)' \in SUBSET EntriesOf(c)
        BY Zenon, <3>1, <3>2 DEF EntriesOf
      <4>2. /\ Cardinality(EntriesOf(c)') <= Cardinality(EntriesOf(c))
            /\ Cardinality(EntriesOf(c)') \in Nat
        BY Zenon, <4>1, EntriesFinite, FS_Subset, FS_CardinalityType
      <4>. QED
        BY SMTT(20), <1>0, <2>1, <4>2, EntriesFinite DEF LimitInv
    <3>3. CASE c = via[p]
      <4>1. EntriesOf(c)' \in SUBSET (UsedIds \cup {pid[p]})
        BY Zenon, <3>1 DEF EntriesOf, UsedIds
      <4>2. /\ IsFiniteSet(UsedIds \cup {pid[p]})
            /\ Cardinality(UsedIds \cup {pid[p]}) <= Cardinality(UsedIds) + 1
            /\ Cardinality(UsedIds \cup {pid[p]}) \in Nat
        BY SMTT(20), EntriesFinite, FS_AddElement, FS_CardinalityType
      <4>3. /\ Cardinality(EntriesOf(c)') <= Cardinality(UsedIds \cup {pid[p]})
            /\ Cardinality(EntriesOf(c)') \in Nat
        BY Zenon, <4>1, <4>2, FS_Subset, FS_CardinalityType
      <4>4. Cardinality(UsedIds) < RecvMax[c] /\ RecvMax[c] \in Nat
        BY <1>0, <2>4, <3>3
      <4>. QED
        BY <4>2, <4>3, <4>4, EntriesFinite
    <3>. QED
      BY Zenon, <3>2, <3>3
  <2>. QED
    BY Zenon, <1>6, <2>3, <2>4 DEF AddOutFlightLimited
<1>7. CASE UNCHANGED vars
  BY Zenon, <1>1, <1>7 DEF vars, sessVars, histVars
<1>. QED
  BY Zenon, <1>2, <1>3, <1>4, <1>5, <1>6, <1>7 DEF Next, DeliverStep, DrainStep

\* The packets a peer has to acknowledge inject into the entries stored for its
\* connection.
LEMMA AwaitingBound ==
  ASSUME TypeInv, FlowInv, ~wrapped, NEW c \in Conns
  PROVE  /\ Cardinality(AwaitingAck(c)) \in Nat
         /\ Cardinality(AwaitingAck(c)) <= Cardinality(EntriesOf(c))
<1>. DEFINE A == AwaitingAck(c)
            f == [k \in A |-> k.id]
<1>1. EntriesExist(c, inbox[c], writeQ[c]) /\ EntriesDistinct(inbox[c], writeQ[c])
  BY Zenon DEF FlowInv, FlowFacts
<1>2. \A k \in A : /\ Awaits(k)
                   /\ k \in inbox[c] \/ \E i \in DOMAIN writeQ[c] : k = writeQ[c][i]
  BY Zenon DEF AwaitingAck, Awaits
<1>3. \A k \in A : k.id \in EntriesOf(c)
  <2>. SUFFICES ASSUME NEW k \in A PROVE k.id \in EntriesOf(c)
    BY Zenon
  <2>. HIDE DEF A, f
  <2>1. EntryIs(k.id, k.msg, c)
    BY Zenon, <1>1, <1>2 DEF EntriesExist
  <2>. QED
    BY Zenon, <2>1 DEF EntryIs, EntriesOf
<1>4. \A j, k \in A : j.id = k.id => j = k
  <2>. SUFFICES ASSUME NEW j \in A, NEW k \in A, j.id = k.id PROVE j = k
    BY Zenon
  <2>. HIDE DEF A, f
  <2>1. Awaits(j) /\ Awaits(k)
    BY Zenon, <1>2
  <2>2. CASE j \in inbox[c] /\ k \in inbox[c]
    BY Zenon, <1>1, <2>1, <2>2 DEF EntriesDistinct
  <2>3. ASSUME NEW i \in DOMAIN writeQ[c], j = writeQ[c][i], k \in inbox[c] PROVE j = k
    BY Zenon, <1>1, <2>1, <2>3 DEF EntriesDistinct
  <2>4. ASSUME NEW i \in DOMAIN writeQ[c], k = writeQ[c][i], j \in inbox[c] PROVE j = k
    BY Zenon, <1>1, <2>1, <2>4 DEF EntriesDistinct
  <2>5. ASSUME NEW i \in DOMAIN writeQ[c], NEW l \in DOMAIN writeQ[c],
               j = writeQ[c][i], k = writeQ[c][l]
        PROVE  j = k
    BY Zenon, <1>1, <2>1, <2>5 DEF EntriesDistinct
  <2>. QED
    BY Zenon, <1>2, <2>2, <2>3, <2>4, <2>5
<1>5. f \in Injection(A, EntriesOf(c))
  <2>1. f \in [A -> EntriesOf(c)]
    BY Zenon, <1>3
  <2>2. \A j, k \in A : f[j] = f[k] => j = k
    BY Zenon, <1>4
  <2>. HIDE DEF f, A
  <2>. QED
    BY Zenon, <2>1, <2>2 DEF Injection, IsInjective
<1>. HIDE DEF f, A
<1>6. IsFiniteSet(A) /\ Cardinality(A) <= Cardinality(EntriesOf(c))
  BY Zenon, <1>5, EntriesFinite, FS_Injection
<1>. QED
  BY Zenon, <1>6, FS_CardinalityType DEF A

\* Flow control for every number of messages, connections and goroutines: while
\* the identifier counter has not wrapped, no peer ever has more unacknowledged
\* QoS 1 and 2 messages than its Receive Maximum.
THEOREM FlowControl == Spec => []ReceiveMaximum
<1>. DEFINE Inv == TypeInv /\ IdInv /\ FlowInv /\ LimitInv
<1>1. Init => Inv
  <2>. SUFFICES ASSUME Init PROVE IdInv /\ FlowInv /\ LimitInv
    BY Zenon, InitType
  <2>1. IdInv
    BY Zenon, IdInit
  <2>2. FlowInv
    <3>1. \A c \in Conns : inbox[c] = {} /\ writeQ[c] = <<>>
      BY Zenon DEF Init
    <3>2. \A p \in Procs : ~Stored(p)
      BY Zenon DEF Init, Stored
    <3>3. \A c \in Conns : EntriesExist(c, {}, <<>>)
      BY DEF EntriesExist
    <3>4. EntriesDistinct({}, <<>>)
      BY DEF EntriesDistinct
    <3>. QED
      BY Zenon, <3>1, <3>2, <3>3, <3>4 DEF FlowInv, FlowFacts
  <2>3. \A c \in Conns : EntriesOf(c) = {}
    BY Zenon DEF Init, EntriesOf
  <2>4. LimitInv
    BY <2>3, FS_EmptySet, ConstantsAssumption DEF LimitInv
  <2>. QED
    BY Zenon, <2>1, <2>2, <2>4
<1>2. Inv /\ [Next]_vars => Inv'
  BY Zenon, TypeStep, IdStep, FlowStep, LimitStep
<1>3. Inv => ReceiveMaximum
  BY AwaitingBound, EntriesFinite, ConstantsAssumption DEF ReceiveMaximum, LimitInv
<1>. QED
  BY <1>1, <1>2, <1>3, PTL DEF Spec

----------------------------------------------------------------------------
(* Where messages are. *)

Occurs(s, m) == \E i \in DOMAIN s : s[i] = m
Once(s, m) == \A i, j \in DOMAIN s : s[i] = m /\ s[j] = m => i = j

\* Process p has a message, m, in hand, and has not stored it in outFlight.
Holding(p) == InCall(p) /\ ~Stored(p)
Holds(p, m) == Holding(p) /\ msg[p] = m
Held(m) == \E p \in Procs : Holds(p, m)

\* Message m is in flight under identifier i.
Flies(i, m) == outFlight[i] # NoEntry /\ outFlight[i].msg = m
Flown(m) == \E i \in Ids : Flies(i, m)

Drains(m) == \E c \in Conns : Occurs(drainBuf[c], m)

\* A connection that is not there has not begun to drain, the queue is drained once per
\* connection, and identifiers are for messages of QoS > 0.
StageInv ==
  /\ \A c \in Conns : /\ state[c] = "handshaking" => pc[c] = "idle"
                      /\ pc[c] \in {"idle", "pending"} => drainBuf[c] = <<>>
  /\ \A p \in Procs : pc[p] \in {"ticket", "probe", "add"} => QoS[msg[p]] > 0

\* A message waits in one place at most: in one hand, queued once, or held once by one
\* drain; and a message that a full queue dropped is nowhere else.
WaitsOnce(m) ==
  /\ \A p, q \in Procs : Holds(p, m) /\ Holds(q, m) => p = q
  /\ Once(queue, m) /\ \A c \in Conns : Once(drainBuf[c], m)
  /\ \A c, d \in Conns : Occurs(drainBuf[c], m) /\ Occurs(drainBuf[d], m) => c = d
  /\ ~(Held(m) /\ Occurs(queue, m)) /\ ~(Held(m) /\ Drains(m)) /\ ~(Occurs(queue, m) /\ Drains(m))
  /\ m \in overflowed => ~(Held(m) \/ Occurs(queue, m) \/ Drains(m))

\* A message that is in flight or acknowledged waits nowhere, and is in flight once.
FliesOnce(m) ==
  /\ \A i, j \in Ids : Flies(i, m) /\ Flies(j, m) => i = j
  /\ Flown(m) \/ m \in acked => ~(Held(m) \/ Occurs(queue, m) \/ Drains(m) \/ m \in overflowed)
  /\ ~(Flown(m) /\ m \in acked)

\* Before it is routed a message is nowhere.
Routed(m) ==
  pc[m] = "idle" => ~(Held(m) \/ Occurs(queue, m) \/ Drains(m) \/ m \in overflowed
                        \/ Flown(m) \/ m \in acked)

Somewhere(m) ==
  pc[m] # "idle" => Held(m) \/ Occurs(queue, m) \/ Drains(m) \/ Flown(m) \/ m \in acked \cup overflowed

PlaceInv ==
  /\ StageInv
  /\ \A m \in Msgs : Routed(m) /\ WaitsOnce(m)
  /\ ~wrapped => \A m \in Msgs : QoS[m] > 0 => FliesOnce(m) /\ (~CleanSession => Somewhere(m))


\* What a sequence contains after Append.
LEMMA AppendOccurs ==
  ASSUME NEW s \in Seq(Msgs), NEW e \in Msgs, NEW m
  PROVE  /\ Occurs(Append(s, e), m) <=> Occurs(s, m) \/ m = e
         /\ ~Occurs(s, e) => Once(Append(s, e), e)
         /\ m # e /\ Once(s, m) => Once(Append(s, e), m)
<1>1. PICK t : t = Append(s, e)
  BY Zenon
<1>2. /\ \A i \in DOMAIN t : t[i] = e \/ (i \in DOMAIN s /\ t[i] = s[i])
      /\ \A i \in DOMAIN s : i \in DOMAIN t /\ t[i] = s[i]
      /\ Len(s) + 1 \in DOMAIN t /\ t[Len(s) + 1] = e
      /\ \A i \in DOMAIN t : i \notin DOMAIN s => i = Len(s) + 1
  BY <1>1
<1>3. Occurs(t, m) <=> Occurs(s, m) \/ m = e
  BY Zenon, <1>2 DEF Occurs
<1>4. ~Occurs(s, e) => Once(t, e)
  BY Zenon, <1>2 DEF Occurs, Once
<1>5. m # e /\ Once(s, m) => Once(t, m)
  BY Zenon, <1>2 DEF Once
<1> QED BY Zenon, <1>1, <1>3, <1>4, <1>5

\* What a sequence contains after its head is removed.
LEMMA TailOccurs ==
  ASSUME NEW s \in Seq(Msgs), s # <<>>, NEW m
  PROVE  /\ Occurs(s, Head(s))
         /\ Once(s, Head(s)) => ~Occurs(Tail(s), Head(s))
         /\ m # Head(s) => (Occurs(Tail(s), m) <=> Occurs(s, m))
         /\ Once(s, m) => Once(Tail(s), m)
<1>1. PICK t, h : t = Tail(s) /\ h = Head(s)
  BY Zenon
<1>2. /\ 1 \in DOMAIN s /\ s[1] = h
      /\ \A i \in DOMAIN t : i + 1 \in DOMAIN s /\ t[i] = s[i + 1] /\ i + 1 # 1
      /\ \A i \in DOMAIN s : i = 1 \/ (i - 1 \in DOMAIN t /\ t[i - 1] = s[i])
      /\ \A i, j \in DOMAIN t : i + 1 = j + 1 => i = j
  BY <1>1
<1>3. Occurs(s, h)
  BY Zenon, <1>2 DEF Occurs
<1>4. Once(s, h) => ~Occurs(t, h)
  BY Zenon, <1>2 DEF Occurs, Once
<1>5. m # h => (Occurs(t, m) <=> Occurs(s, m))
  BY <1>2 DEF Occurs
<1>6. Once(s, m) => Once(t, m)
  BY ZenonT(40), <1>2 DEF Once
<1> QED BY Zenon, <1>1, <1>3, <1>4, <1>5, <1>6

\* Nothing is in an empty sequence.
LEMMA EmptyOccurs == \A m : ~Occurs(<<>>, m) /\ Once(<<>>, m)
BY DEF Occurs, Once

-----------------------------------------------------------------------------
(* What a step does to one message.                                         *)

HandSame(m)   == \A p \in Procs : Holds(p, m)' <=> Holds(p, m)
HandLess(m, p) == Holds(p, m) /\ \A q \in Procs : Holds(q, m)' <=> Holds(q, m) /\ q # p
HandMore(m, p) == \A q \in Procs : Holds(q, m)' <=> Holds(q, m) \/ q = p
QueueSame(m)  == (Occurs(queue, m)' <=> Occurs(queue, m)) /\ (Once(queue, m) => Once(queue, m)')
DrainSameAt(m, c) ==
  /\ Occurs(drainBuf[c], m)' <=> Occurs(drainBuf[c], m)
  /\ Once(drainBuf[c], m) => Once(drainBuf[c], m)'
DrainSame(m)  == \A c \in Conns : DrainSameAt(m, c)
OverSame(m)   == m \in overflowed' <=> m \in overflowed
AckedSame(m)  == m \in acked' <=> m \in acked
IdleSame(m)   == pc'[m] = "idle" <=> pc[m] = "idle"

\* An entry of outFlight is overwritten only once the identifiers have wrapped.
FlightSame(m) ==
  /\ \A i \in Ids : Flies(i, m)' => Flies(i, m)
  /\ ~wrapped' => \A i \in Ids : Flies(i, m) => Flies(i, m)'
  /\ AckedSame(m)

\* m stays where it is; is routed; is stored by p under i; ends in p's hand; is put into
\* the queue by p; is dropped as the oldest; is taken by the drain of c; is delivered by
\* that drain; is acknowledged under i.
Stays(m) == HandSame(m) /\ QueueSame(m) /\ DrainSame(m) /\ FlightSame(m) /\ OverSame(m) /\ IdleSame(m)
IsRouted(m) ==
  /\ pc[m] = "idle" /\ pc'[m] # "idle" /\ HandMore(m, m)
  /\ QueueSame(m) /\ DrainSame(m) /\ FlightSame(m) /\ OverSame(m)
IsStored(m, p, i) ==
  /\ HandLess(m, p) /\ \A j \in Ids : Flies(j, m)' <=> Flies(j, m) \/ j = i
  /\ QueueSame(m) /\ DrainSame(m) /\ AckedSame(m) /\ OverSame(m) /\ IdleSame(m)
Ends(m, p) ==
  /\ QoS[m] = 0 \/ CleanSession
  /\ HandLess(m, p)
  /\ QueueSame(m) /\ DrainSame(m) /\ FlightSame(m) /\ OverSame(m) /\ IdleSame(m)
IsQueued(m, p) ==
  /\ HandLess(m, p) /\ Occurs(queue, m)' /\ (~Occurs(queue, m) => Once(queue, m)')
  /\ DrainSame(m) /\ FlightSame(m) /\ OverSame(m) /\ IdleSame(m)
IsDropped(m) ==
  /\ Occurs(queue, m) /\ m \in overflowed' /\ (Once(queue, m) => ~Occurs(queue, m)' /\ Once(queue, m)')
  /\ HandSame(m) /\ DrainSame(m) /\ FlightSame(m) /\ IdleSame(m)
IsTaken(m, c) ==
  /\ ~Occurs(drainBuf[c], m) /\ (Occurs(drainBuf[c], m)' <=> Occurs(queue, m))
  /\ Once(queue, m) => Once(drainBuf[c], m)'
  /\ ~Occurs(queue, m)' /\ Once(queue, m)'
  /\ \A d \in Conns \ {c} : DrainSameAt(m, d)
  /\ HandSame(m) /\ FlightSame(m) /\ OverSame(m) /\ IdleSame(m)
IsDrained(m, c) ==
  /\ Occurs(drainBuf[c], m)
  /\ Once(drainBuf[c], m) => ~Occurs(drainBuf[c], m)' /\ Once(drainBuf[c], m)'
  /\ \A d \in Conns \ {c} : DrainSameAt(m, d)
  /\ HandMore(m, c) /\ QueueSame(m) /\ FlightSame(m) /\ OverSame(m) /\ IdleSame(m)
IsAcked(m, i) ==
  /\ Flies(i, m) /\ m \in acked' /\ \A j \in Ids : Flies(j, m)' <=> Flies(j, m) /\ j # i
  /\ HandSame(m) /\ QueueSame(m) /\ DrainSame(m) /\ OverSame(m) /\ IdleSame(m)

Effect(m) ==
  \/ Stays(m) \/ IsRouted(m) \/ IsDropped(m)
  \/ \E p \in Procs : Ends(m, p) \/ IsQueued(m, p) \/ \E i \in Ids : IsStored(m, p, i)
  \/ \E c \in Conns : IsTaken(m, c) \/ IsDrained(m, c)
  \/ \E i \in Ids : IsAcked(m, i)

\* A message keeps waiting in one place at most, whatever happens to it.
LEMMA WaitsEffect ==
  ASSUME NEW m \in Msgs, Routed(m), WaitsOnce(m), Effect(m)
  PROVE  WaitsOnce(m)'
<1>1. CASE Stays(m)
  BY Zenon, <1>1 DEF Stays, HandSame, QueueSame, DrainSame, DrainSameAt, OverSame, WaitsOnce, Held, Drains
<1>2. CASE IsRouted(m)
  BY Zenon, <1>2 DEF IsRouted, Routed, HandMore, QueueSame, DrainSame, DrainSameAt, OverSame, WaitsOnce, Held, Drains
<1>3. CASE IsDropped(m)
  BY Zenon, <1>3 DEF IsDropped, HandSame, DrainSame, DrainSameAt, WaitsOnce, Held, Drains
<1>4. ASSUME NEW p \in Procs, Ends(m, p) PROVE WaitsOnce(m)'
  BY Zenon, <1>4 DEF Ends, HandLess, QueueSame, DrainSame, DrainSameAt, OverSame, WaitsOnce, Held, Drains
<1>5. ASSUME NEW p \in Procs, IsQueued(m, p) PROVE WaitsOnce(m)'
  BY Zenon, <1>5 DEF IsQueued, HandLess, DrainSame, DrainSameAt, OverSame, WaitsOnce, Held, Drains
<1>6. ASSUME NEW p \in Procs, NEW i \in Ids, IsStored(m, p, i) PROVE WaitsOnce(m)'
  BY Zenon, <1>6 DEF IsStored, HandLess, QueueSame, DrainSame, DrainSameAt, OverSame, WaitsOnce, Held, Drains
<1>7. ASSUME NEW c \in Conns, IsTaken(m, c) PROVE WaitsOnce(m)'
  BY Zenon, <1>7 DEF IsTaken, HandSame, DrainSameAt, OverSame, WaitsOnce, Held, Drains
<1>8. ASSUME NEW c \in Conns, IsDrained(m, c) PROVE WaitsOnce(m)'
  BY Zenon, <1>8 DEF IsDrained, HandMore, QueueSame, DrainSameAt, OverSame, WaitsOnce, Held, Drains
<1>9. ASSUME NEW i \in Ids, IsAcked(m, i) PROVE WaitsOnce(m)'
  BY Zenon, <1>9 DEF IsAcked, HandSame, QueueSame, DrainSame, DrainSameAt, OverSame, WaitsOnce, Held, Drains
<1> QED BY Zenon, <1>1, <1>2, <1>3, <1>4, <1>5, <1>6, <1>7, <1>8, <1>9 DEF Effect

\* Only a message that was routed comes anywhere.
LEMMA RoutedEffect ==
  ASSUME NEW m \in Msgs, Routed(m), Effect(m)
  PROVE  Routed(m)'
<1>1. CASE Stays(m)
  BY Zenon, <1>1 DEF Stays, HandSame, QueueSame, DrainSame, DrainSameAt, OverSame, FlightSame, AckedSame,
       IdleSame, Routed, Held, Drains, Flown
<1>2. CASE IsRouted(m)
  BY Zenon, <1>2 DEF IsRouted, Routed
<1>3. CASE IsDropped(m)
  BY Zenon, <1>3 DEF IsDropped, IdleSame, Routed
<1>4. ASSUME NEW p \in Procs, Ends(m, p) \/ IsQueued(m, p) PROVE Routed(m)'
  BY Zenon, <1>4 DEF Ends, IsQueued, HandLess, IdleSame, Routed, Held
<1>5. ASSUME NEW p \in Procs, NEW i \in Ids, IsStored(m, p, i) PROVE Routed(m)'
  BY Zenon, <1>5 DEF IsStored, HandLess, IdleSame, Routed, Held
<1>6. ASSUME NEW c \in Conns, IsTaken(m, c) PROVE Routed(m)'
  BY Zenon, <1>6 DEF IsTaken, HandSame, DrainSameAt, OverSame, FlightSame, AckedSame, IdleSame,
       Routed, Held, Drains, Flown
<1>7. ASSUME NEW c \in Conns, IsDrained(m, c) PROVE Routed(m)'
  BY Zenon, <1>7 DEF IsDrained, IdleSame, Routed, Drains
<1>8. ASSUME NEW i \in Ids, IsAcked(m, i) PROVE Routed(m)'
  BY Zenon, <1>8 DEF IsAcked, IdleSame, Routed, Flown
<1> QED BY Zenon, <1>1, <1>2, <1>3, <1>4, <1>5, <1>6, <1>7, <1>8 DEF Effect

\* A message comes into flight from a hand only, and leaves it for good.
LEMMA FliesEffect ==
  ASSUME NEW m \in Msgs, Routed(m), WaitsOnce(m), FliesOnce(m), Effect(m)
  PROVE  FliesOnce(m)'
<1>1. CASE Stays(m)
  BY Zenon, <1>1 DEF Stays, HandSame, QueueSame, DrainSame, DrainSameAt, OverSame, FlightSame, AckedSame,
       FliesOnce, Held, Drains, Flown
<1>2. CASE IsRouted(m)
  BY Zenon, <1>2 DEF IsRouted, Routed, HandMore, QueueSame, DrainSame, DrainSameAt, OverSame, FlightSame,
       AckedSame, FliesOnce, Held, Drains, Flown
<1>3. CASE IsDropped(m)
  BY Zenon, <1>3 DEF IsDropped, HandSame, DrainSame, DrainSameAt, FlightSame, AckedSame, WaitsOnce,
       FliesOnce, Held, Drains, Flown
<1>4. ASSUME NEW p \in Procs, Ends(m, p) PROVE FliesOnce(m)'
  BY Zenon, <1>4 DEF Ends, HandLess, QueueSame, DrainSame, DrainSameAt, OverSame, FlightSame, AckedSame,
       FliesOnce, Held, Drains, Flown
<1>5. ASSUME NEW p \in Procs, IsQueued(m, p) PROVE FliesOnce(m)'
  BY Zenon, <1>5 DEF IsQueued, HandLess, DrainSame, DrainSameAt, OverSame, FlightSame, AckedSame,
       FliesOnce, Held, Drains, Flown
<1>6. ASSUME NEW p \in Procs, NEW i \in Ids, IsStored(m, p, i) PROVE FliesOnce(m)'
  BY Zenon, <1>6 DEF IsStored, HandLess, QueueSame, DrainSame, DrainSameAt, OverSame, AckedSame,
       WaitsOnce, FliesOnce, Held, Drains, Flown
<1>7. ASSUME NEW c \in Conns, IsTaken(m, c) PROVE FliesOnce(m)'
  BY Zenon, <1>7 DEF IsTaken, HandSame, DrainSameAt, OverSame, FlightSame, AckedSame,
       FliesOnce, Held, Drains, Flown
<1>8. ASSUME NEW c \in Conns, IsDrained(m, c) PROVE FliesOnce(m)'
  BY Zenon, <1>8 DEF IsDrained, HandMore, QueueSame, DrainSameAt, OverSame, FlightSame, AckedSame,
       FliesOnce, Held, Drains, Flown
<1>9. ASSUME NEW i \in Ids, IsAcked(m, i) PROVE FliesOnce(m)'
  BY Zenon, <1>9 DEF IsAcked, HandSame, QueueSame, DrainSame, DrainSameAt, OverSame,
       FliesOnce, Held, Drains, Flown
<1> QED BY Zenon, <1>1, <1>2, <1>3, <1>4, <1>5, <1>6, <1>7, <1>8, <1>9 DEF Effect

\* A message of a persistent session leaves a place only for another.
LEMMA SomewhereEffect ==
  ASSUME NEW m \in Msgs, Somewhere(m), Effect(m), ~CleanSession, QoS[m] # 0, ~wrapped'
  PROVE  Somewhere(m)'
<1>1. CASE Stays(m)
  BY Zenon, <1>1 DEF Stays, HandSame, QueueSame, DrainSame, DrainSameAt, OverSame, FlightSame, AckedSame,
       IdleSame, Somewhere, Held, Drains, Flown
<1>2. CASE IsRouted(m)
  BY Zenon, <1>2 DEF IsRouted, HandMore, Somewhere, Held, Procs
<1>3. CASE IsDropped(m)
  BY Zenon, <1>3 DEF IsDropped, Somewhere
<1>4. ASSUME NEW p \in Procs, Ends(m, p) PROVE Somewhere(m)'
  BY Zenon, <1>4 DEF Ends
<1>5. ASSUME NEW p \in Procs, IsQueued(m, p) PROVE Somewhere(m)'
  BY Zenon, <1>5 DEF IsQueued, Somewhere
<1>6. ASSUME NEW p \in Procs, NEW i \in Ids, IsStored(m, p, i) PROVE Somewhere(m)'
  BY Zenon, <1>6 DEF IsStored, Somewhere, Flown
<1>7. ASSUME NEW c \in Conns, IsTaken(m, c) PROVE Somewhere(m)'
  BY Zenon, <1>7 DEF IsTaken, HandSame, DrainSameAt, OverSame, FlightSame, AckedSame, IdleSame,
       Somewhere, Held, Drains, Flown
<1>8. ASSUME NEW c \in Conns, IsDrained(m, c) PROVE Somewhere(m)'
  BY Zenon, <1>8 DEF IsDrained, HandMore, Somewhere, Held, Procs
<1>9. ASSUME NEW i \in Ids, IsAcked(m, i) PROVE Somewhere(m)'
  BY Zenon, <1>9 DEF IsAcked, Somewhere
<1> QED BY Zenon, <1>1, <1>2, <1>3, <1>4, <1>5, <1>6, <1>7, <1>8, <1>9 DEF Effect

\* Variables that stay keep their messages.
LEMMA QueueFrame == queue' = queue => \A m \in Msgs : QueueSame(m)
BY Zenon DEF QueueSame

\* The same for the drains,
LEMMA DrainFrame == drainBuf' = drainBuf => \A m \in Msgs : DrainSame(m)
BY Zenon DEF DrainSame, DrainSameAt

\* the messages dropped and acknowledged,
LEMMA HistFrame ==
  /\ overflowed' = overflowed => \A m \in Msgs : OverSame(m)
  /\ acked' = acked => \A m \in Msgs : AckedSame(m)
BY Zenon DEF OverSame, AckedSame

\* and the messages in flight.
LEMMA FlightFrame == outFlight' = outFlight /\ acked' = acked => \A m \in Msgs : FlightSame(m)
BY Zenon DEF FlightSame, AckedSame, Flies

\* The goroutines other than p keep what they hold when p moves.
LEMMA OthersHold ==
  ASSUME TypeInv, NEW p \in Procs, NEW l, pc' = [pc EXCEPT ![p] = l],
         NEW x, msg' = [msg EXCEPT ![p] = x], NEW q \in Procs, q # p, NEW m
  PROVE  Holds(q, m)' <=> Holds(q, m)
<1>1. pc'[q] = pc[q] /\ msg'[q] = msg[q]
  BY Zenon DEF TypeInv, TypeOK, ProcTypeOK
<1> QED BY Zenon, <1>1 DEF Holds, Holding, InCall, Stored

\* A step of p inside its call, or outside, that takes nothing into its hand.
LEMMA HandFrame ==
  ASSUME TypeInv, NEW p \in Procs, NEW l, pc' = [pc EXCEPT ![p] = l], msg' = msg,
         Holding(p)' <=> Holding(p), NEW m
  PROVE  HandSame(m)
<1>1. msg' = [msg EXCEPT ![p] = msg[p]]
  BY Zenon DEF TypeInv, TypeOK, ProcTypeOK
<1>2. Holds(p, m)' <=> Holds(p, m)
  BY Zenon DEF Holds
<1> QED BY Zenon, <1>1, <1>2, OthersHold DEF HandSame

\* A step of p that lets go of its message.
LEMMA HandEmpties ==
  ASSUME TypeInv, NEW p \in Procs, NEW l, pc' = [pc EXCEPT ![p] = l], msg' = msg,
         Holding(p), ~Holding(p)', NEW m
  PROVE  IF m = msg[p] THEN HandLess(m, p) ELSE HandSame(m)
<1>1. msg' = [msg EXCEPT ![p] = msg[p]]
  BY Zenon DEF TypeInv, TypeOK, ProcTypeOK
<1>2. ~Holds(p, m)' /\ (Holds(p, m) <=> m = msg[p])
  BY Zenon DEF Holds
<1> QED BY Zenon, <1>1, <1>2, OthersHold DEF HandSame, HandLess

\* A message is routed by its own goroutine only.
LEMMA IdleFrame ==
  ASSUME TypeInv, NEW p \in Procs, NEW l, pc' = [pc EXCEPT ![p] = l],
         p \in Conns \/ (pc[p] # "idle" /\ l # "idle"), NEW m \in Msgs
  PROVE  IdleSame(m)
<1>1. m \in Procs /\ m \notin Conns
  BY Zenon, ConstantsAssumption DEF Procs
<1>2. pc' [m] = IF m = p THEN l ELSE pc[m]
  BY Zenon, <1>1 DEF TypeInv, TypeOK, ProcTypeOK
<1> QED BY Zenon, <1>1, <1>2 DEF IdleSame

\* A goroutine that moves on with its message in hand, or without one, moves no message.
LEMMA StaysFrame ==
  ASSUME TypeInv, NEW p \in Procs, NEW l, pc' = [pc EXCEPT ![p] = l], msg' = msg,
         Holding(p)' <=> Holding(p), p \in Conns \/ (pc[p] # "idle" /\ l # "idle"),
         UNCHANGED <<outFlight, queue, drainBuf, overflowed, acked>>, NEW m \in Msgs
  PROVE  Stays(m)
BY Zenon, HandFrame, IdleFrame, QueueFrame, DrainFrame, HistFrame, FlightFrame DEF Stays

\* A step of the connection alone moves no message.
LEMMA StaysSame ==
  ASSUME UNCHANGED <<outFlight, queue, pc, msg, drainBuf, overflowed, acked>>, NEW m \in Msgs
  PROVE  Stays(m)
<1>1. HandSame(m) /\ IdleSame(m)
  BY Zenon DEF HandSame, IdleSame, Holds, Holding, InCall, Stored
<1> QED BY Zenon, <1>1, QueueFrame, DrainFrame, HistFrame, FlightFrame DEF Stays

-----------------------------------------------------------------------------
(* What each step does to the messages.                                     *)

\* Connections come and go, write, fail to write and subscribe without moving a message.
LEMMA ConnEffect ==
  ASSUME TypeInv, StageInv, NEW c \in Conns, NEW m \in Msgs,
         \/ Connect(c) \/ Subscribe(c) \/ restoreSession(c) \/ cleanup(c)
         \/ Write(c) \/ WriteError(c) \/ UNCHANGED vars
  PROVE  Effect(m)
<1>1. CASE Connect(c)
  <2>1. /\ pc' = [pc EXCEPT ![c] = "pending"] /\ msg' = msg
        /\ UNCHANGED <<outFlight, queue, drainBuf, overflowed, acked>>
    BY Zenon, <1>1 DEF Connect, sessVars, histVars
  <2>2. c \in Procs /\ pc[c] = "idle"
    BY Zenon, <1>1 DEF Connect, StageInv, Procs
  <2>3. pc'[c] = "pending"
    BY Zenon, <2>1, <2>2 DEF TypeInv, TypeOK, ProcTypeOK
  <2>4. ~InCall(c) /\ ~InCall(c)'
    BY Zenon, <2>2, <2>3 DEF InCall
  <2>5. ~Holding(c) /\ ~Holding(c)'
    BY Zenon, <2>4 DEF Holding
  <2> QED BY Zenon, <2>1, <2>2, <2>5, StaysFrame DEF Effect
<1>2. CASE Subscribe(c) \/ restoreSession(c) \/ cleanup(c)
  <2>1. UNCHANGED <<outFlight, queue, pc, msg, drainBuf, overflowed, acked>>
    BY Zenon, <1>2 DEF Subscribe, restoreSession, cleanup, sessVars, procVars, histVars
  <2> QED BY Zenon, <2>1, StaysSame DEF Effect
<1>3. CASE Write(c) \/ WriteError(c)
  <2>1. UNCHANGED <<outFlight, queue, pc, msg, drainBuf, overflowed, acked>>
    BY Zenon, <1>3 DEF Write, WriteError, sessVars, procVars, histVars
  <2> QED BY Zenon, <2>1, StaysSame DEF Effect
<1>4. CASE UNCHANGED vars
  <2>1. UNCHANGED <<outFlight, queue, pc, msg, drainBuf, overflowed, acked>>
    BY Zenon, <1>4 DEF vars, sessVars, procVars, histVars
  <2> QED BY Zenon, <2>1, StaysSame DEF Effect
<1> QED BY Zenon, <1>1, <1>2, <1>3, <1>4

\* RoutePublish hands the message to its goroutine.
LEMMA RouteEffect ==
  ASSUME TypeInv, NEW n \in Msgs, RoutePublish(n), NEW m \in Msgs
  PROVE  Effect(m)
<1>1. /\ pc[n] = "idle" /\ pc' = [pc EXCEPT ![n] = "call"] /\ msg' = msg
      /\ UNCHANGED <<outFlight, queue, drainBuf, overflowed, acked>>
  BY Zenon DEF RoutePublish, Goto, sessVars, histVars
<1>2. n \in Procs /\ msg[n] = n /\ pc'[n] = "call" /\ m \in Procs
  BY Zenon, <1>1 DEF TypeInv, TypeOK, ProcTypeOK, Procs
<1>3. ~Holding(n) /\ Holding(n)'
  BY Zenon, <1>1, <1>2 DEF Holding, InCall, Stored
<1>4. msg' = [msg EXCEPT ![n] = msg[n]]
  BY Zenon, <1>1 DEF TypeInv, TypeOK, ProcTypeOK
<1>5. \A q \in Procs : q # n => (Holds(q, m)' <=> Holds(q, m))
  BY Zenon, <1>1, <1>2, <1>4, OthersHold
<1>6. QueueSame(m) /\ DrainSame(m) /\ FlightSame(m) /\ OverSame(m)
  BY Zenon, <1>1, QueueFrame, DrainFrame, HistFrame, FlightFrame
<1>7. CASE m = n
  <2>1. HandMore(m, m)
    BY Zenon, <1>1, <1>2, <1>3, <1>5, <1>7 DEF HandMore, Holds
  <2>2. pc'[m] # "idle"
    BY Zenon, <1>2, <1>7
  <2> QED BY Zenon, <1>1, <1>6, <1>7, <2>1, <2>2 DEF Effect, IsRouted
<1>8. CASE m # n
  <2>1. HandSame(m)
    BY Zenon, <1>1, <1>2, <1>5, <1>8 DEF HandSame, Holds
  <2>2. IdleSame(m)
    BY Zenon, <1>1, <1>2, <1>8 DEF IdleSame, TypeInv, TypeOK, ProcTypeOK
  <2> QED BY Zenon, <1>6, <2>1, <2>2 DEF Effect, Stays
<1> QED BY Zenon, <1>7, <1>8


\* The steps of a deliver call before the message is stored, sent or queued.
LEMMA CallEffect ==
  ASSUME TypeInv, StageInv, NEW p \in Procs, NEW m \in Msgs,
         DeliverCheck(p) \/ NextPacketIDAdd(p) \/ NextPacketIDProbe(p)
  PROVE  Effect(m)
<1>0. /\ msg' = msg /\ UNCHANGED <<outFlight, queue, drainBuf, overflowed, acked>>
  BY Zenon DEF DeliverCheck, NextPacketIDAdd, NextPacketIDProbe, sessVars, histVars
<1>1. PICK l : pc' = [pc EXCEPT ![p] = l]
  BY Zenon DEF DeliverCheck, NextPacketIDAdd, NextPacketIDProbe, Goto
<1>2. pc'[p] = l
  BY Zenon, <1>1 DEF TypeInv, TypeOK, ProcTypeOK
<1>a. pc \in [Procs -> {"idle", "call", "ticket", "probe", "add", "send",
                        "queue", "done", "pending", "next"}]
  BY Zenon DEF TypeInv, TypeOK, ProcTypeOK
<1>b. /\ pc[p] \in {"call", "ticket", "probe"} /\ pc'[p] \in {"queue", "send", "ticket", "probe", "add"}
      /\ pc'[p] = "send" => QoS[msg[p]] = 0
  <2>1. CASE DeliverCheck(p)
    BY Zenon, <1>a, <2>1 DEF DeliverCheck, Goto
  <2>2. CASE NextPacketIDAdd(p)
    BY Zenon, <1>a, <2>2 DEF NextPacketIDAdd, Goto
  <2>3. CASE NextPacketIDProbe(p)
    BY Zenon, <1>a, <2>3 DEF NextPacketIDProbe, Goto
  <2> QED BY Zenon, <2>1, <2>2, <2>3
<1>3. Holding(p)
  BY Zenon, <1>b DEF Holding, InCall, Stored
<1>4. Holding(p)'
  BY <1>0, <1>b DEF Holding, InCall, Stored
<1>5. pc[p] # "idle" /\ l # "idle"
  BY Zenon, <1>2, <1>b
<1> QED BY Zenon, <1>0, <1>1, <1>3, <1>4, <1>5, StaysFrame DEF Effect

\* AddOutFlightLimited stores the message under an identifier that is free as long as the
\* counter has not wrapped, or keeps it in hand.
LEMMA AddEffect ==
  ASSUME TypeInv, IdInv, StageInv, NEW p \in Procs, AddOutFlightLimited(p), NEW m \in Msgs
  PROVE  Effect(m)
<1>0. /\ pc[p] = "add" /\ msg' = msg /\ UNCHANGED <<queue, drainBuf, overflowed, acked, wrapped>>
  BY Zenon DEF AddOutFlightLimited, histVars
<1>1. /\ QoS[msg[p]] > 0 /\ Holding(p) /\ pid[p] \in Ids /\ msg[p] \in Msgs /\ via[p] \in Conns
  BY Zenon, <1>0 DEF StageInv, Holding, InCall, HoldsId, Stored, TypeInv, TypeOK, ProcTypeOK
<1>2. QueueSame(m) /\ DrainSame(m) /\ OverSame(m) /\ AckedSame(m)
  BY Zenon, <1>0, QueueFrame, DrainFrame, HistFrame
<1>3. CASE pc' = [pc EXCEPT ![p] = "queue"] /\ outFlight' = outFlight
  <2>1. pc'[p] = "queue"
    BY Zenon, <1>3 DEF TypeInv, TypeOK, ProcTypeOK
  <2>2. Holding(p)'
    BY Zenon, <2>1 DEF Holding, InCall, Stored
  <2>3. pc[p] # "idle" /\ "queue" # "idle"
    BY Zenon, <1>0
  <2> QED BY Zenon, <1>0, <1>1, <1>3, <2>2, <2>3, StaysFrame DEF Effect
<1>4. ASSUME pc' = [pc EXCEPT ![p] = "send"],
             NEW e, e = [msg |-> msg[p], phase |-> "QoS2Published", conn |-> via[p]],
             outFlight' = [outFlight EXCEPT ![pid[p]] = e]
      PROVE  Effect(m)
  <2>1. pc'[p] = "send"
    BY Zenon, <1>4 DEF TypeInv, TypeOK, ProcTypeOK
  <2>2. ~Holding(p)'
    BY Zenon, <1>0, <1>1, <2>1 DEF Holding, Stored
  <2>3. IF m = msg[p] THEN HandLess(m, p) ELSE HandSame(m)
    BY Zenon, <1>0, <1>1, <1>4, <2>2, HandEmpties
  <2>4. pc[p] # "idle" /\ "send" # "idle"
    BY Zenon, <1>0
  <2>5. IdleSame(m)
    BY Zenon, <1>4, <2>4, IdleFrame
  <2>6. e \in Entries /\ e.msg = msg[p]
    BY Zenon, <1>1, <1>4 DEF Entries, Phases
  <2>7. e # NoEntry
    BY Zenon, <2>6, NoEntryAssumption
  <2>8. \A j \in Ids : outFlight'[j] = IF j = pid[p] THEN e ELSE outFlight[j]
    BY Zenon, <1>1, <1>4 DEF TypeInv, TypeOK, SessTypeOK
  <2>9. CASE m = msg[p]
    <3>1. \A j \in Ids : Flies(j, m)' <=> Flies(j, m) \/ j = pid[p]
      BY Zenon, <2>6, <2>7, <2>8, <2>9 DEF Flies
    <3> QED BY Zenon, <1>1, <1>2, <2>3, <2>5, <2>9, <3>1 DEF Effect, IsStored
  <2>10. CASE m # msg[p]
    <3>1. \A j \in Ids : Flies(j, m)' => Flies(j, m)
      BY Zenon, <2>6, <2>7, <2>8, <2>10 DEF Flies
    <3>2. HoldsId(p)
      BY Zenon, <1>0 DEF HoldsId
    <3>3. ~wrapped' => outFlight[pid[p]] = NoEntry
      BY Zenon, <1>0, <3>2 DEF IdInv
    <3>4. ~wrapped' => \A j \in Ids : Flies(j, m) => Flies(j, m)'
      BY Zenon, <3>3, <2>8 DEF Flies
    <3> QED BY Zenon, <1>2, <2>3, <2>5, <2>10, <3>1, <3>4 DEF Effect, Stays, FlightSame
  <2> QED BY Zenon, <2>9, <2>10
<1> QED BY Zenon, <1>3, <1>4 DEF AddOutFlightLimited, Goto

\* DeliverSend: a message of QoS 0 is gone, others are in flight already.
LEMMA SendEffect ==
  ASSUME TypeInv, NEW p \in Procs, DeliverSend(p), NEW m \in Msgs
  PROVE  Effect(m)
<1>0. /\ pc[p] = "send" /\ msg' = msg /\ UNCHANGED <<outFlight, queue, drainBuf, overflowed, acked>>
      /\ Return(p)
  BY Zenon DEF DeliverSend, sessVars
<1>1. PICK l : pc' = [pc EXCEPT ![p] = l] /\ l \in {"done", "next"}
  BY Zenon, <1>0 DEF Return, Goto
<1>2. pc'[p] = l
  BY Zenon, <1>1 DEF TypeInv, TypeOK, ProcTypeOK
<1>3. ~Holding(p)' /\ pc[p] # "idle" /\ l # "idle"
  BY Zenon, <1>0, <1>1, <1>2 DEF Holding, InCall
<1>4. CASE Holding(p)
  <2>0. QoS[msg[p]] = 0
    <3>1. InCall(p)
      BY Zenon, <1>0 DEF InCall
    <3>2. msg[p] \in Msgs /\ ~(QoS[msg[p]] > 0)
      BY Zenon, <1>0, <1>4, <3>1 DEF Holding, Stored, TypeInv, TypeOK, ProcTypeOK
    <3> QED BY <3>2, ConstantsAssumption
  <2>1. IF m = msg[p] THEN HandLess(m, p) ELSE HandSame(m)
    BY Zenon, <1>0, <1>1, <1>3, <1>4, HandEmpties
  <2>2. IdleSame(m) /\ QueueSame(m) /\ DrainSame(m) /\ OverSame(m) /\ FlightSame(m)
    BY Zenon, <1>0, <1>1, <1>3, IdleFrame, QueueFrame, DrainFrame, HistFrame, FlightFrame
  <2>3. CASE m = msg[p]
    BY Zenon, <2>0, <2>1, <2>2, <2>3 DEF Effect, Ends
  <2>4. CASE m # msg[p]
    BY Zenon, <2>1, <2>2, <2>4 DEF Effect, Stays
  <2> QED BY Zenon, <2>3, <2>4
<1>5. CASE ~Holding(p)
  BY Zenon, <1>0, <1>1, <1>3, <1>5, StaysFrame DEF Effect
<1> QED BY Zenon, <1>4, <1>5


\* Enqueue: a clean session forgets the message; otherwise it goes to the end of the queue,
\* and a full queue drops its oldest.
LEMMA EnqueueEffect ==
  ASSUME TypeInv, NEW p \in Procs, Enqueue(p), \A n \in Msgs : WaitsOnce(n), NEW m \in Msgs
  PROVE  Effect(m)
<1>0. /\ pc[p] = "queue" /\ msg' = msg /\ UNCHANGED <<outFlight, drainBuf, acked>> /\ Return(p)
  BY Zenon DEF Enqueue
<1>1. PICK l : pc' = [pc EXCEPT ![p] = l] /\ l \in {"done", "next"}
  BY Zenon, <1>0 DEF Return, Goto
<1>2. pc'[p] = l
  BY Zenon, <1>1 DEF TypeInv, TypeOK, ProcTypeOK
<1>3. ~Holding(p)' /\ Holding(p) /\ InCall(p) /\ pc[p] # "idle" /\ l # "idle"
  BY Zenon, <1>0, <1>1, <1>2 DEF Holding, InCall, Stored
<1>4. msg[p] \in Msgs /\ queue \in Seq(Msgs)
  BY Zenon, <1>3 DEF TypeInv, TypeOK, ProcTypeOK, SessTypeOK
<1>5. IF m = msg[p] THEN HandLess(m, p) ELSE HandSame(m)
  BY Zenon, <1>0, <1>1, <1>3, HandEmpties
<1>6. IdleSame(m) /\ DrainSame(m) /\ FlightSame(m)
  BY Zenon, <1>0, <1>1, <1>3, IdleFrame, DrainFrame, FlightFrame
<1>7. CASE CleanSession
  <2>1. QueueSame(m) /\ OverSame(m)
    BY Zenon, <1>7, QueueFrame, HistFrame DEF Enqueue
  <2>2. CASE m = msg[p]
    BY Zenon, <1>5, <1>6, <1>7, <2>1, <2>2 DEF Effect, Ends
  <2>3. CASE m # msg[p]
    BY Zenon, <1>5, <1>6, <2>1, <2>3 DEF Effect, Stays
  <2> QED BY Zenon, <2>2, <2>3
<1>8. CASE queue' = Append(queue, msg[p]) /\ overflowed' = overflowed
  <2>1. OverSame(m)
    BY Zenon, <1>8, HistFrame
  <2>2. CASE m = msg[p]
    <3>1. Occurs(queue, m)' /\ (~Occurs(queue, m) => Once(queue, m)')
      BY Zenon, <1>4, <1>8, <2>2, AppendOccurs
    <3> QED BY Zenon, <1>5, <1>6, <2>1, <2>2, <3>1 DEF Effect, IsQueued
  <2>3. CASE m # msg[p]
    <3>1. QueueSame(m)
      BY Zenon, <1>4, <1>8, <2>3, AppendOccurs DEF QueueSame
    <3> QED BY Zenon, <1>5, <1>6, <2>1, <2>3, <3>1 DEF Effect, Stays
  <2> QED BY Zenon, <2>2, <2>3
<1>9. ASSUME ~CleanSession, Len(queue) >= MaxQueue,
             queue' = Append(Tail(queue), msg[p]), overflowed' = overflowed \cup {Head(queue)}
      PROVE  Effect(m)
  <2>1. queue # <<>>
    BY <1>4, <1>9, ConstantsAssumption
  <2>2. PICK t, h : t = Tail(queue) /\ h = Head(queue) /\ t \in Seq(Msgs) /\ h \in Msgs
    <3>1. Tail(queue) \in Seq(Msgs) /\ Head(queue) \in Msgs
      BY <1>4, <2>1
    <3> QED BY Zenon, <3>1
  <2>3. /\ Occurs(queue, h) /\ (Once(queue, h) => ~Occurs(t, h))
        /\ m # h => (Occurs(t, m) <=> Occurs(queue, m))
        /\ Once(queue, m) => Once(t, m)
    BY Zenon, <1>4, <2>1, <2>2, TailOccurs
  <2>4. queue' = Append(t, msg[p]) /\ overflowed' = overflowed \cup {h}
    BY Zenon, <1>9, <2>2
  <2>5. h # msg[p]
    <3>1. WaitsOnce(h) /\ (h = msg[p] => Held(h))
      BY Zenon, <1>3, <2>2 DEF Held, Holds
    <3> QED BY Zenon, <2>3, <3>1 DEF WaitsOnce
  <2>6. CASE m = msg[p]
    <3>1. Occurs(queue, m)' /\ (~Occurs(t, m) => Once(queue, m)')
      BY Zenon, <1>4, <2>2, <2>4, <2>6, AppendOccurs
    <3>2. OverSame(m)
      BY Zenon, <2>4, <2>5, <2>6 DEF OverSame
    <3>3. ~Occurs(queue, m) => Once(queue, m)'
      BY Zenon, <2>3, <2>5, <2>6, <3>1
    <3> QED BY Zenon, <1>5, <1>6, <2>6, <3>1, <3>2, <3>3 DEF Effect, IsQueued
  <2>7. CASE m = h
    <3>1. Occurs(queue, m)' <=> Occurs(t, m)
      BY Zenon, <1>4, <2>2, <2>4, <2>5, <2>7, AppendOccurs
    <3>2. Once(t, m) => Once(queue, m)'
      BY Zenon, <1>4, <2>2, <2>4, <2>5, <2>7, AppendOccurs
    <3>3. m \in overflowed'
      BY Zenon, <2>4, <2>7
    <3>4. HandSame(m)
      BY Zenon, <1>5, <2>5, <2>7
    <3> QED BY Zenon, <1>6, <2>3, <2>7, <3>1, <3>2, <3>3, <3>4 DEF Effect, IsDropped
  <2>8. CASE m # msg[p] /\ m # h
    <3>1. /\ Occurs(queue, m)' <=> Occurs(t, m)
          /\ Once(t, m) => Once(queue, m)'
      BY Zenon, <1>4, <2>2, <2>4, <2>8, AppendOccurs
    <3>2. QueueSame(m)
      BY Zenon, <2>3, <2>8, <3>1 DEF QueueSame
    <3>3. OverSame(m)
      BY Zenon, <2>4, <2>8 DEF OverSame
    <3> QED BY Zenon, <1>5, <1>6, <2>8, <3>2, <3>3 DEF Effect, Stays
  <2> QED BY Zenon, <2>6, <2>7, <2>8
<1> QED BY Zenon, <1>7, <1>8, <1>9 DEF Enqueue

\* DrainQueue moves the whole queue into the buffer of the drain.
LEMMA TakeEffect ==
  ASSUME TypeInv, StageInv, NEW c \in Conns, DrainQueue(c), NEW m \in Msgs
  PROVE  Effect(m)
<1>0. /\ pc[c] = "pending" /\ msg' = msg /\ UNCHANGED <<outFlight, acked, overflowed>>
      /\ pc' = [pc EXCEPT ![c] = "next"] /\ c \in Procs
      /\ queue' = <<>> /\ drainBuf' = [drainBuf EXCEPT ![c] = queue]
  BY Zenon DEF DrainQueue, Goto, histVars, Procs
<1>1. pc'[c] = "next"
  BY Zenon, <1>0 DEF TypeInv, TypeOK, ProcTypeOK
<1>2. ~InCall(c) /\ ~InCall(c)'
  BY Zenon, <1>0, <1>1 DEF InCall
<1>3. HandSame(m) /\ IdleSame(m) /\ FlightSame(m) /\ OverSame(m)
  BY Zenon, <1>0, <1>2, HandFrame, IdleFrame, FlightFrame, HistFrame DEF Holding
<1>4. drainBuf[c] = <<>>
  BY Zenon, <1>0 DEF StageInv
<1>5. /\ drainBuf'[c] = queue
      /\ \A d \in Conns \ {c} : drainBuf'[d] = drainBuf[d]
  BY Zenon, <1>0 DEF TypeInv, TypeOK, ProcTypeOK
<1>6. /\ ~Occurs(drainBuf[c], m) /\ ~Occurs(queue, m)' /\ Once(queue, m)'
  BY Zenon, <1>0, <1>4, EmptyOccurs
<1>7. /\ Occurs(drainBuf[c], m)' <=> Occurs(queue, m)
      /\ Once(queue, m) => Once(drainBuf[c], m)'
      /\ \A d \in Conns \ {c} : DrainSameAt(m, d)
  BY Zenon, <1>5 DEF DrainSameAt
<1> QED BY Zenon, <1>3, <1>6, <1>7 DEF Effect, IsTaken

\* DrainNext takes the first message of the buffer into the hand of the drain.
LEMMA NextEffect ==
  ASSUME TypeInv, NEW c \in Conns, DrainNext(c), NEW m \in Msgs
  PROVE  Effect(m)
<1>0. /\ pc[c] = "next" /\ UNCHANGED <<outFlight, queue, acked, overflowed>> /\ c \in Procs
  BY Zenon DEF DrainNext, histVars, sessVars, Procs
<1>1. ~InCall(c)
  BY Zenon, <1>0 DEF InCall
<1>2. CASE drainBuf[c] = <<>>
  <2>1. pc' = [pc EXCEPT ![c] = "done"] /\ UNCHANGED <<msg, drainBuf>>
    BY Zenon, <1>2 DEF DrainNext, Goto
  <2>2. pc'[c] = "done"
    BY Zenon, <1>0, <2>1 DEF TypeInv, TypeOK, ProcTypeOK
  <2>3. ~InCall(c)'
    BY Zenon, <2>2 DEF InCall
  <2> QED BY Zenon, <1>0, <1>1, <2>1, <2>3, StaysFrame DEF Effect, Holding
<1>3. CASE drainBuf[c] # <<>>
  <2>0. drainBuf[c] \in Seq(Msgs)
    BY Zenon DEF TypeInv, TypeOK, ProcTypeOK
  <2>1. PICK t, h : t = Tail(drainBuf[c]) /\ h = Head(drainBuf[c]) /\ t \in Seq(Msgs) /\ h \in Msgs
    <3>1. Tail(drainBuf[c]) \in Seq(Msgs) /\ Head(drainBuf[c]) \in Msgs
      BY <2>0, <1>3
    <3> QED BY Zenon, <3>1
  <2>2. /\ pc' = [pc EXCEPT ![c] = "call"] /\ msg' = [msg EXCEPT ![c] = h]
        /\ drainBuf' = [drainBuf EXCEPT ![c] = t]
    BY Zenon, <1>3, <2>1 DEF DrainNext, Goto
  <2>3. /\ pc'[c] = "call" /\ msg'[c] = h /\ drainBuf'[c] = t
        /\ \A d \in Conns \ {c} : drainBuf'[d] = drainBuf[d]
    BY Zenon, <1>0, <2>2 DEF TypeInv, TypeOK, ProcTypeOK
  <2>4. Holding(c)' /\ ~Holding(c)
    BY Zenon, <1>0, <2>3 DEF Holding, InCall, Stored
  <2>5. \A q \in Procs : q # c => (Holds(q, m)' <=> Holds(q, m))
    BY Zenon, <1>0, <2>2, OthersHold
  <2>6. IdleSame(m) /\ QueueSame(m) /\ FlightSame(m) /\ OverSame(m)
    BY Zenon, <1>0, <2>2, IdleFrame, QueueFrame, FlightFrame, HistFrame
  <2>7. /\ Occurs(drainBuf[c], h) /\ (Once(drainBuf[c], h) => ~Occurs(t, h))
        /\ m # h => (Occurs(t, m) <=> Occurs(drainBuf[c], m))
        /\ Once(drainBuf[c], m) => Once(t, m)
    BY Zenon, <2>0, <1>3, <2>1, TailOccurs
  <2>8. \A d \in Conns \ {c} : DrainSameAt(m, d)
    BY Zenon, <2>3 DEF DrainSameAt
  <2>9. CASE m = h
    <3>1. HandMore(m, c)
      BY Zenon, <2>3, <2>4, <2>5, <2>9 DEF HandMore, Holds
    <3>2. /\ Occurs(drainBuf[c], m)
          /\ Once(drainBuf[c], m) => ~Occurs(drainBuf[c], m)' /\ Once(drainBuf[c], m)'
      BY Zenon, <2>3, <2>7, <2>9
    <3> QED BY Zenon, <2>6, <2>8, <3>1, <3>2 DEF Effect, IsDrained
  <2>10. CASE m # h
    <3>1. HandSame(m)
      BY Zenon, <2>3, <2>4, <2>5, <2>10 DEF HandSame, Holds
    <3>2. DrainSameAt(m, c)
      BY Zenon, <2>3, <2>7, <2>10 DEF DrainSameAt
    <3>3. DrainSame(m)
      BY Zenon, <2>8, <3>2 DEF DrainSame
    <3> QED BY Zenon, <2>6, <3>1, <3>3 DEF Effect, Stays
  <2> QED BY Zenon, <2>9, <2>10
<1> QED BY Zenon, <1>2, <1>3

\* AckOutFlight takes the message under the identifier out of flight, if there is one.
LEMMA AckFlight ==
  ASSUME TypeInv, NEW i \in Ids, AckOutFlight(i), NEW m \in Msgs,
         UNCHANGED <<queue, pc, msg, drainBuf, overflowed>>
  PROVE  Effect(m)
<1>1. HandSame(m) /\ IdleSame(m) /\ QueueSame(m) /\ DrainSame(m) /\ OverSame(m)
  <2>1. HandSame(m) /\ IdleSame(m)
    BY Zenon DEF HandSame, IdleSame, Holds, Holding, InCall, Stored
  <2> QED BY Zenon, <2>1, QueueFrame, DrainFrame, HistFrame
<1>2. \A j \in Ids : outFlight'[j] = IF j = i THEN NoEntry ELSE outFlight[j]
  BY Zenon DEF AckOutFlight, TypeInv, TypeOK, SessTypeOK
<1>3. CASE Flies(i, m)
  <2>1. m \in acked'
    BY Zenon, <1>3 DEF AckOutFlight, Flies
  <2>2. \A j \in Ids : Flies(j, m)' <=> Flies(j, m) /\ j # i
    BY Zenon, <1>2 DEF Flies
  <2> QED BY Zenon, <1>1, <1>3, <2>1, <2>2 DEF Effect, IsAcked
<1>4. CASE ~Flies(i, m)
  <2>1. AckedSame(m)
    BY Zenon, <1>4 DEF AckOutFlight, Flies, AckedSame
  <2>2. \A j \in Ids : Flies(j, m)' <=> Flies(j, m)
    BY Zenon, <1>2, <1>4 DEF Flies
  <2>3. FlightSame(m)
    BY Zenon, <2>1, <2>2 DEF FlightSame
  <2> QED BY Zenon, <1>1, <2>3 DEF Effect, Stays
<1> QED BY Zenon, <1>3, <1>4

\* PUBACK and PUBCOMP acknowledge; PUBREC only changes the phase of the entry.
LEMMA AckEffect ==
  ASSUME TypeInv, NEW c \in Conns, NEW m \in Msgs,
         handlePuback(c) \/ handlePubrec(c) \/ handlePubcomp(c)
  PROVE  Effect(m)
<1>0. \A k \in inbox[c] : k.id \in Ids
  <2>1. ASSUME NEW k \in inbox[c] PROVE k.id \in Ids
    <3>1. k \in Packets /\ k.id # 0
      BY Zenon, <2>1 DEF TypeInv, TypeOK, ConnTypeOK, PacketsOK
    <3> QED BY <3>1, ConstantsAssumption DEF Packets, Ids
  <2> QED BY Zenon, <2>1
<1>1. CASE handlePuback(c) \/ handlePubcomp(c)
  <2>1. PICK k \in inbox[c] : AckOutFlight(k.id)
    BY Zenon, <1>1 DEF handlePuback, handlePubcomp
  <2>2. UNCHANGED <<queue, pc, msg, drainBuf, overflowed>>
    BY Zenon, <1>1 DEF handlePuback, handlePubcomp, procVars
  <2>3. PICK i \in Ids : i = k.id
    BY Zenon, <1>0
  <2> QED BY Zenon, <2>1, <2>2, <2>3, AckFlight
<1>2. CASE handlePubrec(c)
  <2>1. /\ UNCHANGED <<queue, pc, msg, drainBuf, overflowed, acked>>
    BY Zenon, <1>2 DEF handlePubrec, procVars, histVars
  <2>2. PICK k \in inbox[c] : outFlight' = IF outFlight[k.id] = NoEntry THEN outFlight
                    ELSE [outFlight EXCEPT ![k.id].phase = "QoS2Received"]
    BY Zenon, <1>2 DEF handlePubrec
  <2>3. PICK i \in Ids : i = k.id
    BY Zenon, <1>0
  <2>4. outFlight' = IF outFlight[i] = NoEntry THEN outFlight
                       ELSE [outFlight EXCEPT ![i].phase = "QoS2Received"]
    BY Zenon, <2>2, <2>3
  <2>5. CASE outFlight[i] = NoEntry
    BY Zenon, <2>1, <2>4, <2>5, StaysSame DEF Effect
  <2>6. CASE outFlight[i] # NoEntry
    <3>1. PICK e : e = [outFlight[i] EXCEPT !.phase = "QoS2Received"]
      BY Zenon
    <3>2. outFlight[i] \in Entries
      BY Zenon, <2>6 DEF TypeInv, TypeOK, SessTypeOK
    <3>3. e \in Entries /\ e.msg = outFlight[i].msg
      BY Zenon, <3>1, <3>2 DEF Entries, Phases
    <3>4. e # NoEntry
      BY Zenon, <3>3, NoEntryAssumption
    <3>5. \A j \in Ids : outFlight'[j] = IF j = i THEN e ELSE outFlight[j]
      BY Zenon, <2>4, <2>6, <3>1 DEF TypeInv, TypeOK, SessTypeOK
    <3>6. \A j \in Ids : Flies(j, m)' <=> Flies(j, m)
      BY Zenon, <2>6, <3>3, <3>4, <3>5 DEF Flies
    <3>7. AckedSame(m)
      BY Zenon, <2>1, HistFrame
    <3>8. FlightSame(m)
      BY Zenon, <3>6, <3>7 DEF FlightSame
    <3>9. HandSame(m) /\ IdleSame(m)
      BY Zenon, <2>1 DEF HandSame, IdleSame, Holds, Holding, InCall, Stored
    <3>10. QueueSame(m) /\ DrainSame(m) /\ OverSame(m)
      BY Zenon, <2>1, QueueFrame, DrainFrame, HistFrame
    <3> QED BY Zenon, <3>8, <3>9, <3>10 DEF Effect, Stays
  <2> QED BY Zenon, <2>5, <2>6
<1> QED BY Zenon, <1>1, <1>2

\* The stages of connections and calls follow each other.
LEMMA StageStep == TypeInv /\ StageInv /\ [Next]_vars => StageInv'
<1> SUFFICES ASSUME TypeInv, StageInv, [Next]_vars PROVE StageInv'
  BY Zenon
<1>0. /\ pc \in [Procs -> {"idle", "call", "ticket", "probe", "add", "send",
                           "queue", "done", "pending", "next"}]
      /\ msg \in [Procs -> Msgs \cup {NoMsg}] /\ drainBuf \in [Conns -> Seq(Msgs)]
      /\ state \in [Conns -> {"handshaking", "connected", "closed"}]
      /\ Conns \cap Msgs = {} /\ Procs = Msgs \cup Conns /\ QoS \in [Msgs -> 0..2]
      /\ \A p \in Procs : InCall(p) => msg[p] \in Msgs
  BY Zenon, ConstantsAssumption DEF TypeInv, TypeOK, ConnTypeOK, ProcTypeOK, Procs
<1>frame. ASSUME UNCHANGED <<state, pc, msg, drainBuf>> PROVE StageInv'
  BY Zenon, <1>frame DEF StageInv
<1>1. ASSUME NEW c \in Conns,
             \/ Subscribe(c) \/ restoreSession(c) \/ Write(c) \/ WriteError(c)
             \/ handlePuback(c) \/ handlePubrec(c) \/ handlePubcomp(c)
      PROVE  StageInv'
  <2>1. UNCHANGED <<state, pc, msg, drainBuf>>
    BY Zenon, <1>1 DEF Subscribe, restoreSession, Write, WriteError, handlePuback, handlePubrec,
         handlePubcomp, procVars
  <2> QED BY Zenon, <1>frame, <2>1
<1>2. ASSUME NEW c \in Conns, Connect(c) PROVE StageInv'
  <2>1. /\ pc' = [pc EXCEPT ![c] = "pending"] /\ UNCHANGED <<msg, drainBuf>>
        /\ state' = [state EXCEPT ![c] = "connected"] /\ state[c] = "handshaking"
    BY Zenon, <1>2 DEF Connect
  <2> QED BY Zenon, <1>0, <2>1 DEF StageInv
<1>3. ASSUME NEW c \in Conns, cleanup(c) PROVE StageInv'
  <2>1. /\ UNCHANGED <<pc, msg, drainBuf>> /\ state' = [state EXCEPT ![c] = "closed"]
    BY Zenon, <1>3 DEF cleanup, procVars
  <2> QED BY Zenon, <1>0, <2>1 DEF StageInv
<1>4. ASSUME NEW c \in Conns, DrainQueue(c) PROVE StageInv'
  <2>1. /\ pc' = [pc EXCEPT ![c] = "next"] /\ UNCHANGED <<msg, state>>
        /\ drainBuf' = [drainBuf EXCEPT ![c] = queue] /\ pc[c] = "pending"
    BY Zenon, <1>4 DEF DrainQueue, Goto, connVars
  <2> QED BY Zenon, <1>0, <2>1 DEF StageInv
<1>5. ASSUME NEW c \in Conns, DrainNext(c) PROVE StageInv'
  <2>0. UNCHANGED state /\ pc[c] = "next"
    BY Zenon, <1>5 DEF DrainNext, connVars
  <2>1. PICK l \in {"done", "call"} : pc' = [pc EXCEPT ![c] = l]
    BY Zenon, <1>5 DEF DrainNext, Goto
  <2>2. \A d \in Conns : d # c => drainBuf'[d] = drainBuf[d]
    BY Zenon, <1>0, <1>5 DEF DrainNext
  <2>3. \A p \in Procs : p # c => msg'[p] = msg[p]
    BY Zenon, <1>0, <1>5 DEF DrainNext
  <2> QED BY Zenon, <1>0, <2>0, <2>1, <2>2, <2>3 DEF StageInv
<1>6. ASSUME NEW m \in Msgs, RoutePublish(m) PROVE StageInv'
  <2>1. /\ pc' = [pc EXCEPT ![m] = "call"] /\ UNCHANGED <<msg, drainBuf, state>>
    BY Zenon, <1>6 DEF RoutePublish, Goto, connVars
  <2> QED BY Zenon, <1>0, <2>1 DEF StageInv
<1>7. ASSUME NEW p \in Procs, DeliverStep(p) PROVE StageInv'
  <2>1. UNCHANGED <<msg, drainBuf, state>>
    BY Zenon, <1>7 DEF DeliverStep, DeliverCheck, NextPacketIDAdd, NextPacketIDProbe, AddOutFlightLimited,
         DeliverSend, Enqueue, connVars
  <2>2. PICK l : pc' = [pc EXCEPT ![p] = l]
    BY Zenon, <1>7 DEF DeliverStep, DeliverCheck, NextPacketIDAdd, NextPacketIDProbe, AddOutFlightLimited,
         DeliverSend, Enqueue, Return, Goto
  <2>3. InCall(p)
    BY Zenon, <1>7 DEF DeliverStep, DeliverCheck, NextPacketIDAdd, NextPacketIDProbe, AddOutFlightLimited,
         DeliverSend, Enqueue, InCall
  <2>4. pc'[p] \notin {"idle", "pending"} /\ (pc'[p] \in {"ticket", "probe", "add"} => QoS[msg[p]] > 0)
    <3>1. CASE DeliverCheck(p)
      BY <1>0, <2>3, <3>1 DEF DeliverCheck, Goto
    <3>2. CASE NextPacketIDAdd(p)
      BY Zenon, <1>0, <3>2 DEF NextPacketIDAdd, Goto, StageInv
    <3>3. CASE NextPacketIDProbe(p)
      BY Zenon, <1>0, <3>3 DEF NextPacketIDProbe, Goto, StageInv
    <3>4. CASE AddOutFlightLimited(p)
      <4>1. PICK k \in {"send", "queue"} : pc' = [pc EXCEPT ![p] = k]
        BY Zenon, <3>4 DEF AddOutFlightLimited, Goto
      <4> QED BY Zenon, <1>0, <4>1
    <3>5. CASE Return(p)
      <4>1. PICK k \in {"done", "next"} : pc' = [pc EXCEPT ![p] = k]
        BY Zenon, <3>5 DEF Return, Goto
      <4> QED BY Zenon, <1>0, <4>1
    <3> QED BY Zenon, <1>7, <3>1, <3>2, <3>3, <3>4, <3>5 DEF DeliverStep, DeliverSend, Enqueue
  <2>5. \A q \in Procs : q # p => pc'[q] = pc[q]
    BY Zenon, <1>0, <2>2
  <2>6. p \in Conns => state[p] # "handshaking"
    BY Zenon, <2>3 DEF StageInv, InCall
  <2> QED BY Zenon, <1>0, <2>1, <2>4, <2>5, <2>6 DEF StageInv
<1>8. CASE UNCHANGED vars
  BY Zenon, <1>8, <1>frame DEF vars, connVars, procVars
<1> QED BY Zenon, <1>1, <1>2, <1>3, <1>4, <1>5, <1>6, <1>7, <1>8 DEF Next, DrainStep


\* The identifiers never un-wrap.
LEMMA WrappedStays == TypeInv /\ [Next]_vars => (wrapped => wrapped')
<1> SUFFICES ASSUME [Next]_vars, wrapped PROVE wrapped'
  BY Zenon
<1>1. ASSUME NEW c \in Conns,
             \/ Connect(c) \/ Subscribe(c) \/ restoreSession(c) \/ cleanup(c) \/ Write(c) \/ WriteError(c)
             \/ handlePuback(c) \/ handlePubrec(c) \/ handlePubcomp(c) \/ DrainStep(c)
      PROVE  wrapped'
  BY Zenon, <1>1 DEF Connect, Subscribe, restoreSession, cleanup, Write, WriteError, handlePuback,
       handlePubrec, handlePubcomp, DrainStep, DrainQueue, DrainNext, histVars
<1>2. ASSUME NEW m \in Msgs, RoutePublish(m) PROVE wrapped'
  BY Zenon, <1>2 DEF RoutePublish, histVars
<1>3. ASSUME NEW p \in Procs, DeliverStep(p) PROVE wrapped'
  BY Zenon, <1>3 DEF DeliverStep, DeliverCheck, NextPacketIDAdd, NextPacketIDProbe, AddOutFlightLimited,
       DeliverSend, Enqueue, histVars
<1>4. CASE UNCHANGED vars
  BY Zenon, <1>4 DEF vars, histVars
<1> QED BY Zenon, <1>1, <1>2, <1>3, <1>4 DEF Next

\* Every step has one of the effects on every message.
LEMMA EveryEffect ==
  ASSUME TypeInv, IdInv, PlaceInv, [Next]_vars, NEW m \in Msgs
  PROVE  Effect(m)
<1>0. StageInv /\ \A n \in Msgs : WaitsOnce(n)
  BY Zenon DEF PlaceInv
<1>1. ASSUME NEW c \in Conns,
             \/ Connect(c) \/ Subscribe(c) \/ restoreSession(c) \/ cleanup(c) \/ Write(c) \/ WriteError(c)
      PROVE  Effect(m)
  BY Zenon, <1>0, <1>1, ConnEffect
<1>2. ASSUME NEW c \in Conns, handlePuback(c) \/ handlePubrec(c) \/ handlePubcomp(c)
      PROVE  Effect(m)
  BY Zenon, <1>2, AckEffect
<1>3. ASSUME NEW c \in Conns, DrainQueue(c) \/ DrainNext(c)
      PROVE  Effect(m)
  BY Zenon, <1>0, <1>3, TakeEffect, NextEffect
<1>4. ASSUME NEW n \in Msgs, RoutePublish(n) PROVE Effect(m)
  BY Zenon, <1>4, RouteEffect
<1>5. ASSUME NEW p \in Procs, DeliverStep(p) PROVE Effect(m)
  <2>1. CASE DeliverCheck(p) \/ NextPacketIDAdd(p) \/ NextPacketIDProbe(p)
    BY Zenon, <1>0, <2>1, CallEffect
  <2>2. CASE AddOutFlightLimited(p)
    BY Zenon, <1>0, <2>2, AddEffect
  <2>3. CASE DeliverSend(p)
    BY Zenon, <2>3, SendEffect
  <2>4. CASE Enqueue(p)
    BY Zenon, <1>0, <2>4, EnqueueEffect
  <2> QED BY Zenon, <1>5, <2>1, <2>2, <2>3, <2>4 DEF DeliverStep
<1>6. CASE UNCHANGED vars
  <2>1. UNCHANGED <<outFlight, queue, pc, msg, drainBuf, overflowed, acked>>
    BY Zenon, <1>6 DEF vars, sessVars, procVars, histVars
  <2> QED BY Zenon, <2>1, StaysSame DEF Effect
<1> QED BY Zenon, <1>1, <1>2, <1>3, <1>4, <1>5, <1>6 DEF Next, DrainStep

\* Messages stay in their places.
LEMMA PlaceStep == TypeInv /\ IdInv /\ PlaceInv /\ [Next]_vars => PlaceInv'
<1> SUFFICES ASSUME TypeInv, IdInv, PlaceInv, [Next]_vars PROVE PlaceInv'
  BY Zenon
<1>1. StageInv'
  BY Zenon, StageStep DEF PlaceInv
<1>2. ASSUME NEW m \in Msgs PROVE Effect(m) /\ Routed(m) /\ WaitsOnce(m) /\ Routed(m)' /\ WaitsOnce(m)'
  <2>1. Effect(m) /\ Routed(m) /\ WaitsOnce(m)
    BY Zenon, EveryEffect DEF PlaceInv
  <2> QED BY Zenon, <2>1, RoutedEffect, WaitsEffect
<1>3. ASSUME ~wrapped', NEW m \in Msgs, QoS[m] > 0
      PROVE  FliesOnce(m)' /\ (~CleanSession => Somewhere(m)')
  <2>1. ~wrapped
    BY Zenon, <1>3, WrappedStays
  <2>2. FliesOnce(m) /\ (~CleanSession => Somewhere(m))
    BY Zenon, <1>3, <2>1 DEF PlaceInv
  <2>3. QoS[m] # 0
    BY <1>3
  <2> QED BY Zenon, <1>2, <1>3, <2>2, <2>3, FliesEffect, SomewhereEffect
<1> QED BY Zenon, <1>1, <1>2, <1>3 DEF PlaceInv

\* Initially nothing was routed.
LEMMA PlaceInit == Init => PlaceInv
<1> SUFFICES ASSUME Init PROVE PlaceInv
  BY Zenon
<1>1. \A p \in Procs : pc[p] = "idle" /\ ~Holding(p)
  BY Zenon DEF Init, Holding, InCall
<1>2. StageInv
  <2>1. \A c \in Conns : pc[c] = "idle" /\ drainBuf[c] = <<>>
    BY Zenon, <1>1 DEF Init, Procs
  <2> QED BY Zenon, <1>1, <2>1 DEF StageInv
<1>3. ASSUME NEW m \in Msgs
      PROVE  /\ pc[m] = "idle" /\ ~Held(m) /\ ~Occurs(queue, m) /\ ~Drains(m) /\ ~Flown(m)
             /\ m \notin acked /\ m \notin overflowed
             /\ Once(queue, m) /\ \A c \in Conns : Once(drainBuf[c], m) /\ ~Occurs(drainBuf[c], m)
  <2>1. pc[m] = "idle" /\ ~Held(m) /\ \A p \in Procs : ~Holds(p, m)
    BY Zenon, <1>1 DEF Held, Holds, Procs
  <2>2. /\ ~Occurs(queue, m) /\ Once(queue, m)
        /\ \A c \in Conns : Once(drainBuf[c], m) /\ ~Occurs(drainBuf[c], m)
    BY Zenon, EmptyOccurs DEF Init
  <2>3. ~Flown(m) /\ ~Drains(m)
    BY Zenon, <2>2 DEF Init, Flown, Flies, Drains
  <2>4. m \notin acked /\ m \notin overflowed
    BY Zenon DEF Init
  <2> QED BY Zenon, <2>1, <2>2, <2>3, <2>4
<1>4. ASSUME NEW m \in Msgs PROVE Routed(m) /\ WaitsOnce(m) /\ FliesOnce(m) /\ Somewhere(m)
  <2>1. (\A p \in Procs : ~Holds(p, m)) /\ \A i \in Ids : ~Flies(i, m)
    BY Zenon, <1>3 DEF Held, Flown
  <2>2. WaitsOnce(m)
    BY Zenon, <1>3, <2>1 DEF WaitsOnce
  <2>3. FliesOnce(m)
    BY Zenon, <1>3, <2>1 DEF FliesOnce
  <2> QED BY Zenon, <1>3, <2>2, <2>3 DEF Routed, Somewhere
<1> QED BY Zenon, <1>2, <1>4 DEF PlaceInv

\* The places of the invariant are those of the properties.
LEMMA SamePlaces ==
  ASSUME NEW m \in Msgs, TypeInv, QoS[m] > 0
  PROVE  /\ Held(m) <=> InHand(m)
         /\ Occurs(queue, m) <=> InQueue(m)
         /\ Drains(m) <=> InDrain(m)
         /\ Flown(m) <=> InFlight(m)
<1>1. \A p \in Procs : Holds(p, m) <=> InCall(p) /\ pc[p] # "send" /\ msg[p] = m
  BY Zenon DEF Holds, Holding, Stored
<1>2. Held(m) <=> InHand(m)
  BY Zenon, <1>1 DEF Held, InHand
<1>3. (Occurs(queue, m) <=> InQueue(m)) /\ (Drains(m) <=> InDrain(m)) /\ (Flown(m) <=> InFlight(m))
  BY Zenon DEF Occurs, InQueue, Drains, InDrain, Flown, Flies, InFlight
<1> QED BY Zenon, <1>2, <1>3

\* Every message is in one place: type correctness, distinct identifiers and PlaceInv
\* are inductive together.
LEMMA PlacesHold == Spec => [](TypeInv /\ IdInv /\ PlaceInv)
<1>1. Init => TypeInv /\ IdInv /\ PlaceInv
  BY Zenon, InitType, IdInit, PlaceInit
<1>2. TypeInv /\ IdInv /\ PlaceInv /\ [Next]_vars => (TypeInv /\ IdInv /\ PlaceInv)'
  BY Zenon, TypeStep, IdStep, PlaceStep
<1> QED BY <1>1, <1>2, PTL DEF Spec

\* makeDeliverFn, drainOfflineQueue and the acknowledgement handlers, for any number of
\* messages, connections and goroutines: as long as the identifiers have not wrapped, a
\* QoS > 0 message routed to a persistent session is in some hand, queued, being drained, in
\* flight or acknowledged, unless the full queue dropped it as its oldest message.
THEOREM NothingLostSilently == Spec => []NoSilentLoss
<1>1. TypeInv /\ IdInv /\ PlaceInv => NoSilentLoss
  <2> SUFFICES ASSUME TypeInv, PlaceInv, ~CleanSession, ~wrapped,
                      NEW m \in Msgs, QoS[m] > 0, pc[m] # "idle"
               PROVE  \/ InHand(m) \/ InQueue(m) \/ InDrain(m) \/ InFlight(m)
                      \/ m \in acked \cup overflowed
    BY Zenon DEF NoSilentLoss
  <2>1. Somewhere(m)
    BY Zenon DEF PlaceInv
  <2> QED BY Zenon, <2>1, SamePlaces DEF Somewhere
<1> QED BY <1>1, PlacesHold, PTL

\* The same code sends nothing twice: a QoS > 0 message in flight or acknowledged is not
\* waiting in any hand, queue or drain and was not counted as dropped, so that no goroutine
\* can store or write it again.
THEOREM NothingSentTwice == Spec => []SentAtMostOnce
<1>1. TypeInv /\ IdInv /\ PlaceInv => SentAtMostOnce
  <2> SUFFICES ASSUME TypeInv, PlaceInv, ~wrapped,
                      NEW m \in Msgs, QoS[m] > 0, InFlight(m) \/ m \in acked
               PROVE  /\ ~(InHand(m) \/ InQueue(m) \/ InDrain(m) \/ m \in overflowed)
                      /\ ~(InFlight(m) /\ m \in acked)
    BY Zenon DEF SentAtMostOnce
  <2>1. FliesOnce(m)
    BY Zenon DEF PlaceInv
  <2> QED BY Zenon, <2>1, SamePlaces DEF FliesOnce
<1> QED BY <1>1, PlacesHold, PTL


-----------------------------------------------------------------------------
(* The gauge of offline messages.                                           *)

DrainingOf(buf) == UNION {{c} \X DOMAIN buf[c] : c \in Conns}
Draining == DrainingOf(drainBuf)
Calling == {c \in Conns : InCall(c)}

GaugeInv ==
  /\ IsFiniteSet(Draining) /\ IsFiniteSet(overflowed)
  /\ offlineQueued = Len(queue) + Cardinality(Draining) + Cardinality(Calling) + Cardinality(overflowed)

\* DrainQueue adds one place for each message of the queue.
LEMMA DrainingFills ==
  ASSUME NEW c \in Conns, drainBuf \in [Conns -> Seq(Msgs)], drainBuf[c] = <<>>,
         NEW q \in Seq(Msgs), drainBuf' = [drainBuf EXCEPT ![c] = q], IsFiniteSet(Draining)
  PROVE  IsFiniteSet(Draining)' /\ Cardinality(Draining)' = Cardinality(Draining) + Len(q)
<1>1. PICK A : A = {c} \X (1 .. Len(q))
  BY Zenon
<1>2. PICK D, E : D = Draining /\ E = Draining'
  BY Zenon
<1>a. PICK b : b = drainBuf'
  BY Zenon
<1>b. D = DrainingOf(drainBuf) /\ E = DrainingOf(b)
  BY Zenon, <1>2, <1>a DEF Draining, DrainingOf
<1>3. /\ \A x : x \in D <=> \E d \in Conns : \E i \in DOMAIN drainBuf[d] : x = <<d, i>>
      /\ \A x : x \in E <=> \E d \in Conns : \E i \in DOMAIN b[d] : x = <<d, i>>
  BY <1>b DEF DrainingOf
<1>4. /\ DOMAIN drainBuf[c] = {} /\ DOMAIN b[c] = 1 .. Len(q) /\ Len(q) \in Nat
      /\ \A d \in Conns : d # c => DOMAIN b[d] = DOMAIN drainBuf[d]
  BY <1>a
<1>5. \A x : x \in A <=> \E i \in 1 .. Len(q) : x = <<c, i>>
  BY <1>1
<1>6. E = D \cup A
  <2>1. \A x : x \in E => x \in D \/ x \in A
    BY <1>3, <1>4, <1>5
  <2>2. \A x : x \in D => x \in E
    BY <1>3, <1>4
  <2>3. \A x : x \in A => x \in E
    BY Zenon, <1>3, <1>4, <1>5
  <2> QED BY Zenon, <2>1, <2>2, <2>3
<1>7. D \cap A = {}
  BY <1>3, <1>4, <1>5
<1>8. IsFiniteSet({c}) /\ Cardinality({c}) = 1 /\ IsFiniteSet(1 .. Len(q)) /\ Cardinality(1 .. Len(q)) = Len(q)
  <2>1. IsFiniteSet(1 .. Len(q)) /\ Cardinality(1 .. Len(q)) = IF 1 > Len(q) THEN 0 ELSE Len(q) - 1 + 1
    <3>1. 1 \in Int /\ Len(q) \in Int
      BY <1>4
    <3> QED BY Zenon, <3>1, FS_Interval
  <2>2. (IF 1 > Len(q) THEN 0 ELSE Len(q) - 1 + 1) = Len(q)
    BY <1>4
  <2> QED BY Zenon, <2>1, <2>2, FS_Singleton
<1>9. IsFiniteSet(A) /\ Cardinality(A) = 1 * Len(q)
  <2>1. PICK S, T : S = {c} /\ T = 1 .. Len(q)
    BY Zenon
  <2>2. IsFiniteSet(S \X T) /\ Cardinality(S \X T) = Cardinality(S) * Cardinality(T)
    BY Zenon, <1>8, <2>1, FS_Product
  <2> QED BY Zenon, <1>1, <1>8, <2>1, <2>2
<1>10. IsFiniteSet(D) /\ Cardinality(D) \in Nat
  BY Zenon, <1>2, FS_CardinalityType
<1>11. IsFiniteSet(E) /\ Cardinality(E) = Cardinality(D) + Cardinality(A) - Cardinality(D \cap A)
  BY Zenon, <1>6, <1>9, <1>10, FS_Union
<1>12. Cardinality(D \cap A) = 0
  BY Zenon, <1>7, FS_EmptySet
<1>13. Cardinality(E) = Cardinality(D) + Len(q)
  BY <1>4, <1>9, <1>10, <1>11, <1>12
<1> QED BY Zenon, <1>2, <1>11, <1>13

\* DrainNext removes one.
LEMMA DrainingShrinks ==
  ASSUME NEW c \in Conns, drainBuf \in [Conns -> Seq(Msgs)], drainBuf[c] # <<>>,
         drainBuf' = [drainBuf EXCEPT ![c] = Tail(drainBuf[c])], IsFiniteSet(Draining)
  PROVE  IsFiniteSet(Draining)' /\ Cardinality(Draining)' = Cardinality(Draining) - 1
<1>1. PICK n : n = Len(drainBuf[c])
  BY Zenon
<1>2. PICK D, E : D = Draining /\ E = Draining'
  BY Zenon
<1>a. PICK b : b = drainBuf'
  BY Zenon
<1>b. D = DrainingOf(drainBuf) /\ E = DrainingOf(b)
  BY Zenon, <1>2, <1>a DEF Draining, DrainingOf
<1>3. /\ \A x : x \in D <=> \E d \in Conns : \E i \in DOMAIN drainBuf[d] : x = <<d, i>>
      /\ \A x : x \in E <=> \E d \in Conns : \E i \in DOMAIN b[d] : x = <<d, i>>
  BY <1>b DEF DrainingOf
<1>4. /\ n \in DOMAIN drainBuf[c] /\ \A i : i \in DOMAIN b[c] <=> i \in DOMAIN drainBuf[c] /\ i # n
      /\ \A d \in Conns : d # c => DOMAIN b[d] = DOMAIN drainBuf[d]
  BY <1>1, <1>a
<1>5. <<c, n>> \in D
  BY Zenon, <1>3, <1>4
<1>6. \A d, i : <<d, i>> = <<c, n>> <=> d = c /\ i = n
  BY Zenon
<1>7. E = D \ {<<c, n>>}
  <2>1. \A x : x \in E => x \in D /\ x # <<c, n>>
    <3> SUFFICES ASSUME NEW x, x \in E PROVE x \in D /\ x # <<c, n>>
      OBVIOUS
    <3>0. PICK d \in Conns : \E i \in DOMAIN b[d] : x = <<d, i>>
      BY Zenon, <1>3
    <3>1. PICK i \in DOMAIN b[d] : x = <<d, i>>
      BY Zenon, <3>0
    <3>2. CASE d = c
      <4>1. i \in DOMAIN drainBuf[c] /\ i # n
        BY Zenon, <1>4, <3>1, <3>2
      <4>2. x \in D
        BY Zenon, <1>3, <3>1, <3>2, <4>1
      <4> QED BY Zenon, <1>6, <3>1, <4>1, <4>2
    <3>3. CASE d # c
      <4>1. i \in DOMAIN drainBuf[d]
        BY Zenon, <1>4, <3>1, <3>3
      <4>2. x \in D
        BY Zenon, <1>3, <3>1, <4>1
      <4> QED BY Zenon, <1>6, <3>1, <3>3, <4>2
    <3> QED BY Zenon, <3>2, <3>3
  <2>2. \A x : x \in D /\ x # <<c, n>> => x \in E
    BY Zenon, <1>3, <1>4
  <2> QED BY Zenon, <2>1, <2>2
<1>8. IsFiniteSet(E) /\ Cardinality(E) = Cardinality(D) - 1
  BY Zenon, <1>2, <1>5, <1>7, FS_RemoveElement
<1> QED BY Zenon, <1>2, <1>8

\* The drains inside a deliver call when p moves.
LEMMA CallingMoves ==
  ASSUME TypeInv, NEW p \in Procs, NEW l, pc' = [pc EXCEPT ![p] = l]
  PROVE  /\ IsFiniteSet(Calling) /\ Cardinality(Calling) \in Nat
         /\ p \in Msgs \/ (InCall(p)' <=> InCall(p)) => Calling' = Calling
         /\ p \in Conns /\ InCall(p) /\ ~InCall(p)' => Cardinality(Calling)' = Cardinality(Calling) - 1
         /\ p \in Conns /\ ~InCall(p) /\ InCall(p)' => Cardinality(Calling)' = Cardinality(Calling) + 1
<1>0. Calling \in SUBSET Conns
  BY Zenon DEF Calling
<1>1. IsFiniteSet(Calling) /\ Cardinality(Calling) \in Nat
  BY Zenon, <1>0, ConstantsAssumption, FS_Subset, FS_CardinalityType
<1>2. \A q \in Procs : q # p => (InCall(q)' <=> InCall(q))
  BY Zenon DEF InCall, TypeInv, TypeOK, ProcTypeOK
<1>3. \A c \in Conns : c \in Procs /\ c \notin Msgs
  BY Zenon, ConstantsAssumption DEF Procs
<1>4. p \in Msgs \/ (InCall(p)' <=> InCall(p)) => Calling' = Calling
  BY Zenon, <1>2, <1>3 DEF Calling
<1>5. ASSUME p \in Conns, InCall(p), ~InCall(p)' PROVE Cardinality(Calling)' = Cardinality(Calling) - 1
  <2>1. Calling' = Calling \ {p} /\ p \in Calling
    BY Zenon, <1>2, <1>3, <1>5 DEF Calling
  <2> QED BY Zenon, <1>1, <2>1, FS_RemoveElement
<1>6. ASSUME p \in Conns, ~InCall(p), InCall(p)' PROVE Cardinality(Calling)' = Cardinality(Calling) + 1
  <2>1. Calling' = Calling \cup {p} /\ p \notin Calling
    BY Zenon, <1>2, <1>3, <1>6 DEF Calling
  <2> QED BY Zenon, <1>1, <2>1, FS_AddElement
<1> QED BY Zenon, <1>1, <1>4, <1>5, <1>6


\* A call that returns takes one drain, or no drain, out of its call.
LEMMA CallingReturns ==
  ASSUME TypeInv, NEW p \in Procs, InCall(p), Return(p)
  PROVE  Cardinality(Calling)' = Cardinality(Calling) - (IF p \in Conns THEN 1 ELSE 0)
<1>1. PICK l \in {"done", "next"} : pc' = [pc EXCEPT ![p] = l]
  BY Zenon DEF Return, Goto
<1>2. pc'[p] = l
  BY Zenon, <1>1 DEF TypeInv, TypeOK, ProcTypeOK
<1>3. ~InCall(p)'
  BY Zenon, <1>1, <1>2 DEF InCall
<1>4. CASE p \in Conns
  BY Zenon, <1>1, <1>3, <1>4, CallingMoves
<1>5. CASE p \notin Conns
  <2>1. p \in Msgs
    BY Zenon, <1>5 DEF Procs
  <2>2. Cardinality(Calling) \in Nat /\ Calling' = Calling
    BY Zenon, <1>1, <2>1, CallingMoves
  <2> QED BY <1>5, <2>2
<1> QED BY Zenon, <1>4, <1>5

\* The gauge counts what it should after every step.
LEMMA GaugeStep == TypeInv /\ PlaceInv /\ GaugeInv /\ [Next]_vars => GaugeInv'
<1> SUFFICES ASSUME TypeInv, PlaceInv, GaugeInv, [Next]_vars PROVE GaugeInv'
  BY Zenon
<1>0. /\ pc \in [Procs -> {"idle", "call", "ticket", "probe", "add", "send",
                           "queue", "done", "pending", "next"}]
      /\ drainBuf \in [Conns -> Seq(Msgs)] /\ queue \in Seq(Msgs)
      /\ \A p \in Procs : InCall(p) => msg[p] \in Msgs
      /\ \A c \in Conns : c \in Procs
  BY Zenon DEF TypeInv, TypeOK, SessTypeOK, ProcTypeOK, Procs
<1>n. /\ IsFiniteSet(Draining) /\ IsFiniteSet(overflowed) /\ IsFiniteSet(Calling)
      /\ Cardinality(Draining) \in Nat /\ Cardinality(overflowed) \in Nat /\ Cardinality(Calling) \in Nat
  <2>1. Calling \in SUBSET Conns
    BY Zenon DEF Calling
  <2>2. IsFiniteSet(Calling)
    BY Zenon, <2>1, ConstantsAssumption, FS_Subset
  <2> QED BY Zenon, <2>2, FS_CardinalityType DEF GaugeInv
<1>e. offlineQueued = Len(queue) + Cardinality(Draining) + Cardinality(Calling) + Cardinality(overflowed)
  BY Zenon DEF GaugeInv
<1>frame. ASSUME UNCHANGED <<queue, drainBuf, overflowed, offlineQueued>>, Calling' = Calling
          PROVE  GaugeInv'
  <2>1. Draining' = Draining
    BY Zenon, <1>frame DEF Draining
  <2> QED BY Zenon, <1>frame, <2>1 DEF GaugeInv
<1>same. ASSUME UNCHANGED <<queue, drainBuf, overflowed, offlineQueued, pc>> PROVE GaugeInv'
  BY Zenon, <1>frame, <1>same DEF Calling, InCall
<1>1. ASSUME NEW c \in Conns,
             \/ Subscribe(c) \/ restoreSession(c) \/ cleanup(c) \/ Write(c) \/ WriteError(c)
             \/ handlePuback(c) \/ handlePubrec(c) \/ handlePubcomp(c)
      PROVE  GaugeInv'
  <2>1. UNCHANGED <<queue, drainBuf, overflowed, offlineQueued, pc>>
    BY Zenon, <1>1 DEF Subscribe, restoreSession, cleanup, Write, WriteError, handlePuback, handlePubrec,
         handlePubcomp, procVars, sessVars, histVars
  <2> QED BY Zenon, <1>same, <2>1
<1>2. ASSUME NEW c \in Conns, Connect(c) PROVE GaugeInv'
  <2>1. /\ pc' = [pc EXCEPT ![c] = "pending"] /\ UNCHANGED <<queue, drainBuf, overflowed, offlineQueued>>
        /\ pc[c] = "idle"
    BY Zenon, <1>2 DEF Connect, sessVars, histVars, PlaceInv, StageInv
  <2>2. pc'[c] = "pending"
    BY Zenon, <1>0, <2>1
  <2>3. ~InCall(c) /\ ~InCall(c)'
    BY Zenon, <2>1, <2>2 DEF InCall
  <2> QED BY Zenon, <1>0, <1>frame, <2>1, <2>3, CallingMoves
<1>3. ASSUME NEW m \in Msgs, RoutePublish(m) PROVE GaugeInv'
  <2>1. /\ pc' = [pc EXCEPT ![m] = "call"] /\ UNCHANGED <<queue, drainBuf, overflowed, offlineQueued>>
        /\ m \in Procs
    BY Zenon, <1>3 DEF RoutePublish, Goto, sessVars, histVars, Procs
  <2> QED BY Zenon, <1>frame, <2>1, CallingMoves
<1>4. ASSUME NEW p \in Procs,
             DeliverCheck(p) \/ NextPacketIDAdd(p) \/ NextPacketIDProbe(p) \/ AddOutFlightLimited(p)
      PROVE  GaugeInv'
  <2>1. UNCHANGED <<queue, drainBuf, overflowed, offlineQueued>>
    BY Zenon, <1>4 DEF DeliverCheck, NextPacketIDAdd, NextPacketIDProbe, AddOutFlightLimited, sessVars, histVars
  <2>2. PICK l \in {"queue", "send", "ticket", "probe", "add"} : pc' = [pc EXCEPT ![p] = l]
    BY Zenon, <1>4 DEF DeliverCheck, NextPacketIDAdd, NextPacketIDProbe, AddOutFlightLimited, Goto
  <2>3. InCall(p)
    BY Zenon, <1>4 DEF DeliverCheck, NextPacketIDAdd, NextPacketIDProbe, AddOutFlightLimited, InCall
  <2>4. pc'[p] = l
    BY Zenon, <1>0, <2>2
  <2>5. InCall(p)'
    BY Zenon, <2>2, <2>4 DEF InCall
  <2> QED BY Zenon, <1>frame, <2>1, <2>2, <2>3, <2>5, CallingMoves
<1>5. ASSUME NEW p \in Procs, DeliverSend(p) PROVE GaugeInv'
  <2>1. UNCHANGED <<queue, drainBuf, overflowed>> /\ Return(p) /\ Gauge(p, 0) /\ pc[p] = "send"
    BY Zenon, <1>5 DEF DeliverSend, sessVars
  <2>2. InCall(p)
    BY Zenon, <2>1 DEF InCall
  <2>3. Cardinality(Calling)' = Cardinality(Calling) - (IF p \in Conns THEN 1 ELSE 0)
    BY Zenon, <2>1, <2>2, CallingReturns
  <2>4. Draining' = Draining /\ IsFiniteSet(Draining)' /\ IsFiniteSet(overflowed)'
    BY Zenon, <1>n, <2>1 DEF Draining
  <2>5. offlineQueued' = Len(queue) + Cardinality(Draining) + Cardinality(Calling)' + Cardinality(overflowed)
    BY <1>0, <1>n, <1>e, <2>1, <2>3 DEF Gauge
  <2> QED BY Zenon, <2>1, <2>4, <2>5 DEF GaugeInv
<1>6. ASSUME NEW p \in Procs, Enqueue(p) PROVE GaugeInv'
  <2>1. UNCHANGED drainBuf /\ Return(p) /\ pc[p] = "queue"
    BY Zenon, <1>6 DEF Enqueue
  <2>2. InCall(p)
    BY Zenon, <2>1 DEF InCall
  <2>3. Cardinality(Calling)' = Cardinality(Calling) - (IF p \in Conns THEN 1 ELSE 0)
    BY Zenon, <2>1, <2>2, CallingReturns
  <2>4. Draining' = Draining /\ IsFiniteSet(Draining)'
    BY Zenon, <1>n, <2>1 DEF Draining
  <2>5. msg[p] \in Msgs
    BY Zenon, <1>0, <2>2
  <2>6. CASE CleanSession
    <3>1. UNCHANGED <<queue, overflowed>> /\ Gauge(p, 0)
      BY Zenon, <1>6, <2>6 DEF Enqueue
    <3>2. offlineQueued' = Len(queue) + Cardinality(Draining) + Cardinality(Calling)' + Cardinality(overflowed)
      BY <1>0, <1>n, <1>e, <2>3, <3>1 DEF Gauge
    <3> QED BY Zenon, <1>n, <2>4, <3>1, <3>2 DEF GaugeInv
  <2>7. CASE Gauge(p, 1) /\ queue' = Append(queue, msg[p]) /\ overflowed' = overflowed
    <3>1. Len(queue)' = Len(queue) + 1
      BY <1>0, <2>5, <2>7
    <3>2. offlineQueued' = Len(queue)' + Cardinality(Draining) + Cardinality(Calling)' + Cardinality(overflowed)
      BY <1>0, <1>n, <1>e, <2>3, <2>7, <3>1 DEF Gauge
    <3> QED BY Zenon, <1>n, <2>4, <2>7, <3>2 DEF GaugeInv
  <2>8. ASSUME Gauge(p, 1), Len(queue) >= MaxQueue,
               queue' = Append(Tail(queue), msg[p]), overflowed' = overflowed \cup {Head(queue)}
        PROVE  GaugeInv'
    <3>1. queue # <<>>
      BY <1>0, <2>8, ConstantsAssumption
    <3>2. Len(queue)' = Len(queue) /\ Head(queue) \in Msgs
      BY <1>0, <2>5, <2>8, <3>1
    <3>3. Occurs(queue, Head(queue))
      BY Zenon, <1>0, <3>1, TailOccurs
    <3>4. Head(queue) \notin overflowed
      BY Zenon, <3>2, <3>3 DEF PlaceInv, WaitsOnce
    <3>5. IsFiniteSet(overflowed)' /\ Cardinality(overflowed)' = Cardinality(overflowed) + 1
      BY Zenon, <1>n, <2>8, <3>4, FS_AddElement
    <3>6. offlineQueued' = Len(queue)' + Cardinality(Draining) + Cardinality(Calling)' + Cardinality(overflowed)'
      <4>1. offlineQueued' = (offlineQueued + 1) - (IF p \in Conns THEN 1 ELSE 0)
        BY Zenon, <2>8 DEF Gauge
      <4>2. Len(queue) \in Nat
        BY <1>0
      <4> QED BY <1>n, <1>e, <2>3, <3>2, <3>5, <4>1, <4>2
    <3> QED BY Zenon, <2>4, <3>5, <3>6 DEF GaugeInv
  <2> QED BY Zenon, <1>6, <2>6, <2>7, <2>8 DEF Enqueue
<1>7. ASSUME NEW c \in Conns, DrainQueue(c) PROVE GaugeInv'
  <2>1. /\ pc[c] = "pending" /\ pc' = [pc EXCEPT ![c] = "next"] /\ queue' = <<>>
        /\ drainBuf' = [drainBuf EXCEPT ![c] = queue] /\ UNCHANGED <<offlineQueued, overflowed>>
    BY Zenon, <1>7 DEF DrainQueue, Goto, histVars
  <2>2. pc'[c] = "next" /\ drainBuf[c] = <<>>
    BY Zenon, <1>0, <2>1 DEF PlaceInv, StageInv
  <2>3. ~InCall(c) /\ ~InCall(c)'
    BY Zenon, <2>1, <2>2 DEF InCall
  <2>4. Calling' = Calling
    BY Zenon, <1>0, <2>1, <2>3, CallingMoves
  <2>5. IsFiniteSet(Draining)' /\ Cardinality(Draining)' = Cardinality(Draining) + Len(queue)
    BY Zenon, <1>0, <1>n, <2>1, <2>2, DrainingFills
  <2>6. Len(queue)' = 0
    BY Zenon, <2>1
  <2>7. offlineQueued' = Len(queue)' + Cardinality(Draining)' + Cardinality(Calling) + Cardinality(overflowed)
    BY <1>0, <1>n, <1>e, <2>1, <2>5, <2>6
  <2> QED BY Zenon, <1>n, <2>1, <2>4, <2>5, <2>7 DEF GaugeInv
<1>8. ASSUME NEW c \in Conns, DrainNext(c) PROVE GaugeInv'
  <2>0. UNCHANGED <<queue, offlineQueued, overflowed>> /\ pc[c] = "next"
    BY Zenon, <1>8 DEF DrainNext, sessVars, histVars
  <2>a. ~InCall(c)
    BY Zenon, <2>0 DEF InCall
  <2>1. ASSUME UNCHANGED drainBuf, pc' = [pc EXCEPT ![c] = "done"] PROVE GaugeInv'
    <3>1. pc'[c] = "done"
      BY Zenon, <1>0, <2>1
    <3>2. ~InCall(c)'
      BY Zenon, <3>1 DEF InCall
    <3> QED BY Zenon, <1>0, <1>frame, <2>0, <2>a, <2>1, <3>2, CallingMoves
  <2>2. ASSUME drainBuf[c] # <<>>, pc' = [pc EXCEPT ![c] = "call"],
               drainBuf' = [drainBuf EXCEPT ![c] = Tail(drainBuf[c])]
        PROVE  GaugeInv'
    <3>1. pc'[c] = "call"
      BY Zenon, <1>0, <2>2
    <3>2. InCall(c)'
      BY Zenon, <3>1 DEF InCall
    <3>3. Cardinality(Calling)' = Cardinality(Calling) + 1
      BY Zenon, <1>0, <2>a, <2>2, <3>2, CallingMoves
    <3>4. IsFiniteSet(Draining)' /\ Cardinality(Draining)' = Cardinality(Draining) - 1
      BY Zenon, <1>0, <1>n, <2>2, DrainingShrinks
    <3>5. offlineQueued' = Len(queue) + Cardinality(Draining)' + Cardinality(Calling)' + Cardinality(overflowed)
      BY <1>0, <1>n, <1>e, <2>0, <3>3, <3>4
    <3> QED BY Zenon, <1>n, <2>0, <3>4, <3>5 DEF GaugeInv
  <2> QED BY Zenon, <1>8, <2>1, <2>2 DEF DrainNext, Goto
<1>9. CASE UNCHANGED vars
  BY Zenon, <1>9, <1>same DEF vars, sessVars, procVars, histVars
<1> QED BY Zenon, <1>1, <1>2, <1>3, <1>4, <1>5, <1>6, <1>7, <1>8, <1>9 DEF Next, DeliverStep, DrainStep

\* Initially nothing is queued and the gauge is 0.
LEMMA GaugeInit == Init => GaugeInv
<1> SUFFICES ASSUME Init PROVE GaugeInv
  BY Zenon
<1>1. Draining = {}
  BY DEF Init, Draining, DrainingOf
<1>2. Calling = {}
  BY Zenon DEF Init, Calling, InCall, Procs
<1>3. overflowed = {} /\ queue = <<>> /\ offlineQueued = 0
  BY Zenon DEF Init
<1>4. IsFiniteSet({}) /\ Cardinality({}) = 0 /\ Len(<<>>) = 0
  BY Zenon, FS_EmptySet
<1>5. offlineQueued = Len(queue) + Cardinality(Draining) + Cardinality(Calling) + Cardinality(overflowed)
  BY <1>1, <1>2, <1>3, <1>4
<1> QED BY Zenon, <1>1, <1>3, <1>4, <1>5 DEF GaugeInv

\* metrics.OfflineQueuedMessages, for every interleaving of deliver calls and drains: the
\* gauge is the number of messages queued, in the buffer of a drain or in its hand, plus one
\* for every message a full queue has dropped.
THEOREM GaugeIsExact == Spec => []GaugeAccounts
<1>1. Init => TypeInv /\ IdInv /\ PlaceInv /\ GaugeInv
  BY Zenon, InitType, IdInit, PlaceInit, GaugeInit
<1>2. TypeInv /\ IdInv /\ PlaceInv /\ GaugeInv /\ [Next]_vars => (TypeInv /\ IdInv /\ PlaceInv /\ GaugeInv)'
  BY Zenon, TypeStep, IdStep, PlaceStep, GaugeStep
<1>3. GaugeInv => GaugeAccounts
  BY Zenon DEF GaugeInv, GaugeAccounts, Draining, DrainingOf, Calling
<1> QED BY <1>1, <1>2, <1>3, PTL DEF Spec

=============================================================================
