------------------------------ MODULE Delivery ------------------------------
(***************************************************************************)
(* Outbound delivery of the broker: one MQTT session                       *)
(* (internal/session/session.go), the successive connections (Client       *)
(* objects of internal/broker/client.go) that use it, and the goroutines   *)
(* that call a connection's deliver closure at the same time.              *)
(*                                                                         *)
(* A goroutine is a process: process m \in Msgs is the publisher goroutine *)
(* that routes message m, process c \in Conns is the drainOfflineQueue     *)
(* goroutine of connection c.  Each step between two lock acquisitions of  *)
(* the code is one action, so calls interleave wherever the code lets them.*)
(***************************************************************************)
EXTENDS Integers, Sequences, FiniteSets

CONSTANTS
  Msgs,            \* application messages routed to the session
  Conns,           \* connections that may attach to the session
  NoMsg, NoConn, NoEntry,
  IdSpace,         \* number of values of a uint16 packet identifier (65536)
  MaxQueue,        \* Session.maxQueue (defaultMaxQueue = 1000)
  WriteQueueSize,  \* capacity of Client.writeQ
  QoS,             \* effective QoS at which each message is delivered
  RecvMax,         \* Receive Maximum of each connection; 0 = unlimited
  Oversize,        \* messages larger than a connection's peerMaxPacketSize
  CleanSession     \* Session.CleanSession

ASSUME ConstantsAssumption ==
  /\ Msgs \cap Conns = {}
  /\ NoMsg \notin Msgs /\ NoConn \notin Conns
  /\ IsFiniteSet(Conns)
  /\ IdSpace \in Nat /\ IdSpace > 1
  /\ MaxQueue \in Nat \ {0}
  /\ WriteQueueSize \in Nat \ {0}
  /\ QoS \in [Msgs -> 0..2]
  /\ RecvMax \in [Conns -> Nat]
  /\ Oversize \in [Conns -> SUBSET Msgs]
  /\ CleanSession \in BOOLEAN

Procs  == Msgs \cup Conns
Ids    == 1 .. (IdSpace - 1)
Phases == {"QoS2Published", "QoS2Received"}

\* session.InFlight.  conn is a ghost field: the connection whose closure
\* stored the entry.
Entries == [msg : Msgs, phase : Phases, conn : Conns]

ASSUME NoEntryAssumption == NoEntry \notin Entries

\* What the broker writes to a connection, and the peer's mark "PUBREC" for
\* a PUBLISH it answered with PUBREC.
Packets == [type : {"PUBLISH", "PUBREL", "PUBREC"},
            id   : 0 .. (IdSpace - 1),
            msg  : Msgs \cup {NoMsg}]

VARIABLES
  \* The session.
  nextPktID,   \* Session.nextPktID, modulo IdSpace
  outFlight,   \* Session.outFlight
  queue,       \* Session.queue
  \* The connections.
  state,       \* Client.state
  open,        \* is the network connection open?
  writer,      \* is writeLoop running?
  writeQ,      \* Client.writeQ
  inbox,       \* packets the peer has received and not finished answering
  restore,     \* restoreSession goroutine: still to run?
  closure,     \* connection whose deliver closure the router holds
  registered,  \* Broker.clients[clientID]
  \* The goroutines: program counter and locals of a deliver call.
  pc, msg, via, pid,
  drainBuf,    \* messages the drain goroutine of a connection still holds
  \* Metrics and history.
  offlineQueued, \* metrics.OfflineQueuedMessages
  acked,         \* messages whose outFlight entry the peer acknowledged
  overflowed,    \* messages dropped as the oldest of a full queue
  wrapped        \* the packet id counter has passed 2^16 at least once

sessVars == <<nextPktID, outFlight, queue>>
connVars == <<state, open, writer, writeQ, inbox, restore, closure, registered>>
procVars == <<pc, msg, via, pid, drainBuf>>
histVars == <<offlineQueued, acked, overflowed, wrapped>>
vars     == <<sessVars, connVars, procVars, histVars>>

Init ==
  /\ nextPktID = 0
  /\ outFlight = [i \in Ids |-> NoEntry]
  /\ queue = <<>>
  /\ state = [c \in Conns |-> "handshaking"]
  /\ open = [c \in Conns |-> TRUE]
  /\ writer = [c \in Conns |-> TRUE]
  /\ writeQ = [c \in Conns |-> <<>>]
  /\ inbox = [c \in Conns |-> {}]
  /\ restore = [c \in Conns |-> FALSE]
  /\ closure = NoConn
  /\ registered = NoConn
  /\ pc = [p \in Procs |-> "idle"]
  /\ msg = [p \in Procs |-> IF p \in Msgs THEN p ELSE NoMsg]
  /\ via = [p \in Procs |-> NoConn]
  /\ pid = [p \in Procs |-> 0]
  /\ drainBuf = [c \in Conns |-> <<>>]
  /\ offlineQueued = 0
  /\ acked = {}
  /\ overflowed = {}
  /\ wrapped = FALSE

-----------------------------------------------------------------------------
(* Connections. *)

\* Client.enqueue: dropped when the client is closed or its writeQ is full.
enqueue(c, pkt) ==
  IF state[c] # "closed" /\ Len(writeQ[c]) < WriteQueueSize
  THEN [writeQ EXCEPT ![c] = Append(@, pkt)]
  ELSE writeQ

\* handleConnect: takes over (closes) the registered connection, registers
\* itself and starts the restore and drain goroutines.  A clean session
\* belongs to one connection only.
Connect(c) ==
  /\ state[c] = "handshaking"
  /\ CleanSession => \A d \in Conns : state[d] = "handshaking"
  /\ state' = [state EXCEPT ![c] = "connected"]
  /\ open' = [d \in Conns |-> open[d] /\ d # registered]
  /\ registered' = c
  /\ restore' = [restore EXCEPT ![c] = \E d \in Conns : state[d] # "handshaking"]
  /\ pc' = [pc EXCEPT ![c] = "pending"]
  /\ UNCHANGED <<sessVars, writer, writeQ, inbox, closure, msg, via, pid,
                 drainBuf, histVars>>

\* handleSubscribe: router.Subscribe with makeDeliverFn of this connection.
Subscribe(c) ==
  /\ state[c] = "connected"
  /\ closure' = c
  /\ UNCHANGED <<sessVars, state, open, writer, writeQ, inbox, restore,
                 registered, procVars, histVars>>

\* restoreSession: its own goroutine, it may still run after the connection
\* is gone.
restoreSession(c) ==
  /\ restore[c]
  /\ restore' = [restore EXCEPT ![c] = FALSE]
  /\ closure' = c
  /\ UNCHANGED <<sessVars, state, open, writer, writeQ, inbox, registered,
                 procVars, histVars>>

\* cleanup: the client is closed and the registry entry of the client ID,
\* whichever connection it names, removed; a clean session is unsubscribed.
cleanup(c) ==
  /\ state[c] = "connected"
  /\ state' = [state EXCEPT ![c] = "closed"]
  /\ open' = [open EXCEPT ![c] = FALSE]
  /\ registered' = NoConn
  /\ closure' = IF CleanSession THEN NoConn ELSE closure
  /\ UNCHANGED <<sessVars, writer, writeQ, inbox, restore, procVars, histVars>>

\* writeLoop: one packet reaches the peer; a QoS 0 PUBLISH needs no answer.
Write(c) ==
  /\ writer[c] /\ open[c] /\ writeQ[c] # <<>>
  /\ inbox' = IF Head(writeQ[c]).id = 0 THEN inbox
              ELSE [inbox EXCEPT ![c] = @ \cup {Head(writeQ[c])}]
  /\ writeQ' = [writeQ EXCEPT ![c] = Tail(@)]
  /\ UNCHANGED <<sessVars, state, open, writer, restore, closure, registered,
                 procVars, histVars>>

\* writeLoop: the write fails (closed socket, deadline); the loop returns and
\* nothing else in the client changes.
WriteError(c) ==
  /\ writer[c] /\ writeQ[c] # <<>>
  /\ writer' = [writer EXCEPT ![c] = FALSE]
  /\ writeQ' = [writeQ EXCEPT ![c] = Tail(@)]
  /\ UNCHANGED <<sessVars, state, open, inbox, restore, closure, registered,
                 procVars, histVars>>

-----------------------------------------------------------------------------
(* Acknowledgements, handled by the readLoop of the connection.  The peer   *)
(* answers only packets it has received on that connection.                 *)

\* Session.AckOutFlight
AckOutFlight(id) ==
  /\ outFlight' = [outFlight EXCEPT ![id] = NoEntry]
  /\ acked' = IF outFlight[id] = NoEntry THEN acked
              ELSE acked \cup {outFlight[id].msg}

handlePuback(c) ==
  \E p \in inbox[c] :
    /\ state[c] = "connected"
    /\ p.type = "PUBLISH" /\ QoS[p.msg] = 1
    /\ AckOutFlight(p.id)
    /\ inbox' = [inbox EXCEPT ![c] = @ \ {p}]
    /\ UNCHANGED <<nextPktID, queue, state, open, writer, writeQ, restore,
                   closure, registered, procVars, offlineQueued, overflowed,
                   wrapped>>

\* SetOutFlightPhase, then PUBREL whatever the lookup found.
handlePubrec(c) ==
  \E p \in inbox[c] :
    /\ state[c] = "connected"
    /\ p.type = "PUBLISH" /\ QoS[p.msg] = 2
    /\ outFlight' = IF outFlight[p.id] = NoEntry THEN outFlight
                    ELSE [outFlight EXCEPT ![p.id].phase = "QoS2Received"]
    /\ writeQ' = enqueue(c, [type |-> "PUBREL", id |-> p.id, msg |-> NoMsg])
    /\ inbox' = [inbox EXCEPT ![c] = (@ \ {p}) \cup {[p EXCEPT !.type = "PUBREC"]}]
    /\ UNCHANGED <<nextPktID, queue, state, open, writer, restore, closure,
                   registered, procVars, histVars>>

handlePubcomp(c) ==
  \E p, r \in inbox[c] :
    /\ state[c] = "connected"
    /\ p.type = "PUBREC" /\ r.type = "PUBREL" /\ p.id = r.id
    /\ AckOutFlight(p.id)
    /\ inbox' = [inbox EXCEPT ![c] = @ \ {p, r}]
    /\ UNCHANGED <<nextPktID, queue, state, open, writer, writeQ, restore,
                   closure, registered, procVars, offlineQueued, overflowed,
                   wrapped>>

-----------------------------------------------------------------------------
(* A call of the deliver closure (makeDeliverFn) by process p.              *)

Goto(p, l) == pc' = [pc EXCEPT ![p] = l]

\* The call returns: a publisher goroutine is done with its message, the
\* drain goroutine takes its next one.
Return(p) == Goto(p, IF p \in Msgs THEN "done" ELSE "next")

\* Mutant: the drain decrements only what it did not queue again.
GaugeOnce(p, inc) ==
  offlineQueued' = (offlineQueued + inc) - (IF p \in Conns /\ inc = 0 THEN 1 ELSE 0)

\* drainOfflineQueue decrements the gauge after each message it delivered.
Gauge(p, inc) ==
  offlineQueued' = (offlineQueued + inc) - (IF p \in Conns THEN 1 ELSE 0)

\* router.Publish found the subscription: the closure is called.
RoutePublish(m) ==
  /\ pc[m] = "idle" /\ closure # NoConn
  /\ via' = [via EXCEPT ![m] = closure]
  /\ Goto(m, "call")
  /\ UNCHANGED <<sessVars, connVars, msg, pid, drainBuf, histVars>>

\* The early returns of the closure, then the QoS branch.
DeliverCheck(p) ==
  /\ pc[p] = "call"
  /\ Goto(p, IF state[via[p]] # "connected" \/ msg[p] \in Oversize[via[p]] THEN "queue"
             ELSE IF QoS[msg[p]] = 0 THEN "send" ELSE "ticket")
  /\ UNCHANGED <<sessVars, connVars, msg, via, pid, drainBuf, histVars>>

\* Mutant: 0 is not skipped.
NextPacketIDAddZero(p) ==
  LET next == (nextPktID + 1) % IdSpace
  IN /\ pc[p] = "ticket"
     /\ nextPktID' = next
     /\ pid' = [pid EXCEPT ![p] = next]
     /\ wrapped' = (wrapped \/ next = 0)
     /\ Goto(p, "probe")
     /\ UNCHANGED <<outFlight, queue, connVars, msg, via, drainBuf,
                    offlineQueued, acked, overflowed>>

\* Mutant: the counter moves only past an id that is in use.
NextPacketIDAddLazy(p) ==
  LET next == (nextPktID + 1) % IdSpace
      id   == IF next = 0 THEN 1 ELSE next
  IN /\ pc[p] = "ticket"
     /\ nextPktID' = IF outFlight[id] = NoEntry THEN nextPktID ELSE next
     /\ pid' = [pid EXCEPT ![p] = id]
     /\ wrapped' = (wrapped \/ next = 0)
     /\ Goto(p, "probe")
     /\ UNCHANGED <<outFlight, queue, connVars, msg, via, drainBuf,
                    offlineQueued, acked, overflowed>>

\* NextPacketID: the atomic increment.  uint16 of a wrapping uint32 counter
\* is the counter modulo IdSpace; 0 is replaced by 1.
NextPacketIDAdd(p) ==
  LET next == (nextPktID + 1) % IdSpace
  IN /\ pc[p] = "ticket"
     /\ nextPktID' = next
     /\ pid' = [pid EXCEPT ![p] = IF next = 0 THEN 1 ELSE next]
     /\ wrapped' = (wrapped \/ next = 0)
     /\ Goto(p, "probe")
     /\ UNCHANGED <<outFlight, queue, connVars, msg, via, drainBuf,
                    offlineQueued, acked, overflowed>>

\* Mutant: an id in use is looked up again without a new increment.
NextPacketIDProbeStuck(p) ==
  /\ pc[p] = "probe"
  /\ outFlight[pid[p]] = NoEntry
  /\ Goto(p, "add")
  /\ UNCHANGED <<sessVars, connVars, msg, via, pid, drainBuf, histVars>>

\* NextPacketID: the lookup under outMu; try again when the id is in use.
NextPacketIDProbe(p) ==
  /\ pc[p] = "probe"
  /\ Goto(p, IF outFlight[pid[p]] = NoEntry THEN "add" ELSE "ticket")
  /\ UNCHANGED <<sessVars, connVars, msg, via, pid, drainBuf, histVars>>

UsedIds == {i \in Ids : outFlight[i] # NoEntry}

\* Mutant: off by one in the comparison with Receive Maximum.
AddOutFlightOneMore(p) ==
  LET lim == RecvMax[via[p]]
      ok  == lim = 0 \/ Cardinality(UsedIds) <= lim
  IN /\ pc[p] = "add"
     /\ outFlight' = IF ok
                     THEN [outFlight EXCEPT ![pid[p]] =
                             [msg |-> msg[p], phase |-> "QoS2Published", conn |-> via[p]]]
                     ELSE outFlight
     /\ Goto(p, IF ok THEN "send" ELSE "queue")
     /\ UNCHANGED <<nextPktID, queue, connVars, msg, via, pid, drainBuf, histVars>>

\* Mutant: a message refused by the limit is not queued.
AddOutFlightForgets(p) ==
  LET lim == RecvMax[via[p]]
      ok  == lim = 0 \/ Cardinality(UsedIds) < lim
  IN /\ pc[p] = "add"
     /\ outFlight' = IF ok
                     THEN [outFlight EXCEPT ![pid[p]] =
                             [msg |-> msg[p], phase |-> "QoS2Published", conn |-> via[p]]]
                     ELSE outFlight
     /\ IF ok THEN Goto(p, "send") ELSE Return(p)
     /\ UNCHANGED <<nextPktID, queue, connVars, msg, via, pid, drainBuf, histVars>>

\* Mutant: the entry is stored before the limit is compared.
AddOutFlightEager(p) ==
  LET lim == RecvMax[via[p]]
      ok  == lim = 0 \/ Cardinality(UsedIds) < lim
  IN /\ pc[p] = "add"
     /\ outFlight' = [outFlight EXCEPT ![pid[p]] =
                        [msg |-> msg[p], phase |-> "QoS2Published", conn |-> via[p]]]
     /\ Goto(p, IF ok THEN "send" ELSE "queue")
     /\ UNCHANGED <<nextPktID, queue, connVars, msg, via, pid, drainBuf, histVars>>

\* AddOutFlightLimited, with the limit of the connection of the closure.
AddOutFlightLimited(p) ==
  LET lim == RecvMax[via[p]]
      ok  == lim = 0 \/ Cardinality(UsedIds) < lim
  IN /\ pc[p] = "add"
     /\ outFlight' = IF ok
                     THEN [outFlight EXCEPT ![pid[p]] =
                             [msg |-> msg[p], phase |-> "QoS2Published", conn |-> via[p]]]
                     ELSE outFlight
     /\ Goto(p, IF ok THEN "send" ELSE "queue")
     /\ UNCHANGED <<nextPktID, queue, connVars, msg, via, pid, drainBuf, histVars>>

\* Encode and enqueue the PUBLISH.  QoS 0 packets carry no id.
DeliverSend(p) ==
  LET id == IF QoS[msg[p]] = 0 THEN 0 ELSE pid[p]
  IN /\ pc[p] = "send"
     /\ writeQ' = enqueue(via[p], [type |-> "PUBLISH", id |-> id, msg |-> msg[p]])
     /\ Return(p)
     /\ Gauge(p, 0)
     /\ UNCHANGED <<sessVars, state, open, writer, inbox, restore, closure,
                    registered, msg, via, pid, drainBuf, acked, overflowed, wrapped>>

\* qEnqueue and Session.Enqueue: nothing for a clean session; the oldest
\* message makes room in a full queue.
Enqueue(p) ==
  /\ pc[p] = "queue"
  /\ IF CleanSession
     THEN /\ Gauge(p, 0)
          /\ UNCHANGED <<queue, overflowed>>
     ELSE /\ Gauge(p, 1)
          /\ IF Len(queue) >= MaxQueue
             THEN /\ queue' = Append(Tail(queue), msg[p])
                  /\ overflowed' = overflowed \cup {Head(queue)}
             ELSE /\ queue' = Append(queue, msg[p])
                  /\ UNCHANGED overflowed
  /\ Return(p)
  /\ UNCHANGED <<nextPktID, outFlight, connVars, msg, via, pid, drainBuf, acked,
                 wrapped>>

-----------------------------------------------------------------------------
(* drainOfflineQueue, one goroutine per connection.                         *)

DrainQueue(c) ==
  /\ pc[c] = "pending"
  /\ drainBuf' = [drainBuf EXCEPT ![c] = queue]
  /\ queue' = <<>>
  /\ Goto(c, "next")
  /\ UNCHANGED <<nextPktID, outFlight, connVars, msg, via, pid, histVars>>

DrainNext(c) ==
  /\ pc[c] = "next"
  /\ \/ /\ drainBuf[c] = <<>>
        /\ Goto(c, "done")
        /\ UNCHANGED <<msg, via, drainBuf>>
     \/ /\ drainBuf[c] # <<>>
        /\ msg' = [msg EXCEPT ![c] = Head(drainBuf[c])]
        /\ via' = [via EXCEPT ![c] = c]
        /\ drainBuf' = [drainBuf EXCEPT ![c] = Tail(@)]
        /\ Goto(c, "call")
  /\ UNCHANGED <<sessVars, connVars, pid, histVars>>

-----------------------------------------------------------------------------
DeliverStep(p) ==
  \/ DeliverCheck(p)
  \/ NextPacketIDAdd(p)
  \/ NextPacketIDProbe(p)
  \/ AddOutFlightLimited(p)
  \/ DeliverSend(p)
  \/ Enqueue(p)

DrainStep(c) == DrainQueue(c) \/ DrainNext(c)

Next ==
  \/ \E c \in Conns : \/ Connect(c)
                      \/ Subscribe(c)
                      \/ restoreSession(c)
                      \/ cleanup(c)
                      \/ Write(c)
                      \/ WriteError(c)
                      \/ handlePuback(c)
                      \/ handlePubrec(c)
                      \/ handlePubcomp(c)
                      \/ DrainStep(c)
  \/ \E m \in Msgs : RoutePublish(m)
  \/ \E p \in Procs : DeliverStep(p)

Spec == Init /\ [][Next]_vars

\* Fairness: every goroutine that can run is scheduled again (Go's scheduler
\* is preemptive and none of these steps blocks on another client).
FairSpec == Spec /\ \A p \in Procs : WF_vars(DeliverStep(p))

-----------------------------------------------------------------------------
(* Properties. *)

\* Where a process is inside a call of the deliver closure.
InCall(p) == pc[p] \in {"call", "ticket", "probe", "add", "send", "queue"}

\* An identifier p got from NextPacketID (or is still checking).
HoldsId(p) == pc[p] \in {"probe", "add"}

SessTypeOK ==
  /\ nextPktID \in 0 .. (IdSpace - 1)
  /\ outFlight \in [Ids -> Entries \cup {NoEntry}]
  /\ queue \in Seq(Msgs)
  /\ Len(queue) <= MaxQueue

ConnTypeOK ==
  /\ state \in [Conns -> {"handshaking", "connected", "closed"}]
  /\ open \in [Conns -> BOOLEAN]
  /\ writer \in [Conns -> BOOLEAN]
  /\ writeQ \in [Conns -> Seq(Packets)]
  /\ inbox \in [Conns -> SUBSET Packets]
  /\ restore \in [Conns -> BOOLEAN]
  /\ closure \in Conns \cup {NoConn}
  /\ registered \in Conns \cup {NoConn}

ProcTypeOK ==
  /\ pc \in [Procs -> {"idle", "call", "ticket", "probe", "add", "send",
                       "queue", "done", "pending", "next"}]
  /\ msg \in [Procs -> Msgs \cup {NoMsg}]
  /\ \A m \in Msgs : msg[m] = m
  /\ via \in [Procs -> Conns \cup {NoConn}]
  /\ pid \in [Procs -> 0 .. (IdSpace - 1)]
  /\ \A p \in Procs : InCall(p) => msg[p] \in Msgs /\ via[p] \in Conns
  /\ \A p \in Procs : HoldsId(p) => pid[p] \in Ids
  /\ drainBuf \in [Conns -> Seq(Msgs)]

HistTypeOK ==
  /\ offlineQueued \in Int
  /\ acked \in SUBSET Msgs
  /\ overflowed \in SUBSET Msgs
  /\ wrapped \in BOOLEAN

\* The values each variable ranges over; an identifier obtained from
\* NextPacketID is never 0 and fits 16 bits (session.go:75 "never 0"), and the
\* offline queue never exceeds maxQueue.
TypeOK == SessTypeOK /\ ConnTypeOK /\ ProcTypeOK /\ HistTypeOK

\* No identifier is handed to two deliveries at once and none names a message
\* still in flight: a process that got its id from NextPacketID finds it free
\* when AddOutFlightLimited stores under it, and no other process holds it.
UnusedId ==
  \A p \in Procs : pc[p] = "add" =>
    /\ outFlight[pid[p]] = NoEntry
    /\ \A q \in Procs \ {p} : pc[q] = "add" => pid[q] # pid[p]

\* Packet identifiers do not collide, however the deliver calls interleave,
\* for as long as the 16-bit counter has not wrapped.
UniqueUntilWrap == ~wrapped => UnusedId

\* Packets of QoS > 0 written or about to be written to connection c that its
\* peer has not acknowledged.
AwaitingAck(c) ==
  {k \in inbox[c] \cup {writeQ[c][i] : i \in DOMAIN writeQ[c]} :
     k.id # 0 /\ k.type # "PUBREL"}

\* Flow control: the peer never has more unacknowledged QoS > 0 messages than
\* the Receive Maximum it announced, however many goroutines deliver to it
\* and whichever connections share the session (client.go:74, session.go:228).
ReceiveMaximum ==
  \A c \in Conns :
    RecvMax[c] > 0 /\ ~wrapped => Cardinality(AwaitingAck(c)) <= RecvMax[c]

\* The places where the broker keeps a message it accepted for the session.
InQueue(m)   == \E i \in DOMAIN queue : queue[i] = m
InDrain(m)   == \E c \in Conns : \E i \in DOMAIN drainBuf[c] : drainBuf[c][i] = m
InHand(m)    == \E p \in Procs : InCall(p) /\ pc[p] # "send" /\ msg[p] = m
InFlight(m)  == \E i \in Ids : outFlight[i] # NoEntry /\ outFlight[i].msg = m

\* Nothing is lost silently: a QoS > 0 message routed to a persistent session
\* is being delivered, queued, drained, in flight or acknowledged, unless the
\* full queue dropped it as its oldest message; disconnects, takeovers, full
\* write queues and failed writes in between notwithstanding.
NoSilentLoss ==
  ~CleanSession /\ ~wrapped =>
    \A m \in Msgs :
      QoS[m] > 0 /\ pc[m] # "idle" =>
        \/ InHand(m) \/ InQueue(m) \/ InDrain(m) \/ InFlight(m)
        \/ m \in acked \cup overflowed

\* No duplicate: a message that is in flight or acknowledged is not also
\* waiting to be sent, so it is put on the wire at most once.
SentAtMostOnce ==
  ~wrapped =>
    \A m \in Msgs : QoS[m] > 0 /\ (InFlight(m) \/ m \in acked) =>
      /\ ~(InHand(m) \/ InQueue(m) \/ InDrain(m) \/ m \in overflowed)
      /\ ~(InFlight(m) /\ m \in acked)

\* Every call of the deliver closure returns ("It must be non-blocking",
\* router.go:31): in particular the search of NextPacketID for a free id ends.
CallReturns == \A p \in Procs : []<>~InCall(p)

\* metrics.go:98 "Messages queued for offline persistent-session clients": the
\* gauge counts the messages queued and being drained, and every message a full
\* queue dropped as its oldest stays counted for good.
GaugeAccounts ==
  LET draining == UNION {{c} \X DOMAIN drainBuf[c] : c \in Conns}
      held     == {c \in Conns : InCall(c)}
  IN offlineQueued = Len(queue) + Cardinality(draining) + Cardinality(held)
                       + Cardinality(overflowed)
=============================================================================
