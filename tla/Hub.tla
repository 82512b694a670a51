-------------------------------- MODULE Hub --------------------------------
(***************************************************************************)
(* The WebSocket stream of the API: ingestRedisMessages takes what the     *)
(* brokers publish on the Redis channel and broadcasts it to the clients   *)
(* in the hub.  Each client has a bounded queue and two goroutines, the    *)
(* handler that reads its commands and a pump that writes its queue; both  *)
(* remove it from the hub when they end, and only the pump closes the      *)
(* connection.                                                             *)
(***************************************************************************)
EXTENDS Integers, FiniteSets, Sequences

CONSTANTS Clients,      \* WebSocket connections, each with its own uuid
          SendCap,      \* capacity of wsClient.send (256)
          StreamCap,    \* capacity of the channel of SubscribeWS (512)
          MaxMsgs,      \* bound: messages on the Redis channel
          MaxCmds       \* bound: commands from the clients

ASSUME ConstantsAssumption ==
  SendCap \in Nat \ {0} /\ StreamCap \in Nat \ {0} /\ MaxMsgs \in Nat /\ MaxCmds \in Nat

VARIABLES
  ch,        \* channel of SubscribeWS: messages, by number
  casting,   \* Broadcast: the message and the clients of the snapshot it is still to be sent to
  clients,   \* WSHub.clients
  count,     \* WSHub.count
  pc,        \* where the handler and the pump of each client are
  send,      \* wsClient.send
  conn,      \* server side of the connection: "none", "open", "broken" or "closed"
  peer,      \* the other side: "up", "quiet" (no pong in time) or "gone"
  wire,      \* data frames written to a connection that is not closed
  pubs, cmds,  \* counters, to bound the model
  since,     \* history: pubs when a client of the hub entered it
  full,      \* history: clients of the hub whose queue was full once
  lost       \* history: messages that found ch full

hubVars == <<clients, count, since, full>>
streamVars == <<ch, casting, pubs, lost>>
connVars == <<conn, peer, wire>>
vars == <<hubVars, streamVars, connVars, pc, send, cmds>>

Frame(event, n) == [event |-> event, n |-> n]

Init ==
  /\ ch = <<>> /\ casting = [msg |-> 0, todo |-> {}]
  /\ clients = {} /\ count = 0
  /\ pc = [c \in Clients |-> [handler |-> "none", pump |-> "none"]]
  /\ send = [c \in Clients |-> <<>>]
  /\ conn = [c \in Clients |-> "none"] /\ peer = [c \in Clients |-> "up"]
  /\ wire = [c \in Clients |-> <<>>]
  /\ pubs = 0 /\ cmds = 0
  /\ since = [c \in Clients |-> 0] /\ full = {} /\ lost = {}

----------------------------------------------------------------------------
(* The hub.  The map and the count are changed one after the other, but no code reads both. *)

add(c) ==
  /\ clients' = clients \cup {c} /\ count' = count + 1
  /\ since' = [since EXCEPT ![c] = pubs] /\ UNCHANGED full

\* Mutant: the client stays in the map as long as it has frames to send.
removeDrained(c) ==
  /\ clients' = IF send[c] = <<>> THEN clients \ {c} ELSE clients
  /\ count' = count - 1 /\ UNCHANGED <<since, full>>

\* The count goes down whether or not the client was in the map.
remove(c) ==
  /\ clients' = clients \ {c} /\ count' = count - 1
  /\ since' = [since EXCEPT ![c] = 0] /\ full' = full \ {c}

\* select { case c.send <- data: default: }
TrySend(c, f) ==
  /\ send' = IF Len(send[c]) < SendCap THEN [send EXCEPT ![c] = Append(@, f)] ELSE send
  /\ full' = IF c \in clients /\ Len(send'[c]) = SendCap THEN full \cup {c} ELSE full

----------------------------------------------------------------------------
(* The handler *)

\* Upgrade and add.
handleWebSocket(c) ==
  /\ pc[c].handler = "none"
  /\ conn' = [conn EXCEPT ![c] = "open"] /\ pc' = [pc EXCEPT ![c].handler = "welcome"]
  /\ add(c)
  /\ UNCHANGED <<streamVars, peer, wire, send, cmds>>

\* Mutant: the pump is started before the welcome is written.
welcomeLate(c) ==
  /\ pc[c].handler = "welcome"
  /\ IF pc[c].pump = "none"
     THEN pc' = [pc EXCEPT ![c].pump = "write"] /\ UNCHANGED wire
     ELSE /\ wire' = [wire EXCEPT ![c] = Append(@, Frame("connected", 0))]
          /\ pc' = [pc EXCEPT ![c].handler = "read"]
  /\ UNCHANGED <<hubVars, streamVars, conn, peer, send, cmds>>

\* The welcome is written and the pump starts.  An error of the write is ignored, but the
\* library fails every later write of the connection.
welcome(c) ==
  /\ pc[c].handler = "welcome"
  /\ \/ /\ wire' = [wire EXCEPT ![c] = Append(@, Frame("connected", 0))]
        /\ UNCHANGED conn
     \/ conn' = [conn EXCEPT ![c] = "broken"] /\ UNCHANGED wire
  /\ pc' = [pc EXCEPT ![c] = [handler |-> "read", pump |-> "write"]]
  /\ UNCHANGED <<hubVars, streamVars, peer, send, cmds>>

\* A command: "ping" is answered with "pong"; "publish" hands its message to PublishAPI,
\* whose way through the broker is in Retained, and is answered whatever comes of it.
handleWSCommand(c) ==
  /\ pc[c].handler = "read" /\ conn[c] # "closed" /\ peer[c] = "up"
  /\ cmds < MaxCmds /\ cmds' = cmds + 1
  /\ TrySend(c, Frame("answer", cmds'))
  /\ UNCHANGED <<clients, count, since, streamVars, connVars, pc>>

\* ReadMessage fails, because no pong came within WSPongWait, the peer has closed or the
\* pump has; the handler removes the client and leaves the connection as it is.
readFails(c) ==
  /\ pc[c].handler = "read" /\ (peer[c] # "up" \/ conn[c] = "closed")
  /\ remove(c) /\ pc' = [pc EXCEPT ![c].handler = "done"]
  /\ UNCHANGED <<streamVars, connVars, send, cmds>>

----------------------------------------------------------------------------
(* The pump *)

\* The next frame of the queue is written.  A ping that goes through changes nothing here.
pumpWrite(c) ==
  /\ pc[c].pump = "write" /\ conn[c] = "open" /\ send[c] # <<>>
  /\ wire' = [wire EXCEPT ![c] = Append(@, Head(send[c]))]
  /\ send' = [send EXCEPT ![c] = Tail(@)]
  /\ UNCHANGED <<hubVars, streamVars, conn, peer, pc, cmds>>

\* The write of a frame or of a ping fails: the connection is broken, the peer has closed
\* it, or the frame was not taken within WSWriteWait, as may happen to a peer that is slow.
pumpFails(c) ==
  /\ pc[c].pump = "write"
  /\ conn' = [conn EXCEPT ![c] = "broken"]
  /\ remove(c) /\ pc' = [pc EXCEPT ![c].pump = "close"]
  /\ UNCHANGED <<streamVars, peer, wire, send, cmds>>

\* Mutant: the connection is left to the handler, which does not close it either.
pumpCloseNot(c) ==
  /\ pc[c].pump = "close"
  /\ pc' = [pc EXCEPT ![c].pump = "done"]
  /\ UNCHANGED <<hubVars, streamVars, connVars, send, cmds>>

\* conn.Close of the deferred function.
pumpClose(c) ==
  /\ pc[c].pump = "close"
  /\ conn' = [conn EXCEPT ![c] = "closed"] /\ wire' = [wire EXCEPT ![c] = <<>>]
  /\ pc' = [pc EXCEPT ![c].pump = "done"]
  /\ UNCHANGED <<hubVars, streamVars, peer, send, cmds>>

----------------------------------------------------------------------------
(* The stream *)

\* The goroutine of SubscribeWS: a message that finds the channel full is dropped.
SubscribeWS ==
  /\ pubs < MaxMsgs /\ pubs' = pubs + 1
  /\ IF Len(ch) < StreamCap
     THEN ch' = Append(ch, pubs') /\ UNCHANGED lost
     ELSE lost' = lost \cup {pubs'} /\ UNCHANGED ch
  /\ UNCHANGED <<hubVars, connVars, casting, pc, send, cmds>>

\* ingestRedisMessages takes a message, and Broadcast takes the clients of that moment.
ingestRedisMessages ==
  /\ casting.todo = {} /\ ch # <<>>
  /\ casting' = [msg |-> Head(ch), todo |-> clients] /\ ch' = Tail(ch)
  /\ UNCHANGED <<hubVars, connVars, pubs, lost, pc, send, cmds>>

\* Mutant: Broadcast waits for room in the queue.
BroadcastWaits(c) ==
  /\ c \in casting.todo /\ Len(send[c]) < SendCap
  /\ casting' = [casting EXCEPT !.todo = @ \ {c}]
  /\ TrySend(c, Frame("mqtt_message", casting.msg))
  /\ UNCHANGED <<clients, count, since, connVars, ch, pubs, lost, pc, cmds>>

\* One client of the loop of Broadcast, in the order of the map, which is any.
Broadcast(c) ==
  /\ c \in casting.todo
  /\ casting' = [casting EXCEPT !.todo = @ \ {c}]
  /\ TrySend(c, Frame("mqtt_message", casting.msg))
  /\ UNCHANGED <<clients, count, since, connVars, ch, pubs, lost, pc, cmds>>

----------------------------------------------------------------------------
(* The peers *)

\* A peer stops answering pings, though it takes what is written, or it closes or vanishes.
peerLeaves(c, how) ==
  /\ conn[c] \in {"open", "broken"} /\ <<peer[c], how>> \in {<<"up", "quiet">>, <<"up", "gone">>, <<"quiet", "gone">>}
  /\ peer' = [peer EXCEPT ![c] = how]
  /\ UNCHANGED <<hubVars, streamVars, conn, wire, pc, send, cmds>>

Next ==
  \/ \E c \in Clients :
       \/ handleWebSocket(c) \/ welcome(c) \/ handleWSCommand(c) \/ readFails(c)
       \/ pumpWrite(c) \/ pumpFails(c) \/ pumpClose(c)
       \/ Broadcast(c)
       \/ \E how \in {"quiet", "gone"} : peerLeaves(c, how)
  \/ SubscribeWS \/ ingestRedisMessages

Spec == Init /\ [][Next]_vars

\* Goroutines run, and reads time out.  A write to a peer that is gone, or on a broken
\* connection, fails in the end, as the ping ticker makes the pump write again and again.
Fairness ==
  /\ WF_vars(ingestRedisMessages)
  /\ \A c \in Clients :
       /\ WF_vars(Broadcast(c))
       /\ WF_vars(welcome(c) \/ readFails(c))
       /\ WF_vars(pumpClose(c) \/ ((peer[c] = "gone" \/ conn[c] = "broken") /\ pumpFails(c)))
FairSpec == Spec /\ Fairness

----------------------------------------------------------------------------
(* Properties *)

\* Everything client c was sent, written or still in its queue.
Sent(c) == wire[c] \o send[c]
Has(s, x) == \E i \in DOMAIN s : s[i] = x
Ordered(s) == \A i, j \in DOMAIN s : i < j /\ s[i].event = s[j].event => s[i].n < s[j].n

\* What a client is sent: one welcome before anything else, then messages in the order of
\* the Redis channel and answers in the order of its commands, none twice; and as long as
\* it is in the hub and its queue was never full, every message since it entered that the
\* channel of SubscribeWS had room for has been written or is on its way.
StreamExact ==
  \A c \in Clients :
    /\ wire[c] # <<>> => wire[c][1].event = "connected"
    /\ Ordered(Sent(c))
    /\ c \in clients \ full =>
         \A n \in ((since[c] + 1) .. pubs) \ lost :
           \/ Has(Sent(c), Frame("mqtt_message", n)) \/ Has(ch, n)
           \/ c \in casting.todo /\ casting.msg = n

\* The count on the status page and in the gauge is the number of clients in the hub less
\* the connections of which both goroutines have ended: each of these was counted once
\* and discounted twice, so the count falls behind for good and becomes negative.
HubCount ==
  count = Cardinality(clients)
          - Cardinality({c \in Clients : pc[c].handler = "done" /\ pc[c].pump \in {"close", "done"}})

\* A client that closes or vanishes is out of the hub in the end and its connection is
\* closed, whichever goroutine notices first; a quiet one is out of the hub, but its
\* connection stays open for as long as it takes the pings.
HubDrains ==
  \A c \in Clients :
    /\ []<>(c \in clients => peer[c] = "up")
    /\ []<>(peer[c] = "gone" => conn[c] = "closed")

\* However many clients are slow, quiet or gone, every message is broadcast in the end:
\* the ingest loop is never held up by a queue that nobody reads any more.
BroadcastEnds == []<>(casting.todo = {} /\ ch = <<>>)
=============================================================================
