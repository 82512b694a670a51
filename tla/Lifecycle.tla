------------------------------ MODULE Lifecycle ------------------------------
(***************************************************************************)
(* Connection lifecycle of the broker: CONNECT with takeover, the client   *)
(* registry, the session store, cleanup, wills and MQTT v5 session expiry  *)
(* (internal/broker/client.go, internal/broker/server.go,                  *)
(* internal/session/session.go).                                           *)
(*                                                                         *)
(* Every connection is a goroutine; the expiry sweep is another one.  The  *)
(* registry, the store and the router are keyed by client ID, and every    *)
(* action below is one critical section of the code, so the cleanup of an  *)
(* old connection interleaves with the CONNECT of a new one.               *)
(***************************************************************************)
EXTENDS Integers, FiniteSets

CONSTANTS
  Conns,        \* network connections
  ClientIds,    \* MQTT client identifiers
  None,         \* no connection, no client identifier
  Requests,     \* the CONNECT packets clients may send
  MaxConnects,  \* CONNECT packets per connection (the code does not refuse a second)
  PluginRefuses, \* may a plugin refuse a client in OnClientConnect?
  MaxSess       \* bound on the session objects created

Expiries    == {"zero", "finite", "never"}
AllRequests == [clean : BOOLEAN, v5 : BOOLEAN, expiry : Expiries, will : BOOLEAN]

ASSUME ConstantsAssumption ==
  /\ None \notin Conns /\ None \notin ClientIds
  /\ Requests \subseteq AllRequests
  /\ MaxConnects \in Nat \ {0}
  /\ MaxSess \in Nat
  /\ PluginRefuses \in BOOLEAN

SessIds == 1 .. MaxSess   \* session objects; 0 is "no session"

\* session.Session: will names the connection whose CONNECT set the will
\* (None: WillSet is false), deadline is disconnectExpireAt.
Sessions == [client : ClientIds \cup {None}, clean : BOOLEAN, connected : BOOLEAN,
             v5 : BOOLEAN, expiry : Expiries, will : Conns \cup {None},
             deadline : {"none", "pending", "passed"}]

NewSession(i, clean) ==
  [client |-> i, clean |-> clean, connected |-> FALSE, v5 |-> FALSE,
   expiry |-> "zero", will |-> None, deadline |-> "none"]

VARIABLES
  \* Per connection: program counter and fields of Client.
  pc, id, req, sess, present, sock, connects,
  target,     \* local of takeover: the connection found in the registry
  restore,    \* restoreSession goroutines still to run
  \* Shared state.
  registry,   \* Broker.clients
  store,      \* session.Store: client ID -> session object
  obj,        \* the session objects
  created,    \* number of session objects created
  sub,        \* router: connection whose closure is subscribed for a client ID
  \* The expiry sweep.
  sweepPc, sweepSet, sweepCur,
  \* History.
  overlapped, \* a CONNECT was read while other work on its client ID was under
              \* way, or a sweep began during one
  graceful,   \* connections that sent DISCONNECT
  wills       \* wills published: by whose cleanup, set by whose CONNECT

connVars  == <<pc, id, req, sess, present, sock, connects, target, restore>>
sweepVars == <<sweepPc, sweepSet, sweepCur>>
histVars  == <<overlapped, graceful, wills>>
vars == <<connVars, registry, store, obj, created, sub, sweepVars, histVars>>

NoRequest == [clean |-> TRUE, v5 |-> FALSE, expiry |-> "zero", will |-> FALSE]

Init ==
  /\ pc = [c \in Conns |-> "accept"]
  /\ id = [c \in Conns |-> None]
  /\ req = [c \in Conns |-> NoRequest]
  /\ sess = [c \in Conns |-> 0]
  /\ present = [c \in Conns |-> FALSE]
  /\ sock = [c \in Conns |-> TRUE]
  /\ connects = [c \in Conns |-> 0]
  /\ target = [c \in Conns |-> None]
  /\ restore = [c \in Conns |-> 0]
  /\ registry = [i \in ClientIds |-> None]
  /\ store = [i \in ClientIds |-> 0]
  /\ obj = [s \in SessIds |-> NewSession(None, TRUE)]
  /\ created = 0
  /\ sub = [i \in ClientIds |-> None]
  /\ sweepPc = "idle" /\ sweepSet = {} /\ sweepCur = 0
  /\ overlapped = FALSE /\ graceful = {} /\ wills = {}

Goto(c, l) == pc' = [pc EXCEPT ![c] = l]

-----------------------------------------------------------------------------
(* handleConnect. *)

\* No other work on client i, by another connection or by c itself, is under
\* way.
Quiet(c, i) ==
  /\ pc[c] = "accept"
  /\ \A d \in Conns \ {c} : id[d] = i => pc[d] = "gone"
  /\ sweepPc = "idle"

\* A CONNECT packet is read: first packet of a connection, or a repeated one.
ReadConnect(c, i) ==
  /\ pc[c] \in {"accept", "serve"}
  /\ connects[c] < MaxConnects
  /\ overlapped' = (overlapped \/ ~Quiet(c, i))
  /\ connects' = [connects EXCEPT ![c] = @ + 1]
  /\ id' = [id EXCEPT ![c] = i]

\* Decoded, authenticated, client ID set, plugins agreed.
Connect(c, i, r) ==
  /\ ReadConnect(c, i)
  /\ req' = [req EXCEPT ![c] = r]
  /\ Goto(c, "takeover")
  /\ UNCHANGED <<sess, present, sock, target, restore, registry, store, obj,
                 created, sub, sweepVars, graceful, wills>>

\* A plugin refuses the client after c.clientID was set.
PluginReject(c, i) ==
  /\ PluginRefuses
  /\ ReadConnect(c, i)
  /\ Goto(c, "close")
  /\ UNCHANGED <<req, sess, present, sock, target, restore, registry, store,
                 obj, created, sub, sweepVars, graceful, wills>>

\* takeover: look the client ID up under the read lock.
takeover(c) ==
  /\ pc[c] = "takeover"
  /\ target' = [target EXCEPT ![c] = registry[id[c]]]
  /\ Goto(c, IF registry[id[c]] = None THEN "session" ELSE "evict")
  /\ UNCHANGED <<id, req, sess, present, sock, connects, restore, registry,
                 store, obj, created, sub, sweepVars, histVars>>

\* Mutant: the socket of the old connection stays open.
EvictKeepsSocket(c) ==
  /\ pc[c] = "evict"
  /\ obj' = [obj EXCEPT ![sess[target[c]]].will = None]
  /\ target' = [target EXCEPT ![c] = None]
  /\ Goto(c, "session")
  /\ UNCHANGED <<id, req, sess, present, sock, connects, restore, registry,
                 store, created, sub, sweepVars, histVars>>

\* takeover: suppress the will of the connection found and close its socket.
Evict(c) ==
  LET old == target[c]
  IN /\ pc[c] = "evict"
     /\ obj' = [obj EXCEPT ![sess[old]].will = None]
     /\ sock' = [sock EXCEPT ![old] = FALSE]
     /\ target' = [target EXCEPT ![c] = None]
     /\ Goto(c, "session")
     /\ UNCHANGED <<id, req, sess, present, connects, restore, registry,
                    store, created, sub, sweepVars, histVars>>

\* Mutant: a fresh session replaces a stored one only if there is none.
GetOrCreateFirst(c) ==
  LET cur    == store[id[c]]
      resume == ~req[c].clean /\ cur # 0 /\ ~obj[cur].clean
  IN /\ pc[c] = "session"
     /\ present' = [present EXCEPT ![c] = resume]
     /\ Goto(c, "clear")
     /\ \/ /\ resume
           /\ sess' = [sess EXCEPT ![c] = cur]
           /\ UNCHANGED <<store, obj, created>>
        \/ /\ ~resume /\ created < MaxSess
           /\ created' = created + 1
           /\ sess' = [sess EXCEPT ![c] = created + 1]
           /\ store' = [store EXCEPT ![id[c]] = IF cur = 0 THEN created + 1 ELSE cur]
           /\ obj' = [obj EXCEPT ![created + 1] = NewSession(id[c], req[c].clean)]
     /\ UNCHANGED <<id, req, sock, connects, target, restore, registry, sub,
                    sweepVars, histVars>>

\* Store.GetOrCreate: resume a persistent session, else a fresh object.
GetOrCreate(c) ==
  LET cur    == store[id[c]]
      resume == ~req[c].clean /\ cur # 0 /\ ~obj[cur].clean
  IN /\ pc[c] = "session"
     /\ present' = [present EXCEPT ![c] = resume]
     /\ Goto(c, "clear")
     /\ \/ /\ resume
           /\ sess' = [sess EXCEPT ![c] = cur]
           /\ UNCHANGED <<store, obj, created>>
        \/ /\ ~resume /\ created < MaxSess
           /\ created' = created + 1
           /\ sess' = [sess EXCEPT ![c] = created + 1]
           /\ store' = [store EXCEPT ![id[c]] = created + 1]
           /\ obj' = [obj EXCEPT ![created + 1] = NewSession(id[c], req[c].clean)]
     /\ UNCHANGED <<id, req, sock, connects, target, restore, registry, sub,
                    sweepVars, histVars>>

ClearDisconnectExpiry(c) ==
  /\ pc[c] = "clear"
  /\ obj' = [obj EXCEPT ![sess[c]].deadline = "none"]
  /\ Goto(c, "expiry")
  /\ UNCHANGED <<id, req, sess, present, sock, connects, target, restore,
                 registry, store, created, sub, sweepVars, histVars>>

\* A 3.1.1 CONNECT that resumes a session leaves its expiry interval alone.
SetProtocolAndExpiry(c) ==
  LET r == req[c]
      s == sess[c]
      e == CASE r.clean -> "zero"
             [] ~r.clean /\ r.v5 -> r.expiry
             [] OTHER -> obj[s].expiry
  IN /\ pc[c] = "expiry"
     /\ obj' = [obj EXCEPT ![s].v5 = r.v5, ![s].expiry = e,
                           ![s].deadline = IF r.clean THEN "none" ELSE @]
     /\ Goto(c, "will")
     /\ UNCHANGED <<id, req, sess, present, sock, connects, target, restore,
                    registry, store, created, sub, sweepVars, histVars>>

\* The will of the CONNECT packet; without the flag the session keeps its own.
SetWill(c) ==
  /\ pc[c] = "will"
  /\ obj' = IF req[c].will THEN [obj EXCEPT ![sess[c]].will = c] ELSE obj
  /\ Goto(c, "online")
  /\ UNCHANGED <<id, req, sess, present, sock, connects, target, restore,
                 registry, store, created, sub, sweepVars, histVars>>

\* sess.SetConnected(true)
SetConnected(c) ==
  /\ pc[c] = "online"
  /\ obj' = [obj EXCEPT ![sess[c]].connected = TRUE]
  /\ Goto(c, "register")
  /\ UNCHANGED <<id, req, sess, present, sock, connects, target, restore,
                 registry, store, created, sub, sweepVars, histVars>>

\* register, the gauges, and the restore goroutine of a resumed session.
register(c) ==
  /\ pc[c] = "register"
  /\ registry' = [registry EXCEPT ![id[c]] = c]
  /\ restore' = IF present[c] /\ ~req[c].clean THEN [restore EXCEPT ![c] = @ + 1]
                ELSE restore
  /\ Goto(c, "serve")
  /\ UNCHANGED <<id, req, sess, present, sock, connects, target, store, obj,
                 created, sub, sweepVars, overlapped, graceful, wills>>

-----------------------------------------------------------------------------
(* Serving. *)

\* handleSubscribe
Subscribe(c) ==
  /\ pc[c] = "serve"
  /\ sub' = [sub EXCEPT ![id[c]] = c]
  /\ UNCHANGED <<connVars, registry, store, obj, created, sweepVars, histVars>>

\* restoreSession; whether PostgreSQL still has a row is left open.
restoreSession(c) ==
  /\ restore[c] > 0
  /\ restore' = [restore EXCEPT ![c] = @ - 1]
  /\ \/ sub' = [sub EXCEPT ![id[c]] = c]
     \/ UNCHANGED sub
  /\ UNCHANGED <<pc, id, req, sess, present, sock, connects, target, registry,
                 store, obj, created, sweepVars, histVars>>

\* Mutant: the will is suppressed only when no expiry interval is given.
handleDisconnectKeepsWill(c) ==
  /\ pc[c] = "serve"
  /\ \/ obj' = [obj EXCEPT ![sess[c]].will = None]
     \/ /\ req[c].v5
        /\ \E e \in Expiries : obj' = [obj EXCEPT ![sess[c]].expiry = e]
  /\ graceful' = graceful \cup {c}
  /\ Goto(c, "close")
  /\ UNCHANGED <<id, req, sess, present, sock, connects, target, restore,
                 registry, store, created, sub, sweepVars, overlapped, wills>>

\* handleDisconnect, with or without a Session Expiry Interval.
handleDisconnect(c) ==
  /\ pc[c] = "serve"
  /\ \/ obj' = [obj EXCEPT ![sess[c]].will = None]
     \/ /\ req[c].v5
        /\ \E e \in Expiries :
             obj' = [obj EXCEPT ![sess[c]].will = None, ![sess[c]].expiry = e]
  /\ graceful' = graceful \cup {c}
  /\ Goto(c, "close")
  /\ UNCHANGED <<id, req, sess, present, sock, connects, target, restore,
                 registry, store, created, sub, sweepVars, overlapped, wills>>

\* readLoop returns: read error, keep-alive timeout, malformed or oversized
\* packet, failed authentication, rate limit.
Drop(c) ==
  /\ pc[c] \in {"accept", "serve"}
  /\ Goto(c, "close")
  /\ UNCHANGED <<id, req, sess, present, sock, connects, target, restore,
                 registry, store, obj, created, sub, sweepVars, histVars>>

\* readLoop returns because the socket was closed under it.
ReadClosed(c) == ~sock[c] /\ Drop(c)

\* ForceDisconnect from the API, on the connection GetClient returns.
ForceDisconnect(i) ==
  LET c == registry[i]
  IN /\ c # None
     /\ obj' = [obj EXCEPT ![sess[c]].will = None]
     /\ sock' = [sock EXCEPT ![c] = FALSE]
     /\ UNCHANGED <<pc, id, req, sess, present, connects, target, restore,
                    registry, store, created, sub, sweepVars, histVars>>

-----------------------------------------------------------------------------
(* cleanup. *)

Close(c) ==
  /\ pc[c] = "close"
  /\ sock' = [sock EXCEPT ![c] = FALSE]
  /\ Goto(c, IF id[c] = None THEN "gone" ELSE "unregister")
  /\ UNCHANGED <<id, req, sess, present, connects, target, restore, registry,
                 store, obj, created, sub, sweepVars, histVars>>

\* Mutant: a connection without a network error stays registered.
unregisterNot(c) ==
  /\ pc[c] = "unregister"
  /\ registry' = IF c \in graceful THEN registry ELSE [registry EXCEPT ![id[c]] = None]
  /\ Goto(c, IF sess[c] = 0 THEN "gone" ELSE "offline")
  /\ UNCHANGED <<id, req, sess, present, sock, connects, target, restore,
                 store, obj, created, sub, sweepVars, histVars>>

\* unregister deletes by client ID, whichever connection is registered.
unregister(c) ==
  /\ pc[c] = "unregister"
  /\ registry' = [registry EXCEPT ![id[c]] = None]
  /\ Goto(c, IF sess[c] = 0 THEN "gone" ELSE "offline")
  /\ UNCHANGED <<id, req, sess, present, sock, connects, target, restore,
                 store, obj, created, sub, sweepVars, histVars>>

\* sess.SetConnected(false)
SetDisconnected(c) ==
  /\ pc[c] = "offline"
  /\ obj' = [obj EXCEPT ![sess[c]].connected = FALSE]
  /\ Goto(c, IF obj[sess[c]].clean THEN "unsub" ELSE "prepare")
  /\ UNCHANGED <<id, req, sess, present, sock, connects, target, restore,
                 registry, store, created, sub, sweepVars, histVars>>

\* Mutant: a finite interval falls into the case of the maximal one.
PrepareDisconnectExpiryNever(c) ==
  LET s == obj[sess[c]]
  IN /\ pc[c] = "prepare"
     /\ obj' = IF ~s.v5 THEN obj ELSE [obj EXCEPT ![sess[c]].deadline = "none"]
     /\ Goto(c, IF s.v5 /\ s.expiry = "zero" THEN "unsub" ELSE "lastwill")
     /\ UNCHANGED <<id, req, sess, present, sock, connects, target, restore,
                    registry, store, created, sub, sweepVars, histVars>>

\* PrepareDisconnectExpiry: purge now, never, or after a deadline.
PrepareDisconnectExpiry(c) ==
  LET s == obj[sess[c]]
  IN /\ pc[c] = "prepare"
     /\ obj' = IF ~s.v5 THEN obj
               ELSE [obj EXCEPT ![sess[c]].deadline =
                       IF s.expiry = "finite" THEN "pending" ELSE "none"]
     /\ Goto(c, IF s.v5 /\ s.expiry = "zero" THEN "unsub" ELSE "lastwill")
     /\ UNCHANGED <<id, req, sess, present, sock, connects, target, restore,
                    registry, store, created, sub, sweepVars, histVars>>

\* router.UnsubscribeAll, by cleanup of a clean session or by
\* PurgePersistentSession.
UnsubscribeAll(c) ==
  /\ pc[c] = "unsub"
  /\ sub' = [sub EXCEPT ![id[c]] = None]
  /\ Goto(c, "delete")
  /\ UNCHANGED <<id, req, sess, present, sock, connects, target, restore,
                 registry, store, obj, created, sweepVars, histVars>>

\* Mutant: the session is deleted only if no connection is registered.
DeleteSessionIfAlone(c) ==
  /\ pc[c] = "delete"
  /\ store' = IF registry[id[c]] = None THEN [store EXCEPT ![id[c]] = 0] ELSE store
  /\ Goto(c, "lastwill")
  /\ UNCHANGED <<id, req, sess, present, sock, connects, target, restore,
                 registry, obj, created, sub, sweepVars, histVars>>

\* sessions.Delete
DeleteSession(c) ==
  /\ pc[c] = "delete"
  /\ store' = [store EXCEPT ![id[c]] = 0]
  /\ Goto(c, "lastwill")
  /\ UNCHANGED <<id, req, sess, present, sock, connects, target, restore,
                 registry, obj, created, sub, sweepVars, histVars>>

\* The will of the session, if set, is published; WillSet stays as it is.
PublishWill(c) ==
  LET w == obj[sess[c]].will
  IN /\ pc[c] = "lastwill"
     /\ wills' = IF w = None THEN wills ELSE wills \cup {[by |-> c, of |-> w]}
     /\ Goto(c, "gone")
     /\ UNCHANGED <<id, req, sess, present, sock, connects, target, restore,
                    registry, store, obj, created, sub, sweepVars,
                    overlapped, graceful>>

-----------------------------------------------------------------------------
(* sessionExpirySweepLoop.  Deadlines pass only between two sweeps because  *)
(* a sweep compares them with the time of its tick.                         *)

DeadlinePasses(s) ==
  /\ sweepPc = "idle"
  /\ obj[s].deadline = "pending"
  /\ obj' = [obj EXCEPT ![s].deadline = "passed"]
  /\ UNCHANGED <<connVars, registry, store, created, sub, sweepVars, histVars>>

\* The labels of handleConnect.
Handshake == {"takeover", "evict", "session", "clear", "expiry", "will",
              "online", "register"}

\* Store.Each: snapshot of the stored sessions.
SweepTick ==
  /\ sweepPc = "idle"
  /\ overlapped' = (overlapped \/ \E c \in Conns : pc[c] \in Handshake)
  /\ sweepSet' = {store[i] : i \in ClientIds} \ {0}
  /\ sweepPc' = "check"
  /\ UNCHANGED <<connVars, registry, store, obj, created, sub, sweepCur,
                 graceful, wills>>

\* Mutant: the test of the connected flag is inverted.
ShouldExpireConnected(s) ==
  obj[s].connected /\ ~obj[s].clean /\ obj[s].deadline = "passed"

ShouldExpireDisconnected(s) ==
  ~obj[s].connected /\ ~obj[s].clean /\ obj[s].deadline = "passed"

SweepCheck ==
  /\ sweepPc = "check"
  /\ \/ /\ sweepSet = {}
        /\ sweepPc' = "idle"
        /\ UNCHANGED <<sweepSet, sweepCur>>
     \/ \E s \in sweepSet :
          /\ sweepSet' = sweepSet \ {s}
          /\ \/ ShouldExpireDisconnected(s) /\ sweepCur' = s /\ sweepPc' = "unsub"
             \/ ~ShouldExpireDisconnected(s) /\ UNCHANGED <<sweepPc, sweepCur>>
  /\ UNCHANGED <<connVars, registry, store, obj, created, sub, histVars>>

\* PurgePersistentSession of the sweep, in two steps.
SweepUnsubscribeAll ==
  /\ sweepPc = "unsub"
  /\ sub' = [sub EXCEPT ![obj[sweepCur].client] = None]
  /\ sweepPc' = "delete"
  /\ UNCHANGED <<connVars, registry, store, obj, created, sweepSet, sweepCur,
                 histVars>>

SweepDelete ==
  /\ sweepPc = "delete"
  /\ store' = [store EXCEPT ![obj[sweepCur].client] = 0]
  /\ sweepPc' = "check" /\ sweepCur' = 0
  /\ UNCHANGED <<connVars, registry, obj, created, sub, sweepSet, histVars>>

-----------------------------------------------------------------------------
ConnectStep(c) ==
  \/ takeover(c) \/ Evict(c) \/ GetOrCreate(c) \/ ClearDisconnectExpiry(c)
  \/ SetProtocolAndExpiry(c) \/ SetWill(c) \/ SetConnected(c) \/ register(c)

CleanupStep(c) ==
  \/ Close(c) \/ unregister(c) \/ SetDisconnected(c) \/ PrepareDisconnectExpiry(c)
  \/ UnsubscribeAll(c) \/ DeleteSession(c) \/ PublishWill(c)

Sweep == SweepTick \/ SweepCheck \/ SweepUnsubscribeAll \/ SweepDelete

Next ==
  \/ \E c \in Conns :
       \/ \E i \in ClientIds, r \in Requests : Connect(c, i, r)
       \/ \E i \in ClientIds : PluginReject(c, i)
       \/ ConnectStep(c)
       \/ Subscribe(c)
       \/ restoreSession(c)
       \/ handleDisconnect(c)
       \/ Drop(c)
       \/ CleanupStep(c)
  \/ \E i \in ClientIds : ForceDisconnect(i)
  \/ \E s \in SessIds : DeadlinePasses(s)
  \/ Sweep

Spec == Init /\ [][Next]_vars

\* The goroutine of a connection, as far as it needs no packet from its peer.
Goroutine(c) == ConnectStep(c) \/ CleanupStep(c) \/ ReadClosed(c)

\* Fairness: a connection goroutine runs on, a closed socket ends its read
\* loop, the ticker ticks and time passes.  Clients promise nothing.
FairSpec ==
  /\ Spec
  /\ \A c \in Conns : WF_vars(Goroutine(c))
  /\ \A s \in SessIds : SF_vars(DeadlinePasses(s))
  /\ WF_vars(Sweep)

-----------------------------------------------------------------------------
(* Properties. *)

\* Connections that hold session s and have not yet decided its fate.
Holders(s) == {c \in Conns : sess[c] = s /\ pc[c] \notin {"lastwill", "gone"}}

\* The registry never names a connection that has unregistered itself: what
\* takeover and ForceDisconnect act on is still on its way to cleanup, although
\* unregister deletes by client ID and not by connection.
RegistryNeverStale ==
  \A i \in ClientIds : registry[i] # None =>
    id[registry[i]] = i /\ pc[registry[i]] \in {"serve", "close", "unregister"}

\* Nothing of a clean session outlives the cleanup of its connection, however
\* the cleanups and CONNECTs of one client ID interleave: not the session in the
\* store, and not the delivery closure in the router.
NoGhosts ==
  \A i \in ClientIds :
    /\ store[i] # 0 /\ obj[store[i]].clean => Holders(store[i]) # {}
    /\ sub[i] # None /\ req[sub[i]].clean =>
         id[sub[i]] = i /\ pc[sub[i]] \in {"serve", "close", "unregister", "offline", "unsub"}

\* A stored MQTT v5 persistent session that nobody works on any more either
\* never expires or has a deadline: interval 0 has purged it, a finite interval
\* has scheduled it, and no late CONNECT or cleanup has undone that.
ExpiryHonoured ==
  \A i \in ClientIds :
    LET s == store[i]
    IN s # 0 /\ ~obj[s].clean /\ obj[s].v5 /\ Holders(s) = {} =>
         \/ obj[s].expiry = "never"
         \/ obj[s].expiry = "finite" /\ obj[s].deadline # "none"

\* The will of a clean session is published only by the cleanup of the
\* connection that set it, and not after its DISCONNECT.
CleanWillOwn ==
  \A w \in wills : obj[sess[w.by]].clean => w.of = w.by /\ w.by \notin graceful

\* As long as no CONNECT has overlapped older work on its client ID, a serving
\* connection is the registered one, its session is the stored one and is
\* marked connected.
LiveConsistent ==
  ~overlapped => \A c \in Conns : pc[c] = "serve" =>
    registry[id[c]] = c /\ store[id[c]] = sess[c] /\ obj[sess[c]].connected

\* takeover gets rid of the connection it evicts.
EvictedEnds ==
  \A d \in Conns : (\E c \in Conns : pc[c] = "evict" /\ target[c] = d) ~> (pc[d] = "gone")

Abandoned(s) == s \in {store[i] : i \in ClientIds} /\ Holders(s) = {}

\* An abandoned v5 session with a finite expiry interval is purged by the sweep
\* unless its client comes back.
ExpiredIsPurged ==
  \A s \in SessIds :
    (Abandoned(s) /\ ~obj[s].clean /\ obj[s].v5 /\ obj[s].expiry = "finite")
      ~> ~Abandoned(s)

=============================================================================
