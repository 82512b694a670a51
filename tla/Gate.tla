-------------------------------- MODULE Gate --------------------------------
(***************************************************************************)
(* How a connection gets to the handlers and away again: the connection    *)
(* slots of the listeners, the read loop with its handshake guard and      *)
(* keep-alive deadline, the rate limit of handle (module Limiter),         *)
(* authentication in handleConnect, the topic aliases of a v5 publisher,   *)
(* and the return of the slot.  Sessions and subscriptions are the subject *)
(* of Lifecycle.                                                           *)
(***************************************************************************)
EXTENDS Limiter, FiniteSets

CONSTANTS Conns,
          MaxConnections,   \* capacity of connSem
          TopicAliasMax,    \* of the configuration
          Topics,
          NoId, NoTopic,    \* the empty client ID, the empty topic
          Life,             \* ticks a token is valid
          MaxTokens,        \* bound: tokens issued
          MaxPackets        \* bound: packets read

ASSUME GateAssumption ==
  /\ IsFiniteSet(Conns)
  /\ MaxConnections \in Nat \ {0} /\ TopicAliasMax \in Nat /\ Life \in Nat
  /\ NoId \notin Clients /\ NoTopic \notin Topics
  /\ MaxTokens \in Nat /\ MaxPackets \in Nat

VARIABLES
  slots,      \* elements in connSem
  st,         \* state of a connection
  cid,        \* clientID
  keep,       \* keepAlive > 0
  dead,       \* the peer is gone without closing: nothing will arrive any more
  v5, aliasMax, topicAliases,   \* version, negotiatedTopicAliasMax, topicAliases
  meant,      \* history: what the publisher last sent under an alias
  misrouted,  \* history: a PUBLISH went to another topic than its publisher meant
  exp,        \* expiry of the tokens the API has issued
  tokenCache, \* tokens in the broker's cache
  stale,      \* history: a token was accepted after its expiry
  packets     \* counter, to bound the model

authVars == <<exp, tokenCache, stale>>
aliasVars == <<v5, aliasMax, topicAliases, meant>>
connVars == <<cid, keep>>
vars == <<limiterVars, slots, st, dead, connVars, aliasVars, misrouted, authVars, packets>>

Aliases == 0 .. TopicAliasMax + 1
NoAliases == [a \in Aliases |-> NoTopic]

Init ==
  /\ LimiterInit
  /\ slots = 0 /\ st = [c \in Conns |-> "new"] /\ dead = {}
  /\ cid = [c \in Conns |-> NoId] /\ keep = {}
  /\ v5 = {} /\ aliasMax = [c \in Conns |-> 0]
  /\ topicAliases = [c \in Conns |-> NoAliases]
  /\ meant = [c \in Conns |-> NoAliases]
  /\ misrouted = FALSE
  /\ exp = <<>> /\ tokenCache = {} /\ stale = FALSE
  /\ packets = 0

\* A packet of c arrives and is read in full.
Read(c) ==
  /\ st[c] \in {"handshaking", "connected"} /\ c \notin dead
  /\ packets < MaxPackets /\ packets' = packets + 1
  /\ UNCHANGED <<slots, dead>>

\* The read loop returns: a read or a handler failed.  Nothing below reads the fields of
\* the connection again, so they take their initial values.
Return(c) ==
  /\ st' = [st EXCEPT ![c] = "returned"]
  /\ cid' = [cid EXCEPT ![c] = NoId] /\ keep' = keep \ {c}
  /\ v5' = v5 \ {c} /\ aliasMax' = [aliasMax EXCEPT ![c] = 0]
  /\ topicAliases' = [topicAliases EXCEPT ![c] = NoAliases]
  /\ meant' = [meant EXCEPT ![c] = NoAliases]

----------------------------------------------------------------------------
(* Slots *)

\* acceptLoop and wsAcceptLoop: a slot without waiting, ...
acceptLoop(c) ==
  /\ st[c] = "new" /\ slots < MaxConnections
  /\ slots' = slots + 1 /\ st' = [st EXCEPT ![c] = "handshaking"]
  /\ UNCHANGED <<limiterVars, dead, connVars, aliasVars, misrouted, authVars, packets>>

\* Mutant: a connection that is turned away gives back a slot.
acceptLoopFullReleases(c) ==
  /\ st[c] = "new" /\ slots = MaxConnections
  /\ st' = [st EXCEPT ![c] = "refused"] /\ slots' = slots - 1
  /\ UNCHANGED <<limiterVars, dead, connVars, aliasVars, misrouted, authVars, packets>>

\* ... or the connection is closed.
acceptLoopFull(c) ==
  /\ st[c] = "new" /\ slots = MaxConnections
  /\ st' = [st EXCEPT ![c] = "refused"]
  /\ UNCHANGED <<limiterVars, slots, dead, connVars, aliasVars, misrouted, authVars, packets>>

\* cleanup of the connection; what it does to session and registry is in Lifecycle.
cleanup(c) ==
  /\ st[c] = "returned" /\ st' = [st EXCEPT ![c] = "closed"]
  /\ UNCHANGED <<limiterVars, slots, dead, connVars, aliasVars, misrouted, authVars, packets>>

\* The deferred receive from connSem, after Run.
ReleaseSlot(c) ==
  /\ st[c] = "closed" /\ st' = [st EXCEPT ![c] = "gone"] /\ slots' = slots - 1
  /\ UNCHANGED <<limiterVars, dead, connVars, aliasVars, misrouted, authVars, packets>>

----------------------------------------------------------------------------
(* The read loop *)

\* The peer crashes or its network goes away.
PeerDies(c) ==
  /\ st[c] \in {"handshaking", "connected"} /\ c \notin dead /\ dead' = dead \cup {c}
  /\ UNCHANGED <<limiterVars, slots, st, connVars, aliasVars, misrouted, authVars, packets>>

\* The peer closes, is taken over, or sends a header or body that is refused.
ReadFails(c) ==
  /\ st[c] \in {"handshaking", "connected"} /\ c \notin dead
  /\ Return(c)
  /\ UNCHANGED <<limiterVars, slots, dead, misrouted, authVars, packets>>

\* The read deadline, set before every read once the client has a keep-alive.
ReadTimeout(c) ==
  /\ st[c] = "connected" /\ c \in dead /\ c \in keep
  /\ Return(c)
  /\ UNCHANGED <<limiterVars, slots, dead, misrouted, authVars, packets>>

\* A packet other than CONNECT during the handshake ends the loop before handle.
ExpectedConnect(c) ==
  /\ Read(c) /\ st[c] = "handshaking"
  /\ Return(c)
  /\ UNCHANGED <<limiterVars, misrouted, authVars>>

\* handle asks the limiter as soon as the client has an identifier.
LimitPass(c) == IF cid[c] = NoId THEN UNCHANGED limiterVars ELSE Allow(cid[c])

\* The packet is refused by the limiter, and the loop ends.
RateLimited(c) ==
  /\ Read(c) /\ cid[c] # NoId /\ Deny(cid[c])
  /\ Return(c)
  /\ UNCHANGED <<misrouted, authVars>>

\* PINGREQ, SUBSCRIBE, UNSUBSCRIBE and acknowledgements: well formed, so handled, or not
\* (DISCONNECT also ends the loop).
HandleOther(c, ok) ==
  /\ Read(c) /\ st[c] = "connected" /\ LimitPass(c)
  /\ IF ok THEN UNCHANGED <<st, connVars, aliasVars>> ELSE Return(c)
  /\ UNCHANGED <<misrouted, authVars>>

----------------------------------------------------------------------------
(* CONNECT *)

\* Mutant: a cached token is good for ever.
AuthJWTCached(i) == i \in tokenCache \/ now < exp[i]

\* AuthJWT: from the cache while it has not expired, else by its signature and claims.
AuthJWT(i) == (i \in tokenCache /\ now < exp[i]) \/ now < exp[i]

\* IssueToken in handleLogin of the API; both authenticators have the same secret.
IssueToken ==
  /\ Len(exp) < MaxTokens
  /\ exp' = Append(exp, now + Life)
  /\ UNCHANGED <<limiterVars, slots, st, dead, connVars, aliasVars, misrouted, tokenCache, stale, packets>>

\* AuthX509 fails (a revoked certificate), or AuthPassword does, or the password is no
\* token: CONNACK with a failure, and the client has no identifier yet.
ConnectRefused(c) ==
  /\ Read(c) /\ LimitPass(c)
  /\ Return(c)
  /\ UNCHANGED <<misrouted, authVars>>

\* Authentication in handleConnect: by token i, or (0) by certificate, by password, or
\* with no credentials at all, which is accepted.
Authenticate(i) ==
  \/ i = 0 /\ UNCHANGED authVars
  \/ /\ i \in DOMAIN exp /\ AuthJWT(i)
     /\ tokenCache' = tokenCache \cup {i} /\ stale' = (stale \/ now >= exp[i])
     /\ UNCHANGED exp

\* A plugin refuses, after the client ID was set.
handleConnectPlugin(c, i) ==
  /\ Read(c) /\ LimitPass(c) /\ Authenticate(i)
  /\ Return(c)
  /\ UNCHANGED misrouted

\* The smaller of the two maxima, where 0 of the client does not count.
NegotiatedAliasMax(is5, max) ==
  IF is5 /\ max > 0 /\ (TopicAliasMax = 0 \/ max < TopicAliasMax) THEN max ELSE TopicAliasMax

\* The rest of handleConnect.  Aliases and keep-alive of an earlier CONNECT stay.
handleConnect(c, id, i, is5, max, ka) ==
  /\ Read(c) /\ LimitPass(c) /\ Authenticate(i)
  /\ cid' = [cid EXCEPT ![c] = id]
  /\ v5' = IF is5 THEN v5 \cup {c} ELSE v5 \ {c}
  /\ aliasMax' = [aliasMax EXCEPT ![c] = NegotiatedAliasMax(is5, max)]
  /\ keep' = IF ka THEN keep \cup {c} ELSE keep
  /\ st' = [st EXCEPT ![c] = "connected"]
  /\ UNCHANGED <<topicAliases, meant, misrouted>>

----------------------------------------------------------------------------
(* PUBLISH *)

\* Mutant: aliases belong to the client and not to the connection.
StoreAliasShared(c, t, a) ==
  IF a > 0 /\ aliasMax[c] > 0
  THEN [d \in Conns |-> IF cid[d] = cid[c] THEN [topicAliases[d] EXCEPT ![a] = t] ELSE topicAliases[d]]
  ELSE topicAliases

StoreAlias(c, t, a) ==
  IF a > 0 /\ aliasMax[c] > 0 THEN [topicAliases EXCEPT ![c][a] = t] ELSE topicAliases

\* resolvePublishTopic fails: an alias over the maximum, or no topic for it.
AliasRefused(c, t, a) ==
  a > aliasMax[c] \/ (t = NoTopic /\ topicAliases[c][a] = NoTopic)

\* Only a v5 PUBLISH has an alias; DecodePublish refuses an empty topic of the others.
PublishPacket(c, t, a) == c \in v5 \/ (a = 0 /\ t # NoTopic)

handlePublish(c, t, a) ==
  /\ Read(c) /\ st[c] = "connected" /\ LimitPass(c)
  /\ PublishPacket(c, t, a) /\ ~(c \in v5 /\ AliasRefused(c, t, a))
  /\ misrouted' = (misrouted \/ (t = NoTopic /\ topicAliases[c][a] # meant[c][a]))
  /\ topicAliases' = IF c \in v5 /\ t # NoTopic THEN StoreAlias(c, t, a) ELSE topicAliases
  /\ meant' = IF a > 0 /\ t # NoTopic THEN [meant EXCEPT ![c][a] = t] ELSE meant
  /\ UNCHANGED <<st, connVars, v5, aliasMax, authVars>>

handlePublishFails(c, t, a) ==
  /\ Read(c) /\ st[c] = "connected" /\ LimitPass(c)
  /\ c \in v5 /\ AliasRefused(c, t, a)
  /\ Return(c)
  /\ UNCHANGED <<misrouted, authVars>>

----------------------------------------------------------------------------
LimiterStep ==
  /\ Tick \/ Cleanup
  /\ UNCHANGED <<slots, st, dead, connVars, aliasVars, misrouted, authVars, packets>>

Next ==
  \/ \E c \in Conns :
       \/ acceptLoop(c) \/ acceptLoopFull(c) \/ cleanup(c) \/ ReleaseSlot(c)
       \/ PeerDies(c) \/ ReadFails(c) \/ ReadTimeout(c)
       \/ ExpectedConnect(c) \/ RateLimited(c) \/ ConnectRefused(c)
       \/ \E ok \in BOOLEAN : HandleOther(c, ok)
       \/ \E i \in 0 .. MaxTokens :
            \/ handleConnectPlugin(c, i)
            \/ \E id \in Clients, is5, ka \in BOOLEAN, max \in Aliases :
                 handleConnect(c, id, i, is5, max, ka)
       \/ \E t \in Topics \cup {NoTopic}, a \in Aliases :
            handlePublish(c, t, a) \/ handlePublishFails(c, t, a)
  \/ IssueToken
  \/ LimiterStep

Spec == Init /\ [][Next]_vars

----------------------------------------------------------------------------
(* Properties *)

States == {"new", "handshaking", "connected", "returned", "closed", "gone", "refused"}

\* Connections with a goroutine in Run.
Running == {c \in Conns : st[c] \in {"handshaking", "connected", "returned", "closed"}}

\* Whatever refusals, timeouts and failures there were, connSem holds one element for each
\* connection whose goroutine is running: none is lost, none is given back twice.
SlotsExact == slots = Cardinality(Running)

\* A PUBLISH with an alias goes to the topic its publisher last sent under that alias.
AliasAgrees == ~misrouted

\* A CONNECT with a token is accepted only before the token expires, although the cache
\* keeps it.
TokensFresh == ~stale
=============================================================================
