------------------------------ MODULE Retained ------------------------------
(***************************************************************************)
(* Retained messages: the router's map and counter, the hash in Redis and  *)
(* what a restart reads back, and the retained messages a new subscriber   *)
(* is sent.  Publishers change memory at once and leave the write to Redis *)
(* to a goroutine of its own, whose error nobody reads; goroutines for one *)
(* topic may overtake each other, and a crash takes them and the memory.   *)
(* The value of a message is the number of its publish, 0 the empty one.   *)
(***************************************************************************)
EXTENDS Integers, FiniteSets, Sequences

CONSTANTS Topics, Filters,
          Matches,      \* Matches[f]: the topics filter f matches
          ApiCap,       \* capacity of the channel of SubscribeAPIPublish (256)
          MaxPubs,      \* bound: retained messages published
          MaxSubs,      \* bound: SUBSCRIBEs and UNSUBSCRIBEs
          MaxFaults     \* bound: crashes and failed commands

ASSUME ConstantsAssumption ==
  /\ Matches \in [Filters -> SUBSET Topics]
  /\ ApiCap \in Nat /\ MaxPubs \in Nat /\ MaxSubs \in Nat /\ MaxFaults \in Nat

VARIABLES
  retained,       \* Router.retained: the value by topic, 0 for none
  retainedCount,  \* Router.retainedCount
  calls,          \* router.Publish calls between the swap and the match
  inFlight,       \* QoS 2 retained messages that wait for PUBREL
  apiCh,          \* messages from the API that apiPublishLoop has not read
  subs,           \* filters in the router
  sends,          \* SendRetained goroutines
  redis,          \* the retained hash in Redis
  writers,        \* goroutines of handlePublish that have not called SetRetained yet
  seen,           \* history: by filter, topics whose present message the client was sent
  memBy, redisBy, \* history: by topic, the publish that wrote retained last, and the one
                  \* that began the last write to Redis
  sound,          \* history: by topic, that write ran alone and did not fail
  phantom,        \* history: empty messages for topics with nothing retained
  pubs, changes, faults  \* counters, to bound the model

mapVars == <<retained, retainedCount, memBy, phantom>>
subVars == <<subs, sends, seen>>
redisVars == <<redis, writers, redisBy, sound>>
counters == <<pubs, changes, faults>>
vars == <<mapVars, calls, inFlight, apiCh, subVars, redisVars, counters>>

Messages == [op : 0 .. MaxPubs, topic : Topics, val : 0 .. MaxPubs]
Message(n, t, v) == [op |-> n, topic |-> t, val |-> v]

Init ==
  /\ retained = [t \in Topics |-> 0] /\ retainedCount = 0
  /\ calls = {} /\ inFlight = {} /\ apiCh = <<>>
  /\ subs = {} /\ sends = {} /\ seen = [f \in Filters |-> {}]
  /\ redis = [t \in Topics |-> 0] /\ writers = {}
  /\ memBy = [t \in Topics |-> 0] /\ redisBy = [t \in Topics |-> 0]
  /\ sound = [t \in Topics |-> TRUE] /\ phantom = 0
  /\ pubs = 0 /\ changes = 0 /\ faults = 0

NewPublish == pubs < MaxPubs /\ pubs' = pubs + 1 /\ UNCHANGED <<changes, faults>>
Change == changes < MaxSubs /\ changes' = changes + 1 /\ UNCHANGED <<pubs, faults>>
Fault == faults < MaxFaults /\ faults' = faults + 1 /\ UNCHANGED <<pubs, changes>>

----------------------------------------------------------------------------
(* Publishing *)

\* Mutant: the counter goes up for a topic that was there.
StoreRetainedCounts(m, log) ==
  /\ retained' = [retained EXCEPT ![m.topic] = m.val]
  /\ retainedCount' = IF m.val = 0 THEN retainedCount - 1 ELSE retainedCount + 1
  /\ phantom' = IF m.val = 0 /\ retained[m.topic] = 0 THEN phantom + 1 ELSE phantom
  /\ memBy' = [memBy EXCEPT ![m.topic] = m.op]
  /\ seen' = [f \in Filters |-> seen[f] \ {m.topic}]
  /\ calls' = calls \cup {[msg |-> m, log |-> log]}

\* router.Publish up to the match: the map and its counter.  An empty message is
\* counted down whether or not the topic was there.
StoreRetained(m, log) ==
  /\ retained' = [retained EXCEPT ![m.topic] = m.val]
  /\ retainedCount' = CASE m.val = 0 -> retainedCount - 1
                        [] m.val # 0 /\ retained[m.topic] = 0 -> retainedCount + 1
                        [] OTHER -> retainedCount
  /\ phantom' = IF m.val = 0 /\ retained[m.topic] = 0 THEN phantom + 1 ELSE phantom
  /\ memBy' = [memBy EXCEPT ![m.topic] = m.op]
  /\ seen' = [f \in Filters |-> seen[f] \ {m.topic}]
  /\ calls' = calls \cup {[msg |-> m, log |-> log]}

\* handlePublish with RETAIN, QoS 0 and 1.
PublishRetained(t, v) ==
  /\ NewPublish
  /\ StoreRetained(Message(pubs', t, v), TRUE)
  /\ UNCHANGED <<inFlight, apiCh, subs, sends, redisVars>>

\* The retained will of a connection, published by cleanup: memory only.
PublishWill(t, v) ==
  /\ NewPublish
  /\ StoreRetained(Message(pubs', t, v), FALSE)
  /\ UNCHANGED <<inFlight, apiCh, subs, sends, redisVars>>

\* A retained message of another broker, accepted by clusterLoop: memory only.
clusterLoop(t, v) ==
  /\ NewPublish
  /\ StoreRetained(Message(pubs', t, v), FALSE)
  /\ UNCHANGED <<inFlight, apiCh, subs, sends, redisVars>>

Writing(t) == \E m \in writers : m.topic = t
Settled(t) == ~Writing(t) /\ sound[t]

\* The goroutine at the end of handlePublish starts.
LogPublish(m) ==
  /\ writers' = writers \cup {m}
  /\ redisBy' = [redisBy EXCEPT ![m.topic] = m.op]
  /\ sound' = [sound EXCEPT ![m.topic] = ~Writing(m.topic)]
  /\ UNCHANGED redis

\* The rest of router.Publish: match and deliver.  handlePublish then starts its
\* goroutine, the other callers do not.
Route(c) ==
  /\ calls' = calls \ {c}
  /\ seen' = [f \in Filters |->
                IF c.msg.val = retained[c.msg.topic] /\ f \in subs /\ c.msg.topic \in Matches[f]
                THEN seen[f] \cup {c.msg.topic} ELSE seen[f]]
  /\ IF c.log THEN LogPublish(c.msg) ELSE UNCHANGED redisVars
  /\ UNCHANGED <<mapVars, inFlight, apiCh, subs, sends, counters>>

\* handlePublish with RETAIN and QoS 2: kept until PUBREL, but written to Redis now.
PublishQoS2(t, v) ==
  /\ NewPublish
  /\ inFlight' = inFlight \cup {Message(pubs', t, v)}
  /\ LogPublish(Message(pubs', t, v))
  /\ UNCHANGED <<mapVars, calls, apiCh, subVars>>

handlePubrel(m) ==
  /\ inFlight' = inFlight \ {m}
  /\ StoreRetained(m, FALSE)
  /\ UNCHANGED <<apiCh, subs, sends, redisVars, counters>>

\* The goroutine of SubscribeAPIPublish drops what does not fit into the channel.
SubscribeAPIPublish(m) == IF Len(apiCh) < ApiCap THEN Append(apiCh, m) ELSE apiCh

\* handlePublish of the API, to the brokers through Redis.
PublishAPI(t, v) ==
  /\ NewPublish
  /\ apiCh' = SubscribeAPIPublish(Message(pubs', t, v))
  /\ UNCHANGED <<mapVars, calls, inFlight, subVars, redisVars>>

\* handleRetainedDelete of the API publishes an empty message.
handleRetainedDelete(t) ==
  /\ NewPublish
  /\ apiCh' = SubscribeAPIPublish(Message(pubs', t, 0))
  /\ UNCHANGED <<mapVars, calls, inFlight, subVars, redisVars>>

apiPublishLoop ==
  /\ apiCh # <<>>
  /\ apiCh' = Tail(apiCh)
  /\ StoreRetained(Head(apiCh), FALSE)
  /\ UNCHANGED <<inFlight, subs, sends, redisVars, counters>>

----------------------------------------------------------------------------
(* Subscribing *)

\* Mutant: a filter that is subscribed again is sent nothing.
StartSendNew(f) ==
  sends' = sends \cup (IF f \in subs THEN {} ELSE {[filter |-> f, todo |-> Topics]})

\* go SendRetained at the end of handleSubscribe.  The Range visits every key that is in
\* the map when it starts; one stored meanwhile may be visited or not.
StartSend(f) ==
  \E todo \in SUBSET Topics :
    /\ {t \in Topics : retained[t] # 0} \subseteq todo
    /\ sends' = sends \cup (IF todo = {} THEN {} ELSE {[filter |-> f, todo |-> todo]})

\* One filter of a SUBSCRIBE: the router first, then the goroutine.
handleSubscribe(f) ==
  /\ Change
  /\ subs' = subs \cup {f} /\ seen' = [seen EXCEPT ![f] = {}]
  /\ StartSend(f)
  /\ UNCHANGED <<mapVars, calls, inFlight, apiCh, redisVars>>

handleUnsubscribe(f) ==
  /\ Change
  /\ subs' = subs \ {f} /\ seen' = [seen EXCEPT ![f] = {}]
  /\ UNCHANGED <<mapVars, calls, inFlight, apiCh, sends, redisVars>>

\* One key of SendRetained's Range, visited with the value it has then.
SendRetained(s, t) ==
  /\ t \in s.todo
  /\ sends' = (sends \ {s}) \cup
              (IF s.todo = {t} THEN {} ELSE {[s EXCEPT !.todo = @ \ {t}]})
  /\ seen' = IF retained[t] # 0 /\ t \in Matches[s.filter] /\ s.filter \in subs
             THEN [seen EXCEPT ![s.filter] = @ \cup {t}] ELSE seen
  /\ UNCHANGED <<mapVars, calls, inFlight, apiCh, subs, redisVars, counters>>

----------------------------------------------------------------------------
(* Redis and restart *)

\* Mutant: an empty payload does not delete the key from the hash.
SetRetainedKeeps(m) ==
  /\ writers' = writers \ {m}
  /\ redis' = IF m.val = 0 THEN redis ELSE [redis EXCEPT ![m.topic] = m.val]
  /\ UNCHANGED <<mapVars, calls, inFlight, apiCh, subVars, redisBy, sound, counters>>

\* SetRetained: HSET, or HDEL for an empty payload.
SetRetained(m) ==
  /\ writers' = writers \ {m}
  /\ redis' = [redis EXCEPT ![m.topic] = m.val]
  /\ UNCHANGED <<mapVars, calls, inFlight, apiCh, subVars, redisBy, sound, counters>>

\* The command fails; the goroutine ignores the error.
SetRetainedFails(m) ==
  /\ Fault
  /\ writers' = writers \ {m}
  /\ sound' = [sound EXCEPT ![m.topic] = FALSE]
  /\ UNCHANGED <<mapVars, calls, inFlight, apiCh, subVars, redis, redisBy>>

\* Start loads the messages before it listens, or goes on without them when Redis does
\* not answer.
loadRetained(loads) ==
  /\ retained' = IF loads THEN redis ELSE [t \in Topics |-> 0]
  /\ retainedCount' = Cardinality({t \in Topics : retained'[t] # 0})
  /\ memBy' = [t \in Topics |-> IF loads THEN redisBy[t] ELSE -1]

\* The process dies, its goroutines with it, and starts again.
Restart(loads) ==
  /\ Fault
  /\ loadRetained(loads)
  /\ calls' = {} /\ inFlight' = {} /\ apiCh' = <<>> /\ phantom' = 0
  /\ subs' = {} /\ sends' = {} /\ seen' = [f \in Filters |-> {}]
  /\ writers' = {} /\ sound' = [t \in Topics |-> Settled(t)]
  /\ UNCHANGED <<redis, redisBy>>

Next ==
  \/ \E t \in Topics, v \in {0, pubs + 1} :
       \/ PublishRetained(t, v) \/ PublishQoS2(t, v)
       \/ PublishWill(t, v) \/ clusterLoop(t, v) \/ PublishAPI(t, v)
  \/ \E t \in Topics : handleRetainedDelete(t)
  \/ \E c \in calls : Route(c)
  \/ \E m \in inFlight : handlePubrel(m)
  \/ apiPublishLoop
  \/ \E f \in Filters : handleSubscribe(f) \/ handleUnsubscribe(f)
  \/ \E s \in sends, t \in Topics : SendRetained(s, t)
  \/ \E m \in writers : SetRetained(m) \/ SetRetainedFails(m)
  \/ \E loads \in BOOLEAN : Restart(loads)

Spec == Init /\ [][Next]_vars

----------------------------------------------------------------------------
(* Properties *)

\* If the publish that was last to write a topic in memory is also the last that began
\* to write it to Redis, and that write has run alone, memory and Redis hold the same
\* message: a restart then changes nothing (router.Publish, SetRetained, loadRetained).
RetainedDurable ==
  \A t \in Topics : Settled(t) /\ memBy[t] = redisBy[t] => retained[t] = redis[t]

\* retainedCount is the number of retained topics minus the empty messages published
\* to topics that had none since the start, which router.Publish counts down too.
CountAccounts ==
  retainedCount = Cardinality({t \in Topics : retained[t] # 0}) - phantom

\* A subscriber whose SendRetained has ended was sent the present message of every
\* retained topic that its filter matches, as retained or live: Publish stores before it
\* matches and handleSubscribe registers before it sends.
NoMissedRetained ==
  \A f \in subs, t \in Topics :
    /\ t \in Matches[f] /\ retained[t] # 0
    /\ \A s \in sends : s.filter # f
    /\ \A c \in calls : c.msg.topic # t
    => t \in seen[f]
=============================================================================
