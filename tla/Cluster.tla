------------------------------ MODULE Cluster ------------------------------
(***************************************************************************)
(* Cluster mode (internal/broker/server.go, internal/cluster/partition.go, *)
(* internal/storage/storage.go): brokers pulse in a Redis sorted set,      *)
(* compute the owners of the topic partitions from it, and fan messages    *)
(* out over a Redis channel, from which only the owner of a message's      *)
(* partition routes it.                                                    *)
(*                                                                         *)
(* The heartbeat, the partition sync, the cluster loop and the fan-out     *)
(* goroutines of every broker interleave; brokers start, stop and crash,   *)
(* and Redis calls fail.                                                   *)
(***************************************************************************)
EXTENDS Integers, Sequences, FiniteSets

CONSTANTS
  Brokers,         \* broker IDs, integers in the order of their strings
  PartitionCount,
  ChanCap,         \* capacity of the channel of SubscribeCluster (512)
  MaxMsgs,         \* bound on the messages published
  MaxChurn         \* bound on stops, crashes, outages and failed Redis calls

ASSUME ConstantsAssumption ==
  /\ Brokers \subseteq Int /\ IsFiniteSet(Brokers)
  /\ PartitionCount \in Nat \ {0} /\ ChanCap \in Nat \ {0}
  /\ MaxMsgs \in Nat /\ MaxChurn \in Nat

Partitions == 0 .. (PartitionCount - 1)
MsgIds     == 1 .. MaxMsgs

VARIABLES
  up,         \* "down", "up", "stopping"
  ownership,  \* Manager.ownership of each broker
  syncPc, ids, next,  \* partitionSyncLoop: program counter and locals
  pulse,      \* the pulse set in Redis: "none", "fresh", "stale"
  sent,       \* messages published by clients: [src, part]
  fanout,     \* messages whose fan-out goroutine has yet to run
  chan,       \* channel of SubscribeCluster of each broker
  routed,     \* how often a broker has routed a message
  churn,
  steady      \* messages published to a settled cluster, undisturbed since

syncVars  == <<syncPc, ids, next>>
msgVars   == <<sent, fanout, chan, routed>>
vars == <<up, ownership, syncVars, pulse, msgVars, churn, steady>>

Init ==
  /\ up = [b \in Brokers |-> "down"]
  /\ ownership = [b \in Brokers |-> [p \in Partitions |-> b]]
  /\ syncPc = [b \in Brokers |-> "off"]
  /\ ids = [b \in Brokers |-> {}]
  /\ next = [b \in Brokers |-> 0]
  /\ pulse = [b \in Brokers |-> "none"]
  /\ sent = <<>> /\ fanout = {}
  /\ chan = [b \in Brokers |-> <<>>]
  /\ routed = [b \in Brokers |-> [m \in MsgIds |-> 0]]
  /\ churn = 0 /\ steady = {}

\* Something unusual happens: bounded, and no message stays undisturbed.
Disturb == churn < MaxChurn /\ churn' = churn + 1 /\ steady' = {}

-----------------------------------------------------------------------------
(* Life of a broker. *)

\* New and Start: NewManager makes the broker the owner of everything, and the
\* first pulse, whose error is ignored, is sent before the loops start.
Start(b) ==
  /\ up[b] = "down"
  /\ up' = [up EXCEPT ![b] = "up"]
  /\ ownership' = [ownership EXCEPT ![b] = [p \in Partitions |-> b]]
  /\ syncPc' = [syncPc EXCEPT ![b] = "prune"]
  /\ \/ /\ pulse' = [pulse EXCEPT ![b] = "fresh"]
        /\ steady' = {} /\ UNCHANGED churn
     \/ Disturb /\ UNCHANGED pulse
  /\ UNCHANGED <<ids, next, msgVars>>

\* The loops of b are gone, and with them what they held.
Halt(b) ==
  /\ syncPc' = [syncPc EXCEPT ![b] = "off"]
  /\ ids' = [ids EXCEPT ![b] = {}]
  /\ next' = [next EXCEPT ![b] = 0]
  /\ chan' = [chan EXCEPT ![b] = <<>>]

\* Stop: the context is cancelled and the loops end.
Stop(b) ==
  /\ up[b] = "up"
  /\ Disturb
  /\ up' = [up EXCEPT ![b] = "stopping"]
  /\ Halt(b)
  /\ UNCHANGED <<ownership, pulse, sent, fanout, routed>>

\* Stop: BrokerLeave, whose error is ignored, and the process ends.
BrokerLeave(b) ==
  /\ up[b] = "stopping"
  /\ up' = [up EXCEPT ![b] = "down"]
  /\ \/ pulse' = [pulse EXCEPT ![b] = "none"]
     \/ UNCHANGED pulse
  /\ fanout' = {m \in fanout : sent[m].src # b}
  /\ UNCHANGED <<ownership, syncVars, sent, chan, routed, churn, steady>>

\* The process dies.
Crash(b) ==
  /\ up[b] = "up"
  /\ Disturb
  /\ up' = [up EXCEPT ![b] = "down"]
  /\ Halt(b)
  /\ fanout' = {m \in fanout : sent[m].src # b}
  /\ UNCHANGED <<ownership, pulse, sent, routed>>

-----------------------------------------------------------------------------
(* Heartbeats. *)

\* clusterHeartbeatLoop
BrokerPulse(b) ==
  /\ up[b] = "up" /\ pulse[b] # "fresh"
  /\ pulse' = [pulse EXCEPT ![b] = "fresh"]
  /\ UNCHANGED <<up, ownership, syncVars, msgVars, churn, steady>>

\* BrokerStaleAfter has passed since the last pulse of a broker that is gone.
Age(b) ==
  /\ up[b] # "up" /\ pulse[b] = "fresh"
  /\ pulse' = [pulse EXCEPT ![b] = "stale"]
  /\ UNCHANGED <<up, ownership, syncVars, msgVars, churn, steady>>

\* The same for a running broker whose pulses failed for that long.
Outage(b) ==
  /\ up[b] = "up" /\ pulse[b] = "fresh"
  /\ Disturb
  /\ pulse' = [pulse EXCEPT ![b] = "stale"]
  /\ UNCHANGED <<up, ownership, syncVars, msgVars>>

-----------------------------------------------------------------------------
(* reconcilePartitions. *)

\* Mutant: old pulses are only skipped by the broker that looks, not removed.
PruneKeeps(b) ==
  /\ syncPc[b] = "prune"
  /\ syncPc' = [syncPc EXCEPT ![b] = "range"]
  /\ UNCHANGED <<up, ownership, ids, next, pulse, msgVars, churn, steady>>

\* AliveBrokerIDsAfterPrune: old pulses are removed.
Prune(b) ==
  /\ syncPc[b] = "prune"
  /\ pulse' = [x \in Brokers |-> IF pulse[x] = "stale" THEN "none" ELSE pulse[x]]
  /\ syncPc' = [syncPc EXCEPT ![b] = "range"]
  /\ UNCHANGED <<up, ownership, ids, next, msgVars, churn, steady>>

\* AliveBrokerIDsAfterPrune: the others are read by a second command.
ZRange(b) ==
  /\ syncPc[b] = "range"
  /\ ids' = [ids EXCEPT ![b] = {x \in Brokers : pulse[x] # "none"}]
  /\ syncPc' = [syncPc EXCEPT ![b] = "set"]
  /\ UNCHANGED <<up, ownership, next, pulse, msgVars, churn, steady>>

\* Either command fails: as if no broker were alive.
ReconcileFails(b) ==
  /\ syncPc[b] \in {"prune", "range"}
  /\ Disturb
  /\ ids' = [ids EXCEPT ![b] = {}]
  /\ syncPc' = [syncPc EXCEPT ![b] = "set"]
  /\ UNCHANGED <<up, ownership, next, pulse, msgVars>>

\* Element i of the sorted set S, counted from 0.
Sorted(S, i) == CHOOSE x \in S : Cardinality({y \in S : y < x}) = i

\* The owner b computes for partition p.
Assigned(S, b, p) == IF S = {} THEN b ELSE Sorted(S, p % Cardinality(S))

\* SetOwner of the next partition; after the last one the loop waits for its
\* ticker.
SetOwner(b) ==
  /\ syncPc[b] = "set"
  /\ ownership' = [ownership EXCEPT ![b][next[b]] = Assigned(ids[b], b, next[b])]
  /\ \/ /\ next[b] < PartitionCount - 1
        /\ next' = [next EXCEPT ![b] = @ + 1]
        /\ UNCHANGED <<syncPc, ids>>
     \/ /\ next[b] = PartitionCount - 1
        /\ next' = [next EXCEPT ![b] = 0]
        /\ ids' = [ids EXCEPT ![b] = {}]
        /\ syncPc' = [syncPc EXCEPT ![b] = "prune"]
  /\ UNCHANGED <<up, pulse, msgVars, churn, steady>>

-----------------------------------------------------------------------------
(* Messages. *)

Up == {b \in Brokers : up[b] = "up"}

\* Every broker is up or gone from Redis, and every table is the one computed
\* from the brokers that are up.
Settled ==
  /\ \A b \in Brokers : pulse[b] = IF b \in Up THEN "fresh" ELSE "none"
  /\ \A b \in Up : /\ \A p \in Partitions : ownership[b][p] = Assigned(Up, b, p)
                   /\ syncPc[b] = "set" => ids[b] = Up

\* handlePublish: routed to the local subscribers, then fanned out by a
\* goroutine.
Publish(b, p) ==
  LET m == Len(sent) + 1
  IN /\ b \in Up /\ Len(sent) < MaxMsgs
     /\ sent' = Append(sent, [src |-> b, part |-> p])
     /\ routed' = [routed EXCEPT ![b][m] = @ + 1]
     /\ fanout' = fanout \cup {m}
     /\ steady' = IF Settled THEN steady \cup {m} ELSE steady
     /\ UNCHANGED <<up, ownership, syncVars, pulse, chan, churn>>

\* PublishCluster; Redis hands the message to every subscribed broker, and a
\* broker whose channel is full drops it.
PublishCluster(m) ==
  LET full == {b \in Up : Len(chan[b]) >= ChanCap}
  IN /\ m \in fanout
     /\ fanout' = fanout \ {m}
     /\ chan' = [b \in Brokers |-> IF b \in Up \ full THEN Append(chan[b], m) ELSE chan[b]]
     /\ steady' = IF full = {} THEN steady ELSE steady \ {m}
     /\ UNCHANGED <<up, ownership, syncVars, pulse, sent, routed, churn>>

\* PublishCluster fails and its error is ignored.
PublishClusterFails(m) ==
  /\ m \in fanout
  /\ Disturb
  /\ fanout' = fanout \ {m}
  /\ UNCHANGED <<up, ownership, syncVars, pulse, sent, chan, routed>>

\* Mutant: a broker does not recognise its own messages.
AcceptsOwn(b, m) == ownership[b][m.part] = b

\* Mutant: the owner is compared with the source of the message.
AcceptsSource(b, m) == m.src # b /\ ownership[b][m.part] = m.src

\* clusterLoop: does the broker route a message from the channel?
Accepts(b, m) == m.src # b /\ ownership[b][m.part] = b

\* clusterLoop
clusterLoop(b) ==
  /\ up[b] = "up" /\ chan[b] # <<>>
  /\ LET m == Head(chan[b])
     IN routed' = IF Accepts(b, sent[m]) THEN [routed EXCEPT ![b][m] = @ + 1] ELSE routed
  /\ chan' = [chan EXCEPT ![b] = Tail(@)]
  /\ UNCHANGED <<up, ownership, syncVars, pulse, sent, fanout, churn, steady>>

-----------------------------------------------------------------------------
Reconcile(b) == Prune(b) \/ ZRange(b) \/ SetOwner(b)

Next ==
  \/ \E b \in Brokers :
       \/ Start(b) \/ Stop(b) \/ BrokerLeave(b) \/ Crash(b)
       \/ BrokerPulse(b) \/ Age(b) \/ Outage(b)
       \/ Reconcile(b) \/ ReconcileFails(b)
       \/ \E p \in Partitions : Publish(b, p)
       \/ clusterLoop(b)
  \/ \E m \in fanout : PublishCluster(m) \/ PublishClusterFails(m)

Spec == Init /\ [][Next]_vars

\* Fairness: the tickers of a running broker fire and its calls return, Stop
\* ends (it waits 15 s at most), and pulses that are not renewed grow old.
FairSpec ==
  /\ Spec
  /\ \A b \in Brokers : WF_vars(BrokerLeave(b)) /\ WF_vars(BrokerPulse(b))
                        /\ WF_vars(Age(b)) /\ WF_vars(Reconcile(b))

-----------------------------------------------------------------------------
(* Properties. *)

\* No broker routes a message twice, neither its own when it comes back over
\* Redis nor another's while ownership moves or brokers disagree about it.
RoutedOnce == \A b \in Brokers, m \in MsgIds : routed[b][m] <= 1

\* In a settled cluster a message is routed by its source and by the owner of
\* its partition, and by nobody else, once the fan-out has come to rest.
SteadyRouting ==
  \A m \in steady :
    LET own == {sent[m].src, Assigned(Up, sent[m].src, sent[m].part)}
        rtd == {b \in Brokers : routed[b][m] > 0}
    IN /\ rtd \subseteq own
       /\ m \notin fanout /\ (\A b \in Brokers : \A i \in DOMAIN chan[b] : chan[b][i] # m)
            => rtd = own

\* Whatever happened before, once it has stopped the brokers that are up agree on
\* the owner of every partition, and it is one of them.
OwnersConverge ==
  <>[](\A b \in Up : \A p \in Partitions : ownership[b][p] = Assigned(Up, b, p))
=============================================================================
