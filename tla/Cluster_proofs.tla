--------------------------- MODULE Cluster_proofs ---------------------------
(***************************************************************************)
(* Theorems about Cluster, for any brokers, partitions, messages and       *)
(* channel capacity: no broker routes a message twice, and in a settled    *)
(* cluster a message reaches its source and the owner of its partition.    *)
(***************************************************************************)
EXTENDS Cluster, FiniteSetTheorems, TLAPS

\* m waits in the channel s; it waits there once at most.
In(s, m)   == \E i \in DOMAIN s : s[i] = m
Once(s, m) == \A i, j \in DOMAIN s : s[i] = m /\ s[j] = m => i = j

Published == 1 .. Len(sent)

TypeInv ==
  /\ up \in [Brokers -> {"down", "up", "stopping"}]
  /\ ownership \in [Brokers -> [Partitions -> Brokers]]
  /\ syncPc \in [Brokers -> {"off", "prune", "range", "set"}]
  /\ ids \in [Brokers -> SUBSET Brokers]
  /\ next \in [Brokers -> Partitions]
  /\ pulse \in [Brokers -> {"none", "fresh", "stale"}]
  /\ sent \in Seq([src : Brokers, part : Partitions]) /\ Len(sent) <= MaxMsgs
  /\ fanout \subseteq Published
  /\ chan \in [Brokers -> Seq(MsgIds)]
  /\ routed \in [Brokers -> [MsgIds -> Nat]]
  /\ steady \subseteq Published
  /\ \A b \in Brokers : up[b] # "up" => syncPc[b] = "off" /\ chan[b] = <<>>

\* Where message m can still be routed by broker b: it is in the fan-out, or once in the
\* channel of b, and another broker than its source has not routed it yet.
OnceInv(b, m) ==
  /\ routed[b][m] \in {0, 1}
  /\ m \notin Published => routed[b][m] = 0 /\ ~In(chan[b], m)
  /\ m \in Published /\ b # sent[m].src /\ (m \in fanout \/ In(chan[b], m)) => routed[b][m] = 0
  /\ m \in fanout => ~In(chan[b], m)
  /\ Once(chan[b], m)

RoutingInv == \A b \in Brokers, m \in MsgIds : OnceInv(b, m)

Owner(m) == Assigned(Up, sent[m].src, sent[m].part)

\* A message published to a settled cluster and undisturbed since: its source, which is up,
\* has routed it, only the owner of its partition may route it too, and has done so or
\* still has it to come.
SteadyMsg(m) ==
  /\ sent[m].src \in Up /\ routed[sent[m].src][m] = 1
  /\ \A b \in Brokers : b # sent[m].src /\ b # Owner(m) => routed[b][m] = 0
  /\ Owner(m) # sent[m].src =>
       routed[Owner(m)][m] = 1 \/ m \in fanout \/ In(chan[Owner(m)], m)

SteadyInv == (steady # {} => Settled) /\ \A m \in steady : SteadyMsg(m)

Inv == TypeInv /\ RoutingInv /\ SteadyInv

-----------------------------------------------------------------------------
(* Channels. *)

\* What Append, the Redis delivery, does to what waits in a channel.
LEMMA ChannelAppend ==
  ASSUME NEW S, NEW s \in Seq(S), NEW x \in S
  PROVE  /\ Append(s, x) \in Seq(S)
         /\ \A m : In(Append(s, x), m) <=> In(s, m) \/ m = x
         /\ \A m : Once(s, m) /\ (m = x => ~In(s, m)) => Once(Append(s, x), m)
<1>1. /\ Append(s, x) \in Seq(S) /\ Len(Append(s, x)) = Len(s) + 1 /\ Len(s) \in Nat
      /\ DOMAIN s = 1 .. Len(s) /\ DOMAIN Append(s, x) = 1 .. Len(s) + 1
      /\ \A i \in 1 .. Len(s) : Append(s, x)[i] = s[i]
      /\ Append(s, x)[Len(s) + 1] = x
  OBVIOUS
<1>2. \A m : In(Append(s, x), m) <=> In(s, m) \/ m = x
  BY <1>1 DEF In
<1>3. \A m : Once(s, m) /\ (m = x => ~In(s, m)) => Once(Append(s, x), m)
  BY <1>1 DEF In, Once
<1>4. QED
  BY Zenon, <1>1, <1>2, <1>3

\* What Tail, the receive of clusterLoop, does to what waits in a channel.
LEMMA ChannelTail ==
  ASSUME NEW S, NEW s \in Seq(S), s # <<>>
  PROVE  /\ Head(s) \in S /\ Tail(s) \in Seq(S) /\ In(s, Head(s))
         /\ \A m : In(Tail(s), m) => In(s, m)
         /\ \A m : In(s, m) => In(Tail(s), m) \/ m = Head(s)
         /\ \A m : Once(s, m) => Once(Tail(s), m)
         /\ Once(s, Head(s)) => ~In(Tail(s), Head(s))
<1>1. /\ Len(s) \in Nat \ {0} /\ DOMAIN s = 1 .. Len(s)
      /\ Head(s) = s[1] /\ Head(s) \in S
      /\ Tail(s) \in Seq(S) /\ DOMAIN Tail(s) = 1 .. Len(s) - 1
      /\ \A i \in 1 .. Len(s) - 1 : Tail(s)[i] = s[i + 1]
  OBVIOUS
<1>2. In(s, Head(s)) /\ \A m : In(Tail(s), m) => In(s, m)
  BY <1>1 DEF In
<1>3. \A m : In(s, m) => In(Tail(s), m) \/ m = Head(s)
  <2>1. SUFFICES ASSUME NEW i \in DOMAIN s, i # 1
                 PROVE  i - 1 \in DOMAIN Tail(s) /\ Tail(s)[i - 1] = s[i]
    BY Zenon, <1>1 DEF In
  <2>2. i - 1 \in 1 .. Len(s) - 1 /\ (i - 1) + 1 = i
    BY <1>1, <2>1
  <2>3. QED
    BY <1>1, <2>2
<1>4. \A m : Once(s, m) => Once(Tail(s), m)
  BY <1>1 DEF Once
<1>5. Once(s, Head(s)) => ~In(Tail(s), Head(s))
  BY <1>1 DEF Once, In
<1>6. QED
  BY Zenon, <1>1, <1>2, <1>3, <1>4, <1>5

\* Nothing waits in an empty channel.
LEMMA EmptyChannel ==
  \A m : ~In(<<>>, m) /\ Once(<<>>, m)
BY DEF In, Once

-----------------------------------------------------------------------------
(* The owner computed for a partition. *)

\* Sorted(S, i), the sorted list of live brokers at index i, is an element of S for every
\* index of the list: the ranks of the elements are distinct, so each index is a rank.
LEMMA SortedIn ==
  ASSUME NEW S \in SUBSET Int, IsFiniteSet(S), NEW i \in 0 .. Cardinality(S) - 1
  PROVE  Sorted(S, i) \in S
<1> DEFINE below(x) == {y \in S : y < x}
           f == [x \in S |-> Cardinality(below(x))]
           T == (0 .. Cardinality(S) - 1) \ {i}
<1>1. Cardinality(S) \in Nat
  BY Zenon, FS_CardinalityType
<1>2. \A x \in S : IsFiniteSet(below(x)) /\ Cardinality(below(x)) \in 0 .. Cardinality(S) - 1
  <2> SUFFICES ASSUME NEW x \in S
               PROVE  IsFiniteSet(below(x)) /\ Cardinality(below(x)) \in 0 .. Cardinality(S) - 1
    BY Zenon
  <2>1. below(x) \in SUBSET S /\ x \notin below(x)
    OBVIOUS
  <2>2. IsFiniteSet(below(x)) /\ Cardinality(below(x)) <= Cardinality(S)
        /\ Cardinality(below(x)) # Cardinality(S)
    BY Zenon, <2>1, FS_Subset
  <2>3. Cardinality(below(x)) \in Nat
    BY Zenon, <2>2, FS_CardinalityType
  <2> QED
    BY <1>1, <2>2, <2>3
<1>3. \A x, z \in S : x < z => f[x] # f[z]
  <2> SUFFICES ASSUME NEW x \in S, NEW z \in S, x < z
               PROVE  Cardinality(below(x)) # Cardinality(below(z))
    BY Zenon DEF f
  <2>0. x \in Int /\ z \in Int /\ \A y \in S : y \in Int /\ (y < x => y < z)
        /\ ~(x < x)
    OBVIOUS
  <2>1. below(x) \in SUBSET below(z) /\ x \in below(z) /\ x \notin below(x)
    BY Zenon, <2>0
  <2>2. IsFiniteSet(below(z))
    BY Zenon, <1>2
  <2> QED
    BY Zenon, <2>1, <2>2, FS_Subset
<1>4. \A x, z \in S : x # z => f[x] # f[z]
  <2>1. \A x, z \in S : x # z => x < z \/ z < x
    OBVIOUS
  <2> QED
    BY Zenon, <1>3, <2>1
<1>5. IsFiniteSet(T) /\ Cardinality(T) < Cardinality(S)
  <2>1. IsFiniteSet(0 .. Cardinality(S) - 1)
        /\ Cardinality(0 .. Cardinality(S) - 1) = Cardinality(S)
    BY <1>1, FS_Interval
  <2>2. IsFiniteSet(T) /\ Cardinality(T) = Cardinality(S) - 1
    BY Zenon, <2>1, FS_RemoveElement
  <2> QED
    BY <1>1, <2>2
<1>6. \E x \in S : Cardinality({y \in S : y < x}) = i
  <2>1. SUFFICES ASSUME \A x \in S : Cardinality(below(x)) # i
                 PROVE  FALSE
    BY Zenon
  <2>2. f \in [S -> T]
    BY Zenon, <1>2, <2>1
  <2>3. \E x, z \in S : x # z /\ f[x] = f[z]
    <3> HIDE DEF f, T
    <3> QED
      BY Zenon, <1>5, <2>2, FS_PigeonHole
  <2> QED
    BY Zenon, <1>4, <2>3
<1>7. QED
  BY Zenon, <1>6 DEF Sorted

\* The owner of a partition is a broker: a live one when there is any, and then it does not
\* depend on who computes it; the computing broker itself when Redis knows of none.
LEMMA AssignedIn ==
  ASSUME NEW S \in SUBSET Brokers, NEW b \in Brokers, NEW p \in Partitions
  PROVE  /\ Assigned(S, b, p) \in Brokers
         /\ S # {} => Assigned(S, b, p) \in S
         /\ S # {} => \A c : Assigned(S, c, p) = Assigned(S, b, p)
<1>1. S \in SUBSET Int /\ IsFiniteSet(S)
  BY Zenon, ConstantsAssumption, FS_Subset
<1>2. Cardinality(S) \in Nat /\ (S # {} => Cardinality(S) # 0)
  BY Zenon, <1>1, FS_CardinalityType, FS_EmptySet
<1>3. S # {} => p % Cardinality(S) \in 0 .. Cardinality(S) - 1
  <2>1. p \in Int
    BY ConstantsAssumption DEF Partitions
  <2> QED
    BY <1>2, <2>1
<1>4. S # {} => Sorted(S, p % Cardinality(S)) \in S
  BY Zenon, <1>1, <1>3, SortedIn
<1>5. QED
  BY Zenon, <1>4 DEF Assigned


-----------------------------------------------------------------------------
(* Type correctness. *)

\* The partitions SetOwner goes through, one after the other.
LEMMA Bounds ==
  /\ 0 \in Partitions /\ Partitions \subseteq Int
  /\ \A p \in Partitions : p < PartitionCount - 1 => p + 1 \in Partitions
BY ConstantsAssumption DEF Partitions

\* The life of brokers, heartbeats and reconcilePartitions keep the types.
LEMMA BrokerStepType ==
  ASSUME TypeInv, NEW b \in Brokers,
         \/ Start(b) \/ Stop(b) \/ BrokerLeave(b) \/ Crash(b)
         \/ BrokerPulse(b) \/ Age(b) \/ Outage(b)
         \/ Reconcile(b) \/ ReconcileFails(b)
  PROVE  TypeInv'
<1> USE DEF Disturb, Halt, syncVars, msgVars
<1>0. sent' = sent /\ Published' = Published
  BY Zenon DEF Start, Stop, BrokerLeave, Crash, BrokerPulse, Age, Outage, Reconcile, Prune, ZRange,
         SetOwner, ReconcileFails, Published
<1>1. CASE Start(b)
  <2>1. [p \in Partitions |-> b] \in [Partitions -> Brokers]
    BY Zenon
  <2> QED
    BY Zenon, <1>0, <1>1, <2>1 DEF TypeInv, Start
<1>2. CASE Stop(b)
  <2>1. <<>> \in Seq(MsgIds) /\ {} \in SUBSET Brokers
    OBVIOUS
  <2> QED
    BY Zenon, <1>0, <1>2, <2>1, Bounds DEF TypeInv, Stop
<1>3. CASE BrokerLeave(b)
  <2>1. /\ up' \in [Brokers -> {"down", "up", "stopping"}]
        /\ \A c \in Brokers : up'[c] # "up" => up[c] # "up"
    BY Zenon, <1>3 DEF TypeInv, BrokerLeave
  <2>2. pulse' \in [Brokers -> {"none", "fresh", "stale"}]
    BY Zenon, <1>3 DEF TypeInv, BrokerLeave
  <2>3. fanout' \subseteq Published
    BY Zenon, <1>3 DEF TypeInv, BrokerLeave
  <2> QED
    BY Zenon, <1>0, <1>3, <2>1, <2>2, <2>3 DEF TypeInv, BrokerLeave
<1>4. CASE Crash(b)
  <2>1. <<>> \in Seq(MsgIds) /\ {} \in SUBSET Brokers
    OBVIOUS
  <2> QED
    BY Zenon, <1>0, <1>4, <2>1, Bounds DEF TypeInv, Crash
<1>5. CASE BrokerPulse(b) \/ Age(b) \/ Outage(b)
  <2>1. /\ pulse' \in [Brokers -> {"none", "fresh", "stale"}]
        /\ UNCHANGED <<up, ownership, syncVars, msgVars>> /\ steady' \in {steady, {}}
    BY Zenon, <1>5 DEF TypeInv, BrokerPulse, Age, Outage
  <2> QED
    BY Zenon, <1>0, <2>1 DEF TypeInv
<1>6. CASE Prune(b)
  BY Zenon, <1>0, <1>6 DEF TypeInv, Prune
<1>7. CASE ZRange(b)
  BY Zenon, <1>0, <1>7 DEF TypeInv, ZRange
<1>8. CASE ReconcileFails(b)
  BY Zenon, <1>0, <1>8 DEF TypeInv, ReconcileFails
<1>9. CASE SetOwner(b)
  <2>1. /\ next[b] \in Partitions /\ ids[b] \in SUBSET Brokers
        /\ ownership[b] \in [Partitions -> Brokers]
    BY Zenon DEF TypeInv
  <2>2. Assigned(ids[b], b, next[b]) \in Brokers
    BY Zenon, <2>1, AssignedIn
  <2>3. ownership' \in [Brokers -> [Partitions -> Brokers]]
    BY Zenon, <1>9, <2>1, <2>2 DEF TypeInv, SetOwner
  <2>4. next' \in [Brokers -> Partitions] /\ ids' \in [Brokers -> SUBSET Brokers]
    <3>1. CASE next[b] < PartitionCount - 1 /\ next' = [next EXCEPT ![b] = @ + 1]
               /\ UNCHANGED <<syncPc, ids>>
      <4>1. next[b] + 1 \in Partitions
        BY Zenon, <2>1, <3>1, Bounds
      <4> QED
        BY Zenon, <3>1, <4>1 DEF TypeInv
    <3>2. CASE next' = [next EXCEPT ![b] = 0] /\ ids' = [ids EXCEPT ![b] = {}]
      <4>1. {} \in SUBSET Brokers /\ 0 \in Partitions
        BY Zenon, Bounds
      <4> QED
        BY Zenon, <3>2, <4>1 DEF TypeInv
    <3> QED
      BY Zenon, <1>9, <3>1, <3>2 DEF SetOwner
  <2>5. syncPc' \in [Brokers -> {"off", "prune", "range", "set"}]
        /\ \A c \in Brokers : up[c] # "up" => syncPc'[c] = "off"
    BY Zenon, <1>9 DEF TypeInv, SetOwner
  <2> QED
    BY ZenonT(60), <1>0, <1>9, <2>3, <2>4, <2>5 DEF TypeInv, SetOwner
<1>10. QED
  BY Zenon, <1>1, <1>2, <1>3, <1>4, <1>5, <1>6, <1>7, <1>8, <1>9 DEF Reconcile

\* What handlePublish adds to the messages sent, and what it leaves.
LEMMA PublishAdds ==
  ASSUME TypeInv, NEW b \in Brokers, NEW p \in Partitions, Publish(b, p)
  PROVE  /\ Len(sent) + 1 \in MsgIds /\ Len(sent) + 1 \notin Published
         /\ Published' = Published \cup {Len(sent) + 1}
         /\ sent' \in Seq([src : Brokers, part : Partitions]) /\ Len(sent') <= MaxMsgs
         /\ \A m \in Published : sent'[m] = sent[m]
         /\ sent'[Len(sent) + 1] = [src |-> b, part |-> p]
<1>1. /\ sent \in Seq([src : Brokers, part : Partitions]) /\ Len(sent) < MaxMsgs
      /\ [src |-> b, part |-> p] \in [src : Brokers, part : Partitions]
      /\ sent' = Append(sent, [src |-> b, part |-> p])
  BY Zenon DEF TypeInv, Publish
<1>2. /\ Len(sent) \in Nat /\ Len(sent') = Len(sent) + 1
      /\ sent' \in Seq([src : Brokers, part : Partitions])
      /\ \A m \in 1 .. Len(sent) : sent'[m] = sent[m]
      /\ sent'[Len(sent) + 1] = [src |-> b, part |-> p]
  BY <1>1
<1>3. QED
  BY <1>1, <1>2, ConstantsAssumption DEF Published, MsgIds

\* A published message has an identifier and a source and a partition.
LEMMA PublishedTypes ==
  ASSUME TypeInv, NEW m \in Published
  PROVE  m \in MsgIds /\ sent[m].src \in Brokers /\ sent[m].part \in Partitions
<1>1. sent \in Seq([src : Brokers, part : Partitions]) /\ Len(sent) <= MaxMsgs
  BY Zenon DEF TypeInv
<1>2. m \in 1 .. Len(sent) /\ Len(sent) \in Nat
  BY <1>1 DEF Published
<1>3. sent[m] \in [src : Brokers, part : Partitions]
  <2>1. ASSUME NEW R, NEW s \in Seq(R), NEW i \in 1 .. Len(s)
        PROVE  s[i] \in R
    OBVIOUS
  <2> QED
    BY Zenon, <1>1, <1>2, <2>1
<1>4. QED
  <2>1. m \in MsgIds
    BY <1>1, <1>2, ConstantsAssumption DEF MsgIds
  <2> QED
    BY Zenon, <1>3, <2>1

\* A broker routes a message: one counter is one more, the others are as they were.
LEMMA RoutedTypes ==
  ASSUME TypeInv, NEW b \in Brokers, NEW m \in MsgIds,
         NEW r, r = [routed EXCEPT ![b][m] = @ + 1]
  PROVE  /\ r \in [Brokers -> [MsgIds -> Nat]]
         /\ r[b][m] = routed[b][m] + 1
         /\ \A c \in Brokers, k \in MsgIds : c # b \/ k # m => r[c][k] = routed[c][k]
<1>1. routed \in [Brokers -> [MsgIds -> Nat]]
  BY Zenon DEF TypeInv
<1>2. routed[b][m] + 1 \in Nat
  BY <1>1
<1>3. [routed[b] EXCEPT ![m] = @ + 1] \in [MsgIds -> Nat]
  BY Zenon, <1>1, <1>2
<1>4. r \in [Brokers -> [MsgIds -> Nat]]
  BY Zenon, <1>1, <1>3
<1>5. r[b] = [routed[b] EXCEPT ![m] = @ + 1] /\ \A c \in Brokers : c # b => r[c] = routed[c]
  BY Zenon, <1>1
<1>6. r[b][m] = routed[b][m] + 1 /\ \A k \in MsgIds : k # m => r[b][k] = routed[b][k]
  BY Zenon, <1>1, <1>5
<1>7. QED
  BY Zenon, <1>4, <1>5, <1>6

\* Publishing and the fan-out keep the types.
LEMMA MessageStepType ==
  ASSUME TypeInv,
         \/ \E b \in Brokers : clusterLoop(b) \/ \E p \in Partitions : Publish(b, p)
         \/ \E m \in fanout : PublishCluster(m) \/ PublishClusterFails(m)
  PROVE  TypeInv'
<1> USE DEF syncVars
<1>1. ASSUME NEW b \in Brokers, NEW p \in Partitions, Publish(b, p)
      PROVE  TypeInv'
  <2>1. routed' \in [Brokers -> [MsgIds -> Nat]]
    BY Zenon, <1>1, PublishAdds, RoutedTypes DEF Publish
  <2>2. fanout' \subseteq Published' /\ steady' \subseteq Published'
    BY Zenon, <1>1, PublishAdds DEF TypeInv, Publish
  <2> QED
    BY Zenon, <1>1, <2>1, <2>2, PublishAdds DEF TypeInv, Publish
<1>2. ASSUME NEW m \in fanout, PublishCluster(m)
      PROVE  TypeInv'
  <2>1. m \in MsgIds
    BY Zenon, PublishedTypes DEF TypeInv
  <2>2. \A c \in Brokers : chan[c] \in Seq(MsgIds) /\ Append(chan[c], m) \in Seq(MsgIds)
    <3>1. \A c \in Brokers : chan[c] \in Seq(MsgIds)
      BY Zenon DEF TypeInv
    <3> QED
      BY Zenon, <2>1, <3>1, ChannelAppend
  <2>3. chan' \in [Brokers -> Seq(MsgIds)]
    BY Zenon, <1>2, <2>2 DEF PublishCluster
  <2>4. \A c \in Brokers : up[c] # "up" => chan'[c] = <<>>
    BY Zenon, <1>2 DEF PublishCluster, TypeInv, Up
  <2>5. fanout' \subseteq Published' /\ steady' \subseteq Published'
    BY Zenon, <1>2 DEF PublishCluster, TypeInv, Published
  <2> QED
    BY Zenon, <1>2, <2>3, <2>4, <2>5 DEF TypeInv, PublishCluster
<1>3. ASSUME NEW m \in fanout, PublishClusterFails(m)
      PROVE  TypeInv'
  BY Zenon, <1>3 DEF PublishClusterFails, Disturb, TypeInv, Published
<1>4. ASSUME NEW b \in Brokers, clusterLoop(b)
      PROVE  TypeInv'
  <2>1. chan[b] \in Seq(MsgIds) /\ chan[b] # <<>>
    BY Zenon, <1>4 DEF TypeInv, clusterLoop
  <2>2. Head(chan[b]) \in MsgIds /\ Tail(chan[b]) \in Seq(MsgIds)
    BY <2>1
  <2>3. routed' \in [Brokers -> [MsgIds -> Nat]]
    BY Zenon, <1>4, <2>2, RoutedTypes DEF TypeInv, clusterLoop
  <2>4. chan' \in [Brokers -> Seq(MsgIds)] /\ \A c \in Brokers : up[c] # "up" => chan'[c] = <<>>
    BY Zenon, <1>4, <2>2 DEF TypeInv, clusterLoop
  <2>5. fanout' \subseteq Published' /\ steady' \subseteq Published'
    BY Zenon, <1>4 DEF clusterLoop, TypeInv, Published
  <2> QED
    BY Zenon, <1>4, <2>3, <2>4, <2>5 DEF TypeInv, clusterLoop
<1>5. QED
  BY Zenon, <1>1, <1>2, <1>3, <1>4


-----------------------------------------------------------------------------
(* No message is routed twice by a broker. *)

\* What neither publishes nor routes can only lose messages on their way, and keeps the
\* invariant.
LEMMA RoutingQuiet ==
  ASSUME RoutingInv, sent' = sent, routed' = routed, fanout' \subseteq fanout,
         \A b \in Brokers : chan'[b] = chan[b] \/ chan'[b] = <<>>
  PROVE  RoutingInv'
<1> SUFFICES ASSUME NEW b \in Brokers, NEW m \in MsgIds
             PROVE  OnceInv(b, m)'
  BY Zenon DEF RoutingInv
<1>1. OnceInv(b, m) /\ Published' = Published
  BY Zenon DEF RoutingInv, Published
<1>2. /\ In(chan'[b], m) => In(chan[b], m)
      /\ Once(chan[b], m) => Once(chan'[b], m)
  BY Zenon, EmptyChannel
<1>3. QED
  BY Zenon, <1>1, <1>2 DEF OnceInv

\* handlePublish: the new message is nowhere in a channel, and only its source has routed it.
LEMMA PublishRouting ==
  ASSUME TypeInv, RoutingInv, NEW b \in Brokers, NEW p \in Partitions, Publish(b, p)
  PROVE  RoutingInv'
<1>1. PICK k : k = Len(sent) + 1
  BY Zenon
<1>2. /\ k \in MsgIds /\ k \notin Published /\ Published' = Published \cup {k}
      /\ \A m \in Published : sent'[m] = sent[m]
      /\ sent'[k] = [src |-> b, part |-> p]
  BY Zenon, <1>1, PublishAdds
<1>3. /\ fanout' = fanout \cup {k} /\ chan' = chan
      /\ routed' = [routed EXCEPT ![b][k] = @ + 1]
  BY Zenon, <1>1 DEF Publish
<1>4. /\ routed'[b][k] = routed[b][k] + 1
      /\ \A c \in Brokers, m \in MsgIds : c # b \/ m # k => routed'[c][m] = routed[c][m]
  <2>1. k \in MsgIds /\ routed' = [routed EXCEPT ![b][k] = @ + 1]
    BY Zenon, <1>2, <1>3
  <2>2. routed'[b][k] = routed[b][k] + 1
    BY ZenonT(60), <2>1, RoutedTypes
  <2>3. \A c \in Brokers, m \in MsgIds : c # b \/ m # k => routed'[c][m] = routed[c][m]
    BY <2>1, RoutedTypes
  <2> QED
    BY Zenon, <2>2, <2>3
<1> SUFFICES ASSUME NEW c \in Brokers, NEW m \in MsgIds
             PROVE  OnceInv(c, m)'
  BY Zenon DEF RoutingInv
<1>5. OnceInv(c, m)
  BY Zenon DEF RoutingInv
<1>6. CASE m = k
  <2>1. routed[c][k] = 0 /\ ~In(chan[c], k) /\ Once(chan[c], k)
    BY Zenon, <1>2, <1>5, <1>6 DEF OnceInv
  <2>2. routed'[c][k] \in {0, 1} /\ (c # b => routed'[c][k] = 0)
    BY <1>2, <1>4, <2>1
  <2>3. sent'[k].src = b
    BY <1>2
  <2> QED
    BY Zenon, <1>2, <1>3, <1>6, <2>1, <2>2, <2>3 DEF OnceInv
<1>7. CASE m # k
  BY Zenon, <1>2, <1>3, <1>4, <1>5, <1>7 DEF OnceInv
<1>8. QED
  BY Zenon, <1>6, <1>7

\* PublishCluster: what leaves the fan-out comes to each channel once.
LEMMA FanoutRouting ==
  ASSUME TypeInv, RoutingInv, NEW k \in fanout, PublishCluster(k)
  PROVE  /\ RoutingInv'
         /\ \A c \in Brokers, m \in MsgIds : In(chan[c], m) => In(chan'[c], m)
<1>1. k \in MsgIds /\ k \in Published
  BY Zenon, PublishedTypes DEF TypeInv
<1>2. /\ fanout' = fanout \ {k} /\ sent' = sent /\ routed' = routed
      /\ \A c \in Brokers : chan'[c] = chan[c] \/ chan'[c] = Append(chan[c], k)
  BY Zenon DEF PublishCluster
<1> SUFFICES ASSUME NEW c \in Brokers, NEW m \in MsgIds
             PROVE  OnceInv(c, m)' /\ (In(chan[c], m) => In(chan'[c], m))
  BY Zenon DEF RoutingInv
<1>3. OnceInv(c, m) /\ Published' = Published
  BY Zenon, <1>2 DEF RoutingInv, Published
<1>4. chan[c] \in Seq(MsgIds)
  BY Zenon DEF TypeInv
<1>5. /\ In(chan'[c], m) => In(chan[c], m) \/ m = k
      /\ In(chan[c], m) => In(chan'[c], m)
      /\ Once(chan[c], m) /\ (m = k => ~In(chan[c], m)) => Once(chan'[c], m)
  <2>1. /\ \A x : In(Append(chan[c], k), x) <=> In(chan[c], x) \/ x = k
        /\ \A x : Once(chan[c], x) /\ (x = k => ~In(chan[c], x)) => Once(Append(chan[c], k), x)
    BY Zenon, <1>1, <1>4, ChannelAppend
  <2> QED
    BY Zenon, <1>2, <2>1
<1>6. QED
  BY Zenon, <1>1, <1>2, <1>3, <1>5 DEF OnceInv

\* clusterLoop: a message that is accepted has not been routed before, and is gone from
\* the channel.
LEMMA LoopRouting ==
  ASSUME TypeInv, RoutingInv, NEW b \in Brokers, clusterLoop(b)
  PROVE  RoutingInv'
<1>1. PICK k : k = Head(chan[b])
  BY Zenon
<1>2. chan[b] \in Seq(MsgIds) /\ chan[b] # <<>> /\ chan'[b] = Tail(chan[b])
      /\ (\A c \in Brokers : c # b => chan'[c] = chan[c])
  BY Zenon DEF TypeInv, clusterLoop
<1>3. /\ k \in MsgIds /\ In(chan[b], k)
      /\ \A m : In(chan'[b], m) => In(chan[b], m)
      /\ \A m : Once(chan[b], m) => Once(chan'[b], m)
      /\ Once(chan[b], k) => ~In(chan'[b], k)
  <2>1. Head(chan[b]) \in MsgIds
    BY <1>2
  <2>2. /\ In(chan[b], Head(chan[b]))
        /\ \A m : In(Tail(chan[b]), m) => In(chan[b], m)
        /\ \A m : Once(chan[b], m) => Once(Tail(chan[b]), m)
        /\ Once(chan[b], Head(chan[b])) => ~In(Tail(chan[b]), Head(chan[b]))
    BY Zenon, <1>2, ChannelTail
  <2> QED
    BY Zenon, <1>1, <1>2, <2>1, <2>2
<1>4. sent' = sent /\ fanout' = fanout /\ Published' = Published
  BY Zenon DEF clusterLoop, Published
<1>5. OnceInv(b, k)
  BY Zenon, <1>3 DEF RoutingInv
<1>6. \/ routed' = routed
      \/ sent[k].src # b /\ routed' = [routed EXCEPT ![b][k] = @ + 1]
  BY Zenon, <1>1 DEF clusterLoop, Accepts
<1>7. \A c \in Brokers, m \in MsgIds : c # b \/ m # k => routed'[c][m] = routed[c][m]
  BY ZenonT(60), <1>3, <1>6, RoutedTypes
<1>8. k \in Published /\ k \notin fanout /\ ~In(chan'[b], k) /\ routed'[b][k] \in {0, 1}
  <2>1. k \in Published /\ k \notin fanout /\ ~In(chan'[b], k) /\ routed[b][k] \in {0, 1}
        /\ (sent[k].src # b => routed[b][k] = 0)
    BY Zenon, <1>3, <1>5 DEF OnceInv
  <2>2. \/ routed'[b][k] = routed[b][k]
        \/ sent[k].src # b /\ routed'[b][k] = routed[b][k] + 1
    BY Zenon, <1>3, <1>6, RoutedTypes
  <2> QED
    BY <2>1, <2>2
<1> SUFFICES ASSUME NEW c \in Brokers, NEW m \in MsgIds
             PROVE  OnceInv(c, m)'
  BY Zenon DEF RoutingInv
<1>9. OnceInv(c, m)
  BY Zenon DEF RoutingInv
<1>10. CASE c = b /\ m = k
  BY Zenon, <1>3, <1>4, <1>8, <1>9, <1>10 DEF OnceInv
<1>11. CASE c = b /\ m # k
  BY Zenon, <1>3, <1>4, <1>7, <1>9, <1>11 DEF OnceInv
<1>12. CASE c # b
  BY Zenon, <1>2, <1>4, <1>7, <1>9, <1>12 DEF OnceInv
<1>13. QED
  BY Zenon, <1>10, <1>11, <1>12


-----------------------------------------------------------------------------
(* Routing in a settled cluster. *)

\* A settled cluster stays settled while brokers that have stopped go away, heartbeats are
\* due and partition tables are computed anew.
LEMMA SettledKeeps ==
  ASSUME TypeInv, Settled, NEW b \in Brokers,
         BrokerLeave(b) \/ BrokerPulse(b) \/ Age(b) \/ Reconcile(b)
  PROVE  Settled' /\ Up' = Up
<1> USE DEF syncVars, msgVars
<1>1. /\ \A c \in Brokers : c \in Up <=> up[c] = "up"
      /\ \A c \in Up : c \in Brokers /\ pulse[c] = "fresh"
      /\ \A c \in Brokers : c \notin Up => pulse[c] = "none"
      /\ \A c \in Up : /\ \A p \in Partitions : ownership[c][p] = Assigned(Up, c, p)
                       /\ syncPc[c] = "set" => ids[c] = Up
  BY Zenon DEF Settled, Up
<1>2. CASE BrokerLeave(b)
  <2>1. Up' = Up /\ b \notin Up
    BY Zenon, <1>2 DEF BrokerLeave, Up, TypeInv
  <2>2. \A c \in Brokers : pulse'[c] = pulse[c]
    <3>1. pulse' = pulse \/ pulse' = [pulse EXCEPT ![b] = "none"]
      BY Zenon, <1>2 DEF BrokerLeave
    <3>2. pulse[b] = "none" /\ DOMAIN pulse = Brokers
      BY Zenon, <1>1, <2>1 DEF TypeInv
    <3> QED
      BY Zenon, <3>1, <3>2
  <2> QED
    BY Zenon, <1>2, <2>1, <2>2 DEF BrokerLeave, Settled
<1>3. CASE BrokerPulse(b)
  BY Zenon, <1>1, <1>3 DEF BrokerPulse
<1>4. CASE Age(b)
  <2>1. b \notin Up /\ pulse[b] = "fresh"
    BY Zenon, <1>1, <1>4 DEF Age
  <2> QED
    BY Zenon, <1>1, <2>1
<1>5. CASE Prune(b)
  <2>1. Up' = Up /\ \A c \in Brokers : pulse'[c] = pulse[c]
    BY Zenon, <1>1, <1>5 DEF Prune, Up
  <2>2. \A c \in Brokers : syncPc'[c] = "set" => syncPc[c] = "set"
    BY Zenon, <1>5 DEF Prune, TypeInv
  <2>3. \A c \in Up : c \in Brokers
    BY Zenon, <1>1
  <2> QED
    BY Zenon, <1>5, <2>1, <2>2, <2>3 DEF Prune, Settled
<1>6. CASE ZRange(b)
  <2>1. Up' = Up /\ b \in Up
    BY Zenon, <1>1, <1>6 DEF ZRange, Up, TypeInv
  <2>2. {x \in Brokers : pulse[x] # "none"} = Up
    <3>1. \A c \in Up : c \in Brokers /\ pulse[c] # "none"
      BY Zenon, <1>1
    <3> QED
      BY Zenon, <1>1, <3>1
  <2>3. \A c \in Up : syncPc'[c] = "set" => ids'[c] = Up
    BY Zenon, <1>1, <1>6, <2>2 DEF ZRange, TypeInv
  <2> QED
    BY Zenon, <1>6, <2>1, <2>3 DEF ZRange, Settled
<1>7. CASE SetOwner(b)
  <2>1. Up' = Up /\ b \in Up /\ ids[b] = Up /\ next[b] \in Partitions
    BY Zenon, <1>1, <1>7 DEF SetOwner, Up, TypeInv
  <2>2. \A c \in Up, p \in Partitions : ownership'[c][p] = Assigned(Up, c, p)
    <3>1. /\ ownership' = [ownership EXCEPT ![b][next[b]] = Assigned(ids[b], b, next[b])]
          /\ ownership \in [Brokers -> [Partitions -> Brokers]]
      BY Zenon, <1>7 DEF SetOwner, TypeInv
    <3>2. ownership'[b] = [ownership[b] EXCEPT ![next[b]] = Assigned(ids[b], b, next[b])]
          /\ \A c \in Brokers : c # b => ownership'[c] = ownership[c]
      BY Zenon, <3>1
    <3>3. \A p \in Partitions : ownership'[b][p] = Assigned(Up, b, p)
      <4>1. ownership'[b][next[b]] = Assigned(Up, b, next[b])
            /\ \A p \in Partitions : p # next[b] => ownership'[b][p] = ownership[b][p]
        BY Zenon, <2>1, <3>1, <3>2
      <4> QED
        BY Zenon, <1>1, <2>1, <4>1
    <3>4. ASSUME NEW c \in Up, c # b, NEW p \in Partitions
          PROVE  ownership'[c][p] = Assigned(Up, c, p)
      <4>1. c \in Brokers /\ ownership[c][p] = Assigned(Up, c, p)
        BY Zenon, <1>1
      <4>2. ownership'[c] = ownership[c]
        BY Zenon, <3>2, <3>4, <4>1
      <4> QED
        BY Zenon, <4>1, <4>2
    <3> QED
      BY Zenon, <3>3, <3>4
  <2>3. \A c \in Up : syncPc'[c] = "set" => ids'[c] = Up
    <3>1. \/ syncPc' = syncPc /\ ids' = ids
          \/ /\ syncPc' = [syncPc EXCEPT ![b] = "prune"]
             /\ ids' = [ids EXCEPT ![b] = {}]
      BY Zenon, <1>7 DEF SetOwner
    <3>2. DOMAIN syncPc = Brokers /\ DOMAIN ids = Brokers /\ "prune" # "set"
      BY DEF TypeInv
    <3> QED
      BY Zenon, <1>1, <3>1, <3>2
  <2>4. pulse' = pulse
    BY Zenon, <1>7 DEF SetOwner
  <2> QED
    BY Zenon, <2>1, <2>2, <2>3, <2>4 DEF Settled
<1>8. QED
  BY Zenon, <1>2, <1>3, <1>4, <1>5, <1>6, <1>7 DEF Reconcile

\* A steady message has an owner, the same for all brokers, and a live one.
LEMMA SteadyOwner ==
  ASSUME TypeInv, NEW m \in Published, sent[m].src \in Up
  PROVE  /\ Owner(m) \in Up /\ Owner(m) \in Brokers
         /\ \A b : Assigned(Up, b, sent[m].part) = Owner(m)
<1>1. Up \in SUBSET Brokers /\ Up # {}
  BY Zenon DEF Up
<1>2. sent[m].src \in Brokers /\ sent[m].part \in Partitions
  BY Zenon, PublishedTypes
<1>3. QED
  BY Zenon, <1>1, <1>2, AssignedIn DEF Owner

\* What moves no message, except that a broker that is gone drops its own, keeps the
\* steady messages where they are.
LEMMA SteadyQuiet ==
  ASSUME SteadyInv, steady # {} => Settled', steady # {} => Up' = Up,
         steady' = steady, sent' = sent, routed' = routed, chan' = chan,
         \A m \in fanout : sent[m].src \in Up => m \in fanout'
  PROVE  SteadyInv'
<1> SUFFICES ASSUME NEW m \in steady
             PROVE  SteadyMsg(m)'
  BY Zenon DEF SteadyInv
<1>1. Up' = Up /\ SteadyMsg(m)
  BY Zenon DEF SteadyInv
<1>2. Owner(m)' = Owner(m)
  BY Zenon, <1>1 DEF Owner
<1>3. m \in fanout => m \in fanout'
  BY Zenon, <1>1 DEF SteadyMsg
<1>4. QED
  BY Zenon, <1>1, <1>2, <1>3 DEF SteadyMsg


\* What changes no table and no heartbeat leaves a settled cluster settled.
LEMMA SettledFrame ==
  ASSUME up' = up, ownership' = ownership, syncPc' = syncPc, ids' = ids, pulse' = pulse
  PROVE  Up' = Up /\ (Settled' <=> Settled)
<1>1. Up' = Up
  BY Zenon DEF Up
<1>2. QED
  BY Zenon, <1>1 DEF Settled

\* handlePublish in a settled cluster: the new message is routed by its source, and on its
\* way to the owner.
LEMMA PublishSteady ==
  ASSUME TypeInv, RoutingInv, SteadyInv, NEW b \in Brokers, NEW p \in Partitions, Publish(b, p)
  PROVE  SteadyInv'
<1>1. PICK k : k = Len(sent) + 1
  BY Zenon
<1>2. /\ k \in MsgIds /\ k \notin Published
      /\ \A m \in Published : sent'[m] = sent[m]
      /\ sent'[k] = [src |-> b, part |-> p]
  BY Zenon, <1>1, PublishAdds
<1>3. /\ b \in Up /\ fanout' = fanout \cup {k} /\ chan' = chan
      /\ routed' = [routed EXCEPT ![b][k] = @ + 1]
      /\ Up' = Up /\ (Settled' <=> Settled)
      /\ steady' = IF Settled THEN steady \cup {k} ELSE steady
  BY Zenon, <1>1, SettledFrame DEF Publish, syncVars
<1>4. routed'[b][k] = routed[b][k] + 1
  <2>1. k \in MsgIds /\ routed' = [routed EXCEPT ![b][k] = @ + 1]
    BY Zenon, <1>2, <1>3
  <2> QED
    BY <2>1, RoutedTypes
<1>5. \A c \in Brokers, m \in MsgIds : c # b \/ m # k => routed'[c][m] = routed[c][m]
  <2>1. k \in MsgIds /\ routed' = [routed EXCEPT ![b][k] = @ + 1]
    BY Zenon, <1>2, <1>3
  <2> QED
    BY <2>1, RoutedTypes
<1>6. steady' # {} => Settled'
  BY Zenon, <1>3 DEF SteadyInv
<1>7. ASSUME NEW m \in steady
      PROVE  SteadyMsg(m)'
  <2>1. SteadyMsg(m) /\ m \in Published
    BY Zenon DEF SteadyInv, TypeInv
  <2>2. m \in MsgIds /\ sent[m].src \in Brokers
    BY Zenon, <2>1, PublishedTypes
  <2>3. m # k /\ sent'[m] = sent[m] /\ Owner(m)' = Owner(m)
    BY Zenon, <1>2, <1>3, <2>1 DEF Owner
  <2>4. Owner(m) \in Brokers
    BY Zenon, <2>1, SteadyOwner DEF SteadyMsg
  <2>5. \A c \in Brokers : routed'[c][m] = routed[c][m]
    BY Zenon, <1>5, <2>2, <2>3
  <2> QED
    BY Zenon, <1>3, <2>1, <2>2, <2>3, <2>4, <2>5 DEF SteadyMsg
<1>8. SteadyMsg(k)'
  <2>1. \A c \in Brokers : routed[c][k] = 0
    BY Zenon, <1>2 DEF RoutingInv, OnceInv
  <2>2. routed'[b][k] = 1 /\ \A c \in Brokers : c # b => routed'[c][k] = 0
    BY <1>2, <1>4, <1>5, <2>1
  <2>3. sent'[k].src = b
    BY <1>2
  <2> QED
    BY Zenon, <1>3, <2>2, <2>3 DEF SteadyMsg
<1>9. QED
  BY Zenon, <1>3, <1>6, <1>7, <1>8 DEF SteadyInv

\* PublishCluster: a message that stays steady reaches the channel of its owner.
LEMMA FanoutSteady ==
  ASSUME TypeInv, RoutingInv, SteadyInv, NEW k \in fanout, PublishCluster(k)
  PROVE  SteadyInv'
<1> DEFINE full == {b \in Up : Len(chan[b]) >= ChanCap}
<1>1. /\ fanout' = fanout \ {k} /\ sent' = sent /\ routed' = routed
      /\ Up' = Up /\ (Settled' <=> Settled)
  BY Zenon, SettledFrame DEF PublishCluster, syncVars
<1>2. steady' \subseteq steady /\ (k \in steady' => full = {})
  BY Zenon DEF PublishCluster
<1>3. \A c \in Brokers, m \in MsgIds : In(chan[c], m) => In(chan'[c], m)
  BY Zenon, FanoutRouting
<1>4. full = {} => \A c \in Up : In(chan'[c], k)
  <2> SUFFICES ASSUME full = {}, NEW c \in Up
               PROVE  In(chan'[c], k)
    BY Zenon
  <2>1. c \in Brokers /\ chan[c] \in Seq(MsgIds)
    BY Zenon DEF Up, TypeInv
  <2>2. k \in MsgIds
    BY Zenon, PublishedTypes DEF TypeInv
  <2>3. chan'[c] = Append(chan[c], k)
    BY Zenon, <2>1 DEF PublishCluster
  <2>4. In(Append(chan[c], k), k)
    BY Zenon, <2>1, <2>2, ChannelAppend
  <2> QED
    BY Zenon, <2>3, <2>4
<1> HIDE DEF full
<1>5. ASSUME NEW m \in steady'
      PROVE  SteadyMsg(m)'
  <2>1. SteadyMsg(m) /\ m \in Published /\ m \in MsgIds /\ Owner(m)' = Owner(m)
    BY Zenon, <1>1, <1>2, PublishedTypes DEF SteadyInv, TypeInv, Owner
  <2>2. Owner(m) \in Up /\ Owner(m) \in Brokers
    BY Zenon, <2>1, SteadyOwner DEF SteadyMsg
  <2>3. m \in fanout => m \in fanout' \/ In(chan'[Owner(m)], m)
    BY Zenon, <1>1, <1>2, <1>4, <2>2
  <2>4. In(chan[Owner(m)], m) => In(chan'[Owner(m)], m)
    BY Zenon, <1>3, <2>1, <2>2
  <2> QED
    BY Zenon, <1>1, <2>1, <2>3, <2>4 DEF SteadyMsg
<1>6. QED
  BY Zenon, <1>1, <1>2, <1>5 DEF SteadyInv

\* clusterLoop: in a settled cluster the owner, and no other broker, accepts a message.
LEMMA LoopSteady ==
  ASSUME TypeInv, RoutingInv, SteadyInv, NEW b \in Brokers, clusterLoop(b)
  PROVE  SteadyInv'
<1>1. PICK k : k = Head(chan[b])
  BY Zenon
<1>2. /\ sent' = sent /\ fanout' = fanout /\ steady' = steady
      /\ Up' = Up /\ (Settled' <=> Settled) /\ b \in Up
  <2>1. up[b] = "up" /\ UNCHANGED <<up, ownership, syncPc, ids, pulse, sent, fanout, steady>>
    BY Zenon DEF clusterLoop, syncVars
  <2>2. b \in Up
    BY Zenon, <2>1 DEF Up
  <2> QED
    BY Zenon, <2>1, <2>2, SettledFrame
<1>3. /\ chan[b] \in Seq(MsgIds) /\ chan[b] # <<>> /\ chan'[b] = Tail(chan[b])
      /\ \A c \in Brokers : c # b => chan'[c] = chan[c]
  BY Zenon DEF TypeInv, clusterLoop
<1>4. k \in MsgIds /\ In(chan[b], k) /\ \A m : In(chan[b], m) => In(chan'[b], m) \/ m = k
  <2>1. Head(chan[b]) \in MsgIds
    BY <1>3
  <2>2. In(chan[b], Head(chan[b]))
        /\ \A m : In(chan[b], m) => In(Tail(chan[b]), m) \/ m = Head(chan[b])
    BY Zenon, <1>3, ChannelTail
  <2> QED
    BY Zenon, <1>1, <1>3, <2>1, <2>2
<1>5. \/ Accepts(b, sent[k]) /\ routed' = [routed EXCEPT ![b][k] = @ + 1]
      \/ ~Accepts(b, sent[k]) /\ routed' = routed
  BY Zenon, <1>1 DEF clusterLoop
<1>6. /\ \A c \in Brokers, m \in MsgIds : c # b \/ m # k => routed'[c][m] = routed[c][m]
      /\ Accepts(b, sent[k]) => routed'[b][k] = routed[b][k] + 1
      /\ ~Accepts(b, sent[k]) => routed'[b][k] = routed[b][k]
  BY Zenon, <1>4, <1>5, RoutedTypes
<1> SUFFICES ASSUME NEW m \in steady
             PROVE  SteadyMsg(m)'
  BY Zenon, <1>2 DEF SteadyInv
<1>7. SteadyMsg(m) /\ Settled /\ m \in Published /\ Owner(m)' = Owner(m)
  BY Zenon, <1>2 DEF SteadyInv, TypeInv, Owner
<1>8. /\ m \in MsgIds /\ sent[m].src \in Brokers /\ sent[m].part \in Partitions
      /\ Owner(m) \in Brokers /\ Assigned(Up, b, sent[m].part) = Owner(m)
  BY Zenon, <1>7, PublishedTypes, SteadyOwner DEF SteadyMsg
<1>9. CASE m # k
  <2>1. In(chan[Owner(m)], m) => In(chan'[Owner(m)], m)
    BY Zenon, <1>3, <1>4, <1>8, <1>9
  <2>2. \A c \in Brokers : routed'[c][m] = routed[c][m]
    BY Zenon, <1>6, <1>8, <1>9
  <2> QED
    BY Zenon, <1>2, <1>7, <1>8, <2>1, <2>2 DEF SteadyMsg
<1>10. CASE m = k
  <2>1. Accepts(b, sent[m]) <=> sent[m].src # b /\ Owner(m) = b
    BY Zenon, <1>2, <1>7, <1>8 DEF Accepts, Settled
  <2>2. CASE b = Owner(m) /\ b # sent[m].src
    <3>1. routed[b][m] = 0
      BY Zenon, <1>4, <1>7, <1>8, <1>10, <2>2 DEF RoutingInv, OnceInv
    <3>2. routed'[b][m] = 1
      BY <1>6, <1>10, <2>1, <2>2, <3>1
    <3>3. \A c \in Brokers : c # b => routed'[c][m] = routed[c][m]
      BY Zenon, <1>6, <1>8
    <3> QED
      BY Zenon, <1>2, <1>7, <1>8, <2>2, <3>2, <3>3 DEF SteadyMsg
  <2>3. CASE b # Owner(m) \/ b = sent[m].src
    <3>1. \A c \in Brokers : routed'[c][m] = routed[c][m]
      BY Zenon, <1>6, <1>8, <1>10, <2>1, <2>3
    <3>2. Owner(m) # sent[m].src => chan'[Owner(m)] = chan[Owner(m)]
      BY Zenon, <1>3, <1>8, <2>3
    <3> QED
      BY Zenon, <1>2, <1>7, <1>8, <3>1, <3>2 DEF SteadyMsg
  <2> QED
    BY Zenon, <2>2, <2>3
<1>11. QED
  BY Zenon, <1>9, <1>10


-----------------------------------------------------------------------------
(* The theorems. *)

\* A cluster nobody has started satisfies the invariant.
LEMMA InitInv == Init => Inv
<1> SUFFICES ASSUME Init PROVE Inv
  BY Zenon
<1>1. TypeInv
  <2>1. Published = {} /\ sent \in Seq([src : Brokers, part : Partitions])
        /\ Len(sent) <= MaxMsgs
    BY ConstantsAssumption DEF Init, Published
  <2>2. chan \in [Brokers -> Seq(MsgIds)] /\ routed \in [Brokers -> [MsgIds -> Nat]]
    BY DEF Init
  <2> QED
    BY Zenon, <2>1, <2>2, Bounds DEF Init, TypeInv
<1>2. RoutingInv
  <2>1. Published = {} /\ fanout = {}
    BY DEF Init, Published
  <2>2. \A b \in Brokers : chan[b] = <<>> /\ \A m \in MsgIds : routed[b][m] = 0
    BY Zenon DEF Init
  <2> QED
    BY Zenon, <2>1, <2>2, EmptyChannel DEF RoutingInv, OnceInv
<1>3. SteadyInv
  BY Zenon DEF Init, SteadyInv
<1>4. QED
  BY Zenon, <1>1, <1>2, <1>3 DEF Inv

\* Every step keeps the invariant: starts, stops, crashes, outages and failed Redis calls
\* only take messages away, and leave no message steady.
LEMMA InvStep == Inv /\ [Next]_vars => Inv'
<1> SUFFICES ASSUME TypeInv, RoutingInv, SteadyInv, [Next]_vars
             PROVE  TypeInv' /\ RoutingInv' /\ SteadyInv'
  BY Zenon DEF Inv
<1> USE DEF syncVars, msgVars
<1>1. ASSUME NEW b \in Brokers,
             Start(b) \/ Stop(b) \/ Crash(b) \/ Outage(b) \/ ReconcileFails(b)
      PROVE  TypeInv' /\ RoutingInv' /\ SteadyInv'
  <2>1. TypeInv'
    BY Zenon, <1>1, BrokerStepType
  <2>2. steady' = {} /\ sent' = sent /\ routed' = routed
    BY Zenon, <1>1 DEF Start, Stop, Crash, Outage, ReconcileFails, Disturb
  <2>3. fanout' \subseteq fanout
    BY Zenon, <1>1 DEF Start, Stop, Crash, Outage, ReconcileFails
  <2>4. \A c \in Brokers : chan'[c] = chan[c] \/ chan'[c] = <<>>
    <3>1. chan' = chan \/ chan' = [chan EXCEPT ![b] = <<>>]
      BY Zenon, <1>1 DEF Start, Stop, Crash, Outage, ReconcileFails, Halt
    <3>2. chan \in [Brokers -> Seq(MsgIds)]
      BY Zenon DEF TypeInv
    <3> QED
      BY Zenon, <3>1, <3>2
  <2> QED
    BY Zenon, <2>1, <2>2, <2>3, <2>4, RoutingQuiet DEF SteadyInv
<1>2. ASSUME NEW b \in Brokers,
             BrokerLeave(b) \/ BrokerPulse(b) \/ Age(b) \/ Reconcile(b)
      PROVE  TypeInv' /\ RoutingInv' /\ SteadyInv'
  <2>1. TypeInv'
    BY Zenon, <1>2, BrokerStepType
  <2>2. steady' = steady /\ sent' = sent /\ routed' = routed /\ chan' = chan
    BY Zenon, <1>2 DEF BrokerLeave, BrokerPulse, Age, Reconcile, Prune, ZRange, SetOwner
  <2>3. fanout' \subseteq fanout
    BY Zenon, <1>2 DEF BrokerLeave, BrokerPulse, Age, Reconcile, Prune, ZRange, SetOwner
  <2>4. \A m \in fanout : sent[m].src \in Up => m \in fanout'
    <3>1. CASE BrokerLeave(b)
      <4>1. b \notin Up
        BY Zenon, <3>1 DEF BrokerLeave, Up
      <4> QED
        BY Zenon, <3>1, <4>1 DEF BrokerLeave
    <3>2. CASE BrokerPulse(b) \/ Age(b) \/ Reconcile(b)
      BY Zenon, <3>2 DEF BrokerPulse, Age, Reconcile, Prune, ZRange, SetOwner
    <3> QED
      BY Zenon, <1>2, <3>1, <3>2
  <2>5. RoutingInv'
    BY Zenon, <2>2, <2>3, RoutingQuiet
  <2>6. steady # {} => Settled' /\ Up' = Up
    BY Zenon, <1>2, SettledKeeps DEF SteadyInv
  <2> QED
    BY Zenon, <2>1, <2>2, <2>4, <2>5, <2>6, SteadyQuiet
<1>3. ASSUME NEW b \in Brokers, NEW p \in Partitions, Publish(b, p)
      PROVE  TypeInv' /\ RoutingInv' /\ SteadyInv'
  BY Zenon, <1>3, MessageStepType, PublishRouting, PublishSteady
<1>4. ASSUME NEW b \in Brokers, clusterLoop(b)
      PROVE  TypeInv' /\ RoutingInv' /\ SteadyInv'
  BY Zenon, <1>4, MessageStepType, LoopRouting, LoopSteady
<1>5. ASSUME NEW m \in fanout, PublishCluster(m)
      PROVE  TypeInv' /\ RoutingInv' /\ SteadyInv'
  BY Zenon, <1>5, MessageStepType, FanoutRouting, FanoutSteady
<1>6. ASSUME NEW m \in fanout, PublishClusterFails(m)
      PROVE  TypeInv' /\ RoutingInv' /\ SteadyInv'
  <2>1. TypeInv'
    BY Zenon, <1>6, MessageStepType
  <2>2. steady' = {} /\ sent' = sent /\ routed' = routed /\ chan' = chan /\ fanout' \subseteq fanout
    BY Zenon, <1>6 DEF PublishClusterFails, Disturb
  <2> QED
    BY Zenon, <2>1, <2>2, RoutingQuiet DEF SteadyInv
<1>7. CASE UNCHANGED vars
  <2>1. /\ up' = up /\ ownership' = ownership /\ syncPc' = syncPc /\ ids' = ids /\ next' = next
        /\ pulse' = pulse /\ sent' = sent /\ fanout' = fanout /\ chan' = chan
        /\ routed' = routed /\ steady' = steady
    BY Zenon, <1>7 DEF vars
  <2>2. TypeInv'
    BY Zenon, <2>1 DEF TypeInv, Published
  <2>3. RoutingInv'
    BY Zenon, <2>1, RoutingQuiet
  <2>4. SteadyInv'
    <3>1. Up' = Up /\ (Settled' <=> Settled)
      BY Zenon, <2>1, SettledFrame
    <3> QED
      BY Zenon, <2>1, <3>1, SteadyQuiet DEF SteadyInv
  <2> QED
    BY Zenon, <2>2, <2>3, <2>4
<1>8. QED
  BY Zenon, <1>1, <1>2, <1>3, <1>4, <1>5, <1>6, <1>7 DEF Next

\* No broker routes a message twice, whatever starts, stops, crashes and disagreements
\* about ownership happen: clusterLoop refuses the source's own message, and Redis brings a
\* message to a channel once.
THEOREM NeverRoutedTwice == Spec => []RoutedOnce
<1>1. Inv => RoutedOnce
  <2>1. ASSUME Inv, NEW b \in Brokers, NEW m \in MsgIds PROVE routed[b][m] \in {0, 1}
    BY Zenon, <2>1 DEF Inv, RoutingInv, OnceInv
  <2> QED
    BY <2>1 DEF RoutedOnce
<1>2. QED
  BY <1>1, InitInv, InvStep, PTL DEF Spec

\* In a settled cluster a message is routed by its source and by the owner of its partition,
\* which all brokers agree on, and by nobody else.
THEOREM SettledClusterRoutes == Spec => []SteadyRouting
<1>1. Inv => SteadyRouting
  <2> SUFFICES ASSUME Inv, NEW m \in steady
               PROVE  LET own == {sent[m].src, Owner(m)}
                          rtd == {b \in Brokers : routed[b][m] > 0}
                      IN /\ rtd \subseteq own
                         /\ m \notin fanout
                            /\ (\A b \in Brokers : \A i \in DOMAIN chan[b] : chan[b][i] # m)
                              => rtd = own
    BY Zenon DEF SteadyRouting, Owner
  <2>1. SteadyMsg(m) /\ TypeInv /\ m \in Published
    BY Zenon DEF Inv, SteadyInv, TypeInv
  <2>2. sent[m].src \in Brokers /\ Owner(m) \in Brokers
    BY Zenon, <2>1, PublishedTypes, SteadyOwner DEF SteadyMsg
  <2>3. \A b \in Brokers : routed[b][m] > 0 => b \in {sent[m].src, Owner(m)}
    BY <2>1 DEF SteadyMsg
  <2>4. ASSUME m \notin fanout, \A b \in Brokers : \A i \in DOMAIN chan[b] : chan[b][i] # m
        PROVE  routed[sent[m].src][m] > 0 /\ routed[Owner(m)][m] > 0
    <3>1. ~In(chan[Owner(m)], m)
      BY Zenon, <2>2, <2>4 DEF In
    <3>2. routed[sent[m].src][m] = 1 /\ routed[Owner(m)][m] = 1
      BY Zenon, <2>1, <2>4, <3>1 DEF SteadyMsg
    <3> QED
      BY <3>2
  <2> QED
    BY Zenon, <2>2, <2>3, <2>4
<1>2. QED
  BY <1>1, InitInv, InvStep, PTL DEF Spec

=============================================================================
