------------------------------- MODULE Router -------------------------------
(***************************************************************************)
(* The subscription router (internal/router/router.go): sharded tries of   *)
(* nodes with a lock each, shared subscription groups, and the routing of  *)
(* a publish.                                                              *)
(*                                                                         *)
(* Each client's goroutine subscribes and unsubscribes, one call at a      *)
(* time; a publisher goroutine routes messages.  A step is one critical    *)
(* section of the code, so the calls of different clients interleave       *)
(* inside the trie.  Nodes and groups are objects on a heap: a goroutine   *)
(* can hold one that another has already taken out of the trie.            *)
(***************************************************************************)
EXTENDS Integers, Sequences, FiniteSets, TLC

CONSTANTS
  Clients,     \* client IDs, a set of integers in the order of their strings
  Filters,     \* topic filters [share, levels]; share is "" for an ordinary
               \* filter, "+" and "#" are the wildcard levels
  Topics,      \* topics published
  NumShards, ShardOf,  \* hash of the first level of a filter
  Requests,    \* subscriptions clients ask for: [filter, qos]
  MaxNodes,    \* bound on the trie nodes created, the roots included
  MaxOps,      \* bound on the calls of each client
  MaxPubs      \* bound on the messages published

ASSUME ConstantsAssumption ==
  /\ Clients \subseteq Int /\ IsFiniteSet(Clients)
  /\ \A f \in Filters : f.share \in STRING /\ Len(f.levels) > 0
                        /\ ShardOf[f.levels[1]] \in 1 .. NumShards
  /\ Requests \subseteq [filter : Filters, qos : 0 .. 2]
  /\ NumShards \in Nat /\ MaxNodes \in Nat /\ MaxOps \in Nat /\ MaxPubs \in Nat

Nodes == 1 .. MaxNodes   \* node s \in 1..NumShards is the root of shard s
NoFn  == [x \in {} |-> 0]  \* an empty Go map

VARIABLES
  \* The tries: fields of node.
  children, subscribers, nodes,
  \* Router.shared: key -> group object, and the group objects.
  shared, groups,
  \* Goroutines of the clients.
  pc, op, at, path, todo, ops,
  \* The publisher goroutine.
  pubPc, topic, shard, matched, keys, group, pubs,
  \* History.
  want,  \* subscriptions whose Subscribe has returned
  exposed,  \* subscriptions made while a removal in the same place was running
  must,     \* subscriptions that have to get the message being published
  got,      \* clients it was delivered to through the tries
  gotShared \* shared filters one of whose members it was delivered to

trieVars == <<children, subscribers, nodes>>
grpVars  == <<shared, groups>>
opVars   == <<pc, op, at, path, todo, ops>>
pubVars  == <<pubPc, topic, shard, matched, keys, group, pubs, must, got,
              gotShared>>
vars == <<trieVars, grpVars, opVars, pubVars, want, exposed>>

NoOp    == [kind |-> "none"]
NoGroup == [obj |-> 0]

Init ==
  /\ children = [n \in Nodes |-> NoFn]
  /\ subscribers = [n \in Nodes |-> NoFn]
  /\ nodes = NumShards
  /\ shared = NoFn
  /\ groups = <<>>
  /\ pc = [p \in Clients |-> "idle"]
  /\ op = [p \in Clients |-> NoOp]
  /\ at = [p \in Clients |-> 0]
  /\ path = [p \in Clients |-> <<>>]
  /\ todo = [p \in Clients |-> {}]
  /\ ops = [p \in Clients |-> 0]
  /\ pubPc = "idle" /\ topic = <<>> /\ shard = 0 /\ matched = NoFn
  /\ keys = {} /\ group = NoGroup /\ pubs = 0
  /\ want = [p \in Clients |-> NoFn]
  /\ exposed = {}
  /\ must = {} /\ got = {} /\ gotShared = {}

Without(f, x) == [y \in DOMAIN f \ {x} |-> f[y]]

Goto(p, l) == pc' = [pc EXCEPT ![p] = l]
Return(p)  ==
  /\ Goto(p, "idle")
  /\ op' = [op EXCEPT ![p] = NoOp]
  /\ at' = [at EXCEPT ![p] = 0]
  /\ path' = [path EXCEPT ![p] = <<>>]

-----------------------------------------------------------------------------
(* Calls. *)

Begin(p, o) ==
  /\ pc[p] = "idle" /\ ops[p] < MaxOps
  /\ ops' = [ops EXCEPT ![p] = @ + 1]
  /\ op' = [op EXCEPT ![p] = o]

First(f) == f.levels[1]

\* Goroutines that are removing a subscription below the first level of f.
Removing(f) ==
  {q \in Clients : op[q].kind = "unsubscribe" /\ First(op[q].filter) = First(f)}

\* Subscribe of an ordinary filter: the trie of the filter's shard.
Subscribe(p, f, qos) ==
  /\ f.share = ""
  /\ Begin(p, [kind |-> "subscribe", filter |-> f, qos |-> qos,
               raced |-> Removing(f) # {}])
  /\ at' = [at EXCEPT ![p] = ShardOf[First(f)]]
  /\ Goto(p, "descend")
  /\ UNCHANGED <<trieVars, grpVars, path, todo, pubVars, want, exposed>>

\* shard.subscribe: one level down, creating the child if there is none.
subscribeDescend(p) ==
  LET f == op[p].filter.levels
      n == at[p]
      l == f[Len(path[p]) + 1]
  IN /\ pc[p] = "descend" /\ Len(path[p]) < Len(f)
     /\ \/ /\ l \in DOMAIN children[n]
           /\ at' = [at EXCEPT ![p] = children[n][l]]
           /\ UNCHANGED <<children, nodes>>
        \/ /\ l \notin DOMAIN children[n] /\ nodes < MaxNodes
           /\ nodes' = nodes + 1
           /\ children' = [children EXCEPT ![n] = (l :> nodes + 1) @@ @]
           /\ at' = [at EXCEPT ![p] = nodes + 1]
     /\ path' = [path EXCEPT ![p] = Append(@, n)]
     /\ UNCHANGED <<subscribers, grpVars, pc, op, todo, ops, pubVars, want,
                    exposed>>

\* shard.subscribe: the subscriber is put into the node's map; the call returns.
subscribeInsert(p) ==
  LET o == op[p]
  IN /\ pc[p] = "descend" /\ Len(path[p]) = Len(o.filter.levels)
     /\ subscribers' = [subscribers EXCEPT ![at[p]] = (p :> o.qos) @@ @]
     /\ want' = [want EXCEPT ![p] = (o.filter :> o.qos) @@ @]
     /\ exposed' = IF o.raced THEN exposed \cup {<<p, o.filter>>}
                   ELSE exposed \ {<<p, o.filter>>}
     /\ Return(p)
     /\ UNCHANGED <<children, nodes, grpVars, todo, ops, pubVars>>

\* Unsubscribe of an ordinary filter.  Subscribes of other clients that are
\* running below the same first level are exposed to its pruning.
Unsubscribe(p, f) ==
  /\ f.share = ""
  /\ pc[p] = "idle" /\ ops[p] < MaxOps
  /\ ops' = [ops EXCEPT ![p] = @ + 1]
  /\ op' = [q \in Clients |->
             IF q = p THEN [kind |-> "unsubscribe", filter |-> f]
             ELSE IF op[q].kind = "subscribe" /\ First(op[q].filter) = First(f)
             THEN [op[q] EXCEPT !.raced = TRUE] ELSE op[q]]
  /\ at' = [at EXCEPT ![p] = ShardOf[First(f)]]
  /\ want' = [want EXCEPT ![p] = Without(@, f)]
  /\ must' = must \ {<<p, f>>}
  /\ Goto(p, "find")
  /\ UNCHANGED <<trieVars, grpVars, path, todo, pubPc, topic, shard, matched, keys,
                 group, pubs, got, gotShared, exposed>>

\* unsubRecursive on the way down: look the child up, give up if there is none.
unsubDescend(p) ==
  LET f == op[p].filter.levels
      n == at[p]
      l == f[Len(path[p]) + 1]
  IN /\ pc[p] = "find" /\ Len(path[p]) < Len(f)
     /\ \/ /\ l \in DOMAIN children[n]
           /\ at' = [at EXCEPT ![p] = children[n][l]]
           /\ path' = [path EXCEPT ![p] = Append(@, n)]
           /\ UNCHANGED <<pc, op>>
        \/ /\ l \notin DOMAIN children[n]
           /\ Return(p)
     /\ UNCHANGED <<trieVars, grpVars, todo, ops, pubVars, want, exposed>>

\* Mutant of Empty: the children are forgotten.
EmptyNoSubscribers(n) == subscribers'[n] = NoFn

\* A node with neither children nor subscribers.
Empty(n) == children'[n] = NoFn /\ subscribers'[n] = NoFn

\* On the way back: prune the parent when the node is empty, else return.
Back(p, n, up) ==
  IF Empty(n) /\ up # <<>>
  THEN Goto(p, "prune") /\ path' = [path EXCEPT ![p] = up] /\ UNCHANGED <<op, at>>
  ELSE Return(p)

\* unsubRecursive at the node of the filter: remove the client, is it empty?
unsubRemove(p) ==
  LET n == at[p]
  IN /\ pc[p] = "find" /\ Len(path[p]) = Len(op[p].filter.levels)
     /\ subscribers' = [subscribers EXCEPT ![n] = Without(@, p)]
     /\ UNCHANGED <<children, nodes>>
     /\ Back(p, n, path[p])
     /\ UNCHANGED <<grpVars, todo, ops, pubVars, want, exposed>>

\* unsubRecursive on the way back: delete the empty child from its parent by
\* its level, is the parent empty now?
unsubPrune(p) ==
  LET up == path[p]
      n  == up[Len(up)]
      l  == op[p].filter.levels[Len(up)]
  IN /\ pc[p] = "prune"
     /\ children' = [children EXCEPT ![n] = Without(@, l)]
     /\ UNCHANGED <<subscribers, nodes>>
     /\ Back(p, n, SubSeq(up, 1, Len(up) - 1))
     /\ UNCHANGED <<grpVars, todo, ops, pubVars, want, exposed>>

\* UnsubscribeAll: every shard is searched, one node at a time.
UnsubscribeAll(p) ==
  /\ Begin(p, [kind |-> "all"])
  /\ todo' = [todo EXCEPT ![p] = 1 .. NumShards]
  /\ want' = [want EXCEPT ![p] = NoFn]
  /\ must' = {m \in must : m[1] # p}
  /\ Goto(p, "all")
  /\ UNCHANGED <<trieVars, grpVars, at, path, pubPc, topic, shard, matched,
                 keys, group, pubs, got, gotShared, exposed>>

\* removeClientFromNode: the children are read under the node's lock and visited
\* after it is released.
removeClientFromNode(p) ==
  /\ pc[p] = "all"
  /\ \E n \in todo[p] :
       /\ subscribers' = [subscribers EXCEPT ![n] = Without(@, p)]
       /\ todo' = [todo EXCEPT ![p] = (@ \ {n}) \cup {children[n][l] : l \in DOMAIN children[n]}]
  /\ UNCHANGED <<children, nodes, grpVars, pc, op, at, path, ops, pubVars,
                 want, exposed>>

-----------------------------------------------------------------------------
(* Shared subscription groups. *)

\* subscribeShared: find or create the group under sharedMu.
subscribeShared(p, k, qos) ==
  /\ k.share # ""
  /\ Begin(p, [kind |-> "share", filter |-> k, qos |-> qos, raced |-> FALSE])
  /\ \/ /\ k \in DOMAIN shared
        /\ at' = [at EXCEPT ![p] = shared[k]]
        /\ UNCHANGED <<shared, groups>>
     \/ /\ k \notin DOMAIN shared
        /\ shared' = (k :> Len(groups) + 1) @@ shared
        /\ groups' = Append(groups, [subs |-> NoFn, rr |-> 0])
        /\ at' = [at EXCEPT ![p] = Len(groups) + 1]
  /\ Goto(p, "enter")
  /\ UNCHANGED <<trieVars, path, todo, pubVars, want, exposed>>

\* subscribeShared: enter the group under its own lock; the call returns.
enterGroup(p) ==
  LET g == at[p]
  IN /\ pc[p] = "enter"
     /\ groups' = [groups EXCEPT ![g].subs = (p :> op[p].qos) @@ @]
     /\ want' = [want EXCEPT ![p] = (op[p].filter :> op[p].qos) @@ @]
     /\ exposed' = IF op[p].raced THEN exposed \cup {<<p, op[p].filter>>}
                   ELSE exposed \ {<<p, op[p].filter>>}
     /\ Return(p)
     /\ UNCHANGED <<trieVars, shared, todo, ops, pubVars>>

\* Mutant of Leave: the group is deleted with its first leaver.
LeaveDeletes(p, ks) ==
  LET gone == {k \in ks : p \in DOMAIN groups[shared[k]].subs}
      gs   == {shared[k] : k \in ks}
  IN /\ groups' = [g \in DOMAIN groups |->
                     IF g \in gs THEN [groups[g] EXCEPT !.subs = Without(@, p)] ELSE groups[g]]
     /\ shared' = [k \in DOMAIN shared \ gone |-> shared[k]]
     /\ op' = [op EXCEPT ![p] = NoOp]

\* Client p leaves the groups ks; an empty group is deleted under its key, and
\* whoever holds it and has yet to enter it loses.
Leave(p, ks) ==
  LET empty == {k \in ks : DOMAIN groups[shared[k]].subs \subseteq {p}}
      gs    == {shared[k] : k \in ks}
  IN /\ groups' = [g \in DOMAIN groups |->
                     IF g \in gs THEN [groups[g] EXCEPT !.subs = Without(@, p)] ELSE groups[g]]
     /\ shared' = [k \in DOMAIN shared \ empty |-> shared[k]]
     /\ op' = [q \in Clients |->
                IF q = p THEN NoOp
                ELSE IF pc[q] = "enter" /\ op[q].filter \in empty
                THEN [op[q] EXCEPT !.raced = TRUE] ELSE op[q]]

\* unsubscribeShared, all of it under sharedMu.
unsubscribeShared(p, k) ==
  /\ k.share # ""
  /\ pc[p] = "idle" /\ ops[p] < MaxOps
  /\ ops' = [ops EXCEPT ![p] = @ + 1]
  /\ Leave(p, {k} \cap DOMAIN shared)
  /\ want' = [want EXCEPT ![p] = Without(@, k)]
  /\ must' = must \ {<<p, k>>}
  /\ UNCHANGED <<trieVars, pc, at, path, todo, pubPc, topic, shard, matched, keys,
                 group, pubs, got, gotShared, exposed>>

\* removeClientFromAllShared, the end of UnsubscribeAll.
removeClientFromAllShared(p) ==
  /\ pc[p] = "all" /\ todo[p] = {}
  /\ Leave(p, DOMAIN shared)
  /\ Goto(p, "idle")
  /\ UNCHANGED <<trieVars, at, path, todo, ops, pubVars, want, exposed>>

-----------------------------------------------------------------------------
(* Matching and Publish. *)

\* mergeSubscribers: the highest QoS per client.
Merge(F) ==
  [c \in UNION {DOMAIN f : f \in F} |->
     LET q == {f[c] : f \in {g \in F : c \in DOMAIN g}}
     IN CHOOSE x \in q : \A y \in q : y <= x]

Child(n, l) == {children[n][k] : k \in {l} \cap DOMAIN children[n]}

\* matchNode
RECURSIVE matchNode(_, _, _)
matchNode(n, t, d) ==
  LET all   == {subscribers[h] : h \in Child(n, "#")}
      here  == IF d = Len(t) THEN {subscribers[n]} ELSE {}
      below == IF d = Len(t) THEN {}
               ELSE {matchNode(k, t, d + 1) : k \in Child(n, t[d + 1]) \cup Child(n, "+")}
  IN Merge(all \cup here \cup below)

\* matchSegs, the matching of shared subscriptions and retained messages; t and
\* f are walked in step.
RECURSIVE matchSegs(_, _, _)
matchSegs(t, f, i) ==
  IF i > Len(f) THEN i > Len(t)
  ELSE \/ f[i] = "#"
       \/ i <= Len(t) /\ f[i] \in {"+", t[i]} /\ matchSegs(t, f, i + 1)

TopicMatchesFilter(t, f) == matchSegs(t, f, 1)

\* Reference: which topics a filter stands for, level by level.
Matches(t, f) ==
  LET n == Len(f)
  IN IF f[n] = "#"
     THEN Len(t) >= n - 1 /\ \A i \in 1 .. n - 1 : f[i] \in {"+", t[i]}
     ELSE Len(t) = n /\ \A i \in 1 .. n : f[i] \in {"+", t[i]}

\* Router.Publish begins.
Publish(t) ==
  /\ pubPc = "idle" /\ pubs < MaxPubs
  /\ pubs' = pubs + 1
  /\ topic' = t /\ shard' = 1 /\ matched' = NoFn
  /\ must' = {m \in UNION {{p} \X DOMAIN want[p] : p \in Clients} :
                m \notin exposed /\ Matches(t, m[2].levels)}
  /\ pubPc' = "match"
  /\ UNCHANGED <<trieVars, grpVars, opVars, keys, group, got, gotShared, want, exposed>>

\* Mutant of matchShard: only the topic's own shard is asked.
matchShardOwn ==
  /\ pubPc = "match"
  /\ matched' = matchNode(ShardOf[topic[1]], topic, 0)
  /\ shard' = shard + 1
  /\ pubPc' = "deliver"
  /\ UNCHANGED <<trieVars, grpVars, opVars, topic, keys, group, pubs, must, got,
                 gotShared, want, exposed>>

\* matchSubscribers asks one shard after the other.
matchShard ==
  /\ pubPc = "match"
  /\ matched' = Merge({matched, matchNode(shard, topic, 0)})
  /\ shard' = shard + 1
  /\ pubPc' = IF shard = NumShards THEN "deliver" ELSE "match"
  /\ UNCHANGED <<trieVars, grpVars, opVars, topic, keys, group, pubs, must, got,
                 gotShared, want, exposed>>

\* Every matched subscriber's closure is called; deliverShared lists the groups.
Deliver ==
  /\ pubPc = "deliver"
  /\ got' = DOMAIN matched
  /\ matched' = NoFn /\ shard' = 0
  /\ keys' = DOMAIN shared
  /\ pubPc' = "shared"
  /\ UNCHANGED <<trieVars, grpVars, opVars, topic, group, pubs, must, gotShared, want,
                 exposed>>

\* deliverShared: the group of the next key, if it still exists and matches.
deliverShared ==
  /\ pubPc = "shared"
  /\ \/ /\ keys = {}
        /\ pubPc' = "idle" /\ topic' = <<>> /\ group' = NoGroup
        /\ must' = {} /\ got' = {} /\ gotShared' = {}
        /\ UNCHANGED keys
     \/ \E k \in keys :
          /\ keys' = keys \ {k}
          /\ UNCHANGED <<topic, must, got, gotShared>>
          /\ \/ /\ k \in DOMAIN shared /\ TopicMatchesFilter(topic, k.levels)
                /\ group' = [key |-> k, obj |-> shared[k]]
                /\ pubPc' = "pick"
             \/ /\ k \notin DOMAIN shared \/ ~TopicMatchesFilter(topic, k.levels)
                /\ UNCHANGED <<group, pubPc>>
  /\ UNCHANGED <<trieVars, grpVars, opVars, shard, matched, pubs, want, exposed>>

\* The member at index i of a group, counted from 0 in the order of client IDs.
Member(S, i) == CHOOSE c \in S : Cardinality({d \in S : d < c}) = i

\* deliverShared: the next member in turn gets the message.
pickMember ==
  LET g == group.obj
      S == DOMAIN groups[g].subs
      c == Member(S, groups[g].rr % Cardinality(S))
  IN /\ pubPc = "pick"
     /\ IF S = {} THEN UNCHANGED <<groups, gotShared>>
        ELSE /\ groups' = [groups EXCEPT ![g].rr = @ + 1]
             /\ c \in S
             /\ gotShared' = gotShared \cup {group.key}
     /\ pubPc' = "shared"
     /\ UNCHANGED <<trieVars, shared, opVars, topic, shard, matched, keys, group,
                    pubs, must, got, want, exposed>>

-----------------------------------------------------------------------------
Next ==
  \/ \E p \in Clients :
       \/ \E r \in Requests : Subscribe(p, r.filter, r.qos) \/ subscribeShared(p, r.filter, r.qos)
       \/ \E f \in Filters : Unsubscribe(p, f) \/ unsubscribeShared(p, f)
       \/ subscribeDescend(p) \/ subscribeInsert(p)
       \/ unsubDescend(p) \/ unsubRemove(p) \/ unsubPrune(p)
       \/ UnsubscribeAll(p) \/ removeClientFromNode(p) \/ removeClientFromAllShared(p)
       \/ enterGroup(p)
  \/ \E t \in Topics : Publish(t)
  \/ matchShard \/ Deliver \/ deliverShared \/ pickMember

Spec == Init /\ [][Next]_vars

-----------------------------------------------------------------------------
(* Properties. *)

\* Routing follows the subscriptions: what the tries match for a client that is
\* not in a call is what its filters ask for, at the highest QoS they ask for,
\* whatever other clients subscribe, unsubscribe and prune in the meantime.  Only
\* a subscription made while another client was removing one below the same first
\* level may be missing.
RoutingExact ==
  \A p \in Clients : pc[p] = "idle" => \A t \in Topics :
    LET out  == Merge({matchNode(s, t, 0) : s \in 1 .. NumShards})
        asks == {f \in DOMAIN want[p] : f.share = "" /\ Matches(t, f.levels)}
    IN /\ p \in DOMAIN out => \E f \in asks : want[p][f] = out[p]
       /\ \A f \in asks : <<p, f>> \notin exposed => p \in DOMAIN out /\ out[p] >= want[p][f]

\* The same for shared groups: a client that is not in a call is a member of
\* exactly the groups it asked for, unless its group was deleted while it entered.
SharedExact ==
  \A p \in Clients : pc[p] = "idle" =>
    /\ \A k \in DOMAIN shared : p \in DOMAIN groups[shared[k]].subs => k \in DOMAIN want[p]
    /\ \A k \in DOMAIN want[p] : k.share # "" /\ <<p, k>> \notin exposed =>
         k \in DOMAIN shared /\ p \in DOMAIN groups[shared[k]].subs

\* A subscription that stands throughout a Publish is served, although shards and
\* groups are looked up one after the other while others come and go: the client
\* itself for an ordinary one, a member of the group for a shared one.
PublishComplete ==
  pubPc = "shared" /\ keys = {} =>
    \A m \in must : IF m[2].share = "" THEN m[1] \in got ELSE m[2] \in gotShared

\* router.go: "Subscribe registers a subscription in the trie."
SubscribeRegisters ==
  (\A p \in Clients : pc[p] = "idle") =>
    \A p \in Clients : \A f \in DOMAIN want[p] : \A t \in Topics :
      f.share = "" /\ Matches(t, f.levels) => p \in DOMAIN matchNode(ShardOf[First(f)], t, 0)
=============================================================================
