--------------------------- MODULE Durable_proofs ---------------------------
(***************************************************************************)
(* What Redis and PostgreSQL hold of a client, for any number of filters,  *)
(* connections, changes and faults: a write that ran alone has landed, the *)
(* entry and the status are those of the connection as long as connections *)
(* do not overlap, and a resumed session delivers to its connection.       *)
(***************************************************************************)
EXTENDS Durable, TLAPS

\* The commands that a goroutine has left.
Scripts == {<<{Client}, {Device}>>, <<{Device}>>, <<Filters>>} \cup {<<{f}>> : f \in Filters}

IsTask(g) ==
  /\ g = [cmds |-> g.cmds, val |-> g.val, n |-> g.n]
  /\ g.cmds \in Scripts /\ g.val \in Nat

\* The goroutines of restoreSession.
RestoreSet == [conn : Nat, pc : {"query", "apply"}, todo : SUBSET Filters]

TypeInv ==
  /\ \A g \in tasks : IsTask(g)
  /\ out \in [Keys -> Nat] /\ last \in [Keys -> Nat] /\ sound \in [Keys -> BOOLEAN]
  /\ registered \in BOOLEAN /\ taken \in BOOLEAN
  /\ subs \in [Filters -> Nat] /\ fresh \subseteq Filters
  /\ conns \in Nat /\ conn \in Nat /\ alive \subseteq Nat \ {0}
  /\ restores \subseteq RestoreSet

\* Goroutine g is the only one to write key k, with the value of the write begun last.
Alone(g, k) == g.val = last[k] /\ \A h \in tasks : k \in KeysOf(h) => h = g

\* A write of key k that is sound is alone as long as it is pending, and then it has landed.
WriteInv(k) ==
  sound[k] => /\ \A g \in tasks : k \in KeysOf(g) => Alone(g, k)
              /\ ~Pending(k) /\ Landed(k) => out[k] = last[k]

\* The last write of the entry and of the status is that of the only connection.
EntryInv ==
  ~taken => /\ last[Client] = conn /\ last[Device] = conn
            /\ alive = IF conn = 0 THEN {} ELSE {conn}

\* The only restore is that of the present connection, and applies what is still stale.
RestoreInv ==
  conn # 0 =>
    \A f \in fresh : /\ \A r \in restores : r.conn = conn /\ r.pc = "apply"
                     /\ subs[f] \in {0, conn} \/ \E r \in restores : f \in r.todo

Inv == TypeInv /\ (\A k \in Keys : WriteInv(k)) /\ EntryInv /\ RestoreInv

----------------------------------------------------------------------------
(* Goroutines. *)

\* The keys of the commands that goroutines run, and what is left after the first one.
LEMMA ScriptKeys ==
  ASSUME NEW g, g.cmds \in Scripts
  PROVE  /\ g.cmds = <<{Client}, {Device}>> => KeysOf(g) = {Client, Device}
         /\ g.cmds = <<{Device}>> => KeysOf(g) = {Device}
         /\ g.cmds = <<Filters>> => KeysOf(g) = Filters
         /\ \A f \in Filters : g.cmds = <<{f}>> => KeysOf(g) = {f}
         /\ KeysOf(g) \subseteq Keys
<1>1. ASSUME g.cmds = <<{Client}, {Device}>> PROVE KeysOf(g) = {Client, Device}
  BY <1>1 DEF KeysOf
<1>2. ASSUME NEW S, g.cmds = <<S>> PROVE KeysOf(g) = S
  BY <1>2 DEF KeysOf
<1>3. KeysOf(g) \subseteq Keys
  BY Zenon, <1>1, <1>2 DEF Scripts, Keys
<1> QED
  BY Zenon, <1>1, <1>2, <1>3

\* A goroutine that has run a command has the others left.
LEMMA RestOf ==
  ASSUME NEW g, IsTask(g)
  PROVE  /\ \A h \in Rest(g) : /\ IsTask(h) /\ h.val = g.val
                               /\ KeysOf(h) = KeysOf(g) \ Head(g.cmds)
                               /\ \A i \in Rest(g) : i = h
         /\ Head(g.cmds) \subseteq KeysOf(g)
         /\ \A k \in KeysOf(g) \ Head(g.cmds) : Rest(g) # {}
<1>0. g = [cmds |-> g.cmds, val |-> g.val, n |-> g.n] /\ g.cmds \in Scripts /\ g.val \in Nat
  BY Zenon DEF IsTask
<1>1. CASE g.cmds = <<{Client}, {Device}>>
  <2> DEFINE h == [cmds |-> <<{Device}>>, val |-> g.val, n |-> g.n]
  <2>1. Rest(g) = {h} /\ Head(g.cmds) = {Client}
    <3>1. Len(g.cmds) = 2 /\ Tail(g.cmds) = <<{Device}>> /\ Head(g.cmds) = {Client}
      BY <1>1
    <3>3. Len(g.cmds) # 1
      BY <3>1
    <3> QED
      BY Zenon, <3>1, <3>3 DEF Rest
  <2>2. IsTask(h) /\ h.val = g.val /\ h.cmds \in Scripts /\ h.cmds = <<{Device}>>
    BY Zenon, <1>0 DEF IsTask, Scripts
  <2>3. KeysOf(h) = {Device} /\ KeysOf(g) = {Client, Device}
    BY Zenon, <1>0, <1>1, <2>2, ScriptKeys
  <2>4. Client # Device
    BY DEF Client, Device
  <2> HIDE DEF h
  <2> QED
    BY Zenon, <2>1, <2>2, <2>3, <2>4
<1>2. ASSUME NEW S, g.cmds = <<S>>, KeysOf(g) = S
      PROVE  Rest(g) = {} /\ Head(g.cmds) = KeysOf(g)
  BY <1>2 DEF Rest
<1>3. g.cmds = <<{Client}, {Device}>> \/ \E S : g.cmds = <<S>> /\ KeysOf(g) = S
  BY Zenon, <1>0, ScriptKeys DEF Scripts
<1> QED
  BY Zenon, <1>1, <1>2, <1>3

\* What go func() does: a goroutine of its own for each script, whose keys are begun.
Started(gs) ==
  /\ tasks \subseteq tasks'
  /\ \A t \in tasks' \ tasks : IsTask(t) /\ \E g \in gs : t.cmds = g.cmds /\ t.val = g.val
  /\ \A g \in gs : \E t \in tasks' : t.cmds = g.cmds
  /\ \A t, u \in tasks' \ tasks : t.cmds = u.cmds => t = u
  /\ \A k \in Keys : (~\E g \in gs : k \in KeysOf(g)) => last'[k] = last[k] /\ sound'[k] = sound[k]
  /\ \A g \in gs : \A k \in KeysOf(g) : last'[k] = g.val /\ (sound'[k] <=> ~Pending(k) /\ Landed(k))
  /\ last' \in [Keys -> Nat] /\ sound' \in [Keys -> BOOLEAN]
  /\ UNCHANGED <<out, registered>>

\* Goroutines whose scripts have no key in common are started.
LEMMA SpawnStarts ==
  ASSUME TypeInv, NEW gs, Spawn(gs),
         \A g \in gs : g = [cmds |-> g.cmds, val |-> g.val] /\ g.cmds \in Scripts /\ g.val \in Nat,
         \A g, h \in gs : g.cmds = h.cmds \/ KeysOf(g) \cap KeysOf(h) = {},
         \A g, h \in gs : g.cmds = h.cmds => g = h
  PROVE  Started(gs)
<1> DEFINE begun == UNION {KeysOf(g) : g \in gs}
           Of(k) == CHOOSE g \in gs : k \in KeysOf(g)
           Task(g, n) == [cmds |-> g.cmds, val |-> g.val, n |-> n]
           Number(g) == CHOOSE n \in 0 .. Cardinality(tasks) : Task(g, n) \notin tasks
           New(g) == Task(g, Number(g))
<1>1. /\ tasks' = tasks \cup {New(g) : g \in gs}
      /\ last' = [k \in Keys |-> IF k \in begun THEN Of(k).val ELSE last[k]]
      /\ sound' = [k \in Keys |-> IF k \in begun THEN ~Pending(k) /\ Landed(k) ELSE sound[k]]
      /\ UNCHANGED <<out, registered>>
  BY Zenon DEF Spawn
<1>2. ASSUME NEW g \in gs
      PROVE  New(g).cmds = g.cmds /\ New(g).val = g.val /\ IsTask(New(g))
  <2> DEFINE m == Number(g)
  <2> HIDE DEF m, Number
  <2>1. /\ New(g) = [cmds |-> New(g).cmds, val |-> New(g).val, n |-> New(g).n]
        /\ New(g).cmds = g.cmds /\ New(g).val = g.val
    OBVIOUS
  <2> QED
    BY Zenon, <2>1 DEF IsTask
<1> HIDE DEF New
<1>3. \A t \in tasks' \ tasks : IsTask(t) /\ \E g \in gs : t.cmds = g.cmds /\ t.val = g.val
  BY ZenonT(60), <1>1, <1>2
<1>4. \A g \in gs : \E t \in tasks' : t.cmds = g.cmds
  BY Zenon, <1>1, <1>2
<1>5. ASSUME NEW t \in tasks' \ tasks, NEW u \in tasks' \ tasks, t.cmds = u.cmds PROVE t = u
  <2>1. PICK g \in gs : t = New(g)
    BY Zenon, <1>1
  <2>2. PICK h \in gs : u = New(h)
    BY Zenon, <1>1
  <2>3. g.cmds = h.cmds
    BY Zenon, <1>2, <1>5, <2>1, <2>2
  <2> QED
    BY Zenon, <2>1, <2>2, <2>3
<1>6. ASSUME NEW k \in Keys, ~\E g \in gs : k \in KeysOf(g)
      PROVE  last'[k] = last[k] /\ sound'[k] = sound[k]
  BY Zenon, <1>1, <1>6
<1>7. ASSUME NEW g \in gs, NEW k \in KeysOf(g)
      PROVE  last'[k] = g.val /\ (sound'[k] <=> ~Pending(k) /\ Landed(k))
  <2>0. g.cmds \in Scripts
    OBVIOUS
  <2>1. k \in Keys /\ k \in begun
    <3>1. KeysOf(g) \subseteq Keys
      BY Zenon, <2>0, ScriptKeys
    <3> QED
      BY Zenon, <3>1
  <2>2. Of(k) \in gs /\ k \in KeysOf(Of(k))
    BY Zenon
  <2>3. Of(k) = g
    BY Zenon, <2>2
  <2> HIDE DEF Of, begun
  <2> QED
    BY Zenon, <1>1, <2>1, <2>3
<1>8. last' \in [Keys -> Nat]
  <2>1. ASSUME NEW k \in Keys PROVE last'[k] \in Nat
    BY Zenon, <1>6, <1>7 DEF TypeInv
  <2> QED
    BY Zenon, <1>1, <2>1
<1>9. sound' \in [Keys -> BOOLEAN]
  <2>1. ASSUME NEW k \in Keys PROVE (IF k \in begun THEN ~Pending(k) /\ Landed(k) ELSE sound[k]) \in BOOLEAN
    BY Zenon DEF TypeInv
  <2> QED
    BY Zenon, <1>1, <2>1
<1> QED
  BY Zenon, <1>1, <1>3, <1>4, <1>5, <1>6, <1>7, <1>8, <1>9 DEF Started

\* A goroutine that starts alone is sound, one that starts beside another is not.
LEMMA StartedKeeps ==
  ASSUME TypeInv, NEW gs, Started(gs), NEW k \in Keys, WriteInv(k),
         \A g \in gs : g.cmds \in Scripts,
         \A g, h \in gs : g.cmds = h.cmds \/ KeysOf(g) \cap KeysOf(h) = {}
  PROVE  WriteInv(k)'
<1>0. \A t, u : t.cmds = u.cmds => KeysOf(t) = KeysOf(u)
  BY Zenon DEF KeysOf
<1>1. CASE \E g \in gs : k \in KeysOf(g)
  <2>1. PICK g \in gs : k \in KeysOf(g)
    BY Zenon, <1>1
  <2>2. last'[k] = g.val /\ (sound'[k] <=> ~Pending(k) /\ Landed(k))
    BY Zenon, <2>1 DEF Started
  <2>3. Pending(k)'
    <3>1. PICK t \in tasks' : t.cmds = g.cmds
      BY Zenon DEF Started
    <3>2. k \in KeysOf(t)
      BY Zenon, <2>1, <3>1 DEF KeysOf
    <3> QED
      BY Zenon, <3>2 DEF Pending
  <2>4. ASSUME sound'[k], NEW t \in tasks', k \in KeysOf(t)
        PROVE  t \in tasks' \ tasks /\ t.cmds = g.cmds
    <3>1. t \notin tasks
      BY Zenon, <2>2, <2>4 DEF Pending
    <3>2. PICK h \in gs : t.cmds = h.cmds /\ t.val = h.val
      BY Zenon, <2>4, <3>1 DEF Started
    <3>3. k \in KeysOf(h)
      BY Zenon, <1>0, <2>4, <3>2
    <3> QED
      BY Zenon, <2>1, <2>4, <3>1, <3>2, <3>3
  <2>5. ASSUME sound'[k], NEW t \in tasks', k \in KeysOf(t) PROVE t.val = last'[k]
    <3>1. PICK h \in gs : t.cmds = h.cmds /\ t.val = h.val
      BY Zenon, <2>4, <2>5 DEF Started
    <3>2. k \in KeysOf(h)
      BY Zenon, <1>0, <2>5, <3>1
    <3> QED
      BY Zenon, <3>1, <3>2 DEF Started
  <2>6. ASSUME sound'[k], NEW t \in tasks', k \in KeysOf(t), NEW u \in tasks', k \in KeysOf(u) PROVE u = t
    <3>1. t \in tasks' \ tasks /\ u \in tasks' \ tasks /\ t.cmds = g.cmds /\ u.cmds = g.cmds
      BY Zenon, <2>4, <2>6
    <3>2. \A v, w \in tasks' \ tasks : v.cmds = w.cmds => v = w
      BY Zenon DEF Started
    <3>3. t.cmds = u.cmds
      BY Zenon, <3>1
    <3> QED
      BY Zenon, <3>1, <3>2, <3>3
  <2> QED
    BY Zenon, <2>3, <2>5, <2>6 DEF WriteInv, Alone
<1>2. CASE ~\E g \in gs : k \in KeysOf(g)
  <2>1. last'[k] = last[k] /\ sound'[k] = sound[k] /\ out' = out /\ registered' = registered
    BY Zenon, <1>2 DEF Started
  <2>2. \A t \in tasks' : k \in KeysOf(t) => t \in tasks
    <3>1. ASSUME NEW t \in tasks', t \notin tasks PROVE k \notin KeysOf(t)
      <4>1. PICK h \in gs : t.cmds = h.cmds
        BY Zenon, <3>1 DEF Started
      <4>2. KeysOf(t) = KeysOf(h)
        BY Zenon, <4>1 DEF KeysOf
      <4> QED
        BY Zenon, <1>2, <4>2
    <3> QED
      BY Zenon, <3>1
  <2>3. tasks \subseteq tasks'
    BY Zenon DEF Started
  <2>4. Pending(k)' <=> Pending(k)
    BY Zenon, <2>2, <2>3 DEF Pending
  <2>5. Landed(k)' <=> Landed(k)
    BY Zenon, <2>1 DEF Landed
  <2>6. ASSUME sound'[k], NEW t \in tasks', k \in KeysOf(t) PROVE Alone(t, k)'
    BY Zenon, <2>1, <2>2, <2>6 DEF WriteInv, Alone
  <2> QED
    BY Zenon, <2>1, <2>4, <2>5, <2>6 DEF WriteInv
<1> QED
  BY Zenon, <1>1, <1>2

----------------------------------------------------------------------------
(* Steps. *)

\* Goroutines are started that have no key in common.
Begins(gs) ==
  /\ Started(gs) /\ \A g \in gs : g.cmds \in Scripts
  /\ \A g, h \in gs : g.cmds = h.cmds \/ KeysOf(g) \cap KeysOf(h) = {}

\* A goroutine for a client, a row or all rows.
LEMMA GoIs ==
  ASSUME NEW c, NEW v
  PROVE  /\ Go(c, v).cmds = c /\ Go(c, v).val = v
         /\ Go(c, v) = [cmds |-> Go(c, v).cmds, val |-> Go(c, v).val]
BY DEF Go

\* One goroutine is started.
LEMMA BeginsOne ==
  ASSUME TypeInv, NEW c \in Scripts, NEW v \in Nat, Spawn({Go(c, v)})
  PROVE  Begins({Go(c, v)})
<1>1. PICK g : g = Go(c, v)
  OBVIOUS
<1>2. g = [cmds |-> g.cmds, val |-> g.val] /\ g.cmds \in Scripts /\ g.val \in Nat
  BY Zenon, <1>1, GoIs
<1>3. Spawn({g})
  BY Zenon, <1>1
<1>4. Started({g})
  BY Zenon, <1>2, <1>3, SpawnStarts
<1> QED
  BY Zenon, <1>1, <1>2, <1>4 DEF Begins

\* The keys of the entry are no filters.
LEMMA KeysApart ==
  /\ Client \in Keys /\ Device \in Keys /\ Client # Device
  /\ Client \notin Filters /\ Device \notin Filters /\ Filters \subseteq Keys
BY ConstantsAssumption DEF Client, Device, Keys

\* cleanup starts DelClient, and DeleteAllSubs when it purges the session.
LEMMA BeginsCleanup ==
  ASSUME TypeInv, NEW gs, gs = {DelClient} \/ gs = {DelClient} \cup DeleteAllSubs, Spawn(gs)
  PROVE  Begins(gs)
<1>1. PICK d : d = DelClient
  OBVIOUS
<1>2. PICK a : a = Go(<<Filters>>, 0)
  OBVIOUS
<1>3. /\ d = [cmds |-> d.cmds, val |-> d.val] /\ d.cmds = <<{Client}, {Device}>> /\ d.val = 0
      /\ a = [cmds |-> a.cmds, val |-> a.val] /\ a.cmds = <<Filters>> /\ a.val = 0
  BY Zenon, <1>1, <1>2, GoIs DEF DelClient
<1>4. d.cmds \in Scripts /\ a.cmds \in Scripts /\ 0 \in Nat
  <2>1. 0 \in Nat
    OBVIOUS
  <2> QED
    BY Zenon, <1>3, <2>1 DEF Scripts
<1>5. KeysOf(d) = {Client, Device} /\ KeysOf(a) = Filters
  BY Zenon, <1>3, <1>4, ScriptKeys
<1>6. KeysOf(d) \cap KeysOf(a) = {} /\ KeysOf(a) \cap KeysOf(d) = {}
  BY Zenon, <1>5, KeysApart
<1>7. \A g \in gs : g = d \/ g = a
  BY Zenon, <1>1, <1>2 DEF DeleteAllSubs
<1>8. d.cmds # a.cmds
  BY <1>3
<1>9. \A g, h \in gs : g.cmds = h.cmds => g = h
  BY Zenon, <1>7, <1>8
<1>10. \A g, h \in gs : g.cmds = h.cmds \/ KeysOf(g) \cap KeysOf(h) = {}
  BY Zenon, <1>6, <1>7
<1>11. \A g \in gs : g = [cmds |-> g.cmds, val |-> g.val] /\ g.cmds \in Scripts /\ g.val \in Nat
  BY Zenon, <1>3, <1>4, <1>7
<1>12. Started(gs)
  BY Zenon, <1>9, <1>10, <1>11, SpawnStarts
<1> QED
  BY Zenon, <1>10, <1>11, <1>12 DEF Begins

\* A goroutine for the entry writes it and the status.
LEMMA BeginsEntry ==
  ASSUME NEW gs, Begins(gs), NEW g \in gs, g.cmds = <<{Client}, {Device}>>
  PROVE  last'[Client] = g.val /\ last'[Device] = g.val
<1>1. KeysOf(g) = {Client, Device}
  BY Zenon, ScriptKeys DEF Begins
<1> QED
  BY Zenon, <1>1 DEF Begins, Started

\* A goroutine for rows leaves the entry and the status.
LEMMA BeginsRows ==
  ASSUME NEW gs, Begins(gs),
         \A g \in gs : g.cmds = <<Filters>> \/ \E f \in Filters : g.cmds = <<{f}>>
  PROVE  last'[Client] = last[Client] /\ last'[Device] = last[Device]
<1>1. ASSUME NEW g \in gs PROVE KeysOf(g) \subseteq Filters
  <2>1. g.cmds \in Scripts
    BY Zenon DEF Begins
  <2>2. CASE g.cmds = <<Filters>>
    BY Zenon, <2>1, <2>2, ScriptKeys
  <2>3. ASSUME NEW f \in Filters, g.cmds = <<{f}>> PROVE KeysOf(g) \subseteq Filters
    <3>1. KeysOf(g) = {f}
      BY Zenon, <2>1, <2>3, ScriptKeys
    <3> QED
      BY Zenon, <3>1
  <2> QED
    BY Zenon, <2>2, <2>3
<1>2. \A k \in {Client, Device} : k \in Keys /\ ~\E g \in gs : k \in KeysOf(g)
  BY Zenon, <1>1, KeysApart
<1> QED
  BY Zenon, <1>2 DEF Begins, Started

\* What each step that starts goroutines starts.
LEMMA ConnectBegins ==
  ASSUME TypeInv, NEW k \in Kinds, Connect(k)
  PROVE  /\ Begins({Go(<<{Client}, {Device}>>, conns')}) /\ conns' = conns + 1
         /\ last'[Client] = conns' /\ last'[Device] = conns'
<1>1. conns' = conns + 1 /\ Spawn({Go(<<{Client}, {Device}>>, conns')})
  BY Zenon DEF Connect, NewConn
<1>2. conns' \in Nat
  BY <1>1 DEF TypeInv
<1>3. <<{Client}, {Device}>> \in Scripts
  BY Zenon DEF Scripts
<1>4. Begins({Go(<<{Client}, {Device}>>, conns')})
  BY Zenon, <1>1, <1>2, <1>3, BeginsOne
<1>5. PICK g : g = Go(<<{Client}, {Device}>>, conns')
  OBVIOUS
<1>6. g.cmds = <<{Client}, {Device}>> /\ g.val = conns'
  BY Zenon, <1>5, GoIs
<1>7. Begins({g}) /\ g \in {g}
  BY Zenon, <1>4, <1>5
<1>8. last'[Client] = g.val /\ last'[Device] = g.val
  BY Zenon, <1>6, <1>7, BeginsEntry
<1> QED
  BY Zenon, <1>1, <1>4, <1>6, <1>8

\* What cleanup starts, also for a CONNECT that is refused.
LEMMA CleanupBegins ==
  ASSUME TypeInv,
         \/ ConnectRefused \/ \E c \in alive, zero \in BOOLEAN : cleanup(c, zero)
  PROVE  last'[Client] = 0 /\ last'[Device] = 0 /\ \E gs : Begins(gs)
<1>1. PICK gs : (gs = {DelClient} \/ gs = {DelClient} \cup DeleteAllSubs) /\ Spawn(gs)
  <2>1. CASE ConnectRefused
    BY Zenon, <2>1 DEF ConnectRefused
  <2>2. ASSUME NEW c, NEW zero, cleanup(c, zero)
        PROVE  Spawn({DelClient}) \/ Spawn({DelClient} \cup DeleteAllSubs)
    <3>1. CASE kind[c] = "keep" /\ zero
      BY Zenon, <2>2, <3>1 DEF cleanup
    <3>2. CASE ~(kind[c] = "keep" /\ zero)
      <4>1. Spawn({DelClient} \cup {})
        BY Zenon, <2>2, <3>2 DEF cleanup
      <4>2. {DelClient} \cup {} = {DelClient}
        BY Zenon
      <4> QED
        BY Zenon, <4>1, <4>2
    <3> QED
      BY Zenon, <3>1, <3>2
  <2> QED
    BY Zenon, <2>1, <2>2
<1>2. Begins(gs) /\ DelClient \in gs
  BY Zenon, <1>1, BeginsCleanup
<1>3. DelClient.cmds = <<{Client}, {Device}>> /\ DelClient.val = 0
  BY Zenon, GoIs DEF DelClient
<1> QED
  BY Zenon, <1>2, <1>3, BeginsEntry

\* What a purge of the sweep and a change of a subscription start, if anything.
LEMMA RowsBegin ==
  ASSUME TypeInv,
         \/ PurgePersistentSession
         \/ \E c \in alive, f \in Filters : handleSubscribe(c, f) \/ handleUnsubscribe(c, f)
         \/ \E f \in Filters : handleSubscribeAPI(f)
  PROVE  /\ last'[Client] = last[Client] /\ last'[Device] = last[Device]
         /\ UNCHANGED outVars \/ \E gs : Begins(gs)
<1>0. 0 \in Nat /\ 1 \in Nat
  OBVIOUS
<1>1. ASSUME NEW c \in Scripts, NEW v \in Nat, Spawn({Go(c, v)}),
             c = <<Filters>> \/ \E f \in Filters : c = <<{f}>>
      PROVE  /\ last'[Client] = last[Client] /\ last'[Device] = last[Device]
             /\ \E gs : Begins(gs)
  <2>1. Begins({Go(c, v)})
    BY Zenon, <1>1, BeginsOne
  <2>2. \A g \in {Go(c, v)} : g.cmds = <<Filters>> \/ \E f \in Filters : g.cmds = <<{f}>>
    <3>1. Go(c, v).cmds = c
      BY Zenon, GoIs
    <3> QED
      BY Zenon, <1>1, <3>1
  <2> QED
    BY Zenon, <2>1, <2>2, BeginsRows
<1>2. CASE PurgePersistentSession
  <2>1. Spawn({Go(<<Filters>>, 0)}) /\ <<Filters>> \in Scripts
    BY Zenon, <1>2 DEF PurgePersistentSession, DeleteAllSubs, Scripts
  <2> QED
    BY Zenon, <1>0, <1>1, <2>1
<1>3. ASSUME NEW f \in Filters, NEW v \in Nat, Spawn({Go(<<{f}>>, v)})
      PROVE  /\ last'[Client] = last[Client] /\ last'[Device] = last[Device]
             /\ \E gs : Begins(gs)
  <2>1. <<{f}>> \in Scripts
    BY Zenon DEF Scripts
  <2> QED
    BY Zenon, <1>1, <1>3, <2>1
<1>4. UNCHANGED outVars => last' = last
  BY Zenon DEF outVars
<1>5. ASSUME NEW c, NEW f \in Filters, NEW v \in Nat, SpawnRow(c, f, v)
      PROVE  /\ last'[Client] = last[Client] /\ last'[Device] = last[Device]
             /\ UNCHANGED outVars \/ \E gs : Begins(gs)
  BY Zenon, <1>3, <1>4, <1>5 DEF SpawnRow
<1>6. ASSUME NEW c \in alive, NEW f \in Filters, handleSubscribe(c, f) \/ handleUnsubscribe(c, f)
      PROVE  SpawnRow(c, f, 1) \/ SpawnRow(c, f, 0)
  BY Zenon, <1>6 DEF handleSubscribe, handleUnsubscribe
<1>7. ASSUME NEW f \in Filters, handleSubscribeAPI(f) PROVE Spawn({Go(<<{f}>>, 1)})
  BY Zenon, <1>7 DEF handleSubscribeAPI
<1> QED
  BY Zenon, <1>0, <1>2, <1>3, <1>5, <1>6, <1>7

\* What a step does to Redis, PostgreSQL and the goroutines that write to them.
LEMMA OutSteps ==
  ASSUME TypeInv, [Next]_vars
  PROVE  \/ \E gs : Begins(gs)
         \/ UNCHANGED outVars
         \/ handleDeviceCreate \/ handleDeviceDelete
         \/ \E g \in tasks : Execute(g) \/ ExecuteFails(g)
         \/ Restart
<1>1. ASSUME NEW r \in restores, GetSubs(r) \/ GetSubsFails(r) \/ \E f \in Filters : restoreSession(r, f)
      PROVE  UNCHANGED outVars
  BY Zenon, <1>1 DEF GetSubs, GetSubsFails, restoreSession
<1>2. CASE UNCHANGED vars
  BY Zenon, <1>2 DEF vars
<1> QED
  BY Zenon, <1>1, <1>2, ConnectBegins, CleanupBegins, RowsBegin DEF Next

\* The types of what is outside.
OutType ==
  /\ \A g \in tasks : IsTask(g)
  /\ out \in [Keys -> Nat] /\ last \in [Keys -> Nat] /\ sound \in [Keys -> BOOLEAN]
  /\ registered \in BOOLEAN

\* Every step keeps the types of what is outside.
LEMMA OutTypeStep ==
  ASSUME TypeInv, [Next]_vars
  PROVE  OutType'
<1>0. /\ \A g \in tasks : IsTask(g)
      /\ out \in [Keys -> Nat] /\ last \in [Keys -> Nat] /\ sound \in [Keys -> BOOLEAN]
      /\ registered \in BOOLEAN /\ 0 \in Nat
  BY DEF TypeInv
<1>1. ASSUME NEW gs, Begins(gs) PROVE OutType'
  <2>1. \A g \in tasks' : IsTask(g)
    BY Zenon, <1>0, <1>1 DEF Begins, Started
  <2> QED
    BY Zenon, <1>0, <1>1, <2>1 DEF Begins, Started, OutType
<1>2. CASE UNCHANGED outVars
  BY Zenon, <1>0, <1>2 DEF outVars, OutType
<1>3. CASE handleDeviceCreate \/ handleDeviceDelete
  <2>1. tasks' = tasks /\ last' = last /\ registered' \in BOOLEAN
    BY Zenon, <1>3 DEF handleDeviceCreate, handleDeviceDelete, UpsertDevice, DeleteDevice
  <2>2. out' \in [Keys -> Nat]
    BY Zenon, <1>0, <1>3 DEF handleDeviceCreate, handleDeviceDelete, UpsertDevice, DeleteDevice
  <2>3. sound' \in [Keys -> BOOLEAN]
    BY Zenon, <1>0, <1>3 DEF handleDeviceCreate, handleDeviceDelete, UpsertDevice, DeleteDevice
  <2> QED
    BY Zenon, <1>0, <2>1, <2>2, <2>3 DEF OutType
<1>4. ASSUME NEW g \in tasks, Execute(g) \/ ExecuteFails(g) PROVE OutType'
  <2>1. tasks' = (tasks \ {g}) \cup Rest(g) /\ last' = last /\ registered' = registered
    BY Zenon, <1>4 DEF Execute, ExecuteFails
  <2>2. \A h \in tasks' : IsTask(h)
    BY Zenon, <1>0, <2>1, RestOf
  <2>3. out' \in [Keys -> Nat]
    <3>1. g.val \in Nat
      BY Zenon, <1>0 DEF IsTask
    <3> QED
      BY Zenon, <1>0, <1>4, <3>1 DEF Execute, ExecuteFails
  <2>4. sound' \in [Keys -> BOOLEAN]
    BY Zenon, <1>0, <1>4 DEF Execute, ExecuteFails
  <2> QED
    BY Zenon, <1>0, <2>1, <2>2, <2>3, <2>4 DEF OutType
<1>5. CASE Restart
  <2>1. tasks' = {} /\ last' = last /\ registered' = registered /\ out' = out
    BY Zenon, <1>5 DEF Restart
  <2>2. sound' \in [Keys -> BOOLEAN]
    <3>1. \A k \in Keys : Settled(k) \in BOOLEAN
      BY Zenon, <1>0 DEF Settled
    <3> QED
      BY Zenon, <1>5, <3>1 DEF Restart
  <2> QED
    BY Zenon, <1>0, <2>1, <2>2 DEF OutType
<1> QED
  BY Zenon, <1>1, <1>2, <1>3, <1>4, <1>5, OutSteps

\* The steps.
LEMMA Steps ==
  ASSUME [Next]_vars
  PROVE  \/ \E k \in Kinds : Connect(k)
         \/ ConnectRefused
         \/ \E c \in alive, zero \in BOOLEAN : cleanup(c, zero)
         \/ PurgePersistentSession
         \/ \E c \in alive, f \in Filters : handleSubscribe(c, f) \/ handleUnsubscribe(c, f)
         \/ \E f \in Filters : handleSubscribeAPI(f)
         \/ handleDeviceCreate \/ handleDeviceDelete
         \/ \E r \in restores : GetSubs(r) \/ GetSubsFails(r) \/ \E f \in Filters : restoreSession(r, f)
         \/ \E g \in tasks : Execute(g) \/ ExecuteFails(g)
         \/ Restart \/ UNCHANGED vars
BY Zenon DEF Next

\* The steps that leave connections, the router and its restores alone.
Aside ==
  \/ \E f \in Filters : handleSubscribeAPI(f)
  \/ handleDeviceCreate \/ handleDeviceDelete
  \/ \E g \in tasks : Execute(g) \/ ExecuteFails(g)
  \/ UNCHANGED vars

\* They do.
LEMMA AsideKeeps ==
  ASSUME Aside
  PROVE  UNCHANGED <<conn, kind, alive, stored, taken, subs, restores, fresh, conns>>
BY Zenon DEF Aside, handleSubscribeAPI, handleDeviceCreate, handleDeviceDelete, Execute, ExecuteFails,
  Change, Fault, vars, connVars, counters

\* Every step keeps the types.
LEMMA TypeStep ==
  ASSUME TypeInv, [Next]_vars
  PROVE  TypeInv'
<1> DEFINE Inner == /\ taken \in BOOLEAN /\ subs \in [Filters -> Nat] /\ fresh \subseteq Filters
                 /\ conns \in Nat /\ conn \in Nat /\ alive \subseteq Nat \ {0}
                 /\ restores \subseteq RestoreSet
<1>0. Inner /\ 0 \in Nat /\ {} \subseteq Filters
  BY DEF TypeInv
<1>a. [f \in Filters |-> 0] \in [Filters -> Nat]
  BY Zenon, <1>0
<1>s. ASSUME Inner' PROVE TypeInv'
  BY Zenon, <1>s, OutTypeStep DEF OutType, TypeInv
<1>1. ASSUME NEW k \in Kinds, Connect(k) PROVE Inner'
  <2>1. /\ conn' = conns' /\ alive' = alive \cup {conns'} /\ taken' = (alive # {}) /\ fresh' = {} /\ subs' = subs
        /\ restores' \subseteq restores \cup {[conn |-> conns', pc |-> "query", todo |-> {}]}
    BY Zenon, <1>1 DEF Connect
  <2>2. conns' = conns + 1
    BY Zenon, <1>1, ConnectBegins
  <2>3. conns' \in Nat \ {0}
    BY <1>0, <2>2
  <2>4. [conn |-> conns', pc |-> "query", todo |-> {}] \in RestoreSet
    BY Zenon, <1>0, <2>3 DEF RestoreSet
  <2>5. restores' \subseteq RestoreSet
    BY Zenon, <1>0, <2>1, <2>4
  <2> QED
    BY Zenon, <1>0, <2>1, <2>3, <2>5
<1>2. ASSUME ConnectRefused PROVE Inner'
  <2>1. UNCHANGED <<conn, alive, subs, restores, fresh>> /\ taken' = (taken \/ alive # {}) /\ conns' = conns + 1
    BY Zenon, <1>2 DEF ConnectRefused, NewConn
  <2>2. conns' \in Nat /\ taken' \in BOOLEAN
    BY <1>0, <2>1
  <2> QED
    BY Zenon, <1>0, <2>1, <2>2
<1>3. ASSUME NEW c \in alive, NEW zero \in BOOLEAN, cleanup(c, zero) PROVE Inner'
  <2>1. /\ UNCHANGED <<taken, restores, fresh, conns>> /\ alive' \subseteq alive /\ conn' \in {0, conn}
        /\ subs' = subs \/ subs' = [f \in Filters |-> 0]
    BY Zenon, <1>3 DEF cleanup, counters
  <2> QED
    BY Zenon, <1>0, <1>a, <2>1
<1>4. ASSUME PurgePersistentSession PROVE Inner'
  <2>1. UNCHANGED <<conn, alive, taken, restores, fresh, conns>> /\ subs' = [f \in Filters |-> 0]
    BY Zenon, <1>4 DEF PurgePersistentSession, Change
  <2> QED
    BY Zenon, <1>0, <1>a, <2>1
<1>5. ASSUME NEW c \in alive, NEW f \in Filters, handleSubscribe(c, f) \/ handleUnsubscribe(c, f) PROVE Inner'
  <2>1. /\ UNCHANGED <<conn, alive, taken, restores, conns>> /\ fresh' \subseteq fresh
        /\ subs' = [subs EXCEPT ![f] = c] \/ subs' = [subs EXCEPT ![f] = 0]
    BY Zenon, <1>5 DEF handleSubscribe, handleUnsubscribe, connVars, Change
  <2>2. subs' \in [Filters -> Nat]
    <3>1. c \in Nat
      BY Zenon, <1>0
    <3> QED
      BY Zenon, <1>0, <2>1, <3>1
  <2> QED
    BY Zenon, <1>0, <2>1, <2>2
<1>6. ASSUME NEW r \in restores, GetSubs(r) \/ GetSubsFails(r) PROVE Inner'
  <2>1. UNCHANGED <<conn, alive, taken, subs, conns>>
    BY Zenon, <1>6 DEF GetSubs, GetSubsFails, connVars, counters, Fault
  <2>2. fresh' \subseteq Filters
    BY Zenon, <1>0, <1>6 DEF GetSubs, GetSubsFails
  <2>3. restores' \subseteq RestoreSet
    <3>1. \A R : R \subseteq Filters => [r EXCEPT !.pc = "apply", !.todo = R] \in RestoreSet
      BY Zenon, <1>0 DEF RestoreSet
    <3>2. CASE GetSubsFails(r)
      BY Zenon, <1>0, <3>2 DEF GetSubsFails
    <3>3. CASE GetSubs(r)
      <4> DEFINE rows == {f \in Filters : out[f] # 0}
      <4>1. rows \subseteq Filters
        BY Zenon
      <4>2. restores' \subseteq restores \cup {[r EXCEPT !.pc = "apply", !.todo = rows]}
        BY Zenon, <3>3 DEF GetSubs
      <4> HIDE DEF rows
      <4> QED
        BY Zenon, <1>0, <3>1, <4>1, <4>2
    <3> QED
      BY Zenon, <1>6, <3>2, <3>3
  <2> QED
    BY Zenon, <1>0, <2>1, <2>2, <2>3
<1>7. ASSUME NEW r \in restores, NEW f \in Filters, restoreSession(r, f) PROVE Inner'
  <2>1. UNCHANGED <<conn, alive, taken, fresh, conns>> /\ subs' = [subs EXCEPT ![f] = r.conn]
    BY Zenon, <1>7 DEF restoreSession, connVars, counters
  <2>2. r.conn \in Nat /\ [r EXCEPT !.todo = @ \ {f}] \in RestoreSet
    BY <1>0 DEF RestoreSet
  <2>3. subs' \in [Filters -> Nat]
    BY Zenon, <1>0, <2>1, <2>2
  <2>4. restores' \subseteq RestoreSet
    BY Zenon, <1>0, <1>7, <2>2 DEF restoreSession
  <2> QED
    BY Zenon, <1>0, <2>1, <2>3, <2>4
<1>8. ASSUME Restart PROVE Inner'
  <2>1. /\ conn' = 0 /\ alive' = {} /\ taken' = TRUE /\ subs' = [f \in Filters |-> 0] /\ restores' = {}
        /\ fresh' = {} /\ conns' = conns
    BY Zenon, <1>8 DEF Restart, Fault
  <2> QED
    BY Zenon, <1>0, <1>a, <2>1
<1>9. ASSUME Aside PROVE Inner'
  <2> QED
    BY Zenon, <1>0, <1>9, AsideKeeps
<1> HIDE DEF Inner
<1> QED
  BY Zenon, <1>s, <1>1, <1>2, <1>3, <1>4, <1>5, <1>6, <1>7, <1>8, <1>9, Steps DEF Aside

----------------------------------------------------------------------------
(* Writes. *)

\* A goroutine runs or fails its next command: the keys it still is to write, and who
\* else writes them.
LEMMA Ran ==
  ASSUME TypeInv, NEW g \in tasks, tasks' = (tasks \ {g}) \cup Rest(g), NEW k \in Keys
  PROVE  /\ \A t \in tasks' : k \in KeysOf(t) =>
              \/ t \in tasks
              \/ t \in Rest(g) /\ t.val = g.val /\ k \in KeysOf(g) /\ k \notin Head(g.cmds)
         /\ k \notin Head(g.cmds) => (Pending(k)' <=> Pending(k))
         /\ Pending(k)' => Pending(k)
<1>0. IsTask(g)
  BY Zenon DEF TypeInv
<1>1. \A h \in Rest(g) : h.val = g.val /\ KeysOf(h) = KeysOf(g) \ Head(g.cmds)
  BY Zenon, <1>0, RestOf
<1>2. k \in KeysOf(g) /\ k \notin Head(g.cmds) => \E h \in Rest(g) : k \in KeysOf(h)
  <2>1. k \in KeysOf(g) \ Head(g.cmds) => Rest(g) # {}
    BY Zenon, <1>0, RestOf
  <2> QED
    BY Zenon, <1>1, <2>1
<1>3. ASSUME NEW t \in tasks', k \in KeysOf(t)
      PROVE  \/ t \in tasks
             \/ t \in Rest(g) /\ t.val = g.val /\ k \in KeysOf(g) /\ k \notin Head(g.cmds)
  BY Zenon, <1>1, <1>3
<1>4. Pending(k)' => Pending(k)
  BY Zenon, <1>3 DEF Pending
<1>5. ASSUME k \notin Head(g.cmds), Pending(k) PROVE Pending(k)'
  BY Zenon, <1>2, <1>5 DEF Pending
<1> QED
  BY Zenon, <1>3, <1>4, <1>5

\* A sound write that a goroutine still is to make is alone after it ran another.
LEMMA RanAlone ==
  ASSUME TypeInv, NEW g \in tasks, tasks' = (tasks \ {g}) \cup Rest(g), last' = last,
         NEW k \in Keys, \A t \in tasks : k \in KeysOf(t) => Alone(t, k),
         NEW t \in tasks', k \in KeysOf(t)
  PROVE  Alone(t, k)'
<1>0. \A h, i \in Rest(g) : h = i
  BY Zenon, RestOf DEF TypeInv
<1>1. \A u \in tasks' : k \in KeysOf(u) =>
        \/ u \in tasks \ {g}
        \/ u \in Rest(g) /\ u.val = g.val /\ k \in KeysOf(g)
  BY Zenon, Ran
<1>2. t.val = last'[k]
  <2>1. CASE t \in tasks \ {g}
    BY Zenon, <2>1 DEF Alone
  <2>2. CASE t.val = g.val /\ k \in KeysOf(g)
    BY Zenon, <2>2 DEF Alone
  <2> QED
    BY Zenon, <1>1, <2>1, <2>2
<1>3. ASSUME NEW u \in tasks', k \in KeysOf(u) PROVE u = t
  <2>1. CASE t \in tasks \ {g}
    BY Zenon, <1>1, <1>3, <2>1 DEF Alone
  <2>2. CASE t \in Rest(g) /\ k \in KeysOf(g)
    BY Zenon, <1>0, <1>1, <1>3, <2>2 DEF Alone
  <2> QED
    BY Zenon, <1>1, <2>1, <2>2
<1> QED
  BY Zenon, <1>2, <1>3 DEF Alone

\* Every step keeps what is known of a write.
LEMMA WriteStep ==
  ASSUME TypeInv, [Next]_vars, NEW k \in Keys, WriteInv(k)
  PROVE  WriteInv(k)'
<1>0. /\ out \in [Keys -> Nat] /\ last \in [Keys -> Nat] /\ sound \in [Keys -> BOOLEAN]
      /\ Device \in Keys
  BY Zenon, KeysApart DEF TypeInv
<1>1. ASSUME NEW gs, Begins(gs) PROVE WriteInv(k)'
  BY Zenon, <1>1, StartedKeeps DEF Begins
<1>2. CASE UNCHANGED outVars
  BY Zenon, <1>2 DEF outVars, WriteInv, Alone, Pending, Landed
<1>3. CASE handleDeviceCreate
  <2>1. tasks' = tasks /\ last' = last /\ UpsertDevice
    BY Zenon, <1>3 DEF handleDeviceCreate
  <2>2. CASE registered \/ k # Device
    <3>1. out'[k] = out[k] /\ sound'[k] = sound[k]
      BY Zenon, <1>0, <2>1, <2>2 DEF UpsertDevice
    <3>2. Landed(k)' => Landed(k)
      BY Zenon, <2>2 DEF Landed
    <3> QED
      BY Zenon, <2>1, <3>1, <3>2 DEF WriteInv, Alone, Pending
  <2>3. CASE ~registered /\ k = Device
    <3>1. out'[k] = 0 /\ (sound'[k] <=> ~Pending(k) /\ last[k] = 0)
      BY Zenon, <1>0, <2>1, <2>3 DEF UpsertDevice
    <3> QED
      BY Zenon, <2>1, <3>1 DEF WriteInv, Pending
  <2> QED
    BY Zenon, <2>2, <2>3
<1>4. CASE handleDeviceDelete
  <2>1. tasks' = tasks /\ last' = last /\ DeleteDevice
    BY Zenon, <1>4 DEF handleDeviceDelete
  <2>2. CASE k # Device
    <3>1. out'[k] = out[k] /\ sound'[k] = sound[k]
      BY Zenon, <1>0, <2>1, <2>2 DEF DeleteDevice
    <3>2. Landed(k)
      BY Zenon, <2>2 DEF Landed
    <3> QED
      BY Zenon, <2>1, <3>1, <3>2 DEF WriteInv, Alone, Pending
  <2>3. CASE k = Device
    BY Zenon, <1>0, <2>1, <2>3 DEF DeleteDevice, WriteInv
  <2> QED
    BY Zenon, <2>2, <2>3
<1>5. ASSUME NEW g \in tasks, Execute(g) PROVE WriteInv(k)'
  <2>1. /\ tasks' = (tasks \ {g}) \cup Rest(g) /\ last' = last /\ sound' = sound /\ registered' = registered
        /\ out'[k] = IF k \in Head(g.cmds) /\ Landed(k) THEN g.val ELSE out[k]
    BY Zenon, <1>5 DEF Execute
  <2>2. ASSUME sound[k], NEW t \in tasks', k \in KeysOf(t) PROVE Alone(t, k)'
    BY Zenon, <2>1, <2>2, RanAlone DEF WriteInv
  <2>3. ASSUME sound[k], ~Pending(k)', Landed(k)' PROVE out'[k] = last[k]
    <3>1. Landed(k)
      BY Zenon, <2>1, <2>3 DEF Landed
    <3>2. CASE k \in Head(g.cmds)
      <4>1. k \in KeysOf(g)
        BY Zenon, <3>2, RestOf DEF TypeInv
      <4>2. g.val = last[k]
        BY Zenon, <2>3, <4>1 DEF WriteInv, Alone
      <4> QED
        BY Zenon, <2>1, <3>1, <3>2, <4>2
    <3>3. CASE k \notin Head(g.cmds)
      <4>1. ~Pending(k)
        BY Zenon, <2>1, <2>3, <3>3, Ran
      <4> QED
        BY Zenon, <2>1, <2>3, <3>1, <3>3, <4>1 DEF WriteInv
    <3> QED
      BY Zenon, <3>2, <3>3
  <2> QED
    BY Zenon, <2>1, <2>2, <2>3 DEF WriteInv
<1>6. ASSUME NEW g \in tasks, ExecuteFails(g) PROVE WriteInv(k)'
  <2>1. /\ tasks' = (tasks \ {g}) \cup Rest(g) /\ last' = last /\ out' = out /\ registered' = registered
        /\ sound'[k] <=> sound[k] /\ k \notin Head(g.cmds)
    BY Zenon, <1>6 DEF ExecuteFails
  <2>2. ASSUME sound[k], NEW t \in tasks', k \in KeysOf(t) PROVE Alone(t, k)'
    BY Zenon, <2>1, <2>2, RanAlone DEF WriteInv
  <2>3. k \notin Head(g.cmds) => (Pending(k)' <=> Pending(k))
    BY Zenon, <2>1, Ran
  <2>4. Landed(k)' <=> Landed(k)
    BY Zenon, <2>1 DEF Landed
  <2> QED
    BY Zenon, <2>1, <2>2, <2>3, <2>4 DEF WriteInv
<1>7. CASE Restart
  <2>1. tasks' = {} /\ last' = last /\ out' = out /\ registered' = registered /\ (sound'[k] <=> Settled(k))
    BY Zenon, <1>7 DEF Restart
  <2>2. Landed(k)' <=> Landed(k)
    BY Zenon, <2>1 DEF Landed
  <2> QED
    BY Zenon, <2>1, <2>2 DEF WriteInv, Settled
<1> QED
  BY Zenon, <1>1, <1>2, <1>3, <1>4, <1>5, <1>6, <1>7, OutSteps

----------------------------------------------------------------------------
(* Entries and restores. *)

\* Every step keeps the last write of the entry and of the status that of the connection.
LEMMA EntryStep ==
  ASSUME TypeInv, [Next]_vars, EntryInv
  PROVE  EntryInv'
<1>0. taken \in BOOLEAN /\ conns \in Nat
  BY Zenon DEF TypeInv
<1>1. ASSUME NEW k \in Kinds, Connect(k) PROVE EntryInv'
  <2>1. last'[Client] = conns' /\ last'[Device] = conns' /\ conns' = conns + 1
    BY Zenon, <1>1, ConnectBegins
  <2>2. conn' = conns' /\ alive' = alive \cup {conns'} /\ taken' = (alive # {})
    BY Zenon, <1>1 DEF Connect
  <2>3. conns' # 0
    BY <1>0, <2>1
  <2>4. ~taken' => alive' = {conn'}
    BY Zenon, <2>2
  <2> QED
    BY Zenon, <2>1, <2>2, <2>3, <2>4 DEF EntryInv
<1>2. CASE ConnectRefused
  <2>1. last'[Client] = 0 /\ last'[Device] = 0
    BY Zenon, <1>2, CleanupBegins
  <2>2. conn' = conn /\ alive' = alive /\ taken' = (taken \/ alive # {})
    BY Zenon, <1>2 DEF ConnectRefused
  <2>3. ~taken' => ~taken /\ alive = {}
    BY Zenon, <2>2
  <2>4. ~taken' => conn = 0
    BY Zenon, <2>3 DEF EntryInv
  <2> QED
    BY Zenon, <2>1, <2>2, <2>3, <2>4 DEF EntryInv
<1>3. ASSUME NEW c \in alive, NEW zero \in BOOLEAN, cleanup(c, zero) PROVE EntryInv'
  <2>1. last'[Client] = 0 /\ last'[Device] = 0
    BY Zenon, <1>3, CleanupBegins
  <2>2. alive' = alive \ {c} /\ conn' = (IF conn = c THEN 0 ELSE conn) /\ taken' = taken
    BY Zenon, <1>3 DEF cleanup
  <2>3. ~taken => conn = c /\ alive = {c}
    BY Zenon DEF EntryInv
  <2>4. ~taken => conn' = 0 /\ alive' = {}
    BY Zenon, <2>2, <2>3
  <2> QED
    BY Zenon, <2>1, <2>2, <2>4 DEF EntryInv
<1>4. CASE \/ PurgePersistentSession
           \/ \E c \in alive, f \in Filters : handleSubscribe(c, f) \/ handleUnsubscribe(c, f)
           \/ \E f \in Filters : handleSubscribeAPI(f)
  <2>1. last'[Client] = last[Client] /\ last'[Device] = last[Device]
    BY Zenon, <1>4, RowsBegin
  <2>2. conn' = conn /\ alive' = alive /\ taken' = taken
    BY Zenon, <1>4 DEF PurgePersistentSession, handleSubscribe, handleUnsubscribe, handleSubscribeAPI, connVars
  <2> QED
    BY Zenon, <2>1, <2>2 DEF EntryInv
<1>5. CASE \/ handleDeviceCreate \/ handleDeviceDelete
           \/ \E r \in restores : GetSubs(r) \/ GetSubsFails(r) \/ \E f \in Filters : restoreSession(r, f)
           \/ \E g \in tasks : Execute(g) \/ ExecuteFails(g)
           \/ UNCHANGED vars
  <2>1. conn' = conn /\ alive' = alive /\ taken' = taken /\ last' = last
    BY Zenon, <1>5 DEF handleDeviceCreate, handleDeviceDelete, GetSubs, GetSubsFails, restoreSession, Execute,
      ExecuteFails, connVars, outVars, vars
  <2> QED
    BY Zenon, <2>1 DEF EntryInv
<1>6. CASE Restart
  BY Zenon, <1>6 DEF Restart, EntryInv
<1> QED
  BY Zenon, <1>1, <1>2, <1>3, <1>4, <1>5, <1>6, Steps

\* A restore that has read the rows is to apply every row that is settled.
LEMMA GetSubsRestores ==
  ASSUME TypeInv, \A k \in Keys : WriteInv(k), NEW r \in restores, GetSubs(r)
  PROVE  RestoreInv'
<1> DEFINE rows == {f \in Filters : out[f] # 0}
           r2 == [r EXCEPT !.pc = "apply", !.todo = rows]
<1>1. /\ restores' = (restores \ {r}) \cup (IF rows = {} THEN {} ELSE {r2})
      /\ conn' = conn /\ subs' = subs
  BY Zenon DEF GetSubs, connVars
<1>2. r2.conn = r.conn /\ r2.pc = "apply" /\ r2.todo = rows
  BY DEF TypeInv, RestoreSet
<1> HIDE DEF r2
<1> SUFFICES ASSUME NEW f \in fresh'
             PROVE  /\ \A q \in restores' : q.conn = conn' /\ q.pc = "apply"
                    /\ subs'[f] \in {0, conn'} \/ \E q \in restores' : f \in q.todo
  BY Zenon DEF RestoreInv
<1>3. r.conn = conn /\ restores = {r} /\ f \in Filters /\ Settled(f) /\ (subs[f] # 0 => last[f] # 0)
  BY Zenon DEF GetSubs
<1>4. \A q \in restores' : q.conn = conn' /\ q.pc = "apply"
  BY Zenon, <1>1, <1>2, <1>3
<1>5. ASSUME subs[f] # 0 PROVE \E q \in restores' : f \in q.todo
  <2>1. f \in Keys /\ f # Device
    BY Zenon, <1>3, KeysApart
  <2>2. out[f] = last[f]
    BY Zenon, <1>3, <2>1 DEF WriteInv, Settled, Landed
  <2>3. f \in rows
    BY Zenon, <1>3, <1>5, <2>2
  <2>4. r2 \in restores'
    BY Zenon, <1>1, <2>3
  <2> HIDE DEF rows
  <2> QED
    BY Zenon, <1>2, <2>3, <2>4
<1> QED
  BY Zenon, <1>1, <1>4, <1>5

\* Every step keeps what a restore is to apply.
LEMMA RestoreStep ==
  ASSUME TypeInv, [Next]_vars, \A k \in Keys : WriteInv(k), RestoreInv
  PROVE  RestoreInv'
<1>0. subs \in [Filters -> Nat] /\ restores \subseteq RestoreSet /\ fresh \subseteq Filters
  BY Zenon DEF TypeInv
<1>1. CASE fresh' = {}
  BY Zenon, <1>1 DEF RestoreInv
<1>2. ASSUME NEW c \in alive, NEW zero \in BOOLEAN, cleanup(c, zero) PROVE RestoreInv'
  <2>1. /\ conn' = 0 \/ conn' = conn
        /\ restores' = restores /\ fresh' = fresh
        /\ subs' = subs \/ subs' = [f \in Filters |-> 0]
    BY Zenon, <1>2 DEF cleanup
  <2>2. \A f \in fresh : subs'[f] = subs[f] \/ subs'[f] = 0
    BY Zenon, <1>0, <2>1
  <2> QED
    BY Zenon, <2>1, <2>2 DEF RestoreInv
<1>3. CASE PurgePersistentSession
  <2>1. conn' = conn /\ restores' = restores /\ fresh' = fresh /\ subs' = [f \in Filters |-> 0]
    BY Zenon, <1>3 DEF PurgePersistentSession
  <2>2. \A f \in fresh : subs'[f] = 0
    BY Zenon, <1>0, <2>1
  <2> QED
    BY Zenon, <2>1, <2>2 DEF RestoreInv
<1>4. ASSUME NEW c \in alive, NEW e \in Filters, handleSubscribe(c, e) \/ handleUnsubscribe(c, e)
      PROVE  RestoreInv'
  <2>1. conn' = conn /\ restores' = restores /\ fresh' \subseteq fresh
    BY Zenon, <1>4 DEF handleSubscribe, handleUnsubscribe, connVars
  <2>2. \A f \in fresh' : subs'[f] = subs[f] \/ subs'[f] \in {0, conn}
    <3>1. CASE handleSubscribe(c, e)
      <4>1. subs' = [subs EXCEPT ![e] = c] /\ (c # conn => e \notin fresh')
        BY Zenon, <3>1 DEF handleSubscribe
      <4> QED
        BY Zenon, <1>0, <2>1, <4>1
    <3>2. CASE handleUnsubscribe(c, e)
      <4>1. subs' = [subs EXCEPT ![e] = 0]
        BY Zenon, <3>2 DEF handleUnsubscribe
      <4> QED
        BY Zenon, <1>0, <2>1, <4>1
    <3> QED
      BY Zenon, <1>4, <3>1, <3>2
  <2> QED
    BY Zenon, <2>1, <2>2 DEF RestoreInv
<1>5. ASSUME NEW r \in restores, GetSubsFails(r) PROVE RestoreInv'
  <2>1. /\ conn' = conn /\ restores' = restores \ {r} /\ fresh' = fresh /\ subs' = subs /\ r.pc = "query"
    BY Zenon, <1>5 DEF GetSubsFails, connVars
  <2>2. r.pc # "apply"
    BY <2>1
  <2> QED
    BY Zenon, <2>1, <2>2 DEF RestoreInv
<1>6. ASSUME NEW r \in restores, NEW e \in Filters, restoreSession(r, e) PROVE RestoreInv'
  <2> DEFINE r2 == [r EXCEPT !.todo = @ \ {e}]
  <2>1. /\ conn' = conn /\ fresh' = fresh /\ subs' = [subs EXCEPT ![e] = r.conn] /\ r.pc = "apply"
        /\ restores' = (restores \ {r}) \cup (IF r.todo = {e} THEN {} ELSE {r2})
        /\ e \in r.todo
    BY Zenon, <1>6 DEF restoreSession, connVars
  <2>2. r2.conn = r.conn /\ r2.pc = r.pc /\ r2.todo = r.todo \ {e}
    BY <1>0 DEF RestoreSet
  <2> HIDE DEF r2
  <2> SUFFICES ASSUME conn # 0, NEW f \in fresh
               PROVE  /\ \A q \in restores' : q.conn = conn /\ q.pc = "apply"
                      /\ subs'[f] \in {0, conn} \/ \E q \in restores' : f \in q.todo
    BY Zenon, <2>1 DEF RestoreInv
  <2>3. /\ \A q \in restores : q.conn = conn /\ q.pc = "apply"
        /\ subs[f] \in {0, conn} \/ \E q \in restores : f \in q.todo
    BY Zenon DEF RestoreInv
  <2>4. \A q \in restores' : q.conn = conn /\ q.pc = "apply"
    BY Zenon, <2>1, <2>2, <2>3
  <2>5. CASE f = e
    <3>1. subs'[f] = conn
      BY Zenon, <1>0, <2>1, <2>3, <2>5
    <3> QED
      BY Zenon, <2>4, <3>1
  <2>6. CASE f # e
    <3>1. subs'[f] = subs[f]
      BY Zenon, <1>0, <2>1, <2>6
    <3>2. ASSUME NEW q \in restores, f \in q.todo PROVE \E p \in restores' : f \in p.todo
      <4>1. CASE q = r
        <5>1. r2 \in restores' /\ f \in r2.todo
          BY Zenon, <2>1, <2>2, <2>6, <3>2, <4>1
        <5> QED
          BY Zenon, <5>1
      <4>2. CASE q # r
        BY Zenon, <2>1, <3>2, <4>2
      <4> QED
        BY Zenon, <4>1, <4>2
    <3> QED
      BY Zenon, <2>3, <2>4, <3>1, <3>2
  <2> QED
    BY Zenon, <2>5, <2>6
<1>7. CASE Aside
  BY Zenon, <1>7, AsideKeeps DEF RestoreInv
<1>8. CASE ConnectRefused
  <2>1. conn' = conn /\ restores' = restores /\ fresh' = fresh /\ subs' = subs
    BY Zenon, <1>8 DEF ConnectRefused
  <2> QED
    BY Zenon, <2>1 DEF RestoreInv
<1>9. (Restart \/ \E k \in Kinds : Connect(k)) => fresh' = {}
  BY Zenon DEF Restart, Connect
<1> QED
  BY Zenon, <1>1, <1>2, <1>3, <1>4, <1>5, <1>6, <1>7, <1>8, <1>9, GetSubsRestores, Steps DEF Aside

----------------------------------------------------------------------------
(* Theorems. *)

\* The broker starts with no connection, no row and nothing to write.
LEMMA InitInv ==
  ASSUME Init
  PROVE  Inv
<1>0. 0 \in Nat
  OBVIOUS
<1>1. TypeInv
  <2>1. /\ tasks = {} /\ out = [k \in Keys |-> 0] /\ last = [k \in Keys |-> 0] /\ sound = [k \in Keys |-> TRUE]
        /\ registered \in BOOLEAN /\ taken = FALSE /\ subs = [f \in Filters |-> 0] /\ fresh = {}
        /\ conns = 0 /\ conn = 0 /\ alive = {} /\ restores = {}
    BY Zenon DEF Init
  <2> QED
    BY Zenon, <1>0, <2>1 DEF TypeInv
<1>2. ASSUME NEW k \in Keys PROVE WriteInv(k)
  BY Zenon DEF Init, WriteInv
<1>3. EntryInv
  BY Zenon, KeysApart DEF Init, EntryInv
<1>4. RestoreInv
  BY Zenon DEF Init, RestoreInv
<1> QED
  BY Zenon, <1>1, <1>2, <1>3, <1>4 DEF Inv

\* The inductive invariant of what is kept of a client outside the broker: a sound write is
\* alone until it lands, the entry was written last by the only connection, and a restore
\* is to apply every settled row that the router still has for an earlier connection.
THEOREM DurableInvariant == Spec => []Inv
<1>1. Init => Inv
  BY Zenon, InitInv
<1>2. Inv /\ [Next]_vars => Inv'
  BY Zenon, TypeStep, WriteStep, EntryStep, RestoreStep DEF Inv
<1> QED
  BY <1>1, <1>2, PTL DEF Spec

\* A write of the goroutines of handleConnect, cleanup, handleSubscribe, handleUnsubscribe,
\* PurgePersistentSession or the API that ran alone has landed, whatever purges, crashes
\* and failed commands there were before and after.
THEOREM WritesDoLand == Spec => []WritesLand
<1>1. Inv => WritesLand
  BY Zenon DEF Inv, WriteInv, Settled, WritesLand
<1> QED
  BY <1>1, DurableInvariant, PTL

\* As long as connections do not overlap, SetClient, DelClient and SetDeviceStatus leave the
\* entry and the status of the present connection.
THEOREM EntryIsTruthful == Spec => []EntryTruthful
<1>1. Inv => EntryTruthful
  BY Zenon, KeysApart DEF Inv, WriteInv, EntryInv, Settled, EntryTruthful
<1> QED
  BY <1>1, DurableInvariant, PTL

\* After restoreSession the router serves the present connection what settled rows say.
THEOREM ResumedDoDeliver == Spec => []ResumedDeliver
<1>1. Inv => ResumedDeliver
  BY Zenon DEF Inv, RestoreInv, ResumedDeliver
<1> QED
  BY <1>1, DurableInvariant, PTL

=============================================================================
