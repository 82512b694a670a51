------------------------------ MODULE Durable ------------------------------
(***************************************************************************)
(* What the broker keeps of one client outside its memory: its entry in    *)
(* the client hash of Redis, its device status and the subscriptions of    *)
(* its persistent sessions in PostgreSQL, and restoreSession, which reads  *)
(* the subscriptions back.  Every write is left to a goroutine, whose      *)
(* errors nobody reads: goroutines overtake each other, a connection that  *)
(* was taken over cleans up late, and a crash takes what is not written.   *)
(* The API creates and deletes the device and writes rows meanwhile.       *)
(***************************************************************************)
EXTENDS Naturals, FiniteSets, Sequences

CONSTANTS Filters,
          MaxConns,     \* bound: connections of the client
          MaxChanges,   \* bound: changes of its subscriptions, and purges by the sweep
          MaxFaults     \* bound: crashes and failed commands

ASSUME ConstantsAssumption ==
  /\ MaxConns \in Nat /\ MaxChanges \in Nat /\ MaxFaults \in Nat
  /\ {"clients", "devices"} \cap Filters = {}

VARIABLES
  conn,       \* the latest connection, 0 when it has cleaned up
  kind,       \* CONNECT of each connection that is alive: clean or persistent session
  alive,      \* connections that have not cleaned up
  stored,     \* kind of the session in sessions.data, or "none"
  subs,       \* router: the connection whose closure serves a filter, or 0
  restores,   \* restoreSession goroutines
  out,        \* Redis and PostgreSQL, by key
  registered, \* devices has a row for the client
  tasks,      \* goroutines with commands left, each command a set of keys to write
  last,       \* history: the value of the last write begun for a key
  sound,      \* history: that write ran alone and did not fail
  taken,      \* history: CONNECTs of the client overlapped, or the broker crashed
  fresh,      \* history: filters whose row was settled, and there for a subscription in
              \* the router, when the restore read it
  conns, changes, faults  \* counters, to bound the model

connVars == <<conn, kind, alive, stored, taken>>
outVars == <<out, registered, tasks, last, sound>>
counters == <<conns, changes, faults>>
vars == <<connVars, subs, restores, fresh, outVars, counters>>

Client == "clients"     \* HSET and HDEL in Redis
Device == "devices"     \* UPDATE devices SET connected, which needs a row
Keys == Filters \cup {Client, Device}
Kinds == {"clean", "keep"}

Init ==
  /\ conn = 0 /\ kind = [c \in 1 .. MaxConns |-> "clean"] /\ alive = {} /\ stored = "none"
  /\ subs = [f \in Filters |-> 0] /\ restores = {} /\ fresh = {}
  /\ out = [k \in Keys |-> 0] /\ registered \in BOOLEAN /\ tasks = {}
  /\ last = [k \in Keys |-> 0] /\ sound = [k \in Keys |-> TRUE] /\ taken = FALSE
  /\ conns = 0 /\ changes = 0 /\ faults = 0

NewConn == conns < MaxConns /\ conns' = conns + 1 /\ UNCHANGED <<changes, faults>>
Change == changes < MaxChanges /\ changes' = changes + 1 /\ UNCHANGED <<conns, faults>>
Fault == faults < MaxFaults /\ faults' = faults + 1 /\ UNCHANGED <<conns, changes>>

\* SetDeviceStatus updates no row when there is none.
Landed(k) == k = Device => registered

KeysOf(g) == UNION {g.cmds[i] : i \in DOMAIN g.cmds}
Pending(k) == \E g \in tasks : k \in KeysOf(g)
Settled(k) == ~Pending(k) /\ sound[k]

\* go func() { ... }: commands that write val, one after the other; n tells two goroutines
\* with the same commands apart.
Go(cmds, val) == [cmds |-> cmds, val |-> val]
Spawn(gs) ==
  LET begun == UNION {KeysOf(g) : g \in gs}
      Of(k) == CHOOSE g \in gs : k \in KeysOf(g)
      Task(g, n) == [cmds |-> g.cmds, val |-> g.val, n |-> n]
      Number(g) == CHOOSE n \in 0 .. Cardinality(tasks) : Task(g, n) \notin tasks
  IN  /\ tasks' = tasks \cup {Task(g, Number(g)) : g \in gs}
      /\ last' = [k \in Keys |-> IF k \in begun THEN Of(k).val ELSE last[k]]
      /\ sound' = [k \in Keys |-> IF k \in begun THEN ~Pending(k) /\ Landed(k) ELSE sound[k]]
      /\ UNCHANGED <<out, registered>>

----------------------------------------------------------------------------
(* Connections *)

\* The second half of handleConnect: the session, SetClient and SetDeviceStatus in a
\* goroutine, and restoreSession in another when a persistent session was there.
Connect(k) ==
  /\ NewConn
  /\ conn' = conns' /\ kind' = [kind EXCEPT ![conns'] = k]
  /\ alive' = alive \cup {conns'} /\ stored' = k
  /\ taken' = (alive # {})
  /\ Spawn({Go(<<{Client}, {Device}>>, conns')})
  /\ restores' = IF k = "keep" /\ stored = "keep"
                 THEN restores \cup {[conn |-> conns', pc |-> "query", todo |-> {}]}
                 ELSE restores
  /\ fresh' = {}
  /\ UNCHANGED subs

\* Mutant: cleanup leaves the entry to the next SetClient.
DelClientLazy == Go(<<{Device}>>, 0)

\* The goroutine of cleanup: DelClient, then SetDeviceStatus.
DelClient == Go(<<{Client}, {Device}>>, 0)

\* The goroutine of PurgePersistentSession.
DeleteAllSubs == {Go(<<Filters>>, 0)}

\* A CONNECT that a plugin refuses has its client ID already, and its cleanup deletes the
\* entry although the connection never wrote one.
ConnectRefused ==
  /\ NewConn
  /\ Spawn({DelClient})
  /\ taken' = (taken \/ alive # {})
  /\ UNCHANGED <<conn, kind, alive, stored, subs, restores, fresh>>

\* cleanup: a clean session is dropped; a persistent one is purged at once when its
\* expiry interval, from CONNECT or DISCONNECT, is 0.
cleanup(c, zero) ==
  /\ alive' = alive \ {c} /\ conn' = IF conn = c THEN 0 ELSE conn
  /\ kind' = [kind EXCEPT ![c] = "clean"]
  /\ Spawn({DelClient} \cup IF kind[c] = "keep" /\ zero THEN DeleteAllSubs ELSE {})
  /\ IF kind[c] = "clean" \/ zero
     THEN stored' = "none" /\ subs' = [f \in Filters |-> 0]
     ELSE UNCHANGED <<stored, subs>>
  /\ UNCHANGED <<taken, restores, fresh, counters>>

\* The sweep purges the session of a client that is away.
PurgePersistentSession ==
  /\ alive = {} /\ stored = "keep" /\ Change
  /\ stored' = "none" /\ subs' = [f \in Filters |-> 0]
  /\ Spawn(DeleteAllSubs)
  /\ UNCHANGED <<conn, kind, alive, taken, restores, fresh>>

----------------------------------------------------------------------------
(* Subscriptions *)

\* SaveSub and DeleteSub are started for persistent sessions only.
SpawnRow(c, f, v) == IF kind[c] = "clean" THEN UNCHANGED outVars ELSE Spawn({Go(<<{f}>>, v)})

\* One filter of a SUBSCRIBE: the router, then the row.
handleSubscribe(c, f) ==
  /\ Change
  /\ subs' = [subs EXCEPT ![f] = c]
  /\ SpawnRow(c, f, 1)
  /\ fresh' = IF c = conn THEN fresh ELSE fresh \ {f}
  /\ UNCHANGED <<connVars, restores>>

handleUnsubscribe(c, f) ==
  /\ Change
  /\ subs' = [subs EXCEPT ![f] = 0]
  /\ SpawnRow(c, f, 0)
  /\ UNCHANGED <<connVars, restores, fresh>>

\* handleSubscribe of the API writes the row and nothing else.
handleSubscribeAPI(f) ==
  /\ Change
  /\ Spawn({Go(<<{f}>>, 1)})
  /\ UNCHANGED <<connVars, subs, restores, fresh>>

\* UpsertDevice keeps the status of a row that is there; a new row says "not connected",
\* whatever the client is.
UpsertDevice ==
  /\ registered' = TRUE
  /\ IF registered THEN UNCHANGED <<out, sound>>
     ELSE /\ out' = [out EXCEPT ![Device] = 0]
          /\ sound' = [sound EXCEPT ![Device] = ~Pending(Device) /\ last[Device] = 0]

handleDeviceCreate ==
  /\ Change /\ UpsertDevice
  /\ UNCHANGED <<connVars, subs, restores, fresh, tasks, last>>

DeleteDevice ==
  /\ registered' = FALSE
  /\ out' = [out EXCEPT ![Device] = 0] /\ sound' = [sound EXCEPT ![Device] = FALSE]

\* handleDeviceDelete of a device that is there; otherwise it answers "not found".
handleDeviceDelete ==
  /\ registered /\ Change /\ DeleteDevice
  /\ UNCHANGED <<connVars, subs, restores, fresh, tasks, last>>

\* GetSubs of restoreSession.
GetSubs(r) ==
  /\ r.pc = "query"
  /\ LET rows == {f \in Filters : out[f] # 0}
     IN  restores' = (restores \ {r}) \cup
                     (IF rows = {} THEN {} ELSE {[r EXCEPT !.pc = "apply", !.todo = rows]})
  /\ fresh' = IF r.conn = conn /\ restores = {r}
              THEN {f \in Filters : Settled(f) /\ (subs[f] # 0 => last[f] # 0)} ELSE {}
  /\ UNCHANGED <<connVars, subs, outVars, counters>>

GetSubsFails(r) ==
  /\ r.pc = "query" /\ Fault
  /\ restores' = restores \ {r}
  /\ UNCHANGED <<connVars, subs, fresh, outVars>>

\* Mutant: a filter that is in the router is left alone.
restoreSessionNew(r, f) ==
  /\ r.pc = "apply" /\ f \in r.todo
  /\ subs' = [subs EXCEPT ![f] = IF @ = 0 THEN r.conn ELSE @]
  /\ restores' = (restores \ {r}) \cup
                 (IF r.todo = {f} THEN {} ELSE {[r EXCEPT !.todo = @ \ {f}]})
  /\ UNCHANGED <<connVars, fresh, outVars, counters>>

\* One Subscribe of restoreSession, with the closure of the connection it belongs to.
restoreSession(r, f) ==
  /\ r.pc = "apply" /\ f \in r.todo
  /\ subs' = [subs EXCEPT ![f] = r.conn]
  /\ restores' = (restores \ {r}) \cup
                 (IF r.todo = {f} THEN {} ELSE {[r EXCEPT !.todo = @ \ {f}]})
  /\ UNCHANGED <<connVars, fresh, outVars, counters>>

----------------------------------------------------------------------------
(* Redis, PostgreSQL, faults *)

Rest(g) == IF Len(g.cmds) = 1 THEN {} ELSE {[cmds |-> Tail(g.cmds), val |-> g.val, n |-> g.n]}

\* Mutant: the key that is deleted is not the key that was written.
ExecuteKeeps(g) ==
  /\ tasks' = (tasks \ {g}) \cup Rest(g)
  /\ out' = [k \in Keys |-> IF k \in Head(g.cmds) /\ Landed(k) /\ g.val # 0 THEN g.val ELSE out[k]]
  /\ UNCHANGED <<connVars, subs, restores, fresh, registered, last, sound, counters>>

\* The next command of a goroutine: SetClient or DelClient, SetDeviceStatus, SaveSub,
\* DeleteSub or DeleteAllSubs.
Execute(g) ==
  /\ tasks' = (tasks \ {g}) \cup Rest(g)
  /\ out' = [k \in Keys |-> IF k \in Head(g.cmds) /\ Landed(k) THEN g.val ELSE out[k]]
  /\ UNCHANGED <<connVars, subs, restores, fresh, registered, last, sound, counters>>

\* The command fails; the goroutine ignores the error and goes on.
ExecuteFails(g) ==
  /\ Fault
  /\ tasks' = (tasks \ {g}) \cup Rest(g)
  /\ sound' = [k \in Keys |-> sound[k] /\ k \notin Head(g.cmds)]
  /\ UNCHANGED <<connVars, subs, restores, fresh, out, registered, last>>

\* The process dies and starts with no session.
Restart ==
  /\ Fault
  /\ conn' = 0 /\ alive' = {} /\ stored' = "none" /\ taken' = TRUE
  /\ kind' = [c \in 1 .. MaxConns |-> "clean"]
  /\ subs' = [f \in Filters |-> 0] /\ restores' = {} /\ fresh' = {}
  /\ tasks' = {} /\ sound' = [k \in Keys |-> Settled(k)]
  /\ UNCHANGED <<out, registered, last>>

Next ==
  \/ \E k \in Kinds : Connect(k)
  \/ ConnectRefused
  \/ \E c \in alive, zero \in BOOLEAN : cleanup(c, zero)
  \/ PurgePersistentSession
  \/ \E c \in alive, f \in Filters : handleSubscribe(c, f) \/ handleUnsubscribe(c, f)
  \/ \E f \in Filters : handleSubscribeAPI(f)
  \/ handleDeviceCreate \/ handleDeviceDelete
  \/ \E r \in restores : GetSubs(r) \/ GetSubsFails(r) \/ \E f \in Filters : restoreSession(r, f)
  \/ \E g \in tasks : Execute(g) \/ ExecuteFails(g)
  \/ Restart

Spec == Init /\ [][Next]_vars

----------------------------------------------------------------------------
(* Properties *)

\* Once the write begun last for a key has run with no other write of that key beside
\* it, Redis or PostgreSQL holds its value, whatever purges and crashes there were: the
\* entry of the client, its device status, the rows that restoreSession reads.
WritesLand ==
  \A k \in Keys : Settled(k) /\ Landed(k) => out[k] = last[k]

\* As long as the connections of a client do not overlap and the broker does not crash,
\* Redis has the entry of its connection when it has one and none otherwise, once the
\* goroutines of handleConnect and cleanup are through; and the device, if the API created
\* it before they ran or while the client was away, has that status.
EntryTruthful ==
  ~taken => \A k \in {Client, Device} : Settled(k) /\ Landed(k) => out[k] = conn

\* After restoreSession every subscription in the router has the closure of the present
\* connection, if the write begun last for its row was one that makes it and had settled
\* when GetSubs ran, and no restore of an earlier connection was still under way.  A
\* subscription without such a row keeps the closure of an earlier connection: a clean
\* session made it that was taken over, or a restore put it back after its UNSUBSCRIBE.
ResumedDeliver ==
  conn # 0 /\ restores = {} => \A f \in fresh : subs[f] \in {0, conn}
=============================================================================
