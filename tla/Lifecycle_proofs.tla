--------------------------- MODULE Lifecycle_proofs ---------------------------
(***************************************************************************)
(* The invariants of the connection lifecycle, for any number of           *)
(* connections, client identifiers, sessions and CONNECT packets to choose *)
(* from.  All of them suppose a client that sends one CONNECT per          *)
(* connection (MaxConnects = 1): the code does not refuse a second one,    *)
(* which changes the identifier and the session under a connection that is *)
(* still registered with the old ones.                                     *)
(***************************************************************************)
EXTENDS Lifecycle, TLAPS

Cleanup  == {"unregister", "offline", "prepare", "unsub", "delete", "lastwill"}
Labels   == Handshake \cup Cleanup \cup {"accept", "serve", "close", "gone"}
HasSess  == {"clear", "expiry", "will", "online", "register", "serve"}
              \cup (Cleanup \ {"unregister"})

TypeInv ==
  /\ pc \in [Conns -> Labels]
  /\ id \in [Conns -> ClientIds \cup {None}]
  /\ req \in [Conns -> AllRequests]
  /\ sess \in [Conns -> Nat]
  /\ present \in [Conns -> BOOLEAN]
  /\ sock \in [Conns -> BOOLEAN]
  /\ connects \in [Conns -> Nat]
  /\ target \in [Conns -> Conns \cup {None}]
  /\ restore \in [Conns -> Nat]
  /\ registry \in [ClientIds -> Conns \cup {None}]
  /\ store \in [ClientIds -> Nat]
  /\ obj \in [SessIds -> Sessions]
  /\ created \in 0 .. MaxSess
  /\ sub \in [ClientIds -> Conns \cup {None}]
  /\ sweepPc \in {"idle", "check", "unsub", "delete"}
  /\ sweepSet \subseteq 1 .. created
  /\ sweepCur \in 0 .. created
  /\ overlapped \in BOOLEAN
  /\ graceful \subseteq Conns
  /\ wills \subseteq [by : Conns, of : Conns]

\* Where a connection is tells whether it has an identifier and a session.
Phase(c) ==
  /\ pc[c] = "accept" => id[c] = None /\ connects[c] = 0
  /\ pc[c] \in Handshake \cup {"serve"} => connects[c] = 1
  /\ pc[c] \in Handshake \cup {"serve"} \cup Cleanup => id[c] \in ClientIds
  /\ pc[c] \in HasSess => sess[c] # 0
  /\ restore[c] > 0 => sess[c] # 0 /\ ~req[c].clean

PhaseInv == \A c \in Conns : Phase(c)

\* A session belongs to the client identifier it was created for, and is clean
\* when the CONNECT of the connection that holds it asked for that.
Held(c) ==
  sess[c] # 0 => /\ sess[c] \in 1 .. created
                 /\ pc[c] \notin {"accept", "takeover", "evict", "session"}
                 /\ obj[sess[c]].client = id[c]
                 /\ obj[sess[c]].clean = req[c].clean

SessionInv ==
  /\ \A s \in 1 .. created : obj[s].client \in ClientIds
  /\ \A c \in Conns : Held(c)
  /\ \A i \in ClientIds : store[i] # 0 =>
       /\ store[i] \in 1 .. created
       /\ obj[store[i]].client = i
  /\ sweepPc \in {"unsub", "delete"} => sweepCur # 0 /\ ~obj[sweepCur].clean

\* A clean session is never resumed: it has one connection, whose will it
\* carries until that connection says goodbye.
SoleHolder ==
  \A c, d \in Conns : sess[c] # 0 /\ sess[c] = sess[d] /\ obj[sess[c]].clean => c = d

WillHeld(c) ==
  sess[c] # 0 /\ obj[sess[c]].clean =>
    /\ obj[sess[c]].will \in {None, c}
    /\ c \in graceful => obj[sess[c]].will = None

WillRecord(w) ==
  /\ sess[w.by] # 0 /\ pc[w.by] = "gone"
  /\ obj[sess[w.by]].clean => w.of = w.by /\ w.by \notin graceful

CleanInv ==
  /\ SoleHolder
  /\ \A c \in Conns : WillHeld(c)
  /\ \A c \in graceful : pc[c] \in Cleanup \cup {"close", "gone"}
  /\ \A w \in wills : WillRecord(w)

\* What is stored or subscribed for a clean session has its connection to
\* remove it.
Prepares(c) == pc[c] = "prepare" => ~obj[sess[c]].clean

Owned(i) ==
  store[i] # 0 /\ obj[store[i]].clean =>
    \E c \in Conns : sess[c] = store[i] /\ pc[c] \notin {"lastwill", "gone"}

Closure(i) ==
  sub[i] # None =>
    /\ sess[sub[i]] # 0
    /\ req[sub[i]].clean =>
         /\ id[sub[i]] = i
         /\ pc[sub[i]] \in {"serve", "close", "unregister", "offline", "unsub"}

GhostInv ==
  /\ \A c \in Conns : Prepares(c)
  /\ \A i \in ClientIds : Owned(i) /\ Closure(i)

\* ExpiryHonoured for one client identifier.
Scheduled(i) ==
  \/ store[i] = 0 \/ obj[store[i]].clean \/ ~obj[store[i]].v5
  \/ \E c \in Conns : sess[c] = store[i] /\ pc[c] \notin {"lastwill", "gone"}
  \/ obj[store[i]].expiry = "never"
  \/ obj[store[i]].expiry = "finite" /\ obj[store[i]].deadline # "none"

ExpiryInv == \A i \in ClientIds : Scheduled(i)

\* Without an overlap a client identifier has one connection at work, the
\* handshake fills in the registry, the store and the session one after the
\* other, and a sweep under way purges no session of a serving connection.
OneAtWork ==
  \A c, d \in Conns : id[c] # None /\ id[c] = id[d] => c = d \/ pc[c] = "gone" \/ pc[d] = "gone"

Live(c) ==
  /\ pc[c] \in Handshake => sweepPc = "idle"
  /\ pc[c] \in {"clear", "expiry", "will", "online", "register", "serve"} => store[id[c]] = sess[c]
  /\ pc[c] \in {"register", "serve"} => obj[sess[c]].connected
  /\ pc[c] = "serve" => /\ registry[id[c]] = c
                        /\ \A s \in sweepSet : obj[s].client = id[c] => s = sess[c]
                        /\ sweepPc \in {"unsub", "delete"} => obj[sweepCur].client # id[c]

LiveInv ==
  /\ sweepPc = "idle" => sweepSet = {}
  /\ ~overlapped => OneAtWork /\ \A c \in Conns : Live(c)

Inv == /\ TypeInv /\ PhaseInv /\ SessionInv
       /\ RegistryNeverStale /\ CleanInv /\ GhostInv /\ ExpiryInv /\ LiveInv

----------------------------------------------------------------------------
(* What a step does to the session objects and to the connections. *)

Touches(s) ==
  /\ obj' \in [SessIds -> Sessions]
  /\ \A x \in SessIds : /\ x # s => obj'[x] = obj[x]
                        /\ obj'[x].client = obj[x].client
                        /\ obj'[x].clean = obj[x].clean

KeepsWill      == \A x \in SessIds : obj'[x].will = obj[x].will
KeepsConnected == \A x \in SessIds : obj'[x].connected = obj[x].connected
KeepsInterval  == \A x \in SessIds : obj'[x].v5 = obj[x].v5 /\ obj'[x].expiry = obj[x].expiry
KeepsDeadline  == \A x \in SessIds : obj'[x].deadline = obj[x].deadline

\* One session object is replaced by one of the same client.
LEMMA Replace ==
  ASSUME TypeInv, NEW s, NEW u,
         s \in SessIds => /\ u \in Sessions
                          /\ u.client = obj[s].client /\ u.clean = obj[s].clean,
         obj' = [x \in SessIds |-> IF x = s THEN u ELSE obj[x]]
  PROVE  /\ Touches(s)
         /\ \A x \in SessIds : x = s => obj'[x] = u
<1>1. \A x \in SessIds : obj[x] \in Sessions
  BY Zenon DEF TypeInv
<1>2. \A x \in SessIds : obj'[x] = IF x = s THEN u ELSE obj[x]
  BY Zenon
<1>3. \A x \in SessIds : x # s => obj'[x] = obj[x]
  BY <1>2
<1>4. \A x \in SessIds : x = s => obj'[x] = u
  BY <1>2
<1>5. ASSUME NEW x \in SessIds
      PROVE  obj'[x] \in Sessions /\ obj'[x].client = obj[x].client /\ obj'[x].clean = obj[x].clean
  <2>1. CASE x = s
    BY Zenon, <1>4, <2>1
  <2>2. CASE x # s
    BY Zenon, <1>1, <1>3, <2>2
  <2> QED
    BY Zenon, <2>1, <2>2
<1>6. obj' \in [SessIds -> Sessions]
  BY Zenon, <1>5
<1> QED
  BY Zenon, <1>3, <1>4, <1>5, <1>6 DEF Touches

\* A will is set (SetWill) or suppressed (takeover, ForceDisconnect, handleDisconnect).
LEMMA WillTouches ==
  ASSUME TypeInv, NEW s, NEW w \in Conns \cup {None},
         obj' = [obj EXCEPT ![s].will = w]
  PROVE  /\ Touches(s) /\ KeepsConnected /\ KeepsInterval /\ KeepsDeadline
         /\ \A x \in SessIds : x = s => obj'[x].will = w
<1> DEFINE u == [obj[s] EXCEPT !.will = w]
<1>1. obj \in [SessIds -> Sessions]
  BY Zenon DEF TypeInv
<1>2. obj' = [x \in SessIds |-> IF x = s THEN u ELSE obj[x]]
  BY Zenon, <1>1
<1>3. s \in SessIds =>
        /\ u \in Sessions /\ u.client = obj[s].client /\ u.clean = obj[s].clean
        /\ u.connected = obj[s].connected /\ u.v5 = obj[s].v5 /\ u.expiry = obj[s].expiry /\ u.deadline = obj[s].deadline
        /\ u.will = w
  BY <1>1 DEF Sessions
<1> HIDE DEF u
<1>4. Touches(s) /\ \A x \in SessIds : x = s => obj'[x] = u
  BY Zenon, <1>2, <1>3, Replace
<1> QED
  BY Zenon, <1>3, <1>4 DEF Touches, KeepsConnected, KeepsInterval, KeepsDeadline

\* handleDisconnect with an expiry interval.
LEMMA DisconnectTouches ==
  ASSUME TypeInv, NEW s, NEW w \in Conns \cup {None}, NEW e \in Expiries,
         obj' = [obj EXCEPT ![s].will = w, ![s].expiry = e]
  PROVE  /\ Touches(s) /\ KeepsConnected /\ KeepsDeadline
         /\ \A x \in SessIds : x = s => obj'[x].will = w
<1> DEFINE u == [obj[s] EXCEPT !.will = w, !.expiry = e]
<1>1. obj \in [SessIds -> Sessions]
  BY Zenon DEF TypeInv
<1>2. obj' = [x \in SessIds |-> IF x = s THEN u ELSE obj[x]]
  BY Zenon, <1>1
<1>3. s \in SessIds =>
        /\ u \in Sessions /\ u.client = obj[s].client /\ u.clean = obj[s].clean
        /\ u.connected = obj[s].connected /\ u.v5 = obj[s].v5 /\ u.deadline = obj[s].deadline
        /\ u.will = w
  BY Zenon, <1>1 DEF Sessions
<1> HIDE DEF u
<1>4. Touches(s) /\ \A x \in SessIds : x = s => obj'[x] = u
  BY Zenon, <1>2, <1>3, Replace
<1> QED
  BY Zenon, <1>3, <1>4 DEF Touches, KeepsConnected, KeepsDeadline

\* A deadline is cleared, set, or passes.
LEMMA DeadlineTouches ==
  ASSUME TypeInv, NEW s, NEW w \in {"none", "pending", "passed"},
         obj' = [obj EXCEPT ![s].deadline = w]
  PROVE  /\ Touches(s) /\ KeepsWill /\ KeepsConnected /\ KeepsInterval
         /\ \A x \in SessIds : x = s => obj'[x].deadline = w
<1> DEFINE u == [obj[s] EXCEPT !.deadline = w]
<1>1. obj \in [SessIds -> Sessions]
  BY Zenon DEF TypeInv
<1>2. obj' = [x \in SessIds |-> IF x = s THEN u ELSE obj[x]]
  BY Zenon, <1>1
<1>3. s \in SessIds =>
        /\ u \in Sessions /\ u.client = obj[s].client /\ u.clean = obj[s].clean
        /\ u.connected = obj[s].connected /\ u.v5 = obj[s].v5 /\ u.expiry = obj[s].expiry /\ u.will = obj[s].will
        /\ u.deadline = w
  BY <1>1 DEF Sessions
<1> HIDE DEF u
<1>4. Touches(s) /\ \A x \in SessIds : x = s => obj'[x] = u
  BY Zenon, <1>2, <1>3, Replace
<1> QED
  BY Zenon, <1>3, <1>4 DEF Touches, KeepsWill, KeepsConnected, KeepsInterval

\* SetConnected, true or false.
LEMMA ConnectedTouches ==
  ASSUME TypeInv, NEW s, NEW w \in BOOLEAN,
         obj' = [obj EXCEPT ![s].connected = w]
  PROVE  /\ Touches(s) /\ KeepsWill /\ KeepsInterval /\ KeepsDeadline
         /\ \A x \in SessIds : x = s => obj'[x].connected = w
<1> DEFINE u == [obj[s] EXCEPT !.connected = w]
<1>1. obj \in [SessIds -> Sessions]
  BY Zenon DEF TypeInv
<1>2. obj' = [x \in SessIds |-> IF x = s THEN u ELSE obj[x]]
  BY Zenon, <1>1
<1>3. s \in SessIds =>
        /\ u \in Sessions /\ u.client = obj[s].client /\ u.clean = obj[s].clean
        /\ u.v5 = obj[s].v5 /\ u.expiry = obj[s].expiry /\ u.will = obj[s].will /\ u.deadline = obj[s].deadline
        /\ u.connected = w
  BY <1>1 DEF Sessions
<1> HIDE DEF u
<1>4. Touches(s) /\ \A x \in SessIds : x = s => obj'[x] = u
  BY Zenon, <1>2, <1>3, Replace
<1> QED
  BY Zenon, <1>3, <1>4 DEF Touches, KeepsWill, KeepsInterval, KeepsDeadline

\* SetProtocolAndExpiry.
LEMMA ProtocolTouches ==
  ASSUME TypeInv, NEW s, NEW v \in BOOLEAN, NEW e \in Expiries, NEW b \in BOOLEAN,
         obj' = [obj EXCEPT ![s].v5 = v, ![s].expiry = e,
                             ![s].deadline = IF b THEN "none" ELSE @]
  PROVE  /\ Touches(s) /\ KeepsWill /\ KeepsConnected
<1> DEFINE u == [obj[s] EXCEPT !.v5 = v, !.expiry = e, !.deadline = IF b THEN "none" ELSE @]
<1>1. obj \in [SessIds -> Sessions]
  BY Zenon DEF TypeInv
<1>2. obj' = [x \in SessIds |-> IF x = s THEN u ELSE obj[x]]
  BY Zenon, <1>1
<1>3. s \in SessIds =>
        /\ u \in Sessions /\ u.client = obj[s].client /\ u.clean = obj[s].clean
        /\ u.connected = obj[s].connected /\ u.will = obj[s].will
  BY Zenon, <1>1 DEF Sessions
<1> HIDE DEF u
<1>4. Touches(s) /\ \A x \in SessIds : x = s => obj'[x] = u
  BY Zenon, <1>2, <1>3, Replace
<1> QED
  BY Zenon, <1>3, <1>4 DEF Touches, KeepsWill, KeepsConnected

\* The session objects are written by the connection that holds them, except
\* for takeover and ForceDisconnect, which suppress the will of another one.
LEMMA ConnectTouches ==
  ASSUME TypeInv, NEW c \in Conns
  PROVE  /\ Evict(c) => /\ Touches(sess[target[c]])
                        /\ KeepsConnected /\ KeepsInterval /\ KeepsDeadline
                        /\ \A x \in SessIds : x = sess[target[c]] => obj'[x].will = None
         /\ ClearDisconnectExpiry(c) => Touches(sess[c]) /\ KeepsWill /\ KeepsConnected
         /\ SetProtocolAndExpiry(c) => Touches(sess[c]) /\ KeepsWill /\ KeepsConnected
         /\ SetWill(c) => /\ Touches(sess[c]) /\ KeepsConnected
                          /\ \A x \in SessIds : obj'[x].will \in {obj[x].will, c}
         /\ SetConnected(c) => /\ Touches(sess[c]) /\ KeepsWill
                               /\ \A x \in SessIds : x = sess[c] => obj'[x].connected
<1>0. /\ obj \in [SessIds -> Sessions] /\ req[c] \in AllRequests
      /\ None \in Conns \cup {None} /\ c \in Conns \cup {None}
  BY Zenon DEF TypeInv
<1>1. ASSUME Evict(c)
      PROVE  /\ Touches(sess[target[c]])
             /\ KeepsConnected /\ KeepsInterval /\ KeepsDeadline
             /\ \A x \in SessIds : x = sess[target[c]] => obj'[x].will = None
  <2>1. PICK s : s = sess[target[c]]
    OBVIOUS
  <2>2. PICK w : w = None
    OBVIOUS
  <2>3. obj' = [obj EXCEPT ![s].will = w]
    BY <1>1, <2>1, <2>2 DEF Evict
  <2>4. w \in Conns \cup {None}
    BY <2>2
  <2> QED
    BY ZenonT(60), <2>1, <2>2, <2>3, <2>4, WillTouches
<1>2. ASSUME ClearDisconnectExpiry(c) PROVE Touches(sess[c]) /\ KeepsWill /\ KeepsConnected
  <2>1. PICK s : s = sess[c]
    OBVIOUS
  <2>2. PICK w : w = "none"
    OBVIOUS
  <2>3. obj' = [obj EXCEPT ![s].deadline = w]
    BY <1>2, <2>1, <2>2 DEF ClearDisconnectExpiry
  <2>4. w \in {"none", "pending", "passed"}
    BY <2>2
  <2> QED
    BY Zenon, <2>1, <2>3, <2>4, DeadlineTouches
<1>3. ASSUME SetProtocolAndExpiry(c) PROVE Touches(sess[c]) /\ KeepsWill /\ KeepsConnected
  <2>1. PICK s : s = sess[c]
    OBVIOUS
  <2>2. PICK e : e = CASE req[c].clean -> "zero"
                       [] ~req[c].clean /\ req[c].v5 -> req[c].expiry
                       [] OTHER -> obj[s].expiry
    OBVIOUS
  <2>3. PICK v, b : v = req[c].v5 /\ b = req[c].clean
    OBVIOUS
  <2>4. obj' = [obj EXCEPT ![s].v5 = v, ![s].expiry = e,
                           ![s].deadline = IF b THEN "none" ELSE @]
    BY <1>3, <2>1, <2>2, <2>3 DEF SetProtocolAndExpiry
  <2>5. v \in BOOLEAN /\ b \in BOOLEAN
    BY <1>0, <2>3 DEF AllRequests
  <2>6. CASE s \in SessIds
    <3>1. e \in Expiries
      BY <1>0, <2>2, <2>6 DEF AllRequests, Sessions, Expiries
    <3> QED
      BY Zenon, <2>1, <2>4, <2>5, <3>1, ProtocolTouches
  <2>7. CASE s \notin SessIds
    <3>1. obj' = obj
      BY <1>0, <2>4, <2>7
    <3> QED
      BY Zenon, <1>0, <3>1 DEF Touches, KeepsWill, KeepsConnected
  <2> QED
    BY Zenon, <2>6, <2>7
<1>4. ASSUME SetWill(c)
      PROVE  /\ Touches(sess[c]) /\ KeepsConnected
             /\ \A x \in SessIds : obj'[x].will \in {obj[x].will, c}
  <2>1. CASE req[c].will
    <3>1. PICK s : s = sess[c]
      OBVIOUS
    <3>2. obj' = [obj EXCEPT ![s].will = c]
      BY <1>4, <2>1, <3>1 DEF SetWill
    <3>3. Touches(s) /\ KeepsConnected /\ \A x \in SessIds : x = s => obj'[x].will = c
      BY Zenon, <1>0, <3>2, WillTouches
    <3> QED
      BY Zenon, <3>1, <3>3 DEF Touches
  <2>2. CASE ~req[c].will
    <3>1. obj' = obj
      BY <1>4, <2>2 DEF SetWill
    <3> QED
      BY Zenon, <1>0, <3>1 DEF Touches, KeepsConnected
  <2> QED
    BY Zenon, <2>1, <2>2
<1>5. ASSUME SetConnected(c)
      PROVE  /\ Touches(sess[c]) /\ KeepsWill
             /\ \A x \in SessIds : x = sess[c] => obj'[x].connected
  <2>1. PICK s : s = sess[c]
    OBVIOUS
  <2>2. PICK w : w = TRUE
    OBVIOUS
  <2>3. obj' = [obj EXCEPT ![s].connected = w]
    BY <1>5, <2>1, <2>2 DEF SetConnected
  <2>4. w \in BOOLEAN
    BY <2>2
  <2>5. Touches(s) /\ KeepsWill /\ \A x \in SessIds : x = s => obj'[x].connected = w
    BY Zenon, <2>3, <2>4, ConnectedTouches
  <2> QED
    BY Zenon, <2>1, <2>2, <2>5
<1> QED
  BY Zenon, <1>1, <1>2, <1>3, <1>4, <1>5

\* The same for the steps after the handshake and for the passing of time.
LEMMA CleanupTouches ==
  ASSUME TypeInv, NEW c \in Conns
  PROVE  /\ handleDisconnect(c) => /\ Touches(sess[c]) /\ KeepsConnected
                                   /\ \A x \in SessIds : x = sess[c] => obj'[x].will = None
         /\ SetDisconnected(c) => Touches(sess[c]) /\ KeepsWill
         /\ PrepareDisconnectExpiry(c) =>
              /\ Touches(sess[c]) /\ KeepsWill /\ KeepsConnected /\ KeepsInterval
              /\ \A x \in SessIds : x = sess[c] /\ obj[x].v5 /\ obj[x].expiry = "finite" =>
                   obj'[x].deadline = "pending"
<1>0. obj \in [SessIds -> Sessions] /\ None \in Conns \cup {None}
  BY Zenon DEF TypeInv
<1>1. ASSUME handleDisconnect(c)
      PROVE  /\ Touches(sess[c]) /\ KeepsConnected
             /\ \A x \in SessIds : x = sess[c] => obj'[x].will = None
  <2>1. PICK s, w : s = sess[c] /\ w = None
    OBVIOUS
  <2>2. w \in Conns \cup {None}
    BY <2>1
  <2>3. CASE obj' = [obj EXCEPT ![sess[c]].will = None]
    <3>1. obj' = [obj EXCEPT ![s].will = w]
      BY <2>1, <2>3
    <3> QED
      BY ZenonT(60), <2>1, <2>2, <3>1, WillTouches
  <2>4. CASE \E e \in Expiries : obj' = [obj EXCEPT ![sess[c]].will = None, ![sess[c]].expiry = e]
    <3>1. PICK e \in Expiries : obj' = [obj EXCEPT ![s].will = w, ![s].expiry = e]
      BY Zenon, <2>1, <2>4
    <3> QED
      BY ZenonT(60), <2>1, <2>2, <3>1, DisconnectTouches
  <2> QED
    BY Zenon, <1>1, <2>3, <2>4 DEF handleDisconnect
<1>2. ASSUME SetDisconnected(c) PROVE Touches(sess[c]) /\ KeepsWill
  <2>1. PICK s, w : s = sess[c] /\ w = FALSE
    BY Zenon
  <2>2. obj' = [obj EXCEPT ![s].connected = w]
    BY Zenon, <1>2, <2>1 DEF SetDisconnected
  <2>3. w \in BOOLEAN
    BY Zenon, <2>1
  <2> QED
    BY Zenon, <2>1, <2>2, <2>3, ConnectedTouches
<1>3. ASSUME PrepareDisconnectExpiry(c)
      PROVE  /\ Touches(sess[c]) /\ KeepsWill /\ KeepsConnected /\ KeepsInterval
             /\ \A x \in SessIds : x = sess[c] /\ obj[x].v5 /\ obj[x].expiry = "finite" =>
                  obj'[x].deadline = "pending"
  <2>1. PICK s, w : s = sess[c] /\ w = IF obj[s].expiry = "finite" THEN "pending" ELSE "none"
    OBVIOUS
  <2>2. CASE obj[s].v5
    <3>1. obj' = [obj EXCEPT ![s].deadline = w]
      BY <1>3, <2>1, <2>2 DEF PrepareDisconnectExpiry
    <3>2. w \in {"none", "pending", "passed"}
      BY <2>1
    <3>3. /\ Touches(s) /\ KeepsWill /\ KeepsConnected /\ KeepsInterval
          /\ \A x \in SessIds : x = s => obj'[x].deadline = w
      BY Zenon, <3>1, <3>2, DeadlineTouches
    <3>4. obj[s].expiry = "finite" => w = "pending"
      BY <2>1
    <3> QED
      BY Zenon, <2>1, <3>3, <3>4
  <2>3. CASE ~obj[s].v5
    <3>1. obj' = obj
      BY <1>3, <2>1, <2>3 DEF PrepareDisconnectExpiry
    <3> QED
      BY Zenon, <1>0, <2>1, <2>3, <3>1 DEF Touches, KeepsWill, KeepsConnected, KeepsInterval
  <2> QED
    BY Zenon, <2>2, <2>3
<1> QED
  BY Zenon, <1>1, <1>2, <1>3

\* ForceDisconnect suppresses a will, and a deadline that passes stays set.
LEMMA OutsideTouches ==
  ASSUME TypeInv
  PROVE  /\ \A i \in ClientIds : ForceDisconnect(i) =>
              /\ Touches(sess[registry[i]]) /\ KeepsConnected /\ KeepsInterval /\ KeepsDeadline
              /\ \A x \in SessIds : x = sess[registry[i]] => obj'[x].will = None
         /\ \A s \in SessIds : DeadlinePasses(s) =>
              /\ Touches(s) /\ KeepsWill /\ KeepsConnected /\ KeepsInterval
              /\ \A x \in SessIds : x = s => obj'[x].deadline = "passed"
<1>1. ASSUME NEW i \in ClientIds, ForceDisconnect(i)
      PROVE  /\ Touches(sess[registry[i]]) /\ KeepsConnected /\ KeepsInterval /\ KeepsDeadline
             /\ \A x \in SessIds : x = sess[registry[i]] => obj'[x].will = None
  <2>1. PICK s, w : s = sess[registry[i]] /\ w = None
    OBVIOUS
  <2>2. obj' = [obj EXCEPT ![s].will = w]
    BY <1>1, <2>1 DEF ForceDisconnect
  <2>3. w \in Conns \cup {None}
    BY <2>1
  <2> QED
    BY ZenonT(60), <2>1, <2>2, <2>3, WillTouches
<1>2. ASSUME NEW s \in SessIds, DeadlinePasses(s)
      PROVE  /\ Touches(s) /\ KeepsWill /\ KeepsConnected /\ KeepsInterval
             /\ \A x \in SessIds : x = s => obj'[x].deadline = "passed"
  <2>1. PICK w : w = "passed"
    OBVIOUS
  <2>2. obj' = [obj EXCEPT ![s].deadline = w]
    BY <1>2, <2>1 DEF DeadlinePasses
  <2>3. w \in {"none", "pending", "passed"}
    BY <2>1
  <2> QED
    BY Zenon, <2>1, <2>2, <2>3, DeadlineTouches
<1> QED
  BY Zenon, <1>1, <1>2

----------------------------------------------------------------------------
(* The steps of a connection. *)

\* Connection c goes from its label to label m, another than the first two of
\* handleConnect and the one that finds the session.
Ahead(c, m) ==
  \/ pc[c] = "takeover" /\ m \in {"session", "evict"}
  \/ pc[c] = "evict" /\ m = "session"
  \/ pc[c] = "clear" /\ m = "expiry"
  \/ pc[c] = "expiry" /\ m = "will"
  \/ pc[c] = "will" /\ m = "online"
  \/ pc[c] = "online" /\ m = "register"
  \/ pc[c] = "register" /\ m = "serve"
  \/ pc[c] \in {"accept", "serve"} /\ m = "close"
  \/ pc[c] = "close" /\ m = (IF id[c] = None THEN "gone" ELSE "unregister")
  \/ pc[c] = "unregister" /\ m = (IF sess[c] = 0 THEN "gone" ELSE "offline")
  \/ pc[c] = "offline" /\ m = (IF obj[sess[c]].clean THEN "unsub" ELSE "prepare")
  \/ pc[c] = "prepare" /\ m \in {"unsub", "lastwill"}
  \/ pc[c] = "unsub" /\ m = "delete"
  \/ pc[c] = "delete" /\ m = "lastwill"
  \/ pc[c] = "lastwill" /\ m = "gone"

Moves(c) == \E m \in Labels : Ahead(c, m) /\ pc' = [pc EXCEPT ![c] = m]

\* The steps of connection c after its CONNECT was read, without GetOrCreate.
Proceed(c) ==
  \/ takeover(c) \/ Evict(c) \/ ClearDisconnectExpiry(c)
  \/ SetProtocolAndExpiry(c) \/ SetWill(c) \/ SetConnected(c)
  \/ register(c) \/ Subscribe(c) \/ restoreSession(c)
  \/ handleDisconnect(c) \/ Drop(c) \/ Close(c)
  \/ unregister(c) \/ SetDisconnected(c) \/ PrepareDisconnectExpiry(c)
  \/ UnsubscribeAll(c) \/ DeleteSession(c) \/ PublishWill(c)

SameConns == /\ id' = id /\ req' = req /\ sess' = sess /\ connects' = connects
             /\ created' = created

SameObjects ==
  /\ obj' \in [SessIds -> Sessions]
  /\ \A x \in SessIds : obj'[x].client = obj[x].client /\ obj'[x].clean = obj[x].clean

\* These steps keep what identifies connections and sessions.
LEMMA ProceedSame ==
  ASSUME TypeInv, NEW c \in Conns, Proceed(c)
  PROVE  /\ SameConns /\ SameObjects
         /\ pc' = pc \/ Moves(c)
         /\ \A d \in Conns : restore'[d] > 0 =>
              restore[d] > 0 \/ (pc[d] = "register" /\ ~req[d].clean)
<1>0. /\ obj \in [SessIds -> Sessions] /\ restore \in [Conns -> Nat]
  BY Zenon DEF TypeInv
<1>1. SameConns
  BY Zenon DEF SameConns, Proceed, takeover, Evict, ClearDisconnectExpiry, SetProtocolAndExpiry,
    SetWill, SetConnected, register, Subscribe, restoreSession, handleDisconnect, Drop, Close,
    unregister, SetDisconnected, PrepareDisconnectExpiry, UnsubscribeAll, DeleteSession,
    PublishWill, connVars
<1>2. SameObjects
  <2>1. obj' = obj \/ \E s : Touches(s)
    BY Zenon, ConnectTouches, CleanupTouches DEF Proceed, takeover, register, Subscribe,
      restoreSession, Drop, Close, unregister, UnsubscribeAll, DeleteSession, PublishWill
  <2> QED
    BY Zenon, <1>0, <2>1 DEF SameObjects, Touches
<1>3. \A d \in Conns : restore'[d] > 0 =>
        restore[d] > 0 \/ (pc[d] = "register" /\ ~req[d].clean)
  <2>1. CASE register(c)
    BY <1>0, <2>1 DEF register
  <2>2. CASE restoreSession(c)
    BY <1>0, <2>2 DEF restoreSession
  <2>3. CASE restore' = restore
    BY Zenon, <2>3
  <2> QED
    BY Zenon, <2>1, <2>2, <2>3 DEF Proceed, takeover, Evict, ClearDisconnectExpiry,
      SetProtocolAndExpiry, SetWill, SetConnected, Subscribe, handleDisconnect, Drop, Close,
      unregister, SetDisconnected, PrepareDisconnectExpiry, UnsubscribeAll, DeleteSession,
      PublishWill, connVars
<1>4. pc' = pc \/ Moves(c)
  <2>0. ASSUME NEW m, m \in Labels, Ahead(c, m), Goto(c, m) PROVE Moves(c)
    BY Zenon, <2>0 DEF Moves, Goto
  <2>1. ASSUME takeover(c) \/ Evict(c) PROVE Moves(c)
    <3>1. PICK m \in {"session", "evict"} :
            Goto(c, m) /\ (pc[c] = "takeover" \/ (pc[c] = "evict" /\ m = "session"))
      BY <2>1 DEF takeover, Evict
    <3>2. m \in Labels /\ Ahead(c, m)
      BY <3>1 DEF Labels, Handshake, Ahead
    <3> QED
      BY Zenon, <2>0, <3>1, <3>2
  <2>2. ASSUME ClearDisconnectExpiry(c) \/ SetProtocolAndExpiry(c) \/ SetWill(c) \/ SetConnected(c)
               \/ register(c)
        PROVE  Moves(c)
    <3>1. PICK m : /\ Goto(c, m)
                   /\ \/ pc[c] = "clear" /\ m = "expiry"
                      \/ pc[c] = "expiry" /\ m = "will"
                      \/ pc[c] = "will" /\ m = "online"
                      \/ pc[c] = "online" /\ m = "register"
                      \/ pc[c] = "register" /\ m = "serve"
      BY <2>2 DEF ClearDisconnectExpiry, SetProtocolAndExpiry, SetWill, SetConnected, register
    <3>2. m \in Labels /\ Ahead(c, m)
      BY <3>1 DEF Labels, Handshake, Ahead
    <3> QED
      BY Zenon, <2>0, <3>1, <3>2
  <2>3. ASSUME handleDisconnect(c) \/ Drop(c) \/ Close(c) \/ unregister(c) PROVE Moves(c)
    <3>1. PICK m : /\ Goto(c, m)
                   /\ \/ pc[c] \in {"accept", "serve"} /\ m = "close"
                      \/ pc[c] = "close" /\ m = (IF id[c] = None THEN "gone" ELSE "unregister")
                      \/ pc[c] = "unregister" /\ m = (IF sess[c] = 0 THEN "gone" ELSE "offline")
      BY <2>3 DEF handleDisconnect, Drop, Close, unregister
    <3>2. m \in Labels /\ Ahead(c, m)
      BY <3>1 DEF Labels, Cleanup, Ahead
    <3> QED
      BY Zenon, <2>0, <3>1, <3>2
  <2>4. ASSUME SetDisconnected(c) \/ PrepareDisconnectExpiry(c) PROVE Moves(c)
    <3>1. PICK m \in {"unsub", "prepare", "lastwill"} :
            /\ Goto(c, m)
            /\ \/ pc[c] = "offline" /\ m = (IF obj[sess[c]].clean THEN "unsub" ELSE "prepare")
               \/ pc[c] = "prepare" /\ m \in {"unsub", "lastwill"}
      BY <2>4 DEF SetDisconnected, PrepareDisconnectExpiry
    <3>2. m \in Labels /\ Ahead(c, m)
      BY <3>1 DEF Labels, Cleanup, Ahead
    <3> QED
      BY Zenon, <2>0, <3>1, <3>2
  <2>5. ASSUME UnsubscribeAll(c) \/ DeleteSession(c) \/ PublishWill(c) PROVE Moves(c)
    <3>1. PICK m : /\ Goto(c, m)
                   /\ \/ pc[c] = "unsub" /\ m = "delete"
                      \/ pc[c] = "delete" /\ m = "lastwill"
                      \/ pc[c] = "lastwill" /\ m = "gone"
      BY <2>5 DEF UnsubscribeAll, DeleteSession, PublishWill
    <3>2. m \in Labels /\ Ahead(c, m)
      BY <3>1 DEF Labels, Cleanup, Ahead
    <3> QED
      BY Zenon, <2>0, <3>1, <3>2
  <2>6. Subscribe(c) \/ restoreSession(c) => pc' = pc
    BY Zenon DEF Subscribe, restoreSession, connVars
  <2> QED
    BY Zenon, <2>1, <2>2, <2>3, <2>4, <2>5, <2>6 DEF Proceed
<1> QED
  BY Zenon, <1>1, <1>2, <1>3, <1>4

\* ForceDisconnect, time and the sweep are steps of nobody's goroutine.
Outside ==
  \/ \E i \in ClientIds : ForceDisconnect(i)
  \/ \E s \in SessIds : DeadlinePasses(s)
  \/ Sweep
  \/ UNCHANGED vars

\* They keep what identifies connections and sessions, and move no connection.
LEMMA OutsideSame ==
  ASSUME TypeInv, Outside
  PROVE  SameConns /\ SameObjects /\ pc' = pc /\ restore' = restore
<1>0. obj \in [SessIds -> Sessions]
  BY Zenon DEF TypeInv
<1>1. ASSUME NEW s, Touches(s) PROVE SameObjects
  BY Zenon, <1>1 DEF SameObjects, Touches
<1>2. obj' = obj => SameObjects
  BY Zenon, <1>0 DEF SameObjects
<1>3. ASSUME NEW i \in ClientIds, ForceDisconnect(i)
      PROVE  SameConns /\ SameObjects /\ pc' = pc /\ restore' = restore
  <2>1. SameObjects
    BY Zenon, <1>1, <1>3, OutsideTouches
  <2> QED
    BY Zenon, <1>3, <2>1 DEF ForceDisconnect, SameConns
<1>4. ASSUME NEW s \in SessIds, DeadlinePasses(s)
      PROVE  SameConns /\ SameObjects /\ pc' = pc /\ restore' = restore
  <2>1. SameObjects
    BY Zenon, <1>1, <1>4, OutsideTouches
  <2> QED
    BY Zenon, <1>4, <2>1 DEF DeadlinePasses, SameConns, connVars
<1>5. ASSUME Sweep PROVE SameConns /\ SameObjects /\ pc' = pc /\ restore' = restore
  BY Zenon, <1>2, <1>5 DEF Sweep, SweepTick, SweepCheck, SweepUnsubscribeAll, SweepDelete, SameConns, connVars
<1>6. ASSUME UNCHANGED vars PROVE SameConns /\ SameObjects /\ pc' = pc /\ restore' = restore
  BY Zenon, <1>2, <1>6 DEF vars, SameConns, connVars
<1> QED
  BY Zenon, <1>3, <1>4, <1>5, <1>6 DEF Outside

\* A step reads a CONNECT, finds a session, is another step of a connection, or
\* is nobody's.
LEMMA Steps ==
  ASSUME [Next]_vars
  PROVE  \/ \E c \in Conns : \/ \E i \in ClientIds, r \in Requests : Connect(c, i, r)
                             \/ \E i \in ClientIds : PluginReject(c, i)
                             \/ GetOrCreate(c)
                             \/ Proceed(c)
         \/ Outside
BY Zenon DEF Next, ConnectStep, CleanupStep, Proceed, Outside

\* A CONNECT is the first packet of its connection.
LEMMA Begins ==
  ASSUME MaxConnects = 1, TypeInv, PhaseInv, NEW c \in Conns, NEW i \in ClientIds,
         (\E r \in Requests : Connect(c, i, r)) \/ PluginReject(c, i)
  PROVE  /\ pc[c] = "accept" /\ pc'[c] \in {"takeover", "close"}
         /\ id' = [id EXCEPT ![c] = i] /\ id'[c] = i /\ connects'[c] = 1
         /\ req'[c] \in AllRequests /\ connects' \in [Conns -> Nat]
         /\ overlapped' = (overlapped \/ ~Quiet(c, i))
         /\ \A d \in Conns \ {c} : /\ pc'[d] = pc[d] /\ id'[d] = id[d] /\ req'[d] = req[d]
                                   /\ connects'[d] = connects[d]
         /\ UNCHANGED <<sess, present, sock, target, restore, registry, store, obj, created,
                        sub, sweepPc, sweepSet, sweepCur, graceful, wills>>
<1>0. /\ pc \in [Conns -> Labels] /\ id \in [Conns -> ClientIds \cup {None}]
      /\ req \in [Conns -> AllRequests] /\ connects \in [Conns -> Nat]
  BY Zenon DEF TypeInv
<1>1. ReadConnect(c, i) /\ (Goto(c, "takeover") \/ Goto(c, "close"))
  BY Zenon DEF Connect, PluginReject
<1>2. pc[c] \in {"accept", "serve"} /\ connects[c] < 1
  BY <1>1 DEF ReadConnect
<1>3. pc[c] = "accept" /\ connects[c] = 0
  BY <1>2 DEF PhaseInv, Phase, Handshake
<1>4. pc'[c] \in {"takeover", "close"} /\ \A d \in Conns \ {c} : pc'[d] = pc[d]
  BY <1>0, <1>1 DEF Goto
<1>5. /\ id' = [id EXCEPT ![c] = i] /\ connects' = [connects EXCEPT ![c] = @ + 1]
      /\ overlapped' = (overlapped \/ ~Quiet(c, i))
  BY Zenon, <1>1 DEF ReadConnect
<1>6. /\ id'[c] = i /\ \A d \in Conns \ {c} : id'[d] = id[d] /\ connects'[d] = connects[d]
  BY <1>0, <1>5
<1>7. connects'[c] = 1 /\ connects' \in [Conns -> Nat]
  BY <1>0, <1>3, <1>5
<1>8. /\ req'[c] \in AllRequests /\ \A d \in Conns \ {c} : req'[d] = req[d]
  <2>1. CASE PluginReject(c, i)
    BY <1>0, <2>1 DEF PluginReject
  <2>2. ASSUME NEW r \in Requests, Connect(c, i, r)
        PROVE  req'[c] \in AllRequests /\ \A d \in Conns \ {c} : req'[d] = req[d]
    BY <1>0, <2>2, ConstantsAssumption DEF Connect
  <2> QED
    BY Zenon, <2>1, <2>2
<1>9. UNCHANGED <<sess, present, sock, target, restore, registry, store, obj, created,
                  sub, sweepPc, sweepSet, sweepCur, graceful, wills>>
  BY Zenon DEF Connect, PluginReject, sweepVars
<1> QED
  BY Zenon, <1>3, <1>4, <1>5, <1>6, <1>7, <1>8, <1>9

\* Store.GetOrCreate resumes the stored session of the client, if that and the
\* request are persistent, or creates one that replaces it.
LEMMA Resumes ==
  ASSUME TypeInv, NEW c \in Conns, GetOrCreate(c), PhaseInv
  PROVE  /\ pc[c] = "session" /\ pc'[c] = "clear" /\ id[c] \in ClientIds
         /\ \A d \in Conns \ {c} : pc'[d] = pc[d] /\ sess'[d] = sess[d]
         /\ UNCHANGED <<id, req, sock, connects, target, restore, registry, sub, sweepPc,
                        sweepSet, sweepCur, overlapped, graceful, wills>>
         /\ sess' \in [Conns -> Nat] /\ present' \in [Conns -> BOOLEAN]
         /\ \/ /\ store[id[c]] # 0 /\ ~obj[store[id[c]]].clean /\ ~req[c].clean
               /\ sess'[c] = store[id[c]]
               /\ UNCHANGED <<store, obj, created>>
            \/ /\ created + 1 \in SessIds /\ created' = created + 1 /\ sess'[c] = created + 1
               /\ store'[id[c]] = created + 1 /\ store' \in [ClientIds -> Nat]
               /\ \A j \in ClientIds : j # id[c] => store'[j] = store[j]
               /\ obj' \in [SessIds -> Sessions]
               /\ obj'[created + 1] = NewSession(id[c], req[c].clean)
               /\ \A x \in SessIds : x # created + 1 => obj'[x] = obj[x]
<1>0. /\ pc \in [Conns -> Labels] /\ store \in [ClientIds -> Nat] /\ sess \in [Conns -> Nat]
      /\ obj \in [SessIds -> Sessions] /\ created \in 0 .. MaxSess /\ req[c] \in AllRequests
      /\ present \in [Conns -> BOOLEAN]
  BY Zenon DEF TypeInv
<1> DEFINE cur    == store[id[c]]
           resume == ~req[c].clean /\ cur # 0 /\ ~obj[cur].clean
<1>1. pc[c] = "session" /\ pc' = [pc EXCEPT ![c] = "clear"]
  BY Zenon DEF GetOrCreate, Goto
<1>2. pc'[c] = "clear" /\ \A d \in Conns \ {c} : pc'[d] = pc[d]
  BY <1>0, <1>1
<1>3. id[c] \in ClientIds
  BY <1>1 DEF PhaseInv, Phase, Handshake
<1>4. UNCHANGED <<id, req, sock, connects, target, restore, registry, sub, sweepPc,
                  sweepSet, sweepCur, overlapped, graceful, wills>>
  BY Zenon DEF GetOrCreate, sweepVars, histVars
<1>5. present' \in [Conns -> BOOLEAN]
  <2>1. present' = [present EXCEPT ![c] = resume] /\ resume \in BOOLEAN
    BY Zenon DEF GetOrCreate
  <2> HIDE DEF resume
  <2> QED
    BY <1>0, <2>1
<1>6. CASE resume /\ sess' = [sess EXCEPT ![c] = cur] /\ UNCHANGED <<store, obj, created>>
  <2>1. sess'[c] = cur /\ sess' \in [Conns -> Nat] /\ \A d \in Conns \ {c} : sess'[d] = sess[d]
    BY <1>0, <1>3, <1>6
  <2> QED
    BY Zenon, <1>1, <1>2, <1>3, <1>4, <1>5, <1>6, <2>1
<1>7. CASE /\ created < MaxSess /\ created' = created + 1
           /\ sess' = [sess EXCEPT ![c] = created + 1]
           /\ store' = [store EXCEPT ![id[c]] = created + 1]
           /\ obj' = [obj EXCEPT ![created + 1] = NewSession(id[c], req[c].clean)]
  <2>1. created + 1 \in SessIds /\ created + 1 \in Nat
    BY <1>0, <1>7, ConstantsAssumption DEF SessIds
  <2>2. /\ sess'[c] = created + 1 /\ sess' \in [Conns -> Nat]
        /\ \A d \in Conns \ {c} : sess'[d] = sess[d]
    BY <1>0, <1>7, <2>1
  <2>3. /\ store'[id[c]] = created + 1 /\ store' \in [ClientIds -> Nat]
        /\ \A j \in ClientIds : j # id[c] => store'[j] = store[j]
    BY <1>0, <1>3, <1>7, <2>1
  <2>4. NewSession(id[c], req[c].clean) \in Sessions
    BY <1>0, <1>3 DEF NewSession, Sessions, AllRequests, Expiries
  <2>5. /\ obj' \in [SessIds -> Sessions]
        /\ obj'[created + 1] = NewSession(id[c], req[c].clean)
        /\ \A x \in SessIds : x # created + 1 => obj'[x] = obj[x]
    BY <1>0, <1>7, <2>1, <2>4
  <2> QED
    BY Zenon, <1>1, <1>2, <1>3, <1>4, <1>5, <1>7, <2>1, <2>2, <2>3, <2>5
<1> QED
  BY Zenon, <1>6, <1>7 DEF GetOrCreate

----------------------------------------------------------------------------
(* Types and phases. *)

\* The part of TypeInv that ProceedSame and OutsideSame do not speak of.
SharedType ==
  /\ present \in [Conns -> BOOLEAN]
  /\ sock \in [Conns -> BOOLEAN]
  /\ target \in [Conns -> Conns \cup {None}]
  /\ restore \in [Conns -> Nat]
  /\ registry \in [ClientIds -> Conns \cup {None}]
  /\ store \in [ClientIds -> Nat]
  /\ sub \in [ClientIds -> Conns \cup {None}]
  /\ sweepPc \in {"idle", "check", "unsub", "delete"}
  /\ sweepSet \subseteq 1 .. created
  /\ sweepCur \in 0 .. created
  /\ overlapped \in BOOLEAN
  /\ graceful \subseteq Conns
  /\ wills \subseteq [by : Conns, of : Conns]

\* Every step of a connection keeps the types of what it shares.
LEMMA ProceedShared ==
  ASSUME TypeInv, PhaseInv, SessionInv, NEW c \in Conns, Proceed(c)
  PROVE  SharedType'
<1>0. /\ present \in [Conns -> BOOLEAN] /\ sock \in [Conns -> BOOLEAN]
      /\ target \in [Conns -> Conns \cup {None}] /\ restore \in [Conns -> Nat]
      /\ registry \in [ClientIds -> Conns \cup {None}] /\ store \in [ClientIds -> Nat]
      /\ sub \in [ClientIds -> Conns \cup {None}] /\ graceful \subseteq Conns
      /\ wills \subseteq [by : Conns, of : Conns] /\ pc[c] \in Labels
  BY Zenon DEF TypeInv
<1>1. SharedType
  BY Zenon DEF TypeInv, SharedType
<1>2. CASE ClearDisconnectExpiry(c) \/ SetProtocolAndExpiry(c) \/ SetWill(c) \/ SetConnected(c)
           \/ Drop(c) \/ SetDisconnected(c) \/ PrepareDisconnectExpiry(c)
  BY Zenon, <1>1, <1>2 DEF SharedType, ClearDisconnectExpiry, SetProtocolAndExpiry, SetWill, SetConnected, Drop, SetDisconnected, PrepareDisconnectExpiry,
    sweepVars, histVars
<1>3. ASSUME takeover(c) PROVE SharedType'
  <2>1. target' \in [Conns -> Conns \cup {None}]
    BY <1>0, <1>3 DEF takeover, PhaseInv, Phase, Handshake
  <2> QED
    BY Zenon, <1>1, <1>3, <2>1 DEF SharedType, takeover, connVars, sweepVars, histVars
<1>4. ASSUME Evict(c) PROVE SharedType'
  <2>1. target' \in [Conns -> Conns \cup {None}] /\ sock' \in [Conns -> BOOLEAN]
    BY Zenon, <1>0, <1>4 DEF Evict
  <2> QED
    BY Zenon, <1>1, <1>4, <2>1 DEF SharedType, Evict, connVars, sweepVars, histVars
<1>5. ASSUME register(c) PROVE SharedType'
  <2>1. registry' \in [ClientIds -> Conns \cup {None}]
    BY Zenon, <1>0, <1>5 DEF register
  <2>2. restore' = restore \/ restore' = [restore EXCEPT ![c] = @ + 1]
    BY <1>5 DEF register
  <2>3. restore' \in [Conns -> Nat]
    BY <1>0, <2>2
  <2> QED
    BY Zenon, <1>1, <1>5, <2>1, <2>3 DEF SharedType, register, connVars, sweepVars, histVars
<1>6. ASSUME Subscribe(c) PROVE SharedType'
  <2>1. sub' \in [ClientIds -> Conns \cup {None}]
    BY Zenon, <1>0, <1>6 DEF Subscribe
  <2> QED
    BY Zenon, <1>1, <1>6, <2>1 DEF SharedType, Subscribe, connVars, sweepVars, histVars
<1>7. ASSUME restoreSession(c) PROVE SharedType'
  <2>1. restore' \in [Conns -> Nat] /\ sub' \in [ClientIds -> Conns \cup {None}]
    BY <1>0, <1>7 DEF restoreSession
  <2> QED
    BY Zenon, <1>1, <1>7, <2>1 DEF SharedType, restoreSession, connVars, sweepVars, histVars
<1>8. ASSUME handleDisconnect(c) PROVE SharedType'
  <2>1. graceful' \subseteq Conns
    BY <1>0, <1>8 DEF handleDisconnect
  <2> QED
    BY Zenon, <1>1, <1>8, <2>1 DEF SharedType, handleDisconnect, connVars, sweepVars, histVars
<1>9. ASSUME Close(c) PROVE SharedType'
  <2>1. sock' \in [Conns -> BOOLEAN]
    BY <1>0, <1>9 DEF Close
  <2> QED
    BY Zenon, <1>1, <1>9, <2>1 DEF SharedType, Close, connVars, sweepVars, histVars
<1>10. ASSUME unregister(c) PROVE SharedType'
  <2>1. registry' \in [ClientIds -> Conns \cup {None}]
    BY Zenon, <1>0, <1>10 DEF unregister
  <2> QED
    BY Zenon, <1>1, <1>10, <2>1 DEF SharedType, unregister, connVars, sweepVars, histVars
<1>11. ASSUME UnsubscribeAll(c) PROVE SharedType'
  <2>1. sub' \in [ClientIds -> Conns \cup {None}]
    BY Zenon, <1>0, <1>11 DEF UnsubscribeAll
  <2> QED
    BY Zenon, <1>1, <1>11, <2>1 DEF SharedType, UnsubscribeAll, connVars, sweepVars, histVars
<1>12. ASSUME DeleteSession(c) PROVE SharedType'
  <2>1. store' \in [ClientIds -> Nat]
    BY Zenon, <1>0, <1>12 DEF DeleteSession
  <2> QED
    BY Zenon, <1>1, <1>12, <2>1 DEF SharedType, DeleteSession, connVars, sweepVars, histVars
<1>13. ASSUME PublishWill(c) PROVE SharedType'
  <2>1. sess[c] \in SessIds /\ obj \in [SessIds -> Sessions]
    <3>1. pc[c] \in HasSess
      BY <1>13 DEF PublishWill, HasSess, Cleanup
    <3>2. sess[c] \in 1 .. created /\ created \in 0 .. MaxSess
      BY Zenon, <3>1 DEF PhaseInv, Phase, SessionInv, Held, TypeInv
    <3> QED
      BY <3>2, ConstantsAssumption DEF SessIds, TypeInv
  <2>2. obj[sess[c]].will \in Conns \cup {None}
    BY <2>1 DEF Sessions
  <2>3. wills' \subseteq [by : Conns, of : Conns]
    BY <1>0, <1>13, <2>2 DEF PublishWill
  <2> QED
    BY Zenon, <1>1, <1>13, <2>3 DEF SharedType, PublishWill, sweepVars
<1> QED
  BY Zenon, <1>2, <1>3, <1>4, <1>5, <1>6, <1>7, <1>8, <1>9, <1>10, <1>11, <1>12, <1>13 DEF Proceed

\* So do the steps of nobody.
LEMMA OutsideShared ==
  ASSUME TypeInv, SessionInv, Outside
  PROVE  SharedType'
<1>1. SharedType
  BY Zenon DEF TypeInv, SharedType
<1>2. ASSUME NEW i \in ClientIds, ForceDisconnect(i) PROVE SharedType'
  <2>1. sock' \in [Conns -> BOOLEAN]
    BY <1>1, <1>2 DEF ForceDisconnect, SharedType
  <2> QED
    BY Zenon, <1>1, <1>2, <2>1 DEF SharedType, ForceDisconnect, sweepVars, histVars
<1>3. ASSUME NEW s \in SessIds, DeadlinePasses(s) PROVE SharedType'
  BY Zenon, <1>1, <1>3 DEF SharedType, DeadlinePasses, connVars, sweepVars, histVars
<1>4. CASE SweepTick
  <2>1. \A i \in ClientIds : store[i] # 0 => store[i] \in 1 .. created
    BY Zenon DEF SessionInv
  <2>2. sweepSet' \subseteq 1 .. created
    BY <1>4, <2>1 DEF SweepTick
  <2>3. overlapped' \in BOOLEAN /\ sweepPc' \in {"idle", "check", "unsub", "delete"}
    BY <1>4 DEF SweepTick
  <2> QED
    BY Zenon, <1>1, <1>4, <2>2, <2>3 DEF SharedType, SweepTick, connVars
<1>5. CASE SweepCheck
  <2>0. sweepPc \in {"idle", "check", "unsub", "delete"} /\ created \in 0 .. MaxSess
    BY Zenon DEF TypeInv
  <2>1. sweepSet' \subseteq sweepSet /\ sweepPc' \in {"idle", "check", "unsub", "delete"}
    BY <1>5, <2>0 DEF SweepCheck
  <2>2. sweepCur' = sweepCur \/ sweepCur' \in sweepSet
    BY Zenon, <1>5 DEF SweepCheck
  <2>3. sweepSet' \subseteq 1 .. created
    BY Zenon, <1>1, <2>1 DEF SharedType
  <2>4. sweepCur' \in 0 .. created
    <3>1. sweepCur' \in 0 .. created \/ sweepCur' \in 1 .. created
      BY Zenon, <1>1, <2>2 DEF SharedType
    <3> QED
      BY <2>0, <3>1
  <2> QED
    BY Zenon, <1>1, <1>5, <2>1, <2>3, <2>4 DEF SharedType, SweepCheck, connVars, histVars
<1>6. CASE SweepUnsubscribeAll
  <2>1. sub' \in [ClientIds -> Conns \cup {None}] /\ sweepPc' \in {"idle", "check", "unsub", "delete"}
    BY Zenon, <1>1, <1>6 DEF SweepUnsubscribeAll, SharedType
  <2> QED
    BY Zenon, <1>1, <1>6, <2>1 DEF SharedType, SweepUnsubscribeAll, connVars, histVars
<1>7. CASE SweepDelete
  <2>1. store' \in [ClientIds -> Nat] /\ sweepPc' \in {"idle", "check", "unsub", "delete"}
    BY Zenon, <1>1, <1>7 DEF SweepDelete, SharedType
  <2>2. created \in 0 .. MaxSess /\ sweepCur' = 0
    BY Zenon, <1>7 DEF SweepDelete, TypeInv
  <2>3. sweepCur' \in 0 .. created
    BY <2>2
  <2> QED
    BY Zenon, <1>1, <1>7, <2>1, <2>3 DEF SharedType, SweepDelete, connVars, histVars
<1>8. CASE UNCHANGED vars
  BY Zenon, <1>1, <1>8 DEF SharedType, vars, connVars, sweepVars, histVars
<1> QED
  BY Zenon, <1>2, <1>3, <1>4, <1>5, <1>6, <1>7, <1>8 DEF Outside, Sweep

\* Every step keeps the types.
LEMMA TypeStep ==
  ASSUME MaxConnects = 1, TypeInv, PhaseInv, SessionInv, [Next]_vars
  PROVE  TypeInv'
<1>0. pc \in [Conns -> Labels]
  BY Zenon DEF TypeInv
<1>1. ASSUME SameConns, SameObjects, SharedType', pc' \in [Conns -> Labels] PROVE TypeInv'
  BY Zenon, <1>1 DEF TypeInv, SharedType, SameConns, SameObjects
<1>2. ASSUME NEW c \in Conns, Proceed(c) PROVE TypeInv'
  <2>1. ASSUME Moves(c) PROVE pc' \in [Conns -> Labels]
    BY <1>0, <2>1 DEF Moves
  <2>2. pc' \in [Conns -> Labels]
    BY Zenon, <1>0, <1>2, <2>1, ProceedSame
  <2> QED
    BY Zenon, <1>1, <1>2, <2>2, ProceedSame, ProceedShared
<1>3. CASE Outside
  BY Zenon, <1>0, <1>1, <1>3, OutsideSame, OutsideShared
<1>4. ASSUME NEW c \in Conns, GetOrCreate(c) PROVE TypeInv'
  <2>1. pc' \in [Conns -> Labels]
    <3>1. pc' = [pc EXCEPT ![c] = "clear"]
      BY Zenon, <1>4 DEF GetOrCreate, Goto
    <3> QED
      BY <1>0, <3>1 DEF Labels, Handshake
  <2>2. created' \in 0 .. MaxSess /\ 1 .. created \subseteq 1 .. created' /\ 0 .. created \subseteq 0 .. created'
    <3>1. created \in 0 .. MaxSess /\ MaxSess \in Nat
      BY Zenon, ConstantsAssumption DEF TypeInv
    <3>2. created' = created \/ (created' = created + 1 /\ created + 1 \in SessIds)
      BY Zenon, <1>4, Resumes
    <3> QED
      BY <3>1, <3>2 DEF SessIds
  <2>3. obj' \in [SessIds -> Sessions] /\ store' \in [ClientIds -> Nat]
    BY Zenon, <1>4, Resumes DEF TypeInv
  <2>4. sweepSet' \subseteq 1 .. created' /\ sweepCur' \in 0 .. created'
    <3>1. sweepSet' = sweepSet /\ sweepCur' = sweepCur
      BY Zenon, <1>4, Resumes
    <3> QED
      BY Zenon, <2>2, <3>1 DEF TypeInv
  <2>5. /\ sess' \in [Conns -> Nat] /\ present' \in [Conns -> BOOLEAN]
        /\ UNCHANGED <<id, req, sock, connects, target, restore, registry, sub, sweepPc,
                       overlapped, graceful, wills>>
    BY Zenon, <1>4, Resumes
  <2> QED
    BY Zenon, <2>1, <2>2, <2>3, <2>4, <2>5 DEF TypeInv
<1>5. ASSUME NEW c \in Conns, NEW i \in ClientIds,
             (\E r \in Requests : Connect(c, i, r)) \/ PluginReject(c, i)
      PROVE  TypeInv'
  <2>1. pc' \in [Conns -> Labels]
    <3>1. pc' = [pc EXCEPT ![c] = "takeover"] \/ pc' = [pc EXCEPT ![c] = "close"]
      BY Zenon, <1>5 DEF Connect, PluginReject, Goto
    <3> QED
      BY <1>0, <3>1 DEF Labels, Handshake
  <2>2. /\ id' = [id EXCEPT ![c] = i] /\ connects' \in [Conns -> Nat]
        /\ overlapped' = (overlapped \/ ~Quiet(c, i))
        /\ UNCHANGED <<sess, present, sock, target, restore, registry, store, obj, created,
                       sub, sweepPc, sweepSet, sweepCur, graceful, wills>>
    BY Zenon, <1>5, Begins
  <2>3. id' \in [Conns -> ClientIds \cup {None}]
    BY <2>2 DEF TypeInv
  <2>4. overlapped' \in BOOLEAN
    BY Zenon, <2>2
  <2>5. req' \in [Conns -> AllRequests]
    <3>1. req' = req \/ \E r \in Requests : req' = [req EXCEPT ![c] = r]
      BY Zenon, <1>5 DEF Connect, PluginReject
    <3> QED
      BY <3>1, ConstantsAssumption DEF TypeInv
  <2> QED
    BY Zenon, <2>1, <2>2, <2>3, <2>4, <2>5 DEF TypeInv
<1> QED
  BY Zenon, <1>2, <1>3, <1>4, <1>5, Steps

\* Every step keeps the phases.
LEMMA PhaseStep ==
  ASSUME MaxConnects = 1, TypeInv, PhaseInv, SessionInv, [Next]_vars
  PROVE  PhaseInv'
<1>0. /\ \A d \in Conns : Phase(d) /\ Held(d)
      /\ pc \in [Conns -> Labels] /\ restore \in [Conns -> Nat]
      /\ \A d \in Conns : id[d] \in ClientIds \cup {None}
  BY Zenon DEF TypeInv, PhaseInv, SessionInv
<1>1. ASSUME NEW d \in Conns, SameConns, pc'[d] = pc[d],
             restore'[d] > 0 => restore[d] > 0 \/ (pc[d] = "register" /\ ~req[d].clean)
      PROVE  Phase(d)'
  <2>1. pc[d] = "register" => sess[d] # 0
    BY <1>0 DEF Phase, HasSess
  <2> QED
    BY Zenon, <1>0, <1>1, <2>1 DEF Phase, SameConns
<1>2. ASSUME NEW c \in Conns, Proceed(c), NEW d \in Conns PROVE Phase(d)'
  <2>1. /\ SameConns /\ (pc' = pc \/ Moves(c))
        /\ restore'[d] > 0 => restore[d] > 0 \/ (pc[d] = "register" /\ ~req[d].clean)
    BY Zenon, <1>2, ProceedSame
  <2>2. CASE pc' = pc
    BY Zenon, <1>1, <2>1, <2>2
  <2>3. CASE Moves(c)
    <3>1. PICK m \in Labels : Ahead(c, m) /\ pc' = [pc EXCEPT ![c] = m]
      BY Zenon, <2>3 DEF Moves
    <3>2. CASE d # c
      <4>1. pc'[d] = pc[d]
        BY <1>0, <3>1, <3>2
      <4> QED
        BY Zenon, <1>1, <2>1, <4>1
    <3>3. CASE d = c
      <4>1. pc'[c] = m
        BY <1>0, <3>1
      <4>2. /\ m # "accept"
            /\ m \in Handshake \cup {"serve"} => pc[c] \in Handshake \cup {"serve"}
        BY <3>1 DEF Ahead, Handshake
      <4>3. m \in Handshake \cup {"serve"} \cup Cleanup => id[c] \in ClientIds
        BY <1>0, <3>1 DEF Ahead, Phase, Handshake, Cleanup
      <4>4. m \in HasSess => sess[c] # 0
        BY <1>0, <3>1 DEF Ahead, Phase, HasSess, Cleanup
      <4>5. restore'[c] > 0 => sess[c] # 0 /\ ~req[c].clean
        BY <1>0, <2>1, <3>3 DEF Phase, HasSess
      <4> QED
        BY Zenon, <1>0, <2>1, <3>3, <4>1, <4>2, <4>3, <4>4, <4>5 DEF Phase, SameConns
    <3> QED
      BY Zenon, <3>2, <3>3
  <2> QED
    BY Zenon, <2>1, <2>2, <2>3
<1>3. ASSUME Outside, NEW d \in Conns PROVE Phase(d)'
  BY Zenon, <1>1, <1>3, OutsideSame
<1>4. ASSUME NEW c \in Conns, GetOrCreate(c), NEW d \in Conns PROVE Phase(d)'
  <2>1. /\ pc[c] = "session" /\ pc'[c] = "clear" /\ id[c] \in ClientIds
        /\ id' = id /\ req' = req /\ connects' = connects /\ restore' = restore
        /\ d # c => pc'[d] = pc[d] /\ sess'[d] = sess[d]
        /\ (sess'[c] = store[id[c]] /\ store[id[c]] # 0) \/ sess'[c] = created + 1
    BY Zenon, <1>4, Resumes
  <2>2. CASE d # c
    BY Zenon, <1>0, <2>1, <2>2 DEF Phase
  <2>3. CASE d = c
    <3>1. sess'[c] # 0 /\ connects[c] = 1 /\ ~(restore[c] > 0)
      BY <1>0, <2>1 DEF Phase, Held, Handshake, TypeInv
    <3>2. "clear" # "accept"
      OBVIOUS
    <3> QED
      BY Zenon, <2>1, <2>3, <3>1, <3>2 DEF Phase
  <2> QED
    BY Zenon, <2>2, <2>3
<1>5. ASSUME NEW c \in Conns, NEW i \in ClientIds,
             (\E r \in Requests : Connect(c, i, r)) \/ PluginReject(c, i), NEW d \in Conns
      PROVE  Phase(d)'
  <2>1. /\ pc[c] = "accept" /\ pc'[c] \in {"takeover", "close"}
        /\ id'[c] = i /\ connects'[c] = 1 /\ sess' = sess /\ restore' = restore
        /\ d # c => /\ pc'[d] = pc[d] /\ id'[d] = id[d] /\ req'[d] = req[d]
                    /\ connects'[d] = connects[d]
    BY ZenonT(60), <1>5, Begins
  <2>2. CASE d # c
    BY Zenon, <1>0, <2>1, <2>2 DEF Phase
  <2>3. CASE d = c
    <3>1. sess[c] = 0
      BY Zenon, <1>0, <2>1 DEF Held
    <3>2. ~(restore[c] > 0) /\ pc'[c] # "accept" /\ pc'[c] \notin HasSess
      BY <1>0, <2>1, <3>1 DEF Phase, HasSess, Cleanup
    <3> QED
      BY Zenon, <1>5, <2>1, <2>3, <3>2 DEF Phase
  <2> QED
    BY Zenon, <2>2, <2>3
<1>6. \A d \in Conns : Phase(d)'
  BY Zenon, <1>2, <1>3, <1>4, <1>5, Steps
<1> QED
  BY Zenon, <1>6 DEF PhaseInv

\* Without GetOrCreate the store only loses sessions; a connection leaves the
\* sweep alone, and the sweep takes on a session only when it may expire it.
LEMMA StoreSteps ==
  ASSUME TypeInv, Outside \/ \E c \in Conns : Proceed(c)
  PROVE  /\ \A i \in ClientIds : store'[i] \in {store[i], 0}
         /\ sweepPc' \in {"unsub", "delete"} =>
              \/ sweepPc \in {"unsub", "delete"} /\ sweepCur' = sweepCur
              \/ \E s \in sweepSet : sweepCur' = s /\ ShouldExpireDisconnected(s)
<1> DEFINE Sweeps == sweepPc' \in {"unsub", "delete"} =>
                       \/ sweepPc \in {"unsub", "delete"} /\ sweepCur' = sweepCur
                       \/ \E s \in sweepSet : sweepCur' = s /\ ShouldExpireDisconnected(s)
           Stores == \A i \in ClientIds : store'[i] \in {store[i], 0}
<1>0. store \in [ClientIds -> Nat]
  BY Zenon DEF TypeInv
<1>1. ASSUME NEW c \in Conns, Proceed(c) PROVE Stores /\ Sweeps
  <2>1. sweepPc' = sweepPc /\ sweepCur' = sweepCur
    BY Zenon, <1>1 DEF Proceed, takeover, Evict, ClearDisconnectExpiry, SetProtocolAndExpiry,
      SetWill, SetConnected, register, Subscribe, restoreSession, handleDisconnect, Drop, Close,
      unregister, SetDisconnected, PrepareDisconnectExpiry, UnsubscribeAll, DeleteSession,
      PublishWill, sweepVars
  <2>2. CASE DeleteSession(c)
    <3>1. Stores
      BY <1>0, <2>2 DEF DeleteSession
    <3> QED
      BY Zenon, <2>1, <3>1
  <2>3. CASE ~DeleteSession(c)
    <3>1. store' = store
      BY Zenon, <1>1, <2>3 DEF Proceed, takeover, Evict, ClearDisconnectExpiry,
        SetProtocolAndExpiry, SetWill, SetConnected, register, Subscribe, restoreSession,
        handleDisconnect, Drop, Close, unregister, SetDisconnected, PrepareDisconnectExpiry,
        UnsubscribeAll, PublishWill
    <3> QED
      BY Zenon, <2>1, <3>1
  <2> QED
    BY Zenon, <2>2, <2>3
<1>2. ASSUME store' = store, sweepPc' = sweepPc, sweepCur' = sweepCur PROVE Stores /\ Sweeps
  BY Zenon, <1>2
<1>3. ASSUME NEW i \in ClientIds, ForceDisconnect(i) PROVE Stores /\ Sweeps
  BY Zenon, <1>2, <1>3 DEF ForceDisconnect, sweepVars
<1>4. ASSUME NEW s \in SessIds, DeadlinePasses(s) PROVE Stores /\ Sweeps
  BY Zenon, <1>2, <1>4 DEF DeadlinePasses, sweepVars
<1>5. CASE UNCHANGED vars
  BY Zenon, <1>2, <1>5 DEF vars, sweepVars
<1>6. CASE SweepTick
  BY <1>6 DEF SweepTick
<1>7. CASE SweepCheck
  <2>1. store' = store
    BY Zenon, <1>7 DEF SweepCheck
  <2>2. Sweeps
    BY <1>7 DEF SweepCheck
  <2> QED
    BY Zenon, <2>1, <2>2
<1>8. CASE SweepUnsubscribeAll
  BY Zenon, <1>8 DEF SweepUnsubscribeAll
<1>9. CASE SweepDelete
  <2>1. Stores
    BY <1>0, <1>9 DEF SweepDelete
  <2>2. Sweeps
    BY <1>9 DEF SweepDelete
  <2> QED
    BY Zenon, <2>1, <2>2
<1> QED
  BY Zenon, <1>1, <1>3, <1>4, <1>5, <1>6, <1>7, <1>8, <1>9 DEF Outside, Sweep

\* The sessions a state mentions are objects.
LEMMA SessionIds ==
  ASSUME TypeInv
  PROVE  created \in Nat /\ \A s \in 1 .. created : s \in SessIds
BY ConstantsAssumption DEF TypeInv, SessIds

\* Every step keeps sessions with their clients.
LEMMA SessionStep ==
  ASSUME MaxConnects = 1, TypeInv, PhaseInv, SessionInv, [Next]_vars
  PROVE  SessionInv'
<1>0. /\ \A d \in Conns : Held(d)
      /\ \A s \in 1 .. created : s \in SessIds /\ obj[s].client \in ClientIds
      /\ \A i \in ClientIds : store[i] # 0 => store[i] \in 1 .. created /\ obj[store[i]].client = i
      /\ sweepPc \in {"unsub", "delete"} =>
           sweepCur # 0 /\ sweepCur \in 1 .. created /\ ~obj[sweepCur].clean
  <2>1. sweepCur \in 0 .. created /\ created \in Nat
    BY Zenon, SessionIds DEF TypeInv
  <2>2. sweepCur # 0 => sweepCur \in 1 .. created
    BY <2>1
  <2> QED
    BY Zenon, <2>2, SessionIds DEF SessionInv
<1>1. ASSUME SameConns, SameObjects, pc' = pc \/ \E c \in Conns : Moves(c),
             Outside \/ \E c \in Conns : Proceed(c)
      PROVE  SessionInv'
  <2>1. \A s \in 1 .. created' : s \in SessIds /\ obj'[s].client = obj[s].client /\ obj'[s].clean = obj[s].clean
    BY Zenon, <1>0, <1>1 DEF SameConns, SameObjects
  <2>2. ASSUME NEW d \in Conns PROVE Held(d)'
    <3>1. ASSUME sess[d] # 0 PROVE pc'[d] \notin {"accept", "takeover", "evict", "session"}
      <4>1. pc[d] \notin {"accept", "takeover", "evict", "session"}
        BY Zenon, <1>0, <3>1 DEF Held
      <4>2. ASSUME NEW c \in Conns, Moves(c)
            PROVE  pc'[d] \notin {"accept", "takeover", "evict", "session"}
        <5>1. PICK m \in Labels : Ahead(c, m) /\ pc' = [pc EXCEPT ![c] = m]
          BY Zenon, <4>2 DEF Moves
        <5>2. c = d => m \notin {"accept", "takeover", "evict", "session"}
          BY <4>1, <5>1 DEF Ahead
        <5> QED
          BY <4>1, <5>1, <5>2 DEF TypeInv
      <4> QED
        BY Zenon, <1>1, <4>1, <4>2
    <3> QED
      BY Zenon, <1>0, <1>1, <2>1, <3>1 DEF Held, SameConns
  <2>3. ASSUME NEW i \in ClientIds, store'[i] # 0
        PROVE  store'[i] \in 1 .. created' /\ obj'[store'[i]].client = i
    <3>1. store'[i] = store[i]
      BY <1>1, <2>3, StoreSteps
    <3> QED
      BY Zenon, <1>0, <1>1, <2>1, <2>3, <3>1 DEF SameConns
  <2>4. ASSUME sweepPc' \in {"unsub", "delete"} PROVE sweepCur' # 0 /\ ~obj'[sweepCur'].clean
    <3>1. CASE sweepPc \in {"unsub", "delete"} /\ sweepCur' = sweepCur
      BY Zenon, <1>0, <1>1, <2>1, <3>1 DEF SameConns
    <3>2. ASSUME NEW s \in sweepSet, sweepCur' = s, ShouldExpireDisconnected(s)
          PROVE  sweepCur' # 0 /\ ~obj'[sweepCur'].clean
      <4>1. s \in 1 .. created /\ ~obj[s].clean
        BY Zenon, <3>2 DEF TypeInv, ShouldExpireDisconnected
      <4>2. s # 0
        BY <4>1, SessionIds
      <4> QED
        BY Zenon, <1>1, <2>1, <3>2, <4>1, <4>2 DEF SameConns
    <3> QED
      BY Zenon, <1>1, <2>4, <3>1, <3>2, StoreSteps
  <2>5. \A s \in 1 .. created' : obj'[s].client \in ClientIds
    BY Zenon, <1>0, <1>1, <2>1 DEF SameConns
  <2> QED
    BY Zenon, <2>2, <2>3, <2>4, <2>5 DEF SessionInv
<1>2. ASSUME NEW c \in Conns, Proceed(c) PROVE SessionInv'
  BY Zenon, <1>1, <1>2, ProceedSame
<1>3. CASE Outside
  BY Zenon, <1>1, <1>3, OutsideSame
<1>4. ASSUME NEW c \in Conns, GetOrCreate(c) PROVE SessionInv'
  <2>1. /\ pc[c] = "session" /\ pc'[c] = "clear" /\ id[c] \in ClientIds
        /\ \A d \in Conns \ {c} : pc'[d] = pc[d] /\ sess'[d] = sess[d]
        /\ id' = id /\ req' = req /\ sweepPc' = sweepPc /\ sweepCur' = sweepCur
    BY Zenon, <1>4, Resumes
  <2>2. pc'[c] \notin {"accept", "takeover", "evict", "session"}
    BY <2>1
  <2>3. CASE /\ store[id[c]] # 0 /\ ~obj[store[id[c]]].clean /\ ~req[c].clean
             /\ sess'[c] = store[id[c]]
             /\ UNCHANGED <<store, obj, created>>
    <3>1. obj[store[id[c]]].clean = req[c].clean
      <4>1. obj[store[id[c]]].clean \in BOOLEAN /\ req[c].clean \in BOOLEAN
        BY <1>0, <2>1, <2>3 DEF TypeInv, Sessions, AllRequests
      <4> QED
        BY Zenon, <2>3, <4>1
    <3>2. Held(c)'
      BY Zenon, <1>0, <2>1, <2>2, <2>3, <3>1 DEF Held
    <3>3. ASSUME NEW d \in Conns \ {c} PROVE Held(d)'
      BY Zenon, <1>0, <2>1, <2>3 DEF Held
    <3>4. \A d \in Conns : Held(d)'
      BY Zenon, <3>2, <3>3
    <3> QED
      BY Zenon, <1>0, <2>1, <2>3, <3>4 DEF SessionInv
  <2>4. CASE /\ created + 1 \in SessIds /\ created' = created + 1 /\ sess'[c] = created + 1
             /\ store'[id[c]] = created + 1
             /\ \A j \in ClientIds : j # id[c] => store'[j] = store[j]
             /\ obj'[created + 1] = NewSession(id[c], req[c].clean)
             /\ \A x \in SessIds : x # created + 1 => obj'[x] = obj[x]
    <3>1. /\ \A s \in 1 .. created : s \in 1 .. created' /\ s # created + 1
          /\ \A s \in 1 .. created' : s \in 1 .. created \/ s = created + 1
          /\ created + 1 \in 1 .. created'
      BY <2>4, SessionIds
    <3>2. \A s \in 1 .. created : obj'[s] = obj[s]
      BY Zenon, <1>0, <2>4, <3>1
    <3>3. obj'[created + 1].client = id[c] /\ obj'[created + 1].clean = req[c].clean
      BY <2>4 DEF NewSession
    <3>4. Held(c)'
      BY Zenon, <2>1, <2>2, <2>4, <3>1, <3>3 DEF Held
    <3>5. ASSUME NEW d \in Conns \ {c} PROVE Held(d)'
      <4>1. sess[d] # 0 => sess[d] \in 1 .. created
        BY Zenon, <1>0 DEF Held
      <4>2. sess[d] # 0 => sess[d] \in 1 .. created' /\ obj'[sess[d]] = obj[sess[d]]
        BY Zenon, <3>1, <3>2, <4>1
      <4>3. sess'[d] = sess[d] /\ pc'[d] = pc[d] /\ id'[d] = id[d] /\ req'[d] = req[d]
        BY Zenon, <2>1
      <4>4. Held(d)
        BY Zenon, <1>0
      <4> QED
        BY <4>2, <4>3, <4>4 DEF Held
    <3>6. \A d \in Conns : Held(d)'
      BY Zenon, <3>4, <3>5
    <3>7. \A s \in 1 .. created' : obj'[s].client \in ClientIds
      BY Zenon, <1>0, <2>1, <3>1, <3>2, <3>3
    <3>8. ASSUME NEW i \in ClientIds, store'[i] # 0
          PROVE  store'[i] \in 1 .. created' /\ obj'[store'[i]].client = i
      <4>1. CASE i = id[c]
        BY Zenon, <2>4, <3>1, <3>3, <4>1
      <4>2. CASE i # id[c]
        <5>1. store'[i] = store[i] /\ store[i] \in 1 .. created /\ obj[store[i]].client = i
          BY Zenon, <1>0, <2>4, <3>8, <4>2
        <5> QED
          BY Zenon, <3>1, <3>2, <5>1
      <4> QED
        BY Zenon, <4>1, <4>2
    <3>9. sweepPc' \in {"unsub", "delete"} => sweepCur' # 0 /\ ~obj'[sweepCur'].clean
      BY Zenon, <1>0, <2>1, <3>2
    <3> QED
      BY Zenon, <3>6, <3>7, <3>8, <3>9 DEF SessionInv
  <2> QED
    BY Zenon, <1>4, <2>3, <2>4, Resumes
<1>5. ASSUME NEW c \in Conns, NEW i \in ClientIds,
             (\E r \in Requests : Connect(c, i, r)) \/ PluginReject(c, i)
      PROVE  SessionInv'
  <2>1. /\ pc[c] = "accept"
        /\ UNCHANGED <<sess, store, obj, created, sweepPc, sweepCur>>
        /\ \A d \in Conns \ {c} : pc'[d] = pc[d] /\ id'[d] = id[d] /\ req'[d] = req[d]
    BY Zenon, <1>5, Begins
  <2>2. sess[c] = 0
    BY Zenon, <1>0, <2>1 DEF Held
  <2>3. ASSUME NEW d \in Conns PROVE Held(d)'
    BY Zenon, <1>0, <2>1, <2>2 DEF Held
  <2> QED
    BY Zenon, <1>0, <2>1, <2>3 DEF SessionInv
<1> QED
  BY Zenon, <1>2, <1>3, <1>4, <1>5, Steps

----------------------------------------------------------------------------
(* The registry. *)

\* register and unregister alone write the registry, and unregister alone ends
\* the stretch in which a connection may be registered.
LEMMA RegistrySteps ==
  ASSUME NEW c \in Conns, Proceed(c), ~register(c), ~unregister(c)
  PROVE  registry' = registry /\ (pc' = pc \/ pc[c] # "unregister")
<1>1. registry' = registry
  BY Zenon DEF Proceed, takeover, Evict, ClearDisconnectExpiry, SetProtocolAndExpiry, SetWill,
    SetConnected, Subscribe, restoreSession, handleDisconnect, Drop, Close, SetDisconnected,
    PrepareDisconnectExpiry, UnsubscribeAll, DeleteSession, PublishWill
<1>2. \/ pc' = pc
      \/ pc[c] \in {"takeover", "evict", "clear", "expiry", "will", "online", "serve", "accept",
                    "close", "offline", "prepare", "unsub", "delete", "lastwill"}
  BY Zenon DEF Proceed, takeover, Evict, ClearDisconnectExpiry, SetProtocolAndExpiry, SetWill,
    SetConnected, Subscribe, restoreSession, handleDisconnect, Drop, Close, SetDisconnected,
    PrepareDisconnectExpiry, UnsubscribeAll, DeleteSession, PublishWill, connVars
<1> QED
  BY <1>1, <1>2

\* Every step keeps the registry truthful.
LEMMA RegistryStep ==
  ASSUME MaxConnects = 1, TypeInv, PhaseInv, SessionInv, RegistryNeverStale, [Next]_vars
  PROVE  RegistryNeverStale'
<1> DEFINE Listed == {"serve", "close", "unregister"}
<1>0. /\ pc \in [Conns -> Labels] /\ registry \in [ClientIds -> Conns \cup {None}]
      /\ None \notin ClientIds
  BY Zenon, ConstantsAssumption DEF TypeInv
<1>1. ASSUME NEW i \in ClientIds, registry[i] # None
      PROVE  /\ registry[i] \in Conns /\ id[registry[i]] = i /\ id[registry[i]] # None
             /\ pc[registry[i]] \in Listed
  BY Zenon, <1>0, <1>1 DEF RegistryNeverStale
<1>2. ASSUME NEW i \in ClientIds, registry'[i] # None, registry'[i] = registry[i],
             id'[registry[i]] = id[registry[i]], pc'[registry[i]] \in Listed
      PROVE  id'[registry'[i]] = i /\ pc'[registry'[i]] \in Listed
  BY Zenon, <1>1, <1>2
<1>3. ASSUME NEW c \in Conns, Proceed(c) PROVE RegistryNeverStale'
  <2>0. id' = id /\ (pc' = pc \/ Moves(c))
    BY Zenon, <1>3, ProceedSame DEF SameConns
  <2>1. CASE register(c)
    <3>1. /\ pc[c] = "register" /\ pc' = [pc EXCEPT ![c] = "serve"]
          /\ registry' = [registry EXCEPT ![id[c]] = c]
      BY Zenon, <2>1 DEF register, Goto
    <3>2. id[c] \in ClientIds
      BY <3>1 DEF PhaseInv, Phase, Handshake
    <3>3. /\ registry'[id[c]] = c /\ pc'[c] = "serve" /\ \A d \in Conns \ {c} : pc'[d] = pc[d]
          /\ \A i \in ClientIds : i # id[c] => registry'[i] = registry[i]
      BY <1>0, <3>1, <3>2
    <3>4. ASSUME NEW i \in ClientIds, registry[i] # None PROVE registry[i] # c
      BY <1>1, <3>1, <3>4
    <3>5. ASSUME NEW i \in ClientIds, registry'[i] # None
          PROVE  id'[registry'[i]] = i /\ pc'[registry'[i]] \in Listed
      <4>1. CASE i = id[c]
        BY <2>0, <3>3, <4>1
      <4>2. CASE i # id[c]
        BY Zenon, <1>1, <1>2, <2>0, <3>3, <3>4, <3>5, <4>2
      <4> QED
        BY Zenon, <4>1, <4>2
    <3> QED
      BY Zenon, <3>5 DEF RegistryNeverStale
  <2>2. CASE unregister(c)
    <3>1. /\ pc[c] = "unregister" /\ registry' = [registry EXCEPT ![id[c]] = None]
          /\ \E m : pc' = [pc EXCEPT ![c] = m]
      BY Zenon, <2>2 DEF unregister, Goto
    <3>2. id[c] \in ClientIds
      BY <3>1 DEF PhaseInv, Phase, Cleanup
    <3>3. /\ registry'[id[c]] = None /\ \A d \in Conns \ {c} : pc'[d] = pc[d]
          /\ \A i \in ClientIds : i # id[c] => registry'[i] = registry[i]
      BY <1>0, <3>1, <3>2
    <3>4. ASSUME NEW i \in ClientIds, registry'[i] # None
          PROVE  id'[registry'[i]] = i /\ pc'[registry'[i]] \in Listed
      <4>1. i # id[c] /\ registry'[i] = registry[i]
        BY Zenon, <3>3, <3>4
      <4>2. registry[i] # c
        BY Zenon, <1>1, <3>4, <4>1
      <4> QED
        BY Zenon, <1>1, <1>2, <2>0, <3>3, <3>4, <4>1, <4>2
    <3> QED
      BY Zenon, <3>4 DEF RegistryNeverStale
  <2>3. CASE ~register(c) /\ ~unregister(c)
    <3>1. registry' = registry /\ (pc' = pc \/ (Moves(c) /\ pc[c] # "unregister"))
      BY Zenon, <1>3, <2>0, <2>3, RegistrySteps
    <3>2. ASSUME NEW i \in ClientIds, registry[i] # None PROVE pc'[registry[i]] \in Listed
      <4>1. CASE pc' = pc
        BY Zenon, <1>1, <3>2, <4>1
      <4>2. CASE Moves(c) /\ pc[c] # "unregister"
        <5>1. PICK m \in Labels : Ahead(c, m) /\ pc' = [pc EXCEPT ![c] = m]
          BY Zenon, <4>2 DEF Moves
        <5>2. CASE registry[i] = c
          <6>1. pc[c] \in {"serve", "close"} /\ id[c] # None
            BY <1>1, <3>2, <4>2, <5>2
          <6>2. m \in Listed
            BY <5>1, <6>1 DEF Ahead
          <6> QED
            BY <1>0, <5>1, <5>2, <6>2
        <5>3. CASE registry[i] # c
          <6>1. pc'[registry[i]] = pc[registry[i]]
            BY <1>0, <3>2, <5>1, <5>3
          <6> QED
            BY Zenon, <1>1, <3>2, <6>1
        <5> QED
          BY Zenon, <5>2, <5>3
      <4> QED
        BY Zenon, <3>1, <4>1, <4>2
    <3> QED
      BY Zenon, <1>2, <2>0, <3>1, <3>2 DEF RegistryNeverStale
  <2> QED
    BY Zenon, <2>1, <2>2, <2>3
<1>4. ASSUME registry' = registry, NEW c \in Conns, pc[c] \notin Listed,
             \A d \in Conns \ {c} : pc'[d] = pc[d] /\ id'[d] = id[d]
      PROVE  RegistryNeverStale'
  <2>1. ASSUME NEW i \in ClientIds, registry[i] # None
        PROVE  pc'[registry[i]] = pc[registry[i]] /\ id'[registry[i]] = id[registry[i]]
    <3>1. registry[i] \in Conns /\ registry[i] # c
      BY Zenon, <1>1, <1>4, <2>1
    <3> QED
      BY Zenon, <1>4, <3>1
  <2> QED
    BY Zenon, <1>1, <1>2, <1>4, <2>1 DEF RegistryNeverStale
<1>5. ASSUME NEW c \in Conns, GetOrCreate(c) PROVE RegistryNeverStale'
  <2>1. /\ registry' = registry /\ pc[c] = "session" /\ id' = id
        /\ \A d \in Conns \ {c} : pc'[d] = pc[d]
    BY Zenon, <1>5, Resumes
  <2>2. pc[c] \notin Listed
    BY <2>1
  <2> QED
    BY Zenon, <1>4, <2>1, <2>2
<1>6. ASSUME NEW c \in Conns, NEW i \in ClientIds,
             (\E r \in Requests : Connect(c, i, r)) \/ PluginReject(c, i)
      PROVE  RegistryNeverStale'
  <2>1. /\ registry' = registry /\ pc[c] = "accept"
        /\ \A d \in Conns \ {c} : pc'[d] = pc[d] /\ id'[d] = id[d]
    BY Zenon, <1>6, Begins
  <2>2. pc[c] \notin Listed
    BY <2>1
  <2> QED
    BY Zenon, <1>4, <2>1, <2>2
<1>7. ASSUME Outside PROVE RegistryNeverStale'
  <2>1. pc' = pc /\ id' = id
    BY Zenon, <1>7, OutsideSame DEF SameConns
  <2>2. registry' = registry
    BY Zenon, <1>7 DEF Outside, ForceDisconnect, DeadlinePasses, Sweep, SweepTick, SweepCheck,
      SweepUnsubscribeAll, SweepDelete, vars
  <2> QED
    BY Zenon, <1>1, <1>2, <2>1, <2>2 DEF RegistryNeverStale
<1> QED
  BY Zenon, <1>3, <1>5, <1>6, <1>7, Steps

----------------------------------------------------------------------------
(* Clean sessions and their wills. *)

\* SetWill alone writes a will other than None, handleDisconnect alone makes a
\* connection graceful, and PublishWill alone publishes.
LEMMA WillSteps ==
  ASSUME TypeInv, Outside \/ \E c \in Conns : Proceed(c)
  PROVE  /\ \/ \A x \in SessIds : obj'[x].will \in {None, obj[x].will}
            \/ \E c \in Conns : SetWill(c)
         /\ graceful' = graceful \/ \E c \in Conns : handleDisconnect(c)
         /\ wills' = wills \/ \E c \in Conns : PublishWill(c)
<1> DEFINE Drops == \A x \in SessIds : obj'[x].will \in {None, obj[x].will}
<1>1. ASSUME NEW s, Touches(s), \A x \in SessIds : x = s => obj'[x].will = None PROVE Drops
  BY Zenon, <1>1 DEF Touches
<1>2. KeepsWill \/ obj' = obj => Drops
  BY Zenon DEF KeepsWill
<1>3. ASSUME NEW c \in Conns, Proceed(c) PROVE Drops \/ SetWill(c)
  <2>1. CASE Evict(c)
    BY Zenon, <1>1, <2>1, ConnectTouches
  <2>2. CASE handleDisconnect(c)
    BY Zenon, <1>1, <2>2, CleanupTouches
  <2>3. CASE ClearDisconnectExpiry(c) \/ SetProtocolAndExpiry(c) \/ SetConnected(c)
    BY Zenon, <1>2, <2>3, ConnectTouches
  <2>4. CASE SetDisconnected(c) \/ PrepareDisconnectExpiry(c)
    BY Zenon, <1>2, <2>4, CleanupTouches
  <2>5. CASE \/ takeover(c) \/ register(c) \/ Subscribe(c) \/ restoreSession(c) \/ Drop(c)
             \/ Close(c) \/ unregister(c) \/ UnsubscribeAll(c) \/ DeleteSession(c) \/ PublishWill(c)
    BY Zenon, <1>2, <2>5 DEF takeover, register, Subscribe, restoreSession, Drop, Close, unregister,
      UnsubscribeAll, DeleteSession, PublishWill
  <2> QED
    BY Zenon, <1>3, <2>1, <2>2, <2>3, <2>4, <2>5 DEF Proceed
<1>4. ASSUME Outside PROVE Drops
  <2>1. ASSUME NEW i \in ClientIds, ForceDisconnect(i) PROVE Drops
    BY Zenon, <1>1, <2>1, OutsideTouches
  <2>2. ASSUME NEW s \in SessIds, DeadlinePasses(s) PROVE Drops
    BY Zenon, <1>2, <2>2, OutsideTouches
  <2>3. CASE Sweep \/ UNCHANGED vars
    BY Zenon, <1>2, <2>3 DEF Sweep, SweepTick, SweepCheck, SweepUnsubscribeAll, SweepDelete, vars
  <2> QED
    BY Zenon, <1>4, <2>1, <2>2, <2>3 DEF Outside
<1>5. ASSUME NEW c \in Conns, Proceed(c)
      PROVE  /\ graceful' = graceful \/ handleDisconnect(c)
             /\ wills' = wills \/ PublishWill(c)
  BY Zenon, <1>5 DEF Proceed, takeover, Evict, ClearDisconnectExpiry, SetProtocolAndExpiry, SetWill,
    SetConnected, register, Subscribe, restoreSession, handleDisconnect, Drop, Close, unregister,
    SetDisconnected, PrepareDisconnectExpiry, UnsubscribeAll, DeleteSession, PublishWill, histVars
<1>6. ASSUME Outside PROVE graceful' = graceful /\ wills' = wills
  BY Zenon, <1>6 DEF Outside, ForceDisconnect, DeadlinePasses, Sweep, SweepTick, SweepCheck,
    SweepUnsubscribeAll, SweepDelete, histVars, vars
<1> QED
  BY Zenon, <1>3, <1>4, <1>5, <1>6

\* A connection that has ended or said goodbye stays on that way.
LEMMA CleanupStays ==
  ASSUME TypeInv, pc' = pc \/ \E c \in Conns : Moves(c), NEW d \in Conns
  PROVE  /\ pc[d] = "gone" => pc'[d] = "gone"
         /\ pc[d] \in Cleanup \cup {"close", "gone"} => pc'[d] \in Cleanup \cup {"close", "gone"}
<1>1. CASE pc' = pc
  BY Zenon, <1>1
<1>2. ASSUME NEW c \in Conns, Moves(c)
      PROVE  /\ pc[d] = "gone" => pc'[d] = "gone"
             /\ pc[d] \in Cleanup \cup {"close", "gone"} => pc'[d] \in Cleanup \cup {"close", "gone"}
  <2>1. PICK m \in Labels : Ahead(c, m) /\ pc' = [pc EXCEPT ![c] = m]
    BY Zenon, <1>2 DEF Moves
  <2>2. /\ pc[c] # "gone"
        /\ pc[c] \in Cleanup \cup {"close", "gone"} => m \in Cleanup \cup {"close", "gone"}
    BY <2>1 DEF Ahead, Cleanup
  <2>3. pc'[d] = IF d = c THEN m ELSE pc[d]
    BY <2>1 DEF TypeInv
  <2> QED
    BY <2>2, <2>3
<1> QED
  BY Zenon, <1>1, <1>2

\* Every step leaves a clean session to its one connection.
LEMMA CleanStep ==
  ASSUME MaxConnects = 1, TypeInv, PhaseInv, SessionInv, CleanInv, [Next]_vars
  PROVE  CleanInv'
<1> DEFINE After == Cleanup \cup {"close", "gone"}
<1>0. /\ SoleHolder /\ \A d \in Conns : WillHeld(d) /\ Held(d)
      /\ \A d \in graceful : d \in Conns /\ pc[d] \in After
      /\ \A w \in wills : w.by \in Conns /\ WillRecord(w)
      /\ \A d \in Conns : sess[d] # 0 => sess[d] \in 1 .. created /\ sess[d] \in SessIds
  <2>1. \A w \in wills : w.by \in Conns
    BY DEF TypeInv
  <2> QED
    BY Zenon, <2>1, SessionIds DEF CleanInv, TypeInv, SessionInv, Held
<1>1. ASSUME SameConns, SameObjects, pc' = pc \/ \E c \in Conns : Moves(c),
             Outside \/ \E c \in Conns : Proceed(c)
      PROVE  CleanInv'
  <2>0. /\ \A d \in Conns : sess'[d] = sess[d]
        /\ \A d \in Conns : sess[d] # 0 => obj'[sess[d]].clean = obj[sess[d]].clean
    BY Zenon, <1>0, <1>1 DEF SameConns, SameObjects
  <2>1. SoleHolder'
    BY Zenon, <1>0, <2>0 DEF SoleHolder
  <2>2. ASSUME NEW c \in Conns, handleDisconnect(c) PROVE c \in Conns /\ pc[c] = "serve" /\ pc'[c] = "close"
    BY <2>2 DEF handleDisconnect, Goto, TypeInv
  <2>3. ASSUME NEW d \in graceful' PROVE pc'[d] \in After
    <3>1. CASE d \in graceful
      BY Zenon, <1>0, <1>1, <3>1, CleanupStays
    <3>2. ASSUME NEW c \in Conns, handleDisconnect(c), d \notin graceful PROVE pc'[d] \in After
      <4>1. d = c
        BY Zenon, <3>2 DEF handleDisconnect
      <4> QED
        BY Zenon, <2>2, <3>2, <4>1
    <3> QED
      BY Zenon, <1>1, <2>3, <3>1, <3>2, WillSteps
  <2>4. ASSUME NEW d \in Conns PROVE WillHeld(d)'
    <3> SUFFICES ASSUME sess[d] # 0, obj[sess[d]].clean
                 PROVE  /\ obj'[sess[d]].will \in {None, d}
                        /\ d \in graceful' => obj'[sess[d]].will = None
      BY Zenon, <2>0 DEF WillHeld
    <3>0. /\ sess[d] \in SessIds /\ obj[sess[d]].will \in {None, d}
          /\ d \in graceful => obj[sess[d]].will = None
      BY Zenon, <1>0 DEF WillHeld
    <3>1. ASSUME NEW c \in Conns, SetWill(c)
          PROVE  /\ obj'[sess[d]].will \in {None, d}
                 /\ d \in graceful' => obj'[sess[d]].will = None
      <4>1. graceful' = graceful /\ pc[c] = "will"
        BY Zenon, <3>1 DEF SetWill, histVars
      <4>2. c \notin graceful
        BY <1>0, <4>1 DEF Cleanup
      <4>3. /\ sess[d] # sess[c] => obj'[sess[d]] = obj[sess[d]]
            /\ obj'[sess[d]].will \in {obj[sess[d]].will, c}
        <5>1. Touches(sess[c]) /\ \A x \in SessIds : obj'[x].will \in {obj[x].will, c}
          BY Zenon, <3>1, ConnectTouches
        <5> QED
          BY Zenon, <3>0, <5>1 DEF Touches
      <4>4. CASE sess[d] = sess[c]
        <5>1. c = d
          BY Zenon, <1>0, <4>4 DEF SoleHolder
        <5> QED
          BY Zenon, <3>0, <4>1, <4>2, <4>3, <5>1
      <4>5. CASE sess[d] # sess[c]
        BY Zenon, <3>0, <4>1, <4>3, <4>5
      <4> QED
        BY Zenon, <4>4, <4>5
    <3>2. ASSUME \A x \in SessIds : obj'[x].will \in {None, obj[x].will}
          PROVE  /\ obj'[sess[d]].will \in {None, d}
                 /\ d \in graceful' => obj'[sess[d]].will = None
      <4>1. obj'[sess[d]].will \in {None, obj[sess[d]].will}
        BY Zenon, <3>0, <3>2
      <4>2. ASSUME NEW c \in Conns, handleDisconnect(c), d \in graceful'
            PROVE  d \in graceful \/ obj'[sess[d]].will = None
        <5>1. d \in graceful \/ d = c
          BY Zenon, <4>2 DEF handleDisconnect
        <5> QED
          BY Zenon, <3>0, <4>2, <5>1, CleanupTouches
      <4>3. d \in graceful' => d \in graceful \/ obj'[sess[d]].will = None
        BY Zenon, <1>1, <4>2, WillSteps
      <4> QED
        BY Zenon, <3>0, <4>1, <4>3
    <3> QED
      BY Zenon, <1>1, <3>1, <3>2, WillSteps
  <2>5. ASSUME NEW w \in wills PROVE WillRecord(w)'
    <3>1. w.by \in Conns /\ WillRecord(w) /\ sess[w.by] # 0 /\ pc[w.by] = "gone"
      BY Zenon, <1>0 DEF WillRecord
    <3>2. pc'[w.by] = "gone"
      BY Zenon, <1>1, <3>1, CleanupStays
    <3>3. w.by \in graceful' => w.by \in graceful
      <4>1. ASSUME NEW c \in Conns, handleDisconnect(c), w.by \in graceful' PROVE w.by \in graceful
        <5>1. w.by \in graceful \/ w.by = c
          BY Zenon, <4>1 DEF handleDisconnect
        <5>2. w.by # c
          BY <2>2, <3>1, <4>1
        <5> QED
          BY Zenon, <5>1, <5>2
      <4> QED
        BY Zenon, <1>1, <4>1, WillSteps
    <3> QED
      BY Zenon, <2>0, <3>1, <3>2, <3>3 DEF WillRecord
  <2>6. ASSUME NEW c \in Conns, PublishWill(c), NEW w \in wills' PROVE WillRecord(w)'
    <3>1. CASE w \in wills
      BY Zenon, <2>5, <3>1
    <3>2. CASE w \notin wills
      <4>1. /\ obj[sess[c]].will # None /\ w = [by |-> c, of |-> obj[sess[c]].will]
            /\ pc[c] = "lastwill" /\ graceful' = graceful
        BY <2>6, <3>2 DEF PublishWill
      <4>2. w.by = c /\ w.of = obj[sess[c]].will
        BY <4>1
      <4>3. pc'[c] = "gone"
        BY <2>6 DEF PublishWill, Goto, TypeInv
      <4>4. sess[c] # 0
        BY <4>1 DEF PhaseInv, Phase, HasSess, Cleanup
      <4>5. obj[sess[c]].clean => obj[sess[c]].will = c /\ c \notin graceful
        BY Zenon, <1>0, <4>1, <4>4 DEF WillHeld
      <4> QED
        BY Zenon, <2>0, <4>1, <4>2, <4>3, <4>4, <4>5 DEF WillRecord
    <3> QED
      BY Zenon, <3>1, <3>2
  <2>7. \A w \in wills' : WillRecord(w)'
    BY Zenon, <1>1, <2>5, <2>6, WillSteps
  <2> QED
    BY Zenon, <2>1, <2>3, <2>4, <2>7 DEF CleanInv
<1>2. ASSUME NEW c \in Conns, Proceed(c) PROVE CleanInv'
  BY Zenon, <1>1, <1>2, ProceedSame
<1>3. CASE Outside
  BY Zenon, <1>1, <1>3, OutsideSame
<1>4. ASSUME NEW c \in Conns, pc[c] \in {"accept", "session"}, graceful' = graceful, wills' = wills,
             \A d \in Conns \ {c} : pc'[d] = pc[d] /\ sess'[d] = sess[d],
             \A d \in Conns \ {c} : sess[d] # 0 => obj'[sess[d]] = obj[sess[d]],
             SoleHolder', WillHeld(c)'
      PROVE  CleanInv'
  <2>0. pc[c] \notin After
    BY <1>4 DEF Cleanup
  <2>1. \A d \in graceful' : pc'[d] \in After
    BY Zenon, <1>0, <1>4, <2>0
  <2>2. ASSUME NEW d \in Conns PROVE WillHeld(d)'
    <3>1. CASE d = c
      BY Zenon, <1>4, <3>1
    <3>2. CASE d # c
      <4>1. /\ WillHeld(d) /\ sess'[d] = sess[d] /\ graceful' = graceful
            /\ sess[d] # 0 => obj'[sess[d]] = obj[sess[d]]
        BY Zenon, <1>0, <1>4, <3>2
      <4> QED
        BY <4>1 DEF WillHeld
    <3> QED
      BY Zenon, <3>1, <3>2
  <2>3. ASSUME NEW w \in wills' PROVE WillRecord(w)'
    <3>1. w.by \in Conns /\ WillRecord(w)
      BY Zenon, <1>0, <1>4, <2>3
    <3>2. sess[w.by] # 0 /\ w.by # c
      BY <1>4, <3>1 DEF WillRecord
    <3>3. /\ sess'[w.by] = sess[w.by] /\ pc'[w.by] = pc[w.by]
          /\ obj'[sess[w.by]] = obj[sess[w.by]] /\ graceful' = graceful
      BY Zenon, <1>4, <3>1, <3>2
    <3> QED
      BY <3>1, <3>3 DEF WillRecord
  <2> QED
    BY Zenon, <1>4, <2>1, <2>2, <2>3 DEF CleanInv
<1>5. ASSUME NEW c \in Conns, NEW i \in ClientIds,
             (\E r \in Requests : Connect(c, i, r)) \/ PluginReject(c, i)
      PROVE  CleanInv'
  <2>1. /\ pc[c] = "accept" /\ sess' = sess /\ obj' = obj /\ graceful' = graceful /\ wills' = wills
        /\ \A d \in Conns \ {c} : pc'[d] = pc[d]
    BY Zenon, <1>5, Begins
  <2>2. SoleHolder' /\ WillHeld(c)'
    BY Zenon, <1>0, <2>1 DEF SoleHolder, WillHeld
  <2> QED
    BY Zenon, <1>4, <2>1, <2>2
<1>6. ASSUME NEW c \in Conns, GetOrCreate(c) PROVE CleanInv'
  <2>1. /\ pc[c] = "session" /\ graceful' = graceful /\ wills' = wills
        /\ \A d \in Conns \ {c} : pc'[d] = pc[d] /\ sess'[d] = sess[d]
    BY Zenon, <1>6, Resumes
  <2>2. CASE /\ ~obj[store[id[c]]].clean /\ sess'[c] = store[id[c]]
             /\ UNCHANGED <<store, obj, created>>
    <3>1. SoleHolder'
      <4> SUFFICES ASSUME NEW a \in Conns, NEW d \in Conns, sess'[a] # 0, sess'[a] = sess'[d],
                          obj'[sess'[a]].clean
                   PROVE  a = d
        BY Zenon DEF SoleHolder
      <4>1. a # c /\ d # c
        BY <2>2
      <4>2. sess'[a] = sess[a] /\ sess'[d] = sess[d] /\ obj' = obj
        BY Zenon, <2>1, <2>2, <4>1
      <4> QED
        BY Zenon, <1>0, <4>2 DEF SoleHolder
    <3>2. WillHeld(c)'
      BY Zenon, <2>2 DEF WillHeld
    <3> QED
      BY Zenon, <1>4, <2>1, <2>2, <3>1, <3>2
  <2>3. CASE /\ created + 1 \in SessIds /\ sess'[c] = created + 1
             /\ obj'[created + 1] = NewSession(id[c], req[c].clean)
             /\ \A x \in SessIds : x # created + 1 => obj'[x] = obj[x]
    <3>1. \A s \in 1 .. created : s # created + 1
      BY SessionIds
    <3>2. \A d \in Conns \ {c} : sess[d] # 0 => sess[d] # created + 1 /\ obj'[sess[d]] = obj[sess[d]]
      BY Zenon, <1>0, <2>3, <3>1
    <3>3. created + 1 # 0
      BY SessionIds
    <3>4. SoleHolder'
      <4> SUFFICES ASSUME NEW a \in Conns, NEW d \in Conns, sess'[a] # 0, sess'[a] = sess'[d],
                          obj'[sess'[a]].clean
                   PROVE  a = d
        BY Zenon DEF SoleHolder
      <4>1. CASE a = c
        BY Zenon, <2>1, <2>3, <3>2, <3>3, <4>1
      <4>2. CASE d = c
        BY Zenon, <2>1, <2>3, <3>2, <3>3, <4>2
      <4>3. CASE a # c /\ d # c
        <5>1. sess[a] # 0 /\ sess[a] = sess[d] /\ obj[sess[a]].clean
          BY Zenon, <2>1, <3>2, <4>3
        <5> QED
          BY Zenon, <1>0, <5>1 DEF SoleHolder
      <4> QED
        BY Zenon, <4>1, <4>2, <4>3
    <3>5. obj'[sess'[c]].will = None
      BY <2>3 DEF NewSession
    <3>6. WillHeld(c)'
      BY Zenon, <3>5 DEF WillHeld
    <3> QED
      BY Zenon, <1>4, <2>1, <3>2, <3>4, <3>6
  <2> QED
    BY Zenon, <1>6, <2>2, <2>3, Resumes
<1> QED
  BY Zenon, <1>2, <1>3, <1>5, <1>6, Steps

----------------------------------------------------------------------------
(* Ghosts. *)

\* Which step takes a connection on from its label.
LEMMA Exits ==
  ASSUME NEW c \in Conns, Proceed(c), pc' # pc
  PROVE  /\ pc[c] = "online" => SetConnected(c)
         /\ pc[c] = "register" => register(c)
         /\ pc[c] = "offline" => SetDisconnected(c)
         /\ pc[c] = "prepare" => PrepareDisconnectExpiry(c)
         /\ pc[c] = "unsub" => UnsubscribeAll(c)
         /\ pc[c] = "delete" => DeleteSession(c)
<1>1. /\ SetConnected(c) => pc[c] = "online"
      /\ register(c) => pc[c] = "register"
      /\ SetDisconnected(c) => pc[c] = "offline"
      /\ PrepareDisconnectExpiry(c) => pc[c] = "prepare"
      /\ UnsubscribeAll(c) => pc[c] = "unsub"
      /\ DeleteSession(c) => pc[c] = "delete"
  BY Zenon DEF SetConnected, register, SetDisconnected, PrepareDisconnectExpiry, UnsubscribeAll,
    DeleteSession
<1>2. /\ ~Subscribe(c) /\ ~restoreSession(c)
      /\ takeover(c) => pc[c] = "takeover"
      /\ Evict(c) => pc[c] = "evict"
      /\ ClearDisconnectExpiry(c) => pc[c] = "clear"
      /\ SetProtocolAndExpiry(c) => pc[c] = "expiry"
      /\ SetWill(c) => pc[c] = "will"
      /\ handleDisconnect(c) => pc[c] = "serve"
      /\ Drop(c) => pc[c] \in {"accept", "serve"}
      /\ Close(c) => pc[c] = "close"
      /\ unregister(c) => pc[c] = "unregister"
      /\ PublishWill(c) => pc[c] = "lastwill"
  BY Zenon DEF takeover, Evict, ClearDisconnectExpiry, SetProtocolAndExpiry, SetWill, Subscribe,
    restoreSession, handleDisconnect, Drop, Close, unregister, PublishWill, connVars
<1> QED
  BY <1>1, <1>2 DEF Proceed

\* Who writes the router.
LEMMA SubSteps ==
  ASSUME TypeInv, Outside \/ \E c \in Conns : Proceed(c), NEW i \in ClientIds
  PROVE  \/ sub'[i] \in {sub[i], None}
         \/ \E c \in Conns : /\ sub'[i] = c /\ pc' = pc
                             /\ \/ pc[c] = "serve" /\ i = id[c]
                                \/ restore[c] > 0
<1>0. sub \in [ClientIds -> Conns \cup {None}]
  BY Zenon DEF TypeInv
<1>1. ASSUME NEW c \in Conns, Proceed(c)
      PROVE  \/ sub'[i] \in {sub[i], None}
             \/ sub'[i] = c /\ pc' = pc /\ ((pc[c] = "serve" /\ i = id[c]) \/ restore[c] > 0)
  <2>1. CASE Subscribe(c)
    <3>1. sub' = [sub EXCEPT ![id[c]] = c] /\ pc[c] = "serve" /\ pc' = pc
      BY Zenon, <2>1 DEF Subscribe, connVars
    <3> QED
      BY <1>0, <3>1
  <2>2. CASE restoreSession(c)
    <3>1. sub' = [sub EXCEPT ![id[c]] = c] \/ sub' = sub
      BY Zenon, <2>2 DEF restoreSession
    <3>2. restore[c] > 0 /\ pc' = pc
      BY Zenon, <2>2 DEF restoreSession
    <3>3. sub'[i] = c \/ sub'[i] = sub[i]
      BY <1>0, <3>1
    <3> QED
      BY Zenon, <3>2, <3>3
  <2>3. CASE UnsubscribeAll(c)
    <3>1. sub' = [sub EXCEPT ![id[c]] = None]
      BY Zenon, <2>3 DEF UnsubscribeAll
    <3> QED
      BY <1>0, <3>1
  <2>4. CASE \/ takeover(c) \/ Evict(c) \/ ClearDisconnectExpiry(c) \/ SetProtocolAndExpiry(c)
             \/ SetWill(c) \/ SetConnected(c) \/ register(c) \/ handleDisconnect(c) \/ Drop(c)
             \/ Close(c) \/ unregister(c) \/ SetDisconnected(c) \/ PrepareDisconnectExpiry(c)
             \/ DeleteSession(c) \/ PublishWill(c)
    <3>1. sub' = sub
      BY Zenon, <2>4 DEF takeover, Evict, ClearDisconnectExpiry, SetProtocolAndExpiry, SetWill,
        SetConnected, register, handleDisconnect, Drop, Close, unregister, SetDisconnected,
        PrepareDisconnectExpiry, DeleteSession, PublishWill
    <3> QED
      BY Zenon, <3>1
  <2> QED
    BY Zenon, <1>1, <2>1, <2>2, <2>3, <2>4 DEF Proceed
<1>2. ASSUME Outside PROVE sub'[i] \in {sub[i], None}
  <2>1. CASE SweepUnsubscribeAll
    <3>1. sub' = [sub EXCEPT ![obj[sweepCur].client] = None]
      BY Zenon, <2>1 DEF SweepUnsubscribeAll
    <3> QED
      BY <1>0, <3>1
  <2>2. CASE ~SweepUnsubscribeAll
    <3>1. sub' = sub
      BY Zenon, <1>2, <2>2 DEF Outside, ForceDisconnect, DeadlinePasses, Sweep, SweepTick,
        SweepCheck, SweepDelete, vars
    <3> QED
      BY Zenon, <3>1
  <2> QED
    BY Zenon, <2>1, <2>2
<1> QED
  BY Zenon, <1>1, <1>2

\* A connection keeps its session until its cleanup has decided the session's
\* fate: by PrepareDisconnectExpiry, or by deleting what is stored.
LEMMA HolderLeaves ==
  ASSUME TypeInv, PhaseInv, SessionInv, NEW c \in Conns, Proceed(c), NEW d \in Conns,
         sess[d] # 0, pc[d] \notin {"lastwill", "gone"}, pc'[d] \in {"lastwill", "gone"}
  PROVE  d = c /\ (PrepareDisconnectExpiry(c) \/ (DeleteSession(c) /\ store'[id[c]] = 0))
<1>0. /\ pc \in [Conns -> Labels] /\ store \in [ClientIds -> Nat]
      /\ Phase(d) /\ Held(d) /\ obj[sess[d]].client \in ClientIds
  BY Zenon DEF TypeInv, PhaseInv, SessionInv, Held
<1>1. Moves(c) /\ pc' # pc
  BY Zenon, ProceedSame
<1>2. PICK m \in Labels : Ahead(c, m) /\ pc' = [pc EXCEPT ![c] = m]
  BY Zenon, <1>1 DEF Moves
<1>3. d = c /\ m \in {"lastwill", "gone"}
  BY <1>0, <1>2
<1>4. id[c] \in ClientIds
  BY Zenon, <1>0, <1>3 DEF Held
<1>5. id[c] # None
  BY Zenon, <1>4, ConstantsAssumption
<1>6. pc[c] \in {"prepare", "delete"}
  BY <1>2, <1>3, <1>5 DEF Ahead
<1>7. ASSUME DeleteSession(c) PROVE store'[id[c]] = 0
  BY Zenon, <1>0, <1>4, <1>7 DEF DeleteSession
<1> QED
  BY <1>1, <1>3, <1>6, <1>7, Exits

\* Every step leaves a clean session a connection that removes it.
LEMMA GhostStep ==
  ASSUME MaxConnects = 1, TypeInv, PhaseInv, SessionInv, GhostInv, [Next]_vars
  PROVE  GhostInv'
<1> DEFINE Subs == {"serve", "close", "unregister", "offline", "unsub"}
<1>0. pc \in [Conns -> Labels] /\ sub \in [ClientIds -> Conns \cup {None}]
  BY Zenon DEF TypeInv
<1>p. \A d \in Conns : Phase(d) /\ Held(d)
  BY Zenon DEF PhaseInv, SessionInv
<1>g. (\A d \in Conns : Prepares(d)) /\ \A i \in ClientIds : Owned(i) /\ Closure(i)
  BY Zenon DEF GhostInv
<1>h. ASSUME NEW d \in Conns, sess[d] # 0
      PROVE  /\ sess[d] \in 1 .. created /\ sess[d] \in SessIds /\ id[d] \in ClientIds /\ id[d] # None
             /\ obj[sess[d]].client = id[d] /\ obj[sess[d]].clean = req[d].clean
  <2>1. /\ sess[d] \in 1 .. created /\ obj[sess[d]].client = id[d]
        /\ obj[sess[d]].clean = req[d].clean
    BY Zenon, <1>p, <1>h DEF Held
  <2>2. sess[d] \in SessIds /\ obj[sess[d]].client \in ClientIds
    BY Zenon, <2>1, SessionIds DEF SessionInv
  <2>3. id[d] \in ClientIds /\ id[d] # None
    BY Zenon, <2>1, <2>2, ConstantsAssumption
  <2> QED
    BY Zenon, <2>1, <2>2, <2>3
<1>s. ASSUME NEW i \in ClientIds, store[i] # 0
      PROVE  store[i] \in 1 .. created /\ store[i] \in SessIds /\ obj[store[i]].client = i
  BY Zenon, <1>s, SessionIds DEF SessionInv
<1>c. ASSUME NEW i \in ClientIds, sub[i] # None
      PROVE  /\ sub[i] \in Conns /\ sess[sub[i]] # 0
             /\ req[sub[i]].clean => id[sub[i]] = i /\ pc[sub[i]] \in Subs
  BY Zenon, <1>0, <1>c, <1>g DEF Closure
<1>1. ASSUME SameConns, SameObjects, pc' = pc \/ \E c \in Conns : Moves(c) /\ Proceed(c),
             Outside \/ \E c \in Conns : Proceed(c)
      PROVE  GhostInv'
  <2>0. /\ \A d \in Conns : sess'[d] = sess[d] /\ id'[d] = id[d] /\ req'[d] = req[d]
        /\ \A s \in SessIds : obj'[s].clean = obj[s].clean
        /\ \A i \in ClientIds : store'[i] \in {store[i], 0}
    BY Zenon, <1>1, StoreSteps DEF SameConns, SameObjects
  <2>1. ASSUME NEW d \in Conns PROVE Prepares(d)'
    <3> SUFFICES ASSUME pc'[d] = "prepare" PROVE ~obj'[sess'[d]].clean
      BY Zenon DEF Prepares
    <3>1. CASE pc[d] = "prepare"
      <4>1. sess[d] # 0
        BY <1>p, <3>1 DEF Phase, HasSess, Cleanup
      <4> QED
        BY Zenon, <1>g, <1>h, <2>0, <3>1, <4>1 DEF Prepares
    <3>2. ASSUME NEW c \in Conns, Moves(c), pc[d] # "prepare" PROVE ~obj'[sess'[d]].clean
      <4>1. PICK m \in Labels : Ahead(c, m) /\ pc' = [pc EXCEPT ![c] = m]
        BY Zenon, <3>2 DEF Moves
      <4>2. c = d /\ m = "prepare"
        BY <1>0, <3>2, <4>1
      <4>3. pc[c] = "offline" /\ ~obj[sess[c]].clean
        BY <4>1, <4>2 DEF Ahead
      <4>4. sess[c] # 0
        BY <1>p, <4>3 DEF Phase, HasSess, Cleanup
      <4> QED
        BY Zenon, <1>h, <2>0, <4>2, <4>3, <4>4
    <3>3. CASE pc' = pc /\ pc[d] # "prepare"
      BY Zenon, <3>3
    <3> QED
      BY Zenon, <1>1, <3>1, <3>2, <3>3
  <2>2. ASSUME NEW i \in ClientIds PROVE Owned(i)'
    <3> SUFFICES ASSUME store'[i] # 0, obj'[store'[i]].clean
                 PROVE  \E d \in Conns : sess'[d] = store'[i] /\ pc'[d] \notin {"lastwill", "gone"}
      BY Zenon DEF Owned
    <3>0. store'[i] = store[i]
      BY <2>0
    <3>1. store'[i] = store[i] /\ store[i] # 0 /\ obj[store[i]].clean
      BY Zenon, <1>s, <2>0, <3>0
    <3>2. PICK d \in Conns : sess[d] = store[i] /\ pc[d] \notin {"lastwill", "gone"}
      BY Zenon, <1>g, <3>1 DEF Owned
    <3>3. ASSUME NEW c \in Conns, Proceed(c) PROVE pc'[d] \notin {"lastwill", "gone"}
      <4> SUFFICES ASSUME pc'[d] \in {"lastwill", "gone"} PROVE FALSE
        BY Zenon
      <4>1. d = c /\ (PrepareDisconnectExpiry(c) \/ (DeleteSession(c) /\ store'[id[c]] = 0))
        BY Zenon, <3>1, <3>2, <3>3, HolderLeaves
      <4>2. ~PrepareDisconnectExpiry(c)
        <5>1. PrepareDisconnectExpiry(c) => pc[c] = "prepare"
          BY Zenon DEF PrepareDisconnectExpiry
        <5> QED
          BY Zenon, <1>g, <3>1, <3>2, <4>1, <5>1 DEF Prepares
      <4>3. id[d] = i
        BY Zenon, <1>h, <1>s, <3>1, <3>2
      <4> QED
        BY Zenon, <3>1, <4>1, <4>2, <4>3
    <3>4. pc'[d] \notin {"lastwill", "gone"}
      BY Zenon, <1>1, <3>2, <3>3
    <3> QED
      BY Zenon, <2>0, <3>1, <3>2, <3>4
  <2>3. ASSUME NEW i \in ClientIds PROVE Closure(i)'
    <3> SUFFICES ASSUME sub'[i] # None
                 PROVE  /\ sess'[sub'[i]] # 0
                        /\ req'[sub'[i]].clean => id'[sub'[i]] = i /\ pc'[sub'[i]] \in Subs
      BY Zenon DEF Closure
    <3>1. ASSUME NEW c \in Conns, sub'[i] = c, pc' = pc,
                 (pc[c] = "serve" /\ i = id[c]) \/ restore[c] > 0
          PROVE  sess[c] # 0 /\ (req[c].clean => id[c] = i /\ pc'[c] \in Subs)
      BY <1>p, <3>1 DEF Phase, HasSess
    <3>2. ASSUME sub'[i] = sub[i]
          PROVE  /\ sub[i] \in Conns /\ sess[sub[i]] # 0
                 /\ req[sub[i]].clean => id[sub[i]] = i /\ pc'[sub[i]] \in Subs
      <4>1. /\ sub[i] \in Conns /\ sess[sub[i]] # 0
            /\ req[sub[i]].clean => id[sub[i]] = i /\ pc[sub[i]] \in Subs
        BY Zenon, <1>c, <3>2
      <4>2. ASSUME NEW c \in Conns, Moves(c), Proceed(c), req[sub[i]].clean PROVE pc'[sub[i]] \in Subs
        <5>1. PICK m \in Labels : Ahead(c, m) /\ pc' = [pc EXCEPT ![c] = m]
          BY Zenon, <4>2 DEF Moves
        <5>2. CASE sub[i] # c
          <6>1. pc'[sub[i]] = pc[sub[i]]
            BY <1>0, <4>1, <5>1, <5>2
          <6> QED
            BY Zenon, <4>1, <4>2, <6>1
        <5>3. CASE sub[i] = c
          <6>1. /\ sess[c] # 0 /\ id[c] = i /\ pc[c] \in Subs /\ id[c] # None
                /\ obj[sess[c]].clean
            BY Zenon, <1>h, <4>1, <4>2, <5>3
          <6>2. pc[c] # "unsub"
            <7> SUFFICES ASSUME pc[c] = "unsub" PROVE FALSE
              OBVIOUS
            <7>1. pc' # pc
              <8>1. m # pc[c] /\ pc'[c] = m
                BY <1>0, <5>1 DEF Ahead
              <8> QED
                BY <8>1
            <7>2. UnsubscribeAll(c)
              BY Zenon, <4>2, <7>1, Exits
            <7>3. sub'[i] = None
              BY <1>0, <6>1, <7>2 DEF UnsubscribeAll
            <7> QED
              BY Zenon, <7>3
          <6>3. m \in Subs
            BY <5>1, <6>1, <6>2 DEF Ahead
          <6> QED
            BY <1>0, <5>1, <5>3, <6>3
        <5> QED
          BY Zenon, <5>2, <5>3
      <4> QED
        BY Zenon, <1>1, <4>1, <4>2
    <3>3. sub'[i] = sub[i] \/ \E c \in Conns : /\ sub'[i] = c /\ pc' = pc
                                              /\ \/ pc[c] = "serve" /\ i = id[c]
                                                 \/ restore[c] > 0
      BY Zenon, <1>1, SubSteps
    <3>4. CASE sub'[i] = sub[i]
      BY Zenon, <2>0, <3>2, <3>4
    <3>5. ASSUME NEW c \in Conns, sub'[i] = c, pc' = pc,
                 (pc[c] = "serve" /\ i = id[c]) \/ restore[c] > 0
          PROVE  /\ sess'[sub'[i]] # 0
                 /\ req'[sub'[i]].clean => id'[sub'[i]] = i /\ pc'[sub'[i]] \in Subs
      BY Zenon, <2>0, <3>1, <3>5
    <3> QED
      BY Zenon, <3>3, <3>4, <3>5
  <2> QED
    BY Zenon, <2>1, <2>2, <2>3 DEF GhostInv
<1>2. ASSUME NEW c \in Conns, Proceed(c) PROVE GhostInv'
  BY Zenon, <1>1, <1>2, ProceedSame
<1>3. CASE Outside
  BY Zenon, <1>1, <1>3, OutsideSame
<1>4. ASSUME NEW c \in Conns, pc[c] \in {"accept", "session"}, pc'[c] # "prepare", sub' = sub,
             \A d \in Conns \ {c} : /\ pc'[d] = pc[d] /\ sess'[d] = sess[d]
                                    /\ id'[d] = id[d] /\ req'[d] = req[d],
             \A s \in 1 .. created : obj'[s].clean = obj[s].clean,
             \A i \in ClientIds : store'[i] = store[i] \/ store'[i] = sess'[c],
             pc'[c] \notin {"lastwill", "gone"}
      PROVE  GhostInv'
  <2>0. sess[c] = 0
    BY <1>p, <1>4 DEF Held
  <2>1. ASSUME NEW d \in Conns PROVE Prepares(d)'
    <3>1. CASE d = c
      BY Zenon, <1>4, <3>1 DEF Prepares
    <3>2. CASE d # c
      <4>1. pc[d] = "prepare" => sess[d] # 0
        BY <1>p DEF Phase, HasSess, Cleanup
      <4>2. pc'[d] = pc[d] /\ sess'[d] = sess[d] /\ Prepares(d)
        BY Zenon, <1>4, <1>g, <3>2
      <4>3. sess[d] # 0 => obj'[sess[d]].clean = obj[sess[d]].clean
        BY Zenon, <1>4, <1>h
      <4> QED
        BY Zenon, <4>1, <4>2, <4>3 DEF Prepares
    <3> QED
      BY Zenon, <3>1, <3>2
  <2>2. ASSUME NEW i \in ClientIds PROVE Owned(i)'
    <3>1. CASE store'[i] = sess'[c]
      BY Zenon, <1>4, <3>1 DEF Owned
    <3>2. CASE store'[i] = store[i]
      <4> SUFFICES ASSUME store[i] # 0, obj[store[i]].clean
                   PROVE  \E d \in Conns : sess'[d] = store[i] /\ pc'[d] \notin {"lastwill", "gone"}
        BY Zenon, <1>s, <1>4, <3>2 DEF Owned
      <4>1. PICK d \in Conns : sess[d] = store[i] /\ pc[d] \notin {"lastwill", "gone"}
        BY Zenon, <1>g DEF Owned
      <4>2. d # c
        BY Zenon, <2>0, <4>1
      <4> QED
        BY Zenon, <1>4, <4>1, <4>2
    <3> QED
      BY Zenon, <1>4, <3>1, <3>2
  <2>3. ASSUME NEW i \in ClientIds PROVE Closure(i)'
    <3> SUFFICES ASSUME sub[i] # None PROVE Closure(i)'
      BY Zenon, <1>4 DEF Closure
    <3>1. /\ sub[i] \in Conns /\ sess[sub[i]] # 0 /\ sub[i] # c
          /\ req[sub[i]].clean => id[sub[i]] = i /\ pc[sub[i]] \in Subs
      BY Zenon, <1>c, <2>0
    <3>2. /\ pc'[sub[i]] = pc[sub[i]] /\ sess'[sub[i]] = sess[sub[i]] /\ sub'[i] = sub[i]
          /\ id'[sub[i]] = id[sub[i]] /\ req'[sub[i]] = req[sub[i]]
      BY Zenon, <1>4, <3>1
    <3> QED
      BY Zenon, <3>1, <3>2 DEF Closure
  <2> QED
    BY Zenon, <2>1, <2>2, <2>3 DEF GhostInv
<1>5. ASSUME NEW c \in Conns, NEW i \in ClientIds,
             (\E r \in Requests : Connect(c, i, r)) \/ PluginReject(c, i)
      PROVE  GhostInv'
  <2>1. /\ pc[c] = "accept" /\ pc'[c] \in {"takeover", "close"} /\ sub' = sub
        /\ sess' = sess /\ obj' = obj /\ store' = store
        /\ \A d \in Conns \ {c} : pc'[d] = pc[d] /\ id'[d] = id[d] /\ req'[d] = req[d]
    BY Zenon, <1>5, Begins
  <2>2. pc'[c] # "prepare" /\ pc'[c] \notin {"lastwill", "gone"} /\ pc[c] \in {"accept", "session"}
    BY <2>1
  <2> QED
    BY Zenon, <1>4, <2>1, <2>2
<1>6. ASSUME NEW c \in Conns, GetOrCreate(c) PROVE GhostInv'
  <2>1. /\ pc[c] = "session" /\ pc'[c] = "clear" /\ sub' = sub /\ id' = id /\ req' = req
        /\ id[c] \in ClientIds
        /\ \A d \in Conns \ {c} : pc'[d] = pc[d] /\ sess'[d] = sess[d]
    BY Zenon, <1>6, Resumes
  <2>2. pc'[c] # "prepare" /\ pc'[c] \notin {"lastwill", "gone"} /\ pc[c] \in {"accept", "session"}
    BY <2>1
  <2>3. \A i \in ClientIds : store'[i] = store[i] \/ store'[i] = sess'[c]
    BY Zenon, <1>6, Resumes
  <2>4. \A s \in 1 .. created : s \in SessIds /\ s # created + 1
    BY SessionIds
  <2>5. \A s \in 1 .. created : obj'[s].clean = obj[s].clean
    BY Zenon, <1>6, <2>4, Resumes
  <2> QED
    BY Zenon, <1>4, <2>1, <2>2, <2>3, <2>5
<1> QED
  BY Zenon, <1>2, <1>3, <1>5, <1>6, Steps

----------------------------------------------------------------------------
(* Session expiry. *)

\* The expiry of a session is written by a connection that holds it, or a
\* deadline passes.
LEMMA IntervalSteps ==
  ASSUME TypeInv, NEW s \in SessIds
  PROVE  /\ \A c \in Conns : Proceed(c) =>
              \/ /\ obj'[s].v5 = obj[s].v5 /\ obj'[s].expiry = obj[s].expiry
                 /\ obj'[s].deadline = obj[s].deadline
              \/ sess[c] = s /\ pc[c] \notin {"lastwill", "gone"}
         /\ Outside => /\ obj'[s].v5 = obj[s].v5 /\ obj'[s].expiry = obj[s].expiry
                       /\ obj'[s].deadline = obj[s].deadline \/ obj'[s].deadline = "passed"
<1> DEFINE Same == /\ obj'[s].v5 = obj[s].v5 /\ obj'[s].expiry = obj[s].expiry
                   /\ obj'[s].deadline = obj[s].deadline
<1>1. obj' = obj => Same
  OBVIOUS
<1>2. ASSUME NEW c \in Conns, Proceed(c) PROVE Same \/ (sess[c] = s /\ pc[c] \notin {"lastwill", "gone"})
  <2>1. CASE Evict(c)
    BY Zenon, <2>1, ConnectTouches DEF KeepsInterval, KeepsDeadline
  <2>2. ASSUME Touches(sess[c]) PROVE Same \/ sess[c] = s
    BY Zenon, <2>2 DEF Touches
  <2>3. CASE \/ ClearDisconnectExpiry(c) \/ SetProtocolAndExpiry(c) \/ SetWill(c) \/ SetConnected(c)
             \/ handleDisconnect(c) \/ SetDisconnected(c) \/ PrepareDisconnectExpiry(c)
    <3>1. Same \/ sess[c] = s
      BY Zenon, <2>2, <2>3, ConnectTouches, CleanupTouches
    <3>2. pc[c] \in {"clear", "expiry", "will", "online", "serve", "offline", "prepare"}
      BY Zenon, <2>3 DEF ClearDisconnectExpiry, SetProtocolAndExpiry, SetWill, SetConnected,
        handleDisconnect, SetDisconnected, PrepareDisconnectExpiry
    <3>3. pc[c] \notin {"lastwill", "gone"}
      BY <3>2
    <3> QED
      BY Zenon, <3>1, <3>3
  <2>4. CASE \/ takeover(c) \/ register(c) \/ Subscribe(c) \/ restoreSession(c) \/ Drop(c)
             \/ Close(c) \/ unregister(c) \/ UnsubscribeAll(c) \/ DeleteSession(c) \/ PublishWill(c)
    <3>1. obj' = obj
      BY Zenon, <2>4 DEF takeover, register, Subscribe, restoreSession, Drop, Close, unregister,
        UnsubscribeAll, DeleteSession, PublishWill
    <3> QED
      BY Zenon, <1>1, <3>1
  <2> QED
    BY Zenon, <1>2, <2>1, <2>3, <2>4 DEF Proceed
<1>3. ASSUME Outside
      PROVE  /\ obj'[s].v5 = obj[s].v5 /\ obj'[s].expiry = obj[s].expiry
             /\ obj'[s].deadline = obj[s].deadline \/ obj'[s].deadline = "passed"
  <2>1. ASSUME NEW i \in ClientIds, ForceDisconnect(i) PROVE Same
    BY Zenon, <2>1, OutsideTouches DEF KeepsInterval, KeepsDeadline
  <2>2. ASSUME NEW x \in SessIds, DeadlinePasses(x)
        PROVE  /\ obj'[s].v5 = obj[s].v5 /\ obj'[s].expiry = obj[s].expiry
               /\ obj'[s].deadline = obj[s].deadline \/ obj'[s].deadline = "passed"
    <3>1. /\ Touches(x) /\ KeepsInterval
          /\ \A y \in SessIds : y = x => obj'[y].deadline = "passed"
      BY Zenon, <2>2, OutsideTouches
    <3> QED
      BY Zenon, <3>1 DEF Touches, KeepsInterval
  <2>3. CASE Sweep \/ UNCHANGED vars
    <3>1. obj' = obj
      BY Zenon, <2>3 DEF Sweep, SweepTick, SweepCheck, SweepUnsubscribeAll, SweepDelete, vars
    <3> QED
      BY Zenon, <3>1
  <2> QED
    BY Zenon, <1>3, <2>1, <2>2, <2>3 DEF Outside
<1> QED
  BY Zenon, <1>2, <1>3

\* Every step leaves an abandoned v5 session scheduled.
LEMMA ExpiryStep ==
  ASSUME MaxConnects = 1, TypeInv, PhaseInv, SessionInv, ExpiryInv, [Next]_vars
  PROVE  ExpiryInv'
<1> DEFINE Holder(d, s) == sess[d] = s /\ pc[d] \notin {"lastwill", "gone"}
<1>p. \A d \in Conns : Phase(d) /\ Held(d)
  BY Zenon DEF PhaseInv, SessionInv
<1>s. ASSUME NEW i \in ClientIds, store[i] # 0
      PROVE  store[i] \in 1 .. created /\ store[i] \in SessIds /\ obj[store[i]].client = i
  BY Zenon, <1>s, SessionIds DEF SessionInv
<1>1. ASSUME SameConns, SameObjects, (\E c \in Conns : Proceed(c)) \/ (Outside /\ pc' = pc),
             NEW i \in ClientIds
      PROVE  Scheduled(i)'
  <2> DEFINE s == store[i]
  <2> SUFFICES ASSUME store'[i] # 0, ~obj'[store'[i]].clean, obj'[store'[i]].v5,
                      ~\E d \in Conns : sess'[d] = store'[i] /\ pc'[d] \notin {"lastwill", "gone"}
               PROVE  \/ obj'[store'[i]].expiry = "never"
                      \/ obj'[store'[i]].expiry = "finite" /\ obj'[store'[i]].deadline # "none"
    BY Zenon DEF Scheduled
  <2>0. store'[i] = s /\ sess' = sess
    <3>1. store'[i] \in {store[i], 0}
      BY Zenon, <1>1, StoreSteps
    <3> QED
      BY <1>1, <3>1 DEF SameConns
  <2>1. s # 0 /\ s \in SessIds /\ obj[s].client = i /\ ~obj[s].clean
    BY Zenon, <1>1, <1>s, <2>0 DEF SameObjects
  <2>2. ASSUME NEW d \in Conns, Holder(d, s)
        PROVE  \/ obj'[s].expiry = "never"
               \/ obj'[s].expiry = "finite" /\ obj'[s].deadline # "none"
    <3>1. pc'[d] \in {"lastwill", "gone"} /\ sess[d] # 0
      BY Zenon, <2>0, <2>1, <2>2
    <3>2. PICK c \in Conns : Proceed(c)
      BY Zenon, <1>1, <2>2, <3>1
    <3>3. d = c /\ (PrepareDisconnectExpiry(c) \/ (DeleteSession(c) /\ store'[id[c]] = 0))
      BY Zenon, <2>2, <3>1, <3>2, HolderLeaves
    <3>4. id[c] = i
      BY Zenon, <1>p, <2>1, <2>2, <3>1, <3>3 DEF Held
    <3>5. PrepareDisconnectExpiry(c)
      BY Zenon, <3>3, <3>4
    <3>6. /\ obj'[s].v5 = obj[s].v5 /\ obj'[s].expiry = obj[s].expiry
          /\ obj[s].v5 /\ obj[s].expiry = "finite" => obj'[s].deadline = "pending"
      <4>1. /\ KeepsInterval
            /\ \A x \in SessIds : x = sess[c] /\ obj[x].v5 /\ obj[x].expiry = "finite" =>
                 obj'[x].deadline = "pending"
        BY Zenon, <3>5, CleanupTouches
      <4> QED
        BY Zenon, <2>1, <2>2, <3>3, <4>1 DEF KeepsInterval
    <3>7. obj[s].v5
      BY Zenon, <2>0, <3>6
    <3>8. obj[s].expiry # "zero"
      <4> SUFFICES ASSUME obj[s].expiry = "zero" PROVE FALSE
        OBVIOUS
      <4>1. pc' = [pc EXCEPT ![c] = "unsub"]
        BY <2>2, <3>3, <3>5, <3>7 DEF PrepareDisconnectExpiry, Goto
      <4>2. pc'[c] = "unsub"
        BY <4>1 DEF TypeInv
      <4> QED
        BY <3>1, <3>3, <4>2
    <3>9. obj[s].expiry \in Expiries
      BY <2>1 DEF TypeInv, Sessions
    <3> QED
      BY <3>6, <3>7, <3>8, <3>9 DEF Expiries
  <2>3. CASE ~\E d \in Conns : Holder(d, s)
    <3>1. /\ obj'[s].v5 = obj[s].v5 /\ obj'[s].expiry = obj[s].expiry
          /\ obj'[s].deadline = obj[s].deadline \/ obj'[s].deadline = "passed"
      BY Zenon, <1>1, <2>1, <2>3, IntervalSteps
    <3>2. Scheduled(i) /\ "passed" # "none"
      BY DEF ExpiryInv
    <3>3. \/ obj[s].expiry = "never"
          \/ obj[s].expiry = "finite" /\ obj[s].deadline # "none"
      BY Zenon, <2>0, <2>1, <2>3, <3>1, <3>2 DEF Scheduled
    <3>4. obj[s].deadline # "none" => obj'[s].deadline # "none"
      BY <3>1
    <3> QED
      BY Zenon, <2>0, <3>1, <3>3, <3>4
  <2> QED
    BY Zenon, <2>0, <2>2, <2>3
<1>2. ASSUME NEW c \in Conns, Proceed(c) PROVE ExpiryInv'
  BY Zenon, <1>1, <1>2, ProceedSame DEF ExpiryInv
<1>3. CASE Outside
  BY Zenon, <1>1, <1>3, OutsideSame DEF ExpiryInv
<1>4. ASSUME NEW c \in Conns, pc[c] \in {"accept", "session"}, pc'[c] \notin {"lastwill", "gone"},
             \A d \in Conns \ {c} : pc'[d] = pc[d] /\ sess'[d] = sess[d],
             \A x \in 1 .. created : obj'[x] = obj[x],
             \A i \in ClientIds : store'[i] = store[i] \/ store'[i] = sess'[c],
             NEW i \in ClientIds
      PROVE  Scheduled(i)'
  <2>0. sess[c] = 0
    BY <1>p, <1>4 DEF Held
  <2>1. CASE store'[i] = sess'[c]
    BY Zenon, <1>4, <2>1 DEF Scheduled
  <2>2. CASE store'[i] = store[i] /\ store[i] = 0
    BY Zenon, <2>2 DEF Scheduled
  <2>3. CASE store'[i] = store[i] /\ store[i] # 0
    <3>1. obj'[store[i]] = obj[store[i]]
      BY Zenon, <1>4, <1>s, <2>3
    <3>2. ASSUME NEW d \in Conns, Holder(d, store[i]) PROVE Holder(d, store[i])'
      <4>1. d # c
        BY Zenon, <2>0, <2>3, <3>2
      <4> QED
        BY Zenon, <1>4, <2>3, <3>2, <4>1
    <3>3. Scheduled(i)
      BY Zenon DEF ExpiryInv
    <3> QED
      BY Zenon, <2>3, <3>1, <3>2, <3>3 DEF Scheduled
  <2> QED
    BY Zenon, <1>4, <2>1, <2>2, <2>3
<1>5. ASSUME NEW c \in Conns, NEW i \in ClientIds,
             (\E r \in Requests : Connect(c, i, r)) \/ PluginReject(c, i)
      PROVE  ExpiryInv'
  <2>1. /\ pc[c] = "accept" /\ pc'[c] \in {"takeover", "close"}
        /\ sess' = sess /\ obj' = obj /\ store' = store
        /\ \A d \in Conns \ {c} : pc'[d] = pc[d]
    BY Zenon, <1>5, Begins
  <2>2. pc'[c] \notin {"lastwill", "gone"} /\ pc[c] \in {"accept", "session"}
    BY <2>1
  <2> QED
    BY Zenon, <1>4, <2>1, <2>2 DEF ExpiryInv
<1>6. ASSUME NEW c \in Conns, GetOrCreate(c) PROVE ExpiryInv'
  <2>1. /\ pc[c] = "session" /\ pc'[c] = "clear"
        /\ \A d \in Conns \ {c} : pc'[d] = pc[d] /\ sess'[d] = sess[d]
        /\ \A i \in ClientIds : store'[i] = store[i] \/ store'[i] = sess'[c]
    BY Zenon, <1>6, Resumes
  <2>2. pc'[c] \notin {"lastwill", "gone"} /\ pc[c] \in {"accept", "session"}
    BY <2>1
  <2>3. \A x \in 1 .. created : x \in SessIds /\ x # created + 1
    BY SessionIds
  <2>4. \A x \in 1 .. created : obj'[x] = obj[x]
    BY Zenon, <1>6, <2>3, Resumes
  <2> QED
    BY Zenon, <1>4, <2>1, <2>2, <2>4 DEF ExpiryInv
<1> QED
  BY Zenon, <1>2, <1>3, <1>5, <1>6, Steps

----------------------------------------------------------------------------
(* The registry, the store and the session of a serving connection. *)

\* The connected flag of a session is lowered by SetDisconnected alone.
LEMMA ConnectedSteps ==
  ASSUME TypeInv, NEW x \in SessIds
  PROVE  /\ \A c \in Conns : Proceed(c) =>
              \/ obj'[x].connected = obj[x].connected
              \/ obj'[x].connected
              \/ SetDisconnected(c) /\ x = sess[c]
         /\ Outside => obj'[x].connected = obj[x].connected
<1>1. ASSUME NEW c \in Conns, Proceed(c)
      PROVE  \/ obj'[x].connected = obj[x].connected
             \/ obj'[x].connected
             \/ SetDisconnected(c) /\ x = sess[c]
  <2>1. CASE Evict(c) \/ ClearDisconnectExpiry(c) \/ SetProtocolAndExpiry(c) \/ SetWill(c)
    BY Zenon, <2>1, ConnectTouches DEF KeepsConnected
  <2>2. CASE handleDisconnect(c) \/ PrepareDisconnectExpiry(c)
    BY Zenon, <2>2, CleanupTouches DEF KeepsConnected
  <2>3. CASE SetConnected(c)
    <3>1. Touches(sess[c]) /\ \A y \in SessIds : y = sess[c] => obj'[y].connected
      BY Zenon, <2>3, ConnectTouches
    <3> QED
      BY Zenon, <3>1 DEF Touches
  <2>4. CASE SetDisconnected(c)
    <3>1. Touches(sess[c])
      BY Zenon, <2>4, CleanupTouches
    <3> QED
      BY Zenon, <2>4, <3>1 DEF Touches
  <2>5. CASE \/ takeover(c) \/ register(c) \/ Subscribe(c) \/ restoreSession(c) \/ Drop(c)
             \/ Close(c) \/ unregister(c) \/ UnsubscribeAll(c) \/ DeleteSession(c) \/ PublishWill(c)
    <3>1. obj' = obj
      BY Zenon, <2>5 DEF takeover, register, Subscribe, restoreSession, Drop, Close, unregister,
        UnsubscribeAll, DeleteSession, PublishWill
    <3> QED
      BY Zenon, <3>1
  <2> QED
    BY Zenon, <1>1, <2>1, <2>2, <2>3, <2>4, <2>5 DEF Proceed
<1>2. ASSUME Outside PROVE obj'[x].connected = obj[x].connected
  <2>1. ASSUME NEW i \in ClientIds, ForceDisconnect(i) PROVE obj'[x].connected = obj[x].connected
    BY Zenon, <2>1, OutsideTouches DEF KeepsConnected
  <2>2. ASSUME NEW s \in SessIds, DeadlinePasses(s) PROVE obj'[x].connected = obj[x].connected
    BY Zenon, <2>2, OutsideTouches DEF KeepsConnected
  <2>3. CASE Sweep \/ UNCHANGED vars
    <3>1. obj' = obj
      BY Zenon, <2>3 DEF Sweep, SweepTick, SweepCheck, SweepUnsubscribeAll, SweepDelete, vars
    <3> QED
      BY Zenon, <3>1
  <2> QED
    BY Zenon, <1>2, <2>1, <2>2, <2>3 DEF Outside
<1> QED
  BY Zenon, <1>1, <1>2

\* The step of a connection keeps what a serving connection relies on.
LEMMA LiveProceed ==
  ASSUME TypeInv, PhaseInv, SessionInv, LiveInv, ~overlapped,
         NEW c \in Conns, Proceed(c), NEW d \in Conns
  PROVE  Live(d)'
<1>0. /\ pc \in [Conns -> Labels] /\ store \in [ClientIds -> Nat]
      /\ registry \in [ClientIds -> Conns \cup {None}]
  BY Zenon DEF TypeInv
<1>a. OneAtWork /\ Live(d) /\ Phase(d) /\ Held(d) /\ Phase(c) /\ Held(c)
  BY Zenon DEF LiveInv, PhaseInv, SessionInv
<1>b. /\ SameConns /\ SameObjects /\ (pc' = pc \/ Moves(c))
      /\ id' = id /\ sess' = sess
  BY Zenon, ProceedSame DEF SameConns
<1>c. sweepPc' = sweepPc /\ sweepSet' = sweepSet /\ sweepCur' = sweepCur
  BY Zenon DEF Proceed, takeover, Evict, ClearDisconnectExpiry, SetProtocolAndExpiry,
    SetWill, SetConnected, register, Subscribe, restoreSession, handleDisconnect, Drop, Close,
    unregister, SetDisconnected, PrepareDisconnectExpiry, UnsubscribeAll, DeleteSession,
    PublishWill, sweepVars
<1>d. /\ pc'[d] \in Handshake => pc[d] \in Handshake
      /\ pc'[d] \in {"clear", "expiry", "will", "online", "register", "serve"} =>
           pc[d] \in {"clear", "expiry", "will", "online", "register", "serve"}
      /\ pc'[d] = "register" => pc[d] = "register" \/ (pc[d] = "online" /\ d = c /\ pc' # pc)
      /\ pc'[d] = "serve" => pc[d] = "serve" \/ (pc[d] = "register" /\ d = c /\ pc' # pc)
  <2>1. CASE pc' = pc
    BY Zenon, <2>1
  <2>2. CASE Moves(c)
    <3>1. PICK m \in Labels : Ahead(c, m) /\ pc' = [pc EXCEPT ![c] = m]
      BY Zenon, <2>2 DEF Moves
    <3>2. CASE d # c
      <4>1. pc'[d] = pc[d]
        BY <1>0, <3>1, <3>2
      <4> QED
        BY Zenon, <4>1
    <3>3. CASE d = c
      <4>1. pc'[d] = m /\ m # pc[d]
        BY <1>0, <3>1, <3>3 DEF Ahead
      <4>2. pc' # pc
        BY Zenon, <4>1
      <4>3. /\ m \in Handshake => pc[c] \in Handshake
            /\ m \in {"clear", "expiry", "will", "online", "register", "serve"} =>
                 pc[c] \in {"clear", "expiry", "will", "online", "register", "serve"}
            /\ m = "register" => pc[c] = "online"
            /\ m = "serve" => pc[c] = "register"
        BY <3>1 DEF Ahead, Handshake
      <4> QED
        BY Zenon, <3>3, <4>1, <4>2, <4>3
    <3> QED
      BY Zenon, <3>2, <3>3
  <2> QED
    BY Zenon, <1>b, <2>1, <2>2
<1>e. ASSUME pc[d] \in {"clear", "expiry", "will", "online", "register", "serve"}
      PROVE  /\ id[d] \in ClientIds /\ id[d] # None /\ pc[d] # "gone" /\ sess[d] # 0
             /\ sess[d] \in SessIds
  <2>1. id[d] \in ClientIds /\ pc[d] # "gone" /\ sess[d] # 0
    BY <1>a, <1>e DEF Phase, Handshake, HasSess
  <2>2. sess[d] \in 1 .. created
    BY Zenon, <1>a, <2>1 DEF Held
  <2> QED
    BY Zenon, <2>1, <2>2, SessionIds, ConstantsAssumption
<1>f. ASSUME pc[d] \in {"clear", "expiry", "will", "online", "register", "serve"},
             id[c] = id[d], pc[c] # "gone"
      PROVE  c = d
  BY Zenon, <1>a, <1>e, <1>f DEF OneAtWork
<1>1. pc'[d] \in Handshake => sweepPc' = "idle"
  BY Zenon, <1>a, <1>c, <1>d DEF Live
<1>2. ASSUME pc'[d] \in {"clear", "expiry", "will", "online", "register", "serve"}
      PROVE  store'[id'[d]] = sess'[d]
  <2>1. pc[d] \in {"clear", "expiry", "will", "online", "register", "serve"}
    BY Zenon, <1>2, <1>d
  <2>2. store[id[d]] = sess[d]
    BY Zenon, <1>a, <2>1 DEF Live
  <2>3. store'[id[d]] = store[id[d]]
    <3>1. CASE DeleteSession(c)
      <4>1. pc[c] = "delete" /\ store' = [store EXCEPT ![id[c]] = 0]
        BY Zenon, <3>1 DEF DeleteSession
      <4>2. id[c] # id[d]
        BY <1>f, <2>1, <4>1
      <4>3. id[d] \in ClientIds
        BY Zenon, <1>e, <2>1
      <4> QED
        BY <1>0, <4>1, <4>2, <4>3
    <3>2. CASE ~DeleteSession(c)
      BY Zenon, <3>2 DEF Proceed, takeover, Evict, ClearDisconnectExpiry,
        SetProtocolAndExpiry, SetWill, SetConnected, register, Subscribe, restoreSession,
        handleDisconnect, Drop, Close, unregister, SetDisconnected, PrepareDisconnectExpiry,
        UnsubscribeAll, PublishWill
    <3> QED
      BY Zenon, <3>1, <3>2
  <2> QED
    BY Zenon, <1>b, <2>2, <2>3
<1>3. ASSUME pc'[d] \in {"register", "serve"} PROVE obj'[sess'[d]].connected
  <2>0. sess'[d] = sess[d]
    BY Zenon, <1>b
  <2>1. CASE pc[d] \in {"register", "serve"}
    <3>1. obj[sess[d]].connected /\ sess[d] \in SessIds
      BY <1>a, <1>e, <2>1 DEF Live
    <3>2. ~(SetDisconnected(c) /\ sess[d] = sess[c])
      <4> SUFFICES ASSUME SetDisconnected(c), sess[d] = sess[c] PROVE FALSE
        OBVIOUS
      <4>1. pc[c] = "offline"
        BY Zenon DEF SetDisconnected
      <4>2. id[c] = id[d]
        <5>1. sess[d] # 0
          BY <1>e, <2>1
        <5> QED
          BY Zenon, <1>a, <5>1 DEF Held
      <4> QED
        BY <1>f, <2>1, <4>1, <4>2
    <3> QED
      BY Zenon, <2>0, <3>1, <3>2, ConnectedSteps
  <2>2. CASE pc[d] = "online" /\ d = c /\ pc' # pc
    <3>1. SetConnected(c) /\ sess[c] \in SessIds
      BY <1>e, <2>2, Exits
    <3> QED
      BY Zenon, <2>0, <2>2, <3>1, ConnectTouches
  <2> QED
    BY <1>3, <1>d, <2>1, <2>2
<1>4. ASSUME pc'[d] = "serve" PROVE registry'[id'[d]] = d
  <2>0. id'[d] = id[d]
    BY Zenon, <1>b
  <2>1. CASE pc[d] = "serve"
    <3>1. registry[id[d]] = d /\ id[d] \in ClientIds
      BY <1>a, <1>e, <2>1 DEF Live
    <3>2. CASE register(c) \/ unregister(c)
      <4>1. /\ pc[c] \in {"register", "unregister"}
            /\ \E v : registry' = [registry EXCEPT ![id[c]] = v]
        BY Zenon, <3>2 DEF register, unregister
      <4>2. id[c] # id[d]
        BY <1>f, <2>1, <4>1
      <4>3. registry'[id[d]] = registry[id[d]]
        BY <1>0, <3>1, <4>1, <4>2
      <4> QED
        BY Zenon, <2>0, <3>1, <4>3
    <3>3. CASE ~register(c) /\ ~unregister(c)
      BY Zenon, <2>0, <3>1, <3>3, RegistrySteps
    <3> QED
      BY Zenon, <3>2, <3>3
  <2>2. CASE pc[d] = "register" /\ d = c /\ pc' # pc
    <3>1. register(c) /\ id[c] \in ClientIds
      BY <1>e, <2>2, Exits
    <3>2. registry'[id[c]] = c
      BY <1>0, <3>1 DEF register
    <3> QED
      BY Zenon, <2>0, <2>2, <3>2
  <2> QED
    BY Zenon, <1>4, <1>d, <2>1, <2>2
<1>5. ASSUME pc'[d] = "serve"
      PROVE  /\ \A s \in sweepSet' : obj'[s].client = id'[d] => s = sess'[d]
             /\ sweepPc' \in {"unsub", "delete"} => obj'[sweepCur'].client # id'[d]
  <2>1. CASE pc[d] = "serve"
    <3>1. \A s \in sweepSet : s \in SessIds /\ obj'[s].client = obj[s].client
      BY Zenon, <1>b, SessionIds DEF TypeInv, SameObjects
    <3>2. sweepPc \in {"unsub", "delete"} => obj'[sweepCur].client = obj[sweepCur].client
      <4>1. sweepPc \in {"unsub", "delete"} => sweepCur # 0
        BY Zenon DEF SessionInv
      <4>2. sweepCur # 0 => sweepCur \in 1 .. created
        BY SessionIds DEF TypeInv
      <4> QED
        BY Zenon, <1>b, <4>1, <4>2, SessionIds DEF SameObjects
    <3> QED
      BY Zenon, <1>a, <1>b, <1>c, <2>1, <3>1, <3>2 DEF Live
  <2>2. CASE pc[d] = "register"
    <3>1. sweepPc = "idle"
      BY <1>a, <2>2 DEF Live, Handshake
    <3>2. sweepSet = {}
      BY Zenon, <3>1 DEF LiveInv
    <3> QED
      BY <1>c, <3>1, <3>2
  <2> QED
    BY Zenon, <1>5, <1>d, <2>1, <2>2
<1> QED
  BY Zenon, <1>1, <1>2, <1>3, <1>4, <1>5 DEF Live

\* So does a step of nobody; a sweep that begins during a handshake is an overlap.
LEMMA LiveOutside ==
  ASSUME TypeInv, PhaseInv, SessionInv, LiveInv, ~overlapped, ~overlapped', Outside, NEW d \in Conns
  PROVE  Live(d)'
<1>0. store \in [ClientIds -> Nat] /\ sweepSet \subseteq 1 .. created
  BY Zenon DEF TypeInv
<1>a. Live(d) /\ Phase(d) /\ Held(d)
  BY Zenon DEF LiveInv, PhaseInv, SessionInv
<1>b. /\ SameObjects /\ pc' = pc /\ id' = id /\ sess' = sess
  BY Zenon, OutsideSame DEF SameConns
<1>c. registry' = registry
  BY Zenon DEF Outside, ForceDisconnect, DeadlinePasses, Sweep, SweepTick, SweepCheck,
    SweepUnsubscribeAll, SweepDelete, vars
<1>d. /\ \A s \in 1 .. created : s \in SessIds /\ obj'[s].client = obj[s].client
      /\ sweepPc \in {"unsub", "delete"} => sweepCur \in 1 .. created
  <2>1. sweepPc \in {"unsub", "delete"} => sweepCur # 0
    BY Zenon DEF SessionInv
  <2>2. sweepCur # 0 => sweepCur \in 1 .. created
    BY SessionIds DEF TypeInv
  <2> QED
    BY Zenon, <1>b, <2>1, <2>2, SessionIds DEF SameObjects
<1>e. pc[d] \in {"clear", "expiry", "will", "online", "register", "serve"} =>
        id[d] \in ClientIds /\ sess[d] # 0 /\ sess[d] \in SessIds
  <2>1. pc[d] \in {"clear", "expiry", "will", "online", "register", "serve"} =>
          id[d] \in ClientIds /\ sess[d] # 0
    BY <1>a DEF Phase, Handshake, HasSess
  <2>2. sess[d] # 0 => sess[d] \in SessIds
    BY Zenon, <1>a, SessionIds DEF Held
  <2> QED
    BY Zenon, <2>1, <2>2
<1>1. pc'[d] \in {"register", "serve"} => obj'[sess'[d]].connected
  <2>1. pc[d] \in {"register", "serve"} => sess[d] \in SessIds
    BY <1>e
  <2> QED
    BY Zenon, <1>a, <1>b, <2>1, ConnectedSteps DEF Live
<1>2. ASSUME store' = store, sweepSet' = sweepSet, sweepPc' = sweepPc, sweepCur' = sweepCur
      PROVE  Live(d)'
  <2>1. pc[d] = "serve" =>
          /\ \A s \in sweepSet : obj'[s].client = id[d] => s = sess[d]
          /\ sweepPc \in {"unsub", "delete"} => obj'[sweepCur].client # id[d]
    BY Zenon, <1>0, <1>a, <1>d DEF Live
  <2> QED
    BY Zenon, <1>1, <1>2, <1>a, <1>b, <1>c, <2>1 DEF Live
<1>3. ASSUME NEW i \in ClientIds, ForceDisconnect(i) PROVE Live(d)'
  BY Zenon, <1>2, <1>3 DEF ForceDisconnect, sweepVars
<1>4. ASSUME NEW s \in SessIds, DeadlinePasses(s) PROVE Live(d)'
  BY Zenon, <1>2, <1>4 DEF DeadlinePasses, sweepVars
<1>5. CASE UNCHANGED vars
  BY Zenon, <1>2, <1>5 DEF vars, sweepVars
<1>6. CASE SweepTick
  <2>1. /\ store' = store /\ obj' = obj /\ sweepPc' = "check"
        /\ sweepSet' = {store[i] : i \in ClientIds} \ {0}
        /\ overlapped' = (overlapped \/ \E c \in Conns : pc[c] \in Handshake)
    BY Zenon, <1>6 DEF SweepTick
  <2>2. pc'[d] \notin Handshake
    BY Zenon, <1>b, <2>1
  <2>3. ASSUME pc[d] = "serve", NEW s \in sweepSet', obj[s].client = id[d] PROVE s = sess[d]
    <3>1. PICK i \in ClientIds : s = store[i] /\ s # 0
      BY Zenon, <2>1
    <3>2. obj[s].client = i
      BY Zenon, <3>1 DEF SessionInv
    <3>3. store[id[d]] = sess[d]
      BY <1>a, <2>3 DEF Live
    <3> QED
      BY Zenon, <2>3, <3>1, <3>2, <3>3
  <2>4. sweepPc' \notin {"unsub", "delete"}
    BY <2>1
  <2> QED
    BY Zenon, <1>1, <1>a, <1>b, <1>c, <2>1, <2>2, <2>3, <2>4 DEF Live
<1>7. CASE SweepCheck
  <2>0. store' = store /\ obj' = obj /\ sweepPc = "check"
    BY Zenon, <1>7 DEF SweepCheck
  <2>1. pc[d] \notin Handshake
    <3>1. sweepPc # "idle"
      BY <2>0
    <3> QED
      BY Zenon, <1>a, <3>1 DEF Live
  <2>2. \A s \in sweepSet' : s \in sweepSet
    BY <1>7 DEF SweepCheck
  <2>3. ASSUME pc[d] = "serve", sweepPc' \in {"unsub", "delete"} PROVE obj[sweepCur'].client # id[d]
    <3>1. sweepPc \notin {"unsub", "delete"}
      BY <2>0
    <3>2. PICK s \in sweepSet : sweepCur' = s /\ ShouldExpireDisconnected(s)
      BY Zenon, <2>3, <3>1, StoreSteps
    <3>3. obj[sess[d]].connected
      BY <1>a, <2>3 DEF Live
    <3>4. obj[s].client = id[d] => s = sess[d]
      BY Zenon, <1>a, <2>3 DEF Live
    <3> QED
      BY Zenon, <3>2, <3>3, <3>4 DEF ShouldExpireDisconnected
  <2> QED
    BY Zenon, <1>1, <1>a, <1>b, <1>c, <2>0, <2>1, <2>2, <2>3 DEF Live
<1>8. CASE SweepUnsubscribeAll
  <2>1. /\ store' = store /\ obj' = obj /\ sweepPc = "unsub"
        /\ sweepSet' = sweepSet /\ sweepCur' = sweepCur
    BY Zenon, <1>8 DEF SweepUnsubscribeAll
  <2>2. pc[d] \notin Handshake
    <3>1. sweepPc # "idle"
      BY <2>1
    <3> QED
      BY Zenon, <1>a, <3>1 DEF Live
  <2>3. pc[d] = "serve" => obj[sweepCur].client # id[d]
    BY <1>a, <2>1 DEF Live
  <2> QED
    BY Zenon, <1>1, <1>a, <1>b, <1>c, <2>1, <2>2, <2>3 DEF Live
<1>9. CASE SweepDelete
  <2>1. /\ store' = [store EXCEPT ![obj[sweepCur].client] = 0] /\ obj' = obj
        /\ sweepPc = "delete" /\ sweepPc' = "check" /\ sweepSet' = sweepSet
    BY Zenon, <1>9 DEF SweepDelete
  <2>2. pc[d] \notin Handshake
    <3>1. sweepPc # "idle"
      BY <2>1
    <3> QED
      BY Zenon, <1>a, <3>1 DEF Live
  <2>3. pc[d] = "serve" => obj[sweepCur].client # id[d]
    BY <1>a, <2>1 DEF Live
  <2>4. pc[d] = "serve" => store'[id[d]] = store[id[d]]
    BY <1>0, <1>e, <2>1, <2>3
  <2>5. pc[d] \in {"clear", "expiry", "will", "online", "register", "serve"} => pc[d] = "serve"
    BY <2>2 DEF Handshake
  <2>6. sweepPc' \notin {"unsub", "delete"}
    BY <2>1
  <2> QED
    BY Zenon, <1>1, <1>a, <1>b, <1>c, <2>1, <2>2, <2>4, <2>5, <2>6 DEF Live
<1> QED
  BY Zenon, <1>3, <1>4, <1>5, <1>6, <1>7, <1>8, <1>9 DEF Outside, Sweep

\* Every step keeps a serving connection in the registry and its session in the
\* store, unless it makes an overlap.
LEMMA LiveStep ==
  ASSUME MaxConnects = 1, TypeInv, PhaseInv, SessionInv, LiveInv, [Next]_vars
  PROVE  LiveInv'
<1>p. \A d \in Conns : Phase(d) /\ Held(d)
  BY Zenon DEF PhaseInv, SessionInv
<1>i. sweepPc = "idle" => sweepSet = {}
  BY Zenon DEF LiveInv
<1>1. ASSUME (\E c \in Conns : Proceed(c)) \/ Outside, id' = id,
             pc' = pc \/ \E c \in Conns : Moves(c)
      PROVE  LiveInv'
  <2>1. overlapped => overlapped'
    BY Zenon, <1>1 DEF Proceed, takeover, Evict, ClearDisconnectExpiry, SetProtocolAndExpiry,
      SetWill, SetConnected, register, Subscribe, restoreSession, handleDisconnect, Drop, Close,
      unregister, SetDisconnected, PrepareDisconnectExpiry, UnsubscribeAll, DeleteSession,
      PublishWill, Outside, ForceDisconnect, DeadlinePasses, Sweep, SweepTick, SweepCheck,
      SweepUnsubscribeAll, SweepDelete, histVars, vars
  <2>2. ASSUME OneAtWork PROVE OneAtWork'
    <3>1. \A d \in Conns : pc[d] = "gone" => pc'[d] = "gone"
      BY Zenon, <1>1, CleanupStays
    <3> QED
      BY Zenon, <1>1, <2>2, <3>1 DEF OneAtWork
  <2>3. sweepPc' = "idle" => sweepSet' = {}
    <3>1. ASSUME sweepPc' = sweepPc, sweepSet' = sweepSet PROVE sweepPc' = "idle" => sweepSet' = {}
      BY Zenon, <1>i, <3>1
    <3>2. CASE SweepTick \/ SweepUnsubscribeAll \/ SweepDelete
      BY <3>2 DEF SweepTick, SweepUnsubscribeAll, SweepDelete
    <3>3. CASE SweepCheck
      BY <3>3 DEF SweepCheck
    <3>4. CASE (\E i \in ClientIds : ForceDisconnect(i)) \/ (\E s \in SessIds : DeadlinePasses(s))
               \/ UNCHANGED vars
      BY Zenon, <3>1, <3>4 DEF ForceDisconnect, DeadlinePasses, vars, sweepVars
    <3>5. ASSUME NEW c \in Conns, Proceed(c) PROVE sweepPc' = "idle" => sweepSet' = {}
      BY Zenon, <3>1, <3>5 DEF Proceed, takeover, Evict, ClearDisconnectExpiry,
        SetProtocolAndExpiry, SetWill, SetConnected, register, Subscribe, restoreSession,
        handleDisconnect, Drop, Close, unregister, SetDisconnected, PrepareDisconnectExpiry,
        UnsubscribeAll, DeleteSession, PublishWill, sweepVars
    <3> QED
      BY Zenon, <1>1, <3>2, <3>3, <3>4, <3>5 DEF Outside, Sweep
  <2>4. ASSUME ~overlapped', NEW d \in Conns PROVE Live(d)'
    BY Zenon, <1>1, <2>1, <2>4, LiveProceed, LiveOutside
  <2>5. ~overlapped' => OneAtWork
    BY Zenon, <2>1 DEF LiveInv
  <2> QED
    BY Zenon, <2>2, <2>3, <2>4, <2>5 DEF LiveInv
<1>2. ASSUME NEW c \in Conns, Proceed(c) PROVE LiveInv'
  BY Zenon, <1>1, <1>2, ProceedSame DEF SameConns
<1>3. CASE Outside
  BY Zenon, <1>1, <1>3, OutsideSame DEF SameConns
<1>4. ASSUME NEW c \in Conns, GetOrCreate(c) PROVE LiveInv'
  <2>1. /\ pc[c] = "session" /\ pc'[c] = "clear" /\ id[c] \in ClientIds
        /\ \A d \in Conns \ {c} : pc'[d] = pc[d] /\ sess'[d] = sess[d]
        /\ UNCHANGED <<id, registry, sweepPc, sweepSet, sweepCur, overlapped>>
        /\ store'[id[c]] = sess'[c]
        /\ \A j \in ClientIds : j # id[c] => store'[j] = store[j]
    BY Zenon, <1>4, Resumes
  <2>2. \A x \in 1 .. created : x \in SessIds /\ x # created + 1
    BY SessionIds
  <2>3. \A x \in 1 .. created : obj'[x] = obj[x]
    BY Zenon, <1>4, <2>2, Resumes
  <2> SUFFICES ASSUME ~overlapped PROVE OneAtWork' /\ \A d \in Conns : Live(d)'
    BY Zenon, <1>i, <2>1 DEF LiveInv
  <2>4. OneAtWork /\ \A d \in Conns : Live(d)
    BY Zenon DEF LiveInv
  <2>5. sweepPc = "idle" /\ sweepSet = {}
    <3>1. pc[c] \in Handshake
      BY <2>1 DEF Handshake
    <3> QED
      BY Zenon, <1>i, <2>4, <3>1 DEF Live
  <2>6. OneAtWork'
    <3>1. \A d \in Conns : pc[d] = "gone" => pc'[d] = "gone"
      BY <2>1
    <3> QED
      BY Zenon, <2>1, <2>4, <3>1 DEF OneAtWork
  <2>7. Live(c)'
    <3>1. pc'[c] \notin {"register", "serve"} /\ pc'[c] # "serve"
      BY <2>1
    <3> QED
      BY Zenon, <2>1, <2>5, <3>1 DEF Live
  <2>8. ASSUME NEW d \in Conns \ {c} PROVE Live(d)'
    <3>1. ASSUME pc[d] \in {"clear", "expiry", "will", "online", "register", "serve"}
          PROVE  /\ id[d] \in ClientIds /\ id[d] # id[c]
                 /\ sess[d] \in 1 .. created
      <4>1. id[d] \in ClientIds /\ sess[d] # 0 /\ pc[d] # "gone" /\ pc[c] # "gone"
        BY <1>p, <2>1, <3>1 DEF Phase, Handshake, HasSess
      <4>2. sess[d] \in 1 .. created
        BY Zenon, <1>p, <4>1 DEF Held
      <4>3. id[d] # id[c]
        BY Zenon, <2>1, <2>4, <4>1, ConstantsAssumption DEF OneAtWork
      <4> QED
        BY Zenon, <4>1, <4>2, <4>3
    <3>2. pc[d] \in {"register", "serve"} => sess[d] \in 1 .. created
      BY <3>1
    <3>3. /\ pc'[d] = pc[d] /\ sess'[d] = sess[d] /\ id' = id /\ registry' = registry
          /\ sweepPc' = "idle" /\ sweepSet' = {} /\ Live(d)
      BY Zenon, <2>1, <2>4, <2>5
    <3>4. "idle" \notin {"unsub", "delete"}
      OBVIOUS
    <3>5. pc[d] \in {"clear", "expiry", "will", "online", "register", "serve"} =>
            store'[id[d]] = store[id[d]]
      BY Zenon, <2>1, <3>1
    <3>6. pc[d] \in {"register", "serve"} => obj'[sess[d]] = obj[sess[d]]
      BY Zenon, <2>3, <3>2
    <3> QED
      BY Zenon, <3>3, <3>4, <3>5, <3>6 DEF Live
  <2> QED
    BY Zenon, <2>6, <2>7, <2>8
<1>5. ASSUME NEW c \in Conns, NEW i \in ClientIds,
             (\E r \in Requests : Connect(c, i, r)) \/ PluginReject(c, i)
      PROVE  LiveInv'
  <2>1. /\ pc[c] = "accept" /\ pc'[c] \in {"takeover", "close"} /\ id'[c] = i
        /\ overlapped' = (overlapped \/ ~Quiet(c, i))
        /\ \A d \in Conns \ {c} : pc'[d] = pc[d] /\ id'[d] = id[d]
        /\ UNCHANGED <<sess, registry, store, obj, sweepPc, sweepSet, sweepCur>>
    BY Zenon, <1>5, Begins
  <2> SUFFICES ASSUME ~overlapped, Quiet(c, i) PROVE OneAtWork' /\ \A d \in Conns : Live(d)'
    BY Zenon, <1>i, <2>1 DEF LiveInv
  <2>2. OneAtWork /\ \A d \in Conns : Live(d)
    BY Zenon DEF LiveInv
  <2>3. sweepPc = "idle" /\ \A d \in Conns \ {c} : id[d] = i => pc[d] = "gone"
    BY Zenon DEF Quiet
  <2>4. OneAtWork'
    <3> SUFFICES ASSUME NEW a \in Conns, NEW d \in Conns, id'[a] # None, id'[a] = id'[d], a # d
                 PROVE  pc'[a] = "gone" \/ pc'[d] = "gone"
      BY Zenon DEF OneAtWork
    <3>1. CASE a = c
      BY Zenon, <2>1, <2>3, <3>1
    <3>2. CASE d = c
      BY Zenon, <2>1, <2>3, <3>2
    <3>3. CASE a # c /\ d # c
      BY Zenon, <2>1, <2>2, <3>3 DEF OneAtWork
    <3> QED
      BY Zenon, <3>1, <3>2, <3>3
  <2>5. Live(c)'
    <3>1. pc'[c] \notin {"clear", "expiry", "will", "online", "register", "serve"} \cup {"register", "serve"}
      BY <2>1
    <3>2. /\ pc'[c] \notin {"clear", "expiry", "will", "online", "register", "serve"}
          /\ pc'[c] \notin {"register", "serve"} /\ pc'[c] # "serve"
      BY <3>1
    <3> QED
      BY Zenon, <2>1, <2>3, <3>2 DEF Live
  <2>6. ASSUME NEW d \in Conns \ {c} PROVE Live(d)'
    <3>1. pc'[d] = pc[d] /\ id'[d] = id[d] /\ Live(d)
      BY Zenon, <2>1, <2>2
    <3> QED
      BY Zenon, <2>1, <3>1 DEF Live
  <2> QED
    BY Zenon, <2>4, <2>5, <2>6
<1> QED
  BY Zenon, <1>2, <1>3, <1>4, <1>5, Steps

----------------------------------------------------------------------------
(* The theorems. *)

\* Before the first CONNECT nothing is registered, stored or subscribed.
LEMMA InitInv ==
  ASSUME Init
  PROVE  Inv
<1>1. TypeInv
  <2>1. NoRequest \in AllRequests /\ NewSession(None, TRUE) \in Sessions
    BY DEF NoRequest, AllRequests, NewSession, Sessions, Expiries
  <2>2. 0 \in 0 .. MaxSess
    BY ConstantsAssumption
  <2>3. /\ pc \in [Conns -> Labels] /\ id \in [Conns -> ClientIds \cup {None}]
        /\ req \in [Conns -> AllRequests] /\ obj \in [SessIds -> Sessions]
    BY Zenon, <2>1 DEF Init, Labels
  <2>4. /\ sess \in [Conns -> Nat] /\ present \in [Conns -> BOOLEAN] /\ sock \in [Conns -> BOOLEAN]
        /\ connects \in [Conns -> Nat] /\ target \in [Conns -> Conns \cup {None}]
        /\ restore \in [Conns -> Nat] /\ registry \in [ClientIds -> Conns \cup {None}]
        /\ store \in [ClientIds -> Nat] /\ sub \in [ClientIds -> Conns \cup {None}]
    BY DEF Init
  <2>5. /\ created \in 0 .. MaxSess /\ sweepPc \in {"idle", "check", "unsub", "delete"}
        /\ sweepCur \in 0 .. created
    <3>1. created = 0 /\ sweepPc = "idle" /\ sweepCur = 0
      BY Zenon DEF Init
    <3> QED
      BY <2>2, <3>1
  <2>6. /\ overlapped \in BOOLEAN /\ sweepSet \subseteq 1 .. created /\ graceful \subseteq Conns
        /\ wills \subseteq [by : Conns, of : Conns]
    BY Zenon DEF Init
  <2> QED
    BY Zenon, <2>3, <2>4, <2>5, <2>6 DEF TypeInv
<1>2. PhaseInv
  BY DEF Init, PhaseInv, Phase, Handshake, Cleanup, HasSess
<1>3. SessionInv
  BY DEF Init, SessionInv, Held
<1>4. RegistryNeverStale
  BY DEF Init, RegistryNeverStale
<1>5. CleanInv
  BY DEF Init, CleanInv, SoleHolder, WillHeld
<1>6. GhostInv
  BY DEF Init, GhostInv, Prepares, Owned, Closure
<1>7. ExpiryInv
  BY DEF Init, ExpiryInv, Scheduled
<1>8. LiveInv
  BY DEF Init, LiveInv, OneAtWork, Live, Handshake
<1> QED
  BY Zenon, <1>1, <1>2, <1>3, <1>4, <1>5, <1>6, <1>7, <1>8 DEF Inv

\* Every step keeps the invariant.
LEMMA InvStep ==
  ASSUME MaxConnects = 1, Inv, [Next]_vars
  PROVE  Inv'
BY Zenon, TypeStep, PhaseStep, SessionStep, RegistryStep, CleanStep, GhostStep, ExpiryStep,
   LiveStep DEF Inv

\* The invariant holds throughout, for clients that send one CONNECT per
\* connection.
THEOREM LifecycleInvariant ==
  ASSUME MaxConnects = 1
  PROVE  Spec => []Inv
<1>1. Init => Inv
  BY InitInv
<1>2. Inv /\ [Next]_vars => Inv'
  BY InvStep
<1> QED
  BY <1>1, <1>2, PTL DEF Spec

\* takeover and ForceDisconnect never find a connection that has unregistered
\* itself: the registry names one that is serving or on its way to unregister,
\* although unregister deletes by client identifier.
THEOREM RegistryIsNeverStale ==
  ASSUME MaxConnects = 1
  PROVE  Spec => []RegistryNeverStale
<1>1. Inv => RegistryNeverStale
  BY Zenon DEF Inv
<1> QED
  BY <1>1, LifecycleInvariant, PTL

\* Cleanup leaves neither a clean session in the store nor its delivery closure
\* in the router, however cleanups and CONNECTs interleave.
THEOREM CleanSessionsLeaveNoGhosts ==
  ASSUME MaxConnects = 1
  PROVE  Spec => []NoGhosts
<1>1. Inv => NoGhosts
  BY Zenon DEF Inv, GhostInv, Owned, Closure, NoGhosts, Holders
<1> QED
  BY <1>1, LifecycleInvariant, PTL

\* A stored v5 session that no connection works on any more has its expiry
\* scheduled, unless its interval says that it never expires.
THEOREM ExpiryIsHonoured ==
  ASSUME MaxConnects = 1
  PROVE  Spec => []ExpiryHonoured
<1>1. Inv => ExpiryHonoured
  BY Zenon DEF Inv, ExpiryInv, Scheduled, ExpiryHonoured, Holders
<1> QED
  BY <1>1, LifecycleInvariant, PTL

\* The will of a clean session is published by the cleanup of the connection
\* that set it, and never after that connection's DISCONNECT.
THEOREM CleanWillIsOwn ==
  ASSUME MaxConnects = 1
  PROVE  Spec => []CleanWillOwn
<1>1. Inv => CleanWillOwn
  BY Zenon DEF Inv, CleanInv, WillRecord, CleanWillOwn
<1> QED
  BY <1>1, LifecycleInvariant, PTL

\* Until a CONNECT overlaps older work on its client identifier, a serving
\* connection is the registered one and its session the stored, connected one.
THEOREM LiveIsConsistent ==
  ASSUME MaxConnects = 1
  PROVE  Spec => []LiveConsistent
<1>1. Inv => LiveConsistent
  <2> SUFFICES ASSUME LiveInv, ~overlapped, NEW c \in Conns, pc[c] = "serve"
               PROVE  registry[id[c]] = c /\ store[id[c]] = sess[c] /\ obj[sess[c]].connected
    BY Zenon DEF Inv, LiveConsistent
  <2>1. Live(c)
    BY Zenon DEF LiveInv
  <2> QED
    BY <2>1 DEF Live
<1> QED
  BY <1>1, LifecycleInvariant, PTL

=============================================================================
