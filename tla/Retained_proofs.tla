-------------------------- MODULE Retained_proofs --------------------------
(***************************************************************************)
(* Theorems about Retained, for any topics, filters and number of          *)
(* publishes, crashes and failed commands: what is in memory is in Redis   *)
(* once the writes have settled, the counter accounts for the map, and a   *)
(* new subscriber misses no retained message.                              *)
(***************************************************************************)
EXTENDS Retained, FiniteSetTheorems, TLAPS

\* Messages a goroutine, a queue or a call still holds.
Queued == {m \in Messages : \E i \in DOMAIN apiCh : apiCh[i] = m}
Called == {m \in Messages : \E c \in calls : c.msg = m}
Pending == Queued \cup Called \cup inFlight \cup writers

\* The topics with a value.
Kept(map) == {t \in Topics : map[t] # 0}

TypeInv ==
  /\ retained \in [Topics -> Nat] /\ redis \in [Topics -> Nat]
  /\ memBy \in [Topics -> Int] /\ redisBy \in [Topics -> Nat]
  /\ sound \in [Topics -> BOOLEAN]
  /\ calls \subseteq [msg : Messages, log : BOOLEAN]
  /\ inFlight \subseteq Messages /\ writers \subseteq Messages /\ apiCh \in Seq(Messages)
  /\ pubs \in 0 .. MaxPubs

\* A publish has a number of its own, the numbers in memory and in Redis are not from the
\* future, and every message that is still held agrees with what it wrote.
OpsInv ==
  /\ \A m \in Pending : m.op \in 1 .. pubs
  /\ \A m, k \in Pending : m.op = k.op => m = k
  /\ \A t \in Topics : memBy[t] <= pubs /\ redisBy[t] <= pubs
  /\ \A t \in Topics : \A m \in Pending : memBy[t] = m.op => m.topic = t /\ retained[t] = m.val

\* A sound write in progress is the only one of its topic; when it is over, Redis has what
\* was published.
WriteInv(t) ==
  /\ sound[t] => \A m \in writers : m.topic = t => m.op = redisBy[t]
  /\ Settled(t) => /\ memBy[t] = redisBy[t] => retained[t] = redis[t]
                   /\ \A m \in Pending : m.op = redisBy[t] => redis[t] = m.val

DurableInv == TypeInv /\ OpsInv /\ \A t \in Topics : WriteInv(t)

\* The maps stay finite, so that they can be counted.
CountInv ==
  /\ retained \in [Topics -> Nat] /\ redis \in [Topics -> Nat]
  /\ IsFiniteSet(Kept(retained)) /\ IsFiniteSet(Kept(redis))
  /\ phantom \in Int /\ retainedCount \in Int
  /\ CountAccounts

\* A subscriber has the present message of a retained topic, or a SendRetained has still to
\* visit it, or the Publish that stored it has still to match.
ReachInv ==
  /\ subs \subseteq Filters /\ seen \in [Filters -> SUBSET Topics]
  /\ sends \subseteq [filter : Filters, todo : SUBSET Topics]
  /\ \A f \in subs : \A t \in Matches[f] :
       retained[t] # 0 =>
         \/ t \in seen[f]
         \/ \E s \in sends : s.filter = f /\ t \in s.todo
         \/ \E c \in calls : c.msg.topic = t /\ c.msg.val = retained[t]

-----------------------------------------------------------------------------
(* What the operations do to the messages held. *)

\* The payloads of the next publish: the empty one, or its own.
Payloads == {0, pubs + 1}

\* A new publish has a number no message has had.
LEMMA NewMessage ==
  ASSUME DurableInv, NewPublish, NEW t \in Topics, NEW v \in Payloads
  PROVE  /\ Message(pubs', t, v) \in Messages
         /\ Message(pubs', t, v).op = pubs + 1 /\ Message(pubs', t, v).topic = t
         /\ Message(pubs', t, v).val = v
         /\ pubs' = pubs + 1 /\ pubs' \in 0 .. MaxPubs
         /\ \A m \in Pending : m.op \in 1 .. pubs /\ m.op # pubs + 1
         /\ \A u \in Topics : memBy[u] # pubs + 1 /\ redisBy[u] # pubs + 1
         /\ \A u \in Topics : memBy[u] <= pubs + 1 /\ redisBy[u] <= pubs + 1
<1>1. pubs \in Nat /\ pubs < MaxPubs /\ pubs' = pubs + 1 /\ MaxPubs \in Nat
  BY ConstantsAssumption DEF DurableInv, TypeInv, NewPublish
<1>2. /\ Message(pubs', t, v) \in Messages
      /\ Message(pubs', t, v).op = pubs + 1 /\ Message(pubs', t, v).topic = t
      /\ Message(pubs', t, v).val = v
  BY <1>1 DEF Message, Messages, Payloads
<1>3. \A m \in Pending : m.op \in 1 .. pubs /\ m.op # pubs + 1
  BY <1>1 DEF DurableInv, OpsInv
<1>4. \A u \in Topics : /\ memBy[u] # pubs + 1 /\ redisBy[u] # pubs + 1
                        /\ memBy[u] <= pubs + 1 /\ redisBy[u] <= pubs + 1
  <2> SUFFICES ASSUME NEW u \in Topics
               PROVE  /\ memBy[u] # pubs + 1 /\ redisBy[u] # pubs + 1
                      /\ memBy[u] <= pubs + 1 /\ redisBy[u] <= pubs + 1
    OBVIOUS
  <2>1. memBy[u] \in Int /\ redisBy[u] \in Int /\ memBy[u] <= pubs /\ redisBy[u] <= pubs
    BY DEF DurableInv, TypeInv, OpsInv
  <2> QED
    BY <1>1, <2>1
<1>5. QED
  BY <1>1, <1>2, <1>3, <1>4

\* The messages held are messages.
LEMMA PendingMessages ==
  ASSUME TypeInv
  PROVE  /\ \A m \in Pending : m \in Messages /\ m.topic \in Topics /\ m.val \in Nat /\ m.op \in Nat
         /\ \A c \in calls : c.msg \in Messages /\ c.msg \in Pending
<1>1. \A m \in Pending : m \in Messages
  BY Zenon DEF Pending, Queued, Called, TypeInv
<1>2. \A m \in Messages : m.topic \in Topics /\ m.val \in Nat /\ m.op \in Nat
  BY ConstantsAssumption DEF Messages
<1>3. \A c \in calls : c.msg \in Messages
  BY DEF TypeInv
<1>4. \A c \in calls : c.msg \in Pending
  BY Zenon, <1>3 DEF Pending, Called
<1>5. QED
  BY Zenon, <1>1, <1>2, <1>3, <1>4

\* A message in apiCh is a message held; the queue gives its first, and takes one more.
LEMMA QueueSteps ==
  ASSUME TypeInv
  PROVE  /\ \A m \in Messages :
              /\ SubscribeAPIPublish(m) \in Seq(Messages)
              /\ apiCh' = SubscribeAPIPublish(m) => Queued' \subseteq Queued \cup {m}
         /\ apiCh # <<>> => /\ Head(apiCh) \in Messages /\ Head(apiCh) \in Pending
                            /\ Tail(apiCh) \in Seq(Messages)
                            /\ apiCh' = Tail(apiCh) => Queued' \subseteq Queued
<1>1. apiCh \in Seq(Messages)
  BY Zenon DEF TypeInv
<1>2. ASSUME NEW m \in Messages
      PROVE  /\ SubscribeAPIPublish(m) \in Seq(Messages)
             /\ apiCh' = SubscribeAPIPublish(m) => Queued' \subseteq Queued \cup {m}
  <2>1. ASSUME NEW S, NEW s \in Seq(S), NEW x \in S
        PROVE  /\ Append(s, x) \in Seq(S)
               /\ \A i \in DOMAIN Append(s, x) :
                    Append(s, x)[i] = x \/ \E j \in DOMAIN s : s[j] = Append(s, x)[i]
    OBVIOUS
  <2>2. /\ Append(apiCh, m) \in Seq(Messages)
        /\ \A i \in DOMAIN Append(apiCh, m) : Append(apiCh, m)[i] = m
             \/ \E j \in DOMAIN apiCh : apiCh[j] = Append(apiCh, m)[i]
    BY ZenonT(60), <1>1, <2>1
  <2>3. SubscribeAPIPublish(m) \in {apiCh, Append(apiCh, m)}
    BY Zenon DEF SubscribeAPIPublish
  <2> QED
    BY Zenon, <1>1, <2>2, <2>3 DEF Queued
<1>3. ASSUME apiCh # <<>>
      PROVE  /\ Head(apiCh) \in Messages /\ Head(apiCh) \in Pending
             /\ Tail(apiCh) \in Seq(Messages)
             /\ apiCh' = Tail(apiCh) => Queued' \subseteq Queued
  <2>1. ASSUME NEW S, NEW s \in Seq(S), s # <<>>
        PROVE  /\ Tail(s) \in Seq(S) /\ Head(s) \in S
               /\ \E j \in DOMAIN s : s[j] = Head(s)
               /\ \A i \in DOMAIN Tail(s) : \E j \in DOMAIN s : s[j] = Tail(s)[i]
    <3>1. /\ Len(s) \in Nat \ {0} /\ DOMAIN s = 1 .. Len(s)
          /\ Head(s) = s[1] /\ Head(s) \in S
          /\ Tail(s) \in Seq(S) /\ DOMAIN Tail(s) = 1 .. Len(s) - 1
          /\ \A i \in 1 .. Len(s) - 1 : Tail(s)[i] = s[i + 1]
      BY <2>1
    <3>2. \A i \in 1 .. Len(s) - 1 : i + 1 \in 1 .. Len(s)
      BY <3>1
    <3>3. 1 \in 1 .. Len(s)
      BY <3>1
    <3> QED
      BY Zenon, <3>1, <3>2, <3>3
  <2>2. /\ Tail(apiCh) \in Seq(Messages) /\ Head(apiCh) \in Messages
        /\ \E j \in DOMAIN apiCh : apiCh[j] = Head(apiCh)
        /\ \A i \in DOMAIN Tail(apiCh) : \E j \in DOMAIN apiCh : apiCh[j] = Tail(apiCh)[i]
    BY Zenon, <1>1, <1>3, <2>1
  <2> QED
    BY Zenon, <2>2 DEF Queued, Pending
<1>4. QED
  BY Zenon, <1>2, <1>3


-----------------------------------------------------------------------------
(* Memory and Redis. *)

\* Message m agrees with the messages held, and with what its publish wrote.
Fits(m) ==
  /\ m \in Messages
  /\ \A k \in Pending : k.op = m.op => k = m
  /\ \A t \in Topics : memBy[t] = m.op => m.topic = t /\ retained[t] = m.val
  /\ \A t \in Topics : Settled(t) /\ redisBy[t] = m.op => redis[t] = m.val

\* The numbers given so far are those of pubs'.
Numbered ==
  /\ \A k \in Pending : k.op \in 1 .. pubs'
  /\ \A t \in Topics : memBy[t] <= pubs' /\ redisBy[t] <= pubs'

\* A message that is held fits.
LEMMA HeldFits ==
  ASSUME DurableInv, NEW m \in Pending
  PROVE  Fits(m) /\ m.op \in 1 .. pubs
<1>1. m \in Messages
  BY Zenon, PendingMessages DEF DurableInv
<1>2. QED
  BY Zenon, <1>1 DEF Fits, DurableInv, OpsInv, WriteInv

\* A new one fits, whatever it is: nothing has its number.
LEMMA NewFits ==
  ASSUME DurableInv, NewPublish, NEW t \in Topics, NEW v \in Payloads,
         NEW m, m = Message(pubs', t, v)
  PROVE  Fits(m) /\ m.op \in 1 .. pubs' /\ m.topic = t /\ Numbered /\ pubs' \in 0 .. MaxPubs
<1>1. /\ m \in Messages /\ m.op = pubs + 1 /\ pubs' = pubs + 1 /\ pubs' \in 0 .. MaxPubs
      /\ m.topic = t
      /\ \A k \in Pending : k.op \in 1 .. pubs /\ k.op # pubs + 1
      /\ \A u \in Topics : memBy[u] # pubs + 1 /\ redisBy[u] # pubs + 1
      /\ \A u \in Topics : memBy[u] <= pubs + 1 /\ redisBy[u] <= pubs + 1
  BY Zenon, NewMessage
<1>2. Fits(m)
  BY Zenon, <1>1 DEF Fits
<1>3. pubs \in Nat /\ 1 .. pubs \subseteq 1 .. pubs' /\ pubs + 1 \in 1 .. pubs'
  BY <1>1 DEF DurableInv, TypeInv
<1>4. QED
  BY Zenon, <1>1, <1>2, <1>3 DEF Numbered

\* Nothing new: the numbers stay in range.
LEMMA SameNumbers ==
  ASSUME DurableInv, pubs' = pubs
  PROVE  Numbered /\ pubs' \in 0 .. MaxPubs
BY Zenon DEF DurableInv, OpsInv, TypeInv, Numbered

\* A message comes to a queue, or leaves one, and neither memory nor Redis change.
LEMMA HoldStep ==
  ASSUME DurableInv, Numbered, NEW m, Fits(m), m.op \in 1 .. pubs',
         Pending' \subseteq Pending \cup {m}, UNCHANGED <<retained, memBy, redisVars>>
  PROVE  OpsInv' /\ \A t \in Topics : WriteInv(t)'
<1> USE DEF redisVars
<1>1. OpsInv'
  BY Zenon DEF DurableInv, OpsInv, Numbered, Fits
<1>2. ASSUME NEW t \in Topics
      PROVE  WriteInv(t)'
  <2>1. Settled(t)' = Settled(t) /\ WriteInv(t)
    BY Zenon DEF Settled, Writing, DurableInv
  <2> QED
    BY Zenon, <2>1 DEF WriteInv, Fits
<1>3. QED
  BY Zenon, <1>1, <1>2

\* router.Publish stores message m in memory.
LEMMA StoreStep ==
  ASSUME DurableInv, Numbered, NEW m, NEW log, Fits(m), m.op \in 1 .. pubs',
         StoreRetained(m, log), Pending' \subseteq Pending \cup {m}, UNCHANGED redisVars
  PROVE  OpsInv' /\ \A t \in Topics : WriteInv(t)'
<1> USE DEF redisVars
<1>1. m.topic \in Topics
  BY DEF Fits, Messages
<1>2. /\ memBy'[m.topic] = m.op /\ retained'[m.topic] = m.val
      /\ \A t \in Topics : t # m.topic => memBy'[t] = memBy[t] /\ retained'[t] = retained[t]
  BY Zenon, <1>1 DEF StoreRetained, DurableInv, TypeInv
<1>3. m.op <= pubs'
  BY DEF DurableInv, TypeInv
<1>4. OpsInv'
  <2>1. \A k \in Pending' : k.op \in 1 .. pubs'
    BY Zenon DEF Numbered
  <2>2. \A k, l \in Pending' : k.op = l.op => k = l
    BY Zenon DEF Fits, DurableInv, OpsInv
  <2>3. \A t \in Topics : memBy'[t] <= pubs' /\ redisBy'[t] <= pubs'
    BY Zenon, <1>2, <1>3 DEF Numbered
  <2>4. ASSUME NEW t \in Topics, NEW k \in Pending', memBy'[t] = k.op
        PROVE  k.topic = t /\ retained'[t] = k.val
    <3>1. CASE t = m.topic
      <4>1. k.op = m.op
        BY Zenon, <1>2, <2>4, <3>1
      <4>2. k = m
        BY Zenon, <4>1 DEF Fits
      <4> QED
        BY Zenon, <1>2, <3>1, <4>2
    <3>2. CASE t # m.topic
      <4>1. memBy[t] = k.op /\ retained'[t] = retained[t]
        BY Zenon, <1>2, <2>4, <3>2
      <4> QED
        BY Zenon, <4>1 DEF Fits, DurableInv, OpsInv
    <3> QED
      BY Zenon, <3>1, <3>2
  <2> QED
    BY Zenon, <2>1, <2>2, <2>3, <2>4 DEF OpsInv
<1>5. ASSUME NEW t \in Topics
      PROVE  WriteInv(t)'
  <2>1. Settled(t)' = Settled(t) /\ WriteInv(t)
    BY Zenon DEF Settled, Writing, DurableInv
  <2>2. Settled(t) /\ memBy'[t] = redisBy[t] => retained'[t] = redis[t]
    <3>1. CASE t = m.topic
      BY Zenon, <1>2, <3>1 DEF Fits
    <3>2. CASE t # m.topic
      BY Zenon, <1>2, <2>1, <3>2 DEF WriteInv
    <3> QED
      BY Zenon, <3>1, <3>2
  <2>3. Settled(t) => \A k \in Pending' : k.op = redisBy[t] => redis[t] = k.val
    BY Zenon, <2>1 DEF Fits, WriteInv
  <2> QED
    BY Zenon, <2>1, <2>2, <2>3 DEF WriteInv
<1>6. QED
  BY Zenon, <1>4, <1>5

\* handlePublish starts the goroutine that will write message m to Redis.
LEMMA LogStep ==
  ASSUME DurableInv, Numbered, NEW m, Fits(m), m.op \in 1 .. pubs',
         LogPublish(m), Pending' \subseteq Pending \cup {m}, UNCHANGED <<retained, memBy>>
  PROVE  OpsInv' /\ \A t \in Topics : WriteInv(t)'
<1>1. m.topic \in Topics
  BY DEF Fits, Messages
<1>2. /\ redisBy'[m.topic] = m.op /\ sound'[m.topic] = ~Writing(m.topic)
      /\ \A t \in Topics : t # m.topic => redisBy'[t] = redisBy[t] /\ sound'[t] = sound[t]
      /\ redis' = redis /\ writers' = writers \cup {m}
  BY Zenon, <1>1 DEF LogPublish, DurableInv, TypeInv
<1>3. m.op <= pubs'
  BY DEF DurableInv, TypeInv
<1>4. OpsInv'
  <2>1. \A t \in Topics : memBy'[t] <= pubs' /\ redisBy'[t] <= pubs'
    BY Zenon, <1>2, <1>3 DEF Numbered
  <2> QED
    BY Zenon, <2>1 DEF DurableInv, OpsInv, Numbered, Fits
<1>5. ASSUME NEW t \in Topics
      PROVE  WriteInv(t)'
  <2>1. CASE t = m.topic
    <3>1. ~Settled(t)'
      BY Zenon, <1>2, <2>1 DEF Settled, Writing
    <3>2. sound'[t] => \A k \in writers' : k.topic = t => k.op = redisBy'[t]
      BY Zenon, <1>2, <2>1 DEF Writing
    <3> QED
      BY Zenon, <3>1, <3>2 DEF WriteInv
  <2>2. CASE t # m.topic
    <3>1. Settled(t)' => Settled(t)
      BY Zenon, <1>2, <2>2 DEF Settled, Writing
    <3>2. WriteInv(t)
      BY Zenon DEF DurableInv
    <3>3. sound'[t] => \A k \in writers' : k.topic = t => k.op = redisBy'[t]
      BY Zenon, <1>2, <2>2, <3>2 DEF WriteInv
    <3>4. Settled(t)' => \A k \in Pending' : k.op = redisBy'[t] => redis'[t] = k.val
      BY Zenon, <1>2, <2>2, <3>1, <3>2 DEF WriteInv, Fits
    <3> QED
      BY Zenon, <1>2, <2>2, <3>1, <3>2, <3>3, <3>4 DEF WriteInv
  <2> QED
    BY Zenon, <2>1, <2>2
<1>6. QED
  BY Zenon, <1>4, <1>5


\* SetRetained writes message m to Redis, or fails: a sound write was the only one of its
\* topic, and leaves Redis with the message of the publish that began it.
LEMMA WriterStep ==
  ASSUME DurableInv, NEW m \in writers, SetRetained(m) \/ SetRetainedFails(m)
  PROVE  OpsInv' /\ \A t \in Topics : WriteInv(t)'
<1> USE DEF mapVars, subVars, counters
<1>1. /\ writers' = writers \ {m} /\ UNCHANGED <<retained, memBy, calls, inFlight, apiCh, redisBy>>
      /\ pubs' = pubs
  BY Zenon DEF SetRetained, SetRetainedFails, Fault
<1>2. Pending' \subseteq Pending
  BY Zenon, <1>1 DEF Pending, Queued, Called
<1>3. m \in Pending /\ m.topic \in Topics
  BY Zenon, PendingMessages DEF Pending, DurableInv
<1>4. OpsInv'
  BY Zenon, <1>1, <1>2 DEF DurableInv, OpsInv
<1>5. ASSUME NEW t \in Topics
      PROVE  WriteInv(t)'
  <2>1. WriteInv(t)
    BY Zenon DEF DurableInv
  <2>2. CASE t # m.topic
    <3>1. sound'[t] = sound[t] /\ redis'[t] = redis[t]
      BY Zenon, <1>3, <2>2 DEF SetRetained, SetRetainedFails, DurableInv, TypeInv
    <3>2. Settled(t)' => Settled(t)
      BY Zenon, <1>1, <2>2, <3>1 DEF Settled, Writing
    <3> QED
      BY Zenon, <1>1, <1>2, <2>1, <3>1, <3>2 DEF WriteInv
  <2>3. CASE t = m.topic /\ SetRetainedFails(m)
    <3>1. ~sound'[t]
      BY Zenon, <1>3, <2>3 DEF SetRetainedFails, DurableInv, TypeInv
    <3> QED
      BY Zenon, <3>1 DEF WriteInv, Settled
  <2>4. CASE t = m.topic /\ SetRetained(m)
    <3>1. sound' = sound /\ redis'[t] = m.val
      BY Zenon, <1>3, <2>4 DEF SetRetained, DurableInv, TypeInv
    <3>2. sound[t] => m.op = redisBy[t]
      BY Zenon, <2>1, <2>4 DEF WriteInv
    <3>0. /\ \A k \in Pending : k.op = m.op => k = m
          /\ memBy[t] = m.op => retained[t] = m.val
      BY Zenon, <1>3, HeldFits DEF Fits
    <3>3. sound[t] => \A k \in Pending : k.op = redisBy[t] => k = m
      BY Zenon, <3>0, <3>2
    <3>4. sound[t] /\ memBy[t] = redisBy[t] => retained[t] = m.val
      BY Zenon, <3>0, <3>2
    <3>5. sound'[t] => \A k \in writers' : k.topic = t => k.op = redisBy'[t]
      BY Zenon, <1>1, <2>1, <3>1 DEF WriteInv
    <3>6. Settled(t)' => sound[t]
      BY Zenon, <3>1 DEF Settled
    <3> QED
      BY Zenon, <1>1, <1>2, <3>1, <3>3, <3>4, <3>5, <3>6 DEF WriteInv
  <2> QED
    BY Zenon, <2>2, <2>3, <2>4
<1>6. QED
  BY Zenon, <1>4, <1>5

\* A restart reads back what Redis has, or nothing; no message is held any more, and a
\* write that was cut off leaves its topic unsound.
LEMMA RestartStep ==
  ASSUME DurableInv, NEW loads \in BOOLEAN, Restart(loads)
  PROVE  OpsInv' /\ \A t \in Topics : WriteInv(t)'
<1>1. Pending' = {}
  <2>1. calls' = {} /\ inFlight' = {} /\ writers' = {} /\ apiCh' = <<>>
    BY Zenon DEF Restart
  <2>2. Queued' = {}
    BY <2>1 DEF Queued
  <2> QED
    BY Zenon, <2>1, <2>2 DEF Pending, Called
<1>2. /\ redis' = redis /\ redisBy' = redisBy /\ pubs' = pubs /\ writers' = {}
      /\ sound' = [t \in Topics |-> Settled(t)]
      /\ memBy' = [t \in Topics |-> IF loads THEN redisBy[t] ELSE -1]
      /\ loads => retained' = redis
  BY Zenon DEF Restart, loadRetained, Fault
<1>3. \A t \in Topics : memBy'[t] = redisBy[t] => loads
  <2>1. \A t \in Topics : redisBy[t] # -1
    BY DEF DurableInv, TypeInv
  <2> QED
    BY Zenon, <1>2, <2>1
<1>4. \A t \in Topics : memBy'[t] <= pubs' /\ redisBy'[t] <= pubs'
  <2> SUFFICES ASSUME NEW t \in Topics
               PROVE  memBy'[t] <= pubs' /\ redisBy'[t] <= pubs'
    OBVIOUS
  <2>1. redisBy[t] <= pubs /\ memBy'[t] \in {redisBy[t], -1}
    BY Zenon, <1>2 DEF DurableInv, OpsInv
  <2>2. -1 <= pubs
    BY DEF DurableInv, TypeInv
  <2> QED
    BY Zenon, <1>2, <2>1, <2>2
<1>5. OpsInv'
  BY Zenon, <1>1, <1>4 DEF OpsInv
<1>6. \A t \in Topics : WriteInv(t)'
  BY Zenon, <1>1, <1>2, <1>3 DEF WriteInv
<1>7. QED
  BY Zenon, <1>5, <1>6


\* Every step keeps the types.
LEMMA TypeStep ==
  ASSUME DurableInv, Next
  PROVE  TypeInv'
<1> USE DEF mapVars, subVars, redisVars, counters
<1>0. TypeInv
  BY Zenon DEF DurableInv
<1>a. ASSUME NEW m \in Messages, NEW log \in BOOLEAN, StoreRetained(m, log)
      PROVE  /\ retained' \in [Topics -> Nat] /\ memBy' \in [Topics -> Int]
             /\ calls' \subseteq [msg : Messages, log : BOOLEAN]
  <2>1. m.topic \in Topics /\ m.val \in Nat /\ m.op \in Int
    BY ConstantsAssumption DEF Messages
  <2>2. [msg |-> m, log |-> log] \in [msg : Messages, log : BOOLEAN]
    BY Zenon
  <2> QED
    BY Zenon, <1>0, <1>a, <2>1, <2>2 DEF TypeInv, StoreRetained
<1>b. ASSUME NEW m \in Messages, LogPublish(m)
      PROVE  /\ redis' \in [Topics -> Nat] /\ redisBy' \in [Topics -> Nat]
             /\ sound' \in [Topics -> BOOLEAN] /\ writers' \subseteq Messages
  <2>1. m.topic \in Topics /\ m.op \in Nat
    BY ConstantsAssumption DEF Messages
  <2>2. (~Writing(m.topic)) \in BOOLEAN
    BY Zenon
  <2> QED
    BY Zenon, <1>0, <1>b, <2>1, <2>2 DEF TypeInv, LogPublish
<1>1. ASSUME NEW t \in Topics, NEW v \in Payloads,
             PublishRetained(t, v) \/ PublishWill(t, v) \/ clusterLoop(t, v)
      PROVE  TypeInv'
  <2>1. NewPublish
    BY Zenon, <1>1 DEF PublishRetained, PublishWill, clusterLoop
  <2>2. Message(pubs', t, v) \in Messages /\ pubs' \in 0 .. MaxPubs
    BY Zenon, <2>1, NewMessage
  <2>3. \E log \in BOOLEAN : StoreRetained(Message(pubs', t, v), log)
    BY Zenon, <1>1 DEF PublishRetained, PublishWill, clusterLoop
  <2>4. UNCHANGED <<inFlight, apiCh, redisVars>>
    BY Zenon, <1>1 DEF PublishRetained, PublishWill, clusterLoop
  <2> QED
    BY Zenon, <1>0, <1>a, <2>2, <2>3, <2>4 DEF TypeInv
<1>2. ASSUME NEW t \in Topics, NEW v \in Payloads, PublishQoS2(t, v)
      PROVE  TypeInv'
  <2>1. Message(pubs', t, v) \in Messages /\ pubs' \in 0 .. MaxPubs
    BY Zenon, <1>2, NewMessage DEF PublishQoS2
  <2> QED
    BY Zenon, <1>0, <1>2, <1>b, <2>1 DEF TypeInv, PublishQoS2
<1>3. ASSUME NEW t \in Topics, NEW v \in Payloads,
             PublishAPI(t, v) \/ (v = 0 /\ handleRetainedDelete(t))
      PROVE  TypeInv'
  <2>1. NewPublish /\ apiCh' = SubscribeAPIPublish(Message(pubs', t, v))
    BY Zenon, <1>3 DEF PublishAPI, handleRetainedDelete
  <2>2. Message(pubs', t, v) \in Messages /\ pubs' \in 0 .. MaxPubs
    BY Zenon, <2>1, NewMessage
  <2>3. apiCh' \in Seq(Messages)
    BY Zenon, <1>0, <2>1, <2>2, QueueSteps
  <2> QED
    BY Zenon, <1>0, <1>3, <2>2, <2>3 DEF TypeInv, PublishAPI, handleRetainedDelete
<1>4. ASSUME NEW c \in calls, Route(c)
      PROVE  TypeInv'
  <2>1. c.msg \in Messages
    BY Zenon, <1>0, PendingMessages
  <2>2. /\ redis' \in [Topics -> Nat] /\ redisBy' \in [Topics -> Nat]
        /\ sound' \in [Topics -> BOOLEAN] /\ writers' \subseteq Messages
    BY Zenon, <1>0, <1>4, <1>b, <2>1 DEF TypeInv, Route
  <2> QED
    BY Zenon, <1>0, <1>4, <2>2 DEF TypeInv, Route
<1>5. ASSUME NEW m \in inFlight, handlePubrel(m)
      PROVE  TypeInv'
  <2>1. m \in Messages
    BY Zenon, <1>0 DEF TypeInv
  <2>2. StoreRetained(m, FALSE) /\ inFlight' \subseteq inFlight /\ UNCHANGED <<apiCh, redisVars, pubs>>
    BY Zenon, <1>5 DEF handlePubrel
  <2> QED
    BY Zenon, <1>0, <1>a, <2>1, <2>2 DEF TypeInv
<1>6. ASSUME apiPublishLoop
      PROVE  TypeInv'
  <2>1. Head(apiCh) \in Messages /\ apiCh' \in Seq(Messages)
    BY Zenon, <1>0, <1>6, QueueSteps DEF apiPublishLoop
  <2>2. StoreRetained(Head(apiCh), FALSE) /\ UNCHANGED <<inFlight, redisVars, pubs>>
    BY Zenon, <1>6 DEF apiPublishLoop
  <2> QED
    BY Zenon, <1>0, <1>a, <2>1, <2>2 DEF TypeInv
<1>7. ASSUME NEW f \in Filters, handleSubscribe(f) \/ handleUnsubscribe(f)
      PROVE  TypeInv'
  BY Zenon, <1>0, <1>7 DEF TypeInv, handleSubscribe, handleUnsubscribe, Change
<1>8. ASSUME NEW s \in sends, NEW t \in Topics, SendRetained(s, t)
      PROVE  TypeInv'
  BY Zenon, <1>0, <1>8 DEF TypeInv, SendRetained
<1>9. ASSUME NEW m \in writers, SetRetained(m) \/ SetRetainedFails(m)
      PROVE  TypeInv'
  <2>1. m.topic \in Topics /\ m.val \in Nat
    BY Zenon, <1>0, PendingMessages DEF Pending
  <2>2. redis' \in [Topics -> Nat] /\ sound' \in [Topics -> BOOLEAN] /\ writers' \subseteq writers
    BY Zenon, <1>0, <1>9, <2>1 DEF TypeInv, SetRetained, SetRetainedFails
  <2> QED
    BY Zenon, <1>0, <1>9, <2>2 DEF TypeInv, SetRetained, SetRetainedFails, Fault
<1>10. ASSUME NEW loads \in BOOLEAN, Restart(loads)
       PROVE  TypeInv'
  <2>1. retained' \in [Topics -> Nat] /\ memBy' \in [Topics -> Int]
    <3>1. \A t \in Topics : redisBy[t] \in Int /\ 0 \in Nat /\ -1 \in Int
      BY <1>0 DEF TypeInv
    <3> QED
      BY Zenon, <1>0, <1>10, <3>1 DEF TypeInv, Restart, loadRetained
  <2>2. <<>> \in Seq(Messages) /\ \A t \in Topics : Settled(t) \in BOOLEAN
    BY <1>0 DEF Settled, TypeInv
  <2> QED
    BY Zenon, <1>0, <1>10, <2>1, <2>2 DEF TypeInv, Restart, Fault
<1>11. ASSUME NEW t \in Topics, handleRetainedDelete(t)
       PROVE  TypeInv'
  BY Zenon, <1>3, <1>11 DEF Payloads
<1>12. QED
  BY Zenon, <1>1, <1>2, <1>3, <1>4, <1>5, <1>6, <1>7, <1>8, <1>9, <1>10, <1>11 DEF Next, Payloads

\* Every step keeps memory and Redis in agreement.
LEMMA DurableStep ==
  ASSUME DurableInv, [Next]_vars
  PROVE  DurableInv'
<1> USE DEF mapVars, subVars, redisVars, counters
<1> DEFINE Goal == OpsInv' /\ \A t \in Topics : WriteInv(t)'
<1>a. ASSUME NEW m \in Messages, NEW log, StoreRetained(m, log), Queued' \subseteq Queued,
             inFlight' \subseteq inFlight, writers' = writers
      PROVE  Pending' \subseteq Pending \cup {m}
  <2>1. Called' \subseteq Called \cup {m}
    <3> SUFFICES ASSUME NEW k \in Messages, NEW c \in calls', c.msg = k
                 PROVE  k \in Called \cup {m}
      BY Zenon DEF Called
    <3>1. c \in calls \/ c = [msg |-> m, log |-> log]
      BY Zenon, <1>a DEF StoreRetained
    <3> QED
      BY <3>1 DEF Called
  <2> QED
    BY Zenon, <1>a, <2>1 DEF Pending
<1>b. TypeInv
  BY Zenon DEF DurableInv
<1>1. ASSUME NEW t \in Topics, NEW v \in Payloads,
             PublishRetained(t, v) \/ PublishWill(t, v) \/ clusterLoop(t, v)
      PROVE  Goal
  <2>0. PICK m : m = Message(pubs', t, v)
    BY Zenon
  <2>1. NewPublish /\ UNCHANGED <<inFlight, apiCh, redisVars>>
        /\ \E log \in BOOLEAN : StoreRetained(m, log)
    BY Zenon, <1>1, <2>0 DEF PublishRetained, PublishWill, clusterLoop
  <2>2. Fits(m) /\ m.op \in 1 .. pubs' /\ Numbered
    BY Zenon, <2>0, <2>1, NewFits
  <2>3. Pending' \subseteq Pending \cup {m}
    BY Zenon, <1>a, <2>1, <2>2 DEF Queued, Fits
  <2> QED
    BY Zenon, <2>1, <2>2, <2>3, StoreStep
<1>2. ASSUME NEW t \in Topics, NEW v \in Payloads, PublishQoS2(t, v)
      PROVE  Goal
  <2>0. PICK m : m = Message(pubs', t, v)
    BY Zenon
  <2>1. Fits(m) /\ m.op \in 1 .. pubs' /\ Numbered
    BY Zenon, <1>2, <2>0, NewFits DEF PublishQoS2
  <2>2. /\ LogPublish(m) /\ UNCHANGED <<retained, memBy, calls, apiCh>>
        /\ inFlight' = inFlight \cup {m}
    BY Zenon, <1>2, <2>0 DEF PublishQoS2
  <2>3. Pending' \subseteq Pending \cup {m}
    BY Zenon, <2>2 DEF Pending, Queued, Called, LogPublish
  <2> QED
    BY Zenon, <2>1, <2>2, <2>3, LogStep
<1>3. ASSUME NEW t \in Topics, NEW v \in Payloads,
             PublishAPI(t, v) \/ (v = 0 /\ handleRetainedDelete(t))
      PROVE  Goal
  <2>0. PICK m : m = Message(pubs', t, v)
    BY Zenon
  <2>1. /\ NewPublish /\ apiCh' = SubscribeAPIPublish(m)
        /\ UNCHANGED <<retained, memBy, calls, inFlight, redisVars>>
    BY Zenon, <1>3, <2>0 DEF PublishAPI, handleRetainedDelete
  <2>2. Fits(m) /\ m.op \in 1 .. pubs' /\ Numbered
    BY Zenon, <2>0, <2>1, NewFits
  <2>3. Queued' \subseteq Queued \cup {m}
    BY Zenon, <1>b, <2>1, <2>2, QueueSteps DEF Fits
  <2>4. Pending' \subseteq Pending \cup {m}
    BY Zenon, <2>1, <2>3 DEF Pending, Called
  <2> QED
    BY Zenon, <2>1, <2>2, <2>4, HoldStep
<1>4. ASSUME NEW c \in calls, Route(c)
      PROVE  Goal
  <2>0. PICK m : m = c.msg
    BY Zenon
  <2>1. /\ calls' \subseteq calls /\ UNCHANGED <<retained, memBy, inFlight, apiCh, pubs>>
        /\ (LogPublish(m) \/ UNCHANGED redisVars)
    BY Zenon, <1>4, <2>0 DEF Route
  <2>2. m \in Pending /\ Fits(m) /\ m.op \in 1 .. pubs' /\ Numbered
    BY Zenon, <1>b, <2>0, <2>1, PendingMessages, HeldFits, SameNumbers
  <2>3. Pending' \subseteq Pending \cup {m}
    BY Zenon, <2>1 DEF Pending, Queued, Called, LogPublish
  <2>4. CASE LogPublish(m)
    BY Zenon, <2>1, <2>2, <2>3, <2>4, LogStep
  <2>5. CASE UNCHANGED redisVars
    BY Zenon, <2>1, <2>2, <2>3, <2>5, HoldStep
  <2> QED
    BY Zenon, <2>1, <2>4, <2>5
<1>5. ASSUME NEW m \in inFlight, handlePubrel(m)
      PROVE  Goal
  <2>1. /\ StoreRetained(m, FALSE) /\ inFlight' \subseteq inFlight
        /\ UNCHANGED <<apiCh, redisVars, pubs>>
    BY Zenon, <1>5 DEF handlePubrel
  <2>2. m \in Pending /\ Fits(m) /\ m.op \in 1 .. pubs' /\ Numbered
    BY Zenon, <2>1, HeldFits, SameNumbers DEF Pending
  <2>3. Pending' \subseteq Pending \cup {m}
    BY Zenon, <1>a, <2>1, <2>2 DEF Queued, Fits
  <2> QED
    BY Zenon, <2>1, <2>2, <2>3, StoreStep
<1>6. ASSUME apiPublishLoop
      PROVE  Goal
  <2>0. PICK m : m = Head(apiCh)
    BY Zenon
  <2>1. /\ StoreRetained(m, FALSE) /\ apiCh # <<>> /\ apiCh' = Tail(apiCh)
        /\ UNCHANGED <<inFlight, redisVars, pubs>>
    BY Zenon, <1>6, <2>0 DEF apiPublishLoop
  <2>2. m \in Pending /\ Queued' \subseteq Queued
    BY Zenon, <1>b, <2>0, <2>1, QueueSteps
  <2>3. Fits(m) /\ m.op \in 1 .. pubs' /\ Numbered
    BY Zenon, <2>1, <2>2, HeldFits, SameNumbers
  <2>4. Pending' \subseteq Pending \cup {m}
    BY Zenon, <1>a, <2>1, <2>2, <2>3 DEF Fits
  <2> QED
    BY Zenon, <2>1, <2>3, <2>4, StoreStep
<1>7. ASSUME UNCHANGED <<retained, memBy, calls, inFlight, apiCh, redisVars, pubs>>
      PROVE  Goal
  <2>1. Pending' = Pending
    BY Zenon, <1>7 DEF Pending, Queued, Called
  <2>2. OpsInv'
    BY Zenon, <1>7, <2>1 DEF DurableInv, OpsInv
  <2>3. ASSUME NEW t \in Topics
        PROVE  WriteInv(t)'
    <3>1. WriteInv(t) /\ (Settled(t)' <=> Settled(t))
      BY Zenon, <1>7 DEF DurableInv, Settled, Writing
    <3> QED
      BY Zenon, <1>7, <2>1, <3>1 DEF WriteInv
  <2> QED
    BY Zenon, <2>2, <2>3
<1>8. CASE Next
  <2>1. ASSUME NEW t \in Topics, handleRetainedDelete(t)
        PROVE  Goal
    BY Zenon, <1>3, <2>1 DEF Payloads
  <2>2. ASSUME NEW f \in Filters, handleSubscribe(f) \/ handleUnsubscribe(f)
        PROVE  Goal
    BY Zenon, <1>7, <2>2 DEF handleSubscribe, handleUnsubscribe, Change
  <2>3. ASSUME NEW s \in sends, NEW t \in Topics, SendRetained(s, t)
        PROVE  Goal
    BY Zenon, <1>7, <2>3 DEF SendRetained
  <2>4. ASSUME NEW m \in writers, SetRetained(m) \/ SetRetainedFails(m)
        PROVE  Goal
    BY Zenon, <2>4, WriterStep
  <2>5. ASSUME NEW loads \in BOOLEAN, Restart(loads)
        PROVE  Goal
    BY Zenon, <2>5, RestartStep
  <2>6. Goal
    <3> HIDE DEF Goal
    <3> QED
      BY Zenon, <1>1, <1>2, <1>3, <1>4, <1>5, <1>6, <1>8, <2>1, <2>2, <2>3, <2>4, <2>5
         DEF Next, Payloads
  <2> QED
    BY Zenon, <1>8, <2>6, TypeStep DEF DurableInv
<1>9. CASE UNCHANGED vars
  <2>1. UNCHANGED <<retained, memBy, calls, inFlight, apiCh, redisVars, pubs>>
    BY Zenon, <1>9 DEF vars
  <2>2. TypeInv'
    BY Zenon, <1>b, <2>1 DEF TypeInv
  <2> QED
    BY Zenon, <1>7, <2>1, <2>2 DEF DurableInv
<1>10. QED
  BY Zenon, <1>8, <1>9

\* The broker starts with nothing in memory and nothing in Redis.
LEMMA DurableInit == Init => DurableInv
<1> SUFFICES ASSUME Init PROVE DurableInv
  OBVIOUS
<1>1. TypeInv
  BY ConstantsAssumption DEF Init, TypeInv
<1>2. Pending = {}
  <2>1. Queued = {}
    BY DEF Init, Queued
  <2> QED
    BY Zenon, <2>1 DEF Init, Pending, Called
<1>3. OpsInv
  BY <1>2 DEF Init, OpsInv
<1>4. \A t \in Topics : WriteInv(t)
  BY Zenon, <1>2 DEF Init, WriteInv
<1>5. QED
  BY Zenon, <1>1, <1>3, <1>4 DEF DurableInv

\* A topic whose last write ran alone, and whose last publish in memory is the one that
\* began it, has the same message in memory and in Redis: a restart changes nothing there.
THEOREM SettledIsDurable == Spec => []RetainedDurable
<1>1. DurableInv => RetainedDurable
  BY Zenon DEF DurableInv, WriteInv, RetainedDurable
<1>2. QED
  BY <1>1, DurableInit, DurableStep, PTL DEF Spec


-----------------------------------------------------------------------------
(* The counter, and what subscribers are sent. *)

\* What a step can do to the map, the calls and the subscribers.
LEMMA StepKinds ==
  ASSUME DurableInv, Next
  PROVE  \/ \E m \in Messages, log \in BOOLEAN :
              StoreRetained(m, log) /\ UNCHANGED <<redis, subs, sends>>
         \/ \E c \in calls : Route(c) /\ redis' = redis
         \/ UNCHANGED <<mapVars, calls, subVars, redis>>
         \/ \E f \in Filters : handleSubscribe(f) \/ handleUnsubscribe(f)
         \/ \E s \in sends, t \in Topics : SendRetained(s, t)
         \/ \E m \in Messages : SetRetained(m)
         \/ \E loads \in BOOLEAN : Restart(loads)
<1> USE DEF redisVars, subVars
<1> DEFINE Stores == \E m \in Messages, log \in BOOLEAN :
                       StoreRetained(m, log) /\ UNCHANGED <<redis, subs, sends>>
           Quiet == UNCHANGED <<mapVars, calls, subVars, redis>>
<1>0. TypeInv
  BY Zenon DEF DurableInv
<1>1. ASSUME NEW t \in Topics, NEW v \in Payloads,
             PublishRetained(t, v) \/ PublishWill(t, v) \/ clusterLoop(t, v)
      PROVE  Stores
  <2>1. Message(pubs', t, v) \in Messages
    BY Zenon, <1>1, NewMessage DEF PublishRetained, PublishWill, clusterLoop
  <2> QED
    BY Zenon, <1>1, <2>1 DEF PublishRetained, PublishWill, clusterLoop
<1>2. ASSUME NEW m \in inFlight, handlePubrel(m)
      PROVE  Stores
  <2>1. m \in Messages
    BY Zenon, <1>0 DEF TypeInv
  <2> QED
    BY Zenon, <1>2, <2>1 DEF handlePubrel
<1>3. ASSUME apiPublishLoop
      PROVE  Stores
  <2>1. Head(apiCh) \in Messages
    BY Zenon, <1>0, <1>3, QueueSteps DEF apiPublishLoop
  <2> QED
    BY Zenon, <1>3, <2>1 DEF apiPublishLoop
<1>4. ASSUME NEW t \in Topics, NEW v \in Payloads,
             PublishQoS2(t, v) \/ PublishAPI(t, v) \/ handleRetainedDelete(t)
      PROVE  Quiet
  BY Zenon, <1>4 DEF PublishQoS2, PublishAPI, handleRetainedDelete, LogPublish
<1>5. ASSUME NEW m \in writers, SetRetainedFails(m)
      PROVE  Quiet
  BY Zenon, <1>5 DEF SetRetainedFails
<1>6. ASSUME NEW c \in calls, Route(c)
      PROVE  redis' = redis
  BY Zenon, <1>6 DEF Route, LogPublish
<1>7. \A m \in writers : m \in Messages
  BY Zenon, <1>0 DEF TypeInv
<1>8. 0 \in Payloads
  BY Zenon DEF Payloads
<1> HIDE DEF Stores, Quiet
<1>9. \/ Stores \/ Quiet \/ \E c \in calls : Route(c) /\ redis' = redis
      \/ \E f \in Filters : handleSubscribe(f) \/ handleUnsubscribe(f)
      \/ \E s \in sends, t \in Topics : SendRetained(s, t)
      \/ \E m \in Messages : SetRetained(m)
      \/ \E loads \in BOOLEAN : Restart(loads)
  <2>1. Payloads = {0, pubs + 1}
    BY Zenon DEF Payloads
  <2> QED
    BY Zenon, <1>1, <1>2, <1>3, <1>4, <1>5, <1>6, <1>7, <1>8, <2>1 DEF Next
<1>10. QED
  BY Zenon, <1>9 DEF Stores, Quiet

\* router.Publish on the number of topics that have a message.
LEMMA KeptSteps ==
  ASSUME NEW map \in [Topics -> Nat], IsFiniteSet(Kept(map)), NEW t \in Topics, NEW v \in Nat
  PROVE  LET new == [map EXCEPT ![t] = v]
         IN /\ IsFiniteSet(Kept(new)) /\ Cardinality(Kept(new)) \in Int
            /\ Cardinality(Kept(map)) \in Int
            /\ v # 0 /\ map[t] = 0 => Cardinality(Kept(new)) = Cardinality(Kept(map)) + 1
            /\ v = 0 /\ map[t] # 0 => Cardinality(Kept(new)) = Cardinality(Kept(map)) - 1
            /\ (v = 0 <=> map[t] = 0) => Cardinality(Kept(new)) = Cardinality(Kept(map))
<1> DEFINE new == [map EXCEPT ![t] = v]
<1>1. t \in Kept(map) <=> map[t] # 0
  BY Zenon DEF Kept
<1>2. \A u \in Topics : new[u] = IF u = t THEN v ELSE map[u]
  BY Zenon
<1> HIDE DEF new
<1>3. v = 0 => Kept(new) = Kept(map) \ {t}
  BY <1>2 DEF Kept
<1>4. v # 0 => Kept(new) = Kept(map) \cup {t}
  BY <1>2 DEF Kept
<1>5. /\ IsFiniteSet(Kept(map) \cup {t}) /\ IsFiniteSet(Kept(map) \ {t})
      /\ map[t] # 0 => Cardinality(Kept(map) \cup {t}) = Cardinality(Kept(map))
      /\ map[t] = 0 => Cardinality(Kept(map) \cup {t}) = Cardinality(Kept(map)) + 1
      /\ map[t] # 0 => Cardinality(Kept(map) \ {t}) = Cardinality(Kept(map)) - 1
      /\ map[t] = 0 => Cardinality(Kept(map) \ {t}) = Cardinality(Kept(map))
  BY Zenon, <1>1, FS_AddElement, FS_RemoveElement
<1>6. IsFiniteSet(Kept(new))
  BY Zenon, <1>3, <1>4, <1>5
<1>7. Cardinality(Kept(new)) \in Nat /\ Cardinality(Kept(map)) \in Nat
  BY Zenon, <1>6, FS_CardinalityType
<1>8. /\ v # 0 /\ map[t] = 0 => Cardinality(Kept(new)) = Cardinality(Kept(map)) + 1
      /\ v = 0 /\ map[t] # 0 => Cardinality(Kept(new)) = Cardinality(Kept(map)) - 1
      /\ (v = 0 <=> map[t] = 0) => Cardinality(Kept(new)) = Cardinality(Kept(map))
  BY Zenon, <1>3, <1>4, <1>5
<1>9. Cardinality(Kept(new)) \in Int /\ Cardinality(Kept(map)) \in Int
  BY <1>7
<1>10. QED
  BY Zenon, <1>6, <1>8, <1>9 DEF new


\* Every step keeps the counter in step with the map.
LEMMA CountStep ==
  ASSUME DurableInv, CountInv, [Next]_vars
  PROVE  CountInv'
<1> USE DEF mapVars
<1>0. \A m \in Messages : m.topic \in Topics /\ m.val \in Nat
  BY ConstantsAssumption DEF Messages
<1>1. ASSUME NEW m \in Messages, NEW log \in BOOLEAN, StoreRetained(m, log), redis' = redis
      PROVE  CountInv'
  <2>1. PICK t \in Topics, v \in Nat : t = m.topic /\ v = m.val
    BY Zenon, <1>0
  <2>2. PICK a, b : a = Cardinality(Kept(retained)) /\ b = Cardinality(Kept(retained'))
    BY Zenon
  <2>3. retained' = [retained EXCEPT ![t] = v]
    BY Zenon, <1>1, <2>1 DEF StoreRetained
  <2>4. /\ retained \in [Topics -> Nat] /\ IsFiniteSet(Kept(retained))
        /\ phantom \in Int /\ retainedCount \in Int /\ retainedCount = a - phantom
    BY Zenon, <2>2 DEF CountInv, CountAccounts, Kept
  <2>5. retained' \in [Topics -> Nat]
    BY Zenon, <2>3, <2>4
  <2>6. /\ IsFiniteSet(Kept(retained')) /\ a \in Int /\ b \in Int
        /\ v # 0 /\ retained[t] = 0 => b = a + 1
        /\ v = 0 /\ retained[t] # 0 => b = a - 1
        /\ (v = 0 <=> retained[t] = 0) => b = a
    BY Zenon, <2>2, <2>3, <2>4, KeptSteps
  <2>7. /\ v = 0 => retainedCount' = retainedCount - 1
        /\ v # 0 /\ retained[t] = 0 => retainedCount' = retainedCount + 1
        /\ v # 0 /\ retained[t] # 0 => retainedCount' = retainedCount
        /\ v = 0 /\ retained[t] = 0 => phantom' = phantom + 1
        /\ ~(v = 0 /\ retained[t] = 0) => phantom' = phantom
    BY <1>1, <2>1 DEF StoreRetained
  <2>8. phantom' \in Int /\ retainedCount' \in Int /\ retainedCount' = b - phantom'
    BY <2>4, <2>6, <2>7
  <2>9. CountAccounts'
    BY Zenon, <2>2, <2>8 DEF CountAccounts, Kept
  <2> QED
    BY Zenon, <1>1, <2>5, <2>6, <2>8, <2>9 DEF CountInv
<1>2. ASSUME UNCHANGED <<mapVars, redis>>
      PROVE  CountInv'
  BY Zenon, <1>2 DEF CountInv, CountAccounts
<1>3. ASSUME NEW m \in Messages, SetRetained(m)
      PROVE  CountInv'
  <2>1. PICK t \in Topics, v \in Nat : redis' = [redis EXCEPT ![t] = v]
    BY Zenon, <1>0, <1>3 DEF SetRetained
  <2>2. redis' \in [Topics -> Nat] /\ IsFiniteSet(Kept(redis'))
    BY Zenon, <2>1, KeptSteps DEF CountInv
  <2> QED
    BY Zenon, <1>3, <2>2 DEF SetRetained, CountInv, CountAccounts
<1>4. ASSUME NEW loads \in BOOLEAN, Restart(loads)
      PROVE  CountInv'
  <2>1. /\ retained' = IF loads THEN redis ELSE [t \in Topics |-> 0]
        /\ retainedCount' = Cardinality(Kept(retained')) /\ phantom' = 0 /\ redis' = redis
    BY Zenon, <1>4 DEF Restart, loadRetained, Kept
  <2>2. retained' \in [Topics -> Nat] /\ IsFiniteSet(Kept(retained'))
    <3>1. CASE loads
      BY Zenon, <2>1, <3>1 DEF CountInv
    <3>2. CASE ~loads
      <4>1. retained' = [t \in Topics |-> 0]
        BY Zenon, <2>1, <3>2
      <4>2. Kept(retained') = {}
        BY Zenon, <4>1 DEF Kept
      <4>3. retained' \in [Topics -> Nat]
        BY <4>1
      <4> QED
        BY Zenon, <4>2, <4>3, FS_EmptySet
    <3> QED
      BY Zenon, <3>1, <3>2
  <2>3. Cardinality(Kept(retained')) \in Nat
    BY Zenon, <2>2, FS_CardinalityType
  <2>4. phantom' \in Int /\ retainedCount' \in Int
        /\ retainedCount' = Cardinality(Kept(retained')) - phantom'
    BY <2>1, <2>3
  <2>5. CountAccounts'
    BY Zenon, <2>4 DEF CountAccounts, Kept
  <2> QED
    BY Zenon, <2>1, <2>2, <2>4, <2>5 DEF CountInv
<1>5. CASE Next
  <2>1. ASSUME NEW c \in calls, Route(c), redis' = redis
        PROVE  CountInv'
    BY Zenon, <1>2, <2>1 DEF Route
  <2>2. ASSUME NEW f \in Filters, handleSubscribe(f) \/ handleUnsubscribe(f)
        PROVE  CountInv'
    BY Zenon, <1>2, <2>2 DEF handleSubscribe, handleUnsubscribe, redisVars
  <2>3. ASSUME NEW s \in sends, NEW t \in Topics, SendRetained(s, t)
        PROVE  CountInv'
    BY Zenon, <1>2, <2>3 DEF SendRetained, redisVars
  <2> QED
    BY Zenon, <1>1, <1>2, <1>3, <1>4, <1>5, <2>1, <2>2, <2>3, StepKinds
<1>6. CASE UNCHANGED vars
  BY Zenon, <1>2, <1>6 DEF vars, redisVars
<1>7. QED
  BY Zenon, <1>5, <1>6

\* retainedCount is the number of retained topics, less the empty messages published to
\* topics that had none: router.Publish never counts a topic twice, and a restart counts
\* what it has read.
THEOREM CounterAccounts == Spec => []CountAccounts
<1>1. Init => CountInv
  <2> SUFFICES ASSUME Init PROVE CountInv
    OBVIOUS
  <2>1. Kept(retained) = {} /\ Kept(redis) = {}
    BY Zenon DEF Init, Kept
  <2>2. IsFiniteSet({}) /\ Cardinality({}) = 0
    BY Zenon, FS_EmptySet
  <2>3. CountAccounts
    <3>1. retainedCount = Cardinality(Kept(retained)) - phantom
      <4>1. Cardinality(Kept(retained)) = 0 /\ retainedCount = 0 /\ phantom = 0
        BY Zenon, <2>1, <2>2 DEF Init
      <4> QED
        BY <4>1
    <3> QED
      BY Zenon, <3>1 DEF CountAccounts, Kept
  <2>4. retained \in [Topics -> Nat] /\ redis \in [Topics -> Nat]
        /\ phantom \in Int /\ retainedCount \in Int
    BY DEF Init
  <2> QED
    BY Zenon, <2>1, <2>2, <2>3, <2>4 DEF CountInv
<1>2. CountInv => CountAccounts
  BY Zenon DEF CountInv
<1>3. QED
  BY <1>1, <1>2, DurableInit, DurableStep, CountStep, PTL DEF Spec


\* What brings the present message of topic t to the subscriber of f.
Reaches(f, t) ==
  \/ t \in seen[f]
  \/ \E s \in sends : s.filter = f /\ t \in s.todo
  \/ \E c \in calls : c.msg.topic = t /\ c.msg.val = retained[t]

\* Every step leaves each retained message on its way to every subscriber, or sent.
LEMMA ReachStep ==
  ASSUME DurableInv, ReachInv, [Next]_vars
  PROVE  ReachInv'
<1> USE DEF mapVars, subVars
<1>0. /\ subs \subseteq Filters /\ seen \in [Filters -> SUBSET Topics]
      /\ sends \subseteq [filter : Filters, todo : SUBSET Topics]
      /\ \A f \in subs : \A t \in Matches[f] : retained[t] # 0 => Reaches(f, t)
      /\ \A f \in Filters : Matches[f] \subseteq Topics
      /\ retained \in [Topics -> Nat]
  BY Zenon, ConstantsAssumption DEF ReachInv, Reaches, DurableInv, TypeInv
<1>a. ASSUME subs' \subseteq Filters, seen' \in [Filters -> SUBSET Topics],
             sends' \subseteq [filter : Filters, todo : SUBSET Topics],
             \A f \in subs' : \A t \in Matches[f] : retained'[t] # 0 => Reaches(f, t)'
      PROVE  ReachInv'
  BY Zenon, <1>a DEF ReachInv, Reaches
<1>1. ASSUME NEW m \in Messages, NEW log \in BOOLEAN, StoreRetained(m, log),
             UNCHANGED <<subs, sends>>
      PROVE  ReachInv'
  <2>1. /\ seen' = [f \in Filters |-> seen[f] \ {m.topic}]
        /\ retained' = [retained EXCEPT ![m.topic] = m.val]
        /\ calls' = calls \cup {[msg |-> m, log |-> log]}
    BY Zenon, <1>1 DEF StoreRetained
  <2>2. seen' \in [Filters -> SUBSET Topics]
    BY <1>0, <2>1
  <2>3. ASSUME NEW f \in subs', NEW t \in Matches[f], retained'[t] # 0
        PROVE  Reaches(f, t)'
    <3>1. f \in subs /\ f \in Filters /\ t \in Topics
      BY Zenon, <1>0, <1>1
    <3>2. CASE t = m.topic
      <4>1. retained'[t] = m.val
        BY Zenon, <1>0, <2>1, <3>1, <3>2
      <4>2. \E c \in calls' : c.msg = m
        <5>1. [msg |-> m, log |-> log].msg = m
          OBVIOUS
        <5> QED
          BY Zenon, <2>1, <5>1
      <4> QED
        BY Zenon, <3>2, <4>1, <4>2 DEF Reaches
    <3>3. CASE t # m.topic
      <4>1. retained'[t] = retained[t]
        BY Zenon, <1>0, <2>1, <3>1, <3>3
      <4>2. t \in seen[f] => t \in seen'[f]
        BY Zenon, <2>1, <3>1, <3>3
      <4>3. Reaches(f, t)
        BY Zenon, <1>0, <2>3, <3>1, <4>1
      <4> QED
        BY Zenon, <1>1, <2>1, <4>1, <4>2, <4>3 DEF Reaches
    <3> QED
      BY Zenon, <3>2, <3>3
  <2> QED
    BY Zenon, <1>0, <1>1, <1>a, <2>2, <2>3
<1>2. ASSUME NEW k \in calls, Route(k)
      PROVE  ReachInv'
  <2>1. /\ calls' = calls \ {k} /\ UNCHANGED <<retained, subs, sends>>
        /\ seen' = [f \in Filters |->
             IF k.msg.val = retained[k.msg.topic] /\ f \in subs /\ k.msg.topic \in Matches[f]
             THEN seen[f] \cup {k.msg.topic} ELSE seen[f]]
    BY Zenon, <1>2 DEF Route
  <2>2. seen' \in [Filters -> SUBSET Topics]
    <3>1. \A f \in Filters : seen[f] \in SUBSET Topics /\ (k.msg.topic \in Matches[f] =>
            seen[f] \cup {k.msg.topic} \in SUBSET Topics)
      BY Zenon, <1>0
    <3> QED
      BY Zenon, <2>1, <3>1
  <2>3. ASSUME NEW f \in subs', NEW t \in Matches[f], retained'[t] # 0
        PROVE  Reaches(f, t)'
    <3>1. f \in subs /\ f \in Filters /\ Reaches(f, t)
      BY Zenon, <1>0, <2>1, <2>3
    <3>2. CASE t \in seen[f]
      <4>1. t \in seen'[f]
        BY Zenon, <2>1, <3>1, <3>2
      <4> QED
        BY Zenon, <4>1 DEF Reaches
    <3>3. CASE k.msg.topic = t /\ k.msg.val = retained[t]
      <4>1. t \in seen'[f]
        BY Zenon, <2>1, <3>1, <3>3
      <4> QED
        BY Zenon, <4>1 DEF Reaches
    <3>4. CASE t \notin seen[f] /\ ~(k.msg.topic = t /\ k.msg.val = retained[t])
      BY Zenon, <2>1, <3>1, <3>4 DEF Reaches
    <3> QED
      BY Zenon, <3>2, <3>3, <3>4
  <2> QED
    BY Zenon, <1>0, <1>a, <2>1, <2>2, <2>3
<1>3. ASSUME NEW g \in Filters, handleSubscribe(g)
      PROVE  ReachInv'
  <2>1. PICK todo \in SUBSET Topics :
          /\ {t \in Topics : retained[t] # 0} \subseteq todo
          /\ sends' = sends \cup (IF todo = {} THEN {} ELSE {[filter |-> g, todo |-> todo]})
    BY Zenon, <1>3 DEF handleSubscribe, StartSend
  <2>2. /\ subs' = subs \cup {g} /\ seen' = [seen EXCEPT ![g] = {}]
        /\ UNCHANGED <<retained, calls>>
    BY Zenon, <1>3 DEF handleSubscribe
  <2>3. sends' \subseteq [filter : Filters, todo : SUBSET Topics] /\ sends \subseteq sends'
    BY <1>0, <2>1
  <2>4. seen' \in [Filters -> SUBSET Topics] /\ subs' \subseteq Filters
    BY Zenon, <1>0, <2>2
  <2>5. ASSUME NEW f \in subs', NEW t \in Matches[f], retained'[t] # 0
        PROVE  Reaches(f, t)'
    <3>1. f \in Filters /\ t \in Topics /\ retained[t] # 0
      BY Zenon, <1>0, <2>2, <2>4, <2>5
    <3>2. CASE f = g
      <4>1. t \in todo /\ [filter |-> g, todo |-> todo] \in sends'
        BY Zenon, <2>1, <3>1
      <4>2. \E s \in sends' : s.filter = f /\ t \in s.todo
        BY <3>2, <4>1
      <4> QED
        BY Zenon, <4>2 DEF Reaches
    <3>3. CASE f # g
      <4>1. f \in subs /\ seen'[f] = seen[f]
        BY Zenon, <1>0, <2>2, <3>1, <3>3
      <4>2. Reaches(f, t)
        BY Zenon, <1>0, <3>1, <4>1
      <4> QED
        BY Zenon, <2>2, <2>3, <4>1, <4>2 DEF Reaches
    <3> QED
      BY Zenon, <3>2, <3>3
  <2> QED
    BY Zenon, <1>a, <2>3, <2>4, <2>5

<1>4. ASSUME NEW g \in Filters, handleUnsubscribe(g)
      PROVE  ReachInv'
  <2>1. /\ subs' = subs \ {g} /\ seen' = [seen EXCEPT ![g] = {}]
        /\ UNCHANGED <<retained, calls, sends>>
    BY Zenon, <1>4 DEF handleUnsubscribe
  <2>2. seen' \in [Filters -> SUBSET Topics] /\ subs' \subseteq Filters
    BY Zenon, <1>0, <2>1
  <2>3. ASSUME NEW f \in subs', NEW t \in Matches[f], retained'[t] # 0
        PROVE  Reaches(f, t)'
    <3>1. f \in subs /\ seen'[f] = seen[f] /\ Reaches(f, t)
      BY Zenon, <1>0, <2>1, <2>3
    <3> QED
      BY Zenon, <2>1, <3>1 DEF Reaches
  <2> QED
    BY Zenon, <1>0, <1>a, <2>1, <2>2, <2>3
<1>5. ASSUME NEW r \in sends, NEW u \in Topics, SendRetained(r, u)
      PROVE  ReachInv'
  <2>0. r.filter \in Filters /\ r.todo \in SUBSET Topics
        /\ [r EXCEPT !.todo = @ \ {u}] \in [filter : Filters, todo : SUBSET Topics]
        /\ [r EXCEPT !.todo = @ \ {u}].filter = r.filter
        /\ [r EXCEPT !.todo = @ \ {u}].todo = r.todo \ {u}
    BY <1>0
  <2>1. /\ UNCHANGED <<retained, calls, subs>>
        /\ sends' = (sends \ {r}) \cup
                    (IF r.todo = {u} THEN {} ELSE {[r EXCEPT !.todo = @ \ {u}]})
        /\ seen' = IF retained[u] # 0 /\ u \in Matches[r.filter] /\ r.filter \in subs
                   THEN [seen EXCEPT ![r.filter] = @ \cup {u}] ELSE seen
    BY Zenon, <1>5 DEF SendRetained
  <2>2. sends' \subseteq [filter : Filters, todo : SUBSET Topics]
    BY Zenon, <1>0, <2>0, <2>1
  <2>3. /\ seen' \in [Filters -> SUBSET Topics]
        /\ \A f \in Filters : seen[f] \subseteq seen'[f]
        /\ retained[u] # 0 /\ u \in Matches[r.filter] /\ r.filter \in subs => u \in seen'[r.filter]
    <3>1. CASE seen' = [seen EXCEPT ![r.filter] = @ \cup {u}]
      <4>1. seen[r.filter] \cup {u} \in SUBSET Topics
        BY Zenon, <1>0, <2>0
      <4> QED
        BY Zenon, <1>0, <2>0, <3>1, <4>1
    <3>2. CASE seen' = seen /\ ~(retained[u] # 0 /\ u \in Matches[r.filter] /\ r.filter \in subs)
      BY Zenon, <1>0, <3>2
    <3> QED
      BY Zenon, <2>1, <3>1, <3>2
  <2>4. \A f \in Filters, t \in Topics : \A s \in sends :
          s.filter = f /\ t \in s.todo /\ ~(f = r.filter /\ t = u)
            => \E q \in sends' : q.filter = f /\ t \in q.todo
    <3> SUFFICES ASSUME NEW f \in Filters, NEW t \in Topics, NEW s \in sends,
                        s.filter = f, t \in s.todo, ~(f = r.filter /\ t = u)
                 PROVE  \E q \in sends' : q.filter = f /\ t \in q.todo
      BY Zenon
    <3>1. CASE s # r
      BY Zenon, <2>1, <3>1
    <3>2. CASE s = r
      <4>1. t \in r.todo /\ t # u /\ r.todo # {u} /\ r.filter = f
        BY Zenon, <3>2
      <4>2. [r EXCEPT !.todo = @ \ {u}] \in sends'
        BY Zenon, <2>1, <4>1
      <4>3. t \in r.todo \ {u}
        BY Zenon, <4>1
      <4> QED
        BY <2>0, <4>1, <4>2, <4>3
    <3> QED
      BY Zenon, <3>1, <3>2
  <2>5. ASSUME NEW f \in subs', NEW t \in Matches[f], retained'[t] # 0
        PROVE  Reaches(f, t)'
    <3>1. f \in subs /\ f \in Filters /\ t \in Topics /\ retained[t] # 0 /\ Reaches(f, t)
      BY Zenon, <1>0, <2>1, <2>5
    <3>2. CASE f = r.filter /\ t = u
      <4>1. t \in seen'[f]
        BY Zenon, <2>3, <3>1, <3>2
      <4> QED
        BY Zenon, <4>1 DEF Reaches
    <3>3. CASE ~(f = r.filter /\ t = u)
      BY Zenon, <2>1, <2>3, <2>4, <3>1, <3>3 DEF Reaches
    <3> QED
      BY Zenon, <3>2, <3>3
  <2> QED
    BY Zenon, <1>0, <1>a, <2>1, <2>2, <2>3, <2>5
<1>6. ASSUME UNCHANGED <<retained, calls, subVars>>
      PROVE  ReachInv'
  BY ZenonT(60), <1>6 DEF ReachInv
<1>7. ASSUME NEW loads \in BOOLEAN, Restart(loads)
      PROVE  ReachInv'
  <2>1. subs' = {} /\ sends' = {} /\ seen' = [f \in Filters |-> {}]
    BY Zenon, <1>7 DEF Restart
  <2>2. seen' \in [Filters -> SUBSET Topics]
    BY <2>1
  <2> QED
    BY Zenon, <1>a, <2>1, <2>2
<1>8. CASE Next
  <2>1. ASSUME NEW m \in Messages, SetRetained(m)
        PROVE  ReachInv'
    BY Zenon, <1>6, <2>1 DEF SetRetained
  <2> QED
    BY Zenon, <1>1, <1>2, <1>3, <1>4, <1>5, <1>6, <1>7, <1>8, <2>1, StepKinds
<1>9. CASE UNCHANGED vars
  BY Zenon, <1>6, <1>9 DEF vars
<1>10. QED
  BY Zenon, <1>8, <1>9

\* A subscriber whose SendRetained has ended has been sent the present message of every
\* retained topic its filter matches: Publish stores before it matches, and handleSubscribe
\* registers before it sends, so that one of the two meets the other.
THEOREM NothingRetainedIsMissed == Spec => []NoMissedRetained
<1>1. Init => ReachInv
  BY DEF Init, ReachInv
<1>2. ReachInv => NoMissedRetained
  BY ZenonT(60) DEF ReachInv, NoMissedRetained
<1>3. QED
  BY <1>1, <1>2, DurableInit, DurableStep, ReachStep, PTL DEF Spec

=============================================================================
