---------------------------- MODULE Gate_proofs ----------------------------
(***************************************************************************)
(* The token bucket is exact, for every rate, burst and number of clients: *)
(* what a bucket holds is the burst, or the credit a client has left since *)
(* one of its packets, and never more than the credit since any of them.   *)
(* The gate uses the limiter as Limiter describes it, so the rate is exact *)
(* for the packets of all connections; and connSem is exact, for any       *)
(* number of connections and slots.                                        *)
(***************************************************************************)
EXTENDS Gate, FiniteSetTheorems, TLAPS

(* The limiter. *)

\* No bucket has more than the credit of the client since any of its packets, so what
\* Allow lets through stays within the rate.
NeverOver ==
  \A c \in Clients : \A i \in DOMAIN accepted[c] : Refilled(c) <= Credit(c, i)

\* A bucket has the burst or all of the credit since some packet, so nothing is withheld.
NeverUnder ==
  \A c \in Clients : Refilled(c) = Burst \/ \E i \in DOMAIN accepted[c] : Refilled(c) = Credit(c, i)

LimiterInv == LimiterTypeOK /\ WithinRate /\ NeverOver /\ NeverUnder

----------------------------------------------------------------------------
\* What the rate adds in one more tick.
LEMMA OneMoreTick ==
  ASSUME NEW k \in Nat, NEW m \in Nat, NEW n \in Nat
  PROVE  k * (m + 1 - n) = k * (m - n) + k
OBVIOUS

\* What one more packet costs.
LEMMA OneMorePacket ==
  ASSUME NEW k \in Nat, NEW m \in Nat, NEW n \in Nat
  PROVE  k * (m - n + 2) = k * (m - n + 1) + k
OBVIOUS

\* What the rate adds in two stretches of time.
LEMMA TwoStretches ==
  ASSUME NEW k \in Nat, NEW m \in Nat, NEW n \in Nat
  PROVE  k * m = k * n + k * (m - n)
OBVIOUS

\* The refill is a number of tokens up to the burst.
LEMMA RefilledType ==
  ASSUME LimiterTypeOK, NEW c \in Clients
  PROVE  Refilled(c) \in 0 .. Burst
<1>1. now \in Nat /\ tokens[c] \in 0 .. Burst /\ last[c] \in 0 .. now
  BY DEF LimiterTypeOK
<1>2. now - last[c] \in Nat
  BY <1>1
<1>3. Rate * (now - last[c]) \in Nat
  BY <1>2, LimiterAssumption
<1> QED
  BY <1>1, <1>3, LimiterAssumption DEF Refilled, AtMostBurst

\* Packets were let through at times up to now.
LEMMA PacketTime ==
  ASSUME LimiterTypeOK, NEW c \in Clients, NEW i \in DOMAIN accepted[c]
  PROVE  /\ now \in Nat /\ Len(accepted[c]) \in Nat
         /\ accepted[c][i] \in 0 .. now /\ i \in 1 .. Len(accepted[c])
<1>1. accepted[c] \in Seq(Nat) /\ now \in Nat /\ accepted[c][i] <= now
  BY DEF LimiterTypeOK
<1> QED
  BY <1>1

\* The credit since a packet is a number.
LEMMA CreditType ==
  ASSUME LimiterTypeOK, NEW c \in Clients, NEW i \in DOMAIN accepted[c]
  PROVE  /\ Rate * (now - accepted[c][i]) \in Nat
         /\ Cost * (Len(accepted[c]) - i + 1) \in Nat
         /\ Credit(c, i) \in Int
<1>1. now - accepted[c][i] \in Nat /\ Len(accepted[c]) - i + 1 \in Nat
  BY PacketTime
<1>2. Rate * (now - accepted[c][i]) \in Nat /\ Cost * (Len(accepted[c]) - i + 1) \in Nat
  BY <1>1, LimiterAssumption
<1> QED
  BY <1>2, LimiterAssumption DEF Credit

\* Every step keeps the types.
LEMMA LimiterTypeStep ==
  ASSUME LimiterTypeOK, [LimiterNext]_limiterVars
  PROVE  LimiterTypeOK'
<1>1. ASSUME NEW c \in Clients, Allow(c) PROVE LimiterTypeOK'
  <2>1. Refilled(c) - Cost \in 0 .. Burst
    BY <1>1, RefilledType, LimiterAssumption DEF Allow
  <2>2. accepted' \in [Clients -> Seq(Nat)]
    BY <1>1 DEF Allow, LimiterTypeOK
  <2>3. ASSUME NEW d \in Clients, NEW i \in DOMAIN accepted'[d] PROVE accepted'[d][i] <= now
    BY <1>1, <2>3 DEF Allow, LimiterTypeOK
  <2>4. /\ present' \subseteq Clients /\ tokens' \in [Clients -> 0 .. Burst]
        /\ last' \in [Clients -> 0 .. now] /\ now' = now /\ now \in Nat
    BY <1>1, <2>1 DEF Allow, LimiterTypeOK
  <2> QED
    BY <2>2, <2>3, <2>4 DEF LimiterTypeOK
<1>2. ASSUME NEW c \in Clients, Deny(c) PROVE LimiterTypeOK'
  BY <1>2, RefilledType DEF Deny, LimiterTypeOK
<1>3. ASSUME Cleanup PROVE LimiterTypeOK'
  BY <1>3 DEF Cleanup, LimiterTypeOK
<1>4. ASSUME Tick PROVE LimiterTypeOK'
  <2>1. now' \in Nat /\ last \in [Clients -> 0 .. now'] /\ now' = now + 1
    BY <1>4 DEF Tick, LimiterTypeOK
  <2>2. ASSUME NEW c \in Clients, NEW i \in DOMAIN accepted[c] PROVE accepted[c][i] <= now'
    BY <2>1, PacketTime
  <2>3. UNCHANGED <<present, tokens, last, accepted>>
    BY <1>4 DEF Tick
  <2> QED
    BY <2>1, <2>2, <2>3 DEF LimiterTypeOK
<1>5. CASE UNCHANGED limiterVars
  BY <1>5 DEF limiterVars, LimiterTypeOK
<1> QED
  BY <1>1, <1>2, <1>3, <1>4, <1>5 DEF LimiterNext

----------------------------------------------------------------------------
\* What a tick does to buckets and credits.
LEMMA TickStep ==
  ASSUME LimiterTypeOK, Tick, NEW c \in Clients
  PROVE  /\ Refilled(c)' = AtMostBurst(Refilled(c) + Rate)
         /\ \A i \in DOMAIN accepted[c] : Credit(c, i)' = Credit(c, i) + Rate
<1>1. now \in Nat /\ now' = now + 1 /\ tokens[c] \in 0 .. Burst /\ last[c] \in 0 .. now
  BY DEF Tick, LimiterTypeOK
<1>2. Rate * (now + 1 - last[c]) = Rate * (now - last[c]) + Rate /\ Rate * (now - last[c]) \in Nat
  <2>1. Rate \in Nat /\ last[c] \in Nat /\ now - last[c] \in Nat
    BY <1>1, LimiterAssumption
  <2>2. Rate * (now - last[c]) \in Nat
    BY <2>1
  <2> QED
    BY Zenon, <1>1, <2>1, <2>2, OneMoreTick
<1>3. Refilled(c)' = AtMostBurst(Refilled(c) + Rate)
  <2> DEFINE gain == Rate * (now - last[c])
  <2>1. gain \in Nat /\ tokens[c] \in Nat
    BY <1>1, <1>2
  <2>2. Refilled(c) = IF c \in present THEN AtMostBurst(tokens[c] + gain) ELSE Burst
    BY DEF Refilled
  <2>3. Refilled(c)' = IF c \in present THEN AtMostBurst(tokens[c] + (gain + Rate)) ELSE Burst
    BY <1>1, <1>2 DEF Refilled, Tick, AtMostBurst
  <2> HIDE DEF gain
  <2> QED
    BY <2>1, <2>2, <2>3, LimiterAssumption DEF AtMostBurst
<1>4. ASSUME NEW i \in DOMAIN accepted[c] PROVE Credit(c, i)' = Credit(c, i) + Rate
  <2>1. accepted[c][i] \in Nat /\ Rate * (now - accepted[c][i]) \in Nat
        /\ Cost * (Len(accepted[c]) - i + 1) \in Nat
    BY PacketTime, CreditType
  <2>2. Rate * (now + 1 - accepted[c][i]) = Rate * (now - accepted[c][i]) + Rate
    <3>1. Rate \in Nat
      BY LimiterAssumption
    <3> QED
      BY Zenon, <1>1, <2>1, <3>1, OneMoreTick
  <2> DEFINE gain == Rate * (now - accepted[c][i])
             paid == Cost * (Len(accepted[c]) - i + 1)
  <2>3. Credit(c, i) = Burst + gain - paid
    BY DEF Credit
  <2>4. Credit(c, i)' = Burst + Rate * (now + 1 - accepted[c][i]) - paid
    <3>1. now' = now + 1 /\ accepted' = accepted
      BY <1>1 DEF Tick
    <3>2. Rate * (now' - accepted'[c][i]) = Rate * (now + 1 - accepted[c][i])
      <4>1. accepted'[c][i] = accepted[c][i] /\ accepted[c][i] \in Nat /\ now \in Nat
        BY <3>1, PacketTime
      <4>2. now' - accepted'[c][i] = now + 1 - accepted[c][i]
        BY <3>1, <4>1
      <4> QED
        BY <4>2
    <3>3. Cost * (Len(accepted'[c]) - i + 1) = paid
      BY <3>1
    <3>4. Credit(c, i)' = Burst + Rate * (now' - accepted'[c][i]) - Cost * (Len(accepted'[c]) - i + 1)
      BY DEF Credit
    <3> HIDE DEF paid
    <3> QED
      BY <3>2, <3>3, <3>4
  <2>5. gain \in Nat /\ paid \in Nat /\ Rate * (now + 1 - accepted[c][i]) = gain + Rate
    BY <2>1, <2>2
  <2> HIDE DEF gain, paid
  <2> QED
    BY <2>3, <2>4, <2>5, LimiterAssumption
<1> QED
  BY <1>3, <1>4

\* A bucket that Cleanup drops was full.
LEMMA CleanupStep ==
  ASSUME LimiterTypeOK, Cleanup, NEW c \in Clients
  PROVE  Refilled(c)' = Refilled(c)
<1>1. CASE c \in present /\ c \notin present'
  <2>1. now \in Nat /\ tokens[c] \in 0 .. Burst /\ last[c] \in 0 .. now /\ last[c] < now - MaxAge
    BY <1>1, LimiterAssumption DEF Cleanup, LimiterTypeOK
  <2>2. now - last[c] - MaxAge \in Nat /\ now - last[c] \in Nat
    BY <2>1, LimiterAssumption
  <2>3. Rate * (now - last[c]) = Rate * MaxAge + Rate * (now - last[c] - MaxAge)
    <3>1. Rate \in Nat /\ MaxAge \in Nat
      BY LimiterAssumption
    <3> QED
      BY Zenon, <2>2, <3>1, TwoStretches
  <2>4. Rate * (now - last[c] - MaxAge) \in Nat /\ Rate * MaxAge \in Nat
    BY <2>2, LimiterAssumption
  <2>5. Rate * (now - last[c]) >= Burst /\ Rate * (now - last[c]) \in Nat
    BY <2>3, <2>4, LimiterAssumption
  <2> DEFINE gain == Rate * (now - last[c])
  <2>6. Refilled(c) = AtMostBurst(tokens[c] + gain)
    BY <1>1 DEF Refilled
  <2>7. Refilled(c)' = Burst
    BY <1>1 DEF Refilled
  <2>8. gain \in Nat /\ gain >= Burst
    BY <2>5
  <2> HIDE DEF gain
  <2> QED
    BY <2>1, <2>6, <2>7, <2>8, LimiterAssumption DEF AtMostBurst
<1>2. CASE ~(c \in present /\ c \notin present')
  <2>1. c \in present' <=> c \in present
    BY <1>2 DEF Cleanup
  <2> QED
    BY <2>1 DEF Cleanup, Refilled
<1> QED
  BY <1>1, <1>2

\* Allow and Deny fill the bucket of the client and set its time: what is left is what
\* they stored.
LEMMA Stored ==
  ASSUME LimiterTypeOK, NEW c \in Clients, NEW n \in 0 .. Burst,
         now' = now, c \in present', tokens' = [tokens EXCEPT ![c] = n],
         last' = [last EXCEPT ![c] = now]
  PROVE  Refilled(c)' = n
<1>1. tokens'[c] = n /\ last'[c] = now /\ now \in Nat
  BY DEF LimiterTypeOK
<1>2. now' - last'[c] = 0
  BY <1>1
<1>3. Rate * (now' - last'[c]) = 0
  BY <1>2, LimiterAssumption
<1>4. Refilled(c)' = AtMostBurst(tokens'[c] + Rate * (now' - last'[c]))
  BY DEF Refilled, AtMostBurst
<1> QED
  BY <1>1, <1>3, <1>4, LimiterAssumption DEF AtMostBurst

\* Buckets and credits of other clients are not touched by Allow and Deny.
LEMMA Others ==
  ASSUME NEW c \in Clients, Allow(c) \/ Deny(c), LimiterTypeOK,
         NEW d \in Clients, d # c
  PROVE  /\ Refilled(d)' = Refilled(d) /\ accepted'[d] = accepted[d]
         /\ \A i \in DOMAIN accepted[d] : Credit(d, i)' = Credit(d, i)
<1>1. /\ now' = now /\ tokens'[d] = tokens[d] /\ last'[d] = last[d] /\ accepted'[d] = accepted[d]
      /\ d \in present' <=> d \in present
  BY DEF Allow, Deny, LimiterTypeOK
<1>2. Refilled(d)' = Refilled(d)
  BY <1>1 DEF Refilled, AtMostBurst
<1>3. ASSUME NEW i \in DOMAIN accepted[d] PROVE Credit(d, i)' = Credit(d, i)
  BY <1>1 DEF Credit
<1> QED
  BY <1>1, <1>2, <1>3

\* What Allow does to the bucket and the credits of its client.
LEMMA AllowStep ==
  ASSUME LimiterTypeOK, NEW c \in Clients, Allow(c)
  PROVE  LET n == Len(accepted[c])
         IN  /\ Refilled(c)' = Refilled(c) - Cost
             /\ DOMAIN accepted'[c] = 1 .. n + 1
             /\ \A i \in 1 .. n : accepted'[c][i] = accepted[c][i] /\ Credit(c, i)' = Credit(c, i) - Cost
             /\ \A i \in {n + 1} : accepted'[c][i] = now /\ Credit(c, i)' = Burst - Cost
<1> DEFINE n == Len(accepted[c])
<1>1. Refilled(c) \in 0 .. Burst /\ Refilled(c) - Cost \in 0 .. Burst
  BY RefilledType, LimiterAssumption DEF Allow
<1>2. Refilled(c)' = Refilled(c) - Cost
  BY Zenon, <1>1, Stored DEF Allow
<1>3. /\ accepted[c] \in Seq(Nat) /\ n \in Nat /\ now \in Nat /\ now' = now
      /\ accepted'[c] = Append(accepted[c], now)
  BY DEF Allow, LimiterTypeOK
<1>4. /\ DOMAIN accepted'[c] = 1 .. n + 1 /\ Len(accepted'[c]) = n + 1
      /\ accepted'[c][n + 1] = now /\ \A i \in 1 .. n : accepted'[c][i] = accepted[c][i]
  BY <1>3
<1>5. ASSUME NEW i \in 1 .. n PROVE Credit(c, i)' = Credit(c, i) - Cost
  <2> DEFINE gain == Rate * (now - accepted[c][i])
             paid == Cost * (n - i + 1)
  <2>1. i \in DOMAIN accepted[c]
    BY <1>3
  <2>2. gain \in Nat /\ paid \in Nat
    BY <2>1, CreditType
  <2>3. Credit(c, i) = Burst + gain - paid
    BY DEF Credit
  <2>4. Cost * (Len(accepted'[c]) - i + 1) = paid + Cost
    <3>1. Len(accepted'[c]) - i + 1 = n - i + 2
      BY <1>3, <1>4
    <3>2. Cost * (n - i + 2) = Cost * (n - i + 1) + Cost
      <4>1. Cost \in Nat /\ i \in Nat
        BY LimiterAssumption
      <4> QED
        BY Zenon, <1>3, <4>1, OneMorePacket
    <3> QED
      BY <3>1, <3>2
  <2>5. Rate * (now' - accepted'[c][i]) = gain
    BY <1>3, <1>4
  <2>6. Credit(c, i)' = Burst + Rate * (now' - accepted'[c][i]) - Cost * (Len(accepted'[c]) - i + 1)
    BY DEF Credit
  <2> HIDE DEF gain, paid
  <2> QED
    BY <2>2, <2>3, <2>4, <2>5, <2>6, LimiterAssumption
<1>6. ASSUME NEW i \in {n + 1} PROVE Credit(c, i)' = Burst - Cost
  <2> DEFINE gain == Rate * (now' - accepted'[c][i])
             paid == Cost * (Len(accepted'[c]) - i + 1)
  <2>1. now' - accepted'[c][i] = 0 /\ Len(accepted'[c]) - i + 1 = 1
    BY <1>3, <1>4
  <2>2. gain = 0 /\ paid = Cost
    BY <2>1, LimiterAssumption
  <2>3. Credit(c, i)' = Burst + gain - paid
    BY DEF Credit
  <2> HIDE DEF gain, paid
  <2> QED
    BY <2>2, <2>3, LimiterAssumption
<1> QED
  BY <1>2, <1>4, <1>5, <1>6

\* What Deny does: nothing that counts.
LEMMA DenyStep ==
  ASSUME LimiterTypeOK, NEW c \in Clients, Deny(c)
  PROVE  /\ Refilled(c)' = Refilled(c) /\ accepted' = accepted
         /\ \A i \in DOMAIN accepted[c] : Credit(c, i)' = Credit(c, i)
<1>1. Refilled(c)' = Refilled(c)
  BY Zenon, RefilledType, Stored DEF Deny
<1>2. now' = now /\ accepted' = accepted
  BY DEF Deny
<1> QED
  BY <1>1, <1>2 DEF Credit

----------------------------------------------------------------------------
\* Allow keeps the invariant.  The new packet is paid for since every earlier one, as the
\* bucket had Cost and no more than the credit.
LEMMA AllowKeeps ==
  ASSUME LimiterInv, NEW c \in Clients, Allow(c)
  PROVE  WithinRate' /\ NeverOver' /\ NeverUnder'
<1> DEFINE n == Len(accepted[c])
<1> USE DEF LimiterInv
<1>1. /\ Refilled(c)' = Refilled(c) - Cost /\ DOMAIN accepted'[c] = 1 .. n + 1
      /\ \A i \in 1 .. n : accepted'[c][i] = accepted[c][i] /\ Credit(c, i)' = Credit(c, i) - Cost
      /\ \A i \in {n + 1} : accepted'[c][i] = now /\ Credit(c, i)' = Burst - Cost
  BY AllowStep
<1>2. n \in Nat /\ DOMAIN accepted[c] = 1 .. n /\ now \in Nat
  BY DEF LimiterTypeOK
<1>3. Refilled(c) \in 0 .. Burst /\ Refilled(c) >= Cost
  BY RefilledType DEF Allow
<1>4. \A i \in 1 .. n : Refilled(c) <= Credit(c, i) /\ Credit(c, i) \in Int
  BY <1>2, CreditType DEF NeverOver
<1> HIDE DEF n
<1>5. ASSUME NEW i \in 1 .. n + 1 PROVE Refilled(c)' <= Credit(c, i)'
  <2>1. CASE i \in 1 .. n
    BY <1>1, <1>3, <1>4, <2>1, LimiterAssumption
  <2>2. CASE i = n + 1
    BY <1>1, <1>3, <2>2, LimiterAssumption
  <2> QED
    BY <1>2, <2>1, <2>2
<1>6. NeverOver'
  <2>1. ASSUME NEW d \in Clients, NEW i \in DOMAIN accepted'[d] PROVE Refilled(d)' <= Credit(d, i)'
    <3>1. CASE d = c
      BY Zenon, <1>1, <1>5, <2>1, <3>1
    <3>2. CASE d # c
      BY <2>1, <3>2, Others DEF NeverOver
    <3> QED
      BY <3>1, <3>2
  <2> QED
    BY <2>1 DEF NeverOver
<1>7. Refilled(c)' = Burst \/ \E i \in 1 .. n + 1 : Refilled(c)' = Credit(c, i)'
  <2>1. CASE Refilled(c) = Burst
    <3>1. \A i \in {n + 1} : i \in 1 .. n + 1 /\ Refilled(c)' = Credit(c, i)'
      BY <1>1, <1>2, <2>1
    <3> QED
      BY <3>1
  <2>2. CASE Refilled(c) # Burst
    <3>1. PICK i \in 1 .. n : Refilled(c) = Credit(c, i)
      BY <1>2, <2>2 DEF NeverUnder
    <3>2. Refilled(c)' = Credit(c, i)' /\ i \in 1 .. n + 1
      BY <1>1, <1>2, <3>1
    <3> QED
      BY <3>2
  <2> QED
    BY <2>1, <2>2
<1>8. NeverUnder'
  <2>1. ASSUME NEW d \in Clients
        PROVE  Refilled(d)' = Burst \/ \E i \in DOMAIN accepted'[d] : Refilled(d)' = Credit(d, i)'
    <3>1. CASE d = c
      BY Zenon, <1>1, <1>7, <3>1
    <3>2. CASE d # c
      BY <3>2, Others DEF NeverUnder
    <3> QED
      BY <3>1, <3>2
  <2> QED
    BY <2>1 DEF NeverUnder
<1>9. WithinRate'
  <2>1. ASSUME NEW i \in 1 .. n + 1, NEW j \in 1 .. n + 1, i <= j
        PROVE  Cost * (j - i + 1) <= Burst + Rate * (accepted'[c][j] - accepted'[c][i])
    <3>1. CASE j \in 1 .. n
      <4>1. i \in 1 .. n
        BY <1>2, <2>1, <3>1
      <4>2. Cost * (j - i + 1) <= Burst + Rate * (accepted[c][j] - accepted[c][i])
        BY Zenon, <1>2, <2>1, <3>1, <4>1 DEF WithinRate
      <4>3. accepted'[c][i] = accepted[c][i] /\ accepted'[c][j] = accepted[c][j]
        BY <1>1, <3>1, <4>1
      <4> QED
        BY <4>2, <4>3
    <3>2. CASE j = n + 1 /\ i \in 1 .. n
      <4> DEFINE gain == Rate * (now - accepted[c][i])
                 paid == Cost * (n - i + 1)
      <4>1. gain \in Nat /\ paid \in Nat
        BY Zenon, <1>2, <3>2, CreditType DEF n
      <4>2. Credit(c, i) = Burst + gain - paid
        BY DEF Credit, n
      <4>3. Credit(c, i) >= Cost
        BY <1>3, <1>4, <3>2, LimiterAssumption
      <4>4. Cost * (j - i + 1) = paid + Cost
        <5>1. j - i + 1 = n - i + 2
          BY <1>2, <3>2
        <5>2. Cost * (n - i + 2) = Cost * (n - i + 1) + Cost
          <6>1. Cost \in Nat /\ i \in Nat
            BY <3>2, LimiterAssumption
          <6> QED
            BY Zenon, <1>2, <6>1, OneMorePacket
        <5> QED
          BY <5>1, <5>2
      <4>5. Rate * (accepted'[c][j] - accepted'[c][i]) = gain
        BY <1>1, <3>2
      <4> HIDE DEF gain, paid
      <4> QED
        BY <4>1, <4>2, <4>3, <4>4, <4>5, LimiterAssumption
    <3>3. CASE i = n + 1
      <4>1. accepted'[c][j] - accepted'[c][i] = 0 /\ j - i + 1 = 1
        BY <1>1, <1>2, <2>1, <3>3
      <4>2. Cost * (j - i + 1) = Cost /\ Rate * (accepted'[c][j] - accepted'[c][i]) = 0
        BY <4>1, LimiterAssumption
      <4> QED
        BY <4>2, LimiterAssumption
    <3> QED
      BY <1>2, <3>1, <3>2, <3>3
  <2>2. ASSUME NEW d \in Clients, NEW i \in DOMAIN accepted'[d], NEW j \in DOMAIN accepted'[d], i <= j
        PROVE  Cost * (j - i + 1) <= Burst + Rate * (accepted'[d][j] - accepted'[d][i])
    <3>1. CASE d = c
      BY Zenon, <1>1, <2>1, <2>2, <3>1
    <3>2. CASE d # c
      BY <2>2, <3>2, Others DEF WithinRate
    <3> QED
      BY <3>1, <3>2
  <2> QED
    BY <2>2 DEF WithinRate
<1> QED
  BY <1>6, <1>8, <1>9

\* A step that leaves what was let through, and in which bucket and credits of a client
\* change alike, keeps the invariant.
LEMMA OthersKeep ==
  ASSUME LimiterInv, accepted' = accepted,
         \A c \in Clients : \/ /\ Refilled(c)' = Refilled(c)
                               /\ \A i \in DOMAIN accepted[c] : Credit(c, i)' = Credit(c, i)
                            \/ /\ Refilled(c)' = AtMostBurst(Refilled(c) + Rate)
                               /\ \A i \in DOMAIN accepted[c] : Credit(c, i)' = Credit(c, i) + Rate
  PROVE  WithinRate' /\ NeverOver' /\ NeverUnder'
<1> USE DEF LimiterInv
<1>1. WithinRate'
  BY DEF WithinRate
<1>2. ASSUME NEW c \in Clients
      PROVE  /\ \A i \in DOMAIN accepted[c] : Refilled(c)' <= Credit(c, i)'
             /\ Refilled(c)' = Burst \/ \E i \in DOMAIN accepted[c] : Refilled(c)' = Credit(c, i)'
  <2>1. Refilled(c) \in 0 .. Burst /\ \A i \in DOMAIN accepted[c] : Credit(c, i) \in Int
    BY RefilledType, CreditType
  <2>2. /\ \A i \in DOMAIN accepted[c] : Refilled(c) <= Credit(c, i)
        /\ Refilled(c) = Burst \/ \E i \in DOMAIN accepted[c] : Refilled(c) = Credit(c, i)
    BY DEF NeverOver, NeverUnder
  <2>3. CASE /\ Refilled(c)' = Refilled(c)
             /\ \A i \in DOMAIN accepted[c] : Credit(c, i)' = Credit(c, i)
    BY <2>2, <2>3
  <2>4. CASE /\ Refilled(c)' = AtMostBurst(Refilled(c) + Rate)
             /\ \A i \in DOMAIN accepted[c] : Credit(c, i)' = Credit(c, i) + Rate
    <3>1. Refilled(c)' <= Refilled(c) + Rate /\ Refilled(c)' \in Nat
      BY <2>1, <2>4, LimiterAssumption DEF AtMostBurst
    <3>2. ASSUME NEW i \in DOMAIN accepted[c] PROVE Refilled(c)' <= Credit(c, i)'
      BY <2>1, <2>2, <2>4, <3>1, <3>2, LimiterAssumption
    <3>3. Refilled(c)' = Burst \/ Refilled(c)' = Refilled(c) + Rate
      BY <2>4 DEF AtMostBurst
    <3>4. CASE Refilled(c) = Burst
      <4>1. Refilled(c)' = Burst
        BY <2>4, <3>4, LimiterAssumption DEF AtMostBurst
      <4> QED
        BY <3>2, <4>1
    <3>5. CASE Refilled(c) # Burst
      <4>1. PICK i \in DOMAIN accepted[c] : Refilled(c) = Credit(c, i)
        BY <2>2, <3>5
      <4>2. Refilled(c)' = Burst \/ Refilled(c)' = Credit(c, i)'
        BY <2>4, <3>3, <4>1
      <4> QED
        BY <3>2, <4>2
    <3> QED
      BY <3>2, <3>4, <3>5
  <2> QED
    BY <2>3, <2>4
<1> QED
  BY <1>1, <1>2 DEF NeverOver, NeverUnder

\* Every step of the limiter keeps the invariant.
LEMMA LimiterStepInv ==
  ASSUME LimiterInv, [LimiterNext]_limiterVars
  PROVE  LimiterInv'
<1> USE DEF LimiterInv
<1>1. LimiterTypeOK'
  BY LimiterTypeStep
<1>2. ASSUME NEW c \in Clients, Allow(c) PROVE WithinRate' /\ NeverOver' /\ NeverUnder'
  BY <1>2, AllowKeeps
<1>3. ASSUME NEW c \in Clients, Deny(c) PROVE WithinRate' /\ NeverOver' /\ NeverUnder'
  <2>1. ASSUME NEW d \in Clients
        PROVE  /\ Refilled(d)' = Refilled(d)
               /\ \A i \in DOMAIN accepted[d] : Credit(d, i)' = Credit(d, i)
    BY <1>3, DenyStep, Others
  <2> QED
    BY <1>3, <2>1, DenyStep, OthersKeep
<1>4. ASSUME Cleanup PROVE WithinRate' /\ NeverOver' /\ NeverUnder'
  <2>1. now' = now /\ accepted' = accepted
    BY <1>4 DEF Cleanup
  <2>2. ASSUME NEW c \in Clients
        PROVE  /\ Refilled(c)' = Refilled(c)
               /\ \A i \in DOMAIN accepted[c] : Credit(c, i)' = Credit(c, i)
    BY <1>4, <2>1, CleanupStep DEF Credit
  <2> QED
    BY <2>1, <2>2, OthersKeep
<1>5. ASSUME Tick PROVE WithinRate' /\ NeverOver' /\ NeverUnder'
  <2>1. accepted' = accepted
    BY <1>5 DEF Tick
  <2> QED
    BY <1>5, <2>1, TickStep, OthersKeep
<1>6. CASE UNCHANGED limiterVars
  <2>1. UNCHANGED <<now, present, tokens, last, accepted>>
    BY <1>6 DEF limiterVars
  <2>2. ASSUME NEW c \in Clients
        PROVE  /\ Refilled(c)' = Refilled(c)
               /\ \A i \in DOMAIN accepted[c] : Credit(c, i)' = Credit(c, i)
    BY <2>1 DEF Refilled, Credit, AtMostBurst
  <2> QED
    BY <1>1, <2>1, <2>2, OthersKeep
<1> QED
  BY <1>1, <1>2, <1>3, <1>4, <1>5, <1>6 DEF LimiterNext

\* A new limiter satisfies the invariant.
LEMMA LimiterInitInv ==
  ASSUME LimiterInit
  PROVE  LimiterInv
<1>1. now = 0 /\ present = {} /\ \A c \in Clients : accepted[c] = <<>>
  BY DEF LimiterInit
<1>2. LimiterTypeOK
  BY LimiterAssumption DEF LimiterInit, LimiterTypeOK
<1>3. WithinRate /\ NeverOver
  BY <1>1 DEF WithinRate, NeverOver
<1>4. NeverUnder
  BY Zenon, <1>1 DEF NeverUnder, Refilled
<1> QED
  BY <1>2, <1>3, <1>4 DEF LimiterInv

\* A bucket below Cost is below the burst, so it is all of some credit.
LEMMA RefusedOver ==
  ASSUME LimiterInv
  PROVE  RefusedOnlyOver
BY RefilledType, LimiterAssumption DEF LimiterInv, NeverUnder, RefusedOnlyOver

\* The limiter lets no client exceed its rate and refuses no client within it, for any
\* rate, burst and number of clients, whenever Cleanup runs.
THEOREM RateExact == LimiterSpec => [](WithinRate /\ RefusedOnlyOver)
<1>1. LimiterInit => LimiterInv
  BY LimiterInitInv
<1>2. LimiterInv /\ [LimiterNext]_limiterVars => LimiterInv'
  BY LimiterStepInv
<1>3. LimiterInv => WithinRate /\ RefusedOnlyOver
  BY RefusedOver DEF LimiterInv
<1> QED
  BY <1>1, <1>2, <1>3, PTL DEF LimiterSpec

----------------------------------------------------------------------------
(* The gate. *)

\* Types of what the limiter and the slots depend on.
IdInv == cid \in [Conns -> Clients \cup {NoId}] /\ st \in [Conns -> States]

\* The invariant of the slots; that connSem is never over capacity follows from its guard.
SlotInv == IdInv /\ SlotsExact /\ slots \in 0 .. MaxConnections

----------------------------------------------------------------------------
\* A packet changes the limiter by Allow or Deny of the client's own bucket, or not at all.
LEMMA PassIsStep ==
  ASSUME IdInv, NEW c \in Conns, LimitPass(c)
  PROVE  [LimiterNext]_limiterVars
<1>1. CASE cid[c] = NoId
  BY <1>1 DEF LimitPass
<1>2. CASE cid[c] # NoId
  BY <1>2 DEF LimitPass, IdInv, LimiterNext
<1> QED
  BY <1>1, <1>2

\* Every step of the gate is a step of the limiter or leaves it alone.
LEMMA GateStep ==
  ASSUME IdInv, [Next]_vars
  PROVE  [LimiterNext]_limiterVars
<1>1. ASSUME NEW c \in Conns,
             \/ acceptLoop(c) \/ acceptLoopFull(c) \/ cleanup(c) \/ ReleaseSlot(c)
             \/ PeerDies(c) \/ ReadFails(c) \/ ReadTimeout(c) \/ ExpectedConnect(c)
      PROVE  UNCHANGED limiterVars
  BY <1>1 DEF acceptLoop, acceptLoopFull, cleanup, ReleaseSlot, PeerDies, ReadFails,
              ReadTimeout, ExpectedConnect
<1>2. ASSUME NEW c \in Conns, RateLimited(c) PROVE LimiterNext
  BY <1>2 DEF RateLimited, IdInv, LimiterNext
<1>3. ASSUME NEW c \in Conns, ConnectRefused(c) PROVE [LimiterNext]_limiterVars
  BY <1>3, PassIsStep DEF ConnectRefused
<1>4. ASSUME NEW c \in Conns, NEW ok \in BOOLEAN, HandleOther(c, ok) PROVE [LimiterNext]_limiterVars
  BY <1>4, PassIsStep DEF HandleOther
<1>5. ASSUME NEW c \in Conns, NEW i \in 0 .. MaxTokens, handleConnectPlugin(c, i)
      PROVE  [LimiterNext]_limiterVars
  BY <1>5, PassIsStep DEF handleConnectPlugin
<1>6. ASSUME NEW c \in Conns, NEW i \in 0 .. MaxTokens, NEW id \in Clients, NEW is5 \in BOOLEAN,
             NEW ka \in BOOLEAN, NEW max \in Aliases, handleConnect(c, id, i, is5, max, ka)
      PROVE  [LimiterNext]_limiterVars
  BY <1>6, PassIsStep DEF handleConnect
<1>7. ASSUME NEW c \in Conns, NEW t \in Topics \cup {NoTopic}, NEW a \in Aliases,
             handlePublish(c, t, a) \/ handlePublishFails(c, t, a)
      PROVE  [LimiterNext]_limiterVars
  BY <1>7, PassIsStep DEF handlePublish, handlePublishFails
<1>8. IssueToken => UNCHANGED limiterVars
  BY DEF IssueToken
<1>9. LimiterStep => LimiterNext
  BY DEF LimiterStep, LimiterNext
<1>10. CASE UNCHANGED vars
  BY <1>10 DEF vars
<1> QED
  BY <1>1, <1>2, <1>3, <1>4, <1>5, <1>6, <1>7, <1>8, <1>9, <1>10 DEF Next

----------------------------------------------------------------------------
\* A step that takes and gives no slot, and starts and ends no goroutine.
SlotStutter ==
  /\ IdInv' /\ slots' = slots
  /\ \A c \in Conns : c \in Running' <=> c \in Running

\* The end of a read loop is such a step: its goroutine has cleanup and the slot before it.
LEMMA ReturnKeeps ==
  ASSUME IdInv, NEW c \in Conns, st[c] \in {"handshaking", "connected"}, slots' = slots, Return(c)
  PROVE  SlotStutter
BY DEF IdInv, Return, SlotStutter, Running, States

\* So is a packet that is handled.
LEMMA HandledKeeps ==
  ASSUME IdInv, NEW c \in Conns, st[c] \in {"handshaking", "connected"}, slots' = slots,
         NEW s \in {"handshaking", "connected"}, st' = [st EXCEPT ![c] = s],
         NEW id \in Clients \cup {NoId}, cid' = [cid EXCEPT ![c] = id]
  PROVE  SlotStutter
BY DEF IdInv, SlotStutter, Running, States

\* acceptLoop takes one slot for one connection more.
LEMMA AcceptKeeps ==
  ASSUME SlotInv, NEW c \in Conns, acceptLoop(c)
  PROVE  SlotInv'
<1>1. IdInv' /\ Running' = Running \cup {c} /\ c \notin Running
  BY DEF SlotInv, IdInv, acceptLoop, Running, States, connVars
<1>2. IsFiniteSet(Running)
  BY GateAssumption, FS_Subset DEF Running
<1>3. Cardinality(Running') = Cardinality(Running) + 1
  BY Zenon, <1>1, <1>2, FS_AddElement
<1> QED
  BY <1>1, <1>3, GateAssumption DEF SlotInv, SlotsExact, acceptLoop

\* The deferred receive gives it back.
LEMMA ReleaseKeeps ==
  ASSUME SlotInv, NEW c \in Conns, ReleaseSlot(c)
  PROVE  SlotInv'
<1>1. IdInv' /\ Running' = Running \ {c} /\ c \in Running
  BY DEF SlotInv, IdInv, ReleaseSlot, Running, States, connVars
<1>2. IsFiniteSet(Running)
  BY GateAssumption, FS_Subset DEF Running
<1>3. Cardinality(Running') = Cardinality(Running) - 1 /\ Cardinality(Running') \in Nat
  BY <1>1, <1>2, FS_RemoveElement, FS_CardinalityType
<1>4. slots = Cardinality(Running) /\ slots' = slots - 1 /\ slots \in 0 .. MaxConnections
  BY DEF SlotInv, SlotsExact, ReleaseSlot
<1> QED
  BY <1>1, <1>3, <1>4, GateAssumption DEF SlotInv, SlotsExact

\* Every other step is a SlotStutter.
LEMMA OtherSteps ==
  ASSUME IdInv, [Next]_vars, \A c \in Conns : ~acceptLoop(c) /\ ~ReleaseSlot(c)
  PROVE  SlotStutter
<1> USE DEF Read
<1>1. ASSUME NEW c \in Conns, acceptLoopFull(c) PROVE SlotStutter
  BY <1>1 DEF acceptLoopFull, connVars, IdInv, SlotStutter, Running, States
<1>2. ASSUME NEW c \in Conns, cleanup(c) PROVE SlotStutter
  BY <1>2 DEF cleanup, connVars, IdInv, SlotStutter, Running, States
<1>3. ASSUME NEW c \in Conns,
             \/ ReadFails(c) \/ ReadTimeout(c) \/ ExpectedConnect(c)
             \/ RateLimited(c) \/ ConnectRefused(c)
      PROVE  SlotStutter
  BY <1>3, ReturnKeeps DEF ReadFails, ReadTimeout, ExpectedConnect, RateLimited, ConnectRefused
<1>4. ASSUME NEW c \in Conns, NEW ok \in BOOLEAN, HandleOther(c, ok) PROVE SlotStutter
  <2>1. CASE ok
    BY <1>4, <2>1 DEF HandleOther, connVars, IdInv, SlotStutter, Running
  <2>2. CASE ~ok
    BY <1>4, <2>2, ReturnKeeps DEF HandleOther
  <2> QED
    BY <2>1, <2>2
<1>5. ASSUME NEW c \in Conns, NEW i \in 0 .. MaxTokens, handleConnectPlugin(c, i) PROVE SlotStutter
  BY <1>5, ReturnKeeps DEF handleConnectPlugin
<1>6. ASSUME NEW c \in Conns, NEW i \in 0 .. MaxTokens, NEW id \in Clients, NEW is5 \in BOOLEAN,
             NEW ka \in BOOLEAN, NEW max \in Aliases, handleConnect(c, id, i, is5, max, ka)
      PROVE  SlotStutter
  BY Zenon, <1>6, HandledKeeps DEF handleConnect
<1>7. ASSUME NEW c \in Conns, NEW t \in Topics \cup {NoTopic}, NEW a \in Aliases,
             handlePublish(c, t, a)
      PROVE  SlotStutter
  BY <1>7 DEF handlePublish, connVars, IdInv, SlotStutter, Running
<1>8. ASSUME NEW c \in Conns, NEW t \in Topics \cup {NoTopic}, NEW a \in Aliases,
             handlePublishFails(c, t, a)
      PROVE  SlotStutter
  BY <1>8, ReturnKeeps DEF handlePublishFails
<1>9. ASSUME NEW c \in Conns, PeerDies(c) PROVE SlotStutter
  BY <1>9 DEF PeerDies, connVars, IdInv, SlotStutter, Running
<1>10. ASSUME IssueToken \/ LimiterStep PROVE SlotStutter
  BY <1>10 DEF IssueToken, LimiterStep, connVars, IdInv, SlotStutter, Running
<1>11. CASE UNCHANGED vars
  BY <1>11 DEF vars, connVars, IdInv, SlotStutter, Running
<1> QED
  BY <1>1, <1>2, <1>3, <1>4, <1>5, <1>6, <1>7, <1>8, <1>9, <1>10, <1>11 DEF Next

\* Every step of the gate keeps the slots exact.
LEMMA SlotStep ==
  ASSUME SlotInv, [Next]_vars
  PROVE  SlotInv'
<1>1. CASE \E c \in Conns : acceptLoop(c) \/ ReleaseSlot(c)
  BY <1>1, AcceptKeeps, ReleaseKeeps
<1>2. CASE ~\E c \in Conns : acceptLoop(c) \/ ReleaseSlot(c)
  <2>1. SlotStutter
    BY <1>2, OtherSteps DEF SlotInv
  <2>2. Running' = Running
    BY <2>1 DEF SlotStutter, Running
  <2> QED
    BY <2>1, <2>2 DEF SlotInv, SlotsExact, SlotStutter
<1> QED
  BY <1>1, <1>2

\* At the start no connection runs.
LEMMA SlotStart ==
  ASSUME Init
  PROVE  SlotInv
<1>1. IdInv /\ Running = {} /\ slots = 0
  BY DEF Init, IdInv, Running, States
<1> QED
  BY <1>1, FS_EmptySet, GateAssumption DEF SlotInv, SlotsExact

----------------------------------------------------------------------------
\* connSem holds one element for each connection in Run, for any number of connections:
\* no path of the read loop, of CONNECT or of the listeners loses or repeats a slot.
THEOREM SlotsNeverLeak == Spec => []SlotsExact
<1>1. Init => SlotInv
  BY SlotStart
<1>2. SlotInv /\ [Next]_vars => SlotInv'
  BY SlotStep
<1>3. SlotInv => SlotsExact
  BY DEF SlotInv
<1> QED
  BY <1>1, <1>2, <1>3, PTL DEF Spec

\* The gate implements the limiter: handle asks it for every packet of an identified
\* client and for nothing else.
THEOREM GateUsesLimiter == Spec => LimiterSpec
<1>1. Init => LimiterInit /\ SlotInv
  BY Zenon, SlotStart DEF Init
<1>2. SlotInv /\ [Next]_vars => SlotInv' /\ [LimiterNext]_limiterVars
  BY SlotStep, GateStep DEF SlotInv
<1> QED
  BY <1>1, <1>2, PTL DEF Spec, LimiterSpec

\* Over all connections of a client, whatever they do, the rate is kept and nobody within
\* it is refused.
THEOREM GateRate == Spec => [](WithinRate /\ RefusedOnlyOver)
BY GateUsesLimiter, RateExact, PTL

----------------------------------------------------------------------------
\* What a connection stored under its aliases is what its publisher sent under them, and
\* the clock and the expiry of the tokens are numbers.
AliasInv ==
  /\ aliasMax \in [Conns -> Nat] /\ topicAliases = meant /\ misrouted = FALSE
  /\ now \in Nat /\ exp \in Seq(Nat) /\ stale = FALSE

\* The negotiated maximum is a number.
LEMMA NegotiatedNat ==
  ASSUME NEW is5, NEW max \in Aliases
  PROVE  NegotiatedAliasMax(is5, max) \in Nat
BY GateAssumption DEF NegotiatedAliasMax, Aliases

\* The clock of the limiter only moves in Tick.
LEMMA ClockNat ==
  ASSUME now \in Nat, [LimiterNext]_limiterVars
  PROVE  now' \in Nat
BY DEF LimiterNext, limiterVars, Allow, Deny, Cleanup, Tick

\* The end of a read loop forgets both sides alike.
LEMMA ReturnForgets ==
  ASSUME AliasInv, NEW c \in Conns, Return(c), UNCHANGED <<misrouted, exp, stale>>, now' \in Nat
  PROVE  AliasInv'
BY DEF AliasInv, Return

\* A token is accepted only before it expires, whether or not it is cached.
LEMMA AuthenticateFresh ==
  ASSUME AliasInv, NEW i \in 0 .. MaxTokens, Authenticate(i)
  PROVE  stale' = FALSE /\ exp' = exp
<1>1. CASE UNCHANGED authVars
  BY <1>1 DEF AliasInv, authVars
<1>2. CASE i \in DOMAIN exp /\ AuthJWT(i) /\ stale' = (stale \/ now >= exp[i]) /\ exp' = exp
  <2>1. exp[i] \in Nat /\ now \in Nat /\ now < exp[i]
    BY <1>2 DEF AliasInv, AuthJWT
  <2>2. ~(now >= exp[i])
    BY <2>1
  <2> QED
    BY Zenon, <1>2, <2>2 DEF AliasInv
<1> QED
  BY Zenon, <1>1, <1>2 DEF Authenticate

\* A PUBLISH that is handled stores its topic under the alias exactly when it names both:
\* a negotiated maximum of 0 lets no alias through.
LEMMA PublishAgrees ==
  ASSUME AliasInv, NEW c \in Conns, NEW t \in Topics \cup {NoTopic}, NEW a \in Aliases,
         handlePublish(c, t, a), now' \in Nat
  PROVE  AliasInv'
<1>1. c \in v5 => a <= aliasMax[c]
  BY GateAssumption DEF handlePublish, AliasRefused, AliasInv, Aliases
<1>2. c \notin v5 => a = 0
  BY DEF handlePublish, PublishPacket
<1>3. aliasMax[c] \in Nat /\ a \in Nat
  BY GateAssumption DEF AliasInv, Aliases
<1>4. topicAliases' = meant'
  <2>1. CASE a > 0 /\ t # NoTopic
    <3>1. c \in v5 /\ aliasMax[c] > 0
      BY <1>1, <1>2, <1>3, <2>1
    <3> QED
      BY <2>1, <3>1 DEF handlePublish, StoreAlias, AliasInv
  <2>2. CASE ~(a > 0 /\ t # NoTopic)
    <3>1. meant' = meant
      BY <2>2 DEF handlePublish
    <3>2. topicAliases' = topicAliases
      BY <2>2 DEF handlePublish, StoreAlias
    <3> QED
      BY <3>1, <3>2 DEF AliasInv
  <2> QED
    BY <2>1, <2>2
<1>5. misrouted' = FALSE
  BY Zenon DEF handlePublish, AliasInv
<1> QED
  BY <1>4, <1>5 DEF AliasInv, handlePublish, authVars

\* Every step of the gate keeps the two sides of an alias together.
LEMMA AliasStep ==
  ASSUME AliasInv, IdInv, [Next]_vars
  PROVE  AliasInv'
<1>0. now' \in Nat
  BY GateStep, ClockNat DEF AliasInv
<1>1. ASSUME NEW c \in Conns,
             \/ acceptLoop(c) \/ acceptLoopFull(c) \/ cleanup(c) \/ ReleaseSlot(c) \/ PeerDies(c)
      PROVE  AliasInv'
  BY <1>0, <1>1 DEF acceptLoop, acceptLoopFull, cleanup, ReleaseSlot, PeerDies, aliasVars, authVars, AliasInv
<1>2. ASSUME NEW c \in Conns,
             \/ ReadFails(c) \/ ReadTimeout(c) \/ ExpectedConnect(c)
             \/ RateLimited(c) \/ ConnectRefused(c)
      PROVE  AliasInv'
  BY Zenon, <1>0, <1>2, ReturnForgets
     DEF ReadFails, ReadTimeout, ExpectedConnect, RateLimited, ConnectRefused, authVars
<1>3. ASSUME NEW c \in Conns, NEW ok \in BOOLEAN, HandleOther(c, ok) PROVE AliasInv'
  <2>1. CASE ok
    BY <1>0, <1>3, <2>1 DEF HandleOther, aliasVars, authVars, AliasInv
  <2>2. CASE ~ok
    BY <1>0, <1>3, <2>2, ReturnForgets DEF HandleOther, authVars
  <2> QED
    BY <2>1, <2>2
<1>4. ASSUME NEW c \in Conns, NEW i \in 0 .. MaxTokens, handleConnectPlugin(c, i) PROVE AliasInv'
  <2>1. stale' = FALSE /\ exp' = exp
    BY Zenon, <1>4, AuthenticateFresh DEF handleConnectPlugin
  <2> QED
    BY Zenon, <1>0, <1>4, <2>1, ReturnForgets DEF handleConnectPlugin, AliasInv
<1>5. ASSUME NEW c \in Conns, NEW i \in 0 .. MaxTokens, NEW id \in Clients, NEW is5 \in BOOLEAN,
             NEW ka \in BOOLEAN, NEW max \in Aliases, handleConnect(c, id, i, is5, max, ka)
      PROVE  AliasInv'
  <2>1. stale' = FALSE /\ exp' = exp
    BY Zenon, <1>5, AuthenticateFresh DEF handleConnect
  <2>2. aliasMax' \in [Conns -> Nat]
    BY <1>5, NegotiatedNat DEF handleConnect, AliasInv
  <2> QED
    BY <1>0, <1>5, <2>1, <2>2 DEF handleConnect, AliasInv
<1>6. ASSUME NEW c \in Conns, NEW t \in Topics \cup {NoTopic}, NEW a \in Aliases,
             handlePublish(c, t, a)
      PROVE  AliasInv'
  BY <1>0, <1>6, PublishAgrees
<1>7. ASSUME NEW c \in Conns, NEW t \in Topics \cup {NoTopic}, NEW a \in Aliases,
             handlePublishFails(c, t, a)
      PROVE  AliasInv'
  BY <1>0, <1>7, ReturnForgets DEF handlePublishFails, authVars
<1>8. ASSUME IssueToken PROVE AliasInv'
  <2>1. Append(exp, now + Life) \in Seq(Nat)
    BY GateAssumption DEF AliasInv
  <2> QED
    BY <1>0, <1>8, <2>1 DEF IssueToken, aliasVars, AliasInv
<1>9. ASSUME LimiterStep PROVE AliasInv'
  BY <1>0, <1>9 DEF LimiterStep, aliasVars, authVars, AliasInv
<1>10. CASE UNCHANGED vars
  BY <1>0, <1>10 DEF vars, aliasVars, authVars, AliasInv
<1> QED
  BY <1>1, <1>2, <1>3, <1>4, <1>5, <1>6, <1>7, <1>8, <1>9, <1>10 DEF Next

\* AliasInv is invariant, with the slots it needs to tell the connections apart.
LEMMA AliasInvariant == Spec => []AliasInv
<1>1. Init => SlotInv /\ AliasInv
  <2> SUFFICES ASSUME Init PROVE SlotInv /\ AliasInv
    OBVIOUS
  <2>1. aliasMax \in [Conns -> Nat] /\ now \in Nat /\ exp \in Seq(Nat)
    BY DEF Init, LimiterInit
  <2>2. topicAliases = meant /\ misrouted = FALSE /\ stale = FALSE
    BY Zenon DEF Init
  <2> QED
    BY SlotStart, <2>1, <2>2 DEF AliasInv
<1>2. SlotInv /\ AliasInv /\ [Next]_vars => (SlotInv /\ AliasInv)'
  BY SlotStep, AliasStep DEF SlotInv
<1> QED
  BY <1>1, <1>2, PTL DEF Spec

\* For every configured and announced Topic Alias Maximum, and however often a connection
\* sends CONNECT again, resolvePublishTopic gives an alias the topic its publisher last sent
\* under it on that connection.
THEOREM AliasesAgree == Spec => []AliasAgrees
<1>1. AliasInv => AliasAgrees
  BY DEF AliasInv, AliasAgrees
<1> QED
  BY <1>1, AliasInvariant, PTL

\* AuthJWT lets no connection in by a token whose expiry has passed, whatever the clock, the
\* number of tokens and their lifetimes.
THEOREM TokensAreFresh == Spec => []TokensFresh
<1>1. AliasInv => TokensFresh
  BY DEF AliasInv, TokensFresh
<1> QED
  BY <1>1, AliasInvariant, PTL
=============================================================================
