------------------------------ MODULE Limiter ------------------------------
(***************************************************************************)
(* auth.RateLimiter: one token bucket per client ID, refilled by elapsed   *)
(* time up to the burst, and forgotten by Cleanup after MaxAge.  Buckets   *)
(* belong to client IDs, so two connections of a client draw on one.       *)
(* Time is counted in ticks and tokens in units of which a packet takes    *)
(* Cost, so a rate of Rate units a tick stands for any rational rate.      *)
(***************************************************************************)
EXTENDS Integers, Sequences

CONSTANTS Clients, Rate, Burst, Cost, MaxAge,
          MaxTime       \* bound: ticks

\* With MaxAge = 5 min and the default configuration (1000 and 2000 a second) a bucket
\* that Cleanup drops has long been full.  The code does not check this of other values.
ASSUME LimiterAssumption ==
  /\ Rate \in Nat /\ Burst \in Nat /\ Cost \in Nat /\ MaxAge \in Nat /\ MaxTime \in Nat
  /\ Cost <= Burst
  /\ Burst <= Rate * MaxAge

VARIABLES now,
          present,      \* client IDs with a bucket
          tokens, last, \* its fields
          accepted      \* history: when a packet of the client was let through

limiterVars == <<now, present, tokens, last, accepted>>

LimiterInit ==
  /\ now = 0 /\ present = {}
  /\ tokens = [c \in Clients |-> 0] /\ last = [c \in Clients |-> 0]
  /\ accepted = [c \in Clients |-> <<>>]

AtMostBurst(n) == IF n > Burst THEN Burst ELSE n

\* The tokens Allow compares with 1: a new bucket starts with the burst.
Refilled(c) == IF c \in present THEN AtMostBurst(tokens[c] + Rate * (now - last[c])) ELSE Burst

\* Allow returns true and takes a token ...
Allow(c) ==
  /\ Refilled(c) >= Cost
  /\ present' = present \cup {c}
  /\ tokens' = [tokens EXCEPT ![c] = Refilled(c) - Cost]
  /\ last' = [last EXCEPT ![c] = now]
  /\ accepted' = [accepted EXCEPT ![c] = Append(@, now)]
  /\ UNCHANGED now

\* Mutant: a refusal forgets the refill.
DenyForgets(c) ==
  /\ Refilled(c) < Cost
  /\ present' = present \cup {c}
  /\ last' = [last EXCEPT ![c] = now]
  /\ UNCHANGED <<now, tokens, accepted>>

\* ... or returns false, with the refill kept.
Deny(c) ==
  /\ Refilled(c) < Cost
  /\ present' = present \cup {c}
  /\ tokens' = [tokens EXCEPT ![c] = Refilled(c)]
  /\ last' = [last EXCEPT ![c] = now]
  /\ UNCHANGED <<now, accepted>>

\* Mutant: buckets are dropped as soon as they are idle.
CleanupEarly ==
  /\ present' = {c \in present : last[c] >= now}
  /\ present' # present
  /\ UNCHANGED <<now, tokens, last, accepted>>

\* Cleanup, every 30 s from the maintenance loop.
Cleanup ==
  /\ present' = {c \in present : last[c] >= now - MaxAge}
  /\ present' # present
  /\ UNCHANGED <<now, tokens, last, accepted>>

Tick ==
  /\ now < MaxTime
  /\ now' = now + 1
  /\ UNCHANGED <<present, tokens, last, accepted>>

LimiterNext ==
  \/ \E c \in Clients : Allow(c) \/ Deny(c)
  \/ Cleanup
  \/ Tick

LimiterSpec == LimiterInit /\ [][LimiterNext]_limiterVars

----------------------------------------------------------------------------
LimiterTypeOK ==
  /\ now \in Nat
  /\ present \subseteq Clients
  /\ tokens \in [Clients -> 0 .. Burst]
  /\ last \in [Clients -> 0 .. now]
  /\ accepted \in [Clients -> Seq(Nat)]
  /\ \A c \in Clients : \A i \in DOMAIN accepted[c] : accepted[c][i] <= now

\* What the rate leaves a client since its i-th packet, that packet and all later ones paid.
Credit(c, i) ==
  Burst + Rate * (now - accepted[c][i]) - Cost * (Len(accepted[c]) - i + 1)

\* Between any two packets of a client that handle let through, on whatever connections,
\* lie at most the burst and what the rate allows in that time, although buckets are
\* forgotten in between.
WithinRate ==
  \A c \in Clients : \A i, j \in DOMAIN accepted[c] :
    i <= j => Cost * (j - i + 1) <= Burst + Rate * (accepted[c][j] - accepted[c][i])

\* handle refuses a packet only where letting it through would exceed the rate: no client
\* within its rate is disconnected for it.
RefusedOnlyOver ==
  \A c \in Clients :
    Refilled(c) < Cost => \E i \in DOMAIN accepted[c] : Credit(c, i) < Cost
=============================================================================
