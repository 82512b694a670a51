----------------------------- MODULE MCLifecycle -----------------------------
(* Instances of Lifecycle for TLC. *)
EXTENDS Lifecycle, TLC

CONSTANTS c1, c2, c3, a, b

Perms == Permutations(Conns)

R(clean, v5, expiry, will) ==
  [clean |-> clean, v5 |-> v5, expiry |-> expiry, will |-> will]

CleanWill  == R(TRUE, TRUE, "zero", TRUE)
PersWill   == R(FALSE, FALSE, "zero", TRUE)
Finite     == R(FALSE, TRUE, "finite", FALSE)
FiniteWill == R(FALSE, TRUE, "finite", TRUE)

OverlapRequests == {CleanWill, PersWill, FiniteWill}
FiniteRequests  == {Finite}
=============================================================================
