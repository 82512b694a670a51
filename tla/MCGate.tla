------------------------------- MODULE MCGate -------------------------------
EXTENDS Gate, TLC

CONSTANTS a, c1, c2, c3, t1, t2

\* Connections and topics are interchangeable.
Symmetry == Permutations(Conns) \cup Permutations(Topics)
=============================================================================
