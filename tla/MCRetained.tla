----------------------------- MODULE MCRetained -----------------------------
EXTENDS Retained

CONSTANTS t1, f1

MCMatches == [f \in Filters |-> Topics]
=============================================================================
