----------------------------- MODULE MCDurable -----------------------------
EXTENDS Durable

CONSTANTS f1, f2
============================================================================
