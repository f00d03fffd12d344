----------------------------- MODULE MCWorkers -----------------------------
EXTENDS Workers

CONSTANTS w1, w2, w3

ThreeWorkers == {w1, w2, w3}
=============================================================================
