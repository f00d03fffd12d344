------------------------------ MODULE MCStream ------------------------------
EXTENDS Stream

CONSTANTS h, t, u

Three == {h, t, u}
=============================================================================
