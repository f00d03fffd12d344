------------------------------ MODULE MCServer ------------------------------
EXTENDS Server

CONSTANTS r1, r2, r3

Two    == {r1, r2}
Three  == {r1, r2, r3}
First  == {r1}
=============================================================================
