----------------------------- MODULE MCSvcAuth -----------------------------
EXTENDS SvcAuth, TLC

CONSTANTS s1, s2, s3

ThreeServices == {s1, s2, s3}

(* The model tells services apart by their stage only.                     *)
Symmetry == Permutations(ThreeServices)
=============================================================================
