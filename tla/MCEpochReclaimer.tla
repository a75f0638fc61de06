-------------------------- MODULE MCEpochReclaimer --------------------------
(* EpochReclaimer on small instances. *)
EXTENDS EpochReclaimer, TLC

CONSTANTS r, s, v, w, x, y, z

\* No step compares objects.
ObjectSymmetry == Permutations(Objects)
=============================================================================
