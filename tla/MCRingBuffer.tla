---------------------------- MODULE MCRingBuffer ----------------------------
(* RingBuffer on small instances. *)
EXTENDS RingBuffer, TLC

CONSTANTS a, b, c, x, y

\* The items are interchangeable: no step compares them.
ItemSymmetry == Permutations(Items)
=============================================================================
