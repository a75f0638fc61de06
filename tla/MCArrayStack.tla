---------------------------- MODULE MCArrayStack ----------------------------
(* ArrayStack on small instances. *)
EXTENDS ArrayStack, TLC

CONSTANTS a, b, c, x, y

\* No step compares threads or items.
ThreadAndItemSymmetry == Permutations(Threads) \cup Permutations(Items)
=============================================================================
