----------------------------- MODULE MCHashMap ------------------------------
(* HashMap on small instances. *)
EXTENDS HashMap, TLC

CONSTANTS a, b, c, p, q, x, y

\* Both keys start at the last bucket, so that probing wraps round.
Colliding == [n \in Keys |-> Size - 1]
=============================================================================
