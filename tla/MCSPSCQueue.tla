---------------------------- MODULE MCSPSCQueue -----------------------------
(* SPSCQueue on small instances, with a thread that calls empty(). *)
EXTENDS SPSCEmpty, TLC

CONSTANTS x, y
=============================================================================
