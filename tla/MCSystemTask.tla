----------------------------- MODULE MCSystemTask -----------------------------
(* Two nodes, one of which may stop.                                       *)
EXTENDS SystemTaskRunner, TLC

CONSTANTS n1, n2
=============================================================================
