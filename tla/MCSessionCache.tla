--------------------------- MODULE MCSessionCache ---------------------------
(* Two validations and two revocations of one session.                     *)
EXTENDS SessionCache, TLC

CONSTANTS p1, p2, r1, r2

Symmetric == Permutations({p1, p2}) \cup Permutations({r1, r2})
=============================================================================
