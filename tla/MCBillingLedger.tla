---------------------------- MODULE MCBillingLedger ----------------------------
(* Two requests, one task and one midjourney job of one customer, one      *)
(* administrative event key; the bound on the wallet is low enough to be   *)
(* reached.                                                                *)
EXTENDS BillingLedger, TLC

CONSTANTS u1, o1, o2, t1, m1, k1

MCOwner == [r \in {o1, o2, t1, m1} |-> u1]
MCOpening == [u \in {u1} |-> 2]
MCJobOpening == [j \in {t1, m1} |-> 2]
SymmetricRequests == Permutations({o1, o2})
=============================================================================
