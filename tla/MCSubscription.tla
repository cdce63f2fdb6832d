---------------------------- MODULE MCSubscription ----------------------------
(* A subscription of one customer that expires before the two of another,  *)
(* limited to 1, 2 and 3; or one subscription and three requests.          *)
EXTENDS SubscriptionQuota, TLC

CONSTANTS u1, u2, r1, r2, r3, s1, s2, s3

LifeOwner == (s1 :> u2) @@ (s2 :> u1) @@ (s3 :> u1)
LifeTotal == (s1 :> 1) @@ (s2 :> 2) @@ (s3 :> 3)
LifeOrder == <<s1, s2, s3>>
OneOwner == [s \in {s1} |-> u1]
OneTotal == [s \in {s1} |-> 3]
OneOrder == <<s1>>
SettlementDeltas == {-1, 2}
LifeEvents == {"reset", "end", "delete", "cleanup", "rollback"}
LifeSymmetry == Permutations({r1, r2})
SymmetricRequests == Permutations({r1, r2, r3})
=============================================================================
