--------------------------- MODULE MCBillingSession ---------------------------
(* Two concurrent requests of one customer on one token.  An estimate of 2  *)
(* fits the subscription, one of 4 overflows to the wallet, so that the     *)
(* requests compete for either source.                                      *)
EXTENDS BillingSession, TLC

CONSTANTS u1, r1, r2, tok, sub

MCOwner == [r \in {r1, r2} |-> u1]
MCOpening == [u \in {u1} |-> 4]
MCTokenOf == [r \in {r1, r2} |-> tok]
MCTokenOpening == [t \in {tok} |-> 5]
NoJobs == [j \in {} |-> 0]

(* One customer with one subscription: one request prefers the wallet, the *)
(* other one the subscription, and each may fall back to the other.        *)
MCSubOwner == [s \in {sub} |-> u1]
MCSubTotal == [s \in {sub} |-> 3]
MCSubOrder == <<sub>>
Mixed == (r1 :> "wallet_first") @@ (r2 :> "subscription_first")

(* The calls that may fail without, or after, taking effect.  The          *)
(* roll-back of an extension ("rollback", "rollback_lost") is left out.    *)
SessionFaults == {"begin", "begin_lost", "reserve", "reserve_lost", "settle", "settle_lost",
                  "refund", "refund_lost", "token", "refund_rollback"}
=============================================================================
