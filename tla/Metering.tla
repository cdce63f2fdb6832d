------------------------------- MODULE Metering -------------------------------
(***************************************************************************)
(* What billing promises a customer, with no reservation, token, retry or  *)
(* failure in sight: every request is billed at most once, either for an   *)
(* amount or for nothing, and what the customer has spent is the sum of    *)
(* the amounts billed.                                                     *)
(***************************************************************************)
EXTENDS Integers

CONSTANTS Requests, Customers, CustomerOf, MaxCharge

VARIABLES bill, spent

Unbilled == [state |-> "open", amount |-> 0]

Init ==
    /\ bill = [r \in Requests |-> Unbilled]
    /\ spent = [c \in Customers |-> 0]

Pay(r, amount) ==
    /\ bill[r].state = "open"
    /\ bill' = [bill EXCEPT ![r] = [state |-> "paid", amount |-> amount]]
    /\ spent' = [spent EXCEPT ![CustomerOf[r]] = @ + amount]

Waive(r) ==
    /\ bill[r].state = "open"
    /\ bill' = [bill EXCEPT ![r] = [state |-> "waived", amount |-> 0]]
    /\ UNCHANGED spent

Next == \E r \in Requests : Waive(r) \/ \E amount \in 0..MaxCharge : Pay(r, amount)

Spec == Init /\ [][Next]_<<bill, spent>>
=============================================================================
