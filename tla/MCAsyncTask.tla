------------------------------ MODULE MCAsyncTask ------------------------------
(* A task funded by a subscription and a task funded by the wallet, worked *)
(* on by three workers, or one task of the wallet worked on by two.        *)
EXTENDS AsyncTask, TLC

CONSTANTS u1, t1, t2, w1, w2, w3, sub

WalletOwner == [t \in {t1} |-> u1]
WalletJobs == [t \in {t1} |-> 2]
MCOpening == [u \in {u1} |-> 3]
NoSubs == [s \in {} |-> 0]
NoOrder == <<>>

(* t1 is funded by the subscription, t2 by the wallet.                     *)
BothOwner == [t \in {t1, t2} |-> u1]
BothJobs == [t \in {t1, t2} |-> 2]
MCSubTask == [t \in {t1} |-> sub]
MCSubOwner == [s \in {sub} |-> u1]
MCSubTotal == [s \in {sub} |-> 3]
MCSubOrder == <<sub>>

SymmetricWorkers == Permutations({w1, w2, w3})
=============================================================================
