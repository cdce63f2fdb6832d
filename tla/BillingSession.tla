---------------------------- MODULE BillingSession ----------------------------
(***************************************************************************)
(* The billing of one relayed request, service/billing_session.go and      *)
(* service/funding_source.go, on top of the wallet ledger and of the       *)
(* subscription counters.  A request pre-consumes quota from its token and *)
(* from its funding source, may extend the reservation while it streams,   *)
(* and ends by settling the actual usage or by an asynchronous refund.     *)
(*                                                                         *)
(* Every database call is a step of its own; requests of one customer and  *)
(* of one token interleave at every step.  A call to the ledger can fail   *)
(* without effect ("err") or commit and still report an error ("lost", the *)
(* answer never arrived); a call on a token either works or fails without  *)
(* effect.  The number of faults of a behaviour is bounded by MaxFaults.   *)
(***************************************************************************)
EXTENDS BillingLedger, Sequences

CONSTANTS
    Tokens, TokenOf,    \* API tokens and the token of a request
    TokenOpening,       \* their remaining quota at the start
    Unlimited,          \* tokens with unlimited_quota
    Playground,         \* requests of the playground, which bypass tokens
    ForcePreConsume,    \* requests that never take the trust bypass
    TrustQuota,         \* common.GetTrustQuota
    Preference,         \* billing preference of a request's user
    Asked,              \* pre-consume quotas a request may need (bound)
    Usages,             \* actual usages a request may have (bound)
    Subs, SubOwner, SubTotal, SubOrder,
    Strict,             \* subscriptions with allow_wallet_overflow = false
    FaultPoints,        \* calls that may fail
    MaxFaults,          \* how many of them (bound)
    Crashes             \* may a node stop?

ASSUME TokenAssumption == TokenOf \in [Ops -> Tokens] /\ TokenOpening \in [Tokens -> Int]
ASSUME SubscriptionAssumption == SubOrder \in Seq(Subs)
ASSUME BoundAssumption == Asked \subseteq Nat /\ Usages \subseteq Nat /\ MaxFaults \in Nat

VARIABLES
    session,            \* per request: the BillingSession and where its handler is
    token,              \* tokens.remain_quota
    usage,              \* what the request really used, once known
    faults,
    subscription, preRecord, refunding

INSTANCE SubscriptionQuota WITH Requests <- Ops, Customers <- Users, Consumptions <- Asked \cup {1},
                                Deltas <- {}, Events <- {}

(* The variables of the subscription counters.                            *)
fundingVars == <<subscription, preRecord, refunding>>
sessionVars == <<session, token, usage, faults>>
vars == <<ledgerVars, fundingVars, sessionVars>>

(* Plausible bug: refunds are not retried.                                 *)
NoRetry == 1

maxAttempts == 3
Sources == {"none", "wallet", "subscription"}
Steps == {"new", "check", "token", "fund", "unfund", "open", "topup", "topdown", "settle", "unsettled",
          "closed", "failed", "crashed"}
RefundSteps == {"idle", "funding", "mark", "extra", "token", "done"}

SessionRow ==
    [pc: Steps, source: Sources, asked: Nat, tokenTrusted: BOOLEAN, trusted: BOOLEAN, retriable: BOOLEAN,
     preConsumedQuota: Nat, tokenConsumed: Nat, extraReserved: Nat, consumed: Nat, arg: Int,
     fundingSettled: BOOLEAN, settled: BOOLEAN, refunded: BOOLEAN, refund: RefundSteps, tries: 0..maxAttempts-1]

NewSession ==
    [pc |-> "new", source |-> "none", asked |-> 0, tokenTrusted |-> FALSE, trusted |-> FALSE, retriable |-> FALSE,
     preConsumedQuota |-> 0, tokenConsumed |-> 0, extraReserved |-> 0, consumed |-> 0, arg |-> 0,
     fundingSettled |-> FALSE, settled |-> FALSE, refunded |-> FALSE, refund |-> "idle", tries |-> 0]

Init ==
    /\ LedgerInit
    /\ SubInit
    /\ session = [r \in Ops |-> NewSession]
    /\ token = TokenOpening
    /\ usage = [r \in Ops |-> 0]
    /\ faults = 0

-----------------------------------------------------------------------------
(* Helpers.                                                                *)

Set(r, row) == session' = [session EXCEPT ![r] = row]
At(r, pc) == session[r].pc = pc
NoFault == UNCHANGED faults
Fault(point) == point \in FaultPoints /\ faults < MaxFaults /\ faults' = faults + 1

(* The three ways a ledger or subscription call can answer.                *)
Failed(point) == Fault(point) /\ UNCHANGED <<ledgerVars, fundingVars>>

(* A request on a subscription pre-consumes at least 1.                    *)
Want(s) == IF s.source = "subscription" /\ s.asked <= 0 THEN 1 ELSE s.asked
Effective(s) == IF s.trusted THEN 0 ELSE Want(s)

UserOf(r) == Owner[r]
RemainOf(r) == token[TokenOf[r]]
(* TryReserveTokenQuota: check and decrement are one step; nothing to      *)
(* reserve, no check.                                                      *)
TokenCovers(r, amount) ==
    amount = 0 \/ r \in Playground \/ TokenOf[r] \in Unlimited \/ RemainOf(r) >= amount
ChangeToken(r, delta) ==
    token' = IF r \in Playground THEN token ELSE [token EXCEPT ![TokenOf[r]] = @ + delta]

FirstSource(r) ==
    CASE Preference[r] = "subscription_only" -> "subscription"
      [] Preference[r] \in {"wallet_only", "wallet_first"} -> "wallet"
      [] OTHER -> IF HasActiveUserSubscription(UserOf(r)) THEN "subscription" ELSE "wallet"

AllowWalletOverflow(u) == \A s \in Subs : Active(s, u) => s \notin Strict

(* Where a request goes on after its source turned out insufficient.       *)
Fallback(r, s) ==
    CASE Preference[r] = "wallet_first" /\ s.source = "wallet" -> [s EXCEPT !.pc = "token", !.source = "subscription"]
      [] Preference[r] = "subscription_first" /\ s.source = "subscription" /\ AllowWalletOverflow(UserOf(r))
           -> [s EXCEPT !.pc = "check", !.source = "wallet"]
      [] OTHER -> [s EXCEPT !.pc = "failed"]

-----------------------------------------------------------------------------
(* Pre-consumption.                                                        *)

NewBillingSession(r, quotaToPreConsume) ==
    LET source == FirstSource(r) IN
    /\ At(r, "new")
    /\ Set(r, [session[r] EXCEPT !.pc = IF source = "wallet" THEN "check" ELSE "token",
                                 !.source = source, !.asked = quotaToPreConsume,
                                 !.tokenTrusted = TokenOf[r] \in Unlimited \/ RemainOf(r) > TrustQuota])
    /\ UNCHANGED <<ledgerVars, fundingVars, token, usage, faults>>

(* shouldTrust, with the token quota seen at authentication and the wallet *)
(* balance just read.                                                      *)
ShouldTrust(r) ==
    /\ r \notin ForcePreConsume
    /\ TrustQuota > 0
    /\ session[r].tokenTrusted
    /\ quota[UserOf(r)] > TrustQuota

(* tryWallet reads the balance before the reservation is attempted.        *)
CheckWallet(r) ==
    /\ At(r, "check")
    /\ IF quota[UserOf(r)] <= 0 \/ quota[UserOf(r)] < session[r].asked
       THEN Set(r, Fallback(r, session[r]))
       ELSE Set(r, [session[r] EXCEPT !.pc = "token", !.trusted = ShouldTrust(r)])
    /\ UNCHANGED <<ledgerVars, fundingVars, token, usage, faults>>

PreConsumeTokenQuota(r) ==
    LET amount == Effective(session[r]) IN
    /\ At(r, "token")
    /\ \/ /\ TokenCovers(r, amount)
          /\ ChangeToken(r, -amount)
          /\ Set(r, [session[r] EXCEPT !.pc = "fund", !.tokenConsumed = amount])
          /\ NoFault
       \/ /\ (~TokenCovers(r, amount) /\ NoFault) \/ (amount > 0 /\ r \notin Playground /\ Fault("token"))
          /\ Set(r, [session[r] EXCEPT !.pc = "failed"])
          /\ UNCHANGED token
    /\ UNCHANGED <<ledgerVars, fundingVars, usage>>

(* funding.PreConsume; retriable records an insufficient source, which     *)
(* may fall back to the other one.                                         *)
FundingReserved(r) ==
    Set(r, [session[r] EXCEPT !.pc = "open", !.preConsumedQuota = Effective(session[r]),
                              !.consumed = IF session[r].source = "wallet" THEN Effective(session[r]) ELSE 0])
FundingRefused(r, insufficient) == Set(r, [session[r] EXCEPT !.pc = "unfund", !.retriable = insufficient])

Begin(r) ==
    IF session[r].source = "wallet"
    THEN BeginBillingOperation(r, Effective(session[r])) /\ UNCHANGED fundingVars
    ELSE PreConsumeUserSubscription(r, UserOf(r), Want(session[r])) /\ UNCHANGED ledgerVars
Insufficient(r) ==
    IF session[r].source = "wallet" THEN quota[UserOf(r)] < Effective(session[r])
    ELSE Candidates(UserOf(r), Want(session[r])) = {}

PreConsumeFunding(r) ==
    /\ At(r, "fund")
    /\ \/ Begin(r) /\ FundingReserved(r) /\ NoFault
       \/ Insufficient(r) /\ FundingRefused(r, TRUE) /\ NoFault /\ UNCHANGED <<ledgerVars, fundingVars>>
       \/ FundingRefused(r, FALSE) /\ Failed("begin")
       \/ FundingRefused(r, FALSE) /\ Begin(r) /\ Fault("begin_lost")
    /\ UNCHANGED <<token, usage>>

(* The token quota is given back before the error is returned.             *)
RollbackToken(r) ==
    LET s == [session[r] EXCEPT !.tokenConsumed = 0, !.trusted = FALSE] IN
    /\ At(r, "unfund")
    /\ Set(r, IF s.retriable THEN Fallback(r, s) ELSE [s EXCEPT !.pc = "failed"])
    /\ \/ ChangeToken(r, session[r].tokenConsumed) /\ NoFault
       \/ session[r].tokenConsumed > 0 /\ r \notin Playground /\ Fault("token") /\ UNCHANGED token
    /\ UNCHANGED <<ledgerVars, fundingVars, usage>>

-----------------------------------------------------------------------------
(* Reserve: extends the reservation of an open request.                    *)

Extend(r, delta) ==
    IF session[r].source = "wallet"
    THEN ResizeBillingReservation(r, session[r].consumed + delta) /\ UNCHANGED fundingVars
    ELSE /\ PostConsumeUserSubscriptionDelta(preRecord[r].sub, delta)
         /\ UNCHANGED <<refunding, ledgerVars>>

(* A call that the ledger or the counter refuses returns an error and      *)
(* leaves everything as it was, so it takes no step.                       *)
ReserveFunding(r, target) ==
    LET s == session[r]
        delta == target - s.preConsumedQuota
        extended == [s EXCEPT !.pc = "topup", !.arg = delta,
                              !.consumed = IF s.source = "wallet" THEN @ + delta ELSE @]
    IN  /\ At(r, "open")
        /\ ~s.trusted /\ target > s.preConsumedQuota
        /\ \/ Extend(r, delta) /\ Set(r, extended) /\ NoFault
           \/ UNCHANGED session /\ Failed("reserve")
           \/ UNCHANGED session /\ Extend(r, delta) /\ Fault("reserve_lost")
        /\ UNCHANGED <<token, usage>>

(* Plausible bug: the extension is not added to what a refund gives back.  *)
ReserveTokenForgotten(r) ==
    LET s == session[r] IN
    /\ At(r, "topup")
    /\ TokenCovers(r, s.arg) /\ ChangeToken(r, -s.arg) /\ NoFault
    /\ Set(r, [s EXCEPT !.pc = "open", !.arg = 0, !.preConsumedQuota = @ + s.arg])
    /\ UNCHANGED <<ledgerVars, fundingVars, usage>>

ReserveToken(r) ==
    LET s == session[r]
        reserved == [s EXCEPT !.pc = "open", !.arg = 0, !.preConsumedQuota = @ + s.arg,
                              !.tokenConsumed = @ + s.arg, !.extraReserved = @ + s.arg]
    IN  /\ At(r, "topup")
        /\ \/ TokenCovers(r, s.arg) /\ ChangeToken(r, -s.arg) /\ Set(r, reserved) /\ NoFault
           \/ /\ (~TokenCovers(r, s.arg) /\ NoFault) \/ (r \notin Playground /\ Fault("token"))
              /\ Set(r, [s EXCEPT !.pc = "topdown"]) /\ UNCHANGED token
        /\ UNCHANGED <<ledgerVars, fundingVars, usage>>

(* Plausible bug: the wallet gives the extension back, the session keeps   *)
(* counting it as consumed.                                                *)
RollbackKeepsConsumed(r) ==
    /\ At(r, "topdown")
    /\ Extend(r, -session[r].arg)
    /\ Set(r, [session[r] EXCEPT !.pc = "open", !.arg = 0])
    /\ UNCHANGED <<token, usage, faults>>

(* The token refused: the funding source takes the extension back.         *)
RollbackFundingReserve(r) ==
    LET s == session[r]
        failed == [s EXCEPT !.pc = "open", !.arg = 0]
        undone == [failed EXCEPT !.consumed = IF s.source = "wallet" THEN @ - s.arg ELSE @]
    IN  /\ At(r, "topdown")
        /\ \/ Extend(r, -s.arg) /\ Set(r, undone) /\ NoFault
           \/ Set(r, failed) /\ Failed("rollback")
           \/ Set(r, failed) /\ Extend(r, -s.arg) /\ Fault("rollback_lost")
        /\ UNCHANGED <<token, usage>>

-----------------------------------------------------------------------------
(* Settle.                                                                 *)

SettleWith(r, delta) ==
    IF session[r].source = "wallet"
    THEN FinishBillingOperation(r, session[r].consumed + delta, FALSE) /\ UNCHANGED fundingVars
    ELSE /\ IF delta = 0 THEN UNCHANGED <<subscription, preRecord>>
                         ELSE PostConsumeUserSubscriptionDelta(preRecord[r].sub, delta)
         /\ UNCHANGED <<refunding, ledgerVars>>

SettleRefused(r, delta) ==
    LET charge == session[r].consumed + delta IN
    IF session[r].source = "wallet"
    THEN charge \notin 0..MaxWalletQuota \/ ~WalletFits(UserOf(r), operation[r].reserved - charge)
    ELSE delta # 0 /\ ~DeltaAllowed(preRecord[r].sub, delta)

SettleFunding(r, actual) ==
    LET s == session[r]
        delta == actual - s.preConsumedQuota
    IN  /\ At(r, "open")
        /\ usage' = [usage EXCEPT ![r] = actual]
        /\ \/ SettleWith(r, delta) /\ Set(r, [s EXCEPT !.pc = "settle", !.arg = delta, !.fundingSettled = TRUE]) /\ NoFault
           \/ /\ Set(r, [s EXCEPT !.pc = "unsettled"])
              /\ \/ SettleRefused(r, delta) /\ NoFault /\ UNCHANGED <<ledgerVars, fundingVars>>
                 \/ Failed("settle")
                 \/ SettleWith(r, delta) /\ Fault("settle_lost")
        /\ UNCHANGED token

(* The token adjustment may fail; the session is settled all the same.     *)
SettleToken(r) ==
    /\ At(r, "settle")
    /\ Set(r, [session[r] EXCEPT !.pc = "closed", !.settled = TRUE])
    /\ \/ ChangeToken(r, -session[r].arg) /\ NoFault
       \/ session[r].arg # 0 /\ r \notin Playground /\ Fault("token") /\ UNCHANGED token
    /\ UNCHANGED <<ledgerVars, fundingVars, usage>>

(* Most handlers only log a failed settlement.                             *)
LogSettlementError(r) ==
    /\ At(r, "unsettled")
    /\ Set(r, [session[r] EXCEPT !.pc = "closed"])
    /\ UNCHANGED <<ledgerVars, fundingVars, token, usage, faults>>

-----------------------------------------------------------------------------
(* Refund: decided under the session lock, carried out by a goroutine.     *)

NeedsRefund(r) ==
    LET s == session[r] IN
    /\ ~s.settled /\ ~s.refunded /\ ~s.fundingSettled
    /\ s.tokenConsumed > 0 \/ s.source = "wallet" \/ preRecord[r].amount > 0

Refund(r) ==
    /\ session[r].pc \in {"open", "unsettled"}
    /\ NeedsRefund(r)
    /\ Set(r, [session[r] EXCEPT !.pc = "closed", !.refunded = TRUE, !.refund = "funding"])
    /\ UNCHANGED <<ledgerVars, fundingVars, token, usage, faults>>

AfterFunding(s) ==
    [s EXCEPT !.refund = IF s.source = "subscription" /\ s.extraReserved > 0 THEN "extra" ELSE "token"]
(* Plausible bug: an error is retried for ever.                            *)
RetryForEver(s) == [s EXCEPT !.tries = @ + 1, !.refund = "funding"]

(* refundWithRetry: three attempts, then the error is only logged.         *)
AttemptFailed(s) ==
    IF s.tries + 1 = maxAttempts THEN [AfterFunding(s) EXCEPT !.tries = 0]
    ELSE [s EXCEPT !.tries = @ + 1, !.refund = "funding"]

RefundWallet(r) ==
    LET s == session[r]
        Finish == FinishBillingOperation(r, 0, TRUE)
        Conflict == operation[r].state = "settled"
    IN  /\ s.refund = "funding" /\ s.source = "wallet"
        /\ \/ Finish /\ Set(r, AfterFunding(s)) /\ NoFault
           \/ Conflict /\ Set(r, AttemptFailed(s)) /\ NoFault /\ UNCHANGED ledgerVars
           \/ Set(r, AttemptFailed(s)) /\ Fault("refund") /\ UNCHANGED ledgerVars
           \/ Set(r, AttemptFailed(s)) /\ Finish /\ Fault("refund_lost")
        /\ UNCHANGED <<fundingVars, token, usage>>

RefundSubscription(r) ==
    LET s == session[r] IN
    /\ s.source = "subscription"
    /\ \/ /\ s.refund = "funding" /\ NoFault
          /\ RefundLowersUsage(r) /\ Set(r, [s EXCEPT !.refund = "mark"])
       \/ /\ s.refund = "funding" /\ NoFault
          /\ preRecord[r].status = "refunded" /\ Set(r, AfterFunding(s)) /\ UNCHANGED fundingVars
       \/ /\ s.refund = "funding" /\ Fault("refund")
          /\ Set(r, AttemptFailed(s)) /\ UNCHANGED fundingVars
       \/ /\ s.refund = "mark" /\ NoFault
          /\ RefundMarksRecord(r) /\ Set(r, AfterFunding(s))
       \/ /\ s.refund = "mark" /\ Fault("refund_rollback")
          /\ RefundRollsBack(r) /\ Set(r, AttemptFailed(s))
    /\ UNCHANGED <<ledgerVars, token, usage>>

RefundExtraReserved(r) ==
    LET s == session[r] IN
    /\ s.refund = "extra"
    /\ Set(r, [s EXCEPT !.refund = "token"])
    /\ \/ PostConsumeUserSubscriptionDelta(preRecord[r].sub, -s.extraReserved) /\ UNCHANGED refunding /\ NoFault
       \/ Fault("refund") /\ UNCHANGED fundingVars
    /\ UNCHANGED <<ledgerVars, token, usage>>

RefundToken(r) ==
    LET s == session[r] IN
    /\ s.refund = "token"
    /\ Set(r, [s EXCEPT !.refund = "done"])
    /\ \/ ChangeToken(r, s.tokenConsumed) /\ NoFault
       \/ s.tokenConsumed > 0 /\ r \notin Playground /\ Fault("token") /\ UNCHANGED token
    /\ UNCHANGED <<ledgerVars, fundingVars, usage>>

-----------------------------------------------------------------------------
InHandler(r) == session[r].pc \notin {"new", "closed", "failed", "crashed"}
InRefund(r) == session[r].refund \notin {"idle", "done"}

(* The node that serves the request stops: memory and goroutine are gone,  *)
(* an open outer transaction rolls back.                                   *)
Crash(r) ==
    /\ Crashes
    /\ session[r].pc # "crashed" /\ (InHandler(r) \/ InRefund(r))
    /\ Set(r, [session[r] EXCEPT !.pc = "crashed", !.refund = "idle"])
    /\ refunding' = [refunding EXCEPT ![r] = IF @ = "lowered" THEN "rolledback" ELSE @]
    /\ UNCHANGED <<ledgerVars, subscription, preRecord, token, usage, faults>>

RefundStep(r) == RefundWallet(r) \/ RefundSubscription(r) \/ RefundExtraReserved(r) \/ RefundToken(r)

HandlerStep(r) ==
    \/ \E q \in Asked : NewBillingSession(r, q)
    \/ CheckWallet(r)
    \/ PreConsumeTokenQuota(r)
    \/ PreConsumeFunding(r)
    \/ RollbackToken(r)
    \/ \E target \in Amounts : ReserveFunding(r, target)
    \/ ReserveToken(r)
    \/ RollbackFundingReserve(r)
    \/ \E actual \in Usages : SettleFunding(r, actual)
    \/ SettleToken(r)
    \/ LogSettlementError(r)
    \/ Refund(r)

Next == \E r \in Ops : HandlerStep(r) \/ RefundStep(r) \/ Crash(r)

Spec == Init /\ [][Next]_vars

(* A refund goroutine that was started keeps running: it waits for nothing *)
(* but the database.                                                       *)
FairSpec == Spec /\ \A r \in Ops : WF_vars(RefundStep(r))

-----------------------------------------------------------------------------
(* Sessions, tokens and counters have their types; what a session has      *)
(* reserved is never negative and a refund stops after maxAttempts.        *)
SessionTypeOK ==
    /\ session \in [Ops -> SessionRow]
    /\ token \in [Tokens -> Int]
    /\ usage \in [Ops -> Nat]
    /\ faults \in 0..MaxFaults

(* A settled request is charged exactly what it used, whatever was         *)
(* reserved, extended or retried before, an extension that the token       *)
(* refused and that was undone included (Settle and WalletFunding.Settle   *)
(* compute the charge from two separate counters).  It does not hold when  *)
(* undoing the extension fails itself: "rollback" must not be among the    *)
(* FaultPoints.                                                            *)
SettledChargesActual ==
    \A r \in Ops : operation[r].state = "settled" => operation[r].actual = usage[r]

Quiet(r) == session[r].pc \in {"new", "closed", "failed"} /\ ~InRefund(r)

WalletCost(r) ==
    CASE operation[r].state = "settled" -> operation[r].actual
      [] operation[r].state = "reserved" -> operation[r].reserved
      [] OTHER -> 0

(* Once every request has ended and no call has failed, what the tokens    *)
(* lost is what the wallets and the subscriptions of the same requests     *)
(* lost: token quota and funding are two separate books that preConsume,   *)
(* Reserve, Settle and Refund must keep equal through every fallback,      *)
(* rollback and trust bypass.                                              *)
TokensAgreeWithFunding ==
    faults = 0 /\ (\A r \in Ops : Quiet(r)) /\ Playground = {} =>
        SumFunction([t \in Tokens |-> TokenOpening[t] - token[t]])
          = SumFunction([r \in Ops |-> WalletCost(r)]) + SumFunction([s \in Subs |-> subscription[s].used])

(* A wallet request whose refund has begun (BillingSession.Refund) does    *)
(* not keep the customer's money: its reservation is released or was       *)
(* already settled, although up to maxAttempts - 1 calls of the refund     *)
(* fail or lose their answer (refundWithRetry), unless its node stops.     *)
ReservationReleased ==
    \A r \in Ops : session[r].refunded /\ session[r].source = "wallet"
                     ~> operation[r].state # "reserved" \/ session[r].pc = "crashed"

(* Pre-consumption never overdraws a wallet, although tryWallet checks the *)
(* balance before concurrent requests reserve from it.                     *)
PreConsumeNeverOverdraws ==
    [][\A r \in Ops : operation[r].state = "absent" /\ operation'[r].state = "reserved"
                         => quota'[UserOf(r)] >= 0]_vars

(* The request life cycle implements Metering: reservations, extensions    *)
(* and retries are invisible, a request is paid or waived at most once,    *)
(* and a wallet plus what it holds changes by exactly what is paid.        *)
MeteredBill ==
    [r \in Ops |->
       CASE operation[r].state = "settled" -> [state |-> "paid", amount |-> operation[r].actual]
         [] operation[r].state = "refunded" -> [state |-> "waived", amount |-> 0]
         [] OTHER -> [state |-> "open", amount |-> 0]]
MeteredSpent == [u \in Users |-> Opening[u] - quota[u] - Held(u)]
M == INSTANCE Metering WITH Requests <- Ops, Customers <- Users, CustomerOf <- Owner,
                            MaxCharge <- MaxWalletQuota, bill <- MeteredBill, spent <- MeteredSpent
ImplementsMetering == M!Spec
=============================================================================
