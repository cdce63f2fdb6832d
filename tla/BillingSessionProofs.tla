-------------------------- MODULE BillingSessionProofs --------------------------
(***************************************************************************)
(* Proofs about the billing of requests for any number of customers,       *)
(* tokens, subscriptions and concurrent requests, any amounts and any      *)
(* number of faults and crashes.                                           *)
(***************************************************************************)
EXTENDS BillingSession, BillingLedgerProofs

(* What a step of a request may do to the ledger: nothing, or one          *)
(* transaction on the request's own operation.                             *)
ReservationStep(r) ==
  \/ UNCHANGED ledgerVars
  \/ \E a \in 0..MaxWalletQuota : BeginBillingOperation(r, a) \/ ResizeBillingReservation(r, a)
  \/ RefundOperation(r)
LedgerMove(r) == ReservationStep(r) \/ \E a \in 0..MaxWalletQuota : SettleOperation(r, a)

RequestMoves(r) == HandlerStep(r) \/ RefundStep(r) \/ Crash(r)

(* The calls of a session on its funding source are ledger transactions on *)
(* its operation, and a refund never settles.                              *)
LEMMA FundingMoves ==
  ASSUME NEW r, NEW d
  PROVE  /\ Begin(r) => ReservationStep(r)
         /\ Extend(r, d) => ReservationStep(r)
         /\ FinishBillingOperation(r, 0, TRUE) => ReservationStep(r)
         /\ SettleWith(r, d) => LedgerMove(r)
<1>1. Begin(r) => ReservationStep(r)
  BY DEF Begin, ReservationStep, BeginBillingOperation
<1>2. Extend(r, d) => ReservationStep(r)
  BY DEF Extend, ReservationStep, ResizeBillingReservation
<1>3. FinishBillingOperation(r, 0, TRUE) => ReservationStep(r)
  BY DEF FinishBillingOperation, ReservationStep
<1>4. ASSUME NEW a, FinishBillingOperation(r, a, FALSE) PROVE LedgerMove(r)
  BY <1>4 DEF FinishBillingOperation, LedgerMove, ReservationStep
<1>5. SettleWith(r, d) => LedgerMove(r)
  BY <1>4 DEF SettleWith, LedgerMove, ReservationStep
<1> QED BY <1>1, <1>2, <1>3, <1>5

(* Every step of a request's handler, of its refund and the crash of its   *)
(* node at most moves a reservation, except the one that settles, which    *)
(* alone knows the usage.                                                  *)
LEMMA RequestCases ==
  ASSUME NEW r \in Ops, RequestMoves(r)
  PROVE  (ReservationStep(r) /\ UNCHANGED usage) \/ \E actual \in Usages : SettleFunding(r, actual)
<1>1. ASSUME UNCHANGED ledgerVars PROVE ReservationStep(r)
  BY <1>1 DEF ReservationStep
<1>2. ASSUME PreConsumeFunding(r) PROVE ReservationStep(r) /\ UNCHANGED usage
  BY <1>1, <1>2, FundingMoves DEF PreConsumeFunding, Failed
<1>3. ASSUME NEW target, ReserveFunding(r, target) PROVE ReservationStep(r) /\ UNCHANGED usage
  BY <1>1, <1>3, FundingMoves DEF ReserveFunding, Failed
<1>4. ASSUME RollbackFundingReserve(r) PROVE ReservationStep(r) /\ UNCHANGED usage
  BY <1>1, <1>4, FundingMoves DEF RollbackFundingReserve, Failed
<1>5. ASSUME RefundWallet(r) PROVE ReservationStep(r) /\ UNCHANGED usage
  BY <1>1, <1>5, FundingMoves DEF RefundWallet
<1>6. ASSUME \/ \E q \in Asked : NewBillingSession(r, q)
             \/ CheckWallet(r) \/ PreConsumeTokenQuota(r) \/ RollbackToken(r) \/ ReserveToken(r)
             \/ SettleToken(r) \/ LogSettlementError(r) \/ Refund(r)
             \/ RefundSubscription(r) \/ RefundExtraReserved(r) \/ RefundToken(r) \/ Crash(r)
      PROVE  UNCHANGED <<ledgerVars, usage>>
  BY <1>6 DEF NewBillingSession, CheckWallet, PreConsumeTokenQuota, RollbackToken, ReserveToken, SettleToken,
     LogSettlementError, Refund, RefundSubscription, RefundExtraReserved, RefundToken, Crash
<1> QED BY <1>1, <1>2, <1>3, <1>4, <1>5, <1>6 DEF RequestMoves, HandlerStep, RefundStep

(* Seen from the ledger, every step of a request is one of these moves.    *)
LEMMA RequestMove ==
  ASSUME NEW r \in Ops, RequestMoves(r)
  PROVE  LedgerMove(r)
<1>1. ASSUME NEW actual, SettleFunding(r, actual) PROVE LedgerMove(r)
  BY <1>1, FundingMoves DEF SettleFunding, Failed, LedgerMove, ReservationStep
<1> QED BY <1>1, RequestCases DEF LedgerMove

(* The ledger under the requests keeps its types and stays finite.         *)
LedgerOK == LedgerTypeOK /\ LedgerFinite

LEMMA LedgerKept ==
  ASSUME LedgerOK, [Next]_vars
  PROVE  LedgerOK'
<1> USE DEF LedgerOK
<1>1. ASSUME UNCHANGED ledgerVars PROVE LedgerOK'
  BY <1>1, StutterTypes DEF LedgerFinite, ledgerVars
<1>2. ASSUME NEW r \in Ops, LedgerMove(r) PROVE LedgerOK'
  <2>1. \A a \in 0..MaxWalletQuota : a \in Int
    BY MaxWalletQuotaAssumption
  <2>2. ASSUME NEW a \in 0..MaxWalletQuota,
               BeginBillingOperation(r, a) \/ ResizeBillingReservation(r, a) \/ RefundOperation(r)
        PROVE  LedgerOK'
    BY <2>1, <2>2, ReservationTypes, FiniteStep DEF Transaction
  <2>3. ASSUME NEW a \in 0..MaxWalletQuota, SettleOperation(r, a) PROVE LedgerOK'
    BY <2>3, SettleTypes, FiniteStep DEF Transaction
  <2>4. 0 \in 0..MaxWalletQuota
    BY MaxWalletQuotaAssumption
  <2> QED BY <1>1, <1>2, <2>2, <2>3, <2>4 DEF LedgerMove, ReservationStep
<1>3. CASE UNCHANGED vars
  BY <1>1, <1>3 DEF vars
<1>4. CASE Next
  BY <1>2, <1>4, RequestMove DEF Next, RequestMoves
<1> QED BY <1>3, <1>4

(* The first states are those of an empty ledger.                          *)
LEMMA LedgerFirst == Init => LedgerOK
<1> SUFFICES ASSUME Init PROVE LedgerOK
  OBVIOUS
<1>1. {o \in Ops : operation[o].state # "absent"} = {} /\ entries = {}
  BY DEF Init, LedgerInit
<1> QED BY <1>1, FS_EmptySet, LedgerInitTypes DEF Init, LedgerOK, LedgerFinite

(* Requests keep the ledger well typed, within its boundary and finite.    *)
LEMMA LedgerInvariant == Spec => []LedgerOK
<1>1. LedgerOK /\ [Next]_vars => LedgerOK'
  BY LedgerKept
<1> QED BY LedgerFirst, <1>1, PTL DEF Spec

-----------------------------------------------------------------------------
(* A step that opens a reservation leaves the wallet at zero or above.     *)
LEMMA OpeningStep ==
  ASSUME LedgerOK, [Next]_vars, NEW r \in Ops, operation[r].state = "absent", operation'[r].state = "reserved"
  PROVE  quota'[UserOf(r)] >= 0
<1>1. /\ operation \in [Ops -> OperationRow] /\ quota \in [Users -> Balances] /\ Owner[r] \in Users
      /\ quota[Owner[r]] \in Int
  BY OwnerAssumption, MaxWalletQuotaAssumption DEF LedgerOK, LedgerTypeOK, Balances
<1>2. PICK p \in Ops : LedgerMove(p)
  <2>1. ~UNCHANGED vars
    BY DEF vars, ledgerVars
  <2> QED BY <2>1, RequestMove DEF Next, RequestMoves
<1>3. PICK a \in 0..MaxWalletQuota : BeginBillingOperation(r, a)
  <2>1. ASSUME UNCHANGED ledgerVars PROVE FALSE
    BY <2>1 DEF ledgerVars
  <2>2. ASSUME NEW a, ResizeBillingReservation(p, a) PROVE FALSE
    BY <1>1, <2>2 DEF ResizeBillingReservation, OperationRow
  <2>3. ASSUME NEW a, SettleOperation(p, a) PROVE FALSE
    BY <1>1, <2>3 DEF SettleOperation, OperationRow
  <2>4. ASSUME RefundOperation(p) PROVE FALSE
    BY <1>1, <2>4 DEF RefundOperation, OperationRow
  <2>5. ASSUME NEW a, BeginBillingOperation(p, a) PROVE p = r
    BY <1>1, <2>5 DEF BeginBillingOperation
  <2> QED BY <1>2, <2>1, <2>2, <2>3, <2>4, <2>5 DEF LedgerMove, ReservationStep
<1>4. a \in Int /\ quota[Owner[r]] >= a /\ quota' = [quota EXCEPT ![Owner[r]] = @ + (-a)]
  BY <1>3, MaxWalletQuotaAssumption DEF BeginBillingOperation, changeBillingWallet
<1> QED BY <1>1, <1>4 DEF UserOf

(* No number of concurrent requests overdraws a wallet by pre-consuming,   *)
(* although tryWallet checks the balance in an earlier step: the ledger    *)
(* checks again in the transaction that reserves (BeginBillingOperation).  *)
THEOREM NeverOverdrawn == Spec => PreConsumeNeverOverdraws
<1>1. LedgerOK /\ [Next]_vars =>
        [\A r \in Ops : operation[r].state = "absent" /\ operation'[r].state = "reserved"
                         => quota'[UserOf(r)] >= 0]_vars
  BY OpeningStep
<1> QED BY <1>1, LedgerInvariant, PTL DEF Spec, PreConsumeNeverOverdraws

-----------------------------------------------------------------------------
(* The bill of a request as Metering sees it.                              *)
BillOf(row) ==
  CASE row.state = "settled" -> [state |-> "paid", amount |-> row.actual]
    [] row.state = "refunded" -> [state |-> "waived", amount |-> 0]
    [] OTHER -> [state |-> "open", amount |-> 0]

(* What BillOf makes of the states an operation goes through.              *)
LEMMA BillOfRow ==
  ASSUME NEW row \in OperationRow
  PROVE  /\ row.state = "settled" => BillOf(row) = [state |-> "paid", amount |-> row.actual]
         /\ row.state = "refunded" => BillOf(row) = [state |-> "waived", amount |-> 0]
         /\ row.state \in {"absent", "reserved"} => BillOf(row) = [state |-> "open", amount |-> 0]
BY DEF BillOf

(* One operation changes, and with it one bill.                            *)
LEMMA OneBill ==
  ASSUME operation \in [Ops -> OperationRow], NEW r \in Ops, NEW row, operation' = [operation EXCEPT ![r] = row]
  PROVE  MeteredBill' = [MeteredBill EXCEPT ![r] = BillOf(row)]
<1>1. \A p \in Ops : operation'[p] = IF p = r THEN row ELSE operation[p]
  OBVIOUS
<1>2. MeteredBill = [p \in Ops |-> BillOf(operation[p])] /\ MeteredBill' = [p \in Ops |-> BillOf(operation'[p])]
  BY DEF MeteredBill, BillOf
<1> HIDE DEF MeteredBill
<1> QED BY <1>1, <1>2

(* A ledger transaction of a request is a step of Metering: opening and    *)
(* resizing are invisible, a settlement pays, a refund waives.             *)
LEMMA MeteringMove ==
  ASSUME LedgerOK, LedgerOK', NEW r \in Ops, LedgerMove(r)
  PROVE  [M!Next]_<<MeteredBill, MeteredSpent>>
<1> USE DEF LedgerOK
<1>1. /\ operation \in [Ops -> OperationRow] /\ operation[r] \in OperationRow /\ Owner[r] \in Users
      /\ \A v \in Users : quota[v] \in Int /\ quota'[v] \in Int /\ Opening[v] \in Int
  BY OwnerAssumption, OpeningAssumption, MaxWalletQuotaAssumption DEF LedgerTypeOK, Balances
<1>2. MeteredBill[r] = BillOf(operation[r])
  BY DEF MeteredBill, BillOf
<1>3. \A a \in 0..MaxWalletQuota : a \in Int
  BY MaxWalletQuotaAssumption
<1>4. ASSUME UNCHANGED ledgerVars PROVE UNCHANGED <<MeteredBill, MeteredSpent>>
  BY <1>4 DEF MeteredBill, MeteredSpent, Held, OpenOperations, ledgerVars
<1>5. ASSUME NEW a \in Int, BeginBillingOperation(r, a) \/ ResizeBillingReservation(r, a) \/ RefundOperation(r)
      PROVE  UNCHANGED MeteredSpent
  <2>1. ASSUME NEW v \in Users PROVE Opening[v] - quota'[v] - Held(v)' = Opening[v] - quota[v] - Held(v)
    <3>1. Held(v) \in Int /\ Held(v)' \in Int /\ quota'[v] = quota[v] + Held(v) - Held(v)'
      BY <1>5, ReservationMove
    <3> QED BY <1>1, <3>1
  <2> QED BY <2>1 DEF MeteredSpent
<1>6. ASSUME NEW a \in 0..MaxWalletQuota, BeginBillingOperation(r, a) \/ ResizeBillingReservation(r, a)
      PROVE  UNCHANGED <<MeteredBill, MeteredSpent>>
  <2>1. PICK row \in OperationRow : /\ operation' = [operation EXCEPT ![r] = row]
                                    /\ row.state = "reserved" /\ operation[r].state \in {"absent", "reserved"}
    <3>1. CASE BeginBillingOperation(r, a)
      <4>1. \A z \in 0..MaxWalletQuota : [state |-> "reserved", reserved |-> a, actual |-> z] \in OperationRow
        BY DEF OperationRow, States
      <4>2. [state |-> "reserved", reserved |-> a, actual |-> 0] \in OperationRow
        BY <4>1, MaxWalletQuotaAssumption
      <4> QED BY <3>1, <4>2 DEF BeginBillingOperation
    <3>2. CASE ResizeBillingReservation(r, a)
      <4>1. [operation[r] EXCEPT !.reserved = a] \in OperationRow /\ [operation[r] EXCEPT !.reserved = a].state = operation[r].state
        BY <1>1 DEF OperationRow
      <4> QED BY <3>2, <4>1 DEF ResizeBillingReservation
    <3> QED BY <1>6, <3>1, <3>2
  <2>2. BillOf(row) = BillOf(operation[r])
    BY <1>1, <2>1, BillOfRow
  <2>3. MeteredBill' = [MeteredBill EXCEPT ![r] = BillOf(row)]
    BY <1>1, <2>1, OneBill
  <2>4. MeteredBill' = MeteredBill
    BY <1>2, <2>2, <2>3 DEF MeteredBill
  <2> QED BY <1>3, <1>5, <1>6, <2>4
<1>7. ASSUME NEW a \in 0..MaxWalletQuota, SettleOperation(r, a) PROVE M!Pay(r, a)
  <2> DEFINE row == [operation[r] EXCEPT !.state = "settled", !.actual = a]
  <2>1. row \in OperationRow /\ row.state = "settled" /\ row.actual = a
    BY <1>1 DEF OperationRow, States
  <2>2. operation' = [operation EXCEPT ![r] = row] /\ operation[r].state = "reserved"
    BY <1>7 DEF SettleOperation
  <2> HIDE DEF row
  <2>3. MeteredBill' = [MeteredBill EXCEPT ![r] = [state |-> "paid", amount |-> a]]
    BY <1>1, <2>1, <2>2, OneBill, BillOfRow
  <2>4. MeteredBill[r].state = "open"
    BY <1>1, <1>2, <2>2, BillOfRow
  <2>5. ASSUME NEW v \in Users
        PROVE  Opening[v] - quota'[v] - Held(v)' = IF v = Owner[r] THEN (Opening[v] - quota[v] - Held(v)) + a
                                                   ELSE Opening[v] - quota[v] - Held(v)
    <3>1. /\ Held(v) \in Int /\ Held(v)' \in Int
          /\ quota'[v] = quota[v] + Held(v) - Held(v)' - IF v = Owner[r] THEN a ELSE 0
      BY <1>7, SettleMove
    <3> QED BY <1>1, <1>3, <3>1
  <2>6. MeteredSpent' = [MeteredSpent EXCEPT ![Owner[r]] = @ + a]
    BY <1>1, <2>5 DEF MeteredSpent
  <2> QED BY <2>3, <2>4, <2>6 DEF M!Pay
<1>8. ASSUME RefundOperation(r) PROVE M!Waive(r)
  <2> DEFINE row == [operation[r] EXCEPT !.state = "refunded", !.actual = 0]
  <2>1. row \in OperationRow /\ row.state = "refunded"
    <3>1. \A z \in 0..MaxWalletQuota : LET x == [operation[r] EXCEPT !.state = "refunded", !.actual = z]
                                       IN  x \in OperationRow /\ x.state = "refunded"
      BY <1>1 DEF OperationRow, States
    <3>2. 0 \in 0..MaxWalletQuota
      BY MaxWalletQuotaAssumption
    <3> QED BY <3>1, <3>2
  <2>2. operation' = [operation EXCEPT ![r] = row] /\ operation[r].state = "reserved"
    BY <1>8 DEF RefundOperation
  <2> HIDE DEF row
  <2>3. MeteredBill' = [MeteredBill EXCEPT ![r] = [state |-> "waived", amount |-> 0]]
    BY <1>1, <2>1, <2>2, OneBill, BillOfRow
  <2>4. MeteredBill[r].state = "open"
    BY <1>1, <1>2, <2>2, BillOfRow
  <2>5. \E a \in Int : TRUE
    OBVIOUS
  <2>6. UNCHANGED MeteredSpent
    BY <1>5, <1>8, <2>5
  <2> QED BY <2>3, <2>4, <2>6 DEF M!Waive
<1> QED BY <1>4, <1>6, <1>7, <1>8 DEF LedgerMove, ReservationStep, M!Next

(* The first state of the requests is the first state of Metering.         *)
LEMMA MeteringFirst == Init => M!Init
<1> SUFFICES ASSUME Init PROVE M!Init
  OBVIOUS
<1>1. \A r \in Ops : operation[r] = [state |-> "absent", reserved |-> 0, actual |-> 0]
  BY DEF Init, LedgerInit
<1>2. MeteredBill = [r \in Ops |-> M!Unbilled]
  BY <1>1 DEF MeteredBill, M!Unbilled
<1>3. ASSUME NEW u \in Users PROVE Opening[u] - quota[u] - Held(u) = 0
  <2>1. OpenOperations(u) = {}
    BY <1>1 DEF OpenOperations
  <2>2. Held(u) = 0
    BY <2>1, SumEmpty DEF Held
  <2>3. quota[u] = Opening[u] /\ Opening[u] \in Int
    BY OpeningAssumption, MaxWalletQuotaAssumption DEF Init, LedgerInit
  <2> QED BY <2>2, <2>3
<1>4. MeteredSpent = [u \in Users |-> 0]
  BY <1>3 DEF MeteredSpent
<1> QED BY <1>2, <1>4 DEF M!Init

(* Any number of concurrent requests, with reservations, extensions,       *)
(* fallbacks, faults, retries and crashes, is metered billing: each is     *)
(* paid or waived at most once and a customer spends exactly what is paid  *)
(* (FinishBillingOperation is the only place that ends an operation).      *)
THEOREM RequestsAreMetered == Spec => ImplementsMetering
<1>1. LedgerOK /\ LedgerOK' /\ [Next]_vars => [M!Next]_<<MeteredBill, MeteredSpent>>
  <2> SUFFICES ASSUME LedgerOK, LedgerOK', [Next]_vars PROVE [M!Next]_<<MeteredBill, MeteredSpent>>
    OBVIOUS
  <2>1. CASE UNCHANGED vars
    BY <2>1 DEF MeteredBill, MeteredSpent, Held, OpenOperations, ledgerVars, vars
  <2>2. CASE Next
    BY <2>2, RequestMove, MeteringMove DEF Next, RequestMoves
  <2> QED BY <2>1, <2>2
<1> QED BY MeteringFirst, <1>1, LedgerInvariant, PTL DEF Spec, ImplementsMetering, M!Spec

-----------------------------------------------------------------------------
(* While an extension is being paid for, it is part of what the session    *)
(* counts as consumed, so that rolling it back leaves no negative count.   *)
Extending(s) ==
  s.pc \in {"topup", "topdown"} => s.arg \in Nat /\ (s.source = "wallet" => s.arg <= s.consumed)

SessionTypes == SessionTypeOK /\ \A r \in Ops : Extending(session[r])

RowOK(s) == s \in SessionRow /\ Extending(s)

(* What the session counts as consumed from the wallet is what it believes *)
(* to have pre-consumed, plus an extension that is being paid for.         *)
Balanced(s) ==
  s.source = "wallet" =>
    /\ s.pc = "open" => s.consumed = s.preConsumedQuota
    /\ s.pc \in {"topup", "topdown"} => s.consumed = s.preConsumedQuota + s.arg

(* Rolling an extension back at the funding source works.                  *)
SafeRollback == {"rollback", "rollback_lost"} \cap FaultPoints = {}

(* The request has not tried to settle.                                    *)
Early(s) == s.pc \in {"new", "check", "token", "fund", "unfund", "open", "topup", "topdown", "failed"}

Follows(s, row) ==
  /\ RowOK(row)
  /\ SafeRollback /\ Balanced(s) => Balanced(row)
  /\ Early(row) => Early(s)

SessionChange(r) == \E row : Set(r, row) /\ Follows(session[r], row)

(* The rows a handler leaves behind are session rows.                      *)
LEMMA HandlerRows ==
  ASSUME NEW s \in SessionRow
  PROVE  /\ \A pc \in Steps : [s EXCEPT !.pc = pc] \in SessionRow
         /\ \A pc \in Steps, b \in BOOLEAN : [s EXCEPT !.pc = pc, !.trusted = b] \in SessionRow
         /\ \A pc \in Steps, b \in BOOLEAN : [s EXCEPT !.pc = pc, !.retriable = b] \in SessionRow
         /\ \A pc \in Steps, q \in Nat : [s EXCEPT !.pc = pc, !.tokenConsumed = q] \in SessionRow
         /\ \A pc \in Steps, f \in Sources : [s EXCEPT !.pc = pc, !.source = f] \in SessionRow
         /\ \A pc \in Steps, f \in Sources, q \in Nat, b \in BOOLEAN :
              [s EXCEPT !.pc = pc, !.source = f, !.asked = q, !.tokenTrusted = b] \in SessionRow
         /\ \A pc \in Steps, p, c \in Nat : [s EXCEPT !.pc = pc, !.preConsumedQuota = p, !.consumed = c] \in SessionRow
         /\ \A pc \in Steps, d \in Int, c \in Nat : [s EXCEPT !.pc = pc, !.arg = d, !.consumed = c] \in SessionRow
         /\ \A pc \in Steps, d \in Int : [s EXCEPT !.pc = pc, !.arg = d] \in SessionRow
         /\ \A pc \in Steps, d \in Int, b \in BOOLEAN : [s EXCEPT !.pc = pc, !.arg = d, !.fundingSettled = b] \in SessionRow
         /\ \A pc \in Steps, b \in BOOLEAN : [s EXCEPT !.pc = pc, !.settled = b] \in SessionRow
         /\ \A pc \in Steps, d \in Int, p, t, e \in Nat :
              [s EXCEPT !.pc = pc, !.arg = d, !.preConsumedQuota = p, !.tokenConsumed = t, !.extraReserved = e] \in SessionRow
         /\ \A pc \in Steps, b \in BOOLEAN, f \in RefundSteps :
              [s EXCEPT !.pc = pc, !.refunded = b, !.refund = f] \in SessionRow
         /\ \A pc \in Steps, f \in RefundSteps : [s EXCEPT !.pc = pc, !.refund = f] \in SessionRow
         /\ \A q \in Nat, b \in BOOLEAN : [s EXCEPT !.tokenConsumed = q, !.trusted = b] \in SessionRow
         /\ \A f \in RefundSteps : [s EXCEPT !.refund = f] \in SessionRow
         /\ \A f \in RefundSteps, n \in 0..maxAttempts-1 : [s EXCEPT !.tries = n, !.refund = f] \in SessionRow
         /\ \A n \in 0..maxAttempts-1 : [s EXCEPT !.tries = n] \in SessionRow
BY ZenonT(60) DEF SessionRow

(* The rows of a request that goes on to a step other than an extension or *)
(* the open session.                                                       *)
LEMMA PlainFollows ==
  ASSUME NEW s \in SessionRow, NEW row \in SessionRow, row.pc \notin {"open", "topup", "topdown"},
         Early(row) => Early(s)
  PROVE  Follows(s, row)
BY DEF Follows, RowOK, Extending, Balanced

(* The rows of a refund, which leaves the session as the handler left it.  *)
LEMMA RefundFollows ==
  ASSUME NEW s \in SessionRow, Extending(s), NEW row \in SessionRow, row.pc = s.pc, row.source = s.source, row.arg = s.arg,
         row.consumed = s.consumed, row.preConsumedQuota = s.preConsumedQuota
  PROVE  Follows(s, row)
BY DEF Follows, RowOK, Extending, Balanced, Early

(* A source that was insufficient sends the request on, or it fails.       *)
LEMMA FallbackFollows ==
  ASSUME NEW s \in SessionRow, NEW r, NEW t \in SessionRow, t.pc = s.pc, Early(s)
  PROVE  Follows(s, Fallback(r, t))
<1>1. Fallback(r, t) \in {[t EXCEPT !.pc = "token", !.source = "subscription"],
                          [t EXCEPT !.pc = "check", !.source = "wallet"], [t EXCEPT !.pc = "failed"]}
  BY DEF Fallback
<1>2. Fallback(r, t) \in SessionRow
  <2>1. [t EXCEPT !.pc = "token", !.source = "subscription"] \in SessionRow
    BY HandlerRows DEF Steps, Sources
  <2>2. [t EXCEPT !.pc = "check", !.source = "wallet"] \in SessionRow
    BY HandlerRows DEF Steps, Sources
  <2>3. [t EXCEPT !.pc = "failed"] \in SessionRow
    BY HandlerRows DEF Steps
  <2> QED BY <1>1, <2>1, <2>2, <2>3, Zenon
<1>3. Fallback(r, t).pc \in {"token", "check", "failed"}
  BY <1>1 DEF SessionRow
<1> QED BY <1>2, <1>3, PlainFollows

(* What a session asks for and reserves is a number.                       *)
LEMMA AmountsAreNat ==
  ASSUME NEW s \in SessionRow
  PROVE  /\ Want(s) \in Nat /\ Effective(s) \in Nat
         /\ s.asked \in Nat /\ s.preConsumedQuota \in Nat /\ s.consumed \in Nat /\ s.tokenConsumed \in Nat
         /\ s.extraReserved \in Nat /\ s.arg \in Int /\ s.pc \in Steps /\ s.tries \in 0..maxAttempts-1
BY DEF SessionRow, Want, Effective

(* Pre-consumption moves the session from step to step.                    *)
LEMMA PreConsumeChange ==
  ASSUME SessionTypes, NEW r \in Ops,
         \/ \E q \in Asked : NewBillingSession(r, q)
         \/ CheckWallet(r) \/ PreConsumeTokenQuota(r) \/ PreConsumeFunding(r) \/ RollbackToken(r)
  PROVE  SessionChange(r)
<1> DEFINE s == session[r]
<1>0. s \in SessionRow /\ Extending(s)
  BY DEF SessionTypes, SessionTypeOK
<1>1. ASSUME NEW q \in Asked, NewBillingSession(r, q) PROVE SessionChange(r)
  <2> DEFINE source == FirstSource(r)
             trust == TokenOf[r] \in Unlimited \/ RemainOf(r) > TrustQuota
             row == [s EXCEPT !.pc = IF source = "wallet" THEN "check" ELSE "token",
                              !.source = source, !.asked = q, !.tokenTrusted = trust]
  <2>1. source \in Sources /\ q \in Nat /\ trust \in BOOLEAN
    BY BoundAssumption DEF FirstSource, Sources
  <2>2. row \in SessionRow
    <3> HIDE DEF source, trust
    <3> QED BY <1>0, <2>1, HandlerRows, ZenonT(60) DEF Steps
  <2>3. row.pc \in {"check", "token"} /\ s.pc = "new"
    BY <1>0, <1>1 DEF SessionRow, NewBillingSession, At
  <2>4. Set(r, row)
    BY <1>1 DEF NewBillingSession
  <2> HIDE DEF row
  <2> QED BY <1>0, <2>2, <2>3, <2>4, PlainFollows DEF SessionChange, Early
<1>2. CASE CheckWallet(r)
  <2>1. s.pc = "check" /\ Early(s)
    BY <1>2 DEF CheckWallet, At, Early
  <2>2. CASE Set(r, Fallback(r, s))
    BY <1>0, <2>1, <2>2, FallbackFollows DEF SessionChange
  <2>3. CASE Set(r, [s EXCEPT !.pc = "token", !.trusted = ShouldTrust(r)])
    <3> DEFINE row == [s EXCEPT !.pc = "token", !.trusted = ShouldTrust(r)]
    <3>1. ShouldTrust(r) \in BOOLEAN
      BY DEF ShouldTrust
    <3>2. row \in SessionRow /\ row.pc = "token"
      <4>1. row \in SessionRow
        BY <1>0, <3>1, HandlerRows DEF Steps
      <4> QED BY <1>0, <4>1 DEF SessionRow
    <3> HIDE DEF row
    <3>3. Set(r, row)
      BY <2>3 DEF row
    <3> QED BY <1>0, <2>1, <3>2, <3>3, PlainFollows DEF SessionChange
  <2> QED BY <1>2, <2>2, <2>3 DEF CheckWallet
<1>3. CASE PreConsumeTokenQuota(r)
  <2>1. s.pc = "token" /\ Early(s)
    BY <1>3 DEF PreConsumeTokenQuota, At, Early
  <2>2. PICK row \in {[s EXCEPT !.pc = "fund", !.tokenConsumed = Effective(s)], [s EXCEPT !.pc = "failed"]} : Set(r, row)
    BY <1>3 DEF PreConsumeTokenQuota
  <2>3. row \in SessionRow
    <3>1. [s EXCEPT !.pc = "fund", !.tokenConsumed = Effective(s)] \in SessionRow
      BY <1>0, HandlerRows, AmountsAreNat DEF Steps
    <3>2. [s EXCEPT !.pc = "failed"] \in SessionRow
      BY <1>0, HandlerRows DEF Steps
    <3> QED BY <2>2, <3>1, <3>2, Zenon
  <2>4. row.pc \in {"fund", "failed"}
    BY <1>0, <2>2 DEF SessionRow
  <2> QED BY <1>0, <2>1, <2>2, <2>3, <2>4, PlainFollows DEF SessionChange
<1>4. CASE PreConsumeFunding(r)
  <2>1. s.pc = "fund" /\ Early(s)
    BY <1>4 DEF PreConsumeFunding, At, Early
  <2>2. CASE FundingReserved(r)
    <3> DEFINE c == IF s.source = "wallet" THEN Effective(s) ELSE 0
               row == [s EXCEPT !.pc = "open", !.preConsumedQuota = Effective(s), !.consumed = c]
    <3>1. row \in SessionRow
      BY <1>0, HandlerRows, AmountsAreNat, ZenonT(60) DEF Steps
    <3>2. row.pc = "open" /\ row.source = s.source /\ row.preConsumedQuota = Effective(s) /\ row.consumed = c
      BY <1>0 DEF SessionRow
    <3>3. Set(r, row)
      BY <2>2 DEF FundingReserved
    <3> HIDE DEF row
    <3>4. Follows(s, row)
      BY <2>1, <3>1, <3>2 DEF Follows, RowOK, Extending, Balanced
    <3> QED BY <3>3, <3>4 DEF SessionChange
  <2>3. ASSUME NEW b \in BOOLEAN, FundingRefused(r, b) PROVE SessionChange(r)
    <3> DEFINE row == [s EXCEPT !.pc = "unfund", !.retriable = b]
    <3>1. row \in SessionRow
      BY <1>0, HandlerRows DEF Steps
    <3>2. row.pc = "unfund"
      BY <1>0 DEF SessionRow
    <3>3. Set(r, row)
      BY <2>3 DEF FundingRefused
    <3> HIDE DEF row
    <3> QED BY <1>0, <2>1, <3>1, <3>2, <3>3, PlainFollows DEF SessionChange
  <2> QED BY <1>4, <2>2, <2>3 DEF PreConsumeFunding
<1>5. CASE RollbackToken(r)
  <2> DEFINE t == [s EXCEPT !.tokenConsumed = 0, !.trusted = FALSE]
  <2>1. s.pc = "unfund" /\ Early(s)
    BY <1>5 DEF RollbackToken, At, Early
  <2>2. t \in SessionRow /\ t.pc = s.pc
    <3>1. t \in SessionRow
      BY <1>0, HandlerRows
    <3> QED BY <1>0, <3>1 DEF SessionRow
  <2>3. Set(r, IF t.retriable THEN Fallback(r, t) ELSE [t EXCEPT !.pc = "failed"])
    BY <1>5 DEF RollbackToken
  <2> HIDE DEF t
  <2>4. [t EXCEPT !.pc = "failed"] \in SessionRow /\ [t EXCEPT !.pc = "failed"].pc = "failed"
    <3>1. [t EXCEPT !.pc = "failed"] \in SessionRow
      BY <2>2, HandlerRows DEF Steps
    <3> QED BY <2>2, <3>1 DEF SessionRow
  <2>5. Follows(s, [t EXCEPT !.pc = "failed"])
    BY <1>0, <2>1, <2>4, PlainFollows
  <2>6. Follows(s, Fallback(r, t))
    BY <1>0, <2>1, <2>2, FallbackFollows
  <2> QED BY <2>3, <2>5, <2>6 DEF SessionChange
<1> QED BY <1>1, <1>2, <1>3, <1>4, <1>5

(* Extensions of the reservation keep the two counts of the session in     *)
(* step, as long as the roll-back at the funding source works.             *)
LEMMA ReserveChange ==
  ASSUME SessionTypes, NEW r \in Ops,
         (\E target \in Amounts : ReserveFunding(r, target)) \/ ReserveToken(r) \/ RollbackFundingReserve(r)
  PROVE  SessionChange(r)
<1> DEFINE s == session[r]
<1>0. /\ s \in SessionRow /\ Extending(s) /\ session \in [Ops -> SessionRow]
      /\ s.preConsumedQuota \in Nat /\ s.consumed \in Nat /\ s.tokenConsumed \in Nat
      /\ s.extraReserved \in Nat /\ s.arg \in Int
  BY AmountsAreNat DEF SessionTypes, SessionTypeOK
<1>1. ASSUME NEW target \in Amounts, ReserveFunding(r, target) PROVE SessionChange(r)
  <2> DEFINE d == target - s.preConsumedQuota
             c == IF s.source = "wallet" THEN s.consumed + d ELSE s.consumed
             row == [s EXCEPT !.pc = "topup", !.arg = d, !.consumed = c]
  <2>1. d \in Nat /\ d \in Int /\ c \in Nat /\ s.pc = "open" /\ (s.source = "wallet" => c = s.consumed + d)
    <3>1. s.pc = "open" /\ target > s.preConsumedQuota /\ target \in Nat
      BY <1>1, AmountsAssumption DEF ReserveFunding, At
    <3>2. d \in Nat /\ d \in Int
      BY <1>0, <3>1
    <3> QED BY <1>0, <3>1, <3>2
  <2>2. Set(r, row) \/ UNCHANGED session
    BY <1>1 DEF ReserveFunding
  <2>3. UNCHANGED session => Set(r, s) /\ Follows(s, s)
    BY <1>0 DEF Set, Follows, RowOK
  <2> HIDE DEF d, c
  <2>4. row \in SessionRow
    <3>1. "topup" \in Steps
      BY DEF Steps
    <3> QED BY <1>0, <2>1, <3>1, HandlerRows, Zenon
  <2>5. row.pc = "topup" /\ row.source = s.source /\ row.arg = d /\ row.consumed = c /\ row.preConsumedQuota = s.preConsumedQuota
    BY <1>0 DEF SessionRow
  <2> HIDE DEF row
  <2>6. Follows(s, row)
    BY <1>0, <2>1, <2>4, <2>5 DEF Follows, RowOK, Extending, Balanced, Early
  <2> QED BY <2>2, <2>3, <2>6 DEF SessionChange
<1>2. CASE ReserveToken(r)
  <2> DEFINE row == [s EXCEPT !.pc = "open", !.arg = 0, !.preConsumedQuota = @ + s.arg,
                              !.tokenConsumed = @ + s.arg, !.extraReserved = @ + s.arg]
             down == [s EXCEPT !.pc = "topdown"]
  <2>1. s.pc = "topup" /\ s.arg \in Nat
    BY <1>0, <1>2 DEF ReserveToken, At, Extending
  <2>2. Set(r, row) \/ Set(r, down)
    BY <1>2 DEF ReserveToken
  <2>3. row \in SessionRow /\ down \in SessionRow
    <3>1. down \in SessionRow
      BY <1>0, HandlerRows DEF Steps
    <3>2. row \in SessionRow
      <4>1. /\ "open" \in Steps /\ 0 \in Int /\ s.preConsumedQuota + s.arg \in Nat
            /\ s.tokenConsumed + s.arg \in Nat /\ s.extraReserved + s.arg \in Nat
        BY <1>0, <2>1 DEF Steps
      <4> QED BY <1>0, <2>1, <4>1, HandlerRows, Zenon
    <3> QED BY <3>1, <3>2
  <2>4. row.pc = "open" /\ row.source = s.source /\ row.consumed = s.consumed /\ row.preConsumedQuota = s.preConsumedQuota + s.arg
    BY <1>0 DEF SessionRow
  <2>5. /\ down.pc = "topdown" /\ down.source = s.source /\ down.consumed = s.consumed
        /\ down.preConsumedQuota = s.preConsumedQuota /\ down.arg = s.arg
    BY <1>0 DEF SessionRow
  <2> HIDE DEF row, down
  <2>6. Follows(s, row)
    BY <1>0, <2>1, <2>3, <2>4 DEF Follows, RowOK, Extending, Balanced, Early
  <2>7. Follows(s, down)
    BY <1>0, <2>1, <2>3, <2>5 DEF Follows, RowOK, Extending, Balanced, Early
  <2> QED BY <2>2, <2>6, <2>7 DEF SessionChange
<1>3. CASE RollbackFundingReserve(r)
  <2> DEFINE kept == [s EXCEPT !.pc = "open", !.arg = 0]
             c == IF s.source = "wallet" THEN s.consumed - s.arg ELSE s.consumed
             undone == [s EXCEPT !.pc = "open", !.arg = 0, !.consumed = c]
  <2>1. s.pc = "topdown" /\ s.arg \in Nat /\ c \in Nat
    BY <1>0, <1>3 DEF RollbackFundingReserve, At, Extending
  <2>2. Set(r, undone) \/ (~SafeRollback /\ Set(r, kept))
    <3>1. [kept EXCEPT !.consumed = IF s.source = "wallet" THEN @ - s.arg ELSE @] = undone
      BY <1>0 DEF SessionRow
    <3> HIDE DEF undone
    <3>2. Fault("rollback") \/ Fault("rollback_lost") => ~SafeRollback
      BY DEF Fault, SafeRollback
    <3> QED BY <1>3, <3>1, <3>2 DEF RollbackFundingReserve, Failed
  <2> HIDE DEF c
  <2>3. undone \in SessionRow /\ kept \in SessionRow
    <3>1. undone \in SessionRow
      <4>1. "open" \in Steps /\ 0 \in Int
        BY DEF Steps
      <4> QED BY <1>0, <2>1, <4>1, HandlerRows, Zenon
    <3>2. kept \in SessionRow
      <4>1. "open" \in Steps /\ 0 \in Int
        BY DEF Steps
      <4> QED BY <1>0, <2>1, <4>1, HandlerRows, Zenon
    <3> QED BY <3>1, <3>2
  <2>4. /\ undone.pc = "open" /\ undone.source = s.source /\ undone.consumed = c
        /\ undone.preConsumedQuota = s.preConsumedQuota /\ kept.pc = "open"
    BY <1>0 DEF SessionRow
  <2> HIDE DEF undone, kept
  <2>5. Follows(s, undone)
    BY <1>0, <2>1, <2>3, <2>4 DEF Follows, RowOK, Extending, Balanced, Early, c
  <2>6. ~SafeRollback => Follows(s, kept)
    BY <1>0, <2>1, <2>3, <2>4 DEF Follows, RowOK, Extending, Early
  <2> QED BY <2>2, <2>5, <2>6 DEF SessionChange
<1> QED BY <1>1, <1>2, <1>3

(* Settlement, the decision to refund and a crash end the handler.         *)
LEMMA EndChange ==
  ASSUME SessionTypes, NEW r \in Ops,
         \/ \E actual \in Usages : SettleFunding(r, actual)
         \/ SettleToken(r) \/ LogSettlementError(r) \/ Refund(r) \/ Crash(r)
  PROVE  SessionChange(r)
<1> DEFINE s == session[r]
<1>0. s \in SessionRow /\ s.preConsumedQuota \in Nat
  BY AmountsAreNat DEF SessionTypes, SessionTypeOK
<1>1. ASSUME NEW row \in SessionRow, row.pc \in {"settle", "unsettled", "closed", "crashed"}, Set(r, row)
      PROVE  SessionChange(r)
  BY <1>0, <1>1, PlainFollows DEF SessionChange, Early
<1>2. ASSUME NEW pc \in {"unsettled", "closed"}, Set(r, [s EXCEPT !.pc = pc]) PROVE SessionChange(r)
  <2>1. [s EXCEPT !.pc = pc] \in SessionRow
    BY <1>0, HandlerRows DEF Steps
  <2>2. [s EXCEPT !.pc = pc].pc = pc
    BY <1>0 DEF SessionRow
  <2> QED BY <1>1, <1>2, <2>1, <2>2
<1>3. ASSUME NEW actual \in Usages, SettleFunding(r, actual) PROVE SessionChange(r)
  <2> DEFINE d == actual - s.preConsumedQuota
             row == [s EXCEPT !.pc = "settle", !.arg = d, !.fundingSettled = TRUE]
  <2>1. d \in Int
    BY <1>0, BoundAssumption
  <2>2. Set(r, row) \/ Set(r, [s EXCEPT !.pc = "unsettled"])
    BY <1>3 DEF SettleFunding
  <2> HIDE DEF d
  <2>3. row \in SessionRow
    BY <1>0, <2>1, HandlerRows DEF Steps
  <2>4. row.pc = "settle"
    BY <1>0 DEF SessionRow
  <2> HIDE DEF row
  <2> QED BY <1>1, <1>2, <2>2, <2>3, <2>4
<1>4. CASE SettleToken(r)
  <2> DEFINE row == [s EXCEPT !.pc = "closed", !.settled = TRUE]
  <2>1. row \in SessionRow
    BY <1>0, HandlerRows DEF Steps
  <2>2. row.pc = "closed"
    BY <1>0 DEF SessionRow
  <2>3. Set(r, row)
    BY <1>4 DEF SettleToken
  <2> HIDE DEF row
  <2> QED BY <1>1, <2>1, <2>2, <2>3
<1>5. CASE LogSettlementError(r)
  BY <1>2, <1>5 DEF LogSettlementError
<1>6. CASE Refund(r)
  <2> DEFINE row == [s EXCEPT !.pc = "closed", !.refunded = TRUE, !.refund = "funding"]
  <2>1. row \in SessionRow
    BY <1>0, HandlerRows DEF Steps, RefundSteps
  <2>2. row.pc = "closed"
    BY <1>0 DEF SessionRow
  <2>3. Set(r, row)
    BY <1>6 DEF Refund
  <2> HIDE DEF row
  <2> QED BY <1>1, <2>1, <2>2, <2>3
<1>7. CASE Crash(r)
  <2> DEFINE row == [s EXCEPT !.pc = "crashed", !.refund = "idle"]
  <2>1. row \in SessionRow
    BY <1>0, HandlerRows DEF Steps, RefundSteps
  <2>2. row.pc = "crashed"
    BY <1>0 DEF SessionRow
  <2>3. Set(r, row)
    BY <1>7 DEF Crash
  <2> HIDE DEF row
  <2> QED BY <1>1, <2>1, <2>2, <2>3
<1> QED BY <1>3, <1>4, <1>5, <1>6, <1>7

(* What the refund goroutine writes of a session: how far it is, never     *)
(* beyond maxAttempts.                                                     *)
LEMMA RefundRows ==
  ASSUME NEW s \in SessionRow, Extending(s)
  PROVE  /\ \A f \in RefundSteps : Follows(s, [s EXCEPT !.refund = f])
         /\ Follows(s, AfterFunding(s)) /\ Follows(s, AttemptFailed(s))
<1>1. \A f \in RefundSteps : Follows(s, [s EXCEPT !.refund = f])
  <2> TAKE f \in RefundSteps
  <2> DEFINE row == [s EXCEPT !.refund = f]
  <2> SUFFICES Follows(s, row)
    OBVIOUS
  <2>1. row \in SessionRow
    BY HandlerRows
  <2>2. /\ row.pc = s.pc /\ row.source = s.source /\ row.arg = s.arg
        /\ row.consumed = s.consumed /\ row.preConsumedQuota = s.preConsumedQuota
    BY DEF SessionRow
  <2> HIDE DEF row
  <2> QED BY <2>1, <2>2, RefundFollows, Zenon
<1>2. ASSUME NEW f \in RefundSteps, NEW n \in 0..maxAttempts-1 PROVE Follows(s, [s EXCEPT !.tries = n, !.refund = f])
  <2> DEFINE row == [s EXCEPT !.tries = n, !.refund = f]
  <2> SUFFICES Follows(s, row)
    OBVIOUS
  <2>1. row \in SessionRow
    BY HandlerRows
  <2>2. /\ row.pc = s.pc /\ row.source = s.source /\ row.arg = s.arg
        /\ row.consumed = s.consumed /\ row.preConsumedQuota = s.preConsumedQuota
    BY DEF SessionRow
  <2> HIDE DEF row
  <2> QED BY <2>1, <2>2, RefundFollows, Zenon
<1>3. PICK f \in RefundSteps : AfterFunding(s) = [s EXCEPT !.refund = f]
  BY DEF AfterFunding, RefundSteps
<1>4. s.tries \in 0..maxAttempts-1 /\ maxAttempts \in Nat /\ 0 \in 0..maxAttempts-1
  BY AmountsAreNat DEF maxAttempts
<1>5. CASE s.tries + 1 = maxAttempts
  <2>1. AttemptFailed(s) = [[s EXCEPT !.refund = f] EXCEPT !.tries = 0]
    BY <1>3, <1>5 DEF AttemptFailed
  <2>2. [[s EXCEPT !.refund = f] EXCEPT !.tries = 0] = [s EXCEPT !.tries = 0, !.refund = f]
    BY DEF SessionRow
  <2> QED BY <1>1, <1>2, <1>3, <1>4, <2>1, <2>2
<1>6. CASE s.tries + 1 # maxAttempts
  <2>1. s.tries + 1 \in 0..maxAttempts-1 /\ "funding" \in RefundSteps
    BY <1>4, <1>6 DEF maxAttempts, RefundSteps
  <2>2. AttemptFailed(s) = [s EXCEPT !.tries = s.tries + 1, !.refund = "funding"]
    BY <1>6 DEF AttemptFailed
  <2> QED BY <1>1, <1>2, <1>3, <2>1, <2>2, ZenonT(60)
<1> QED BY <1>1, <1>5, <1>6, <1>3

(* The refund goroutine only records how far it is.                        *)
LEMMA RefundChange ==
  ASSUME SessionTypes, NEW r \in Ops, RefundStep(r)
  PROVE  SessionChange(r)
<1> DEFINE s == session[r]
<1>0. s \in SessionRow /\ Extending(s)
  BY DEF SessionTypes, SessionTypeOK
<1>1. \/ \E f \in RefundSteps : Set(r, [s EXCEPT !.refund = f])
      \/ Set(r, AfterFunding(s)) \/ Set(r, AttemptFailed(s))
  <2>1. CASE RefundWallet(r)
    BY <2>1 DEF RefundWallet
  <2>2. CASE RefundSubscription(r)
    BY <2>2 DEF RefundSubscription, RefundSteps
  <2>3. CASE RefundExtraReserved(r)
    BY <2>3 DEF RefundExtraReserved, RefundSteps
  <2>4. CASE RefundToken(r)
    BY <2>4 DEF RefundToken, RefundSteps
  <2> QED BY <2>1, <2>2, <2>3, <2>4 DEF RefundStep
<1> QED BY <1>0, <1>1, RefundRows DEF SessionChange

(* Every step of a request rewrites its own session.                       *)
LEMMA StepChange ==
  ASSUME SessionTypes, NEW r \in Ops, RequestMoves(r)
  PROVE  SessionChange(r)
BY PreConsumeChange, ReserveChange, EndChange, RefundChange DEF RequestMoves, HandlerStep

(* Token quotas, usages and the number of faults keep their types.         *)
LEMMA BooksTyped ==
  ASSUME SessionTypes, NEW r \in Ops, RequestMoves(r)
  PROVE  token' \in [Tokens -> Int] /\ usage' \in [Ops -> Nat] /\ faults' \in 0..MaxFaults
<1> DEFINE s == session[r]
<1>0. /\ s \in SessionRow /\ token \in [Tokens -> Int] /\ usage \in [Ops -> Nat] /\ faults \in 0..MaxFaults
      /\ TokenOf[r] \in Tokens
  BY TokenAssumption DEF SessionTypes, SessionTypeOK
<1>1. s.tokenConsumed \in Int /\ s.arg \in Int /\ -s.arg \in Int /\ -Effective(s) \in Int
  BY <1>0, AmountsAreNat
<1>2. ASSUME NEW d \in Int, ChangeToken(r, d) PROVE token' \in [Tokens -> Int]
  BY <1>0, <1>2 DEF ChangeToken
<1>3. ASSUME UNCHANGED token PROVE token' \in [Tokens -> Int]
  BY <1>0, <1>3
<1>4. token' \in [Tokens -> Int]
  <2>1. CASE PreConsumeTokenQuota(r)
    BY <1>1, <1>2, <1>3, <2>1 DEF PreConsumeTokenQuota
  <2>2. CASE RollbackToken(r)
    BY <1>1, <1>2, <1>3, <2>2 DEF RollbackToken
  <2>3. CASE ReserveToken(r)
    BY <1>1, <1>2, <1>3, <2>3 DEF ReserveToken
  <2>4. CASE SettleToken(r)
    BY <1>1, <1>2, <1>3, <2>4 DEF SettleToken
  <2>5. CASE RefundToken(r)
    BY <1>1, <1>2, <1>3, <2>5 DEF RefundToken
  <2>6. ASSUME \/ \E q \in Asked : NewBillingSession(r, q)
               \/ CheckWallet(r) \/ PreConsumeFunding(r) \/ RollbackFundingReserve(r)
               \/ \E target \in Amounts : ReserveFunding(r, target)
               \/ \E actual \in Usages : SettleFunding(r, actual)
               \/ LogSettlementError(r) \/ Refund(r)
               \/ RefundWallet(r) \/ RefundSubscription(r) \/ RefundExtraReserved(r) \/ Crash(r)
        PROVE  UNCHANGED token
    BY <2>6 DEF NewBillingSession, CheckWallet, PreConsumeFunding, RollbackFundingReserve, ReserveFunding, SettleFunding,
       LogSettlementError, Refund, RefundWallet, RefundSubscription, RefundExtraReserved, Crash
  <2> QED BY <1>3, <2>1, <2>2, <2>3, <2>4, <2>5, <2>6 DEF RequestMoves, HandlerStep, RefundStep
<1>5. usage' \in [Ops -> Nat]
  <2>1. ASSUME NEW actual \in Usages, SettleFunding(r, actual) PROVE usage' \in [Ops -> Nat]
    BY <1>0, <2>1, BoundAssumption DEF SettleFunding
  <2> QED BY <1>0, <2>1, RequestCases
<1>6. faults' \in 0..MaxFaults
  <2>1. ASSUME NEW point, Fault(point) PROVE faults' \in 0..MaxFaults
    BY <1>0, <2>1, BoundAssumption DEF Fault
  <2>2. ASSUME NoFault \/ UNCHANGED faults PROVE faults' \in 0..MaxFaults
    BY <1>0, <2>2 DEF NoFault
  <2>3. ASSUME HandlerStep(r) PROVE NoFault \/ UNCHANGED faults \/ \E point : Fault(point)
    BY <2>3 DEF HandlerStep, NewBillingSession, CheckWallet, PreConsumeTokenQuota, PreConsumeFunding, RollbackToken,
       ReserveFunding, ReserveToken, RollbackFundingReserve, SettleFunding, SettleToken, LogSettlementError, Refund, Failed
  <2>4. ASSUME RefundStep(r) \/ Crash(r) PROVE NoFault \/ UNCHANGED faults \/ \E point : Fault(point)
    BY <2>4 DEF RefundStep, RefundWallet, RefundSubscription, RefundExtraReserved, RefundToken, Crash
  <2> QED BY <2>1, <2>2, <2>3, <2>4 DEF RequestMoves
<1> QED BY <1>4, <1>5, <1>6

(* The session types are inductive.                                        *)
LEMMA SessionTypesStep ==
  ASSUME SessionTypes, [Next]_vars
  PROVE  SessionTypes'
<1>1. CASE UNCHANGED vars
  BY <1>1 DEF vars, sessionVars, SessionTypes, SessionTypeOK
<1>2. ASSUME NEW r \in Ops, RequestMoves(r) PROVE SessionTypes'
  <2>1. PICK row : session' = [session EXCEPT ![r] = row] /\ RowOK(row)
    BY <1>2, StepChange DEF SessionChange, Set, Follows
  <2>2. session \in [Ops -> SessionRow] /\ \A p \in Ops : Extending(session[p])
    BY DEF SessionTypes, SessionTypeOK
  <2>3. session' \in [Ops -> SessionRow] /\ \A p \in Ops : session'[p] = IF p = r THEN row ELSE session[p]
    BY <2>1, <2>2 DEF RowOK
  <2>4. \A p \in Ops : Extending(session'[p])
    BY <2>1, <2>2, <2>3 DEF RowOK
  <2> QED BY <1>2, <2>3, <2>4, BooksTyped DEF SessionTypes, SessionTypeOK
<1> QED BY <1>1, <1>2 DEF Next, RequestMoves

(* The first session of every request is empty.                            *)
LEMMA SessionFirst == Init => SessionTypes /\ \A r \in Ops : session[r] = NewSession
<1> SUFFICES ASSUME Init PROVE SessionTypes /\ \A r \in Ops : session[r] = NewSession
  OBVIOUS
<1>1. NewSession \in SessionRow /\ NewSession.pc = "new"
  BY DEF NewSession, SessionRow, Steps, Sources, RefundSteps, maxAttempts
<1>2. session = [r \in Ops |-> NewSession] /\ token = TokenOpening /\ usage = [r \in Ops |-> 0] /\ faults = 0
  BY DEF Init
<1>3. Extending(NewSession)
  BY <1>1 DEF Extending
<1> QED BY <1>1, <1>2, <1>3, TokenAssumption, BoundAssumption DEF SessionTypes, SessionTypeOK

(* What the proofs below know of the sessions of every reachable state.    *)
LEMMA SessionsTyped == Spec => []SessionTypes
<1>1. Init => SessionTypes
  BY SessionFirst
<1>2. SessionTypes /\ [Next]_vars => SessionTypes'
  BY SessionTypesStep
<1> QED BY <1>1, <1>2, PTL DEF Spec

(* Sessions, tokens and counters keep their types through every fallback,  *)
(* extension, roll-back, fault and crash: no count of a reservation goes   *)
(* below zero and a refund makes at most maxAttempts attempts.             *)
THEOREM SessionTyping == Spec => []SessionTypeOK
<1>1. SessionTypes => SessionTypeOK
  BY DEF SessionTypes
<1> QED BY <1>1, SessionsTyped, PTL

-----------------------------------------------------------------------------
(* A settled operation has charged the usage its request ended with, and   *)
(* that request will not settle again.                                     *)
ChargedUsage(r) ==
  operation[r].state = "settled" => operation[r].actual = usage[r] /\ ~Early(session[r])
ChargeExact == \A r \in Ops : ChargedUsage(r) /\ Balanced(session[r])

(* Every step keeps the counts of the session in step with each other and  *)
(* charges what was used.                                                  *)
LEMMA ChargeExactStep ==
  ASSUME SafeRollback, LedgerOK, SessionTypes, ChargeExact, [Next]_vars
  PROVE  ChargeExact'
<1>0. /\ operation \in [Ops -> OperationRow] /\ session \in [Ops -> SessionRow] /\ usage \in [Ops -> Nat]
  BY DEF LedgerOK, LedgerTypeOK, SessionTypes, SessionTypeOK
<1>1. CASE UNCHANGED vars
  BY <1>1 DEF vars, ledgerVars, sessionVars, ChargeExact, ChargedUsage
<1>2. ASSUME NEW r \in Ops, RequestMoves(r) PROVE ChargeExact'
  <2>1. PICK row : session' = [session EXCEPT ![r] = row] /\ Follows(session[r], row)
    BY <1>2, StepChange DEF SessionChange, Set
  <2>2. \A p \in Ops : session'[p] = IF p = r THEN row ELSE session[p]
    BY <1>0, <2>1
  <2>3. \A p \in Ops : Balanced(session'[p])
    BY <2>1, <2>2 DEF Follows, ChargeExact
  <2>4. ChargedUsage(r) /\ Balanced(session[r])
    BY DEF ChargeExact
  <2>5. ASSUME ReservationStep(r), UNCHANGED usage PROVE \A p \in Ops : ChargedUsage(p)'
    <3>1. ASSUME NEW p \in Ops, operation'[p].state = "settled" PROVE operation'[p] = operation[p]
      <4>1. ASSUME NEW a, BeginBillingOperation(r, a) PROVE operation'[p] = operation[p]
        BY <1>0, <3>1, <4>1 DEF BeginBillingOperation
      <4>2. ASSUME NEW a, ResizeBillingReservation(r, a) PROVE operation'[p] = operation[p]
        BY <1>0, <3>1, <4>2 DEF ResizeBillingReservation, OperationRow
      <4>3. ASSUME RefundOperation(r) PROVE operation'[p] = operation[p]
        BY <1>0, <3>1, <4>3 DEF RefundOperation, OperationRow
      <4> QED BY <2>5, <4>1, <4>2, <4>3 DEF ReservationStep, ledgerVars
    <3>2. \A p \in Ops : Early(session'[p]) => Early(session[p])
      BY <2>1, <2>2 DEF Follows
    <3> QED BY <2>5, <3>1, <3>2 DEF ChargeExact, ChargedUsage
  <2>6. ASSUME NEW actual \in Usages, SettleFunding(r, actual) PROVE \A p \in Ops : ChargedUsage(p)'
    <3> DEFINE s == session[r]
               d == actual - s.preConsumedQuota
    <3>1. s.pc = "open" /\ usage' = [usage EXCEPT ![r] = actual] /\ actual \in Int
      BY <2>6, BoundAssumption DEF SettleFunding, At
    <3>2. operation[r].state # "settled"
      BY <2>4, <3>1 DEF ChargedUsage, Early
    <3>3. ~Early(row)
      <4>1. Set(r, [s EXCEPT !.pc = "settle", !.arg = d, !.fundingSettled = TRUE]) \/ Set(r, [s EXCEPT !.pc = "unsettled"])
        BY <2>6 DEF SettleFunding
      <4>2. row \in {[s EXCEPT !.pc = "settle", !.arg = d, !.fundingSettled = TRUE], [s EXCEPT !.pc = "unsettled"]}
        BY <1>0, <2>2, <4>1 DEF Set
      <4>3. row.pc \in {"settle", "unsettled"}
        BY <1>0, <4>2 DEF SessionRow
      <4> QED BY <4>3 DEF Early
    <3>4. UNCHANGED ledgerVars \/ (s.source = "wallet" /\ FinishBillingOperation(r, s.consumed + d, FALSE))
      BY <2>6 DEF SettleFunding, SettleWith, Failed
    <3>5. s.source = "wallet" => s.consumed + d = actual
      <4>1. s.consumed \in Int /\ s.preConsumedQuota \in Int
        BY <1>0, AmountsAreNat
      <4> QED BY <2>4, <3>1, <4>1 DEF Balanced
    <3>6. UNCHANGED ledgerVars \/ SettleOperation(r, actual)
      <4>1. ~AlreadyFinished(r, actual, FALSE)
        BY <3>2 DEF AlreadyFinished
      <4> HIDE DEF d
      <4> QED BY <3>4, <3>5, <4>1 DEF FinishBillingOperation
    <3>7. ASSUME NEW p \in Ops, p # r PROVE ChargedUsage(p)'
      <4>1. operation'[p] = operation[p] /\ usage'[p] = usage[p] /\ session'[p] = session[p]
        BY <1>0, <2>2, <3>1, <3>6, <3>7 DEF SettleOperation, ledgerVars
      <4> QED BY <4>1 DEF ChargeExact, ChargedUsage
    <3>8. operation'[r].state = "settled" => operation'[r].actual = actual
      BY <1>0, <3>2, <3>6 DEF SettleOperation, ledgerVars, OperationRow
    <3>9. ChargedUsage(r)'
      BY <1>0, <2>2, <3>1, <3>3, <3>8 DEF ChargedUsage
    <3> QED BY <3>7, <3>9
  <2>7. \A p \in Ops : ChargedUsage(p)'
    BY <1>2, <2>5, <2>6, RequestCases
  <2> QED BY <2>3, <2>7 DEF ChargeExact
<1> QED BY <1>1, <1>2 DEF Next, RequestMoves

(* A settled request is charged exactly what it used, whatever was         *)
(* reserved, extended and retried by any number of concurrent requests,    *)
(* provided that an extension the token refuses can be rolled back at the  *)
(* funding source: WalletFunding counts an extension as consumed until the *)
(* roll-back has worked (rollbackFundingReserve only logs its failure).    *)
THEOREM ChargesActual ==
  ASSUME SafeRollback
  PROVE  Spec => []SettledChargesActual
<1>1. Init => ChargeExact
  <2> SUFFICES ASSUME Init PROVE ChargeExact
    OBVIOUS
  <2>1. \A r \in Ops : session[r].source = "none"
    BY SessionFirst DEF NewSession
  <2>2. \A r \in Ops : operation[r].state = "absent"
    BY DEF Init, LedgerInit
  <2> QED BY <2>1, <2>2 DEF ChargeExact, ChargedUsage, Balanced
<1>2. LedgerOK /\ SessionTypes /\ ChargeExact /\ [Next]_vars => ChargeExact'
  BY ChargeExactStep
<1>3. ChargeExact => SettledChargesActual
  BY DEF ChargeExact, ChargedUsage, SettledChargesActual
<1> QED BY <1>1, <1>2, <1>3, LedgerInvariant, SessionsTyped, PTL DEF Spec

-----------------------------------------------------------------------------
(* The books of tokens and funding sources, while no call has failed and   *)
(* no node has stopped.  Where a request is in the life of its money:      *)
(* nothing is taken from its source yet, the reservation is held, the      *)
(* usage is paid, the reservation is partly or entirely given back.        *)
Before(s) == s.pc \in {"new", "check", "token", "fund", "unfund", "failed"}
Paid(s) == s.pc = "settle" \/ s.settled
Returning(s) == s.refund \in {"mark", "extra"}
Returned(s) == s.refund \in {"token", "done"}
Holding(s) == ~Before(s) /\ ~Paid(s) /\ ~Returning(s) /\ ~Returned(s)

(* What the request has taken from its funding source, and what its token  *)
(* has lost to it.                                                         *)
Funded(s) ==
  IF Before(s) \/ Returned(s) THEN 0
  ELSE IF Returning(s) THEN s.extraReserved ELSE s.preConsumedQuota + s.arg
TokenShare(s) ==
  IF s.refund = "done" THEN 0 ELSE s.tokenConsumed + (IF s.settled THEN s.arg ELSE 0)

(* The counts of a session agree with where it is.                         *)
CountsAgree(s) ==
  /\ s.pc # "closed" => s.refund = "idle" /\ ~s.settled
  /\ s.settled => s.refund = "idle"
  /\ s.pc \in {"new", "check"} \/ s.source = "subscription" => ~s.trusted
  /\ s.pc \in {"new", "check", "token", "failed"} => s.tokenConsumed = 0
  /\ s.pc = "fund" => s.tokenConsumed = Effective(s)
  /\ s.pc = "check" => s.source = "wallet"
  /\ s.pc \in {"token", "fund"} => s.source \in {"wallet", "subscription"}
  /\ Before(s) => s.extraReserved = 0
  /\ ~Before(s) => s.source \in {"wallet", "subscription"} /\ s.tokenConsumed = s.preConsumedQuota
  /\ ~Paid(s) /\ s.pc \notin {"topup", "topdown"} => s.arg = 0
  /\ Holding(s) \/ Paid(s) => s.preConsumedQuota + s.arg >= 0
  /\ Returning(s) => s.source = "subscription"
  /\ s.source = "wallet" /\ s.pc \in {"open", "topup", "topdown"} => s.consumed = s.preConsumedQuota + s.arg

(* The operation of the request records what a wallet paid or holds.       *)
WalletAgrees(s, row) ==
  IF s.source # "wallet" \/ Before(s) THEN row.state = "absent"
  ELSE /\ Holding(s) => row.state = "reserved" /\ row.reserved = Funded(s)
       /\ Paid(s) => row.state = "settled" /\ row.actual = Funded(s)
       /\ Returned(s) => row.state = "refunded"

(* The record of the request knows the subscription and the first amount.  *)
RecordAgrees(s, rec) ==
  IF s.source # "subscription" \/ Before(s) THEN rec.status = "none"
  ELSE /\ rec.sub \in Subs
       /\ Holding(s) \/ s.refund = "mark" => rec.status = "consumed"
       /\ Holding(s) => s.preConsumedQuota = rec.amount + s.extraReserved

Charged(k, s, rec) == IF s.source = "subscription" /\ rec.sub = k THEN Funded(s) ELSE 0

Clean == faults = 0 /\ \A r \in Ops : session[r].pc # "crashed"
Agrees(s, row, rec) == CountsAgree(s) /\ WalletAgrees(s, row) /\ RecordAgrees(s, rec)

TokenLoss == [t \in Tokens |-> TokenOpening[t] - token[t]]
TokenShares == [r \in Ops |-> TokenShare(session[r])]
WalletCosts == [r \in Ops |-> WalletCost(r)]
SubsUsed == [k \in Subs |-> subscription[k].used]
Fundings == [r \in Ops |-> Funded(session[r])]
SubCharges(k) == [r \in Ops |-> Charged(k, session[r], preRecord[r])]

RowsAgree == \A r \in Ops : Agrees(session[r], operation[r], preRecord[r])
SubsTyped ==
  /\ subscription \in [Subs -> SubscriptionRow] /\ \A k \in Subs : ~subscription[k].due
  /\ preRecord \in [Ops -> SubscriptionPreConsumeRecord]
BooksAgree ==
  /\ SumFunction(TokenLoss) = SumFunction(TokenShares)
  /\ SumFunction(WalletCosts) + SumFunction(SubsUsed) = SumFunction(Fundings)
  /\ \A k \in Subs : subscription[k].used = SumFunction(SubCharges(k))
CleanBooks == Clean => RowsAgree /\ SubsTyped /\ BooksAgree

(* What a request has taken is never negative, what its token lost is a    *)
(* number.                                                                 *)
LEMMA SharesAreNumbers ==
  ASSUME NEW s \in SessionRow, CountsAgree(s)
  PROVE  Funded(s) \in Nat /\ TokenShare(s) \in Int
<1>1. s.preConsumedQuota \in Nat /\ s.tokenConsumed \in Nat /\ s.extraReserved \in Nat /\ s.arg \in Int
  BY AmountsAreNat
<1>2. Funded(s) \in Nat
  BY <1>1 DEF Funded, CountsAgree, Holding
<1>3. TokenShare(s) \in Int
  BY <1>1 DEF TokenShare
<1> QED BY <1>2, <1>3

(* The wallet of a request pays what the request has taken, if the wallet  *)
(* is its source.                                                          *)
CostOf(row) ==
  CASE row.state = "settled" -> row.actual
    [] row.state = "reserved" -> row.reserved
    [] OTHER -> 0

LEMMA CostIsFunded ==
  ASSUME NEW s \in SessionRow, NEW row, NEW rec, Agrees(s, row, rec)
  PROVE  CostOf(row) = IF s.source = "wallet" THEN Funded(s) ELSE 0
BY DEF Agrees, CountsAgree, WalletAgrees, CostOf, Funded, Before, Paid, Holding, Returning, Returned

(* The step of a request moves its token, its operation or its             *)
(* subscription by exactly what its own share of the books changes.        *)
Effect(r, row, op, rec) ==
  /\ session' = [session EXCEPT ![r] = row]
  /\ operation' = [operation EXCEPT ![r] = op]
  /\ preRecord' = [preRecord EXCEPT ![r] = rec]
  /\ rec \in SubscriptionPreConsumeRecord
  /\ Agrees(row, op, rec)
  /\ token' = [token EXCEPT ![TokenOf[r]] = @ - (TokenShare(row) - TokenShare(session[r]))]
  /\ subscription' = [k \in Subs |-> [subscription[k] EXCEPT
                        !.used = @ + (Charged(k, row, rec) - Charged(k, session[r], preRecord[r]))]]
  /\ rec.sub = preRecord[r].sub \/ Funded(session[r]) = 0

FiniteTables == IsFiniteSet(Ops) /\ IsFiniteSet(Tokens) /\ IsFiniteSet(Subs)

(* Such a step keeps the books in step.                                    *)
LEMMA EffectKeepsBooks ==
  ASSUME FiniteTables, SessionTypes, SessionTypes', RowsAgree, SubsTyped, BooksAgree,
         DOMAIN operation = Ops, NEW r \in Ops, NEW row, NEW op, NEW rec, Effect(r, row, op, rec)
  PROVE  RowsAgree' /\ SubsTyped' /\ BooksAgree'
<1> DEFINE s == session[r]
           old == preRecord[r]
<1>1. /\ session \in [Ops -> SessionRow] /\ session' \in [Ops -> SessionRow] /\ s \in SessionRow /\ old \in SubscriptionPreConsumeRecord
      /\ token \in [Tokens -> Int] /\ TokenOf[r] \in Tokens /\ preRecord \in [Ops -> SubscriptionPreConsumeRecord]
      /\ TokenOpening \in [Tokens -> Int]
  BY TokenAssumption DEF SessionTypes, SessionTypeOK, SubsTyped
<1>2. \A p \in Ops : /\ session'[p] = IF p = r THEN row ELSE session[p]
                     /\ operation'[p] = IF p = r THEN op ELSE operation[p]
                     /\ preRecord'[p] = IF p = r THEN rec ELSE preRecord[p]
  BY <1>1 DEF Effect
<1>3. row \in SessionRow
  BY <1>1, <1>2
<1>4. RowsAgree'
  BY <1>2 DEF RowsAgree, Effect
<1>5. \A p \in Ops : /\ Funded(session[p]) \in Nat /\ Funded(session'[p]) \in Nat
                     /\ TokenShare(session[p]) \in Int /\ TokenShare(session'[p]) \in Int
  BY <1>1, <1>4, SharesAreNumbers DEF RowsAgree, Agrees
<1>6. preRecord' \in [Ops -> SubscriptionPreConsumeRecord]
  BY <1>1 DEF Effect
<1>7. SumFunction(TokenLoss)' = SumFunction(TokenShares)'
  <2> DEFINE d == TokenShare(row) - TokenShare(s)
  <2>1. d \in Int /\ TokenShare(row) \in Int /\ TokenShare(s) \in Int
    BY <1>2, <1>5
  <2>2. token' = [token EXCEPT ![TokenOf[r]] = @ - d]
    BY DEF Effect
  <2> HIDE DEF d
  <2>3. OneOther(TokenLoss, TokenLoss', TokenOf[r]) /\ TokenLoss'[TokenOf[r]] = TokenLoss[TokenOf[r]] + d
    BY <1>1, <2>1, <2>2 DEF TokenLoss, OneOther, FiniteTables
  <2>4. TokenLoss[TokenOf[r]] \in Int
    BY <1>1 DEF TokenLoss
  <2>5. SumFunction(TokenLoss) \in Int
    BY <1>1, SumInt DEF TokenLoss, FiniteTables
  <2>6. SumFunction(TokenLoss') = SumFunction(TokenLoss) + TokenLoss'[TokenOf[r]] - TokenLoss[TokenOf[r]]
    BY <2>3, SumChange
  <2>7. SumFunction(TokenLoss') = SumFunction(TokenLoss) + d
    BY <2>1, <2>3, <2>4, <2>5, <2>6
  <2>8. OneOther(TokenShares, TokenShares', r) /\ TokenShares'[r] = TokenShare(row) /\ TokenShares[r] = TokenShare(s)
    BY <1>2, <1>5 DEF TokenShares, OneOther, FiniteTables
  <2>9. SumFunction(TokenShares') = SumFunction(TokenShares) + TokenShares'[r] - TokenShares[r]
    BY <2>8, SumChange
  <2>10. SumFunction(TokenShares') = SumFunction(TokenShares) + d
    BY <2>1, <2>5, <2>8, <2>9 DEF BooksAgree, d
  <2> QED BY <2>7, <2>10 DEF BooksAgree
<1>8. ASSUME NEW k \in Subs
      PROVE  /\ SumFunction(SubCharges(k)') = SumFunction(SubCharges(k)) + Charged(k, row, rec) - Charged(k, s, old)
             /\ SumFunction(SubCharges(k)') \in Nat /\ SumFunction(SubCharges(k)) \in Nat
             /\ Charged(k, row, rec) \in Nat /\ Charged(k, s, old) \in Nat
  <2>1. \A p \in Ops : /\ Charged(k, session[p], preRecord[p]) \in Nat
                       /\ Charged(k, session'[p], preRecord'[p]) \in Nat
    BY <1>5 DEF Charged
  <2>2. Charged(k, row, rec) \in Nat /\ Charged(k, s, old) \in Nat
    BY <1>2, <2>1
  <2>3. SubCharges(k)' = [p \in Ops |-> Charged(k, session'[p], preRecord'[p])]
    BY DEF SubCharges
  <2>4. OneOther(SubCharges(k), SubCharges(k)', r)
    BY <1>2, <2>1, <2>3 DEF SubCharges, OneOther, FiniteTables
  <2>5. SubCharges(k)'[r] = Charged(k, row, rec) /\ SubCharges(k)[r] = Charged(k, s, old)
    BY <1>2, <2>3 DEF SubCharges
  <2>6. SumFunction(SubCharges(k)') \in Nat /\ SumFunction(SubCharges(k)) \in Nat
    BY <2>1, <2>3, SumNat DEF SubCharges, FiniteTables
  <2>7. SumFunction(SubCharges(k)') = SumFunction(SubCharges(k)) + SubCharges(k)'[r] - SubCharges(k)[r]
    BY <2>4, SumChange
  <2> QED BY <2>2, <2>5, <2>6, <2>7
<1>9. ASSUME NEW k \in Subs
      PROVE  /\ subscription'[k] = [subscription[k] EXCEPT !.used = @ + (Charged(k, row, rec) - Charged(k, s, old))]
             /\ subscription'[k].used = subscription[k].used + (Charged(k, row, rec) - Charged(k, s, old))
             /\ subscription'[k].used = SumFunction(SubCharges(k)')
             /\ subscription'[k].used \in Nat /\ subscription[k].used \in Nat
             /\ subscription'[k] \in SubscriptionRow /\ ~subscription'[k].due
  <2> DEFINE d == Charged(k, row, rec) - Charged(k, s, old)
  <2>1. subscription[k] \in SubscriptionRow /\ ~subscription[k].due /\ subscription[k].used \in Nat
    BY DEF SubsTyped, SubscriptionRow
  <2>2. d \in Int /\ SumFunction(SubCharges(k)') = SumFunction(SubCharges(k)) + d
    BY <1>8
  <2>3. subscription'[k] = [subscription[k] EXCEPT !.used = @ + d]
    BY DEF Effect
  <2> HIDE DEF d
  <2>4. subscription'[k].used = subscription[k].used + d
    BY <2>1, <2>3 DEF SubscriptionRow
  <2>5. subscription'[k].used = SumFunction(SubCharges(k)') /\ subscription'[k].used \in Nat
    BY <1>8, <2>2, <2>4 DEF BooksAgree
  <2>6. subscription'[k] \in SubscriptionRow /\ ~subscription'[k].due
    <3>1. \A n \in Nat : [subscription[k] EXCEPT !.used = n] \in SubscriptionRow /\ [subscription[k] EXCEPT !.used = n].due = subscription[k].due
      BY <2>1 DEF SubscriptionRow
    <3> QED BY <2>1, <2>3, <2>4, <2>5, <3>1
  <2> QED BY <2>1, <2>3, <2>4, <2>5, <2>6 DEF d
<1>10. SubsTyped'
  <2>1. subscription' \in [Subs -> SubscriptionRow]
    BY <1>9 DEF Effect
  <2> QED BY <1>6, <1>9, <2>1 DEF SubsTyped
<1>11. \A p \in Ops : WalletCost(p) = CostOf(operation[p]) /\ WalletCost(p)' = CostOf(operation'[p])
  BY DEF WalletCost, CostOf
<1>12. \A p \in Ops : /\ CostOf(operation[p]) = IF session[p].source = "wallet" THEN Funded(session[p]) ELSE 0
                      /\ CostOf(operation'[p]) = IF session'[p].source = "wallet" THEN Funded(session'[p]) ELSE 0
  BY <1>1, <1>4, CostIsFunded DEF RowsAgree
<1>13. /\ SumFunction(WalletCosts') = SumFunction(WalletCosts) + CostOf(op) - CostOf(operation[r])
       /\ SumFunction(WalletCosts) \in Int /\ CostOf(op) \in Int /\ CostOf(operation[r]) \in Int
  <2>1. \A p \in Ops : CostOf(operation[p]) \in Int /\ CostOf(operation'[p]) \in Int
    BY <1>5, <1>12
  <2>2. WalletCosts' = [p \in Ops |-> CostOf(operation'[p])] /\ WalletCosts = [p \in Ops |-> CostOf(operation[p])]
    BY <1>11 DEF WalletCosts
  <2> HIDE DEF WalletCosts
  <2>3. OneOther(WalletCosts, WalletCosts', r)
    BY <1>2, <2>1, <2>2 DEF OneOther, FiniteTables
  <2>4. WalletCosts'[r] = CostOf(op) /\ WalletCosts[r] = CostOf(operation[r])
    BY <1>2, <2>2
  <2>5. SumFunction(WalletCosts) \in Int
    BY <2>1, <2>2, SumInt DEF FiniteTables
  <2>6. SumFunction(WalletCosts') = SumFunction(WalletCosts) + WalletCosts'[r] - WalletCosts[r]
    BY <2>3, SumChange
  <2>7. CostOf(op) \in Int /\ CostOf(operation[r]) \in Int
    BY <1>2, <2>1
  <2> QED BY <2>4, <2>5, <2>6, <2>7
<1>14. /\ SumFunction(Fundings') = SumFunction(Fundings) + Funded(row) - Funded(s)
       /\ SumFunction(Fundings) \in Int /\ Funded(row) \in Int /\ Funded(s) \in Int
  <2>1. OneOther(Fundings, Fundings', r) /\ Fundings'[r] = Funded(row) /\ Fundings[r] = Funded(s)
    BY <1>2, <1>5 DEF Fundings, OneOther, FiniteTables
  <2>2. SumFunction(Fundings) \in Int
    BY <1>5, SumInt DEF Fundings, FiniteTables
  <2>3. SumFunction(Fundings') = SumFunction(Fundings) + Fundings'[r] - Fundings[r]
    BY <2>1, SumChange
  <2>4. Funded(row) \in Int /\ Funded(s) \in Int
    BY <1>2, <1>5
  <2> QED BY <2>1, <2>2, <2>3, <2>4
<1> DEFINE SubPart(x) == IF x.source = "subscription" THEN Funded(x) ELSE 0
<1>used. \A k \in Subs : /\ subscription'[k].used = subscription[k].used + (Charged(k, row, rec) - Charged(k, s, old))
                    /\ subscription'[k].used \in Nat /\ subscription[k].used \in Nat
  BY <1>9
<1>15. SumFunction(SubsUsed) \in Int /\ SumFunction(SubsUsed') = SumFunction(SubsUsed) + SubPart(row) - SubPart(s)
  <2>1. SumFunction(SubsUsed) \in Int
    BY <1>used, SumInt DEF SubsUsed, FiniteTables
  <2>2. SubPart(row) \in Int /\ SubPart(s) \in Int
    BY <1>14
  <2>3. CASE SubPart(row) = 0 /\ SubPart(s) = 0
    <3>1. \A k \in Subs : Charged(k, row, rec) = 0 /\ Charged(k, s, old) = 0
      BY <2>3 DEF Charged
    <3>2. SubsUsed' = SubsUsed
      BY <1>used, <3>1 DEF SubsUsed
    <3> QED BY <2>1, <2>3, <3>2
  <2>4. ASSUME NEW k \in Subs, SubPart(row) # 0 => rec.sub = k, SubPart(s) # 0 => old.sub = k
        PROVE  SumFunction(SubsUsed') = SumFunction(SubsUsed) + SubPart(row) - SubPart(s)
    <3>1. Charged(k, row, rec) = SubPart(row) /\ Charged(k, s, old) = SubPart(s)
      BY <2>4 DEF Charged
    <3>2. \A x \in Subs : x # k => Charged(x, row, rec) = 0 /\ Charged(x, s, old) = 0
      BY <2>4 DEF Charged
    <3> HIDE DEF SubPart
    <3>3. OneOther(SubsUsed, SubsUsed', k) /\ SubsUsed'[k] = SubsUsed[k] + (SubPart(row) - SubPart(s)) /\ SubsUsed[k] \in Int
      BY <1>used, <2>2, <3>1, <3>2 DEF SubsUsed, OneOther, FiniteTables
    <3>4. SumFunction(SubsUsed') = SumFunction(SubsUsed) + SubsUsed'[k] - SubsUsed[k]
      BY <3>3, SumChange
    <3> QED BY <2>1, <2>2, <3>3, <3>4
  <2>5. CASE SubPart(row) # 0
    <3>1. ~Before(row)
      BY <2>5 DEF Funded
    <3>2. rec.sub \in Subs
      BY <2>5, <3>1 DEF Effect, Agrees, RecordAgrees
    <3>3. SubPart(s) # 0 => old.sub = rec.sub
      BY DEF Effect
    <3> QED BY <2>1, <2>4, <3>2, <3>3
  <2>6. CASE SubPart(row) = 0 /\ SubPart(s) # 0
    <3>1. ~Before(s)
      BY <2>6 DEF Funded
    <3>2. old.sub \in Subs
      BY <2>6, <3>1 DEF RowsAgree, Agrees, RecordAgrees
    <3> QED BY <2>1, <2>4, <2>6, <3>2
  <2> QED BY <2>3, <2>5, <2>6
<1>16. /\ CostOf(op) = IF row.source = "wallet" THEN Funded(row) ELSE 0
       /\ CostOf(operation[r]) = IF s.source = "wallet" THEN Funded(s) ELSE 0
  BY <1>2, <1>12
<1>17. CostOf(op) + SubPart(row) = Funded(row) /\ CostOf(operation[r]) + SubPart(s) = Funded(s)
  <2>1. \A x \in SessionRow : CountsAgree(x) => Funded(x) = 0 \/ x.source \in {"wallet", "subscription"}
    BY DEF CountsAgree, Funded
  <2>2. CountsAgree(row) /\ CountsAgree(s)
    BY DEF Effect, RowsAgree, Agrees
  <2> QED BY <1>1, <1>3, <1>14, <1>16, <2>1, <2>2
<1>18. SubPart(row) \in Int /\ SubPart(s) \in Int
  BY <1>14
<1>19. SumFunction(WalletCosts') + SumFunction(SubsUsed') = SumFunction(Fundings')
  <2> HIDE DEF SubPart, s
  <2> QED BY <1>13, <1>14, <1>15, <1>17, <1>18 DEF BooksAgree
<1>20. BooksAgree'
  BY <1>7, <1>9, <1>19 DEF BooksAgree
<1> QED BY <1>4, <1>10, <1>20

(* What is known before a step while the books are clean, and what is to   *)
(* be shown of the step.                                                   *)
Ready == LedgerOK /\ SessionTypes /\ RowsAgree /\ SubsTyped /\ BooksAgree /\ FiniteTables /\ Playground = {}
Moved(r) == \E row, op, rec : Effect(r, row, op, rec)

(* It says of one request:                                                 *)
LEMMA ReadyFacts ==
  ASSUME Ready, NEW r \in Ops
  PROVE  /\ session \in [Ops -> SessionRow] /\ session[r] \in SessionRow /\ Extending(session[r])
         /\ operation \in [Ops -> OperationRow] /\ operation[r] \in OperationRow
         /\ preRecord \in [Ops -> SubscriptionPreConsumeRecord] /\ preRecord[r] \in SubscriptionPreConsumeRecord
         /\ token \in [Tokens -> Int] /\ TokenOf[r] \in Tokens /\ token[TokenOf[r]] \in Int
         /\ CountsAgree(session[r]) /\ WalletAgrees(session[r], operation[r]) /\ RecordAgrees(session[r], preRecord[r])
         /\ Agrees(session[r], operation[r], preRecord[r])
         /\ Funded(session[r]) \in Nat /\ TokenShare(session[r]) \in Int
<1>1. /\ session \in [Ops -> SessionRow] /\ session[r] \in SessionRow /\ Extending(session[r])
      /\ token \in [Tokens -> Int] /\ TokenOf[r] \in Tokens /\ token[TokenOf[r]] \in Int
  BY TokenAssumption DEF Ready, SessionTypes, SessionTypeOK
<1>2. operation \in [Ops -> OperationRow] /\ operation[r] \in OperationRow
  BY DEF Ready, LedgerOK, LedgerTypeOK
<1>3. preRecord \in [Ops -> SubscriptionPreConsumeRecord] /\ preRecord[r] \in SubscriptionPreConsumeRecord
  BY DEF Ready, SubsTyped
<1>4. /\ CountsAgree(session[r]) /\ WalletAgrees(session[r], operation[r]) /\ RecordAgrees(session[r], preRecord[r])
      /\ Agrees(session[r], operation[r], preRecord[r])
  BY DEF Ready, RowsAgree, Agrees
<1> QED BY <1>1, <1>2, <1>3, <1>4, SharesAreNumbers

(* A step that leaves the funding source alone moves at most the token.    *)
LEMMA PlainEffect ==
  ASSUME Ready, NEW r \in Ops, NEW row \in SessionRow, Set(r, row),
         UNCHANGED <<ledgerVars, subscription, preRecord>>,
         Agrees(row, operation[r], preRecord[r]),
         \/ UNCHANGED token /\ TokenShare(row) = TokenShare(session[r])
         \/ \E d \in Int : ChangeToken(r, d) /\ TokenShare(row) = TokenShare(session[r]) - d,
         Funded(row) = Funded(session[r]),
         row.source = session[r].source \/ Funded(session[r]) = 0
  PROVE  Moved(r)
<1> DEFINE s == session[r]
           op == operation[r]
           rec == preRecord[r]
<1>1. /\ operation' = [operation EXCEPT ![r] = op] /\ preRecord' = [preRecord EXCEPT ![r] = rec]
      /\ rec \in SubscriptionPreConsumeRecord
  BY ReadyFacts DEF ledgerVars
<1>2. TokenShare(row) \in Int /\ TokenShare(s) \in Int
  BY SharesAreNumbers, ReadyFacts DEF Agrees
<1>3. token' = [token EXCEPT ![TokenOf[r]] = @ - (TokenShare(row) - TokenShare(s))]
  <2>0. token \in [Tokens -> Int] /\ TokenOf[r] \in Tokens /\ token[TokenOf[r]] \in Int /\ r \notin Playground
    BY ReadyFacts DEF Ready
  <2>1. CASE UNCHANGED token /\ TokenShare(row) = TokenShare(s)
    BY <1>2, <2>0, <2>1
  <2>2. ASSUME NEW d \in Int, ChangeToken(r, d), TokenShare(row) = TokenShare(s) - d
        PROVE  token' = [token EXCEPT ![TokenOf[r]] = @ - (TokenShare(row) - TokenShare(s))]
    <3>1. token' = [token EXCEPT ![TokenOf[r]] = @ + d]
      BY <2>0, <2>2 DEF ChangeToken
    <3>2. token[TokenOf[r]] + d = token[TokenOf[r]] - (TokenShare(row) - TokenShare(s))
      BY <1>2, <2>0, <2>2
    <3> QED BY <3>1, <3>2
  <2> QED BY <2>1, <2>2
<1>4. \A k \in Subs : Charged(k, row, rec) = Charged(k, s, rec) /\ Charged(k, s, rec) \in Nat
  BY ReadyFacts DEF Charged
<1>5. subscription' = [k \in Subs |-> [subscription[k] EXCEPT !.used = @ + (Charged(k, row, rec) - Charged(k, s, rec))]]
  <2>1. \A k \in Subs : subscription[k].used \in Nat /\ subscription[k] = [subscription[k] EXCEPT !.used = subscription[k].used]
    BY DEF Ready, SubsTyped, SubscriptionRow
  <2>2. ASSUME NEW k \in Subs PROVE subscription[k].used + (Charged(k, row, rec) - Charged(k, s, rec)) = subscription[k].used
    <3>1. \A n, c \in Nat : n + (c - c) = n
      OBVIOUS
    <3> QED BY <1>4, <2>1, <3>1
  <2>3. subscription = [k \in Subs |-> subscription[k]]
    BY DEF Ready, SubsTyped
  <2> QED BY <2>1, <2>2, <2>3
<1>6. Effect(r, row, op, rec)
  BY <1>1, <1>3, <1>5 DEF Effect, Set
<1> QED BY <1>6 DEF Moved

(* Choosing a source moves nothing.                                        *)
LEMMA EarlyEffect ==
  ASSUME Ready, NEW r \in Ops,
         \/ \E q \in Asked : NewBillingSession(r, q)
         \/ CheckWallet(r)
  PROVE  Moved(r)
<1> DEFINE s == session[r]
<1>0. s \in SessionRow /\ session \in [Ops -> SessionRow]
  BY ReadyFacts
<1>1. CountsAgree(s) /\ WalletAgrees(s, operation[r]) /\ RecordAgrees(s, preRecord[r])
  BY ReadyFacts
<1>2. ASSUME NEW row \in SessionRow, Set(r, row), UNCHANGED <<ledgerVars, fundingVars, token>>,
             Before(s), s.pc \in {"new", "check"}, row.pc \in {"check", "token", "failed"}, row.pc = "check" => row.source = "wallet" /\ s.pc = "new",
             row.pc = "token" => row.source \in {"wallet", "subscription"},
             row.trusted => row.source = "wallet" /\ row.pc = "token",
             row.refund = s.refund, row.settled = s.settled, row.tokenConsumed = s.tokenConsumed,
             row.extraReserved = s.extraReserved, row.arg = s.arg
      PROVE  Moved(r)
  <2>1. s.refund = "idle" /\ ~s.settled /\ s.tokenConsumed = 0 /\ s.extraReserved = 0 /\ s.arg = 0
    BY <1>1, <1>2 DEF CountsAgree, Before, Paid
  <2>2. CountsAgree(row)
    BY <1>2, <2>1 DEF CountsAgree, Before, Paid, Holding, Returning
  <2>3. Before(row) /\ operation[r].state = "absent" /\ preRecord[r].status = "none"
    BY <1>1, <1>2 DEF WalletAgrees, RecordAgrees, Before
  <2>4. Agrees(row, operation[r], preRecord[r])
    BY <2>2, <2>3 DEF Agrees, WalletAgrees, RecordAgrees
  <2>5. Funded(row) = 0 /\ Funded(s) = 0 /\ TokenShare(row) = TokenShare(s)
    BY <1>2, <2>1, <2>3 DEF Funded, TokenShare
  <2>6. UNCHANGED <<ledgerVars, subscription, preRecord>> /\ UNCHANGED token
    BY <1>2 DEF fundingVars
  <2> QED BY <1>2, <2>4, <2>5, <2>6, PlainEffect
<1>3. ASSUME NEW q \in Asked, NewBillingSession(r, q) PROVE Moved(r)
  <2> DEFINE source == FirstSource(r)
             trust == TokenOf[r] \in Unlimited \/ RemainOf(r) > TrustQuota
             row == [s EXCEPT !.pc = IF source = "wallet" THEN "check" ELSE "token",
                              !.source = source, !.asked = q, !.tokenTrusted = trust]
  <2>1. source \in {"wallet", "subscription"} /\ q \in Nat /\ trust \in BOOLEAN
    BY BoundAssumption DEF FirstSource
  <2>2. row \in SessionRow
    <3> HIDE DEF source, trust
    <3> QED BY <1>0, <2>1, HandlerRows, ZenonT(60) DEF Steps, Sources
  <2>3. /\ row.pc = (IF source = "wallet" THEN "check" ELSE "token") /\ row.source = source
        /\ row.refund = s.refund /\ row.settled = s.settled /\ row.tokenConsumed = s.tokenConsumed
        /\ row.extraReserved = s.extraReserved /\ row.arg = s.arg /\ row.trusted = s.trusted
    BY <1>0 DEF SessionRow
  <2>4. s.pc = "new" /\ Set(r, row) /\ UNCHANGED <<ledgerVars, fundingVars, token>>
    BY <1>3 DEF NewBillingSession, At
  <2>5. Before(s) /\ ~s.trusted
    BY <1>1, <2>4 DEF Before, CountsAgree
  <2> HIDE DEF row, source, trust
  <2> QED BY <1>2, <2>1, <2>2, <2>3, <2>4, <2>5
<1>4. CASE CheckWallet(r)
  <2>1. s.pc = "check" /\ Before(s) /\ s.source = "wallet" /\ ~s.trusted /\ UNCHANGED <<ledgerVars, fundingVars, token>>
    BY <1>1, <1>4 DEF CheckWallet, At, Before, CountsAgree
  <2>2. PICK row \in {[s EXCEPT !.pc = "token", !.source = "subscription"], [s EXCEPT !.pc = "failed"],
                      [s EXCEPT !.pc = "token", !.trusted = ShouldTrust(r)]} : Set(r, row)
    <3>1. Fallback(r, s) \in {[s EXCEPT !.pc = "token", !.source = "subscription"], [s EXCEPT !.pc = "failed"]}
      BY <2>1 DEF Fallback
    <3>2. Set(r, Fallback(r, s)) \/ Set(r, [s EXCEPT !.pc = "token", !.trusted = ShouldTrust(r)])
      BY <1>4 DEF CheckWallet
    <3> QED BY <3>1, <3>2
  <2>3. row \in SessionRow
    <3>1. ShouldTrust(r) \in BOOLEAN
      BY DEF ShouldTrust
    <3>2. [s EXCEPT !.pc = "token", !.source = "subscription"] \in SessionRow
      BY <1>0, HandlerRows DEF Steps, Sources
    <3>3. [s EXCEPT !.pc = "failed"] \in SessionRow
      BY <1>0, HandlerRows DEF Steps
    <3>4. [s EXCEPT !.pc = "token", !.trusted = ShouldTrust(r)] \in SessionRow
      BY <1>0, <3>1, HandlerRows DEF Steps
    <3> QED BY <2>2, <3>2, <3>3, <3>4, Zenon
  <2>4. /\ row.pc \in {"token", "failed"} /\ row.source \in {"wallet", "subscription"}
        /\ row.refund = s.refund /\ row.settled = s.settled /\ row.tokenConsumed = s.tokenConsumed
        /\ row.extraReserved = s.extraReserved /\ row.arg = s.arg
        /\ row.trusted # s.trusted => row.source = "wallet" /\ row.pc = "token"
    BY <1>0, <2>1, <2>2 DEF SessionRow
  <2>5. row.trusted => row.source = "wallet" /\ row.pc = "token"
    BY <2>1, <2>4
  <2> QED BY <1>2, <2>1, <2>2, <2>3, <2>4, <2>5
<1> QED BY <1>3, <1>4

(* Pre-consuming from the token and giving it back moves the token only.   *)
LEMMA TokenEffect ==
  ASSUME Ready, NEW r \in Ops, faults = 0, faults' = 0, PreConsumeTokenQuota(r) \/ RollbackToken(r)
  PROVE  Moved(r)
<1> DEFINE s == session[r]
<1>0. s \in SessionRow /\ session \in [Ops -> SessionRow] /\ Effective(s) \in Nat /\ s.tokenConsumed \in Nat
  BY ReadyFacts, AmountsAreNat
<1>1. CountsAgree(s) /\ WalletAgrees(s, operation[r]) /\ RecordAgrees(s, preRecord[r])
  BY ReadyFacts
<1>2. s.pc \in {"token", "unfund"} /\ Before(s)
  BY DEF PreConsumeTokenQuota, RollbackToken, At, Before
<1>3. s.refund = "idle" /\ ~s.settled /\ s.extraReserved = 0 /\ s.arg = 0
  BY <1>1, <1>2 DEF CountsAgree, Before, Paid
<1>4. operation[r].state = "absent" /\ preRecord[r].status = "none"
  BY <1>1, <1>2 DEF WalletAgrees, RecordAgrees
<1>5. UNCHANGED <<ledgerVars, subscription, preRecord>>
  BY DEF PreConsumeTokenQuota, RollbackToken, fundingVars
<1>6. ASSUME NEW row \in SessionRow, Set(r, row), Before(row), CountsAgree(row), row.refund = s.refund, row.settled = s.settled,
             \/ UNCHANGED token /\ row.tokenConsumed = s.tokenConsumed
             \/ \E d \in Int : ChangeToken(r, d) /\ row.tokenConsumed = s.tokenConsumed - d
      PROVE  Moved(r)
  <2>1. Agrees(row, operation[r], preRecord[r])
    BY <1>4, <1>6 DEF Agrees, WalletAgrees, RecordAgrees
  <2>2. Funded(row) = 0 /\ Funded(s) = 0
    BY <1>2, <1>6 DEF Funded
  <2>3. row.tokenConsumed \in Nat
    BY AmountsAreNat
  <2>4. TokenShare(s) = s.tokenConsumed /\ TokenShare(row) = row.tokenConsumed
    BY <1>0, <1>3, <1>6, <2>3 DEF TokenShare
  <2> QED BY <1>5, <1>6, <2>1, <2>2, <2>4, PlainEffect
<1>7. CASE PreConsumeTokenQuota(r)
  <2>1. s.pc = "token" /\ s.tokenConsumed = 0 /\ s.source \in {"wallet", "subscription"} /\ (s.source = "subscription" => ~s.trusted)
    BY <1>1, <1>7 DEF PreConsumeTokenQuota, At, CountsAgree
  <2>2. ~Fault("token")
    BY DEF Fault
  <2>3. CASE ChangeToken(r, -Effective(s)) /\ Set(r, [s EXCEPT !.pc = "fund", !.tokenConsumed = Effective(s)])
    <3>1. PICK row : row = [s EXCEPT !.pc = "fund", !.tokenConsumed = Effective(s)]
      OBVIOUS
    <3>2. row \in SessionRow
      BY <1>0, <3>1, HandlerRows DEF Steps
    <3>3. /\ row.pc = "fund" /\ row.tokenConsumed = Effective(s) /\ row.refund = s.refund /\ row.settled = s.settled
          /\ row.extraReserved = s.extraReserved /\ row.arg = s.arg /\ row.trusted = s.trusted /\ row.source = s.source
          /\ row.asked = s.asked
      BY <1>0, <3>1 DEF SessionRow
    <3>4. Effective(row) = Effective(s)
      BY <3>3 DEF Effective, Want
    <3>5. CountsAgree(row) /\ Before(row)
      BY <1>3, <2>1, <3>3, <3>4 DEF CountsAgree, Before, Paid, Holding, Returning
    <3>6. -Effective(s) \in Int /\ row.tokenConsumed = s.tokenConsumed - (-Effective(s))
      BY <1>0, <2>1, <3>3
    <3> QED BY <1>6, <2>3, <3>1, <3>2, <3>3, <3>5, <3>6
  <2>4. CASE UNCHANGED token /\ Set(r, [s EXCEPT !.pc = "failed"])
    <3>1. PICK row : row = [s EXCEPT !.pc = "failed"]
      OBVIOUS
    <3>2. row \in SessionRow
      BY <1>0, <3>1, HandlerRows DEF Steps
    <3>3. /\ row.pc = "failed" /\ row.tokenConsumed = s.tokenConsumed /\ row.refund = s.refund /\ row.settled = s.settled
          /\ row.extraReserved = s.extraReserved /\ row.arg = s.arg /\ row.trusted = s.trusted /\ row.source = s.source
      BY <1>0, <3>1 DEF SessionRow
    <3>4. CountsAgree(row) /\ Before(row)
      BY <1>3, <2>1, <3>3 DEF CountsAgree, Before, Paid, Holding, Returning
    <3> QED BY <1>6, <2>4, <3>1, <3>2, <3>3, <3>4
  <2> QED BY <1>7, <2>2, <2>3, <2>4 DEF PreConsumeTokenQuota
<1>8. CASE RollbackToken(r)
  <2>1. PICK t : t = [s EXCEPT !.tokenConsumed = 0, !.trusted = FALSE]
    OBVIOUS
  <2>2. t \in SessionRow
    BY <1>0, <2>1, HandlerRows
  <2>3. /\ t.pc = s.pc /\ t.source = s.source /\ t.tokenConsumed = 0 /\ t.trusted = FALSE /\ t.refund = s.refund /\ t.settled = s.settled
        /\ t.extraReserved = s.extraReserved /\ t.arg = s.arg
    BY <1>0, <2>1 DEF SessionRow
  <2>4. ChangeToken(r, s.tokenConsumed)
    <3>1. ~Fault("token")
      BY DEF Fault
    <3> QED BY <1>8, <3>1 DEF RollbackToken
  <2>5. PICK row \in {[t EXCEPT !.pc = "token", !.source = "subscription"], [t EXCEPT !.pc = "check", !.source = "wallet"],
                      [t EXCEPT !.pc = "failed"]} : Set(r, row)
    <3>1. Set(r, IF t.retriable THEN Fallback(r, t) ELSE [t EXCEPT !.pc = "failed"])
      BY <1>8, <2>1 DEF RollbackToken
    <3> QED BY <3>1 DEF Fallback
  <2>6. row \in SessionRow
    <3>1. [t EXCEPT !.pc = "token", !.source = "subscription"] \in SessionRow
      BY <2>2, HandlerRows DEF Steps, Sources
    <3>2. [t EXCEPT !.pc = "check", !.source = "wallet"] \in SessionRow
      BY <2>2, HandlerRows DEF Steps, Sources
    <3>3. [t EXCEPT !.pc = "failed"] \in SessionRow
      BY <2>2, HandlerRows DEF Steps
    <3> QED BY <2>5, <3>1, <3>2, <3>3, Zenon
  <2>7. /\ row.pc \in {"token", "check", "failed"} /\ row.tokenConsumed = t.tokenConsumed /\ row.trusted = t.trusted
        /\ row.refund = t.refund /\ row.settled = t.settled /\ row.extraReserved = t.extraReserved /\ row.arg = t.arg
        /\ row.pc = "check" => row.source = "wallet"
        /\ row.pc = "token" => row.source = "subscription"
    BY <2>2, <2>5 DEF SessionRow
  <2>8. CountsAgree(row) /\ Before(row)
    BY <1>3, <2>3, <2>7 DEF CountsAgree, Before, Paid, Holding, Returning
  <2>9. s.tokenConsumed \in Int /\ row.tokenConsumed = s.tokenConsumed - s.tokenConsumed
    BY <1>0, <2>3, <2>7
  <2> QED BY <1>6, <2>3, <2>4, <2>5, <2>6, <2>7, <2>8, <2>9
<1> QED BY <1>7, <1>8

(* What an agreeing session keeps of its counts where it goes on without   *)
(* its funding source.                                                     *)
LEMMA LaterEffect ==
  ASSUME Ready, NEW r \in Ops, NEW row \in SessionRow, Set(r, row),
         UNCHANGED <<ledgerVars, subscription, preRecord>>,
         CountsAgree(row), ~Before(row), ~Before(session[r]), row.source = session[r].source, Funded(row) = Funded(session[r]),
         Holding(row) <=> Holding(session[r]), Paid(row) <=> Paid(session[r]), Returned(row) <=> Returned(session[r]),
         row.refund = "mark" => session[r].refund = "mark",
         Holding(row) => row.preConsumedQuota - row.extraReserved = session[r].preConsumedQuota - session[r].extraReserved,
         \/ UNCHANGED token /\ TokenShare(row) = TokenShare(session[r])
         \/ \E d \in Int : ChangeToken(r, d) /\ TokenShare(row) = TokenShare(session[r]) - d
  PROVE  Moved(r)
<1> DEFINE s == session[r]
<1>0. /\ WalletAgrees(s, operation[r]) /\ RecordAgrees(s, preRecord[r])
      /\ s \in SessionRow /\ preRecord[r] \in SubscriptionPreConsumeRecord
  BY ReadyFacts
<1>1. WalletAgrees(row, operation[r])
  BY <1>0 DEF WalletAgrees
<1>2. /\ row.preConsumedQuota \in Nat /\ row.extraReserved \in Nat /\ s.preConsumedQuota \in Nat /\ s.extraReserved \in Nat
      /\ preRecord[r].amount \in Nat
  BY <1>0, AmountsAreNat DEF SubscriptionPreConsumeRecord
<1>3. RecordAgrees(row, preRecord[r])
  BY <1>0, <1>2 DEF RecordAgrees
<1>4. Agrees(row, operation[r], preRecord[r])
  BY <1>1, <1>3 DEF Agrees
<1> QED BY <1>4, PlainEffect

(* The token pays for an extension or refuses it; settlement, the decision *)
(* to refund and the last step of a refund leave the source alone.         *)
LEMMA HeldEffect ==
  ASSUME Ready, NEW r \in Ops, faults = 0, faults' = 0,
         \/ ReserveToken(r) \/ SettleToken(r) \/ LogSettlementError(r) \/ Refund(r) \/ RefundToken(r)
         \/ Set(r, [session[r] EXCEPT !.pc = "unsettled"]) /\ At(r, "open") /\ UNCHANGED <<ledgerVars, fundingVars, token>>
  PROVE  Moved(r)
<1> DEFINE s == session[r]
<1>0. /\ s \in SessionRow /\ session \in [Ops -> SessionRow] /\ s.tokenConsumed \in Nat /\ s.arg \in Int
      /\ s.preConsumedQuota \in Nat /\ s.extraReserved \in Nat /\ s.consumed \in Nat /\ Extending(s)
  BY ReadyFacts, AmountsAreNat
<1>1. CountsAgree(s)
  BY ReadyFacts
<1>2. ~Fault("token")
  BY DEF Fault
<1>3. CASE ReserveToken(r)
  <2>1. /\ s.pc = "topup" /\ s.refund = "idle" /\ ~s.settled /\ s.arg \in Nat /\ UNCHANGED <<ledgerVars, subscription, preRecord>>
        /\ s.tokenConsumed = s.preConsumedQuota
    BY <1>0, <1>1, <1>3 DEF ReserveToken, At, CountsAgree, fundingVars, Extending, Before
  <2>2. CASE ChangeToken(r, -s.arg) /\ Set(r, [s EXCEPT !.pc = "open", !.arg = 0, !.preConsumedQuota = @ + s.arg,
                              !.tokenConsumed = @ + s.arg, !.extraReserved = @ + s.arg])
    <3>1. PICK row : row = [s EXCEPT !.pc = "open", !.arg = 0, !.preConsumedQuota = @ + s.arg,
                              !.tokenConsumed = @ + s.arg, !.extraReserved = @ + s.arg]
      OBVIOUS
    <3>2. row \in SessionRow
      <4>1. /\ "open" \in Steps /\ 0 \in Int /\ s.preConsumedQuota + s.arg \in Nat
            /\ s.tokenConsumed + s.arg \in Nat /\ s.extraReserved + s.arg \in Nat
        BY <1>0, <2>1 DEF Steps
      <4> QED BY <1>0, <3>1, <4>1, HandlerRows, Zenon
    <3>3. /\ row.pc = "open" /\ row.arg = 0 /\ row.preConsumedQuota = s.preConsumedQuota + s.arg /\ row.source = s.source
          /\ row.tokenConsumed = s.tokenConsumed + s.arg /\ row.extraReserved = s.extraReserved + s.arg
          /\ row.refund = s.refund /\ row.settled = s.settled /\ row.trusted = s.trusted /\ row.consumed = s.consumed
      BY <1>0, <3>1 DEF SessionRow
    <3>4. CountsAgree(row)
      BY <1>0, <1>1, <2>1, <3>3 DEF CountsAgree, Before, Paid, Holding, Returning
    <3>5. ~Before(row) /\ ~Before(s) /\ Holding(row) /\ Holding(s) /\ ~Paid(row) /\ ~Paid(s) /\ ~Returned(row) /\ ~Returned(s)
      BY <2>1, <3>3 DEF Before, Paid, Holding, Returned, Returning
    <3>6. Funded(row) = Funded(s)
      BY <1>0, <2>1, <3>3, <3>5 DEF Funded, Returning
    <3>7. -s.arg \in Int /\ TokenShare(row) = TokenShare(s) - (-s.arg)
      BY <1>0, <2>1, <3>3 DEF TokenShare
    <3>8. row.preConsumedQuota - row.extraReserved = s.preConsumedQuota - s.extraReserved
      BY <1>0, <2>1, <3>3
    <3> HIDE DEF s
    <3> QED BY <2>1, <2>2, <3>1, <3>2, <3>3, <3>4, <3>5, <3>6, <3>7, <3>8, LaterEffect DEF s
  <2>3. CASE UNCHANGED token /\ Set(r, [s EXCEPT !.pc = "topdown"])
    <3>1. PICK row : row = [s EXCEPT !.pc = "topdown"]
      OBVIOUS
    <3>2. row \in SessionRow
      BY <1>0, <3>1, HandlerRows DEF Steps
    <3>3. /\ row.pc = "topdown" /\ row.arg = s.arg /\ row.preConsumedQuota = s.preConsumedQuota /\ row.source = s.source
          /\ row.tokenConsumed = s.tokenConsumed /\ row.extraReserved = s.extraReserved
          /\ row.refund = s.refund /\ row.settled = s.settled /\ row.trusted = s.trusted /\ row.consumed = s.consumed
      BY <1>0, <3>1 DEF SessionRow
    <3>4. CountsAgree(row)
      BY <1>0, <1>1, <2>1, <3>3 DEF CountsAgree, Before, Paid, Holding, Returning
    <3>5. ~Before(row) /\ ~Before(s) /\ Holding(row) /\ Holding(s) /\ ~Paid(row) /\ ~Paid(s) /\ ~Returned(row) /\ ~Returned(s)
      BY <2>1, <3>3 DEF Before, Paid, Holding, Returned, Returning
    <3>6. Funded(row) = Funded(s) /\ TokenShare(row) = TokenShare(s)
      BY <3>3, <3>5 DEF Funded, TokenShare, Returning
    <3> HIDE DEF s
    <3> QED BY <2>1, <2>3, <3>1, <3>2, <3>3, <3>4, <3>5, <3>6, LaterEffect DEF s
  <2> QED BY <1>2, <1>3, <2>2, <2>3 DEF ReserveToken
<1>4. CASE SettleToken(r)
  <2>1. /\ s.pc = "settle" /\ s.refund = "idle" /\ ~s.settled /\ UNCHANGED <<ledgerVars, subscription, preRecord>>
        /\ ChangeToken(r, -s.arg)
    BY <1>1, <1>2, <1>4 DEF SettleToken, At, CountsAgree, fundingVars
  <2>2. PICK row : row = [s EXCEPT !.pc = "closed", !.settled = TRUE]
    OBVIOUS
  <2>3. row \in SessionRow /\ Set(r, row)
    BY <1>0, <1>4, <2>2, HandlerRows DEF Steps, SettleToken
  <2>4. /\ row.pc = "closed" /\ row.arg = s.arg /\ row.preConsumedQuota = s.preConsumedQuota /\ row.source = s.source
        /\ row.tokenConsumed = s.tokenConsumed /\ row.extraReserved = s.extraReserved
        /\ row.refund = s.refund /\ row.settled = TRUE /\ row.trusted = s.trusted
    BY <1>0, <2>2 DEF SessionRow
  <2>5. ~Before(row) /\ ~Before(s) /\ ~Holding(row) /\ ~Holding(s) /\ Paid(row) /\ Paid(s) /\ ~Returned(row) /\ ~Returned(s)
    BY <2>1, <2>4 DEF Before, Paid, Holding, Returned, Returning
  <2>6. CountsAgree(row)
    BY <1>1, <2>1, <2>4 DEF CountsAgree, Before, Paid, Holding, Returning
  <2>7. Funded(row) = Funded(s) /\ -s.arg \in Int /\ TokenShare(row) = TokenShare(s) - (-s.arg)
    BY <1>0, <2>1, <2>4, <2>5 DEF Funded, TokenShare, Returning
  <2> HIDE DEF s
  <2> QED BY <2>1, <2>3, <2>4, <2>5, <2>6, <2>7, LaterEffect DEF s
<1>5. ASSUME NEW row, row \in {[s EXCEPT !.pc = "closed"], [s EXCEPT !.pc = "unsettled"],
                               [s EXCEPT !.pc = "closed", !.refunded = TRUE, !.refund = "funding"]},
             Set(r, row), s.pc \in {"open", "unsettled"}, UNCHANGED <<ledgerVars, fundingVars, token>>
      PROVE  Moved(r)
  <2>1. s.refund = "idle" /\ ~s.settled /\ UNCHANGED <<ledgerVars, subscription, preRecord>> /\ UNCHANGED token
    BY <1>1, <1>5 DEF CountsAgree, fundingVars
  <2>2. row \in SessionRow
    <3>1. [s EXCEPT !.pc = "closed"] \in SessionRow
      BY <1>0, HandlerRows DEF Steps
    <3>2. [s EXCEPT !.pc = "unsettled"] \in SessionRow
      BY <1>0, HandlerRows DEF Steps
    <3>3. [s EXCEPT !.pc = "closed", !.refunded = TRUE, !.refund = "funding"] \in SessionRow
      BY <1>0, HandlerRows DEF Steps, RefundSteps
    <3> QED BY <1>5, <3>1, <3>2, <3>3, Zenon
  <2>3. /\ row.pc \in {"closed", "unsettled"} /\ row.arg = s.arg /\ row.preConsumedQuota = s.preConsumedQuota /\ row.source = s.source
        /\ row.tokenConsumed = s.tokenConsumed /\ row.extraReserved = s.extraReserved
        /\ row.refund = s.refund \/ (row.refund = "funding" /\ row.pc = "closed")
        /\ row.settled = s.settled /\ row.trusted = s.trusted
    BY <1>0, <1>5 DEF SessionRow
  <2>4. ~Before(row) /\ ~Before(s) /\ Holding(row) /\ Holding(s) /\ ~Paid(row) /\ ~Paid(s) /\ ~Returned(row) /\ ~Returned(s)
    BY <1>5, <2>1, <2>3 DEF Before, Paid, Holding, Returned, Returning
  <2>5. CountsAgree(row)
    BY <1>1, <1>5, <2>1, <2>3 DEF CountsAgree, Before, Paid, Holding, Returning, Returned
  <2>6. Funded(row) = Funded(s) /\ TokenShare(row) = TokenShare(s) /\ row.refund # "mark"
    BY <2>1, <2>3, <2>4 DEF Funded, TokenShare, Returning
  <2> HIDE DEF s
  <2> QED BY <1>5, <2>1, <2>2, <2>3, <2>4, <2>5, <2>6, LaterEffect DEF s
<1>6. CASE LogSettlementError(r)
  BY <1>5, <1>6 DEF LogSettlementError, At
<1>7. CASE Refund(r)
  BY <1>5, <1>7 DEF Refund
<1>8. CASE Set(r, [s EXCEPT !.pc = "unsettled"]) /\ At(r, "open") /\ UNCHANGED <<ledgerVars, fundingVars, token>>
  BY <1>5, <1>8 DEF At
<1>9. CASE RefundToken(r)
  <2>1. /\ s.refund = "token" /\ s.pc = "closed" /\ ~s.settled /\ UNCHANGED <<ledgerVars, subscription, preRecord>>
        /\ ChangeToken(r, s.tokenConsumed)
    BY <1>1, <1>2, <1>9 DEF RefundToken, CountsAgree, fundingVars
  <2>2. PICK row : row = [s EXCEPT !.refund = "done"]
    OBVIOUS
  <2>3. row \in SessionRow /\ Set(r, row)
    BY <1>0, <1>9, <2>2, HandlerRows DEF RefundSteps, RefundToken
  <2>4. /\ row.pc = s.pc /\ row.arg = s.arg /\ row.preConsumedQuota = s.preConsumedQuota /\ row.source = s.source
        /\ row.tokenConsumed = s.tokenConsumed /\ row.extraReserved = s.extraReserved
        /\ row.refund = "done" /\ row.settled = s.settled /\ row.trusted = s.trusted
    BY <1>0, <2>2 DEF SessionRow
  <2>5. ~Before(row) /\ ~Before(s) /\ ~Holding(row) /\ ~Holding(s) /\ ~Paid(row) /\ ~Paid(s) /\ Returned(row) /\ Returned(s)
    BY <2>1, <2>4 DEF Before, Paid, Holding, Returned, Returning
  <2>6. CountsAgree(row)
    BY <1>1, <2>1, <2>4 DEF CountsAgree, Before, Paid, Holding, Returning, Returned
  <2>7. Funded(row) = Funded(s) /\ s.tokenConsumed \in Int /\ TokenShare(row) = TokenShare(s) - s.tokenConsumed
    BY <1>0, <2>1, <2>4, <2>5 DEF Funded, TokenShare
  <2> HIDE DEF s
  <2> QED BY <2>1, <2>3, <2>4, <2>5, <2>6, <2>7, LaterEffect DEF s
<1> QED BY <1>3, <1>4, <1>6, <1>7, <1>8, <1>9

(* A step of a request on its wallet moves the operation only.             *)
LEMMA WalletEffect ==
  ASSUME Ready, NEW r \in Ops, NEW row \in SessionRow, Set(r, row), NEW op,
         operation' = [operation EXCEPT ![r] = op], UNCHANGED <<subscription, preRecord, token>>,
         session[r].source = "wallet", row.source = "wallet",
         CountsAgree(row), WalletAgrees(row, op), TokenShare(row) = TokenShare(session[r])
  PROVE  Moved(r)
<1> DEFINE s == session[r]
           rec == preRecord[r]
<1>0. /\ token \in [Tokens -> Int] /\ TokenOf[r] \in Tokens /\ token[TokenOf[r]] \in Int /\ TokenShare(s) \in Int
      /\ rec \in SubscriptionPreConsumeRecord /\ preRecord \in [Ops -> SubscriptionPreConsumeRecord] /\ RecordAgrees(s, rec)
  BY ReadyFacts
<1>1. preRecord' = [preRecord EXCEPT ![r] = rec]
  BY <1>0
<1>2. Agrees(row, op, rec)
  BY <1>0 DEF Agrees, RecordAgrees
<1>3. token' = [token EXCEPT ![TokenOf[r]] = @ - (TokenShare(row) - TokenShare(s))]
  BY <1>0
<1>4. subscription' = [k \in Subs |-> [subscription[k] EXCEPT !.used = @ + (Charged(k, row, rec) - Charged(k, s, rec))]]
  <2>1. \A k \in Subs : Charged(k, row, rec) = 0 /\ Charged(k, s, rec) = 0
    BY DEF Charged
  <2>2. \A k \in Subs : [subscription[k] EXCEPT !.used = @ + (0 - 0)] = subscription[k]
    BY DEF Ready, SubsTyped, SubscriptionRow
  <2>3. subscription = [k \in Subs |-> subscription[k]]
    BY DEF Ready, SubsTyped
  <2> QED BY <2>1, <2>2, <2>3
<1>5. Effect(r, row, op, rec)
  BY <1>0, <1>1, <1>2, <1>3, <1>4 DEF Effect, Set
<1> QED BY <1>5 DEF Moved

(* A step of a request on its subscription moves the counter and the       *)
(* record only.                                                            *)
LEMMA CounterEffect ==
  ASSUME Ready, NEW r \in Ops, NEW row \in SessionRow, Set(r, row), NEW rec \in SubscriptionPreConsumeRecord,
         preRecord' = [preRecord EXCEPT ![r] = rec], UNCHANGED <<operation, token>>,
         session[r].source = "subscription", row.source = "subscription", rec.sub \in Subs,
         preRecord[r].sub = rec.sub \/ Funded(session[r]) = 0,
         subscription' = [subscription EXCEPT ![rec.sub].used = @ + (Funded(row) - Funded(session[r]))],
         CountsAgree(row), RecordAgrees(row, rec), TokenShare(row) = TokenShare(session[r])
  PROVE  Moved(r)
<1> DEFINE s == session[r]
           op == operation[r]
           old == preRecord[r]
<1>0. /\ token \in [Tokens -> Int] /\ TokenOf[r] \in Tokens /\ token[TokenOf[r]] \in Int /\ TokenShare(s) \in Int
      /\ operation \in [Ops -> OperationRow] /\ WalletAgrees(s, op) /\ Funded(s) \in Nat
  BY ReadyFacts
<1>1. operation' = [operation EXCEPT ![r] = op]
  BY <1>0
<1>2. Agrees(row, op, rec)
  BY <1>0 DEF Agrees, WalletAgrees
<1>3. token' = [token EXCEPT ![TokenOf[r]] = @ - (TokenShare(row) - TokenShare(s))]
  BY <1>0
<1>4. subscription' = [k \in Subs |-> [subscription[k] EXCEPT !.used = @ + (Charged(k, row, rec) - Charged(k, s, old))]]
  <2>1. /\ Charged(rec.sub, row, rec) = Funded(row) /\ Charged(rec.sub, s, old) = Funded(s)
        /\ \A k \in Subs : k # rec.sub => Charged(k, row, rec) = 0 /\ Charged(k, s, old) = 0
    BY DEF Charged
  <2>2. \A k \in Subs : [subscription[k] EXCEPT !.used = @ + (0 - 0)] = subscription[k]
    BY DEF Ready, SubsTyped, SubscriptionRow
  <2>3. subscription = [k \in Subs |-> subscription[k]]
    BY DEF Ready, SubsTyped
  <2>4. subscription' = [k \in Subs |-> IF k = rec.sub THEN [subscription[k] EXCEPT !.used = @ + (Funded(row) - Funded(s))]
                                        ELSE subscription[k]]
    BY <2>3
  <2>5. ASSUME NEW k \in Subs
        PROVE  (IF k = rec.sub THEN [subscription[k] EXCEPT !.used = @ + (Funded(row) - Funded(s))] ELSE subscription[k])
                 = [subscription[k] EXCEPT !.used = @ + (Charged(k, row, rec) - Charged(k, s, old))]
    <3>1. CASE k = rec.sub
      BY <2>1, <3>1
    <3>2. CASE k # rec.sub
      BY <2>1, <2>2, <3>2
    <3> QED BY <3>1, <3>2
  <2> QED BY <2>4, <2>5
<1>5. Effect(r, row, op, rec)
  BY <1>0, <1>1, <1>2, <1>3, <1>4 DEF Effect, Set
<1> QED BY <1>5 DEF Moved

(* A counter is never below what one request has taken from it, so it is   *)
(* never clamped at zero.                                                  *)
LEMMA CounterCovers ==
  ASSUME Ready, NEW r \in Ops, session[r].source = "subscription", ~Before(session[r])
  PROVE  /\ preRecord[r].sub \in Subs
         /\ subscription[preRecord[r].sub] \in SubscriptionRow
         /\ subscription[preRecord[r].sub].used \in Nat
         /\ Funded(session[r]) \in Nat
         /\ Funded(session[r]) <= subscription[preRecord[r].sub].used
<1>0. preRecord[r].sub \in Subs
  BY ReadyFacts DEF RecordAgrees
<1>1. PICK k \in Subs : k = preRecord[r].sub
  BY <1>0
<1>2. \A p \in Ops : Charged(k, session[p], preRecord[p]) \in Nat
  <2>1. \A p \in Ops : Funded(session[p]) \in Nat
    BY ReadyFacts
  <2> QED BY <2>1 DEF Charged
<1>3. SubCharges(k)[r] = Funded(session[r]) /\ DOMAIN SubCharges(k) = Ops /\ \A p \in Ops : SubCharges(k)[p] \in Nat
  BY <1>1, <1>2 DEF SubCharges, Charged
<1>4. SubCharges(k)[r] <= SumFunction(SubCharges(k))
  BY <1>3, SumAtLeast DEF Ready, FiniteTables
<1>5. subscription[k].used = SumFunction(SubCharges(k)) /\ subscription[k] \in SubscriptionRow
  BY DEF Ready, BooksAgree, SubsTyped
<1>6. subscription[k].used \in Nat
  BY <1>5 DEF SubscriptionRow
<1> QED BY <1>0, <1>1, <1>3, <1>4, <1>5, <1>6, ReadyFacts

(* A delta that leaves the counter at zero or above is applied as it is.   *)
LEMMA DeltaApplies ==
  ASSUME NEW k, NEW d \in Int, PostConsumeUserSubscriptionDelta(k, d),
         subscription[k].used \in Nat, subscription[k].used + d >= 0
  PROVE  subscription' = [subscription EXCEPT ![k].used = @ + d] /\ UNCHANGED preRecord
<1>1. UsedAfter(k, d) = subscription[k].used + d
  BY DEF UsedAfter
<1>2. subscription' = [subscription EXCEPT ![k].used = UsedAfter(k, d)] /\ UNCHANGED preRecord
  BY DEF PostConsumeUserSubscriptionDelta
<1> QED BY <1>1, <1>2

(* The subscription that is chosen is one of the list.                     *)
LEMMA ChosenSubscription ==
  ASSUME NEW u, NEW amount, Candidates(u, amount) # {}
  PROVE  Choice(u, amount) \in DOMAIN SubOrder /\ SubOrder[Choice(u, amount)] \in Subs
<1>1. PICK C : C = Candidates(u, amount)
  OBVIOUS
<1>2. C \in SUBSET DOMAIN SubOrder /\ SubOrder \in Seq(Subs)
  BY <1>1, SubscriptionAssumption DEF Candidates
<1>3. DOMAIN SubOrder \in SUBSET Nat
  BY <1>2
<1>4. Min(C) \in C /\ \A y \in C : Min(C) <= y
  BY <1>1, <1>2, <1>3, MinNat
<1>5. Choice(u, amount) \in C
  BY <1>1, <1>4 DEF Choice
<1> QED BY <1>2, <1>5

(* Taking the pre-consumed quota from the source opens the reservation; a  *)
(* source that is insufficient takes nothing.                              *)
LEMMA BeginEffect ==
  ASSUME Ready, NEW r \in Ops, faults = 0, faults' = 0, PreConsumeFunding(r)
  PROVE  Moved(r)
<1> DEFINE s == session[r]
<1>0. /\ s \in SessionRow /\ session \in [Ops -> SessionRow] /\ Effective(s) \in Nat /\ Want(s) \in Nat /\ s.tokenConsumed \in Nat
      /\ operation \in [Ops -> OperationRow] /\ preRecord \in [Ops -> SubscriptionPreConsumeRecord]
  BY ReadyFacts, AmountsAreNat
<1>1. CountsAgree(s) /\ WalletAgrees(s, operation[r]) /\ RecordAgrees(s, preRecord[r])
  BY ReadyFacts
<1>2. s.pc = "fund" /\ Before(s) /\ UNCHANGED <<token, usage>>
  BY DEF PreConsumeFunding, At, Before
<1>3. /\ s.refund = "idle" /\ ~s.settled /\ s.extraReserved = 0 /\ s.arg = 0 /\ s.tokenConsumed = Effective(s)
      /\ s.source \in {"wallet", "subscription"} /\ (s.source = "subscription" => ~s.trusted)
  BY <1>1, <1>2 DEF CountsAgree, Before, Paid
<1>4. operation[r].state = "absent" /\ preRecord[r].status = "none"
  BY <1>1, <1>2 DEF WalletAgrees, RecordAgrees
<1>5. \A point : ~Fault(point)
  BY DEF Fault
<1>6. CASE FundingRefused(r, TRUE) /\ UNCHANGED <<ledgerVars, fundingVars>>
  <2>1. PICK row : row = [s EXCEPT !.pc = "unfund", !.retriable = TRUE]
    OBVIOUS
  <2>2. row \in SessionRow /\ Set(r, row)
    BY <1>0, <1>6, <2>1, HandlerRows DEF Steps, FundingRefused
  <2>3. /\ row.pc = "unfund" /\ row.tokenConsumed = s.tokenConsumed /\ row.refund = s.refund /\ row.settled = s.settled
        /\ row.extraReserved = s.extraReserved /\ row.arg = s.arg /\ row.trusted = s.trusted /\ row.source = s.source
    BY <1>0, <2>1 DEF SessionRow
  <2>4. CountsAgree(row) /\ Before(row)
    BY <1>3, <2>3 DEF CountsAgree, Before, Paid, Holding, Returning
  <2>5. Agrees(row, operation[r], preRecord[r])
    BY <1>4, <2>4 DEF Agrees, WalletAgrees, RecordAgrees
  <2>6. Funded(row) = 0 /\ Funded(s) = 0 /\ TokenShare(row) = TokenShare(s)
    BY <1>2, <2>3, <2>4 DEF Funded, TokenShare
  <2> QED BY <1>2, <1>6, <2>2, <2>5, <2>6, PlainEffect DEF fundingVars
<1>7. CASE Begin(r) /\ FundingReserved(r)
  <2>1. PICK row : row = [s EXCEPT !.pc = "open", !.preConsumedQuota = Effective(s),
                                   !.consumed = IF s.source = "wallet" THEN Effective(s) ELSE 0]
    OBVIOUS
  <2>2. row \in SessionRow /\ Set(r, row)
    BY <1>0, <1>7, <2>1, HandlerRows DEF Steps, FundingReserved
  <2>3. /\ row.pc = "open" /\ row.preConsumedQuota = Effective(s) /\ row.tokenConsumed = s.tokenConsumed
        /\ row.consumed = (IF s.source = "wallet" THEN Effective(s) ELSE 0)
        /\ row.refund = s.refund /\ row.settled = s.settled
        /\ row.extraReserved = s.extraReserved /\ row.arg = s.arg /\ row.trusted = s.trusted /\ row.source = s.source
    BY <1>0, <2>1 DEF SessionRow
  <2>4. CountsAgree(row)
    BY <1>0, <1>3, <2>3 DEF CountsAgree, Before, Paid, Holding, Returning
  <2>5. Holding(row) /\ ~Before(row) /\ ~Paid(row) /\ ~Returned(row) /\ ~Returning(row)
    BY <1>3, <2>3 DEF Before, Paid, Holding, Returned, Returning
  <2>6. Funded(row) = Effective(s) /\ Funded(s) = 0 /\ TokenShare(row) = TokenShare(s)
    BY <1>0, <1>2, <1>3, <2>3, <2>5 DEF Funded, TokenShare
  <2>7. CASE s.source = "wallet"
    <3>1. PICK op : op = [state |-> "reserved", reserved |-> Effective(s), actual |-> 0]
      OBVIOUS
    <3>2. operation' = [operation EXCEPT ![r] = op] /\ UNCHANGED <<subscription, preRecord>>
      BY <1>7, <2>7, <3>1 DEF Begin, BeginBillingOperation, fundingVars
    <3>3. WalletAgrees(row, op)
      BY <2>3, <2>5, <2>6, <2>7, <3>1 DEF WalletAgrees
    <3> HIDE DEF s
    <3> QED BY <1>2, <2>2, <2>3, <2>4, <2>6, <2>7, <3>2, <3>3, WalletEffect DEF s
  <2>8. CASE s.source = "subscription"
    <3> DEFINE u == UserOf(r)
               a == Want(s)
               k == SubOrder[Choice(u, a)]
    <3>1. ConsumeFrom(r, u, a) /\ UNCHANGED ledgerVars
      BY <1>4, <1>7, <2>8 DEF Begin, PreConsumeUserSubscription
    <3>2. k \in Subs
      BY <3>1, ChosenSubscription DEF ConsumeFrom
    <3>3. \A x \in Subs : maybeReset(subscription[x]) = subscription[x]
      BY DEF maybeReset, Ready, SubsTyped
    <3>4. /\ subscription' = [x \in Subs |-> IF x = k THEN [subscription[x] EXCEPT !.used = @ + a] ELSE subscription[x]]
          /\ preRecord' = [preRecord EXCEPT ![r] = [status |-> "consumed", user |-> u, sub |-> k, amount |-> a]]
      BY <3>1, <3>3 DEF ConsumeFrom
    <3>5. subscription \in [Subs -> SubscriptionRow]
      BY DEF Ready, SubsTyped
    <3> HIDE DEF k, a, u
    <3>6. subscription' = [subscription EXCEPT ![k].used = @ + a]
      BY <3>2, <3>4, <3>5
    <3>7. PICK rec : rec = [status |-> "consumed", user |-> u, sub |-> k, amount |-> a]
      OBVIOUS
    <3>8. a \in Nat /\ a = Effective(s)
      BY <1>0, <1>3, <2>8 DEF a, Effective
    <3>9. rec \in SubscriptionPreConsumeRecord /\ rec.sub = k /\ rec.status = "consumed" /\ rec.amount = a
      <4>1. u \in Users
        BY OwnerAssumption DEF u, UserOf
      <4> QED BY <3>2, <3>7, <3>8, <4>1 DEF SubscriptionPreConsumeRecord
    <3>10. RecordAgrees(row, rec)
      BY <1>3, <2>3, <2>5, <2>8, <3>2, <3>8, <3>9 DEF RecordAgrees
    <3>11. subscription' = [subscription EXCEPT ![rec.sub].used = @ + (Funded(row) - Funded(s))]
      <4>1. Funded(row) - Funded(s) = a
        BY <2>6, <3>8
      <4> QED BY <3>6, <3>9, <4>1
    <3>12. preRecord' = [preRecord EXCEPT ![r] = rec] /\ UNCHANGED operation
      BY <3>1, <3>4, <3>7 DEF ledgerVars
    <3> HIDE DEF s
    <3> QED BY <1>2, <2>2, <2>3, <2>4, <2>6, <2>8, <3>2, <3>9, <3>10, <3>11, <3>12, CounterEffect DEF s
  <2> QED BY <1>3, <2>7, <2>8
<1> QED BY <1>5, <1>6, <1>7 DEF PreConsumeFunding, Failed

(* The funding source is extended, or takes an extension back, by exactly  *)
(* the delta.                                                              *)
LEMMA ExtendEffect ==
  ASSUME Ready, NEW r \in Ops, NEW row \in SessionRow, Set(r, row), UNCHANGED token, NEW d \in Int, Extend(r, d),
         Holding(session[r]), Holding(row), row.source = session[r].source, CountsAgree(row),
         Funded(row) = Funded(session[r]) + d, TokenShare(row) = TokenShare(session[r]),
         session[r].source = "wallet" => session[r].consumed = Funded(session[r]),
         row.preConsumedQuota = session[r].preConsumedQuota, row.extraReserved = session[r].extraReserved
  PROVE  Moved(r)
<1> DEFINE s == session[r]
<1>0. /\ s \in SessionRow /\ operation \in [Ops -> OperationRow] /\ operation[r] \in OperationRow
      /\ preRecord \in [Ops -> SubscriptionPreConsumeRecord] /\ preRecord[r] \in SubscriptionPreConsumeRecord
      /\ Funded(s) \in Nat /\ CountsAgree(s) /\ WalletAgrees(s, operation[r]) /\ RecordAgrees(s, preRecord[r])
  BY ReadyFacts
<1>1. ~Before(s) /\ ~Before(row) /\ ~Paid(row) /\ ~Returned(row) /\ ~Returning(row) /\ s.source \in {"wallet", "subscription"}
  BY <1>0 DEF Holding, CountsAgree
<1>2. Funded(row) \in Nat
  BY SharesAreNumbers
<1>3. CASE s.source = "wallet"
  <2>1. PICK op : op = [operation[r] EXCEPT !.reserved = s.consumed + d]
    OBVIOUS
  <2>2. operation' = [operation EXCEPT ![r] = op] /\ UNCHANGED <<subscription, preRecord>>
    BY <1>3, <2>1 DEF Extend, ResizeBillingReservation, fundingVars
  <2>3. op.state = operation[r].state /\ op.reserved = s.consumed + d
    BY <1>0, <2>1 DEF OperationRow
  <2>4. WalletAgrees(row, op)
    BY <1>0, <1>1, <1>3, <2>3 DEF WalletAgrees
  <2> HIDE DEF s
  <2> QED BY <1>3, <2>2, <2>4, WalletEffect DEF s
<1>4. CASE s.source = "subscription"
  <2> DEFINE rec == preRecord[r]
  <2>1. PostConsumeUserSubscriptionDelta(rec.sub, d) /\ UNCHANGED ledgerVars
    BY <1>4 DEF Extend
  <2>2. /\ rec.sub \in Subs /\ subscription[rec.sub].used \in Nat
        /\ Funded(s) <= subscription[rec.sub].used
    BY <1>1, <1>4, CounterCovers
  <2>3. subscription[rec.sub].used + d >= 0
    BY <1>0, <1>2, <2>2
  <2>4. subscription' = [subscription EXCEPT ![rec.sub].used = @ + d] /\ UNCHANGED preRecord
    BY <2>1, <2>2, <2>3, DeltaApplies
  <2>5. Funded(row) - Funded(s) = d
    BY <1>0, <1>2
  <2>6. subscription' = [subscription EXCEPT ![rec.sub].used = @ + (Funded(row) - Funded(s))]
    BY <2>4, <2>5
  <2>7. RecordAgrees(row, rec)
    BY <1>0, <1>1, <1>4 DEF RecordAgrees
  <2>8. preRecord' = [preRecord EXCEPT ![r] = rec] /\ UNCHANGED operation /\ rec \in SubscriptionPreConsumeRecord
    BY <1>0, <2>1, <2>4 DEF ledgerVars
  <2> HIDE DEF s, rec
  <2> QED BY <1>4, <2>2, <2>6, <2>7, <2>8, CounterEffect DEF s, rec
<1> QED BY <1>1, <1>3, <1>4

(* Reserve and the roll-back of an extension the token refused.            *)
LEMMA ReserveEffect ==
  ASSUME Ready, NEW r \in Ops, faults = 0, faults' = 0,
         (\E target \in Amounts : ReserveFunding(r, target)) \/ RollbackFundingReserve(r)
  PROVE  Moved(r)
<1> DEFINE s == session[r]
<1>0. /\ s \in SessionRow /\ session \in [Ops -> SessionRow] /\ s.tokenConsumed \in Nat /\ s.arg \in Int
      /\ s.preConsumedQuota \in Nat /\ s.extraReserved \in Nat /\ Extending(s) /\ s.consumed \in Nat
  BY ReadyFacts, AmountsAreNat
<1>1. CountsAgree(s)
  BY ReadyFacts
<1>2. \A point : ~Fault(point)
  BY DEF Fault
<1>3. ASSUME NEW target \in Amounts, ReserveFunding(r, target) PROVE Moved(r)
  <2> DEFINE d == target - s.preConsumedQuota
             c == IF s.source = "wallet" THEN s.consumed + d ELSE s.consumed
  <2>1. /\ s.pc = "open" /\ d \in Nat /\ d \in Int /\ c \in Nat /\ UNCHANGED token
        /\ s.refund = "idle" /\ ~s.settled /\ s.arg = 0
    <3>1. s.pc = "open" /\ target > s.preConsumedQuota /\ target \in Nat /\ UNCHANGED token
      BY <1>3, AmountsAssumption DEF ReserveFunding, At
    <3>2. d \in Nat /\ d \in Int
      BY <1>0, <3>1
    <3> QED BY <1>0, <1>1, <3>1, <3>2 DEF CountsAgree, Paid
  <2>2. PICK row : row = [s EXCEPT !.pc = "topup", !.arg = d, !.consumed = c]
    OBVIOUS
  <2>3. Set(r, row) /\ Extend(r, d)
    BY <1>2, <1>3, <2>2 DEF ReserveFunding, Failed
  <2>4. row \in SessionRow
    <3> HIDE DEF d, c
    <3>1. "topup" \in Steps
      BY DEF Steps
    <3> QED BY <1>0, <2>1, <2>2, <3>1, HandlerRows, Zenon
  <2>5. /\ row.pc = "topup" /\ row.arg = d /\ row.consumed = c /\ row.preConsumedQuota = s.preConsumedQuota
        /\ row.tokenConsumed = s.tokenConsumed /\ row.refund = s.refund /\ row.settled = s.settled
        /\ row.extraReserved = s.extraReserved /\ row.trusted = s.trusted /\ row.source = s.source
    BY <1>0, <2>2 DEF SessionRow
  <2>6. s.source = "wallet" => s.consumed = s.preConsumedQuota + s.arg
    BY <1>1, <2>1 DEF CountsAgree
  <2>7. s.source = "wallet" => c = s.preConsumedQuota + d
    BY <1>0, <2>1, <2>6
  <2> HIDE DEF d, c
  <2>8. CountsAgree(row)
    BY <1>0, <1>1, <2>1, <2>5, <2>7 DEF CountsAgree, Before, Paid, Holding, Returning
  <2>9. ~Before(row) /\ ~Before(s) /\ Holding(row) /\ Holding(s) /\ ~Returned(row) /\ ~Returned(s) /\ ~Returning(s) /\ ~Returning(row)
    BY <2>1, <2>5 DEF Before, Paid, Holding, Returned, Returning
  <2>10. Funded(row) = s.preConsumedQuota + d /\ Funded(s) = s.preConsumedQuota + s.arg /\ TokenShare(row) = TokenShare(s)
    BY <2>1, <2>5, <2>9 DEF Funded, TokenShare
  <2>11. Funded(row) = Funded(s) + d /\ (s.source = "wallet" => s.consumed = Funded(s))
    BY <1>0, <2>1, <2>6, <2>10
  <2> HIDE DEF s
  <2> QED BY <2>1, <2>3, <2>4, <2>5, <2>8, <2>9, <2>10, <2>11, ExtendEffect DEF s
<1>4. CASE RollbackFundingReserve(r)
  <2> DEFINE c == IF s.source = "wallet" THEN s.consumed - s.arg ELSE s.consumed
  <2>1. /\ s.pc = "topdown" /\ s.arg \in Nat /\ -s.arg \in Int /\ c \in Nat /\ UNCHANGED token
        /\ s.refund = "idle" /\ ~s.settled
    <3>1. s.pc = "topdown" /\ UNCHANGED token
      BY <1>4 DEF RollbackFundingReserve, At
    <3>2. s.arg \in Nat /\ (s.source = "wallet" => s.arg <= s.consumed)
      BY <3>1, <1>0 DEF Extending
    <3> QED BY <1>0, <1>1, <3>1, <3>2 DEF CountsAgree
  <2>2. PICK row : row = [s EXCEPT !.pc = "open", !.arg = 0, !.consumed = c]
    OBVIOUS
  <2>3. Set(r, row) /\ Extend(r, -s.arg)
    <3>1. [[s EXCEPT !.pc = "open", !.arg = 0] EXCEPT !.consumed = IF s.source = "wallet" THEN @ - s.arg ELSE @] = row
      BY <1>0, <2>2 DEF SessionRow
    <3> QED BY <1>2, <1>4, <3>1 DEF RollbackFundingReserve, Failed
  <2>4. row \in SessionRow
    <3> HIDE DEF c
    <3>1. "open" \in Steps /\ 0 \in Int
      BY DEF Steps
    <3> QED BY <1>0, <2>1, <2>2, <3>1, HandlerRows, Zenon
  <2>5. /\ row.pc = "open" /\ row.arg = 0 /\ row.consumed = c /\ row.preConsumedQuota = s.preConsumedQuota
        /\ row.tokenConsumed = s.tokenConsumed /\ row.refund = s.refund /\ row.settled = s.settled
        /\ row.extraReserved = s.extraReserved /\ row.trusted = s.trusted /\ row.source = s.source
    BY <1>0, <2>2 DEF SessionRow
  <2>6. s.source = "wallet" => s.consumed = s.preConsumedQuota + s.arg
    BY <1>1, <2>1 DEF CountsAgree
  <2>7. s.source = "wallet" => c = s.preConsumedQuota
    BY <1>0, <2>1, <2>6
  <2> HIDE DEF c
  <2>8. CountsAgree(row)
    BY <1>0, <1>1, <2>1, <2>5, <2>7 DEF CountsAgree, Before, Paid, Holding, Returning
  <2>9. ~Before(row) /\ ~Before(s) /\ Holding(row) /\ Holding(s) /\ ~Returned(row) /\ ~Returned(s) /\ ~Returning(s) /\ ~Returning(row)
    BY <2>1, <2>5 DEF Before, Paid, Holding, Returned, Returning
  <2>10. Funded(row) = s.preConsumedQuota + 0 /\ Funded(s) = s.preConsumedQuota + s.arg /\ TokenShare(row) = TokenShare(s)
    BY <2>1, <2>5, <2>9 DEF Funded, TokenShare
  <2>11. Funded(row) = Funded(s) + (-s.arg) /\ (s.source = "wallet" => s.consumed = Funded(s))
    BY <1>0, <2>1, <2>6, <2>10
  <2> HIDE DEF s
  <2> QED BY <2>1, <2>3, <2>4, <2>5, <2>8, <2>9, <2>10, <2>11, ExtendEffect DEF s
<1> QED BY <1>3, <1>4

(* Settlement takes the difference to the actual usage from the source.    *)
LEMMA SettleEffect ==
  ASSUME Ready, NEW r \in Ops, faults = 0, faults' = 0, NEW actual \in Usages, SettleFunding(r, actual)
  PROVE  Moved(r)
<1> DEFINE s == session[r]
           d == actual - s.preConsumedQuota
<1>0. /\ s \in SessionRow /\ session \in [Ops -> SessionRow] /\ s.tokenConsumed \in Nat /\ s.arg \in Int
      /\ s.preConsumedQuota \in Nat /\ s.extraReserved \in Nat /\ s.consumed \in Nat
      /\ operation \in [Ops -> OperationRow] /\ operation[r] \in OperationRow
      /\ preRecord \in [Ops -> SubscriptionPreConsumeRecord] /\ preRecord[r] \in SubscriptionPreConsumeRecord
  BY ReadyFacts, AmountsAreNat
<1>1. CountsAgree(s) /\ WalletAgrees(s, operation[r]) /\ RecordAgrees(s, preRecord[r])
  BY ReadyFacts
<1>2. \A point : ~Fault(point)
  BY DEF Fault
<1>3. /\ s.pc = "open" /\ UNCHANGED token /\ actual \in Nat /\ d \in Int
      /\ s.refund = "idle" /\ ~s.settled /\ s.arg = 0 /\ s.source \in {"wallet", "subscription"}
  <2>1. s.pc = "open" /\ UNCHANGED token /\ actual \in Nat
    BY BoundAssumption DEF SettleFunding, At
  <2>2. d \in Int
    BY <1>0, <2>1
  <2> QED BY <1>1, <2>1, <2>2 DEF CountsAgree, Paid, Before
<1>4. ~Before(s) /\ Holding(s) /\ ~Paid(s) /\ ~Returned(s) /\ ~Returning(s) /\ Funded(s) = s.preConsumedQuota
  <2>1. ~Before(s) /\ Holding(s) /\ ~Paid(s) /\ ~Returned(s) /\ ~Returning(s)
    BY <1>3 DEF Before, Paid, Holding, Returned, Returning
  <2> QED BY <1>0, <1>3, <2>1 DEF Funded
<1>5. CASE Set(r, [s EXCEPT !.pc = "unsettled"]) /\ UNCHANGED <<ledgerVars, fundingVars>>
  BY <1>3, <1>5, HeldEffect DEF At
<1>6. CASE SettleWith(r, d) /\ Set(r, [s EXCEPT !.pc = "settle", !.arg = d, !.fundingSettled = TRUE])
  <2>1. PICK row : row = [s EXCEPT !.pc = "settle", !.arg = d, !.fundingSettled = TRUE]
    OBVIOUS
  <2>2. row \in SessionRow /\ Set(r, row)
    <3> HIDE DEF d
    <3> QED BY <1>0, <1>3, <1>6, <2>1, HandlerRows DEF Steps
  <2>3. /\ row.pc = "settle" /\ row.arg = d /\ row.preConsumedQuota = s.preConsumedQuota
        /\ row.tokenConsumed = s.tokenConsumed /\ row.refund = s.refund /\ row.settled = s.settled
        /\ row.extraReserved = s.extraReserved /\ row.trusted = s.trusted /\ row.source = s.source
    BY <1>0, <2>1 DEF SessionRow
  <2>4. ~Before(row) /\ ~Holding(row) /\ Paid(row) /\ ~Returned(row) /\ ~Returning(row)
    BY <1>3, <2>3 DEF Before, Paid, Holding, Returned, Returning
  <2>5. s.preConsumedQuota + d = actual
    BY <1>0, <1>3
  <2>6. Funded(row) = actual /\ TokenShare(row) = TokenShare(s)
    BY <1>3, <2>3, <2>4, <2>5 DEF Funded, TokenShare
  <2>7. CountsAgree(row)
    <3>1. row.preConsumedQuota + row.arg >= 0
      BY <1>3, <2>3, <2>5
    <3> HIDE DEF d
    <3> QED BY <1>1, <1>3, <1>4, <2>3, <2>4, <3>1 DEF CountsAgree
  <2>8. CASE s.source = "wallet"
    <3>1. s.consumed + d = actual
      <4>1. s.consumed = s.preConsumedQuota + s.arg
        BY <1>1, <1>3, <2>8 DEF CountsAgree
      <4> QED BY <1>0, <1>3, <4>1
    <3>2. operation[r].state = "reserved"
      BY <1>1, <1>4, <2>8 DEF WalletAgrees
    <3>3. SettleOperation(r, actual) /\ UNCHANGED <<subscription, preRecord>>
      <4>1. FinishBillingOperation(r, actual, FALSE) /\ UNCHANGED fundingVars
        BY <1>6, <2>8, <3>1 DEF SettleWith
      <4>2. ~AlreadyFinished(r, actual, FALSE)
        BY <3>2 DEF AlreadyFinished
      <4> QED BY <4>1, <4>2 DEF FinishBillingOperation, fundingVars
    <3>4. PICK op : op = [operation[r] EXCEPT !.state = "settled", !.actual = actual]
      OBVIOUS
    <3>5. operation' = [operation EXCEPT ![r] = op]
      BY <3>3, <3>4 DEF SettleOperation
    <3>6. op.state = "settled" /\ op.actual = actual
      BY <1>0, <3>4 DEF OperationRow
    <3>7. WalletAgrees(row, op)
      BY <2>4, <2>6, <3>6, <2>3, <2>8 DEF WalletAgrees
    <3> HIDE DEF s, d
    <3> QED BY <1>3, <2>2, <2>3, <2>6, <2>7, <2>8, <3>3, <3>5, <3>7, WalletEffect DEF s
  <2>9. CASE s.source = "subscription"
    <3> DEFINE rec == preRecord[r]
    <3>1. /\ rec.sub \in Subs /\ subscription[rec.sub].used \in Nat /\ subscription[rec.sub] \in SubscriptionRow
          /\ Funded(s) <= subscription[rec.sub].used
      BY <1>4, <2>9, CounterCovers
    <3>2. subscription[rec.sub].used + d >= 0
      BY <1>0, <1>3, <1>4, <2>5, <3>1
    <3>3. Funded(row) - Funded(s) = d
      BY <1>4, <2>6
    <3>4. subscription' = [subscription EXCEPT ![rec.sub].used = @ + d] /\ UNCHANGED preRecord /\ UNCHANGED ledgerVars
      <4>1. CASE d = 0
        <5>1. UNCHANGED <<subscription, preRecord>> /\ UNCHANGED ledgerVars
          BY <1>6, <2>9, <4>1 DEF SettleWith
        <5>2. subscription \in [Subs -> SubscriptionRow]
          BY DEF Ready, SubsTyped
        <5>3. subscription[rec.sub] = [subscription[rec.sub] EXCEPT !.used = @ + d]
          <6> HIDE DEF d
          <6> QED BY <3>1, <4>1 DEF SubscriptionRow
        <5> HIDE DEF d, rec
        <5> QED BY <3>1, <5>1, <5>2, <5>3
      <4>2. CASE d # 0
        <5>1. PostConsumeUserSubscriptionDelta(rec.sub, d) /\ UNCHANGED ledgerVars
          BY <1>6, <2>9, <4>2 DEF SettleWith
        <5> HIDE DEF d, rec
        <5> QED BY <1>3, <3>1, <3>2, <5>1, DeltaApplies
      <4> QED BY <4>1, <4>2
    <3>5. subscription' = [subscription EXCEPT ![rec.sub].used = @ + (Funded(row) - Funded(s))]
      BY <3>3, <3>4
    <3>6. RecordAgrees(row, rec)
      BY <1>3, <2>3, <2>4, <2>9, <3>1 DEF RecordAgrees
    <3>7. preRecord' = [preRecord EXCEPT ![r] = rec] /\ UNCHANGED operation /\ rec \in SubscriptionPreConsumeRecord
      BY <1>0, <3>4 DEF ledgerVars
    <3> HIDE DEF s, rec, d
    <3> QED BY <1>3, <2>2, <2>3, <2>6, <2>7, <2>9, <3>1, <3>5, <3>6, <3>7, CounterEffect DEF s, rec
  <2> QED BY <1>3, <2>8, <2>9
<1> QED BY <1>2, <1>5, <1>6 DEF SettleFunding, Failed

(* A refund gives back what the request has taken, the first amount and    *)
(* the extensions, in one step or in two.                                  *)
LEMMA RefundEffect ==
  ASSUME Ready, NEW r \in Ops, faults = 0, faults' = 0, RefundWallet(r) \/ RefundSubscription(r) \/ RefundExtraReserved(r)
  PROVE  Moved(r)
<1> DEFINE s == session[r]
           rec == preRecord[r]
<1>0. /\ s \in SessionRow /\ session \in [Ops -> SessionRow] /\ s.tokenConsumed \in Nat /\ s.arg \in Int
      /\ s.preConsumedQuota \in Nat /\ s.extraReserved \in Nat /\ s.consumed \in Nat
      /\ operation \in [Ops -> OperationRow] /\ operation[r] \in OperationRow
      /\ preRecord \in [Ops -> SubscriptionPreConsumeRecord] /\ rec \in SubscriptionPreConsumeRecord /\ rec.amount \in Nat
  BY ReadyFacts, AmountsAreNat DEF SubscriptionPreConsumeRecord
<1>1. CountsAgree(s) /\ WalletAgrees(s, operation[r]) /\ RecordAgrees(s, rec)
  BY ReadyFacts
<1>2. \A point : ~Fault(point)
  BY DEF Fault
<1>3. s.refund \in {"funding", "mark", "extra"} /\ UNCHANGED token
  BY <1>2 DEF RefundWallet, RefundSubscription, RefundExtraReserved
<1>4. s.pc = "closed" /\ ~s.settled /\ ~Before(s) /\ ~Paid(s) /\ ~Returned(s) /\ s.arg = 0 /\ s.source \in {"wallet", "subscription"}
  BY <1>1, <1>3 DEF CountsAgree, Before, Paid, Returned
<1>5. ASSUME NEW f \in {"mark", "extra", "token"}, NEW row, row = [s EXCEPT !.refund = f],
             f \in {"mark", "extra"} => s.source = "subscription"
      PROVE  /\ row \in SessionRow /\ row.refund = f /\ row.source = s.source /\ row.extraReserved = s.extraReserved /\ CountsAgree(row)
             /\ ~Before(row) /\ ~Paid(row) /\ ~Holding(row) /\ TokenShare(row) = TokenShare(s)
             /\ Funded(row) = IF f = "token" THEN 0 ELSE s.extraReserved
  <2>1. row \in SessionRow
    BY <1>0, <1>5, HandlerRows DEF RefundSteps
  <2>2. /\ row.pc = s.pc /\ row.arg = s.arg /\ row.preConsumedQuota = s.preConsumedQuota /\ row.source = s.source
        /\ row.tokenConsumed = s.tokenConsumed /\ row.extraReserved = s.extraReserved
        /\ row.refund = f /\ row.settled = s.settled /\ row.trusted = s.trusted
    BY <1>0, <1>5 DEF SessionRow
  <2>3. ~Before(row) /\ ~Paid(row) /\ ~Holding(row)
    BY <1>4, <1>5, <2>2 DEF Before, Paid, Holding, Returned, Returning
  <2>4. CountsAgree(row)
    BY <1>1, <1>4, <1>5, <2>2, <2>3 DEF CountsAgree, Returning
  <2>5. Funded(row) = IF f = "token" THEN 0 ELSE s.extraReserved
    BY <1>5, <2>2, <2>3 DEF Funded, Returned, Returning
  <2>6. TokenShare(row) = TokenShare(s)
    BY <1>3, <1>5, <2>2 DEF TokenShare
  <2> QED BY <2>1, <2>2, <2>3, <2>4, <2>5, <2>6
<1>6. CASE RefundWallet(r)
  <2>1. s.refund = "funding" /\ s.source = "wallet" /\ UNCHANGED <<subscription, preRecord>>
    BY <1>6 DEF RefundWallet, fundingVars
  <2>2. operation[r].state = "reserved"
    BY <1>1, <1>4, <2>1 DEF WalletAgrees, Holding, Returning
  <2>3. RefundOperation(r) /\ Set(r, AfterFunding(s))
    <3>1. ~AlreadyFinished(r, 0, TRUE)
      BY <2>2 DEF AlreadyFinished
    <3> QED BY <1>2, <1>6, <2>2, <3>1 DEF RefundWallet, FinishBillingOperation
  <2>4. PICK row : row = [s EXCEPT !.refund = "token"]
    OBVIOUS
  <2>5. Set(r, row)
    BY <2>1, <2>3, <2>4 DEF AfterFunding
  <2>6. /\ row \in SessionRow /\ row.refund = "token" /\ row.source = s.source /\ CountsAgree(row)
        /\ ~Before(row) /\ ~Paid(row) /\ ~Holding(row) /\ TokenShare(row) = TokenShare(s)
    BY <1>5, <2>4
  <2>7. PICK op : op = [operation[r] EXCEPT !.state = "refunded", !.actual = 0]
    OBVIOUS
  <2>8. operation' = [operation EXCEPT ![r] = op] /\ op.state = "refunded"
    BY <1>0, <2>3, <2>7 DEF RefundOperation, OperationRow
  <2>9. WalletAgrees(row, op)
    BY <2>1, <2>6, <2>8 DEF WalletAgrees
  <2> HIDE DEF s
  <2> QED BY <1>3, <2>1, <2>5, <2>6, <2>8, <2>9, WalletEffect DEF s
<1>7. ASSUME s.source = "subscription"
      PROVE  /\ rec.sub \in Subs /\ subscription[rec.sub].used \in Nat /\ subscription[rec.sub] \in SubscriptionRow
             /\ Funded(s) \in Nat /\ Funded(s) <= subscription[rec.sub].used
  BY <1>4, <1>7, CounterCovers
<1>8. ASSUME s.source = "subscription", NEW amount \in Nat, amount <= Funded(s),
             PostConsumeUserSubscriptionDelta(rec.sub, -amount)
      PROVE  subscription' = [subscription EXCEPT ![rec.sub].used = @ + (-amount)] /\ preRecord' = [preRecord EXCEPT ![r] = rec]
  <2>1. -amount \in Int /\ subscription[rec.sub].used \in Nat /\ subscription[rec.sub].used + (-amount) >= 0
    BY <1>7, <1>8
  <2> QED BY <1>0, <1>8, <2>1, DeltaApplies
<1>9. CASE RefundExtraReserved(r)
  <2>1. /\ s.refund = "extra" /\ Returning(s) /\ s.source = "subscription" /\ Set(r, [s EXCEPT !.refund = "token"])
        /\ UNCHANGED ledgerVars /\ PostConsumeUserSubscriptionDelta(rec.sub, -s.extraReserved)
    BY <1>1, <1>2, <1>9 DEF RefundExtraReserved, CountsAgree, Returning
  <2>2. Funded(s) = s.extraReserved
    BY <1>4, <2>1 DEF Funded
  <2>3. PICK row : row = [s EXCEPT !.refund = "token"]
    OBVIOUS
  <2>4. /\ row \in SessionRow /\ row.refund = "token" /\ row.source = s.source /\ CountsAgree(row)
        /\ ~Before(row) /\ ~Holding(row) /\ TokenShare(row) = TokenShare(s) /\ Funded(row) = 0
    BY <1>5, <2>3
  <2>5. subscription' = [subscription EXCEPT ![rec.sub].used = @ + (-s.extraReserved)] /\ preRecord' = [preRecord EXCEPT ![r] = rec]
    BY <1>0, <1>8, <2>1, <2>2
  <2>6. Funded(row) - Funded(s) = -s.extraReserved
    BY <1>0, <2>2, <2>4
  <2>7. subscription' = [subscription EXCEPT ![rec.sub].used = @ + (Funded(row) - Funded(s))]
    BY <2>5, <2>6
  <2>8. RecordAgrees(row, rec) /\ UNCHANGED operation
    BY <1>7, <2>1, <2>4 DEF RecordAgrees, ledgerVars
  <2> HIDE DEF s, rec
  <2> QED BY <1>0, <1>3, <1>7, <2>1, <2>3, <2>4, <2>5, <2>7, <2>8, CounterEffect DEF s, rec
<1>10. CASE RefundSubscription(r) /\ s.refund = "funding"
  <2>1. Holding(s) /\ s.source = "subscription" /\ UNCHANGED ledgerVars
    BY <1>4, <1>10 DEF RefundSubscription, Holding, Returning
  <2>2. rec.status = "consumed" /\ s.preConsumedQuota = rec.amount + s.extraReserved
    BY <1>1, <1>4, <2>1 DEF RecordAgrees
  <2>3. RefundLowersUsage(r) /\ Set(r, [s EXCEPT !.refund = "mark"])
    BY <1>2, <1>10, <2>2 DEF RefundSubscription
  <2>4. Funded(s) = rec.amount + s.extraReserved
    <3>1. Funded(s) = s.preConsumedQuota + s.arg
      BY <1>4, <2>1 DEF Funded, Holding
    <3> QED BY <1>0, <1>4, <2>2, <3>1
  <2>5. PICK row : row = [s EXCEPT !.refund = "mark"]
    OBVIOUS
  <2>6. /\ row \in SessionRow /\ row.refund = "mark" /\ row.source = s.source /\ CountsAgree(row)
        /\ ~Before(row) /\ ~Holding(row) /\ TokenShare(row) = TokenShare(s) /\ Funded(row) = s.extraReserved
    BY <1>5, <2>1, <2>5
  <2>7. subscription' = [subscription EXCEPT ![rec.sub].used = @ + (-rec.amount)] /\ preRecord' = [preRecord EXCEPT ![r] = rec]
    <3>1. rec.amount <= Funded(s) /\ PostConsumeUserSubscriptionDelta(rec.sub, -rec.amount)
      BY <1>0, <2>3, <2>4 DEF RefundLowersUsage
    <3> QED BY <1>0, <1>8, <2>1, <3>1
  <2>8. Funded(row) - Funded(s) = -rec.amount
    BY <1>0, <2>4, <2>6
  <2>9. subscription' = [subscription EXCEPT ![rec.sub].used = @ + (Funded(row) - Funded(s))]
    BY <2>7, <2>8
  <2>10. RecordAgrees(row, rec) /\ UNCHANGED operation
    BY <1>7, <2>1, <2>2, <2>6 DEF RecordAgrees, ledgerVars
  <2> HIDE DEF s, rec
  <2> QED BY <1>0, <1>3, <1>7, <2>1, <2>3, <2>5, <2>6, <2>7, <2>9, <2>10, CounterEffect DEF s, rec
<1>11. CASE RefundSubscription(r) /\ s.refund = "mark"
  <2>1. s.source = "subscription" /\ RefundMarksRecord(r) /\ Set(r, AfterFunding(s)) /\ UNCHANGED ledgerVars
    BY <1>2, <1>11 DEF RefundSubscription
  <2>2. PICK f \in {"extra", "token"} : AfterFunding(s) = [s EXCEPT !.refund = f] /\ (f = "token" => ~(s.extraReserved > 0))
    BY <2>1 DEF AfterFunding
  <2>3. PICK row : row = [s EXCEPT !.refund = f]
    OBVIOUS
  <2>4. /\ row \in SessionRow /\ row.refund = f /\ row.source = s.source /\ CountsAgree(row)
        /\ ~Before(row) /\ ~Holding(row) /\ TokenShare(row) = TokenShare(s)
        /\ Funded(row) = IF f = "token" THEN 0 ELSE s.extraReserved
    BY <1>5, <2>1, <2>3
  <2>5. Funded(s) = s.extraReserved
    BY <1>4, <1>11 DEF Funded, Returning
  <2>6. Funded(row) - Funded(s) = 0
    BY <1>0, <2>2, <2>4, <2>5
  <2>7. PICK new : new = [rec EXCEPT !.status = "refunded"]
    OBVIOUS
  <2>8. /\ new \in SubscriptionPreConsumeRecord /\ new.sub = rec.sub
        /\ preRecord' = [preRecord EXCEPT ![r] = new] /\ UNCHANGED <<subscription, operation>>
    BY <1>0, <2>1, <2>7 DEF RefundMarksRecord, SubscriptionPreConsumeRecord, ledgerVars
  <2>9. subscription' = [subscription EXCEPT ![new.sub].used = @ + (Funded(row) - Funded(s))]
    <3>1. subscription \in [Subs -> SubscriptionRow]
      BY DEF Ready, SubsTyped
    <3>2. \A k \in Subs : [subscription[k] EXCEPT !.used = @ + 0] = subscription[k]
      BY <3>1 DEF SubscriptionRow
    <3> QED BY <1>7, <2>1, <2>6, <2>8, <3>1, <3>2
  <2>10. RecordAgrees(row, new)
    BY <1>7, <2>1, <2>4, <2>8 DEF RecordAgrees
  <2> HIDE DEF s, rec
  <2> QED BY <1>3, <1>7, <2>1, <2>2, <2>3, <2>4, <2>8, <2>9, <2>10, CounterEffect DEF s, rec
<1>12. RefundSubscription(r) => s.refund \in {"funding", "mark"}
  BY DEF RefundSubscription
<1> QED BY <1>6, <1>9, <1>10, <1>11, <1>12

(* A step after which no call has failed and every node runs was taken     *)
(* from such a state.                                                      *)
LEMMA CleanBefore ==
  ASSUME SessionTypes, NEW r \in Ops, RequestMoves(r), Clean'
  PROVE  Clean /\ faults' = 0 /\ ~Crash(r)
<1>0. session \in [Ops -> SessionRow] /\ session[r] \in SessionRow /\ faults \in Nat
  BY BoundAssumption DEF SessionTypes, SessionTypeOK
<1>1. faults' = 0 /\ \A p \in Ops : session'[p].pc # "crashed"
  BY DEF Clean
<1>2. faults = 0
  <2>1. ASSUME NEW point, Fault(point) PROVE FALSE
    BY <1>0, <1>1, <2>1 DEF Fault
  <2>2. ASSUME NoFault \/ UNCHANGED faults PROVE faults = 0
    BY <1>1, <2>2 DEF NoFault
  <2>3. ASSUME HandlerStep(r) PROVE NoFault \/ UNCHANGED faults \/ \E point : Fault(point)
    BY <2>3 DEF HandlerStep, NewBillingSession, CheckWallet, PreConsumeTokenQuota, PreConsumeFunding, RollbackToken,
       ReserveFunding, ReserveToken, RollbackFundingReserve, SettleFunding, SettleToken, LogSettlementError, Refund, Failed
  <2>4. ASSUME RefundStep(r) \/ Crash(r) PROVE NoFault \/ UNCHANGED faults \/ \E point : Fault(point)
    BY <2>4 DEF RefundStep, RefundWallet, RefundSubscription, RefundExtraReserved, RefundToken, Crash
  <2> QED BY <2>1, <2>2, <2>3, <2>4 DEF RequestMoves
<1>3. ~Crash(r)
  BY <1>0, <1>1 DEF Crash, Set, SessionRow
<1>4. \A p \in Ops : p # r => session'[p] = session[p]
  <2>1. PICK row : session' = [session EXCEPT ![r] = row]
    BY StepChange DEF SessionChange, Set
  <2> QED BY <1>0, <2>1
<1>5. session[r].pc # "crashed"
  <2>1. ASSUME HandlerStep(r) PROVE session[r].pc # "crashed"
    BY <2>1 DEF HandlerStep, NewBillingSession, CheckWallet, PreConsumeTokenQuota, PreConsumeFunding, RollbackToken,
       ReserveFunding, ReserveToken, RollbackFundingReserve, SettleFunding, SettleToken, LogSettlementError, Refund, At
  <2>2. ASSUME RefundStep(r) PROVE session[r].pc # "crashed"
    <3>1. /\ AfterFunding(session[r]).pc = session[r].pc /\ AttemptFailed(session[r]).pc = session[r].pc
          /\ \A f : [session[r] EXCEPT !.refund = f].pc = session[r].pc
      BY <1>0 DEF AfterFunding, AttemptFailed, SessionRow
    <3>2. \E row : Set(r, row) /\ row.pc = session[r].pc
      BY <2>2, <3>1 DEF RefundStep, RefundWallet, RefundSubscription, RefundExtraReserved, RefundToken
    <3> QED BY <1>0, <1>1, <3>2 DEF Set
  <2> QED BY <1>3, <2>1, <2>2 DEF RequestMoves
<1> QED BY <1>1, <1>2, <1>3, <1>4, <1>5 DEF Clean

(* Every step of a request keeps the books in step while they are clean.   *)
LEMMA CleanBooksStep ==
  ASSUME FiniteTables, Playground = {}, LedgerOK, SessionTypes, SessionTypes', CleanBooks, [Next]_vars
  PROVE  CleanBooks'
<1>1. CASE UNCHANGED vars
  <2>1. UNCHANGED <<session, operation, preRecord, subscription, token, faults>>
    BY <1>1 DEF vars, ledgerVars, fundingVars, sessionVars
  <2>2. UNCHANGED <<Clean, RowsAgree, SubsTyped, TokenLoss, TokenShares, SubsUsed, Fundings>>
    BY <2>1 DEF Clean, RowsAgree, SubsTyped, TokenLoss, TokenShares, SubsUsed, Fundings
  <2>3. UNCHANGED WalletCosts /\ \A k : SubCharges(k)' = SubCharges(k)
    BY <2>1 DEF WalletCosts, WalletCost, SubCharges
  <2> QED BY <2>1, <2>2, <2>3 DEF CleanBooks, BooksAgree
<1>2. ASSUME NEW r \in Ops, RequestMoves(r), Clean' PROVE (RowsAgree /\ SubsTyped /\ BooksAgree)'
  <2>1. Clean /\ faults = 0 /\ faults' = 0 /\ ~Crash(r)
    BY <1>2, CleanBefore DEF Clean
  <2>2. Ready
    BY <2>1 DEF Ready, CleanBooks
  <2>3. Moved(r)
    <3>1. CASE HandlerStep(r)
      BY <2>1, <2>2, <3>1, EarlyEffect, TokenEffect, HeldEffect, BeginEffect, ReserveEffect, SettleEffect DEF HandlerStep
    <3>2. CASE RefundStep(r)
      BY <2>1, <2>2, <3>2, HeldEffect, RefundEffect DEF RefundStep
    <3> QED BY <1>2, <2>1, <3>1, <3>2 DEF RequestMoves
  <2>4. DOMAIN operation = Ops
    BY DEF LedgerOK, LedgerTypeOK
  <2> QED BY <2>2, <2>3, <2>4, EffectKeepsBooks DEF Moved, Ready
<1> QED BY <1>1, <1>2 DEF Next, RequestMoves, CleanBooks

(* Nothing is taken and nothing is lost at the start.                      *)
LEMMA CleanBooksFirst ==
  ASSUME FiniteTables, Init
  PROVE  CleanBooks
<1>1. \A r \in Ops : session[r] = NewSession
  BY SessionFirst
<1>2. /\ operation \in [Ops -> OperationRow] /\ (\A r \in Ops : operation[r].state = "absent")
      /\ token = TokenOpening /\ TokenOpening \in [Tokens -> Int]
  BY LedgerFirst, TokenAssumption DEF LedgerOK, LedgerTypeOK, Init, LedgerInit
<1>3. /\ subscription = [k \in Subs |-> [used |-> 0, due |-> FALSE, status |-> "active"]]
      /\ preRecord = [r \in Ops |-> [status |-> "none", user |-> NoUser, sub |-> NoSub, amount |-> 0]]
  BY DEF Init, SubInit, NoRecord
<1>4. /\ CountsAgree(NewSession) /\ Before(NewSession) /\ NewSession.source = "none"
      /\ Funded(NewSession) = 0 /\ TokenShare(NewSession) = 0
  BY DEF NewSession, CountsAgree, Before, Paid, Holding, Returning, Returned, Funded, TokenShare
<1>5. RowsAgree
  BY <1>1, <1>2, <1>3, <1>4 DEF RowsAgree, Agrees, WalletAgrees, RecordAgrees
<1>6. SubsTyped
  BY <1>3 DEF SubsTyped, SubscriptionRow, SubscriptionPreConsumeRecord
<1>7. SumFunction(TokenLoss) = 0
  BY <1>2, SumZero DEF TokenLoss, FiniteTables
<1>8. SumFunction(TokenShares) = 0 /\ SumFunction(Fundings) = 0
  BY <1>1, <1>4, SumZero DEF TokenShares, Fundings, FiniteTables
<1>9. SumFunction(WalletCosts) = 0
  BY <1>2, SumZero DEF WalletCosts, WalletCost, FiniteTables
<1>10. SumFunction(SubsUsed) = 0
  BY <1>3, SumZero DEF SubsUsed, FiniteTables
<1>11. ASSUME NEW k \in Subs PROVE subscription[k].used = SumFunction(SubCharges(k))
  <2>1. \A r \in Ops : SubCharges(k)[r] = 0
    BY <1>1, <1>4 DEF SubCharges, Charged
  <2>2. SumFunction(SubCharges(k)) = 0
    BY <2>1, SumZero DEF SubCharges, FiniteTables
  <2> QED BY <1>3, <2>2
<1>12. BooksAgree
  BY <1>7, <1>8, <1>9, <1>10, <1>11 DEF BooksAgree
<1> QED BY <1>5, <1>6, <1>12 DEF CleanBooks

(* Once every request has ended, what the tokens lost is what was taken.   *)
LEMMA QuietBooks ==
  ASSUME SessionTypes, CleanBooks
  PROVE  TokensAgreeWithFunding
<1> SUFFICES ASSUME faults = 0, \A r \in Ops : Quiet(r)
             PROVE  SumFunction(TokenLoss) = SumFunction(WalletCosts) + SumFunction(SubsUsed)
  BY DEF TokensAgreeWithFunding, TokenLoss, WalletCosts, SubsUsed
<1>1. Clean
  BY DEF Clean, Quiet
<1>2. RowsAgree /\ BooksAgree
  BY <1>1 DEF CleanBooks
<1>3. ASSUME NEW r \in Ops PROVE TokenShare(session[r]) = Funded(session[r])
  <2> DEFINE s == session[r]
  <2>1. s \in SessionRow /\ CountsAgree(s) /\ s.tokenConsumed \in Nat /\ s.preConsumedQuota \in Nat /\ s.arg \in Int
    BY <1>2, AmountsAreNat DEF RowsAgree, Agrees, SessionTypes, SessionTypeOK
  <2>2. s.pc \in {"new", "closed", "failed"} /\ s.refund \in {"idle", "done"}
    BY DEF Quiet, InRefund
  <2>3. CASE s.pc # "closed"
    BY <2>1, <2>2, <2>3 DEF CountsAgree, TokenShare, Funded, Before
  <2>4. CASE s.pc = "closed"
    <3>1. s.tokenConsumed = s.preConsumedQuota /\ (~s.settled => s.arg = 0) /\ (s.settled => s.refund = "idle")
      BY <2>1, <2>4 DEF CountsAgree, Before, Paid
    <3>2. TokenShare(s) = IF s.refund = "done" THEN 0 ELSE s.preConsumedQuota + s.arg
      <4>1. CASE s.settled
        BY <3>1, <4>1 DEF TokenShare
      <4>2. CASE ~s.settled
        BY <2>1, <3>1, <4>2 DEF TokenShare
      <4> QED BY <4>1, <4>2
    <3>3. Funded(s) = IF s.refund = "done" THEN 0 ELSE s.preConsumedQuota + s.arg
      BY <2>2, <2>4 DEF Funded, Before, Returning, Returned
    <3> QED BY <3>2, <3>3
  <2> QED BY <2>3, <2>4
<1>4. TokenShares = Fundings
  BY <1>3 DEF TokenShares, Fundings
<1> QED BY <1>2, <1>4 DEF BooksAgree

(* Tokens and funding sources are two books kept by different code: what   *)
(* the tokens lost is what the wallets and subscriptions of the same       *)
(* requests lost, once every request has ended and if no call failed and   *)
(* no node stopped, after any number of concurrent requests, fallbacks,    *)
(* extensions, roll-backs and refunds.  The tables are finite, as a        *)
(* database's are: a sum over an infinite set means nothing.               *)
THEOREM TokensMatchFunding ==
  ASSUME FiniteTables
  PROVE  Spec => []TokensAgreeWithFunding
<1>1. CASE Playground # {}
  <2>1. TokensAgreeWithFunding
    BY <1>1 DEF TokensAgreeWithFunding
  <2> QED BY <2>1, PTL
<1>2. CASE Playground = {}
  <2>1. Init => CleanBooks
    BY CleanBooksFirst
  <2>2. LedgerOK /\ SessionTypes /\ SessionTypes' /\ CleanBooks /\ [Next]_vars => CleanBooks'
    BY <1>2, CleanBooksStep
  <2>3. SessionTypes /\ CleanBooks => TokensAgreeWithFunding
    BY QuietBooks
  <2> QED BY <2>1, <2>2, <2>3, LedgerInvariant, SessionsTyped, PTL DEF Spec
<1> QED BY <1>1, <1>2
=============================================================================
