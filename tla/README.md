# TLA+ verification of the NovaMaaS billing, task and session core

NovaMaaS is a multi-tenant AI gateway (a Go backend with web, mini-app and
desktop front ends). Customers call models through API tokens; each call reserves
quota before it is relayed, and is settled or refunded afterwards. Long-running
media jobs are polled, swept and cancelled by several nodes. All nodes share one
SQL database (SQLite, MySQL or PostgreSQL) and, optionally, Redis.

This directory holds TLA+ models of the parts where a mistake costs somebody
money, blocks the cluster or shows somebody the wrong thing: the wallet ledger, the
billing of requests, subscription quota, asynchronous tasks, the cluster's
background-job runner, login sessions on the server and in the browser, and the
chat playground of the web front end.
TLC checks the models on small instances. TLAPS proves the safety properties of the
ledger, of subscription quota, of requests, tasks, the job runner, the session cache
and the sign-in state of a browser for every value of the constants.
`PROJECT.json` lists, for each definition, the source lines it stands for.

## 1. Inventory of the system

### Modelled components

| Component | State it keeps | Operations | What makes it hard | What makes it correct |
|---|---|---|---|---|
| Wallet ledger (`model/billing_ledger.go`) | `users.quota`, `billing_operations`, `billing_entries`, `billing_accounts`, `billing_hours`, quota of job rows | begin, resize and finish an operation; administrative adjustment and override; task and midjourney adjustments; accounting start and profile | five tables change per transaction; repeated and stale calls; a bounded balance; the accounting start may move | balance = opening + journal − held; gapless journal; charged exactly when settled; hour rows = recomputation |
| Request billing session (`service/billing_session.go`, `funding_source.go`, `billing.go`, `model/quota_reserve.go`) | per request: token part, funding part, reservation, flags; token counters | pre-consume, fall back, extend, settle, refund with retry | token and funding are separate books; a balance checked before use; lost answers; a refund goroutine; node stops | the charge is the usage; token and funding agree; nobody is overdrawn by pre-consumption; a refund releases the reservation |
| Subscription quota (`model/subscription.go`) | `amount_used`, next reset, status; pre-consume records | consume, settle, refund, reset, expire, delete, clean up | the refund uses two transactions; resets and expiry race requests; retries | never beyond the total; earliest expiry first; a record is given back once |
| Asynchronous tasks (`model/task.go`, `service/task_polling.go`, `task_billing.go`, `relay/relay_task.go`, `controller/volc_native.go`, `model/task_webhook.go`) | task rows with status, quota and webhook version; queued events | insert, poll, sweep, cancel, dashboard read, bulk failure; settle or refund the charge | whole-row write-back of old copies; five kinds of writers; three books per task | the outcome is decided once; the charge follows it; one event per transition |
| System task runner (`model/system_task.go`, `service/system_task.go`) | job rows with a unique `active_key`, one lock row per type with a lease, handlers | create, claim (7 statements), heartbeat, finish, release, expire stale locks | nodes pause and stop between statements; stale reads of the lock; statements that fail | a live lease is respected; one outcome per job; every job ends |
| Login sessions, server (`model/user_session.go`, `service/auth_session.go`, `controller/auth_session.go`) | `user_sessions` rows with the current and the previous refresh secret; a Redis entry per session | log in, refresh (rotate), sign out, revoke, validate | two callers of one secret; a cache filled late; fence, commit and tombstone are three calls | a revoked session is refused; an active one is not refused its own token |
| Sign-in state of the browser (`web/src/lib/auth-session.ts`, `auth-session-sync.ts`, `http-client.ts`, `stores/auth-store.ts`, `routes/__root.tsx`, `features/auth/api.ts`) | per tab: session, access token, bootstrap state, epoch, refresh under way; one cookie for all tabs | bootstrap, refresh under `navigator.locks`, retry an API call, sign in, sign out, hear events, reload | answers that arrive after the tab moved on; cookies overwritten by other tabs; events missed at start-up; lost answers | a signed-out session stays out; nobody waits for nothing; the tabs come to agree |
| Playground chat (`web/src/features/playground`) | messages, flags and refs of the page; the stream controller; React's queue; localStorage | send (form or prompt button), stop, regenerate, edit, delete, clear, open, leave; headers, deltas, end or error of a request; flush and save timers | closures and queued updaters of an old request; timers; unmounting; an editor that stays open | answers do not mix; a finished one is whole unless loading shortened it; no orphaned spinner, also after a reload; the input comes back |

Interactions: the session and the tasks call the ledger (wallet funding) and the
subscription counters (subscription funding), each call being its own database
transaction. A finished task transition queues webhook events in the same
transaction. The poll rounds and sweeps of tasks are themselves jobs of the system
task runner, but a round that lost its lease may still be running when the next
one starts, so `AsyncTask` assumes no exclusion between them. The browser's refresh
calls rotate the server's session row; `SessionCache` opens up, call by call, what
`AuthSession` takes as one step of the server. The playground asks the sign-in state
for fresh headers before it streams, which `PlaygroundChat` takes as a call that
answers, fails or comes too late.

### Components not modelled

| Component | Reason |
|---|---|
| Billing statements and corrections (`model/billing_statement.go`, `billing_correction*.go`) | planned next, see section 2 |
| Webhook delivery (`service/async_webhook_delivery.go`) | planned; `AsyncTask` covers the queueing side |
| Token and user quota cache, batch updater (`model/token_cache.go`, `user_cache.go`, `utils.go`) | planned; the models see one token counter and one balance |
| Midjourney polling (`controller/midjourney.go`) | planned; its refund transaction is in `BillingLedger` |
| Top-up, redemption, payment callbacks | planned; the wallet side is `PostBillingAdjustment` |
| Channel selection, rate limiting, asset library | candidates for later modules |
| Login flows, SMS challenges, OAuth, session limits, version changes of a user | the rest of authentication; one-time tokens are a candidate for a later module |
| Protocol conversion, upstream adaptors | data translation and streaming I/O without shared state |
| Pricing expressions | floating-point arithmetic; models take the resulting quota as input |
| Cost accounting, audit, logs, statistics, monitoring, settings | reports, counters that no billing decision reads, configuration |
| Other pages of the web front end | forms, tables and charts over the HTTP API. They are most of the TypeScript in the repository; their state is local form state and layout, about which there is little to say that a model would check |
| HTTP routing, mini app, desktop shell | wiring and user interfaces |

## 2. Plan

Done, in this order: `BillingLedger` and its proofs; `SubscriptionQuota` and its
proofs; `Metering` and `BillingSession`; `AsyncTask`; `SystemTaskRunner`;
`PlaygroundChat`; `AuthSession`; `SessionCache`.

Next modules, most important first:

1. `BillingStatement` extends `BillingLedger`: creation over a closed range of the
   journal, confirmation, revision, archive lease; then corrections (preview with
   digest, apply, reverse). It will write the variable `statements`, which today is
   always empty and only guards the accounting start. To show: a confirmed
   statement equals the journal of its range for ever, ranges do not overlap, an
   applied correction is reversed at most once.
2. `WebhookDelivery`: the 60 s lease, attempt ids, backoff and the 72 h limit,
   composed with the events of `AsyncTask`. To show: at-least-once delivery until
   the limit, a late answer of an old attempt changes nothing.
3. `QuotaCache`: Redis counters with their Lua scripts, compensation on database
   errors, cache expiry and the batch updater; refines the single token counter of
   `BillingSession`.
4. Subscription orders, top-ups and redemption under duplicated payment callbacks.
5. The midjourney polling loop, the asset-sync leader lease, rate limiting.

Next theorem: `UsageAccounted` of `SubscriptionQuota` for instances without roll-backs,
resets, settlements and clean-up (finding 1 shows that roll-backs break it); it needs the
sum lemmas of `BillingLedgerProofs` in a module of their own.

## 3. Modules

| Module | Role |
|---|---|
| `BillingLedger` | one action per wallet transaction |
| `SubscriptionQuota` | subscription counters and pre-consume records |
| `Metering` | abstract specification: a request is paid or waived at most once |
| `BillingSession` | extends `BillingLedger`, instantiates `SubscriptionQuota`; implements `Metering` |
| `AsyncTask` | extends `BillingLedger`, instantiates `SubscriptionQuota` |
| `SystemTaskRunner` | background jobs; independent of billing |
| `AuthSession` | the tabs of one browser, their cookie and the server's sessions |
| `SessionCache` | one server session with its Redis entry, call by call |
| `PlaygroundChat` | one conversation of the playground |
| `BillingLedgerProofs`, `SubscriptionProofs`, `BillingSessionProofs`, `AsyncTaskProofs`, `SystemTaskProofs`, `SessionCacheProofs`, `AuthSessionProofs`, `PlaygroundChatProofs` | the theorems about the module of that name |
| `MC*` | constants for TLC |

A definition called "plausible bug" in its comment is not part of any
specification: it is the wrong version of the definition that follows it, used to
confirm that the properties notice the difference.

### How state and steps correspond to the code

**BillingLedger.** Every function of `billing_ledger.go` locks the user row first
and the account row second and runs in one transaction, so it is one atomic step.
A call that returns an error rolls back and is not a step; callers test the
refusing condition themselves. Repeated calls are kept as explicit branches
(`AlreadyFinished`, `AlreadyPosted`). The clock counts hours because the summaries
do. `seen` in the job adjustments is the quota in the caller's copy. The UUID of a
job entry's key is replaced by the entry's position, which is just as unique.

**BillingSession.** `session[r]` is the `BillingSession` struct with the handler's
position (`pc`) and that of its refund goroutine (`refund`, `tries`). Each
database call is a step. A ledger call can succeed, fail without effect, or commit
with its answer lost; `FaultPoints` says which calls may, `MaxFaults` how often.
Token calls either work or fail. `Fallback` is the preference switch of
`NewBillingSession` (wallet first, subscription first, only one of them).

**SubscriptionQuota.** Time is reduced to "a reset is due" and "the subscription
has ended". `RefundSubscriptionPreConsume` is modelled as what it is: an inner
transaction that commits (`RefundLowersUsage`), then the outer commit
(`RefundMarksRecord`) or its roll-back.

**AsyncTask.** A worker holds a copy of a row (`LoadTask`), then writes the whole
copy back under the status compare-and-swap (`Persist`, `UpdateWithStatus`), then
bills in up to three further calls (`AdjustFunding`, `taskAdjustTokenQuota`,
`UpdateQuota`). `TaskBulkUpdateByID` is the writer without a guard. The model
starts with submissions that have been settled.

**SystemTaskRunner.** Every SQL statement of a claim and of a stale-lock pass is a
step. The lock row stores the time left; a pass stores how long ago it read the
clock, because the code keeps using that timestamp.

**AuthSession.** `tab[t]` is the auth store (`sid`, whether the access token is still
valid, `bootstrapState`) plus whether the root route is mounted (`up`); `refresh[t]`
is `refreshPromise` with its callers, `form[t]` a sign-in or sign-out under way,
`jar` the cookie. A request takes the cookie when it is sent; its answer changes the
cookie when it arrives, also when the tab has moved on. `Load` is a reload or
`location.replace`, which leaves the request it cuts off to the server (`orphans`).
The next refresh secret is derived from the current one, so a token is a session and
an age. For the same reason the answer `AUTH_REFRESH_RACE` cannot occur; the client's
branch for it is there and never taken. `authEpoch` is only ever compared with the
value at the start of a refresh, hence the flag `current`. Server handlers are single
steps: a rotation is a compare-and-swap, a revocation a transaction. Where a
revocation cuts into `RefreshLoginSession` the server answers 500 instead of 401,
which is `LoseRefresh`. Two assumptions about time are guards: the replay window of
30 s (`GraceEnds`) and the 15 minutes of an access token (`TokenExpires`) outlast a
request that is under way.

**SessionCache.** Each database and Redis call of `GetUserSessionCached` and
`RevokeUserSession` is a step, and the clock may tick between any two. A Redis call
that fails may have taken effect. Nodes and Redis read one clock, sessions do not
expire by themselves, and the version comparison of the script is left out (it
orders snapshots of one session after a version change, which is not modelled). A
revocation counts as over when the request that changed the row returns; a second
one that finds the row already revoked may return earlier.

**PlaygroundChat.** `messages` and `shown` are what the last render saw, `queue` and
`next` what has been set since. An updater runs in the render, against the refs of
that moment, except that React may evaluate the first one at once when nothing is
pending (`ran`). A click is a discrete event, at whose end React renders; the input
form submits from a promise callback, so a send is only queued. A text is the
sequence of the server's deltas; content and reasoning travel alike and are one
text, think tags and timing are left out. Unmounting and closing the tab drop the
requests; only unmounting saves what is pending. The history is loaded before the
user acts. Loading rewrites it: any text, that of a finished answer too, may be cut at
its front (`collapseRepeatedSectionSnapshots`) or at its end (`truncateText`), early
messages may be left out (`trimMessagesByContentSize`), or all of them
(`readStoredMessagesValue`), and the result is saved back. Lengths and headings decide
which; the model leaves that open. A shortened text keeps its letters as torn ones
(`shortenText`), of which all, some or nothing may be left, so that it has the authors
of the stored text and is not taken for the whole. The prompt buttons of the empty
conversation send too, also while a first request waits to be rendered
(`onSelectPrompt`).

## 4. Model-checking runs

State counts are distinct states.

| Run | Expect | Instance and why it is enough | What it shows |
|---|---|---|---|
| `ledger_wallet` | pass, 667 126 | one customer, two operations, one task, one midjourney job, one admin key, amounts {0, 2}, limit 3, two hours, journal of 3. Customers share no rows, so one is the general case; 3 entries allow charge, counter-charge and a third racing event; the limit is reachable | balances, journal, hour rows, operations and job charges reconcile; finished operations stay finished |
| `session` | pass, 416 061 | a wallet-first and a subscription-first request on one token, wallet 4 and subscription 3. An estimate of 2 fits the preferred source, one of 4 overflows to the wallet, so both compete for either source; trust bypass on for one of them; two faults and node stops | the charge is the usage, books agree across fallbacks, no overdraft by pre-consumption, refinement of `Metering`, refunds release reservations |
| `subscription_life` | pass, 1 181 952 | a subscription of one customer with total 1 that expires before the two of another with totals 2 and 3, two requests of either customer, settlements −1 and +2, all events | limits hold; a request is charged to its sender's subscription that expires first |
| `subscription_rollback` | violation | one subscription, three requests, roll-backs | finding 1 |
| `task_outcome` | pass, 185 120 | a subscription task and a wallet task, three workers that poll, sweep and cancel, one fault or node stop. Three workers: the loser of a race, its winner and a later round | the outcome is decided once, the charge follows the outcome and equals the journal (so nothing is refunded twice), the books agree |
| `task_events` | pass, 31 635 | one task, two workers in all five roles, one fault, four transitions | versions are consecutive and the newest event tells the status |
| `task_no_channel` | violation | poll and bulk failure | finding 2 |
| `task_realtime_read` | violation | poll, sweep and dashboard read | finding 3 |
| `system_task` | pass, 286 359 | two nodes, two rows, lease 2, pauses up to 2, two failing statements, one node may stop. Two rows let the claim of one job meet the lock of the other | leases respected, one outcome, orphans can be expired, every job ends; no deadlock |
| `playground_chat` | pass, 794 067 | two requests in either mode, answers of two deltas, one edit or deletion, the page opened twice, three stored messages. Two requests give the old and the new one of every race; two deltas let one be flushed and one be pending; three stored messages are fewer than the four of two exchanges | answers do not mix, finished answers that no load shortened are whole, no orphaned spinner, generation ends |
| `auth_session` | pass, 870 887 | two tabs, two sessions (one may exist at the start), two of sign-in, sign-out, revocation and loss, one abandoned request. Two acts make a sign-in race a sign-out, or either race a revocation, on top of any number of refreshes, expiries and reloads | own tokens are accepted, signed-out sessions stay out, waiters are answered, tabs agree |
| `session_cache` | pass, 2 952 289 | two validations that repeat, two revocations, TTL 2, clock to 6, one failing Redis call. Six ticks let a snapshot be delayed past the life of a fence and of a tombstone | a revoked session is refused; staleness is bounded |

Symmetry is used on operations (`ledger_wallet`), requests
(both subscription runs), workers (the task runs), and readers and revokers
(`session_cache`), where the constants treat the
values alike, and only in runs without liveness properties. Deadlock checking is
off except for the runner: requests, tasks and users come to an end, and the
bounded clocks and journals stop.

Bounds: `MaxHour`, `MaxVersion`, `MaxSequence`, `Amounts`, `Asked`, `Usages`,
`Consumptions`, `Deltas`, `Actuals`, `MaxTransitions`, `MaxFaults`, `MaxRows`,
`MaxPause`, `MaxErrors`, `MaxSends`, `MaxChunks`, `MaxMounts`, `MaxEdits`,
`MaxSessions`, `MaxActs`, `MaxOrphans`, `MaxLost` and `Horizon` are bounds of the
instances; `MaxWalletQuota`, `TrustQuota`, `TTL`, `maxAttempts` and `MaxStored` are
parameters of the code.

What the passing runs leave out on purpose:

- `session` excludes a failing roll-back of an extension (section 7).
- `task_outcome` excludes dashboard reads and the bulk failure (findings 2 and 3).
  `task_events` includes both.
- `UsageAccounted` is checked only in the violation run. With roll-backs switched
  off and neither resets nor settlements it holds.
- `system_task` bounds a pass by the lease (section 7).
- `playground_chat` assumes deltas that do not repeat the text before them, and
  exempts answers the editor saved over or a load shortened (section 7).
- `auth_session` assumes `navigator.locks` (section 7).

`BooksAgree`, `TokensAgreeWithFunding` and the failure half of
`ChargeMatchesOutcome` speak of behaviours without faults: after a failed call the
books do differ, the code logs it, and nothing repairs it.

### Fairness

- `BillingSession.FairSpec`: weak fairness of `RefundStep(r)`. The refund runs in a
  goroutine that waits for nothing but the database. No fairness is assumed of
  request handlers. `ReservationReleased` needs fewer failed attempts than
  `maxAttempts` (here at most two), and allows for the node to stop.
- `SystemTaskRunner.FairSpec`: weak fairness of the claim steps and of the stale-lock
  steps of each node (the runner loop of a live node makes both passes every 15
  seconds), of the end of a handler (a handler must return; its context is cancelled
  when the lease is lost), and of the clock. One node, `Survivor`, never stops, and
  only finitely many statements fail.
- `PlaygroundChat.FairSpec`: weak fairness of rendering (React renders what is queued)
  and of the end of the current request (the server answers, fails, or the
  connection ends). Nothing is assumed of the user, and no fairness of deltas.
- `AuthSession.FairSpec`: weak fairness of answers and of delivered events, and of the
  API calls of a tab in use, whose token expires. Strong fairness of a refresh that
  waits for the browser lock: `navigator.locks` grants requests in order, while the
  lock is taken and free again in between.

## 5. Findings

Each is a violation run; the text in `PROJECT.json` quotes the contradicting line.

1. `subscription_rollback`: the inner transaction of a subscription refund commits
   by itself; if the outer one then rolls back, a retry gives the same record back
   again (`model/subscription.go:1419`).
2. `task_no_channel`: tasks failed for a missing channel or upstream id are not
   refunded (`service/task_polling.go:156`).
3. `task_realtime_read`: a dashboard read can write a failed task back as in
   progress with its old quota, after which it is refunded again
   (`relay/relay_task.go:555`).

## 6. Proofs

TLAPS proves the theorems below for arbitrary sets of customers, operations, jobs,
subscriptions, requests, workers, nodes, readers and tabs, for conversations of any
length, and for arbitrary amounts, limits and bounds, under the named `ASSUME`s of the modules: typed owners and tokens,
opening balances and job quotas within the limit, natural amounts, totals and bounds, the
expiry order a sequence of subscriptions without repetition, finitely many tasks, a
lease and a TTL of at least one tick, answers of at least one delta. TLC evaluates these assumptions in every run. The inductive invariants
were checked by TLC on the instances of section 4 before they were proved.

### Ledger (`BillingLedgerProofs`)

| Theorem | Argument |
|---|---|
| `LedgerTypeCorrect` | `LedgerTypeOK` is inductive as it stands. `WalletTypes` and `AppendTypes` cover the two helpers that every transaction is made of; one lemma per transaction follows, `TypeStep` joins them |
| `JournalGapless` | inductive together with the type invariant. `StepCases` reduces a step to a profile step or one of the transactions; `AppendGapless` shows that the one entry appended takes the number after the last |
| `SettlementCharges` | inductive with the type invariant. `KeysDiffer`: settle, admin and job keys never coincide, so only a settlement creates a settle entry; the unique index on the event key excludes a second one |
| `FinishedStaysFinished` | an action property by the same case split: no transaction removes an entry or touches an operation that is not reserved or absent |
| `WalletsReconcile` | the three sides of the equation move together: a reservation moves the wallet and what is held (`ReservationMove`), a settlement moves wallet, held and journal (`SettleMove`), everything else moves wallet and journal |
| `JobsReconcile` | the entry a job adjustment posts is the difference to the stored column, not to the caller's copy |
| `SummariesReconcile` | an entry is added to the row of its hour exactly when it is at or after the accounting start; the start moves only while nothing is lost by it |

The last three are about sums over a set of entries or operations that grows. They
need that the journal is finite (`LedgerFinite`, inductive by itself) and what a sum
does when one element is added or one value changes. `SumFunction` is a fold of the
community modules, defined by a recursive function over subsets through a choice of
an element. The library's induction theorems take a predicate, which the provers
cannot instantiate; `NatSet` states induction for a *set* of numbers instead, and the
lemmas instantiate it with `{n \in Nat : every set of n elements ...}`. `SumUnique`
shows that the recursion has one solution, `AnyOrder` that the chosen order does not
matter, `SumAdd` and `SumChange` are what the ledger uses.

### Subscriptions (`SubscriptionProofs`)

| Theorem | Argument |
|---|---|
| `SubscriptionTyping` | inductive; the clamp at zero keeps counters natural |
| `SubscriptionLimit` | `UsedWithinTotal` needs the type invariant. The chosen subscription covers the amount after its due reset, and a delta is refused above the total |
| `ExpiringQuotaFirst` | `ChoiceIsFirst`: a non-empty set of positions has a least element (well-foundedness of `<`). `ConsumedByRequest`: a new record stems from `ConsumeFrom`, which writes the sender and the subscription chosen among the sender's into it |

### Requests (`BillingSessionProofs`)

| Theorem | Argument |
|---|---|
| `RequestsAreMetered` | the refinement of `Metering`, step by step. `RequestCases`: a step of a request leaves the ledger alone or makes one of its transactions for this request, and only `SettleFunding` settles. What a customer spends is the opening balance minus wallet and held quota; only a settlement changes that sum, by the amount recorded in the row (`MeteringMove`). Faults and node stops are included |
| `NeverOverdrawn` | an operation becomes reserved only through `BeginBillingOperation`, which checks the balance in its own transaction |
| `SessionTyping` | every step moves one session to a row that `Follows` the old one; the invariant adds that a session being extended has a reservation |
| `ChargesActual` | the invariant: what the session counts as consumed by the funding is what the operation holds (`Balanced`), so that the settlement's difference brings the charge to the usage; once the session tried to settle, the amount is the usage. Hypothesis `SafeRollback`: no failing roll-back of an extension |
| `TokensMatchFunding` | `CleanBooks`, as long as no call failed and no node stopped: each request's token share is what its funding source holds or was charged for it, shifted by the call that is between the two books (`RowsAgree`), and the books are the sums of these shares (`BooksAgree`). Each database call moves one share and one book by the same amount. Hypothesis `FiniteTables`: finitely many requests and subscriptions, since a sum over an infinite set means nothing |

`SafeRollback` is what the `session` run assumes too and cannot be dropped: with
`"rollback"` in `FaultPoints` TLC finds a session charged twice for an extension
(section 7).

### Tasks (`AsyncTaskProofs`)

| Theorem | Hypotheses | Argument |
|---|---|---|
| `EventsTellHistory` | none | every write of a status is `MoveTask`, which raises the version and queues the event in the same transaction |
| `TaskTypesHold`, `FinishedTaskStays` | `Roles \subseteq Plain` | `BillInv`: a copy holds the first charge and an unfinished status; at most one worker bills a task (`OneBiller`), which is the winner of its final transition; until then the columns are those of the submission |
| `TaskChargesReconcile`, `RefundedOnce` | the same | `ChargeInv`: a copy written back carries the column's own value, so only the ledger's adjustment changes it |
| `ChargesMatchOutcomes` | also `RefundsFit` | `RoomInv`: wallet plus unrefunded charges stay under the limit, so no refund is refused; then a failed task without a biller is free (`FreeInv`) |
| `BooksStayInStep` | also `RefundsFit` | `ShareInv`: the usage of a subscription is the sum of a share per task, where a share is the task's charge, or what it will be once its biller is done |

`Plain` is polling, sweeping and cancelling. The other two roles do break these
properties: a dashboard read writes a final status back (finding 3), the bulk failure
refunds nothing (finding 2). `RefundsFit` says that no wallet and no subscription is
opened so near to its limit that the charges of its tasks could not be given back;
without it the ledger refuses the refund (`changeBillingWallet`) and the task stays charged
(with a limit of 20, a wallet of 19 and a charge of 2, TLC shows it). With the
code's limit of 2^53 − 1 it holds for every real customer.

### Job runner (`SystemTaskProofs`)

| Theorem | Argument |
|---|---|
| `RunnerTyping` | inductive with `NamesRows` (lock and passes name rows that exist) |
| `OutcomesAreFinal` | rows are created in order, handlers exist for started rows only; every change of a row is a creation, a start or an end (`RowMoves`) |
| `LeasesRespected` | a node in the middle of a claim never meets its own name on a row that was started already (`NotClaimingOwn`), so the statements that compare `locked_by` hit the pass's own lock only; a foreign lock is written after its lease only |
| `OrphansHaveLocks` | hypothesis `MaxPause <= TTL`. `LockInv`: one active row; a pass between taking the lock and starting the row has an age that, with what is left of the lease, makes at least a TTL, so nobody sees the lease expired before the row is running |

`MaxPause <= TTL` is sharp: one tick more and TLC finds the running row without a
lock (section 7).

### Session cache (`SessionCacheProofs`)

| Theorem | Argument |
|---|---|
| `CacheTyping` | inductive |
| `RevocationHolds` | `CacheSafety`: a reader that read the row active before the commit writes its snapshot before `row.at + TTL`; an active entry expires by then; a tombstone that was written outlives both |
| `StalenessBound` | an action property of the same invariant: a request that began after the commit is let in by a hit only (`LateAcceptance`) |

### Sign-in state (`AuthSessionProofs`)

`StepKinds` first reduces the 18 actions, with the reloads and reruns inside them, to
eleven kinds of steps, by what they do to the tokens and to the rows of one tab. Each
invariant then needs one argument per kind.

| Theorem | Argument |
|---|---|
| `AuthTyping` | inductive with `WaitInv` |
| `NobodyWaitsInVain` | `WaitInv`: a page that starts up shows nothing, has heard nothing, names no session and waits for a refresh nobody supersedes; whoever superseded a refresh has settled the tab, so that ending it leaves no page checking |
| `SignedOutForGood` | `KnownInv`: the answer of a login is the only copy of its session, and sessions that are known exist. `ToldInv`: a session a tab has given up is revoked for good, and the answer of a refresh that still counts (`authEpoch`) is not for it |
| `TokensAccepted` | hypothesis `HasLocks`. `AgeInv`, as long as nothing was lost: one tab holds the lock; its request carries the cookie's secret, and no request of a page that is gone a newer one; an answer under way carries the newest; a cookie that was overtaken is in its replay window, and a page that starts up or an answer under way will renew it |

The last clause is the one that takes finding. A page that is reloaded leaves its
request behind, and the server may rotate the secret for it after the cookie was read
again. The window must not close on such a cookie: it does not, because the page that
took the place of the first is still starting up, and its refresh renews the cookie.
That is why `WaitInv` is needed for the ages: the refresh of a page that starts up
cannot be superseded, and names no session, so it is not answered with a mismatch.
`HasLocks` is sharp (section 7). A lost message is excluded by the property itself.

### Playground (`PlaygroundChatProofs`)

| Theorem | Argument |
|---|---|
| `ChatTypes` | inductive with the rest of `RefsOK` and `PageOK` |
| `LatestRequestWins` | a queued update of a request carries the generation at which the request was made; only the newest request has the current generation (`RefsOK`), and when the update runs the last message is the answer of that request (`PageOK`) |
| `SpinnerIsServed` | the answer under way is the last message of every list that can still be shown (`Good`), and whoever ends the request has queued the update that ends the answer (`Terminated`) |
| `WholeAnswers` | under `~RepeatedDeltas` (section 7 shows why). `TextOK` is inductive on top of `RefsOK` and `PageOK`: the text of the answer under way and the chat handler's buffer are consecutive runs of the deltas taken (`Delivered`), and every complete answer in every list that is shown, saved or queued is the whole run (`Honest`) |

`RefsOK` relates the refs, the generation counter and the requests on the network and
is inductive by itself. `PageOK` is about what React has: the rendered list, the lists in
storage and in queued sets, and the updates behind them. The difficulty is the render. It
folds the whole queue over the list, and the interesting property, that an update meets
the answer it was made for, is about a list that exists inside the fold only. The
fold is therefore unrolled into a walk, a sequence of lists with one per update, and
`PendingRender` shows by induction along the walk (`WalkInduction`) that every list of it is
good: up to the last queued set nothing about the present request is claimed, from there
on its answer is the last message and pending until an update ends it. The handlers that
render at the end of a click (`ClickWalks`) fold the queue with their own updates behind
it; the ones that only queue extend the walk by one.

`TextOK` does not speak of the rendered list, which lags behind, but of `Now`, the list
that a render of this moment would show. A render is then a stutter on `Now`, a flush moves
the buffer to the end of the answer (`RunAppended`: two consecutive runs are appended,
and the second is never taken for a snapshot of the first), and a delta extends the buffer.
Three things must not spoil it. The editor could be saved over the answer under way:
`EditorOK` shows that it is not open there, since the click that opens it needs a render
without a request. Stop renders in the next generation: `LateRender` shows that the queue
then writes nothing but what React ran already. A reload completes pending answers and
shortens others: `LoadedMessage` shows that every complete answer it brings back either
is the message that was saved or is marked as cut.

The ledger theorems are about the ledger's own transactions. `BillingSessionProofs`
and `AsyncTaskProofs` re-establish what they need of them for the composed modules
(`LedgerKept`, `LedgerFinite`), including the `tasks.quota` column that `AsyncTask`
writes itself.

Every invariant and action property of the passing runs is proved. Only model-checked is
liveness (`ReservationReleased`, `EveryTaskEnds`, `TabsConverge`, `GenerationEnds`),
which the prover does not cover under fairness.

## 7. Known limits of the models

- A failed settlement is only logged, and a stopped node settles nothing: the
  operation stays reserved for ever. The models let this happen; nothing in the code
  promises otherwise. Settlement of a submission and the insert of the task row are
  two calls with nothing between them; `AsyncTask` starts after both.
- A refund that arrives after a reset lowers the usage of the new period.
- The legacy branch of the sweep clears the quota column without a ledger entry;
  `TaskChargeReconciles` and `BooksAgree` exempt those tasks.
- Row locks are taken as effective. On SQLite the locking clause is a no-op and
  the database serialises writers itself.
- One clock: skew between nodes acts like a longer pause and is covered as far as
  `MaxPause` reaches.
- Used-quota statistics, channel counters, logs and notifications are left out.
- Token quota is one number; the Redis copy and the batch updater are the planned
  `QuotaCache`.

Behaviours the models can show, which the passing runs exclude by a constant:

- A token refuses an extension and undoing the funding reservation fails as well
  (`service/billing_session.go:281`): the session keeps counting the extension as
  consumed, and the settlement charges it on top of the usage. Add `"rollback"` to
  `FaultPoints`; `SettledChargesActual` fails.
- A node pauses longer than the lease between taking the lock and starting the row
  (`model/system_task.go:248`): the row is running without a lock, and nothing
  expires it. Set `MaxPause` above `TTL`; `OrphanHasLock` fails.
- A delta that begins with the whole text so far is taken for a snapshot of it
  (`hooks/use-chat-handler.ts:59`, `message-streaming-utils.ts:73`), so `0`, `0` is
  shown as `0`. Set `RepeatedDeltas` to `TRUE`; `CompleteAnswerIsWhole` fails.
- Without `navigator.locks`, a slow refresh can be overtaken by two rotations and its
  token is refused. Set `HasLocks` to `FALSE`; `NoTokenRefused` fails.

Behaviours the models contain and the properties name as exceptions:

- A stream whose connection ends with status 200 and without `[DONE]` leaves the page
  generating until Stop is pressed (`GenerationEnds`).
- An editor that was opened before an answer began may save the list of the last
  render over updates that were not rendered yet.
- Loading a history shortens long answers for good: from 2 000 characters on everything
  before the last run of a numbered heading that occurs three times is dropped, and what
  is longer than 40 000 characters is truncated
  (`lib/storage/storage.ts:197`), also when the answer was finished, and the result
  is saved back. `CompleteAnswerIsWhole` exempts these answers.
- Stop flushes the pending chunk, but its updater belongs to the generation that has
  just ended, so up to 50 ms of text may be dropped.
- A refresh whose answer is lost and whose secret is presented again after 30 s counts
  as reuse and revokes the session (`NoTokenRefused` exempts lost messages).
- A sign-out by cookie with a secret two rotations old is answered with success though
  nothing is revoked (`model/user_session.go:620`). `SignedOutStaysOut` speaks of
  sessions that were revoked.
- A tombstone that does not reach Redis lets a revoked session in for up to one TTL
  (`RevokedIsRefused` exempts it, `StaleAtMostTTL` bounds it).
