# TLA+ specification of the N-A backend

The repository (`src/`) is the backend of a shop for digital goods: customers pay
from a wallet, an order is handed to an external provider, a cron job asks the
provider what became of it, and money goes back when the order fails. It is a
Node.js program (Express, Mongoose, MongoDB). This directory specifies its services:
what the code does, what must never go wrong, and what it does not achieve although a
comment says so.

    tlc -workers 2 -config settle_safety.cfg MCOrderSettlement.tla
    tlapm OrderSettlement_proofs.tla

`PROJECT.json` maps every definition to the lines it models and lists the runs, the
mutants (a plausible bug for each property, which the property's run finds), the
findings, the hazards and the theorems.

Sections 1 and 2 are the inventory and the modules; 3 to 7 describe the models, their
runs and their proofs: settlement, creation, the ledgers, deposits and payouts, the
services around them; 8 says what is only model-checked and what is not modelled; 9
lists what the reading of the code brought up.

## 1. Inventory

One PM2 process serves HTTP and runs the cron jobs. Node interleaves handlers at
every `await`; there is no parallelism within a handler. Shared state is in MongoDB,
so a document read before an `await` may be out of date after it. Writes are single
document updates (atomic), Mongoose `save()` (only the changed fields), or snapshot
transactions where the deployment is a replica set. In-memory state (`running` flags,
locks, caches) is lost in a crash.

Paths are relative to `src/src/modules/` of the repository (`src/modules/` of the program).

| Component | State | Operations | What is hard | Correct means |
|---|---|---|---|---|
| Order creation: `orders/order.service.js` | Order (unique userId + idempotencyKey, unique orderNumber), wallet or quota of the user | createOrder: look up key, validate, price, debit, insert, commit or compensate, call executeOrder | concurrent duplicates, write conflicts, three recursive retries, no transactions on a standalone MongoDB, errors after the commit | one order per key, paid exactly if it exists, executed once, never below the credit limit |
| Order settlement: `orders/orderFulfillment.service.js`, `orders/fulfillmentJob.js`, parts of `orders/order.service.js`, `admin/admin.orders.service.js` | Order.status, refunded, retryCount, providerOrderId, providerStatus, remains | executeOrder, pollProcessingOrders, processOrderStatusResult, refundFailedOrder, processOrderRefund, markOrderAsFailed/Completed, completeOrder | provider calls take seconds; poll, administrators and executeOrder write the same order; claim-then-pay refunds; crashes | no double refund, every failed order refunded, every polled order settles, bounded retries |
| Legacy wallet and its adjustments: `wallet/wallet.service.js`, `admin/admin.wallet.service.js`, `admin/admin.users.service.js` | User.walletBalance, creditUsed, creditLimit, currency; WalletTransaction rows | debit, refund, credit (atomic); forced debit, add, deduct, set, credit limit, currency, inflation (read, compute, `$set`) | an absolute balance written over a change; a row of its own after the balance | balance = sum of the rows |
| Exact ledger: `wallet/exactLedger.service.js` | decimals as strings, version, rows with unique sourceKey | debit, credit, refund, set, limit, convert, through runExactMutation | version compare-and-swap with bounded retries; currency conversion between tries | rows lead to the balance; no amount in the wrong currency |
| Currency and rates: `currency/`, `../services/`, `../jobs/` | Currency documents, the converter's cache, the running sync | create, update, switch, delete, synchronise, look up | reads that overlap a write fill the cache after its invalidation | the administrator owns platformRate; no stale rate is kept |
| Deposits: `deposits/deposit.service.js` | Deposit.status, amount | create, approve, reject, update pending | two approvers; an edit of a deposit being approved | credited once, with the approved amount |
| Payment events (SMS bridge): `paymentEvents/` | event status, match | ingest, match from both sides, approve automatically | repeated deliveries, matching from both sides at once, crash between match and approval | a payment approves one deposit |
| Referral commissions: `referrals/` | one commission per deposit, percent overrides | create in the approval, reconcile, report | reconciliation beside an approval | of the amount credited, fixed for ever |
| Referral payouts: `referralPayouts/` | commissions AVAILABLE, LOCKED, PAID; payouts | request, reject, pay to the wallet, mark paid | overlapping requests and reviews, idempotency keys | a commission is paid once |
| Hago and Inchill execution: `providers/hago`, `providers/inchill` | execution state of the order, claim, evidence | execute, reconcile, scheduled reconcile, administrators' guards | crash after the claim or during the call; administrators in between | sent once; refunded only if not delivered |
| Hago connection and quotes: `providers/hago` | connection, pending challenge; quotes | challenge, verify, validate; quote, check out | answers that arrive after the document changed | the connection verified last is used; a quote makes one order |
| Provider adapters, status mapper: `providers/adapters`, `providers/statusMapper.js` | none | place, look up, map words to statuses | lost answers, answers without an id, unknown words | completed only if delivered, refunded only if dead |
| Catalogue and products: `providers/`, `products/` | provider products, platform products, a lock in memory | synchronise, publish, edit, switch, delete | administrators save between the steps of a synchronisation | after a sync the catalogue is the provider's |
| Targets: `targets/` | apps, target orders, uploaded proofs | request, review, change of app and methods | equal requests under one key, two administrators, proof files | one order per key, decided once |
| Sub-agent requests: `subAgentRequests/` | request status, marks of the account | create, approve, reject | transactions beside administrators who save accounts | mark and request agree |
| Users and groups: `admin/admin.users.service.js`, `users/`, `groups/` | status, role, group | approve, reject, delete, restore, change group | read, then save | nobody rejected becomes a reseller |
| Auth, OAuth state, sessions, referral codes: `auth/`, `referrals/` | account, nonces, codes, tokens | register, sign in with Google, verify, second factor, complete the profile | lookups before inserts, replayed states, tries counted beside other requests | identities unique, credentials used once |
| Status poll by provider: `orders/orderPolling*` | groups, workers, counts | group, check in batches, hand answers over | pool of workers over one index | each order gets its own answer |
| Client and reseller APIs: `clientCompat/`, `me/` | public ids | place by order_uuid, assign ids, list | two requests assign an id to one order | what was told stays true |
| Notifications, pushes: `notifications/` | notifications, device tokens | notify, read, register, push | a device changes hands during a push | pushed only to the recipient's devices |
| WhatsApp: `whatsapp/` | client, browser, operation id | start, reconnect, reset, shut down | start-up takes seconds; events of old clients | one browser, the flag is honest |
| Not modelled: audit log, categories, price cache, Inchill connection, bootstrap and middlewares | | | section 8 | |

How they interact: order creation calls the wallet in its transaction and starts
`executeOrder` without waiting for it; settlement is driven by that call, by the cron
job and by administrators, and calls the wallet to refund; orders of Hago and Inchill
leave it early and are settled by their own services; payment events call deposit
approval, which credits the wallet and creates referral commissions, from which
payouts are made; currency changes rewrite wallets; the reseller API calls createOrder
with its uuid as the key. The wallet is the state all of them share, and the order is
the state creation, settlement and administrators share.

The 40 hazards, each at its line with the properties that cover it or the reason why
none does, are in `PROJECT.json`.

## 2. The modules

| Modules | Subject | Runs | Theorems |
|---|---|---|---|
| `OrderSettlement`, `OrderSettlement_proofs`, `MCOrderSettlement` | settlement, refunds, forced completion | `settle_*` (6) | 8 |
| `Checkout` (abstract), `OrderCreation`, `OrderCreation_proofs`, `MCOrderCreation` | createOrder and its refinement of Checkout | `creation`, `creation_stranded` | 7 |
| `AtomicLedger` (abstract); `Ledgers`, composed of `ExactLedger` (extended), `WalletLedger`, `CurrencyRates`; `Ledgers_proofs`, `MCLedger` | the two ledgers and the rates, and the exact ledger's refinement of AtomicLedger | `ledger` | 9 |
| `Payments`, composed of `Deposits`, `PaymentEvents` (extends it), `ReferralPayouts`; `Payments_proofs`, `MCPayments` | money in, and commissions out | `payments` | 6 |
| `ProviderServices`, composed of `ProviderMutations` (extended), `ProviderAnswers`, `OrderPolling`, `Catalogue`; `ProviderServices_proofs` | what is done with providers | `services`, `refund_guard` | 5 |
| `OrderServices`, composed of `Targets`, `HagoConnection`, `NobilityCheckout`, `ResellerApi`; `OrderServices_proofs` | other ways to order | `services` | 5 |
| `CustomerServices`, composed of `Accounts`, `Registration`, `Credentials`, `Notifications`, `WhatsApp`; `CustomerServices_proofs` | accounts, and messages to them | `services` | 7 |
| `Services` (constants of the last three), `MCServices` | | `services` | |
| `FiniteSums` | lemmas about sums over finite sets, for the balances | | |

Which module was written first followed the money: orders, ledgers, deposits, payouts,
irreversible provider calls, then everything that decides who may do any of it.

Components that share no state their properties speak of are instances within one
composition (`Ledgers`, `Payments`, `ProviderServices`, `OrderServices`,
`CustomerServices`), which declares their constants, with what is assumed of them, and
states their properties; a theorem about `Poll!Spec` is one about that instance.
`MCLedger`, `MCPayments` and `MCServices` have a variable (`ledger`, `part`) that
chooses in the initial state which component moves, so that one run explores the
disjoint union of the components and not their product. Components that do share
state are composed for good: `PaymentEvents` extends `Deposits` and calls its
transaction; `Deposits` holds the commissions and the customer's balance.

Conventions common to all models: one action is the code between two `await`s that
matter; a call holds a copy of what it read (`doc`, `copy`, `seen`, `snap`) and uses it
later as the code does; `save()` writes only the fields that differ from the copy; a
transaction reads a snapshot and conflicts when a document it writes has changed; a
unique index is the guard of an insertion and its failure an action of its own.

## 3. OrderSettlement

An order that createOrder has charged and stored, until it is settled. One action is
the code between two `await`s that matter. A handler is a process: an order's own
`executeOrder` (process = the order), the poll (`Poller`), an administrator's request.
`pc[p]` is where the handler is, `on[p]` the order it works on, `saw[a]` the flag
completeOrder read, `batch` and `snap` the documents the poll loaded with their
`retryCount`. A snapshot transaction that touches one order and one user is one action
because a conflicting write aborts it.

| Code | Actions |
|---|---|
| executeOrder | ExecuteOrder, ExecuteFailed, ExecutePending, ExecuteTransient, ExecuteCanceled, ExecutePartial, ExecutePartialWrite, ExecuteCompleted |
| refundFailedOrder (claim the flag, pay, take the flag back) | RefundClaim, RefundPay, RefundPayFails, RefundPayUnknown, RefundUndo |
| processOrderRefund | ProcessOrderRefund, ProcessOrderRefundThrows |
| pollProcessingOrders | PollBegin, PollFind, PollRecovered, PollNotFound, PollReview, PollSkip, PollExhausted, PollUnresolvable |
| processOrderStatusResult | ResultPending, ResultRetryLimit, ResultCompleted, ResultPartial, ResultCanceled, ResultFailed |
| administrators | MarkOrderAsFailed, MarkOrderAsCompleted, CompleteOrder, CompleteDebit, CompleteDebitThrows, CompleteSave |
| the environment | Crash; the provider's answer is the choice between the actions above |

Abstractions: amounts are the legacy fields (`chargedAmount`); `Charge[o] = 0` is an
order of a quantity_only group, paid with quota. `refundedAt` goes with `refunded`.
Hago and Inchill orders, which are kept out of these paths by early returns, generic
database errors of single writes, and the functions `retryOrder` and
`syncOrderProviderStatus` (they read fields the schema does not have) are left out.

### Runs

| Run | Instance | States | Shows |
|---|---|---|---|
| `settle_safety` | retry limit 2; either one order, two administrators, 3 requests, every fault, 2 crashes, or two orders in one batch of the poll (one paid with money, one with quota), a crash, lost answers | 513,017 | TypeOK, NeverOverRefunded, NeverOverReturned, RefundedMeansPaid, RetryFresh, RetryBounded |
| `settle_live` | one order, two administrators, provider timeouts, FairSpec | 47,232 | OwedRefundIsPaid, PolledSettles |
| `settle_offline` | provider that never answers | violation | a failed status check is no attempt, so PolledSettles fails |
| `settle_unrefunded` | one failing wallet transaction | violation | a refund that failed is never tried again (OwedRefundIsPaid) |
| `settle_overwrite` | one administrator, no fault | violation | COMPLETED is written over a refunded order (CompletedIsPaid); see below |
| `settle_quota` | quota order, one administrator | violation | the quota is returned twice after a forced completion (QuotaReturnedOnce) |

COMPLETED needs no administrator to be written over a refunded order. With `Admins = {}`
TLC finds CompletedIsPaid violated as well: the partial branch of executeOrder saves the
provider's id (orderFulfillment.service.js:655), which makes the order one the poll
loads, before processOrderStatusResult writes PARTIAL and refunds a part; a poll that
loaded the order in between, and is told by the provider that it is completed, writes
COMPLETED afterwards.

Why these bounds: a double refund needs two claims, hence two handlers beside the
order's own; a retry limit of 2 has an order below, at and above the limit; two crashes
reach PollExhausted, which needs a counter beyond the limit; three requests are a
fail, a forced completion and one more that can go wrong. `MaxFaults` bounds crashes and
unknown commits of each order. The two kinds of behaviour of `settle_safety`
are the disjuncts of its constraint `RequestsOrBatches`: a behaviour that is neither any
more is checked up to there and not continued. Administrators are interchangeable in it
(symmetry); no symmetry is used where liveness is checked.

Fairness: `RunningFairness` is weak fairness of the steps of a handler that has begun and
of the poll, which `setInterval` starts again and again (`fulfillmentJob.js`).
`AnswerFairness` is strong fairness of the provider's answer: asked again and again it
answers at last. The code does not guarantee this, and `settle_offline` is the run
without it. Administrators and faults are never fair.
PolledSettles speaks of orders with a provider id or an uncertain placement; a
placement that times out without either is stored PROCESSING and no code visits it again
(a hazard in `PROJECT.json`).

### Proofs (`OrderSettlement_proofs`)

For every set of orders and administrators, every charge, retry limit and bound:
`TypeCorrect`, `ClaimsAreCovered`, `NoDoubleRefund`, `NoOverpayment`,
`OnlyCompletionDoublesQuota`, `RefundFlagIsHonest`, `RetryIsBounded`, `RetryIsFresh`.

NeverOverRefunded (refunds at most debits, plus refunds that took effect but were
reported as failed) is not inductive: it forgets who is about to pay. The invariant
`Covered` counts together the refunds made, one unit if the flag is down (somebody may
still claim it), the handlers between claim and settlement (`Paying`) and the
completions that have debited again and will clear the flag (`Clearing`), and bounds
the sum by the debits and unknowns. The claim moves a unit from the flag to `Paying`, the
payment from `Paying` to the refunds, an undo back to the flag, completeOrder adds a debit
and a `Clearing`. Cardinality lemmas carry the counting. `NoOverpayment` adds that a
refund never exceeds the charge. `ClaimsAreCovered` is the theorem that the orders
paid with money are `Covered` (AllCovered, which TLC confirmed on the instance of
`settle_safety` before it was proved).
`settle_quota` is a quota returned twice. `OnlyCompletionDoublesQuota` says what it takes:
in a behaviour in which no quota order is completed by force (no step is a
`QuotaCompletion`), QuotaReturnedOnce holds, whatever crashes, faults and concurrent
handlers do. The counting is the same, so its lemmas are stated of any set S of orders of
which a completion under way takes the charge again (`CoveredIn(S)`, `TakesMoney(S)`): the
orders paid with money for `ClaimsAreCovered`, all orders here. `RetryIsFresh` and `RetryIsBounded` rest on the poll
being alone (`PollFree`) and on the attempts of a batch being counted before the next
document is loaded.

Assumptions: `OrdersAssumption` (finite, disjoint sets) and `NumbersAssumption`
(naturals, positive quantities and limit).

## 4. Checkout and OrderCreation

`Checkout` is what the shop promises: `Place(r)` pays and creates in one step, within the
credit limit and once per key. `OrderCreation` is `createOrder`/`_attemptCreateOrder`.
Each HTTP request is a process; a resubmission is a request of its own with the same
user and key. `mode` is the deployment: `transactions` (replica set), `standalone`
(recognised by `shouldUseOrderTransactions` or by its override), `unsupported` (only
the first operation in a session reveals it, and the attempt is repeated with
`forceStandalone`).

| Code | Actions |
|---|---|
| createOrder: lookup by key | CreateOrder |
| start of an attempt | BeginTransaction (takes the snapshot), BeginStandalone, Unsupported |
| validation, price, currency | Refused |
| debitWalletAtomic | InsufficientFunds, DebitInTransaction, DebitDirectly, DebitRecordFails, WriteConflict (one retry) |
| Order.create and its catch | Create, DuplicateKey, DuplicateNumber, NumbersExhausted, CreateFails, CreateUnknown |
| compensation | Compensate, CompensateFails |
| answer of a duplicate | AnswerExisting |
| commit and after | Commit, CommitFails, CommitUnknown, PopulateFails, Schedule |
| environment | TopUp (a payment into the wallet), Crash |

A transaction is modelled by what MongoDB guarantees and the code relies on: it reads
the balance of its snapshot (`seen`), its write of the user document fails if the
document was written since (`stale`) or is held by another open transaction (`lock`),
and debit and order appear together at the commit. Two transactions of one user cannot
both reach the insert, which is why a duplicate key is only met standalone or through a
write conflict followed by a retry. Money is one number per user; `paid[r]` is what a
request took less what it put back. The quota branch (lines 771-946) has the same steps
with the remaining quota as the balance and a credit limit of 0. Left out: the preflights
of Hago, Inchill and nobility orders (they may refuse, as Refused does), the exact
ledger's debit, collisions of compatOrderId (8 random bytes).

### Runs

| Run | Instance | States | Shows |
|---|---|---|---|
| `creation` | two requests of one user under one key, price 2, wallet 1 with credit 1, two top-ups, all deployments and faults, a crash | 126,037 | TypeOK, WithinCredit, OneOrderPerKey, PaidIffOrdered, ExecutedOncePaid, AnswersOriginal, CheckoutSpec (refinement), RequestsEnd |
| `creation_stranded` | one request without key, a database error | violation | an order is created and paid but not handed to the provider (CreatedIsExecuted) |

The wallet pays for one order and, after two top-ups, for a second, so both outcomes of
a debit occur, before and after a competing commit; `MaxNumbers = 2` (20 in the code)
has first, repeated and exhausted collisions. Deadlock is not checked because requests
end. A third request multiplies the states by ten and shows nothing new: the theorems
hold for any number.

Fairness: only that the process keeps running a request it has accepted (weak fairness of
`Handle`); a crash ends it. Whether the transaction conflicts, numbers collide or the
database fails is never fair; RequestsEnd holds because every retry is counted.

What the code does not promise, visible in the properties: without transactions
PaidIffOrdered excludes requests hit by a fault or crash (the compensating refund's error
is swallowed, DebitRecordFails is not compensated at all), and the refinement mapping of
Checkout stands still there. AnswersOriginal allows an empty answer after the last
collision of order numbers, which line 1121 takes for a duplicate request.

### Proofs (`OrderCreation_proofs`)

For all requests, users, keys, prices, limits, deployments and faults:
`CreationTypeCorrect`, `CreationWithinCredit`, `CreationOneOrderPerKey`,
`CreationPaidIffOrdered`, `CreationExecutedOncePaid`, `CreationAnswersOriginal`, and
`CreationImplementsCheckout`.

- `WalletInv`: a request between its transactional debit and its commit holds the
  user's document and the credit it has checked is still there (`Held`); a snapshot that
  is not out of date shows the committed balance (`Snapshot`); open transactions exist
  in one deployment only, where nothing is written outside them (`Shape`). WithinCredit
  alone is not inductive: at a commit nothing is checked any more.
- `KeyInv` adds OneOrderPerKey and that the key of a request about to commit is still
  free (`KeyFree`); lemma `CommitAlone`: no other order of that key can appear before,
  because whoever creates it would have to hold the same user document.
- `MoneyInv`: where a request is determines whether its order exists (`Placed`), what it
  has paid (`Books`), and that an executed order was paid (`Executions`).
- `AnswerInv`: a request on its way to answer a duplicate has an order to name, or has used up
  its order numbers.
- Refinement: `CommitPlaces` (Commit and CommitUnknown are Place) and `StepRefines` (every
  other step of a request stutters) from KeyInv and MoneyInv.

Assumptions: `RequestsAssumption` and `AmountsAssumption`; in particular wallets start
within their limits and prices are positive, which the guards of 3c of the code ensure.

## 5. The ledgers (`MCLedger`)

`isExactLedgerEnabled` chooses for the whole deployment which ledger the wallet
functions use. A behaviour of `MCLedger` is one of the exact ledger, the legacy ledger,
or the currencies with their cache.

### ExactLedger

A call reads the user, computes the next state and writes it with a filter on ledger
version and currency; the row belongs to the same transaction. `req[r]` is the call with
what it has seen, `past[u]` the history of the wallet.

| Code | Actions |
|---|---|
| the exported mutations, conversion included | DebitExactWalletAtomic, CreditExactWalletAtomic, RefundExactWalletAtomic, SetExactWalletBalanceAtomic, UpdateExactCreditLimitAtomic, ConvertExactWalletCurrencyAtomic |
| runExactMutation: reading and its errors | Read, Refuse |
| conversion: reading with the rates, its errors | ReadConversion, RefuseConversion |
| updateOne with the filter, and the row | Write, DuplicateKey (the unique sourceKey aborts both) |
| MAX_CAS_RETRIES, withTransaction | CasConflict, TransientConflict |
| administrators | SetRate |

LedgerAccounts: the rows, in the order of their versions, lead from the first units to
the present ones and no sourceKey books twice. Denominated: an amount computed in one
currency never reaches a wallet converted since, and the legacy mirror is never left in
another currency. DebitsCovered: an unforced debit commits only on a wallet that covers
it at that moment. LedgerIsAtomic: the ledger implements `AtomicLedger`. Decimals are integers of a unit, rounded half up as in
`exactLedgerMoney`; lengths of strings and overflow of the schema's limits are left out.

### AtomicLedger

What the exact ledger promises its callers. A call asks (`Ask`), fixing the currency of
its amount; then it takes effect in one step, on the balance as it is at that instant and
together with its entry (`Mutate`, `Convert`, or `Converted` if the wallet is there
already), or it fails (`Fail`). There is no version to compare, nothing read beforehand,
no second try. A conversion may use any rates the currencies can have, and any integer
nearest to the exact quotient: what the callers can rely on, not how it is rounded.
The mapping is in `Ledgers`: `Balances` forgets the mirror and creditUsed, `BookedRows`
the kind and amount of a row, which follow from its balances, and `Demands` shows a call as
pending from its first read to its end, whatever it has seen.

### WalletLedger

| Code | Actions |
|---|---|
| one findOneAndUpdate | DebitWalletAtomic, RefundWalletAtomic, CreditWalletDirect |
| the row, a write of its own | CreateTransactionRecord |
| forcedDebitWallet, addFunds, deductFunds, setBalance | LoadForcedDebit, LoadAddFunds, LoadDeductFunds, LoadSetBalance, then WriteBack |
| updateCreditLimit; updateUserCurrency | LoadCreditLimit, SaveCreditLimit; LoadCurrency, UpdateUserCurrency |
| adjustNegativeBalancesForInflation, ...ForDeflation | AdjustForInflation, AdjustForDeflation, AdjustDebtor, BookAdjustment, EndBulk |
| the process ends | Crash |

LegacyAccounted (AccountedUnlessStale): the balance is the sum of the rows and of those a
crash kept from being written, and creditUsed follows it, for every user whose document
was not written over an unseen change. The exception is the code's: the functions in the
third row read first and write an absolute value afterwards, so they lose what happens in
between; and a change of currency writes no row.

### CurrencyRates

| Code | Actions |
|---|---|
| _getCurrency of the converter | Hit, FindCurrency, FillCache, Expire |
| updateCurrencyRate, setCurrencyStatus, deleteCurrency, createCurrency | UpdateCurrencyRate, SetCurrencyStatus, DeleteCurrency, Save, InvalidateCurrencyCache, CreateCurrency |
| updateUserCurrency's lookup | FindNewCurrency, UpdateUserCurrency |
| runOnce and syncRates | RunOnce, LookUp, SyncExisting, SyncCreate, SyncEnds |

AdminOwnsPlatformRate: a platformRate changes only by an administrator's save, although
the synchronisation saves documents too. StaleOnlyAfterOverlap: a cached rate is the
stored one except while an invalidation is to come, or when the entry was filled by a
read that overlapped the write (until CACHE_TTL_MS).

### The run `ledger` (658,412 states)

Exact: three calls on two users (one suspended), rates {1, 3}, two units to a
hundredth, two tries, one change of a rate, amounts of 2 against an opening balance of 1
and a limit of 1, one sourceKey. Three calls are a swap that is lost to a second and
retried against a third; balances are covered before and not after a competing debit;
a conversion meets calls computed before it. Legacy: two tasks, two customers in debt
and in credit, sums {1, 2}, 50 per cent: every pair of operations overlaps. Rates: three
currencies (USD without a document, one seeded, one absent), two calls, one
synchronisation. Calls are interchangeable (symmetry). No fairness: the properties are
safety.

### Proofs (`Ledgers_proofs`, `FiniteSums`)

Exact ledger, for every set of calls, users, currencies, rates, amounts, any number of
retries and rate changes: LedgerTypeCorrect, RowsLeadToBalance (LedgerAccounts,
with BookedOnce: no sourceKey has two rows, whatever is repeated),
AmountsInTheirCurrency (Denominated), DebitsAreCovered (DebitsCovered), LimitIsKept, and
LedgerImplementsAtomic (LedgerIsAtomic). The invariant
(`LedgerInv`) says that a wallet's version is the length of its history, that each
version has the rows its step explains, and that what a call saw is a state of that
history. A swap that succeeds therefore applies to exactly the state that was seen, and
the rest is arithmetic of one step. It also gives the refinement: a swap that succeeds is
the abstract step at that instant (`WriteMutates`, `WriteConverts`, the latter with
`DivideIsNearest`), and reading, refusing, trying again and giving up change nothing that
is shown or end the call (`UnseenStep`, `UnwrittenEnds`); how many other calls committed
between a read and the swap does not matter. LimitIsKept says which steps can take a
wallet past its credit limit: a forced debit, or a balance or a limit that an
administrator sets. A debit is covered when it commits, and a conversion keeps a debt
within the limit, because the rounding keeps the order and is the same for debts and
assets (`ConversionKeepsCover`). Assumed (`LedgerAssumption`): rates, amounts, `Cent`
and the number of tries are positive, the other numbers integers, and `None` is no key
and no currency.

Legacy ledger: RowsAccountForBalance (LegacyAccounted), for every set of tasks, customers
and amounts and every percentage. With its types (`LegacyType`) the property is inductive;
the work is in the sum of the rows still to come (`Due`), which must move by exactly the
row of the task that moves (`DueMoves`), whichever tasks a step adds to it or takes from
it. `FiniteSums` proves what is needed of sums over finite sets. It does not use
induction over sets, which the provers cannot instantiate: each lemma looks at a least
set that would contradict it (a well-founded order has one) and shows there is none.
Assumed (`LegacyAssumption`): finitely many tasks, integer amounts, positive rates.

Rates: CacheIsHonest (StaleOnlyAfterOverlap) and RateIsTheAdministrators
(AdminOwnsPlatformRate), for every set of currencies, calls and rates. StaleOnlyAfterOverlap
forgets the reads under way; `RatesInv` adds that what a call found and no write
overlapped is what is stored (`FoundIsStored`), so that filling the cache keeps it honest
(`CacheIsStored`). Nothing is assumed of the constants.

## 6. Deposits, payment messages and payouts (`MCPayments`)

### Deposits

`approveDeposit` is a transaction that commits against the documents it read
(`call[k].seen`) or starts again; the edit of a pending deposit and the reconciliation of
commissions use none.

| Code | Actions |
|---|---|
| createDepositRequest | CreateDepositRequest |
| approveDeposit | ApproveDeposit, RefuseApproval, BeginApproval, CommitApproval, ConflictApproval, AbortApproval |
| rejectDeposit | RejectDeposit |
| updatePendingDeposit | ReadForUpdate, SaveUpdate |
| reconcileReferralCommissions | ReadForReconciliation, MarkPending, CreateCommissionRecord, MarkDepositCommission |
| administrators, time, crash | SetReferralCommissionOverride, ChangeUser, ApproveSubAgent, SetCurrencyStatus, Tick, Crash |

CreditedOnceIfApproved: a deposit is credited once exactly if it is approved, and the
balance is the sum of the credits. CommissionOnCredited: the commission is of the amount
credited, by whichever path it came, and a deposit marked PROCESSED has one; deposits in
`edited` are excepted, because `updatePendingDeposit` may save a new amount over an
approved deposit (section 9). CommissionFixed: a commission never changes.

### PaymentEvents

Extends Deposits with the bridge of payment SMS. A task is a delivery or the search that
a new deposit starts; the event is saved without a transaction.

| Code | Actions |
|---|---|
| the webhook and the insert with its unique indexes | Deliver, InsertEvent |
| matchParsedPaymentEvent | MatchParsedPaymentEvent |
| applyMatchResult, the approval it calls, and what it saves afterwards | ApplyMatchResult, actions of Deposits, SaveAnswer |
| a deposit and the search it starts | SubmitDeposit, MatchExistingUnmatchedPayment |

OneApprovalPerPayment: a payment approves at most one deposit, that of its transaction,
and a PROCESSED event names it; excepted are events that two tasks matched at the same
time (`overlapped`): the code re-reads nothing between match and save. The text of a
message is its transaction id (None when it does not parse) and amount; phones and
providers of messages are part of `Compatible`.

### ReferralPayouts

| Code | Actions |
|---|---|
| withTransaction around every operation | Call, Begin, Abort, and a conflict in each of the next |
| createReferralPayout | CreateReferralPayout, Replay |
| decisions | RejectReferralPayout, PayWalletReferralPayout, MarkManualReferralPayoutPaid |
| administrators | ChangeUser |

PayoutsSound: commissions and payouts say the same of each other, in amount, owner and
currency (PayoutsConsistent, what `auditReferralPayouts` looks for); a wallet payout is
credited once (CreditedOncePaid); calls with one key are answered with one payout of
one body (OnePayoutPerKey).

### The run `payments` (524,686 states)

`part` is `referrals` (one deposit of a referred customer, all paths), `bridge` (two
deposits of one customer with one transaction id, a message of it and one that does not
parse or is too old, two deliveries each) or `payouts` (two commissions, two payouts, one key, two
overlapping calls of three, one change of the user). One step of time, one edit and one
switch each suffice for every comparison to be outdated once. In `bridge` deposits are
in the bridge's currency and without commission, in `payouts` requests are in USD: the
other combinations are in `referrals` and in the theorems. Calls, payouts and the two
deposits of the bridge are interchangeable.

### Proofs (`Payments_proofs`)

`PaymentsTypeCorrect`, `CommissionStaysFixed`, `CommissionIsOnCredit`,
`OnePaymentOneApproval`, `DepositsAreCredited`, for every set of deposits, messages,
customers and tasks. PaymentsInv follows one document at a time: nothing is credited or
commissioned before a deposit leaves PENDING, and a commit compares with what it read,
so an approval commits on a pending deposit; what a reconciliation read of an approved
deposit still holds unless it was edited; an event leaves UNMATCHED before its task
approves anything, so that two approvals of one event need two tasks that loaded it
UNMATCHED, which is what `overlapped` records.

`DepositsAreCredited` (CreditedOnceIfApproved) adds `CreditsInv`: each balance is the sum,
over the customer's deposits, of what each has brought (`Credit`), and a deposit that was
submitted is in a currency that converts. Only CommitApproval changes a balance or a
credit, and it changes both by the same amount for one deposit that had none;
every other step leaves the sum alone (lemmas of `FiniteSums`).

`PayoutsAreSound`: PayoutsSound for every set of calls, commissions, payouts and users.
Of what a transaction read only the keys matter to the invariant: each commit compares
every document it writes with its snapshot, so its conditions hold of the present
documents. What the keys and rows mean (KeysMean, RowsMean, CallsMean) is carried along
to give OnePayoutPerKey and CreditedOncePaid.

Assumed: `DepositsAssumption` (finitely many deposits, positive rates, every wallet in a
currency that has one), `PaymentsAssumption`, and `PayoutsAssumption` (`None` is no payout).

## 7. The services around them (`MCServices`)

A behaviour is one of sixteen parts, chosen by `part`: the ten modules below, three of
them in more than one part (`email`, `otp`, `profile` of Credentials; `listing`,
`products` of Catalogue), and Hago's connection and quotes, the resellers' API,
notifications and WhatsApp. `k1`, `k2` are whatever acts at the same time, `a1`, `a2` the
documents acted upon; each pair is interchangeable.

### ProviderMutations (Hago, Hago nobility, Inchill)

One order, `service` chosen at the start. `order` has the state of its irreversible call
(READY, CLAIMED, SENT, PENDING, UNKNOWN, SUCCESS, FAILED), `upstream` is what the
provider did, which the code only learns through answers.

| Code | Actions |
|---|---|
| executeOrder of the three services | Execute, SwitchedOff, Claim, CheckFails, Send, ConfigurationMissing, CallProvider, Answer, Throws |
| settlement and refund | SettleSuccess, SettleAuthoritativeFailure, LostSettlement, Refund, RecordPending, MarkUnknown |
| the caller's catch, and the guard around it | MarkUnexpectedExecutionError, FatalError, FatalRefund |
| reconcile, reconcileScheduled | Reconcile, Lookup, Unresolved |
| administrators: fail, refund, partial refund, completion | MarkOrderAsFailed, RefundOrder, SavePartial, ProcessOrderRefund, CompleteOrder, CompleteSave |
| provider and process | ProviderDecides, Crash |

RefundProved: money never goes back while the provider may still deliver, nor after it
did, unless the order had been settled as a success first (an administrator may then
refund it knowingly); a crash or an exception, wherever it happens, does not change
that. `GivenBack` names what is excepted. One is the partial refund of an Inchill order
(section 9). The other is the refund that executeOrder's outer guard makes after a second
exception, or beside a second executor: the guard (orderFulfillment.service.js:708-729)
sets FAILED whatever became of the call and asks nobody whether a refund is blocked. The
comment at 343 says that these orders never enter such a path; the violation run
`refund_guard` (FatalRefundProved) is the trace in which the call was made and lost its
answer's record, the record of the unknown outcome failed too, and the guard refunds.

createOrder calls executeOrder once for an order, so the runs have one executor (the
proof has any number, `Lone` where it matters). One scheduled and one manual
reconciliation race with it; two attempts reach the limit. Two faults are the least that
reach the guard with something sent.

### Accounts (users, groups, sub-agent requests)

| Code | Actions |
|---|---|
| updateUser, changeUserGroup, deleteUser, restoreUser, rejectUser, approveUser | ReadAccount, SaveAccount |
| updateGroup, deleteGroup | ReadGroup, SaveGroup |
| transactions of requests | Call, Begin, Abort, Answer, CreateSubAgentRequest, ApproveSubAgentRequest, RejectSubAgentRequest |

SubAgentConsistent: the mark of an account agrees with its pending request and a
reseller with one approved request. ApprovedWhileActive: nobody who is rejected or
deleted by then becomes a reseller. Two calls at a time, five in all, on one user with
two requests and a group: an approval, a rejection and a deletion overlap.

### Registration (accounts, Google sign-in, referral codes)

| Code | Actions |
|---|---|
| register | Register, CreateUser |
| OAuth in the browser and natively | StartGoogleOAuth, ConsumeGoogleOAuthState, LoginWithNativeGoogle, ResolveGoogleUser, LinkGoogle |
| state and its TTL index | Expire, PurgeNonce |
| referral codes | BackfillReferralCode, UpdateMyProfile |
| administrators | ChangeStatus |

AccountsSound: a state lets one sign-in through even after its nonce is purged; address,
profile and code belong to one account; following `referredBy` ends. Two sessions,
accounts, addresses, profiles and codes are the least with which a collision and a
circle are possible; administrators change accounts in the behaviours with one code and
one profile in use.

### Credentials (verification, second factor, profile completion)

| Code | Actions |
|---|---|
| verification by link and by code | ResendVerification, VerifyEmail, CheckCode, WrongCode, AcceptCode, VerifiedOtherwise |
| one-time passwords | SendOtp, CheckOtp, ClearOtp, Disable2FA |
| profile of a Google account | IssueCompletionToken, CompleteGoogleProfile |
| save of what was read, time | Save, Expire |

CredentialsSound: a credential used or replaced never comes back, a code is accepted
only while it is the account's, and a stored code has tries left. Three credentials and
two tries: a second replaces the first while a request still holds it.

### Targets

| Code | Actions |
|---|---|
| createTargetOrder with its proof | Request, CheckMethod, Lookup, Insert, Recover, Cleanup |
| approve, reject | ReadForReview, Review |
| administrators | ChangeApp, ChangePaymentSettings |

TargetOrdersSound: requests under one key get one order of one body (OneOrderPerKey), an
order has its proof and an unused proof is removed (ProofsKept), an order is decided
once (ReviewedOnce). Two calls, three requests in all, two bodies, a change of price or method.

### Catalogue (provider products and platform products)

| Code | Actions |
|---|---|
| syncProviderProducts | StartSync, FindProvider, Fetched, FetchFails, Upsert, Deactivate, FindFollowers, SyncPrice, Finish |
| ensureDynamicProduct | EnsureDynamicProduct |
| publishing and creating | ReadRow, CheckPublished, ReadForCreate, Create |
| updateProduct, toggleProductStatus, deleteProduct | ReadForUpdate, ReadForStatus, Save |
| deleteProvider, toggleProvider | BeginDelete, Detach, RemoveProvider, ToggleProvider |
| provider and process | UpstreamChange, Restart |

SyncMirrors: after a clean synchronisation the active rows are the provider's list and
products that follow it have its price with their markup, but for those saved since the
fetch; the lock is held exactly while a synchronisation runs. `listing` has two rows
and one request, `products` one row with two requests or two synchronisations.

### ProviderAnswers (adapters, status mapper)

One action per kind of answer (Refuse, PlaceOrder, ProviderStep, AnswerRejected,
AnswerAccepted, AnswerWithoutId, AnswerLost, Lookup, Recover, checkOrders), for the
adapter chosen at the start: Royal Crown, Toros, Alkasr, Ibra, dealer, canonical and
those that refuse. Words are members of each provider's documented vocabulary and the
tables map them as the code does. AnswersSound: an order is completed only if delivered
and failed or cancelled only if the provider holds no live one, except (`blind`) where a
lost answer or one without a number is taken for a rejection, which only Canonical avoids.

### OrderPolling (status poll by provider)

Tick, Take, MoveToManualReview, CheckOrders, Process, Return, EndPoll, and
SettledElsewhere for the fulfilment job and administrators. PollSound: an order is
processed at most once in a poll, with what its own provider says of its id (two
providers share the id 1); no two workers take one group; at the end each task has been
settled, and each that did not throw counts every order of its group, whatever became of
the other tasks. Three orders of two providers, two workers, batches of one, two polls.

### HagoConnection, NobilityCheckout

| Code | Actions |
|---|---|
| createLoginChallenge | CreateLoginChallenge, Tidy, Challenged |
| verifyLoginChallenge | VerifyLoginChallenge, Verified |
| getConnection, validateSession | GetConnection, ValidateSession, Validated, Expire |
| createQuote | ResolveProduct, CreateQuote |
| prepareNewOrder and createOrder | StartCheckout, PrepareOrder, CreateOrder |
| environment | Resolve, Expire, Change |

HagoSound is ConnectionSound (the connection comes from the challenge stored last when
it was verified; it is refused only if Hago refused it, unless a verification ended
within a validation, `crossed`) and CheckoutSound (one quote, one order, for its target,
at the base price its product had when the checkout began; two unresolved orders of a
target only from checkouts that overlapped). The base price is what the code compares; the
customer pays the quote's USD amount, with the markup his group had when it was made.
Three challenges are a replaced one, a verified one and a pending one; two quotes for one
target with two prices, markups and rates show stale prices of both kinds.

### ResellerApi

PlaceOrder finds an order by uuid or inserts it (createOrder is `OrderCreation`'s
subject), EnsureCompatOrderId assigns a public id by compare-and-swap, GiveUp after
MaxAttempts collisions, Answer reads what is stored by then; ListOrders; Unlist.
ResellerSound: answers for one uuid name one order and one public id, of that reseller's.

### Notifications, WhatsApp

NotifyUser, NotifyAdminsAndSupervisors, AdminSend, MarkAsRead, MarkAllAsRead,
RegisterDeviceToken, UnregisterDeviceToken, GetActiveTokens, SendPush, DeleteUser; and
Request, Destroyed, DeleteSession, Automatic, Start, Report, Disconnected.
MessagesSound is PushSound (a push arrives only on devices its recipient has held since
it was written; who reads a personal notification is its owner) and ClientSound
(`isInitializing` is up while the latest operation works and not without one, unless a
reset failed half-way; operations that do not overlap leave no browser behind and send
through no client that was not ready). Two users, two devices, three registrations let a
device change hands during a push and come back; three clients are an old one, its
replacement and the one that overtakes it.

### The run `services` (699,475 states)

`PROJECT.json` has a mutant for each property in the module it is about. Deadlock is not
checked: bounded requests end. No fairness is assumed: all properties are safety, and the
liveness a user would want of these services (an unknown outcome resolved, an order
polled) depends on administrators.

### Proofs (`ProviderServices_proofs`, `OrderServices_proofs`, `CustomerServices_proofs`)

Each component has an inductive invariant of its own, for any number of orders,
accounts, requests, faults and changes. Most say the same thing: what a handler read is
still true when it writes, or the write it races with is refused by the database.

Providers (assumed: `MutationsAssumption`, and `ProvidersAssumption`: `None` is no product
and no number, finitely many orders are polled):

- ProviderCalledOnce: when the provider is called, nothing was sent to it before for this
  order and no money has gone back (`GivenBack`), whatever executors, reconcilers,
  administrators and faults do.
- MoneyBackIsProved (RefundProved). The claim happens once, so one executor alone is
  between CLAIMED and its answer (`OneClaimant`; the others are before or after); what it
  settles without an answer it settles before sending; an answer determines `upstream`;
  and no administrator passes `IsRefundBlocked` while the state is open. `StateMeans` and
  `StepMeans` give, for every state of the order and place of an executor, what `upstream`
  may be; `GuardMeans` says that a lone executor whose first exception leads to the guard
  has claimed nothing.
- AnswersAreSound (AnswersSound). Lemma WordsAreUnderstood goes through the tables: every
  word a provider documents for a phase is mapped to a status of that phase. `Fits` says
  what an order's status tells of the provider at every place of its life.
- PollIsSound (PollSound). `PollInv`: groups are disjoint, two workers hold different
  groups, what lies ahead of the index or in a worker's hands has not been handed over
  (`HandedOnce`), and of each task that has not thrown the orders counted and those its
  worker has yet to count are its group (`TasksAreCounted`).
- CatalogueMirrors (SyncMirrors). `OneAtATime`: the lock is the one synchronisation in
  flight. `SyncMeans` says, step by step, which rows are already the provider's and which
  products still await their price; administrators' saves are in `edited`.

Orders (`ShopAssumption`: `None` is no identifier and no number, prices,
markups and rates are integers):

- UuidsStandForOrders (ResellerSound). `OneDocument` (one order per reseller and uuid, one
  per public id) and `ToldStays` (what was told is stored: an id is written only over none).
- QuotesAreKept (CheckoutSound). A checkout that is about to charge names a stored quote
  with the target and base price it compared (`CallsMean`); a checkout is `alone` if it saw no
  unresolved order and none began meanwhile, hence two of those never overlap (`AloneMeans`).
- SessionIsTheLatest (ConnectionSound), and with it HagoIsSound. `LoginsMean`: the pending
  challenge is the one stored last, and a connection under validation is the present one
  unless a verification crossed it.
- TargetOrdersAreSound (TargetOrdersSound). `FilesMean`: the proof of a request under way is
  its own; `KeysStand`: one order per user and key, of the body answered; `ReviewsMean`: an
  order has the one decision its status tells.

Customers (`CustomersAssumption`: `None` is nobody and no number, finitely many persons,
at least one try for a code):

- SubAgentsAreConsistent (SubAgentConsistent), OnlyActiveAreApproved (ApprovedWhileActive).
  `RequestsMean` counts an account's pending and approved requests by its marks; what an
  administrator saves are other fields (`AccountType`), and a transaction conflicts with
  what it has not seen.
- AccountsAreSound (AccountsSound). `AccountsInv`: a referrer exists, also that of a
  registration that has yet to insert its account, so that an insertion closes no circle;
  `StatesInv`: a state that was used keeps its nonce for as long as it is alive.
- CredentialsAreSound (CredentialsSound). `SavesMean`: what a request is about to save is
  consistent, new, and nobody else's; what it takes out is not put back.
- PushesReachTheirRecipient (PushSound), OneClientAtATime (ClientSound), and from both
  MessagesAreSound. `PushMeans` relates the tokens of a push to the devices held since the
  notification was written. `OperationInv`: operation numbers differ and none exceeds the
  counter, and the latest operation has the flag up; `BrowserInv`: while operations have not
  overlapped, one acts at a time and no browser runs but the one the module refers to.

## 8. What is only model-checked, and what is not modelled

Every invariant, action property and refinement that a passing run checks is also a
theorem. Only TLC checks

- what must happen eventually, under fairness: OwedRefundIsPaid and PolledSettles of
  `settle_live` and RequestsEnd of `creation`. The provers reason about neither ENABLED nor
  fairness, so these hold of the instances of their runs;
- the six violations, which are single behaviours.

The theorems are about the models; that a model is the code is what the maps, the
mutants and the bounded runs, which fire every action, speak for. A theorem of a
composition's instance is about any values of the constants that satisfy the named
assumptions, which TLC evaluates in each run.

Not modelled:

- Audit log: fire-and-forget output that nothing reads back. Categories: a document is
  read and saved, and no other state depends on it.
- Provider price cache and the price test in createOrder: they need a `provider` that no
  controller passes.
- Inchill's connection has the shape of Hago's with one challenge at a time; its target
  verification stores nothing.
- `retryOrder` and `syncOrderProviderStatus` (section 9), `recalcProductPrices`,
  `publishProduct`, `updatePublishedProduct`: no call of them can take effect or none exists.
- HTTP, rate limits, permissions, validation rules, mail, files, product and profile
  fields, lists, statistics and formatting.
- The formulas of prices beyond what a property needs: the rounded share of a partial
  refund, conversion and rounding in ledgers, deposits and payouts.
- MongoDB's own failures beyond those named: an error before, or after, a write took
  effect; an aborted or conflicting transaction. Several Node processes at once: the
  configuration starts one, and the locks of the cron jobs and synchronisations are
  variables in memory.
- Start-up, configuration, the middlewares that admit a request, and shared utilities.

## 9. What the code does not promise

Found while modelling, apart from the six violations in `PROJECT.json`. Where a
property would fail for one of these, it names the exception (a history variable), so
that everything else is still stated. Paths as in section 1.

| Where | What |
|---|---|
| `admin/admin.orders.service.js`: retryOrder, syncOrderProviderStatus | read a field, populate a path, that the Order schema does not have: the first always answers NO_EXTERNAL_ID, the second throws |
| `wallet/wallet.service.js`, `admin/`: functions that read, then `$set` | lose concurrent changes of the balance, although `docs/wallet-system.md` says every change is a single findOneAndUpdate (`broken`) |
| `deposits/deposit.service.js:653` updatePendingDeposit | saves by _id after its test of PENDING, so the amount of a deposit approved meanwhile changes (`edited`) |
| `orders/orderPolling.job.js` | not started by `server.js`; Hago's reconcileScheduled is therefore not run in production. The catch block of runOrderPolling names a variable that is out of scope |
| `order.service.js:1536` processOrderRefund | asks the two Hago services but not Inchill's whether a refund is blocked |
| `clientCompat/clientCompat.mappers.js` | PARTIAL and MANUAL_REVIEW are "wait" to a reseller for ever; one uuid with two bodies is answered with the first order |
| `providers/hago/`: quotes | the exact ledger converts a quote's USD price again; the test for an unresolved order of the target is made before the insert |
| `providers/hago/hagoConnection.service.js` | a validation may save REAUTH_REQUIRED over a connection verified meanwhile (`crossed`); the last of two challenges to be saved wins |
| `whatsapp/whatsapp.service.js` | a reset whose deletion throws leaves `isInitializing` up (`undeleted`); overlapping initialisations leave a browser behind (`overlapped`) |
| `providers/providerProductSync.service.js:299` | deactivates by `$nin` of the rows that were written, hence also a product whose upsert failed, although the comment at 275 says a transient error must not do so; SyncMirrors speaks of clean synchronisations |
| `notifications/` | a broadcast has one isRead for everybody; an FCM refusal may deactivate a token registered again meanwhile |
| `providers/adapters/` | unknown words: Alkasr cancels (and the order is refunded), Toros waits, `toUnifiedStatus` fails, `statusMapper` waits; all adapters but Canonical report lost answers as cancelled (`blind`) |
