----------------------------- MODULE OrderCreation -----------------------------
(***************************************************************************)
(* createOrder: the idempotency check, then an attempt that debits the     *)
(* wallet and creates the order, in one snapshot transaction where the     *)
(* MongoDB deployment has them, otherwise ("standalone") as separate       *)
(* writes with a compensating refund; at last the execution is scheduled.  *)
(*                                                                         *)
(* One action is the code between two awaits that matter.  A transaction   *)
(* reads its snapshot of the user; writing the user fails if the document  *)
(* was written since or by another open transaction.  The quota branch has *)
(* the same steps: remaining quota is then the balance, with no credit.    *)
(***************************************************************************)
EXTENDS Integers, FiniteSets

CONSTANTS Requests,     \* HTTP requests; a resubmission is a request of its own
          Users,
          NoKey,        \* idempotencyKey = null
          None,         \* no request
          User,         \* userId of a request
          Key,          \* its idempotencyKey
          Price,        \* chargedAmount
          Automatic,    \* requests for an automatic product
          Start,        \* walletBalance of each user at first
          Limit,        \* creditLimit of each user
          MaxNumbers,   \* ORDER_NUMBER_MAX_ATTEMPTS
          Modes,        \* the deployments considered
          Faults,       \* which faults the environment may produce
          MaxTopUps,    \* bound: payments into wallets in a behaviour
          MaxFaulty,    \* bound: requests that meet a fault of the database
          MaxCrashes    \* bound: process crashes

AllModes == {"transactions", "standalone", "unsupported"}
FaultKinds == {"dbError", "unknown"}

ASSUME RequestsAssumption ==
    /\ None \notin Requests
    /\ User \in [Requests -> Users]
    /\ Automatic \subseteq Requests
ASSUME AmountsAssumption ==
    /\ Price \in [Requests -> Nat \ {0}]
    /\ Start \in [Users -> Int] /\ Limit \in [Users -> Nat]
    /\ \A u \in Users : Start[u] + Limit[u] >= 0
    /\ MaxNumbers \in Nat /\ MaxTopUps \in Nat
    /\ MaxFaulty \in Nat /\ MaxCrashes \in Nat
    /\ Modes \subseteq AllModes /\ Faults \subseteq FaultKinds

VARIABLES
    mode,       \* what the deployment supports
    pc,         \* where each request is
    after,      \* where a compensating refund goes on to
    forced,     \* forceStandalone
    retried,    \* isRetry
    numbers,    \* orderNumberRetryCount
    lock,       \* the transaction that has written the user document
    seen,       \* balance in the snapshot of a transaction
    stale,      \* the user document was written after that snapshot
    balance,    \* User.walletBalance
    paid,       \* what a request took from the wallet, less what it put back
    orders,     \* requests whose order exists
    reply,      \* the order named in the answer
    executed,   \* times executeOrder was called for the order of a request
    faulted,    \* requests hit by a fault or a crash
    topUps,     \* payments so far
    crashes     \* crashes so far

walletVars == <<balance, paid, stale>>
tryVars    == <<forced, retried, numbers>>
answerVars == <<reply, executed>>
boundVars  == <<topUps, crashes>>
vars == <<mode, pc, after, tryVars, lock, seen, walletVars, orders, answerVars,
          faulted, boundVars>>

Ended == {"done", "answered", "failed", "dead"}
Steps == {"new", "attempt", "debit", "create", "commit", "compensate",
          "existing", "schedule"} \cup Ended

TypeOK ==
    /\ mode \in AllModes
    /\ pc \in [Requests -> Steps]
    /\ after \in [Requests -> {"attempt", "existing", "failed"}]
    /\ forced \in [Requests -> BOOLEAN] /\ retried \in [Requests -> BOOLEAN]
    /\ numbers \in [Requests -> Nat]
    /\ lock \in [Users -> Requests \cup {None}]
    /\ seen \in [Requests -> Int] /\ stale \in [Requests -> BOOLEAN]
    /\ balance \in [Users -> Int] /\ paid \in [Requests -> Int]
    /\ orders \subseteq Requests
    /\ reply \in [Requests -> Requests \cup {None}]
    /\ executed \in [Requests -> Nat]
    /\ faulted \subseteq Requests
    /\ topUps \in Nat /\ crashes \in Nat

Init ==
    /\ mode \in Modes
    /\ pc = [r \in Requests |-> "new"]
    /\ after = [r \in Requests |-> "failed"]
    /\ forced = [r \in Requests |-> FALSE]
    /\ retried = [r \in Requests |-> FALSE]
    /\ numbers = [r \in Requests |-> 0]
    /\ lock = [u \in Users |-> None]
    /\ seen = [r \in Requests |-> 0]
    /\ stale = [r \in Requests |-> FALSE]
    /\ balance = Start
    /\ paid = [r \in Requests |-> 0]
    /\ orders = {}
    /\ reply = [r \in Requests |-> None]
    /\ executed = [r \in Requests |-> 0]
    /\ faulted = {}
    /\ topUps = 0
    /\ crashes = 0

Goto(r, step) == pc' = [pc EXCEPT ![r] = step]
Set(f, x, v) == [f EXCEPT ![x] = v]

\* shouldUseOrderTransactions(), unless the attempt was forced standalone.
InTransaction(r) == mode # "standalone" /\ ~forced[r]

SameKey(r) == {q \in Requests : User[q] = User[r] /\ Key[q] = Key[r] /\ Key[r] # NoKey}
Existing(r) == SameKey(r) \cap orders

\* Giving up a transaction (abortTransactionQuietly).
Release(r) == lock' = [u \in Users |-> IF lock[u] = r THEN None ELSE lock[u]]

\* A committed write of u's wallet: open snapshots of it are out of date.
Write(u, amount) ==
    /\ balance' = Set(balance, u, balance[u] + amount)
    /\ stale' = [q \in Requests |->
                    stale[q] \/ (pc[q] = "debit" /\ InTransaction(q) /\ User[q] = u)]

Move(r, amount) ==
    /\ Write(User[r], amount)
    /\ paid' = Set(paid, r, paid[r] - amount)

(***************************************************************************)
(* createOrder                                                             *)
(***************************************************************************)
MutCreateOrder(r) == \* Mutant: find instead of findOne.
    /\ pc[r] = "new"
    /\ IF Existing(r) = {}
       THEN Goto(r, "attempt") /\ UNCHANGED reply
       ELSE Goto(r, "answered") /\ reply' = Set(reply, r, Existing(r))
    /\ UNCHANGED <<mode, after, tryVars, lock, seen, walletVars, orders, executed,
                   faulted, boundVars>>

CreateOrder(r) ==
    /\ pc[r] = "new"
    /\ IF Existing(r) = {}
       THEN Goto(r, "attempt") /\ UNCHANGED reply
       ELSE /\ Goto(r, "answered")
            /\ \E q \in Existing(r) : reply' = Set(reply, r, q)
    /\ UNCHANGED <<mode, after, tryVars, lock, seen, walletVars, orders, executed,
                   faulted, boundVars>>

\* The attempt reads the snapshot of its transaction ...
BeginTransaction(r) ==
    /\ pc[r] = "attempt"
    /\ mode = "transactions" /\ InTransaction(r)
    /\ seen' = Set(seen, r, balance[User[r]])
    /\ stale' = Set(stale, r, FALSE)
    /\ Goto(r, "debit")
    /\ UNCHANGED <<mode, after, tryVars, lock, balance, paid, orders, answerVars,
                   faulted, boundVars>>

\* ... or the current documents.
BeginStandalone(r) ==
    /\ pc[r] = "attempt"
    /\ ~InTransaction(r)
    /\ Goto(r, "debit")
    /\ UNCHANGED <<mode, after, tryVars, lock, seen, walletVars, orders,
                   answerVars, faulted, boundVars>>

\* The first read fails with "Transaction numbers are only allowed ...".
Unsupported(r) ==
    /\ pc[r] = "attempt"
    /\ mode = "unsupported" /\ InTransaction(r)
    /\ forced' = Set(forced, r, TRUE)
    /\ retried' = Set(retried, r, TRUE)
    /\ UNCHANGED <<mode, pc, after, numbers, lock, seen, walletVars, orders,
                   answerVars, faulted, boundVars>>

\* Product, quantity, order fields, live price or currency refuse the order.
Refused(r) ==
    /\ pc[r] = "debit"
    /\ Goto(r, "failed")
    /\ UNCHANGED <<mode, after, tryVars, lock, seen, walletVars, orders,
                   answerVars, faulted, boundVars>>

(***************************************************************************)
(* debitWalletAtomic: the filter balance + creditLimit >= amount and the   *)
(* write are one operation.                                                *)
(***************************************************************************)
Funds(r) == IF InTransaction(r) THEN seen[r] ELSE balance[User[r]]
Affords(r) == Funds(r) + Limit[User[r]] >= Price[r]

InsufficientFunds(r) ==
    /\ pc[r] = "debit" /\ ~Affords(r)
    /\ Goto(r, "failed")
    /\ UNCHANGED <<mode, after, tryVars, lock, seen, walletVars, orders,
                   answerVars, faulted, boundVars>>

MutConflict(r) == FALSE \* Mutant: the debit runs outside the session.

Conflict(r) == stale[r] \/ lock[User[r]] # None

DebitInTransaction(r) ==
    /\ pc[r] = "debit" /\ InTransaction(r)
    /\ Affords(r) /\ ~Conflict(r)
    /\ lock' = Set(lock, User[r], r)
    /\ Goto(r, "create")
    /\ UNCHANGED <<mode, after, tryVars, seen, walletVars, orders, answerVars,
                   faulted, boundVars>>

\* Error 112: the whole attempt is repeated once.
WriteConflict(r) ==
    /\ pc[r] = "debit" /\ InTransaction(r)
    /\ Affords(r) /\ Conflict(r)
    /\ Goto(r, IF retried[r] THEN "failed" ELSE "attempt")
    /\ retried' = Set(retried, r, TRUE)
    /\ UNCHANGED <<mode, after, forced, numbers, lock, seen, walletVars, orders,
                   answerVars, faulted, boundVars>>

DebitDirectly(r) ==
    /\ pc[r] = "debit" /\ ~InTransaction(r)
    /\ Affords(r)
    /\ Move(r, -Price[r])
    /\ Goto(r, "create")
    /\ UNCHANGED <<mode, after, tryVars, lock, seen, orders, answerVars, faulted,
                   boundVars>>

Fault(kind, r) ==
    /\ kind \in Faults
    /\ faulted' = faulted \cup {r}
    /\ Cardinality(faulted') <= MaxFaulty

\* The wallet is debited, but its transaction record is not written: the
\* error leaves debitWalletAtomic and nothing puts the money back.
DebitRecordFails(r) ==
    /\ Fault("dbError", r)
    /\ pc[r] = "debit" /\ ~InTransaction(r)
    /\ Affords(r)
    /\ Move(r, -Price[r])
    /\ Goto(r, "failed")
    /\ UNCHANGED <<mode, after, tryVars, lock, seen, orders, answerVars, boundVars>>

(***************************************************************************)
(* Order.create and its errors: standalone writes are compensated by a     *)
(* refund, a transaction is aborted.                                       *)
(***************************************************************************)
Leave(r, step) ==
    IF InTransaction(r)
    THEN Release(r) /\ Goto(r, step) /\ UNCHANGED after
    ELSE Goto(r, "compensate") /\ after' = Set(after, r, step) /\ UNCHANGED lock

MutCreate(r) == \* Mutant: no unique index, the check before the attempt only.
    /\ pc[r] = "create"
    /\ IF InTransaction(r)
       THEN Goto(r, "commit") /\ UNCHANGED orders
       ELSE Goto(r, "schedule") /\ orders' = orders \cup {r}
    /\ UNCHANGED <<mode, after, tryVars, lock, seen, walletVars, answerVars,
                   faulted, boundVars>>

Create(r) ==
    /\ pc[r] = "create" /\ Existing(r) = {}
    /\ IF InTransaction(r)
       THEN Goto(r, "commit") /\ UNCHANGED orders
       ELSE Goto(r, "schedule") /\ orders' = orders \cup {r}
    /\ UNCHANGED <<mode, after, tryVars, lock, seen, walletVars, answerVars,
                   faulted, boundVars>>

MutDuplicateKey(r) == \* Mutant: an answered duplicate keeps its debit.
    /\ pc[r] = "create" /\ Existing(r) # {}
    /\ Release(r) /\ Goto(r, "existing")
    /\ UNCHANGED <<mode, after, tryVars, seen, walletVars, orders, answerVars,
                   faulted, boundVars>>

\* E11000 on (userId, idempotencyKey).
DuplicateKey(r) ==
    /\ pc[r] = "create" /\ Existing(r) # {}
    /\ Leave(r, "existing")
    /\ UNCHANGED <<mode, tryVars, seen, walletVars, orders, answerVars, faulted,
                   boundVars>>

MutDuplicateNumber(r) == \* Mutant: the retry is not counted.
    /\ pc[r] = "create" /\ numbers[r] < MaxNumbers
    /\ Leave(r, "attempt")
    /\ UNCHANGED <<mode, tryVars, seen, walletVars, orders, answerVars, faulted,
                   boundVars>>

MutNumberAsKey(r) == \* Mutant: every E11000 is taken for a duplicate request.
    /\ pc[r] = "create" /\ numbers[r] < MaxNumbers
    /\ Leave(r, IF Key[r] = NoKey THEN "failed" ELSE "existing")
    /\ UNCHANGED <<mode, tryVars, seen, walletVars, orders, answerVars, faulted,
                   boundVars>>

\* Another order took the random order number since it was checked.
DuplicateNumber(r) ==
    /\ pc[r] = "create" /\ numbers[r] < MaxNumbers
    /\ numbers' = Set(numbers, r, numbers[r] + 1)
    /\ Leave(r, "attempt")
    /\ UNCHANGED <<mode, forced, retried, seen, walletVars, orders, answerVars,
                   faulted, boundVars>>

\* The last collision is taken for a duplicate request if there is a key.
NumbersExhausted(r) ==
    /\ pc[r] = "create" /\ numbers[r] >= MaxNumbers
    /\ Leave(r, IF Key[r] = NoKey THEN "failed" ELSE "existing")
    /\ UNCHANGED <<mode, tryVars, seen, walletVars, orders, answerVars, faulted,
                   boundVars>>

CreateFails(r) ==
    /\ Fault("dbError", r)
    /\ pc[r] = "create"
    /\ Leave(r, "failed")
    /\ UNCHANGED <<mode, tryVars, seen, walletVars, orders, answerVars, boundVars>>

\* A standalone insert that took effect but was reported as an error.
CreateUnknown(r) ==
    /\ Fault("unknown", r)
    /\ pc[r] = "create" /\ ~InTransaction(r) /\ Existing(r) = {}
    /\ orders' = orders \cup {r}
    /\ Leave(r, "failed")
    /\ UNCHANGED <<mode, tryVars, seen, walletVars, answerVars, boundVars>>

(***************************************************************************)
(* The compensating refund; its own error is swallowed.                    *)
(***************************************************************************)
Compensate(r) ==
    /\ pc[r] = "compensate"
    /\ Move(r, Price[r])
    /\ Goto(r, after[r])
    /\ UNCHANGED <<mode, after, tryVars, lock, seen, orders, answerVars, faulted,
                   boundVars>>

CompensateFails(r) ==
    /\ Fault("dbError", r)
    /\ pc[r] = "compensate"
    /\ Goto(r, after[r])
    /\ UNCHANGED <<mode, after, tryVars, lock, seen, walletVars, orders,
                   answerVars, boundVars>>

MutAnswerExisting(r) == \* Mutant: the duplicate is executed once more.
    /\ pc[r] = "existing"
    /\ IF Existing(r) = {}
       THEN UNCHANGED answerVars
       ELSE \E q \in Existing(r) : /\ reply' = Set(reply, r, q)
                                   /\ executed' = Set(executed, q, executed[q] + 1)
    /\ Goto(r, "answered")
    /\ UNCHANGED <<mode, after, tryVars, lock, seen, walletVars, orders, faulted,
                   boundVars>>

\* The order found by (userId, idempotencyKey), or null.
AnswerExisting(r) ==
    /\ pc[r] = "existing"
    /\ IF Existing(r) = {}
       THEN UNCHANGED reply
       ELSE \E q \in Existing(r) : reply' = Set(reply, r, q)
    /\ Goto(r, "answered")
    /\ UNCHANGED <<mode, after, tryVars, lock, seen, walletVars, orders, executed,
                   faulted, boundVars>>

(***************************************************************************)
(* Commit and what follows it                                              *)
(***************************************************************************)
Committed(r) ==
    /\ Move(r, -Price[r])
    /\ orders' = orders \cup {r}
    /\ Release(r)

MutCommit(r) == \* Mutant: the debit does not take part in the transaction.
    /\ pc[r] = "commit"
    /\ orders' = orders \cup {r} /\ Release(r)
    /\ Goto(r, "schedule")
    /\ UNCHANGED <<mode, after, tryVars, seen, walletVars, answerVars, faulted, boundVars>>

Commit(r) ==
    /\ pc[r] = "commit"
    /\ Committed(r)
    /\ Goto(r, "schedule")
    /\ UNCHANGED <<mode, after, tryVars, seen, answerVars, faulted, boundVars>>

CommitFails(r) ==
    /\ Fault("dbError", r)
    /\ pc[r] = "commit"
    /\ Release(r)
    /\ Goto(r, "failed")
    /\ UNCHANGED <<mode, after, tryVars, seen, walletVars, orders, answerVars,
                   boundVars>>

\* The commit took effect but was reported as an error.
CommitUnknown(r) ==
    /\ Fault("unknown", r)
    /\ pc[r] = "commit"
    /\ Committed(r)
    /\ Goto(r, "failed")
    /\ UNCHANGED <<mode, after, tryVars, seen, answerVars, boundVars>>

\* order.populate is a read after the commit: its error ends the request too.
PopulateFails(r) ==
    /\ Fault("dbError", r)
    /\ pc[r] = "schedule"
    /\ Goto(r, "failed")
    /\ UNCHANGED <<mode, after, tryVars, lock, seen, walletVars, orders,
                   answerVars, boundVars>>

Schedule(r) ==
    /\ pc[r] = "schedule"
    /\ executed' = IF r \in Automatic THEN Set(executed, r, executed[r] + 1)
                                      ELSE executed
    /\ reply' = Set(reply, r, r)
    /\ Goto(r, "done")
    /\ UNCHANGED <<mode, after, tryVars, lock, seen, walletVars, orders, faulted,
                   boundVars>>

(***************************************************************************)
(* Environment                                                             *)
(***************************************************************************)

\* Another part of the system pays into the wallet (creditWalletDirect); a
\* plain write waits for the transaction that has written the document.
TopUp(u) ==
    /\ topUps < MaxTopUps
    /\ topUps' = topUps + 1
    /\ lock[u] = None
    /\ Write(u, 1)
    /\ UNCHANGED <<mode, pc, after, tryVars, lock, seen, paid, orders, answerVars,
                   faulted, crashes>>

\* The process dies; the server aborts the open transactions.
Crash ==
    /\ crashes < MaxCrashes
    /\ crashes' = crashes + 1
    /\ pc' = [r \in Requests |-> IF pc[r] \in Ended \cup {"new"} THEN pc[r] ELSE "dead"]
    /\ faulted' = faulted \cup {r \in Requests : pc[r] \notin Ended \cup {"new"}}
    /\ lock' = [u \in Users |-> None]
    /\ UNCHANGED <<mode, after, tryVars, seen, walletVars, orders, answerVars, topUps>>

(***************************************************************************)
(* Specification                                                           *)
(***************************************************************************)
Debit(r) ==
    \/ Refused(r)
    \/ InsufficientFunds(r)
    \/ DebitInTransaction(r)
    \/ WriteConflict(r)
    \/ DebitDirectly(r)
    \/ DebitRecordFails(r)

Insert(r) ==
    \/ Create(r)
    \/ DuplicateKey(r)
    \/ DuplicateNumber(r)
    \/ NumbersExhausted(r)
    \/ CreateFails(r)
    \/ CreateUnknown(r)

Finish(r) ==
    \/ Compensate(r)
    \/ CompensateFails(r)
    \/ AnswerExisting(r)
    \/ Commit(r)
    \/ CommitFails(r)
    \/ CommitUnknown(r)
    \/ PopulateFails(r)
    \/ Schedule(r)

Handle(r) ==
    \/ BeginTransaction(r)
    \/ BeginStandalone(r)
    \/ Unsupported(r)
    \/ Debit(r)
    \/ Insert(r)
    \/ Finish(r)

Next ==
    \/ \E r \in Requests : CreateOrder(r) \/ Handle(r)
    \/ \E u \in Users : TopUp(u)
    \/ Crash

Spec == Init /\ [][Next]_vars

\* The process keeps running a request it has accepted; nothing else is fair.
FairSpec == Spec /\ \A r \in Requests : WF_vars(Handle(r))

(***************************************************************************)
(* Properties                                                              *)
(***************************************************************************)

\* No sequence of concurrent orders, refunds and payments takes a wallet below
\* the credit limit.
WithinCredit == \A u \in Users : balance[u] + Limit[u] >= 0

\* A user's idempotency key stands for at most one order, through concurrent
\* submissions, conflicts, fallbacks and resubmissions after a crash.
OneOrderPerKey == \A r \in orders : Existing(r) \subseteq {r}

\* A request that has ended took the price if its order exists and nothing
\* otherwise; without transactions a fault or crash may break this.
PaidIffOrdered ==
    \A r \in Requests :
        /\ pc[r] \in Ended
        /\ mode = "transactions" \/ r \notin faulted
        => paid[r] = IF r \in orders THEN Price[r] ELSE 0

\* The provider is asked at most once for an order, and only for one that was
\* paid (more than once, if a compensation failed before a retry); a duplicate
\* answer never triggers it again.
ExecutedOncePaid ==
    \A r \in Requests :
        executed[r] > 0 => executed[r] = 1 /\ r \in orders /\ paid[r] >= Price[r]

\* A duplicate is answered with the order its user created under the same key;
\* only running out of order numbers can leave the answer empty.
AnswersOriginal ==
    \A r \in Requests : pc[r] = "answered" =>
        \/ reply[r] \in Existing(r)
        \/ reply[r] = None /\ numbers[r] = MaxNumbers

\* The promise of Checkout, kept where transactions are available: no state in
\* which the money is gone and the order is missing, or the other way round.
\* Elsewhere the two are separate writes and the mapping stands still.
Atomic == mode = "transactions"
Shop == INSTANCE Checkout
    WITH orders <- IF Atomic THEN orders ELSE {},
         balance <- IF Atomic THEN balance ELSE Start
CheckoutSpec == Shop!Spec

\* Every accepted request ends: conflicts, fallbacks and colliding order
\* numbers are retried a bounded number of times.
RequestsEnd == \A r \in Requests : pc[r] # "new" ~> pc[r] \in Ended

\* Every automatic order is handed to the provider, as the comment before the
\* call of executeOrder says.
CreatedIsExecuted ==
    \A r \in Automatic : r \in orders ~> executed[r] > 0
================================================================================
