-------------------------------- MODULE Deposits --------------------------------
(***************************************************************************)
(* Deposit requests and the referral commissions of approved ones.         *)
(* approveDeposit is one database transaction: what it wrote is compared   *)
(* with its snapshot when it commits, and it starts again on a conflict.   *)
(* The reconciliation of commissions uses none: each of its writes is a    *)
(* step of its own.  Amounts are hundredths; Micro is the part of a        *)
(* hundredth to which the amount in USD is rounded.                        *)
(***************************************************************************)
EXTENDS Integers, FiniteSets, FiniteSetsExt, Sequences, SequencesExt

CONSTANTS Calls,          \* requests and background tasks
          Requests,       \* deposit requests
          Customers,
          UserOf,         \* the customer of a request
          ReferredBy,     \* the referrer of a customer, or None
          EligibleUntil,  \* referralEligibleUntil of a customer
          WalletCurrency, \* User.currency
          Rate,           \* conversion rate of a currency
          Base,           \* USD, of rate 1
          Amounts,        \* amounts requested, edited, and overriding
          Percents,       \* referralCommissionPercentOverride
          Micro, None,
          MaxClock, MaxEdits, MaxSwitches \* bounds: time, edits, other changes

\* Currencies are worth something; an amount in USD keeps a part of a hundredth.
ASSUME DepositsAssumption ==
    /\ IsFiniteSet(Requests) /\ UserOf \in [Requests -> Customers]
    /\ WalletCurrency \in [Customers -> DOMAIN Rate]
    /\ Rate \in [DOMAIN Rate -> Nat \ {0}] /\ Micro \in Nat \ {0} /\ Amounts \subseteq Int

VARIABLES
    deposit,    \* DepositRequest documents
    customer,   \* active, percent, stoppedAt and balance of the users
    commission, \* the ReferralCommission of a deposit: its unique key
    configured, \* currencies a commission can be converted to
    clock, edits, switches,
    call,
    credited,   \* the credits of each deposit: amounts (history)
    edited      \* deposits saved by an edit that found them no longer pending (history)

vars == <<deposit, customer, commission, configured, clock, edits, switches, call,
          credited, edited>>

docs == <<deposit, customer, commission>>
history == <<credited, edited>>
environment == <<configured, clock, edits, switches>>

RoundDiv(n, d) == (2 * n + d) \div (2 * d)

\* approveDeposit: toFixed(6) of the amount in USD, toFixed(2) of what it makes.
WalletCredit(amount, from, to) ==
    IF from = to THEN amount
    ELSE RoundDiv(RoundDiv(amount * Micro, Rate[from]) * Rate[to], Micro)

NoCommission == [exists |-> FALSE]
Never == MaxClock + 1

Init ==
    /\ deposit = [d \in Requests |->
          [status |-> "NONE", amount |-> 0, currency |-> None, reviewedAt |-> 0,
           event |-> None, mark |-> "NONE", outcome |-> "NONE"]]
    /\ customer = [u \in Customers |->
          [active |-> TRUE, percent |-> 1, stoppedAt |-> Never, balance |-> 0]]
    /\ commission = [d \in Requests |-> NoCommission]
    /\ configured = DOMAIN Rate
    /\ clock = 0 /\ edits = 0 /\ switches = 0
    /\ call = [k \in Calls |-> [at |-> "idle"]]
    /\ credited = [d \in Requests |-> <<>>]
    /\ edited = {}

Idle(k) == call[k].at = "idle"
Goes(k, next) == call' = [call EXCEPT ![k] = next]

\* After an approval the bridge still saves its event.
Ended(k, ok) ==
    Goes(k, IF call[k].event = None THEN [at |-> "idle"]
            ELSE [at |-> "answered", event |-> call[k].event, approved |-> ok])

----------------------------------------------------------------------------
CreateDepositRequest(d, amount, currency) ==
    /\ deposit[d].status = "NONE"
    /\ deposit' = [deposit EXCEPT ![d] =
          [@ EXCEPT !.status = "PENDING", !.amount = amount, !.currency = currency]]
    /\ UNCHANGED <<customer, commission, environment, history>>

\* approveDeposit, called with an overriding amount (0: none), or by the bridge
\* with its event.
CallApprove(k, d, amount, event) ==
    /\ deposit[d].status # "NONE"
    /\ Goes(k, [at |-> "approve", deposit |-> d, override |-> amount, event |-> event])
    /\ UNCHANGED <<docs, environment, history>>

ApproveDeposit(k) ==
    \E d \in Requests, amount \in Amounts \cup {0} :
        Idle(k) /\ CallApprove(k, d, amount, None)

RefuseApproval(k) ==
    /\ call[k].at = "approve"
    /\ deposit[call[k].deposit].status # "PENDING"
    /\ Ended(k, FALSE)
    /\ UNCHANGED <<docs, environment, history>>

BeginApproval(k) ==
    LET c == call[k]
    IN  /\ c.at = "approve"
        /\ deposit[c.deposit].status = "PENDING"
        /\ Goes(k, [at |-> "approving", deposit |-> c.deposit, override |-> c.override,
                    event |-> c.event, reviewedAt |-> clock,
                    seen |-> deposit[c.deposit], users |-> customer])
        /\ UNCHANGED <<docs, environment, history>>

\* evaluateReferralEligibility, the percent and the currencies.
Outcome(d, users, reviewedAt, currency) ==
    LET referred == users[UserOf[d]]
        referrer == ReferredBy[UserOf[d]]
    IN  CASE referrer = None -> "NOT_REFERRED"
          [] ~users[referrer].active -> "INVALID_REFERRER"
          [] reviewedAt > EligibleUntil[UserOf[d]] -> "EXPIRED"
          [] reviewedAt >= referred.stoppedAt -> "STOPPED"
          [] users[referrer].percent = 0 -> "ZERO_PERCENT"
          [] ~({currency, WalletCurrency[referrer]} \subseteq configured \cup {Base}) ->
                "FAILED_CONFIGURATION"
          [] OTHER -> "CREATED"

\* buildFxCommissionSnapshot: what the commission is a percentage of.
Commission(d, users, amount, currency) ==
    [exists |-> TRUE, amount |-> amount, currency |-> currency,
     percent |-> users[ReferredBy[UserOf[d]]].percent]

Mark(outcome) ==
    CASE outcome \in {"CREATED", "ALREADY_EXISTS"} -> "PROCESSED"
      [] outcome \in {"FAILED_CONFIGURATION", "IDEMPOTENCY_CONFLICT"} -> "FAILED"
      [] OTHER -> "NOT_APPLICABLE"

FinalAmount(c) == IF c.override = 0 THEN c.seen.amount ELSE c.override

MutConflicts(c) == FALSE \* Mutant: no filter on PENDING, no transaction.

\* Documents of the write set that changed since the snapshot.
Conflicts(c) ==
    \/ deposit[c.deposit] # c.seen
    \/ customer[UserOf[c.deposit]] # c.users[UserOf[c.deposit]]

MutCommitApproval(k) == \* Mutant: a commission is processed after the commit.
    LET c == call[k]
        u == UserOf[c.deposit]
    IN  /\ c.at = "approving" /\ ~Conflicts(c)
        /\ customer' = [customer EXCEPT ![u].balance =
              @ + WalletCredit(FinalAmount(c), c.seen.currency, WalletCurrency[u])]
        /\ credited' = [credited EXCEPT ![c.deposit] = Append(@, FinalAmount(c))]
        /\ deposit' = [deposit EXCEPT ![c.deposit] = [c.seen EXCEPT
              !.status = "APPROVED", !.amount = FinalAmount(c), !.event = c.event,
              !.reviewedAt = c.reviewedAt, !.mark = "PROCESSED", !.outcome = "CREATED"]]
        /\ Ended(k, TRUE)
        /\ UNCHANGED <<commission, environment, edited>>

CommitApproval(k) ==
    LET c == call[k]
        d == c.deposit
        u == UserOf[d]
        outcome == Outcome(d, c.users, c.reviewedAt, c.seen.currency)
    IN  /\ c.at = "approving" /\ ~Conflicts(c)
        /\ deposit' = [deposit EXCEPT ![d] = [c.seen EXCEPT
              !.status = "APPROVED", !.amount = FinalAmount(c), !.event = c.event,
              !.reviewedAt = c.reviewedAt, !.mark = Mark(outcome), !.outcome = outcome]]
        /\ customer' = [customer EXCEPT ![u].balance =
              @ + WalletCredit(FinalAmount(c), c.seen.currency, WalletCurrency[u])]
        /\ commission' = IF outcome # "CREATED" THEN commission
              ELSE [commission EXCEPT ![d] =
                      Commission(d, c.users, FinalAmount(c), c.seen.currency)]
        /\ credited' = [credited EXCEPT ![d] = Append(@, FinalAmount(c))]
        /\ Ended(k, TRUE)
        /\ UNCHANGED <<environment, edited>>

\* withTransaction runs the function again.
ConflictApproval(k) ==
    LET c == call[k]
    IN  /\ c.at = "approving" /\ Conflicts(c)
        /\ Goes(k, [at |-> "approve", deposit |-> c.deposit, override |-> c.override,
                    event |-> c.event])
        /\ UNCHANGED <<docs, environment, history>>

\* An error of the driver, a rate that is missing, a credit that rounds to 0.
AbortApproval(k) ==
    /\ call[k].at = "approving"
    /\ Ended(k, FALSE)
    /\ UNCHANGED <<docs, environment, history>>

\* findOneAndUpdate with status PENDING; the reads before and after only choose
\* the error.
RejectDeposit(d) ==
    /\ deposit[d].status = "PENDING"
    /\ deposit' = [deposit EXCEPT ![d] =
          [@ EXCEPT !.status = "REJECTED", !.reviewedAt = clock]]
    /\ UNCHANGED <<customer, commission, call, environment, history>>

----------------------------------------------------------------------------
(* updatePendingDeposit: the status is tested on the document that was     *)
(* read; save() writes the amount whatever the status is by then.          *)

ReadForUpdate(k) ==
    /\ Idle(k) /\ edits < MaxEdits
    /\ \E d \in Requests, amount \in Amounts :
          /\ deposit[d].status = "PENDING"
          /\ Goes(k, [at |-> "update", deposit |-> d, amount |-> amount])
    /\ edits' = edits + 1
    /\ UNCHANGED <<docs, configured, clock, switches, history>>

SaveUpdate(k) ==
    LET d == call[k].deposit
    IN  /\ call[k].at = "update"
        /\ deposit' = [deposit EXCEPT ![d].amount = call[k].amount]
        /\ edited' = IF deposit[d].status = "PENDING" THEN edited ELSE edited \cup {d}
        /\ Goes(k, [at |-> "idle"])
        /\ UNCHANGED <<customer, commission, environment, credited>>

----------------------------------------------------------------------------
(* reconcileReferralCommissions of one deposit, without a session.         *)

ReadForReconciliation(k) ==
    /\ Idle(k)
    /\ \E d \in Requests, failedOnly \in BOOLEAN :
          /\ deposit[d].status = "APPROVED"
          /\ failedOnly => deposit[d].mark = "FAILED"
          /\ Goes(k, [at |-> "reconcile", deposit |-> d, seen |-> deposit[d]])
    /\ UNCHANGED <<docs, environment, history>>

MarkPending(k) ==
    /\ call[k].at = "reconcile"
    /\ deposit' = [deposit EXCEPT ![call[k].deposit] =
          [@ EXCEPT !.mark = "PENDING", !.outcome = "NONE"]]
    /\ Goes(k, [at |-> "create", deposit |-> call[k].deposit, seen |-> call[k].seen])
    /\ UNCHANGED <<customer, commission, environment, history>>

MutInsertCommission(d, new) == \* Mutant: no unique key.
    [commission EXCEPT ![d] = new]

\* The unique key of a commission keeps the first.
InsertCommission(d, new) ==
    IF commission[d].exists THEN commission ELSE [commission EXCEPT ![d] = new]

CreateCommissionRecord(k) ==
    LET d == call[k].deposit
        seen == call[k].seen
        outcome == Outcome(d, customer, seen.reviewedAt, seen.currency)
        new == Commission(d, customer, seen.amount, seen.currency)
    IN  /\ call[k].at = "create"
        /\ commission' = IF outcome = "CREATED" THEN InsertCommission(d, new)
                         ELSE commission
        /\ Goes(k, [at |-> "mark", deposit |-> d, outcome |->
              IF outcome # "CREATED" \/ ~commission[d].exists THEN outcome
              ELSE IF commission[d] = new THEN "ALREADY_EXISTS"
              ELSE "IDEMPOTENCY_CONFLICT"])
        /\ UNCHANGED <<deposit, customer, environment, history>>

MarkDepositCommission(k) ==
    LET c == call[k]
    IN  /\ c.at = "mark"
        /\ deposit' = [deposit EXCEPT ![c.deposit] =
              [@ EXCEPT !.mark = Mark(c.outcome), !.outcome = c.outcome]]
        /\ Goes(k, [at |-> "idle"])
        /\ UNCHANGED <<customer, commission, environment, history>>

----------------------------------------------------------------------------
Tick ==
    /\ clock < MaxClock /\ clock' = clock + 1
    /\ UNCHANGED <<docs, configured, edits, switches, call, history>>

Switch == switches < MaxSwitches /\ switches' = switches + 1

SetReferralCommissionOverride ==
    /\ Switch
    /\ \E u \in Customers, percent \in Percents :
          customer' = [customer EXCEPT ![u].percent = percent]
    /\ UNCHANGED <<deposit, commission, configured, clock, edits, call, history>>

\* updateUser: a user is suspended or activated.
ChangeUser ==
    /\ Switch
    /\ \E u \in Customers : customer' = [customer EXCEPT ![u].active = ~@]
    /\ UNCHANGED <<deposit, commission, configured, clock, edits, call, history>>

\* A user becomes a sub-agent, once, whose deposits earn nobody a commission any more.
ApproveSubAgent ==
    /\ Switch
    /\ \E u \in Customers :
          /\ customer[u].stoppedAt = Never
          /\ customer' = [customer EXCEPT ![u].stoppedAt = clock]
    /\ UNCHANGED <<deposit, commission, configured, clock, edits, call, history>>

\* The base currency cannot be disabled.
SetCurrencyStatus ==
    /\ Switch
    /\ \E c \in DOMAIN Rate \ {Base} : configured' =
          IF c \in configured THEN configured \ {c} ELSE configured \cup {c}
    /\ UNCHANGED <<docs, clock, edits, call, history>>

Crash(k) ==
    /\ call[k].at # "idle"
    /\ Goes(k, [at |-> "idle"])
    /\ UNCHANGED <<docs, environment, history>>

Approval(k) ==
    \/ RefuseApproval(k) \/ BeginApproval(k) \/ CommitApproval(k)
    \/ ConflictApproval(k) \/ AbortApproval(k)

Reconciliation(k) ==
    \/ ReadForReconciliation(k) \/ MarkPending(k) \/ CreateCommissionRecord(k)
    \/ MarkDepositCommission(k)

Environment ==
    \/ Tick \/ SetReferralCommissionOverride \/ ChangeUser \/ ApproveSubAgent
    \/ SetCurrencyStatus

----------------------------------------------------------------------------
(* Properties *)

CreditOf(d) ==
    FoldSeq(LAMBDA amount, sum :
                sum + WalletCredit(amount, deposit[d].currency, WalletCurrency[UserOf[d]]),
            0, credited[d])

\* Every approved deposit is credited once, no other is, and the balance of a
\* customer is the sum of these credits, although administrators and the bridge
\* approve, reject and edit the same deposit at the same time (approveDeposit).
CreditedOnceIfApproved ==
    /\ \A d \in Requests :
          Len(credited[d]) = IF deposit[d].status = "APPROVED" THEN 1 ELSE 0
    /\ \A u \in Customers :
          customer[u].balance = MapThenSumSet(CreditOf, {d \in Requests : UserOf[d] = u})

\* A commission is of the amount that was credited, whichever of the approval and
\* the reconciliations created it, unless an edit changed the approved deposit; and
\* a deposit is never marked PROCESSED without it.
CommissionOnCredited ==
    \A d \in Requests :
        /\ (commission[d].exists /\ d \notin edited) =>
              Contains(credited[d], commission[d].amount)
        /\ deposit[d].mark = "PROCESSED" => commission[d].exists

\* A commission that exists is never changed: a reconciliation with another percent
\* or amount reports a conflict (REFERRAL_COMMISSION_IDEMPOTENCY_CONFLICT).
CommissionFixed ==
    [][\A d \in Requests : commission[d].exists => commission'[d] = commission[d]]_vars
================================================================================
