------------------------------- MODULE ReferralPayouts -------------------------------
(***************************************************************************)
(* Payouts of referral commissions.  Each operation is one database        *)
(* transaction: it works on the snapshot it began with, and when a         *)
(* document it writes has changed since, withTransaction starts it again.  *)
(* Amounts are in millionths, Cent of them making a hundredth.             *)
(***************************************************************************)
EXTENDS Integers, FiniteSets, FiniteSetsExt, Sequences

CONSTANTS Calls, Users, Payouts,
          Commissions, \* ReferralCommission documents
          Earner,      \* referrerUserId of a commission
          Earned,      \* commissionAmountReferrerCurrency
          EarnedIn,    \* referrerCurrency
          Age,         \* the place in the order of sourceCompletedAt and _id
          Currencies, Home, Keys, Sums, Cent, None,
          MaxRequests, MaxUserChanges \* bounds

VARIABLES
    commission, \* status and payoutRequestId
    payout,     \* ReferralPayout documents
    user,       \* status ACTIVE and currency
    rows,       \* wallet transactions of payouts, and the credit they booked
    call,
    requests, changes,
    answers     \* what calls with an idempotency key were answered (history)

vars == <<commission, payout, user, rows, call, requests, changes, answers>>

NoPayout == [status |-> "NONE", commissions |-> {}, key |-> None, receipt |-> FALSE]

Init ==
    /\ commission = [c \in Commissions |-> [status |-> "AVAILABLE", payout |-> None]]
    /\ payout = [p \in Payouts |-> NoPayout]
    /\ user = [u \in Users |-> [active |-> TRUE, currency |-> Home[u]]]
    /\ rows = <<>>
    /\ call = [k \in Calls |-> [at |-> "idle"]]
    /\ requests = 0 /\ changes = 0
    /\ answers = {}

Goes(k, next) == call' = [call EXCEPT ![k] = next]
Running(k, operation) == call[k].at = "run" /\ call[k].operation = operation
Total(cs) == MapThenSumSet(LAMBDA c : Earned[c], cs)

----------------------------------------------------------------------------
\* normalizePayoutCreationInput: chosen commissions, or else an amount.
Inputs ==
    {i \in [user : Users, method : {"WALLET_CREDIT", "MANUAL_EXTERNAL"},
            currency : Currencies, commissions : SUBSET Commissions,
            amount : Sums \cup {0}, key : Keys \cup {None}] :
        (i.commissions = {}) = (i.amount > 0)}

Operations ==
    [operation : {"create"}, input : Inputs]
      \cup [operation : {"reject", "payWallet"}, payout : Payouts]
      \cup [operation : {"payManual"}, payout : Payouts, receipt : BOOLEAN]

Call(k) ==
    /\ call[k].at = "idle" /\ requests < MaxRequests
    /\ \E o \in Operations :
          /\ o.operation # "create" => payout[o.payout].status # "NONE"
          /\ Goes(k, [at |-> "begin", operation |-> o.operation, asked |-> o])
    /\ requests' = requests + 1
    /\ UNCHANGED <<commission, payout, user, rows, changes, answers>>

Begin(k) ==
    /\ call[k].at = "begin"
    /\ Goes(k, [at |-> "run", operation |-> call[k].operation, asked |-> call[k].asked,
                commission |-> commission, payout |-> payout, user |-> user])
    /\ UNCHANGED <<commission, payout, user, rows, requests, changes, answers>>

\* A condition that does not hold, or an error of the driver; a receipt that was
\* uploaded is removed (cleanupReceiptFile).
Abort(k) ==
    /\ call[k].at = "run"
    /\ Goes(k, [at |-> "idle"])
    /\ UNCHANGED <<commission, payout, user, rows, requests, changes, answers>>

MutUnchanged(k, cs, ps) == TRUE \* Mutant: no transaction.

\* The documents that a transaction writes are as it read them.
Unchanged(k, cs, ps) ==
    /\ \A c \in cs : commission[c] = call[k].commission[c]
    /\ \A p \in ps : payout[p] = call[k].payout[p]

Conflict(k, cs, ps) ==
    /\ ~Unchanged(k, cs, ps)
    /\ Goes(k, [at |-> "begin", operation |-> call[k].operation, asked |-> call[k].asked])
    /\ UNCHANGED <<commission, payout, user, rows, requests, changes, answers>>

----------------------------------------------------------------------------
(* createReferralPayout *)

\* The unique index on the user and the key.
WithKey(docs, i) ==
    {p \in Payouts : i.key # None /\ docs[p].key = i.key /\ docs[p].user = i.user}

Answered(i, p) ==
    answers' = IF i.key = None THEN answers
               ELSE answers \cup {[user |-> i.user, key |-> i.key, input |-> i, payout |-> p]}

\* A replay is answered with the payout of the same fingerprint, and refused otherwise.
AnswerExisting(k, i, docs) ==
    /\ \E p \in WithKey(docs, i) :
          IF docs[p].input = i THEN Answered(i, p) ELSE UNCHANGED answers
    /\ Goes(k, [at |-> "idle"])
    /\ UNCHANGED <<commission, payout, user, rows, requests, changes>>

Replay(k) ==
    LET i == call[k].asked.input
    IN  Running(k, "create") /\ AnswerExisting(k, i, call[k].payout)

Available(k, c) ==
    call[k].commission[c].status = "AVAILABLE" /\ call[k].commission[c].payout = None

\* resolveAmountOnlyCommissionIds: the shortest run of the oldest ones that makes
\* the amount, and none when there is no such run.
OldestFor(k, i) ==
    LET usable == {c \in Commissions : /\ Available(k, c) /\ Earner[c] = i.user
                                       /\ EarnedIn[c] = i.currency}
        UpTo(c) == {d \in usable : Age[d] <= Age[c]}
        fitting == {c \in usable : Total(UpTo(c)) = i.amount}
    IN  IF fitting = {} THEN {}
        ELSE UpTo(CHOOSE c \in fitting : \A d \in fitting : Age[c] <= Age[d])

Chosen(k, i) == IF i.commissions # {} THEN i.commissions ELSE OldestFor(k, i)

\* The checks on the user and loadAndValidateCommissions.
Requestable(k, i) ==
    LET u == call[k].user[i.user]
    IN  /\ u.active
        /\ i.method = "WALLET_CREDIT" => u.currency = i.currency
        /\ Chosen(k, i) # {} /\ Total(Chosen(k, i)) > 0
        /\ \A c \in Chosen(k, i) :
              Earner[c] = i.user /\ Available(k, c) /\ EarnedIn[c] = i.currency

CreateReferralPayout(k) ==
    LET i == call[k].asked.input
    IN  /\ Running(k, "create")
        /\ WithKey(call[k].payout, i) = {} /\ Requestable(k, i)
        /\ \/ /\ Unchanged(k, Chosen(k, i), {}) /\ WithKey(payout, i) = {}
              /\ \E p \in Payouts :
                    /\ payout[p].status = "NONE"
                    /\ payout' = [payout EXCEPT ![p] =
                          [status |-> "PENDING", user |-> i.user, method |-> i.method,
                           currency |-> i.currency, amount |-> Total(Chosen(k, i)),
                           commissions |-> Chosen(k, i), key |-> i.key, input |-> i,
                           receipt |-> FALSE]]
                    /\ commission' = [c \in Commissions |->
                          IF c \in Chosen(k, i) THEN [status |-> "LOCKED", payout |-> p]
                          ELSE commission[c]]
                    /\ Answered(i, p)
              /\ Goes(k, [at |-> "idle"])
              /\ UNCHANGED <<user, rows, requests, changes>>
           \/ Conflict(k, Chosen(k, i), {})
           \/ AnswerExisting(k, i, payout) \* E11000

----------------------------------------------------------------------------
(* The decisions on a payout *)

\* The filter on PENDING and assertPayoutCommissionsLocked, in the snapshot.
Decidable(k, p) ==
    LET seen == call[k].payout[p]
    IN  /\ seen.status = "PENDING"
        /\ \A c \in seen.commissions :
              call[k].commission[c] = [status |-> "LOCKED", payout |-> p]

Settle(k, p, decision, status) ==
    /\ payout' = [payout EXCEPT ![p] = decision]
    /\ commission' = [c \in Commissions |->
          IF c \in payout[p].commissions THEN status ELSE commission[c]]
    /\ Goes(k, [at |-> "idle"])
    /\ UNCHANGED <<user, requests, changes, answers>>

RejectReferralPayout(k) ==
    LET p == call[k].asked.payout
        cs == call[k].payout[p].commissions
    IN  /\ Running(k, "reject") /\ Decidable(k, p)
        /\ \/ /\ Unchanged(k, cs, {p})
              /\ Settle(k, p, [payout[p] EXCEPT !.status = "REJECTED"],
                        [status |-> "AVAILABLE", payout |-> None])
              /\ UNCHANGED rows
           \/ Conflict(k, cs, {p})

\* The wallet is credited in hundredths, the half up; nothing is credited when this
\* is zero, and a second row with the key of the payout aborts the transaction.
WalletCredit(amount) == (2 * amount + Cent) \div (2 * Cent)

PayWalletReferralPayout(k) ==
    LET p == call[k].asked.payout
        seen == call[k].payout[p]
    IN  /\ Running(k, "payWallet") /\ Decidable(k, p)
        /\ seen.method = "WALLET_CREDIT"
        /\ call[k].user[seen.user] = [active |-> TRUE, currency |-> seen.currency]
        /\ WalletCredit(seen.amount) > 0
        /\ IF user[seen.user] = call[k].user[seen.user]
           THEN \/ /\ Unchanged(k, seen.commissions, {p})
                   /\ \A n \in DOMAIN rows : rows[n].payout # p
                   /\ rows' = Append(rows, [payout |-> p, user |-> seen.user,
                         amount |-> WalletCredit(seen.amount),
                         currency |-> user[seen.user].currency])
                   /\ Settle(k, p, [payout[p] EXCEPT !.status = "PAID"],
                             [status |-> "PAID", payout |-> p])
                \/ Conflict(k, seen.commissions, {p})
           ELSE /\ Goes(k, [at |-> "begin", operation |-> "payWallet", asked |-> call[k].asked])
                /\ UNCHANGED <<commission, payout, user, rows, requests, changes, answers>>

MarkManualReferralPayoutPaid(k) ==
    LET p == call[k].asked.payout
        cs == call[k].payout[p].commissions
    IN  /\ Running(k, "payManual") /\ Decidable(k, p)
        /\ call[k].payout[p].method = "MANUAL_EXTERNAL"
        /\ \/ /\ Unchanged(k, cs, {p})
              /\ Settle(k, p, [payout[p] EXCEPT !.status = "PAID",
                                                !.receipt = call[k].asked.receipt],
                        [status |-> "PAID", payout |-> p])
              /\ UNCHANGED rows
           \/ Conflict(k, cs, {p})

\* The user is suspended or activated, or gets another currency.
ChangeUser ==
    /\ changes < MaxUserChanges /\ changes' = changes + 1
    /\ \E u \in Users :
          \/ user' = [user EXCEPT ![u].active = ~@]
          \/ \E c \in Currencies : user' = [user EXCEPT ![u].currency = c]
    /\ UNCHANGED <<commission, payout, rows, call, requests, answers>>

Next ==
    \/ \E k \in Calls :
          \/ Call(k) \/ Begin(k) \/ Abort(k)
          \/ Replay(k) \/ CreateReferralPayout(k) \/ RejectReferralPayout(k)
          \/ PayWalletReferralPayout(k) \/ MarkManualReferralPayoutPaid(k)
    \/ ChangeUser

Spec == Init /\ [][Next]_vars

----------------------------------------------------------------------------
(* Properties *)

\* What auditReferralPayouts counts as mismatches: whichever operations overlap, the
\* commissions of a pending payout are locked by it and those of a paid one paid by
\* it, a rejected one holds none, no commission is locked by nothing, and a payout is
\* the sum of commissions in its currency.
PayoutsConsistent ==
    /\ \A p \in Payouts : \A c \in payout[p].commissions :
          /\ payout[p].status = "PENDING" =>
                commission[c] = [status |-> "LOCKED", payout |-> p]
          /\ payout[p].status = "PAID" => commission[c] = [status |-> "PAID", payout |-> p]
          /\ payout[p].status = "REJECTED" => commission[c].payout # p
          /\ EarnedIn[c] = payout[p].currency /\ Earner[c] = payout[p].user
    /\ \A p \in Payouts : payout[p].status # "NONE" =>
          payout[p].amount = Total(payout[p].commissions)
    /\ \A c \in Commissions : commission[c].status # "AVAILABLE" =>
          commission[c].payout \in Payouts /\ c \in payout[commission[c].payout].commissions

\* A payout is credited to the wallet exactly when it is a paid one of that method,
\* once, in the currency of its commissions (payWalletReferralPayout).
CreditedOncePaid ==
    \A p \in Payouts :
        LET credits == {n \in DOMAIN rows : rows[n].payout = p}
        IN  /\ Cardinality(credits) =
                  IF payout[p].status = "PAID" /\ payout[p].method = "WALLET_CREDIT"
                  THEN 1 ELSE 0
            /\ \A n \in credits :
                  /\ rows[n].amount = WalletCredit(Total(payout[p].commissions))
                  /\ rows[n].currency = payout[p].currency /\ rows[n].user = payout[p].user

\* Calls with the same idempotency key are answered with one payout, that of the body
\* they all have, whether they overlap, conflict or lose the race for the unique
\* index (createReferralPayout).
OnePayoutPerKey ==
    \A a, b \in answers :
        (a.user = b.user /\ a.key = b.key) => (a.payout = b.payout /\ a.input = b.input)

\* The three of them, which the transactions and their conflicts have to keep together.
PayoutsSound == PayoutsConsistent /\ CreditedOncePaid /\ OnePayoutPerKey
================================================================================
