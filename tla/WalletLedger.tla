------------------------------ MODULE WalletLedger ------------------------------
(***************************************************************************)
(* The wallet while the exact ledger is off: the functions of              *)
(* wallet.service.js, the adjustments of admin.wallet.service.js, and the  *)
(* change of a user's currency or credit limit.  Some update the balance   *)
(* in the database, the others read the user, compute and $set what they   *)
(* computed.  No transaction: the WalletTransaction row is a write of its  *)
(* own, and a crash may come before it.                                    *)
(*                                                                         *)
(* Amounts are integers of a hundredth.                                    *)
(***************************************************************************)
EXTENDS Integers, FiniteSets, FiniteSetsExt

CONSTANTS Tasks,        \* calls; each runs one operation
          Customers,
          Coins,        \* currencies
          PlatformRate, \* platformRate of a currency
          Opening,      \* balance and credit limit of each customer at first
          Sums,         \* amounts, target balances and limits requested
          Percents      \* percentages of a bulk adjustment

VARIABLES
    user,       \* the documents: balance, limit, used, currency
    booked,     \* what the rows of a user add up to
    task,
    broken      \* users whose document was written over an unseen change, or
                \* converted to another currency (history)

vars == <<user, booked, task, broken>>

Least(a, b) == IF a < b THEN a ELSE b
Size(n) == IF n < 0 THEN -n ELSE n
RoundDiv(n, d) == (2 * n + d) \div (2 * d)

\* recalculateCreditUsed, and creditUsedExpressionForBalance in the database.
RecalculateCreditUsed(balance, limit) ==
    IF balance >= 0 \/ limit <= 0 THEN 0 ELSE Least(-balance, limit)

WithBalance(doc, balance) ==
    [doc EXCEPT !.balance = balance,
                !.used = RecalculateCreditUsed(balance, doc.limit)]

Init ==
    /\ user = [u \in Customers |->
          WithBalance([balance |-> 0, limit |-> Opening[u].limit, used |-> 0,
                       currency |-> Opening[u].currency], Opening[u].balance)]
    /\ booked = [u \in Customers |-> 0]
    /\ task = [t \in Tasks |-> [at |-> "idle"]]
    /\ broken = {}

Idle(t) == task[t].at = "idle"
Goes(t, next) == task' = [task EXCEPT ![t] = next]

\* The row of a change: its balanceAfter less its balanceBefore is what it adds.
RowOf(u, change) == [at |-> "row", user |-> u, change |-> change]

----------------------------------------------------------------------------
(* Updated in the database by one findOneAndUpdate. *)

Affordable(u, amount) == user[u].balance + user[u].limit >= amount

MutAdd(t, u, change) == \* Mutant: creditUsed is not in the pipeline.
    /\ user' = [user EXCEPT ![u].balance = @ + change]
    /\ Goes(t, RowOf(u, change))
    /\ UNCHANGED <<booked, broken>>

Add(t, u, change) ==
    /\ user' = [user EXCEPT ![u] = WithBalance(@, @.balance + change)]
    /\ Goes(t, RowOf(u, change))
    /\ UNCHANGED <<booked, broken>>

DebitWalletAtomic(t) ==
    \E u \in Customers, amount \in Sums :
        Idle(t) /\ Affordable(u, amount) /\ Add(t, u, -amount)

RefundWalletAtomic(t) ==
    \E u \in Customers, amount \in Sums : Idle(t) /\ Add(t, u, amount)

CreditWalletDirect(t) ==
    \E u \in Customers, amount \in Sums : Idle(t) /\ Add(t, u, amount)

CreateTransactionRecord(t) ==
    /\ task[t].at = "row"
    /\ booked' = [booked EXCEPT ![task[t].user] = @ + task[t].change]
    /\ Goes(t, [at |-> "done"])
    /\ UNCHANGED <<user, broken>>

----------------------------------------------------------------------------
(* Read, computed and written back. *)

Load(t, op, u, amount) ==
    /\ Idle(t)
    /\ Goes(t, [at |-> "loaded", op |-> op, user |-> u, amount |-> amount,
                doc |-> user[u]])
    /\ UNCHANGED <<user, booked, broken>>

LoadForcedDebit(t) ==
    \E u \in Customers, amount \in Sums : Load(t, "forcedDebit", u, amount)
LoadAddFunds(t) ==
    \E u \in Customers, amount \in Sums : Load(t, "addFunds", u, amount)
LoadDeductFunds(t) ==
    \E u \in Customers, amount \in Sums :
        Affordable(u, amount) /\ Load(t, "deductFunds", u, amount)
LoadSetBalance(t) ==
    \E u \in Customers, amount \in Sums : Load(t, "setBalance", u, amount)
LoadCreditLimit(t) ==
    \E u \in Customers, limit \in Sums : Load(t, "creditLimit", u, limit)
LoadCurrency(t) ==
    \E u \in Customers, coin \in Coins :
        coin # user[u].currency /\ Load(t, "currency", u, coin)

Computed(op, doc, amount) ==
    CASE op \in {"forcedDebit", "deductFunds"} -> doc.balance - amount
      [] op = "addFunds" -> doc.balance + amount
      [] op = "setBalance" -> amount

\* $set of walletBalance and creditUsed; the limit is that of the loaded document.
Store(u, doc, balance) ==
    [user[u] EXCEPT !.balance = balance,
                    !.used = RecalculateCreditUsed(balance, doc.limit)]

Stale(u, doc) == IF user[u] = doc THEN {} ELSE {u}

WriteBack(t) ==
    LET c == task[t]
        balance == Computed(c.op, c.doc, c.amount)
    IN  /\ c.at = "loaded" /\ c.op \notin {"creditLimit", "currency"}
        /\ user' = [user EXCEPT ![c.user] = Store(c.user, c.doc, balance)]
        /\ broken' = broken \cup Stale(c.user, c.doc)
        /\ Goes(t, RowOf(c.user, balance - c.doc.balance))
        /\ UNCHANGED booked

\* user.save() writes the two modified fields.
SaveCreditLimit(t) ==
    LET c == task[t]
    IN  /\ c.at = "loaded" /\ c.op = "creditLimit"
        /\ user' = [user EXCEPT ![c.user].limit = c.amount,
              ![c.user].used = RecalculateCreditUsed(c.doc.balance, c.amount)]
        /\ broken' = broken \cup Stale(c.user, c.doc)
        /\ Goes(t, [at |-> "done"])
        /\ UNCHANGED booked

\* convertBalance: (balance / oldRate) * newRate, rounded.
ConvertBalance(balance, old, new) ==
    RoundDiv(balance * PlatformRate[new], PlatformRate[old])

\* Neither the credit limit nor creditUsed is converted, and there is no row.
UpdateUserCurrency(t) ==
    LET c == task[t]
    IN  /\ c.at = "loaded" /\ c.op = "currency"
        /\ user' = [user EXCEPT ![c.user].currency = c.amount,
              ![c.user].balance =
                    ConvertBalance(c.doc.balance, c.doc.currency, c.amount)]
        /\ broken' = broken \cup {c.user}
        /\ Goes(t, [at |-> "done"])
        /\ UNCHANGED booked

----------------------------------------------------------------------------
(* adjustNegativeBalancesForInflation and ...ForDeflation: the debtors are *)
(* loaded at once and written one after the other.                         *)

FindDebtors(t, sign) ==
    /\ Idle(t)
    /\ \E percent \in Percents, coin \in Coins :
          Goes(t, [at |-> "bulk", percent |-> percent, sign |-> sign, docs |-> user,
                   user |-> 0, change |-> 0,
                   todo |-> {u \in Customers : /\ user[u].balance < 0
                                               /\ user[u].currency = coin}])
    /\ UNCHANGED <<user, booked, broken>>

AdjustForInflation(t) == FindDebtors(t, -1)
AdjustForDeflation(t) == FindDebtors(t, 1)

Adjustment(c, u) == RoundDiv(Size(c.docs[u].balance) * c.percent, 100)

AdjustDebtor(t) ==
    LET c == task[t]
    IN  /\ c.at = "bulk"
        /\ \E u \in c.todo :
              /\ Adjustment(c, u) > 0
              /\ LET balance == c.docs[u].balance + c.sign * Adjustment(c, u)
                 IN  /\ user' = [user EXCEPT ![u] = Store(u, c.docs[u], balance)]
                     /\ Goes(t, [c EXCEPT !.at = "bulkRow", !.todo = @ \ {u}, !.user = u,
                                          !.change = balance - c.docs[u].balance])
              /\ broken' = broken \cup Stale(u, c.docs[u])
        /\ UNCHANGED booked

BookAdjustment(t) ==
    LET c == task[t]
    IN  /\ c.at = "bulkRow"
        /\ booked' = [booked EXCEPT ![c.user] = @ + c.change]
        /\ Goes(t, [c EXCEPT !.at = "bulk"])
        /\ UNCHANGED <<user, broken>>

EndBulk(t) ==
    /\ task[t].at = "bulk"
    /\ \A u \in task[t].todo : Adjustment(task[t], u) = 0
    /\ Goes(t, [at |-> "done"])
    /\ UNCHANGED <<user, booked, broken>>

\* The process ends, or the insertion of the row fails.
Crash(t) ==
    /\ task[t].at \in {"row", "loaded", "bulk", "bulkRow"}
    /\ Goes(t, IF task[t].at \in {"row", "bulkRow"}
               THEN [at |-> "lost", user |-> task[t].user, change |-> task[t].change]
               ELSE [at |-> "done"])
    /\ UNCHANGED <<user, booked, broken>>

Next ==
    \E t \in Tasks :
        \/ DebitWalletAtomic(t) \/ RefundWalletAtomic(t) \/ CreditWalletDirect(t)
        \/ CreateTransactionRecord(t)
        \/ LoadForcedDebit(t) \/ LoadAddFunds(t) \/ LoadDeductFunds(t)
        \/ LoadSetBalance(t) \/ LoadCreditLimit(t) \/ LoadCurrency(t)
        \/ WriteBack(t) \/ SaveCreditLimit(t) \/ UpdateUserCurrency(t)
        \/ AdjustForInflation(t) \/ AdjustForDeflation(t)
        \/ AdjustDebtor(t) \/ BookAdjustment(t) \/ EndBulk(t)
        \/ Crash(t)

Spec == Init /\ [][Next]_vars

----------------------------------------------------------------------------
(* Properties *)

\* Changes of a balance whose row is still to come, or never will.
Unbooked(u) ==
    {t \in Tasks : task[t].at \in {"row", "bulkRow", "lost"} /\ task[t].user = u}

Balance(u) ==
    Opening[u].balance + booked[u] + MapThenSumSet(LAMBDA t : task[t].change, Unbooked(u))

\* The rows, with those a crash kept from being written, account for the balance
\* and creditUsed follows it, as long as no adjustment wrote over a change it had
\* not seen and the currency stays: whatever else interleaves, only the functions
\* that read first and $set afterwards lose money.
AccountedUnlessStale ==
    \A u \in Customers \ broken :
        /\ user[u].balance = Balance(u)
        /\ user[u].used = RecalculateCreditUsed(user[u].balance, user[u].limit)
================================================================================
