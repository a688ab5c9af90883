------------------------------- MODULE ExactLedger -------------------------------
(***************************************************************************)
(* The exact ledger: a mutation reads the user in a transaction, computes  *)
(* the next state and writes it with a compare-and-swap on the ledger      *)
(* version and the currency; the row of the ledger is part of the same     *)
(* transaction.  A request that owns its transaction retries a lost swap a *)
(* bounded number of times, one in its caller's session does not.  A       *)
(* conversion changes the currency of the whole wallet the same way.       *)
(*                                                                         *)
(* Units are integers, Cent of them to a hundredth of the currency.        *)
(***************************************************************************)
EXTENDS Integers, FiniteSets, Sequences

CONSTANTS Requests,       \* calls into the ledger
          Users,
          Suspended,      \* users whose status is not ACTIVE
          Currencies,
          Rates,          \* platformRateExact of a currency, the values it takes
          Start,          \* units and credit limit of each user at first
          Home,           \* the currency of each user at first
          Amounts,        \* exact amounts requested
          Targets,        \* target balances and target credit limits requested
          Keys,           \* sourceKey of a credit
          None,           \* sourceKey = null, or no source currency yet
          Cent,           \* units in a hundredth
          MaxCasRetries,  \* MAX_CAS_RETRIES
          MaxRateChanges  \* bound: updates of the rates

ASSUME LedgerAssumption ==
    /\ Start \in [Users -> [units : Int, limit : Nat]]
    /\ Home \in [Users -> Currencies]
    /\ Amounts \subseteq Nat \ {0} /\ Targets \subseteq Int
    /\ Rates \subseteq Nat \ {0} /\ Rates # {}
    /\ None \notin Keys \cup Currencies
    /\ Cent \in Nat \ {0} /\ MaxCasRetries \in Nat \ {0}
    /\ MaxRateChanges \in Nat

VARIABLES
    wallet,     \* the exact fields of the user documents, and their mirrors
    rows,       \* WalletTransaction documents of each user
    rate,       \* Currency.platformRateExact
    rateChanges,
    req,        \* what each call is and where it is
    past        \* the states of each wallet so far (history)

vars == <<wallet, rows, rate, rateChanges, req, past>>

Credits == {"CREDIT", "REFUND"}
Kinds == {"DEBIT", "FORCED", "BALANCE", "LIMIT", "CONVERT"} \cup Credits

----------------------------------------------------------------------------
(* The arithmetic of exactLedgerMoney. *)

Magnitude(n) == IF n < 0 THEN -n ELSE n
Lesser(a, b) == IF a < b THEN a ELSE b

\* ROUND_HALF_UP: away from zero.
Divide(n, d) == LET q == (2 * Magnitude(n) + d) \div (2 * d)
                IN  IF n < 0 THEN -q ELSE q

\* convertExactCurrencyUnits
Convert(units, from, to) == Divide(units * to, from)

\* creditUsedForBalance
CreditUsed(units, limit) ==
    IF units >= 0 \/ limit <= 0 THEN 0 ELSE Lesser(-units, limit)

\* legacyCompatibleNumber: a value with no more than two decimals.
Representable(units) == Magnitude(units) % Cent = 0

\* compatibilityFieldsForState: what cannot be represented keeps its old value.
Mirror(old, units) == IF Representable(units) THEN Divide(units, Cent) ELSE old


\* convertedCompatibilityNumber: always published, rounded.
ConvertedMirror(old, units) == Divide(units, Cent)

----------------------------------------------------------------------------
Idle == [at |-> "idle"]

Init ==
    /\ wallet = [u \in Users |->
          [units |-> Start[u].units, limit |-> Start[u].limit,
           used |-> CreditUsed(Start[u].units, Start[u].limit),
           currency |-> Home[u], version |-> 0,
           mirror |-> Divide(Start[u].units, Cent)]]
    /\ rows = [u \in Users |-> {}]
    /\ rate \in [Currencies -> Rates]
    /\ rateChanges = 0
    /\ req = [r \in Requests |-> Idle]
    /\ past = [u \in Users |-> <<wallet[u]>>]

\* A caller has read the wallet's currency and computed its amount in it.
Call(r, u, kind, value, key, session) ==
    /\ req[r].at = "idle"
    /\ req' = [req EXCEPT ![r] =
          [at |-> "read", user |-> u, kind |-> kind, value |-> value, key |-> key,
           session |-> session, currency |-> wallet[u].currency, tries |-> 1,
           source |-> None, from |-> 1, to |-> 1, seen |-> wallet[u]]]
    /\ UNCHANGED <<wallet, rows, rate, rateChanges, past>>

DebitExactWalletAtomic(r) ==
    \E u \in Users, amount \in Amounts, session \in BOOLEAN :
        \E kind \in {"DEBIT", "FORCED"} : Call(r, u, kind, amount, None, session)

CreditExactWalletAtomic(r) ==
    \E u \in Users, amount \in Amounts, key \in Keys \cup {None} :
        Call(r, u, "CREDIT", amount, key, FALSE)

RefundExactWalletAtomic(r) ==
    \E u \in Users, amount \in Amounts :
        Call(r, u, "REFUND", amount, None, TRUE)

SetExactWalletBalanceAtomic(r) ==
    \E u \in Users, target \in Targets : Call(r, u, "BALANCE", target, None, FALSE)

UpdateExactCreditLimitAtomic(r) ==
    \E u \in Users, target \in Targets :
        target >= 0 /\ Call(r, u, "LIMIT", target, None, FALSE)

ConvertExactWalletCurrencyAtomic(r) ==
    \E u \in Users, target \in Currencies :
        Call(r, u, "CONVERT", target, None, FALSE)

----------------------------------------------------------------------------
(* What a mutation makes of a wallet. *)

NewUnits(q, w) ==
    CASE q.kind \in {"DEBIT", "FORCED"} -> w.units - q.value
      [] q.kind \in Credits -> w.units + q.value
      [] q.kind = "BALANCE" -> q.value
      [] q.kind = "LIMIT" -> w.units
      [] q.kind = "CONVERT" -> Convert(w.units, q.from, q.to)

NewLimit(q, w) ==
    CASE q.kind = "LIMIT" -> q.value
      [] q.kind = "CONVERT" -> Convert(w.limit, q.from, q.to)
      [] OTHER -> w.limit

NewMirror(q, old, units) ==
    IF q.kind = "CONVERT" THEN ConvertedMirror(old, units) ELSE Mirror(old, units)

Effect(q, w) ==
    [units |-> NewUnits(q, w), limit |-> NewLimit(q, w),
     used |-> CreditUsed(NewUnits(q, w), NewLimit(q, w)),
     currency |-> IF q.kind = "CONVERT" THEN q.value ELSE q.currency,
     version |-> w.version + 1,
     mirror |-> NewMirror(q, w.mirror, NewUnits(q, w))]

\* The amount of the row; a limit and a conversion make none.
RowAmount(q, w) ==
    IF q.kind \in {"LIMIT", "CONVERT"} THEN 0
    ELSE Magnitude(NewUnits(q, w) - w.units)

Row(q, w) ==
    [type |-> IF NewUnits(q, w) < w.units THEN "DEBIT" ELSE "CREDIT",
     amount |-> RowAmount(q, w), before |-> w.units, after |-> NewUnits(q, w),
     currency |-> q.currency, key |-> q.key, version |-> w.version]

InsufficientFunds(q, w) == q.kind = "DEBIT" /\ w.units + w.limit < q.value

AccountInactive(q) == q.kind = "DEBIT" /\ q.user \in Suspended

MutSameCurrency(q, w) == TRUE \* Mutant: no expectedCurrency.

\* expectedCurrency, checked when the wallet is read and in the filter.
SameCurrency(q, w) == q.currency = w.currency

----------------------------------------------------------------------------
(* runExactMutation and convertExactWalletCurrencyAtomic *)

End(r, how) == req' = [req EXCEPT ![r] = [at |-> how]]

Reading(r) == req[r].at = "read"
Current(r) == wallet[req[r].user]

Refuse(r) ==
    /\ Reading(r) /\ req[r].kind # "CONVERT"
    /\ \/ AccountInactive(req[r])
       \/ ~SameCurrency(req[r], Current(r))
       \/ InsufficientFunds(req[r], Current(r))
    /\ End(r, "failed")
    /\ UNCHANGED <<wallet, rows, rate, rateChanges, past>>

Read(r) ==
    /\ Reading(r) /\ req[r].kind # "CONVERT"
    /\ ~AccountInactive(req[r])
    /\ SameCurrency(req[r], Current(r))
    /\ ~InsufficientFunds(req[r], Current(r))
    /\ req' = [req EXCEPT ![r].at = "write", ![r].seen = Current(r)]
    /\ UNCHANGED <<wallet, rows, rate, rateChanges, past>>

\* The wallet already has the target currency, or changed to a third one
\* between two attempts.
RefuseConversion(r) ==
    /\ Reading(r) /\ req[r].kind = "CONVERT"
    /\ \/ Current(r).currency = req[r].value
       \/ req[r].source \notin {None, Current(r).currency}
    /\ End(r, IF Current(r).currency = req[r].value THEN "done" ELSE "failed")
    /\ UNCHANGED <<wallet, rows, rate, rateChanges, past>>

ReadConversion(r) ==
    /\ Reading(r) /\ req[r].kind = "CONVERT"
    /\ Current(r).currency # req[r].value
    /\ req[r].source \in {None, Current(r).currency}
    /\ req' = [req EXCEPT ![r].at = "write", ![r].seen = Current(r),
                          ![r].source = Current(r).currency,
                          ![r].currency = Current(r).currency,
                          ![r].from = rate[Current(r).currency],
                          ![r].to = rate[req[r].value]]
    /\ UNCHANGED <<wallet, rows, rate, rateChanges, past>>

MutCasMatches(q, w) == SameCurrency(q, w) \* Mutant: no version in the filter.

\* The filter of updateOne: versionFilter and the currency.
CasMatches(q, w) == q.seen.version = w.version /\ SameCurrency(q, w)

KeyTaken(key) == key # None /\ \E u \in Users : \E row \in rows[u] : row.key = key

\* The unique index on sourceKey aborts the transaction, the update with it.
AbortsOnKey(q) == RowAmount(q, q.seen) > 0 /\ KeyTaken(q.key)

AddedRows(q) == IF RowAmount(q, q.seen) > 0 THEN {Row(q, q.seen)} ELSE {}

Write(r) ==
    LET q == req[r]
        next == Effect(q, q.seen)
    IN  /\ q.at = "write"
        /\ CasMatches(q, Current(r))
        /\ ~AbortsOnKey(q)
        /\ wallet' = [wallet EXCEPT ![q.user] = next]
        /\ rows' = [rows EXCEPT ![q.user] = @ \cup AddedRows(q)]
        /\ past' = [past EXCEPT ![q.user] = Append(@, next)]
        /\ End(r, "done")
        /\ UNCHANGED <<rate, rateChanges>>

DuplicateKey(r) ==
    /\ req[r].at = "write"
    /\ CasMatches(req[r], Current(r)) /\ AbortsOnKey(req[r])
    /\ End(r, "failed")
    /\ UNCHANGED <<wallet, rows, rate, rateChanges, past>>

Attempts(q) == IF q.session THEN 1 ELSE MaxCasRetries

CasConflict(r) ==
    /\ req[r].at = "write" /\ ~CasMatches(req[r], Current(r))
    /\ IF req[r].tries < Attempts(req[r])
       THEN req' = [req EXCEPT ![r].at = "read", ![r].tries = @ + 1]
       ELSE End(r, "failed")
    /\ UNCHANGED <<wallet, rows, rate, rateChanges, past>>

\* The same conflict reported by the database: withTransaction calls again.
TransientConflict(r) ==
    /\ req[r].at = "write" /\ ~req[r].session
    /\ Current(r).version # req[r].seen.version
    /\ req' = [req EXCEPT ![r].at = "read"]
    /\ UNCHANGED <<wallet, rows, rate, rateChanges, past>>

SetRate ==
    /\ rateChanges < MaxRateChanges
    /\ \E c \in Currencies, value \in Rates : rate' = [rate EXCEPT ![c] = value]
    /\ rateChanges' = rateChanges + 1
    /\ UNCHANGED <<wallet, rows, req, past>>

Request(r) ==
    \/ DebitExactWalletAtomic(r) \/ CreditExactWalletAtomic(r)
    \/ RefundExactWalletAtomic(r) \/ SetExactWalletBalanceAtomic(r)
    \/ UpdateExactCreditLimitAtomic(r) \/ ConvertExactWalletCurrencyAtomic(r)

Advance(r) ==
    \/ Refuse(r) \/ Read(r) \/ RefuseConversion(r) \/ ReadConversion(r)
    \/ Write(r) \/ DuplicateKey(r) \/ CasConflict(r) \/ TransientConflict(r)

Next == SetRate \/ \E r \in Requests : Request(r) \/ Advance(r)

Spec == Init /\ [][Next]_vars

----------------------------------------------------------------------------
(* Properties *)

RowsOf(u, version) == {row \in rows[u] : row.version = version}

\* Two consecutive states of a wallet are explained by the ledger: a change of
\* the units within a currency by one row, any other change by none.
Explained(u, before, after) ==
    IF before.currency # after.currency \/ before.units = after.units
    THEN RowsOf(u, before.version) = {}
    ELSE \E row \in rows[u] :
            /\ RowsOf(u, before.version) = {row}
            /\ row.before = before.units /\ row.after = after.units
            /\ row.amount = Magnitude(after.units - before.units)

BookedOnce ==
    \A u, x \in Users : \A row \in rows[u], other \in rows[x] :
        row.key = other.key /\ row.key # None => u = x /\ row = other

\* The rows of a wallet, read in the order of its versions, lead from its first
\* units to its present ones: no concurrent mutation, retry or conversion loses
\* an update or leaves one without its row (runExactMutation).  And a sourceKey
\* is booked once, in one wallet: a mutation whose row the unique index refuses
\* leaves no update behind, of which the chain would show a trace.
LedgerAccounts ==
    /\ BookedOnce
    /\ \A u \in Users :
        /\ past[u][Len(past[u])] = wallet[u]
        /\ \A v \in 1..Len(past[u]) : past[u][v].version = v - 1
        /\ \A row \in rows[u] : row.version \in 0..Len(past[u]) - 2
        /\ \A v \in 1..Len(past[u]) - 1 : Explained(u, past[u][v], past[u][v + 1])

\* An amount computed in one currency is never applied to a wallet that was
\* converted to another one since (expectedCurrency, EXACT_LEDGER_CURRENCY_CHANGED);
\* and the legacy mirror of the balance is the rounded value of a state the wallet
\* has had since its last conversion: it is never left in another currency (the
\* comment on convertedCompatibilityNumber).
Denominated ==
    \A u \in Users :
        /\ \A row \in rows[u] : row.currency = past[u][row.version + 1].currency
        /\ \E v \in 1..Len(past[u]) :
            /\ wallet[u].mirror = Divide(past[u][v].units, Cent)
            /\ \A i \in v..Len(past[u]) : past[u][i].currency = wallet[u].currency

\* Although the funds are checked when the wallet is read, an unforced debit only
\* commits on a wallet that has them at that moment: a debit, a lower limit or a
\* conversion committed since makes the swap fail.
DebitsCovered ==
    [][\A r \in Requests :
          (req[r].at = "write" /\ req[r].kind = "DEBIT" /\ req'[r].at = "done")
             => LET w == wallet[req[r].user] IN w.units + w.limit >= req[r].value]_vars
================================================================================
