--------------------------------- MODULE Ledgers ---------------------------------
(***************************************************************************)
(* The wallets.  isExactLedgerEnabled chooses for the whole deployment     *)
(* which ledger the wallet functions go to: ExactLedger, or the legacy one *)
(* of WalletLedger; CurrencyRates, the currencies and their cache, is      *)
(* indifferent to it.                                                      *)
(***************************************************************************)
EXTENDS ExactLedger

CONSTANTS Tasks, Customers, Coins, PlatformRate, Opening, Sums, Percents, \* legacy ledger
          Codes, USD, Holders, PlatformRates, Seeded, Calls, MaxSyncs     \* currencies

VARIABLES
    user, booked, task, broken,
    currency, held, cache, call, syncing, found, running, syncs

\* Of the legacy ledger; a currency is worth something.
ASSUME LegacyAssumption ==
    /\ IsFiniteSet(Tasks) /\ Sums \subseteq Int /\ Percents \subseteq Int
    /\ Opening \in [Customers -> [balance : Int, limit : Int, currency : Coins]]
    /\ PlatformRate \in [Coins -> Nat \ {0}]

Legacy == INSTANCE WalletLedger
Rate == INSTANCE CurrencyRates

legacyVars == <<user, booked, task, broken>>
ratesVars == <<currency, held, cache, call, syncing, found, running, syncs>>

-----------------------------------------------------------------------------
(* A call into the exact ledger, seen from outside: what was read, the     *)
(* attempts and the version it compares are its own affair.                *)
Demanded(q) ==
    IF q.at \notin {"read", "write"} THEN q
    ELSE [at |-> "pending", user |-> q.user, kind |-> q.kind, value |-> q.value,
          key |-> q.key, currency |-> IF q.kind = "CONVERT" THEN None ELSE q.currency]

Held(w) == [units |-> w.units, limit |-> w.limit, currency |-> w.currency,
            changes |-> w.version]

Booked(row) == [change |-> row.version, before |-> row.before, after |-> row.after,
                currency |-> row.currency, key |-> row.key]

Balances == [u \in Users |-> Held(wallet[u])]
BookedRows == [u \in Users |-> {Booked(row) : row \in rows[u]}]
Demands == [r \in Requests |-> Demanded(req[r])]

Atomic == INSTANCE AtomicLedger
    WITH balance <- Balances, entries <- BookedRows, demand <- Demands

-----------------------------------------------------------------------------
\* However the reads, retries and swaps of concurrent calls interleave, each call
\* takes effect at one instant, on the wallet as it is then, or not at all.
LedgerIsAtomic == Atomic!Spec

\* The balance of a wallet is what its rows and the rows still to come add up to,
\* unless an adjustment wrote over a change it had not seen.
LegacyAccounted == Legacy!AccountedUnlessStale

\* The cached rate is the stored one, but for an invalidation still to come or an
\* entry whose read overlapped a write.
StaleOnlyAfterOverlap == Rate!StaleOnlyAfterOverlap

\* The job that follows the market never changes the platformRate of a currency.
AdminOwnsPlatformRate == Rate!AdminOwnsPlatformRate
================================================================================
