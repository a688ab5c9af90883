------------------------------ MODULE CurrencyRates ------------------------------
(***************************************************************************)
(* The currencies: the administrator's functions of currency.service.js,   *)
(* the synchronisation of the market rates, and the converter with its     *)
(* cache of one process.  An action is the code between two awaits.        *)
(***************************************************************************)
EXTENDS Integers, FiniteSets

CONSTANTS Codes, USD, Holders,
          PlatformRates,  \* values of platformRate and marketRate
          Seeded,         \* currencies that exist at first
          Calls,          \* conversions and administrators' requests
          MaxSyncs        \* bound: runs of the job

VARIABLES
    currency,   \* the Currency documents
    held,       \* User.currency of the users considered
    cache,      \* _cache of the converter
    call,
    syncing,    \* codes of the feed the running job still has to treat
    found,      \* what the job read of the code it treats
    running,    \* _running
    syncs

vars == <<currency, held, cache, call, syncing, found, running, syncs>>

Missing == [exists |-> FALSE]
Doc(rate, market, active) ==
    [exists |-> TRUE, rate |-> rate, market |-> market, active |-> active]
Empty == [cached |-> FALSE]
Exists(c) == currency[c].exists

Init ==
    /\ currency = [c \in Codes |->
          IF c \in Seeded \cup {USD} THEN Doc(1, 1, TRUE) ELSE Missing]
    /\ held = [u \in Holders |-> USD]
    /\ cache = [c \in Codes |-> Empty]
    /\ call = [k \in Calls |-> [at |-> "idle"]]
    /\ syncing = {} /\ found = <<>> /\ running = FALSE /\ syncs = 0

Goes(k, next) == call' = [call EXCEPT ![k] = next]
Ended(k) == Goes(k, [at |-> "done"])
jobVars == <<syncing, found, running, syncs>>

----------------------------------------------------------------------------
(* _getCurrency: 'USD' needs no document. *)

Hit(k) ==
    /\ call[k].at = "idle"
    /\ \E c \in Codes \ {USD} : cache[c].cached /\ Ended(k)
    /\ UNCHANGED <<currency, held, cache, jobVars>>

FindCurrency(k) ==
    /\ call[k].at = "idle"
    /\ \E c \in Codes \ {USD} :
          /\ ~cache[c].cached
          /\ IF Exists(c) /\ currency[c].active
             THEN Goes(k, [at |-> "found", code |-> c, doc |-> currency[c],
                           overlapped |-> FALSE])
             ELSE Ended(k)
    /\ UNCHANGED <<currency, held, cache, jobVars>>

FillCache(k) ==
    /\ call[k].at = "found"
    /\ cache' = [cache EXCEPT ![call[k].code] =
          [cached |-> TRUE, doc |-> call[k].doc, overlapped |-> call[k].overlapped]]
    /\ Ended(k)
    /\ UNCHANGED <<currency, held, jobVars>>

\* CACHE_TTL_MS has gone by.
Expire ==
    /\ \E c \in Codes : cache[c].cached /\ cache' = [cache EXCEPT ![c] = Empty]
    /\ UNCHANGED <<currency, held, call, jobVars>>

----------------------------------------------------------------------------
(* updateCurrencyRate, setCurrencyStatus, createCurrency, deleteCurrency:  *)
(* the document is read, saved, and then the cache invalidated.            *)

Request(k, what, c, value) ==
    /\ call[k].at = "idle" /\ Exists(c)
    /\ Goes(k, [at |-> what, code |-> c, value |-> value])
    /\ UNCHANGED <<currency, held, cache, jobVars>>

UpdateCurrencyRate(k) ==
    \E c \in Codes, rate \in PlatformRates :
        (c = USD => rate = 1) /\ Request(k, "saveRate", c, rate)

SetCurrencyStatus(k) ==
    \E c \in Codes, active \in BOOLEAN :
        (c = USD => active) /\ Request(k, "saveStatus", c, active)

\* The currency is deleted some awaits after no user was found to have it.
DeleteCurrency(k) ==
    \E c \in Codes \ {USD} :
        (\A u \in Holders : held[u] # c) /\ Request(k, "delete", c, 0)

\* updateUserCurrency looks the currency up before it writes the user.
FindNewCurrency(k) ==
    \E c \in Codes : Exists(c) /\ currency[c].active /\ Request(k, "switch", c, 0)

UpdateUserCurrency(k) ==
    /\ call[k].at = "switch"
    /\ \E u \in Holders : held' = [held EXCEPT ![u] = call[k].code]
    /\ Ended(k)
    /\ UNCHANGED <<currency, cache, jobVars>>

\* A conversion that is reading c meets a change of it.
Overlap(k, c, next) ==
    call' = [j \in Calls |->
        IF j = k THEN next
        ELSE IF call[j].at = "found" /\ call[j].code = c
             THEN [call[j] EXCEPT !.overlapped = TRUE] ELSE call[j]]

Written(c, at, value) ==
    CASE at = "saveRate" -> [currency[c] EXCEPT !.rate = value]
      [] at = "saveStatus" -> [currency[c] EXCEPT !.active = value]
      [] at = "delete" -> Missing

\* save() of a document that was deleted meanwhile fails.
Save(k) ==
    LET c == call[k].code
    IN  /\ call[k].at \in {"saveRate", "saveStatus", "delete"}
        /\ IF Exists(c)
           THEN /\ currency' = [currency EXCEPT ![c] = Written(c, call[k].at, call[k].value)]
                /\ Overlap(k, c, [at |-> "invalidate", code |-> c])
           ELSE Ended(k) /\ UNCHANGED currency
        /\ UNCHANGED <<held, cache, jobVars>>

MutInvalidate(k) == \* Mutant: the cache is left to its TTL.
    /\ call[k].at = "invalidate"
    /\ Ended(k)
    /\ UNCHANGED <<currency, held, cache, jobVars>>

InvalidateCurrencyCache(k) ==
    /\ call[k].at = "invalidate"
    /\ cache' = [cache EXCEPT ![call[k].code] = Empty]
    /\ Ended(k)
    /\ UNCHANGED <<currency, held, jobVars>>

\* findOne and create; the index on code is unique.
CreateCurrency(k) ==
    /\ call[k].at = "idle"
    /\ \E c \in Codes, rate \in PlatformRates :
          ~Exists(c) /\ currency' = [currency EXCEPT ![c] = Doc(rate, rate, TRUE)]
    /\ Ended(k)
    /\ UNCHANGED <<held, cache, jobVars>>

----------------------------------------------------------------------------
(* exchangeRateSync: runOnce and syncRates. *)

Fetched(rates) == \* the codes of the feed; USD is always added
    syncing' = rates \cup {USD}

RunOnce ==
    /\ ~running /\ syncs < MaxSyncs
    /\ running' = TRUE /\ syncs' = syncs + 1
    /\ \E rates \in SUBSET Codes : rates # {} /\ Fetched(rates)
    /\ UNCHANGED <<currency, held, cache, call, found>>

LookUp ==
    /\ found = <<>>
    /\ \E c \in syncing : found' = <<c, Exists(c)>> /\ syncing' = syncing \ {c}
    /\ UNCHANGED <<currency, held, cache, call, running, syncs>>

MutSyncExisting == \* Mutant: the fed rate becomes the billing rate.
    /\ found # <<>> /\ found[2]
    /\ \E market \in PlatformRates :
          currency' = [currency EXCEPT ![found[1]] =
              IF @.exists THEN [@ EXCEPT !.market = market, !.rate = market] ELSE @]
    /\ cache' = [cache EXCEPT ![found[1]] = Empty]
    /\ found' = <<>>
    /\ UNCHANGED <<held, call, syncing, running, syncs>>

\* findOneAndUpdate of marketRate alone; no document, no effect.
SyncExisting ==
    /\ found # <<>> /\ found[2]
    /\ \E market \in PlatformRates :
          currency' = [currency EXCEPT ![found[1]] =
              IF @.exists THEN [@ EXCEPT !.market = market] ELSE @]
    /\ cache' = [cache EXCEPT ![found[1]] = Empty]
    /\ found' = <<>>
    /\ UNCHANGED <<held, call, syncing, running, syncs>>

\* A currency of the feed that was not there: created inactive, at the market
\* rate; if it has been created since, the unique index refuses.
SyncCreate ==
    /\ found # <<>> /\ ~found[2]
    /\ \E market \in PlatformRates :
          currency' = [currency EXCEPT ![found[1]] =
              IF @.exists THEN @ ELSE Doc(market, market, FALSE)]
    /\ found' = <<>>
    /\ UNCHANGED <<held, cache, call, syncing, running, syncs>>

SyncEnds ==
    /\ running /\ syncing = {} /\ found = <<>>
    /\ running' = FALSE
    /\ UNCHANGED <<currency, held, cache, call, syncing, found, syncs>>

Next ==
    \/ \E k \in Calls :
          \/ Hit(k) \/ FindCurrency(k) \/ FillCache(k)
          \/ UpdateCurrencyRate(k) \/ SetCurrencyStatus(k) \/ DeleteCurrency(k)
          \/ FindNewCurrency(k) \/ UpdateUserCurrency(k)
          \/ Save(k) \/ InvalidateCurrencyCache(k) \/ CreateCurrency(k)
    \/ Expire
    \/ RunOnce \/ LookUp \/ SyncExisting \/ SyncCreate \/ SyncEnds

Spec == Init /\ [][Next]_vars

----------------------------------------------------------------------------
(* Properties *)

\* "Existing platformRate is NEVER touched - admin owns it": the platformRate of a
\* currency that exists changes only when an administrator's request saves it,
\* also when the job and the request read the document at the same time.
AdminOwnsPlatformRate ==
    [][\A c \in Codes :
          (Exists(c) /\ currency'[c].exists /\ currency'[c].rate # currency[c].rate)
             => \E k \in Calls : call[k].at = "saveRate" /\ call[k].code = c
                                 /\ call'[k].at = "invalidate"]_vars

\* "All writes invalidate the in-process converter cache so the change takes effect
\* for the very next order": true but while the invalidation is still to come, and
\* for an entry filled by a read that overlapped the write; that one stays until
\* it expires.
StaleOnlyAfterOverlap ==
    \A c \in Codes :
        (cache[c].cached /\ ~cache[c].overlapped) =>
            \/ /\ Exists(c) /\ currency[c].rate = cache[c].doc.rate
               /\ currency[c].active = cache[c].doc.active
            \/ \E k \in Calls : call[k].at = "invalidate" /\ call[k].code = c
================================================================================
