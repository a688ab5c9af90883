---------------------------- MODULE Ledgers_proofs -----------------------------
(***************************************************************************)
(* What is proved about the components of Ledgers for every value of their *)
(* constants.  In both ledgers the rows account for each wallet; an exact  *)
(* row is in the currency of its wallet, a debit is covered when it        *)
(* commits, and each call is one step of AtomicLedger; the rate cache      *)
(* serves stored rates, but for a write that an invalidation or an         *)
(* overlapping read still hides, and only administrators change a platform *)
(* rate.                                                                   *)
(***************************************************************************)
EXTENDS Ledgers, FiniteSums, TLAPS

-----------------------------------------------------------------------------
(* ExactLedger.  What a request saw is a state the wallet has had, and the *)
(* version names it, so a swap that succeeds applies to exactly what was   *)
(* seen.                                                                   *)

Wallets == [units : Int, limit : Int, used : Int, currency : Currencies, version : Nat,
            mirror : Int]
Entries == [type : {"DEBIT", "CREDIT"}, amount : Int, before : Int, after : Int,
            currency : Currencies, key : Keys \cup {None}, version : Nat]
Endings == [at : {"idle", "done", "failed"}]
Swaps == [at : {"read", "write"}, user : Users, kind : Kinds, value : Int \cup Currencies,
          key : Keys \cup {None}, session : BOOLEAN, currency : Currencies, tries : Nat,
          source : Currencies \cup {None}, from : Nat \ {0}, to : Nat \ {0}, seen : Wallets]

LedgerType ==
    /\ wallet \in [Users -> Wallets]
    /\ rows \in [Users -> SUBSET Entries]
    /\ rate \in [Currencies -> Rates]
    /\ past \in [Users -> Seq(Wallets)]
    /\ req \in [Requests -> Endings \cup Swaps]

\* A request about to write saw a state of the wallet; a conversion of a wallet in
\* another currency, at rates they had, a debit of one with the funds.
CallMeans(q) ==
    /\ IF q.kind = "CONVERT" THEN q.value \in Currencies ELSE q.value \in Int
    /\ q.kind \in Credits => q.value \in Nat
    /\ q.at = "write" =>
          /\ q.seen.version + 1 \in 1..Len(past[q.user])
          /\ q.seen = past[q.user][q.seen.version + 1]
          /\ q.kind = "CONVERT" => q.value # q.currency /\ q.from \in Rates /\ q.to \in Rates
          /\ q.kind = "DEBIT" => q.value <= q.seen.units + q.seen.limit /\ q.user \notin Suspended

CallsMean == \A r \in Requests : req[r] \in Swaps => CallMeans(req[r])

LedgerInv ==
    /\ LedgerType
    /\ CallsMean
    /\ \A u \in Users : Len(past[u]) # 0
    /\ LedgerAccounts
    /\ Denominated

(***************************************************************************)
(* The arithmetic stays within the integers.                               *)
(***************************************************************************)
LEMMA DivideInteger ==
    ASSUME NEW n \in Int, NEW d \in Nat \ {0}
    PROVE  Divide(n, d) \in Int
<1> DEFINE m == 2 * Magnitude(n) + d
<1>1. m \in Int /\ 2 * d \in Nat \ {0}
  BY DEF Magnitude
<1>2. m \div (2 * d) \in Int
  <2> HIDE DEF m
  <2>1. \A a \in Int, b \in Nat \ {0} : a \div b \in Int
    OBVIOUS
  <2> QED
    BY <1>1, <2>1
<1> QED
  BY <1>2 DEF Divide

LEMMA UsedInteger ==
    ASSUME NEW units \in Int, NEW limit \in Int
    PROVE  CreditUsed(units, limit) \in Int
BY DEF CreditUsed, Lesser

\* What a mutation makes of a wallet is a wallet, with the next version.
LEMMA EffectOnWallet ==
    ASSUME NEW q \in Swaps, NEW w \in Wallets,
           IF q.kind = "CONVERT" THEN q.value \in Currencies ELSE q.value \in Int
    PROVE  /\ Effect(q, w) \in Wallets
           /\ NewUnits(q, w) \in Int
           /\ Effect(q, w).units = NewUnits(q, w)
           /\ Effect(q, w).version = w.version + 1
           /\ Effect(q, w).currency = IF q.kind = "CONVERT" THEN q.value ELSE q.currency
           /\ Effect(q, w).mirror = NewMirror(q, w.mirror, NewUnits(q, w))
<1>1. NewUnits(q, w) \in Int /\ NewLimit(q, w) \in Int
  <2>1. CASE q.kind = "CONVERT"
    <3>1. w.units * q.to \in Int /\ w.limit * q.to \in Int /\ q.from \in Nat \ {0}
      BY DEF Wallets, Swaps
    <3> QED
      BY <2>1, <3>1, DivideInteger DEF NewUnits, NewLimit, Convert, Credits
  <2>2. CASE q.kind # "CONVERT"
    BY <2>2 DEF NewUnits, NewLimit, Swaps, Wallets, Kinds, Credits
  <2> QED
    BY <2>1, <2>2
<1>2. CreditUsed(NewUnits(q, w), NewLimit(q, w)) \in Int
  BY <1>1, UsedInteger
<1>3. NewMirror(q, w.mirror, NewUnits(q, w)) \in Int
  BY <1>1, DivideInteger, LedgerAssumption DEF NewMirror, Mirror, ConvertedMirror, Wallets
<1>4. (IF q.kind = "CONVERT" THEN q.value ELSE q.currency) \in Currencies
  BY DEF Swaps
<1>5. w.version + 1 \in Nat
  BY DEF Wallets
<1> HIDE DEF NewUnits
<1> QED
  BY <1>1, <1>2, <1>3, <1>4, <1>5 DEF Effect, Wallets

LEMMA RowOfWallet ==
    ASSUME NEW q \in Swaps, NEW w \in Wallets, NewUnits(q, w) \in Int
    PROVE  /\ Row(q, w) \in Entries
           /\ RowAmount(q, w) \in Int
           /\ Row(q, w).version = w.version /\ Row(q, w).currency = q.currency
           /\ Row(q, w).before = w.units /\ Row(q, w).after = NewUnits(q, w)
           /\ Row(q, w).amount = RowAmount(q, w)
<1>1. RowAmount(q, w) \in Int
  BY DEF RowAmount, Magnitude, Wallets
<1> QED
  BY <1>1 DEF Row, Entries, Swaps, Wallets

(***************************************************************************)
(* What the swap compares.                                                 *)
(***************************************************************************)
LEMMA VersionCounts ==
    ASSUME LedgerInv, NEW u \in Users
    PROVE  /\ Len(past[u]) \in Nat \ {0}
           /\ wallet[u] = past[u][Len(past[u])]
           /\ wallet[u].version = Len(past[u]) - 1
BY DEF LedgerInv, LedgerType, LedgerAccounts

\* A swap that finds the version it saw finds the wallet it saw.
LEMMA SeenIsCurrent ==
    ASSUME LedgerInv, NEW r \in Requests, req[r] \in Swaps, req[r].at = "write",
           CasMatches(req[r], Current(r))
    PROVE  req[r].seen = Current(r) /\ req[r].currency = Current(r).currency
<1>1. req[r].user \in Users /\ CallMeans(req[r])
  BY DEF LedgerInv, CallsMean, Swaps
<1>2. req[r].seen.version = Current(r).version /\ req[r].currency = Current(r).currency
  BY DEF CasMatches, SameCurrency
<1>3. req[r].seen.version + 1 = Len(past[req[r].user])
  BY <1>1, <1>2, VersionCounts DEF Current
<1> QED
  BY <1>1, <1>2, <1>3, VersionCounts DEF CallMeans, Current

LEMMA AtReadOrWrite ==
    ASSUME LedgerType, NEW r \in Requests, req[r].at \in {"read", "write"}
    PROVE  req[r] \in Swaps /\ req[r].user \in Users /\ Current(r) \in Wallets
BY DEF LedgerType, Endings, Swaps, Current

(***************************************************************************)
(* The steps that only move a request.                                     *)
(***************************************************************************)
LEMMA UnwrittenKeepsInv ==
    ASSUME LedgerInv, LedgerType', CallsMean', UNCHANGED <<wallet, rows, past>>
    PROVE  LedgerInv'
<1>1. LedgerAccounts'
  <2>1. \A u \in Users : \A a, b : Explained(u, a, b) => Explained(u, a, b)'
    BY DEF Explained, RowsOf
  <2>2. BookedOnce'
    BY DEF LedgerInv, LedgerAccounts, BookedOnce
  <2> QED
    BY <2>1, <2>2 DEF LedgerInv, LedgerAccounts
<1>2. Denominated'
  BY DEF LedgerInv, Denominated
<1> QED
  BY <1>1, <1>2 DEF LedgerInv

LEMMA MovedRequest ==
    ASSUME LedgerInv, NEW r \in Requests, NEW q, q \in Endings \cup Swaps,
           q \in Swaps => CallMeans(q),
           req' = [req EXCEPT ![r] = q],
           UNCHANGED <<wallet, rows, rate, past>>
    PROVE  LedgerInv'
<1>1. LedgerType'
  BY DEF LedgerInv, LedgerType
<1>2. CallsMean'
  <2> SUFFICES ASSUME NEW p \in Requests, req'[p] \in Swaps
               PROVE  CallMeans(req[p])'
    BY DEF CallsMean
  <2>1. req'[p] = IF p = r THEN q ELSE req[p]
    BY DEF LedgerInv, LedgerType
  <2>2. CASE p = r
    BY <2>1, <2>2 DEF CallMeans
  <2>3. CASE p # r
    <3>1. CallMeans(req[p])
      BY <2>1, <2>3 DEF LedgerInv, CallsMean
    <3> QED
      BY <2>1, <2>3, <3>1 DEF CallMeans
  <2> QED
    BY <2>2, <2>3
<1> QED
  BY <1>1, <1>2, UnwrittenKeepsInv

LEMMA CallKeepsInv ==
    ASSUME LedgerInv, NEW r \in Requests, NEW u \in Users, NEW kind \in Kinds,
           NEW value, IF kind = "CONVERT" THEN value \in Currencies ELSE value \in Int,
           kind \in Credits => value \in Nat,
           NEW key \in Keys \cup {None}, NEW session \in BOOLEAN,
           Call(r, u, kind, value, key, session)
    PROVE  LedgerInv'
<1> DEFINE q == [at |-> "read", user |-> u, kind |-> kind, value |-> value, key |-> key,
                 session |-> session, currency |-> wallet[u].currency, tries |-> 1,
                 source |-> None, from |-> 1, to |-> 1, seen |-> wallet[u]]
<1>1. wallet[u] \in Wallets /\ wallet[u].currency \in Currencies
  BY DEF LedgerInv, LedgerType, Wallets
<1>2. q \in Swaps
  BY <1>1 DEF Swaps
<1>3. CallMeans(q)
  BY DEF CallMeans
<1>4. req' = [req EXCEPT ![r] = q] /\ UNCHANGED <<wallet, rows, rate, past>>
  BY DEF Call
<1> QED
  BY <1>2, <1>3, <1>4, MovedRequest

LEMMA RequestKeepsInv ==
    ASSUME LedgerInv, NEW r \in Requests, Request(r)
    PROVE  LedgerInv'
<1>0. \A amount \in Amounts : amount \in Nat
  BY LedgerAssumption
<1> USE CallKeepsInv, LedgerAssumption DEF Kinds, Credits
<1>1. CASE DebitExactWalletAtomic(r)
  <2> PICK u \in Users, amount \in Amounts, session \in BOOLEAN, kind \in {"DEBIT", "FORCED"} :
         Call(r, u, kind, amount, None, session)
    BY <1>1, Zenon DEF DebitExactWalletAtomic
  <2>1. /\ kind \in Kinds /\ None \in Keys \cup {None}
        /\ IF kind = "CONVERT" THEN amount \in Currencies ELSE amount \in Int
    OBVIOUS
  <2>2. amount \in Nat
    BY <1>0, Zenon
  <2>3. Call(r, u, kind, amount, None, TRUE) \/ Call(r, u, kind, amount, None, FALSE)
    BY Zenon
  <2> QED
    BY <2>1, <2>2, <2>3
<1>2. CASE CreditExactWalletAtomic(r)
  <2> PICK u \in Users, amount \in Amounts, key \in Keys \cup {None} :
         Call(r, u, "CREDIT", amount, key, FALSE)
    BY <1>2, Zenon DEF CreditExactWalletAtomic
  <2>1. amount \in Int /\ amount \in Nat /\ "CREDIT" \in Kinds
    BY <1>0
  <2> QED
    BY <2>1
<1>3. CASE RefundExactWalletAtomic(r)
  <2> PICK u \in Users, amount \in Amounts : Call(r, u, "REFUND", amount, None, TRUE)
    BY <1>3, Zenon DEF RefundExactWalletAtomic
  <2>1. amount \in Int /\ amount \in Nat /\ "REFUND" \in Kinds /\ None \in Keys \cup {None}
    BY <1>0
  <2> QED
    BY <2>1
<1>4. CASE SetExactWalletBalanceAtomic(r)
  BY <1>4 DEF SetExactWalletBalanceAtomic
<1>5. CASE UpdateExactCreditLimitAtomic(r)
  BY <1>5 DEF UpdateExactCreditLimitAtomic
<1>6. CASE ConvertExactWalletCurrencyAtomic(r)
  BY <1>6 DEF ConvertExactWalletCurrencyAtomic
<1> QED
  BY <1>1, <1>2, <1>3, <1>4, <1>5, <1>6 DEF Request

LEMMA EndKeepsInv ==
    ASSUME LedgerInv, NEW r \in Requests, NEW how \in {"done", "failed"}, End(r, how),
           UNCHANGED <<wallet, rows, rate, past>>
    PROVE  LedgerInv'
<1>1. [at |-> how] \in Endings /\ [at |-> how] \notin Swaps
  BY DEF Endings, Swaps
<1> QED
  BY <1>1, MovedRequest DEF End

\* What is read is the wallet's latest state.
LEMMA CurrentIsPast ==
    ASSUME LedgerInv, NEW u \in Users
    PROVE  /\ wallet[u].version + 1 \in 1..Len(past[u])
           /\ wallet[u] = past[u][wallet[u].version + 1]
<1>1. Len(past[u]) \in Nat \ {0} /\ wallet[u].version = Len(past[u]) - 1
  BY VersionCounts
<1>2. wallet[u].version + 1 = Len(past[u])
  BY <1>1
<1> QED
  BY <1>1, <1>2, VersionCounts

LEMMA ReadKeepsInv ==
    ASSUME LedgerInv, NEW r \in Requests, Read(r)
    PROVE  LedgerInv'
<1> DEFINE q == [req[r] EXCEPT !.at = "write", !.seen = Current(r)]
<1>1. /\ req[r] \in Swaps /\ req[r].user \in Users /\ Current(r) \in Wallets
      /\ req[r].kind # "CONVERT" /\ CallMeans(req[r])
  BY AtReadOrWrite DEF Read, Reading, LedgerInv, CallsMean
<1>2. /\ q \in Swaps /\ q.at = "write" /\ q.seen = Current(r) /\ q.kind = req[r].kind
      /\ q.value = req[r].value /\ q.user = req[r].user
  BY <1>1 DEF Swaps
<1>3. q.kind = "DEBIT" => /\ q.value <= q.seen.units + q.seen.limit
                         /\ q.user \notin Suspended
  <2>1. q.kind = "DEBIT" => q.value <= Current(r).units + Current(r).limit
    BY <1>1, <1>2 DEF Read, InsufficientFunds, CallMeans, Wallets
  <2>2. q.kind = "DEBIT" => q.user \notin Suspended
    BY <1>2 DEF Read, AccountInactive
  <2> QED
    BY <1>2, <2>1, <2>2
<1>4. CallMeans(q)
  BY <1>1, <1>2, <1>3, CurrentIsPast DEF CallMeans, Current
<1>5. req' = [req EXCEPT ![r] = q] /\ UNCHANGED <<wallet, rows, rate, past>>
  BY DEF Read, LedgerInv, LedgerType
<1> QED
  BY <1>2, <1>4, <1>5, MovedRequest

LEMMA ReadConversionKeepsInv ==
    ASSUME LedgerInv, NEW r \in Requests, ReadConversion(r)
    PROVE  LedgerInv'
<1> DEFINE q == [req[r] EXCEPT !.at = "write", !.seen = Current(r),
                               !.source = Current(r).currency,
                               !.currency = Current(r).currency,
                               !.from = rate[Current(r).currency],
                               !.to = rate[req[r].value]]
<1>1. /\ req[r] \in Swaps /\ req[r].user \in Users /\ Current(r) \in Wallets
      /\ req[r].kind = "CONVERT" /\ CallMeans(req[r])
  BY AtReadOrWrite DEF ReadConversion, Reading, LedgerInv, CallsMean
<1>2. /\ Current(r).currency \in Currencies /\ req[r].value \in Currencies
      /\ rate[Current(r).currency] \in Rates /\ rate[req[r].value] \in Rates
      /\ Rates \subseteq Nat \ {0}
  BY <1>1, LedgerAssumption DEF CallMeans, Wallets, LedgerInv, LedgerType
<1>3. /\ q \in Swaps /\ q.at = "write" /\ q.seen = Current(r) /\ q.kind = "CONVERT"
      /\ q.value = req[r].value /\ q.user = req[r].user
      /\ q.currency = Current(r).currency
      /\ q.from = rate[Current(r).currency] /\ q.to = rate[req[r].value]
  BY <1>1, <1>2 DEF Swaps
<1>4. CallMeans(q)
  BY <1>1, <1>2, <1>3, CurrentIsPast DEF CallMeans, Current, ReadConversion
<1>5. req' = [req EXCEPT ![r] = q] /\ UNCHANGED <<wallet, rows, rate, past>>
  BY DEF ReadConversion, LedgerInv, LedgerType
<1> QED
  BY <1>3, <1>4, <1>5, MovedRequest

\* A lost swap goes back to reading.
LEMMA RetryKeepsInv ==
    ASSUME LedgerInv, NEW r \in Requests, CasConflict(r) \/ TransientConflict(r)
    PROVE  LedgerInv'
<1>1. req[r] \in Swaps /\ CallMeans(req[r])
  BY AtReadOrWrite DEF CasConflict, TransientConflict, LedgerInv, CallsMean
<1>2. CASE CasConflict(r) /\ req[r].tries < Attempts(req[r])
  <2> DEFINE q == [req[r] EXCEPT !.at = "read", !.tries = req[r].tries + 1]
  <2>1. q \in Swaps /\ q.at = "read" /\ q.kind = req[r].kind /\ q.value = req[r].value
    <3>1. req[r].tries + 1 \in Nat
      BY <1>1 DEF Swaps
    <3> QED
      BY <1>1, <3>1 DEF Swaps
  <2>2. CallMeans(q)
    BY <1>1, <2>1 DEF CallMeans
  <2>3. req' = [req EXCEPT ![r] = q] /\ UNCHANGED <<wallet, rows, rate, past>>
    BY <1>2 DEF CasConflict, LedgerInv, LedgerType
  <2> QED
    BY <2>1, <2>2, <2>3, MovedRequest
<1>3. CASE CasConflict(r) /\ ~(req[r].tries < Attempts(req[r]))
  BY <1>3, EndKeepsInv DEF CasConflict
<1>4. CASE TransientConflict(r)
  <2> DEFINE q == [req[r] EXCEPT !.at = "read"]
  <2>1. q \in Swaps /\ q.at = "read" /\ q.kind = req[r].kind /\ q.value = req[r].value
    BY <1>1 DEF Swaps
  <2>2. CallMeans(q)
    BY <1>1, <2>1 DEF CallMeans
  <2>3. req' = [req EXCEPT ![r] = q] /\ UNCHANGED <<wallet, rows, rate, past>>
    BY <1>4 DEF TransientConflict, LedgerInv, LedgerType
  <2> QED
    BY <2>1, <2>2, <2>3, MovedRequest
<1> QED
  BY <1>2, <1>3, <1>4

(***************************************************************************)
(* The swap that succeeds.                                                 *)
(***************************************************************************)
LEMMA WriteAppends ==
    ASSUME LedgerInv, NEW r \in Requests, Write(r)
    PROVE  LET u == req[r].user
               q == req[r]
               w == wallet[req[r].user]
               n == Len(past[req[r].user])
           IN  /\ q \in Swaps /\ CallMeans(q) /\ u \in Users /\ w \in Wallets
               /\ q.seen = w /\ q.currency = w.currency /\ w.version = n - 1
               /\ w = past[u][n]
               /\ Effect(q, w) \in Wallets /\ NewUnits(q, w) \in Int
               /\ wallet' = [wallet EXCEPT ![u] = Effect(q, w)]
               /\ rows' = [rows EXCEPT ![u] = @ \cup AddedRows(q)]
               /\ AddedRows(q) = IF RowAmount(q, w) > 0 THEN {Row(q, w)} ELSE {}
               /\ past' = [past EXCEPT ![u] = Append(@, Effect(q, w))]
<1>1. /\ req[r] \in Swaps /\ req[r].user \in Users /\ Current(r) \in Wallets
      /\ CallMeans(req[r])
  BY AtReadOrWrite DEF Write, LedgerInv, CallsMean
<1>2. req[r].seen = Current(r) /\ req[r].currency = Current(r).currency
  BY <1>1, SeenIsCurrent DEF Write
<1>3. Effect(req[r], Current(r)) \in Wallets /\ NewUnits(req[r], Current(r)) \in Int
  BY <1>1, EffectOnWallet DEF CallMeans
<1> QED
  BY <1>1, <1>2, <1>3, VersionCounts DEF Write, AddedRows, Current

LEMMA WriteKeepsType ==
    ASSUME LedgerInv, NEW r \in Requests, Write(r)
    PROVE  LedgerType'
<1> DEFINE q == req[r]
           u == q.user
           w == wallet[u]
<1>1. /\ q \in Swaps /\ u \in Users /\ w \in Wallets /\ Effect(q, w) \in Wallets
      /\ wallet' = [wallet EXCEPT ![u] = Effect(q, w)]
      /\ rows' = [rows EXCEPT ![u] = @ \cup AddedRows(q)]
      /\ past' = [past EXCEPT ![u] = Append(@, Effect(q, w))]
  BY WriteAppends
<1>2. AddedRows(q) \subseteq Entries
  <2>1. /\ Row(q, w) \in Entries
        /\ AddedRows(q) = IF RowAmount(q, w) > 0 THEN {Row(q, w)} ELSE {}
    BY WriteAppends, RowOfWallet
  <2> QED
    BY <2>1
<1>3. rate' = rate /\ req' = [req EXCEPT ![r] = [at |-> "done"]]
  BY DEF Write, End
<1>4. wallet' \in [Users -> Wallets]
  BY <1>1 DEF LedgerInv, LedgerType
<1>5. rows' \in [Users -> SUBSET Entries]
  BY <1>1, <1>2 DEF LedgerInv, LedgerType
<1>6. past' \in [Users -> Seq(Wallets)]
  BY <1>1 DEF LedgerInv, LedgerType
<1>7. req' \in [Requests -> Endings \cup Swaps]
  BY <1>3 DEF LedgerInv, LedgerType, Endings
<1> QED
  BY <1>3, <1>4, <1>5, <1>6, <1>7 DEF LedgerInv, LedgerType

\* The history of a wallet only grows.
LEMMA WriteExtends ==
    ASSUME LedgerInv, NEW r \in Requests, Write(r), NEW x \in Users
    PROVE  /\ x # req[r].user => past'[x] = past[x] /\ rows'[x] = rows[x]
                                /\ wallet'[x] = wallet[x]
           /\ x = req[r].user =>
                 /\ Len(past'[x]) = Len(past[x]) + 1
                 /\ \A v \in 1..Len(past[x]) : past'[x][v] = past[x][v]
                 /\ past'[x][Len(past[x]) + 1] = Effect(req[r], wallet[x])
                 /\ wallet'[x] = Effect(req[r], wallet[x])
                 /\ rows'[x] = rows[x] \cup AddedRows(req[r])
<1>1. /\ wallet' = [wallet EXCEPT ![req[r].user] = Effect(req[r], wallet[req[r].user])]
      /\ rows' = [rows EXCEPT ![req[r].user] = @ \cup AddedRows(req[r])]
      /\ past' = [past EXCEPT ![req[r].user] = Append(@, Effect(req[r], wallet[req[r].user]))]
      /\ Effect(req[r], wallet[req[r].user]) \in Wallets
  BY WriteAppends
<1>2. past[x] \in Seq(Wallets) /\ DOMAIN past = Users /\ DOMAIN rows = Users
      /\ DOMAIN wallet = Users
  BY DEF LedgerInv, LedgerType
<1> QED
  BY <1>1, <1>2

LEMMA WriteKeepsCalls ==
    ASSUME LedgerInv, NEW r \in Requests, Write(r)
    PROVE  CallsMean'
<1> SUFFICES ASSUME NEW p \in Requests, req'[p] \in Swaps
             PROVE  CallMeans(req[p])'
  BY DEF CallsMean
<1>1. req' = [req EXCEPT ![r] = [at |-> "done"]]
  BY DEF Write, End
<1>2. p # r /\ req'[p] = req[p]
  BY <1>1 DEF LedgerInv, LedgerType, Swaps
<1>3. CallMeans(req[p]) /\ req[p].user \in Users
  BY <1>2 DEF LedgerInv, CallsMean, Swaps
<1>4. Len(past[req[p].user]) \in Nat
  BY <1>3, VersionCounts
<1>5. ASSUME req[p].at = "write"
      PROVE  /\ req[p].seen.version + 1 \in 1..Len(past'[req[p].user])
             /\ req[p].seen = past'[req[p].user][req[p].seen.version + 1]
  BY <1>3, <1>4, <1>5, WriteExtends DEF CallMeans
<1> QED
  BY <1>2, <1>3, <1>5 DEF CallMeans

\* A change of the units within a currency comes with its one row, any other
\* change with none.
LEMMA WriteIsExplained ==
    ASSUME LedgerInv, NEW r \in Requests, Write(r)
    PROVE  LET q == req[r]
               w == wallet[req[r].user]
               e == Effect(req[r], wallet[req[r].user])
           IN  IF w.currency # e.currency \/ w.units = e.units
               THEN AddedRows(q) = {}
               ELSE /\ AddedRows(q) = {Row(q, w)}
                    /\ Row(q, w).before = w.units /\ Row(q, w).after = e.units
                    /\ Row(q, w).amount = Magnitude(e.units - w.units)
<1> DEFINE q == req[r]
           w == wallet[q.user]
           e == Effect(q, w)
<1>1. /\ q \in Swaps /\ CallMeans(q) /\ w \in Wallets /\ q.currency = w.currency
      /\ NewUnits(q, w) \in Int /\ q.at = "write"
      /\ AddedRows(q) = IF RowAmount(q, w) > 0 THEN {Row(q, w)} ELSE {}
  BY WriteAppends DEF Write
<1>2. /\ e.units = NewUnits(q, w)
      /\ e.currency = IF q.kind = "CONVERT" THEN q.value ELSE q.currency
  BY DEF Effect
<1>3. /\ Row(q, w).before = w.units /\ Row(q, w).after = NewUnits(q, w)
      /\ Row(q, w).amount = RowAmount(q, w)
  BY DEF Row
<1>4. CASE q.kind = "CONVERT"
  BY <1>1, <1>2, <1>4 DEF CallMeans, RowAmount
<1>5. CASE q.kind = "LIMIT"
  BY <1>1, <1>2, <1>5 DEF RowAmount, NewUnits, Credits
<1>6. CASE q.kind \notin {"CONVERT", "LIMIT"}
  <2>1. RowAmount(q, w) = Magnitude(NewUnits(q, w) - w.units)
    BY <1>6 DEF RowAmount
  <2>2. w.units \in Int
    BY <1>1 DEF Wallets
  <2>3. IF w.units = NewUnits(q, w) THEN ~(RowAmount(q, w) > 0) ELSE RowAmount(q, w) > 0
    BY <1>1, <2>1, <2>2 DEF Magnitude
  <2> QED
    BY <1>1, <1>2, <1>3, <1>6, <2>1, <2>3
<1> QED
  BY <1>4, <1>5, <1>6

\* The unique index lets a key in once: the row a write adds has a key that no
\* row of any wallet has.
LEMMA WriteKeepsBookedOnce ==
    ASSUME LedgerInv, NEW r \in Requests, Write(r)
    PROVE  BookedOnce'
<1> DEFINE q == req[r]
<1>1. /\ q.user \in Users /\ q.seen = wallet[q.user]
      /\ AddedRows(q) = IF RowAmount(q, q.seen) > 0 THEN {Row(q, q.seen)} ELSE {}
  BY WriteAppends
<1>2. ~AbortsOnKey(q)
  BY DEF Write
<1>3. \A row \in AddedRows(q) : row = Row(q, q.seen) /\ row.key = q.key
  BY <1>1 DEF Row
<1>4. ASSUME NEW row \in AddedRows(q), row.key # None
      PROVE  \A x \in Users : \A other \in rows[x] : other.key # row.key
  BY <1>1, <1>2, <1>3, <1>4 DEF AbortsOnKey, KeyTaken
<1>5. \A x \in Users : \A row \in rows'[x] :
         row \in rows[x] \/ (x = q.user /\ row \in AddedRows(q))
  <2> SUFFICES ASSUME NEW x \in Users, NEW row \in rows'[x]
               PROVE  row \in rows[x] \/ (x = q.user /\ row \in AddedRows(q))
    OBVIOUS
  <2>1. x # q.user => rows'[x] = rows[x]
    BY WriteExtends
  <2>2. x = q.user => rows'[x] = rows[x] \cup AddedRows(q)
    BY WriteExtends
  <2> HIDE DEF q
  <2> QED
    BY <2>1, <2>2
<1>6. BookedOnce
  BY DEF LedgerInv, LedgerAccounts
<1> SUFFICES ASSUME NEW u \in Users, NEW x \in Users,
                    NEW row \in rows'[u], NEW other \in rows'[x],
                    row.key = other.key, row.key # None
             PROVE  u = x /\ row = other
  BY DEF BookedOnce
<1> HIDE DEF q
<1>7. CASE row \in rows[u] /\ other \in rows[x]
  BY <1>6, <1>7 DEF BookedOnce
<1>8. CASE row \in AddedRows(q) /\ other \in AddedRows(q) /\ row \notin rows[u] /\ other \notin rows[x]
  BY <1>3, <1>5, <1>8
<1>9. CASE row \in AddedRows(q) /\ other \in rows[x]
  BY <1>4, <1>9
<1>10. CASE row \in rows[u] /\ other \in AddedRows(q)
  BY <1>4, <1>10
<1> QED
  BY <1>5, <1>7, <1>8, <1>9, <1>10

LEMMA WriteKeepsAccounts ==
    ASSUME LedgerInv, NEW r \in Requests, Write(r)
    PROVE  LedgerAccounts'
<1> SUFFICES ASSUME NEW u \in Users
             PROVE  /\ past'[u][Len(past'[u])] = wallet'[u]
                    /\ \A v \in 1..Len(past'[u]) : past'[u][v].version = v - 1
                    /\ \A row \in rows'[u] : row.version \in 0..Len(past'[u]) - 2
                    /\ \A v \in 1..Len(past'[u]) - 1 : Explained(u, past[u][v], past[u][v + 1])'
  BY WriteKeepsBookedOnce DEF LedgerAccounts
<1>1. CASE u # req[r].user
  <2>1. past'[u] = past[u] /\ rows'[u] = rows[u] /\ wallet'[u] = wallet[u]
    BY <1>1, WriteExtends
  <2>2. ASSUME NEW v \in 1..Len(past[u]) - 1 PROVE Explained(u, past[u][v], past[u][v + 1])'
    <3>1. Explained(u, past[u][v], past[u][v + 1])
      BY DEF LedgerInv, LedgerAccounts
    <3> QED
      BY <2>1, <3>1 DEF Explained, RowsOf
  <2> QED
    BY <2>1, <2>2 DEF LedgerInv, LedgerAccounts
<1>2. CASE u = req[r].user
  <2> DEFINE q == req[r]
             w == wallet[u]
             e == Effect(q, w)
  <2> PICK n : n = Len(past[u])
    OBVIOUS
  <2>1. /\ n \in Nat \ {0} /\ w.version = n - 1 /\ w = past[u][n] /\ w \in Wallets
        /\ AddedRows(q) = IF RowAmount(q, w) > 0 THEN {Row(q, w)} ELSE {}
    BY <1>2, WriteAppends, VersionCounts
  <2>2. /\ Len(past'[u]) = n + 1
        /\ \A v \in 1..n : past'[u][v] = past[u][v]
        /\ past'[u][n + 1] = e /\ wallet'[u] = e
        /\ rows'[u] = rows[u] \cup AddedRows(q)
    BY <1>2, WriteExtends
  <2>3. e.version = n
    BY <2>1 DEF Effect
  <2>4. \A row \in AddedRows(q) : row.version = n - 1
    BY <2>1 DEF Row
  <2>5. \A row \in rows[u] : row.version \in 0..n - 2
    BY DEF LedgerInv, LedgerAccounts
  <2>6. \A v \in 1..n : past[u][v].version = v - 1
    BY DEF LedgerInv, LedgerAccounts
  <2> HIDE DEF q, w, e
  <2>7. past'[u][Len(past'[u])] = wallet'[u]
    BY <2>1, <2>2
  <2>8. \A v \in 1..Len(past'[u]) : past'[u][v].version = v - 1
    <3> SUFFICES ASSUME NEW v \in 1..n + 1 PROVE past'[u][v].version = v - 1
      BY <2>2
    <3>1. CASE v \in 1..n
      BY <2>2, <2>6, <3>1
    <3>2. CASE v = n + 1
      BY <2>1, <2>2, <2>3, <3>2
    <3> QED
      BY <2>1, <3>1, <3>2
  <2>9. \A row \in rows'[u] : row.version \in 0..Len(past'[u]) - 2
    BY <2>1, <2>2, <2>4, <2>5
  <2>10. ASSUME NEW v \in 1..n - 1 PROVE Explained(u, past[u][v], past[u][v + 1])'
    <3>1. v \in 1..n /\ v + 1 \in 1..n /\ past[u][v].version = v - 1
      BY <2>1, <2>6
    <3>2. past'[u][v] = past[u][v] /\ past'[u][v + 1] = past[u][v + 1]
      BY <2>2, <3>1
    <3>3. {row \in rows'[u] : row.version = v - 1} = {row \in rows[u] : row.version = v - 1}
      BY <2>1, <2>2, <2>4
    <3>4. Explained(u, past[u][v], past[u][v + 1])
      BY DEF LedgerInv, LedgerAccounts
    <3> QED
      BY <3>1, <3>2, <3>3, <3>4, <2>2 DEF Explained, RowsOf
  <2>11. Explained(u, past[u][n], past[u][n + 1])'
    <3>1. {row \in rows'[u] : row.version = n - 1} = AddedRows(q)
      BY <2>1, <2>2, <2>4, <2>5
    <3>2. IF w.currency # e.currency \/ w.units = e.units
          THEN AddedRows(q) = {}
          ELSE /\ AddedRows(q) = {Row(q, w)}
               /\ Row(q, w).before = w.units /\ Row(q, w).after = e.units
               /\ Row(q, w).amount = Magnitude(e.units - w.units)
      BY <1>2, WriteIsExplained DEF q, w, e
    <3>3. past'[u][n] = w /\ past'[u][n + 1] = e
      BY <2>1, <2>2
    <3>4. IF w.currency # e.currency \/ w.units = e.units
          THEN {row \in rows'[u] : row.version = w.version} = {}
          ELSE \E row \in rows'[u] :
                  /\ {x \in rows'[u] : x.version = w.version} = {row}
                  /\ row.before = w.units /\ row.after = e.units
                  /\ row.amount = Magnitude(e.units - w.units)
      BY <2>1, <2>2, <3>1, <3>2
    <3> QED
      BY <3>3, <3>4 DEF Explained, RowsOf
  <2>12. \A v \in 1..Len(past'[u]) - 1 : v \in 1..n - 1 \/ v = n
    BY <2>1, <2>2
  <2> QED
    BY <2>7, <2>8, <2>9, <2>10, <2>11, <2>12
<1> QED
  BY <1>1, <1>2

\* The new row and the mirror are in the wallet's currency.
LEMMA WriteKeepsDenominated ==
    ASSUME LedgerInv, NEW r \in Requests, Write(r)
    PROVE  Denominated'
<1> SUFFICES ASSUME NEW u \in Users
             PROVE  /\ \A row \in rows'[u] : row.currency = past'[u][row.version + 1].currency
                    /\ \E v \in 1..Len(past'[u]) :
                         /\ wallet'[u].mirror = Divide(past'[u][v].units, Cent)
                         /\ \A i \in v..Len(past'[u]) : past'[u][i].currency = wallet'[u].currency
  BY DEF Denominated
<1>1. CASE u # req[r].user
  <2>1. past'[u] = past[u] /\ rows'[u] = rows[u] /\ wallet'[u] = wallet[u]
    BY <1>1, WriteExtends
  <2> QED
    BY <2>1 DEF LedgerInv, Denominated
<1>2. CASE u = req[r].user
  <2> DEFINE q == req[r]
             w == wallet[u]
             e == Effect(q, w)
  <2> PICK n : n = Len(past[u])
    OBVIOUS
  <2>1. /\ n \in Nat \ {0} /\ w.version = n - 1 /\ w = past[u][n] /\ w.currency = q.currency
        /\ AddedRows(q) = IF RowAmount(q, w) > 0 THEN {Row(q, w)} ELSE {}
    BY <1>2, WriteAppends, VersionCounts
  <2>2. /\ Len(past'[u]) = n + 1
        /\ \A v \in 1..n : past'[u][v] = past[u][v]
        /\ past'[u][n + 1] = e /\ wallet'[u] = e
        /\ rows'[u] = rows[u] \cup AddedRows(q)
    BY <1>2, WriteExtends
  <2>3. /\ e.units = NewUnits(q, w)
        /\ e.currency = IF q.kind = "CONVERT" THEN q.value ELSE q.currency
        /\ e.mirror = NewMirror(q, w.mirror, NewUnits(q, w))
    BY DEF Effect
  <2>4. \A row \in AddedRows(q) : row.version = n - 1 /\ row.currency = w.currency
    BY <2>1 DEF Row
  <2>5. \A row \in rows[u] : /\ row.version \in 0..n - 2
                            /\ row.currency = past[u][row.version + 1].currency
    BY DEF LedgerInv, LedgerAccounts, Denominated
  <2>6. PICK v \in 1..n : /\ w.mirror = Divide(past[u][v].units, Cent)
                         /\ \A i \in v..n : past[u][i].currency = w.currency
    BY DEF LedgerInv, Denominated
  <2> HIDE DEF q, w, e
  <2>7. \A row \in rows'[u] : row.currency = past'[u][row.version + 1].currency
    <3>1. ASSUME NEW row \in rows[u]
          PROVE  row.currency = past'[u][row.version + 1].currency
      <4>1. row.version + 1 \in 1..n /\ row.currency = past[u][row.version + 1].currency
        BY <2>1, <2>5
      <4> QED
        BY <2>2, <4>1
    <3>2. ASSUME NEW row \in AddedRows(q)
          PROVE  row.currency = past'[u][row.version + 1].currency
      <4>1. row.version + 1 = n /\ n \in 1..n
        BY <2>1, <2>4
      <4> QED
        BY <2>1, <2>2, <2>4, <4>1
    <3> QED
      BY <2>2, <3>1, <3>2
  <2>8. CASE q.kind = "CONVERT" \/ Representable(NewUnits(q, w))
    <3>1. wallet'[u].mirror = Divide(past'[u][n + 1].units, Cent)
      BY <2>2, <2>3, <2>8 DEF NewMirror, Mirror, ConvertedMirror
    <3> QED
      BY <2>1, <2>2, <2>7, <3>1
  <2>9. CASE q.kind # "CONVERT" /\ ~Representable(NewUnits(q, w))
    <3>1. wallet'[u].mirror = w.mirror /\ wallet'[u].currency = w.currency
      BY <2>1, <2>2, <2>3, <2>9 DEF NewMirror, Mirror
    <3>2. v \in 1..n + 1 /\ past'[u][v] = past[u][v]
      BY <2>1, <2>2
    <3>3. \A i \in v..n + 1 : past'[u][i].currency = wallet'[u].currency
      BY <2>1, <2>2, <2>6, <3>1
    <3> QED
      BY <2>2, <2>6, <2>7, <3>1, <3>2, <3>3
  <2> QED
    BY <2>8, <2>9
<1> QED
  BY <1>1, <1>2

(***************************************************************************)
(* Every step keeps the invariant.                                         *)
(***************************************************************************)
LEMMA AdvanceKeepsInv ==
    ASSUME LedgerInv, NEW r \in Requests, Advance(r)
    PROVE  LedgerInv'
<1>1. CASE Refuse(r)
  BY <1>1, EndKeepsInv DEF Refuse
<1>2. CASE RefuseConversion(r)
  BY <1>2, EndKeepsInv DEF RefuseConversion
<1>3. CASE Write(r)
  <2>1. \A u \in Users : Len(past'[u]) # 0
    BY <1>3, WriteExtends, VersionCounts
  <2> QED
    BY <1>3, <2>1, WriteKeepsType, WriteKeepsCalls, WriteKeepsAccounts, WriteKeepsDenominated
       DEF LedgerInv
<1>4. CASE DuplicateKey(r)
  BY <1>4, EndKeepsInv DEF DuplicateKey
<1> QED
  BY <1>1, <1>2, <1>3, <1>4, ReadKeepsInv, ReadConversionKeepsInv, RetryKeepsInv DEF Advance

LEMMA SetRateKeepsInv == LedgerInv /\ SetRate => LedgerInv'
<1> SUFFICES ASSUME LedgerInv, SetRate PROVE LedgerInv'
  OBVIOUS
<1>1. UNCHANGED <<wallet, rows, past>> /\ req' = req
  BY DEF SetRate
<1>2. LedgerType' /\ CallsMean'
  BY DEF SetRate, LedgerInv, LedgerType, CallsMean, CallMeans
<1> QED
  BY <1>1, <1>2, UnwrittenKeepsInv

LEMMA LedgerNextKeepsInv == LedgerInv /\ [Next]_vars => LedgerInv'
<1> SUFFICES ASSUME LedgerInv, [Next]_vars PROVE LedgerInv'
  OBVIOUS
<1>1. CASE UNCHANGED vars
  <2>1. UNCHANGED <<wallet, rows, past, req, rate>>
    BY <1>1 DEF vars
  <2>2. LedgerType' /\ CallsMean'
    BY <2>1 DEF LedgerInv, LedgerType, CallsMean, CallMeans
  <2> QED
    BY <2>1, <2>2, UnwrittenKeepsInv
<1> QED
  BY <1>1, RequestKeepsInv, AdvanceKeepsInv, SetRateKeepsInv DEF Next

LEMMA LedgerInitHasInv == Init => LedgerInv
<1> SUFFICES ASSUME Init PROVE LedgerInv
  OBVIOUS
<1>1. ASSUME NEW u \in Users
      PROVE  /\ wallet[u] \in Wallets
             /\ wallet[u].version = 0
             /\ wallet[u].mirror = Divide(wallet[u].units, Cent)
  <2>1. Start[u].units \in Int /\ Start[u].limit \in Int /\ Home[u] \in Currencies
    BY LedgerAssumption
  <2>2. /\ CreditUsed(Start[u].units, Start[u].limit) \in Int
        /\ Divide(Start[u].units, Cent) \in Int
    BY <2>1, UsedInteger, DivideInteger, LedgerAssumption
  <2> QED
    BY <2>1, <2>2 DEF Init, Wallets
<1>2. \A u \in Users : past[u] = <<wallet[u]>> /\ rows[u] = {}
  BY DEF Init
<1>3. \A u \in Users : /\ past[u] \in Seq(Wallets) /\ Len(past[u]) = 1
                        /\ past[u][1] = wallet[u]
  <2> SUFFICES ASSUME NEW u \in Users
               PROVE  /\ past[u] \in Seq(Wallets) /\ Len(past[u]) = 1
                      /\ past[u][1] = wallet[u]
    OBVIOUS
  <2>1. wallet[u] \in Wallets /\ past[u] = <<wallet[u]>>
    BY <1>1, <1>2
  <2> QED
    BY <2>1
<1>4. LedgerType
  <2>1. wallet \in [Users -> Wallets]
    BY <1>1 DEF Init
  <2>2. past \in [Users -> Seq(Wallets)]
    BY <1>3 DEF Init
  <2>3. req \in [Requests -> Endings \cup Swaps]
    BY DEF Init, Idle, Endings
  <2> QED
    BY <2>1, <2>2, <2>3 DEF Init, LedgerType
<1>5. CallsMean
  BY DEF Init, Idle, CallsMean, Swaps
<1>6. LedgerAccounts
  <2>1. BookedOnce
    BY <1>2 DEF BookedOnce
  <2> QED
    BY <1>1, <1>2, <1>3, <2>1 DEF LedgerAccounts
<1>7. Denominated
  BY <1>1, <1>2, <1>3 DEF Denominated
<1> QED
  BY <1>3, <1>4, <1>5, <1>6, <1>7 DEF LedgerInv

(***************************************************************************)
(* Each call is one step of AtomicLedger.  Reading, refusing and trying    *)
(* again change nothing that it shows; the swap that succeeds finds the    *)
(* wallet it read, so its effect is the one the call has at that instant.  *)
(***************************************************************************)
\* ROUND_HALF_UP gives a nearest integer.
LEMMA DivideIsNearest ==
    ASSUME NEW n \in Int, NEW d \in Nat \ {0}
    PROVE  Atomic!Nearest(Divide(n, d), n, d)
<1> DEFINE m == Magnitude(n)
           q == (2 * m + d) \div (2 * d)
<1>1. m \in Nat /\ (n = m \/ n = -m) /\ Divide(n, d) = IF n < 0 THEN -q ELSE q
  BY DEF Magnitude, Divide
<1>2. q \in Int /\ 2 * d * q <= 2 * m + d /\ 2 * m + d < 2 * d * q + 2 * d
  <2>1. \A a \in Nat, b \in Nat \ {0} :
           a \div b \in Int /\ b * (a \div b) <= a /\ a < b * (a \div b) + b
    OBVIOUS
  <2>2. 2 * m + d \in Nat /\ 2 * d \in Nat \ {0}
    BY <1>1
  <2> HIDE DEF m
  <2> QED
    BY <2>1, <2>2
<1> QED
  BY <1>1, <1>2 DEF Atomic!Nearest

\* It keeps the order and treats debts as it does assets.
LEMMA DivideKeepsOrder ==
    ASSUME NEW a \in Nat, NEW b \in Nat, a <= b, NEW d \in Nat \ {0}
    PROVE  (2 * a + d) \div (2 * d) <= (2 * b + d) \div (2 * d)
<1>1. \A x, y \in Nat, c \in Nat \ {0} : x <= y => x \div c <= y \div c
  <2> SUFFICES ASSUME NEW x \in Nat, NEW y \in Nat, NEW c \in Nat \ {0}, x <= y
               PROVE  x \div c <= y \div c
    OBVIOUS
  <2> DEFINE p == x \div c
             q == y \div c
  <2>1. p \in Int /\ q \in Int /\ c * p <= x /\ y < c * q + c
    OBVIOUS
  <2> HIDE DEF p, q
  <2>2. c * p < c * (q + 1)
    BY <2>1
  <2>3. ~(p >= q + 1)
    BY <2>1, <2>2
  <2> QED
    BY <2>1, <2>3 DEF p, q
<1>2. 2 * a + d \in Nat /\ 2 * b + d \in Nat /\ 2 * d \in Nat \ {0} /\ 2 * a + d <= 2 * b + d
  OBVIOUS
<1> QED
  BY <1>1, <1>2

LEMMA ConversionKeepsCover ==
    ASSUME NEW units \in Int, NEW limit \in Int, units + limit >= 0,
           NEW from \in Nat \ {0}, NEW to \in Nat \ {0}
    PROVE  Convert(units, from, to) + Convert(limit, from, to) >= 0
<1> DEFINE Q(m) == (2 * m + from) \div (2 * from)
<1>1. \A m \in Nat : Q(m) \in Int /\ Q(m) >= 0
  <2>1. \A a \in Nat, b \in Nat \ {0} : a \div b \in Int /\ a \div b >= 0
    OBVIOUS
  <2>2. \A m \in Nat : 2 * m + from \in Nat /\ 2 * from \in Nat \ {0}
    OBVIOUS
  <2> QED
    BY <2>1, <2>2
<1>2. \A m \in Nat : Divide(m, from) = Q(m)
  BY DEF Divide, Magnitude
<1>3. \A m \in Nat \ {0} : Divide(-m, from) = -Q(m)
  <2> SUFFICES ASSUME NEW m \in Nat \ {0} PROVE Divide(-m, from) = -Q(m)
    OBVIOUS
  <2>1. -m < 0 /\ Magnitude(-m) = m
    BY DEF Magnitude
  <2> QED
    BY <2>1 DEF Divide
<1>4. \A m, n \in Nat : m <= n => Q(m) <= Q(n)
  BY DivideKeepsOrder
<1> HIDE DEF Q
<1>5. \A n \in Nat : n * to \in Nat
  OBVIOUS
<1>6. \A m, n \in Nat : m <= n => m * to <= n * to
  <2> SUFFICES ASSUME NEW m \in Nat, NEW n \in Nat, m <= n PROVE m * to <= n * to
    OBVIOUS
  <2>1. (n - m) * to \in Nat /\ n * to = m * to + (n - m) * to
    OBVIOUS
  <2> QED
    BY <1>5, <2>1
<1>7. CASE units >= 0 /\ limit >= 0
  BY <1>1, <1>2, <1>5, <1>7 DEF Convert
<1>8. ASSUME NEW m \in Nat \ {0}, NEW n \in Nat, m <= n
      PROVE  Convert(-m, from, to) + Convert(n, from, to) >= 0
  <2>1. m * to \in Nat \ {0} /\ n * to \in Nat /\ m * to <= n * to /\ (-m) * to = -(m * to)
    BY <1>5, <1>6, <1>8
  <2>2. Divide(-(m * to), from) = -Q(m * to) /\ Divide(n * to, from) = Q(n * to)
    BY <1>2, <1>3, <2>1
  <2>3. Q(m * to) \in Int /\ Q(n * to) \in Int /\ Q(m * to) <= Q(n * to)
    BY <1>1, <1>4, <2>1
  <2> QED
    BY <2>1, <2>2, <2>3 DEF Convert
<1>9. CASE units < 0
  <2> DEFINE m == -units
  <2>1. m \in Nat \ {0} /\ limit \in Nat /\ m <= limit /\ units = -m
    BY <1>9
  <2> HIDE DEF m
  <2> QED
    BY <1>8, <2>1
<1>10. CASE limit < 0
  <2> DEFINE m == -limit
  <2>1. m \in Nat \ {0} /\ units \in Nat /\ m <= units /\ limit = -m
    BY <1>10
  <2>2. Convert(units, from, to) \in Int /\ Convert(limit, from, to) \in Int
    BY DivideInteger DEF Convert
  <2> HIDE DEF m
  <2>3. Convert(limit, from, to) + Convert(units, from, to) >= 0
    BY <1>8, <2>1
  <2> QED
    BY <2>2, <2>3
<1> QED
  BY <1>7, <1>9, <1>10

LEMMA Shown ==
    /\ DOMAIN Balances = Users /\ \A u \in Users : Balances[u] = Held(wallet[u])
    /\ DOMAIN BookedRows = Users
    /\ \A u \in Users : BookedRows[u] = {Booked(row) : row \in rows[u]}
    /\ DOMAIN Demands = Requests /\ \A r \in Requests : Demands[r] = Demanded(req[r])
BY DEF Balances, BookedRows, Demands

\* A step that only moves one request.
LEMMA DemandChanges ==
    ASSUME LedgerType, NEW r \in Requests, NEW q,
           req' = [req EXCEPT ![r] = q], UNCHANGED <<wallet, rows>>
    PROVE  /\ Demands' = [Demands EXCEPT ![r] = Demanded(q)]
           /\ UNCHANGED <<Balances, BookedRows>>
<1>1. \A x \in Requests : req'[x] = IF x = r THEN q ELSE req[x]
  BY DEF LedgerType
<1>2. UNCHANGED <<Balances, BookedRows>>
  BY DEF Balances, BookedRows
<1>3. /\ Demands' = [x \in Requests |-> Demanded(req'[x])]
      /\ Demands = [x \in Requests |-> Demanded(req[x])]
  BY DEF Demands, Demanded
<1>4. [Demands EXCEPT ![r] = Demanded(q)]
         = [x \in Requests |-> IF x = r THEN Demanded(q) ELSE Demanded(req[x])]
  BY <1>3
<1>5. \A x \in Requests : Demanded(req'[x]) = IF x = r THEN Demanded(q) ELSE Demanded(req[x])
  BY <1>1
<1> HIDE DEF Demanded
<1> QED
  BY <1>2, <1>3, <1>4, <1>5

LEMMA UnseenMove ==
    ASSUME LedgerType, NEW r \in Requests, NEW q,
           req' = [req EXCEPT ![r] = q], UNCHANGED <<wallet, rows>>,
           Demanded(q) = Demanded(req[r])
    PROVE  UNCHANGED <<Balances, BookedRows, Demands>>
<1>1. /\ Demands' = [Demands EXCEPT ![r] = Demanded(req[r])]
      /\ UNCHANGED <<Balances, BookedRows>>
  BY DemandChanges
<1>2. DOMAIN Demands = Requests /\ Demands[r] = Demanded(req[r])
  BY Shown
<1>3. Demands = [x \in Requests |-> Demands[x]]
  BY DEF Demands
<1> HIDE DEF Demanded
<1> QED
  BY <1>1, <1>2, <1>3

LEMMA ValuesAre ==
    /\ \A kind \in {"DEBIT", "FORCED", "CREDIT", "REFUND"} : Atomic!Values[kind] = Amounts
    /\ Atomic!Values["BALANCE"] = Targets
    /\ Atomic!Values["LIMIT"] = Targets \cap Nat
    /\ Atomic!Values["CONVERT"] = Currencies
BY DEF Atomic!Values, Atomic!Kinds

LEMMA CallAsks ==
    ASSUME LedgerInv, NEW r \in Requests, NEW u \in Users, NEW kind \in Atomic!Kinds,
           NEW value \in Atomic!Values[kind],
           NEW key \in Keys \cup {None}, key # None => kind = "CREDIT",
           NEW session, Call(r, u, kind, value, key, session)
    PROVE  Atomic!Ask(r)
<1> DEFINE q == [at |-> "read", user |-> u, kind |-> kind, value |-> value, key |-> key,
                 session |-> session, currency |-> wallet[u].currency, tries |-> 1,
                 source |-> None, from |-> 1, to |-> 1, seen |-> wallet[u]]
<1>1. Demanded(q) = [at |-> "pending", user |-> u, kind |-> kind, value |-> value, key |-> key,
                     currency |-> IF kind = "CONVERT" THEN None ELSE wallet[u].currency]
  BY DEF Demanded
<1>2. Demands[r].at = "idle"
  BY Shown DEF Call, Demanded
<1>3. Balances[u].currency = wallet[u].currency
  BY Shown DEF Held
<1>4. /\ Demands' = [Demands EXCEPT ![r] = Demanded(q)]
      /\ UNCHANGED <<Balances, BookedRows>>
  <2>1. req' = [req EXCEPT ![r] = q] /\ UNCHANGED <<wallet, rows>>
    BY DEF Call
  <2> HIDE DEF q
  <2> QED
    BY <2>1, DemandChanges DEF LedgerInv
<1> HIDE DEF q
<1> QED
  BY <1>1, <1>2, <1>3, <1>4 DEF Atomic!Ask

LEMMA RequestAsks ==
    ASSUME LedgerInv, NEW r \in Requests, Request(r)
    PROVE  Atomic!Ask(r)
<1>1. CASE DebitExactWalletAtomic(r)
  <2> PICK u \in Users, amount \in Amounts, session \in BOOLEAN, kind \in {"DEBIT", "FORCED"} :
         Call(r, u, kind, amount, None, session)
    BY <1>1, Zenon DEF DebitExactWalletAtomic
  <2>1. kind \in Atomic!Kinds /\ amount \in Atomic!Values[kind] /\ None \in Keys \cup {None}
    BY ValuesAre DEF Atomic!Kinds
  <2>2. Call(r, u, kind, amount, None, TRUE) \/ Call(r, u, kind, amount, None, FALSE)
    BY Zenon
  <2> QED
    BY <2>1, <2>2, CallAsks
<1>2. CASE CreditExactWalletAtomic(r)
  <2> PICK u \in Users, amount \in Amounts, key \in Keys \cup {None} :
         Call(r, u, "CREDIT", amount, key, FALSE)
    BY <1>2, Zenon DEF CreditExactWalletAtomic
  <2>1. "CREDIT" \in Atomic!Kinds /\ amount \in Atomic!Values["CREDIT"]
    BY ValuesAre DEF Atomic!Kinds
  <2> QED
    BY <2>1, CallAsks
<1>3. CASE RefundExactWalletAtomic(r)
  <2> PICK u \in Users, amount \in Amounts : Call(r, u, "REFUND", amount, None, TRUE)
    BY <1>3, Zenon DEF RefundExactWalletAtomic
  <2>1. "REFUND" \in Atomic!Kinds /\ amount \in Atomic!Values["REFUND"]
        /\ None \in Keys \cup {None}
    BY ValuesAre DEF Atomic!Kinds
  <2> QED
    BY <2>1, CallAsks
<1>4. CASE SetExactWalletBalanceAtomic(r)
  <2> PICK u \in Users, target \in Targets : Call(r, u, "BALANCE", target, None, FALSE)
    BY <1>4, Zenon DEF SetExactWalletBalanceAtomic
  <2>1. "BALANCE" \in Atomic!Kinds /\ target \in Atomic!Values["BALANCE"]
        /\ None \in Keys \cup {None}
    BY ValuesAre DEF Atomic!Kinds
  <2> QED
    BY <2>1, CallAsks
<1>5. CASE UpdateExactCreditLimitAtomic(r)
  <2> PICK u \in Users, target \in Targets :
         target >= 0 /\ Call(r, u, "LIMIT", target, None, FALSE)
    BY <1>5, Zenon DEF UpdateExactCreditLimitAtomic
  <2>1. "LIMIT" \in Atomic!Kinds /\ target \in Atomic!Values["LIMIT"]
        /\ None \in Keys \cup {None}
    <3>1. target \in Targets \cap Nat
      BY LedgerAssumption
    <3> QED
      BY <3>1, ValuesAre DEF Atomic!Kinds
  <2> QED
    BY <2>1, CallAsks
<1>6. CASE ConvertExactWalletCurrencyAtomic(r)
  <2> PICK u \in Users, target \in Currencies : Call(r, u, "CONVERT", target, None, FALSE)
    BY <1>6, Zenon DEF ConvertExactWalletCurrencyAtomic
  <2>1. "CONVERT" \in Atomic!Kinds /\ target \in Atomic!Values["CONVERT"]
        /\ None \in Keys \cup {None}
    BY ValuesAre DEF Atomic!Kinds
  <2> QED
    BY <2>1, CallAsks
<1> QED
  BY <1>1, <1>2, <1>3, <1>4, <1>5, <1>6 DEF Request

\* Of a call that reads or writes, its demand is seen.
LEMMA PendingShown ==
    ASSUME NEW r \in Requests, req[r].at \in {"read", "write"}
    PROVE  /\ Atomic!Pending(r) /\ Demands[r] = Demanded(req[r])
           /\ Demands[r].user = req[r].user /\ Demands[r].kind = req[r].kind
           /\ Demands[r].value = req[r].value /\ Demands[r].key = req[r].key
           /\ Demands[r].currency = IF req[r].kind = "CONVERT" THEN None ELSE req[r].currency
BY Shown DEF Demanded, Atomic!Pending

LEMMA EndShows ==
    ASSUME LedgerInv, NEW r \in Requests, NEW how \in {"done", "failed"}, End(r, how),
           UNCHANGED <<wallet, rows>>
    PROVE  Atomic!Ends(r, how) /\ UNCHANGED <<Balances, BookedRows>>
<1>1. Demanded([at |-> how]) = [at |-> how]
  BY DEF Demanded
<1>2. req' = [req EXCEPT ![r] = [at |-> how]]
  BY DEF End
<1>3. PICK q : q = [at |-> how]
  OBVIOUS
<1> QED
  BY <1>1, <1>2, <1>3, DemandChanges DEF LedgerInv, Atomic!Ends

\* A call gives up, or finds nothing to convert.
LEMMA UnwrittenEnds ==
    ASSUME LedgerInv, NEW r \in Requests,
           Refuse(r) \/ RefuseConversion(r) \/ DuplicateKey(r)
              \/ (CasConflict(r) /\ ~(req[r].tries < Attempts(req[r])))
    PROVE  Atomic!Fail(r) \/ Atomic!Converted(r)
<1>1. /\ req[r].at \in {"read", "write"} /\ UNCHANGED <<wallet, rows>>
      /\ \/ End(r, "failed")
         \/ /\ End(r, "done") /\ req[r].kind = "CONVERT"
            /\ Current(r).currency = req[r].value
  BY DEF Refuse, RefuseConversion, DuplicateKey, CasConflict, Reading
<1>2. CASE End(r, "failed")
  BY <1>1, <1>2, EndShows, PendingShown DEF Atomic!Fail
<1>3. CASE End(r, "done") /\ req[r].kind = "CONVERT" /\ Current(r).currency = req[r].value
  <2>1. req[r].user \in Users
    BY <1>1, AtReadOrWrite DEF LedgerInv
  <2>2. Balances[Demands[r].user].currency = Demands[r].value
    BY <1>1, <1>3, <2>1, Shown, PendingShown DEF Held, Current
  <2> QED
    BY <1>1, <1>3, <2>2, EndShows, PendingShown DEF Atomic!Converted
<1> QED
  BY <1>1, <1>2, <1>3

\* Reading and trying again show nothing.
LEMMA UnseenStep ==
    ASSUME LedgerInv, NEW r \in Requests,
           Read(r) \/ ReadConversion(r) \/ TransientConflict(r)
              \/ (CasConflict(r) /\ req[r].tries < Attempts(req[r]))
    PROVE  UNCHANGED <<Balances, BookedRows, Demands>>
<1>1. req[r] \in Swaps /\ req[r].at \in {"read", "write"} /\ UNCHANGED <<wallet, rows>>
  BY AtReadOrWrite
     DEF Read, ReadConversion, TransientConflict, CasConflict, Reading, LedgerInv
<1>2. PICK q : /\ req' = [req EXCEPT ![r] = q] /\ q.at \in {"read", "write"}
               /\ q.user = req[r].user /\ q.kind = req[r].kind /\ q.value = req[r].value
               /\ q.key = req[r].key
               /\ q.kind # "CONVERT" => q.currency = req[r].currency
  <2>1. CASE Read(r)
    <3>1. PICK q : q = [req[r] EXCEPT !.at = "write", !.seen = Current(r)]
      OBVIOUS
    <3>2. req' = [req EXCEPT ![r] = q]
      BY <2>1, <3>1 DEF Read, LedgerInv, LedgerType
    <3>3. /\ q.at = "write" /\ q.user = req[r].user /\ q.kind = req[r].kind
          /\ q.value = req[r].value /\ q.key = req[r].key
          /\ q.currency = req[r].currency
      BY <1>1, <3>1 DEF Swaps
    <3> QED
      BY <3>2, <3>3
  <2>2. CASE ReadConversion(r)
    <3>1. PICK q : q = [req[r] EXCEPT !.at = "write", !.seen = Current(r),
                                      !.source = Current(r).currency,
                                      !.currency = Current(r).currency,
                                      !.from = rate[Current(r).currency],
                                      !.to = rate[req[r].value]]
      OBVIOUS
    <3>2. req' = [req EXCEPT ![r] = q] /\ req[r].kind = "CONVERT"
      BY <2>2, <3>1 DEF ReadConversion, LedgerInv, LedgerType
    <3>3. /\ q.at = "write" /\ q.user = req[r].user /\ q.kind = req[r].kind
          /\ q.value = req[r].value /\ q.key = req[r].key
      BY <1>1, <3>1 DEF Swaps
    <3> QED
      BY <3>2, <3>3
  <2>3. CASE TransientConflict(r)
    <3>1. PICK q : q = [req[r] EXCEPT !.at = "read"]
      OBVIOUS
    <3>2. req' = [req EXCEPT ![r] = q]
      BY <2>3, <3>1 DEF TransientConflict, LedgerInv, LedgerType
    <3>3. /\ q.at = "read" /\ q.user = req[r].user /\ q.kind = req[r].kind
          /\ q.value = req[r].value /\ q.key = req[r].key
          /\ q.currency = req[r].currency
      BY <1>1, <3>1 DEF Swaps
    <3> QED
      BY <3>2, <3>3
  <2>4. CASE CasConflict(r) /\ req[r].tries < Attempts(req[r])
    <3>1. PICK q : q = [req[r] EXCEPT !.at = "read", !.tries = req[r].tries + 1]
      OBVIOUS
    <3>2. req' = [req EXCEPT ![r] = q]
      BY <2>4, <3>1 DEF CasConflict, LedgerInv, LedgerType
    <3>3. /\ q.at = "read" /\ q.user = req[r].user /\ q.kind = req[r].kind
          /\ q.value = req[r].value /\ q.key = req[r].key
          /\ q.currency = req[r].currency
      BY <1>1, <3>1 DEF Swaps
    <3> QED
      BY <3>2, <3>3
  <2> QED
    BY <2>1, <2>2, <2>3, <2>4
<1>3. Demanded(q) = Demanded(req[r])
  BY <1>1, <1>2 DEF Demanded
<1> QED
  BY <1>1, <1>2, <1>3, UnseenMove DEF LedgerInv

\* What the swap that succeeds shows.
LEMMA WriteShows ==
    ASSUME LedgerInv, NEW r \in Requests, Write(r)
    PROVE  LET q == req[r]
               u == req[r].user
               w == wallet[req[r].user]
           IN  /\ Demands[r].user = u /\ u \in Users /\ Balances[u] = Held(w)
               /\ Balances' = [Balances EXCEPT ![u] = Held(Effect(q, w))]
               /\ BookedRows' = [BookedRows EXCEPT ![u] = @ \cup {Booked(row) : row \in AddedRows(q)}]
               /\ Atomic!Ends(r, "done")
<1> DEFINE q == req[r]
           u == q.user
           w == wallet[u]
<1>1. /\ u \in Users
      /\ wallet' = [wallet EXCEPT ![u] = Effect(q, w)]
      /\ rows' = [rows EXCEPT ![u] = @ \cup AddedRows(q)]
      /\ DOMAIN wallet = Users /\ DOMAIN rows = Users
  BY WriteAppends DEF LedgerInv, LedgerType
<1>2. Demands[r].user = u /\ Balances[u] = Held(w)
  BY <1>1, Shown, PendingShown DEF Write
<1> HIDE DEF q, u, w
<1>3. Balances' = [Balances EXCEPT ![u] = Held(Effect(q, w))]
  <2>1. PICK e : e = Effect(q, w)
    OBVIOUS
  <2>2. wallet' = [wallet EXCEPT ![u] = e]
    BY <1>1, <2>1
  <2>3. \A x \in Users : Held(wallet'[x]) = IF x = u THEN Held(e) ELSE Held(wallet[x])
    BY <1>1, <2>2
  <2>4. Balances' = [x \in Users |-> Held(wallet'[x])]
        /\ Balances = [x \in Users |-> Held(wallet[x])]
    BY DEF Balances, Held
  <2> HIDE DEF Held
  <2> QED
    BY <2>1, <2>3, <2>4
<1>4. BookedRows' = [BookedRows EXCEPT ![u] = @ \cup {Booked(row) : row \in AddedRows(q)}]
  <2>1. PICK added : added = AddedRows(q)
    OBVIOUS
  <2>2. rows' = [rows EXCEPT ![u] = rows[u] \cup added]
    BY <1>1, <2>1
  <2>3. \A x \in Users : rows'[x] = IF x = u THEN rows[x] \cup added ELSE rows[x]
    BY <1>1, <2>2
  <2>4. {Booked(row) : row \in rows[u] \cup added}
           = {Booked(row) : row \in rows[u]} \cup {Booked(row) : row \in added}
    OBVIOUS
  <2>5. BookedRows' = [x \in Users |-> {Booked(row) : row \in rows'[x]}]
        /\ BookedRows = [x \in Users |-> {Booked(row) : row \in rows[x]}]
    BY DEF BookedRows, Booked
  <2>6. PICK new : new = {Booked(row) : row \in added}
    OBVIOUS
  <2>7. BookedRows' = [BookedRows EXCEPT ![u] = BookedRows[u] \cup new]
    <3>1. \A x \in Users : {Booked(row) : row \in rows'[x]}
                              = IF x = u THEN BookedRows[u] \cup new ELSE BookedRows[x]
      BY <2>3, <2>4, <2>5, <2>6
    <3>2. BookedRows' = [x \in Users |-> IF x = u THEN BookedRows[u] \cup new ELSE BookedRows[x]]
      BY <2>5, <3>1
    <3>3. BookedRows = [x \in Users |-> BookedRows[x]]
      BY <2>5
    <3> QED
      BY <3>2, <3>3
  <2> QED
    BY <2>1, <2>6, <2>7
<1>5. Atomic!Ends(r, "done")
  <2>1. req' = [req EXCEPT ![r] = [at |-> "done"]]
    BY DEF Write, End
  <2>2. Demands' = [Demands EXCEPT ![r] = Demanded([at |-> "done"])]
    <3>1. \A x \in Requests : req'[x] = IF x = r THEN [at |-> "done"] ELSE req[x]
      BY <2>1 DEF LedgerInv, LedgerType
    <3>2. /\ Demands' = [x \in Requests |-> Demanded(req'[x])]
          /\ Demands = [x \in Requests |-> Demanded(req[x])]
      BY DEF Demands, Demanded
    <3> HIDE DEF Demanded
    <3> QED
      BY <3>1, <3>2
  <2> QED
    BY <2>2 DEF Demanded, Atomic!Ends
<1> QED
  BY <1>1, <1>2, <1>3, <1>4, <1>5 DEF q, u, w

\* Within a currency the effect on the wallet as it is, and the row that explains it.
LEMMA WriteMutates ==
    ASSUME LedgerInv, NEW r \in Requests, Write(r), req[r].kind # "CONVERT"
    PROVE  Atomic!Mutate(r)
<1> DEFINE q == req[r]
           u == q.user
           w == wallet[u]
           e == Effect(q, w)
           d == Demands[r]
           b == Held(w)
           after == Atomic!After(d, b)
<1>1. /\ q \in Swaps /\ CallMeans(q) /\ w \in Wallets /\ q.at = "write"
      /\ q.seen = w /\ q.currency = w.currency /\ u \in Users
      /\ e \in Wallets /\ NewUnits(q, w) \in Int
  BY WriteAppends DEF Write
<1>2. /\ Atomic!Pending(r) /\ d.user = u /\ d.kind = q.kind /\ d.value = q.value
      /\ d.key = q.key /\ d.currency = q.currency
  BY <1>1, PendingShown
<1>3. b.units = w.units /\ b.limit = w.limit /\ b.currency = w.currency
      /\ b.changes = w.version
  BY DEF Held
<1>4. e = [units |-> NewUnits(q, w), limit |-> NewLimit(q, w), currency |-> w.currency,
           used |-> e.used, version |-> w.version + 1, mirror |-> e.mirror]
  BY <1>1 DEF Effect
<1>5. after = [units |-> NewUnits(q, w), limit |-> NewLimit(q, w),
               currency |-> w.currency, changes |-> w.version]
  <2>1. q.kind \in {"DEBIT", "FORCED", "CREDIT", "REFUND", "BALANCE", "LIMIT"}
    BY <1>1 DEF Swaps, Kinds, Credits
  <2>2. CASE q.kind \in {"DEBIT", "FORCED"}
    <3>1. NewUnits(q, w) = w.units - q.value /\ NewLimit(q, w) = w.limit
      BY <2>2 DEF NewUnits, NewLimit, Credits
    <3>2. after = [b EXCEPT !.units = b.units - q.value]
      BY <1>2, <2>2 DEF Atomic!After
    <3> QED
      BY <1>3, <3>1, <3>2 DEF Held
  <2>3. CASE q.kind \in {"CREDIT", "REFUND"}
    BY <1>2, <1>3, <2>3 DEF Atomic!After, NewUnits, NewLimit, Held, Credits
  <2>4. CASE q.kind = "BALANCE"
    BY <1>2, <1>3, <2>4 DEF Atomic!After, NewUnits, NewLimit, Held, Credits
  <2>5. CASE q.kind = "LIMIT"
    BY <1>2, <1>3, <2>5 DEF Atomic!After, NewUnits, NewLimit, Held, Credits
  <2> QED
    BY <2>1, <2>2, <2>3, <2>4, <2>5
<1>6. Held(e) = [after EXCEPT !.changes = b.changes + 1]
  BY <1>3, <1>4, <1>5 DEF Held
<1>7. IF w.units = NewUnits(q, w) THEN AddedRows(q) = {}
      ELSE AddedRows(q) = {Row(q, w)} /\ RowAmount(q, w) > 0
  <2>1. e.currency = w.currency /\ e.units = NewUnits(q, w)
    BY <1>4
  <2>2. IF w.units = e.units THEN AddedRows(q) = {} ELSE AddedRows(q) = {Row(q, w)}
    BY <2>1, WriteIsExplained
  <2>3. AddedRows(q) = IF RowAmount(q, w) > 0 THEN {Row(q, w)} ELSE {}
    BY WriteAppends
  <2> QED
    BY <2>1, <2>2, <2>3
<1>8. {Booked(row) : row \in AddedRows(q)} = Atomic!Entry(d, b, after.units)
  <2>1. Booked(Row(q, w)) = [change |-> b.changes, before |-> b.units,
                             after |-> NewUnits(q, w), currency |-> b.currency, key |-> d.key]
    BY <1>1, <1>2, <1>3 DEF Booked, Row
  <2>2. after.units = NewUnits(q, w)
    BY <1>5
  <2>3. CASE w.units = NewUnits(q, w)
    BY <1>3, <1>7, <2>2, <2>3 DEF Atomic!Entry
  <2>4. CASE w.units # NewUnits(q, w)
    <3>1. AddedRows(q) = {Row(q, w)}
      BY <1>7, <2>4
    <3>2. {Booked(row) : row \in AddedRows(q)} = {Booked(Row(q, w))}
      BY <3>1
    <3> QED
      BY <1>3, <2>1, <2>2, <2>4, <3>2 DEF Atomic!Entry
  <2> QED
    BY <2>3, <2>4
<1>9. after.units # b.units => Atomic!Free(d.key)
  <2> SUFFICES ASSUME NewUnits(q, w) # w.units, q.key # None
               PROVE  \A x \in Users : \A entry \in BookedRows[x] : entry.key # q.key
    BY <1>2, <1>3, <1>5 DEF Atomic!Free
  <2>1. ~KeyTaken(q.key)
    BY <1>1, <1>7 DEF Write, AbortsOnKey
  <2>2. \A x \in Users : \A row \in rows[x] : Booked(row).key = row.key
    BY DEF Booked
  <2> QED
    BY <2>1, <2>2, Shown DEF KeyTaken
<1>10. d.kind = "DEBIT" => d.user \notin Suspended /\ b.units + b.limit >= d.value
  <2>1. q.kind = "DEBIT" => q.value <= w.units + w.limit
    BY <1>1 DEF CallMeans
  <2>2. q.kind = "DEBIT" => q.value \in Int
    BY <1>1 DEF CallMeans
  <2>3. w.units \in Int /\ w.limit \in Int
    BY <1>1 DEF Wallets
  <2>4. q.kind = "DEBIT" => u \notin Suspended
    BY <1>1 DEF CallMeans
  <2> QED
    BY <1>2, <1>3, <2>1, <2>2, <2>3, <2>4
<1>11. /\ Balances[u] = b /\ Atomic!Ends(r, "done")
       /\ Balances' = [Balances EXCEPT ![u] = Held(e)]
       /\ BookedRows' = [BookedRows EXCEPT ![u] = @ \cup {Booked(row) : row \in AddedRows(q)}]
  BY WriteShows
<1> HIDE DEF q, u, w, e, d, b, after
<1>12. d = Demands[r] /\ b = Balances[d.user] /\ after = Atomic!After(d, b)
  BY <1>2, <1>11 DEF d, after
<1>13. d.kind # "CONVERT" /\ d.currency = b.currency
  BY <1>1, <1>2, <1>3 DEF q
<1>14. Balances' = [Balances EXCEPT ![d.user] = [after EXCEPT !.changes = b.changes + 1]]
  BY <1>2, <1>6, <1>11
<1>15. BookedRows' = [BookedRows EXCEPT ![d.user] = @ \cup Atomic!Entry(d, b, after.units)]
  BY <1>2, <1>8, <1>11
<1> QED
  BY <1>2, <1>9, <1>10, <1>11, <1>12, <1>13, <1>14, <1>15 DEF Atomic!Mutate

\* A conversion: units and limit, at two rates the currencies had.
LEMMA WriteConverts ==
    ASSUME LedgerInv, NEW r \in Requests, Write(r), req[r].kind = "CONVERT"
    PROVE  Atomic!Convert(r)
<1> DEFINE q == req[r]
           u == q.user
           w == wallet[u]
           e == Effect(q, w)
           d == Demands[r]
           b == Held(w)
<1>1. /\ q \in Swaps /\ CallMeans(q) /\ w \in Wallets /\ q.at = "write"
      /\ q.currency = w.currency /\ u \in Users /\ e \in Wallets
  BY WriteAppends DEF Write
<1>2. Atomic!Pending(r) /\ d.user = u /\ d.kind = "CONVERT" /\ d.value = q.value
  BY <1>1, PendingShown
<1>3. b.units = w.units /\ b.limit = w.limit /\ b.currency = w.currency
      /\ b.changes = w.version
  BY DEF Held
<1>4. q.from \in Rates /\ q.to \in Rates /\ q.value # w.currency
  BY <1>1 DEF CallMeans
<1>5. /\ e.units = Divide(w.units * q.to, q.from) /\ e.limit = Divide(w.limit * q.to, q.from)
      /\ e.currency = q.value /\ e.version = w.version + 1
  BY DEF Effect, NewUnits, NewLimit, Convert, Credits
<1>6. /\ Atomic!Nearest(e.units, w.units * q.to, q.from)
      /\ Atomic!Nearest(e.limit, w.limit * q.to, q.from)
  <2>1. w.units * q.to \in Int /\ w.limit * q.to \in Int /\ q.from \in Nat \ {0}
    BY <1>1 DEF Wallets, Swaps
  <2>2. /\ Atomic!Nearest(Divide(w.units * q.to, q.from), w.units * q.to, q.from)
        /\ Atomic!Nearest(Divide(w.limit * q.to, q.from), w.limit * q.to, q.from)
    BY <2>1, DivideIsNearest
  <2> QED
    BY <1>5, <2>2
<1>7. AddedRows(q) = {}
  BY <1>4, <1>5, WriteIsExplained
<1>8. /\ Balances[u] = b /\ Atomic!Ends(r, "done")
      /\ Balances' = [Balances EXCEPT ![u] = Held(e)]
      /\ BookedRows' = [BookedRows EXCEPT ![u] = @ \cup {Booked(row) : row \in AddedRows(q)}]
  BY WriteShows
<1>9. UNCHANGED BookedRows
  <2>1. {Booked(row) : row \in AddedRows(q)} = {}
    BY <1>7
  <2>2. BookedRows = [x \in Users |-> BookedRows[x]]
    BY DEF BookedRows
  <2> QED
    BY <1>8, <2>1, <2>2
<1>10. Held(e) = [units |-> e.units, limit |-> e.limit, currency |-> q.value,
                  changes |-> w.version + 1]
  BY <1>5 DEF Held
<1>11. Balances'[u].units = e.units /\ Balances'[u].limit = e.limit
  <2>1. Balances'[u] = Held(e)
    BY <1>1, <1>8, Shown
  <2> QED
    BY <1>10, <2>1
<1> HIDE DEF q, u, w, e, d, b
<1>12. d = Demands[r] /\ b = Balances[d.user]
  BY <1>2, <1>8 DEF d
<1>13. /\ Atomic!Nearest(Balances'[d.user].units, b.units * q.to, q.from)
       /\ Atomic!Nearest(Balances'[d.user].limit, b.limit * q.to, q.from)
       /\ Balances' = [Balances EXCEPT ![d.user] =
             [units |-> Balances'[d.user].units, limit |-> Balances'[d.user].limit,
              currency |-> d.value, changes |-> b.changes + 1]]
  BY <1>2, <1>3, <1>6, <1>8, <1>10, <1>11
<1>14. b.currency # d.value
  BY <1>2, <1>3, <1>4
<1> QED
  BY <1>2, <1>4, <1>8, <1>9, <1>12, <1>13, <1>14 DEF Atomic!Convert

LEMMA StepIsAtomic ==
    LedgerInv /\ [Next]_vars => [Atomic!Next]_<<Balances, BookedRows, Demands>>
<1> SUFFICES ASSUME LedgerInv, [Next]_vars
             PROVE  Atomic!Next \/ UNCHANGED <<Balances, BookedRows, Demands>>
  OBVIOUS
<1>1. CASE UNCHANGED <<wallet, rows, req>>
  BY <1>1 DEF Balances, BookedRows, Demands, Held, Booked, Demanded
<1>2. ASSUME NEW r \in Requests, Request(r)
      PROVE  Atomic!Next
  BY <1>2, RequestAsks DEF Atomic!Next
<1>3. ASSUME NEW r \in Requests, Advance(r)
      PROVE  Atomic!Next \/ UNCHANGED <<Balances, BookedRows, Demands>>
  <2>1. CASE Write(r)
    <3>1. Atomic!Mutate(r) \/ Atomic!Convert(r)
      BY <2>1, WriteMutates, WriteConverts
    <3> QED
      BY <3>1 DEF Atomic!Next
  <2>2. CASE \/ Refuse(r) \/ RefuseConversion(r) \/ DuplicateKey(r)
             \/ (CasConflict(r) /\ ~(req[r].tries < Attempts(req[r])))
    <3>1. Atomic!Fail(r) \/ Atomic!Converted(r)
      BY <2>2, UnwrittenEnds
    <3> QED
      BY <3>1 DEF Atomic!Next
  <2>3. CASE \/ Read(r) \/ ReadConversion(r) \/ TransientConflict(r)
             \/ (CasConflict(r) /\ req[r].tries < Attempts(req[r]))
    BY <2>3, UnseenStep
  <2> QED
    BY <1>3, <2>1, <2>2, <2>3 DEF Advance
<1> QED
  BY <1>1, <1>2, <1>3 DEF Next, SetRate, vars

LEMMA InitIsAtomic == Init => Atomic!Init
<1> SUFFICES ASSUME Init PROVE Atomic!Init
  OBVIOUS
<1>1. Balances = [u \in Users |-> [units |-> Start[u].units, limit |-> Start[u].limit,
                                   currency |-> Home[u], changes |-> 0]]
  BY DEF Init, Balances, Held
<1>2. BookedRows = [u \in Users |-> {}]
  BY DEF Init, BookedRows
<1>3. Demands = [r \in Requests |-> [at |-> "idle"]]
  BY DEF Init, Demands, Demanded, Idle
<1> QED
  BY <1>1, <1>2, <1>3 DEF Atomic!Init

\* Every variable keeps its type: no currency, rate or rounding takes a wallet out
\* of the integers.
THEOREM LedgerTypeCorrect == Spec => []LedgerType
<1>1. LedgerInv => LedgerType
  BY DEF LedgerInv
<1> QED
  BY <1>1, LedgerInitHasInv, LedgerNextKeepsInv, PTL DEF Spec

WithinLimit(w) == w.units + w.limit >= 0

\* Only a forced debit, a balance or a limit that an administrator sets takes a wallet
\* past its credit limit: a debit is covered, and a conversion rounds the units and the
\* limit the same way, so a debt within the limit stays within it.
OnlyForcedPassesLimit ==
    [][\A u \in Users : WithinLimit(wallet[u]) /\ ~WithinLimit(wallet'[u]) =>
          \E r \in Requests : /\ req[r].at = "write" /\ req'[r].at = "done"
                             /\ req[r].user = u
                             /\ req[r].kind \in {"FORCED", "BALANCE", "LIMIT"}]_vars

\* Whatever was read and retried before it, a call that commits leaves a wallet within
\* its limit if it was, unless an administrator asked for what does not
\* (runExactMutation, convertExactWalletCurrencyAtomic).
THEOREM LimitIsKept == Spec => OnlyForcedPassesLimit
<1>1. LedgerInv /\ [Next]_vars =>
         [\A u \in Users : WithinLimit(wallet[u]) /\ ~WithinLimit(wallet'[u]) =>
            \E r \in Requests : /\ req[r].at = "write" /\ req'[r].at = "done"
                               /\ req[r].user = u
                               /\ req[r].kind \in {"FORCED", "BALANCE", "LIMIT"}]_vars
  <2> SUFFICES ASSUME LedgerInv, Next, NEW u \in Users,
                      WithinLimit(wallet[u]), ~WithinLimit(wallet'[u])
               PROVE  \E r \in Requests :
                         /\ req[r].at = "write" /\ req'[r].at = "done"
                         /\ req[r].user = u
                         /\ req[r].kind \in {"FORCED", "BALANCE", "LIMIT"}
    BY DEF vars
  <2>1. PICK r \in Requests : Write(r)
    <3>1. wallet' # wallet
      OBVIOUS
    <3>2. ASSUME NEW x \in Requests, Request(x) PROVE wallet' = wallet
      BY <3>2 DEF Request, Call, DebitExactWalletAtomic, CreditExactWalletAtomic,
                  RefundExactWalletAtomic, SetExactWalletBalanceAtomic,
                  UpdateExactCreditLimitAtomic, ConvertExactWalletCurrencyAtomic
    <3>3. ASSUME NEW x \in Requests, Advance(x), ~Write(x) PROVE wallet' = wallet
      BY <3>3 DEF Advance, Refuse, Read, RefuseConversion, ReadConversion, DuplicateKey,
                  CasConflict, TransientConflict
    <3> QED
      BY <3>1, <3>2, <3>3 DEF Next, SetRate
  <2> DEFINE q == req[r]
             w == wallet[u]
             e == Effect(q, w)
  <2>2. /\ q \in Swaps /\ CallMeans(q) /\ q.at = "write" /\ req'[r].at = "done"
        /\ w \in Wallets /\ q.user = u /\ wallet'[u] = e
    <3>1. /\ q \in Swaps /\ CallMeans(q) /\ q.user \in Users /\ wallet[q.user] \in Wallets
          /\ wallet' = [wallet EXCEPT ![q.user] = Effect(q, wallet[q.user])]
          /\ q.at = "write"
      BY <2>1, WriteAppends DEF Write
    <3>2. req'[r].at = "done"
      BY <2>1 DEF Write, End, LedgerInv, LedgerType
    <3>3. DOMAIN wallet = Users
      BY DEF LedgerInv, LedgerType
    <3> QED
      BY <3>1, <3>2, <3>3
  <2>3. e.units = NewUnits(q, w) /\ e.limit = NewLimit(q, w)
    BY DEF Effect
  <2>4. w.units \in Int /\ w.limit \in Int /\ w.units + w.limit >= 0
    BY <2>2 DEF Wallets, WithinLimit
  <2>5. ~(NewUnits(q, w) + NewLimit(q, w) >= 0)
    BY <2>2, <2>3 DEF WithinLimit
  <2> HIDE DEF w, e
  <2>6. q.kind # "DEBIT"
    <3>1. SUFFICES ASSUME q.kind = "DEBIT" PROVE FALSE
      OBVIOUS
    <3>2. q.value \in Int /\ w.units + w.limit >= q.value
      BY <2>1, <2>2, <3>1, WriteAppends DEF CallMeans, w
    <3>3. NewUnits(q, w) = w.units - q.value /\ NewLimit(q, w) = w.limit
      BY <3>1 DEF NewUnits, NewLimit, Credits
    <3> QED
      BY <2>4, <2>5, <3>2, <3>3
  <2>7. q.kind \notin Credits
    <3>1. SUFFICES ASSUME q.kind \in Credits PROVE FALSE
      OBVIOUS
    <3>2. q.value \in Nat
      BY <2>2, <3>1 DEF CallMeans
    <3>3. NewUnits(q, w) = w.units + q.value /\ NewLimit(q, w) = w.limit
      BY <3>1 DEF NewUnits, NewLimit, Credits
    <3> QED
      BY <2>4, <2>5, <3>2, <3>3
  <2>8. q.kind # "CONVERT"
    <3>1. SUFFICES ASSUME q.kind = "CONVERT" PROVE FALSE
      OBVIOUS
    <3>2. q.from \in Nat \ {0} /\ q.to \in Nat \ {0}
      BY <2>2 DEF Swaps
    <3>3. NewUnits(q, w) = Convert(w.units, q.from, q.to)
          /\ NewLimit(q, w) = Convert(w.limit, q.from, q.to)
      BY <3>1 DEF NewUnits, NewLimit, Credits
    <3> QED
      BY <2>4, <2>5, <3>2, <3>3, ConversionKeepsCover
  <2> QED
    BY <2>2, <2>6, <2>7, <2>8 DEF Swaps, Kinds
<1> QED
  BY <1>1, LedgerInitHasInv, LedgerNextKeepsInv, PTL DEF Spec, OnlyForcedPassesLimit

\* The exact ledger implements the atomic one: each call takes effect at one instant,
\* on the wallet as it is then and together with its row, or not at all, whatever the
\* reads, retries and swaps of other calls do in between (runExactMutation,
\* convertExactWalletCurrencyAtomic).
THEOREM LedgerImplementsAtomic == Spec => LedgerIsAtomic
<1>1. Spec => []LedgerInv
  BY LedgerInitHasInv, LedgerNextKeepsInv, PTL DEF Spec
<1>2. Spec => [][Atomic!Next]_<<Balances, BookedRows, Demands>>
  BY <1>1, StepIsAtomic, PTL DEF Spec
<1> QED
  BY <1>2, InitIsAtomic DEF Spec, LedgerIsAtomic, Atomic!Spec, Atomic!vars

\* The rows of each wallet lead from its first units to its present ones: no
\* concurrent mutation, retry or conversion loses an update (runExactMutation);
\* and no sourceKey is booked twice, in one wallet or in two.
THEOREM RowsLeadToBalance == Spec => []LedgerAccounts
<1>1. LedgerInv => LedgerAccounts
  BY DEF LedgerInv
<1> QED
  BY <1>1, LedgerInitHasInv, LedgerNextKeepsInv, PTL DEF Spec

\* Every amount is in the currency the wallet had when it was applied, and the
\* mirror is never left in another one (expectedCurrency).
THEOREM AmountsInTheirCurrency == Spec => []Denominated
<1>1. LedgerInv => Denominated
  BY DEF LedgerInv
<1> QED
  BY <1>1, LedgerInitHasInv, LedgerNextKeepsInv, PTL DEF Spec

\* An unforced debit commits only on a wallet that has the funds then.
THEOREM DebitsAreCovered == Spec => DebitsCovered
<1>1. LedgerInv /\ [Next]_vars =>
         [\A r \in Requests :
            (req[r].at = "write" /\ req[r].kind = "DEBIT" /\ req'[r].at = "done")
               => LET w == wallet[req[r].user] IN w.units + w.limit >= req[r].value]_vars
  <2> SUFFICES ASSUME LedgerInv, Next, NEW r \in Requests,
                      req[r].at = "write", req[r].kind = "DEBIT", req'[r].at = "done"
               PROVE  wallet[req[r].user].units + wallet[req[r].user].limit >= req[r].value
    BY DEF vars
  <2>1. req[r] \in Swaps /\ DOMAIN req = Requests
    BY AtReadOrWrite DEF LedgerInv, LedgerType
  <2>2. Write(r)
    <3>1. ~SetRate
      BY DEF SetRate
    <3>2. ASSUME NEW x \in Requests, Request(x) PROVE FALSE
      <4>1. req[x].at = "idle" /\ \E q : req' = [req EXCEPT ![x] = q]
        BY <3>2 DEF Request, Call, DebitExactWalletAtomic, CreditExactWalletAtomic,
                    RefundExactWalletAtomic, SetExactWalletBalanceAtomic,
                    UpdateExactCreditLimitAtomic, ConvertExactWalletCurrencyAtomic
      <4> QED
        BY <2>1, <4>1
    <3>3. ASSUME NEW x \in Requests, Advance(x) PROVE Write(r)
      <4>1. x = r
        BY <2>1, <3>3 DEF Advance, End, Refuse, Read, RefuseConversion, ReadConversion, Write,
                          DuplicateKey, CasConflict, TransientConflict
      <4> QED
        <5>1. ~(Refuse(r) \/ Read(r) \/ RefuseConversion(r) \/ ReadConversion(r))
          BY DEF Refuse, Read, RefuseConversion, ReadConversion, Reading
        <5>2. ~(DuplicateKey(r) \/ CasConflict(r) \/ TransientConflict(r))
          BY <2>1 DEF DuplicateKey, CasConflict, TransientConflict, End, Swaps
        <5> QED
          BY <3>3, <4>1, <5>1, <5>2 DEF Advance
    <3> QED
      BY <3>1, <3>2, <3>3 DEF Next
  <2> QED
    BY <2>2, WriteAppends DEF CallMeans, Wallets
<1> QED
  BY <1>1, LedgerInitHasInv, LedgerNextKeepsInv, PTL DEF Spec, DebitsCovered

-----------------------------------------------------------------------------
(* WalletLedger.  A function that books in one update leaves a row to come *)
(* (`Owing'), and one that reads first writes over what it has not seen;   *)
(* what the rows to come add up to moves with the task that moves.         *)

UserDocs == [balance : Int, limit : Int, used : Int, currency : Coins]

Loads == {"forcedDebit", "addFunds", "deductFunds", "setBalance", "creditLimit", "currency"}

Rows == [at : {"row", "lost"}, user : Customers, change : Int]
Reads == [at : {"loaded"}, op : Loads, user : Customers, amount : Int \cup Coins, doc : UserDocs]
Bulks == [at : {"bulk", "bulkRow"}, percent : Int, sign : Int, docs : [Customers -> UserDocs],
          user : Customers \cup {0}, change : Int, todo : SUBSET Customers]
TaskRecords == [at : {"idle", "done"}] \cup Rows \cup Reads \cup Bulks

TaskMeans(c) ==
    /\ c \in TaskRecords
    /\ c.at = "loaded" => c.amount \in IF c.op = "currency" THEN Coins ELSE Int
    /\ c.at = "bulkRow" => c.user \in Customers

LegacyType ==
    /\ user \in [Customers -> UserDocs]
    /\ booked \in [Customers -> Int]
    /\ DOMAIN task = Tasks
    /\ \A t \in Tasks : TaskMeans(task[t])

LegacyInv == LegacyType /\ LegacyAccounted

(***************************************************************************)
(* The sum of the rows to come is that of FiniteSums, and moves with the   *)
(* row of the task that moves.                                             *)
(***************************************************************************)
Owing == {"row", "bulkRow", "lost"}

\* What the row of task c will add to the rows of u.
Owes(c, u) == IF c.at \in Owing /\ c.user = u THEN c.change ELSE 0

OwingTo(c, u) == {t \in Tasks : c[t].at \in Owing /\ c[t].user = u}

Due(c, S) == Legacy!MapThenSumSet(LAMBDA t : c[t].change, S)

LEMMA DueIsSum ==
    ASSUME NEW c, NEW S, IsFiniteSet(S)
    PROVE  Due(c, S) = SumOver([t \in S |-> c[t].change], S)
<1> DEFINE h == [t \in S |-> c[t].change]
<1> DEFINE Rule(f) ==
        f = [s \in SUBSET S |-> IF s = {} THEN 0 ELSE c[Some(s)].change + f[s \ {Some(s)}]]
<1> DEFINE f == CHOOSE f : Rule(f)
<1>1. ASSUME NEW e PROVE Rule(e) <=> IsSum(e, h, S)
  <2>1. \A s \in SUBSET S : s # {} => h[Some(s)] = c[Some(s)].change
    BY SomeIsIn
  <2>2. [s \in SUBSET S |-> IF s = {} THEN 0 ELSE c[Some(s)].change + e[s \ {Some(s)}]]
         = [s \in SUBSET S |-> IF s = {} THEN 0 ELSE h[Some(s)] + e[s \ {Some(s)}]]
    BY <2>1
  <2> QED
    BY <2>2 DEF IsSum
<1>2. PICK e : IsSum(e, h, S) /\ SumOver(h, S) = e[S]
  BY SumIsDefined
<1>3. Rule(f)
  <2>1. \E g : Rule(g)
    BY <1>1, <1>2
  <2> QED
    BY <2>1
<1>4. Due(c, S) = f[S]
  BY DEF Due, Legacy!MapThenSumSet, Legacy!MapThenFoldSet, Some
<1>5. IsSum(f, h, S)
  BY <1>1, <1>3
<1> HIDE DEF f
<1> QED
  BY <1>2, <1>4, <1>5, SumIsUnique

\* c and d are the tasks before and after a step of t.
LEMMA DueMoves ==
    ASSUME NEW c, NEW d, NEW t \in Tasks, NEW u \in Customers,
           \A s \in Tasks : TaskMeans(c[s]) /\ TaskMeans(d[s]),
           \A s \in Tasks \ {t} : d[s] = c[s]
    PROVE  /\ Due(c, OwingTo(c, u)) \in Int
           /\ Due(d, OwingTo(d, u)) = Due(c, OwingTo(c, u)) + Owes(d[t], u) - Owes(c[t], u)
<1> DEFINE Rest == OwingTo(c, u) \ {t}
<1>1. Rest = OwingTo(d, u) \ {t}
  BY DEF OwingTo
<1>2. ASSUME NEW x, \A s \in Tasks : TaskMeans(x[s])
      PROVE  /\ IsFiniteSet(OwingTo(x, u)) /\ OwingTo(x, u) \subseteq Tasks
             /\ \A s \in OwingTo(x, u) : x[s].change \in Int
  <2>1. OwingTo(x, u) \subseteq Tasks
    BY DEF OwingTo
  <2>2. IsFiniteSet(OwingTo(x, u))
    BY <2>1, LegacyAssumption, FS_Subset
  <2>3. \A s \in OwingTo(x, u) : x[s].change \in Int
    BY <1>2 DEF OwingTo, Owing, TaskMeans, TaskRecords, Rows, Reads, Bulks
  <2> QED
    BY <2>1, <2>2, <2>3
<1>3. IsFiniteSet(Rest)
  BY <1>2, FS_Subset
<1> DEFINE Others(x) == SumOver([s \in Rest |-> x[s].change], Rest)
<1>4. ASSUME NEW x, \A s \in Tasks : TaskMeans(x[s]), OwingTo(x, u) \ {t} = Rest
      PROVE  Due(x, OwingTo(x, u)) = Owes(x[t], u) + Others(x) /\ Others(x) \in Int
  <2> DEFINE S == OwingTo(x, u)
  <2> DEFINE h == [s \in S |-> x[s].change]
  <2>1. Due(x, S) = SumOver(h, S) /\ IsFiniteSet(S) /\ \A s \in S : h[s] \in Int
    BY <1>2, <1>4, DueIsSum
  <2>2. SumOver([s \in Rest |-> x[s].change], Rest) = SumOver(h, Rest)
    <3>1. \A s \in Rest : [r \in Rest |-> x[r].change][s] = h[s]
      BY <1>4
    <3> HIDE DEF h
    <3> QED
      BY <3>1, <1>3, SumOfEquals
  <2>3. Others(x) \in Int
    <3>1. \A s \in Rest : h[s] \in Int
      BY <1>4, <2>1
    <3>2. SumOver(h, Rest) \in Int
      BY <3>1, <1>3, SumIsInteger
    <3> QED
      BY <2>2, <3>2
  <2>4. CASE t \in S
    <3>1. SumOver(h, S) = h[t] + SumOver(h, S \ {t})
      BY <2>1, <2>4, SumTakesAny
    <3>2. h[t] = x[t].change /\ Owes(x[t], u) = x[t].change
      BY <2>4 DEF OwingTo, Owes
    <3>3. S \ {t} = Rest
      BY <1>4
    <3> HIDE DEF h
    <3> QED
      BY <3>1, <3>2, <3>3, <2>1, <2>2, <2>3
  <2>5. CASE t \notin S
    <3>1. S = Rest
      BY <1>4, <2>5
    <3>2. Owes(x[t], u) = 0
      BY <2>5 DEF OwingTo, Owes
    <3> HIDE DEF h
    <3> QED
      BY <3>1, <3>2, <2>1, <2>2, <2>3
  <2> QED
    BY <2>4, <2>5
<1>5. Others(c) = Others(d)
  <2>1. \A s \in Rest : c[s].change = d[s].change
    BY DEF OwingTo
  <2>2. [s \in Rest |-> c[s].change] = [s \in Rest |-> d[s].change]
    BY <2>1
  <2> QED
    BY <2>2
<1>6. Owes(c[t], u) \in Int /\ Owes(d[t], u) \in Int
  BY DEF Owes, Owing, TaskMeans, TaskRecords, Rows, Reads, Bulks
<1>7. /\ Due(c, OwingTo(c, u)) = Owes(c[t], u) + Others(c)
      /\ Due(d, OwingTo(d, u)) = Owes(d[t], u) + Others(d)
      /\ Others(c) \in Int
  BY <1>1, <1>4
<1> HIDE DEF Others
<1> QED
  BY <1>5, <1>6, <1>7

(***************************************************************************)
(* The steps.                                                              *)
(***************************************************************************)
UsedOf(balance, limit) == Legacy!RecalculateCreditUsed(balance, limit)

LEMMA UsedOfInteger ==
    ASSUME NEW balance \in Int, NEW limit \in Int
    PROVE  UsedOf(balance, limit) \in Int
BY DEF UsedOf, Legacy!RecalculateCreditUsed, Legacy!Least

LEMMA RoundDivInteger ==
    ASSUME NEW n \in Int, NEW d \in Nat \ {0}
    PROVE  Legacy!RoundDiv(n, d) \in Int
<1>1. 2 * n + d \in Int /\ 2 * d \in Nat \ {0}
  OBVIOUS
<1>2. \A a \in Int, b \in Nat \ {0} : a \div b \in Int
  OBVIOUS
<1> QED
  BY <1>1, <1>2 DEF Legacy!RoundDiv

\* What the balance of u should be.
Accounted(u) ==
    /\ user[u].balance = Opening[u].balance + booked[u] + Due(task, OwingTo(task, u))
    /\ user[u].used = UsedOf(user[u].balance, user[u].limit)

LEMMA LegacyAccountedIs == LegacyAccounted <=> \A u \in Customers \ broken : Accounted(u)
BY DEF LegacyAccounted, Legacy!AccountedUnlessStale, Legacy!Balance, Legacy!Unbooked, Accounted,
       UsedOf, Due, OwingTo, Owing

\* The balance of each customer that is not written over moves with what the row of the
\* task in hand adds, or will.
LEMMA LegacyChange ==
    ASSUME LegacyType, \A u \in Customers \ broken : Accounted(u),
           NEW t \in Tasks, NEW next, TaskMeans(next),
           task' = [task EXCEPT ![t] = next],
           user' \in [Customers -> UserDocs], booked' \in [Customers -> Int],
           broken \subseteq broken',
           \A u \in Customers \ broken' :
              /\ user'[u].balance = user[u].balance + (booked'[u] - booked[u])
                                    + (Owes(next, u) - Owes(task[t], u))
              /\ user'[u].used = UsedOf(user'[u].balance, user'[u].limit)
    PROVE  LegacyType' /\ \A u \in Customers \ broken' : Accounted(u)'
<1>1. /\ DOMAIN task' = Tasks
      /\ task'[t] = next
      /\ \A s \in Tasks \ {t} : task'[s] = task[s]
  BY DEF LegacyType
<1>2. \A s \in Tasks : TaskMeans(task[s]) /\ TaskMeans(task'[s])
  BY <1>1 DEF LegacyType
<1>3. LegacyType'
  BY <1>1, <1>2 DEF LegacyType, TaskMeans
<1>4. ASSUME NEW u \in Customers \ broken' PROVE Accounted(u)'
  <2> DEFINE before == Due(task, OwingTo(task, u))
  <2> DEFINE after == Due(task', OwingTo(task', u))
  <2>1. /\ before \in Int
        /\ after = before + Owes(task'[t], u) - Owes(task[t], u)
    <3>1. u \in Customers
      OBVIOUS
    <3>2. \A s \in Tasks \ {t} : task'[s] = task[s]
      BY <1>1
    <3>3. \A s \in Tasks : TaskMeans(task[s]) /\ TaskMeans(task'[s])
      BY <1>2
    <3>4. /\ Due(task, OwingTo(task, u)) \in Int
          /\ Due(task', OwingTo(task', u)) =
                Due(task, OwingTo(task, u)) + Owes(task'[t], u) - Owes(task[t], u)
      BY ONLY <3>1, <3>2, <3>3, t \in Tasks, DueMoves
    <3> QED
      BY <3>4
  <2>0. Owes(task'[t], u) = Owes(next, u)
    BY <1>1
  <2>2. user[u].balance = Opening[u].balance + booked[u] + before
    BY <1>4 DEF Accounted
  <2>3. /\ Opening[u].balance \in Int /\ booked[u] \in Int /\ booked'[u] \in Int
        /\ Owes(next, u) \in Int /\ Owes(task[t], u) \in Int
    BY <1>2, LegacyAssumption
       DEF LegacyType, Owes, Owing, TaskMeans, TaskRecords, Rows, Reads, Bulks
  <2>4. user'[u].balance = Opening[u].balance + booked'[u] + after
    <3> HIDE DEF before, after
    <3> QED
      BY <1>4, <2>0, <2>1, <2>2, <2>3
  <2> QED
    BY <1>4, <2>4 DEF Accounted
<1> QED
  BY <1>3, <1>4

LEMMA LegacyInit == Legacy!Init => LegacyInv
<1> SUFFICES ASSUME Legacy!Init PROVE LegacyInv
  OBVIOUS
<1>1. ASSUME NEW u \in Customers
      PROVE  /\ user[u] \in UserDocs /\ booked[u] = 0
             /\ user[u].balance = Opening[u].balance
             /\ user[u].used = UsedOf(user[u].balance, user[u].limit)
  <2> DEFINE doc == [balance |-> 0, limit |-> Opening[u].limit, used |-> 0,
                     currency |-> Opening[u].currency]
  <2>1. /\ Opening[u].balance \in Int /\ Opening[u].limit \in Int
        /\ Opening[u].currency \in Coins
    BY LegacyAssumption
  <2>2. user[u] = [doc EXCEPT !.balance = Opening[u].balance,
                              !.used = UsedOf(Opening[u].balance, Opening[u].limit)]
    BY DEF Legacy!Init, Legacy!WithBalance, UsedOf
  <2>3. UsedOf(Opening[u].balance, Opening[u].limit) \in Int
    BY <2>1, UsedOfInteger
  <2> QED
    BY <2>1, <2>2, <2>3 DEF UserDocs, Legacy!Init
<1>2. LegacyType
  <2>1. TaskMeans([at |-> "idle"])
    BY DEF TaskMeans, TaskRecords
  <2>2. user = [u \in Customers |-> user[u]] /\ booked = [u \in Customers |-> 0]
    BY DEF Legacy!Init
  <2> QED
    BY <1>1, <2>1, <2>2 DEF Legacy!Init, LegacyType
<1>3. ASSUME NEW u \in Customers PROVE Accounted(u)
  <2>1. OwingTo(task, u) = {}
    BY DEF Legacy!Init, OwingTo, Owing
  <2>2. Due(task, {}) = 0
    BY DueIsSum, SumOfNone, FS_EmptySet
  <2> QED
    BY <1>1, <2>1, <2>2, LegacyAssumption DEF Accounted
<1> QED
  BY <1>2, <1>3, LegacyAccountedIs DEF LegacyInv

LEMMA LegacyInvMoves ==
    ASSUME LegacyType', \A u \in Customers \ broken' : Accounted(u)'
    PROVE  LegacyInv'
<1>1. LegacyAccounted'
  BY DEF LegacyAccounted, Legacy!AccountedUnlessStale, Legacy!Balance, Legacy!Unbooked,
         Accounted, UsedOf, Due, OwingTo, Owing
<1> QED
  BY <1>1 DEF LegacyInv

\* A step that changes no document and leaves the rows to come.
LEMMA LegacyTaskMoves ==
    ASSUME LegacyInv, NEW t \in Tasks, NEW next, TaskMeans(next),
           task' = [task EXCEPT ![t] = next], UNCHANGED <<user, booked, broken>>,
           \A u \in Customers : Owes(next, u) = Owes(task[t], u)
    PROVE  LegacyInv'
<1>1. \A u \in Customers \ broken : Accounted(u)
  BY LegacyAccountedIs DEF LegacyInv
<1>2. LegacyType
  BY DEF LegacyInv
<1>3. \A u \in Customers : Owes(task[t], u) \in Int
  BY <1>2 DEF LegacyType, Owes, Owing, TaskMeans, TaskRecords, Rows, Reads, Bulks
<1>4. ASSUME NEW u \in Customers \ broken'
      PROVE  /\ user'[u].balance = user[u].balance + (booked'[u] - booked[u])
                                   + (Owes(next, u) - Owes(task[t], u))
             /\ user'[u].used = UsedOf(user'[u].balance, user'[u].limit)
  BY <1>1, <1>2, <1>3 DEF LegacyType, UserDocs, Accounted
<1>5. /\ user' \in [Customers -> UserDocs] /\ booked' \in [Customers -> Int]
      /\ broken \subseteq broken'
  BY <1>2 DEF LegacyType
<1>6. LegacyType' /\ \A u \in Customers \ broken' : Accounted(u)'
  BY <1>1, <1>2, <1>4, <1>5, LegacyChange
<1> QED
  BY <1>6, LegacyInvMoves

\* A step that writes the document of w, for which it owes a row from then on.
LEMMA LegacyUserWritten ==
    ASSUME LegacyInv, NEW t \in Tasks, NEW next, TaskMeans(next),
           task' = [task EXCEPT ![t] = next],
           NEW w \in Customers, NEW doc \in UserDocs, user' = [user EXCEPT ![w] = doc],
           UNCHANGED booked, broken \subseteq broken', task[t].at \notin Owing,
           \A u \in Customers \ {w} : Owes(next, u) = 0,
           w \notin broken' => /\ doc.balance = user[w].balance + Owes(next, w)
                               /\ doc.used = UsedOf(doc.balance, doc.limit)
    PROVE  LegacyInv'
<1>1. \A u \in Customers \ broken : Accounted(u)
  BY LegacyAccountedIs DEF LegacyInv
<1>2. LegacyType
  BY DEF LegacyInv
<1>3. \A u \in Customers : Owes(task[t], u) = 0
  BY DEF Owes
<1>4. ASSUME NEW u \in Customers \ broken'
      PROVE  /\ user'[u].balance = user[u].balance + (booked'[u] - booked[u])
                                   + (Owes(next, u) - Owes(task[t], u))
             /\ user'[u].used = UsedOf(user'[u].balance, user'[u].limit)
  <2>1. Owes(next, u) \in Int
    BY DEF Owes, Owing, TaskMeans, TaskRecords, Rows, Reads, Bulks
  <2>2. user[u].balance \in Int /\ booked[u] \in Int /\ booked'[u] = booked[u]
    BY <1>2 DEF LegacyType, UserDocs
  <2>3. CASE u = w
    <3>1. user'[u] = doc
      BY <1>2, <2>3 DEF LegacyType
    <3> QED
      BY <1>3, <2>1, <2>2, <2>3, <3>1
  <2>4. CASE u # w
    <3>1. user'[u] = user[u]
      BY <1>2, <2>4 DEF LegacyType
    <3>2. Accounted(u)
      BY <1>1
    <3> QED
      BY <1>3, <2>1, <2>2, <2>4, <3>1, <3>2 DEF Accounted
  <2> QED
    BY <2>3, <2>4
<1>5. user' \in [Customers -> UserDocs] /\ booked' \in [Customers -> Int]
  BY <1>2 DEF LegacyType
<1>6. LegacyType' /\ \A u \in Customers \ broken' : Accounted(u)'
  BY <1>1, <1>2, <1>4, <1>5, LegacyChange
<1> QED
  BY <1>6, LegacyInvMoves

\* A step that writes the row it owes.
LEMMA LegacyRowWritten ==
    ASSUME LegacyInv, NEW t \in Tasks, NEW next, TaskMeans(next), next.at \notin Owing,
           task' = [task EXCEPT ![t] = next], task[t].at \in Owing,
           booked' = [booked EXCEPT ![task[t].user] = @ + task[t].change],
           UNCHANGED <<user, broken>>
    PROVE  LegacyInv'
<1>1. \A u \in Customers \ broken : Accounted(u)
  BY LegacyAccountedIs DEF LegacyInv
<1>2. LegacyType
  BY DEF LegacyInv
<1> DEFINE w == task[t].user
<1>3. w \in Customers /\ task[t].change \in Int
  BY <1>2 DEF LegacyType, Owing, TaskMeans, TaskRecords, Rows, Reads, Bulks
<1>4. /\ booked \in [Customers -> Int] /\ booked' \in [Customers -> Int]
      /\ booked'[w] = booked[w] + task[t].change
      /\ \A u \in Customers \ {w} : booked'[u] = booked[u]
  BY <1>2, <1>3 DEF LegacyType
<1>5. ASSUME NEW u \in Customers \ broken'
      PROVE  /\ user'[u].balance = user[u].balance + (booked'[u] - booked[u])
                                   + (Owes(next, u) - Owes(task[t], u))
             /\ user'[u].used = UsedOf(user'[u].balance, user'[u].limit)
  <2>1. user[u].balance \in Int /\ Accounted(u)
    BY <1>1, <1>2 DEF LegacyType, UserDocs
  <2>2. Owes(next, u) = 0 /\ Owes(task[t], u) = IF u = w THEN task[t].change ELSE 0
    BY DEF Owes
  <2>3. booked'[u] - booked[u] = IF u = w THEN task[t].change ELSE 0
    BY <1>3, <1>4
  <2> QED
    BY <1>3, <2>1, <2>2, <2>3 DEF Accounted
<1>6. user' \in [Customers -> UserDocs] /\ broken \subseteq broken'
  BY <1>2 DEF LegacyType
<1>7. LegacyType' /\ \A u \in Customers \ broken' : Accounted(u)'
  BY <1>1, <1>2, <1>4, <1>5, <1>6, LegacyChange
<1> QED
  BY <1>7, LegacyInvMoves

LEMMA WithBalanceIs ==
    ASSUME NEW doc \in UserDocs, NEW balance \in Int
    PROVE  /\ Legacy!WithBalance(doc, balance) \in UserDocs
           /\ Legacy!WithBalance(doc, balance).balance = balance
           /\ Legacy!WithBalance(doc, balance).limit = doc.limit
           /\ Legacy!WithBalance(doc, balance).used = UsedOf(balance, doc.limit)
<1>1. UsedOf(balance, doc.limit) \in Int
  BY UsedOfInteger DEF UserDocs
<1>2. Legacy!WithBalance(doc, balance) =
          [doc EXCEPT !.balance = balance, !.used = UsedOf(balance, doc.limit)]
  BY DEF Legacy!WithBalance, UsedOf
<1> QED
  BY <1>1, <1>2 DEF UserDocs

LEMMA LegacyAdds ==
    ASSUME LegacyInv, NEW t \in Tasks, NEW u \in Customers, NEW change \in Int,
           Legacy!Idle(t), Legacy!Add(t, u, change)
    PROVE  LegacyInv'
<1> DEFINE next == Legacy!RowOf(u, change)
<1> DEFINE doc == Legacy!WithBalance(user[u], user[u].balance + change)
<1>1. user \in [Customers -> UserDocs] /\ user[u] \in UserDocs /\ user[u].balance \in Int
  BY DEF LegacyInv, LegacyType, UserDocs
<1>2. user' = [user EXCEPT ![u] = doc] /\ task' = [task EXCEPT ![t] = next]
      /\ UNCHANGED <<booked, broken>>
  BY DEF Legacy!Add, Legacy!Goes
<1>3. doc \in UserDocs /\ doc.balance = user[u].balance + change
      /\ doc.used = UsedOf(doc.balance, doc.limit)
  <2>1. user[u].balance + change \in Int
    BY <1>1
  <2>2. /\ doc \in UserDocs /\ doc.balance = user[u].balance + change
        /\ doc.limit = user[u].limit
        /\ doc.used = UsedOf(user[u].balance + change, user[u].limit)
    BY <1>1, <2>1, WithBalanceIs
  <2> HIDE DEF doc
  <2> QED
    BY <2>2
<1>4. TaskMeans(next) /\ next.at = "row" /\ next.user = u /\ next.change = change
  BY DEF Legacy!RowOf, TaskMeans, TaskRecords, Rows
<1>5. Owes(next, u) = change /\ \A w \in Customers \ {u} : Owes(next, w) = 0
  BY <1>4 DEF Owes, Owing
<1>6. task[t].at \notin Owing
  BY DEF Legacy!Idle, Owing
<1> HIDE DEF next, doc
<1> QED
  BY <1>2, <1>3, <1>4, <1>5, <1>6, LegacyUserWritten

LEMMA LegacyLoads ==
    ASSUME LegacyInv, NEW t \in Tasks, NEW op \in Loads, NEW u \in Customers,
           NEW amount \in IF op = "currency" THEN Coins ELSE Int, Legacy!Load(t, op, u, amount)
    PROVE  LegacyInv'
<1> DEFINE next == [at |-> "loaded", op |-> op, user |-> u, amount |-> amount, doc |-> user[u]]
<1>1. user[u] \in UserDocs
  BY DEF LegacyInv, LegacyType
<1>2. amount \in Int \cup Coins
  OBVIOUS
<1>3. next \in Reads
  BY <1>1, <1>2 DEF Reads
<1>4. TaskMeans(next)
  BY <1>3 DEF TaskMeans, TaskRecords
<1>5. task' = [task EXCEPT ![t] = next] /\ UNCHANGED <<user, booked, broken>>
  BY DEF Legacy!Load, Legacy!Goes
<1>6. \A w \in Customers : Owes(next, w) = Owes(task[t], w)
  BY DEF Legacy!Load, Legacy!Idle, Owes, Owing
<1> HIDE DEF next
<1> QED
  BY <1>4, <1>5, <1>6, LegacyTaskMoves

\* $set of a balance computed from doc.
LEMMA StoreIs ==
    ASSUME LegacyInv, NEW u \in Customers, NEW doc \in UserDocs, NEW balance \in Int
    PROVE  /\ Legacy!Store(u, doc, balance) \in UserDocs
           /\ Legacy!Store(u, doc, balance).balance = balance
           /\ u \notin Legacy!Stale(u, doc) =>
                 /\ user[u] = doc
                 /\ Legacy!Store(u, doc, balance).used =
                        UsedOf(balance, Legacy!Store(u, doc, balance).limit)
<1>1. UsedOf(balance, doc.limit) \in Int
  BY UsedOfInteger DEF UserDocs
<1>2. Legacy!Store(u, doc, balance) =
          [user[u] EXCEPT !.balance = balance, !.used = UsedOf(balance, doc.limit)]
  BY DEF Legacy!Store, UsedOf
<1>3. user[u] \in UserDocs
  BY DEF LegacyInv, LegacyType
<1>4. u \notin Legacy!Stale(u, doc) => user[u] = doc
  BY DEF Legacy!Stale
<1> QED
  BY <1>1, <1>2, <1>3, <1>4 DEF UserDocs

LEMMA LegacyWritesBack ==
    ASSUME LegacyInv, NEW t \in Tasks, Legacy!WriteBack(t)
    PROVE  LegacyInv'
<1> DEFINE c == task[t]
<1> DEFINE balance == Legacy!Computed(c.op, c.doc, c.amount)
<1> DEFINE next == Legacy!RowOf(c.user, balance - c.doc.balance)
<1> DEFINE doc == Legacy!Store(c.user, c.doc, balance)
<1>1. /\ c.at = "loaded" /\ c.op \notin {"creditLimit", "currency"}
      /\ user' = [user EXCEPT ![c.user] = doc]
      /\ broken' = broken \cup Legacy!Stale(c.user, c.doc)
      /\ task' = [task EXCEPT ![t] = next]
      /\ UNCHANGED booked
  BY DEF Legacy!WriteBack, Legacy!Goes
<1>2. c.user \in Customers /\ c.doc \in UserDocs /\ c.op \in Loads /\ c.amount \in Int
  BY <1>1 DEF LegacyInv, LegacyType, TaskMeans, TaskRecords, Rows, Reads, Bulks
<1>3. c.doc.balance \in Int
  BY <1>2 DEF UserDocs
<1>4. balance \in Int
  BY <1>1, <1>2, <1>3 DEF Legacy!Computed, Loads
<1> HIDE DEF c, balance
<1>5. /\ doc \in UserDocs /\ doc.balance = balance
      /\ c.user \notin Legacy!Stale(c.user, c.doc) =>
            user[c.user] = c.doc /\ doc.used = UsedOf(balance, doc.limit)
  BY <1>2, <1>4, StoreIs
<1>6. /\ next.at = "row" /\ next.user = c.user /\ next.change = balance - c.doc.balance
      /\ next \in Rows
  BY <1>2, <1>3, <1>4 DEF Legacy!RowOf, Rows
<1>7. TaskMeans(next)
  BY <1>6 DEF TaskMeans, TaskRecords
<1>8. /\ Owes(next, c.user) = balance - c.doc.balance
      /\ \A w \in Customers \ {c.user} : Owes(next, w) = 0
  BY <1>6 DEF Owes, Owing
<1>9. task[t].at \notin Owing
  BY <1>1 DEF Owing, c
<1> HIDE DEF next, doc
<1>10. c.user \notin broken' => /\ doc.balance = user[c.user].balance + Owes(next, c.user)
                                /\ doc.used = UsedOf(doc.balance, doc.limit)
  BY <1>1, <1>3, <1>4, <1>5, <1>8
<1> QED
  BY <1>1, <1>2, <1>5, <1>7, <1>8, <1>9, <1>10, LegacyUserWritten

LEMMA LegacyLimitSaved ==
    ASSUME LegacyInv, NEW t \in Tasks, Legacy!SaveCreditLimit(t)
    PROVE  LegacyInv'
<1> DEFINE c == task[t]
<1> DEFINE next == [at |-> "done"]
<1> DEFINE doc == [user[c.user] EXCEPT !.limit = c.amount, !.used = UsedOf(c.doc.balance, c.amount)]
<1>1. /\ c.at = "loaded" /\ c.op = "creditLimit"
      /\ broken' = broken \cup Legacy!Stale(c.user, c.doc)
      /\ task' = [task EXCEPT ![t] = next]
      /\ UNCHANGED booked
  BY DEF Legacy!SaveCreditLimit, Legacy!Goes
<1>2. c.user \in Customers /\ c.doc \in UserDocs /\ c.amount \in Int
  BY <1>1 DEF LegacyInv, LegacyType, TaskMeans, TaskRecords, Rows, Reads, Bulks
<1>3. user \in [Customers -> UserDocs] /\ user[c.user] \in UserDocs
  BY <1>2 DEF LegacyInv, LegacyType
<1>4. user' = [user EXCEPT ![c.user] = doc]
  <2>1. user' = [user EXCEPT ![c.user].limit = c.amount,
                             ![c.user].used = UsedOf(c.doc.balance, c.amount)]
    BY DEF Legacy!SaveCreditLimit, UsedOf
  <2> HIDE DEF c
  <2> QED
    BY <2>1, <1>2, <1>3 DEF UserDocs
<1>5. UsedOf(c.doc.balance, c.amount) \in Int
  BY <1>2, UsedOfInteger DEF UserDocs
<1>6. /\ doc \in UserDocs /\ doc.balance = user[c.user].balance /\ doc.limit = c.amount
      /\ doc.used = UsedOf(c.doc.balance, c.amount) /\ doc.balance \in Int
  BY <1>2, <1>3, <1>5 DEF UserDocs
<1>7. c.user \notin broken' => user[c.user] = c.doc
  BY <1>1 DEF Legacy!Stale
<1>8. TaskMeans(next) /\ \A w \in Customers : Owes(next, w) = 0
  BY DEF TaskMeans, TaskRecords, Owes, Owing
<1>9. task[t].at \notin Owing
  BY <1>1 DEF Owing
<1> HIDE DEF c, doc, next
<1>10. c.user \notin broken' => /\ doc.balance = user[c.user].balance + Owes(next, c.user)
                                /\ doc.used = UsedOf(doc.balance, doc.limit)
  BY <1>2, <1>6, <1>7, <1>8
<1>11. broken \subseteq broken'
  BY <1>1
<1> QED
  BY <1>1, <1>2, <1>4, <1>6, <1>8, <1>9, <1>10, <1>11, LegacyUserWritten

LEMMA LegacyCurrencyUpdated ==
    ASSUME LegacyInv, NEW t \in Tasks, Legacy!UpdateUserCurrency(t)
    PROVE  LegacyInv'
<1> DEFINE c == task[t]
<1> DEFINE next == [at |-> "done"]
<1> DEFINE balance == Legacy!ConvertBalance(c.doc.balance, c.doc.currency, c.amount)
<1> DEFINE doc == [user[c.user] EXCEPT !.currency = c.amount, !.balance = balance]
<1>1. /\ c.at = "loaded" /\ c.op = "currency"
      /\ broken' = broken \cup {c.user}
      /\ task' = [task EXCEPT ![t] = next]
      /\ UNCHANGED booked
  BY DEF Legacy!UpdateUserCurrency, Legacy!Goes
<1>2. c.user \in Customers /\ c.doc \in UserDocs /\ c.amount \in Coins
  BY <1>1 DEF LegacyInv, LegacyType, TaskMeans, TaskRecords, Rows, Reads, Bulks
<1>3. user \in [Customers -> UserDocs] /\ user[c.user] \in UserDocs
  BY <1>2 DEF LegacyInv, LegacyType
<1>4. user' = [user EXCEPT ![c.user] = doc]
  <2>1. user' = [user EXCEPT ![c.user].currency = c.amount, ![c.user].balance = balance]
    BY DEF Legacy!UpdateUserCurrency
  <2> HIDE DEF c, balance
  <2> QED
    BY <2>1, <1>2, <1>3 DEF UserDocs
<1>5. balance \in Int
  <2>1. /\ c.doc.balance \in Int
        /\ PlatformRate[c.amount] \in Nat \ {0} /\ PlatformRate[c.doc.currency] \in Nat \ {0}
    BY <1>2, LegacyAssumption DEF UserDocs
  <2>2. \A m, n \in Int : m * n \in Int
    OBVIOUS
  <2>3. c.doc.balance * PlatformRate[c.amount] \in Int
    BY <2>1, <2>2
  <2> QED
    BY <2>1, <2>3, RoundDivInteger DEF Legacy!ConvertBalance
<1> HIDE DEF balance
<1>6. doc \in UserDocs
  BY <1>2, <1>3, <1>5 DEF UserDocs
<1>7. TaskMeans(next) /\ \A w \in Customers : Owes(next, w) = 0
  BY DEF TaskMeans, TaskRecords, Owes, Owing
<1>8. task[t].at \notin Owing /\ c.user \in broken' /\ broken \subseteq broken'
  BY <1>1 DEF Owing
<1> HIDE DEF c, doc, next
<1> QED
  BY <1>1, <1>2, <1>4, <1>6, <1>7, <1>8, LegacyUserWritten

\* A task of an adjustment for inflation, and its fields.
LEMMA BulkFields ==
    ASSUME LegacyInv, NEW t \in Tasks, task[t].at \in {"bulk", "bulkRow"}
    PROVE  /\ task[t] \in Bulks
           /\ task[t].docs \in [Customers -> UserDocs] /\ task[t].todo \subseteq Customers
           /\ task[t].percent \in Int /\ task[t].sign \in Int
           /\ task[t].at = "bulkRow" => task[t].user \in Customers /\ task[t].change \in Int
<1>1. task[t] \in Bulks
  BY DEF LegacyInv, LegacyType, TaskMeans, TaskRecords, Rows, Reads, Bulks
<1> QED
  BY <1>1 DEF LegacyInv, LegacyType, TaskMeans, Bulks

LEMMA LegacyDebtorsFound ==
    ASSUME LegacyInv, NEW t \in Tasks, NEW sign \in Int, Legacy!FindDebtors(t, sign)
    PROVE  LegacyInv'
<1>1. PICK percent \in Percents, coin \in Coins :
          Legacy!Goes(t, [at |-> "bulk", percent |-> percent, sign |-> sign, docs |-> user,
                          user |-> 0, change |-> 0,
                          todo |-> {u \in Customers : /\ user[u].balance < 0
                                                      /\ user[u].currency = coin}])
  BY DEF Legacy!FindDebtors
<1> DEFINE todo == {u \in Customers : user[u].balance < 0 /\ user[u].currency = coin}
<1> DEFINE next == [at |-> "bulk", percent |-> percent, sign |-> sign, docs |-> user,
                    user |-> 0, change |-> 0, todo |-> todo]
<1>2. task' = [task EXCEPT ![t] = next] /\ UNCHANGED <<user, booked, broken>>
  BY <1>1 DEF Legacy!FindDebtors, Legacy!Goes
<1>3. user \in [Customers -> UserDocs] /\ todo \in SUBSET Customers /\ percent \in Int
  BY <1>1, LegacyAssumption DEF LegacyInv, LegacyType
<1> HIDE DEF todo
<1>4. next \in Bulks
  BY <1>3 DEF Bulks
<1>5. TaskMeans(next)
  BY <1>4 DEF TaskMeans, TaskRecords
<1>6. \A w \in Customers : Owes(next, w) = Owes(task[t], w)
  BY DEF Legacy!FindDebtors, Legacy!Idle, Owes, Owing
<1> HIDE DEF next
<1> QED
  BY <1>2, <1>5, <1>6, LegacyTaskMoves

LEMMA LegacyDebtorAdjusted ==
    ASSUME LegacyInv, NEW t \in Tasks, Legacy!AdjustDebtor(t)
    PROVE  LegacyInv'
<1> DEFINE c == task[t]
<1>1. PICK u \in c.todo :
        LET balance == c.docs[u].balance + c.sign * Legacy!Adjustment(c, u)
        IN  /\ user' = [user EXCEPT ![u] = Legacy!Store(u, c.docs[u], balance)]
            /\ Legacy!Goes(t, [c EXCEPT !.at = "bulkRow", !.todo = @ \ {u}, !.user = u,
                                        !.change = balance - c.docs[u].balance])
            /\ broken' = broken \cup Legacy!Stale(u, c.docs[u])
  BY DEF Legacy!AdjustDebtor
<1>2. c.at = "bulk" /\ UNCHANGED booked
  BY DEF Legacy!AdjustDebtor
<1> DEFINE balance == c.docs[u].balance + c.sign * Legacy!Adjustment(c, u)
<1> DEFINE doc == Legacy!Store(u, c.docs[u], balance)
<1> DEFINE change == balance - c.docs[u].balance
<1> DEFINE next == [c EXCEPT !.at = "bulkRow", !.todo = @ \ {u}, !.user = u, !.change = change]
<1>3. /\ user' = [user EXCEPT ![u] = doc]
      /\ task' = [task EXCEPT ![t] = next]
      /\ broken' = broken \cup Legacy!Stale(u, c.docs[u])
  BY <1>1 DEF Legacy!Goes
<1>4. /\ c \in Bulks /\ c.docs \in [Customers -> UserDocs] /\ c.todo \subseteq Customers
      /\ c.percent \in Int /\ c.sign \in Int
  BY <1>2, BulkFields
<1>5. u \in Customers /\ c.docs[u] \in UserDocs /\ c.docs[u].balance \in Int
  BY <1>1, <1>4 DEF UserDocs
<1>6. balance \in Int /\ change \in Int
  <2>1. Legacy!Size(c.docs[u].balance) \in Int
    BY <1>5 DEF Legacy!Size
  <2>2. \A m, n \in Int : m * n \in Int
    OBVIOUS
  <2>3. Legacy!Adjustment(c, u) \in Int
    BY <1>4, <2>1, <2>2, RoundDivInteger DEF Legacy!Adjustment
  <2>4. c.sign * Legacy!Adjustment(c, u) \in Int
    BY <1>4, <2>2, <2>3
  <2> QED
    BY <1>5, <2>4
<1>7. balance = c.docs[u].balance + change
  BY <1>5, <1>6
<1> HIDE DEF balance
<1>8. /\ doc \in UserDocs /\ doc.balance = balance
      /\ u \notin Legacy!Stale(u, c.docs[u]) =>
            user[u] = c.docs[u] /\ doc.used = UsedOf(balance, doc.limit)
  BY <1>5, <1>6, StoreIs
<1> HIDE DEF change
<1>9. next \in Bulks /\ next.at = "bulkRow" /\ next.user = u /\ next.change = change
  BY <1>4, <1>5, <1>6 DEF Bulks
<1> HIDE DEF next, doc
<1>10. TaskMeans(next) /\ Owes(next, u) = change /\ \A w \in Customers \ {u} : Owes(next, w) = 0
  BY <1>5, <1>9 DEF TaskMeans, TaskRecords, Owes, Owing
<1>11. task[t].at \notin Owing /\ broken \subseteq broken'
  BY <1>2, <1>3 DEF Owing
<1>12. u \notin broken' => /\ doc.balance = user[u].balance + Owes(next, u)
                           /\ doc.used = UsedOf(doc.balance, doc.limit)
  BY <1>3, <1>7, <1>8, <1>10
<1> QED
  BY <1>2, <1>3, <1>5, <1>8, <1>10, <1>11, <1>12, LegacyUserWritten

LEMMA LegacyStep == LegacyInv /\ [Legacy!Next]_Legacy!vars => LegacyInv'
<1> SUFFICES ASSUME LegacyInv, [Legacy!Next]_Legacy!vars PROVE LegacyInv'
  OBVIOUS
<1>d. TaskMeans([at |-> "done"]) /\ [at |-> "done"].at \notin Owing
      /\ \A w : Owes([at |-> "done"], w) = 0
  BY DEF TaskMeans, TaskRecords, Owing, Owes
<1>s. Sums \subseteq Int /\ \A n \in Int : -n \in Int
  BY LegacyAssumption
<1>1. ASSUME NEW t \in Tasks,
             Legacy!DebitWalletAtomic(t) \/ Legacy!RefundWalletAtomic(t)
                \/ Legacy!CreditWalletDirect(t)
      PROVE  LegacyInv'
  <2>1. PICK u \in Customers, amount \in Sums :
            Legacy!Idle(t) /\ (Legacy!Add(t, u, -amount) \/ Legacy!Add(t, u, amount))
    BY <1>1 DEF Legacy!DebitWalletAtomic, Legacy!RefundWalletAtomic, Legacy!CreditWalletDirect
  <2>2. amount \in Int /\ -amount \in Int
    BY <2>1, <1>s
  <2> QED
    BY <2>1, <2>2, LegacyAdds
<1>2. ASSUME NEW t \in Tasks, Legacy!CreateTransactionRecord(t) PROVE LegacyInv'
  BY <1>2, <1>d, LegacyRowWritten DEF Legacy!CreateTransactionRecord, Legacy!Goes, Owing
<1>3. ASSUME NEW t \in Tasks,
             \/ Legacy!LoadForcedDebit(t) \/ Legacy!LoadAddFunds(t) \/ Legacy!LoadDeductFunds(t)
             \/ Legacy!LoadSetBalance(t) \/ Legacy!LoadCreditLimit(t) \/ Legacy!LoadCurrency(t)
      PROVE  LegacyInv'
  <2>1. PICK op \in Loads, u \in Customers, amount \in Sums \cup Coins :
            /\ amount \in IF op = "currency" THEN Coins ELSE Sums
            /\ Legacy!Load(t, op, u, amount)
    BY <1>3 DEF Legacy!LoadForcedDebit, Legacy!LoadAddFunds, Legacy!LoadDeductFunds,
       Legacy!LoadSetBalance, Legacy!LoadCreditLimit, Legacy!LoadCurrency, Loads
  <2>2. amount \in IF op = "currency" THEN Coins ELSE Int
    BY <2>1, <1>s
  <2> QED
    BY <2>1, <2>2, LegacyLoads
<1>4. ASSUME NEW t \in Tasks, Legacy!BookAdjustment(t) PROVE LegacyInv'
  <2> DEFINE next == [task[t] EXCEPT !.at = "bulk"]
  <2>1. /\ task[t].at = "bulkRow" /\ task' = [task EXCEPT ![t] = next]
        /\ booked' = [booked EXCEPT ![task[t].user] = @ + task[t].change]
        /\ UNCHANGED <<user, broken>>
    BY <1>4 DEF Legacy!BookAdjustment, Legacy!Goes
  <2>2. task[t] \in Bulks
    BY <2>1, BulkFields
  <2>3. next \in Bulks /\ next.at = "bulk"
    BY <2>2 DEF Bulks
  <2>4. TaskMeans(next) /\ next.at \notin Owing /\ task[t].at \in Owing
    BY <2>1, <2>3 DEF TaskMeans, TaskRecords, Owing
  <2> HIDE DEF next
  <2> QED
    BY <2>1, <2>4, LegacyRowWritten
<1>5. ASSUME NEW t \in Tasks, Legacy!EndBulk(t) PROVE LegacyInv'
  <2>1. /\ task' = [task EXCEPT ![t] = [at |-> "done"]] /\ UNCHANGED <<user, booked, broken>>
        /\ task[t].at = "bulk"
    BY <1>5 DEF Legacy!EndBulk, Legacy!Goes
  <2>2. \A w \in Customers : Owes(task[t], w) = 0
    BY <2>1 DEF Owes, Owing
  <2> QED
    BY <1>d, <2>1, <2>2, LegacyTaskMoves
<1>6. ASSUME NEW t \in Tasks, Legacy!Crash(t) PROVE LegacyInv'
  <2> DEFINE lost == [at |-> "lost", user |-> task[t].user, change |-> task[t].change]
  <2>1. /\ task[t].at \in {"row", "loaded", "bulk", "bulkRow"}
        /\ task' = [task EXCEPT ![t] = IF task[t].at \in {"row", "bulkRow"} THEN lost
                                       ELSE [at |-> "done"]]
        /\ UNCHANGED <<user, booked, broken>>
    BY <1>6 DEF Legacy!Crash, Legacy!Goes
  <2>2. CASE task[t].at \in {"row", "bulkRow"}
    <3>1. task[t].user \in Customers /\ task[t].change \in Int
      BY <2>2 DEF LegacyInv, LegacyType, TaskMeans, TaskRecords, Rows, Reads, Bulks
    <3>2. lost \in Rows
      BY <3>1 DEF Rows
    <3>3. TaskMeans(lost) /\ \A w \in Customers : Owes(lost, w) = Owes(task[t], w)
      BY <2>2, <3>2 DEF TaskMeans, TaskRecords, Owes, Owing
    <3>4. task' = [task EXCEPT ![t] = lost]
      BY <2>1, <2>2
    <3> HIDE DEF lost
    <3> QED
      BY <2>1, <3>3, <3>4, LegacyTaskMoves
  <2>3. CASE task[t].at \in {"loaded", "bulk"}
    <3>1. task' = [task EXCEPT ![t] = [at |-> "done"]]
      BY <2>1, <2>3
    <3>2. \A w \in Customers : Owes(task[t], w) = 0
      BY <2>3 DEF Owes, Owing
    <3> QED
      BY <1>d, <2>1, <3>1, <3>2, LegacyTaskMoves
  <2> QED
    BY <2>1, <2>2, <2>3
<1>7. ASSUME NEW t \in Tasks, Legacy!AdjustForInflation(t) \/ Legacy!AdjustForDeflation(t)
      PROVE  LegacyInv'
  BY <1>7, LegacyDebtorsFound DEF Legacy!AdjustForInflation, Legacy!AdjustForDeflation
<1>8. CASE UNCHANGED Legacy!vars
  <2>1. UNCHANGED <<user, booked, task, broken>>
    BY <1>8 DEF Legacy!vars
  <2>2. LegacyType'
    BY <2>1 DEF LegacyInv, LegacyType, TaskMeans
  <2>3. \A u \in Customers \ broken : Accounted(u)
    BY LegacyAccountedIs DEF LegacyInv
  <2>4. \A u \in Customers \ broken' : Accounted(u)'
    BY <2>1, <2>3 DEF Accounted, OwingTo
  <2> QED
    BY <2>2, <2>4, LegacyInvMoves
<1> QED
  BY <1>1, <1>2, <1>3, <1>4, <1>5, <1>6, <1>7, <1>8, LegacyWritesBack, LegacyLimitSaved,
     LegacyCurrencyUpdated, LegacyDebtorAdjusted DEF Legacy!Next

\* The theorem of AccountedUnlessStale for the legacy ledger (wallet.service,
\* admin.wallet.service): for any number of customers and calls, crashes between a change
\* and its row included, the balance is what the rows and those still to come add up to,
\* unless a function that read first wrote over a change it had not seen.
THEOREM RowsAccountForBalance == Legacy!Spec => []LegacyAccounted
<1>1. LegacyInv => LegacyAccounted
  BY DEF LegacyInv
<1> QED
  BY LegacyInit, LegacyStep, <1>1, PTL DEF Legacy!Spec

-----------------------------------------------------------------------------
(* CurrencyRates: what the cache holds was stored when it was read.        *)

(***************************************************************************)
(* The currencies and their cache (CurrencyRates).                         *)
(***************************************************************************)

RateValues == PlatformRates \cup {1}

StoredDocs == [exists : {TRUE}, rate : RateValues, market : RateValues, active : BOOLEAN]

Writes == {"saveRate", "saveStatus", "delete", "switch"}

RateCalls ==
    [at : {"idle", "done"}]
    \cup [at : {"found"}, code : Codes, doc : StoredDocs, overlapped : BOOLEAN]
    \cup [at : {"saveRate"}, code : Codes, value : PlatformRates]
    \cup [at : {"saveStatus"}, code : Codes, value : BOOLEAN]
    \cup [at : {"delete", "switch"}, code : Codes, value : {0}]
    \cup [at : {"invalidate"}, code : Codes]

CacheEntries ==
    {Rate!Empty} \cup [cached : {TRUE}, doc : StoredDocs, overlapped : BOOLEAN]

RatesTypeOK ==
    /\ currency \in [Codes -> StoredDocs \cup {Rate!Missing}]
    /\ call \in [Calls -> RateCalls]
    /\ cache \in [Codes -> CacheEntries]

\* The stored document has the rate and the status of doc.
Agrees(c, doc) ==
    /\ currency[c].exists
    /\ currency[c].rate = doc.rate
    /\ currency[c].active = doc.active

\* A conversion that no write overlapped holds what is stored.
FoundIsStored ==
    \A k \in Calls : call[k].at = "found" /\ ~call[k].overlapped => Agrees(call[k].code, call[k].doc)

InvalidationDue(c) == \E k \in Calls : call[k].at = "invalidate" /\ call[k].code = c

CacheIsStored ==
    \A c \in Codes : cache[c].cached /\ ~cache[c].overlapped
                        => Agrees(c, cache[c].doc) \/ InvalidationDue(c)

RatesInv == RatesTypeOK /\ FoundIsStored /\ CacheIsStored

LEMMA RatesInit == Rate!Init => RatesInv
<1> SUFFICES ASSUME Rate!Init PROVE RatesInv
    OBVIOUS
<1>1. RatesTypeOK
  <2>1. Rate!Doc(1, 1, TRUE) \in StoredDocs
    BY DEF Rate!Doc, StoredDocs, RateValues
  <2>2. [at |-> "idle"] \in RateCalls
    BY DEF RateCalls
  <2> QED
    BY <2>1, <2>2 DEF Rate!Init, RatesTypeOK, CacheEntries
<1>2. \A k \in Calls : call[k].at = "idle"
  BY DEF Rate!Init
<1>3. \A c \in Codes : ~cache[c].cached
  BY DEF Rate!Init, Rate!Empty
<1> QED
  BY <1>1, <1>2, <1>3 DEF RatesInv, FoundIsStored, CacheIsStored

\* Stored rates and status stay, no conversion begins, no entry is made, and an
\* invalidation is forgotten only with the entry.
LEMMA AgreementStays ==
    ASSUME RatesInv, RatesTypeOK',
           \A c \in Codes, doc \in StoredDocs : Agrees(c, doc) => Agrees(c, doc)',
           \A k \in Calls : call'[k].at = "found" => call'[k] = call[k],
           \A c \in Codes : cache'[c].cached => cache'[c] = cache[c],
           \A c \in Codes : InvalidationDue(c) /\ cache'[c].cached => InvalidationDue(c)'
    PROVE  RatesInv'
<1>1. FoundIsStored'
  <2> SUFFICES ASSUME NEW k \in Calls, call'[k].at = "found", ~call'[k].overlapped
               PROVE  Agrees(call[k].code, call[k].doc)'
    BY DEF FoundIsStored
  <2>1. call'[k] = call[k]
    OBVIOUS
  <2>2. call[k].code \in Codes /\ call[k].doc \in StoredDocs
    BY <2>1 DEF RatesInv, RatesTypeOK, RateCalls
  <2>3. Agrees(call[k].code, call[k].doc)
    BY <2>1 DEF RatesInv, FoundIsStored
  <2>4. Agrees(call[k].code, call[k].doc)'
    BY <2>1, <2>2, <2>3 DEF Agrees
  <2> QED
    BY <2>4
<1>2. CacheIsStored'
  <2> SUFFICES ASSUME NEW c \in Codes, cache'[c].cached, ~cache'[c].overlapped
               PROVE  Agrees(c, cache[c].doc)' \/ InvalidationDue(c)'
    BY DEF CacheIsStored
  <2>1. cache'[c] = cache[c]
    OBVIOUS
  <2>2. cache[c].doc \in StoredDocs
    <3>1. cache[c] \in CacheEntries /\ cache[c] # Rate!Empty
      BY <2>1 DEF RatesInv, RatesTypeOK, Rate!Empty
    <3> QED
      BY <3>1 DEF CacheEntries
  <2>3. Agrees(c, cache[c].doc) \/ InvalidationDue(c)
    BY <2>1 DEF RatesInv, CacheIsStored
  <2> QED
    BY <2>1, <2>2, <2>3 DEF Agrees
<1> QED
  BY <1>1, <1>2 DEF RatesInv

LEMMA OnlyCallMoves ==
    ASSUME RatesInv, NEW k \in Calls, NEW next \in RateCalls,
           next.at # "found", call[k].at # "invalidate",
           Rate!Goes(k, next), UNCHANGED <<currency, cache>>
    PROVE  RatesInv'
<1>1. call \in [Calls -> RateCalls] /\ call' = [call EXCEPT ![k] = next]
  BY DEF Rate!Goes, RatesInv, RatesTypeOK
<1>2. /\ call'[k] = next
      /\ \A j \in Calls \ {k} : call'[j] = call[j]
      /\ call' \in [Calls -> RateCalls]
  BY <1>1
<1>3. RatesTypeOK'
  BY <1>2 DEF RatesInv, RatesTypeOK
<1>4. \A j \in Calls : call'[j].at = "found" => call'[j] = call[j]
  BY <1>2
<1>5. \A c \in Codes : InvalidationDue(c) => InvalidationDue(c)'
  BY <1>2 DEF InvalidationDue
<1>6. \A c \in Codes, doc \in StoredDocs : Agrees(c, doc) => Agrees(c, doc)'
  BY DEF Agrees
<1> QED
  BY <1>3, <1>4, <1>5, <1>6, AgreementStays

\* A market rate or a missing currency is written: no stored rate or status changes.
LEMMA OtherDocumentsWritten ==
    ASSUME RatesInv, NEW c \in Codes, NEW doc \in StoredDocs,
           currency' = [currency EXCEPT ![c] = doc],
           currency[c].exists => doc.rate = currency[c].rate /\ doc.active = currency[c].active
    PROVE  /\ currency' \in [Codes -> StoredDocs \cup {Rate!Missing}]
           /\ \A d \in Codes, old \in StoredDocs : Agrees(d, old) => Agrees(d, old)'
<1>1. currency \in [Codes -> StoredDocs \cup {Rate!Missing}]
  BY DEF RatesInv, RatesTypeOK
<1>2. currency' \in [Codes -> StoredDocs \cup {Rate!Missing}]
  BY <1>1
<1>3. /\ currency'[c] = doc
      /\ \A d \in Codes \ {c} : currency'[d] = currency[d]
  BY <1>1
<1>4. doc.exists
  BY DEF StoredDocs
<1>5. \A d \in Codes, old \in StoredDocs : Agrees(d, old) => Agrees(d, old)'
  BY <1>3, <1>4 DEF Agrees
<1> QED
  BY <1>2, <1>5

\* The calls stand still and entries are at most forgotten.
LEMMA OnlyEntriesGo ==
    ASSUME RatesInv, UNCHANGED call,
           currency' \in [Codes -> StoredDocs \cup {Rate!Missing}],
           \A c \in Codes, doc \in StoredDocs : Agrees(c, doc) => Agrees(c, doc)',
           NEW f, cache' = [cache EXCEPT ![f] = Rate!Empty] \/ cache' = cache
    PROVE  RatesInv'
<1>1. Rate!Empty \in CacheEntries /\ ~Rate!Empty.cached
  BY DEF CacheEntries, Rate!Empty
<1>2. cache \in [Codes -> CacheEntries] /\ call \in [Calls -> RateCalls]
  BY DEF RatesInv, RatesTypeOK
<1>3. /\ cache' \in [Codes -> CacheEntries]
      /\ \A c \in Codes : cache'[c].cached => cache'[c] = cache[c]
  BY <1>1, <1>2
<1>4. RatesTypeOK'
  BY <1>2, <1>3 DEF RatesTypeOK
<1>5. \A c \in Codes : InvalidationDue(c) => InvalidationDue(c)'
  BY DEF InvalidationDue
<1> QED
  BY <1>3, <1>4, <1>5, AgreementStays

LEMMA RatesStep == RatesInv /\ [Rate!Next]_Rate!vars => RatesInv'
<1> SUFFICES ASSUME RatesInv, [Rate!Next]_Rate!vars PROVE RatesInv'
    OBVIOUS
<1> USE DEF RatesInv
<1>t. /\ currency \in [Codes -> StoredDocs \cup {Rate!Missing}]
      /\ call \in [Calls -> RateCalls]
      /\ cache \in [Codes -> CacheEntries]
  BY DEF RatesTypeOK
<1>d. [at |-> "done"] \in RateCalls /\ [at |-> "done"].at = "done"
  BY DEF RateCalls
<1>e. Rate!Empty \in CacheEntries /\ ~Rate!Empty.cached
  BY DEF CacheEntries, Rate!Empty
<1>1. ASSUME NEW k \in Calls, Rate!Hit(k) PROVE RatesInv'
  BY <1>1, <1>d, OnlyCallMoves DEF Rate!Hit, Rate!Ended
<1>2. ASSUME NEW k \in Calls, Rate!FindCurrency(k) PROVE RatesInv'
  <2>1. PICK c \in Codes \ {USD} :
          IF Rate!Exists(c) /\ currency[c].active
          THEN Rate!Goes(k, [at |-> "found", code |-> c, doc |-> currency[c],
                             overlapped |-> FALSE])
          ELSE Rate!Ended(k)
    BY <1>2 DEF Rate!FindCurrency
  <2>2. UNCHANGED <<currency, cache>> /\ call[k].at = "idle"
    BY <1>2 DEF Rate!FindCurrency
  <2>3. CASE ~(Rate!Exists(c) /\ currency[c].active)
    BY <2>1, <2>2, <2>3, <1>d, OnlyCallMoves DEF Rate!Ended
  <2>4. CASE Rate!Exists(c) /\ currency[c].active
    <3> DEFINE next == [at |-> "found", code |-> c, doc |-> currency[c], overlapped |-> FALSE]
    <3>1. currency[c] \in StoredDocs
      BY <1>t, <2>4 DEF Rate!Exists, Rate!Missing
    <3>2. next \in RateCalls
      BY <3>1 DEF RateCalls
    <3>3. /\ call'[k] = next
          /\ \A j \in Calls \ {k} : call'[j] = call[j]
          /\ call' \in [Calls -> RateCalls]
      BY <2>1, <2>4, <3>2, <1>t DEF Rate!Goes
    <3>4. RatesTypeOK'
      BY <3>3, <2>2 DEF RatesTypeOK
    <3>5. Agrees(c, currency[c])
      BY <2>4 DEF Agrees, Rate!Exists
    <3>6. FoundIsStored'
      BY <3>3, <3>5, <2>2 DEF FoundIsStored, Agrees
    <3>7. \A d \in Codes : InvalidationDue(d) => InvalidationDue(d)'
      BY <3>3, <2>2 DEF InvalidationDue
    <3>8. CacheIsStored'
      BY <3>7, <2>2 DEF CacheIsStored, Agrees
    <3> QED
      BY <3>4, <3>6, <3>8
  <2> QED
    BY <2>3, <2>4
<1>3. ASSUME NEW k \in Calls, Rate!FillCache(k) PROVE RatesInv'
  <2>1. /\ call[k].at = "found"
        /\ Rate!Goes(k, [at |-> "done"])
        /\ UNCHANGED currency
    BY <1>3 DEF Rate!FillCache, Rate!Ended
  <2>2. call[k] \in [at : {"found"}, code : Codes, doc : StoredDocs, overlapped : BOOLEAN]
    BY <1>t, <2>1 DEF RateCalls
  <2> DEFINE c == call[k].code
  <2> DEFINE entry == [cached |-> TRUE, doc |-> call[k].doc, overlapped |-> call[k].overlapped]
  <2>3. cache' = [cache EXCEPT ![c] = entry]
    BY <1>3 DEF Rate!FillCache
  <2>4. c \in Codes /\ entry \in CacheEntries
    BY <2>2 DEF CacheEntries
  <2>5. /\ call'[k] = [at |-> "done"]
        /\ \A j \in Calls \ {k} : call'[j] = call[j]
        /\ call' \in [Calls -> RateCalls]
    BY <2>1, <1>t, <1>d DEF Rate!Goes
  <2>6. /\ cache'[c] = entry
        /\ \A d \in Codes \ {c} : cache'[d] = cache[d]
        /\ cache' \in [Codes -> CacheEntries]
    BY <2>3, <2>4, <1>t
  <2>7. RatesTypeOK'
    BY <2>1, <2>5, <2>6, <1>t DEF RatesTypeOK
  <2>8. FoundIsStored'
    BY <2>1, <2>5 DEF FoundIsStored, Agrees
  <2>9. \A d \in Codes : InvalidationDue(d) => InvalidationDue(d)'
    BY <2>1, <2>5 DEF InvalidationDue
  <2>10. ~entry.overlapped => Agrees(c, entry.doc)
    BY <2>1 DEF FoundIsStored
  <2>11. CacheIsStored'
    BY <2>1, <2>4, <2>6, <2>9, <2>10 DEF CacheIsStored, Agrees
  <2> QED
    BY <2>7, <2>8, <2>11
<1>4. ASSUME NEW k \in Calls, NEW c \in Codes, NEW what \in Writes, NEW value,
             [at |-> what, code |-> c, value |-> value] \in RateCalls,
             Rate!Request(k, what, c, value)
      PROVE  RatesInv'
  <2>1. [at |-> what, code |-> c, value |-> value].at # "found"
    BY <1>4 DEF Writes
  <2> QED
    BY <1>4, <2>1, OnlyCallMoves DEF Rate!Request
<1>5. ASSUME NEW k \in Calls, Rate!UpdateCurrencyRate(k) PROVE RatesInv'
  <2>1. PICK c \in Codes, billed \in PlatformRates : Rate!Request(k, "saveRate", c, billed)
    BY <1>5 DEF Rate!UpdateCurrencyRate
  <2>2. [at |-> "saveRate", code |-> c, value |-> billed] \in RateCalls
    BY <2>1 DEF RateCalls
  <2> QED
    BY <2>1, <2>2, <1>4 DEF Writes
<1>6. ASSUME NEW k \in Calls, Rate!SetCurrencyStatus(k) PROVE RatesInv'
  <2>1. PICK c \in Codes, active \in BOOLEAN : Rate!Request(k, "saveStatus", c, active)
    BY <1>6 DEF Rate!SetCurrencyStatus
  <2>2. [at |-> "saveStatus", code |-> c, value |-> active] \in RateCalls
    BY <2>1 DEF RateCalls
  <2> QED
    BY <2>1, <2>2, <1>4 DEF Writes
<1>7. ASSUME NEW k \in Calls, Rate!DeleteCurrency(k) PROVE RatesInv'
  <2>1. PICK c \in Codes : Rate!Request(k, "delete", c, 0)
    BY <1>7 DEF Rate!DeleteCurrency
  <2>2. [at |-> "delete", code |-> c, value |-> 0] \in RateCalls
    BY <2>1 DEF RateCalls
  <2> QED
    BY <2>1, <2>2, <1>4 DEF Writes
<1>8. ASSUME NEW k \in Calls, Rate!FindNewCurrency(k) PROVE RatesInv'
  <2>1. PICK c \in Codes : Rate!Request(k, "switch", c, 0)
    BY <1>8 DEF Rate!FindNewCurrency
  <2>2. [at |-> "switch", code |-> c, value |-> 0] \in RateCalls
    BY <2>1 DEF RateCalls
  <2> QED
    BY <2>1, <2>2, <1>4 DEF Writes
<1>9. ASSUME NEW k \in Calls, Rate!UpdateUserCurrency(k) PROVE RatesInv'
  BY <1>9, <1>d, OnlyCallMoves DEF Rate!UpdateUserCurrency, Rate!Ended
<1>10. ASSUME NEW k \in Calls, Rate!Save(k) PROVE RatesInv'
  <2> DEFINE c == call[k].code
  <2> DEFINE next == [at |-> "invalidate", code |-> c]
  <2>1. /\ call[k].at \in {"saveRate", "saveStatus", "delete"}
        /\ UNCHANGED cache
        /\ IF currency[c].exists
           THEN /\ currency' = [currency EXCEPT ![c] = Rate!Written(c, call[k].at, call[k].value)]
                /\ Rate!Overlap(k, c, next)
           ELSE Rate!Goes(k, [at |-> "done"]) /\ UNCHANGED currency
    BY <1>10 DEF Rate!Save, Rate!Exists, Rate!Ended
  <2>2. CASE ~currency[c].exists
    BY <2>1, <2>2, <1>d, OnlyCallMoves
  <2>3. CASE currency[c].exists
    <3>1. c \in Codes
      BY <1>t, <2>1 DEF RateCalls
    <3>2. currency[c] \in StoredDocs
      BY <1>t, <2>3, <3>1 DEF Rate!Missing
    <3> DEFINE new == Rate!Written(c, call[k].at, call[k].value)
    <3>3. new \in StoredDocs \cup {Rate!Missing}
      <4>1. CASE call[k].at = "saveRate"
        <5>1. call[k].value \in RateValues
          BY <1>t, <4>1 DEF RateCalls, RateValues
        <5>2. new = [currency[c] EXCEPT !.rate = call[k].value]
          BY <4>1 DEF Rate!Written
        <5> QED
          BY <5>1, <5>2, <3>2 DEF StoredDocs
      <4>2. CASE call[k].at = "saveStatus"
        <5>1. call[k].value \in BOOLEAN
          BY <1>t, <4>2 DEF RateCalls
        <5>2. new = [currency[c] EXCEPT !.active = call[k].value]
          BY <4>2 DEF Rate!Written
        <5> QED
          BY <5>1, <5>2, <3>2 DEF StoredDocs
      <4>3. CASE call[k].at = "delete"
        BY <4>3 DEF Rate!Written
      <4> QED
        BY <2>1, <4>1, <4>2, <4>3
    <3>4. /\ currency' \in [Codes -> StoredDocs \cup {Rate!Missing}]
          /\ \A d \in Codes \ {c} : currency'[d] = currency[d]
      BY <2>1, <2>3, <3>1, <3>3, <1>t
    <3>5. call' = [j \in Calls |->
              IF j = k THEN next
              ELSE IF call[j].at = "found" /\ call[j].code = c
                   THEN [call[j] EXCEPT !.overlapped = TRUE] ELSE call[j]]
      BY <2>1, <2>3 DEF Rate!Overlap
    <3>6. call'[k] = next
      BY <3>5
    <3>7. ASSUME NEW j \in Calls, j # k, ~(call[j].at = "found" /\ call[j].code = c)
          PROVE  call'[j] = call[j]
      BY <3>5, <3>7
    <3>8. ASSUME NEW j \in Calls, j # k, call[j].at = "found" /\ call[j].code = c
          PROVE  call'[j] \in RateCalls /\ call'[j].overlapped /\ call'[j].at = "found"
      <4>1. call[j] \in [at : {"found"}, code : Codes, doc : StoredDocs, overlapped : BOOLEAN]
        BY <1>t, <3>8 DEF RateCalls
      <4>2. call'[j] = [call[j] EXCEPT !.overlapped = TRUE]
        BY <3>5, <3>8
      <4> QED
        BY <4>1, <4>2 DEF RateCalls
    <3>9. next \in RateCalls
      BY <3>1 DEF RateCalls
    <3>10. call' \in [Calls -> RateCalls]
      BY <3>5, <3>6, <3>7, <3>8, <3>9, <1>t
    <3>11. RatesTypeOK'
      BY <3>4, <3>10, <2>1, <1>t DEF RatesTypeOK
    <3>12. FoundIsStored'
      <4> SUFFICES ASSUME NEW j \in Calls, call'[j].at = "found", ~call'[j].overlapped
                   PROVE  Agrees(call[j].code, call[j].doc)' 
        BY DEF FoundIsStored
      <4>1. j # k
        BY <3>6
      <4>2. ~(call[j].at = "found" /\ call[j].code = c)
        BY <4>1, <3>8
      <4>3. call'[j] = call[j] /\ call[j].at = "found"
        BY <4>1, <4>2, <3>7
      <4>4. call[j].code \in Codes \ {c}
        BY <1>t, <4>2, <4>3 DEF RateCalls
      <4>5. Agrees(call[j].code, call[j].doc)
        BY <4>3 DEF FoundIsStored
      <4> QED
        BY <4>3, <4>4, <4>5, <3>4 DEF Agrees
    <3>13. \A d \in Codes : d = c => InvalidationDue(d)'
      BY <3>6 DEF InvalidationDue
    <3>14. \A d \in Codes : InvalidationDue(d) => InvalidationDue(d)'
      BY <3>7, <2>1 DEF InvalidationDue
    <3>15. CacheIsStored'
      <4> SUFFICES ASSUME NEW d \in Codes, cache[d].cached, ~cache[d].overlapped
                   PROVE  Agrees(d, cache[d].doc)' \/ InvalidationDue(d)'
        BY <2>1 DEF CacheIsStored
      <4>1. Agrees(d, cache[d].doc) \/ InvalidationDue(d)
        BY DEF CacheIsStored
      <4>2. d # c /\ Agrees(d, cache[d].doc) => Agrees(d, cache[d].doc)'
        BY <2>1, <3>4 DEF Agrees
      <4> QED
        BY <3>13, <3>14, <4>1, <4>2
    <3> QED
      BY <3>11, <3>12, <3>15
  <2> QED
    BY <2>2, <2>3
<1>11. ASSUME NEW k \in Calls, Rate!InvalidateCurrencyCache(k) PROVE RatesInv'
  <2> DEFINE c == call[k].code
  <2>1. /\ call[k].at = "invalidate"
        /\ cache' = [cache EXCEPT ![c] = Rate!Empty]
        /\ call' = [call EXCEPT ![k] = [at |-> "done"]]
        /\ UNCHANGED currency
    BY <1>11 DEF Rate!InvalidateCurrencyCache, Rate!Ended, Rate!Goes
  <2>2. c \in Codes
    BY <1>t, <2>1 DEF RateCalls
  <2>3. /\ call'[k] = [at |-> "done"]
        /\ \A j \in Calls \ {k} : call'[j] = call[j]
        /\ call' \in [Calls -> RateCalls]
    BY <2>1, <1>t, <1>d
  <2>4. /\ cache'[c] = Rate!Empty
        /\ \A d \in Codes \ {c} : cache'[d] = cache[d]
        /\ cache' \in [Codes -> CacheEntries]
    BY <2>1, <2>2, <1>t, <1>e
  <2>5. RatesTypeOK'
    BY <2>1, <2>3, <2>4, <1>t DEF RatesTypeOK
  <2>6. \A d \in Codes : InvalidationDue(d) /\ cache'[d].cached => InvalidationDue(d)'
    BY <2>3, <2>4, <1>e DEF InvalidationDue
  <2>7. \A j \in Calls : call'[j].at = "found" => call'[j] = call[j]
    BY <2>3
  <2>8. \A d \in Codes : cache'[d].cached => cache'[d] = cache[d]
    BY <2>4, <1>e
  <2>9. \A d \in Codes, doc \in StoredDocs : Agrees(d, doc) => Agrees(d, doc)'
    BY <2>1 DEF Agrees
  <2> QED
    BY <2>5, <2>6, <2>7, <2>8, <2>9, AgreementStays
<1>12. ASSUME NEW k \in Calls, Rate!CreateCurrency(k) PROVE RatesInv'
  <2>1. PICK c \in Codes, billed \in PlatformRates :
            ~Rate!Exists(c) /\ currency' = [currency EXCEPT ![c] = Rate!Doc(billed, billed, TRUE)]
    BY <1>12 DEF Rate!CreateCurrency
  <2>2. Rate!Doc(billed, billed, TRUE) \in StoredDocs
    BY <2>1 DEF Rate!Doc, StoredDocs, RateValues
  <2>3. /\ currency' \in [Codes -> StoredDocs \cup {Rate!Missing}]
        /\ \A d \in Codes, old \in StoredDocs : Agrees(d, old) => Agrees(d, old)'
    BY <2>1, <2>2, OtherDocumentsWritten DEF Rate!Exists
  <2>4. /\ call[k].at = "idle"
        /\ call' = [call EXCEPT ![k] = [at |-> "done"]]
        /\ UNCHANGED cache
    BY <1>12 DEF Rate!CreateCurrency, Rate!Ended, Rate!Goes
  <2>5. /\ call'[k] = [at |-> "done"]
        /\ \A j \in Calls \ {k} : call'[j] = call[j]
        /\ call' \in [Calls -> RateCalls]
    BY <2>4, <1>t, <1>d
  <2>6. RatesTypeOK'
    BY <2>3, <2>4, <2>5, <1>t DEF RatesTypeOK
  <2>7. \A j \in Calls : call'[j].at = "found" => call'[j] = call[j]
    BY <2>5
  <2>8. \A d \in Codes : InvalidationDue(d) => InvalidationDue(d)'
    BY <2>4, <2>5 DEF InvalidationDue
  <2> QED
    BY <2>3, <2>4, <2>6, <2>7, <2>8, AgreementStays
<1>a. \A c \in Codes, doc \in StoredDocs : UNCHANGED currency => (Agrees(c, doc) => Agrees(c, doc)')
  BY DEF Agrees
<1>13. ASSUME Rate!Expire PROVE RatesInv'
  <2>1. PICK c \in Codes : cache' = [cache EXCEPT ![c] = Rate!Empty]
    BY <1>13 DEF Rate!Expire
  <2>2. UNCHANGED <<currency, call>>
    BY <1>13 DEF Rate!Expire
  <2> QED
    BY <2>1, <2>2, <1>a, <1>t, OnlyEntriesGo
<1>14. ASSUME UNCHANGED <<currency, call, cache>> PROVE RatesInv'
  BY <1>14, <1>a, <1>t, OnlyEntriesGo
<1>15. ASSUME Rate!SyncExisting PROVE RatesInv'
  <2> DEFINE c == found[1]
  <2>1. PICK market \in PlatformRates :
            currency' = [currency EXCEPT ![c] =
                IF currency[c].exists THEN [currency[c] EXCEPT !.market = market] ELSE currency[c]]
    BY <1>15 DEF Rate!SyncExisting
  <2>2. cache' = [cache EXCEPT ![c] = Rate!Empty] /\ UNCHANGED call
    BY <1>15 DEF Rate!SyncExisting
  <2>3. CASE c \in Codes /\ currency[c].exists
    <3> DEFINE doc == [currency[c] EXCEPT !.market = market]
    <3>1. currency[c] \in StoredDocs
      BY <2>3, <1>t DEF Rate!Missing
    <3>2. doc \in StoredDocs /\ doc.rate = currency[c].rate /\ doc.active = currency[c].active
      BY <3>1, <2>1 DEF StoredDocs, RateValues
    <3>3. currency' = [currency EXCEPT ![c] = doc]
      BY <2>1, <2>3
    <3>4. /\ currency' \in [Codes -> StoredDocs \cup {Rate!Missing}]
          /\ \A d \in Codes, old \in StoredDocs : Agrees(d, old) => Agrees(d, old)'
      BY <2>3, <3>2, <3>3, OtherDocumentsWritten
    <3> QED
      BY <2>2, <3>4, OnlyEntriesGo
  <2>4. CASE ~(c \in Codes /\ currency[c].exists)
    <3>1. UNCHANGED currency
      BY <2>1, <2>4, <1>t
    <3> QED
      BY <2>2, <3>1, <1>a, <1>t, OnlyEntriesGo
  <2> QED
    BY <2>3, <2>4
<1>16. ASSUME Rate!SyncCreate PROVE RatesInv'
  <2> DEFINE c == found[1]
  <2>1. PICK market \in PlatformRates :
            currency' = [currency EXCEPT ![c] =
                IF currency[c].exists THEN currency[c] ELSE Rate!Doc(market, market, FALSE)]
    BY <1>16 DEF Rate!SyncCreate
  <2>2. UNCHANGED <<cache, call>>
    BY <1>16 DEF Rate!SyncCreate
  <2>3. CASE c \in Codes /\ ~currency[c].exists
    <3> DEFINE doc == Rate!Doc(market, market, FALSE)
    <3>1. doc \in StoredDocs
      BY <2>1 DEF Rate!Doc, StoredDocs, RateValues
    <3>2. currency' = [currency EXCEPT ![c] = doc]
      BY <2>1, <2>3
    <3>3. /\ currency' \in [Codes -> StoredDocs \cup {Rate!Missing}]
          /\ \A d \in Codes, old \in StoredDocs : Agrees(d, old) => Agrees(d, old)'
      BY <2>3, <3>1, <3>2, OtherDocumentsWritten
    <3> QED
      BY <2>2, <3>3, OnlyEntriesGo
  <2>4. CASE ~(c \in Codes /\ ~currency[c].exists)
    <3>1. UNCHANGED currency
      BY <2>1, <2>4, <1>t
    <3> QED
      BY <2>2, <3>1, <1>a, <1>t, OnlyEntriesGo
  <2> QED
    BY <2>3, <2>4
<1>17. ASSUME Rate!RunOnce \/ Rate!LookUp \/ Rate!SyncEnds PROVE RatesInv'
  BY <1>17, <1>14 DEF Rate!RunOnce, Rate!LookUp, Rate!SyncEnds
<1>18. CASE UNCHANGED Rate!vars
  BY <1>18, <1>14 DEF Rate!vars
<1> QED
  BY <1>1, <1>2, <1>3, <1>5, <1>6, <1>7, <1>8, <1>9, <1>10, <1>11, <1>12, <1>13,
     <1>15, <1>16, <1>17, <1>18 DEF Rate!Next

\* The theorem of StaleOnlyAfterOverlap: what the cache says of a currency is what the
\* database says, unless the writer's invalidation is still to come or the entry was
\* read while a write went on, for any number of currencies, requests and conversions.
THEOREM CacheIsHonest == Rate!Spec => []StaleOnlyAfterOverlap
<1>1. RatesInv => StaleOnlyAfterOverlap
  BY DEF RatesInv, CacheIsStored, Agrees, InvalidationDue, StaleOnlyAfterOverlap,
         Rate!StaleOnlyAfterOverlap, Rate!Exists
<1> QED
  BY RatesInit, RatesStep, <1>1, PTL DEF Rate!Spec

\* Only the request of an administrator changes the rate of a currency that exists.
LEMMA RateChangesAreRequested ==
    ASSUME RatesInv, [Rate!Next]_Rate!vars, NEW c \in Codes,
           currency[c].exists, currency'[c].exists, currency'[c].rate # currency[c].rate
    PROVE  \E k \in Calls : /\ call[k].at = "saveRate" /\ call[k].code = c
                            /\ call'[k].at = "invalidate"
<1>t. /\ currency \in [Codes -> StoredDocs \cup {Rate!Missing}]
      /\ call \in [Calls -> RateCalls]
      /\ currency[c] \in StoredDocs
  BY DEF RatesInv, RatesTypeOK, Rate!Missing
<1>0. currency' # currency
  OBVIOUS
<1>1. ASSUME NEW k \in Calls, Rate!Save(k)
      PROVE  /\ call[k].at = "saveRate" /\ call[k].code = c /\ call'[k].at = "invalidate"
  <2> DEFINE d == call[k].code
  <2>1. /\ call[k].at \in {"saveRate", "saveStatus", "delete"}
        /\ currency' = [currency EXCEPT ![d] = Rate!Written(d, call[k].at, call[k].value)]
        /\ Rate!Overlap(k, d, [at |-> "invalidate", code |-> d])
    BY <1>0, <1>1 DEF Rate!Save, Rate!Exists
  <2>2. d = c
    BY <2>1, <1>t
  <2>3. currency'[c] = Rate!Written(c, call[k].at, call[k].value)
    BY <2>1, <2>2, <1>t
  <2>4. call[k].at # "delete"
    BY <2>3 DEF Rate!Written, Rate!Missing
  <2>5. call[k].at # "saveStatus"
    <3> SUFFICES ASSUME call[k].at = "saveStatus" PROVE FALSE
      OBVIOUS
    <3>1. currency'[c] = [currency[c] EXCEPT !.active = call[k].value]
      BY <2>3 DEF Rate!Written
    <3> QED
      BY <3>1, <1>t DEF StoredDocs
  <2>6. call'[k].at = "invalidate"
    BY <2>1 DEF Rate!Overlap
  <2> QED
    BY <2>1, <2>2, <2>4, <2>5, <2>6
<1>2. ASSUME NEW k \in Calls, Rate!CreateCurrency(k) PROVE FALSE
  <2>1. PICK d \in Codes, billed \in PlatformRates :
            ~currency[d].exists /\ currency' = [currency EXCEPT ![d] = Rate!Doc(billed, billed, TRUE)]
    BY <1>2 DEF Rate!CreateCurrency, Rate!Exists
  <2> QED
    BY <2>1, <1>t
<1>3. ASSUME Rate!SyncExisting PROVE FALSE
  <2> DEFINE d == found[1]
  <2>1. PICK market \in PlatformRates :
            currency' = [currency EXCEPT ![d] =
                IF currency[d].exists THEN [currency[d] EXCEPT !.market = market] ELSE currency[d]]
    BY <1>3 DEF Rate!SyncExisting
  <2>2. currency'[c] = currency[c] \/ currency'[c] = [currency[c] EXCEPT !.market = market]
    BY <2>1, <1>t
  <2> QED
    BY <2>2, <1>t DEF StoredDocs
<1>4. ASSUME Rate!SyncCreate PROVE FALSE
  <2> DEFINE d == found[1]
  <2>1. PICK market \in PlatformRates :
            currency' = [currency EXCEPT ![d] =
                IF currency[d].exists THEN currency[d] ELSE Rate!Doc(market, market, FALSE)]
    BY <1>4 DEF Rate!SyncCreate
  <2> QED
    BY <2>1, <1>t
<1>5. \/ \E k \in Calls : Rate!Save(k) \/ Rate!CreateCurrency(k)
      \/ Rate!SyncExisting \/ Rate!SyncCreate
  BY <1>0 DEF Rate!Next, Rate!vars, Rate!Hit, Rate!FindCurrency, Rate!FillCache,
     Rate!UpdateCurrencyRate, Rate!SetCurrencyStatus, Rate!DeleteCurrency, Rate!FindNewCurrency,
     Rate!Request, Rate!UpdateUserCurrency, Rate!InvalidateCurrencyCache, Rate!Expire,
     Rate!RunOnce, Rate!LookUp, Rate!SyncEnds
<1> QED
  BY <1>1, <1>2, <1>3, <1>4, <1>5

\* The theorem of AdminOwnsPlatformRate: the job that follows the market never changes
\* the rate customers are billed at, however its reads and writes overlap with those of
\* administrators who create, switch and delete currencies.
THEOREM RateIsTheAdministrators == Rate!Spec => AdminOwnsPlatformRate
<1>1. RatesInv /\ [Rate!Next]_Rate!vars =>
        [\A c \in Codes :
            (Rate!Exists(c) /\ currency'[c].exists /\ currency'[c].rate # currency[c].rate)
              => \E k \in Calls : call[k].at = "saveRate" /\ call[k].code = c
                                  /\ call'[k].at = "invalidate"]_Rate!vars
  BY RateChangesAreRequested DEF Rate!Exists
<1> QED
  BY RatesInit, RatesStep, <1>1, PTL DEF Rate!Spec, AdminOwnsPlatformRate,
     Rate!AdminOwnsPlatformRate
================================================================================
