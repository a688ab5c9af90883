------------------------------ MODULE OrderServices ------------------------------
(***************************************************************************)
(* Other ways to an order: target orders reviewed by an administrator, the *)
(* quotes and orders of Hago, the provider's connection behind them, and   *)
(* the API of the resellers.                                               *)
(***************************************************************************)
EXTENDS Services, Integers

CONSTANTS
    Bodies, Keys, TargetAccounts, Methods, MaxTargets, MaxSettings, \* target orders
    MaxChallenges, MaxLogins,                                       \* Hago connection
    Quotes, Recipients, GroupMarkups, Rates, MaxCheckouts, MaxRevisions, \* Hago quotes
    Resellers, Uuids, PublicIds, MaxPurchases, MaxIdAttempts        \* resellers

VARIABLES
    app, enabled, target, files, review, requests, settings, answers, reviews,
    connection, lapsed, issued, login, logins, latest, verified, rejected, crossed,
    exact, article, rate, currency, quote, over, bought, checkout, checkouts, revisions,
    placedOrder, listed, purchase, purchases, told

\* None is none of what an order can have; prices and rates are numbers.
ASSUME ShopAssumption ==
    /\ None \notin Resellers \cup PublicIds \cup Quotes \cup Recipients \cup Int
    /\ Prices \subseteq Int /\ Rates \subseteq Int /\ GroupMarkups \subseteq Int

Target == INSTANCE Targets WITH
    Accounts <- TargetAccounts, MaxRequests <- MaxTargets,
    order <- target, call <- review

Hago == INSTANCE HagoConnection WITH
    MaxRequests <- MaxLogins, expired <- lapsed, call <- login, requests <- logins

Nobility == INSTANCE NobilityCheckout WITH
    Targets <- Recipients, MaxRequests <- MaxCheckouts, MaxChanges <- MaxRevisions,
    product <- article, expired <- over, order <- bought, call <- checkout,
    requests <- checkouts, changes <- revisions

Reseller == INSTANCE ResellerApi WITH
    MaxRequests <- MaxPurchases, MaxAttempts <- MaxIdAttempts,
    order <- placedOrder, request <- purchase, requests <- purchases

targetVars == <<app, enabled, target, files, review, requests, settings, answers, reviews>>
hagoVars == <<connection, lapsed, issued, login, logins, latest, verified, rejected, crossed>>
nobilityVars == <<exact, article, rate, currency, quote, over, bought, checkout, checkouts, revisions>>
resellerVars == <<placedOrder, listed, purchase, purchases, told>>

-----------------------------------------------------------------------------
\* A key stands for one target order, stored proofs are of an order or of a call
\* under way, and an order is decided once.
TargetOrdersSound == Target!TargetOrdersSound

\* The Hago session in use is that of the challenge verified last, and a quote makes
\* one order, of what was quoted.
HagoSound == Hago!ConnectionSound /\ Nobility!CheckoutSound

\* What a reseller was told of an order_uuid stays true.
ResellerSound == Reseller!ResellerSound
================================================================================
