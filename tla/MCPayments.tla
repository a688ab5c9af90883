------------------------------ MODULE MCPayments ------------------------------
(***************************************************************************)
(* Small instances of deposits and what follows from them.  A behaviour is *)
(* one of these: deposit d1 of a referred customer, reviewed, edited and   *)
(* reconciled; deposits d2 and d3 of the customer u2, whom nobody referred *)
(* who pays in EGP, and the bridge; payouts of the commissions.            *)
(***************************************************************************)
EXTENDS Payments, TLC

CONSTANTS d1, d2, d3, u1, u2, k1, k2, m1, m2, x1, USD, EGP, p1, p2, c1, c2, y1

VARIABLE part

MCUserOf == (d1 :> u1) @@ (d2 :> u2) @@ (d3 :> u2)
MCReferredBy == (u1 :> u2) @@ (u2 :> None)
MCEligibleUntil == (u1 :> 0) @@ (u2 :> 0)
MCWalletCurrency == (u1 :> USD) @@ (u2 :> EGP)
MCRate == (USD :> 1) @@ (EGP :> 3)
MCTransaction == (m1 :> x1) @@ (m2 :> None)
MCTransactionOf == (d1 :> None) @@ (d2 :> x1) @@ (d3 :> x1)
MCPaid == (m1 :> 3) @@ (m2 :> 3)

MCEarner == (c1 :> u1) @@ (c2 :> u1)
MCEarned == (c1 :> 3) @@ (c2 :> 4)
MCEarnedIn == (c1 :> USD) @@ (c2 :> USD)
MCAge == (c1 :> 1) @@ (c2 :> 2)
MCWallet == u1 :> USD

MCInit == EventInit /\ Payout!Init /\ part \in {"referrals", "bridge", "payouts"}

Referred == <<deposit[d1], clock, edits, switches>>
Simple ==
    /\ \A d \in {d2, d3} : deposit'[d].currency # USD /\ deposit'[d].mark # "PENDING"
    /\ \A k \in Calls : call'[k].at = "approve" => call'[k].override = 0
OneCurrency == \A k \in Calls :
    task'[k].at = "begin" /\ task'[k].operation = "create"
        => task'[k].asked.input.currency = USD
Bridged == <<deposit[d2], deposit[d3], eventVars>>

MCNext ==
    /\ UNCHANGED part
    /\ \/ part = "referrals" /\ Next /\ UNCHANGED <<Bridged, payoutVars>>
       \/ part = "bridge" /\ Next /\ Simple /\ UNCHANGED <<Referred, payoutVars>>
       \/ part = "payouts" /\ Payout!Next /\ OneCurrency /\ UNCHANGED <<vars, eventVars>>

MCSpec == MCInit /\ [][MCNext]_<<part, vars, eventVars, payoutVars>>

Symmetry == Permutations(Calls) \cup Permutations(Payouts) \cup Permutations({d2, d3})
================================================================================
