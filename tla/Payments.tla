-------------------------------- MODULE Payments --------------------------------
(***************************************************************************)
(* How money comes in, and what referrals make of it: the deposits with    *)
(* the bridge of payment SMS, and the payouts of the commissions.          *)
(***************************************************************************)
EXTENDS PaymentEvents

CONSTANTS Users, Payouts, Commissions, Earner, Earned, EarnedIn, Age, Currencies, Home,
          Keys, Sums, Cent, MaxRequests, MaxUserChanges

ASSUME PayoutsAssumption == None \notin Payouts

VARIABLES owed, payout, user, rows, task, requests, changes, answers

\* The commissions that can be paid out are those of approved deposits; here they
\* are there from the first, so the two parts share no variable.
Payout == INSTANCE ReferralPayouts WITH commission <- owed, call <- task

payoutVars == <<owed, payout, user, rows, task, requests, changes, answers>>

-----------------------------------------------------------------------------
\* The commissions say the same as the payouts, a wallet payout is credited once
\* and a key stands for one payout.
PayoutsSound == Payout!PayoutsSound
================================================================================
