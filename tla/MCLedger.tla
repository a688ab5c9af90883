-------------------------------- MODULE MCLedger --------------------------------
(***************************************************************************)
(* Small instances of the wallet.  A behaviour is one of the exact ledger, *)
(* one of the legacy ledger, or, the two being indifferent to it, one of   *)
(* the currencies and their cache.                                         *)
(***************************************************************************)
EXTENDS Ledgers, TLC

CONSTANTS r1, r2, r3, t1, t2, u1, u2, k1, EGP, SAR

VARIABLE ledger

MCPlatformRate == (USD :> 1) @@ (EGP :> 3)
MCOpening == (u1 :> [balance |-> 1, limit |-> 2, currency |-> USD])
          @@ (u2 :> [balance |-> -2, limit |-> 2, currency |-> USD])

MCStart == [u \in {u1, u2} |-> [units |-> 1, limit |-> 1]]
MCHome == [u \in {u1, u2} |-> USD]

MCInit ==
    /\ ledger \in {"exact", "legacy", "rates"}
    /\ Init /\ Legacy!Init /\ Rate!Init
    /\ ledger # "exact" => rate = [c \in Currencies |-> 1]

MCNext ==
    /\ UNCHANGED ledger
    /\ \/ ledger = "exact" /\ Next /\ UNCHANGED <<legacyVars, ratesVars>>
       \/ ledger = "legacy" /\ Legacy!Next /\ UNCHANGED <<vars, ratesVars>>
       \/ ledger = "rates" /\ Rate!Next /\ UNCHANGED <<vars, legacyVars>>

MCSpec == MCInit /\ [][MCNext]_<<ledger, vars, legacyVars, ratesVars>>

Symmetry == Permutations(Requests) \cup Permutations(Tasks)
================================================================================
