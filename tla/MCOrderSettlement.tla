--------------------------- MODULE MCOrderSettlement ---------------------------
(***************************************************************************)
(* Small instances of OrderSettlement.                                     *)
(***************************************************************************)
EXTENDS OrderSettlement, TLC

CONSTANTS o1, o2, a1, a2

\* o1 is paid with money, 3 units of it for 2 items so that half of it rounds
\* down; o2 is an order of a quantity_only group.
MCCharge == (o1 :> 3) @@ (o2 :> 0)
MCQuantity == (o1 :> 2) @@ (o2 :> 2)
MCMoney == (o1 :> 3)
MCOneQuantity == (o1 :> 2)
MCQuotaOnly == (o2 :> 0)
MCQuotaQuantity == (o2 :> 2)

AdminSymmetry == Permutations(Admins)

\* The safety run follows one of two kinds of behaviour, and does not continue one
\* that has become neither.  In the first, requests of administrators and every fault
\* are about o1, while o2 stays PENDING: no handler is about it and no poll selects it.
OneOrder == status[o2] = "PENDING" /\ \A p \in Procs \ {o2} : on[p] # o2

\* In the second, both orders are in the batches of the poll, with one crash at most,
\* no administrator, and no refund that failed after it was claimed.
OneCrash ==
    /\ requests = 0 /\ crashes <= 1
    /\ \A o \in Orders : unknowns[o] = 0
    /\ \A p \in Procs : pc[p] # "undo"

RequestsOrBatches == OneOrder \/ OneCrash
================================================================================
