---------------------------- MODULE MCOrderCreation ----------------------------
(***************************************************************************)
(* Small instances of OrderCreation.                                       *)
(***************************************************************************)
EXTENDS OrderCreation, TLC

CONSTANTS r1, r2, r3, u1, k1

\* r1 and r2 are submissions under one key, r3 has none; all of one user.
MCUser == [r \in Requests |-> u1]
MCKey == [r \in Requests |-> IF r = r3 THEN NoKey ELSE k1]
MCPrice == [r \in Requests |-> IF r = r3 THEN 1 ELSE 2]

\* With one unit of credit the wallet pays for r1 or r2 but not for r3 as well,
\* until it is topped up.
MCStart == (u1 :> 1)
MCLimit == (u1 :> 1)
================================================================================
