-------------------------------- MODULE Services --------------------------------
(***************************************************************************)
(* What the services have in common: the calls that are under way at the   *)
(* same time, the customers, the orders and their prices.  The modules     *)
(* that extend this one compose the components of a service; components    *)
(* that are instances in one module share nothing but these.               *)
(***************************************************************************)
CONSTANTS
    Calls,      \* requests, sessions, workers: whatever acts concurrently
    Customers,
    Orders,
    Prices,
    None
================================================================================
