-------------------------------- MODULE Checkout --------------------------------
(***************************************************************************)
(* What the shop promises a customer who orders: paying for an order and   *)
(* creating it are one step, no order goes below the customer's credit     *)
(* limit, and a customer's idempotency key stands for one order.           *)
(***************************************************************************)
EXTENDS Integers

CONSTANTS Requests,     \* requests to create an order
          Users,
          NoKey,        \* the key of a request without one
          User,         \* who sends a request
          Key,          \* its idempotency key
          Price,        \* what the order costs
          Start,        \* wallet balance of each user at first
          Limit         \* credit limit of each user

VARIABLES orders,       \* requests whose order exists
          balance       \* wallet balances

SameKey(r) == {q \in Requests : User[q] = User[r] /\ Key[q] = Key[r] /\ Key[r] # NoKey}

Init ==
    /\ orders = {}
    /\ balance = Start

Place(r) ==
    /\ r \notin orders /\ SameKey(r) \cap orders = {}
    /\ balance[User[r]] + Limit[User[r]] >= Price[r]
    /\ orders' = orders \cup {r}
    /\ balance' = [balance EXCEPT ![User[r]] = @ - Price[r]]

\* Somebody else pays into the wallet.
TopUp(u) ==
    /\ balance' = [balance EXCEPT ![u] = @ + 1]
    /\ UNCHANGED orders

Next ==
    \/ \E r \in Requests : Place(r)
    \/ \E u \in Users : TopUp(u)

Spec == Init /\ [][Next]_<<orders, balance>>
================================================================================
