----------------------------- MODULE ResellerApi -----------------------------
(***************************************************************************)
(* Orders over the resellers' API (modules/clientCompat).  order_uuid is   *)
(* the idempotency key of createOrder, which OrderCreation models; here an *)
(* order is found by it or inserted in one step.  A new order carries its  *)
(* public id; one older than public ids is given its id by the first       *)
(* request that needs it, with a compare-and-swap that is tried again when *)
(* the random id is taken.                                                 *)
(***************************************************************************)
EXTENDS Integers, FiniteSets

CONSTANTS
    Calls,
    Orders,
    Resellers,
    Uuids,
    PublicIds,
    MaxRequests,   \* bound
    MaxAttempts,   \* 8 in the code
    None

VARIABLES
    order,      \* order documents: owner (None: no document), uuid, public id
    listed,     \* the product is there, active and within its quantity limits
    request,    \* what a request is doing
    requests,   \* bounded
    told        \* the answers given: which order, and which public id, a uuid stands for

resellerVars == <<order, listed, request, requests, told>>

Idle == [at |-> "idle", user |-> None, uuid |-> None, order |-> None, attempt |-> 0]
NoOrder == [user |-> None, uuid |-> None, id |-> None]
Stored == {o \in Orders : order[o].user # None}

\* Orders older than public ids have none.
Init ==
    /\ \E old \in SUBSET Orders : \E owned \in [old -> Resellers \X Uuids] :
        /\ \A o, p \in old : o # p => owned[o] # owned[p]
        /\ order = [o \in Orders |->
                      IF o \in old
                      THEN [user |-> owned[o][1], uuid |-> owned[o][2], id |-> None] ELSE NoOrder]
    /\ listed = TRUE
    /\ request = [c \in Calls |-> Idle]
    /\ requests = 0
    /\ told = {}

Taken(id) == \E o \in Orders : order[o].id = id

\* placeOrder and placeCanonicalOrder: the checks of the product, then createOrder.
PlaceOrder(c, u, uuid) ==
    /\ request[c].at = "idle"
    /\ requests < MaxRequests
    /\ requests' = requests + 1
    /\ listed
    /\ \/ \E o \in Stored :
            /\ order[o].user = u /\ order[o].uuid = uuid
            /\ request' = [request EXCEPT ![c] =
                             [at |-> IF order[o].id = None THEN "assign" ELSE "map",
                              user |-> u, uuid |-> uuid, order |-> o, attempt |-> 0]]
            /\ UNCHANGED order
       \/ /\ ~\E o \in Stored : order[o].user = u /\ order[o].uuid = uuid
          /\ \E o \in Orders \ Stored, id \in PublicIds :
                /\ ~Taken(id)
                /\ order' = [order EXCEPT ![o] =
                               [user |-> u, uuid |-> uuid, id |-> id]]
                /\ request' = [request EXCEPT ![c] =
                                 [at |-> "map", user |-> u, uuid |-> uuid, order |-> o, attempt |-> 0]]
    /\ UNCHANGED <<listed, told>>

\* The filter of ensureCompatOrderId: only an order that has no id is given one.
MutUnassigned(o) == TRUE
Unassigned(o) == order[o].id = None

EnsureCompatOrderId(c) ==
    LET o == request[c].order IN
    /\ request[c].at = "assign"
    /\ request[c].attempt < MaxAttempts
    /\ \E id \in PublicIds :
        \/ /\ Unassigned(o) /\ ~Taken(id)
           /\ order' = [order EXCEPT ![o].id = id]
           /\ request' = [request EXCEPT ![c].at = "map"]
        \/ /\ Unassigned(o) /\ Taken(id)
           /\ request' = [request EXCEPT ![c].attempt = @ + 1]
           /\ UNCHANGED order
        \/ /\ ~Unassigned(o)
           /\ request' = [request EXCEPT ![c].at = "map"]
           /\ UNCHANGED order
    /\ UNCHANGED <<listed, requests, told>>

GiveUp(c) ==
    /\ request[c].at = "assign"
    /\ request[c].attempt = MaxAttempts
    /\ request' = [request EXCEPT ![c] = Idle]
    /\ UNCHANGED <<order, listed, requests, told>>

\* populateOrderForCompat and mapCreatedOrder: the order as it is stored by now.
Answer(c) ==
    LET o == request[c].order IN
    /\ request[c].at = "map"
    /\ told' = told \cup {[user |-> request[c].user, uuid |-> order[o].uuid, order |-> o,
                           id |-> order[o].id]}
    /\ request' = [request EXCEPT ![c] = Idle]
    /\ UNCHANGED <<order, listed, requests>>

\* listOrders: the reseller's own orders, by public id or by uuid.
ListOrders(u, key) ==
    LET found == {o \in Stored : order[o].user = u /\ key \in {order[o].id, order[o].uuid}} IN
    /\ found # {}
    /\ told' = told \cup {[user |-> u, uuid |-> order[o].uuid, order |-> o, id |-> order[o].id] : o \in found}
    /\ UNCHANGED <<order, listed, request, requests>>

Unlist ==
    /\ listed' = FALSE
    /\ listed
    /\ UNCHANGED <<order, request, requests, told>>

Next ==
    \/ \E c \in Calls :
        \/ EnsureCompatOrderId(c) \/ GiveUp(c) \/ Answer(c)
        \/ \E u \in Resellers, uuid \in Uuids : PlaceOrder(c, u, uuid)
    \/ \E u \in Resellers, key \in PublicIds \cup Uuids : ListOrders(u, key)
    \/ Unlist

Spec == Init /\ [][Next]_resellerVars

-----------------------------------------------------------------------------
\* However often and however concurrently a reseller repeats an order_uuid, the
\* answers that name a public id name one and the same, of one order, and it
\* still finds that order; no order is told to a reseller who does not own it.
ResellerSound ==
    \A x, y \in told :
        /\ order[x.order].user = x.user
        /\ x.id # None => order[x.order].id = x.id
        /\ x.user = y.user /\ x.uuid = y.uuid => x.order = y.order
        /\ x.id # None /\ x.id = y.id => x.order = y.order
=============================================================================
