--------------------------- MODULE NobilityCheckout ---------------------------
(***************************************************************************)
(* Quotes for Hago nobility products and the orders made from them         *)
(* (providers/hago/hagoNobilityCommerce.service, prepareNewOrder of        *)
(* hagoNobilityExecution.service, and createOrder where it takes a quote). *)
(* The debit and the insert, which OrderCreation takes apart, are one step *)
(* here; what Hago is then asked to do is ProviderMutations' matter.       *)
(***************************************************************************)
EXTENDS Integers, FiniteSets

CONSTANTS
    Calls,
    Quotes,        \* quote references
    Orders,
    Targets,
    Prices,        \* USD prices an administrator sets
    GroupMarkups,  \* what a customer's group makes of a price
    Rates,         \* exchange rates of the customer's currency
    MaxRequests,   \* bound
    MaxChanges,    \* bound: changes of the product, the rate and the currency
    None

VARIABLES
    exact,      \* EXACT_LEDGER_ENABLED
    product,    \* sold: the product and its connection; price: of the branch asked for
    rate,
    currency,   \* the customer's currency
    quote,      \* the quote documents; target None: no document
    expired,
    order,      \* the orders; quote None: no document
    call,       \* what each request awaits and has read
    requests, changes   \* bounded

checkoutVars == <<exact, product, rate, currency, quote, expired, order, call, requests, changes>>

NoQuote == [target |-> None, base |-> 0, usd |-> 0, price |-> 0, currency |-> None]
NoOrder == [quote |-> None, target |-> None, usd |-> 0, charged |-> 0, offered |-> 0,
            resolved |-> FALSE, alone |-> FALSE]
Idle == [at |-> "idle", quote |-> None, target |-> None, price |-> 0, alone |-> FALSE]
Placed == {o \in Orders : order[o].quote # None}
Unresolved(target) == {o \in Placed : order[o].target = target /\ ~order[o].resolved}
Currencies == {"USD", "other"}

Init ==
    /\ exact \in BOOLEAN
    /\ product \in [sold : {TRUE}, price : Prices]
    /\ rate \in Rates
    /\ currency = "other"
    /\ quote = [q \in Quotes |-> NoQuote]
    /\ expired = {}
    /\ order = [o \in Orders |-> NoOrder]
    /\ call = [c \in Calls |-> Idle]
    /\ requests = 0
    /\ changes = 0

Begin(c) == call[c].at = "idle" /\ requests < MaxRequests /\ requests' = requests + 1
Return(c) == call' = [call EXCEPT ![c] = Idle]
UsedRate == IF currency = "USD" THEN 1 ELSE rate

\* _resolve; verifyTarget and the readiness check are awaited next, and may fail.
ResolveProduct(c, target) ==
    /\ Begin(c)
    /\ product.sold
    /\ call' = [call EXCEPT ![c] = [Idle EXCEPT !.at = "quote", !.target = target, !.price = product.price]]
    /\ UNCHANGED <<exact, product, rate, currency, quote, expired, order, changes>>

\* The price is the one resolved; the markup of the group, which may change between
\* two quotes, is read and the conversion made now.
CreateQuote(c) ==
    /\ call[c].at = "quote"
    /\ \/ \E q \in Quotes, markup \in GroupMarkups :
            LET usd == call[c].price * markup IN
            /\ quote[q].target = None
            /\ quote' = [quote EXCEPT ![q] =
                           [target |-> call[c].target, base |-> call[c].price, usd |-> usd,
                            price |-> usd * UsedRate, currency |-> currency]]
       \/ UNCHANGED quote
    /\ Return(c)
    /\ UNCHANGED <<exact, product, rate, currency, expired, order, requests, changes>>

\* prepareNewOrder up to its check for an order that awaits confirmation: the
\* product was read first, and a second request of a quote is given its order.
StartCheckout(c, q, target) ==
    /\ Begin(c)
    /\ product.sold
    /\ ~\E o \in Placed : order[o].quote = q
    /\ Unresolved(target) = {}
    /\ call' = [call EXCEPT ![c] = [at |-> "prepare", quote |-> q, target |-> target,
                                    price |-> product.price,
                                    alone |-> \A d \in Calls : call[d].at # "debit"
                                                            /\ call[d].at # "prepare"]]
    /\ UNCHANGED <<exact, product, rate, currency, quote, expired, order, changes>>

\* validateQuote, and the comparison of the quote with the product and the account:
\* the base price is compared, the price with the markup is not.
MutMatches(c, q) == quote[q].target = call[c].target /\ quote[q].currency = currency
Matches(c, q) ==
    /\ quote[q].target = call[c].target
    /\ quote[q].currency = currency
    /\ quote[q].base = call[c].price

PrepareOrder(c) ==
    LET q == call[c].quote IN
    /\ call[c].at = "prepare"
    /\ IF q \notin expired /\ Matches(c, q)
       THEN call' = [call EXCEPT ![c].at = "debit"] ELSE Return(c)
    /\ UNCHANGED <<exact, product, rate, currency, quote, expired, order, requests, changes>>

\* createOrder: the currency once more, the charge, and the insert, which the
\* unique index on the quote reference refuses a second time.
CreateOrder(c) ==
    LET q == call[c].quote IN
    /\ call[c].at = "debit"
    /\ \/ /\ quote[q].currency = currency
          /\ ~\E o \in Placed : order[o].quote = q
          /\ \E o \in Orders \ Placed :
                order' = [order EXCEPT ![o] =
                            [quote |-> q, target |-> quote[q].target, usd |-> quote[q].usd,
                             charged |-> IF exact THEN quote[q].usd * UsedRate ELSE quote[q].price,
                             offered |-> call[c].price, resolved |-> FALSE,
                             alone |-> call[c].alone]]
       \/ UNCHANGED order
    /\ Return(c)
    /\ UNCHANGED <<exact, product, rate, currency, quote, expired, requests, changes>>

Resolve(o) ==
    /\ o \in Placed
    /\ ~order[o].resolved
    /\ order' = [order EXCEPT ![o].resolved = TRUE]
    /\ UNCHANGED <<exact, product, rate, currency, quote, expired, call, requests, changes>>

Expire(q) ==
    /\ quote[q].target # None
    /\ q \notin expired
    /\ expired' = expired \cup {q}
    /\ UNCHANGED <<exact, product, rate, currency, quote, order, call, requests, changes>>

Change ==
    /\ changes < MaxChanges
    /\ changes' = changes + 1
    /\ \/ product' \in [sold : BOOLEAN, price : Prices] /\ UNCHANGED <<rate, currency>>
       \/ rate' \in Rates /\ UNCHANGED <<product, currency>>
       \/ currency' \in Currencies /\ UNCHANGED <<product, rate>>
    /\ UNCHANGED <<exact, quote, expired, order, call, requests>>

Next ==
    \/ \E c \in Calls :
        \/ \E target \in Targets : ResolveProduct(c, target)
        \/ CreateQuote(c)
        \/ \E q \in Quotes, target \in Targets : StartCheckout(c, q, target)
        \/ PrepareOrder(c) \/ CreateOrder(c)
    \/ \E o \in Orders : Resolve(o)
    \/ \E q \in Quotes : Expire(q)
    \/ Change

Spec == Init /\ [][Next]_checkoutVars

-----------------------------------------------------------------------------
\* One quote makes one order, for the target it was made for and at its USD
\* price; with the legacy ledger at the very amount quoted (the exact ledger
\* converts again); and the base of that price is the one its product had when the
\* checkout began, whatever was quoted before.  Two orders of one target await
\* confirmation together only if their checkouts overlapped.
CheckoutSound ==
    /\ \A o, p \in Placed : o # p => order[o].quote # order[p].quote
    /\ \A o \in Placed :
        LET q == quote[order[o].quote] IN
        /\ order[o].target = q.target /\ order[o].usd = q.usd
        /\ order[o].offered = q.base
        /\ ~exact => order[o].charged = q.price
    /\ \A o, p \in Placed :
        o # p /\ order[o].target = order[p].target /\ order[o].alone /\ order[p].alone =>
            order[o].resolved \/ order[p].resolved
=============================================================================
