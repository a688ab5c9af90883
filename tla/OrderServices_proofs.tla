------------------------- MODULE OrderServices_proofs --------------------------
(***************************************************************************)
(* What is proved about the components of OrderServices for every value of *)
(* their constants: what a reseller was told of an order_uuid stays true,  *)
(* an order keeps the price its checkout began with, the Hago session in   *)
(* use is that of the latest challenge, and a target order is made and     *)
(* decided once.  Each component has an inductive invariant of its own.    *)
(***************************************************************************)
EXTENDS OrderServices, FiniteSetTheorems, TLAPS

----------------------------------------------------------------------------
(* ResellerApi: what a reseller was told of an order_uuid stays true. *)


ResellerOrders == [user : Resellers \cup {None}, uuid : Uuids \cup {None},
                   id : PublicIds \cup {None}]
ResellerRequests == [at : {"idle", "assign", "map"}, user : Resellers \cup {None},
             uuid : Uuids \cup {None}, order : Orders \cup {None}, attempt : Int]

ResellerType ==
    /\ placedOrder \in [Orders -> ResellerOrders]
    /\ purchase \in [Calls -> ResellerRequests]
    /\ \A c \in Calls : purchase[c].at # "idle" =>
          /\ purchase[c].order \in Orders /\ purchase[c].user \in Resellers
          /\ placedOrder[purchase[c].order].user = purchase[c].user

\* One document per reseller and uuid, one per public id: what the two unique
\* indexes give.
OneDocument ==
    \A o, p \in Orders :
        /\ placedOrder[o].user # None /\ placedOrder[o].user = placedOrder[p].user
              /\ placedOrder[o].uuid = placedOrder[p].uuid
              => o = p
        /\ placedOrder[o].id # None /\ placedOrder[o].id = placedOrder[p].id => o = p

\* Answers name a stored order of the reseller; its id was unknown or is final.
ToldStays ==
    \A x \in told :
        /\ x.order \in Orders /\ x.user \in Resellers
        /\ placedOrder[x.order].user = x.user /\ placedOrder[x.order].uuid = x.uuid
        /\ x.id # None => placedOrder[x.order].id = x.id

ResellerInv == ResellerType /\ OneDocument /\ ToldStays

LEMMA ToldIsSound ==
    ASSUME None \notin Resellers, ResellerInv
    PROVE  Reseller!ResellerSound
BY DEF ResellerInv, OneDocument, ToldStays, Reseller!ResellerSound

LEMMA ResellerInitHasInv ==
    ASSUME None \notin Resellers, Reseller!Init
    PROVE  ResellerInv
<1>1. PICK old \in SUBSET Orders : \E owned \in [old -> Resellers \X Uuids] :
         /\ \A o, p \in old : o # p => owned[o] # owned[p]
         /\ placedOrder = [o \in Orders |->
                       IF o \in old
                       THEN [user |-> owned[o][1], uuid |-> owned[o][2], id |-> None]
                       ELSE Reseller!NoOrder]
  BY DEF Reseller!Init
<1>2. PICK owned \in [old -> Resellers \X Uuids] :
         /\ \A o, p \in old : o # p => owned[o] # owned[p]
         /\ placedOrder = [o \in Orders |->
                       IF o \in old
                       THEN [user |-> owned[o][1], uuid |-> owned[o][2], id |-> None]
                       ELSE Reseller!NoOrder]
  BY <1>1
<1>3. ASSUME NEW o \in old
      PROVE  /\ owned[o][1] \in Resellers /\ owned[o][2] \in Uuids
             /\ owned[o] = <<owned[o][1], owned[o][2]>>
  <2>1. owned[o] \in Resellers \X Uuids
    OBVIOUS
  <2> QED
    BY <2>1
<1>4. \A o, p \in old : o # p => owned[o][1] # owned[p][1] \/ owned[o][2] # owned[p][2]
  <2> SUFFICES ASSUME NEW o \in old, NEW p \in old, owned[o][1] = owned[p][1],
                      owned[o][2] = owned[p][2]
               PROVE  o = p
    OBVIOUS
  <2>1. owned[o] = owned[p]
    BY <1>3, Zenon
  <2> QED
    BY <1>2, <2>1, Zenon
<1>5. \A o \in old : placedOrder[o] = [user |-> owned[o][1], uuid |-> owned[o][2], id |-> None]
  BY <1>2
<1>6. /\ \A o \in Orders \ old : placedOrder[o] = [user |-> None, uuid |-> None, id |-> None]
      /\ placedOrder = [o \in Orders |-> placedOrder[o]]
  BY <1>2 DEF Reseller!NoOrder
<1>7. placedOrder \in [Orders -> ResellerOrders] /\ OneDocument
  <2> DEFINE owner == [o \in old |-> owned[o][1]]
             key == [o \in old |-> owned[o][2]]
  <2>1. \A o \in old : owner[o] \in Resellers /\ key[o] \in Uuids
    BY <1>3, Zenon
  <2>2. \A o, p \in old : o # p => owner[o] # owner[p] \/ key[o] # key[p]
    BY <1>4, Zenon
  <2>3. \A o \in old : placedOrder[o] = [user |-> owner[o], uuid |-> key[o], id |-> None]
    BY <1>5, Zenon
  <2> HIDE DEF owner, key
  <2>4. \A o \in old : /\ placedOrder[o] \in ResellerOrders /\ placedOrder[o].id = None
                       /\ placedOrder[o].user = owner[o] /\ placedOrder[o].uuid = key[o]
    <3> TAKE o \in old
    <3>1. placedOrder[o] = [user |-> owner[o], uuid |-> key[o], id |-> None]
      BY <2>3
    <3> QED
      BY <2>1, <3>1 DEF ResellerOrders
  <2>5. \A o \in Orders \ old : /\ placedOrder[o] \in ResellerOrders /\ placedOrder[o].id = None
                                /\ placedOrder[o].user = None
    <3> TAKE o \in Orders \ old
    <3>1. placedOrder[o] = [user |-> None, uuid |-> None, id |-> None]
      BY <1>6
    <3> QED
      BY <3>1 DEF ResellerOrders
  <2>6. OneDocument
    <3> SUFFICES ASSUME NEW o \in Orders, NEW p \in Orders, placedOrder[o].user # None,
                        placedOrder[o].user = placedOrder[p].user,
                        placedOrder[o].uuid = placedOrder[p].uuid
                 PROVE  o = p
      BY <2>4, <2>5 DEF OneDocument
    <3>1. o \in old /\ p \in old
      BY <2>5
    <3> QED
      BY <2>2, <2>4, <3>1
  <2>7. \A o \in Orders : placedOrder[o] \in ResellerOrders
    BY <2>4, <2>5, Zenon
  <2> QED
    BY <1>6, <2>6, <2>7
<1>8. purchase = [c \in Calls |-> Reseller!Idle] /\ told = {}
  BY DEF Reseller!Init
<1>9. Reseller!Idle \in ResellerRequests /\ Reseller!Idle.at = "idle"
  BY DEF Reseller!Idle, ResellerRequests
<1>10. purchase \in [Calls -> ResellerRequests] /\ \A c \in Calls : purchase[c].at = "idle"
  BY <1>8, <1>9
<1> QED
  BY <1>7, <1>8, <1>10 DEF ResellerInv, ResellerType, ToldStays

LEMMA PlaceKeepsInv ==
    ASSUME None \notin Resellers, None \notin PublicIds, ResellerInv,
           NEW c \in Calls, NEW u \in Resellers, NEW uuid \in Uuids, Reseller!PlaceOrder(c, u, uuid)
    PROVE  ResellerInv'
<1> USE DEF ResellerInv, ResellerType
<1>1. ASSUME NEW o \in Reseller!Stored, placedOrder[o].user = u, placedOrder[o].uuid = uuid,
             NEW at \in {"assign", "map"},
             purchase' = [purchase EXCEPT ![c] = [at |-> at, user |-> u, uuid |-> uuid, order |-> o,
                                                attempt |-> 0]],
             UNCHANGED placedOrder
      PROVE  ResellerInv'
  <2>1. [at |-> at, user |-> u, uuid |-> uuid, order |-> o, attempt |-> 0] \in ResellerRequests
    BY DEF ResellerRequests, Reseller!Stored
  <2>2. ResellerType'
    BY <1>1, <2>1 DEF Reseller!Stored
  <2> QED
    BY <1>1, <2>2 DEF Reseller!PlaceOrder, OneDocument, ToldStays
<1>2. ASSUME ~\E o \in Reseller!Stored : placedOrder[o].user = u /\ placedOrder[o].uuid = uuid,
             NEW o \in Orders \ Reseller!Stored, NEW id \in PublicIds, ~Reseller!Taken(id),
             placedOrder' = [placedOrder EXCEPT ![o] = [user |-> u, uuid |-> uuid, id |-> id]],
             purchase' = [purchase EXCEPT ![c] = [at |-> "map", user |-> u, uuid |-> uuid,
                                                order |-> o, attempt |-> 0]]
      PROVE  ResellerInv'
  <2>1. /\ [at |-> "map", user |-> u, uuid |-> uuid, order |-> o, attempt |-> 0] \in ResellerRequests
        /\ [user |-> u, uuid |-> uuid, id |-> id] \in ResellerOrders
    BY DEF ResellerRequests, ResellerOrders
  <2>2. \A p \in Orders : p # o => placedOrder'[p] = placedOrder[p]
    BY <1>2
  <2>3. placedOrder'[o] = [user |-> u, uuid |-> uuid, id |-> id] /\ placedOrder[o].user = None
    BY <1>2 DEF Reseller!Stored
  <2>4. ResellerType'
    BY <1>2, <2>1, <2>2, <2>3
  <2>5. OneDocument'
    BY <1>2, <2>2, <2>3 DEF OneDocument, Reseller!Stored, Reseller!Taken
  <2>6. ToldStays'
    BY <2>2, <2>3 DEF ToldStays, Reseller!PlaceOrder
  <2> QED
    BY <2>4, <2>5, <2>6
<1> QED
  BY <1>1, <1>2 DEF Reseller!PlaceOrder

LEMMA EnsureKeepsInv ==
    ASSUME None \notin Resellers, None \notin PublicIds, ResellerInv, NEW c \in Calls,
           Reseller!EnsureCompatOrderId(c)
    PROVE  ResellerInv'
<1> DEFINE o == purchase[c].order
<1> USE DEF ResellerInv, ResellerType
<1>1. o \in Orders /\ purchase[c] \in ResellerRequests /\ placedOrder[o] \in ResellerOrders
  BY DEF Reseller!EnsureCompatOrderId
<1>2. ASSUME NEW id \in PublicIds, Reseller!Unassigned(o), ~Reseller!Taken(id),
             placedOrder' = [placedOrder EXCEPT ![o].id = id],
             purchase' = [purchase EXCEPT ![c].at = "map"]
      PROVE  ResellerInv'
  <2>1. /\ \A p \in Orders : p # o => placedOrder'[p] = placedOrder[p]
        /\ placedOrder'[o].user = placedOrder[o].user /\ placedOrder'[o].uuid = placedOrder[o].uuid
        /\ placedOrder'[o].id = id /\ placedOrder[o].id = None
        /\ placedOrder' \in [Orders -> ResellerOrders]
    BY <1>1, <1>2 DEF Reseller!Unassigned, ResellerOrders
  <2>2. /\ purchase' \in [Calls -> ResellerRequests]
        /\ \A d \in Calls : /\ purchase'[d].order = purchase[d].order
                            /\ purchase'[d].user = purchase[d].user
                            /\ d # c => purchase'[d].at = purchase[d].at
    BY <1>1, <1>2 DEF ResellerRequests
  <2>3. ResellerType'
    BY <2>1, <2>2 DEF Reseller!EnsureCompatOrderId
  <2>4. OneDocument'
    BY <1>2, <2>1 DEF OneDocument, Reseller!Taken
  <2>5. ToldStays'
    BY <2>1 DEF ToldStays, Reseller!EnsureCompatOrderId
  <2> QED
    BY <2>3, <2>4, <2>5
<1>3. ASSUME UNCHANGED placedOrder,
             \/ purchase' = [purchase EXCEPT ![c].at = "map"]
             \/ purchase' = [purchase EXCEPT ![c].attempt = @ + 1]
      PROVE  ResellerInv'
  <2>1. /\ purchase' \in [Calls -> ResellerRequests]
        /\ \A d \in Calls : /\ purchase'[d].order = purchase[d].order
                            /\ purchase'[d].user = purchase[d].user
                            /\ d # c => purchase'[d].at = purchase[d].at
    <3>1. purchase[c].attempt + 1 \in Int
      BY <1>1 DEF ResellerRequests
    <3> QED
      BY <1>1, <1>3, <3>1 DEF ResellerRequests
  <2>2. ResellerType'
    BY <1>3, <2>1 DEF Reseller!EnsureCompatOrderId
  <2> QED
    BY <1>3, <2>2 DEF OneDocument, ToldStays, Reseller!EnsureCompatOrderId
<1> QED
  BY <1>2, <1>3 DEF Reseller!EnsureCompatOrderId

LEMMA ResellerNextKeepsInv ==
    ASSUME None \notin Resellers, None \notin PublicIds, ResellerInv,
           [Reseller!Next]_Reseller!resellerVars
    PROVE  ResellerInv'
<1> USE DEF ResellerInv, ResellerType
<1>1. ASSUME NEW c \in Calls, Reseller!GiveUp(c) PROVE ResellerInv'
  BY <1>1 DEF Reseller!GiveUp, Reseller!Idle, ResellerRequests, OneDocument, ToldStays
<1>2. ASSUME NEW c \in Calls, Reseller!Answer(c) PROVE ResellerInv'
  <2>1. ResellerType' /\ OneDocument'
    BY <1>2 DEF Reseller!Answer, Reseller!Idle, ResellerRequests, OneDocument
  <2>2. ToldStays'
    BY <1>2 DEF Reseller!Answer, ToldStays
  <2> QED
    BY <2>1, <2>2
<1>3. ASSUME NEW u \in Resellers, NEW key \in PublicIds \cup Uuids, Reseller!ListOrders(u, key)
      PROVE  ResellerInv'
  <2>1. ResellerType' /\ OneDocument'
    BY <1>3 DEF Reseller!ListOrders, OneDocument
  <2>2. ToldStays'
    BY <1>3 DEF Reseller!ListOrders, ToldStays, Reseller!Stored
  <2> QED
    BY <2>1, <2>2
<1>4. CASE Reseller!Unlist
  BY <1>4 DEF Reseller!Unlist, OneDocument, ToldStays
<1>5. CASE UNCHANGED Reseller!resellerVars
  BY <1>5 DEF Reseller!resellerVars, OneDocument, ToldStays
<1> HIDE DEF ResellerInv, ResellerType
<1> QED
  BY <1>1, <1>2, <1>3, <1>4, <1>5, PlaceKeepsInv, EnsureKeepsInv DEF Reseller!Next

\* However often and however concurrently an order_uuid is repeated, it stands for
\* one order of the reseller, whose public id, once told, does not change
\* (ensureCompatOrderId); no other reseller is told of it.
THEOREM UuidsStandForOrders == Reseller!Spec => []ResellerSound
<1> USE ShopAssumption
<1>1. Reseller!Init => ResellerInv
  BY ResellerInitHasInv
<1>2. ResellerInv /\ [Reseller!Next]_Reseller!resellerVars => ResellerInv'
  BY ResellerNextKeepsInv
<1>3. ResellerInv => ResellerSound
  BY ToldIsSound DEF ResellerSound
<1> QED
  BY <1>1, <1>2, <1>3, PTL DEF Reseller!Spec

----------------------------------------------------------------------------
(* NobilityCheckout: one quote makes one order, of what was quoted. *)


QuoteDocuments == [target : Recipients \cup {None}, base : Int, usd : Int, price : Int,
                   currency : Nobility!Currencies \cup {None}]
HagoOrders == [quote : Quotes \cup {None}, target : Recipients \cup {None}, usd : Int,
                   charged : Int, offered : Int, resolved : BOOLEAN, alone : BOOLEAN]
CheckoutRequests == [at : {"idle", "quote", "prepare", "debit"}, quote : Quotes \cup {None},
             target : Recipients \cup {None}, price : Int, alone : BOOLEAN]

SaneCheckout ==
    /\ None \notin Quotes \cup Recipients
    /\ Prices \subseteq Int /\ Rates \subseteq Int /\ GroupMarkups \subseteq Int

CheckoutType ==
    /\ article.price \in Prices /\ rate \in Rates /\ currency \in Nobility!Currencies
    /\ quote \in [Quotes -> QuoteDocuments]
    /\ bought \in [Orders -> HagoOrders]
    /\ checkout \in [Calls -> CheckoutRequests]

InCheckout(c) == checkout[c].at \in {"prepare", "debit"}

\* A quote is a document before a checkout debits for it, and the debit is at the
\* price and for the target it says.
CallsMean ==
    /\ \A c \in Calls : checkout[c].at = "quote" => checkout[c].target \in Recipients
    /\ \A c \in Calls : InCheckout(c) =>
          checkout[c].quote \in Quotes /\ checkout[c].target \in Recipients
    /\ \A c \in Calls : checkout[c].at = "debit" =>
          /\ quote[checkout[c].quote].target = checkout[c].target
          /\ quote[checkout[c].quote].base = checkout[c].price

\* What an order says of its quote, which is a document for good.
OrderMeans(o) ==
    bought[o].quote # None =>
        /\ quote[bought[o].quote].target \in Recipients
        /\ bought[o].target = quote[bought[o].quote].target
        /\ bought[o].usd = quote[bought[o].quote].usd
        /\ bought[o].offered = quote[bought[o].quote].base
        /\ ~exact => bought[o].charged = quote[bought[o].quote].price

OneOrder == \A o, p \in Nobility!Placed : o # p => bought[o].quote # bought[p].quote

\* Checkouts that began without another one do not overlap, and find no unresolved
\* order of such a checkout for their target.
AloneMeans ==
    /\ \A c, d \in Calls : InCheckout(c) /\ InCheckout(d) /\ checkout[c].alone /\ checkout[d].alone
                              => c = d
    /\ \A c \in Calls, o \in Nobility!Placed :
          InCheckout(c) /\ checkout[c].alone /\ bought[o].alone
             /\ bought[o].target = checkout[c].target
              => bought[o].resolved
    /\ \A o, p \in Nobility!Placed :
          (o # p /\ bought[o].target = bought[p].target /\ bought[o].alone /\ bought[p].alone)
              => (bought[o].resolved \/ bought[p].resolved)

CheckoutInv ==
    CheckoutType /\ CallsMean /\ (\A o \in Orders : OrderMeans(o)) /\ OneOrder /\ AloneMeans

LEMMA CheckoutInvIsSound == CheckoutInv => Nobility!CheckoutSound
BY DEF CheckoutInv, OrderMeans, OneOrder, AloneMeans, Nobility!CheckoutSound, Nobility!Placed

LEMMA CheckoutInitHasInv == ASSUME SaneCheckout, Nobility!Init PROVE CheckoutInv
<1>1. CheckoutType
  BY DEF Nobility!Init, SaneCheckout, CheckoutType, QuoteDocuments, HagoOrders,
     CheckoutRequests, Nobility!NoQuote, Nobility!NoOrder,
         Nobility!Idle, Nobility!Currencies
<1>2. /\ CallsMean /\ Nobility!Placed = {} /\ \A c \in Calls : ~InCheckout(c)
      /\ \A o \in Orders : OrderMeans(o)
  BY DEF Nobility!Init, CallsMean, InCheckout, OrderMeans, Nobility!Placed, Nobility!NoOrder,
     Nobility!Idle
<1>3. OneOrder /\ AloneMeans
  BY <1>2 DEF OneOrder, AloneMeans
<1> QED
  BY <1>1, <1>2, <1>3 DEF CheckoutInv

\* A request that begins, or ends, a step that writes no order.
LEMMA CheckoutCallStep ==
    ASSUME SaneCheckout, CheckoutInv, NEW c \in Calls, NEW next \in CheckoutRequests,
           checkout' = [checkout EXCEPT ![c] = next], UNCHANGED <<exact, quote, bought>>,
           article'.price \in Prices, rate' \in Rates, currency' \in Nobility!Currencies,
           next.at = "quote" => next.target \in Recipients,
           next.at \in {"prepare", "debit"} =>
               /\ next.quote \in Quotes /\ next.target \in Recipients
               /\ \/ /\ InCheckout(c)
                     /\ next.alone = checkout[c].alone /\ next.target = checkout[c].target
                  \/ /\ Nobility!Unresolved(next.target) = {}
                     /\ next.alone => \A d \in Calls : ~InCheckout(d),
           next.at = "debit" => /\ quote[next.quote].target = next.target
                                /\ quote[next.quote].base = next.price
    PROVE  CheckoutInv'
<1>1. CheckoutType'
  BY DEF CheckoutInv, CheckoutType
<1>2. \A d \in Calls : checkout'[d] = IF d = c THEN next ELSE checkout[d]
  BY DEF CheckoutInv, CheckoutType
<1>3. CallsMean'
  BY <1>2 DEF CheckoutInv, CallsMean, InCheckout
<1>4. (\A o \in Orders : OrderMeans(o)') /\ OneOrder' /\ Nobility!Placed' = Nobility!Placed
  BY DEF CheckoutInv, OrderMeans, OneOrder, Nobility!Placed
<1>5. AloneMeans'
  <2>1. ASSUME NEW b \in Calls, NEW d \in Calls, InCheckout(b)', InCheckout(d)',
               checkout'[b].alone, checkout'[d].alone
        PROVE  b = d
    <3>1. CASE b = c /\ d # c
      BY <1>2, <2>1, <3>1 DEF CheckoutInv, AloneMeans, InCheckout
    <3>2. CASE b # c /\ d = c
      BY <1>2, <2>1, <3>2 DEF CheckoutInv, AloneMeans, InCheckout
    <3>3. CASE b # c /\ d # c
      BY <1>2, <2>1, <3>3 DEF CheckoutInv, AloneMeans, InCheckout
    <3> QED
      BY <3>1, <3>2, <3>3
  <2>2. ASSUME NEW d \in Calls, NEW o \in Nobility!Placed, InCheckout(d)', checkout'[d].alone,
               bought[o].alone, bought[o].target = checkout'[d].target
        PROVE  bought[o].resolved
    <3>1. CASE d # c
      BY <1>2, <2>2, <3>1 DEF CheckoutInv, AloneMeans, InCheckout
    <3>2. CASE d = c
      BY <1>2, <2>2, <3>2 DEF CheckoutInv, AloneMeans, InCheckout, Nobility!Unresolved
    <3> QED
      BY <3>1, <3>2
  <2>3. \A o, p \in Nobility!Placed :
          (o # p /\ bought[o].target = bought[p].target /\ bought[o].alone /\ bought[p].alone)
              => (bought[o].resolved \/ bought[p].resolved)
    BY DEF CheckoutInv, AloneMeans
  <2> QED
    BY <1>4, <2>1, <2>2, <2>3 DEF AloneMeans
<1> QED
  BY <1>1, <1>3, <1>4, <1>5 DEF CheckoutInv

LEMMA CheckoutReturnStep ==
    ASSUME SaneCheckout, CheckoutInv, NEW c \in Calls, Nobility!Return(c),
           UNCHANGED <<exact, article, rate, currency, quote, bought>>
    PROVE  CheckoutInv'
<1>1. Nobility!Idle \in CheckoutRequests /\ Nobility!Idle.at = "idle"
  BY DEF Nobility!Idle, CheckoutRequests
<1>2. article.price \in Prices /\ rate \in Rates /\ currency \in Nobility!Currencies
  BY DEF CheckoutInv, CheckoutType
<1> QED
  BY <1>1, <1>2, CheckoutCallStep DEF Nobility!Return

LEMMA CheckoutBeginStep ==
    ASSUME SaneCheckout, CheckoutInv, NEW c \in Calls,
           \/ \E to \in Recipients : Nobility!ResolveProduct(c, to)
           \/ \E q \in Quotes, to \in Recipients : Nobility!StartCheckout(c, q, to)
           \/ Nobility!PrepareOrder(c)
    PROVE  CheckoutInv'
<1>0. article.price \in Int /\ article.price \in Prices /\ rate \in Rates
      /\ currency \in Nobility!Currencies /\ checkout[c] \in CheckoutRequests
  BY DEF CheckoutInv, CheckoutType, SaneCheckout
<1>1. ASSUME NEW to \in Recipients, Nobility!ResolveProduct(c, to) PROVE CheckoutInv'
  <2> PICK next : next = [Nobility!Idle EXCEPT !.at = "quote", !.target = to, !.price = article.price]
    OBVIOUS
  <2>1. next \in CheckoutRequests /\ next.at = "quote" /\ next.target = to
    BY <1>0 DEF Nobility!Idle, CheckoutRequests
  <2> QED
    BY <1>0, <1>1, <2>1, CheckoutCallStep DEF Nobility!ResolveProduct
<1>2. ASSUME NEW q \in Quotes, NEW to \in Recipients, Nobility!StartCheckout(c, q, to)
      PROVE  CheckoutInv'
  <2> PICK next : next = [at |-> "prepare", quote |-> q, target |-> to,
                          price |-> article.price,
                          alone |-> \A d \in Calls : checkout[d].at # "debit"
                                                    /\ checkout[d].at # "prepare"]
    OBVIOUS
  <2>1. /\ next.at = "prepare" /\ next.quote = q /\ next.target = to
        /\ next.price = article.price
        /\ next.alone = (\A d \in Calls : checkout[d].at # "debit" /\ checkout[d].at # "prepare")
        /\ next = [at |-> "prepare", quote |-> q, target |-> to,
                   price |-> article.price, alone |-> next.alone]
    OBVIOUS
  <2>2. next.alone \in BOOLEAN
    BY <2>1, Zenon
  <2>3. next \in CheckoutRequests
    BY <1>0, <2>1, <2>2 DEF CheckoutRequests
  <2>4. next.alone => \A d \in Calls : ~InCheckout(d)
    BY <2>1 DEF InCheckout
  <2>5. checkout' = [checkout EXCEPT ![c] = next]
    BY <1>2, Zenon DEF Nobility!StartCheckout
  <2>6. /\ Nobility!Unresolved(to) = {} /\ article' = article /\ rate' = rate
        /\ currency' = currency /\ UNCHANGED <<exact, quote, bought>>
    BY <1>2 DEF Nobility!StartCheckout
  <2> QED
    BY <1>0, <2>1, <2>3, <2>4, <2>5, <2>6, CheckoutCallStep
<1>3. ASSUME Nobility!PrepareOrder(c) PROVE CheckoutInv'
  <2> PICK q : q = checkout[c].quote
    OBVIOUS
  <2>1. q \in Quotes /\ checkout[c].target \in Recipients /\ InCheckout(c)
    BY <1>3 DEF Nobility!PrepareOrder, CheckoutInv, CallsMean, InCheckout
  <2>2. UNCHANGED <<exact, article, rate, currency, quote, bought>>
    BY <1>3 DEF Nobility!PrepareOrder
  <2>3. CASE Nobility!Return(c)
    BY <2>2, <2>3, CheckoutReturnStep
  <2>4. CASE q \notin over /\ Nobility!Matches(c, q)
    <3> PICK next : next = [checkout[c] EXCEPT !.at = "debit"]
      OBVIOUS
    <3>1. /\ next \in CheckoutRequests /\ next.at = "debit" /\ next.quote = q
          /\ next.target = checkout[c].target /\ next.price = checkout[c].price
          /\ next.alone = checkout[c].alone
      BY <1>0 DEF CheckoutRequests
    <3>2. checkout' = [checkout EXCEPT ![c] = next]
      BY <1>3, <2>4 DEF Nobility!PrepareOrder
    <3>3. quote[q].target = checkout[c].target /\ quote[q].base = checkout[c].price
      BY <2>4 DEF Nobility!Matches
    <3> QED
      BY <1>0, <2>1, <2>2, <3>1, <3>2, <3>3, CheckoutCallStep
  <2> QED
    BY <1>3, <2>3, <2>4 DEF Nobility!PrepareOrder
<1> QED
  BY <1>1, <1>2, <1>3

\* A new quote disturbs no order: it takes a reference that none has.
LEMMA CheckoutQuoteStep ==
    ASSUME SaneCheckout, CheckoutInv, NEW c \in Calls, Nobility!CreateQuote(c)
    PROVE  CheckoutInv'
<1>1. CASE UNCHANGED quote
  BY <1>1, CheckoutReturnStep DEF Nobility!CreateQuote
<1>2. ASSUME NEW q \in Quotes, NEW markup \in GroupMarkups, quote[q].target = None,
             quote' = [quote EXCEPT ![q] =
                 [target |-> checkout[c].target, base |-> checkout[c].price,
                  usd |-> checkout[c].price * markup,
                  price |-> (checkout[c].price * markup) * Nobility!UsedRate,
                  currency |-> currency]]
      PROVE  CheckoutInv'
  <2>1. /\ checkout[c] \in CheckoutRequests /\ currency \in Nobility!Currencies /\ rate \in Int
        /\ checkout[c].target \in Recipients /\ markup \in Int
    BY DEF CheckoutInv, CheckoutType, CallsMean, Nobility!CreateQuote, SaneCheckout
  <2>0. Nobility!UsedRate \in Int
    BY <2>1 DEF Nobility!UsedRate
  <2> PICK usd : usd = checkout[c].price * markup
    OBVIOUS
  <2>2. usd \in Int
    BY <2>1 DEF CheckoutRequests
  <2> PICK price : price = usd * Nobility!UsedRate
    OBVIOUS
  <2>12. price \in Int
    BY <2>0, <2>2
  <2>3. quote' \in [Quotes -> QuoteDocuments]
    BY <1>2, <2>1, <2>2, <2>12 DEF CheckoutInv, CheckoutType, QuoteDocuments, CheckoutRequests
  <2>4. \A r \in Quotes : r # q => quote'[r] = quote[r]
    BY <1>2 DEF CheckoutInv, CheckoutType
  <2>5. \A d \in Calls : checkout'[d] = IF d = c THEN Nobility!Idle ELSE checkout[d]
    BY DEF Nobility!CreateQuote, Nobility!Return, CheckoutInv, CheckoutType
  <2>6. UNCHANGED <<exact, article, rate, currency, bought>>
    BY DEF Nobility!CreateQuote
  <2>7. CheckoutType'
    <3>1. checkout' \in [Calls -> CheckoutRequests]
      BY DEF Nobility!CreateQuote, Nobility!Return, CheckoutInv, CheckoutType, Nobility!Idle,
         CheckoutRequests
    <3> QED
      BY <2>3, <2>6, <3>1 DEF CheckoutInv, CheckoutType
  <2>8. \A d \in Calls : InCheckout(d)' => InCheckout(d) /\ checkout'[d] = checkout[d]
    BY <2>5 DEF InCheckout, Nobility!Idle
  <2>9. CallsMean'
    <3>1. \A d \in Calls : checkout'[d].at = "quote" => checkout'[d].target \in Recipients
      BY <2>5 DEF CheckoutInv, CallsMean, Nobility!Idle
    <3>2. ASSUME NEW d \in Calls, checkout'[d].at = "debit"
          PROVE  /\ quote'[checkout'[d].quote].target = checkout'[d].target
                 /\ quote'[checkout'[d].quote].base = checkout'[d].price
      <4>1. InCheckout(d) /\ checkout'[d] = checkout[d]
        BY <2>8, <3>2 DEF InCheckout
      <4>2. /\ checkout[d].quote \in Quotes /\ checkout[d].target \in Recipients
            /\ quote[checkout[d].quote].target = checkout[d].target
            /\ quote[checkout[d].quote].base = checkout[d].price
        BY <3>2, <4>1 DEF CheckoutInv, CallsMean
      <4>3. checkout[d].quote # q
        BY <1>2, <4>2 DEF SaneCheckout
      <4> QED
        BY <2>4, <4>1, <4>2, <4>3
    <3> QED
      BY <2>8, <3>1, <3>2 DEF CheckoutInv, CallsMean
  <2>10. ASSUME NEW o \in Orders PROVE OrderMeans(o)'
    <3>1. bought[o] \in HagoOrders /\ OrderMeans(o)
      BY DEF CheckoutInv, CheckoutType
    <3>2. CASE bought[o].quote = None
      BY <2>6, <3>2 DEF OrderMeans
    <3>3. CASE bought[o].quote # None
      <4>1. bought[o].quote \in Quotes /\ bought[o].quote # q
        BY <1>2, <3>1, <3>3 DEF OrderMeans, HagoOrders, SaneCheckout
      <4> QED
        BY <2>4, <2>6, <3>1, <4>1 DEF OrderMeans
    <3> QED
      BY <3>2, <3>3
  <2>11. OneOrder' /\ AloneMeans'
    BY <2>6, <2>8 DEF CheckoutInv, OneOrder, AloneMeans, Nobility!Placed
  <2> QED
    BY <2>7, <2>9, <2>10, <2>11 DEF CheckoutInv
<1> QED
  BY <1>1, <1>2 DEF Nobility!CreateQuote

LEMMA CheckoutOrderStep ==
    ASSUME SaneCheckout, CheckoutInv, NEW c \in Calls, Nobility!CreateOrder(c)
    PROVE  CheckoutInv'
<1> PICK q : q = checkout[c].quote
  OBVIOUS
<1>1. CASE UNCHANGED bought
  BY <1>1, CheckoutReturnStep DEF Nobility!CreateOrder
<1>2. ASSUME NEW o \in Orders \ Nobility!Placed, \A p \in Nobility!Placed : bought[p].quote # q,
             bought' = [bought EXCEPT ![o] =
                            [quote |-> q, target |-> quote[q].target, usd |-> quote[q].usd,
                             charged |-> IF exact THEN quote[q].usd * Nobility!UsedRate ELSE quote[q].price,
                             offered |-> checkout[c].price, resolved |-> FALSE,
                             alone |-> checkout[c].alone]]
      PROVE  CheckoutInv'
  <2>1. /\ checkout[c] \in CheckoutRequests /\ InCheckout(c) /\ q \in Quotes
        /\ quote[q].target = checkout[c].target /\ checkout[c].target \in Recipients
        /\ quote[q].base = checkout[c].price /\ quote[q] \in QuoteDocuments
    BY DEF CheckoutInv, CheckoutType, CallsMean, Nobility!CreateOrder, InCheckout
  <2>2. Nobility!UsedRate \in Int
    BY DEF CheckoutInv, CheckoutType, SaneCheckout, Nobility!UsedRate
  <2> PICK charged : charged = IF exact THEN quote[q].usd * Nobility!UsedRate ELSE quote[q].price
    OBVIOUS
  <2>3. charged \in Int /\ (~exact => charged = quote[q].price)
    BY <2>1, <2>2 DEF QuoteDocuments
  <2> PICK new : new = [quote |-> q, target |-> quote[q].target, usd |-> quote[q].usd,
                        charged |-> charged, offered |-> checkout[c].price, resolved |-> FALSE,
                        alone |-> checkout[c].alone]
    OBVIOUS
  <2>4. new \in HagoOrders
    BY <2>1, <2>3 DEF HagoOrders, QuoteDocuments, CheckoutRequests
  <2>5. /\ new.quote = q /\ new.target = quote[q].target /\ new.usd = quote[q].usd
        /\ new.charged = charged /\ new.offered = checkout[c].price /\ ~new.resolved
        /\ new.alone = checkout[c].alone
    OBVIOUS
  <2>6. bought' = [bought EXCEPT ![o] = new]
    BY <1>2
  <2>7. bought'[o] = new /\ \A p \in Orders : p # o => bought'[p] = bought[p]
    BY <2>6 DEF CheckoutInv, CheckoutType
  <2>8. Nobility!Placed' = Nobility!Placed \cup {o}
    BY <1>2, <2>1, <2>5, <2>7 DEF Nobility!Placed, SaneCheckout
  <2>9. \A d \in Calls : checkout'[d] = IF d = c THEN Nobility!Idle ELSE checkout[d]
    BY DEF Nobility!CreateOrder, Nobility!Return, CheckoutInv, CheckoutType
  <2>10. UNCHANGED <<exact, article, rate, currency, quote>>
    BY DEF Nobility!CreateOrder
  <2>11. CheckoutType'
    <3>1. checkout' \in [Calls -> CheckoutRequests]
      BY DEF Nobility!CreateOrder, Nobility!Return, CheckoutInv, CheckoutType, Nobility!Idle,
         CheckoutRequests
    <3>2. bought' \in [Orders -> HagoOrders]
      BY <2>4, <2>6 DEF CheckoutInv, CheckoutType
    <3> QED
      BY <2>10, <3>1, <3>2 DEF CheckoutInv, CheckoutType
  <2>12. \A d \in Calls : InCheckout(d)' => InCheckout(d) /\ checkout'[d] = checkout[d] /\ d # c
    BY <2>9 DEF InCheckout, Nobility!Idle
  <2>13. CallsMean'
    <3>1. \A d \in Calls : checkout'[d].at = "quote" => checkout'[d].target \in Recipients
      BY <2>9 DEF CheckoutInv, CallsMean, Nobility!Idle
    <3>2. \A d \in Calls : checkout'[d].at = "debit" =>
             /\ quote'[checkout'[d].quote].target = checkout'[d].target
             /\ quote'[checkout'[d].quote].base = checkout'[d].price
      BY <2>9, <2>10 DEF CheckoutInv, CallsMean, Nobility!Idle
    <3> QED
      BY <2>12, <3>1, <3>2 DEF CheckoutInv, CallsMean
  <2>14. ASSUME NEW p \in Orders PROVE OrderMeans(p)'
    <3>1. CASE p = o
      BY <2>1, <2>3, <2>5, <2>7, <2>10, <3>1 DEF OrderMeans
    <3>2. CASE p # o
      BY <2>7, <2>10, <3>2 DEF CheckoutInv, OrderMeans
    <3> QED
      BY <3>1, <3>2
  <2>15. OneOrder'
    <3>1. \A p \in Nobility!Placed : p \in Orders /\ p # o /\ bought'[p] = bought[p]
      BY <1>2, <2>7 DEF Nobility!Placed
    <3> QED
      BY <1>2, <2>5, <2>7, <2>8, <3>1 DEF CheckoutInv, OneOrder
  <2>16. AloneMeans'
    <3>1. \A p \in Nobility!Placed : p \in Orders /\ p # o /\ bought'[p] = bought[p]
      BY <1>2, <2>7 DEF Nobility!Placed
    <3>2. \A b, d \in Calls :
             (InCheckout(b)' /\ InCheckout(d)' /\ checkout'[b].alone /\ checkout'[d].alone) => b = d
      BY <2>12 DEF CheckoutInv, AloneMeans
    <3>3. ASSUME NEW d \in Calls, NEW p \in Nobility!Placed', InCheckout(d)', checkout'[d].alone,
                 bought'[p].alone, bought'[p].target = checkout'[d].target
          PROVE  bought'[p].resolved
      <4>1. InCheckout(d) /\ checkout'[d] = checkout[d] /\ d # c
        BY <2>12, <3>3
      <4>2. CASE p = o
        BY <2>1, <2>5, <2>7, <3>3, <4>1, <4>2 DEF CheckoutInv, AloneMeans
      <4>3. CASE p # o
        BY <2>8, <3>1, <3>3, <4>1, <4>3 DEF CheckoutInv, AloneMeans
      <4> QED
        BY <4>2, <4>3
    <3>4. ASSUME NEW p \in Nobility!Placed, new.alone, bought[p].alone, bought[p].target = new.target
          PROVE  bought[p].resolved
      BY <2>1, <2>5, <3>4 DEF CheckoutInv, AloneMeans
    <3>5. ASSUME NEW p \in Nobility!Placed', NEW r \in Nobility!Placed', p # r,
                 bought'[p].target = bought'[r].target,
                 bought'[p].alone, bought'[r].alone
          PROVE  bought'[p].resolved \/ bought'[r].resolved
      <4>1. CASE p = o
        BY <2>7, <2>8, <3>1, <3>4, <3>5, <4>1
      <4>2. CASE r = o
        BY <2>7, <2>8, <3>1, <3>4, <3>5, <4>2
      <4>3. CASE p # o /\ r # o
        BY <2>8, <3>1, <3>5, <4>3 DEF CheckoutInv, AloneMeans
      <4> QED
        BY <4>1, <4>2, <4>3
    <3> QED
      BY <3>2, <3>3, <3>5 DEF AloneMeans
  <2> QED
    BY <2>11, <2>13, <2>14, <2>15, <2>16 DEF CheckoutInv
<1> QED
  BY <1>1, <1>2 DEF Nobility!CreateOrder

LEMMA CheckoutResolveStep ==
    ASSUME SaneCheckout, CheckoutInv, NEW o \in Orders, Nobility!Resolve(o)
    PROVE  CheckoutInv'
<1>1. bought[o] \in HagoOrders
  BY DEF CheckoutInv, CheckoutType
<1> PICK new : new = [bought[o] EXCEPT !.resolved = TRUE]
  OBVIOUS
<1>2. /\ new \in HagoOrders /\ new.quote = bought[o].quote /\ new.target = bought[o].target
      /\ new.usd = bought[o].usd /\ new.charged = bought[o].charged /\ new.resolved
      /\ new.offered = bought[o].offered /\ new.alone = bought[o].alone
  BY <1>1 DEF HagoOrders
<1>3. bought' = [bought EXCEPT ![o] = new]
  BY DEF Nobility!Resolve
<1>4. bought'[o] = new /\ \A p \in Orders : p # o => bought'[p] = bought[p]
  BY <1>3 DEF CheckoutInv, CheckoutType
<1>5. UNCHANGED <<exact, article, rate, currency, quote, checkout>>
  BY DEF Nobility!Resolve
<1>6. CheckoutType'
  BY <1>2, <1>3, <1>5 DEF CheckoutInv, CheckoutType
<1>7. \A p \in Orders : /\ bought'[p].quote = bought[p].quote /\ bought'[p].target = bought[p].target
                        /\ bought'[p].usd = bought[p].usd /\ bought'[p].charged = bought[p].charged
                        /\ bought'[p].offered = bought[p].offered
                        /\ bought'[p].alone = bought[p].alone
                        /\ bought[p].resolved => bought'[p].resolved
  BY <1>2, <1>4
<1>8. CallsMean' /\ \A p \in Orders : OrderMeans(p)'
  BY <1>5, <1>7 DEF CheckoutInv, CallsMean, InCheckout, OrderMeans
<1>9. Nobility!Placed' = Nobility!Placed /\ \A p \in Nobility!Placed : p \in Orders
  BY <1>7 DEF Nobility!Placed
<1>10. OneOrder' /\ AloneMeans'
  BY <1>5, <1>7, <1>9 DEF CheckoutInv, OneOrder, AloneMeans, InCheckout
<1> QED
  BY <1>6, <1>8, <1>10 DEF CheckoutInv

LEMMA CheckoutOtherStep ==
    ASSUME SaneCheckout, CheckoutInv,
           \/ (\E q \in Quotes : Nobility!Expire(q)) \/ Nobility!Change
           \/ UNCHANGED Nobility!checkoutVars
    PROVE  CheckoutInv'
<1>1. UNCHANGED <<exact, quote, bought, checkout>>
  BY DEF Nobility!Expire, Nobility!Change, Nobility!checkoutVars
<1>2. article'.price \in Prices /\ rate' \in Rates /\ currency' \in Nobility!Currencies
  BY DEF Nobility!Expire, Nobility!Change, Nobility!checkoutVars, CheckoutInv, CheckoutType
<1>3. CheckoutType' /\ CallsMean' /\ \A o \in Orders : OrderMeans(o)'
  BY <1>1, <1>2 DEF CheckoutInv, CheckoutType, CallsMean, InCheckout, OrderMeans
<1>4. OneOrder' /\ AloneMeans'
  BY <1>1 DEF CheckoutInv, OneOrder, AloneMeans, InCheckout, Nobility!Placed
<1> QED
  BY <1>3, <1>4 DEF CheckoutInv

\* createQuote, prepareNewOrder and createOrder: an order is what its quote says at
\* the price its checkout began with.
THEOREM QuotesAreKept == Nobility!Spec => []Nobility!CheckoutSound
<1> USE ShopAssumption DEF SaneCheckout
<1>1. CheckoutInv /\ [Nobility!Next]_Nobility!checkoutVars => CheckoutInv'
  BY CheckoutBeginStep, CheckoutQuoteStep, CheckoutOrderStep, CheckoutResolveStep,
     CheckoutOtherStep DEF Nobility!Next
<1>2. Nobility!Init => CheckoutInv
  BY CheckoutInitHasInv
<1> QED
  BY <1>1, <1>2, CheckoutInvIsSound, PTL DEF Nobility!Spec

-----------------------------------------------------------------------------
(* HagoConnection: challenges, codes and sessions.                         *)

\* The document of the connection, and a request's copy of it.
Connections ==
    [id : Hago!Challenges \cup {None}, pending : issued \cup {None},
     status : {"UNKNOWN", "OTP_PENDING", "CONNECTED", "REAUTH_REQUIRED"}]
LoginSteps == {"idle", "tidy", "clear", "challenge", "verify", "validate"}

ConnectionType ==
    /\ issued \subseteq Hago!Challenges
    /\ connection \in Connections
    /\ login \in [Calls -> [at : LoginSteps, copy : Connections]]

\* A pending challenge is the latest; what a request verifies was pending, and what
\* it validates is still connected unless a verification crossed it.
LoginsMean ==
    /\ connection.pending # None => connection.pending = latest
    /\ \A c \in Calls :
        /\ login[c].at = "verify" => login[c].copy.pending # None
        /\ login[c].at = "validate" =>
              /\ connection.id # None
              /\ login[c].copy.id = connection.id \/ crossed

ConnectionInv == ConnectionType /\ LoginsMean /\ Hago!ConnectionSound

LEMMA ConnectionInit ==
    ASSUME Hago!Init PROVE ConnectionInv
BY DEF Hago!Init, Hago!Idle, ConnectionInv, ConnectionType, Connections, LoginSteps, LoginsMean,
       Hago!ConnectionSound

\* What _normalizeDisconnectedOtpPending and _clearInvalidPendingChallenge may change.
LEMMA TidiedDocument ==
    ASSUME NEW doc \in Connections
    PROVE  LET tidied == Hago!Tidied(Hago!Normalised(doc)) IN
           /\ tidied \in Connections /\ tidied.id = doc.id
           /\ tidied.pending \in {None, doc.pending}
           /\ tidied.status \in {"UNKNOWN", doc.status}
<1>1. Hago!Normalised(doc) \in {doc, [doc EXCEPT !.status = "UNKNOWN"]}
  BY DEF Hago!Normalised
<1> DEFINE norm == Hago!Normalised(doc)
<1>2. norm \in Connections /\ norm.id = doc.id /\ norm.pending = doc.pending
      /\ norm.status \in {"UNKNOWN", doc.status}
  BY <1>1 DEF Connections
<1> HIDE DEF norm
<1>3. PICK s \in {"UNKNOWN", norm.status} :
        Hago!Tidied(norm) \in {norm, [norm EXCEPT !.pending = None, !.status = s]}
  BY DEF Hago!Tidied
<1> QED
  BY <1>2, <1>3 DEF Connections, norm

\* A request that only reads the document.
LEMMA ReadStep ==
    ASSUME ConnectionInv, NEW c \in Calls,
           Hago!CreateLoginChallenge(c) \/ Hago!VerifyLoginChallenge(c) \/ Hago!GetConnection(c)
             \/ Hago!ValidateSession(c)
    PROVE  ConnectionInv'
<1>1. PICK at \in LoginSteps :
        /\ login' = [login EXCEPT ![c] = [at |-> at, copy |-> connection]]
        /\ at = "verify" => connection.pending # None
        /\ at = "validate" => connection.id # None
  BY DEF Hago!CreateLoginChallenge, Hago!VerifyLoginChallenge, Hago!GetConnection,
         Hago!ValidateSession, Hago!Await, LoginSteps
<1>2. UNCHANGED <<connection, issued, latest, verified, rejected, crossed>>
  BY DEF Hago!CreateLoginChallenge, Hago!VerifyLoginChallenge, Hago!GetConnection,
         Hago!ValidateSession, Hago!Untouched
<1>3. ConnectionType' /\ LoginsMean'
  BY <1>1, <1>2 DEF ConnectionInv, ConnectionType, Connections, LoginsMean
<1> QED
  BY <1>2, <1>3 DEF ConnectionInv, Hago!ConnectionSound

\* A request that ends, or goes on to ask for a challenge, after saving fields that
\* do not touch the session.
LEMMA SaveStep ==
    ASSUME ConnectionInv, NEW c \in Calls,
           Hago!Tidy(c) \/ Hago!Challenged(c) \/ Hago!Validated(c),
           None \notin Hago!Challenges
    PROVE  ConnectionInv'
<1> DEFINE loaded == login[c].copy
<1>1. loaded \in Connections /\ connection \in Connections
  BY DEF ConnectionInv, ConnectionType
<1>2. Hago!Idle.copy \in Connections /\ Hago!Idle \in [at : LoginSteps, copy : Connections]
      /\ Hago!Idle.at = "idle"
  BY DEF Connections, Hago!Idle, LoginSteps
<1>3. CASE Hago!Tidy(c)
  <2> DEFINE tidied == Hago!Tidied(Hago!Normalised(loaded))
  <2>1. /\ tidied \in Connections /\ tidied.id = loaded.id
        /\ tidied.pending \in {None, loaded.pending}
        /\ tidied.status \in {"UNKNOWN", loaded.status}
    BY <1>1, TidiedDocument
  <2>2. /\ connection' = Hago!Saved(loaded, tidied)
        /\ login' = [login EXCEPT ![c] = [at |-> "challenge", copy |-> tidied]]
             \/ login' = [login EXCEPT ![c] = Hago!Idle]
        /\ UNCHANGED <<issued, latest, verified, rejected, crossed>>
    BY <1>3 DEF Hago!Tidy, Hago!Await, Hago!Return, Hago!Untouched
  <2> HIDE DEF tidied
  <2>3. /\ connection' \in Connections /\ connection'.id = connection.id
        /\ connection'.pending \in {None, connection.pending}
        /\ connection'.status \in {"UNKNOWN", connection.status}
    BY <1>1, <2>1, <2>2 DEF Hago!Saved, Connections
  <2>4. ConnectionType'
    BY <1>2, <2>1, <2>2, <2>3 DEF ConnectionInv, ConnectionType, Connections, LoginSteps
  <2>5. \A d \in Calls : login'[d].at \in {"verify", "validate"} => login'[d] = login[d]
    BY <1>2, <2>2 DEF ConnectionInv, ConnectionType
  <2> QED
    BY <2>2, <2>3, <2>4, <2>5 DEF ConnectionInv, LoginsMean, Hago!ConnectionSound
<1>4. CASE Hago!Challenged(c)
  <2>1. login' = [login EXCEPT ![c] = Hago!Idle] /\ UNCHANGED <<verified, rejected, crossed>>
    BY <1>4 DEF Hago!Challenged, Hago!Return
  <2>2. CASE UNCHANGED <<connection, issued, latest>>
    BY <1>2, <2>1, <2>2 DEF ConnectionInv, ConnectionType, Connections, LoginsMean,
       Hago!ConnectionSound
  <2>3. ASSUME NEW n \in Hago!Challenges \ issued,
               issued' = issued \cup {n}, latest' = n,
               connection' = Hago!Saved(loaded, [loaded EXCEPT !.pending = n,
                                   !.status = IF loaded.id = None THEN "OTP_PENDING" ELSE @])
        PROVE  ConnectionInv'
    <3> DEFINE copy == [loaded EXCEPT !.pending = n,
                                   !.status = IF loaded.id = None THEN "OTP_PENDING" ELSE @]
    <3>1. copy.id = loaded.id /\ copy.pending = n
          /\ copy.status \in {"OTP_PENDING", loaded.status}
      BY <1>1 DEF Connections
    <3>2. loaded.pending # n
      BY <1>1 DEF Connections
    <3> HIDE DEF copy
    <3>3. connection' = [id |-> connection.id, pending |-> n, status |-> connection'.status]
          /\ connection'.status \in {"OTP_PENDING", connection.status}
      BY <2>3, <3>1, <3>2 DEF Hago!Saved, copy
    <3>4. ConnectionType'
      BY <1>1, <1>2, <2>1, <2>3, <3>3 DEF ConnectionInv, ConnectionType, Connections
    <3>5. \A d \in Calls : login'[d].at \in {"verify", "validate"} => login'[d] = login[d]
      BY <1>2, <2>1 DEF ConnectionInv, ConnectionType
    <3> QED
      BY <2>1, <2>3, <3>3, <3>4, <3>5 DEF ConnectionInv, LoginsMean, Hago!ConnectionSound
  <2> QED
    BY <1>4, <2>2, <2>3 DEF Hago!Challenged
<1>5. CASE Hago!Validated(c)
  <2>1. PICK status \in {"CONNECTED", "REAUTH_REQUIRED", "UNKNOWN"} :
          /\ connection' = Hago!Saved(loaded, [loaded EXCEPT !.status = status])
          /\ rejected' = IF status = "REAUTH_REQUIRED" THEN rejected \cup {loaded.id} ELSE rejected
    BY <1>5 DEF Hago!Validated
  <2>2. /\ login[c].at = "validate" /\ login' = [login EXCEPT ![c] = Hago!Idle]
        /\ UNCHANGED <<issued, latest, verified, crossed>>
    BY <1>5 DEF Hago!Validated, Hago!Return
  <2> DEFINE copy == [loaded EXCEPT !.status = status]
  <2>3. copy.id = loaded.id /\ copy.pending = loaded.pending /\ copy.status = status
    BY <1>1 DEF Connections
  <2> HIDE DEF copy
  <2>4. connection' = [id |-> connection.id, pending |-> connection.pending,
                       status |-> IF status # loaded.status THEN status ELSE connection.status]
    BY <2>1, <2>3 DEF Hago!Saved, copy
  <2>5. ConnectionType'
    BY <1>1, <1>2, <2>2, <2>4 DEF ConnectionInv, ConnectionType, Connections
  <2>6. \A d \in Calls : login'[d].at \in {"verify", "validate"} => login'[d] = login[d]
    BY <1>2, <2>2 DEF ConnectionInv, ConnectionType
  <2>7. connection.id # None /\ (loaded.id = connection.id \/ crossed)
    BY <2>2 DEF ConnectionInv, LoginsMean
  <2> QED
    BY <2>1, <2>2, <2>4, <2>5, <2>6, <2>7 DEF ConnectionInv, LoginsMean, Hago!ConnectionSound
<1> QED
  BY <1>3, <1>4, <1>5

\* verifyLoginChallenge replaces the session only while its challenge is the pending one.
LEMMA VerifiedStep ==
    ASSUME ConnectionInv, NEW c \in Calls, Hago!Verified(c)
    PROVE  ConnectionInv'
<1> DEFINE challenge == login[c].copy.pending
<1>1. /\ login[c].at = "verify" /\ login' = [login EXCEPT ![c] = Hago!Idle]
      /\ UNCHANGED <<issued, latest, rejected>>
  BY DEF Hago!Verified, Hago!Return
<1>2. Hago!Idle \in [at : LoginSteps, copy : Connections] /\ Hago!Idle.at = "idle"
  BY DEF Connections, Hago!Idle, LoginSteps
<1>3. \A d \in Calls : login'[d].at \in {"verify", "validate"} => login'[d] = login[d]
  BY <1>1, <1>2 DEF ConnectionInv, ConnectionType
<1>4. CASE UNCHANGED <<connection, verified, crossed>>
  BY <1>1, <1>2, <1>3, <1>4 DEF ConnectionInv, ConnectionType, Connections, LoginsMean,
     Hago!ConnectionSound
<1>5. ASSUME Hago!StillPending(challenge), verified' = latest,
             connection' = [id |-> challenge, pending |-> None, status |-> "CONNECTED"],
             crossed' = (crossed \/ \E d \in Calls : login[d].at = "validate")
      PROVE  ConnectionInv'
  <2>1. challenge # None /\ challenge = latest /\ challenge \in issued
    BY <1>1, <1>5 DEF ConnectionInv, ConnectionType, Connections, LoginsMean, Hago!StillPending
  <2>2. ConnectionType'
    BY <1>1, <1>2, <1>5, <2>1 DEF ConnectionInv, ConnectionType, Connections
  <2> QED
    BY <1>1, <1>3, <1>5, <2>1, <2>2 DEF ConnectionInv, LoginsMean, Hago!ConnectionSound
<1> QED
  BY <1>4, <1>5 DEF Hago!Verified

\* createLoginChallenge, verifyLoginChallenge and validateSession, however they
\* overlap: the session in use came from the challenge that was stored last.
THEOREM SessionIsTheLatest == Hago!Spec => []Hago!ConnectionSound
<1>0. None \notin Hago!Challenges
  BY ShopAssumption DEF Hago!Challenges
<1> USE <1>0
<1>1. Hago!Init => ConnectionInv
  BY ConnectionInit
<1>2. ConnectionInv /\ [Hago!Next]_Hago!connectionVars => ConnectionInv'
  <2> SUFFICES ASSUME ConnectionInv, [Hago!Next]_Hago!connectionVars PROVE ConnectionInv'
    OBVIOUS
  <2>1. CASE Hago!Expire \/ UNCHANGED Hago!connectionVars
    <3>1. UNCHANGED <<connection, issued, login, latest, verified, rejected, crossed>>
      BY <2>1 DEF Hago!Expire, Hago!Untouched, Hago!connectionVars
    <3> QED
      BY <3>1 DEF ConnectionInv, ConnectionType, Connections, LoginsMean, Hago!ConnectionSound
  <2> QED
    BY <2>1, ReadStep, SaveStep, VerifiedStep DEF Hago!Next
<1>3. ConnectionInv => Hago!ConnectionSound
  BY DEF ConnectionInv
<1> QED
  BY <1>1, <1>2, <1>3, PTL DEF Hago!Spec

\* Both halves of what a customer of Hago relies on: the session of the connection and
\* the price of a quote (hago.service, nobilityCheckout.service).
THEOREM HagoIsSound == Hago!Spec /\ Nobility!Spec => []HagoSound
<1>1. Hago!Spec => []Hago!ConnectionSound
  BY SessionIsTheLatest
<1>2. Nobility!Spec => []Nobility!CheckoutSound
  BY QuotesAreKept
<1>3. Hago!ConnectionSound /\ Nobility!CheckoutSound => HagoSound
  BY DEF HagoSound
<1> QED
  BY <1>1, <1>2, <1>3, PTL

-----------------------------------------------------------------------------
(* Targets: orders to a target, their proofs and their reviews.            *)

Apps == [price : Prices, account : TargetAccounts, methods : {Methods}, active : BOOLEAN]
TargetBodies == [of : Bodies, method : Methods]
TargetDocuments ==
    [status : {"PENDING", "APPROVED", "REJECTED"}, user : Customers, key : Keys \cup {None},
     body : TargetBodies, price : Prices, account : TargetAccounts, proof : Nat]
Creations ==
    [at : {"method", "lookup", "insert", "duplicate", "fail"}, file : Nat, user : Customers,
     key : Keys \cup {None}, body : TargetBodies, app : Apps]
Reviews == [at : {"review"}, order : Orders, decision : {"APPROVED", "REJECTED"}]
AtRest == [at |-> "idle"]

TargetType ==
    /\ app \in Apps /\ requests \in Nat
    /\ DOMAIN target = Orders
    /\ \A o \in Orders : target[o] = Target!NoOrder \/ target[o] \in TargetDocuments
    /\ DOMAIN review = Calls
    /\ \A k \in Calls : review[k] = AtRest \/ review[k] \in Reviews \/ review[k] \in Creations

\* Requests name their files; the file of a request under way is its own.
FilesMean ==
    /\ \A f \in files : f \in Nat /\ f < requests
    /\ \A k \in Calls : review[k] \in Creations =>
          /\ review[k].file \in files
          /\ \A o \in Target!Existing : target[o].proof # review[k].file
          /\ \A j \in Calls : j # k /\ review[j] \in Creations => review[j].file # review[k].file

\* What the unique index of user and key gives, and what was answered.
KeysStand ==
    /\ \A o, p \in Target!Existing :
          target[o].key # None /\ target[o].key = target[p].key /\ target[o].user = target[p].user
             => o = p
    /\ \A a \in answers :
          /\ a.order \in Target!Existing /\ target[a.order].key = a.key
          /\ target[a.order].user = a.user /\ target[a.order].body = a.body

Decisions(o) == {r \in reviews : r[1] = o}
ReviewsMean ==
    \A o \in Orders :
        IF target[o].status \in {"none", "PENDING"} THEN Decisions(o) = {}
        ELSE \E r : Decisions(o) = {r} /\ r[2] = target[o].status

TargetInv == TargetType /\ FilesMean /\ Target!ProofsKept /\ KeysStand /\ ReviewsMean

LEMMA TargetCardinality == \A S : Target!Cardinality(S) = Cardinality(S)
BY DEF Target!Cardinality, Cardinality

LEMMA TargetInvIsSound == TargetInv => TargetOrdersSound
<1> SUFFICES ASSUME TargetInv PROVE TargetOrdersSound
  OBVIOUS
<1>1. Target!OneOrderPerKey
  BY DEF TargetInv, KeysStand, Target!OneOrderPerKey
<1>2. Target!ReviewedOnce
  <2> SUFFICES ASSUME NEW o \in Target!Existing
               PROVE  IF target[o].status = "PENDING" THEN Decisions(o) = {}
                      ELSE Cardinality(Decisions(o)) = 1
                           /\ \A r \in Decisions(o) : r[2] = target[o].status
    BY TargetCardinality DEF Target!ReviewedOnce, Decisions
  <2>1. o \in Orders /\ target[o].status # "none"
    BY DEF Target!Existing
  <2>2. CASE target[o].status = "PENDING"
    BY <2>1, <2>2 DEF TargetInv, ReviewsMean
  <2>3. CASE target[o].status # "PENDING"
    <3> PICK r : Decisions(o) = {r} /\ r[2] = target[o].status
      BY <2>1, <2>3 DEF TargetInv, ReviewsMean
    <3> QED
      BY <2>3, FS_Singleton
  <2> QED
    BY <2>2, <2>3
<1> QED
  BY <1>1, <1>2 DEF TargetInv, Target!TargetOrdersSound, TargetOrdersSound

LEMMA TargetInit == ASSUME Target!Init PROVE TargetInv
<1>1. Target!Existing = {} /\ \A o \in Orders : target[o].status = "none"
  BY DEF Target!Init, Target!NoOrder, Target!Existing
<1>2. TargetType
  BY DEF Target!Init, TargetType, Apps, AtRest
<1>3. FilesMean
  BY DEF Target!Init, FilesMean, Creations
<1> QED
  BY <1>1, <1>2, <1>3
     DEF Target!Init, TargetInv, Target!ProofsKept, KeysStand, ReviewsMean, Decisions

\* The kinds of documents and calls are told apart by their status and step.
LEMMA TargetKinds ==
    ASSUME TargetType
    PROVE  /\ \A o \in Target!Existing : o \in Orders /\ target[o] \in TargetDocuments
           /\ \A o \in Orders \ Target!Existing : target[o].status = "none"
           /\ \A k \in Calls :
                 /\ review[k].at = "idle" => review[k] = AtRest
                 /\ review[k].at = "review" => review[k] \in Reviews
                 /\ review[k].at \in {"method", "lookup", "insert", "duplicate", "fail"}
                       => review[k] \in Creations
                 /\ review[k].at \in {"idle", "review"} <=> review[k] \notin Creations
           /\ AtRest \notin Creations /\ \A r \in Reviews : r \notin Creations
BY DEF TargetType, Target!Existing, Target!NoOrder, TargetDocuments, Creations, Reviews, AtRest

\* A call goes on with the same file; orders and reviews stay.
LEMMA GoesOn ==
    ASSUME TargetInv, NEW k \in Calls, review[k] \in Creations, NEW next \in Creations,
           review' = [review EXCEPT ![k] = next], next.file = review[k].file,
           UNCHANGED <<app, target, files, requests, reviews>>,
           \A a \in answers' \ answers :
              /\ a.order \in Target!Existing /\ target[a.order].key = a.key
              /\ target[a.order].user = a.user /\ target[a.order].body = a.body
    PROVE  TargetInv'
<1>1. TargetType'
  BY DEF TargetInv, TargetType
<1>2. \A j \in Calls : (review'[j] \in Creations <=> review[j] \in Creations)
          /\ (review[j] \in Creations => review'[j].file = review[j].file)
  BY DEF TargetInv, TargetType
<1>3. FilesMean'
  BY <1>2 DEF TargetInv, FilesMean, Target!Existing
<1>4. Target!ProofsKept'
  <2>1. \A j \in Calls : review[j].at \notin {"idle", "review"}
                           => review'[j].at \notin {"idle", "review"}
    BY <1>1, <1>2, TargetKinds DEF TargetInv, TargetType, Creations, AtRest, Reviews
  <2>2. \A j \in Calls : review[j].at \notin {"idle", "review"} => review'[j].file = review[j].file
    BY <1>2, TargetKinds DEF TargetInv
  <2> QED
    BY <2>1, <2>2 DEF TargetInv, Target!ProofsKept, Target!Existing
<1>5. KeysStand' /\ ReviewsMean'
  BY DEF TargetInv, KeysStand, ReviewsMean, Decisions, Target!Existing
<1> QED
  BY <1>1, <1>3, <1>4, <1>5 DEF TargetInv

LEMMA ExistingStep ==
    ASSUME TargetInv, NEW k \in Calls,
           \/ Target!CheckMethod(k) \/ Target!Lookup(k) \/ Target!Recover(k)
           \/ Target!Insert(k) /\ UNCHANGED target
    PROVE  TargetInv'
<1>1. /\ review[k] \in Creations
      /\ UNCHANGED <<app, target, files, requests, reviews>>
  BY TargetKinds
     DEF Target!CheckMethod, Target!Lookup, Target!Recover, Target!Insert, TargetInv
<1>2. PICK at \in {"lookup", "insert", "duplicate", "fail"} :
         review' = [review EXCEPT ![k] = [review[k] EXCEPT !.at = at]]
  <2>1. CASE Target!Insert(k) /\ UNCHANGED target
    <3>1. ASSUME NEW o \in Orders \ Target!Existing, NEW d, d.status = "PENDING",
                 target' = [target EXCEPT ![o] = d]
          PROVE  FALSE
      <4>1. target[o].status = "none" /\ target'[o].status = "PENDING"
        BY <3>1, TargetKinds DEF TargetInv, TargetType
      <4> QED
        BY <1>1, <4>1
    <3> QED
      BY <2>1, <3>1 DEF Target!Insert, Target!Goes
  <2> QED
    BY <2>1 DEF Target!CheckMethod, Target!Lookup, Target!Recover, Target!Goes,
                Target!AnswerExisting
<1>3. [review[k] EXCEPT !.at = at] \in Creations
      /\ [review[k] EXCEPT !.at = at].file = review[k].file
  BY <1>1 DEF Creations
<1>4. ASSUME NEW a \in answers' \ answers
      PROVE  /\ a.order \in Target!Existing /\ target[a.order].key = a.key
             /\ target[a.order].user = a.user /\ target[a.order].body = a.body
  <2>1. PICK o \in Target!WithKey(review[k].user, review[k].key) :
           /\ target[o].body = review[k].body
           /\ a = [user |-> review[k].user, key |-> review[k].key, body |-> review[k].body,
                   order |-> o]
    <3>1. Target!CheckMethod(k) => answers' = answers
      BY DEF Target!CheckMethod
    <3>2. Target!Insert(k) /\ UNCHANGED target => answers' = answers
      <4>1. ASSUME NEW o \in Orders \ Target!Existing, NEW d, d.status = "PENDING",
                   target' = [target EXCEPT ![o] = d]
            PROVE  target' # target
        <5>1. target[o].status = "none" /\ target'[o].status = "PENDING"
          BY <4>1, TargetKinds DEF TargetInv, TargetType
        <5> QED
          BY <5>1
      <4> QED
        BY <4>1 DEF Target!Insert
    <3> QED
      BY <1>4, <3>1, <3>2
         DEF Target!Lookup, Target!Recover, Target!AnswerExisting, Target!SameFingerprint
  <2> QED
    BY <2>1 DEF Target!WithKey
<1> QED
  BY <1>1, <1>2, <1>3, <1>4, GoesOn

LEMMA InsertStep ==
    ASSUME TargetInv, NEW k \in Calls, Target!Insert(k), target' # target
    PROVE  TargetInv'
<1> DEFINE me == review[k]
<1>1. me \in Creations /\ UNCHANGED <<app, files, requests, reviews>>
  BY TargetKinds DEF Target!Insert, TargetInv
<1>2. PICK o \in Orders \ Target!Existing :
         /\ target' = [target EXCEPT ![o] =
               [status |-> "PENDING", user |-> me.user, key |-> me.key, body |-> me.body,
                price |-> me.app.price, account |-> me.app.account, proof |-> me.file]]
         /\ answers' = answers \cup {[user |-> me.user, key |-> me.key,
                                      body |-> me.body, order |-> o]}
         /\ review' = [review EXCEPT ![k] = AtRest]
         /\ Target!WithKey(me.user, me.key) = {}
  BY DEF Target!Insert, Target!Ends, Target!Goes, AtRest
<1> DEFINE d == [status |-> "PENDING", user |-> me.user, key |-> me.key, body |-> me.body,
                 price |-> me.app.price, account |-> me.app.account, proof |-> me.file]
<1>3. d \in TargetDocuments
  BY <1>1 DEF Creations, Apps, TargetDocuments
<1>4. /\ d.status = "PENDING" /\ d.user = me.user /\ d.key = me.key /\ d.body = me.body
      /\ d.proof = me.file
  OBVIOUS
<1> HIDE DEF d
<1>5. TargetType'
  BY <1>1, <1>2, <1>3 DEF TargetInv, TargetType, d
<1>6. /\ target' = [target EXCEPT ![o] = d] /\ target'[o] = d
      /\ \A p \in Orders : p # o => target'[p] = target[p]
      /\ target[o].status = "none"
  BY <1>2, TargetKinds DEF TargetInv, TargetType, d
<1>7. Target!Existing' = Target!Existing \cup {o}
  BY <1>4, <1>6 DEF Target!Existing
<1>8. \A j \in Calls : IF j = k THEN review'[j] = AtRest ELSE review'[j] = review[j]
  BY <1>2 DEF TargetInv, TargetType
<1>9. FilesMean'
  <2> SUFFICES ASSUME NEW j \in Calls, review'[j] \in Creations
               PROVE  /\ review[j].file \in files
                      /\ j # k
                      /\ \A p \in Target!Existing \cup {o} : target'[p].proof # review[j].file
                      /\ \A i \in Calls : i # j /\ review'[i] \in Creations
                                             => review[i].file # review[j].file
    BY <1>1, <1>7, <1>8 DEF TargetInv, FilesMean
  <2>1. j # k /\ review[j] \in Creations
    BY <1>8, TargetKinds DEF TargetInv
  <2>2. review[j].file # me.file
    BY <1>1, <2>1 DEF TargetInv, FilesMean
  <2> QED
    BY <1>1, <1>4, <1>6, <1>8, <2>1, <2>2, TargetKinds
       DEF TargetInv, FilesMean, Target!Existing
<1>10. Target!ProofsKept'
  <2>1. me.file \in files
    BY <1>1 DEF TargetInv, FilesMean
  <2>2. ASSUME NEW f \in files
        PROVE  \/ \E p \in Target!Existing' : target'[p].proof = f
               \/ \E j \in Calls : review'[j].at \notin {"idle", "review"} /\ review'[j].file = f
    <3>1. CASE \E p \in Target!Existing : target[p].proof = f
      BY <1>6, <1>7, <3>1 DEF Target!Existing
    <3>2. CASE f = me.file
      BY <1>4, <1>6, <1>7, <3>2
    <3>3. CASE \E j \in Calls : /\ review[j].at \notin {"idle", "review"} /\ review[j].file = f
                                /\ f # me.file
      BY <1>8, <3>3
    <3> QED
      BY <3>1, <3>2, <3>3 DEF TargetInv, Target!ProofsKept
  <2> QED
    BY <1>1, <1>4, <1>6, <1>7, <2>1, <2>2 DEF TargetInv, Target!ProofsKept, Target!Existing
<1>11. KeysStand'
  <2>1. \A p \in Target!Existing :
           ~(me.key # None /\ target[p].key = me.key /\ target[p].user = me.user)
    BY <1>2 DEF Target!WithKey
  <2>2. \A p \in Target!Existing : p # o /\ p \in Orders
    BY DEF Target!Existing
  <2>3. \A p, q \in Target!Existing' :
          target'[p].key # None /\ target'[p].key = target'[q].key /\ target'[p].user = target'[q].user
             => p = q
    BY <1>4, <1>6, <1>7, <2>1, <2>2 DEF TargetInv, KeysStand
  <2>4. ASSUME NEW a \in answers'
        PROVE  /\ a.order \in Target!Existing' /\ target'[a.order].key = a.key
               /\ target'[a.order].user = a.user /\ target'[a.order].body = a.body
    <3>1. CASE a \in answers
      BY <1>6, <1>7, <2>2, <3>1 DEF TargetInv, KeysStand
    <3>2. CASE a = [user |-> me.user, key |-> me.key, body |-> me.body, order |-> o]
      BY <1>4, <1>6, <1>7, <3>2
    <3> QED
      BY <1>2, <3>1, <3>2
  <2> QED
    BY <2>3, <2>4 DEF KeysStand
<1>12. ReviewsMean'
  BY <1>1, <1>4, <1>6 DEF TargetInv, ReviewsMean, Decisions
<1> QED
  BY <1>5, <1>9, <1>10, <1>11, <1>12 DEF TargetInv

\* Request and Cleanup: a proof is stored with its request, and goes with it.
LEMMA FileStep ==
    ASSUME TargetInv, NEW k \in Calls, Target!Request(k) \/ Target!Cleanup(k)
    PROVE  TargetInv'
<1>1. UNCHANGED <<app, target, answers, reviews>> /\ UNCHANGED Target!Existing
  BY DEF Target!Request, Target!Cleanup, Target!Existing
<1>2. KeysStand' /\ ReviewsMean'
  BY <1>1 DEF TargetInv, KeysStand, ReviewsMean, Decisions
<1>3. CASE Target!Request(k)
  <2>1. PICK next \in Creations :
           /\ review' = [review EXCEPT ![k] = next] /\ next.file = requests
           /\ files' = files \cup {requests} /\ requests' = requests + 1
           /\ review[k].at = "idle"
    <3>1. PICK u \in Customers, y \in Keys \cup {None}, b \in Bodies, m \in Methods,
               at \in {"method", "fail"} :
             review' = [review EXCEPT ![k] =
                          [at |-> at, file |-> requests, user |-> u, key |-> y,
                           body |-> [of |-> b, method |-> m], app |-> app]]
      <4>1. PICK u \in Customers, y \in Keys \cup {None}, b \in Bodies, m \in Methods :
               review' = [review EXCEPT ![k] =
                            [at |-> IF app.active THEN "method" ELSE "fail", file |-> requests,
                             user |-> u, key |-> y, body |-> [of |-> b, method |-> m],
                             app |-> app]]
        BY <1>3 DEF Target!Request, Target!Goes
      <4>2. (IF app.active THEN "method" ELSE "fail") \in {"method", "fail"}
        OBVIOUS
      <4> QED
        BY <4>1, <4>2
    <3>2. [at |-> at, file |-> requests, user |-> u, key |-> y,
           body |-> [of |-> b, method |-> m], app |-> app] \in Creations
      BY DEF TargetInv, TargetType, Creations, TargetBodies
    <3> QED
      BY <1>3, <3>1, <3>2 DEF Target!Request
  <2>2. \A j \in Calls : IF j = k THEN review'[j] = next ELSE review'[j] = review[j]
    BY <2>1 DEF TargetInv, TargetType
  <2>3. \A f \in files : f # requests /\ f < requests + 1
    BY DEF TargetInv, TargetType, FilesMean
  <2>4. TargetType'
    BY <1>1, <2>1 DEF TargetInv, TargetType
  <2>5. FilesMean'
    <3>1. \A o \in Target!Existing : target[o].proof # requests
      BY <2>3 DEF TargetInv, Target!ProofsKept
    <3>2. \A j \in Calls : review[j] \in Creations => review[j].file # requests
      BY <2>3 DEF TargetInv, FilesMean
    <3>3. \A f \in files' : f \in Nat /\ f < requests'
      BY <2>1, <2>3 DEF TargetInv, TargetType, FilesMean
    <3> QED
      BY <1>1, <2>1, <2>2, <3>1, <3>2, <3>3 DEF TargetInv, FilesMean
  <2>6. Target!ProofsKept'
    <3>1. next.at \notin {"idle", "review"}
      BY DEF Creations
    <3> QED
      BY <1>1, <2>1, <2>2, <3>1 DEF TargetInv, Target!ProofsKept
  <2> QED
    BY <1>2, <2>4, <2>5, <2>6 DEF TargetInv
<1>4. CASE Target!Cleanup(k)
  <2>1. /\ review[k] \in Creations /\ review' = [review EXCEPT ![k] = AtRest]
        /\ files' = files \ {review[k].file} /\ requests' = requests
    BY <1>4, TargetKinds DEF Target!Cleanup, Target!Ends, Target!Goes, AtRest, TargetInv
  <2>2. \A j \in Calls : IF j = k THEN review'[j] = AtRest ELSE review'[j] = review[j]
    BY <2>1 DEF TargetInv, TargetType
  <2>3. TargetType'
    BY <1>1, <2>1 DEF TargetInv, TargetType
  <2>4. \A j \in Calls : review'[j] \in Creations => j # k /\ review[j] \in Creations
    BY <2>2, TargetKinds DEF TargetInv
  <2>5. FilesMean'
    BY <1>1, <2>1, <2>2, <2>4 DEF TargetInv, FilesMean
  <2>6. Target!ProofsKept'
    <3>1. \A o \in Target!Existing : target[o].proof # review[k].file
      BY <2>1 DEF TargetInv, FilesMean
    <3> QED
      BY <1>1, <2>1, <2>2, <3>1 DEF TargetInv, Target!ProofsKept
  <2> QED
    BY <1>2, <2>3, <2>5, <2>6 DEF TargetInv
<1> QED
  BY <1>3, <1>4

\* approveTargetOrder and rejectTargetOrder
LEMMA ReviewStep ==
    ASSUME TargetInv, NEW k \in Calls, Target!ReadForReview(k) \/ Target!Review(k)
    PROVE  TargetInv'
<1>1. PICK next \in Reviews \cup {AtRest} : review' = [review EXCEPT ![k] = next]
  BY DEF Target!ReadForReview, Target!Review, Target!Goes, Target!Ends, AtRest, Reviews,
         Target!Existing
<1>2. /\ UNCHANGED <<app, files, answers>> /\ review[k].at \in {"idle", "review"}
      /\ requests' \in Nat /\ requests <= requests'
  BY DEF Target!ReadForReview, Target!Review, TargetInv, TargetType
<1>3. \A j \in Calls : IF j = k THEN review'[j] = next ELSE review'[j] = review[j]
  BY <1>1 DEF TargetInv, TargetType
<1>4. next.at \in {"idle", "review"} /\ next \notin Creations
  BY TargetKinds DEF TargetInv, Reviews, AtRest
<1>5. \A j \in Calls : review'[j] \in Creations => j # k /\ review[j] \in Creations
  BY <1>3, <1>4
<1>6. CASE UNCHANGED <<target, reviews>>
  <2>1. UNCHANGED Target!Existing
    BY <1>6 DEF Target!Existing
  <2>2. TargetType'
    BY <1>1, <1>2, <1>6 DEF TargetInv, TargetType
  <2>3. FilesMean'
    BY <1>2, <1>3, <1>5, <1>6, <2>1 DEF TargetInv, TargetType, FilesMean
  <2>4. Target!ProofsKept'
    BY <1>2, <1>3, <1>6, <2>1 DEF TargetInv, Target!ProofsKept
  <2> QED
    BY <1>2, <1>6, <2>1, <2>2, <2>3, <2>4 DEF TargetInv, KeysStand, ReviewsMean, Decisions
<1>7. CASE ~UNCHANGED <<target, reviews>>
  <2>1. PICK o \in Orders, decision \in {"APPROVED", "REJECTED"} :
           /\ target[o].status = "PENDING"
           /\ target' = [target EXCEPT ![o].status = decision]
           /\ reviews' = reviews \cup {<<o, decision, k>>}
    <3>1. Target!Review(k) /\ review[k] \in Reviews
      BY <1>7, TargetKinds DEF Target!ReadForReview, Target!Review, TargetInv
    <3> QED
      BY <1>7, <3>1 DEF Target!Review, Target!Reviewable, Reviews
  <2>2. o \in Orders /\ decision \in {"APPROVED", "REJECTED"}
    OBVIOUS
  <2>3. target[o] \in TargetDocuments
    BY <2>1, <2>2, TargetKinds DEF TargetInv, Target!Existing
  <2>4. /\ target'[o] \in TargetDocuments /\ target'[o].status = decision
        /\ target'[o].proof = target[o].proof /\ target'[o].key = target[o].key
        /\ target'[o].user = target[o].user /\ target'[o].body = target[o].body
        /\ \A p \in Orders : p # o => target'[p] = target[p]
    BY <2>1, <2>2, <2>3 DEF TargetInv, TargetType, TargetDocuments
  <2>5. UNCHANGED Target!Existing
    BY <2>1, <2>2, <2>4 DEF Target!Existing
  <2>6. \A p \in Target!Existing : /\ target'[p].proof = target[p].proof
                                   /\ target'[p].key = target[p].key
                                   /\ target'[p].user = target[p].user
                                   /\ target'[p].body = target[p].body
    BY <2>4 DEF Target!Existing
  <2>7. TargetType'
    BY <1>1, <1>2, <2>1, <2>2, <2>4 DEF TargetInv, TargetType
  <2>8. FilesMean'
    BY <1>2, <1>3, <1>5, <2>5, <2>6 DEF TargetInv, TargetType, FilesMean
  <2>9. Target!ProofsKept'
    BY <1>2, <1>3, <1>4, <2>5, <2>6 DEF TargetInv, Target!ProofsKept
  <2>10. KeysStand'
    BY <1>2, <2>5, <2>6 DEF TargetInv, KeysStand
  <2>11. ReviewsMean'
    <3>1. Decisions(o)' = {<<o, decision, k>>}
      BY <2>1, <2>2 DEF TargetInv, ReviewsMean, Decisions
    <3>2. \A p \in Orders : p # o => Decisions(p)' = Decisions(p)
      BY <2>1 DEF Decisions
    <3>3. ASSUME NEW p \in Orders, p # o
          PROVE  IF target'[p].status \in {"none", "PENDING"} THEN Decisions(p)' = {}
                 ELSE \E r : Decisions(p)' = {r} /\ r[2] = target'[p].status
      BY <2>4, <3>2, <3>3 DEF TargetInv, ReviewsMean
    <3>4. \E r : Decisions(o)' = {r} /\ r[2] = target'[o].status
      <4>1. <<o, decision, k>>[2] = target'[o].status
        BY <2>4
      <4> QED
        BY <3>1, <4>1, Zenon
    <3> QED
      BY <2>2, <2>4, <3>3, <3>4 DEF ReviewsMean
  <2> QED
    BY <2>7, <2>8, <2>9, <2>10, <2>11 DEF TargetInv
<1> QED
  BY <1>6, <1>7

\* createTargetOrder and the reviews, however calls overlap: a key stands for one
\* order, proofs are kept as long as they are needed, an order is decided once.
THEOREM TargetOrdersAreSound == Target!Spec => []TargetOrdersSound
<1>1. Target!Init => TargetInv
  BY TargetInit
<1>2. TargetInv /\ [Target!Next]_Target!vars => TargetInv'
  <2> SUFFICES ASSUME TargetInv, [Target!Next]_Target!vars PROVE TargetInv'
    OBVIOUS
  <2>1. CASE Target!ChangeApp \/ Target!ChangePaymentSettings \/ UNCHANGED Target!vars
    <3>1. /\ UNCHANGED <<target, files, review, requests, answers, reviews>>
          /\ app' \in Apps
      BY <2>1 DEF Target!ChangeApp, Target!ChangePaymentSettings, Target!vars, TargetInv,
                  TargetType, Apps
    <3> QED
      BY <3>1 DEF TargetInv, TargetType, FilesMean, Target!ProofsKept, KeysStand, ReviewsMean,
                  Decisions, Target!Existing
  <2> QED
    BY <2>1, ExistingStep, InsertStep, FileStep, ReviewStep DEF Target!Next
<1> QED
  BY <1>1, <1>2, TargetInvIsSound, PTL DEF Target!Spec
================================================================================
