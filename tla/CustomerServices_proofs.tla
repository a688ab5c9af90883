------------------------ MODULE CustomerServices_proofs ------------------------
(***************************************************************************)
(* What is proved about the components of CustomerServices for every value *)
(* of their constants.  Each has an inductive invariant of its own: mostly *)
(* what a handler read is still true when it writes, or the write it races *)
(* with is one the database refuses.                                       *)
(***************************************************************************)
EXTENDS CustomerServices, Integers, Sequences, FiniteSetTheorems, TLAPS

-----------------------------------------------------------------------------
(* Accounts: sub-agents and their requests.                                *)

AccountFields == {"status", "deleted", "reseller", "stopped", "pending", "group"}
RequestDocuments ==
    [status : {"none", "PENDING", "APPROVED", "REJECTED"}, user : Customers \cup {None},
     group : Groups \cup {None}, proof : BOOLEAN]

\* Administrators save other fields than those of the requests.
CallMeans(c) ==
    /\ c.at = "saveAccount" => c.fields \subseteq {"status", "deleted", "group"}
    /\ c.at \in {"begin", "run"} => c.asked \in Account!Operations
    /\ c.at = "answer" => c.request \in Requests

AccountType ==
    /\ DOMAIN account = Customers
    /\ \A u \in Customers : DOMAIN account[u] = AccountFields /\ account[u].pending \in BOOLEAN
                            /\ account[u].reseller \in BOOLEAN
    /\ request \in [Requests -> RequestDocuments]
    /\ \A r \in Requests : request[r].status = "PENDING" => request[r].user \in Customers
    /\ DOMAIN call = Calls
    /\ \A k \in Calls : CallMeans(call[k])

Pending(u) == Account!PendingOf(request, u)
Approved(u) == {r \in Requests : request[r].status = "APPROVED" /\ request[r].user = u}

\* The set is empty, or it has one element, as the mark says.
Marks(mark, set) == IF mark THEN \E r : set = {r} ELSE set = {}

RequestsMean ==
    \A u \in Customers :
        /\ Marks(account[u].pending, Pending(u)) /\ Marks(account[u].reseller, Approved(u))
        /\ account[u].stopped = account[u].reseller

AccountInv == AccountType /\ RequestsMean

LEMMA AccountCardinality == \A S : Account!Cardinality(S) = Cardinality(S)
BY DEF Account!Cardinality, Cardinality

LEMMA AccountInvIsSound == AccountInv => SubAgentConsistent
<1>1. ASSUME NEW mark, NEW set, Marks(mark, set)
      PROVE  Cardinality(set) = IF mark THEN 1 ELSE 0
  BY <1>1, FS_EmptySet, FS_Singleton DEF Marks
<1> QED
  BY <1>1, AccountCardinality
     DEF AccountInv, RequestsMean, Pending, Approved, Account!SubAgentConsistent,
         SubAgentConsistent

LEMMA AccountInit == Account!Init => AccountInv
<1> SUFFICES ASSUME Account!Init PROVE AccountInv
  OBVIOUS
<1>1. AccountType
  BY DEF Account!Init, Account!NoRequest, AccountType, AccountFields, RequestDocuments,
     CallMeans
<1>2. \A u \in Customers : Pending(u) = {} /\ Approved(u) = {}
  BY DEF Account!Init, Account!NoRequest, Pending, Approved, Account!PendingOf
<1> QED
  BY <1>1, <1>2 DEF Account!Init, AccountInv, RequestsMean, Marks

\* Steps that leave what the requests are about.
LEMMA OtherAccountStep ==
    ASSUME AccountInv, NEW k \in Calls, NEW next, CallMeans(next),
           call' = [call EXCEPT ![k] = next],
           DOMAIN account' = Customers,
           \A u \in Customers :
              /\ DOMAIN account'[u] = AccountFields
              /\ account'[u].pending = account[u].pending
              /\ account'[u].reseller = account[u].reseller
              /\ account'[u].stopped = account[u].stopped,
           request' \in [Requests -> RequestDocuments],
           \A r \in Requests :
              request'[r].status = request[r].status /\ request'[r].user = request[r].user
    PROVE  AccountInv'
<1>1. AccountType'
  <2>1. \A j \in Calls : CallMeans(call'[j])
    BY DEF AccountInv, AccountType
  <2> QED
    BY <2>1 DEF AccountInv, AccountType, CallMeans
<1>2. \A u \in Customers : Pending(u)' = Pending(u) /\ Approved(u)' = Approved(u)
  BY DEF Pending, Approved, Account!PendingOf
<1>3. RequestsMean'
  BY <1>2 DEF AccountInv, RequestsMean
<1> QED
  BY <1>1, <1>3 DEF AccountInv

LEMMA QuietAccountStep ==
    ASSUME AccountInv, NEW k \in Calls,
           \/ Account!ReadAccount(k) \/ Account!SaveAccount(k) \/ Account!ReadGroup(k)
           \/ Account!SaveGroup(k) \/ Account!Call(k) \/ Account!Begin(k) \/ Account!Abort(k)
           \/ Account!Answer(k)
    PROVE  AccountInv' /\ \A u \in Customers : account'[u].reseller = account[u].reseller
<1> USE DEF Account!Goes, Account!Ends
<1>1. CallMeans(call[k]) /\ DOMAIN account = Customers /\ request \in [Requests -> RequestDocuments]
      /\ \A u \in Customers : DOMAIN account[u] = AccountFields
  BY DEF AccountInv, AccountType
<1>2. CASE Account!SaveAccount(k)
  <2>1. /\ call' = [call EXCEPT ![k] = [at |-> "idle"]] /\ UNCHANGED request
        /\ call[k].fields \subseteq {"status", "deleted", "group"}
        /\ account' = [account EXCEPT ![call[k].user] =
                          [f \in DOMAIN account[call[k].user] |->
                             IF f \in call[k].fields THEN call[k].patch[f]
                             ELSE account[call[k].user][f]]]
    BY <1>1, <1>2 DEF Account!SaveAccount, Account!Saved, CallMeans
  <2>2. ASSUME NEW u \in Customers
        PROVE  /\ DOMAIN account'[u] = AccountFields
               /\ \A f \in {"pending", "reseller", "stopped"} : account'[u][f] = account[u][f]
    BY <1>1, <2>1 DEF AccountFields
  <2>3. \A u \in Customers :
              /\ DOMAIN account'[u] = AccountFields
              /\ account'[u].pending = account[u].pending
              /\ account'[u].reseller = account[u].reseller
              /\ account'[u].stopped = account[u].stopped
    BY <2>2
  <2>4. DOMAIN account' = Customers /\ CallMeans([at |-> "idle"])
    BY <1>1, <2>1 DEF CallMeans
  <2> QED
    BY <1>1, <2>1, <2>3, <2>4, OtherAccountStep
<1>3. CASE Account!Answer(k)
  <2>1. /\ call' = [call EXCEPT ![k] = [at |-> "idle"]] /\ UNCHANGED account
        /\ CallMeans([at |-> "idle"]) /\ call[k].request \in Requests
        /\ \/ request' = request
           \/ request' = [request EXCEPT ![call[k].request].proof = FALSE]
    BY <1>1, <1>3 DEF Account!Answer, CallMeans
  <2>2. request' \in [Requests -> RequestDocuments]
    <3>1. PICK shorn : shorn = [request[call[k].request] EXCEPT !.proof = FALSE]
      OBVIOUS
    <3>2. shorn \in RequestDocuments
      <4>1. request[call[k].request] \in RequestDocuments
        BY <1>1, <2>1
      <4> QED
        BY <3>1, <4>1 DEF RequestDocuments
    <3>3. request' = request \/ request' = [request EXCEPT ![call[k].request] = shorn]
      BY <1>1, <2>1, <3>1
    <3> QED
      BY <1>1, <2>1, <3>2, <3>3
  <2>3. \A r \in Requests :
           request'[r].status = request[r].status /\ request'[r].user = request[r].user
    BY <1>1, <2>1 DEF RequestDocuments
  <2> QED
    BY <1>1, <2>1, <2>2, <2>3, OtherAccountStep
<1>4. CASE ~(Account!SaveAccount(k) \/ Account!Answer(k))
  <2>1. PICK next : call' = [call EXCEPT ![k] = next] /\ CallMeans(next)
    <3>1. CASE Account!ReadAccount(k)
      <4>1. PICK u \in Customers : \E p \in Account!AccountPatches(account[u]) :
               call' = [call EXCEPT ![k] = [at |-> "saveAccount", user |-> u, patch |-> p,
                                            fields |-> Account!Modified(account[u], p)]]
        BY <3>1 DEF Account!ReadAccount
      <4>2. PICK p \in Account!AccountPatches(account[u]) :
               call' = [call EXCEPT ![k] = [at |-> "saveAccount", user |-> u, patch |-> p,
                                            fields |-> Account!Modified(account[u], p)]]
        BY <4>1
      <4>3. DOMAIN p \subseteq {"status", "deleted", "group"}
        BY DEF Account!AccountPatches
      <4>4. Account!Modified(account[u], p) \subseteq {"status", "deleted", "group"}
        BY <4>3 DEF Account!Modified
      <4>5. PICK next : next = [at |-> "saveAccount", user |-> u, patch |-> p,
                                fields |-> Account!Modified(account[u], p)]
        OBVIOUS
      <4>6. next.at = "saveAccount" /\ next.fields \subseteq {"status", "deleted", "group"}
        BY <4>4, <4>5
      <4> QED
        BY <4>2, <4>5, <4>6 DEF CallMeans
    <3>2. CASE Account!Call(k) \/ Account!Begin(k)
      BY <1>1, <3>2 DEF Account!Call, Account!Begin, CallMeans
    <3>3. CASE Account!ReadGroup(k) \/ Account!SaveGroup(k) \/ Account!Abort(k)
      BY <3>3 DEF Account!ReadGroup, Account!SaveGroup, Account!Abort, CallMeans
    <3> QED
      BY <1>4, <3>1, <3>2, <3>3
  <2>2. UNCHANGED <<account, request>>
    BY <1>4 DEF Account!ReadAccount, Account!ReadGroup, Account!SaveGroup, Account!Call,
                Account!Begin, Account!Abort
  <2> QED
    BY <1>1, <2>1, <2>2, OtherAccountStep
<1> QED
  BY <1>2, <1>3, <1>4

\* A transaction that meets a conflict begins again.
LEMMA ConflictStep ==
    ASSUME AccountInv, NEW k \in Calls, NEW us, NEW rs, Account!Conflict(k, us, rs),
           call[k].at = "run"
    PROVE  AccountInv' /\ account' = account
<1>1. /\ call' = [call EXCEPT ![k] = [at |-> "begin", asked |-> call[k].asked]]
      /\ UNCHANGED <<account, request>>
  BY DEF Account!Conflict, Account!Goes
<1>2. CallMeans([at |-> "begin", asked |-> call[k].asked])
  BY DEF AccountInv, AccountType, CallMeans
<1> QED
  BY <1>1, <1>2, OtherAccountStep DEF AccountInv, AccountType

LEMMA CreateRequestStep ==
    ASSUME AccountInv, NEW k \in Calls, Account!CreateSubAgentRequest(k)
    PROVE  AccountInv' /\ \A u \in Customers : account'[u].reseller = account[u].reseller
<1>1. PICK u : u = call[k].asked.user
  OBVIOUS
<1>2. CASE Account!Conflict(k, {u}, {})
  BY <1>1, <1>2, ConflictStep DEF Account!CreateSubAgentRequest, Account!Running
<1>3. CASE ~Account!Conflict(k, {u}, {})
  <2>1. PICK r \in Requests :
           /\ Account!PendingOf(request, u) = {}
           /\ request[r].status = "none"
           /\ request' = [request EXCEPT ![r] =
                 [status |-> "PENDING", user |-> u, group |-> None, proof |-> TRUE]]
           /\ call' = [call EXCEPT ![k] = [at |-> "answer", request |-> r]]
           /\ account' = [account EXCEPT ![u].pending = TRUE]
    BY <1>1, <1>3 DEF Account!CreateSubAgentRequest, Account!Goes
  <2>2. u \in Customers
    BY <1>1 DEF AccountInv, AccountType, CallMeans, Account!Operations,
                Account!CreateSubAgentRequest, Account!Running
  <2>3. /\ DOMAIN account' = Customers
        /\ \A v \in Customers :
              /\ DOMAIN account'[v] = AccountFields
              /\ account'[v].pending = IF v = u THEN TRUE ELSE account[v].pending
              /\ account'[v].reseller = account[v].reseller
              /\ account'[v].stopped = account[v].stopped
    BY <2>1, <2>2 DEF AccountInv, AccountType, AccountFields
  <2>4. /\ request' \in [Requests -> RequestDocuments]
        /\ request'[r].status = "PENDING" /\ request'[r].user = u
        /\ \A s \in Requests : s # r => request'[s] = request[s]
    BY <2>1, <2>2 DEF AccountInv, AccountType, RequestDocuments
  <2>5. \A j \in Calls : CallMeans(call'[j])
    BY <2>1 DEF AccountInv, AccountType, CallMeans
  <2>6. AccountType'
    <3>1. /\ \A v \in Customers :
                DOMAIN account'[v] = AccountFields /\ account'[v].pending \in BOOLEAN
                /\ account'[v].reseller \in BOOLEAN
      BY <2>3 DEF AccountInv, AccountType
    <3>2. \A s \in Requests : request'[s].status = "PENDING" => request'[s].user \in Customers
      BY <2>2, <2>4 DEF AccountInv, AccountType
    <3>3. DOMAIN call' = Calls
      BY <2>1 DEF AccountInv, AccountType
    <3> QED
      BY <2>3, <2>4, <2>5, <3>1, <3>2, <3>3 DEF AccountType
  <2>7. /\ Pending(u)' = {r}
        /\ \A v \in Customers : v # u => Pending(v)' = Pending(v)
        /\ \A v \in Customers : Approved(v)' = Approved(v)
    BY <2>1, <2>4 DEF Pending, Approved, Account!PendingOf
  <2>8. ASSUME NEW v \in Customers
        PROVE  /\ Marks(account'[v].pending, Pending(v)')
               /\ Marks(account'[v].reseller, Approved(v)')
               /\ account'[v].stopped = account'[v].reseller
    <3>1. /\ Marks(account[v].pending, Pending(v)) /\ Marks(account[v].reseller, Approved(v))
          /\ account[v].stopped = account[v].reseller
      BY DEF AccountInv, RequestsMean
    <3>2. CASE v = u
      BY <2>3, <2>7, <3>1, <3>2 DEF Marks
    <3>3. CASE v # u
      BY <2>3, <2>7, <3>1, <3>3
    <3> QED
      BY <3>2, <3>3
  <2> QED
    BY <2>3, <2>6, <2>8 DEF AccountInv, RequestsMean
<1> QED
  BY <1>2, <1>3

\* The snapshot of the transaction shows the pending request of the account, and
\* neither has changed since.
Decides(k, r, u) ==
    /\ u = call[k].request[r].user /\ call[k].request[r].status = "PENDING"
    /\ Account!Unchanged(k, {u}, {r})

\* A decision that commits is on the pending request of the account, as it is.
LEMMA DecidedRequest ==
    ASSUME AccountInv, NEW k, NEW r \in Requests, NEW u,
           Decides(k, r, u)
    PROVE  /\ u \in Customers /\ account[u] = call[k].account[u]
           /\ request[r].status = "PENDING" /\ request[r].user = u
           /\ account[u].pending /\ Pending(u) = {r}
<1>1. request[r].status = "PENDING" /\ request[r].user = u /\ account[u] = call[k].account[u]
  BY DEF Decides, Account!Unchanged
<1>2. u \in Customers
  BY <1>1 DEF AccountInv, AccountType
<1>3. r \in Pending(u)
  BY <1>1 DEF Pending, Account!PendingOf
<1> QED
  BY <1>1, <1>2, <1>3 DEF AccountInv, RequestsMean, Marks

LEMMA ApproveRequestStep ==
    ASSUME AccountInv, NEW k \in Calls, Account!ApproveSubAgentRequest(k)
    PROVE  /\ AccountInv'
           /\ \A u \in Customers : account'[u].reseller # account[u].reseller =>
                 /\ Account!Eligible(account[u]) /\ account[u].pending
                 /\ \E r \in Account!PendingOf(request, u) :
                       request'[r].status = "APPROVED" /\ request'[r].group = account'[u].group
<1>1. PICK r, g, u : r = call[k].asked.request /\ g = call[k].asked.group
                     /\ u = call[k].request[r].user
  OBVIOUS
<1>2. r \in Requests /\ g \in Groups /\ call[k].at = "run"
  BY <1>1 DEF AccountInv, AccountType, CallMeans, Account!Operations,
              Account!ApproveSubAgentRequest, Account!Running
<1>3. CASE Account!Conflict(k, {u}, {r})
  BY <1>2, <1>3, ConflictStep
<1>4. CASE ~Account!Conflict(k, {u}, {r})
  <2>1. /\ Account!Unchanged(k, {u}, {r})
        /\ call[k].request[r].status = "PENDING" /\ Account!Eligible(call[k].account[u])
        /\ request' = [request EXCEPT ![r].status = "APPROVED", ![r].group = g]
        /\ account' = [account EXCEPT ![u].group = g, ![u].reseller = TRUE,
                                      ![u].stopped = TRUE, ![u].pending = FALSE]
        /\ call' = [call EXCEPT ![k] = [at |-> "idle"]]
    BY <1>1, <1>4 DEF Account!ApproveSubAgentRequest, Account!Ends, Account!Goes
  <2>2. /\ u \in Customers /\ account[u] = call[k].account[u]
        /\ request[r].status = "PENDING" /\ request[r].user = u
        /\ account[u].pending /\ Pending(u) = {r}
    <3>1. Decides(k, r, u)
      BY <1>1, <2>1 DEF Decides
    <3> QED
      BY <1>2, <3>1, DecidedRequest
  <2>3. /\ DOMAIN account' = Customers
        /\ \A v \in Customers : v # u => account'[v] = account[v]
        /\ DOMAIN account'[u] = AccountFields
        /\ account'[u].pending = FALSE /\ account'[u].reseller = TRUE
        /\ account'[u].stopped = TRUE /\ account'[u].group = g
    BY <2>1, <2>2 DEF AccountInv, AccountType, AccountFields
  <2>4. /\ request' \in [Requests -> RequestDocuments]
        /\ request'[r].status = "APPROVED" /\ request'[r].user = u /\ request'[r].group = g
        /\ \A s \in Requests : s # r => request'[s] = request[s]
    <3>1. request \in [Requests -> RequestDocuments] /\ r \in Requests
      BY <1>2 DEF AccountInv, AccountType
    <3>2. request[r] \in RequestDocuments
      BY <3>1
    <3>3. PICK marked : marked = [request EXCEPT ![r].status = "APPROVED"]
      OBVIOUS
    <3>4. request' = [marked EXCEPT ![r].group = g]
      BY <2>1, <3>3
    <3>5. /\ marked \in [Requests -> RequestDocuments]
          /\ marked[r].status = "APPROVED" /\ marked[r].user = request[r].user
          /\ \A s \in Requests : s # r => marked[s] = request[s]
      <4>1. [request[r] EXCEPT !.status = "APPROVED"] \in RequestDocuments
        BY <3>2 DEF RequestDocuments
      <4>2. marked[r] = [request[r] EXCEPT !.status = "APPROVED"]
        BY <3>1, <3>3
      <4> QED
        BY <3>1, <3>2, <3>3, <4>1, <4>2 DEF RequestDocuments
    <3>6. marked[r] \in RequestDocuments
      BY <3>1, <3>5
    <3>7. request'[r] = [marked[r] EXCEPT !.group = g]
      BY <3>1, <3>4, <3>5
    <3>8. [marked[r] EXCEPT !.group = g] \in RequestDocuments
      BY <1>2, <3>6 DEF RequestDocuments
    <3>9. /\ request'[r].status = "APPROVED" /\ request'[r].user = request[r].user
          /\ request'[r].group = g
      BY <3>5, <3>6, <3>7 DEF RequestDocuments
    <3>10. request' = [marked EXCEPT ![r] = [marked[r] EXCEPT !.group = g]]
      BY <3>4
    <3>11. /\ request' \in [Requests -> RequestDocuments]
           /\ \A s \in Requests : s # r => request'[s] = marked[s]
      <4>1. PICK decided : decided = [marked[r] EXCEPT !.group = g]
        OBVIOUS
      <4>2. decided \in RequestDocuments
        BY <3>8, <4>1
      <4>3. request' = [marked EXCEPT ![r] = decided]
        BY <3>10, <4>1
      <4>4. marked \in [Requests -> RequestDocuments] /\ r \in Requests
        BY <3>1, <3>5
      <4> QED
        BY <4>2, <4>3, <4>4
    <3> QED
      BY <2>2, <3>5, <3>9, <3>11
  <2>5. \A j \in Calls : CallMeans(call'[j])
    BY <2>1 DEF AccountInv, AccountType, CallMeans
  <2>6. AccountType'
    <3>1. \A v \in Customers : /\ DOMAIN account'[v] = AccountFields
                               /\ account'[v].pending \in BOOLEAN
                               /\ account'[v].reseller \in BOOLEAN
      BY <2>2, <2>3 DEF AccountInv, AccountType
    <3>2. \A s \in Requests : request'[s].status = "PENDING" => request'[s].user \in Customers
      BY <2>4 DEF AccountInv, AccountType
    <3>3. DOMAIN call' = Calls
      BY <2>1 DEF AccountInv, AccountType
    <3> QED
      BY <2>3, <2>4, <2>5, <3>1, <3>2, <3>3 DEF AccountType
  <2>7. ~account[u].reseller /\ Account!Eligible(account[u])
    BY <2>1, <2>2 DEF Account!Eligible
  <2>8. Approved(u) = {}
    BY <2>2, <2>7 DEF AccountInv, RequestsMean, Marks
  <2>9. /\ Pending(u)' = {} /\ Approved(u)' = {r}
        /\ \A v \in Customers : v # u => Pending(v)' = Pending(v) /\ Approved(v)' = Approved(v)
    BY <2>2, <2>4, <2>8 DEF Pending, Approved, Account!PendingOf
  <2>10. ASSUME NEW v \in Customers
         PROVE  /\ Marks(account'[v].pending, Pending(v)')
                /\ Marks(account'[v].reseller, Approved(v)')
                /\ account'[v].stopped = account'[v].reseller
    <3>1. /\ Marks(account[v].pending, Pending(v)) /\ Marks(account[v].reseller, Approved(v))
          /\ account[v].stopped = account[v].reseller
      BY DEF AccountInv, RequestsMean
    <3>2. CASE v = u
      BY <2>3, <2>9, <3>1, <3>2 DEF Marks
    <3>3. CASE v # u
      BY <2>3, <2>9, <3>1, <3>3
    <3> QED
      BY <3>2, <3>3
  <2>11. AccountInv'
    BY <2>6, <2>10 DEF AccountInv, RequestsMean
  <2> QED
    BY <2>2, <2>3, <2>4, <2>7, <2>11 DEF Pending
<1> QED
  BY <1>3, <1>4

LEMMA RejectRequestStep ==
    ASSUME AccountInv, NEW k \in Calls, Account!RejectSubAgentRequest(k)
    PROVE  AccountInv' /\ \A u \in Customers : account'[u].reseller = account[u].reseller
<1>1. PICK r, u : r = call[k].asked.request /\ u = call[k].request[r].user
  OBVIOUS
<1>2. r \in Requests /\ call[k].at = "run"
  BY <1>1 DEF AccountInv, AccountType, CallMeans, Account!Operations,
              Account!RejectSubAgentRequest, Account!Running
<1>3. CASE Account!Conflict(k, {u}, {r})
  BY <1>2, <1>3, ConflictStep
<1>4. CASE ~Account!Conflict(k, {u}, {r})
  <2>1. /\ Account!Unchanged(k, {u}, {r}) /\ call[k].request[r].status = "PENDING"
        /\ request' = [request EXCEPT ![r].status = "REJECTED"]
        /\ account' = [account EXCEPT ![u].pending = FALSE]
        /\ call' = [call EXCEPT ![k] = [at |-> "idle"]]
    BY <1>1, <1>4 DEF Account!RejectSubAgentRequest, Account!Ends, Account!Goes
  <2>2. /\ u \in Customers /\ account[u] = call[k].account[u]
        /\ request[r].status = "PENDING" /\ request[r].user = u
        /\ account[u].pending /\ Pending(u) = {r}
    <3>1. Decides(k, r, u)
      BY <1>1, <2>1 DEF Decides
    <3> QED
      BY <1>2, <3>1, DecidedRequest
  <2>3. /\ DOMAIN account' = Customers
        /\ \A v \in Customers :
              /\ DOMAIN account'[v] = AccountFields
              /\ account'[v].pending = IF v = u THEN FALSE ELSE account[v].pending
              /\ account'[v].reseller = account[v].reseller
              /\ account'[v].stopped = account[v].stopped
    BY <2>1, <2>2 DEF AccountInv, AccountType, AccountFields
  <2>4. /\ request' \in [Requests -> RequestDocuments]
        /\ request'[r].status = "REJECTED"
        /\ \A s \in Requests : s # r => request'[s] = request[s]
    <3>1. request \in [Requests -> RequestDocuments] /\ r \in Requests
      BY <1>2 DEF AccountInv, AccountType
    <3>2. request[r] \in RequestDocuments
      BY <3>1
    <3>3. [request[r] EXCEPT !.status = "REJECTED"] \in RequestDocuments
      BY <3>2 DEF RequestDocuments
    <3>4. request' = [request EXCEPT ![r] = [request[r] EXCEPT !.status = "REJECTED"]]
      BY <2>1
    <3>5. /\ request'[r] = [request[r] EXCEPT !.status = "REJECTED"]
          /\ \A s \in Requests : s # r => request'[s] = request[s]
          /\ request' \in [Requests -> RequestDocuments]
      BY <3>1, <3>3, <3>4
    <3> QED
      BY <2>2, <3>2, <3>5 DEF RequestDocuments
  <2>5. \A j \in Calls : CallMeans(call'[j])
    BY <2>1 DEF AccountInv, AccountType, CallMeans
  <2>6. AccountType'
    <3>1. \A v \in Customers : /\ DOMAIN account'[v] = AccountFields
                               /\ account'[v].pending \in BOOLEAN
                               /\ account'[v].reseller \in BOOLEAN
      BY <2>2, <2>3 DEF AccountInv, AccountType
    <3>2. \A s \in Requests : request'[s].status = "PENDING" => request'[s].user \in Customers
      BY <2>4 DEF AccountInv, AccountType
    <3>3. DOMAIN call' = Calls
      BY <2>1 DEF AccountInv, AccountType
    <3> QED
      BY <2>3, <2>4, <2>5, <3>1, <3>2, <3>3 DEF AccountType
  <2>7. /\ Pending(u)' = {}
        /\ \A v \in Customers : v # u => Pending(v)' = Pending(v)
        /\ \A v \in Customers : Approved(v)' = Approved(v)
    BY <2>2, <2>4 DEF Pending, Approved, Account!PendingOf
  <2>8. ASSUME NEW v \in Customers
        PROVE  /\ Marks(account'[v].pending, Pending(v)')
               /\ Marks(account'[v].reseller, Approved(v)')
               /\ account'[v].stopped = account'[v].reseller
    <3>1. /\ Marks(account[v].pending, Pending(v)) /\ Marks(account[v].reseller, Approved(v))
          /\ account[v].stopped = account[v].reseller
      BY DEF AccountInv, RequestsMean
    <3>2. CASE v = u
      BY <2>3, <2>7, <3>1, <3>2 DEF Marks
    <3>3. CASE v # u
      BY <2>3, <2>7, <3>1, <3>3
    <3> QED
      BY <3>2, <3>3
  <2> QED
    BY <2>3, <2>6, <2>8 DEF AccountInv, RequestsMean
<1> QED
  BY <1>3, <1>4

\* What a step does that changes whose account is a reseller's.
ApprovalStep ==
    \A u \in Customers : account'[u].reseller # account[u].reseller =>
        /\ Account!Eligible(account[u]) /\ account[u].pending
        /\ \E r \in Account!PendingOf(request, u) :
              request'[r].status = "APPROVED" /\ request'[r].group = account'[u].group

LEMMA AccountStep ==
    ASSUME AccountInv, [Account!Next]_Account!vars
    PROVE  /\ AccountInv'
           /\ \A u \in Customers : account'[u].reseller # account[u].reseller =>
                 /\ Account!Eligible(account[u]) /\ account[u].pending
                 /\ \E r \in Account!PendingOf(request, u) :
                       request'[r].status = "APPROVED" /\ request'[r].group = account'[u].group
<1>1. CASE UNCHANGED Account!vars
  <2>1. UNCHANGED <<account, request, call>>
    BY <1>1 DEF Account!vars
  <2>2. \A u : Pending(u)' = Pending(u) /\ Approved(u)' = Approved(u)
    BY <2>1 DEF Pending, Approved, Account!PendingOf
  <2>3. AccountType'
    BY <2>1 DEF AccountInv, AccountType, CallMeans
  <2> QED
    BY <2>1, <2>2, <2>3 DEF AccountInv, RequestsMean
<1> QED
  BY <1>1, QuietAccountStep, CreateRequestStep, ApproveRequestStep, RejectRequestStep
     DEF Account!Next

\* createSubAgentRequest, approveSubAgentRequest, rejectSubAgentRequest and the
\* administrators' saves, however they overlap: marks and requests agree.
THEOREM SubAgentsAreConsistent == Account!Spec => []SubAgentConsistent
<1>1. Account!Init => AccountInv
  BY AccountInit
<1>2. AccountInv /\ [Account!Next]_Account!vars => AccountInv'
  BY AccountStep
<1> QED
  BY <1>1, <1>2, AccountInvIsSound, PTL DEF Account!Spec

\* An account becomes a reseller's only while it is active and its request pending,
\* and stays one.
THEOREM OnlyActiveAreApproved == Account!Spec => ApprovedWhileActive
<1>1. Account!Init => AccountInv
  BY AccountInit
<1>2. AccountInv /\ [Account!Next]_Account!vars => AccountInv'
  BY AccountStep
<1>3. AccountInv /\ [Account!Next]_Account!vars => [ApprovalStep]_Account!vars
  BY AccountStep DEF ApprovalStep
<1>4. Account!Spec => [][ApprovalStep]_Account!vars
  BY <1>1, <1>2, <1>3, PTL DEF Account!Spec
<1> QED
  BY <1>4 DEF Account!ApprovedWhileActive, ApprovedWhileActive, ApprovalStep

-----------------------------------------------------------------------------
(* Registration: who exists, who referred whom, and the OAuth states.      *)

Fields == {"exists", "email", "google", "code", "referrer", "verified", "usable"}
Known == Register!Existing \cup {None}

\* Nobody is referred by an account that does not exist yet, now or once a
\* registration under way inserts its account.
AccountsInv ==
    /\ DOMAIN user = Persons /\ \A u \in Persons : DOMAIN user[u] = Fields
    /\ DOMAIN session = Calls
    /\ \A s \in Calls : session[s].at = "create" => session[s].referrer \in Known
    /\ \A u \in Register!Existing : user[u].referrer \in Known
    /\ Register!NoneShared
    /\ Register!ReferralForest

\* A state that was used keeps its nonce for as long as it is alive.
StatesInv ==
    /\ DOMAIN state = OAuthStates /\ \A x \in OAuthStates : "phase" \in DOMAIN state[x]
    /\ \A a \in entries : a[1] \in OAuthStates
                          /\ (a[1] \in nonces \/ state[a[1]].phase = "expired")
    /\ Register!StatesUsedOnce

LEMMA PairOfTwo == \A x, y : x # y => Cardinality({x, y}) = 2
<1> SUFFICES ASSUME NEW x, NEW y, x # y PROVE Cardinality({x, y}) = 2
  OBVIOUS
<1>1. IsFiniteSet({x}) /\ Cardinality({x}) = 1
  BY FS_Singleton
<1>2. IsFiniteSet({x} \cup {y}) /\ Cardinality({x} \cup {y}) = Cardinality({x}) + 1
  BY <1>1, FS_AddElement
<1>3. {x} \cup {y} = {x, y}
  OBVIOUS
<1> QED
  BY <1>1, <1>2, <1>3

LEMMA AccountsInit ==
    ASSUME IsFiniteSet(Persons), None \notin Persons, Register!Init
    PROVE  AccountsInv /\ StatesInv
<1>1. /\ user \in [Persons -> {Register!Absent} \cup
                      [exists : {TRUE}, email : Emails, google : {None}, code : {None},
                       referrer : {None}, verified : {TRUE}, usable : {TRUE}]]
      /\ Register!Cardinality({u \in Persons : user[u].exists}) <= 1
  BY DEF Register!Init
<1>2. \A S : Register!Cardinality(S) = Cardinality(S)
  BY DEF Register!Cardinality, Cardinality
<1>3. \A u, v \in Register!Existing : u = v
  <2> SUFFICES ASSUME NEW u \in Register!Existing, NEW v \in Register!Existing, u # v
               PROVE  FALSE
    OBVIOUS
  <2>1. IsFiniteSet(Register!Existing) /\ Cardinality(Register!Existing) <= 1
    BY <1>1, <1>2, FS_Subset DEF Register!Existing
  <2>2. Cardinality({u, v}) <= Cardinality(Register!Existing) /\ Cardinality({u, v}) \in Nat
    BY <2>1, FS_Subset, FS_CardinalityType
  <2>3. Cardinality({u, v}) = 2
    BY PairOfTwo
  <2>4. Cardinality(Register!Existing) \in Nat
    BY <2>1, FS_CardinalityType
  <2> QED
    BY <2>1, <2>2, <2>3, <2>4
<1>4. \A u \in Persons : DOMAIN user[u] = Fields /\ user[u].referrer = None
  <2> SUFFICES ASSUME NEW u \in Persons
               PROVE  DOMAIN user[u] = Fields /\ user[u].referrer = None
    OBVIOUS
  <2>1. user[u] = Register!Absent
        \/ user[u] \in [exists : {TRUE}, email : Emails, google : {None}, code : {None},
                       referrer : {None}, verified : {TRUE}, usable : {TRUE}]
    BY <1>1
  <2>2. CASE user[u] = Register!Absent
    BY <2>2 DEF Register!Absent, Fields
  <2>3. CASE user[u] \in [exists : {TRUE}, email : Emails, google : {None}, code : {None},
                         referrer : {None}, verified : {TRUE}, usable : {TRUE}]
    BY <2>3 DEF Fields
  <2> QED
    BY <2>1, <2>2, <2>3
<1>5. AccountsInv
  <2>1. Register!ReferralForest
    BY <1>4 DEF Register!ReferralForest, Register!Existing
  <2>2. Register!NoneShared
    BY <1>3 DEF Register!NoneShared
  <2>3. \A s \in Calls : session[s].at # "create"
    BY DEF Register!Init
  <2> QED
    BY <1>1, <1>4, <2>1, <2>2, <2>3 DEF Register!Init, Register!Existing, AccountsInv, Known
<1>6. StatesInv
  BY DEF Register!Init, StatesInv, Register!StatesUsedOnce
<1> QED
  BY <1>5, <1>6

\* An account that exists keeps who referred it, and shares nothing with another.
Edits(u, r) ==
    /\ user' = [user EXCEPT ![u] = r]
    /\ DOMAIN r = Fields /\ r.exists = user[u].exists /\ r.referrer = user[u].referrer
    /\ \A v \in Register!Existing \ {u} :
          /\ r.email # user[v].email
          /\ r.google # None => r.google # user[v].google
          /\ r.code # None => r.code # user[v].code

LEMMA EditsStep ==
    ASSUME AccountsInv, NEW u \in Register!Existing, NEW r, Edits(u, r), DOMAIN session' = Calls,
           \A s \in Calls : session'[s].at = "create" =>
              session[s].at = "create" /\ session'[s].referrer = session[s].referrer
    PROVE  AccountsInv'
<1>1. /\ user'[u] = r /\ \A v \in Persons : v # u => user'[v] = user[v]
      /\ DOMAIN user' = Persons /\ \A v \in Persons : DOMAIN user'[v] = Fields
  BY DEF AccountsInv, Edits, Register!Existing
<1>2. /\ Register!Existing' = Register!Existing /\ Known' = Known
      /\ \A v \in Persons : user'[v].referrer = user[v].referrer
  BY <1>1 DEF Edits, Register!Existing, Known
<1>3. Register!ReferralForest'
  BY <1>2 DEF AccountsInv, Register!ReferralForest, Register!Existing
<1>4. Register!NoneShared'
  BY <1>1, <1>2 DEF AccountsInv, Edits, Register!NoneShared, Register!Existing
<1> QED
  BY <1>1, <1>2, <1>3, <1>4 DEF AccountsInv, Register!Existing

\* A session goes on: what it is about to insert names a referrer that exists.
LEMMA SessionStep ==
    ASSUME AccountsInv, UNCHANGED user, NEW s \in Calls, NEW next, Register!Goes(s, next),
           next.at = "create" => next.referrer \in Known
    PROVE  AccountsInv'
<1>1. /\ DOMAIN session' = Calls /\ session'[s] = next
      /\ \A d \in Calls : d # s => session'[d] = session[d]
  BY DEF AccountsInv, Register!Goes
<1>2. Known' = Known /\ Register!Existing' = Register!Existing
  BY DEF Known, Register!Existing
<1> QED
  BY <1>1, <1>2 DEF AccountsInv, Register!NoneShared, Register!ReferralForest

LEMMA OwnersAreKnown == \A c, e : Register!Owners(c, e) \subseteq Known
BY DEF Register!Owners, Register!WithCode, Known

LEMMA CreateUserStep ==
    ASSUME AccountsInv, None \notin Persons, NEW s \in Calls, Register!CreateUser(s)
    PROVE  AccountsInv'
<1>0. PICK me, ends : me = session[s] /\ ends = [at |-> "idle"]
  OBVIOUS
<1>1. PICK c \in Codes :
        /\ me = session[s] /\ ends = [at |-> "idle"] /\ me.at = "create"
        /\ \/ /\ Register!WithEmail(me.email) \cup Register!WithGoogle(me.google) = {}
              /\ Register!WithCode(c) = {}
              /\ \E u \in Persons \ Register!Existing :
                    user' = [user EXCEPT ![u] =
                       [exists |-> TRUE, email |-> me.email, google |-> me.google, code |-> c,
                        referrer |-> me.referrer, verified |-> me.google # None,
                        usable |-> TRUE]]
              /\ Register!Goes(s, ends)
           \/ /\ Register!Goes(s, [me EXCEPT !.attempt = @ + 1])
              /\ UNCHANGED user
           \/ Register!Goes(s, ends) /\ UNCHANGED user
  BY <1>0 DEF Register!CreateUser, Register!Ends
<1>2. me.referrer \in Known
  BY <1>1 DEF AccountsInv
<1>3. CASE /\ Register!WithEmail(me.email) \cup Register!WithGoogle(me.google) = {}
           /\ Register!WithCode(c) = {}
           /\ \E u \in Persons \ Register!Existing :
                 user' = [user EXCEPT ![u] =
                    [exists |-> TRUE, email |-> me.email, google |-> me.google, code |-> c,
                     referrer |-> me.referrer, verified |-> me.google # None,
                     usable |-> TRUE]]
           /\ Register!Goes(s, ends)
  <2>1. PICK u, r :
          /\ u \in Persons \ Register!Existing
          /\ r = [exists |-> TRUE, email |-> me.email, google |-> me.google, code |-> c,
                  referrer |-> me.referrer, verified |-> me.google # None, usable |-> TRUE]
          /\ user' = [user EXCEPT ![u] = r]
    BY <1>3
  <2>2. /\ DOMAIN r = Fields /\ r.exists /\ r.email = me.email /\ r.google = me.google
        /\ r.code = c /\ r.referrer = me.referrer
    BY <2>1 DEF Fields
  <2>3. /\ user'[u] = r /\ \A v \in Persons : v # u => user'[v] = user[v]
        /\ DOMAIN user' = Persons
    BY <2>1 DEF AccountsInv
  <2>4. Register!Existing' = Register!Existing \cup {u} /\ u \notin Known
        /\ Known' = Known \cup {u}
    BY <2>1, <2>2, <2>3 DEF Register!Existing, Known
  <2>5. /\ DOMAIN session' = Calls /\ session'[s].at # "create"
        /\ \A d \in Calls : d # s => session'[d] = session[d]
    BY <1>1, <1>3 DEF AccountsInv, Register!Goes
  <2>6. Register!NoneShared'
    <3>1. \A v \in Register!Existing :
             /\ r.email # user[v].email
             /\ r.google # None => r.google # user[v].google
             /\ r.code # None => r.code # user[v].code
      BY <1>3, <2>2 DEF Register!WithEmail, Register!WithGoogle, Register!WithCode
    <3>2. \A v \in Register!Existing : user'[v] = user[v] /\ v # u
      BY <2>1, <2>3 DEF Register!Existing
    <3> QED
      BY <2>3, <2>4, <3>1, <3>2 DEF AccountsInv, Register!NoneShared
  <2>7. \A v \in Register!Existing : user'[v].referrer \in Known /\ user'[v] = user[v]
    BY <2>1, <2>3 DEF AccountsInv, Register!Existing
  <2>8. Register!ReferralForest'
    <3> SUFFICES ASSUME NEW S \in SUBSET Register!Existing', S # {}
                 PROVE  \E w \in S : user'[w].referrer \notin S
      BY DEF Register!ReferralForest
    <3>1. CASE S \ {u} = {}
      BY <1>2, <2>2, <2>3, <2>4, <3>1
    <3>2. CASE S \ {u} # {}
      <4>1. S \ {u} \in SUBSET Register!Existing
        BY <2>4
      <4>2. PICK w \in S \ {u} : user[w].referrer \notin S \ {u}
        BY <3>2, <4>1 DEF AccountsInv, Register!ReferralForest
      <4>3. user'[w].referrer # u /\ user'[w].referrer \notin S \ {u}
        BY <2>4, <2>7, <4>1, <4>2
      <4> QED
        BY <4>2, <4>3
    <3> QED
      BY <3>1, <3>2
  <2>9. \A v \in Persons : DOMAIN user'[v] = Fields
    BY <2>2, <2>3 DEF AccountsInv
  <2>10. \A v \in Register!Existing' : user'[v].referrer \in Known'
    BY <1>2, <2>2, <2>3, <2>4, <2>7
  <2>11. \A d \in Calls : session'[d].at = "create" => session'[d].referrer \in Known'
    BY <2>4, <2>5 DEF AccountsInv
  <2> QED
    BY <2>3, <2>5, <2>6, <2>8, <2>9, <2>10, <2>11 DEF AccountsInv
<1>4. CASE Register!Goes(s, [me EXCEPT !.attempt = @ + 1]) /\ UNCHANGED user
  <2>1. PICK next : next = [me EXCEPT !.attempt = @ + 1]
    OBVIOUS
  <2>2. next.at = "create" => next.referrer \in Known
    BY <1>2, <2>1
  <2> QED
    BY <1>4, <2>1, <2>2, SessionStep
<1>5. CASE Register!Goes(s, ends) /\ UNCHANGED user
  BY <1>1, <1>5, SessionStep
<1> QED
  BY <1>1, <1>3, <1>4, <1>5

LEMMA LinkGoogleStep ==
    ASSUME AccountsInv, NEW s \in Calls, Register!LinkGoogle(s)
    PROVE  AccountsInv'
<1>1. PICK me, ends : me = session[s] /\ ends = [at |-> "idle"]
  OBVIOUS
<1>2. /\ Register!Goes(s, ends)
      /\ \/ UNCHANGED user
         \/ /\ Register!WithGoogle(me.profile) \subseteq {me.user}
            /\ user' = [user EXCEPT ![me.user].google = me.profile, ![me.user].verified = TRUE]
  BY <1>1 DEF Register!LinkGoogle, Register!Ends
<1>3. CASE UNCHANGED user
  BY <1>1, <1>2, <1>3, SessionStep
<1>4. CASE me.user \in Persons /\ ~UNCHANGED user
  <2>1. PICK r : r = [user[me.user] EXCEPT !.google = me.profile, !.verified = TRUE]
    OBVIOUS
  <2>2. user' = [user EXCEPT ![me.user] = r] /\ DOMAIN user[me.user] = Fields
    BY <1>2, <1>4, <2>1 DEF AccountsInv
  <2>3. /\ DOMAIN r = Fields /\ r.exists = user[me.user].exists
        /\ r.referrer = user[me.user].referrer /\ r.email = user[me.user].email
        /\ r.code = user[me.user].code /\ r.google = me.profile
    BY <2>1, <2>2 DEF Fields
  <2>4. /\ DOMAIN session' = Calls /\ session'[s].at # "create"
        /\ \A d \in Calls : d # s => session'[d] = session[d]
    BY <1>1, <1>2 DEF AccountsInv, Register!Goes
  <2>5. CASE me.user \in Register!Existing
    <3>1. \A v \in Register!Existing \ {me.user} :
             r.google # None => r.google # user[v].google
      BY <1>2, <1>4, <2>3 DEF Register!WithGoogle
    <3>2. Edits(me.user, r)
      BY <2>2, <2>3, <2>5, <3>1 DEF AccountsInv, Register!NoneShared, Edits
    <3> QED
      BY <2>4, <2>5, <3>2, EditsStep
  <2>6. CASE me.user \notin Register!Existing
    <3>1. /\ \A v \in Persons : v # me.user => user'[v] = user[v]
          /\ user'[me.user] = r /\ DOMAIN user' = Persons
          /\ \A v \in Persons : DOMAIN user'[v] = Fields
      BY <1>4, <2>2, <2>3 DEF AccountsInv
    <3>2. /\ Register!Existing' = Register!Existing /\ Known' = Known
          /\ \A v \in Register!Existing : user'[v] = user[v]
      BY <1>4, <2>3, <2>6, <3>1 DEF Register!Existing, Known
    <3> QED
      BY <2>4, <3>1, <3>2 DEF AccountsInv, Register!NoneShared, Register!ReferralForest
  <2> QED
    BY <2>5, <2>6
<1>5. CASE me.user \notin Persons /\ ~UNCHANGED user
  <2>1. /\ DOMAIN user' = Persons /\ \A v \in Persons : user'[v] = user[v]
        /\ DOMAIN session' = Calls /\ session'[s].at # "create"
        /\ \A d \in Calls : d # s => session'[d] = session[d]
    BY <1>1, <1>2, <1>5 DEF AccountsInv, Register!Goes
  <2>2. /\ Register!Existing' = Register!Existing /\ Known' = Known
        /\ \A v \in Register!Existing : user'[v] = user[v]
    BY <2>1 DEF Register!Existing, Known
  <2> QED
    BY <2>1, <2>2 DEF AccountsInv, Register!NoneShared, Register!ReferralForest
<1> QED
  BY <1>3, <1>4, <1>5

LEMMA AccountChangeStep ==
    ASSUME AccountsInv,
           Register!BackfillReferralCode \/ Register!UpdateMyProfile \/ Register!ChangeStatus
    PROVE  AccountsInv'
<1>1. UNCHANGED session /\ DOMAIN session = Calls
  BY DEF AccountsInv, Register!BackfillReferralCode, Register!UpdateMyProfile,
         Register!ChangeStatus
<1>2. \A u \in Register!Existing : u \in Persons /\ DOMAIN user[u] = Fields
  BY DEF AccountsInv, Register!Existing
<1>3. CASE Register!BackfillReferralCode
  <2>1. PICK u \in Register!Existing, c \in Codes :
          Register!WithCode(c) = {} /\ user' = [user EXCEPT ![u].code = c]
    BY <1>3 DEF Register!BackfillReferralCode
  <2>2. PICK r : r = [user[u] EXCEPT !.code = c]
    OBVIOUS
  <2>3. /\ DOMAIN r = Fields /\ r.exists = user[u].exists /\ r.referrer = user[u].referrer
        /\ r.email = user[u].email /\ r.google = user[u].google /\ r.code = c
    BY <1>2, <2>2 DEF Fields
  <2>4. user' = [user EXCEPT ![u] = r]
    BY <1>2, <2>1, <2>2 DEF AccountsInv
  <2>5. \A v \in Register!Existing : c # None => c # user[v].code
    BY <2>1 DEF Register!WithCode
  <2>6. Edits(u, r)
    BY <2>3, <2>4, <2>5 DEF AccountsInv, Register!NoneShared, Edits
  <2> QED
    BY <1>1, <2>6, EditsStep
<1>4. CASE Register!UpdateMyProfile
  <2>1. PICK u \in Register!Existing, e \in Emails :
          Register!WithEmail(e) \subseteq {u} /\ user' = [user EXCEPT ![u].email = e]
    BY <1>4 DEF Register!UpdateMyProfile
  <2>2. PICK r : r = [user[u] EXCEPT !.email = e]
    OBVIOUS
  <2>3. /\ DOMAIN r = Fields /\ r.exists = user[u].exists /\ r.referrer = user[u].referrer
        /\ r.email = e /\ r.google = user[u].google /\ r.code = user[u].code
    BY <1>2, <2>2 DEF Fields
  <2>4. user' = [user EXCEPT ![u] = r]
    BY <1>2, <2>1, <2>2 DEF AccountsInv
  <2>5. \A v \in Register!Existing \ {u} : e # user[v].email
    BY <2>1 DEF Register!WithEmail
  <2>6. Edits(u, r)
    BY <2>3, <2>4, <2>5 DEF AccountsInv, Register!NoneShared, Edits
  <2> QED
    BY <1>1, <2>6, EditsStep
<1>5. CASE Register!ChangeStatus
  <2>1. PICK u \in Register!Existing : user' = [user EXCEPT ![u].usable = ~@]
    BY <1>5 DEF Register!ChangeStatus
  <2>2. PICK r : r = [user[u] EXCEPT !.usable = ~@]
    OBVIOUS
  <2>3. /\ DOMAIN r = Fields /\ r.exists = user[u].exists /\ r.referrer = user[u].referrer
        /\ r.email = user[u].email /\ r.google = user[u].google /\ r.code = user[u].code
    BY <1>2, <2>2 DEF Fields
  <2>4. user' = [user EXCEPT ![u] = r]
    BY <1>2, <2>1, <2>2 DEF AccountsInv
  <2>5. Edits(u, r)
    BY <2>3, <2>4 DEF AccountsInv, Register!NoneShared, Edits
  <2> QED
    BY <1>1, <2>5, EditsStep
<1> QED
  BY <1>3, <1>4, <1>5

LEMMA AccountsStep ==
    AccountsInv /\ None \notin Persons /\ [Register!Next]_Register!vars => AccountsInv'
<1> SUFFICES ASSUME AccountsInv, None \notin Persons, [Register!Next]_Register!vars
             PROVE  AccountsInv'
  OBVIOUS
<1>1. ASSUME NEW s \in Calls, Register!Register(s) PROVE AccountsInv'
  <2>1. PICK e, c, owner :
          /\ owner \in Register!Owners(c, e)
          /\ Register!Goes(s, Register!CreateAt(e, None, owner)) /\ UNCHANGED user
    BY <1>1 DEF Register!Register
  <2>2. Register!CreateAt(e, None, owner).referrer \in Known
    BY <2>1, OwnersAreKnown DEF Register!CreateAt
  <2> QED
    BY <2>1, <2>2, SessionStep
<1>2. ASSUME NEW s \in Calls, NEW x \in OAuthStates, Register!ConsumeGoogleOAuthState(s, x)
      PROVE  AccountsInv'
  <2>1. PICK g, e, c :
          /\ Register!Goes(s, [at |-> "resolve", profile |-> g, email |-> e, code |-> c])
          /\ UNCHANGED user
    BY <1>2 DEF Register!ConsumeGoogleOAuthState
  <2> QED
    BY <2>1, SessionStep
<1>3. ASSUME NEW s \in Calls, Register!LoginWithNativeGoogle(s) PROVE AccountsInv'
  <2>1. PICK g \in Profiles, e \in Emails :
          /\ Register!Goes(s, [at |-> "resolve", profile |-> g, email |-> e, code |-> None])
          /\ UNCHANGED user
    BY <1>3 DEF Register!LoginWithNativeGoogle
  <2> QED
    BY <2>1, SessionStep
<1>4. ASSUME NEW s \in Calls, Register!ResolveGoogleUser(s) PROVE AccountsInv'
  <2>1. PICK me, ends : me = session[s] /\ ends = [at |-> "idle"]
    OBVIOUS
  <2>2. /\ UNCHANGED user
        /\ \/ Register!Goes(s, ends)
           \/ \E u : Register!Goes(s, [at |-> "link", user |-> u, profile |-> me.profile])
           \/ \E owner \in Register!Owners(me.code, me.email) :
                 Register!Goes(s, Register!CreateAt(me.email, me.profile, owner))
    BY <1>4, <2>1 DEF Register!ResolveGoogleUser, Register!Ends
  <2>3. CASE Register!Goes(s, ends)
    BY <2>1, <2>2, <2>3, SessionStep
  <2>4. CASE \E u : Register!Goes(s, [at |-> "link", user |-> u, profile |-> me.profile])
    BY <2>2, <2>4, SessionStep
  <2>5. CASE \E owner \in Register!Owners(me.code, me.email) :
                Register!Goes(s, Register!CreateAt(me.email, me.profile, owner))
    <3>1. PICK owner \in Register!Owners(me.code, me.email) :
            Register!Goes(s, Register!CreateAt(me.email, me.profile, owner))
      BY <2>5
    <3>2. Register!CreateAt(me.email, me.profile, owner).referrer \in Known
      BY OwnersAreKnown DEF Register!CreateAt
    <3> QED
      BY <2>2, <3>1, <3>2, SessionStep
  <2> QED
    BY <2>2, <2>3, <2>4, <2>5
<1>5. ASSUME NEW s \in Calls, Register!LinkGoogle(s) \/ Register!CreateUser(s)
      PROVE  AccountsInv'
  BY <1>5, LinkGoogleStep, CreateUserStep
<1>6. CASE UNCHANGED <<user, session>>
  BY <1>6 DEF AccountsInv, Known, Register!Existing, Register!NoneShared,
              Register!ReferralForest
<1>7. ASSUME NEW x \in OAuthStates,
             Register!StartGoogleOAuth(x) \/ Register!Expire(x) \/ Register!PurgeNonce(x)
      PROVE  AccountsInv'
  BY <1>6, <1>7 DEF Register!StartGoogleOAuth, Register!Expire, Register!PurgeNonce
<1>8. CASE Register!BackfillReferralCode \/ Register!UpdateMyProfile \/ Register!ChangeStatus
  BY <1>8, AccountChangeStep
<1>9. CASE UNCHANGED Register!vars
  BY <1>6, <1>9 DEF Register!vars
<1> QED
  BY <1>1, <1>2, <1>3, <1>4, <1>5, <1>7, <1>8, <1>9 DEF Register!Next

LEMMA StatesStep == StatesInv /\ [Register!Next]_Register!vars => StatesInv'
<1> SUFFICES ASSUME StatesInv, [Register!Next]_Register!vars PROVE StatesInv'
  OBVIOUS
<1>1. ASSUME NEW s \in Calls, NEW x \in OAuthStates, Register!ConsumeGoogleOAuthState(s, x)
      PROVE  StatesInv'
  <2>1. /\ state[x].phase = "alive" /\ x \notin nonces /\ nonces' = nonces \cup {x}
        /\ entries' = entries \cup {<<x, begun>>} /\ UNCHANGED state
    BY <1>1 DEF Register!ConsumeGoogleOAuthState
  <2>2. \A a \in entries : a[1] # x
    BY <2>1 DEF StatesInv
  <2> QED
    BY <2>1, <2>2 DEF StatesInv, Register!StatesUsedOnce
<1>2. ASSUME NEW x \in OAuthStates, Register!StartGoogleOAuth(x) \/ Register!Expire(x)
      PROVE  StatesInv'
  <2>1. PICK next : /\ state[x].phase # "expired" /\ state' = [state EXCEPT ![x] = next]
                    /\ next.phase \in {"alive", "expired"} /\ "phase" \in DOMAIN next
                    /\ UNCHANGED <<nonces, entries>>
    <3>1. CASE Register!StartGoogleOAuth(x)
      <4>1. PICK c, signup, next :
              /\ next = [phase |-> "alive", signup |-> signup, code |-> c]
              /\ state[x].phase = "none" /\ state' = [state EXCEPT ![x] = next]
              /\ UNCHANGED <<nonces, entries>>
        BY <3>1 DEF Register!StartGoogleOAuth
      <4>2. next.phase = "alive" /\ "phase" \in DOMAIN next
        BY <4>1
      <4> QED
        BY <4>1, <4>2
    <3>2. CASE Register!Expire(x)
      <4>1. PICK next : next = [state[x] EXCEPT !.phase = "expired"]
        OBVIOUS
      <4>2. /\ state[x].phase = "alive" /\ state' = [state EXCEPT ![x] = next]
            /\ UNCHANGED <<nonces, entries>>
        BY <3>2, <4>1 DEF Register!Expire, StatesInv
      <4>3. next.phase = "expired" /\ "phase" \in DOMAIN next
        BY <4>1 DEF StatesInv
      <4> QED
        BY <4>2, <4>3
    <3> QED
      BY <1>2, <3>1, <3>2
  <2> QED
    BY <2>1 DEF StatesInv, Register!StatesUsedOnce
<1>3. ASSUME NEW x \in OAuthStates, Register!PurgeNonce(x) PROVE StatesInv'
  BY <1>3 DEF Register!PurgeNonce, StatesInv, Register!StatesUsedOnce
<1>4. CASE UNCHANGED <<state, nonces, entries>>
  BY <1>4 DEF StatesInv, Register!StatesUsedOnce
<1>5. ASSUME NEW s \in Calls,
             \/ Register!Register(s) \/ Register!LoginWithNativeGoogle(s)
             \/ Register!ResolveGoogleUser(s) \/ Register!LinkGoogle(s) \/ Register!CreateUser(s)
      PROVE  StatesInv'
  BY <1>4, <1>5 DEF Register!Register, Register!LoginWithNativeGoogle,
     Register!ResolveGoogleUser, Register!LinkGoogle, Register!CreateUser
<1>6. CASE Register!BackfillReferralCode \/ Register!UpdateMyProfile \/ Register!ChangeStatus
  BY <1>4, <1>6 DEF Register!BackfillReferralCode, Register!UpdateMyProfile,
     Register!ChangeStatus
<1>7. CASE UNCHANGED Register!vars
  BY <1>4, <1>7 DEF Register!vars
<1> QED
  BY <1>1, <1>2, <1>3, <1>5, <1>6, <1>7 DEF Register!Next

\* auth.service, googleOAuthState and the unique indexes of User, whatever interleaves:
\* a state signs in once, accounts share nothing and referrals form a forest.
THEOREM AccountsAreSound == Register!Spec => []AccountsSound
<1> USE CustomersAssumption
<1>1. Register!Init => AccountsInv /\ StatesInv
  BY AccountsInit
<1>2. AccountsInv /\ StatesInv /\ [Register!Next]_Register!vars => (AccountsInv /\ StatesInv)'
  BY AccountsStep, StatesStep
<1>3. AccountsInv /\ StatesInv => AccountsSound
  BY DEF AccountsInv, StatesInv, AccountsSound, Register!AccountsSound
<1> QED
  BY <1>1, <1>2, <1>3, PTL DEF Register!Spec

-----------------------------------------------------------------------------
(* Credentials: links, codes and second factors.                           *)

HolderFields == {"verified", "link", "code", "attempts", "second", "otp", "completion", "complete"}
Made == {n \in Nat : n < generated}

\* The session will write a new credential of this kind.
Writes(s, kind) ==
    /\ visit[s].at = "save" /\ kind \in DOMAIN visit[s].fields
    /\ visit[s].fields[kind] # None

\* A credential that is not in the account yet, and never was.
Fresh(kind, n) ==
    /\ n \in Made /\ holder[kind] # n /\ <<kind, n>> \notin gone
    /\ \A t \in Calls : visit[t].at = "save" => <<kind, n>> \notin visit[t].used
    /\ \A t \in Calls : visit[t].at = "acceptCode" /\ kind = "code" => visit[t].code # n

\* What is written with a code, and what takes out a code that was tried too often.
Consistent(fields) ==
    /\ "code" \in DOMAIN fields /\ fields["code"] # None
          => "attempts" \in DOMAIN fields /\ fields["attempts"] < MaxCodeAttempts
    /\ "attempts" \in DOMAIN fields =>
          /\ fields["attempts"] \in Nat
          /\ \/ fields["attempts"] < MaxCodeAttempts
             \/ "code" \in DOMAIN fields /\ fields["code"] = None

\* What is used up is made and taken out.
UsedUp(fields, used) ==
    \A k \in Credential!Kinds : \A n : <<k, n>> \in used =>
        n \in Made /\ k \in DOMAIN fields /\ fields[k] = None

CredentialType ==
    /\ generated \in Nat
    /\ DOMAIN holder = HolderFields /\ holder["attempts"] \in Nat
    /\ \A k \in Credential!Kinds : holder[k] # None => holder[k] \in Made
    /\ \A k \in Credential!Kinds : \A n : <<k, n>> \in gone => n \in Made
    /\ DOMAIN visit = Calls
    /\ \A s \in Calls : visit[s].at \in {"idle", "save", "acceptCode"}

SavesMean ==
    /\ \A s \in Calls : visit[s].at = "save" =>
          Consistent(visit[s].fields) /\ UsedUp(visit[s].fields, visit[s].used)
    /\ \A s \in Calls : visit[s].at = "acceptCode" => visit[s].code \in Made
    /\ \A s \in Calls, k \in Credential!Kinds : Writes(s, k) =>
          /\ Fresh(k, visit[s].fields[k])
          /\ \A t \in Calls : t # s /\ Writes(t, k) => visit[t].fields[k] # visit[s].fields[k]

NotGone == \A k \in Credential!Kinds : holder[k] # None => <<k, holder[k]>> \notin gone

CredentialInv ==
    /\ CredentialType /\ SavesMean /\ NotGone /\ ~stale
    /\ holder["code"] # None => holder["attempts"] < MaxCodeAttempts

LEMMA CredentialInvIsSound == CredentialInv => CredentialsSound
<1> SUFFICES ASSUME CredentialInv PROVE CredentialsSound
  OBVIOUS
<1>1. \A k \in Credential!Kinds : Credential!Stored(k) \cap gone = {}
  BY DEF CredentialInv, NotGone, Credential!Stored
<1> QED
  BY <1>1 DEF CredentialInv, Credential!CredentialsSound, CredentialsSound

LEMMA CredentialInit == Credential!Init => CredentialInv
BY DEF Credential!Init, CredentialInv, CredentialType, SavesMean, NotGone, HolderFields, Writes,
       Credential!Kinds

\* A session that begins: what it will write is new, and what it uses is stored.
Begins(s, next) ==
    /\ visit[s].at = "idle" /\ visit' = [visit EXCEPT ![s] = next]
    /\ generated' \in {generated, generated + 1}
    /\ UNCHANGED <<holder, gone, stale>>
    /\ \/ /\ next.at = "save" /\ Consistent(next.fields)
          /\ \A k \in Credential!Kinds : k \in DOMAIN next.fields /\ next.fields[k] # None
                => next.fields[k] = generated /\ generated' = generated + 1
          /\ \A k \in Credential!Kinds : \A n : <<k, n>> \in next.used =>
                /\ holder[k] = n /\ n # None
                /\ k \in DOMAIN next.fields /\ next.fields[k] = None
       \/ next.at = "acceptCode" /\ next.code = holder["code"] /\ next.code # None

LEMMA CredentialStartStep ==
    ASSUME CredentialInv, NEW s \in Calls, NEW next, Begins(s, next) PROVE CredentialInv'
<1> USE DEF Begins
<1>1. \A t \in Calls : IF t = s THEN visit'[t] = next ELSE visit'[t] = visit[t]
  BY DEF CredentialInv, CredentialType
<1>2. /\ generated \in Nat /\ generated' \in Nat /\ generated \notin Made
      /\ \A n \in Made : n \in Made' /\ n # generated
      /\ (generated' = generated + 1 => generated \in Made')
  BY DEF CredentialInv, CredentialType, Made
<1>3. CredentialType'
  BY <1>1, <1>2 DEF CredentialInv, CredentialType
<1>4. "code" \in Credential!Kinds
  BY DEF Credential!Kinds
<1>5. ASSUME NEW t \in Calls, visit'[t].at = "save"
      PROVE  (Consistent(visit[t].fields) /\ UsedUp(visit[t].fields, visit[t].used))'
  <2>1. CASE t = s
    <3>1. Consistent(next.fields)
      BY <1>1, <1>5, <2>1
    <3>2. \A k \in Credential!Kinds : \A n : <<k, n>> \in next.used => n \in Made
      BY <1>1, <1>5, <2>1 DEF CredentialInv, CredentialType
    <3> QED
      BY <1>1, <1>2, <1>5, <2>1, <3>1, <3>2 DEF UsedUp, Consistent
  <2>2. CASE t # s
    BY <1>1, <1>2, <1>5, <2>2 DEF CredentialInv, SavesMean, UsedUp, Consistent
  <2> QED
    BY <2>1, <2>2
<1>6. \A t \in Calls : visit'[t].at = "acceptCode" => visit'[t].code \in Made'
  BY <1>1, <1>2, <1>4 DEF CredentialInv, CredentialType, SavesMean
<1>7. ASSUME NEW t \in Calls, NEW k \in Credential!Kinds, Writes(t, k)', NEW n,
             n = visit'[t].fields[k]
      PROVE  Fresh(k, n)' /\ \A u \in Calls : u # t /\ Writes(u, k)' => visit'[u].fields[k] # n
  <2>1. CASE t = s
    <3>1. n = generated /\ generated' = generated + 1
      BY <1>1, <1>7, <2>1 DEF Writes
    <3>2. n \in Made' /\ holder[k] # n /\ <<k, n>> \notin gone
      <4>1. n # None
        BY <1>7 DEF Writes
      <4>2. /\ holder[k] # None => holder[k] \in Made
            /\ <<k, n>> \in gone => n \in Made
        BY DEF CredentialInv, CredentialType
      <4>3. generated \in Made' /\ generated \notin Made
        BY <1>2, <3>1
      <4> QED
        BY <3>1, <4>1, <4>2, <4>3
    <3>3. \A u \in Calls : visit'[u].at = "save" => <<k, n>> \notin visit'[u].used
      BY <1>1, <1>2, <3>1, <3>2 DEF CredentialInv, SavesMean, UsedUp
    <3>4. \A u \in Calls : visit'[u].at = "acceptCode" /\ k = "code" => visit'[u].code # n
      BY <1>1, <1>2, <3>1, <3>2 DEF CredentialInv, SavesMean
    <3>5. \A u \in Calls : u # t /\ Writes(u, k)' => visit'[u].fields[k] # n
      BY <1>1, <1>2, <2>1, <3>1 DEF CredentialInv, SavesMean, Writes, Fresh
    <3> QED
      BY <3>2, <3>3, <3>4, <3>5 DEF Fresh
  <2>2. CASE t # s
    <3>1. /\ Writes(t, k) /\ n = visit[t].fields[k] /\ Fresh(k, n)
          /\ \A u \in Calls : u # t /\ Writes(u, k) => visit[u].fields[k] # n
      BY <1>1, <1>7, <2>2 DEF CredentialInv, SavesMean, Writes
    <3>2. n \in Made' /\ n # generated /\ holder'[k] # n /\ <<k, n>> \notin gone'
      BY <1>2, <3>1 DEF Fresh
    <3>3. \A u \in Calls : visit'[u].at = "save" => <<k, n>> \notin visit'[u].used
      BY <1>1, <3>1, <3>2 DEF Fresh
    <3>4. \A u \in Calls : visit'[u].at = "acceptCode" /\ k = "code" => visit'[u].code # n
      BY <1>1, <3>1, <3>2 DEF Fresh
    <3>5. \A u \in Calls : u # t /\ Writes(u, k)' => visit'[u].fields[k] # n
      BY <1>1, <3>1, <3>2 DEF Writes
    <3> QED
      BY <3>2, <3>3, <3>4, <3>5 DEF Fresh
  <2> QED
    BY <2>1, <2>2
<1>8. SavesMean'
  BY <1>5, <1>6, <1>7 DEF SavesMean
<1> QED
  BY <1>3, <1>8 DEF CredentialInv, NotGone

\* A write of some fields, and the sessions that end with it: one that had the
\* fields, or none when they are of no new credential.
Applies(fields, used, ended) ==
    /\ Credential!Write(fields) /\ gone' = gone \cup Credential!Replaced \cup used
    /\ Consistent(fields) /\ UsedUp(fields, used)
    /\ UNCHANGED generated /\ ~stale' /\ DOMAIN visit' = Calls
    /\ \A t \in Calls : IF t \in ended THEN visit'[t].at = "idle" ELSE visit'[t] = visit[t]
    /\ \A k \in Credential!Kinds : k \in DOMAIN fields /\ fields[k] # None
          => \E s \in ended : Writes(s, k) /\ fields = visit[s].fields
    /\ \A k \in Credential!Kinds : \A n : Fresh(k, n) => <<k, n>> \notin used

LEMMA WriteStep ==
    ASSUME CredentialInv, NEW fields, NEW used, NEW ended \in SUBSET Calls,
           Applies(fields, used, ended)
    PROVE  CredentialInv'
<1> USE DEF Applies
<1>1. /\ DOMAIN holder' = HolderFields /\ Made' = Made
      /\ \A f \in HolderFields :
            holder'[f] = IF f \in DOMAIN fields THEN fields[f] ELSE holder[f]
  BY DEF CredentialInv, CredentialType, Credential!Write, Made
<1>2. Credential!Kinds \subseteq HolderFields /\ "code" \in Credential!Kinds
      /\ "attempts" \in HolderFields
  BY DEF Credential!Kinds, HolderFields
<1>3. \A k \in Credential!Kinds : \A n : <<k, n>> \in gone' <=>
         <<k, n>> \in gone \/ <<k, n>> \in used
           \/ (holder[k] = n /\ n # None /\ holder'[k] # n)
  BY DEF Credential!Replaced
<1>4. ASSUME NEW k \in Credential!Kinds, k \in DOMAIN fields, fields[k] # None
      PROVE  Fresh(k, fields[k]) /\ <<k, fields[k]>> \notin gone'
  <2>1. Fresh(k, fields[k])
    BY <1>4 DEF CredentialInv, SavesMean
  <2> QED
    BY <1>3, <2>1 DEF Fresh
<1>5. NotGone'
  <2> SUFFICES ASSUME NEW k \in Credential!Kinds, holder'[k] # None
               PROVE  <<k, holder'[k]>> \notin gone'
    BY DEF NotGone
  <2>1. CASE k \in DOMAIN fields
    BY <1>1, <1>2, <1>4, <2>1
  <2>2. CASE k \notin DOMAIN fields
    BY <1>1, <1>2, <1>3, <2>2 DEF CredentialInv, NotGone, UsedUp
  <2> QED
    BY <2>1, <2>2
<1>6. CredentialType'
  <2>1. holder'["attempts"] \in Nat
    BY <1>1, <1>2 DEF CredentialInv, CredentialType, Consistent
  <2>2. \A k \in Credential!Kinds : holder'[k] # None => holder'[k] \in Made
    BY <1>1, <1>2, <1>4 DEF CredentialInv, CredentialType, Fresh
  <2>3. \A k \in Credential!Kinds : \A n : <<k, n>> \in gone' => n \in Made
    BY <1>3 DEF CredentialInv, CredentialType, UsedUp
  <2>4. \A t \in Calls : visit'[t].at \in {"idle", "save", "acceptCode"}
    BY DEF CredentialInv, CredentialType
  <2> QED
    BY <1>1, <2>1, <2>2, <2>3, <2>4 DEF CredentialInv, CredentialType
<1>7. SavesMean'
  <2>1. \A t \in Calls : visit'[t].at \in {"save", "acceptCode"}
                           => t \notin ended /\ visit'[t] = visit[t]
    OBVIOUS
  <2>2. \A t \in Calls : visit'[t].at = "save" =>
           (Consistent(visit[t].fields) /\ UsedUp(visit[t].fields, visit[t].used))'
    BY <1>1, <2>1 DEF CredentialInv, SavesMean, UsedUp, Consistent
  <2>3. ASSUME NEW t \in Calls, NEW k \in Credential!Kinds, Writes(t, k)', NEW n,
               n = visit'[t].fields[k]
        PROVE  Fresh(k, n)' /\ \A u \in Calls : u # t /\ Writes(u, k)' => visit'[u].fields[k] # n
    <3>1. /\ t \notin ended /\ Writes(t, k) /\ n = visit[t].fields[k] /\ Fresh(k, n)
          /\ \A u \in Calls : u # t /\ Writes(u, k) => visit[u].fields[k] # n
      BY <2>1, <2>3 DEF CredentialInv, SavesMean, Writes
    <3>2. holder'[k] # n
      <4>1. CASE k \in DOMAIN fields /\ fields[k] # None
        BY <1>1, <1>2, <3>1, <4>1
      <4>2. CASE ~(k \in DOMAIN fields /\ fields[k] # None)
        BY <1>1, <1>2, <2>3, <3>1, <4>2 DEF Fresh, Writes
      <4> QED
        BY <4>1, <4>2
    <3>3. <<k, n>> \notin gone'
      BY <1>3, <3>1 DEF Fresh
    <3>4. \A u \in Calls : u # t /\ Writes(u, k)' => visit'[u].fields[k] # n
      BY <2>1, <3>1 DEF Writes
    <3> QED
      BY <1>1, <2>1, <3>1, <3>2, <3>3, <3>4 DEF Fresh
  <2> QED
    <3>1. \A t \in Calls : visit'[t].at = "acceptCode" => visit'[t].code \in Made'
      BY <1>1, <2>1 DEF CredentialInv, SavesMean
    <3> QED
      BY <2>2, <2>3, <3>1 DEF SavesMean
<1>8. holder'["code"] # None => holder'["attempts"] < MaxCodeAttempts
  BY <1>1, <1>2 DEF CredentialInv, Consistent
<1> QED
  BY <1>5, <1>6, <1>7, <1>8 DEF CredentialInv

LEMMA SaveCredentialStep ==
    ASSUME CredentialInv, NEW s \in Calls, Credential!Save(s) PROVE CredentialInv'
<1> DEFINE fields == visit[s].fields
           used == visit[s].used
<1>1. /\ visit[s].at = "save" /\ Credential!Write(fields)
      /\ gone' = gone \cup Credential!Replaced \cup used
      /\ visit' = [visit EXCEPT ![s] = [at |-> "idle"]]
      /\ UNCHANGED generated /\ ~stale'
  BY DEF Credential!Save, Credential!Goes, CredentialInv
<1>2. Consistent(fields) /\ UsedUp(fields, used)
  BY <1>1 DEF CredentialInv, SavesMean
<1>3. /\ DOMAIN visit' = Calls
      /\ \A t \in Calls : IF t \in {s} THEN visit'[t].at = "idle" ELSE visit'[t] = visit[t]
  BY <1>1 DEF CredentialInv, CredentialType
<1>4. \A k \in Credential!Kinds : k \in DOMAIN fields /\ fields[k] # None
          => \E t \in {s} : Writes(t, k) /\ fields = visit[t].fields
  BY <1>1 DEF Writes
<1>5. \A k \in Credential!Kinds : \A n : Fresh(k, n) => <<k, n>> \notin used
  BY <1>1 DEF Fresh
<1>6. Applies(fields, used, {s})
  BY <1>1, <1>2, <1>3, <1>4, <1>5 DEF Applies
<1> QED
  BY <1>6, WriteStep

LEMMA AcceptCodeStep ==
    ASSUME CredentialInv, NEW s \in Calls, Credential!AcceptCode(s) PROVE CredentialInv'
<1>1. /\ visit[s].at = "acceptCode" /\ visit' = [visit EXCEPT ![s] = [at |-> "idle"]]
      /\ UNCHANGED generated
  BY DEF Credential!AcceptCode, Credential!Goes
<1>2. /\ DOMAIN visit' = Calls
      /\ \A t \in Calls : IF t \in {s} THEN visit'[t].at = "idle" ELSE visit'[t] = visit[t]
  BY <1>1 DEF CredentialInv, CredentialType
<1>3. CASE Credential!CodeMatches(s)
  <2> DEFINE fields == [verified |-> TRUE, link |-> None, code |-> None, attempts |-> 0]
             used == {<<"code", visit[s].code>>}
  <2>1. /\ Credential!Write(fields) /\ gone' = gone \cup Credential!Replaced \cup used
        /\ ~stale'
    BY <1>3 DEF Credential!AcceptCode, Credential!CodeMatches, CredentialInv
  <2>2. /\ DOMAIN fields = {"verified", "link", "code", "attempts"}
        /\ fields["link"] = None /\ fields["code"] = None /\ fields["attempts"] = 0
    OBVIOUS
  <2>3. \A k \in Credential!Kinds : k \in DOMAIN fields => fields[k] = None
    BY <2>2 DEF Credential!Kinds
  <2>4. Consistent(fields)
    BY <2>2 DEF Consistent
  <2>5. UsedUp(fields, used)
    BY <1>1, <2>2 DEF UsedUp, CredentialInv, SavesMean
  <2>6. \A k \in Credential!Kinds : \A n : Fresh(k, n) => <<k, n>> \notin used
    BY <1>1 DEF Fresh
  <2> HIDE DEF fields, used
  <2>7. Applies(fields, used, {s})
    BY <1>1, <1>2, <2>1, <2>3, <2>4, <2>5, <2>6 DEF Applies
  <2> QED
    BY <2>7, WriteStep
<1>4. CASE ~Credential!CodeMatches(s)
  <2>1. UNCHANGED <<holder, gone, stale, generated>>
    BY <1>1, <1>4 DEF Credential!AcceptCode
  <2>2. \A t \in Calls : visit'[t].at # "idle" => t # s /\ visit'[t] = visit[t]
    BY <1>2
  <2>3. \A t \in Calls, k \in Credential!Kinds : Writes(t, k)' => t # s /\ Writes(t, k)
    BY <2>2 DEF Writes
  <2>4. \A k \in Credential!Kinds : \A n : Fresh(k, n) => Fresh(k, n)'
    BY <2>1, <2>2 DEF Fresh, Made
  <2>5. SavesMean'
    <3>1. \A t \in Calls : visit'[t].at = "save" =>
             (Consistent(visit[t].fields) /\ UsedUp(visit[t].fields, visit[t].used))'
      BY <2>1, <2>2 DEF CredentialInv, SavesMean, UsedUp, Consistent, Made
    <3>2. \A t \in Calls : visit'[t].at = "acceptCode" => visit'[t].code \in Made'
      BY <2>1, <2>2 DEF CredentialInv, SavesMean, Made
    <3>3. ASSUME NEW t \in Calls, NEW k \in Credential!Kinds, Writes(t, k)'
          PROVE  /\ Fresh(k, visit[t].fields[k])'
                 /\ \A u \in Calls : u # t /\ Writes(u, k)'
                                       => visit'[u].fields[k] # visit'[t].fields[k]
      <4>1. Writes(t, k) /\ visit'[t] = visit[t]
        BY <2>2, <2>3, <3>3 DEF Writes
      <4>2. Fresh(k, visit[t].fields[k])
        BY <4>1 DEF CredentialInv, SavesMean
      <4>3. \A u \in Calls : Writes(u, k)' => Writes(u, k) /\ visit'[u] = visit[u]
        BY <2>2, <2>3 DEF Writes
      <4>4. PICK n : n = visit[t].fields[k]
        OBVIOUS
      <4>5. Fresh(k, n)'
        BY <2>4, <4>2, <4>4
      <4>6. Fresh(k, visit[t].fields[k])'
        BY <4>1, <4>4, <4>5 DEF Fresh
      <4> QED
        BY <4>1, <4>3, <4>6 DEF CredentialInv, SavesMean
    <3> QED
      BY <3>1, <3>2, <3>3 DEF SavesMean
  <2> QED
    BY <1>2, <2>1, <2>5 DEF CredentialInv, CredentialType, NotGone, Made
<1> QED
  BY <1>3, <1>4

LEMMA VerifiedOtherwiseStep ==
    ASSUME CredentialInv, Credential!VerifiedOtherwise PROVE CredentialInv'
<1>1. PICK fields \in {[verified |-> TRUE, link |-> None], [verified |-> TRUE]} :
         Credential!Write(fields)
  BY DEF Credential!VerifiedOtherwise
<1>2. /\ gone' = gone \cup Credential!Replaced \cup {} /\ UNCHANGED <<visit, generated, stale>>
  BY DEF Credential!VerifiedOtherwise
<1>3. DOMAIN fields \in {{"verified", "link"}, {"verified"}}
      /\ ("link" \in DOMAIN fields => fields["link"] = None)
  OBVIOUS
<1>4. \A k \in Credential!Kinds : k \in DOMAIN fields => fields[k] = None
  BY <1>3 DEF Credential!Kinds
<1>5. Consistent(fields) /\ UsedUp(fields, {})
  BY <1>3 DEF Consistent, UsedUp
<1>6. DOMAIN visit' = Calls /\ ~stale' /\ UNCHANGED generated
  BY <1>2 DEF CredentialInv, CredentialType
<1>7. \A t \in Calls : IF t \in {} THEN visit'[t].at = "idle" ELSE visit'[t] = visit[t]
  BY <1>2
<1>8. Applies(fields, {}, {})
  BY <1>1, <1>2, <1>4, <1>5, <1>6, <1>7 DEF Applies
<1> QED
  BY <1>8, WriteStep

\* The requests that read the account, and what they will write.
LEMMA CredentialRequestStep ==
    ASSUME CredentialInv, MaxCodeAttempts \in Nat \ {0}, NEW s \in Calls,
           \/ Credential!ResendVerification(s) \/ Credential!VerifyEmail(s)
           \/ Credential!CheckCode(s) \/ Credential!WrongCode(s)
           \/ Credential!SendOtp(s) \/ Credential!CheckOtp(s) \/ Credential!ClearOtp(s)
           \/ Credential!Disable2FA(s)
           \/ Credential!IssueCompletionToken(s) \/ Credential!CompleteGoogleProfile(s)
    PROVE  CredentialInv'
<1> USE DEF Credential!Starts, Credential!Generates, Credential!Tries, Credential!Goes,
            Credential!Put, Credential!Accept
<1>1. CASE Credential!CheckCode(s)
  <2>1. holder["code"] # None
    BY <1>1 DEF Credential!CheckCode, Credential!CodeIsUsable, Credential!Usable,
                Credential!Stored
  <2>2. Begins(s, [at |-> "acceptCode", code |-> holder.code])
    BY <1>1, <2>1 DEF Credential!CheckCode, Begins
  <2> QED
    BY <2>2, CredentialStartStep
<1>2. ASSUME NEW k \in Credential!Kinds, NEW j, NEW n, <<j, n>> \in Credential!Stored(k)
      PROVE  j = k /\ n = holder[k] /\ n # None
  BY <1>2 DEF Credential!Stored
<1>3. generated \in Nat /\ holder["attempts"] \in Nat
  BY DEF CredentialInv, CredentialType
<1> USE DEF Consistent, Credential!Kinds
<1>4. CASE Credential!ResendVerification(s)
  <2>1. Begins(s, [at |-> "save", fields |-> [link |-> generated, code |-> generated, attempts |-> 0],
                   used |-> {}])
    BY <1>2, <1>3, <1>4 DEF Credential!ResendVerification, Begins
  <2> QED
    BY <2>1, CredentialStartStep
<1>5. CASE Credential!VerifyEmail(s)
  <2>1. Begins(s, [at |-> "save",
                    fields |-> [verified |-> TRUE, link |-> None, code |-> None, attempts |-> 0],
                   used |-> Credential!Stored("link")])
    BY <1>2, <1>3, <1>5 DEF Credential!VerifyEmail, Begins
  <2> QED
    BY <2>1, CredentialStartStep
<1>6. CASE Credential!SendOtp(s)
  <2>1. Begins(s, [at |-> "save", fields |-> [otp |-> generated],
                   used |-> {}])
    BY <1>2, <1>3, <1>6 DEF Credential!SendOtp, Begins
  <2> QED
    BY <2>1, CredentialStartStep
<1>7. CASE Credential!ClearOtp(s)
  <2>1. Begins(s, [at |-> "save", fields |-> [otp |-> None],
                   used |-> {}])
    BY <1>2, <1>3, <1>7 DEF Credential!ClearOtp, Begins
  <2> QED
    BY <2>1, CredentialStartStep
<1>8. CASE Credential!Disable2FA(s)
  <2>1. Begins(s, [at |-> "save", fields |-> [second |-> FALSE, otp |-> None],
                   used |-> {}])
    BY <1>2, <1>3, <1>8 DEF Credential!Disable2FA, Begins
  <2> QED
    BY <2>1, CredentialStartStep
<1>9. CASE Credential!IssueCompletionToken(s)
  <2>1. Begins(s, [at |-> "save", fields |-> [completion |-> generated],
                   used |-> {}])
    BY <1>2, <1>3, <1>9 DEF Credential!IssueCompletionToken, Begins
  <2> QED
    BY <2>1, CredentialStartStep
<1>10. CASE Credential!WrongCode(s)
  <2>1. CASE holder.attempts + 1 >= MaxCodeAttempts
    <3> DEFINE fields == [attempts |-> holder.attempts + 1, code |-> None]
    <3>1. /\ visit[s].at = "idle" /\ UNCHANGED <<holder, gone, stale, generated>>
          /\ visit' = [visit EXCEPT ![s] = [at |-> "save", fields |-> fields, used |-> {}]]
      BY <1>10, <2>1 DEF Credential!WrongCode
    <3>2. Consistent(fields)
      BY <1>3, <2>1
    <3>3. \A k \in Credential!Kinds : k \in DOMAIN fields => fields[k] = None
      OBVIOUS
    <3> HIDE DEF fields
    <3>4. Begins(s, [at |-> "save", fields |-> fields, used |-> {}])
      BY <3>1, <3>2, <3>3 DEF Begins
    <3> QED
      BY <3>4, CredentialStartStep
  <2>2. CASE ~(holder.attempts + 1 >= MaxCodeAttempts)
    <3> DEFINE fields == [attempts |-> holder.attempts + 1]
    <3>1. /\ visit[s].at = "idle" /\ UNCHANGED <<holder, gone, stale, generated>>
          /\ visit' = [visit EXCEPT ![s] = [at |-> "save", fields |-> fields, used |-> {}]]
      BY <1>10, <2>2 DEF Credential!WrongCode
    <3>2. Consistent(fields)
      BY <1>3, <2>2
    <3>3. \A k \in Credential!Kinds : k \in DOMAIN fields => fields[k] = None
      OBVIOUS
    <3> HIDE DEF fields
    <3>4. Begins(s, [at |-> "save", fields |-> fields, used |-> {}])
      BY <3>1, <3>2, <3>3 DEF Begins
    <3> QED
      BY <3>4, CredentialStartStep
  <2> QED
    BY <2>1, <2>2
<1>11. CASE Credential!CheckOtp(s)
  <2>1. CASE holder.second
    <3>1. Begins(s, [at |-> "save", fields |-> [otp |-> None],
                     used |-> Credential!Stored("otp")])
      BY <1>2, <1>3, <1>11, <2>1 DEF Credential!CheckOtp, Begins
    <3> QED
      BY <3>1, CredentialStartStep
  <2>2. CASE ~(holder.second)
    <3>1. Begins(s, [at |-> "save", fields |-> [otp |-> None, second |-> TRUE],
                     used |-> Credential!Stored("otp")])
      BY <1>2, <1>3, <1>11, <2>2 DEF Credential!CheckOtp, Begins
    <3> QED
      BY <3>1, CredentialStartStep
  <2> QED
    BY <2>1, <2>2
<1>12. CASE Credential!CompleteGoogleProfile(s)
  <2>1. CASE Credential!Usable("completion")
    <3>1. Begins(s, [at |-> "save", fields |-> [completion |-> None, complete |-> TRUE],
                     used |-> Credential!Stored("completion")])
      BY <1>2, <1>3, <1>12, <2>1 DEF Credential!CompleteGoogleProfile, Begins
    <3> QED
      BY <3>1, CredentialStartStep
  <2>2. CASE ~(Credential!Usable("completion"))
    <3>1. Begins(s, [at |-> "save", fields |-> [completion |-> None],
                     used |-> {}])
      BY <1>2, <1>3, <1>12, <2>2 DEF Credential!CompleteGoogleProfile, Begins
    <3> QED
      BY <3>1, CredentialStartStep
  <2> QED
    BY <2>1, <2>2
<1> QED
  BY <1>1, <1>4, <1>5, <1>6, <1>7, <1>8, <1>9, <1>10, <1>11, <1>12

\* The link, the code, the second factor and the completion of a profile, whatever
\* requests overlap: what was used or replaced never comes back.
THEOREM CredentialsAreSound == Credential!Spec => []CredentialsSound
<1> USE CustomersAssumption
<1>1. Credential!Init => CredentialInv
  BY CredentialInit
<1>2. CredentialInv /\ [Credential!Next]_Credential!vars => CredentialInv'
  <2> SUFFICES ASSUME CredentialInv, [Credential!Next]_Credential!vars PROVE CredentialInv'
    OBVIOUS
  <2>1. CASE Credential!Expire \/ UNCHANGED Credential!vars
    <3>1. UNCHANGED <<holder, visit, generated, gone, stale>>
      BY <2>1 DEF Credential!Expire, Credential!vars
    <3> QED
      BY <3>1 DEF CredentialInv, CredentialType, SavesMean, NotGone, Consistent, UsedUp, Fresh,
                  Writes, Made
  <2> QED
    BY <2>1, SaveCredentialStep, AcceptCodeStep, VerifiedOtherwiseStep, CredentialRequestStep
       DEF Credential!Next, Credential!EmailNext, Credential!OtpNext, Credential!ProfileNext
<1> QED
  BY <1>1, <1>2, CredentialInvIsSound, PTL DEF Credential!Spec

-----------------------------------------------------------------------------
(* Notifications: pushes and the devices they go to.                       *)

Recipients == Addressees \cup {None}

NoticeType ==
    /\ DOMAIN note = Events /\ \A e \in Events : DOMAIN note[e] = Recipients
    /\ DOMAIN reader = Events /\ \A e \in Events : DOMAIN reader[e] = Recipients
    /\ DOMAIN push = Events /\ \A e \in Events : DOMAIN push[e] = Addressees
    /\ DOMAIN received = Events /\ \A e \in Events : DOMAIN received[e] = Addressees
    /\ DOMAIN held = Events /\ \A e \in Events : DOMAIN held[e] = Addressees
    /\ DOMAIN device = Tokens /\ DOMAIN carrier = Tokens
    /\ \A t \in Tokens : DOMAIN device[t] = {"user", "active"}

\* A device is registered for whoever signed in on it last.
DevicesAreCarried ==
    \A t \in Tokens : device[t].active /\ device[t].user \in Addressees
                        => carrier[t] = device[t].user

\* What a notification and its push have to do with the devices of the recipient.
PushMeans(e, u) ==
    /\ note[e][u] # "none" => Notice!HeldBy(u) \subseteq held[e][u]
    /\ note[e][u] = "none" => /\ push[e][u] = [at |-> "none", tokens |-> {}]
                              /\ received[e][u] = {} /\ reader[e][u] = {}
    /\ push[e][u].tokens \subseteq held[e][u] /\ received[e][u] \subseteq held[e][u]
    /\ reader[e][u] \subseteq {u}
    /\ note[e][u] = "read" => reader[e][u] = {u}

NoticeInv ==
    /\ NoticeType /\ DevicesAreCarried
    /\ \A e \in Events, u \in Addressees : PushMeans(e, u)

LEMMA NoticeInit == Notice!Init => NoticeInv
BY DEF Notice!Init, Notice!Owners, Notice!Everyone, Recipients, NoticeInv, NoticeType,
       DevicesAreCarried, PushMeans

LEMMA InsertNoticeStep ==
    ASSUME None \notin Addressees, NoticeInv, NEW e \in Events, NEW recipients,
           NEW pushed \in BOOLEAN, Notice!Insert(e, recipients, pushed)
    PROVE  NoticeInv'
<1>1. /\ \A u \in Recipients : note[e][u] = "none"
      /\ note' = [note EXCEPT ![e] = [u \in Recipients |->
                                        IF u \in recipients THEN "unread" ELSE "none"]]
      /\ push' = [push EXCEPT ![e] = [u \in Addressees |->
            [at |-> IF pushed /\ u \in recipients THEN "due" ELSE "none", tokens |-> {}]]]
      /\ held' = [held EXCEPT ![e] = [u \in Addressees |->
                                        IF u \in recipients THEN Notice!HeldBy(u) ELSE {}]]
      /\ UNCHANGED <<device, carrier, received, reader>>
  BY DEF Notice!Insert, Notice!Owners, Notice!Everyone, Recipients
<1>2. NoticeType'
  BY <1>1 DEF NoticeInv, NoticeType
<1>3. DevicesAreCarried'
  BY <1>1 DEF NoticeInv, DevicesAreCarried
<1>4. ASSUME NEW f \in Events, NEW u \in Addressees PROVE PushMeans(f, u)'
  <2>1. PushMeans(f, u) /\ Notice!HeldBy(u)' = Notice!HeldBy(u)
    BY <1>1 DEF NoticeInv, Notice!HeldBy
  <2>2. CASE f # e
    <3>1. note'[f] = note[f] /\ push'[f] = push[f] /\ held'[f] = held[f]
      BY <1>1, <2>2 DEF NoticeInv, NoticeType
    <3> QED
      BY <1>1, <2>1, <3>1 DEF PushMeans
  <2>3. CASE f = e
    <3>1. /\ note'[e][u] = IF u \in recipients THEN "unread" ELSE "none"
          /\ push'[e][u] = [at |-> IF pushed /\ u \in recipients THEN "due" ELSE "none",
                            tokens |-> {}]
          /\ held'[e][u] = IF u \in recipients THEN Notice!HeldBy(u) ELSE {}
      BY <1>1 DEF NoticeInv, NoticeType, Recipients
    <3>2. note[e][u] = "none"
      BY <1>1 DEF Recipients
    <3>3. /\ received'[e][u] = {} /\ reader'[e][u] = {}
          /\ push'[e][u].tokens = {} /\ note'[e][u] # "read"
      BY <1>1, <2>1, <2>3, <3>1, <3>2 DEF PushMeans
    <3>4. CASE u \in recipients
      BY <2>1, <2>3, <3>1, <3>3, <3>4 DEF PushMeans
    <3>5. CASE u \notin recipients
      <4>1. note'[e][u] = "none" /\ push'[e][u] = [at |-> "none", tokens |-> {}]
        BY <3>1, <3>5
      <4> QED
        BY <2>3, <3>3, <4>1 DEF PushMeans
    <3> QED
      BY <3>4, <3>5
  <2> QED
    BY <2>2, <2>3
<1> QED
  BY <1>2, <1>3, <1>4 DEF NoticeInv

LEMMA MarkAsReadStep ==
    ASSUME None \notin Addressees, NoticeInv, NEW e \in Events, NEW u \in Addressees,
           NEW owner \in Recipients, Notice!MarkAsRead(e, u, owner)
    PROVE  NoticeInv'
<1>1. /\ owner = None \/ owner = u
      /\ note[e][owner] = "unread"
      /\ note' = [note EXCEPT ![e][owner] = "read"]
      /\ reader' = [reader EXCEPT ![e][owner] = @ \cup {u}]
      /\ UNCHANGED <<device, push, carrier, held, received>>
  BY DEF Notice!MarkAsRead, Notice!Readable, Notice!Everyone
<1>2. NoticeType'
  BY <1>1 DEF NoticeInv, NoticeType
<1>3. ASSUME NEW f \in Events, NEW v \in Addressees PROVE PushMeans(f, v)'
  <2>1. PushMeans(f, v) /\ Notice!HeldBy(v)' = Notice!HeldBy(v)
    BY <1>1 DEF NoticeInv, Notice!HeldBy
  <2>2. CASE f = e /\ v = owner
    <3>1. note'[f][v] = "read" /\ reader'[f][v] = reader[f][v] \cup {u} /\ u = v
      BY <1>1, <2>2 DEF NoticeInv, NoticeType
    <3> QED
      BY <1>1, <2>1, <2>2, <3>1 DEF PushMeans
  <2>3. CASE ~(f = e /\ v = owner)
    <3>1. note'[f][v] = note[f][v] /\ reader'[f][v] = reader[f][v]
      BY <1>1, <2>3 DEF NoticeInv, NoticeType
    <3> QED
      BY <1>1, <2>1, <3>1 DEF PushMeans
  <2> QED
    BY <2>2, <2>3
<1> QED
  BY <1>1, <1>2, <1>3 DEF NoticeInv, DevicesAreCarried

LEMMA MarkAllAsReadStep ==
    ASSUME None \notin Addressees, NoticeInv, NEW u \in Addressees, Notice!MarkAllAsRead(u)
    PROVE  NoticeInv'
<1>1. /\ note' = [e \in Events |-> [o \in Recipients |->
                    IF <<e, o>> \in Notice!UnreadOf(u) THEN "read" ELSE note[e][o]]]
      /\ reader' = [e \in Events |-> [o \in Recipients |->
                      IF <<e, o>> \in Notice!UnreadOf(u) THEN reader[e][o] \cup {u}
                      ELSE reader[e][o]]]
      /\ UNCHANGED <<device, push, carrier, held, received>>
  BY DEF Notice!MarkAllAsRead, Notice!Owners, Notice!Everyone, Recipients
<1>2. NoticeType'
  BY <1>1 DEF NoticeInv, NoticeType
<1>3. ASSUME NEW f \in Events, NEW v \in Addressees PROVE PushMeans(f, v)'
  <2>1. PushMeans(f, v) /\ Notice!HeldBy(v)' = Notice!HeldBy(v)
    BY <1>1 DEF NoticeInv, Notice!HeldBy
  <2>2. CASE <<f, v>> \in Notice!UnreadOf(u)
    <3>1. note[f][v] = "unread" /\ v = u
      BY <2>2 DEF Notice!UnreadOf, Notice!Readable, Notice!Everyone
    <3>2. note'[f][v] = "read" /\ reader'[f][v] = reader[f][v] \cup {u}
      BY <1>1, <2>2 DEF Recipients
    <3> QED
      BY <1>1, <2>1, <3>1, <3>2 DEF PushMeans
  <2>3. CASE <<f, v>> \notin Notice!UnreadOf(u)
    <3>1. note'[f][v] = note[f][v] /\ reader'[f][v] = reader[f][v]
      BY <1>1, <2>3 DEF Recipients
    <3> QED
      BY <1>1, <2>1, <3>1 DEF PushMeans
  <2> QED
    BY <2>2, <2>3
<1> QED
  BY <1>1, <1>2, <1>3 DEF NoticeInv, DevicesAreCarried

LEMMA DeviceStep ==
    ASSUME None \notin Addressees, NoticeInv, NEW u \in Addressees, NEW t \in Tokens,
           Notice!RegisterDeviceToken(u, t) \/ Notice!UnregisterDeviceToken(u, t)
    PROVE  NoticeInv'
<1>1. PICK entry, signedIn :
         /\ DOMAIN entry = {"user", "active"}
         /\ entry.active /\ entry.user \in Addressees => signedIn = entry.user
         /\ Notice!Changed(t, entry, signedIn)
  <2>1. CASE Notice!RegisterDeviceToken(u, t)
    <3>1. PICK entry : entry = [user |-> u, active |-> TRUE]
      OBVIOUS
    <3> QED
      BY <2>1, <3>1 DEF Notice!RegisterDeviceToken, Notice!Registered
  <2>2. CASE Notice!UnregisterDeviceToken(u, t)
    <3>1. PICK entry : entry = [device[t] EXCEPT !.active = FALSE]
      OBVIOUS
    <3>2. DOMAIN entry = {"user", "active"} /\ ~entry.active
      BY <3>1 DEF NoticeInv, NoticeType
    <3> QED
      BY <2>2, <3>1, <3>2 DEF Notice!UnregisterDeviceToken
  <2> QED
    BY <2>1, <2>2
<1>2. /\ device' = [device EXCEPT ![t] = entry] /\ carrier' = [carrier EXCEPT ![t] = signedIn]
      /\ held' = [e \in Events |-> [v \in Addressees |->
            IF signedIn = v /\ note[e][v] # "none" THEN held[e][v] \cup {t} ELSE held[e][v]]]
      /\ UNCHANGED <<note, push, received, reader>>
  BY <1>1 DEF Notice!Changed
<1>3. NoticeType' /\ DevicesAreCarried'
  BY <1>1, <1>2 DEF NoticeInv, NoticeType, DevicesAreCarried
<1>4. ASSUME NEW f \in Events, NEW v \in Addressees PROVE PushMeans(f, v)'
  <2>1. PushMeans(f, v)
    BY DEF NoticeInv
  <2>2. /\ held'[f][v] = IF signedIn = v /\ note[f][v] # "none" THEN held[f][v] \cup {t}
                         ELSE held[f][v]
        /\ held[f][v] \subseteq held'[f][v]
    BY <1>2
  <2>3. Notice!HeldBy(v)' \subseteq IF signedIn = v THEN Notice!HeldBy(v) \cup {t}
                                    ELSE Notice!HeldBy(v)
    BY <1>2 DEF Notice!HeldBy, NoticeInv, NoticeType
  <2> QED
    BY <1>2, <2>1, <2>2, <2>3 DEF PushMeans
<1> QED
  BY <1>3, <1>4 DEF NoticeInv

LEMMA PushStep ==
    ASSUME NoticeInv, NEW e \in Events, NEW u \in Addressees,
           Notice!GetActiveTokens(e, u) \/ Notice!SendPush(e, u)
    PROVE  NoticeInv'
<1>1. PushMeans(e, u) /\ note[e][u] # "none"
  BY DEF NoticeInv, PushMeans, Notice!GetActiveTokens, Notice!SendPush
<1>2. UNCHANGED <<note, carrier, held, reader>>
  BY DEF Notice!GetActiveTokens, Notice!SendPush
<1>3. ASSUME NEW v \in Addressees PROVE Notice!HeldBy(v)' = Notice!HeldBy(v)
  BY <1>2 DEF Notice!HeldBy
<1>4. CASE Notice!GetActiveTokens(e, u)
  <2>1. PICK next : next = [at |-> "sending", tokens |-> Notice!DevicesOf(u)]
    OBVIOUS
  <2>2. push' = [push EXCEPT ![e][u] = next] /\ UNCHANGED <<received, device>>
    BY <1>4, <2>1 DEF Notice!GetActiveTokens
  <2>3. Notice!DevicesOf(u) \subseteq Notice!HeldBy(u)
    BY DEF Notice!DevicesOf, Notice!HeldBy, NoticeInv, DevicesAreCarried
  <2>4. next.tokens \subseteq held[e][u]
    BY <1>1, <2>1, <2>3 DEF PushMeans
  <2>5. ASSUME NEW f \in Events, NEW v \in Addressees
        PROVE  push'[f][v] = IF f = e /\ v = u THEN next ELSE push[f][v]
    BY <2>2 DEF NoticeInv, NoticeType
  <2>6. ASSUME NEW f \in Events, NEW v \in Addressees PROVE PushMeans(f, v)'
    BY <1>1, <1>2, <1>3, <2>2, <2>4, <2>5 DEF NoticeInv, PushMeans
  <2> QED
    BY <1>2, <2>2, <2>6 DEF NoticeInv, NoticeType, DevicesAreCarried
<1>5. CASE Notice!SendPush(e, u)
  <2>1. PICK delivered, invalid \in SUBSET push[e][u].tokens :
           /\ received' = [received EXCEPT ![e][u] = delivered]
           /\ push' = [push EXCEPT ![e][u] = [at |-> "done", tokens |-> {}]]
           /\ device' = [t \in Tokens |-> IF t \in invalid THEN [device[t] EXCEPT !.active = FALSE]
                                          ELSE device[t]]
    BY <1>5 DEF Notice!SendPush
  <2>2. PICK next : next = [at |-> "done", tokens |-> {}]
    OBVIOUS
  <2>3. ASSUME NEW f \in Events, NEW v \in Addressees
        PROVE  /\ push'[f][v] = IF f = e /\ v = u THEN next ELSE push[f][v]
               /\ received'[f][v] = IF f = e /\ v = u THEN delivered ELSE received[f][v]
    BY <2>1, <2>2 DEF NoticeInv, NoticeType
  <2>4. next.tokens = {} /\ delivered \subseteq held[e][u]
    BY <1>1, <2>1, <2>2 DEF PushMeans
  <2>5. ASSUME NEW f \in Events, NEW v \in Addressees PROVE PushMeans(f, v)'
    BY <1>1, <1>2, <1>3, <2>3, <2>4 DEF NoticeInv, PushMeans
  <2>6. NoticeType' /\ DevicesAreCarried'
    BY <1>2, <2>1 DEF NoticeInv, NoticeType, DevicesAreCarried
  <2> QED
    BY <2>5, <2>6 DEF NoticeInv
<1> QED
  BY <1>4, <1>5

\* Whatever is notified of, read, registered and pushed in whatever order: a push
\* reaches only devices its recipient has held since the notification was written,
\* and what one user's notification says of being read, that user did
\* (notify, registerDeviceToken, sendPushToUser, markAllAsRead).
THEOREM PushesReachTheirRecipient == Notice!Spec => []Notice!PushSound
<1> USE CustomersAssumption
<1>1. Notice!Init => NoticeInv
  BY NoticeInit
<1>2. NoticeInv /\ [Notice!Next]_Notice!noteVars => NoticeInv'
  <2>1. ASSUME NoticeInv,
               UNCHANGED Notice!noteVars \/ \E u \in Addressees : Notice!DeleteUser(u)
        PROVE  NoticeInv'
    <3>1. UNCHANGED <<note, device, push, carrier, held, received, reader>>
      BY <2>1 DEF Notice!noteVars, Notice!DeleteUser
    <3> QED
      BY <2>1, <3>1 DEF NoticeInv, NoticeType, DevicesAreCarried, PushMeans, Notice!HeldBy
  <2>2. ASSUME NoticeInv, NEW e \in Events,
               \/ Notice!NotifyAdminsAndSupervisors(e) \/ Notice!AdminSend(e)
               \/ \E u \in Addressees : \E pushed \in BOOLEAN : Notice!NotifyUser(e, u, pushed)
        PROVE  NoticeInv'
    BY <2>2, InsertNoticeStep
       DEF Notice!NotifyAdminsAndSupervisors, Notice!AdminSend, Notice!NotifyUser
  <2> QED
    BY <2>1, <2>2, MarkAsReadStep, MarkAllAsReadStep, DeviceStep, PushStep
       DEF Notice!Next, Notice!Owners, Notice!Everyone, Recipients
<1>3. NoticeInv => Notice!PushSound
  BY DEF NoticeInv, PushMeans, Notice!PushSound
<1> QED
  BY <1>1, <1>2, <1>3, PTL DEF Notice!Spec

-----------------------------------------------------------------------------
(* WhatsApp: the administrators' client.                                   *)

Lifecycles == [operation : Nat, initializing : BOOLEAN, manual : BOOLEAN, timer : BOOLEAN]
IsOperation(r) == DOMAIN r = {"at", "kind", "id", "browser"}
AtWork(r) == r.at \in {"replacing", "starting"}

\* The call is the latest operation, or a reset that has still to begin one.
KeepsUp(r, latest) ==
    (AtWork(r) /\ r.id = latest) \/ (r.kind = "reset" /\ r.at \in {"closing", "deleting"})

OperationInv ==
    /\ lifecycle \in Lifecycles
    /\ DOMAIN operation = Calls /\ \A c \in Calls : IsOperation(operation[c])
    /\ \A c \in Calls : AtWork(operation[c]) =>
          operation[c].id \in Nat /\ operation[c].id <= lifecycle.operation
    /\ \A c, d \in Calls : AtWork(operation[c]) /\ AtWork(operation[d]) /\ c # d
                              => operation[c].id # operation[d].id
    /\ \A c \in Calls : Chat!Latest(c) => lifecycle.initializing
    /\ lifecycle.initializing =>
          undeleted \/ \E c \in Calls : KeepsUp(operation[c], lifecycle.operation)

\* An operation begins: it is the latest one.
LEMMA OpensStep ==
    ASSUME OperationInv, NEW c \in Calls, NEW next, IsOperation(next), AtWork(next),
           operation' = [operation EXCEPT ![c] = next],
           lifecycle' \in Lifecycles, lifecycle.operation < lifecycle'.operation,
           next.id = lifecycle'.operation, lifecycle'.initializing
    PROVE  OperationInv'
<1>1. /\ DOMAIN operation' = Calls /\ operation'[c] = next
      /\ \A d \in Calls : d # c => operation'[d] = operation[d]
  BY DEF OperationInv
<1>2. lifecycle.operation \in Nat /\ lifecycle'.operation \in Nat
  BY DEF OperationInv, Lifecycles
<1>3. KeepsUp(operation'[c], lifecycle'.operation)
  BY <1>1 DEF KeepsUp
<1> QED
  BY <1>1, <1>2, <1>3 DEF OperationInv, AtWork

\* A call goes on without beginning an operation, and keeps up what it kept up.
LEMMA GoesOnStep ==
    ASSUME OperationInv, NEW c \in Calls, NEW next, IsOperation(next),
           operation' = [operation EXCEPT ![c] = next],
           lifecycle' \in Lifecycles, lifecycle'.operation = lifecycle.operation,
           lifecycle'.initializing = lifecycle.initializing,
           AtWork(next) => AtWork(operation[c]) /\ next.id = operation[c].id,
           undeleted => undeleted',
           KeepsUp(operation[c], lifecycle.operation)
             => KeepsUp(next, lifecycle.operation) \/ undeleted'
    PROVE  OperationInv'
<1>1. /\ DOMAIN operation' = Calls /\ operation'[c] = next
      /\ \A d \in Calls : d # c => operation'[d] = operation[d]
  BY DEF OperationInv
<1>2. \A d \in Calls : Chat!Latest(d)' => Chat!Latest(d)
  BY <1>1 DEF Chat!Latest, AtWork
<1>3. \A d \in Calls : KeepsUp(operation[d], lifecycle.operation)
                         => KeepsUp(operation'[d], lifecycle'.operation) \/ undeleted'
  BY <1>1
<1> QED
  BY <1>1, <1>2, <1>3 DEF OperationInv, AtWork

\* A reset invalidates the operations under way before it begins its own.
LEMMA ResetStep ==
    ASSUME OperationInv, NEW c \in Calls, NEW next, IsOperation(next),
           operation' = [operation EXCEPT ![c] = next],
           lifecycle' \in Lifecycles, lifecycle'.operation = lifecycle.operation + 1,
           lifecycle'.initializing = lifecycle.initializing,
           next.kind = "reset", next.at \in {"closing", "deleting"}
    PROVE  OperationInv'
<1>1. /\ DOMAIN operation' = Calls /\ operation'[c] = next
      /\ \A d \in Calls : d # c => operation'[d] = operation[d]
  BY DEF OperationInv
<1>2. lifecycle.operation \in Nat
  BY DEF OperationInv, Lifecycles
<1>3. \A d \in Calls : AtWork(operation'[d]) =>
         d # c /\ operation'[d].id \in Nat /\ operation'[d].id <= lifecycle.operation
  BY <1>1 DEF OperationInv, AtWork
<1>4. \A d \in Calls : ~Chat!Latest(d)'
  BY <1>2, <1>3 DEF Chat!Latest, AtWork
<1>5. KeepsUp(operation'[c], lifecycle'.operation)
  BY <1>1 DEF KeepsUp
<1>6. \A d \in Calls : AtWork(operation'[d]) =>
         operation'[d].id \in Nat /\ operation'[d].id <= lifecycle'.operation
  BY <1>2, <1>3
<1> QED
  BY <1>1, <1>3, <1>4, <1>5, <1>6 DEF OperationInv, AtWork

\* What initializeWhatsAppClient does up to its first await, if it does anything.
Opened(c, kind, former, found, browsers) ==
    \E next :
        /\ IsOperation(next) /\ next.id = found.operation + 1
        /\ operation' = [operation EXCEPT ![c] = next]
        /\ lifecycle' \in Lifecycles /\ lifecycle'.operation = found.operation + 1
        /\ lifecycle'.initializing /\ phase' = "INITIALIZING"
        /\ \/ /\ next.at = "replacing" /\ former # None
              /\ client' = None /\ next.browser = former
              /\ browser' = [browser EXCEPT ![former] = "closing"]
           \/ /\ next.at = "starting" /\ former = None
              /\ client' = next.browser
              /\ browser' = [browsers EXCEPT ![next.browser] = "starting"]

LEMMA InitializeOpens ==
    ASSUME NEW c, NEW kind, NEW force \in BOOLEAN, NEW former, NEW found \in Lifecycles,
           NEW browsers, Chat!Initialize(c, kind, force, former, found, browsers)
    PROVE  \/ Opened(c, kind, former, found, browsers)
           \/ /\ ~force /\ operation' = [operation EXCEPT ![c] = Chat!Idle]
              /\ lifecycle' = found /\ UNCHANGED <<client, browser, phase>>
<1>1. PICK opened : opened = [found EXCEPT !.operation = @ + 1, !.initializing = TRUE]
  OBVIOUS
<1>2. opened \in Lifecycles /\ opened.operation = found.operation + 1 /\ opened.initializing
  <2>1. opened = [operation |-> found.operation + 1, initializing |-> TRUE,
                  manual |-> found.manual, timer |-> found.timer]
    BY <1>1 DEF Lifecycles
  <2>2. found.operation \in Nat /\ found.manual \in BOOLEAN /\ found.timer \in BOOLEAN
    BY DEF Lifecycles
  <2> QED
    BY <2>1, <2>2 DEF Lifecycles
<1>3. ASSUME former # None, Chat!Close(c, "replacing", kind, opened.operation, former, opened),
             phase' = "INITIALIZING"
      PROVE  Opened(c, kind, former, found, browsers)
  <2>1. PICK next : next = [at |-> "replacing", kind |-> kind, id |-> opened.operation,
                            browser |-> former]
    OBVIOUS
  <2>2. /\ client' = None /\ browser' = [browser EXCEPT ![former] = "closing"]
        /\ lifecycle' = [opened EXCEPT !.manual = TRUE, !.timer = FALSE]
        /\ operation' = [operation EXCEPT ![c] = next]
    BY <1>3, <2>1 DEF Chat!Close
  <2>3. lifecycle' \in Lifecycles /\ lifecycle'.operation = found.operation + 1
        /\ lifecycle'.initializing
    BY <1>2, <2>2 DEF Lifecycles
  <2>4. IsOperation(next) /\ next.id = found.operation + 1 /\ next.at = "replacing"
        /\ next.browser = former
    BY <1>2, <2>1 DEF IsOperation
  <2> QED
    BY <1>3, <2>2, <2>3, <2>4 DEF Opened
<1>4. ASSUME former = None, Chat!Build(c, kind, opened.operation, opened, browsers)
      PROVE  Opened(c, kind, former, found, browsers)
  <2>1. PICK b : /\ client' = b /\ browser' = [browsers EXCEPT ![b] = "starting"]
                 /\ phase' = "INITIALIZING" /\ lifecycle' = [opened EXCEPT !.manual = FALSE]
                 /\ operation' = [operation EXCEPT ![c] =
                       [at |-> "starting", kind |-> kind, id |-> opened.operation, browser |-> b]]
    BY <1>4 DEF Chat!Build
  <2>2. PICK next : next = [at |-> "starting", kind |-> kind, id |-> opened.operation,
                            browser |-> b]
    OBVIOUS
  <2>3. lifecycle' \in Lifecycles /\ lifecycle'.operation = found.operation + 1
        /\ lifecycle'.initializing
    BY <1>2, <2>1 DEF Lifecycles
  <2>4. IsOperation(next) /\ next.id = found.operation + 1 /\ next.at = "starting"
        /\ next.browser = b
    BY <1>2, <2>2 DEF IsOperation
  <2> QED
    BY <1>4, <2>1, <2>2, <2>3, <2>4 DEF Opened
<1> QED
  BY <1>1, <1>3, <1>4 DEF Chat!Initialize, Chat!Return

LEMMA OpenedStep ==
    ASSUME OperationInv, NEW c \in Calls, NEW kind, NEW former, NEW found \in Lifecycles,
           NEW browsers, lifecycle.operation <= found.operation,
           Opened(c, kind, former, found, browsers)
    PROVE  OperationInv'
<1>1. PICK next :
        /\ IsOperation(next) /\ next.id = found.operation + 1
        /\ operation' = [operation EXCEPT ![c] = next]
        /\ lifecycle' \in Lifecycles /\ lifecycle'.operation = found.operation + 1
        /\ lifecycle'.initializing
        /\ AtWork(next)
  BY DEF Opened, AtWork
<1>2. lifecycle.operation < lifecycle'.operation /\ next.id = lifecycle'.operation
  BY <1>1 DEF OperationInv, Lifecycles
<1> QED
  BY <1>1, <1>2, OpensStep

Quiet(browsers) == \A b \in Chat!Browsers : browsers[b] \notin {"starting", "live", "closing"}
Live == {b \in Chat!Browsers : browser[b] = "live"}
Closing == {b \in Chat!Browsers : browser[b] = "closing"}

\* While operations have not overlapped: one at a time, which knows the browser it
\* closes, and no browser runs but the one the module refers to.
BrowserInv ==
    /\ DOMAIN browser = Chat!Browsers
    /\ ~overlapped =>
        /\ \A c, d \in Calls : operation[c].at # "idle" /\ operation[d].at # "idle" => c = d
        /\ \A c \in Calls : operation[c].at \in {"closing", "replacing"} =>
              client = None /\ Closing \subseteq {operation[c].browser}
        /\ (\A c \in Calls : operation[c].at \notin {"closing", "replacing"}) => Closing = {}
        /\ Chat!Running \subseteq {client}
        /\ \A c \in Calls : operation[c].at = "starting" =>
              client \in {None, operation[c].browser} /\ operation[c].browser \notin Live
        /\ phase = "CONNECTED" /\ client # None => client \in ready

\* The only call under way has built a client, closes one, or waits for nothing of one.
LEMMA BuiltStep ==
    ASSUME NEW c \in Calls, NEW next, \A d \in Calls : d # c => operation[d].at = "idle",
           DOMAIN operation = Calls, operation' = [operation EXCEPT ![c] = next],
           next.at = "starting", NEW browsers, DOMAIN browsers = Chat!Browsers, Quiet(browsers),
           client' = next.browser, browser' = [browsers EXCEPT ![next.browser] = "starting"],
           phase' = "INITIALIZING"
    PROVE  BrowserInv'
<1>1. \A d \in Calls : d # c => operation'[d].at = "idle"
  OBVIOUS
<1>2. DOMAIN browser' = Chat!Browsers' /\ Closing' = {} /\ Chat!Running' \subseteq {client'}
      /\ Live' = {}
  BY DEF Quiet, Closing, Live, Chat!Running, Chat!Browsers
<1> QED
  BY <1>1, <1>2 DEF BrowserInv

LEMMA ClosedStep ==
    ASSUME None \notin Int, NEW c \in Calls, NEW next,
           \A d \in Calls : d # c => operation[d].at = "idle",
           DOMAIN operation = Calls, operation' = [operation EXCEPT ![c] = next],
           next.at \in {"closing", "replacing"}, next.browser = client,
           DOMAIN browser = Chat!Browsers, Closing = {}, Chat!Running \subseteq {client},
           client' = None, browser' = [browser EXCEPT ![client] = "closing"]
    PROVE  BrowserInv'
<1>1. \A d \in Calls : d # c => operation'[d].at = "idle"
  OBVIOUS
<1>2. DOMAIN browser' = Chat!Browsers' /\ Closing' \subseteq {client}
      /\ Chat!Running' \subseteq {client'}
  BY DEF Closing, Chat!Running, Chat!Browsers
<1> QED
  BY <1>1, <1>2 DEF BrowserInv

LEMMA QuietStep ==
    ASSUME NEW c \in Calls, NEW next, \A d \in Calls : d # c => operation[d].at = "idle",
           DOMAIN operation = Calls, operation' = [operation EXCEPT ![c] = next],
           next.at \in {"idle", "deleting"},
           DOMAIN browser' = Chat!Browsers, Quiet(browser'), client' = None
    PROVE  BrowserInv'
<1>1. \A d \in Calls : d # c => operation'[d].at = "idle"
  OBVIOUS
<1>2. Chat!Browsers' = Chat!Browsers /\ Closing' = {} /\ Chat!Running' \subseteq {client'}
  BY DEF Quiet, Closing, Chat!Running, Chat!Browsers
<1> QED
  BY <1>1, <1>2 DEF BrowserInv

\* Once operations have overlapped nothing is said of the browsers.
LEMMA OverlappedStep ==
    ASSUME BrowserInv, overlapped', DOMAIN browser' = Chat!Browsers
    PROVE  BrowserInv'
BY DEF BrowserInv, Chat!Browsers

LEMMA OpenedBrowserStep ==
    ASSUME None \notin Int, NEW c \in Calls, NEW kind, NEW found, NEW former, NEW browsers,
           \A d \in Calls : d # c => operation[d].at = "idle", DOMAIN operation = Calls,
           Opened(c, kind, former, found, browsers),
           DOMAIN browser = Chat!Browsers, DOMAIN browsers = Chat!Browsers,
           former = None => Quiet(browsers),
           former # None => former = client /\ Closing = {} /\ Chat!Running \subseteq {client}
    PROVE  BrowserInv'
<1>1. PICK next :
        /\ operation' = [operation EXCEPT ![c] = next] /\ phase' = "INITIALIZING"
        /\ \/ /\ next.at = "replacing" /\ former # None
              /\ client' = None /\ next.browser = former
              /\ browser' = [browser EXCEPT ![former] = "closing"]
           \/ /\ next.at = "starting" /\ former = None
              /\ client' = next.browser
              /\ browser' = [browsers EXCEPT ![next.browser] = "starting"]
  BY DEF Opened
<1> QED
  BY <1>1, BuiltStep, ClosedStep

\* A call returns without having touched a browser.
LEMMA SettledStep ==
    ASSUME BrowserInv, NEW c \in Calls, NEW next, DOMAIN operation = Calls,
           operation' = [operation EXCEPT ![c] = next], next.at = "idle",
           operation[c].at \notin {"closing", "replacing"},
           UNCHANGED <<client, browser, phase, ready>>, overlapped => overlapped'
    PROVE  BrowserInv'
<1>1. /\ operation'[c] = next
      /\ \A d \in Calls : d # c => operation'[d] = operation[d]
  OBVIOUS
<1>2. /\ Closing' = Closing /\ Live' = Live
      /\ Chat!Running' = Chat!Running /\ Chat!Browsers' = Chat!Browsers
  BY DEF Closing, Live, Chat!Running, Chat!Browsers
<1>3. (\A d \in Calls : operation'[d].at \notin {"closing", "replacing"})
        => \A d \in Calls : operation[d].at \notin {"closing", "replacing"}
  BY <1>1
<1> QED
  BY <1>1, <1>2, <1>3 DEF BrowserInv

\* What is known before a step, of operations that have not overlapped.
LEMMA OneAtATimeMeans ==
    ASSUME None \notin Int, BrowserInv, ~overlapped, NEW c \in Calls,
           operation[c].at # "idle" \/ \A d \in Calls : operation[d].at = "idle"
    PROVE  /\ \A d \in Calls : d # c => operation[d].at = "idle"
           /\ operation[c].at \in {"closing", "replacing"} =>
                 client = None /\ Chat!Running = {} /\ Closing \subseteq {operation[c].browser}
           /\ operation[c].at \notin {"closing", "replacing"} => Closing = {}
           /\ Chat!Running \subseteq {client}
           /\ client = None /\ Closing = {} => Quiet(browser)
<1>1. \A d \in Calls : d # c => operation[d].at = "idle"
  BY DEF BrowserInv
<1>2. Chat!Running \subseteq {client} /\ (client = None => Chat!Running = {})
  BY DEF BrowserInv, Chat!Running, Chat!Browsers
<1>3. Chat!Running = {} /\ Closing = {} => Quiet(browser)
  BY DEF Quiet, Closing, Chat!Running
<1> QED
  BY <1>1, <1>2, <1>3 DEF BrowserInv

ClientInv == OperationInv /\ BrowserInv

LEMMA ClientInit == None \notin Int /\ Chat!Init => ClientInv
<1> SUFFICES ASSUME Chat!Init PROVE ClientInv
  OBVIOUS
<1>1. /\ \A c \in Calls : operation[c].at = "idle" /\ IsOperation(operation[c])
      /\ DOMAIN operation = Calls
  BY DEF Chat!Init, Chat!Idle, IsOperation
<1>2. OperationInv
  BY <1>1 DEF Chat!Init, OperationInv, AtWork, Lifecycles, Chat!Latest
<1>3. Closing = {} /\ Chat!Running = {} /\ DOMAIN browser = Chat!Browsers
  BY DEF Chat!Init, Closing, Chat!Running
<1> QED
  BY <1>1, <1>2, <1>3 DEF Chat!Init, ClientInv, BrowserInv

\* What follows destroyWhatsAppClient, in either half of the invariant.
LEMMA AfterDestroyStep ==
    ASSUME None \notin Int, ClientInv, NEW c \in Calls, NEW kind, NEW found \in Lifecycles,
           NEW browsers,
           Chat!AfterDestroy(c, kind, client, found, browsers),
           lifecycle.operation <= found.operation
    PROVE  \/ Opened(c, kind, client, found, browsers)
           \/ \E next : /\ IsOperation(next) /\ operation' = [operation EXCEPT ![c] = next]
                        /\ \/ kind = "reset" /\ next.kind = "reset" /\ next.at = "deleting"
                           \/ kind = "shutdown" /\ next.at = "idle"
                        /\ client' = client /\ browser' = browsers /\ lifecycle' = found
                        /\ phase' = "DISCONNECTED"
<1>1. CASE kind = "reconnect" /\ Chat!Initialize(c, kind, TRUE, client, found, browsers)
  BY <1>1, InitializeOpens
<1>2. CASE kind \in {"reset", "shutdown"}
  <2>1. PICK next : next = IF kind = "reset" THEN [Chat!Idle EXCEPT !.at = "deleting", !.kind = kind]
                           ELSE Chat!Idle
    OBVIOUS
  <2>2. /\ operation' = [operation EXCEPT ![c] = next]
        /\ client' = client /\ browser' = browsers /\ lifecycle' = found
        /\ phase' = "DISCONNECTED"
    BY <1>2, <2>1 DEF Chat!AfterDestroy
  <2>3. IsOperation(next) /\ (kind = "reset" => next.kind = "reset" /\ next.at = "deleting")
        /\ (kind = "shutdown" => next.at = "idle")
    BY <2>1 DEF Chat!Idle, IsOperation
  <2> QED
    BY <1>2, <2>2, <2>3
<1> QED
  BY <1>1, <1>2 DEF Chat!AfterDestroy

LEMMA ClientRequestStep ==
    ASSUME None \notin Int, ClientInv, NEW c \in Calls, NEW kind, Chat!Request(c, kind)
    PROVE  ClientInv'
<1>1. PICK found : found = IF kind = "reset" THEN [lifecycle EXCEPT !.operation = @ + 1]
                           ELSE lifecycle
  OBVIOUS
<1>2. /\ operation[c].at = "idle" /\ UNCHANGED ready
      /\ overlapped' = (overlapped \/ \E d \in Calls : operation[d].at # "idle")
      /\ undeleted' = (undeleted /\ lifecycle'.operation = lifecycle.operation)
      /\ \/ client # None /\ Chat!Close(c, "closing", kind, 0, client, found) /\ UNCHANGED phase
         \/ client = None /\ Chat!AfterDestroy(c, kind, None,
                                 [found EXCEPT !.timer = FALSE, !.manual = FALSE], browser)
  BY <1>1 DEF Chat!Request, Chat!Begin, Chat!Continued
<1>3. /\ found \in Lifecycles /\ found.initializing = lifecycle.initializing
      /\ found.operation = IF kind = "reset" THEN lifecycle.operation + 1 ELSE lifecycle.operation
      /\ lifecycle.operation \in Nat
  BY <1>1 DEF ClientInv, OperationInv, Lifecycles
<1>4. ~AtWork(operation[c]) /\ ~KeepsUp(operation[c], lifecycle.operation)
      /\ DOMAIN operation = Calls /\ DOMAIN browser = Chat!Browsers
  BY <1>2 DEF AtWork, KeepsUp, ClientInv, OperationInv, BrowserInv
<1>5. ~overlapped' => /\ ~overlapped /\ \A d \in Calls : operation[d].at = "idle"
                      /\ Closing = {} /\ Chat!Running \subseteq {client}
                      /\ client = None => Quiet(browser)
  BY <1>2, OneAtATimeMeans DEF ClientInv
<1>6. CASE client # None /\ Chat!Close(c, "closing", kind, 0, client, found) /\ UNCHANGED phase
  <2>1. PICK next : next = [at |-> "closing", kind |-> kind, id |-> 0, browser |-> client]
    OBVIOUS
  <2>2. /\ client' = None /\ browser' = [browser EXCEPT ![client] = "closing"]
        /\ lifecycle' = [found EXCEPT !.manual = TRUE, !.timer = FALSE]
        /\ operation' = [operation EXCEPT ![c] = next]
    BY <1>6, <2>1 DEF Chat!Close
  <2>3. /\ lifecycle' \in Lifecycles /\ lifecycle'.operation = found.operation
        /\ lifecycle'.initializing = lifecycle.initializing
    BY <1>3, <2>2 DEF Lifecycles
  <2>4. /\ IsOperation(next) /\ next.at = "closing" /\ next.kind = kind /\ next.browser = client
        /\ ~AtWork(next)
    BY <2>1 DEF IsOperation, AtWork
  <2>5. OperationInv'
    <3>1. CASE kind = "reset"
      BY <1>3, <2>2, <2>3, <2>4, <3>1, ResetStep DEF ClientInv
    <3>2. CASE kind # "reset"
      BY <1>2, <1>3, <1>4, <2>2, <2>3, <2>4, <3>2, GoesOnStep DEF ClientInv
    <3> QED
      BY <3>1, <3>2
  <2>6. BrowserInv'
    <3>1. CASE overlapped'
      BY <1>4, <2>2, <3>1, OverlappedStep DEF ClientInv
    <3>2. CASE ~overlapped'
      BY <1>4, <1>5, <2>2, <2>4, <3>2, ClosedStep
    <3> QED
      BY <3>1, <3>2
  <2> QED
    BY <2>5, <2>6 DEF ClientInv
<1>7. CASE client = None /\ Chat!AfterDestroy(c, kind, None,
                                [found EXCEPT !.timer = FALSE, !.manual = FALSE], browser)
  <2>1. PICK opened : opened = [found EXCEPT !.timer = FALSE, !.manual = FALSE]
    OBVIOUS
  <2>2. /\ opened \in Lifecycles /\ opened.operation = found.operation
        /\ opened.initializing = lifecycle.initializing /\ lifecycle.operation <= opened.operation
    <3>1. opened = [operation |-> found.operation, initializing |-> found.initializing,
                    manual |-> FALSE, timer |-> FALSE]
      BY <1>3, <2>1 DEF Lifecycles
    <3>2. found.operation \in Nat /\ found.initializing \in BOOLEAN
          /\ lifecycle.operation <= found.operation
      BY <1>3 DEF Lifecycles
    <3> QED
      BY <1>3, <3>1, <3>2 DEF Lifecycles
  <2>3. Chat!AfterDestroy(c, kind, client, opened, browser)
    BY <1>7, <2>1
  <2>4. CASE Opened(c, kind, client, opened, browser)
    <3>1. OperationInv'
      BY <2>2, <2>4, OpenedStep DEF ClientInv
    <3>2. CASE ~overlapped'
      BY <1>4, <1>5, <1>7, <2>4, <3>1, <3>2, OpenedBrowserStep DEF ClientInv
    <3>3. CASE overlapped'
      <4>1. DOMAIN browser' = Chat!Browsers
        BY <1>4, <2>4 DEF Opened
      <4> QED
        BY <3>1, <3>3, <4>1, OverlappedStep DEF ClientInv
    <3> QED
      BY <3>2, <3>3
  <2>5. CASE \E next : /\ IsOperation(next) /\ operation' = [operation EXCEPT ![c] = next]
                       /\ \/ kind = "reset" /\ next.kind = "reset" /\ next.at = "deleting"
                          \/ kind = "shutdown" /\ next.at = "idle"
                       /\ client' = client /\ browser' = browser /\ lifecycle' = opened
                       /\ phase' = "DISCONNECTED"
    <3>1. PICK next : /\ IsOperation(next) /\ operation' = [operation EXCEPT ![c] = next]
                      /\ \/ kind = "reset" /\ next.kind = "reset" /\ next.at = "deleting"
                         \/ kind = "shutdown" /\ next.at = "idle"
                      /\ client' = client /\ browser' = browser /\ lifecycle' = opened
                      /\ phase' = "DISCONNECTED"
      BY <2>5
    <3>2. OperationInv'
      <4>1. CASE kind = "reset"
        BY <1>3, <2>2, <3>1, <4>1, ResetStep DEF ClientInv
      <4>2. CASE kind # "reset"
        <5>1. ~AtWork(next) /\ (undeleted => undeleted')
          BY <1>2, <1>3, <2>2, <3>1, <4>2 DEF AtWork
        <5> QED
          BY <1>3, <1>4, <2>2, <3>1, <4>2, <5>1, GoesOnStep DEF ClientInv
      <4> QED
        BY <4>1, <4>2
    <3>3. CASE ~overlapped'
      <4>1. next.at \in {"idle", "deleting"} /\ DOMAIN browser' = Chat!Browsers /\ Quiet(browser')
            /\ client' = None
        BY <1>4, <1>5, <1>7, <3>1, <3>3 DEF Quiet
      <4> QED
        BY <1>4, <1>5, <3>1, <3>2, <3>3, <4>1, QuietStep DEF ClientInv
    <3>4. CASE overlapped'
      BY <1>4, <3>1, <3>2, <3>4, OverlappedStep DEF ClientInv
    <3> QED
      BY <3>3, <3>4
  <2>6. \/ Opened(c, kind, client, opened, browser)
        \/ \E next : /\ IsOperation(next) /\ operation' = [operation EXCEPT ![c] = next]
                     /\ \/ kind = "reset" /\ next.kind = "reset" /\ next.at = "deleting"
                        \/ kind = "shutdown" /\ next.at = "idle"
                     /\ client' = client /\ browser' = browser /\ lifecycle' = opened
                     /\ phase' = "DISCONNECTED"
    <3>1. opened \in Lifecycles /\ lifecycle.operation <= opened.operation
      BY <2>2
    <3> QED
      BY <2>3, <3>1, AfterDestroyStep
  <2> QED
    BY <2>4, <2>5, <2>6
<1> QED
  BY <1>2, <1>6, <1>7

LEMMA DestroyedStep ==
    ASSUME None \notin Int, ClientInv, NEW c \in Calls, NEW outcome \in {"dead", "failed"},
           Chat!Destroyed(c, outcome)
    PROVE  ClientInv'
<1>1. PICK browsers, found, kind :
         /\ browsers = [browser EXCEPT ![operation[c].browser] = outcome]
         /\ found = [lifecycle EXCEPT !.manual = FALSE] /\ kind = operation[c].kind
  OBVIOUS
<1>2. /\ operation[c].at \in {"closing", "replacing"}
      /\ operation[c].at = "closing" => Chat!AfterDestroy(c, kind, client, found, browsers)
      /\ operation[c].at = "replacing" => Chat!Build(c, kind, operation[c].id, found, browsers)
      /\ undeleted' = (undeleted /\ lifecycle'.operation = lifecycle.operation)
      /\ UNCHANGED <<ready, overlapped>>
  BY <1>1 DEF Chat!Destroyed, Chat!Continued
<1>3. /\ found \in Lifecycles /\ found.operation = lifecycle.operation
      /\ found.initializing = lifecycle.initializing /\ lifecycle.operation \in Nat
      /\ DOMAIN operation = Calls
      /\ DOMAIN browser = Chat!Browsers /\ DOMAIN browsers = Chat!Browsers
  BY <1>1 DEF ClientInv, OperationInv, BrowserInv, Lifecycles
<1>4. ~overlapped => /\ \A d \in Calls : d # c => operation[d].at = "idle"
                     /\ client = None /\ Quiet(browsers)
  <2> SUFFICES ASSUME ~overlapped
               PROVE  /\ \A d \in Calls : d # c => operation[d].at = "idle"
                      /\ client = None /\ Quiet(browsers)
    OBVIOUS
  <2>1. /\ \A d \in Calls : d # c => operation[d].at = "idle"
        /\ client = None /\ Chat!Running = {} /\ Closing \subseteq {operation[c].browser}
    BY <1>2, OneAtATimeMeans DEF ClientInv
  <2>2. Quiet(browsers)
    BY <1>1, <1>3, <2>1 DEF Quiet, Closing, Chat!Running
  <2> QED
    BY <2>1, <2>2
<1>5. CASE operation[c].at = "replacing"
  <2>1. PICK b : /\ client' = b /\ browser' = [browsers EXCEPT ![b] = "starting"]
                 /\ phase' = "INITIALIZING" /\ lifecycle' = [found EXCEPT !.manual = FALSE]
                 /\ operation' = [operation EXCEPT ![c] =
                       [at |-> "starting", kind |-> kind, id |-> operation[c].id, browser |-> b]]
    BY <1>2, <1>5 DEF Chat!Build
  <2>2. PICK next : next = [at |-> "starting", kind |-> kind, id |-> operation[c].id,
                            browser |-> b]
    OBVIOUS
  <2>3. /\ IsOperation(next) /\ next.at = "starting" /\ next.id = operation[c].id
        /\ next.browser = b
    BY <2>2 DEF IsOperation
  <2>4. /\ lifecycle' \in Lifecycles /\ lifecycle'.operation = lifecycle.operation
        /\ lifecycle'.initializing = lifecycle.initializing
    BY <1>3, <2>1 DEF Lifecycles
  <2>5. KeepsUp(operation[c], lifecycle.operation) => KeepsUp(next, lifecycle.operation)
    BY <1>5, <2>3 DEF KeepsUp, AtWork
  <2>6. OperationInv'
    BY <1>2, <1>5, <2>1, <2>2, <2>3, <2>4, <2>5, GoesOnStep DEF ClientInv, AtWork
  <2>7. BrowserInv'
    <3>1. CASE overlapped
      BY <1>2, <1>3, <2>1, <3>1, OverlappedStep DEF ClientInv
    <3>2. CASE ~overlapped
      BY <1>3, <1>4, <2>1, <2>2, <2>3, <3>2, BuiltStep
    <3> QED
      BY <3>1, <3>2
  <2> QED
    BY <2>6, <2>7 DEF ClientInv
<1>6. CASE operation[c].at = "closing" /\ Opened(c, kind, client, found, browsers)
  <2>1. OperationInv'
    BY <1>3, <1>6, OpenedStep DEF ClientInv, Lifecycles
  <2>2. CASE ~overlapped
    BY <1>3, <1>4, <1>6, <2>1, <2>2, OpenedBrowserStep DEF ClientInv
  <2>3. CASE overlapped
    <3>1. DOMAIN browser' = Chat!Browsers
      BY <1>3, <1>6 DEF Opened
    <3> QED
      BY <1>2, <2>1, <2>3, <3>1, OverlappedStep DEF ClientInv
  <2> QED
    BY <2>2, <2>3
<1>7. CASE operation[c].at = "closing" /\ ~Opened(c, kind, client, found, browsers)
  <2>1. PICK next : /\ IsOperation(next) /\ operation' = [operation EXCEPT ![c] = next]
                    /\ \/ kind = "reset" /\ next.kind = "reset" /\ next.at = "deleting"
                       \/ kind = "shutdown" /\ next.at = "idle"
                    /\ client' = client /\ browser' = browsers /\ lifecycle' = found
                    /\ phase' = "DISCONNECTED"
    BY <1>2, <1>3, <1>7, AfterDestroyStep DEF Lifecycles
  <2>2. ~AtWork(next) /\ (undeleted => undeleted')
    BY <1>2, <1>3, <2>1 DEF AtWork
  <2>3. KeepsUp(operation[c], lifecycle.operation) => KeepsUp(next, lifecycle.operation)
    BY <1>1, <1>7, <2>1 DEF KeepsUp, AtWork
  <2>4. OperationInv'
    BY <1>3, <2>1, <2>2, <2>3, GoesOnStep DEF ClientInv
  <2>5. CASE ~overlapped
    BY <1>3, <1>4, <2>1, <2>4, <2>5, QuietStep DEF ClientInv
  <2>6. CASE overlapped
    BY <1>2, <1>3, <2>1, <2>4, <2>6, OverlappedStep DEF ClientInv
  <2> QED
    BY <2>5, <2>6
<1> QED
  BY <1>2, <1>5, <1>6, <1>7

LEMMA DeleteSessionStep ==
    ASSUME None \notin Int, ClientInv, NEW c \in Calls, Chat!DeleteSession(c)
    PROVE  ClientInv'
<1>1. /\ operation[c].at = "deleting" /\ UNCHANGED <<ready, overlapped>>
      /\ lifecycle \in Lifecycles /\ DOMAIN operation = Calls /\ DOMAIN browser = Chat!Browsers
  BY DEF ClientInv, OperationInv, BrowserInv, Chat!DeleteSession
<1>2. ~overlapped => /\ \A d \in Calls : d # c => operation[d].at = "idle"
                     /\ Closing = {} /\ Chat!Running \subseteq {client}
                     /\ client = None => Quiet(browser)
  BY <1>1, OneAtATimeMeans DEF ClientInv
<1>3. CASE Chat!Initialize(c, "reset", TRUE, client, lifecycle, browser)
  <2>1. Opened(c, "reset", client, lifecycle, browser)
    BY <1>1, <1>3, InitializeOpens
  <2>2. OperationInv'
    BY <1>1, <2>1, OpenedStep DEF ClientInv, Lifecycles
  <2>3. CASE ~overlapped
    BY <1>1, <1>2, <2>1, <2>2, <2>3, OpenedBrowserStep DEF ClientInv
  <2>4. CASE overlapped
    <3>1. DOMAIN browser' = Chat!Browsers
      BY <1>1, <2>1 DEF Opened
    <3> QED
      BY <1>1, <2>2, <2>4, <3>1, OverlappedStep DEF ClientInv
  <2> QED
    BY <2>3, <2>4
<1>4. CASE Chat!Return(c) /\ undeleted' /\ UNCHANGED <<client, browser, phase, lifecycle>>
  <2>1. operation' = [operation EXCEPT ![c] = Chat!Idle]
    BY <1>4 DEF Chat!Return
  <2>2. IsOperation(Chat!Idle) /\ Chat!Idle.at = "idle" /\ ~AtWork(Chat!Idle)
    BY DEF Chat!Idle, IsOperation, AtWork
  <2>3. OperationInv'
    BY <1>1, <1>4, <2>1, <2>2, GoesOnStep DEF ClientInv
  <2>4. BrowserInv'
    BY <1>1, <1>4, <2>1, <2>2, SettledStep DEF ClientInv
  <2> QED
    BY <2>3, <2>4 DEF ClientInv
<1> QED
  BY <1>3, <1>4 DEF Chat!DeleteSession

LEMMA ClientStartStep ==
    ASSUME None \notin Int, ClientInv, NEW c \in Calls, NEW outcome \in {"live", "failed"},
           Chat!Start(c, outcome)
    PROVE  ClientInv'
<1>1. /\ operation[c].at = "starting" /\ UNCHANGED <<ready, overlapped, undeleted>>
      /\ lifecycle' = [lifecycle EXCEPT !.initializing =
                         @ /\ lifecycle.operation # operation[c].id]
      /\ operation' = [operation EXCEPT ![c] = Chat!Idle]
  BY DEF Chat!Start, Chat!Finish, Chat!Return
<1>2. PICK b, latest :
        /\ b = operation[c].browser
        /\ browser' = [browser EXCEPT ![b] = IF @ = "starting" THEN outcome ELSE @]
        /\ latest = (operation[c].id = lifecycle.operation)
        /\ client' = IF outcome = "failed" /\ latest THEN None ELSE client
        /\ phase' = IF outcome = "failed" /\ latest THEN "ERROR" ELSE phase
  BY DEF Chat!Start
<1>3. /\ IsOperation(Chat!Idle) /\ Chat!Idle.at = "idle" /\ ~AtWork(Chat!Idle)
      /\ AtWork(operation[c])
  BY <1>1 DEF Chat!Idle, IsOperation, AtWork
<1>4. /\ DOMAIN operation = Calls /\ DOMAIN browser = Chat!Browsers
      /\ operation'[c] = Chat!Idle /\ \A d \in Calls : d # c => operation'[d] = operation[d]
  BY <1>1 DEF ClientInv, OperationInv, BrowserInv
<1>5. OperationInv'
  <2>1. /\ lifecycle' \in Lifecycles /\ lifecycle'.operation = lifecycle.operation
        /\ operation[c].id # lifecycle.operation => lifecycle'.initializing = lifecycle.initializing
        /\ operation[c].id = lifecycle.operation => ~lifecycle'.initializing
    BY <1>1 DEF ClientInv, OperationInv, Lifecycles
  <2>2. CASE operation[c].id # lifecycle.operation
    <3>1. ~KeepsUp(operation[c], lifecycle.operation)
      BY <1>1, <2>2 DEF KeepsUp, AtWork
    <3> QED
      BY <1>1, <1>3, <2>1, <2>2, <3>1, GoesOnStep DEF ClientInv
  <2>3. CASE operation[c].id = lifecycle.operation
    <3>1. \A d \in Calls : ~Chat!Latest(d)'
      BY <1>3, <1>4, <2>1, <2>3 DEF ClientInv, OperationInv, Chat!Latest, AtWork
    <3>2. \A d \in Calls : IsOperation(operation'[d])
      BY <1>3, <1>4 DEF ClientInv, OperationInv
    <3>3. \A d \in Calls : AtWork(operation'[d]) => d # c
      BY <1>3, <1>4
    <3> QED
      BY <1>1, <1>4, <2>1, <2>3, <3>1, <3>2, <3>3 DEF ClientInv, OperationInv
  <2> QED
    BY <2>2, <2>3
<1>6. BrowserInv'
  <2>1. CASE overlapped
    BY <1>1, <1>2, <1>4, <2>1, OverlappedStep DEF ClientInv
  <2>2. CASE ~overlapped
    <3>1. /\ \A d \in Calls : d # c => operation[d].at = "idle"
          /\ Closing = {} /\ Chat!Running \subseteq {client}
      BY <1>1, <2>2, OneAtATimeMeans DEF ClientInv
    <3>7. client \in {None, b} /\ b \notin Live /\ None \notin Chat!Browsers
      BY <1>1, <1>2, <2>2 DEF ClientInv, BrowserInv, Chat!Browsers
    <3>2. Chat!Browsers' = Chat!Browsers /\ DOMAIN browser' = Chat!Browsers
      BY <1>2, <1>4 DEF Chat!Browsers
    <3>3. Closing' = {}
      BY <1>2, <1>4, <3>1, <3>2 DEF Closing
    <3>4. Chat!Running' \subseteq {client'}
      BY <1>2, <1>4, <3>1, <3>2, <3>7 DEF Chat!Running, Live
    <3>5. \A d \in Calls : operation'[d].at = "idle"
      BY <1>3, <1>4, <3>1
    <3>6. phase' = "CONNECTED" /\ client' # None => client' \in ready'
      BY <1>1, <1>2, <2>2 DEF ClientInv, BrowserInv
    <3> QED
      BY <3>2, <3>3, <3>4, <3>5, <3>6 DEF BrowserInv
  <2> QED
    BY <2>1, <2>2
<1> QED
  BY <1>5, <1>6 DEF ClientInv

LEMMA AutomaticStep ==
    ASSUME None \notin Int, ClientInv, NEW c \in Calls, Chat!Automatic(c)
    PROVE  ClientInv'
<1>1. PICK found : found = [lifecycle EXCEPT !.timer = FALSE]
  OBVIOUS
<1>2. /\ operation[c].at = "idle" /\ UNCHANGED ready
      /\ overlapped' = (overlapped \/ \E d \in Calls : operation[d].at # "idle")
      /\ undeleted' = (undeleted /\ lifecycle'.operation = lifecycle.operation)
      /\ Chat!Initialize(c, "init", FALSE, client, found, browser)
  BY <1>1 DEF Chat!Automatic, Chat!Begin, Chat!Continued
<1>3. /\ found \in Lifecycles /\ found.operation = lifecycle.operation
      /\ found.initializing = lifecycle.initializing /\ lifecycle.operation <= found.operation
  <2>1. lifecycle \in Lifecycles
    BY DEF ClientInv, OperationInv
  <2>2. found = [operation |-> lifecycle.operation, initializing |-> lifecycle.initializing,
                 manual |-> lifecycle.manual, timer |-> FALSE]
    BY <1>1, <2>1 DEF Lifecycles
  <2>3. /\ lifecycle.operation \in Nat /\ lifecycle.initializing \in BOOLEAN
        /\ lifecycle.manual \in BOOLEAN
    BY <2>1 DEF Lifecycles
  <2> QED
    BY <2>2, <2>3 DEF Lifecycles
<1>4. DOMAIN operation = Calls /\ DOMAIN browser = Chat!Browsers
  BY DEF ClientInv, OperationInv, BrowserInv
<1>5. ~overlapped' => /\ ~overlapped /\ \A d \in Calls : operation[d].at = "idle"
                      /\ Closing = {} /\ Chat!Running \subseteq {client}
                      /\ client = None => Quiet(browser)
  BY <1>2, OneAtATimeMeans DEF ClientInv
<1>6. CASE Opened(c, "init", client, found, browser)
  <2>1. OperationInv'
    BY <1>3, <1>6, OpenedStep DEF ClientInv
  <2>2. CASE ~overlapped'
    BY <1>4, <1>5, <1>6, <2>1, <2>2, OpenedBrowserStep DEF ClientInv
  <2>3. CASE overlapped'
    <3>1. DOMAIN browser' = Chat!Browsers
      BY <1>4, <1>6 DEF Opened
    <3> QED
      BY <2>1, <2>3, <3>1, OverlappedStep DEF ClientInv
  <2> QED
    BY <2>2, <2>3
<1>7. CASE /\ operation' = [operation EXCEPT ![c] = Chat!Idle]
           /\ lifecycle' = found /\ UNCHANGED <<client, browser, phase>>
  <2>1. IsOperation(Chat!Idle) /\ Chat!Idle.at = "idle" /\ ~AtWork(Chat!Idle)
    BY DEF Chat!Idle, IsOperation, AtWork
  <2>2. ~KeepsUp(operation[c], lifecycle.operation)
    BY <1>2 DEF KeepsUp, AtWork
  <2>3. OperationInv'
    BY <1>2, <1>3, <1>7, <2>1, <2>2, GoesOnStep DEF ClientInv
  <2>4. CASE ~overlapped'
    BY <1>2, <1>4, <1>7, <2>1, <2>3, <2>4, SettledStep DEF ClientInv
  <2>5. CASE overlapped'
    BY <1>4, <1>7, <2>3, <2>5, OverlappedStep DEF ClientInv
  <2> QED
    BY <2>4, <2>5
<1> QED
  BY <1>2, <1>3, <1>6, <1>7, InitializeOpens

\* The events of a browser, whoever refers to it.
LEMMA EventStep ==
    ASSUME None \notin Int, ClientInv, NEW b \in Chat!Browsers,
           \/ \E reported \in {"QR_READY", "AUTHENTICATED", "CONNECTED", "ERROR"} :
                 Chat!Report(b, reported)
           \/ Chat!Disconnected(b)
    PROVE  ClientInv'
<1>1. /\ UNCHANGED <<operation, overlapped, undeleted>>
      /\ lifecycle' \in Lifecycles /\ lifecycle'.operation = lifecycle.operation
      /\ lifecycle'.initializing = lifecycle.initializing
  <2>1. lifecycle \in Lifecycles
    BY DEF ClientInv, OperationInv
  <2>2. CASE Chat!Disconnected(b)
    <3>1. PICK timer : timer = (lifecycle.timer \/ (~lifecycle.manual /\ ~lifecycle.initializing))
      OBVIOUS
    <3>2. timer \in BOOLEAN
      BY <3>1
    <3>3. /\ lifecycle' = [lifecycle EXCEPT !.timer = timer]
          /\ UNCHANGED <<operation, overlapped, undeleted>>
      BY <2>2, <3>1 DEF Chat!Disconnected
    <3> QED
      BY <2>1, <3>2, <3>3 DEF Lifecycles
  <2> QED
    BY <2>1, <2>2 DEF Chat!Report
<1>2. OperationInv'
  <2>1. \A c \in Calls : Chat!Latest(c)' <=> Chat!Latest(c)
    BY <1>1 DEF Chat!Latest
  <2> QED
    BY <1>1, <2>1 DEF ClientInv, OperationInv
<1>3. BrowserInv'
  <2>1. DOMAIN browser = Chat!Browsers /\ Chat!Browsers' = Chat!Browsers
    BY DEF ClientInv, BrowserInv, Chat!Browsers
  <2>2. CASE Chat!Disconnected(b)
    <3>1. /\ browser' = [browser EXCEPT ![b] = "dead"] /\ client' = None
          /\ phase' = "DISCONNECTED"
      BY <2>2 DEF Chat!Disconnected
    <3>2. Closing' \subseteq Closing /\ Live' \subseteq Live /\ DOMAIN browser' = Chat!Browsers
      BY <2>1, <3>1 DEF Closing, Live
    <3>3. CASE ~overlapped
      <4>1. Chat!Running \subseteq {client} /\ None \notin Chat!Browsers
        BY <3>3 DEF ClientInv, BrowserInv, Chat!Browsers
      <4>2. Chat!Running' \subseteq Chat!Running \ {b}
        BY <2>1, <3>1 DEF Chat!Running
      <4>3. CASE b \in Chat!Running \/ Chat!Running = {}
        <5>1. Chat!Running' = {}
          BY <4>1, <4>2, <4>3
        <5> QED
          BY <1>1, <2>1, <3>1, <3>2, <3>3, <5>1 DEF ClientInv, BrowserInv
      <4>4. CASE b \notin Chat!Running /\ Chat!Running # {}
        <5>1. b \in Closing
          BY <2>2, <4>4 DEF Chat!Disconnected, Chat!Running, Closing
        <5>2. \E c \in Calls : operation[c].at \in {"closing", "replacing"}
          BY <3>3, <5>1 DEF ClientInv, BrowserInv
        <5>3. client = None
          BY <3>3, <5>2 DEF ClientInv, BrowserInv
        <5> QED
          BY <4>1, <4>4, <5>3 DEF Chat!Running
      <4> QED
        BY <4>3, <4>4
    <3>4. CASE overlapped
      BY <1>1, <3>2, <3>4, OverlappedStep DEF ClientInv
    <3> QED
      BY <3>3, <3>4
  <2>3. CASE \E reported \in {"QR_READY", "AUTHENTICATED", "CONNECTED", "ERROR"} :
                Chat!Report(b, reported)
    <3>1. /\ b \in Chat!Running /\ UNCHANGED <<client, browser>>
          /\ ready \subseteq ready' /\ (phase' = "CONNECTED" => b \in ready')
      BY <2>3 DEF Chat!Report
    <3>2. Closing' = Closing /\ Live' = Live /\ Chat!Running' = Chat!Running
      BY <2>1, <3>1 DEF Closing, Live, Chat!Running
    <3> QED
      BY <1>1, <2>1, <3>1, <3>2 DEF ClientInv, BrowserInv
  <2> QED
    BY <2>2, <2>3
<1> QED
  BY <1>2, <1>3 DEF ClientInv

LEMMA ClientInvStep == None \notin Int /\ ClientInv /\ [Chat!Next]_Chat!waVars => ClientInv'
<1> SUFFICES ASSUME None \notin Int, ClientInv, [Chat!Next]_Chat!waVars PROVE ClientInv'
  OBVIOUS
<1>1. ASSUME NEW c \in Calls, NEW kind \in {"reconnect", "reset", "shutdown"},
             Chat!Request(c, kind)
      PROVE  ClientInv'
  BY <1>1, ClientRequestStep
<1>2. ASSUME NEW c \in Calls, NEW outcome \in {"dead", "failed"}, Chat!Destroyed(c, outcome)
      PROVE  ClientInv'
  BY <1>2, DestroyedStep
<1>3. ASSUME NEW c \in Calls, Chat!DeleteSession(c) \/ Chat!Automatic(c)
      PROVE  ClientInv'
  BY <1>3, DeleteSessionStep, AutomaticStep
<1>4. ASSUME NEW c \in Calls, NEW outcome \in {"live", "failed"}, Chat!Start(c, outcome)
      PROVE  ClientInv'
  BY <1>4, ClientStartStep
<1>5. ASSUME NEW b \in Chat!Browsers,
             \/ \E reported \in {"QR_READY", "AUTHENTICATED", "CONNECTED", "ERROR"} :
                   Chat!Report(b, reported)
             \/ Chat!Disconnected(b)
      PROVE  ClientInv'
  BY <1>5, EventStep
<1>6. CASE UNCHANGED Chat!waVars
  <2>1. UNCHANGED <<client, browser, ready, phase, lifecycle, operation, overlapped, undeleted>>
    BY <1>6 DEF Chat!waVars
  <2>2. OperationInv'
    BY <2>1 DEF ClientInv, OperationInv, Chat!Latest
  <2>3. BrowserInv'
    BY <2>1 DEF ClientInv, BrowserInv, Closing, Live, Chat!Running, Chat!Browsers
  <2> QED
    BY <2>2, <2>3 DEF ClientInv
<1> QED
  BY <1>1, <1>2, <1>3, <1>4, <1>5, <1>6 DEF Chat!Next

\* The client of modules/whatsapp: isInitializing says whether a start-up is under
\* way, and calls that do not overlap leave no browser running beside the current one.
THEOREM OneClientAtATime == Chat!Spec => []Chat!ClientSound
<1> USE CustomersAssumption
<1>1. Chat!Init => ClientInv
  BY ClientInit
<1>2. ClientInv /\ [Chat!Next]_Chat!waVars => ClientInv'
  BY ClientInvStep
<1>3. ClientInv => Chat!ClientSound
  <2>1. \A c \in Calls : KeepsUp(operation[c], lifecycle.operation)
                           => Chat!Latest(c) \/ operation[c].kind = "reset"
    BY DEF KeepsUp, AtWork, Chat!Latest
  <2> QED
    BY <2>1 DEF ClientInv, OperationInv, BrowserInv, Chat!ClientSound
<1> QED
  BY <1>1, <1>2, <1>3, PTL DEF Chat!Spec

\* Both halves of what is sent to people: pushes (notification.service) and the
\* administrators' WhatsApp (modules/whatsapp).
THEOREM MessagesAreSound == Notice!Spec /\ Chat!Spec => []MessagesSound
<1>1. Notice!Spec => []Notice!PushSound
  BY PushesReachTheirRecipient
<1>2. Chat!Spec => []Chat!ClientSound
  BY OneClientAtATime
<1>3. Notice!PushSound /\ Chat!ClientSound => MessagesSound
  BY DEF MessagesSound
<1> QED
  BY <1>1, <1>2, <1>3, PTL
================================================================================
