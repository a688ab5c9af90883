-------------------------------- MODULE Accounts --------------------------------
(***************************************************************************)
(* What administrators do with customers' accounts, the pricing groups they*)
(* are in, and the requests of customers to become sub-agents.  Requests   *)
(* are made and reviewed in transactions: they work on a snapshot, and are *)
(* started again when an account or request they write has changed since.  *)
(* Everything else reads a document and saves later what it modified.      *)
(***************************************************************************)
EXTENDS Naturals, FiniteSets

CONSTANTS Calls, Users, Groups, Requests, None,
          MaxCalls \* bound

VARIABLES account, \* User: status, deletedAt, resellerStatus, stopped for
                   \* referralCommissionStoppedAt, subAgentRequestPending, groupId
          request, \* SubAgentRequest: userId, status, approvedGroupId, and
                   \* whether the image of the proof is stored
          group,   \* Group: isActive and deletedAt
          call, calls

vars == <<account, request, group, call, calls>>

Statuses == {"PENDING", "ACTIVE", "REJECTED"}
NoRequest == [status |-> "none", user |-> None, group |-> None, proof |-> FALSE]
NewGroup == [active |-> TRUE, deleted |-> FALSE]

Init ==
    /\ account = [u \in Users |-> [status |-> "ACTIVE", deleted |-> FALSE, reseller |-> FALSE,
                                   stopped |-> FALSE, pending |-> FALSE, group |-> None]]
    /\ request = [r \in Requests |-> NoRequest]
    /\ group = [g \in Groups |-> NewGroup]
    /\ call = [k \in Calls |-> [at |-> "idle"]]
    /\ calls = 0

Goes(k, next) == call' = [call EXCEPT ![k] = next]
Ends(k) == Goes(k, [at |-> "idle"])

----------------------------------------------------------------------------
(* Administration: read, and save the paths that differ from what was read *)

\* updateUser, changeUserGroup, deleteUser, restoreUser, rejectUser, approveUser.
AccountPatches(read) ==
    [status : Statuses]
      \cup {[group |-> g] : g \in {None} \cup Groups}
      \cup {[deleted |-> ~read.deleted, status |-> IF read.deleted THEN "ACTIVE" ELSE "REJECTED"]}

\* updateGroup, which also takes a deleted one, and deleteGroup.
GroupPatches(read) ==
    [active : BOOLEAN] \cup IF read.deleted THEN {} ELSE {[active |-> FALSE, deleted |-> TRUE]}

Modified(read, patch) == {f \in DOMAIN patch : patch[f] # read[f]}
Saved(doc, patch, fields) == [f \in DOMAIN doc |-> IF f \in fields THEN patch[f] ELSE doc[f]]

ReadAccount(k) ==
    /\ call[k].at = "idle" /\ calls < MaxCalls
    /\ \E u \in Users : \E p \in AccountPatches(account[u]) :
          Goes(k, [at |-> "saveAccount", user |-> u, patch |-> p,
                   fields |-> Modified(account[u], p)])
    /\ calls' = calls + 1
    /\ UNCHANGED <<account, request, group>>

SaveAccount(k) ==
    /\ call[k].at = "saveAccount"
    /\ account' = [account EXCEPT ![call[k].user] = Saved(@, call[k].patch, call[k].fields)]
    /\ Ends(k)
    /\ UNCHANGED <<request, group, calls>>

ReadGroup(k) ==
    /\ call[k].at = "idle" /\ calls < MaxCalls
    /\ \E g \in Groups : \E p \in GroupPatches(group[g]) :
          Goes(k, [at |-> "saveGroup", group |-> g, patch |-> p,
                   fields |-> Modified(group[g], p)])
    /\ calls' = calls + 1
    /\ UNCHANGED <<account, request, group>>

SaveGroup(k) ==
    /\ call[k].at = "saveGroup"
    /\ group' = [group EXCEPT ![call[k].group] = Saved(@, call[k].patch, call[k].fields)]
    /\ Ends(k)
    /\ UNCHANGED <<account, request, calls>>

----------------------------------------------------------------------------
(* Sub-agent requests *)

Operations ==
    [operation : {"create"}, user : Users]
      \cup [operation : {"approve"}, request : Requests, group : Groups]
      \cup [operation : {"reject"}, request : Requests]

Call(k) ==
    /\ call[k].at = "idle" /\ calls < MaxCalls
    /\ \E o \in Operations :
          /\ o.operation # "create" => request[o.request].status # "none"
          /\ Goes(k, [at |-> "begin", asked |-> o])
    /\ calls' = calls + 1
    /\ UNCHANGED <<account, request, group>>

\* The first read of a transaction takes its snapshot.
Begin(k) ==
    /\ call[k].at = "begin"
    /\ Goes(k, [at |-> "run", asked |-> call[k].asked, account |-> account,
                request |-> request, group |-> group])
    /\ UNCHANGED <<account, request, group, calls>>

\* A condition that does not hold, or an error of the driver.  The image of a
\* request that was not committed is removed (cleanupProofFile).
Abort(k) ==
    /\ call[k].at = "run"
    /\ Ends(k)
    /\ UNCHANGED <<account, request, group, calls>>

Running(k, operation) == call[k].at = "run" /\ call[k].asked.operation = operation

MutUnchanged(k, us, rs) == \* Mutant: the account is written outside the transaction.
    \A r \in rs : request[r] = call[k].request[r]

Unchanged(k, us, rs) ==
    /\ \A u \in us : account[u] = call[k].account[u]
    /\ \A r \in rs : request[r] = call[k].request[r]

\* withTransaction starts again.
Conflict(k, us, rs) ==
    /\ ~Unchanged(k, us, rs)
    /\ Goes(k, [at |-> "begin", asked |-> call[k].asked])
    /\ UNCHANGED <<account, request, group, calls>>

PendingOf(docs, u) == {r \in Requests : docs[r].status = "PENDING" /\ docs[r].user = u}

Eligible(a) == ~a.deleted /\ a.status = "ACTIVE" /\ ~a.reseller

\* assertCustomerCanRequest, the lookup, claimPendingRequestSlot and the insert,
\* which fails on a second pending request of the user.
CreateSubAgentRequest(k) ==
    LET u == call[k].asked.user
        seen == call[k].account[u]
    IN  /\ Running(k, "create")
        /\ Eligible(seen) /\ ~seen.pending /\ PendingOf(call[k].request, u) = {}
        /\ \/ /\ Unchanged(k, {u}, {}) /\ PendingOf(request, u) = {}
              /\ \E r \in Requests :
                    /\ request[r].status = "none"
                    /\ request' = [request EXCEPT ![r] =
                          [status |-> "PENDING", user |-> u, group |-> None, proof |-> TRUE]]
                    /\ Goes(k, [at |-> "answer", request |-> r])
              /\ account' = [account EXCEPT ![u].pending = TRUE]
              /\ UNCHANGED <<group, calls>>
           \/ Conflict(k, {u}, {})

\* createMyRequest removes the image on any error, also when the request is stored
\* and only reading it back has failed.
Answer(k) ==
    /\ call[k].at = "answer"
    /\ \/ UNCHANGED request
       \/ request' = [request EXCEPT ![call[k].request].proof = FALSE]
    /\ Ends(k)
    /\ UNCHANGED <<account, group, calls>>

\* The group is only read: it may have been deleted since the snapshot.
ApproveSubAgentRequest(k) ==
    LET r == call[k].asked.request
        g == call[k].asked.group
        u == call[k].request[r].user
    IN  /\ Running(k, "approve")
        /\ call[k].request[r].status = "PENDING"
        /\ ~call[k].group[g].deleted /\ call[k].group[g].active
        /\ Eligible(call[k].account[u])
        /\ \/ /\ Unchanged(k, {u}, {r})
              /\ request' = [request EXCEPT ![r].status = "APPROVED", ![r].group = g]
              /\ account' = [account EXCEPT ![u].group = g, ![u].reseller = TRUE,
                                            ![u].stopped = TRUE, ![u].pending = FALSE]
              /\ Ends(k)
              /\ UNCHANGED <<group, calls>>
           \/ Conflict(k, {u}, {r})

\* Mutant: the account keeps its mark.
MutRejectSubAgentRequest(k) ==
    /\ Running(k, "reject") /\ call[k].request[call[k].asked.request].status = "PENDING"
    /\ request' = [request EXCEPT ![call[k].asked.request].status = "REJECTED"]
    /\ Ends(k)
    /\ UNCHANGED <<account, group, calls>>

RejectSubAgentRequest(k) ==
    LET r == call[k].asked.request
        u == call[k].request[r].user
    IN  /\ Running(k, "reject")
        /\ call[k].request[r].status = "PENDING"
        /\ \/ /\ Unchanged(k, {u}, {r})
              /\ request' = [request EXCEPT ![r].status = "REJECTED"]
              /\ account' = [account EXCEPT ![u].pending = FALSE]
              /\ Ends(k)
              /\ UNCHANGED <<group, calls>>
           \/ Conflict(k, {u}, {r})

Next == \E k \in Calls :
    \/ ReadAccount(k) \/ SaveAccount(k) \/ ReadGroup(k) \/ SaveGroup(k)
    \/ Call(k) \/ Begin(k) \/ Abort(k) \/ Answer(k)
    \/ CreateSubAgentRequest(k) \/ ApproveSubAgentRequest(k) \/ RejectSubAgentRequest(k)

Spec == Init /\ [][Next]_vars

----------------------------------------------------------------------------
(* Properties *)

\* Whatever requests, reviews and administrators overlap: the mark of an account and
\* its pending request come and go together, a request never blocks a customer for
\* ever, and a reseller is one of exactly one approved request
\* (createSubAgentRequest, approveSubAgentRequest, rejectSubAgentRequest).
SubAgentConsistent == \A u \in Users :
    /\ Cardinality(PendingOf(request, u)) = IF account[u].pending THEN 1 ELSE 0
    /\ Cardinality({r \in Requests : request[r].status = "APPROVED" /\ request[r].user = u})
          = IF account[u].reseller THEN 1 ELSE 0
    /\ account[u].stopped = account[u].reseller

\* Nobody becomes a reseller after having been rejected or deleted, however late the
\* approval is: it happens on an active account, together with its request, into the
\* group chosen for it, and is never undone (approveSubAgentRequest).
ApprovedWhileActive == [][\A u \in Users :
    account'[u].reseller # account[u].reseller =>
        /\ Eligible(account[u]) /\ account[u].pending
        /\ \E r \in PendingOf(request, u) :
              request'[r].status = "APPROVED" /\ request'[r].group = account'[u].group]_vars
================================================================================
