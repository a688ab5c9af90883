--------------------------- MODULE ProviderMutations ---------------------------
(***************************************************************************)
(* One order for a Hago transfer, a Hago nobility or an Inchill recharge:  *)
(* an irreversible call to a provider, between a claim and a settlement of *)
(* the order document.  An unresolved outcome may only be looked up.       *)
(*   hago, nobility, inchill .... FinancialExecution services              *)
(*   executors .................. executeOrder                             *)
(*   schedule, admin reconcilers  reconcileScheduled, reconcile            *)
(*   clerk ...................... an administrator's refund or completion  *)
(***************************************************************************)
EXTENDS Naturals, FiniteSets

CONSTANTS Executors,   \* calls of executeOrder for the order; createOrder makes one
          Schedulers,  \* runs of reconcileScheduled
          Reviewers,   \* administrators calling reconcile
          MaxAttempts, \* HAGO_FINANCIAL_RECONCILIATION_MAX_ATTEMPTS
          MaxFaults    \* crashes and exceptions in a behaviour

ASSUME MutationsAssumption ==
    /\ MaxAttempts \in Nat \ {0}
    /\ MaxFaults \in Nat
    /\ Executors \cap (Schedulers \cup Reviewers) = {}
    /\ Schedulers \cap Reviewers = {}

VARIABLES service,   \* serviceType of the order
          order,     \* its status, mutation state, whether the transaction id
                     \* is known, reconciliation attempts and refund
          upstream,  \* what the provider did: nothing yet, nothing and never,
                     \* undecided, charged or rejected
          step,      \* where each executor and reconciler stands
          clerk,     \* where the administrator's request stands
          faults

mutationVars == <<service, order, upstream, step, clerk, faults>>

Actors == Executors \cup Schedulers \cup Reviewers
States == {"READY", "CLAIMED", "SENT", "PENDING", "UNKNOWN", "SUCCESS", "FAILED"}
Open == {"PROCESSING", "MANUAL_REVIEW"}

Init ==
    /\ service \in {"hago", "nobility", "inchill"}
    /\ order = [status |-> "PROCESSING", state |-> "READY", known |-> FALSE,
                attempts |-> 0, refund |-> "no"]
    /\ upstream = "idle"
    /\ step = [x \in Actors |-> "idle"]
    /\ clerk = "idle"
    /\ faults = 0

Goto(x, s) == step' = [step EXCEPT ![x] = s]

MutIsRefundBlocked == \* Mutant: an unknown outcome no longer blocks.
    order.state \in {"CLAIMED", "SENT", "PENDING"}

IsRefundBlocked == order.state \in {"CLAIMED", "SENT", "PENDING", "UNKNOWN"}

(***************************************************************************)
(* execute                                                                 *)
(***************************************************************************)
Execute(e) ==
    /\ step[e] = "idle"
    /\ Goto(e, IF order.status = "PROCESSING" /\ order.state = "READY" THEN "claim" ELSE "done")
    /\ UNCHANGED <<service, order, upstream, clerk, faults>>

\* Inchill checks its switch again before the claim.
SwitchedOff(e) ==
    /\ service = "inchill"
    /\ step[e] = "claim"
    /\ Goto(e, "notSent")
    /\ UNCHANGED <<service, order, upstream, clerk, faults>>

Claim(e) ==
    /\ step[e] = "claim"
    /\ IF order.status = "PROCESSING" /\ order.state = "READY"
       THEN order' = [order EXCEPT !.state = "CLAIMED"] /\ Goto(e, "claimed")
       ELSE UNCHANGED order /\ Goto(e, "done")
    /\ UNCHANGED <<service, upstream, clerk, faults>>

\* What Nobility resolves and Inchill verifies between the claim and SENT:
\* a failure is final, a changed fingerprint is not.
CheckFails(e) ==
    /\ step[e] = "claimed"
    /\ \/ service = "nobility" /\ Goto(e, "failed")
       \/ service = "inchill" /\ \E s \in {"notSent", "unknown"} : Goto(e, s)
    /\ UNCHANGED <<service, order, upstream, clerk, faults>>

Send(e) ==
    /\ step[e] = "claimed"
    /\ IF order.state = "CLAIMED"
       THEN order' = [order EXCEPT !.state = "SENT"] /\ Goto(e, "sent")
       ELSE UNCHANGED order /\ Goto(e, "done")
    /\ UNCHANGED <<service, upstream, clerk, faults>>

\* Hago resolves product and connection only now; Nobility takes an error of the
\* write of SENT, which may have been applied, for a request that was not sent.
ConfigurationMissing(e) ==
    /\ service \in {"hago", "nobility"}
    /\ step[e] = "sent"
    /\ Goto(e, "failed")
    /\ UNCHANGED <<service, order, upstream, clerk, faults>>

\* The one mutation request.  The provider decides at once or later.
CallProvider(e) ==
    /\ step[e] = "sent"
    /\ upstream' \in {"open", "charged", "rejected", "refused"}
    /\ Goto(e, "answer")
    /\ UNCHANGED <<service, order, clerk, faults>>

ProviderDecides ==
    /\ upstream = "open"
    /\ upstream' \in {"charged", "rejected"}
    /\ UNCHANGED <<service, order, step, clerk, faults>>

(***************************************************************************)
(* classifyHagoMutation and its Inchill twin: the step an answer leads to. *)
(* Any answer may be lost, late or malformed, which is "unknown".          *)
(***************************************************************************)
Outcomes == {"unknown"} \cup
    CASE upstream = "charged"  -> {"success"}
      [] upstream = "rejected" -> {"failed"}
      [] upstream = "refused"  -> {IF service = "inchill" THEN "refused" ELSE "failed"}
      [] OTHER                 -> {"pending", "pendingAnonymous"}

Answer(e) ==
    /\ step[e] = "answer"
    /\ \E s \in Outcomes :
          Goto(e, IF s = "pendingAnonymous" /\ service = "nobility" THEN "unknown" ELSE s)
    /\ UNCHANGED <<service, order, upstream, clerk, faults>>

(***************************************************************************)
(* Settling: compare-and-swaps on the order.                               *)
(***************************************************************************)
CanSettle(from) ==
    IF service = "inchill" THEN order.state = "SENT"
    ELSE order.status \in Open /\ order.state \in from

SettleSuccess(x) ==
    /\ step[x] = "success"
    /\ order' = IF CanSettle({"SENT", "PENDING", "UNKNOWN"})
                THEN [order EXCEPT !.status = "COMPLETED", !.state = "SUCCESS"]
                ELSE order
    /\ Goto(x, "done")
    /\ UNCHANGED <<service, upstream, clerk, faults>>

Failed == [order EXCEPT !.status = "FAILED", !.state = "FAILED"]

MayFail(x) ==
    \/ step[x] = "failed" /\ CanSettle({"SENT", "CLAIMED", "PENDING", "UNKNOWN"})
    \/ step[x] = "refused" /\ order.state = "SENT"
    \/ step[x] = "notSent" /\ order.state \in {"READY", "CLAIMED"}

\* The refund is a call of its own, made only by whoever settled.
SettleAuthoritativeFailure(x) ==
    /\ MayFail(x)
    /\ order' = Failed
    /\ Goto(x, "refund")
    /\ UNCHANGED <<service, upstream, clerk, faults>>

LostSettlement(x) ==
    /\ step[x] \in {"failed", "refused", "notSent"} /\ ~MayFail(x)
    /\ Goto(x, "done")
    /\ UNCHANGED <<service, order, upstream, clerk, faults>>

Refund(x) ==
    /\ step[x] = "refund"
    /\ order' = IF order.refund = "no" THEN [order EXCEPT !.refund = "auto"] ELSE order
    /\ Goto(x, "done")
    /\ UNCHANGED <<service, upstream, clerk, faults>>

RecordPending(e) ==
    /\ step[e] \in {"pending", "pendingAnonymous"}
    /\ order' = IF order.state = "SENT"
                THEN [order EXCEPT !.state = "PENDING", !.known = step[e] = "pending"]
                ELSE order
    /\ Goto(e, "done")
    /\ UNCHANGED <<service, upstream, clerk, faults>>

Unclear(id) ==
    IF order.state \in {"READY", "CLAIMED", "SENT", "PENDING"}
    THEN [order EXCEPT !.status = "MANUAL_REVIEW", !.state = "UNKNOWN", !.known = id]
    ELSE order

\* The evidence of an unclear answer may carry the transaction id.
MarkUnknown(e) ==
    /\ step[e] = "unknown"
    /\ \E id \in BOOLEAN : order' = Unclear(id /\ upstream # "idle")
    /\ Goto(e, "done")
    /\ UNCHANGED <<service, upstream, clerk, faults>>

(***************************************************************************)
(* executeOrder's catch around execute records an unknown outcome without  *)
(* evidence.  What the catch does not hold, the guard around the whole     *)
(* function does: FAILED whatever the order is, then refundFailedOrder,    *)
(* which asks the refunded flag and nobody whether a refund is blocked.    *)
(***************************************************************************)
MarkUnexpectedExecutionError(e) ==
    /\ step[e] = "rescue"
    /\ order' = Unclear(service = "inchill" /\ order.known)
    /\ Goto(e, "done")
    /\ UNCHANGED <<service, upstream, clerk, faults>>

FatalError(e) ==
    /\ step[e] = "guard"
    /\ order' = [order EXCEPT !.status = "FAILED"]
    /\ Goto(e, "fatalRefund")
    /\ UNCHANGED <<service, upstream, clerk, faults>>

FatalRefund(e) ==
    /\ step[e] = "fatalRefund"
    /\ order' = IF order.refund = "no" THEN [order EXCEPT !.refund = "fatal"] ELSE order
    /\ Goto(e, "done")
    /\ UNCHANGED <<service, upstream, clerk, faults>>

(***************************************************************************)
(* reconcile, by an administrator or by the polling job; read-only for the *)
(* provider.  Inchill answers nothing that would settle an order.          *)
(***************************************************************************)
Attempted(o) == [o EXCEPT !.attempts = IF @ < MaxAttempts THEN @ + 1 ELSE @]

Reconcile(r) ==
    /\ step[r] = "idle"
    /\ order.state \in (IF service = "inchill" THEN {"UNKNOWN"} ELSE {"PENDING", "UNKNOWN"})
    /\ service = "inchill" => order.known
    /\ r \in Schedulers => /\ service # "inchill"
                           /\ order.status \in Open
                           /\ order.known
                           /\ order.attempts < MaxAttempts
    /\ \E s \in (IF order.known THEN {"lookup", "unresolved"} ELSE {"unresolved"}) : Goto(r, s)
    /\ UNCHANGED <<service, order, upstream, clerk, faults>>

Lookup(r) ==
    /\ step[r] = "lookup"
    /\ \E s \in Outcomes :
          Goto(r, IF service # "inchill" /\ s \in {"success", "failed"} THEN s ELSE "unresolved")
    /\ UNCHANGED <<service, order, upstream, clerk, faults>>

\* Nobility gives a pending order to an administrator at the limit.
Unresolved(r) ==
    /\ step[r] = "unresolved"
    /\ order' = IF /\ service = "nobility"
                   /\ order.state = "PENDING"
                   /\ Attempted(order).attempts = MaxAttempts
                THEN [Attempted(order) EXCEPT !.status = "MANUAL_REVIEW", !.state = "UNKNOWN"]
                ELSE Attempted(order)
    /\ Goto(r, "idle")
    /\ UNCHANGED <<service, upstream, clerk, faults>>

(***************************************************************************)
(* Faults.  After a crash nothing runs; a reconciler's exception is        *)
(* swallowed.  The first read of executeOrder is outside the catch, that   *)
(* of execute inside.  Hago's catches wait for their write, so that its    *)
(* exception reaches the guard; Inchill's returns it to createOrder.       *)
(***************************************************************************)
Handlers(e) ==
    CASE step[e] = "idle" -> {"guard", "rescue"}
      [] step[e] = "rescue" -> {IF service = "inchill" THEN "done" ELSE "guard"}
      [] step[e] \in {"guard", "fatalRefund"} -> {"done"}
      [] OTHER -> {"rescue"}

Throws(e) ==
    /\ faults < MaxFaults
    /\ step[e] \notin {"done", "answer"}
    /\ ~(service = "nobility" /\ step[e] = "claimed")
    /\ \E s \in Handlers(e) : Goto(e, s)
    /\ faults' = faults + 1
    /\ UNCHANGED <<service, order, upstream, clerk>>

Crash ==
    /\ faults < MaxFaults
    /\ step' = [x \in Actors |-> IF x \in Executors /\ step[x] # "idle" THEN "done" ELSE "idle"]
    /\ clerk' = "idle"
    /\ faults' = faults + 1
    /\ UNCHANGED <<service, order, upstream>>

(***************************************************************************)
(* What an administrator may do meanwhile.                                 *)
(***************************************************************************)
\* One transaction.
MarkOrderAsFailed ==
    /\ clerk = "idle"
    /\ ~IsRefundBlocked /\ order.status # "FAILED" /\ order.refund = "no"
    /\ order' = [order EXCEPT !.status = "FAILED", !.refund = "full"]
    /\ UNCHANGED <<service, upstream, step, clerk, faults>>

\* refundOrder with remains: read, save PARTIAL, then processOrderRefund in a
\* transaction, which asks the two Hago services again but not Inchill's.
RefundOrder ==
    /\ clerk = "idle"
    /\ ~IsRefundBlocked /\ order.refund = "no"
    /\ clerk' = "partial"
    /\ UNCHANGED <<service, order, upstream, step, faults>>

SavePartial ==
    /\ clerk = "partial"
    /\ order' = [order EXCEPT !.status = "PARTIAL"]
    /\ clerk' = "process"
    /\ UNCHANGED <<service, upstream, step, faults>>

ProcessOrderRefund ==
    /\ clerk = "process"
    /\ order' = IF order.refund = "no" /\ (service = "inchill" \/ ~IsRefundBlocked)
                THEN [order EXCEPT !.refund = "partial"] ELSE order
    /\ clerk' = "idle"
    /\ UNCHANGED <<service, upstream, step, faults>>

\* completeOrder saves what it read: a refund it saw is taken back.
CompleteOrder ==
    /\ clerk = "idle"
    /\ ~IsRefundBlocked /\ order.status # "COMPLETED"
    /\ clerk' = IF order.refund = "no" THEN "complete" ELSE "rededuct"
    /\ UNCHANGED <<service, order, upstream, step, faults>>

CompleteSave ==
    /\ clerk \in {"complete", "rededuct"}
    /\ order' = [order EXCEPT !.status = "COMPLETED",
                              !.refund = IF clerk = "rededuct" THEN "no" ELSE @]
    /\ clerk' = "idle"
    /\ UNCHANGED <<service, upstream, step, faults>>

ExecutorStep(e) ==
    \/ Execute(e) \/ SwitchedOff(e) \/ Claim(e) \/ CheckFails(e) \/ Send(e)
    \/ ConfigurationMissing(e) \/ CallProvider(e) \/ Answer(e)
    \/ RecordPending(e) \/ MarkUnknown(e) \/ MarkUnexpectedExecutionError(e)
    \/ FatalError(e) \/ FatalRefund(e) \/ Throws(e)

Settle(x) ==
    SettleSuccess(x) \/ SettleAuthoritativeFailure(x) \/ LostSettlement(x) \/ Refund(x)

Clerk == MarkOrderAsFailed \/ RefundOrder \/ SavePartial \/ ProcessOrderRefund
         \/ CompleteOrder \/ CompleteSave

Next ==
    \/ \E e \in Executors : ExecutorStep(e)
    \/ \E x \in Actors : Settle(x)
    \/ \E r \in Schedulers \cup Reviewers : Reconcile(r) \/ Lookup(r) \/ Unresolved(r)
    \/ ProviderDecides \/ Crash \/ Clerk

Spec == Init /\ [][Next]_mutationVars

-----------------------------------------------------------------------------
\* The provider cannot deliver any more, or its delivery has been settled.
Proved == upstream # "open" /\ (upstream = "charged" => order.state = "SUCCESS")

Lone == \A x, y \in Executors : x = y

\* Money never goes back to the customer while the provider may still deliver,
\* nor after it did unless the order had been settled as a success first, and
\* one crash or exception, wherever it happens, does not change that.  Outside
\* are the guard's refund after a second one (FatalRefundProved), or with a second
\* call of executeOrder, and a partial refund of an Inchill order:
\* processOrderRefund (order.service.js:1536) forgets to ask the Inchill service,
\* and a recharge sent between refundOrder's check and that refund is given back
\* in part.
GivenBack ==
    /\ order.refund # "no"
    /\ order.refund = "fatal" => faults < 2 /\ Lone
    /\ ~(service = "inchill" /\ order.refund = "partial")

RefundProved == GivenBack => Proved

\* The guard too refunds only what the provider has not delivered and will not:
\* an order for a financial request never enters a path that may classify an
\* unexpected error as FAILED and refund it (orderFulfillment.service.js:343-346).
FatalRefundProved == order.refund = "fatal" => Proved
================================================================================
