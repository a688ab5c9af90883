---------------------------- MODULE OrderSettlement ----------------------------
(***************************************************************************)
(* What happens to an order after it has been charged and persisted:       *)
(* executeOrder talks to the provider, the fulfilment cron job polls it,   *)
(* administrators fail or complete it, and each of these may return the    *)
(* customer's money.                                                       *)
(*                                                                         *)
(* One Node.js process runs all handlers; they interleave at every await   *)
(* of a database or provider call, so one action here is the code between  *)
(* two awaits that matter.  A MongoDB snapshot transaction that touches    *)
(* one order and one user is a single action: a conflicting write aborts   *)
(* it.  Orders carry the legacy money fields (chargedAmount); Charge[o]=0  *)
(* is an order of a quantity_only group, paid with quota.                  *)
(***************************************************************************)
EXTENDS Integers, FiniteSets

CONSTANTS Orders,        \* charged orders, already persisted
          Poller,        \* the fulfilment cron job
          Admins,        \* administrator requests that may be in flight at once
          Charge,        \* chargedAmount of each order, 0 for a quota order
          Quantity,      \* ordered quantity
          MaxRetry,      \* MAX_RETRY_COUNT
          Faults,        \* which faults the environment may produce
          MaxRequests,   \* bound: administrator requests in a behaviour
          MaxFaults      \* bound: crashes, and unknown commits of each order

FaultKinds == {"crash", "walletError", "commitUnknown", "transient"}

ASSUME OrdersAssumption ==
    /\ IsFiniteSet(Orders) /\ IsFiniteSet(Admins)
    /\ Orders \cap Admins = {} /\ Poller \notin Orders \cup Admins
ASSUME NumbersAssumption ==
    /\ Charge \in [Orders -> Nat]
    /\ Quantity \in [Orders -> Nat \ {0}]
    /\ MaxRetry \in Nat \ {0}
    /\ MaxRequests \in Nat /\ MaxFaults \in Nat
    /\ Faults \subseteq FaultKinds

VARIABLES
    status,     \* Order.status
    refunded,   \* Order.refunded; refundedAt is written and cleared with it
    placed,     \* Order.providerOrderId # null
    uncertain,  \* Order.providerStatus = 'PLACEMENT_UNCERTAIN'
    retry,      \* Order.retryCount
    remains,    \* Order.remains
    debits,     \* DEBIT rows (quota: charges) written for the order
    refunds,    \* REFUND rows (quota: returns) written for the order
    returned,   \* total amount of those REFUND rows
    pc,         \* where each handler is; a handler is its order, Poller or a request
    on,         \* the order a handler works on
    saw,        \* Order.refunded as completeOrder read it
    phase,      \* which part of pollProcessingOrders runs
    batch,      \* orders the current part still has to visit
    snap,       \* retryCount in the documents the poll loaded
    requests,   \* administrator requests so far
    crashes,    \* process crashes so far
    unknowns    \* refunds that were committed but reported as failed

orderVars == <<status, refunded, placed, uncertain, retry, remains>>
moneyVars == <<debits, refunds, returned>>
pollVars  == <<phase, batch, snap>>
boundVars == <<requests, crashes, unknowns>>
vars == <<orderVars, moneyVars, pc, on, saw, pollVars, boundVars>>

Procs == Orders \cup Admins \cup {Poller}

Statuses == {"PENDING", "PROCESSING", "COMPLETED", "FAILED", "CANCELED",
             "PARTIAL", "MANUAL_REVIEW"}
Steps == {"start", "calling", "partialWrite", "claim", "pay", "undo",
          "refundFull", "refundPart", "apply", "review", "debit", "save", "idle"}

TypeOK ==
    /\ status \in [Orders -> Statuses]
    /\ refunded \in [Orders -> BOOLEAN]
    /\ placed \in [Orders -> BOOLEAN]
    /\ uncertain \in [Orders -> BOOLEAN]
    /\ retry \in [Orders -> Nat]
    /\ remains \in [Orders -> Nat]
    /\ debits \in [Orders -> Nat]
    /\ refunds \in [Orders -> Nat]
    /\ returned \in [Orders -> Nat]
    /\ pc \in [Procs -> Steps]
    /\ on \in [Procs -> Orders \cup {Poller}]
    /\ \A p \in Procs : pc[p] # "idle" => on[p] \in Orders
    /\ saw \in [Admins -> BOOLEAN]
    /\ phase \in {"uncertain", "main"}
    /\ batch \in SUBSET Orders
    /\ snap \in [Orders -> Nat]
    /\ requests \in Nat
    /\ crashes \in Nat
    /\ unknowns \in [Orders -> Nat]

(***************************************************************************)
(* createOrder leaves an automatic order PROCESSING with its execution     *)
(* scheduled, a manual one PENDING.  on[p] = Poller stands for "none".     *)
(***************************************************************************)
Init ==
    /\ status \in [Orders -> {"PROCESSING", "PENDING"}]
    /\ refunded = [o \in Orders |-> FALSE]
    /\ placed = [o \in Orders |-> FALSE]
    /\ uncertain = [o \in Orders |-> FALSE]
    /\ retry = [o \in Orders |-> 0]
    /\ remains = [o \in Orders |-> 0]
    /\ debits = [o \in Orders |-> 1]
    /\ refunds = [o \in Orders |-> 0]
    /\ returned = [o \in Orders |-> 0]
    /\ pc = [p \in Procs |-> IF p \in Orders /\ status[p] = "PROCESSING"
                             THEN "start" ELSE "idle"]
    /\ on = [p \in Procs |-> IF p \in Orders THEN p ELSE Poller]
    /\ saw = [a \in Admins |-> FALSE]
    /\ phase = "main"
    /\ batch = {}
    /\ snap = [o \in Orders |-> 0]
    /\ requests = 0
    /\ crashes = 0
    /\ unknowns = [o \in Orders |-> 0]

Goto(p, step) == pc' = [pc EXCEPT ![p] = step]
Set(f, o, v) == [f EXCEPT ![o] = v]

IsQuota(o) == Charge[o] = 0

(***************************************************************************)
(* executeOrder                                                            *)
(***************************************************************************)

\* The order is read; only a PROCESSING order goes on to the provider.
ExecuteOrder(o) ==
    /\ pc[o] = "start"
    /\ Goto(o, IF status[o] = "PROCESSING" THEN "calling" ELSE "idle")
    /\ UNCHANGED <<orderVars, moneyVars, on, saw, pollVars, boundVars>>

\* Resolution failure, rejection, a result mapped to FAILED, or the guard
\* around the whole function.  The write has no condition on the status.
ExecuteFailed(o) ==
    /\ pc[o] = "calling"
    /\ status' = Set(status, o, "FAILED")
    /\ \E id \in BOOLEAN : placed' = Set(placed, o, id)
    /\ Goto(o, "claim")
    /\ UNCHANGED <<refunded, uncertain, retry, remains, moneyVars, on, saw,
                   pollVars, boundVars>>

\* Accepted and queued: the provider's id is saved for the poll.
ExecutePending(o) ==
    /\ pc[o] = "calling"
    /\ placed' = Set(placed, o, TRUE)
    /\ Goto(o, "idle")
    /\ UNCHANGED <<status, refunded, uncertain, retry, remains, moneyVars, on,
                   saw, pollVars, boundVars>>

\* No answer: a network error is stored as 'Pending' without a provider id;
\* the canonical adapter stores 'PLACEMENT_UNCERTAIN' instead.
ExecuteTransient(o) ==
    /\ "transient" \in Faults
    /\ pc[o] = "calling"
    /\ placed' = Set(placed, o, FALSE)
    /\ \E canonical \in BOOLEAN : uncertain' = Set(uncertain, o, canonical)
    /\ Goto(o, "idle")
    /\ UNCHANGED <<status, refunded, retry, remains, moneyVars, on, saw,
                   pollVars, boundVars>>

ExecuteCanceled(o) ==
    /\ pc[o] = "calling"
    /\ status' = Set(status, o, "CANCELED")
    /\ placed' = Set(placed, o, TRUE)
    /\ Goto(o, "claim")
    /\ UNCHANGED <<refunded, uncertain, retry, remains, moneyVars, on, saw,
                   pollVars, boundVars>>

\* The id is saved and the updated document handed to
\* processOrderStatusResult, which skips it unless it is PROCESSING.
ExecutePartial(o) ==
    /\ pc[o] = "calling"
    /\ placed' = Set(placed, o, TRUE)
    /\ Goto(o, IF status[o] = "PROCESSING" THEN "partialWrite" ELSE "idle")
    /\ UNCHANGED <<status, refunded, uncertain, retry, remains, moneyVars, on,
                   saw, pollVars, boundVars>>

ExecutePartialWrite(o) ==
    /\ pc[o] = "partialWrite"
    /\ status' = Set(status, o, "PARTIAL")
    /\ \E r \in 0..Quantity[o] : remains' = Set(remains, o, r)
    /\ Goto(o, "refundPart")
    /\ UNCHANGED <<refunded, placed, uncertain, retry, moneyVars, on, saw,
                   pollVars, boundVars>>

ExecuteCompleted(o) ==
    /\ pc[o] = "calling"
    /\ status' = Set(status, o, "COMPLETED")
    /\ placed' = Set(placed, o, TRUE)
    /\ Goto(o, "idle")
    /\ UNCHANGED <<refunded, uncertain, retry, remains, moneyVars, on, saw,
                   pollVars, boundVars>>

ExecuteAnswer(o) ==
    \/ ExecuteFailed(o)
    \/ ExecutePending(o)
    \/ ExecuteTransient(o)
    \/ ExecuteCanceled(o)
    \/ ExecutePartial(o)
    \/ ExecuteCompleted(o)

(***************************************************************************)
(* refundFailedOrder, called by executeOrder and by the poll: the flag is  *)
(* claimed by a committed compare-and-swap, the money follows in a         *)
(* transaction of its own, and any error takes the flag back.              *)
(***************************************************************************)
MutRefundClaim(p) == \* Mutant: the claim no longer compares the flag.
    /\ pc[p] = "claim"
    /\ Goto(p, "pay") /\ refunded' = Set(refunded, on[p], TRUE)
    /\ UNCHANGED <<status, placed, uncertain, retry, remains, moneyVars, on, saw,
                   pollVars, boundVars>>

RefundClaim(p) ==
    /\ pc[p] = "claim"
    /\ IF refunded[on[p]]
       THEN Goto(p, "idle") /\ UNCHANGED refunded
       ELSE Goto(p, "pay") /\ refunded' = Set(refunded, on[p], TRUE)
    /\ UNCHANGED <<status, placed, uncertain, retry, remains, moneyVars, on, saw,
                   pollVars, boundVars>>

\* refundWalletAtomic (or the quota decrement) of the amount o was charged.
GiveBack(o, amount) ==
    /\ refunds' = Set(refunds, o, refunds[o] + 1)
    /\ returned' = Set(returned, o, returned[o] + amount)
    /\ UNCHANGED debits

RefundPay(p) ==
    /\ pc[p] = "pay"
    /\ GiveBack(on[p], Charge[on[p]])
    /\ Goto(p, "idle")
    /\ UNCHANGED <<orderVars, on, saw, pollVars, boundVars>>

\* The transaction aborts, or a quota order's group is not quantity_only.
RefundPayFails(p) ==
    /\ pc[p] = "pay"
    /\ "walletError" \in Faults
    /\ Goto(p, "undo")
    /\ UNCHANGED <<orderVars, moneyVars, on, saw, pollVars, boundVars>>

\* commitTransaction reports an error for a commit that did take effect.
RefundPayUnknown(p) ==
    /\ "commitUnknown" \in Faults
    /\ pc[p] = "pay"
    /\ unknowns[on[p]] < MaxFaults
    /\ unknowns' = Set(unknowns, on[p], unknowns[on[p]] + 1)
    /\ GiveBack(on[p], Charge[on[p]])
    /\ Goto(p, "undo")
    /\ UNCHANGED <<orderVars, on, saw, pollVars, requests, crashes>>

MutRefundUndo(p) == \* Mutant: a failed payment leaves the flag set.
    /\ pc[p] = "undo"
    /\ Goto(p, "idle")
    /\ UNCHANGED <<orderVars, moneyVars, on, saw, pollVars, boundVars>>

RefundUndo(p) ==
    /\ pc[p] = "undo"
    /\ refunded' = Set(refunded, on[p], FALSE)
    /\ Goto(p, "idle")
    /\ UNCHANGED <<status, placed, uncertain, retry, remains, moneyVars, on, saw,
                   pollVars, boundVars>>

(***************************************************************************)
(* processOrderRefund(order, remains): one transaction for flag and money. *)
(* A missing remains count is 0 and means a full refund.                   *)
(***************************************************************************)
MutRefundAmount(o, r) == \* Mutant: chargedAmount taken for a unit price.
    IF 0 < r THEN r * Charge[o] ELSE Charge[o]

RefundAmount(o, r) ==
    IF 0 < r /\ r < Quantity[o] THEN (r * Charge[o]) \div Quantity[o]
                                ELSE Charge[o]

AskedRemains(p) == IF pc[p] = "refundPart" THEN remains[on[p]] ELSE 0

ProcessOrderRefund(p) ==
    /\ pc[p] \in {"refundFull", "refundPart"}
    /\ ~refunded[on[p]]
    /\ RefundAmount(on[p], AskedRemains(p)) > 0
    /\ refunded' = Set(refunded, on[p], TRUE)
    /\ GiveBack(on[p], RefundAmount(on[p], AskedRemains(p)))
    /\ Goto(p, "idle")
    /\ UNCHANGED <<status, placed, uncertain, retry, remains, on, saw, pollVars,
                   boundVars>>

\* Already refunded, nothing to pay (every quota order), or an aborted
\* transaction: the caller logs the error and carries on.
ProcessOrderRefundThrows(p) ==
    /\ pc[p] \in {"refundFull", "refundPart"}
    /\ \/ refunded[on[p]]
       \/ RefundAmount(on[p], AskedRemains(p)) <= 0
       \/ "walletError" \in Faults
    /\ Goto(p, "idle")
    /\ UNCHANGED <<orderVars, moneyVars, on, saw, pollVars, boundVars>>

(***************************************************************************)
(* pollProcessingOrders, at most one run at a time.  First the canonical   *)
(* orders whose placement is unknown, then every placed PROCESSING order,  *)
(* as the documents were when the query ran.                               *)
(***************************************************************************)
PollFree == pc[Poller] = "idle" /\ batch = {}

PollBegin ==
    /\ PollFree /\ phase = "main"
    /\ phase' = "uncertain"
    /\ batch' = {o \in Orders : /\ status[o] = "PROCESSING"
                                /\ uncertain[o] /\ ~placed[o]}
    /\ UNCHANGED <<orderVars, moneyVars, pc, on, saw, snap, boundVars>>

PollFind ==
    /\ PollFree /\ phase = "uncertain"
    /\ phase' = "main"
    /\ batch' = {o \in Orders : status[o] = "PROCESSING" /\ placed[o]}
    /\ snap' = retry
    /\ UNCHANGED <<orderVars, moneyVars, pc, on, saw, boundVars>>

Visiting(o, ph) == phase = ph /\ pc[Poller] = "idle" /\ o \in batch

\* The exhausted orders are moved away before a provider is asked.
Healthy == \A o \in batch : snap[o] < MaxRetry

MutPollRecovered(o) == \* Mutant: { new: true } missing, a stale count is used.
    /\ Visiting(o, "uncertain")
    /\ batch' = batch \ {o}
    /\ placed' = Set(placed, o, TRUE)
    /\ uncertain' = Set(uncertain, o, FALSE)
    /\ on' = Set(on, Poller, o)
    /\ Goto(Poller, IF status[o] = "PROCESSING" THEN "apply" ELSE "idle")
    /\ UNCHANGED <<status, refunded, retry, remains, moneyVars, saw, phase, snap,
                   boundVars>>

\* The lookup by orderNumber found the order upstream: its id is saved and
\* the updated document processed like a polled one.
PollRecovered(o) ==
    /\ Visiting(o, "uncertain")
    /\ batch' = batch \ {o}
    /\ placed' = Set(placed, o, TRUE)
    /\ uncertain' = Set(uncertain, o, FALSE)
    /\ snap' = Set(snap, o, retry[o])
    /\ on' = Set(on, Poller, o)
    /\ Goto(Poller, IF status[o] = "PROCESSING" THEN "apply" ELSE "idle")
    /\ UNCHANGED <<status, refunded, retry, remains, moneyVars, saw, phase,
                   boundVars>>

MutPollNotFound(o) == \* Mutant: > instead of >= at the limit.
    /\ Visiting(o, "uncertain")
    /\ batch' = batch \ {o}
    /\ retry' = Set(retry, o, retry[o] + 1)
    /\ on' = Set(on, Poller, o)
    /\ Goto(Poller, IF retry[o] + 1 > MaxRetry THEN "review" ELSE "idle")
    /\ UNCHANGED <<status, refunded, placed, uncertain, remains, moneyVars, saw,
                   phase, snap, boundVars>>

\* Not found: the attempt is counted; at the limit a second write follows.
PollNotFound(o) ==
    /\ Visiting(o, "uncertain")
    /\ batch' = batch \ {o}
    /\ retry' = Set(retry, o, retry[o] + 1)
    /\ on' = Set(on, Poller, o)
    /\ Goto(Poller, IF retry[o] + 1 >= MaxRetry THEN "review" ELSE "idle")
    /\ UNCHANGED <<status, refunded, placed, uncertain, remains, moneyVars, saw,
                   phase, snap, boundVars>>

PollReview(o) ==
    /\ pc[Poller] = "review" /\ on[Poller] = o
    /\ status' = Set(status, o, "MANUAL_REVIEW")
    /\ Goto(Poller, "idle")
    /\ UNCHANGED <<refunded, placed, uncertain, retry, remains, moneyVars, on,
                   saw, pollVars, boundVars>>

\* No answer for this order in this run (lookup or batch error, or the batch
\* response does not mention it): it is left as it is.
PollSkip(o) ==
    /\ \E ph \in {"uncertain", "main"} : Visiting(o, ph)
    /\ phase = "main" => Healthy
    /\ batch' = batch \ {o}
    /\ UNCHANGED <<orderVars, moneyVars, pc, on, saw, phase, snap, boundVars>>

\* The dead-letter kill switch, before any provider is asked.
PollExhausted(o) ==
    /\ Visiting(o, "main") /\ snap[o] >= MaxRetry
    /\ batch' = batch \ {o}
    /\ status' = Set(status, o, "MANUAL_REVIEW")
    /\ UNCHANGED <<refunded, placed, uncertain, retry, remains, moneyVars, pc,
                   on, saw, phase, snap, boundVars>>

\* The provider is gone or its adapter unsupported: moveOrdersToManualReview.
PollUnresolvable(o) ==
    /\ Visiting(o, "main") /\ Healthy
    /\ batch' = batch \ {o}
    /\ status' = IF status[o] = "PROCESSING" THEN Set(status, o, "MANUAL_REVIEW")
                                             ELSE status
    /\ UNCHANGED <<refunded, placed, uncertain, retry, remains, moneyVars, pc,
                   on, saw, phase, snap, boundVars>>

(***************************************************************************)
(* processOrderStatusResult: the status it tests is the loaded document's, *)
(* which was PROCESSING; its writes carry no condition.                    *)
(***************************************************************************)
Applying(o) ==
    \/ Visiting(o, "main") /\ Healthy
    \/ pc[Poller] = "apply" /\ on[Poller] = o

Applied(o, next) ==
    /\ Applying(o)
    /\ batch' = batch \ {o}
    /\ on' = Set(on, Poller, o)
    /\ Goto(Poller, next)
    /\ UNCHANGED <<refunded, placed, uncertain, moneyVars, saw, phase, snap,
                   boundVars>>

MutResultPending(o) == \* Mutant: the attempt is not counted.
    /\ snap[o] + 1 < MaxRetry
    /\ Applied(o, "idle")
    /\ UNCHANGED <<retry, status, remains>>

ResultPending(o) ==
    /\ snap[o] + 1 < MaxRetry
    /\ Applied(o, "idle")
    /\ retry' = Set(retry, o, snap[o] + 1)
    /\ UNCHANGED <<status, remains>>

ResultRetryLimit(o) ==
    /\ snap[o] + 1 >= MaxRetry
    /\ Applied(o, "claim")
    /\ status' = Set(status, o, "FAILED")
    /\ retry' = Set(retry, o, snap[o] + 1)
    /\ UNCHANGED remains

ResultCompleted(o) ==
    /\ Applied(o, "idle")
    /\ status' = Set(status, o, "COMPLETED")
    /\ UNCHANGED <<retry, remains>>

ResultPartial(o) ==
    /\ Applied(o, "refundPart")
    /\ status' = Set(status, o, "PARTIAL")
    /\ \E r \in 0..Quantity[o] : remains' = Set(remains, o, r)
    /\ UNCHANGED retry

ResultCanceled(o) ==
    /\ Applied(o, "refundFull")
    /\ status' = Set(status, o, "CANCELED")
    /\ UNCHANGED <<retry, remains>>

MutResultFailed(o) == \* Mutant: the refund call is missing.
    /\ Applied(o, "idle")
    /\ status' = Set(status, o, "FAILED")
    /\ UNCHANGED <<retry, remains>>

ResultFailed(o) ==
    /\ Applied(o, "claim")
    /\ status' = Set(status, o, "FAILED")
    /\ UNCHANGED <<retry, remains>>

ProcessOrderStatusResult(o) ==
    \/ ResultPending(o)
    \/ ResultRetryLimit(o)
    \/ ResultCompleted(o)
    \/ ResultPartial(o)
    \/ ResultCanceled(o)
    \/ ResultFailed(o)

(***************************************************************************)
(* Administrator requests                                                  *)
(***************************************************************************)
Request(a) ==
    /\ pc[a] = "idle"
    /\ requests < MaxRequests
    /\ requests' = requests + 1
    /\ UNCHANGED <<crashes, unknowns>>

\* markOrderAsFailed, directly or through refundOrder: one transaction.
MarkOrderAsFailed(a, o) ==
    /\ Request(a)
    /\ status[o] # "FAILED"
    /\ ~refunded[o]
    /\ status' = Set(status, o, "FAILED")
    /\ refunded' = Set(refunded, o, TRUE)
    /\ GiveBack(o, Charge[o])
    /\ UNCHANGED <<placed, uncertain, retry, remains, pc, on, saw, pollVars>>

MutMarkOrderAsCompleted(a, o) == \* Mutant: the loaded order is dropped.
    /\ Request(a)
    /\ status[o] = "PENDING"
    /\ saw' = Set(saw, a, FALSE)
    /\ Goto(a, "save")
    /\ UNCHANGED <<orderVars, moneyVars, on, pollVars>>

\* markOrderAsCompleted reads a PENDING order and saves it later.
MarkOrderAsCompleted(a, o) ==
    /\ Request(a)
    /\ status[o] = "PENDING"
    /\ on' = Set(on, a, o)
    /\ saw' = Set(saw, a, FALSE)
    /\ Goto(a, "save")
    /\ UNCHANGED <<orderVars, moneyVars, pollVars>>

\* completeOrder reads the order; what it takes for a refunded one is
\* re-deducted before the save.
WasRefunded(o) == refunded[o] \/ status[o] \in {"FAILED", "PARTIAL", "CANCELED"}

CompleteOrder(a, o) ==
    /\ Request(a)
    /\ status[o] # "COMPLETED"
    /\ on' = Set(on, a, o)
    /\ saw' = Set(saw, a, refunded[o])
    /\ Goto(a, IF WasRefunded(o) THEN "debit" ELSE "save")
    /\ UNCHANGED <<orderVars, moneyVars, pollVars>>

\* forcedDebitWallet of the whole charge; a quota order has none.
CompleteDebit(a) ==
    /\ pc[a] = "debit"
    /\ debits' = IF IsQuota(on[a]) THEN debits
                                   ELSE Set(debits, on[a], debits[on[a]] + 1)
    /\ Goto(a, "save")
    /\ UNCHANGED <<orderVars, refunds, returned, on, saw, pollVars, boundVars>>

CompleteDebitThrows(a) ==
    /\ "walletError" \in Faults
    /\ pc[a] = "debit"
    /\ ~IsQuota(on[a])
    /\ Goto(a, "idle")
    /\ UNCHANGED <<orderVars, moneyVars, on, saw, pollVars, boundVars>>

\* order.save() writes the fields that differ from what was read.
CompleteSave(a) ==
    /\ pc[a] = "save"
    /\ status' = Set(status, on[a], "COMPLETED")
    /\ refunded' = IF saw[a] THEN Set(refunded, on[a], FALSE) ELSE refunded
    /\ Goto(a, "idle")
    /\ UNCHANGED <<placed, uncertain, retry, remains, moneyVars, on, saw,
                   pollVars, boundVars>>

(***************************************************************************)
(* The process dies: every handler in flight is gone and nothing at start  *)
(* up resumes it.  Only the database survives.                             *)
(***************************************************************************)
Crash ==
    /\ "crash" \in Faults
    /\ crashes < MaxFaults
    /\ crashes' = crashes + 1
    /\ pc' = [p \in Procs |-> "idle"]
    /\ phase' = "main"
    /\ batch' = {}
    /\ UNCHANGED <<orderVars, moneyVars, on, saw, snap, requests, unknowns>>

(***************************************************************************)
(* Specification                                                           *)
(***************************************************************************)
Execute(o) ==
    \/ ExecuteOrder(o)
    \/ ExecuteAnswer(o)
    \/ ExecutePartialWrite(o)

Refund(p) ==
    \/ RefundClaim(p)
    \/ RefundPay(p)
    \/ RefundPayFails(p)
    \/ RefundPayUnknown(p)
    \/ RefundUndo(p)
    \/ ProcessOrderRefund(p)
    \/ ProcessOrderRefundThrows(p)

PollOrder(o) ==
    \/ PollRecovered(o)
    \/ PollNotFound(o)
    \/ PollReview(o)
    \/ PollSkip(o)
    \/ PollExhausted(o)
    \/ PollUnresolvable(o)
    \/ ProcessOrderStatusResult(o)

Poll == PollBegin \/ PollFind \/ \E o \in Orders : PollOrder(o)

Admin(a) ==
    \/ \E o \in Orders : \/ MarkOrderAsFailed(a, o)
                         \/ MarkOrderAsCompleted(a, o)
                         \/ CompleteOrder(a, o)
    \/ CompleteDebit(a)
    \/ CompleteDebitThrows(a)
    \/ CompleteSave(a)

Next ==
    \/ \E o \in Orders : Execute(o)
    \/ \E p \in Procs : Refund(p)
    \/ Poll
    \/ \E a \in Admins : Admin(a)
    \/ Crash

Spec == Init /\ [][Next]_vars

\* The process keeps running its handlers and its cron job ...
RunningFairness ==
    /\ \A o \in Orders : WF_vars(Execute(o))
    /\ \A p \in Procs : WF_vars(Refund(p))
    /\ WF_vars(Poll)

\* ... and a provider asked about an order again and again answers at last.
AnswerFairness ==
    \A o \in Orders : /\ SF_vars(ProcessOrderStatusResult(o))
                      /\ SF_vars(PollRecovered(o) \/ PollNotFound(o))

OfflineSpec == Spec /\ RunningFairness
FairSpec == Spec /\ RunningFairness /\ AnswerFairness

(***************************************************************************)
(* Properties                                                              *)
(***************************************************************************)

\* The handlers that have claimed the refund of o and not yet settled it, and
\* the completions about to clear a flag whose money they took again.
Paying(o) == {p \in Procs : on[p] = o /\ pc[p] \in {"pay", "undo"}}
Clearing(o) == {a \in Admins : on[a] = o /\ pc[a] = "save" /\ saw[a]}

\* An order is never refunded more often than it was charged, whatever the
\* poll, executeOrder and administrators do at once, through any number of
\* forced completions and crashes: only a commit of refundFailedOrder whose
\* outcome was reported wrongly adds a refund, and each at most one.
NeverOverRefunded ==
    \A o \in Orders : ~IsQuota(o) => refunds[o] <= debits[o] + unknowns[o]

\* The same in money: partial refunds (remains / quantity, rounded down)
\* included, an order never returns more than was taken for it.
NeverOverReturned ==
    \A o \in Orders :
        returned[o] <= (debits[o] + unknowns[o]) * Charge[o]

\* refunded = true means that money went back or that a handler is about to
\* send it; only a crash between refundFailedOrder's two writes breaks this.
RefundedMeansPaid ==
    \A o \in Orders :
        refunded[o] /\ refunds[o] = 0 => Paying(o) # {} \/ crashes > 0

\* The retry counter stops at MAX_RETRY_COUNT, although two parts of the poll
\* write it from different reads; each crash between counting and moving the
\* order to manual review allows one count more.
RetryBounded == \A o \in Orders : retry[o] <= MaxRetry + crashes

\* Every result is counted from the retry count the database holds, so no
\* increment is lost: the poll never overlaps itself, and a recovered order is
\* processed as the update returned it.
RetryFresh == \A o \in Orders : Applying(o) => snap[o] = retry[o]

\* The inductive form of NeverOverRefunded: every unsettled claim and every
\* cleared flag still to come is covered by a charge.
Covered(o) ==
    refunds[o] + (IF refunded[o] THEN 0 ELSE 1)
        + Cardinality(Paying(o)) + Cardinality(Clearing(o))
    <= debits[o] + unknowns[o]

AllCovered == \A o \in Orders : ~IsQuota(o) => Covered(o)

\* A completed order that no handler is working on has kept its charge: the
\* comment on the completed branch says it needs no refund.
CompletedIsPaid ==
    \A o \in Orders :
        status[o] = "COMPLETED" /\ (\A p \in Procs : on[p] = o => pc[p] = "idle")
        => ~refunded[o]

\* Quota is given back at most as often as it was taken.
QuotaReturnedOnce ==
    \A o \in Orders : IsQuota(o) => refunds[o] <= debits[o] + unknowns[o]

\* A failed or canceled order gets its refund (processOrderRefund refuses
\* canceled quota orders), unless an administrator completes it.
OwedRefundIsPaid ==
    \A o \in Orders :
        /\ ~refunded[o]
        /\ status[o] = "FAILED" \/ (status[o] = "CANCELED" /\ ~IsQuota(o))
        ~> refunded[o] \/ status[o] \notin {"FAILED", "CANCELED"}

\* Every order the cron job can ask about leaves PROCESSING: it settles, is
\* failed at the retry limit, or goes to manual review.
PolledSettles ==
    \A o \in Orders :
        status[o] = "PROCESSING" /\ (placed[o] \/ uncertain[o])
        ~> status[o] # "PROCESSING"
================================================================================
