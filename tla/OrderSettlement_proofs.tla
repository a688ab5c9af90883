------------------------ MODULE OrderSettlement_proofs -------------------------
(***************************************************************************)
(* What is proved about OrderSettlement for every set of orders, every     *)
(* number of administrators, every charge, quantity and retry limit, and   *)
(* all faults: type correctness; that no order returns more, in refunds or *)
(* in money, than was taken for it; that only a forced completion makes a  *)
(* quota come back twice; that a set refund flag is backed by a refund;    *)
(* that the retry counter stays bounded and is never stale.                *)
(***************************************************************************)
EXTENDS OrderSettlement, FiniteSetTheorems, TLAPS

USE DEF Procs, Statuses, Steps, Goto, Set, orderVars, moneyVars, pollVars,
        boundVars

(***************************************************************************)
(* Type correctness                                                        *)
(***************************************************************************)
LEMMA InitTypeOK == Init => TypeOK
BY OrdersAssumption DEF Init, TypeOK

LEMMA ExecuteTypeOK ==
    ASSUME TypeOK, NEW o \in Orders, Execute(o)
    PROVE  TypeOK'
<1> USE NumbersAssumption DEF TypeOK
<1>1. CASE ExecuteOrder(o)
  BY <1>1 DEF ExecuteOrder
<1>2. CASE ExecuteAnswer(o)
  <2>1. CASE ExecuteFailed(o)
    BY <2>1 DEF ExecuteFailed
  <2>2. CASE ExecutePending(o)
    BY <2>2 DEF ExecutePending
  <2>3. CASE ExecuteTransient(o)
    BY <2>3 DEF ExecuteTransient
  <2>4. CASE ExecuteCanceled(o)
    BY <2>4 DEF ExecuteCanceled
  <2>5. CASE ExecutePartial(o)
    BY <2>5 DEF ExecutePartial
  <2>6. CASE ExecuteCompleted(o)
    BY <2>6 DEF ExecuteCompleted
  <2> QED
    BY <1>2, <2>1, <2>2, <2>3, <2>4, <2>5, <2>6 DEF ExecuteAnswer
<1>3. CASE ExecutePartialWrite(o)
  BY <1>3 DEF ExecutePartialWrite
<1> QED
  BY <1>1, <1>2, <1>3 DEF Execute

\* A partial refund is a whole number of at most the charge.
LEMMA RefundAmountType ==
    ASSUME NEW o \in Orders, NEW r \in Nat
    PROVE  RefundAmount(o, r) \in Nat
<1> DEFINE c == Charge[o]
           q == Quantity[o]
<1>1. c \in Nat /\ q \in Nat \ {0}
  BY NumbersAssumption
<1>2. CASE 0 < r /\ r < q
  <2>1. r * c \in Nat
    BY <1>1
  <2>2. (r * c) \div q \in Nat
    BY <1>1, <2>1
  <2> QED
    BY <1>2, <2>2 DEF RefundAmount
<1>3. CASE ~(0 < r /\ r < q)
  BY <1>1, <1>3 DEF RefundAmount
<1> QED
  BY <1>2, <1>3

LEMMA RefundTypeOK ==
    ASSUME TypeOK, NEW p \in Procs, Refund(p)
    PROVE  TypeOK'
<1> USE NumbersAssumption DEF TypeOK
<1>1. CASE RefundClaim(p)
  <2>1. on[p] \in Orders
    BY <1>1 DEF RefundClaim
  <2>2. CASE refunded[on[p]]
    BY <1>1, <2>2 DEF RefundClaim
  <2>3. CASE ~refunded[on[p]]
    <3>1. /\ pc' = [pc EXCEPT ![p] = "pay"] /\ refunded' = [refunded EXCEPT ![on[p]] = TRUE]
          /\ UNCHANGED <<status, placed, uncertain, retry, remains, moneyVars, on, saw,
                         pollVars, boundVars>>
      BY <1>1, <2>3 DEF RefundClaim
    <3>2. pc' \in [Procs -> Steps] /\ refunded' \in [Orders -> BOOLEAN]
      BY <2>1, <3>1
    <3> QED
      BY <2>1, <3>1, <3>2
  <2> QED
    BY <2>2, <2>3
<1>2. CASE RefundPay(p)
  BY <1>2 DEF RefundPay, GiveBack
<1>3. CASE RefundPayFails(p)
  BY <1>3 DEF RefundPayFails
<1>4. CASE RefundPayUnknown(p)
  BY <1>4 DEF RefundPayUnknown, GiveBack
<1>5. CASE RefundUndo(p)
  BY <1>5 DEF RefundUndo
<1>6. CASE ProcessOrderRefund(p)
  <2>1. on[p] \in Orders /\ AskedRemains(p) \in Nat
    BY <1>6 DEF ProcessOrderRefund, AskedRemains
  <2>2. RefundAmount(on[p], AskedRemains(p)) \in Nat
    BY <2>1, RefundAmountType
  <2> QED
    BY <1>6, <2>1, <2>2 DEF ProcessOrderRefund, GiveBack
<1>7. CASE ProcessOrderRefundThrows(p)
  BY <1>7 DEF ProcessOrderRefundThrows
<1> QED
  BY <1>1, <1>2, <1>3, <1>4, <1>5, <1>6, <1>7 DEF Refund

LEMMA ResultTypeOK ==
    ASSUME TypeOK, NEW o \in Orders, ProcessOrderStatusResult(o)
    PROVE  TypeOK'
<1> USE NumbersAssumption DEF TypeOK, Applied
<1>1. CASE ResultPending(o)
  BY <1>1 DEF ResultPending
<1>2. CASE ResultRetryLimit(o)
  BY <1>2 DEF ResultRetryLimit
<1>3. CASE ResultCompleted(o)
  BY <1>3 DEF ResultCompleted
<1>4. CASE ResultPartial(o)
  BY <1>4 DEF ResultPartial
<1>5. CASE ResultCanceled(o)
  BY <1>5 DEF ResultCanceled
<1>6. CASE ResultFailed(o)
  BY <1>6 DEF ResultFailed
<1> QED
  BY <1>1, <1>2, <1>3, <1>4, <1>5, <1>6 DEF ProcessOrderStatusResult

LEMMA PollTypeOK ==
    ASSUME TypeOK, Poll
    PROVE  TypeOK'
<1> USE NumbersAssumption DEF TypeOK
<1>1. CASE PollBegin
  BY <1>1 DEF PollBegin, PollFree
<1>2. CASE PollFind
  BY <1>2 DEF PollFind, PollFree
<1>3. ASSUME NEW o \in Orders, PollOrder(o)
      PROVE  TypeOK'
  <2>1. CASE PollRecovered(o)
    BY <2>1 DEF PollRecovered, Visiting
  <2>2. CASE PollNotFound(o)
    BY <2>2 DEF PollNotFound, Visiting
  <2>3. CASE PollReview(o)
    BY <2>3 DEF PollReview
  <2>4. CASE PollSkip(o)
    BY <2>4 DEF PollSkip, Visiting
  <2>5. CASE PollExhausted(o)
    BY <2>5 DEF PollExhausted, Visiting
  <2>6. CASE PollUnresolvable(o)
    BY <2>6 DEF PollUnresolvable, Visiting
  <2>7. CASE ProcessOrderStatusResult(o)
    BY <2>7, ResultTypeOK
  <2> QED
    BY <1>3, <2>1, <2>2, <2>3, <2>4, <2>5, <2>6, <2>7 DEF PollOrder
<1> QED
  BY <1>1, <1>2, <1>3 DEF Poll

LEMMA AdminTypeOK ==
    ASSUME TypeOK, NEW a \in Admins, Admin(a)
    PROVE  TypeOK'
<1> USE NumbersAssumption, OrdersAssumption DEF TypeOK, Request
<1>1. ASSUME NEW o \in Orders, MarkOrderAsFailed(a, o)
      PROVE  TypeOK'
  BY <1>1 DEF MarkOrderAsFailed, GiveBack
<1>2. ASSUME NEW o \in Orders, MarkOrderAsCompleted(a, o)
      PROVE  TypeOK'
  BY <1>2 DEF MarkOrderAsCompleted
<1>3. ASSUME NEW o \in Orders, CompleteOrder(a, o)
      PROVE  TypeOK'
  BY <1>3 DEF CompleteOrder
<1>4. CASE CompleteDebit(a)
  BY <1>4 DEF CompleteDebit
<1>5. CASE CompleteDebitThrows(a)
  BY <1>5 DEF CompleteDebitThrows
<1>6. CASE CompleteSave(a)
  BY <1>6 DEF CompleteSave
<1> QED
  BY <1>1, <1>2, <1>3, <1>4, <1>5, <1>6 DEF Admin

LEMMA NextTypeOK == TypeOK /\ [Next]_vars => TypeOK'
<1> SUFFICES ASSUME TypeOK, [Next]_vars PROVE TypeOK'
  OBVIOUS
<1>1. CASE Crash
  BY <1>1 DEF Crash, TypeOK
<1>2. CASE UNCHANGED vars
  BY <1>2 DEF vars, TypeOK
<1> QED
  BY <1>1, <1>2, ExecuteTypeOK, RefundTypeOK, PollTypeOK, AdminTypeOK DEF Next

\* Every variable keeps its type, whatever the handlers, faults and crashes do.
THEOREM TypeCorrect == Spec => []TypeOK
<1>1. Init => TypeOK
  BY InitTypeOK
<1>2. TypeOK /\ [Next]_vars => TypeOK'
  BY NextTypeOK
<1> QED
  BY <1>1, <1>2, PTL DEF Spec

(***************************************************************************)
(* No order is refunded more often than it was charged                     *)
(*                                                                         *)
(* The invariant counts, beside the refunds made, everything that can      *)
(* still turn into one: a flag that is down, a claim not yet settled, a    *)
(* completion about to put the flag down.  A step that uses one of them up *)
(* makes at most one refund or one other of them.                          *)
(***************************************************************************)
LEMMA ProcsFinite == IsFiniteSet(Procs)
BY OrdersAssumption, FS_Union, FS_Singleton

LEMMA HoldersFinite ==
    ASSUME NEW o \in Orders
    PROVE  /\ IsFiniteSet(Paying(o)) /\ Cardinality(Paying(o)) \in Nat
           /\ IsFiniteSet(Clearing(o)) /\ Cardinality(Clearing(o)) \in Nat
<1>1. Paying(o) \subseteq Procs /\ Clearing(o) \subseteq Procs
  BY DEF Paying, Clearing
<1>2. IsFiniteSet(Paying(o)) /\ IsFiniteSet(Clearing(o))
  BY <1>1, ProcsFinite, FS_Subset
<1> QED
  BY <1>2, FS_CardinalityType

\* The orders of a set; a completion about to take their money again has some to take.
CoveredIn(S) == \A o \in S : Covered(o)
TakesMoney(S) == \A a \in Admins : pc[a] = "debit" /\ on[a] \in S => ~IsQuota(on[a])

Charged == {o \in Orders : ~IsQuota(o)}

LEMMA InitCovered == Init => \A o \in Orders : Covered(o)
<1> SUFFICES ASSUME Init, NEW o \in Orders PROVE Covered(o)
  OBVIOUS
<1>1. Paying(o) = {} /\ Clearing(o) = {}
  BY DEF Init, Paying, Clearing
<1>2. refunds[o] = 0 /\ debits[o] = 1 /\ unknowns[o] = 0 /\ ~refunded[o]
  BY DEF Init
<1> QED
  BY <1>1, <1>2, FS_EmptySet DEF Covered

\* A handler in one of these steps holds neither a claim nor a flag to clear.
Quiet == Steps \ {"pay", "undo", "save"}

\* A step of one handler from one quiet place to another changes no holder.
LEMMA QuietStep ==
    ASSUME TypeOK, TypeOK', NEW p \in Procs,
           pc[p] \in Quiet, pc'[p] \in Quiet,
           \A q \in Procs \ {p} : pc'[q] = pc[q] /\ on'[q] = on[q],
           \A a \in Admins \ {p} : saw'[a] = saw[a],
           NEW o \in Orders
    PROVE  Paying(o)' = Paying(o) /\ Clearing(o)' = Clearing(o)
BY DEF Quiet, Paying, Clearing

\* What does not touch the money, the flag or the holders preserves Covered.
LEMMA FrameCovered ==
    ASSUME NEW o \in Orders, Covered(o),
           Paying(o)' = Paying(o), Clearing(o)' = Clearing(o),
           refunds'[o] = refunds[o], debits'[o] = debits[o],
           unknowns'[o] = unknowns[o], refunded'[o] = refunded[o]
    PROVE  Covered(o)'
BY DEF Covered

\* A step between quiet places that leaves money and flag alone.
LEMMA QuietCovered ==
    ASSUME TypeOK, TypeOK', NEW S \in SUBSET Orders, CoveredIn(S), NEW p \in Procs,
           pc[p] \in Quiet, pc'[p] \in Quiet,
           \A q \in Procs \ {p} : pc'[q] = pc[q] /\ on'[q] = on[q],
           \A a \in Admins \ {p} : saw'[a] = saw[a],
           UNCHANGED <<refunds, debits, unknowns, refunded>>
    PROVE  CoveredIn(S)'
<1> SUFFICES ASSUME NEW o \in S PROVE Covered(o)'
  BY DEF CoveredIn
<1>1. Paying(o)' = Paying(o) /\ Clearing(o)' = Clearing(o)
  BY QuietStep
<1> QED
  BY <1>1, FrameCovered DEF CoveredIn

LEMMA ExecuteCovered ==
    ASSUME TypeOK, TypeOK', NEW S \in SUBSET Orders, CoveredIn(S), NEW o \in Orders, Execute(o)
    PROVE  CoveredIn(S)'
<1>1. pc[o] \in Quiet /\ pc'[o] \in Quiet
  BY DEF Execute, ExecuteOrder, ExecuteAnswer, ExecuteFailed, ExecutePending,
         ExecuteTransient, ExecuteCanceled, ExecutePartial, ExecuteCompleted,
         ExecutePartialWrite, Quiet, TypeOK
<1>2. /\ \A q \in Procs \ {o} : pc'[q] = pc[q]
      /\ UNCHANGED <<on, saw, refunds, debits, unknowns, refunded>>
  BY DEF Execute, ExecuteOrder, ExecuteAnswer, ExecuteFailed, ExecutePending,
         ExecuteTransient, ExecuteCanceled, ExecutePartial, ExecuteCompleted,
         ExecutePartialWrite, TypeOK
<1> QED
  BY <1>1, <1>2, QuietCovered

LEMMA PollCovered ==
    ASSUME TypeOK, TypeOK', NEW S \in SUBSET Orders, CoveredIn(S), Poll
    PROVE  CoveredIn(S)'
<1> DEFINE Acts(o) == Poll /\ PollOrder(o)
<1>1. pc[Poller] \in Quiet /\ pc'[Poller] \in Quiet
  BY DEF Poll, PollBegin, PollFind, PollFree, PollOrder, PollRecovered,
         PollNotFound, PollReview, PollSkip, PollExhausted, PollUnresolvable,
         ProcessOrderStatusResult, ResultPending, ResultRetryLimit,
         ResultCompleted, ResultPartial, ResultCanceled, ResultFailed, Applied,
         Applying, Visiting, Quiet, TypeOK
<1>2. /\ \A q \in Procs \ {Poller} : pc'[q] = pc[q] /\ on'[q] = on[q]
      /\ UNCHANGED <<saw, refunds, debits, unknowns, refunded>>
  BY DEF Poll, PollBegin, PollFind, PollOrder, PollRecovered,
         PollNotFound, PollReview, PollSkip, PollExhausted, PollUnresolvable,
         ProcessOrderStatusResult, ResultPending, ResultRetryLimit,
         ResultCompleted, ResultPartial, ResultCanceled, ResultFailed, Applied,
         TypeOK
<1> QED
  BY <1>1, <1>2, QuietCovered

\* A handler that stops holding a claim leaves the others as they were.
LEMMA Release ==
    ASSUME TypeOK, NEW p \in Procs, pc[p] \in {"pay", "undo"},
           UNCHANGED <<on, saw>>, pc' = [pc EXCEPT ![p] = "idle"]
    PROVE  /\ \A o \in Orders : Clearing(o)' = Clearing(o)
           /\ \A o \in Orders \ {on[p]} : Paying(o)' = Paying(o)
           /\ Cardinality(Paying(on[p])') = Cardinality(Paying(on[p])) - 1
<1>1. on[p] \in Orders /\ p \in Paying(on[p])
  BY DEF TypeOK, Paying
<1>2. Paying(on[p])' = Paying(on[p]) \ {p}
  BY DEF TypeOK, Paying
<1>3. Cardinality(Paying(on[p]) \ {p}) = Cardinality(Paying(on[p])) - 1
  BY <1>1, HoldersFinite, FS_RemoveElement
<1>4. \A o \in Orders : Clearing(o)' = Clearing(o)
  BY DEF TypeOK, Clearing
<1>5. \A o \in Orders \ {on[p]} : Paying(o)' = Paying(o)
  BY DEF TypeOK, Paying
<1> QED
  BY <1>2, <1>3, <1>4, <1>5

LEMMA RefundCovered ==
    ASSUME TypeOK, TypeOK', NEW S \in SUBSET Orders, CoveredIn(S), NEW p \in Procs, Refund(p)
    PROVE  CoveredIn(S)'
<1> DEFINE m == on[p]
<1>0. m \in Orders
  BY DEF TypeOK, Refund, RefundClaim, RefundPay, RefundPayFails,
         RefundPayUnknown, RefundUndo, ProcessOrderRefund,
         ProcessOrderRefundThrows
<1>1. CASE RefundClaim(p)
  <2>1. CASE refunded[m]
    <3>1. /\ pc[p] = "claim" /\ pc' = [pc EXCEPT ![p] = "idle"]
          /\ UNCHANGED <<on, saw, refunds, debits, unknowns, refunded>>
      BY <1>1, <2>1 DEF RefundClaim
    <3> QED
      BY <3>1, QuietCovered DEF Quiet, TypeOK
  <2>2. CASE ~refunded[m]
    <3>1. /\ pc[p] = "claim" /\ pc' = [pc EXCEPT ![p] = "pay"]
          /\ refunded' = [refunded EXCEPT ![m] = TRUE]
          /\ UNCHANGED <<on, saw, refunds, debits, unknowns>>
      BY <1>1, <2>2 DEF RefundClaim
    <3>2. \A o \in Orders : Clearing(o)' = Clearing(o)
      BY <3>1 DEF TypeOK, Clearing
    <3>3. \A o \in Orders \ {m} : Paying(o)' = Paying(o)
      BY <3>1 DEF TypeOK, Paying
    <3>4. Paying(m)' = Paying(m) \cup {p} /\ p \notin Paying(m)
      BY <3>1 DEF TypeOK, Paying
    <3>5. Cardinality(Paying(m)') = Cardinality(Paying(m)) + 1
      BY <1>0, <3>4, HoldersFinite, FS_AddElement
    <3> SUFFICES ASSUME NEW o \in S PROVE Covered(o)'
      BY DEF CoveredIn
    <3>6. CASE o = m
      <4>1. refunded'[o] /\ ~refunded[o]
        BY <2>2, <3>1, <3>6 DEF TypeOK
      <4> QED
        BY <3>1, <3>2, <3>5, <3>6, <4>1, HoldersFinite DEF CoveredIn, Covered, TypeOK
    <3>7. CASE o # m
      <4>1. Covered(o) /\ UNCHANGED <<refunds[o], debits[o], unknowns[o], refunded[o]>>
        BY <3>1, <3>7 DEF CoveredIn, TypeOK
      <4> QED
        BY <3>2, <3>3, <3>7, <4>1, FrameCovered
    <3> QED
      BY <3>6, <3>7
  <2> QED
    BY <2>1, <2>2
<1>2. CASE RefundPay(p)
  <2>1. /\ pc[p] = "pay" /\ pc' = [pc EXCEPT ![p] = "idle"]
        /\ refunds' = [refunds EXCEPT ![m] = refunds[m] + 1]
        /\ UNCHANGED <<on, saw, debits, unknowns, refunded>>
    BY <1>2 DEF RefundPay, GiveBack
  <2> SUFFICES ASSUME NEW o \in S PROVE Covered(o)'
    BY DEF CoveredIn
  <2>2. CASE o = m
    <3>1. /\ Cardinality(Paying(o)') = Cardinality(Paying(o)) - 1
          /\ Clearing(o)' = Clearing(o)
      BY <2>1, <2>2, Release
    <3>2. /\ refunds'[o] = refunds[o] + 1 /\ debits'[o] = debits[o]
          /\ unknowns'[o] = unknowns[o] /\ refunded'[o] = refunded[o]
      BY <2>1, <2>2 DEF TypeOK
    <3>3. Covered(o)
      BY DEF CoveredIn
    <3> HIDE DEF m
    <3> QED
      BY <3>1, <3>2, <3>3, HoldersFinite DEF Covered, TypeOK
  <2>3. CASE o # m
    <3>1. Paying(o)' = Paying(o) /\ Clearing(o)' = Clearing(o)
      BY <2>1, <2>3, Release
    <3>2. Covered(o) /\ UNCHANGED <<refunds[o], debits[o], unknowns[o], refunded[o]>>
      BY <2>1, <2>3 DEF CoveredIn, TypeOK
    <3> QED
      BY <3>1, <3>2, FrameCovered
  <2> QED
    BY <2>2, <2>3
<1>3. CASE RefundPayFails(p)
  <2>1. /\ pc[p] = "pay" /\ pc' = [pc EXCEPT ![p] = "undo"]
        /\ UNCHANGED <<on, saw, refunds, debits, unknowns, refunded>>
    BY <1>3 DEF RefundPayFails
  <2>2. \A o \in Orders : Paying(o)' = Paying(o) /\ Clearing(o)' = Clearing(o)
    BY <2>1 DEF TypeOK, Paying, Clearing
  <2> QED
    BY <2>1, <2>2, FrameCovered DEF CoveredIn
<1>4. CASE RefundPayUnknown(p)
  <2>1. /\ pc[p] = "pay" /\ pc' = [pc EXCEPT ![p] = "undo"]
        /\ refunds' = [refunds EXCEPT ![m] = refunds[m] + 1]
        /\ unknowns' = [unknowns EXCEPT ![m] = unknowns[m] + 1]
        /\ UNCHANGED <<on, saw, debits, refunded>>
    BY <1>4 DEF RefundPayUnknown, GiveBack
  <2>2. \A o \in Orders : Paying(o)' = Paying(o) /\ Clearing(o)' = Clearing(o)
    BY <2>1 DEF TypeOK, Paying, Clearing
  <2> SUFFICES ASSUME NEW o \in S PROVE Covered(o)'
    BY DEF CoveredIn
  <2>3. CASE o = m
    BY <2>1, <2>2, <2>3, HoldersFinite DEF CoveredIn, Covered, TypeOK
  <2>4. CASE o # m
    <3>1. Covered(o) /\ UNCHANGED <<refunds[o], debits[o], unknowns[o], refunded[o]>>
      BY <2>1, <2>4 DEF CoveredIn, TypeOK
    <3> QED
      BY <2>2, <3>1, FrameCovered
  <2> QED
    BY <2>3, <2>4
<1>5. CASE RefundUndo(p)
  <2>1. /\ pc[p] = "undo" /\ pc' = [pc EXCEPT ![p] = "idle"]
        /\ refunded' = [refunded EXCEPT ![m] = FALSE]
        /\ UNCHANGED <<on, saw, refunds, debits, unknowns>>
    BY <1>5 DEF RefundUndo
  <2> SUFFICES ASSUME NEW o \in S PROVE Covered(o)'
    BY DEF CoveredIn
  <2>2. CASE o = m
    <3>1. /\ Cardinality(Paying(o)') = Cardinality(Paying(o)) - 1
          /\ Clearing(o)' = Clearing(o)
      BY <2>1, <2>2, Release
    <3>2. /\ refunds'[o] = refunds[o] /\ debits'[o] = debits[o]
          /\ unknowns'[o] = unknowns[o] /\ ~refunded'[o]
      BY <2>1, <2>2 DEF TypeOK
    <3>3. Covered(o)
      BY DEF CoveredIn
    <3> HIDE DEF m
    <3> QED
      BY <3>1, <3>2, <3>3, HoldersFinite DEF Covered, TypeOK
  <2>3. CASE o # m
    <3>1. Paying(o)' = Paying(o) /\ Clearing(o)' = Clearing(o)
      BY <2>1, <2>3, Release
    <3>2. Covered(o) /\ UNCHANGED <<refunds[o], debits[o], unknowns[o], refunded[o]>>
      BY <2>1, <2>3 DEF CoveredIn, TypeOK
    <3> QED
      BY <3>1, <3>2, FrameCovered
  <2> QED
    BY <2>2, <2>3
<1>6. CASE ProcessOrderRefund(p)
  <2>1. /\ pc[p] \in {"refundFull", "refundPart"}
        /\ pc' = [pc EXCEPT ![p] = "idle"]
        /\ ~refunded[m] /\ refunded' = [refunded EXCEPT ![m] = TRUE]
        /\ refunds' = [refunds EXCEPT ![m] = refunds[m] + 1]
        /\ UNCHANGED <<on, saw, debits, unknowns>>
    BY <1>6 DEF ProcessOrderRefund, GiveBack
  <2> SUFFICES ASSUME NEW o \in S PROVE Covered(o)'
    BY DEF CoveredIn
  <2>2. Paying(o)' = Paying(o) /\ Clearing(o)' = Clearing(o)
    BY <2>1, QuietStep DEF Quiet, TypeOK
  <2>3. CASE o = m
    <3>1. refunded'[o] /\ ~refunded[o]
      BY <2>1, <2>3 DEF TypeOK
    <3> QED
      BY <2>1, <2>2, <2>3, <3>1, HoldersFinite DEF CoveredIn, Covered, TypeOK
  <2>4. CASE o # m
    <3>1. Covered(o) /\ UNCHANGED <<refunds[o], debits[o], unknowns[o], refunded[o]>>
      BY <2>1, <2>4 DEF CoveredIn, TypeOK
    <3> QED
      BY <2>2, <3>1, FrameCovered
  <2> QED
    BY <2>3, <2>4
<1>7. CASE ProcessOrderRefundThrows(p)
  <2>1. /\ pc[p] \in {"refundFull", "refundPart"}
        /\ pc' = [pc EXCEPT ![p] = "idle"]
        /\ UNCHANGED <<on, saw, refunds, debits, unknowns, refunded>>
    BY <1>7 DEF ProcessOrderRefundThrows
  <2> QED
    BY <2>1, QuietCovered DEF Quiet, TypeOK
<1> QED
  BY <1>1, <1>2, <1>3, <1>4, <1>5, <1>6, <1>7 DEF Refund

LEMMA AdminCovered ==
    ASSUME TypeOK, TypeOK', NEW S \in SUBSET Orders, CoveredIn(S),
           TakesMoney(S), NEW a \in Admins, Admin(a)
    PROVE  CoveredIn(S)'
<1>a. a \in Procs
  OBVIOUS
<1>1. ASSUME NEW x \in Orders, MarkOrderAsFailed(a, x)
      PROVE  CoveredIn(S)'
  <2>1. /\ ~refunded[x] /\ refunded' = [refunded EXCEPT ![x] = TRUE]
        /\ refunds' = [refunds EXCEPT ![x] = refunds[x] + 1]
        /\ UNCHANGED <<pc, on, saw, debits, unknowns>>
    BY <1>1 DEF MarkOrderAsFailed, Request, GiveBack
  <2>2. \A o \in Orders : Paying(o)' = Paying(o) /\ Clearing(o)' = Clearing(o)
    BY <2>1 DEF Paying, Clearing
  <2> SUFFICES ASSUME NEW o \in S PROVE Covered(o)'
    BY DEF CoveredIn
  <2>3. CASE o = x
    <3>1. refunded'[o] /\ ~refunded[o]
      BY <2>1, <2>3 DEF TypeOK
    <3> QED
      BY <2>1, <2>2, <2>3, <3>1, HoldersFinite DEF CoveredIn, Covered, TypeOK
  <2>4. CASE o # x
    BY <2>1, <2>2, <2>4, FrameCovered DEF CoveredIn, TypeOK
  <2> QED
    BY <2>3, <2>4
<1>2. ASSUME NEW x \in Orders, MarkOrderAsCompleted(a, x)
      PROVE  CoveredIn(S)'
  <2>1. /\ pc[a] = "idle" /\ pc' = [pc EXCEPT ![a] = "save"]
        /\ on' = [on EXCEPT ![a] = x] /\ saw' = [saw EXCEPT ![a] = FALSE]
        /\ UNCHANGED <<refunds, debits, unknowns, refunded>>
    BY <1>2 DEF MarkOrderAsCompleted, Request
  <2>2. \A o \in Orders : Paying(o)' = Paying(o)
    BY <1>a, <2>1 DEF TypeOK, Paying
  <2>3. \A o \in Orders : Clearing(o)' = Clearing(o)
    BY <1>a, <2>1 DEF TypeOK, Clearing
  <2> QED
    BY <2>1, <2>2, <2>3, FrameCovered DEF CoveredIn
<1>3. ASSUME NEW x \in Orders, CompleteOrder(a, x)
      PROVE  CoveredIn(S)'
  <2>1. /\ pc[a] = "idle" /\ on' = [on EXCEPT ![a] = x]
        /\ saw' = [saw EXCEPT ![a] = refunded[x]]
        /\ UNCHANGED <<refunds, debits, unknowns, refunded>>
    BY <1>3 DEF CompleteOrder, Request
  <2>2. CASE WasRefunded(x)
    <3>1. pc' = [pc EXCEPT ![a] = "debit"]
      BY <1>3, <2>2 DEF CompleteOrder
    <3>2. pc[a] \in Quiet /\ pc'[a] \in Quiet
      BY <1>a, <2>1, <3>1 DEF Quiet, TypeOK
    <3>3. /\ \A q \in Procs \ {a} : pc'[q] = pc[q] /\ on'[q] = on[q]
          /\ \A b \in Admins \ {a} : saw'[b] = saw[b]
      BY <2>1, <3>1 DEF TypeOK
    <3> QED
      BY <1>a, <2>1, <3>2, <3>3, QuietCovered
  <2>3. CASE ~WasRefunded(x)
    <3>1. pc' = [pc EXCEPT ![a] = "save"]
      BY <1>3, <2>3 DEF CompleteOrder
    <3>2. saw'[a] = FALSE
      BY <2>1, <2>3 DEF WasRefunded, TypeOK
    <3>3. \A o \in Orders : Paying(o)' = Paying(o)
      BY <1>a, <2>1, <3>1 DEF TypeOK, Paying
    <3>4. \A o \in Orders : Clearing(o)' = Clearing(o)
      BY <1>a, <2>1, <3>1, <3>2 DEF TypeOK, Clearing
    <3> QED
      BY <2>1, <3>3, <3>4, FrameCovered DEF CoveredIn
  <2> QED
    BY <2>2, <2>3
<1>4. CASE CompleteDebit(a)
  <2>0. PICK m \in Orders : m = on[a]
    BY <1>a, <1>4 DEF CompleteDebit, TypeOK
  <2>1. /\ pc[a] = "debit" /\ pc' = [pc EXCEPT ![a] = "save"]
        /\ UNCHANGED <<on, saw, refunds, unknowns, refunded>>
    BY <1>a, <1>4 DEF CompleteDebit, TypeOK
  <2>2. \A o \in Orders : Paying(o)' = Paying(o)
    BY <1>a, <2>1 DEF TypeOK, Paying
  <2>3. \A o \in Orders \ {m} : Clearing(o)' = Clearing(o)
    BY <1>a, <2>0, <2>1 DEF TypeOK, Clearing
  <2>4. Clearing(m)' \subseteq Clearing(m) \cup {a} /\ a \notin Clearing(m)
    BY <1>a, <2>0, <2>1 DEF TypeOK, Clearing
  <2>5. Cardinality(Clearing(m)') <= Cardinality(Clearing(m)) + 1
    <3>1. /\ IsFiniteSet(Clearing(m) \cup {a})
          /\ Cardinality(Clearing(m) \cup {a}) = Cardinality(Clearing(m)) + 1
      BY <2>1, <2>4, HoldersFinite, FS_AddElement
    <3> QED
      BY <2>4, <3>1, FS_Subset
  <2> SUFFICES ASSUME NEW o \in S PROVE Covered(o)'
    BY DEF CoveredIn
  <2>6. CASE o = m
    <3>1. debits'[o] = debits[o] + 1
      BY <1>a, <1>4, <2>0, <2>6 DEF CompleteDebit, TypeOK, TakesMoney
    <3>2. Cardinality(Clearing(o)') <= Cardinality(Clearing(o)) + 1
      BY <2>5, <2>6
    <3>3. Cardinality(Clearing(o)') \in Nat
      BY <2>1, <2>4, <2>6, HoldersFinite, FS_AddElement, FS_Subset,
         FS_CardinalityType
    <3>4. Covered(o) /\ Paying(o)' = Paying(o)
      BY <2>2 DEF CoveredIn
    <3> QED
      BY <2>1, <3>1, <3>2, <3>3, <3>4, HoldersFinite DEF Covered, TypeOK
  <2>7. CASE o # m
    <3>1. debits'[o] = debits[o]
      BY <1>4, <2>0, <2>7 DEF CompleteDebit, TypeOK
    <3> QED
      BY <2>1, <2>2, <2>3, <2>7, <3>1, FrameCovered DEF CoveredIn
  <2> QED
    BY <2>6, <2>7
<1>5. CASE CompleteDebitThrows(a)
  <2>1. /\ pc[a] = "debit" /\ pc' = [pc EXCEPT ![a] = "idle"]
        /\ UNCHANGED <<on, saw, refunds, debits, unknowns, refunded>>
    BY <1>5 DEF CompleteDebitThrows
  <2> QED
    BY <1>a, <2>1, QuietCovered DEF Quiet, TypeOK
<1>6. CASE CompleteSave(a)
  <2>0. PICK m \in Orders : m = on[a]
    BY <1>a, <1>6 DEF CompleteSave, TypeOK
  <2>1. /\ pc[a] = "save" /\ pc' = [pc EXCEPT ![a] = "idle"]
        /\ UNCHANGED <<on, saw, refunds, debits, unknowns>>
    BY <1>a, <1>6 DEF CompleteSave, TypeOK
  <2>2. \A o \in Orders : Paying(o)' = Paying(o)
    BY <1>a, <2>1 DEF TypeOK, Paying
  <2>3. \A o \in Orders \ {m} : Clearing(o)' = Clearing(o)
    BY <1>a, <2>0, <2>1 DEF TypeOK, Clearing
  <2>4. Clearing(m)' = Clearing(m) \ {a}
    BY <1>a, <2>0, <2>1 DEF TypeOK, Clearing
  <2> SUFFICES ASSUME NEW o \in S PROVE Covered(o)'
    BY DEF CoveredIn
  <2>5. CASE o = m /\ saw[a]
    <3>1. ~refunded'[o]
      BY <1>6, <2>0, <2>5 DEF CompleteSave, TypeOK
    <3>2. a \in Clearing(m)
      BY <2>0, <2>1, <2>5 DEF Clearing
    <3>3. Cardinality(Clearing(o)') = Cardinality(Clearing(o)) - 1
      BY <2>1, <2>4, <2>5, <3>2, HoldersFinite, FS_RemoveElement
    <3>4. Covered(o) /\ Paying(o)' = Paying(o)
      BY <2>2 DEF CoveredIn
    <3> QED
      BY <2>1, <3>1, <3>3, <3>4, HoldersFinite DEF Covered, TypeOK
  <2>6. CASE o = m /\ ~saw[a]
    <3>1. refunded' = refunded
      BY <1>6, <2>0, <2>6 DEF CompleteSave
    <3>2. Clearing(o)' = Clearing(o)
      BY <2>0, <2>1, <2>6 DEF TypeOK, Clearing
    <3> QED
      BY <2>1, <2>2, <3>1, <3>2, FrameCovered DEF CoveredIn
  <2>7. CASE o # m
    <3>1. refunded'[o] = refunded[o]
      BY <1>6, <2>0, <2>7 DEF CompleteSave, TypeOK
    <3> QED
      BY <2>1, <2>2, <2>3, <2>7, <3>1, FrameCovered DEF CoveredIn
  <2> QED
    BY <2>5, <2>6, <2>7
<1> QED
  BY <1>1, <1>2, <1>3, <1>4, <1>5, <1>6 DEF Admin

\* The handlers a crash kills hold nothing any more.
LEMMA CrashCovered ==
    ASSUME TypeOK, TypeOK', NEW S \in SUBSET Orders, CoveredIn(S), Crash
    PROVE  CoveredIn(S)'
<1> SUFFICES ASSUME NEW o \in S PROVE Covered(o)'
  BY DEF CoveredIn
<1>1. Paying(o)' = {} /\ Clearing(o)' = {}
  BY DEF Crash, Paying, Clearing
<1>2. UNCHANGED <<refunds, debits, unknowns, refunded>>
  BY DEF Crash
<1>3. Cardinality(Paying(o)') = 0 /\ Cardinality(Clearing(o)') = 0
  BY <1>1, FS_EmptySet
<1> QED
  BY <1>2, <1>3, HoldersFinite DEF CoveredIn, Covered, TypeOK

LEMMA NextCovered ==
    ASSUME TypeOK, NEW S \in SUBSET Orders, CoveredIn(S), TakesMoney(S), [Next]_vars
    PROVE  CoveredIn(S)'
<1>1. TypeOK'
  BY NextTypeOK
<1>2. CASE UNCHANGED vars
  BY <1>2 DEF vars, CoveredIn, Covered, Paying, Clearing
<1> QED
  BY <1>1, <1>2, ExecuteCovered, RefundCovered, PollCovered, AdminCovered,
     CrashCovered DEF Next

LEMMA CoveredBounds == TypeOK /\ AllCovered => NeverOverRefunded
<1> SUFFICES ASSUME TypeOK, AllCovered, NEW o \in Orders, ~IsQuota(o)
             PROVE  refunds[o] <= debits[o] + unknowns[o]
  BY DEF NeverOverRefunded
<1> QED
  BY HoldersFinite DEF AllCovered, Covered, TypeOK

\* The inductive invariant itself: executeOrder, the poll and administrators
\* share one charge among everything that may still refund it.
THEOREM ClaimsAreCovered == Spec => []AllCovered
<1>1. Init => AllCovered
  BY InitCovered DEF AllCovered
<1>2. ASSUME TypeOK, AllCovered, [Next]_vars PROVE AllCovered'
  <2>1. CoveredIn(Charged) /\ TakesMoney(Charged) /\ Charged \in SUBSET Orders
    BY <1>2 DEF AllCovered, CoveredIn, TakesMoney, Charged
  <2>2. CoveredIn(Charged)'
    BY <1>2, <2>1, NextCovered
  <2> QED
    BY <2>2 DEF AllCovered, CoveredIn, Charged, IsQuota
<1> QED
  BY <1>1, <1>2, TypeCorrect, PTL DEF Spec

\* An order is refunded at most as often as it was charged, counting one more
\* for each refund whose commit was reported as an error.
THEOREM NoDoubleRefund == Spec => []NeverOverRefunded
<1>1. TypeOK /\ AllCovered => NeverOverRefunded
  BY CoveredBounds
<1> QED
  BY <1>1, TypeCorrect, ClaimsAreCovered, PTL

(***************************************************************************)
(* Quota orders.  Their quota can come back twice (QuotaReturnedOnce is    *)
(* violated), but only through a forced completion, which clears the flag  *)
(* and takes no quota.                                                     *)
(***************************************************************************)
QuotaCompletion == \E a \in Admins, o \in Orders : IsQuota(o) /\ CompleteOrder(a, o)

LEMMA TakesMoneyStep ==
    ASSUME TypeOK, TakesMoney(Orders), [Next]_vars, ~QuotaCompletion
    PROVE  TakesMoney(Orders)'
<1> SUFFICES ASSUME NEW a \in Admins, pc'[a] = "debit", on'[a] \in Orders
             PROVE  ~IsQuota(on'[a])
  BY DEF TakesMoney, IsQuota
<1>1. a \in Procs /\ a \notin Orders /\ a # Poller
  BY OrdersAssumption
<1>2. CASE pc'[a] = pc[a] /\ on'[a] = on[a]
  BY <1>2 DEF TakesMoney
<1>3. CASE pc'[a] # pc[a] \/ on'[a] # on[a]
  <2>1. PICK o \in Orders : CompleteOrder(a, o)
    <3>1. ASSUME NEW o \in Orders, Execute(o) PROVE FALSE
      BY <1>1, <1>3, <3>1
         DEF Execute, ExecuteOrder, ExecuteAnswer, ExecuteFailed, ExecutePending,
             ExecuteTransient, ExecuteCanceled, ExecutePartial, ExecuteCompleted,
             ExecutePartialWrite, TypeOK
    <3>2. ASSUME NEW p \in Procs, Refund(p) PROVE FALSE
      BY <1>1, <1>3, <3>2
         DEF Refund, RefundClaim, RefundPay, RefundPayFails, RefundPayUnknown, RefundUndo,
             ProcessOrderRefund, ProcessOrderRefundThrows, TypeOK
    <3>3. CASE Poll
      BY <1>1, <1>3, <3>3
         DEF Poll, PollBegin, PollFind, PollOrder, PollRecovered, PollNotFound, PollReview,
             PollSkip, PollExhausted, PollUnresolvable, ProcessOrderStatusResult,
             ResultPending, ResultRetryLimit, ResultCompleted, ResultPartial,
             ResultCanceled, ResultFailed, Applied, TypeOK
    <3>4. ASSUME NEW b \in Admins, Admin(b) PROVE \E o \in Orders : CompleteOrder(a, o)
      <4>1. CASE b = a
        BY <1>1, <1>3, <3>4, <4>1
           DEF Admin, MarkOrderAsFailed, MarkOrderAsCompleted, CompleteDebit,
               CompleteDebitThrows, CompleteSave, TypeOK
      <4>2. CASE b # a
        BY <1>1, <1>3, <3>4, <4>2
           DEF Admin, MarkOrderAsFailed, MarkOrderAsCompleted, CompleteOrder, CompleteDebit,
               CompleteDebitThrows, CompleteSave, TypeOK
      <4> QED
        BY <4>1, <4>2
    <3>5. CASE Crash
      BY <1>1, <3>5 DEF Crash
    <3>6. ~UNCHANGED vars
      BY <1>3 DEF vars
    <3> QED
      BY <3>1, <3>2, <3>3, <3>4, <3>5, <3>6 DEF Next
  <2>2. on'[a] = o
    BY <1>1, <2>1 DEF CompleteOrder, TypeOK
  <2> QED
    BY <2>1, <2>2 DEF QuotaCompletion
<1> QED
  BY <1>2, <1>3

\* A quota comes back twice only where an administrator has completed a quota order
\* by force (completeOrder): no crash, retry, unknown commit or concurrency of the
\* other handlers can do it.
THEOREM OnlyCompletionDoublesQuota ==
    Spec /\ [][~QuotaCompletion]_vars => []QuotaReturnedOnce
<1>1. Init => CoveredIn(Orders) /\ TakesMoney(Orders)
  BY InitCovered DEF Init, CoveredIn, TakesMoney
<1>2. ASSUME TypeOK, CoveredIn(Orders), TakesMoney(Orders), [Next]_vars,
             [~QuotaCompletion]_vars
      PROVE  CoveredIn(Orders)' /\ TakesMoney(Orders)'
  <2>1. CoveredIn(Orders)'
    <3>1. PICK S \in SUBSET Orders : S = Orders
      OBVIOUS
    <3> QED
      BY <1>2, <3>1, NextCovered
  <2>2. CASE UNCHANGED vars
    BY <1>2, <2>1, <2>2 DEF vars, TakesMoney, IsQuota
  <2> QED
    BY <1>2, <2>1, <2>2, TakesMoneyStep
<1>3. TypeOK /\ CoveredIn(Orders) => QuotaReturnedOnce
  <2> SUFFICES ASSUME TypeOK, CoveredIn(Orders), NEW o \in Orders
               PROVE  refunds[o] <= debits[o] + unknowns[o]
    BY DEF QuotaReturnedOnce
  <2> QED
    BY HoldersFinite DEF CoveredIn, Covered, TypeOK
<1> QED
  BY <1>1, <1>2, <1>3, TypeCorrect, PTL DEF Spec

(***************************************************************************)
(* The same in money                                                       *)
(***************************************************************************)
LEMMA QuotientBound ==
    ASSUME NEW r \in Nat, NEW c \in Nat, NEW q \in Nat \ {0}, r < q
    PROVE  (r * c) \div q <= c
<1> DEFINE d == (r * c) \div q
<1>1. r * c \in Nat /\ d \in Nat
  OBVIOUS
<1>2. d * q <= r * c
  BY <1>1
<1>3. r * c <= q * c
  OBVIOUS
<1>4. d * q <= c * q
  BY <1>1, <1>2, <1>3
<1> HIDE DEF d
<1>5. d <= c
  BY <1>1, <1>4
<1> QED
  BY <1>5 DEF d

\* No refund, full or partial, is more than the order's charge.
LEMMA RefundAmountBound ==
    ASSUME NEW o \in Orders, NEW r \in Nat
    PROVE  RefundAmount(o, r) <= Charge[o]
<1>1. Charge[o] \in Nat /\ Quantity[o] \in Nat \ {0}
  BY NumbersAssumption
<1>2. CASE 0 < r /\ r < Quantity[o]
  BY <1>1, <1>2, QuotientBound DEF RefundAmount
<1>3. CASE ~(0 < r /\ r < Quantity[o])
  BY <1>1, <1>3 DEF RefundAmount
<1> QED
  BY <1>2, <1>3

\* Each refund returns at most the charge.
ReturnedBounded == \A o \in Orders : returned[o] <= refunds[o] * Charge[o]

LEMMA GiveBackBounded ==
    ASSUME TypeOK, ReturnedBounded, NEW m \in Orders, NEW n \in Nat,
           n <= Charge[m], GiveBack(m, n)
    PROVE  ReturnedBounded'
<1> SUFFICES ASSUME NEW o \in Orders
             PROVE  returned'[o] <= refunds'[o] * Charge[o]
  BY DEF ReturnedBounded
<1> DEFINE c == Charge[o]
           x == refunds[o]
           y == returned[o]
<1>1. c \in Nat /\ x \in Nat /\ y \in Nat /\ y <= x * c
  BY NumbersAssumption DEF TypeOK, ReturnedBounded
<1>2. CASE o = m
  <2>1. returned'[o] = y + n /\ refunds'[o] = x + 1
    BY <1>2 DEF GiveBack, TypeOK
  <2>2. n <= c
    BY <1>2
  <2> HIDE DEF c, x, y
  <2>3. (x + 1) * c = x * c + c
    BY <1>1
  <2>4. x * c \in Nat
    BY <1>1
  <2>5. y + n <= (x + 1) * c
    BY <1>1, <2>2, <2>3, <2>4
  <2> QED
    BY <2>1, <2>5 DEF c
<1>3. CASE o # m
  BY <1>1, <1>3 DEF GiveBack, TypeOK
<1> QED
  BY <1>2, <1>3

LEMMA NextReturnedBounded ==
    TypeOK /\ ReturnedBounded /\ [Next]_vars => ReturnedBounded'
<1> SUFFICES ASSUME TypeOK, ReturnedBounded, [Next]_vars PROVE ReturnedBounded'
  OBVIOUS
<1>0. ASSUME UNCHANGED <<refunds, returned>> PROVE ReturnedBounded'
  BY <1>0 DEF ReturnedBounded
<1>1. ASSUME NEW o \in Orders, Execute(o) PROVE ReturnedBounded'
  BY <1>0, <1>1 DEF Execute, ExecuteOrder, ExecuteAnswer, ExecuteFailed,
     ExecutePending, ExecuteTransient, ExecuteCanceled, ExecutePartial,
     ExecuteCompleted, ExecutePartialWrite
<1>2. ASSUME NEW p \in Procs, Refund(p) PROVE ReturnedBounded'
  <2>1. CASE RefundPay(p) \/ RefundPayUnknown(p)
    <3>1. on[p] \in Orders /\ GiveBack(on[p], Charge[on[p]])
      BY <2>1 DEF RefundPay, RefundPayUnknown, TypeOK
    <3>2. Charge[on[p]] \in Nat
      BY <3>1, NumbersAssumption
    <3> QED
      BY <3>1, <3>2, GiveBackBounded
  <2>2. CASE ProcessOrderRefund(p)
    <3>1. on[p] \in Orders /\ AskedRemains(p) \in Nat
      BY <2>2 DEF ProcessOrderRefund, AskedRemains, TypeOK
    <3>2. GiveBack(on[p], RefundAmount(on[p], AskedRemains(p)))
      BY <2>2 DEF ProcessOrderRefund
    <3> QED
      BY <3>1, <3>2, RefundAmountType, RefundAmountBound, GiveBackBounded
  <2>3. CASE RefundClaim(p) \/ RefundPayFails(p) \/ RefundUndo(p)
             \/ ProcessOrderRefundThrows(p)
    BY <1>0, <2>3 DEF RefundClaim, RefundPayFails, RefundUndo,
       ProcessOrderRefundThrows
  <2> QED
    BY <1>2, <2>1, <2>2, <2>3 DEF Refund
<1>3. CASE Poll
  BY <1>0, <1>3 DEF Poll, PollBegin, PollFind, PollOrder, PollRecovered,
     PollNotFound, PollReview, PollSkip, PollExhausted, PollUnresolvable,
     ProcessOrderStatusResult, ResultPending, ResultRetryLimit,
     ResultCompleted, ResultPartial, ResultCanceled, ResultFailed, Applied
<1>4. ASSUME NEW a \in Admins, Admin(a) PROVE ReturnedBounded'
  <2>1. ASSUME NEW o \in Orders, MarkOrderAsFailed(a, o) PROVE ReturnedBounded'
    <3>1. GiveBack(o, Charge[o]) /\ Charge[o] \in Nat
      BY <2>1, NumbersAssumption DEF MarkOrderAsFailed
    <3> QED
      BY <3>1, GiveBackBounded
  <2>2. ASSUME NEW o \in Orders, MarkOrderAsCompleted(a, o) \/ CompleteOrder(a, o)
        PROVE  ReturnedBounded'
    BY <1>0, <2>2 DEF MarkOrderAsCompleted, CompleteOrder
  <2>3. CASE CompleteDebit(a) \/ CompleteDebitThrows(a) \/ CompleteSave(a)
    BY <1>0, <2>3 DEF CompleteDebit, CompleteDebitThrows, CompleteSave
  <2> QED
    BY <1>4, <2>1, <2>2, <2>3 DEF Admin
<1>5. CASE Crash
  BY <1>0, <1>5 DEF Crash
<1>6. CASE UNCHANGED vars
  BY <1>0, <1>6 DEF vars
<1> QED
  BY <1>1, <1>2, <1>3, <1>4, <1>5, <1>6 DEF Next

LEMMA BoundsMultiply ==
    ASSUME TypeOK, NeverOverRefunded, ReturnedBounded
    PROVE  NeverOverReturned
<1> SUFFICES ASSUME NEW o \in Orders
             PROVE  returned[o] <= (debits[o] + unknowns[o]) * Charge[o]
  BY DEF NeverOverReturned
<1> DEFINE c == Charge[o]
           x == refunds[o]
           z == debits[o] + unknowns[o]
<1>1. c \in Nat /\ x \in Nat /\ z \in Nat /\ returned[o] \in Nat
  BY NumbersAssumption DEF TypeOK
<1>2. returned[o] <= x * c
  BY DEF ReturnedBounded
<1>3. CASE c = 0
  <2>1. x * c = 0 /\ z * c = 0
    BY <1>1, <1>3
  <2> QED
    BY <1>1, <1>2, <2>1
<1>4. CASE c # 0
  <2>1. x <= z
    BY <1>4 DEF NeverOverRefunded, IsQuota
  <2> HIDE DEF c, x, z
  <2>2. x * c <= z * c
    BY <1>1, <2>1
  <2>3. x * c \in Nat /\ z * c \in Nat
    BY <1>1
  <2>4. returned[o] <= z * c
    BY <1>1, <1>2, <2>2, <2>3
  <2> QED
    BY <2>4 DEF c, z
<1> QED
  BY <1>3, <1>4

\* Full and partial refunds of an order together return at most what was
\* taken for it, once per charge and once per wrongly reported commit.
THEOREM NoOverpayment == Spec => []NeverOverReturned
<1>1. Init => ReturnedBounded
  <2> SUFFICES ASSUME Init, NEW o \in Orders
               PROVE  returned[o] <= refunds[o] * Charge[o]
    BY DEF ReturnedBounded
  <2>1. Charge[o] \in Nat /\ returned[o] = 0 /\ refunds[o] = 0
    BY NumbersAssumption DEF Init
  <2> QED
    BY <2>1
<1>2. Spec => []ReturnedBounded
  BY <1>1, NextReturnedBounded, TypeCorrect, PTL DEF Spec
<1>3. TypeOK /\ NeverOverRefunded /\ ReturnedBounded => NeverOverReturned
  BY BoundsMultiply
<1> QED
  BY <1>2, <1>3, TypeCorrect, NoDoubleRefund, PTL

(***************************************************************************)
(* A set flag is backed by a refund                                        *)
(***************************************************************************)
LEMMA InitPaid == Init => RefundedMeansPaid
BY DEF Init, RefundedMeansPaid

\* Where neither flag, refunds nor claims change, nothing is lost.
LEMMA FramePaid ==
    ASSUME RefundedMeansPaid, UNCHANGED <<refunded, refunds, crashes>>,
           \A o \in Orders : Paying(o)' = Paying(o)
    PROVE  RefundedMeansPaid'
BY DEF RefundedMeansPaid

LEMMA QuietPaid ==
    ASSUME TypeOK, TypeOK', RefundedMeansPaid, NEW p \in Procs,
           pc[p] \in Quiet, pc'[p] \in Quiet,
           \A q \in Procs \ {p} : pc'[q] = pc[q] /\ on'[q] = on[q],
           \A a \in Admins \ {p} : saw'[a] = saw[a],
           UNCHANGED <<refunded, refunds, crashes>>
    PROVE  RefundedMeansPaid'
BY QuietStep, FramePaid

LEMMA RefundPaid ==
    ASSUME TypeOK, TypeOK', RefundedMeansPaid, NEW p \in Procs, Refund(p)
    PROVE  RefundedMeansPaid'
<1>0. PICK m \in Orders : m = on[p]
  BY DEF TypeOK, Refund, RefundClaim, RefundPay, RefundPayFails,
         RefundPayUnknown, RefundUndo, ProcessOrderRefund,
         ProcessOrderRefundThrows
<1>1. CASE RefundClaim(p)
  <2>1. CASE refunded[m]
    BY <1>0, <1>1, <2>1, QuietPaid DEF RefundClaim, Quiet, TypeOK
  <2>2. CASE ~refunded[m]
    <3>1. /\ pc[p] = "claim" /\ pc' = [pc EXCEPT ![p] = "pay"]
          /\ refunded' = [refunded EXCEPT ![m] = TRUE]
          /\ UNCHANGED <<on, refunds, crashes>>
      BY <1>0, <1>1, <2>2 DEF RefundClaim
    <3>2. p \in Paying(m)' /\ \A o \in Orders : Paying(o) \subseteq Paying(o)'
      BY <1>0, <3>1 DEF Paying, TypeOK
    <3> QED
      BY <3>1, <3>2 DEF RefundedMeansPaid, TypeOK
  <2> QED
    BY <2>1, <2>2
<1>2. CASE RefundPay(p) \/ RefundPayUnknown(p)
  <2>1. /\ refunds' = [refunds EXCEPT ![m] = refunds[m] + 1]
        /\ UNCHANGED <<refunded, crashes, on>>
    BY <1>0, <1>2 DEF RefundPay, RefundPayUnknown, GiveBack
  <2>2. \A o \in Orders \ {m} : Paying(o)' = Paying(o)
    BY <1>0, <1>2, <2>1 DEF RefundPay, RefundPayUnknown, Paying, TypeOK
  <2>3. refunds'[m] # 0
    BY <2>1 DEF TypeOK
  <2> QED
    BY <2>1, <2>2, <2>3 DEF RefundedMeansPaid, TypeOK
<1>3. CASE RefundPayFails(p)
  <2>1. \A o \in Orders : Paying(o)' = Paying(o)
    BY <1>3 DEF RefundPayFails, Paying, TypeOK
  <2> QED
    BY <1>3, <2>1, FramePaid DEF RefundPayFails
<1>4. CASE RefundUndo(p)
  <2>1. /\ refunded' = [refunded EXCEPT ![m] = FALSE]
        /\ UNCHANGED <<refunds, crashes, on>>
    BY <1>0, <1>4 DEF RefundUndo
  <2>2. \A o \in Orders \ {m} : Paying(o)' = Paying(o)
    BY <1>0, <1>4, <2>1 DEF RefundUndo, Paying, TypeOK
  <2> QED
    BY <2>1, <2>2 DEF RefundedMeansPaid, TypeOK
<1>5. CASE ProcessOrderRefund(p)
  <2>1. /\ refunds' = [refunds EXCEPT ![m] = refunds[m] + 1]
        /\ refunded' = [refunded EXCEPT ![m] = TRUE]
        /\ UNCHANGED <<crashes, on>>
    BY <1>0, <1>5 DEF ProcessOrderRefund, GiveBack
  <2>2. \A o \in Orders : Paying(o)' = Paying(o)
    BY <1>5 DEF ProcessOrderRefund, Paying, TypeOK
  <2>3. refunds'[m] # 0
    BY <2>1 DEF TypeOK
  <2> QED
    BY <2>1, <2>2, <2>3 DEF RefundedMeansPaid, TypeOK
<1>6. CASE ProcessOrderRefundThrows(p)
  BY <1>6, QuietPaid DEF ProcessOrderRefundThrows, Quiet, TypeOK
<1> QED
  BY <1>1, <1>2, <1>3, <1>4, <1>5, <1>6 DEF Refund

LEMMA AdminPaid ==
    ASSUME TypeOK, TypeOK', RefundedMeansPaid, NEW a \in Admins, Admin(a)
    PROVE  RefundedMeansPaid'
<1>a. a \in Procs
  OBVIOUS
<1>1. ASSUME NEW m \in Orders, MarkOrderAsFailed(a, m)
      PROVE  RefundedMeansPaid'
  <2>1. /\ refunds' = [refunds EXCEPT ![m] = refunds[m] + 1]
        /\ refunded' = [refunded EXCEPT ![m] = TRUE]
        /\ UNCHANGED <<crashes, on, pc>>
    BY <1>1 DEF MarkOrderAsFailed, Request, GiveBack
  <2>2. \A o \in Orders : Paying(o)' = Paying(o)
    BY <2>1 DEF Paying
  <2>3. refunds'[m] # 0
    BY <2>1 DEF TypeOK
  <2> QED
    BY <2>1, <2>2, <2>3 DEF RefundedMeansPaid, TypeOK
<1>2. ASSUME NEW m \in Orders, MarkOrderAsCompleted(a, m) \/ CompleteOrder(a, m)
      PROVE  RefundedMeansPaid'
  <2>1. \A o \in Orders : Paying(o)' = Paying(o)
    BY <1>a, <1>2 DEF MarkOrderAsCompleted, CompleteOrder, Request, Paying, TypeOK
  <2> QED
    BY <1>2, <2>1, FramePaid DEF MarkOrderAsCompleted, CompleteOrder, Request
<1>3. CASE CompleteDebit(a) \/ CompleteDebitThrows(a)
  <2>1. \A o \in Orders : Paying(o)' = Paying(o)
    BY <1>a, <1>3 DEF CompleteDebit, CompleteDebitThrows, Paying, TypeOK
  <2> QED
    BY <1>3, <2>1, FramePaid DEF CompleteDebit, CompleteDebitThrows
<1>4. CASE CompleteSave(a)
  <2>1. \A o \in Orders : Paying(o)' = Paying(o)
    BY <1>a, <1>4 DEF CompleteSave, Paying, TypeOK
  <2>2. \A o \in Orders : refunded'[o] => refunded[o]
    BY <1>4 DEF CompleteSave, TypeOK
  <2>3. UNCHANGED <<refunds, crashes>>
    BY <1>4 DEF CompleteSave
  <2> QED
    BY <2>1, <2>2, <2>3 DEF RefundedMeansPaid
<1> QED
  BY <1>1, <1>2, <1>3, <1>4 DEF Admin

LEMMA NextPaid == TypeOK /\ RefundedMeansPaid /\ [Next]_vars => RefundedMeansPaid'
<1> SUFFICES ASSUME TypeOK, RefundedMeansPaid, [Next]_vars
             PROVE  RefundedMeansPaid'
  OBVIOUS
<1>0. TypeOK'
  BY NextTypeOK
<1>1. ASSUME NEW o \in Orders, Execute(o) PROVE RefundedMeansPaid'
  <2>1. pc[o] \in Quiet /\ pc'[o] \in Quiet
    BY <1>1 DEF Execute, ExecuteOrder, ExecuteAnswer, ExecuteFailed,
       ExecutePending, ExecuteTransient, ExecuteCanceled, ExecutePartial,
       ExecuteCompleted, ExecutePartialWrite, Quiet, TypeOK
  <2>2. /\ \A q \in Procs \ {o} : pc'[q] = pc[q]
        /\ UNCHANGED <<on, saw, refunds, crashes, refunded>>
    BY <1>1 DEF Execute, ExecuteOrder, ExecuteAnswer, ExecuteFailed,
       ExecutePending, ExecuteTransient, ExecuteCanceled, ExecutePartial,
       ExecuteCompleted, ExecutePartialWrite, TypeOK
  <2> QED
    BY <1>0, <2>1, <2>2, QuietPaid
<1>2. CASE Poll
  <2>1. pc[Poller] \in Quiet /\ pc'[Poller] \in Quiet
    BY <1>2 DEF Poll, PollBegin, PollFind, PollFree, PollOrder, PollRecovered,
       PollNotFound, PollReview, PollSkip, PollExhausted, PollUnresolvable,
       ProcessOrderStatusResult, ResultPending, ResultRetryLimit,
       ResultCompleted, ResultPartial, ResultCanceled, ResultFailed, Applied,
       Applying, Visiting, Quiet, TypeOK
  <2>2. /\ \A q \in Procs \ {Poller} : pc'[q] = pc[q] /\ on'[q] = on[q]
        /\ UNCHANGED <<saw, refunds, crashes, refunded>>
    BY <1>2 DEF Poll, PollBegin, PollFind, PollOrder, PollRecovered,
       PollNotFound, PollReview, PollSkip, PollExhausted, PollUnresolvable,
       ProcessOrderStatusResult, ResultPending, ResultRetryLimit,
       ResultCompleted, ResultPartial, ResultCanceled, ResultFailed, Applied,
       TypeOK
  <2> QED
    BY <1>0, <2>1, <2>2, QuietPaid
<1>3. CASE Crash
  BY <1>3 DEF Crash, RefundedMeansPaid, TypeOK
<1>4. CASE UNCHANGED vars
  BY <1>4 DEF vars, RefundedMeansPaid, Paying
<1> QED
  BY <1>0, <1>1, <1>2, <1>3, <1>4, RefundPaid, AdminPaid DEF Next

\* An order marked refunded has been refunded, or refundFailedOrder is about
\* to pay it, unless the process has crashed.
THEOREM RefundFlagIsHonest == Spec => []RefundedMeansPaid
<1>1. Init => RefundedMeansPaid
  BY InitPaid
<1>2. TypeOK /\ RefundedMeansPaid /\ [Next]_vars => RefundedMeansPaid'
  BY NextPaid
<1> QED
  BY <1>1, <1>2, TypeCorrect, PTL DEF Spec

(***************************************************************************)
(* The retry counter                                                       *)
(***************************************************************************)
\* The inductive form of RetryBounded: an order that may still be counted is
\* below the limit, up to the counts a crash cut off from their consequence.
RetryInv ==
    /\ RetryBounded
    /\ \A o \in Orders :
          \/ retry[o] < MaxRetry + crashes
          \/ status[o] # "PROCESSING" /\ o \notin batch
          \/ pc[Poller] = "review" /\ on[Poller] = o /\ o \notin batch
    /\ pc[Poller] = "apply" => snap[on[Poller]] < MaxRetry + crashes
    /\ pc[Poller] = "apply" \/ pc[Poller] = "review" => on[Poller] \notin batch

\* The inductive form of RetryFresh: it holds of every order still to visit.
FreshInv ==
    /\ phase = "main" => \A o \in batch : snap[o] = retry[o]
    /\ pc[Poller] = "apply" => snap[on[Poller]] = retry[on[Poller]]

LEMMA InitRetry == Init => RetryInv /\ FreshInv
BY NumbersAssumption DEF Init, RetryInv, RetryBounded, FreshInv

\* What neither counts nor moves the poll preserves both invariants, as long
\* as it puts no order back into PROCESSING.
LEMMA FrameRetry ==
    ASSUME TypeOK, RetryInv, FreshInv,
           UNCHANGED <<retry, crashes, snap, batch, phase>>,
           pc'[Poller] = pc[Poller], on'[Poller] = on[Poller],
           \A o \in Orders : status'[o] = "PROCESSING" => status[o] = "PROCESSING"
    PROVE  RetryInv' /\ FreshInv'
BY DEF RetryInv, RetryBounded, FreshInv, TypeOK

LEMMA ExecuteRetry ==
    ASSUME TypeOK, RetryInv, FreshInv, NEW o \in Orders, Execute(o)
    PROVE  RetryInv' /\ FreshInv'
<1>1. /\ UNCHANGED <<retry, crashes, snap, batch, phase>>
      /\ pc'[Poller] = pc[Poller] /\ on'[Poller] = on[Poller]
  BY OrdersAssumption DEF Execute, ExecuteOrder, ExecuteAnswer, ExecuteFailed,
     ExecutePending, ExecuteTransient, ExecuteCanceled, ExecutePartial,
     ExecuteCompleted, ExecutePartialWrite, TypeOK
<1>2. \A q \in Orders : status'[q] = "PROCESSING" => status[q] = "PROCESSING"
  BY DEF Execute, ExecuteOrder, ExecuteAnswer, ExecuteFailed,
     ExecutePending, ExecuteTransient, ExecuteCanceled, ExecutePartial,
     ExecuteCompleted, ExecutePartialWrite, TypeOK
<1> QED
  BY <1>1, <1>2, FrameRetry

LEMMA RefundRetry ==
    ASSUME TypeOK, RetryInv, FreshInv, NEW p \in Procs, Refund(p)
    PROVE  RetryInv' /\ FreshInv'
<1>1. UNCHANGED <<status, retry, crashes, snap, batch, phase, on>>
  BY DEF Refund, RefundClaim, RefundPay, RefundPayFails, RefundPayUnknown,
     RefundUndo, ProcessOrderRefund, ProcessOrderRefundThrows
<1>2. pc[Poller] = pc'[Poller] \/ pc[Poller] \notin {"apply", "review"}
  BY DEF Refund, RefundClaim, RefundPay, RefundPayFails, RefundPayUnknown,
     RefundUndo, ProcessOrderRefund, ProcessOrderRefundThrows, TypeOK
<1>3. pc'[Poller] \in {"apply", "review"} => pc[Poller] = pc'[Poller]
  BY DEF Refund, RefundClaim, RefundPay, RefundPayFails, RefundPayUnknown,
     RefundUndo, ProcessOrderRefund, ProcessOrderRefundThrows, TypeOK
<1> QED
  BY <1>1, <1>2, <1>3 DEF RetryInv, RetryBounded, FreshInv, TypeOK

LEMMA AdminRetry ==
    ASSUME TypeOK, RetryInv, FreshInv, NEW a \in Admins, Admin(a)
    PROVE  RetryInv' /\ FreshInv'
<1>1. /\ UNCHANGED <<retry, crashes, snap, batch, phase>>
      /\ pc'[Poller] = pc[Poller] /\ on'[Poller] = on[Poller]
  BY OrdersAssumption DEF Admin, MarkOrderAsFailed, MarkOrderAsCompleted,
     CompleteOrder, CompleteDebit, CompleteDebitThrows, CompleteSave, Request,
     TypeOK
<1>2. \A q \in Orders : status'[q] = "PROCESSING" => status[q] = "PROCESSING"
  BY DEF Admin, MarkOrderAsFailed, MarkOrderAsCompleted, CompleteOrder,
     CompleteDebit, CompleteDebitThrows, CompleteSave, Request, TypeOK
<1> QED
  BY <1>1, <1>2, FrameRetry

LEMMA ResultRetry ==
    ASSUME TypeOK, RetryInv, FreshInv, NEW o \in Orders,
           ProcessOrderStatusResult(o)
    PROVE  RetryInv' /\ FreshInv'
<1>1. /\ snap[o] < MaxRetry + crashes
      /\ batch' = batch \ {o}
      /\ pc'[Poller] \notin {"apply", "review"}
      /\ pc[Poller] \notin {"review"}
      /\ UNCHANGED <<phase, snap, crashes>>
  BY NumbersAssumption DEF ProcessOrderStatusResult, ResultPending,
     ResultRetryLimit, ResultCompleted, ResultPartial, ResultCanceled,
     ResultFailed, Applied, Applying, Visiting, Healthy, RetryInv, TypeOK
<1>2. \A q \in Orders \ {o} : status'[q] = status[q] /\ retry'[q] = retry[q]
  BY DEF ProcessOrderStatusResult, ResultPending, ResultRetryLimit,
     ResultCompleted, ResultPartial, ResultCanceled, ResultFailed, TypeOK
<1>3. \/ retry'[o] < MaxRetry
      \/ retry'[o] = snap[o] + 1 /\ status'[o] # "PROCESSING"
      \/ retry'[o] = retry[o] /\ status'[o] # "PROCESSING"
  BY DEF ProcessOrderStatusResult, ResultPending, ResultRetryLimit,
     ResultCompleted, ResultPartial, ResultCanceled, ResultFailed, TypeOK
<1>4. MaxRetry \in Nat /\ crashes \in Nat /\ snap[o] \in Nat /\ retry \in [Orders -> Nat]
  BY NumbersAssumption DEF TypeOK
<1>5. retry'[o] \in Nat
  BY <1>4 DEF ProcessOrderStatusResult, ResultPending, ResultRetryLimit,
     ResultCompleted, ResultPartial, ResultCanceled, ResultFailed
<1>6. RetryInv'
  BY <1>1, <1>2, <1>3, <1>4, <1>5 DEF RetryInv, RetryBounded
<1>7. FreshInv'
  BY <1>1, <1>2 DEF FreshInv, TypeOK
<1> QED
  BY <1>6, <1>7

LEMMA PollRetry ==
    ASSUME TypeOK, RetryInv, FreshInv, Poll
    PROVE  RetryInv' /\ FreshInv'
<1> USE NumbersAssumption DEF TypeOK, RetryInv, RetryBounded, FreshInv
<1>1. CASE PollBegin
  BY <1>1 DEF PollBegin, PollFree
<1>2. CASE PollFind
  BY <1>2 DEF PollFind, PollFree
<1>3. ASSUME NEW o \in Orders, PollOrder(o)
      PROVE  RetryInv' /\ FreshInv'
  <2>1. CASE PollRecovered(o)
    BY <2>1 DEF PollRecovered, Visiting
  <2>2. CASE PollNotFound(o)
    BY <2>2 DEF PollNotFound, Visiting
  <2>3. CASE PollReview(o)
    BY <2>3 DEF PollReview
  <2>4. CASE PollSkip(o)
    BY <2>4 DEF PollSkip, Visiting
  <2>5. CASE PollExhausted(o)
    BY <2>5 DEF PollExhausted, Visiting
  <2>6. CASE PollUnresolvable(o)
    BY <2>6 DEF PollUnresolvable, Visiting
  <2>7. CASE ProcessOrderStatusResult(o)
    BY <2>7, ResultRetry
  <2> QED
    BY <1>3, <2>1, <2>2, <2>3, <2>4, <2>5, <2>6, <2>7 DEF PollOrder
<1> QED
  BY <1>1, <1>2, <1>3 DEF Poll

LEMMA NextRetry ==
    TypeOK /\ RetryInv /\ FreshInv /\ [Next]_vars => RetryInv' /\ FreshInv'
<1> SUFFICES ASSUME TypeOK, RetryInv, FreshInv, [Next]_vars
             PROVE  RetryInv' /\ FreshInv'
  OBVIOUS
<1>1. CASE Crash
  BY <1>1, NumbersAssumption DEF Crash, RetryInv, RetryBounded, FreshInv, TypeOK
<1>2. CASE UNCHANGED vars
  BY <1>2, FrameRetry DEF vars
<1> QED
  BY <1>1, <1>2, ExecuteRetry, RefundRetry, AdminRetry, PollRetry DEF Next

LEMMA RetryAlways == Spec => [](RetryInv /\ FreshInv)
<1>1. Init => RetryInv /\ FreshInv
  BY InitRetry
<1>2. TypeOK /\ (RetryInv /\ FreshInv) /\ [Next]_vars => (RetryInv /\ FreshInv)'
  BY NextRetry
<1> QED
  BY <1>1, <1>2, TypeCorrect, PTL DEF Spec

\* retryCount never passes MAX_RETRY_COUNT by more than the crashes so far.
THEOREM RetryIsBounded == Spec => []RetryBounded
<1>1. RetryInv /\ FreshInv => RetryBounded
  BY DEF RetryInv
<1> QED
  BY <1>1, RetryAlways, PTL

\* No poll result is counted from an outdated retryCount.
THEOREM RetryIsFresh == Spec => []RetryFresh
<1>1. RetryInv /\ FreshInv => RetryFresh
  BY DEF FreshInv, RetryFresh, Applying, Visiting
<1> QED
  BY <1>1, RetryAlways, PTL
================================================================================
