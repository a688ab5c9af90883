------------------------- MODULE OrderCreation_proofs --------------------------
(***************************************************************************)
(* What is proved about OrderCreation for every set of requests, users,    *)
(* keys, prices and limits, every deployment and all faults: that wallets  *)
(* stay within their credit limit, that a key stands for one order, that   *)
(* money and order go together, and that with transactions createOrder     *)
(* implements Checkout.                                                    *)
(***************************************************************************)
EXTENDS OrderCreation, TLAPS

USE DEF Goto, Set, walletVars, tryVars, answerVars, boundVars, Steps, Ended

(***************************************************************************)
(* Type correctness                                                        *)
(***************************************************************************)
LEMMA WriteType ==
    ASSUME TypeOK, NEW u \in Users, NEW amount \in Int, Write(u, amount)
    PROVE  /\ balance' \in [Users -> Int]
           /\ stale' \in [Requests -> BOOLEAN]
<1>1. balance' \in [Users -> Int]
  BY DEF TypeOK, Write
<1>2. \A q \in Requests :
          (stale[q] \/ (pc[q] = "debit" /\ InTransaction(q) /\ User[q] = u)) \in BOOLEAN
  BY Zenon DEF TypeOK
<1>3. stale' \in [Requests -> BOOLEAN]
  BY <1>2, Zenon DEF Write
<1> QED
  BY <1>1, <1>3

LEMMA MoveType ==
    ASSUME TypeOK, NEW r \in Requests, NEW amount \in Int, Move(r, amount)
    PROVE  /\ balance' \in [Users -> Int] /\ paid' \in [Requests -> Int]
           /\ stale' \in [Requests -> BOOLEAN]
<1>1. User[r] \in Users
  BY RequestsAssumption
<1>2. balance' \in [Users -> Int] /\ stale' \in [Requests -> BOOLEAN]
  BY <1>1, WriteType DEF Move
<1>3. paid' \in [Requests -> Int]
  BY DEF TypeOK, Move
<1> QED
  BY <1>2, <1>3

LEMMA ReleaseType ==
    ASSUME TypeOK, NEW r \in Requests, Release(r)
    PROVE  lock' \in [Users -> Requests \cup {None}]
BY DEF TypeOK, Release

LEMMA LeaveType ==
    ASSUME TypeOK, NEW r \in Requests,
           NEW step \in {"attempt", "existing", "failed"}, Leave(r, step)
    PROVE  /\ pc' \in [Requests -> Steps]
           /\ after' \in [Requests -> {"attempt", "existing", "failed"}]
           /\ lock' \in [Users -> Requests \cup {None}]
BY ReleaseType DEF TypeOK, Leave

LEMMA DebitType ==
    ASSUME TypeOK, NEW r \in Requests, Debit(r)
    PROVE  TypeOK'
<1> USE RequestsAssumption, AmountsAssumption DEF TypeOK, Fault
<1>1. CASE Refused(r)
  BY <1>1 DEF Refused
<1>2. CASE InsufficientFunds(r)
  BY <1>2 DEF InsufficientFunds
<1>3. CASE DebitInTransaction(r)
  BY <1>3 DEF DebitInTransaction
<1>4. CASE WriteConflict(r)
  BY <1>4 DEF WriteConflict
<1>5. CASE DebitDirectly(r)
  BY <1>5, MoveType DEF DebitDirectly
<1>6. CASE DebitRecordFails(r)
  BY <1>6, MoveType DEF DebitRecordFails
<1> QED
  BY <1>1, <1>2, <1>3, <1>4, <1>5, <1>6 DEF Debit

LEMMA InsertType ==
    ASSUME TypeOK, NEW r \in Requests, Insert(r)
    PROVE  TypeOK'
<1> USE RequestsAssumption DEF TypeOK, Fault
<1>1. CASE Create(r)
  BY <1>1 DEF Create
<1>2. CASE DuplicateKey(r)
  BY <1>2, LeaveType DEF DuplicateKey
<1>3. CASE DuplicateNumber(r)
  BY <1>3, LeaveType DEF DuplicateNumber
<1>4. CASE NumbersExhausted(r)
  BY <1>4, LeaveType DEF NumbersExhausted
<1>5. CASE CreateFails(r)
  BY <1>5, LeaveType DEF CreateFails
<1>6. CASE CreateUnknown(r)
  BY <1>6, LeaveType DEF CreateUnknown
<1> QED
  BY <1>1, <1>2, <1>3, <1>4, <1>5, <1>6 DEF Insert

LEMMA FinishType ==
    ASSUME TypeOK, NEW r \in Requests, Finish(r)
    PROVE  TypeOK'
<1> USE RequestsAssumption, AmountsAssumption DEF TypeOK, Fault
<1>1. CASE Compensate(r)
  BY <1>1, MoveType DEF Compensate
<1>2. CASE CompensateFails(r)
  BY <1>2 DEF CompensateFails
<1>3. CASE AnswerExisting(r)
  BY <1>3 DEF AnswerExisting, Existing
<1>4. CASE Commit(r)
  BY <1>4, MoveType, ReleaseType DEF Commit, Committed
<1>5. CASE CommitFails(r)
  BY <1>5, ReleaseType DEF CommitFails
<1>6. CASE CommitUnknown(r)
  BY <1>6, MoveType, ReleaseType DEF CommitUnknown, Committed
<1>7. CASE PopulateFails(r)
  BY <1>7 DEF PopulateFails
<1>8. CASE Schedule(r)
  BY <1>8 DEF Schedule
<1> QED
  BY <1>1, <1>2, <1>3, <1>4, <1>5, <1>6, <1>7, <1>8 DEF Finish

LEMMA NextType == TypeOK /\ [Next]_vars => TypeOK'
<1> SUFFICES ASSUME TypeOK, [Next]_vars PROVE TypeOK'
  OBVIOUS
<1> USE RequestsAssumption DEF TypeOK
<1>1. ASSUME NEW r \in Requests, CreateOrder(r) PROVE TypeOK'
  BY <1>1 DEF CreateOrder, Existing
<1>2. ASSUME NEW r \in Requests, Handle(r) PROVE TypeOK'
  <2>1. CASE BeginTransaction(r)
    BY <2>1 DEF BeginTransaction
  <2>2. CASE BeginStandalone(r)
    BY <2>2 DEF BeginStandalone
  <2>3. CASE Unsupported(r)
    BY <2>3 DEF Unsupported
  <2> QED
    BY <1>2, <2>1, <2>2, <2>3, DebitType, InsertType, FinishType DEF Handle
<1>3. ASSUME NEW u \in Users, TopUp(u) PROVE TypeOK'
  BY <1>3, WriteType DEF TopUp
<1>4. CASE Crash
  BY <1>4 DEF Crash
<1>5. CASE UNCHANGED vars
  BY <1>5 DEF vars
<1> QED
  BY <1>1, <1>2, <1>3, <1>4, <1>5 DEF Next

\* Every variable keeps its type: a duplicate is answered with one order.
THEOREM CreationTypeCorrect == Spec => []TypeOK
<1>1. Init => TypeOK
  BY RequestsAssumption, AmountsAssumption DEF Init, TypeOK
<1> QED
  BY <1>1, NextType, PTL DEF Spec

(***************************************************************************)
(* Transactions and the wallet                                             *)
(***************************************************************************)

\* Snapshots exist in one deployment only, where nothing is written outside a
\* transaction and nothing needs compensation.
Shape(q) ==
    /\ pc[q] \in {"debit", "create", "commit"} /\ InTransaction(q)
          => mode = "transactions"
    /\ mode = "transactions" => ~forced[q] /\ pc[q] # "compensate"
    /\ pc[q] = "commit" => InTransaction(q)
    /\ pc[q] = "compensate" => ~InTransaction(q)

\* A transaction that has written the wallet owns the document, and the credit
\* it has checked is still there.
Held(q) ==
    pc[q] \in {"create", "commit"} /\ InTransaction(q)
        => /\ lock[User[q]] = q
           /\ balance[User[q]] + Limit[User[q]] >= Price[q]

\* Unless it is out of date, a snapshot shows the committed balance.
Snapshot(q) ==
    pc[q] = "debit" /\ InTransaction(q) /\ ~stale[q] => seen[q] = balance[User[q]]

Covered == \A q \in Requests : Shape(q) /\ Held(q) /\ Snapshot(q)
WalletInv == TypeOK /\ Covered /\ WithinCredit

LEMMA CommittedCovered ==
    ASSUME WalletInv, NEW r \in Requests, Committed(r), pc[r] = "commit",
           NEW step \in {"schedule", "failed"}, Goto(r, step),
           UNCHANGED <<mode, forced, seen>>, NEW q \in Requests
    PROVE  (Shape(q) /\ Held(q) /\ Snapshot(q))'
<1> USE RequestsAssumption, AmountsAssumption
        DEF WalletInv, Covered, TypeOK, InTransaction, Shape
<1>1. Shape(q)' /\ pc'[r] = step /\ (q # r => pc'[q] = pc[q])
  OBVIOUS
<1>2. CASE q = r
  BY <1>1, <1>2 DEF Held, Snapshot
<1>3. ASSUME q # r PROVE Held(q)'
  <2>1. CASE User[q] = User[r]
    <3>1. pc[q] \notin {"create", "commit"} \/ ~InTransaction(q)
      BY <1>3, <2>1 DEF Held
    <3>2. pc'[q] \notin {"create", "commit"} \/ ~InTransaction(q)'
      BY <3>1, <1>1, <1>3
    <3> QED
      BY <3>2 DEF Held
  <2>2. CASE User[q] # User[r]
    <3>1. User[q] \in Users /\ User[r] \in Users
      OBVIOUS
    <3>2. balance'[User[q]] = balance[User[q]]
      BY <2>2, <3>1 DEF Committed, Move, Write
    <3>3. lock[User[q]] = q => lock'[User[q]] = q
      BY <1>3, <3>1 DEF Committed, Release
    <3>4. pc'[q] = pc[q] /\ (InTransaction(q)' <=> InTransaction(q))
      BY <1>1, <1>3
    <3> QED
      BY <3>2, <3>3, <3>4 DEF Held
  <2> QED
    BY <2>1, <2>2
<1>4. ASSUME q # r PROVE Snapshot(q)'
  BY <1>1, <1>4 DEF Snapshot, Committed, Move, Write
<1> QED
  BY <1>1, <1>2, <1>3, <1>4

LEMMA CoveredStep ==
    ASSUME WalletInv, NEW r \in Requests, CreateOrder(r) \/ Handle(r), NEW q \in Requests
    PROVE  (Shape(q) /\ Held(q) /\ Snapshot(q))'
<1> USE RequestsAssumption, AmountsAssumption DEF WalletInv, Covered, TypeOK, InTransaction
<1>1. CASE CreateOrder(r)
  BY <1>1 DEF CreateOrder, Existing, Shape, Held, Snapshot
<1>2. CASE BeginTransaction(r)
  BY <1>2 DEF BeginTransaction, Shape, Held, Snapshot
<1>3. CASE BeginStandalone(r)
  BY <1>3 DEF BeginStandalone, Shape, Held, Snapshot
<1>4. CASE Unsupported(r)
  BY <1>4 DEF Unsupported, Shape, Held, Snapshot
<1>5. CASE Refused(r)
  BY <1>5 DEF Refused, Shape, Held, Snapshot
<1>6. CASE InsufficientFunds(r)
  BY <1>6 DEF InsufficientFunds, Shape, Held, Snapshot
<1>7. CASE DebitInTransaction(r)
  BY <1>7 DEF DebitInTransaction, Affords, Funds, Conflict, Shape, Held, Snapshot
<1>8. CASE WriteConflict(r)
  BY <1>8 DEF WriteConflict, Shape, Held, Snapshot
<1>9. CASE DebitDirectly(r)
  BY <1>9 DEF DebitDirectly, Affords, Funds, Move, Write, Shape, Held, Snapshot
<1>10. CASE DebitRecordFails(r)
  BY <1>10 DEF DebitRecordFails, Affords, Funds, Move, Write, Shape, Held, Snapshot
<1>11. CASE Create(r)
  BY <1>11 DEF Create, Shape, Held, Snapshot
<1>12. CASE DuplicateKey(r)
  BY <1>12 DEF DuplicateKey, Leave, Release, Shape, Held, Snapshot
<1>13. CASE DuplicateNumber(r)
  BY <1>13 DEF DuplicateNumber, Leave, Release, Shape, Held, Snapshot
<1>14. CASE NumbersExhausted(r)
  BY <1>14 DEF NumbersExhausted, Leave, Release, Shape, Held, Snapshot
<1>15. CASE CreateFails(r)
  BY <1>15 DEF CreateFails, Leave, Release, Shape, Held, Snapshot
<1>16. CASE CreateUnknown(r)
  BY <1>16 DEF CreateUnknown, Leave, Release, Shape, Held, Snapshot
<1>17. CASE Compensate(r)
  BY <1>17 DEF Compensate, Move, Write, Shape, Held, Snapshot
<1>18. CASE CompensateFails(r)
  BY <1>18 DEF CompensateFails, Shape, Held, Snapshot
<1>19. CASE AnswerExisting(r)
  BY <1>19 DEF AnswerExisting, Shape, Held, Snapshot
<1>20. CASE Commit(r)
  BY <1>20, CommittedCovered DEF Commit
<1>21. CASE CommitFails(r)
  BY <1>21 DEF CommitFails, Release, Shape, Held, Snapshot
<1>22. CASE CommitUnknown(r)
  BY <1>22, CommittedCovered DEF CommitUnknown
<1>23. CASE PopulateFails(r)
  BY <1>23 DEF PopulateFails, Shape, Held, Snapshot
<1>24. CASE Schedule(r)
  BY <1>24 DEF Schedule, Shape, Held, Snapshot
<1> QED
  BY <1>1, <1>2, <1>3, <1>4, <1>5, <1>6, <1>7, <1>8, <1>9, <1>10, <1>11, <1>12,
     <1>13, <1>14, <1>15, <1>16, <1>17, <1>18, <1>19, <1>20, <1>21, <1>22, <1>23,
     <1>24
     DEF Handle, Debit, Insert, Finish

LEMMA CreditStep ==
    ASSUME WalletInv, NEW r \in Requests, CreateOrder(r) \/ Handle(r)
    PROVE  WithinCredit'
<1> USE RequestsAssumption, AmountsAssumption DEF WalletInv, TypeOK, WithinCredit, Move, Write
<1>1. CASE DebitDirectly(r) \/ DebitRecordFails(r)
  BY <1>1 DEF DebitDirectly, DebitRecordFails, Affords, Funds
<1>2. CASE Compensate(r)
  BY <1>2 DEF Compensate
<1>3. CASE Commit(r) \/ CommitUnknown(r)
  <2>1. balance[User[r]] + Limit[User[r]] >= Price[r]
    BY <1>3 DEF Commit, CommitUnknown, Covered, Shape, Held
  <2> QED
    BY <1>3, <2>1 DEF Commit, CommitUnknown, Committed
<1>4. CASE balance' = balance
  BY <1>4
<1> QED
  BY <1>1, <1>2, <1>3, <1>4
     DEF Handle, Debit, Insert, Finish, CreateOrder, BeginTransaction, BeginStandalone,
         Unsupported, Refused, InsufficientFunds, DebitInTransaction, WriteConflict,
         Create, DuplicateKey, DuplicateNumber, NumbersExhausted, CreateFails,
         CreateUnknown, CompensateFails, AnswerExisting, CommitFails, PopulateFails,
         Schedule

LEMMA WalletStep == WalletInv /\ [Next]_vars => WalletInv'
<1> SUFFICES ASSUME WalletInv, [Next]_vars PROVE (Covered /\ WithinCredit)'
  BY NextType DEF WalletInv
<1> USE RequestsAssumption, AmountsAssumption DEF WalletInv
<1>1. ASSUME NEW r \in Requests, CreateOrder(r) \/ Handle(r)
      PROVE  (Covered /\ WithinCredit)'
  BY <1>1, CoveredStep, CreditStep DEF Covered
<1>2. ASSUME NEW u \in Users, TopUp(u) PROVE (Covered /\ WithinCredit)'
  <2>1. WithinCredit'
    BY <1>2 DEF TopUp, Write, WithinCredit, TypeOK
  <2>2. ASSUME NEW q \in Requests PROVE (Shape(q) /\ Held(q) /\ Snapshot(q))'
    <3> USE DEF TypeOK, InTransaction
    <3>1. Shape(q) /\ Held(q) /\ Snapshot(q) /\ User[q] \in Users
      BY DEF Covered
    <3>2. UNCHANGED <<mode, pc, forced, lock, seen>> /\ lock[u] = None
      BY <1>2 DEF TopUp
    <3>3. Shape(q)'
      BY <3>1, <3>2 DEF Shape
    <3>4. lock[User[q]] = q => balance'[User[q]] = balance[User[q]]
      BY <3>1, <3>2, <1>2 DEF TopUp, Write
    <3>5. Held(q)'
      BY <3>1, <3>2, <3>4 DEF Held
    <3>6. Snapshot(q)'
      BY <3>1, <1>2 DEF TopUp, Write, Snapshot
    <3> QED
      BY <3>3, <3>5, <3>6
  <2> QED
    BY <2>1, <2>2 DEF Covered
<1>3. CASE Crash
  BY <1>3 DEF Crash, Covered, Shape, Held, Snapshot, TypeOK, InTransaction, WithinCredit
<1>4. CASE UNCHANGED vars
  BY <1>4 DEF vars, Covered, Shape, Held, Snapshot, TypeOK, InTransaction, WithinCredit
<1> QED
  BY <1>1, <1>2, <1>3, <1>4 DEF Next

LEMMA WalletInit == Init => WalletInv
BY RequestsAssumption, AmountsAssumption
   DEF Init, WalletInv, TypeOK, Covered, Shape, Held, Snapshot, WithinCredit, InTransaction

LEMMA WalletAlways == Spec => []WalletInv
BY WalletInit, WalletStep, PTL DEF Spec

\* Concurrent debits, refunds and payments keep every wallet within its limit.
THEOREM CreationWithinCredit == Spec => []WithinCredit
<1>1. WalletInv => WithinCredit
  BY DEF WalletInv
<1> QED
  BY <1>1, WalletAlways, PTL

(***************************************************************************)
(* Keys                                                                    *)
(***************************************************************************)

\* Until a transaction commits, its write to the user document keeps the key free.
KeyFree(q) == pc[q] = "commit" => Existing(q) = {}
KeyInv == WalletInv /\ OneOrderPerKey /\ \A q \in Requests : KeyFree(q)

LEMMA AddOrder ==
    ASSUME orders \subseteq Requests, OneOrderPerKey, NEW r \in Requests,
           Existing(r) = {}, orders' = orders \cup {r}
    PROVE  OneOrderPerKey'
<1> SUFFICES ASSUME NEW p \in orders', NEW q \in Requests, q \in Existing(p)'
             PROVE  q = p
  BY DEF OneOrderPerKey, Existing, SameKey
<1>1. q \in SameKey(p) /\ q \in orders \cup {r} /\ p \in orders \cup {r}
  BY DEF Existing, SameKey
<1>2. CASE p \in orders /\ q \in orders
  BY <1>1, <1>2 DEF OneOrderPerKey, Existing
<1>3. CASE p = r /\ q \in orders
  BY <1>1, <1>3 DEF Existing
<1>4. CASE q = r /\ p \in orders
  BY <1>1, <1>4 DEF Existing, SameKey
<1> QED
  BY <1>1, <1>2, <1>3, <1>4

\* Neither an order written outside a transaction nor another commit can take the
\* key of a transaction about to commit.
LEMMA CommitAlone ==
    ASSUME WalletInv, NEW r \in Requests, NEW q \in Requests, q # r, pc[q] = "commit",
           pc[r] = "commit" \/ (pc[r] = "create" /\ ~InTransaction(r))
    PROVE  r \notin SameKey(q)
<1> USE DEF WalletInv, Covered
<1>1. InTransaction(q) /\ mode = "transactions"
  BY DEF Shape
<1>2. InTransaction(r)
  BY <1>1 DEF Shape, InTransaction
<1>3. lock[User[q]] = q /\ lock[User[r]] = r
  BY <1>1, <1>2 DEF Held
<1> QED
  BY <1>3 DEF SameKey

LEMMA KeyStep ==
    ASSUME KeyInv, NEW r \in Requests, CreateOrder(r) \/ Handle(r)
    PROVE  OneOrderPerKey' /\ \A q \in Requests : KeyFree(q)'
<1> USE DEF KeyInv, WalletInv, TypeOK
<1>1. CASE Create(r) /\ InTransaction(r)
  BY <1>1 DEF Create, OneOrderPerKey, KeyFree, Existing, SameKey
<1>2. CASE (Create(r) /\ ~InTransaction(r)) \/ CreateUnknown(r)
           \/ Commit(r) \/ CommitUnknown(r)
  <2>1. Existing(r) = {} /\ orders' = orders \cup {r}
    BY <1>2 DEF Create, CreateUnknown, Commit, CommitUnknown, Committed, KeyFree
  <2>2. pc[r] = "commit" \/ (pc[r] = "create" /\ ~InTransaction(r))
    BY <1>2 DEF Create, CreateUnknown, Commit, CommitUnknown
  <2>3. pc'[r] # "commit" /\ \A q \in Requests : q # r => pc'[q] = pc[q]
    BY <1>2 DEF Create, CreateUnknown, Leave, Commit, CommitUnknown
  <2>4. ASSUME NEW q \in Requests PROVE KeyFree(q)'
    BY <2>1, <2>2, <2>3, CommitAlone DEF KeyFree, Existing, SameKey
  <2> QED
    BY <2>1, <2>4, AddOrder
<1>3. CASE orders' = orders /\ \A q \in Requests : pc'[q] = "commit" => pc[q] = "commit"
  BY <1>3 DEF OneOrderPerKey, KeyFree, Existing, SameKey
<1> QED
  BY <1>1, <1>2, <1>3
     DEF Handle, Debit, Insert, Finish, CreateOrder, BeginTransaction,
         BeginStandalone, Unsupported, Refused, InsufficientFunds,
         DebitInTransaction, WriteConflict, DebitDirectly, DebitRecordFails,
         DuplicateKey, DuplicateNumber, NumbersExhausted, CreateFails, Leave,
         Compensate, CompensateFails, AnswerExisting, CommitFails, PopulateFails,
         Schedule

LEMMA KeyAlways == Spec => []KeyInv
<1>1. Init => KeyInv
  BY WalletInit DEF Init, KeyInv, OneOrderPerKey, KeyFree
<1>2. KeyInv /\ [Next]_vars => KeyInv'
  <2> SUFFICES ASSUME KeyInv, [Next]_vars
               PROVE  OneOrderPerKey' /\ \A q \in Requests : KeyFree(q)'
    BY WalletStep DEF KeyInv
  <2>1. ASSUME orders' = orders, \A q \in Requests : pc'[q] = "commit" => pc[q] = "commit"
        PROVE  OneOrderPerKey' /\ \A q \in Requests : KeyFree(q)'
    BY <2>1 DEF KeyInv, OneOrderPerKey, KeyFree, Existing, SameKey
  <2>2. ASSUME NEW u \in Users, TopUp(u)
        PROVE  OneOrderPerKey' /\ \A q \in Requests : KeyFree(q)'
    BY <2>1, <2>2 DEF TopUp
  <2>3. CASE Crash
    BY <2>1, <2>3 DEF Crash
  <2>4. CASE UNCHANGED vars
    BY <2>1, <2>4 DEF vars
  <2> QED
    BY <2>2, <2>3, <2>4, KeyStep DEF Next
<1> QED
  BY <1>1, <1>2, PTL DEF Spec

\* A user's idempotency key stands for at most one order.
THEOREM CreationOneOrderPerKey == Spec => []OneOrderPerKey
<1>1. KeyInv => OneOrderPerKey
  BY DEF KeyInv
<1> QED
  BY <1>1, KeyAlways, PTL

(***************************************************************************)
(* Money, orders and executions                                            *)
(***************************************************************************)

\* Where a request is says whether its order exists.
Placed(q) ==
    /\ pc[q] \in {"new", "attempt", "debit", "create", "commit", "existing", "answered"}
          => q \notin orders
    /\ pc[q] = "compensate" /\ after[q] # "failed" => q \notin orders
    /\ pc[q] \in {"schedule", "done"} => q \in orders

\* What a request has paid: with transactions always the price of the orders
\* that exist, otherwise what its step says, until a fault.
Books(q) ==
    /\ mode = "transactions" => paid[q] = IF q \in orders THEN Price[q] ELSE 0
    /\ mode # "transactions" /\ q \notin faulted =>
          /\ paid[q] = IF pc[q] \in {"create", "compensate", "schedule", "done"}
                       THEN Price[q] ELSE 0
          /\ pc[q] \in {"compensate", "failed"} => q \notin orders
    /\ pc[q] = "dead" => q \in faulted

\* Even after faults an executed order was paid.
Executions(q) ==
    /\ paid[q] >= 0
    /\ \/ pc[q] \in {"compensate", "schedule", "done"}
       \/ pc[q] = "create" /\ ~InTransaction(q)
       => paid[q] >= Price[q]
    /\ executed[q] <= IF pc[q] = "done" THEN 1 ELSE 0

MoneyInv == WalletInv /\ \A q \in Requests : Placed(q) /\ Books(q) /\ Executions(q)

LEMMA MoneyStep ==
    ASSUME MoneyInv, NEW r \in Requests, CreateOrder(r) \/ Handle(r), NEW q \in Requests
    PROVE  (Placed(q) /\ Books(q) /\ Executions(q))'
<1> USE RequestsAssumption, AmountsAssumption
    DEF MoneyInv, WalletInv, Covered, TypeOK, InTransaction, Fault, Shape
<1>1. CASE CreateOrder(r)
  BY <1>1 DEF CreateOrder, Existing, Placed, Books, Executions
<1>2. CASE BeginTransaction(r)
  BY <1>2 DEF BeginTransaction, Placed, Books, Executions
<1>3. CASE BeginStandalone(r)
  BY <1>3 DEF BeginStandalone, Placed, Books, Executions
<1>4. CASE Unsupported(r)
  BY <1>4 DEF Unsupported, Placed, Books, Executions
<1>5. CASE Refused(r)
  BY <1>5 DEF Refused, Placed, Books, Executions
<1>6. CASE InsufficientFunds(r)
  BY <1>6 DEF InsufficientFunds, Placed, Books, Executions
<1>7. CASE DebitInTransaction(r)
  BY <1>7 DEF DebitInTransaction, Placed, Books, Executions
<1>8. CASE WriteConflict(r)
  BY <1>8 DEF WriteConflict, Placed, Books, Executions
<1>9. CASE DebitDirectly(r)
  BY <1>9 DEF DebitDirectly, Move, Placed, Books, Executions
<1>10. CASE DebitRecordFails(r)
  BY <1>10 DEF DebitRecordFails, Move, Placed, Books, Executions
<1>11. CASE Create(r)
  BY <1>11 DEF Create, Placed, Books, Executions
<1>12. CASE DuplicateKey(r)
  BY <1>12 DEF DuplicateKey, Leave, Placed, Books, Executions
<1>13. CASE DuplicateNumber(r)
  BY <1>13 DEF DuplicateNumber, Leave, Placed, Books, Executions
<1>14. CASE NumbersExhausted(r)
  BY <1>14 DEF NumbersExhausted, Leave, Placed, Books, Executions
<1>15. CASE CreateFails(r)
  BY <1>15 DEF CreateFails, Leave, Placed, Books, Executions
<1>16. CASE CreateUnknown(r)
  BY <1>16 DEF CreateUnknown, Leave, Placed, Books, Executions
<1>17. CASE Compensate(r)
  BY <1>17 DEF Compensate, Move, Placed, Books, Executions
<1>18. CASE CompensateFails(r)
  BY <1>18 DEF CompensateFails, Placed, Books, Executions
<1>19. CASE AnswerExisting(r)
  BY <1>19 DEF AnswerExisting, Placed, Books, Executions
<1>20. CASE Commit(r)
  BY <1>20 DEF Commit, Committed, Move, Placed, Books, Executions
<1>21. CASE CommitFails(r)
  BY <1>21 DEF CommitFails, Placed, Books, Executions
<1>22. CASE CommitUnknown(r)
  BY <1>22 DEF CommitUnknown, Committed, Move, Placed, Books, Executions
<1>23. CASE PopulateFails(r)
  BY <1>23 DEF PopulateFails, Placed, Books, Executions
<1>24. CASE Schedule(r)
  BY <1>24 DEF Schedule, Placed, Books, Executions
<1> QED
  BY <1>1, <1>2, <1>3, <1>4, <1>5, <1>6, <1>7, <1>8, <1>9, <1>10, <1>11, <1>12,
     <1>13, <1>14, <1>15, <1>16, <1>17, <1>18, <1>19, <1>20, <1>21, <1>22, <1>23,
     <1>24
     DEF Handle, Debit, Insert, Finish

LEMMA MoneyAlways == Spec => []MoneyInv
<1>1. Init => MoneyInv
  BY WalletInit, RequestsAssumption, AmountsAssumption
     DEF Init, MoneyInv, Placed, Books, Executions
<1>2. MoneyInv /\ [Next]_vars => MoneyInv'
  <2> SUFFICES ASSUME MoneyInv, [Next]_vars, NEW q \in Requests
               PROVE  (Placed(q) /\ Books(q) /\ Executions(q))'
    BY WalletStep DEF MoneyInv
  <2> USE DEF MoneyInv, WalletInv, TypeOK, InTransaction, Placed, Books, Executions
  <2>1. ASSUME NEW u \in Users, TopUp(u)
        PROVE  (Placed(q) /\ Books(q) /\ Executions(q))'
    BY <2>1 DEF TopUp
  <2>2. CASE Crash
    BY <2>2 DEF Crash
  <2>3. CASE UNCHANGED vars
    BY <2>3 DEF vars
  <2> QED
    BY <2>1, <2>2, <2>3, MoneyStep DEF Next
<1> QED
  BY <1>1, <1>2, PTL DEF Spec

\* Money and order go together, where the code can keep them together.
THEOREM CreationPaidIffOrdered == Spec => []PaidIffOrdered
<1>1. MoneyInv => PaidIffOrdered
  BY RequestsAssumption, AmountsAssumption
     DEF MoneyInv, Placed, Books, PaidIffOrdered
<1> QED
  BY <1>1, MoneyAlways, PTL

\* An order is handed to the provider once, and was paid.
THEOREM CreationExecutedOncePaid == Spec => []ExecutedOncePaid
<1>1. MoneyInv => ExecutedOncePaid
  BY DEF MoneyInv, WalletInv, TypeOK, Placed, Executions, ExecutedOncePaid
<1> QED
  BY <1>1, MoneyAlways, PTL

(***************************************************************************)
(* Answers                                                                 *)
(***************************************************************************)
Duplicate(q) ==
    /\ numbers[q] <= MaxNumbers
    /\ pc[q] \notin {"done", "answered"} => reply[q] = None
    /\ pc[q] = "existing" \/ (pc[q] = "compensate" /\ after[q] = "existing")
          => Existing(q) # {} \/ numbers[q] = MaxNumbers

Answered(q) ==
    pc[q] = "answered" =>
        \/ reply[q] \in Existing(q)
        \/ reply[q] = None /\ numbers[q] = MaxNumbers

AnswerInv == TypeOK /\ \A q \in Requests : Duplicate(q) /\ Answered(q)

LEMMA AnswerStep ==
    ASSUME AnswerInv, NEW r \in Requests, CreateOrder(r) \/ Handle(r), NEW q \in Requests
    PROVE  (Duplicate(q) /\ Answered(q))'
<1> USE RequestsAssumption, AmountsAssumption
    DEF AnswerInv, TypeOK, Fault, Duplicate, Answered, Existing, SameKey
<1>1. CASE CreateOrder(r)
  BY <1>1 DEF CreateOrder
<1>2. CASE BeginTransaction(r)
  BY <1>2 DEF BeginTransaction
<1>3. CASE BeginStandalone(r)
  BY <1>3 DEF BeginStandalone
<1>4. CASE Unsupported(r)
  BY <1>4 DEF Unsupported
<1>5. CASE Refused(r)
  BY <1>5 DEF Refused
<1>6. CASE InsufficientFunds(r)
  BY <1>6 DEF InsufficientFunds
<1>7. CASE DebitInTransaction(r)
  BY <1>7 DEF DebitInTransaction
<1>8. CASE WriteConflict(r)
  BY <1>8 DEF WriteConflict
<1>9. CASE DebitDirectly(r)
  BY <1>9 DEF DebitDirectly, Move
<1>10. CASE DebitRecordFails(r)
  BY <1>10 DEF DebitRecordFails, Move
<1>11. CASE Create(r)
  BY <1>11 DEF Create
<1>12. CASE DuplicateKey(r)
  BY <1>12 DEF DuplicateKey, Leave
<1>13. CASE DuplicateNumber(r)
  BY <1>13 DEF DuplicateNumber, Leave
<1>14. CASE NumbersExhausted(r)
  BY <1>14 DEF NumbersExhausted, Leave
<1>15. CASE CreateFails(r)
  BY <1>15 DEF CreateFails, Leave
<1>16. CASE CreateUnknown(r)
  BY <1>16 DEF CreateUnknown, Leave
<1>17. CASE Compensate(r)
  BY <1>17 DEF Compensate, Move
<1>18. CASE CompensateFails(r)
  BY <1>18 DEF CompensateFails
<1>19. CASE AnswerExisting(r)
  BY <1>19 DEF AnswerExisting
<1>20. CASE Commit(r)
  BY <1>20 DEF Commit, Committed, Move
<1>21. CASE CommitFails(r)
  BY <1>21 DEF CommitFails
<1>22. CASE CommitUnknown(r)
  BY <1>22 DEF CommitUnknown, Committed, Move
<1>23. CASE PopulateFails(r)
  BY <1>23 DEF PopulateFails
<1>24. CASE Schedule(r)
  BY <1>24 DEF Schedule
<1> QED
  BY <1>1, <1>2, <1>3, <1>4, <1>5, <1>6, <1>7, <1>8, <1>9, <1>10, <1>11, <1>12,
     <1>13, <1>14, <1>15, <1>16, <1>17, <1>18, <1>19, <1>20, <1>21, <1>22, <1>23,
     <1>24
     DEF Handle, Debit, Insert, Finish

LEMMA AnswerAlways == Spec => []AnswerInv
<1>1. Init => AnswerInv
  BY WalletInit, AmountsAssumption DEF Init, AnswerInv, WalletInv, Duplicate, Answered
<1>2. AnswerInv /\ [Next]_vars => AnswerInv'
  <2> SUFFICES ASSUME AnswerInv, [Next]_vars, NEW q \in Requests
               PROVE  (Duplicate(q) /\ Answered(q))'
    BY NextType DEF AnswerInv
  <2> USE DEF AnswerInv, TypeOK, Duplicate, Answered, Existing, SameKey
  <2>1. ASSUME NEW u \in Users, TopUp(u) PROVE (Duplicate(q) /\ Answered(q))'
    BY <2>1 DEF TopUp
  <2>2. CASE Crash
    BY <2>2 DEF Crash
  <2>3. CASE UNCHANGED vars
    BY <2>3 DEF vars
  <2> QED
    BY <2>1, <2>2, <2>3, AnswerStep DEF Next
<1> QED
  BY <1>1, <1>2, PTL DEF Spec

\* A duplicate is answered with the order it repeats, unless the order numbers of
\* all attempts collided.
THEOREM CreationAnswersOriginal == Spec => []AnswersOriginal
<1>1. AnswerInv => AnswersOriginal
  BY DEF AnswerInv, Answered, AnswersOriginal
<1> QED
  BY <1>1, AnswerAlways, PTL

(***************************************************************************)
(* Refinement                                                              *)
(***************************************************************************)
shopVars == <<IF Atomic THEN orders ELSE {}, IF Atomic THEN balance ELSE Start>>

\* A commit is the abstract Place: at that moment the order is new, its key is
\* free and the credit is there.
LEMMA CommitPlaces ==
    ASSUME KeyInv, MoneyInv, NEW r \in Requests, Commit(r) \/ CommitUnknown(r)
    PROVE  Shop!Place(r)
<1> USE RequestsAssumption, AmountsAssumption DEF KeyInv, MoneyInv, WalletInv, TypeOK
<1>1. pc[r] = "commit" /\ Committed(r) /\ mode' = mode
  BY DEF Commit, CommitUnknown
<1>2. mode = "transactions" /\ InTransaction(r)
  BY <1>1 DEF Covered, Shape
<1>3. r \notin orders /\ SameKey(r) \cap orders = {}
  BY <1>1 DEF Placed, KeyFree, Existing
<1>4. balance[User[r]] + Limit[User[r]] >= Price[r]
  BY <1>1, <1>2 DEF Covered, Held
<1>5. orders' = orders \cup {r}
  BY <1>1 DEF Committed
<1>6. balance' = [balance EXCEPT ![User[r]] = @ - Price[r]]
  BY <1>1 DEF Committed, Move, Write
<1> QED
  BY <1>1, <1>2, <1>3, <1>4, <1>5, <1>6 DEF Shop!Place, Shop!SameKey, SameKey, Atomic

\* Every other step of a request leaves the shop as it is.
LEMMA StepRefines ==
    ASSUME KeyInv, MoneyInv, NEW r \in Requests, CreateOrder(r) \/ Handle(r)
    PROVE  [Shop!Next]_shopVars
<1> USE DEF shopVars, Atomic, KeyInv, WalletInv
<1>1. CASE Commit(r) \/ CommitUnknown(r)
  BY <1>1, CommitPlaces DEF Shop!Next
<1>2. CASE mode' = mode /\ mode # "transactions"
  BY <1>2
<1>3. CASE mode' = mode /\ orders' = orders /\ balance' = balance
  BY <1>3
<1>4. ~(/\ mode = "transactions"
        /\ \/ DebitDirectly(r) \/ DebitRecordFails(r) \/ Compensate(r) \/ CreateUnknown(r)
           \/ Create(r) /\ ~InTransaction(r))
  BY
     DEF Covered, Shape, InTransaction, DebitDirectly, DebitRecordFails, Compensate,
         CreateUnknown
<1> QED
  BY <1>1, <1>2, <1>3, <1>4
     DEF Handle, Debit, Insert, Finish, CreateOrder, BeginTransaction, BeginStandalone,
         Unsupported, Refused, InsufficientFunds, DebitInTransaction, WriteConflict,
         DebitDirectly, DebitRecordFails, Create, DuplicateKey, DuplicateNumber,
         NumbersExhausted, CreateFails, CreateUnknown, Compensate, CompensateFails,
         AnswerExisting, CommitFails, PopulateFails, Schedule

\* With transactions createOrder implements Checkout.
THEOREM CreationImplementsCheckout == Spec => CheckoutSpec
<1>1. Init => Shop!Init
  BY DEF Init, Shop!Init
<1>2. KeyInv /\ MoneyInv /\ [Next]_vars => [Shop!Next]_shopVars
  <2> SUFFICES ASSUME KeyInv, MoneyInv, [Next]_vars PROVE [Shop!Next]_shopVars
    OBVIOUS
  <2>1. ASSUME NEW u \in Users, TopUp(u) PROVE [Shop!Next]_shopVars
    <3>1. UNCHANGED <<mode, orders>> /\ balance' = [balance EXCEPT ![u] = @ + 1]
      BY <2>1 DEF TopUp, Write
    <3>2. mode = "transactions" => Shop!TopUp(u)
      BY <3>1 DEF Shop!TopUp, Atomic
    <3> QED
      BY <3>1, <3>2 DEF Shop!Next, shopVars, Atomic
  <2>2. CASE Crash
    BY <2>2 DEF Crash, shopVars, Atomic
  <2>3. CASE UNCHANGED vars
    BY <2>3 DEF vars, shopVars, Atomic
  <2> QED
    BY <2>1, <2>2, <2>3, StepRefines DEF Next
<1> QED
  BY <1>1, <1>2, KeyAlways, MoneyAlways, PTL DEF Spec, CheckoutSpec, Shop!Spec, shopVars
================================================================================
