---------------------------- MODULE Payments_proofs ----------------------------
(***************************************************************************)
(* What is proved about the components of Payments for every set of deposits, *)
(* messages, calls, users, commissions and payouts and any number of edits *)
(* and changes.                                                            *)
(***************************************************************************)
EXTENDS Payments, FiniteSums, FiniteSetTheorems, TLAPS

-----------------------------------------------------------------------------
(* PaymentEvents and Deposits: a deposit is credited once, its commission is *)
(* of what was credited, and one payment approves at most one deposit.     *)
(* The argument follows one document at a time: nothing is credited or     *)
(* commissioned before the deposit leaves PENDING, which the commit of an  *)
(* approval compares with what it read; and an event leaves UNMATCHED      *)
(* before its task approves anything.                                      *)

Outcomes == {"NONE", "NOT_REFERRED", "INVALID_REFERRER", "EXPIRED", "STOPPED", "ZERO_PERCENT",
             "FAILED_CONFIGURATION", "CREATED", "ALREADY_EXISTS", "IDEMPOTENCY_CONFLICT"}
Documents == [status : {"NONE", "PENDING", "APPROVED", "REJECTED"},
              amount : Amounts \cup {0}, currency : DOMAIN Rate \cup {None},
              reviewedAt : Nat, event : Messages \cup {None},
              mark : {"NONE", "PENDING", "PROCESSED", "FAILED", "NOT_APPLICABLE"},
              outcome : Outcomes]
Matches == {"NONE", "UNMATCHED", "MATCHED", "MISMATCH", "AMBIGUOUS", "PROCESSED"}
EventDocuments == [exists : BOOLEAN, match : Matches, deposit : Requests \cup {None},
                   error : BOOLEAN]

CallType(c) ==
    /\ c.at \in {"idle", "approve", "approving", "answered", "update", "reconcile", "create",
                 "mark", "insert", "match", "apply", "search"}
    /\ c.at \in {"approve", "approving"} =>
          /\ c.deposit \in Requests /\ c.override \in Amounts \cup {0}
          /\ c.event \in Messages \cup {None}
    /\ c.at = "approving" => /\ c.seen \in Documents /\ c.seen.status = "PENDING"
                             /\ c.reviewedAt \in Nat
    /\ c.at = "update" => c.deposit \in Requests /\ c.amount \in Amounts
    /\ c.at \in {"reconcile", "create"} => c.deposit \in Requests /\ c.seen \in Documents
    /\ c.at = "mark" => c.deposit \in Requests /\ c.outcome \in Outcomes
    /\ c.at \in {"answered", "insert", "match", "apply"} => c.event \in Messages
    /\ c.at = "apply" => /\ c.result \in Matches \ {"NONE", "PROCESSED"}
                         /\ c.deposit \in IF c.result = "MATCHED" THEN Requests ELSE {None}
    /\ c.at = "search" => c.deposit \in Requests

PaymentsType ==
    /\ deposit \in [Requests -> Documents]
    /\ DOMAIN commission = Requests
    /\ configured \subseteq DOMAIN Rate
    /\ clock \in Nat
    /\ credited \in [Requests -> Seq(Amounts \cup {0})]
    /\ event \in [Messages -> EventDocuments]
    /\ DOMAIN call = Calls
    /\ \A k \in Calls : CallType(call[k])

Approved(d) == deposit[d].status = "APPROVED"

\* What the status of a deposit says of its credit and its commission.
DepositMeans(d) ==
    /\ Len(credited[d]) = IF Approved(d) THEN 1 ELSE 0
    /\ commission[d].exists => Approved(d)
    /\ deposit[d].mark = "PROCESSED" => commission[d].exists
    /\ d \notin edited =>
          /\ Approved(d) => deposit[d].amount = credited[d][1]
          /\ commission[d].exists => commission[d].amount = credited[d][1]

\* What a reconciliation read is still true of the deposit.
ReconcilerMeans(c) ==
    /\ c.at \in {"reconcile", "create", "mark"} => Approved(c.deposit)
    /\ c.at \in {"reconcile", "create"} /\ c.deposit \notin edited =>
          c.seen.amount = credited[c.deposit][1]
    /\ c.at = "mark" /\ c.outcome \in {"CREATED", "ALREADY_EXISTS"} =>
          commission[c.deposit].exists

DepositsInv ==
    /\ \A d \in Requests : DepositMeans(d)
    /\ \A k \in Calls : ReconcilerMeans(call[k])

\* Task c works for message m.
Works(c, m) ==
    /\ c.at \in {"insert", "match", "apply", "approve", "approving", "answered"}
    /\ c.event = m

\* What a task for message m has done and not done.
TaskMeans(c, m) ==
    /\ c.at = "insert" => ~event[m].exists
    /\ c.at \in {"match", "apply"} => event[m].exists /\ event[m].match = "UNMATCHED"
    /\ c.at \in {"approve", "approving"} =>
          /\ event[m].exists /\ event[m].match = "MATCHED"
          /\ event[m].deposit = c.deposit /\ ApprovedFor(m) = {}
    /\ c.at = "answered" /\ c.approved => event[m].deposit \in ApprovedFor(m)

\* What the event of message m says of the deposits approved for it.
RecordMeans(m) ==
    /\ ~event[m].exists \/ event[m].match \notin {"MATCHED", "PROCESSED"} => ApprovedFor(m) = {}
    /\ event[m].match # "NONE" => event[m].exists
    /\ ApprovedFor(m) \subseteq {event[m].deposit}
    /\ event[m].match = "PROCESSED" => event[m].deposit \in ApprovedFor(m)

\* A message that two tasks did not match has one task, and one approval at most.
MessageMeans(m) ==
    /\ \A j, k \in Matching(m) : j = k
    /\ \A k \in Matching(m) : TaskMeans(call[k], m)
    /\ RecordMeans(m)

\* Whoever approves for a message does so for a deposit of its transaction.
TransactionTask(c, m) ==
    c.at \in {"approve", "approving"} \/ (c.at = "apply" /\ c.result = "MATCHED")
       => TransactionOf[c.deposit] = Transaction[m]

TransactionMeans(m) ==
    /\ \A d \in ApprovedFor(m) : TransactionOf[d] = Transaction[m]
    /\ \A k \in Matching(m) : TransactionTask(call[k], m)

EventsInv ==
    \A m \in Messages : TransactionMeans(m) /\ (m \notin overlapped => MessageMeans(m))

PaymentsInv == PaymentsType /\ DepositsInv /\ EventsInv

(***************************************************************************)
(* Type correctness                                                        *)
(***************************************************************************)
LEMMA GoesType ==
    ASSUME PaymentsType, NEW k \in Calls, NEW next, CallType(next), Goes(k, next)
    PROVE  DOMAIN call' = Calls /\ \A j \in Calls : CallType(call'[j])
BY DEF PaymentsType, Goes

LEMMA EndedType ==
    ASSUME PaymentsType, NEW k \in Calls, call[k].at \in {"approve", "approving"},
           Ended(k, TRUE) \/ Ended(k, FALSE)
    PROVE  DOMAIN call' = Calls /\ \A j \in Calls : CallType(call'[j])
<1>1. call[k].event \in Messages \cup {None}
  BY DEF PaymentsType, CallType
<1>2. PICK next : Goes(k, next) /\ CallType(next)
  <2>1. CASE call[k].event = None
    <3>1. Goes(k, [at |-> "idle"])
      BY <2>1 DEF Ended
    <3> QED
      BY <3>1 DEF CallType
  <2>2. CASE call[k].event # None
    <3>1. PICK ok \in BOOLEAN : Goes(k, [at |-> "answered", event |-> call[k].event,
                                         approved |-> ok])
      BY <2>2 DEF Ended
    <3>2. CallType([at |-> "answered", event |-> call[k].event, approved |-> ok])
      BY <1>1, <2>2 DEF CallType
    <3> QED
      BY <3>1, <3>2
  <2> QED
    BY <2>1, <2>2
<1> QED
  BY <1>2, GoesType

LEMMA OutcomeType ==
    ASSUME NEW d, NEW users, NEW at, NEW c
    PROVE  /\ Outcome(d, users, at, c) \in Outcomes \ {"ALREADY_EXISTS", "IDEMPOTENCY_CONFLICT",
                                                       "NONE"}
           /\ Mark(Outcome(d, users, at, c)) = "PROCESSED" => Outcome(d, users, at, c) = "CREATED"
BY DEF Outcome, Outcomes, Mark

LEMMA MarkType ==
    ASSUME NEW outcome \in Outcomes
    PROVE  /\ Mark(outcome) \in {"PROCESSED", "FAILED", "NOT_APPLICABLE"}
           /\ Mark(outcome) = "PROCESSED" => outcome \in {"CREATED", "ALREADY_EXISTS"}
BY DEF Mark, Outcomes

\* What a commit makes of the deposit it read.
LEMMA CommittedDeposit ==
    ASSUME PaymentsType, NEW k \in Calls, CommitApproval(k)
    PROVE  LET c == call[k]
               d == call[k].deposit
           IN  /\ c.at = "approving" /\ CallType(c) /\ d \in Requests
               /\ deposit[d].status = "PENDING" /\ FinalAmount(c) \in Amounts \cup {0}
               /\ deposit' \in [Requests -> Documents]
               /\ \A x \in Requests : x # d => deposit'[x] = deposit[x]
               /\ deposit'[d].status = "APPROVED" /\ deposit'[d].amount = FinalAmount(c)
               /\ deposit'[d].event = c.event
               /\ deposit[d] = c.seen /\ deposit'[d].currency = c.seen.currency
               /\ deposit'[d].mark = "PROCESSED" =>
                     Outcome(d, c.users, c.reviewedAt, c.seen.currency) = "CREATED"
<1> DEFINE c == call[k]
           d == c.deposit
           outcome == Outcome(d, c.users, c.reviewedAt, c.seen.currency)
<1>1. /\ c.at = "approving" /\ CallType(c) /\ ~Conflicts(c)
      /\ deposit' = [deposit EXCEPT ![d] = [c.seen EXCEPT
            !.status = "APPROVED", !.amount = FinalAmount(c), !.event = c.event,
            !.reviewedAt = c.reviewedAt, !.mark = Mark(outcome), !.outcome = outcome]]
  BY DEF CommitApproval, PaymentsType
<1>2. /\ d \in Requests /\ c.seen \in Documents /\ c.seen.status = "PENDING"
      /\ c.event \in Messages \cup {None} /\ c.reviewedAt \in Nat
      /\ c.override \in Amounts \cup {0}
  BY <1>1 DEF CallType
<1>3. FinalAmount(c) \in Amounts \cup {0}
  BY <1>2 DEF FinalAmount, Documents
<1>4. outcome \in Outcomes /\ (Mark(outcome) = "PROCESSED" => outcome = "CREATED")
      /\ Mark(outcome) \in {"PROCESSED", "FAILED", "NOT_APPLICABLE"}
  BY OutcomeType, MarkType
<1>5. deposit[d] = c.seen
  BY <1>1 DEF Conflicts
<1> DEFINE new == [c.seen EXCEPT
            !.status = "APPROVED", !.amount = FinalAmount(c), !.event = c.event,
            !.reviewedAt = c.reviewedAt, !.mark = Mark(outcome), !.outcome = outcome]
<1> HIDE DEF outcome
<1>6. /\ new \in Documents /\ new.status = "APPROVED" /\ new.amount = FinalAmount(c)
      /\ new.event = c.event /\ new.mark = Mark(outcome)
      /\ new.currency = c.seen.currency
  BY <1>2, <1>3, <1>4 DEF Documents
<1> HIDE DEF new
<1>7. deposit' = [deposit EXCEPT ![d] = new]
  BY <1>1 DEF new
<1> QED
  BY <1>1, <1>2, <1>3, <1>4, <1>5, <1>6, <1>7 DEF PaymentsType, outcome

LEMMA ApprovalType ==
    ASSUME PaymentsType, NEW k \in Calls, Approval(k), UNCHANGED eventVars
    PROVE  PaymentsType'
<1> USE DEF docs, environment, history, eventVars
<1>1. CASE RefuseApproval(k)
  BY <1>1, EndedType DEF RefuseApproval, PaymentsType
<1>2. CASE BeginApproval(k)
  <2>1. /\ call[k].at = "approve" /\ call[k].deposit \in Requests
        /\ call[k].override \in Amounts \cup {0} /\ call[k].event \in Messages \cup {None}
        /\ deposit[call[k].deposit] \in Documents
        /\ deposit[call[k].deposit].status = "PENDING"
    BY <1>2 DEF BeginApproval, PaymentsType, CallType
  <2> DEFINE next == [at |-> "approving", deposit |-> call[k].deposit,
                      override |-> call[k].override, event |-> call[k].event,
                      reviewedAt |-> clock, seen |-> deposit[call[k].deposit],
                      users |-> customer]
  <2>2. CallType(next) /\ Goes(k, next)
    BY <1>2, <2>1 DEF BeginApproval, CallType, PaymentsType
  <2> QED
    BY <1>2, <2>2, GoesType DEF BeginApproval, PaymentsType
<1>3. CASE CommitApproval(k)
  <2>1. credited' \in [Requests -> Seq(Amounts \cup {0})]
    <3>1. credited' = [credited EXCEPT ![call[k].deposit] = Append(@, FinalAmount(call[k]))]
      BY <1>3 DEF CommitApproval
    <3>2. call[k].deposit \in Requests /\ FinalAmount(call[k]) \in Amounts \cup {0}
      BY <1>3, CommittedDeposit
    <3> QED
      BY <3>1, <3>2 DEF PaymentsType
  <2>2. DOMAIN commission' = Requests
    BY <1>3 DEF CommitApproval, PaymentsType
  <2> QED
    BY <1>3, <2>1, <2>2, CommittedDeposit, EndedType DEF CommitApproval, PaymentsType
<1>4. CASE ConflictApproval(k)
  <2>1. /\ call[k].at = "approving" /\ call[k].deposit \in Requests
        /\ call[k].override \in Amounts \cup {0} /\ call[k].event \in Messages \cup {None}
    BY <1>4 DEF ConflictApproval, PaymentsType, CallType
  <2> DEFINE next == [at |-> "approve", deposit |-> call[k].deposit,
                      override |-> call[k].override, event |-> call[k].event]
  <2>2. CallType(next) /\ Goes(k, next)
    BY <1>4, <2>1 DEF ConflictApproval, CallType
  <2> QED
    BY <1>4, <2>2, GoesType DEF ConflictApproval, PaymentsType
<1>5. CASE AbortApproval(k)
  BY <1>5, EndedType DEF AbortApproval, PaymentsType
<1> QED
  BY <1>1, <1>2, <1>3, <1>4, <1>5 DEF Approval

LEMMA ReconciliationType ==
    ASSUME PaymentsType, NEW k \in Calls, Reconciliation(k), UNCHANGED eventVars
    PROVE  PaymentsType'
<1> USE DEF docs, environment, history, eventVars
<1>1. CASE ReadForReconciliation(k)
  <2>1. PICK d \in Requests : Goes(k, [at |-> "reconcile", deposit |-> d, seen |-> deposit[d]])
    BY <1>1 DEF ReadForReconciliation
  <2>2. CallType([at |-> "reconcile", deposit |-> d, seen |-> deposit[d]])
    BY DEF CallType, PaymentsType
  <2> QED
    BY <1>1, <2>1, <2>2, GoesType DEF ReadForReconciliation, PaymentsType
<1>2. CASE MarkPending(k)
  <2>1. call[k].deposit \in Requests /\ call[k].seen \in Documents
    BY <1>2 DEF MarkPending, PaymentsType, CallType
  <2>2. CallType([at |-> "create", deposit |-> call[k].deposit, seen |-> call[k].seen])
    BY <2>1 DEF CallType
  <2>3. deposit' \in [Requests -> Documents]
    <3>1. deposit' = [deposit EXCEPT ![call[k].deposit] =
                        [deposit[call[k].deposit] EXCEPT !.mark = "PENDING", !.outcome = "NONE"]]
      BY <1>2 DEF MarkPending
    <3>2. [deposit[call[k].deposit] EXCEPT !.mark = "PENDING", !.outcome = "NONE"] \in Documents
      BY <2>1 DEF PaymentsType, Documents, Outcomes
    <3> QED
      BY <3>1, <3>2 DEF PaymentsType
  <2> QED
    BY <1>2, <2>2, <2>3, GoesType DEF MarkPending, PaymentsType
<1>3. CASE CreateCommissionRecord(k)
  <2> DEFINE d == call[k].deposit
             seen == call[k].seen
             outcome == Outcome(d, customer, seen.reviewedAt, seen.currency)
             new == Commission(d, customer, seen.amount, seen.currency)
             told == IF outcome # "CREATED" \/ ~commission[d].exists THEN outcome
                     ELSE IF commission[d] = new THEN "ALREADY_EXISTS"
                     ELSE "IDEMPOTENCY_CONFLICT"
  <2>1. d \in Requests /\ outcome \in Outcomes
    BY <1>3, OutcomeType DEF CreateCommissionRecord, PaymentsType, CallType
  <2>2. Goes(k, [at |-> "mark", deposit |-> d, outcome |-> told])
    BY <1>3 DEF CreateCommissionRecord
  <2>3. commission' = commission \/ commission' = [commission EXCEPT ![d] = new]
    BY <1>3 DEF CreateCommissionRecord, InsertCommission
  <2> HIDE DEF outcome, new
  <2>4. told \in Outcomes
    BY <2>1 DEF Outcomes
  <2> HIDE DEF told
  <2>5. CallType([at |-> "mark", deposit |-> d, outcome |-> told])
    BY <2>1, <2>4 DEF CallType
  <2>6. DOMAIN commission' = Requests
    BY <2>3 DEF PaymentsType
  <2> QED
    BY <1>3, <2>2, <2>5, <2>6, GoesType DEF CreateCommissionRecord, PaymentsType
<1>4. CASE MarkDepositCommission(k)
  <2>1. call[k].deposit \in Requests /\ call[k].outcome \in Outcomes
    BY <1>4 DEF MarkDepositCommission, PaymentsType, CallType
  <2>2. Mark(call[k].outcome) \in {"PROCESSED", "FAILED", "NOT_APPLICABLE"}
    BY <2>1, MarkType
  <2>3. deposit' \in [Requests -> Documents]
    <3> DEFINE d == call[k].deposit
               new == [deposit[d] EXCEPT !.mark = Mark(call[k].outcome),
                                         !.outcome = call[k].outcome]
    <3>1. deposit' = [deposit EXCEPT ![d] = new]
      BY <1>4 DEF MarkDepositCommission
    <3>2. deposit[d] \in Documents
      BY <2>1 DEF PaymentsType
    <3>3. new \in Documents
      BY <2>1, <2>2, <3>2 DEF Documents
    <3> QED
      BY <2>1, <3>1, <3>3 DEF PaymentsType
  <2>4. CallType([at |-> "idle"])
    BY DEF CallType
  <2> QED
    BY <1>4, <2>3, <2>4, GoesType DEF MarkDepositCommission, PaymentsType
<1> QED
  BY <1>1, <1>2, <1>3, <1>4 DEF Reconciliation

LEMMA EditedDocument ==
    ASSUME NEW doc \in Documents, NEW amount \in Amounts
    PROVE  [doc EXCEPT !.amount = amount] \in Documents
BY DEF Documents

LEMMA ReviewType ==
    ASSUME PaymentsType, NEW k \in Calls, UNCHANGED eventVars,
           ApproveDeposit(k) \/ ReadForUpdate(k) \/ SaveUpdate(k) \/ Crash(k)
    PROVE  PaymentsType'
<1> USE DEF docs, environment, history, eventVars
<1>1. CASE ApproveDeposit(k)
  <2>1. PICK d \in Requests, amount \in Amounts \cup {0} : CallApprove(k, d, amount, None)
    BY <1>1 DEF ApproveDeposit
  <2>2. CallType([at |-> "approve", deposit |-> d, override |-> amount, event |-> None])
    BY DEF CallType
  <2> QED
    BY <2>1, <2>2, GoesType DEF CallApprove, PaymentsType
<1>2. CASE ReadForUpdate(k)
  <2>1. PICK d \in Requests, amount \in Amounts :
           Goes(k, [at |-> "update", deposit |-> d, amount |-> amount])
    BY <1>2 DEF ReadForUpdate
  <2>2. CallType([at |-> "update", deposit |-> d, amount |-> amount])
    BY DEF CallType
  <2> QED
    BY <1>2, <2>1, <2>2, GoesType DEF ReadForUpdate, PaymentsType
<1>3. CallType([at |-> "idle"])
  BY DEF CallType
<1>4. CASE SaveUpdate(k)
  <2>1. call[k].deposit \in Requests /\ call[k].amount \in Amounts
    BY <1>4 DEF SaveUpdate, PaymentsType, CallType
  <2>2. deposit' \in [Requests -> Documents]
    <3> DEFINE d == call[k].deposit
               new == [deposit[d] EXCEPT !.amount = call[k].amount]
    <3>1. new \in Documents
      <4>1. deposit[d] \in Documents
        BY <2>1 DEF PaymentsType
      <4> QED
        BY <2>1, <4>1, EditedDocument
    <3>2. deposit' = [deposit EXCEPT ![d] = new]
      BY <1>4 DEF SaveUpdate
    <3> HIDE DEF new
    <3> QED
      BY <2>1, <3>1, <3>2 DEF PaymentsType
  <2> QED
    BY <1>3, <1>4, <2>2, GoesType DEF SaveUpdate, PaymentsType
<1>5. CASE Crash(k)
  BY <1>3, <1>5, GoesType DEF Crash, PaymentsType
<1> QED
  BY <1>1, <1>2, <1>4, <1>5

LEMMA EnvironmentType ==
    ASSUME PaymentsType, UNCHANGED eventVars,
           Environment \/ \E d \in Requests : RejectDeposit(d)
    PROVE  PaymentsType'
<1> USE DEF docs, environment, history, eventVars, PaymentsType
<1>1. CASE Tick
  BY <1>1 DEF Tick
<1>2. CASE SetReferralCommissionOverride
  BY <1>2 DEF SetReferralCommissionOverride
<1>3. CASE ChangeUser \/ ApproveSubAgent
  BY <1>3 DEF ChangeUser, ApproveSubAgent
<1>4. CASE SetCurrencyStatus
  BY <1>4 DEF SetCurrencyStatus
<1>5. ASSUME NEW d \in Requests, RejectDeposit(d) PROVE PaymentsType'
  <2> DEFINE new == [deposit[d] EXCEPT !.status = "REJECTED", !.reviewedAt = clock]
  <2>1. deposit' = [deposit EXCEPT ![d] = new]
    BY <1>5 DEF RejectDeposit
  <2>2. deposit[d] \in Documents /\ clock \in Nat
    OBVIOUS
  <2> HIDE DEF PaymentsType
  <2>3. new \in Documents
    BY <2>2 DEF Documents
  <2> HIDE DEF new
  <2>4. deposit' \in [Requests -> Documents]
    BY <2>1, <2>3 DEF PaymentsType
  <2>5. UNCHANGED <<commission, call, configured, clock, credited, event>>
    BY <1>5 DEF RejectDeposit
  <2> QED
    BY <2>4, <2>5 DEF PaymentsType
<1> QED
  BY <1>1, <1>2, <1>3, <1>4, <1>5 DEF Environment

LEMMA BridgeType ==
    ASSUME PaymentsType, NEW k \in Calls,
           \/ SubmitDeposit(k) \/ Deliver(k) \/ InsertEvent(k) \/ MatchParsedPaymentEvent(k)
           \/ ApplyMatchResult(k) \/ SaveAnswer(k) \/ MatchExistingUnmatchedPayment(k)
    PROVE  PaymentsType'
<1> USE DEF docs, environment, history, eventVars
<1>1. CallType([at |-> "idle"])
  BY DEF CallType
<1>2. CASE SubmitDeposit(k)
  <2>1. PICK d \in Requests, amount \in Amounts, currency \in configured :
          /\ CreateDepositRequest(d, amount, currency)
          /\ Goes(k, IF TransactionOf[d] = None THEN [at |-> "idle"]
                     ELSE [at |-> "search", deposit |-> d])
    BY <1>2 DEF SubmitDeposit
  <2>2. CallType([at |-> "search", deposit |-> d])
    BY DEF CallType
  <2>3. deposit' \in [Requests -> Documents]
    <3> DEFINE new == [deposit[d] EXCEPT !.status = "PENDING", !.amount = amount,
                                         !.currency = currency]
    <3>1. deposit' = [deposit EXCEPT ![d] = new]
      BY <2>1 DEF CreateDepositRequest
    <3>2. currency \in DOMAIN Rate
      BY DEF PaymentsType
    <3>3. deposit[d] \in Documents
      BY DEF PaymentsType
    <3>4. new \in Documents
      BY <3>2, <3>3 DEF Documents
    <3> QED
      BY <3>1, <3>4 DEF PaymentsType
  <2> QED
    BY <1>1, <1>2, <2>1, <2>2, <2>3, GoesType DEF CreateDepositRequest, SubmitDeposit,
       PaymentsType
<1>3. CASE Deliver(k)
  <2>1. PICK m \in Messages : Goes(k, [at |-> "idle"]) \/ Goes(k, [at |-> "insert", event |-> m])
    BY <1>3 DEF Deliver
  <2>2. CallType([at |-> "insert", event |-> m])
    BY DEF CallType
  <2> QED
    BY <1>1, <1>3, <2>1, <2>2, GoesType DEF Deliver, PaymentsType
<1>4. CASE InsertEvent(k)
  <2>1. call[k].event \in Messages
    BY <1>4 DEF InsertEvent, PaymentsType, CallType
  <2>2. CallType([at |-> "match", event |-> call[k].event])
    BY <2>1 DEF CallType
  <2>3. event' \in [Messages -> EventDocuments]
    <3> DEFINE new == [exists |-> TRUE, match |-> "UNMATCHED", deposit |-> None, error |-> FALSE]
    <3>1. event' = event \/ event' = [event EXCEPT ![call[k].event] = new]
      BY <1>4 DEF InsertEvent
    <3>2. new \in EventDocuments
      BY DEF EventDocuments, Matches
    <3> HIDE DEF new
    <3> QED
      BY <3>1, <3>2 DEF PaymentsType
  <2>4. Goes(k, [at |-> "idle"]) \/ Goes(k, [at |-> "match", event |-> call[k].event])
    BY <1>4 DEF InsertEvent
  <2> QED
    BY <1>1, <1>4, <2>2, <2>3, <2>4, GoesType DEF InsertEvent, PaymentsType
<1>5. CASE MatchParsedPaymentEvent(k)
  <2>1. call[k].event \in Messages
    BY <1>5 DEF MatchParsedPaymentEvent, PaymentsType, CallType
  <2>2. PICK d \in IF MatchResult(call[k].event) = "MATCHED" THEN Exact(call[k].event) ELSE {None} :
          Goes(k, [at |-> "apply", event |-> call[k].event,
                   result |-> MatchResult(call[k].event), deposit |-> d])
    BY <1>5 DEF MatchParsedPaymentEvent
  <2>3. MatchResult(call[k].event) \in Matches \ {"NONE", "PROCESSED"} /\ Exact(call[k].event) \subseteq Requests
    BY DEF MatchResult, Matches, Exact
  <2>4. CallType([at |-> "apply", event |-> call[k].event,
                  result |-> MatchResult(call[k].event), deposit |-> d])
    BY <2>1, <2>3 DEF CallType
  <2> QED
    BY <1>5, <2>2, <2>4, GoesType DEF MatchParsedPaymentEvent, PaymentsType
<1>6. CASE ApplyMatchResult(k)
  <2>1. /\ call[k].event \in Messages /\ call[k].result \in Matches
        /\ call[k].result = "MATCHED" => call[k].deposit \in Requests
        /\ call[k].deposit \in Requests \cup {None}
    BY <1>6 DEF ApplyMatchResult, PaymentsType, CallType
  <2>2. call[k].result = "MATCHED" =>
           CallType([at |-> "approve", deposit |-> call[k].deposit, override |-> 0,
                     event |-> call[k].event])
    BY <2>1 DEF CallType
  <2>3. event' \in [Messages -> EventDocuments]
    <3>1. event \in [Messages -> EventDocuments] /\ event[call[k].event] \in EventDocuments
      BY <2>1 DEF PaymentsType
    <3> DEFINE new == [event[call[k].event] EXCEPT !.match = call[k].result,
                                                   !.deposit = call[k].deposit]
    <3>2. new \in EventDocuments
      BY <2>1, <3>1 DEF EventDocuments
    <3>3. event' \in {event, [event EXCEPT ![call[k].event] = new]}
      BY <1>6 DEF ApplyMatchResult
    <3> HIDE DEF new
    <3> QED
      BY <2>1, <3>1, <3>2, <3>3
  <2>4. \/ Goes(k, [at |-> "idle"])
        \/ /\ call[k].result = "MATCHED"
           /\ Goes(k, [at |-> "approve", deposit |-> call[k].deposit, override |-> 0,
                       event |-> call[k].event])
    BY <1>6 DEF ApplyMatchResult
  <2> QED
    BY <1>1, <1>6, <2>2, <2>3, <2>4, GoesType DEF ApplyMatchResult, PaymentsType
<1>7. CASE SaveAnswer(k)
  <2>1. call[k].event \in Messages
    BY <1>7 DEF SaveAnswer, PaymentsType, CallType
  <2>2. event' \in [Messages -> EventDocuments]
    <3> DEFINE old == event[call[k].event]
    <3>1. old \in EventDocuments
      BY <2>1 DEF PaymentsType
    <3>2. /\ [old EXCEPT !.match = "PROCESSED", !.error = FALSE] \in EventDocuments
          /\ [old EXCEPT !.error = TRUE] \in EventDocuments
      BY <3>1 DEF EventDocuments, Matches
    <3>3. \/ event' = [event EXCEPT ![call[k].event] =
                         [old EXCEPT !.match = "PROCESSED", !.error = FALSE]]
          \/ event' = [event EXCEPT ![call[k].event] = [old EXCEPT !.error = TRUE]]
      BY <1>7 DEF SaveAnswer
    <3> HIDE DEF old
    <3> QED
      BY <3>2, <3>3 DEF PaymentsType
  <2> QED
    BY <1>1, <1>7, <2>2, GoesType DEF SaveAnswer, PaymentsType
<1>8. CASE MatchExistingUnmatchedPayment(k)
  <2>1. \/ Goes(k, [at |-> "idle"])
        \/ \E m \in Messages : Goes(k, [at |-> "match", event |-> m])
    BY <1>8 DEF MatchExistingUnmatchedPayment, Candidates
  <2>2. \A m \in Messages : CallType([at |-> "match", event |-> m])
    BY DEF CallType
  <2> QED
    BY <1>1, <1>8, <2>1, <2>2, GoesType DEF MatchExistingUnmatchedPayment, PaymentsType
<1> QED
  BY <1>2, <1>3, <1>4, <1>5, <1>6, <1>7, <1>8

LEMMA PaymentsNextType == PaymentsType /\ [Next]_<<vars, eventVars>> => PaymentsType'
<1> SUFFICES ASSUME PaymentsType, [Next]_<<vars, eventVars>> PROVE PaymentsType'
  OBVIOUS
<1>1. CASE UNCHANGED <<vars, eventVars>>
  BY <1>1 DEF vars, eventVars, PaymentsType
<1> QED
  BY <1>1, ApprovalType, ReconciliationType, ReviewType, EnvironmentType, BridgeType DEF Next

(***************************************************************************)
(* Deposits and their commissions                                          *)
(***************************************************************************)
\* A step that touches at most deposit d and moves task k.
LEMMA DepositStep ==
    ASSUME PaymentsType, DepositsInv, NEW d \in Requests, NEW k \in Calls,
           DOMAIN call' = Calls,
           \A j \in Calls : j # k => call'[j] = call[j],
           \A x \in Requests : x # d =>
               /\ deposit'[x] = deposit[x] /\ commission'[x] = commission[x]
               /\ credited'[x] = credited[x] /\ (x \in edited' <=> x \in edited),
           edited \subseteq edited',
           Approved(d) => Approved(d)' /\ credited'[d] = credited[d],
           commission[d].exists => commission'[d].exists,
           DepositMeans(d)', ReconcilerMeans(call[k])'
    PROVE  DepositsInv'
<1>1. ASSUME NEW x \in Requests PROVE DepositMeans(x)'
  BY <1>1 DEF DepositsInv, DepositMeans, Approved
<1>2. ASSUME NEW j \in Calls PROVE ReconcilerMeans(call[j])'
  <2>1. CASE j # k
    <3>1. ReconcilerMeans(call[j]) /\ CallType(call[j])
      BY DEF DepositsInv, PaymentsType
    <3> QED
      BY <2>1, <3>1 DEF ReconcilerMeans, CallType, Approved
  <2> QED
    BY <2>1
<1> QED
  BY <1>1, <1>2 DEF DepositsInv

\* A step that touches no deposit and moves task k.
LEMMA TaskStep ==
    ASSUME PaymentsType, DepositsInv, NEW k \in Calls, NEW next, Goes(k, next),
           UNCHANGED <<deposit, commission, credited, edited>>, ReconcilerMeans(next)
    PROVE  DepositsInv'
<1>1. \A x \in Requests : DepositMeans(x)'
  BY DEF DepositsInv, DepositMeans, Approved
<1>2. ASSUME NEW j \in Calls PROVE ReconcilerMeans(call[j])'
  <2>1. call'[j] = IF j = k THEN next ELSE call[j]
    BY DEF Goes, PaymentsType
  <2>2. ReconcilerMeans(call'[j])
    BY <2>1 DEF DepositsInv
  <2> QED
    BY <2>2 DEF ReconcilerMeans, Approved
<1> QED
  BY <1>1, <1>2 DEF DepositsInv

LEMMA OtherTaskStep ==
    ASSUME PaymentsType, DepositsInv, NEW k \in Calls, NEW next, Goes(k, next),
           UNCHANGED <<deposit, commission, credited, edited>>,
           next.at \notin {"reconcile", "create", "mark"}
    PROVE  DepositsInv'
BY TaskStep DEF ReconcilerMeans

LEMMA EndedStep ==
    ASSUME PaymentsType, DepositsInv, NEW k \in Calls, Ended(k, TRUE) \/ Ended(k, FALSE)
    PROVE  \E next : Goes(k, next) /\ next.at \in {"idle", "answered"}
BY DEF Ended

LEMMA ApprovalKeepsDeposits ==
    ASSUME PaymentsType, DepositsInv, NEW k \in Calls, Approval(k)
    PROVE  DepositsInv'
<1> USE DEF docs, environment, history
<1>1. CASE RefuseApproval(k)
  BY <1>1, EndedStep, OtherTaskStep DEF RefuseApproval
<1>2. CASE BeginApproval(k)
  BY <1>2, OtherTaskStep DEF BeginApproval
<1>3. CASE CommitApproval(k)
  <2> DEFINE c == call[k]
  <2> PICK d : d = call[k].deposit
    OBVIOUS
  <2>1. /\ d \in Requests /\ deposit[d].status = "PENDING"
        /\ \A x \in Requests : x # d => deposit'[x] = deposit[x]
        /\ deposit'[d].status = "APPROVED" /\ deposit'[d].amount = FinalAmount(c)
        /\ deposit'[d].mark = "PROCESSED" =>
              Outcome(d, c.users, c.reviewedAt, c.seen.currency) = "CREATED"
        /\ FinalAmount(c) \in Amounts \cup {0}
    BY <1>3, CommittedDeposit
  <2>2. /\ credited' = [credited EXCEPT ![d] = Append(@, FinalAmount(c))]
        /\ edited' = edited
        /\ commission' = IF Outcome(d, c.users, c.reviewedAt, c.seen.currency) # "CREATED"
                         THEN commission
                         ELSE [commission EXCEPT ![d] =
                                 Commission(d, c.users, FinalAmount(c), c.seen.currency)]
        /\ Ended(k, TRUE)
    BY <1>3 DEF CommitApproval
  <2>3. ~commission[d].exists /\ credited[d] \in Seq(Amounts \cup {0}) /\ Len(credited[d]) = 0
    BY <2>1 DEF DepositsInv, DepositMeans, Approved, PaymentsType
  <2>4. /\ Len(credited'[d]) = 1 /\ credited'[d][1] = FinalAmount(c)
        /\ \A x \in Requests : x # d => credited'[x] = credited[x]
    BY <2>1, <2>2, <2>3 DEF PaymentsType
  <2>5. /\ \A x \in Requests : x # d => commission'[x] = commission[x]
        /\ commission'[d].exists => commission'[d].amount = FinalAmount(c)
        /\ deposit'[d].mark = "PROCESSED" => commission'[d].exists
    BY <2>1, <2>2, <2>3 DEF PaymentsType, Commission
  <2>6. DepositMeans(d)'
    BY <2>1, <2>4, <2>5 DEF DepositMeans, Approved
  <2>7. PICK next : Goes(k, next) /\ next.at \in {"idle", "answered"}
    BY <2>2, EndedStep
  <2>8. /\ DOMAIN call' = Calls /\ call'[k] = next
        /\ \A j \in Calls : j # k => call'[j] = call[j]
    BY <2>7 DEF Goes, PaymentsType
  <2>9. ReconcilerMeans(call[k])'
    BY <2>7, <2>8 DEF ReconcilerMeans
  <2> QED
    BY <2>1, <2>2, <2>3, <2>4, <2>5, <2>6, <2>8, <2>9, DepositStep DEF Approved
<1>4. CASE ConflictApproval(k)
  BY <1>4, OtherTaskStep DEF ConflictApproval
<1>5. CASE AbortApproval(k)
  BY <1>5, EndedStep, OtherTaskStep DEF AbortApproval
<1> QED
  BY <1>1, <1>2, <1>3, <1>4, <1>5 DEF Approval

LEMMA ReconciliationKeepsDeposits ==
    ASSUME PaymentsType, DepositsInv, NEW k \in Calls, Reconciliation(k)
    PROVE  DepositsInv'
<1> USE DEF docs, environment, history
<1>1. CASE ReadForReconciliation(k)
  <2>1. PICK d \in Requests :
           /\ deposit[d].status = "APPROVED"
           /\ Goes(k, [at |-> "reconcile", deposit |-> d, seen |-> deposit[d]])
    BY <1>1 DEF ReadForReconciliation
  <2>2. DepositMeans(d)
    BY DEF DepositsInv
  <2>3. ReconcilerMeans([at |-> "reconcile", deposit |-> d, seen |-> deposit[d]])
    BY <2>1, <2>2 DEF ReconcilerMeans, DepositMeans, Approved
  <2> QED
    BY <1>1, <2>1, <2>3, TaskStep DEF ReadForReconciliation
<1>2. CASE MarkPending(k)
  <2> PICK c : c = call[k]
    OBVIOUS
  <2> PICK d : d = c.deposit
    OBVIOUS
  <2>1. d \in Requests /\ c.at = "reconcile" /\ ReconcilerMeans(c)
    BY <1>2 DEF MarkPending, PaymentsType, CallType, DepositsInv
  <2>2. DepositMeans(d) /\ deposit[d] \in Documents
    BY <2>1 DEF DepositsInv, PaymentsType
  <2>3. /\ \A x \in Requests : x # d => deposit'[x] = deposit[x]
        /\ deposit'[d] = [deposit[d] EXCEPT !.mark = "PENDING", !.outcome = "NONE"]
    BY <1>2, <2>1 DEF MarkPending, PaymentsType
  <2>4. /\ deposit'[d].status = deposit[d].status /\ deposit'[d].amount = deposit[d].amount
        /\ deposit'[d].mark = "PENDING"
    BY <2>2, <2>3 DEF Documents
  <2>5. /\ DOMAIN call' = Calls /\ \A j \in Calls : j # k => call'[j] = call[j]
        /\ call'[k] = [at |-> "create", deposit |-> d, seen |-> c.seen]
        /\ UNCHANGED <<commission, credited, edited>>
    BY <1>2 DEF MarkPending, Goes, PaymentsType
  <2>6. DepositMeans(d)'
    BY <2>2, <2>4, <2>5 DEF DepositMeans, Approved
  <2>7. ReconcilerMeans(call[k])'
    BY <2>1, <2>4, <2>5 DEF ReconcilerMeans, Approved
  <2>8. /\ \A x \in Requests : x # d => deposit'[x] = deposit[x]
        /\ commission' = commission /\ credited' = credited /\ edited' = edited
        /\ deposit'[d].status = deposit[d].status
    BY <2>3, <2>4, <2>5
  <2>9. DOMAIN call' = Calls /\ \A j \in Calls : j # k => call'[j] = call[j]
    BY <2>5
  <2> QED
    BY <2>1, <2>6, <2>7, <2>8, <2>9, DepositStep DEF Approved
<1>3. CASE CreateCommissionRecord(k)
  <2> PICK c : c = call[k]
    OBVIOUS
  <2> PICK d : d = c.deposit
    OBVIOUS
  <2> PICK outcome : outcome = Outcome(d, customer, c.seen.reviewedAt, c.seen.currency)
    OBVIOUS
  <2> PICK new : new = Commission(d, customer, c.seen.amount, c.seen.currency)
    OBVIOUS
  <2>1. d \in Requests /\ c.at = "create" /\ ReconcilerMeans(c)
    BY <1>3 DEF CreateCommissionRecord, PaymentsType, CallType, DepositsInv
  <2>2. DepositMeans(d) /\ Approved(d) /\ (d \notin edited => c.seen.amount = credited[d][1])
    BY <2>1 DEF DepositsInv, ReconcilerMeans
  <2>3. outcome # "ALREADY_EXISTS" /\ outcome # "IDEMPOTENCY_CONFLICT"
    BY OutcomeType
  <2>4. new.exists = TRUE /\ new.amount = c.seen.amount
    BY DEF Commission
  <2>5. /\ commission' = IF outcome = "CREATED" /\ ~commission[d].exists
                         THEN [commission EXCEPT ![d] = new] ELSE commission
        /\ UNCHANGED <<deposit, credited, edited>>
    BY <1>3 DEF CreateCommissionRecord, InsertCommission
  <2>6. PICK told : /\ call'[k] = [at |-> "mark", deposit |-> d, outcome |-> told]
                    /\ told = IF outcome # "CREATED" \/ ~commission[d].exists THEN outcome
                              ELSE IF commission[d] = new THEN "ALREADY_EXISTS"
                              ELSE "IDEMPOTENCY_CONFLICT"
    BY <1>3 DEF CreateCommissionRecord, Goes, PaymentsType
  <2>7. DOMAIN call' = Calls /\ \A j \in Calls : j # k => call'[j] = call[j]
    BY <1>3 DEF CreateCommissionRecord, Goes, PaymentsType
  <2>8. /\ \A x \in Requests : x # d => commission'[x] = commission[x]
        /\ commission[d].exists => commission'[d] = commission[d]
        /\ ~commission[d].exists => commission'[d] = commission[d] \/ commission'[d] = new
        /\ told \in {"CREATED", "ALREADY_EXISTS"} => commission'[d].exists
    BY <2>1, <2>3, <2>4, <2>5, <2>6 DEF PaymentsType
  <2>9. DepositMeans(d)'
    BY <2>2, <2>4, <2>5, <2>8 DEF DepositMeans, Approved
  <2>10. ReconcilerMeans(call[k])'
    BY <2>2, <2>5, <2>6, <2>8 DEF ReconcilerMeans, Approved
  <2> QED
    BY <2>1, <2>5, <2>7, <2>8, <2>9, <2>10, DepositStep DEF Approved
<1>4. CASE MarkDepositCommission(k)
  <2> PICK c : c = call[k]
    OBVIOUS
  <2> PICK d : d = c.deposit
    OBVIOUS
  <2>1. d \in Requests /\ c.at = "mark" /\ ReconcilerMeans(c) /\ c.outcome \in Outcomes
    BY <1>4 DEF MarkDepositCommission, PaymentsType, CallType, DepositsInv
  <2>2. DepositMeans(d) /\ deposit[d] \in Documents
    BY <2>1 DEF DepositsInv, PaymentsType
  <2>3. /\ \A x \in Requests : x # d => deposit'[x] = deposit[x]
        /\ deposit'[d] = [deposit[d] EXCEPT !.mark = Mark(c.outcome), !.outcome = c.outcome]
    BY <1>4, <2>1 DEF MarkDepositCommission, PaymentsType
  <2>4. /\ deposit'[d].status = deposit[d].status /\ deposit'[d].amount = deposit[d].amount
        /\ deposit'[d].mark = Mark(c.outcome)
    BY <2>2, <2>3 DEF Documents
  <2>5. /\ DOMAIN call' = Calls /\ \A j \in Calls : j # k => call'[j] = call[j]
        /\ call'[k] = [at |-> "idle"]
        /\ UNCHANGED <<commission, credited, edited>>
    BY <1>4 DEF MarkDepositCommission, Goes, PaymentsType
  <2>6. Mark(c.outcome) = "PROCESSED" => commission[d].exists
    BY <2>1, MarkType DEF ReconcilerMeans
  <2>7. DepositMeans(d)'
    BY <2>2, <2>4, <2>5, <2>6 DEF DepositMeans, Approved
  <2>8. ReconcilerMeans(call[k])'
    BY <2>5 DEF ReconcilerMeans
  <2>9. /\ \A x \in Requests : x # d => deposit'[x] = deposit[x]
        /\ commission' = commission /\ credited' = credited /\ edited' = edited
        /\ deposit'[d].status = deposit[d].status
    BY <2>3, <2>4, <2>5
  <2>10. DOMAIN call' = Calls /\ \A j \in Calls : j # k => call'[j] = call[j]
    BY <2>5
  <2> QED
    BY <2>1, <2>7, <2>8, <2>9, <2>10, DepositStep DEF Approved
<1> QED
  BY <1>1, <1>2, <1>3, <1>4 DEF Reconciliation

LEMMA ReviewKeepsDeposits ==
    ASSUME PaymentsType, DepositsInv, NEW k \in Calls,
           ApproveDeposit(k) \/ ReadForUpdate(k) \/ SaveUpdate(k) \/ Crash(k)
    PROVE  DepositsInv'
<1> USE DEF docs, environment, history
<1>1. CASE ApproveDeposit(k)
  BY <1>1, OtherTaskStep DEF ApproveDeposit, CallApprove
<1>2. CASE ReadForUpdate(k)
  BY <1>2, OtherTaskStep DEF ReadForUpdate
<1>3. CASE SaveUpdate(k)
  <2> PICK d : d = call[k].deposit
    OBVIOUS
  <2>1. d \in Requests /\ deposit[d] \in Documents /\ DepositMeans(d)
    BY <1>3 DEF SaveUpdate, PaymentsType, CallType, DepositsInv
  <2>2. /\ \A x \in Requests : x # d => deposit'[x] = deposit[x]
        /\ deposit'[d].status = deposit[d].status /\ deposit'[d].mark = deposit[d].mark
    BY <1>3, <2>1 DEF SaveUpdate, PaymentsType, Documents
  <2>3. /\ DOMAIN call' = Calls /\ \A j \in Calls : j # k => call'[j] = call[j]
        /\ call'[k] = [at |-> "idle"]
        /\ UNCHANGED <<commission, credited>>
        /\ edited' = IF deposit[d].status = "PENDING" THEN edited ELSE edited \cup {d}
    BY <1>3 DEF SaveUpdate, Goes, PaymentsType
  <2>4. DepositMeans(d)'
    BY <2>1, <2>2, <2>3 DEF DepositMeans, Approved
  <2>5. ReconcilerMeans(call[k])'
    BY <2>3 DEF ReconcilerMeans
  <2> QED
    BY <2>1, <2>2, <2>3, <2>4, <2>5, DepositStep DEF Approved
<1>4. CASE Crash(k)
  BY <1>4, OtherTaskStep DEF Crash
<1> QED
  BY <1>1, <1>2, <1>3, <1>4

LEMMA EnvironmentKeepsDeposits ==
    ASSUME PaymentsType, DepositsInv, Environment \/ \E d \in Requests : RejectDeposit(d)
    PROVE  DepositsInv'
<1> USE DEF docs, environment, history
<1>1. CASE Environment
  <2>1. UNCHANGED <<deposit, commission, credited, edited, call>>
    BY <1>1 DEF Environment, Tick, SetReferralCommissionOverride, ChangeUser, ApproveSubAgent,
                SetCurrencyStatus
  <2> QED
    BY <2>1 DEF DepositsInv, DepositMeans, ReconcilerMeans, Approved
<1>2. ASSUME NEW d \in Requests, RejectDeposit(d) PROVE DepositsInv'
  <2>1. deposit[d] \in Documents /\ DepositMeans(d)
    BY DEF PaymentsType, DepositsInv
  <2>2. /\ deposit[d].status = "PENDING"
        /\ \A x \in Requests : x # d => deposit'[x] = deposit[x]
        /\ deposit'[d] = [deposit[d] EXCEPT !.status = "REJECTED", !.reviewedAt = clock]
        /\ UNCHANGED <<commission, credited, edited, call>>
    BY <1>2 DEF RejectDeposit, PaymentsType
  <2>3. /\ deposit'[d].status = "REJECTED" /\ deposit'[d].amount = deposit[d].amount
        /\ deposit'[d].mark = deposit[d].mark
    BY <2>1, <2>2 DEF Documents
  <2>4. ASSUME NEW x \in Requests PROVE DepositMeans(x)'
    <3>1. DepositMeans(x)
      BY DEF DepositsInv
    <3>2. CASE x = d
      BY <2>1, <2>2, <2>3, <3>2 DEF DepositMeans, Approved
    <3>3. CASE x # d
      BY <2>2, <3>1, <3>3 DEF DepositMeans, Approved
    <3> QED
      BY <3>2, <3>3
  <2>5. \A j \in Calls : ReconcilerMeans(call[j])'
    BY <2>2 DEF DepositsInv, ReconcilerMeans, Approved, PaymentsType, CallType
  <2> QED
    BY <2>4, <2>5 DEF DepositsInv
<1> QED
  BY <1>1, <1>2

LEMMA BridgeKeepsDeposits ==
    ASSUME PaymentsType, DepositsInv, NEW k \in Calls,
           \/ SubmitDeposit(k) \/ Deliver(k) \/ InsertEvent(k) \/ MatchParsedPaymentEvent(k)
           \/ ApplyMatchResult(k) \/ SaveAnswer(k) \/ MatchExistingUnmatchedPayment(k)
    PROVE  DepositsInv'
<1> USE DEF docs, environment, history
<1>1. CASE SubmitDeposit(k)
  <2>1. PICK d \in Requests, amount \in Amounts, currency \in configured :
          /\ CreateDepositRequest(d, amount, currency)
          /\ Goes(k, IF TransactionOf[d] = None THEN [at |-> "idle"]
                     ELSE [at |-> "search", deposit |-> d])
    BY <1>1 DEF SubmitDeposit
  <2>2. deposit[d] \in Documents /\ DepositMeans(d)
    BY DEF PaymentsType, DepositsInv
  <2>3. /\ deposit[d].status = "NONE"
        /\ \A x \in Requests : x # d => deposit'[x] = deposit[x]
        /\ deposit'[d] = [deposit[d] EXCEPT !.status = "PENDING", !.amount = amount,
                                            !.currency = currency]
        /\ UNCHANGED <<commission, credited, edited>>
    BY <2>1 DEF CreateDepositRequest, PaymentsType
  <2>4. deposit'[d].status = "PENDING" /\ deposit'[d].mark = deposit[d].mark
    BY <2>2, <2>3 DEF Documents
  <2>5. /\ DOMAIN call' = Calls /\ call'[k].at \in {"idle", "search"}
        /\ \A j \in Calls : j # k => call'[j] = call[j]
    BY <2>1 DEF Goes, PaymentsType
  <2>6. DepositMeans(d)'
    BY <2>2, <2>3, <2>4 DEF DepositMeans, Approved
  <2>7. ReconcilerMeans(call[k])'
    BY <2>5 DEF ReconcilerMeans
  <2> QED
    BY <2>3, <2>4, <2>5, <2>6, <2>7, DepositStep DEF Approved
<1>2. CASE Deliver(k)
  BY <1>2, OtherTaskStep DEF Deliver
<1>3. CASE InsertEvent(k)
  BY <1>3, OtherTaskStep DEF InsertEvent
<1>4. CASE MatchParsedPaymentEvent(k)
  BY <1>4, OtherTaskStep DEF MatchParsedPaymentEvent
<1>5. CASE ApplyMatchResult(k)
  BY <1>5, OtherTaskStep DEF ApplyMatchResult
<1>6. CASE SaveAnswer(k)
  BY <1>6, OtherTaskStep DEF SaveAnswer
<1>7. CASE MatchExistingUnmatchedPayment(k)
  BY <1>7, OtherTaskStep DEF MatchExistingUnmatchedPayment
<1> QED
  BY <1>1, <1>2, <1>3, <1>4, <1>5, <1>6, <1>7

LEMMA NextKeepsDeposits ==
    PaymentsType /\ DepositsInv /\ [Next]_<<vars, eventVars>> => DepositsInv'
<1> SUFFICES ASSUME PaymentsType, DepositsInv, [Next]_<<vars, eventVars>> PROVE DepositsInv'
  OBVIOUS
<1>1. CASE UNCHANGED <<vars, eventVars>>
  BY <1>1 DEF vars, DepositsInv, DepositMeans, ReconcilerMeans, Approved
<1> QED
  BY <1>1, ApprovalKeepsDeposits, ReconciliationKeepsDeposits, ReviewKeepsDeposits,
     EnvironmentKeepsDeposits, BridgeKeepsDeposits DEF Next

(***************************************************************************)
(* Messages and the deposits approved for them                             *)
(***************************************************************************)
\* A step of task k that concerns message e at most.
LEMMA EventStep ==
    ASSUME PaymentsType, EventsInv, NEW k \in Calls, NEW next, Goes(k, next), NEW e,
           overlapped \subseteq overlapped',
           \A m \in Messages : m # e =>
               event'[m] = event[m] /\ ApprovedFor(m)' = ApprovedFor(m) /\ ~Works(next, m),
           e \in Messages => TransactionMeans(e)' /\ (e \notin overlapped' => MessageMeans(e)')
    PROVE  EventsInv'
<1> SUFFICES ASSUME NEW m \in Messages
             PROVE  TransactionMeans(m)' /\ (m \notin overlapped' => MessageMeans(m)')
  BY DEF EventsInv
<1>1. CASE m = e
  BY <1>1
<1>2. CASE m # e
  <2>1. \A j \in Calls : call'[j] = IF j = k THEN next ELSE call[j]
    BY DEF Goes, PaymentsType
  <2>2. Matching(m)' \subseteq Matching(m) /\ \A j \in Matching(m)' : call'[j] = call[j]
    BY <1>2, <2>1 DEF Matching, Works
  <2>3. event'[m] = event[m] /\ ApprovedFor(m)' = ApprovedFor(m)
    BY <1>2
  <2>4. TransactionMeans(m) /\ (m \notin overlapped' => MessageMeans(m))
    BY DEF EventsInv
  <2>5. \A j \in Matching(m)' : TransactionTask(call[j], m)'
    BY <2>2, <2>4 DEF TransactionMeans, TransactionTask
  <2>6. TransactionMeans(m)'
    BY <2>3, <2>4, <2>5 DEF TransactionMeans
  <2>7. ASSUME m \notin overlapped', NEW j \in Matching(m)' PROVE TaskMeans(call[j], m)'
    <3>1. TaskMeans(call[j], m) /\ call'[j] = call[j]
      BY <2>2, <2>4, <2>7 DEF MessageMeans
    <3> QED
      BY <2>3, <3>1 DEF TaskMeans
  <2>8. m \notin overlapped' => RecordMeans(m)'
    BY <2>3, <2>4 DEF MessageMeans, RecordMeans
  <2>9. m \notin overlapped' => \A i, j \in Matching(m)' : i = j
    BY <2>2, <2>4 DEF MessageMeans
  <2> QED
    BY <2>6, <2>7, <2>8, <2>9 DEF MessageMeans
<1> QED
  BY <1>1, <1>2

LEMMA QuietStep ==
    ASSUME PaymentsType, EventsInv, NEW k \in Calls, NEW next, Goes(k, next),
           UNCHANGED <<event, overlapped>>, \A m \in Messages : ApprovedFor(m)' = ApprovedFor(m),
           \A m \in Messages : ~Works(next, m)
    PROVE  EventsInv'
BY EventStep, PaymentsAssumption

LEMMA SameApproved ==
    ASSUME NEW m \in Messages,
           \A d \in Requests : /\ deposit'[d].status = "APPROVED" <=> deposit[d].status = "APPROVED"
                               /\ deposit'[d].event = deposit[d].event
    PROVE  ApprovedFor(m)' = ApprovedFor(m)
BY DEF ApprovedFor

\* The one task of a message moves.
LEMMA OneTaskStep ==
    ASSUME PaymentsType, NEW k \in Calls, NEW next, Goes(k, next), NEW e \in Messages,
           Matching(e) \subseteq {k}, Works(next, e) => TaskMeans(next, e)', RecordMeans(e)'
    PROVE  MessageMeans(e)'
<1>1. \A j \in Calls : call'[j] = IF j = k THEN next ELSE call[j]
  BY DEF Goes, PaymentsType
<1>2. Matching(e)' \subseteq {k} /\ (k \in Matching(e)' => Works(next, e))
  BY <1>1 DEF Matching, Works
<1>3. ASSUME NEW j \in Matching(e)' PROVE TaskMeans(call[j], e)'
  <2>1. call'[j] = next /\ Works(next, e)
    BY <1>1, <1>2, <1>3
  <2> QED
    BY <2>1 DEF TaskMeans
<1> QED
  BY <1>2, <1>3 DEF MessageMeans

LEMMA TransactionStep ==
    ASSUME PaymentsType, EventsInv, NEW k \in Calls, NEW next, Goes(k, next), NEW e \in Messages,
           \A d \in ApprovedFor(e)' : d \in ApprovedFor(e) \/ TransactionOf[d] = Transaction[e],
           Works(next, e) => TransactionTask(next, e)
    PROVE  TransactionMeans(e)'
<1>1. \A j \in Calls : call'[j] = IF j = k THEN next ELSE call[j]
  BY DEF Goes, PaymentsType
<1>2. TransactionMeans(e)
  BY DEF EventsInv
<1>3. ASSUME NEW j \in Matching(e)' PROVE TransactionTask(call[j], e)'
  <2>1. TransactionTask(call'[j], e)
    BY <1>1, <1>2, <1>3 DEF TransactionMeans, Matching, Works
  <2> QED
    BY <2>1 DEF TransactionTask
<1> QED
  BY <1>2, <1>3 DEF TransactionMeans

\* The task that works for a message is the only one, unless it was overlapped.
LEMMA TheTask ==
    ASSUME EventsInv, NEW k \in Calls, NEW e \in Messages, Works(call[k], e)
    PROVE  /\ TransactionTask(call[k], e)
           /\ e \notin overlapped =>
                 Matching(e) \subseteq {k} /\ TaskMeans(call[k], e) /\ RecordMeans(e)
BY DEF EventsInv, TransactionMeans, MessageMeans, Matching, Works

\* The task moves on without touching the event or the deposits.
LEMMA SameTaskStep ==
    ASSUME PaymentsType, EventsInv, NEW k \in Calls, NEW next, Goes(k, next),
           UNCHANGED <<deposit, event, overlapped>>, NEW e \in Messages, Works(call[k], e),
           next.event = e, TransactionTask(next, e),
           e \notin overlapped => TaskMeans(next, e)
    PROVE  EventsInv'
<1>1. \A m \in Messages : ApprovedFor(m)' = ApprovedFor(m)
  BY DEF ApprovedFor
<1>2. TransactionMeans(e)'
  BY <1>1, TransactionStep
<1>3. ASSUME e \notin overlapped PROVE MessageMeans(e)'
  <2>1. TaskMeans(next, e)'
    BY <1>1, <1>3 DEF TaskMeans
  <2>2. RecordMeans(e)'
    BY <1>1, <1>3, TheTask DEF RecordMeans
  <2> QED
    BY <1>3, <2>1, <2>2, TheTask, OneTaskStep
<1> QED
  BY <1>1, <1>2, <1>3, EventStep DEF Works

\* The bridge is told how its approval ended, without one.
LEMMA EndedFalse ==
    ASSUME PaymentsType, EventsInv, NEW k \in Calls, call[k].at \in {"approve", "approving"},
           Ended(k, FALSE), UNCHANGED <<deposit, event, overlapped>>
    PROVE  EventsInv'
<1> PICK c : c = call[k]
  OBVIOUS
<1>1. c.event \in Messages \cup {None} /\ c.at \in {"approve", "approving"}
  BY DEF PaymentsType, CallType
<1>2. \A m \in Messages : ApprovedFor(m)' = ApprovedFor(m)
  BY DEF ApprovedFor
<1>3. CASE c.event = None
  <2>1. Goes(k, [at |-> "idle"]) /\ \A m \in Messages : ~Works([at |-> "idle"], m)
    BY <1>3 DEF Ended, Works
  <2> QED
    BY <1>2, <2>1, QuietStep
<1>4. CASE c.event # None
  <2> DEFINE next == [at |-> "answered", event |-> c.event, approved |-> FALSE]
  <2>1. Goes(k, next)
    BY <1>4 DEF Ended
  <2>2. TransactionTask(next, c.event) /\ TaskMeans(next, c.event) /\ next.event = c.event
    BY DEF TransactionTask, TaskMeans
  <2>3. c.event \in Messages /\ Works(call[k], c.event)
    BY <1>1, <1>4 DEF Works
  <2> QED
    BY <2>1, <2>2, <2>3, SameTaskStep
<1> QED
  BY <1>3, <1>4

\* An approval begins, or begins again.
LEMMA RestartedApproval ==
    ASSUME PaymentsType, EventsInv, NEW k \in Calls, call[k].at \in {"approve", "approving"},
           NEW next, Goes(k, next), next.at \in {"approve", "approving"},
           next.event = call[k].event, next.deposit = call[k].deposit,
           UNCHANGED <<deposit, event, overlapped>>
    PROVE  EventsInv'
<1> PICK c : c = call[k]
  OBVIOUS
<1>1. c.event \in Messages \cup {None} /\ c.at \in {"approve", "approving"}
  BY DEF PaymentsType, CallType
<1>2. \A m \in Messages : ApprovedFor(m)' = ApprovedFor(m)
  BY DEF ApprovedFor
<1>3. CASE c.event = None
  BY <1>2, <1>3, QuietStep, PaymentsAssumption DEF Works
<1>4. CASE c.event # None
  <2>1. c.event \in Messages /\ Works(c, c.event)
    BY <1>1, <1>4 DEF Works
  <2>2. TransactionTask(c, c.event) /\ (c.event \notin overlapped => TaskMeans(c, c.event))
    BY <2>1, TheTask
  <2>3. TransactionTask(next, c.event)
    BY <1>1, <2>2 DEF TransactionTask
  <2>4. c.event \notin overlapped => TaskMeans(next, c.event)
    BY <1>1, <2>2 DEF TaskMeans
  <2> QED
    BY <2>1, <2>3, <2>4, SameTaskStep
<1> QED
  BY <1>3, <1>4

LEMMA CommitKeepsEvents ==
    ASSUME PaymentsType, EventsInv, NEW k \in Calls, CommitApproval(k), UNCHANGED eventVars
    PROVE  EventsInv'
<1> PICK c : c = call[k]
  OBVIOUS
<1> PICK d : d = c.deposit
  OBVIOUS
<1>1. /\ c.at = "approving" /\ d \in Requests /\ deposit[d].status = "PENDING"
      /\ c.event \in Messages \cup {None}
      /\ deposit'[d].status = "APPROVED" /\ deposit'[d].event = c.event
      /\ \A x \in Requests : x # d => deposit'[x] = deposit[x]
  BY CommittedDeposit DEF CallType
<1>2. event' = event /\ overlapped' = overlapped /\ Ended(k, TRUE)
  BY DEF CommitApproval, eventVars
<1>3. \A m \in Messages : ApprovedFor(m)' = IF m = c.event THEN ApprovedFor(m) \cup {d}
                                             ELSE ApprovedFor(m)
  BY <1>1 DEF ApprovedFor
<1>4. CASE c.event = None
  <2>1. Goes(k, [at |-> "idle"]) /\ \A m \in Messages : ~Works([at |-> "idle"], m)
    BY <1>2, <1>4 DEF Ended, Works
  <2>2. \A m \in Messages : ApprovedFor(m)' = ApprovedFor(m)
    BY <1>3, <1>4, PaymentsAssumption
  <2> QED
    BY <1>2, <2>1, <2>2, QuietStep
<1>5. CASE c.event # None
  <2> DEFINE next == [at |-> "answered", event |-> c.event, approved |-> TRUE]
  <2>1. c.event \in Messages /\ Works(call[k], c.event) /\ Goes(k, next)
    BY <1>1, <1>2, <1>5 DEF Works, Ended
  <2>2. TransactionOf[d] = Transaction[c.event]
    <3>1. TransactionTask(c, c.event)
      BY <2>1, TheTask
    <3> QED
      BY <1>1, <3>1 DEF TransactionTask
  <2>3. TransactionMeans(c.event)'
    <3>1. Works(next, c.event) => TransactionTask(next, c.event)
      BY DEF TransactionTask
    <3> QED
      BY <1>3, <2>1, <2>2, <3>1, TransactionStep
  <2>4. ASSUME c.event \notin overlapped PROVE MessageMeans(c.event)'
    <3>1. Matching(c.event) \subseteq {k} /\ TaskMeans(c, c.event)
      BY <2>1, <2>4, TheTask
    <3>2. /\ event[c.event].exists /\ event[c.event].match = "MATCHED"
          /\ event[c.event].deposit = d /\ ApprovedFor(c.event)' = {d}
      BY <1>1, <1>3, <2>1, <3>1 DEF TaskMeans
    <3>3. TaskMeans(next, c.event)' /\ RecordMeans(c.event)'
      BY <1>2, <3>2 DEF TaskMeans, RecordMeans
    <3> QED
      BY <2>1, <3>1, <3>3, OneTaskStep
  <2> QED
    BY <1>2, <1>3, <2>1, <2>3, <2>4, EventStep DEF Works
<1> QED
  BY <1>4, <1>5

LEMMA ApprovalKeepsEvents ==
    ASSUME PaymentsType, EventsInv, NEW k \in Calls, Approval(k), UNCHANGED eventVars
    PROVE  EventsInv'
<1> USE DEF docs, eventVars
<1>1. CASE RefuseApproval(k)
  BY <1>1, EndedFalse DEF RefuseApproval
<1>2. CASE BeginApproval(k)
  BY <1>2, RestartedApproval DEF BeginApproval
<1>3. CASE CommitApproval(k)
  BY <1>3, CommitKeepsEvents
<1>4. CASE ConflictApproval(k)
  BY <1>4, RestartedApproval DEF ConflictApproval
<1>5. CASE AbortApproval(k)
  BY <1>5, EndedFalse DEF AbortApproval
<1> QED
  BY <1>1, <1>2, <1>3, <1>4, <1>5 DEF Approval

\* A step of a task that approves nothing and has no event.
LEMMA ReviewKeepsEvents ==
    ASSUME PaymentsType, EventsInv, NEW k \in Calls, UNCHANGED eventVars,
           \/ ApproveDeposit(k) \/ Reconciliation(k) \/ ReadForUpdate(k) \/ SaveUpdate(k)
           \/ Crash(k)
    PROVE  EventsInv'
<1> USE DEF docs, eventVars
<1>1. PICK next : Goes(k, next) /\ \A m \in Messages : ~Works(next, m)
  <2>1. CASE ApproveDeposit(k)
    BY <2>1, PaymentsAssumption DEF ApproveDeposit, CallApprove, Works
  <2>2. CASE Reconciliation(k)
    <3>1. CASE ReadForReconciliation(k)
      BY <3>1 DEF ReadForReconciliation, Works
    <3>2. CASE MarkPending(k)
      BY <3>2 DEF MarkPending, Works
    <3>3. CASE CreateCommissionRecord(k)
      <4>1. PICK d, told : Goes(k, [at |-> "mark", deposit |-> d, outcome |-> told])
        BY <3>3, Zenon DEF CreateCommissionRecord
      <4> QED
        BY <4>1 DEF Works
    <3>4. CASE MarkDepositCommission(k)
      BY <3>4 DEF MarkDepositCommission, Works
    <3> QED
      BY <2>2, <3>1, <3>2, <3>3, <3>4 DEF Reconciliation
  <2>3. CASE ReadForUpdate(k)
    <3>1. PICK d, amount : Goes(k, [at |-> "update", deposit |-> d, amount |-> amount])
      BY <2>3 DEF ReadForUpdate
    <3> QED
      BY <3>1 DEF Works
  <2>4. CASE SaveUpdate(k) \/ Crash(k)
    <3>1. Goes(k, [at |-> "idle"])
      BY <2>4 DEF SaveUpdate, Crash
    <3> QED
      BY <3>1 DEF Works
  <2> QED
    BY <2>1, <2>2, <2>3, <2>4
<1>2. \A d \in Requests : deposit'[d].status = deposit[d].status
                          /\ deposit'[d].event = deposit[d].event
  <2>1. CASE UNCHANGED deposit
    BY <2>1
  <2>2. CASE MarkPending(k) \/ MarkDepositCommission(k) \/ SaveUpdate(k)
    <3>1. call[k].deposit \in Requests
      BY <2>2 DEF MarkPending, MarkDepositCommission, SaveUpdate, PaymentsType, CallType
    <3> PICK d : d = call[k].deposit
      OBVIOUS
    <3>2. deposit[d] \in Documents
      BY <3>1 DEF PaymentsType
    <3>3. /\ deposit'[d].status = deposit[d].status /\ deposit'[d].event = deposit[d].event
          /\ \A x \in Requests : x # d => deposit'[x] = deposit[x]
      <4>1. CASE MarkPending(k)
        BY <4>1, <3>1, <3>2 DEF MarkPending, PaymentsType, Documents
      <4>2. CASE MarkDepositCommission(k)
        <5>1. PICK mark, told : deposit' = [deposit EXCEPT ![d] =
                                    [deposit[d] EXCEPT !.mark = mark, !.outcome = told]]
          BY <4>2 DEF MarkDepositCommission
        <5> QED
          BY <3>1, <3>2, <5>1 DEF PaymentsType, Documents
      <4>3. CASE SaveUpdate(k)
        BY <4>3, <3>1, <3>2 DEF SaveUpdate, PaymentsType, Documents
      <4> QED
        BY <2>2, <4>1, <4>2, <4>3
    <3> QED
      BY <3>3
  <2> QED
    BY <2>1, <2>2 DEF ApproveDeposit, CallApprove, Reconciliation, ReadForReconciliation,
                      CreateCommissionRecord, ReadForUpdate, Crash
<1>3. \A m \in Messages : ApprovedFor(m)' = ApprovedFor(m)
  BY <1>2, SameApproved
<1> QED
  BY <1>1, <1>3, QuietStep

\* A task takes up a message that no task works for, or it is overlapped.
LEMMA TaskStarts ==
    ASSUME PaymentsType, EventsInv, NEW k \in Calls, NEW next, Goes(k, next),
           NEW e \in Messages, next.event = e, StartsOn(e), UNCHANGED <<deposit, event>>,
           TransactionTask(next, e), TaskMeans(next, e)
    PROVE  EventsInv'
<1>1. \A m \in Messages : ApprovedFor(m)' = ApprovedFor(m)
  BY DEF ApprovedFor
<1>2. overlapped \subseteq overlapped' /\ (e \notin overlapped' => Matching(e) = {})
  BY DEF StartsOn
<1>3. TransactionMeans(e)'
  BY <1>1, TransactionStep
<1>4. ASSUME e \notin overlapped' PROVE MessageMeans(e)'
  <2>1. RecordMeans(e)
    BY <1>2, <1>4 DEF EventsInv, MessageMeans
  <2>2. RecordMeans(e)' /\ TaskMeans(next, e)'
    BY <1>1, <2>1 DEF RecordMeans, TaskMeans
  <2> QED
    BY <1>2, <1>4, <2>2, OneTaskStep
<1> QED
  BY <1>1, <1>2, <1>3, <1>4, EventStep DEF Works

LEMMA SubmitKeepsEvents ==
    ASSUME PaymentsType, EventsInv, NEW k \in Calls, SubmitDeposit(k)
    PROVE  EventsInv'
<1>1. PICK d \in Requests, amount \in Amounts, currency \in configured :
        /\ CreateDepositRequest(d, amount, currency)
        /\ Goes(k, IF TransactionOf[d] = None THEN [at |-> "idle"]
                   ELSE [at |-> "search", deposit |-> d])
  BY DEF SubmitDeposit
<1>2. UNCHANGED <<event, overlapped>>
  BY DEF SubmitDeposit, eventVars
<1>3. PICK next : Goes(k, next) /\ \A m \in Messages : ~Works(next, m)
  BY <1>1 DEF Works
<1>4. deposit[d] \in Documents
  BY DEF PaymentsType
<1>5. /\ deposit[d].status = "NONE" /\ deposit'[d].status = "PENDING"
      /\ \A x \in Requests : x # d => deposit'[x] = deposit[x]
  BY <1>1, <1>4 DEF CreateDepositRequest, PaymentsType, Documents
<1>6. \A m \in Messages : ApprovedFor(m)' = ApprovedFor(m)
  BY <1>5 DEF ApprovedFor
<1> QED
  BY <1>2, <1>3, <1>6, QuietStep

LEMMA DeliverKeepsEvents ==
    ASSUME PaymentsType, EventsInv, NEW k \in Calls, Deliver(k)
    PROVE  EventsInv'
<1>1. PICK m \in Messages :
        IF Known(m) THEN Goes(k, [at |-> "idle"]) /\ UNCHANGED overlapped
        ELSE Goes(k, [at |-> "insert", event |-> m]) /\ StartsOn(m)
  BY DEF Deliver
<1>2. UNCHANGED <<deposit, event>>
  BY DEF Deliver, docs
<1>3. CASE Known(m)
  <2>1. \A e \in Messages : ApprovedFor(e)' = ApprovedFor(e) /\ ~Works([at |-> "idle"], e)
    BY <1>2 DEF ApprovedFor, Works
  <2> QED
    BY <1>1, <1>2, <1>3, <2>1, QuietStep
<1>4. CASE ~Known(m)
  <2>1. ~event[m].exists
    BY <1>4 DEF Known
  <2>2. /\ TransactionTask([at |-> "insert", event |-> m], m)
        /\ TaskMeans([at |-> "insert", event |-> m], m)
    BY <2>1 DEF TransactionTask, TaskMeans
  <2> QED
    BY <1>1, <1>2, <1>4, <2>2, TaskStarts
<1> QED
  BY <1>3, <1>4

LEMMA InsertKeepsEvents ==
    ASSUME PaymentsType, EventsInv, NEW k \in Calls, InsertEvent(k)
    PROVE  EventsInv'
<1> PICK m : m = call[k].event
  OBVIOUS
<1>1. m \in Messages /\ call[k].at = "insert" /\ Works(call[k], m)
  BY DEF InsertEvent, PaymentsType, CallType, Works
<1>2. UNCHANGED <<deposit, overlapped>>
  BY DEF InsertEvent, docs
<1>3. \A e \in Messages : ApprovedFor(e)' = ApprovedFor(e)
  BY <1>2 DEF ApprovedFor
<1>4. CASE Known(m)
  <2>1. Goes(k, [at |-> "idle"]) /\ event' = event
    BY <1>4 DEF InsertEvent
  <2>2. \A e \in Messages : ~Works([at |-> "idle"], e)
    BY DEF Works
  <2> QED
    BY <1>2, <1>3, <2>1, <2>2, QuietStep
<1>5. CASE ~Known(m)
  <2>1. /\ \A e \in Messages : e # m => event'[e] = event[e]
        /\ event'[m] = [exists |-> TRUE, match |-> "UNMATCHED", deposit |-> None,
                        error |-> FALSE]
    BY <1>1, <1>5 DEF InsertEvent, PaymentsType
  <2>2. PICK next : /\ Goes(k, next) /\ next.at \in {"match", "idle"}
                    /\ next.at = "match" => next.event = m
    BY <1>5 DEF InsertEvent
  <2>3. TransactionMeans(m)'
    <3>1. TransactionTask(next, m)
      BY <2>2 DEF TransactionTask
    <3> QED
      BY <1>1, <1>3, <2>2, <3>1, TransactionStep
  <2>4. ASSUME m \notin overlapped PROVE MessageMeans(m)'
    <3>1. Matching(m) \subseteq {k} /\ TaskMeans(call[k], m) /\ RecordMeans(m)
      BY <1>1, <2>4, TheTask
    <3>2. ApprovedFor(m)' = {}
      BY <1>1, <1>3, <3>1 DEF TaskMeans, RecordMeans
    <3>3. RecordMeans(m)' /\ TaskMeans(next, m)'
      BY <2>1, <2>2, <3>2 DEF RecordMeans, TaskMeans
    <3> QED
      BY <1>1, <2>2, <3>1, <3>3, OneTaskStep
  <2>5. \A e \in Messages : e # m => ~Works(next, e)
    BY <2>2 DEF Works
  <2> QED
    BY <1>2, <1>3, <2>1, <2>2, <2>3, <2>4, <2>5, EventStep
<1> QED
  BY <1>4, <1>5

LEMMA MatchKeepsEvents ==
    ASSUME PaymentsType, EventsInv, NEW k \in Calls, MatchParsedPaymentEvent(k)
    PROVE  EventsInv'
<1> PICK m : m = call[k].event
  OBVIOUS
<1>1. m \in Messages /\ call[k].at = "match" /\ Works(call[k], m)
  BY DEF MatchParsedPaymentEvent, PaymentsType, CallType, Works
<1>2. PICK d \in IF MatchResult(m) = "MATCHED" THEN Exact(m) ELSE {None} :
        Goes(k, [at |-> "apply", event |-> m, result |-> MatchResult(m), deposit |-> d])
  BY DEF MatchParsedPaymentEvent
<1> PICK next : next = [at |-> "apply", event |-> m, result |-> MatchResult(m), deposit |-> d]
  OBVIOUS
<1>3. next.event = m /\ next.at = "apply" /\ next.deposit = d /\ next.result = MatchResult(m)
  OBVIOUS
<1>4. TransactionTask(next, m)
  BY <1>2, <1>3 DEF TransactionTask, Exact, Same
<1>5. m \notin overlapped => TaskMeans(next, m)
  BY <1>1, <1>3, TheTask DEF TaskMeans
<1> QED
  BY <1>1, <1>2, <1>3, <1>4, <1>5, SameTaskStep DEF MatchParsedPaymentEvent, docs, eventVars

LEMMA ApplyKeepsEvents ==
    ASSUME PaymentsType, EventsInv, NEW k \in Calls, ApplyMatchResult(k)
    PROVE  EventsInv'
<1> PICK c : c = call[k]
  OBVIOUS
<1> PICK m : m = c.event
  OBVIOUS
<1>1. /\ m \in Messages /\ c.at = "apply" /\ Works(call[k], m)
      /\ c.result \in Matches \ {"NONE", "PROCESSED"} /\ event[m] \in EventDocuments
  BY DEF ApplyMatchResult, PaymentsType, CallType, Works
<1>2. UNCHANGED <<deposit, overlapped>>
  BY DEF ApplyMatchResult, docs
<1>3. \A e \in Messages : ApprovedFor(e)' = ApprovedFor(e)
  BY <1>2 DEF ApprovedFor
<1>4. /\ \A e \in Messages : e # m => event'[e] = event[e]
      /\ event'[m] = IF c.result = "UNMATCHED" THEN event[m]
                     ELSE [event[m] EXCEPT !.match = c.result, !.deposit = c.deposit]
  BY <1>1 DEF ApplyMatchResult, PaymentsType
<1>5. /\ event'[m].exists = event[m].exists
      /\ c.result # "UNMATCHED" => event'[m].match = c.result /\ event'[m].deposit = c.deposit
      /\ c.result = "UNMATCHED" => event'[m] = event[m]
  BY <1>1, <1>4 DEF EventDocuments
<1>6. PICK next : /\ Goes(k, next) /\ next.at \in {"approve", "idle"}
                  /\ next.at = "approve" => /\ next.event = m /\ next.deposit = c.deposit
                                            /\ c.result = "MATCHED"
  BY DEF ApplyMatchResult
<1>7. TransactionMeans(m)'
  <2>1. TransactionTask(c, m)
    BY <1>1, TheTask
  <2>2. TransactionTask(next, m)
    BY <1>1, <1>6, <2>1 DEF TransactionTask
  <2> QED
    BY <1>1, <1>3, <1>6, <2>2, TransactionStep
<1>8. ASSUME m \notin overlapped PROVE MessageMeans(m)'
  <2>1. Matching(m) \subseteq {k} /\ TaskMeans(c, m) /\ RecordMeans(m)
    BY <1>1, <1>8, TheTask
  <2>2. event[m].exists /\ event[m].match = "UNMATCHED" /\ ApprovedFor(m)' = {}
    BY <1>1, <1>3, <2>1 DEF TaskMeans, RecordMeans
  <2>3. RecordMeans(m)'
    BY <1>1, <1>5, <2>2 DEF RecordMeans
  <2>4. TaskMeans(next, m)'
    BY <1>5, <1>6, <2>2 DEF TaskMeans
  <2> QED
    BY <1>1, <1>6, <2>1, <2>3, <2>4, OneTaskStep
<1>9. \A e \in Messages : e # m => ~Works(next, e)
  BY <1>6 DEF Works
<1> QED
  BY <1>2, <1>3, <1>4, <1>6, <1>7, <1>8, <1>9, EventStep

LEMMA SaveKeepsEvents ==
    ASSUME PaymentsType, EventsInv, NEW k \in Calls, SaveAnswer(k)
    PROVE  EventsInv'
<1> PICK c : c = call[k]
  OBVIOUS
<1> PICK m : m = c.event
  OBVIOUS
<1>1. m \in Messages /\ c.at = "answered" /\ Works(call[k], m) /\ event[m] \in EventDocuments
  BY DEF SaveAnswer, PaymentsType, CallType, Works
<1>2. UNCHANGED <<deposit, overlapped>> /\ Goes(k, [at |-> "idle"])
  BY DEF SaveAnswer, docs
<1>3. \A e \in Messages : ApprovedFor(e)' = ApprovedFor(e) /\ ~Works([at |-> "idle"], e)
  BY <1>2 DEF ApprovedFor, Works
<1>4. /\ \A e \in Messages : e # m => event'[e] = event[e]
      /\ event'[m].exists = event[m].exists /\ event'[m].deposit = event[m].deposit
      /\ event'[m].match = IF c.approved THEN "PROCESSED" ELSE event[m].match
  <2>1. CASE c.approved
    BY <1>1, <2>1 DEF SaveAnswer, PaymentsType, EventDocuments
  <2>2. CASE ~c.approved
    BY <1>1, <2>2 DEF SaveAnswer, PaymentsType, EventDocuments
  <2> QED
    BY <2>1, <2>2
<1>5. TransactionMeans(m)'
  BY <1>1, <1>2, <1>3, TransactionStep
<1>6. ASSUME m \notin overlapped PROVE MessageMeans(m)'
  <2>1. Matching(m) \subseteq {k} /\ TaskMeans(c, m) /\ RecordMeans(m)
    BY <1>1, <1>6, TheTask
  <2>2. RecordMeans(m)'
    <3>1. CASE c.approved
      BY <1>1, <1>3, <1>4, <2>1, <3>1 DEF TaskMeans, RecordMeans
    <3>2. CASE ~c.approved
      BY <1>1, <1>3, <1>4, <2>1, <3>2 DEF RecordMeans
    <3> QED
      BY <3>1, <3>2
  <2> QED
    BY <1>1, <1>2, <1>3, <2>1, <2>2, OneTaskStep
<1> QED
  BY <1>2, <1>3, <1>4, <1>5, <1>6, EventStep

LEMMA SearchKeepsEvents ==
    ASSUME PaymentsType, EventsInv, NEW k \in Calls, MatchExistingUnmatchedPayment(k)
    PROVE  EventsInv'
<1>1. UNCHANGED <<deposit, event>>
  BY DEF MatchExistingUnmatchedPayment, docs
<1>2. CASE Goes(k, [at |-> "idle"]) /\ UNCHANGED overlapped
  <2>1. \A e \in Messages : ApprovedFor(e)' = ApprovedFor(e) /\ ~Works([at |-> "idle"], e)
    BY <1>1 DEF ApprovedFor, Works
  <2> QED
    BY <1>1, <1>2, <2>1, QuietStep
<1>3. ASSUME NEW m \in Candidates(call[k].deposit), Goes(k, [at |-> "match", event |-> m]),
             StartsOn(m)
      PROVE  EventsInv'
  <2>1. m \in Messages /\ event[m].exists /\ event[m].match = "UNMATCHED"
    BY DEF Candidates
  <2>2. /\ TransactionTask([at |-> "match", event |-> m], m)
        /\ TaskMeans([at |-> "match", event |-> m], m)
    BY <2>1 DEF TransactionTask, TaskMeans
  <2> QED
    BY <1>1, <1>3, <2>1, <2>2, TaskStarts
<1> QED
  BY <1>2, <1>3 DEF MatchExistingUnmatchedPayment

\* What no task does leaves the approvals of every message as they were.
LEMMA OtherKeepsEvents ==
    ASSUME PaymentsType, EventsInv, UNCHANGED eventVars,
           \/ UNCHANGED vars \/ Environment \/ \E d \in Requests : RejectDeposit(d)
    PROVE  EventsInv'
<1> USE DEF docs, eventVars
<1>1. call' = call
  BY DEF vars, Environment, Tick, SetReferralCommissionOverride, ChangeUser, ApproveSubAgent,
         SetCurrencyStatus, RejectDeposit
<1>2. \A m \in Messages : ApprovedFor(m)' = ApprovedFor(m)
  <2>1. CASE UNCHANGED deposit
    BY <2>1 DEF ApprovedFor
  <2>2. ASSUME NEW d \in Requests, RejectDeposit(d)
        PROVE  \A m \in Messages : ApprovedFor(m)' = ApprovedFor(m)
    <3>1. /\ deposit[d] \in Documents /\ deposit[d].status = "PENDING"
          /\ \A x \in Requests : x # d => deposit'[x] = deposit[x]
          /\ deposit'[d] = [deposit[d] EXCEPT !.status = "REJECTED", !.reviewedAt = clock]
      BY <2>2 DEF RejectDeposit, PaymentsType
    <3>2. deposit'[d].status = "REJECTED"
      BY <3>1 DEF Documents
    <3> QED
      BY <3>1, <3>2 DEF ApprovedFor
  <2> QED
    BY <2>1, <2>2 DEF vars, Environment, Tick, SetReferralCommissionOverride, ChangeUser,
                      ApproveSubAgent, SetCurrencyStatus
<1>3. ASSUME NEW m \in Messages
      PROVE  TransactionMeans(m)' /\ (m \notin overlapped' => MessageMeans(m)')
  <2>1. TransactionMeans(m) /\ (m \notin overlapped => MessageMeans(m))
    BY DEF EventsInv
  <2>2. Matching(m)' = Matching(m)
    BY <1>1 DEF Matching
  <2>3. TransactionMeans(m)'
    BY <1>1, <1>2, <2>1, <2>2 DEF TransactionMeans, TransactionTask
  <2>4. ASSUME m \notin overlapped PROVE MessageMeans(m)'
    <3>1. RecordMeans(m)' /\ \A k \in Matching(m)' : TaskMeans(call[k], m)'
      BY <1>1, <1>2, <2>1, <2>2, <2>4 DEF MessageMeans, RecordMeans, TaskMeans
    <3> QED
      BY <2>1, <2>2, <2>4, <3>1 DEF MessageMeans
  <2> QED
    BY <2>3, <2>4
<1> QED
  BY <1>3 DEF EventsInv

LEMMA NextKeepsEvents ==
    PaymentsType /\ EventsInv /\ [Next]_<<vars, eventVars>> => EventsInv'
<1> SUFFICES ASSUME PaymentsType, EventsInv, [Next]_<<vars, eventVars>> PROVE EventsInv'
  OBVIOUS
<1>1. CASE UNCHANGED <<vars, eventVars>>
  BY <1>1, OtherKeepsEvents
<1> QED
  BY <1>1, SubmitKeepsEvents, DeliverKeepsEvents, InsertKeepsEvents, MatchKeepsEvents,
     ApplyKeepsEvents, SaveKeepsEvents, SearchKeepsEvents, ReviewKeepsEvents,
     ApprovalKeepsEvents, OtherKeepsEvents DEF Next

(***************************************************************************)
(* The invariant, and what follows from it                                 *)
(***************************************************************************)
LEMMA InitHasInv == EventInit => PaymentsInv
<1> SUFFICES ASSUME EventInit PROVE PaymentsInv
  OBVIOUS
<1> USE DEF EventInit, Init
<1>1. PaymentsType
  <2>1. [status |-> "NONE", amount |-> 0, currency |-> None, reviewedAt |-> 0,
         event |-> None, mark |-> "NONE", outcome |-> "NONE"] \in Documents
    BY DEF Documents, Outcomes
  <2>2. NoEvent \in EventDocuments
    BY DEF NoEvent, EventDocuments, Matches
  <2>3. CallType([at |-> "idle"])
    BY DEF CallType
  <2> QED
    BY <2>1, <2>2, <2>3 DEF PaymentsType
<1>2. DepositsInv
  <2>1. \A d \in Requests : DepositMeans(d)
    BY DEF DepositMeans, Approved, NoCommission
  <2>2. \A k \in Calls : ReconcilerMeans(call[k])
    BY DEF ReconcilerMeans
  <2> QED
    BY <2>1, <2>2 DEF DepositsInv
<1>3. EventsInv
  <2>1. \A m \in Messages : Matching(m) = {} /\ ApprovedFor(m) = {}
    BY DEF Matching, ApprovedFor
  <2>2. \A m \in Messages : event[m] = NoEvent
    OBVIOUS
  <2> QED
    BY <2>1, <2>2 DEF EventsInv, TransactionMeans, MessageMeans, RecordMeans, NoEvent
<1> QED
  BY <1>1, <1>2, <1>3 DEF PaymentsInv

LEMMA NextKeepsInv == PaymentsInv /\ [Next]_<<vars, eventVars>> => PaymentsInv'
BY PaymentsNextType, NextKeepsDeposits, NextKeepsEvents DEF PaymentsInv

LEMMA InvHolds == Spec => []PaymentsInv
BY InitHasInv, NextKeepsInv, PTL DEF Spec

\* The documents, the events and the tasks have the values the code gives them.
THEOREM PaymentsTypeCorrect == Spec => []PaymentsType
<1>1. PaymentsInv => PaymentsType
  BY DEF PaymentsInv
<1> QED
  BY <1>1, InvHolds, PTL

\* createReferralCommission: a commission is never changed once it exists, neither
\* by the commit of an approval, which finds the deposit PENDING and thus without a
\* commission, nor by a reconciliation.
THEOREM CommissionStaysFixed == Spec => CommissionFixed
<1> DEFINE Fixed == \A d \in Requests : commission[d].exists => commission'[d] = commission[d]
<1>1. PaymentsInv /\ [Next]_<<vars, eventVars>> => [Fixed]_vars
  <2> SUFFICES ASSUME PaymentsInv, [Next]_<<vars, eventVars>>, NEW d \in Requests,
                      commission[d].exists, commission' # commission
               PROVE  commission'[d] = commission[d]
    BY DEF vars
  <2>1. PICK k \in Calls : CommitApproval(k) \/ CreateCommissionRecord(k)
    BY ZenonT(60) DEF Next, vars, docs, SubmitDeposit, CreateDepositRequest, Deliver, InsertEvent,
           MatchParsedPaymentEvent, ApplyMatchResult, SaveAnswer,
           MatchExistingUnmatchedPayment, ApproveDeposit, CallApprove, Approval,
           RefuseApproval, BeginApproval, ConflictApproval, AbortApproval, Reconciliation,
           ReadForReconciliation, MarkPending, MarkDepositCommission, ReadForUpdate,
           SaveUpdate, Crash, Environment, Tick, SetReferralCommissionOverride, ChangeUser,
           ApproveSubAgent, SetCurrencyStatus, RejectDeposit
  <2>2. CASE CommitApproval(k)
    <3>1. deposit[call[k].deposit].status = "PENDING" /\ Approved(d)
      BY <2>2, CommittedDeposit DEF PaymentsInv, DepositsInv, DepositMeans
    <3>2. PICK new : commission' = commission
                     \/ commission' = [commission EXCEPT ![call[k].deposit] = new]
      BY <2>2 DEF CommitApproval
    <3> QED
      BY <3>1, <3>2 DEF Approved, PaymentsInv, PaymentsType
  <2>3. CASE CreateCommissionRecord(k)
    <3>1. PICK new : commission' = commission
                     \/ commission' = InsertCommission(call[k].deposit, new)
      BY <2>3 DEF CreateCommissionRecord
    <3> QED
      BY <3>1 DEF InsertCommission, PaymentsInv, PaymentsType
  <2> QED
    BY <2>1, <2>2, <2>3
<1> QED
  BY <1>1, InvHolds, PTL DEF Spec, CommissionFixed

\* A commission is of what was credited for the deposit, and a deposit marked
\* PROCESSED has one.
THEOREM CommissionIsOnCredit == Spec => []CommissionOnCredited
<1>1. PaymentsInv => CommissionOnCredited
  <2> SUFFICES ASSUME PaymentsInv, NEW d \in Requests
               PROVE  /\ commission[d].exists /\ d \notin edited =>
                            Contains(credited[d], commission[d].amount)
                      /\ deposit[d].mark = "PROCESSED" => commission[d].exists
    BY DEF CommissionOnCredited
  <2>1. DepositMeans(d) /\ credited[d] \in Seq(Amounts \cup {0})
    BY DEF PaymentsInv, DepositsInv, PaymentsType
  <2>2. ASSUME commission[d].exists, d \notin edited
        PROVE  Contains(credited[d], commission[d].amount)
    <3>1. Len(credited[d]) = 1 /\ commission[d].amount = credited[d][1]
      BY <2>1, <2>2 DEF DepositMeans
    <3> QED
      BY <2>1, <3>1 DEF Contains
  <2> QED
    BY <2>1, <2>2 DEF DepositMeans
<1> QED
  BY <1>1, InvHolds, PTL

\* applyMatchResult and approveDeposit: a payment approves one deposit at most, and
\* one of its transaction.
THEOREM OnePaymentOneApproval == Spec => []OneApprovalPerPayment
<1>1. PaymentsInv => OneApprovalPerPayment
  <2> SUFFICES ASSUME PaymentsInv, NEW m \in Messages
               PROVE  /\ m \notin overlapped =>
                            /\ Cardinality(ApprovedFor(m)) <= 1
                            /\ event[m].match = "PROCESSED" =>
                                  event[m].deposit \in ApprovedFor(m)
                      /\ \A d \in ApprovedFor(m) : TransactionOf[d] = Transaction[m]
    BY DEF OneApprovalPerPayment
  <2>1. TransactionMeans(m) /\ (m \notin overlapped => RecordMeans(m))
    BY DEF PaymentsInv, EventsInv, MessageMeans
  <2>2. ASSUME m \notin overlapped PROVE Cardinality(ApprovedFor(m)) <= 1
    <3>1. ApprovedFor(m) = {} \/ ApprovedFor(m) = {event[m].deposit}
      BY <2>1, <2>2 DEF RecordMeans
    <3>2. Cardinality({event[m].deposit}) = 1 /\ Cardinality({}) = 0
      BY FS_EmptySet, FS_Singleton
    <3> QED
      BY <3>1, <3>2
  <2> QED
    BY <2>1, <2>2 DEF RecordMeans, TransactionMeans
<1> QED
  BY <1>1, InvHolds, PTL

-----------------------------------------------------------------------------
(* Deposits: the balance of a customer is the sum of its credits.  Only the *)
(* commit of an approval changes either, and it finds the deposit without  *)
(* a credit.                                                               *)

(***************************************************************************)
(* Credits and balances                                                    *)
(***************************************************************************)
LEMMA RoundDivType == ASSUME NEW n \in Int, NEW d \in Nat \ {0} PROVE RoundDiv(n, d) \in Int
<1>1. 2 * d \in Int /\ 2 * d > 0 /\ 2 * n + d \in Int
  OBVIOUS
<1>2. \A i \in Int, j \in Int : j > 0 => i \div j \in Int
  OBVIOUS
<1> QED
  BY <1>1, <1>2 DEF RoundDiv

LEMMA ProductType == \A i, j \in Int : i * j \in Int
OBVIOUS

LEMMA WalletCreditType ==
    ASSUME NEW amount \in Int, NEW from \in DOMAIN Rate, NEW to \in DOMAIN Rate
    PROVE  WalletCredit(amount, from, to) \in Int
<1>1. /\ Rate[from] \in Nat \ {0} /\ Rate[to] \in Nat \ {0} /\ Micro \in Nat \ {0}
  BY DepositsAssumption
<1>2. RoundDiv(amount * Micro, Rate[from]) \in Int
  BY <1>1, ProductType, RoundDivType
<1>3. RoundDiv(RoundDiv(amount * Micro, Rate[from]) * Rate[to], Micro) \in Int
  BY <1>1, <1>2, ProductType, RoundDivType
<1> QED
  BY <1>3 DEF WalletCredit

\* What an approval credits, of amounts in the currency of a deposit.
Worth(amount, d) == WalletCredit(amount, deposit[d].currency, WalletCurrency[UserOf[d]])

\* What a deposit has brought its customer.
Credit(d) == IF Approved(d) THEN Worth(credited[d][1], d) ELSE 0

Deposited(u) == {d \in Requests : UserOf[d] = u}

Credits(u) == [d \in Deposited(u) |-> Credit(d)]

BalanceMeans(u) ==
    /\ "balance" \in DOMAIN customer[u] /\ customer[u].balance \in Int
    /\ customer[u].balance = SumOver(Credits(u), Deposited(u))

CreditsInv ==
    /\ DOMAIN customer = Customers
    /\ \A d \in Requests : deposit[d].status # "NONE" => deposit[d].currency \in DOMAIN Rate
    /\ \A u \in Customers : BalanceMeans(u)

LEMMA CreditType ==
    ASSUME PaymentsType, DepositsInv, CreditsInv, NEW d \in Requests
    PROVE  Credit(d) \in Int
<1>1. CASE Approved(d)
  <2>1. Len(credited[d]) = 1 /\ credited[d] \in Seq(Amounts \cup {0})
    BY <1>1 DEF DepositsInv, DepositMeans, PaymentsType
  <2>2. credited[d][1] \in Int
    <3>1. credited[d][1] \in Amounts \cup {0}
      BY <2>1
    <3> QED
      BY <3>1, DepositsAssumption
  <2>3. deposit[d].currency \in DOMAIN Rate /\ WalletCurrency[UserOf[d]] \in DOMAIN Rate
    BY <1>1, DepositsAssumption DEF CreditsInv, Approved
  <2> QED
    BY <1>1, <2>2, <2>3, WalletCreditType DEF Credit, Worth
<1> QED
  BY <1>1 DEF Credit

LEMMA FiniteDeposits ==
    ASSUME NEW u
    PROVE  IsFiniteSet(Deposited(u)) /\ Deposited(u) \subseteq Requests
<1>1. Deposited(u) \subseteq Requests
  BY DEF Deposited
<1> QED
  BY <1>1, FS_Subset, DepositsAssumption

\* A step that credits nothing.
LEMMA UncreditedStep ==
    ASSUME CreditsInv, UNCHANGED credited, DOMAIN customer' = Customers,
           \A u \in Customers : /\ "balance" \in DOMAIN customer'[u]
                                /\ customer'[u].balance = customer[u].balance,
           \A d \in Requests :
              /\ Approved(d)' <=> Approved(d)
              /\ deposit'[d].status # "NONE" => deposit'[d].currency \in DOMAIN Rate
              /\ Approved(d) => deposit'[d].currency = deposit[d].currency
    PROVE  CreditsInv'
<1>1. ASSUME NEW d \in Requests PROVE Credit(d)' = Credit(d)
  BY DEF Credit, Worth
<1>2. ASSUME NEW u \in Customers PROVE BalanceMeans(u)'
  <2>1. Credits(u)' = Credits(u) /\ Deposited(u)' = Deposited(u)
    BY <1>1 DEF Credits, Deposited
  <2>2. BalanceMeans(u)
    BY DEF CreditsInv
  <2> QED
    BY <2>1, <2>2 DEF BalanceMeans
<1> QED
  BY <1>2 DEF CreditsInv

LEMMA CreditedStep ==
    ASSUME PaymentsType, DepositsInv, CreditsInv, NEW k \in Calls, CommitApproval(k)
    PROVE  CreditsInv'
<1> DEFINE c == call[k]
<1> PICK d, u : d = call[k].deposit /\ u = UserOf[d]
  OBVIOUS
<1> DEFINE gain == WalletCredit(FinalAmount(c), c.seen.currency, WalletCurrency[u])
<1>1. /\ d \in Requests /\ u \in Customers /\ deposit[d].status = "PENDING"
      /\ deposit[d] = c.seen /\ deposit'[d].currency = c.seen.currency
      /\ FinalAmount(c) \in Amounts \cup {0} /\ deposit'[d].status = "APPROVED"
      /\ \A x \in Requests : x # d => deposit'[x] = deposit[x]
  BY CommittedDeposit, DepositsAssumption
<1>2. /\ customer' = [customer EXCEPT ![u].balance = @ + gain]
      /\ credited' = [credited EXCEPT ![d] = Append(@, FinalAmount(c))]
  BY DEF CommitApproval
<1>3. credited[d] \in Seq(Amounts \cup {0}) /\ Len(credited[d]) = 0
  BY <1>1 DEF DepositsInv, DepositMeans, Approved, PaymentsType
<1>4. credited'[d][1] = FinalAmount(c) /\ \A x \in Requests : x # d => credited'[x] = credited[x]
  BY <1>1, <1>2, <1>3 DEF PaymentsType
<1>5. gain \in Int
  <2>1. FinalAmount(c) \in Int /\ WalletCurrency[u] \in DOMAIN Rate
    BY <1>1, DepositsAssumption
  <2>2. c.seen.currency \in DOMAIN Rate
    BY <1>1 DEF CreditsInv
  <2> QED
    BY <2>1, <2>2, WalletCreditType
<1>6. Credit(d) = 0 /\ Credit(d)' = gain
  BY <1>1, <1>4 DEF Credit, Worth, Approved
<1>7. ASSUME NEW x \in Requests, x # d PROVE Credit(x)' = Credit(x)
  BY <1>1, <1>4, <1>7 DEF Credit, Worth, Approved
<1> HIDE DEF gain
<1>8. ASSUME NEW v \in Customers PROVE BalanceMeans(v)'
  <2>1. BalanceMeans(v)
    BY DEF CreditsInv
  <2>2. IsFiniteSet(Deposited(v)) /\ Deposited(v) \subseteq Requests /\ Deposited(v)' = Deposited(v)
    BY FiniteDeposits DEF Deposited
  <2> DEFINE S == Deposited(v)
             g == Credits(v)
             h == [x \in S |-> Credit(x)']
  <2>3. Credits(v)' = h
    BY <2>2 DEF Credits
  <2>4. \A x \in S : g[x] = Credit(x) /\ h[x] = Credit(x)' /\ g[x] \in Int /\ h[x] \in Int
    <3>1. \A x \in S : g[x] = Credit(x) /\ h[x] = Credit(x)'
      BY DEF Credits
    <3>2. \A x \in S : Credit(x) \in Int
      BY <2>2, CreditType
    <3>3. \A x \in S : Credit(x)' \in Int
      BY <1>5, <1>6, <1>7, <2>2, <3>2
    <3> QED
      BY <3>1, <3>2, <3>3
  <2>5. CASE v = u
    <3>1. d \in S
      BY <1>1, <2>5 DEF Deposited
    <3>2. h[d] = gain /\ g[d] = 0 /\ \A x \in S \ {d} : h[x] = g[x]
      BY <1>6, <1>7, <2>2, <2>4, <3>1
    <3> HIDE DEF g, h, S
    <3>3. SumOver(h, S) = SumOver(g, S) + (h[d] - g[d])
      BY <2>2, <2>4, <3>1, <3>2, SumOfChange DEF S
    <3>4. /\ "balance" \in DOMAIN customer'[v]
          /\ customer'[v].balance = customer[v].balance + gain
      BY <1>2, <2>1, <2>5 DEF BalanceMeans, CreditsInv
    <3>5. customer[v].balance = SumOver(g, S) /\ customer[v].balance \in Int
      BY <2>1 DEF BalanceMeans, g, S
    <3>6. customer'[v].balance = SumOver(h, S) /\ customer'[v].balance \in Int
      BY <1>5, <3>2, <3>3, <3>4, <3>5
    <3>7. SumOver(h, S) = SumOver(Credits(v), Deposited(v))'
      BY <2>2, <2>3 DEF S
    <3> QED
      BY <3>4, <3>6, <3>7 DEF BalanceMeans
  <2>6. CASE v # u
    <3>1. d \notin S
      BY <1>1, <2>6 DEF Deposited
    <3>2. \A x \in S : h[x] = g[x]
      BY <1>7, <2>2, <2>4, <3>1
    <3> HIDE DEF g, h, S
    <3>3. SumOver(h, S) = SumOver(g, S)
      BY <2>2, <3>2, SumOfEquals DEF S
    <3>4. customer'[v] = customer[v]
      BY <1>2, <2>6 DEF CreditsInv
    <3>5. customer[v].balance = SumOver(g, S)
      BY <2>1 DEF BalanceMeans, g, S
    <3>6. SumOver(h, S) = SumOver(Credits(v), Deposited(v))'
      BY <2>2, <2>3 DEF S
    <3> QED
      BY <2>1, <3>3, <3>4, <3>5, <3>6 DEF BalanceMeans
  <2> QED
    BY <2>5, <2>6
<1>9. DOMAIN customer' = Customers
  BY <1>2 DEF CreditsInv
<1> QED
  BY <1>1, <1>8, <1>9 DEF CreditsInv

LEMMA NextKeepsCredits ==
    PaymentsType /\ DepositsInv /\ CreditsInv /\ [Next]_<<vars, eventVars>> => CreditsInv'
<1> SUFFICES ASSUME PaymentsType, DepositsInv, CreditsInv, [Next]_<<vars, eventVars>>
             PROVE  CreditsInv'
  OBVIOUS
<1> USE DEF docs, environment, history
<1>1. CASE UNCHANGED <<deposit, customer, credited>>
  <2>1. \A d \in Requests : deposit[d].status # "NONE" => deposit[d].currency \in DOMAIN Rate
    BY DEF CreditsInv
  <2>2. \A u \in Customers : "balance" \in DOMAIN customer[u] /\ DOMAIN customer = Customers
    BY DEF CreditsInv, BalanceMeans
  <2> QED
    BY <1>1, <2>1, <2>2, UncreditedStep DEF Approved, CreditsInv
<1>2. ASSUME NEW d \in Requests, NEW new, deposit' = [deposit EXCEPT ![d] = new],
             UNCHANGED <<customer, credited>>,
             Approved(d) => new.status = "APPROVED" /\ new.currency = deposit[d].currency,
             ~Approved(d) => new.status # "APPROVED",
             new.status # "NONE" => new.currency \in DOMAIN Rate
      PROVE  CreditsInv'
  <2>1. \A x \in Requests : deposit'[x] = IF x = d THEN new ELSE deposit[x]
    BY <1>2 DEF PaymentsType
  <2>2. \A u \in Customers : "balance" \in DOMAIN customer[u] /\ DOMAIN customer = Customers
    BY DEF CreditsInv, BalanceMeans
  <2>3. \A x \in Requests : deposit[x].status # "NONE" => deposit[x].currency \in DOMAIN Rate
    BY DEF CreditsInv
  <2> QED
    BY <1>2, <2>1, <2>2, <2>3, UncreditedStep DEF Approved, CreditsInv
<1>3. \A d \in Requests :
         /\ deposit[d] \in Documents
         /\ deposit[d].status # "NONE" => deposit[d].currency \in DOMAIN Rate
  BY DEF PaymentsType, CreditsInv
<1>4. ASSUME NEW k \in Calls, CommitApproval(k) PROVE CreditsInv'
  BY <1>4, CreditedStep
<1>5. ASSUME NEW k \in Calls, SubmitDeposit(k) PROVE CreditsInv'
  <2>1. PICK d \in Requests, amount \in Amounts, currency \in configured :
           CreateDepositRequest(d, amount, currency)
    BY <1>5 DEF SubmitDeposit
  <2> DEFINE new == [deposit[d] EXCEPT !.status = "PENDING", !.amount = amount,
                                       !.currency = currency]
  <2>2. /\ deposit' = [deposit EXCEPT ![d] = new] /\ UNCHANGED <<customer, credited>>
        /\ deposit[d].status = "NONE"
    BY <2>1 DEF CreateDepositRequest
  <2>3. new.status = "PENDING" /\ new.currency \in DOMAIN Rate
    BY <1>3, <2>2 DEF Documents, PaymentsType
  <2> HIDE DEF new
  <2> QED
    BY <1>2, <2>2, <2>3 DEF Approved
<1>6. ASSUME NEW d \in Requests, RejectDeposit(d) PROVE CreditsInv'
  <2> DEFINE new == [deposit[d] EXCEPT !.status = "REJECTED", !.reviewedAt = clock]
  <2>1. /\ deposit' = [deposit EXCEPT ![d] = new] /\ UNCHANGED <<customer, credited>>
        /\ deposit[d].status = "PENDING"
    BY <1>6 DEF RejectDeposit
  <2>2. new.status = "REJECTED" /\ new.currency = deposit[d].currency
    BY <1>3 DEF Documents
  <2> HIDE DEF new
  <2> QED
    BY <1>2, <1>3, <2>1, <2>2 DEF Approved
<1>7. ASSUME NEW k \in Calls, SaveUpdate(k) PROVE CreditsInv'
  <2> PICK d : d = call[k].deposit
    OBVIOUS
  <2> DEFINE new == [deposit[d] EXCEPT !.amount = call[k].amount]
  <2>1. /\ deposit' = [deposit EXCEPT ![d] = new] /\ UNCHANGED <<customer, credited>>
        /\ d \in Requests
    BY <1>7 DEF SaveUpdate, PaymentsType, CallType
  <2>2. new.status = deposit[d].status /\ new.currency = deposit[d].currency
    BY <1>3, <2>1 DEF Documents
  <2> HIDE DEF new
  <2> QED
    BY <1>2, <1>3, <2>1, <2>2 DEF Approved
<1>8. ASSUME NEW k \in Calls, MarkPending(k) \/ MarkDepositCommission(k) PROVE CreditsInv'
  <2> PICK d : d = call[k].deposit
    OBVIOUS
  <2>1. PICK mark, outcome :
           /\ deposit' = [deposit EXCEPT ![d] = [@ EXCEPT !.mark = mark, !.outcome = outcome]]
           /\ UNCHANGED <<customer, credited>>
    BY <1>8 DEF MarkPending, MarkDepositCommission
  <2> DEFINE new == [deposit[d] EXCEPT !.mark = mark, !.outcome = outcome]
  <2>2. d \in Requests /\ deposit' = [deposit EXCEPT ![d] = new]
    BY <1>8, <2>1 DEF MarkPending, MarkDepositCommission, PaymentsType, CallType
  <2>3. new.status = deposit[d].status /\ new.currency = deposit[d].currency
    BY <1>3, <2>2 DEF Documents
  <2> HIDE DEF new
  <2>4. /\ Approved(d) => new.status = "APPROVED" /\ new.currency = deposit[d].currency
        /\ ~Approved(d) => new.status # "APPROVED"
        /\ new.status # "NONE" => new.currency \in DOMAIN Rate
    BY <1>3, <2>2, <2>3 DEF Approved
  <2> QED
    BY <1>2, <2>1, <2>2, <2>4
<1>9. CASE SetReferralCommissionOverride \/ ChangeUser \/ ApproveSubAgent
  <2>1. PICK u \in Customers : \E v :
           \/ customer' = [customer EXCEPT ![u].percent = v]
           \/ customer' = [customer EXCEPT ![u].active = v]
           \/ customer' = [customer EXCEPT ![u].stoppedAt = v]
    BY <1>9 DEF SetReferralCommissionOverride, ChangeUser, ApproveSubAgent
  <2>2. DOMAIN customer = Customers /\ \A x \in Customers : "balance" \in DOMAIN customer[x]
    BY DEF CreditsInv, BalanceMeans
  <2>3. /\ DOMAIN customer' = Customers
        /\ \A x \in Customers : /\ "balance" \in DOMAIN customer'[x]
                                /\ customer'[x].balance = customer[x].balance
    BY <2>1, <2>2
  <2>4. UNCHANGED <<deposit, credited>>
    BY <1>9 DEF SetReferralCommissionOverride, ChangeUser, ApproveSubAgent
  <2> QED
    BY <1>3, <2>3, <2>4, UncreditedStep DEF Approved
<1>10. ASSUME NEW k \in Calls,
              \/ RefuseApproval(k) \/ BeginApproval(k) \/ ConflictApproval(k)
              \/ AbortApproval(k) \/ ReadForReconciliation(k) \/ CreateCommissionRecord(k)
              \/ ApproveDeposit(k) \/ ReadForUpdate(k) \/ Crash(k)
       PROVE  UNCHANGED <<deposit, customer, credited>>
  BY <1>10 DEF RefuseApproval, BeginApproval, ConflictApproval, AbortApproval,
     ReadForReconciliation, CreateCommissionRecord, ApproveDeposit, CallApprove,
     ReadForUpdate, Crash
<1>11. ASSUME NEW k \in Calls,
              \/ Deliver(k) \/ InsertEvent(k) \/ MatchParsedPaymentEvent(k)
              \/ ApplyMatchResult(k) \/ SaveAnswer(k) \/ MatchExistingUnmatchedPayment(k)
       PROVE  UNCHANGED <<deposit, customer, credited>>
  BY <1>11 DEF Deliver, InsertEvent, MatchParsedPaymentEvent, ApplyMatchResult, SaveAnswer,
     MatchExistingUnmatchedPayment
<1>12. ASSUME Tick \/ SetCurrencyStatus PROVE UNCHANGED <<deposit, customer, credited>>
  BY <1>12 DEF Tick, SetCurrencyStatus
<1>13. CASE UNCHANGED <<vars, eventVars>>
  BY <1>1, <1>13 DEF vars
<1> HIDE DEF docs, environment, history
<1> QED
  BY <1>1, <1>4, <1>5, <1>6, <1>7, <1>8, <1>9, <1>10, <1>11, <1>12, <1>13
     DEF Next, Environment, Approval, Reconciliation

LEMMA CreditsInit == EventInit => CreditsInv
<1> SUFFICES ASSUME EventInit PROVE CreditsInv
  OBVIOUS
<1> USE DEF EventInit, Init
<1>1. ASSUME NEW u \in Customers PROVE BalanceMeans(u)
  <2>1. "balance" \in DOMAIN customer[u] /\ customer[u].balance = 0
    OBVIOUS
  <2> DEFINE S == Deposited(u)
             g == Credits(u)
  <2>2. \A d \in S : g[d] = 0
    BY DEF Credits, Credit, Approved, Deposited
  <2>3. IsFiniteSet(S)
    BY FiniteDeposits
  <2> HIDE DEF S, g
  <2>4. SumOver(g, S) = 0
    BY <2>2, <2>3, SumOfZeros
  <2> QED
    BY <2>1, <2>4 DEF BalanceMeans, S, g
<1> QED
  BY <1>1 DEF CreditsInv

(***************************************************************************)
(* CreditOf, as the property has it                                        *)
(***************************************************************************)
LEMMA CreditOfIs ==
    ASSUME PaymentsType, DepositsInv, CreditsInv, NEW d \in Requests
    PROVE  CreditOf(d) = Credit(d)
<1> PICK q : q = credited[d]
  OBVIOUS
<1> DEFINE Rule(f) ==
        f = [s \in SUBSET DOMAIN q |->
                IF s = {} THEN 0 ELSE f[s \ {Some(s)}] + Worth(q[Some(s)], d)]
<1> DEFINE f == CHOOSE f : Rule(f)
<1>1. CreditOf(d) = f[DOMAIN q]
  BY DEF CreditOf, FoldSeq, FoldFunction, FoldFunctionOnSet, MapThenFoldSet, Some, Worth
<1>2. q \in Seq(Amounts \cup {0}) /\ Len(q) = IF Approved(d) THEN 1 ELSE 0
  BY DEF PaymentsType, DepositsInv, DepositMeans
<1>3. CASE ~Approved(d)
  <2>1. DOMAIN q = {}
    BY <1>2, <1>3
  <2>2. Rule([s \in SUBSET DOMAIN q |-> 0])
    BY <2>1
  <2>3. Rule(f)
    BY <2>2
  <2>4. f[{}] = 0
    <3>1. {} \in SUBSET DOMAIN q
      OBVIOUS
    <3> HIDE DEF f
    <3> QED
      BY <2>3, <3>1
  <2> QED
    BY <1>1, <1>3, <2>1, <2>4 DEF Credit
<1>4. CASE Approved(d)
  <2>1. DOMAIN q = {1}
    BY <1>2, <1>4
  <2>2. Some({1}) = 1 /\ {1} \ {1} = {} /\ {1} # {}
    BY DEF Some
  <2>3. Worth(q[1], d) \in Int /\ Credit(d) = Worth(q[1], d)
    BY <1>4, CreditType DEF Credit
  <2>4. SUBSET DOMAIN q = {{}, {1}}
    BY <2>1
  <2> DEFINE g == [s \in SUBSET DOMAIN q |-> IF s = {} THEN 0 ELSE Worth(q[1], d)]
  <2>5. Rule(g)
    <3>1. g[{}] = 0
      BY <2>4
    <3>2. \A s \in SUBSET DOMAIN q : s # {} => s = {1}
      BY <2>4
    <3>3. ASSUME NEW s \in SUBSET DOMAIN q
          PROVE  g[s] = IF s = {} THEN 0 ELSE g[s \ {Some(s)}] + Worth(q[Some(s)], d)
      <4>1. CASE s = {}
        BY <4>1
      <4>2. CASE s # {}
        <5>1. s = {1} /\ s \ {Some(s)} = {} /\ q[Some(s)] = q[1]
          BY <2>2, <3>2, <4>2
        <5>2. g[s] = Worth(q[1], d)
          BY <4>2
        <5> HIDE DEF g
        <5>3. g[s \ {Some(s)}] = 0
          BY <3>1, <5>1
        <5> QED
          BY <2>3, <4>2, <5>1, <5>2, <5>3
      <4> QED
        BY <4>1, <4>2
    <3>4. g = [s \in SUBSET DOMAIN q |-> g[s]]
      OBVIOUS
    <3> HIDE DEF g
    <3> QED
      BY <3>3, <3>4
  <2>6. Rule(f)
    BY <2>5
  <2> HIDE DEF f
  <2>7. f[{}] = 0
    BY <2>4, <2>6
  <2>8. f[{1}] = f[{1} \ {Some({1})}] + Worth(q[Some({1})], d)
    BY <2>2, <2>4, <2>6
  <2>9. f[{1}] = Worth(q[1], d)
    BY <2>2, <2>3, <2>7, <2>8
  <2> QED
    BY <1>1, <2>1, <2>3, <2>9
<1> QED
  BY <1>3, <1>4

LEMMA CreditsSum ==
    ASSUME PaymentsType, DepositsInv, CreditsInv, NEW u \in Customers
    PROVE  MapThenSumSet(CreditOf, {d \in Requests : UserOf[d] = u})
              = SumOver(Credits(u), Deposited(u))
<1> PICK S : S = Deposited(u)
  OBVIOUS
<1> PICK h : h = Credits(u)
  OBVIOUS
<1> DEFINE Rule(f) ==
        f = [s \in SUBSET S |-> IF s = {} THEN 0 ELSE CreditOf(Some(s)) + f[s \ {Some(s)}]]
<1> DEFINE f == CHOOSE f : Rule(f)
<1>0. IsFiniteSet(S) /\ S \subseteq Requests /\ \A d \in S : h[d] = CreditOf(d)
  BY FiniteDeposits, CreditOfIs DEF Credits
<1>1. ASSUME NEW e PROVE Rule(e) <=> IsSum(e, h, S)
  <2>1. \A s \in SUBSET S : s # {} => h[Some(s)] = CreditOf(Some(s))
    BY <1>0, SomeIsIn
  <2>2. [s \in SUBSET S |-> IF s = {} THEN 0 ELSE CreditOf(Some(s)) + e[s \ {Some(s)}]]
         = [s \in SUBSET S |-> IF s = {} THEN 0 ELSE h[Some(s)] + e[s \ {Some(s)}]]
    BY <2>1
  <2> QED
    BY <2>2 DEF IsSum
<1>2. PICK e : IsSum(e, h, S) /\ SumOver(h, S) = e[S]
  BY <1>0, SumIsDefined
<1>3. Rule(f)
  <2>1. \E g : Rule(g)
    BY <1>1, <1>2
  <2> QED
    BY <2>1
<1>4. MapThenSumSet(CreditOf, S) = f[S]
  BY DEF MapThenSumSet, MapThenFoldSet, Some
<1>5. IsSum(f, h, S)
  BY <1>1, <1>3
<1> HIDE DEF f
<1>6. f[S] = e[S]
  BY <1>0, <1>2, <1>5, SumIsUnique
<1> QED
  BY <1>2, <1>4, <1>6 DEF Deposited

\* approveDeposit: an approved deposit is credited once and no other is, and a
\* customer's balance is the sum of the credits, whatever administrators, the bridge
\* and crashes do to the same deposit.
THEOREM DepositsAreCredited == Spec => []CreditedOnceIfApproved
<1>1. EventInit => PaymentsInv /\ CreditsInv
  BY InitHasInv, CreditsInit
<1>2. PaymentsInv /\ CreditsInv /\ [Next]_<<vars, eventVars>> => PaymentsInv' /\ CreditsInv'
  BY NextKeepsInv, NextKeepsCredits DEF PaymentsInv
<1>3. PaymentsInv /\ CreditsInv => CreditedOnceIfApproved
  <2> SUFFICES ASSUME PaymentsInv, CreditsInv PROVE CreditedOnceIfApproved
    OBVIOUS
  <2>1. \A d \in Requests :
           Len(credited[d]) = IF deposit[d].status = "APPROVED" THEN 1 ELSE 0
    BY DEF PaymentsInv, DepositsInv, DepositMeans, Approved
  <2>2. ASSUME NEW u \in Customers
        PROVE  customer[u].balance = MapThenSumSet(CreditOf, {d \in Requests : UserOf[d] = u})
    BY CreditsSum DEF PaymentsInv, CreditsInv, BalanceMeans
  <2> QED
    BY <2>1, <2>2 DEF CreditedOnceIfApproved
<1> QED
  BY <1>1, <1>2, <1>3, PTL DEF Spec

-----------------------------------------------------------------------------
(* ReferralPayouts: the commissions say the same as the payouts, a wallet  *)
(* payout is credited once and a key stands for one payout.  No fact about *)
(* what a transaction read is needed beyond its keys: what it writes is    *)
(* compared with what it read when it commits.                             *)

Totals == {Payout!Total(cs) : cs \in SUBSET Commissions}
CommissionDocuments == [status : {"AVAILABLE", "LOCKED", "PAID"}, payout : Payouts \cup {None}]
PayoutDocuments ==
    [status : {"PENDING", "PAID", "REJECTED"}, user : Users,
     method : {"WALLET_CREDIT", "MANUAL_EXTERNAL"}, currency : Currencies, amount : Totals,
     commissions : SUBSET Commissions, key : Keys \cup {None}, input : Payout!Inputs,
     receipt : BOOLEAN]
Rows == [payout : Payouts, user : Users, amount : {Payout!WalletCredit(m) : m \in Totals},
         currency : Currencies]

\* What a transaction read of the keys is still so.
CallMeans(c) ==
    /\ c.at \in {"idle", "begin", "run"}
    /\ c.at # "idle" => c.asked \in Payout!Operations /\ c.operation = c.asked.operation
    /\ c.at = "run" =>
          \A p \in Payouts : c.payout[p].key # None =>
              /\ payout[p].key = c.payout[p].key /\ payout[p].user = c.payout[p].user
              /\ payout[p].input = c.payout[p].input

PayoutsType ==
    /\ owed \in [Commissions -> CommissionDocuments]
    /\ DOMAIN payout = Payouts
    /\ \A p \in Payouts : payout[p] = Payout!NoPayout \/ payout[p] \in PayoutDocuments
    /\ rows \in Seq(Rows)
    /\ DOMAIN task = Calls

CallsMean == \A k \in Calls : CallMeans(task[k])

RowsOf(p) == {n \in DOMAIN rows : rows[n].payout = p}

\* The row of a payout: one that books it, or none.
RowsMean(p) ==
    IF payout[p].status = "PAID" /\ payout[p].method = "WALLET_CREDIT"
    THEN \E n \in DOMAIN rows :
            /\ RowsOf(p) = {n}
            /\ rows[n].amount = Payout!WalletCredit(Payout!Total(payout[p].commissions))
            /\ rows[n].currency = payout[p].currency /\ rows[n].user = payout[p].user
    ELSE RowsOf(p) = {}

\* The payouts with a key, and the answers that name them.
KeysMean ==
    /\ \A p, q \in Payouts :
          (payout[p].key # None /\ payout[p].key = payout[q].key
             /\ payout[p].user = payout[q].user) => p = q
    /\ \A a \in answers :
          /\ a.key # None /\ a.payout \in Payouts /\ payout[a.payout].key = a.key
          /\ payout[a.payout].user = a.user /\ payout[a.payout].input = a.input

PayoutsInv ==
    /\ PayoutsType /\ CallsMean /\ Payout!PayoutsConsistent /\ KeysMean
    /\ \A p \in Payouts : RowsMean(p)

\* What an instance extends, it instantiates: its Cardinality is the library's.
LEMMA PayoutCardinality == \A S : Payout!Cardinality(S) = Cardinality(S)
BY DEF Payout!Cardinality, Cardinality

LEMMA InvIsSound == PayoutsInv => Payout!PayoutsSound
<1> SUFFICES ASSUME PayoutsInv PROVE Payout!PayoutsSound
  OBVIOUS
<1>1. Payout!PayoutsConsistent
  BY DEF PayoutsInv
<1>2. Payout!OnePayoutPerKey
  BY DEF PayoutsInv, KeysMean, Payout!OnePayoutPerKey
<1>3. Payout!CreditedOncePaid
  <2> SUFFICES ASSUME NEW p \in Payouts
               PROVE  /\ Cardinality(RowsOf(p)) =
                            IF payout[p].status = "PAID" /\ payout[p].method = "WALLET_CREDIT"
                            THEN 1 ELSE 0
                      /\ \A n \in RowsOf(p) :
                            /\ rows[n].amount = Payout!WalletCredit(Payout!Total(payout[p].commissions))
                            /\ rows[n].currency = payout[p].currency
                            /\ rows[n].user = payout[p].user
    BY PayoutCardinality DEF Payout!CreditedOncePaid, RowsOf
  <2>1. RowsMean(p)
    BY DEF PayoutsInv
  <2>2. Cardinality({}) = 0 /\ \A n : Cardinality({n}) = 1
    BY FS_EmptySet, FS_Singleton
  <2> QED
    BY <2>1, <2>2 DEF RowsMean
<1> QED
  BY <1>1, <1>2, <1>3 DEF Payout!PayoutsSound

LEMMA PayoutsInit ==
    ASSUME None \notin Payouts, Payout!Init PROVE PayoutsInv
<1> USE DEF Payout!Init
<1>1. PayoutsType
  BY DEF PayoutsType, CommissionDocuments
<1>2. CallsMean
  BY DEF CallsMean, CallMeans
<1>3. Payout!PayoutsConsistent
  BY DEF Payout!PayoutsConsistent, Payout!NoPayout
<1>4. KeysMean
  <2>1. \A p \in Payouts : payout[p].key = None
    BY DEF Payout!NoPayout
  <2> QED
    BY <2>1 DEF KeysMean
<1>5. \A p \in Payouts : RowsMean(p)
  BY DEF RowsMean, RowsOf, Payout!NoPayout
<1> QED
  BY <1>1, <1>2, <1>3, <1>4, <1>5 DEF PayoutsInv

(***************************************************************************)
(* Steps that write no document                                            *)
(***************************************************************************)
LEMMA CallStep ==
    ASSUME PayoutsInv, NEW k \in Calls, NEW next, Payout!Goes(k, next), CallMeans(next),
           UNCHANGED <<owed, payout, rows, answers>>
    PROVE  PayoutsInv'
<1>1. PayoutsType'
  BY DEF PayoutsInv, PayoutsType, Payout!Goes
<1>2. CallsMean'
  <2> SUFFICES ASSUME NEW j \in Calls PROVE CallMeans(task[j])'
    BY DEF CallsMean
  <2>1. task'[j] = IF j = k THEN next ELSE task[j]
    BY DEF PayoutsInv, PayoutsType, Payout!Goes
  <2>2. CallMeans(task[j])
    BY DEF PayoutsInv, CallsMean
  <2>3. CASE j = k
    BY <2>1, <2>3 DEF CallMeans
  <2>4. CASE j # k
    BY <2>1, <2>2, <2>4 DEF CallMeans
  <2> QED
    BY <2>3, <2>4
<1>3. Payout!PayoutsConsistent'
  BY DEF PayoutsInv, Payout!PayoutsConsistent
<1>4. KeysMean'
  BY DEF PayoutsInv, KeysMean
<1>5. \A p \in Payouts : RowsMean(p)'
  BY DEF PayoutsInv, RowsMean, RowsOf
<1> QED
  BY <1>1, <1>2, <1>3, <1>4, <1>5 DEF PayoutsInv

\* A transaction starts again.
LEMMA AgainStep ==
    ASSUME PayoutsInv, NEW k \in Calls, task[k].at = "run",
           Payout!Goes(k, [at |-> "begin", operation |-> task[k].operation, asked |-> task[k].asked]),
           UNCHANGED <<owed, payout, rows, answers>>
    PROVE  PayoutsInv'
<1>1. CallMeans([at |-> "begin", operation |-> task[k].operation, asked |-> task[k].asked])
  BY DEF PayoutsInv, CallsMean, CallMeans
<1> QED
  BY <1>1, CallStep

LEMMA QuietPayoutStep ==
    ASSUME PayoutsInv,
           \/ \E k \in Calls : Payout!Call(k) \/ Payout!Begin(k) \/ Payout!Abort(k)
           \/ Payout!ChangeUser
    PROVE  PayoutsInv'
<1>1. ASSUME NEW k \in Calls, Payout!Call(k) PROVE PayoutsInv'
  <2>1. PICK o \in Payout!Operations :
          Payout!Goes(k, [at |-> "begin", operation |-> o.operation, asked |-> o])
    BY <1>1 DEF Payout!Call
  <2>2. CallMeans([at |-> "begin", operation |-> o.operation, asked |-> o])
    BY DEF CallMeans
  <2> QED
    BY <1>1, <2>1, <2>2, CallStep DEF Payout!Call
<1>2. ASSUME NEW k \in Calls, Payout!Begin(k) PROVE PayoutsInv'
  <2> PICK next : next = [at |-> "run", operation |-> task[k].operation,
                          asked |-> task[k].asked, commission |-> owed,
                          payout |-> payout, user |-> user]
    OBVIOUS
  <2>1. CallMeans(next)
    BY <1>2 DEF Payout!Begin, PayoutsInv, CallsMean, CallMeans
  <2> QED
    BY <1>2, <2>1, CallStep DEF Payout!Begin
<1>3. ASSUME NEW k \in Calls, Payout!Abort(k) PROVE PayoutsInv'
  <2>1. CallMeans([at |-> "idle"])
    BY DEF CallMeans
  <2> QED
    BY <1>3, <2>1, CallStep DEF Payout!Abort
<1>4. ASSUME Payout!ChangeUser PROVE PayoutsInv'
  <2>1. UNCHANGED <<owed, payout, rows, answers, task>>
    BY <1>4 DEF Payout!ChangeUser
  <2> QED
    BY <2>1 DEF PayoutsInv, PayoutsType, CallsMean, CallMeans, Payout!PayoutsConsistent,
       KeysMean,
                RowsMean, RowsOf
<1> QED
  BY <1>1, <1>2, <1>3, <1>4

(***************************************************************************)
(* The request                                                             *)
(***************************************************************************)
\* The answer is a payout of this key and body, read now or in the snapshot.
LEMMA AnswerStep ==
    ASSUME PayoutsInv, NEW k \in Calls, Payout!Running(k, "create"),
           NEW known, Payout!AnswerExisting(k, task[k].asked.input, known),
           known = payout \/ known = task[k].payout
    PROVE  PayoutsInv'
<1> PICK i : i = task[k].asked.input
  OBVIOUS
<1>1. PICK p \in Payout!WithKey(known, i) :
        IF known[p].input = i THEN Payout!Answered(i, p) ELSE UNCHANGED answers
  BY DEF Payout!AnswerExisting
<1>2. UNCHANGED <<owed, payout, rows>> /\ Payout!Goes(k, [at |-> "idle"])
  BY DEF Payout!AnswerExisting
<1>3. p \in Payouts /\ i.key # None /\ known[p].key = i.key /\ known[p].user = i.user
  BY DEF Payout!WithKey
<1>4. /\ payout[p].key = i.key /\ payout[p].user = i.user
      /\ payout[p].input = known[p].input
  BY <1>3 DEF PayoutsInv, CallsMean, CallMeans, Payout!Running
<1>5. answers' = answers
      \/ /\ answers' = answers \cup {[user |-> i.user, key |-> i.key, input |-> i, payout |-> p]}
         /\ known[p].input = i
  BY <1>1 DEF Payout!Answered
<1>6. KeysMean'
  BY <1>2, <1>3, <1>4, <1>5 DEF PayoutsInv, KeysMean
<1>7. PayoutsType'
  BY <1>2 DEF PayoutsInv, PayoutsType, Payout!Goes
<1>8. CallsMean'
  <2> SUFFICES ASSUME NEW j \in Calls PROVE CallMeans(task[j])'
    BY DEF CallsMean
  <2>1. task'[j] = [at |-> "idle"] \/ task'[j] = task[j]
    BY <1>2 DEF PayoutsInv, PayoutsType, Payout!Goes
  <2>2. CallMeans(task[j])
    BY DEF PayoutsInv, CallsMean
  <2>3. CASE task'[j] = [at |-> "idle"]
    BY <2>3 DEF CallMeans
  <2>4. CASE task'[j] = task[j]
    BY <1>2, <2>2, <2>4 DEF CallMeans
  <2> QED
    BY <2>1, <2>3, <2>4
<1>9. Payout!PayoutsConsistent' /\ \A q \in Payouts : RowsMean(q)'
  BY <1>2 DEF PayoutsInv, Payout!PayoutsConsistent, RowsMean, RowsOf
<1> QED
  BY <1>6, <1>7, <1>8, <1>9 DEF PayoutsInv

\* Documents that exist keep their key, user and body: what was read of them holds.
LEMMA SnapshotsStay ==
    ASSUME PayoutsInv, NEW k \in Calls, Payout!Goes(k, [at |-> "idle"]),
           \A p \in Payouts : payout[p].key # None =>
               /\ payout'[p].key = payout[p].key /\ payout'[p].user = payout[p].user
               /\ payout'[p].input = payout[p].input
    PROVE  CallsMean'
<1> SUFFICES ASSUME NEW j \in Calls PROVE CallMeans(task[j])'
  BY DEF CallsMean
<1>1. task'[j] = [at |-> "idle"] \/ task'[j] = task[j]
  BY DEF PayoutsInv, PayoutsType, Payout!Goes
<1>2. CallMeans(task[j])
  BY DEF PayoutsInv, CallsMean
<1>3. CASE task'[j] = [at |-> "idle"]
  BY <1>3 DEF CallMeans
<1>4. CASE task'[j] = task[j]
  BY <1>2, <1>4 DEF CallMeans
<1> QED
  BY <1>1, <1>3, <1>4

LEMMA CreateStep ==
    ASSUME None \notin Payouts, PayoutsInv, NEW k \in Calls, Payout!CreateReferralPayout(k)
    PROVE  PayoutsInv'
<1> PICK i : i = task[k].asked.input
  OBVIOUS
<1> PICK cs : cs = Payout!Chosen(k, i)
  OBVIOUS
<1>1. Payout!Running(k, "create") /\ i \in Payout!Inputs
  BY DEF Payout!CreateReferralPayout, Payout!Running, PayoutsInv, CallsMean, CallMeans,
     Payout!Operations
<1>2. CASE Payout!Conflict(k, cs, {})
  BY <1>1, <1>2, AgainStep DEF Payout!Conflict, Payout!Running
<1>3. CASE Payout!AnswerExisting(k, i, payout)
  BY <1>1, <1>3, AnswerStep
<1>4. ASSUME NEW p \in Payouts, payout[p].status = "NONE",
             payout' = [payout EXCEPT ![p] =
                [status |-> "PENDING", user |-> i.user, method |-> i.method,
                 currency |-> i.currency, amount |-> Payout!Total(cs), commissions |-> cs,
                 key |-> i.key, input |-> i, receipt |-> FALSE]],
             owed' = [c \in Commissions |->
                IF c \in cs THEN [status |-> "LOCKED", payout |-> p] ELSE owed[c]],
             Payout!Answered(i, p), Payout!Goes(k, [at |-> "idle"]), UNCHANGED rows,
             Payout!Unchanged(k, cs, {}), Payout!WithKey(payout, i) = {}, Payout!Requestable(k, i)
      PROVE  PayoutsInv'
  <2>1. i.user \in Users /\ i.currency \in Currencies /\ i.key \in Keys \cup {None}
        /\ i.method \in {"WALLET_CREDIT", "MANUAL_EXTERNAL"} /\ i.commissions \subseteq Commissions
    BY <1>1 DEF Payout!Inputs
  <2>2. cs \in SUBSET Commissions
    BY <2>1 DEF Payout!Chosen, Payout!OldestFor
  <2>3. \A c \in cs : /\ owed[c].status = "AVAILABLE" /\ Earner[c] = i.user
                      /\ EarnedIn[c] = i.currency
    BY <1>4 DEF Payout!Requestable, Payout!Unchanged, Payout!Available
  <2> PICK new : new = [status |-> "PENDING", user |-> i.user, method |-> i.method,
                 currency |-> i.currency, amount |-> Payout!Total(cs), commissions |-> cs,
                 key |-> i.key, input |-> i, receipt |-> FALSE]
    OBVIOUS
  <2>4. Payout!Total(cs) \in Totals
    BY <2>2 DEF Totals
  <2>5. new \in PayoutDocuments
    BY <1>1, <2>1, <2>2, <2>4 DEF PayoutDocuments
  <2>6. payout[p] = Payout!NoPayout
    BY <1>4 DEF PayoutsInv, PayoutsType, PayoutDocuments
  <2>7. payout'[p] = new /\ \A q \in Payouts : q # p => payout'[q] = payout[q]
    BY <1>4 DEF PayoutsInv, PayoutsType
  <2>8. \A c \in Commissions : owed'[c] =
            IF c \in cs THEN [status |-> "LOCKED", payout |-> p] ELSE owed[c]
    BY <1>4
  <2>9. PayoutsType'
    <3>1. owed' \in [Commissions -> CommissionDocuments]
      BY <1>4 DEF PayoutsInv, PayoutsType, CommissionDocuments
    <3>2. DOMAIN payout' = Payouts /\ DOMAIN task' = Calls /\ rows' = rows
      BY <1>4 DEF PayoutsInv, PayoutsType, Payout!Goes
    <3> QED
      BY <2>5, <2>7, <3>1, <3>2 DEF PayoutsInv, PayoutsType
  <2>10. CallsMean'
    BY <1>4, <2>6, <2>7, SnapshotsStay DEF Payout!NoPayout
  <2>11. Payout!PayoutsConsistent'
    <3>1. ASSUME NEW q \in Payouts, NEW c \in payout'[q].commissions
          PROVE  /\ payout'[q].status = "PENDING" =>
                       owed'[c] = [status |-> "LOCKED", payout |-> q]
                 /\ payout'[q].status = "PAID" =>
                       owed'[c] = [status |-> "PAID", payout |-> q]
                 /\ payout'[q].status = "REJECTED" => owed'[c].payout # q
                 /\ EarnedIn[c] = payout'[q].currency /\ Earner[c] = payout'[q].user
      <4>1. CASE q = p
        BY <2>2, <2>3, <2>7, <2>8, <3>1, <4>1
      <4>2. CASE q # p
        <5>1. payout'[q] = payout[q] /\ c \in payout[q].commissions
          BY <2>7, <3>1, <4>2
        <5>2. /\ payout[q].status = "PENDING" =>
                   owed[c] = [status |-> "LOCKED", payout |-> q]
              /\ payout[q].status = "PAID" =>
                   owed[c] = [status |-> "PAID", payout |-> q]
              /\ payout[q].status = "REJECTED" => owed[c].payout # q
              /\ EarnedIn[c] = payout[q].currency /\ Earner[c] = payout[q].user
          BY <5>1 DEF PayoutsInv, Payout!PayoutsConsistent
        <5>3. c \in Commissions
          BY <5>1 DEF PayoutsInv, PayoutsType, PayoutDocuments, Payout!NoPayout
        <5>4. CASE c \in cs
          <6>1. owed'[c] = [status |-> "LOCKED", payout |-> p]
                /\ owed[c].status = "AVAILABLE"
            BY <2>3, <2>8, <5>3, <5>4
          <6> QED
            BY <4>2, <5>1, <5>2, <6>1
        <5>5. CASE c \notin cs
          BY <2>8, <5>1, <5>2, <5>3, <5>5
        <5> QED
          BY <5>4, <5>5
      <4> QED
        BY <4>1, <4>2
    <3>2. \A q \in Payouts : payout'[q].status # "NONE" =>
             payout'[q].amount = Payout!Total(payout'[q].commissions)
      BY <2>7 DEF PayoutsInv, Payout!PayoutsConsistent
    <3>3. ASSUME NEW c \in Commissions, owed'[c].status # "AVAILABLE"
          PROVE  /\ owed'[c].payout \in Payouts
                 /\ c \in payout'[owed'[c].payout].commissions
      <4>1. CASE c \in cs
        BY <2>7, <2>8, <4>1
      <4>2. CASE c \notin cs
        <5>1. owed'[c] = owed[c]
          BY <2>8, <4>2
        <5>2. /\ owed[c].payout \in Payouts
              /\ c \in payout[owed[c].payout].commissions
          BY <3>3, <5>1 DEF PayoutsInv, Payout!PayoutsConsistent
        <5>3. owed[c].payout # p
          BY <2>6, <5>2 DEF Payout!NoPayout
        <5> QED
          BY <2>7, <5>1, <5>2, <5>3
      <4> QED
        BY <4>1, <4>2
    <3> QED
      BY <3>1, <3>2, <3>3 DEF Payout!PayoutsConsistent
  <2>12. KeysMean'
    <3>1. \A q \in Payouts : i.key # None => ~(payout[q].key = i.key /\ payout[q].user = i.user)
      BY <1>4 DEF Payout!WithKey
    <3>2. new.key = i.key /\ new.user = i.user /\ new.input = i
      OBVIOUS
    <3>3. \A q, r \in Payouts :
             (payout'[q].key # None /\ payout'[q].key = payout'[r].key
                /\ payout'[q].user = payout'[r].user) => q = r
      <4> SUFFICES ASSUME NEW q \in Payouts, NEW r \in Payouts, payout'[q].key # None,
                          payout'[q].key = payout'[r].key, payout'[q].user = payout'[r].user
                   PROVE  q = r
        OBVIOUS
      <4>1. CASE q = p
        <5>1. CASE r = p
          BY <4>1, <5>1
        <5>2. CASE r # p
          BY <2>7, <3>1, <3>2, <4>1, <5>2
        <5> QED
          BY <5>1, <5>2
      <4>2. CASE r = p
        BY <2>7, <3>1, <3>2, <4>1, <4>2
      <4>3. CASE q # p /\ r # p
        BY <2>7, <4>3 DEF PayoutsInv, KeysMean
      <4> QED
        BY <4>1, <4>2, <4>3
    <3>4. \A a \in answers : a.payout # p
      BY <2>6 DEF PayoutsInv, KeysMean, Payout!NoPayout
    <3>5. \/ answers' = answers
          \/ /\ i.key # None
             /\ answers' = answers \cup
                   {[user |-> i.user, key |-> i.key, input |-> i, payout |-> p]}
      <4>1. CASE i.key = None
        BY <1>4, <4>1, Zenon DEF Payout!Answered
      <4>2. CASE i.key # None
        BY <1>4, <4>2, Zenon DEF Payout!Answered
      <4> QED
        BY <4>1, <4>2
    <3>6. \A a \in answers' :
             /\ a.key # None /\ a.payout \in Payouts /\ payout'[a.payout].key = a.key
             /\ payout'[a.payout].user = a.user /\ payout'[a.payout].input = a.input
      BY <2>7, <3>2, <3>4, <3>5 DEF PayoutsInv, KeysMean
    <3> QED
      BY <3>3, <3>6 DEF KeysMean
  <2>13. ASSUME NEW q \in Payouts PROVE RowsMean(q)'
    <3>1. RowsMean(q) /\ RowsOf(q)' = RowsOf(q)
      BY <1>4 DEF PayoutsInv, RowsOf
    <3>2. CASE q = p
      BY <2>6, <2>7, <3>1, <3>2 DEF RowsMean, Payout!NoPayout
    <3>3. CASE q # p
      BY <1>4, <2>7, <3>1, <3>3 DEF RowsMean
    <3> QED
      BY <3>2, <3>3
  <2> QED
    BY <2>9, <2>10, <2>11, <2>12, <2>13 DEF PayoutsInv
<1> QED
  BY <1>2, <1>3, <1>4 DEF Payout!CreateReferralPayout

(***************************************************************************)
(* The decisions                                                           *)
(***************************************************************************)
\* What is decided in the snapshot holds of the documents when nothing changed.
LEMMA DecidedNow ==
    ASSUME PayoutsInv, NEW k \in Calls, NEW p \in Payouts, Payout!Decidable(k, p),
           Payout!Unchanged(k, task[k].payout[p].commissions, {p})
    PROVE  /\ payout[p] = task[k].payout[p] /\ payout[p] \in PayoutDocuments
           /\ payout[p].status = "PENDING"
           /\ \A c \in payout[p].commissions : owed[c] = [status |-> "LOCKED", payout |-> p]
BY DEF PayoutsInv, PayoutsType, Payout!Decidable, Payout!Unchanged, Payout!NoPayout

\* A decision settles the payout and its commissions together.
LEMMA SettleStep ==
    ASSUME None \notin Payouts, PayoutsInv, NEW k \in Calls, NEW p \in Payouts,
           payout[p] \in PayoutDocuments, payout[p].status = "PENDING",
           \A c \in payout[p].commissions : owed[c] = [status |-> "LOCKED", payout |-> p],
           NEW decision \in PayoutDocuments, NEW status,
           \/ /\ decision.status = "PAID" /\ status = [status |-> "PAID", payout |-> p]
           \/ /\ decision.status = "REJECTED" /\ status = [status |-> "AVAILABLE", payout |-> None],
           decision.user = payout[p].user, decision.method = payout[p].method,
           decision.currency = payout[p].currency, decision.amount = payout[p].amount,
           decision.commissions = payout[p].commissions, decision.key = payout[p].key,
           decision.input = payout[p].input,
           Payout!Settle(k, p, decision, status), rows' \in Seq(Rows),
           \A q \in Payouts : q # p => RowsMean(q)', RowsMean(p)'
    PROVE  PayoutsInv'
<1> PICK cs : cs = payout[p].commissions
  OBVIOUS
<1>1. cs \in SUBSET Commissions
  BY DEF PayoutDocuments
<1>2. payout'[p] = decision /\ \A q \in Payouts : q # p => payout'[q] = payout[q]
  BY DEF Payout!Settle, PayoutsInv, PayoutsType
<1>3. \A c \in Commissions : owed'[c] = IF c \in cs THEN status ELSE owed[c]
  BY DEF Payout!Settle
<1>4. status \in CommissionDocuments
  BY DEF CommissionDocuments
<1>5. PayoutsType'
  <2>1. owed' \in [Commissions -> CommissionDocuments]
    BY <1>4 DEF Payout!Settle, PayoutsInv, PayoutsType
  <2>2. DOMAIN payout' = Payouts /\ DOMAIN task' = Calls
    BY DEF Payout!Settle, Payout!Goes, PayoutsInv, PayoutsType
  <2> QED
    BY <1>2, <2>1, <2>2 DEF PayoutsInv, PayoutsType
<1>6. CallsMean'
  BY <1>2, SnapshotsStay DEF Payout!Settle
<1>7. Payout!PayoutsConsistent'
  <2>1. ASSUME NEW q \in Payouts, NEW c \in payout'[q].commissions
        PROVE  /\ payout'[q].status = "PENDING" =>
                     owed'[c] = [status |-> "LOCKED", payout |-> q]
               /\ payout'[q].status = "PAID" =>
                     owed'[c] = [status |-> "PAID", payout |-> q]
               /\ payout'[q].status = "REJECTED" => owed'[c].payout # q
               /\ EarnedIn[c] = payout'[q].currency /\ Earner[c] = payout'[q].user
    <3>1. c \in payout[q].commissions
      BY <1>2, <2>1
    <3>2. /\ payout[q].status = "PENDING" =>
               owed[c] = [status |-> "LOCKED", payout |-> q]
          /\ payout[q].status = "PAID" =>
               owed[c] = [status |-> "PAID", payout |-> q]
          /\ payout[q].status = "REJECTED" => owed[c].payout # q
          /\ EarnedIn[c] = payout[q].currency /\ Earner[c] = payout[q].user
      BY <3>1 DEF PayoutsInv, Payout!PayoutsConsistent
    <3>3. c \in Commissions
      BY <3>1 DEF PayoutsInv, PayoutsType, PayoutDocuments, Payout!NoPayout
    <3>4. CASE q = p
      <4>1. owed'[c] = status
        BY <1>3, <3>1, <3>3, <3>4
      <4> QED
        BY <1>2, <3>2, <3>4, <4>1
    <3>5. CASE q # p
      <4>1. payout'[q] = payout[q]
        BY <1>2, <3>5
      <4>2. CASE c \in cs
        <5>1. owed[c] = [status |-> "LOCKED", payout |-> p] /\ owed'[c] = status
          BY <1>3, <3>3, <4>2
        <5> QED
          BY <3>2, <3>5, <4>1, <5>1
      <4>3. CASE c \notin cs
        BY <1>3, <3>2, <3>3, <4>1, <4>3
      <4> QED
        BY <4>2, <4>3
    <3> QED
      BY <3>4, <3>5
  <2>2. \A q \in Payouts : payout'[q].status # "NONE" =>
           payout'[q].amount = Payout!Total(payout'[q].commissions)
    <3>1. payout[p].amount = Payout!Total(payout[p].commissions)
      BY DEF PayoutsInv, Payout!PayoutsConsistent
    <3>2. payout'[p].amount = Payout!Total(payout'[p].commissions)
      BY <1>2, <3>1
    <3> QED
      BY <1>2, <3>2 DEF PayoutsInv, Payout!PayoutsConsistent
  <2>3. ASSUME NEW c \in Commissions, owed'[c].status # "AVAILABLE"
        PROVE  /\ owed'[c].payout \in Payouts
               /\ c \in payout'[owed'[c].payout].commissions
    <3>1. CASE c \in cs
      BY <1>2, <1>3, <2>3, <3>1
    <3>2. CASE c \notin cs
      <4>1. owed'[c] = owed[c]
        BY <1>3, <3>2
      <4>2. /\ owed[c].payout \in Payouts
            /\ c \in payout[owed[c].payout].commissions
        BY <2>3, <4>1 DEF PayoutsInv, Payout!PayoutsConsistent
      <4> QED
        BY <1>2, <4>1, <4>2
    <3> QED
      BY <3>1, <3>2
  <2> QED
    BY <2>1, <2>2, <2>3 DEF Payout!PayoutsConsistent
<1>8. KeysMean'
  <2>1. \A q \in Payouts : /\ payout'[q].key = payout[q].key
                           /\ payout[q].key # None => /\ payout'[q].user = payout[q].user
                                                      /\ payout'[q].input = payout[q].input
    BY <1>2
  <2>2. answers' = answers
    BY DEF Payout!Settle
  <2> QED
    BY <2>1, <2>2 DEF PayoutsInv, KeysMean
<1> QED
  BY <1>5, <1>6, <1>7, <1>8 DEF PayoutsInv

\* Without a new row the rows of a payout mean what they meant.
LEMMA SameRows ==
    ASSUME PayoutsInv, UNCHANGED rows, NEW q \in Payouts, payout'[q] = payout[q]
    PROVE  RowsMean(q)'
BY DEF PayoutsInv, RowsMean, RowsOf

LEMMA RejectStep ==
    ASSUME None \notin Payouts, PayoutsInv, NEW k \in Calls, Payout!RejectReferralPayout(k)
    PROVE  PayoutsInv'
<1> PICK p : p = task[k].asked.payout
  OBVIOUS
<1> PICK cs : cs = task[k].payout[p].commissions
  OBVIOUS
<1>1. p \in Payouts /\ task[k].at = "run" /\ Payout!Decidable(k, p)
  BY DEF Payout!RejectReferralPayout, Payout!Running, PayoutsInv, CallsMean, CallMeans,
     Payout!Operations
<1>2. CASE Payout!Conflict(k, cs, {p})
  BY <1>1, <1>2, AgainStep DEF Payout!Conflict
<1>3. CASE /\ Payout!Unchanged(k, cs, {p}) /\ UNCHANGED rows
           /\ Payout!Settle(k, p, [payout[p] EXCEPT !.status = "REJECTED"],
                     [status |-> "AVAILABLE", payout |-> None])
  <2>1. /\ payout[p] \in PayoutDocuments /\ payout[p].status = "PENDING"
        /\ \A c \in payout[p].commissions : owed[c] = [status |-> "LOCKED", payout |-> p]
    BY <1>1, <1>3, DecidedNow
  <2> PICK decision : decision = [payout[p] EXCEPT !.status = "REJECTED"]
    OBVIOUS
  <2>2. /\ decision \in PayoutDocuments /\ decision.status = "REJECTED"
        /\ decision.user = payout[p].user /\ decision.method = payout[p].method
        /\ decision.currency = payout[p].currency /\ decision.amount = payout[p].amount
        /\ decision.commissions = payout[p].commissions /\ decision.key = payout[p].key
        /\ decision.input = payout[p].input
    BY <2>1 DEF PayoutDocuments
  <2>3. payout'[p] = decision /\ \A q \in Payouts : q # p => payout'[q] = payout[q]
    BY <1>1, <1>3 DEF Payout!Settle, PayoutsInv, PayoutsType
  <2>4. RowsMean(p)'
    <3>1. RowsOf(p)' = RowsOf(p) /\ RowsOf(p) = {}
      BY <1>1, <1>3, <2>1 DEF RowsOf, RowsMean, PayoutsInv
    <3> QED
      BY <2>2, <2>3, <3>1 DEF RowsMean
  <2>5. \A q \in Payouts : q # p => RowsMean(q)'
    BY <1>3, <2>3, SameRows
  <2>6. rows' \in Seq(Rows)
    BY <1>3 DEF PayoutsInv, PayoutsType
  <2> QED
    BY <1>1, <1>3, <2>1, <2>2, <2>4, <2>5, <2>6, SettleStep
<1> QED
  BY <1>2, <1>3 DEF Payout!RejectReferralPayout

LEMMA PayManualStep ==
    ASSUME None \notin Payouts, PayoutsInv, NEW k \in Calls, Payout!MarkManualReferralPayoutPaid(k)
    PROVE  PayoutsInv'
<1> PICK p : p = task[k].asked.payout
  OBVIOUS
<1> PICK cs : cs = task[k].payout[p].commissions
  OBVIOUS
<1> PICK receipt : receipt = task[k].asked.receipt
  OBVIOUS
<1>1. p \in Payouts /\ task[k].at = "run" /\ Payout!Decidable(k, p) /\ receipt \in BOOLEAN
      /\ task[k].payout[p].method = "MANUAL_EXTERNAL"
  BY DEF Payout!MarkManualReferralPayoutPaid, Payout!Running, PayoutsInv, CallsMean,
     CallMeans, Payout!Operations
<1>2. CASE Payout!Conflict(k, cs, {p})
  BY <1>1, <1>2, AgainStep DEF Payout!Conflict
<1>3. CASE /\ Payout!Unchanged(k, cs, {p}) /\ UNCHANGED rows
           /\ Payout!Settle(k, p, [payout[p] EXCEPT !.status = "PAID", !.receipt = receipt],
                     [status |-> "PAID", payout |-> p])
  <2>1. /\ payout[p] \in PayoutDocuments /\ payout[p].status = "PENDING"
        /\ \A c \in payout[p].commissions : owed[c] = [status |-> "LOCKED", payout |-> p]
        /\ payout[p].method = "MANUAL_EXTERNAL"
    BY <1>1, <1>3, DecidedNow
  <2> PICK decision : decision = [payout[p] EXCEPT !.status = "PAID", !.receipt = receipt]
    OBVIOUS
  <2>2. /\ decision \in PayoutDocuments /\ decision.status = "PAID"
        /\ decision.user = payout[p].user /\ decision.method = payout[p].method
        /\ decision.currency = payout[p].currency /\ decision.amount = payout[p].amount
        /\ decision.commissions = payout[p].commissions /\ decision.key = payout[p].key
        /\ decision.input = payout[p].input
    BY <1>1, <2>1 DEF PayoutDocuments
  <2>3. payout'[p] = decision /\ \A q \in Payouts : q # p => payout'[q] = payout[q]
    BY <1>1, <1>3 DEF Payout!Settle, PayoutsInv, PayoutsType
  <2>4. RowsMean(p)'
    <3>1. RowsOf(p)' = RowsOf(p) /\ RowsOf(p) = {}
      BY <1>1, <1>3, <2>1 DEF RowsOf, RowsMean, PayoutsInv
    <3> QED
      BY <2>1, <2>2, <2>3, <3>1 DEF RowsMean
  <2>5. \A q \in Payouts : q # p => RowsMean(q)'
    BY <1>3, <2>3, SameRows
  <2>6. rows' \in Seq(Rows)
    BY <1>3 DEF PayoutsInv, PayoutsType
  <2> QED
    BY <1>1, <1>3, <2>1, <2>2, <2>4, <2>5, <2>6, SettleStep
<1> QED
  BY <1>2, <1>3 DEF Payout!MarkManualReferralPayoutPaid

LEMMA Appended ==
    ASSUME NEW S, NEW s \in Seq(S), NEW e \in S
    PROVE  /\ DOMAIN Append(s, e) = DOMAIN s \cup {Len(s) + 1} /\ Len(s) + 1 \notin DOMAIN s
           /\ Append(s, e)[Len(s) + 1] = e
           /\ \A n \in DOMAIN s : Append(s, e)[n] = s[n]
<1>1. Len(s) \in Nat /\ DOMAIN s = 1..Len(s) /\ DOMAIN Append(s, e) = 1..(Len(s) + 1)
  OBVIOUS
<1>2. Append(s, e)[Len(s) + 1] = e
  OBVIOUS
<1>3. \A n \in 1..Len(s) : Append(s, e)[n] = s[n]
  OBVIOUS
<1> QED
  BY <1>1, <1>2, <1>3

LEMMA PayWalletStep ==
    ASSUME None \notin Payouts, PayoutsInv, NEW k \in Calls, Payout!PayWalletReferralPayout(k)
    PROVE  PayoutsInv'
<1> PICK p : p = task[k].asked.payout
  OBVIOUS
<1> PICK seen : seen = task[k].payout[p]
  OBVIOUS
<1>1. p \in Payouts /\ task[k].at = "run" /\ Payout!Decidable(k, p)
      /\ seen.method = "WALLET_CREDIT"
      /\ task[k].user[seen.user] = [active |-> TRUE, currency |-> seen.currency]
  BY DEF Payout!PayWalletReferralPayout, Payout!Running, PayoutsInv, CallsMean, CallMeans,
     Payout!Operations
<1>2. CASE Payout!Conflict(k, seen.commissions, {p})
  BY <1>1, <1>2, AgainStep DEF Payout!Conflict
<1>3. CASE user[seen.user] # task[k].user[seen.user]
  <2>1. task[k].operation = "payWallet"
    BY DEF Payout!PayWalletReferralPayout, Payout!Running
  <2> QED
    BY <1>1, <1>3, <2>1, AgainStep DEF Payout!PayWalletReferralPayout
<1>4. ASSUME Payout!Unchanged(k, seen.commissions, {p}), user[seen.user] = task[k].user[seen.user],
             \A n \in DOMAIN rows : rows[n].payout # p,
             rows' = Append(rows, [payout |-> p, user |-> seen.user,
                         amount |-> Payout!WalletCredit(seen.amount),
                         currency |-> user[seen.user].currency]),
             Payout!Settle(k, p, [payout[p] EXCEPT !.status = "PAID"],
                    [status |-> "PAID", payout |-> p])
      PROVE  PayoutsInv'
  <2>1. /\ payout[p] \in PayoutDocuments /\ payout[p].status = "PENDING" /\ seen = payout[p]
        /\ \A c \in payout[p].commissions : owed[c] = [status |-> "LOCKED", payout |-> p]
    BY <1>1, <1>4, DecidedNow
  <2> PICK decision : decision = [payout[p] EXCEPT !.status = "PAID"]
    OBVIOUS
  <2>2. /\ decision \in PayoutDocuments /\ decision.status = "PAID"
        /\ decision.user = payout[p].user /\ decision.method = payout[p].method
        /\ decision.currency = payout[p].currency /\ decision.amount = payout[p].amount
        /\ decision.commissions = payout[p].commissions /\ decision.key = payout[p].key
        /\ decision.input = payout[p].input
    BY <2>1 DEF PayoutDocuments
  <2>3. payout'[p] = decision /\ \A q \in Payouts : q # p => payout'[q] = payout[q]
    BY <1>1, <1>4 DEF Payout!Settle, PayoutsInv, PayoutsType
  <2> DEFINE row == [payout |-> p, user |-> seen.user, amount |-> Payout!WalletCredit(seen.amount),
                     currency |-> user[seen.user].currency]
  <2>4. /\ row.payout = p /\ row.user = payout[p].user /\ row.currency = payout[p].currency
        /\ row.amount = Payout!WalletCredit(payout[p].amount)
    <3>1. user[seen.user] = task[k].user[seen.user]
      BY <1>4, Zenon
    <3>2. user[seen.user] = [active |-> TRUE, currency |-> seen.currency]
      BY <1>1, <3>1, Zenon
    <3>3. user[seen.user].currency = seen.currency
      BY <3>2
    <3> QED
      BY <2>1, <3>3
  <2>5. row \in Rows
    <3>1. /\ payout[p].user \in Users /\ payout[p].currency \in Currencies
          /\ payout[p].amount \in Totals
      BY <2>1 DEF PayoutDocuments
    <3>2. Payout!WalletCredit(payout[p].amount) \in {Payout!WalletCredit(m) : m \in Totals}
      BY <3>1
    <3> QED
      BY <1>1, <2>4, <3>1, <3>2 DEF Rows
  <2>6. /\ rows \in Seq(Rows) /\ rows' = Append(rows, row) /\ rows' \in Seq(Rows)
    <3>1. rows \in Seq(Rows)
      BY DEF PayoutsInv, PayoutsType
    <3>2. rows' = Append(rows, row)
      BY <1>4, Zenon
    <3> HIDE DEF row
    <3>3. Append(rows, row) \in Seq(Rows)
      BY <2>5, <3>1
    <3> QED
      BY <3>1, <3>2, <3>3
  <2> HIDE DEF row
  <2>7. /\ DOMAIN rows' = DOMAIN rows \cup {Len(rows) + 1} /\ Len(rows) + 1 \notin DOMAIN rows
        /\ rows'[Len(rows) + 1] = row /\ \A n \in DOMAIN rows : rows'[n] = rows[n]
    BY <2>5, <2>6, Appended
  <2>8. RowsMean(p)'
    <3>1. payout[p].amount = Payout!Total(payout[p].commissions)
      BY <1>1, <2>1 DEF PayoutsInv, Payout!PayoutsConsistent
    <3>2. RowsOf(p)' = {Len(rows) + 1}
      <4>1. \A n \in DOMAIN rows : rows'[n].payout # p
        BY <1>4, <2>7
      <4>2. rows'[Len(rows) + 1].payout = p
        BY <2>4, <2>7
      <4> QED
        BY <2>7, <4>1, <4>2 DEF RowsOf
    <3>3. /\ rows'[Len(rows) + 1].amount = Payout!WalletCredit(Payout!Total(payout'[p].commissions))
          /\ rows'[Len(rows) + 1].currency = payout'[p].currency
          /\ rows'[Len(rows) + 1].user = payout'[p].user
      <4>1. rows'[Len(rows) + 1] = row
        BY <2>7
      <4>2. /\ row.amount = Payout!WalletCredit(Payout!Total(decision.commissions))
            /\ row.currency = decision.currency /\ row.user = decision.user
        BY <2>2, <2>4, <3>1
      <4> QED
        BY <2>3, <4>1, <4>2, Zenon
    <3>4. Len(rows) + 1 \in DOMAIN rows'
      BY <2>7
    <3> QED
      <4>1. payout'[p].status = "PAID" /\ payout'[p].method = "WALLET_CREDIT"
        <5>1. seen.method = "WALLET_CREDIT" /\ seen = payout[p]
          BY <1>1, <2>1
        <5> QED
          BY <2>2, <2>3, <5>1
      <4> QED
        BY <3>2, <3>3, <3>4, <4>1 DEF RowsMean
  <2>9. ASSUME NEW q \in Payouts, q # p PROVE RowsMean(q)'
    <3>1. payout'[q] = payout[q] /\ RowsMean(q)
      BY <2>3, <2>9 DEF PayoutsInv
    <3>2. RowsOf(q)' = RowsOf(q)
      <4>1. rows'[Len(rows) + 1].payout = p
        BY <2>4, <2>7
      <4> QED
        BY <2>7, <2>9, <4>1 DEF RowsOf
    <3>3. \A n \in RowsOf(q) : n \in DOMAIN rows' /\ rows'[n] = rows[n]
      BY <2>7 DEF RowsOf
    <3> QED
      BY <2>7, <3>1, <3>2, <3>3 DEF RowsMean
  <2> QED
    BY <1>1, <1>4, <2>1, <2>2, <2>6, <2>8, <2>9, SettleStep
<1> QED
  BY <1>2, <1>3, <1>4 DEF Payout!PayWalletReferralPayout

LEMMA PayoutsStep ==
    ASSUME None \notin Payouts, PayoutsInv, [Payout!Next]_Payout!vars PROVE PayoutsInv'
<1>1. CASE UNCHANGED Payout!vars
  BY <1>1 DEF Payout!vars, PayoutsInv, PayoutsType, CallsMean, CallMeans,
     Payout!PayoutsConsistent, KeysMean,
              RowsMean, RowsOf
<1>2. ASSUME NEW k \in Calls, Payout!Replay(k) PROVE PayoutsInv'
  BY <1>2, AnswerStep DEF Payout!Replay
<1> QED
  BY <1>1, <1>2, QuietPayoutStep, CreateStep, RejectStep, PayManualStep, PayWalletStep
     DEF Payout!Next

\* createReferralPayout and the three decisions: payouts and commissions agree, a
\* wallet payout is credited once, and calls with one key get one payout.
THEOREM PayoutsAreSound == Payout!Spec => []PayoutsSound
<1> USE PayoutsAssumption
<1>1. Payout!Init => PayoutsInv
  BY PayoutsInit
<1>2. PayoutsInv /\ [Payout!Next]_Payout!vars => PayoutsInv'
  BY PayoutsStep
<1> QED
  BY <1>1, <1>2, InvIsSound, PTL DEF Payout!Spec, PayoutsSound
================================================================================
