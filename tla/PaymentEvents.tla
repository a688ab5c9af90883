------------------------------ MODULE PaymentEvents ------------------------------
(***************************************************************************)
(* The bridge of payment SMS: a delivery is stored once, matched with the  *)
(* pending deposits, and, when exactly one deposit fits, approves it.  The *)
(* creation of a deposit starts a task that looks for an event that came   *)
(* before it.  Events are saved without a transaction.                     *)
(***************************************************************************)
EXTENDS Deposits

CONSTANTS Messages,     \* SMS
          Transaction,  \* the transaction id of a message, None if it does not parse
          Paid,         \* the amount of a message
          TransactionOf,\* the transaction id a customer gave for a deposit, or None
          Money,        \* the currency of the bridge
          TooOld,       \* messages older than maxEventAgeMinutes, or of a source
                        \* that is not approved automatically
          MaxDeliveries

ASSUME PaymentsAssumption ==
    /\ None \notin Messages \cup Requests
    /\ TransactionOf \in [Requests -> {Transaction[m] : m \in Messages} \cup {None}]

VARIABLES event,      \* PaymentEvent documents
          deliveries,
          overlapped  \* messages that two tasks matched at the same time (history)

eventVars == <<event, deliveries, overlapped>>

NoEvent == [exists |-> FALSE, match |-> "NONE", deposit |-> None, error |-> FALSE]

EventInit ==
    /\ Init
    /\ event = [m \in Messages |-> NoEvent]
    /\ deliveries = 0 /\ overlapped = {}

\* classifyAndParseSms
Parsed(m) == Transaction[m] # None

\* The unique indexes: the message itself, or a parsed one of the same transaction.
Known(m) ==
    \E n \in Messages : event[n].exists /\ (n = m \/ (Parsed(m) /\ Transaction[n] = Transaction[m]))

Matching(m) ==
    {k \in Calls : /\ call[k].at \in {"insert", "match", "apply", "approve", "approving", "answered"}
                   /\ call[k].event = m}

StartsOn(m) == overlapped' = IF Matching(m) = {} THEN overlapped ELSE overlapped \cup {m}

----------------------------------------------------------------------------
(* processVodafoneCashWebhook; a refused delivery changes nothing.         *)

Deliver(k) ==
    /\ Idle(k) /\ deliveries < MaxDeliveries
    /\ \E m \in Messages :
          IF Known(m) THEN Goes(k, [at |-> "idle"]) /\ UNCHANGED overlapped
          ELSE Goes(k, [at |-> "insert", event |-> m]) /\ StartsOn(m)
    /\ deliveries' = deliveries + 1
    /\ UNCHANGED <<docs, environment, history, event>>

InsertEvent(k) ==
    LET m == call[k].event
    IN  /\ call[k].at = "insert"
        /\ IF Known(m) THEN UNCHANGED event /\ Goes(k, [at |-> "idle"])
           ELSE /\ event' = [event EXCEPT ![m] =
                      [exists |-> TRUE, match |-> "UNMATCHED", deposit |-> None,
                       error |-> FALSE]]
                /\ Goes(k, IF Parsed(m) THEN [at |-> "match", event |-> m]
                           ELSE [at |-> "idle"])
        /\ UNCHANGED <<docs, environment, history, deliveries, overlapped>>

----------------------------------------------------------------------------
Same(d, m) == deposit[d].status = "PENDING" /\ TransactionOf[d] = Transaction[m]

\* amountEquals, the currency and isPhoneCompatible.
Compatible(d, m) == deposit[d].amount = Paid[m] /\ deposit[d].currency = Money

Exact(m) == {d \in Requests : Same(d, m) /\ Compatible(d, m)}

\* matchParsedPaymentEvent
MatchResult(m) ==
    IF \A d \in Requests : ~Same(d, m) THEN "UNMATCHED"
    ELSE CASE Cardinality(Exact(m)) = 1 -> "MATCHED"
           [] Exact(m) = {} -> "MISMATCH"
           [] OTHER -> "AMBIGUOUS"

MatchParsedPaymentEvent(k) ==
    LET m == call[k].event
    IN  /\ call[k].at = "match"
        /\ \E d \in IF MatchResult(m) = "MATCHED" THEN Exact(m) ELSE {None} :
              Goes(k, [at |-> "apply", event |-> m, result |-> MatchResult(m), deposit |-> d])
        /\ UNCHANGED <<docs, environment, history, eventVars>>

\* applyMatchResult saves the fields that differ from the loaded UNMATCHED event,
\* and when the event may be approved automatically it calls approveDeposit.
ApplyMatchResult(k) ==
    LET c == call[k]
    IN  /\ c.at = "apply"
        /\ event' = IF c.result = "UNMATCHED" THEN event
                    ELSE [event EXCEPT ![c.event] =
                              [@ EXCEPT !.match = c.result, !.deposit = c.deposit]]
        /\ Goes(k, IF c.result = "MATCHED" /\ c.event \notin TooOld
                   THEN [at |-> "approve", deposit |-> c.deposit, override |-> 0,
                         event |-> c.event]
                   ELSE [at |-> "idle"])
        /\ UNCHANGED <<docs, environment, history, deliveries, overlapped>>

MutSaveAnswer(k) == \* Mutant: the answer is not looked at.
    /\ call[k].at = "answered"
    /\ event' = [event EXCEPT ![call[k].event].match = "PROCESSED"]
    /\ Goes(k, [at |-> "idle"])
    /\ UNCHANGED <<docs, environment, history, deliveries, overlapped>>

SaveAnswer(k) ==
    LET m == call[k].event
    IN  /\ call[k].at = "answered"
        /\ event' = IF call[k].approved
                    THEN [event EXCEPT ![m] = [@ EXCEPT !.match = "PROCESSED", !.error = FALSE]]
                    ELSE [event EXCEPT ![m] = [@ EXCEPT !.error = TRUE]]
        /\ Goes(k, [at |-> "idle"])
        /\ UNCHANGED <<docs, environment, history, deliveries, overlapped>>

----------------------------------------------------------------------------
\* createDepositRequest in a currency that is active, and the task
\* matchExistingUnmatchedPaymentForDeposit that it does not wait for.
SubmitDeposit(k) ==
    /\ Idle(k)
    /\ \E d \in Requests, amount \in Amounts, currency \in configured :
          /\ CreateDepositRequest(d, amount, currency)
          /\ Goes(k, IF TransactionOf[d] = None THEN [at |-> "idle"]
                     ELSE [at |-> "search", deposit |-> d])
    /\ UNCHANGED eventVars

Candidates(d) ==
    {m \in Messages : /\ event[m].exists /\ event[m].match = "UNMATCHED"
                      /\ Transaction[m] = TransactionOf[d] /\ Compatible(d, m)}

MatchExistingUnmatchedPayment(k) ==
    LET d == call[k].deposit
    IN  /\ call[k].at = "search"
        /\ IF deposit[d].status # "PENDING" \/ Candidates(d) = {}
           THEN Goes(k, [at |-> "idle"]) /\ UNCHANGED overlapped
           ELSE \E m \in Candidates(d) :
                    Goes(k, [at |-> "match", event |-> m]) /\ StartsOn(m)
        /\ UNCHANGED <<docs, environment, history, event, deliveries>>

Next ==
    \/ \E k \in Calls :
          \/ SubmitDeposit(k) \/ Deliver(k) \/ InsertEvent(k)
          \/ MatchParsedPaymentEvent(k) \/ ApplyMatchResult(k) \/ SaveAnswer(k)
          \/ MatchExistingUnmatchedPayment(k)
          \/ /\ \/ ApproveDeposit(k) \/ Approval(k) \/ Reconciliation(k)
                \/ ReadForUpdate(k) \/ SaveUpdate(k) \/ Crash(k)
             /\ UNCHANGED eventVars
    \/ /\ Environment \/ \E d \in Requests : RejectDeposit(d)
       /\ UNCHANGED eventVars

Spec == EventInit /\ [][Next]_<<vars, eventVars>>

----------------------------------------------------------------------------
(* Properties *)

ApprovedFor(m) == {d \in Requests : deposit[d].status = "APPROVED" /\ deposit[d].event = m}

\* One payment approves at most one deposit, however often its SMS is delivered,
\* deposits submitted and requests edited, and an event that is PROCESSED has approved
\* the deposit it names, unless two tasks matched it at the same time: the second
\* then works with the event as it was before.  A deposit approved by the bridge
\* carries the transaction of its event.
OneApprovalPerPayment ==
    \A m \in Messages :
        /\ m \notin overlapped =>
            /\ Cardinality(ApprovedFor(m)) <= 1
            /\ event[m].match = "PROCESSED" => event[m].deposit \in ApprovedFor(m)
        /\ \A d \in ApprovedFor(m) : TransactionOf[d] = Transaction[m]
================================================================================
