------------------------ MODULE ProviderServices_proofs ------------------------
(***************************************************************************)
(* What is proved about the components of ProviderServices for every value *)
(* of their constants.  Each has an inductive invariant of its own, and    *)
(* each argument follows one order or one product through whoever may have *)
(* it in hand.                                                             *)
(***************************************************************************)
EXTENDS ProviderServices, Integers, Sequences, FiniteSetTheorems, TLAPS

-----------------------------------------------------------------------------
(* ProviderMutations, for every set of executors, schedulers and           *)
(* administrators, any number of faults and each of the three services:    *)
(* the provider is called once at most, and money goes back only when it   *)
(* cannot deliver any more.  The claim happens once, the claimant alone    *)
(* sends, and whoever settles a failure without an answer of the provider  *)
(* is that claimant or runs before it sends.  The guard's refund asks      *)
(* nobody: a lone call of executeOrder gets there at the first exception   *)
(* only from its first read, before the claim.                             *)

Places == {"idle", "claim", "claimed", "sent", "answer", "success", "failed", "refused",
           "notSent", "pending", "pendingAnonymous", "unknown", "refund", "lookup",
           "unresolved", "rescue", "guard", "fatalRefund", "done"}

OrderRecords ==
    [status : {"PROCESSING", "MANUAL_REVIEW", "COMPLETED", "FAILED", "PARTIAL"},
     state : States, known : BOOLEAN, attempts : Nat,
     refund : {"no", "auto", "full", "partial", "fatal"}]

MutationsType ==
    /\ service \in {"hago", "nobility", "inchill"}
    /\ order \in OrderRecords
    /\ upstream \in {"idle", "open", "charged", "rejected", "refused"}
    /\ step \in [Actors -> Places]
    /\ clerk \in {"idle", "partial", "process", "complete", "rededuct"}
    /\ faults \in Nat

\* The provider has done nothing and will not: no request is under way or allowed.
NothingBought ==
    /\ upstream \in {"idle", "rejected", "refused"}
    /\ \A x \in Actors : step[x] # "sent"

\* One executor at most has claimed the order and not called the provider yet.
OneClaimant ==
    /\ \A x, y \in Actors :
          step[x] \in {"claimed", "sent"} /\ step[y] \in {"claimed", "sent"} => x = y
    /\ \A x \in Actors : step[x] \in {"claimed", "sent"} => upstream = "idle"

\* What the state of the mutation says of the provider and of the executors.
StateMeans ==
    /\ order.state \in {"READY", "CLAIMED"} => upstream = "idle" /\ NothingBought
    /\ order.state = "READY" => \A x \in Actors : step[x] # "claimed"
    /\ order.state = "SUCCESS" => upstream = "charged"
    /\ order.state = "FAILED" => NothingBought

\* What an actor about to settle knows.
StepMeans ==
    \A x \in Actors :
        /\ step[x] = "success" => upstream = "charged"
        /\ step[x] = "refused" => upstream = "refused"
        /\ step[x] = "failed" =>
              \/ upstream \in {"rejected", "refused"}
              \/ /\ upstream = "idle" /\ order.state # "READY"
                 /\ \A y \in Actors : step[y] \notin {"claimed", "sent"}
        /\ step[x] = "refund" => order.state = "FAILED"
        /\ step[x] = "notSent" => x \in Executors

\* What a handler of an exception knows.  A lone call of executeOrder is in the guard at
\* its first fault only if its own read failed, before anything was claimed.
NotBegun == upstream = "idle" /\ order.state = "READY"

GuardMeans ==
    \A e \in Executors :
        /\ step[e] \in {"rescue", "guard", "fatalRefund"} => faults # 0
        /\ Lone /\ step[e] = "idle" => NotBegun
        /\ Lone /\ step[e] \in {"guard", "fatalRefund"} /\ faults < 2 => NotBegun
        /\ step[e] = "fatalRefund" => order.status # "PROCESSING"

RefundMeans ==
    /\ clerk = "process" => order.status # "PROCESSING"
    /\ GivenBack => \/ order.state = "SUCCESS"
                    \/ /\ NothingBought
                       /\ order.state # "CLAIMED"
                       /\ order.state = "READY" => order.status # "PROCESSING"

MutationsInv ==
    MutationsType /\ OneClaimant /\ StateMeans /\ StepMeans /\ GuardMeans /\ RefundMeans

(***************************************************************************)
(* Every step keeps the invariant.                                         *)
(***************************************************************************)
LEMMA ExecutorKeepsInv ==
    ASSUME MutationsInv, NEW e \in Executors, ExecutorStep(e)
    PROVE  MutationsInv'
<1> USE DEF MutationsInv, MutationsType, OneClaimant, StateMeans, StepMeans, RefundMeans,
            NothingBought, GivenBack, GuardMeans, NotBegun, Lone, OrderRecords,
            Places, Goto, States, Actors
<1>1. CASE Execute(e)
  BY <1>1 DEF Execute
<1>2. CASE SwitchedOff(e)
  BY <1>2 DEF SwitchedOff
<1>3. CASE Claim(e)
  BY <1>3 DEF Claim
<1>4. CASE CheckFails(e)
  BY <1>4 DEF CheckFails
<1>5. CASE Send(e)
  BY <1>5 DEF Send
<1>6. CASE ConfigurationMissing(e)
  BY <1>6 DEF ConfigurationMissing
<1>7. CASE CallProvider(e)
  BY <1>7 DEF CallProvider
<1>8. CASE Answer(e)
  BY <1>8 DEF Answer, Outcomes
<1>9. CASE RecordPending(e)
  <2>1. CASE order.state # "SENT"
    BY <1>9, <2>1 DEF RecordPending
  <2>2. CASE order.state = "SENT"
    <3>1. PICK known \in BOOLEAN : order' = [order EXCEPT !.state = "PENDING", !.known = known]
      BY <1>9, <2>2 DEF RecordPending
    <3>2. /\ order'.status = order.status /\ order'.state = "PENDING"
          /\ order'.refund = order.refund
          /\ order' \in OrderRecords
      BY <3>1
    <3> QED
      BY <1>9, <2>2, <3>2 DEF RecordPending
  <2> QED
    BY <2>1, <2>2
<1>10. CASE MarkUnknown(e) \/ MarkUnexpectedExecutionError(e)
  <2>1. CASE order' = order
    BY <1>10, <2>1 DEF MarkUnknown, MarkUnexpectedExecutionError
  <2>2. CASE order' # order
    <3>1. PICK known \in BOOLEAN : order' = Unclear(known)
      BY <1>10 DEF MarkUnknown, MarkUnexpectedExecutionError
    <3>2. /\ order'.status = "MANUAL_REVIEW" /\ order'.state = "UNKNOWN"
          /\ order'.refund = order.refund
          /\ order' \in OrderRecords
      BY <2>2, <3>1 DEF Unclear
    <3>3. order.state \in {"READY", "CLAIMED", "SENT", "PENDING"}
      BY <2>2, <3>1 DEF Unclear
    <3>4. /\ step' = [step EXCEPT ![e] = "done"] /\ UNCHANGED <<service, upstream, clerk, faults>>
      BY <1>10 DEF MarkUnknown, MarkUnexpectedExecutionError
    <3> QED
      BY <3>2, <3>3, <3>4
  <2> QED
    BY <2>1, <2>2
<1>11. CASE FatalError(e)
  BY <1>11 DEF FatalError
<1>12. CASE FatalRefund(e)
  BY <1>12 DEF FatalRefund
<1>13. CASE Throws(e)
  BY <1>13 DEF Throws, Handlers
<1> QED
  BY <1>1, <1>2, <1>3, <1>4, <1>5, <1>6, <1>7, <1>8, <1>9, <1>10, <1>11, <1>12, <1>13
     DEF ExecutorStep

LEMMA SettleKeepsInv ==
    ASSUME MutationsInv, NEW x \in Actors, Settle(x)
    PROVE  MutationsInv'
<1> USE DEF MutationsInv, MutationsType, OneClaimant, StateMeans, StepMeans, RefundMeans,
            NothingBought, GivenBack, GuardMeans, NotBegun, Lone, OrderRecords,
            Places, Goto, States
<1>1. CASE SettleSuccess(x)
  <2>1. CASE order' = order
    BY <1>1, <2>1 DEF SettleSuccess
  <2>2. CASE order' = [order EXCEPT !.status = "COMPLETED", !.state = "SUCCESS"]
    <3>1. /\ step[x] = "success" /\ step' = [step EXCEPT ![x] = "done"]
          /\ UNCHANGED <<service, upstream, clerk, faults>>
      BY <1>1 DEF SettleSuccess
    <3>2. /\ order' \in OrderRecords /\ order'.state = "SUCCESS" /\ order'.status = "COMPLETED"
          /\ order'.refund = order.refund
      BY <2>2
    <3>3. MutationsType' /\ OneClaimant' /\ StateMeans' /\ StepMeans'
      BY <3>1, <3>2
    <3>4. GuardMeans' /\ RefundMeans'
      BY <3>1, <3>2
    <3> QED
      BY <3>3, <3>4
  <2> QED
    BY <1>1, <2>1, <2>2 DEF SettleSuccess
<1>2. CASE SettleAuthoritativeFailure(x)
  <2>1. NothingBought /\ order.state \notin {"FAILED", "SUCCESS"}
    BY <1>2 DEF SettleAuthoritativeFailure, MayFail, CanSettle
  <2>2. /\ step' = [step EXCEPT ![x] = "refund"] /\ UNCHANGED <<service, upstream, clerk, faults>>
        /\ order' \in OrderRecords /\ order'.state = "FAILED" /\ order'.status = "FAILED"
        /\ order'.refund = order.refund
    BY <1>2 DEF SettleAuthoritativeFailure, Failed
  <2>3. MutationsType'
    BY <2>2
  <2>4. OneClaimant' /\ NothingBought'
    BY <2>1, <2>2
  <2>5. StateMeans' /\ StepMeans'
    BY <2>1, <2>2, <2>4
  <2>6. RefundMeans'
    BY <2>1, <2>2, <2>4
  <2>7. ASSUME NEW e \in Executors PROVE Lone /\ NotBegun => e = x
    BY <1>2, <2>7 DEF SettleAuthoritativeFailure, MayFail
  <2>8. GuardMeans'
    BY <1>2, <2>2, <2>7 DEF SettleAuthoritativeFailure, MayFail
  <2> QED
    BY <2>3, <2>4, <2>5, <2>6, <2>8
<1>3. CASE LostSettlement(x)
  BY <1>3 DEF LostSettlement
<1>4. CASE Refund(x)
  BY <1>4 DEF Refund
<1> QED
  BY <1>1, <1>2, <1>3, <1>4 DEF Settle

LEMMA ReconcilerKeepsInv ==
    ASSUME MutationsInv, NEW r \in Schedulers \cup Reviewers,
           Reconcile(r) \/ Lookup(r) \/ Unresolved(r)
    PROVE  MutationsInv'
<1> USE MutationsAssumption
    DEF MutationsInv, MutationsType, OneClaimant, StateMeans, StepMeans, RefundMeans,
        NothingBought, GivenBack, GuardMeans, NotBegun, Lone, OrderRecords,
            Places, Goto, States, Actors
<1>1. CASE Reconcile(r)
  BY <1>1 DEF Reconcile
<1>2. CASE Lookup(r)
  BY <1>2 DEF Lookup, Outcomes
<1>3. CASE Unresolved(r)
  <2>1. Attempted(order) \in OrderRecords
        /\ Attempted(order).state = order.state /\ Attempted(order).status = order.status
        /\ Attempted(order).refund = order.refund
    BY DEF Attempted
  <2>2. CASE order' = Attempted(order)
    BY <1>3, <2>1, <2>2 DEF Unresolved
  <2>3. CASE order' = [Attempted(order) EXCEPT !.status = "MANUAL_REVIEW", !.state = "UNKNOWN"]
             /\ order.state = "PENDING"
    <3>1. /\ step' = [step EXCEPT ![r] = "idle"] /\ UNCHANGED <<service, upstream, clerk, faults>>
          /\ order' \in OrderRecords /\ order'.state = "UNKNOWN"
          /\ order'.status = "MANUAL_REVIEW" /\ order'.refund = order.refund
      BY <1>3, <2>1, <2>3 DEF Unresolved
    <3>2. MutationsType' /\ OneClaimant' /\ (NothingBought => NothingBought')
      BY <3>1
    <3>3. StateMeans' /\ StepMeans'
      BY <2>3, <3>1
    <3>4. RefundMeans'
      BY <2>3, <3>1, <3>2
    <3>5. GuardMeans'
      BY <2>3, <3>1
    <3> QED
      BY <3>2, <3>3, <3>4, <3>5
  <2> QED
    BY <1>3, <2>2, <2>3, Zenon DEF Unresolved
<1> QED
  BY <1>1, <1>2, <1>3

LEMMA ClerkKeepsInv == MutationsInv /\ Clerk => MutationsInv'
<1> SUFFICES ASSUME MutationsInv, Clerk PROVE MutationsInv'
  OBVIOUS
<1> USE DEF MutationsInv, MutationsType, OneClaimant, StateMeans, StepMeans, RefundMeans,
            NothingBought, GivenBack, GuardMeans, NotBegun, Lone, OrderRecords,
            Places, States, IsRefundBlocked
<1>1. CASE MarkOrderAsFailed
  BY <1>1 DEF MarkOrderAsFailed
<1>2. CASE RefundOrder
  BY <1>2 DEF RefundOrder
<1>3. CASE SavePartial
  BY <1>3 DEF SavePartial
<1>4. CASE ProcessOrderRefund
  BY <1>4 DEF ProcessOrderRefund
<1>5. CASE CompleteOrder
  BY <1>5 DEF CompleteOrder
<1>6. CASE CompleteSave
  <2>1. /\ order' \in OrderRecords /\ order'.state = order.state /\ order'.status = "COMPLETED"
        /\ order'.refund \in {"no", order.refund} /\ clerk' = "idle"
        /\ UNCHANGED <<service, upstream, step, faults>>
    BY <1>6 DEF CompleteSave
  <2>2. MutationsType' /\ OneClaimant' /\ StateMeans' /\ StepMeans'
    BY <2>1
  <2>3. RefundMeans'
    BY <2>1
  <2>4. GuardMeans'
    BY <2>1
  <2> QED
    BY <2>2, <2>3, <2>4
<1> QED
  BY <1>1, <1>2, <1>3, <1>4, <1>5, <1>6 DEF Clerk

LEMMA NextKeepsInv == MutationsInv /\ [Next]_mutationVars => MutationsInv'
<1> SUFFICES ASSUME MutationsInv, [Next]_mutationVars PROVE MutationsInv'
  OBVIOUS
<1>1. CASE ProviderDecides
  BY <1>1 DEF ProviderDecides, MutationsInv, MutationsType, OneClaimant, StateMeans, StepMeans,
              RefundMeans, NothingBought, GivenBack, GuardMeans, NotBegun, Lone, OrderRecords
<1>2. CASE Crash
  <2> USE DEF MutationsInv, MutationsType, OneClaimant, StateMeans, StepMeans, RefundMeans,
              NothingBought, GivenBack, GuardMeans, NotBegun, OrderRecords, Places
  <2>1. /\ UNCHANGED <<service, order, upstream>> /\ clerk' = "idle" /\ faults' = faults + 1
        /\ step' \in [Actors -> {"idle", "done"}]
        /\ \A e \in Executors : step'[e] = "idle" => step[e] = "idle"
    BY <1>2 DEF Crash, Actors
  <2>2. MutationsType' /\ OneClaimant' /\ StateMeans' /\ StepMeans' /\ RefundMeans'
    BY <2>1
  <2>3. GuardMeans'
    BY <2>1 DEF Lone, Actors
  <2> QED
    BY <2>2, <2>3
<1>3. CASE UNCHANGED mutationVars
  BY <1>3 DEF mutationVars, MutationsInv, MutationsType, OneClaimant, StateMeans, StepMeans,
              RefundMeans, NothingBought, GivenBack, GuardMeans, NotBegun, Lone, OrderRecords
<1> QED
  BY <1>1, <1>2, <1>3, ExecutorKeepsInv, SettleKeepsInv, ReconcilerKeepsInv, ClerkKeepsInv
     DEF Next

LEMMA InitHasInv == Init => MutationsInv
BY DEF Init, Actors, MutationsInv, MutationsType, OneClaimant, StateMeans, StepMeans,
   RefundMeans,
       NothingBought, GivenBack, GuardMeans, NotBegun, Lone, OrderRecords, Places, States

\* The provider is called once at most for an order, and never after its money has
\* gone back, but in the ways GivenBack leaves out: however many calls of executeOrder
\* race for the claim (execute of the three services).
CalledOnce ==
    [][\A e \in Executors : CallProvider(e) => upstream = "idle" /\ ~GivenBack]_mutationVars

THEOREM ProviderCalledOnce == Spec => CalledOnce
<1>1. ASSUME MutationsInv, NEW e \in Executors, CallProvider(e)
      PROVE  upstream = "idle" /\ ~GivenBack
  <2>1. step[e] = "sent" /\ e \in Actors
    BY <1>1 DEF CallProvider, Actors
  <2>2. upstream = "idle" /\ ~NothingBought
    BY <1>1, <2>1 DEF MutationsInv, OneClaimant, NothingBought
  <2> QED
    BY <1>1, <2>2 DEF MutationsInv, StateMeans, RefundMeans
<1>2. MutationsInv /\ [Next]_mutationVars =>
        [\A e \in Executors : CallProvider(e) => upstream = "idle" /\ ~GivenBack]_mutationVars
  BY <1>1
<1> QED
  BY <1>2, InitHasInv, NextKeepsInv, PTL DEF Spec, CalledOnce

\* Money goes back to the customer only when the provider has not delivered and
\* will not, or when its delivery had been settled, whatever executors, reconcilers
\* and administrators do meanwhile (isRefundBlocked, settle*), and though any one
\* step of executeOrder throws.
THEOREM MoneyBackIsProved == Spec => []RefundProved
<1>1. MutationsInv => RefundProved
  BY DEF MutationsInv, MutationsType, StateMeans, RefundMeans, NothingBought, RefundProved, Proved
<1> QED
  BY <1>1, InitHasInv, NextKeepsInv, PTL DEF Spec

-----------------------------------------------------------------------------
(* ProviderAnswers: what the services make of a provider's words.          *)

Held == {"working", "done", "dead"}
GivenUp == {"FAILED", "CANCELED", "PARTIAL"}

\* What a phase of the provider is to the order.
Tells(phase, result) ==
    CASE phase = "working" -> result = "PROCESSING"
      [] phase = "done" -> result = "COMPLETED"
      [] OTHER -> result \in GivenUp

\* Every word of a provider is taken for the phase it is said of: the adapters'
\* tables and statusMapper agree with the vocabularies the adapters document.
LEMMA WordsAreUnderstood ==
    ASSUME NEW a \in Answers!Adapters \ {"dealer"}, NEW phase \in Held,
           NEW word \in Answers!Vocabulary(a, phase)
    PROVE  Tells(phase, Answers!toInternalStatus(Answers!ProviderStatus(a, word)))
<1> USE DEF Answers!toInternalStatus, Answers!CompletedWords, Answers!PartialWords,
            Answers!CanceledWords, Answers!FailedWords
<1>1. CASE a = "alkasr"
  <2>1. Answers!ProviderStatus(a, word) = CASE phase = "working" -> "pending"
                                            [] phase = "done" -> "completed"
                                            [] OTHER -> "cancelled"
    BY <1>1 DEF Answers!Vocabulary, Answers!ProviderStatus, Answers!AlkasrStatus, Held
  <2> QED
    BY <2>1 DEF Tells, Held, GivenUp
<1>2. CASE a = "toros"
  <2>1. Answers!ProviderStatus(a, word) = CASE phase = "working" -> "pending"
                                            [] phase = "done" -> "completed"
                                            [] OTHER -> "cancelled"
    BY <1>2 DEF Answers!Vocabulary, Answers!ProviderStatus, Answers!TorosStatus, Held
  <2> QED
    BY <2>1 DEF Tells, Held, GivenUp
<1>3. CASE a = "ibra"
  <2>1. Answers!ProviderStatus(a, word) \in CASE phase = "working" -> {"pending", "processing"}
                                              [] phase = "done" -> {"completed"}
                                              [] OTHER -> {"cancelled"}
    BY <1>3 DEF Answers!Vocabulary, Answers!ProviderStatus, Answers!IbraStatus, Held
  <2> QED
    BY <2>1 DEF Tells, Held, GivenUp
<1>4. CASE a \notin {"alkasr", "toros", "ibra"}
  <2>1. Answers!ProviderStatus(a, word) = word
    BY <1>4 DEF Answers!ProviderStatus
  <2>2. word \in CASE phase = "working" -> {"wait", "pending"}
                   [] phase = "done" -> {"accept", "completed"}
                   [] OTHER -> {"reject", "cancelled"}
    BY <1>4 DEF Answers!Vocabulary, Held
  <2> QED
    BY <2>1, <2>2 DEF Tells, Held, GivenUp
<1> QED
  BY <1>1, <1>2, <1>3, <1>4

\* A status the adapter itself takes for a rejection is one.
LEMMA RejectionsAreMeant ==
    ASSUME NEW phase \in Held, NEW word \in Answers!Vocabulary(adapter, phase),
           ~Answers!Accepted(word)
    PROVE  phase = "dead"
BY DEF Answers!Accepted, Answers!Vocabulary, Answers!AlkasrStatus, Held

\* What an order says of the phase its provider is in.
Fits(phase, d) ==
    /\ DOMAIN d = {"at", "status", "word", "id", "blind"}
    /\ d.at \in {"new", "wait", "lookup"} => d.status = "PENDING"
    /\ d.at = "new" => phase = "none"
    /\ d.at = "lookup" => adapter = "canonical-b2b"
    /\ d.id => adapter # "dealer"
    /\ d.status = "COMPLETED" => phase = "done"
    /\ d.status \in GivenUp /\ ~d.blind => phase \in {"none", "lost", "dead"}

AnswersInv ==
    /\ adapter \in Answers!Adapters
    /\ DOMAIN placed = Orders /\ DOMAIN answered = Orders
    /\ \A o \in Orders : Fits(placed[o], answered[o])

LEMMA AnswersInit == Answers!Init => AnswersInv
BY DEF Answers!Init, AnswersInv, Fits, GivenUp

\* One order is answered.
LEMMA AnswerStep ==
    ASSUME AnswersInv, NEW o \in Orders, NEW d, Fits(placed[o], d),
           answered' = [answered EXCEPT ![o] = d], UNCHANGED <<adapter, placed>>
    PROVE  AnswersInv'
BY DEF AnswersInv, Fits

\* executeOrder on a result.
LEMMA PlacedStep ==
    ASSUME AnswersInv, NEW o \in Orders,
           NEW success \in BOOLEAN, NEW word, NEW id \in BOOLEAN,
           Answers!Placed(o, success, word, id), UNCHANGED <<adapter, placed>>,
           id => adapter # "dealer",
           ~success => placed[o] \in {"none", "lost", "dead"},
           success => \/ Answers!toInternalStatus(word) = "PROCESSING"
                      \/ placed[o] \in Held
                         /\ Tells(placed[o], Answers!toInternalStatus(word))
    PROVE  AnswersInv'
<1> DEFINE result == IF success THEN Answers!toInternalStatus(word) ELSE "FAILED"
<1>1. PICK d : d = [answered[o] EXCEPT !.at = "placed", !.word = word, !.id = id,
                                       !.status = result]
  OBVIOUS
<1>2. answered' = [answered EXCEPT ![o] = d]
  BY <1>1 DEF Answers!Placed
<1>3. /\ DOMAIN d = {"at", "status", "word", "id", "blind"}
      /\ d.at = "placed" /\ d.id = id /\ d.status = result
  BY <1>1 DEF AnswersInv, Fits
<1>4. /\ result = "COMPLETED" => placed[o] = "done"
      /\ result \in GivenUp => placed[o] \in {"none", "lost", "dead"}
  BY DEF Tells, Held, GivenUp
<1>5. Fits(placed[o], d)
  BY <1>3, <1>4 DEF Fits
<1> QED
  BY <1>2, <1>5, AnswerStep

\* An answer that does not tell what the provider did.
LEMMA BlindStep ==
    ASSUME AnswersInv, NEW o \in Orders, Answers!PlacedBlind(o), UNCHANGED <<adapter, placed>>
    PROVE  AnswersInv'
<1>1. PICK d : d = [answered[o] EXCEPT !.at = "placed", !.word = "cancelled",
                                       !.status = "FAILED", !.blind = TRUE]
  OBVIOUS
<1>2. answered' = [answered EXCEPT ![o] = d]
  BY <1>1 DEF Answers!PlacedBlind
<1>3. Fits(placed[o], d)
  BY <1>1 DEF AnswersInv, Fits
<1> QED
  BY <1>2, <1>3, AnswerStep

\* processOrderStatusResult on an order in progress.
LEMMA SettledFits ==
    ASSUME AnswersInv, NEW o \in Orders, placed[o] \in Held, adapter # "dealer",
           answered[o].at = "placed",
           NEW word, Tells(placed[o], Answers!toInternalStatus(word))
    PROVE  Fits(placed[o], Answers!Settled(o, word))
<1>1. PICK result : result = IF ~Answers!isTerminal(word) THEN "PROCESSING"
                             ELSE IF ~Answers!requiresRefund(word) THEN "COMPLETED"
                             ELSE IF Answers!toInternalStatus(word) = "PROCESSING" THEN "FAILED"
                             ELSE Answers!toInternalStatus(word)
  OBVIOUS
<1>2. result = Answers!toInternalStatus(word)
  BY <1>1 DEF Answers!isTerminal, Answers!requiresRefund, Answers!toInternalStatus,
     Answers!CompletedWords, Answers!PartialWords, Answers!CanceledWords, Answers!FailedWords
<1>3. PICK d : d = [answered[o] EXCEPT !.word = word, !.id = TRUE, !.status = result]
  OBVIOUS
<1>4. d = Answers!Settled(o, word)
  BY <1>1, <1>3 DEF Answers!Settled
<1>5. /\ DOMAIN d = {"at", "status", "word", "id", "blind"}
      /\ d.at = "placed" /\ d.status = result
  BY <1>3 DEF AnswersInv, Fits
<1>6. Fits(placed[o], d)
  BY <1>2, <1>5 DEF Fits, Tells, Held, GivenUp
<1> QED
  BY <1>4, <1>6

LEMMA PlacementStep ==
    ASSUME AnswersInv, NEW o \in Orders,
           \/ Answers!Refuse(o) \/ Answers!PlaceOrder(o) \/ Answers!ProviderStep(o)
           \/ Answers!AnswerRejected(o) \/ Answers!AnswerAccepted(o)
           \/ Answers!AnswerWithoutId(o) \/ Answers!AnswerLost(o)
    PROVE  AnswersInv'
<1>1. Fits(placed[o], answered[o]) /\ adapter \in Answers!Adapters
  BY DEF AnswersInv
<1>2. CASE Answers!Refuse(o) \/ Answers!AnswerRejected(o)
  <2>1. placed[o] \in {"none", "lost", "dead"}
    BY <1>1, <1>2 DEF Answers!Refuse, Answers!AnswerRejected, Fits
  <2>2. UNCHANGED <<adapter, placed>> /\ \E word : Answers!Placed(o, FALSE, word, FALSE)
    BY <1>2 DEF Answers!Refuse, Answers!AnswerRejected
  <2> QED
    BY <2>1, <2>2, PlacedStep
<1>3. CASE Answers!PlaceOrder(o)
  <2>1. PICK d : d = [answered[o] EXCEPT !.at = "wait"]
    OBVIOUS
  <2>2. /\ answered' = [answered EXCEPT ![o] = d] /\ placed' = [placed EXCEPT ![o] = "sent"]
        /\ UNCHANGED adapter /\ answered[o].at = "new"
    BY <1>3, <2>1 DEF Answers!PlaceOrder
  <2>3. Fits("sent", d)
    BY <1>1, <2>1, <2>2 DEF Fits, GivenUp
  <2> QED
    BY <2>2, <2>3 DEF AnswersInv, Fits
<1>4. CASE Answers!ProviderStep(o)
  <2>1. /\ placed[o] \in {"sent", "working"} /\ UNCHANGED <<adapter, answered>>
        /\ \E phase : placed' = [placed EXCEPT ![o] = phase]
    BY <1>4 DEF Answers!ProviderStep
  <2>2. PICK phase : placed' = [placed EXCEPT ![o] = phase]
    BY <2>1
  <2>3. Fits(phase, answered[o])
    BY <1>1, <2>1 DEF Fits
  <2> QED
    BY <2>1, <2>2, <2>3 DEF AnswersInv, Fits
<1>5. CASE Answers!AnswerAccepted(o)
  <2>1. PICK word \in Answers!Vocabulary(adapter, placed[o]) :
           Answers!Placed(o, Answers!Accepted(word), Answers!ProviderStatus(adapter, word),
                          Answers!Accepted(word) /\ adapter # "dealer")
    BY <1>5 DEF Answers!AnswerAccepted
  <2>2. placed[o] \in Held /\ UNCHANGED <<adapter, placed>>
    BY <1>5 DEF Answers!AnswerAccepted, Answers!Held, Held
  <2>3. ~Answers!Accepted(word) => placed[o] = "dead"
    BY <2>2, RejectionsAreMeant
  <2>4. Tells(placed[o], Answers!toInternalStatus(Answers!ProviderStatus(adapter, word)))
    <3>1. CASE adapter = "dealer"
      <4>1. placed[o] = "done" /\ Answers!ProviderStatus(adapter, word) = "completed"
        BY <1>5, <3>1 DEF Answers!AnswerAccepted, Answers!ProviderStatus
      <4>2. Answers!toInternalStatus("completed") = "COMPLETED"
        BY DEF Answers!toInternalStatus, Answers!CompletedWords, Answers!PartialWords,
               Answers!CanceledWords, Answers!FailedWords
      <4> QED
        BY <4>1, <4>2 DEF Tells
    <3>2. CASE adapter # "dealer"
      BY <1>1, <2>2, <3>2, WordsAreUnderstood
    <3> QED
      BY <3>1, <3>2
  <2>5. Answers!Accepted(word) \in BOOLEAN
    BY DEF Answers!Accepted
  <2> QED
    BY <2>1, <2>2, <2>3, <2>4, <2>5, PlacedStep
<1>6. CASE Answers!AnswerWithoutId(o)
  BY <1>6, BlindStep DEF Answers!AnswerWithoutId
<1>7. CASE Answers!AnswerLost(o)
  <2>1. UNCHANGED <<adapter, placed>> /\ answered[o].at = "wait"
    BY <1>7 DEF Answers!AnswerLost
  <2>2. CASE adapter # "canonical-b2b"
    BY <1>7, <2>1, <2>2, BlindStep DEF Answers!AnswerLost
  <2>3. CASE adapter = "canonical-b2b"
    <3>1. PICK d : d = [answered[o] EXCEPT !.at = "lookup"]
      OBVIOUS
    <3>2. answered' = [answered EXCEPT ![o] = d]
      BY <1>7, <2>3, <3>1 DEF Answers!AnswerLost, Answers!Uncertain
    <3>3. Fits(placed[o], d)
      BY <1>1, <2>1, <2>3, <3>1 DEF Fits, GivenUp
    <3> QED
      BY <2>1, <3>2, <3>3, AnswerStep
  <2> QED
    BY <2>2, <2>3
<1> QED
  BY <1>2, <1>3, <1>4, <1>5, <1>6, <1>7

LEMMA LookupStep ==
    ASSUME AnswersInv, NEW o \in Orders, Answers!Lookup(o) \/ Answers!Recover(o)
    PROVE  AnswersInv'
<1>1. UNCHANGED <<adapter, placed>> /\ adapter = "canonical-b2b"
  BY DEF AnswersInv, Fits, Answers!Lookup, Answers!Recover
<1>2. ASSUME Answers!Held(o), NEW word \in Answers!Vocabulary(adapter, placed[o])
      PROVE  placed[o] \in Held /\ Tells(placed[o], Answers!toInternalStatus(word))
  <2>1. placed[o] \in Held /\ Answers!ProviderStatus(adapter, word) = word
    BY <1>1, <1>2 DEF Answers!Held, Held, Answers!ProviderStatus
  <2> QED
    BY <1>1, <1>2, <2>1, WordsAreUnderstood DEF AnswersInv
<1>3. CASE Answers!Lookup(o)
  <2>1. CASE Answers!Placed(o, TRUE, "placement_uncertain", FALSE)
    <3>1. Answers!toInternalStatus("placement_uncertain") = "PROCESSING"
      BY DEF Answers!toInternalStatus, Answers!CompletedWords, Answers!PartialWords,
             Answers!CanceledWords, Answers!FailedWords
    <3> QED
      BY <1>1, <2>1, <3>1, PlacedStep
  <2>2. CASE Answers!Held(o) /\ \E word \in Answers!Vocabulary(adapter, placed[o]) :
                                    Answers!Placed(o, TRUE, word, TRUE)
    <3>1. PICK word \in Answers!Vocabulary(adapter, placed[o]) : Answers!Placed(o, TRUE, word, TRUE)
      BY <2>2
    <3>2. placed[o] \in Held /\ Tells(placed[o], Answers!toInternalStatus(word))
      BY <1>2, <2>2
    <3> QED
      BY <1>1, <3>1, <3>2, PlacedStep
  <2> QED
    BY <1>3, <2>1, <2>2 DEF Answers!Lookup
<1>4. CASE Answers!Recover(o)
  <2>1. PICK word \in Answers!Vocabulary(adapter, placed[o]) :
           answered' = [answered EXCEPT ![o] = Answers!Settled(o, word)]
    BY <1>4 DEF Answers!Recover
  <2>2. answered[o].at = "placed" /\ Answers!Held(o)
    BY <1>4 DEF Answers!Recover
  <2>3. Fits(placed[o], Answers!Settled(o, word))
    BY <1>1, <1>2, <2>2, SettledFits
  <2> QED
    BY <1>1, <2>1, <2>3, AnswerStep
<1> QED
  BY <1>3, <1>4

LEMMA CheckOrdersStep ==
    ASSUME AnswersInv, Answers!checkOrders
    PROVE  AnswersInv'
<1>1. PICK listed, said :
         /\ listed \subseteq {o \in Orders : Answers!Due(o) /\ Answers!Held(o)}
         /\ \A o \in listed : said[o] \in Answers!Vocabulary(adapter, placed[o])
         /\ answered' = [o \in Orders |->
               IF o \in listed
               THEN Answers!Settled(o, Answers!ProviderStatus(adapter, said[o]))
               ELSE answered[o]]
  BY DEF Answers!checkOrders
<1>2. UNCHANGED <<adapter, placed>>
  BY DEF Answers!checkOrders
<1>3. ASSUME NEW o \in Orders, o \in listed
      PROVE  Fits(placed[o], Answers!Settled(o, Answers!ProviderStatus(adapter, said[o])))
  <2>1. /\ placed[o] \in Held /\ answered[o].at = "placed" /\ answered[o].id
        /\ said[o] \in Answers!Vocabulary(adapter, placed[o])
    BY <1>1, <1>3 DEF Answers!Due, Answers!Held, Held
  <2>2. adapter \in Answers!Adapters /\ adapter # "dealer"
    BY <2>1 DEF AnswersInv, Fits
  <2> QED
    BY <2>1, <2>2, WordsAreUnderstood, SettledFits
<1>4. \A o \in Orders : Fits(placed[o], answered'[o])
  BY <1>1, <1>3 DEF AnswersInv
<1> QED
  BY <1>1, <1>2, <1>4 DEF AnswersInv, Fits

\* Whichever adapter speaks to the provider, whatever the provider does and says and
\* whichever answers are lost: an order is completed only when it was delivered, and
\* refunded only when the provider holds none for it, except after a blind answer
\* (the adapters' tables, statusMapper, executeOrder, checkOrders).
THEOREM AnswersAreSound == Answers!Spec => []AnswersSound
<1>1. Answers!Init => AnswersInv
  BY AnswersInit
<1>2. AnswersInv /\ [Answers!Next]_Answers!vars => AnswersInv'
  <2>1. ASSUME AnswersInv, UNCHANGED Answers!vars PROVE AnswersInv'
    BY <2>1 DEF Answers!vars, AnswersInv, Fits
  <2> QED
    BY <2>1, PlacementStep, LookupStep, CheckOrdersStep DEF Answers!Next
<1>3. AnswersInv => AnswersSound
  BY DEF AnswersInv, Fits, GivenUp, AnswersSound, Answers!AnswersSound
<1> QED
  BY <1>1, <1>2, <1>3, PTL DEF Answers!Spec

-----------------------------------------------------------------------------
(* OrderPolling: the orders of a task are counted or in its worker's hands. *)

LEMMA PollCardinality == \A S : Poll!Cardinality(S) = Cardinality(S)
BY DEF Poll!Cardinality, Cardinality

\* The tasks of a poll are the loaded orders by provider, no provider twice.
TasksAreGroups ==
    /\ groups = [i \in 1..Len(groups) |-> groups[i]] /\ Len(groups) \in Nat
    /\ \A i \in 1..Len(groups) :
          /\ groups[i].orders \subseteq PolledOrders
          /\ \A o \in groups[i].orders : ProviderOf[o] = groups[i].provider
    /\ \A i, j \in 1..Len(groups) :
          i # j => groups[i].orders \cap groups[j].orders = {}

WorkerIsAt(w) ==
    /\ DOMAIN worker[w] = {"group", "orders", "left", "batch"}
    /\ worker[w].group = None => worker[w].left = {} /\ worker[w].batch = {}
    /\ worker[w].group # None =>
          /\ worker[w].group \in 1..(index - 1) /\ worker[w].group \in 1..Len(groups)
          /\ worker[w].left \cup worker[w].batch \subseteq groups[worker[w].group].orders
          /\ worker[w].left \cap worker[w].batch = {}
          /\ Poll!Unusable(Poll!Provider(w)) => worker[w].batch = {}

WorkersAreApart ==
    \A v, w \in Calls : v # w /\ worker[v].group # None => worker[v].group # worker[w].group

\* The orders of this poll nothing was decided about yet.
InHand(w) == worker[w].left \cup worker[w].batch
Ahead == {o \in PolledOrders : \E i \in index..Len(groups) : o \in groups[i].orders}
Outstanding == Ahead \cup UNION {InHand(w) : w \in Calls}

HandedOnce ==
    /\ DOMAIN handed = PolledOrders
    /\ \A o \in PolledOrders :
          \/ handed[o] = [times |-> 0, answers |-> {}]
          \/ o \notin Outstanding /\ handed[o] = [times |-> 1,
                             answers |-> {report[ProviderOf[o]][IdOf[o]]}]

Results == [done : Nat, pending : Nat, moved : Nat]

\* What a task has counted and what its worker has in hand are its whole group;
\* a task whose result is final has counted it all.
TasksAreCounted ==
    /\ counts \in [1..Len(groups) -> Results]
    /\ \A i \in index..Len(groups) : Poll!Total(counts[i]) = 0
    /\ \A w \in Calls : worker[w].group # None =>
          Poll!Total(counts[worker[w].group]) + Cardinality(InHand(w))
             = Cardinality(groups[worker[w].group].orders)
    /\ \A s \in settled :
          /\ \A w \in Calls : worker[w].group # s.group
          /\ s.ok => Poll!Total(counts[s.group]) = Cardinality(groups[s.group].orders)

Active == {worker[w].group : w \in Calls} \ {None}
TasksAreSettled == {s.group : s \in settled} \cup Active = 1..(index - 1)

PollInv ==
    /\ DOMAIN worker = Calls
    /\ running \in BOOLEAN /\ (~running => \A w \in Calls : worker[w].group = None)
    /\ index \in 1..(Len(groups) + 1)
    /\ TasksAreGroups
    /\ \A w \in Calls : WorkerIsAt(w)
    /\ WorkersAreApart /\ HandedOnce /\ TasksAreCounted /\ TasksAreSettled

\* What a poll needs of its numbers: tasks have numbers, nothing else has none.
FinitePoll == IsFiniteSet(PolledOrders) /\ None \notin Int

LEMMA PollInvIsSound == FinitePoll /\ PollInv => PollSound
<1> SUFFICES ASSUME FinitePoll, PollInv PROVE PollSound
  OBVIOUS
<1>1. ASSUME NEW o \in PolledOrders
      PROVE  /\ handed[o].times <= 1
             /\ handed[o].times = 1 => handed[o].answers = {report[ProviderOf[o]][IdOf[o]]}
  BY DEF PollInv, HandedOnce
<1>2. \A s \in settled :
         s.ok => Poll!Total(counts[s.group]) = Poll!Cardinality(groups[s.group].orders)
  BY PollCardinality DEF PollInv, TasksAreCounted
<1>3. ASSUME Poll!Drained PROVE {s.group : s \in settled} = DOMAIN groups
  <2>1. index = Len(groups) + 1 /\ \A w \in Calls : worker[w].group = None
    BY <1>3 DEF Poll!Drained, PollInv, TasksAreGroups
  <2>2. Active = {} /\ 1..(index - 1) = 1..Len(groups) /\ DOMAIN groups = 1..Len(groups)
    BY <2>1 DEF Active, PollInv, TasksAreGroups
  <2> QED
    BY <2>2 DEF PollInv, TasksAreSettled
<1> QED
  BY <1>1, <1>2, <1>3 DEF PollInv, WorkersAreApart, PollSound, Poll!PollSound

LEMMA PollInit == FinitePoll /\ Poll!Init => PollInv
<1> SUFFICES ASSUME FinitePoll, Poll!Init PROVE PollInv
  OBVIOUS
<1>1. /\ groups = <<>> /\ Len(groups) = 0 /\ index = 1 /\ settled = {} /\ running = FALSE
      /\ worker = [w \in Calls |-> [group |-> None, orders |-> {}, left |-> {}, batch |-> {}]]
      /\ handed = [o \in PolledOrders |-> [times |-> 0, answers |-> {}]]
      /\ counts = <<>>
  BY DEF Poll!Init, Poll!Idle, Poll!Nothing
<1>2. TasksAreGroups
  BY <1>1 DEF TasksAreGroups
<1>3. \A w \in Calls : WorkerIsAt(w) /\ InHand(w) = {}
  BY <1>1 DEF WorkerIsAt, InHand
<1>5. TasksAreCounted
  <2>1. 1..Len(groups) = {} /\ index..Len(groups) = {}
    BY <1>1
  <2>2. counts \in [{} -> Results]
    BY <1>1
  <2> QED
    BY <1>1, <2>1, <2>2 DEF TasksAreCounted
<1>6. TasksAreSettled
  BY <1>1 DEF TasksAreSettled, Active
<1>7. HandedOnce
  BY <1>1 DEF HandedOnce
<1>8. WorkersAreApart /\ DOMAIN worker = Calls /\ \A w \in Calls : worker[w].group = None
  BY <1>1 DEF WorkersAreApart
<1>9. index \in 1..(Len(groups) + 1) /\ running \in BOOLEAN
  <2>1. index = 1 /\ Len(groups) = 0
    BY <1>1
  <2>2. running \in BOOLEAN
    BY <1>1
  <2> QED
    BY <2>1, <2>2
<1> QED
  BY <1>2, <1>3, <1>5, <1>6, <1>7, <1>8, <1>9 DEF PollInv

\* The groups a poll begins with.
LEMMA GroupsOfAreGroups ==
    ASSUME FinitePoll, NEW orders \in SUBSET PolledOrders,
           NEW g \in Poll!GroupsOf(orders)
    PROVE  /\ g = [i \in 1..Len(g) |-> g[i]] /\ Len(g) \in Nat
           /\ \A i \in 1..Len(g) :
                 /\ g[i].orders \subseteq PolledOrders
                 /\ \A o \in g[i].orders : ProviderOf[o] = g[i].provider
           /\ \A i, j \in 1..Len(g) : i # j => g[i].orders \cap g[j].orders = {}
<1> DEFINE keys == {ProviderOf[o] : o \in orders}
<1> DEFINE n == Cardinality(keys)
<1>1. IsFiniteSet(orders)
  BY FS_Subset DEF FinitePoll
<1>2. IsFiniteSet(keys) /\ n \in Nat
  <2>1. IsFiniteSet(keys)
    <3>1. [o \in orders |-> ProviderOf[o]] \in Surjection(orders, keys)
      BY DEF Surjection
    <3> QED
      BY <1>1, <3>1, FS_Surjection
  <2> QED
    BY <2>1, FS_CardinalityType
<1> HIDE DEF n
<1>3. PICK key \in [1..n -> keys] :
        /\ \A x \in keys : \E i \in DOMAIN key : key[i] = x
        /\ g = [i \in 1..n |-> [provider |-> key[i],
                                orders |-> {o \in orders : ProviderOf[o] = key[i]}]]
  BY PollCardinality DEF Poll!GroupsOf, n
<1>4. key \in Injection(1..n, keys)
  <2>1. key \in Surjection(1..n, keys)
    BY <1>3 DEF Surjection
  <2>2. IsFiniteSet(1..n) /\ Cardinality(1..n) = n
    BY <1>2, FS_Interval
  <2> QED
    BY <2>1, <2>2, FS_SurjSameCardinalityImpliesInj DEF n
<1>5. Len(g) = n
  BY <1>2, <1>3
<1>6. \A i, j \in 1..n : i # j => key[i] # key[j]
  BY <1>4 DEF Injection, IsInjective
<1>7. \A i \in 1..n : /\ g[i].provider = key[i]
                      /\ g[i].orders = {o \in orders : ProviderOf[o] = key[i]}
  BY <1>3
<1>8. \A i \in 1..n : /\ g[i].orders \subseteq PolledOrders
                      /\ \A o \in g[i].orders : ProviderOf[o] = g[i].provider
  BY <1>7
<1>9. \A i, j \in 1..n : i # j => g[i].orders \cap g[j].orders = {}
  BY <1>6, <1>7
<1>10. g = [i \in 1..n |-> g[i]]
  BY <1>3
<1> QED
  BY <1>2, <1>5, <1>8, <1>9, <1>10

LEMMA TickStep == ASSUME FinitePoll, PollInv, Poll!Tick PROVE PollInv'
<1>1. /\ groups' \in Poll!GroupsOf({o \in PolledOrders : status[o] = "PROCESSING"})
      /\ ~running /\ running' = TRUE /\ index' = 1 /\ settled' = {}
      /\ counts' = [i \in DOMAIN groups' |-> [done |-> 0, pending |-> 0, moved |-> 0]]
      /\ handed' = [o \in PolledOrders |-> [times |-> 0, answers |-> {}]]
      /\ UNCHANGED <<worker, report, usable>>
  BY DEF Poll!Tick, Poll!NoCounts, Poll!Nothing
<1>2. TasksAreGroups'
  BY <1>1, GroupsOfAreGroups DEF TasksAreGroups
<1>3. \A w \in Calls : /\ worker'[w].group = None /\ WorkerIsAt(w)'
                       /\ worker'[w].left = {} /\ worker'[w].batch = {}
  BY <1>1 DEF PollInv, WorkerIsAt
<1>5. TasksAreCounted'
  <2>1. DOMAIN groups' = 1..Len(groups')
    BY <1>2 DEF TasksAreGroups
  <2>2. [done |-> 0, pending |-> 0, moved |-> 0] \in Results
    BY DEF Results
  <2>3. counts' \in [1..Len(groups') -> Results]
    BY <1>1, <2>1, <2>2
  <2>4. \A i \in 1..Len(groups') : Poll!Total(counts'[i]) = 0
    BY <1>1, <2>1 DEF Poll!Total
  <2> QED
    BY <1>1, <1>3, <2>3, <2>4 DEF TasksAreCounted
<1>6. TasksAreSettled'
  <2>1. Active' = {}
    BY <1>3 DEF Active
  <2> QED
    BY <1>1, <2>1 DEF TasksAreSettled
<1>7. HandedOnce'
  BY <1>1 DEF HandedOnce
<1>8. index' \in 1..(Len(groups') + 1) /\ running' \in BOOLEAN
  BY <1>1, <1>2 DEF TasksAreGroups
<1>9. WorkersAreApart' /\ DOMAIN worker' = Calls
  BY <1>1, <1>3 DEF WorkersAreApart, PollInv
<1> QED
  BY <1>1, <1>2, <1>3, <1>5, <1>6, <1>7, <1>8, <1>9 DEF PollInv

LEMMA TakeStep ==
    ASSUME FinitePoll, PollInv, NEW w \in Calls, Poll!Take(w)
    PROVE  PollInv'
<1>1. PICK next : next = [group |-> index, orders |-> groups[index].orders,
                          left |-> groups[index].orders, batch |-> {}]
  OBVIOUS
<1>2. /\ running /\ worker[w].group = None /\ index <= Len(groups) /\ index' = index + 1
      /\ worker' = [worker EXCEPT ![w] = next]
      /\ UNCHANGED <<usable, report, running, groups, settled, counts, handed>>
  BY <1>1 DEF Poll!Take, Poll!Taken
<1>3. /\ index \in 1..Len(groups) /\ Len(groups) \in Nat /\ DOMAIN worker = Calls
      /\ index' \in 1..(Len(groups') + 1) /\ index' - 1 = index
  BY <1>2 DEF PollInv, TasksAreGroups
<1>4. \A v \in Calls : WorkerIsAt(v)'
  <2>1. WorkerIsAt(w)'
    BY <1>1, <1>2, <1>3 DEF WorkerIsAt, FinitePoll
  <2>2. ASSUME NEW v \in Calls, v # w PROVE WorkerIsAt(v)'
    <3>1. worker'[v] = worker[v] /\ Poll!Unusable(Poll!Provider(v))' = Poll!Unusable(Poll!Provider(v))
      BY <1>2, <1>3, <2>2 DEF Poll!Unusable, Poll!Provider
    <3> QED
      BY <1>2, <1>3, <3>1 DEF PollInv, WorkerIsAt
  <2> QED
    BY <2>1, <2>2
<1>5. Outstanding' = Outstanding
  <2>1. InHand(w) = {} /\ InHand(w)' = groups[index].orders
    BY <1>1, <1>2, <1>3 DEF PollInv, WorkerIsAt, InHand
  <2>2. \A v \in Calls : v # w => InHand(v)' = InHand(v)
    BY <1>2, <1>3 DEF InHand
  <2>3. Ahead = Ahead' \cup groups[index].orders
    <3>1. index..Len(groups) = {index} \cup (index + 1)..Len(groups)
      BY <1>3
    <3>2. groups[index].orders \subseteq PolledOrders
      BY <1>3 DEF PollInv, TasksAreGroups
    <3> QED
      BY <1>2, <3>1, <3>2 DEF Ahead
  <2> QED
    BY <2>1, <2>2, <2>3 DEF Outstanding
<1>6. HandedOnce' /\ TasksAreGroups'
  BY <1>2, <1>5 DEF PollInv, HandedOnce, TasksAreGroups
<1>7. TasksAreCounted'
  <2>1. \A v \in Calls : /\ worker'[v].group = IF v = w THEN index ELSE worker[v].group
                         /\ v # w => InHand(v)' = InHand(v)
    <3>1. \A v \in Calls : worker'[v] = IF v = w THEN next ELSE worker[v]
      BY <1>2, <1>3
    <3>2. next.group = index
      BY <1>1
    <3>3. \A v \in Calls : v # w => InHand(v)' = InHand(v)
      BY <3>1 DEF InHand
    <3> QED
      BY <3>1, <3>2, <3>3
  <2>2. InHand(w)' = groups[index].orders /\ Poll!Total(counts[index]) = 0
    BY <1>1, <1>2, <1>3 DEF InHand, PollInv, TasksAreCounted
  <2>3. Cardinality(groups[index].orders) \in Nat
    <3>1. groups[index].orders \in SUBSET PolledOrders
      BY <1>3 DEF PollInv, TasksAreGroups
    <3> QED
      BY <3>1, FS_Subset, FS_CardinalityType DEF FinitePoll
  <2>4. \A s \in settled : s.group # index
    <3>1. index \notin 1..(index - 1)
      BY <1>3
    <3> QED
      BY <3>1 DEF PollInv, TasksAreSettled
  <2>5. ASSUME NEW v \in Calls, worker'[v].group # None
        PROVE  Poll!Total(counts'[worker'[v].group]) + Cardinality(InHand(v))'
                  = Cardinality(groups'[worker'[v].group].orders)
    <3>1. CASE v = w
      BY <1>2, <2>1, <2>2, <2>3, <3>1
    <3>2. CASE v # w
      BY <1>2, <2>1, <2>5, <3>2 DEF PollInv, TasksAreCounted
    <3> QED
      BY <3>1, <3>2
  <2>6. \A i \in index'..Len(groups') : Poll!Total(counts'[i]) = 0
    BY <1>2, <1>3 DEF PollInv, TasksAreCounted
  <2>7. \A s \in settled' :
          /\ \A v \in Calls : worker'[v].group # s.group
          /\ s.ok => Poll!Total(counts'[s.group]) = Cardinality(groups'[s.group].orders)
    BY <1>2, <2>1, <2>4 DEF PollInv, TasksAreCounted
  <2>8. counts' \in [1..Len(groups') -> Results]
    BY <1>2 DEF PollInv, TasksAreCounted
  <2> QED
    BY <2>5, <2>6, <2>7, <2>8 DEF TasksAreCounted
<1>8. WorkersAreApart'
  <2>1. \A v \in Calls : worker[v].group # None => worker[v].group # index
    BY <1>3 DEF PollInv, WorkerIsAt
  <2>2. index # None
    BY <1>3 DEF FinitePoll
  <2>3. \A v \in Calls : worker'[v].group = IF v = w THEN index ELSE worker[v].group
    BY <1>1, <1>2, <1>3
  <2> QED
    BY <1>2, <2>1, <2>2, <2>3 DEF PollInv, WorkersAreApart
<1>9. TasksAreSettled'
  <2>1. Active' = Active \cup {index}
    <3>1. \A v \in Calls : worker'[v].group = IF v = w THEN index ELSE worker[v].group
      BY <1>1, <1>2, <1>3
    <3>2. index # None
      BY <1>3 DEF FinitePoll
    <3> QED
      BY <1>2, <3>1, <3>2 DEF Active
  <2>2. 1..(index' - 1) = 1..(index - 1) \cup {index}
    <3>1. 1..index = 1..(index - 1) \cup {index}
      BY <1>3
    <3> QED
      BY <1>3, <3>1
  <2> QED
    BY <1>2, <2>1, <2>2 DEF PollInv, TasksAreSettled
<1> QED
  BY <1>2, <1>3, <1>4, <1>6, <1>7, <1>8, <1>9 DEF PollInv

\* A worker leaves some of the orders in its hands.
LEMMA HandsStep ==
    ASSUME PollInv, NEW w \in Calls, NEW next,
           worker' = [worker EXCEPT ![w] = next], UNCHANGED <<groups, index, usable>>,
           worker[w].group # None,
           DOMAIN next = {"group", "orders", "left", "batch"},
           next.left \cup next.batch \subseteq InHand(w), next.left \cap next.batch = {},
           Poll!Unusable(Poll!Provider(w)) => next.batch = {},
           \/ next.group = worker[w].group
           \/ next.group = None /\ next.left = {} /\ next.batch = {}
    PROVE  /\ (\A v \in Calls : WorkerIsAt(v))' /\ WorkersAreApart' /\ TasksAreGroups'
           /\ DOMAIN worker' = Calls
           /\ InHand(w) \subseteq Outstanding
           /\ Outstanding' = Outstanding \ (InHand(w) \ (next.left \cup next.batch))
<1>1. /\ TasksAreGroups' /\ DOMAIN worker' = Calls /\ worker'[w] = next
      /\ \A v \in Calls : v # w => worker'[v] = worker[v]
  BY DEF PollInv, TasksAreGroups
<1>2. ASSUME NEW v \in Calls PROVE WorkerIsAt(v)'
  <2>1. WorkerIsAt(v)
    BY DEF PollInv
  <2>2. CASE v = w
    BY <1>1, <2>1, <2>2 DEF WorkerIsAt, InHand, Poll!Unusable, Poll!Provider
  <2>3. CASE v # w
    BY <1>1, <2>1, <2>3 DEF WorkerIsAt, Poll!Unusable, Poll!Provider
  <2> QED
    BY <2>2, <2>3
<1>3. WorkersAreApart'
  BY <1>1 DEF PollInv, WorkersAreApart
<1>4. /\ worker[w].group \in 1..(index - 1) /\ worker[w].group \in 1..Len(groups)
      /\ InHand(w) \subseteq groups[worker[w].group].orders
  BY DEF PollInv, WorkerIsAt, InHand
<1>5. InHand(w) \subseteq Outstanding
  BY DEF Outstanding
<1>6. ASSUME NEW v \in Calls, v # w PROVE InHand(v)' = InHand(v) /\ InHand(v) \cap InHand(w) = {}
  <2>1. InHand(v)' = InHand(v)
    BY <1>1, <1>6 DEF InHand
  <2>2. CASE worker[v].group = None
    BY <2>2 DEF PollInv, WorkerIsAt, InHand
  <2>3. CASE worker[v].group # None
    <3>1. /\ worker[v].group \in 1..Len(groups) /\ worker[v].group # worker[w].group
          /\ InHand(v) \subseteq groups[worker[v].group].orders
      BY <1>6, <2>3 DEF PollInv, WorkerIsAt, WorkersAreApart, InHand
    <3>2. \A j, l \in 1..Len(groups) : j # l => groups[j].orders \cap groups[l].orders = {}
      BY DEF PollInv, TasksAreGroups
    <3>3. groups[worker[v].group].orders \cap groups[worker[w].group].orders = {}
      BY <1>4, <3>1, <3>2
    <3> QED
      BY <1>4, <2>1, <3>1, <3>3
  <2> QED
    BY <2>1, <2>2, <2>3
<1>7. Ahead' = Ahead /\ Ahead \cap InHand(w) = {}
  <2>1. Ahead' = Ahead
    BY DEF Ahead
  <2>2. ASSUME NEW i \in index..Len(groups)
        PROVE  groups[i].orders \cap groups[worker[w].group].orders = {}
    <3>1. i \in 1..Len(groups) /\ i # worker[w].group
      BY <1>4 DEF PollInv, TasksAreGroups
    <3>2. \A j, l \in 1..Len(groups) : j # l => groups[j].orders \cap groups[l].orders = {}
      BY DEF PollInv, TasksAreGroups
    <3> QED
      BY <1>4, <3>1, <3>2
  <2> QED
    BY <1>4, <2>1, <2>2 DEF Ahead
<1>8. InHand(w)' = next.left \cup next.batch
  BY <1>1 DEF InHand
<1>9. Outstanding' = Outstanding \ (InHand(w) \ (next.left \cup next.batch))
  BY <1>6, <1>7, <1>8 DEF Outstanding
<1> QED
  BY <1>1, <1>2, <1>3, <1>5, <1>9

\* What leaves the hands of a worker is counted, in its own task's result.
LEMMA CountedStep ==
    ASSUME PollInv, NEW w \in Calls, worker[w].group # None,
           NEW next, worker' = [worker EXCEPT ![w] = next],
           NEW c \in Results, counts' = [counts EXCEPT ![worker[w].group] = c],
           UNCHANGED <<groups, index>>,
           \/ /\ next.group = worker[w].group /\ settled' = settled
              /\ Poll!Total(c) + Cardinality(next.left \cup next.batch)
                    = Cardinality(groups[worker[w].group].orders)
           \/ /\ next.group = None
              /\ \E s : /\ settled' = settled \cup {s} /\ s.group = worker[w].group
                        /\ s.ok => Poll!Total(c) = Cardinality(groups[worker[w].group].orders)
    PROVE  TasksAreCounted'
<1>1. /\ worker'[w] = next /\ InHand(w)' = next.left \cup next.batch
      /\ \A v \in Calls : v # w => worker'[v] = worker[v] /\ InHand(v)' = InHand(v)
  BY DEF PollInv, InHand
<1>2. /\ worker[w].group \in 1..Len(groups) /\ worker[w].group \notin index..Len(groups)
      /\ index \in 1..(Len(groups) + 1) /\ Len(groups) \in Nat
  BY DEF PollInv, WorkerIsAt, TasksAreGroups
<1>3. /\ counts' \in [1..Len(groups') -> Results]
      /\ \A i \in 1..Len(groups) : counts'[i] = IF i = worker[w].group THEN c ELSE counts[i]
  BY <1>2 DEF PollInv, TasksAreCounted
<1>4. \A i \in index'..Len(groups') : Poll!Total(counts'[i]) = 0
  <2> SUFFICES ASSUME NEW i \in index..Len(groups) PROVE Poll!Total(counts'[i]) = 0
    OBVIOUS
  <2>1. i \in 1..Len(groups) /\ i # worker[w].group
    BY <1>2
  <2> QED
    BY <1>3, <2>1 DEF PollInv, TasksAreCounted
<1>5. ASSUME NEW v \in Calls, v # w, worker[v].group # None
      PROVE  worker[v].group \in 1..Len(groups) /\ worker[v].group # worker[w].group
  BY <1>5 DEF PollInv, WorkerIsAt, WorkersAreApart
<1>6. ASSUME NEW v \in Calls, worker'[v].group # None
      PROVE  Poll!Total(counts'[worker'[v].group]) + Cardinality(InHand(v))'
                = Cardinality(groups'[worker'[v].group].orders)
  <2>1. CASE v = w
    BY <1>1, <1>2, <1>3, <1>6, <2>1
  <2>2. CASE v # w
    <3>1. counts'[worker[v].group] = counts[worker[v].group]
      BY <1>1, <1>3, <1>5, <1>6, <2>2
    <3> QED
      BY <1>1, <1>6, <2>2, <3>1 DEF PollInv, TasksAreCounted
  <2> QED
    BY <2>1, <2>2
<1>7. ASSUME NEW s \in settled
      PROVE  /\ \A v \in Calls : worker[v].group # s.group
             /\ s.ok => Poll!Total(counts'[s.group]) = Cardinality(groups[s.group].orders)
  <2>1. s.group \in 1..Len(groups)
    <3>1. s.group \in 1..(index - 1)
      BY DEF PollInv, TasksAreSettled
    <3> QED
      BY <1>2, <3>1
  <2>2. s.group # worker[w].group
    BY DEF PollInv, TasksAreCounted
  <2> QED
    BY <1>3, <2>1, <2>2 DEF PollInv, TasksAreCounted
<1>8. CASE next.group = worker[w].group /\ settled' = settled
  <2>1. \A v \in Calls : worker'[v].group = worker[v].group
    BY <1>1, <1>8
  <2> QED
    BY <1>3, <1>4, <1>6, <1>7, <1>8, <2>1 DEF TasksAreCounted
<1>9. CASE next.group = None
  <2> PICK s : /\ settled' = settled \cup {s} /\ s.group = worker[w].group
               /\ s.ok => Poll!Total(c) = Cardinality(groups[worker[w].group].orders)
    BY <1>9
  <2>1. \A v \in Calls : worker'[v].group # s.group
    BY <1>1, <1>5, <1>9
  <2>2. \A v \in Calls : worker'[v].group = worker[v].group \/ worker'[v].group = None
    BY <1>1, <1>9
  <2>3. s.ok => Poll!Total(counts'[s.group]) = Cardinality(groups[s.group].orders)
    BY <1>2, <1>3
  <2>4. \A t \in settled : t.group # None
    <3>1. \A t \in settled : t.group \in 1..(index - 1)
      BY DEF PollInv, TasksAreSettled
    <3> QED
      BY <1>2, <3>1, ProvidersAssumption
  <2> QED
    BY <1>3, <1>4, <1>6, <1>7, <2>1, <2>2, <2>3, <2>4 DEF TasksAreCounted
<1> QED
  BY <1>8, <1>9

\* What a worker has in hand is finite.
LEMMA HandsAreFinite ==
    ASSUME FinitePoll, PollInv, NEW w \in Calls, worker[w].group # None
    PROVE  /\ IsFiniteSet(InHand(w)) /\ Cardinality(InHand(w)) \in Nat
           /\ counts[worker[w].group] \in Results
           /\ Poll!Total(counts[worker[w].group]) + Cardinality(InHand(w))
                 = Cardinality(groups[worker[w].group].orders)
<1>1. worker[w].group \in 1..Len(groups) /\ InHand(w) \subseteq groups[worker[w].group].orders
  BY DEF PollInv, WorkerIsAt, InHand
<1>2. InHand(w) \in SUBSET PolledOrders
  BY <1>1 DEF PollInv, TasksAreGroups
<1> QED
  BY <1>1, <1>2, FS_Subset, FS_CardinalityType DEF FinitePoll, PollInv, TasksAreCounted

LEMMA MoveStep ==
    ASSUME FinitePoll, PollInv, NEW w \in Calls, Poll!MoveToManualReview(w)
    PROVE  PollInv'
<1>1. PICK moved \in SUBSET worker[w].left, failed \in BOOLEAN :
         /\ settled' = settled \cup {[group |-> worker[w].group, ok |-> ~failed]}
         /\ counts' = IF failed THEN counts
                      ELSE [counts EXCEPT
                              ![worker[w].group].moved = @ + Cardinality(moved),
                              ![worker[w].group].pending = @ + Cardinality(worker[w].left \ moved)]
  BY PollCardinality DEF Poll!MoveToManualReview
<1>2. PICK next, s : /\ next = [group |-> None, orders |-> {}, left |-> {}, batch |-> {}]
                     /\ s = [group |-> worker[w].group, ok |-> ~failed]
  OBVIOUS
<1>3. /\ worker[w].group # None /\ Poll!Unusable(Poll!Provider(w))
      /\ worker' = [worker EXCEPT ![w] = next]
      /\ UNCHANGED <<usable, report, running, groups, index, handed>>
  BY <1>2 DEF Poll!MoveToManualReview, Poll!Idle
<1>4. /\ DOMAIN next = {"group", "orders", "left", "batch"} /\ next.group = None
      /\ next.left = {} /\ next.batch = {}
  BY <1>2
<1>5. /\ (\A v \in Calls : WorkerIsAt(v))' /\ WorkersAreApart' /\ TasksAreGroups'
      /\ DOMAIN worker' = Calls /\ InHand(w) \subseteq Outstanding
      /\ Outstanding' = Outstanding \ InHand(w)
  BY <1>3, <1>4, HandsStep
<1>6. InHand(w) = worker[w].left
  BY <1>3 DEF PollInv, WorkerIsAt, InHand
<1>7. HandedOnce'
  BY <1>3, <1>5 DEF PollInv, HandedOnce
<1>8. TasksAreCounted'
  <2> PICK g : g = worker[w].group
    OBVIOUS
  <2>1. /\ IsFiniteSet(worker[w].left) /\ counts[g] \in Results
        /\ Poll!Total(counts[g]) + Cardinality(worker[w].left) = Cardinality(groups[g].orders)
    BY <1>3, <1>6, HandsAreFinite
  <2>2. /\ Cardinality(moved) \in Nat /\ Cardinality(worker[w].left \ moved) \in Nat
        /\ Cardinality(moved) + Cardinality(worker[w].left \ moved) = Cardinality(worker[w].left)
    <3>1. IsFiniteSet(moved) /\ IsFiniteSet(worker[w].left \ moved)
      BY <2>1, FS_Subset, FS_Difference
    <3>2. worker[w].left \cap moved = moved
      OBVIOUS
    <3>3. Cardinality(worker[w].left \ moved) = Cardinality(worker[w].left) - Cardinality(moved)
      <4>1. IsFiniteSet(worker[w].left)
        BY <2>1
      <4> QED
        BY <3>2, <4>1, FS_Difference
    <3>4. /\ Cardinality(worker[w].left) \in Nat /\ Cardinality(moved) \in Nat
          /\ Cardinality(worker[w].left \ moved) \in Nat
      BY <2>1, <3>1, FS_CardinalityType
    <3> QED
      BY <3>3, <3>4
  <2>3. DOMAIN counts = 1..Len(groups) /\ g \in 1..Len(groups)
    BY <1>3 DEF PollInv, WorkerIsAt, TasksAreCounted
  <2> PICK c : c = IF failed THEN counts[g]
                   ELSE [counts[g] EXCEPT !.moved = @ + Cardinality(moved),
                                          !.pending = @ + Cardinality(worker[w].left \ moved)]
    OBVIOUS
  <2>4. c \in Results /\ (~failed => Poll!Total(c) = Cardinality(groups[g].orders))
    <3>1. CASE failed
      BY <2>1, <3>1
    <3>2. CASE ~failed
      <4>1. /\ c.done = counts[g].done /\ c.moved = counts[g].moved + Cardinality(moved)
            /\ c.pending = counts[g].pending + Cardinality(worker[w].left \ moved)
            /\ counts[g].done \in Nat /\ counts[g].moved \in Nat /\ counts[g].pending \in Nat
        BY <2>1, <3>2 DEF Results
      <4>2. c \in Results
        <5>1. DOMAIN c = {"done", "pending", "moved"} /\ c = [x \in DOMAIN c |-> c[x]]
          BY <2>1, <3>2 DEF Results
        <5>2. c.done \in Nat /\ c.moved \in Nat /\ c.pending \in Nat
          BY <2>2, <4>1
        <5> QED
          BY <5>1, <5>2 DEF Results
      <4>3. Poll!Total(c) = Poll!Total(counts[g]) + Cardinality(worker[w].left)
        BY <2>2, <4>1 DEF Poll!Total
      <4> QED
        BY <2>1, <4>2, <4>3
    <3> QED
      BY <3>1, <3>2
  <2>5. counts' = [counts EXCEPT ![worker[w].group] = c]
    <3>1. CASE failed
      BY <1>1, <2>3, <3>1 DEF PollInv, TasksAreCounted
    <3>2. CASE ~failed
      BY <1>1, <2>3, <3>2
    <3> QED
      BY <3>1, <3>2
  <2>6. settled' = settled \cup {s} /\ s.group = worker[w].group /\ (s.ok => ~failed)
    BY <1>1, <1>2
  <2> QED
    BY <1>3, <1>4, <2>4, <2>5, <2>6, CountedStep
<1>9. TasksAreSettled'
  <2>1. Active' = Active \ {worker[w].group}
    BY <1>3, <1>4 DEF Active, PollInv, WorkersAreApart
  <2>2. {t.group : t \in settled'} = {t.group : t \in settled} \cup {worker[w].group}
    <3>1. settled' = settled \cup {s} /\ s.group = worker[w].group
      BY <1>1, <1>2
    <3> QED
      BY <3>1
  <2>3. worker[w].group \in Active
    BY <1>3 DEF Active
  <2> QED
    BY <1>3, <2>1, <2>2, <2>3 DEF PollInv, TasksAreSettled
<1>10. ~running => \A v \in Calls : worker'[v].group = None
  BY <1>3, <1>4 DEF PollInv
<1> QED
  BY <1>3, <1>5, <1>7, <1>8, <1>9, <1>10 DEF PollInv

LEMMA CheckStep ==
    ASSUME FinitePoll, PollInv, NEW w \in Calls, Poll!CheckOrders(w)
    PROVE  PollInv'
<1>1. PICK batch \in SUBSET worker[w].left, lost \in BOOLEAN :
         /\ worker' = IF lost THEN [worker EXCEPT ![w].left = @ \ batch]
                      ELSE [worker EXCEPT ![w].left = @ \ batch, ![w].batch = batch]
         /\ counts' = IF lost
                      THEN [counts EXCEPT ![worker[w].group].pending = @ + Cardinality(batch)]
                      ELSE counts
  BY PollCardinality DEF Poll!CheckOrders
<1>2. PICK next : next = [worker[w] EXCEPT !.left = @ \ batch,
                                           !.batch = IF lost THEN @ ELSE batch]
  OBVIOUS
<1>3. /\ worker[w].group # None /\ ~Poll!Unusable(Poll!Provider(w)) /\ worker[w].batch = {}
      /\ UNCHANGED <<usable, report, running, groups, index, settled, handed>>
  BY DEF Poll!CheckOrders
<1>4. WorkerIsAt(w) /\ DOMAIN worker = Calls
  BY DEF PollInv
<1>5. /\ DOMAIN next = {"group", "orders", "left", "batch"} /\ next.group = worker[w].group
      /\ next.left = worker[w].left \ batch /\ next.batch = IF lost THEN {} ELSE batch
  BY <1>2, <1>3, <1>4 DEF WorkerIsAt
<1>6. worker' = [worker EXCEPT ![w] = next]
  BY <1>1, <1>2, <1>3, <1>4 DEF WorkerIsAt
<1>7. /\ (\A v \in Calls : WorkerIsAt(v))' /\ WorkersAreApart' /\ TasksAreGroups'
      /\ DOMAIN worker' = Calls /\ InHand(w) \subseteq Outstanding
      /\ Outstanding' = Outstanding \ (InHand(w) \ (next.left \cup next.batch))
  <2>1. next.left \cup next.batch \subseteq InHand(w) /\ next.left \cap next.batch = {}
    BY <1>5 DEF InHand
  <2> QED
    BY <1>3, <1>5, <1>6, <2>1, HandsStep
<1>8. InHand(w) \ (next.left \cup next.batch) = IF lost THEN batch ELSE {}
  BY <1>3, <1>5 DEF InHand
<1>9. HandedOnce'
  BY <1>3, <1>7 DEF PollInv, HandedOnce
<1>10. TasksAreCounted'
  <2> PICK g : g = worker[w].group
    OBVIOUS
  <2>1. /\ IsFiniteSet(worker[w].left) /\ counts[g] \in Results
        /\ Poll!Total(counts[g]) + Cardinality(worker[w].left) = Cardinality(groups[g].orders)
    <3>1. InHand(w) = worker[w].left
      BY <1>3 DEF InHand
    <3> QED
      BY <1>3, <3>1, HandsAreFinite
  <2>2. /\ Cardinality(batch) \in Nat /\ Cardinality(worker[w].left \ batch) \in Nat
        /\ Cardinality(worker[w].left \ batch) = Cardinality(worker[w].left) - Cardinality(batch)
    <3>1. IsFiniteSet(worker[w].left) /\ worker[w].left \cap batch = batch
      BY <2>1
    <3>2. IsFiniteSet(batch) /\ IsFiniteSet(worker[w].left \ batch)
      BY <3>1, FS_Subset, FS_Difference
    <3>3. Cardinality(worker[w].left \ batch) = Cardinality(worker[w].left) - Cardinality(batch)
      BY <3>1, FS_Difference
    <3> QED
      BY <3>2, <3>3, FS_CardinalityType
  <2>3. DOMAIN counts = 1..Len(groups) /\ g \in 1..Len(groups) /\ Cardinality(worker[w].left) \in Nat
    BY <1>3, <2>1, FS_CardinalityType DEF PollInv, WorkerIsAt, TasksAreCounted
  <2>4. CASE lost
    <3> PICK c : c = [counts[g] EXCEPT !.pending = @ + Cardinality(batch)]
      OBVIOUS
    <3>1. /\ c.done = counts[g].done /\ c.moved = counts[g].moved
          /\ c.pending = counts[g].pending + Cardinality(batch)
          /\ counts[g].done \in Nat /\ counts[g].moved \in Nat /\ counts[g].pending \in Nat
      BY <2>1 DEF Results
    <3>2. c \in Results
      BY <2>1, <2>2, <3>1 DEF Results
    <3>3. Poll!Total(c) = Poll!Total(counts[g]) + Cardinality(batch) /\ Poll!Total(counts[g]) \in Nat
      BY <2>2, <3>1 DEF Poll!Total
    <3>4. counts' = [counts EXCEPT ![worker[w].group] = c]
      BY <1>1, <2>3, <2>4
    <3>5. next.left \cup next.batch = worker[w].left \ batch
      BY <1>5, <2>4
    <3>6. Poll!Total(c) + Cardinality(next.left \cup next.batch)
            = Cardinality(groups[worker[w].group].orders)
      <4>1. Poll!Total(c) + Cardinality(worker[w].left \ batch)
              = Poll!Total(counts[g]) + Cardinality(worker[w].left)
        BY <2>2, <2>3, <3>3
      <4> QED
        BY <2>1, <3>5, <4>1
    <3> QED
      BY <1>3, <1>5, <1>6, <3>2, <3>4, <3>6, CountedStep
  <2>5. CASE ~lost
    <3>1. counts' = [counts EXCEPT ![worker[w].group] = counts[g]]
      BY <1>1, <2>3, <2>5 DEF PollInv, TasksAreCounted
    <3>2. next.left \cup next.batch = worker[w].left
      BY <1>5, <2>5
    <3> QED
      BY <1>3, <1>5, <1>6, <2>1, <3>1, <3>2, CountedStep
  <2> QED
    BY <2>4, <2>5
<1>11. Active' = Active /\ \A v \in Calls : worker'[v].group = worker[v].group
  BY <1>4, <1>5, <1>6 DEF Active
<1>12. TasksAreSettled'
  BY <1>3, <1>11 DEF PollInv, TasksAreSettled
<1> QED
  BY <1>3, <1>7, <1>9, <1>10, <1>11, <1>12 DEF PollInv

LEMMA ProcessStep ==
    ASSUME FinitePoll, PollInv, NEW w \in Calls, NEW o \in PolledOrders, Poll!Process(w, o)
    PROVE  PollInv'
<1>1. PICK next : next = [worker[w] EXCEPT !.batch = @ \ {o}]
  OBVIOUS
<1>2. /\ o \in worker[w].batch
      /\ UNCHANGED <<usable, report, running, groups, index, settled>>
      /\ worker' = [worker EXCEPT ![w].batch = @ \ {o}]
  BY DEF Poll!Process
<1>3. WorkerIsAt(w) /\ DOMAIN worker = Calls /\ worker[w].group # None
  BY <1>2 DEF PollInv, WorkerIsAt
<1>4. /\ DOMAIN next = {"group", "orders", "left", "batch"} /\ next.group = worker[w].group
      /\ next.left = worker[w].left /\ next.batch = worker[w].batch \ {o}
      /\ worker' = [worker EXCEPT ![w] = next]
  BY <1>1, <1>2, <1>3 DEF WorkerIsAt
<1>5. InHand(w) \ (next.left \cup next.batch) = {o} /\ o \in Outstanding
  <2>1. InHand(w) = worker[w].left \cup worker[w].batch /\ o \notin worker[w].left
    BY <1>2, <1>3 DEF WorkerIsAt, InHand
  <2>2. InHand(w) \ (next.left \cup next.batch) = {o}
    BY <1>2, <1>4, <2>1
  <2>3. o \in Outstanding
    BY <1>2, <2>1 DEF Outstanding
  <2> QED
    BY <2>2, <2>3
<1>6. /\ (\A v \in Calls : WorkerIsAt(v))' /\ WorkersAreApart' /\ TasksAreGroups'
      /\ DOMAIN worker' = Calls /\ Outstanding' = Outstanding \ {o}
  <2>1. /\ next.left \cup next.batch \subseteq InHand(w) /\ next.left \cap next.batch = {}
        /\ Poll!Unusable(Poll!Provider(w)) => next.batch = {}
    BY <1>3, <1>4 DEF WorkerIsAt, InHand
  <2> QED
    BY <1>2, <1>3, <1>4, <1>5, <2>1, HandsStep
<1>7. HandedOnce'
  <2>1. /\ handed[o] = [times |-> 0, answers |-> {}]
        /\ \/ UNCHANGED handed
           \/ handed' = [handed EXCEPT ![o] =
                 [times |-> @.times + 1,
                  answers |-> @.answers \cup {report[Poll!Provider(w)][IdOf[o]]}]]
    BY <1>5 DEF Poll!Process, PollInv, HandedOnce
  <2>2. Poll!Provider(w) = ProviderOf[o]
    BY <1>2, <1>3 DEF PollInv, TasksAreGroups, WorkerIsAt, Poll!Provider
  <2>3. \/ UNCHANGED handed
        \/ handed' = [handed EXCEPT ![o] =
              [times |-> 1, answers |-> {report[ProviderOf[o]][IdOf[o]]}]]
    BY <2>1, <2>2
  <2>4. DOMAIN handed' = PolledOrders
    BY <2>3 DEF PollInv, HandedOnce
  <2>5. ASSUME NEW q \in PolledOrders
        PROVE  \/ handed'[q] = [times |-> 0, answers |-> {}]
               \/ /\ q \notin Outstanding'
                  /\ handed'[q] = [times |-> 1, answers |-> {report[ProviderOf[q]][IdOf[q]]}]
    <3>1. CASE q = o
      BY <1>6, <2>1, <2>3, <3>1 DEF PollInv, HandedOnce
    <3>2. CASE q # o
      BY <1>6, <2>3, <3>2 DEF PollInv, HandedOnce
    <3> QED
      BY <3>1, <3>2
  <2> QED
    BY <1>2, <2>4, <2>5 DEF HandedOnce
<1>8. TasksAreCounted'
  <2> PICK g : g = worker[w].group
    OBVIOUS
  <2>1. /\ IsFiniteSet(InHand(w)) /\ Cardinality(InHand(w)) \in Nat /\ counts[g] \in Results
        /\ Poll!Total(counts[g]) + Cardinality(InHand(w)) = Cardinality(groups[g].orders)
    BY <1>3, HandsAreFinite
  <2>2. Cardinality(next.left \cup next.batch) = Cardinality(InHand(w)) - 1
    <3>1. o \in InHand(w) /\ next.left \cup next.batch = InHand(w) \ {o}
      BY <1>2, <1>3, <1>4 DEF WorkerIsAt, InHand
    <3> QED
      BY <2>1, <3>1, FS_RemoveElement
  <2>3. DOMAIN counts = 1..Len(groups) /\ g \in 1..Len(groups)
    BY <1>3 DEF PollInv, WorkerIsAt, TasksAreCounted
  <2>4. \/ counts' = [counts EXCEPT ![g].pending = @ + 1]
        \/ counts' = [counts EXCEPT ![g].done = @ + 1]
    BY DEF Poll!Process
  <2>5. PICK c \in {[counts[g] EXCEPT !.pending = @ + 1], [counts[g] EXCEPT !.done = @ + 1]} :
          counts' = [counts EXCEPT ![g] = c]
    BY <2>3, <2>4
  <2>6. c \in Results /\ Poll!Total(c) = Poll!Total(counts[g]) + 1 /\ Poll!Total(counts[g]) \in Nat
    BY <2>1 DEF Results, Poll!Total
  <2>7. Poll!Total(c) + Cardinality(next.left \cup next.batch)
          = Cardinality(groups[worker[w].group].orders)
    BY <2>1, <2>2, <2>6
  <2> QED
    BY <1>2, <1>3, <1>4, <2>5, <2>6, <2>7, CountedStep
<1>9. Active' = Active /\ \A v \in Calls : worker'[v].group = worker[v].group
  BY <1>3, <1>4 DEF Active
<1>10. TasksAreSettled'
  BY <1>2, <1>9 DEF PollInv, TasksAreSettled
<1> QED
  BY <1>2, <1>6, <1>7, <1>8, <1>9, <1>10 DEF PollInv

LEMMA ReturnStep ==
    ASSUME FinitePoll, PollInv, NEW w \in Calls, Poll!Return(w)
    PROVE  PollInv'
<1>1. PICK next, s : /\ next = [group |-> None, orders |-> {}, left |-> {}, batch |-> {}]
                     /\ s = [group |-> worker[w].group, ok |-> TRUE]
  OBVIOUS
<1>2. /\ worker[w].group # None /\ worker[w].left = {} /\ worker[w].batch = {}
      /\ worker' = [worker EXCEPT ![w] = next] /\ settled' = settled \cup {s}
      /\ UNCHANGED <<usable, report, running, groups, index, counts, handed>>
  BY <1>1 DEF Poll!Return, Poll!Idle
<1>3. /\ DOMAIN next = {"group", "orders", "left", "batch"} /\ next.group = None
      /\ next.left = {} /\ next.batch = {} /\ s.group = worker[w].group /\ s.ok
  BY <1>1
<1>4. InHand(w) = {}
  BY <1>2 DEF InHand
<1>5. /\ (\A v \in Calls : WorkerIsAt(v))' /\ WorkersAreApart' /\ TasksAreGroups'
      /\ DOMAIN worker' = Calls /\ Outstanding' = Outstanding
  <2>1. /\ next.left \cup next.batch \subseteq InHand(w) /\ next.left \cap next.batch = {}
        /\ next.batch = {}
    BY <1>3
  <2>2. /\ (\A v \in Calls : WorkerIsAt(v))' /\ WorkersAreApart' /\ TasksAreGroups'
        /\ DOMAIN worker' = Calls
        /\ Outstanding' = Outstanding \ (InHand(w) \ (next.left \cup next.batch))
    BY <1>2, <1>3, <2>1, HandsStep
  <2> QED
    BY <1>4, <2>2
<1>6. HandedOnce'
  BY <1>2, <1>5 DEF PollInv, HandedOnce
<1>7. TasksAreCounted'
  <2>1. /\ counts[worker[w].group] \in Results
        /\ Poll!Total(counts[worker[w].group]) = Cardinality(groups[worker[w].group].orders)
    <3>1. Poll!Total(counts[worker[w].group]) + 0 = Cardinality(groups[worker[w].group].orders)
      BY <1>2, <1>4, HandsAreFinite, FS_EmptySet
    <3>2. Poll!Total(counts[worker[w].group]) \in Nat
      BY <1>2, HandsAreFinite DEF Results, Poll!Total
    <3> QED
      BY <1>2, <3>1, <3>2, HandsAreFinite
  <2>2. counts' = [counts EXCEPT ![worker[w].group] = counts[worker[w].group]]
    BY <1>2 DEF PollInv, TasksAreCounted
  <2> QED
    BY <1>2, <1>3, <2>1, <2>2, CountedStep
<1>8. TasksAreSettled'
  <2>1. Active' = Active \ {worker[w].group} /\ worker[w].group \in Active
    BY <1>2, <1>3 DEF Active, PollInv, WorkersAreApart
  <2>2. {t.group : t \in settled'} = {t.group : t \in settled} \cup {worker[w].group}
    BY <1>2, <1>3
  <2> QED
    BY <1>2, <2>1, <2>2 DEF PollInv, TasksAreSettled
<1>9. ~running => \A v \in Calls : worker'[v].group = None
  BY <1>2, <1>3 DEF PollInv
<1> QED
  BY <1>2, <1>5, <1>6, <1>7, <1>8, <1>9 DEF PollInv

LEMMA PollStep == ASSUME FinitePoll, PollInv, [Poll!Next]_Poll!pollVars PROVE PollInv'
<1>1. CASE UNCHANGED <<usable, report, groups, index, worker, settled, counts, handed>>
           /\ running' \in BOOLEAN /\ (~running' => \A w \in Calls : worker[w].group = None)
  <2>1. (\A w \in Calls : WorkerIsAt(w))' /\ Outstanding' = Outstanding
    BY <1>1 DEF PollInv, WorkerIsAt, Poll!Unusable, Poll!Provider, Outstanding, Ahead, InHand
  <2> QED
    BY <1>1, <2>1 DEF PollInv, TasksAreGroups, WorkersAreApart, HandedOnce, TasksAreCounted,
                      TasksAreSettled, Active, InHand
<1>2. CASE UNCHANGED Poll!pollVars \/ Poll!EndPoll \/ \E o \in PolledOrders : Poll!SettledElsewhere(o)
  BY <1>1, <1>2 DEF Poll!pollVars, Poll!EndPoll, Poll!Drained, Poll!SettledElsewhere, PollInv
<1> QED
  BY <1>2, TickStep, TakeStep, MoveStep, CheckStep, ProcessStep, ReturnStep DEF Poll!Next

\* However many workers there are and whatever the providers answer: no order is
\* processed twice in a poll or with another provider's answer, every group is
\* settled when the poll ends, and the result of each task that did not throw
\* counts every order of its group, whichever others threw (pollPendingOrders,
\* pollProviderGroup and the pool, runWithConcurrency).
THEOREM PollIsSound == Poll!Spec => []PollSound
<1> USE ProvidersAssumption
<1>1. Poll!Init => PollInv
  BY PollInit DEF FinitePoll
<1>2. PollInv /\ [Poll!Next]_Poll!pollVars => PollInv'
  BY PollStep DEF FinitePoll
<1>3. PollInv => PollSound
  BY PollInvIsSound DEF FinitePoll
<1> QED
  BY <1>1, <1>2, <1>3, PTL DEF Poll!Spec

-----------------------------------------------------------------------------
(* Catalogue: what a synchronisation leaves in rows and products.          *)

ProductFields == {"there", "active", "deleted", "link", "mode", "follow", "nobility",
                  "adjusted", "markup", "price", "providerPrice"}
SyncFields == {"at", "list", "left", "seen", "ext", "found", "clean"}
IsProduct(d) == DOMAIN d = ProductFields /\ d.link \in Exts \cup {None}
EditMeans(c) ==
    /\ DOMAIN c = {"at", "product", "link", "set"}
    /\ c.at \in {"check", "create"} => IsProduct(c.set)
    /\ c.at = "save" /\ "link" \in DOMAIN c.set => c.set["link"] \in Exts \cup {None}

\* What the provider may list, and the rows.
IsList(list) == \A e \in Exts : list[e] = None \/ DOMAIN list[e] = {"price", "active"}

CatalogType ==
    /\ DOMAIN provider = {"there", "active", "dealer"}
    /\ DOMAIN row = Exts /\ IsList(row) /\ IsList(offers)
    /\ DOMAIN product = Products /\ \A p \in Products : IsProduct(product[p])
    /\ DOMAIN sync = Calls /\ \A s \in Calls : DOMAIN sync[s] = SyncFields
    /\ DOMAIN edit = Customers /\ \A c \in Customers : EditMeans(edit[c])

\* A dealer lists its configured product and nothing else.
DealerList == [e \in Exts |-> IF e = DynamicExt THEN Catalog!DynamicOffer ELSE None]
Offered(list) == {e \in Exts : list[e] # None}
IsOffered(list) == Offered(list) # {} /\ (provider.dealer => list = DealerList)

\* The lock is held for the one synchronisation that is in flight.
OneAtATime ==
    /\ locked = (\E s \in Calls : sync[s].at # "idle")
    /\ \A s, t \in Calls : sync[s].at # "idle" /\ sync[t].at # "idle" => s = t

RowsAre(list) ==
    \A e \in Exts : IF list[e] = None THEN row[e] = None \/ ~row[e].active ELSE row[e] = list[e]
Follows(p, list) ==
    /\ product[p].there /\ product[p].mode = "sync" /\ ~product[p].nobility
    /\ product[p].link # None /\ list[product[p].link] # None
Priced(p, list) ==
    /\ product[p].providerPrice = list[product[p].link].price
    /\ product[p].price = list[product[p].link].price + product[p].markup

MirrorIsTrue ==
    mirror # None =>
        /\ IsOffered(mirror) /\ RowsAre(mirror)
        /\ \A p \in Products \ edited : Follows(p, mirror) => Priced(p, mirror)

\* What remains to be priced: products of the rows ahead, and those just found.
Awaited(p, r) ==
    product[p].link \in r.left \/ (product[p].link = r.ext /\ <<p, product[p].markup>> \in r.found)

SyncMeans(r) ==
    /\ r.at \in {"find", "fetch"} => r.seen = {}
    /\ r.at \in {"find", "fetch", "upsert"} => r.found = {} /\ r.ext = None
    /\ r.at \in {"upsert", "prices"} => mirror = None /\ (r.clean => IsOffered(r.list))
    /\ r.at = "upsert" => IsList(r.list)
    /\ r.at = "upsert" /\ r.clean =>
          r.left \cup r.seen = Offered(r.list) /\ \A e \in r.seen : row[e] = r.list[e]
    /\ r.at = "prices" =>
          \A f \in r.found : \E p \in Products : \E m :
              f = <<p, m>> /\ (p \notin edited => m = product[p].markup /\ product[p].link = r.ext)
    /\ r.at = "prices" /\ r.clean =>
          /\ RowsAre(r.list)
          /\ \A p \in Products \ edited : Follows(p, r.list) => Awaited(p, r) \/ Priced(p, r.list)

CatalogInv ==
    /\ CatalogType /\ OneAtATime /\ MirrorIsTrue
    /\ provider.dealer => offers = DealerList
    /\ \A s \in Calls : SyncMeans(sync[s])

LEMMA CatalogInvIsSound == CatalogInv => SyncMirrors
BY DEF CatalogInv, OneAtATime, MirrorIsTrue, RowsAre, Follows, Priced, SyncMirrors,
       Catalog!SyncMirrors, Catalog!RowsMirror, Catalog!ProductsMirror, Catalog!LockHeld

LEMMA CatalogInit == Catalog!Init => CatalogInv
<1> SUFFICES ASSUME Catalog!Init PROVE CatalogInv
  OBVIOUS
<1>1. CatalogType
  BY DEF Catalog!Init, CatalogType, IsList, Catalog!DynamicOffer, Catalog!Unpublished,
     IsProduct, ProductFields, Catalog!IdleSync,
         SyncFields, Catalog!IdleCall, EditMeans
<1>2. \A s \in Calls : sync[s].at = "idle"
  BY DEF Catalog!Init, Catalog!IdleSync
<1>3. OneAtATime /\ MirrorIsTrue /\ \A s \in Calls : SyncMeans(sync[s])
  BY <1>2 DEF Catalog!Init, OneAtATime, MirrorIsTrue, SyncMeans
<1>4. provider.dealer => offers = DealerList
  BY DEF Catalog!Init, DealerList
<1> QED
  BY <1>1, <1>3, <1>4 DEF CatalogInv

\* What the invariant reads of the rows, the products and the provider.
Surroundings == <<row, product, mirror, edited, provider.dealer>>

LEMMA SameMeaning ==
    ASSUME UNCHANGED Surroundings, NEW r, SyncMeans(r)
    PROVE  SyncMeans(r)'
BY DEF Surroundings, SyncMeans, IsList, IsOffered, Offered, RowsAre, Follows, Priced, Awaited

LEMMA SameMirror == ASSUME UNCHANGED Surroundings, MirrorIsTrue PROVE MirrorIsTrue'
BY DEF Surroundings, MirrorIsTrue, IsOffered, Offered, RowsAre, Follows, Priced

\* A step of the synchronisation that is in flight, or that begins or ends.
LEMMA SyncMoves ==
    ASSUME CatalogInv, NEW s \in Calls, NEW next,
           DOMAIN next = SyncFields, SyncMeans(next)', MirrorIsTrue',
           sync' = [sync EXCEPT ![s] = next],
           sync[s].at # "idle" \/ ~locked,
           locked' = (next.at # "idle"),
           DOMAIN row' = Exts,
           IsList(row'),
           DOMAIN product' = Products, \A p \in Products : IsProduct(product'[p]),
           UNCHANGED <<provider, offers, edit>>
    PROVE  CatalogInv'
<1>1. DOMAIN sync = Calls /\ \A t \in Calls : t # s => sync[t].at = "idle"
  BY DEF CatalogInv, CatalogType, OneAtATime
<1>2. /\ DOMAIN sync' = Calls /\ sync'[s] = next
      /\ \A t \in Calls : t # s => sync'[t] = sync[t] /\ sync'[t].at = "idle"
  BY <1>1
<1>3. CatalogType'
  BY <1>2 DEF CatalogInv, CatalogType, EditMeans, IsProduct, IsList
<1>4. OneAtATime'
  BY <1>2 DEF OneAtATime
<1>5. \A t \in Calls : SyncMeans(sync[t])'
  <2>1. ASSUME NEW t \in Calls, t # s PROVE SyncMeans(sync[t])'
    BY <1>2, <2>1 DEF SyncMeans
  <2> QED
    BY <1>2, <2>1
<1> QED
  BY <1>3, <1>4, <1>5 DEF CatalogInv, DealerList

LEMMA SyncBeginsOrEnds ==
    ASSUME CatalogInv, NEW s \in Calls,
           \/ Catalog!StartSync(s) \/ Catalog!FindProvider(s) \/ Catalog!FetchFails(s)
    PROVE  CatalogInv'
<1>1. PICK next :
         /\ DOMAIN next = SyncFields /\ next.at \in {"idle", "find", "fetch"}
         /\ next.at # "idle" => next.seen = {} /\ next.found = {} /\ next.ext = None
         /\ sync' = [sync EXCEPT ![s] = next] /\ (sync[s].at # "idle" \/ ~locked)
         /\ locked' = (next.at # "idle")
  <2>1. /\ DOMAIN sync[s] = SyncFields /\ SyncMeans(sync[s])
        /\ locked = (\E t \in Calls : sync[t].at # "idle")
    BY DEF CatalogInv, CatalogType, OneAtATime
  <2>2. /\ DOMAIN Catalog!IdleSync = SyncFields /\ Catalog!IdleSync.at = "idle"
        /\ Catalog!IdleSync.seen = {} /\ Catalog!IdleSync.found = {}
        /\ Catalog!IdleSync.ext = None
    BY DEF Catalog!IdleSync, SyncFields
  <2>3. CASE Catalog!StartSync(s)
    <3>1. PICK next : next = [Catalog!IdleSync EXCEPT !.at = "find"]
      OBVIOUS
    <3>2. /\ DOMAIN next = SyncFields /\ next.at = "find"
          /\ next.seen = {} /\ next.found = {} /\ next.ext = None
      BY <2>2, <3>1 DEF SyncFields
    <3>3. sync' = [sync EXCEPT ![s] = next] /\ ~locked /\ locked' = TRUE
      BY <2>3, <3>1 DEF Catalog!StartSync, Catalog!SyncTo, Catalog!LockFree
    <3> QED
      BY <3>2, <3>3
  <2>4. CASE Catalog!FindProvider(s) /\ provider.there /\ provider.active
    <3>1. PICK next : next = [sync[s] EXCEPT !.at = "fetch"]
      OBVIOUS
    <3>2. /\ DOMAIN next = SyncFields /\ next.at = "fetch"
          /\ next.seen = sync[s].seen /\ next.found = sync[s].found /\ next.ext = sync[s].ext
      BY <2>1, <3>1 DEF SyncFields
    <3>3. sync' = [sync EXCEPT ![s] = next] /\ sync[s].at = "find" /\ locked' = locked
      BY <2>4, <3>1 DEF Catalog!FindProvider, Catalog!SyncTo
    <3>4. locked' = TRUE
      BY <2>1, <3>3
    <3> QED
      BY <2>1, <3>2, <3>3, <3>4 DEF SyncMeans
  <2>5. CASE Catalog!Release(s) /\ sync[s].at # "idle"
    BY <2>2, <2>5 DEF Catalog!Release, Catalog!SyncTo
  <2> QED
    BY <2>3, <2>4, <2>5 DEF Catalog!FindProvider, Catalog!FetchFails
<1>2. UNCHANGED <<row, product, mirror, edited, provider, offers, edit>>
  BY DEF Catalog!StartSync, Catalog!FindProvider, Catalog!FetchFails
<1>3. SyncMeans(next)'
  BY <1>1 DEF SyncMeans
<1>4. MirrorIsTrue'
  BY <1>2, SameMirror DEF CatalogInv, Surroundings
<1> QED
  BY <1>1, <1>2, <1>3, <1>4, SyncMoves DEF CatalogInv, CatalogType, IsProduct, IsList

\* A synchronisation in flight goes on, with rows and products it may have changed.
LEMMA SyncGoesOn ==
    ASSUME CatalogInv, NEW s \in Calls, NEW next,
           sync[s].at # "idle", next.at \in {"upsert", "prices"},
           DOMAIN next = SyncFields, SyncMeans(next)', mirror' = None,
           sync' = [sync EXCEPT ![s] = next],
           DOMAIN row' = Exts,
           IsList(row'),
           DOMAIN product' = Products, \A p \in Products : IsProduct(product'[p]),
           UNCHANGED <<provider, offers, edit, locked>>
    PROVE  CatalogInv'
<1>1. locked' = (next.at # "idle")
  BY DEF CatalogInv, OneAtATime
<1>2. MirrorIsTrue'
  BY DEF MirrorIsTrue
<1> QED
  BY <1>1, <1>2, SyncMoves

LEMMA FetchedStep ==
    ASSUME CatalogInv, NEW s \in Calls, Catalog!Fetched(s)
    PROVE  CatalogInv'
<1>1. PICK list \in {offers, [e \in Exts |-> None]} :
         /\ sync' = [sync EXCEPT ![s] = [sync[s] EXCEPT
                        !.at = "upsert", !.list = list, !.left = Offered(list),
                        !.clean = Offered(list) # {}]]
         /\ mirror' = None
  BY DEF Catalog!Fetched, Catalog!SyncTo, Offered
<1>2. PICK next : next = [sync[s] EXCEPT !.at = "upsert", !.list = list, !.left = Offered(list),
                                         !.clean = Offered(list) # {}]
  OBVIOUS
<1>3. sync[s].at = "fetch" /\ UNCHANGED <<provider, offers, row, product, locked, edit>>
  BY DEF Catalog!Fetched
<1>4. /\ DOMAIN next = SyncFields /\ next.at = "upsert" /\ next.list = list
      /\ next.left = Offered(list) /\ (next.clean <=> Offered(list) # {})
      /\ next.seen = {} /\ next.found = {} /\ next.ext = None
  <2>1. DOMAIN sync[s] = SyncFields /\ SyncMeans(sync[s])
    BY DEF CatalogInv, CatalogType
  <2>2. sync[s].seen = {} /\ sync[s].found = {} /\ sync[s].ext = None
    BY <1>3, <2>1 DEF SyncMeans
  <2> QED
    BY <1>2, <2>1, <2>2 DEF SyncFields
<1>5. Offered(list) # {} => IsOffered(list)
  BY <1>1 DEF IsOffered, Offered, CatalogInv
<1>6. SyncMeans(next)'
  <2>1. IsList(list)
    BY <1>1 DEF CatalogInv, CatalogType, IsProduct, IsList
  <2>2. Offered(list)' = Offered(list) /\ IsOffered(list)' = IsOffered(list)
    BY <1>3, <1>4 DEF Offered, IsOffered, DealerList
  <2> QED
    BY <1>1, <1>4, <1>5, <2>1, <2>2 DEF SyncMeans, IsList
<1>7. sync' = [sync EXCEPT ![s] = next]
  BY <1>1, <1>2
<1> QED
  <2>1. /\ DOMAIN next = SyncFields /\ next.at \in {"upsert", "prices"}
        /\ sync[s].at # "idle" /\ mirror' = None
    BY <1>1, <1>3, <1>4
  <2>2. /\ DOMAIN row' = Exts /\ IsList(row')
        /\ DOMAIN product' = Products /\ \A p \in Products : IsProduct(product'[p])
    <3>1. /\ DOMAIN row = Exts /\ IsList(row)
          /\ DOMAIN product = Products /\ \A p \in Products : IsProduct(product[p])
      BY DEF CatalogInv, CatalogType
    <3>2. row' = row /\ product' = product
      BY <1>3
    <3> QED
      BY <3>1, <3>2
  <2>3. UNCHANGED <<provider, offers, edit, locked>>
    BY <1>3
  <2> QED
    BY <1>6, <1>7, <2>1, <2>2, <2>3, SyncGoesOn

LEMMA UpsertStep ==
    ASSUME CatalogInv, NEW s \in Calls, NEW e \in Exts, Catalog!Upsert(s, e)
    PROVE  CatalogInv'
<1>1. PICK stored \in BOOLEAN :
         /\ row' = IF stored THEN [row EXCEPT ![e] = sync[s].list[e]] ELSE row
         /\ sync' = [sync EXCEPT ![s] =
               IF stored THEN [sync[s] EXCEPT !.left = @ \ {e}, !.seen = @ \cup {e}]
               ELSE [sync[s] EXCEPT !.left = @ \ {e}, !.clean = FALSE]]
  BY DEF Catalog!Upsert, Catalog!SyncTo
<1>2. /\ sync[s].at = "upsert" /\ e \in sync[s].left
      /\ UNCHANGED <<provider, offers, product, locked, edit, mirror, edited>>
  BY DEF Catalog!Upsert
<1>3. /\ DOMAIN sync[s] = SyncFields /\ SyncMeans(sync[s])
      /\ DOMAIN row = Exts /\ mirror = None
  BY <1>2 DEF CatalogInv, CatalogType, SyncMeans
<1>4. PICK next :
         /\ next = IF stored THEN [sync[s] EXCEPT !.left = @ \ {e}, !.seen = @ \cup {e}]
                   ELSE [sync[s] EXCEPT !.left = @ \ {e}, !.clean = FALSE]
  OBVIOUS
<1>5. /\ DOMAIN next = SyncFields /\ next.at = "upsert" /\ next.list = sync[s].list
      /\ next.found = {} /\ next.ext = None /\ next.left = sync[s].left \ {e}
      /\ next.seen = IF stored THEN sync[s].seen \cup {e} ELSE sync[s].seen
      /\ next.clean => stored /\ sync[s].clean
  BY <1>2, <1>3, <1>4 DEF SyncFields, SyncMeans
<1>6. SyncMeans(next)'
  <2>1. IsOffered(next.list)' = IsOffered(next.list) /\ Offered(next.list)' = Offered(next.list)
    BY <1>2 DEF Offered, IsOffered, DealerList
  <2>2. ASSUME next.clean
        PROVE  /\ IsOffered(next.list) /\ next.left \cup next.seen = Offered(next.list)
               /\ \A x \in next.seen : row'[x] = next.list[x]
    <3>1. /\ IsOffered(sync[s].list) /\ sync[s].left \cup sync[s].seen = Offered(sync[s].list)
          /\ \A x \in sync[s].seen : row[x] = sync[s].list[x]
      BY <1>2, <1>3, <1>5, <2>2 DEF SyncMeans
    <3>2. Offered(sync[s].list) \subseteq Exts
      BY DEF Offered
    <3> QED
      BY <1>1, <1>2, <1>3, <1>5, <2>2, <3>1, <3>2
  <2> QED
    BY <1>2, <1>3, <1>5, <2>1, <2>2 DEF SyncMeans, IsList
<1>7. sync' = [sync EXCEPT ![s] = next]
  BY <1>1, <1>4
<1>8. /\ DOMAIN row' = Exts
      /\ IsList(row')
  BY <1>1, <1>2, <1>3 DEF CatalogInv, CatalogType, SyncMeans, IsList
<1> QED
  BY <1>2, <1>3, <1>5, <1>6, <1>7, <1>8, SyncGoesOn DEF CatalogInv, CatalogType, IsProduct

LEMMA DeactivateStep ==
    ASSUME CatalogInv, NEW s \in Calls, Catalog!Deactivate(s)
    PROVE  CatalogInv'
<1>1. PICK done \in BOOLEAN :
         /\ row' = IF done THEN [e \in Exts |-> IF e \in Catalog!Unseen(s)
                                                THEN [row[e] EXCEPT !.active = FALSE] ELSE row[e]]
                   ELSE row
         /\ sync' = [sync EXCEPT ![s] =
               IF done THEN [sync[s] EXCEPT !.at = "prices", !.left = sync[s].seen]
               ELSE [sync[s] EXCEPT !.at = "prices", !.left = sync[s].seen, !.clean = FALSE]]
  BY DEF Catalog!Deactivate, Catalog!SyncTo
<1>2. /\ sync[s].at = "upsert" /\ sync[s].left = {}
      /\ UNCHANGED <<provider, offers, product, locked, edit, mirror, edited>>
  BY DEF Catalog!Deactivate
<1>3. /\ DOMAIN sync[s] = SyncFields /\ SyncMeans(sync[s])
      /\ DOMAIN row = Exts /\ mirror = None /\ IsList(row)
  BY <1>2 DEF CatalogInv, CatalogType, SyncMeans
<1>4. PICK next :
         next = IF done THEN [sync[s] EXCEPT !.at = "prices", !.left = sync[s].seen]
                ELSE [sync[s] EXCEPT !.at = "prices", !.left = sync[s].seen, !.clean = FALSE]
  OBVIOUS
<1>5. /\ DOMAIN next = SyncFields /\ next.at = "prices" /\ next.list = sync[s].list
      /\ next.found = {} /\ next.ext = None /\ next.left = sync[s].seen
      /\ next.clean => done /\ sync[s].clean
  BY <1>2, <1>3, <1>4 DEF SyncFields, SyncMeans
<1>6. DOMAIN row' = Exts /\ IsList(row')
  <2>1. \A e \in Catalog!Unseen(s) : e \in Exts /\ row[e] # None
    BY DEF Catalog!Unseen
  <2> QED
    BY <1>1, <1>3, <2>1 DEF IsList
<1>7. ASSUME next.clean
      PROVE  /\ IsOffered(next.list) /\ next.left = Offered(next.list) /\ RowsAre(next.list)'
  <2>1. /\ IsOffered(sync[s].list) /\ sync[s].seen = Offered(sync[s].list)
        /\ \A x \in sync[s].seen : row[x] = sync[s].list[x]
    BY <1>2, <1>3, <1>5, <1>7 DEF SyncMeans
  <2>2. Catalog!Unseen(s) = {e \in Exts \ sync[s].seen : row[e] # None}
    BY <2>1 DEF Catalog!Unseen, IsOffered, Offered
  <2>3. ASSUME NEW e \in Exts
        PROVE  IF next.list[e] = None THEN row'[e] = None \/ ~row'[e].active
               ELSE row'[e] = next.list[e]
    <3>1. row' = [x \in Exts |-> IF x \in Catalog!Unseen(s)
                                 THEN [row[x] EXCEPT !.active = FALSE] ELSE row[x]]
      BY <1>1, <1>5, <1>7
    <3>2. CASE next.list[e] = None
      <4>1. e \notin sync[s].seen
        BY <1>5, <2>1, <3>2 DEF Offered
      <4>2. CASE row[e] = None
        BY <2>2, <3>1, <3>2, <4>2
      <4>3. CASE row[e] # None
        <5>1. row'[e] = [row[e] EXCEPT !.active = FALSE] /\ "active" \in DOMAIN row[e]
          BY <1>3, <2>2, <3>1, <4>1, <4>3 DEF IsList
        <5>2. ~row'[e].active
          BY <5>1
        <5> QED
          BY <3>2, <5>2
      <4> QED
        BY <4>2, <4>3
    <3>3. CASE next.list[e] # None
      <4>1. e \in sync[s].seen
        BY <1>5, <2>1, <3>3 DEF Offered
      <4> QED
        BY <1>5, <2>1, <2>2, <3>1, <3>3, <4>1
    <3> QED
      BY <3>2, <3>3
  <2> QED
    BY <1>2, <1>5, <2>1, <2>3 DEF RowsAre
<1>8. SyncMeans(next)'
  <2>1. IsOffered(next.list)' = IsOffered(next.list)
    BY <1>2 DEF Offered, IsOffered, DealerList
  <2>2. ASSUME next.clean, NEW p \in Products, Follows(p, next.list)' PROVE Awaited(p, next)'
    <3>1. Follows(p, next.list)
      BY <1>2, <2>2 DEF Follows
    <3>2. product[p].link \in Offered(next.list)
      BY <3>1 DEF Follows, Offered, CatalogInv, CatalogType, IsProduct
    <3> QED
      BY <1>2, <1>7, <2>2, <3>2 DEF Awaited
  <2> QED
    BY <1>2, <1>3, <1>5, <1>7, <2>1, <2>2 DEF SyncMeans
<1>9. sync' = [sync EXCEPT ![s] = next]
  BY <1>1, <1>4
<1> QED
  BY <1>2, <1>3, <1>5, <1>6, <1>8, <1>9, SyncGoesOn DEF CatalogInv, CatalogType, IsProduct

LEMMA FindFollowersStep ==
    ASSUME CatalogInv, None \notin Exts, NEW s \in Calls, NEW e \in Exts,
           Catalog!FindFollowers(s, e)
    PROVE  CatalogInv'
<1> DEFINE followers == {<<p, product[p].markup>> :
                p \in {q \in Products : /\ product[q].there /\ product[q].link = e
                                        /\ product[q].mode = "sync" /\ ~product[q].nobility}}
<1>1. PICK done \in BOOLEAN :
         sync' = [sync EXCEPT ![s] =
             IF done THEN [sync[s] EXCEPT !.left = @ \ {e}, !.ext = e, !.found = followers]
             ELSE [sync[s] EXCEPT !.left = @ \ {e}, !.clean = FALSE]]
  BY DEF Catalog!FindFollowers, Catalog!SyncTo
<1>2. /\ sync[s].at = "prices" /\ sync[s].ext = None /\ e \in sync[s].left
      /\ UNCHANGED <<provider, offers, row, product, locked, edit, mirror, edited>>
  BY DEF Catalog!FindFollowers
<1>3. /\ DOMAIN sync[s] = SyncFields /\ SyncMeans(sync[s]) /\ mirror = None
  BY <1>2 DEF CatalogInv, CatalogType, SyncMeans
<1>4. PICK next :
         next = IF done THEN [sync[s] EXCEPT !.left = @ \ {e}, !.ext = e, !.found = followers]
                ELSE [sync[s] EXCEPT !.left = @ \ {e}, !.clean = FALSE]
  OBVIOUS
<1>5. /\ DOMAIN next = SyncFields /\ next.at = "prices" /\ next.list = sync[s].list
      /\ next.left = sync[s].left \ {e}
      /\ next.found = IF done THEN followers ELSE sync[s].found
      /\ next.ext = IF done THEN e ELSE None
      /\ next.clean => done /\ sync[s].clean
  BY <1>2, <1>3, <1>4 DEF SyncFields, SyncMeans
<1>6. \A f \in next.found : \E p \in Products : \E m :
          f = <<p, m>> /\ (p \notin edited => m = product[p].markup /\ product[p].link = next.ext)
  <2>1. CASE done
    BY <1>5, <2>1
  <2>2. CASE ~done
    BY <1>2, <1>3, <1>5, <2>2 DEF SyncMeans
  <2> QED
    BY <2>1, <2>2
<1>7. ASSUME next.clean
      PROVE  /\ IsOffered(next.list) /\ RowsAre(next.list)
             /\ \A p \in Products \ edited :
                   Follows(p, next.list) => Awaited(p, next) \/ Priced(p, next.list)
  <2>1. /\ IsOffered(sync[s].list) /\ RowsAre(sync[s].list)
        /\ \A p \in Products \ edited : Follows(p, sync[s].list) =>
              Awaited(p, sync[s]) \/ Priced(p, sync[s].list)
    BY <1>2, <1>3, <1>5, <1>7 DEF SyncMeans
  <2>2. ASSUME NEW p \in Products \ edited, Follows(p, sync[s].list), Awaited(p, sync[s])
        PROVE  Awaited(p, next)
    <3>1. product[p].link \in sync[s].left
      BY <1>2, <2>2 DEF Awaited, Follows
    <3>2. CASE product[p].link = e
      BY <1>5, <1>7, <2>2, <3>2 DEF Awaited, Follows
    <3>3. CASE product[p].link # e
      BY <1>5, <3>1, <3>3 DEF Awaited
    <3> QED
      BY <3>2, <3>3
  <2> QED
    BY <1>5, <2>1, <2>2
<1>8. SyncMeans(next)
  BY <1>3, <1>5, <1>6, <1>7 DEF SyncMeans
<1>9. SyncMeans(next)'
  BY <1>2, <1>8, SameMeaning DEF Surroundings
<1>10. sync' = [sync EXCEPT ![s] = next]
  BY <1>1, <1>4
<1> QED
  BY <1>2, <1>3, <1>5, <1>9, <1>10, SyncGoesOn DEF CatalogInv, CatalogType, IsProduct, IsList

LEMMA SyncPriceStep ==
    ASSUME CatalogInv, NEW s \in Calls, Catalog!SyncPrice(s)
    PROVE  CatalogInv'
<1>1. /\ sync[s].at = "prices" /\ sync[s].ext # None
      /\ UNCHANGED <<provider, offers, row, locked, edit, mirror, edited>>
  BY DEF Catalog!SyncPrice
<1>2. /\ DOMAIN sync[s] = SyncFields /\ SyncMeans(sync[s]) /\ mirror = None
      /\ DOMAIN product = Products /\ \A p \in Products : IsProduct(product[p])
  BY <1>1 DEF CatalogInv, CatalogType, SyncMeans
<1>3. sync[s].clean =>
        /\ IsOffered(sync[s].list) /\ RowsAre(sync[s].list)
        /\ \A p \in Products \ edited : Follows(p, sync[s].list) =>
              Awaited(p, sync[s]) \/ Priced(p, sync[s].list)
  BY <1>1, <1>2 DEF SyncMeans
<1>4. CASE sync[s].found = {}
  <2>1. PICK next : next = [sync[s] EXCEPT !.ext = None]
    OBVIOUS
  <2>2. sync' = [sync EXCEPT ![s] = next] /\ UNCHANGED product
    BY <1>4, <2>1 DEF Catalog!SyncPrice, Catalog!SyncTo
  <2>3. /\ DOMAIN next = SyncFields /\ next.at = "prices" /\ next.list = sync[s].list
        /\ next.left = sync[s].left /\ next.found = {} /\ next.clean = sync[s].clean
    BY <1>1, <1>2, <1>4, <2>1 DEF SyncFields
  <2>4. \A p \in Products : Awaited(p, sync[s]) => Awaited(p, next)
    BY <1>4, <2>3 DEF Awaited
  <2>5. SyncMeans(next)
    BY <1>2, <1>3, <2>3, <2>4 DEF SyncMeans
  <2>6. SyncMeans(next)'
    BY <1>1, <2>2, <2>5, SameMeaning DEF Surroundings
  <2> QED
    BY <1>1, <1>2, <2>2, <2>3, <2>6, SyncGoesOn DEF CatalogInv, CatalogType, IsProduct, IsList
<1>5. CASE UNCHANGED product /\ sync' = [sync EXCEPT ![s] =
              [sync[s] EXCEPT !.ext = None, !.found = {}, !.clean = FALSE]]
  <2>1. PICK next : next = [sync[s] EXCEPT !.ext = None, !.found = {}, !.clean = FALSE]
    OBVIOUS
  <2>2. sync' = [sync EXCEPT ![s] = next] /\ UNCHANGED product
    BY <1>5, <2>1
  <2>3. /\ DOMAIN next = SyncFields /\ next.at = "prices" /\ next.found = {} /\ ~next.clean
    BY <1>1, <1>2, <2>1 DEF SyncFields
  <2>4. SyncMeans(next)'
    BY <1>1, <1>2, <2>3 DEF SyncMeans
  <2> QED
    BY <1>1, <1>2, <2>2, <2>3, <2>4, SyncGoesOn DEF CatalogInv, CatalogType, IsProduct, IsList
<1>6. CASE \E f \in sync[s].found :
            /\ product' = [product EXCEPT
                  ![f[1]].providerPrice = sync[s].list[sync[s].ext].price,
                  ![f[1]].price = sync[s].list[sync[s].ext].price + f[2]]
            /\ sync' = [sync EXCEPT ![s] = [sync[s] EXCEPT !.found = @ \ {f}]]
  <2>1. PICK f \in sync[s].found :
           /\ product' = [product EXCEPT
                 ![f[1]].providerPrice = sync[s].list[sync[s].ext].price,
                 ![f[1]].price = sync[s].list[sync[s].ext].price + f[2]]
           /\ sync' = [sync EXCEPT ![s] = [sync[s] EXCEPT !.found = @ \ {f}]]
    BY <1>6
  <2>2. PICK next : next = [sync[s] EXCEPT !.found = @ \ {f}]
    OBVIOUS
  <2>3. /\ DOMAIN next = SyncFields /\ next.at = "prices" /\ next.list = sync[s].list
        /\ next.left = sync[s].left /\ next.ext = sync[s].ext /\ next.clean = sync[s].clean
        /\ next.found = sync[s].found \ {f}
    BY <1>1, <1>2, <2>2 DEF SyncFields
  <2>4. PICK q, n :
           /\ q \in Products /\ f = <<q, n>>
           /\ q \notin edited => n = product[q].markup /\ product[q].link = next.ext
    BY <1>1, <1>2, <2>1, <2>3 DEF SyncMeans
  <2>5. PICK d : d = [product[q] EXCEPT !.providerPrice = next.list[next.ext].price,
                                        !.price = next.list[next.ext].price + n]
    OBVIOUS
  <2>6. /\ product' = [product EXCEPT ![q] = d]
        /\ DOMAIN d = ProductFields /\ d.providerPrice = next.list[next.ext].price
        /\ d.price = next.list[next.ext].price + n
        /\ \A g \in ProductFields \ {"price", "providerPrice"} : d[g] = product[q][g]
    BY <1>2, <2>1, <2>3, <2>4, <2>5 DEF IsProduct, ProductFields
  <2>7. /\ d.there = product[q].there /\ d.link = product[q].link /\ d.mode = product[q].mode
        /\ d.nobility = product[q].nobility /\ d.markup = product[q].markup
    BY <2>6 DEF ProductFields
  <2>8. /\ DOMAIN product' = Products /\ \A p \in Products : IsProduct(product'[p])
        /\ \A p \in Products : p # q => product'[p] = product[p]
        /\ product'[q] = d
    BY <1>2, <2>4, <2>6, <2>7 DEF IsProduct
  <2>9. \A p \in Products : product'[p].markup = product[p].markup
                            /\ product'[p].link = product[p].link
    BY <2>7, <2>8
  <2>10. \A g \in next.found : \E p \in Products : \E m :
            g = <<p, m>> /\ (p \notin edited' => m = product'[p].markup
                                                 /\ product'[p].link = next.ext)
    BY <1>1, <1>2, <2>3, <2>9 DEF SyncMeans
  <2>11. ASSUME next.clean, NEW p \in Products \ edited, Follows(p, next.list)'
         PROVE  Awaited(p, next)' \/ Priced(p, next.list)'
    <3>1. CASE p # q
      <4>1. product'[p] = product[p] /\ <<p, product[p].markup>> # f
        BY <2>4, <2>8, <3>1
      <4>2. Follows(p, next.list)
        BY <2>11, <4>1 DEF Follows
      <4>3. Awaited(p, sync[s]) \/ Priced(p, next.list)
        BY <1>3, <2>3, <2>11, <4>2
      <4> QED
        BY <2>3, <4>1, <4>3 DEF Awaited, Priced
    <3>2. CASE p = q
      <4>1. n = product[q].markup /\ product[q].link = next.ext
        BY <2>4, <2>11, <3>2
      <4> QED
        BY <2>6, <2>7, <2>8, <3>2, <4>1 DEF Priced
    <3> QED
      BY <3>1, <3>2
  <2>12. SyncMeans(next)'
    <3>1. IsOffered(next.list)' = IsOffered(next.list) /\ RowsAre(next.list)' = RowsAre(next.list)
      BY <1>1 DEF Offered, IsOffered, DealerList, RowsAre
    <3> QED
      BY <1>1, <1>2, <1>3, <2>3, <2>10, <2>11, <3>1 DEF SyncMeans
  <2> QED
    BY <1>1, <1>2, <2>1, <2>2, <2>3, <2>8, <2>12, SyncGoesOn DEF CatalogInv, CatalogType, IsList
<1> QED
  BY <1>4, <1>5, <1>6 DEF Catalog!SyncPrice, Catalog!SyncTo

LEMMA FinishStep ==
    ASSUME CatalogInv, NEW s \in Calls, Catalog!Finish(s)
    PROVE  CatalogInv'
<1>1. /\ sync[s].at = "prices" /\ sync[s].ext = None /\ sync[s].left = {}
      /\ sync' = [sync EXCEPT ![s] = Catalog!IdleSync] /\ locked' = FALSE
      /\ mirror' = IF sync[s].clean THEN sync[s].list ELSE mirror
      /\ UNCHANGED <<provider, offers, row, product, edit, edited>>
  BY DEF Catalog!Finish, Catalog!Release, Catalog!SyncTo
<1>2. SyncMeans(sync[s])
  BY DEF CatalogInv
<1>3. DOMAIN Catalog!IdleSync = SyncFields /\ Catalog!IdleSync.at = "idle"
  BY DEF Catalog!IdleSync, SyncFields
<1>4. MirrorIsTrue'
  <2>1. CASE sync[s].clean
    <3>1. /\ IsOffered(sync[s].list) /\ RowsAre(sync[s].list)
          /\ \A p \in Products \ edited : Follows(p, sync[s].list) =>
                Awaited(p, sync[s]) \/ Priced(p, sync[s].list)
      BY <1>1, <1>2, <2>1 DEF SyncMeans
    <3>2. \A p \in Products : Follows(p, sync[s].list) => ~Awaited(p, sync[s])
      BY <1>1 DEF Follows, Awaited
    <3>3. mirror' = sync[s].list
      BY <1>1, <2>1
    <3> QED
      BY <1>1, <3>1, <3>2, <3>3
         DEF MirrorIsTrue, IsOffered, Offered, DealerList, RowsAre, Follows, Priced
  <2>2. CASE ~sync[s].clean
    BY <1>1, <1>2, <2>2 DEF SyncMeans, MirrorIsTrue
  <2> QED
    BY <2>1, <2>2
<1>5. SyncMeans(Catalog!IdleSync)'
  BY <1>3 DEF SyncMeans, Catalog!IdleSync
<1> QED
  BY <1>1, <1>3, <1>4, <1>5, SyncMoves DEF CatalogInv, CatalogType, IsProduct, IsList

LEMMA DynamicStep == ASSUME CatalogInv, Catalog!EnsureDynamicProduct PROVE CatalogInv'
<1>1. /\ provider.dealer /\ row' = [row EXCEPT ![DynamicExt] = Catalog!DynamicOffer]
      /\ UNCHANGED <<provider, offers, product, locked, sync, edit, mirror, edited>>
  BY DEF Catalog!EnsureDynamicProduct
<1>2. DOMAIN row' = Exts /\ IsList(row')
  BY <1>1 DEF CatalogInv, CatalogType, IsList, Catalog!DynamicOffer
<1>3. ASSUME NEW list, IsOffered(list)
      PROVE  /\ IsOffered(list)' /\ Offered(list)' = Offered(list)
             /\ RowsAre(list) => RowsAre(list)'
             /\ \A e \in Exts : list[e] # None /\ row[e] = list[e] => row'[e] = list[e]
  <2>1. list = DealerList /\ DOMAIN row = Exts
    BY <1>1, <1>3 DEF IsOffered, CatalogInv, CatalogType
  <2>2. \A e \in Exts : row'[e] = row[e] \/ (e = DynamicExt /\ row'[e] = Catalog!DynamicOffer)
    BY <1>1, <2>1
  <2>3. \A e \in Exts : e = DynamicExt => list[e] = Catalog!DynamicOffer
    BY <2>1 DEF DealerList
  <2>4. IsOffered(list)' /\ Offered(list)' = Offered(list)
    BY <1>1, <1>3 DEF IsOffered, Offered, DealerList
  <2>5. RowsAre(list) => RowsAre(list)'
    BY <2>2, <2>3 DEF RowsAre
  <2> QED
    BY <2>2, <2>3, <2>4, <2>5
<1>4. MirrorIsTrue'
  BY <1>1, <1>3 DEF CatalogInv, MirrorIsTrue, Follows, Priced
<1>5. ASSUME NEW s \in Calls PROVE SyncMeans(sync[s])'
  <2>1. SyncMeans(sync[s]) /\ sync'[s] = sync[s]
    BY <1>1 DEF CatalogInv
  <2>2. /\ \A p, list : Follows(p, list)' = Follows(p, list) /\ Priced(p, list)' = Priced(p, list)
        /\ \A p, r : Awaited(p, r)' = Awaited(p, r)
    BY <1>1 DEF Follows, Priced, Awaited
  <2>3. sync[s].at = "upsert" /\ sync[s].clean => \A e \in sync[s].seen : row'[e] = sync[s].list[e]
    <3> SUFFICES ASSUME sync[s].at = "upsert" /\ sync[s].clean, NEW e \in sync[s].seen
                 PROVE  row'[e] = sync[s].list[e]
      OBVIOUS
    <3>1. IsOffered(sync[s].list) /\ e \in Offered(sync[s].list) /\ row[e] = sync[s].list[e]
      BY <2>1 DEF SyncMeans
    <3> QED
      BY <1>3, <3>1 DEF Offered
  <2> QED
    BY <1>1, <1>3, <2>1, <2>2, <2>3 DEF SyncMeans, IsList
<1> QED
  BY <1>1, <1>2, <1>4, <1>5
     DEF CatalogInv, CatalogType, IsProduct, IsList, EditMeans, OneAtATime, DealerList

\* A request of an administrator goes on, and what it saves counts as edited.
LEMMA EditStep ==
    ASSUME CatalogInv, NEW c \in Customers, NEW next, EditMeans(next),
           edit' = [edit EXCEPT ![c] = next],
           UNCHANGED <<offers, row, locked, sync, mirror>>,
           DOMAIN provider' = {"there", "active", "dealer"}, provider'.dealer = provider.dealer,
           edited \subseteq edited', DOMAIN product' = Products,
           \A p \in Products : IsProduct(product'[p]) /\ (product'[p] = product[p] \/ p \in edited')
    PROVE  CatalogInv'
<1>1. CatalogType'
  BY DEF CatalogInv, CatalogType, IsProduct, IsList, EditMeans
<1>2. OneAtATime' /\ (provider'.dealer => offers' = DealerList')
  BY DEF CatalogInv, OneAtATime, DealerList
<1>3. \A list : /\ IsOffered(list)' = IsOffered(list) /\ RowsAre(list)' = RowsAre(list)
                /\ Offered(list)' = Offered(list)
  BY DEF IsOffered, Offered, DealerList, RowsAre
<1>4. \A p \in Products \ edited' : \A list :
         Follows(p, list)' = Follows(p, list) /\ Priced(p, list)' = Priced(p, list)
  BY DEF Follows, Priced
<1>5. \A p \in Products \ edited' : \A r : Awaited(p, r)' = Awaited(p, r)
  BY DEF Awaited
<1>6. MirrorIsTrue'
  BY <1>3, <1>4 DEF CatalogInv, MirrorIsTrue
<1>7. ASSUME NEW s \in Calls PROVE SyncMeans(sync[s])'
  <2>1. SyncMeans(sync[s]) /\ sync'[s] = sync[s]
    BY DEF CatalogInv
  <2> QED
    BY <1>3, <1>4, <1>5, <2>1 DEF SyncMeans, IsList
<1> QED
  BY <1>1, <1>2, <1>6, <1>7 DEF CatalogInv

LEMMA EditReadsStep ==
    ASSUME CatalogInv, NEW c \in Customers,
           \/ \E mode \in {"manual", "sync"}, markup \in Markups, sent \in Prices :
                 \/ \E e \in Exts : Catalog!ReadRow(c, e, mode, markup, sent)
                 \/ \E e \in Exts \cup {None}, nobility \in BOOLEAN :
                       Catalog!ReadForCreate(c, e, mode, markup, sent, nobility)
           \/ Catalog!CheckPublished(c)
    PROVE  CatalogInv'
<1>1. PICK next : EditMeans(next) /\ edit' = [edit EXCEPT ![c] = next]
  <2>1. /\ DOMAIN Catalog!IdleCall = {"at", "product", "link", "set"}
        /\ Catalog!IdleCall.at = "idle" /\ EditMeans(edit[c])
    BY DEF Catalog!IdleCall, CatalogInv, CatalogType
  <2>2. ASSUME NEW mode, NEW markup, NEW sent, NEW e \in Exts,
               Catalog!ReadRow(c, e, mode, markup, sent)
        PROVE  \E next : EditMeans(next) /\ edit' = [edit EXCEPT ![c] = next]
    <3>1. PICK d : d = [Catalog!Unpublished EXCEPT
               !.there = TRUE, !.active = TRUE, !.link = e, !.mode = mode, !.follow = TRUE,
               !.markup = markup, !.price = Catalog!NewPrice(e, mode, markup, sent),
               !.providerPrice = row[e].price]
      OBVIOUS
    <3>2. IsProduct(d)
      BY <3>1 DEF Catalog!Unpublished, IsProduct, ProductFields
    <3>3. PICK next : next = [Catalog!IdleCall EXCEPT !.at = "check", !.link = e, !.set = d]
      OBVIOUS
    <3>4. EditMeans(next)
      BY <2>1, <3>2, <3>3 DEF EditMeans
    <3>5. edit' = [edit EXCEPT ![c] = next]
      BY <2>2, <3>1, <3>3 DEF Catalog!ReadRow, Catalog!CallTo
    <3> QED
      BY <3>4, <3>5
  <2>3. ASSUME NEW mode, NEW markup, NEW sent, NEW e \in Exts \cup {None}, NEW nobility,
               Catalog!ReadForCreate(c, e, mode, markup, sent, nobility)
        PROVE  \E next : EditMeans(next) /\ edit' = [edit EXCEPT ![c] = next]
    <3>1. PICK d : d = [Catalog!Unpublished EXCEPT
               !.there = TRUE, !.active = TRUE, !.link = e, !.mode = mode, !.follow = TRUE,
               !.nobility = nobility, !.markup = markup,
               !.price = IF nobility THEN sent ELSE Catalog!NewPrice(e, mode, markup, sent),
               !.providerPrice = IF e = None \/ nobility THEN None ELSE row[e].price]
      OBVIOUS
    <3>2. IsProduct(d)
      BY <3>1 DEF Catalog!Unpublished, IsProduct, ProductFields
    <3>3. PICK next : next = [Catalog!IdleCall EXCEPT !.at = "create", !.link = e, !.set = d]
      OBVIOUS
    <3>4. EditMeans(next)
      BY <2>1, <3>2, <3>3 DEF EditMeans
    <3>5. edit' = [edit EXCEPT ![c] = next]
      BY <2>3, <3>1, <3>3 DEF Catalog!ReadForCreate, Catalog!CallTo
    <3> QED
      BY <3>4, <3>5
  <2>4. CASE Catalog!CheckPublished(c)
    <3>1. PICK next : next = [edit[c] EXCEPT !.at = "create"]
      OBVIOUS
    <3>2. edit[c].at = "check" /\ \/ edit' = [edit EXCEPT ![c] = Catalog!IdleCall]
                                  \/ edit' = [edit EXCEPT ![c] = next]
      BY <2>4, <3>1 DEF Catalog!CheckPublished, Catalog!CallTo
    <3>3. EditMeans(next) /\ EditMeans(Catalog!IdleCall)
      BY <2>1, <3>1, <3>2 DEF EditMeans
    <3> QED
      BY <3>2, <3>3
  <2> QED
    BY <2>2, <2>3, <2>4
<1>2. UNCHANGED <<provider, offers, row, product, locked, sync, mirror, edited>>
  <2>1. ASSUME NEW mode, NEW markup, NEW sent, NEW e, Catalog!ReadRow(c, e, mode, markup, sent)
        PROVE  UNCHANGED <<provider, offers, row, product, locked, sync, mirror, edited>>
    BY <2>1 DEF Catalog!ReadRow
  <2>2. ASSUME NEW mode, NEW markup, NEW sent, NEW e, NEW nobility,
               Catalog!ReadForCreate(c, e, mode, markup, sent, nobility)
        PROVE  UNCHANGED <<provider, offers, row, product, locked, sync, mirror, edited>>
    BY <2>2 DEF Catalog!ReadForCreate
  <2>3. CASE Catalog!CheckPublished(c)
    BY <2>3 DEF Catalog!CheckPublished
  <2> QED
    BY <2>1, <2>2, <2>3
<1> QED
  BY <1>1, <1>2, EditStep DEF CatalogInv, CatalogType, IsProduct

LEMMA EditUpdateStep ==
    ASSUME CatalogInv, NEW c \in Customers, NEW p \in Products,
           \/ Catalog!ReadForStatus(c, p)
           \/ \E patch \in Catalog!Patches : Catalog!ReadForUpdate(c, p, patch)
    PROVE  CatalogInv'
<1>1. /\ DOMAIN Catalog!IdleCall = {"at", "product", "link", "set"}
      /\ IsProduct(product[p])
  BY DEF Catalog!IdleCall, CatalogInv, CatalogType
<1>2. ASSUME NEW set, "link" \in DOMAIN set => set["link"] \in Exts \cup {None}
      PROVE  EditMeans([Catalog!IdleCall EXCEPT !.at = "save", !.product = p, !.set = set])
  BY <1>1, <1>2 DEF EditMeans
<1>3. \E set : /\ "link" \in DOMAIN set => set["link"] \in Exts \cup {None}
               /\ edit' = [edit EXCEPT ![c] = [Catalog!IdleCall EXCEPT
                              !.at = "save", !.product = p, !.set = set]]
  <2>1. CASE Catalog!ReadForStatus(c, p)
    <3>1. PICK set \in {[active |-> ~product[p].active],
                        Catalog!Changed(product[p], [product[p] EXCEPT !.deleted = TRUE,
                                                                       !.active = FALSE])} :
             edit' = [edit EXCEPT ![c] = [Catalog!IdleCall EXCEPT
                                              !.at = "save", !.product = p, !.set = set]]
      BY <2>1 DEF Catalog!ReadForStatus, Catalog!CallTo
    <3>2. "link" \notin DOMAIN set
      <4>1. "link" \notin DOMAIN [active |-> ~product[p].active]
        OBVIOUS
      <4>2. PICK d : d = [product[p] EXCEPT !.deleted = TRUE, !.active = FALSE]
        OBVIOUS
      <4>3. d["link"] = product[p]["link"]
        BY <1>1, <4>2 DEF IsProduct, ProductFields
      <4>4. "link" \notin DOMAIN Catalog!Changed(product[p], d)
        BY <4>3 DEF Catalog!Changed
      <4> QED
        BY <3>1, <4>1, <4>2, <4>4
    <3> QED
      BY <3>1, <3>2
  <2>2. ASSUME NEW patch \in Catalog!Patches, Catalog!ReadForUpdate(c, p, patch)
        PROVE  \E set : /\ "link" \in DOMAIN set => set["link"] \in Exts \cup {None}
                        /\ edit' = [edit EXCEPT ![c] = [Catalog!IdleCall EXCEPT
                                       !.at = "save", !.product = p, !.set = set]]
    <3>1. PICK new : new = Catalog!Updated(product[p], patch,
                              Catalog!RowOf(Catalog!Sent(patch.link, product[p].link)))
      OBVIOUS
    <3>2. patch.link \in Exts \cup {None}
      BY DEF Catalog!Patches, Catalog!NoPatch
    <3>3. new["link"] = Catalog!Sent(patch.link, product[p].link)
      BY <1>1, <3>1 DEF Catalog!Updated, IsProduct, ProductFields
    <3>4. new["link"] \in Exts \cup {None}
      BY <1>1, <3>2, <3>3 DEF Catalog!Sent, IsProduct
    <3>5. PICK set : set = Catalog!Changed(product[p], new)
      OBVIOUS
    <3>6. "link" \in DOMAIN set => set["link"] \in Exts \cup {None}
      BY <3>4, <3>5 DEF Catalog!Changed
    <3>7. edit' = [edit EXCEPT ![c] = [Catalog!IdleCall EXCEPT
                                           !.at = "save", !.product = p, !.set = set]]
      BY <2>2, <3>1, <3>5 DEF Catalog!ReadForUpdate, Catalog!CallTo
    <3> QED
      BY <3>6, <3>7
  <2> QED
    BY <2>1, <2>2
<1>4. UNCHANGED <<provider, offers, row, product, locked, sync, mirror, edited>>
  BY DEF Catalog!ReadForStatus, Catalog!ReadForUpdate
<1> QED
  BY <1>2, <1>3, <1>4, EditStep DEF CatalogInv, CatalogType, IsProduct

LEMMA EditSavesStep ==
    ASSUME CatalogInv, NEW c \in Customers,
           \/ Catalog!Create(c) \/ Catalog!Save(c) \/ Catalog!BeginDelete(c)
           \/ Catalog!Detach(c) \/ Catalog!RemoveProvider(c)
    PROVE  CatalogInv'
<1>1. /\ DOMAIN Catalog!IdleCall = {"at", "product", "link", "set"}
      /\ Catalog!IdleCall.at = "idle" /\ EditMeans(edit[c])
      /\ DOMAIN product = Products /\ \A p \in Products : IsProduct(product[p])
      /\ DOMAIN provider = {"there", "active", "dealer"}
  BY DEF Catalog!IdleCall, CatalogInv, CatalogType
<1>2. EditMeans(Catalog!IdleCall)
  BY <1>1 DEF EditMeans
<1>3. UNCHANGED <<offers, row, locked, sync, mirror>>
  BY DEF Catalog!Create, Catalog!Save, Catalog!BeginDelete, Catalog!Detach,
         Catalog!RemoveProvider
<1>4. CASE Catalog!Create(c)
  <2>1. PICK p \in Products : /\ product' = [product EXCEPT ![p] = edit[c].set]
                              /\ edited' = edited \cup {p}
    BY <1>4 DEF Catalog!Create
  <2>2. IsProduct(edit[c].set) /\ edit' = [edit EXCEPT ![c] = Catalog!IdleCall]
        /\ UNCHANGED provider
    BY <1>1, <1>4 DEF Catalog!Create, Catalog!CallTo, EditMeans
  <2> QED
    BY <1>1, <1>2, <1>3, <2>1, <2>2, EditStep
<1>5. CASE Catalog!Save(c)
  <2>1. PICK p, set : p = edit[c].product /\ set = edit[c].set
    OBVIOUS
  <2>2. PICK d : d = [f \in DOMAIN product[p] |-> IF f \in DOMAIN set THEN set[f]
                                                   ELSE product[p][f]]
    OBVIOUS
  <2>3. /\ product' = [product EXCEPT ![p] = d] /\ edited' = edited \cup {p}
        /\ edit' = [edit EXCEPT ![c] = Catalog!IdleCall] /\ UNCHANGED provider
        /\ edit[c].at = "save"
    BY <1>5, <2>1, <2>2 DEF Catalog!Save, Catalog!CallTo
  <2>4. p \in Products => IsProduct(d)
    <3>1. ASSUME p \in Products PROVE DOMAIN d = ProductFields
      BY <1>1, <2>2, <3>1 DEF IsProduct
    <3>2. ASSUME p \in Products PROVE d["link"] \in Exts \cup {None}
      BY <1>1, <2>1, <2>2, <2>3, <3>2 DEF EditMeans, IsProduct, ProductFields
    <3> QED
      BY <3>1, <3>2 DEF IsProduct
  <2> QED
    BY <1>1, <1>2, <1>3, <2>3, <2>4, EditStep
<1>6. CASE Catalog!BeginDelete(c) \/ Catalog!RemoveProvider(c)
  <2> PICK ids : ids = {e \in Exts : row[e] # None}
    OBVIOUS
  <2>1. /\ \/ edit' = [edit EXCEPT ![c] = [Catalog!IdleCall EXCEPT !.at = "detach", !.set = ids]]
           \/ edit' = [edit EXCEPT ![c] = Catalog!IdleCall]
        /\ UNCHANGED <<product, edited>>
        /\ provider' = provider \/ provider' = [provider EXCEPT !.there = FALSE]
    BY <1>6 DEF Catalog!BeginDelete, Catalog!RemoveProvider, Catalog!CallTo
  <2>2. EditMeans([Catalog!IdleCall EXCEPT !.at = "detach", !.set = ids])
    BY <1>1 DEF EditMeans
  <2>3. DOMAIN provider' = {"there", "active", "dealer"} /\ provider'.dealer = provider.dealer
    BY <1>1, <2>1
  <2> QED
    BY <1>1, <1>2, <1>3, <2>1, <2>2, <2>3, EditStep
<1>7. CASE Catalog!Detach(c)
  <2>2. PICK next : next = [edit[c] EXCEPT !.at = "remove"]
    OBVIOUS
  <2>3. PICK linked \in SUBSET Products :
        /\ product' = [p \in Products |->
              IF p \in linked
              THEN [product[p] EXCEPT !.link = None, !.mode = "manual", !.follow = FALSE,
                                      !.adjusted = FALSE, !.providerPrice = None]
              ELSE product[p]]
        /\ edited' = edited \cup linked /\ edit' = [edit EXCEPT ![c] = next]
        /\ UNCHANGED provider /\ edit[c].at = "detach"
    BY <1>7, <2>2 DEF Catalog!Detach, Catalog!CallTo
  <2>4. EditMeans(next)
    BY <1>1, <2>2 DEF EditMeans
  <2>5. \A p \in Products : IsProduct(product'[p]) /\ (product'[p] = product[p] \/ p \in edited')
    BY <1>1, <2>3 DEF IsProduct, ProductFields
  <2> QED
    BY <1>1, <1>3, <2>3, <2>4, <2>5, EditStep
<1> QED
  BY <1>4, <1>5, <1>6, <1>7

LEMMA SurroundingStep ==
    ASSUME CatalogInv,
           \/ Catalog!ToggleProvider \/ Catalog!UpstreamChange \/ Catalog!Restart
           \/ UNCHANGED Catalog!vars
    PROVE  CatalogInv'
<1>1. /\ UNCHANGED <<row, product, mirror, edited>>
      /\ DOMAIN provider' = {"there", "active", "dealer"} /\ provider'.dealer = provider.dealer
  <2>1. UNCHANGED <<row, product, mirror, edited>>
        /\ (provider' = provider \/ provider' = [provider EXCEPT !.active = ~@])
    BY DEF Catalog!ToggleProvider, Catalog!UpstreamChange, Catalog!Restart, Catalog!vars
  <2> QED
    BY <2>1 DEF CatalogInv, CatalogType
<1>2. MirrorIsTrue'
  BY <1>1, SameMirror DEF CatalogInv, Surroundings
<1>3. IsList(offers') /\ (provider'.dealer => offers' = DealerList')
  <2>1. CASE Catalog!UpstreamChange
    <3>1. PICK e \in Exts, o \in Catalog!Offers \cup {None} : offers' = [offers EXCEPT ![e] = o]
      BY <2>1 DEF Catalog!UpstreamChange
    <3>2. o = None \/ DOMAIN o = {"price", "active"}
      BY DEF Catalog!Offers
    <3>3. ~provider.dealer
      BY <2>1 DEF Catalog!UpstreamChange
    <3> QED
      BY <1>1, <3>1, <3>2, <3>3 DEF CatalogInv, CatalogType, IsList
  <2>2. CASE ~Catalog!UpstreamChange
    BY <1>1, <2>2 DEF Catalog!ToggleProvider, Catalog!Restart, Catalog!vars, CatalogInv,
                      CatalogType, IsList, DealerList
  <2> QED
    BY <2>1, <2>2
<1>4. CASE Catalog!Restart
  <2>1. /\ locked' = FALSE /\ sync' = [s \in Calls |-> Catalog!IdleSync]
        /\ edit' = [c \in Customers |-> Catalog!IdleCall]
    BY <1>4 DEF Catalog!Restart
  <2>2. /\ DOMAIN Catalog!IdleSync = SyncFields /\ Catalog!IdleSync.at = "idle"
        /\ DOMAIN Catalog!IdleCall = {"at", "product", "link", "set"}
        /\ Catalog!IdleCall.at = "idle"
    BY DEF Catalog!IdleSync, Catalog!IdleCall, SyncFields
  <2>3. OneAtATime' /\ \A s \in Calls : SyncMeans(sync[s])'
    BY <2>1, <2>2 DEF OneAtATime, SyncMeans
  <2>4. CatalogType'
    BY <1>1, <1>3, <2>1, <2>2 DEF CatalogInv, CatalogType, IsProduct, IsList, EditMeans
  <2> QED
    BY <1>2, <1>3, <2>3, <2>4 DEF CatalogInv
<1>5. CASE ~Catalog!Restart
  <2>1. UNCHANGED <<locked, sync, edit>>
    BY <1>5 DEF Catalog!ToggleProvider, Catalog!UpstreamChange, Catalog!vars
  <2>2. OneAtATime' /\ CatalogType'
    BY <1>1, <1>3, <2>1 DEF CatalogInv, OneAtATime, CatalogType, IsProduct, IsList, EditMeans
  <2>3. \A s \in Calls : SyncMeans(sync[s])'
    BY <1>1, <2>1, SameMeaning DEF CatalogInv, Surroundings
  <2> QED
    BY <1>2, <1>3, <2>2, <2>3 DEF CatalogInv
<1> QED
  BY <1>4, <1>5

\* However a synchronisation, the administrators' edits and restarts overlap: after a
\* clean one, rows and unedited products say what it was told, until the next fetch,
\* and its lock is held exactly while one is in flight (syncProviderProducts).
THEOREM CatalogueMirrors == Catalog!Spec => []SyncMirrors
<1> USE ProvidersAssumption
<1>1. Catalog!Init => CatalogInv
  BY CatalogInit
<1>2. CatalogInv /\ [Catalog!Next]_Catalog!vars => CatalogInv'
  BY SyncBeginsOrEnds, FetchedStep, UpsertStep, DeactivateStep, FindFollowersStep,
     SyncPriceStep,
     FinishStep, DynamicStep, EditReadsStep, EditUpdateStep, EditSavesStep, SurroundingStep
     DEF Catalog!Next, Catalog!SyncStep, Catalog!CallStep
<1> QED
  BY <1>1, <1>2, CatalogInvIsSound, PTL DEF Catalog!Spec
================================================================================
