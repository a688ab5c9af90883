--------------------------- MODULE ProviderAnswers ---------------------------
(***************************************************************************)
(* What the provider adapters make of a provider's answers.  A provider    *)
(* accepts or rejects an order and then finishes or cancels it, in words   *)
(* of its own; the answer to the placement may be lost, or lack an order   *)
(* number.  Each adapter turns answers into a result, its words pass       *)
(* through statusMapper, and the order is settled by what comes out.       *)
(*                                                                         *)
(* Words are in lower case, as every table compares them.                  *)
(***************************************************************************)
EXTENDS Naturals

CONSTANTS Orders, None

VARIABLES
  adapter,    \* the adapter the factory chose for the provider
  upstream,   \* Orders -> what the provider has done
  order       \* Orders -> [at, status, word, id, blind]

vars == <<adapter, upstream, order>>

Adapters == {"royal-crown", "toros", "alkasr", "ibra", "dealer", "canonical-b2b", "hago",
             "inchill"}

----------------------------------------------------------------------------
(* statusMapper                                                            *)

CompletedWords == {"completed", "complete", "success", "done", "accept", "accepted", "ok",
                   "delivered", "fulfilled"}
WaitingWords == {"processing", "in_progress", "in progress", "inprogress", "in_process",
                 "running", "active", "pending", "queued", "wait", "waiting", "awaiting",
                 "placement_uncertain", "new", "created"}
PartialWords  == {"partial", "partially_completed", "partial_complete"}
CanceledWords == {"cancelled", "canceled", "cancel"}
FailedWords   == {"failed", "fail", "error", "rejected", "reject", "refunded", "expired"}

\* A word that is in no table is taken for work in progress.
toInternalStatus(word) ==
  CASE word \in CompletedWords -> "COMPLETED"
    [] word \in PartialWords   -> "PARTIAL"
    [] word \in CanceledWords  -> "CANCELED"
    [] word \in FailedWords    -> "FAILED"
    [] OTHER                   -> "PROCESSING"

isTerminal(word) == toInternalStatus(word) # "PROCESSING"

requiresRefund(word) == word \in CanceledWords \cup FailedWords \cup PartialWords

----------------------------------------------------------------------------
(* The adapters' own vocabularies                                          *)

TorosStatus(word) ==
  CASE word \in {"completed", "complete", "success", "done", "ok", "delivered"} -> "completed"
    [] word \in {"cancelled", "canceled", "cancel", "failed", "fail", "error", "reject",
                 "rejected"} -> "cancelled"
    [] OTHER -> "pending"

AlkasrStatus(word) ==
  CASE word \in {"accept", "accepted", "success", "ok", "done", "complete", "completed"} ->
         "completed"
    [] word \in {"wait", "waiting", "processing", "pending", "in_process", "in_progress",
                 "queued"} -> "pending"
    [] OTHER -> "cancelled"

IbraStatus(word) ==
  CASE word \in {"completed", "complete", "done", "success", "accepted", "accept", "ok"} ->
         "completed"
    [] word \in {"cancelled", "canceled", "failed", "error", "rejected", "reject",
                 "refunded"} -> "cancelled"
    [] OTHER -> word

\* providerStatus of an answer; a dealer's sale has no status but success.
ProviderStatus(a, word) ==
  CASE a = "toros"  -> TorosStatus(word)
    [] a = "alkasr" -> AlkasrStatus(word)
    [] a = "ibra"   -> IbraStatus(word)
    [] a = "dealer" -> "completed"
    [] OTHER        -> word

\* The words a provider has for each phase, as the adapters document them.
Vocabulary(a, phase) ==
  CASE phase = "working" ->
         (CASE a = "alkasr" -> {"wait", "waiting", "processing", "pending", "in_process"}
            [] a = "toros"  -> {"processing", "pending", "queued"}
            [] a = "ibra"   -> {"pending", "processing"}
            [] a = "canonical-b2b" -> {"wait"}
            [] OTHER -> {"pending"})
    [] phase = "done" ->
         (CASE a = "alkasr" -> {"accept", "accepted", "success", "done", "ok"}
            [] a = "toros"  -> {"completed", "success", "done"}
            [] a = "ibra"   -> {"completed", "done", "accepted"}
            [] a = "canonical-b2b" -> {"accept"}
            [] OTHER -> {"completed"})
    [] OTHER ->
         (CASE a = "alkasr" -> {"reject", "rejected", "failed", "error", "cancelled", "cancel"}
            [] a = "toros"  -> {"failed", "rejected", "error", "cancelled"}
            [] a = "ibra"   -> {"cancelled", "failed", "rejected", "refunded"}
            [] a = "canonical-b2b" -> {"reject"}
            [] OTHER -> {"cancelled"})

----------------------------------------------------------------------------
Init ==
  /\ adapter \in Adapters
  /\ upstream = [o \in Orders |-> "none"]
  /\ order = [o \in Orders |-> [at |-> "new", status |-> "PENDING", word |-> None, id |-> FALSE,
                                blind |-> FALSE]]

TypeOK ==
  /\ adapter \in Adapters
  /\ upstream \in [Orders -> {"none", "sent", "lost", "working", "done", "dead"}]
  /\ \A o \in Orders :
       /\ order[o].at \in {"new", "wait", "lookup", "placed"}
       /\ order[o].status \in {"PENDING", "PROCESSING", "COMPLETED", "PARTIAL", "CANCELED",
                               "FAILED"}

\* executeOrder on the adapter's result.
Placed(o, success, word, id) ==
  order' = [order EXCEPT ![o].at = "placed", ![o].word = word, ![o].id = id,
                         ![o].status = IF success THEN toInternalStatus(word) ELSE "FAILED"]
\* The same, on an answer that does not tell what the provider did.
PlacedBlind(o) ==
  order' = [order EXCEPT ![o].at = "placed", ![o].word = "cancelled", ![o].status = "FAILED",
                         ![o].blind = TRUE]

\* Adapters that look for a target and find none refuse before any request;
\* Hago's and Inchill's ordinary entry points always do.
Refuse(o) ==
  /\ order[o].at = "new" /\ adapter # "ibra"
  /\ Placed(o, FALSE, IF adapter = "canonical-b2b" THEN "reject" ELSE "cancelled", FALSE)
  /\ UNCHANGED <<adapter, upstream>>

PlaceOrder(o) ==
  /\ order[o].at = "new" /\ adapter \notin {"hago", "inchill"}
  /\ order' = [order EXCEPT ![o].at = "wait"]
  /\ upstream' = [upstream EXCEPT ![o] = "sent"]
  /\ UNCHANGED adapter

\* The provider takes the order, rejects it, or never sees it; a dealer sells
\* at once.
ProviderStep(o) ==
  /\ \/ /\ upstream[o] = "sent"
        /\ \E phase \in {IF adapter = "dealer" THEN "done" ELSE "working", "dead", "lost"} :
             upstream' = [upstream EXCEPT ![o] = phase]
     \/ /\ upstream[o] = "working"
        /\ \E phase \in {"done", "dead"} : upstream' = [upstream EXCEPT ![o] = phase]
  /\ UNCHANGED <<adapter, order>>

AnswerRejected(o) ==
  /\ order[o].at = "wait" /\ upstream[o] = "dead"
  /\ Placed(o, FALSE, IF adapter = "canonical-b2b" THEN "reject" ELSE "cancelled", FALSE)
  /\ UNCHANGED <<adapter, upstream>>

\* The provider knows an order of this reference.
Held(o) == upstream[o] \in {"working", "done", "dead"}

\* Alkasr takes a cancelled status for a rejection.
Accepted(word) == adapter = "alkasr" => AlkasrStatus(word) # "cancelled"

AnswerAccepted(o) ==
  /\ order[o].at = "wait" /\ Held(o)
  /\ adapter = "dealer" => upstream[o] = "done"
  /\ \E word \in Vocabulary(adapter, upstream[o]) :
       Placed(o, Accepted(word), ProviderStatus(adapter, word),
              Accepted(word) /\ adapter # "dealer")
  /\ UNCHANGED <<adapter, upstream>>

\* A success without an order number: taken for a rejection, except that Ibra
\* keeps the number it sent and a dealer has none.
AnswerWithoutId(o) ==
  /\ order[o].at = "wait" /\ upstream[o] \in {"working", "done"}
  /\ adapter \notin {"dealer", "ibra"}
  /\ PlacedBlind(o)
  /\ UNCHANGED <<adapter, upstream>>

Faults == {"timeout", "reset", "5xx"}

\* Canonical: these leave open whether the order exists.
\* A variant that forgets the answers with a server error.
MutUncertain(fault) == fault \in {"timeout", "reset"}
Uncertain(fault) == fault \in Faults

\* No answer.  Canonical asks for its reference, the others report a
\* cancelled order.
AnswerLost(o) ==
  /\ order[o].at = "wait"
  /\ \E fault \in Faults :
       IF adapter = "canonical-b2b"
       THEN IF Uncertain(fault)
            THEN order' = [order EXCEPT ![o].at = "lookup"]
            ELSE Placed(o, FALSE, "reject", FALSE)
       ELSE PlacedBlind(o)
  /\ UNCHANGED <<adapter, upstream>>

\* checkOrderByReference, once: found, or the outcome stays unknown.
Lookup(o) ==
  /\ order[o].at = "lookup"
  /\ \/ Held(o) /\ \E word \in Vocabulary(adapter, upstream[o]) : Placed(o, TRUE, word, TRUE)
     \/ Placed(o, TRUE, "placement_uncertain", FALSE)
  /\ UNCHANGED <<adapter, upstream>>

\* processOrderStatusResult on a word.
Settled(o, word) ==
  [order[o] EXCEPT !.word = word, !.id = TRUE,
                   !.status = IF ~isTerminal(word) THEN "PROCESSING"
                              ELSE IF ~requiresRefund(word) THEN "COMPLETED"
                              ELSE IF toInternalStatus(word) = "PROCESSING" THEN "FAILED"
                              ELSE toInternalStatus(word)]

\* The scan for uncertain placements asks for the reference again.
Recover(o) ==
  /\ adapter = "canonical-b2b" /\ order[o].at = "placed"
  /\ order[o].status = "PROCESSING" /\ order[o].word = "placement_uncertain" /\ ~order[o].id
  /\ Held(o)
  /\ \E word \in Vocabulary(adapter, upstream[o]) : order' = [order EXCEPT ![o] = Settled(o, word)]
  /\ UNCHANGED <<adapter, upstream>>

\* checkOrders on the orders in progress: the answer may leave some out.
Due(o) == order[o].at = "placed" /\ order[o].status = "PROCESSING" /\ order[o].id

checkOrders ==
  /\ \E listed \in SUBSET {o \in Orders : Due(o) /\ Held(o)} :
       /\ listed # {}
       /\ \E said \in [listed -> UNION {Vocabulary(adapter, upstream[o]) : o \in listed}] :
            /\ \A o \in listed : said[o] \in Vocabulary(adapter, upstream[o])
            /\ order' = [o \in Orders |-> IF o \in listed
                                          THEN Settled(o, ProviderStatus(adapter, said[o]))
                                          ELSE order[o]]
  /\ UNCHANGED <<adapter, upstream>>

Next ==
  \/ \E o \in Orders : \/ Refuse(o) \/ PlaceOrder(o) \/ ProviderStep(o)
                       \/ AnswerRejected(o) \/ AnswerAccepted(o) \/ AnswerWithoutId(o)
                       \/ AnswerLost(o) \/ Lookup(o) \/ Recover(o)
  \/ checkOrders

Spec == Init /\ [][Next]_vars

----------------------------------------------------------------------------
\* An order is completed only when the provider delivered it, and failed or
\* cancelled, hence refunded, only when the provider holds no live order for
\* it, unless an adapter other than Canonical lost the answer, or an answer
\* came without its order number.
AnswersSound ==
  \A o \in Orders :
    /\ order[o].status = "COMPLETED" => upstream[o] = "done"
    /\ order[o].status \in {"FAILED", "CANCELED", "PARTIAL"} /\ ~order[o].blind
       => upstream[o] \in {"none", "lost", "dead"}
============================================================================
