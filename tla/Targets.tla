--------------------------------- MODULE Targets ---------------------------------
(***************************************************************************)
(* Orders for targets: a customer sends coins to an account of an app's,   *)
(* uploads the proof, and an administrator reviews it.  A handler reads app*)
(* and payment settings, looks its idempotency key up, and inserts; the    *)
(* unique index on customer and key decides between equal requests.        *)
(***************************************************************************)
EXTENDS Naturals, FiniteSets

CONSTANTS Calls, Customers, Orders, Bodies, Keys, None,
          Prices, Accounts, Methods,
          MaxRequests, MaxSettings \* bounds

VARIABLES app,      \* TargetApp: unitPrice, targetAccountId, allowed methods, isActive
          enabled,  \* methods that the payment settings have active
          order,    \* TargetOrder
          files,    \* uploaded proofs, named by their request
          call, requests, settings,
          answers,  \* orders returned for a key (history)
          reviews   \* decisions (history)

vars == <<app, enabled, order, files, call, requests, settings, answers, reviews>>

NoOrder == [status |-> "none"]
Existing == {o \in Orders : order[o].status # "none"}

Init ==
    /\ app \in [price : Prices, account : Accounts, methods : {Methods}, active : {TRUE}]
    /\ enabled = Methods
    /\ order = [o \in Orders |-> NoOrder]
    /\ files = {} /\ answers = {} /\ reviews = {}
    /\ call = [k \in Calls |-> [at |-> "idle"]]
    /\ requests = 0 /\ settings = 0

Goes(k, next) == call' = [call EXCEPT ![k] = next]
Ends(k) == Goes(k, [at |-> "idle"])

----------------------------------------------------------------------------
(* createTargetOrder *)

\* The upload, and the reads of customer and app.
Request(k) ==
    /\ call[k].at = "idle" /\ requests < MaxRequests
    /\ \E u \in Customers, y \in Keys \cup {None}, b \in Bodies, m \in Methods :
          Goes(k, [at |-> IF app.active THEN "method" ELSE "fail", file |-> requests, user |-> u,
                   key |-> y, body |-> [of |-> b, method |-> m], app |-> app])
    /\ files' = files \cup {requests}
    /\ requests' = requests + 1
    /\ UNCHANGED <<app, enabled, order, settings, answers, reviews>>

\* assertPaymentMethodAllowed
CheckMethod(k) ==
    LET me == call[k]
    IN  /\ me.at = "method"
        /\ Goes(k, [me EXCEPT !.at = IF me.body.method \in enabled \cap me.app.methods
                                     THEN (IF me.key = None THEN "insert" ELSE "lookup")
                                     ELSE "fail"])
        /\ UNCHANGED <<app, enabled, order, files, requests, settings, answers, reviews>>

WithKey(u, y) == {o \in Existing : y # None /\ order[o].user = u /\ order[o].key = y}

\* The fingerprint of what the order says, price and account included.
SameFingerprint(o, me) ==
    /\ order[o].body = me.body
    /\ order[o].price = me.app.price /\ order[o].account = me.app.account

\* assertIdempotentReplayMatches
AnswerExisting(k, o) ==
    LET me == call[k]
    IN  /\ answers' = IF SameFingerprint(o, me)
                      THEN answers \cup {[user |-> me.user, key |-> me.key,
                                          body |-> me.body, order |-> o]}
                      ELSE answers
        /\ Goes(k, [me EXCEPT !.at = "fail"])

Lookup(k) ==
    LET me == call[k]
    IN  /\ me.at = "lookup"
        /\ \/ \E o \in WithKey(me.user, me.key) : AnswerExisting(k, o)
           \/ /\ WithKey(me.user, me.key) = {}
              /\ Goes(k, [me EXCEPT !.at = "insert"])
              /\ UNCHANGED answers
        /\ UNCHANGED <<app, enabled, order, files, requests, settings, reviews>>

Insert(k) ==
    LET me == call[k]
    IN  /\ me.at = "insert"
        /\ IF WithKey(me.user, me.key) = {}
           THEN \E o \in Orders \ Existing :
                   /\ order' = [order EXCEPT ![o] =
                         [status |-> "PENDING", user |-> me.user, key |-> me.key, body |-> me.body,
                          price |-> me.app.price, account |-> me.app.account, proof |-> me.file]]
                   /\ answers' = answers \cup {[user |-> me.user, key |-> me.key,
                                                body |-> me.body, order |-> o]}
                   /\ Ends(k)
           ELSE Goes(k, [me EXCEPT !.at = "duplicate"]) /\ UNCHANGED <<order, answers>>
        /\ UNCHANGED <<app, enabled, files, requests, settings, reviews>>

\* E11000: the order that was inserted first.
Recover(k) ==
    LET me == call[k]
    IN  /\ me.at = "duplicate"
        /\ \E o \in WithKey(me.user, me.key) : AnswerExisting(k, o)
        /\ UNCHANGED <<app, enabled, order, files, requests, settings, reviews>>

\* cleanupUploadedProof, after an error and after a replay.
Cleanup(k) ==
    /\ call[k].at = "fail"
    /\ files' = files \ {call[k].file}
    /\ Ends(k)
    /\ UNCHANGED <<app, enabled, order, requests, settings, answers, reviews>>

----------------------------------------------------------------------------
(* approveTargetOrder and rejectTargetOrder *)

ReadForReview(k) ==
    /\ call[k].at = "idle" /\ requests < MaxRequests
    /\ \E o \in Existing, decision \in {"APPROVED", "REJECTED"} :
          /\ order[o].status = "PENDING"
          /\ Goes(k, [at |-> "review", order |-> o, decision |-> decision])
    /\ requests' = requests + 1
    /\ UNCHANGED <<app, enabled, order, files, settings, answers, reviews>>

MutReviewable(o) == TRUE \* Mutant: updated by _id only.

Reviewable(o) == order[o].status = "PENDING"

Review(k) ==
    LET me == call[k]
    IN  /\ me.at = "review"
        /\ IF Reviewable(me.order)
           THEN /\ order' = [order EXCEPT ![me.order].status = me.decision]
                /\ reviews' = reviews \cup {<<me.order, me.decision, k>>}
           ELSE UNCHANGED <<order, reviews>>
        /\ Ends(k)
        /\ UNCHANGED <<app, enabled, files, requests, settings, answers>>

----------------------------------------------------------------------------
(* createTargetApp, updateTargetApp, deactivateTargetApp; the payment settings *)

ChangeApp ==
    /\ settings < MaxSettings /\ settings' = settings + 1
    /\ \E f \in [price : Prices, account : Accounts, methods : {Methods}, active : BOOLEAN] :
          app' = f
    /\ UNCHANGED <<enabled, order, files, call, requests, answers, reviews>>

ChangePaymentSettings ==
    /\ settings < MaxSettings /\ settings' = settings + 1
    /\ enabled' \in SUBSET Methods
    /\ UNCHANGED <<app, order, files, call, requests, answers, reviews>>

Next ==
    \/ \E k \in Calls :
          \/ Request(k) \/ CheckMethod(k) \/ Lookup(k) \/ Insert(k) \/ Recover(k) \/ Cleanup(k)
          \/ ReadForReview(k) \/ Review(k)
    \/ ChangeApp \/ ChangePaymentSettings

Spec == Init /\ [][Next]_vars

----------------------------------------------------------------------------
(* Properties *)

\* Requests with one key are answered with one order, that of the body they all have.
OneOrderPerKey == \A a, b \in answers :
    a.key # None /\ a.key = b.key /\ a.user = b.user => a.order = b.order /\ a.body = b.body

\* An order has its proof, and a proof that nobody needs is removed.
ProofsKept ==
    /\ \A o \in Existing : order[o].proof \in files
    /\ \A f \in files : \/ \E o \in Existing : order[o].proof = f
                        \/ \E k \in Calls : call[k].at \notin {"idle", "review"} /\ call[k].file = f

\* However administrators overlap, an order is decided once.
ReviewedOnce == \A o \in Existing :
    LET decided == {r \in reviews : r[1] = o}
    IN  IF order[o].status = "PENDING" THEN decided = {}
        ELSE Cardinality(decided) = 1 /\ \A r \in decided : r[2] = order[o].status

TargetOrdersSound == OneOrderPerKey /\ ProofsKept /\ ReviewedOnce
================================================================================
