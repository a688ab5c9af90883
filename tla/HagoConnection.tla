--------------------------- MODULE HagoConnection ---------------------------
(***************************************************************************)
(* The primary Hago connection of the provider (providers/hago/hago-       *)
(* Connection.service): a login challenge is asked for, its OTP verified,  *)
(* the session validated.  Every operation loads the document, awaits Hago *)
(* and then saves the paths it changed in its own copy; only verification  *)
(* ends in a conditional update.  A connection id is named by the          *)
(* challenge it was made from.                                             *)
(***************************************************************************)
EXTENDS Integers, FiniteSets

CONSTANTS
    Calls,
    MaxChallenges,   \* bound: challenges Hago hands out
    MaxRequests,     \* bound
    None

VARIABLES
    connection,   \* the document: connectionId, pendingChallenge, connectionStatus
    expired,      \* challenges whose time is over
    issued,       \* challenges handed out
    call,         \* what each request awaits, and its copy of the document
    requests,     \* bounded
    latest,       \* the challenge stored last
    verified,     \* the challenge that was the latest when the connection was made
    rejected,     \* connections Hago refused
    crossed       \* a verification ended while a validation was under way

connectionVars == <<connection, expired, issued, call, requests, latest, verified, rejected, crossed>>

Challenges == 1..MaxChallenges
Idle == [at |-> "idle", copy |-> [id |-> None, pending |-> None, status |-> "UNKNOWN"]]
Valid(challenge) == challenge # None /\ challenge \notin expired

Init ==
    /\ connection = Idle.copy
    /\ expired = {}
    /\ issued = {}
    /\ call = [c \in Calls |-> Idle]
    /\ requests = 0
    /\ latest = None
    /\ verified = None
    /\ rejected = {}
    /\ crossed = FALSE

Begin(c) == call[c].at = "idle" /\ requests < MaxRequests /\ requests' = requests + 1
Await(c, at, copy) == call' = [call EXCEPT ![c] = [at |-> at, copy |-> copy]]
Return(c) == call' = [call EXCEPT ![c] = Idle]
Untouched == UNCHANGED <<latest, verified, rejected, crossed>>

\* save() writes the paths that differ from what was loaded.
Saved(loaded, copy) ==
    [id      |-> IF copy.id # loaded.id THEN copy.id ELSE connection.id,
     pending |-> IF copy.pending # loaded.pending THEN copy.pending ELSE connection.pending,
     status  |-> IF copy.status # loaded.status THEN copy.status ELSE connection.status]

\* What _normalizeDisconnectedOtpPending and _clearInvalidPendingChallenge make of a document.
Tidied(doc) ==
    IF doc.pending # None /\ ~Valid(doc.pending)
    THEN [doc EXCEPT !.pending = None,
            !.status = IF doc.id = None \/ @ = "OTP_PENDING" THEN "UNKNOWN" ELSE @]
    ELSE doc
Normalised(doc) ==
    IF doc.id = None /\ doc.pending = None /\ doc.status = "OTP_PENDING"
    THEN [doc EXCEPT !.status = "UNKNOWN"] ELSE doc

\* createLoginChallenge up to its call of Hago; a document that needs it is tidied first.
CreateLoginChallenge(c) ==
    /\ Begin(c)
    /\ ~Valid(connection.pending)
    /\ Await(c, IF Tidied(Normalised(connection)) = connection THEN "challenge" ELSE "tidy", connection)
    /\ UNCHANGED <<connection, expired, issued>> /\ Untouched

Tidy(c) ==
    LET loaded == call[c].copy
        tidied == Tidied(Normalised(loaded)) IN
    /\ call[c].at \in {"tidy", "clear"}
    /\ connection' = Saved(loaded, tidied)
    /\ IF call[c].at = "tidy" THEN Await(c, "challenge", tidied) ELSE Return(c)
    /\ UNCHANGED <<expired, issued, requests>> /\ Untouched

\* Hago's answer: a challenge, which is saved over whatever is there, or an error.
Challenged(c) ==
    LET loaded == call[c].copy IN
    /\ call[c].at = "challenge"
    /\ \/ \E n \in Challenges \ issued :
            /\ \A m \in Challenges \ issued : n <= m
            /\ issued' = issued \cup {n}
            /\ connection' = Saved(loaded, [loaded EXCEPT !.pending = n,
                                   !.status = IF loaded.id = None THEN "OTP_PENDING" ELSE @])
            /\ latest' = n
       \/ UNCHANGED <<connection, issued, latest>>
    /\ Return(c)
    /\ UNCHANGED <<expired, requests, verified, rejected, crossed>>

\* verifyLoginChallenge: an expired challenge is only cleared.
VerifyLoginChallenge(c) ==
    /\ Begin(c)
    /\ connection.pending # None
    /\ Await(c, IF Valid(connection.pending) THEN "verify" ELSE "clear", connection)
    /\ UNCHANGED <<connection, expired, issued>> /\ Untouched

\* The filter of the update: the challenge verified is still the pending one.
MutStillPending(challenge) == TRUE
StillPending(challenge) == connection.pending = challenge

Verified(c) ==
    LET challenge == call[c].copy.pending IN
    /\ call[c].at = "verify"
    /\ \/ /\ StillPending(challenge)
          /\ connection' = [id |-> challenge, pending |-> None, status |-> "CONNECTED"]
          /\ verified' = latest
          /\ crossed' = (crossed \/ \E d \in Calls : call[d].at = "validate")
       \/ UNCHANGED <<connection, verified, crossed>>
    /\ Return(c)
    /\ UNCHANGED <<expired, issued, requests, latest, rejected>>

\* getConnection clears an expired challenge of its own copy.
GetConnection(c) ==
    /\ Begin(c)
    /\ Tidied(connection) # connection
    /\ Await(c, "clear", connection)
    /\ UNCHANGED <<connection, expired, issued>> /\ Untouched

ValidateSession(c) ==
    /\ Begin(c)
    /\ connection.id # None
    /\ Await(c, "validate", connection)
    /\ UNCHANGED <<connection, expired, issued>> /\ Untouched

\* Hago's verdict on the session that was loaded, saved on the document as it is now.
Validated(c) ==
    LET loaded == call[c].copy IN
    /\ call[c].at = "validate"
    /\ \E status \in {"CONNECTED", "REAUTH_REQUIRED", "UNKNOWN"} :
        /\ loaded.id \in rejected => status # "CONNECTED"
        /\ connection' = Saved(loaded, [loaded EXCEPT !.status = status])
        /\ rejected' = IF status = "REAUTH_REQUIRED" THEN rejected \cup {loaded.id} ELSE rejected
    /\ Return(c)
    /\ UNCHANGED <<expired, issued, requests, latest, verified, crossed>>

Expire ==
    /\ Valid(connection.pending)
    /\ expired' = expired \cup {connection.pending}
    /\ UNCHANGED <<connection, issued, call, requests>> /\ Untouched

Next ==
    \/ \E c \in Calls :
        \/ CreateLoginChallenge(c) \/ Tidy(c) \/ Challenged(c)
        \/ VerifyLoginChallenge(c) \/ Verified(c) \/ GetConnection(c)
        \/ ValidateSession(c) \/ Validated(c)
    \/ Expire

Spec == Init /\ [][Next]_connectionVars

-----------------------------------------------------------------------------
\* The connection in use came from the challenge that was stored last when it
\* was verified: an OTP answered late never replaces it.  It counts as connected
\* only when there is one, and as refused only when Hago refused it, unless a
\* verification ended in the middle of the validation of the one before.
ConnectionSound ==
    /\ connection.id = verified
    /\ connection.status \in {"CONNECTED", "REAUTH_REQUIRED"} => connection.id # None
    /\ connection.status = "REAUTH_REQUIRED" => connection.id \in rejected \/ crossed
=============================================================================
