------------------------------- MODULE Credentials -------------------------------
(***************************************************************************)
(* The one-time credentials of one account: link and code of a verification*)
(* mail, one-time passwords of the second factor, tokens that let a Google *)
(* user complete the profile.  A request looks the account up, compares,   *)
(* and saves later the paths it modified; only verifyEmailCode compares    *)
(* again when it writes.  Credentials are numbered as they are generated.  *)
(***************************************************************************)
EXTENDS Naturals

CONSTANTS Sessions, None,
          MaxAttempts,  \* MAX_EMAIL_VERIFICATION_CODE_ATTEMPTS
          MaxGenerated, MaxTries, MaxSwitches \* bounds

VARIABLES account,  \* verified, link, code and attempts at it, second factor on,
                    \* otp, completion token, profile completed
          expired,  \* credentials past their expiry date
          session, generated, tries, switches,
          gone,     \* credentials that were accepted or replaced (history)
          stale     \* a code was accepted that was not stored any more (history)

vars == <<account, expired, session, generated, tries, switches, gone, stale>>

Kinds == {"link", "code", "otp", "completion"}

Init ==
    /\ account = [verified |-> FALSE, link |-> None, code |-> None, attempts |-> 0,
                  second |-> FALSE, otp |-> None, completion |-> None, complete |-> FALSE]
    /\ expired = {} /\ gone = {}
    /\ session = [s \in Sessions |-> [at |-> "idle"]]
    /\ generated = 0 /\ tries = 0 /\ switches = 0
    /\ stale = FALSE

Goes(s, next) == session' = [session EXCEPT ![s] = next]
Stored(kind) == {<<kind, n>> : n \in {account[kind]} \ {None}}
Usable(kind) == Stored(kind) # {} /\ Stored(kind) \cap expired = {}

\* A later write of some paths; what it takes out of the account is gone, and so is
\* what was used.
Put(s, fields) == Goes(s, [at |-> "save", fields |-> fields, used |-> {}])
Accept(s, kind, fields) == Goes(s, [at |-> "save", fields |-> fields, used |-> Stored(kind)])

Write(fields) == account' = [f \in DOMAIN account |->
                                IF f \in DOMAIN fields THEN fields[f] ELSE account[f]]
Replaced == {<<k, account[k]>> : k \in {j \in Kinds : account[j] # None /\ account'[j] # account[j]}}

Save(s) ==
    /\ session[s].at = "save"
    /\ Write(session[s].fields)
    /\ gone' = gone \cup Replaced \cup session[s].used
    /\ Goes(s, [at |-> "idle"])
    /\ UNCHANGED <<expired, generated, tries, switches, stale>>

Expire ==
    /\ \E k \in Kinds : /\ ~ (Stored(k) \subseteq expired)
                        /\ expired' = expired \cup Stored(k)
    /\ UNCHANGED <<account, session, generated, tries, switches, gone, stale>>

Generates == generated < MaxGenerated /\ generated' = generated + 1
Tries == tries < MaxTries /\ tries' = tries + 1
Starts(s) == session[s].at = "idle"

----------------------------------------------------------------------------
(* The address: resendVerification (and the mail of register), the link, the code *)

ResendVerification(s) ==
    /\ Starts(s) /\ Generates
    /\ ~account.verified
    /\ Put(s, [link |-> generated, code |-> generated, attempts |-> 0])
    /\ UNCHANGED <<account, expired, tries, switches, gone, stale>>

VerifyEmail(s) ==
    /\ Starts(s) /\ Tries
    /\ Usable("link")
    /\ Accept(s, "link", [verified |-> TRUE, link |-> None, code |-> None, attempts |-> 0])
    /\ UNCHANGED <<account, expired, generated, switches, gone, stale>>

CodeIsUsable == ~account.verified /\ Usable("code") /\ account.attempts < MaxAttempts

CheckCode(s) ==
    /\ Starts(s) /\ Tries
    /\ CodeIsUsable
    /\ Goes(s, [at |-> "acceptCode", code |-> account.code])
    /\ UNCHANGED <<account, expired, generated, switches, gone, stale>>

\* The wrong code, or the right one too late: counted from what was read.
WrongCode(s) ==
    /\ Starts(s) /\ Tries
    /\ ~account.verified /\ account.code # None
    /\ Put(s, IF account.attempts + 1 >= MaxAttempts
              THEN [attempts |-> account.attempts + 1, code |-> None]
              ELSE [attempts |-> account.attempts + 1])
    /\ UNCHANGED <<account, expired, generated, switches, gone, stale>>

MutCodeMatches(s) == ~account.verified \* Mutant: without the hash.

\* The filter of the update.
CodeMatches(s) == ~account.verified /\ account.code = session[s].code

AcceptCode(s) ==
    /\ session[s].at = "acceptCode"
    /\ IF CodeMatches(s)
       THEN /\ Write([verified |-> TRUE, link |-> None, code |-> None, attempts |-> 0])
            /\ gone' = gone \cup Replaced \cup {<<"code", session[s].code>>}
            /\ stale' = (stale \/ account.code # session[s].code)
       ELSE UNCHANGED <<account, gone, stale>>
    /\ Goes(s, [at |-> "idle"])
    /\ UNCHANGED <<expired, generated, tries, switches>>

\* approveUser, admin updateUser and a Google sign-in with the address; the
\* administrators remove the link and leave the code.
VerifiedOtherwise ==
    /\ switches < MaxSwitches /\ switches' = switches + 1
    /\ \/ Write([verified |-> TRUE, link |-> None])
       \/ Write([verified |-> TRUE])
    /\ gone' = gone \cup Replaced
    /\ UNCHANGED <<expired, session, generated, tries, stale>>

----------------------------------------------------------------------------
(* The second factor *)

\* generate2FASecret while it is off, login while it is on.
SendOtp(s) ==
    /\ Starts(s) /\ Generates
    /\ Put(s, [otp |-> generated])
    /\ UNCHANGED <<account, expired, tries, switches, gone, stale>>

\* enable2FA while it is off, verify2FA while it is on.
CheckOtp(s) ==
    /\ Starts(s) /\ Tries
    /\ Usable("otp")
    /\ Accept(s, "otp", IF account.second THEN [otp |-> None]
                        ELSE [otp |-> None, second |-> TRUE])
    /\ UNCHANGED <<account, expired, generated, switches, gone, stale>>

\* Expired or missing: cleared, when there was something to clear.
ClearOtp(s) ==
    /\ Starts(s) /\ Tries
    /\ account.otp # None /\ ~Usable("otp")
    /\ Put(s, [otp |-> None])
    /\ UNCHANGED <<account, expired, generated, switches, gone, stale>>

Disable2FA(s) ==
    /\ Starts(s) /\ switches < MaxSwitches
    /\ account.second
    /\ Put(s, [second |-> FALSE, otp |-> None])
    /\ switches' = switches + 1
    /\ UNCHANGED <<account, expired, generated, tries, gone, stale>>

----------------------------------------------------------------------------
(* The profile of a Google user: loginWithGoogle and completeGoogleProfile *)

IssueCompletionToken(s) ==
    /\ Starts(s) /\ Generates
    /\ ~account.complete
    /\ Put(s, [completion |-> generated])
    /\ UNCHANGED <<account, expired, tries, switches, gone, stale>>

CompleteGoogleProfile(s) ==
    /\ Starts(s) /\ Tries
    /\ account.completion # None
    /\ IF Usable("completion")
       THEN Accept(s, "completion", [completion |-> None, complete |-> TRUE])
       ELSE Put(s, [completion |-> None])
    /\ UNCHANGED <<account, expired, generated, switches, gone, stale>>

EmailNext ==
    \/ \E s \in Sessions : \/ ResendVerification(s) \/ VerifyEmail(s) \/ CheckCode(s)
                           \/ WrongCode(s) \/ AcceptCode(s)
    \/ VerifiedOtherwise
OtpNext == \E s \in Sessions : SendOtp(s) \/ CheckOtp(s) \/ ClearOtp(s) \/ Disable2FA(s)
ProfileNext == \E s \in Sessions : IssueCompletionToken(s) \/ CompleteGoogleProfile(s)

Next == EmailNext \/ OtpNext \/ ProfileNext \/ Expire \/ \E s \in Sessions : Save(s)

Spec == Init /\ [][Next]_vars

----------------------------------------------------------------------------
(* Properties *)

\* Whatever requests overlap: a credential that was used or replaced is never in the
\* account again, a code is accepted only while it is the account's, and a stored code
\* has attempts left.
CredentialsSound ==
    /\ \A k \in Kinds : Stored(k) \cap gone = {}
    /\ ~stale
    /\ account.code # None => account.attempts < MaxAttempts
================================================================================
