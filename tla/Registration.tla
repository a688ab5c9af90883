------------------------------ MODULE Registration ------------------------------
(***************************************************************************)
(* How accounts come to be: registration with a password, sign-in with     *)
(* Google (in the browser with an OAuth state, natively with an id token), *)
(* invitation codes and who referred whom.  A handler looks things up and  *)
(* creates or links the account afterwards; unique indexes decide races.   *)
(***************************************************************************)
EXTENDS Naturals, FiniteSets

CONSTANTS Sessions, Users, Emails, Profiles, \* Google subject identifiers
          Codes, States, None,
          MaxRetries,              \* MAX_REFERRAL_CODE_RETRIES
          MaxSessions, MaxChanges  \* bounds

VARIABLES user,    \* User: email, googleId, referralCode, referredBy, verified,
                   \* and whether it is ACTIVE and not deleted
          state,   \* OAuth states: intent and invitation code, alive or expired
          nonces,  \* states of which an OAuthStateNonce is stored
          session, begun, changes,
          entries  \* states that were accepted, with their sessions (history)

vars == <<user, state, nonces, session, begun, changes, entries>>

Absent == [exists |-> FALSE, email |-> None, google |-> None, code |-> None,
           referrer |-> None, verified |-> FALSE, usable |-> FALSE]

\* The database is empty or holds an account from before invitation codes.
Init ==
    /\ user \in {f \in [Users -> {Absent} \cup [exists : {TRUE}, email : Emails, google : {None},
                                    code : {None}, referrer : {None}, verified : {TRUE},
                                    usable : {TRUE}]] :
                    Cardinality({u \in Users : f[u].exists}) <= 1}
    /\ state = [x \in States |-> [phase |-> "none", signup |-> FALSE, code |-> None]]
    /\ nonces = {}
    /\ session = [s \in Sessions |-> [at |-> "idle"]]
    /\ begun = 0 /\ changes = 0
    /\ entries = {}

Goes(s, next) == session' = [session EXCEPT ![s] = next]
Ends(s) == Goes(s, [at |-> "idle"])
Existing == {u \in Users : user[u].exists}
WithEmail(e) == {u \in Existing : user[u].email = e}
WithGoogle(g) == {u \in Existing : g # None /\ user[u].google = g}
WithCode(c) == {u \in Existing : c # None /\ user[u].code = c}

\* findReferralOwnerByCode and resolveReferralOwnerForNewUser: nobody when no code
\* was given; an unusable owner or one with the new address is an error.
Owners(c, e) ==
    IF c = None THEN {None}
    ELSE {u \in WithCode(c) : user[u].usable /\ user[u].email # e}

----------------------------------------------------------------------------
(* register, and the Google sign-ins up to the account *)

CreateAt(e, g, owner) ==
    [at |-> "create", email |-> e, google |-> g, referrer |-> owner, attempt |-> 0]

Register(s) ==
    /\ session[s].at = "idle" /\ begun < MaxSessions
    /\ \E e \in Emails, c \in Codes \cup {None} :
          /\ WithEmail(e) = {}
          /\ \E owner \in Owners(c, e) : Goes(s, CreateAt(e, None, owner))
    /\ begun' = begun + 1
    /\ UNCHANGED <<user, state, nonces, changes, entries>>

\* createGoogleOAuthState: nothing is stored.
StartGoogleOAuth(x) ==
    /\ state[x].phase = "none"
    /\ \E c \in Codes \cup {None}, signup \in BOOLEAN :
          state' = [state EXCEPT ![x] = [phase |-> "alive", signup |-> signup, code |-> c]]
    /\ UNCHANGED <<user, nonces, session, begun, changes, entries>>

\* The insert of the nonce decides who uses a state.
ConsumeGoogleOAuthState(s, x) ==
    /\ session[s].at = "idle" /\ begun < MaxSessions
    /\ state[x].phase = "alive" /\ x \notin nonces
    /\ nonces' = nonces \cup {x}
    /\ entries' = entries \cup {<<x, begun>>}
    /\ \E g \in Profiles, e \in Emails :
          Goes(s, [at |-> "resolve", profile |-> g, email |-> e,
                   code |-> IF state[x].signup THEN state[x].code ELSE None])
    /\ begun' = begun + 1
    /\ UNCHANGED <<user, state, changes>>

LoginWithNativeGoogle(s) ==
    /\ session[s].at = "idle" /\ begun < MaxSessions
    /\ \E g \in Profiles, e \in Emails :
          Goes(s, [at |-> "resolve", profile |-> g, email |-> e, code |-> None])
    /\ begun' = begun + 1
    /\ UNCHANGED <<user, state, nonces, changes, entries>>

\* The state expires, and only then may the TTL index remove its nonce.
Expire(x) ==
    /\ state[x].phase = "alive"
    /\ state' = [state EXCEPT ![x].phase = "expired"]
    /\ UNCHANGED <<user, nonces, session, begun, changes, entries>>

PurgeNonce(x) ==
    /\ x \in nonces /\ state[x].phase = "expired"
    /\ nonces' = nonces \ {x}
    /\ UNCHANGED <<user, state, session, begun, changes, entries>>

\* resolveGoogleUser: the account of the profile, or of the address, or a new one.
ResolveGoogleUser(s) ==
    LET me == session[s]
    IN  /\ me.at = "resolve"
        /\ \/ /\ WithGoogle(me.profile) # {}
              /\ Ends(s)
           \/ /\ WithGoogle(me.profile) = {}
              /\ \E u \in WithEmail(me.email) :
                    Goes(s, [at |-> "link", user |-> u, profile |-> me.profile])
           \/ /\ WithGoogle(me.profile) = {} /\ WithEmail(me.email) = {}
              /\ \E owner \in Owners(me.code, me.email) :
                    Goes(s, CreateAt(me.email, me.profile, owner))
           \/ /\ WithGoogle(me.profile) = {} /\ WithEmail(me.email) = {}
              /\ Owners(me.code, me.email) = {}
              /\ Ends(s)
        /\ UNCHANGED <<user, state, nonces, begun, changes, entries>>

\* The unique index refuses a profile that another account has got meanwhile; a
\* profile the account already had is replaced.
LinkGoogle(s) ==
    LET me == session[s]
    IN  /\ me.at = "link"
        /\ user' = IF WithGoogle(me.profile) \subseteq {me.user}
                   THEN [user EXCEPT ![me.user].google = me.profile, ![me.user].verified = TRUE]
                   ELSE user
        /\ Ends(s)
        /\ UNCHANGED <<state, nonces, begun, changes, entries>>

\* createUserWithReferralCodeRetry: a new code per attempt; any other duplicate is
\* an error.
CreateUser(s) ==
    LET me == session[s]
        taken == WithEmail(me.email) \cup WithGoogle(me.google) # {}
    IN  /\ me.at = "create"
        /\ \E c \in Codes :
              \/ /\ ~taken /\ WithCode(c) = {}
                 /\ \E u \in Users \ Existing :
                       user' = [user EXCEPT ![u] =
                          [exists |-> TRUE, email |-> me.email, google |-> me.google, code |-> c,
                           referrer |-> me.referrer, verified |-> me.google # None,
                           usable |-> TRUE]]
                 /\ Ends(s)
              \/ /\ ~taken /\ WithCode(c) # {} /\ me.attempt + 1 < MaxRetries
                 /\ Goes(s, [me EXCEPT !.attempt = @ + 1])
                 /\ UNCHANGED user
              \/ /\ taken \/ (WithCode(c) # {} /\ me.attempt + 1 = MaxRetries)
                 /\ Ends(s)
                 /\ UNCHANGED user
        /\ UNCHANGED <<state, nonces, begun, changes, entries>>

----------------------------------------------------------------------------
(* What happens to accounts meanwhile *)

\* assignReferralCodeIfMissing
BackfillReferralCode ==
    /\ \E u \in Existing, c \in Codes :
          /\ user[u].code = None /\ WithCode(c) = {}
          /\ user' = [user EXCEPT ![u].code = c]
    /\ UNCHANGED <<state, nonces, session, begun, changes, entries>>

\* Mutant: an invitation code entered later still counts.
MutUpdateMyProfile ==
    /\ changes < MaxChanges
    /\ \E u \in Existing, e \in Emails, c \in Codes \cup {None} :
          \E owner \in Owners(c, e) :
             /\ WithEmail(e) \subseteq {u}
             /\ user' = [user EXCEPT ![u].email = e,
                            ![u].referrer = IF user[u].referrer = None THEN owner ELSE @]
    /\ changes' = changes + 1
    /\ UNCHANGED <<state, nonces, session, begun, entries>>

\* A code is refused unless it is that of the account's referrer.
UpdateMyProfile ==
    /\ changes < MaxChanges
    /\ \E u \in Existing, e \in Emails, c \in Codes \cup {None} :
          /\ WithEmail(e) \subseteq {u}
          /\ c # None => user[u].referrer \in Owners(c, e)
          /\ user' = [user EXCEPT ![u].email = e]
    /\ changes' = changes + 1
    /\ UNCHANGED <<state, nonces, session, begun, entries>>

\* Suspended, deleted or restored by an administrator.
ChangeStatus ==
    /\ changes < MaxChanges
    /\ \E u \in Existing : user' = [user EXCEPT ![u].usable = ~@]
    /\ changes' = changes + 1
    /\ UNCHANGED <<state, nonces, session, begun, entries>>

Next ==
    \/ \E s \in Sessions :
          \/ Register(s) \/ LoginWithNativeGoogle(s) \/ ResolveGoogleUser(s)
          \/ LinkGoogle(s) \/ CreateUser(s)
          \/ \E x \in States : ConsumeGoogleOAuthState(s, x)
    \/ \E x \in States : StartGoogleOAuth(x) \/ Expire(x) \/ PurgeNonce(x)
    \/ BackfillReferralCode \/ UpdateMyProfile \/ ChangeStatus

Spec == Init /\ [][Next]_vars

----------------------------------------------------------------------------
(* Properties *)

\* Whoever overlaps: an OAuth state lets at most one sign-in through, even after its
\* nonce has been purged.
StatesUsedOnce == \A a, b \in entries : a[1] = b[1] => a = b

\* Addresses, profiles and codes belong to one account each.
NoneShared == \A u, v \in Existing : u # v =>
    /\ user[u].email # user[v].email
    /\ user[u].google # None => user[u].google # user[v].google
    /\ user[u].code # None => user[u].code # user[v].code

\* Following referredBy always ends, so nobody earns on his own deposits in a circle
\* (resolveReferralOwnerForNewUser, updateMyProfile).
ReferralForest == \A S \in (SUBSET Existing) \ {{}} :
    \E u \in S : user[u].referrer \notin S

AccountsSound == StatesUsedOnce /\ NoneShared /\ ReferralForest
================================================================================
