---------------------------- MODULE CustomerServices ----------------------------
(***************************************************************************)
(* What faces the customers: accounts and sub-agents, registration, the    *)
(* one-time credentials, notifications and the WhatsApp client.            *)
(***************************************************************************)
EXTENDS Services, Integers, FiniteSets

CONSTANTS
    Groups, Requests, MaxCalls,                               \* sub-agents
    Persons, Emails, Profiles, Codes, OAuthStates,            \* registration
    MaxRetries, MaxSessions, MaxAccountChanges,
    MaxCodeAttempts, MaxGenerated, MaxTries, MaxSwitches,     \* credentials
    Events, Addressees, Staff, Members, Tokens, MaxMoves,     \* notifications
    MaxBuilds, MaxDemands                                     \* WhatsApp

VARIABLES
    account, request, group, call, calls,
    user, state, nonces, session, begun, changes, entries,
    holder, expired, visit, generated, tries, switches, gone, stale,
    note, deleted, device, push, moves, carrier, held, received, reader,
    client, browser, ready, phase, lifecycle, operation, demands, overlapped, undeleted

\* None is nobody and no number.
ASSUME CustomersAssumption ==
    /\ None \notin Persons \cup Addressees \cup Int
    /\ IsFiniteSet(Persons) /\ MaxCodeAttempts \in Nat \ {0}

Account == INSTANCE Accounts WITH Users <- Customers

Register == INSTANCE Registration WITH
    Sessions <- Calls, Users <- Persons, States <- OAuthStates, MaxChanges <- MaxAccountChanges

Credential == INSTANCE Credentials WITH
    Sessions <- Calls, MaxAttempts <- MaxCodeAttempts,
    account <- holder, session <- visit

Notice == INSTANCE Notifications WITH
    Users <- Addressees, MaxChanges <- MaxMoves, changes <- moves, holder <- carrier

Chat == INSTANCE WhatsApp WITH
    MaxRequests <- MaxDemands, state <- phase, call <- operation, requests <- demands

accountVars == <<account, request, group, call, calls>>
registerVars == <<user, state, nonces, session, begun, changes, entries>>
credentialVars == <<holder, expired, visit, generated, tries, switches, gone, stale>>
noticeVars == <<note, deleted, device, push, moves, carrier, held, received, reader>>
chatVars == <<client, browser, ready, phase, lifecycle, operation, demands, overlapped, undeleted>>

-----------------------------------------------------------------------------
\* The mark of an account and its pending request come and go together, and a
\* reseller is one of exactly one approved request.
SubAgentConsistent == Account!SubAgentConsistent

\* Only an active account with a pending request becomes a reseller, for good.
ApprovedWhileActive == Account!ApprovedWhileActive

\* An OAuth state is used once, accounts share no email, profile or referral code,
\* and following referrers always ends.
AccountsSound == Register!AccountsSound

\* A credential that was used or replaced never comes back.
CredentialsSound == Credential!CredentialsSound

\* A push reaches only devices its recipient has held, and the WhatsApp module
\* refers to the one browser that runs.
MessagesSound == Notice!PushSound /\ Chat!ClientSound
================================================================================
