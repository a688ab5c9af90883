---------------------------- MODULE Notifications ----------------------------
(***************************************************************************)
(* Notifications and pushes (modules/notifications).  A notification is a  *)
(* document of one user or a broadcast; a push looks its recipient's       *)
(* devices up after the document is inserted, sends to them, and the       *)
(* tokens FCM refuses are deactivated when its answer arrives, by which    *)
(* time they may have been registered again.                               *)
(***************************************************************************)
EXTENDS Integers, FiniteSets

CONSTANTS
    Events,       \* what is notified of
    Users,
    Staff,        \* administrators and supervisors
    Members,      \* the users of the group written to
    Tokens,       \* device tokens
    MaxChanges,   \* bound: registrations and removals of devices
    None

VARIABLES
    note,         \* the documents: who a notification of an event is for, and whether it is read
    deleted,      \* users with deletedAt
    device,       \* DeviceToken documents: owner (None: no document), active
    push,         \* what each recipient's push is doing, and with which tokens
    changes,      \* bounded
    holder,       \* who signed in on each device last and has not signed out
    held,         \* devices the recipient has held since the notification was made
    received,     \* devices a notification arrived on
    reader        \* who marked a notification read

noteVars == <<note, deleted, device, push, changes, holder, held, received, reader>>

Everyone == None
Owners == Users \cup {Everyone}
DevicesOf(u) == {t \in Tokens : device[t].user = u /\ device[t].active}
HeldBy(u) == {t \in Tokens : holder[t] = u}

Init ==
    /\ note = [e \in Events |-> [u \in Owners |-> "none"]]
    /\ deleted = {}
    /\ device = [t \in Tokens |-> [user |-> None, active |-> FALSE]]
    /\ push = [e \in Events |-> [u \in Users |-> [at |-> "none", tokens |-> {}]]]
    /\ changes = 0
    /\ holder = [t \in Tokens |-> None]
    /\ held = [e \in Events |-> [u \in Users |-> {}]]
    /\ received = [e \in Events |-> [u \in Users |-> {}]]
    /\ reader = [e \in Events |-> [u \in Owners |-> {}]]

\* One document for each recipient; then a push for each, if the event has one.
Insert(e, recipients, pushed) ==
    /\ \A u \in Owners : note[e][u] = "none"
    /\ note' = [note EXCEPT ![e] = [u \in Owners |-> IF u \in recipients THEN "unread" ELSE "none"]]
    /\ push' = [push EXCEPT ![e] = [u \in Users |->
                  [at |-> IF pushed /\ u \in recipients THEN "due" ELSE "none", tokens |-> {}]]]
    /\ held' = [held EXCEPT ![e] = [u \in Users |-> IF u \in recipients THEN HeldBy(u) ELSE {}]]
    /\ UNCHANGED <<deleted, device, changes, holder, received, reader>>

NotifyUser(e, u, pushed) == Insert(e, {u}, pushed)

NotifyAdminsAndSupervisors(e) ==
    Staff \ deleted # {} /\ Insert(e, Staff \ deleted, TRUE)

\* A broadcast is one document for everyone; neither it nor a group's is pushed.
AdminSend(e) ==
    \/ Insert(e, {Everyone}, FALSE)
    \/ Members \ deleted # {} /\ Insert(e, Members \ deleted, FALSE)
    \/ \E u \in Users : Insert(e, {u}, FALSE)

DeleteUser(u) ==
    /\ u \notin deleted
    /\ deleted' = deleted \cup {u}
    /\ UNCHANGED <<note, device, push, changes, holder, held, received, reader>>

\* Anyone may mark a broadcast, whose one flag is then up for everybody.
Readable(e, u, owner) == note[e][owner] # "none" /\ (owner = Everyone \/ owner = u)

MarkAsRead(e, u, owner) ==
    /\ Readable(e, u, owner)
    /\ note[e][owner] = "unread"
    /\ note' = [note EXCEPT ![e][owner] = "read"]
    /\ reader' = [reader EXCEPT ![e][owner] = @ \cup {u}]
    /\ UNCHANGED <<deleted, device, push, changes, holder, held, received>>

MutUnreadOf(u) == {p \in Events \X Owners : note[p[1]][p[2]] = "unread"}
UnreadOf(u) ==
    {p \in Events \X Owners : note[p[1]][p[2]] = "unread" /\ Readable(p[1], u, p[2])}

MarkAllAsRead(u) ==
    /\ UnreadOf(u) # {}
    /\ note' = [e \in Events |-> [o \in Owners |->
                  IF <<e, o>> \in UnreadOf(u) THEN "read" ELSE note[e][o]]]
    /\ reader' = [e \in Events |-> [o \in Owners |->
                  IF <<e, o>> \in UnreadOf(u) THEN reader[e][o] \cup {u} ELSE reader[e][o]]]
    /\ UNCHANGED <<deleted, device, push, changes, holder, held, received>>

Changed(t, entry, signedIn) ==
    /\ changes < MaxChanges
    /\ changes' = changes + 1
    /\ device' = [device EXCEPT ![t] = entry]
    /\ holder' = [holder EXCEPT ![t] = signedIn]
    /\ held' = [e \in Events |-> [u \in Users |->
                  IF signedIn = u /\ note[e][u] # "none" THEN held[e][u] \cup {t} ELSE held[e][u]]]
    /\ UNCHANGED <<note, deleted, push, received, reader>>

\* One document per token: a device that changes hands takes it along.
MutRegistered(u, t) == [user |-> IF device[t].user = None THEN u ELSE device[t].user, active |-> TRUE]
Registered(u, t) == [user |-> u, active |-> TRUE]
RegisterDeviceToken(u, t) == Changed(t, Registered(u, t), u)

UnregisterDeviceToken(u, t) ==
    /\ device[t] = [user |-> u, active |-> TRUE]
    /\ Changed(t, [device[t] EXCEPT !.active = FALSE], None)

GetActiveTokens(e, u) ==
    /\ push[e][u].at = "due"
    /\ push' = [push EXCEPT ![e][u] = [at |-> "sending", tokens |-> DevicesOf(u)]]
    /\ UNCHANGED <<note, deleted, device, changes, holder, held, received, reader>>

\* FCM's answer: each token delivered to, refused as invalid, or failed.
SendPush(e, u) ==
    /\ push[e][u].at = "sending"
    /\ \E delivered, invalid \in SUBSET push[e][u].tokens :
        /\ delivered \cap invalid = {}
        /\ received' = [received EXCEPT ![e][u] = delivered]
        /\ push' = [push EXCEPT ![e][u] = [at |-> "done", tokens |-> {}]]
        /\ device' = [t \in Tokens |->
                        IF t \in invalid THEN [device[t] EXCEPT !.active = FALSE] ELSE device[t]]
    /\ UNCHANGED <<note, deleted, changes, holder, held, reader>>

Next ==
    \/ \E e \in Events :
        \/ NotifyAdminsAndSupervisors(e) \/ AdminSend(e)
        \/ \E u \in Users :
            \/ \E pushed \in BOOLEAN : NotifyUser(e, u, pushed)
            \/ GetActiveTokens(e, u) \/ SendPush(e, u)
            \/ \E owner \in Owners : MarkAsRead(e, u, owner)
    \/ \E u \in Users :
        \/ DeleteUser(u) \/ MarkAllAsRead(u)
        \/ \E t \in Tokens : RegisterDeviceToken(u, t) \/ UnregisterDeviceToken(u, t)

Spec == Init /\ [][Next]_noteVars

-----------------------------------------------------------------------------
\* A push arrives only on devices its recipient has held since it was written,
\* however devices changed hands in between, and a notification for one user
\* is read because that user read it.
PushSound ==
    \A e \in Events : \A u \in Users :
        /\ received[e][u] \subseteq held[e][u]
        /\ reader[e][u] \subseteq {u}
        /\ note[e][u] = "read" => reader[e][u] = {u}
=============================================================================
