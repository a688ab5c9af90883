------------------------------ MODULE WhatsApp ------------------------------
(***************************************************************************)
(* The administrators' WhatsApp client (modules/whatsapp): one process-    *)
(* wide client, replaced by whoever asks for it.  Starting and destroying  *)
(* a browser are awaited, so that the start-up, the reconnect timer, the   *)
(* two admin routes and the shutdown interleave there; lifecycleOperation- *)
(* Id tells an operation whether it is still the latest one.  A browser    *)
(* whose start or whose destroy() failed counts as failed, not as running. *)
(***************************************************************************)
EXTENDS Integers, FiniteSets

CONSTANTS
    Calls,        \* operations under way at the same time
    MaxBuilds,    \* bound: clients built
    MaxRequests,  \* bound: reconnects, resets and shutdowns
    None

VARIABLES
    client,      \* the client the module refers to, or None
    browser,     \* what became of each client
    ready,       \* the clients that reported ready
    state,       \* currentState
    lifecycle,   \* lifecycleOperationId, isInitializing, manualShutdown, reconnectTimer
    call,        \* the operation each caller is in, and what it awaits
    requests,    \* bounded
    overlapped,  \* an operation began while another was under way
    undeleted    \* a reset failed to delete the session, and no operation began since

waVars == <<client, browser, ready, state, lifecycle, call, requests, overlapped, undeleted>>

Browsers == 1..MaxBuilds
Idle == [at |-> "idle", kind |-> None, id |-> 0, browser |-> None]
Running == {b \in Browsers : browser[b] \in {"starting", "live"}}

Init ==
    /\ client = None
    /\ browser = [b \in Browsers |-> "unborn"]
    /\ ready = {}
    /\ state = "IDLE"
    /\ lifecycle = [operation |-> 0, initializing |-> FALSE, manual |-> FALSE, timer |-> FALSE]
    /\ call = [c \in Calls |-> Idle]
    /\ requests = 0
    /\ overlapped = FALSE
    /\ undeleted = FALSE

Return(c) == call' = [call EXCEPT ![c] = Idle]

Begin(c) ==
    /\ call[c].at = "idle"
    /\ overlapped' = (overlapped \/ \E d \in Calls : call[d].at # "idle")

Continued == undeleted' = (undeleted /\ lifecycle'.operation = lifecycle.operation)

\* destroyWhatsAppClient up to its await: the client is no longer referred to.
Close(c, at, kind, id, held, found) ==
    /\ client' = None
    /\ browser' = [browser EXCEPT ![held] = "closing"]
    /\ lifecycle' = [found EXCEPT !.manual = TRUE, !.timer = FALSE]
    /\ call' = [call EXCEPT ![c] = [at |-> at, kind |-> kind, id |-> id, browser |-> held]]

\* The part of initializeWhatsAppClient that builds a client and awaits its start.
Build(c, kind, id, found, browsers) ==
    LET b == Cardinality({x \in Browsers : browsers[x] # "unborn"}) + 1 IN
    /\ b <= MaxBuilds
    /\ client' = b
    /\ browser' = [browsers EXCEPT ![b] = "starting"]
    /\ state' = "INITIALIZING"
    /\ lifecycle' = [found EXCEPT !.manual = FALSE]
    /\ call' = [call EXCEPT ![c] = [at |-> "starting", kind |-> kind, id |-> id, browser |-> b]]

Initialize(c, kind, force, held, found, browsers) ==
    LET opened == [found EXCEPT !.operation = @ + 1, !.initializing = TRUE] IN
    \/ /\ ~force
       /\ found.initializing \/ held # None
       /\ Return(c)
       /\ lifecycle' = found
       /\ UNCHANGED <<client, browser, state>>
    \/ /\ force /\ held # None
       /\ Close(c, "replacing", kind, opened.operation, held, opened)
       /\ state' = "INITIALIZING"
    \/ /\ held = None
       /\ force \/ ~found.initializing
       /\ Build(c, kind, opened.operation, opened, browsers)

\* What a request goes on to do once destroyWhatsAppClient has returned.
AfterDestroy(c, kind, held, found, browsers) ==
    \/ kind = "reconnect" /\ Initialize(c, kind, TRUE, held, found, browsers)
    \/ /\ kind \in {"reset", "shutdown"}
       /\ call' = [call EXCEPT ![c] =
                     IF kind = "reset" THEN [Idle EXCEPT !.at = "deleting", !.kind = kind] ELSE Idle]
       /\ client' = held
       /\ browser' = browsers
       /\ state' = "DISCONNECTED"
       /\ lifecycle' = found

Request(c, kind) ==
    LET found == IF kind = "reset" THEN [lifecycle EXCEPT !.operation = @ + 1] ELSE lifecycle IN
    /\ Begin(c)
    /\ requests < MaxRequests
    /\ requests' = requests + 1
    /\ \/ client # None /\ Close(c, "closing", kind, 0, client, found) /\ UNCHANGED state
       \/ client = None
          /\ AfterDestroy(c, kind, None, [found EXCEPT !.timer = FALSE, !.manual = FALSE], browser)
    /\ Continued
    /\ UNCHANGED ready

\* destroy() of the old client settles; a failure is only logged.
Destroyed(c, outcome) ==
    LET browsers == [browser EXCEPT ![call[c].browser] = outcome]
        found == [lifecycle EXCEPT !.manual = FALSE] IN
    /\ \/ call[c].at = "closing" /\ AfterDestroy(c, call[c].kind, client, found, browsers)
       \/ call[c].at = "replacing" /\ Build(c, call[c].kind, call[c].id, found, browsers)
    /\ Continued
    /\ UNCHANGED <<ready, requests, overlapped>>

DeleteSession(c) ==
    /\ call[c].at = "deleting"
    /\ \/ Initialize(c, "reset", TRUE, client, lifecycle, browser) /\ Continued
       \/ Return(c) /\ undeleted' = TRUE /\ UNCHANGED <<client, browser, state, lifecycle>>
    /\ UNCHANGED <<ready, requests, overlapped>>

\* The finally block: only the latest operation lowers isInitializing.
MutFinish(id) == lifecycle' = [lifecycle EXCEPT !.initializing = FALSE]
Finish(id) ==
    lifecycle' = [lifecycle EXCEPT !.initializing = @ /\ lifecycle.operation # id]

Start(c, outcome) ==
    /\ call[c].at = "starting"
    /\ LET b == call[c].browser
           latest == call[c].id = lifecycle.operation IN
       /\ browser' = [browser EXCEPT ![b] = IF @ = "starting" THEN outcome ELSE @]
       /\ client' = IF outcome = "failed" /\ latest THEN None ELSE client
       /\ state' = IF outcome = "failed" /\ latest THEN "ERROR" ELSE state
    /\ Finish(call[c].id)
    /\ Return(c)
    /\ UNCHANGED <<ready, requests, overlapped, undeleted>>

\* The bootstrap and the reconnect timer initialise without force.
Automatic(c) ==
    /\ Begin(c)
    /\ lifecycle.timer \/ lifecycle.operation = 0
    /\ Initialize(c, "init", FALSE, client, [lifecycle EXCEPT !.timer = FALSE], browser)
    /\ Continued
    /\ UNCHANGED <<ready, requests>>

\* The events of any client that still runs, referred to or not.
Report(b, reported) ==
    /\ b \in Running
    /\ state' = reported
    /\ ready' = IF reported = "CONNECTED" THEN ready \cup {b} ELSE ready
    /\ UNCHANGED <<client, browser, lifecycle, call, requests, overlapped, undeleted>>

Disconnected(b) ==
    /\ browser[b] \in {"starting", "live", "closing"}
    /\ browser' = [browser EXCEPT ![b] = "dead"]
    /\ client' = None
    /\ state' = "DISCONNECTED"
    /\ lifecycle' = [lifecycle EXCEPT !.timer = @ \/ (~lifecycle.manual /\ ~lifecycle.initializing)]
    /\ UNCHANGED <<ready, call, requests, overlapped, undeleted>>

Next ==
    \/ \E c \in Calls :
        \/ \E kind \in {"reconnect", "reset", "shutdown"} : Request(c, kind)
        \/ \E outcome \in {"dead", "failed"} : Destroyed(c, outcome)
        \/ DeleteSession(c) \/ Automatic(c)
        \/ \E outcome \in {"live", "failed"} : Start(c, outcome)
    \/ \E b \in Browsers :
        \/ \E reported \in {"QR_READY", "AUTHENTICATED", "CONNECTED", "ERROR"} : Report(b, reported)
        \/ Disconnected(b)

Spec == Init /\ [][Next]_waVars

-----------------------------------------------------------------------------
Latest(c) ==
    call[c].at \in {"replacing", "starting"} /\ call[c].id = lifecycle.operation

\* isInitializing, which keeps the timer and the bootstrap from starting a
\* second client, is up while the latest operation is under way, and only an
\* operation or a reset at work keeps it up, unless a reset failed half-way.
\* One operation at a time leaves no browser running that the module does not
\* refer to, and a message is never handed to a client that was not ready.
ClientSound ==
    /\ \A c \in Calls : Latest(c) => lifecycle.initializing
    /\ lifecycle.initializing =>
        \/ undeleted
        \/ \E c \in Calls : Latest(c) \/ call[c].kind = "reset"
    /\ ~overlapped =>
        /\ Running \subseteq {client}
        /\ state = "CONNECTED" /\ client # None => client \in ready
=============================================================================
