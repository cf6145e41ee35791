--------------------------- MODULE BridgeLifecycle ---------------------------
(***************************************************************************)
(* The bridge of each window and its hub, class BridgeController of        *)
(* packages/bridge-vscode/src/bridgeController.ts: start, stop and restart *)
(* run one after the other in the lifecycle queue (a change of the         *)
(* configuration is a start or a restart there); the three hub commands    *)
(* of the user go straight to the runtime of ManagedHub.                   *)
(*                                                                         *)
(* The store, the HTTP server and the hub client are up or down here; what *)
(* they do is in AppServerStore, AppServerClient and HubRegistration.      *)
(* That store and server come up or fail, and close, is assumed. They are  *)
(* taken down in one step, and one command is under way at a time.         *)
(***************************************************************************)
EXTENDS ManagedHub

VARIABLES
    parts,     \* which of store, server and hubClient are set
    running,
    calls

vars == <<hubVars, parts, running, calls>>

Parts == {"store", "server", "hubClient"}

TypeOK ==
    /\ HubTypeOK
    /\ parts \in [Window -> SUBSET Parts]
    /\ running \in [Window -> BOOLEAN]
    /\ calls \in 0..MaxCalls

Init ==
    /\ HubInit
    /\ parts = [w \in Window |-> {}]
    /\ running = [w \in Window |-> FALSE]
    /\ calls = 0

-----------------------------------------------------------------------------
\* The calls that begin

StartSteps == <<"hubStart", "storeStart", "serverStart", "clientStart">>

Called(w, s, steps) ==
    /\ calls < MaxCalls
    /\ calls' = calls + 1
    /\ Begin(w, s, steps)
    /\ UNCHANGED <<processVars, faults, parts, running>>

Start(w) == ~running[w] /\ Called(w, "queue", StartSteps)
Stop(w) == Called(w, "queue", StopSteps)
Restart(w) == Called(w, "queue", StopSteps \o StartSteps)

StartManagedHub(w) == Called(w, "command", <<"hubStart">>)
StopManagedHub(w) == Called(w, "command", <<"hubStop">>)
RestartManagedHub(w) == Called(w, "command", <<"hubStop", "hubStart">>)

-----------------------------------------------------------------------------
\* startInternal after the hub, and stopInternal

Up(w, part) == parts' = [parts EXCEPT ![w] = @ \cup {part}]

StoreStarts(w, s) ==
    /\ At(w, s, "storeStart")
    /\ Up(w, "store") /\ Await(w, s, "storeStarting", NoChild)
    /\ UNCHANGED <<faults, running>>

ServerStarts(w, s) ==
    /\ At(w, s, "serverStart")
    /\ Up(w, "server") /\ Await(w, s, "serverStarting", NoChild)
    /\ UNCHANGED <<faults, running>>

Started(w, s) ==
    /\ call[w][s].stage \in {"storeStarting", "serverStarting"} /\ ~Ready(w)
    /\ GoOn(w, s)
    /\ UNCHANGED <<faults, parts, running>>

HubClientStarts(w, s) ==
    /\ At(w, s, "clientStart")
    /\ Up(w, "hubClient") /\ running' = [running EXCEPT ![w] = TRUE]
    /\ GoOn(w, s)
    /\ UNCHANGED faults

OnlyReport(w, s) == call' = [call EXCEPT ![w][s] = Idle]
UndoStart(w, s) == GiveUp(w, s)

\* store.start or server.start throws.
StartFails(w, s) ==
    /\ call[w][s].stage \in {"storeStarting", "serverStarting"} /\ ~Ready(w)
    /\ faults < MaxFaults
    /\ faults' = faults + 1
    /\ UndoStart(w, s)
    /\ UNCHANGED <<parts, running>>

TakeDown(w, s) ==
    /\ At(w, s, "takeDown")
    /\ parts' = [parts EXCEPT ![w] = @ \ {"hubClient"}]
    /\ IF parts[w] = {} THEN GoOn(w, s) ELSE Await(w, s, "closing", NoChild)
    /\ UNCHANGED <<faults, running>>

Closed(w, s) ==
    /\ call[w][s].stage = "closing" /\ ~Ready(w)
    /\ parts' = [parts EXCEPT ![w] = {}]
    /\ GoOn(w, s)
    /\ UNCHANGED <<faults, running>>

MarkDown(w, s) ==
    /\ At(w, s, "markDown")
    /\ running' = [running EXCEPT ![w] = FALSE]
    /\ GoOn(w, s)
    /\ UNCHANGED <<faults, parts>>

-----------------------------------------------------------------------------
BridgeStep(w, s) ==
    /\ \/ StoreStarts(w, s) \/ ServerStarts(w, s) \/ Started(w, s) \/ HubClientStarts(w, s)
       \/ StartFails(w, s) \/ TakeDown(w, s) \/ Closed(w, s) \/ MarkDown(w, s)
    /\ UNCHANGED <<processVars, blurred, calls>>

HubStep(w, s) == HubCallStep(w, s) /\ UNCHANGED <<parts, running, calls>>

SystemStep(c) == ProcessStep(c) /\ UNCHANGED <<parts, running, calls>>

Next ==
    \/ \E w \in Window :
          \/ Start(w) \/ Stop(w) \/ Restart(w)
          \/ StartManagedHub(w) \/ StopManagedHub(w) \/ RestartManagedHub(w)
          \/ \E s \in Slot : BridgeStep(w, s) \/ HubStep(w, s)
    \/ \E c \in Child : SystemStep(c)

Spec == Init /\ [][Next]_vars

\* Timers fire and promises settle; a booting process serves or exits, a killed one exits.
Fairness ==
    /\ \A w \in Window, s \in Slot : WF_vars(BridgeStep(w, s) \/ HubStep(w, s))
    /\ \A c \in Child :
          /\ WF_vars(SystemStep(c) /\ child[c].signal = "kill")
          /\ WF_vars(SystemStep(c) /\ child[c].state \in {"dead", "reaped"})

FairSpec == Spec /\ Fairness

-----------------------------------------------------------------------------
\* Properties

\* Whatever failed on the way (startInternal, its catch, stopInternal): between two
\* operations of the queue a bridge has all of its parts or none, as running says.
PartsFollowLifecycle ==
    \A w \in Window : ~Busy(w, "queue") => parts[w] = IF running[w] THEN Parts ELSE {}

Quiet(w) == (\A s \in Slot : ~Busy(w, s)) /\ ~LookedInto(w)

\* A window whose calls came one at a time has no hub process alive that it does not
\* know and would stop: not after a failed start, a timeout of SIGTERM, or an exit.
NoHubLeftBehind ==
    \A w \in Window \ blurred : Quiet(w) =>
        \A c \in Child : Alive(c) /\ child[c].window = w => mode[w] = "running" /\ process[w] = c

\* Windows that start at any moments share one hub: when all is quiet, nothing was
\* stopped or failed, its owner is running and the others use it as external.
OneHubForAll ==
    /\ blurred = {} /\ faults = 0 /\ \A w \in Window : Quiet(w)
    /\ \A c \in Child : child[c].signal = "none" /\ child[c].state \in {"none", "serving", "reaped"}
    /\ \E w \in Window : running[w]
    => \E c \in Child :
          /\ \A d \in Child \ {c} : ~Alive(d)
          /\ child[c].state = "serving"
          /\ \A w \in Window : mode[w] \in
                IF w = child[c].window THEN {"running"} ELSE {"external", "stopped"}

\* Every call ends, also when the process it waits for ignores SIGTERM: the lifecycle
\* queue of a window is not held for ever by its hub.
CallsEnd == \A w \in Window, s \in Slot : Busy(w, s) ~> ~Busy(w, s)

=============================================================================
