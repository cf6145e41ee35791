------------------------------ MODULE ManagedHub ------------------------------
(***************************************************************************)
(* The hub processes of several VS Code windows, class ManagedHubRuntime   *)
(* of packages/bridge-vscode/src/managedHubRuntime.ts. Every window wants  *)
(* a hub at the same address: it uses one that answers, or spawns one.     *)
(*                                                                         *)
(* A window is one event loop. Its start and stop are called through two   *)
(* slots, the lifecycle queue of the bridge and the commands of the user,  *)
(* which do not wait for each other; a call runs from await to await, and  *)
(* a continuation that is ready comes before any other event of the window.*)
(* What a slot has still to do is the sequence of its steps; those of this *)
(* module are "hubStart" and "hubStop".                                    *)
(*                                                                         *)
(* The operating system is external: an address has one server, which      *)
(* answers; a process that finds it taken exits; SIGKILL works within the  *)
(* 2 s given to it.                                                        *)
(* manageHubInExtension stays on, the address is the same for all windows, *)
(* and the runtime's files are there.                                      *)
(***************************************************************************)
EXTENDS Naturals, Sequences

CONSTANTS
    Window,
    MaxCalls,    \* bound: calls of users and events of VS Code; each spawns one process at most
    MaxFaults    \* bound: processes that crash, and steps of the bridge that fail

ASSUME ManagedHubAssumption ==
    /\ Window # {}
    /\ MaxCalls \in Nat
    /\ MaxFaults \in Nat

VARIABLES
    process, mode,   \* this.process and this.state.mode of each window
    call,            \* the calls under way, by window and slot
    exiting,         \* processes whose exit is being looked into
    child,           \* the hub processes
    faults,
    blurred          \* windows in which a call began while another was under way, or a
                     \* process was spawned while the exit of an older one was looked into

processVars == <<process, mode, exiting, child>>
hubVars == <<processVars, call, faults, blurred>>

Slot    == {"queue", "command"}
Child   == 1..MaxCalls
NoChild == 0
Mode    == {"starting", "running", "external", "stopped", "error"}
Step    == {"hubStart", "hubStop", "storeStart", "serverStart", "clientStart", "takeDown", "markDown"}

Todo(steps) == [stage |-> "ready", child |-> NoChild, todo |-> steps]
Idle == Todo(<<>>)

HubTypeOK ==
    /\ process \in [Window -> Child \cup {NoChild}]
    /\ mode \in [Window -> Mode]
    /\ call \in [Window -> [Slot ->
          [stage : {"ready", "probing", "waiting", "terminating", "killing",
                    "storeStarting", "serverStarting", "closing"},
           child : Child \cup {NoChild}, todo : Seq(Step)]]]
    /\ exiting \in SUBSET Child
    /\ child \in [Child -> [state : {"none", "booting", "serving", "dead", "reaped"},
                            window : Window, signal : {"none", "term", "kill"}]]
    /\ faults \in 0..MaxFaults
    /\ blurred \in SUBSET Window

HubInit ==
    /\ process = [w \in Window |-> NoChild]
    /\ mode = [w \in Window |-> "stopped"]
    /\ call = [w \in Window |-> [s \in Slot |-> Idle]]
    /\ exiting = {}
    /\ child = [c \in Child |-> [state |-> "none", window |-> CHOOSE w \in Window : TRUE, signal |-> "none"]]
    /\ faults = 0
    /\ blurred = {}

-----------------------------------------------------------------------------
\* Calls

Busy(w, s) == call[w][s] # Idle

\* waitForProcessExit resolves as soon as the exit of its process is seen.
Reaped(k) == k.stage \in {"terminating", "killing"} /\ child[k.child].state = "reaped"
Ready(w)  == \E s \in Slot : Reaped(call[w][s]) \/ (Busy(w, s) /\ call[w][s].stage = "ready")

Begin(w, s, steps) ==
    /\ ~Ready(w) /\ ~Busy(w, s)
    /\ call' = [call EXCEPT ![w][s] = Todo(steps)]
    /\ blurred' = IF \E r \in Slot : Busy(w, r) THEN blurred \cup {w} ELSE blurred

\* The next step of a call whose continuation is ready.
At(w, s, step) ==
    LET k == call[w][s] IN k.stage = "ready" /\ k.todo # <<>> /\ Head(k.todo) = step

Await(w, s, stage, c) ==
    call' = [call EXCEPT ![w][s] = [stage |-> stage, child |-> c, todo |-> call[w][s].todo]]

GoOn(w, s) == call' = [call EXCEPT ![w][s] = Todo(Tail(call[w][s].todo))]

\* A start that fails is undone by the lifecycle queue; a command only reports it.
StopSteps == <<"takeDown", "hubStop", "markDown">>
GiveUp(w, s) ==
    call' = [call EXCEPT ![w][s] = Todo(IF s = "queue" THEN StopSteps ELSE <<>>)]

-----------------------------------------------------------------------------
\* ManagedHubRuntime.start

LookedInto(w) == \E c \in exiting : child[c].window = w

Serving == \E c \in Child : child[c].state = "serving"

Alive(c) == child[c].state \in {"booting", "serving"}

\* A process this window has and has not killed.
Owns(w) == process[w] # NoChild /\ child[process[w]].signal = "none"

HubStart(w, s) ==
    /\ At(w, s, "hubStart")
    /\ IF Owns(w)
       THEN mode' = [mode EXCEPT ![w] = "running"] /\ GoOn(w, s)
       ELSE Await(w, s, "probing", NoChild) /\ UNCHANGED mode
    /\ UNCHANGED <<process, exiting, child, faults, blurred>>

\* isHubHealthy answers: somebody serves, or this window spawns a process.
HubProbed(w, s) ==
    /\ call[w][s].stage = "probing" /\ ~Ready(w)
    /\ IF Serving
       THEN /\ mode' = [mode EXCEPT ![w] = "external"]
            /\ GoOn(w, s)
            /\ UNCHANGED <<process, child, blurred>>
       ELSE \E c \in Child :
               /\ child[c].state = "none" /\ \A d \in 1..(c - 1) : child[d].state # "none"
               /\ child' = [child EXCEPT ![c] = [state |-> "booting", window |-> w, signal |-> "none"]]
               /\ process' = [process EXCEPT ![w] = c]
               /\ mode' = [mode EXCEPT ![w] = "starting"]
               /\ Await(w, s, "waiting", NoChild)
               /\ blurred' = IF LookedInto(w) THEN blurred \cup {w} ELSE blurred
    /\ UNCHANGED <<exiting, faults>>

\* waitForHealth: the hub that answers need not be this window's.
HubSeenHealthy(w, s) ==
    /\ call[w][s].stage = "waiting" /\ ~Ready(w)
    /\ Serving
    /\ mode' = [mode EXCEPT ![w] = IF process[w] # NoChild THEN "running" ELSE "external"]
    /\ GoOn(w, s)
    /\ UNCHANGED <<process, exiting, child, faults, blurred>>

-----------------------------------------------------------------------------
\* ManagedHubRuntime.stop

\* stop after its look at the mode, up to its await.
Terminate(w) ==
    /\ mode' = [mode EXCEPT ![w] = "stopped"]
    /\ process' = [process EXCEPT ![w] = NoChild]
    /\ child' = IF Owns(w) THEN [child EXCEPT ![process[w]].signal = "term"] ELSE child

HubStop(w, s) ==
    /\ At(w, s, "hubStop")
    /\ \/ /\ mode[w] = "external"
          /\ mode' = [mode EXCEPT ![w] = "stopped"]
          /\ GoOn(w, s)
          /\ UNCHANGED <<process, child>>
       \/ /\ mode[w] # "external"
          /\ Terminate(w)
          /\ IF Owns(w) THEN Await(w, s, "terminating", process[w]) ELSE GoOn(w, s)
    /\ UNCHANGED <<exiting, faults, blurred>>

OnlyThrow(w, s) == GiveUp(w, s) /\ mode' = [mode EXCEPT ![w] = "error"] /\ UNCHANGED <<process, child>>
StopAndThrow(w, s) ==
    Terminate(w) /\ IF Owns(w) THEN Await(w, s, "terminating", process[w]) ELSE GiveUp(w, s)

\* waitForHealth gives up after 15 s; start is in error, stops what it began and throws.
HubNeverHealthy(w, s) ==
    /\ call[w][s].stage = "waiting" /\ ~Ready(w)
    /\ ~Serving
    /\ StopAndThrow(w, s)
    /\ UNCHANGED <<exiting, faults, blurred>>

KeptAlive(c) == UNCHANGED child
Killed(c) == child' = [child EXCEPT ![c].signal = "kill"]

\* 4 s after SIGTERM.
TermTimesOut(w, s) ==
    LET c == call[w][s].child IN
    /\ call[w][s].stage = "terminating" /\ ~Ready(w)
    /\ Killed(c)
    /\ Await(w, s, "killing", c)
    /\ UNCHANGED <<process, mode, exiting, faults, blurred>>

\* The end of stop: of a step of its own, or within a start that fails.
HubStopped(w, s) ==
    /\ Reaped(call[w][s])
    /\ IF Head(call[w][s].todo) = "hubStop" THEN GoOn(w, s) ELSE GiveUp(w, s)
    /\ UNCHANGED <<process, mode, exiting, child, faults, blurred>>

-----------------------------------------------------------------------------
\* handleManagedProcessExit

ExitSeen(c) ==
    LET w == child[c].window IN
    /\ child[c].state = "dead" /\ ~Ready(w)
    /\ child' = [child EXCEPT ![c].state = "reaped"]
    /\ IF mode[w] = "stopped"
       THEN UNCHANGED <<process, exiting>>
       ELSE process' = [process EXCEPT ![w] = NoChild] /\ exiting' = exiting \cup {c}
    /\ UNCHANGED <<mode, call, faults, blurred>>

OnlyMineCounts == "error"
Verdict == IF Serving THEN "external" ELSE "error"

ExitLookedInto(c) ==
    LET w == child[c].window IN
    /\ c \in exiting /\ ~Ready(w)
    /\ exiting' = exiting \ {c}
    /\ mode' = [mode EXCEPT ![w] = Verdict]
    /\ UNCHANGED <<process, call, child, faults, blurred>>

-----------------------------------------------------------------------------
\* The operating system (external)

ProcessServes(c) ==
    /\ child[c].state = "booting" /\ ~Serving
    /\ child' = [child EXCEPT ![c].state = "serving"]
    /\ UNCHANGED <<process, mode, call, exiting, faults, blurred>>

\* The address is taken, or a signal came, or it crashes.
ProcessExits(c) ==
    /\ Alive(c)
    /\ \/ /\ child[c].signal # "none" \/ (child[c].state = "booting" /\ Serving)
          /\ UNCHANGED faults
       \/ faults < MaxFaults /\ faults' = faults + 1
    /\ child' = [child EXCEPT ![c].state = "dead"]
    /\ UNCHANGED <<process, mode, call, exiting, blurred>>

-----------------------------------------------------------------------------
HubCallStep(w, s) ==
    \/ HubStart(w, s) \/ HubProbed(w, s) \/ HubSeenHealthy(w, s) \/ HubNeverHealthy(w, s)
    \/ HubStop(w, s) \/ TermTimesOut(w, s) \/ HubStopped(w, s)

ProcessStep(c) ==
    \/ ProcessServes(c) \/ ProcessExits(c) \/ ExitSeen(c) \/ ExitLookedInto(c)

=============================================================================
