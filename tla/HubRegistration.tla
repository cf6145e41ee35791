-------------------------- MODULE HubRegistration ---------------------------
(***************************************************************************)
(* A bridge and the hub: HubClient's heartbeats and registrations          *)
(* (packages/bridge-vscode/src/hubClient.ts) against the hub's two         *)
(* internal handlers (packages/hub/src/server.ts) and its registry.        *)
(*                                                                         *)
(* Each request is an HTTP exchange of its own, so requests overlap and    *)
(* arrive in any order. Nobody bounds an exchange in the code; here it     *)
(* takes at most MaxLatency ticks from the request to the reply, the       *)
(* condition under which the TTL can mean anything. Faults (a lost request *)
(* or reply, a crash of the hub, which forgets its registry) are explored  *)
(* up to MaxFaults; while the hub is down every request fails.             *)
(***************************************************************************)
EXTENDS HubClient, BridgeRegistry

CONSTANTS
    MaxLatency,   \* longest exchange, in ticks
    MaxFaults     \* bound: faults that are explored

ASSUME HubRegistrationAssumption ==
    /\ Port = 1..MaxInstances
    /\ MaxLatency \in Nat /\ MaxLatency <= Ttl
    /\ MaxFaults \in Nat

VARIABLES
    hubUp, faults,
    net,      \* the exchanges under way
    silence   \* ticks since a bridge was last running, for the properties

vars == <<clientVars, entry, hubUp, faults, net, silence>>

Exchange == [kind : {"register", "heartbeat"}, port : Port, age : 0..MaxLatency,
             reply : {"none", "ok", "notFound", "error"}]

TypeOK ==
    /\ ClientTypeOK
    /\ RegistryTypeOK
    /\ hubUp \in BOOLEAN
    /\ faults \in 0..MaxFaults
    /\ net \in SUBSET Exchange
    /\ silence \in 0..(Ttl + 1)

Init ==
    /\ ClientInit
    /\ RegistryInit
    /\ hubUp \in BOOLEAN
    /\ faults = 0
    /\ net = {}
    /\ silence = 0

-----------------------------------------------------------------------------
\* The bridge

Post(rest, kind, port) ==
    net' = rest \cup {[kind |-> kind, port |-> port, age |-> 0, reply |-> "none"]}

\* attemptRegister up to its await, with rest what is left of net.
AttemptRegister(force, rest) ==
    IF MayAttempt(force)
    THEN registrationInFlight' = TRUE /\ retryTimer' = Off /\ Post(rest, "register", instance)
    ELSE net' = rest /\ UNCHANGED <<registrationInFlight, retryTimer>>

StartBridge ==
    /\ ~running
    /\ instance < MaxInstances
    /\ instance' = instance + 1
    /\ running' = TRUE
    /\ isRegistered' = FALSE
    /\ registrationInFlight' = TRUE
    /\ currentRetryDelay' = RetryBase
    /\ retryTimer' = Off
    /\ beatTimer' = HeartbeatEvery
    /\ Post(net, "register", instance + 1)
    /\ silence' = 0
    /\ UNCHANGED <<entry, hubUp, faults>>

StopBridge == StopClient /\ UNCHANGED <<entry, hubUp, faults, net, silence>>

HeartbeatFires ==
    /\ running
    /\ beatTimer = 0
    /\ beatTimer' = HeartbeatEvery
    /\ IF isRegistered
       THEN Post(net, "heartbeat", instance) /\ UNCHANGED <<registrationInFlight, retryTimer>>
       ELSE AttemptRegister(FALSE, net)
    /\ UNCHANGED <<instance, running, isRegistered, currentRetryDelay, entry, hubUp, faults, silence>>

\* The timer's callback clears it before it calls attemptRegister.
RetryFires ==
    /\ retryTimer = 0
    /\ retryTimer' = Off
    /\ IF registrationInFlight THEN UNCHANGED <<registrationInFlight, net>>
       ELSE registrationInFlight' = TRUE /\ Post(net, "register", instance)
    /\ UNCHANGED <<instance, running, isRegistered, currentRetryDelay, beatTimer, entry,
                   hubUp, faults, silence>>

\* The client of an exchange is the one running now; another client's
\* continuation finds running false and leaves everything as it is.
Current(x) == running /\ x.port = instance

Settle(x, kind, replies) == x.kind = kind /\ x.reply \in replies

RegisterReturns(x) ==
    /\ Settle(x, "register", {"ok", "error"})
    /\ Current(x)
    /\ IF x.reply = "ok" THEN Registered ELSE RegistrationFailed
    /\ net' = net \ {x}
    /\ UNCHANGED <<entry, hubUp, faults, silence>>

\* A 404, also one that comes after the bridge has registered again.
HeartbeatNotFound(x) ==
    isRegistered' = FALSE /\ AttemptRegister(TRUE, net \ {x})

HeartbeatReturns(x) ==
    /\ Settle(x, "heartbeat", {"ok", "notFound", "error"})
    /\ Current(x)
    /\ IF x.reply = "notFound" THEN HeartbeatNotFound(x)
       ELSE net' = net \ {x} /\ UNCHANGED <<isRegistered, registrationInFlight, retryTimer>>
    /\ UNCHANGED <<instance, running, currentRetryDelay, beatTimer, entry, hubUp, faults, silence>>

ReturnsToNobody(x) ==
    /\ x.reply # "none"
    /\ ~Current(x)
    /\ net' = net \ {x}
    /\ UNCHANGED <<clientVars, entry, hubUp, faults, silence>>

-----------------------------------------------------------------------------
\* The hub

Answer(x, reply) == net' = (net \ {x}) \cup {[x EXCEPT !.reply = reply]}

HubRegisters(x) ==
    /\ hubUp
    /\ Settle(x, "register", {"none"})
    /\ Register(x.port, x.age)
    /\ Answer(x, "ok")
    /\ UNCHANGED <<clientVars, hubUp, faults, silence>>

HubTakesHeartbeat(x) ==
    /\ hubUp
    /\ Settle(x, "heartbeat", {"none"})
    /\ \/ Heartbeat(x.age) /\ Answer(x, "ok")
       \/ entry = NoEntry /\ Answer(x, "notFound") /\ UNCHANGED entry
    /\ UNCHANGED <<clientVars, hubUp, faults, silence>>

HubPrunes ==
    /\ hubUp
    /\ PruneStale
    /\ UNCHANGED <<clientVars, hubUp, faults, net, silence>>

HubStarts ==
    /\ ~hubUp
    /\ hubUp' = TRUE
    /\ UNCHANGED <<clientVars, entry, faults, net, silence>>

\* The registry is in memory only; requests being served fail.
HubCrashes ==
    /\ hubUp
    /\ faults < MaxFaults
    /\ hubUp' = FALSE
    /\ faults' = faults + 1
    /\ entry' = NoEntry
    /\ net' = {IF x.reply = "none" THEN [x EXCEPT !.reply = "error"] ELSE x : x \in net}
    /\ UNCHANGED <<clientVars, silence>>

\* Refused by a hub that is down, or lost: before the hub saw it, or after.
ExchangeFails(x) ==
    /\ x.reply # "error"
    /\ IF hubUp THEN faults < MaxFaults /\ faults' = faults + 1
                ELSE x.reply = "none" /\ UNCHANGED faults
    /\ Answer(x, "error")
    /\ UNCHANGED <<clientVars, entry, hubUp, silence>>

\* A tick waits for the timers that are due and the exchanges at their limit.
Tick ==
    /\ \A x \in net : x.age < MaxLatency
    /\ TimersTick
    /\ net' = {[x EXCEPT !.age = @ + 1] : x \in net}
    /\ EntryAges
    /\ silence' = IF running THEN 0 ELSE Older(silence)
    /\ UNCHANGED <<hubUp, faults>>

-----------------------------------------------------------------------------
Timers   == HeartbeatFires \/ RetryFires
Returns  == \E x \in net : RegisterReturns(x) \/ HeartbeatReturns(x) \/ ReturnsToNobody(x)
HubSteps == \E x \in net : HubRegisters(x) \/ HubTakesHeartbeat(x)

Next ==
    \/ StartBridge \/ StopBridge
    \/ Timers \/ Returns
    \/ HubSteps \/ HubPrunes \/ HubStarts \/ HubCrashes
    \/ \E x \in net : ExchangeFails(x)
    \/ Tick

Spec == Init /\ [][Next]_vars

\* Time passes, timers fire, exchanges end, and a hub that is down is started
\* again by somebody; whether the bridge is started again is left open.
FairSpec ==
    /\ Spec
    /\ WF_vars(Tick)
    /\ WF_vars(Timers)
    /\ WF_vars(Returns)
    /\ WF_vars(HubSteps)
    /\ WF_vars(HubStarts)
    /\ WF_vars(\E x \in net : ~hubUp /\ ExchangeFails(x))

-----------------------------------------------------------------------------
(***************************************************************************)
(* Properties                                                              *)
(***************************************************************************)

Attempts == {x \in net : x.kind = "register" /\ Current(x)}

\* A running client that is not registered is on its way to be: one attempt
\* is under way or the retry timer is set, never both, and never two attempts
\* (attemptRegister, called by start, heartbeat, 404 and retry).
OneAttemptAtATime ==
    running =>
        /\ \A x, y \in Attempts : x = y
        /\ registrationInFlight <=> Attempts # {}
        /\ ~(registrationInFlight /\ retryTimer # Off)
        /\ ~isRegistered => registrationInFlight \/ retryTimer # Off

\* The hub shows a bridge only if one was running within the last Ttl ticks: a
\* registration or heartbeat that comes late, after the bridge has stopped,
\* does not bring it back for longer (register, heartbeat, isStale).
ListedMeansRecentlyAlive == Listed => entry.age >= silence

\* As long as nothing has failed, a bridge that believes it is registered is
\* shown by the hub and never pruned, late and overtaken heartbeats included.
\* (After a restart a late registration of the earlier instance breaks this.)
NoFalseOffline == faults = 0 /\ instance = 1 /\ isRegistered => Listed

\* Once nothing fails any more, a bridge that stays up is shown and stays
\* shown, whatever was lost and whenever the hub restarted. (The port it is shown
\* with may be that of an earlier instance: register takes them in order of arrival.)
Recovers == <>[](running => isRegistered /\ Listed)

=============================================================================
