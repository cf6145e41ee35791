----------------------------- MODULE HubClient ------------------------------
(***************************************************************************)
(* The registration client of a bridge, class HubClient of                 *)
(* packages/bridge-vscode/src/hubClient.ts, as the operators its callers   *)
(* are made of. Every start of the extension makes a new client and a new  *)
(* port; the number of starts so far (instance) stands for both. The steps *)
(* that send a request are completed in HubRegistration, with the network. *)
(***************************************************************************)
EXTENDS Naturals

CONSTANTS
    MaxInstances,     \* bound: how many times the bridge is started
    HeartbeatEvery,   \* heartbeatIntervalMs, in ticks
    RetryBase,        \* REGISTER_RETRY_BASE_MS
    RetryMax          \* REGISTER_RETRY_MAX_MS

ASSUME HubClientAssumption ==
    /\ MaxInstances \in Nat \ {0}
    /\ HeartbeatEvery \in Nat \ {0}
    /\ RetryBase \in Nat \ {0}
    /\ RetryMax \in Nat /\ RetryBase <= RetryMax

VARIABLES
    instance, running, isRegistered, registrationInFlight,
    currentRetryDelay,
    retryTimer,       \* ticks until registerRetryTimer fires, Off when it is null
    beatTimer         \* ticks until heartbeatTimer fires

clientVars == <<instance, running, isRegistered, registrationInFlight,
                currentRetryDelay, retryTimer, beatTimer>>

Off == 2 * RetryMax

\* withJitter: 80% to 120% of the delay.
Jittered(delay) == {d \in 1..(2 * delay) : 4 * delay <= 5 * d /\ 5 * d <= 6 * delay}

ClientTypeOK ==
    /\ instance \in 0..MaxInstances
    /\ running \in BOOLEAN
    /\ isRegistered \in BOOLEAN
    /\ registrationInFlight \in BOOLEAN
    /\ currentRetryDelay \in RetryBase..RetryMax
    /\ retryTimer \in 0..Off
    /\ beatTimer \in 0..HeartbeatEvery

ClientInit ==
    /\ instance = 0
    /\ running = FALSE
    /\ isRegistered = FALSE
    /\ registrationInFlight = FALSE
    /\ currentRetryDelay = RetryBase
    /\ retryTimer = Off
    /\ beatTimer = HeartbeatEvery

\* The early returns of attemptRegister.
MayAttempt(force) == ~registrationInFlight /\ (retryTimer = Off \/ force)

\* scheduleRegisterRetry: the next delay is doubled, up to RetryMax.
ScheduleRetryForgotten == UNCHANGED <<retryTimer, currentRetryDelay>>
ScheduleRetry ==
    IF retryTimer # Off THEN UNCHANGED <<retryTimer, currentRetryDelay>>
    ELSE /\ retryTimer' \in Jittered(currentRetryDelay)
         /\ currentRetryDelay' = IF 2 * currentRetryDelay > RetryMax
                                 THEN RetryMax ELSE 2 * currentRetryDelay

\* The reply to a register request: success, then failure.
Registered ==
    /\ isRegistered' = TRUE
    /\ registrationInFlight' = FALSE
    /\ currentRetryDelay' = RetryBase
    /\ UNCHANGED <<instance, running, retryTimer, beatTimer>>

RegistrationFailed ==
    /\ isRegistered' = FALSE
    /\ ScheduleRetry
    /\ registrationInFlight' = FALSE
    /\ UNCHANGED <<instance, running, beatTimer>>

\* stop(): nothing that is in flight is called off.
StopClient ==
    /\ running
    /\ running' = FALSE
    /\ isRegistered' = FALSE
    /\ registrationInFlight' = FALSE
    /\ retryTimer' = Off
    /\ UNCHANGED <<instance, currentRetryDelay, beatTimer>>

TimersTick ==
    /\ running => beatTimer > 0
    /\ retryTimer > 0
    /\ retryTimer' = IF retryTimer = Off THEN Off ELSE retryTimer - 1
    /\ beatTimer' = IF running THEN beatTimer - 1 ELSE beatTimer
    /\ UNCHANGED <<instance, running, isRegistered, registrationInFlight, currentRetryDelay>>

=============================================================================
