----------------------- MODULE HubRegistration_proofs -----------------------
(***************************************************************************)
(* Theorems about HubRegistration for any number of starts of the bridge   *)
(* and of faults, and any periods and delays.                              *)
(***************************************************************************)
EXTENDS HubRegistration, TLAPS

\* A client that is stopped has nothing under way, and exchanges are of the client that
\* runs or of earlier ones.
Quiet ==
    /\ running => instance \in Port
    /\ ~running => ~registrationInFlight /\ retryTimer = Off
    /\ \A x \in net : x.port <= instance

\* Messages are sent by a running bridge, so that they are as old as its silence, and so
\* is what the hub has taken from them.
Silent ==
    /\ running => silence = 0
    /\ \A x \in net : x.age >= silence
    /\ entry # NoEntry => entry.age >= silence

IInv == TypeOK /\ Quiet /\ OneAttemptAtATime /\ Silent

-----------------------------------------------------------------------------
(* Facts about the operators.                                              *)

LEMMA OffIsNoDelay ==
    ASSUME NEW delay \in RetryBase..RetryMax, NEW d \in Jittered(delay)
    PROVE  d \in 0..Off /\ d # Off
<1>1. RetryBase \in Nat /\ RetryMax \in Nat /\ delay \in Nat /\ delay <= RetryMax /\ RetryBase > 0 /\ delay > 0
  BY HubClientAssumption
<1>2. d \in Nat /\ 5 * d <= 6 * delay
  BY <1>1 DEF Jittered
<1> QED
  BY <1>1, <1>2 DEF Off

LEMMA OffType == Off \in Nat /\ Off > 0 /\ 0 \in 0..Off /\ Off \in 0..Off /\ Off # 0
BY HubClientAssumption DEF Off

LEMMA OlderType == \A a \in 0..(Ttl + 1) : Older(a) \in 0..(Ttl + 1)
BY RegistryAssumption DEF Older

LEMMA OlderMonotone == \A a, b \in 0..(Ttl + 1) : a >= b => Older(a) >= Older(b)
BY RegistryAssumption DEF Older

\* Exchanges keep their shape, whatever is posted or answered.
LEMMA Posted ==
    ASSUME TypeOK, NEW k \in {"register", "heartbeat"}, NEW p \in Port
    PROVE  LET e == [kind |-> k, port |-> p, age |-> 0, reply |-> "none"]
           IN  e \in Exchange /\ e.kind = k /\ e.port = p /\ e.age = 0
BY HubRegistrationAssumption DEF Exchange

LEMMA Answered ==
    ASSUME NEW x \in Exchange, NEW r \in {"none", "ok", "notFound", "error"}
    PROVE  LET e == [x EXCEPT !.reply = r]
           IN  e \in Exchange /\ e.kind = x.kind /\ e.port = x.port /\ e.age = x.age
BY SMTT(20) DEF Exchange

LEMMA Aged ==
    ASSUME NEW x \in Exchange, x.age < MaxLatency
    PROVE  LET e == [x EXCEPT !.age = x.age + 1]
           IN  e \in Exchange /\ e.kind = x.kind /\ e.port = x.port /\ e.age = x.age + 1
<1>1. x.age \in 0..MaxLatency /\ x.age + 1 \in 0..MaxLatency
  BY HubRegistrationAssumption DEF Exchange
<1> QED
  BY <1>1, SMTT(20) DEF Exchange

-----------------------------------------------------------------------------
(* The bridge's steps.                                                     *)

LEMMA StartBridgeInv ==
    ASSUME IInv, StartBridge PROVE IInv'
<1>1. TypeOK /\ Quiet /\ Silent
  BY DEF IInv
<1>2. PICK e : e = [kind |-> "register", port |-> instance + 1, age |-> 0, reply |-> "none"]
  OBVIOUS
<1>3. instance + 1 \in Port /\ instance \in Nat /\ instance + 1 \in 0..MaxInstances
  BY <1>1, HubRegistrationAssumption, HubClientAssumption DEF StartBridge, TypeOK, ClientTypeOK
<1>4. e \in Exchange /\ e.kind = "register" /\ e.port = instance + 1 /\ e.age = 0
  BY <1>1, <1>2, <1>3, Posted
<1>5. net' = net \cup {e}
  BY <1>2 DEF StartBridge, Post
<1>6. TypeOK'
  <2>1. ClientTypeOK'
    <3>1. /\ instance' \in 0..MaxInstances /\ currentRetryDelay' \in RetryBase..RetryMax
          /\ retryTimer' \in 0..Off /\ beatTimer' \in 0..HeartbeatEvery
      BY <1>3, OffType, HubClientAssumption DEF StartBridge
    <3>2. running' \in BOOLEAN /\ isRegistered' \in BOOLEAN /\ registrationInFlight' \in BOOLEAN
      BY DEF StartBridge
    <3> QED
      BY <3>1, <3>2 DEF ClientTypeOK
  <2>2. silence' \in 0..(Ttl + 1)
    BY RegistryAssumption DEF StartBridge
  <2> QED
    BY <1>1, <1>4, <1>5, <2>1, <2>2 DEF StartBridge, TypeOK, RegistryTypeOK
<1>7. \A x \in net : x \in Exchange /\ x.port \in Nat /\ x.age \in Nat /\ x.port <= instance
  BY <1>1, HubRegistrationAssumption DEF TypeOK, Quiet, Exchange
<1>8. Quiet'
  BY <1>3, <1>4, <1>5, <1>7 DEF StartBridge, Quiet
<1>9. OneAttemptAtATime'
  <2>1. Attempts' = {e}
    BY <1>3, <1>4, <1>5, <1>7 DEF StartBridge, Attempts, Current
  <2> QED
    BY <2>1 DEF StartBridge, OneAttemptAtATime
<1>10. Silent'
  <2>1. entry # NoEntry => entry.age >= 0
    BY <1>1 DEF TypeOK, RegistryTypeOK, Entry
  <2> QED
    BY <1>4, <1>5, <1>7, <2>1 DEF StartBridge, Silent
<1> QED
  BY <1>6, <1>8, <1>9, <1>10 DEF IInv

LEMMA StopBridgeInv ==
    ASSUME IInv, StopBridge PROVE IInv'
<1>1. TypeOK /\ Quiet /\ Silent
  BY DEF IInv
<1>2. TypeOK'
  BY <1>1, OffType DEF StopBridge, StopClient, TypeOK, ClientTypeOK, RegistryTypeOK
<1>3. Quiet' /\ OneAttemptAtATime' /\ Silent'
  BY <1>1 DEF StopBridge, StopClient, Quiet, OneAttemptAtATime, Silent
<1> QED
  BY <1>2, <1>3 DEF IInv

NewAttempt(x) == x.kind = "register" /\ x.port = instance /\ x.age = 0 /\ x.reply = "none"

\* attemptRegister, called with what it leaves of the exchanges: either it returns at
\* once, or it posts a registration.
LEMMA AttemptStep ==
    ASSUME IInv, running = TRUE, NEW force \in BOOLEAN, NEW rest \in SUBSET net,
           AttemptRegister(force, rest), \A x \in net \ rest : x.kind = "heartbeat",
           UNCHANGED <<running, instance>>
    PROVE  /\ net' \in SUBSET Exchange /\ registrationInFlight' \in BOOLEAN /\ retryTimer' \in 0..Off
           /\ \A x \in net' : x \in net \/ NewAttempt(x)
           /\ \/ Attempts' = Attempts /\ UNCHANGED <<registrationInFlight, retryTimer>>
                 /\ (registrationInFlight \/ (retryTimer # Off /\ ~force))
              \/ registrationInFlight' = TRUE /\ retryTimer' = Off /\ \E e : Attempts' = {e}
<1>1. TypeOK /\ Quiet /\ OneAttemptAtATime
  BY DEF IInv
<1>2. PICK e : e = [kind |-> "register", port |-> instance, age |-> 0, reply |-> "none"]
  OBVIOUS
<1>3. instance \in 0..MaxInstances /\ MaxInstances \in Nat /\ retryTimer \in 0..Off /\ Off \in 0..Off
      /\ net \in SUBSET Exchange /\ registrationInFlight \in BOOLEAN
  BY <1>1, OffType, HubClientAssumption DEF TypeOK, ClientTypeOK
<1>4. CASE MayAttempt(force)
  <2>1. registrationInFlight' = TRUE /\ retryTimer' = Off /\ net' = rest \cup {e}
    BY <1>2, <1>4 DEF AttemptRegister, Post
  <2>2. Attempts = {}
    BY <1>1, <1>4 DEF MayAttempt, OneAttemptAtATime
  <2>3. e \in Exchange /\ e.kind = "register" /\ e.port = instance /\ e.age = 0 /\ e.reply = "none"
    BY <1>1, <1>2, Posted DEF Quiet
  <2>4. Attempts' = {e}
    <3>1. \A x \in rest : ~(x.kind = "register" /\ Current(x))
      BY <2>2 DEF Attempts
    <3> QED
      BY <2>1, <2>3, <3>1 DEF Attempts, Current
  <2>5. net' \in SUBSET Exchange /\ \A x \in net' : x \in net \/ NewAttempt(x)
    BY <1>3, <2>1, <2>3 DEF NewAttempt
  <2> QED
    BY <1>3, <2>1, <2>4, <2>5
<1>5. CASE ~MayAttempt(force)
  <2>1. net' = rest /\ UNCHANGED <<registrationInFlight, retryTimer>>
    BY <1>5 DEF AttemptRegister
  <2>2. Attempts' = Attempts
    BY <2>1 DEF Attempts, Current
  <2> QED
    BY <1>3, <1>5, <2>1, <2>2 DEF MayAttempt
<1> QED
  BY <1>4, <1>5

\* What the client's steps have in common: the hub sees nothing of them.
ClientOnly == UNCHANGED <<instance, running, entry, hubUp, faults, silence>>

LEMMA ClientStep ==
    ASSUME IInv, running = TRUE, ClientOnly,
           net' \in SUBSET Exchange, \A x \in net' : x \in net \/ (x.port = instance /\ x.age = 0),
           ClientTypeOK', OneAttemptAtATime'
    PROVE  IInv'
<1>1. TypeOK /\ Quiet /\ Silent
  BY DEF IInv
<1>2. TypeOK'
  BY <1>1 DEF TypeOK, ClientOnly, RegistryTypeOK
<1>3. instance \in Nat /\ silence = 0
  BY <1>1, HubClientAssumption DEF TypeOK, ClientTypeOK, Silent
<1>4. Quiet'
  BY <1>1, <1>3 DEF Quiet, ClientOnly
<1>5. Silent'
  BY <1>1, <1>3 DEF Silent, ClientOnly
<1> QED
  BY <1>2, <1>4, <1>5 DEF IInv

LEMMA HeartbeatFiresInv ==
    ASSUME IInv, HeartbeatFires PROVE IInv'
<1>1. TypeOK /\ Quiet /\ OneAttemptAtATime /\ running = TRUE /\ running' = TRUE
  BY DEF IInv, HeartbeatFires, TypeOK, ClientTypeOK
<1>2. ClientOnly /\ UNCHANGED <<isRegistered, currentRetryDelay>> /\ beatTimer' = HeartbeatEvery
  BY DEF HeartbeatFires, ClientOnly
<1>3. beatTimer' \in 0..HeartbeatEvery
  BY <1>2, HubClientAssumption
<1>4. CASE isRegistered
  <2>1. PICK e : e = [kind |-> "heartbeat", port |-> instance, age |-> 0, reply |-> "none"]
    OBVIOUS
  <2>2. net' = net \cup {e} /\ UNCHANGED <<registrationInFlight, retryTimer>>
    BY <1>4, <2>1 DEF HeartbeatFires, Post
  <2>3. e \in Exchange /\ e.kind = "heartbeat" /\ e.port = instance /\ e.age = 0
    BY <1>1, <2>1, Posted DEF Quiet
  <2>4. net' \in SUBSET Exchange /\ \A x \in net' : x \in net \/ (x.port = instance /\ x.age = 0)
    BY <1>1, <2>2, <2>3 DEF TypeOK
  <2>5. Attempts' = Attempts
    BY <1>2, <2>2, <2>3 DEF Attempts, Current, ClientOnly
  <2>6. OneAttemptAtATime'
    BY <1>1, <1>2, <2>2, <2>5 DEF OneAttemptAtATime
  <2>7. ClientTypeOK'
    BY <1>1, <1>2, <1>3, <2>2 DEF TypeOK, ClientTypeOK, ClientOnly
  <2> QED
    BY <1>1, <1>2, <2>4, <2>6, <2>7, ClientStep
<1>5. CASE ~isRegistered
  <2>1. AttemptRegister(FALSE, net) /\ UNCHANGED <<running, instance>>
    BY <1>5 DEF HeartbeatFires
  <2>2. /\ net' \in SUBSET Exchange /\ registrationInFlight' \in BOOLEAN /\ retryTimer' \in 0..Off
        /\ \A x \in net' : x \in net \/ (x.port = instance /\ x.age = 0)
        /\ \/ Attempts' = Attempts /\ UNCHANGED <<registrationInFlight, retryTimer>>
           \/ registrationInFlight' = TRUE /\ retryTimer' = Off /\ \E e : Attempts' = {e}
    BY <1>1, <2>1, AttemptStep DEF NewAttempt
  <2>3. ClientTypeOK'
    BY <1>1, <1>2, <1>3, <2>2 DEF TypeOK, ClientTypeOK, ClientOnly
  <2>4. OneAttemptAtATime'
    BY <1>1, <1>2, <2>2 DEF OneAttemptAtATime
  <2> QED
    BY <1>1, <1>2, <2>2, <2>3, <2>4, ClientStep
<1> QED
  BY <1>4, <1>5

LEMMA RetryFiresInv ==
    ASSUME IInv, RetryFires PROVE IInv'
<1>1. TypeOK /\ Quiet /\ OneAttemptAtATime /\ retryTimer = 0 /\ retryTimer' = Off
  BY DEF IInv, RetryFires
<1>2. ClientOnly /\ UNCHANGED <<isRegistered, currentRetryDelay, beatTimer>>
  BY DEF RetryFires, ClientOnly
<1>3. running = TRUE /\ running' = TRUE /\ retryTimer # Off
  BY <1>1, <1>2, OffType DEF Quiet, TypeOK, ClientTypeOK, ClientOnly
<1>4. ~registrationInFlight /\ Attempts = {}
  BY <1>1, <1>3 DEF OneAttemptAtATime
<1>5. PICK e : e = [kind |-> "register", port |-> instance, age |-> 0, reply |-> "none"]
  OBVIOUS
<1>6. registrationInFlight' = TRUE /\ net' = net \cup {e}
  BY <1>4, <1>5 DEF RetryFires, Post
<1>7. e \in Exchange /\ e.kind = "register" /\ e.port = instance /\ e.age = 0
  BY <1>1, <1>3, <1>5, Posted DEF Quiet
<1>8. net' \in SUBSET Exchange /\ \A x \in net' : x \in net \/ (x.port = instance /\ x.age = 0)
  BY <1>1, <1>6, <1>7 DEF TypeOK
<1>9. Attempts' = {e}
  <2>1. \A x \in net : ~(x.kind = "register" /\ Current(x))
    BY <1>4 DEF Attempts
  <2> QED
    BY <1>2, <1>3, <1>6, <1>7, <2>1 DEF Attempts, Current, ClientOnly
<1>10. OneAttemptAtATime'
  BY <1>1, <1>6, <1>9 DEF OneAttemptAtATime
<1>11. ClientTypeOK'
  <2>1. registrationInFlight' \in BOOLEAN
    BY <1>6
  <2> QED
    BY <1>1, <1>2, <2>1, OffType DEF TypeOK, ClientTypeOK, ClientOnly
<1> QED
  BY <1>2, <1>3, <1>8, <1>10, <1>11, ClientStep

LEMMA ScheduleRetryStep ==
    ASSUME TypeOK, ScheduleRetry
    PROVE  retryTimer' \in 0..Off /\ retryTimer' # Off /\ currentRetryDelay' \in RetryBase..RetryMax
<1>1. retryTimer \in 0..Off /\ currentRetryDelay \in RetryBase..RetryMax
  BY DEF TypeOK, ClientTypeOK
<1>2. CASE retryTimer # Off
  BY <1>1, <1>2 DEF ScheduleRetry
<1>3. CASE retryTimer = Off
  <2>1. retryTimer' \in Jittered(currentRetryDelay)
    BY <1>3 DEF ScheduleRetry
  <2>2. currentRetryDelay' = IF 2 * currentRetryDelay > RetryMax THEN RetryMax ELSE 2 * currentRetryDelay
    BY <1>3 DEF ScheduleRetry
  <2>3. currentRetryDelay' \in RetryBase..RetryMax
    BY <1>1, <2>2, HubClientAssumption
  <2> QED
    BY <1>1, <2>1, <2>3, OffIsNoDelay
<1> QED
  BY <1>2, <1>3

LEMMA RegisterReturnsInv ==
    ASSUME IInv, NEW x \in net, RegisterReturns(x) PROVE IInv'
<1>1. TypeOK /\ Quiet /\ OneAttemptAtATime /\ running = TRUE /\ running' = TRUE
  BY DEF IInv, RegisterReturns, TypeOK, ClientTypeOK, Current, Registered, RegistrationFailed
<1>2. ClientOnly /\ net' = net \ {x} /\ UNCHANGED beatTimer /\ registrationInFlight' = FALSE
  BY DEF RegisterReturns, ClientOnly, Registered, RegistrationFailed
<1>3. Attempts = {x} /\ registrationInFlight = TRUE /\ retryTimer = Off
  BY <1>1 DEF RegisterReturns, Settle, Attempts, OneAttemptAtATime, TypeOK, ClientTypeOK
<1>4. Attempts' = {}
  BY <1>2, <1>3 DEF Attempts, Current, ClientOnly
<1>5. net' \in SUBSET Exchange /\ \A y \in net' : y \in net
  BY <1>1, <1>2 DEF TypeOK
<1>6. CASE x.reply = "ok"
  <2>1. Registered
    BY <1>6 DEF RegisterReturns
  <2>2. isRegistered' = TRUE /\ UNCHANGED retryTimer /\ currentRetryDelay' = RetryBase
    BY <2>1 DEF Registered
  <2>3. currentRetryDelay' \in RetryBase..RetryMax
    BY <2>2, HubClientAssumption
  <2>4. ClientTypeOK'
    BY <1>1, <1>2, <2>2, <2>3 DEF TypeOK, ClientTypeOK, ClientOnly
  <2>5. OneAttemptAtATime'
    BY <1>2, <1>4, <2>2 DEF OneAttemptAtATime
  <2> QED
    BY <1>1, <1>2, <1>5, <2>4, <2>5, ClientStep
<1>7. CASE x.reply # "ok"
  <2>1. ScheduleRetry /\ isRegistered' = FALSE
    BY <1>7 DEF RegisterReturns, RegistrationFailed
  <2>2. retryTimer' \in 0..Off /\ retryTimer' # Off /\ currentRetryDelay' \in RetryBase..RetryMax
    BY <1>1, <2>1, ScheduleRetryStep
  <2>3. ClientTypeOK'
    BY <1>1, <1>2, <2>1, <2>2 DEF TypeOK, ClientTypeOK, ClientOnly
  <2>4. OneAttemptAtATime'
    BY <1>2, <1>4, <2>2 DEF OneAttemptAtATime
  <2> QED
    BY <1>1, <1>2, <1>5, <2>3, <2>4, ClientStep
<1> QED
  BY <1>6, <1>7

LEMMA HeartbeatReturnsInv ==
    ASSUME IInv, NEW x \in net, HeartbeatReturns(x) PROVE IInv'
<1>1. TypeOK /\ Quiet /\ OneAttemptAtATime /\ running = TRUE /\ running' = TRUE /\ x.kind = "heartbeat"
  BY DEF IInv, HeartbeatReturns, TypeOK, ClientTypeOK, Current, Settle
<1>2. ClientOnly /\ UNCHANGED <<currentRetryDelay, beatTimer>>
  BY DEF HeartbeatReturns, ClientOnly
<1>3. CASE x.reply # "notFound"
  <2>1. net' = net \ {x} /\ UNCHANGED <<isRegistered, registrationInFlight, retryTimer>>
    BY <1>3 DEF HeartbeatReturns
  <2>2. Attempts' = Attempts
    BY <1>1, <1>2, <2>1 DEF Attempts, Current, ClientOnly
  <2>3. ClientTypeOK'
    BY <1>1, <1>2, <2>1 DEF TypeOK, ClientTypeOK, ClientOnly
  <2>4. OneAttemptAtATime'
    BY <1>1, <2>1, <2>2 DEF OneAttemptAtATime
  <2>5. net' \in SUBSET Exchange /\ \A y \in net' : y \in net
    BY <1>1, <2>1 DEF TypeOK
  <2> QED
    BY <1>1, <1>2, <2>3, <2>4, <2>5, ClientStep
<1>4. CASE x.reply = "notFound"
  <2>1. isRegistered' = FALSE /\ AttemptRegister(TRUE, net \ {x}) /\ UNCHANGED <<running, instance>>
    BY <1>4 DEF HeartbeatReturns, HeartbeatNotFound
  <2>2. /\ net' \in SUBSET Exchange /\ registrationInFlight' \in BOOLEAN /\ retryTimer' \in 0..Off
        /\ \A y \in net' : y \in net \/ (y.port = instance /\ y.age = 0)
        /\ \/ Attempts' = Attempts /\ UNCHANGED <<registrationInFlight, retryTimer>> /\ registrationInFlight
           \/ registrationInFlight' = TRUE /\ retryTimer' = Off /\ \E e : Attempts' = {e}
    <3>1. net \ {x} \in SUBSET net /\ \A y \in net \ (net \ {x}) : y.kind = "heartbeat"
      BY <1>1
    <3> QED
      BY <1>1, <2>1, <3>1, AttemptStep DEF NewAttempt
  <2>3. ClientTypeOK'
    BY <1>1, <1>2, <2>1, <2>2 DEF TypeOK, ClientTypeOK, ClientOnly
  <2>4. OneAttemptAtATime'
    BY <1>1, <2>1, <2>2 DEF OneAttemptAtATime
  <2> QED
    BY <1>1, <1>2, <2>2, <2>3, <2>4, ClientStep
<1> QED
  BY <1>3, <1>4

LEMMA ReturnsToNobodyInv ==
    ASSUME IInv, NEW x \in net, ReturnsToNobody(x) PROVE IInv'
<1>1. TypeOK /\ Quiet /\ OneAttemptAtATime /\ Silent
  BY DEF IInv
<1>2. net' = net \ {x} /\ UNCHANGED <<clientVars, entry, hubUp, faults, silence>>
  BY DEF ReturnsToNobody
<1>3. TypeOK'
  BY <1>1, <1>2 DEF TypeOK, ClientTypeOK, RegistryTypeOK, clientVars
<1>4. Quiet' /\ Silent'
  BY <1>1, <1>2 DEF Quiet, Silent, clientVars
<1>5. Attempts' = Attempts
  BY <1>2 DEF ReturnsToNobody, Attempts, Current, clientVars
<1>6. OneAttemptAtATime'
  BY <1>1, <1>2, <1>5 DEF OneAttemptAtATime, clientVars
<1> QED
  BY <1>3, <1>4, <1>6 DEF IInv

-----------------------------------------------------------------------------
(* The steps of the hub, of the network and of time.                       *)

\* The exchanges go on, each as f says.
LEMMA ExchangesGoOn ==
    ASSUME IInv, NEW f \in [net -> Exchange], net' = {f[x] : x \in net},
           \A x \in net : f[x].kind = x.kind /\ f[x].port = x.port,
           UNCHANGED <<instance, running, isRegistered, registrationInFlight>>,
           retryTimer' = Off <=> retryTimer = Off
    PROVE  net' \in SUBSET Exchange /\ Quiet' /\ OneAttemptAtATime'
<1>1. Quiet /\ OneAttemptAtATime /\ TypeOK
  BY DEF IInv
<1>2. net' \in SUBSET Exchange
  OBVIOUS
<1>3. Quiet'
  <2>1. \A y \in net' : y.port <= instance'
    BY <1>1 DEF Quiet
  <2> QED
    BY <1>1, <2>1 DEF Quiet
<1>4. Attempts' = {f[x] : x \in Attempts}
  BY DEF Attempts, Current
<1>5. OneAttemptAtATime'
  <2>1. SUFFICES ASSUME running
                 PROVE  /\ \A x, y \in Attempts' : x = y
                        /\ registrationInFlight <=> Attempts' # {}
                        /\ ~(registrationInFlight /\ retryTimer # Off)
                        /\ ~isRegistered => registrationInFlight \/ retryTimer # Off
    BY DEF OneAttemptAtATime
  <2>2. /\ \A x, y \in Attempts : x = y
        /\ registrationInFlight <=> Attempts # {}
        /\ ~(registrationInFlight /\ retryTimer # Off)
        /\ ~isRegistered => registrationInFlight \/ retryTimer # Off
    BY <1>1, <2>1 DEF OneAttemptAtATime
  <2>3. Attempts' = {} <=> Attempts = {}
    BY <1>4
  <2>4. \A x, y \in Attempts' : x = y
    BY <1>4, <2>2
  <2> QED
    BY <2>2, <2>3, <2>4
<1> QED
  BY <1>2, <1>3, <1>5

LEMMA AnswerStep ==
    ASSUME IInv, NEW x \in net, NEW r \in {"none", "ok", "notFound", "error"}, Answer(x, r),
           UNCHANGED <<clientVars, silence>>
    PROVE  /\ net' \in SUBSET Exchange /\ Quiet' /\ OneAttemptAtATime'
           /\ \A y \in net' : y.age >= silence
<1>1. TypeOK /\ Silent
  BY DEF IInv
<1>2. PICK e : e = [x EXCEPT !.reply = r]
  OBVIOUS
<1>3. e \in Exchange /\ e.kind = x.kind /\ e.port = x.port /\ e.age = x.age
  BY <1>1, <1>2, Answered DEF TypeOK
<1>4. PICK f : f = [y \in net |-> IF y = x THEN e ELSE y]
  OBVIOUS
<1>5. f \in [net -> Exchange]
  BY <1>1, <1>3, <1>4 DEF TypeOK
<1>6. net' = (net \ {x}) \cup {e}
  BY <1>2 DEF Answer
<1>7. net' = {f[y] : y \in net}
  BY <1>4, <1>6
<1>8. \A y \in net : f[y].kind = y.kind /\ f[y].port = y.port
  BY <1>3, <1>4
<1>9. UNCHANGED <<instance, running, isRegistered, registrationInFlight, retryTimer>>
  BY DEF clientVars
<1>10. net' \in SUBSET Exchange /\ Quiet' /\ OneAttemptAtATime'
  BY <1>5, <1>7, <1>8, <1>9, ExchangesGoOn
<1>11. \A y \in net' : y.age >= silence
  BY <1>1, <1>3, <1>6 DEF Silent
<1> QED
  BY <1>10, <1>11

LEMMA HubRegistersInv ==
    ASSUME IInv, NEW x \in net, HubRegisters(x) PROVE IInv'
<1>1. TypeOK /\ Silent
  BY DEF IInv
<1>2. /\ net' \in SUBSET Exchange /\ Quiet' /\ OneAttemptAtATime'
      /\ \A y \in net' : y.age >= silence
  BY AnswerStep DEF HubRegisters
<1>3. entry' = [port |-> x.port, age |-> x.age] /\ UNCHANGED <<clientVars, hubUp, faults, silence>>
  BY DEF HubRegisters, Register
<1>4. x.port \in Port /\ x.age \in 0..(Ttl + 1) /\ x.age >= silence
  BY <1>1, HubRegistrationAssumption, RegistryAssumption DEF TypeOK, Exchange, Silent
<1>5. entry' \in Entry /\ entry'.age = x.age
  BY <1>3, <1>4 DEF Entry
<1>6. TypeOK'
  BY <1>1, <1>2, <1>3, <1>5 DEF TypeOK, ClientTypeOK, RegistryTypeOK, clientVars
<1>7. Silent'
  BY <1>1, <1>2, <1>3, <1>4, <1>5 DEF Silent, clientVars
<1> QED
  BY <1>2, <1>6, <1>7 DEF IInv

LEMMA HubTakesHeartbeatInv ==
    ASSUME IInv, NEW x \in net, HubTakesHeartbeat(x) PROVE IInv'
<1>1. TypeOK /\ Silent
  BY DEF IInv
<1>2. PICK r \in {"ok", "notFound"} : Answer(x, r)
  BY DEF HubTakesHeartbeat
<1>3. UNCHANGED <<clientVars, hubUp, faults, silence>>
  BY DEF HubTakesHeartbeat
<1>4. /\ net' \in SUBSET Exchange /\ Quiet' /\ OneAttemptAtATime'
      /\ \A y \in net' : y.age >= silence
  BY <1>2, <1>3, AnswerStep
<1>5. x.age \in 0..(Ttl + 1) /\ x.age >= silence
  BY <1>1, HubRegistrationAssumption, RegistryAssumption DEF TypeOK, Exchange, Silent
<1>6. RegistryTypeOK' /\ (entry' # NoEntry => entry'.age >= silence)
  <2>1. CASE UNCHANGED entry
    BY <1>1, <2>1 DEF TypeOK, RegistryTypeOK, Silent
  <2>2. CASE Heartbeat(x.age)
    <3>1. entry \in Entry /\ entry' = [entry EXCEPT !.age = x.age]
      BY <1>1, <2>2 DEF Heartbeat, Refreshed, TypeOK, RegistryTypeOK
    <3>2. entry' \in Entry /\ entry'.age = x.age
      BY <1>5, <3>1, SMTT(20) DEF Entry
    <3> QED
      BY <1>5, <3>2 DEF RegistryTypeOK
  <2> QED
    BY <2>1, <2>2 DEF HubTakesHeartbeat
<1>7. TypeOK'
  BY <1>1, <1>3, <1>4, <1>6 DEF TypeOK, ClientTypeOK, clientVars
<1>8. Silent'
  BY <1>1, <1>3, <1>4, <1>6 DEF Silent, clientVars
<1> QED
  BY <1>4, <1>7, <1>8 DEF IInv

LEMMA HubPrunesInv ==
    ASSUME IInv, HubPrunes \/ HubStarts PROVE IInv'
<1>1. TypeOK /\ Quiet /\ OneAttemptAtATime /\ Silent
  BY DEF IInv
<1>2. UNCHANGED <<clientVars, faults, net, silence>> /\ (UNCHANGED entry \/ entry' = NoEntry)
      /\ hubUp' \in BOOLEAN
  BY <1>1 DEF HubPrunes, HubStarts, PruneStale, TypeOK
<1>3. RegistryTypeOK' /\ Silent'
  BY <1>1, <1>2 DEF TypeOK, RegistryTypeOK, Silent, clientVars
<1>4. TypeOK'
  BY <1>1, <1>2, <1>3 DEF TypeOK, ClientTypeOK, clientVars
<1>5. Quiet' /\ OneAttemptAtATime'
  BY <1>1, <1>2 DEF Quiet, OneAttemptAtATime, Attempts, Current, clientVars
<1> QED
  BY <1>3, <1>4, <1>5 DEF IInv

LEMMA HubCrashesInv ==
    ASSUME IInv, HubCrashes PROVE IInv'
<1>1. TypeOK /\ Silent
  BY DEF IInv
<1>2. /\ net' = {IF x.reply = "none" THEN [x EXCEPT !.reply = "error"] ELSE x : x \in net}
      /\ UNCHANGED <<clientVars, silence>> /\ entry' = NoEntry /\ hubUp' = FALSE
  BY DEF HubCrashes
<1>3. faults' \in 0..MaxFaults
  BY <1>1, HubRegistrationAssumption DEF TypeOK, HubCrashes
<1>4. PICK f : f = [x \in net |-> IF x.reply = "none" THEN [x EXCEPT !.reply = "error"] ELSE x]
  OBVIOUS
<1>5. \A x \in net : f[x] \in Exchange /\ f[x].kind = x.kind /\ f[x].port = x.port /\ f[x].age = x.age
  BY <1>1, <1>4, Answered DEF TypeOK
<1>6. f \in [net -> Exchange] /\ net' = {f[x] : x \in net}
  BY <1>2, <1>4, <1>5
<1>7. net' \in SUBSET Exchange /\ Quiet' /\ OneAttemptAtATime'
  BY <1>2, <1>5, <1>6, ExchangesGoOn DEF clientVars
<1>8. Silent'
  BY <1>1, <1>2, <1>5, <1>6 DEF Silent, clientVars
<1>9. TypeOK'
  BY <1>1, <1>2, <1>3, <1>7 DEF TypeOK, ClientTypeOK, RegistryTypeOK, clientVars
<1> QED
  BY <1>7, <1>8, <1>9 DEF IInv

LEMMA ExchangeFailsInv ==
    ASSUME IInv, NEW x \in net, ExchangeFails(x) PROVE IInv'
<1>1. TypeOK /\ Silent
  BY DEF IInv
<1>2. Answer(x, "error") /\ UNCHANGED <<clientVars, entry, hubUp, silence>>
  BY DEF ExchangeFails
<1>3. faults' \in 0..MaxFaults
  BY <1>1, HubRegistrationAssumption DEF TypeOK, ExchangeFails
<1>4. /\ net' \in SUBSET Exchange /\ Quiet' /\ OneAttemptAtATime'
      /\ \A y \in net' : y.age >= silence
  BY <1>2, AnswerStep
<1>5. TypeOK'
  BY <1>1, <1>2, <1>3, <1>4 DEF TypeOK, ClientTypeOK, RegistryTypeOK, clientVars
<1>6. Silent'
  BY <1>1, <1>2, <1>4 DEF Silent, clientVars
<1> QED
  BY <1>4, <1>5, <1>6 DEF IInv

LEMMA TickInv ==
    ASSUME IInv, Tick PROVE IInv'
<1>1. TypeOK /\ Quiet /\ Silent
  BY DEF IInv
<1>2. PICK f : f = [x \in net |-> [x EXCEPT !.age = x.age + 1]]
  OBVIOUS
<1>3. \A x \in net : f[x] \in Exchange /\ f[x].kind = x.kind /\ f[x].port = x.port /\ f[x].age = x.age + 1
  BY <1>1, <1>2, Aged DEF TypeOK, Tick
<1>4. f \in [net -> Exchange] /\ net' = {f[x] : x \in net}
  <2>1. net' = {[x EXCEPT !.age = x.age + 1] : x \in net}
    BY DEF Tick
  <2> QED
    BY <1>2, <1>3, <2>1
<1>5. /\ UNCHANGED <<instance, running, isRegistered, registrationInFlight, currentRetryDelay, hubUp, faults>>
      /\ retryTimer > 0 /\ retryTimer' = IF retryTimer = Off THEN Off ELSE retryTimer - 1
      /\ beatTimer' = IF running THEN beatTimer - 1 ELSE beatTimer
      /\ running => beatTimer > 0
      /\ silence' = IF running THEN 0 ELSE Older(silence)
      /\ entry' = IF entry = NoEntry THEN NoEntry ELSE [entry EXCEPT !.age = Older(entry.age)]
  BY DEF Tick, TimersTick, EntryAges
<1>6. retryTimer' \in 0..Off /\ (retryTimer' = Off <=> retryTimer = Off)
  BY <1>1, <1>5, OffType DEF TypeOK, ClientTypeOK
<1>7. beatTimer' \in 0..HeartbeatEvery
  BY <1>1, <1>5, HubClientAssumption DEF TypeOK, ClientTypeOK
<1>8. net' \in SUBSET Exchange /\ Quiet' /\ OneAttemptAtATime'
  BY <1>3, <1>4, <1>5, <1>6, ExchangesGoOn
<1>9. silence \in 0..(Ttl + 1) /\ silence' \in 0..(Ttl + 1) /\ silence' <= silence + 1
      /\ (running => silence' = 0)
  <2>1. silence \in 0..(Ttl + 1) /\ 0 \in 0..(Ttl + 1)
    BY <1>1, RegistryAssumption DEF TypeOK
  <2>2. Older(silence) \in 0..(Ttl + 1) /\ Older(silence) <= silence + 1
    BY <2>1, RegistryAssumption DEF Older
  <2> QED
    BY <1>5, <2>1, <2>2
<1>10. RegistryTypeOK' /\ (entry' # NoEntry => entry'.age >= silence')
  <2>1. CASE entry = NoEntry
    BY <1>5, <2>1 DEF RegistryTypeOK
  <2>2. CASE entry # NoEntry
    <3>1. PICK a : a = Older(entry.age)
      OBVIOUS
    <3>2. entry \in Entry /\ entry.age \in 0..(Ttl + 1) /\ entry.age >= silence
      BY <1>1, <2>2 DEF TypeOK, RegistryTypeOK, Silent, Entry
    <3>3. a \in 0..(Ttl + 1) /\ a >= Older(silence) /\ a >= 0
      BY <1>9, <3>1, <3>2, OlderType, OlderMonotone
    <3>4. entry' = [entry EXCEPT !.age = a]
      BY <1>5, <2>2, <3>1
    <3>5. entry' \in Entry /\ entry'.age = a
      BY <3>2, <3>3, <3>4, SMTT(20) DEF Entry
    <3> QED
      BY <1>5, <3>3, <3>5 DEF RegistryTypeOK
  <2> QED
    BY <2>1, <2>2
<1>11. Silent'
  <2>1. \A y \in net' : y.age >= silence'
    <3>1. \A x \in net : x.age \in Nat /\ x.age >= silence
      BY <1>1 DEF TypeOK, Exchange, Silent
    <3> QED
      BY <1>3, <1>4, <1>9, <3>1
  <2> QED
    BY <1>5, <1>9, <1>10, <2>1 DEF Silent
<1>12. TypeOK'
  BY <1>1, <1>5, <1>6, <1>7, <1>8, <1>9, <1>10 DEF TypeOK, ClientTypeOK
<1> QED
  BY <1>8, <1>11, <1>12 DEF IInv

-----------------------------------------------------------------------------
(* The theorems.                                                           *)

LEMMA InitInv == Init => IInv
<1> SUFFICES ASSUME Init PROVE IInv
  OBVIOUS
<1>1. ClientTypeOK
  <2>1. /\ instance \in 0..MaxInstances /\ currentRetryDelay \in RetryBase..RetryMax
        /\ retryTimer \in 0..Off /\ beatTimer \in 0..HeartbeatEvery
    BY OffType, HubClientAssumption DEF Init, ClientInit
  <2>2. running \in BOOLEAN /\ isRegistered \in BOOLEAN /\ registrationInFlight \in BOOLEAN
    BY DEF Init, ClientInit
  <2> QED
    BY <2>1, <2>2 DEF ClientTypeOK
<1>2. TypeOK
  BY <1>1, RegistryAssumption, HubRegistrationAssumption DEF Init, TypeOK, RegistryInit, RegistryTypeOK
<1>3. Quiet /\ OneAttemptAtATime /\ Silent
  BY DEF Init, ClientInit, RegistryInit, Quiet, OneAttemptAtATime, Silent
<1> QED
  BY <1>2, <1>3 DEF IInv

LEMMA NextInv == IInv /\ [Next]_vars => IInv'
<1> SUFFICES ASSUME IInv, [Next]_vars PROVE IInv'
  OBVIOUS
<1>1. CASE UNCHANGED vars
  <2>1. TypeOK /\ Quiet /\ OneAttemptAtATime /\ Silent
    BY DEF IInv
  <2>2. TypeOK'
    BY <1>1, <2>1 DEF vars, clientVars, TypeOK, ClientTypeOK, RegistryTypeOK
  <2>3. Quiet' /\ Silent'
    BY <1>1, <2>1 DEF vars, clientVars, Quiet, Silent
  <2>4. Attempts' = Attempts
    BY <1>1 DEF vars, clientVars, Attempts, Current
  <2>5. OneAttemptAtATime'
    BY <1>1, <2>1, <2>4 DEF vars, clientVars, OneAttemptAtATime
  <2> QED
    BY <2>2, <2>3, <2>5 DEF IInv
<1>2. CASE Next
  BY <1>2, StartBridgeInv, StopBridgeInv, HeartbeatFiresInv, RetryFiresInv, RegisterReturnsInv,
     HeartbeatReturnsInv, ReturnsToNobodyInv, HubRegistersInv, HubTakesHeartbeatInv, HubPrunesInv,
     HubCrashesInv, ExchangeFailsInv, TickInv DEF Next, Timers, Returns, HubSteps
<1> QED
  BY <1>1, <1>2

THEOREM Inductive == Spec => []IInv
BY InitInv, NextInv, PTL DEF Spec

\* Every variable stays in its type, delays and ages at their limits included: TypeOK.
THEOREM TypeCorrect == Spec => []TypeOK
<1>1. IInv => TypeOK
  BY DEF IInv
<1> QED
  BY <1>1, Inductive, PTL

\* For any delays and however often the hub crashes and requests are lost, a client that
\* runs and is not registered is on its way to be, by exactly one way: OneAttemptAtATime.
THEOREM OneAttempt == Spec => []OneAttemptAtATime
<1>1. IInv => OneAttemptAtATime
  BY DEF IInv
<1> QED
  BY <1>1, Inductive, PTL

\* The hub never believes a bridge younger than its last sign of life:
\* ListedMeansRecentlyAlive.
THEOREM ListedIsAlive == Spec => []ListedMeansRecentlyAlive
<1>1. IInv => ListedMeansRecentlyAlive
  BY DEF IInv, Silent, Listed, ListedMeansRecentlyAlive
<1> QED
  BY <1>1, Inductive, PTL

-----------------------------------------------------------------------------
(* A bridge that is registered is shown, if the TTL leaves the time for one *)
(* heartbeat: NoFalseOffline.                                               *)

Timing == HeartbeatEvery + 2 * MaxLatency <= Ttl

\* A client that is registered attempts no registration, and none that is stopped is
\* registered.
Settled ==
    /\ ~running => ~isRegistered
    /\ registrationInFlight \/ retryTimer # Off => ~isRegistered

\* The age of the hub's entry: it is no more than an exchange behind the last heartbeat
\* timer, or a heartbeat is on its way that makes up for the time since.
Young ==
    \/ entry.age <= MaxLatency + (HeartbeatEvery - beatTimer)
    \/ \E x \in net : /\ x.kind = "heartbeat" /\ x.reply = "none"
                      /\ entry.age <= MaxLatency + HeartbeatEvery + x.age

Timely ==
    faults = 0 /\ instance = 1 /\ running =>
        /\ \A x \in net : x.kind = "heartbeat" => isRegistered /\ x.reply # "notFound"
        /\ \A x \in net : x.kind = "register" /\ x.reply = "ok" =>
              hubUp /\ entry # NoEntry /\ entry.age <= x.age
        /\ isRegistered => hubUp /\ entry # NoEntry /\ Young

LEMMA YoungIsFresh ==
    ASSUME TypeOK, Timing, entry # NoEntry, Young
    PROVE  entry.age <= Ttl
<1>1. entry.age \in Nat /\ beatTimer \in 0..HeartbeatEvery /\ HeartbeatEvery \in Nat
      /\ MaxLatency \in Nat /\ Ttl \in Nat
  BY HubClientAssumption, RegistryAssumption, HubRegistrationAssumption
     DEF TypeOK, RegistryTypeOK, Entry, ClientTypeOK
<1>2. \A x \in net : x.age \in 0..MaxLatency
  BY DEF TypeOK, Exchange
<1> QED
  BY <1>1, <1>2 DEF Timing, Young

LEMMA SettledStep == IInv /\ Settled /\ [Next]_vars => Settled'
<1> SUFFICES ASSUME IInv, Settled, [Next]_vars PROVE Settled'
  OBVIOUS
<1>1. TypeOK /\ Quiet /\ OneAttemptAtATime
  BY DEF IInv
<1>2. CASE UNCHANGED clientVars
  BY <1>2 DEF Settled, clientVars
<1>3. CASE StartBridge \/ StopBridge
  BY <1>3 DEF StartBridge, StopBridge, StopClient, Settled
<1>4. CASE HeartbeatFires
  <2>1. UNCHANGED <<running, isRegistered>> /\ running
    BY <1>4 DEF HeartbeatFires
  <2>2. isRegistered => UNCHANGED <<registrationInFlight, retryTimer>>
    BY <1>4 DEF HeartbeatFires
  <2> QED
    BY <2>1, <2>2 DEF Settled
<1>5. CASE RetryFires
  BY <1>5, OffType DEF RetryFires, Settled
<1>6. ASSUME NEW x \in net, RegisterReturns(x) PROVE Settled'
  <2>1. running /\ running' = running
    BY <1>6 DEF RegisterReturns, Current, Registered, RegistrationFailed
  <2>2. registrationInFlight /\ retryTimer = Off
    BY <1>1, <1>6 DEF RegisterReturns, Settle, Attempts, OneAttemptAtATime, Current
  <2>3. CASE x.reply = "ok"
    BY <1>6, <2>1, <2>2, <2>3 DEF RegisterReturns, Registered, Settled
  <2>4. CASE x.reply # "ok"
    BY <1>6, <2>1, <2>4 DEF RegisterReturns, RegistrationFailed, Settled
  <2> QED
    BY <2>3, <2>4
<1>7. ASSUME NEW x \in net, HeartbeatReturns(x) PROVE Settled'
  BY <1>7 DEF HeartbeatReturns, HeartbeatNotFound, Settled
<1>8. CASE Tick
  BY <1>1, <1>8, OffType DEF Tick, TimersTick, Settled, TypeOK, ClientTypeOK
<1>9. CASE UNCHANGED vars
  BY <1>2, <1>9 DEF vars
<1>10. ASSUME NEW x \in net, ReturnsToNobody(x) \/ HubRegisters(x) \/ HubTakesHeartbeat(x) \/ ExchangeFails(x)
       PROVE Settled'
  BY <1>2, <1>10 DEF ReturnsToNobody, HubRegisters, HubTakesHeartbeat, ExchangeFails
<1>11. CASE HubPrunes \/ HubStarts \/ HubCrashes
  BY <1>2, <1>11 DEF HubPrunes, HubStarts, HubCrashes
<1> QED
  BY <1>3, <1>4, <1>5, <1>6, <1>7, <1>8, <1>9, <1>10, <1>11 DEF Next, Timers, Returns, HubSteps

\* Timely, with what it says once its condition holds.
Now ==
    /\ \A x \in net : x.kind = "heartbeat" => isRegistered /\ x.reply # "notFound"
    /\ \A x \in net : x.kind = "register" /\ x.reply = "ok" =>
          hubUp /\ entry # NoEntry /\ entry.age <= x.age
    /\ isRegistered => hubUp /\ entry # NoEntry /\ Young

\* In the first life of a bridge every exchange is its own.
LEMMA FirstLife ==
    ASSUME IInv, Settled, running, instance = 1
    PROVE  /\ \A x \in net : x \in Exchange /\ Current(x) /\ x.age \in 0..MaxLatency
           /\ \A x \in net : x.kind = "register" => ~isRegistered /\ \A y \in net : y.kind = "register" => y = x
<1>1. TypeOK /\ Quiet /\ OneAttemptAtATime
  BY DEF IInv
<1>2. \A x \in net : x \in Exchange /\ x.port = 1 /\ x.age \in 0..MaxLatency
  BY <1>1, HubRegistrationAssumption DEF TypeOK, Quiet, Exchange
<1>3. \A x \in net : Current(x)
  BY <1>2 DEF Current
<1>4. Attempts = {x \in net : x.kind = "register"}
  BY <1>3 DEF Attempts
<1>5. (\A x, y \in Attempts : x = y) /\ (Attempts # {} => ~isRegistered)
  BY <1>1 DEF OneAttemptAtATime, Settled
<1> QED
  BY <1>2, <1>3, <1>4, <1>5

LEMMA NowStep ==
    ASSUME IInv, Settled, Timing, Timely, Next, faults' = 0, instance' = 1, running'
    PROVE  Now'
<1>1. TypeOK /\ Quiet /\ OneAttemptAtATime
  BY DEF IInv
<1>2. CASE StartBridge
  <2>1. instance = 0
    BY <1>1, <1>2, HubClientAssumption DEF StartBridge, TypeOK, ClientTypeOK
  <2>2. net = {}
    BY <1>1, <2>1, HubRegistrationAssumption DEF TypeOK, Quiet, Exchange
  <2>3. PICK e : e = [kind |-> "register", port |-> instance + 1, age |-> 0, reply |-> "none"]
    OBVIOUS
  <2>4. net' = {e} /\ ~isRegistered' /\ e.kind = "register" /\ e.reply = "none"
    BY <1>2, <2>2, <2>3 DEF StartBridge, Post
  <2> QED
    BY <2>4 DEF Now
<1>3. CASE StopBridge
  BY <1>3 DEF StopBridge, StopClient
<1> SUFFICES ASSUME ~StartBridge, ~StopBridge PROVE Now'
  BY <1>2, <1>3
<1>4. UNCHANGED <<instance, running>>
  BY DEF Next, Timers, Returns, HubSteps, HeartbeatFires, RetryFires, RegisterReturns, Registered,
         RegistrationFailed, HeartbeatReturns, ReturnsToNobody, HubRegisters, HubTakesHeartbeat, HubPrunes,
         HubStarts, HubCrashes, ExchangeFails, Tick, TimersTick, clientVars
<1>5. faults \in Nat /\ faults = 0 /\ ~HubCrashes
  <2>1. faults \in Nat
    BY <1>1, HubRegistrationAssumption DEF TypeOK
  <2>2. UNCHANGED faults \/ faults' = faults + 1
    BY DEF Next, Timers, Returns, HubSteps, HeartbeatFires, RetryFires, RegisterReturns,
           HeartbeatReturns, ReturnsToNobody, HubRegisters, HubTakesHeartbeat, HubPrunes,
           HubStarts, HubCrashes, ExchangeFails, Tick
  <2>3. HubCrashes => faults' = faults + 1
    BY DEF HubCrashes
  <2> QED
    BY <2>1, <2>2, <2>3
<1>6. running /\ instance = 1 /\ Now
  BY <1>4, <1>5 DEF Timely, Now
<1>7. /\ \A x \in net : x \in Exchange /\ Current(x) /\ x.age \in 0..MaxLatency
      /\ \A x \in net : x.kind = "register" => ~isRegistered /\ \A y \in net : y.kind = "register" => y = x
  BY <1>6, FirstLife
<1>8. /\ MaxLatency \in Nat /\ HeartbeatEvery \in Nat /\ Ttl \in Nat /\ beatTimer \in 0..HeartbeatEvery
      /\ entry # NoEntry => entry \in Entry /\ entry.age \in Nat
  BY <1>1, HubClientAssumption, RegistryAssumption, HubRegistrationAssumption
     DEF TypeOK, ClientTypeOK, RegistryTypeOK, Entry
<1>9. CASE HeartbeatFires
  <2>1. UNCHANGED <<isRegistered, hubUp, entry>> /\ beatTimer = 0 /\ beatTimer' = HeartbeatEvery
    BY <1>9 DEF HeartbeatFires
  <2>2. CASE isRegistered
    <3>1. PICK e : e = [kind |-> "heartbeat", port |-> instance, age |-> 0, reply |-> "none"]
      OBVIOUS
    <3>2. net' = net \cup {e} /\ e.kind = "heartbeat" /\ e.reply = "none" /\ e.age = 0
      BY <1>9, <2>2, <3>1 DEF HeartbeatFires, Post
    <3>3. hubUp /\ entry # NoEntry /\ Young
      BY <1>6, <2>2 DEF Now
    <3>4. ASSUME entry.age <= MaxLatency + (HeartbeatEvery - beatTimer) PROVE Young'
      <4>1. entry'.age <= MaxLatency + HeartbeatEvery + e.age
        BY <1>8, <2>1, <3>2, <3>3, <3>4
      <4> QED
        BY <3>2, <4>1 DEF Young
    <3>5. ASSUME NEW x \in net, x.kind = "heartbeat", x.reply = "none", entry.age <= MaxLatency + HeartbeatEvery + x.age
          PROVE  Young'
      BY <2>1, <3>2, <3>5 DEF Young
    <3>6. Young'
      BY <3>3, <3>4, <3>5 DEF Young
    <3> QED
      BY <1>6, <2>1, <2>2, <3>2, <3>3, <3>6 DEF Now
  <2>3. CASE ~isRegistered
    <3>1. \A x \in net' : x \in net \/ NewAttempt(x)
      <4>1. AttemptRegister(FALSE, net) /\ running = TRUE
        BY <1>1, <1>6, <1>9, <2>3 DEF HeartbeatFires, TypeOK, ClientTypeOK
      <4> QED
        BY <1>4, <4>1, AttemptStep
    <3> QED
      BY <1>6, <2>1, <2>3, <3>1 DEF Now, NewAttempt
  <2> QED
    BY <2>2, <2>3
<1>10. CASE RetryFires
  <2>1. UNCHANGED <<isRegistered, hubUp, entry, beatTimer>> /\ retryTimer = 0
    BY <1>10 DEF RetryFires
  <2>2. ~isRegistered
    BY <2>1, OffType DEF Settled
  <2>3. PICK e : e = [kind |-> "register", port |-> instance, age |-> 0, reply |-> "none"]
    OBVIOUS
  <2>4. net' \subseteq net \cup {e} /\ e.kind = "register" /\ e.reply = "none"
    BY <1>10, <2>3 DEF RetryFires, Post
  <2> QED
    BY <1>6, <2>1, <2>2, <2>4 DEF Now
<1>11. ASSUME NEW x \in net, RegisterReturns(x) PROVE Now'
  <2>1. net' = net \ {x} /\ UNCHANGED <<hubUp, entry, beatTimer>> /\ x.kind = "register" /\ ~isRegistered
    BY <1>7, <1>11 DEF RegisterReturns, Settle, Registered, RegistrationFailed
  <2>2. \A y \in net : y.kind # "heartbeat"
    BY <1>6, <2>1 DEF Now
  <2>3. CASE x.reply = "ok"
    <3>1. hubUp /\ entry # NoEntry /\ entry.age <= x.age
      BY <1>6, <2>1, <2>3 DEF Now
    <3>2. entry'.age <= MaxLatency + (HeartbeatEvery - beatTimer')
      BY <1>7, <1>8, <2>1, <3>1
    <3>3. Young'
      BY <3>2 DEF Young
    <3> QED
      BY <1>6, <2>1, <2>2, <3>1, <3>3 DEF Now
  <2>4. CASE x.reply # "ok"
    <3>1. ~isRegistered'
      BY <1>11, <2>4 DEF RegisterReturns, RegistrationFailed
    <3> QED
      BY <1>6, <2>1, <2>2, <3>1 DEF Now
  <2> QED
    BY <2>3, <2>4
<1>12. ASSUME NEW x \in net, HeartbeatReturns(x) PROVE Now'
  <2>1. x.kind = "heartbeat" /\ x.reply # "none" /\ x.reply # "notFound" /\ isRegistered
    BY <1>6, <1>12 DEF Now, HeartbeatReturns, Settle
  <2>2. net' = net \ {x} /\ UNCHANGED <<isRegistered, hubUp, entry, beatTimer>>
    BY <1>12, <2>1 DEF HeartbeatReturns
  <2>3. hubUp /\ entry # NoEntry /\ Young
    BY <1>6, <2>1 DEF Now
  <2>4. Young'
    BY <2>1, <2>2, <2>3 DEF Young
  <2> QED
    BY <1>6, <2>2, <2>3, <2>4 DEF Now
<1>13. ASSUME NEW x \in net PROVE ~ReturnsToNobody(x)
  BY <1>7 DEF ReturnsToNobody
<1>14. ASSUME NEW x \in net, HubRegisters(x) PROVE Now'
  <2>1. x.kind = "register" /\ x.reply = "none" /\ hubUp /\ UNCHANGED <<hubUp, clientVars>>
    BY <1>14 DEF HubRegisters, Settle
  <2>2. ~isRegistered /\ ~isRegistered' /\ \A y \in net : y.kind # "heartbeat" /\ (y.kind = "register" => y = x)
    BY <1>6, <1>7, <2>1 DEF Now, clientVars
  <2>3. PICK e : e = [x EXCEPT !.reply = "ok"]
    OBVIOUS
  <2>4. e.kind = x.kind /\ e.age = x.age
    BY <1>7, <2>3, Answered
  <2>5. net' = (net \ {x}) \cup {e}
    BY <1>14, <2>3 DEF HubRegisters, Answer
  <2>6. entry' = [port |-> x.port, age |-> x.age] /\ x.port # 0
    BY <1>7, <1>14, RegistryAssumption DEF HubRegisters, Register, Exchange
  <2>7. entry' # NoEntry /\ entry'.age = x.age /\ x.age \in Nat
    BY <1>7, <1>8, <2>6 DEF NoEntry
  <2> QED
    BY <2>1, <2>2, <2>4, <2>5, <2>7 DEF Now
<1>15. ASSUME NEW x \in net, HubTakesHeartbeat(x) PROVE Now'
  <2>1. x.kind = "heartbeat" /\ x.reply = "none" /\ hubUp /\ UNCHANGED <<hubUp, clientVars>>
    BY <1>15 DEF HubTakesHeartbeat, Settle
  <2>2. isRegistered /\ isRegistered' /\ entry # NoEntry /\ \A y \in net : y.kind # "register"
    BY <1>6, <1>7, <2>1 DEF Now, clientVars
  <2>3. PICK e : e = [x EXCEPT !.reply = "ok"]
    OBVIOUS
  <2>4. e.kind = "heartbeat" /\ e.reply = "ok"
    <3>1. e.kind = x.kind
      BY <1>7, <2>3, Answered
    <3>2. e.reply = "ok"
      BY <1>7, <2>3 DEF Exchange
    <3> QED
      BY <2>1, <3>1, <3>2
  <2>5. net' = (net \ {x}) \cup {e} /\ entry' = [entry EXCEPT !.age = x.age]
    BY <1>15, <2>2, <2>3 DEF HubTakesHeartbeat, Answer, Heartbeat, Refreshed
  <2>6. entry'.age = x.age /\ entry' # NoEntry
    <3>1. entry \in Entry
      BY <1>8, <2>2
    <3>2. entry'.age = x.age /\ entry'.port = entry.port
      BY <2>5, <3>1 DEF Entry
    <3>3. entry.port # 0
      BY <3>1, RegistryAssumption DEF Entry
    <3> QED
      BY <3>2, <3>3 DEF NoEntry
  <2>7. entry'.age <= MaxLatency + (HeartbeatEvery - beatTimer')
    BY <1>7, <1>8, <2>1, <2>6 DEF clientVars
  <2>8. Young'
    BY <2>7 DEF Young
  <2> QED
    BY <1>6, <2>1, <2>2, <2>4, <2>5, <2>6, <2>8 DEF Now
<1>16. CASE HubPrunes
  <2>1. entry # NoEntry /\ entry.age > Ttl /\ UNCHANGED <<net, clientVars>>
    BY <1>16 DEF HubPrunes, PruneStale, IsStale
  <2>2. ~isRegistered
    BY <1>1, <1>6, <1>8, <2>1, YoungIsFresh DEF Now
  <2>3. \A x \in net : ~(x.kind = "register" /\ x.reply = "ok")
    BY <1>6, <1>7, <1>8, <2>1, HubRegistrationAssumption DEF Now
  <2> QED
    BY <1>6, <2>1, <2>2, <2>3 DEF Now, clientVars
<1>17. CASE HubStarts
  <2>1. ~hubUp /\ UNCHANGED <<net, clientVars, entry>>
    BY <1>17 DEF HubStarts
  <2> QED
    BY <1>6, <2>1 DEF Now, clientVars
<1>18. ASSUME NEW x \in net, ExchangeFails(x) PROVE Now'
  <2>1. ~hubUp /\ x.reply = "none" /\ UNCHANGED <<clientVars, entry, hubUp>>
    BY <1>5, <1>18 DEF ExchangeFails
  <2>2. ~isRegistered /\ \A y \in net : y.kind # "heartbeat" /\ ~(y.kind = "register" /\ y.reply = "ok")
    BY <1>6, <2>1 DEF Now
  <2>3. PICK e : e = [x EXCEPT !.reply = "error"]
    OBVIOUS
  <2>4. e.kind = x.kind /\ e.reply = "error"
    <3>1. e.kind = x.kind
      BY <1>7, <2>3, Answered
    <3>2. e.reply = "error"
      BY <1>7, <2>3 DEF Exchange
    <3> QED
      BY <3>1, <3>2
  <2>5. net' = (net \ {x}) \cup {e}
    BY <1>18, <2>3 DEF ExchangeFails, Answer
  <2> QED
    BY <2>1, <2>2, <2>4, <2>5 DEF Now, clientVars
<1>19. CASE Tick
  <2>1. PICK f : f = [x \in net |-> [x EXCEPT !.age = x.age + 1]]
    OBVIOUS
  <2>2. \A x \in net : f[x].kind = x.kind /\ f[x].age = x.age + 1 /\ f[x].reply = x.reply
    <3>1. ASSUME NEW x \in net PROVE f[x].kind = x.kind /\ f[x].age = x.age + 1
      BY <1>7, <1>19, <2>1, Aged DEF Tick
    <3>2. ASSUME NEW x \in net PROVE f[x].reply = x.reply
      BY <1>7, <2>1 DEF Exchange
    <3> QED
      BY <3>1, <3>2
  <2>3. net' = {f[x] : x \in net}
    BY <1>19, <2>1 DEF Tick
  <2>4. UNCHANGED <<isRegistered, hubUp>> /\ beatTimer > 0 /\ beatTimer' = beatTimer - 1
        /\ entry' = IF entry = NoEntry THEN NoEntry ELSE [entry EXCEPT !.age = Older(entry.age)]
    BY <1>6, <1>19 DEF Tick, TimersTick, EntryAges
  <2>5. ASSUME entry # NoEntry, entry.age <= Ttl
        PROVE  entry' # NoEntry /\ entry'.age = entry.age + 1
    <3>1. Older(entry.age) = entry.age + 1
      BY <1>8, <2>5 DEF Older
    <3>2. entry' = [entry EXCEPT !.age = entry.age + 1] /\ entry \in Entry
      BY <1>8, <2>4, <2>5, <3>1
    <3>3. entry'.age = entry.age + 1 /\ entry'.port = entry.port
      BY <3>2 DEF Entry
    <3>4. entry.port # 0
      BY <3>2, RegistryAssumption DEF Entry
    <3> QED
      BY <3>3, <3>4 DEF NoEntry
  <2>6. ASSUME NEW y \in net', y.kind = "register", y.reply = "ok"
        PROVE  hubUp' /\ entry' # NoEntry /\ entry'.age <= y.age
    <3>1. PICK x \in net : y = f[x] /\ x.kind = "register" /\ x.reply = "ok" /\ y.age = x.age + 1
      BY <2>2, <2>3, <2>6
    <3>2. hubUp /\ entry # NoEntry /\ entry.age <= x.age
      BY <1>6, <3>1 DEF Now
    <3>3. entry.age <= Ttl
      BY <1>7, <1>8, <3>2, HubRegistrationAssumption
    <3> QED
      BY <1>7, <1>8, <2>4, <2>5, <3>1, <3>2, <3>3
  <2>7. ASSUME isRegistered'
        PROVE  hubUp' /\ entry' # NoEntry /\ Young'
    <3>1. hubUp /\ entry # NoEntry /\ Young
      BY <1>6, <2>4, <2>7 DEF Now
    <3>2. entry' # NoEntry /\ entry'.age = entry.age + 1
      BY <1>1, <2>5, <3>1, YoungIsFresh
    <3>3. CASE entry.age <= MaxLatency + (HeartbeatEvery - beatTimer)
      <4>1. entry'.age <= MaxLatency + (HeartbeatEvery - beatTimer')
        BY <1>8, <2>4, <3>1, <3>2, <3>3
      <4> QED
        BY <2>4, <3>1, <3>2, <4>1 DEF Young
    <3>4. ASSUME NEW x \in net, x.kind = "heartbeat", x.reply = "none", entry.age <= MaxLatency + HeartbeatEvery + x.age
          PROVE  Young'
      <4>1. entry'.age <= MaxLatency + HeartbeatEvery + f[x].age
        BY <1>7, <1>8, <2>2, <3>1, <3>2, <3>4
      <4>2. f[x] \in net' /\ f[x].kind = "heartbeat" /\ f[x].reply = "none"
        BY <2>2, <2>3, <3>4
      <4> QED
        BY <4>1, <4>2 DEF Young
    <3> QED
      BY <2>4, <3>1, <3>2, <3>3, <3>4 DEF Young
  <2>8. \A y \in net' : y.kind = "heartbeat" => isRegistered' /\ y.reply # "notFound"
    BY <1>6, <2>2, <2>3, <2>4 DEF Now
  <2> QED
    BY <2>6, <2>7, <2>8 DEF Now
<1> QED
  BY <1>5, <1>9, <1>10, <1>11, <1>12, <1>13, <1>14, <1>15, <1>16, <1>17, <1>18, <1>19
     DEF Next, Timers, Returns, HubSteps

\* If an exchange takes MaxLatency at most and the TTL is no shorter than the heartbeat
\* interval and two exchanges, a bridge that believes it is registered is shown, until
\* the first fault: NoFalseOffline.
THEOREM NeverFalselyOffline ==
    ASSUME Timing PROVE Spec => []NoFalseOffline
<1> DEFINE J == IInv /\ Settled /\ Timely
<1>1. Init => J
  <2>1. Init => Settled /\ Timely
    BY DEF Init, ClientInit, Settled, Timely
  <2> QED
    BY <2>1, InitInv
<1>2. J /\ [Next]_vars => J'
  <2> SUFFICES ASSUME J, [Next]_vars PROVE J'
    OBVIOUS
  <2>1. IInv' /\ Settled'
    BY NextInv, SettledStep
  <2>2. CASE UNCHANGED vars
    BY <2>1, <2>2 DEF vars, clientVars, Timely, Young
  <2>3. CASE Next
    BY <2>1, <2>3, NowStep DEF Timely, Now
  <2> QED
    BY <2>1, <2>2, <2>3
<1>3. J => NoFalseOffline
  <2> SUFFICES ASSUME J, faults = 0, instance = 1, isRegistered PROVE Listed
    BY DEF NoFalseOffline
  <2>1. running /\ TypeOK
    BY DEF Settled, IInv
  <2>2. entry # NoEntry /\ Young
    BY <2>1 DEF Timely
  <2>3. entry.age <= Ttl /\ entry.age \in Nat
    BY <2>1, <2>2, YoungIsFresh DEF TypeOK, RegistryTypeOK, Entry
  <2> QED
    BY <2>2, <2>3, RegistryAssumption DEF Listed, IsStale
<1> HIDE DEF J
<1> QED
  BY <1>1, <1>2, <1>3, PTL DEF Spec
=============================================================================
