-------------------------- MODULE BridgeStore_proofs --------------------------
(***************************************************************************)
(* Theorems about BridgeStore, for any number of threads and turns, any    *)
(* length of a response and either setting of fullAccessAutoApprove.       *)
(***************************************************************************)
EXTENDS BridgeStore, TLAPS

\* What ties the maps of the store together. A turn's approval tells its past
\* and its status what is set for it; the two are written by different
\* handlers, so neither can be proved without the other.
RecordAgrees(u) ==
    /\ u \in approvals <=> decision[u] = "pending"
    /\ status[u] = "absent" => decision[u] = "none" /\ text[u] = 0 /\ events[u] = <<>>
    /\ status[u] # "absent" => threadOf[u] \in Thread
    /\ status[u] = "waiting_approval" => decision[u] = "pending"
    /\ status[u] \in {"running", "completed"} => decision[u] = "approved"
    /\ text[u] > 0 => decision[u] = "approved"
    /\ Emitted(u, "item/started") => decision[u] = "approved"
    /\ decision[u] = "approved" /\ mode[u] = "plan-only" => source[u] = "user"
    /\ execution[u] # None => status[u] = "running" /\ text[u] = execution[u]
    /\ status[u] = "running" /\ ~disposed => execution[u] # None
    /\ status[u] \in Terminal => Emitted(u, "turn/completed")

RecordsAgree == \A u \in Turn : RecordAgrees(u)

IInv == TypeOK /\ LockAgreement /\ RecordsAgree /\ OneActiveUnlessFinishedTwice

-----------------------------------------------------------------------------
\* What an Emit appends: the other streams stay, this one keeps its envelopes
\* and gains those of ms.
LEMMA EmitAppends ==
    ASSUME TypeOK, NEW u \in Turn, NEW ms \in Seq(Method), Emit(u, ms)
    PROVE  /\ events' \in [Turn -> Seq(Method)]
           /\ \A v \in Turn \ {u} : events'[v] = events[v]
           /\ events'[u] = events[u] \o ms
           /\ Len(events'[u]) = Len(events[u]) + Len(ms)
           /\ \A i \in DOMAIN events[u] : i \in DOMAIN events'[u] /\ events'[u][i] = events[u][i]
           /\ \A i \in DOMAIN ms :
                 Len(events[u]) + i \in DOMAIN events'[u] /\ events'[u][Len(events[u]) + i] = ms[i]
           /\ \A i \in DOMAIN events'[u] :
                 \/ i \in DOMAIN events[u] /\ events'[u][i] = events[u][i]
                 \/ \E j \in DOMAIN ms : events'[u][i] = ms[j]
<1>1. events[u] \in Seq(Method)
  BY DEF TypeOK
<1>2. /\ events' = [events EXCEPT ![u] = events[u] \o ms]
      /\ events[u] \o ms \in Seq(Method)
  BY <1>1 DEF Emit
<1>3. /\ events' \in [Turn -> Seq(Method)]
      /\ \A v \in Turn \ {u} : events'[v] = events[v]
      /\ events'[u] = events[u] \o ms
  BY <1>2 DEF TypeOK
<1>4. Len(events[u] \o ms) = Len(events[u]) + Len(ms)
  BY <1>1
<1>5. \A i \in DOMAIN (events[u] \o ms) :
         \/ i \in DOMAIN events[u] /\ (events[u] \o ms)[i] = events[u][i]
         \/ i - Len(events[u]) \in DOMAIN ms /\ (events[u] \o ms)[i] = ms[i - Len(events[u])]
  BY <1>1
<1>6. \A i \in DOMAIN events[u] :
         i \in DOMAIN (events[u] \o ms) /\ (events[u] \o ms)[i] = events[u][i]
  BY <1>1
<1>7. \A i \in DOMAIN ms :
         Len(events[u]) + i \in DOMAIN (events[u] \o ms) /\ (events[u] \o ms)[Len(events[u]) + i] = ms[i]
  BY <1>1
<1>8. QED
  BY <1>3, <1>4, <1>5, <1>6, <1>7

\* Every sequence of envelopes an action emits is one of methods.
LEMMA EmittedMethods ==
    /\ \A auto \in BOOLEAN : OpeningEvents(auto) \in Seq(Method)
    /\ <<"turn/completed">> \in Seq(Method)
    /\ <<"turn/plan/updated">> \in Seq(Method)
    /\ <<"item/started">> \in Seq(Method)
    /\ <<"item/agentMessage/delta">> \in Seq(Method)
    /\ <<"item/completed", "turn/diff/updated", "turn/completed">> \in Seq(Method)
<1>a. <<"turn/started", "turn/plan/updated", "requestApproval">> \in Seq(Method)
  BY DEF Method
<1>b. <<"turn/started", "turn/plan/updated", "requestApproval", "item/started">> \in Seq(Method)
  BY DEF Method
<1>1. \A auto \in BOOLEAN : OpeningEvents(auto) \in Seq(Method)
  BY <1>a, <1>b DEF OpeningEvents
<1>2. <<"turn/completed">> \in Seq(Method)
  BY DEF Method
<1>3. <<"turn/plan/updated">> \in Seq(Method)
  BY DEF Method
<1>4. <<"item/started">> \in Seq(Method)
  BY DEF Method
<1>5. <<"item/agentMessage/delta">> \in Seq(Method)
  BY DEF Method
<1>6. <<"item/completed", "turn/diff/updated", "turn/completed">> \in Seq(Method)
  BY DEF Method
<1>7. QED
  BY <1>1, <1>2, <1>3, <1>4, <1>5, <1>6

\* The methods a stream has seen after an Emit.
LEMMA EmittedAfter ==
    ASSUME TypeOK, NEW u \in Turn, NEW ms \in Seq(Method), Emit(u, ms), NEW m
    PROVE  Emitted(u, m)' <=> Emitted(u, m) \/ \E i \in DOMAIN ms : ms[i] = m
<1>1. ASSUME Emitted(u, m)' PROVE Emitted(u, m) \/ \E i \in DOMAIN ms : ms[i] = m
  <2>1. PICK i \in DOMAIN events'[u] : events'[u][i] = m
    BY <1>1 DEF Emitted
  <2>2. \/ i \in DOMAIN events[u] /\ events'[u][i] = events[u][i]
        \/ \E j \in DOMAIN ms : events'[u][i] = ms[j]
    BY <2>1, EmitAppends
  <2>3. QED
    BY <2>1, <2>2 DEF Emitted
<1>2. ASSUME Emitted(u, m) PROVE Emitted(u, m)'
  <2>1. PICK i \in DOMAIN events[u] : events[u][i] = m
    BY <1>2 DEF Emitted
  <2>2. i \in DOMAIN events'[u] /\ events'[u][i] = events[u][i]
    BY <2>1, EmitAppends
  <2>3. QED
    BY <2>1, <2>2 DEF Emitted
<1>3. ASSUME NEW i \in DOMAIN ms, ms[i] = m PROVE Emitted(u, m)'
  <2>1. Len(events[u]) + i \in DOMAIN events'[u] /\ events'[u][Len(events[u]) + i] = ms[i]
    BY EmitAppends
  <2>2. QED
    BY <1>3, <2>1 DEF Emitted
<1>4. QED
  BY <1>1, <1>2, <1>3

LEMMA CompletionEvents ==
    /\ \E i \in DOMAIN <<"turn/completed">> : <<"turn/completed">>[i] = "turn/completed"
    /\ \A i \in DOMAIN <<"turn/completed">> : <<"turn/completed">>[i] # "item/started"
    /\ \E i \in DOMAIN <<"item/completed", "turn/diff/updated", "turn/completed">> :
          <<"item/completed", "turn/diff/updated", "turn/completed">>[i] = "turn/completed"
    /\ \A i \in DOMAIN <<"item/completed", "turn/diff/updated", "turn/completed">> :
          <<"item/completed", "turn/diff/updated", "turn/completed">>[i] # "item/started"
    /\ \A i \in DOMAIN <<"turn/plan/updated">> : <<"turn/plan/updated">>[i] # "item/started"
<1>1. DOMAIN <<"turn/completed">> = {1} /\ DOMAIN <<"turn/plan/updated">> = {1}
  OBVIOUS
<1>2. DOMAIN <<"item/completed", "turn/diff/updated", "turn/completed">> = {1, 2, 3}
  OBVIOUS
<1>3. QED
  BY <1>1, <1>2

\* A message posted on a thread leaves the transcripts sequences of messages.
LEMMA PostTyped ==
    ASSUME TypeOK, NEW t \in Thread, NEW u \in Turn,
           NEW role \in {"user", "steer", "assistant"}, Post(t, role, u)
    PROVE  messages' \in [Thread -> Seq(Message)]
<1>1. [role |-> role, turn |-> u] \in Message
  BY DEF Message
<1>2. Append(messages[t], [role |-> role, turn |-> u]) \in Seq(Message)
  BY <1>1 DEF TypeOK
<1>3. QED
  BY <1>2 DEF Post, TypeOK

-----------------------------------------------------------------------------
LEMMA InitIInv == Init => IInv
<1> SUFFICES ASSUME Init PROVE IInv
  OBVIOUS
<1>a. /\ messages \in [Thread -> Seq(Message)]
      /\ events \in [Turn -> Seq(Method)]
  BY DEF Init
<1>b. /\ text \in [Turn -> 0..Chunks]
      /\ execution \in [Turn -> 0..None]
      /\ steers \in 0..MaxSteers
  BY BridgeStoreAssumption DEF Init, None
<1>1. TypeOK
  BY <1>a, <1>b DEF Init, TypeOK, TurnStatus, AccessMode, Terminal
<1>2. LockAgreement
  BY BridgeStoreAssumption DEF Init, LockAgreement
<1>3. RecordsAgree
  BY BridgeStoreAssumption DEF Init, RecordsAgree, RecordAgrees, None, Emitted, Terminal
<1>4. OneActiveUnlessFinishedTwice
  BY DEF Init, OneActiveUnlessFinishedTwice, Live
<1>5. QED
  BY <1>1, <1>2, <1>3, <1>4 DEF IInv

LEMMA TypeOKStep == TypeOK /\ RecordsAgree /\ [Next]_vars => TypeOK'
<1> SUFFICES ASSUME TypeOK, RecordsAgree, [Next]_vars PROVE TypeOK'
  OBVIOUS
<1> USE BridgeStoreAssumption
<1>1. ASSUME NEW req \in Thread \cup {Draft}, NEW t \in Thread, NEW u \in Turn,
             NEW m \in AccessMode, StartTurn(req, t, u, m)
      PROVE  TypeOK'
  <2>1. events' \in [Turn -> Seq(Method)]
    BY <1>1, EmitAppends, EmittedMethods DEF StartTurn, AutoApproved
  <2>2. messages' \in [Thread -> Seq(Message)]
    BY <1>1, PostTyped DEF StartTurn
  <2>3. execution' = execution \/ execution' = [execution EXCEPT ![u] = 0]
    BY <1>1 DEF StartTurn, StartExecution
  <2>4. execution \in [Turn -> 0..None] /\ 0 \in 0..None
    BY DEF TypeOK, None
  <2>5. execution' \in [Turn -> 0..None]
    BY <2>3, <2>4
  <2>6. QED
    BY <1>1, <2>1, <2>2, <2>5 DEF StartTurn, NotBusy, TypeOK, TurnStatus
<1>2. ASSUME NEW u \in Turn, InterruptTurn(u) PROVE TypeOK'
  <2>1. events' \in [Turn -> Seq(Method)]
    BY <1>2, EmitAppends, EmittedMethods DEF InterruptTurn
  <2>2. execution' \in [Turn -> 0..None]
    BY <1>2 DEF InterruptTurn, StopExecution, TypeOK, None
  <2>3. QED
    BY <1>2, <2>1, <2>2
    DEF InterruptTurn, FinishTurn, TypeOK, TurnStatus, Terminal, approvalVars
<1>3. ASSUME NEW u \in Turn, SteerTurn(u) PROVE TypeOK'
  <2>1. events' \in [Turn -> Seq(Method)]
    BY <1>3, EmitAppends, EmittedMethods DEF SteerTurn
  <2>2. threadOf[u] \in Thread
    BY <1>3 DEF SteerTurn, RecordsAgree, RecordAgrees
  <2>3. messages' \in [Thread -> Seq(Message)]
    BY <1>3, <2>2, PostTyped DEF SteerTurn
  <2>4. QED
    BY <1>3, <2>1, <2>3 DEF SteerTurn, TypeOK, approvalVars
<1>4. ASSUME NEW u \in Turn, DenyApproval(u) PROVE TypeOK'
  <2>1. events' \in [Turn -> Seq(Method)]
    BY <1>4, EmitAppends, EmittedMethods DEF DenyApproval
  <2>2. execution' \in [Turn -> 0..None]
    BY <1>4 DEF DenyApproval, StopExecution, TypeOK, None
  <2>3. QED
    BY <1>4, <2>1, <2>2
    DEF DenyApproval, Decide, FinishTurn, TypeOK, TurnStatus, Terminal
<1>5. ASSUME NEW u \in Turn, ApproveApproval(u) PROVE TypeOK'
  <2>1. events' \in [Turn -> Seq(Method)]
    BY <1>5, EmitAppends, EmittedMethods DEF ApproveApproval, TypeOK
  <2>2. execution' \in [Turn -> 0..None]
    BY <1>5 DEF ApproveApproval, StartExecution, TypeOK, None
  <2>3. QED
    BY <1>5, <2>1, <2>2 DEF ApproveApproval, Decide, TypeOK, TurnStatus
<1>6. ASSUME NEW u \in Turn, TickDelta(u) PROVE TypeOK'
  <2>1. events' \in [Turn -> Seq(Method)]
    BY <1>6, EmitAppends, EmittedMethods DEF TickDelta
  <2>2. execution[u] \in 0..Chunks - 1 /\ text[u] = execution[u]
    BY <1>6 DEF TickDelta, Executing, HasChunk, TypeOK, RecordsAgree, RecordAgrees, None
  <2>3. /\ execution' \in [Turn -> 0..None]
        /\ text' \in [Turn -> 0..Chunks]
    BY <1>6, <2>2 DEF TickDelta, TypeOK, None
  <2>4. QED
    BY <1>6, <2>1, <2>3 DEF TickDelta, TypeOK, approvalVars, threadVars
<1>7. ASSUME NEW u \in Turn, TickFinish(u) PROVE TypeOK'
  <2>1. events' \in [Turn -> Seq(Method)]
    BY <1>7, EmitAppends, EmittedMethods DEF TickFinish
  <2>2. threadOf[u] \in Thread
    BY <1>7 DEF TickFinish, Executing, RecordsAgree, RecordAgrees
  <2>3. messages' \in [Thread -> Seq(Message)]
    BY <1>7, <2>2, PostTyped DEF TickFinish
  <2>4. execution' \in [Turn -> 0..None]
    BY <1>7 DEF TickFinish, StopExecution, TypeOK, None
  <2>5. QED
    BY <1>7, <2>1, <2>3, <2>4
    DEF TickFinish, FinishTurn, TypeOK, TurnStatus, Terminal, approvalVars
<1>8. ASSUME Dispose PROVE TypeOK'
  BY <1>8 DEF Dispose, TypeOK, None, turnVars, approvalVars, threadVars
<1>9. ASSUME UNCHANGED vars PROVE TypeOK'
  BY <1>9 DEF vars, TypeOK
<1>10. QED
  BY <1>1, <1>2, <1>3, <1>4, <1>5, <1>6, <1>7, <1>8, <1>9 DEF Next

-----------------------------------------------------------------------------
\* finishTurn releases the thread of its turn and disturbs no other lock.
LEMMA FinishKeepsLocks ==
    ASSUME TypeOK, LockAgreement, NEW u \in Turn, NEW s \in Terminal,
           FinishTurn(u, s), UNCHANGED threadOf
    PROVE  LockAgreement'
<1> SUFFICES ASSUME NEW t \in Thread
             PROVE  /\ threadLocks'[t] = activeTurnId'[t]
                    /\ activeTurnId'[t] # NoTurn =>
                          threadOf'[activeTurnId'[t]] = t /\ Live(activeTurnId[t])'
  BY DEF LockAgreement, Live
<1>1. CASE t = threadOf[u]
  BY <1>1 DEF FinishTurn, TypeOK
<1>2. CASE t # threadOf[u]
  <2>1. /\ activeTurnId'[t] = activeTurnId[t]
        /\ threadLocks'[t] = threadLocks[t]
    BY <1>2 DEF FinishTurn, TypeOK
  <2>2. ASSUME activeTurnId[t] # NoTurn
        PROVE  /\ activeTurnId[t] \in Turn \ {u}
               /\ threadOf[activeTurnId[t]] = t
               /\ Live(activeTurnId[t])
    BY <1>2, <2>2 DEF LockAgreement, TypeOK
  <2>3. \A v \in Turn \ {u} : status'[v] = status[v]
    BY DEF FinishTurn, TypeOK
  <2>4. QED
    BY <2>1, <2>2, <2>3 DEF LockAgreement, Live
<1>3. QED
  BY <1>1, <1>2

LEMMA LockStep == TypeOK /\ LockAgreement /\ [Next]_vars => LockAgreement'
<1> SUFFICES ASSUME TypeOK, LockAgreement, [Next]_vars PROVE LockAgreement'
  OBVIOUS
<1>1. ASSUME NEW req \in Thread \cup {Draft}, NEW t \in Thread, NEW u \in Turn,
             NEW m \in AccessMode, StartTurn(req, t, u, m)
      PROVE  LockAgreement'
  <2>1. /\ activeTurnId' = [activeTurnId EXCEPT ![t] = u]
        /\ threadLocks' = [threadLocks EXCEPT ![t] = u]
        /\ threadOf' = [threadOf EXCEPT ![u] = t]
        /\ status[u] = "absent"
    BY <1>1 DEF StartTurn
  <2>2. /\ \A v \in Turn \ {u} : status'[v] = status[v]
        /\ status'[u] \in {"running", "waiting_approval"}
    BY <1>1 DEF StartTurn, NotBusy, TypeOK
  <2>3. \A s \in Thread : activeTurnId[s] # u
    <3>1. u # NoTurn /\ ~Live(u)
      BY <2>1, BridgeStoreAssumption DEF Live
    <3>2. QED
      BY <3>1 DEF LockAgreement
  <2>4. QED
    BY <2>1, <2>2, <2>3 DEF LockAgreement, Live, TypeOK
<1>2. ASSUME NEW u \in Turn, InterruptTurn(u) PROVE LockAgreement'
  BY <1>2, FinishKeepsLocks DEF InterruptTurn, Terminal
<1>3. ASSUME NEW u \in Turn, DenyApproval(u) PROVE LockAgreement'
  BY <1>3, FinishKeepsLocks DEF DenyApproval, Terminal
<1>4. ASSUME NEW u \in Turn, TickFinish(u) PROVE LockAgreement'
  BY <1>4, FinishKeepsLocks DEF TickFinish, Terminal
<1>5. ASSUME NEW u \in Turn, ApproveApproval(u) PROVE LockAgreement'
  <2>1. \A v \in Turn : Live(v) => Live(v)'
    BY <1>5 DEF ApproveApproval, Live, TypeOK
  <2>2. UNCHANGED <<threadOf, activeTurnId, threadLocks>>
    BY <1>5 DEF ApproveApproval
  <2>3. QED
    BY <2>1, <2>2 DEF LockAgreement, Live, TypeOK
<1>6. ASSUME UNCHANGED <<status, threadOf, activeTurnId, threadLocks>>
      PROVE  LockAgreement'
  BY <1>6 DEF LockAgreement, Live
<1>7. QED
  BY <1>1, <1>2, <1>3, <1>4, <1>5, <1>6
  DEF Next, SteerTurn, TickDelta, Dispose, vars, turnVars, threadVars

-----------------------------------------------------------------------------
\* What a step on one turn leaves of every other turn.
UnchangedBut(u) ==
    /\ \A v \in Turn \ {u} :
          /\ status'[v] = status[v] /\ threadOf'[v] = threadOf[v]
          /\ mode'[v] = mode[v] /\ text'[v] = text[v]
          /\ decision'[v] = decision[v] /\ source'[v] = source[v]
          /\ v \in approvals' <=> v \in approvals
          /\ execution'[v] = execution[v]
          /\ events'[v] = events[v]
    /\ disposed' = disposed

LEMMA OnlyThatTurn ==
    ASSUME RecordsAgree, NEW u \in Turn, UnchangedBut(u), RecordAgrees(u)'
    PROVE  RecordsAgree'
<1>1. ASSUME NEW v \in Turn \ {u} PROVE RecordAgrees(v)'
  <2>1. RecordAgrees(v)
    BY DEF RecordsAgree
  <2>2. /\ status'[v] = status[v] /\ threadOf'[v] = threadOf[v]
        /\ mode'[v] = mode[v] /\ text'[v] = text[v]
        /\ decision'[v] = decision[v] /\ source'[v] = source[v]
        /\ v \in approvals' <=> v \in approvals
        /\ execution'[v] = execution[v]
        /\ events'[v] = events[v]
        /\ disposed' = disposed
    BY DEF UnchangedBut
  <2>3. QED
    BY <2>1, <2>2 DEF RecordAgrees, Emitted
<1>2. QED
  BY <1>1 DEF RecordsAgree

LEMMA RecordsStep ==
    TypeOK /\ LockAgreement /\ RecordsAgree /\ [Next]_vars => RecordsAgree'
<1> SUFFICES ASSUME TypeOK, LockAgreement, RecordsAgree, [Next]_vars PROVE RecordsAgree'
  OBVIOUS
<1> USE BridgeStoreAssumption
<1>1. ASSUME NEW req \in Thread \cup {Draft}, NEW t \in Thread, NEW u \in Turn,
             NEW m \in AccessMode, StartTurn(req, t, u, m)
      PROVE  RecordsAgree'
  <2>1. RecordAgrees(u)
    BY DEF RecordsAgree
  <2>2. status[u] = "absent" /\ text' = text
    BY <1>1 DEF StartTurn
  <2>3. events'[u] = events[u] \o OpeningEvents(AutoApproved(m)) /\ events[u] = <<>>
    BY <1>1, <2>1, <2>2, EmitAppends, EmittedMethods DEF StartTurn, AutoApproved, RecordAgrees
  <2>4. UnchangedBut(u)
    <3>1. \A v \in Turn \ {u} : events'[v] = events[v]
      BY <1>1, EmitAppends, EmittedMethods DEF StartTurn, AutoApproved
    <3>2. \A v \in Turn \ {u} : execution'[v] = execution[v]
      BY <1>1 DEF StartTurn, StartExecution, TypeOK
    <3>3. \A v \in Turn \ {u} : v \in approvals' <=> v \in approvals
      BY <1>1 DEF StartTurn
    <3>4. QED
      BY <1>1, <3>1, <3>2, <3>3 DEF StartTurn, UnchangedBut, TypeOK
  <2>5. execution[u] = None /\ text[u] = 0
    BY <2>1, <2>2 DEF RecordAgrees
  <2>6. threadOf'[u] = t /\ mode'[u] = m
    BY <1>1 DEF StartTurn, NotBusy, TypeOK
  <2>7. CASE AutoApproved(m)
    <3>1. /\ status'[u] = "running" /\ decision'[u] = "approved" /\ approvals' = approvals
          /\ execution'[u] = 0
      BY <1>1, <2>5, <2>7 DEF StartTurn, StartExecution, TypeOK
    <3>2. m # "plan-only" /\ u \notin approvals /\ None # 0
      BY <2>1, <2>2, <2>7 DEF AutoApproved, RecordAgrees, None
    <3>3. RecordAgrees(u)'
      BY <2>2, <2>5, <2>6, <3>1, <3>2 DEF RecordAgrees, Terminal
    <3>4. QED
      BY <2>4, <3>3, OnlyThatTurn
  <2>8. CASE ~AutoApproved(m)
    <3>1. /\ status'[u] = "waiting_approval" /\ decision'[u] = "pending"
          /\ approvals' = approvals \cup {u} /\ execution' = execution
      BY <1>1, <2>8 DEF StartTurn, NotBusy, TypeOK
    <3>2. ~Emitted(u, "item/started")'
      BY <2>3, <2>8 DEF OpeningEvents, Emitted
    <3>3. RecordAgrees(u)'
      BY <2>2, <2>5, <2>6, <3>1, <3>2 DEF RecordAgrees, Terminal
    <3>4. QED
      BY <2>4, <3>3, OnlyThatTurn
  <2>9. QED
    BY <2>7, <2>8
\* Interrupting, denying and the last tick end a turn in the same way.
<1>2. ASSUME NEW u \in Turn, NEW s \in Terminal, NEW ms \in Seq(Method),
             status[u] # "absent", FinishTurn(u, s), StopExecution(u), Emit(u, ms),
             \E i \in DOMAIN ms : ms[i] = "turn/completed",
             \A i \in DOMAIN ms : ms[i] # "item/started"
      PROVE  /\ status'[u] = s /\ execution'[u] = None
             /\ Emitted(u, "turn/completed")'
             /\ Emitted(u, "item/started")' => Emitted(u, "item/started")
             /\ \A v \in Turn \ {u} : /\ status'[v] = status[v]
                                      /\ execution'[v] = execution[v]
                                      /\ events'[v] = events[v]
  <2>1. /\ status'[u] = s /\ execution'[u] = None
        /\ \A v \in Turn \ {u} : status'[v] = status[v] /\ execution'[v] = execution[v]
    BY <1>2 DEF FinishTurn, StopExecution, TypeOK
  <2>2. /\ Emitted(u, "turn/completed")'
        /\ Emitted(u, "item/started")' => Emitted(u, "item/started")
    BY <1>2, EmittedAfter
  <2>3. \A v \in Turn \ {u} : events'[v] = events[v]
    BY <1>2, EmitAppends
  <2>4. QED
    BY <2>1, <2>2, <2>3
<1>3. ASSUME NEW u \in Turn, InterruptTurn(u) PROVE RecordsAgree'
  <2>1. /\ status[u] # "absent" /\ status[u] # "completed"
        /\ UNCHANGED <<threadOf, mode, text, decision, source, approvals, disposed>>
    BY <1>3 DEF InterruptTurn, Interruptible, IsTerminal, Terminal, approvalVars
  <2>2. /\ status'[u] = "interrupted" /\ execution'[u] = None
        /\ Emitted(u, "turn/completed")'
        /\ Emitted(u, "item/started")' => Emitted(u, "item/started")
        /\ \A v \in Turn \ {u} : /\ status'[v] = status[v]
                                 /\ execution'[v] = execution[v]
                                 /\ events'[v] = events[v]
    BY <1>2, <1>3, <2>1, EmittedMethods, CompletionEvents DEF InterruptTurn, Terminal
  <2>3. RecordAgrees(u)'
    BY <2>1, <2>2 DEF RecordAgrees, RecordsAgree
  <2>4. UnchangedBut(u)
    BY <2>1, <2>2 DEF UnchangedBut
  <2>5. QED
    BY <2>3, <2>4, OnlyThatTurn
<1>4. ASSUME NEW u \in Turn, DenyApproval(u) PROVE RecordsAgree'
  <2>1. /\ u \in approvals /\ decision[u] = "pending"
        /\ decision' = [decision EXCEPT ![u] = "denied"]
        /\ source' = [source EXCEPT ![u] = "user"]
        /\ approvals' = approvals \ {u}
        /\ UNCHANGED <<threadOf, mode, text, disposed>>
    BY <1>4 DEF DenyApproval, Decide
  <2>2. /\ RecordAgrees(u)
        /\ status[u] # "absent"
    BY <2>1 DEF RecordsAgree, RecordAgrees
  <2>3. /\ status'[u] = "interrupted" /\ execution'[u] = None
        /\ Emitted(u, "turn/completed")'
        /\ Emitted(u, "item/started")' => Emitted(u, "item/started")
        /\ \A v \in Turn \ {u} : /\ status'[v] = status[v]
                                 /\ execution'[v] = execution[v]
                                 /\ events'[v] = events[v]
    BY <1>2, <1>4, <2>2, EmittedMethods, CompletionEvents DEF DenyApproval, Terminal
  <2>4. decision'[u] = "denied" /\ u \notin approvals'
    BY <2>1 DEF TypeOK
  <2>5. RecordAgrees(u)'
    BY <2>1, <2>2, <2>3, <2>4 DEF RecordAgrees
  <2>6. UnchangedBut(u)
    BY <2>1, <2>3 DEF UnchangedBut, TypeOK
  <2>7. QED
    BY <2>5, <2>6, OnlyThatTurn
<1>5. ASSUME NEW u \in Turn, ApproveApproval(u) PROVE RecordsAgree'
  <2>1. /\ u \in approvals /\ decision[u] = "pending"
        /\ decision' = [decision EXCEPT ![u] = "approved"]
        /\ source' = [source EXCEPT ![u] = "user"]
        /\ approvals' = approvals \ {u}
        /\ UNCHANGED <<threadOf, mode, text, disposed>>
    BY <1>5 DEF ApproveApproval, Decide
  <2>2. /\ RecordAgrees(u)
        /\ status[u] # "absent" /\ status[u] \notin {"running", "completed"}
        /\ execution[u] = None /\ text[u] = 0
    BY <2>1 DEF RecordsAgree, RecordAgrees, TypeOK
  <2>3. decision'[u] = "approved" /\ source'[u] = "user" /\ u \notin approvals'
    BY <2>1 DEF TypeOK
  <2>4. CASE status[u] = "waiting_approval"
    <3>1. /\ status' = [status EXCEPT ![u] = "running"]
          /\ execution' = [execution EXCEPT ![u] = 0]
          /\ Emit(u, <<"item/started">>)
      BY <1>5, <2>2, <2>4 DEF ApproveApproval, StartExecution
    <3>2. status'[u] = "running" /\ execution'[u] = 0 /\ 0 # None
      BY <3>1 DEF TypeOK, None
    <3>3. RecordAgrees(u)'
      BY <2>1, <2>2, <2>3, <3>2 DEF RecordAgrees, Terminal
    <3>4. \A v \in Turn \ {u} : events'[v] = events[v]
      BY <3>1, EmitAppends, EmittedMethods
    <3>5. UnchangedBut(u)
      BY <2>1, <3>1, <3>4 DEF UnchangedBut, TypeOK
    <3>6. QED
      BY <3>3, <3>5, OnlyThatTurn
  <2>5. CASE status[u] # "waiting_approval"
    <3>1. UNCHANGED <<status, execution, events>>
      BY <1>5, <2>5 DEF ApproveApproval
    <3>2. RecordAgrees(u)'
      BY <2>1, <2>2, <2>3, <2>5, <3>1 DEF RecordAgrees, Emitted
    <3>3. UnchangedBut(u)
      BY <2>1, <3>1 DEF UnchangedBut, TypeOK
    <3>4. QED
      BY <3>2, <3>3, OnlyThatTurn
  <2>6. QED
    BY <2>4, <2>5
<1>6. ASSUME NEW u \in Turn, TickDelta(u) PROVE RecordsAgree'
  <2>1. /\ execution' = [execution EXCEPT ![u] = execution[u] + 1]
        /\ text' = [text EXCEPT ![u] = text[u] + 1]
        /\ execution[u] < Chunks /\ execution[u] # None /\ status[u] = "running"
        /\ UNCHANGED <<status, threadOf, mode, decision, source, approvals, disposed>>
        /\ Emit(u, <<"item/agentMessage/delta">>)
    BY <1>6 DEF TickDelta, Executing, HasChunk, approvalVars
  <2>2. RecordAgrees(u)
    BY DEF RecordsAgree
  <2>3. /\ execution'[u] = execution[u] + 1 /\ text'[u] = execution'[u]
        /\ execution'[u] # None
    BY <2>1, <2>2 DEF RecordAgrees, TypeOK, None
  <2>4. RecordAgrees(u)'
    BY <2>1, <2>2, <2>3 DEF RecordAgrees, Terminal
  <2>5. UnchangedBut(u)
    BY <2>1, EmitAppends, EmittedMethods DEF UnchangedBut, TypeOK
  <2>6. QED
    BY <2>4, <2>5, OnlyThatTurn
<1>7. ASSUME NEW u \in Turn, TickFinish(u) PROVE RecordsAgree'
  <2>1. /\ status[u] = "running"
        /\ UNCHANGED <<threadOf, mode, text, decision, source, approvals, disposed>>
    BY <1>7 DEF TickFinish, Executing, approvalVars
  <2>2. /\ status'[u] = "completed" /\ execution'[u] = None
        /\ Emitted(u, "turn/completed")'
        /\ Emitted(u, "item/started")' => Emitted(u, "item/started")
        /\ \A v \in Turn \ {u} : /\ status'[v] = status[v]
                                 /\ execution'[v] = execution[v]
                                 /\ events'[v] = events[v]
    BY <1>2, <1>7, <2>1, EmittedMethods, CompletionEvents DEF TickFinish, Terminal
  <2>3. RecordAgrees(u)'
    BY <2>1, <2>2 DEF RecordAgrees, RecordsAgree
  <2>4. UnchangedBut(u)
    BY <2>1, <2>2 DEF UnchangedBut
  <2>5. QED
    BY <2>3, <2>4, OnlyThatTurn
<1>8. ASSUME NEW u \in Turn, SteerTurn(u) PROVE RecordsAgree'
  <2>1. /\ UNCHANGED <<status, threadOf, mode, text, decision, source, approvals,
                       execution, disposed>>
        /\ Emit(u, <<"turn/plan/updated">>)
        /\ status[u] \notin Terminal /\ status[u] # "absent"
    BY <1>8 DEF SteerTurn, approvalVars, IsTerminal
  <2>2. Emitted(u, "item/started")' => Emitted(u, "item/started")
    <3> DEFINE ms == <<"turn/plan/updated">>
    <3>1. /\ ms \in Seq(Method) /\ Emit(u, ms)
          /\ \A i \in DOMAIN ms : ms[i] # "item/started"
      BY <2>1, EmittedMethods, CompletionEvents
    <3> HIDE DEF ms
    <3>2. QED
      BY <3>1, EmittedAfter
  <2>3. RecordAgrees(u)'
    BY <2>1, <2>2 DEF RecordAgrees, RecordsAgree
  <2>4. UnchangedBut(u)
    BY <2>1, EmitAppends, EmittedMethods DEF UnchangedBut
  <2>5. QED
    BY <2>3, <2>4, OnlyThatTurn
<1>9. ASSUME Dispose PROVE RecordsAgree'
  BY <1>9 DEF Dispose, RecordsAgree, RecordAgrees, Emitted, turnVars, approvalVars
<1>10. ASSUME UNCHANGED vars PROVE RecordsAgree'
  BY <1>10 DEF vars, RecordsAgree, RecordAgrees, Emitted
<1>11. QED
  BY <1>1, <1>3, <1>4, <1>5, <1>6, <1>7, <1>8, <1>9, <1>10 DEF Next

-----------------------------------------------------------------------------
\* A stream that has closed twice has done so for good.
LEMMA ClosedTwiceForever ==
    ASSUME TypeOK, NEW u \in Turn, NEW ms \in Seq(Method), Emit(u, ms)
    PROVE  \A v \in Turn : FinishedTwice(v) => FinishedTwice(v)'
<1> SUFFICES ASSUME NEW v \in Turn, FinishedTwice(v) PROVE FinishedTwice(v)'
  OBVIOUS
<1>1. CASE v # u
  BY <1>1, EmitAppends DEF FinishedTwice
<1>2. CASE v = u
  <2>1. PICK i \in DOMAIN events[u], j \in DOMAIN events[u] :
           i # j /\ events[u][i] = "turn/completed" /\ events[u][j] = "turn/completed"
    BY <1>2 DEF FinishedTwice
  <2>2. /\ i \in DOMAIN events'[u] /\ events'[u][i] = "turn/completed"
        /\ j \in DOMAIN events'[u] /\ events'[u][j] = "turn/completed"
    BY <2>1, EmitAppends
  <2>3. QED
    BY <1>2, <2>1, <2>2 DEF FinishedTwice
<1>3. QED
  BY <1>1, <1>2

\* Finishing a turn whose stream is closed already closes it a second time.
LEMMA ClosedAgain ==
    ASSUME TypeOK, NEW u \in Turn, NEW ms \in Seq(Method), Emit(u, ms),
           \E i \in DOMAIN ms : ms[i] = "turn/completed",
           Emitted(u, "turn/completed")
    PROVE  FinishedTwice(u)'
<1>1. PICK i \in DOMAIN events[u] : events[u][i] = "turn/completed"
  BY DEF Emitted
<1>2. PICK j \in DOMAIN ms : ms[j] = "turn/completed"
  OBVIOUS
<1>3. i \in DOMAIN events'[u] /\ events'[u][i] = "turn/completed"
  BY <1>1, EmitAppends
<1>4. /\ Len(events[u]) + j \in DOMAIN events'[u]
      /\ events'[u][Len(events[u]) + j] = "turn/completed"
  BY <1>2, EmitAppends
<1>5. i # Len(events[u]) + j
  <2>1. i \in 1..Len(events[u]) /\ j \in 1..Len(ms) /\ Len(events[u]) \in Nat /\ Len(ms) \in Nat
    BY <1>1, <1>2 DEF TypeOK
  <2>2. QED
    BY <2>1
<1>6. QED
  BY <1>3, <1>4, <1>5 DEF FinishedTwice

\* Ending a turn frees its thread, and only its thread.
LEMMA FinishKeepsOneActive ==
    ASSUME TypeOK, RecordsAgree, OneActiveUnlessFinishedTwice,
           NEW u \in Turn, NEW s \in Terminal, NEW ms \in Seq(Method),
           status[u] # "absent", FinishTurn(u, s), Emit(u, ms), UNCHANGED threadOf,
           \E i \in DOMAIN ms : ms[i] = "turn/completed"
    PROVE  OneActiveUnlessFinishedTwice'
<1> SUFFICES ASSUME \A v \in Turn : ~FinishedTwice(v)',
                    NEW v \in Turn, Live(v)'
             PROVE  activeTurnId'[threadOf[v]] = v
  BY DEF OneActiveUnlessFinishedTwice
<1>1. /\ \A w \in Turn : ~FinishedTwice(w)
      /\ \A w \in Turn : Live(w) => activeTurnId[threadOf[w]] = w
  BY ClosedTwiceForever DEF OneActiveUnlessFinishedTwice
<1>2. Live(u)
  <2>1. status[u] \notin Terminal
    <3>1. SUFFICES ASSUME status[u] \in Terminal PROVE FALSE
      OBVIOUS
    <3>2. Emitted(u, "turn/completed")
      BY <3>1 DEF RecordsAgree, RecordAgrees
    <3>3. QED
      BY <3>2, ClosedAgain
  <2>2. QED
    BY <2>1 DEF Live, TypeOK, TurnStatus
<1>3. v # u /\ status[v] = status'[v]
  BY DEF FinishTurn, Live, Terminal, TypeOK
<1>4. activeTurnId[threadOf[v]] = v /\ activeTurnId[threadOf[u]] = u
  BY <1>1, <1>2, <1>3 DEF Live
<1>5. threadOf[v] # threadOf[u] /\ threadOf[v] \in Thread /\ threadOf[u] \in Thread
  BY <1>2, <1>3, <1>4 DEF RecordsAgree, RecordAgrees, Live
<1>6. QED
  BY <1>4, <1>5 DEF FinishTurn, TypeOK

LEMMA OneActiveStep == IInv /\ [Next]_vars => OneActiveUnlessFinishedTwice'
<1> SUFFICES ASSUME IInv, [Next]_vars PROVE OneActiveUnlessFinishedTwice'
  OBVIOUS
<1> USE DEF IInv
<1>1. ASSUME NEW req \in Thread \cup {Draft}, NEW t \in Thread, NEW u \in Turn,
             NEW m \in AccessMode, StartTurn(req, t, u, m)
      PROVE  OneActiveUnlessFinishedTwice'
  <2>1. SUFFICES ASSUME \A v \in Turn : ~FinishedTwice(v)',
                        NEW v \in Turn, Live(v)'
                 PROVE  activeTurnId'[threadOf'[v]] = v
    BY DEF OneActiveUnlessFinishedTwice
  <2>2. \A w \in Turn : ~FinishedTwice(w)
    BY <1>1, <2>1, ClosedTwiceForever, EmittedMethods DEF StartTurn, AutoApproved
  <2>3. /\ activeTurnId' = [activeTurnId EXCEPT ![t] = u]
        /\ threadOf' = [threadOf EXCEPT ![u] = t]
        /\ activeTurnId[t] = NoTurn
        /\ \A w \in Turn \ {u} : status'[w] = status[w]
    BY <1>1 DEF StartTurn, NotBusy, TypeOK
  <2>4. CASE v = u
    BY <2>3, <2>4 DEF TypeOK
  <2>5. CASE v # u
    <3>1. Live(v) /\ threadOf'[v] = threadOf[v] /\ threadOf[v] \in Thread
      BY <2>1, <2>3, <2>5 DEF Live, RecordsAgree, RecordAgrees, TypeOK
    <3>2. activeTurnId[threadOf[v]] = v
      BY <2>2, <3>1 DEF OneActiveUnlessFinishedTwice
    <3>3. v # NoTurn
      BY BridgeStoreAssumption
    <3>4. QED
      BY <2>3, <3>1, <3>2, <3>3 DEF TypeOK
  <2>6. QED
    BY <2>4, <2>5
<1>2. ASSUME NEW u \in Turn, InterruptTurn(u) PROVE OneActiveUnlessFinishedTwice'
  BY <1>2, FinishKeepsOneActive, EmittedMethods, CompletionEvents
  DEF InterruptTurn, Interruptible, Terminal
<1>3. ASSUME NEW u \in Turn, DenyApproval(u) PROVE OneActiveUnlessFinishedTwice'
  <2>1. status[u] # "absent"
    BY <1>3 DEF DenyApproval, Decide, RecordsAgree, RecordAgrees
  <2>2. QED
    BY <1>3, <2>1, FinishKeepsOneActive, EmittedMethods, CompletionEvents
    DEF DenyApproval, Terminal
<1>4. ASSUME NEW u \in Turn, TickFinish(u) PROVE OneActiveUnlessFinishedTwice'
  BY <1>4, FinishKeepsOneActive, EmittedMethods, CompletionEvents
  DEF TickFinish, Executing, Terminal
\* The other actions neither end nor start a turn, nor touch a lock.
<1>5. ASSUME NEW u \in Turn, NEW ms \in Seq(Method), Emit(u, ms),
             UNCHANGED <<threadOf, activeTurnId>>,
             \A v \in Turn : Live(v)' => Live(v)
      PROVE  OneActiveUnlessFinishedTwice'
  <2>1. \A v \in Turn : FinishedTwice(v) => FinishedTwice(v)'
    BY <1>5, ClosedTwiceForever
  <2>2. QED
    BY <1>5, <2>1 DEF OneActiveUnlessFinishedTwice
<1>6. ASSUME UNCHANGED <<threadOf, activeTurnId, events>>,
             \A v \in Turn : Live(v)' => Live(v)
      PROVE  OneActiveUnlessFinishedTwice'
  BY <1>6 DEF OneActiveUnlessFinishedTwice, FinishedTwice
<1>7. ASSUME NEW u \in Turn, ApproveApproval(u) PROVE OneActiveUnlessFinishedTwice'
  <2>1. /\ UNCHANGED <<threadOf, activeTurnId>>
        /\ \A v \in Turn : Live(v)' => Live(v)
    BY <1>7 DEF ApproveApproval, Live, TypeOK
  <2>2. CASE status[u] = "waiting_approval"
    <3>1. Emit(u, <<"item/started">>)
      BY <1>7, <2>2 DEF ApproveApproval
    <3>2. QED
      BY <1>5, <2>1, <3>1, EmittedMethods
  <2>3. CASE status[u] # "waiting_approval"
    BY <1>6, <1>7, <2>1, <2>3 DEF ApproveApproval
  <2>4. QED
    BY <2>2, <2>3
<1>8. ASSUME NEW u \in Turn, SteerTurn(u) PROVE OneActiveUnlessFinishedTwice'
  <2>1. /\ UNCHANGED <<threadOf, activeTurnId>>
        /\ \A v \in Turn : Live(v)' => Live(v)
        /\ Emit(u, <<"turn/plan/updated">>)
    BY <1>8 DEF SteerTurn, Live
  <2>2. QED
    BY <1>5, <2>1, EmittedMethods
<1>9. ASSUME NEW u \in Turn, TickDelta(u) PROVE OneActiveUnlessFinishedTwice'
  <2>1. /\ UNCHANGED <<threadOf, activeTurnId>>
        /\ \A v \in Turn : Live(v)' => Live(v)
        /\ Emit(u, <<"item/agentMessage/delta">>)
    BY <1>9 DEF TickDelta, Live, threadVars
  <2>2. QED
    BY <1>5, <2>1, EmittedMethods
<1>10. ASSUME Dispose \/ UNCHANGED vars PROVE OneActiveUnlessFinishedTwice'
  BY <1>6, <1>10 DEF Dispose, vars, turnVars, threadVars, Live
<1>11. QED
  BY <1>1, <1>2, <1>3, <1>4, <1>7, <1>8, <1>9, <1>10 DEF Next

-----------------------------------------------------------------------------
LEMMA Inductive == Spec => []IInv
<1>1. Init => IInv
  BY InitIInv
<1>2. IInv /\ [Next]_vars => IInv'
  BY TypeOKStep, LockStep, RecordsStep, OneActiveStep DEF IInv
<1>3. QED
  BY <1>1, <1>2, PTL DEF Spec

\* The state of the store is always of its type: store.ts never leaves a field
\* of a record, a map or a stream with a value that none of its readers expects.
THEOREM TypeCorrect == Spec => []TypeOK
<1>1. IInv => TypeOK
  BY DEF IInv
<1>2. QED
  BY <1>1, Inductive, PTL

\* summary.activeTurnId and threadLocks agree and name a turn that has not ended,
\* for every interleaving of startTurn with the three ways a turn ends.
THEOREM LocksAgree == Spec => []LockAgreement
<1>1. IInv => LockAgreement
  BY DEF IInv
<1>2. QED
  BY <1>1, Inductive, PTL

\* Nothing is executed without consent, and none but the user consents for a
\* plan-only turn: the rule of startTurn, decideApproval and tickExecution.
THEOREM ConsentFirst == Spec => []ConsentBeforeOutput
<1>1. IInv => ConsentBeforeOutput
  <2> SUFFICES ASSUME IInv, NEW u \in Turn,
                      text[u] > 0 \/ execution[u] # None \/ Emitted(u, "item/started")
               PROVE  decision[u] = "approved" /\ (mode[u] = "plan-only" => source[u] = "user")
    BY DEF ConsentBeforeOutput
  <2>1. RecordAgrees(u)
    BY DEF IInv, RecordsAgree
  <2>2. QED
    BY <2>1 DEF RecordAgrees
<1>2. QED
  BY <1>1, Inductive, PTL

\* A turn that has not ended always has something that can end it: an open
\* approval while it waits, a timer while it runs.
THEOREM NeverStuck == Spec => []NoStuckTurn
<1>1. IInv => NoStuckTurn
  BY DEF IInv, RecordsAgree, RecordAgrees, NoStuckTurn
<1>2. QED
  BY <1>1, Inductive, PTL

\* One turn at a time on a thread, unless a stale approval was denied: the only
\* hole in the busy check of startTurn is that second finishTurn.
THEOREM OneActive == Spec => []OneActiveUnlessFinishedTwice
<1>1. IInv => OneActiveUnlessFinishedTwice
  BY DEF IInv
<1>2. QED
  BY <1>1, Inductive, PTL

\* A completed turn is never touched again: neither a late decision, a late
\* interrupt nor a late tick reaches it, for lack of an open approval, of a
\* status that is not terminal and of a timer.
THEOREM CompletedStays == Spec => CompletedIsFinal
<1>1. IInv /\ [Next]_vars =>
         [\A u \in Turn : status[u] = "completed" =>
            /\ status'[u] = status[u]
            /\ decision'[u] = decision[u] /\ source'[u] = source[u]
            /\ text'[u] = text[u] /\ events'[u] = events[u]]_vars
  <2> SUFFICES ASSUME IInv, Next, NEW u \in Turn, status[u] = "completed"
               PROVE  /\ status'[u] = status[u]
                      /\ decision'[u] = decision[u] /\ source'[u] = source[u]
                      /\ text'[u] = text[u] /\ events'[u] = events[u]
    OBVIOUS
  <2>1. TypeOK /\ u \notin approvals
    BY DEF IInv, RecordsAgree, RecordAgrees
  <2>2. ASSUME NEW v \in Turn \ {u}, NEW ms \in Seq(Method), Emit(v, ms)
        PROVE  events'[u] = events[u]
    BY <2>1, <2>2, EmitAppends
  <2>3. ASSUME NEW req \in Thread \cup {Draft}, NEW t \in Thread, NEW v \in Turn,
               NEW m \in AccessMode, StartTurn(req, t, v, m)
        PROVE  /\ status'[u] = status[u]
               /\ decision'[u] = decision[u] /\ source'[u] = source[u]
               /\ text'[u] = text[u] /\ events'[u] = events[u]
    <3>1. v # u
      BY <2>3 DEF StartTurn
    <3>2. events'[u] = events[u]
      BY <2>2, <2>3, <3>1, EmittedMethods DEF StartTurn, AutoApproved
    <3>3. QED
      BY <2>1, <2>3, <3>1, <3>2 DEF StartTurn, NotBusy, TypeOK
  <2>4. ASSUME NEW v \in Turn, InterruptTurn(v)
        PROVE  /\ status'[u] = status[u]
               /\ decision'[u] = decision[u] /\ source'[u] = source[u]
               /\ text'[u] = text[u] /\ events'[u] = events[u]
    <3>1. v # u
      BY <2>4 DEF InterruptTurn, Interruptible, IsTerminal, Terminal
    <3>2. events'[u] = events[u]
      BY <2>2, <2>4, <3>1, EmittedMethods DEF InterruptTurn
    <3>3. QED
      BY <2>1, <2>4, <3>1, <3>2 DEF InterruptTurn, FinishTurn, TypeOK, approvalVars
  <2>5. ASSUME NEW v \in Turn, SteerTurn(v)
        PROVE  /\ status'[u] = status[u]
               /\ decision'[u] = decision[u] /\ source'[u] = source[u]
               /\ text'[u] = text[u] /\ events'[u] = events[u]
    <3>1. v # u
      BY <2>5 DEF SteerTurn, IsTerminal, Terminal
    <3>2. events'[u] = events[u]
      BY <2>2, <2>5, <3>1, EmittedMethods DEF SteerTurn
    <3>3. QED
      BY <2>5, <3>2 DEF SteerTurn, approvalVars
  <2>6. ASSUME NEW v \in Turn, DenyApproval(v) \/ ApproveApproval(v)
        PROVE  /\ status'[u] = status[u]
               /\ decision'[u] = decision[u] /\ source'[u] = source[u]
               /\ text'[u] = text[u] /\ events'[u] = events[u]
    <3>1. v # u
      BY <2>1, <2>6 DEF DenyApproval, ApproveApproval, Decide
    <3>2. events'[u] = events[u]
      BY <2>2, <2>6, <3>1, EmittedMethods DEF DenyApproval, ApproveApproval
    <3>3. QED
      BY <2>1, <2>6, <3>1, <3>2
      DEF DenyApproval, ApproveApproval, Decide, FinishTurn, TypeOK
  <2>7. ASSUME NEW v \in Turn, TickDelta(v) \/ TickFinish(v)
        PROVE  /\ status'[u] = status[u]
               /\ decision'[u] = decision[u] /\ source'[u] = source[u]
               /\ text'[u] = text[u] /\ events'[u] = events[u]
    <3>1. v # u
      BY <2>7 DEF TickDelta, TickFinish, Executing
    <3>2. events'[u] = events[u]
      BY <2>2, <2>7, <3>1, EmittedMethods DEF TickDelta, TickFinish
    <3>3. QED
      BY <2>1, <2>7, <3>1, <3>2 DEF TickDelta, TickFinish, FinishTurn, TypeOK, approvalVars
  <2>8. CASE Dispose
    BY <2>8 DEF Dispose, turnVars, approvalVars
  <2>9. QED
    BY <2>3, <2>4, <2>5, <2>6, <2>7, <2>8 DEF Next
<1>2. QED
  BY <1>1, Inductive, PTL DEF Spec, CompletedIsFinal

-----------------------------------------------------------------------------
\* One step of the store as the gate sees it.
LEMMA StepsThroughGate == IInv /\ [Next]_vars => [Gate!Next]_(Gate!gateVars)
<1> DEFINE phase == [u \in Turn |-> PhaseOf(status[u])]
           planOnly == {u \in Turn : status[u] # "absent" /\ mode[u] = "plan-only"}
<1> SUFFICES ASSUME IInv, [Next]_vars
             PROVE  [Gate!Next]_<<phase, planOnly, text>>
  BY DEF Gate!gateVars
<1> USE DEF IInv
<1>0. \A s \in TurnStatus : PhaseOf(s) = IF s = "absent" THEN "new"
                                         ELSE IF s = "waiting_approval" THEN "gated"
                                         ELSE IF s = "running" THEN "open" ELSE "closed"
  BY DEF PhaseOf, TurnStatus, Terminal
<1>1. ASSUME NEW req \in Thread \cup {Draft}, NEW t \in Thread, NEW u \in Turn,
             NEW m \in AccessMode, StartTurn(req, t, u, m)
      PROVE  Gate!Hold(u) \/ Gate!PassThrough(u)
  <2>1. /\ status[u] = "absent" /\ mode' = [mode EXCEPT ![u] = m] /\ text' = text
        /\ \/ AutoApproved(m) /\ status' = [status EXCEPT ![u] = "running"]
           \/ status' = [status EXCEPT ![u] = "waiting_approval"]
    BY <1>1 DEF StartTurn
  <2>2. phase[u] = "new" /\ u \notin planOnly
    BY <2>1, <1>0 DEF TypeOK
  <2>3. CASE AutoApproved(m) /\ status' = [status EXCEPT ![u] = "running"]
    <3>1. phase' = [phase EXCEPT ![u] = "open"]
      BY <2>3, <1>0 DEF TypeOK, TurnStatus, PhaseOf
    <3>2. planOnly' = planOnly
      BY <2>1, <2>3 DEF TypeOK, AutoApproved
    <3>3. QED
      BY <2>1, <2>2, <3>1, <3>2 DEF Gate!PassThrough
  <2>4. CASE status' = [status EXCEPT ![u] = "waiting_approval"]
    <3>1. phase' = [phase EXCEPT ![u] = "gated"]
      BY <2>4, <1>0 DEF TypeOK, TurnStatus, PhaseOf
    <3>2. planOnly' = planOnly \/ planOnly' = planOnly \cup {u}
      BY <2>1, <2>4 DEF TypeOK
    <3>3. QED
      BY <2>1, <2>2, <3>1, <3>2 DEF Gate!Hold
  <2>5. QED
    BY <2>1, <2>3, <2>4
\* A turn that ends, or one that had ended already.
<1>2. ASSUME NEW u \in Turn, NEW s \in Terminal, status[u] # "absent",
             status' = [status EXCEPT ![u] = s], UNCHANGED <<mode, text>>
      PROVE  Gate!Close(u) \/ UNCHANGED <<phase, planOnly, text>>
  <2>1. phase' = [phase EXCEPT ![u] = "closed"]
    BY <1>2, <1>0 DEF TypeOK, TurnStatus, PhaseOf, Terminal
  <2>2. planOnly' = planOnly
    BY <1>2 DEF TypeOK, Terminal
  <2>3. CASE phase[u] \in {"gated", "open"}
    BY <1>2, <2>1, <2>2, <2>3 DEF Gate!Close
  <2>4. CASE phase[u] \notin {"gated", "open"}
    <3>1. phase[u] = "closed"
      BY <1>2, <2>4, <1>0 DEF TypeOK, TurnStatus, Terminal
    <3>2. QED
      BY <1>2, <2>1, <2>2, <3>1
  <2>5. QED
    BY <2>3, <2>4
<1>3. ASSUME NEW u \in Turn, InterruptTurn(u) \/ DenyApproval(u) \/ TickFinish(u)
      PROVE  Gate!Close(u) \/ UNCHANGED <<phase, planOnly, text>>
  <2>1. status[u] # "absent"
    BY <1>3 DEF InterruptTurn, Interruptible, DenyApproval, Decide, TickFinish, Executing,
                RecordsAgree, RecordAgrees
  <2>2. /\ \E s \in Terminal : status' = [status EXCEPT ![u] = s]
        /\ UNCHANGED <<mode, text>>
    BY <1>3 DEF InterruptTurn, DenyApproval, TickFinish, FinishTurn, Terminal
  <2>3. QED
    BY <1>2, <2>1, <2>2
<1>4. ASSUME NEW u \in Turn, ApproveApproval(u)
      PROVE  Gate!Allow(u) \/ UNCHANGED <<phase, planOnly, text>>
  <2>1. UNCHANGED <<mode, text>>
    BY <1>4 DEF ApproveApproval
  <2>2. CASE status[u] = "waiting_approval"
    <3>1. status' = [status EXCEPT ![u] = "running"]
      BY <1>4, <2>2 DEF ApproveApproval
    <3>2. phase[u] = "gated" /\ phase' = [phase EXCEPT ![u] = "open"]
      BY <2>2, <3>1, <1>0 DEF TypeOK, TurnStatus, PhaseOf
    <3>3. planOnly' = planOnly
      BY <2>1, <2>2, <3>1 DEF TypeOK
    <3>4. QED
      BY <2>1, <3>2, <3>3 DEF Gate!Allow
  <2>3. CASE status[u] # "waiting_approval"
    BY <1>4, <2>1, <2>3 DEF ApproveApproval
  <2>4. QED
    BY <2>2, <2>3
<1>5. ASSUME NEW u \in Turn, TickDelta(u) PROVE Gate!Produce(u)
  <2>1. /\ status[u] = "running" /\ execution[u] # None /\ execution[u] < Chunks
        /\ text' = [text EXCEPT ![u] = text[u] + 1]
        /\ UNCHANGED <<status, mode>>
    BY <1>5 DEF TickDelta, Executing, HasChunk
  <2>2. phase[u] = "open" /\ text[u] < Chunks
    BY <2>1, <1>0 DEF TypeOK, TurnStatus, RecordsAgree, RecordAgrees
  <2>3. phase' = phase /\ planOnly' = planOnly
    BY <2>1
  <2>4. QED
    BY <2>1, <2>2, <2>3 DEF Gate!Produce
<1>6. ASSUME (\E u \in Turn : SteerTurn(u)) \/ Dispose \/ UNCHANGED vars
      PROVE  UNCHANGED <<phase, planOnly, text>>
  <2>1. UNCHANGED <<status, mode, text>>
    BY <1>6 DEF SteerTurn, Dispose, vars, turnVars
  <2>2. QED
    BY <2>1
<1>7. QED
  BY <1>1, <1>3, <1>4, <1>5, <1>6 DEF Next, Gate!Next

\* The store implements the approval gate: for the viewer of a turn's output it
\* makes no difference whether the gate or store.ts is behind the stream.
THEOREM StoreImplementsGate == Spec => ImplementsGate
<1>1. Init => Gate!Init
  BY DEF Init, Gate!Init, PhaseOf
<1>2. QED
  BY <1>1, StepsThroughGate, Inductive, PTL DEF Spec, ImplementsGate, Gate!Spec

-----------------------------------------------------------------------------
(* The transcripts.                                                        *)

Said(t, role, u) == {i \in DOMAIN messages[t] : messages[t][i] = [role |-> role, turn |-> u]}

\* TranscriptMatchesOutcome alone does not say that a turn that ends now has a prompt
\* to come after.
Transcripts ==
    \A t \in Thread, u \in Turn :
        /\ IF status[u] = "completed" /\ threadOf[u] = t
           THEN /\ text[u] = Chunks
                /\ \E a, p \in Nat : Said(t, "assistant", u) = {a} /\ p \in Said(t, "user", u) /\ p < a
           ELSE Said(t, "assistant", u) = {}
        /\ status[u] # "absent" /\ threadOf[u] = t => Said(t, "user", u) # {}

\* A message posted is the last of its transcript, and nothing else changes.
LEMMA PostSays ==
    ASSUME TypeOK, NEW t \in Thread, NEW u \in Turn,
           NEW role \in {"user", "steer", "assistant"}, Post(t, role, u),
           NEW s \in Thread, NEW r, NEW v
    PROVE  /\ Said(s, r, v) \subseteq 1..Len(messages[s])
           /\ Said(s, r, v)' = IF s = t /\ r = role /\ v = u
                               THEN Said(s, r, v) \cup {Len(messages[t]) + 1}
                               ELSE Said(s, r, v)
<1> DEFINE m == [role |-> role, turn |-> u]
<1>1. messages[s] \in Seq(Message) /\ m \in Message
  BY DEF TypeOK, Message
<1>2. Said(s, r, v) \subseteq 1..Len(messages[s])
  BY <1>1 DEF Said
<1>3. CASE s # t
  <2>1. messages'[s] = messages[s]
    BY <1>3 DEF Post, TypeOK
  <2>2. QED
    BY <1>2, <1>3, <2>1 DEF Said
<1>4. CASE s = t
  <2>1. messages'[t] = Append(messages[t], m)
    BY <1>4 DEF Post, TypeOK
  <2>2. /\ DOMAIN messages'[t] = DOMAIN messages[t] \cup {Len(messages[t]) + 1}
        /\ \A i \in DOMAIN messages[t] : messages'[t][i] = messages[t][i]
        /\ messages'[t][Len(messages[t]) + 1] = m
        /\ Len(messages[t]) + 1 \notin DOMAIN messages[t]
    BY <1>1, <1>4, <2>1
  <2>3. m = [role |-> r, turn |-> v] <=> r = role /\ v = u
    <3>1. m.role = role /\ m.turn = u
      OBVIOUS
    <3>2. ASSUME m = [role |-> r, turn |-> v] PROVE m.role = r /\ m.turn = v
      BY <3>2
    <3>3. QED
      BY <3>1, <3>2
  <2>4. QED
    BY <1>2, <1>4, <2>2, <2>3 DEF Said
<1>5. QED
  BY <1>3, <1>4

\* A step that posts nothing and ends no turn as completed.
LEMMA TranscriptsStill ==
    ASSUME Transcripts, messages' = messages,
           \A u \in Turn : /\ status'[u] = "completed" <=> status[u] = "completed"
                           /\ status'[u] # "absent" => status[u] # "absent"
                           /\ threadOf'[u] = threadOf[u]
                           /\ status[u] = "completed" => text'[u] = text[u]
    PROVE  Transcripts'
<1>1. \A s, r, v : Said(s, r, v)' = Said(s, r, v)
  BY DEF Said
<1>2. QED
  BY <1>1 DEF Transcripts

LEMMA TranscriptsStep == IInv /\ Transcripts /\ [Next]_vars => Transcripts'
<1> SUFFICES ASSUME IInv, Transcripts, [Next]_vars PROVE Transcripts'
  OBVIOUS
<1> USE DEF IInv
<1>1. ASSUME NEW req \in Thread \cup {Draft}, NEW t \in Thread, NEW u \in Turn,
             NEW m \in AccessMode, StartTurn(req, t, u, m)
      PROVE  Transcripts'
  <2>1. /\ status[u] = "absent" /\ Post(t, "user", u) /\ text' = text
        /\ threadOf' = [threadOf EXCEPT ![u] = t]
    BY <1>1 DEF StartTurn
  <2>2. /\ \A v \in Turn \ {u} : status'[v] = status[v]
        /\ status'[u] \in {"running", "waiting_approval"}
    BY <1>1 DEF StartTurn, TypeOK
  <2> SUFFICES ASSUME NEW s \in Thread, NEW v \in Turn
               PROVE  /\ IF status'[v] = "completed" /\ threadOf'[v] = s
                         THEN /\ text'[v] = Chunks
                              /\ \E a, p \in Nat : /\ Said(s, "assistant", v)' = {a}
                                                   /\ p \in Said(s, "user", v)' /\ p < a
                         ELSE Said(s, "assistant", v)' = {}
                      /\ status'[v] # "absent" /\ threadOf'[v] = s => Said(s, "user", v)' # {}
    BY DEF Transcripts
  <2>3. /\ Said(s, "assistant", v)' = Said(s, "assistant", v)
        /\ Said(s, "user", v) \subseteq Said(s, "user", v)'
        /\ s = t /\ v = u => Said(s, "user", v)' # {}
    BY <2>1, PostSays
  <2>4. CASE v = u
    <3>1. threadOf'[v] = t
      BY <2>1, <2>4 DEF TypeOK
    <3>2. QED
      BY <2>1, <2>2, <2>3, <2>4, <3>1 DEF Transcripts
  <2>5. CASE v # u
    <3>1. threadOf'[v] = threadOf[v] /\ status'[v] = status[v]
      BY <2>1, <2>2, <2>5 DEF TypeOK
    <3>2. QED
      BY <2>1, <2>3, <3>1 DEF Transcripts
  <2>6. QED
    BY <2>4, <2>5
<1>2. ASSUME NEW u \in Turn, InterruptTurn(u) \/ DenyApproval(u) PROVE Transcripts'
  <2>1. /\ FinishTurn(u, "interrupted") /\ UNCHANGED <<messages, threadOf, text>>
        /\ status[u] \notin {"absent", "completed"}
    BY <1>2 DEF InterruptTurn, Interruptible, IsTerminal, Terminal, DenyApproval, Decide,
                RecordsAgree, RecordAgrees
  <2>2. QED
    BY <2>1, TranscriptsStill DEF FinishTurn, TypeOK
<1>3. ASSUME NEW u \in Turn, SteerTurn(u) PROVE Transcripts'
  <2>1. Post(threadOf[u], "steer", u) /\ UNCHANGED <<status, threadOf, text>> /\ threadOf[u] \in Thread
    BY <1>3 DEF SteerTurn, RecordsAgree, RecordAgrees
  <2>2. \A s \in Thread, v \in Turn, r \in {"user", "assistant"} : Said(s, r, v)' = Said(s, r, v)
    BY <2>1, PostSays
  <2>3. QED
    BY <2>1, <2>2 DEF Transcripts
<1>4. ASSUME NEW u \in Turn, ApproveApproval(u) \/ TickDelta(u) PROVE Transcripts'
  <2>1. UNCHANGED <<messages, threadOf>>
    BY <1>4 DEF ApproveApproval, TickDelta, threadVars
  <2>2. \A v \in Turn : status'[v] = "completed" <=> status[v] = "completed"
    BY <1>4 DEF ApproveApproval, TickDelta, TypeOK
  <2>3. \A v \in Turn : /\ status[v] = "completed" => text'[v] = text[v]
                        /\ status'[v] # "absent" => status[v] # "absent"
    BY <1>4 DEF ApproveApproval, TickDelta, Executing, TypeOK
  <2>4. QED
    BY <2>1, <2>2, <2>3, TranscriptsStill
<1>5. ASSUME NEW u \in Turn, TickFinish(u) PROVE Transcripts'
  <2> DEFINE t == threadOf[u]
             last == Len(messages[t]) + 1
  <2>1. /\ status[u] = "running" /\ t \in Thread
        /\ Post(t, "assistant", u) /\ UNCHANGED <<threadOf, text>>
        /\ status' = [status EXCEPT ![u] = "completed"]
    BY <1>5 DEF TickFinish, Executing, FinishTurn, RecordsAgree, RecordAgrees
  <2>2. text[u] = Chunks
    <3>1. execution[u] # None /\ ~(execution[u] < Chunks) /\ execution[u] \in 0..None
      BY <1>5 DEF TickFinish, Executing, HasChunk, TypeOK
    <3>2. execution[u] = Chunks
      BY <3>1, BridgeStoreAssumption DEF None
    <3>3. QED
      BY <3>1, <3>2 DEF RecordsAgree, RecordAgrees
  <2> SUFFICES ASSUME NEW s \in Thread, NEW v \in Turn
               PROVE  /\ IF status'[v] = "completed" /\ threadOf'[v] = s
                         THEN /\ text'[v] = Chunks
                              /\ \E a, p \in Nat : /\ Said(s, "assistant", v)' = {a}
                                                   /\ p \in Said(s, "user", v)' /\ p < a
                         ELSE Said(s, "assistant", v)' = {}
                      /\ status'[v] # "absent" /\ threadOf'[v] = s => Said(s, "user", v)' # {}
    BY DEF Transcripts
  <2>3. /\ Said(s, "user", v)' = Said(s, "user", v)
        /\ ~(s = t /\ v = u) => Said(s, "assistant", v)' = Said(s, "assistant", v)
    BY <2>1, PostSays
  <2>4. CASE s = t /\ v = u
    <3>1. Said(t, "assistant", u) = {} /\ Said(t, "user", u) # {}
      BY <2>1 DEF Transcripts
    <3>2. Said(t, "assistant", u)' = {last} /\ Said(t, "user", u) \subseteq 1..Len(messages[t])
      BY <2>1, <3>1, PostSays
    <3>3. Len(messages[t]) \in Nat
      BY <2>1 DEF TypeOK
    <3>4. PICK p \in Said(t, "user", u) : p \in Nat /\ p < last /\ last \in Nat
      BY <3>1, <3>2, <3>3
    <3>5. status'[v] = "completed" /\ threadOf'[v] = s
      BY <2>1, <2>4 DEF TypeOK
    <3>6. QED
      BY <2>1, <2>2, <2>3, <2>4, <3>2, <3>4, <3>5
  <2>5. CASE ~(s = t /\ v = u)
    <3>1. CASE v = u
      <4>1. threadOf'[v] # s /\ Said(s, "assistant", v) = {}
        BY <2>1, <2>5, <3>1 DEF Transcripts
      <4>2. QED
        BY <2>3, <2>5, <4>1
    <3>2. CASE v # u
      <4>1. status'[v] = status[v]
        BY <2>1, <3>2 DEF TypeOK
      <4>2. QED
        BY <2>1, <2>3, <2>5, <4>1 DEF Transcripts
    <3>3. QED
      BY <3>1, <3>2
  <2>6. QED
    BY <2>4, <2>5
<1>6. CASE Dispose \/ UNCHANGED vars
  BY <1>6, TranscriptsStill DEF Dispose, vars, turnVars, threadVars
<1>7. QED
  BY <1>1, <1>2, <1>3, <1>4, <1>5, <1>6 DEF Next

\* The transcript of a thread tells how its turns ended (startTurn, tickExecution).
THEOREM TranscriptTells == Spec => []TranscriptMatchesOutcome
<1>1. Transcripts => TranscriptMatchesOutcome
  BY DEF Transcripts, TranscriptMatchesOutcome, Said
<1>2. Init => Transcripts
  <2> SUFFICES ASSUME Init PROVE Transcripts
    OBVIOUS
  <2>1. \A t \in Thread : messages[t] = <<>> /\ DOMAIN messages[t] = {}
    <3>1. DOMAIN <<>> = {}
      OBVIOUS
    <3>2. QED
      BY <3>1 DEF Init
  <2>2. \A t, r, u : t \in Thread => Said(t, r, u) = {}
    BY <2>1 DEF Said
  <2>3. \A u \in Turn : status[u] = "absent"
    BY DEF Init
  <2>4. QED
    BY <2>2, <2>3 DEF Transcripts
<1>3. QED
  BY <1>1, <1>2, TranscriptsStep, Inductive, PTL DEF Spec

=============================================================================
