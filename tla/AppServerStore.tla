--------------------------- MODULE AppServerStore ---------------------------
(***************************************************************************)
(* The app-server turn backend of the bridge extension, class              *)
(* AppServerStore of packages/bridge-vscode/src/appServerStore.ts: its     *)
(* three maps (turnRecords, activeTurnByThread, pendingApprovals), the     *)
(* calls of the HTTP clients, and the codex app-server they are relayed to.*)
(*                                                                         *)
(* The app-server is external, modelled as the store uses it: one ordered  *)
(* channel each way. A frame is handled synchronously                      *)
(* (appServerClient.handleMessage); a response only resolves a promise, so *)
(* what the caller does after its await is a step of its own, before which *)
(* the other frames of the same socket read may be handled. These          *)
(* continuations (ready) all run before the next HTTP request is looked at.*)
(*                                                                         *)
(* The requests with which startTurn finds, resumes or makes the thread    *)
(* change no map of the store; they are the subject of TurnStart. A call   *)
(* that the app-server refuses, or the store rejects, changes nothing.     *)
(* Left out: texts, plans, diffs and steers (data only), and the tool and  *)
(* user-input requests, which are answered at once with a constant.        *)
(***************************************************************************)
EXTENDS Naturals, Sequences, FiniteSets

CONSTANTS
    Thread, Turn, Approval,  \* the ids the app-server may give out
    NoTurn,                  \* no turn: a thread without a pointer, an unused field
    MaxCalls,                \* bound: calls of HTTP clients that are explored
    FullAccessAutoApprove    \* runtimeConfig.fullAccessAutoApprove

ASSUME AppServerStoreAssumption ==
    /\ NoTurn \notin Turn
    /\ MaxCalls \in Nat
    /\ FullAccessAutoApprove \in BOOLEAN

VARIABLES
    \* turnRecords: status and accessMode of each turn's record, and the status
    \* and decisionSource of each approval in it
    status, mode, approval, source,
    activeTurnByThread, pendingApprovals,
    \* responses whose continuation has not run, and the number of calls made
    ready, calls,
    \* the app-server: its turns, the mode each was asked for, whose an approval
    \* is and what answer it got
    srv, threadOf, requested, approvalOf, verdict,
    \* the two directions of the socket
    toServer, toBridge

storeVars  == <<status, mode, approval, source, activeTurnByThread, pendingApprovals>>
serverVars == <<srv, threadOf, requested, approvalOf, verdict>>

vars == <<status, mode, approval, source, activeTurnByThread, pendingApprovals,
          ready, calls, srv, threadOf, requested, approvalOf, verdict, toServer, toBridge>>

Outcome    == {"completed", "interrupted"}   \* "failed" is handled as "completed" is
Active     == {"running", "waiting_approval"}
AccessMode == {"full-access", "plan-only"}
Answer     == {"accept", "decline", "acceptForSession"}

\* A raw snapshot of a thread: a status for each of its turns, "absent" for others.
RawTurns == [Turn -> {"absent", "running"} \cup Outcome]

Call == [op : {"start"}, id : 1..MaxCalls, thread : Thread, mode : AccessMode]
            \cup [op : {"interrupt"}, id : 1..MaxCalls, turn : Turn]
            \cup [op : {"read"}, id : 1..MaxCalls, thread : Thread]
            \cup [op : {"list"}, id : 1..MaxCalls]

Response == [call : Call, turn : Turn \cup {NoTurn}, raw : RawTurns,
             hint : [Thread -> Turn \cup {NoTurn}]]

Frame == [type : {"response"}, response : Response]
            \cup [type : {"turn/started"}, turn : Turn]
            \cup [type : {"turn/completed"}, turn : Turn, status : Outcome]
            \cup [type : {"requestApproval"}, approval : Approval]

TypeOK ==
    /\ status \in [Turn -> {"absent"} \cup Active \cup Outcome]
    /\ mode \in [Turn -> {"none"} \cup AccessMode]
    /\ \A u \in Turn : mode[u] = "none" <=> status[u] = "absent"
    /\ approval \in [Approval -> {"none", "pending", "approved", "denied"}]
    /\ source \in [Approval -> {"none", "user", "session-auto"}]
    /\ activeTurnByThread \in [Thread -> Turn \cup {NoTurn}]
    /\ pendingApprovals \in SUBSET Approval
    /\ ready \in SUBSET Response
    /\ calls \in 0..MaxCalls
    /\ srv \in [Turn -> {"absent", "running"} \cup Outcome]
    /\ threadOf \in [Turn -> Thread]
    /\ requested \in [Turn -> {"elsewhere"} \cup AccessMode]
    /\ approvalOf \in [Approval -> Turn \cup {NoTurn}]
    /\ verdict \in [Approval -> {"none"} \cup Answer]
    /\ toServer \in Seq(Call \cup [op : {"answer"}, approval : Approval, decision : Answer])
    /\ toBridge \in Seq(Frame)

\* The extension connects to an app-server that may have turns already, at
\* most one of a thread still running.
Init ==
    /\ status = [u \in Turn |-> "absent"]
    /\ mode = [u \in Turn |-> "none"]
    /\ approval = [a \in Approval |-> "none"]
    /\ source = [a \in Approval |-> "none"]
    /\ activeTurnByThread = [t \in Thread |-> NoTurn]
    /\ pendingApprovals = {}
    /\ ready = {}
    /\ calls = 0
    /\ threadOf \in [Turn -> Thread]
    /\ srv \in [Turn -> {"absent", "running", "completed"}]
    /\ \A u, v \in Turn : srv[u] = "running" /\ srv[v] = "running"
                              /\ threadOf[u] = threadOf[v] => u = v
    /\ requested = [u \in Turn |-> "elsewhere"]
    /\ approvalOf = [a \in Approval |-> NoTurn]
    /\ verdict = [a \in Approval |-> "none"]
    /\ toServer = <<>>
    /\ toBridge = <<>>

-----------------------------------------------------------------------------
\* Calls of the HTTP clients

Known(u) == status[u] # "absent"

Request(call) ==
    /\ ready = {}
    /\ calls < MaxCalls
    /\ calls' = calls + 1
    /\ toServer' = Append(toServer, call)
    /\ UNCHANGED <<storeVars, ready, serverVars, toBridge>>

StartTurn(t, m) == Request([op |-> "start", id |-> calls + 1, thread |-> t, mode |-> m])

InterruptTurn(u) ==
    /\ Known(u)
    /\ Request([op |-> "interrupt", id |-> calls + 1, turn |-> u])

GetThread(t) == Request([op |-> "read", id |-> calls + 1, thread |-> t])

ListThreads == Request([op |-> "list", id |-> calls + 1])

SendAnswer(a, d) ==
    toServer' = Append(toServer, [op |-> "answer", approval |-> a, decision |-> d])

DecidableWhileRecorded(a) == approval[a] # "none"
DecidableWhileWaiting(a) ==
    a \in pendingApprovals /\ approval[a] = "pending" /\ status[approvalOf[a]] = "waiting_approval"
Decidable(a) == a \in pendingApprovals /\ approval[a] = "pending"

\* Synchronous, up to the response it sends; nothing asks whether the turn is over.
DecideApproval(a, decision) ==
    LET u == approvalOf[a] IN
    /\ ready = {}
    /\ Decidable(a)
    /\ SendAnswer(a, IF decision = "approved" THEN "accept" ELSE "decline")
    /\ pendingApprovals' = pendingApprovals \ {a}
    /\ approval' = [approval EXCEPT ![a] = decision]
    /\ source' = [source EXCEPT ![a] = "user"]
    /\ status' = IF decision = "approved" /\ status[u] = "waiting_approval"
                 THEN [status EXCEPT ![u] = "running"] ELSE status
    /\ UNCHANGED <<mode, activeTurnByThread, ready, calls, serverVars, toBridge>>

-----------------------------------------------------------------------------
\* Frames from the app-server

EnsuredForgetsMode(u) == mode
\* ensureTurnRecord: a turn first heard of here is taken to be full-access.
Ensured(u) == IF Known(u) THEN mode ELSE [mode EXCEPT ![u] = "full-access"]

Handle(type) == toBridge # <<>> /\ Head(toBridge).type = type /\ toBridge' = Tail(toBridge)

ReceiveResponse ==
    /\ Handle("response")
    /\ ready' = ready \cup {Head(toBridge).response}
    /\ UNCHANGED <<storeVars, calls, serverVars, toServer>>

TurnStarted ==
    LET u == Head(toBridge).turn IN
    /\ Handle("turn/started")
    /\ mode' = Ensured(u)
    /\ status' = [status EXCEPT ![u] = "running"]
    /\ activeTurnByThread' = [activeTurnByThread EXCEPT ![threadOf[u]] = u]
    /\ UNCHANGED <<approval, source, pendingApprovals, ready, calls, serverVars, toServer>>

\* The thread's pointer is dropped, whichever turn it names.
TurnCompleted ==
    LET u == Head(toBridge).turn IN
    /\ Handle("turn/completed")
    /\ mode' = Ensured(u)
    /\ status' = [status EXCEPT ![u] = Head(toBridge).status]
    /\ activeTurnByThread' = [activeTurnByThread EXCEPT ![threadOf[u]] = NoTurn]
    /\ UNCHANGED <<approval, source, pendingApprovals, ready, calls, serverVars, toServer>>

\* onAppServerRequest: answered for the user, or kept for them.
ApprovalRequested ==
    LET a == Head(toBridge).approval
        u == approvalOf[a]
        autoApprove == Ensured(u)[u] = "full-access" /\ FullAccessAutoApprove
    IN  /\ Handle("requestApproval")
        /\ mode' = Ensured(u)
        /\ IF autoApprove
           THEN /\ SendAnswer(a, "acceptForSession")
                /\ approval' = [approval EXCEPT ![a] = "approved"]
                /\ source' = [source EXCEPT ![a] = "session-auto"]
                /\ status' = IF Known(u) THEN status ELSE [status EXCEPT ![u] = "running"]
                /\ UNCHANGED pendingApprovals
           ELSE /\ pendingApprovals' = pendingApprovals \cup {a}
                /\ approval' = [approval EXCEPT ![a] = "pending"]
                /\ status' = [status EXCEPT ![u] = "waiting_approval"]
                /\ UNCHANGED <<source, toServer>>
        /\ UNCHANGED <<activeTurnByThread, ready, calls, serverVars>>

-----------------------------------------------------------------------------
\* What the callers do when their await is over

Resume(r, op) == r \in ready /\ r.call.op = op /\ ready' = ready \ {r}

RecordStartedAlways(r) ==
    /\ status' = [status EXCEPT ![r.turn] = "running"]
    /\ mode' = [mode EXCEPT ![r.turn] = r.call.mode]
\* The caller's access mode is kept only if no frame made the record before.
RecordStarted(r) ==
    IF Known(r.turn) THEN UNCHANGED <<status, mode>>
    ELSE /\ status' = [status EXCEPT ![r.turn] = "running"]
         /\ mode' = [mode EXCEPT ![r.turn] = r.call.mode]

StartReturns(r) ==
    /\ Resume(r, "start")
    /\ RecordStarted(r)
    /\ activeTurnByThread' = [activeTurnByThread EXCEPT ![r.call.thread] = r.turn]
    /\ UNCHANGED <<approval, source, pendingApprovals, calls, serverVars, toServer, toBridge>>

\* Neither the status the turn has by now nor the turn the pointer names is looked at.
InterruptReturns(r) ==
    LET u == r.call.turn IN
    /\ Resume(r, "interrupt")
    /\ status' = [status EXCEPT ![u] = "interrupted"]
    /\ activeTurnByThread' = [activeTurnByThread EXCEPT ![threadOf[u]] = NoTurn]
    /\ UNCHANGED <<mode, approval, source, pendingApprovals, calls, serverVars, toServer, toBridge>>

Corroborated(u, raw) == u # NoTurn /\ (raw[u] = "running" \/ status[u] \in Active)

\* mapThreadSummary: the pointer of t after a snapshot, its own if the snapshot
\* or the record confirms it, else the snapshot's hint, else the turn that runs in it.
ReconciledTrustingHint(t, raw, hint) ==
    IF Corroborated(activeTurnByThread[t], raw) THEN activeTurnByThread[t] ELSE hint
ReconciledFromSnapshot(t, raw, hint) ==
    IF Corroborated(hint, raw) THEN hint ELSE NoTurn
Reconciled(t, raw, hint) ==
    LET running == {u \in Turn : raw[u] = "running"} IN
    IF Corroborated(activeTurnByThread[t], raw) THEN activeTurnByThread[t]
    ELSE IF Corroborated(hint, raw) THEN hint
    ELSE IF running # {} THEN CHOOSE u \in running : TRUE
    ELSE NoTurn

\* getThread; a turn of the snapshot that is new to the store gets a record.
ReadReturns(r) ==
    LET t   == r.call.thread
        new == {u \in Turn : r.raw[u] # "absent" /\ ~Known(u)}
    IN  /\ Resume(r, "read")
        /\ activeTurnByThread' =
              [activeTurnByThread EXCEPT ![t] = Reconciled(t, r.raw, r.hint[t])]
        /\ status' = [u \in Turn |-> IF u \in new THEN r.raw[u] ELSE status[u]]
        /\ mode' = [u \in Turn |-> IF u \in new THEN "full-access" ELSE mode[u]]
        /\ UNCHANGED <<approval, source, pendingApprovals, calls, serverVars, toServer, toBridge>>

\* listThreads; its summaries come without turns.
ListReturns(r) ==
    /\ Resume(r, "list")
    /\ activeTurnByThread' =
          [t \in Thread |-> Reconciled(t, [u \in Turn |-> "absent"], r.hint[t])]
    /\ UNCHANGED <<status, mode, approval, source, pendingApprovals, calls, serverVars,
                   toServer, toBridge>>

-----------------------------------------------------------------------------
\* The app-server (external)

RunningIn(t) == {u \in Turn : srv[u] = "running" /\ threadOf[u] = t}

Snapshot(t) == [u \in Turn |-> IF threadOf[u] = t THEN srv[u] ELSE "absent"]

NoRaw  == [u \in Turn |-> "absent"]
NoHint == [t \in Thread |-> NoTurn]

\* The hint of a snapshot may lag: any turn of the thread, or none.
Hints == {h \in [Thread -> Turn \cup {NoTurn}] :
             \A t \in Thread : h[t] = NoTurn \/ (threadOf[h[t]] = t /\ srv[h[t]] # "absent")}

Reply(call, u, raw, hint) ==
    [type |-> "response", response |-> [call |-> call, turn |-> u, raw |-> raw, hint |-> hint]]

Begin(u, t, m) ==
    /\ srv[u] = "absent"
    /\ RunningIn(t) = {}
    /\ srv' = [srv EXCEPT ![u] = "running"]
    /\ threadOf' = [threadOf EXCEPT ![u] = t]
    /\ requested' = [requested EXCEPT ![u] = m]
    /\ UNCHANGED <<storeVars, ready, calls, approvalOf, verdict>>

Take(op) == toServer # <<>> /\ Head(toServer).op = op /\ toServer' = Tail(toServer)

ServerStarts(u) ==
    LET call == Head(toServer) IN
    /\ Take("start")
    /\ Begin(u, call.thread, call.mode)
    /\ toBridge' = toBridge \o <<Reply(call, u, NoRaw, NoHint),
                                 [type |-> "turn/started", turn |-> u]>>

\* Another client of the app-server starts a turn.
ServerStartsElsewhere(u, t) ==
    /\ Begin(u, t, "elsewhere")
    /\ toBridge' = Append(toBridge, [type |-> "turn/started", turn |-> u])
    /\ UNCHANGED toServer

\* Accepted also for a turn that is over: the request may be a retry.
ServerInterrupts ==
    /\ Take("interrupt")
    /\ toBridge' = Append(toBridge, Reply(Head(toServer), NoTurn, NoRaw, NoHint))
    /\ UNCHANGED <<storeVars, ready, calls, serverVars>>

ServerReads ==
    /\ \/ Take("read") /\ \E hint \in Hints :
            toBridge' = Append(toBridge, Reply(Head(toServer), NoTurn,
                                               Snapshot(Head(toServer).thread), hint))
       \/ Take("list") /\ \E hint \in Hints :
            toBridge' = Append(toBridge, Reply(Head(toServer), NoTurn, NoRaw, hint))
    /\ UNCHANGED <<storeVars, ready, calls, serverVars>>

\* Busy, not found, or any other error: the caller's await throws.
ServerRefuses ==
    /\ toServer # <<>>
    /\ Head(toServer).op # "answer"
    /\ toServer' = Tail(toServer)
    /\ UNCHANGED <<storeVars, ready, calls, serverVars, toBridge>>

ServerTakesAnswer ==
    /\ Take("answer")
    /\ verdict' = [verdict EXCEPT ![Head(toServer).approval] = Head(toServer).decision]
    /\ UNCHANGED <<storeVars, ready, calls, srv, threadOf, requested, approvalOf, toBridge>>

ServerAsks(a, u) ==
    /\ approvalOf[a] = NoTurn
    /\ srv[u] = "running"
    /\ approvalOf' = [approvalOf EXCEPT ![a] = u]
    /\ toBridge' = Append(toBridge, [type |-> "requestApproval", approval |-> a])
    /\ UNCHANGED <<storeVars, ready, calls, srv, threadOf, requested, verdict, toServer>>

ServerEnds(u, outcome) ==
    /\ srv[u] = "running"
    /\ outcome = "completed" =>
          \A a \in Approval : approvalOf[a] = u => verdict[a] # "none"
    /\ srv' = [srv EXCEPT ![u] = outcome]
    /\ toBridge' = Append(toBridge, [type |-> "turn/completed", turn |-> u, status |-> outcome])
    /\ UNCHANGED <<storeVars, ready, calls, threadOf, requested, approvalOf, verdict, toServer>>

-----------------------------------------------------------------------------
Frames == ReceiveResponse \/ TurnStarted \/ TurnCompleted \/ ApprovalRequested

Continuations ==
    \E r \in ready : StartReturns(r) \/ InterruptReturns(r) \/ ReadReturns(r) \/ ListReturns(r)

ServerHandles ==
    \/ \E u \in Turn : ServerStarts(u)
    \/ ServerInterrupts \/ ServerReads \/ ServerRefuses \/ ServerTakesAnswer

Next ==
    \/ \E t \in Thread, m \in AccessMode : StartTurn(t, m)
    \/ \E u \in Turn : InterruptTurn(u)
    \/ \E t \in Thread : GetThread(t)
    \/ ListThreads
    \/ \E a \in Approval, d \in {"approved", "denied"} : DecideApproval(a, d)
    \/ Frames
    \/ Continuations
    \/ ServerHandles
    \/ \E u \in Turn, t \in Thread : ServerStartsElsewhere(u, t)
    \/ \E a \in Approval, u \in Turn : ServerAsks(a, u)
    \/ \E u \in Turn, outcome \in Outcome : ServerEnds(u, outcome)

Spec == Init /\ [][Next]_vars

-----------------------------------------------------------------------------
(***************************************************************************)
(* Properties                                                              *)
(***************************************************************************)

AnswersInFlight(a) ==
    {i \in DOMAIN toServer : toServer[i].op = "answer" /\ toServer[i].approval = a}

\* The answer that a decided approval calls for.
Owed(a) ==
    IF approval[a] = "denied" THEN "decline"
    ELSE IF source[a] = "user" THEN "accept" ELSE "acceptForSession"

\* An approval is answered at most once, however often a client retries and
\* whoever answers first (decideApproval, onAppServerRequest), and the answer
\* on its way or at the app-server is the one its record shows.
AnswerMatchesRecord ==
    \A a \in Approval :
        LET given == (IF verdict[a] = "none" THEN {} ELSE {verdict[a]})
                        \cup {toServer[i].decision : i \in AnswersInFlight(a)}
        IN  /\ Cardinality(AnswersInFlight(a)) + (IF verdict[a] = "none" THEN 0 ELSE 1)
                  = IF approval[a] \in {"approved", "denied"} THEN 1 ELSE 0
            /\ \A d \in given : d = Owed(a)

\* No approval is lost: while the app-server waits for the answer to a request
\* the store has seen, either the answer is on its way or a client can still
\* give it (upsertApproval, pendingApprovals).
ApprovalStaysDecidable ==
    \A a \in Approval :
        /\ approvalOf[a] # NoTurn
        /\ verdict[a] = "none"
        /\ \A i \in DOMAIN toBridge : toBridge[i].type = "requestApproval" => toBridge[i].approval # a
        => AnswersInFlight(a) # {} \/ Decidable(a)

\* Once every frame is handled, no record shows a turn as active that the
\* app-server has ended, and the outcome shown is the app-server's or, after
\* an interrupt, "interrupted" (updateTurnRecordFromNotification, startTurn,
\* getThread, decideApproval).
RecordsCatchUp ==
    toBridge = <<>> => \A u \in Turn :
        Known(u) /\ srv[u] \in Outcome => status[u] \in {srv[u], "interrupted"}

\* A caller of startTurn or interruptTurn that frames have overtaken: the turn it
\* resumes for is over, and it is a turn of thread t.
Overtaken(r, t) ==
    \E v \in Turn :
        /\ srv[v] \in Outcome
        /\ \/ StartReturns(r) /\ v = r.turn /\ t = r.call.thread
           \/ InterruptReturns(r) /\ v = r.call.turn /\ t = threadOf[v]

\* The pointer to a turn whose record stays active is never taken away by a frame
\* or a snapshot (a late turn/completed, a stale listing), nor by a caller
\* whose turn the app-server still runs: only by a caller of the same thread that
\* resumes when its own turn is over already (startTurn, interruptTurn).
PointerKept ==
    [][\A t \in Thread :
        LET u == activeTurnByThread[t] IN
        u # NoTurn /\ status[u] \in Active /\ status'[u] \in Active
            => \/ activeTurnByThread'[t] = u
               \/ \E r \in ready : Overtaken(r, t)]_vars

\* Refuted by TLC (README, section 4): an interrupt of one turn leaves the pointer to
\* another turn that is active alone, also when it is the retry of an earlier
\* interrupt (interruptTurn).
InterruptIsSafeToRetry ==
    [][\A r \in ready :
        LET u == activeTurnByThread[threadOf[r.call.turn]] IN
        InterruptReturns(r) /\ u \notin {NoTurn, r.call.turn} /\ status[u] \in Active
            => activeTurnByThread'[threadOf[u]] = u]_vars

\* A read repairs the pointer: a fresh snapshot applied once every frame is
\* handled leaves the thread pointing at the turn the app-server runs in it, and
\* at none if there is none, whatever hint the snapshot carried and whatever
\* other callers have still to resume.
ReadRepairsPointer ==
    [][\A r \in ready :
        LET t == r.call.thread IN
        ReadReturns(r) /\ r.raw = Snapshot(t) /\ toBridge = <<>>
            => IF RunningIn(t) = {} THEN activeTurnByThread'[t] = NoTurn
                                    ELSE activeTurnByThread'[t] \in RunningIn(t)]_vars

\* Under plan-only every action is approved by the user: the app-server never
\* gets the bridge's own consent for a turn a client started as plan-only.
PlanOnlyAsksUser ==
    \A a \in Approval :
        verdict[a] = "acceptForSession" => requested[approvalOf[a]] # "plan-only"

=============================================================================
