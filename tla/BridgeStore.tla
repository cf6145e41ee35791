----------------------------- MODULE BridgeStore -----------------------------
(***************************************************************************)
(* The simulated turn backend of the bridge extension, class BridgeStore   *)
(* of packages/bridge-vscode/src/store.ts. All its operations run to       *)
(* completion on the one JavaScript thread, so each is one action; what    *)
(* interleaves is the calls of the HTTP clients (start, interrupt, steer,  *)
(* decide) with the ticks of the timer each executing turn owns.           *)
(*                                                                         *)
(* A call the code rejects (BUSY, NOT_FOUND, INVALID_STATE, INVALID_INPUT) *)
(* throws before it changes anything: it is a disabled action here.        *)
(*                                                                         *)
(* A turn owns exactly one approval, made by startTurn, so an approval is  *)
(* named by its turn. Texts, diffs, titles and clocks are left out; a      *)
(* response is the number of its chunks that have been appended, and the   *)
(* envelopes of a turn are kept, in order of their seq, in events.         *)
(***************************************************************************)
EXTENDS Naturals, Sequences

CONSTANTS
    Thread,                \* thread ids, those in use and those newId may return
    Turn,                  \* turn ids newId may return
    NoTurn,                \* the null of activeTurnId and of a missing lock
    NoThread,              \* the thread of a turn id that is not in use
    Draft,                 \* a client's "__draft_new_thread__..." id
    Chunks,                \* the number of chunks of a simulated response
    MaxSteers,             \* bound: steers that are explored, over all turns
    FullAccessAutoApprove  \* runtimeConfig.fullAccessAutoApprove

ASSUME BridgeStoreAssumption ==
    /\ NoTurn \notin Turn
    /\ NoThread \notin Thread
    /\ Draft \notin Thread
    /\ Chunks \in Nat \ {0}
    /\ MaxSteers \in Nat
    /\ FullAccessAutoApprove \in BOOLEAN

VARIABLES
    \* fields of the turn records, one function per field
    status, threadOf, mode, text,
    \* the turn's approval record: its status and its decisionSource
    decision, source,
    \* fields of the thread states
    summaryStatus, activeTurnId, messages,
    \* the store's maps, and whether dispose() has run
    threadLocks, approvals, execution, disposed,
    \* how many steers there have been (explored up to MaxSteers)
    steers,
    \* the envelopes emitted for each turn, oldest first
    events

turnVars     == <<status, threadOf, mode, steers, text>>
approvalVars == <<decision, source, approvals>>
threadVars   == <<summaryStatus, activeTurnId, messages, threadLocks>>

vars == <<status, threadOf, mode, steers, text, decision, source, summaryStatus,
          activeTurnId, messages, threadLocks, approvals, execution, disposed, events>>

Terminal   == {"completed", "interrupted"}   \* "failed" is never set by this store
TurnStatus == {"absent", "running", "waiting_approval"} \cup Terminal
AccessMode == {"full-access", "plan-only"}
Message    == [role : {"user", "steer", "assistant"}, turn : Turn]

Method == {"turn/started", "turn/plan/updated", "requestApproval", "item/started",
           "item/agentMessage/delta", "item/completed", "turn/diff/updated",
           "turn/completed"}

\* execution[u] = None: no entry of u in the execution map; else nextChunkIndex.
None == Chunks + 1

TypeOK ==
    /\ status \in [Turn -> TurnStatus]
    /\ threadOf \in [Turn -> Thread \cup {NoThread}]
    /\ mode \in [Turn -> AccessMode]
    /\ steers \in 0..MaxSteers
    /\ text \in [Turn -> 0..Chunks]
    /\ decision \in [Turn -> {"none", "pending", "approved", "denied"}]
    /\ source \in [Turn -> {"none", "user", "session-auto"}]
    /\ summaryStatus \in [Thread -> {"absent", "running", "waiting_approval"} \cup Terminal]
    /\ activeTurnId \in [Thread -> Turn \cup {NoTurn}]
    /\ messages \in [Thread -> Seq(Message)]
    /\ threadLocks \in [Thread -> Turn \cup {NoTurn}]
    /\ approvals \in SUBSET Turn
    /\ execution \in [Turn -> 0..None]
    /\ disposed \in BOOLEAN
    /\ events \in [Turn -> Seq(Method)]

Init ==
    /\ status = [u \in Turn |-> "absent"]
    /\ threadOf = [u \in Turn |-> NoThread]
    /\ mode = [u \in Turn |-> "full-access"]
    /\ steers = 0
    /\ text = [u \in Turn |-> 0]
    /\ decision = [u \in Turn |-> "none"]
    /\ source = [u \in Turn |-> "none"]
    /\ summaryStatus = [t \in Thread |-> "absent"]
    /\ activeTurnId = [t \in Thread |-> NoTurn]
    /\ messages = [t \in Thread |-> <<>>]
    /\ threadLocks = [t \in Thread |-> NoTurn]
    /\ approvals = {}
    /\ execution = [u \in Turn |-> None]
    /\ disposed = FALSE
    /\ events = [u \in Turn |-> <<>>]

-----------------------------------------------------------------------------
\* Helpers of the handlers

IsTerminal(u) == status[u] \in Terminal

Emit(u, methods) == events' = [events EXCEPT ![u] = @ \o methods]

Post(t, role, u) ==
    messages' = [messages EXCEPT ![t] = Append(@, [role |-> role, turn |-> u])]

\* A draft id is replaced by a fresh thread id; any other id names its thread,
\* which is created when it is not in use.
Resolved(req) ==
    IF req = Draft THEN {t \in Thread : summaryStatus[t] = "absent"} ELSE {req}

NotBusyWhileWaiting(t) == activeTurnId[t] = NoTurn \/ summaryStatus[t] = "waiting_approval"
NotBusy(t) == activeTurnId[t] = NoTurn

AutoApprovedAnyMode(m) == FullAccessAutoApprove
AutoApproved(m) == FullAccessAutoApprove /\ m = "full-access"

\* The envelopes of startTurn, with those of startExecution when it goes ahead.
OpeningEvents(auto) ==
    IF auto THEN <<"turn/started", "turn/plan/updated", "requestApproval", "item/started">>
            ELSE <<"turn/started", "turn/plan/updated", "requestApproval">>

StopExecution(u) == execution' = [execution EXCEPT ![u] = None]

StartExecutionForgotten(u) == UNCHANGED execution
StartExecution(u) ==
    IF execution[u] = None THEN execution' = [execution EXCEPT ![u] = 0]
                           ELSE UNCHANGED execution

FinishTurnKeepsLock(u, s) ==
    /\ status' = [status EXCEPT ![u] = s]
    /\ summaryStatus' = [summaryStatus EXCEPT ![threadOf[u]] = s]
    /\ activeTurnId' = [activeTurnId EXCEPT ![threadOf[u]] = NoTurn]
    /\ UNCHANGED threadLocks

\* The caller emits turn/completed, the last statement of finishTurn.
FinishTurn(u, s) ==
    /\ status' = [status EXCEPT ![u] = s]
    /\ summaryStatus' = [summaryStatus EXCEPT ![threadOf[u]] = s]
    /\ activeTurnId' = [activeTurnId EXCEPT ![threadOf[u]] = NoTurn]
    /\ threadLocks' = [threadLocks EXCEPT ![threadOf[u]] = NoTurn]

-----------------------------------------------------------------------------
\* Calls of the HTTP clients

StartTurn(req, t, u, m) ==
    /\ ~disposed
    /\ t \in Resolved(req)
    /\ NotBusy(t)
    /\ status[u] = "absent"
    /\ LET auto == AutoApproved(m)
           now  == IF auto THEN "running" ELSE "waiting_approval"
       IN  /\ status' = [status EXCEPT ![u] = now]
           /\ summaryStatus' = [summaryStatus EXCEPT ![t] = now]
           /\ decision' = [decision EXCEPT ![u] = IF auto THEN "approved" ELSE "pending"]
           /\ source' = [source EXCEPT ![u] = IF auto THEN "session-auto" ELSE "none"]
           /\ approvals' = IF auto THEN approvals ELSE approvals \cup {u}
           /\ IF auto THEN StartExecution(u) ELSE UNCHANGED execution
           /\ Emit(u, OpeningEvents(auto))
    /\ threadOf' = [threadOf EXCEPT ![u] = t]
    /\ mode' = [mode EXCEPT ![u] = m]
    /\ activeTurnId' = [activeTurnId EXCEPT ![t] = u]
    /\ threadLocks' = [threadLocks EXCEPT ![t] = u]
    /\ Post(t, "user", u)
    /\ UNCHANGED <<steers, text, disposed>>

InterruptibleWhenKnown(u) == status[u] # "absent"
Interruptible(u) == status[u] # "absent" /\ ~IsTerminal(u)

\* The approval of the turn, if it is still open, stays in the approvals map.
InterruptTurn(u) ==
    /\ ~disposed
    /\ Interruptible(u)
    /\ StopExecution(u)
    /\ FinishTurn(u, "interrupted")
    /\ Emit(u, <<"turn/completed">>)
    /\ UNCHANGED <<threadOf, mode, steers, text, approvalVars, messages, disposed>>

SteerTurn(u) ==
    /\ ~disposed
    /\ status[u] # "absent"
    /\ ~IsTerminal(u)
    /\ steers < MaxSteers
    /\ steers' = steers + 1
    /\ Post(threadOf[u], "steer", u)
    /\ Emit(u, <<"turn/plan/updated">>)
    /\ UNCHANGED <<status, threadOf, mode, text, approvalVars, summaryStatus,
                   activeTurnId, threadLocks, execution, disposed>>

\* The first half of decideApproval: the checks and the decision itself.
Decide(u, d) ==
    /\ ~disposed
    /\ u \in approvals
    /\ decision[u] = "pending"
    /\ decision' = [decision EXCEPT ![u] = d]
    /\ source' = [source EXCEPT ![u] = "user"]
    /\ approvals' = approvals \ {u}

\* Nothing here asks whether the turn is over already.
DenyApproval(u) ==
    /\ Decide(u, "denied")
    /\ StopExecution(u)
    /\ FinishTurn(u, "interrupted")
    /\ Emit(u, <<"turn/completed">>)
    /\ UNCHANGED <<threadOf, mode, steers, text, messages, disposed>>

ApproveApproval(u) ==
    /\ Decide(u, "approved")
    /\ IF status[u] = "waiting_approval"
       THEN /\ status' = [status EXCEPT ![u] = "running"]
            /\ summaryStatus' = [summaryStatus EXCEPT ![threadOf[u]] = "running"]
            /\ StartExecution(u)
            /\ Emit(u, <<"item/started">>)
       ELSE UNCHANGED <<status, summaryStatus, execution, events>>
    /\ UNCHANGED <<threadOf, mode, steers, text, activeTurnId, threadLocks, messages, disposed>>

-----------------------------------------------------------------------------
\* The 120 ms timer of an executing turn

Executing(u) == ~disposed /\ execution[u] # None /\ status[u] = "running"

HasChunk(u) == execution[u] < Chunks

TickDelta(u) ==
    /\ Executing(u)
    /\ HasChunk(u)
    /\ execution' = [execution EXCEPT ![u] = @ + 1]
    /\ text' = [text EXCEPT ![u] = @ + 1]
    /\ Emit(u, <<"item/agentMessage/delta">>)
    /\ UNCHANGED <<status, threadOf, mode, steers, approvalVars, threadVars, disposed>>

TickFinish(u) ==
    /\ Executing(u)
    /\ ~HasChunk(u)
    /\ StopExecution(u)
    /\ Post(threadOf[u], "assistant", u)
    /\ FinishTurn(u, "completed")
    /\ Emit(u, <<"item/completed", "turn/diff/updated", "turn/completed">>)
    /\ UNCHANGED <<threadOf, mode, steers, text, approvalVars, disposed>>

TickExecution(u) == TickDelta(u) \/ TickFinish(u)

\* The extension stops: every timer is cleared and the store is dropped.
Dispose ==
    /\ ~disposed
    /\ disposed' = TRUE
    /\ execution' = [u \in Turn |-> None]
    /\ UNCHANGED <<turnVars, approvalVars, threadVars, events>>

-----------------------------------------------------------------------------
Next ==
    \/ \E req \in Thread \cup {Draft}, t \in Thread, u \in Turn, m \in AccessMode :
          StartTurn(req, t, u, m)
    \/ \E u \in Turn : \/ InterruptTurn(u)
                       \/ SteerTurn(u)
                       \/ DenyApproval(u)
                       \/ ApproveApproval(u)
                       \/ TickDelta(u)
                       \/ TickFinish(u)
    \/ Dispose

Spec == Init /\ [][Next]_vars

\* setInterval calls tickExecution again and again until the timer is cleared.
FairSpec == Spec /\ \A u \in Turn : WF_vars(TickExecution(u))

-----------------------------------------------------------------------------
(***************************************************************************)
(* Properties                                                              *)
(***************************************************************************)

Live(u) == status[u] \in {"running", "waiting_approval"}

Emitted(u, method) == \E i \in DOMAIN events[u] : events[u][i] = method

\* finishTurn ran twice for u: a stale approval of u was denied.
FinishedTwice(u) ==
    \E i, j \in DOMAIN events[u] :
        i # j /\ events[u][i] = "turn/completed" /\ events[u][j] = "turn/completed"

\* summary.activeTurnId and threadLocks are two records of one lock, written
\* in startTurn and finishTurn: they agree, and the turn that holds the lock
\* of a thread is a turn of that thread that has not ended.
LockAgreement ==
    \A t \in Thread :
        /\ threadLocks[t] = activeTurnId[t]
        /\ activeTurnId[t] # NoTurn =>
              threadOf[activeTurnId[t]] = t /\ Live(activeTurnId[t])

\* Nothing of a turn is executed or written before its action was approved,
\* and the only approval of a plan-only turn is the user's, whatever
\* fullAccessAutoApprove says (startTurn, decideApproval, tickExecution).
ConsentBeforeOutput ==
    \A u \in Turn :
        text[u] > 0 \/ execution[u] # None \/ Emitted(u, "item/started")
            => /\ decision[u] = "approved"
               /\ mode[u] = "plan-only" => source[u] = "user"

\* A turn that has not ended can still end: while it waits, its approval can
\* be decided (the id is in the approvals map), and while it runs, its timer
\* is set; no timer is left behind by a turn that is over.
NoStuckTurn ==
    /\ \A u \in Turn : status[u] = "waiting_approval" => u \in approvals
    /\ \A u \in Turn : execution[u] # None => status[u] = "running"
    /\ ~disposed => \A u \in Turn : status[u] = "running" => execution[u] # None

\* The transcript of a thread tells how its turns ended: the assistant's answer
\* stands there once for a turn that completed, after its prompt and with
\* every chunk streamed, and for no other turn.
TranscriptMatchesOutcome ==
    \A t \in Thread, u \in Turn :
        LET answers == {i \in DOMAIN messages[t] :
                            messages[t][i] = [role |-> "assistant", turn |-> u]}
            prompts == {i \in DOMAIN messages[t] :
                            messages[t][i] = [role |-> "user", turn |-> u]}
        IN  IF status[u] = "completed" /\ threadOf[u] = t
            THEN /\ text[u] = Chunks
                 /\ \E a \in answers, p \in prompts : answers = {a} /\ p < a
            ELSE answers = {}

\* A thread has one turn at a time, as docs/ARCHITECTURE.md 10.1 promises,
\* as long as no turn of the store was finished twice.
OneActiveUnlessFinishedTwice ==
    (\A u \in Turn : ~FinishedTwice(u)) =>
        \A u \in Turn : Live(u) => activeTurnId[threadOf[u]] = u

\* The promise without that condition, which TLC refutes with three turns (README,
\* section 4): a thread has one turn at a time, whatever is denied or interrupted.
OneActiveTurnPerThread ==
    \A u, v \in Turn : Live(u) /\ Live(v) /\ threadOf[u] = threadOf[v] => u = v

\* A completed turn is history: no later call or tick changes its status, its
\* approval, its text or the envelopes of its stream.
CompletedIsFinal ==
    [][\A u \in Turn : status[u] = "completed" =>
            /\ status'[u] = status[u]
            /\ decision'[u] = decision[u] /\ source'[u] = source[u]
            /\ text'[u] = text[u] /\ events'[u] = events[u]]_vars

\* A turn that was let through ends, unless the extension stops first.
RunningTurnEnds == \A u \in Turn : status[u] = "running" ~> (IsTerminal(u) \/ disposed)

\* The store implements the gate: where the code's status puts each turn.
PhaseOf(s) ==
    CASE s = "absent" -> "new"
      [] s = "waiting_approval" -> "gated"
      [] s = "running" -> "open"
      [] OTHER -> "closed"

Gate == INSTANCE ApprovalGate WITH
            phase <- [u \in Turn |-> PhaseOf(status[u])],
            planOnly <- {u \in Turn : status[u] # "absent" /\ mode[u] = "plan-only"},
            output <- text

\* Every step of the store is a step of the approval gate, or none of its business.
ImplementsGate == Gate!Spec

=============================================================================
