---------------------------- MODULE PwaThreadView ----------------------------
(***************************************************************************)
(* What the PWA shows of one thread, packages/pwa/src/app.js: the selected *)
(* thread and its detail, which turn it takes to be active, the buttons    *)
(* that depend on it, and the stream of that turn. One workspace is        *)
(* selected all along, and no draft; its threads may be loaded again, which*)
(* selects a thread as well (loadThreads).                                 *)
(*                                                                         *)
(* Four sources tell the PWA about a turn, each with a delay of its own:   *)
(* the answers to its calls, the detail it reads and reads again, the list *)
(* of threads, and the events of a WebSocket. Each handler runs to its end *)
(* or to its await, so actions are handlers, and continuations of awaits.  *)
(*                                                                         *)
(* The hub and the bridge are external: they answer a read with the turns  *)
(* of that moment and stream the events of a turn to the socket opened for *)
(* it, beginning with its state. running stands for waiting_approval too;  *)
(* the poll timer, once set, stays, and stands also for the 250 ms refresh *)
(* timer and for the refreshes that end a call. A list may show any moment *)
(* before now. Events of progress change no more than turn/started does,   *)
(* and an interrupted turn is one that ends. At most one send and one      *)
(* steer are under way (bounds: the code does not disable the button while *)
(* it waits). Rendering is left out.                                       *)
(***************************************************************************)
EXTENDS Naturals, Sequences, FiniteSetsExt

CONSTANTS
    Thread,      \* the threads of the workspace
    NoThread,    \* null for a thread
    MaxTurns,    \* bound: turns that are started
    MaxLoads,    \* bound: calls of loadThreads that await the answer that will count
    MaxFaults    \* bound: reads that fail and sockets that drop

ASSUME PwaThreadViewAssumption ==
    /\ NoThread \notin Thread
    /\ {MaxTurns, MaxLoads, MaxFaults} \subseteq Nat

VARIABLES
    \* fields of state
    selectedThreadId, selectedTurnId, threadDetail, summaries, observed,
    ws, reconnectTimer, suppressed, refreshQueued,
    thinking,    \* isThinking: Stop is shown, and the main button steers
    \* requests under way, and the sockets whose close event is to come
    detailRequest, threadsRequest, sending, steering, closing,
    \* the bridge: its turns and their threads
    srv, threadOf,
    faults

selectionVars == <<selectedThreadId, selectedTurnId, threadDetail, summaries, observed, thinking>>
streamVars    == <<ws, reconnectTimer, suppressed, closing>>
detailVars    == <<detailRequest, refreshQueued>>
requestVars   == <<threadsRequest, sending, steering>>
serverVars    == <<srv, threadOf>>

viewVars == <<selectionVars, streamVars, detailVars, requestVars, serverVars, faults>>

Turn   == 1..MaxTurns              \* in the order they are started
NoTurn == 0
Turns  == [Turn -> {"absent", "running", "ended"}]    \* what a reader sees of turns

Nothing  == [u \in Turn |-> "absent"]
NoDetail == [thread |-> NoThread, turns |-> Nothing, active |-> NoTurn, busy |-> FALSE, version |-> 0]
NoStream == [turn |-> NoTurn, stage |-> "none", queue |-> <<>>]
NoSend   == [stage |-> "none", thread |-> NoThread, turn |-> NoTurn]
NoRead   == [stage |-> "none", thread |-> NoThread, turns |-> Nothing]
NoLoad   == [stage |-> "none", preferred |-> NoThread]

Event == {"hub/state running", "hub/state ended", "turn/started", "turn/completed"}

ViewTypeOK ==
    /\ selectedThreadId \in Thread \cup {NoThread}
    /\ selectedTurnId \in Turn \cup {NoTurn}
    /\ threadDetail \in [thread : Thread \cup {NoThread}, turns : Turns,
                         active : Turn \cup {NoTurn}, busy : BOOLEAN, version : 0..(2 * MaxTurns)]
    /\ threadDetail = NoDetail <=> threadDetail.thread = NoThread
    /\ summaries \in Turns
    /\ observed \in [Thread -> Turn \cup {NoTurn}]
    /\ ws \in [turn : Turn \cup {NoTurn}, stage : {"none", "connecting", "open"}, queue : Seq(Event)]
    /\ ws.turn = NoTurn <=> ws = NoStream
    /\ reconnectTimer \in Turn \cup {NoTurn}
    /\ {suppressed, refreshQueued, thinking} \subseteq BOOLEAN
    /\ detailRequest \in [stage : {"none", "sent", "answered"}, thread : Thread \cup {NoThread},
                          turns : Turns]
    /\ sending \in [stage : {"none", "sent", "answered"}, thread : Thread \cup {NoThread},
                    turn : Turn \cup {NoTurn}]
    /\ threadsRequest \in [stage : {"none", "sent"}, preferred : Thread \cup {NoThread}]
    /\ steering \in Turn \cup {NoTurn}
    /\ closing \in SUBSET Turn
    /\ srv \in [Turn -> {"absent", "starting", "running", "ended"}]
    /\ threadOf \in [Turn -> Thread \cup {NoThread}]
    /\ faults \in 0..MaxFaults

ViewInit ==
    /\ selectedThreadId = NoThread
    /\ selectedTurnId = NoTurn
    /\ threadDetail = NoDetail
    /\ summaries = Nothing
    /\ observed = [t \in Thread |-> NoTurn]
    /\ thinking = FALSE
    /\ ws = NoStream
    /\ reconnectTimer = NoTurn
    /\ suppressed = FALSE
    /\ closing = {}
    /\ detailRequest = NoRead
    /\ refreshQueued = FALSE
    /\ threadsRequest = NoLoad
    /\ sending = NoSend
    /\ steering = NoTurn
    /\ srv = [u \in Turn |-> "absent"]
    /\ threadOf = [u \in Turn |-> NoThread]
    /\ faults = 0

-----------------------------------------------------------------------------
\* Which turn is active, in the eyes of the PWA

\* The turns as the bridge shows them now.
Seen == [u \in Turn |-> IF srv[u] = "starting" THEN "running" ELSE srv[u]]

Running(turns) == {u \in Turn : turns[u] = "running"}

\* thread.updatedAt: it grows with every start and every end of a turn.
Version(turns, t) ==
    Cardinality({u \in Turn : threadOf[u] = t /\ turns[u] # "absent"})
        + Cardinality({u \in Turn : threadOf[u] = t /\ turns[u] = "ended"})

Detail(t, turns) ==
    [thread |-> t, turns |-> turns, version |-> Version(turns, t),
     active |-> IF Running(turns) = {} THEN NoTurn ELSE Max(Running(turns)),
     busy   |-> Running(turns) # {}]

ThreadOf(d) == IF d = NoDetail THEN selectedThreadId ELSE d.thread

FromPointer(d) == d.active # NoTurn /\ (d.turns[d.active] = "running" \/ d.busy)

\* findActiveTurn: the pointer of the detail, a running turn of it, the selected
\* turn while the thread is busy, or what was observed of it before.
FindActiveTurn(d, sel, obs) ==
    LET t    == ThreadOf(d)
        seen == IF t = NoThread THEN NoTurn ELSE obs[t]
    IN  IF FromPointer(d) THEN d.active
        ELSE IF Running(d.turns) # {}
        THEN IF sel \in Running(d.turns) THEN sel ELSE Max(Running(d.turns))
        ELSE IF d.busy /\ sel # NoTurn THEN sel
        ELSE IF seen # NoTurn /\ d.turns[seen] # "ended" THEN seen
        ELSE NoTurn

Remember(obs, t, u) == [obs EXCEPT ![t] = u]
Forget(obs, t, u)   == IF obs[t] = u THEN [obs EXCEPT ![t] = NoTurn] ELSE obs

\* findActiveTurn also deletes the observation its detail shows to be over.
Pruned(d, sel, obs) ==
    IF d # NoDetail /\ obs[d.thread] # NoTurn /\ d.turns[obs[d.thread]] = "ended"
          /\ FindActiveTurn(d, sel, obs) = NoTurn
    THEN [obs EXCEPT ![d.thread] = NoTurn] ELSE obs

\* findActiveTurnFromSelectedThreadSummary.
SummaryActiveTurn(d, t, list) ==
    LET running == {u \in Running(list) : threadOf[u] = t}
        idle    == Running(d.turns) = {} /\ ~(d.active # NoTurn /\ d.busy)
    IN  IF running = {} \/ (d.thread = t /\ idle /\ d.version >= Version(list, t))
        THEN NoTurn ELSE Max(running)

\* A list whose thread changed 90 s ago or more counts no more; it matters before
\* the first detail only, since any detail read after that change is newer.
Lists(s, d) == {s} \cup (IF d = NoDetail THEN {Nothing} ELSE {})

\* updateThinkingState(d): the turn the indicator and the buttons are about.
ThinkingTurn(d, sel, obs, list) ==
    LET u == FindActiveTurn(d, sel, obs) IN
    IF u = NoTurn /\ d = NoDetail THEN SummaryActiveTurn(d, selectedThreadId, list) ELSE u

UpdateThinkingState(d, sel, obs, list) ==
    LET u == ThinkingTurn(d, sel, obs, list) IN
    /\ thinking' = (u # NoTurn)
    /\ selectedTurnId' = IF u # NoTurn THEN u ELSE sel
    /\ observed' = Pruned(d, sel, obs)

-----------------------------------------------------------------------------
\* The stream of a turn

DroppedStream == IF ws = NoStream THEN {} ELSE {ws.turn}

OpenTurnStream(u) ==
    /\ closing' = closing \cup DroppedStream
    /\ ws' = [turn |-> u, stage |-> "connecting", queue |-> <<>>]
    /\ suppressed' = FALSE
    /\ reconnectTimer' = NoTurn

ClosedStream == NoStream

\* closeTurnStream({ resetReconnect: true }); nothing reconnects for 1.5 s.
CloseTurnStream ==
    /\ closing' = closing \cup DroppedStream
    /\ ws' = ClosedStream
    /\ suppressed' = TRUE
    /\ reconnectTimer' = NoTurn

\* What shouldMaintainStreamForTurn(u) leaves of the observations.
ObservedStill(u) ==
    IF selectedThreadId # NoThread /\ selectedTurnId = u
    THEN Pruned(threadDetail, u, observed) ELSE observed

ShouldMaintainStream(u, list) ==
    /\ selectedThreadId # NoThread
    /\ selectedTurnId = u
    /\ LET active == FindActiveTurn(threadDetail, u, observed) IN
       \/ active = u
       \/ active = NoTurn /\ SummaryActiveTurn(threadDetail, selectedThreadId, list) = u
       \/ ObservedStill(u)[ThreadOf(threadDetail)] = u

ReconnectIfFirst(u) == reconnectTimer' = reconnectTimer
ScheduleReconnect(u) == reconnectTimer' = IF reconnectTimer = NoTurn THEN u ELSE reconnectTimer

\* onclose of a socket for u, once state.ws is null.
StreamClosed(u) ==
    IF suppressed THEN UNCHANGED <<reconnectTimer, observed>>
    ELSE /\ \E list \in Lists(summaries, threadDetail) :
               IF ShouldMaintainStream(u, list) THEN ScheduleReconnect(u)
               ELSE reconnectTimer' = NoTurn
         /\ observed' = ObservedStill(u)

SocketOpens ==
    /\ ws.stage = "connecting"
    /\ ws' = [ws EXCEPT !.stage = "open",
                        !.queue = <<IF srv[ws.turn] = "ended" THEN "hub/state ended"
                                                              ELSE "hub/state running">>]
    /\ reconnectTimer' = NoTurn
    /\ UNCHANGED <<selectionVars, suppressed, closing, detailVars, requestVars, serverVars, faults>>

SocketDrops ==
    /\ ws # NoStream
    /\ faults < MaxFaults
    /\ faults' = faults + 1
    /\ ws' = NoStream
    /\ StreamClosed(ws.turn)
    /\ UNCHANGED <<selectedThreadId, selectedTurnId, threadDetail, summaries, thinking, suppressed,
                   closing, detailVars, requestVars, serverVars>>

\* The close event of a socket that was closed before, possibly replaced since.
OldSocketCloses(u) ==
    /\ u \in closing
    /\ closing' = closing \ {u}
    /\ IF ws # NoStream THEN UNCHANGED <<reconnectTimer, observed>> ELSE StreamClosed(u)
    /\ UNCHANGED <<selectedThreadId, selectedTurnId, threadDetail, summaries, thinking, ws,
                   suppressed, detailVars, requestVars, serverVars, faults>>

ReconnectFires ==
    /\ reconnectTimer # NoTurn
    /\ \E list \in Lists(summaries, threadDetail) :
          IF ShouldMaintainStream(reconnectTimer, list)
          THEN OpenTurnStream(reconnectTimer)
          ELSE reconnectTimer' = NoTurn /\ UNCHANGED <<ws, suppressed, closing>>
    /\ observed' = ObservedStill(reconnectTimer)
    /\ UNCHANGED <<selectedThreadId, selectedTurnId, threadDetail, summaries, thinking,
                   detailVars, requestVars, serverVars, faults>>

SuppressionEnds ==
    /\ suppressed
    /\ suppressed' = FALSE
    /\ UNCHANGED <<selectionVars, ws, reconnectTimer, closing, detailVars, requestVars,
                   serverVars, faults>>

-----------------------------------------------------------------------------
\* Opening a thread, reading it, and the list of threads

RefreshNotQueued(t) ==
    IF detailRequest # NoRead THEN UNCHANGED detailVars
    ELSE /\ refreshQueued' = FALSE
         /\ detailRequest' = [stage |-> "sent", thread |-> t, turns |-> Nothing]
\* refreshThreadDetail up to its await: behind a read under way it is queued.
RefreshThreadDetail(t) ==
    IF detailRequest # NoRead
    THEN refreshQueued' = TRUE /\ UNCHANGED detailRequest
    ELSE /\ refreshQueued' = FALSE
         /\ detailRequest' = [stage |-> "sent", thread |-> t, turns |-> Nothing]

\* openThread, with resetActiveThreadView, which looks at the thread that is
\* still selected when it updates the buttons. (Opening the thread that is
\* selected already is a refresh.)
OpenThread(t) ==
    /\ t # selectedThreadId
    /\ CloseTurnStream
    /\ threadDetail' = NoDetail
    /\ \E list \in Lists(summaries, NoDetail) : UpdateThinkingState(NoDetail, NoTurn, observed, list)
    /\ selectedThreadId' = t
    /\ RefreshThreadDetail(t)
    /\ UNCHANGED <<summaries, requestVars, serverVars, faults>>

Poll ==
    /\ selectedThreadId # NoThread
    /\ RefreshThreadDetail(selectedThreadId)
    /\ UNCHANGED <<selectionVars, streamVars, requestVars, serverVars, faults>>

StillSelected(t) == selectedThreadId = t

\* reconcileObservedActiveTurn
Reconciled(d) ==
    LET seen == observed[d.thread] IN
    IF d.active # NoTurn /\ d.busy THEN Remember(observed, d.thread, d.active)
    ELSE IF seen # NoTurn /\ d.turns[seen] = "ended" THEN Forget(observed, d.thread, seen)
    ELSE observed

RefreshStaysInFlight ==
    /\ detailRequest' = [detailRequest EXCEPT !.stage = "failed"]
    /\ UNCHANGED refreshQueued
\* The finally of refreshThreadDetail; a refresh asked for meanwhile begins.
RefreshEnds ==
    /\ refreshQueued' = FALSE
    /\ detailRequest' = IF refreshQueued /\ selectedThreadId # NoThread
                        THEN [stage |-> "sent", thread |-> selectedThreadId, turns |-> Nothing]
                        ELSE NoRead

\* The stream follows the active turn only if updateThinkingState has not
\* already made it the selected one.
DetailReturns ==
    LET t == detailRequest.thread
        d == Detail(t, detailRequest.turns)
        obs == Reconciled(d)
        shown == FindActiveTurn(d, selectedTurnId, obs)
        sel == IF shown # NoTurn THEN shown ELSE selectedTurnId
        found == FindActiveTurn(d, sel, obs)
        active == IF found # NoTurn THEN found ELSE SummaryActiveTurn(d, t, summaries)
    IN  /\ detailRequest.stage = "answered"
        /\ RefreshEnds
        /\ IF StillSelected(t)
           THEN /\ threadDetail' = d
                /\ thinking' = (shown # NoTurn)
                /\ observed' = Pruned(d, selectedTurnId, obs)
                /\ selectedTurnId' = active
                /\ IF active = NoTurn THEN CloseTurnStream
                   ELSE IF active # sel THEN OpenTurnStream(active)
                   ELSE UNCHANGED streamVars
           ELSE UNCHANGED <<threadDetail, thinking, observed, selectedTurnId, streamVars>>
        /\ UNCHANGED <<selectedThreadId, summaries, requestVars, serverVars, faults>>

\* An error, or the timeout of apiRequest: the last known state is kept.
RefreshEndsBadly == RefreshEnds
DetailFails ==
    /\ detailRequest # NoRead
    /\ faults < MaxFaults
    /\ faults' = faults + 1
    /\ IF StillSelected(detailRequest.thread)
       THEN \E list \in Lists(summaries, threadDetail) :
               UpdateThinkingState(threadDetail, selectedTurnId, observed, list)
       ELSE UNCHANGED <<thinking, selectedTurnId, observed>>
    /\ RefreshEndsBadly
    /\ UNCHANGED <<selectedThreadId, threadDetail, summaries, streamVars, requestVars, serverVars>>

\* What a list may show: an earlier moment, or this one.
Listed == {s \in Turns :
    /\ \A u \in Turn : s[u] = Seen[u] \/ s[u] = "absent" \/ (s[u] = "running" /\ Seen[u] = "ended")
    /\ \A u, v \in Turn : u < v /\ s[v] # "absent" => s[u] # "absent"}

\* refreshThreadsForSelectedBridge after its await.
ListReturns ==
    /\ selectedThreadId # NoThread
    /\ \E s \in Listed :
          /\ summaries' = s
          /\ \E list \in Lists(s, threadDetail) : UpdateThinkingState(threadDetail, selectedTurnId, observed, list)
    /\ UNCHANGED <<selectedThreadId, threadDetail, streamVars, detailVars, requestVars,
                   serverVars, faults>>

\* loadThreads of the workspace, up to its await (a click on its header, Connect, a
\* retry): the thread to come back to is the one selected now. An answer to an
\* earlier call counts no more (requestCounter).
LoadThreads ==
    /\ MaxLoads > 0
    /\ threadsRequest' = [stage |-> "sent", preferred |-> selectedThreadId]
    /\ UNCHANGED <<selectionVars, streamVars, detailVars, sending, steering, serverVars, faults>>

\* The thread is selected before openThread is called, which sees no change of thread
\* then: detail, stream and buttons stay those of the thread that was selected.
Reselect(t) ==
    /\ selectedThreadId' = t
    /\ RefreshThreadDetail(t)

ThreadsReturn ==
    /\ threadsRequest # NoLoad
    /\ threadsRequest' = NoLoad
    /\ \E s \in Listed :
          LET busy == {t \in Thread : \E u \in Running(s) : threadOf[u] = t} IN
          /\ summaries' = s
          /\ \E t \in IF threadsRequest.preferred # NoThread THEN {threadsRequest.preferred}
                      ELSE IF busy # {} THEN busy ELSE Thread :
                Reselect(t)
    /\ UNCHANGED <<selectedTurnId, threadDetail, observed, thinking, streamVars, sending,
                   steering, serverVars, faults>>

\* The list is emptied, and the selection stays.
ThreadsFail ==
    /\ threadsRequest # NoLoad
    /\ threadsRequest' = NoLoad
    /\ summaries' = Nothing
    /\ UNCHANGED <<selectedThreadId, selectedTurnId, threadDetail, observed, thinking, streamVars,
                   detailVars, sending, steering, serverVars, faults>>

TurnsOf(t) == [u \in Turn |-> IF threadOf[u] = t THEN Seen[u] ELSE "absent"]

\* An observation that nothing has confirmed for 90 s counts no more. By then no
\* answer older than it is on its way (a read takes 10 s at most), and a selected
\* thread has been read since (every second).
ObservationExpires(t) ==
    /\ observed[t] # NoTurn
    /\ detailRequest.stage = "answered" => detailRequest.turns = TurnsOf(detailRequest.thread)
    /\ t = selectedThreadId => threadDetail.thread = t /\ threadDetail.version = Version(Seen, t)
    /\ observed' = [observed EXCEPT ![t] = NoTurn]
    /\ UNCHANGED <<selectedThreadId, selectedTurnId, threadDetail, summaries, thinking,
                   streamVars, detailVars, requestVars, serverVars, faults>>

-----------------------------------------------------------------------------
\* The user's calls

SendMessage ==
    /\ ~thinking /\ selectedThreadId # NoThread
    /\ sending = NoSend
    /\ sending' = [stage |-> "sent", thread |-> selectedThreadId, turn |-> NoTurn]
    /\ UNCHANGED <<selectionVars, streamVars, detailVars, threadsRequest, steering, serverVars, faults>>

RememberedNot(t, u) == observed
\* So that a detail read before the turn began does not hide it again.
RememberedOnSend(t, u) == Remember(observed, t, u)

\* The thread that is selected by now is not looked at.
SendReturns ==
    LET u == sending.turn IN
    /\ sending.stage = "answered"
    /\ sending' = NoSend
    /\ selectedTurnId' = u
    /\ thinking' = TRUE
    /\ observed' = RememberedOnSend(sending.thread, u)
    /\ OpenTurnStream(u)
    /\ UNCHANGED <<selectedThreadId, threadDetail, summaries, detailVars, threadsRequest, steering, serverVars, faults>>

SendSteer ==
    /\ thinking
    /\ steering = NoTurn
    /\ \E list \in Lists(summaries, threadDetail) :
          LET found == FindActiveTurn(threadDetail, NoTurn, observed)
              u == IF selectedTurnId # NoTurn THEN selectedTurnId
                   ELSE IF found # NoTurn THEN found
                   ELSE SummaryActiveTurn(threadDetail, selectedThreadId, list)
          IN  steering' = u
    /\ observed' = IF selectedTurnId # NoTurn THEN observed
                   ELSE Pruned(threadDetail, NoTurn, observed)
    /\ UNCHANGED <<selectedThreadId, selectedTurnId, threadDetail, summaries, thinking,
                   streamVars, detailVars, threadsRequest, sending, serverVars, faults>>

\* The steered turn is selected again, whichever thread is by now.
SteerReturns ==
    /\ steering # NoTurn
    /\ steering' = NoTurn
    /\ selectedTurnId' = steering
    /\ UNCHANGED <<selectedThreadId, threadDetail, summaries, observed, thinking, streamVars,
                   detailVars, threadsRequest, sending, serverVars, faults>>

\* An error or a timeout only leads to a message.
CallFails ==
    /\ \/ sending # NoSend /\ sending' = NoSend /\ UNCHANGED steering
       \/ steering # NoTurn /\ steering' = NoTurn /\ UNCHANGED sending
    /\ UNCHANGED <<selectionVars, streamVars, detailVars, threadsRequest, serverVars, faults>>

-----------------------------------------------------------------------------
\* Events of the stream

TurnStartedIn(d, u) ==
    [d EXCEPT !.active = u, !.busy = IF d.active # u THEN TRUE ELSE d.busy, !.turns[u] = "running"]

TurnCompletedIn(d, u) ==
    [d EXCEPT !.active = IF d.active = u THEN NoTurn ELSE d.active,
              !.busy = d.busy /\ d.active # u,
              !.turns[u] = IF d.turns[u] # "absent" THEN "ended" ELSE "absent"]

HubStateIn(d, u, status) ==
    IF d.turns[u] = "absent" THEN d
    ELSE [d EXCEPT !.active = IF status = "running" THEN u ELSE IF d.active = u THEN NoTurn ELSE d.active,
                   !.busy = (status = "running"),
                   !.turns[u] = status]

\* What the event of u does to the detail; none of these asks for u's thread.
AppliedTo(d, u, m) ==
    IF d = NoDetail THEN d
    ELSE CASE m = "turn/started" -> TurnStartedIn(d, u)
           [] m = "turn/completed" -> TurnCompletedIn(d, u)
           [] m = "hub/state running" -> HubStateIn(d, u, "running")
           [] m = "hub/state ended" -> HubStateIn(d, u, "ended")
           [] OTHER -> d

\* trackObservedActiveTurn, by the thread of the event.
Tracked(u, m) ==
    IF m \in {"turn/completed", "hub/state ended"}
    THEN Forget(observed, threadOf[u], u) ELSE Remember(observed, threadOf[u], u)

HandleTurnEvent ==
    LET u == ws.turn
        m == Head(ws.queue)
        d == AppliedTo(threadDetail, u, m)
        obs == IF d = NoDetail THEN Tracked(u, m)
               ELSE CASE m = "turn/started" -> Remember(Tracked(u, m), d.thread, u)
                      [] m = "turn/completed" -> Forget(Tracked(u, m), d.thread, u)
                      [] OTHER -> Tracked(u, m)
        sel == IF d = NoDetail THEN selectedTurnId
               ELSE CASE m = "turn/started" /\ selectedTurnId = NoTurn -> u
                      [] m = "turn/completed" /\ selectedTurnId = u -> NoTurn
                      [] OTHER -> selectedTurnId
        forSelectedThread == selectedTurnId = u \/ ThreadOf(threadDetail) = threadOf[u]
        thinkingChanged == m \in {"turn/started", "turn/completed"} \/ d # threadDetail
    IN  /\ ws.queue # <<>>
        /\ ws' = [ws EXCEPT !.queue = Tail(@)]
        /\ threadDetail' = d
        /\ IF forSelectedThread /\ thinkingChanged /\ d # NoDetail
           THEN UpdateThinkingState(d, sel, obs, summaries)
           ELSE thinking' = thinking /\ selectedTurnId' = sel /\ observed' = obs
        /\ UNCHANGED <<selectedThreadId, summaries, reconnectTimer, suppressed, closing, detailVars,
                       requestVars, serverVars, faults>>

-----------------------------------------------------------------------------
\* The hub and the bridge (external)

Busy(t) == \E u \in Turn : threadOf[u] = t /\ Seen[u] = "running"

Begin(u, t) ==
    /\ srv[u] = "absent" /\ \A v \in 1..(u - 1) : srv[v] # "absent"
    /\ ~Busy(t)
    /\ srv' = [srv EXCEPT ![u] = "starting"]
    /\ threadOf' = [threadOf EXCEPT ![u] = t]

Broadcast(u, m) ==
    ws' = IF ws.turn = u /\ ws.stage = "open" THEN [ws EXCEPT !.queue = Append(@, m)] ELSE ws

\* Started for the PWA, or by somebody else.
BridgeStarts(u, t) ==
    /\ Begin(u, t)
    /\ \/ UNCHANGED sending
       \/ /\ sending.stage = "sent" /\ sending.thread = t
          /\ sending' = [sending EXCEPT !.stage = "answered", !.turn = u]
    /\ UNCHANGED <<selectionVars, streamVars, detailVars, threadsRequest, steering, faults>>

BridgeReports(u) ==
    /\ \/ srv[u] = "starting" /\ srv' = [srv EXCEPT ![u] = "running"] /\ Broadcast(u, "turn/started")
       \/ srv[u] = "running" /\ srv' = [srv EXCEPT ![u] = "ended"] /\ Broadcast(u, "turn/completed")
    /\ UNCHANGED <<selectionVars, reconnectTimer, suppressed, closing, detailVars, requestVars,
                   threadOf, faults>>

DetailAnswered ==
    /\ detailRequest.stage = "sent"
    /\ detailRequest' = [detailRequest EXCEPT !.stage = "answered",
                                                 !.turns = TurnsOf(detailRequest.thread)]
    /\ UNCHANGED <<selectionVars, streamVars, refreshQueued, requestVars, serverVars, faults>>

-----------------------------------------------------------------------------
SocketSteps == \/ SocketOpens \/ HandleTurnEvent \/ ReconnectFires \/ SuppressionEnds
           \/ \E u \in Turn : OldSocketCloses(u)

ViewNext ==
    \/ \E t \in Thread : OpenThread(t) \/ ObservationExpires(t)
    \/ Poll \/ DetailAnswered \/ DetailReturns \/ DetailFails
    \/ ListReturns \/ LoadThreads \/ ThreadsReturn \/ ThreadsFail
    \/ SendMessage \/ SendReturns \/ SendSteer \/ SteerReturns \/ CallFails
    \/ SocketSteps \/ SocketDrops
    \/ \E u \in Turn, t \in Thread : BridgeStarts(u, t)
    \/ \E u \in Turn : BridgeReports(u)

ViewSpec == ViewInit /\ [][ViewNext]_viewVars

\* Polls are answered, answers and events handled, timers fire, and observations
\* grow old; the turns themselves may run as long as they like.
FairViewSpec ==
    /\ ViewSpec
    /\ WF_viewVars(Poll) /\ WF_viewVars(DetailAnswered \/ DetailReturns)
    /\ WF_viewVars(SocketSteps)
    /\ \A t \in Thread : SF_viewVars(ObservationExpires(t))

-----------------------------------------------------------------------------
(***************************************************************************)
(* Properties                                                              *)
(***************************************************************************)

\* packages/pwa/src/app.js:859: no stale timeline after a switch. Refuted by TLC
\* (README, section 4), and a part of no run: Reselect leaves the detail of the
\* thread that was selected.
DetailIsSelected == threadDetail # NoDetail => threadDetail.thread = selectedThreadId

ForeignDetail == threadDetail # NoDetail /\ threadDetail.thread # selectedThreadId
BeingRead     == detailRequest # NoRead /\ (detailRequest.thread = selectedThreadId \/ refreshQueued)

\* The answer about a thread that was left is never shown, and a timeline of another
\* thread, which loadThreads leaves behind, never stays unnoticed (refreshThreadDetail,
\* its queue): the selected thread is being read, or a read is queued behind one of
\* the thread before, and only a read that fails ends that with the timeline unrepaired.
ForeignDetailIsRead ==
    [][/\ ForeignDetail' => threadDetail'.thread = threadDetail.thread
       /\ (ForeignDetail /\ ~BeingRead)' => DetailFails \/ (ForeignDetail /\ ~BeingRead)]_viewVars

\* No read closes or replaces the stream of the selected turn while that turn
\* runs in the selected thread, also a read that was answered before the turn began.
StreamSurvivesLaggingRead ==
    [][DetailReturns /\ ws # NoStream /\ ws.turn = selectedTurnId
          /\ Seen[ws.turn] = "running" /\ threadOf[ws.turn] = selectedThreadId
       => ws' = ws]_viewVars

\* If a thread stays selected and stays idle, Stop and Steer disappear for good,
\* and if it stays busy they appear, whatever was observed, missed or late before.
ThinkingSettles ==
    \A t \in Thread :
        /\ <>[](selectedThreadId = t /\ ~Busy(t)) => <>[]~thinking
        /\ <>[](selectedThreadId = t /\ Busy(t)) => <>[]thinking

\* docs/ARCHITECTURE.md 11: a stream that is lost is opened again (onclose,
\* scheduleTurnStreamReconnect), if the PWA has heard of the turn, as long as it
\* runs, it and its thread stay selected and no other thread's detail is shown (with
\* that one, onclose and the timer look for the turn in the wrong thread).
StreamComesBack ==
    \A u \in Turn :
        []((ws.turn = u /\ observed[selectedThreadId] = u
               /\ [](selectedTurnId = u /\ selectedThreadId = threadOf[u] /\ srv[u] = "running"
                        /\ ~ForeignDetail))
            => []<>(ws.turn = u))

\* Stop and Steer, when they are shown, are about a turn of the selected thread.
StopMeansSelectedThread == thinking => selectedTurnId # NoTurn /\ threadOf[selectedTurnId] = selectedThreadId

=============================================================================
