# VSC Codex Bridge: TLA+ specifications and proofs

This directory holds TLA+ models of the VSC Codex Bridge, the TLC runs that check
them and the TLAPS proofs about them. Paths below are relative to `packages/`.

A browser (the PWA) follows and steers Codex turns that run in VS Code windows. Each
window runs a *bridge*, an HTTP server in the extension host that talks to a
`codex app-server`, or simulates one. A *hub* lists the bridges and forwards the PWA's
requests and streams to them.

    PWA (app.js) --HTTP, WebSocket--> hub (server.ts, registry.ts)
                                        |  proxy             ^ register, heartbeat
                                        v                    |
                       BridgeServer --> store --> AppServerClient --> codex app-server
                       (one per VS Code window, started and stopped by BridgeController,
                        which also spawns the hub through ManagedHubRuntime)

## 1. Inventory

Everything is JavaScript: one event loop per process, so code between two awaits is
atomic, and what is hard is what happens *during* awaits, what a timer or a socket
handler does later, and what the other processes do meanwhile.

| Component | State it keeps | Operations | Hard behaviour | Correct when |
|---|---|---|---|---|
| `BridgeStore` (`bridge-vscode/src/store.ts`) | turn records, thread states, `threadLocks`, `approvals`, `execution` timers, subscribers | startTurn, interruptTurn, steerTurn, decideApproval, tickExecution, dispose | calls of clients against timers; approvals that outlive their turn | a lock and its turn agree; nothing is written without consent; no turn is stuck; a completed turn is history |
| `AppServerStore` (`appServerStore.ts`) | `turnRecords`, `activeTurnByThread`, `pendingApprovals` | the same calls, relayed; notifications and server requests | a response and the frames behind it are handled before the caller's continuation; stale snapshots | one answer per approval, and the recorded one; records converge; the pointer names the running turn |
| `AppServerClient` (`appServerClient.ts`) | `socket`, `process`, `pendingRequests`, `nextRequestId` | start (attach, spawn), request, stop | handshakes that succeed after their timeout, slow closes, loss of process or socket | every request settles; a failed start leaves nothing |
| `HubClient` (`hubClient.ts`) | `isRegistered`, `registrationInFlight`, retry delay and timers | start, stop, heartbeat, attemptRegister | overlapping, lost and overtaken exchanges; hub restarts | one attempt at a time; registration recovers |
| `BridgeRegistry` (`hub/src/registry.ts`) | a map of bridges with `lastHeartbeatAt` | register, heartbeat, get, listActive, pruneStale | the TTL against the sender's clock and the latency | neither a dead bridge shown nor a live one hidden |
| `ManagedHubRuntime` (`managedHubRuntime.ts`) | `process`, `state.mode` | start, stop, restart, exit handler | several windows race for one address; late exits and probes | one hub for all; no process left behind |
| `BridgeController` (`bridgeController.ts`, `extension.ts`) | `store`, `server`, `hubClient`, `running`, `lifecycleQueue` | start, stop, restart, reload, hub commands | failures half-way; commands that bypass the queue | all parts or none; calls end |
| PWA thread view (`pwa/src/app.js`) | selected thread and turn, `threadDetail`, observed turns, the stream and its reconnection timer | openThread, refreshThreadDetail, lists, sendMessage, steer, stream handlers | four sources about one turn, each with its own delay; selections made by late answers | what is shown becomes the selected thread's; buttons settle; a stream survives stale reads |
| start of a turn (`AppServerStore.startTurn`) | where a call is on its ladder of requests | read, resume, start, retries; `thread/start` and its fallbacks for a draft | threads unloaded or deleted, requests lost, between any two rungs | a message reaches the agent at most once, in its own thread |
| `BridgeServer` (`bridgeServer.ts`) | sockets subscribed per turn, open requests | HTTP routes, stream subscription, broadcast, stop | subscription against broadcast; stop with open requests | no event lost or early; stop ends |
| Hub server (`server.ts`, `bridgeProxy.ts`) | registry, proxied sockets, rate limits | internal handlers, forwarding, stream proxy | closing of two sockets by either side | both ends close; order kept |
| PWA workspaces (`pwa/src/app.js`) | workspaces, selection, thread lists, drafts, reads under way | loadBridges, loadThreads, openThread, drafts, polling, sendMessage | answers that come after the selection has changed | what is selected and listed belongs to the workspace |
| rest of the PWA | approval cards, settings, dictation | | | |
| discovery, contracts, config, logging, Electron app, scripts | none, or outside the main path | | | |

`PROJECT.json` lists the components with the files and the hazards with their lines.

## 2. Modules

| Module | Models | Composition |
|---|---|---|
| `ApprovalGate` | abstract: output only between consent and end | implemented by `BridgeStore` |
| `BridgeStore` | the simulated backend | |
| `AppServerStore` | the relaying backend with the app-server and both channels | |
| `AppServerClient` | the connection to the app-server | |
| `TurnStart` | one call of `startTurn`, rung by rung | |
| `HubClient`, `BridgeRegistry` | the two ends of registration, operators on their own state | |
| `HubRegistration` | both, the network, faults and time | EXTENDS both |
| `TurnFeed` | abstract: a first version, then each next one | implemented by `TurnStream` |
| `TurnStream` | the bridge's subscribers and stop, and the hub's proxy, over two sockets a stream | |
| `ManagedHub` | hub processes of several windows | |
| `BridgeLifecycle` | the lifecycle queue and the hub commands | EXTENDS `ManagedHub` |
| `PwaThreadView` | the PWA's view of threads and the stream of a turn | |
| `PwaWorkspaces` | the choice of workspace and thread, lists, drafts | |
| `..._proofs` | theorems about `BridgeStore`, `AppServerStore`, `TurnStart`, `AppServerClient`, `HubRegistration`, `BridgeLifecycle`, `TurnStream`, `PwaWorkspaces` | each EXTENDS its module and `TLAPS`; `TurnStream_proofs`, the two ends of a stream, also EXTENDS `PwaThreadView`, hence the names `View...` there |
| `MC...` | constants of the runs | each EXTENDS what it runs |

How the models map to the code:

- **An action is a handler up to its await**, or the continuation of one. Where code
  awaits, the model has a stage, and everything else may happen there. A call the code
  rejects before changing anything is a disabled action.
- **`BridgeStore`** needs no stages: every operation is synchronous. Its record fields
  are one function per field over `Turn`; a response is the number of chunks appended;
  `events` is the sequence of envelopes emitted for a turn.
- **`AppServerStore`**: `ReceiveResponse` only puts a response in `ready`, and the
  continuation is a later step, so that frames of the same socket read come in
  between. A client's call is accepted only when `ready` is empty, as promise jobs run
  before the next request. The app-server is external: it starts, ends and
  interrupts turns and asks for approvals, over two ordered channels.
- **`AppServerClient`**: a socket is a state machine of its own, which goes on after
  the client has given it up. `overdue` records that a handshake or a close outlasted
  the time the client gives it; two properties are claimed only without that. After a refused or
  overdue handshake `connectSocket` sleeps once more before it gives up, and what is late
  may come in that time. Attempts it still makes against a process that has exited are
  left out: none can succeed, and `start` is over by then.
- **`HubRegistration`** counts time in ticks of just under 2 s. A request carries its
  age, because `lastHeartbeatAt` is the sender's clock. An exchange takes at most
  `MaxLatency` ticks; nothing in the code bounds it, so this is an assumption.
- **`ManagedHub`, `BridgeLifecycle`**: a call is the sequence of steps it has still to
  do, in one of two slots per window (the queue, a command). `blurred` remembers the
  windows whose calls overlapped, or that spawned while an exit was being looked into.
  Processes, ports and signals are external.
- **`PwaThreadView`**: a read takes its snapshot in one step (`DetailAnswered`) and
  applies it in another (`DetailReturns`); hub and bridge are external. A thread is
  selected by a click (`OpenThread`) or by the answer of `loadThreads` for the workspace
  that is selected already (`ThreadsReturn`), which clears nothing. One send and one steer
  are under way at a time, while the code lets a user who is quick enough start another;
  `StreamSurvivesLaggingRead` and its proof rest on that.
- **`TurnStart`**: a rung is a step: the app-server handles a request and the call goes
  on with the answer, so what others do falls between two rungs. The second request of
  a rung, without the sandbox field, is part of it. Error texts become the reason the
  code's classifiers find in them, and the code a client is told.
- **`TurnStream`**: a socket is a record of its two ends and the frames on their way;
  the promise jobs behind `sendInitialStreamState` are `MicrotasksFirst`, which holds
  back events of the store, because those are tasks of their own. An event is the
  version of the turn it leads to, so a gap is a number left out.
- **`PwaWorkspaces`**: each await of `loadBridges`, `loadThreads`,
  `refreshThreadsForSelectedBridge`, `refreshThreadDetail` and `sendMessage` is a
  request in a variable, answered or failing later. `crossed` remembers that an answer
  was applied to another workspace than it was asked for; a selection that such an
  answer left behind may also be the one stored by the last visit (`Stored`).

## 3. Runs

| Run | Instance | What it shows |
|---|---|---|
| `store` | 2 threads, 2 turns, 2 chunks, 2 steers | locks, consent, no stuck turn, transcript, the end of running turns, refinement of `ApprovalGate` |
| `appserver` | 2 turns, 2 approvals, 2 calls, by symmetry | one answer per approval, convergence of records, the pointer |
| `plan_only` | 1 call | *violation* of `PlanOnlyAsksUser` |
| `app_server_client` | 2 URLs, 4 sockets, 2 requests | requests and starts settle, failure leaves nothing, the process is reaped |
| `turn_start` | 2 calls, 2 threads, 2 unloads, by symmetry | at most one turn per message, in its own thread; one unload is no failure |
| `turn_stream` | 1 stream, 1 request, 2 events, 1 break | refinement of `TurnFeed`; an open stream catches up; both ends close; stop ends |
| `hub_registration` | TTL 8, interval 2, latency 2, 2 starts, 2 faults | recovery, single attempts, accuracy of the list |
| `bridge_lifecycle` | 2 windows, 2 calls, 1 fault | one hub for all, none left behind, parts follow the lifecycle, calls end |
| `pwa_thread_view` | 2 threads, 1 turn, no fault, by symmetry | no answer shows a thread that was left, and a detail left there is read away; streams survive stale reads |
| `pwa_thread_view_live` | 1 thread, 1 turn, 1 fault, fair | buttons settle, a lost stream comes back |
| `pwa_stop_button` | 2 threads, 1 turn | *violation* of `StopMeansSelectedThread` |
| `pwa_workspaces` | 2 workspaces, 3 threads, 3 events | the selection belongs to its workspace, lists are repaired, loading ends |

Every property of a passing run has a mutant: a definition of the code changed as a
bug would change it, under which TLC finds the property violated.

**Bounds.** What is bounded is the number of calls, turns, faults, steers, sockets and
starts; each bound is a constant that stands in a guard. Two turns are what it takes for
an old turn to disturb a newer one, and three to have a third start beside a live one; two
threads for one thread to be shown as another; two sockets for a late one to meet its
successor, four for both URLs and two retries; two approvals for one to be decided while
the turn waits for the other; two starts of a bridge for the messages of the first to meet
the second; two windows to race; two events for an order to go wrong, two unloads for the
second retry to meet one; three events of `pwa_workspaces` for a click or a bridge that
leaves, a second one, and a failing answer. Its stored selections are none, a thread that
is there, one that is gone, one of another workspace and a draft; the proofs are about
any. Streams do not meet one another in the code, so one is explored, with a request
beside it that stop has to wait for. `hub_registration` has the TTL at its tight value, 2
· interval + 2 · latency: with one tick less, `Recovers` fails. `pwa_thread_view_live` has
one thread, one turn and no call of `loadThreads`, so what it says of the buttons and of
reconnection is not checked across a switch of threads; `pwa_thread_view` has the
switches, and no liveness. Ids are chosen by the app-server or `newId`, hence by `\E`. The
lifecycle was also explored with three calls and no fault, without a violation.
`CHECK_DEADLOCK FALSE` stands where the bounds, or the program, end an execution.

**Fairness.** Weak fairness of timers that are set (`setTimeout`, `setInterval`), of
continuations whose promise is resolved, and of frames that wait in a socket: the event
loop gets to each. Beyond that, each fair specification names what it asks of others: the
app-server answers requests, `initialize` among them (`AppServerClient`; its
`ClientFairSpec` does not, and a start then need not end); exchanges end and someone
restarts a hub that is down (`HubRegistration`); reads are answered (`PwaThreadView`),
where the expiry of an observation after 90 s is strongly fair, as a list read may
postpone it; reads and calls are answered or fail and the poll timer fires
(`PwaWorkspaces`); the app-server answers the requests under way (`TurnStream`); SIGKILL
works and a store or server that starts comes up or fails (`BridgeLifecycle`). Users, and
faults, are never fair.

## 4. Where code and documentation differ

Two have a run whose counterexample shows them; `PROJECT.json` quotes the text:

1. Frames handled before the continuation of `startTurn` create the record of a
   plan-only turn as full-access; its approval is given by the bridge (`plan_only`).
2. Leaving a running thread shows Stop and Steer in the next one until its detail
   arrives, and they act on the turn left behind (`pwa_stop_button`).

Others are definitions of the modules that no run keeps; adding one to the cfg named
gives the counterexample:

3. Denying the approval left over from an interrupted turn finishes that turn again
   and frees the lock of a newer one: a third turn starts beside it
   (`OneActiveTurnPerThread` in `MCBridgeStore.cfg` with `Turn <- MCTurn3`).
4. The continuation of a retried interrupt removes the pointer to a newer turn
   (`InterruptIsSafeToRetry` in `MCAppServerStore.cfg`). `PointerKept` says that only a
   caller whose own turn is over by then does such a thing.
5. `package.json` of the extension says the startup timeout is for starting *and
   initializing* the app-server; it does not cover `initialize`, and a start waits for
   a silent app-server for ever (`CallsSettle` under `ClientFairSpec`).
6. `docs/TROUBLESHOOTING.md` says a stale thread id forces a new thread; `startTurn`
   answers NOT_FOUND (`StaleIdGetsNewThread` in `MCTurnStart.cfg`). A comment of
   `startTurn` says so too: "Do not silently switch thread IDs".
7. `loadThreads` clears the chat "so workspace switches never display stale chat", but
   when `loadBridges` replaces a workspace that has left the hub, the chat of the old
   one stays under the new one until its list comes (`NoStaleChat` in
   `MCPwaWorkspaces.cfg`).
8. `resetActiveThreadView` is there "to avoid displaying stale timeline content" when the
   thread is switched, but it is not called when the answer of `loadThreads` (a click on the
   workspace that is selected, or Connect) selects the thread: `selectedThreadId` is set
   (`app.js:635`) before `openThread` compares it. The timeline of a thread opened
   meanwhile stays under the other one until that is read; a stream of it that is lost is not
   opened again meanwhile (`DetailIsSelected`, as an invariant in `MCPwaThreadView.cfg`).

What the models show besides, of which no text of the repository says otherwise:

- A registration in flight when a bridge restarts may reach the hub last, and no
  heartbeat corrects the port.
- Overlapping starts of one window (the queue and *Start Hub*) leave a hub no window
  stops.
- A draft whose `thread/start` succeeded and whose turn is refused as busy leaves an
  empty thread; a lost answer, or a thread id that cannot be found, tells the client of
  a failure while the turn runs.
- The answer of `loadThreads` puts back the thread that was selected when it was asked,
  and undoes a click in between (and shows its timeline for a while, see 8).
- A list of threads stored under another workspace stays there, also through changes of
  workspace, until that workspace is polled again; its threads can be clicked.
- A read of the detail practically never opens a stream: `updateThinkingState` sets
  `selectedTurnId` before `app.js:811` compares it. A turn started elsewhere is followed
  by polling.
- `BridgeServer.stop` waits for requests the app-server has not answered, which only
  the later `store.dispose` would reject.

## 5. Proofs

TLAPS proves these for all values of the constants that satisfy the module's ASSUME.
Each module states an inductive invariant `IInv` (or `Inv`), shows that Init implies
it, that every action preserves it, in one lemma per action, and that it implies the
properties. TLC checked each invariant it can evaluate on the instance of the run first.

| Module | Theorems |
|---|---|
| `BridgeStore_proofs` | `TypeCorrect`, `LocksAgree`, `ConsentFirst`, `NeverStuck`, `OneActive`, `CompletedStays` (`CompletedIsFinal`), `TranscriptTells` (`TranscriptMatchesOutcome`), `StoreImplementsGate` (refinement of `ApprovalGate`) |
| `AppServerStore_proofs` | `TypeCorrect` (`TypeOK`), `NoApprovalLost` (`ApprovalStaysDecidable`), `AnsweredAsRecorded` (`AnswerMatchesRecord`), `RecordsAreFinal` (`RecordsCatchUp`), `PointerStays` (`PointerKept`), `ReadRepairs` (`ReadRepairsPointer`) |
| `TurnStart_proofs` | `TypeCorrect`, `OneTurn` (`OneTurnPerCall`), `InThread` (`StaysInThread`), `UnloadedOnce` (`UnloadedOnceIsNoFailure`) |
| `AppServerClient_proofs` | `TypeCorrect`, `NoOrphan` (`NoOrphanRequest`), `Session` (`TalksToItsSession`) |
| `HubRegistration_proofs` | `TypeCorrect`, `OneAttempt` (`OneAttemptAtATime`), `ListedIsAlive` (`ListedMeansRecentlyAlive`), `NeverFalselyOffline` (`NoFalseOffline`) |
| `BridgeLifecycle_proofs` | `TypeCorrect`, `PartsHold` (`PartsFollowLifecycle`), `NoneLeftBehind` (`NoHubLeftBehind`), `HubIsShared` (`OneHubForAll`) |
| `TurnStream_proofs` | `TypeCorrect`, `Subscribers` (`SubscribersAreOpen`), `Implements` (`ImplementsFeed`, refinement of `TurnFeed`); of `PwaThreadView`: `ViewTypeCorrect`, `ForeignDetailRead` (`ForeignDetailIsRead`), `LaggingReadSpares` (`StreamSurvivesLaggingRead`) |
| `PwaWorkspaces_proofs` | `TypeCorrect`, `SelectionStays` (`SelectionBelongs`) |

**`BridgeStore`.** The invariant is

    IInv == TypeOK /\ LockAgreement /\ RecordsAgree /\ OneActiveUnlessFinishedTwice

None of the properties is inductive alone. `RecordsAgree` says of each turn how its
status, approval, timer, text, mode and envelopes go together: that a waiting turn has
a pending approval in the map and no output, that a running one was approved and has
its timer unless the store is disposed, that a completed one has all its chunks. It is
preserved turn by turn: lemma `OnlyThatTurn` reduces a step to the turn it is about.
The lock lemmas need to know that the turn a lock names is live, and the proof of
`OneActive` that whoever ends twice has two closing envelopes, for ever
(`ClosedTwiceForever`, `ClosedAgain`). The refinement maps a status to the phase of
`ApprovalGate` and shows that every action is a step of it or a stutter
(`StepsThroughGate`). `TranscriptTells` needs `Transcripts` besides: a thread's transcript
has the prompt of every turn started in it, and after the prompt one response of each
turn that completed; otherwise a turn that ends now could lack the prompt its response
is to follow.

**`AppServerStore`.** Two invariants, each about what is on its way. `AskedOnce` and
`AnsweredOnce` follow an approval through both channels: it is asked for by at most one
frame and is new to the store until that frame is handled; once decided it is
answered by exactly one message, sent or already taken. `KnownInterrupts` lets the
continuation of an interrupt write to a record that exists. `RecordsFollow` is why
records converge: the frame that ends a turn is behind every other frame about it
(`EndsLast`), and once it is handled no frame and no response still under way can make
a record of the turn that is older than its end (`Over`), although a read answered
earlier may still be waiting for its continuation. `RecordsCatchUp` is the case of it
where nothing is left to handle.

`Pointers` is the third, about `activeTurnByThread`. What the app-server says of the
turns of a thread comes turn by turn (`InOrder`): when a frame tells that one starts or
ends, every other turn of the thread is over as far as the store will have heard by
then (`Past`), or neither the store nor the frames up to that one know of it
(`Unheard`). So a frame that moves a pointer takes it from a turn that is over, unless
the continuation of a caller has moved it before. `OthersOver` does the same for callers
that resume: while the record of a turn is active, any other turn of its thread they can
name has ended. `InPlace` adds that no response and no pointer names a turn of another
thread. The proofs of `RecordsCatchUp` and
`ReadRepairsPointer` use nothing of the callers that have still to resume; both
properties once asked that there are none and no longer do.

**`TurnStart`.** What makes a repeated `turn/start` harmless is the rung it is sent
from: `OnLadder` says that before the last rungs nothing has run for the message, and
which thread each rung asks about; `Outcome` what is left once the call has ended;
`Unloads` ties the number of unloads to the rung, which is what the retry argument of
the comments in `startTurn` amounts to. `RungStep` reduces every rung to its own call.

**`AppServerClient`.** `Fresh` says that sockets are made in order, `LetGo` what a
start that failed has given up, `InTime` that without a late handshake or close one
socket lives at a time, the last one made, and what it is in each phase.
`TalksToItsSession` follows from `InTime`; with something late there may be two
sockets, and only `NoOrphanRequest` is claimed.

**`HubRegistration`.** `Silent` says that messages, and what the hub took from them,
are at least as old as the bridge's silence. `NeverFalselyOffline` needs the timing
condition `HeartbeatEvery + 2 * MaxLatency <= Ttl` and is proved under it; it bounds
the age of what the hub has by the age of the last exchange that counted. The
defaults of the code (5 s, 15 s) leave 5 s for an exchange.

**`TurnStream`.** The frames waiting in `down`, followed by those in `up`, form one
chain: `Steps` says that versions in a queue grow by one until an end, `Front` that
the first continues what the browser shows, `Tip` what the last leads to. The
invariant has the chain (`Served`), how the states of the four ends of a stream go
together (`Wired`), and that no frame is ahead of the turn (`Real`). With them each
step of the model is one of `TurnFeed` or a stutter.

**`BridgeLifecycle`** with `ManagedHub`, whose only assumption is a window.
`Lifecycle` says of each call that what it has left to do is in the order of the code
(`After`, `Last`), that it waits only for what its next step began, and which parts the
steps done so far have set (`PartsSet`); `PartsFollowLifecycle` is the case of nothing
left to do. `Named` ties processes to their windows. `Alone` holds of a window whose
calls never overlapped: it has at most the process it knows, or one a call waits for to
exit, and its mode says so; `blurred` is needed, since two calls of one window may each
spawn a hub. `HubShared` has that one process at most serves the address (`OneServes`)
and that, while nothing failed or was stopped, a hub once seen serves still; this is what
lets a later window take the answer of its probe for the hub.

**`PwaThreadView`** (in `TurnStream_proofs`). `ForeignDetailIsRead` needs little more than
the types: that a detail is shown only while a thread is selected (`SomeSelected`). The
comparison with the selection when a read returns keeps answers about other threads out;
whatever changes the selection also reads, or queues a read (`Rereads`), and the end of a
read begins the one that is queued. `StreamSurvivesLaggingRead` needs

    LagInv == Typed /\ Facts /\ NotForgotten

A read that was answered before a turn began shows no running turn, so what keeps the
stream of that turn open is `observed`, the turn the page remembers for the thread
(`Reconciled`, `FindActiveTurn`). `NotForgotten` says that while such a read is on its
way and the stream is opened, closing or to be opened again, the turn is remembered and
nothing else on its way makes the page forget it: a send in flight either has no answer
yet or is for a thread that is not shown, an older turn of the thread has only the
events of its end left to give, and the stream of another thread's turn brings no
`turn/started`. That last clause is there because `handleTurnEvent` puts the turn of
whatever stream is open into the detail shown, also when the page has gone to another
thread meanwhile; `Strangers` bounds what such an event can do. The other `Facts` tie
the page to the bridge: what it has heard of exists (`HeardOf`), what it was told has
happened (`Happened`), an answer is about the thread that was asked about (`Answers`),
and a thread has one live turn (`OneAlive`). What a step changes of each variable is
stated once (`SendingChanges`, `ReadChanges`, `ObservedChanges`, `QueueChanges`...), and
the parts are proved from that. `Max` of a set of turns is one of them because < on Nat
is well-founded (`Greatest`).

**`PwaWorkspaces`.** `Preferred` says that the call of `loadThreads` whose answer will
count was made for the selected workspace and would put back a thread of it; this is
what the request counter of the code is for. `Counted` ties the calls to that counter.
The proof asked for one clause the run with three events had not: a list stored under
the wrong workspace may outlive two changes of workspace, so a click on one of its
threads is one of the named races.

**Only model-checked**: the liveness properties, which rest on fairness and ENABLED, and
the proof system does not handle those. Every other property of a passing run has a
theorem. Where a module has a theorem of its types (`TypeCorrect`, `ViewTypeCorrect`), its
runs do not repeat the type invariant, except that of `AppServerStore`.

## 6. Not modelled

- Texts, plans, diffs and their formatting; logging, status bar, configuration
  parsing; discovery of app-servers (a pure parser of command output).
- In `AppServerStore`: steers, and approvals sent as notifications. The record of a
  turn against its notifications (`AppServerStore`) and the ladder that starts it
  (`TurnStart`) are two modules, which meet in the turn id the ladder ends with.
- In `BridgeServer` and the hub: routes, reading of bodies, tokens, CORS, the rate
  limit, static files.
- Approval cards, settings, dictation and rendering of the PWA; the Electron app;
  build scripts.

## 7. What is left

In order of what matters: a composition of `PwaThreadView` with `PwaWorkspaces`, which
share the selection and the reading of a thread; approvals and steers of the PWA.
