-------------------------- MODULE AppServerClient ---------------------------
(***************************************************************************)
(* The connection of the bridge to the codex app-server, class             *)
(* AppServerClient of packages/bridge-vscode/src/appServerClient.ts: start *)
(* (attaching to the first of some URLs that answers, or spawning a        *)
(* process and connecting to it), requests, and stop. A client is started  *)
(* once and stopped once; every start of the bridge makes a new one.       *)
(*                                                                         *)
(* What makes it hard is that a WebSocket outlives the interest in it: a   *)
(* handshake that timed out may still succeed, a close that was not waited *)
(* for still happens, and their handlers act on the one field socket.      *)
(*                                                                         *)
(* A continuation runs right after the event that resolves its promise, so *)
(* each action is an event with all that follows from it. The app-server   *)
(* and the network are external. Frames other than responses are the       *)
(* subject of AppServerStore.                                              *)
(***************************************************************************)
EXTENDS Naturals

CONSTANTS
    MaxUrls,       \* URLs attach mode has to try: the configured, then the discovered
    MaxSockets,    \* bound: WebSockets that are made
    MaxRequests    \* bound: requests the store makes once the client runs

ASSUME AppServerClientAssumption ==
    /\ MaxUrls \in Nat \ {0}
    /\ MaxSockets \in Nat \ {0} /\ MaxUrls <= MaxSockets
    /\ MaxRequests \in Nat

VARIABLES
    attach,           \* config.mode = "attach", else "spawn"
    phase,            \* where start() or stop() stands
    url, tried,       \* the URL being tried, and how many sockets were made
    conn,             \* the WebSockets
    socket,           \* this.socket
    leaving,          \* the socket whose close is waited for
    session,          \* the socket initialize was answered on (for the properties)
    pendingRequests,  \* for each request the socket it was sent on, NoSocket if not pending
    nextRequestId,
    process,          \* the spawned process
    processRef,       \* this.process is set
    overdue           \* some handshake or close took longer than the client waits

vars == <<attach, phase, url, tried, conn, socket, leaving, session, pendingRequests,
          nextRequestId, process, processRef, overdue>>

requestVars == <<pendingRequests, nextRequestId>>
processVars == <<process, processRef>>

Socket     == 1..MaxSockets
NoSocket   == 0
Initialize == 0                  \* the request of initializeSession
RequestId  == 0..MaxRequests
NotPending == [r \in RequestId |-> NoSocket]

TypeOK ==
    /\ attach \in BOOLEAN
    /\ phase \in {"new", "connecting", "sleeping", "expired", "initializing", "closing", "reaping",
                  "running", "failed", "stopping", "stopped"}
    /\ url \in 1..MaxUrls
    /\ tried \in 0..MaxSockets
    /\ conn \in [Socket -> {"unused", "connecting", "open", "closing", "closed"}]
    /\ {socket, leaving, session} \subseteq Socket \cup {NoSocket}
    /\ pendingRequests \in [RequestId -> Socket \cup {NoSocket}]
    /\ nextRequestId \in 1..(MaxRequests + 1)
    /\ process \in {"none", "alive", "terminating", "killed", "exited"}
    /\ processRef \in BOOLEAN
    /\ overdue \in BOOLEAN

Init ==
    /\ attach \in BOOLEAN
    /\ phase = "new"
    /\ url = 1
    /\ tried = 0
    /\ conn = [s \in Socket |-> "unused"]
    /\ socket = NoSocket
    /\ leaving = NoSocket
    /\ session = NoSocket
    /\ pendingRequests = NotPending
    /\ nextRequestId = 1
    /\ process = "none"
    /\ processRef = FALSE
    /\ overdue = FALSE

-----------------------------------------------------------------------------
\* How an attempt goes on; cs is what conn has become by then

\* connectSocketOnce up to its await.
Attempt(cs) ==
    /\ tried' = tried + 1
    /\ conn' = [cs EXCEPT ![tried + 1] = "connecting"]
    /\ phase' = "connecting"

\* The next URL, or the end of start(); spawn mode stops the process first.
NextUrl(cs) ==
    IF attach /\ url < MaxUrls /\ tried < MaxSockets
    THEN url' = url + 1 /\ Attempt(cs) /\ UNCHANGED processVars
    ELSE /\ conn' = cs
         /\ phase' = IF processRef THEN "reaping" ELSE "failed"
         /\ processRef' = FALSE
         /\ process' = IF process = "alive" THEN "terminating" ELSE process
         /\ UNCHANGED <<url, tried>>

GiveUpWithoutClosing(cs, current) ==
    /\ socket' = current
    /\ NextUrl(cs)
    /\ UNCHANGED leaving
\* closeSocketOnly up to its await.
CloseFirst(cs, current) ==
    /\ socket' = NoSocket
    /\ leaving' = current
    /\ conn' = [cs EXCEPT ![current] = "closing"]
    /\ phase' = "closing"
    /\ UNCHANGED <<url, tried, processRef>>
\* The catch of tryAttachUrl and startSpawnMode: closeSocketOnly comes first,
\* which looks at this.socket (current) only.
GiveUp(cs, current) ==
    IF current = NoSocket
    THEN socket' = NoSocket /\ NextUrl(cs) /\ UNCHANGED leaving
    ELSE CloseFirst(cs, current) /\ UNCHANGED process

ServerUp == attach \/ process \in {"alive", "terminating"}

-----------------------------------------------------------------------------
\* start()

Start ==
    /\ phase = "new"
    /\ Attempt(conn)
    /\ process' = IF attach THEN "none" ELSE "alive"
    /\ processRef' = ~attach
    /\ UNCHANGED <<attach, url, socket, leaving, session, requestVars, overdue>>

Awaited(s) == phase = "connecting" /\ s = tried

\* A handshake ends well: also one nobody waits for any more sets this.socket.
SocketOpens(s) ==
    /\ conn[s] = "connecting"
    /\ ServerUp
    /\ conn' = [conn EXCEPT ![s] = "open"]
    /\ socket' = s
    /\ IF Awaited(s)
       THEN /\ phase' = "initializing"
            /\ pendingRequests' = [pendingRequests EXCEPT ![Initialize] = s]
       ELSE UNCHANGED <<phase, pendingRequests>>
    /\ UNCHANGED <<attach, url, tried, leaving, session, nextRequestId, processVars, overdue>>

\* Refused: connectSocket sleeps before it looks at its deadline.
ConnectFails(s) ==
    /\ conn[s] = "connecting"
    /\ conn' = [conn EXCEPT ![s] = "closed"]
    /\ phase' = IF Awaited(s) THEN "sleeping" ELSE phase
    /\ UNCHANGED <<attach, url, tried, socket, leaving, session, requestVars, processVars, overdue>>

ConnectAgain ==
    /\ phase = "sleeping"
    /\ tried < MaxSockets
    /\ Attempt(conn)
    /\ UNCHANGED <<attach, url, socket, leaving, session, requestVars, processVars, overdue>>

NoConnectTimer == FALSE
\* The promise is rejected at the deadline; the WebSocket is left as it is.
ConnectTimesOut ==
    /\ phase = "connecting"
    /\ phase' = "expired"
    /\ overdue' = TRUE
    /\ UNCHANGED <<attach, url, tried, conn, socket, leaving, session, requestVars, processVars>>

\* The sleep after the last attempt is over; a late handshake may have come meanwhile.
ConnectGivesUp ==
    /\ phase \in {"sleeping", "expired"}
    /\ GiveUp(conn, socket)
    /\ UNCHANGED <<attach, session, requestVars, overdue>>

\* After the response the client notifies "initialized" on this.socket.
InitializeAnswered ==
    LET s == pendingRequests[Initialize] IN
    /\ phase = "initializing"
    /\ conn[s] = "open" /\ ServerUp
    /\ pendingRequests' = [pendingRequests EXCEPT ![Initialize] = NoSocket]
    /\ IF socket # NoSocket /\ conn[socket] = "open"
       THEN /\ phase' = "running"
            /\ session' = s
            /\ UNCHANGED <<conn, socket, leaving, url, tried, processVars>>
       ELSE GiveUp(conn, socket) /\ UNCHANGED session
    /\ UNCHANGED <<attach, nextRequestId, overdue>>

InitializeRefused ==
    /\ phase = "initializing"
    /\ conn[pendingRequests[Initialize]] = "open" /\ ServerUp
    /\ pendingRequests' = [pendingRequests EXCEPT ![Initialize] = NoSocket]
    /\ GiveUp(conn, socket)
    /\ UNCHANGED <<attach, session, nextRequestId, overdue>>

\* closeSocketOnly waits for one second only.
CloseTimesOut ==
    /\ phase = "closing"
    /\ overdue' = TRUE
    /\ pendingRequests' = NotPending
    /\ NextUrl(conn)
    /\ UNCHANGED <<attach, socket, leaving, session, nextRequestId>>

NeverKilled == UNCHANGED process
\* stopProcessOnly's timer: SIGKILL for the process that did not heed SIGTERM.
KilledIfAlive == process' = IF process = "terminating" THEN "killed" ELSE process

\* stopProcessOnly: the process has exited, or its timer kills it.
Reaped ==
    /\ phase = "reaping"
    /\ phase' = "failed"
    /\ KilledIfAlive
    /\ UNCHANGED <<attach, url, tried, conn, socket, leaving, session, requestVars,
                   processRef, overdue>>

-----------------------------------------------------------------------------
\* The close of a socket, and the end of the process

RejectNone == UNCHANGED pendingRequests
RejectAllPending == pendingRequests' = NotPending

\* Whichever socket it was, this.socket is dropped and every request rejected.
SocketCloses(s) ==
    /\ conn[s] \in {"open", "closing"}
    /\ RejectAllPending
    /\ LET cs == [conn EXCEPT ![s] = "closed"] IN
       IF phase = "initializing" THEN GiveUp(cs, NoSocket)
       ELSE IF phase = "closing" /\ s = leaving
       THEN socket' = NoSocket /\ NextUrl(cs) /\ UNCHANGED leaving
       ELSE /\ conn' = cs
            /\ socket' = NoSocket
            /\ UNCHANGED <<phase, leaving, url, tried, processVars>>
    /\ UNCHANGED <<attach, session, nextRequestId, overdue>>

\* Before the session the exit ends start(). connectSocket goes on until its deadline, unwatched:
\* no attempt of it can succeed without the process, and those it still makes are left out.
ProcessExits ==
    /\ process \in {"alive", "terminating", "killed"}
    /\ process' = "exited"
    /\ IF phase \notin {"connecting", "sleeping", "expired"}
       THEN UNCHANGED <<phase, url, tried, conn, socket, leaving, processRef>>
       ELSE IF socket # NoSocket THEN CloseFirst(conn, socket)
       ELSE /\ phase' = "reaping"
            /\ processRef' = FALSE
            /\ UNCHANGED <<url, tried, conn, socket, leaving>>
    /\ UNCHANGED <<attach, session, requestVars, overdue>>

-----------------------------------------------------------------------------
\* Requests of the store, and stop()

Request ==
    /\ phase = "running"
    /\ socket # NoSocket /\ conn[socket] = "open"
    /\ nextRequestId <= MaxRequests
    /\ pendingRequests' = [pendingRequests EXCEPT ![nextRequestId] = socket]
    /\ nextRequestId' = nextRequestId + 1
    /\ UNCHANGED <<attach, phase, url, tried, conn, socket, leaving, session, processVars, overdue>>

Response(r) ==
    /\ r # Initialize
    /\ pendingRequests[r] # NoSocket
    /\ conn[pendingRequests[r]] = "open" /\ ServerUp
    /\ pendingRequests' = [pendingRequests EXCEPT ![r] = NoSocket]
    /\ UNCHANGED <<attach, phase, url, tried, conn, socket, leaving, session, nextRequestId,
                   processVars, overdue>>

Stop ==
    /\ phase \in {"running", "failed"}
    /\ phase' = "stopping"
    /\ socket' = NoSocket
    /\ leaving' = socket
    /\ conn' = [s \in Socket |-> IF s = socket /\ conn[s] = "open" THEN "closing" ELSE conn[s]]
    /\ RejectAllPending
    /\ processRef' = FALSE
    /\ process' = IF processRef /\ process = "alive" THEN "terminating" ELSE process
    /\ UNCHANGED <<attach, url, tried, session, nextRequestId, overdue>>

\* Each wait ends with its event or its timer, and the process's timer kills.
Stopped ==
    /\ phase = "stopping"
    /\ phase' = "stopped"
    /\ overdue' = (overdue \/ (leaving # NoSocket /\ conn[leaving] = "closing"))
    /\ KilledIfAlive
    /\ UNCHANGED <<attach, url, tried, conn, socket, leaving, session, requestVars, processRef>>

-----------------------------------------------------------------------------
ClientSteps ==
    ConnectTimesOut \/ ConnectAgain \/ ConnectGivesUp \/ CloseTimesOut \/ Reaped \/ Stopped

Next ==
    \/ Start \/ ClientSteps
    \/ \E s \in Socket : SocketOpens(s) \/ ConnectFails(s) \/ SocketCloses(s)
    \/ InitializeAnswered \/ InitializeRefused
    \/ ProcessExits
    \/ Request \/ Stop
    \/ \E r \in RequestId : Response(r)

Spec == Init /\ [][Next]_vars

\* What the client itself guarantees: its timers fire; closes it asked for and
\* kills happen.
ClientFairSpec ==
    /\ Spec
    /\ WF_vars(ClientSteps)
    /\ \A s \in Socket : WF_vars(conn[s] = "closing" /\ SocketCloses(s))
    /\ WF_vars(process = "killed" /\ ProcessExits)

\* And what is hoped of the app-server: it answers what it is asked, and the
\* sockets of a process that is gone close.
FairSpec ==
    /\ ClientFairSpec
    /\ WF_vars(InitializeAnswered \/ InitializeRefused)
    /\ \A r \in RequestId : WF_vars(Response(r))
    /\ \A s \in Socket : WF_vars(~ServerUp /\ SocketCloses(s))

-----------------------------------------------------------------------------
(***************************************************************************)
(* Properties                                                              *)
(***************************************************************************)

\* No request waits on a socket that is gone: whatever closes, and whatever
\* start and stop give up, the callers are told (rejectAllPending).
NoOrphanRequest ==
    \A r \in RequestId :
        pendingRequests[r] # NoSocket => conn[pendingRequests[r]] \in {"open", "closing"}

\* As long as no handshake and no close outlasts the time the client gives it,
\* the client that runs talks to the app-server it initialized, and knows when
\* that socket is gone; a socket start has given up never comes into it. And a start
\* that failed leaves no connection open and no field set for the next one to find.
TalksToItsSession ==
    ~overdue =>
        /\ phase = "running" =>
              IF conn[session] = "open" THEN socket = session ELSE socket = NoSocket
        /\ phase \in {"failed", "stopped"} =>
              /\ socket = NoSocket /\ ~processRef
              /\ \A s \in Socket : conn[s] # "open"

\* The spawned process is gone in the end once start has failed or stop was
\* called, even when it ignores the first signal (buildProcessClosePromises).
ProcessReaped == phase \in {"failed", "stopping"} ~> process \in {"none", "exited"}

Ended == phase \in {"running", "failed", "stopping", "stopped"}

\* Whoever waits for the client is told in the end, if the app-server answers what
\* reaches it: start() comes to an end, well or not, and a request of the store is
\* settled, by its response or by a rejection.
StartEnds == phase # "new" ~> Ended
CallsSettle ==
    /\ StartEnds
    /\ \A r \in RequestId : pendingRequests[r] # NoSocket ~> pendingRequests[r] = NoSocket

=============================================================================
