----------------------- MODULE AppServerClient_proofs -----------------------
(***************************************************************************)
(* Theorems about AppServerClient for any number of URLs, of sockets and   *)
(* of requests.                                                            *)
(***************************************************************************)
EXTENDS AppServerClient, TLAPS

-----------------------------------------------------------------------------
(* The invariant.                                                          *)

Live(s) == conn[s] \in {"connecting", "open", "closing"}

\* Sockets are made one after the other, and an attempt begins while one is left.
Fresh ==
    /\ \A s \in Socket : s > tried <=> conn[s] = "unused"
    /\ socket <= tried
    /\ phase = "new" => tried = 0

\* What start and stop let go of stays let go of.
LetGo ==
    /\ phase \in {"reaping", "failed", "stopping", "stopped"} => ~processRef
    /\ phase = "initializing" => pendingRequests[Initialize] # NoSocket
    /\ attach => process = "none"

\* In time, there is one socket at a time, the last one that was made, and the phase
\* says what it is; one that still connects when the process has exited stays closed.
InTime ==
    ~overdue =>
        /\ \A s \in Socket : Live(s) => s = tried
        /\ phase \notin {"initializing", "running"} => socket = NoSocket
        /\ phase = "initializing" => \E s \in Socket : s = tried /\ socket = s /\ conn[s] = "open"
        /\ phase = "running" =>
              \E s \in Socket : /\ s = tried /\ session = s
                                /\ \/ conn[s] = "open" /\ socket = s
                                   \/ conn[s] = "closed" /\ socket = NoSocket
        /\ phase = "closing" => \E s \in Socket : s = tried /\ leaving = s /\ conn[s] = "closing"
        /\ phase = "sleeping" => \A s \in Socket : ~Live(s)
        /\ phase # "expired"
        /\ phase \in {"reaping", "failed", "stopping", "stopped"} =>
              \A s \in Socket : conn[s] = "connecting" => ~attach /\ process = "exited"
        /\ phase \in {"connecting", "reaping", "failed", "stopped"} => \A s \in Socket : conn[s] \notin {"open", "closing"}
        /\ phase = "stopping" => \A s \in Socket : conn[s] # "open" /\ (conn[s] = "closing" => leaving = s)

Inv == TypeOK /\ NoOrphanRequest /\ Fresh /\ LetGo /\ InTime

States == {"unused", "connecting", "open", "closing", "closed"}

-----------------------------------------------------------------------------
(* How an attempt ends.                                                    *)

\* Either another one begins or start() is over; cs is what conn has become.
LEMMA NextUrlInv ==
    ASSUME Inv, NEW cs \in [Socket -> States], NextUrl(cs),
           phase \in {"connecting", "sleeping", "expired", "initializing", "closing"},
           UNCHANGED <<attach, session, nextRequestId>>, overdue' \in BOOLEAN,
           socket' \in {socket, NoSocket}, leaving' \in Socket \cup {NoSocket},
           pendingRequests' \in [RequestId -> Socket \cup {NoSocket}],
           \A r \in RequestId : pendingRequests'[r] # NoSocket => cs[pendingRequests'[r]] \in {"open", "closing"},
           \A s \in Socket : s > tried <=> cs[s] = "unused",
           overdue' \/ (socket' = NoSocket /\ \A s \in Socket : cs[s] \in {"unused", "closed"})
    PROVE  Inv'
<1>0. TypeOK /\ socket <= tried /\ MaxSockets \in Nat /\ MaxUrls \in Nat
  BY AppServerClientAssumption DEF Inv, Fresh
<1>1. CASE attach /\ url < MaxUrls /\ tried < MaxSockets
  <2>1. /\ url' = url + 1 /\ tried' = tried + 1 /\ phase' = "connecting"
        /\ conn' = [cs EXCEPT ![tried + 1] = "connecting"]
        /\ process' = process /\ processRef' = processRef
    BY <1>1 DEF NextUrl, Attempt, processVars
  <2>2. /\ tried \in Nat /\ tried + 1 \in Socket /\ cs[tried + 1] = "unused"
        /\ conn'[tried + 1] = "connecting"
        /\ \A s \in Socket : s # tried + 1 => conn'[s] = cs[s]
    BY <1>0, <1>1, <2>1 DEF TypeOK, Socket
  <2>3. TypeOK'
    BY <1>0, <1>1, <2>1, <2>2 DEF TypeOK, States, Socket, NoSocket
  <2>4. NoOrphanRequest'
    BY <2>2 DEF NoOrphanRequest
  <2>5. Fresh'
    <3>1. socket' <= tried'
      BY <1>0, <2>1 DEF TypeOK, NoSocket, Socket
    <3>2. ASSUME NEW s \in Socket PROVE s > tried' <=> conn'[s] = "unused"
      BY <2>1, <2>2 DEF Socket
    <3> QED
      BY <2>1, <3>1, <3>2 DEF Fresh
  <2>6. LetGo'
    BY <2>1 DEF Inv, LetGo
  <2>7. InTime'
    <3> SUFFICES ASSUME ~overdue' PROVE InTime'
      BY DEF InTime
    <3>1. socket' = NoSocket /\ \A s \in Socket : cs[s] \in {"unused", "closed"}
      OBVIOUS
    <3>2. \A s \in Socket : conn'[s] \in {"connecting", "open", "closing"} => s = tried'
      BY <2>1, <2>2, <3>1
    <3>3. (\A s \in Socket : Live(s) => s = tried)'
      BY <3>2 DEF Live
    <3> QED
      BY <2>1, <3>1, <3>3 DEF InTime
  <2> QED
    BY <2>3, <2>4, <2>5, <2>6, <2>7 DEF Inv
<1>2. CASE ~(attach /\ url < MaxUrls /\ tried < MaxSockets)
  <2>1. /\ conn' = cs /\ phase' \in {"reaping", "failed"} /\ processRef' = FALSE
        /\ process' \in {"terminating", process} /\ (process = "none" => process' = "none")
        /\ UNCHANGED <<url, tried>>
    BY <1>2 DEF NextUrl
  <2>2. TypeOK'
    <3>1. attach' \in BOOLEAN /\ processRef' \in BOOLEAN /\ overdue' \in BOOLEAN
      BY <1>0, <2>1, Zenon DEF TypeOK
    <3>2. conn' \in [Socket -> {"unused", "connecting", "open", "closing", "closed"}]
      BY <2>1, Zenon DEF States
    <3>3. {socket', leaving', session'} \subseteq Socket \cup {NoSocket}
      BY <1>0 DEF TypeOK
    <3>4. /\ phase' \in {"reaping", "failed"} /\ process' \in {"terminating", process}
          /\ UNCHANGED <<url, tried, nextRequestId>>
      BY <2>1
    <3> QED
      BY <1>0, <3>1, <3>2, <3>3, <3>4 DEF TypeOK
  <2>3. NoOrphanRequest' /\ LetGo'
    BY <2>1 DEF Inv, NoOrphanRequest, LetGo
  <2>4. Fresh'
    BY <1>0, <2>1 DEF Fresh, TypeOK, NoSocket, Socket
  <2>5. InTime'
    BY <2>1 DEF InTime, Live
  <2> QED
    BY <2>2, <2>3, <2>4, <2>5 DEF Inv
<1> QED
  BY <1>1, <1>2

\* The socket that is set is closed; the process may have exited meanwhile.
LEMMA CloseFirstInv ==
    ASSUME Inv, NEW cs \in [Socket -> States], NEW current \in {socket, NoSocket},
           current # NoSocket, CloseFirst(cs, current),
           process' \in {"none", "alive", "terminating", "killed", "exited"}, attach => process' = "none",
           UNCHANGED <<attach, session, nextRequestId>>, overdue' \in BOOLEAN,
           pendingRequests' \in [RequestId -> Socket \cup {NoSocket}],
           \A r \in RequestId : pendingRequests'[r] # NoSocket => cs[pendingRequests'[r]] \in {"open", "closing"},
           \A s \in Socket : s > tried <=> cs[s] = "unused",
           overdue' \/ (current = tried /\ \A s \in Socket : cs[s] \in {"unused", "closed"} \/ s = tried)
    PROVE  Inv'
<1>0. TypeOK /\ socket <= tried /\ MaxSockets \in Nat /\ tried \in Nat
  BY AppServerClientAssumption DEF Inv, Fresh, TypeOK
<1>1. /\ socket' = NoSocket /\ leaving' = current /\ conn' = [cs EXCEPT ![current] = "closing"]
      /\ phase' = "closing" /\ UNCHANGED <<url, tried, processRef>>
  BY DEF CloseFirst
<1>2. /\ current \in Socket /\ current <= tried /\ cs[current] # "unused" /\ conn'[current] = "closing"
      /\ \A s \in Socket : s # current => conn'[s] = cs[s]
  BY <1>0, <1>1 DEF TypeOK, Socket, NoSocket
<1>3. TypeOK'
  BY <1>0, <1>1, <1>2 DEF TypeOK, States
<1>4. NoOrphanRequest' /\ LetGo'
  BY <1>1, <1>2 DEF Inv, NoOrphanRequest, LetGo
<1>5. Fresh'
  BY <1>0, <1>1, <1>2 DEF Fresh, NoSocket
<1>6. InTime'
  BY <1>1, <1>2 DEF InTime, Live
<1> QED
  BY <1>3, <1>4, <1>5, <1>6 DEF Inv

\* An attempt is given up: the socket that is set is closed first.
LEMMA GiveUpInv ==
    ASSUME Inv, NEW cs \in [Socket -> States], NEW current \in {socket, NoSocket}, GiveUp(cs, current),
           phase \in {"connecting", "sleeping", "expired", "initializing", "closing"},
           UNCHANGED <<attach, session, nextRequestId>>, overdue' \in BOOLEAN,
           pendingRequests' \in [RequestId -> Socket \cup {NoSocket}],
           \A r \in RequestId : pendingRequests'[r] # NoSocket => cs[pendingRequests'[r]] \in {"open", "closing"},
           \A s \in Socket : s > tried <=> cs[s] = "unused",
           overdue' \/ IF current = NoSocket THEN \A s \in Socket : cs[s] \in {"unused", "closed"}
                       ELSE current = tried /\ \A s \in Socket : cs[s] \in {"unused", "closed"} \/ s = tried
    PROVE  Inv'
<1>0. TypeOK /\ socket <= tried /\ MaxSockets \in Nat /\ tried \in Nat
  BY AppServerClientAssumption DEF Inv, Fresh, TypeOK
<1>1. CASE current = NoSocket
  <2>1. socket' = NoSocket /\ NextUrl(cs) /\ leaving' = leaving
    BY <1>1 DEF GiveUp
  <2>2. leaving' \in Socket \cup {NoSocket} /\ socket' \in {socket, NoSocket}
    BY <1>0, <2>1 DEF TypeOK
  <2>3. overdue' \/ (socket' = NoSocket /\ \A s \in Socket : cs[s] \in {"unused", "closed"})
    BY <1>1, <2>1
  <2> QED
    BY <2>1, <2>2, <2>3, NextUrlInv
<1>2. CASE current # NoSocket
  <2>1. CloseFirst(cs, current) /\ process' = process
    BY <1>2 DEF GiveUp
  <2> QED
    BY <1>2, <2>1, CloseFirstInv, AppServerClientAssumption DEF Inv, TypeOK, LetGo
<1> QED
  BY <1>1, <1>2

-----------------------------------------------------------------------------
(* Every step preserves the invariant.                                     *)

LEMMA InitInv == Init => Inv
<1> SUFFICES ASSUME Init PROVE Inv
  OBVIOUS
<1> USE AppServerClientAssumption
<1>1. TypeOK
  <2>1. pendingRequests \in [RequestId -> Socket \cup {NoSocket}] /\ conn \in [Socket -> {"unused", "connecting", "open", "closing", "closed"}]
    BY DEF Init, NotPending
  <2>2. {socket, leaving, session} \subseteq Socket \cup {NoSocket}
    BY DEF Init
  <2>3. url \in 1..MaxUrls /\ tried \in 0..MaxSockets /\ nextRequestId \in 1..(MaxRequests + 1)
    BY DEF Init
  <2>4. attach \in BOOLEAN /\ processRef \in BOOLEAN /\ overdue \in BOOLEAN
    BY DEF Init
  <2> QED
    BY <2>1, <2>2, <2>3, <2>4 DEF Init, TypeOK
<1>2. NoOrphanRequest
  BY DEF Init, NoOrphanRequest, NotPending
<1>3. Fresh /\ LetGo /\ InTime
  BY DEF Init, Fresh, LetGo, InTime, Live, Socket, NoSocket
<1> QED
  BY <1>1, <1>2, <1>3 DEF Inv

LEMMA Ranges ==
    ASSUME Inv
    PROVE  /\ TypeOK /\ NoOrphanRequest /\ Fresh /\ LetGo /\ InTime
           /\ MaxSockets \in Nat /\ MaxSockets >= 1 /\ tried \in Nat /\ tried <= MaxSockets
           /\ conn \in [Socket -> States]
           /\ pendingRequests \in [RequestId -> Socket \cup {NoSocket}]
           /\ NotPending \in [RequestId -> Socket \cup {NoSocket}]
           /\ \A r \in RequestId : NotPending[r] = NoSocket
           /\ NoSocket \notin Socket /\ Initialize \in RequestId
           /\ \A s \in Socket : s \in Nat /\ s >= 1 /\ s <= MaxSockets
BY AppServerClientAssumption DEF Inv, TypeOK, States, NotPending, NoSocket, Socket, Initialize, RequestId

\* An attempt begins, with no socket live.
LEMMA AttemptInv ==
    ASSUME Inv, Attempt(conn), tried < MaxSockets, phase \in {"new", "sleeping"},
           UNCHANGED <<attach, url, socket, leaving, session, requestVars, overdue>>,
           process' \in {"none", "alive", "terminating", "killed", "exited"}, processRef' \in BOOLEAN,
           attach => process' = "none"
    PROVE  Inv'
<1>1. /\ tried' = tried + 1 /\ phase' = "connecting" /\ conn' = [conn EXCEPT ![tried + 1] = "connecting"]
      /\ UNCHANGED <<pendingRequests, nextRequestId>>
  BY DEF Attempt, requestVars
<1>2. /\ tried + 1 \in Socket /\ conn[tried + 1] = "unused" /\ conn'[tried + 1] = "connecting"
      /\ \A s \in Socket : s # tried + 1 => conn'[s] = conn[s]
  BY <1>1, Ranges DEF Fresh, Socket
<1>3. TypeOK'
  BY <1>1, <1>2, Ranges DEF TypeOK, Socket
<1>4. NoOrphanRequest'
  <2>1. ASSUME NEW r \in RequestId, pendingRequests[r] # NoSocket PROVE conn'[pendingRequests[r]] \in {"open", "closing"}
    <3>1. pendingRequests[r] \in Socket /\ conn[pendingRequests[r]] \in {"open", "closing"}
      BY <2>1, Ranges DEF NoOrphanRequest
    <3> QED
      BY <1>2, <3>1
  <2> QED
    BY <1>1, <2>1 DEF NoOrphanRequest
<1>5. Fresh'
  <2>1. ASSUME NEW s \in Socket PROVE s > tried' <=> conn'[s] = "unused"
    BY <1>1, <1>2, Ranges DEF Fresh
  <2>2. socket' <= tried'
    BY <1>1, Ranges DEF Fresh, TypeOK, NoSocket
  <2> QED
    BY <1>1, <2>1, <2>2 DEF Fresh
<1>6. LetGo'
  BY <1>1, Ranges DEF LetGo
<1>7. InTime'
  <2> SUFFICES ASSUME ~overdue PROVE InTime'
    BY DEF InTime
  <2>1. \A s \in Socket : ~Live(s)
    BY Ranges DEF InTime, Fresh, Live
  <2>2. socket = NoSocket
    BY Ranges DEF InTime
  <2> QED
    BY <1>1, <1>2, <2>1, <2>2 DEF InTime, Live
<1> QED
  BY <1>3, <1>4, <1>5, <1>6, <1>7 DEF Inv

LEMMA StartInv == Inv /\ Start => Inv'
<1> SUFFICES ASSUME Inv, Start PROVE Inv'
  OBVIOUS
<1>1. tried < MaxSockets
  BY Ranges DEF Fresh, Start
<1> QED
  BY <1>1, AttemptInv DEF Start

LEMMA ConnectAgainInv == Inv /\ ConnectAgain => Inv'
<1> SUFFICES ASSUME Inv, ConnectAgain PROVE Inv'
  OBVIOUS
<1>1. tried < MaxSockets /\ process' \in {"none", "alive", "terminating", "killed", "exited"} /\ processRef' \in BOOLEAN
  BY Ranges DEF ConnectAgain, processVars, TypeOK
<1>2. attach => process' = "none"
  BY Ranges DEF LetGo, ConnectAgain, processVars
<1> QED
  BY <1>1, <1>2, AttemptInv DEF ConnectAgain

LEMMA SocketOpensInv == ASSUME Inv, NEW s \in Socket, SocketOpens(s) PROVE Inv'
<1>1. /\ conn[s] = "connecting" /\ ServerUp /\ conn' = [conn EXCEPT ![s] = "open"] /\ socket' = s
      /\ UNCHANGED <<attach, url, tried, leaving, session, nextRequestId, process, processRef, overdue>>
      /\ conn'[s] = "open" /\ \A x \in Socket : x # s => conn'[x] = conn[x]
  BY Ranges DEF SocketOpens, processVars
<1>2. s <= tried
  BY <1>1, Ranges DEF Fresh
<1>3. CASE Awaited(s)
  <2>1. /\ phase = "connecting" /\ s = tried /\ phase' = "initializing"
        /\ pendingRequests' = [pendingRequests EXCEPT ![Initialize] = s]
    BY <1>3 DEF SocketOpens, Awaited
  <2>2. TypeOK'
    BY <1>1, <2>1, Ranges DEF TypeOK
  <2>3. NoOrphanRequest'
    BY <1>1, <2>1, Ranges DEF NoOrphanRequest
  <2>4. Fresh'
    BY <1>1, <1>2, <2>1, Ranges DEF Fresh
  <2>5. LetGo'
    BY <1>1, <2>1, Ranges DEF LetGo
  <2>6. InTime'
    BY <1>1, <2>1, Ranges DEF InTime, Live
  <2> QED
    BY <2>2, <2>3, <2>4, <2>5, <2>6 DEF Inv
<1>4. CASE ~Awaited(s)
  <2>1. phase' = phase /\ pendingRequests' = pendingRequests
    BY <1>4 DEF SocketOpens
  <2>2. TypeOK'
    BY <1>1, <2>1, Ranges DEF TypeOK
  <2>3. NoOrphanRequest'
    BY <1>1, <2>1, Ranges DEF NoOrphanRequest
  <2>4. Fresh'
    BY <1>1, <1>2, <2>1, Ranges DEF Fresh
  <2>5. LetGo'
    BY <1>1, <2>1, Ranges DEF LetGo
  <2>6. overdue
    <3> SUFFICES ASSUME ~overdue PROVE FALSE
      OBVIOUS
    <3>1. s = tried /\ phase # "connecting"
      BY <1>1, <1>4, Ranges DEF InTime, Live, Awaited
    <3>2. phase \in {"reaping", "failed", "stopping", "stopped"}
      BY <1>1, <3>1, Ranges DEF InTime, Live, Fresh, TypeOK
    <3>3. ~attach /\ process = "exited"
      BY <1>1, <3>2, Ranges DEF InTime
    <3> QED
      BY <1>1, <3>3 DEF ServerUp
  <2>7. InTime'
    BY <1>1, <2>6 DEF InTime
  <2> QED
    BY <2>2, <2>3, <2>4, <2>5, <2>7 DEF Inv
<1> QED
  BY <1>3, <1>4

\* The requests that are pending stay so while their sockets do.
LEMMA StillPending ==
    ASSUME Inv, NEW cs \in [Socket -> States], pendingRequests' = pendingRequests,
           \A s \in Socket : conn[s] \in {"open", "closing"} => cs[s] \in {"open", "closing"}
    PROVE  /\ pendingRequests' \in [RequestId -> Socket \cup {NoSocket}]
           /\ \A r \in RequestId : pendingRequests'[r] # NoSocket => cs[pendingRequests'[r]] \in {"open", "closing"}
BY Ranges DEF NoOrphanRequest

LEMMA ConnectFailsInv == ASSUME Inv, NEW s \in Socket, ConnectFails(s) PROVE Inv'
<1>1. /\ conn[s] = "connecting" /\ conn' \in [Socket -> States] /\ conn'[s] = "closed"
      /\ \A x \in Socket : x # s => conn'[x] = conn[x]
      /\ UNCHANGED <<attach, url, tried, socket, leaving, session, pendingRequests, nextRequestId,
                     process, processRef, overdue>>
      /\ phase' = IF Awaited(s) THEN "sleeping" ELSE phase
  BY Ranges DEF ConnectFails, States, requestVars, processVars
<1>2. /\ \A x \in Socket : x > tried <=> conn'[x] = "unused"
      /\ \A x \in Socket : conn[x] \in {"open", "closing"} => conn'[x] \in {"open", "closing"}
  BY <1>1, Ranges DEF Fresh
<1>3. NoOrphanRequest'
  BY <1>1, <1>2, StillPending DEF NoOrphanRequest
<1>4. \A x \in Socket : /\ Live(x)' => Live(x)
                        /\ conn'[x] \in {"connecting", "open", "closing"} => conn[x] = conn'[x]
  BY <1>1 DEF Live
<1>5. CASE ~Awaited(s)
  <2>1. phase' = phase
    BY <1>1, <1>5
  <2>2. TypeOK' /\ Fresh' /\ LetGo'
    BY <1>1, <1>2, <2>1, Ranges DEF TypeOK, States, Fresh, LetGo
  <2>3. InTime'
    <3> SUFFICES ASSUME ~overdue PROVE InTime'
      BY <1>1 DEF InTime
    <3>1. s = tried /\ phase # "connecting"
      BY <1>1, <1>5, Ranges DEF InTime, Live, Awaited
    <3> QED
      BY <1>1, <1>4, <2>1, <3>1, Ranges DEF InTime, Live
  <2> QED
    BY <1>3, <2>2, <2>3 DEF Inv
<1>6. CASE Awaited(s)
  <2>1. phase = "connecting" /\ s = tried /\ phase' = "sleeping"
    BY <1>1, <1>6 DEF Awaited
  <2>2. TypeOK' /\ Fresh' /\ LetGo'
    BY <1>1, <1>2, <2>1, Ranges DEF TypeOK, States, Fresh, LetGo
  <2>3. InTime'
    <3> SUFFICES ASSUME ~overdue PROVE InTime'
      BY <1>1 DEF InTime
    <3>1. socket = NoSocket /\ \A x \in Socket : Live(x) => x = s
      BY <2>1, Ranges DEF InTime
    <3>2. \A x \in Socket : ~Live(x)'
      BY <1>1, <1>4, <3>1 DEF Live
    <3> QED
      BY <1>1, <2>1, <3>1, <3>2 DEF InTime
  <2> QED
    BY <1>3, <2>2, <2>3 DEF Inv
<1> QED
  BY <1>5, <1>6

LEMMA ConnectTimesOutInv == Inv /\ ConnectTimesOut => Inv'
<1> SUFFICES ASSUME Inv, ConnectTimesOut PROVE Inv'
  OBVIOUS
<1>1. /\ phase = "connecting" /\ phase' = "expired" /\ overdue'
      /\ overdue' \in BOOLEAN
      /\ UNCHANGED <<attach, url, tried, conn, socket, leaving, session, pendingRequests, nextRequestId,
                     process, processRef>>
  BY DEF ConnectTimesOut, requestVars, processVars
<1>2. TypeOK' /\ NoOrphanRequest' /\ Fresh' /\ LetGo'
  BY <1>1, Ranges DEF TypeOK, NoOrphanRequest, Fresh, LetGo
<1>3. InTime'
  BY <1>1 DEF InTime
<1> QED
  BY <1>2, <1>3 DEF Inv

LEMMA ConnectGivesUpInv == Inv /\ ConnectGivesUp => Inv'
<1> SUFFICES ASSUME Inv, ConnectGivesUp PROVE Inv'
  OBVIOUS
<1>1. /\ phase \in {"sleeping", "expired"} /\ GiveUp(conn, socket)
      /\ UNCHANGED <<attach, session, pendingRequests, nextRequestId, overdue>>
      /\ overdue' \in BOOLEAN
  BY Ranges DEF ConnectGivesUp, requestVars, TypeOK
<1>2. conn \in [Socket -> States] /\ \A x \in Socket : x > tried <=> conn[x] = "unused"
  BY Ranges DEF Fresh
<1>3. /\ pendingRequests' \in [RequestId -> Socket \cup {NoSocket}]
      /\ \A r \in RequestId : pendingRequests'[r] # NoSocket => conn[pendingRequests'[r]] \in {"open", "closing"}
  BY <1>1, <1>2, StillPending
<1>4. CASE overdue
  <2>1. overdue'
    BY <1>1, <1>4
  <2> QED
    BY <1>1, <1>2, <1>3, <2>1, GiveUpInv
<1>5. CASE ~overdue
  <2>1. phase = "sleeping" /\ socket = NoSocket /\ \A x \in Socket : ~Live(x)
    BY <1>1, <1>5, Ranges DEF InTime
  <2>2. \A x \in Socket : conn[x] \in {"unused", "closed"}
    BY <1>2, <2>1 DEF Live, States
  <2> QED
    BY <1>1, <1>2, <1>3, <2>1, <2>2, GiveUpInv
<1> QED
  BY <1>4, <1>5

\* The answer to initialize settles that request.
LEMMA Settled ==
    ASSUME Inv, NEW r \in RequestId, pendingRequests' = [pendingRequests EXCEPT ![r] = NoSocket]
    PROVE  /\ pendingRequests' \in [RequestId -> Socket \cup {NoSocket}]
           /\ \A q \in RequestId : pendingRequests'[q] # NoSocket => conn[pendingRequests'[q]] \in {"open", "closing"}
BY Ranges DEF NoOrphanRequest

LEMMA InitializingGivesUp ==
    ASSUME Inv, phase = "initializing", GiveUp(conn, socket),
           pendingRequests' = [pendingRequests EXCEPT ![Initialize] = NoSocket],
           UNCHANGED <<attach, session, nextRequestId, overdue>>
    PROVE  Inv'
<1>1. conn \in [Socket -> States] /\ (\A x \in Socket : x > tried <=> conn[x] = "unused") /\ Initialize \in RequestId
  BY Ranges DEF Fresh
<1>2. /\ pendingRequests' \in [RequestId -> Socket \cup {NoSocket}]
      /\ \A r \in RequestId : pendingRequests'[r] # NoSocket => conn[pendingRequests'[r]] \in {"open", "closing"}
  BY <1>1, Settled
<1>3. overdue' \in BOOLEAN /\ socket \in {socket, NoSocket}
  BY Ranges DEF TypeOK
<1>4. phase \in {"connecting", "sleeping", "expired", "initializing", "closing"}
  OBVIOUS
<1>5. CASE overdue
  <2>1. overdue'
    BY <1>5
  <2> QED
    BY <1>1, <1>2, <1>3, <1>4, <2>1, GiveUpInv
<1>6. CASE ~overdue
  <2>1. socket # NoSocket /\ socket = tried
    BY <1>6, Ranges DEF InTime
  <2>2. \A x \in Socket : conn[x] \in {"unused", "closed"} \/ x = tried
    BY <1>1, <1>6, Ranges DEF InTime, Live, States
  <2> QED
    BY <1>1, <1>2, <1>3, <1>4, <2>1, <2>2, GiveUpInv
<1> QED
  BY <1>5, <1>6

LEMMA InitializeRefusedInv == Inv /\ InitializeRefused => Inv'
BY InitializingGivesUp DEF InitializeRefused

LEMMA InitializeAnsweredInv == Inv /\ InitializeAnswered => Inv'
<1> SUFFICES ASSUME Inv, InitializeAnswered PROVE Inv'
  OBVIOUS
<1>1. PICK s : s = pendingRequests[Initialize]
  OBVIOUS
<1>2. /\ phase = "initializing" /\ conn[s] = "open" /\ s \in Socket
      /\ pendingRequests' = [pendingRequests EXCEPT ![Initialize] = NoSocket]
      /\ UNCHANGED <<attach, nextRequestId, overdue>>
  BY <1>1, Ranges DEF InitializeAnswered, LetGo
<1>3. CASE /\ socket # NoSocket /\ conn[socket] = "open" /\ phase' = "running" /\ session' = s
           /\ UNCHANGED <<conn, socket, leaving, url, tried, processVars>>
  <2>1. UNCHANGED <<conn, socket, leaving, url, tried, process, processRef>> /\ phase' = "running" /\ session' = s
    BY <1>3 DEF processVars
  <2>2. pendingRequests' \in [RequestId -> Socket \cup {NoSocket}]
    BY <1>2, Ranges, Settled
  <2>3. TypeOK'
    BY <1>2, <2>1, <2>2, Ranges DEF TypeOK
  <2>4. NoOrphanRequest'
    BY <1>2, <2>1, Ranges, Settled DEF NoOrphanRequest
  <2>5. Fresh' /\ LetGo'
    BY <1>2, <2>1, Ranges DEF Fresh, LetGo
  <2>6. InTime'
    <3> SUFFICES ASSUME ~overdue PROVE InTime'
      BY <1>2 DEF InTime
    <3>1. s = tried /\ socket = s
      BY <1>2, Ranges DEF InTime, Live
    <3>2. \A x \in Socket : Live(x)' => x = tried'
      BY <2>1, Ranges DEF InTime, Live
    <3> QED
      BY <1>2, <2>1, <3>1, <3>2 DEF InTime
  <2> QED
    BY <2>3, <2>4, <2>5, <2>6 DEF Inv
<1>4. CASE GiveUp(conn, socket) /\ UNCHANGED session
  BY <1>2, <1>4, InitializingGivesUp
<1> QED
  BY <1>1, <1>3, <1>4 DEF InitializeAnswered

LEMMA CloseTimesOutInv == Inv /\ CloseTimesOut => Inv'
<1> SUFFICES ASSUME Inv, CloseTimesOut PROVE Inv'
  OBVIOUS
<1>1. /\ phase \in {"connecting", "sleeping", "expired", "initializing", "closing"} /\ NextUrl(conn) /\ overdue' /\ overdue' \in BOOLEAN
      /\ pendingRequests' = NotPending
      /\ UNCHANGED <<attach, session, nextRequestId>> /\ socket' \in {socket, NoSocket} /\ leaving' = leaving
  BY DEF CloseTimesOut
<1>2. /\ conn \in [Socket -> States] /\ (\A x \in Socket : x > tried <=> conn[x] = "unused")
      /\ leaving' \in Socket \cup {NoSocket}
  BY <1>1, Ranges DEF Fresh, TypeOK
<1>3. /\ pendingRequests' \in [RequestId -> Socket \cup {NoSocket}]
      /\ \A r \in RequestId : pendingRequests'[r] # NoSocket => conn[pendingRequests'[r]] \in {"open", "closing"}
  BY <1>1, Ranges
<1> QED
  BY <1>1, <1>2, <1>3, NextUrlInv

LEMMA SocketClosesInv == ASSUME Inv, NEW s \in Socket, SocketCloses(s) PROVE Inv'
<1>1. PICK cs : cs = [conn EXCEPT ![s] = "closed"]
  OBVIOUS
<1>2. /\ conn[s] \in {"open", "closing"} /\ cs \in [Socket -> States] /\ cs[s] = "closed"
      /\ \A x \in Socket : x # s => cs[x] = conn[x]
      /\ UNCHANGED <<attach, session, nextRequestId, overdue>> /\ pendingRequests' = NotPending
  BY <1>1, Ranges DEF SocketCloses, States, RejectAllPending
<1>3. \A x \in Socket : x > tried <=> cs[x] = "unused"
  BY <1>2, Ranges DEF Fresh
<1>4. /\ pendingRequests' \in [RequestId -> Socket \cup {NoSocket}]
      /\ \A r \in RequestId : pendingRequests'[r] # NoSocket => cs[pendingRequests'[r]] \in {"open", "closing"}
  BY <1>2, Ranges
<1>5. overdue' \in BOOLEAN
  BY <1>2, Ranges DEF TypeOK
<1>6. ASSUME ~overdue
      PROVE  s = tried /\ \A x \in Socket : cs[x] \in {"unused", "closed"}
  <2>1. s = tried /\ \A x \in Socket : Live(x) => x = s
    BY <1>2, <1>6, Ranges DEF InTime, Live
  <2> QED
    BY <1>2, <2>1, Ranges DEF Live, States
<1>7. CASE phase = "initializing" /\ GiveUp(cs, NoSocket)
  <2>1. overdue' \/ \A x \in Socket : cs[x] \in {"unused", "closed"}
    BY <1>2, <1>6
  <2>2. phase \in {"connecting", "sleeping", "expired", "initializing", "closing"} /\ NoSocket \in {socket, NoSocket}
    BY <1>7
  <2> QED
    BY <1>2, <1>3, <1>4, <1>5, <1>7, <2>1, <2>2, GiveUpInv
<1>8. CASE phase = "closing" /\ socket' = NoSocket /\ NextUrl(cs) /\ UNCHANGED leaving
  <2>1. overdue' \/ \A x \in Socket : cs[x] \in {"unused", "closed"}
    BY <1>2, <1>6
  <2>2. /\ phase \in {"connecting", "sleeping", "expired", "initializing", "closing"} /\ socket' \in {socket, NoSocket}
        /\ leaving' \in Socket \cup {NoSocket}
    BY <1>8, Ranges DEF TypeOK
  <2>3. overdue' \/ (socket' = NoSocket /\ \A x \in Socket : cs[x] \in {"unused", "closed"})
    BY <1>8, <2>1
  <2> QED
    BY <1>2, <1>3, <1>4, <1>5, <1>8, <2>2, <2>3, NextUrlInv
<1>9. CASE /\ phase # "initializing" /\ ~(phase = "closing" /\ s = leaving)
           /\ conn' = cs /\ socket' = NoSocket /\ UNCHANGED <<phase, leaving, url, tried, processVars>>
  <2>1. UNCHANGED <<phase, leaving, url, tried, process, processRef>> /\ conn' = cs /\ socket' = NoSocket
    BY <1>9 DEF processVars
  <2>2. TypeOK'
    BY <1>2, <1>4, <2>1, Ranges DEF TypeOK, States
  <2>3. NoOrphanRequest'
    BY <1>4, <2>1 DEF NoOrphanRequest
  <2>4. Fresh' /\ LetGo'
    BY <1>2, <1>3, <1>9, <2>1, Ranges DEF Fresh, LetGo, NoSocket
  <2>5. InTime'
    <3> SUFFICES ASSUME ~overdue PROVE InTime'
      BY <1>2 DEF InTime
    <3>1. s = tried /\ \A x \in Socket : conn'[x] \in {"unused", "closed"}
      BY <1>6, <2>1
    <3>2. phase # "closing"
      BY <1>2, <1>9, <3>1, Ranges DEF InTime
    <3>3. phase = "running" => \E x \in Socket : x = tried /\ session = x /\ conn'[x] = "closed"
      <4>1. phase = "running" => session = s
        BY <3>1, Ranges DEF InTime
      <4> QED
        BY <1>2, <2>1, <3>1, <4>1
    <3>4. \A x \in Socket : ~Live(x)'
      BY <3>1 DEF Live
    <3>5. phase # "expired"
      BY Ranges DEF InTime
    <3> QED
      BY <1>2, <1>9, <2>1, <3>1, <3>2, <3>3, <3>4, <3>5 DEF InTime
  <2> QED
    BY <2>2, <2>3, <2>4, <2>5 DEF Inv
<1> QED
  BY <1>1, <1>7, <1>8, <1>9 DEF SocketCloses

\* The sockets, the requests and the fields they are known by stay as they are.
LEMMA SameSockets ==
    ASSUME Inv, TypeOK', UNCHANGED <<attach, tried, conn, socket, leaving, session>>,
           \A r \in RequestId : pendingRequests'[r] # NoSocket => conn[pendingRequests'[r]] \in {"open", "closing"},
           phase' = phase, overdue' = overdue, processRef => processRef', processRef' => processRef,
           process = "exited" => process' = "exited", attach => process' = "none",
           phase = "initializing" => pendingRequests'[Initialize] # NoSocket
    PROVE  Inv'
<1>1. NoOrphanRequest'
  BY DEF NoOrphanRequest
<1>2. Fresh'
  BY Ranges DEF Fresh
<1>3. LetGo'
  BY Ranges DEF LetGo
<1>4. InTime'
  <2> SUFFICES ASSUME ~overdue PROVE InTime'
    BY DEF InTime
  <2>1. \A x \in Socket : Live(x)' = Live(x)
    BY DEF Live
  <2> QED
    BY <2>1, Ranges DEF InTime
<1> QED
  BY <1>1, <1>2, <1>3, <1>4 DEF Inv

LEMMA RequestInv == Inv /\ Request => Inv'
<1> SUFFICES ASSUME Inv, Request PROVE Inv'
  OBVIOUS
<1>1. /\ phase = "running" /\ socket \in Socket /\ conn[socket] = "open" /\ nextRequestId \in RequestId
      /\ pendingRequests' = [pendingRequests EXCEPT ![nextRequestId] = socket]
      /\ nextRequestId' = nextRequestId + 1 /\ nextRequestId' \in 1..(MaxRequests + 1)
      /\ UNCHANGED <<attach, phase, url, tried, conn, socket, leaving, session, process, processRef, overdue>>
  BY AppServerClientAssumption, Ranges DEF Request, TypeOK, RequestId, processVars
<1>2. TypeOK'
  BY <1>1, Ranges DEF TypeOK
<1>3. \A r \in RequestId : pendingRequests'[r] # NoSocket => conn[pendingRequests'[r]] \in {"open", "closing"}
  BY <1>1, Ranges DEF NoOrphanRequest
<1> QED
  BY <1>1, <1>2, <1>3, SameSockets, Ranges DEF LetGo

LEMMA ResponseInv == ASSUME Inv, NEW r \in RequestId, Response(r) PROVE Inv'
<1>1. /\ r # Initialize /\ pendingRequests' = [pendingRequests EXCEPT ![r] = NoSocket]
      /\ UNCHANGED <<attach, phase, url, tried, conn, socket, leaving, session, nextRequestId, process, processRef, overdue>>
  BY DEF Response, processVars
<1>2. /\ pendingRequests' \in [RequestId -> Socket \cup {NoSocket}]
      /\ \A q \in RequestId : pendingRequests'[q] # NoSocket => conn[pendingRequests'[q]] \in {"open", "closing"}
  BY <1>1, Settled
<1>3. TypeOK'
  BY <1>1, <1>2, Ranges DEF TypeOK
<1>4. phase = "initializing" => pendingRequests'[Initialize] # NoSocket
  BY <1>1, Ranges DEF LetGo
<1> QED
  BY <1>1, <1>2, <1>3, <1>4, SameSockets, Ranges DEF LetGo

LEMMA ReapedInv == Inv /\ Reaped => Inv'
<1> SUFFICES ASSUME Inv, Reaped PROVE Inv'
  OBVIOUS
<1>1. /\ phase = "reaping" /\ phase' = "failed"
      /\ process' = IF process = "terminating" THEN "killed" ELSE process
      /\ UNCHANGED <<attach, url, tried, conn, socket, leaving, session, pendingRequests, nextRequestId, processRef, overdue>>
  BY DEF Reaped, requestVars, KilledIfAlive
<1>2. TypeOK'
  BY <1>1, Ranges DEF TypeOK
<1>3. NoOrphanRequest' /\ Fresh' /\ LetGo'
  BY <1>1, Ranges DEF NoOrphanRequest, Fresh, LetGo
<1>4. InTime'
  <2> SUFFICES ASSUME ~overdue PROVE InTime'
    BY <1>1 DEF InTime
  <2>1. \A x \in Socket : Live(x)' = Live(x)
    BY <1>1 DEF Live
  <2> QED
    BY <1>1, <2>1, Ranges DEF InTime
<1> QED
  BY <1>2, <1>3, <1>4 DEF Inv

LEMMA ProcessExitsInv == Inv /\ ProcessExits => Inv'
<1> SUFFICES ASSUME Inv, ProcessExits PROVE Inv'
  OBVIOUS
<1>1. /\ process' = "exited" /\ ~attach
      /\ UNCHANGED <<attach, session, pendingRequests, nextRequestId, overdue>>
  BY Ranges DEF ProcessExits, requestVars, LetGo
<1>2. CASE /\ phase \in {"connecting", "sleeping", "expired"} /\ processRef' = FALSE /\ phase' = "reaping"
           /\ UNCHANGED <<url, tried, conn, socket, leaving>>
  <2>1. TypeOK'
    BY <1>1, <1>2, Ranges DEF TypeOK
  <2>2. NoOrphanRequest' /\ Fresh' /\ LetGo'
    BY <1>1, <1>2, Ranges DEF NoOrphanRequest, Fresh, LetGo
  <2>3. InTime'
    <3> SUFFICES ASSUME ~overdue PROVE InTime'
      BY <1>1 DEF InTime
    <3>1. \A x \in Socket : Live(x)' = Live(x)
      BY <1>2 DEF Live
    <3>2. \A x \in Socket : Live(x) => x = tried
      BY Ranges DEF InTime
    <3>3. socket = NoSocket
      BY <1>2, Ranges DEF InTime
    <3>4. \A x \in Socket : conn[x] \notin {"open", "closing"}
      <4>1. CASE phase = "connecting"
        BY <4>1, Ranges DEF InTime
      <4>2. CASE phase = "sleeping"
        BY <4>2, Ranges DEF InTime, Live
      <4>3. phase # "expired"
        BY Ranges DEF InTime
      <4> QED
        BY <1>2, <4>1, <4>2, <4>3
    <3>5. conn' = conn /\ tried' = tried /\ socket' = socket
      BY <1>2
    <3> DEFINE P1 == \A x \in Socket : Live(x)' => x = tried'
    <3>6. P1
      BY <3>1, <3>2, <3>5
    <3>7. \A x \in Socket : conn'[x] = "connecting" => ~attach' /\ process' = "exited"
      BY <1>1
    <3>8. \A x \in Socket : conn'[x] \notin {"open", "closing"}
      BY <3>4, <3>5
    <3> QED
      BY <1>2, <3>3, <3>5, <3>6, <3>7, <3>8 DEF InTime
  <2> QED
    BY <2>1, <2>2, <2>3 DEF Inv
<1>3. CASE /\ phase \notin {"connecting", "sleeping", "expired"}
           /\ UNCHANGED <<phase, url, tried, conn, socket, leaving, processRef>>
  <2>1. TypeOK'
    BY <1>1, <1>3, Ranges DEF TypeOK
  <2> QED
    BY <1>1, <1>3, <2>1, Ranges, SameSockets DEF NoOrphanRequest, LetGo
<1>4. CASE phase \in {"connecting", "sleeping", "expired"} /\ socket # NoSocket /\ CloseFirst(conn, socket)
  <2>1. overdue'
    BY <1>1, <1>4, Ranges DEF InTime
  <2>2. conn \in [Socket -> States] /\ \A x \in Socket : x > tried <=> conn[x] = "unused"
    BY Ranges DEF Fresh
  <2>3. /\ pendingRequests' \in [RequestId -> Socket \cup {NoSocket}]
        /\ \A r \in RequestId : pendingRequests'[r] # NoSocket => conn[pendingRequests'[r]] \in {"open", "closing"}
    BY <1>1, <2>2, StillPending
  <2>4. socket \in {socket, NoSocket} /\ overdue' \in BOOLEAN
    BY <1>1, Ranges DEF TypeOK
  <2>5. process' \in {"none", "alive", "terminating", "killed", "exited"} /\ (attach => process' = "none")
    BY <1>1
  <2> QED
    BY <1>1, <1>4, <2>1, <2>2, <2>3, <2>4, <2>5, CloseFirstInv
<1> QED
  BY <1>2, <1>3, <1>4 DEF ProcessExits

LEMMA StopInv == Inv /\ Stop => Inv'
<1> SUFFICES ASSUME Inv, Stop PROVE Inv'
  OBVIOUS
<1>1. /\ phase \in {"running", "failed"} /\ phase' = "stopping" /\ socket' = NoSocket /\ leaving' = socket
      /\ conn' = [s \in Socket |-> IF s = socket /\ conn[s] = "open" THEN "closing" ELSE conn[s]]
      /\ pendingRequests' = NotPending /\ processRef' = FALSE
      /\ process' \in {"terminating", process} /\ (process \in {"none", "exited"} => process' = process)
      /\ UNCHANGED <<attach, url, tried, session, nextRequestId, overdue>>
  BY DEF Stop, RejectAllPending
<1>2. conn' \in [Socket -> States] /\ \A s \in Socket : conn'[s] = "unused" <=> conn[s] = "unused"
  BY <1>1, Ranges DEF States
<1>3. TypeOK'
  BY <1>1, <1>2, Ranges DEF TypeOK, States
<1>4. NoOrphanRequest'
  BY <1>1, Ranges DEF NoOrphanRequest
<1>5. Fresh' /\ LetGo'
  BY <1>1, <1>2, Ranges DEF Fresh, LetGo, NoSocket
<1>6. InTime'
  <2> SUFFICES ASSUME ~overdue PROVE InTime'
    BY <1>1 DEF InTime
  <2>1. \A x \in Socket : Live(x)' = Live(x)
    BY <1>1 DEF Live
  <2>2. \A x \in Socket : conn'[x] = "connecting" => conn[x] = "connecting"
    BY <1>1
  <2>3. \A x \in Socket : conn[x] = "connecting" => ~attach /\ process = "exited"
    <3>1. CASE phase = "running"
      <4>1. PICK s \in Socket : s = tried /\ conn[s] \in {"open", "closed"}
        BY <3>1, Ranges DEF InTime
      <4> QED
        BY <4>1, Ranges DEF InTime, Live
    <3>2. CASE phase = "failed"
      BY <3>2, Ranges DEF InTime
    <3> QED
      BY <1>1, <3>1, <3>2
  <2>4. \A x \in Socket : conn'[x] # "open" /\ (conn'[x] = "closing" => leaving' = x)
    <3>1. CASE phase = "running"
      <4>1. PICK s \in Socket : /\ s = tried
                                 /\ \/ conn[s] = "open" /\ socket = s
                                    \/ conn[s] = "closed" /\ socket = NoSocket
        <5>1. InTime /\ ~overdue /\ phase = "running"
          BY <3>1, Ranges
        <5> QED
          BY <5>1 DEF InTime
      <4>2. \A x \in Socket : x # s => conn[x] \notin {"open", "closing"}
        BY <4>1, Ranges DEF InTime, Live
      <4> QED
        BY <1>1, <4>1, <4>2
    <3>2. CASE phase = "failed"
      BY <1>1, <3>2, Ranges DEF InTime
    <3> QED
      BY <1>1, <3>1, <3>2
  <2> QED
    BY <1>1, <2>1, <2>2, <2>3, <2>4, Ranges DEF InTime
<1> QED
  BY <1>3, <1>4, <1>5, <1>6 DEF Inv

LEMMA StoppedInv == Inv /\ Stopped => Inv'
<1> SUFFICES ASSUME Inv, Stopped PROVE Inv'
  OBVIOUS
<1>1. /\ phase = "stopping" /\ phase' = "stopped"
      /\ process' = IF process = "terminating" THEN "killed" ELSE process
      /\ UNCHANGED <<attach, url, tried, conn, socket, leaving, session, pendingRequests, nextRequestId, processRef>>
  BY DEF Stopped, requestVars, KilledIfAlive
<1>2. overdue' \in BOOLEAN /\ (~overdue' => ~overdue /\ (leaving = NoSocket \/ conn[leaving] # "closing"))
  BY Ranges DEF Stopped, TypeOK
<1>3. TypeOK'
  BY <1>1, <1>2, Ranges DEF TypeOK
<1>4. NoOrphanRequest' /\ Fresh' /\ LetGo'
  BY <1>1, Ranges DEF NoOrphanRequest, Fresh, LetGo
<1>5. InTime'
  <2> SUFFICES ASSUME ~overdue' PROVE InTime'
    BY DEF InTime
  <2>1. ~overdue /\ (leaving = NoSocket \/ conn[leaving] # "closing")
    BY <1>2
  <2>2. \A x \in Socket : Live(x)' = Live(x)
    BY <1>1 DEF Live
  <2>3. \A x \in Socket : conn[x] \notin {"open", "closing"}
    BY <1>1, <2>1, Ranges DEF InTime
  <2> QED
    BY <1>1, <2>1, <2>2, <2>3, Ranges DEF InTime
<1> QED
  BY <1>3, <1>4, <1>5 DEF Inv

LEMMA StepInv == Inv /\ [Next]_vars => Inv'
<1> SUFFICES ASSUME Inv, [Next]_vars PROVE Inv'
  OBVIOUS
<1>1. CASE UNCHANGED vars
  BY <1>1 DEF vars, Inv, TypeOK, NoOrphanRequest, Fresh, LetGo, InTime, Live
<1>2. CASE ClientSteps
  BY <1>2, ConnectTimesOutInv, ConnectAgainInv, ConnectGivesUpInv, CloseTimesOutInv, ReapedInv, StoppedInv DEF ClientSteps
<1>3. ASSUME NEW s \in Socket, SocketOpens(s) \/ ConnectFails(s) \/ SocketCloses(s) PROVE Inv'
  BY <1>3, SocketOpensInv, ConnectFailsInv, SocketClosesInv
<1> QED
  BY <1>1, <1>2, <1>3, StartInv, InitializeAnsweredInv, InitializeRefusedInv, ProcessExitsInv, RequestInv,
     StopInv, ResponseInv DEF Next

\* The strengthening of the theorems below: which sockets there can be in each phase.
THEOREM Inductive == Spec => []Inv
BY InitInv, StepInv, PTL DEF Spec

\* Every variable keeps to its type, the field socket and the requests included.
THEOREM TypeCorrect == Spec => []TypeOK
<1>1. Inv => TypeOK
  BY DEF Inv
<1> QED
  BY <1>1, Inductive, PTL

\* No request is left waiting on a socket that is gone.
THEOREM NoOrphan == Spec => []NoOrphanRequest
<1>1. Inv => NoOrphanRequest
  BY DEF Inv
<1> QED
  BY <1>1, Inductive, PTL

\* In time, a client that runs is on the socket it initialized, and a failed start or a
\* stop leaves nothing behind, whatever the number of URLs and retries.
THEOREM Session == Spec => []TalksToItsSession
<1>1. Inv => TalksToItsSession
  <2> SUFFICES ASSUME Inv, ~overdue
               PROVE  /\ phase = "running" => IF conn[session] = "open" THEN socket = session ELSE socket = NoSocket
                      /\ phase \in {"failed", "stopped"} =>
                            socket = NoSocket /\ ~processRef /\ \A s \in Socket : conn[s] # "open"
    BY DEF TalksToItsSession
  <2>1. phase = "running" => IF conn[session] = "open" THEN socket = session ELSE socket = NoSocket
    BY Ranges DEF InTime
  <2>2. phase \in {"failed", "stopped"} => socket = NoSocket /\ ~processRef /\ \A s \in Socket : conn[s] # "open"
    BY Ranges DEF InTime, LetGo
  <2> QED
    BY <2>1, <2>2
<1> QED
  BY <1>1, Inductive, PTL
=============================================================================
