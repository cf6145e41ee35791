----------------------------- MODULE TurnStream -----------------------------
(***************************************************************************)
(* The stream of a turn from the bridge to the browsers: class             *)
(* BridgeServer of packages/bridge-vscode/src/bridgeServer.ts with its     *)
(* subscribers and its stop, and the hub's proxy (handleUpgrade,           *)
(* proxyTurnStream and forwardRequestToBridge of                           *)
(* packages/hub/src/server.ts). A stream is a chain of two WebSockets:     *)
(* down, from a browser to the hub, and up, from the hub to the bridge.    *)
(* One bridge and one turn; a client that connects again is another client.*)
(*                                                                         *)
(* The sockets are external (the ws library): what is sent arrives in      *)
(* order or not at all, a close is answered with a close, closing a socket *)
(* that still connects destroys it, and both ends learn that a link broke. *)
(* The hello frame says nothing and is left out, and so are the frames     *)
(* browsers send, which the bridge does not look at.                       *)
(***************************************************************************)
EXTENDS Naturals, Sequences

CONSTANTS
    Clients,     \* the streams that are opened
    Requests,    \* the HTTP requests of clients
    None,        \* nothing seen yet
    MaxEvents,   \* bound: events of the turn
    MaxBreaks    \* bound: links that break

ASSUME TurnStreamAssumption ==
    /\ None \notin Nat
    /\ MaxEvents \in Nat
    /\ MaxBreaks \in Nat

VARIABLES
    \* the turn: its events so far, and whether the store has a record of it
    version, known,
    \* the bridge's server: "up", "stopping" or "stopped"; the clients it sends events
    \* to; and the initial states that are being sent, with the version they show
    server, subscribers, pending, snapshot,
    \* the two sockets of each stream, and the version each browser shows
    up, down, seen,
    \* the HTTP requests, and the links that broke
    http, breaks

bridgeVars == <<server, subscribers, pending, snapshot>>
vars == <<version, known, server, subscribers, pending, snapshot, up, down, seen, http, breaks>>

Ends   == {"none", "connecting", "open", "closing", "closed"}
Frames == [kind : {"open", "state", "event", "close", "reset"}, version : 0..MaxEvents]

\* A socket: the state of the end that connected (client) and of the one that accepted
\* (server), and the frames on their way to each.
Sockets == [client : Ends, server : Ends, toClient : Seq(Frames), toServer : Seq(Frames)]
NoSocket == [client |-> "none", server |-> "none", toClient |-> <<>>, toServer |-> <<>>]

TypeOK ==
    /\ version \in 0..MaxEvents
    /\ known \in BOOLEAN
    /\ server \in {"up", "stopping", "stopped"}
    /\ subscribers \subseteq Clients
    /\ pending \in [Clients -> {"none", "hello", "state"}]
    /\ snapshot \in [Clients -> 0..MaxEvents]
    /\ up \in [Clients -> Sockets]
    /\ down \in [Clients -> Sockets]
    /\ seen \in [Clients -> 0..MaxEvents \cup {None}]
    /\ http \in [Requests -> {"none", "asked", "working", "done", "failed"}]
    /\ breaks \in 0..MaxBreaks

Init ==
    /\ version = 0
    /\ known \in BOOLEAN
    /\ server = "up"
    /\ subscribers = {}
    /\ pending = [k \in Clients |-> "none"]
    /\ snapshot = [k \in Clients |-> 0]
    /\ up = [k \in Clients |-> NoSocket]
    /\ down = [k \in Clients |-> NoSocket]
    /\ seen = [k \in Clients |-> None]
    /\ http = [r \in Requests |-> "none"]
    /\ breaks = 0

-----------------------------------------------------------------------------
(* A socket: values of s in Sockets.                                       *)

Frame(kind, v) == [kind |-> kind, version |-> v]
Close == Frame("close", 0)
Reset == Frame("reset", 0)

\* What is sent to an end that is closed is dropped, as is what waits for it.
ToClient(s, f) == IF s.client = "closed" THEN s ELSE [s EXCEPT !.toClient = Append(@, f)]
ToServer(s, f) == IF s.server = "closed" THEN s ELSE [s EXCEPT !.toServer = Append(@, f)]

\* socket.close() at either end.
ClientCloses(s) ==
    CASE s.client = "open"       -> ToServer([s EXCEPT !.client = "closing"], Close)
      [] s.client = "connecting" ->
             ToServer([s EXCEPT !.client = "closed", !.toClient = <<>>], Reset)
      [] OTHER -> s
ServerCloses(s) ==
    IF s.server = "open" THEN ToClient([s EXCEPT !.server = "closing"], Close) ELSE s

\* The end takes a close or a reset from the wire and is closed.
ClientClosed(s) ==
    LET t == [s EXCEPT !.client = "closed", !.toClient = <<>>]
    IN  IF Head(s.toClient) = Close /\ s.client = "open" THEN ToServer(t, Close) ELSE t
ServerClosed(s) ==
    LET t == [s EXCEPT !.server = "closed", !.toServer = <<>>]
    IN  IF Head(s.toServer) = Close /\ s.server = "open" THEN ToClient(t, Close) ELSE t

ClientHears(s) == s.client \in {"connecting", "open", "closing"} /\ s.toClient # <<>>
ServerHears(s) == s.server \in {"open", "closing"} /\ s.toServer # <<>>
ClientTakes(s) == [s EXCEPT !.toClient = Tail(@)]
ClientOpens(s) ==
    [s EXCEPT !.client = IF @ = "connecting" THEN "open" ELSE @, !.toClient = Tail(@)]

IsEnd(f)  == f.kind \in {"close", "reset"}
IsData(f) == f.kind \in {"state", "event"}

-----------------------------------------------------------------------------
(* The bridge's server.                                                    *)

\* What the handlers awaited runs before the next event of the process is handled:
\* createHelloEvent and createStateEvent answer at once, so sendInitialStreamState
\* awaits nothing but its own continuations.
MicrotasksMixed == TRUE
MicrotasksFirst == \A k \in Clients : pending[k] = "none"

\* handleUpgrade and registerSubscriber. A turn the store does not know makes
\* createHelloEvent throw: the stream is open, and silent until the turn's next event.
Accept(k) ==
    /\ MicrotasksFirst
    /\ up[k].client # "none" /\ up[k].server = "none"
    /\ \/ /\ server = "up"
          /\ up' = [up EXCEPT ![k] = ToClient([@ EXCEPT !.server = "open"], Frame("open", 0))]
          /\ subscribers' = subscribers \cup {k}
          /\ pending' = [pending EXCEPT ![k] = IF known THEN "hello" ELSE "none"]
       \/ /\ server # "up"
          /\ up' = [up EXCEPT ![k] = ToClient([@ EXCEPT !.server = "closed", !.toServer = <<>>], Reset)]
          /\ UNCHANGED <<subscribers, pending>>
    /\ UNCHANGED <<version, known, server, snapshot, down, seen, http, breaks>>

\* The two continuations of sendInitialStreamState: the hello frame goes out and the
\* state is taken, then the state goes out.
HelloSent(k) ==
    /\ pending[k] = "hello"
    /\ pending' = [pending EXCEPT ![k] = "state"]
    /\ snapshot' = [snapshot EXCEPT ![k] = version]
    /\ UNCHANGED <<version, known, server, subscribers, up, down, seen, http, breaks>>

StateSent(k) ==
    /\ pending[k] = "state"
    /\ pending' = [pending EXCEPT ![k] = "none"]
    /\ up' = IF up[k].server = "open"
             THEN [up EXCEPT ![k] = ToClient(@, Frame("state", snapshot[k]))] ELSE up
    /\ snapshot' = [snapshot EXCEPT ![k] = 0]
    /\ UNCHANGED <<version, known, server, subscribers, down, seen, http, breaks>>

EventFrame(v) == Frame("event", v)

\* broadcastTurnEvent, for an event of the store. stop ends the subscription.
TurnEvent ==
    /\ MicrotasksFirst
    /\ version < MaxEvents
    /\ version' = version + 1
    /\ known' = TRUE
    /\ up' = [k \in Clients |->
                IF server = "up" /\ k \in subscribers /\ up[k].server = "open"
                THEN ToClient(up[k], EventFrame(version')) ELSE up[k]]
    /\ UNCHANGED <<bridgeVars, down, seen, http, breaks>>

\* The listener for "close" of registerSubscriber.
UnsubscribeNobody(k) == subscribers
Unsubscribe(k) == subscribers \ {k}

SubscriberCloses(k) ==
    /\ MicrotasksFirst
    /\ ServerHears(up[k])
    /\ up' = [up EXCEPT ![k] = ServerClosed(@)]
    /\ subscribers' = Unsubscribe(k)
    /\ UNCHANGED <<version, known, server, pending, snapshot, down, seen, http, breaks>>

\* handleRequest: the store is asked and may have to wait for the app-server; what it
\* answers or throws becomes the response.
HandleRequest(r) ==
    /\ MicrotasksFirst
    /\ http[r] = "asked" /\ server = "up"
    /\ http' = [http EXCEPT ![r] = "working"]
    /\ UNCHANGED <<version, known, bridgeVars, up, down, seen, breaks>>

\* stop: clients are closed and forgotten, then it waits for what is still open. The
\* store, whose dispose rejects what waits for the app-server, is disposed of later.
ClosesNobody(k) == up[k]
ClosesClient(k) == IF k \in subscribers THEN ServerCloses(up[k]) ELSE up[k]

Stop ==
    /\ MicrotasksFirst
    /\ server = "up"
    /\ server' = "stopping"
    /\ up' = [k \in Clients |-> ClosesClient(k)]
    /\ subscribers' = {}
    /\ UNCHANGED <<version, known, pending, snapshot, down, seen, http, breaks>>

Stopped ==
    /\ server = "stopping"
    /\ \A k \in Clients : up[k].server \in {"none", "closed"}
    /\ \A r \in Requests : http[r] # "working"
    /\ server' = "stopped"
    /\ UNCHANGED <<version, known, subscribers, pending, snapshot, up, down, seen, http, breaks>>

-----------------------------------------------------------------------------
(* The hub.                                                                *)

\* handleUpgrade: the hub answers 404 when the registry has no such bridge; else it
\* accepts the browser and connects to the bridge (proxyTurnStream).
Connect(k) ==
    /\ down[k] = NoSocket
    /\ \/ /\ down' = [down EXCEPT ![k] = [NoSocket EXCEPT
                          !.client = "connecting", !.server = "open",
                          !.toClient = <<Frame("open", 0)>>]]
          /\ up' = [up EXCEPT ![k] = [NoSocket EXCEPT !.client = "connecting"]]
       \/ /\ down' = [down EXCEPT ![k] = [NoSocket EXCEPT !.client = "closed"]]
          /\ UNCHANGED up
    /\ UNCHANGED <<version, known, bridgeVars, seen, http, breaks>>

\* A frame from the bridge goes on to a browser that is open; the end of one socket
\* closes the other (safeClose).
Forwards(s, f) == IF s.server = "open" THEN ToClient(s, f) ELSE s

KeepsDown(s)  == s
ClosesDown(s) == ServerCloses(s)
KeepsUp(s)    == s
ClosesUp(s)   == ClientCloses(s)

FromBridge(k) ==
    LET f == Head(up[k].toClient) IN
    /\ ClientHears(up[k])
    /\ \/ /\ f.kind = "open"
          /\ up' = [up EXCEPT ![k] = ClientOpens(@)]
          /\ UNCHANGED down
       \/ /\ IsData(f)
          /\ up' = [up EXCEPT ![k] = ClientTakes(@)]
          /\ down' = [down EXCEPT ![k] = Forwards(@, f)]
       \/ /\ IsEnd(f)
          /\ up' = [up EXCEPT ![k] = ClientClosed(@)]
          /\ down' = [down EXCEPT ![k] = ClosesDown(@)]
    /\ UNCHANGED <<version, known, bridgeVars, seen, http, breaks>>

FromBrowser(k) ==
    /\ ServerHears(down[k])
    /\ down' = [down EXCEPT ![k] = ServerClosed(@)]
    /\ up' = [up EXCEPT ![k] = ClosesUp(@)]
    /\ UNCHANGED <<version, known, bridgeVars, seen, http, breaks>>

\* forwardRequestToBridge: 404 without a bridge; else the bridge's answer, or 502 when
\* the exchange with it fails, before the bridge saw the request or after.
ForwardRequest(r) ==
    /\ http[r] = "none"
    /\ \E next \in {"asked", "failed"} : http' = [http EXCEPT ![r] = next]
    /\ UNCHANGED <<version, known, bridgeVars, up, down, seen, breaks>>

RelayAnswer(r) ==
    /\ http[r] = "working"
    /\ http' = [http EXCEPT ![r] = "done"]
    /\ UNCHANGED <<version, known, bridgeVars, up, down, seen, breaks>>

UpstreamError(r) ==
    /\ \/ http[r] = "asked" /\ server # "up" /\ UNCHANGED breaks
       \/ /\ http[r] \in {"asked", "working"} /\ breaks < MaxBreaks
          /\ breaks' = breaks + 1
    /\ http' = [http EXCEPT ![r] = "failed"]
    /\ UNCHANGED <<version, known, bridgeVars, up, down, seen>>

-----------------------------------------------------------------------------
(* The browser, and the network.                                           *)

BrowserReceives(k) ==
    LET f == Head(down[k].toClient) IN
    /\ ClientHears(down[k])
    /\ \/ /\ f.kind = "open"
          /\ down' = [down EXCEPT ![k] = ClientOpens(@)]
          /\ UNCHANGED seen
       \/ /\ IsData(f)
          /\ down' = [down EXCEPT ![k] = ClientTakes(@)]
          /\ seen' = IF down[k].client = "open" THEN [seen EXCEPT ![k] = f.version] ELSE seen
       \/ /\ IsEnd(f)
          /\ down' = [down EXCEPT ![k] = ClientClosed(@)]
          /\ UNCHANGED seen
    /\ UNCHANGED <<version, known, bridgeVars, up, http, breaks>>

BrowserCloses(k) ==
    /\ down[k].client \in {"connecting", "open"}
    /\ down' = [down EXCEPT ![k] = ClientCloses(@)]
    /\ UNCHANGED <<version, known, bridgeVars, up, seen, http, breaks>>

\* A link breaks: what was on the wire is lost, and each end learns of it.
Broken(s) == [s EXCEPT !.toClient = IF s.client = "closed" THEN <<>> ELSE <<Reset>>,
                       !.toServer = IF s.server = "closed" THEN <<>> ELSE <<Reset>>]
Linked(s) == "none" \notin {s.client, s.server} /\ {s.client, s.server} # {"closed"}

Break(k) ==
    /\ breaks < MaxBreaks
    /\ breaks' = breaks + 1
    /\ \/ /\ Linked(up[k])
          /\ up' = [up EXCEPT ![k] = Broken(@)]
          /\ UNCHANGED down
       \/ /\ Linked(down[k])
          /\ down' = [down EXCEPT ![k] = Broken(@)]
          /\ UNCHANGED up
    /\ UNCHANGED <<version, known, bridgeVars, seen, http>>

BridgeSteps(k) == Accept(k) \/ HelloSent(k) \/ StateSent(k) \/ SubscriberCloses(k)
HubSteps(k)    == FromBridge(k) \/ FromBrowser(k)
HttpSteps(r)   == HandleRequest(r) \/ RelayAnswer(r) \/ UpstreamError(r)

Next ==
    \/ TurnEvent \/ Stop \/ Stopped
    \/ \E k \in Clients :
          \/ Connect(k) \/ BridgeSteps(k) \/ HubSteps(k)
          \/ BrowserReceives(k) \/ BrowserCloses(k) \/ Break(k)
    \/ \E r \in Requests : ForwardRequest(r) \/ HttpSteps(r)

Spec == Init /\ [][Next]_vars

\* What is on the wire arrives, what runs to completion runs, and the app-server
\* answers. Nobody has to open or close a stream, or to stop the bridge.
Fairness ==
    /\ \A k \in Clients :
          /\ WF_vars(Accept(k)) /\ WF_vars(HelloSent(k)) /\ WF_vars(StateSent(k))
          /\ WF_vars(SubscriberCloses(k))
          /\ WF_vars(FromBridge(k)) /\ WF_vars(FromBrowser(k)) /\ WF_vars(BrowserReceives(k))
    /\ \A r \in Requests : WF_vars(HttpSteps(r))
    /\ WF_vars(Stopped)

FairSpec == Spec /\ Fairness

-----------------------------------------------------------------------------
(* Properties.                                                             *)

\* A stream is over for its reader once its end of the socket closes.
Ended == {k \in Clients : down[k].client \in {"closing", "closed"}}

Stream == INSTANCE TurnFeed WITH ended <- Ended

\* What a browser shows of a turn has no gap, no repetition and nothing out of order,
\* from the initial state of registerSubscriber through the proxy to the page, although
\* a client is subscribed before its state is sent.
ImplementsFeed == Stream!Feed

Shows(k, v) == seen[k] # None /\ seen[k] >= v

\* A browser whose stream stays open is shown every event of the turn.
CatchesUp ==
    \A k \in Clients : \A v \in 1..MaxEvents :
        (seen[k] # None /\ version >= v) ~> (k \in Ended \/ Shows(k, v))

\* Events go to the clients that are there: none is forgotten while its socket is open,
\* and none is kept once it is closed.
SubscribersAreOpen == server = "up" => subscribers = {k \in Clients : up[k].server = "open"}

\* A stream that ends at either end ends at the other, whoever closed it and whatever
\* was under way: no page waits for a bridge that is gone, no bridge serves a page that
\* is gone.
EndsTogether ==
    \A k \in Clients :
        (down[k].client = "closed" \/ up[k].server = "closed") ~>
            (down[k].client = "closed" /\ (up[k].server = "closed" \/ up[k] = NoSocket))

\* stop comes to its end, if the app-server answers what the store is asked.
StopEnds == server = "stopping" ~> server = "stopped"
=============================================================================
