---------------------------- MODULE PwaWorkspaces ----------------------------
(***************************************************************************)
(* How the PWA chooses what it shows, packages/pwa/src/app.js: the         *)
(* workspaces the hub lists (one for each bridge), the selected workspace  *)
(* and thread, the thread lists, conversations that are not sent yet, and  *)
(* the reading of the selected thread. What is shown of one thread's turns *)
(* is the subject of PwaThreadView.                                        *)
(*                                                                         *)
(* A handler runs to its end or to its await; what follows the await is a  *)
(* step of its own, and finds the state as the steps between have left it. *)
(* Requests may fail, bridges come and go at the hub, and threads are      *)
(* deleted (external). Rendering and status lines are left out.            *)
(***************************************************************************)
EXTENDS Naturals

CONSTANTS
    Bridges,      \* the workspaces, each of one bridge
    Threads,      \* the threads they have, or will have
    Home,         \* the bridge of each thread
    Made,         \* the threads there are at the start
    None,         \* null
    Stored,       \* bound: the selections the last visit may have stored
    MaxEvents     \* bound: what the user does, bridges and threads that come and go,
                  \* requests that fail

\* draftThreadIdForBridge
Draft(b) == <<"draft", b>>
Drafts == {Draft(b) : b \in Bridges}
IsDraft(t) == t \in Drafts

ASSUME PwaWorkspacesAssumption ==
    /\ Home \in [Threads -> Bridges]
    /\ None \notin Bridges \cup Threads \cup Drafts
    /\ Threads \cap Drafts = {}
    /\ Made \subseteq Threads
    /\ Stored \subseteq [bridge : Bridges \cup {None}, thread : Threads \cup Drafts \cup {None}]
    /\ MaxEvents \in Nat

VARIABLES
    \* the hub's list, and the threads that exist
    live, exist,
    \* fields of state; draftThreadByBridge is the bridges with a draft
    bridges, selectedBridgeId, selectedThreadId, threadByBridge, draftThreadByBridge,
    threadDetail,             \* the thread that was read last, and from which bridge
    isThreadSelectionLoading, refreshQueued, polling, requestCounter,
    \* calls that wait: loadBridges, loadThreads, the reading of the thread,
    \* refreshThreadsForSelectedBridge by the bridge it asks, and sendMessage
    connecting, loads, detailRequest, refreshes, sending,
    events,
    \* for the properties: an answer came to another workspace than it was asked in, or
    \* a thread of such a list was clicked, or the last visit ended so
    crossed

selection == <<selectedBridgeId, selectedThreadId>>
reading   == <<threadDetail, isThreadSelectionLoading, refreshQueued, polling, detailRequest>>
world     == <<live, exist>>
vars == <<world, events, bridges, selection, threadByBridge, draftThreadByBridge, reading,
          requestCounter, connecting, loads, refreshes, sending, crossed>>

View == [bridge : Bridges, thread : Threads]
NoSend == [stage |-> "none", bridge |-> None, thread |-> None]

TypeOK ==
    /\ live \subseteq Bridges /\ exist \subseteq Threads /\ bridges \subseteq Bridges
    /\ selectedBridgeId \in Bridges \cup {None}
    /\ selectedThreadId \in Threads \cup Drafts \cup {None}
    /\ threadByBridge \in [Bridges -> SUBSET Threads]
    /\ draftThreadByBridge \subseteq Bridges
    /\ threadDetail \in View \cup {None}
    /\ detailRequest \in [bridge : Bridges, thread : Threads] \cup {None}
    /\ {isThreadSelectionLoading, refreshQueued, polling, crossed} \subseteq BOOLEAN
    /\ requestCounter \in 0..(MaxEvents + 1)
    /\ connecting \in {"none", "asked", "security"}
    /\ loads \subseteq [id : 1..(MaxEvents + 1), bridge : Bridges, preferred : Threads \cup Drafts \cup {None}]
    /\ refreshes \subseteq Bridges
    /\ sending \in [stage : {"none", "sent", "listing"}, bridge : Bridges \cup {None},
                    thread : Threads \cup Drafts \cup {None}]
    /\ events \in 0..MaxEvents

\* One more of the events the bound counts.
Happens == events < MaxEvents /\ events' = events + 1

Own(b) == {t \in exist : Home[t] = b}

\* Thread or conversation t, or none, is one of workspace b.
Belongs(t, b) ==
    \/ t = None
    \/ t \in Threads /\ Home[t] = b
    \/ t \in Drafts /\ t = Draft(b)

\* restoreState: the selection of the last visit, whose thread may be gone by now and,
\* if an answer crossed workspaces then, foreign; then loadBridges is called.
Init ==
    /\ live = Bridges
    /\ exist = Made
    /\ \E s \in Stored : selectedBridgeId = s.bridge /\ selectedThreadId = s.thread
    /\ crossed = ~Belongs(selectedThreadId, selectedBridgeId)
    /\ bridges = {}
    /\ threadByBridge = [b \in Bridges |-> {}]
    /\ draftThreadByBridge = {}
    /\ threadDetail = None /\ detailRequest = None
    /\ isThreadSelectionLoading = FALSE /\ refreshQueued = FALSE /\ polling = FALSE
    /\ requestCounter = 0 /\ loads = {} /\ refreshes = {}
    /\ connecting = "asked"
    /\ sending = NoSend
    /\ events = 0

-----------------------------------------------------------------------------
(* Reading the selected thread.                                            *)

\* refreshThreadDetail up to its await, for the selection <<b, t>> and the flag queued.
RefreshThreadDetail(b, t, queued) ==
    IF b = None \/ t = None \/ IsDraft(t)
    THEN refreshQueued' = queued /\ UNCHANGED <<polling, detailRequest>>
    ELSE IF detailRequest # None
    THEN refreshQueued' = TRUE /\ UNCHANGED <<polling, detailRequest>>
    ELSE /\ refreshQueued' = FALSE
         /\ polling' = TRUE
         /\ detailRequest' = [bridge |-> b, thread |-> t]

\* Nothing is shown or read any more; polling goes on if it did (p).
NothingShown(p) ==
    /\ threadDetail' = None
    /\ isThreadSelectionLoading' = FALSE
    /\ refreshQueued' = FALSE
    /\ polling' = p
    /\ UNCHANGED detailRequest

\* openThread in workspace b, with t selected by now or not (was). A thread that is
\* selected already keeps what is shown, unless that is of another workspace.
OpenThread(b, t, was) ==
    LET elsewhere == threadDetail # None /\ threadDetail.bridge # b
        reset == was # t \/ elsewhere
    IN  IF b = None
        THEN UNCHANGED reading
        ELSE /\ threadDetail' = IF reset THEN None ELSE threadDetail
             /\ isThreadSelectionLoading' = (reset \/ isThreadSelectionLoading)
             /\ RefreshThreadDetail(b, t, IF reset THEN FALSE ELSE refreshQueued)

StillSelected(r) == selectedBridgeId = r.bridge /\ selectedThreadId = r.thread

\* A bug: what was asked for while a read was under way is forgotten.
QueueForgotten ==
    /\ detailRequest' = None
    /\ refreshQueued' = FALSE
    /\ UNCHANGED polling

\* The finally of refreshThreadDetail: what was asked for meanwhile is read next.
QueueServed ==
    LET t == selectedThreadId
        again == refreshQueued /\ selectedBridgeId # None /\ t # None
        reads == again /\ ~IsDraft(t)
    IN  /\ refreshQueued' = (refreshQueued /\ ~again)
        /\ detailRequest' = IF reads THEN [bridge |-> selectedBridgeId, thread |-> t] ELSE None
        /\ polling' = (polling \/ reads)

\* A bridge has the detail of its own threads only.
DetailReturns ==
    LET r == detailRequest IN
    /\ r # None
    /\ \/ /\ r.bridge \in live /\ r.thread \in Own(r.bridge)
          /\ threadDetail' = IF StillSelected(r) THEN r ELSE threadDetail
          /\ UNCHANGED events
       \/ /\ \/ r.bridge \notin live /\ UNCHANGED events
             \/ r.thread \notin Own(r.bridge) /\ UNCHANGED events
             \/ Happens
          /\ UNCHANGED threadDetail
    /\ isThreadSelectionLoading' = (isThreadSelectionLoading /\ ~StillSelected(r))
    /\ QueueServed
    /\ UNCHANGED <<live, exist, bridges, selection, threadByBridge, draftThreadByBridge,
                   requestCounter, connecting, loads, refreshes, sending, crossed>>

-----------------------------------------------------------------------------
(* The list of workspaces.                                                 *)

\* The Connect button (bound: one call at a time).
LoadBridges ==
    /\ connecting = "none" /\ Happens
    /\ connecting' = "asked"
    /\ UNCHANGED <<world, bridges, selection, threadByBridge, draftThreadByBridge, reading,
                   requestCounter, loads, refreshes, sending, crossed>>

\* A call of loadThreads whose answer will count.
Awaited == {l \in loads : l.id = requestCounter}

\* A workspace that is not listed is deselected, and the first one selected; what is
\* shown stays until loadThreads has its answer.
BridgesReturn ==
    LET gone == selectedBridgeId \notin live
    IN  /\ connecting = "asked"
        /\ connecting' = "security"
        /\ bridges' = live
        /\ draftThreadByBridge' = draftThreadByBridge \cap live
        /\ selectedThreadId' = IF gone /\ selectedBridgeId # None THEN None ELSE selectedThreadId
        /\ IF ~gone THEN UNCHANGED selectedBridgeId
           ELSE IF live = {} THEN selectedBridgeId' = None
           ELSE selectedBridgeId' \in live
        /\ crossed' = (crossed \/ (gone /\ Awaited # {}))
        /\ UNCHANGED <<world, events, threadByBridge, reading, requestCounter, loads, refreshes, sending>>

\* clearSelectionState
ClearSelectionState ==
    /\ selectedBridgeId' = None /\ selectedThreadId' = None
    /\ draftThreadByBridge' = {}
    /\ NothingShown(FALSE)
    /\ crossed' = (Awaited # {})

BridgesFail ==
    /\ connecting = "asked" /\ Happens
    /\ connecting' = "none"
    /\ bridges' = {}
    /\ ClearSelectionState
    /\ UNCHANGED <<live, exist, threadByBridge, requestCounter, loads, refreshes, sending>>

-----------------------------------------------------------------------------
(* The threads of a workspace.                                             *)

\* loadThreads up to its await.
LoadThreads(b, preferred) ==
    LET switching == selectedBridgeId # b
    IN  /\ requestCounter' = requestCounter + 1
        /\ loads' = loads \cup {[id |-> requestCounter + 1, bridge |-> b, preferred |-> preferred]}
        /\ selectedBridgeId' = b
        /\ IF switching
           THEN /\ selectedThreadId' = None
                /\ threadDetail' = None
                /\ isThreadSelectionLoading' = TRUE
                /\ refreshQueued' = FALSE
                /\ UNCHANGED <<polling, detailRequest>>
           ELSE UNCHANGED <<selectedThreadId, reading>>
        /\ crossed' = (crossed /\ ~switching)

\* A click on a workspace of the drawer.
SelectWorkspace(b) ==
    /\ b \in bridges /\ Happens
    /\ LoadThreads(b, IF selectedBridgeId = b THEN selectedThreadId ELSE None)
    /\ UNCHANGED <<world, bridges, threadByBridge, draftThreadByBridge, connecting, refreshes,
                   sending>>

\* loadBridges after refreshHubSecurityStatus.
SecurityReturns ==
    /\ connecting = "security"
    /\ connecting' = "none"
    /\ IF selectedBridgeId # None
       THEN /\ LoadThreads(selectedBridgeId, selectedThreadId)
            /\ UNCHANGED draftThreadByBridge
       ELSE ClearSelectionState /\ UNCHANGED <<requestCounter, loads>>
    /\ UNCHANGED <<world, events, bridges, threadByBridge, refreshes, sending>>

\* A bug: every answer counts.
NeverStale(l) == TRUE

\* "Ignore stale responses when a newer request has started."
Newest(l) == l.id = requestCounter

Ignored(l) ==
    /\ ~Newest(l)
    /\ loads' = loads \ {l}
    /\ UNCHANGED <<world, events, bridges, selection, threadByBridge, draftThreadByBridge, reading,
                   requestCounter, connecting, refreshes, sending, crossed>>

\* The answer of loadThreads: a conversation not sent yet stays selected, else the
\* preferred thread if it is listed, else the active or first one.
ThreadsReturn(l) ==
    /\ Newest(l) /\ l.bridge \in live
    /\ loads' = loads \ {l}
    /\ LET items == Own(l.bridge) IN
          /\ threadByBridge' = [threadByBridge EXCEPT ![l.bridge] = items]
          /\ \/ /\ IsDraft(l.preferred)
                /\ draftThreadByBridge' = draftThreadByBridge \cup {l.bridge}
                /\ selectedThreadId' = l.preferred
                /\ NothingShown(FALSE)
             \/ /\ ~IsDraft(l.preferred) /\ items = {}
                /\ selectedThreadId' = None
                /\ NothingShown(FALSE)
                /\ UNCHANGED draftThreadByBridge
             \/ /\ ~IsDraft(l.preferred)
                /\ \E t \in IF l.preferred \in items THEN {l.preferred} ELSE items :
                      /\ selectedThreadId' = t
                      /\ OpenThread(selectedBridgeId, t, t)
                /\ UNCHANGED draftThreadByBridge
    /\ UNCHANGED <<world, events, bridges, selectedBridgeId, requestCounter, connecting, refreshes,
                   sending, crossed>>

ThreadsFail(l) ==
    /\ Newest(l)
    /\ \/ l.bridge \notin live /\ UNCHANGED events
       \/ Happens
    /\ loads' = loads \ {l}
    /\ threadByBridge' = [threadByBridge EXCEPT ![l.bridge] = {}]
    /\ isThreadSelectionLoading' = FALSE
    /\ UNCHANGED <<live, exist, bridges, selection, draftThreadByBridge, threadDetail,
                   refreshQueued, polling, detailRequest, requestCounter, connecting,
                   refreshes, sending, crossed>>

\* A click on a thread of the selected workspace.
SelectThread(t) ==
    /\ selectedBridgeId \in bridges /\ t \in threadByBridge[selectedBridgeId] /\ Happens
    /\ selectedThreadId' = t
    /\ OpenThread(selectedBridgeId, t, selectedThreadId)
    /\ crossed' = (crossed \/ Home[t] # selectedBridgeId)
    /\ UNCHANGED <<world, bridges, selectedBridgeId, threadByBridge, draftThreadByBridge,
                   requestCounter, connecting, loads, refreshes, sending>>

\* startNewConversationDraft; the drawer offers it for the selected workspace only.
NewConversation ==
    /\ selectedBridgeId \in bridges /\ Happens
    /\ draftThreadByBridge' = draftThreadByBridge \cup {selectedBridgeId}
    /\ selectedThreadId' = Draft(selectedBridgeId)
    /\ NothingShown(FALSE)
    /\ UNCHANGED <<world, bridges, selectedBridgeId, threadByBridge, requestCounter, connecting,
                   loads, refreshes, sending, crossed>>

\* The poll timer: it reads the thread and asks for the list. Bound: one list at a time.
Poll ==
    /\ polling /\ selectedBridgeId # None /\ selectedThreadId # None
    /\ refreshes = {}
    /\ RefreshThreadDetail(selectedBridgeId, selectedThreadId, refreshQueued)
    /\ refreshes' = refreshes \cup {selectedBridgeId}
    /\ UNCHANGED <<world, events, bridges, selection, threadByBridge, draftThreadByBridge, threadDetail,
                   isThreadSelectionLoading, requestCounter, connecting, loads, sending, crossed>>

\* A bug: a workspace that has a list keeps it.
ListKept(b, items, t) ==
    /\ threadByBridge' = [x \in Bridges |-> IF x = selectedBridgeId /\ threadByBridge[x] = {}
                                           THEN items ELSE threadByBridge[x]]
    /\ t \in IF selectedThreadId = None /\ items # {} THEN items ELSE {selectedThreadId}

\* refreshThreadsForSelectedBridge after its await: whatever workspace is selected by
\* now gets the list of b. A selection without a thread takes one from it (t).
ListApplied(b, items, t) ==
    /\ threadByBridge' = IF selectedBridgeId = None THEN threadByBridge
                         ELSE [threadByBridge EXCEPT ![selectedBridgeId] = items]
    /\ t \in IF selectedThreadId = None /\ items # {} THEN items ELSE {selectedThreadId}

\* The list of b, or its failure, which is ignored.
ListAnswered(b, t) ==
    \/ /\ b \in live
       /\ ListApplied(b, Own(b), t)
       /\ UNCHANGED events
    \/ /\ \/ b \notin live /\ UNCHANGED events
          \/ Happens
       /\ t = selectedThreadId
       /\ UNCHANGED threadByBridge

ListReturns(b) ==
    /\ b \in refreshes
    /\ refreshes' = refreshes \ {b}
    /\ \E t \in Threads \cup Drafts \cup {None} : ListAnswered(b, t) /\ selectedThreadId' = t
    /\ crossed' = (crossed \/ selectedBridgeId # b)
    /\ UNCHANGED <<live, exist, bridges, selectedBridgeId, draftThreadByBridge, reading,
                   requestCounter, connecting, loads, sending>>

-----------------------------------------------------------------------------
(* A message: to the selected thread, or the first of a new conversation.  *)

SendMessage ==
    /\ sending = NoSend /\ selectedBridgeId # None /\ selectedThreadId # None /\ Happens
    /\ sending' = [stage |-> "sent", bridge |-> selectedBridgeId, thread |-> selectedThreadId]
    /\ UNCHANGED <<world, bridges, selection, threadByBridge, draftThreadByBridge, reading,
                   requestCounter, connecting, loads, refreshes, crossed>>

\* The message is on its way in a thread: an open conversation becomes a thread, in
\* whatever workspace is selected by now. Then the list is asked for; from then on
\* sending holds the workspace asked and the thread to open, if it is new.
SendReturns ==
    LET b == sending.bridge
        draft == IsDraft(sending.thread)
    IN  /\ sending.stage = "sent" /\ b \in live
        /\ \E t \in IF draft THEN {u \in Threads \ exist : Home[u] = b} ELSE {sending.thread} :
              /\ exist' = exist \cup {t}
              /\ IF draft
                 THEN /\ draftThreadByBridge' = draftThreadByBridge \ {selectedBridgeId}
                      /\ selectedThreadId' = t
                      /\ crossed' = (crossed \/ selectedBridgeId # b)
                 ELSE UNCHANGED <<draftThreadByBridge, selectedThreadId, crossed>>
              /\ polling' = (polling \/ (/\ selectedBridgeId # None
                                         /\ selectedThreadId' \notin Drafts \cup {None}))
              /\ sending' = IF selectedBridgeId = None THEN NoSend
                            ELSE [stage |-> "listing", bridge |-> selectedBridgeId,
                                  thread |-> IF draft THEN t ELSE None]
        /\ UNCHANGED <<live, events, bridges, selectedBridgeId, threadByBridge, threadDetail,
                       isThreadSelectionLoading, refreshQueued, detailRequest, requestCounter,
                       connecting, loads, refreshes>>

SendFails ==
    /\ sending.stage = "sent"
    /\ \/ sending.bridge \notin live /\ UNCHANGED events
       \/ Happens
    /\ sending' = NoSend
    /\ UNCHANGED <<live, exist, bridges, selection, threadByBridge, draftThreadByBridge, reading,
                   requestCounter, connecting, loads, refreshes, crossed>>

\* The list has come: the new thread is opened, or the selected one read again.
SendEnds ==
    LET b == sending.bridge
        new == sending.thread # None
    IN  /\ sending.stage = "listing"
        /\ sending' = NoSend
        /\ \E t \in Threads \cup Drafts \cup {None} :
              /\ ListAnswered(b, t)
              /\ IF new /\ selectedBridgeId # None
                 THEN /\ selectedThreadId' = sending.thread
                      /\ OpenThread(selectedBridgeId, sending.thread, t)
                 ELSE /\ selectedThreadId' = t
                      /\ IF new THEN UNCHANGED reading
                         ELSE /\ RefreshThreadDetail(selectedBridgeId, t, refreshQueued)
                              /\ UNCHANGED <<threadDetail, isThreadSelectionLoading>>
        /\ crossed' = (\/ crossed
                       \/ selectedBridgeId # b
                       \/ new /\ selectedBridgeId # Home[sending.thread])
        /\ UNCHANGED <<live, exist, bridges, selectedBridgeId, draftThreadByBridge,
                       requestCounter, connecting, loads, refreshes>>

-----------------------------------------------------------------------------
\* External: a bridge registers at the hub or leaves it; a thread is made or deleted
\* in the editor.
BridgeComesOrGoes(b) ==
    /\ Happens
    /\ live' = IF b \in live THEN live \ {b} ELSE live \cup {b}
    /\ UNCHANGED <<exist, bridges, selection, threadByBridge, draftThreadByBridge, reading,
                   requestCounter, connecting, loads, refreshes, sending, crossed>>

Deleted(t) ==
    /\ Happens
    /\ t \in exist /\ exist' = exist \ {t}
    /\ UNCHANGED <<live, bridges, selection, threadByBridge, draftThreadByBridge, reading,
                   requestCounter, connecting, loads, refreshes, sending, crossed>>

User ==
    \/ LoadBridges \/ NewConversation \/ SendMessage
    \/ \E b \in Bridges : SelectWorkspace(b)
    \/ \E t \in Threads : SelectThread(t)

Returns ==
    \/ DetailReturns
    \/ BridgesReturn \/ BridgesFail \/ SecurityReturns
    \/ \E l \in loads : Ignored(l) \/ ThreadsReturn(l) \/ ThreadsFail(l)
    \/ \E b \in Bridges : ListReturns(b)
    \/ SendReturns \/ SendFails \/ SendEnds

Environment ==
    \/ \E b \in Bridges : BridgeComesOrGoes(b)
    \/ \E t \in Threads : Deleted(t)

Next == User \/ Poll \/ Returns \/ Environment

\* Every request is answered or fails, and the timer fires; the user may do nothing.
Fairness ==
    /\ WF_vars(Poll) /\ WF_vars(DetailReturns)
    /\ WF_vars(BridgesReturn \/ BridgesFail) /\ WF_vars(SecurityReturns)
    /\ WF_vars(\E l \in loads : Ignored(l) \/ ThreadsReturn(l) \/ ThreadsFail(l))
    /\ \A b \in Bridges : WF_vars(ListReturns(b))
    /\ WF_vars(SendReturns \/ SendFails) /\ WF_vars(SendEnds)

Spec == Init /\ [][Next]_vars
FairSpec == Spec /\ Fairness

-----------------------------------------------------------------------------
\* The selected thread is one of the selected workspace, and so is the open
\* conversation, unless an answer came to another workspace than it was asked in
\* (refreshThreadsForSelectedBridge, sendMessage and loadBridges read selectedBridgeId
\* again after their awaits), or the user clicked a thread such an answer had put into
\* the list; the next change of the workspace mends the selection, not the list.
SelectionBelongs == crossed \/ Belongs(selectedThreadId, selectedBridgeId)

\* A list that went to the wrong workspace does not stay: while a workspace is selected
\* and polled, its list becomes one of its own threads.
ListsRepaired ==
    \A b \in Bridges :
        <>[](selectedBridgeId = b /\ selectedThreadId # None /\ polling /\ b \in live)
            => <>[](\A t \in threadByBridge[b] : Home[t] = b)

\* "Loading" does not stay either: it goes away again and again while the selection
\* does not change, whatever reads were queued, dropped or failed.
LoadingEnds ==
    \A b \in Bridges, t \in Threads :
        <>[](selectedBridgeId = b /\ selectedThreadId = t) => []<>~isThreadSelectionLoading

\* "Immediately clear old thread content so workspace switches never display stale
\* chat", refuted by TLC (README, section 4): what is shown is of the selected workspace.
NoStaleChat == threadDetail # None => threadDetail.bridge = selectedBridgeId
=============================================================================
