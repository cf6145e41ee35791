------------------------ MODULE PwaWorkspaces_proofs ------------------------
(***************************************************************************)
(* Theorems about PwaWorkspaces for any sets of workspaces and threads and *)
(* any number of events.                                                   *)
(***************************************************************************)
EXTENDS PwaWorkspaces, TLAPS

-----------------------------------------------------------------------------
(* The invariant.                                                          *)

\* The answer that will count is for the selected workspace, and so is the thread it
\* will put back.
Preferred ==
    ~crossed => \A l \in loads :
        l.id = requestCounter => l.bridge = selectedBridgeId /\ Belongs(l.preferred, l.bridge)

\* Every call of loadThreads is one of an event, or of the loadBridges of the start.
Counted ==
    /\ requestCounter + (IF connecting = "none" THEN 0 ELSE 1) <= events + 1
    /\ \A l \in loads : l.id <= requestCounter

\* A message that is on its way has its workspace, and a thread or open conversation.
Sent ==
    /\ sending.stage # "none" => sending.bridge \in Bridges
    /\ sending.stage = "sent" => sending.thread # None
    /\ sending.stage = "listing" => sending.thread \notin Drafts

Inv == TypeOK /\ SelectionBelongs /\ Preferred /\ Counted /\ Sent

Places == Threads \cup Drafts \cup {None}

-----------------------------------------------------------------------------
(* Facts about the operators.                                              *)

LEMMA Constants ==
    /\ None \notin Bridges /\ None \notin Threads /\ None \notin Drafts
    /\ Threads \cap Drafts = {} /\ Home \in [Threads -> Bridges] /\ MaxEvents \in Nat
    /\ \A b \in Bridges : Draft(b) \in Drafts /\ Draft(b) \in Places
BY PwaWorkspacesAssumption DEF Drafts, Places

LEMMA Selection == SelectionBelongs <=> (crossed \/ Belongs(selectedThreadId, selectedBridgeId))
BY Zenon DEF SelectionBelongs

LEMMA SelectionNext ==
    SelectionBelongs' <=> (crossed' \/ Belongs(selectedThreadId', selectedBridgeId'))
BY Zenon DEF SelectionBelongs

\* What was asked before a step still holds after it, if the workspace stays.
LEMMA PreferredKept ==
    ASSUME Preferred, UNCHANGED <<selectedBridgeId, requestCounter>>, loads' \subseteq loads,
           crossed => crossed'
    PROVE  Preferred'
<1> SUFFICES ASSUME ~crossed', NEW l \in loads', l.id = requestCounter'
             PROVE  l.bridge = selectedBridgeId' /\ Belongs(l.preferred, l.bridge)
  BY Zenon DEF Preferred
<1>1. ~crossed /\ l \in loads /\ l.id = requestCounter /\ selectedBridgeId' = selectedBridgeId
  BY Zenon
<1> QED
  BY <1>1, Zenon DEF Preferred

LEMMA SelectionKept ==
    ASSUME SelectionBelongs, UNCHANGED selection, crossed => crossed'
    PROVE  SelectionBelongs'
<1>1. selectedBridgeId' = selectedBridgeId /\ selectedThreadId' = selectedThreadId
  BY Zenon DEF selection
<1> QED
  BY <1>1, Selection, SelectionNext, Zenon

\* Reading keeps its types, whatever the selection.
ReadingType ==
    /\ threadDetail \in View \cup {None}
    /\ detailRequest \in View \cup {None}
    /\ {isThreadSelectionLoading, refreshQueued, polling} \subseteq BOOLEAN

LEMMA RefreshType ==
    ASSUME TypeOK, NEW b \in Bridges \cup {None}, NEW t \in Places, NEW q \in BOOLEAN,
           RefreshThreadDetail(b, t, q)
    PROVE  /\ detailRequest' \in View \cup {None}
           /\ refreshQueued' \in BOOLEAN /\ polling' \in BOOLEAN
<1>1. /\ detailRequest \in View \cup {None} /\ refreshQueued \in BOOLEAN /\ polling \in BOOLEAN
  BY Zenon DEF TypeOK, View
<1>2. b \in Bridges /\ t \in Threads => [bridge |-> b, thread |-> t] \in View
  BY DEF View
<1>3. ~(b = None \/ t = None \/ IsDraft(t)) => b \in Bridges /\ t \in Threads
  BY DEF Places, IsDraft
<1> QED
  BY <1>1, <1>2, <1>3, Zenon DEF RefreshThreadDetail

LEMMA OpenType ==
    ASSUME TypeOK, NEW b \in Bridges \cup {None}, NEW t \in Places, NEW was, OpenThread(b, t, was)
    PROVE  ReadingType'
<1>1. ReadingType
  BY Zenon DEF TypeOK, ReadingType, View
<1>2. CASE b = None
  BY <1>1, <1>2, Zenon DEF OpenThread, ReadingType, reading
<1>3. CASE b # None
  <2> DEFINE elsewhere == threadDetail # None /\ threadDetail.bridge # b
             reset == was # t \/ elsewhere
  <2>1. /\ threadDetail' = IF reset THEN None ELSE threadDetail
        /\ isThreadSelectionLoading' = (reset \/ isThreadSelectionLoading)
        /\ RefreshThreadDetail(b, t, IF reset THEN FALSE ELSE refreshQueued)
    BY <1>3, Zenon DEF OpenThread
  <2>2. (IF reset THEN FALSE ELSE refreshQueued) \in BOOLEAN
    BY <1>1, Zenon DEF ReadingType
  <2>3. detailRequest' \in View \cup {None} /\ refreshQueued' \in BOOLEAN /\ polling' \in BOOLEAN
    BY <2>1, <2>2, RefreshType
  <2>4. isThreadSelectionLoading' \in BOOLEAN /\ threadDetail' \in View \cup {None}
    BY <1>1, <2>1, Zenon DEF ReadingType
  <2> QED
    BY <2>3, <2>4, Zenon DEF ReadingType
<1> QED
  BY <1>2, <1>3

LEMMA NothingType == ASSUME TypeOK, NEW p \in BOOLEAN, NothingShown(p) PROVE ReadingType'
BY Zenon DEF TypeOK, NothingShown, ReadingType, View

\* The types, by what they are about.
ListTypes ==
    /\ live \subseteq Bridges /\ exist \subseteq Threads /\ bridges \subseteq Bridges
    /\ threadByBridge \in [Bridges -> SUBSET Threads]
    /\ draftThreadByBridge \subseteq Bridges

SelectionType == selectedBridgeId \in Bridges \cup {None} /\ selectedThreadId \in Places

Load == [id : 1..(MaxEvents + 1), bridge : Bridges, preferred : Places]
Send == [stage : {"none", "sent", "listing"}, bridge : Bridges \cup {None}, thread : Places]

CallTypes ==
    /\ requestCounter \in 0..(MaxEvents + 1)
    /\ connecting \in {"none", "asked", "security"}
    /\ loads \subseteq Load
    /\ refreshes \subseteq Bridges
    /\ sending \in Send
    /\ events \in 0..MaxEvents

LEMMA Types ==
    TypeOK <=> ListTypes /\ SelectionType /\ CallTypes /\ ReadingType /\ crossed \in BOOLEAN
<1>1. TypeOK => ListTypes /\ SelectionType /\ CallTypes
  BY DEF TypeOK, ListTypes, SelectionType, CallTypes, Load, Send, Places
<1>2. TypeOK => ReadingType /\ crossed \in BOOLEAN
  BY Zenon DEF TypeOK, ReadingType, View
<1>3. ASSUME ListTypes, SelectionType, CallTypes, ReadingType, crossed \in BOOLEAN PROVE TypeOK
  BY <1>3, Zenon DEF TypeOK, ListTypes, SelectionType, CallTypes, ReadingType, View, Load, Send, Places
<1> QED
  BY <1>1, <1>2, <1>3, Zenon

LEMMA TypesNext ==
    TypeOK' <=> ListTypes' /\ SelectionType' /\ CallTypes' /\ ReadingType' /\ crossed' \in BOOLEAN
<1>1. TypeOK' => ListTypes' /\ SelectionType' /\ CallTypes'
  BY DEF TypeOK, ListTypes, SelectionType, CallTypes, Load, Send, Places
<1>2. TypeOK' => ReadingType' /\ crossed' \in BOOLEAN
  BY Zenon DEF TypeOK, ReadingType, View
<1>3. ASSUME ListTypes', SelectionType', CallTypes', ReadingType', crossed' \in BOOLEAN PROVE TypeOK'
  BY <1>3, Zenon DEF TypeOK, ListTypes, SelectionType, CallTypes, ReadingType, View, Load, Send, Places
<1> QED
  BY <1>1, <1>2, <1>3, Zenon

LEMMA ReadingKept == ASSUME ReadingType, UNCHANGED reading PROVE ReadingType'
BY Zenon DEF ReadingType, reading

LEMMA OneMore ==
    ASSUME TypeOK, Happens
    PROVE  events \in 0..MaxEvents /\ events' \in 0..MaxEvents /\ events' = events + 1
BY PwaWorkspacesAssumption, Types DEF CallTypes, Happens

\* Steps that fail count as events.
LEMMA MaybeMore ==
    ASSUME TypeOK, UNCHANGED events \/ Happens
    PROVE  events \in 0..MaxEvents /\ events' \in 0..MaxEvents /\ events' >= events
BY PwaWorkspacesAssumption, Types DEF CallTypes, Happens

LEMMA CountedKept ==
    ASSUME TypeOK, Counted, requestCounter' = requestCounter, loads' \subseteq loads,
           connecting' = connecting \/ connecting' = "none" \/ connecting = "asked",
           events' \in 0..MaxEvents, events' >= events
    PROVE  Counted'
<1>1. requestCounter \in Nat /\ events \in Nat
  BY PwaWorkspacesAssumption, Types DEF CallTypes
<1> DEFINE one(c) == IF c = "none" THEN 0 ELSE 1
<1>2. one(connecting') \in {0, 1} /\ one(connecting) \in {0, 1} /\ one(connecting') <= one(connecting)
  OBVIOUS
<1>3. requestCounter + one(connecting) <= events + 1
  BY DEF Counted
<1> HIDE DEF one
<1>4. events' \in Nat
  BY PwaWorkspacesAssumption
<1>5. requestCounter' + one(connecting') <= events' + 1
  BY <1>1, <1>2, <1>3, <1>4
<1>6. \A l \in loads' : l.id <= requestCounter'
  BY DEF Counted
<1> QED
  BY <1>5, <1>6 DEF Counted, one

-----------------------------------------------------------------------------
(* Reading.                                                                *)

LEMMA QueueType ==
    ASSUME TypeOK, QueueServed
    PROVE  detailRequest' \in View \cup {None} /\ refreshQueued' \in BOOLEAN /\ polling' \in BOOLEAN
<1>1. SelectionType /\ ReadingType
  BY Types
<1>2. selectedBridgeId # None /\ selectedThreadId # None /\ ~IsDraft(selectedThreadId)
          => [bridge |-> selectedBridgeId, thread |-> selectedThreadId] \in View
  BY <1>1 DEF SelectionType, Places, IsDraft, View
<1> QED
  BY <1>1, <1>2, Zenon DEF QueueServed, ReadingType

LEMMA DetailReturnsInv == Inv /\ DetailReturns => Inv'
<1> SUFFICES ASSUME Inv, DetailReturns PROVE Inv'
  OBVIOUS
<1>1. /\ TypeOK /\ SelectionBelongs /\ Preferred /\ Counted /\ Sent
      /\ ListTypes /\ SelectionType /\ CallTypes /\ ReadingType /\ crossed \in BOOLEAN
  BY Types, Zenon DEF Inv
<1>2. /\ UNCHANGED <<live, exist, bridges, selectedBridgeId, selectedThreadId, threadByBridge,
                     draftThreadByBridge, requestCounter, connecting, loads, refreshes, sending, crossed>>
      /\ detailRequest # None
      /\ threadDetail' \in {threadDetail, detailRequest}
      /\ isThreadSelectionLoading' = (isThreadSelectionLoading /\ ~StillSelected(detailRequest))
      /\ QueueServed
  BY Zenon DEF DetailReturns, selection
<1>3. events' \in 0..MaxEvents /\ events' >= events
  BY <1>1, MaybeMore DEF DetailReturns
<1>4. ListTypes' /\ SelectionType'
  BY <1>1, <1>2 DEF ListTypes, SelectionType
<1>5. CallTypes'
  BY <1>1, <1>2, <1>3 DEF CallTypes
<1>6. ReadingType'
  <2>1. detailRequest' \in View \cup {None} /\ refreshQueued' \in BOOLEAN /\ polling' \in BOOLEAN
    BY <1>1, <1>2, QueueType
  <2>2. isThreadSelectionLoading' \in BOOLEAN /\ threadDetail' \in View \cup {None}
    BY <1>1, <1>2, Zenon DEF ReadingType
  <2> QED
    BY <2>1, <2>2, Zenon DEF ReadingType
<1>7. TypeOK'
  BY <1>1, <1>2, <1>4, <1>5, <1>6, TypesNext
<1>8. SelectionBelongs' /\ Preferred'
  BY <1>1, <1>2, SelectionKept, PreferredKept DEF selection
<1>9. Counted'
  BY <1>1, <1>2, <1>3, CountedKept
<1>10. Sent'
  BY <1>1, <1>2 DEF Sent
<1> QED
  BY <1>7, <1>8, <1>9, <1>10 DEF Inv

LEMMA PollInv == Inv /\ Poll => Inv'
<1> SUFFICES ASSUME Inv, Poll PROVE Inv'
  OBVIOUS
<1>1. /\ TypeOK /\ SelectionBelongs /\ Preferred /\ Counted /\ Sent
      /\ ListTypes /\ SelectionType /\ CallTypes /\ ReadingType /\ crossed \in BOOLEAN
  BY Types, Zenon DEF Inv
<1>2. /\ UNCHANGED <<live, exist, events, bridges, selectedBridgeId, selectedThreadId, threadByBridge,
                     draftThreadByBridge, threadDetail, isThreadSelectionLoading,
                     requestCounter, connecting, loads, sending, crossed>>
      /\ RefreshThreadDetail(selectedBridgeId, selectedThreadId, refreshQueued)
      /\ selectedBridgeId # None /\ refreshes' = refreshes \cup {selectedBridgeId}
  BY Zenon DEF Poll, selection, world
<1>3. detailRequest' \in View \cup {None} /\ refreshQueued' \in BOOLEAN /\ polling' \in BOOLEAN
  <2>1. selectedBridgeId \in Bridges \cup {None} /\ selectedThreadId \in Places
    BY <1>1 DEF SelectionType
  <2>2. refreshQueued \in BOOLEAN
    BY <1>1, Zenon DEF ReadingType
  <2> QED
    BY <1>1, <1>2, <2>1, <2>2, RefreshType
<1>4. ListTypes' /\ SelectionType'
  BY <1>1, <1>2 DEF ListTypes, SelectionType
<1>5. CallTypes'
  BY <1>1, <1>2 DEF CallTypes, SelectionType
<1>6. ReadingType'
  BY <1>1, <1>2, <1>3, Zenon DEF ReadingType
<1>7. TypeOK'
  BY <1>1, <1>2, <1>4, <1>5, <1>6, TypesNext
<1>8. SelectionBelongs' /\ Preferred'
  BY <1>1, <1>2, SelectionKept, PreferredKept DEF selection
<1>9. Counted' /\ Sent'
  BY <1>1, <1>2 DEF Counted, Sent
<1> QED
  BY <1>7, <1>8, <1>9 DEF Inv

-----------------------------------------------------------------------------
(* Workspaces and their threads.                                           *)

LEMMA LoadBridgesInv == Inv /\ LoadBridges => Inv'
<1> SUFFICES ASSUME Inv, LoadBridges PROVE Inv'
  OBVIOUS
<1>1. /\ TypeOK /\ SelectionBelongs /\ Preferred /\ Counted /\ Sent
      /\ ListTypes /\ SelectionType /\ CallTypes /\ ReadingType /\ crossed \in BOOLEAN
  BY Types, Zenon DEF Inv
<1>2. /\ UNCHANGED <<live, exist, bridges, selectedBridgeId, selectedThreadId, threadByBridge,
                     draftThreadByBridge, reading, requestCounter, loads, refreshes, sending, crossed>>
      /\ connecting = "none" /\ connecting' = "asked" /\ Happens
  BY Zenon DEF LoadBridges, selection, world
<1>3. events \in 0..MaxEvents /\ events' \in 0..MaxEvents /\ events' = events + 1
  BY <1>1, <1>2, OneMore
<1>4. ListTypes' /\ SelectionType'
  BY <1>1, <1>2 DEF ListTypes, SelectionType
<1>5. CallTypes'
  BY <1>1, <1>2, <1>3 DEF CallTypes
<1>6. TypeOK'
  BY <1>1, <1>2, <1>4, <1>5, TypesNext, ReadingKept
<1>7. SelectionBelongs' /\ Preferred'
  BY <1>1, <1>2, SelectionKept, PreferredKept DEF selection
<1>8. Counted'
  BY <1>1, <1>2, <1>3, PwaWorkspacesAssumption DEF Counted, CallTypes
<1>9. Sent'
  BY <1>1, <1>2 DEF Sent
<1> QED
  BY <1>6, <1>7, <1>8, <1>9 DEF Inv

LEMMA BridgesReturnInv == Inv /\ BridgesReturn => Inv'
<1> SUFFICES ASSUME Inv, BridgesReturn PROVE Inv'
  OBVIOUS
<1>1. /\ TypeOK /\ SelectionBelongs /\ Preferred /\ Counted /\ Sent
      /\ ListTypes /\ SelectionType /\ CallTypes /\ ReadingType /\ crossed \in BOOLEAN
  BY Types, Zenon DEF Inv
<1> DEFINE gone == selectedBridgeId \notin live
<1>2. /\ UNCHANGED <<live, exist, events, threadByBridge, reading, requestCounter, loads, refreshes, sending>>
      /\ connecting = "asked" /\ connecting' = "security"
      /\ bridges' = live /\ draftThreadByBridge' = draftThreadByBridge \cap live
      /\ selectedThreadId' = IF gone /\ selectedBridgeId # None THEN None ELSE selectedThreadId
      /\ ~gone => selectedBridgeId' = selectedBridgeId
      /\ gone => selectedBridgeId' \in live \cup {None}
      /\ crossed' = (crossed \/ (gone /\ Awaited # {}))
  BY Zenon DEF BridgesReturn, world
<1>3. ListTypes' /\ SelectionType' /\ CallTypes'
  BY <1>1, <1>2 DEF ListTypes, SelectionType, CallTypes, Places
<1>4. TypeOK'
  <2>1. crossed' \in BOOLEAN
    BY <1>1, <1>2, Zenon
  <2> QED
    BY <1>1, <1>2, <1>3, <2>1, TypesNext, ReadingKept
<1>5. CASE ~gone
  <2>1. selectedBridgeId' = selectedBridgeId /\ selectedThreadId' = selectedThreadId
    BY <1>2, <1>5, Zenon
  <2>2. SelectionBelongs' /\ Preferred'
    BY <1>1, <1>2, <2>1, SelectionKept, PreferredKept DEF selection
  <2> QED
    BY <1>1, <1>2, <1>4, <2>2 DEF Inv, Counted, Sent
<1>6. CASE gone
  <2>1. ~crossed => Belongs(selectedThreadId, selectedBridgeId)
    BY <1>1, Selection, Zenon
  <2>2. ~crossed /\ selectedBridgeId = None => selectedThreadId = None
    BY <2>1, Constants DEF Belongs, Drafts, Draft
  <2>3. SelectionBelongs'
    BY <1>2, <1>6, <2>2, Zenon, SelectionNext DEF Belongs
  <2>4. Preferred'
    <3> SUFFICES ASSUME ~crossed', NEW l \in loads', l.id = requestCounter'
                 PROVE  l.bridge = selectedBridgeId' /\ Belongs(l.preferred, l.bridge)
      BY Zenon DEF Preferred
    <3>1. Awaited = {} /\ loads' = loads /\ requestCounter' = requestCounter
      BY <1>2, <1>6, Zenon
    <3> QED
      BY <3>1 DEF Awaited
  <2> QED
    BY <1>1, <1>2, <1>4, <2>3, <2>4 DEF Inv, Counted, Sent
<1> QED
  BY <1>5, <1>6

\* Nothing selected: the answers under way, if any, are for another selection.
LEMMA ClearedSelection ==
    ASSUME Inv, ClearSelectionState, UNCHANGED <<loads, requestCounter>>
    PROVE  /\ SelectionType' /\ ReadingType' /\ draftThreadByBridge' = {}
           /\ crossed' \in BOOLEAN /\ SelectionBelongs' /\ Preferred'
<1>1. /\ selectedBridgeId' = None /\ selectedThreadId' = None /\ draftThreadByBridge' = {}
      /\ NothingShown(FALSE) /\ crossed' = (Awaited # {})
      /\ loads' = loads /\ requestCounter' = requestCounter
  BY Zenon DEF ClearSelectionState
<1>2. ReadingType'
  BY <1>1, NothingType DEF Inv
<1>3. Preferred'
  BY <1>1 DEF Preferred, Awaited
<1>4. SelectionBelongs'
  BY <1>1, SelectionNext, Zenon DEF Belongs
<1>5. crossed' \in BOOLEAN
  BY <1>1, Zenon
<1> QED
  BY <1>1, <1>2, <1>3, <1>4, <1>5 DEF SelectionType, Places

LEMMA BridgesFailInv == Inv /\ BridgesFail => Inv'
<1> SUFFICES ASSUME Inv, BridgesFail PROVE Inv'
  OBVIOUS
<1>1. /\ TypeOK /\ Counted /\ Sent
      /\ ListTypes /\ SelectionType /\ CallTypes /\ ReadingType
  BY Types, Zenon DEF Inv
<1>2. /\ UNCHANGED <<live, exist, threadByBridge, requestCounter, loads, refreshes, sending>>
      /\ connecting = "asked" /\ connecting' = "none" /\ Happens
      /\ bridges' = {} /\ ClearSelectionState
  BY Zenon DEF BridgesFail
<1>3. events \in 0..MaxEvents /\ events' \in 0..MaxEvents /\ events' = events + 1 /\ events' >= events
  BY <1>1, <1>2, OneMore
<1>4. /\ SelectionType' /\ ReadingType' /\ draftThreadByBridge' = {}
      /\ crossed' \in BOOLEAN /\ SelectionBelongs' /\ Preferred'
  BY <1>2, ClearedSelection
<1>5. ListTypes'
  BY <1>1, <1>2, <1>4 DEF ListTypes
<1>6. CallTypes'
  BY <1>1, <1>2, <1>3 DEF CallTypes
<1>7. Counted'
  BY <1>1, <1>2, <1>3, CountedKept
<1> QED
  BY <1>1, <1>2, <1>4, <1>5, <1>6, <1>7, TypesNext DEF Inv, Sent

\* loadThreads for the selected workspace and thread, or for another workspace.
LEMMA LoadThreadsStep ==
    ASSUME Inv, NEW b \in Bridges, NEW preferred \in Places, LoadThreads(b, preferred),
           requestCounter <= MaxEvents,
           b = selectedBridgeId => preferred = selectedThreadId,
           b # selectedBridgeId => preferred = None
    PROVE  /\ SelectionType' /\ ReadingType' /\ crossed' \in BOOLEAN
           /\ SelectionBelongs' /\ Preferred'
           /\ requestCounter' = requestCounter + 1 /\ requestCounter' \in 0..(MaxEvents + 1)
           /\ loads' \subseteq Load /\ \A l \in loads' : l.id <= requestCounter'
<1> DEFINE new == [id |-> requestCounter + 1, bridge |-> b, preferred |-> preferred]
<1>1. /\ TypeOK /\ SelectionBelongs /\ Preferred /\ Counted
      /\ SelectionType /\ CallTypes /\ ReadingType /\ crossed \in BOOLEAN
  BY Types, Zenon DEF Inv
<1>2. /\ requestCounter' = requestCounter + 1
      /\ loads' = loads \cup {new} /\ selectedBridgeId' = b
      /\ crossed' = (crossed /\ ~(selectedBridgeId # b))
  BY Zenon DEF LoadThreads
<1>3. /\ requestCounter \in Nat /\ MaxEvents \in Nat /\ requestCounter + 1 \in 1..(MaxEvents + 1)
      /\ new \in Load /\ new.id = requestCounter + 1 /\ new.bridge = b /\ new.preferred = preferred
      /\ \A l \in loads : l.id \in Nat
  BY <1>1, PwaWorkspacesAssumption DEF CallTypes, Load
<1> HIDE DEF new
<1>4. loads' \subseteq Load /\ \A l \in loads' : l.id <= requestCounter'
  BY <1>1, <1>2, <1>3 DEF Counted, CallTypes
<1>5. \A l \in loads' : l.id = requestCounter' => l = new
  BY <1>1, <1>2, <1>3 DEF Counted
<1>6. CASE selectedBridgeId # b
  <2>1. /\ selectedThreadId' = None /\ threadDetail' = None /\ isThreadSelectionLoading' = TRUE
        /\ refreshQueued' = FALSE /\ UNCHANGED <<polling, detailRequest>>
    BY <1>6, Zenon DEF LoadThreads
  <2>2. ReadingType'
    BY <1>1, <2>1, Zenon DEF ReadingType
  <2>3. crossed' = FALSE /\ SelectionBelongs'
    BY <1>2, <1>6, <2>1, SelectionNext, Zenon DEF Belongs
  <2>4. Preferred'
    <3>1. preferred = None
      BY <1>6
    <3> QED
      BY <1>2, <1>3, <1>5, <3>1, Zenon DEF Preferred, Belongs
  <2>5. SelectionType'
    BY <1>2, <2>1 DEF SelectionType, Places
  <2>6. crossed' \in BOOLEAN
    BY <2>3, Zenon
  <2> QED
    BY <1>2, <1>3, <1>4, <2>2, <2>3, <2>4, <2>5, <2>6
<1>7. CASE selectedBridgeId = b
  <2>1. selectedThreadId' = selectedThreadId /\ selectedBridgeId' = selectedBridgeId
        /\ UNCHANGED reading /\ crossed' = crossed /\ preferred = selectedThreadId
    BY <1>1, <1>2, <1>7, Zenon DEF LoadThreads
  <2>2. ReadingType' /\ SelectionType' /\ SelectionBelongs'
    BY <1>1, <2>1, ReadingKept, SelectionKept DEF SelectionType, selection
  <2>3. ~crossed => Belongs(selectedThreadId, selectedBridgeId)
    BY <1>1, Selection, Zenon
  <2>4. Preferred'
    BY <1>2, <1>3, <1>5, <1>7, <2>1, <2>3, Zenon DEF Preferred
  <2>5. crossed' \in BOOLEAN
    BY <1>1, <2>1, Zenon
  <2> QED
    BY <1>2, <1>3, <1>4, <2>2, <2>4, <2>5
<1> QED
  BY <1>6, <1>7

LEMMA SelectWorkspaceInv == ASSUME NEW b \in Bridges PROVE Inv /\ SelectWorkspace(b) => Inv'
<1> SUFFICES ASSUME Inv, SelectWorkspace(b) PROVE Inv'
  OBVIOUS
<1>1. /\ TypeOK /\ Counted /\ Sent /\ ListTypes /\ SelectionType /\ CallTypes
  BY Types, Zenon DEF Inv
<1> DEFINE preferred == IF selectedBridgeId = b THEN selectedThreadId ELSE None
<1>2. /\ UNCHANGED <<live, exist, bridges, threadByBridge, draftThreadByBridge, connecting, refreshes, sending>>
      /\ Happens /\ LoadThreads(b, preferred)
  BY Zenon DEF SelectWorkspace, world
<1>3. events \in 0..MaxEvents /\ events' \in 0..MaxEvents /\ events' = events + 1
  BY <1>1, <1>2, OneMore
<1>4. requestCounter \in Nat /\ requestCounter <= MaxEvents
  BY <1>1, <1>3, PwaWorkspacesAssumption DEF Counted, CallTypes
<1>5. preferred \in Places
  BY <1>1 DEF SelectionType, Places
<1>6. (b = selectedBridgeId => preferred = selectedThreadId) /\ (b # selectedBridgeId => preferred = None)
  OBVIOUS
<1> HIDE DEF preferred
<1>7. /\ SelectionType' /\ ReadingType' /\ crossed' \in BOOLEAN
      /\ SelectionBelongs' /\ Preferred'
      /\ requestCounter' = requestCounter + 1 /\ requestCounter' \in 0..(MaxEvents + 1)
      /\ loads' \subseteq Load /\ \A l \in loads' : l.id <= requestCounter'
  BY <1>2, <1>4, <1>5, <1>6, LoadThreadsStep
<1>8. ListTypes'
  BY <1>1, <1>2 DEF ListTypes
<1>9. CallTypes'
  BY <1>1, <1>2, <1>3, <1>7 DEF CallTypes
<1>10. Counted'
  BY <1>1, <1>2, <1>3, <1>4, <1>7, PwaWorkspacesAssumption DEF Counted
<1>11. Sent'
  BY <1>1, <1>2 DEF Sent
<1> QED
  BY <1>7, <1>8, <1>9, <1>10, <1>11, TypesNext DEF Inv

LEMMA SecurityReturnsInv == Inv /\ SecurityReturns => Inv'
<1> SUFFICES ASSUME Inv, SecurityReturns PROVE Inv'
  OBVIOUS
<1>1. /\ TypeOK /\ Counted /\ Sent /\ ListTypes /\ SelectionType /\ CallTypes
  BY Types, Zenon DEF Inv
<1>2. /\ UNCHANGED <<live, exist, events, bridges, threadByBridge, refreshes, sending>>
      /\ connecting = "security" /\ connecting' = "none"
  BY Zenon DEF SecurityReturns, world
<1>3. /\ requestCounter \in Nat /\ MaxEvents \in Nat /\ events \in Nat /\ events <= MaxEvents
      /\ requestCounter + 1 <= events + 1
  BY <1>1, <1>2, PwaWorkspacesAssumption DEF Counted, CallTypes
<1>4. CASE selectedBridgeId # None
  <2>1. LoadThreads(selectedBridgeId, selectedThreadId) /\ UNCHANGED draftThreadByBridge
    BY <1>4, Zenon DEF SecurityReturns
  <2>2. selectedBridgeId \in Bridges /\ selectedThreadId \in Places /\ requestCounter <= MaxEvents
    BY <1>1, <1>3, <1>4 DEF SelectionType
  <2>3. PICK b \in Bridges, p \in Places : b = selectedBridgeId /\ p = selectedThreadId
    BY <2>2
  <2>4. LoadThreads(b, p)
    BY <2>1, <2>3
  <2>5. /\ SelectionType' /\ ReadingType' /\ crossed' \in BOOLEAN
        /\ SelectionBelongs' /\ Preferred'
        /\ requestCounter' = requestCounter + 1 /\ requestCounter' \in 0..(MaxEvents + 1)
        /\ loads' \subseteq Load /\ \A l \in loads' : l.id <= requestCounter'
    BY <2>2, <2>3, <2>4, LoadThreadsStep
  <2>6. ListTypes' /\ Sent'
    BY <1>1, <1>2, <2>1 DEF ListTypes, Sent
  <2>7. CallTypes'
    BY <1>1, <1>2, <2>5 DEF CallTypes
  <2>8. Counted'
    BY <1>2, <1>3, <2>5 DEF Counted
  <2> QED
    BY <2>5, <2>6, <2>7, <2>8, TypesNext DEF Inv
<1>5. CASE selectedBridgeId = None
  <2>1. ClearSelectionState /\ UNCHANGED <<requestCounter, loads>>
    BY <1>5, Zenon DEF SecurityReturns
  <2>2. /\ SelectionType' /\ ReadingType' /\ draftThreadByBridge' = {}
        /\ crossed' \in BOOLEAN /\ SelectionBelongs' /\ Preferred'
    BY <2>1, ClearedSelection
  <2>3. ListTypes' /\ CallTypes' /\ Sent'
    BY <1>1, <1>2, <2>1, <2>2 DEF ListTypes, CallTypes, Sent
  <2>4. Counted'
    BY <1>1, <1>2, <1>3, <2>1 DEF Counted
  <2> QED
    BY <2>2, <2>3, <2>4, TypesNext DEF Inv
<1> QED
  BY <1>4, <1>5

\* An answer of loadThreads is put aside, and the selection stays.
LEMMA LoadPutAside ==
    ASSUME Inv, loads' \subseteq loads, events' \in 0..MaxEvents, events' >= events,
           UNCHANGED <<live, exist, bridges, selection, draftThreadByBridge,
                       requestCounter, connecting, refreshes, sending, crossed>>,
           threadByBridge' \in [Bridges -> SUBSET Threads], ReadingType'
    PROVE  Inv'
<1>1. /\ TypeOK /\ SelectionBelongs /\ Preferred /\ Counted /\ Sent
      /\ ListTypes /\ SelectionType /\ CallTypes /\ crossed \in BOOLEAN
  BY Types, Zenon DEF Inv
<1>2. SelectionBelongs' /\ Preferred'
  BY <1>1, SelectionKept, PreferredKept DEF selection
<1>3. ListTypes' /\ SelectionType' /\ CallTypes'
  BY <1>1 DEF ListTypes, SelectionType, CallTypes, selection
<1>4. Counted'
  BY <1>1, CountedKept
<1> QED
  BY <1>1, <1>2, <1>3, <1>4, TypesNext DEF Inv, Sent

LEMMA IgnoredInv == ASSUME NEW l \in loads PROVE Inv /\ Ignored(l) => Inv'
<1> SUFFICES ASSUME Inv, Ignored(l) PROVE Inv'
  OBVIOUS
<1>1. /\ loads' = loads \ {l}
      /\ UNCHANGED <<live, exist, events, bridges, selection, threadByBridge, draftThreadByBridge, reading,
                     requestCounter, connecting, refreshes, sending, crossed>>
  BY Zenon DEF Ignored, world
<1>2. TypeOK /\ ListTypes /\ CallTypes /\ ReadingType
  BY Types DEF Inv
<1>3. ReadingType'
  BY <1>1, <1>2, ReadingKept
<1>4. /\ threadByBridge' \in [Bridges -> SUBSET Threads] /\ events' \in 0..MaxEvents /\ events' >= events
      /\ loads' \subseteq loads
  BY <1>1, <1>2, PwaWorkspacesAssumption DEF ListTypes, CallTypes
<1> QED
  BY <1>1, <1>3, <1>4, LoadPutAside

LEMMA ThreadsFailInv == ASSUME NEW l \in loads PROVE Inv /\ ThreadsFail(l) => Inv'
<1> SUFFICES ASSUME Inv, ThreadsFail(l) PROVE Inv'
  OBVIOUS
<1>1. /\ loads' = loads \ {l} /\ (UNCHANGED events \/ Happens)
      /\ threadByBridge' = [threadByBridge EXCEPT ![l.bridge] = {}]
      /\ isThreadSelectionLoading' = FALSE
      /\ UNCHANGED <<live, exist, bridges, selection, draftThreadByBridge, threadDetail,
                     refreshQueued, polling, detailRequest, requestCounter, connecting,
                     refreshes, sending, crossed>>
  BY Zenon DEF ThreadsFail
<1>2. TypeOK /\ ListTypes /\ ReadingType
  BY Types DEF Inv
<1>3. ReadingType'
  BY <1>1, <1>2, Zenon DEF ReadingType
<1>4. threadByBridge' \in [Bridges -> SUBSET Threads]
  BY <1>1, <1>2 DEF ListTypes
<1>5. events' \in 0..MaxEvents /\ events' >= events /\ loads' \subseteq loads
  BY <1>1, <1>2, MaybeMore
<1> QED
  BY <1>1, <1>3, <1>4, <1>5, LoadPutAside

LEMMA ThreadsReturnInv == ASSUME NEW l \in loads PROVE Inv /\ ThreadsReturn(l) => Inv'
<1> SUFFICES ASSUME Inv, ThreadsReturn(l) PROVE Inv'
  OBVIOUS
<1>1. /\ TypeOK /\ SelectionBelongs /\ Preferred /\ Counted /\ Sent
      /\ ListTypes /\ SelectionType /\ CallTypes /\ ReadingType /\ crossed \in BOOLEAN
  BY Types, Zenon DEF Inv
<1> DEFINE items == Own(l.bridge)
<1>2. /\ l.id = requestCounter /\ loads' = loads \ {l}
      /\ threadByBridge' = [threadByBridge EXCEPT ![l.bridge] = items]
      /\ UNCHANGED <<live, exist, events, bridges, selectedBridgeId, requestCounter, connecting,
                     refreshes, sending, crossed>>
  BY Zenon DEF ThreadsReturn, Newest, world
<1>3. l \in Load /\ l.bridge \in Bridges /\ l.preferred \in Places /\ items \subseteq Threads
      /\ \A t \in items : t \in Threads /\ Home[t] = l.bridge
  BY <1>1 DEF CallTypes, Load, Own, ListTypes
<1>4. ~crossed => l.bridge = selectedBridgeId /\ Belongs(l.preferred, l.bridge)
  BY <1>1, <1>2, Zenon DEF Preferred
<1>5. /\ draftThreadByBridge' \subseteq Bridges /\ selectedThreadId' \in Places /\ ReadingType'
      /\ ~crossed => Belongs(selectedThreadId', selectedBridgeId)
  <2>1. CASE /\ IsDraft(l.preferred)
             /\ draftThreadByBridge' = draftThreadByBridge \cup {l.bridge}
             /\ selectedThreadId' = l.preferred
             /\ NothingShown(FALSE)
    BY <1>1, <1>3, <1>4, <2>1, NothingType DEF ListTypes
  <2>2. CASE /\ selectedThreadId' = None
             /\ NothingShown(FALSE)
             /\ UNCHANGED draftThreadByBridge
    BY <1>1, <2>2, NothingType DEF ListTypes, Belongs, Places
  <2>3. CASE /\ ~IsDraft(l.preferred)
             /\ \E t \in IF l.preferred \in items THEN {l.preferred} ELSE items :
                   /\ selectedThreadId' = t
                   /\ OpenThread(selectedBridgeId, t, t)
             /\ UNCHANGED draftThreadByBridge
    <3>1. PICK t \in items : selectedThreadId' = t /\ OpenThread(selectedBridgeId, t, t)
      BY <2>3
    <3>2. selectedBridgeId \in Bridges \cup {None} /\ t \in Places
      BY <1>1, <1>3 DEF SelectionType, Places
    <3>3. PICK b \in Bridges \cup {None} : b = selectedBridgeId
      BY <3>2
    <3>4. ReadingType'
      <4>1. OpenThread(b, t, t)
        BY <3>1, <3>3
      <4> QED
        BY <1>1, <3>2, <3>3, <4>1, OpenType
    <3>5. ~crossed => Belongs(t, selectedBridgeId)
      BY <1>3, <1>4 DEF Belongs
    <3> QED
      BY <1>1, <2>3, <3>1, <3>2, <3>4, <3>5 DEF ListTypes
  <2> QED
    BY <2>1, <2>2, <2>3 DEF ThreadsReturn
<1>6. ListTypes' /\ SelectionType' /\ CallTypes'
  BY <1>1, <1>2, <1>3, <1>5 DEF ListTypes, SelectionType, CallTypes
<1>7. SelectionBelongs'
  BY <1>2, <1>5, SelectionNext, Zenon
<1>8. Preferred'
  BY <1>1, <1>2, PreferredKept
<1>9. Counted' /\ Sent'
  BY <1>1, <1>2 DEF Counted, Sent
<1> QED
  BY <1>1, <1>2, <1>5, <1>6, <1>7, <1>8, <1>9, TypesNext DEF Inv

-----------------------------------------------------------------------------
(* Choices of the user, and lists that are read again.                     *)

\* A new selection in the same workspace.
LEMMA NewSelection ==
    ASSUME Inv, selectedThreadId' \in Places, crossed' \in BOOLEAN, crossed => crossed',
           ~crossed' => Belongs(selectedThreadId', selectedBridgeId),
           UNCHANGED <<selectedBridgeId, requestCounter, connecting, loads>>,
           events' \in 0..MaxEvents, events' >= events,
           ListTypes', ReadingType', Sent', refreshes' \subseteq Bridges, sending' \in Send
    PROVE  Inv'
<1>1. /\ TypeOK /\ Preferred /\ Counted /\ SelectionType /\ CallTypes
  BY Types, Zenon DEF Inv
<1>2. selectedBridgeId' = selectedBridgeId
  OBVIOUS
<1>3. SelectionBelongs'
  BY <1>2, SelectionNext, Zenon
<1>4. Preferred'
  BY <1>1, PreferredKept
<1>5. SelectionType' /\ CallTypes'
  BY <1>1 DEF SelectionType, CallTypes
<1>6. Counted'
  BY <1>1, CountedKept
<1> QED
  BY <1>3, <1>4, <1>5, <1>6, TypesNext DEF Inv

LEMMA SelectThreadInv == ASSUME NEW t \in Threads PROVE Inv /\ SelectThread(t) => Inv'
<1> SUFFICES ASSUME Inv, SelectThread(t) PROVE Inv'
  OBVIOUS
<1>1. /\ TypeOK /\ Sent /\ ListTypes /\ SelectionType /\ CallTypes /\ crossed \in BOOLEAN
  BY Types, Zenon DEF Inv
<1>2. /\ UNCHANGED <<live, exist, bridges, selectedBridgeId, threadByBridge, draftThreadByBridge,
                     requestCounter, connecting, loads, refreshes, sending>>
      /\ selectedThreadId' = t /\ Happens
      /\ OpenThread(selectedBridgeId, t, selectedThreadId)
      /\ crossed' = (crossed \/ Home[t] # selectedBridgeId)
  BY Zenon DEF SelectThread, world
<1>3. events' \in 0..MaxEvents /\ events' >= events
  BY <1>1, <1>2, OneMore
<1>4. ReadingType'
  <2>1. PICK b \in Bridges \cup {None}, was \in Places : b = selectedBridgeId /\ was = selectedThreadId
    BY <1>1 DEF SelectionType
  <2>2. OpenThread(b, t, was) /\ t \in Places
    BY <1>2, <2>1 DEF Places
  <2> QED
    BY <1>1, <2>2, OpenType
<1>5. /\ crossed' \in BOOLEAN /\ (crossed => crossed')
      /\ ~crossed' => Belongs(selectedThreadId', selectedBridgeId)
  BY <1>1, <1>2, Zenon DEF Belongs
<1>6. ListTypes' /\ Sent' /\ selectedThreadId' \in Places
      /\ refreshes' \subseteq Bridges /\ sending' \in Send
  BY <1>1, <1>2 DEF ListTypes, Sent, Places, CallTypes
<1> QED
  BY <1>2, <1>3, <1>4, <1>5, <1>6, NewSelection

LEMMA NewConversationInv == Inv /\ NewConversation => Inv'
<1> SUFFICES ASSUME Inv, NewConversation PROVE Inv'
  OBVIOUS
<1>1. /\ TypeOK /\ Sent /\ ListTypes /\ SelectionType /\ CallTypes /\ crossed \in BOOLEAN
  BY Types, Zenon DEF Inv
<1>2. /\ UNCHANGED <<live, exist, bridges, selectedBridgeId, threadByBridge,
                     requestCounter, connecting, loads, refreshes, sending, crossed>>
      /\ selectedBridgeId \in bridges /\ Happens
      /\ draftThreadByBridge' = draftThreadByBridge \cup {selectedBridgeId}
      /\ selectedThreadId' = Draft(selectedBridgeId) /\ NothingShown(FALSE)
  BY Zenon DEF NewConversation, world
<1>3. events' \in 0..MaxEvents /\ events' >= events
  BY <1>1, <1>2, OneMore
<1>4. ReadingType'
  BY <1>1, <1>2, NothingType
<1>5. selectedThreadId' \in Drafts
  BY <1>1, <1>2 DEF ListTypes, Drafts
<1>6. /\ crossed' \in BOOLEAN /\ (crossed => crossed')
      /\ ~crossed' => Belongs(selectedThreadId', selectedBridgeId)
  BY <1>1, <1>2, <1>5, Zenon DEF Belongs
<1>7. ListTypes' /\ Sent' /\ selectedThreadId' \in Places
      /\ refreshes' \subseteq Bridges /\ sending' \in Send
  BY <1>1, <1>2, <1>5 DEF ListTypes, Sent, Places, CallTypes
<1> QED
  BY <1>2, <1>3, <1>4, <1>6, <1>7, NewSelection

\* A list that comes, or does not, gives a selection without a thread one of its own.
LEMMA ListAnsweredStep ==
    ASSUME TypeOK, NEW b \in Bridges, NEW t, ListAnswered(b, t)
    PROVE  /\ threadByBridge' \in [Bridges -> SUBSET Threads]
           /\ events' \in 0..MaxEvents /\ events' >= events
           /\ t \in Places
           /\ t = selectedThreadId \/ (t \in Threads /\ Home[t] = b)
<1>1. ListTypes /\ SelectionType /\ CallTypes
  BY Types
<1>2. Own(b) \subseteq Threads /\ \A u \in Own(b) : u \in Threads /\ Home[u] = b
  BY <1>1 DEF Own, ListTypes
<1>3. events' \in 0..MaxEvents /\ events' >= events
  BY MaybeMore DEF ListAnswered
<1>4. CASE ListApplied(b, Own(b), t)
  BY <1>1, <1>2, <1>3, <1>4 DEF ListApplied, ListTypes, SelectionType, Places
<1>5. CASE t = selectedThreadId /\ UNCHANGED threadByBridge
  BY <1>1, <1>3, <1>5 DEF ListTypes, SelectionType
<1> QED
  BY <1>4, <1>5 DEF ListAnswered

LEMMA ListReturnsInv == ASSUME NEW b \in Bridges PROVE Inv /\ ListReturns(b) => Inv'
<1> SUFFICES ASSUME Inv, ListReturns(b) PROVE Inv'
  OBVIOUS
<1>1. /\ TypeOK /\ SelectionBelongs /\ Sent /\ ListTypes /\ SelectionType /\ CallTypes
      /\ ReadingType /\ crossed \in BOOLEAN
  BY Types, Zenon DEF Inv
<1>2. /\ UNCHANGED <<live, exist, bridges, selectedBridgeId, draftThreadByBridge, reading,
                     requestCounter, connecting, loads, sending>>
      /\ refreshes' = refreshes \ {b}
      /\ crossed' = (crossed \/ selectedBridgeId # b)
  BY Zenon DEF ListReturns
<1>3. PICK t : ListAnswered(b, t) /\ selectedThreadId' = t
  BY Zenon DEF ListReturns
<1>4. /\ threadByBridge' \in [Bridges -> SUBSET Threads]
      /\ events' \in 0..MaxEvents /\ events' >= events
      /\ t \in Places
      /\ t = selectedThreadId \/ (t \in Threads /\ Home[t] = b)
  BY <1>1, <1>3, ListAnsweredStep
<1>5. ~crossed => Belongs(selectedThreadId, selectedBridgeId)
  BY <1>1, Selection, Zenon
<1>6. /\ crossed' \in BOOLEAN /\ (crossed => crossed')
      /\ ~crossed' => Belongs(selectedThreadId', selectedBridgeId)
  BY <1>1, <1>2, <1>3, <1>4, <1>5, Zenon DEF Belongs
<1>7. ListTypes' /\ Sent' /\ selectedThreadId' \in Places /\ ReadingType'
      /\ refreshes' \subseteq Bridges /\ sending' \in Send
  BY <1>1, <1>2, <1>3, <1>4, ReadingKept DEF ListTypes, Sent, CallTypes
<1> QED
  BY <1>2, <1>4, <1>6, <1>7, NewSelection

-----------------------------------------------------------------------------
(* Messages.                                                               *)

LEMMA SendMessageInv == Inv /\ SendMessage => Inv'
<1> SUFFICES ASSUME Inv, SendMessage PROVE Inv'
  OBVIOUS
<1>1. /\ TypeOK /\ SelectionBelongs /\ ListTypes /\ SelectionType /\ CallTypes
      /\ ReadingType /\ crossed \in BOOLEAN
  BY Types, Zenon DEF Inv
<1>2. /\ UNCHANGED <<live, exist, bridges, selectedBridgeId, selectedThreadId, threadByBridge,
                     draftThreadByBridge, reading, requestCounter, connecting, loads, refreshes, crossed>>
      /\ selectedBridgeId # None /\ selectedThreadId # None /\ Happens
      /\ sending' = [stage |-> "sent", bridge |-> selectedBridgeId, thread |-> selectedThreadId]
  BY Zenon DEF SendMessage, selection, world
<1>3. events' \in 0..MaxEvents /\ events' >= events
  BY <1>1, <1>2, OneMore
<1>4. sending' \in Send /\ Sent'
  BY <1>1, <1>2 DEF SelectionType, Send, Sent
<1>5. ~crossed => Belongs(selectedThreadId, selectedBridgeId)
  BY <1>1, Selection, Zenon
<1>6. /\ crossed' \in BOOLEAN /\ (crossed => crossed')
      /\ ~crossed' => Belongs(selectedThreadId', selectedBridgeId)
  BY <1>1, <1>2, <1>5, Zenon
<1>7. ListTypes' /\ selectedThreadId' \in Places /\ ReadingType' /\ refreshes' \subseteq Bridges
  BY <1>1, <1>2, ReadingKept DEF ListTypes, SelectionType, CallTypes
<1> QED
  BY <1>2, <1>3, <1>4, <1>6, <1>7, NewSelection

LEMMA SendReturnsInv == Inv /\ SendReturns => Inv'
<1> SUFFICES ASSUME Inv, SendReturns PROVE Inv'
  OBVIOUS
<1>1. /\ TypeOK /\ SelectionBelongs /\ Sent /\ ListTypes /\ SelectionType /\ CallTypes
      /\ ReadingType /\ crossed \in BOOLEAN
  BY Types, Zenon DEF Inv
<1> DEFINE b == sending.bridge
           draft == IsDraft(sending.thread)
<1>2. sending.stage = "sent" /\ b \in Bridges /\ sending.thread \in Places /\ sending.thread # None
  BY <1>1 DEF SendReturns, Sent, CallTypes, Send
<1>3. PICK t \in IF draft THEN {u \in Threads \ exist : Home[u] = b} ELSE {sending.thread} :
              /\ exist' = exist \cup {t}
              /\ IF draft
                 THEN /\ draftThreadByBridge' = draftThreadByBridge \ {selectedBridgeId}
                      /\ selectedThreadId' = t
                      /\ crossed' = (crossed \/ selectedBridgeId # b)
                 ELSE UNCHANGED <<draftThreadByBridge, selectedThreadId, crossed>>
              /\ polling' = (polling \/ (/\ selectedBridgeId # None
                                         /\ selectedThreadId' \notin Drafts \cup {None}))
              /\ sending' = IF selectedBridgeId = None THEN NoSend
                            ELSE [stage |-> "listing", bridge |-> selectedBridgeId,
                                  thread |-> IF draft THEN t ELSE None]
  BY Zenon DEF SendReturns
<1>4. UNCHANGED <<live, events, bridges, selectedBridgeId, threadByBridge, threadDetail,
                  isThreadSelectionLoading, refreshQueued, detailRequest, requestCounter,
                  connecting, loads, refreshes>>
  BY Zenon DEF SendReturns
<1>5. t \in Threads /\ (draft => Home[t] = b)
  BY <1>2, <1>3 DEF IsDraft, Places
<1>6. ~crossed => Belongs(selectedThreadId, selectedBridgeId)
  BY <1>1, Selection, Zenon
<1>7. /\ crossed' \in BOOLEAN /\ (crossed => crossed')
      /\ ~crossed' => Belongs(selectedThreadId', selectedBridgeId)
  <2>1. CASE draft
    BY <1>1, <1>3, <1>5, <2>1, Zenon DEF Belongs
  <2>2. CASE ~draft
    BY <1>1, <1>3, <1>6, <2>2, Zenon
  <2> QED
    BY <2>1, <2>2
<1>8. ReadingType'
  BY <1>1, <1>3, <1>4, Zenon DEF ReadingType
<1>9. ListTypes' /\ selectedThreadId' \in Places /\ events' \in 0..MaxEvents /\ events' >= events
      /\ refreshes' \subseteq Bridges
  BY <1>1, <1>3, <1>4, <1>5, PwaWorkspacesAssumption DEF ListTypes, SelectionType, CallTypes, Places
<1>10. sending' \in Send /\ Sent'
  <2>1. CASE selectedBridgeId = None
    BY <1>3, <2>1 DEF NoSend, Send, Places, Sent
  <2>2. CASE selectedBridgeId # None
    <3>1. PICK thread : thread = IF draft THEN t ELSE None
      OBVIOUS
    <3>2. thread \in Places /\ thread \notin Drafts
      BY <1>5, <3>1, Constants DEF Places
    <3>3. sending' = [stage |-> "listing", bridge |-> selectedBridgeId, thread |-> thread]
      BY <1>3, <2>2, <3>1
    <3>4. selectedBridgeId \in Bridges
      BY <1>1, <2>2 DEF SelectionType
    <3> QED
      BY <3>2, <3>3, <3>4 DEF Send, Sent
  <2> QED
    BY <2>1, <2>2
<1> QED
  BY <1>4, <1>7, <1>8, <1>9, <1>10, NewSelection

LEMMA SendFailsInv == Inv /\ SendFails => Inv'
<1> SUFFICES ASSUME Inv, SendFails PROVE Inv'
  OBVIOUS
<1>1. /\ TypeOK /\ SelectionBelongs /\ ListTypes /\ SelectionType /\ CallTypes
      /\ ReadingType /\ crossed \in BOOLEAN
  BY Types, Zenon DEF Inv
<1>2. /\ UNCHANGED <<live, exist, bridges, selectedBridgeId, selectedThreadId, threadByBridge,
                     draftThreadByBridge, reading, requestCounter, connecting, loads, refreshes, crossed>>
      /\ UNCHANGED events \/ Happens
      /\ sending' = NoSend
  BY Zenon DEF SendFails, selection
<1>3. events' \in 0..MaxEvents /\ events' >= events
  BY <1>1, <1>2, MaybeMore
<1>4. sending' \in Send /\ Sent'
  BY <1>2 DEF NoSend, Send, Sent, Places
<1>5. ~crossed => Belongs(selectedThreadId, selectedBridgeId)
  BY <1>1, Selection, Zenon
<1>6. /\ crossed' \in BOOLEAN /\ (crossed => crossed')
      /\ ~crossed' => Belongs(selectedThreadId', selectedBridgeId)
  BY <1>1, <1>2, <1>5, Zenon
<1>7. ListTypes' /\ selectedThreadId' \in Places /\ ReadingType' /\ refreshes' \subseteq Bridges
  BY <1>1, <1>2, ReadingKept DEF ListTypes, SelectionType, CallTypes
<1> QED
  BY <1>2, <1>3, <1>4, <1>6, <1>7, NewSelection

LEMMA SendEndsInv == Inv /\ SendEnds => Inv'
<1> SUFFICES ASSUME Inv, SendEnds PROVE Inv'
  OBVIOUS
<1>1. /\ TypeOK /\ SelectionBelongs /\ Sent /\ ListTypes /\ SelectionType /\ CallTypes
      /\ ReadingType /\ crossed \in BOOLEAN
  BY Types, Zenon DEF Inv
<1> DEFINE new == sending.thread # None
<1>2. PICK b \in Bridges, thread \in Threads \cup {None} : b = sending.bridge /\ thread = sending.thread
  BY <1>1 DEF SendEnds, Sent, CallTypes, Send, Places
<1>3. /\ UNCHANGED <<live, exist, bridges, selectedBridgeId, draftThreadByBridge,
                     requestCounter, connecting, loads, refreshes>>
      /\ sending' = NoSend
      /\ crossed' = (crossed \/ selectedBridgeId # b \/ (new /\ selectedBridgeId # Home[thread]))
  BY <1>2, Zenon DEF SendEnds
<1>4. PICK t \in Places :
              /\ ListAnswered(b, t)
              /\ IF new /\ selectedBridgeId # None
                 THEN /\ selectedThreadId' = thread
                      /\ OpenThread(selectedBridgeId, thread, t)
                 ELSE /\ selectedThreadId' = t
                      /\ IF new THEN UNCHANGED reading
                         ELSE /\ RefreshThreadDetail(selectedBridgeId, t, refreshQueued)
                              /\ UNCHANGED <<threadDetail, isThreadSelectionLoading>>
  BY <1>2, Zenon DEF SendEnds, Places
<1>5. /\ threadByBridge' \in [Bridges -> SUBSET Threads]
      /\ events' \in 0..MaxEvents /\ events' >= events
      /\ t = selectedThreadId \/ (t \in Threads /\ Home[t] = b)
  BY <1>1, <1>4, ListAnsweredStep
<1>6. PICK sel \in Bridges \cup {None} : sel = selectedBridgeId
  BY <1>1 DEF SelectionType
<1>7. ReadingType'
  <2>1. CASE new /\ selectedBridgeId # None
    <3>1. OpenThread(sel, thread, t) /\ thread \in Places
      BY <1>4, <1>6, <2>1 DEF Places
    <3> QED
      BY <1>1, <3>1, OpenType
  <2>2. CASE ~new
    <3>1. /\ RefreshThreadDetail(sel, t, refreshQueued)
          /\ UNCHANGED <<threadDetail, isThreadSelectionLoading>>
      BY <1>4, <1>6, <2>2
    <3>2. refreshQueued \in BOOLEAN
      BY <1>1, Zenon DEF ReadingType
    <3>3. detailRequest' \in View \cup {None} /\ refreshQueued' \in BOOLEAN /\ polling' \in BOOLEAN
      BY <1>1, <3>1, <3>2, RefreshType
    <3> QED
      BY <1>1, <3>1, <3>3, Zenon DEF ReadingType
  <2>3. CASE new /\ selectedBridgeId = None
    BY <1>1, <1>4, <2>3, ReadingKept
  <2> QED
    BY <2>1, <2>2, <2>3
<1>8. ~crossed => Belongs(selectedThreadId, selectedBridgeId)
  BY <1>1, Selection, Zenon
<1>9. crossed' \in BOOLEAN /\ (crossed => crossed')
  BY <1>1, <1>3, Zenon
<1>10. ~crossed' => Belongs(selectedThreadId', selectedBridgeId)
  <2>1. CASE new /\ selectedBridgeId # None
    <3>1. thread \in Threads /\ selectedThreadId' = thread
      BY <1>2, <1>4, <2>1
    <3> QED
      BY <1>3, <2>1, <3>1, Zenon DEF Belongs
  <2>2. CASE ~(new /\ selectedBridgeId # None)
    <3>1. selectedThreadId' = t
      BY <1>4, <2>2
    <3>2. CASE t = selectedThreadId
      BY <1>3, <1>8, <3>1, <3>2, Zenon
    <3>3. CASE t \in Threads /\ Home[t] = b
      BY <1>3, <3>1, <3>3, Zenon DEF Belongs
    <3> QED
      BY <1>5, <3>2, <3>3
  <2> QED
    BY <2>1, <2>2
<1>11. ListTypes' /\ selectedThreadId' \in Places /\ refreshes' \subseteq Bridges
  BY <1>1, <1>2, <1>3, <1>4, <1>5 DEF ListTypes, CallTypes, Places
<1>12. sending' \in Send /\ Sent'
  BY <1>3 DEF NoSend, Send, Sent, Places
<1> QED
  BY <1>3, <1>5, <1>7, <1>9, <1>10, <1>11, <1>12, NewSelection

-----------------------------------------------------------------------------
(* The hub, the start, and the theorems.                                   *)

\* What happens outside changes nothing the PWA has.
LEMMA Outside ==
    ASSUME Inv, Happens, live' \subseteq Bridges, exist' \subseteq Threads,
           UNCHANGED <<bridges, selection, threadByBridge, draftThreadByBridge, reading,
                       requestCounter, connecting, loads, refreshes, sending, crossed>>
    PROVE  Inv'
<1>1. /\ TypeOK /\ SelectionBelongs /\ Sent /\ ListTypes /\ SelectionType /\ CallTypes
      /\ ReadingType /\ crossed \in BOOLEAN
  BY Types, Zenon DEF Inv
<1>2. selectedBridgeId' = selectedBridgeId /\ selectedThreadId' = selectedThreadId
  BY DEF selection
<1>3. events' \in 0..MaxEvents /\ events' >= events
  BY <1>1, OneMore
<1>4. ~crossed => Belongs(selectedThreadId, selectedBridgeId)
  BY <1>1, Selection, Zenon
<1>5. /\ crossed' \in BOOLEAN /\ (crossed => crossed')
      /\ ~crossed' => Belongs(selectedThreadId', selectedBridgeId)
  BY <1>1, <1>2, <1>4, Zenon
<1>6. ListTypes' /\ selectedThreadId' \in Places /\ ReadingType' /\ refreshes' \subseteq Bridges
      /\ sending' \in Send /\ Sent'
  BY <1>1, <1>2, ReadingKept DEF ListTypes, SelectionType, CallTypes, Sent
<1> QED
  BY <1>2, <1>3, <1>5, <1>6, NewSelection

LEMMA InitInv == Init => Inv
<1> SUFFICES ASSUME Init PROVE Inv
  OBVIOUS
<1>1. selectedThreadId \in Places /\ selectedBridgeId \in Bridges \cup {None}
  <2>1. PICK s \in Stored : selectedBridgeId = s.bridge /\ selectedThreadId = s.thread
    BY Zenon DEF Init
  <2>2. s \in [bridge : Bridges \cup {None}, thread : Threads \cup Drafts \cup {None}]
    BY PwaWorkspacesAssumption, Zenon
  <2> QED
    BY <2>1, <2>2 DEF Places
<1>2. ListTypes
  BY PwaWorkspacesAssumption DEF Init, ListTypes
<1>3. CallTypes
  BY PwaWorkspacesAssumption DEF Init, CallTypes, NoSend, Send, Places
<1>4. ReadingType /\ crossed \in BOOLEAN
  BY Zenon DEF Init, ReadingType, Belongs
<1>5. SelectionBelongs
  BY Zenon DEF Init, SelectionBelongs
<1>6. Preferred /\ Counted /\ Sent
  BY DEF Init, Preferred, Counted, Sent, NoSend
<1> QED
  BY <1>1, <1>2, <1>3, <1>4, <1>5, <1>6, Types DEF Inv, SelectionType

LEMMA NextInv == Inv /\ [Next]_vars => Inv'
<1> SUFFICES ASSUME Inv, [Next]_vars PROVE Inv'
  OBVIOUS
<1>1. CASE User
  BY <1>1, LoadBridgesInv, NewConversationInv, SendMessageInv, SelectWorkspaceInv, SelectThreadInv DEF User
<1>2. CASE Poll
  BY <1>2, PollInv
<1>3. CASE Returns
  BY <1>3, DetailReturnsInv, BridgesReturnInv, BridgesFailInv, SecurityReturnsInv, IgnoredInv,
     ThreadsReturnInv, ThreadsFailInv, ListReturnsInv, SendReturnsInv, SendFailsInv, SendEndsInv DEF Returns
<1>4. CASE Environment
  <2>1. live \subseteq Bridges /\ exist \subseteq Threads
    BY Types DEF Inv, ListTypes
  <2>2. ASSUME NEW b \in Bridges, BridgeComesOrGoes(b) PROVE Inv'
    BY <2>1, <2>2, Outside DEF BridgeComesOrGoes
  <2>3. ASSUME NEW t \in Threads, Deleted(t) PROVE Inv'
    BY <2>1, <2>3, Outside DEF Deleted
  <2> QED
    BY <1>4, <2>2, <2>3 DEF Environment
<1>5. CASE UNCHANGED vars
  <2>1. /\ TypeOK /\ SelectionBelongs /\ Preferred /\ Counted /\ Sent
        /\ ListTypes /\ SelectionType /\ CallTypes /\ ReadingType /\ crossed \in BOOLEAN
    BY Types, Zenon DEF Inv
  <2>2. /\ UNCHANGED <<live, exist, events, bridges, selection, selectedBridgeId, selectedThreadId,
                       threadByBridge, draftThreadByBridge, reading, requestCounter, connecting,
                       loads, refreshes, sending, crossed>>
    BY <1>5 DEF vars, world, selection
  <2>3. ListTypes' /\ SelectionType' /\ CallTypes' /\ Counted' /\ Sent'
    BY <2>1, <2>2 DEF ListTypes, SelectionType, CallTypes, Counted, Sent
  <2>4. SelectionBelongs' /\ Preferred' /\ ReadingType'
    BY <2>1, <2>2, SelectionKept, PreferredKept, ReadingKept
  <2> QED
    BY <2>1, <2>2, <2>3, <2>4, TypesNext DEF Inv
<1> QED
  BY <1>1, <1>2, <1>3, <1>4, <1>5 DEF Next

\* The invariant holds in every state.
THEOREM Inductive == Spec => []Inv
BY InitInv, NextInv, PTL DEF Spec

\* Every variable keeps its type.
THEOREM TypeCorrect == Spec => []TypeOK
<1>1. Inv => TypeOK
  BY DEF Inv
<1> QED
  BY <1>1, Inductive, PTL

\* The selection stays in its workspace, but for the races crossed remembers, however
\* many answers are late (loadBridges, loadThreads, sendMessage, the lists).
THEOREM SelectionStays == Spec => []SelectionBelongs
<1>1. Inv => SelectionBelongs
  BY DEF Inv
<1> QED
  BY <1>1, Inductive, PTL
=============================================================================
