------------------------ MODULE BridgeLifecycle_proofs ------------------------
(***************************************************************************)
(* Theorems about BridgeLifecycle and its ManagedHub, for any set of       *)
(* windows and any numbers of calls and faults.                            *)
(***************************************************************************)
EXTENDS BridgeLifecycle, SequenceTheorems, TLAPS

-----------------------------------------------------------------------------
(* The invariant.                                                          *)

\* Which step comes after which in a slot, and with which a call may end.
After(s) ==
    IF s = "queue"
    THEN {<<"takeDown", "hubStop">>, <<"hubStop", "markDown">>, <<"markDown", "hubStart">>,
          <<"hubStart", "storeStart">>, <<"storeStart", "serverStart">>, <<"serverStart", "clientStart">>}
    ELSE {<<"hubStop", "hubStart">>}
Last(s) == IF s = "queue" THEN {"markDown", "clientStart"} ELSE {"hubStop", "hubStart"}

Ordered(s, p) ==
    /\ \A i \in 1..(Len(p) - 1) : <<p[i], p[i + 1]>> \in After(s)
    /\ p # <<>> => p[Len(p)] \in Last(s)

Terminating(k) == k.stage \in {"terminating", "killing"}

\* A call waits only for what its next step began.
Consistent(s, k) ==
    /\ Ordered(s, k.todo)
    /\ k.todo = <<>> => k.stage = "ready" /\ k.child = NoChild
    /\ k.stage \in {"probing", "waiting"} => Head(k.todo) = "hubStart"
    /\ Terminating(k) => Head(k.todo) \in {"hubStart", "hubStop"}
    /\ k.stage = "storeStarting" => Head(k.todo) = "storeStart"
    /\ k.stage = "serverStarting" => Head(k.todo) = "serverStart"
    /\ k.stage = "closing" => Head(k.todo) = "takeDown"

\* What the steps of the queue done so far have set.
PartsSet(k, p, r) ==
    /\ k.todo = <<>> => p = IF r THEN Parts ELSE {}
    /\ k.todo # <<>> =>
          /\ Head(k.todo) \in {"hubStop", "markDown"} => p = {}
          /\ Head(k.todo) = "hubStart" => p = {} /\ ~r
          /\ Head(k.todo) = "storeStart" => p = (IF k.stage = "ready" THEN {} ELSE {"store"}) /\ ~r
          /\ Head(k.todo) = "serverStart" =>
                p = (IF k.stage = "ready" THEN {"store"} ELSE {"store", "server"}) /\ ~r
          /\ Head(k.todo) = "clientStart" => p = {"store", "server"} /\ ~r

Lifecycle ==
    /\ \A w \in Window, s \in Slot : Consistent(s, call[w][s])
    /\ \A w \in Window : PartsSet(call[w]["queue"], parts[w], running[w])

\* The processes of a window carry its name, and those that are looked into are gone.
Named ==
    /\ \A w \in Window : process[w] # NoChild =>
          child[process[w]].window = w /\ child[process[w]].state # "none"
    /\ \A w \in Window, s \in Slot : Terminating(call[w][s]) =>
          /\ call[w][s].child # NoChild
          /\ child[call[w][s].child].window = w /\ child[call[w][s].child].state # "none"
    /\ \A c \in exiting : child[c].state = "reaped"
    /\ \A c \in Child : child[c].state = "none" => child[c].signal = "none"

Unreaped(c, w) == child[c].window = w /\ child[c].state \in {"booting", "serving", "dead"}

\* A window whose calls came one at a time has one process at most: the one it knows,
\* or the one a call waits for to exit.
Alone(w) ==
    /\ \A r, s \in Slot : call[w][r].todo # <<>> /\ call[w][s].todo # <<>> => r = s
    /\ \A c \in Child : Unreaped(c, w) =>
          process[w] = c \/ \E s \in Slot : Terminating(call[w][s]) /\ call[w][s].child = c
    /\ process[w] # NoChild =>
          /\ Unreaped(process[w], w) /\ child[process[w]].signal = "none"
          /\ ~LookedInto(w)
          /\ \A s \in Slot : call[w][s].stage \notin {"probing", "terminating", "killing"}
          /\ mode[w] \in {"starting", "running"}
    /\ mode[w] = "starting" => \E s \in Slot : call[w][s].stage = "waiting"
    /\ mode[w] = "running" => process[w] # NoChild \/ LookedInto(w)

OneServes == \A c, d \in Child : child[c].state = "serving" /\ child[d].state = "serving" => c = d

\* As long as nothing failed and nothing was stopped: a hub that was seen serves still.
Undisturbed == blurred = {} /\ faults = 0 /\ \A c \in Child : child[c].signal = "none"
Rising(k) == k.todo # <<>> /\ Head(k.todo) \in {"storeStart", "serverStart", "clientStart"}
SeenServing ==
    \/ \E c \in Child : child[c].state \in {"dead", "reaped"}
    \/ \E w \in Window :
          mode[w] \in {"running", "external"} \/ running[w] \/ Rising(call[w]["queue"])

HubShared ==
    /\ OneServes
    /\ Undisturbed => (SeenServing => Serving) /\ \A w \in Window : mode[w] # "error"

Inv == TypeOK /\ Lifecycle /\ Named /\ (\A w \in Window \ blurred : Alone(w)) /\ HubShared

-----------------------------------------------------------------------------
(* Plans.                                                                  *)

LEMMA TailFacts ==
    ASSUME NEW p \in Seq(Step), p # <<>>
    PROVE  /\ Head(p) = p[1] /\ Head(p) \in Step /\ Tail(p) \in Seq(Step)
           /\ Len(p) \in Nat \ {0} /\ Len(Tail(p)) = Len(p) - 1
           /\ \A i \in 1..(Len(p) - 1) : Tail(p)[i] = p[i + 1]
           /\ Tail(p) = <<>> => Len(p) = 1
           /\ Tail(p) # <<>> => Len(p) \in Nat \ {0, 1} /\ Head(Tail(p)) = p[2]
<1>1. /\ Head(p) = p[1] /\ p[1] \in Step /\ Tail(p) \in Seq(Step)
      /\ Len(p) \in Nat \ {0} /\ Len(Tail(p)) = Len(p) - 1
      /\ \A i \in 1..(Len(p) - 1) : Tail(p)[i] = p[i + 1]
  OBVIOUS
<1>2. CASE Tail(p) = <<>>
  <2>1. Len(Tail(p)) = 0
    <3>1. \A q \in Seq(Step) : q = <<>> => Len(q) = 0
      OBVIOUS
    <3> QED
      BY <1>1, <1>2, <3>1
  <2> QED
    BY <1>1, <1>2, <2>1
<1>3. CASE Tail(p) # <<>>
  <2>1. Len(Tail(p)) \in Nat \ {0} /\ Head(Tail(p)) = Tail(p)[1]
    BY <1>1, <1>3
  <2> QED
    BY <1>1, <1>3, <2>1
<1> QED
  BY <1>1, <1>2, <1>3

LEMMA OrderedTail ==
    ASSUME NEW s \in Slot, NEW p \in Seq(Step), p # <<>>, Ordered(s, p)
    PROVE  /\ Ordered(s, Tail(p))
           /\ Tail(p) # <<>> => <<Head(p), Head(Tail(p))>> \in After(s)
           /\ Tail(p) = <<>> => Head(p) \in Last(s)
<1> DEFINE q == Tail(p)
<1>1. /\ Head(p) = p[1] /\ Len(p) \in Nat \ {0} /\ Len(q) = Len(p) - 1
      /\ \A i \in 1..(Len(p) - 1) : q[i] = p[i + 1]
      /\ q = <<>> => Len(p) = 1
      /\ q # <<>> => Len(p) \in Nat \ {0, 1} /\ Head(q) = p[2]
  BY TailFacts
<1>2. /\ \A i \in 1..(Len(p) - 1) : <<p[i], p[i + 1]>> \in After(s)
      /\ p[Len(p)] \in Last(s)
  BY DEF Ordered
<1> HIDE DEF q
<1>3. \A i \in 1..(Len(q) - 1) : <<q[i], q[i + 1]>> \in After(s)
  <2> SUFFICES ASSUME NEW i \in 1..(Len(q) - 1)
               PROVE  <<q[i], q[i + 1]>> \in After(s)
    OBVIOUS
  <2>1. i \in 1..(Len(p) - 1) /\ i + 1 \in 1..(Len(p) - 1)
    BY <1>1
  <2>2. q[i] = p[i + 1] /\ q[i + 1] = p[(i + 1) + 1]
    BY <1>1, <2>1
  <2> QED
    BY <1>2, <2>1, <2>2
<1>4. q # <<>> => q[Len(q)] \in Last(s)
  <2> SUFFICES ASSUME q # <<>> PROVE q[Len(q)] \in Last(s)
    OBVIOUS
  <2>1. Len(q) \in 1..(Len(p) - 1) /\ Len(q) + 1 = Len(p)
    BY <1>1
  <2>2. q[Len(q)] = p[Len(p)]
    BY <1>1, <2>1
  <2> QED
    BY <1>2, <2>2
<1>5. Ordered(s, q)
  BY <1>3, <1>4 DEF Ordered
<1>6. q # <<>> => <<Head(p), Head(q)>> \in After(s)
  <2> SUFFICES ASSUME q # <<>> PROVE <<Head(p), Head(q)>> \in After(s)
    OBVIOUS
  <2>1. 1 \in 1..(Len(p) - 1) /\ 1 + 1 = 2
    BY <1>1
  <2>2. <<p[1], p[2]>> \in After(s)
    BY <1>2, <2>1
  <2> QED
    BY <1>1, <2>2
<1>7. q = <<>> => Head(p) \in Last(s)
  BY <1>1, <1>2
<1> QED
  BY <1>5, <1>6, <1>7 DEF q

LEMMA QueueOrder ==
    ASSUME NEW p \in Seq(Step), p # <<>>, Ordered("queue", p)
    PROVE  LET h == Head(p)
               q == Tail(p)
           IN  /\ h \in {"takeDown", "hubStop", "markDown", "hubStart",
                         "storeStart", "serverStart", "clientStart"}
               /\ h = "takeDown" => q # <<>> /\ Head(q) = "hubStop"
               /\ h = "hubStop" => q # <<>> /\ Head(q) = "markDown"
               /\ h = "markDown" /\ q # <<>> => Head(q) = "hubStart"
               /\ h = "hubStart" => q # <<>> /\ Head(q) = "storeStart"
               /\ h = "storeStart" => q # <<>> /\ Head(q) = "serverStart"
               /\ h = "serverStart" => q # <<>> /\ Head(q) = "clientStart"
               /\ h = "clientStart" => q = <<>>
<1> DEFINE h == Head(p)
           q == Tail(p)
<1>1. h \in Step
  BY TailFacts
<1>2. q # <<>> => <<h, Head(q)>> \in After("queue")
  BY OrderedTail DEF Slot
<1>3. q = <<>> => h \in {"markDown", "clientStart"}
  BY OrderedTail DEF Slot, Last
<1> HIDE DEF h, q
<1>4. q # <<>> => \/ h = "takeDown" /\ Head(q) = "hubStop"
                  \/ h = "hubStop" /\ Head(q) = "markDown"
                  \/ h = "markDown" /\ Head(q) = "hubStart"
                  \/ h = "hubStart" /\ Head(q) = "storeStart"
                  \/ h = "storeStart" /\ Head(q) = "serverStart"
                  \/ h = "serverStart" /\ Head(q) = "clientStart"
  BY <1>2 DEF After
<1>5. h \in {"takeDown", "hubStop", "markDown", "hubStart", "storeStart", "serverStart", "clientStart"}
  BY <1>1 DEF Step
<1>6. \/ q = <<>> /\ h \in {"markDown", "clientStart"}
      \/ q # <<>> /\ h = "takeDown" /\ Head(q) = "hubStop"
      \/ q # <<>> /\ h = "hubStop" /\ Head(q) = "markDown"
      \/ q # <<>> /\ h = "markDown" /\ Head(q) = "hubStart"
      \/ q # <<>> /\ h = "hubStart" /\ Head(q) = "storeStart"
      \/ q # <<>> /\ h = "storeStart" /\ Head(q) = "serverStart"
      \/ q # <<>> /\ h = "serverStart" /\ Head(q) = "clientStart"
  BY <1>3, <1>4
<1>7. /\ h = "takeDown" => q # <<>> /\ Head(q) = "hubStop"
      /\ h = "hubStop" => q # <<>> /\ Head(q) = "markDown"
      /\ h = "markDown" /\ q # <<>> => Head(q) = "hubStart"
      /\ h = "hubStart" => q # <<>> /\ Head(q) = "storeStart"
      /\ h = "storeStart" => q # <<>> /\ Head(q) = "serverStart"
      /\ h = "serverStart" => q # <<>> /\ Head(q) = "clientStart"
      /\ h = "clientStart" => q = <<>>
  BY <1>6
<1> QED
  BY <1>5, <1>7 DEF h, q

LEMMA CommandOrder ==
    ASSUME NEW p \in Seq(Step), p # <<>>, Ordered("command", p)
    PROVE  Head(p) \in {"hubStop", "hubStart"}
<1>1. Tail(p) # <<>> => <<Head(p), Head(Tail(p))>> = <<"hubStop", "hubStart">>
  BY OrderedTail DEF Slot, After
<1>2. Tail(p) = <<>> => Head(p) \in {"hubStop", "hubStart"}
  BY OrderedTail DEF Slot, Last
<1> QED
  BY <1>1, <1>2

LEMMA RestartPlan ==
    /\ StopSteps \o StartSteps \in Seq(Step) /\ StopSteps \o StartSteps # <<>>
    /\ Head(StopSteps \o StartSteps) = "takeDown"
    /\ Ordered("queue", StopSteps \o StartSteps)
<1> DEFINE p == StopSteps \o StartSteps
<1>1. /\ StopSteps \in Seq(Step) /\ Len(StopSteps) = 3
      /\ StopSteps[1] = "takeDown" /\ StopSteps[2] = "hubStop" /\ StopSteps[3] = "markDown"
  BY DEF StopSteps, Step
<1>2. /\ StartSteps \in Seq(Step) /\ Len(StartSteps) = 4
      /\ StartSteps[1] = "hubStart" /\ StartSteps[2] = "storeStart"
      /\ StartSteps[3] = "serverStart" /\ StartSteps[4] = "clientStart"
  BY DEF StartSteps, Step
<1>3. /\ p \in Seq(Step) /\ Len(p) = 7
      /\ \A i \in 1..7 : p[i] = IF i <= 3 THEN StopSteps[i] ELSE StartSteps[i - 3]
  <2>1. /\ StopSteps \o StartSteps \in Seq(Step)
        /\ Len(StopSteps \o StartSteps) = Len(StopSteps) + Len(StartSteps)
        /\ \A i \in 1..(Len(StopSteps) + Len(StartSteps)) :
              (StopSteps \o StartSteps)[i] = IF i <= Len(StopSteps) THEN StopSteps[i]
                                             ELSE StartSteps[i - Len(StopSteps)]
    BY <1>1, <1>2, ConcatProperties, Zenon
  <2> HIDE DEF p
  <2>2. p \in Seq(Step) /\ Len(p) = Len(StopSteps) + Len(StartSteps)
    BY <2>1 DEF p
  <2>3. \A i \in 1..(Len(StopSteps) + Len(StartSteps)) :
              p[i] = IF i <= Len(StopSteps) THEN StopSteps[i] ELSE StartSteps[i - Len(StopSteps)]
    BY <2>1, Zenon DEF p
  <2>4. Len(StopSteps) + Len(StartSteps) = 7
    BY <1>1, <1>2
  <2> QED
    BY <1>1, <2>2, <2>3, <2>4
<1> HIDE DEF p
<1>4. /\ p[1] = "takeDown" /\ p[2] = "hubStop" /\ p[3] = "markDown" /\ p[4] = "hubStart"
      /\ p[5] = "storeStart" /\ p[6] = "serverStart" /\ p[7] = "clientStart"
  BY <1>1, <1>2, <1>3
<1>5. \A i \in 1..6 : <<p[i], p[i + 1]>> \in After("queue")
  <2> SUFFICES ASSUME NEW i \in 1..6 PROVE <<p[i], p[i + 1]>> \in After("queue")
    OBVIOUS
  <2>1. i = 1 \/ i = 2 \/ i = 3 \/ i = 4 \/ i = 5 \/ i = 6
    OBVIOUS
  <2> QED
    BY <1>4, <2>1 DEF After
<1>6. p # <<>> /\ Head(p) = "takeDown"
  BY <1>3, <1>4
<1>7. Ordered("queue", p)
  BY <1>3, <1>4, <1>5 DEF Ordered, Last
<1> QED
  BY <1>3, <1>6, <1>7 DEF p

LEMMA PlansOrdered ==
    /\ \A p \in {StartSteps, StopSteps, StopSteps \o StartSteps, <<>>} :
          p \in Seq(Step) /\ Ordered("queue", p)
    /\ \A p \in {<<"hubStart">>, <<"hubStop">>, <<"hubStop", "hubStart">>, <<>>} :
          p \in Seq(Step) /\ Ordered("command", p)
    /\ StartSteps # <<>> /\ Head(StartSteps) = "hubStart"
    /\ StopSteps # <<>> /\ Head(StopSteps) = "takeDown"
<1>1. StartSteps \in Seq(Step) /\ Ordered("queue", StartSteps)
  BY DEF StartSteps, Step, Ordered, After, Last
<1>2. StopSteps \in Seq(Step) /\ Ordered("queue", StopSteps)
  BY DEF StopSteps, Step, Ordered, After, Last
<1>3. \A s \in Slot : <<>> \in Seq(Step) /\ Ordered(s, <<>>)
  BY DEF Ordered
<1>4. \A p \in {<<"hubStart">>, <<"hubStop">>, <<"hubStop", "hubStart">>} :
         p \in Seq(Step) /\ Ordered("command", p)
  BY DEF Ordered, After, Last, Step
<1>5. /\ StartSteps # <<>> /\ Head(StartSteps) = "hubStart"
      /\ StopSteps # <<>> /\ Head(StopSteps) = "takeDown"
  BY DEF StopSteps, StartSteps
<1> QED
  BY <1>1, <1>2, <1>3, <1>4, <1>5, RestartPlan DEF Slot

-----------------------------------------------------------------------------
(* Calls.                                                                  *)

Stage == {"ready", "probing", "waiting", "terminating", "killing",
          "storeStarting", "serverStarting", "closing"}
Call == [stage : Stage, child : Child \cup {NoChild}, todo : Seq(Step)]
Calls == [Window -> [Slot -> Call]]

\* Only the call of s in w moves: to stage st for child c, with p to be done.
Moved(w, s, st, c, p) ==
    /\ call' \in Calls
    /\ call'[w][s].stage = st /\ call'[w][s].child = c /\ call'[w][s].todo = p
    /\ \A v \in Window, r \in Slot : v # w \/ r # s => call'[v][r] = call[v][r]

LEMMA CallFacts ==
    ASSUME call \in Calls, NEW w \in Window, NEW s \in Slot
    PROVE  /\ call[w][s] \in Call /\ call[w][s].stage \in Stage
           /\ call[w][s].child \in Child \cup {NoChild} /\ call[w][s].todo \in Seq(Step)
<1>1. call[w][s] \in Call
  BY DEF Calls
<1> QED
  BY <1>1 DEF Call

LEMMA IdleCall ==
    ASSUME NEW k \in Call
    PROVE  k = Idle <=> k.stage = "ready" /\ k.child = NoChild /\ k.todo = <<>>
BY DEF Call, Idle, Todo

LEMMA MovedTo ==
    ASSUME call \in Calls, NEW w \in Window, NEW s \in Slot,
           NEW st \in Stage, NEW c \in Child \cup {NoChild}, NEW p \in Seq(Step),
           call' = [call EXCEPT ![w][s] = [stage |-> st, child |-> c, todo |-> p]]
    PROVE  Moved(w, s, st, c, p)
<1> DEFINE k == [stage |-> st, child |-> c, todo |-> p]
<1>1. k \in Call /\ k.stage = st /\ k.child = c /\ k.todo = p
  BY DEF Call
<1>2. call' = [call EXCEPT ![w][s] = k]
  OBVIOUS
<1> HIDE DEF k
<1>3. /\ call' \in Calls /\ call'[w][s] = k
      /\ \A v \in Window, r \in Slot : v # w \/ r # s => call'[v][r] = call[v][r]
  BY <1>1, <1>2 DEF Calls
<1> QED
  BY <1>1, <1>3 DEF Moved

LEMMA AwaitMoves ==
    ASSUME call \in Calls, NEW w \in Window, NEW s \in Slot, NEW c \in Child \cup {NoChild},
           NEW st \in Stage, Await(w, s, st, c)
    PROVE  Moved(w, s, st, c, call[w][s].todo)
BY CallFacts, MovedTo DEF Await

LEMMA GoOnMoves ==
    ASSUME call \in Calls, NEW w \in Window, NEW s \in Slot, call[w][s].todo # <<>>, GoOn(w, s)
    PROVE  Moved(w, s, "ready", NoChild, Tail(call[w][s].todo))
<1>1. Tail(call[w][s].todo) \in Seq(Step)
  BY CallFacts, TailFacts
<1> QED
  BY <1>1, MovedTo DEF GoOn, Todo, Stage

LEMMA GiveUpMoves ==
    ASSUME call \in Calls, NEW w \in Window, NEW s \in Slot, GiveUp(w, s)
    PROVE  Moved(w, s, "ready", NoChild, IF s = "queue" THEN StopSteps ELSE <<>>)
<1>1. (IF s = "queue" THEN StopSteps ELSE <<>>) \in Seq(Step)
  BY PlansOrdered
<1> QED
  BY <1>1, MovedTo DEF GiveUp, Todo, Stage

LEMMA BeginMoves ==
    ASSUME call \in Calls, NEW w \in Window, NEW s \in Slot, NEW p \in Seq(Step), Begin(w, s, p)
    PROVE  Moved(w, s, "ready", NoChild, p) /\ call[w][s].todo = <<>> /\ call[w][s].stage = "ready"
<1>1. call[w][s] = Idle
  BY DEF Begin, Busy
<1> QED
  BY <1>1, MovedTo, CallFacts, IdleCall DEF Begin, Todo, Stage

-----------------------------------------------------------------------------
(* Processes and modes.                                                    *)

Processes ==
    [Child -> [state : {"none", "booting", "serving", "dead", "reaped"},
               window : Window, signal : {"none", "term", "kill"}]]

\* Only the process c changes, to what is said of it.
Changed(c, st, w, sg) ==
    /\ child' \in Processes
    /\ child'[c].state = st /\ child'[c].window = w /\ child'[c].signal = sg
    /\ \A d \in Child \ {c} : child'[d] = child[d]

ModeSet(w, m) ==
    mode' \in [Window -> Mode] /\ mode'[w] = m /\ \A v \in Window \ {w} : mode'[v] = mode[v]
ProcessSet(w, c) ==
    /\ process' \in [Window -> Child \cup {NoChild}]
    /\ process'[w] = c /\ \A v \in Window \ {w} : process'[v] = process[v]

LEMMA TypeFacts ==
    ASSUME TypeOK
    PROVE  /\ process \in [Window -> Child \cup {NoChild}] /\ mode \in [Window -> Mode]
           /\ call \in Calls /\ exiting \in SUBSET Child /\ child \in Processes
           /\ faults \in 0..MaxFaults /\ blurred \in SUBSET Window
           /\ parts \in [Window -> SUBSET Parts] /\ running \in [Window -> BOOLEAN]
           /\ calls \in 0..MaxCalls
BY DEF TypeOK, HubTypeOK, Calls, Call, Stage, Processes

LEMMA ChildFacts ==
    ASSUME child \in Processes, NEW c \in Child
    PROVE  /\ child[c].state \in {"none", "booting", "serving", "dead", "reaped"}
           /\ child[c].window \in Window /\ child[c].signal \in {"none", "term", "kill"}
BY DEF Processes

LEMMA NoChildIsNone == NoChild \notin Child
BY ManagedHubAssumption DEF NoChild, Child

LEMMA SignalSent ==
    ASSUME child \in Processes, NEW c \in Child, NEW g \in {"term", "kill"},
           child' = [child EXCEPT ![c].signal = g]
    PROVE  Changed(c, child[c].state, child[c].window, g)
BY DEF Processes, Changed

LEMMA StateSet ==
    ASSUME child \in Processes, NEW c \in Child, NEW t \in {"serving", "dead", "reaped"},
           child' = [child EXCEPT ![c].state = t]
    PROVE  Changed(c, t, child[c].window, child[c].signal)
BY DEF Processes, Changed

LEMMA Spawned ==
    ASSUME child \in Processes, NEW c \in Child, NEW w \in Window,
           child' = [child EXCEPT ![c] = [state |-> "booting", window |-> w, signal |-> "none"]]
    PROVE  Changed(c, "booting", w, "none")
BY DEF Processes, Changed

LEMMA ModeMoves ==
    ASSUME mode \in [Window -> Mode], NEW w \in Window, NEW m \in Mode, mode' = [mode EXCEPT ![w] = m]
    PROVE  ModeSet(w, m)
BY DEF ModeSet

LEMMA ProcessMoves ==
    ASSUME process \in [Window -> Child \cup {NoChild}], NEW w \in Window,
           NEW c \in Child \cup {NoChild}, process' = [process EXCEPT ![w] = c]
    PROVE  ProcessSet(w, c)
BY DEF ProcessSet

-----------------------------------------------------------------------------
(* What each step does, without its EXCEPTs.                               *)

LEMMA TerminateDoes ==
    ASSUME TypeOK, NEW w \in Window, Terminate(w)
    PROVE  /\ ModeSet(w, "stopped") /\ ProcessSet(w, NoChild)
           /\ Owns(w) => /\ process[w] \in Child
                         /\ Changed(process[w], child[process[w]].state, child[process[w]].window, "term")
           /\ ~Owns(w) => child' = child
<1>1. ModeSet(w, "stopped")
  BY TypeFacts, ModeMoves DEF Terminate, Mode
<1>2. ProcessSet(w, NoChild)
  BY TypeFacts, ProcessMoves DEF Terminate
<1>3. ASSUME Owns(w)
      PROVE  /\ process[w] \in Child
             /\ Changed(process[w], child[process[w]].state, child[process[w]].window, "term")
  <2>1. process[w] \in Child
    BY <1>3, TypeFacts DEF Owns
  <2> QED
    BY <1>3, <2>1, TypeFacts, SignalSent DEF Terminate
<1> QED
  BY <1>1, <1>2, <1>3 DEF Terminate

\* The call of s in w is at a step, or waits for one it began.
LEMMA AtStep ==
    ASSUME NEW w \in Window, NEW s \in Slot, NEW h, At(w, s, h)
    PROVE  call[w][s].stage = "ready" /\ call[w][s].todo # <<>> /\ Head(call[w][s].todo) = h
BY DEF At

LEMMA AwaitsStep ==
    ASSUME Lifecycle, NEW w \in Window, NEW s \in Slot, call[w][s].stage # "ready"
    PROVE  /\ call[w][s].todo # <<>> /\ Ordered(s, call[w][s].todo)
           /\ LET h == Head(call[w][s].todo)
                  t == call[w][s].stage
              IN  /\ t \in {"probing", "waiting"} => h = "hubStart"
                  /\ t \in {"terminating", "killing"} => h \in {"hubStart", "hubStop"}
                  /\ t = "storeStarting" => h = "storeStart"
                  /\ t = "serverStarting" => h = "serverStart"
                  /\ t = "closing" => h = "takeDown"
<1>1. Consistent(s, call[w][s])
  BY DEF Lifecycle
<1> QED
  BY <1>1 DEF Consistent, Terminating

LEMMA HubStartDoes ==
    ASSUME TypeOK, NEW w \in Window, NEW s \in Slot, HubStart(w, s)
    PROVE  /\ call[w][s].stage = "ready" /\ call[w][s].todo # <<>> /\ Head(call[w][s].todo) = "hubStart"
           /\ \/ Owns(w) /\ ModeSet(w, "running") /\ Moved(w, s, "ready", NoChild, Tail(call[w][s].todo))
              \/ ~Owns(w) /\ mode' = mode /\ Moved(w, s, "probing", NoChild, call[w][s].todo)
           /\ UNCHANGED <<process, exiting, child, faults, blurred>>
<1>1. call[w][s].stage = "ready" /\ call[w][s].todo # <<>> /\ Head(call[w][s].todo) = "hubStart"
  BY AtStep DEF HubStart
<1>2. CASE Owns(w)
  <2>1. ModeSet(w, "running")
    BY <1>2, TypeFacts, ModeMoves DEF HubStart, Mode
  <2>2. Moved(w, s, "ready", NoChild, Tail(call[w][s].todo))
    BY <1>1, <1>2, TypeFacts, GoOnMoves DEF HubStart
  <2> QED
    BY <1>1, <1>2, <2>1, <2>2 DEF HubStart
<1>3. CASE ~Owns(w)
  <2>1. Moved(w, s, "probing", NoChild, call[w][s].todo)
    BY <1>3, TypeFacts, AwaitMoves DEF HubStart, Stage
  <2> QED
    BY <1>1, <1>3, <2>1 DEF HubStart
<1> QED
  BY <1>2, <1>3

LEMMA HubProbedDoes ==
    ASSUME TypeOK, Lifecycle, NEW w \in Window, NEW s \in Slot, HubProbed(w, s)
    PROVE  /\ call[w][s].stage = "probing" /\ call[w][s].todo # <<>> /\ ~Ready(w)
           /\ \/ /\ Serving /\ ModeSet(w, "external")
                 /\ Moved(w, s, "ready", NoChild, Tail(call[w][s].todo))
                 /\ UNCHANGED <<process, child, blurred>>
              \/ /\ ~Serving
                 /\ \E c \in Child :
                      /\ child[c].state = "none" /\ Changed(c, "booting", w, "none")
                      /\ ProcessSet(w, c) /\ ModeSet(w, "starting")
                      /\ Moved(w, s, "waiting", NoChild, call[w][s].todo)
                      /\ blurred' = IF LookedInto(w) THEN blurred \cup {w} ELSE blurred
           /\ UNCHANGED <<exiting, faults>>
<1>1. call[w][s].stage = "probing" /\ call[w][s].todo # <<>> /\ ~Ready(w)
  BY AwaitsStep DEF HubProbed
<1>2. CASE Serving
  <2>1. ModeSet(w, "external")
    BY <1>2, TypeFacts, ModeMoves DEF HubProbed, Mode
  <2>2. Moved(w, s, "ready", NoChild, Tail(call[w][s].todo))
    BY <1>1, <1>2, TypeFacts, GoOnMoves DEF HubProbed
  <2> QED
    BY <1>1, <1>2, <2>1, <2>2 DEF HubProbed
<1>3. CASE ~Serving
  <2>1. PICK c \in Child :
           /\ child[c].state = "none"
           /\ child' = [child EXCEPT ![c] = [state |-> "booting", window |-> w, signal |-> "none"]]
           /\ process' = [process EXCEPT ![w] = c]
           /\ mode' = [mode EXCEPT ![w] = "starting"]
           /\ Await(w, s, "waiting", NoChild)
           /\ blurred' = IF LookedInto(w) THEN blurred \cup {w} ELSE blurred
    BY <1>3 DEF HubProbed
  <2>2. Changed(c, "booting", w, "none")
    BY <2>1, TypeFacts, Spawned
  <2>3. ProcessSet(w, c) /\ ModeSet(w, "starting")
    BY <2>1, TypeFacts, ProcessMoves, ModeMoves DEF Mode
  <2>4. Moved(w, s, "waiting", NoChild, call[w][s].todo)
    BY <2>1, TypeFacts, AwaitMoves DEF Stage
  <2> QED
    BY <1>1, <1>3, <2>1, <2>2, <2>3, <2>4 DEF HubProbed
<1> QED
  BY <1>2, <1>3

LEMMA HubSeenHealthyDoes ==
    ASSUME TypeOK, Lifecycle, NEW w \in Window, NEW s \in Slot, HubSeenHealthy(w, s)
    PROVE  /\ call[w][s].stage = "waiting" /\ call[w][s].todo # <<>> /\ ~Ready(w) /\ Serving
           /\ ModeSet(w, IF process[w] # NoChild THEN "running" ELSE "external")
           /\ Moved(w, s, "ready", NoChild, Tail(call[w][s].todo))
           /\ UNCHANGED <<process, exiting, child, faults, blurred>>
<1>1. call[w][s].stage = "waiting" /\ call[w][s].todo # <<>>
  BY AwaitsStep DEF HubSeenHealthy
<1>2. ModeSet(w, IF process[w] # NoChild THEN "running" ELSE "external")
  BY TypeFacts, ModeMoves DEF HubSeenHealthy, Mode
<1>3. Moved(w, s, "ready", NoChild, Tail(call[w][s].todo))
  BY <1>1, TypeFacts, GoOnMoves DEF HubSeenHealthy
<1> QED
  BY <1>1, <1>2, <1>3 DEF HubSeenHealthy

LEMMA HubNeverHealthyDoes ==
    ASSUME TypeOK, Lifecycle, NEW w \in Window, NEW s \in Slot, HubNeverHealthy(w, s)
    PROVE  /\ call[w][s].stage = "waiting" /\ call[w][s].todo # <<>> /\ ~Ready(w)
           /\ ModeSet(w, "stopped") /\ ProcessSet(w, NoChild)
           /\ \/ /\ Owns(w) /\ process[w] \in Child
                 /\ Changed(process[w], child[process[w]].state, child[process[w]].window, "term")
                 /\ Moved(w, s, "terminating", process[w], call[w][s].todo)
              \/ /\ ~Owns(w) /\ child' = child
                 /\ Moved(w, s, "ready", NoChild, IF s = "queue" THEN StopSteps ELSE <<>>)
           /\ UNCHANGED <<exiting, faults, blurred>>
<1>1. call[w][s].stage = "waiting" /\ call[w][s].todo # <<>> /\ ~Ready(w)
  BY AwaitsStep DEF HubNeverHealthy
<1>2. Terminate(w)
  BY DEF HubNeverHealthy, StopAndThrow
<1>3. CASE Owns(w)
  <2>1. process[w] \in Child
    BY <1>2, <1>3, TerminateDoes
  <2>2. Moved(w, s, "terminating", process[w], call[w][s].todo)
    BY <1>3, <2>1, TypeFacts, AwaitMoves DEF HubNeverHealthy, StopAndThrow, Stage
  <2> QED
    BY <1>1, <1>2, <1>3, <2>1, <2>2, TerminateDoes DEF HubNeverHealthy
<1>4. CASE ~Owns(w)
  <2>1. Moved(w, s, "ready", NoChild, IF s = "queue" THEN StopSteps ELSE <<>>)
    BY <1>4, TypeFacts, GiveUpMoves DEF HubNeverHealthy, StopAndThrow
  <2> QED
    BY <1>1, <1>2, <1>4, <2>1, TerminateDoes DEF HubNeverHealthy
<1> QED
  BY <1>3, <1>4

LEMMA HubStopDoes ==
    ASSUME TypeOK, NEW w \in Window, NEW s \in Slot, HubStop(w, s)
    PROVE  /\ call[w][s].stage = "ready" /\ call[w][s].todo # <<>> /\ Head(call[w][s].todo) = "hubStop"
           /\ ModeSet(w, "stopped")
           /\ \/ /\ mode[w] = "external" /\ UNCHANGED <<process, child>>
                 /\ Moved(w, s, "ready", NoChild, Tail(call[w][s].todo))
              \/ /\ mode[w] # "external" /\ Owns(w) /\ process[w] \in Child /\ ProcessSet(w, NoChild)
                 /\ Changed(process[w], child[process[w]].state, child[process[w]].window, "term")
                 /\ Moved(w, s, "terminating", process[w], call[w][s].todo)
              \/ /\ mode[w] # "external" /\ ~Owns(w) /\ child' = child /\ ProcessSet(w, NoChild)
                 /\ Moved(w, s, "ready", NoChild, Tail(call[w][s].todo))
           /\ UNCHANGED <<exiting, faults, blurred>>
<1>1. call[w][s].stage = "ready" /\ call[w][s].todo # <<>> /\ Head(call[w][s].todo) = "hubStop"
  BY AtStep DEF HubStop
<1>2. GoOn(w, s) => Moved(w, s, "ready", NoChild, Tail(call[w][s].todo))
  BY <1>1, TypeFacts, GoOnMoves
<1>3. CASE mode[w] = "external"
  <2>1. ModeSet(w, "stopped")
    BY <1>3, TypeFacts, ModeMoves DEF HubStop, Mode
  <2> QED
    BY <1>1, <1>2, <1>3, <2>1 DEF HubStop
<1>4. CASE mode[w] # "external" /\ Owns(w)
  <2>1. Terminate(w) /\ Await(w, s, "terminating", process[w])
    BY <1>4 DEF HubStop
  <2>2. Moved(w, s, "terminating", process[w], call[w][s].todo)
    BY <1>4, <2>1, TypeFacts, TerminateDoes, AwaitMoves DEF Stage
  <2> QED
    BY <1>1, <1>4, <2>1, <2>2, TerminateDoes DEF HubStop
<1>5. CASE mode[w] # "external" /\ ~Owns(w)
  <2>1. Terminate(w) /\ GoOn(w, s)
    BY <1>5 DEF HubStop
  <2> QED
    BY <1>1, <1>2, <1>5, <2>1, TerminateDoes DEF HubStop
<1> QED
  BY <1>3, <1>4, <1>5

LEMMA TermTimesOutDoes ==
    ASSUME TypeOK, Lifecycle, Named, NEW w \in Window, NEW s \in Slot, TermTimesOut(w, s)
    PROVE  LET c == call[w][s].child
           IN  /\ call[w][s].stage = "terminating" /\ call[w][s].todo # <<>> /\ c \in Child
               /\ Changed(c, child[c].state, child[c].window, "kill")
               /\ Moved(w, s, "killing", c, call[w][s].todo)
               /\ UNCHANGED <<process, mode, exiting, faults, blurred>>
<1> DEFINE c == call[w][s].child
<1>1. call[w][s].stage = "terminating" /\ call[w][s].todo # <<>>
  BY AwaitsStep DEF TermTimesOut
<1>2. c \in Child
  BY <1>1, TypeFacts, CallFacts DEF Named, Terminating
<1>3. Changed(c, child[c].state, child[c].window, "kill")
  BY <1>2, TypeFacts, SignalSent DEF TermTimesOut, Killed
<1>4. Moved(w, s, "killing", c, call[w][s].todo)
  BY <1>2, TypeFacts, AwaitMoves DEF TermTimesOut, Stage
<1> QED
  BY <1>1, <1>2, <1>3, <1>4 DEF TermTimesOut

LEMMA HubStoppedDoes ==
    ASSUME TypeOK, Lifecycle, NEW w \in Window, NEW s \in Slot, HubStopped(w, s)
    PROVE  /\ Terminating(call[w][s]) /\ child[call[w][s].child].state = "reaped"
           /\ call[w][s].todo # <<>>
           /\ \/ /\ Head(call[w][s].todo) = "hubStop"
                 /\ Moved(w, s, "ready", NoChild, Tail(call[w][s].todo))
              \/ /\ Head(call[w][s].todo) = "hubStart"
                 /\ Moved(w, s, "ready", NoChild, IF s = "queue" THEN StopSteps ELSE <<>>)
           /\ UNCHANGED <<process, mode, exiting, child, faults, blurred>>
<1>1. Terminating(call[w][s]) /\ child[call[w][s].child].state = "reaped"
  BY DEF HubStopped, Reaped, Terminating
<1>2. call[w][s].todo # <<>> /\ Head(call[w][s].todo) \in {"hubStart", "hubStop"}
  BY <1>1, AwaitsStep DEF Terminating
<1>3. CASE Head(call[w][s].todo) = "hubStop"
  BY <1>1, <1>2, <1>3, TypeFacts, GoOnMoves DEF HubStopped
<1>4. CASE Head(call[w][s].todo) = "hubStart"
  BY <1>1, <1>2, <1>4, TypeFacts, GiveUpMoves DEF HubStopped
<1> QED
  BY <1>2, <1>3, <1>4

\* The steps of the bridge.
PartsBecome(w, p) ==
    /\ parts' \in [Window -> SUBSET Parts]
    /\ parts'[w] = p /\ \A v \in Window \ {w} : parts'[v] = parts[v]
RunningBecomes(w, b) ==
    /\ running' \in [Window -> BOOLEAN]
    /\ running'[w] = b /\ \A v \in Window \ {w} : running'[v] = running[v]

LEMMA PartsMove ==
    ASSUME TypeOK, NEW w \in Window, NEW p \in SUBSET Parts, parts' = [parts EXCEPT ![w] = p]
    PROVE  PartsBecome(w, p)
BY TypeFacts DEF PartsBecome

LEMMA RunningMoves ==
    ASSUME TypeOK, NEW w \in Window, NEW b \in BOOLEAN, running' = [running EXCEPT ![w] = b]
    PROVE  RunningBecomes(w, b)
BY TypeFacts DEF RunningBecomes

LEMMA StoreStartsDoes ==
    ASSUME TypeOK, NEW w \in Window, NEW s \in Slot, StoreStarts(w, s)
    PROVE  /\ call[w][s].stage = "ready" /\ call[w][s].todo # <<>> /\ Head(call[w][s].todo) = "storeStart"
           /\ PartsBecome(w, parts[w] \cup {"store"})
           /\ Moved(w, s, "storeStarting", NoChild, call[w][s].todo)
           /\ UNCHANGED <<faults, running>>
<1>1. (parts[w] \cup {"store"}) \in SUBSET Parts
  BY TypeFacts DEF Parts
<1>2. PartsBecome(w, parts[w] \cup {"store"})
  BY <1>1, PartsMove DEF StoreStarts, Up
<1>3. Moved(w, s, "storeStarting", NoChild, call[w][s].todo)
  BY TypeFacts, AwaitMoves DEF StoreStarts, Stage
<1> QED
  BY <1>2, <1>3, AtStep DEF StoreStarts

LEMMA ServerStartsDoes ==
    ASSUME TypeOK, NEW w \in Window, NEW s \in Slot, ServerStarts(w, s)
    PROVE  /\ call[w][s].stage = "ready" /\ call[w][s].todo # <<>> /\ Head(call[w][s].todo) = "serverStart"
           /\ PartsBecome(w, parts[w] \cup {"server"})
           /\ Moved(w, s, "serverStarting", NoChild, call[w][s].todo)
           /\ UNCHANGED <<faults, running>>
<1>1. (parts[w] \cup {"server"}) \in SUBSET Parts
  BY TypeFacts DEF Parts
<1>2. PartsBecome(w, parts[w] \cup {"server"})
  BY <1>1, PartsMove DEF ServerStarts, Up
<1>3. Moved(w, s, "serverStarting", NoChild, call[w][s].todo)
  BY TypeFacts, AwaitMoves DEF ServerStarts, Stage
<1> QED
  BY <1>2, <1>3, AtStep DEF ServerStarts

LEMMA StartedDoes ==
    ASSUME TypeOK, Lifecycle, NEW w \in Window, NEW s \in Slot, Started(w, s)
    PROVE  /\ call[w][s].stage \in {"storeStarting", "serverStarting"} /\ call[w][s].todo # <<>>
           /\ Moved(w, s, "ready", NoChild, Tail(call[w][s].todo))
           /\ UNCHANGED <<faults, parts, running>>
<1>1. call[w][s].stage \in {"storeStarting", "serverStarting"} /\ call[w][s].todo # <<>>
  BY AwaitsStep DEF Started
<1> QED
  BY <1>1, TypeFacts, GoOnMoves DEF Started

LEMMA HubClientStartsDoes ==
    ASSUME TypeOK, NEW w \in Window, NEW s \in Slot, HubClientStarts(w, s)
    PROVE  /\ call[w][s].stage = "ready" /\ call[w][s].todo # <<>> /\ Head(call[w][s].todo) = "clientStart"
           /\ PartsBecome(w, parts[w] \cup {"hubClient"}) /\ RunningBecomes(w, TRUE)
           /\ Moved(w, s, "ready", NoChild, Tail(call[w][s].todo))
           /\ faults' = faults
<1>1. (parts[w] \cup {"hubClient"}) \in SUBSET Parts
  BY TypeFacts DEF Parts
<1>2. PartsBecome(w, parts[w] \cup {"hubClient"})
  BY <1>1, PartsMove DEF HubClientStarts, Up
<1>3. RunningBecomes(w, TRUE)
  BY RunningMoves DEF HubClientStarts
<1>4. call[w][s].stage = "ready" /\ call[w][s].todo # <<>> /\ Head(call[w][s].todo) = "clientStart"
  BY AtStep DEF HubClientStarts
<1> QED
  BY <1>2, <1>3, <1>4, TypeFacts, GoOnMoves DEF HubClientStarts

LEMMA StartFailsDoes ==
    ASSUME TypeOK, Lifecycle, NEW w \in Window, NEW s \in Slot, StartFails(w, s)
    PROVE  /\ call[w][s].stage \in {"storeStarting", "serverStarting"} /\ call[w][s].todo # <<>>
           /\ Moved(w, s, "ready", NoChild, IF s = "queue" THEN StopSteps ELSE <<>>)
           /\ faults < MaxFaults /\ faults' = faults + 1
           /\ UNCHANGED <<parts, running>>
<1>1. call[w][s].stage \in {"storeStarting", "serverStarting"} /\ call[w][s].todo # <<>>
  BY AwaitsStep DEF StartFails
<1> QED
  BY <1>1, TypeFacts, GiveUpMoves DEF StartFails, UndoStart

LEMMA TakeDownDoes ==
    ASSUME TypeOK, NEW w \in Window, NEW s \in Slot, TakeDown(w, s)
    PROVE  /\ call[w][s].stage = "ready" /\ call[w][s].todo # <<>> /\ Head(call[w][s].todo) = "takeDown"
           /\ PartsBecome(w, parts[w] \ {"hubClient"})
           /\ \/ parts[w] = {} /\ Moved(w, s, "ready", NoChild, Tail(call[w][s].todo))
              \/ Moved(w, s, "closing", NoChild, call[w][s].todo)
           /\ UNCHANGED <<faults, running>>
<1>1. (parts[w] \ {"hubClient"}) \in SUBSET Parts
  BY TypeFacts
<1>2. PartsBecome(w, parts[w] \ {"hubClient"})
  BY <1>1, PartsMove DEF TakeDown
<1>3. call[w][s].stage = "ready" /\ call[w][s].todo # <<>> /\ Head(call[w][s].todo) = "takeDown"
  BY AtStep DEF TakeDown
<1>4. CASE parts[w] = {}
  BY <1>2, <1>3, <1>4, TypeFacts, GoOnMoves DEF TakeDown
<1>5. CASE parts[w] # {}
  BY <1>2, <1>3, <1>5, TypeFacts, AwaitMoves DEF TakeDown, Stage
<1> QED
  BY <1>4, <1>5

LEMMA ClosedDoes ==
    ASSUME TypeOK, Lifecycle, NEW w \in Window, NEW s \in Slot, Closed(w, s)
    PROVE  /\ call[w][s].stage = "closing" /\ call[w][s].todo # <<>>
           /\ PartsBecome(w, {}) /\ Moved(w, s, "ready", NoChild, Tail(call[w][s].todo))
           /\ UNCHANGED <<faults, running>>
<1>1. call[w][s].stage = "closing" /\ call[w][s].todo # <<>>
  BY AwaitsStep DEF Closed
<1>2. PartsBecome(w, {})
  <2>1. {} \in SUBSET Parts
    OBVIOUS
  <2> QED
    BY <2>1, PartsMove DEF Closed
<1> QED
  BY <1>1, <1>2, TypeFacts, GoOnMoves DEF Closed

LEMMA MarkDownDoes ==
    ASSUME TypeOK, NEW w \in Window, NEW s \in Slot, MarkDown(w, s)
    PROVE  /\ call[w][s].stage = "ready" /\ call[w][s].todo # <<>> /\ Head(call[w][s].todo) = "markDown"
           /\ RunningBecomes(w, FALSE) /\ Moved(w, s, "ready", NoChild, Tail(call[w][s].todo))
           /\ UNCHANGED <<faults, parts>>
<1>1. call[w][s].stage = "ready" /\ call[w][s].todo # <<>> /\ Head(call[w][s].todo) = "markDown"
  BY AtStep DEF MarkDown
<1>2. RunningBecomes(w, FALSE)
  BY RunningMoves DEF MarkDown
<1> QED
  BY <1>1, <1>2, TypeFacts, GoOnMoves DEF MarkDown

\* The calls that begin.
Beginning(w) == Start(w) \/ Stop(w) \/ Restart(w)
                \/ StartManagedHub(w) \/ StopManagedHub(w) \/ RestartManagedHub(w)

LEMMA BeginningDoes ==
    ASSUME TypeOK, NEW w \in Window, Beginning(w)
    PROVE  /\ \E s \in Slot, p \in Seq(Step) :
                /\ p # <<>> /\ Ordered(s, p) /\ Moved(w, s, "ready", NoChild, p)
                /\ call[w][s].todo = <<>> /\ call[w][s].stage = "ready"
                /\ s = "queue" => Head(p) = "takeDown" \/ (Head(p) = "hubStart" /\ ~running[w])
           /\ blurred' = IF \E r \in Slot : Busy(w, r) THEN blurred \cup {w} ELSE blurred
           /\ calls' \in 0..MaxCalls
           /\ UNCHANGED <<process, mode, exiting, child, faults, parts, running>>
<1>1. ASSUME NEW s \in Slot, NEW p \in Seq(Step), Called(w, s, p)
      PROVE  /\ Moved(w, s, "ready", NoChild, p)
             /\ call[w][s].todo = <<>> /\ call[w][s].stage = "ready"
             /\ blurred' = IF \E r \in Slot : Busy(w, r) THEN blurred \cup {w} ELSE blurred
             /\ calls' \in 0..MaxCalls
             /\ UNCHANGED <<process, mode, exiting, child, faults, parts, running>>
  <2>1. Begin(w, s, p)
    BY <1>1 DEF Called
  <2>2. calls' \in 0..MaxCalls
    BY <1>1, TypeFacts, ManagedHubAssumption DEF Called
  <2> QED
    BY <1>1, <2>1, <2>2, TypeFacts, BeginMoves DEF Called, Begin, processVars
<1>2. \E s \in Slot, p \in Seq(Step) :
         /\ Called(w, s, p) /\ p # <<>> /\ Ordered(s, p)
         /\ s = "queue" => Head(p) = "takeDown" \/ (Head(p) = "hubStart" /\ ~running[w])
  <2>1. CASE Start(w)
    BY <2>1, PlansOrdered DEF Start, Slot
  <2>2. CASE Stop(w)
    BY <2>2, PlansOrdered DEF Stop, Slot
  <2>3. CASE Restart(w)
    BY <2>3, RestartPlan DEF Restart, Slot
  <2>4. <<"hubStart">> # <<>> /\ <<"hubStop">> # <<>> /\ <<"hubStop", "hubStart">> # <<>>
    OBVIOUS
  <2>5. CASE StartManagedHub(w)
    BY <2>4, <2>5, PlansOrdered, Zenon DEF StartManagedHub, Slot
  <2>6. CASE StopManagedHub(w)
    BY <2>4, <2>6, PlansOrdered, Zenon DEF StopManagedHub, Slot
  <2>7. CASE RestartManagedHub(w)
    BY <2>4, <2>7, PlansOrdered, Zenon DEF RestartManagedHub, Slot
  <2> QED
    BY <2>1, <2>2, <2>3, <2>5, <2>6, <2>7 DEF Beginning
<1> QED
  BY <1>1, <1>2

\* The operating system, and the exit of a process.
LEMMA ProcessServesDoes ==
    ASSUME TypeOK, NEW c \in Child, ProcessServes(c)
    PROVE  /\ child[c].state = "booting" /\ ~Serving
           /\ Changed(c, "serving", child[c].window, child[c].signal)
           /\ UNCHANGED <<process, mode, call, exiting, faults, blurred>>
BY TypeFacts, StateSet DEF ProcessServes

LEMMA ProcessExitsDoes ==
    ASSUME TypeOK, NEW c \in Child, ProcessExits(c)
    PROVE  /\ child[c].state \in {"booting", "serving"}
           /\ Changed(c, "dead", child[c].window, child[c].signal)
           /\ \/ /\ child[c].signal # "none" \/ (child[c].state = "booting" /\ Serving)
                 /\ faults' = faults
              \/ faults < MaxFaults /\ faults' = faults + 1
           /\ UNCHANGED <<process, mode, call, exiting, blurred>>
BY TypeFacts, StateSet DEF ProcessExits, Alive

LEMMA ExitSeenDoes ==
    ASSUME TypeOK, NEW c \in Child, ExitSeen(c)
    PROVE  LET w == child[c].window
           IN  /\ w \in Window /\ child[c].state = "dead" /\ ~Ready(w)
               /\ Changed(c, "reaped", w, child[c].signal)
               /\ \/ mode[w] = "stopped" /\ UNCHANGED <<process, exiting>>
                  \/ mode[w] # "stopped" /\ ProcessSet(w, NoChild) /\ exiting' = exiting \cup {c}
               /\ UNCHANGED <<mode, call, faults, blurred>>
<1> DEFINE w == child[c].window
<1>1. w \in Window
  BY TypeFacts, ChildFacts
<1>2. child[c].state = "dead" /\ Changed(c, "reaped", w, child[c].signal)
  BY TypeFacts, StateSet DEF ExitSeen
<1>3. CASE mode[w] = "stopped"
  BY <1>1, <1>2, <1>3 DEF ExitSeen
<1>4. CASE mode[w] # "stopped"
  BY <1>1, <1>2, <1>4, TypeFacts, ProcessMoves DEF ExitSeen
<1> QED
  BY <1>3, <1>4

LEMMA ExitLookedIntoDoes ==
    ASSUME TypeOK, NEW c \in Child, ExitLookedInto(c)
    PROVE  LET w == child[c].window
           IN  /\ w \in Window /\ c \in exiting /\ exiting' = exiting \ {c}
               /\ ~Ready(w) /\ ModeSet(w, IF Serving THEN "external" ELSE "error")
               /\ UNCHANGED <<process, call, child, faults, blurred>>
<1> DEFINE w == child[c].window
<1>1. w \in Window
  BY TypeFacts, ChildFacts
<1>2. ModeSet(w, IF Serving THEN "external" ELSE "error")
  BY <1>1, TypeFacts, ModeMoves DEF ExitLookedInto, Verdict, Mode
<1> QED
  BY <1>1, <1>2 DEF ExitLookedInto

-----------------------------------------------------------------------------
(* Types.                                                                  *)

LEMMA NextCases ==
    ASSUME [Next]_vars
    PROVE  \/ \E w \in Window : Beginning(w)
           \/ \E w \in Window, s \in Slot : BridgeStep(w, s)
           \/ \E w \in Window, s \in Slot : HubStep(w, s)
           \/ \E c \in Child : SystemStep(c)
           \/ UNCHANGED vars
BY DEF Next, Beginning

\* A step of a call or of a process keeps the types.
HubTypes ==
    /\ process' \in [Window -> Child \cup {NoChild}] /\ mode' \in [Window -> Mode]
    /\ call' \in Calls /\ exiting' \in SUBSET Child /\ child' \in Processes
    /\ faults' \in 0..MaxFaults /\ blurred' \in SUBSET Window

LEMMA HubCallTypes ==
    ASSUME TypeOK, Lifecycle, Named, NEW w \in Window, NEW s \in Slot, HubCallStep(w, s)
    PROVE  HubTypes
<1> USE TypeFacts DEF HubTypes, Moved, ModeSet, ProcessSet, Changed
<1>1. CASE HubStart(w, s)
  BY <1>1, HubStartDoes
<1>2. CASE HubProbed(w, s)
  BY <1>2, HubProbedDoes
<1>3. CASE HubSeenHealthy(w, s)
  BY <1>3, HubSeenHealthyDoes
<1>4. CASE HubNeverHealthy(w, s)
  BY <1>4, HubNeverHealthyDoes
<1>5. CASE HubStop(w, s)
  BY <1>5, HubStopDoes
<1>6. CASE TermTimesOut(w, s)
  BY <1>6, TermTimesOutDoes
<1>7. CASE HubStopped(w, s)
  BY <1>7, HubStoppedDoes
<1> QED
  BY <1>1, <1>2, <1>3, <1>4, <1>5, <1>6, <1>7 DEF HubCallStep

LEMMA ProcessTypes ==
    ASSUME TypeOK, NEW c \in Child, ProcessStep(c)
    PROVE  HubTypes
<1> USE TypeFacts DEF HubTypes, ModeSet, ProcessSet, Changed
<1>1. CASE ProcessServes(c)
  BY <1>1, ProcessServesDoes
<1>2. CASE ProcessExits(c)
  BY <1>2, ProcessExitsDoes, ManagedHubAssumption
<1>3. CASE ExitSeen(c)
  BY <1>3, ExitSeenDoes
<1>4. CASE ExitLookedInto(c)
  BY <1>4, ExitLookedIntoDoes
<1> QED
  BY <1>1, <1>2, <1>3, <1>4 DEF ProcessStep

LEMMA BridgeTypes ==
    ASSUME TypeOK, Lifecycle, NEW w \in Window, NEW s \in Slot, BridgeStep(w, s)
    PROVE  /\ call' \in Calls /\ faults' \in 0..MaxFaults
           /\ parts' \in [Window -> SUBSET Parts] /\ running' \in [Window -> BOOLEAN]
<1> USE TypeFacts DEF Moved, PartsBecome, RunningBecomes
<1>1. CASE StoreStarts(w, s)
  BY <1>1, StoreStartsDoes
<1>2. CASE ServerStarts(w, s)
  BY <1>2, ServerStartsDoes
<1>3. CASE Started(w, s)
  BY <1>3, StartedDoes
<1>4. CASE HubClientStarts(w, s)
  BY <1>4, HubClientStartsDoes
<1>5. CASE StartFails(w, s)
  BY <1>5, StartFailsDoes, ManagedHubAssumption
<1>6. CASE TakeDown(w, s)
  BY <1>6, TakeDownDoes
<1>7. CASE Closed(w, s)
  BY <1>7, ClosedDoes
<1>8. CASE MarkDown(w, s)
  BY <1>8, MarkDownDoes
<1> QED
  BY <1>1, <1>2, <1>3, <1>4, <1>5, <1>6, <1>7, <1>8 DEF BridgeStep

LEMMA TypeStep ==
    ASSUME TypeOK, Lifecycle, Named, [Next]_vars
    PROVE  TypeOK'
<1> SUFFICES /\ HubTypes /\ parts' \in [Window -> SUBSET Parts] /\ running' \in [Window -> BOOLEAN]
             /\ calls' \in 0..MaxCalls
  BY DEF HubTypes, TypeOK, HubTypeOK, Calls, Call, Stage, Processes
<1>1. ASSUME NEW w \in Window, Beginning(w)
      PROVE  /\ HubTypes /\ parts' \in [Window -> SUBSET Parts] /\ running' \in [Window -> BOOLEAN]
             /\ calls' \in 0..MaxCalls
  BY <1>1, TypeFacts, BeginningDoes DEF HubTypes, Moved
<1>2. ASSUME NEW w \in Window, NEW s \in Slot, BridgeStep(w, s)
      PROVE  /\ HubTypes /\ parts' \in [Window -> SUBSET Parts] /\ running' \in [Window -> BOOLEAN]
             /\ calls' \in 0..MaxCalls
  BY <1>2, TypeFacts, BridgeTypes DEF HubTypes, BridgeStep, processVars
<1>3. ASSUME NEW w \in Window, NEW s \in Slot, HubStep(w, s)
      PROVE  /\ HubTypes /\ parts' \in [Window -> SUBSET Parts] /\ running' \in [Window -> BOOLEAN]
             /\ calls' \in 0..MaxCalls
  BY <1>3, TypeFacts, HubCallTypes DEF HubStep
<1>4. ASSUME NEW c \in Child, SystemStep(c)
      PROVE  /\ HubTypes /\ parts' \in [Window -> SUBSET Parts] /\ running' \in [Window -> BOOLEAN]
             /\ calls' \in 0..MaxCalls
  BY <1>4, TypeFacts, ProcessTypes DEF SystemStep
<1>5. CASE UNCHANGED vars
  BY <1>5, TypeFacts DEF HubTypes, vars, hubVars, processVars
<1> QED
  BY <1>1, <1>2, <1>3, <1>4, <1>5, NextCases

-----------------------------------------------------------------------------
(* Parts follow the lifecycle.                                             *)

LEMMA ConsistentMove ==
    ASSUME NEW w \in Window, NEW s \in Slot, NEW st, NEW c, NEW p, Moved(w, s, st, c, p),
           Ordered(s, p), p = <<>> => st = "ready" /\ c = NoChild,
           st \in {"probing", "waiting"} => Head(p) = "hubStart",
           st \in {"terminating", "killing"} => Head(p) \in {"hubStart", "hubStop"},
           st = "storeStarting" => Head(p) = "storeStart",
           st = "serverStarting" => Head(p) = "serverStart",
           st = "closing" => Head(p) = "takeDown"
    PROVE  Consistent(s, call[w][s])'
BY DEF Consistent, Terminating, Moved

LEMMA GoOnConsistent ==
    ASSUME call \in Calls, Lifecycle, NEW w \in Window, NEW s \in Slot, call[w][s].todo # <<>>,
           Moved(w, s, "ready", NoChild, Tail(call[w][s].todo))
    PROVE  Consistent(s, call[w][s])'
<1>1. Ordered(s, call[w][s].todo) /\ call[w][s].todo \in Seq(Step)
  BY CallFacts DEF Lifecycle, Consistent
<1>2. Ordered(s, Tail(call[w][s].todo))
  BY <1>1, OrderedTail
<1> QED
  BY <1>2, ConsistentMove

LEMMA GiveUpConsistent ==
    ASSUME NEW w \in Window, NEW s \in Slot,
           Moved(w, s, "ready", NoChild, IF s = "queue" THEN StopSteps ELSE <<>>)
    PROVE  Consistent(s, call[w][s])'
<1>1. Ordered(s, IF s = "queue" THEN StopSteps ELSE <<>>)
  BY PlansOrdered DEF Slot
<1> QED
  BY <1>1, ConsistentMove

\* A step of one call keeps the others, and the parts of their windows.
LEMMA LifecycleMove ==
    ASSUME Lifecycle, NEW w \in Window, NEW s \in Slot, NEW st, NEW c, NEW p, Moved(w, s, st, c, p),
           Consistent(s, call[w][s])',
           \A v \in Window \ {w} : parts'[v] = parts[v] /\ running'[v] = running[v],
           s = "queue" => PartsSet(call[w]["queue"], parts[w], running[w])',
           s # "queue" => parts'[w] = parts[w] /\ running'[w] = running[w]
    PROVE  Lifecycle'
<1>1. \A v \in Window, r \in Slot : v # w \/ r # s => call'[v][r] = call[v][r]
  BY DEF Moved
<1>2. \A v \in Window, r \in Slot : Consistent(r, call[v][r])'
  <2> SUFFICES ASSUME NEW v \in Window, NEW r \in Slot PROVE Consistent(r, call'[v][r])
    OBVIOUS
  <2>1. Consistent(r, call[v][r])
    BY DEF Lifecycle
  <2>2. CASE v = w /\ r = s
    BY <2>2
  <2>3. CASE v # w \/ r # s
    BY <1>1, <2>1, <2>3
  <2> QED
    BY <2>2, <2>3
<1>3. \A v \in Window : PartsSet(call[v]["queue"], parts[v], running[v])'
  <2> SUFFICES ASSUME NEW v \in Window PROVE PartsSet(call'[v]["queue"], parts'[v], running'[v])
    OBVIOUS
  <2>1. PartsSet(call[v]["queue"], parts[v], running[v]) /\ "queue" \in Slot
    BY DEF Lifecycle, Slot
  <2>2. CASE v = w /\ s = "queue"
    BY <2>2
  <2>3. CASE v # w \/ s # "queue"
    <3>1. call'[v]["queue"] = call[v]["queue"] /\ parts'[v] = parts[v] /\ running'[v] = running[v]
      BY <1>1, <2>1, <2>3
    <3> QED
      BY <2>1, <3>1
  <2> QED
    BY <2>2, <2>3
<1> QED
  BY <1>2, <1>3 DEF Lifecycle

LEMMA HubCallMoves ==
    ASSUME TypeOK, Lifecycle, Named, NEW w \in Window, NEW s \in Slot, HubCallStep(w, s)
    PROVE  LET k == call[w][s]
           IN  /\ k.todo # <<>> /\ Head(k.todo) \in {"hubStart", "hubStop"}
               /\ \/ Moved(w, s, "ready", NoChild, Tail(k.todo))
                  \/ Moved(w, s, "ready", NoChild, IF s = "queue" THEN StopSteps ELSE <<>>)
                  \/ \E st \in {"probing", "waiting", "terminating", "killing"}, c \in Child \cup {NoChild} :
                        Moved(w, s, st, c, k.todo) /\ (st \in {"probing", "waiting"} => Head(k.todo) = "hubStart")
<1> DEFINE k == call[w][s]
<1>0. /\ k.stage \in {"probing", "waiting"} => Head(k.todo) = "hubStart"
      /\ k.stage \in {"terminating", "killing"} => Head(k.todo) \in {"hubStart", "hubStop"}
  BY AwaitsStep
<1>1. CASE HubStart(w, s)
  BY <1>0, <1>1, HubStartDoes
<1>2. CASE HubProbed(w, s)
  BY <1>0, <1>2, HubProbedDoes
<1>3. CASE HubSeenHealthy(w, s)
  BY <1>0, <1>3, HubSeenHealthyDoes
<1>4. CASE HubNeverHealthy(w, s)
  <2>1. k.todo # <<>> /\ Head(k.todo) = "hubStart"
    BY <1>0, <1>4, HubNeverHealthyDoes
  <2>2. \/ process[w] \in Child /\ Moved(w, s, "terminating", process[w], k.todo)
        \/ Moved(w, s, "ready", NoChild, IF s = "queue" THEN StopSteps ELSE <<>>)
    BY <1>4, HubNeverHealthyDoes
  <2> QED
    BY <2>1, <2>2
<1>5. CASE HubStop(w, s)
  <2>1. k.todo # <<>> /\ Head(k.todo) = "hubStop"
    BY <1>5, HubStopDoes
  <2>2. \/ process[w] \in Child /\ Moved(w, s, "terminating", process[w], k.todo)
        \/ Moved(w, s, "ready", NoChild, Tail(k.todo))
    BY <1>5, HubStopDoes
  <2> QED
    BY <2>1, <2>2
<1>6. CASE TermTimesOut(w, s)
  <2>1. k.stage = "terminating" /\ k.todo # <<>> /\ k.child \in Child /\ Moved(w, s, "killing", k.child, k.todo)
    BY <1>6, TermTimesOutDoes
  <2> QED
    BY <1>0, <2>1
<1>7. CASE HubStopped(w, s)
  BY <1>7, HubStoppedDoes
<1> QED
  BY <1>1, <1>2, <1>3, <1>4, <1>5, <1>6, <1>7 DEF HubCallStep

LEMMA HubCallLifecycle ==
    ASSUME TypeOK, Lifecycle, Named, NEW w \in Window, NEW s \in Slot, HubStep(w, s)
    PROVE  Lifecycle'
<1> DEFINE k == call[w][s]
<1>0. /\ parts' = parts /\ running' = running /\ call \in Calls
      /\ k.todo # <<>> /\ Head(k.todo) \in {"hubStart", "hubStop"}
  BY HubCallMoves, TypeFacts DEF HubStep
<1>q. s = "queue" => /\ PartsSet(k, parts[w], running[w])
                     /\ Head(k.todo) = "hubStart" => Tail(k.todo) # <<>> /\ Head(Tail(k.todo)) = "storeStart"
                     /\ Head(k.todo) = "hubStop" => Tail(k.todo) # <<>> /\ Head(Tail(k.todo)) = "markDown"
  <2> SUFFICES ASSUME s = "queue"
               PROVE  /\ PartsSet(k, parts[w], running[w])
                      /\ Head(k.todo) = "hubStart" => Tail(k.todo) # <<>> /\ Head(Tail(k.todo)) = "storeStart"
                      /\ Head(k.todo) = "hubStop" => Tail(k.todo) # <<>> /\ Head(Tail(k.todo)) = "markDown"
    OBVIOUS
  <2>1. Ordered("queue", k.todo) /\ k.todo \in Seq(Step)
    BY <1>0, CallFacts DEF Lifecycle, Consistent
  <2> QED
    BY <1>0, <2>1, QueueOrder DEF Lifecycle
<1>1. CASE Moved(w, s, "ready", NoChild, Tail(k.todo))
  <2>1. Consistent(s, call[w][s])'
    BY <1>0, <1>1, GoOnConsistent
  <2>2. s = "queue" => PartsSet(call[w]["queue"], parts[w], running[w])'
    BY <1>0, <1>1, <1>q DEF PartsSet, Moved
  <2> QED
    BY <1>0, <1>1, <2>1, <2>2, LifecycleMove
<1>2. CASE Moved(w, s, "ready", NoChild, IF s = "queue" THEN StopSteps ELSE <<>>)
  <2>1. Consistent(s, call[w][s])'
    BY <1>2, GiveUpConsistent
  <2>2. s = "queue" => PartsSet(call[w]["queue"], parts[w], running[w])'
    BY <1>2, PlansOrdered DEF PartsSet, Moved
  <2> QED
    BY <1>0, <1>2, <2>1, <2>2, LifecycleMove
<1>3. ASSUME NEW st \in {"probing", "waiting", "terminating", "killing"}, NEW c \in Child \cup {NoChild},
             Moved(w, s, st, c, k.todo), st \in {"probing", "waiting"} => Head(k.todo) = "hubStart"
      PROVE  Lifecycle'
  <2>1. Consistent(s, call[w][s])'
    <3>1. Ordered(s, k.todo)
      BY DEF Lifecycle, Consistent
    <3> QED
      BY <1>0, <1>3, <3>1, ConsistentMove
  <2>2. s = "queue" => PartsSet(call[w]["queue"], parts[w], running[w])'
    BY <1>0, <1>3, <1>q DEF PartsSet, Moved
  <2> QED
    BY <1>0, <1>3, <2>1, <2>2, LifecycleMove
<1> QED
  BY <1>1, <1>2, <1>3, HubCallMoves DEF HubStep

\* The steps of the bridge belong to the queue.
LEMMA BridgeQueue ==
    ASSUME call \in Calls, Lifecycle, NEW w \in Window, NEW s \in Slot, call[w][s].todo # <<>>,
           Head(call[w][s].todo) \notin {"hubStart", "hubStop"}
    PROVE  s = "queue"
<1>1. Ordered(s, call[w][s].todo) /\ call[w][s].todo \in Seq(Step)
  BY CallFacts DEF Lifecycle, Consistent
<1> QED
  BY <1>1, CommandOrder DEF Slot

LEMMA BridgeLifecycleStep ==
    ASSUME TypeOK, Lifecycle, NEW w \in Window, NEW s \in Slot, BridgeStep(w, s)
    PROVE  Lifecycle'
<1> DEFINE k == call[w][s]
           h == Head(k.todo)
<1>1. call \in Calls /\ k.todo \in Seq(Step) /\ Ordered(s, k.todo)
  BY TypeFacts, CallFacts DEF Lifecycle, Consistent
<1>2. /\ k.stage = "storeStarting" => h = "storeStart"
      /\ k.stage = "serverStarting" => h = "serverStart"
      /\ k.stage = "closing" => h = "takeDown"
  <2>1. Consistent(s, k)
    BY DEF Lifecycle
  <2> QED
    BY <2>1 DEF Consistent
<1>3. k.todo # <<>> /\ h \in {"takeDown", "markDown", "storeStart", "serverStart", "clientStart"}
  <2>1. CASE StoreStarts(w, s)
    BY <2>1, StoreStartsDoes
  <2>2. CASE ServerStarts(w, s)
    BY <2>2, ServerStartsDoes
  <2>3. CASE Started(w, s)
    BY <1>2, <2>3, StartedDoes
  <2>4. CASE HubClientStarts(w, s)
    BY <2>4, HubClientStartsDoes
  <2>5. CASE StartFails(w, s)
    BY <1>2, <2>5, StartFailsDoes
  <2>6. CASE TakeDown(w, s)
    BY <2>6, TakeDownDoes
  <2>7. CASE Closed(w, s)
    BY <1>2, <2>7, ClosedDoes
  <2>8. CASE MarkDown(w, s)
    BY <2>8, MarkDownDoes
  <2> QED
    BY <2>1, <2>2, <2>3, <2>4, <2>5, <2>6, <2>7, <2>8 DEF BridgeStep
<1>4. s = "queue"
  BY <1>1, <1>3, BridgeQueue
<1>5. /\ h = "takeDown" => Tail(k.todo) # <<>> /\ Head(Tail(k.todo)) = "hubStop"
      /\ h = "markDown" /\ Tail(k.todo) # <<>> => Head(Tail(k.todo)) = "hubStart"
      /\ h = "storeStart" => Tail(k.todo) # <<>> /\ Head(Tail(k.todo)) = "serverStart"
      /\ h = "serverStart" => Tail(k.todo) # <<>> /\ Head(Tail(k.todo)) = "clientStart"
      /\ h = "clientStart" => Tail(k.todo) = <<>>
  BY <1>1, <1>3, <1>4, QueueOrder
<1>6. PartsSet(k, parts[w], running[w]) /\ parts[w] \in SUBSET Parts /\ running[w] \in BOOLEAN
  BY <1>4, TypeFacts DEF Lifecycle
<1>g. Moved(w, s, "ready", NoChild, Tail(k.todo)) => Consistent(s, call[w][s])'
  BY <1>1, <1>3, GoOnConsistent
<1>7. CASE StoreStarts(w, s)
  <2>1. /\ Moved(w, s, "storeStarting", NoChild, k.todo) /\ h = "storeStart" /\ k.stage = "ready"
        /\ PartsBecome(w, parts[w] \cup {"store"}) /\ running' = running
    BY <1>7, StoreStartsDoes
  <2>2. Consistent(s, call[w][s])'
    BY <1>1, <1>3, <2>1, ConsistentMove
  <2>3. PartsSet(call[w]["queue"], parts[w], running[w])'
    BY <1>3, <1>4, <1>6, <2>1 DEF PartsSet, Moved, PartsBecome
  <2> QED
    BY <1>4, <2>1, <2>2, <2>3, LifecycleMove DEF PartsBecome
<1>8. CASE ServerStarts(w, s)
  <2>1. /\ Moved(w, s, "serverStarting", NoChild, k.todo) /\ h = "serverStart" /\ k.stage = "ready"
        /\ PartsBecome(w, parts[w] \cup {"server"}) /\ running' = running
    BY <1>8, ServerStartsDoes
  <2>2. Consistent(s, call[w][s])'
    BY <1>1, <1>3, <2>1, ConsistentMove
  <2>3. PartsSet(call[w]["queue"], parts[w], running[w])'
    BY <1>3, <1>4, <1>6, <2>1 DEF PartsSet, Moved, PartsBecome
  <2> QED
    BY <1>4, <2>1, <2>2, <2>3, LifecycleMove DEF PartsBecome
<1>9. CASE Started(w, s)
  <2>1. /\ Moved(w, s, "ready", NoChild, Tail(k.todo)) /\ k.stage \in {"storeStarting", "serverStarting"}
        /\ parts' = parts /\ running' = running
    BY <1>9, StartedDoes
  <2>2. h = "storeStart" \/ h = "serverStart"
    BY <1>2, <2>1
  <2>3. PartsSet(call[w]["queue"], parts[w], running[w])'
    BY <1>3, <1>4, <1>5, <1>6, <2>1, <2>2 DEF PartsSet, Moved
  <2> QED
    BY <1>4, <1>g, <2>1, <2>3, LifecycleMove
<1>10. CASE HubClientStarts(w, s)
  <2>1. /\ Moved(w, s, "ready", NoChild, Tail(k.todo)) /\ h = "clientStart"
        /\ PartsBecome(w, parts[w] \cup {"hubClient"}) /\ RunningBecomes(w, TRUE)
    BY <1>10, HubClientStartsDoes
  <2>2. parts'[w] = Parts
    BY <1>3, <1>6, <2>1 DEF PartsSet, PartsBecome, Parts
  <2>3. PartsSet(call[w]["queue"], parts[w], running[w])'
    BY <1>4, <1>5, <2>1, <2>2 DEF PartsSet, Moved, RunningBecomes
  <2> QED
    BY <1>4, <1>g, <2>1, <2>3, LifecycleMove DEF PartsBecome, RunningBecomes
<1>11. CASE StartFails(w, s)
  <2>1. /\ Moved(w, s, "ready", NoChild, IF s = "queue" THEN StopSteps ELSE <<>>)
        /\ parts' = parts /\ running' = running
    BY <1>11, StartFailsDoes
  <2>2. Consistent(s, call[w][s])'
    BY <2>1, GiveUpConsistent
  <2>3. PartsSet(call[w]["queue"], parts[w], running[w])'
    BY <1>4, <2>1, PlansOrdered DEF PartsSet, Moved
  <2> QED
    BY <1>4, <2>1, <2>2, <2>3, LifecycleMove
<1>12. CASE TakeDown(w, s)
  <2>1. /\ h = "takeDown" /\ PartsBecome(w, parts[w] \ {"hubClient"}) /\ running' = running
        /\ \/ parts[w] = {} /\ Moved(w, s, "ready", NoChild, Tail(k.todo))
           \/ Moved(w, s, "closing", NoChild, k.todo)
    BY <1>12, TakeDownDoes
  <2>2. CASE parts[w] = {} /\ Moved(w, s, "ready", NoChild, Tail(k.todo))
    <3>1. PartsSet(call[w]["queue"], parts[w], running[w])'
      BY <1>4, <1>5, <2>1, <2>2 DEF PartsSet, Moved, PartsBecome
    <3> QED
      BY <1>4, <1>g, <2>1, <2>2, <3>1, LifecycleMove DEF PartsBecome
  <2>3. CASE Moved(w, s, "closing", NoChild, k.todo)
    <3>1. PartsSet(call[w]["queue"], parts[w], running[w])'
      BY <1>3, <1>4, <2>1, <2>3 DEF PartsSet, Moved
    <3>2. Consistent(s, call[w][s])'
      BY <1>1, <1>3, <2>1, <2>3, ConsistentMove
    <3> QED
      BY <1>4, <2>1, <2>3, <3>1, <3>2, LifecycleMove DEF PartsBecome
  <2> QED
    BY <2>1, <2>2, <2>3
<1>13. CASE Closed(w, s)
  <2>1. /\ Moved(w, s, "ready", NoChild, Tail(k.todo)) /\ h = "takeDown"
        /\ PartsBecome(w, {}) /\ running' = running
    BY <1>2, <1>13, ClosedDoes
  <2>2. PartsSet(call[w]["queue"], parts[w], running[w])'
    BY <1>4, <1>5, <2>1 DEF PartsSet, Moved, PartsBecome
  <2> QED
    BY <1>4, <1>g, <2>1, <2>2, LifecycleMove DEF PartsBecome
<1>14. CASE MarkDown(w, s)
  <2>1. /\ Moved(w, s, "ready", NoChild, Tail(k.todo)) /\ h = "markDown"
        /\ parts' = parts /\ RunningBecomes(w, FALSE)
    BY <1>14, MarkDownDoes
  <2>2. parts[w] = {}
    BY <1>3, <1>6, <2>1 DEF PartsSet
  <2>3. PartsSet(call[w]["queue"], parts[w], running[w])'
    BY <1>4, <1>5, <2>1, <2>2 DEF PartsSet, Moved, RunningBecomes
  <2> QED
    BY <1>4, <1>g, <2>1, <2>3, LifecycleMove DEF RunningBecomes
<1> QED
  BY <1>7, <1>8, <1>9, <1>10, <1>11, <1>12, <1>13, <1>14 DEF BridgeStep

LEMMA BeginningLifecycle ==
    ASSUME TypeOK, Lifecycle, NEW w \in Window, Beginning(w)
    PROVE  Lifecycle'
<1>1. PICK s \in Slot, p \in Seq(Step) :
         /\ p # <<>> /\ Ordered(s, p) /\ Moved(w, s, "ready", NoChild, p)
         /\ call[w][s].todo = <<>> /\ call[w][s].stage = "ready"
         /\ s = "queue" => Head(p) = "takeDown" \/ (Head(p) = "hubStart" /\ ~running[w])
  BY BeginningDoes
<1>2. parts' = parts /\ running' = running
  BY BeginningDoes
<1>3. Consistent(s, call[w][s])'
  BY <1>1, ConsistentMove
<1>4. s = "queue" => PartsSet(call[w]["queue"], parts[w], running[w])'
  <2>1. s = "queue" => PartsSet(call[w][s], parts[w], running[w])
    BY DEF Lifecycle
  <2> QED
    BY <1>1, <1>2, <2>1 DEF PartsSet, Moved
<1> QED
  BY <1>1, <1>2, <1>3, <1>4, LifecycleMove

LEMMA LifecycleStep ==
    ASSUME TypeOK, Lifecycle, Named, [Next]_vars
    PROVE  Lifecycle'
<1>1. ASSUME NEW c \in Child, SystemStep(c) PROVE Lifecycle'
  <2>1. call' = call /\ parts' = parts /\ running' = running
    BY <1>1, ProcessServesDoes, ProcessExitsDoes, ExitSeenDoes, ExitLookedIntoDoes DEF SystemStep, ProcessStep
  <2> QED
    BY <2>1 DEF Lifecycle
<1>2. CASE UNCHANGED vars
  BY <1>2 DEF Lifecycle, vars, hubVars
<1> QED
  BY <1>1, <1>2, NextCases, BeginningLifecycle, BridgeLifecycleStep, HubCallLifecycle

-----------------------------------------------------------------------------
(* Processes carry the name of their window.                               *)

\* Processes that exist stay, with their window; those reaped stay reaped.
ChildrenKept ==
    \A c \in Child :
        /\ child[c].state # "none" => child'[c].state # "none" /\ child'[c].window = child[c].window
        /\ child[c].state = "reaped" => child'[c].state = "reaped"
        /\ child'[c].state = "none" => child'[c].signal = "none"

LEMMA ChangedKeeps ==
    ASSUME child \in Processes, Named, NEW c \in Child, NEW st, NEW w, NEW sg, Changed(c, st, w, sg),
           child[c].state # "none" => w = child[c].window,
           st = "none" => child[c].state = "none" /\ sg = "none",
           child[c].state = "reaped" => st = "reaped"
    PROVE  ChildrenKept
<1> SUFFICES ASSUME NEW d \in Child
             PROVE  /\ child[d].state # "none" => child'[d].state # "none" /\ child'[d].window = child[d].window
                    /\ child[d].state = "reaped" => child'[d].state = "reaped"
                    /\ child'[d].state = "none" => child'[d].signal = "none"
  BY DEF ChildrenKept
<1>1. CASE d = c
  BY <1>1 DEF Changed
<1>2. CASE d # c
  BY <1>2 DEF Changed, Named
<1> QED
  BY <1>1, <1>2

LEMMA SameChildrenKept ==
    ASSUME Named, child' = child
    PROVE  ChildrenKept
BY DEF ChildrenKept, Named

\* What a step must respect to keep the names.
LEMMA NamedMove ==
    ASSUME TypeOK, Named, ChildrenKept,
           \A v \in Window : process'[v] \in {process[v], NoChild}
               \/ (child'[process'[v]].window = v /\ child'[process'[v]].state # "none"),
           \A v \in Window, r \in Slot : Terminating(call[v][r])' =>
               \/ call'[v][r].child = call[v][r].child /\ Terminating(call[v][r])
               \/ call'[v][r].child = process[v] /\ process[v] # NoChild,
           \A c \in exiting' : c \in exiting \/ (c \in Child /\ child'[c].state = "reaped")
    PROVE  Named'
<1>0. /\ \A v \in Window : process[v] \in Child \cup {NoChild}
      /\ \A v \in Window, r \in Slot : call[v][r].child \in Child \cup {NoChild}
  BY TypeFacts, CallFacts
<1>1. \A v \in Window : process'[v] # NoChild =>
         child'[process'[v]].window = v /\ child'[process'[v]].state # "none"
  <2> SUFFICES ASSUME NEW v \in Window, process'[v] # NoChild
               PROVE  child'[process'[v]].window = v /\ child'[process'[v]].state # "none"
    OBVIOUS
  <2>1. CASE process'[v] = process[v]
    <3>1. process[v] \in Child /\ child[process[v]].window = v /\ child[process[v]].state # "none"
      BY <1>0, <2>1 DEF Named
    <3> QED
      BY <2>1, <3>1 DEF ChildrenKept
  <2> QED
    BY <2>1
<1>2. \A v \in Window, r \in Slot : Terminating(call[v][r])' =>
         /\ call'[v][r].child # NoChild
         /\ child'[call'[v][r].child].window = v /\ child'[call'[v][r].child].state # "none"
  <2> SUFFICES ASSUME NEW v \in Window, NEW r \in Slot, Terminating(call[v][r])'
               PROVE  /\ call'[v][r].child # NoChild
                      /\ child'[call'[v][r].child].window = v /\ child'[call'[v][r].child].state # "none"
    OBVIOUS
  <2>1. CASE call'[v][r].child = call[v][r].child /\ Terminating(call[v][r])
    BY <1>0, <2>1 DEF Named, ChildrenKept
  <2>2. CASE call'[v][r].child = process[v] /\ process[v] # NoChild
    BY <1>0, <2>2 DEF Named, ChildrenKept
  <2> QED
    BY <2>1, <2>2
<1>3. \A c \in exiting' : child'[c].state = "reaped"
  <2>1. exiting \in SUBSET Child
    BY TypeFacts
  <2> QED
    BY <2>1 DEF Named, ChildrenKept
<1>4. \A c \in Child : child'[c].state = "none" => child'[c].signal = "none"
  BY DEF ChildrenKept
<1> QED
  BY <1>1, <1>2, <1>3, <1>4 DEF Named

\* The call that moves does not begin to wait for an exit, or for that of a process of its window.
LEMMA TerminatingMove ==
    ASSUME NEW w \in Window, NEW s \in Slot, NEW st, NEW c, NEW p, Moved(w, s, st, c, p),
           st \in {"terminating", "killing"} =>
               (c = call[w][s].child /\ Terminating(call[w][s])) \/ (c = process[w] /\ c # NoChild)
    PROVE  \A v \in Window, r \in Slot : Terminating(call[v][r])' =>
               \/ call'[v][r].child = call[v][r].child /\ Terminating(call[v][r])
               \/ call'[v][r].child = process[v] /\ process[v] # NoChild
<1> SUFFICES ASSUME NEW v \in Window, NEW r \in Slot, Terminating(call[v][r])'
             PROVE  \/ call'[v][r].child = call[v][r].child /\ Terminating(call[v][r])
                    \/ call'[v][r].child = process[v] /\ process[v] # NoChild
  OBVIOUS
<1>1. CASE v = w /\ r = s
  BY <1>1 DEF Moved, Terminating
<1>2. CASE v # w \/ r # s
  BY <1>2 DEF Moved, Terminating
<1> QED
  BY <1>1, <1>2

LEMMA HubCallNamed ==
    ASSUME TypeOK, Lifecycle, Named, NEW w \in Window, NEW s \in Slot, HubCallStep(w, s)
    PROVE  Named'
<1> DEFINE k == call[w][s]
<1>0. child \in Processes /\ NoChild \notin Child
  BY TypeFacts, NoChildIsNone
<1>1. CASE HubStart(w, s)
  <2>1. /\ \/ Moved(w, s, "ready", NoChild, Tail(k.todo)) \/ Moved(w, s, "probing", NoChild, k.todo)
        /\ child' = child /\ process' = process /\ exiting' = exiting
    BY <1>1, HubStartDoes
  <2> QED
    BY <2>1, SameChildrenKept, TerminatingMove, NamedMove
<1>2. CASE HubProbed(w, s)
  <2>1. CASE Serving
    <3>1. /\ Moved(w, s, "ready", NoChild, Tail(k.todo))
          /\ child' = child /\ process' = process /\ exiting' = exiting
      BY <1>2, <2>1, HubProbedDoes
    <3> QED
      BY <3>1, SameChildrenKept, TerminatingMove, NamedMove
  <2>2. CASE ~Serving
    <3>1. PICK c \in Child :
             /\ child[c].state = "none" /\ Changed(c, "booting", w, "none")
             /\ ProcessSet(w, c) /\ Moved(w, s, "waiting", NoChild, k.todo) /\ exiting' = exiting
      BY <1>2, <2>2, HubProbedDoes
    <3>2. ChildrenKept
      BY <1>0, <3>1, ChangedKeeps
    <3>3. \A v \in Window : process'[v] \in {process[v], NoChild}
             \/ (child'[process'[v]].window = v /\ child'[process'[v]].state # "none")
      BY <3>1 DEF ProcessSet, Changed
    <3> QED
      BY <3>1, <3>2, <3>3, TerminatingMove, NamedMove
  <2> QED
    BY <2>1, <2>2
<1>3. CASE HubSeenHealthy(w, s)
  <2>1. /\ Moved(w, s, "ready", NoChild, Tail(k.todo))
        /\ child' = child /\ process' = process /\ exiting' = exiting
    BY <1>3, HubSeenHealthyDoes
  <2> QED
    BY <2>1, SameChildrenKept, TerminatingMove, NamedMove
<1>t. ASSUME process[w] \in Child, Changed(process[w], child[process[w]].state, child[process[w]].window, "term")
      PROVE  ChildrenKept
  <2>1. child[process[w]].state # "none"
    BY <1>0, <1>t DEF Named
  <2> QED
    BY <1>0, <1>t, <2>1, ChangedKeeps
<1>p. ASSUME ProcessSet(w, NoChild)
      PROVE  \A v \in Window : process'[v] \in {process[v], NoChild}
  BY <1>p DEF ProcessSet
<1>4. CASE HubNeverHealthy(w, s)
  <2>1. ProcessSet(w, NoChild) /\ exiting' = exiting
    BY <1>4, HubNeverHealthyDoes
  <2>2. CASE Owns(w)
    <3>1. /\ process[w] \in Child
          /\ Changed(process[w], child[process[w]].state, child[process[w]].window, "term")
          /\ Moved(w, s, "terminating", process[w], k.todo)
      BY <1>4, <2>2, HubNeverHealthyDoes
    <3> QED
      BY <1>0, <1>t, <1>p, <2>1, <3>1, TerminatingMove, NamedMove
  <2>3. CASE ~Owns(w)
    <3>1. /\ child' = child
          /\ Moved(w, s, "ready", NoChild, IF s = "queue" THEN StopSteps ELSE <<>>)
      BY <1>4, <2>3, HubNeverHealthyDoes
    <3> QED
      BY <1>p, <2>1, <3>1, SameChildrenKept, TerminatingMove, NamedMove
  <2> QED
    BY <2>2, <2>3
<1>5. CASE HubStop(w, s)
  <2>1. CASE mode[w] = "external"
    <3>1. /\ Moved(w, s, "ready", NoChild, Tail(k.todo))
          /\ child' = child /\ process' = process /\ exiting' = exiting
      BY <1>5, <2>1, HubStopDoes
    <3> QED
      BY <3>1, SameChildrenKept, TerminatingMove, NamedMove
  <2>2. CASE mode[w] # "external" /\ Owns(w)
    <3>1. /\ process[w] \in Child /\ ProcessSet(w, NoChild) /\ exiting' = exiting
          /\ Changed(process[w], child[process[w]].state, child[process[w]].window, "term")
          /\ Moved(w, s, "terminating", process[w], k.todo)
      BY <1>5, <2>2, HubStopDoes
    <3> QED
      BY <1>0, <1>t, <1>p, <3>1, TerminatingMove, NamedMove
  <2>3. CASE mode[w] # "external" /\ ~Owns(w)
    <3>1. /\ ProcessSet(w, NoChild) /\ child' = child /\ exiting' = exiting
          /\ Moved(w, s, "ready", NoChild, Tail(k.todo))
      BY <1>5, <2>3, HubStopDoes
    <3> QED
      BY <1>p, <3>1, SameChildrenKept, TerminatingMove, NamedMove
  <2> QED
    BY <2>1, <2>2, <2>3
<1>6. CASE TermTimesOut(w, s)
  <2>1. /\ k.stage = "terminating" /\ k.child \in Child
        /\ Changed(k.child, child[k.child].state, child[k.child].window, "kill")
        /\ Moved(w, s, "killing", k.child, k.todo)
        /\ process' = process /\ exiting' = exiting
    BY <1>6, TermTimesOutDoes
  <2>2. Terminating(k) /\ child[k.child].state # "none"
    BY <2>1 DEF Terminating, Named
  <2>3. ChildrenKept
    BY <1>0, <2>1, <2>2, ChangedKeeps
  <2> QED
    BY <2>1, <2>2, <2>3, TerminatingMove, NamedMove
<1>7. CASE HubStopped(w, s)
  <2>1. /\ \/ Moved(w, s, "ready", NoChild, Tail(k.todo))
           \/ Moved(w, s, "ready", NoChild, IF s = "queue" THEN StopSteps ELSE <<>>)
        /\ child' = child /\ process' = process /\ exiting' = exiting
    BY <1>7, HubStoppedDoes
  <2> QED
    BY <2>1, SameChildrenKept, TerminatingMove, NamedMove
<1> QED
  BY <1>1, <1>2, <1>3, <1>4, <1>5, <1>6, <1>7 DEF HubCallStep

\* A step of the bridge, or of one that begins, moves a call that waits for no process
\* to one that waits for none, and leaves the processes alone.
Aside(w, s) ==
    /\ \E st \in {"ready", "storeStarting", "serverStarting", "closing"}, p \in Seq(Step) :
          Moved(w, s, st, NoChild, p) /\ (p = <<>> => st = "ready")
    /\ call[w][s].stage \in {"ready", "storeStarting", "serverStarting", "closing"}
    /\ UNCHANGED <<process, mode, exiting, child>>

LEMMA BridgeAside ==
    ASSUME TypeOK, Lifecycle, NEW w \in Window, NEW s \in Slot, BridgeStep(w, s)
    PROVE  Aside(w, s) /\ call[w][s].todo # <<>> /\ blurred' = blurred
<1> DEFINE k == call[w][s]
<1>1. UNCHANGED <<process, mode, exiting, child, blurred>>
  BY DEF BridgeStep, processVars
<1>2. k.todo \in Seq(Step) /\ (k.todo # <<>> => Tail(k.todo) \in Seq(Step))
  BY TypeFacts, CallFacts, TailFacts
<1>3. (IF s = "queue" THEN StopSteps ELSE <<>>) \in Seq(Step)
  BY PlansOrdered
<1> HIDE DEF k
<1>4. CASE StoreStarts(w, s)
  BY <1>1, <1>2, <1>4, StoreStartsDoes DEF Aside, k
<1>5. CASE ServerStarts(w, s)
  BY <1>1, <1>2, <1>5, ServerStartsDoes DEF Aside, k
<1>6. CASE Started(w, s)
  BY <1>1, <1>2, <1>6, StartedDoes DEF Aside, k
<1>7. CASE HubClientStarts(w, s)
  BY <1>1, <1>2, <1>7, HubClientStartsDoes DEF Aside, k
<1>8. CASE StartFails(w, s)
  BY <1>1, <1>3, <1>8, StartFailsDoes DEF Aside, k
<1>9. CASE TakeDown(w, s)
  BY <1>1, <1>2, <1>9, TakeDownDoes DEF Aside, k
<1>10. CASE Closed(w, s)
  BY <1>1, <1>2, <1>10, ClosedDoes DEF Aside, k
<1>11. CASE MarkDown(w, s)
  BY <1>1, <1>2, <1>11, MarkDownDoes DEF Aside, k
<1> QED
  BY <1>4, <1>5, <1>6, <1>7, <1>8, <1>9, <1>10, <1>11 DEF BridgeStep

LEMMA BeginningAside ==
    ASSUME TypeOK, NEW w \in Window, Beginning(w)
    PROVE  \E s \in Slot : Aside(w, s) /\ call[w][s].todo = <<>>
<1>1. PICK s \in Slot, p \in Seq(Step) :
         /\ p # <<>> /\ Moved(w, s, "ready", NoChild, p)
         /\ call[w][s].todo = <<>> /\ call[w][s].stage = "ready"
  BY BeginningDoes
<1>2. UNCHANGED <<process, mode, exiting, child>>
  BY BeginningDoes
<1> QED
  BY <1>1, <1>2 DEF Aside

LEMMA AsideNamed ==
    ASSUME TypeOK, Named, NEW w \in Window, NEW s \in Slot, Aside(w, s)
    PROVE  Named'
<1>1. PICK st \in {"ready", "storeStarting", "serverStarting", "closing"}, p \in Seq(Step) :
         Moved(w, s, st, NoChild, p)
  BY DEF Aside
<1>2. child' = child /\ process' = process /\ exiting' = exiting
  BY DEF Aside
<1> QED
  BY <1>1, <1>2, SameChildrenKept, TerminatingMove, NamedMove

LEMMA ProcessNamed ==
    ASSUME TypeOK, Named, NEW c \in Child, ProcessStep(c)
    PROVE  Named'
<1>0. child \in Processes
  BY TypeFacts
<1>1. CASE ProcessServes(c)
  <2>1. /\ child[c].state = "booting" /\ Changed(c, "serving", child[c].window, child[c].signal)
        /\ UNCHANGED <<process, call, exiting>>
    BY <1>1, ProcessServesDoes
  <2>2. ChildrenKept
    BY <1>0, <2>1, ChangedKeeps
  <2> QED
    BY <2>1, <2>2, NamedMove
<1>2. CASE ProcessExits(c)
  <2>1. /\ child[c].state \in {"booting", "serving"} /\ Changed(c, "dead", child[c].window, child[c].signal)
        /\ UNCHANGED <<process, call, exiting>>
    BY <1>2, ProcessExitsDoes
  <2>2. ChildrenKept
    BY <1>0, <2>1, ChangedKeeps
  <2> QED
    BY <2>1, <2>2, NamedMove
<1>3. CASE ExitSeen(c)
  <2> DEFINE w == child[c].window
  <2>1. /\ w \in Window /\ child[c].state = "dead" /\ Changed(c, "reaped", w, child[c].signal)
        /\ \/ UNCHANGED <<process, exiting>>
           \/ ProcessSet(w, NoChild) /\ exiting' = exiting \cup {c}
        /\ call' = call
    BY <1>3, ExitSeenDoes
  <2>2. ChildrenKept
    BY <1>0, <2>1, ChangedKeeps
  <2>3. \A v \in Window : process'[v] \in {process[v], NoChild}
    BY <2>1 DEF ProcessSet
  <2>4. \A d \in exiting' : d \in exiting \/ (d \in Child /\ child'[d].state = "reaped")
    BY <2>1 DEF Changed
  <2> QED
    BY <2>1, <2>2, <2>3, <2>4, NamedMove
<1>4. CASE ExitLookedInto(c)
  <2>1. exiting' = exiting \ {c} /\ UNCHANGED <<process, call, child>>
    BY <1>4, ExitLookedIntoDoes
  <2> QED
    BY <2>1, SameChildrenKept, NamedMove
<1> QED
  BY <1>1, <1>2, <1>3, <1>4 DEF ProcessStep

LEMMA NamedStep ==
    ASSUME TypeOK, Lifecycle, Named, [Next]_vars
    PROVE  Named'
<1>1. ASSUME NEW w \in Window, Beginning(w) PROVE Named'
  BY <1>1, BeginningAside, AsideNamed
<1>2. ASSUME NEW w \in Window, NEW s \in Slot, BridgeStep(w, s) PROVE Named'
  BY <1>2, BridgeAside, AsideNamed
<1>3. ASSUME NEW w \in Window, NEW s \in Slot, HubStep(w, s) PROVE Named'
  BY <1>3, HubCallNamed DEF HubStep
<1>4. ASSUME NEW c \in Child, SystemStep(c) PROVE Named'
  BY <1>4, ProcessNamed DEF SystemStep
<1>5. CASE UNCHANGED vars
  BY <1>5 DEF Named, Terminating, vars, hubVars, processVars
<1> QED
  BY <1>1, <1>2, <1>3, <1>4, <1>5, NextCases

-----------------------------------------------------------------------------
(* A window whose calls came one at a time has one process at most.        *)

\* What Alone says of a window in which only the call of s can be under way.
LEMMA AloneBefore ==
    ASSUME TypeOK, Lifecycle, NEW w \in Window, NEW s \in Slot, Alone(w), call[w][s].todo # <<>>
    PROVE  /\ \A r \in Slot \ {s} : call[w][r].todo = <<>> /\ call[w][r].stage = "ready"
           /\ \A c \in Child : Unreaped(c, w) =>
                 process[w] = c \/ (Terminating(call[w][s]) /\ call[w][s].child = c)
           /\ mode[w] = "starting" => call[w][s].stage = "waiting"
<1>1. \A r \in Slot \ {s} : call[w][r].todo = <<>> /\ call[w][r].stage = "ready"
  <2> SUFFICES ASSUME NEW r \in Slot \ {s}
               PROVE  call[w][r].todo = <<>> /\ call[w][r].stage = "ready"
    OBVIOUS
  <2>1. call[w][r].todo = <<>>
    BY DEF Alone
  <2>2. Consistent(r, call[w][r])
    BY DEF Lifecycle
  <2> QED
    BY <2>1, <2>2 DEF Consistent
<1> QED
  BY <1>1 DEF Alone, Terminating

LEMMA AloneAfter ==
    ASSUME NEW w \in Window, NEW s \in Slot, NEW st, NEW ch, NEW p, Moved(w, s, st, ch, p),
           \A r \in Slot \ {s} : call[w][r].todo = <<>> /\ call[w][r].stage = "ready",
           \A c \in Child : Unreaped(c, w)' =>
              process'[w] = c \/ (st \in {"terminating", "killing"} /\ ch = c),
           process'[w] # NoChild =>
              /\ Unreaped(process[w], w)' /\ child'[process'[w]].signal = "none" /\ ~LookedInto(w)'
              /\ st \notin {"probing", "terminating", "killing"}
              /\ mode'[w] \in {"starting", "running"},
           mode'[w] = "starting" => st = "waiting",
           mode'[w] = "running" => process'[w] # NoChild \/ LookedInto(w)'
    PROVE  Alone(w)'
<1>1. \A r \in Slot \ {s} : call'[w][r].todo = <<>> /\ call'[w][r].stage = "ready"
  BY DEF Moved
<1>2. call'[w][s].stage = st /\ call'[w][s].child = ch
  BY DEF Moved
<1>3. \A r, q \in Slot : call'[w][r].todo # <<>> /\ call'[w][q].todo # <<>> => r = q
  BY <1>1
<1>4. \A c \in Child : Unreaped(c, w)' =>
         process'[w] = c \/ \E r \in Slot : Terminating(call[w][r])' /\ call'[w][r].child = c
  BY <1>2 DEF Terminating
<1>5. process'[w] # NoChild =>
         /\ Unreaped(process[w], w)' /\ child'[process'[w]].signal = "none" /\ ~LookedInto(w)'
         /\ \A r \in Slot : call'[w][r].stage \notin {"probing", "terminating", "killing"}
         /\ mode'[w] \in {"starting", "running"}
  BY <1>1, <1>2
<1>6. mode'[w] = "starting" => \E r \in Slot : call'[w][r].stage = "waiting"
  BY <1>2
<1> QED
  BY <1>3, <1>4, <1>5, <1>6 DEF Alone

\* The processes and exits of w that count are what they were.
SameProcesses(w) ==
    /\ \A c \in Child : Unreaped(c, w)' <=> Unreaped(c, w)
    /\ \A c \in Child : Unreaped(c, w) => child'[c].signal = child[c].signal
    /\ LookedInto(w)' <=> LookedInto(w)

LEMMA NothingChanged ==
    ASSUME child' = child, exiting' = exiting, NEW w \in Window
    PROVE  SameProcesses(w)
BY DEF SameProcesses, Unreaped, LookedInto

LEMMA SameAlone ==
    ASSUME TypeOK, NEW w \in Window, Alone(w), SameProcesses(w), process'[w] = process[w], mode'[w] = mode[w],
           \A r \in Slot : call'[w][r] = call[w][r]
    PROVE  Alone(w)'
<1>0. process[w] \in Child \cup {NoChild}
  BY TypeFacts
<1>1. \A r, q \in Slot : call'[w][r].todo # <<>> /\ call'[w][q].todo # <<>> => r = q
  BY DEF Alone
<1>2. \A c \in Child : Unreaped(c, w)' =>
         process'[w] = c \/ \E r \in Slot : Terminating(call[w][r])' /\ call'[w][r].child = c
  BY DEF Alone, SameProcesses, Terminating
<1>3. process'[w] # NoChild =>
         /\ Unreaped(process[w], w)' /\ child'[process'[w]].signal = "none" /\ ~LookedInto(w)'
         /\ \A r \in Slot : call'[w][r].stage \notin {"probing", "terminating", "killing"}
         /\ mode'[w] \in {"starting", "running"}
  <2> SUFFICES ASSUME process[w] # NoChild
               PROVE  /\ Unreaped(process[w], w)' /\ child'[process'[w]].signal = "none" /\ ~LookedInto(w)'
                      /\ \A r \in Slot : call'[w][r].stage \notin {"probing", "terminating", "killing"}
                      /\ mode'[w] \in {"starting", "running"}
    OBVIOUS
  <2>1. process[w] \in Child /\ Unreaped(process[w], w) /\ child[process[w]].signal = "none"
        /\ ~LookedInto(w)
    BY <1>0 DEF Alone
  <2>2. Unreaped(process[w], w)' /\ child'[process'[w]].signal = "none" /\ ~LookedInto(w)'
    <3>1. child'[process[w]].signal = "none" /\ ~LookedInto(w)'
      BY <2>1 DEF SameProcesses
    <3>2. Unreaped(process[w], w)'
      BY <2>1 DEF SameProcesses, Unreaped
    <3> QED
      BY <3>1, <3>2
  <2> QED
    BY <2>2 DEF Alone
<1>4. mode'[w] = "starting" => \E r \in Slot : call'[w][r].stage = "waiting"
  BY DEF Alone
<1>5. mode'[w] = "running" => process'[w] # NoChild \/ LookedInto(w)'
  BY DEF Alone, SameProcesses
<1> QED
  BY <1>1, <1>2, <1>3, <1>4, <1>5 DEF Alone

\* A signal, or a state among those of a process that is not reaped, takes no process away.
LEMMA ChangedUnreaped ==
    ASSUME NEW c \in Child, NEW st, NEW sg, Changed(c, st, child[c].window, sg), NEW w \in Window,
           st \in {"booting", "serving", "dead"} <=> child[c].state \in {"booting", "serving", "dead"}
    PROVE  \A d \in Child : Unreaped(d, w)' <=> Unreaped(d, w)
<1> SUFFICES ASSUME NEW d \in Child PROVE Unreaped(d, w)' <=> Unreaped(d, w)
  OBVIOUS
<1>1. CASE d = c
  BY <1>1 DEF Unreaped, Changed
<1>2. CASE d # c
  BY <1>2 DEF Unreaped, Changed
<1> QED
  BY <1>1, <1>2

\* SIGTERM goes to the process the window knows, which its call then waits for.
LEMMA TerminateAlone ==
    ASSUME TypeOK, Lifecycle, NEW w \in Window, NEW s \in Slot, Alone(w), call[w][s].todo # <<>>,
           ~Terminating(call[w][s]), ModeSet(w, "stopped"), ProcessSet(w, NoChild),
           NEW p,
           \/ /\ process[w] \in Child
              /\ Changed(process[w], child[process[w]].state, child[process[w]].window, "term")
              /\ Moved(w, s, "terminating", process[w], p)
           \/ ~Owns(w) /\ child' = child /\ Moved(w, s, "ready", NoChild, p)
    PROVE  Alone(w)'
<1>1. /\ \A r \in Slot \ {s} : call[w][r].todo = <<>> /\ call[w][r].stage = "ready"
      /\ \A c \in Child : Unreaped(c, w) => process[w] = c
  BY AloneBefore
<1>2. process'[w] = NoChild /\ mode'[w] = "stopped"
  BY DEF ProcessSet, ModeSet
<1>3. CASE /\ process[w] \in Child
           /\ Changed(process[w], child[process[w]].state, child[process[w]].window, "term")
           /\ Moved(w, s, "terminating", process[w], p)
  <2>1. \A c \in Child : Unreaped(c, w)' <=> Unreaped(c, w)
    BY <1>3, ChangedUnreaped
  <2> QED
    BY <1>1, <1>2, <1>3, <2>1, AloneAfter
<1>4. CASE ~Owns(w) /\ child' = child /\ Moved(w, s, "ready", NoChild, p)
  <2>1. process[w] = NoChild
    BY <1>4 DEF Alone, Owns
  <2>2. \A c \in Child : ~Unreaped(c, w)
    BY <1>1, <2>1, NoChildIsNone
  <2>3. \A c \in Child : ~Unreaped(c, w)'
    BY <1>4, <2>2 DEF Unreaped
  <2> QED
    BY <1>1, <1>2, <1>4, <2>3, AloneAfter
<1> QED
  BY <1>3, <1>4

LEMMA HubCallAlone ==
    ASSUME TypeOK, Lifecycle, Named, NEW w \in Window, NEW s \in Slot, HubCallStep(w, s),
           Alone(w), w \notin blurred'
    PROVE  Alone(w)'
<1> DEFINE k == call[w][s]
<1>0. k.todo # <<>>
  BY HubCallMoves
<1>1. /\ \A r \in Slot \ {s} : call[w][r].todo = <<>> /\ call[w][r].stage = "ready"
      /\ \A c \in Child : Unreaped(c, w) => process[w] = c \/ (Terminating(k) /\ k.child = c)
      /\ mode[w] = "starting" => k.stage = "waiting"
  BY <1>0, AloneBefore
<1>2. process[w] # NoChild =>
         /\ Unreaped(process[w], w) /\ child[process[w]].signal = "none" /\ ~LookedInto(w)
         /\ k.stage \notin {"probing", "terminating", "killing"} /\ mode[w] \in {"starting", "running"}
         /\ Owns(w)
  BY DEF Alone, Owns
<1>3. mode[w] = "running" => process[w] # NoChild \/ LookedInto(w)
  BY DEF Alone
<1>4. NoChild \notin Child
  BY NoChildIsNone
<1>s. ASSUME child' = child, exiting' = exiting
      PROVE  /\ \A c \in Child : Unreaped(c, w)' <=> Unreaped(c, w)
             /\ LookedInto(w)' <=> LookedInto(w)
             /\ process' = process /\ process[w] # NoChild =>
                   Unreaped(process[w], w)' /\ child'[process'[w]].signal = "none" /\ ~LookedInto(w)'
  BY <1>2, <1>s DEF Unreaped, LookedInto
<1>5. CASE HubStart(w, s)
  <2>1. k.stage = "ready" /\ ~Terminating(k) /\ child' = child /\ exiting' = exiting /\ process' = process
    BY <1>5, HubStartDoes DEF Terminating
  <2>2. CASE Owns(w)
    <3>1. Moved(w, s, "ready", NoChild, Tail(k.todo)) /\ mode'[w] = "running"
      BY <1>5, <2>2, HubStartDoes DEF ModeSet
    <3>2. process[w] # NoChild
      BY <2>2 DEF Owns
    <3> QED
      BY <1>1, <1>s, <2>1, <3>1, <3>2, AloneAfter
  <2>3. CASE ~Owns(w)
    <3>1. Moved(w, s, "probing", NoChild, k.todo) /\ mode' = mode
      BY <1>5, <2>3, HubStartDoes
    <3>2. process[w] = NoChild
      BY <1>2, <2>3
    <3> QED
      BY <1>1, <1>3, <1>s, <2>1, <3>1, <3>2, AloneAfter
  <2> QED
    BY <2>2, <2>3
<1>6. CASE HubProbed(w, s)
  <2>1. k.stage = "probing" /\ process[w] = NoChild /\ exiting' = exiting
    BY <1>2, <1>6, HubProbedDoes
  <2>2. \A c \in Child : ~Unreaped(c, w)
    BY <1>1, <1>4, <2>1 DEF Terminating
  <2>3. CASE Serving
    <3>1. /\ Moved(w, s, "ready", NoChild, Tail(k.todo)) /\ mode'[w] = "external"
          /\ child' = child /\ process' = process
      BY <1>6, <2>3, HubProbedDoes DEF ModeSet
    <3> QED
      BY <1>1, <1>s, <2>1, <2>2, <3>1, AloneAfter
  <2>4. CASE ~Serving
    <3>1. PICK c \in Child :
             /\ child[c].state = "none" /\ Changed(c, "booting", w, "none")
             /\ ProcessSet(w, c) /\ ModeSet(w, "starting")
             /\ Moved(w, s, "waiting", NoChild, k.todo)
             /\ blurred' = IF LookedInto(w) THEN blurred \cup {w} ELSE blurred
      BY <1>6, <2>4, HubProbedDoes
    <3>2. ~LookedInto(w)
      BY <3>1
    <3>3. ~LookedInto(w)'
      <4> SUFFICES ASSUME NEW d \in exiting' PROVE child'[d].window # w
        BY DEF LookedInto
      <4>1. d \in Child /\ child[d].window # w /\ child[d].state = "reaped"
        BY <2>1, <3>2, TypeFacts DEF LookedInto, Named
      <4>2. d # c
        BY <3>1, <4>1
      <4> QED
        BY <3>1, <4>1, <4>2 DEF Changed
    <3>4. \A d \in Child : Unreaped(d, w)' => d = c
      BY <2>2, <3>1 DEF Changed, Unreaped
    <3>5. process'[w] = c /\ mode'[w] = "starting" /\ child'[c].signal = "none"
          /\ Unreaped(process[w], w)'
      BY <3>1 DEF ProcessSet, ModeSet, Changed, Unreaped
    <3> QED
      BY <1>1, <3>1, <3>3, <3>4, <3>5, AloneAfter
  <2> QED
    BY <2>3, <2>4
<1>7. CASE HubSeenHealthy(w, s)
  <2>1. /\ k.stage = "waiting" /\ ~Terminating(k) /\ child' = child /\ exiting' = exiting
        /\ process' = process /\ Moved(w, s, "ready", NoChild, Tail(k.todo))
        /\ mode'[w] = IF process[w] # NoChild THEN "running" ELSE "external"
    BY <1>7, HubSeenHealthyDoes DEF Terminating, ModeSet
  <2> QED
    BY <1>1, <1>s, <2>1, AloneAfter
<1>8. CASE HubNeverHealthy(w, s)
  <2>1. k.stage = "waiting" /\ ~Terminating(k) /\ ModeSet(w, "stopped") /\ ProcessSet(w, NoChild)
    BY <1>8, HubNeverHealthyDoes DEF Terminating
  <2>2. CASE Owns(w)
    BY <1>0, <1>8, <2>1, <2>2, HubNeverHealthyDoes, TerminateAlone
  <2>3. CASE ~Owns(w)
    BY <1>0, <1>8, <2>1, <2>3, HubNeverHealthyDoes, TerminateAlone
  <2> QED
    BY <2>2, <2>3
<1>9. CASE HubStop(w, s)
  <2>1. k.stage = "ready" /\ ~Terminating(k) /\ ModeSet(w, "stopped") /\ exiting' = exiting
    BY <1>9, HubStopDoes DEF Terminating
  <2>2. CASE mode[w] = "external"
    <3>1. /\ Moved(w, s, "ready", NoChild, Tail(k.todo)) /\ mode'[w] = "stopped"
          /\ child' = child /\ process' = process /\ process[w] = NoChild
      BY <1>2, <1>9, <2>2, HubStopDoes DEF ModeSet
    <3> QED
      BY <1>1, <1>s, <2>1, <3>1, AloneAfter
  <2>3. CASE mode[w] # "external" /\ Owns(w)
    BY <1>0, <1>9, <2>1, <2>3, HubStopDoes, TerminateAlone
  <2>4. CASE mode[w] # "external" /\ ~Owns(w)
    BY <1>0, <1>9, <2>1, <2>4, HubStopDoes, TerminateAlone
  <2> QED
    BY <2>2, <2>3, <2>4
<1>10. CASE TermTimesOut(w, s)
  <2>1. /\ k.stage = "terminating" /\ k.child \in Child /\ process' = process /\ mode' = mode
        /\ exiting' = exiting
        /\ Changed(k.child, child[k.child].state, child[k.child].window, "kill")
        /\ Moved(w, s, "killing", k.child, k.todo)
    BY <1>10, TermTimesOutDoes
  <2>2. process[w] = NoChild
    BY <1>2, <2>1
  <2>3. \A c \in Child : Unreaped(c, w)' <=> Unreaped(c, w)
    BY <2>1, ChangedUnreaped
  <2>4. LookedInto(w) => LookedInto(w)'
    <3> SUFFICES ASSUME NEW d \in exiting, child[d].window = w PROVE child'[d].window = w
      BY <2>1 DEF LookedInto
    <3>1. d \in Child
      BY TypeFacts
    <3> QED
      BY <2>1, <3>1 DEF Changed
  <2> QED
    BY <1>1, <1>3, <2>1, <2>2, <2>3, <2>4, AloneAfter
<1>11. CASE HubStopped(w, s)
  <2>1. /\ Terminating(k) /\ child[k.child].state = "reaped" /\ UNCHANGED <<process, mode, exiting, child>>
        /\ \/ Moved(w, s, "ready", NoChild, Tail(k.todo))
           \/ Moved(w, s, "ready", NoChild, IF s = "queue" THEN StopSteps ELSE <<>>)
    BY <1>11, HubStoppedDoes
  <2>2. process[w] = NoChild /\ mode[w] # "starting"
    BY <1>1, <1>2, <2>1 DEF Terminating
  <2>3. \A c \in Child : Unreaped(c, w)' => process'[w] = c
    BY <1>1, <1>s, <2>1 DEF Unreaped
  <2> QED
    BY <1>1, <1>3, <1>s, <2>1, <2>2, <2>3, AloneAfter
<1> QED
  BY <1>5, <1>6, <1>7, <1>8, <1>9, <1>10, <1>11 DEF HubCallStep

\* What happens to a process of w does not concern the other windows.
LEMMA ChangedElsewhere ==
    ASSUME TypeOK, Named, NEW w \in Window, NEW v \in Window \ {w},
           NEW c \in Child, NEW st, NEW sg, Changed(c, st, w, sg),
           child[c].state = "none" \/ child[c].window = w,
           exiting' \ {c} = exiting \ {c}
    PROVE  SameProcesses(v)
<1>1. \A d \in Child : (Unreaped(d, v)' <=> Unreaped(d, v)) /\ (Unreaped(d, v) => child'[d].signal = child[d].signal)
  <2> SUFFICES ASSUME NEW d \in Child
               PROVE  (Unreaped(d, v)' <=> Unreaped(d, v)) /\ (Unreaped(d, v) => child'[d].signal = child[d].signal)
    OBVIOUS
  <2>1. CASE d = c
    BY <2>1 DEF Unreaped, Changed
  <2>2. CASE d # c
    BY <2>2 DEF Unreaped, Changed
  <2> QED
    BY <2>1, <2>2
<1>2. ASSUME NEW d \in exiting', child'[d].window = v
      PROVE  d \in exiting /\ child[d].window = v
  <2>1. d # c
    BY <1>2 DEF Changed
  <2>2. d \in exiting /\ d \in Child
    BY <2>1, TypeFacts
  <2> QED
    BY <1>2, <2>1, <2>2 DEF Changed
<1>3. ASSUME NEW d \in exiting, child[d].window = v
      PROVE  d \in exiting' /\ child'[d].window = v
  <2>1. d \in Child /\ child[d].state = "reaped"
    BY TypeFacts DEF Named
  <2>2. d # c
    BY <1>3, <2>1
  <2> QED
    BY <1>3, <2>1, <2>2 DEF Changed
<1>4. LookedInto(v)' <=> LookedInto(v)
  BY <1>2, <1>3 DEF LookedInto
<1> QED
  BY <1>1, <1>4 DEF SameProcesses

LEMMA HubCallElsewhere ==
    ASSUME TypeOK, Lifecycle, Named, NEW w \in Window, NEW s \in Slot, HubCallStep(w, s),
           NEW v \in Window \ {w}
    PROVE  /\ SameProcesses(v) /\ process'[v] = process[v] /\ mode'[v] = mode[v]
           /\ \A r \in Slot : call'[v][r] = call[v][r]
<1> DEFINE k == call[w][s]
<1>1. \A r \in Slot : call'[v][r] = call[v][r]
  BY HubCallMoves DEF Moved
<1>t. ASSUME process[w] \in Child, exiting' = exiting,
             Changed(process[w], child[process[w]].state, child[process[w]].window, "term")
      PROVE  SameProcesses(v)
  <2>1. child[process[w]].window = w
    BY <1>t, NoChildIsNone DEF Named
  <2> QED
    BY <1>t, <2>1, ChangedElsewhere
<1>2. CASE HubStart(w, s)
  BY <1>1, <1>2, HubStartDoes, NothingChanged DEF ModeSet
<1>3. CASE HubProbed(w, s)
  <2>1. CASE Serving
    BY <1>1, <1>3, <2>1, HubProbedDoes, NothingChanged DEF ModeSet
  <2>2. CASE ~Serving
    BY <1>1, <1>3, <2>2, HubProbedDoes, ChangedElsewhere DEF ModeSet, ProcessSet
  <2> QED
    BY <2>1, <2>2
<1>4. CASE HubSeenHealthy(w, s)
  BY <1>1, <1>4, HubSeenHealthyDoes, NothingChanged DEF ModeSet
<1>5. CASE HubNeverHealthy(w, s)
  <2>1. mode'[v] = mode[v] /\ process'[v] = process[v] /\ exiting' = exiting
    BY <1>5, HubNeverHealthyDoes DEF ModeSet, ProcessSet
  <2>2. \/ process[w] \in Child /\ Changed(process[w], child[process[w]].state, child[process[w]].window, "term")
        \/ child' = child
    BY <1>5, HubNeverHealthyDoes
  <2> QED
    BY <1>1, <1>t, <2>1, <2>2, NothingChanged
<1>6. CASE HubStop(w, s)
  <2>1. mode'[v] = mode[v] /\ process'[v] = process[v] /\ exiting' = exiting
    BY <1>6, HubStopDoes DEF ModeSet, ProcessSet
  <2>2. \/ process[w] \in Child /\ Changed(process[w], child[process[w]].state, child[process[w]].window, "term")
        \/ child' = child
    BY <1>6, HubStopDoes
  <2> QED
    BY <1>1, <1>t, <2>1, <2>2, NothingChanged
<1>7. CASE TermTimesOut(w, s)
  <2>1. /\ k.stage = "terminating" /\ k.child \in Child /\ exiting' = exiting
        /\ Changed(k.child, child[k.child].state, child[k.child].window, "kill")
        /\ mode'[v] = mode[v] /\ process'[v] = process[v]
    BY <1>7, TermTimesOutDoes
  <2>2. child[k.child].window = w
    BY <2>1 DEF Named, Terminating
  <2> QED
    BY <1>1, <2>1, <2>2, ChangedElsewhere
<1>8. CASE HubStopped(w, s)
  BY <1>1, <1>8, HubStoppedDoes, NothingChanged
<1> QED
  BY <1>2, <1>3, <1>4, <1>5, <1>6, <1>7, <1>8 DEF HubCallStep

LEMMA HubStepAlone ==
    ASSUME TypeOK, Lifecycle, Named, NEW w \in Window, NEW s \in Slot, HubCallStep(w, s),
           \A v \in Window \ blurred : Alone(v)
    PROVE  \A v \in Window \ blurred' : Alone(v)'
<1> SUFFICES ASSUME NEW v \in Window, v \notin blurred' PROVE Alone(v)'
  OBVIOUS
<1>1. blurred \in SUBSET blurred'
  <2>1. CASE HubProbed(w, s)
    BY <2>1, HubProbedDoes
  <2>2. CASE ~HubProbed(w, s)
    <3>1. blurred' = blurred
      BY <2>2 DEF HubCallStep, HubStart, HubSeenHealthy, HubNeverHealthy, HubStop, TermTimesOut, HubStopped
    <3> QED
      BY <3>1
  <2> QED
    BY <2>1, <2>2
<1>2. Alone(v)
  BY <1>1
<1>3. CASE v = w
  BY <1>2, <1>3, HubCallAlone
<1>4. CASE v # w
  BY <1>2, <1>4, HubCallElsewhere, SameAlone
<1> QED
  BY <1>3, <1>4

\* A call that waits for no process goes on, or a call begins where none was under way.
LEMMA AsideAlone ==
    ASSUME TypeOK, Lifecycle, NEW w \in Window, NEW s \in Slot, Aside(w, s), NEW v \in Window, Alone(v),
           v = w => \A r \in Slot \ {s} : call[w][r].todo = <<>> /\ call[w][r].stage = "ready"
    PROVE  Alone(v)'
<1>1. PICK st \in {"ready", "storeStarting", "serverStarting", "closing"}, p \in Seq(Step) :
         Moved(w, s, st, NoChild, p)
  BY DEF Aside
<1>2. UNCHANGED <<process, mode, exiting, child>>
      /\ call[w][s].stage \in {"ready", "storeStarting", "serverStarting", "closing"}
  BY DEF Aside
<1>3. SameProcesses(v)
  BY <1>2, NothingChanged
<1>4. CASE v # w
  <2>1. \A r \in Slot : call'[v][r] = call[v][r]
    BY <1>1, <1>4 DEF Moved
  <2> QED
    BY <1>2, <1>3, <2>1, SameAlone
<1>5. CASE v = w
  <2>1. \A r \in Slot : call[w][r].stage \notin {"probing", "waiting", "terminating", "killing"}
    BY <1>2, <1>5
  <2>2. mode[w] # "starting"
    BY <1>5, <2>1 DEF Alone
  <2>3. \A c \in Child : Unreaped(c, w)' => process'[w] = c
    BY <1>2, <1>5, <2>1 DEF Alone, Unreaped, Terminating
  <2>4. process'[w] # NoChild =>
          /\ Unreaped(process[w], w)' /\ child'[process'[w]].signal = "none" /\ ~LookedInto(w)'
          /\ mode'[w] \in {"starting", "running"}
    BY <1>2, <1>5 DEF Alone, Unreaped, LookedInto
  <2>5. mode'[w] = "running" => process'[w] # NoChild \/ LookedInto(w)'
    BY <1>2, <1>5 DEF Alone, LookedInto
  <2>6. \A r \in Slot \ {s} : call[w][r].todo = <<>> /\ call[w][r].stage = "ready"
    BY <1>5
  <2>7. mode'[w] # "starting"
    BY <1>2, <2>2
  <2> QED
    BY <1>1, <1>5, <2>3, <2>4, <2>5, <2>6, <2>7, AloneAfter
<1> QED
  BY <1>4, <1>5

LEMMA BridgeAlone ==
    ASSUME TypeOK, Lifecycle, NEW w \in Window, NEW s \in Slot, BridgeStep(w, s),
           NEW v \in Window, Alone(v)
    PROVE  Alone(v)'
<1>1. Aside(w, s) /\ call[w][s].todo # <<>>
  BY BridgeAside
<1>2. v = w => \A r \in Slot \ {s} : call[w][r].todo = <<>> /\ call[w][r].stage = "ready"
  BY <1>1, AloneBefore
<1> QED
  BY <1>1, <1>2, AsideAlone

LEMMA BeginningAlone ==
    ASSUME TypeOK, Lifecycle, NEW w \in Window, Beginning(w),
           NEW v \in Window, Alone(v), v \notin blurred'
    PROVE  Alone(v)'
<1>1. PICK s \in Slot : Aside(w, s)
  BY BeginningAside
<1>2. v = w => \A r \in Slot : call[w][r].todo = <<>> /\ call[w][r].stage = "ready"
  <2> SUFFICES ASSUME v = w, NEW r \in Slot PROVE call[w][r].todo = <<>> /\ call[w][r].stage = "ready"
    OBVIOUS
  <2>1. blurred' = IF \E q \in Slot : Busy(w, q) THEN blurred \cup {w} ELSE blurred
    BY BeginningDoes
  <2>2. call[w][r] = Idle
    BY <2>1 DEF Busy
  <2> QED
    BY <2>2, TypeFacts, CallFacts, IdleCall
<1> QED
  BY <1>1, <1>2, AsideAlone

LEMMA ProcessElsewhere ==
    ASSUME TypeOK, Named, NEW c \in Child, ProcessStep(c), NEW v \in Window, v # child[c].window
    PROVE  SameProcesses(v) /\ process'[v] = process[v] /\ mode'[v] = mode[v] /\ call' = call
<1> DEFINE w == child[c].window
<1>0. w \in Window /\ v \in Window \ {w}
  BY TypeFacts, ChildFacts
<1>1. CASE ProcessServes(c)
  BY <1>0, <1>1, ProcessServesDoes, ChangedElsewhere
<1>2. CASE ProcessExits(c)
  BY <1>0, <1>2, ProcessExitsDoes, ChangedElsewhere
<1>3. CASE ExitSeen(c)
  <2>1. Changed(c, "reaped", w, child[c].signal) /\ exiting' \ {c} = exiting \ {c}
    BY <1>3, ExitSeenDoes
  <2>2. process'[v] = process[v] /\ mode' = mode /\ call' = call
    BY <1>0, <1>3, ExitSeenDoes DEF ProcessSet
  <2> QED
    BY <1>0, <2>1, <2>2, ChangedElsewhere
<1>4. CASE ExitLookedInto(c)
  <2>1. Changed(c, child[c].state, w, child[c].signal) /\ exiting' \ {c} = exiting \ {c}
    BY <1>4, ExitLookedIntoDoes, TypeFacts DEF Changed
  <2>2. process' = process /\ mode'[v] = mode[v] /\ call' = call
    BY <1>0, <1>4, ExitLookedIntoDoes DEF ModeSet
  <2> QED
    BY <1>0, <2>1, <2>2, ChangedElsewhere
<1> QED
  BY <1>1, <1>2, <1>3, <1>4 DEF ProcessStep

\* A process of w that comes up or goes down is still not reaped.
LEMMA UpOrDown ==
    ASSUME TypeOK, NEW c \in Child, NEW st \in {"serving", "dead"},
           child[c].state \in {"booting", "serving"},
           Changed(c, st, child[c].window, child[c].signal), exiting' = exiting, NEW w \in Window
    PROVE  SameProcesses(w)
<1>1. \A d \in Child : Unreaped(d, w)' <=> Unreaped(d, w)
  BY ChangedUnreaped
<1>2. \A d \in Child : child'[d].signal = child[d].signal /\ child'[d].window = child[d].window
  BY DEF Changed
<1>3. LookedInto(w)' <=> LookedInto(w)
  BY <1>2, TypeFacts DEF LookedInto
<1> QED
  BY <1>1, <1>2, <1>3 DEF SameProcesses

LEMMA ExitSeenAlone ==
    ASSUME TypeOK, Named, NEW c \in Child, ExitSeen(c),
           NEW w \in Window, w = child[c].window, Alone(w)
    PROVE  Alone(w)'
<1>0. /\ child[c].state = "dead" /\ Changed(c, "reaped", w, child[c].signal)
      /\ \/ mode[w] = "stopped" /\ UNCHANGED <<process, exiting>>
         \/ mode[w] # "stopped" /\ ProcessSet(w, NoChild) /\ exiting' = exiting \cup {c}
      /\ UNCHANGED <<mode, call>>
  BY ExitSeenDoes
<1>w. child'[c].window = w
  BY <1>0 DEF Changed
<1>1. Unreaped(c, w) /\ \A d \in Child : Unreaped(d, w)' => d # c /\ Unreaped(d, w)
  BY <1>0 DEF Unreaped, Changed
<1>2. \A r, q \in Slot : call'[w][r].todo # <<>> /\ call'[w][q].todo # <<>> => r = q
  BY <1>0 DEF Alone
<1>3. mode'[w] = "starting" => \E r \in Slot : call'[w][r].stage = "waiting"
  BY <1>0 DEF Alone
<1>4. \A d \in Child : Unreaped(d, w)' =>
         process[w] = d \/ \E r \in Slot : Terminating(call[w][r])' /\ call'[w][r].child = d
  BY <1>0, <1>1 DEF Alone, Terminating
<1>5. CASE mode[w] = "stopped" /\ UNCHANGED <<process, exiting>>
  <2>1. process[w] = NoChild
    BY <1>5 DEF Alone
  <2> QED
    BY <1>0, <1>2, <1>3, <1>4, <1>5, <2>1 DEF Alone
<1>6. CASE mode[w] # "stopped" /\ ProcessSet(w, NoChild) /\ exiting' = exiting \cup {c}
  <2>1. process'[w] = NoChild /\ LookedInto(w)'
    BY <1>w, <1>6 DEF ProcessSet, LookedInto
  <2>2. \A d \in Child : Unreaped(d, w)' => process[w] # d
    <3> SUFFICES ASSUME NEW d \in Child, Unreaped(d, w)', process[w] = d PROVE FALSE
      OBVIOUS
    <3>1. d # c /\ process[w] # NoChild
      BY <1>1, NoChildIsNone
    <3>2. \A r \in Slot : ~Terminating(call[w][r])
      BY <3>1 DEF Alone, Terminating
    <3> QED
      BY <1>1, <3>1, <3>2 DEF Alone
  <2> QED
    BY <1>2, <1>3, <1>4, <2>1, <2>2 DEF Alone
<1> QED
  BY <1>0, <1>5, <1>6

LEMMA ProcessAlone ==
    ASSUME TypeOK, Named, NEW c \in Child, ProcessStep(c), NEW v \in Window, Alone(v)
    PROVE  Alone(v)'
<1> DEFINE w == child[c].window
<1>1. CASE v # w
  BY <1>1, ProcessElsewhere, SameAlone
<1>2. CASE v = w
  <2>1. CASE ProcessServes(c)
    <3>1. /\ child[c].state = "booting" /\ Changed(c, "serving", w, child[c].signal)
          /\ UNCHANGED <<process, mode, call, exiting>>
      BY <2>1, ProcessServesDoes
    <3> QED
      BY <3>1, UpOrDown, SameAlone
  <2>2. CASE ProcessExits(c)
    <3>1. /\ child[c].state \in {"booting", "serving"} /\ Changed(c, "dead", w, child[c].signal)
          /\ UNCHANGED <<process, mode, call, exiting>>
      BY <2>2, ProcessExitsDoes
    <3> QED
      BY <3>1, UpOrDown, SameAlone
  <2>3. CASE ExitSeen(c)
    BY <1>2, <2>3, ExitSeenAlone
  <2>4. CASE ExitLookedInto(c)
    <3>1. /\ c \in exiting /\ exiting' = exiting \ {c} /\ mode'[v] \in {"external", "error"}
          /\ UNCHANGED <<process, call, child>>
      BY <1>2, <2>4, ExitLookedIntoDoes DEF ModeSet
    <3>2. LookedInto(v)
      BY <1>2, <3>1 DEF LookedInto
    <3>3. process[v] = NoChild
      BY <3>2 DEF Alone
    <3>4. \A r, q \in Slot : call'[v][r].todo # <<>> /\ call'[v][q].todo # <<>> => r = q
      BY <3>1 DEF Alone
    <3>5. \A d \in Child : Unreaped(d, v)' =>
             process'[v] = d \/ \E r \in Slot : Terminating(call[v][r])' /\ call'[v][r].child = d
      BY <3>1 DEF Alone, Unreaped, Terminating
    <3> QED
      BY <3>1, <3>3, <3>4, <3>5 DEF Alone
  <2> QED
    BY <2>1, <2>2, <2>3, <2>4 DEF ProcessStep
<1> QED
  BY <1>1, <1>2

LEMMA AloneStep ==
    ASSUME TypeOK, Lifecycle, Named, \A v \in Window \ blurred : Alone(v), [Next]_vars
    PROVE  \A v \in Window \ blurred' : Alone(v)'
<1>1. ASSUME NEW w \in Window, Beginning(w)
      PROVE  \A v \in Window \ blurred' : Alone(v)'
  <2>1. blurred \in SUBSET blurred'
    BY <1>1, BeginningDoes
  <2> QED
    BY <1>1, <2>1, BeginningAlone
<1>2. ASSUME NEW w \in Window, NEW s \in Slot, BridgeStep(w, s)
      PROVE  \A v \in Window \ blurred' : Alone(v)'
  BY <1>2, BridgeAside, BridgeAlone
<1>3. ASSUME NEW w \in Window, NEW s \in Slot, HubStep(w, s)
      PROVE  \A v \in Window \ blurred' : Alone(v)'
  BY <1>3, HubStepAlone DEF HubStep
<1>4. ASSUME NEW c \in Child, SystemStep(c)
      PROVE  \A v \in Window \ blurred' : Alone(v)'
  <2>1. blurred' = blurred
    BY <1>4, ProcessServesDoes, ProcessExitsDoes, ExitSeenDoes, ExitLookedIntoDoes DEF SystemStep, ProcessStep
  <2> QED
    BY <1>4, <2>1, ProcessAlone DEF SystemStep
<1>5. CASE UNCHANGED vars
  BY <1>5 DEF Alone, Unreaped, LookedInto, Terminating, vars, hubVars, processVars
<1> QED
  BY <1>1, <1>2, <1>3, <1>4, <1>5, NextCases

-----------------------------------------------------------------------------
(* One hub for all.                                                        *)

\* The steps that disturb nothing and let no process serve, die or be seen to serve.
Unseen ==
    /\ \A c \in Child : child'[c].state = "serving" <=> child[c].state = "serving"
    /\ \A c \in Child : child'[c].state \in {"dead", "reaped"} => child[c].state \in {"dead", "reaped"}

LEMMA UnseenShared ==
    ASSUME HubShared, Unseen, Undisturbed' => Undisturbed,
           Undisturbed => (SeenServing' => SeenServing) \/ Serving,
           Undisturbed' => \A w \in Window : mode'[w] # "error"
    PROVE  HubShared'
<1>1. OneServes'
  BY DEF HubShared, OneServes, Unseen
<1>2. Serving' <=> Serving
  BY DEF Serving, Unseen
<1>3. ASSUME Undisturbed' PROVE (SeenServing' => Serving') /\ \A w \in Window : mode'[w] # "error"
  BY <1>2, <1>3 DEF HubShared
<1> QED
  BY <1>1, <1>3 DEF HubShared

\* A call that moves is seen to have found a hub only if it was before.
LEMMA SeenMove ==
    ASSUME Unseen, NEW w \in Window, NEW s \in Slot, NEW st, NEW c, NEW p, Moved(w, s, st, c, p),
           s = "queue" /\ p # <<>> /\ Head(p) \in {"storeStart", "serverStart", "clientStart"} =>
               Rising(call[w][s]),
           \A v \in Window : mode'[v] \in {"running", "external"} => mode[v] \in {"running", "external"},
           \A v \in Window : running'[v] => running[v] \/ Rising(call[v]["queue"])
    PROVE  SeenServing' => SeenServing
<1>1. \A v \in Window : Rising(call[v]["queue"])' => Rising(call[v]["queue"])
  <2> SUFFICES ASSUME NEW v \in Window, Rising(call'[v]["queue"]) PROVE Rising(call[v]["queue"])
    OBVIOUS
  <2>1. "queue" \in Slot
    BY DEF Slot
  <2>2. CASE v = w /\ s = "queue"
    BY <2>2 DEF Moved, Rising
  <2>3. CASE v # w \/ s # "queue"
    BY <2>1, <2>3 DEF Moved
  <2> QED
    BY <2>2, <2>3
<1>2. (\E d \in Child : child'[d].state \in {"dead", "reaped"}) => \E d \in Child : child[d].state \in {"dead", "reaped"}
  BY DEF Unseen
<1> QED
  BY <1>1, <1>2 DEF SeenServing

LEMMA SameUnseen ==
    ASSUME child' = child
    PROVE  Unseen
BY DEF Unseen

\* What a signal disturbs is disturbed.
LEMMA SignalDisturbs ==
    ASSUME NEW c \in Child, NEW st, NEW w, NEW sg, Changed(c, st, w, sg), sg # "none"
    PROVE  ~Undisturbed'
BY DEF Undisturbed, Changed

LEMMA SignalUnseen ==
    ASSUME NEW c \in Child, NEW sg, Changed(c, child[c].state, child[c].window, sg)
    PROVE  Unseen
<1> SUFFICES ASSUME NEW d \in Child PROVE child'[d].state = child[d].state
  BY DEF Unseen
<1>1. CASE d = c
  BY <1>1 DEF Changed
<1>2. CASE d # c
  BY <1>2 DEF Changed
<1> QED
  BY <1>1, <1>2

LEMMA SignalShared ==
    ASSUME HubShared, NEW c \in Child, NEW sg, Changed(c, child[c].state, child[c].window, sg), sg # "none"
    PROVE  HubShared'
<1>1. ~Undisturbed' /\ Unseen
  BY SignalDisturbs, SignalUnseen
<1>2. OneServes'
  BY <1>1 DEF HubShared, OneServes, Unseen
<1> QED
  BY <1>1, <1>2 DEF HubShared

\* In the queue no step of the hub but hubStart leads to the start of the rest.
LEMMA GoOnUnseen ==
    ASSUME TypeOK, Lifecycle, NEW w \in Window, NEW s \in Slot, call[w][s].todo # <<>>,
           Head(call[w][s].todo) # "hubStart"
    PROVE  LET p == Tail(call[w][s].todo)
           IN  s = "queue" /\ p # <<>> /\ Head(p) \in {"storeStart", "serverStart", "clientStart"} =>
                  Rising(call[w][s])
<1> SUFFICES ASSUME s = "queue"
             PROVE  LET p == Tail(call[w][s].todo)
                    IN  p # <<>> /\ Head(p) \in {"storeStart", "serverStart", "clientStart"} => Rising(call[w][s])
  OBVIOUS
<1>1. call[w][s].todo \in Seq(Step) /\ Ordered("queue", call[w][s].todo)
  BY TypeFacts, CallFacts DEF Lifecycle, Consistent
<1> QED
  BY <1>1, QueueOrder DEF Rising

LEMMA GiveUpUnseen ==
    ASSUME NEW s
    PROVE  LET p == IF s = "queue" THEN StopSteps ELSE <<>>
           IN  p # <<>> => Head(p) \notin {"storeStart", "serverStart", "clientStart"}
BY PlansOrdered

LEMMA HubCallShared ==
    ASSUME TypeOK, Lifecycle, Named, \A v \in Window \ blurred : Alone(v), HubShared,
           NEW w \in Window, NEW s \in Slot, HubStep(w, s)
    PROVE  HubShared'
<1> DEFINE k == call[w][s]
<1>0. running' = running /\ HubCallStep(w, s) /\ k.todo # <<>>
  BY HubCallMoves DEF HubStep
<1>n. \A v \in Window : running'[v] => running[v] \/ Rising(call[v]["queue"])
  BY <1>0
<1>e. Undisturbed => \A v \in Window : mode[v] # "error"
  BY DEF HubShared
<1>u. ASSUME child' = child, faults' = faults, blurred' = blurred
      PROVE  Undisturbed' => Undisturbed
  BY <1>u DEF Undisturbed
\* The call goes on without having found a hub, and nothing but it and the mode of w has changed.
<1>m. ASSUME child' = child, faults' = faults, blurred' = blurred,
             mode' = mode \/ ModeSet(w, "stopped"),
             NEW st, NEW c, NEW p, Moved(w, s, st, c, p),
             s = "queue" /\ p # <<>> /\ Head(p) \in {"storeStart", "serverStart", "clientStart"} => Rising(k)
      PROVE  HubShared'
  <2>1. Unseen
    BY <1>m, SameUnseen
  <2>2. \A v \in Window : mode'[v] = mode[v] \/ mode'[v] = "stopped"
    BY <1>m DEF ModeSet
  <2>3. SeenServing' => SeenServing
    BY <1>m, <1>n, <2>1, <2>2, SeenMove
  <2> QED
    BY <1>m, <1>e, <1>u, <2>1, <2>2, <2>3, UnseenShared
\* Or it has found one.
<1>f. ASSUME child' = child, faults' = faults, blurred' = blurred, Undisturbed => Serving,
             NEW m, ModeSet(w, m), m # "error"
      PROVE  HubShared'
  <2>1. Unseen
    BY <1>f, SameUnseen
  <2>2. Undisturbed' => \A v \in Window : mode'[v] # "error"
    BY <1>e, <1>f, <1>u DEF ModeSet
  <2> QED
    BY <1>f, <1>u, <2>1, <2>2, UnseenShared
<1>1. CASE HubStart(w, s)
  <2>0. child' = child /\ faults' = faults /\ blurred' = blurred /\ k.stage = "ready"
        /\ Head(k.todo) = "hubStart"
    BY <1>1, HubStartDoes
  <2>1. CASE Owns(w)
    <3>1. ModeSet(w, "running")
      BY <1>1, <2>1, HubStartDoes
    <3>2. ASSUME Undisturbed PROVE Serving
      <4>1. Alone(w)
        BY <3>2 DEF Undisturbed
      <4>2. mode[w] = "running"
        BY <1>0, <2>0, <2>1, <4>1, AloneBefore DEF Alone, Owns
      <4>3. SeenServing
        BY <4>2 DEF SeenServing
      <4> QED
        BY <3>2, <4>3 DEF HubShared
    <3> QED
      BY <1>f, <2>0, <3>1, <3>2
  <2>2. CASE ~Owns(w)
    <3>1. mode' = mode /\ Moved(w, s, "probing", NoChild, k.todo)
      BY <1>1, <2>2, HubStartDoes
    <3> QED
      BY <1>m, <2>0, <3>1
  <2> QED
    BY <2>1, <2>2
<1>2. CASE HubProbed(w, s)
  <2>1. CASE Serving
    <3>1. child' = child /\ faults' = faults /\ blurred' = blurred /\ ModeSet(w, "external")
      BY <1>2, <2>1, HubProbedDoes
    <3> QED
      BY <1>f, <2>1, <3>1
  <2>2. CASE ~Serving
    <3>1. PICK c \in Child :
             /\ child[c].state = "none" /\ Changed(c, "booting", w, "none")
             /\ ModeSet(w, "starting") /\ Moved(w, s, "waiting", NoChild, k.todo)
             /\ blurred' = IF LookedInto(w) THEN blurred \cup {w} ELSE blurred
      BY <1>2, <2>2, HubProbedDoes
    <3>2. Unseen
      <4> SUFFICES ASSUME NEW d \in Child
                   PROVE  /\ child'[d].state = "serving" <=> child[d].state = "serving"
                          /\ child'[d].state \in {"dead", "reaped"} => child[d].state \in {"dead", "reaped"}
        BY DEF Unseen
      <4>1. CASE d = c
        BY <3>1, <4>1 DEF Changed
      <4>2. CASE d # c
        BY <3>1, <4>2 DEF Changed
      <4> QED
        BY <4>1, <4>2
    <3>3. faults' = faults
      BY <1>2, HubProbedDoes
    <3>4. Undisturbed' => Undisturbed
      <4> SUFFICES ASSUME Undisturbed' PROVE Undisturbed
        OBVIOUS
      <4>1. blurred = {} /\ faults = 0
        BY <3>1, <3>3 DEF Undisturbed
      <4>2. \A d \in Child : child[d].signal = "none"
        <5> SUFFICES ASSUME NEW d \in Child PROVE child[d].signal = "none"
          OBVIOUS
        <5>1. CASE d = c
          BY <3>1, <5>1 DEF Named
        <5>2. CASE d # c
          BY <3>1, <5>2 DEF Changed, Undisturbed
        <5> QED
          BY <5>1, <5>2
      <4> QED
        BY <4>1, <4>2 DEF Undisturbed
    <3>5. \A v \in Window : mode'[v] = mode[v] \/ mode'[v] = "starting"
      BY <3>1 DEF ModeSet
    <3>6. SeenServing' => SeenServing
      BY <1>0, <1>n, <3>1, <3>2, <3>5, SeenMove DEF Rising
    <3> QED
      BY <1>e, <3>2, <3>4, <3>5, <3>6, UnseenShared
  <2> QED
    BY <2>1, <2>2
<1>3. CASE HubSeenHealthy(w, s)
  <2>1. /\ child' = child /\ faults' = faults /\ blurred' = blurred /\ Serving
        /\ ModeSet(w, IF process[w] # NoChild THEN "running" ELSE "external")
    BY <1>3, HubSeenHealthyDoes
  <2> QED
    BY <1>f, <2>1
<1>4. CASE HubNeverHealthy(w, s)
  <2>0. faults' = faults /\ blurred' = blurred /\ ModeSet(w, "stopped")
    BY <1>4, HubNeverHealthyDoes
  <2>1. CASE Owns(w)
    <3>1. /\ process[w] \in Child
          /\ Changed(process[w], child[process[w]].state, child[process[w]].window, "term")
      BY <1>4, <2>1, HubNeverHealthyDoes
    <3> QED
      BY <3>1, SignalShared
  <2>2. CASE ~Owns(w)
    <3>1. child' = child /\ Moved(w, s, "ready", NoChild, IF s = "queue" THEN StopSteps ELSE <<>>)
      BY <1>4, <2>2, HubNeverHealthyDoes
    <3> QED
      BY <1>m, <2>0, <3>1, GiveUpUnseen
  <2> QED
    BY <2>1, <2>2
<1>5. CASE HubStop(w, s)
  <2>0. /\ faults' = faults /\ blurred' = blurred /\ ModeSet(w, "stopped")
        /\ Head(k.todo) = "hubStop"
    BY <1>5, HubStopDoes
  <2>1. CASE mode[w] # "external" /\ Owns(w)
    <3>1. /\ process[w] \in Child
          /\ Changed(process[w], child[process[w]].state, child[process[w]].window, "term")
      BY <1>5, <2>1, HubStopDoes
    <3> QED
      BY <3>1, SignalShared
  <2>2. CASE mode[w] = "external" \/ ~Owns(w)
    <3>1. child' = child /\ Moved(w, s, "ready", NoChild, Tail(k.todo))
      BY <1>5, <2>2, HubStopDoes
    <3> QED
      BY <1>0, <1>m, <2>0, <3>1, GoOnUnseen
  <2> QED
    BY <2>1, <2>2
<1>6. CASE TermTimesOut(w, s)
  <2>1. k.child \in Child /\ Changed(k.child, child[k.child].state, child[k.child].window, "kill")
    BY <1>6, TermTimesOutDoes
  <2> QED
    BY <2>1, SignalShared
<1>7. CASE HubStopped(w, s)
  <2>0. child' = child /\ faults' = faults /\ blurred' = blurred /\ mode' = mode
    BY <1>7, HubStoppedDoes
  <2>1. \/ Head(k.todo) = "hubStop" /\ Moved(w, s, "ready", NoChild, Tail(k.todo))
        \/ Moved(w, s, "ready", NoChild, IF s = "queue" THEN StopSteps ELSE <<>>)
    BY <1>7, HubStoppedDoes
  <2>2. CASE Head(k.todo) = "hubStop" /\ Moved(w, s, "ready", NoChild, Tail(k.todo))
    BY <1>0, <1>m, <2>0, <2>2, GoOnUnseen
  <2>3. CASE Moved(w, s, "ready", NoChild, IF s = "queue" THEN StopSteps ELSE <<>>)
    BY <1>m, <2>0, <2>3, GiveUpUnseen
  <2> QED
    BY <2>1, <2>2, <2>3
<1> QED
  BY <1>0, <1>1, <1>2, <1>3, <1>4, <1>5, <1>6, <1>7 DEF HubCallStep

LEMMA FaultsDisturb ==
    ASSUME TypeOK, child' = child, blurred' = blurred \/ blurred \in SUBSET blurred',
           faults' = faults \/ faults' = faults + 1
    PROVE  Undisturbed' => Undisturbed
<1>1. faults \in Nat
  BY TypeFacts, ManagedHubAssumption
<1>2. faults' = 0 => faults = 0
  BY <1>1
<1> QED
  BY <1>2 DEF Undisturbed

\* Steps of the bridge and calls that begin neither find a hub nor lose one.
LEMMA AsideShared ==
    ASSUME TypeOK, HubShared, NEW w \in Window, NEW s \in Slot, Aside(w, s),
           NEW st, NEW c, NEW p, Moved(w, s, st, c, p),
           s = "queue" /\ p # <<>> /\ Head(p) \in {"storeStart", "serverStart", "clientStart"} =>
               Rising(call[w][s]),
           \A v \in Window : running'[v] => running[v] \/ Rising(call[v]["queue"]),
           blurred \in SUBSET blurred', faults' = faults \/ faults' = faults + 1
    PROVE  HubShared'
<1>1. child' = child /\ mode' = mode
  BY DEF Aside
<1>2. Unseen
  BY <1>1, SameUnseen
<1>3. Undisturbed' => Undisturbed
  BY <1>1, FaultsDisturb
<1>4. SeenServing' => SeenServing
  BY <1>1, <1>2, SeenMove
<1>5. Undisturbed' => \A v \in Window : mode'[v] # "error"
  BY <1>1, <1>3 DEF HubShared
<1> QED
  BY <1>2, <1>3, <1>4, <1>5, UnseenShared

LEMMA BeginningShared ==
    ASSUME TypeOK, HubShared, NEW w \in Window, Beginning(w)
    PROVE  HubShared'
<1>1. PICK s \in Slot, p \in Seq(Step) :
         /\ Moved(w, s, "ready", NoChild, p) /\ p # <<>> /\ call[w][s].stage = "ready"
         /\ s = "queue" => Head(p) = "takeDown" \/ (Head(p) = "hubStart" /\ ~running[w])
  BY BeginningDoes
<1>2. /\ UNCHANGED <<process, mode, exiting, child, faults, running>>
      /\ blurred \in SUBSET blurred'
  BY BeginningDoes
<1>3. Aside(w, s)
  BY <1>1, <1>2 DEF Aside
<1> QED
  BY <1>1, <1>2, <1>3, AsideShared

LEMMA BridgeShared ==
    ASSUME TypeOK, Lifecycle, HubShared, NEW w \in Window, NEW s \in Slot, BridgeStep(w, s)
    PROVE  HubShared'
<1> DEFINE k == call[w][s]
           Safe(p) == s = "queue" /\ p # <<>> /\ Head(p) \in {"storeStart", "serverStart", "clientStart"} =>
                         Rising(k)
<1>1. Aside(w, s) /\ k.todo # <<>> /\ blurred' = blurred
  BY BridgeAside
<1>2. Safe(k.todo)
  BY DEF Rising
<1>3. Safe(IF s = "queue" THEN StopSteps ELSE <<>>)
  BY GiveUpUnseen
<1>4. Head(k.todo) # "hubStart" => Safe(Tail(k.todo))
  BY <1>1, GoOnUnseen
<1>5. Rising(k) => Safe(Tail(k.todo))
  OBVIOUS
<1>6. ASSUME NEW st, NEW p, Moved(w, s, st, NoChild, p), Safe(p), running' = running,
             faults' = faults \/ faults' = faults + 1
      PROVE  HubShared'
  BY <1>1, <1>6, AsideShared
<1>7. /\ k.stage = "storeStarting" => Head(k.todo) = "storeStart"
      /\ k.stage = "serverStarting" => Head(k.todo) = "serverStart"
      /\ k.stage = "closing" => Head(k.todo) = "takeDown"
  <2>1. Consistent(s, k)
    BY DEF Lifecycle
  <2> QED
    BY <2>1 DEF Consistent
<1> HIDE DEF Safe
<1>8. CASE StoreStarts(w, s)
  BY <1>2, <1>6, <1>8, StoreStartsDoes
<1>9. CASE ServerStarts(w, s)
  BY <1>2, <1>6, <1>9, ServerStartsDoes
<1>10. CASE Started(w, s)
  <2>1. Head(k.todo) # "hubStart"
    BY <1>7, <1>10, StartedDoes
  <2> QED
    BY <1>4, <1>6, <1>10, <2>1, StartedDoes
<1>11. CASE HubClientStarts(w, s)
  <2>1. /\ Head(k.todo) = "clientStart" /\ RunningBecomes(w, TRUE) /\ faults' = faults
        /\ Moved(w, s, "ready", NoChild, Tail(k.todo))
    BY <1>11, HubClientStartsDoes
  <2>2. s = "queue" /\ Rising(k)
    BY <1>1, <2>1, TypeFacts, BridgeQueue DEF Rising
  <2>3. \A v \in Window : running'[v] => running[v] \/ Rising(call[v]["queue"])
    BY <2>1, <2>2 DEF RunningBecomes
  <2> QED
    BY <1>1, <2>1, <2>2, <2>3, AsideShared
<1>12. CASE StartFails(w, s)
  BY <1>3, <1>6, <1>12, StartFailsDoes
<1>13. CASE TakeDown(w, s)
  <2>1. Head(k.todo) = "takeDown" /\ faults' = faults /\ running' = running
    BY <1>13, TakeDownDoes
  <2> QED
    BY <1>2, <1>4, <1>6, <1>13, <2>1, TakeDownDoes
<1>14. CASE Closed(w, s)
  <2>1. Head(k.todo) = "takeDown"
    BY <1>7, <1>14, ClosedDoes
  <2> QED
    BY <1>4, <1>6, <1>14, <2>1, ClosedDoes
<1>15. CASE MarkDown(w, s)
  <2>1. /\ Head(k.todo) = "markDown" /\ RunningBecomes(w, FALSE) /\ faults' = faults
        /\ Moved(w, s, "ready", NoChild, Tail(k.todo))
    BY <1>15, MarkDownDoes
  <2>2. \A v \in Window : running'[v] => running[v] \/ Rising(call[v]["queue"])
    BY <2>1 DEF RunningBecomes
  <2> QED
    BY <1>1, <1>4, <2>1, <2>2, AsideShared DEF Safe
<1> QED
  BY <1>8, <1>9, <1>10, <1>11, <1>12, <1>13, <1>14, <1>15 DEF BridgeStep

LEMMA ProcessShared ==
    ASSUME TypeOK, Named, HubShared, NEW c \in Child, SystemStep(c)
    PROVE  HubShared'
<1>0. running' = running /\ ProcessStep(c)
  BY DEF SystemStep
<1>e. Undisturbed => (SeenServing => Serving) /\ \A v \in Window : mode[v] # "error"
  BY DEF HubShared
<1>1. CASE ProcessServes(c)
  <2>1. /\ ~Serving /\ Changed(c, "serving", child[c].window, child[c].signal)
        /\ UNCHANGED <<mode, faults, blurred>>
    BY <1>1, ProcessServesDoes
  <2>2. \A d \in Child : child'[d].state = "serving" => d = c
    BY <2>1 DEF Changed, Serving
  <2>3. OneServes'
    BY <2>2 DEF OneServes
  <2>4. Serving'
    BY <2>1 DEF Serving, Changed
  <2>5. Undisturbed' => Undisturbed
    BY <2>1 DEF Undisturbed, Changed
  <2> QED
    BY <1>e, <2>1, <2>3, <2>4, <2>5 DEF HubShared
<1>2. CASE ProcessExits(c)
  <2>1. /\ child[c].state \in {"booting", "serving"}
        /\ Changed(c, "dead", child[c].window, child[c].signal)
        /\ \/ child[c].signal # "none"
           \/ child[c].state = "booting" /\ Serving /\ faults' = faults
           \/ faults' = faults + 1
        /\ UNCHANGED <<mode, blurred>>
    BY <1>2, ProcessExitsDoes
  <2>2. OneServes'
    BY <2>1 DEF HubShared, OneServes, Changed
  <2>3. ASSUME Undisturbed'
        PROVE  Undisturbed /\ Serving'
    <3>1. child'[c].signal = "none" /\ faults' = 0 /\ blurred' = {}
      BY <2>3 DEF Undisturbed
    <3>2. faults' # faults + 1
      BY <3>1, TypeFacts, ManagedHubAssumption
    <3>3. child[c].state = "booting" /\ Serving /\ faults = 0
      BY <2>1, <3>1, <3>2 DEF Changed
    <3>4. Serving'
      BY <2>1, <3>3 DEF Serving, Changed
    <3>5. \A d \in Child : child[d].signal = "none"
      BY <2>1, <2>3 DEF Undisturbed, Changed
    <3> QED
      BY <2>1, <3>1, <3>3, <3>4, <3>5 DEF Undisturbed
  <2> QED
    BY <1>e, <2>1, <2>2, <2>3 DEF HubShared
<1>3. CASE ExitSeen(c)
  <2>1. /\ child[c].state = "dead" /\ Changed(c, "reaped", child[c].window, child[c].signal)
        /\ UNCHANGED <<mode, faults, blurred>>
    BY <1>3, ExitSeenDoes
  <2>2. OneServes'
    BY <2>1 DEF HubShared, OneServes, Changed
  <2>3. Undisturbed' => Undisturbed
    BY <2>1 DEF Undisturbed, Changed
  <2>4. SeenServing
    BY <2>1 DEF SeenServing
  <2>5. Serving => Serving'
    BY <2>1 DEF Serving, Changed
  <2> QED
    BY <1>e, <2>1, <2>2, <2>3, <2>4, <2>5 DEF HubShared
<1>4. CASE ExitLookedInto(c)
  <2>1. /\ c \in exiting /\ ModeSet(child[c].window, IF Serving THEN "external" ELSE "error")
        /\ UNCHANGED <<child, faults, blurred>>
    BY <1>4, ExitLookedIntoDoes
  <2>2. SeenServing
    BY <2>1 DEF SeenServing, Named
  <2>3. (Undisturbed' <=> Undisturbed) /\ (OneServes' <=> OneServes) /\ (Serving' <=> Serving)
    BY <2>1 DEF Undisturbed, OneServes, Serving
  <2>4. ASSUME Undisturbed PROVE Serving /\ \A v \in Window : mode'[v] # "error"
    <3>1. Serving
      BY <1>e, <2>2, <2>4
    <3> QED
      BY <1>e, <2>1, <2>4, <3>1 DEF ModeSet
  <2> QED
    BY <2>3, <2>4 DEF HubShared
<1> QED
  BY <1>0, <1>1, <1>2, <1>3, <1>4 DEF ProcessStep

-----------------------------------------------------------------------------
(* The invariant holds.                                                    *)

LEMMA InitInv == Init => Inv
<1> SUFFICES ASSUME Init PROVE Inv
  OBVIOUS
<1> USE DEF Init, HubInit
<1>1. TypeOK
  <2>1. Idle \in Call
    BY DEF Call, Stage, Idle, Todo
  <2>2. (CHOOSE w \in Window : TRUE) \in Window
    BY ManagedHubAssumption
  <2>3. call \in Calls /\ process \in [Window -> Child \cup {NoChild}] /\ mode \in [Window -> Mode]
    BY <2>1 DEF Calls, Mode
  <2>4. child \in Processes
    BY <2>2 DEF Processes
  <2>5. /\ exiting \in SUBSET Child /\ blurred \in SUBSET Window
        /\ faults \in 0..MaxFaults /\ calls \in 0..MaxCalls
    BY ManagedHubAssumption
  <2>6. parts \in [Window -> SUBSET Parts] /\ running \in [Window -> BOOLEAN]
    OBVIOUS
  <2> HIDE DEF Init, HubInit
  <2> QED
    BY <2>3, <2>4, <2>5, <2>6 DEF TypeOK, HubTypeOK, Calls, Call, Stage, Processes
<1>2. \A w \in Window, s \in Slot :
         call[w][s].stage = "ready" /\ call[w][s].todo = <<>> /\ call[w][s].child = NoChild
  BY DEF Idle, Todo
<1>3. Lifecycle
  <2>1. \A s \in Slot : Ordered(s, <<>>)
    BY PlansOrdered DEF Slot
  <2>2. \A w \in Window, s \in Slot : Consistent(s, call[w][s])
    BY <1>2, <2>1 DEF Consistent, Terminating
  <2>3. \A w \in Window : PartsSet(call[w]["queue"], parts[w], running[w])
    BY <1>2 DEF PartsSet, Slot
  <2> QED
    BY <2>2, <2>3 DEF Lifecycle
<1>4. Named
  BY <1>2 DEF Named, Terminating
<1>5. \A w \in Window : Alone(w)
  BY <1>2 DEF Alone, Unreaped, LookedInto, Mode
<1>6. HubShared
  <2>1. ~SeenServing
    BY <1>2 DEF SeenServing, Rising, Slot
  <2> QED
    BY <2>1 DEF HubShared, OneServes
<1> QED
  BY <1>1, <1>3, <1>4, <1>5, <1>6 DEF Inv

LEMMA NextInv == Inv /\ [Next]_vars => Inv'
<1> SUFFICES ASSUME Inv, [Next]_vars PROVE Inv'
  OBVIOUS
<1>1. TypeOK /\ Lifecycle /\ Named /\ (\A w \in Window \ blurred : Alone(w)) /\ HubShared
  BY DEF Inv
<1>2. TypeOK' /\ Lifecycle' /\ Named'
  BY <1>1, TypeStep, LifecycleStep, NamedStep
<1>3. \A w \in Window \ blurred' : Alone(w)'
  BY <1>1, AloneStep
<1>4. HubShared'
  <2>1. CASE UNCHANGED vars
    BY <1>1, <2>1 DEF HubShared, OneServes, Undisturbed, SeenServing, Rising, Serving, vars, hubVars, processVars
  <2> QED
    BY <1>1, <2>1, NextCases, BeginningShared, BridgeShared, HubCallShared, ProcessShared
<1> QED
  BY <1>2, <1>3, <1>4 DEF Inv

LEMMA InvHolds == Spec => []Inv
BY InitInv, NextInv, PTL DEF Spec

\* The types of the bridges, the hub runtimes and the processes.
THEOREM TypeCorrect == Spec => []TypeOK
<1>1. Inv => TypeOK
  BY DEF Inv
<1> QED
  BY <1>1, InvHolds, PTL

\* Between two operations of its queue a bridge has all of its parts or none, as running
\* says (startInternal, its catch, stopInternal), whatever failed on the way.
THEOREM PartsHold == Spec => []PartsFollowLifecycle
<1>1. Inv => PartsFollowLifecycle
  <2> SUFFICES ASSUME Inv, NEW w \in Window, ~Busy(w, "queue")
               PROVE  parts[w] = IF running[w] THEN Parts ELSE {}
    BY DEF PartsFollowLifecycle
  <2>1. call[w]["queue"].todo = <<>>
    BY DEF Busy, Idle, Todo
  <2>2. PartsSet(call[w]["queue"], parts[w], running[w])
    BY DEF Inv, Lifecycle
  <2> QED
    BY <2>1, <2>2 DEF PartsSet
<1> QED
  BY <1>1, InvHolds, PTL

\* A quiet window: no call is under way, so none waits for a health check or an exit.
LEMMA QuietCalls ==
    ASSUME NEW w \in Window, Quiet(w), NEW s \in Slot
    PROVE  call[w][s].stage = "ready"
BY DEF Quiet, Busy, Idle, Todo

LEMMA QuietAlone ==
    ASSUME NEW w \in Window, Alone(w), Quiet(w), NEW c \in Child, Alive(c), child[c].window = w
    PROVE  mode[w] = "running" /\ process[w] = c
<1>1. Unreaped(c, w)
  BY DEF Alive, Unreaped
<1>2. \A s \in Slot : ~Terminating(call[w][s]) /\ call[w][s].stage # "waiting"
  BY QuietCalls DEF Terminating
<1>3. process[w] = c /\ c # NoChild
  BY <1>1, <1>2, NoChildIsNone DEF Alone
<1> QED
  BY <1>2, <1>3 DEF Alone

\* After start, stop and the exit handler of ManagedHubRuntime, in any order of events: a
\* window whose calls came one at a time has no hub process that it would not stop.
THEOREM NoneLeftBehind == Spec => []NoHubLeftBehind
<1>1. Inv => NoHubLeftBehind
  BY QuietAlone DEF Inv, NoHubLeftBehind
<1> QED
  BY <1>1, InvHolds, PTL

\* Windows that start at any moments share one hub: the owner runs it, the others
\* use it as external (start's health check, the exit of a hub that came second).
THEOREM HubIsShared == Spec => []OneHubForAll
<1>1. Inv => OneHubForAll
  <2> SUFFICES ASSUME Inv, blurred = {}, faults = 0, \A w \in Window : Quiet(w),
                      \A c \in Child : child[c].signal = "none" /\ child[c].state \in {"none", "serving", "reaped"},
                      \E w \in Window : running[w]
               PROVE  \E c \in Child :
                         /\ \A d \in Child \ {c} : ~Alive(d)
                         /\ child[c].state = "serving"
                         /\ \A w \in Window : mode[w] \in
                               IF w = child[c].window THEN {"running"} ELSE {"external", "stopped"}
    BY DEF OneHubForAll
  <2>1. /\ \A w \in Window : Alone(w) /\ mode[w] # "error" /\ mode[w] \in Mode
                             /\ process[w] \in Child \cup {NoChild}
        /\ Serving /\ OneServes /\ Named /\ TypeOK
    <3>1. Undisturbed /\ SeenServing
      BY DEF Undisturbed, SeenServing
    <3>2. TypeOK /\ Named /\ HubShared /\ \A w \in Window : Alone(w)
      BY DEF Inv
    <3> QED
      BY <3>1, <3>2, TypeFacts DEF HubShared
  <2>2. PICK c \in Child : child[c].state = "serving"
    BY <2>1 DEF Serving
  <2>3. \A d \in Child \ {c} : ~Alive(d)
    BY <2>1, <2>2 DEF Alive, OneServes
  <2>4. ASSUME NEW w \in Window
        PROVE  mode[w] \in IF w = child[c].window THEN {"running"} ELSE {"external", "stopped"}
    <3>1. CASE w = child[c].window
      BY <2>1, <2>2, <3>1, QuietAlone DEF Alive
    <3>2. CASE w # child[c].window
      <4>1. \A s \in Slot : call[w][s].stage # "waiting"
        BY QuietCalls
      <4>2. mode[w] # "starting"
        BY <2>1, <4>1 DEF Alone
      <4>3. mode[w] # "running"
        <5> SUFFICES ASSUME mode[w] = "running" PROVE FALSE
          OBVIOUS
        <5>1. process[w] # NoChild /\ Unreaped(process[w], w)
          BY <2>1 DEF Alone, Quiet
        <5>2. process[w] \in Child /\ child[process[w]].state = "serving"
          BY <2>1, <5>1 DEF Unreaped
        <5>3. process[w] = c
          BY <2>1, <2>2, <5>2 DEF OneServes
        <5> QED
          BY <3>2, <5>1, <5>3 DEF Unreaped
      <4> QED
        BY <2>1, <3>2, <4>2, <4>3 DEF Mode
    <3> QED
      BY <3>1, <3>2
  <2> QED
    BY <2>2, <2>3, <2>4
<1> QED
  BY <1>1, InvHolds, PTL
=============================================================================
