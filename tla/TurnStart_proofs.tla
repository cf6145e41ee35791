-------------------------- MODULE TurnStart_proofs --------------------------
(***************************************************************************)
(* Theorems about TurnStart for any sets of calls and threads.             *)
(***************************************************************************)
EXTENDS TurnStart, TLAPS

ThreadRungs == {"read", "read_resume", "read_again", "prepare", "start", "start_resume", "start_again"}
DraftRungs  == {"thread_start", "start_made", "start_generated", "resolve"}

\* What is known of a call at each rung: the thread it asks about, and that no turn was
\* started for it before a rung that ends it, or that asks for its thread.
OnLadder(c) ==
    /\ call[c].pc \in ThreadRungs => call[c].target \in Threads /\ call[c].thread = call[c].target
    /\ call[c].pc \in DraftRungs => call[c].target = Draft
    /\ call[c].pc = "start_made" => call[c].thread = Made(c)
    /\ call[c].pc = "start_generated" => call[c].thread = Generated(c)
    /\ call[c].pc \notin {"resolve", "ended"} => turnsOf[c] = <<>>
    /\ call[c].pc = "resolve" => turnsOf[c] = <<Made(c)>> /\ call[c].turn = TurnId(c, 1)
    /\ call[c].pc # "ended" => call[c].reason = "none" /\ call[c].code = "none"

\* What is known of a call that ended.
Outcome(c) ==
    /\ turnsOf[c] = <<>> \/ \E t \in AllThreads :
          /\ turnsOf[c] = <<t>>
          /\ IF call[c].target = Draft THEN t \in {Made(c), Generated(c)} ELSE t = call[c].target
    /\ call[c].reason = "ok" =>
          /\ turnsOf[c] = <<call[c].thread>>
          /\ call[c].turn = TurnId(c, 1)
          /\ call[c].turn \in turnRecords
    /\ call[c].code \in {"NOT_FOUND", "BUSY"} => turnsOf[c] = <<>>

\* How often the thread of a call was out of memory, by the rung the call has reached.
Unloads(c) ==
    /\ call[c].pc \in ThreadRungs /\ loaded[call[c].thread] = "unloaded" => call[c].unloads >= 1
    /\ call[c].pc \in {"read_resume", "read_again"} => call[c].unloads >= 1
    /\ call[c].pc \in {"start_resume", "start_again"} =>
          call[c].unloads >= 1 \/ loaded[call[c].thread] = "absent"
    /\ call[c].pc \in {"read_again", "start_again"} /\ loaded[call[c].thread] = "unloaded"
          => call[c].unloads >= 2
    /\ call[c].target # Draft /\ call[c].reason = "not loaded" => call[c].unloads >= 2

Safe == \A c \in Calls : OnLadder(c) /\ Outcome(c) /\ Unloads(c)
IInv == TypeOK /\ Safe

-----------------------------------------------------------------------------
(* The rungs of a call leave every other call as it is.                    *)

OnlyThatCall(c) ==
    /\ call' \in [Calls -> CallType]
    /\ \A d \in Calls \ {c} : call'[d] = call[d]

Same(c) ==
    /\ call'[c].target = call[c].target /\ call'[c].mode = call[c].mode
    /\ call'[c].unloads = call[c].unloads

\* Records are only added.
Store ==
    /\ turnRecords \subseteq turnRecords' /\ turnRecords' \subseteq TurnIds
    /\ activeTurnByThread' \in [AllThreads -> TurnIds \cup {None}]

LEMMA FieldUpdate ==
    ASSUME NEW f \in [Calls -> CallType], NEW c \in Calls
    PROVE  /\ \A v \in Rungs \cup {"idle", "ended"} : [f EXCEPT ![c].pc = v] \in [Calls -> CallType]
           /\ \A v \in AllThreads \cup {None} : [f EXCEPT ![c].thread = v] \in [Calls -> CallType]
           /\ \A v \in BOOLEAN : [f EXCEPT ![c].bare = v] \in [Calls -> CallType]
           /\ \A v \in TurnIds \cup {None} : [f EXCEPT ![c].turn = v] \in [Calls -> CallType]
           /\ \A v \in Errors \cup {"none", "ok", "unresolved"} :
                 [f EXCEPT ![c].reason = v] \in [Calls -> CallType]
           /\ \A v \in Codes \cup {"none"} : [f EXCEPT ![c].code = v] \in [Calls -> CallType]
           /\ \A v \in Nat : [f EXCEPT ![c].unloads = v] \in [Calls -> CallType]
           /\ \A v \in Threads \cup {Draft} : [f EXCEPT ![c].target = v] \in [Calls -> CallType]
           /\ \A v \in {"full-access", "plan-only"} : [f EXCEPT ![c].mode = v] \in [Calls -> CallType]
<1> DEFINE k == f[c]
<1>1. k \in CallType
  OBVIOUS
<1>2. \A r \in CallType : [f EXCEPT ![c] = r] \in [Calls -> CallType]
  OBVIOUS
<1>3. ASSUME NEW v \in Rungs \cup {"idle", "ended"} PROVE [k EXCEPT !.pc = v] \in CallType
  BY <1>1, SMTT(20) DEF CallType
<1>4. ASSUME NEW v \in AllThreads \cup {None} PROVE [k EXCEPT !.thread = v] \in CallType
  BY <1>1, SMTT(20) DEF CallType
<1>5. ASSUME NEW v \in BOOLEAN PROVE [k EXCEPT !.bare = v] \in CallType
  BY <1>1, SMTT(20) DEF CallType
<1>6. ASSUME NEW v \in TurnIds \cup {None} PROVE [k EXCEPT !.turn = v] \in CallType
  BY <1>1, SMTT(20) DEF CallType
<1>7. ASSUME NEW v \in Errors \cup {"none", "ok", "unresolved"} PROVE [k EXCEPT !.reason = v] \in CallType
  BY <1>1, SMTT(20) DEF CallType
<1>8. ASSUME NEW v \in Codes \cup {"none"} PROVE [k EXCEPT !.code = v] \in CallType
  BY <1>1, SMTT(20) DEF CallType
<1>9. ASSUME NEW v \in Nat PROVE [k EXCEPT !.unloads = v] \in CallType
  BY <1>1, SMTT(20) DEF CallType
<1>10. ASSUME NEW v \in Threads \cup {Draft} PROVE [k EXCEPT !.target = v] \in CallType
  BY <1>1, SMTT(20) DEF CallType
<1>11. ASSUME NEW v \in {"full-access", "plan-only"} PROVE [k EXCEPT !.mode = v] \in CallType
  BY <1>1, SMTT(20) DEF CallType
<1> HIDE DEF k
<1> QED
  BY <1>2, <1>3, <1>4, <1>5, <1>6, <1>7, <1>8, <1>9, <1>10, <1>11 DEF k

\* What a step of the call that goes on, fails or succeeds does to its record.
LEMMA ClimbStep ==
    ASSUME TypeOK, NEW c \in Calls, NEW r \in Rungs, NEW t \in AllThreads \cup {None}, Climb(c, r, t)
    PROVE  /\ OnlyThatCall(c) /\ Same(c)
           /\ call'[c].pc = r /\ call'[c].thread = t
           /\ call'[c].turn = call[c].turn
           /\ call'[c].reason = call[c].reason /\ call'[c].code = call[c].code
           /\ Store
<1> DEFINE b == (r = "start_resume" /\ call[c].mode = "plan-only")
           f == [call EXCEPT ![c].pc = r]
           g == [f EXCEPT ![c].thread = t]
           h == [g EXCEPT ![c].bare = b]
<1>1. call \in [Calls -> CallType] /\ b \in BOOLEAN
  BY DEF TypeOK
<1>2. call' = [call EXCEPT ![c].pc = r, ![c].thread = t, ![c].bare = b]
  BY DEF Climb
<1> HIDE DEF b
<1>3. call' = h
  BY <1>2, Zenon
<1>4. f \in [Calls -> CallType]
  BY <1>1, FieldUpdate
<1> HIDE DEF f
<1>5. g \in [Calls -> CallType]
  BY <1>4, FieldUpdate
<1> HIDE DEF g
<1>6. h \in [Calls -> CallType]
  BY <1>5, <1>1, FieldUpdate
<1>7. /\ \A d \in Calls \ {c} : call'[d] = call[d]
      /\ call'[c].pc = r /\ call'[c].thread = t
      /\ call'[c].turn = call[c].turn
      /\ call'[c].reason = call[c].reason /\ call'[c].code = call[c].code
      /\ Same(c)
  BY <1>1, <1>2, SMTT(20) DEF CallType, Same
<1> QED
  BY <1>3, <1>6, <1>7 DEF Climb, OnlyThatCall, Store, TypeOK

LEMMA FailStep ==
    ASSUME TypeOK, NEW c \in Calls, NEW e \in Errors \cup {"unresolved"}, NEW k \in Codes, Fail(c, e, k)
    PROVE  /\ OnlyThatCall(c) /\ Same(c)
           /\ call'[c].pc = "ended" /\ call'[c].reason = e /\ call'[c].code = k
           /\ call'[c].thread = call[c].thread /\ call'[c].turn = call[c].turn
           /\ Store
<1> DEFINE f == [call EXCEPT ![c].pc = "ended"]
           g == [f EXCEPT ![c].reason = e]
           h == [g EXCEPT ![c].code = k]
<1>1. call \in [Calls -> CallType]
  BY DEF TypeOK
<1>2. call' = [call EXCEPT ![c].pc = "ended", ![c].reason = e, ![c].code = k]
  BY DEF Fail
<1>3. call' = h
  BY <1>2, Zenon
<1>4. f \in [Calls -> CallType]
  BY <1>1, FieldUpdate
<1> HIDE DEF f
<1>5. g \in [Calls -> CallType]
  BY <1>4, FieldUpdate
<1> HIDE DEF g
<1>6. h \in [Calls -> CallType]
  BY <1>5, FieldUpdate
<1>7. /\ \A d \in Calls \ {c} : call'[d] = call[d]
      /\ call'[c].pc = "ended" /\ call'[c].reason = e /\ call'[c].code = k
      /\ call'[c].thread = call[c].thread /\ call'[c].turn = call[c].turn
      /\ Same(c)
  BY <1>1, <1>2, SMTT(20) DEF CallType, Same
<1> QED
  BY <1>3, <1>6, <1>7 DEF Fail, OnlyThatCall, Store, TypeOK

LEMMA SucceedStep ==
    ASSUME TypeOK, NEW c \in Calls, NEW t \in AllThreads, NEW turn \in TurnIds, Succeed(c, t, turn)
    PROVE  /\ OnlyThatCall(c) /\ Same(c)
           /\ call'[c].pc = "ended" /\ call'[c].reason = "ok" /\ call'[c].code = call[c].code
           /\ call'[c].thread = t /\ call'[c].turn = turn
           /\ turn \in turnRecords' /\ Store
<1> DEFINE f == [call EXCEPT ![c].pc = "ended"]
           g == [f EXCEPT ![c].reason = "ok"]
           h == [g EXCEPT ![c].thread = t]
           i == [h EXCEPT ![c].turn = turn]
<1>1. call \in [Calls -> CallType] /\ activeTurnByThread \in [AllThreads -> TurnIds \cup {None}]
  BY DEF TypeOK
<1>2. call' = [call EXCEPT ![c].pc = "ended", ![c].reason = "ok", ![c].thread = t, ![c].turn = turn]
  BY DEF Succeed
<1>3. call' = i
  BY <1>2, Zenon
<1>4. f \in [Calls -> CallType]
  BY <1>1, FieldUpdate
<1>8. (\A d \in Calls \ {c} : f[d] = call[d]) /\ f[c].pc = "ended" /\ f[c].code = call[c].code
      /\ f[c].target = call[c].target /\ f[c].mode = call[c].mode /\ f[c].unloads = call[c].unloads
  BY <1>1, SMTT(20) DEF CallType
<1> HIDE DEF f
<1>5. g \in [Calls -> CallType]
  BY <1>4, FieldUpdate
<1>9. (\A d \in Calls \ {c} : g[d] = f[d]) /\ g[c].pc = f[c].pc /\ g[c].code = f[c].code /\ g[c].reason = "ok"
      /\ g[c].target = f[c].target /\ g[c].mode = f[c].mode /\ g[c].unloads = f[c].unloads
  BY <1>4, SMTT(20) DEF CallType
<1> HIDE DEF g
<1>6. h \in [Calls -> CallType]
  BY <1>5, FieldUpdate
<1>10. (\A d \in Calls \ {c} : h[d] = g[d]) /\ h[c].pc = g[c].pc /\ h[c].code = g[c].code /\ h[c].reason = g[c].reason
      /\ h[c].thread = t
      /\ h[c].target = g[c].target /\ h[c].mode = g[c].mode /\ h[c].unloads = g[c].unloads
  BY <1>5, SMTT(20) DEF CallType
<1> HIDE DEF h
<1>7. i \in [Calls -> CallType]
  BY <1>6, FieldUpdate
<1>11. (\A d \in Calls \ {c} : i[d] = h[d]) /\ i[c].pc = h[c].pc /\ i[c].code = h[c].code /\ i[c].reason = h[c].reason
      /\ i[c].thread = h[c].thread /\ i[c].turn = turn
      /\ i[c].target = h[c].target /\ i[c].mode = h[c].mode /\ i[c].unloads = h[c].unloads
  BY <1>6, SMTT(20) DEF CallType
<1>12. activeTurnByThread' \in [AllThreads -> TurnIds \cup {None}] /\ turnRecords' = turnRecords \cup {turn}
  BY <1>1 DEF Succeed
<1> HIDE DEF i
<1> QED
  BY <1>3, <1>7, <1>8, <1>9, <1>10, <1>11, <1>12 DEF OnlyThatCall, Same, Store, TypeOK

LEMMA WithoutSandboxStep ==
    ASSUME TypeOK, NEW c \in Calls, WithoutSandbox(c)
    PROVE  /\ OnlyThatCall(c) /\ Same(c)
           /\ call'[c].pc = call[c].pc /\ call'[c].reason = call[c].reason /\ call'[c].code = call[c].code
           /\ call'[c].thread = call[c].thread /\ call'[c].turn = call[c].turn
           /\ Store /\ UNCHANGED <<loaded, turnsOf>>
<1>1. call \in [Calls -> CallType]
  BY DEF TypeOK
<1>2. call' = [call EXCEPT ![c].bare = TRUE]
  BY DEF WithoutSandbox
<1>3. call' \in [Calls -> CallType]
  BY <1>1, <1>2, FieldUpdate
<1>4. /\ \A d \in Calls \ {c} : call'[d] = call[d]
      /\ call'[c].pc = call[c].pc /\ call'[c].reason = call[c].reason /\ call'[c].code = call[c].code
      /\ call'[c].thread = call[c].thread /\ call'[c].turn = call[c].turn
      /\ Same(c)
  BY <1>1, <1>2, SMTT(20) DEF CallType, Same
<1> QED
  BY <1>3, <1>4 DEF WithoutSandbox, OnlyThatCall, Store, TypeOK

-----------------------------------------------------------------------------
(* What a rung does to the app-server and to the other calls.              *)

\* The app-server starts turns for the call only; it may load a thread, and make one that
\* has no other maker; records are only added.
World(c) ==
    /\ loaded' \in [AllThreads -> {"absent", "unloaded", "loaded"}]
    /\ turnsOf' \in [Calls -> Seq(AllThreads)]
    /\ \A d \in Calls \ {c} : turnsOf'[d] = turnsOf[d]
    /\ \A t \in AllThreads :
          \/ loaded'[t] = loaded[t]
          \/ loaded'[t] = "loaded" /\ ~(t \in Threads /\ loaded[t] = "absent")

LEMMA NothingRuns ==
    ASSUME TypeOK, NEW c \in Calls, UNCHANGED <<loaded, turnsOf>>
    PROVE  World(c) /\ turnsOf'[c] = turnsOf[c]
BY DEF TypeOK, World

LEMMA ThreadLoads ==
    ASSUME TypeOK, NEW c \in Calls, NEW t \in AllThreads, loaded[t] # "absent" \/ t \notin Threads,
           loaded' = [loaded EXCEPT ![t] = "loaded"], UNCHANGED turnsOf
    PROVE  World(c) /\ turnsOf'[c] = turnsOf[c] /\ loaded'[t] = "loaded"
BY DEF TypeOK, World

LEMMA TurnRuns ==
    ASSUME TypeOK, NEW c \in Calls, NEW t \in AllThreads, loaded[t] # "absent" \/ t \notin Threads,
           turnsOf[c] = <<>>, Runs(c, t)
    PROVE  /\ World(c) /\ loaded'[t] = "loaded"
           /\ turnsOf'[c] = <<t>>
           /\ NextTurn(c) = TurnId(c, 1) /\ NextTurn(c) \in TurnIds
<1>1. turnsOf' = [turnsOf EXCEPT ![c] = Append(turnsOf[c], t)]
  BY DEF Runs
<1>2. Append(turnsOf[c], t) = <<t>> /\ <<t>> \in Seq(AllThreads)
  OBVIOUS
<1>3. NextTurn(c) = TurnId(c, 1) /\ NextTurn(c) \in TurnIds
  BY DEF NextTurn, TurnId, TurnIds
<1>4. loaded' = [loaded EXCEPT ![t] = "loaded"]
  BY DEF Runs
<1>5. turnsOf'[c] = <<t>> /\ turnsOf' \in [Calls -> Seq(AllThreads)] /\ \A d \in Calls \ {c} : turnsOf'[d] = turnsOf[d]
  BY <1>1, <1>2 DEF TypeOK
<1>6. /\ loaded' \in [AllThreads -> {"absent", "unloaded", "loaded"}] /\ loaded'[t] = "loaded"
      /\ \A u \in AllThreads : \/ loaded'[u] = loaded[u]
                               \/ loaded'[u] = "loaded" /\ ~(u \in Threads /\ loaded[u] = "absent")
  BY <1>4 DEF TypeOK
<1> QED
  BY <1>3, <1>5, <1>6 DEF World

\* So it is enough to look at the call itself.
LEMMA RungStep ==
    ASSUME IInv, NEW c \in Calls, OnlyThatCall(c), World(c), Store,
           OnLadder(c)', Outcome(c)', Unloads(c)'
    PROVE  IInv'
<1>1. TypeOK'
  BY DEF OnlyThatCall, World, Store, TypeOK
<1>2. ASSUME NEW d \in Calls, d # c PROVE OnLadder(d)' /\ Outcome(d)' /\ Unloads(d)'
  <2>1. OnLadder(d) /\ Outcome(d) /\ Unloads(d)
    BY DEF IInv, Safe
  <2>2. call'[d] = call[d] /\ turnsOf'[d] = turnsOf[d] /\ turnRecords \subseteq turnRecords'
    BY <1>2 DEF OnlyThatCall, World, Store
  <2>3. OnLadder(d)'
    BY <2>1, <2>2 DEF OnLadder
  <2>4. Outcome(d)'
    BY <2>1, <2>2 DEF Outcome
  <2>5. Unloads(d)'
    <3>1. call[d].pc \in ThreadRungs => call[d].thread \in Threads /\ call[d].thread \in AllThreads
      BY <2>1 DEF OnLadder, AllThreads
    <3>2. call[d].pc \in {"read_resume", "read_again", "start_resume", "start_again"} => call[d].pc \in ThreadRungs
      BY DEF ThreadRungs
    <3>3. call[d].pc \in ThreadRungs =>
             /\ loaded'[call[d].thread] = "unloaded" => loaded[call[d].thread] = "unloaded"
             /\ loaded[call[d].thread] = "absent" => loaded'[call[d].thread] = "absent"
      BY <3>1 DEF World
    <3> QED
      BY <2>1, <2>2, <3>2, <3>3 DEF Unloads
  <2> QED
    BY <2>3, <2>4, <2>5
<1> QED
  BY <1>1, <1>2 DEF IInv, Safe

-----------------------------------------------------------------------------
(* The rungs one by one.                                                   *)

LEMMA StartTurnInv ==
    ASSUME IInv, NEW c \in Calls, NEW target \in Threads \cup {Draft},
           NEW mode \in {"full-access", "plan-only"}, StartTurn(c, target, mode)
    PROVE  IInv'
<1> DEFINE p == IF target = Draft THEN "thread_start" ELSE "read"
           t == IF target = Draft THEN None ELSE target
           u == IF target # Draft /\ loaded[target] = "unloaded" THEN 1 ELSE 0
           f == [call EXCEPT ![c].pc = p]
           g == [f EXCEPT ![c].target = target]
           h == [g EXCEPT ![c].mode = mode]
           i == [h EXCEPT ![c].thread = t]
           j == [i EXCEPT ![c].unloads = u]
<1>1. /\ call \in [Calls -> CallType]
      /\ p \in Rungs \cup {"idle", "ended"} /\ t \in AllThreads \cup {None} /\ u \in Nat
  BY DEF IInv, TypeOK, Rungs, AllThreads
<1>2. call' = [call EXCEPT ![c].pc = p, ![c].target = target, ![c].mode = mode, ![c].thread = t, ![c].unloads = u]
  BY DEF StartTurn
<1>3. /\ target = Draft => p = "thread_start" /\ u = 0
      /\ target # Draft => p = "read" /\ t = target /\ (loaded[target] = "unloaded" => u = 1)
  OBVIOUS
<1> HIDE DEF p, t, u
<1>4. call' = j
  BY <1>2, Zenon
<1>5. /\ f \in [Calls -> CallType] /\ \A d \in Calls \ {c} : f[d] = call[d]
      /\ f[c].pc = p /\ f[c].reason = call[c].reason /\ f[c].code = call[c].code
  BY <1>1, FieldUpdate, SMTT(20) DEF CallType
<1> HIDE DEF f
<1>6. /\ g \in [Calls -> CallType] /\ \A d \in Calls \ {c} : g[d] = f[d]
      /\ g[c].pc = f[c].pc /\ g[c].target = target /\ g[c].reason = f[c].reason /\ g[c].code = f[c].code
  BY <1>5, FieldUpdate, SMTT(20) DEF CallType
<1> HIDE DEF g
<1>7. /\ h \in [Calls -> CallType] /\ \A d \in Calls \ {c} : h[d] = g[d]
      /\ h[c].pc = g[c].pc /\ h[c].target = g[c].target /\ h[c].reason = g[c].reason /\ h[c].code = g[c].code
  BY <1>6, FieldUpdate, SMTT(20) DEF CallType
<1> HIDE DEF h
<1>8. i \in [Calls -> CallType]
  BY <1>1, <1>7, FieldUpdate
<1>9. /\ \A d \in Calls \ {c} : i[d] = h[d]
      /\ i[c].pc = h[c].pc /\ i[c].target = h[c].target /\ i[c].thread = t
      /\ i[c].reason = h[c].reason /\ i[c].code = h[c].code
  BY <1>7, SMTT(20) DEF CallType
<1> HIDE DEF i
<1>16. j \in [Calls -> CallType]
  BY <1>1, <1>8, FieldUpdate
<1>17. /\ \A d \in Calls \ {c} : j[d] = i[d]
       /\ j[c].pc = i[c].pc /\ j[c].target = i[c].target /\ j[c].thread = i[c].thread /\ j[c].unloads = u
       /\ j[c].reason = i[c].reason /\ j[c].code = i[c].code
  BY <1>8, SMTT(20) DEF CallType
<1> HIDE DEF j
<1>10. /\ OnlyThatCall(c) /\ call'[c].pc = p /\ call'[c].target = target /\ call'[c].thread = t
       /\ call'[c].unloads = u /\ call'[c].reason = call[c].reason /\ call'[c].code = call[c].code
  BY <1>4, <1>5, <1>6, <1>7, <1>8, <1>9, <1>16, <1>17 DEF OnlyThatCall
<1>11. /\ turnsOf[c] = <<>> /\ call[c].reason = "none" /\ call[c].code = "none"
  BY DEF StartTurn, IInv, Safe, OnLadder
<1>12. World(c) /\ Store /\ turnsOf'[c] = <<>> /\ UNCHANGED loaded
  BY <1>11, NothingRuns DEF StartTurn, IInv, TypeOK, Store
<1>13. OnLadder(c)'
  BY <1>3, <1>10, <1>11, <1>12, TurnStartAssumption DEF OnLadder, ThreadRungs, DraftRungs, AllThreads
<1>14. Outcome(c)'
  BY <1>10, <1>11, <1>12 DEF Outcome
<1>15. Unloads(c)'
  BY <1>3, <1>10, <1>11, <1>12 DEF Unloads, ThreadRungs
<1> QED
  BY <1>10, <1>12, <1>13, <1>14, <1>15, RungStep

LEMMA ReadThreadInv ==
    ASSUME IInv, NEW c \in Calls, ReadThread(c)
    PROVE  IInv'
<1>1. TypeOK /\ OnLadder(c) /\ Outcome(c) /\ Unloads(c)
  BY DEF IInv, Safe
<1>2. PICK t : t = call[c].thread
  OBVIOUS
<1>3. /\ call[c].pc \in {"read", "read_again"}
      /\ t \in Threads /\ t \in AllThreads /\ call[c].target = t /\ t # Draft
      /\ turnsOf[c] = <<>> /\ call[c].reason = "none" /\ call[c].code = "none"
  BY <1>1, <1>2, TurnStartAssumption DEF ReadThread, OnLadder, ThreadRungs, AllThreads
<1>4. UNCHANGED <<loaded, turnsOf>> /\ World(c) /\ turnsOf'[c] = <<>>
  BY <1>1, <1>3, NothingRuns DEF ReadThread
<1>5. ASSUME NEW r \in {"prepare", "start", "read_resume"}, Climb(c, r, t),
             r = "read_resume" => loaded[t] = "unloaded"
      PROVE  IInv'
  <2>1. r \in Rungs
    BY DEF Rungs
  <2>2. /\ OnlyThatCall(c) /\ Same(c) /\ call'[c].pc = r /\ call'[c].thread = t
        /\ call'[c].reason = "none" /\ call'[c].code = "none" /\ Store
    BY <1>1, <1>3, <1>5, <2>1, ClimbStep
  <2>3. OnLadder(c)'
    BY <1>3, <1>4, <2>2 DEF OnLadder, ThreadRungs, DraftRungs, Same
  <2>4. Outcome(c)'
    BY <1>4, <2>2 DEF Outcome
  <2>5. Unloads(c)'
    BY <1>1, <1>2, <1>3, <1>4, <1>5, <2>2 DEF Unloads, ThreadRungs, Same
  <2> QED
    BY <1>4, <2>2, <2>3, <2>4, <2>5, RungStep
<1>6. ASSUME NEW e \in Errors, NEW k \in Codes, Fail(c, e, k),
             e = "not loaded" => call[c].pc = "read_again" /\ loaded[t] = "unloaded"
      PROVE  IInv'
  <2>1. /\ OnlyThatCall(c) /\ Same(c) /\ call'[c].pc = "ended" /\ call'[c].reason = e /\ call'[c].code = k
        /\ Store
    BY <1>1, <1>6, FailStep
  <2>2. e # "ok"
    BY DEF Errors
  <2>3. OnLadder(c)'
    BY <2>1 DEF OnLadder, ThreadRungs, DraftRungs
  <2>4. Outcome(c)'
    BY <1>4, <2>1, <2>2 DEF Outcome
  <2>5. Unloads(c)'
    BY <1>1, <1>2, <1>6, <2>1 DEF Unloads, ThreadRungs, Same
  <2> QED
    BY <1>4, <2>1, <2>3, <2>4, <2>5, RungStep
<1>7. CASE Climb(c, IF call[c].mode = "full-access" THEN "prepare" ELSE "start", t)
  <2>1. PICK r \in {"prepare", "start"} : Climb(c, r, t)
    BY <1>7
  <2> QED
    BY <2>1, <1>5
<1>8. ASSUME NEW e \in Unable(t) \cup {"lost"},
             \/ call[c].pc = "read" /\ e = "not loaded" /\ Climb(c, "read_resume", t)
             \/ call[c].pc = "read" /\ e # "not loaded" /\ FailMapped(c, e)
             \/ call[c].pc = "read_again" /\ FailRaw(c, e)
      PROVE  IInv'
  <2>1. e \in Errors /\ (e = "not loaded" => loaded[t] = "unloaded")
    BY <1>8 DEF Unable, Errors
  <2>2. MapBackendError(e) \in Codes /\ "INTERNAL_ERROR" \in Codes
    BY DEF MapBackendError, Codes
  <2> QED
    BY <1>5, <1>6, <1>8, <2>1, <2>2 DEF FailMapped, FailRaw
<1> QED
  BY <1>2, <1>7, <1>8 DEF ReadThread

LEMMA ResumeThreadInv ==
    ASSUME IInv, NEW c \in Calls, ResumeThread(c)
    PROVE  IInv'
<1>1. TypeOK /\ OnLadder(c) /\ Outcome(c) /\ Unloads(c)
  BY DEF IInv, Safe
<1>2. PICK t : t = call[c].thread
  OBVIOUS
<1>3. /\ call[c].pc \in {"read_resume", "prepare", "start_resume"}
      /\ t \in Threads /\ t \in AllThreads /\ call[c].target = t /\ t # Draft
      /\ turnsOf[c] = <<>> /\ call[c].reason = "none" /\ call[c].code = "none"
  BY <1>1, <1>2, TurnStartAssumption DEF ResumeThread, OnLadder, ThreadRungs, AllThreads
<1>4. CASE WithoutSandbox(c)
  <2>1. /\ OnlyThatCall(c) /\ Same(c) /\ call'[c].pc = call[c].pc /\ call'[c].thread = t
        /\ call'[c].turn = call[c].turn
        /\ call'[c].reason = "none" /\ call'[c].code = "none" /\ Store
        /\ UNCHANGED loaded /\ World(c) /\ turnsOf'[c] = <<>>
    BY <1>1, <1>2, <1>3, <1>4, WithoutSandboxStep, NothingRuns
  <2>2. OnLadder(c)' /\ Outcome(c)'
    BY <1>3, <2>1 DEF OnLadder, Outcome, ThreadRungs, DraftRungs, Same
  <2>3. Unloads(c)'
    BY <1>1, <1>2, <1>3, <2>1 DEF Unloads, ThreadRungs, Same
  <2> QED
    BY <2>1, <2>2, <2>3, RungStep
<1>5. CASE /\ loaded[t] # "absent"
           /\ loaded' = [loaded EXCEPT ![t] = "loaded"]
           /\ UNCHANGED turnsOf
           /\ Climb(c, CASE call[c].pc = "read_resume" -> "read_again"
                         [] call[c].pc = "prepare" -> "start"
                         [] OTHER -> "start_again", t)
  <2>1. PICK r \in {"read_again", "start", "start_again"} :
           Climb(c, r, t) /\ (r = "read_again" => call[c].pc = "read_resume")
                          /\ (r = "start_again" => call[c].pc = "start_resume")
    BY <1>3, <1>5
  <2>2. r \in Rungs
    BY DEF Rungs
  <2>3. World(c) /\ turnsOf'[c] = <<>> /\ loaded'[t] = "loaded"
    BY <1>1, <1>3, <1>5, ThreadLoads
  <2>4. /\ OnlyThatCall(c) /\ Same(c) /\ call'[c].pc = r /\ call'[c].thread = t
        /\ call'[c].reason = "none" /\ call'[c].code = "none" /\ Store
    BY <1>1, <1>3, <2>1, <2>2, ClimbStep
  <2>5. OnLadder(c)' /\ Outcome(c)'
    BY <1>3, <2>3, <2>4 DEF OnLadder, Outcome, ThreadRungs, DraftRungs, Same
  <2>6. Unloads(c)'
    BY <1>1, <1>2, <1>3, <1>5, <2>1, <2>3, <2>4 DEF Unloads, ThreadRungs, Same
  <2> QED
    BY <2>3, <2>4, <2>5, <2>6, RungStep
<1>6. ASSUME UNCHANGED <<loaded, turnsOf>>, NEW e \in (Unable(t) \ {"not loaded"}) \cup {"lost"}, FailRaw(c, e)
      PROVE  IInv'
  <2>1. e \in Errors /\ e # "not loaded" /\ e # "ok" /\ "INTERNAL_ERROR" \in Codes
    BY <1>6 DEF Unable, Errors, Codes
  <2>2. /\ OnlyThatCall(c) /\ Same(c) /\ call'[c].pc = "ended" /\ call'[c].reason = e
        /\ call'[c].code = "INTERNAL_ERROR" /\ Store
        /\ World(c) /\ turnsOf'[c] = <<>>
    BY <1>1, <1>3, <1>6, <2>1, FailStep, NothingRuns DEF FailRaw
  <2>3. OnLadder(c)' /\ Outcome(c)' /\ Unloads(c)'
    BY <2>1, <2>2 DEF OnLadder, Outcome, Unloads, ThreadRungs, DraftRungs
  <2> QED
    BY <2>2, <2>3, RungStep
<1> QED
  BY <1>2, <1>4, <1>5, <1>6 DEF ResumeThread

\* turn/start: refused (a step that climbs or fails), or run.
LEMMA TurnStartRefusedInv ==
    ASSUME IInv, NEW c \in Calls, NEW e \in Errors, TurnStartRefused(c, e), World(c),
           call[c].pc \in {"start", "start_again", "start_made", "start_generated"},
           \/ e \in {"busy", "lost", "not found"}
           \/ e = "not loaded" /\ loaded[call[c].thread] = "unloaded" ,
           e # "lost" => UNCHANGED <<loaded, turnsOf>>,
           e = "not found" => loaded[call[c].thread] = "absent",
           \/ turnsOf'[c] = <<>>
           \/ e = "lost" /\ turnsOf'[c] = <<call[c].thread>>
    PROVE  IInv'
<1>1. TypeOK /\ OnLadder(c) /\ Outcome(c) /\ Unloads(c)
  BY DEF IInv, Safe
<1>2. PICK t : t = call[c].thread
  OBVIOUS
<1>3. /\ turnsOf[c] = <<>> /\ call[c].reason = "none" /\ call[c].code = "none" /\ t \in AllThreads
      /\ IF call[c].target = Draft THEN t \in {Made(c), Generated(c)} ELSE t = call[c].target
      /\ call[c].pc \in {"start", "start_again"} => call[c].target \in Threads /\ call[c].target = t /\ call[c].target # Draft
      /\ call[c].pc \in {"start_made", "start_generated"} => call[c].target = Draft
  BY <1>1, <1>2, TurnStartAssumption DEF OnLadder, ThreadRungs, DraftRungs, AllThreads, NewThreads
<1>4. ASSUME call[c].pc = "start", Retryable(e), Climb(c, "start_resume", t) PROVE IInv'
  <2>1. e \in {"not loaded", "not found"} /\ "start_resume" \in Rungs
    BY <1>4 DEF Retryable, Rungs
  <2>2. /\ OnlyThatCall(c) /\ Same(c) /\ call'[c].pc = "start_resume" /\ call'[c].thread = t
        /\ call'[c].reason = "none" /\ call'[c].code = "none" /\ Store
    BY <1>1, <1>3, <1>4, <2>1, ClimbStep
  <2>3. turnsOf'[c] = <<>> /\ UNCHANGED loaded
    BY <1>3, <2>1
  <2>4. OnLadder(c)' /\ Outcome(c)'
    BY <1>3, <1>4, <2>2, <2>3 DEF OnLadder, Outcome, ThreadRungs, DraftRungs, Same
  <2>5. Unloads(c)'
    BY <1>1, <1>2, <1>3, <1>4, <2>1, <2>2, <2>3 DEF Unloads, ThreadRungs, Same
  <2> QED
    BY <2>2, <2>4, <2>5, RungStep
<1>5. ASSUME call[c].pc = "start_made", Recoverable(e), Climb(c, "start_generated", FallbackThread(c)) PROVE IInv'
  <2>1. turnsOf'[c] = <<>> /\ "start_generated" \in Rungs /\ Generated(c) \in AllThreads
    BY <1>3, <1>5 DEF Recoverable, Rungs, AllThreads, NewThreads
  <2>2. /\ OnlyThatCall(c) /\ Same(c) /\ call'[c].pc = "start_generated" /\ call'[c].thread = Generated(c)
        /\ call'[c].reason = "none" /\ call'[c].code = "none" /\ Store
    BY <1>1, <1>3, <1>5, <2>1, ClimbStep DEF FallbackThread
  <2>3. OnLadder(c)' /\ Outcome(c)' /\ Unloads(c)'
    BY <1>3, <1>5, <2>1, <2>2 DEF OnLadder, Outcome, Unloads, ThreadRungs, DraftRungs, Same
  <2> QED
    BY <2>2, <2>3, RungStep
<1>6. ASSUME NEW k \in Codes, Fail(c, e, k), k \in {"NOT_FOUND", "BUSY"} => e # "lost",
             e = "not loaded" => call[c].pc # "start"
      PROVE  IInv'
  <2>1. /\ OnlyThatCall(c) /\ Same(c) /\ call'[c].pc = "ended" /\ call'[c].reason = e /\ call'[c].code = k
        /\ Store /\ e # "ok"
    BY <1>1, <1>6, FailStep DEF Errors
  <2>2. turnsOf'[c] = <<>> \/ (turnsOf'[c] = <<t>> /\ k \notin {"NOT_FOUND", "BUSY"})
    BY <1>2, <1>6
  <2>3. OnLadder(c)'
    BY <2>1 DEF OnLadder, ThreadRungs, DraftRungs
  <2>4. Outcome(c)'
    BY <1>3, <2>1, <2>2 DEF Outcome, Same
  <2>5. Unloads(c)'
    BY <1>1, <1>2, <1>3, <1>6, <2>1 DEF Unloads, ThreadRungs, Same
  <2> QED
    BY <2>1, <2>3, <2>4, <2>5, RungStep
<1>7. /\ MapBackendError(e) \in Codes /\ "INTERNAL_ERROR" \in Codes
      /\ MapBackendError(e) \in {"NOT_FOUND", "BUSY"} => e # "lost"
  BY DEF MapBackendError, Codes
<1> QED
  BY <1>2, <1>4, <1>5, <1>6, <1>7 DEF TurnStartRefused, FailMapped, FailRaw, Retryable

LEMMA RequestTurnStartInv ==
    ASSUME IInv, NEW c \in Calls, RequestTurnStart(c)
    PROVE  IInv'
<1>1. TypeOK /\ OnLadder(c) /\ Outcome(c) /\ Unloads(c)
  BY DEF IInv, Safe
<1>2. PICK t : t = call[c].thread
  OBVIOUS
<1>3. call[c].pc \in {"start", "start_again", "start_made", "start_generated"}
  BY DEF RequestTurnStart
<1>4. /\ turnsOf[c] = <<>> /\ call[c].reason = "none" /\ call[c].code = "none" /\ t \in AllThreads
      /\ IF call[c].target = Draft THEN t \in {Made(c), Generated(c)} ELSE t = call[c].target
  BY <1>1, <1>2, <1>3, TurnStartAssumption DEF OnLadder, ThreadRungs, DraftRungs, AllThreads, NewThreads
<1>5. CASE WithoutSandbox(c)
  <2>1. /\ OnlyThatCall(c) /\ Same(c) /\ call'[c].pc = call[c].pc /\ call'[c].thread = t
        /\ call'[c].reason = "none" /\ call'[c].code = "none" /\ Store
        /\ UNCHANGED loaded /\ World(c) /\ turnsOf'[c] = <<>>
    BY <1>1, <1>2, <1>4, <1>5, WithoutSandboxStep, NothingRuns
  <2>2. OnLadder(c)' /\ Outcome(c)'
    BY <1>1, <1>2, <1>3, <2>1 DEF OnLadder, Outcome, ThreadRungs, DraftRungs, Same
  <2>3. Unloads(c)'
    BY <1>1, <1>2, <1>3, <2>1 DEF Unloads, ThreadRungs, Same
  <2> QED
    BY <2>1, <2>2, <2>3, RungStep
<1>6. ASSUME MayRun(t), Runs(c, t)
      PROVE  /\ World(c) /\ turnsOf'[c] = <<t>> /\ NextTurn(c) = TurnId(c, 1) /\ NextTurn(c) \in TurnIds
  <2>1. loaded[t] # "absent" \/ t \notin Threads
    BY <1>6, TurnStartAssumption DEF MayRun
  <2> QED
    BY <1>1, <1>4, <1>6, <2>1, TurnRuns
<1>7. CASE MayRun(t) /\ Runs(c, t) /\ Succeed(c, t, NextTurn(c))
  <2>1. PICK turn \in TurnIds : turn = NextTurn(c) /\ turn = TurnId(c, 1) /\ Succeed(c, t, turn)
    BY <1>6, <1>7
  <2>2. /\ OnlyThatCall(c) /\ Same(c) /\ call'[c].pc = "ended" /\ call'[c].reason = "ok" /\ call'[c].code = "none"
        /\ call'[c].thread = t /\ call'[c].turn = turn /\ turn \in turnRecords' /\ Store
    BY <1>1, <1>4, <2>1, SucceedStep
  <2>3. OnLadder(c)' /\ Outcome(c)' /\ Unloads(c)'
    BY <1>4, <1>6, <1>7, <2>1, <2>2 DEF OnLadder, Outcome, Unloads, ThreadRungs, DraftRungs, Same
  <2> QED
    BY <1>6, <1>7, <2>2, <2>3, RungStep
<1>8. CASE MayRun(t) /\ Runs(c, t) /\ TurnStartRefused(c, "lost")
  <2>1. "lost" \in Errors
    BY DEF Errors
  <2> QED
    BY <1>2, <1>3, <1>6, <1>8, <2>1, TurnStartRefusedInv
<1>9. ASSUME UNCHANGED <<loaded, turnsOf>>, NEW e \in Unable(t) \cup {"busy", "lost"}, TurnStartRefused(c, e)
      PROVE  IInv'
  <2>1. /\ e \in {"busy", "lost", "not found"} \/ (e = "not loaded" /\ loaded[t] = "unloaded")
        /\ e = "not found" => loaded[t] = "absent"
    BY <1>9 DEF Unable, Errors
  <2>2. World(c) /\ turnsOf'[c] = <<>>
    BY <1>1, <1>4, <1>9, NothingRuns
  <2>3. e \in Errors
    BY <1>9 DEF Unable, Errors
  <2> QED
    BY <1>2, <1>3, <1>9, <2>1, <2>2, <2>3, TurnStartRefusedInv
<1> QED
  BY <1>2, <1>5, <1>7, <1>8, <1>9 DEF RequestTurnStart

LEMMA ThreadStartInv ==
    ASSUME IInv, NEW c \in Calls, ThreadStart(c)
    PROVE  IInv'
<1> DEFINE t == Made(c)
           ThreadOnly == loaded' = [loaded EXCEPT ![t] = "loaded"] /\ UNCHANGED turnsOf
           Refused(e) == \/ Recoverable(e) /\ Climb(c, "start_generated", FallbackThread(c))
                         \/ ~Recoverable(e) /\ FailMapped(c, e)
<1>1. TypeOK /\ OnLadder(c) /\ Outcome(c) /\ Unloads(c)
  BY DEF IInv, Safe
<1>2. /\ call[c].pc = "thread_start" /\ call[c].target = Draft
      /\ turnsOf[c] = <<>> /\ call[c].reason = "none" /\ call[c].code = "none"
      /\ t \in AllThreads /\ t \notin Threads /\ Generated(c) \in AllThreads
  BY <1>1, TurnStartAssumption DEF ThreadStart, OnLadder, DraftRungs, AllThreads, NewThreads
<1>3. CASE WithoutSandbox(c)
  <2>1. /\ OnlyThatCall(c) /\ Same(c) /\ call'[c].pc = call[c].pc
        /\ call'[c].reason = "none" /\ call'[c].code = "none" /\ Store
        /\ World(c) /\ turnsOf'[c] = <<>>
    BY <1>1, <1>2, <1>3, WithoutSandboxStep, NothingRuns
  <2>2. OnLadder(c)' /\ Outcome(c)' /\ Unloads(c)'
    BY <1>2, <2>1 DEF OnLadder, Outcome, Unloads, ThreadRungs, DraftRungs, Same
  <2> QED
    BY <2>1, <2>2, RungStep
<1>4. ASSUME Runs(c, t)
      PROVE  /\ World(c) /\ turnsOf'[c] = <<t>> /\ NextTurn(c) = TurnId(c, 1) /\ NextTurn(c) \in TurnIds
  BY <1>1, <1>2, <1>4, TurnRuns
<1>5. CASE Runs(c, t) /\ Succeed(c, t, NextTurn(c))
  <2>1. PICK turn \in TurnIds : turn = TurnId(c, 1) /\ Succeed(c, t, turn)
    BY <1>4, <1>5
  <2>2. /\ OnlyThatCall(c) /\ Same(c) /\ call'[c].pc = "ended" /\ call'[c].reason = "ok" /\ call'[c].code = "none"
        /\ call'[c].thread = t /\ call'[c].turn = turn /\ turn \in turnRecords' /\ Store
    BY <1>1, <1>2, <2>1, SucceedStep
  <2>3. OnLadder(c)' /\ Outcome(c)' /\ Unloads(c)'
    BY <1>2, <1>4, <1>5, <2>1, <2>2 DEF OnLadder, Outcome, Unloads, ThreadRungs, DraftRungs, Same
  <2> QED
    BY <1>4, <1>5, <2>2, <2>3, RungStep
<1>6. CASE /\ Runs(c, t)
           /\ call' = [call EXCEPT ![c].pc = "resolve", ![c].turn = NextTurn(c)]
           /\ UNCHANGED <<turnRecords, activeTurnByThread>>
  <2>1. PICK turn \in TurnIds : turn = TurnId(c, 1) /\ call' = [call EXCEPT ![c].pc = "resolve", ![c].turn = turn]
    BY <1>4, <1>6
  <2> DEFINE f == [call EXCEPT ![c].pc = "resolve"]
             g == [f EXCEPT ![c].turn = turn]
  <2>2. call \in [Calls -> CallType] /\ "resolve" \in Rungs
    BY <1>1 DEF TypeOK, Rungs
  <2>3. call' = g
    BY <2>1, Zenon
  <2>4. f \in [Calls -> CallType]
    BY <2>2, FieldUpdate
  <2> HIDE DEF f
  <2>5. g \in [Calls -> CallType]
    BY <2>4, FieldUpdate
  <2>6. /\ \A d \in Calls \ {c} : call'[d] = call[d]
        /\ call'[c].pc = "resolve" /\ call'[c].turn = turn /\ Same(c)
        /\ call'[c].reason = call[c].reason /\ call'[c].code = call[c].code
    BY <2>1, <2>2, SMTT(20) DEF CallType, Same
  <2>7. OnlyThatCall(c) /\ Store
    BY <1>1, <1>6, <2>3, <2>5, <2>6 DEF OnlyThatCall, Store, TypeOK
  <2>8. OnLadder(c)' /\ Outcome(c)' /\ Unloads(c)'
    BY <1>2, <1>4, <1>6, <2>1, <2>6 DEF OnLadder, Outcome, Unloads, ThreadRungs, DraftRungs, Same
  <2> QED
    BY <1>4, <1>6, <2>7, <2>8, RungStep
<1>7. ASSUME ThreadOnly
      PROVE  World(c) /\ turnsOf'[c] = <<>>
  BY <1>1, <1>2, <1>7, ThreadLoads
<1>8. ASSUME NEW r \in {"start_made", "start_generated"}, Climb(c, r, IF r = "start_made" THEN t ELSE Generated(c)),
             World(c), turnsOf'[c] = <<>>
      PROVE  IInv'
  <2>1. PICK u \in AllThreads : u = (IF r = "start_made" THEN t ELSE Generated(c)) /\ Climb(c, r, u) /\ r \in Rungs
    BY <1>2, <1>8 DEF Rungs
  <2>2. /\ OnlyThatCall(c) /\ Same(c) /\ call'[c].pc = r /\ call'[c].thread = u
        /\ call'[c].reason = "none" /\ call'[c].code = "none" /\ Store
    BY <1>1, <1>2, <2>1, ClimbStep
  <2>3. OnLadder(c)' /\ Outcome(c)' /\ Unloads(c)'
    BY <1>2, <1>8, <2>1, <2>2 DEF OnLadder, Outcome, Unloads, ThreadRungs, DraftRungs, Same
  <2> QED
    BY <1>8, <2>2, <2>3, RungStep
<1>9. ASSUME NEW e \in {"no method", "busy", "lost"}, Refused(e), World(c),
             turnsOf'[c] = <<>> \/ (e = "lost" /\ turnsOf'[c] = <<t>>)
      PROVE  IInv'
  <2>1. CASE Recoverable(e) /\ Climb(c, "start_generated", FallbackThread(c))
    BY <1>8, <1>9, <2>1 DEF Recoverable, FallbackThread
  <2>2. CASE FailMapped(c, e)
    <3>1. PICK k \in Codes : Fail(c, e, k) /\ (k \in {"NOT_FOUND", "BUSY"} => e # "lost") /\ e \in Errors
      BY <1>9, <2>2 DEF FailMapped, MapBackendError, Codes, Errors
    <3>2. /\ OnlyThatCall(c) /\ Same(c) /\ call'[c].pc = "ended" /\ call'[c].reason = e /\ call'[c].code = k /\ Store
      BY <1>1, <3>1, FailStep
    <3>3. OnLadder(c)' /\ Outcome(c)' /\ Unloads(c)'
      BY <1>2, <1>9, <3>1, <3>2 DEF OnLadder, Outcome, Unloads, ThreadRungs, DraftRungs, Same
    <3> QED
      BY <1>9, <3>2, <3>3, RungStep
  <2> QED
    BY <1>9, <2>1, <2>2
<1>10. ASSUME UNCHANGED <<loaded, turnsOf>>
       PROVE  World(c) /\ turnsOf'[c] = <<>>
  BY <1>1, <1>2, <1>10, NothingRuns
<1>11. \/ WithoutSandbox(c)
       \/ Runs(c, t) /\ Succeed(c, t, NextTurn(c))
       \/ /\ Runs(c, t)
          /\ call' = [call EXCEPT ![c].pc = "resolve", ![c].turn = NextTurn(c)]
          /\ UNCHANGED <<turnRecords, activeTurnByThread>>
       \/ ThreadOnly /\ Climb(c, "start_made", t)
       \/ ThreadOnly /\ Climb(c, "start_generated", FallbackThread(c))
       \/ (Runs(c, t) \/ ThreadOnly) /\ Refused("lost")
       \/ /\ UNCHANGED <<loaded, turnsOf>>
          /\ \E e \in {"no method", "busy", "lost"} : Refused(e)
  BY DEF ThreadStart
<1> HIDE DEF t, ThreadOnly, Refused
<1>12. CASE ThreadOnly /\ Climb(c, "start_made", t)
  BY <1>7, <1>8, <1>12
<1>13. CASE ThreadOnly /\ Climb(c, "start_generated", FallbackThread(c))
  BY <1>7, <1>8, <1>13 DEF FallbackThread
<1>14. CASE (Runs(c, t) \/ ThreadOnly) /\ Refused("lost")
  BY <1>4, <1>7, <1>9, <1>14
<1>15. CASE UNCHANGED <<loaded, turnsOf>> /\ \E e \in {"no method", "busy", "lost"} : Refused(e)
  BY <1>9, <1>10, <1>15
<1> QED
  BY <1>3, <1>5, <1>6, <1>11, <1>12, <1>13, <1>14, <1>15

LEMMA ResolveInv ==
    ASSUME IInv, NEW c \in Calls, ResolveThreadIdFromTurnId(c)
    PROVE  IInv'
<1>1. TypeOK /\ OnLadder(c) /\ Outcome(c) /\ Unloads(c)
  BY DEF IInv, Safe
<1>2. PICK turn : turn = call[c].turn
  OBVIOUS
<1>3. /\ call[c].pc = "resolve" /\ call[c].target = Draft
      /\ call[c].reason = "none" /\ call[c].code = "none"
      /\ turnsOf[c] = <<Made(c)>> /\ turn = TurnId(c, 1) /\ turn \in TurnIds /\ Made(c) \in AllThreads
  BY <1>1, <1>2 DEF ResolveThreadIdFromTurnId, OnLadder, DraftRungs, TurnId, TurnIds, AllThreads, NewThreads
<1>4. World(c) /\ turnsOf'[c] = <<Made(c)>>
  BY <1>1, <1>3, NothingRuns DEF ResolveThreadIdFromTurnId
<1>5. ASSUME NEW t, Names(t, turn), Succeed(c, t, turn) PROVE IInv'
  <2>1. t = Made(c)
    BY <1>3, <1>5 DEF Names, TurnId
  <2>2. /\ OnlyThatCall(c) /\ Same(c) /\ call'[c].pc = "ended" /\ call'[c].reason = "ok" /\ call'[c].code = "none"
        /\ call'[c].thread = t /\ call'[c].turn = turn /\ turn \in turnRecords' /\ Store
    BY <1>1, <1>3, <1>5, <2>1, SucceedStep
  <2>3. OnLadder(c)' /\ Outcome(c)' /\ Unloads(c)'
    BY <1>3, <1>4, <2>1, <2>2 DEF OnLadder, Outcome, Unloads, ThreadRungs, DraftRungs, Same
  <2> QED
    BY <1>4, <2>2, <2>3, RungStep
<1>6. ASSUME NEW e \in Errors \cup {"unresolved"}, e \notin {"not loaded"},
             NEW k \in Codes \ {"NOT_FOUND", "BUSY"}, Fail(c, e, k)
      PROVE  IInv'
  <2>1. /\ OnlyThatCall(c) /\ Same(c) /\ call'[c].pc = "ended" /\ call'[c].reason = e /\ call'[c].code = k /\ Store
        /\ e # "ok"
    BY <1>1, <1>6, FailStep DEF Errors
  <2>2. OnLadder(c)' /\ Outcome(c)' /\ Unloads(c)'
    BY <1>3, <1>4, <1>6, <2>1 DEF OnLadder, Outcome, Unloads, ThreadRungs, DraftRungs, Same
  <2> QED
    BY <1>4, <2>1, <2>2, RungStep
<1>7. \/ \E t : Names(t, turn) /\ Succeed(c, t, turn)
      \/ Fail(c, "unresolved", "INVALID_STATE")
      \/ Fail(c, "lost", "INTERNAL_ERROR")
  BY <1>2 DEF ResolveThreadIdFromTurnId, FailRaw
<1> QED
  BY <1>5, <1>6, <1>7 DEF Errors, Codes

LEMMA UnloadInv ==
    ASSUME IInv, NEW t \in AllThreads, Unload(t)
    PROVE  IInv'
<1>1. TypeOK
  BY DEF IInv
<1> DEFINE met(c) == call[c].thread = t /\ call[c].pc \in Rungs
<1>2. /\ call' = [c \in Calls |-> IF c \in {d \in Calls : met(d)}
                                 THEN [call[c] EXCEPT !.unloads = call[c].unloads + 1] ELSE call[c]]
      /\ loaded[t] = "loaded" /\ loaded' = [loaded EXCEPT ![t] = "unloaded"]
      /\ UNCHANGED <<turnsOf, turnRecords, activeTurnByThread>>
  BY DEF Unload
<1>3. ASSUME NEW c \in Calls
      PROVE  /\ call'[c] \in CallType
             /\ call'[c].pc = call[c].pc /\ call'[c].target = call[c].target /\ call'[c].thread = call[c].thread
             /\ call'[c].turn = call[c].turn /\ call'[c].reason = call[c].reason /\ call'[c].code = call[c].code
             /\ call[c].unloads >= 1 => call'[c].unloads >= 1
             /\ call[c].unloads >= 2 => call'[c].unloads >= 2
             /\ met(c) => call'[c].unloads >= 1
             /\ met(c) /\ call[c].unloads >= 1 => call'[c].unloads >= 2
  <2>1. PICK k \in CallType : k = call[c]
    BY <1>1 DEF TypeOK
  <2>2. /\ k.unloads \in Nat /\ [k EXCEPT !.unloads = k.unloads + 1] \in CallType
        /\ \A v : LET r == [k EXCEPT !.unloads = v] IN
             /\ r.pc = k.pc /\ r.target = k.target /\ r.thread = k.thread /\ r.turn = k.turn
             /\ r.reason = k.reason /\ r.code = k.code /\ r.unloads = v
    BY <2>1, SMTT(20) DEF CallType
  <2>3. CASE met(c)
    <3>1. call'[c] = [k EXCEPT !.unloads = k.unloads + 1]
      BY <1>2, <2>1, <2>3
    <3> HIDE DEF met
    <3> QED
      BY <2>1, <2>2, <2>3, <3>1
  <2>4. CASE ~met(c)
    <3>1. call'[c] = k
      BY <1>2, <2>1, <2>4
    <3> HIDE DEF met
    <3> QED
      BY <2>1, <2>2, <2>4, <3>1
  <2> QED
    BY <2>3, <2>4
<1>4. call' \in [Calls -> CallType]
  BY <1>2, <1>3
<1>5. TypeOK'
  BY <1>1, <1>2, <1>4 DEF TypeOK
<1>6. ASSUME NEW c \in Calls PROVE OnLadder(c)' /\ Outcome(c)' /\ Unloads(c)'
  <2>1. OnLadder(c) /\ Outcome(c) /\ Unloads(c)
    BY DEF IInv, Safe
  <2>2. OnLadder(c)'
    BY <1>2, <1>3, <2>1 DEF OnLadder
  <2>3. Outcome(c)'
    BY <1>2, <1>3, <2>1 DEF Outcome
  <2>4. Unloads(c)'
    <3>1. ThreadRungs \subseteq Rungs
      BY DEF ThreadRungs, Rungs
    <3>2. \A u \in AllThreads \ {t} : loaded'[u] = loaded[u]
      BY <1>1, <1>2 DEF TypeOK
    <3>3. loaded'[t] = "unloaded" /\ loaded[t] = "loaded"
      BY <1>1, <1>2 DEF TypeOK
    <3>4. call[c].pc \in ThreadRungs => call[c].thread \in AllThreads
      BY <2>1 DEF OnLadder, AllThreads
    <3>5. CASE call[c].pc \in ThreadRungs /\ call[c].thread = t
      <4>1. met(c)
        BY <3>1, <3>5
      <4>2. /\ call'[c].unloads >= 1
            /\ call[c].unloads >= 1 => call'[c].unloads >= 2
            /\ call[c].unloads >= 2 => call'[c].unloads >= 2
        BY <1>3, <4>1
      <4>3. call[c].pc \in {"start_again", "read_again"} => call[c].unloads >= 1
        BY <2>1, <3>3, <3>5 DEF Unloads
      <4>4. call'[c].pc = call[c].pc /\ call'[c].target = call[c].target /\ call'[c].reason = call[c].reason
        BY <1>3
      <4> HIDE DEF met
      <4>5. /\ call'[c].pc \in {"read_again", "start_again"} => call'[c].unloads >= 2
            /\ call'[c].target # Draft /\ call'[c].reason = "not loaded" => call'[c].unloads >= 2
        BY <2>1, <4>2, <4>3, <4>4 DEF Unloads
      <4> QED
        BY <4>2, <4>5 DEF Unloads
    <3>6. CASE ~(call[c].pc \in ThreadRungs /\ call[c].thread = t)
      <4>1. call[c].pc \in ThreadRungs => loaded'[call[c].thread] = loaded[call[c].thread]
        BY <3>2, <3>4, <3>6
      <4>2. call[c].pc \in {"read_resume", "read_again", "start_resume", "start_again"} => call[c].pc \in ThreadRungs
        BY DEF ThreadRungs
      <4>3. /\ call'[c].pc = call[c].pc /\ call'[c].target = call[c].target /\ call'[c].reason = call[c].reason
            /\ call'[c].thread = call[c].thread
            /\ call[c].unloads >= 1 => call'[c].unloads >= 1
            /\ call[c].unloads >= 2 => call'[c].unloads >= 2
        BY <1>3
      <4> HIDE DEF met
      <4> QED
        BY <2>1, <4>1, <4>2, <4>3 DEF Unloads
    <3> QED
      BY <3>5, <3>6
  <2> QED
    BY <2>2, <2>3, <2>4
<1> QED
  BY <1>5, <1>6 DEF IInv, Safe

LEMMA DeleteInv ==
    ASSUME IInv, NEW t \in AllThreads, Delete(t)
    PROVE  IInv'
<1>1. /\ loaded' = [loaded EXCEPT ![t] = "absent"] /\ UNCHANGED <<call, turnsOf, turnRecords, activeTurnByThread>>
  BY DEF Delete
<1>2. TypeOK'
  BY <1>1 DEF IInv, TypeOK
<1>3. \A u \in AllThreads : loaded'[u] = loaded[u] \/ loaded'[u] = "absent"
  BY <1>1 DEF IInv, TypeOK
<1>4. ASSUME NEW c \in Calls PROVE OnLadder(c)' /\ Outcome(c)' /\ Unloads(c)'
  <2>1. OnLadder(c) /\ Outcome(c) /\ Unloads(c)
    BY DEF IInv, Safe
  <2>2. OnLadder(c)' /\ Outcome(c)'
    BY <1>1, <2>1 DEF OnLadder, Outcome
  <2>3. call[c].pc \in ThreadRungs => call[c].thread \in AllThreads
    BY <2>1 DEF OnLadder, AllThreads
  <2>4. call[c].pc \in {"read_resume", "read_again", "start_resume", "start_again"} => call[c].pc \in ThreadRungs
    BY DEF ThreadRungs
  <2>5. Unloads(c)'
    BY <1>1, <1>3, <2>1, <2>3, <2>4 DEF Unloads
  <2> QED
    BY <2>2, <2>5
<1> QED
  BY <1>2, <1>4 DEF IInv, Safe

-----------------------------------------------------------------------------
(* The theorems.                                                           *)

LEMMA InitInv == Init => IInv
<1> SUFFICES ASSUME Init PROVE IInv
  OBVIOUS
<1>1. TypeOK
  <2> DEFINE r == [pc |-> "idle", target |-> Draft, mode |-> "full-access", thread |-> None,
                   bare |-> FALSE, turn |-> None, reason |-> "none", code |-> "none", unloads |-> 0]
  <2>1. r \in CallType
    BY DEF CallType
  <2>2. call \in [Calls -> CallType]
    BY <2>1 DEF Init
  <2>3. turnsOf \in [Calls -> Seq(AllThreads)]
    <3>1. <<>> \in Seq(AllThreads)
      OBVIOUS
    <3> QED
      BY <3>1 DEF Init
  <2>4. /\ loaded \in [AllThreads -> {"absent", "unloaded", "loaded"}]
        /\ turnRecords \subseteq TurnIds
        /\ activeTurnByThread \in [AllThreads -> TurnIds \cup {None}]
    BY DEF Init
  <2> QED
    BY <2>2, <2>3, <2>4 DEF TypeOK
<1>2. ASSUME NEW c \in Calls PROVE OnLadder(c) /\ Outcome(c) /\ Unloads(c)
  BY DEF Init, OnLadder, Outcome, Unloads, ThreadRungs, DraftRungs
<1> QED
  BY <1>1, <1>2 DEF IInv, Safe

LEMMA NextInv == IInv /\ [Next]_vars => IInv'
<1> SUFFICES ASSUME IInv, [Next]_vars PROVE IInv'
  OBVIOUS
<1>1. CASE UNCHANGED vars
  BY <1>1 DEF vars, IInv, TypeOK, Safe, OnLadder, Outcome, Unloads
<1>2. CASE Next
  BY <1>2, StartTurnInv, ReadThreadInv, ResumeThreadInv, RequestTurnStartInv, ThreadStartInv,
     ResolveInv, UnloadInv, DeleteInv DEF Next
<1> QED
  BY <1>1, <1>2

THEOREM Inductive == Spec => []IInv
BY InitInv, NextInv, PTL DEF Spec

\* Every variable stays in its type: TypeOK.
THEOREM TypeCorrect == Spec => []TypeOK
<1>1. IInv => TypeOK
  BY DEF IInv
<1> QED
  BY <1>1, Inductive, PTL

\* However many calls and threads there are, however often threads are unloaded and
\* whatever is lost, a message starts at most one turn and the client is told the truth
\* about it: OneTurnPerCall.
THEOREM OneTurn == Spec => []OneTurnPerCall
<1>1. IInv => OneTurnPerCall
  <2> SUFFICES ASSUME IInv, NEW c \in Calls
               PROVE  /\ Len(turnsOf[c]) <= 1
                      /\ call[c].reason = "ok" =>
                            /\ turnsOf[c] = <<call[c].thread>>
                            /\ call[c].turn = TurnId(c, 1)
                            /\ call[c].turn \in turnRecords
                      /\ call[c].code \in {"NOT_FOUND", "BUSY"} => turnsOf[c] = <<>>
    BY DEF OneTurnPerCall
  <2>1. Outcome(c)
    BY DEF IInv, Safe
  <2>2. Len(turnsOf[c]) <= 1
    <3>1. turnsOf[c] = <<>> \/ \E t \in AllThreads : turnsOf[c] = <<t>>
      BY <2>1 DEF Outcome
    <3>2. CASE turnsOf[c] = <<>>
      BY <3>2
    <3>3. ASSUME NEW t \in AllThreads, turnsOf[c] = <<t>> PROVE Len(turnsOf[c]) <= 1
      BY <3>3
    <3> QED
      BY <3>1, <3>2, <3>3
  <2> QED
    BY <2>1, <2>2 DEF Outcome
<1> QED
  BY <1>1, Inductive, PTL

\* The message runs in its own thread or nowhere: StaysInThread.
THEOREM InThread == Spec => []StaysInThread
<1>1. IInv => StaysInThread
  <2> SUFFICES ASSUME IInv, NEW c \in Calls, NEW i \in 1..Len(turnsOf[c])
               PROVE  IF call[c].target = Draft
                      THEN turnsOf[c][i] \in {Made(c), Generated(c)}
                      ELSE turnsOf[c][i] = call[c].target
    BY DEF StaysInThread
  <2>1. Outcome(c)
    BY DEF IInv, Safe
  <2>2. PICK t \in AllThreads : turnsOf[c] = <<t>> /\ (IF call[c].target = Draft THEN t \in {Made(c), Generated(c)} ELSE t = call[c].target)
    BY <2>1 DEF Outcome
  <2>3. i = 1
    BY <2>2
  <2> QED
    BY <2>2, <2>3
<1> QED
  BY <1>1, Inductive, PTL

\* One moment out of memory never makes a call fail: UnloadedOnceIsNoFailure.
THEOREM UnloadedOnce == Spec => []UnloadedOnceIsNoFailure
<1>1. IInv => UnloadedOnceIsNoFailure
  BY DEF IInv, Safe, Unloads, UnloadedOnceIsNoFailure
<1> QED
  BY <1>1, Inductive, PTL
=============================================================================
