----------------------------- MODULE TurnStart -----------------------------
(***************************************************************************)
(* How the app-server backend gets a message of a client to the agent:     *)
(* startTurn of packages/bridge-vscode/src/appServerStore.ts with the      *)
(* requests it makes. A message for a thread climbs a ladder of rungs      *)
(* (read, resume, start, resume and start again); a message for a draft    *)
(* first tries thread/start, which runtimes answer in several ways, and    *)
(* else starts a turn under a thread id the bridge makes up. Most rungs    *)
(* first send the sandbox field and repeat the request without it when the *)
(* runtime refuses the field.                                              *)
(*                                                                         *)
(* A rung is one step: the app-server (external) handles the request and   *)
(* the call goes on with its answer. Between two rungs threads are         *)
(* unloaded or deleted by others and other calls run. A request can be     *)
(* lost, with or without having been carried out. Which turn is recorded   *)
(* against which notification is the subject of AppServerStore.            *)
(***************************************************************************)
EXTENDS Naturals, Sequences

CONSTANTS
    Calls,         \* the calls of startTurn that are explored
    Threads,       \* the threads the app-server has at first
    Draft,         \* a thread id with the draft prefix
    None,          \* no thread, no turn
    MaxUnloads     \* bound: how often a thread is unloaded under a call

\* The thread thread/start makes for a call, and the id requestTurnStartForNewThread
\* generates for it.
Made(c)      == <<"made", c>>

Generated(c) == <<"generated", c>>
NewThreads   == {Made(c) : c \in Calls} \cup {Generated(c) : c \in Calls}
AllThreads   == Threads \cup NewThreads

ASSUME TurnStartAssumption ==
    /\ Threads \cap NewThreads = {}
    /\ Draft \notin AllThreads
    /\ None \notin AllThreads
    /\ MaxUnloads \in Nat

VARIABLES
    call,                  \* each call: where it is and what it knows
    loaded,                \* the app-server: the state of each thread
    turnsOf,               \* the app-server: the threads in which a call started turns
    turnRecords,           \* the ids of the turns the store has a record of
    activeTurnByThread     \* the store's pointer of each thread

vars == <<call, loaded, turnsOf, turnRecords, activeTurnByThread>>

\* The n-th turn the app-server started for call c.
TurnId(c, n) == <<c, n>>
TurnIds == Calls \X Nat

Rungs == {"read", "read_resume", "read_again", "prepare", "start", "start_resume",
          "start_again", "thread_start", "start_made", "start_generated", "resolve"}
Errors == {"sandbox", "not loaded", "not found", "no method", "busy", "lost"}
Codes  == {"NOT_FOUND", "BUSY", "INVALID_STATE", "INTERNAL_ERROR"}

\* A call: its rung; the thread the client named and the access mode; the thread the
\* requests name; whether the sandbox field is left out; the turn it got; how it
\* ended (reason "ok" or the last error, code of the error response). unloads counts,
\* for the properties only, how often its thread was out of memory.
CallType ==
    [pc      : Rungs \cup {"idle", "ended"},
     target  : Threads \cup {Draft},
     mode    : {"full-access", "plan-only"},
     thread  : AllThreads \cup {None},
     bare    : BOOLEAN,
     turn    : TurnIds \cup {None},
     reason  : Errors \cup {"none", "ok", "unresolved"},
     code    : Codes \cup {"none"},
     unloads : Nat]

TypeOK ==
    /\ call \in [Calls -> CallType]
    /\ loaded \in [AllThreads -> {"absent", "unloaded", "loaded"}]
    /\ turnsOf \in [Calls -> Seq(AllThreads)]
    /\ turnRecords \subseteq TurnIds
    /\ activeTurnByThread \in [AllThreads -> TurnIds \cup {None}]

Init ==
    /\ call = [c \in Calls |->
          [pc |-> "idle", target |-> Draft, mode |-> "full-access", thread |-> None,
           bare |-> FALSE, turn |-> None, reason |-> "none", code |-> "none", unloads |-> 0]]
    /\ loaded \in {l \in [AllThreads -> {"absent", "unloaded", "loaded"}] :
                     \A t \in AllThreads : l[t] = "absent" <=> t \in NewThreads}
    /\ turnsOf = [c \in Calls |-> <<>>]
    /\ turnRecords = {}
    /\ activeTurnByThread = [t \in AllThreads |-> None]

-----------------------------------------------------------------------------
(* How a call goes on.                                                     *)

\* The next request is about thread t. resumeThread sends the sandbox field for full
\* access only; every other request that can carry it does so at first.
Climb(c, rung, t) ==
    /\ call' = [call EXCEPT ![c].pc = rung, ![c].thread = t,
                            ![c].bare = (rung = "start_resume" /\ call[c].mode = "plan-only")]
    /\ UNCHANGED <<turnRecords, activeTurnByThread>>

\* The runtime refused the sandbox field: the request is repeated without it.
WithoutSandbox(c) ==
    /\ ~call[c].bare
    /\ call' = [call EXCEPT ![c].bare = TRUE]
    /\ UNCHANGED <<loaded, turnsOf, turnRecords, activeTurnByThread>>

Fail(c, e, code) ==
    /\ call' = [call EXCEPT ![c].pc = "ended", ![c].reason = e, ![c].code = code]
    /\ UNCHANGED <<turnRecords, activeTurnByThread>>

MapBackendError(e) ==
    CASE e \in {"not loaded", "not found", "no method"} -> "NOT_FOUND"
      [] e = "busy" -> "BUSY"
      [] OTHER -> "INVALID_STATE"

\* An error mapBackendError has seen, and one that leaves startTurn as it came,
\* which the HTTP server answers with status 500.
FailMapped(c, e) == Fail(c, e, MapBackendError(e))
FailRaw(c, e)    == Fail(c, e, "INTERNAL_ERROR")

\* The turn is recorded and made the thread's active turn, and the client is told both.
Succeed(c, t, turn) ==
    /\ call' = [call EXCEPT ![c].pc = "ended", ![c].reason = "ok",
                            ![c].thread = t, ![c].turn = turn]
    /\ turnRecords' = turnRecords \cup {turn}
    /\ activeTurnByThread' = [activeTurnByThread EXCEPT ![t] = turn]

\* A bug: Resume only a thread the runtime does not know.
RetryableWhenUnknown(e) == e = "not found"

\* A bug: Fall back to a turn of its own whatever the error of thread/start.
RecoverableAlways(e) == TRUE

Retryable(e)   == e \in {"not loaded", "not found"}  \* isThreadNotLoadedError, isThreadNotFoundError
Recoverable(e) == e \in {"no method", "busy"}        \* isMethodNotFoundError, isBusyError

-----------------------------------------------------------------------------
(* The app-server: what it answers, and what it does.                      *)

\* Why a request about thread t is refused.
Unable(t) == CASE loaded[t] = "absent"   -> {"not found"}
               [] loaded[t] = "unloaded" -> {"not loaded"}
               [] OTHER -> {}

\* A turn starts in thread t: a loaded one, or one that the id itself makes.
MayRun(t) == loaded[t] = "loaded" \/ (loaded[t] = "absent" /\ t \in NewThreads)
Runs(c, t) ==
    /\ loaded' = [loaded EXCEPT ![t] = "loaded"]
    /\ turnsOf' = [turnsOf EXCEPT ![c] = Append(@, t)]

NextTurn(c) == TurnId(c, Len(turnsOf[c]) + 1)

\* thread/list shows a turn with its thread, for the threads whose turns it lists.
Names(t, turn) == turnsOf[turn[1]][turn[2]] = t

\* Another client, or the runtime itself, unloads or deletes a thread.
Unload(t) ==
    /\ loaded[t] = "loaded"
    /\ loaded' = [loaded EXCEPT ![t] = "unloaded"]
    /\ LET meets == {c \in Calls : call[c].thread = t /\ call[c].pc \in Rungs}
       IN  /\ \A c \in meets : call[c].unloads < MaxUnloads
           /\ call' = [c \in Calls |-> IF c \in meets
                                       THEN [call[c] EXCEPT !.unloads = @ + 1] ELSE call[c]]
    /\ UNCHANGED <<turnsOf, turnRecords, activeTurnByThread>>

Delete(t) ==
    /\ loaded[t] # "absent"
    /\ loaded' = [loaded EXCEPT ![t] = "absent"]
    /\ UNCHANGED <<call, turnsOf, turnRecords, activeTurnByThread>>

\* A bug: no thread id in the request, so the runtime takes a thread it has.
ThreadOfTheRuntime(c) == CHOOSE t \in Threads : TRUE

\* "a fresh threadId so app-server cannot bind to an implicit 'current' thread"
FallbackThread(c) == Generated(c)

-----------------------------------------------------------------------------
(* The rungs.                                                              *)

StartTurn(c, target, mode) ==
    /\ call[c].pc = "idle"
    /\ call' = [call EXCEPT
          ![c].pc = IF target = Draft THEN "thread_start" ELSE "read",
          ![c].target = target, ![c].mode = mode,
          ![c].thread = IF target = Draft THEN None ELSE target,
          ![c].unloads = IF target # Draft /\ loaded[target] = "unloaded" THEN 1 ELSE 0]
    /\ UNCHANGED <<loaded, turnsOf, turnRecords, activeTurnByThread>>

\* readThread. The runtime may read a stored thread without loading it. Only full
\* access resumes the thread before the turn (prepareThreadAccessMode).
ReadThread(c) ==
    LET t == call[c].thread IN
    /\ call[c].pc \in {"read", "read_again"}
    /\ UNCHANGED <<loaded, turnsOf>>
    /\ \/ /\ loaded[t] # "absent"
          /\ Climb(c, IF call[c].mode = "full-access" THEN "prepare" ELSE "start", t)
       \/ \E e \in Unable(t) \cup {"lost"} :
             \/ call[c].pc = "read" /\ e = "not loaded" /\ Climb(c, "read_resume", t)
             \/ call[c].pc = "read" /\ e # "not loaded" /\ FailMapped(c, e)
             \/ call[c].pc = "read_again" /\ FailRaw(c, e)

ResumeThread(c) ==
    LET t == call[c].thread IN
    /\ call[c].pc \in {"read_resume", "prepare", "start_resume"}
    /\ \/ WithoutSandbox(c)
       \/ /\ loaded[t] # "absent"
          /\ loaded' = [loaded EXCEPT ![t] = "loaded"]
          /\ UNCHANGED turnsOf
          /\ Climb(c, CASE call[c].pc = "read_resume" -> "read_again"
                        [] call[c].pc = "prepare" -> "start"
                        [] OTHER -> "start_again", t)
       \/ /\ UNCHANGED <<loaded, turnsOf>>
          /\ \E e \in (Unable(t) \ {"not loaded"}) \cup {"lost"} : FailRaw(c, e)

\* The app-server refused turn/start with e: what the call does depends on the rung.
TurnStartRefused(c, e) ==
    LET t == call[c].thread IN
    \/ call[c].pc = "start" /\ Retryable(e) /\ Climb(c, "start_resume", t)
    \/ call[c].pc = "start" /\ ~Retryable(e) /\ FailMapped(c, e)
    \/ call[c].pc = "start_again" /\ FailRaw(c, e)
    \/ call[c].pc = "start_made" /\ Recoverable(e) /\ Climb(c, "start_generated", FallbackThread(c))
    \/ call[c].pc = "start_made" /\ ~Recoverable(e) /\ FailMapped(c, e)
    \/ call[c].pc = "start_generated" /\ FailMapped(c, e)

RequestTurnStart(c) ==
    LET t == call[c].thread IN
    /\ call[c].pc \in {"start", "start_again", "start_made", "start_generated"}
    /\ \/ WithoutSandbox(c)
       \/ MayRun(t) /\ Runs(c, t) /\ Succeed(c, t, NextTurn(c))
       \/ MayRun(t) /\ Runs(c, t) /\ TurnStartRefused(c, "lost")
       \/ /\ UNCHANGED <<loaded, turnsOf>>
          /\ \E e \in Unable(t) \cup {"busy", "lost"} : TurnStartRefused(c, e)

\* thread/start. Runtimes answer with the thread, with the turn, with both or with
\* neither; an answer without a turn means that none was started.
ThreadStart(c) ==
    LET t == Made(c)
        ThreadOnly == /\ loaded' = [loaded EXCEPT ![t] = "loaded"]
                      /\ UNCHANGED turnsOf
        Refused(e) == \/ Recoverable(e) /\ Climb(c, "start_generated", FallbackThread(c))
                      \/ ~Recoverable(e) /\ FailMapped(c, e)
    IN  /\ call[c].pc = "thread_start"
        /\ \/ WithoutSandbox(c)
           \/ Runs(c, t) /\ Succeed(c, t, NextTurn(c))
           \/ /\ Runs(c, t)
              /\ call' = [call EXCEPT ![c].pc = "resolve", ![c].turn = NextTurn(c)]
              /\ UNCHANGED <<turnRecords, activeTurnByThread>>
           \/ ThreadOnly /\ Climb(c, "start_made", t)
           \/ ThreadOnly /\ Climb(c, "start_generated", FallbackThread(c))
           \/ (Runs(c, t) \/ ThreadOnly) /\ Refused("lost")
           \/ /\ UNCHANGED <<loaded, turnsOf>>
              /\ \E e \in {"no method", "busy", "lost"} : Refused(e)

\* resolveThreadIdFromTurnId: the first thread of the list that shows the turn. The
\* list is limited and need not show the turns of every thread.
ResolveThreadIdFromTurnId(c) ==
    LET turn == call[c].turn IN
    /\ call[c].pc = "resolve"
    /\ UNCHANGED <<loaded, turnsOf>>
    /\ \/ \E shown \in SUBSET {t \in AllThreads : loaded[t] # "absent"} :
             LET hits == {t \in shown : Names(t, turn)} IN
             \/ \E t \in hits : Succeed(c, t, turn)
             \/ hits = {} /\ Fail(c, "unresolved", "INVALID_STATE")
       \/ FailRaw(c, "lost")

Next ==
    \/ \E c \in Calls :
          \/ \E target \in Threads \cup {Draft}, mode \in {"full-access", "plan-only"} :
                StartTurn(c, target, mode)
          \/ ReadThread(c) \/ ResumeThread(c) \/ RequestTurnStart(c)
          \/ ThreadStart(c) \/ ResolveThreadIdFromTurnId(c)
    \/ \E t \in AllThreads : Unload(t) \/ Delete(t)

Spec == Init /\ [][Next]_vars

-----------------------------------------------------------------------------
(* Properties.                                                             *)

\* A message reaches the agent at most once, whatever was refused, lost or repeated on
\* the way; a client that is told of a turn is told the one its message started, in its
\* thread, and the store has its record; and after NOT_FOUND or BUSY the client may send
\* the message again, because it reached nobody.
OneTurnPerCall ==
    \A c \in Calls :
        /\ Len(turnsOf[c]) <= 1
        /\ call[c].reason = "ok" =>
              /\ turnsOf[c] = <<call[c].thread>>
              /\ call[c].turn = TurnId(c, 1)
              /\ call[c].turn \in turnRecords
        /\ call[c].code \in {"NOT_FOUND", "BUSY"} => turnsOf[c] = <<>>

\* "Do not silently switch thread IDs": a message for a thread runs in that thread or
\* nowhere, and the message of a draft never runs in, nor is reported in, a thread that
\* another conversation uses.
StaysInThread ==
    \A c \in Calls : \A i \in 1..Len(turnsOf[c]) :
        IF call[c].target = Draft
        THEN turnsOf[c][i] \in {Made(c), Generated(c)}
        ELSE turnsOf[c][i] = call[c].target

\* "If it is temporarily unloaded, readThread() handles a resume/read retry" and "one
\* explicit resume+retry": a thread that is out of memory once, before or during the
\* call, never makes the call fail. It takes a second time, between resume and retry.
UnloadedOnceIsNoFailure ==
    \A c \in Calls :
        call[c].target # Draft /\ call[c].reason = "not loaded" => call[c].unloads >= 2

\* What docs/TROUBLESHOOTING.md says of a stale thread id, refuted by TLC (README,
\* section 4): a new thread is forced, so no message fails with "thread not found".
StaleIdGetsNewThread ==
    \A c \in Calls : call[c].reason # "not found"

=============================================================================
