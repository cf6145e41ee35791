------------------------ MODULE AppServerStore_proofs ------------------------
(***************************************************************************)
(* Theorems about AppServerStore for any sets of threads, turns and        *)
(* approvals, any number of calls and either setting.                      *)
(***************************************************************************)
EXTENDS AppServerStore, SequenceTheorems, FiniteSetTheorems, TLAPS

-----------------------------------------------------------------------------
(* The invariant.                                                          *)

\* What goes to the app-server.
Message == Call \cup [op : {"answer"}, approval : Approval, decision : Answer]

Asking(i, a) == i \in DOMAIN toBridge /\ toBridge[i].type = "requestApproval" /\ toBridge[i].approval = a
Answering(i, a) == i \in DOMAIN toServer /\ toServer[i].op = "answer" /\ toServer[i].approval = a

\* Only a turn that has a record is interrupted, and no record goes away.
KnownInterrupts ==
    /\ \A i \in DOMAIN toServer : toServer[i].op = "interrupt" => Known(toServer[i].turn)
    /\ \A i \in DOMAIN toBridge :
          toBridge[i].type = "response" /\ toBridge[i].response.call.op = "interrupt"
              => Known(toBridge[i].response.call.turn)
    /\ \A r \in ready : r.call.op = "interrupt" => Known(r.call.turn)

\* An approval is asked for once, by a turn, and is new to the store until then.
AskedOnce ==
    \A a \in Approval :
        /\ \A i, j : Asking(i, a) /\ Asking(j, a) => i = j
        /\ approvalOf[a] = NoTurn => \A i : ~Asking(i, a)
        /\ approval[a] = "none" <=> approvalOf[a] = NoTurn \/ \E i : Asking(i, a)

\* Until it is decided it is not answered, from then on it is answered once, as it was
\* decided: by a message on its way or by the verdict.
AnsweredOnce ==
    \A a \in Approval :
        /\ a \in pendingApprovals <=> approval[a] = "pending"
        /\ approval[a] \in {"none", "pending"} => verdict[a] = "none" /\ \A i : ~Answering(i, a)
        /\ approval[a] \in {"approved", "denied"} =>
              IF verdict[a] = "none"
              THEN \E i : /\ Answering(i, a) /\ toServer[i].decision = Owed(a)
                          /\ \A j : Answering(j, a) => j = i
              ELSE verdict[a] = Owed(a) /\ \A i : ~Answering(i, a)

Inv == TypeOK /\ KnownInterrupts /\ AskedOnce /\ AnsweredOnce

-----------------------------------------------------------------------------
(* What is known of a message or a frame by its kind.                      *)

LEMMA CallFields ==
    ASSUME NEW c \in Call
    PROVE  /\ c.op \in {"start", "interrupt", "read", "list"}
           /\ c.op = "start" => c.thread \in Thread /\ c.mode \in AccessMode
           /\ c.op = "interrupt" => c.turn \in Turn
           /\ c.op = "read" => c.thread \in Thread
BY DEF Call

LEMMA CallsMade ==
    ASSUME NEW i \in 1..MaxCalls
    PROVE  /\ \A t \in Thread, m \in AccessMode : [op |-> "start", id |-> i, thread |-> t, mode |-> m] \in Call
           /\ \A u \in Turn : [op |-> "interrupt", id |-> i, turn |-> u] \in Call
           /\ \A t \in Thread : [op |-> "read", id |-> i, thread |-> t] \in Call
           /\ [op |-> "list", id |-> i] \in Call
BY DEF Call

LEMMA MessageFields ==
    ASSUME NEW m \in Message
    PROVE  /\ m.op = "answer" => m.approval \in Approval /\ m.decision \in Answer
           /\ m.op # "answer" => m \in Call
BY CallFields DEF Message

LEMMA FrameFields ==
    ASSUME NEW f \in Frame
    PROVE  /\ f.type = "response" => f.response \in Response
           /\ f.type = "turn/started" => f.turn \in Turn
           /\ f.type = "turn/completed" => f.turn \in Turn /\ f.status \in Outcome
           /\ f.type = "requestApproval" => f.approval \in Approval
BY DEF Frame

LEMMA FramesMade ==
    /\ \A r \in Response : [type |-> "response", response |-> r] \in Frame
    /\ \A u \in Turn : [type |-> "turn/started", turn |-> u] \in Frame
    /\ \A u \in Turn, s \in Outcome : [type |-> "turn/completed", turn |-> u, status |-> s] \in Frame
    /\ \A a \in Approval : [type |-> "requestApproval", approval |-> a] \in Frame
BY DEF Frame

LEMMA ResponseFields ==
    ASSUME NEW r \in Response
    PROVE  /\ r.call \in Call /\ r.turn \in Turn \cup {NoTurn} /\ r.raw \in RawTurns
           /\ r.hint \in [Thread -> Turn \cup {NoTurn}]
BY DEF Response

LEMMA ReplyMade ==
    ASSUME NEW c \in Call, NEW u \in Turn \cup {NoTurn}, NEW raw \in RawTurns,
           NEW h \in [Thread -> Turn \cup {NoTurn}]
    PROVE  /\ Reply(c, u, raw, h) \in Frame
           /\ Reply(c, u, raw, h).type = "response"
           /\ Reply(c, u, raw, h).response.call = c
<1>1. [call |-> c, turn |-> u, raw |-> raw, hint |-> h] \in Response
  BY DEF Response
<1> QED
  BY <1>1, FramesMade DEF Reply

-----------------------------------------------------------------------------
(* What a channel holds once its first element is taken, or one is added.  *)

LEMMA Taken ==
    ASSUME NEW S, NEW s \in Seq(S), s # <<>>
    PROVE  /\ Head(s) \in S /\ Tail(s) \in Seq(S)
           /\ 1 \in DOMAIN s /\ Head(s) = s[1]
           /\ \A i \in DOMAIN Tail(s) : i + 1 \in DOMAIN s /\ Tail(s)[i] = s[i + 1]
           /\ \A i \in DOMAIN s : i # 1 => i - 1 \in DOMAIN Tail(s) /\ Tail(s)[i - 1] = s[i]
<1>1. /\ Head(s) \in S /\ Tail(s) \in Seq(S) /\ Len(Tail(s)) = Len(s) - 1
      /\ \A i \in 1..Len(Tail(s)) : Tail(s)[i] = s[i + 1]
  BY HeadTailProperties
<1>2. DOMAIN s = 1..Len(s) /\ DOMAIN Tail(s) = 1..Len(Tail(s)) /\ Len(s) \in Nat /\ Len(s) # 0
  BY <1>1, LenProperties, EmptySeq
<1>3. Head(s) = s[1]
  OBVIOUS
<1> QED
  BY <1>1, <1>2, <1>3

LEMMA Added ==
    ASSUME NEW S, NEW s \in Seq(S), NEW e \in S
    PROVE  /\ Append(s, e) \in Seq(S)
           /\ \A i \in DOMAIN s : i \in DOMAIN Append(s, e) /\ Append(s, e)[i] = s[i]
           /\ \E n \in DOMAIN Append(s, e) :
                 /\ n \notin DOMAIN s /\ Append(s, e)[n] = e
                 /\ \A i \in DOMAIN Append(s, e) : i \in DOMAIN s \/ i = n
<1>1. /\ Append(s, e) \in Seq(S) /\ Len(Append(s, e)) = Len(s) + 1
      /\ \A i \in 1..Len(s) : Append(s, e)[i] = s[i]
      /\ Append(s, e)[Len(s) + 1] = e
  BY AppendProperties
<1>2. DOMAIN s = 1..Len(s) /\ DOMAIN Append(s, e) = 1..Len(Append(s, e)) /\ Len(s) \in Nat
  BY <1>1, LenProperties
<1> QED
  BY <1>1, <1>2

LEMMA TwoAdded ==
    ASSUME NEW S, NEW s \in Seq(S), NEW e \in S, NEW f \in S
    PROVE  s \o <<e, f>> = Append(Append(s, e), f)
OBVIOUS
-----------------------------------------------------------------------------
(* Steps that take or add something that is no request or no answer.       *)

LEMMA Constants ==
    NoTurn \notin Turn /\ MaxCalls \in Nat /\ FullAccessAutoApprove \in BOOLEAN
BY AppServerStoreAssumption

LEMMA ChannelTypes == TypeOK => toServer \in Seq(Message) /\ toBridge \in Seq(Frame)
BY DEF TypeOK, Message

LEMMA AskedKept ==
    ASSUME AskedOnce, UNCHANGED <<approvalOf, approval>>,
           \A a \in Approval : \A i : Asking(i, a)' <=> Asking(i, a)
    PROVE  AskedOnce'
BY Zenon DEF AskedOnce

LEMMA AskedStill == AskedOnce /\ UNCHANGED <<approvalOf, approval, toBridge>> => AskedOnce'
<1> SUFFICES ASSUME AskedOnce, UNCHANGED <<approvalOf, approval, toBridge>> PROVE AskedOnce'
  OBVIOUS
<1>1. \A a \in Approval : \A i : Asking(i, a)' <=> Asking(i, a)
  BY DEF Asking
<1> QED
  BY <1>1, AskedKept

LEMMA AskedAfterTaking ==
    ASSUME AskedOnce, UNCHANGED <<approvalOf, approval>>, toBridge \in Seq(Frame), toBridge # <<>>,
           toBridge' = Tail(toBridge), Head(toBridge).type # "requestApproval"
    PROVE  AskedOnce'
<1>1. \A a, i : Asking(i, a)' => i \in Int /\ Asking(i + 1, a)
  <2>1. DOMAIN toBridge' \subseteq Int
    BY Taken, LenProperties
  <2> QED
    BY <2>1, Taken, SMTT(20) DEF Asking
<1>2. \A a, i : Asking(i, a) => i \in Int /\ Asking(i - 1, a)'
  <2>1. DOMAIN toBridge \subseteq Int
    BY LenProperties
  <2> QED
    BY <2>1, Taken, SMTT(20) DEF Asking
<1> SUFFICES ASSUME NEW a \in Approval
             PROVE /\ \A i, j : Asking(i, a)' /\ Asking(j, a)' => i = j
                   /\ approvalOf[a] = NoTurn => \A i : ~Asking(i, a)'
                   /\ approval[a] = "none" <=> approvalOf[a] = NoTurn \/ \E i : Asking(i, a)'
  BY Zenon DEF AskedOnce
<1>3. \A i, j : Asking(i, a)' /\ Asking(j, a)' => i = j
  BY <1>1 DEF AskedOnce
<1>4. (\E i : Asking(i, a)') <=> \E i : Asking(i, a)
  BY <1>1, <1>2, Zenon
<1> QED
  BY <1>3, <1>4, Zenon DEF AskedOnce

LEMMA AskedAfterAdding ==
    ASSUME AskedOnce, UNCHANGED <<approvalOf, approval>>, toBridge \in Seq(Frame), NEW f \in Frame,
           toBridge' = Append(toBridge, f), f.type # "requestApproval"
    PROVE  AskedOnce'
<1>1. \A a \in Approval : \A i : Asking(i, a)' <=> Asking(i, a)
  BY Added DEF Asking
<1> QED
  BY <1>1, AskedKept

LEMMA AnsweredKept ==
    ASSUME AnsweredOnce, UNCHANGED <<approval, source, pendingApprovals, verdict>>,
           \A a \in Approval : \A i :
              /\ Answering(i, a)' <=> Answering(i, a)
              /\ Answering(i, a) => toServer'[i].decision = toServer[i].decision
    PROVE  AnsweredOnce'
<1>1. \A a \in Approval : Owed(a)' = Owed(a)
  BY DEF Owed
<1> QED
  BY <1>1, Zenon DEF AnsweredOnce

LEMMA AnsweredStill ==
    AnsweredOnce /\ UNCHANGED <<approval, source, pendingApprovals, verdict, toServer>> => AnsweredOnce'
<1> SUFFICES ASSUME AnsweredOnce, UNCHANGED <<approval, source, pendingApprovals, verdict, toServer>>
             PROVE  AnsweredOnce'
  OBVIOUS
<1>1. \A a \in Approval : \A i :
                             /\ Answering(i, a)' <=> Answering(i, a)
                             /\ Answering(i, a) => toServer'[i].decision = toServer[i].decision
  BY DEF Answering
<1> QED
  BY <1>1, AnsweredKept

LEMMA AnsweredAfterAdding ==
    ASSUME AnsweredOnce, UNCHANGED <<approval, source, pendingApprovals, verdict>>,
           toServer \in Seq(Message), NEW m \in Message, toServer' = Append(toServer, m), m.op # "answer"
    PROVE  AnsweredOnce'
<1>1. \A a \in Approval : \A i :
                             /\ Answering(i, a)' <=> Answering(i, a)
                             /\ Answering(i, a) => toServer'[i].decision = toServer[i].decision
  BY Added DEF Answering
<1> QED
  BY <1>1, AnsweredKept

LEMMA AnswersShift ==
    ASSUME toServer \in Seq(Message), toServer # <<>>, toServer' = Tail(toServer)
    PROVE  /\ \A a, i : Answering(i, a)' => i \in Int /\ Answering(i + 1, a)
                                            /\ toServer'[i].decision = toServer[i + 1].decision
           /\ \A a, i : Answering(i, a) /\ i # 1 => i \in Int /\ Answering(i - 1, a)'
                                            /\ toServer'[i - 1].decision = toServer[i].decision
<1>1. DOMAIN toServer \subseteq Int /\ DOMAIN toServer' \subseteq Int
  BY Taken, LenProperties
<1> QED
  BY <1>1, Taken, SMTT(20) DEF Answering

LEMMA AnsweredAfterTaking ==
    ASSUME AnsweredOnce, UNCHANGED <<approval, source, pendingApprovals, verdict>>,
           toServer \in Seq(Message), toServer # <<>>, toServer' = Tail(toServer),
           Head(toServer).op # "answer"
    PROVE  AnsweredOnce'
<1>1. \A a \in Approval : Owed(a)' = Owed(a)
  BY DEF Owed
<1>2. \A a, i : Answering(i, a) => i # 1
  BY Taken DEF Answering
<1> SUFFICES ASSUME NEW a \in Approval
             PROVE  /\ (\A i : ~Answering(i, a)) => \A i : ~Answering(i, a)'
                    /\ \A i : /\ Answering(i, a) /\ toServer[i].decision = Owed(a)
                              /\ \A j : Answering(j, a) => j = i
                          => /\ Answering(i - 1, a)' /\ toServer'[i - 1].decision = Owed(a)
                             /\ \A j : Answering(j, a)' => j = i - 1
  BY <1>1, Zenon DEF AnsweredOnce
<1>3. (\A i : ~Answering(i, a)) => \A i : ~Answering(i, a)'
  BY AnswersShift, Zenon
<1>4. ASSUME NEW i, Answering(i, a), toServer[i].decision = Owed(a), \A j : Answering(j, a) => j = i
      PROVE  /\ Answering(i - 1, a)' /\ toServer'[i - 1].decision = Owed(a)
             /\ \A j : Answering(j, a)' => j = i - 1
  <2>1. /\ i \in Int /\ Answering(i - 1, a)' /\ toServer'[i - 1].decision = Owed(a)
    BY <1>2, <1>4, AnswersShift
  <2>2. ASSUME NEW j, Answering(j, a)' PROVE j = i - 1
    <3>1. j \in Int /\ j + 1 = i
      BY <1>4, <2>2, AnswersShift
    <3> QED
      BY <3>1
  <2> QED
    BY <2>1, <2>2
<1> QED
  BY <1>3, <1>4
-----------------------------------------------------------------------------
(* Records stay, and with them what is known of interrupts.                *)

KnownStays == \A u \in Turn : Known(u) => Known(u)'

LEMMA StatusStays == UNCHANGED status => KnownStays
BY DEF KnownStays, Known

LEMMA InterruptsKept ==
    ASSUME TypeOK, KnownInterrupts, KnownStays,
           UNCHANGED <<toServer, toBridge>>, ready' \subseteq ready
    PROVE  KnownInterrupts'
<1>1. /\ \A i \in DOMAIN toServer : toServer[i] \in Message
      /\ \A i \in DOMAIN toBridge : toBridge[i] \in Frame
      /\ \A r \in ready : r \in Response
  BY ChannelTypes, ElementOfSeq, LenProperties DEF TypeOK
<1>2. \A m \in Message : m.op = "interrupt" => m.turn \in Turn
  BY MessageFields, CallFields
<1>3. \A r \in Response : r.call.op = "interrupt" => r.call.turn \in Turn
  BY ResponseFields, CallFields
<1>4. \A f \in Frame : f.type = "response" => f.response \in Response
  BY FrameFields
<1> QED
  BY <1>1, <1>2, <1>3, <1>4 DEF KnownInterrupts, KnownStays

\* The same if an interrupt of a known turn, or no interrupt, is added to a channel or
\* taken from it; the other variables are the ones of InterruptsKept.
InterruptsOf(ms) == \A i \in DOMAIN ms : ms[i].op = "interrupt" => Known(ms[i].turn)
Interrupted(f) == f.type = "response" /\ f.response.call.op = "interrupt" => Known(f.response.call.turn)

LEMMA InterruptsMove ==
    ASSUME TypeOK, KnownInterrupts, UNCHANGED <<status, ready>>,
           \/ UNCHANGED toServer
           \/ toServer # <<>> /\ toServer' = Tail(toServer)
           \/ \E m \in Message : toServer' = Append(toServer, m) /\ (m.op = "interrupt" => Known(m.turn)),
           \/ UNCHANGED toBridge
           \/ toBridge # <<>> /\ toBridge' = Tail(toBridge)
           \/ \E f \in Frame : toBridge' = Append(toBridge, f) /\ Interrupted(f)
    PROVE  KnownInterrupts'
<1>1. \A u : Known(u)' <=> Known(u)
  BY DEF Known
<1>2. toServer \in Seq(Message) /\ toBridge \in Seq(Frame)
  BY ChannelTypes
<1>3. \A i \in DOMAIN toServer' : toServer'[i].op = "interrupt" => Known(toServer'[i].turn)
  <2>1. CASE UNCHANGED toServer
    BY <2>1 DEF KnownInterrupts
  <2>2. CASE toServer # <<>> /\ toServer' = Tail(toServer)
    BY <1>2, <2>2, Taken DEF KnownInterrupts
  <2>3. ASSUME NEW m \in Message, toServer' = Append(toServer, m), m.op = "interrupt" => Known(m.turn)
        PROVE  \A i \in DOMAIN toServer' : toServer'[i].op = "interrupt" => Known(toServer'[i].turn)
    BY <1>2, <2>3, Added DEF KnownInterrupts
  <2> QED
    BY <2>1, <2>2, <2>3
<1>4. \A i \in DOMAIN toBridge' : Interrupted(toBridge'[i])
  <2>1. CASE UNCHANGED toBridge
    BY <2>1 DEF KnownInterrupts, Interrupted
  <2>2. CASE toBridge # <<>> /\ toBridge' = Tail(toBridge)
    BY <1>2, <2>2, Taken DEF KnownInterrupts, Interrupted
  <2>3. ASSUME NEW f \in Frame, toBridge' = Append(toBridge, f), Interrupted(f)
        PROVE  \A i \in DOMAIN toBridge' : Interrupted(toBridge'[i])
    BY <1>2, <2>3, Added DEF KnownInterrupts, Interrupted
  <2> QED
    BY <2>1, <2>2, <2>3
<1> QED
  BY <1>1, <1>3, <1>4 DEF KnownInterrupts, Interrupted

-----------------------------------------------------------------------------
(* The calls of the clients.                                               *)

LEMMA RequestInv ==
    ASSUME Inv, NEW c \in Call, c.op = "interrupt" => Known(c.turn), Request(c)
    PROVE  Inv'
<1>1. c \in Message /\ c.op # "answer"
  BY CallFields DEF Message
<1>2. toServer' = Append(toServer, c) /\ toServer \in Seq(Message)
  BY ChannelTypes DEF Inv, Request
<1>3. TypeOK'
  <2>1. toServer' \in Seq(Message)
    BY <1>1, <1>2, Added
  <2>2. calls' \in 0..MaxCalls
    BY Constants DEF Request, Inv, TypeOK
  <2> QED
    BY <2>1, <2>2 DEF Request, Inv, TypeOK, storeVars, serverVars, Message
<1>4. KnownInterrupts'
  BY <1>1, <1>2, InterruptsMove DEF Request, Inv, storeVars
<1>5. AskedOnce'
  BY AskedStill DEF Request, Inv, storeVars, serverVars
<1>6. AnsweredOnce'
  BY <1>1, <1>2, AnsweredAfterAdding DEF Request, Inv, storeVars, serverVars
<1> QED
  BY <1>3, <1>4, <1>5, <1>6 DEF Inv

LEMMA ClientCalls ==
    ASSUME Inv,
           \/ \E t \in Thread, m \in AccessMode : StartTurn(t, m)
           \/ \E u \in Turn : InterruptTurn(u)
           \/ \E t \in Thread : GetThread(t)
           \/ ListThreads
    PROVE  Inv'
<1>1. ASSUME NEW c, Request(c) PROVE calls + 1 \in 1..MaxCalls
  BY <1>1, Constants DEF Request, Inv, TypeOK
<1>2. ASSUME NEW t \in Thread, NEW m \in AccessMode, StartTurn(t, m) PROVE Inv'
  <2> DEFINE c == [op |-> "start", id |-> calls + 1, thread |-> t, mode |-> m]
  <2>1. Request(c) /\ c.op = "start"
    BY <1>2 DEF StartTurn
  <2> QED
    BY <2>1, <1>1, CallsMade, RequestInv
<1>3. ASSUME NEW u \in Turn, InterruptTurn(u) PROVE Inv'
  <2> DEFINE c == [op |-> "interrupt", id |-> calls + 1, turn |-> u]
  <2>1. Request(c) /\ c.turn = u /\ Known(u)
    BY <1>3 DEF InterruptTurn
  <2> QED
    BY <2>1, <1>1, CallsMade, RequestInv
<1>4. ASSUME NEW t \in Thread, GetThread(t) PROVE Inv'
  <2> DEFINE c == [op |-> "read", id |-> calls + 1, thread |-> t]
  <2>1. Request(c) /\ c.op = "read"
    BY <1>4 DEF GetThread
  <2> QED
    BY <2>1, <1>1, CallsMade, RequestInv
<1>5. ListThreads => Inv'
  <2> DEFINE c == [op |-> "list", id |-> calls + 1]
  <2> SUFFICES ASSUME ListThreads PROVE Inv'
    OBVIOUS
  <2>1. Request(c) /\ c.op = "list"
    BY DEF ListThreads
  <2> QED
    BY <2>1, <1>1, CallsMade, RequestInv
<1> QED
  BY <1>2, <1>3, <1>4, <1>5
-----------------------------------------------------------------------------
(* An approval is answered: by the user, or for them.                      *)

LEMMA GivenAnswer ==
    ASSUME TypeOK, AnsweredOnce, NEW a \in Approval, NEW d \in Answer, SendAnswer(a, d),
           NEW k \in {"approved", "denied"}, NEW s \in {"user", "session-auto"},
           approval[a] \in {"none", "pending"}, approval' = [approval EXCEPT ![a] = k],
           source' = [source EXCEPT ![a] = s],
           pendingApprovals' = pendingApprovals \ {a}, UNCHANGED verdict,
           d = IF k = "denied" THEN "decline" ELSE IF s = "user" THEN "accept" ELSE "acceptForSession"
    PROVE  AnsweredOnce'
<1> DEFINE m == [op |-> "answer", approval |-> a, decision |-> d]
<1>1. toServer \in Seq(Message) /\ m \in Message /\ toServer' = Append(toServer, m)
  BY ChannelTypes DEF SendAnswer, Message
<1>2. /\ m.op = "answer" /\ m.approval = a /\ m.decision = d
  OBVIOUS
<1> HIDE DEF m
<1>3. PICK n : /\ n \in DOMAIN toServer' /\ n \notin DOMAIN toServer /\ toServer'[n] = m
               /\ \A i \in DOMAIN toServer' : i \in DOMAIN toServer \/ i = n
               /\ \A i \in DOMAIN toServer : i \in DOMAIN toServer' /\ toServer'[i] = toServer[i]
  BY <1>1, Added
<1>4. /\ approval'[a] = k /\ source'[a] = s
      /\ \A b \in Approval \ {a} : approval'[b] = approval[b] /\ source'[b] = source[b]
  BY DEF TypeOK
<1>5. Owed(a)' = d
  BY <1>4 DEF Owed
<1>6. \A b \in Approval \ {a} : Owed(b)' = Owed(b)
  BY <1>4 DEF Owed
<1>7. \A b, i : b # a => /\ Answering(i, b)' <=> Answering(i, b)
                         /\ Answering(i, b) => toServer'[i] = toServer[i]
  BY <1>2, <1>3 DEF Answering
<1>8. /\ Answering(n, a)' /\ toServer'[n].decision = d
      /\ \A i : Answering(i, a)' => i = n
      /\ verdict[a] = "none"
  BY <1>2, <1>3 DEF Answering, AnsweredOnce
<1> SUFFICES ASSUME NEW b \in Approval
             PROVE /\ b \in pendingApprovals' <=> approval'[b] = "pending"
                   /\ approval'[b] \in {"none", "pending"} => verdict'[b] = "none" /\ \A i : ~Answering(i, b)'
                   /\ approval'[b] \in {"approved", "denied"} =>
                         IF verdict'[b] = "none"
                         THEN \E i : /\ Answering(i, b)' /\ toServer'[i].decision = Owed(b)'
                                     /\ \A j : Answering(j, b)' => j = i
                         ELSE verdict'[b] = Owed(b)' /\ \A i : ~Answering(i, b)'
  BY Zenon DEF AnsweredOnce
<1>9. CASE b = a
  BY <1>4, <1>5, <1>8, <1>9
<1>10. CASE b # a
  BY <1>4, <1>6, <1>7, <1>10 DEF AnsweredOnce
<1> QED
  BY <1>9, <1>10

\* A request that is decided, or decided at once, changes no other approval, and was
\* new or waiting.
LEMMA AskedAnswered ==
    ASSUME TypeOK, AskedOnce, UNCHANGED <<approvalOf, toBridge>>, NEW a \in Approval,
           NEW k \in {"pending", "approved", "denied"}, approval[a] # "none",
           approval' = [approval EXCEPT ![a] = k]
    PROVE  AskedOnce'
<1>1. \A b \in Approval : approval'[b] = "none" <=> approval[b] = "none"
  BY DEF TypeOK
<1>2. \A b, i : Asking(i, b)' <=> Asking(i, b)
  BY DEF Asking
<1> QED
  BY <1>1, <1>2, Zenon DEF AskedOnce

LEMMA AnswerInterrupts ==
    ASSUME TypeOK, KnownInterrupts, KnownStays, UNCHANGED ready,
           NEW a \in Approval, NEW d \in Answer, SendAnswer(a, d),
           UNCHANGED toBridge \/ (toBridge # <<>> /\ toBridge' = Tail(toBridge))
    PROVE  KnownInterrupts'
<1> DEFINE m == [op |-> "answer", approval |-> a, decision |-> d]
<1>1. /\ toServer \in Seq(Message) /\ toBridge \in Seq(Frame)
      /\ m \in Message /\ toServer' = Append(toServer, m) /\ m.op # "interrupt"
  BY ChannelTypes DEF SendAnswer, Message
<1> HIDE DEF m
<1>2. /\ \A i \in DOMAIN toServer : toServer[i].op = "interrupt" => toServer[i].turn \in Turn
      /\ \A f \in Frame : Interrupted(f) => Interrupted(f)'
      /\ \A r \in ready : r.call.op = "interrupt" => r.call.turn \in Turn
      /\ \A i \in DOMAIN toBridge : toBridge[i] \in Frame
  <2>1. \A i \in DOMAIN toServer : toServer[i] \in Message
    BY <1>1, ElementOfSeq, LenProperties
  <2>2. \A i \in DOMAIN toBridge : toBridge[i] \in Frame
    BY <1>1, ElementOfSeq, LenProperties
  <2>3. \A r \in ready : r \in Response
    BY DEF TypeOK
  <2>4. \A r \in Response : r.call.op = "interrupt" => r.call.turn \in Turn
    BY ResponseFields, CallFields
  <2>5. \A f \in Frame : f.type = "response" => f.response \in Response
    BY FrameFields
  <2>6. \A x \in Message : x.op = "interrupt" => x.turn \in Turn
    BY MessageFields, CallFields
  <2> QED
    BY <2>1, <2>2, <2>3, <2>4, <2>5, <2>6 DEF Interrupted, KnownStays
<1>3. (\A i \in DOMAIN toServer : toServer[i].op = "interrupt" => Known(toServer[i].turn))'
  BY <1>1, <1>2, Added DEF KnownInterrupts, KnownStays, Known
<1>4. (\A i \in DOMAIN toBridge : Interrupted(toBridge[i]))'
  <2>0. \A i \in DOMAIN toBridge : Interrupted(toBridge[i])
    BY DEF KnownInterrupts, Interrupted
  <2>1. ASSUME NEW i \in DOMAIN toBridge, NEW f, f = toBridge[i] PROVE Interrupted(f)'
    <3>1. f \in Frame /\ Interrupted(f)
      BY <1>2, <2>0, <2>1 DEF Interrupted
    <3> QED
      BY <1>2, <3>1
  <2>2. \A i \in DOMAIN toBridge' : \E j \in DOMAIN toBridge : toBridge'[i] = toBridge[j]
    <3>1. toBridge # <<>> /\ toBridge' = Tail(toBridge)
              => \A i \in DOMAIN toBridge' : i + 1 \in DOMAIN toBridge /\ toBridge'[i] = toBridge[i + 1]
      BY <1>1, Taken
    <3> QED
      BY <3>1, Zenon
  <2> QED
    BY <2>1, <2>2 DEF Interrupted
<1>5. (\A r \in ready : r.call.op = "interrupt" => Known(r.call.turn))'
  BY <1>2 DEF KnownInterrupts, KnownStays, Known
<1> QED
  BY <1>3, <1>4, <1>5 DEF KnownInterrupts, Interrupted

LEMMA DecideApprovalInv ==
    ASSUME Inv, NEW a \in Approval, NEW d \in {"approved", "denied"}, DecideApproval(a, d)
    PROVE  Inv'
<1> DEFINE u == approvalOf[a]
           ans == IF d = "approved" THEN "accept" ELSE "decline"
<1>1. /\ TypeOK /\ a \in pendingApprovals /\ approval[a] = "pending"
      /\ SendAnswer(a, ans) /\ ans \in Answer
      /\ pendingApprovals' = pendingApprovals \ {a}
      /\ approval' = [approval EXCEPT ![a] = d]
      /\ source' = [source EXCEPT ![a] = "user"]
      /\ UNCHANGED <<mode, activeTurnByThread, ready, calls, serverVars, toBridge>>
  BY DEF DecideApproval, Decidable, Inv, Answer
<1>2. \/ status' = [status EXCEPT ![u] = "running"] /\ status[u] # "absent"
      \/ status' = status
  BY DEF DecideApproval
<1>3. /\ status' \in [Turn -> {"absent"} \cup Active \cup Outcome]
      /\ \A v \in Turn : status'[v] = "absent" <=> status[v] = "absent"
  BY <1>1, <1>2 DEF TypeOK, Active
<1>4. TypeOK'
  <2>1. toServer' \in Seq(Message)
    BY <1>1, ChannelTypes, Added DEF SendAnswer, Message
  <2> QED
    BY <1>1, <1>3, <2>1 DEF TypeOK, serverVars, Message
<1>5. KnownStays
  BY <1>3 DEF KnownStays, Known
<1>6. KnownInterrupts'
  BY <1>1, <1>5, AnswerInterrupts DEF Inv
<1>7. AskedOnce'
  BY <1>1, AskedAnswered DEF Inv, serverVars
<1>8. AnsweredOnce'
  BY <1>1, GivenAnswer DEF Inv, serverVars
<1> QED
  BY <1>4, <1>6, <1>7, <1>8 DEF Inv
-----------------------------------------------------------------------------
(* The frames.                                                             *)

LEMMA HandledFrame ==
    ASSUME TypeOK, NEW k, Handle(k)
    PROVE  /\ toBridge \in Seq(Frame) /\ toBridge # <<>> /\ toBridge' = Tail(toBridge)
           /\ Head(toBridge) \in Frame /\ Head(toBridge).type = k
           /\ toBridge' \in Seq(Frame)
           /\ 1 \in DOMAIN toBridge /\ Head(toBridge) = toBridge[1]
BY ChannelTypes, Taken DEF Handle

LEMMA ReceiveResponseInv == Inv /\ ReceiveResponse => Inv'
<1> SUFFICES ASSUME Inv, ReceiveResponse PROVE Inv'
  OBVIOUS
<1> DEFINE r == Head(toBridge).response
<1>1. /\ toBridge \in Seq(Frame) /\ toBridge # <<>> /\ toBridge' = Tail(toBridge)
      /\ Head(toBridge) \in Frame /\ Head(toBridge).type = "response"
      /\ toBridge' \in Seq(Frame)
      /\ 1 \in DOMAIN toBridge /\ Head(toBridge) = toBridge[1]
  BY HandledFrame DEF ReceiveResponse, Inv
<1>2. r \in Response /\ (r.call.op = "interrupt" => Known(r.call.turn))
  BY <1>1, FrameFields DEF Inv, KnownInterrupts
<1>3. /\ ready' = ready \cup {r} /\ UNCHANGED <<storeVars, calls, serverVars, toServer>>
  BY DEF ReceiveResponse
<1> HIDE DEF r
<1>4. TypeOK'
  BY <1>1, <1>2, <1>3 DEF Inv, TypeOK, storeVars, serverVars
<1>5. KnownInterrupts'
  <2>1. \A u : Known(u)' <=> Known(u)
    BY <1>3 DEF Known, storeVars
  <2>2. \A i \in DOMAIN toBridge' : \E j \in DOMAIN toBridge : toBridge'[i] = toBridge[j]
    <3>1. \A i \in DOMAIN toBridge' : i + 1 \in DOMAIN toBridge /\ toBridge'[i] = toBridge[i + 1]
      BY <1>1, Taken
    <3> QED
      BY <3>1, Zenon
  <2> QED
    BY <1>2, <1>3, <2>1, <2>2 DEF Inv, KnownInterrupts
<1>6. AskedOnce'
  BY <1>1, <1>3, AskedAfterTaking DEF Inv, storeVars, serverVars
<1>7. AnsweredOnce'
  BY <1>3, AnsweredStill DEF Inv, storeVars, serverVars
<1> QED
  BY <1>4, <1>5, <1>6, <1>7 DEF Inv

LEMMA EnsuredType ==
    ASSUME TypeOK, NEW u \in Turn
    PROVE  /\ Ensured(u) \in [Turn -> {"none"} \cup AccessMode] /\ Ensured(u)[u] # "none"
           /\ \A v \in Turn \ {u} : Ensured(u)[v] = mode[v]
BY DEF TypeOK, Ensured, Known, AccessMode

LEMMA InterruptsAfterFrame ==
    ASSUME TypeOK, KnownInterrupts, KnownStays, UNCHANGED <<ready, toServer>>,
           toBridge # <<>>, toBridge' = Tail(toBridge)
    PROVE  KnownInterrupts'
<1>1. /\ \A i \in DOMAIN toServer : toServer[i] \in Message
      /\ \A i \in DOMAIN toBridge : toBridge[i] \in Frame
      /\ \A r \in ready : r \in Response
  BY ChannelTypes, ElementOfSeq, LenProperties DEF TypeOK
<1>2. \A m \in Message : m.op = "interrupt" => m.turn \in Turn
  BY MessageFields, CallFields
<1>3. \A r \in Response : r.call.op = "interrupt" => r.call.turn \in Turn
  BY ResponseFields, CallFields
<1>4. \A f \in Frame : f.type = "response" => f.response \in Response
  BY FrameFields
<1>5. \A i \in DOMAIN toBridge' : \E j \in DOMAIN toBridge : toBridge'[i] = toBridge[j]
  <2>1. \A i \in DOMAIN toBridge' : i + 1 \in DOMAIN toBridge /\ toBridge'[i] = toBridge[i + 1]
    BY ChannelTypes, Taken
  <2> QED
    BY <2>1, Zenon
<1> QED
  BY <1>1, <1>2, <1>3, <1>4, <1>5 DEF KnownInterrupts, KnownStays

\* turn/started and turn/completed: a record, and the pointer of its thread.
LEMMA TurnFrameInv ==
    ASSUME Inv, NEW k \in {"turn/started", "turn/completed"}, Handle(k), NEW u \in Turn,
           NEW s \in Active \cup Outcome, NEW p \in Turn \cup {NoTurn},
           mode' = Ensured(u), status' = [status EXCEPT ![u] = s],
           activeTurnByThread' = [activeTurnByThread EXCEPT ![threadOf[u]] = p],
           UNCHANGED <<approval, source, pendingApprovals, ready, calls, serverVars, toServer>>
    PROVE  Inv'
<1>1. /\ toBridge \in Seq(Frame) /\ toBridge # <<>> /\ toBridge' = Tail(toBridge)
      /\ toBridge' \in Seq(Frame) /\ Head(toBridge).type # "requestApproval"
  BY HandledFrame DEF Inv
<1>2. /\ status' \in [Turn -> {"absent"} \cup Active \cup Outcome]
      /\ \A v \in Turn : mode'[v] = "none" <=> status'[v] = "absent"
  BY EnsuredType DEF Inv, TypeOK, Active, Outcome
<1>3. TypeOK'
  BY <1>1, <1>2, EnsuredType DEF Inv, TypeOK, serverVars
<1>4. KnownStays
  BY DEF KnownStays, Known, Inv, TypeOK, Active, Outcome
<1>5. KnownInterrupts'
  BY <1>1, <1>4, InterruptsAfterFrame DEF Inv
<1>6. AskedOnce'
  BY <1>1, AskedAfterTaking DEF Inv, serverVars
<1>7. AnsweredOnce'
  BY AnsweredStill DEF Inv, serverVars
<1> QED
  BY <1>3, <1>5, <1>6, <1>7 DEF Inv

LEMMA TurnStartedInv == Inv /\ TurnStarted => Inv'
<1> SUFFICES ASSUME Inv, TurnStarted PROVE Inv'
  OBVIOUS
<1> DEFINE u == Head(toBridge).turn
<1>1. Handle("turn/started") /\ u \in Turn
  BY HandledFrame, FrameFields DEF TurnStarted, Inv
<1> QED
  BY <1>1, TurnFrameInv DEF TurnStarted, Active

LEMMA TurnCompletedInv == Inv /\ TurnCompleted => Inv'
<1> SUFFICES ASSUME Inv, TurnCompleted PROVE Inv'
  OBVIOUS
<1> DEFINE u == Head(toBridge).turn
           s == Head(toBridge).status
<1>1. Handle("turn/completed") /\ u \in Turn /\ s \in Active \cup Outcome
  BY HandledFrame, FrameFields DEF TurnCompleted, Inv
<1> QED
  BY <1>1, TurnFrameInv DEF TurnCompleted
LEMMA AskedArrives ==
    ASSUME TypeOK, AskedOnce, UNCHANGED approvalOf, NEW a \in Approval, Asking(1, a),
           toBridge # <<>>, toBridge' = Tail(toBridge),
           NEW k \in {"pending", "approved"}, approval' = [approval EXCEPT ![a] = k]
    PROVE  AskedOnce'
<1>1. \A b, i : Asking(i, b)' => i \in Nat \ {0} /\ Asking(i + 1, b)
  <2>1. DOMAIN toBridge' \subseteq Nat \ {0}
    BY ChannelTypes, Taken, LenProperties
  <2> QED
    BY <2>1, ChannelTypes, Taken, SMTT(20) DEF Asking
<1>2. \A b, i : Asking(i, b) /\ i # 1 => i \in Int /\ Asking(i - 1, b)'
  <2>1. DOMAIN toBridge \subseteq Int
    BY ChannelTypes, LenProperties
  <2> QED
    BY <2>1, ChannelTypes, Taken, SMTT(20) DEF Asking
<1>3. \A i : ~Asking(i, a)'
  <2>1. ASSUME NEW i, Asking(i, a)' PROVE FALSE
    <3>1. i \in Nat \ {0} /\ i + 1 = 1
      BY <1>1, <2>1 DEF AskedOnce
    <3> QED
      BY <3>1
  <2> QED
    BY <2>1
<1>4. approval'[a] # "none" /\ \A b \in Approval \ {a} : approval'[b] = approval[b]
  BY DEF TypeOK
<1>5. approvalOf[a] # NoTurn
  BY DEF AskedOnce
<1> SUFFICES ASSUME NEW b \in Approval
             PROVE /\ \A i, j : Asking(i, b)' /\ Asking(j, b)' => i = j
                   /\ approvalOf[b] = NoTurn => \A i : ~Asking(i, b)'
                   /\ approval'[b] = "none" <=> approvalOf[b] = NoTurn \/ \E i : Asking(i, b)'
  BY Zenon DEF AskedOnce
<1>6. CASE b = a
  BY <1>3, <1>4, <1>5, <1>6
<1>7. CASE b # a
  <2>1. \A i, j : Asking(i, b)' /\ Asking(j, b)' => i = j
    BY <1>1 DEF AskedOnce
  <2>2. ASSUME NEW i, Asking(i, b) PROVE \E j : Asking(j, b)'
    <3>1. i # 1
      BY <1>7, <2>2 DEF Asking
    <3> QED
      BY <1>2, <2>2, <3>1, Zenon
  <2>3. (\E i : Asking(i, b)') <=> \E i : Asking(i, b)
    BY <1>1, <2>2, Zenon
  <2> QED
    BY <1>4, <1>7, <2>1, <2>3 DEF AskedOnce
<1> QED
  BY <1>6, <1>7

LEMMA ApprovalRequestedInv == Inv /\ ApprovalRequested => Inv'
<1> SUFFICES ASSUME Inv, ApprovalRequested PROVE Inv'
  OBVIOUS
<1> DEFINE a == Head(toBridge).approval
           u == approvalOf[a]
           auto == Ensured(u)[u] = "full-access" /\ FullAccessAutoApprove
<1>1. /\ toBridge \in Seq(Frame) /\ toBridge # <<>> /\ toBridge' = Tail(toBridge)
      /\ toBridge' \in Seq(Frame)
      /\ Head(toBridge) \in Frame /\ Head(toBridge).type = "requestApproval"
      /\ 1 \in DOMAIN toBridge /\ Head(toBridge) = toBridge[1]
  BY HandledFrame DEF Inv, ApprovalRequested
<1>2. a \in Approval /\ Asking(1, a)
  BY <1>1, FrameFields DEF Asking
<1>3. u \in Turn /\ approval[a] = "none"
  BY <1>2 DEF Inv, AskedOnce, TypeOK
<1>4. /\ mode' = Ensured(u)
      /\ IF auto
         THEN /\ SendAnswer(a, "acceptForSession")
              /\ approval' = [approval EXCEPT ![a] = "approved"]
              /\ source' = [source EXCEPT ![a] = "session-auto"]
              /\ status' = IF Known(u) THEN status ELSE [status EXCEPT ![u] = "running"]
              /\ UNCHANGED pendingApprovals
         ELSE /\ pendingApprovals' = pendingApprovals \cup {a}
              /\ approval' = [approval EXCEPT ![a] = "pending"]
              /\ status' = [status EXCEPT ![u] = "waiting_approval"]
              /\ UNCHANGED <<source, toServer>>
      /\ UNCHANGED <<activeTurnByThread, ready, calls, serverVars>>
  BY DEF ApprovalRequested
<1> HIDE DEF a, u, auto
<1>5. /\ status' \in [Turn -> {"absent"} \cup Active \cup Outcome]
      /\ status'[u] # "absent"
      /\ \A v \in Turn \ {u} : status'[v] = status[v]
  <2>1. status \in [Turn -> {"absent"} \cup Active \cup Outcome]
    BY DEF Inv, TypeOK
  <2>2. (status' = status /\ status[u] # "absent") \/ \E s \in Active : status' = [status EXCEPT ![u] = s]
    BY <1>4 DEF Known, Active
  <2>3. CASE status' = status /\ status[u] # "absent"
    BY <2>1, <2>3
  <2>4. ASSUME NEW s \in Active, status' = [status EXCEPT ![u] = s]
        PROVE /\ status' \in [Turn -> {"absent"} \cup Active \cup Outcome]
              /\ status'[u] # "absent"
              /\ \A v \in Turn \ {u} : status'[v] = status[v]
    BY <1>3, <2>1, <2>4 DEF Active
  <2> QED
    BY <2>2, <2>3, <2>4
<1>6. \A v \in Turn : mode'[v] = "none" <=> status'[v] = "absent"
  BY <1>3, <1>4, <1>5, EnsuredType DEF Inv, TypeOK
<1>7. mode' \in [Turn -> {"none"} \cup AccessMode]
  BY <1>3, <1>4, EnsuredType DEF Inv
<1>8. KnownStays
  BY <1>5 DEF KnownStays, Known
<1>9. CASE auto
  <2>1. /\ SendAnswer(a, "acceptForSession") /\ "acceptForSession" \in Answer
        /\ approval' = [approval EXCEPT ![a] = "approved"]
        /\ source' = [source EXCEPT ![a] = "session-auto"]
        /\ UNCHANGED <<pendingApprovals, activeTurnByThread, ready, calls, serverVars>>
    BY <1>4, <1>9 DEF Answer
  <2>2. toServer' \in Seq(Message)
    BY <1>2, <2>1, ChannelTypes, Added DEF Inv, SendAnswer, Message
  <2>3. TypeOK'
    BY <1>1, <1>2, <1>5, <1>6, <1>7, <2>1, <2>2 DEF Inv, TypeOK, serverVars, Message
  <2>4. KnownInterrupts'
    BY <1>1, <1>2, <1>8, <2>1, AnswerInterrupts DEF Inv
  <2>5. AskedOnce'
    BY <1>1, <1>2, <2>1, AskedArrives DEF Inv, serverVars
  <2>6. pendingApprovals' = pendingApprovals \ {a}
    BY <1>2, <1>3, <2>1 DEF Inv, AnsweredOnce
  <2>7. AnsweredOnce'
    BY <1>2, <1>3, <2>1, <2>6, GivenAnswer DEF Inv, serverVars
  <2> QED
    BY <2>3, <2>4, <2>5, <2>7 DEF Inv
<1>10. CASE ~auto
  <2>1. /\ pendingApprovals' = pendingApprovals \cup {a}
        /\ approval' = [approval EXCEPT ![a] = "pending"]
        /\ UNCHANGED <<source, toServer, activeTurnByThread, ready, calls, serverVars>>
    BY <1>4, <1>10
  <2>2. TypeOK'
    BY <1>1, <1>2, <1>5, <1>6, <1>7, <2>1 DEF Inv, TypeOK, serverVars
  <2>3. KnownInterrupts'
    BY <1>1, <1>8, <2>1, InterruptsAfterFrame DEF Inv
  <2>4. AskedOnce'
    BY <1>1, <1>2, <2>1, AskedArrives DEF Inv, serverVars
  <2>5. AnsweredOnce'
    <3>1. \A b, i : /\ Answering(i, b)' <=> Answering(i, b)
                    /\ toServer' = toServer
      BY <2>1 DEF Answering
    <3>2. /\ approval'[a] = "pending"
          /\ \A b \in Approval \ {a} : /\ approval'[b] = approval[b] /\ Owed(b)' = Owed(b)
                                       /\ b \in pendingApprovals' <=> b \in pendingApprovals
      BY <1>2, <2>1 DEF Inv, TypeOK, Owed
    <3>3. UNCHANGED verdict /\ verdict[a] = "none" /\ \A i : ~Answering(i, a)
      BY <1>2, <1>3, <2>1 DEF Inv, AnsweredOnce, serverVars
    <3> SUFFICES ASSUME NEW b \in Approval
             PROVE /\ b \in pendingApprovals' <=> approval'[b] = "pending"
                   /\ approval'[b] \in {"none", "pending"} => verdict'[b] = "none" /\ \A i : ~Answering(i, b)'
                   /\ approval'[b] \in {"approved", "denied"} =>
                         IF verdict'[b] = "none"
                         THEN \E i : /\ Answering(i, b)' /\ toServer'[i].decision = Owed(b)'
                                     /\ \A j : Answering(j, b)' => j = i
                         ELSE verdict'[b] = Owed(b)' /\ \A i : ~Answering(i, b)'
      BY Zenon DEF AnsweredOnce
    <3>4. CASE b = a
      BY <2>1, <3>1, <3>2, <3>3, <3>4
    <3>5. CASE b # a
      BY <3>1, <3>2, <3>3, <3>5 DEF Inv, AnsweredOnce
    <3> QED
      BY <3>4, <3>5
  <2> QED
    BY <2>2, <2>3, <2>4, <2>5 DEF Inv
<1> QED
  BY <1>9, <1>10
-----------------------------------------------------------------------------
(* What the callers do after their await: records and pointers only.       *)

LEMMA ContinuationInv ==
    ASSUME Inv, ready' \subseteq ready, KnownStays,
           status' \in [Turn -> {"absent"} \cup Active \cup Outcome],
           mode' \in [Turn -> {"none"} \cup AccessMode],
           \A u \in Turn : mode'[u] = "none" <=> status'[u] = "absent",
           activeTurnByThread' \in [Thread -> Turn \cup {NoTurn}],
           UNCHANGED <<approval, source, pendingApprovals, calls, serverVars, toServer, toBridge>>
    PROVE  Inv'
<1>1. TypeOK'
  BY DEF Inv, TypeOK, serverVars
<1>2. KnownInterrupts'
  BY InterruptsKept DEF Inv
<1>3. AskedOnce'
  BY AskedStill DEF Inv, serverVars
<1>4. AnsweredOnce'
  BY AnsweredStill DEF Inv, serverVars
<1> QED
  BY <1>1, <1>2, <1>3, <1>4 DEF Inv

LEMMA StartReturnsInv == ASSUME Inv, NEW r \in ready, StartReturns(r) PROVE Inv'
<1>1. /\ r.call.thread \in Thread /\ r.call.mode \in AccessMode /\ r.turn \in Turn \cup {NoTurn}
      /\ ready' \subseteq ready
  BY ResponseFields, CallFields DEF Inv, TypeOK, StartReturns, Resume
<1>2. /\ RecordStarted(r)
      /\ activeTurnByThread' = [activeTurnByThread EXCEPT ![r.call.thread] = r.turn]
      /\ UNCHANGED <<approval, source, pendingApprovals, calls, serverVars, toServer, toBridge>>
  BY DEF StartReturns
<1>3. /\ status' \in [Turn -> {"absent"} \cup Active \cup Outcome]
      /\ mode' \in [Turn -> {"none"} \cup AccessMode]
      /\ \A u \in Turn : mode'[u] = "none" <=> status'[u] = "absent"
      /\ KnownStays
  <2>1. /\ status \in [Turn -> {"absent"} \cup Active \cup Outcome]
        /\ mode \in [Turn -> {"none"} \cup AccessMode]
        /\ \A u \in Turn : mode[u] = "none" <=> status[u] = "absent"
    BY DEF Inv, TypeOK
  <2>2. CASE Known(r.turn)
    BY <1>2, <2>1, <2>2 DEF RecordStarted, KnownStays, Known
  <2>3. CASE ~Known(r.turn)
    <3>1. /\ status' = [status EXCEPT ![r.turn] = "running"]
          /\ mode' = [mode EXCEPT ![r.turn] = r.call.mode]
      BY <1>2, <2>3 DEF RecordStarted
    <3> QED
      BY <1>1, <2>1, <3>1 DEF KnownStays, Known, Active, AccessMode
  <2> QED
    BY <2>2, <2>3
<1>4. activeTurnByThread' \in [Thread -> Turn \cup {NoTurn}]
  BY <1>1, <1>2 DEF Inv, TypeOK
<1> QED
  BY <1>1, <1>2, <1>3, <1>4, ContinuationInv

LEMMA InterruptReturnsInv == ASSUME Inv, NEW r \in ready, InterruptReturns(r) PROVE Inv'
<1> DEFINE u == r.call.turn
<1>1. u \in Turn /\ Known(u) /\ ready' \subseteq ready
  BY ResponseFields, CallFields DEF Inv, TypeOK, KnownInterrupts, InterruptReturns, Resume
<1>2. /\ status' = [status EXCEPT ![u] = "interrupted"]
      /\ activeTurnByThread' = [activeTurnByThread EXCEPT ![threadOf[u]] = NoTurn]
      /\ UNCHANGED <<mode, approval, source, pendingApprovals, calls, serverVars, toServer, toBridge>>
  BY DEF InterruptReturns
<1> HIDE DEF u
<1>3. /\ status' \in [Turn -> {"absent"} \cup Active \cup Outcome]
      /\ mode' \in [Turn -> {"none"} \cup AccessMode]
      /\ \A v \in Turn : mode'[v] = "none" <=> status'[v] = "absent"
      /\ KnownStays
  BY <1>1, <1>2 DEF Inv, TypeOK, Known, KnownStays, Outcome
<1>4. activeTurnByThread' \in [Thread -> Turn \cup {NoTurn}]
  BY <1>1, <1>2 DEF Inv, TypeOK
<1> QED
  BY <1>1, <1>2, <1>3, <1>4, ContinuationInv

LEMMA ReconciledType ==
    ASSUME TypeOK, NEW t \in Thread, NEW raw, NEW hint \in Turn \cup {NoTurn}
    PROVE  Reconciled(t, raw, hint) \in Turn \cup {NoTurn}
BY DEF Reconciled, TypeOK

LEMMA ReadReturnsInv == ASSUME Inv, NEW r \in ready, ReadReturns(r) PROVE Inv'
<1> DEFINE t == r.call.thread
           new == {u \in Turn : r.raw[u] # "absent" /\ ~Known(u)}
<1>1. t \in Thread /\ r.raw \in RawTurns /\ r.hint[t] \in Turn \cup {NoTurn} /\ ready' \subseteq ready
  BY ResponseFields, CallFields DEF Inv, TypeOK, ReadReturns, Resume
<1>2. /\ activeTurnByThread' = [activeTurnByThread EXCEPT ![t] = Reconciled(t, r.raw, r.hint[t])]
      /\ status' = [u \in Turn |-> IF u \in new THEN r.raw[u] ELSE status[u]]
      /\ mode' = [u \in Turn |-> IF u \in new THEN "full-access" ELSE mode[u]]
      /\ UNCHANGED <<approval, source, pendingApprovals, calls, serverVars, toServer, toBridge>>
  BY DEF ReadReturns
<1>3. /\ status' \in [Turn -> {"absent"} \cup Active \cup Outcome]
      /\ mode' \in [Turn -> {"none"} \cup AccessMode]
      /\ \A v \in Turn : mode'[v] = "none" <=> status'[v] = "absent"
      /\ KnownStays
  BY <1>1, <1>2 DEF Inv, TypeOK, Known, KnownStays, RawTurns, Active, Outcome, AccessMode
<1>4. activeTurnByThread' \in [Thread -> Turn \cup {NoTurn}]
  BY <1>1, <1>2, ReconciledType DEF Inv, TypeOK
<1> QED
  BY <1>1, <1>2, <1>3, <1>4, ContinuationInv

LEMMA ListReturnsInv == ASSUME Inv, NEW r \in ready, ListReturns(r) PROVE Inv'
<1>1. r.hint \in [Thread -> Turn \cup {NoTurn}] /\ ready' \subseteq ready
  BY ResponseFields DEF Inv, TypeOK, ListReturns, Resume
<1>2. /\ activeTurnByThread' =
            [t \in Thread |-> Reconciled(t, [u \in Turn |-> "absent"], r.hint[t])]
      /\ UNCHANGED <<status, mode, approval, source, pendingApprovals, calls, serverVars, toServer, toBridge>>
  BY DEF ListReturns
<1>3. activeTurnByThread' \in [Thread -> Turn \cup {NoTurn}]
  BY <1>1, <1>2, ReconciledType DEF Inv
<1>4. KnownStays
  BY <1>2, StatusStays
<1> QED
  BY <1>1, <1>2, <1>3, <1>4, ContinuationInv DEF Inv, TypeOK
-----------------------------------------------------------------------------
(* The app-server.                                                         *)

\* What is added to a channel leaves what is in it where it is.
Grows(s, t, T) ==
    /\ \A i \in DOMAIN s : i \in DOMAIN t /\ t[i] = s[i]
    /\ \A i \in DOMAIN t : i \in DOMAIN s \/ t[i] \in T

LEMMA OneGrows ==
    ASSUME NEW S, NEW s \in Seq(S), NEW e \in S
    PROVE  Append(s, e) \in Seq(S) /\ Grows(s, Append(s, e), {e})
BY Added DEF Grows

LEMMA TwoGrow ==
    ASSUME NEW S, NEW s \in Seq(S), NEW e \in S, NEW f \in S
    PROVE  s \o <<e, f>> \in Seq(S) /\ Grows(s, s \o <<e, f>>, {e, f})
<1> DEFINE t == Append(s, e)
<1>1. t \in Seq(S) /\ Grows(s, t, {e})
  BY OneGrows
<1>2. s \o <<e, f>> = Append(t, f)
  BY TwoAdded
<1> HIDE DEF t
<1>3. Append(t, f) \in Seq(S) /\ Grows(t, Append(t, f), {f})
  BY <1>1, OneGrows
<1> QED
  BY <1>1, <1>2, <1>3 DEF Grows

\* A request is taken or not, and frames are sent that ask for no approval.
LEMMA ServerStepInv ==
    ASSUME Inv, UNCHANGED <<storeVars, ready, calls, approvalOf, verdict>>,
           srv' \in [Turn -> {"absent", "running"} \cup Outcome],
           threadOf' \in [Turn -> Thread],
           requested' \in [Turn -> {"elsewhere"} \cup AccessMode],
           \/ UNCHANGED toServer
           \/ toServer # <<>> /\ toServer' = Tail(toServer) /\ Head(toServer).op # "answer",
           NEW T, Grows(toBridge, toBridge', T), toBridge' \in Seq(Frame),
           \A f \in T : f.type # "requestApproval" /\ Interrupted(f)
    PROVE  Inv'
<1> USE DEF Inv
<1>1. toServer \in Seq(Message) /\ toServer' \in Seq(Message)
  BY ChannelTypes, Taken
<1>2. TypeOK'
  BY <1>1 DEF TypeOK, storeVars, Message
<1>3. KnownInterrupts'
  <2>1. \A u : Known(u)' <=> Known(u)
    BY DEF Known, storeVars
  <2>2. \A i \in DOMAIN toServer' : \E j \in DOMAIN toServer : toServer'[i] = toServer[j]
    <3>1. toServer # <<>> /\ toServer' = Tail(toServer)
              => \A i \in DOMAIN toServer' : i + 1 \in DOMAIN toServer /\ toServer'[i] = toServer[i + 1]
      BY <1>1, Taken
    <3> QED
      BY <3>1, Zenon
  <2>3. \A i \in DOMAIN toBridge' : Interrupted(toBridge'[i])
    <3>1. \A i \in DOMAIN toBridge : Interrupted(toBridge[i])
      BY DEF KnownInterrupts, Interrupted
    <3> QED
      BY <3>1 DEF Grows
  <2> QED
    BY <2>1, <2>2, <2>3 DEF KnownInterrupts, Interrupted
<1>4. AskedOnce'
  <2>1. \A a \in Approval : \A i : Asking(i, a)' <=> Asking(i, a)
    BY DEF Grows, Asking
  <2> QED
    BY <2>1, AskedKept DEF storeVars
<1>5. AnsweredOnce'
  BY <1>1, AnsweredStill, AnsweredAfterTaking DEF storeVars
<1> QED
  BY <1>2, <1>3, <1>4, <1>5

LEMMA Requested ==
    ASSUME Inv, NEW op \in {"start", "interrupt", "read", "list"}, Take(op)
    PROVE  /\ toServer # <<>> /\ toServer' = Tail(toServer)
           /\ Head(toServer).op = op /\ Head(toServer) \in Call
           /\ op = "interrupt" => Known(Head(toServer).turn)
<1>1. toServer # <<>> /\ toServer' = Tail(toServer) /\ Head(toServer).op = op
  BY DEF Take
<1>2. Head(toServer) \in Message /\ 1 \in DOMAIN toServer /\ Head(toServer) = toServer[1]
  BY <1>1, ChannelTypes, Taken DEF Inv
<1> QED
  BY <1>1, <1>2, MessageFields DEF Inv, KnownInterrupts

LEMMA BeginTypes ==
    ASSUME Inv, NEW u \in Turn, NEW t \in Thread, NEW m \in {"elsewhere"} \cup AccessMode, Begin(u, t, m)
    PROVE  /\ UNCHANGED <<storeVars, ready, calls, approvalOf, verdict>>
           /\ srv' \in [Turn -> {"absent", "running"} \cup Outcome]
           /\ threadOf' \in [Turn -> Thread]
           /\ requested' \in [Turn -> {"elsewhere"} \cup AccessMode]
BY DEF Begin, Inv, TypeOK

LEMMA Snapshots ==
    ASSUME Inv
    PROVE  /\ NoRaw \in RawTurns /\ NoHint \in [Thread -> Turn \cup {NoTurn}]
           /\ \A t : Snapshot(t) \in RawTurns
           /\ Hints \subseteq [Thread -> Turn \cup {NoTurn}]
BY DEF NoRaw, NoHint, RawTurns, Snapshot, Hints, Inv, TypeOK

LEMMA ServerStartsInv == ASSUME Inv, NEW u \in Turn, ServerStarts(u) PROVE Inv'
<1> DEFINE c == Head(toServer)
           e == Reply(c, u, NoRaw, NoHint)
           f == [type |-> "turn/started", turn |-> u]
           T == {e, f}
<1>1. /\ toServer # <<>> /\ toServer' = Tail(toServer) /\ c \in Call /\ c.op = "start"
      /\ toBridge' = toBridge \o <<e, f>> /\ Begin(u, c.thread, c.mode)
  BY Requested DEF ServerStarts
<1>2. c.thread \in Thread /\ c.mode \in AccessMode
  BY <1>1, CallFields
<1>3. e \in Frame /\ e.type = "response" /\ e.response.call = c
  BY <1>1, Snapshots, ReplyMade
<1>4. f \in Frame /\ f.type = "turn/started"
  BY FramesMade
<1> HIDE DEF c, e, f
<1>5. toBridge' \in Seq(Frame) /\ Grows(toBridge, toBridge', T)
  BY <1>1, <1>3, <1>4, TwoGrow, ChannelTypes DEF Inv
<1>6. \A x \in T : x.type # "requestApproval" /\ Interrupted(x)
  BY <1>1, <1>3, <1>4 DEF Interrupted
<1> HIDE DEF T
<1>7. toServer # <<>> /\ toServer' = Tail(toServer) /\ Head(toServer).op # "answer"
  BY <1>1 DEF c
<1>8. /\ UNCHANGED <<storeVars, ready, calls, approvalOf, verdict>>
      /\ srv' \in [Turn -> {"absent", "running"} \cup Outcome]
      /\ threadOf' \in [Turn -> Thread]
      /\ requested' \in [Turn -> {"elsewhere"} \cup AccessMode]
  BY <1>1, <1>2, BeginTypes
<1> QED
  BY <1>5, <1>6, <1>7, <1>8, ServerStepInv

LEMMA ServerStartsElsewhereInv ==
    ASSUME Inv, NEW u \in Turn, NEW t \in Thread, ServerStartsElsewhere(u, t) PROVE Inv'
<1> DEFINE f == [type |-> "turn/started", turn |-> u]
<1>1. f \in Frame /\ f.type = "turn/started" /\ toBridge' = Append(toBridge, f) /\ UNCHANGED toServer
  BY FramesMade DEF ServerStartsElsewhere
<1> HIDE DEF f
<1>2. toBridge' \in Seq(Frame) /\ Grows(toBridge, toBridge', {f})
  BY <1>1, OneGrows, ChannelTypes DEF Inv
<1>3. \A x \in {f} : x.type # "requestApproval" /\ Interrupted(x)
  BY <1>1 DEF Interrupted
<1>4. /\ UNCHANGED <<storeVars, ready, calls, approvalOf, verdict>>
      /\ srv' \in [Turn -> {"absent", "running"} \cup Outcome]
      /\ threadOf' \in [Turn -> Thread]
      /\ requested' \in [Turn -> {"elsewhere"} \cup AccessMode]
  BY BeginTypes DEF ServerStartsElsewhere
<1> QED
  BY <1>1, <1>2, <1>3, <1>4, ServerStepInv

\* A request is answered with one response.
LEMMA RepliesInv ==
    ASSUME Inv, NEW k \in {"interrupt", "read", "list"}, Take(k),
           NEW raw \in RawTurns, NEW h \in [Thread -> Turn \cup {NoTurn}],
           toBridge' = Append(toBridge, Reply(Head(toServer), NoTurn, raw, h)),
           UNCHANGED <<storeVars, ready, calls, serverVars>>
    PROVE  Inv'
<1> DEFINE c == Head(toServer)
           e == Reply(c, NoTurn, raw, h)
<1>1. /\ toServer # <<>> /\ toServer' = Tail(toServer) /\ c \in Call /\ c.op = k
      /\ k = "interrupt" => Known(c.turn)
  BY Requested
<1> HIDE DEF c
<1>2. e \in Frame /\ e.type = "response" /\ e.response.call = c
  <2>1. c \in Call
    BY <1>1
  <2> QED
    BY <2>1, ReplyMade
<1> HIDE DEF e
<1>3. toBridge' \in Seq(Frame) /\ Grows(toBridge, toBridge', {e})
  BY <1>2, OneGrows, ChannelTypes DEF Inv, c, e
<1>4. \A x \in {e} : x.type # "requestApproval" /\ Interrupted(x)
  BY <1>1, <1>2 DEF Interrupted
<1>5. Head(toServer).op # "answer"
  BY <1>1 DEF c
<1> QED
  BY <1>1, <1>3, <1>4, <1>5, ServerStepInv DEF serverVars, Inv, TypeOK

LEMMA ServerInterruptsInv == Inv /\ ServerInterrupts => Inv'
BY RepliesInv, Snapshots DEF ServerInterrupts

LEMMA ServerReadsInv == Inv /\ ServerReads => Inv'
BY RepliesInv, Snapshots DEF ServerReads

LEMMA ServerRefusesInv == Inv /\ ServerRefuses => Inv'
<1> SUFFICES ASSUME Inv, ServerRefuses PROVE Inv'
  OBVIOUS
<1>1. Grows(toBridge, toBridge', {}) /\ toBridge' \in Seq(Frame)
  BY ChannelTypes DEF ServerRefuses, Grows, Inv
<1> QED
  BY <1>1, ServerStepInv DEF ServerRefuses, serverVars, Inv, TypeOK

LEMMA ServerEndsInv == ASSUME Inv, NEW u \in Turn, NEW s \in Outcome, ServerEnds(u, s) PROVE Inv'
<1> DEFINE f == [type |-> "turn/completed", turn |-> u, status |-> s]
<1>1. f \in Frame /\ f.type = "turn/completed" /\ toBridge' = Append(toBridge, f)
  BY FramesMade DEF ServerEnds
<1> HIDE DEF f
<1>2. toBridge' \in Seq(Frame) /\ Grows(toBridge, toBridge', {f})
  BY <1>1, OneGrows, ChannelTypes DEF Inv
<1>3. \A x \in {f} : x.type # "requestApproval" /\ Interrupted(x)
  BY <1>1 DEF Interrupted
<1> QED
  BY <1>2, <1>3, ServerStepInv DEF ServerEnds, Inv, TypeOK
\* The answer that was on its way is the verdict from now on.
LEMMA ServerTakesAnswerInv == Inv /\ ServerTakesAnswer => Inv'
<1> SUFFICES ASSUME Inv, ServerTakesAnswer PROVE Inv'
  OBVIOUS
<1>0. Head(toServer) \in Message
  BY ChannelTypes, Taken DEF ServerTakesAnswer, Take, Inv
<1> PICK m \in Message : m = Head(toServer)
  BY <1>0
<1> DEFINE a == m.approval
<1>1. /\ toServer \in Seq(Message) /\ toServer # <<>> /\ toServer' = Tail(toServer)
      /\ m.op = "answer" /\ m \in Message /\ 1 \in DOMAIN toServer /\ m = toServer[1]
      /\ toServer' \in Seq(Message)
  BY ChannelTypes, Taken DEF ServerTakesAnswer, Take, Inv
<1>2. /\ a \in Approval /\ m.decision \in Answer /\ Answering(1, a)
  BY <1>1, MessageFields DEF Answering
<1>3. /\ verdict' = [verdict EXCEPT ![a] = m.decision]
      /\ UNCHANGED <<storeVars, ready, calls, srv, threadOf, requested, approvalOf, toBridge>>
  BY DEF ServerTakesAnswer
<1> HIDE DEF a
<1>4. TypeOK'
  <2>1. verdict' \in [Approval -> {"none"} \cup Answer]
    BY <1>2, <1>3 DEF Inv, TypeOK
  <2> QED
    BY <1>1, <1>3, <2>1 DEF Inv, TypeOK, storeVars, Message
<1>5. KnownInterrupts'
  BY <1>1, <1>3, InterruptsMove DEF Inv, storeVars
<1>6. AskedOnce'
  BY <1>3, AskedStill DEF Inv, storeVars
<1>7. AnsweredOnce'
  <2>1. /\ UNCHANGED <<approval, source, pendingApprovals>>
        /\ \A b \in Approval : Owed(b)' = Owed(b)
    BY <1>3 DEF storeVars, Owed
  <2>2. /\ verdict'[a] = m.decision /\ m.decision # "none"
        /\ \A b \in Approval \ {a} : verdict'[b] = verdict[b]
    BY <1>2, <1>3 DEF Inv, TypeOK, Answer
  <2>3. approval[a] \in {"approved", "denied"}
    BY <1>2 DEF Inv, TypeOK, AnsweredOnce
  <2>4. m.decision = Owed(a) /\ \A j : Answering(j, a) => j = 1
    BY <1>1, <1>2, <2>3, Zenon DEF Inv, AnsweredOnce
  <2>5. \A i : ~Answering(i, a)'
    <3>1. ASSUME NEW i, Answering(i, a)' PROVE FALSE
      <4>1. i \in Int /\ Answering(i + 1, a)
        BY <1>1, <3>1, AnswersShift
      <4>2. i \in DOMAIN toServer'
        BY <3>1 DEF Answering
      <4>3. DOMAIN toServer' \subseteq Nat \ {0}
        BY <1>1, LenProperties
      <4>4. i + 1 = 1
        BY <2>4, <4>1
      <4> QED
        BY <4>1, <4>2, <4>3, <4>4
    <3> QED
      BY <3>1
  <2> SUFFICES ASSUME NEW b \in Approval
           PROVE /\ b \in pendingApprovals' <=> approval'[b] = "pending"
                 /\ approval'[b] \in {"none", "pending"} => verdict'[b] = "none" /\ \A i : ~Answering(i, b)'
                 /\ approval'[b] \in {"approved", "denied"} =>
                       IF verdict'[b] = "none"
                       THEN \E i : /\ Answering(i, b)' /\ toServer'[i].decision = Owed(b)'
                                   /\ \A j : Answering(j, b)' => j = i
                       ELSE verdict'[b] = Owed(b)' /\ \A i : ~Answering(i, b)'
    BY Zenon DEF AnsweredOnce
  <2>6. CASE b = a
    BY <1>2, <2>1, <2>2, <2>3, <2>4, <2>5, <2>6 DEF Inv, AnsweredOnce
  <2>7. CASE b # a
    <3>1. \A i : Answering(i, b) => i # 1
      BY <1>2, <2>7 DEF Answering
    <3>2. (\A i : ~Answering(i, b)) => \A i : ~Answering(i, b)'
      BY <1>1, AnswersShift, Zenon
    <3>3. ASSUME NEW i, Answering(i, b), toServer[i].decision = Owed(b), \A j : Answering(j, b) => j = i
          PROVE  /\ Answering(i - 1, b)' /\ toServer'[i - 1].decision = Owed(b)
                 /\ \A j : Answering(j, b)' => j = i - 1
      <4>1. i \in Int /\ Answering(i - 1, b)' /\ toServer'[i - 1].decision = Owed(b)
        BY <1>1, <3>1, <3>3, AnswersShift
      <4>2. ASSUME NEW j, Answering(j, b)' PROVE j = i - 1
        <5>1. j \in Int /\ j + 1 = i
          BY <1>1, <3>3, <4>2, AnswersShift
        <5> QED
          BY <5>1
      <4> QED
        BY <4>1, <4>2
    <3>4. verdict'[b] = verdict[b] /\ Owed(b)' = Owed(b)
      BY <2>1, <2>2, <2>7
    <3>5. CASE \A i : ~Answering(i, b)
      BY <2>1, <3>2, <3>4, <3>5 DEF Inv, AnsweredOnce
    <3>6. CASE \E i : Answering(i, b)
      <4>1. approval[b] \in {"approved", "denied"} /\ verdict[b] = "none" /\ b \notin pendingApprovals
        BY <3>6 DEF Inv, TypeOK, AnsweredOnce
      <4>2. PICK i : Answering(i, b) /\ toServer[i].decision = Owed(b) /\ \A j : Answering(j, b) => j = i
        BY <4>1, Zenon DEF Inv, AnsweredOnce
      <4>3. /\ Answering(i - 1, b)' /\ toServer'[i - 1].decision = Owed(b)
            /\ \A j : Answering(j, b)' => j = i - 1
        BY <3>3, <4>2, Zenon
      <4> QED
        BY <2>1, <3>4, <4>1, <4>3
    <3> QED
      BY <3>5, <3>6, Zenon
  <2> QED
    BY <2>6, <2>7
<1> QED
  BY <1>4, <1>5, <1>6, <1>7 DEF Inv

LEMMA ServerAsksInv == ASSUME Inv, NEW a \in Approval, NEW u \in Turn, ServerAsks(a, u) PROVE Inv'
<1> DEFINE f == [type |-> "requestApproval", approval |-> a]
<1>1. /\ approvalOf[a] = NoTurn /\ approvalOf' = [approvalOf EXCEPT ![a] = u]
      /\ toBridge \in Seq(Frame) /\ toBridge' = Append(toBridge, f)
      /\ UNCHANGED <<storeVars, ready, calls, srv, threadOf, requested, verdict, toServer>>
  BY ChannelTypes DEF ServerAsks, Inv
<1>2. f \in Frame /\ f.type = "requestApproval" /\ f.approval = a
  BY FramesMade
<1> HIDE DEF f
<1>3. PICK n : /\ n \in DOMAIN toBridge' /\ n \notin DOMAIN toBridge /\ toBridge'[n] = f
               /\ \A i \in DOMAIN toBridge' : i \in DOMAIN toBridge \/ i = n
               /\ \A i \in DOMAIN toBridge : i \in DOMAIN toBridge' /\ toBridge'[i] = toBridge[i]
  BY <1>1, <1>2, Added
<1>4. TypeOK'
  <2>1. toBridge' \in Seq(Frame)
    BY <1>1, <1>2, Added
  <2>2. approvalOf' \in [Approval -> Turn \cup {NoTurn}]
    BY <1>1 DEF Inv, TypeOK
  <2> QED
    BY <1>1, <2>1, <2>2 DEF Inv, TypeOK, storeVars
<1>5. KnownInterrupts'
  <2>1. Interrupted(f)
    BY <1>2 DEF Interrupted
  <2> QED
    BY <1>1, <1>2, <2>1, InterruptsMove DEF Inv, storeVars
<1>6. AskedOnce'
  <2>1. \A b, i : b # a => (Asking(i, b)' <=> Asking(i, b))
    BY <1>2, <1>3 DEF Asking
  <2>2. Asking(n, a)' /\ \A i : Asking(i, a)' => i = n
    BY <1>1, <1>2, <1>3 DEF Asking, Inv, AskedOnce
  <2>3. /\ approvalOf'[a] # NoTurn /\ UNCHANGED approval /\ approval[a] = "none"
        /\ \A b \in Approval \ {a} : approvalOf'[b] = approvalOf[b]
    BY <1>1, Constants DEF Inv, TypeOK, AskedOnce, storeVars
  <2> SUFFICES ASSUME NEW b \in Approval
             PROVE /\ \A i, j : Asking(i, b)' /\ Asking(j, b)' => i = j
                   /\ approvalOf'[b] = NoTurn => \A i : ~Asking(i, b)'
                   /\ approval'[b] = "none" <=> approvalOf'[b] = NoTurn \/ \E i : Asking(i, b)'
    BY Zenon DEF AskedOnce
  <2>4. CASE b = a
    BY <2>2, <2>3, <2>4
  <2>5. CASE b # a
    BY <2>1, <2>3, <2>5 DEF Inv, AskedOnce
  <2> QED
    BY <2>4, <2>5
<1>7. AnsweredOnce'
  BY <1>1, AnsweredStill DEF Inv, storeVars
<1> QED
  BY <1>4, <1>5, <1>6, <1>7 DEF Inv

-----------------------------------------------------------------------------
(* The invariant is inductive.                                             *)

LEMMA InitInv == Init => Inv
<1> SUFFICES ASSUME Init PROVE Inv
  OBVIOUS
<1>1. toServer = <<>> /\ toBridge = <<>> /\ ready = {}
  BY DEF Init
<1>2. TypeOK
  <2>1. <<>> \in Seq(Call \cup [op : {"answer"}, approval : Approval, decision : Answer])
        /\ <<>> \in Seq(Frame)
    BY EmptySeq
  <2> QED
    BY <2>1, Constants DEF Init, TypeOK, Outcome
<1>3. (\A i : i \notin DOMAIN toServer) /\ (\A i : i \notin DOMAIN toBridge)
  <2>1. DOMAIN <<>> = {}
    OBVIOUS
  <2> QED
    BY <1>1, <2>1
<1>4. KnownInterrupts
  BY <1>1, <1>3 DEF KnownInterrupts
<1>5. AskedOnce
  BY <1>3 DEF AskedOnce, Asking, Init
<1>6. AnsweredOnce
  BY <1>3 DEF AnsweredOnce, Answering, Init
<1> QED
  BY <1>2, <1>4, <1>5, <1>6 DEF Inv

LEMMA NextInv == Inv /\ [Next]_vars => Inv'
<1> SUFFICES ASSUME Inv, [Next]_vars PROVE Inv'
  OBVIOUS
<1>1. CASE \/ \E t \in Thread, m \in AccessMode : StartTurn(t, m)
           \/ \E u \in Turn : InterruptTurn(u)
           \/ \E t \in Thread : GetThread(t)
           \/ ListThreads
  BY <1>1, ClientCalls
<1>2. ASSUME NEW a \in Approval, NEW d \in {"approved", "denied"}, DecideApproval(a, d) PROVE Inv'
  BY <1>2, DecideApprovalInv
<1>3. CASE Frames
  BY <1>3, ReceiveResponseInv, TurnStartedInv, TurnCompletedInv, ApprovalRequestedInv DEF Frames
<1>4. CASE Continuations
  BY <1>4, StartReturnsInv, InterruptReturnsInv, ReadReturnsInv, ListReturnsInv DEF Continuations
<1>5. CASE ServerHandles
  BY <1>5, ServerStartsInv, ServerInterruptsInv, ServerReadsInv, ServerRefusesInv, ServerTakesAnswerInv
  DEF ServerHandles
<1>6. ASSUME NEW u \in Turn, NEW t \in Thread, ServerStartsElsewhere(u, t) PROVE Inv'
  BY <1>6, ServerStartsElsewhereInv
<1>7. ASSUME NEW a \in Approval, NEW u \in Turn, ServerAsks(a, u) PROVE Inv'
  BY <1>7, ServerAsksInv
<1>8. ASSUME NEW u \in Turn, NEW s \in Outcome, ServerEnds(u, s) PROVE Inv'
  BY <1>8, ServerEndsInv
<1>9. CASE UNCHANGED vars
  <2>1. UNCHANGED <<toServer, toBridge, ready>> /\ KnownStays
    BY <1>9 DEF vars, KnownStays, Known
  <2> QED
    BY <1>9, <2>1, ContinuationInv DEF vars, serverVars, Inv, TypeOK
<1> QED
  BY <1>1, <1>2, <1>3, <1>4, <1>5, <1>6, <1>7, <1>8, <1>9 DEF Next

THEOREM Inductive == Spec => []Inv
BY InitInv, NextInv, PTL DEF Spec

-----------------------------------------------------------------------------
(* The theorems.                                                           *)

\* The maps of the store and the two channels keep their types, whatever the order in
\* which frames and continuations interleave.
THEOREM TypeCorrect == Spec => []TypeOK
<1>1. Inv => TypeOK
  BY DEF Inv
<1> QED
  BY <1>1, Inductive, PTL

\* No approval is lost: what the app-server waits for can be decided or is decided
\* (onAppServerRequest, decideApproval).
THEOREM NoApprovalLost == Spec => []ApprovalStaysDecidable
<1>1. Inv => ApprovalStaysDecidable
  <2> SUFFICES ASSUME Inv, NEW a \in Approval, approvalOf[a] # NoTurn, verdict[a] = "none",
                      \A i \in DOMAIN toBridge :
                          toBridge[i].type = "requestApproval" => toBridge[i].approval # a
               PROVE  AnswersInFlight(a) # {} \/ Decidable(a)
    BY Zenon DEF ApprovalStaysDecidable
  <2>1. approval[a] # "none"
    BY DEF Inv, AskedOnce, Asking
  <2>2. CASE approval[a] = "pending"
    BY <2>2 DEF Inv, AnsweredOnce, Decidable
  <2>3. CASE approval[a] \in {"approved", "denied"}
    BY <2>3 DEF Inv, AnsweredOnce, Answering, AnswersInFlight
  <2> QED
    BY <2>1, <2>2, <2>3 DEF Inv, TypeOK
<1> QED
  BY <1>1, Inductive, PTL

\* An approval is answered once, as its record shows, however often clients decide it
\* (decideApproval, onAppServerRequest).
THEOREM AnsweredAsRecorded == Spec => []AnswerMatchesRecord
<1>1. Inv => AnswerMatchesRecord
  <2> SUFFICES ASSUME Inv, NEW a \in Approval
               PROVE  LET given == (IF verdict[a] = "none" THEN {} ELSE {verdict[a]})
                                     \cup {toServer[i].decision : i \in AnswersInFlight(a)}
                      IN  /\ Cardinality(AnswersInFlight(a)) + (IF verdict[a] = "none" THEN 0 ELSE 1)
                                = IF approval[a] \in {"approved", "denied"} THEN 1 ELSE 0
                          /\ \A d \in given : d = Owed(a)
    BY Zenon DEF AnswerMatchesRecord
  <2> DEFINE given == (IF verdict[a] = "none" THEN {} ELSE {verdict[a]})
                         \cup {toServer[i].decision : i \in AnswersInFlight(a)}
  <2>1. \A i : i \in AnswersInFlight(a) <=> Answering(i, a)
    BY DEF AnswersInFlight, Answering
  <2>2. /\ Cardinality({}) = 0 /\ \A x : Cardinality({x}) = 1
    BY FS_EmptySet, FS_Singleton
  <2>4. CASE approval[a] \in {"none", "pending"}
    <3>1. AnswersInFlight(a) = {} /\ verdict[a] = "none"
      BY <2>1, <2>4 DEF Inv, AnsweredOnce
    <3> QED
      BY <2>2, <2>4, <3>1
  <2>5. CASE approval[a] \in {"approved", "denied"} /\ verdict[a] = "none"
    <3>1. PICK i : /\ Answering(i, a) /\ toServer[i].decision = Owed(a)
                   /\ \A j : Answering(j, a) => j = i
      BY <2>5 DEF Inv, AnsweredOnce
    <3>2. AnswersInFlight(a) = {i}
      BY <2>1, <3>1
    <3>3. given = {Owed(a)}
      BY <2>5, <3>1, <3>2
    <3>4. Cardinality(AnswersInFlight(a)) = 1
      BY <2>2, <3>2
    <3> QED
      BY <2>5, <3>3, <3>4
  <2>6. CASE approval[a] \in {"approved", "denied"} /\ verdict[a] # "none"
    <3>1. AnswersInFlight(a) = {} /\ verdict[a] = Owed(a)
      BY <2>1, <2>6 DEF Inv, AnsweredOnce
    <3> QED
      BY <2>2, <2>6, <3>1
  <2> QED
    BY <2>4, <2>5, <2>6 DEF Inv, TypeOK
<1> QED
  BY <1>1, Inductive, PTL
-----------------------------------------------------------------------------
(* The records catch up: of a turn that has ended, either the frame that   *)
(* says so is still to come, behind every other frame about it, or its     *)
(* record is final and nothing under way is older.                         *)

About(f, u) ==
    \/ f.type = "turn/started" /\ f.turn = u
    \/ f.type = "requestApproval" /\ approvalOf[f.approval] = u

Completes(f, u) == f.type = "turn/completed" /\ f.turn = u

Ending(u) == \E i \in DOMAIN toBridge : Completes(toBridge[i], u)

\* A response that cannot make a record of u that is out of date.
UpToDate(r, u) ==
    /\ r.call.op = "start" => r.turn # u
    /\ r.call.op = "read" => r.raw[u] \in {"absent", srv[u]}

EndsLast(u) ==
    \A i \in DOMAIN toBridge : Completes(toBridge[i], u) =>
        /\ srv[u] \in Outcome /\ toBridge[i].status = srv[u]
        /\ \A j \in DOMAIN toBridge : About(toBridge[j], u) => j < i

Over(u) ==
    /\ \A j \in DOMAIN toBridge : ~About(toBridge[j], u)
    /\ Known(u) => status[u] \in {srv[u], "interrupted"}
    /\ ~Known(u) =>
          /\ \A r \in ready : UpToDate(r, u)
          /\ \A i \in DOMAIN toBridge :
                toBridge[i].type = "response" => UpToDate(toBridge[i].response, u)

RecordsFollow == \A u \in Turn : EndsLast(u) /\ (srv[u] \in Outcome /\ ~Ending(u) => Over(u))

\* A status that a step may give to the record of a turn that is over.
StatusStaysOver ==
    \A u \in Turn : srv[u] \in Outcome /\ ~Ending(u) =>
        \/ status'[u] = status[u]
        \/ status'[u] \in {srv[u], "interrupted"}

LEMMA RecordsStill ==
    ASSUME RecordsFollow, UNCHANGED <<srv, approvalOf, toBridge>>, ready' \subseteq ready, StatusStaysOver
    PROVE  RecordsFollow'
<1> SUFFICES ASSUME NEW u \in Turn
             PROVE  EndsLast(u)' /\ ((srv[u] \in Outcome /\ ~Ending(u))' => Over(u)')
  BY DEF RecordsFollow
<1>1. \A f : /\ Completes(f, u)' <=> Completes(f, u)
             /\ About(f, u)' <=> About(f, u)
  BY DEF Completes, About
<1>2. EndsLast(u)'
  BY DEF RecordsFollow, EndsLast, Completes, About
<1>3. ASSUME srv[u] \in Outcome, ~Ending(u) PROVE Over(u)'
  <2>1. Over(u)
    BY <1>3 DEF RecordsFollow
  <2>2. \A j \in DOMAIN toBridge' : ~About(toBridge'[j], u)
    BY <2>1 DEF Over
  <2>3. \A r : UpToDate(r, u)' <=> UpToDate(r, u)
    BY DEF UpToDate
  <2>4. CASE status'[u] = status[u]
    BY <2>1, <2>2, <2>3, <2>4 DEF Over, Known, UpToDate, About
  <2>5. CASE status'[u] \in {srv[u], "interrupted"}
    BY <1>3, <2>1, <2>2, <2>5 DEF Over, Known, About, Outcome
  <2> QED
    BY <1>3, <2>4, <2>5 DEF StatusStaysOver
<1>4. (srv[u] \in Outcome /\ ~Ending(u))' <=> srv[u] \in Outcome /\ ~Ending(u)
  BY DEF Ending, Completes
<1> QED
  BY <1>2, <1>3, <1>4
LEMMA RecordsAfterFrame ==
    ASSUME TypeOK, RecordsFollow, UNCHANGED <<srv, approvalOf>>,
           toBridge # <<>>, toBridge' = Tail(toBridge),
           \A r \in ready' : r \in ready \/ (Head(toBridge).type = "response" /\ r = Head(toBridge).response),
           StatusStaysOver,
           \A u \in Turn : Completes(Head(toBridge), u) => status'[u] = Head(toBridge).status
    PROVE  RecordsFollow'
<1> SUFFICES ASSUME NEW u \in Turn
             PROVE  EndsLast(u)' /\ ((srv[u] \in Outcome /\ ~Ending(u))' => Over(u)')
  BY DEF RecordsFollow
<1>1. /\ \A i \in DOMAIN toBridge' : i \in Nat \ {0} /\ i + 1 \in DOMAIN toBridge /\ toBridge'[i] = toBridge[i + 1]
      /\ \A i \in DOMAIN toBridge : i \in Int /\ (i # 1 => i - 1 \in DOMAIN toBridge' /\ toBridge'[i - 1] = toBridge[i])
      /\ 1 \in DOMAIN toBridge /\ Head(toBridge) = toBridge[1]
  <2>1. toBridge \in Seq(Frame) /\ toBridge' \in Seq(Frame)
    BY ChannelTypes, Taken
  <2>2. DOMAIN toBridge \subseteq Int /\ DOMAIN toBridge' \subseteq Nat \ {0}
    BY <2>1, LenProperties
  <2> QED
    BY <2>1, <2>2, Taken
<1>2. \A f : /\ Completes(f, u)' <=> Completes(f, u)
             /\ About(f, u)' <=> About(f, u)
  BY DEF Completes, About
<1>3. EndsLast(u) /\ (srv[u] \in Outcome /\ ~Ending(u) => Over(u))
  BY DEF RecordsFollow
<1>4. EndsLast(u)'
  <2> SUFFICES ASSUME NEW i \in DOMAIN toBridge', Completes(toBridge'[i], u)
               PROVE  /\ srv'[u] \in Outcome /\ toBridge'[i].status = srv'[u]
                      /\ \A j \in DOMAIN toBridge' : \A f : f = toBridge'[j] /\ About(f, u) => j < i
    BY <1>2 DEF EndsLast, Completes, About
  <2>1. i + 1 \in DOMAIN toBridge /\ Completes(toBridge[i + 1], u)
    BY <1>1 DEF Completes
  <2>2. /\ srv[u] \in Outcome /\ toBridge[i + 1].status = srv[u]
        /\ \A j \in DOMAIN toBridge : About(toBridge[j], u) => j < i + 1
    BY <1>3, <2>1 DEF EndsLast
  <2>3. ASSUME NEW j \in DOMAIN toBridge', NEW f, f = toBridge'[j], About(f, u) PROVE j < i
    <3>1. j + 1 \in DOMAIN toBridge /\ About(toBridge[j + 1], u)
      BY <1>1, <2>3 DEF About
    <3>2. j + 1 < i + 1
      BY <2>2, <3>1
    <3> QED
      BY <1>1, <3>2
  <2> QED
    BY <1>1, <2>2, <2>3
<1>5. ASSUME srv[u] \in Outcome, ~Ending(u) PROVE Over(u)'
  <2>1. Over(u)
    BY <1>3, <1>5
  <2>2. (\A j \in DOMAIN toBridge : ~About(toBridge[j], u))'
    BY <1>1, <2>1 DEF Over, About
  <2>3. (/\ \A r \in ready : UpToDate(r, u)
         /\ \A i \in DOMAIN toBridge : toBridge[i].type = "response" => UpToDate(toBridge[i].response, u))'
        \/ Known(u)
    BY <1>1, <2>1 DEF Over, UpToDate
  <2>4. CASE status'[u] = status[u]
    BY <2>1, <2>2, <2>3, <2>4 DEF Over, Known
  <2>5. CASE status'[u] \in {srv[u], "interrupted"}
    BY <1>5, <2>2, <2>5 DEF Over, Known, Outcome
  <2> QED
    BY <1>5, <2>4, <2>5 DEF StatusStaysOver
<1>6. ASSUME srv[u] \in Outcome, Ending(u), ~Ending(u)' PROVE Over(u)'
  <2>1. Completes(toBridge[1], u)
    <3>1. PICK i \in DOMAIN toBridge : Completes(toBridge[i], u)
      BY <1>6 DEF Ending
    <3>2. i # 1 => Ending(u)'
      <4>1. i # 1 => i - 1 \in DOMAIN toBridge' /\ toBridge'[i - 1] = toBridge[i]
        BY <1>1
      <4> HIDE <1>1
      <4> QED
        BY <3>1, <4>1 DEF Ending, Completes
    <3> QED
      BY <1>6, <3>1, <3>2
  <2>2. status'[u] = srv[u]
    BY <1>1, <1>3, <2>1 DEF EndsLast
  <2>3. (\A j \in DOMAIN toBridge : ~About(toBridge[j], u))'
    <3>1. \A j \in DOMAIN toBridge : About(toBridge[j], u) => j < 1
      BY <1>1, <1>3, <2>1 DEF EndsLast
    <3>2. ASSUME NEW j \in DOMAIN toBridge', NEW f, f = toBridge'[j], About(f, u) PROVE FALSE
      <4>1. j + 1 \in DOMAIN toBridge /\ About(toBridge[j + 1], u) /\ j \in Nat \ {0}
        BY <1>1, <3>2 DEF About
      <4>2. j + 1 < 1
        BY <3>1, <4>1
      <4> QED
        BY <4>1, <4>2
    <3> QED
      BY <3>2 DEF About
  <2> QED
    BY <1>6, <2>2, <2>3 DEF Over, Known, Outcome
<1> QED
  BY <1>4, <1>5, <1>6

\* Frames are added that end no turn, are not about a turn that is over, and carry no
\* response that is out of date.
LEMMA RecordsAfterAdding ==
    ASSUME RecordsFollow, UNCHANGED <<status, ready>>, NEW T, Grows(toBridge, toBridge', T),
           \A u \in Turn : srv'[u] = srv[u] \/ (srv[u] \notin Outcome /\ srv'[u] \notin Outcome),
           \A a, i : Asking(i, a) => approvalOf'[a] = approvalOf[a],
           \A f \in T : f.type # "turn/completed",
           \A f \in T, u \in Turn : srv[u] \in Outcome =>
              ~About(f, u)' /\ (f.type = "response" => UpToDate(f.response, u)')
    PROVE  RecordsFollow'
<1> SUFFICES ASSUME NEW u \in Turn
             PROVE  EndsLast(u)' /\ ((srv[u] \in Outcome /\ ~Ending(u))' => Over(u)')
  BY DEF RecordsFollow
<1>1. EndsLast(u) /\ (srv[u] \in Outcome /\ ~Ending(u) => Over(u))
  BY DEF RecordsFollow
<1>2. \A i \in DOMAIN toBridge' : Completes(toBridge'[i], u) => i \in DOMAIN toBridge /\ toBridge'[i] = toBridge[i]
  BY DEF Grows, Completes
<1>3. ASSUME srv[u] \in Outcome, NEW j \in DOMAIN toBridge', NEW f, f = toBridge'[j], About(f, u)'
      PROVE  j \in DOMAIN toBridge /\ f = toBridge[j] /\ About(f, u)
  <2>1. f \notin T
    BY <1>3
  <2>2. j \in DOMAIN toBridge /\ f = toBridge[j]
    BY <1>3, <2>1 DEF Grows
  <2> QED
    BY <1>3, <2>2 DEF About, Asking
<1>4. EndsLast(u)'
  <2> SUFFICES ASSUME NEW i \in DOMAIN toBridge', Completes(toBridge'[i], u)
               PROVE  /\ srv'[u] \in Outcome /\ toBridge'[i].status = srv'[u]
                      /\ \A j \in DOMAIN toBridge' : \A f : f = toBridge'[j] /\ About(f, u)' => j < i
    BY DEF EndsLast, Completes, About
  <2>1. /\ i \in DOMAIN toBridge /\ toBridge'[i] = toBridge[i] /\ Completes(toBridge[i], u)
    BY <1>2
  <2>2. /\ srv[u] \in Outcome /\ toBridge[i].status = srv[u]
        /\ \A j \in DOMAIN toBridge : About(toBridge[j], u) => j < i
    BY <1>1, <2>1 DEF EndsLast
  <2>3. ASSUME NEW j \in DOMAIN toBridge', NEW f, f = toBridge'[j], About(f, u)' PROVE j < i
    BY <1>3, <2>2, <2>3
  <2> QED
    BY <2>1, <2>2, <2>3
<1>5. ASSUME srv'[u] \in Outcome, ~Ending(u)' PROVE Over(u)'
  <2>1. srv[u] \in Outcome /\ srv'[u] = srv[u] /\ ~Ending(u)
    BY <1>5 DEF Ending, Completes, Grows
  <2>2. Over(u)
    BY <1>1, <2>1
  <2>3. (\A j \in DOMAIN toBridge : ~About(toBridge[j], u))'
    <3>1. ASSUME NEW j \in DOMAIN toBridge', NEW f, f = toBridge'[j], About(f, u)' PROVE FALSE
      BY <1>3, <2>1, <2>2, <3>1 DEF Over
    <3> QED
      BY <3>1 DEF About
  <2>4. (\A r \in ready : UpToDate(r, u))' \/ Known(u)
    BY <2>1, <2>2 DEF Over, UpToDate
  <2>5. (\A i \in DOMAIN toBridge : toBridge[i].type = "response" => UpToDate(toBridge[i].response, u))'
           \/ Known(u)
    <3>1. ASSUME NEW i \in DOMAIN toBridge', NEW f, f = toBridge'[i], f.type = "response", ~Known(u)
          PROVE  UpToDate(f.response, u)'
      <4>1. CASE f \in T
        BY <2>1, <3>1, <4>1
      <4>2. CASE f \notin T
        <5>1. f = toBridge[i] /\ i \in DOMAIN toBridge
          BY <3>1, <4>2 DEF Grows
        <5> QED
          BY <2>1, <2>2, <3>1, <5>1 DEF Over, UpToDate
      <4> QED
        BY <4>1, <4>2
    <3> QED
      BY <3>1 DEF UpToDate
  <2> QED
    BY <2>1, <2>2, <2>3, <2>4, <2>5 DEF Over, Known
<1> QED
  BY <1>4, <1>5
LEMMA RecordsAfterEnd ==
    ASSUME Inv, RecordsFollow, NEW u \in Turn, NEW s \in Outcome, ServerEnds(u, s)
    PROVE  RecordsFollow'
<1> DEFINE f == [type |-> "turn/completed", turn |-> u, status |-> s]
<1>1. /\ srv[u] = "running" /\ srv' = [srv EXCEPT ![u] = s]
      /\ toBridge \in Seq(Frame) /\ toBridge' = Append(toBridge, f)
      /\ UNCHANGED <<status, ready, approvalOf>>
  BY ChannelTypes DEF ServerEnds, Inv, storeVars
<1>2. f \in Frame /\ f.type = "turn/completed" /\ f.turn = u /\ f.status = s
  BY FramesMade
<1> HIDE DEF f
<1>3. srv'[u] = s /\ srv[u] \notin Outcome /\ \A v \in Turn \ {u} : srv'[v] = srv[v]
  BY <1>1 DEF Inv, TypeOK, Outcome
<1>4. PICK n \in Nat :
               /\ n \in DOMAIN toBridge' /\ toBridge'[n] = f
               /\ \A i \in DOMAIN toBridge' : i \in DOMAIN toBridge \/ i = n
               /\ \A i \in DOMAIN toBridge : i \in DOMAIN toBridge' /\ toBridge'[i] = toBridge[i] /\ i < n
  <2>1. /\ toBridge' \in Seq(Frame) /\ Len(toBridge') = Len(toBridge) + 1
        /\ \A i \in 1..Len(toBridge) : toBridge'[i] = toBridge[i]
        /\ toBridge'[Len(toBridge) + 1] = f
    BY <1>1, <1>2, AppendProperties
  <2>2. DOMAIN toBridge = 1..Len(toBridge) /\ DOMAIN toBridge' = 1..Len(toBridge') /\ Len(toBridge) \in Nat
    BY <1>1, <2>1, LenProperties
  <2> QED
    BY <2>1, <2>2
<1> SUFFICES ASSUME NEW v \in Turn
             PROVE  EndsLast(v)' /\ ((srv[v] \in Outcome /\ ~Ending(v))' => Over(v)')
  BY DEF RecordsFollow
<1>5. EndsLast(v) /\ (srv[v] \in Outcome /\ ~Ending(v) => Over(v))
  BY DEF RecordsFollow
<1>6. ~About(f, v) /\ (Completes(f, v) <=> v = u)
  BY <1>2 DEF About, Completes
<1>7. ASSUME NEW i \in DOMAIN toBridge', Completes(toBridge'[i], v)
      PROVE  /\ srv'[v] \in Outcome /\ toBridge'[i].status = srv'[v]
             /\ \A j \in DOMAIN toBridge' : \A g : g = toBridge'[j] /\ About(g, v) => j < i
  <2>1. CASE i \in DOMAIN toBridge
    <3>1. Completes(toBridge[i], v) /\ toBridge'[i] = toBridge[i]
      BY <1>4, <1>7, <2>1
    <3>2. /\ srv[v] \in Outcome /\ toBridge[i].status = srv[v]
          /\ \A j \in DOMAIN toBridge : About(toBridge[j], v) => j < i
      BY <1>5, <2>1, <3>1 DEF EndsLast
    <3>3. v # u
      BY <1>3, <3>2
    <3>4. ASSUME NEW j \in DOMAIN toBridge', NEW g, g = toBridge'[j], About(g, v) PROVE j < i
      <4>1. j \in DOMAIN toBridge /\ g = toBridge[j]
        BY <1>4, <1>6, <3>4
      <4> QED
        BY <3>2, <3>4, <4>1
    <3> QED
      BY <1>3, <3>1, <3>2, <3>3, <3>4
  <2>2. CASE i \notin DOMAIN toBridge
    <3>1. i = n /\ v = u
      BY <1>4, <1>6, <1>7, <2>2
    <3>2. ASSUME NEW j \in DOMAIN toBridge', NEW g, g = toBridge'[j], About(g, v) PROVE j < i
      <4>1. j \in DOMAIN toBridge
        BY <1>4, <1>6, <3>2
      <4> QED
        BY <1>4, <3>1, <4>1
    <3> QED
      BY <1>2, <1>3, <1>4, <3>1, <3>2
  <2> QED
    BY <2>1, <2>2
<1>8. EndsLast(v)'
  BY <1>1, <1>7 DEF EndsLast, Completes, About
<1>9. ASSUME srv'[v] \in Outcome, ~Ending(v)' PROVE Over(v)'
  <2>1. v # u
    BY <1>4, <1>6, <1>9 DEF Ending, Completes
  <2>2. srv'[v] = srv[v] /\ ~Ending(v)
    BY <1>3, <1>4, <1>9, <2>1 DEF Ending, Completes
  <2>3. Over(v)
    BY <1>5, <1>9, <2>2
  <2>4. (\A j \in DOMAIN toBridge : ~About(toBridge[j], v))'
    <3>1. ASSUME NEW j \in DOMAIN toBridge', NEW g, g = toBridge'[j], About(g, v) PROVE FALSE
      <4>1. j \in DOMAIN toBridge /\ g = toBridge[j]
        BY <1>4, <1>6, <3>1
      <4> QED
        BY <2>3, <3>1, <4>1 DEF Over
    <3> QED
      BY <1>1, <3>1 DEF About
  <2>5. (/\ \A r \in ready : UpToDate(r, v)
         /\ \A i \in DOMAIN toBridge : toBridge[i].type = "response" => UpToDate(toBridge[i].response, v))'
        \/ Known(v)
    BY <1>1, <1>2, <1>4, <2>2, <2>3 DEF Over, UpToDate
  <2> QED
    BY <1>1, <2>2, <2>3, <2>4, <2>5 DEF Over, Known
<1> QED
  BY <1>8, <1>9
LEMMA ReplyFields ==
    ASSUME NEW c, NEW u, NEW raw, NEW h
    PROVE  /\ Reply(c, u, raw, h).type = "response"
           /\ Reply(c, u, raw, h).response.call = c
           /\ Reply(c, u, raw, h).response.turn = u
           /\ Reply(c, u, raw, h).response.raw = raw
           /\ Reply(c, u, raw, h).response.hint = h
BY DEF Reply

\* The steps of the store.
LEMMA FramesFollow == Inv /\ RecordsFollow /\ Frames => RecordsFollow'
<1> SUFFICES ASSUME Inv, RecordsFollow, NEW f \in Frame, f = Head(toBridge), Frames PROVE RecordsFollow'
  BY ChannelTypes, Taken DEF Inv, Frames, ReceiveResponse, TurnStarted, TurnCompleted, ApprovalRequested, Handle
<1>1. /\ toBridge # <<>> /\ toBridge' = Tail(toBridge) /\ 1 \in DOMAIN toBridge /\ f = toBridge[1]
      /\ UNCHANGED <<srv, approvalOf>>
  <2>1. toBridge # <<>> /\ toBridge' = Tail(toBridge) /\ UNCHANGED <<srv, approvalOf>>
    BY DEF Frames, ReceiveResponse, TurnStarted, TurnCompleted, ApprovalRequested, Handle, serverVars
  <2> QED
    BY <2>1, ChannelTypes, Taken DEF Inv
<1>2. \A v \in Turn : srv[v] \in Outcome /\ ~Ending(v) => ~About(f, v) /\ ~Completes(f, v)
  BY <1>1 DEF RecordsFollow, Over, Ending
<1>3. CASE ReceiveResponse
  <2>1. /\ UNCHANGED status /\ ready' = ready \cup {f.response} /\ f.type = "response"
    BY <1>3 DEF ReceiveResponse, storeVars, Handle
  <2> QED
    BY <1>1, <2>1, RecordsAfterFrame DEF Inv, StatusStaysOver, Completes
<1>4. CASE TurnStarted
  <2>1. /\ status' = [status EXCEPT ![f.turn] = "running"] /\ UNCHANGED ready /\ f.type = "turn/started"
    BY <1>4 DEF TurnStarted, Handle
  <2>2. StatusStaysOver
    BY <1>2, <2>1 DEF StatusStaysOver, About, Inv, TypeOK
  <2> QED
    BY <1>1, <2>1, <2>2, RecordsAfterFrame DEF Inv, Completes
<1>5. CASE TurnCompleted
  <2>1. /\ status' = [status EXCEPT ![f.turn] = f.status] /\ UNCHANGED ready /\ f.type = "turn/completed"
    BY <1>5 DEF TurnCompleted, Handle
  <2>2. StatusStaysOver
    BY <1>2, <2>1 DEF StatusStaysOver, Completes, Inv, TypeOK
  <2>3. \A v \in Turn : Completes(f, v) => status'[v] = f.status
    BY <2>1 DEF Completes, Inv, TypeOK
  <2> QED
    BY <1>1, <2>1, <2>2, <2>3, RecordsAfterFrame DEF Inv
<1>6. CASE ApprovalRequested
  <2> DEFINE u == approvalOf[f.approval]
  <2>1. /\ f.type = "requestApproval" /\ UNCHANGED ready
        /\ status' = status \/ \E s \in Active : status' = [status EXCEPT ![u] = s]
    BY <1>6 DEF ApprovalRequested, Handle, Active
  <2> HIDE DEF u
  <2>2. \A v \in Turn : v # u => status'[v] = status[v]
    BY <2>1 DEF Inv, TypeOK
  <2>3. StatusStaysOver
    BY <1>2, <2>1, <2>2 DEF StatusStaysOver, About, u
  <2> QED
    BY <1>1, <2>1, <2>3, RecordsAfterFrame DEF Inv, Completes
<1> QED
  BY <1>3, <1>4, <1>5, <1>6 DEF Frames

LEMMA DecideFollows ==
    ASSUME Inv, RecordsFollow, NEW a \in Approval, NEW d \in {"approved", "denied"}, DecideApproval(a, d)
    PROVE  RecordsFollow'
<1>1. /\ UNCHANGED <<srv, approvalOf, toBridge, ready>>
      /\ \/ status' = status
         \/ /\ status[approvalOf[a]] = "waiting_approval"
            /\ status' = [status EXCEPT ![approvalOf[a]] = "running"]
  BY DEF DecideApproval, serverVars
<1>2. StatusStaysOver
  BY <1>1 DEF StatusStaysOver, RecordsFollow, Over, Known, Inv, TypeOK, Outcome
<1> QED
  BY <1>1, <1>2, RecordsStill

LEMMA ContinuationsFollow == Inv /\ RecordsFollow /\ Continuations => RecordsFollow'
<1> SUFFICES ASSUME Inv, RecordsFollow, NEW r \in ready,
                    StartReturns(r) \/ InterruptReturns(r) \/ ReadReturns(r) \/ ListReturns(r)
             PROVE  RecordsFollow'
  BY DEF Continuations
<1>1. UNCHANGED <<srv, approvalOf, toBridge>> /\ ready' \subseteq ready
  BY DEF StartReturns, InterruptReturns, ReadReturns, ListReturns, Resume, serverVars
<1>2. \A v \in Turn : srv[v] \in Outcome /\ ~Ending(v) /\ ~Known(v) => UpToDate(r, v)
  BY DEF RecordsFollow, Over
<1>3. status \in [Turn -> {"absent"} \cup Active \cup Outcome]
  BY DEF Inv, TypeOK
<1>4. CASE StartReturns(r)
  <2>1. r.call.op = "start" /\ (status' = status \/ (~Known(r.turn) /\ status' = [status EXCEPT ![r.turn] = "running"]))
    BY <1>4 DEF StartReturns, Resume, RecordStarted
  <2>2. StatusStaysOver
    BY <1>2, <1>3, <2>1 DEF StatusStaysOver, UpToDate
  <2> QED
    BY <1>1, <2>2, RecordsStill
<1>5. CASE InterruptReturns(r)
  <2>1. StatusStaysOver
    BY <1>3, <1>5 DEF InterruptReturns, StatusStaysOver
  <2> QED
    BY <1>1, <2>1, RecordsStill
<1>6. CASE ReadReturns(r)
  <2>1. /\ r.call.op = "read"
        /\ \A v \in Turn : status'[v] = IF r.raw[v] # "absent" /\ ~Known(v) THEN r.raw[v] ELSE status[v]
    BY <1>6 DEF ReadReturns, Resume
  <2>2. StatusStaysOver
    BY <1>2, <2>1 DEF StatusStaysOver, UpToDate
  <2> QED
    BY <1>1, <2>2, RecordsStill
<1>7. CASE ListReturns(r)
  <2>1. StatusStaysOver
    BY <1>7 DEF ListReturns, StatusStaysOver
  <2> QED
    BY <1>1, <2>1, RecordsStill
<1> QED
  BY <1>4, <1>5, <1>6, <1>7
\* The steps of the app-server.
LEMMA BeginFollows ==
    ASSUME Inv, NEW u \in Turn, NEW t, NEW m, Begin(u, t, m)
    PROVE  /\ UNCHANGED <<status, ready, approvalOf>> /\ srv[u] = "absent"
           /\ \A v \in Turn : srv'[v] = srv[v] \/ (srv[v] \notin Outcome /\ srv'[v] \notin Outcome)
BY DEF Begin, storeVars, Inv, TypeOK, Outcome

LEMMA ServerStartsFollows ==
    ASSUME Inv, RecordsFollow, NEW u \in Turn, ServerStarts(u)
    PROVE  RecordsFollow'
<1>1. PICK c \in Call : c = Head(toServer) /\ c.op = "start"
  BY Requested DEF ServerStarts
<1> DEFINE e == Reply(c, u, NoRaw, NoHint)
           f == [type |-> "turn/started", turn |-> u]
           T == {e, f}
<1>2. toBridge' = toBridge \o <<e, f>> /\ Begin(u, c.thread, c.mode)
  BY <1>1 DEF ServerStarts
<1>3. e \in Frame /\ e.type = "response" /\ e.response.call = c /\ e.response.turn = u
  <2>1. e \in Frame
    BY <1>1, Snapshots, ReplyMade
  <2> QED
    BY <2>1, ReplyFields
<1>4. f \in Frame /\ f.type = "turn/started" /\ f.turn = u
  BY FramesMade
<1> HIDE DEF e, f
<1>5. Grows(toBridge, toBridge', T)
  BY <1>2, <1>3, <1>4, TwoGrow, ChannelTypes DEF Inv
<1>6. /\ UNCHANGED <<status, ready, approvalOf>> /\ srv[u] = "absent"
      /\ \A v \in Turn : srv'[v] = srv[v] \/ (srv[v] \notin Outcome /\ srv'[v] \notin Outcome)
  BY <1>2, BeginFollows
<1>7. \A v \in Turn : srv[v] \in Outcome => v # u
  BY <1>6 DEF Outcome
<1>8. \A x \in T, v \in Turn : srv[v] \in Outcome =>
         ~About(x, v)' /\ (x.type = "response" => UpToDate(x.response, v)')
  BY <1>1, <1>3, <1>4, <1>7 DEF About, UpToDate
<1>9. \A x \in T : x.type # "turn/completed"
  BY <1>3, <1>4
<1> HIDE DEF T
<1> QED
  BY <1>5, <1>6, <1>8, <1>9, RecordsAfterAdding

LEMMA ServerStartsElsewhereFollows ==
    ASSUME Inv, RecordsFollow, NEW u \in Turn, NEW t \in Thread, ServerStartsElsewhere(u, t)
    PROVE  RecordsFollow'
<1> DEFINE f == [type |-> "turn/started", turn |-> u]
           T == {f}
<1>1. f \in Frame /\ f.type = "turn/started" /\ f.turn = u
  BY FramesMade
<1>2. toBridge' = Append(toBridge, f) /\ Begin(u, t, "elsewhere")
  BY DEF ServerStartsElsewhere
<1> HIDE DEF f
<1>3. Grows(toBridge, toBridge', T)
  BY <1>1, <1>2, OneGrows, ChannelTypes DEF Inv
<1>4. /\ UNCHANGED <<status, ready, approvalOf>> /\ srv[u] = "absent"
      /\ \A v \in Turn : srv'[v] = srv[v] \/ (srv[v] \notin Outcome /\ srv'[v] \notin Outcome)
  BY <1>2, BeginFollows
<1>5. \A v \in Turn : srv[v] \in Outcome => v # u
  BY <1>4 DEF Outcome
<1>6. \A x \in T, v \in Turn : srv[v] \in Outcome =>
         ~About(x, v)' /\ (x.type = "response" => UpToDate(x.response, v)')
  BY <1>1, <1>5 DEF About
<1>7. \A x \in T : x.type # "turn/completed"
  BY <1>1
<1> HIDE DEF T
<1> QED
  BY <1>3, <1>4, <1>6, <1>7, RecordsAfterAdding

\* The answer to an interrupt, or what a snapshot shows now.
LEMMA RepliesFollow ==
    ASSUME Inv, RecordsFollow, NEW k \in {"interrupt", "read", "list"}, Take(k),
           NEW raw \in RawTurns, NEW h \in [Thread -> Turn \cup {NoTurn}],
           k = "read" => \A v \in Turn : raw[v] \in {"absent", srv[v]},
           toBridge' = Append(toBridge, Reply(Head(toServer), NoTurn, raw, h)),
           UNCHANGED <<storeVars, ready, calls, serverVars>>
    PROVE  RecordsFollow'
<1>1. PICK c \in Call : c = Head(toServer) /\ c.op = k
  BY Requested
<1> DEFINE e == Reply(c, NoTurn, raw, h)
           T == {e}
<1>2. e \in Frame /\ e.type = "response" /\ e.response.call = c /\ e.response.raw = raw
  <2>1. e \in Frame
    BY ReplyMade
  <2> QED
    BY <2>1, ReplyFields
<1>3. toBridge' = Append(toBridge, e)
  BY <1>1
<1> HIDE DEF e
<1>4. Grows(toBridge, toBridge', T)
  BY <1>2, <1>3, OneGrows, ChannelTypes DEF Inv
<1>5. UNCHANGED <<status, ready, srv, approvalOf>>
  BY DEF storeVars, serverVars
<1>6. \A x \in T, v \in Turn : srv[v] \in Outcome =>
         ~About(x, v)' /\ (x.type = "response" => UpToDate(x.response, v)')
  BY <1>1, <1>2, <1>5 DEF About, UpToDate
<1>7. \A x \in T : x.type # "turn/completed"
  BY <1>2
<1> HIDE DEF T
<1> QED
  BY <1>4, <1>5, <1>6, <1>7, RecordsAfterAdding

LEMMA SnapshotsNow == \A t, v : v \in Turn => Snapshot(t)[v] \in {"absent", srv[v]}
BY DEF Snapshot

LEMMA ServerRepliesFollow == Inv /\ RecordsFollow /\ (ServerInterrupts \/ ServerReads) => RecordsFollow'
<1> SUFFICES ASSUME Inv, RecordsFollow, ServerInterrupts \/ ServerReads PROVE RecordsFollow'
  OBVIOUS
<1>1. CASE ServerInterrupts
  BY <1>1, RepliesFollow, Snapshots DEF ServerInterrupts
<1>2. CASE ServerReads
  BY <1>2, RepliesFollow, Snapshots, SnapshotsNow DEF ServerReads
<1> QED
  BY <1>1, <1>2

LEMMA ServerAsksFollows ==
    ASSUME Inv, RecordsFollow, NEW a \in Approval, NEW u \in Turn, ServerAsks(a, u)
    PROVE  RecordsFollow'
<1> DEFINE f == [type |-> "requestApproval", approval |-> a]
           T == {f}
<1>1. f \in Frame /\ f.type = "requestApproval" /\ f.approval = a
  BY FramesMade
<1>2. /\ approvalOf[a] = NoTurn /\ approvalOf' = [approvalOf EXCEPT ![a] = u] /\ srv[u] = "running"
      /\ toBridge' = Append(toBridge, f) /\ UNCHANGED <<status, ready, srv>>
  BY DEF ServerAsks, storeVars
<1> HIDE DEF f
<1>3. Grows(toBridge, toBridge', T)
  BY <1>1, <1>2, OneGrows, ChannelTypes DEF Inv
<1>4. approvalOf'[a] = u /\ \A b \in Approval \ {a} : approvalOf'[b] = approvalOf[b]
  BY <1>2 DEF Inv, TypeOK
<1>5. \A v \in Turn : srv[v] \in Outcome => v # u
  BY <1>2 DEF Outcome
<1>6. \A x \in T, v \in Turn : srv[v] \in Outcome =>
         ~About(x, v)' /\ (x.type = "response" => UpToDate(x.response, v)')
  BY <1>1, <1>4, <1>5 DEF About
<1>7. \A x \in T : x.type # "turn/completed"
  BY <1>1
<1>8. ASSUME NEW b, NEW i, Asking(i, b) PROVE approvalOf'[b] = approvalOf[b]
  <2>1. b \in Approval
    <3>1. toBridge[i] \in Frame
      BY <1>8, ChannelTypes, ElementOfSeq, LenProperties DEF Asking, Inv
    <3> QED
      BY <1>8, <3>1, FrameFields DEF Asking
  <2>2. b # a
    BY <1>2, <1>8 DEF Inv, AskedOnce
  <2> QED
    BY <1>4, <2>1, <2>2
<1> HIDE DEF T
<1> QED
  BY <1>2, <1>3, <1>6, <1>7, <1>8, RecordsAfterAdding

LEMMA RecordsStep == Inv /\ RecordsFollow /\ [Next]_vars => RecordsFollow'
<1> SUFFICES ASSUME Inv, RecordsFollow, [Next]_vars PROVE RecordsFollow'
  OBVIOUS
<1>1. UNCHANGED <<status, srv, approvalOf, toBridge, ready>> => RecordsFollow'
  BY RecordsStill DEF StatusStaysOver
<1>2. CASE \/ \E t \in Thread, m \in AccessMode : StartTurn(t, m)
           \/ \E u \in Turn : InterruptTurn(u)
           \/ \E t \in Thread : GetThread(t)
           \/ ListThreads
  BY <1>1, <1>2 DEF StartTurn, InterruptTurn, GetThread, ListThreads, Request, storeVars, serverVars
<1>3. ASSUME NEW a \in Approval, NEW d \in {"approved", "denied"}, DecideApproval(a, d) PROVE RecordsFollow'
  BY <1>3, DecideFollows
<1>4. CASE Frames
  BY <1>4, FramesFollow
<1>5. CASE Continuations
  BY <1>5, ContinuationsFollow
<1>6. CASE ServerHandles
  <2>1. ServerRefuses \/ ServerTakesAnswer => RecordsFollow'
    BY <1>1 DEF ServerRefuses, ServerTakesAnswer, storeVars, serverVars
  <2> QED
    BY <1>6, <2>1, ServerStartsFollows, ServerRepliesFollow DEF ServerHandles
<1>7. ASSUME NEW u \in Turn, NEW t \in Thread, ServerStartsElsewhere(u, t) PROVE RecordsFollow'
  BY <1>7, ServerStartsElsewhereFollows
<1>8. ASSUME NEW a \in Approval, NEW u \in Turn, ServerAsks(a, u) PROVE RecordsFollow'
  BY <1>8, ServerAsksFollows
<1>9. ASSUME NEW u \in Turn, NEW s \in Outcome, ServerEnds(u, s) PROVE RecordsFollow'
  BY <1>9, RecordsAfterEnd
<1>10. CASE UNCHANGED vars
  BY <1>1, <1>10 DEF vars
<1> QED
  BY <1>2, <1>3, <1>4, <1>5, <1>6, <1>7, <1>8, <1>9, <1>10 DEF Next

LEMMA RecordsInit == Init => RecordsFollow
<1> SUFFICES ASSUME Init, NEW u \in Turn PROVE EndsLast(u) /\ Over(u)
  BY DEF RecordsFollow
<1>1. DOMAIN toBridge = {} /\ ready = {} /\ ~Known(u)
  <2>1. DOMAIN <<>> = {}
    OBVIOUS
  <2> QED
    BY <2>1 DEF Init, Known
<1> QED
  BY <1>1 DEF EndsLast, Over

\* Once all frames are handled no record shows a turn as active that has ended
\* (updateTurnRecordFromNotification, startTurn, getThread, decideApproval).
THEOREM RecordsAreFinal == Spec => []RecordsCatchUp
<1>1. Inv /\ RecordsFollow => RecordsCatchUp
  <2> SUFFICES ASSUME RecordsFollow, toBridge = <<>>, NEW u \in Turn, Known(u), srv[u] \in Outcome
               PROVE  status[u] \in {srv[u], "interrupted"}
    BY DEF RecordsCatchUp
  <2>1. ~Ending(u)
    <3>1. DOMAIN <<>> = {}
      OBVIOUS
    <3> QED
      BY <3>1 DEF Ending
  <2> QED
    BY <2>1 DEF RecordsFollow, Over
<1>2. Inv /\ RecordsFollow /\ [Next]_vars => (Inv /\ RecordsFollow)'
  BY NextInv, RecordsStep
<1>3. Init => Inv /\ RecordsFollow
  BY InitInv, RecordsInit
<1> QED
  BY <1>1, <1>2, <1>3, PTL DEF Spec
-----------------------------------------------------------------------------
(* The pointers. What the app-server says of the turns of a thread comes   *)
(* turn by turn: when a frame says that one of them starts or ends, every  *)
(* other turn of the thread is over as far as the store will have heard,   *)
(* or has not been heard of.                                               *)

TellsOfTurn(f) == f.type \in {"turn/started", "turn/completed"}

Names(r, u) ==
    \/ r.turn = u
    \/ r.raw[u] # "absent"
    \/ \E t \in Thread : r.hint[t] = u

Mentions(f, u) ==
    \/ TellsOfTurn(f) /\ f.turn = u
    \/ f.type = "requestApproval" /\ approvalOf[f.approval] = u
    \/ f.type = "response" /\ Names(f.response, u)

\* Neither the store nor the first n frames know of u.
Unheard(u, n) ==
    /\ ~Known(u)
    /\ \A t \in Thread : activeTurnByThread[t] # u
    /\ \A r \in ready : ~Names(r, u)
    /\ \A j \in DOMAIN toBridge : j =< n => ~Mentions(toBridge[j], u)

\* By the time of the n-th frame the store has been told that u is over.
Past(u, n) ==
    srv[u] \in Outcome /\ \A j \in DOMAIN toBridge : Completes(toBridge[j], u) => j < n

Apart(u, n) == Past(u, n) \/ Unheard(u, n)

\* What a response says of a thread is about turns of that thread.
Placed(r) ==
    /\ r.call.op = "start" => r.turn # NoTurn /\ threadOf[r.turn] = r.call.thread
    /\ \A t \in Thread : r.hint[t] # NoTurn => threadOf[r.hint[t]] = t
    /\ r.call.op = "read" => \A u \in Turn : r.raw[u] # "absent" => threadOf[u] = r.call.thread

OneRuns ==
    \A u, v \in Turn : srv[u] = "running" /\ srv[v] = "running" /\ threadOf[u] = threadOf[v] => u = v

NotYet == \A u \in Turn : srv[u] = "absent" => \A n \in Nat : Unheard(u, n)

InPlace ==
    /\ \A t \in Thread : activeTurnByThread[t] # NoTurn => threadOf[activeTurnByThread[t]] = t
    /\ \A r \in ready : Placed(r)
    /\ \A i \in DOMAIN toBridge : toBridge[i].type = "response" => Placed(toBridge[i].response)

InOrder ==
    \A i \in DOMAIN toBridge : TellsOfTurn(toBridge[i]) =>
        \A u \in Turn : u # toBridge[i].turn /\ threadOf[u] = threadOf[toBridge[i].turn] => Apart(u, i)

Pointers == OneRuns /\ NotYet /\ InPlace /\ InOrder

\* The store's own steps hear of turns only from the responses it has.
FromReady ==
    /\ \A u \in Turn : Known(u)' => Known(u) \/ \E r \in ready : Names(r, u)
    /\ \A t \in Thread : LET u == activeTurnByThread'[t] IN
          \/ u \in {activeTurnByThread[t], NoTurn}
          \/ threadOf[u] = t /\ \E r \in ready : Names(r, u)

LEMMA Indexed ==
    ASSUME TypeOK
    PROVE  /\ toBridge \in Seq(Frame) /\ Len(toBridge) \in Nat
           /\ DOMAIN toBridge = 1..Len(toBridge)
           /\ \A i \in DOMAIN toBridge : toBridge[i] \in Frame /\ i \in Nat
BY ChannelTypes, LenProperties, ElementOfSeq

LEMMA TurnTold ==
    ASSUME TypeOK, NEW i \in DOMAIN toBridge, TellsOfTurn(toBridge[i])
    PROVE  toBridge[i].turn \in Turn
BY Indexed, FrameFields DEF TellsOfTurn

LEMMA PointersStill ==
    ASSUME TypeOK, Pointers, UNCHANGED <<srv, threadOf, approvalOf, toBridge>>, ready' \subseteq ready, FromReady
    PROVE  Pointers'
<1>1. ASSUME NEW u \in Turn, NEW n, Unheard(u, n) PROVE Unheard(u, n)'
  <2>1. ~Known(u)'
    BY <1>1 DEF FromReady, Unheard
  <2>2. \A t \in Thread : activeTurnByThread'[t] # u
    BY <1>1, Constants DEF FromReady, Unheard
  <2>3. \A f : Mentions(f, u)' <=> Mentions(f, u)
    BY DEF Mentions, TellsOfTurn, Names
  <2> QED
    BY <1>1, <2>1, <2>2, <2>3 DEF Unheard, Names, Mentions, TellsOfTurn
<1>2. OneRuns'
  BY DEF Pointers, OneRuns
<1>3. NotYet'
  BY <1>1 DEF Pointers, NotYet
<1>4. InPlace'
  BY DEF Pointers, InPlace, Placed, FromReady
<1>5. InOrder'
  <2> SUFFICES ASSUME NEW i \in DOMAIN toBridge, TellsOfTurn(toBridge[i]),
                      NEW u \in Turn, u # toBridge[i].turn, threadOf[u] = threadOf[toBridge[i].turn]
               PROVE  Apart(u, i)'
    BY DEF InOrder, TellsOfTurn
  <2>1. Apart(u, i)
    BY DEF Pointers, InOrder
  <2> QED
    BY <1>1, <2>1 DEF Apart, Past, Completes
<1> QED
  BY <1>2, <1>3, <1>4, <1>5 DEF Pointers

\* A frame tells the store of the turns it mentions.
FromFrame ==
    LET f == Head(toBridge) IN
    /\ \A u \in Turn : Known(u)' => Known(u) \/ Mentions(f, u)
    /\ \A t \in Thread : LET u == activeTurnByThread'[t] IN
          \/ u \in {activeTurnByThread[t], NoTurn}
          \/ threadOf[u] = t /\ Mentions(f, u)
    /\ \A r \in ready' : r \in ready \/ (f.type = "response" /\ r = f.response)

LEMMA PointersAfterFrame ==
    ASSUME TypeOK, Pointers, UNCHANGED <<srv, threadOf, approvalOf>>,
           toBridge # <<>>, toBridge' = Tail(toBridge), FromFrame
    PROVE  Pointers'
<1>1. /\ \A i \in DOMAIN toBridge' : i \in Nat /\ i + 1 \in DOMAIN toBridge /\ toBridge'[i] = toBridge[i + 1]
      /\ 1 \in DOMAIN toBridge /\ Head(toBridge) = toBridge[1]
  BY Indexed, Taken, LenProperties
<1>2. ASSUME NEW u \in Turn, NEW n \in Nat, Unheard(u, n + 1) PROVE Unheard(u, n)'
  <2>1. ~Mentions(Head(toBridge), u)
    <3>1. 1 =< n + 1
      OBVIOUS
    <3> QED
      BY <1>1, <1>2, <3>1 DEF Unheard
  <2>2. ~Known(u)'
    BY <1>2, <2>1 DEF FromFrame, Unheard
  <2>3. \A t \in Thread : activeTurnByThread'[t] # u
    BY <1>2, <2>1, Constants DEF FromFrame, Unheard
  <2>4. \A r \in ready' : ~Names(r, u)
    BY <1>2, <2>1 DEF FromFrame, Unheard, Mentions
  <2>5. ASSUME NEW j \in DOMAIN toBridge', j =< n PROVE ~Mentions(toBridge[j + 1], u)
    BY <1>1, <1>2, <2>5 DEF Unheard
  <2>6. \A j \in DOMAIN toBridge' : j =< n => ~Mentions(toBridge[j], u)'
    BY <1>1, <2>5 DEF Mentions, TellsOfTurn, Names
  <2> QED
    BY <2>2, <2>3, <2>4, <2>6 DEF Unheard, Names
<1>3. OneRuns'
  BY DEF Pointers, OneRuns
<1>4. NotYet'
  BY <1>2 DEF Pointers, NotYet
<1>5. InPlace'
  <2>1. \A r : Placed(r)' <=> Placed(r)
    BY DEF Placed
  <2>2. \A r \in ready' : Placed(r)
    BY <1>1 DEF Pointers, InPlace, FromFrame
  <2>3. \A i \in DOMAIN toBridge' : toBridge'[i].type = "response" => Placed(toBridge'[i].response)
    BY <1>1 DEF Pointers, InPlace
  <2>4. \A t \in Thread : activeTurnByThread'[t] # NoTurn => threadOf[activeTurnByThread'[t]] = t
    BY DEF Pointers, InPlace, FromFrame
  <2> QED
    BY <2>1, <2>2, <2>3, <2>4 DEF InPlace
<1>6. InOrder'
  <2> SUFFICES ASSUME NEW i \in DOMAIN toBridge', TellsOfTurn(toBridge'[i]),
                      NEW u \in Turn, u # toBridge'[i].turn, threadOf[u] = threadOf[toBridge'[i].turn]
               PROVE  Apart(u, i)'
    BY DEF InOrder, TellsOfTurn
  <2>1. i \in Nat /\ Apart(u, i + 1)
    BY <1>1 DEF Pointers, InOrder
  <2>2. CASE Past(u, i + 1)
    <3>1. ASSUME NEW j \in DOMAIN toBridge', Completes(toBridge'[j], u) PROVE j < i
      <4>1. j + 1 \in DOMAIN toBridge /\ Completes(toBridge[j + 1], u) /\ j \in Nat
        BY <1>1, <3>1
      <4>2. j + 1 < i + 1
        BY <2>2, <4>1 DEF Past
      <4> QED
        BY <2>1, <4>1, <4>2
    <3> QED
      BY <2>2, <3>1 DEF Apart, Past, Completes
  <2>3. CASE Unheard(u, i + 1)
    BY <1>2, <2>1, <2>3 DEF Apart
  <2> QED
    BY <2>1, <2>2, <2>3 DEF Apart
<1> QED
  BY <1>3, <1>4, <1>5, <1>6 DEF Pointers
\* The app-server adds frames at the end: they mention turns it has, and one that tells
\* of a turn tells it when no other turn of the thread runs.
LEMMA PointersAfterAdding ==
    ASSUME TypeOK, toBridge' \in Seq(Frame), Pointers, UNCHANGED <<status, activeTurnByThread, ready>>,
           NEW T, Grows(toBridge, toBridge', T),
           \A a, i : Asking(i, a) => approvalOf'[a] = approvalOf[a],
           \A u \in Turn :
              /\ srv'[u] = "absent" => srv[u] = "absent"
              /\ srv[u] # "absent" => threadOf'[u] = threadOf[u]
              /\ srv[u] \in Outcome => srv'[u] = srv[u],
           OneRuns',
           \A f \in T, u \in Turn :
              /\ Mentions(f, u)' => srv'[u] # "absent"
              /\ Completes(f, u) => srv[u] \notin Outcome,
           \A f \in T : f.type = "response" => Placed(f.response)',
           \A f \in T : TellsOfTurn(f) => \A u \in Turn :
              u # f.turn /\ threadOf'[u] = threadOf'[f.turn] =>
                 srv'[u] \in {"absent"} \cup Outcome /\ \A g \in T : ~Completes(g, u)
    PROVE  Pointers'
<1>1. /\ \A i \in DOMAIN toBridge : i \in Nat /\ i \in DOMAIN toBridge' /\ toBridge'[i] = toBridge[i]
                                    /\ toBridge[i] \in Frame
      /\ \A j \in DOMAIN toBridge' : /\ j \in Nat /\ toBridge'[j] \in Frame
                                     /\ j \in DOMAIN toBridge \/ toBridge'[j] \in T
      /\ \A j \in DOMAIN toBridge' \ DOMAIN toBridge : \A i \in DOMAIN toBridge : i < j
  <2>1. DOMAIN toBridge' = 1..Len(toBridge') /\ Len(toBridge') \in Nat
    BY LenProperties
  <2>2. \A j \in DOMAIN toBridge' : toBridge'[j] \in Frame
    BY <2>1, ElementOfSeq
  <2> QED
    BY <2>1, <2>2, Indexed DEF Grows
<1>2. ASSUME NEW u \in Turn, srv[u] = "absent" PROVE \A j \in DOMAIN toBridge : ~Mentions(toBridge[j], u)
  <2>1. \A n \in Nat : Unheard(u, n)
    BY <1>2 DEF Pointers, NotYet
  <2> QED
    BY <1>1, <2>1 DEF Unheard
<1>3. ASSUME NEW j \in DOMAIN toBridge, NEW f, f = toBridge[j], NEW u PROVE Mentions(f, u)' <=> Mentions(f, u)
  BY <1>3 DEF Mentions, TellsOfTurn, Names, Asking
<1>4. ASSUME NEW u \in Turn, NEW n \in Nat, Unheard(u, n), n \in DOMAIN toBridge \/ srv'[u] = "absent"
      PROVE  Unheard(u, n)'
  <2>1. ASSUME NEW j \in DOMAIN toBridge', j =< n, NEW f, f = toBridge'[j] PROVE ~Mentions(f, u)'
    <3>1. CASE j \in DOMAIN toBridge
      BY <1>1, <1>3, <1>4, <2>1, <3>1 DEF Unheard
    <3>2. CASE j \notin DOMAIN toBridge /\ n \in DOMAIN toBridge
      <4>1. n < j /\ j \in Nat
        BY <1>1, <2>1, <3>2
      <4> QED
        BY <2>1, <4>1
    <3>3. CASE j \notin DOMAIN toBridge /\ srv'[u] = "absent"
      <4>1. f \in T
        BY <1>1, <2>1, <3>3
      <4> QED
        BY <3>3, <4>1
    <3> QED
      BY <1>4, <3>1, <3>2, <3>3
  <2>2. \A j \in DOMAIN toBridge' : j =< n => ~Mentions(toBridge[j], u)'
    BY <2>1 DEF Mentions, TellsOfTurn, Names
  <2> QED
    BY <1>4, <2>2 DEF Unheard, Known, Names
<1>5. NotYet'
  BY <1>4 DEF Pointers, NotYet
<1>6. ASSUME NEW r, Placed(r), \A u \in Turn : Names(r, u) => srv[u] # "absent", r \in Response
      PROVE  Placed(r)'
  BY <1>6, ResponseFields, CallFields DEF Placed, Names
<1>7. InPlace'
  <2>1. \A t \in Thread : activeTurnByThread'[t] # NoTurn => threadOf'[activeTurnByThread'[t]] = t
    <3>1. ASSUME NEW t \in Thread, activeTurnByThread[t] # NoTurn PROVE srv[activeTurnByThread[t]] # "absent"
      <4>1. activeTurnByThread[t] \in Turn /\ 0 \in Nat
        BY <3>1 DEF TypeOK
      <4> QED
        BY <4>1 DEF Pointers, NotYet, Unheard
    <3> QED
      BY <3>1 DEF Pointers, InPlace, TypeOK
  <2>2. \A r \in ready : Placed(r)'
    <3>1. \A r \in ready : r \in Response /\ \A u \in Turn : Names(r, u) => srv[u] # "absent"
      <4>1. 0 \in Nat
        OBVIOUS
      <4> QED
        BY <4>1 DEF Pointers, NotYet, Unheard, TypeOK
    <3> QED
      BY <1>6, <3>1 DEF Pointers, InPlace
  <2>3. ASSUME NEW i \in DOMAIN toBridge', NEW f, f = toBridge'[i], f.type = "response"
        PROVE  Placed(f.response)'
    <3>1. CASE i \in DOMAIN toBridge
      <4>1. f = toBridge[i] /\ f \in Frame /\ Placed(f.response)
        BY <1>1, <2>3, <3>1 DEF Pointers, InPlace
      <4>2. f.response \in Response
        BY <2>3, <4>1, FrameFields
      <4>3. \A u \in Turn : Names(f.response, u) => srv[u] # "absent"
        BY <1>2, <2>3, <3>1, <4>1 DEF Mentions
      <4> QED
        BY <1>6, <4>1, <4>2, <4>3
    <3>2. CASE i \notin DOMAIN toBridge
      BY <1>1, <2>3, <3>2
    <3> QED
      BY <3>1, <3>2
  <2>4. \A i \in DOMAIN toBridge' : toBridge'[i].type = "response" => Placed(toBridge[i].response)'
    BY <2>3 DEF Placed
  <2> QED
    BY <2>1, <2>2, <2>4 DEF InPlace, Placed
<1>8. InOrder'
  <2> SUFFICES ASSUME NEW i \in DOMAIN toBridge', NEW f, f = toBridge'[i], TellsOfTurn(f),
                      NEW u \in Turn, u # f.turn, threadOf'[u] = threadOf'[f.turn]
               PROVE  Apart(u, i)'
    BY DEF InOrder, TellsOfTurn
  <2>1. CASE i \in DOMAIN toBridge
    <3>1. f = toBridge[i] /\ i \in Nat /\ f.turn \in Turn
      BY <1>1, <2>1, TurnTold
    <3>2. threadOf'[f.turn] = threadOf[f.turn]
      BY <1>2, <2>1, <3>1 DEF Mentions
    <3>3. CASE srv[u] = "absent"
      <4>1. Unheard(u, i)
        BY <3>1, <3>3 DEF Pointers, NotYet
      <4> QED
        BY <1>4, <2>1, <3>1, <4>1 DEF Apart
    <3>4. CASE srv[u] # "absent"
      <4>1. Apart(u, i)
        BY <2>1, <3>1, <3>2, <3>4 DEF Pointers, InOrder
      <4>2. CASE Past(u, i)
        <5>1. ASSUME NEW j \in DOMAIN toBridge', Completes(toBridge'[j], u) PROVE j < i
          <6>1. srv[u] \in Outcome
            BY <4>2 DEF Past
          <6>2. j \in DOMAIN toBridge
            BY <1>1, <5>1, <6>1
          <6> QED
            BY <1>1, <4>2, <5>1, <6>2 DEF Past
        <5> QED
          BY <4>2, <5>1 DEF Apart, Past, Completes
      <4>3. CASE Unheard(u, i)
        BY <1>4, <2>1, <3>1, <4>3 DEF Apart
      <4> QED
        BY <4>1, <4>2, <4>3 DEF Apart
    <3> QED
      BY <3>3, <3>4
  <2>2. CASE i \notin DOMAIN toBridge
    <3>1. f \in T /\ i \in Nat
      BY <1>1, <2>2
    <3>2. srv'[u] \in {"absent"} \cup Outcome /\ \A g \in T : ~Completes(g, u)
      BY <3>1
    <3>3. CASE srv'[u] = "absent"
      BY <1>5, <3>1, <3>3 DEF NotYet, Apart
    <3>4. CASE srv'[u] \in Outcome
      <4>1. ASSUME NEW j \in DOMAIN toBridge', Completes(toBridge'[j], u) PROVE j < i
        <5>1. j \in DOMAIN toBridge
          BY <1>1, <3>2, <4>1
        <5> QED
          BY <1>1, <2>2, <5>1
      <4> QED
        BY <3>4, <4>1 DEF Apart, Past, Completes
    <3> QED
      BY <3>2, <3>3, <3>4
  <2> QED
    BY <2>1, <2>2
<1> QED
  BY <1>5, <1>7, <1>8 DEF Pointers
\* The steps of the store.
LEMMA FramesPoint == Inv /\ Pointers /\ Frames => Pointers'
<1> SUFFICES ASSUME Inv, Pointers, NEW f, f = Head(toBridge), Frames PROVE Pointers'
  OBVIOUS
<1>1. /\ toBridge # <<>> /\ toBridge' = Tail(toBridge) /\ UNCHANGED <<srv, threadOf, approvalOf>>
      /\ f \in Frame
  <2>1. toBridge # <<>> /\ toBridge' = Tail(toBridge) /\ UNCHANGED <<srv, threadOf, approvalOf>>
    BY DEF Frames, ReceiveResponse, TurnStarted, TurnCompleted, ApprovalRequested, Handle, serverVars
  <2> QED
    BY <2>1, ChannelTypes, Taken DEF Inv
<1>2. /\ status \in [Turn -> {"absent"} \cup Active \cup Outcome]
      /\ activeTurnByThread \in [Thread -> Turn \cup {NoTurn}]
  BY DEF Inv, TypeOK
<1>3. CASE ReceiveResponse
  <2>1. /\ UNCHANGED <<status, activeTurnByThread>> /\ ready' = ready \cup {f.response} /\ f.type = "response"
    BY <1>3 DEF ReceiveResponse, storeVars, Handle
  <2>2. FromFrame
    BY <1>2, <2>1 DEF FromFrame, Known
  <2> QED
    BY <1>1, <2>2, PointersAfterFrame DEF Inv
<1>4. CASE TurnStarted
  <2>1. /\ status' = [status EXCEPT ![f.turn] = "running"] /\ UNCHANGED ready /\ f.type = "turn/started"
        /\ activeTurnByThread' = [activeTurnByThread EXCEPT ![threadOf[f.turn]] = f.turn]
    BY <1>4 DEF TurnStarted, Handle
  <2>2. FromFrame
    BY <1>2, <2>1 DEF FromFrame, Known, Mentions, TellsOfTurn
  <2> QED
    BY <1>1, <2>2, PointersAfterFrame DEF Inv
<1>5. CASE TurnCompleted
  <2>1. /\ status' = [status EXCEPT ![f.turn] = f.status] /\ UNCHANGED ready /\ f.type = "turn/completed"
        /\ activeTurnByThread' = [activeTurnByThread EXCEPT ![threadOf[f.turn]] = NoTurn]
    BY <1>5 DEF TurnCompleted, Handle
  <2>2. FromFrame
    BY <1>2, <2>1 DEF FromFrame, Known, Mentions, TellsOfTurn
  <2> QED
    BY <1>1, <2>2, PointersAfterFrame DEF Inv
<1>6. CASE ApprovalRequested
  <2> DEFINE u == approvalOf[f.approval]
  <2>1. /\ f.type = "requestApproval" /\ UNCHANGED <<ready, activeTurnByThread>>
        /\ status' = status \/ \E s \in Active : status' = [status EXCEPT ![u] = s]
    BY <1>6 DEF ApprovalRequested, Handle, Active
  <2>2. Mentions(f, u)
    BY <2>1 DEF Mentions
  <2> HIDE DEF u
  <2>3. FromFrame
    BY <1>2, <2>1, <2>2 DEF FromFrame, Known
  <2> QED
    BY <1>1, <2>3, PointersAfterFrame DEF Inv
<1> QED
  BY <1>3, <1>4, <1>5, <1>6 DEF Frames

\* A snapshot points at its hint, at a turn it shows, or nowhere new.
LEMMA ReconciledFrom ==
    ASSUME TypeOK, NEW t \in Thread, NEW raw \in RawTurns, NEW hint \in Turn \cup {NoTurn}
    PROVE  LET u == Reconciled(t, raw, hint) IN
           \/ u \in {activeTurnByThread[t], NoTurn}
           \/ u = hint
           \/ u \in Turn /\ raw[u] = "running"
<1>1. {u \in Turn : raw[u] = "running"} # {} =>
         (CHOOSE u \in {u \in Turn : raw[u] = "running"} : TRUE) \in {u \in Turn : raw[u] = "running"}
  OBVIOUS
<1> QED
  BY <1>1 DEF Reconciled

LEMMA ContinuationsPoint == Inv /\ Pointers /\ Continuations => Pointers'
<1> SUFFICES ASSUME Inv, Pointers, NEW r \in ready,
                    StartReturns(r) \/ InterruptReturns(r) \/ ReadReturns(r) \/ ListReturns(r)
             PROVE  Pointers'
  BY DEF Continuations
<1>1. UNCHANGED <<srv, threadOf, approvalOf, toBridge>> /\ ready' \subseteq ready
  BY DEF StartReturns, InterruptReturns, ReadReturns, ListReturns, Resume, serverVars
<1>2. /\ status \in [Turn -> {"absent"} \cup Active \cup Outcome]
      /\ activeTurnByThread \in [Thread -> Turn \cup {NoTurn}]
      /\ r.call \in Call /\ r.turn \in Turn \cup {NoTurn} /\ r.raw \in RawTurns
      /\ r.hint \in [Thread -> Turn \cup {NoTurn}]
      /\ Placed(r)
  BY ResponseFields DEF Inv, TypeOK, Pointers, InPlace
<1>3. CASE StartReturns(r)
  <2>1. /\ r.call.op = "start"
        /\ (status' = status \/ status' = [status EXCEPT ![r.turn] = "running"])
        /\ activeTurnByThread' = [activeTurnByThread EXCEPT ![r.call.thread] = r.turn]
    BY <1>3 DEF StartReturns, Resume, RecordStarted
  <2>2. Names(r, r.turn)
    BY DEF Names
  <2>3. FromReady
    BY <1>2, <2>1, <2>2 DEF FromReady, Known, Placed
  <2> QED
    BY <1>1, <2>3, PointersStill DEF Inv
<1>4. CASE InterruptReturns(r)
  <2>1. /\ Known(r.call.turn) /\ status' = [status EXCEPT ![r.call.turn] = "interrupted"]
        /\ activeTurnByThread' = [activeTurnByThread EXCEPT ![threadOf[r.call.turn]] = NoTurn]
    BY <1>4 DEF InterruptReturns, Resume, Inv, KnownInterrupts
  <2>2. FromReady
    BY <1>2, <2>1 DEF FromReady, Known
  <2> QED
    BY <1>1, <2>2, PointersStill DEF Inv
<1>5. CASE ReadReturns(r)
  <2> DEFINE t == r.call.thread
             p == Reconciled(t, r.raw, r.hint[t])
  <2>1. /\ r.call.op = "read" /\ t \in Thread
        /\ \A v \in Turn : status'[v] = IF r.raw[v] # "absent" /\ ~Known(v) THEN r.raw[v] ELSE status[v]
        /\ activeTurnByThread' = [activeTurnByThread EXCEPT ![t] = p]
    BY <1>2, <1>5, CallFields DEF ReadReturns, Resume
  <2>2. \/ p \in {activeTurnByThread[t], NoTurn}
        \/ p = r.hint[t]
        \/ p \in Turn /\ r.raw[p] = "running"
    BY <1>2, <2>1, ReconciledFrom DEF Inv
  <2>3. p \in {activeTurnByThread[t], NoTurn} \/ (threadOf[p] = t /\ Names(r, p))
    BY <1>2, <2>1, <2>2 DEF Placed, Names
  <2> HIDE DEF p, t
  <2>4. FromReady
    BY <1>2, <2>1, <2>3 DEF FromReady, Known, Names
  <2> QED
    BY <1>1, <2>4, PointersStill DEF Inv
<1>6. CASE ListReturns(r)
  <2> DEFINE raw == [u \in Turn |-> "absent"]
  <2>1. /\ UNCHANGED status
        /\ \A t \in Thread : activeTurnByThread'[t] = Reconciled(t, raw, r.hint[t])
    BY <1>6 DEF ListReturns
  <2>2. raw \in RawTurns /\ \A u \in Turn : raw[u] # "running"
    BY DEF RawTurns
  <2> HIDE DEF raw
  <2>3. ASSUME NEW t \in Thread
        PROVE  \/ activeTurnByThread'[t] \in {activeTurnByThread[t], NoTurn}
               \/ activeTurnByThread'[t] = r.hint[t]
    BY <1>2, <2>1, <2>2, ReconciledFrom DEF Inv
  <2>4. FromReady
    BY <1>2, <2>1, <2>3 DEF FromReady, Known, Names, Placed
  <2> QED
    BY <1>1, <2>4, PointersStill DEF Inv
<1> QED
  BY <1>3, <1>4, <1>5, <1>6
\* The steps of the app-server.
LEMMA BeginPoints ==
    ASSUME Inv, Pointers, NEW u \in Turn, NEW t \in Thread, NEW m, Begin(u, t, m),
           toBridge' \in Seq(Frame), NEW T, Grows(toBridge, toBridge', T),
           \A f \in T : \/ f.type = "turn/started" /\ f.turn = u
                        \/ /\ f.type = "response" /\ Placed(f.response)'
                           /\ \A v \in Turn : Names(f.response, v) => v = u
    PROVE  Pointers'
<1>1. /\ srv[u] = "absent" /\ RunningIn(t) = {} /\ srv' = [srv EXCEPT ![u] = "running"]
      /\ threadOf' = [threadOf EXCEPT ![u] = t]
      /\ UNCHANGED <<status, activeTurnByThread, ready, approvalOf>>
  BY DEF Begin, storeVars
<1>2. /\ srv'[u] = "running" /\ threadOf'[u] = t
      /\ \A v \in Turn \ {u} : srv'[v] = srv[v] /\ threadOf'[v] = threadOf[v]
      /\ \A v \in Turn : srv[v] \in {"absent", "running"} \cup Outcome
  BY <1>1 DEF Inv, TypeOK
<1>3. \A v \in Turn \ {u} : threadOf[v] = t => srv[v] # "running"
  BY <1>1 DEF RunningIn
<1>4. OneRuns'
  BY <1>2, <1>3 DEF Pointers, OneRuns
<1>5. \A f \in T, v \in Turn :
         /\ Mentions(f, v)' => srv'[v] # "absent"
         /\ Completes(f, v) => srv[v] \notin Outcome
  BY <1>2 DEF Mentions, TellsOfTurn, Completes, Names
<1>6. \A f \in T : TellsOfTurn(f) => \A v \in Turn :
         v # f.turn /\ threadOf'[v] = threadOf'[f.turn] =>
            srv'[v] \in {"absent"} \cup Outcome /\ \A g \in T : ~Completes(g, v)
  BY <1>2, <1>3 DEF TellsOfTurn, Completes
<1>7. \A v \in Turn :
         /\ srv'[v] = "absent" => srv[v] = "absent"
         /\ srv[v] # "absent" => threadOf'[v] = threadOf[v]
         /\ srv[v] \in Outcome => srv'[v] = srv[v]
  BY <1>1, <1>2 DEF Outcome
<1> QED
  BY <1>1, <1>4, <1>5, <1>6, <1>7, PointersAfterAdding DEF Inv

LEMMA ServerStartsPoints ==
    ASSUME Inv, Pointers, NEW u \in Turn, ServerStarts(u)
    PROVE  Pointers'
<1>1. PICK c \in Call : c = Head(toServer) /\ c.op = "start" /\ c.thread \in Thread
  BY Requested, CallFields DEF ServerStarts
<1> DEFINE e == Reply(c, u, NoRaw, NoHint)
           f == [type |-> "turn/started", turn |-> u]
           T == {e, f}
<1>2. toBridge' = toBridge \o <<e, f>> /\ Begin(u, c.thread, c.mode)
  BY <1>1 DEF ServerStarts
<1>3. /\ e \in Frame /\ e.type = "response" /\ e.response.call = c /\ e.response.turn = u
      /\ e.response.raw = NoRaw /\ e.response.hint = NoHint
  <2>1. e \in Frame
    BY <1>1, Snapshots, ReplyMade
  <2> QED
    BY <2>1, ReplyFields
<1>4. f \in Frame /\ f.type = "turn/started" /\ f.turn = u
  BY FramesMade
<1> HIDE DEF e, f
<1>5. Grows(toBridge, toBridge', T) /\ toBridge' \in Seq(Frame)
  BY <1>2, <1>3, <1>4, TwoGrow, ChannelTypes DEF Inv
<1>6. threadOf'[u] = c.thread
  BY <1>2 DEF Begin, Inv, TypeOK
<1>7. Placed(e.response)'
  BY <1>1, <1>3, <1>6, Constants DEF Placed, NoHint
<1>8. \A v \in Turn : Names(e.response, v) => v = u
  BY <1>3, Constants DEF Names, NoRaw, NoHint
<1>9. \A x \in T : \/ x.type = "turn/started" /\ x.turn = u
                   \/ /\ x.type = "response" /\ Placed(x.response)'
                      /\ \A v \in Turn : Names(x.response, v) => v = u
  BY <1>3, <1>4, <1>7, <1>8
<1> HIDE DEF T
<1> QED
  BY <1>1, <1>2, <1>5, <1>9, BeginPoints

LEMMA ServerStartsElsewherePoints ==
    ASSUME Inv, Pointers, NEW u \in Turn, NEW t \in Thread, ServerStartsElsewhere(u, t)
    PROVE  Pointers'
<1> DEFINE f == [type |-> "turn/started", turn |-> u]
           T == {f}
<1>1. f \in Frame /\ f.type = "turn/started" /\ f.turn = u
  BY FramesMade
<1>2. toBridge' = Append(toBridge, f) /\ Begin(u, t, "elsewhere")
  BY DEF ServerStartsElsewhere
<1> HIDE DEF f
<1>3. Grows(toBridge, toBridge', T) /\ toBridge' \in Seq(Frame)
  BY <1>1, <1>2, OneGrows, ChannelTypes DEF Inv
<1>4. \A x \in T : x.type = "turn/started" /\ x.turn = u
  BY <1>1
<1> HIDE DEF T
<1> QED
  BY <1>2, <1>3, <1>4, BeginPoints

\* A step that adds one frame and starts and ends no turn.
LEMMA OneFramePoints ==
    ASSUME Inv, Pointers, NEW e \in Frame, toBridge' = Append(toBridge, e), ~TellsOfTurn(e),
           UNCHANGED <<status, activeTurnByThread, ready, srv, threadOf>>,
           \A a, i : Asking(i, a) => approvalOf'[a] = approvalOf[a],
           \A u \in Turn : Mentions(e, u)' => srv[u] # "absent",
           e.type = "response" => Placed(e.response)
    PROVE  Pointers'
<1> DEFINE T == {e}
<1>1. Grows(toBridge, toBridge', T) /\ toBridge' \in Seq(Frame)
  BY OneGrows, ChannelTypes DEF Inv
<1>2. \A f \in T : ~TellsOfTurn(f) /\ (f.type = "response" => Placed(f.response)')
  BY DEF Placed
<1>3. \A f \in T, u \in Turn :
         /\ Mentions(f, u)' => srv'[u] # "absent"
         /\ Completes(f, u) => srv[u] \notin Outcome
  <2>1. \A u \in Turn : ~Completes(e, u)
    BY DEF Completes, TellsOfTurn
  <2> QED
    BY <2>1 DEF Mentions, TellsOfTurn, Names
<1>4. OneRuns'
  BY DEF Pointers, OneRuns
<1> HIDE DEF T
<1> QED
  BY <1>1, <1>2, <1>3, <1>4, PointersAfterAdding DEF Inv

LEMMA RepliesPoint ==
    ASSUME Inv, Pointers, NEW k \in {"interrupt", "read", "list"}, Take(k),
           NEW raw \in RawTurns, NEW h \in Hints,
           raw = IF k = "read" THEN Snapshot(Head(toServer).thread) ELSE NoRaw,
           toBridge' = Append(toBridge, Reply(Head(toServer), NoTurn, raw, h)),
           UNCHANGED <<storeVars, ready, calls, serverVars>>
    PROVE  Pointers'
<1>1. PICK c \in Call : c = Head(toServer) /\ c.op = k
  BY Requested
<1> DEFINE e == Reply(c, NoTurn, raw, h)
<1>2. h \in [Thread -> Turn \cup {NoTurn}]
  BY Snapshots
<1>3. /\ e \in Frame /\ e.type = "response" /\ e.response.call = c /\ e.response.turn = NoTurn
      /\ e.response.raw = raw /\ e.response.hint = h
  <2>1. e \in Frame
    BY <1>2, ReplyMade
  <2> QED
    BY <2>1, ReplyFields
<1>4. toBridge' = Append(toBridge, e)
  BY <1>1
<1> HIDE DEF e
<1>5. \A u \in Turn : raw[u] # "absent" => raw[u] = srv[u] /\ k = "read" /\ threadOf[u] = c.thread
  BY <1>1 DEF Snapshot, NoRaw
<1>6. \A t \in Thread : h[t] # NoTurn => threadOf[h[t]] = t /\ srv[h[t]] # "absent"
  BY DEF Hints
<1>7. Placed(e.response)
  BY <1>1, <1>3, <1>5, <1>6 DEF Placed
<1>8. \A u \in Turn : Names(e.response, u) => srv[u] # "absent"
  BY <1>3, <1>5, <1>6, Constants DEF Names
<1>9. \A u \in Turn : Mentions(e, u)' => srv[u] # "absent"
  BY <1>3, <1>8 DEF Mentions, TellsOfTurn, Names
<1> QED
  BY <1>3, <1>4, <1>7, <1>9, OneFramePoints DEF TellsOfTurn, storeVars, serverVars

LEMMA ServerRepliesPoint == Inv /\ Pointers /\ (ServerInterrupts \/ ServerReads) => Pointers'
<1> SUFFICES ASSUME Inv, Pointers, ServerInterrupts \/ ServerReads PROVE Pointers'
  OBVIOUS
<1>1. NoHint \in Hints
  BY Snapshots DEF Hints, NoHint
<1>2. CASE ServerInterrupts
  BY <1>1, <1>2, RepliesPoint, Snapshots DEF ServerInterrupts
<1>3. CASE ServerReads
  BY <1>3, RepliesPoint, Snapshots DEF ServerReads
<1> QED
  BY <1>2, <1>3

LEMMA ServerAsksPoints ==
    ASSUME Inv, Pointers, NEW a \in Approval, NEW u \in Turn, ServerAsks(a, u)
    PROVE  Pointers'
<1> DEFINE f == [type |-> "requestApproval", approval |-> a]
<1>1. f \in Frame /\ f.type = "requestApproval" /\ f.approval = a
  BY FramesMade
<1>2. /\ approvalOf[a] = NoTurn /\ approvalOf' = [approvalOf EXCEPT ![a] = u] /\ srv[u] = "running"
      /\ toBridge' = Append(toBridge, f) /\ UNCHANGED <<status, activeTurnByThread, ready, srv, threadOf>>
  BY DEF ServerAsks, storeVars
<1> HIDE DEF f
<1>3. approvalOf'[a] = u /\ \A b \in Approval \ {a} : approvalOf'[b] = approvalOf[b]
  BY <1>2 DEF Inv, TypeOK
<1>4. \A v \in Turn : Mentions(f, v)' => srv[v] # "absent"
  BY <1>1, <1>2, <1>3 DEF Mentions, TellsOfTurn
<1>5. ASSUME NEW b, NEW i, Asking(i, b) PROVE approvalOf'[b] = approvalOf[b]
  <2>1. b \in Approval
    BY <1>5, Indexed, FrameFields DEF Asking, Inv
  <2>2. b # a
    BY <1>2, <1>5 DEF Inv, AskedOnce
  <2> QED
    BY <1>3, <2>1, <2>2
<1> QED
  BY <1>1, <1>2, <1>4, <1>5, OneFramePoints DEF TellsOfTurn

LEMMA ServerEndsPoints ==
    ASSUME Inv, Pointers, NEW u \in Turn, NEW s \in Outcome, ServerEnds(u, s)
    PROVE  Pointers'
<1> DEFINE f == [type |-> "turn/completed", turn |-> u, status |-> s]
           T == {f}
<1>1. f \in Frame /\ f.type = "turn/completed" /\ f.turn = u
  BY FramesMade
<1>2. /\ srv[u] = "running" /\ srv' = [srv EXCEPT ![u] = s] /\ toBridge' = Append(toBridge, f)
      /\ UNCHANGED <<status, activeTurnByThread, ready, threadOf, approvalOf>>
  BY DEF ServerEnds, storeVars
<1> HIDE DEF f
<1>3. Grows(toBridge, toBridge', T) /\ toBridge' \in Seq(Frame)
  BY <1>1, <1>2, OneGrows, ChannelTypes DEF Inv
<1>4. /\ srv'[u] = s /\ \A v \in Turn \ {u} : srv'[v] = srv[v]
      /\ \A v \in Turn : srv[v] \in {"absent", "running"} \cup Outcome
  BY <1>2 DEF Inv, TypeOK
<1>5. \A v \in Turn \ {u} : threadOf[v] = threadOf[u] => srv[v] # "running"
  BY <1>2 DEF Pointers, OneRuns
<1>6. OneRuns'
  BY <1>2, <1>4 DEF Pointers, OneRuns, Outcome
<1>7. \A g \in T, v \in Turn :
         /\ Mentions(g, v)' => srv'[v] # "absent"
         /\ Completes(g, v) => srv[v] \notin Outcome
  BY <1>1, <1>2, <1>4 DEF Mentions, TellsOfTurn, Completes, Outcome
<1>8. \A g \in T : g.type # "response"
  BY <1>1
<1>9. \A g \in T : TellsOfTurn(g) => \A v \in Turn :
         v # g.turn /\ threadOf'[v] = threadOf'[g.turn] =>
            srv'[v] \in {"absent"} \cup Outcome /\ \A h \in T : ~Completes(h, v)
  BY <1>1, <1>2, <1>4, <1>5 DEF Completes
<1>10. \A v \in Turn :
         /\ srv'[v] = "absent" => srv[v] = "absent"
         /\ srv[v] # "absent" => threadOf'[v] = threadOf[v]
         /\ srv[v] \in Outcome => srv'[v] = srv[v]
  BY <1>2, <1>4 DEF Outcome
<1> HIDE DEF T
<1> QED
  BY <1>2, <1>3, <1>6, <1>7, <1>8, <1>9, <1>10, PointersAfterAdding DEF Inv
LEMMA PointersStep == Inv /\ Pointers /\ [Next]_vars => Pointers'
<1> SUFFICES ASSUME Inv, Pointers, [Next]_vars PROVE Pointers'
  OBVIOUS
<1>1. UNCHANGED <<status, activeTurnByThread, srv, threadOf, approvalOf, toBridge, ready>> => Pointers'
  BY PointersStill DEF FromReady, Known, Inv
<1>2. CASE \/ \E t \in Thread, m \in AccessMode : StartTurn(t, m)
           \/ \E u \in Turn : InterruptTurn(u)
           \/ \E t \in Thread : GetThread(t)
           \/ ListThreads
  BY <1>1, <1>2 DEF StartTurn, InterruptTurn, GetThread, ListThreads, Request, storeVars, serverVars
<1>3. ASSUME NEW a \in Approval, NEW d \in {"approved", "denied"}, DecideApproval(a, d) PROVE Pointers'
  <2>1. /\ UNCHANGED <<activeTurnByThread, srv, threadOf, approvalOf, toBridge, ready>>
        /\ \/ status' = status
           \/ /\ status[approvalOf[a]] = "waiting_approval"
              /\ status' = [status EXCEPT ![approvalOf[a]] = "running"]
    BY <1>3 DEF DecideApproval, serverVars
  <2>2. FromReady
    BY <2>1 DEF FromReady, Known, Inv, TypeOK
  <2> QED
    BY <2>1, <2>2, PointersStill DEF Inv
<1>4. CASE Frames
  BY <1>4, FramesPoint
<1>5. CASE Continuations
  BY <1>5, ContinuationsPoint
<1>6. CASE ServerHandles
  <2>1. ServerRefuses \/ ServerTakesAnswer => Pointers'
    BY <1>1 DEF ServerRefuses, ServerTakesAnswer, storeVars, serverVars
  <2> QED
    BY <1>6, <2>1, ServerStartsPoints, ServerRepliesPoint DEF ServerHandles
<1>7. ASSUME NEW u \in Turn, NEW t \in Thread, ServerStartsElsewhere(u, t) PROVE Pointers'
  BY <1>7, ServerStartsElsewherePoints
<1>8. ASSUME NEW a \in Approval, NEW u \in Turn, ServerAsks(a, u) PROVE Pointers'
  BY <1>8, ServerAsksPoints
<1>9. ASSUME NEW u \in Turn, NEW s \in Outcome, ServerEnds(u, s) PROVE Pointers'
  BY <1>9, ServerEndsPoints
<1>10. CASE UNCHANGED vars
  BY <1>1, <1>10 DEF vars
<1> QED
  BY <1>2, <1>3, <1>4, <1>5, <1>6, <1>7, <1>8, <1>9, <1>10 DEF Next

LEMMA PointersInit == Init => Pointers
<1> SUFFICES ASSUME Init PROVE Pointers
  OBVIOUS
<1>1. DOMAIN toBridge = {} /\ ready = {}
  <2>1. DOMAIN <<>> = {}
    OBVIOUS
  <2> QED
    BY <2>1 DEF Init
<1>2. \A u \in Turn : ~Known(u) /\ \A t \in Thread : activeTurnByThread[t] # u
  BY Constants DEF Init, Known
<1>3. NotYet
  BY <1>1, <1>2 DEF NotYet, Unheard
<1>4. OneRuns
  BY DEF Init, OneRuns
<1>5. InPlace /\ InOrder
  BY <1>1 DEF Init, InPlace, InOrder
<1> QED
  BY <1>3, <1>4, <1>5 DEF Pointers

FollowInv == Inv /\ RecordsFollow /\ Pointers

LEMMA FollowInductive == (Init => FollowInv) /\ (FollowInv /\ [Next]_vars => FollowInv')
BY InitInv, RecordsInit, PointersInit, NextInv, RecordsStep, PointersStep DEF FollowInv

\* A turn whose record is active when the frame at the head tells of another turn of
\* its thread: there is none.
LEMMA NoOtherActive ==
    ASSUME FollowInv, toBridge # <<>>, TellsOfTurn(Head(toBridge)),
           NEW u \in Turn, u # Head(toBridge).turn, threadOf[u] = threadOf[Head(toBridge).turn]
    PROVE  status[u] \notin Active
<1>1. 1 \in DOMAIN toBridge /\ Head(toBridge) = toBridge[1] /\ \A j \in DOMAIN toBridge : j \in Nat \ {0}
  BY Indexed, Taken, LenProperties DEF FollowInv, Inv
<1>2. Apart(u, 1)
  BY <1>1 DEF FollowInv, Pointers, InOrder
<1>3. CASE Unheard(u, 1)
  BY <1>3 DEF Unheard, Known, Active
<1>4. CASE Past(u, 1)
  <2>1. \A j \in DOMAIN toBridge : ~Completes(toBridge[j], u)
    <3>1. ASSUME NEW j \in DOMAIN toBridge, Completes(toBridge[j], u) PROVE FALSE
      <4>1. j < 1 /\ j \in Nat \ {0}
        BY <1>1, <1>4, <3>1 DEF Past
      <4> QED
        BY <4>1
    <3> QED
      BY <3>1
  <2>2. srv[u] \in Outcome /\ Over(u)
    BY <1>4, <2>1 DEF FollowInv, RecordsFollow, Ending, Past
  <2> QED
    BY <2>2 DEF Over, Known, Active, Outcome
<1> QED
  BY <1>2, <1>3, <1>4 DEF Apart

\* While the record of a turn is active, any other turn of its thread that the store or a
\* response has heard of is over.
LEMMA OthersOver ==
    ASSUME FollowInv, NEW u \in Turn, status[u] \in Active,
           NEW v \in Turn, v # u, threadOf[v] = threadOf[u],
           Known(v) \/ \E r \in ready : Names(r, v)
    PROVE  srv[v] \in Outcome
<1>1. \A w \in Turn : srv[w] \in {"absent", "running"} \cup Outcome
  BY DEF FollowInv, Inv, TypeOK
<1>2. Known(u) /\ 0 \in Nat
  BY DEF Known, Active
<1>3. srv[u] # "absent" /\ srv[v] # "absent"
  BY <1>2 DEF FollowInv, Pointers, NotYet, Unheard
<1>4. CASE srv[u] = "running"
  <2>1. srv[v] # "running"
    BY <1>4 DEF FollowInv, Pointers, OneRuns
  <2> QED
    BY <1>1, <1>3, <2>1
<1>5. CASE srv[u] \in Outcome
  <2>1. PICK i \in DOMAIN toBridge : Completes(toBridge[i], u)
    BY <1>2, <1>5 DEF FollowInv, RecordsFollow, Over, Ending, Active, Outcome
  <2>2. TellsOfTurn(toBridge[i]) /\ toBridge[i].turn = u
    BY <2>1 DEF Completes, TellsOfTurn
  <2>3. Apart(v, i)
    BY <2>2 DEF FollowInv, Pointers, InOrder
  <2> QED
    BY <2>3 DEF Apart, Unheard, Past
<1> QED
  BY <1>1, <1>3, <1>4, <1>5

\* The pointer to a turn whose record stays active leaves it only with a caller of startTurn
\* or interruptTurn that resumes for another turn of the thread, one that is over by then
\* (turn/started, turn/completed, mapThreadSummary, startTurn, interruptTurn).
THEOREM PointerStays == Spec => PointerKept
<1> DEFINE Kept ==
      \A t \in Thread :
        LET u == activeTurnByThread[t] IN
        u # NoTurn /\ status[u] \in Active /\ status'[u] \in Active
            => \/ activeTurnByThread'[t] = u
               \/ \E r \in ready : Overtaken(r, t)
<1>1. FollowInv /\ [Next]_vars => [Kept]_vars
  <2> SUFFICES ASSUME FollowInv, Next,
                      NEW t \in Thread, NEW u, u = activeTurnByThread[t],
                      u # NoTurn, status[u] \in Active, status'[u] \in Active
               PROVE  activeTurnByThread'[t] = u \/ \E r \in ready : Overtaken(r, t)
    OBVIOUS
  <2>1. /\ u \in Turn /\ threadOf[u] = t
        /\ activeTurnByThread \in [Thread -> Turn \cup {NoTurn}]
        /\ status \in [Turn -> {"absent"} \cup Active \cup Outcome]
    BY DEF FollowInv, Inv, TypeOK, Pointers, InPlace
  <2>2. UNCHANGED activeTurnByThread => activeTurnByThread'[t] = u
    OBVIOUS
  <2>3. CASE \/ \E s \in Thread, m \in AccessMode : StartTurn(s, m)
             \/ \E v \in Turn : InterruptTurn(v)
             \/ \E s \in Thread : GetThread(s)
             \/ ListThreads
             \/ \E a \in Approval, d \in {"approved", "denied"} : DecideApproval(a, d)
    BY <2>2, <2>3 DEF StartTurn, InterruptTurn, GetThread, ListThreads, Request, storeVars, DecideApproval
  <2>4. CASE ReceiveResponse \/ ApprovalRequested
    BY <2>2, <2>4 DEF ReceiveResponse, ApprovalRequested, storeVars
  <2>5. CASE TurnStarted
    <3>1. /\ toBridge # <<>> /\ Head(toBridge).type = "turn/started"
          /\ activeTurnByThread' = [activeTurnByThread EXCEPT ![threadOf[Head(toBridge).turn]] = Head(toBridge).turn]
      BY <2>5 DEF TurnStarted, Handle
    <3>2. threadOf[Head(toBridge).turn] = t => Head(toBridge).turn = u
      BY <2>1, <3>1, NoOtherActive DEF TellsOfTurn
    <3> QED
      BY <2>1, <3>1, <3>2
  <2>6. CASE TurnCompleted
    <3>1. /\ toBridge # <<>> /\ Head(toBridge).type = "turn/completed"
          /\ status' = [status EXCEPT ![Head(toBridge).turn] = Head(toBridge).status]
          /\ activeTurnByThread' = [activeTurnByThread EXCEPT ![threadOf[Head(toBridge).turn]] = NoTurn]
      BY <2>6 DEF TurnCompleted, Handle
    <3>2. Head(toBridge).status \in Outcome
      BY <3>1, ChannelTypes, Taken, FrameFields DEF FollowInv, Inv
    <3>3. Head(toBridge).turn # u
      BY <2>1, <3>1, <3>2 DEF Active, Outcome
    <3>4. threadOf[Head(toBridge).turn] # t
      BY <2>1, <3>1, <3>3, NoOtherActive DEF TellsOfTurn
    <3> QED
      BY <2>1, <3>1, <3>4
  <2>7. ASSUME NEW raw, NEW hint PROVE Reconciled(t, raw, hint) = u
    BY DEF Reconciled, Corroborated
  <2>8. CASE Continuations
    <3>1. PICK r \in ready : StartReturns(r) \/ InterruptReturns(r) \/ ReadReturns(r) \/ ListReturns(r)
      BY <2>8 DEF Continuations
    <3>2. CASE ReadReturns(r)
      BY <2>1, <2>7, <3>2 DEF ReadReturns
    <3>3. CASE ListReturns(r)
      BY <2>7, <3>3 DEF ListReturns
    <3>4. CASE StartReturns(r)
      <4> DEFINE v == r.turn
      <4>1. /\ r.call.op = "start"
            /\ activeTurnByThread' = [activeTurnByThread EXCEPT ![r.call.thread] = v]
        BY <3>4 DEF StartReturns, Resume
      <4>2. v \in Turn /\ threadOf[v] = r.call.thread
        BY <4>1, ResponseFields DEF FollowInv, Inv, TypeOK, Pointers, InPlace, Placed
      <4>3. CASE r.call.thread # t \/ v = u
        BY <2>1, <4>1, <4>3
      <4>4. CASE r.call.thread = t /\ v # u
        <5>1. Names(r, v)
          BY DEF Names
        <5>2. srv[v] \in Outcome
          BY <2>1, <4>2, <4>4, <5>1, OthersOver
        <5>3. Overtaken(r, t)
          BY <3>4, <4>2, <4>4, <5>2 DEF Overtaken
        <5> QED
          BY <5>3
      <4> QED
        BY <4>3, <4>4
    <3>5. CASE InterruptReturns(r)
      <4> DEFINE v == r.call.turn
      <4>1. /\ r.call.op = "interrupt"
            /\ status' = [status EXCEPT ![v] = "interrupted"]
            /\ activeTurnByThread' = [activeTurnByThread EXCEPT ![threadOf[v]] = NoTurn]
        BY <3>5 DEF InterruptReturns, Resume
      <4>2. v \in Turn /\ Known(v)
        BY <4>1, ResponseFields, CallFields DEF FollowInv, Inv, TypeOK, KnownInterrupts
      <4>3. v # u
        BY <2>1, <4>1, <4>2 DEF Active
      <4>4. CASE threadOf[v] # t
        BY <2>1, <4>1, <4>4
      <4>5. CASE threadOf[v] = t
        <5>1. srv[v] \in Outcome
          BY <2>1, <4>2, <4>3, <4>5, OthersOver
        <5>2. Overtaken(r, t)
          BY <3>5, <4>2, <4>5, <5>1 DEF Overtaken
        <5> QED
          BY <5>2
      <4> QED
        BY <4>4, <4>5
    <3> QED
      BY <3>1, <3>2, <3>3, <3>4, <3>5
  <2>9. CASE \/ ServerHandles
             \/ \E v \in Turn, s \in Thread : ServerStartsElsewhere(v, s)
             \/ \E a \in Approval, v \in Turn : ServerAsks(a, v)
             \/ \E v \in Turn, outcome \in Outcome : ServerEnds(v, outcome)
    BY <2>2, <2>9 DEF ServerHandles, ServerStarts, ServerInterrupts, ServerReads, ServerRefuses,
                      ServerTakesAnswer, ServerStartsElsewhere, ServerAsks, ServerEnds, Begin, storeVars
  <2> QED
    BY <2>3, <2>4, <2>5, <2>6, <2>8, <2>9 DEF Next, Frames
<1> QED
  BY <1>1, FollowInductive, PTL DEF Spec, PointerKept

\* A fresh read that returns once all frames are handled leaves its thread pointing at the turn
\* the app-server runs in it, or at none (getThread, mapThreadSummary).
THEOREM ReadRepairs == Spec => ReadRepairsPointer
<1> DEFINE Repaired ==
      \A r \in ready :
        LET t == r.call.thread IN
        ReadReturns(r) /\ r.raw = Snapshot(t) /\ toBridge = <<>>
            => IF RunningIn(t) = {} THEN activeTurnByThread'[t] = NoTurn
                                    ELSE activeTurnByThread'[t] \in RunningIn(t)
<1>1. FollowInv => Repaired
  <2> SUFFICES ASSUME FollowInv, NEW r \in ready, NEW t, t = r.call.thread,
                      ReadReturns(r), r.raw = Snapshot(t), toBridge = <<>>
               PROVE  \/ activeTurnByThread'[t] \in RunningIn(t)
                      \/ activeTurnByThread'[t] = NoTurn /\ RunningIn(t) = {}
    OBVIOUS
  <2>1. /\ t \in Thread /\ r.hint[t] \in Turn \cup {NoTurn}
        /\ activeTurnByThread \in [Thread -> Turn \cup {NoTurn}]
        /\ \A u \in Turn : srv[u] \in {"absent", "running"} \cup Outcome
    BY ResponseFields, CallFields DEF FollowInv, Inv, TypeOK, ReadReturns, Resume
  <2>2. activeTurnByThread'[t] = Reconciled(t, r.raw, r.hint[t])
    BY <2>1 DEF ReadReturns
  <2>3. \A u \in Turn : r.raw[u] = "running" <=> u \in RunningIn(t)
    BY DEF Snapshot, RunningIn
  <2>4. ASSUME NEW u \in Turn, status[u] \in Active, threadOf[u] = t PROVE u \in RunningIn(t)
    <3>1. Known(u) /\ 0 \in Nat
      BY <2>4 DEF Known, Active
    <3>2. srv[u] # "absent"
      BY <3>1 DEF FollowInv, Pointers, NotYet, Unheard
    <3>3. ~Ending(u)
      <4>1. DOMAIN <<>> = {}
        OBVIOUS
      <4> QED
        BY <4>1 DEF Ending
    <3>4. srv[u] \notin Outcome
      BY <2>4, <3>1, <3>3 DEF FollowInv, RecordsFollow, Over, Active, Outcome
    <3> QED
      BY <2>1, <2>4, <3>2, <3>4 DEF RunningIn
  <2>5. ASSUME NEW u \in Turn, u \in {activeTurnByThread[t], r.hint[t]}, Corroborated(u, r.raw)
        PROVE  u \in RunningIn(t)
    <3>1. threadOf[u] = t
      BY <2>1, <2>5, Constants DEF FollowInv, Pointers, InPlace, Placed
    <3> QED
      BY <2>3, <2>4, <2>5, <3>1 DEF Corroborated
  <2>6. \A raw : ~Corroborated(NoTurn, raw)
    BY DEF Corroborated
  <2>7. {u \in Turn : r.raw[u] = "running"} = RunningIn(t)
    BY <2>3 DEF RunningIn
  <2>8. RunningIn(t) # {} => (CHOOSE u \in RunningIn(t) : TRUE) \in RunningIn(t)
    OBVIOUS
  <2> QED
    BY <2>1, <2>2, <2>5, <2>6, <2>7, <2>8 DEF Reconciled
<1>2. FollowInv /\ [Next]_vars => [Repaired]_vars
  BY <1>1
<1> QED
  BY <1>2, FollowInductive, PTL DEF Spec, ReadRepairsPointer

=============================================================================
