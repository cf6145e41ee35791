------------------------- MODULE TurnStream_proofs -------------------------
(***************************************************************************)
(* Theorems about TurnStream for any sets of streams and requests, and any *)
(* number of events and of links that break; and about the page at the end *)
(* of a stream, PwaThreadView, for any set of threads and any numbers of   *)
(* turns and faults.                                                       *)
(***************************************************************************)
EXTENDS TurnStream, PwaThreadView, FiniteSetTheorems, WellFoundedInduction, TLAPS

-----------------------------------------------------------------------------
(* Sequences of frames.                                                    *)

NoEnd(q) == \A i \in 1..Len(q) : ~IsEnd(q[i])

\* Up to the end of the stream, every frame but the first is data, of the version after
\* the one before it.
Steps(q) ==
    \A i \in 1..(Len(q) - 1) :
        (\A j \in 1..(i + 1) : ~IsEnd(q[j])) =>
            /\ IsData(q[i + 1])
            /\ IsData(q[i]) => q[i + 1].version = q[i].version + 1

\* The first frame goes on where v, a version or None, has come to; an open frame comes
\* before any version.
Front(q, v) ==
    q # <<>> /\ ~IsEnd(q[1]) =>
        /\ ~IsData(q[1]) => v = None
        /\ IsData(q[1]) /\ v # None => q[1].version = v + 1

\* The version that is reached when the frames of q have been taken.
Tip(q, v) == IF q = <<>> THEN v ELSE IF IsData(q[Len(q)]) THEN q[Len(q)].version ELSE None

LEMMA Kinds ==
    ASSUME NEW f \in Frames
    PROVE  /\ f.version \in 0..MaxEvents
           /\ f.kind = "open" \/ IsData(f) \/ IsEnd(f)
           /\ IsData(f) => ~IsEnd(f) /\ f.kind # "open"
           /\ IsEnd(f) => f.kind # "open"
BY DEF Frames, IsData, IsEnd

LEMMA AppendFacts ==
    ASSUME NEW q \in Seq(Frames), NEW f \in Frames
    PROVE  /\ Append(q, f) \in Seq(Frames) /\ Append(q, f) # <<>>
           /\ Len(q) \in Nat /\ Len(Append(q, f)) = Len(q) + 1
           /\ \A i \in 1..Len(q) : Append(q, f)[i] = q[i]
           /\ Append(q, f)[Len(q) + 1] = f
OBVIOUS

LEMMA TailFacts ==
    ASSUME NEW q \in Seq(Frames), q # <<>>
    PROVE  /\ Tail(q) \in Seq(Frames) /\ Len(q) \in Nat \ {0}
           /\ Head(q) = q[1] /\ q[1] \in Frames
           /\ Len(Tail(q)) = Len(q) - 1
           /\ \A i \in 1..(Len(q) - 1) : Tail(q)[i] = q[i + 1]
           /\ Tail(q) = <<>> <=> Len(q) = 1
<1>1. /\ Tail(q) \in Seq(Frames) /\ Len(q) \in Nat \ {0}
      /\ Head(q) = q[1] /\ q[1] \in Frames
      /\ Len(Tail(q)) = Len(q) - 1
      /\ \A i \in 1..(Len(q) - 1) : Tail(q)[i] = q[i + 1]
  OBVIOUS
<1>2. ASSUME NEW r \in Seq(Frames) PROVE r = <<>> <=> Len(r) = 0
  OBVIOUS
<1>3. Tail(q) = <<>> <=> Len(Tail(q)) = 0
  BY <1>1, <1>2
<1> QED
  BY <1>1, <1>3

LEMMA EmptyFacts ==
    ASSUME NEW q \in Seq(Frames)
    PROVE  /\ Len(q) \in Nat /\ (q = <<>> <=> Len(q) = 0)
           /\ \A i \in 1..Len(q) : q[i] \in Frames
OBVIOUS

\* A frame after the end of the stream, or the end itself.
LEMMA PushDead ==
    ASSUME NEW q \in Seq(Frames), NEW f \in Frames, NEW v, Steps(q), Front(q, v),
           IsEnd(f) \/ ~NoEnd(q)
    PROVE  Steps(Append(q, f)) /\ Front(Append(q, f), v) /\ ~NoEnd(Append(q, f))
<1> DEFINE r == Append(q, f)
<1>1. /\ r \in Seq(Frames) /\ r # <<>> /\ Len(q) \in Nat /\ Len(r) = Len(q) + 1
      /\ \A i \in 1..Len(q) : r[i] = q[i]
      /\ r[Len(q) + 1] = f
  BY AppendFacts
<1> HIDE DEF r
<1>2. ~NoEnd(r)
  BY <1>1 DEF NoEnd
<1>3. Steps(r)
  <2> SUFFICES ASSUME NEW i \in 1..(Len(r) - 1), \A j \in 1..(i + 1) : ~IsEnd(r[j])
               PROVE  IsData(r[i + 1]) /\ (IsData(r[i]) => r[i + 1].version = r[i].version + 1)
    BY DEF Steps
  <2>1. i \in 1..Len(q) /\ i \in Nat
    BY <1>1
  <2>2. i # Len(q)
    <3>1. CASE IsEnd(f)
      BY <1>1, <2>1, <3>1
    <3>2. CASE ~NoEnd(q)
      BY <1>1, <2>1, <3>2 DEF NoEnd
    <3> QED
      BY <3>1, <3>2
  <2>3. i \in 1..(Len(q) - 1) /\ (\A j \in 1..(i + 1) : r[j] = q[j]) /\ i \in 1..(i+1) /\ i+1 \in 1..(i+1)
    BY <1>1, <2>1, <2>2
  <2> QED
    BY <2>3 DEF Steps
<1>4. Front(r, v)
  <2>1. CASE q = <<>>
    <3>1. r[1] = f /\ IsEnd(f)
      BY <1>1, <2>1, EmptyFacts DEF NoEnd
    <3> QED
      BY <3>1 DEF Front
  <2>2. CASE q # <<>>
    <3>1. r[1] = q[1]
      BY <1>1, <2>2, EmptyFacts
    <3> QED
      BY <2>2, <3>1 DEF Front
  <2> QED
    BY <2>1, <2>2
<1> QED
  BY <1>2, <1>3, <1>4 DEF r

\* Data that goes on where the frames before it end.
LEMMA PushData ==
    ASSUME NEW q \in Seq(Frames), NEW f \in Frames, NEW v, Steps(q), Front(q, v), NoEnd(q),
           IsData(f), Tip(q, v) # None => f.version = Tip(q, v) + 1
    PROVE  /\ Steps(Append(q, f)) /\ Front(Append(q, f), v) /\ NoEnd(Append(q, f))
           /\ Tip(Append(q, f), v) = f.version
<1> DEFINE r == Append(q, f)
<1>1. /\ r \in Seq(Frames) /\ r # <<>> /\ Len(q) \in Nat /\ Len(r) = Len(q) + 1
      /\ \A i \in 1..Len(q) : r[i] = q[i]
      /\ r[Len(q) + 1] = f
      /\ ~IsEnd(f)
  BY AppendFacts, Kinds
<1> HIDE DEF r
<1>2. NoEnd(r)
  BY <1>1 DEF NoEnd
<1>3. Steps(r)
  <2> SUFFICES ASSUME NEW i \in 1..(Len(r) - 1), \A j \in 1..(i + 1) : ~IsEnd(r[j])
               PROVE  IsData(r[i + 1]) /\ (IsData(r[i]) => r[i + 1].version = r[i].version + 1)
    BY DEF Steps
  <2>1. i \in 1..Len(q) /\ i \in Nat
    BY <1>1
  <2>2. CASE i = Len(q)
    <3>1. q # <<>> /\ r[i] = q[Len(q)] /\ r[i + 1] = f
      BY <1>1, <2>1, <2>2, EmptyFacts
    <3>2. IsData(r[i]) => Tip(q, v) = q[Len(q)].version
      BY <3>1 DEF Tip
    <3>3. IsData(r[i]) => q[Len(q)].version # None
      BY <2>1, <2>2, EmptyFacts, Kinds, TurnStreamAssumption
    <3> QED
      BY <3>1, <3>2, <3>3
  <2>3. CASE i # Len(q)
    <3>1. i \in 1..(Len(q) - 1) /\ (\A j \in 1..(i + 1) : r[j] = q[j]) /\ i \in 1..(i+1) /\ i+1 \in 1..(i+1)
      BY <1>1, <2>1, <2>3
    <3> QED
      BY <3>1 DEF Steps
  <2> QED
    BY <2>2, <2>3
<1>4. Front(r, v)
  <2>1. CASE q = <<>>
    <3>1. r[1] = f /\ Tip(q, v) = v
      BY <1>1, <2>1, EmptyFacts DEF Tip
    <3> QED
      BY <3>1 DEF Front
  <2>2. CASE q # <<>>
    <3>1. r[1] = q[1]
      BY <1>1, <2>2, EmptyFacts
    <3> QED
      BY <2>2, <3>1 DEF Front
  <2> QED
    BY <2>1, <2>2
<1>5. Tip(r, v) = f.version
  BY <1>1 DEF Tip
<1> QED
  BY <1>2, <1>3, <1>4, <1>5 DEF r

\* The first frame is taken, and with it its version.
Reached(f, v) == IF IsData(f) THEN f.version ELSE v

LEMMA Pop ==
    ASSUME NEW q \in Seq(Frames), NEW v, Steps(q), Front(q, v), q # <<>>, ~IsEnd(q[1])
    PROVE  /\ Steps(Tail(q)) /\ Front(Tail(q), Reached(q[1], v))
           /\ NoEnd(Tail(q)) <=> NoEnd(q)
           /\ Tip(Tail(q), Reached(q[1], v)) = Tip(q, v)
<1> DEFINE r == Tail(q)
<1>1. /\ r \in Seq(Frames) /\ Len(q) \in Nat \ {0} /\ q[1] \in Frames
      /\ Len(r) = Len(q) - 1
      /\ \A i \in 1..(Len(q) - 1) : r[i] = q[i + 1]
      /\ r = <<>> <=> Len(q) = 1
  BY TailFacts
<1> HIDE DEF r
<1>2. NoEnd(r) <=> NoEnd(q)
  <2>1. ASSUME NoEnd(r), NEW i \in 1..Len(q) PROVE ~IsEnd(q[i])
    <3>1. CASE i = 1
      BY <3>1
    <3>2. CASE i # 1
      <4>1. i - 1 \in 1..(Len(q) - 1) /\ i - 1 \in 1..Len(r) /\ (i - 1) + 1 = i
        BY <1>1, <3>2
      <4>2. r[i - 1] = q[i]
        BY <1>1, <4>1
      <4> QED
        BY <2>1, <4>1, <4>2 DEF NoEnd
    <3> QED
      BY <3>1, <3>2
  <2>2. ASSUME NoEnd(q), NEW i \in 1..Len(r) PROVE ~IsEnd(r[i])
    BY <1>1, <2>2 DEF NoEnd
  <2> QED
    BY <2>1, <2>2 DEF NoEnd
<1>3. Steps(r)
  <2> SUFFICES ASSUME NEW i \in 1..(Len(r) - 1), \A j \in 1..(i + 1) : ~IsEnd(r[j])
               PROVE  IsData(r[i + 1]) /\ (IsData(r[i]) => r[i + 1].version = r[i].version + 1)
    BY DEF Steps
  <2>1. i + 1 \in 1..(Len(q) - 1) /\ r[i] = q[i + 1] /\ r[i + 1] = q[i + 1 + 1]
    BY <1>1
  <2>2. ASSUME NEW j \in 1..(i + 1 + 1) PROVE ~IsEnd(q[j])
    <3>1. CASE j = 1
      BY <3>1
    <3>2. CASE j # 1
      <4>1. j - 1 \in 1..(i + 1) /\ j - 1 \in 1..(Len(q) - 1) /\ (j - 1) + 1 = j
        BY <1>1, <2>1, <3>2
      <4>2. r[j - 1] = q[j]
        BY <1>1, <4>1
      <4> QED
        BY <4>1, <4>2
    <3> QED
      BY <3>1, <3>2
  <2>3. IsData(q[i + 1 + 1]) /\ (IsData(q[i + 1]) => q[i + 1 + 1].version = q[i + 1].version + 1)
    BY <2>1, <2>2 DEF Steps
  <2> QED
    BY <2>1, <2>3
<1>4. Front(r, Reached(q[1], v))
  <2> SUFFICES ASSUME r # <<>>, ~IsEnd(r[1])
               PROVE  IsData(r[1]) /\ (Reached(q[1], v) # None => r[1].version = Reached(q[1], v) + 1)
    BY DEF Front
  <2>1. 1 \in 1..(Len(q) - 1) /\ r[1] = q[1 + 1] /\ \A j \in 1..(1 + 1) : j = 1 \/ j = 1 + 1
    BY <1>1
  <2>2. IsData(q[1 + 1]) /\ (IsData(q[1]) => q[1 + 1].version = q[1].version + 1)
    BY <2>1 DEF Steps
  <2>3. ~IsData(q[1]) => Reached(q[1], v) = None
    BY DEF Front, Reached
  <2> QED
    BY <2>1, <2>2, <2>3 DEF Reached
<1>5. Tip(r, Reached(q[1], v)) = Tip(q, v)
  <2>1. CASE r = <<>>
    <3>1. Len(q) = 1 /\ q[Len(q)] = q[1]
      BY <1>1, <2>1
    <3> QED
      BY <2>1, <3>1 DEF Tip, Reached, Front
  <2>2. CASE r # <<>>
    <3>1. r[Len(r)] = q[Len(q)]
      BY <1>1, <2>2
    <3> QED
      BY <2>2, <3>1 DEF Tip
  <2> QED
    BY <2>1, <2>2
<1> QED
  BY <1>2, <1>3, <1>4, <1>5 DEF r

-----------------------------------------------------------------------------
(* Sockets: what each operator does to the two ends and to their frames.   *)

LEMMA FrameType == /\ \A v \in 0..MaxEvents : Frame("open", v) \in Frames /\ Frame("state", v) \in Frames /\ Frame("event", v) \in Frames
                   /\ Close \in Frames /\ Reset \in Frames /\ IsEnd(Close) /\ IsEnd(Reset)
                   /\ \A v : ~IsEnd(Frame("open", v)) /\ ~IsData(Frame("open", v))
                   /\ \A v : IsData(Frame("state", v)) /\ IsData(Frame("event", v))
                   /\ \A v : Frame("state", v).version = v /\ Frame("event", v).version = v
BY TurnStreamAssumption DEF Frame, Frames, Close, Reset, IsEnd, IsData

\* Single fields of a socket.
LEMMA SocketField ==
    ASSUME NEW s \in Sockets
    PROVE  /\ s.client \in Ends /\ s.server \in Ends /\ s.toClient \in Seq(Frames) /\ s.toServer \in Seq(Frames)
           /\ \A e \in Ends : LET t == [s EXCEPT !.client = e] IN
                 t \in Sockets /\ t.client = e /\ t.server = s.server /\ t.toClient = s.toClient /\ t.toServer = s.toServer
           /\ \A e \in Ends : LET t == [s EXCEPT !.server = e] IN
                 t \in Sockets /\ t.client = s.client /\ t.server = e /\ t.toClient = s.toClient /\ t.toServer = s.toServer
           /\ \A q \in Seq(Frames) : LET t == [s EXCEPT !.toClient = q] IN
                 t \in Sockets /\ t.client = s.client /\ t.server = s.server /\ t.toClient = q /\ t.toServer = s.toServer
           /\ \A q \in Seq(Frames) : LET t == [s EXCEPT !.toServer = q] IN
                 t \in Sockets /\ t.client = s.client /\ t.server = s.server /\ t.toClient = s.toClient /\ t.toServer = q
<1>1. s.client \in Ends /\ s.server \in Ends /\ s.toClient \in Seq(Frames) /\ s.toServer \in Seq(Frames)
  BY DEF Sockets
<1>2. ASSUME NEW e \in Ends
      PROVE  LET t == [s EXCEPT !.client = e] IN
             t \in Sockets /\ t.client = e /\ t.server = s.server /\ t.toClient = s.toClient /\ t.toServer = s.toServer
  BY DEF Sockets
<1>3. ASSUME NEW e \in Ends
      PROVE  LET t == [s EXCEPT !.server = e] IN
             t \in Sockets /\ t.client = s.client /\ t.server = e /\ t.toClient = s.toClient /\ t.toServer = s.toServer
  BY DEF Sockets
<1>4. ASSUME NEW q \in Seq(Frames)
      PROVE  LET t == [s EXCEPT !.toClient = q] IN
             t \in Sockets /\ t.client = s.client /\ t.server = s.server /\ t.toClient = q /\ t.toServer = s.toServer
  BY DEF Sockets
<1>5. ASSUME NEW q \in Seq(Frames)
      PROVE  LET t == [s EXCEPT !.toServer = q] IN
             t \in Sockets /\ t.client = s.client /\ t.server = s.server /\ t.toClient = s.toClient /\ t.toServer = q
  BY DEF Sockets
<1> QED
  BY <1>1, <1>2, <1>3, <1>4, <1>5

LEMMA ToClientFacts ==
    ASSUME NEW s \in Sockets, NEW f \in Frames
    PROVE  LET t == ToClient(s, f) IN
           /\ t \in Sockets /\ t.client = s.client /\ t.server = s.server /\ t.toServer = s.toServer
           /\ t.toClient = IF s.client = "closed" THEN s.toClient ELSE Append(s.toClient, f)
<1>1. CASE s.client = "closed"
  BY <1>1 DEF ToClient
<1>2. CASE s.client # "closed"
  <2>1. PICK q \in Seq(Frames) : q = Append(s.toClient, f)
    BY SocketField, AppendFacts
  <2>2. PICK t : t = [s EXCEPT !.toClient = q]
    OBVIOUS
  <2>3. ToClient(s, f) = t
    BY <1>2, <2>1, <2>2 DEF ToClient
  <2>4. t \in Sockets /\ t.client = s.client /\ t.server = s.server /\ t.toClient = q /\ t.toServer = s.toServer
    BY <2>2, SocketField
  <2> QED
    BY <1>2, <2>1, <2>3, <2>4
<1> QED
  BY <1>1, <1>2

LEMMA ToServerFacts ==
    ASSUME NEW s \in Sockets, NEW f \in Frames
    PROVE  LET t == ToServer(s, f) IN
           /\ t \in Sockets /\ t.client = s.client /\ t.server = s.server /\ t.toClient = s.toClient
<1>1. CASE s.server = "closed"
  BY <1>1 DEF ToServer
<1>2. CASE s.server # "closed"
  <2>1. PICK q \in Seq(Frames) : q = Append(s.toServer, f)
    BY SocketField, AppendFacts
  <2>2. ToServer(s, f) = [s EXCEPT !.toServer = q]
    BY <1>2, <2>1 DEF ToServer
  <2> QED
    BY <2>2, SocketField
<1> QED
  BY <1>1, <1>2

LEMMA ClosedFacts ==
    ASSUME NEW s \in Sockets
    PROVE  /\ LET t == [s EXCEPT !.client = "closed", !.toClient = <<>>] IN
              /\ t \in Sockets /\ t.client = "closed" /\ t.server = s.server /\ t.toClient = <<>> /\ t.toServer = s.toServer
           /\ LET t == [s EXCEPT !.server = "closed", !.toServer = <<>>] IN
              /\ t \in Sockets /\ t.client = s.client /\ t.server = "closed" /\ t.toClient = s.toClient /\ t.toServer = <<>>
<1>1. "closed" \in Ends /\ <<>> \in Seq(Frames)
  BY DEF Ends
<1>2. PICK c : c = [s EXCEPT !.client = "closed"]
  OBVIOUS
<1>3. PICK d : d = [s EXCEPT !.server = "closed"]
  OBVIOUS
<1>4. c \in Sockets /\ c.client = "closed" /\ c.server = s.server /\ c.toServer = s.toServer
  BY <1>1, <1>2, SocketField
<1>5. d \in Sockets /\ d.server = "closed" /\ d.client = s.client /\ d.toClient = s.toClient
  BY <1>1, <1>3, SocketField
<1>6. PICK t : t = [c EXCEPT !.toClient = <<>>]
  OBVIOUS
<1>7. t \in Sockets /\ t.client = "closed" /\ t.server = s.server /\ t.toClient = <<>> /\ t.toServer = s.toServer
  BY <1>1, <1>4, <1>6, SocketField
<1>8. [s EXCEPT !.client = "closed", !.toClient = <<>>] = t
  BY <1>2, <1>6
<1>9. PICK u : u = [d EXCEPT !.toServer = <<>>]
  OBVIOUS
<1>10. u \in Sockets /\ u.client = s.client /\ u.server = "closed" /\ u.toClient = s.toClient /\ u.toServer = <<>>
  BY <1>1, <1>5, <1>9, SocketField
<1>11. [s EXCEPT !.server = "closed", !.toServer = <<>>] = u
  BY <1>3, <1>9
<1> QED
  BY <1>7, <1>8, <1>10, <1>11

LEMMA ClientClosesFacts ==
    ASSUME NEW s \in Sockets
    PROVE  LET t == ClientCloses(s) IN
           /\ t \in Sockets /\ t.server = s.server
           /\ t.client = CASE s.client = "open" -> "closing" [] s.client = "connecting" -> "closed" [] OTHER -> s.client
           /\ t.toClient = IF s.client = "connecting" THEN <<>> ELSE s.toClient
<1>1. CASE s.client = "open"
  <2>1. PICK c : c = [s EXCEPT !.client = "closing"]
    OBVIOUS
  <2>2. c \in Sockets /\ c.client = "closing" /\ c.server = s.server /\ c.toClient = s.toClient
    BY <2>1, SocketField DEF Ends
  <2>3. ClientCloses(s) = ToServer(c, Close)
    BY <1>1, <2>1 DEF ClientCloses
  <2> QED
    BY <1>1, <2>2, <2>3, ToServerFacts, FrameType
<1>2. CASE s.client = "connecting"
  <2>1. PICK c : c = [s EXCEPT !.client = "closed", !.toClient = <<>>]
    OBVIOUS
  <2>2. c \in Sockets /\ c.client = "closed" /\ c.server = s.server /\ c.toClient = <<>>
    BY <2>1, ClosedFacts
  <2>3. ClientCloses(s) = ToServer(c, Reset)
    BY <1>2, <2>1 DEF ClientCloses
  <2> QED
    BY <1>2, <2>2, <2>3, ToServerFacts, FrameType
<1>3. CASE s.client \notin {"open", "connecting"}
  <2>1. ClientCloses(s) = s
    BY <1>3 DEF ClientCloses
  <2> QED
    BY <1>3, <2>1
<1> QED
  BY <1>1, <1>2, <1>3

LEMMA ServerClosesFacts ==
    ASSUME NEW s \in Sockets
    PROVE  LET t == ServerCloses(s) IN
           /\ t \in Sockets /\ t.client = s.client /\ t.toServer = s.toServer
           /\ t.server = IF s.server = "open" THEN "closing" ELSE s.server
           /\ t.toClient = IF s.server = "open" /\ s.client # "closed" THEN Append(s.toClient, Close) ELSE s.toClient
<1>1. CASE s.server = "open"
  <2>1. PICK c : c = [s EXCEPT !.server = "closing"]
    OBVIOUS
  <2>2. c \in Sockets /\ c.server = "closing" /\ c.client = s.client /\ c.toClient = s.toClient /\ c.toServer = s.toServer
    BY <2>1, SocketField DEF Ends
  <2>3. ServerCloses(s) = ToClient(c, Close)
    BY <1>1, <2>1 DEF ServerCloses
  <2> QED
    BY <1>1, <2>2, <2>3, ToClientFacts, FrameType
<1>2. CASE s.server # "open"
  BY <1>2 DEF ServerCloses
<1> QED
  BY <1>1, <1>2

LEMMA ClientClosedFacts ==
    ASSUME NEW s \in Sockets
    PROVE  LET t == ClientClosed(s) IN
           t \in Sockets /\ t.server = s.server /\ t.client = "closed" /\ t.toClient = <<>>
<1>1. PICK c : c = [s EXCEPT !.client = "closed", !.toClient = <<>>]
  OBVIOUS
<1>2. c \in Sockets /\ c.client = "closed" /\ c.server = s.server /\ c.toClient = <<>>
  BY <1>1, ClosedFacts
<1>3. ClientClosed(s) = c \/ ClientClosed(s) = ToServer(c, Close)
  BY <1>1 DEF ClientClosed
<1> QED
  BY <1>2, <1>3, ToServerFacts, FrameType

LEMMA ServerClosedFacts ==
    ASSUME NEW s \in Sockets
    PROVE  LET t == ServerClosed(s) IN
           /\ t \in Sockets /\ t.client = s.client /\ t.server = "closed" /\ t.toServer = <<>>
           /\ t.toClient = s.toClient \/ (s.client # "closed" /\ t.toClient = Append(s.toClient, Close))
<1>1. PICK c : c = [s EXCEPT !.server = "closed", !.toServer = <<>>]
  OBVIOUS
<1>2. c \in Sockets /\ c.server = "closed" /\ c.client = s.client /\ c.toClient = s.toClient /\ c.toServer = <<>>
  BY <1>1, ClosedFacts
<1>3. ServerClosed(s) = c \/ ServerClosed(s) = ToClient(c, Close)
  BY <1>1 DEF ServerClosed
<1>4. PICK t : t = ToClient(c, Close)
  OBVIOUS
<1>5. /\ t \in Sockets /\ t.client = s.client /\ t.server = "closed" /\ t.toServer = <<>>
      /\ t.toClient = s.toClient \/ (s.client # "closed" /\ t.toClient = Append(s.toClient, Close))
  <2>1. Close \in Frames
    BY FrameType
  <2>2. /\ t \in Sockets /\ t.client = c.client /\ t.server = c.server /\ t.toServer = c.toServer
        /\ t.toClient = IF c.client = "closed" THEN c.toClient ELSE Append(c.toClient, Close)
    BY <1>2, <1>4, <2>1, ToClientFacts
  <2>3. CASE s.client = "closed"
    BY <1>2, <2>2, <2>3
  <2>4. CASE s.client # "closed"
    BY <1>2, <2>2, <2>4
  <2> QED
    BY <2>3, <2>4
<1>6. CASE ServerClosed(s) = c
  BY <1>2, <1>6
<1>7. CASE ServerClosed(s) = t
  BY <1>5, <1>7
<1> QED
  BY <1>3, <1>4, <1>6, <1>7

LEMMA ClientTakesFacts ==
    ASSUME NEW s \in Sockets, s.toClient # <<>>
    PROVE  LET t == ClientTakes(s) IN
           /\ t \in Sockets /\ t.client = s.client /\ t.server = s.server /\ t.toServer = s.toServer
           /\ t.toClient = Tail(s.toClient)
<1>1. PICK q \in Seq(Frames) : q = Tail(s.toClient)
  BY SocketField, TailFacts
<1>2. PICK t : t = [s EXCEPT !.toClient = q]
  OBVIOUS
<1>3. ClientTakes(s) = t
  BY <1>1, <1>2 DEF ClientTakes
<1>4. t \in Sockets /\ t.client = s.client /\ t.server = s.server /\ t.toClient = q /\ t.toServer = s.toServer
  BY <1>2, SocketField
<1> QED
  BY <1>1, <1>3, <1>4

LEMMA ClientOpensFacts ==
    ASSUME NEW s \in Sockets, s.toClient # <<>>
    PROVE  LET t == ClientOpens(s) IN
           /\ t \in Sockets /\ t.server = s.server /\ t.toServer = s.toServer
           /\ t.client = IF s.client = "connecting" THEN "open" ELSE s.client
           /\ t.toClient = Tail(s.toClient)
<1>1. PICK q \in Seq(Frames) : q = Tail(s.toClient)
  BY SocketField, TailFacts
<1>2. PICK e \in Ends : e = IF s.client = "connecting" THEN "open" ELSE s.client
  BY SocketField DEF Ends
<1>3. PICK c : c = [s EXCEPT !.client = e]
  OBVIOUS
<1>4. c \in Sockets /\ c.client = e /\ c.server = s.server /\ c.toServer = s.toServer
  BY <1>3, SocketField
<1>5. PICK t : t = [c EXCEPT !.toClient = q]
  OBVIOUS
<1>6. ClientOpens(s) = t
  BY <1>1, <1>2, <1>3, <1>5 DEF ClientOpens
<1>7. t \in Sockets /\ t.client = e /\ t.server = s.server /\ t.toClient = q /\ t.toServer = s.toServer
  BY <1>4, <1>5, SocketField
<1> QED
  BY <1>1, <1>2, <1>6, <1>7

LEMMA BrokenFacts ==
    ASSUME NEW s \in Sockets
    PROVE  LET t == Broken(s) IN
           /\ t \in Sockets /\ t.client = s.client /\ t.server = s.server
           /\ t.toClient = IF s.client = "closed" THEN <<>> ELSE <<Reset>>
<1>0. <<>> \in Seq(Frames) /\ <<Reset>> \in Seq(Frames)
  <2>1. Reset \in Frames
    BY FrameType
  <2> QED
    BY <2>1
<1>1. PICK p \in Seq(Frames) : p = IF s.client = "closed" THEN <<>> ELSE <<Reset>>
  BY <1>0
<1>2. PICK q \in Seq(Frames) : q = IF s.server = "closed" THEN <<>> ELSE <<Reset>>
  BY <1>0
<1>3. PICK c : c = [s EXCEPT !.toClient = p]
  OBVIOUS
<1>4. c \in Sockets /\ c.client = s.client /\ c.server = s.server /\ c.toClient = p
  BY <1>3, SocketField
<1>5. PICK t : t = [c EXCEPT !.toServer = q]
  OBVIOUS
<1>6. Broken(s) = t
  BY <1>1, <1>2, <1>3, <1>5 DEF Broken
<1>7. t \in Sockets /\ t.client = s.client /\ t.server = s.server /\ t.toClient = p
  BY <1>4, <1>5, SocketField
<1> QED
  BY <1>1, <1>6, <1>7

-----------------------------------------------------------------------------
(* The invariant. A stream has a socket d down and a socket u up, its      *)
(* reader shows v of a turn with n events, and p is what the bridge still  *)
(* has to send of the initial state.                                       *)

Over(d) == d.client \in {"closing", "closed"}

NoData(q)  == \A i \in 1..Len(q) : ~IsData(q[i])
UpTo(q, n) == \A i \in 1..Len(q) : IsData(q[i]) => q[i].version <= n

\* The frames of u go on where those of d end, at t, and end at the turn's last event;
\* no version has been sent while the initial state is pending.
Upstream(u, t, n, p) ==
    /\ Steps(u.toClient) /\ Front(u.toClient, t)
    /\ NoEnd(u.toClient) /\ u.server = "open" /\ u.client # "closed" =>
          Tip(u.toClient, t) = None \/ (p = "none" /\ Tip(u.toClient, t) = n)

Chain(d, u, v, n, p) ==
    ~Over(d) =>
        /\ Steps(d.toClient) /\ Front(d.toClient, v)
        /\ NoEnd(d.toClient) => Upstream(u, Tip(d.toClient, v), n, p)

\* What the state of one end says of the other and of the frames between them: the hub
\* forwards until it has sent the end of the stream, and the bridge sends nothing before
\* it has accepted.
Wired(d, u, v) ==
    /\ d.server # "connecting"
    /\ d.server = "none" => d.client \in {"none", "closed"} /\ u = NoSocket /\ v = None /\ d.toClient = <<>>
    /\ ~Over(d) /\ (d.server \in {"closing", "closed"} \/ d.toServer # <<>>) => ~NoEnd(d.toClient)
    /\ d.client = "connecting" => d.toClient # <<>> /\ ~IsData(d.toClient[1])
    /\ u.server = "none" => u.toClient = <<>> /\ v = None /\ NoData(d.toClient)
    /\ u.client = "closed" => u.toClient = <<>>

\* No version is shown or sent that the turn has not had.
Real(d, u, v, n) == UpTo(d.toClient, n) /\ UpTo(u.toClient, n) /\ (v # None => v <= n)

Good(d, u, v, n, p) == Chain(d, u, v, n, p) /\ Wired(d, u, v) /\ Real(d, u, v, n)

\* The bridge serves the streams that are open, and no other; what it has to send of an
\* initial state is of an open stream, and not stale.
Served(k) ==
    /\ up[k].server = "open" <=> k \in subscribers
    /\ k \in subscribers => server = "up"
    /\ pending[k] # "none" => k \in subscribers
    /\ pending[k] = "state" => snapshot[k] = version

Inv ==
    /\ TypeOK
    /\ \A k \in Clients : Good(down[k], up[k], seen[k], version, pending[k]) /\ Served(k)

LEMMA Singles ==
    ASSUME NEW f \in Frames
    PROVE  /\ <<f>> \in Seq(Frames) /\ <<f>> # <<>> /\ <<f>>[1] = f
           /\ Steps(<<f>>) /\ Front(<<f>>, None)
           /\ ~IsData(f) => NoData(<<f>>) /\ \A n : UpTo(<<f>>, n)
           /\ ~IsData(f) => Tip(<<f>>, None) = None
           /\ IsEnd(f) => ~NoEnd(<<f>>) /\ \A v : Front(<<f>>, v)
           /\ ~IsEnd(f) => NoEnd(<<f>>)
<1>1. <<f>> \in Seq(Frames) /\ <<f>> # <<>> /\ <<f>>[1] = f /\ Len(<<f>>) = 1
  OBVIOUS
<1>2. PICK q \in Seq(Frames) : q = <<f>>
  BY <1>1
<1>3. q # <<>> /\ q[1] = f /\ Len(q) = 1 /\ 1..Len(q) = {1} /\ 1..(Len(q) - 1) = {}
  BY <1>1, <1>2
<1>4. Steps(q) /\ Front(q, None) /\ (IsEnd(f) => \A v : Front(q, v))
  BY <1>3 DEF Steps, Front
<1>5. (~IsData(f) => NoData(q) /\ \A n : UpTo(q, n)) /\ (~IsData(f) => Tip(q, None) = None)
  BY <1>3 DEF NoData, UpTo, Tip
<1>6. (IsEnd(f) => ~NoEnd(q)) /\ (~IsEnd(f) => NoEnd(q))
  BY <1>3 DEF NoEnd
<1> QED
  BY <1>1, <1>2, <1>4, <1>5, <1>6

LEMMA Empty ==
    /\ <<>> \in Seq(Frames) /\ Steps(<<>>) /\ NoEnd(<<>>) /\ NoData(<<>>)
    /\ \A v : Front(<<>>, v) /\ Tip(<<>>, v) = v
    /\ \A n : UpTo(<<>>, n)
<1>1. <<>> \in Seq(Frames)
  OBVIOUS
<1>2. PICK q \in Seq(Frames) : q = <<>>
  BY <1>1
<1>3. Len(q) = 0 /\ 1..Len(q) = {} /\ 1..(Len(q) - 1) = {}
  BY <1>2, EmptyFacts
<1>4. Steps(q) /\ NoEnd(q) /\ NoData(q) /\ \A n : UpTo(q, n)
  BY <1>3 DEF Steps, NoEnd, NoData, UpTo
<1>5. \A v : Front(q, v) /\ Tip(q, v) = v
  BY <1>2 DEF Front, Tip
<1> QED
  BY <1>1, <1>2, <1>4, <1>5

LEMMA AppendMore ==
    ASSUME NEW q \in Seq(Frames), NEW f \in Frames
    PROVE  /\ NoData(q) /\ ~IsData(f) => NoData(Append(q, f))
           /\ \A n \in Nat : UpTo(q, n) /\ (IsData(f) => f.version <= n) => UpTo(Append(q, f), n)
           /\ ~NoEnd(q) \/ IsEnd(f) => ~NoEnd(Append(q, f))
           /\ Append(q, f) # <<>>
           /\ q # <<>> => Append(q, f)[1] = q[1]
<1> DEFINE r == Append(q, f)
<1>1. /\ r # <<>> /\ Len(q) \in Nat /\ Len(r) = Len(q) + 1
      /\ \A i \in 1..Len(q) : r[i] = q[i]
      /\ r[Len(q) + 1] = f
  BY AppendFacts
<1> HIDE DEF r
<1>2. \A i \in 1..Len(r) : i \in 1..Len(q) \/ i = Len(q) + 1
  BY <1>1
<1>3. NoData(q) /\ ~IsData(f) => NoData(r)
  BY <1>1, <1>2 DEF NoData
<1>4. \A n \in Nat : UpTo(q, n) /\ (IsData(f) => f.version <= n) => UpTo(r, n)
  BY <1>1, <1>2 DEF UpTo
<1>5. ~NoEnd(q) \/ IsEnd(f) => ~NoEnd(r)
  <2>1. \A i \in 1..Len(q) : i \in 1..Len(r)
    BY <1>1
  <2>2. Len(q) + 1 \in 1..Len(r)
    BY <1>1
  <2> QED
    BY <1>1, <2>1, <2>2 DEF NoEnd
<1>6. q # <<>> => r[1] = q[1]
  BY <1>1, EmptyFacts
<1> QED
  BY <1>1, <1>3, <1>4, <1>5, <1>6 DEF r

LEMMA TailMore ==
    ASSUME NEW q \in Seq(Frames), q # <<>>
    PROVE  /\ NoData(q) => NoData(Tail(q)) /\ ~IsData(q[1])
           /\ \A n : UpTo(q, n) => UpTo(Tail(q), n) /\ (IsData(q[1]) => q[1].version <= n)
<1> DEFINE r == Tail(q)
<1>1. /\ r \in Seq(Frames) /\ Len(q) \in Nat \ {0} /\ Len(r) = Len(q) - 1
      /\ \A i \in 1..(Len(q) - 1) : r[i] = q[i + 1]
  BY TailFacts
<1> HIDE DEF r
<1>2. 1 \in 1..Len(q) /\ \A i \in 1..Len(r) : i + 1 \in 1..Len(q) /\ r[i] = q[i + 1]
  BY <1>1
<1>3. NoData(q) => NoData(r) /\ ~IsData(q[1])
  BY <1>2 DEF NoData
<1>4. \A n : UpTo(q, n) => UpTo(r, n) /\ (IsData(q[1]) => q[1].version <= n)
  BY <1>2 DEF UpTo
<1> QED
  BY <1>3, <1>4 DEF r

\* Only the bridge's side of a stream changes.
LEMMA UpOnly ==
    ASSUME NEW d \in Sockets, NEW u \in Sockets, NEW u2 \in Sockets, NEW v \in 0..MaxEvents \cup {None},
           NEW n \in 0..MaxEvents, NEW m \in 0..MaxEvents, NEW p, NEW p2,
           Good(d, u, v, n, p), n <= m,
           ASSUME NEW t, Upstream(u, t, n, p), u.server = "none" => t = None
           PROVE  Upstream(u2, t, m, p2),
           UpTo(u2.toClient, m),
           u2.server = "none" => u.server = "none" /\ u2.toClient = <<>>,
           u2.client = "closed" => u2.toClient = <<>>,
           u # NoSocket \/ u2 = u
    PROVE  Good(d, u2, v, m, p2)
<1>1. d.toClient \in Seq(Frames) /\ u2.toClient \in Seq(Frames)
  BY SocketField
<1>2. u.server = "none" => Tip(d.toClient, v) = None
  <2>1. ASSUME u.server = "none", d.toClient # <<>> PROVE ~IsData(d.toClient[Len(d.toClient)])
    <3>1. Len(d.toClient) \in 1..Len(d.toClient)
      BY <1>1, <2>1, EmptyFacts
    <3> QED
      BY <2>1, <3>1 DEF Good, Wired, NoData
  <2> QED
    BY <2>1 DEF Good, Wired, Tip
<1>3. Chain(d, u2, v, m, p2)
  BY <1>2 DEF Good, Chain
<1>4. Wired(d, u2, v)
  BY DEF Good, Wired
<1>5. Real(d, u2, v, m)
  <2>1. UpTo(d.toClient, m)
    <3>1. \A i \in 1..Len(d.toClient) : d.toClient[i].version \in Nat
      BY <1>1, EmptyFacts, Kinds
    <3> QED
      BY <3>1 DEF Good, Real, UpTo
  <2>2. v # None => v <= m
    BY DEF Good, Real
  <2> QED
    BY <2>1, <2>2 DEF Real
<1> QED
  BY <1>3, <1>4, <1>5 DEF Good

\* The bridge closes its end, or loses it; f may be sent.
LEMMA UpEnds ==
    ASSUME NEW u \in Sockets, NEW u2 \in Sockets, NEW f \in Frames, NEW t, NEW n, NEW p, NEW p2,
           Upstream(u, t, n, p), IsEnd(f), u2.server # "open",
           u2.toClient = u.toClient \/ u2.toClient = Append(u.toClient, f)
    PROVE  Upstream(u2, t, n, p2)
<1>1. u.toClient \in Seq(Frames)
  BY SocketField
<1>2. Steps(u2.toClient) /\ Front(u2.toClient, t)
  BY <1>1, PushDead DEF Upstream
<1> QED
  BY <1>2 DEF Upstream

\* The bridge sends version m.
LEMMA UpSends ==
    ASSUME NEW u \in Sockets, NEW u2 \in Sockets, NEW f \in Frames, NEW t, NEW n, NEW p, NEW m,
           Upstream(u, t, n, p), u.server = "open", u.client # "closed", IsData(f), f.version = m,
           m = n + 1 \/ p # "none",
           u2.toClient = Append(u.toClient, f)
    PROVE  Upstream(u2, t, m, "none")
<1>1. u.toClient \in Seq(Frames)
  BY SocketField
<1>2. CASE NoEnd(u.toClient)
  <2>1. Tip(u.toClient, t) # None => f.version = Tip(u.toClient, t) + 1
    BY <1>2 DEF Upstream
  <2>2. Steps(u2.toClient) /\ Front(u2.toClient, t) /\ Tip(u2.toClient, t) = m
    BY <1>1, <1>2, <2>1, PushData DEF Upstream
  <2> QED
    BY <2>2 DEF Upstream
<1>3. CASE ~NoEnd(u.toClient)
  <2>1. Steps(u2.toClient) /\ Front(u2.toClient, t) /\ ~NoEnd(u2.toClient)
    BY <1>1, <1>3, PushDead DEF Upstream
  <2> QED
    BY <2>1 DEF Upstream
<1> QED
  BY <1>2, <1>3

\* The hub takes the open frame of the bridge.
LEMMA UpOpens ==
    ASSUME NEW u \in Sockets, NEW u2 \in Sockets, NEW t, NEW n, NEW p,
           Upstream(u, t, n, p), u.toClient # <<>>, u.toClient[1].kind = "open",
           u.client # "closed", u2.server = u.server, u2.toClient = Tail(u.toClient)
    PROVE  Upstream(u2, t, n, p)
<1>1. u.toClient \in Seq(Frames) /\ u.toClient[1] \in Frames
  BY SocketField, TailFacts
<1>2. ~IsEnd(u.toClient[1]) /\ Reached(u.toClient[1], t) = t
  BY <1>1, Kinds DEF Reached
<1>3. /\ Steps(u2.toClient) /\ Front(u2.toClient, t)
      /\ NoEnd(u2.toClient) <=> NoEnd(u.toClient)
      /\ Tip(u2.toClient, t) = Tip(u.toClient, t)
  BY <1>1, <1>2, Pop DEF Upstream
<1> QED
  BY <1>3 DEF Upstream

\* The hub accepts a browser and connects to the bridge.
LEMMA Connects ==
    ASSUME NEW d2 \in Sockets, NEW u \in Sockets, NEW u2 \in Sockets, NEW v, NEW n, NEW p,
           Good(NoSocket, u, v, n, p),
           d2.client = "connecting", d2.server = "open", d2.toClient = <<Frame("open", 0)>>, d2.toServer = <<>>,
           u2.client = "connecting", u2.server = "none", u2.toClient = <<>>
    PROVE  Good(d2, u2, v, n, p)
<1> DEFINE f == Frame("open", 0)
<1>1. f \in Frames /\ ~IsEnd(f) /\ ~IsData(f)
  BY FrameType, TurnStreamAssumption
<1> HIDE DEF f
<1>2. v = None
  BY DEF Good, Wired, NoSocket
<1>3. /\ d2.toClient = <<f>> /\ d2.toClient # <<>> /\ d2.toClient[1] = f
      /\ Steps(d2.toClient) /\ Front(d2.toClient, v) /\ NoData(d2.toClient) /\ UpTo(d2.toClient, n)
      /\ Tip(d2.toClient, v) = None
  BY <1>1, <1>2, Singles DEF f
<1>4. Upstream(u2, None, n, p)
  BY Empty DEF Upstream
<1>5. Chain(d2, u2, v, n, p)
  BY <1>3, <1>4 DEF Chain
<1>6. Wired(d2, u2, v)
  BY <1>1, <1>2, <1>3 DEF Wired, Over
<1>7. Real(d2, u2, v, n)
  BY <1>2, <1>3, Empty DEF Real
<1> QED
  BY <1>5, <1>6, <1>7 DEF Good

\* The hub passes on a state or an event.
LEMMA Forwarded ==
    ASSUME NEW d \in Sockets, NEW d2 \in Sockets, NEW u \in Sockets, NEW u2 \in Sockets,
           NEW v, NEW n \in Nat, NEW p,
           Good(d, u, v, n, p), u.toClient # <<>>, IsData(u.toClient[1]), u.client # "closed",
           u2.client = u.client, u2.server = u.server, u2.toClient = Tail(u.toClient),
           d2.client = d.client, d2.server = d.server, d2.toServer = d.toServer,
           d2.toClient = IF d.server = "open" /\ d.client # "closed"
                         THEN Append(d.toClient, u.toClient[1]) ELSE d.toClient
    PROVE  Good(d2, u2, v, n, p)
<1> DEFINE f == u.toClient[1]
<1>1. /\ u.toClient \in Seq(Frames) /\ d.toClient \in Seq(Frames) /\ f \in Frames
      /\ u2.toClient = Tail(u.toClient)
      /\ d2.toClient = d.toClient \/ d2.toClient = Append(d.toClient, f)
      /\ d.server = "open" /\ d.client # "closed" => d2.toClient = Append(d.toClient, f)
      /\ IsData(f) /\ f = u.toClient[1]
  BY SocketField, TailFacts
<1> HIDE DEF f
<1>2. ~IsEnd(f) /\ f.version \in Nat /\ f.version # None
  BY <1>1, Kinds, TurnStreamAssumption
<1>3. f.version <= n /\ UpTo(u2.toClient, n)
  BY <1>1, TailMore DEF Good, Real
<1>4. Chain(d2, u2, v, n, p)
  <2> SUFFICES ASSUME ~Over(d2)
               PROVE  /\ Steps(d2.toClient) /\ Front(d2.toClient, v)
                      /\ NoEnd(d2.toClient) => Upstream(u2, Tip(d2.toClient, v), n, p)
    BY DEF Chain
  <2>1. ~Over(d) /\ Steps(d.toClient) /\ Front(d.toClient, v)
    BY DEF Over, Good, Chain
  <2>2. CASE ~NoEnd(d.toClient)
    BY <1>1, <2>1, <2>2, PushDead
  <2>3. CASE NoEnd(d.toClient)
    <3>1. Upstream(u, Tip(d.toClient, v), n, p)
      BY <2>1, <2>3 DEF Good, Chain
    <3>2. d.server = "open" /\ d.client # "closed"
      <4>1. d.server # "none"
        BY <1>1 DEF Good, Wired, NoSocket
      <4>2. d.server \notin {"connecting", "closing", "closed"}
        BY <2>1, <2>3 DEF Good, Wired
      <4>3. d.server \in Ends
        BY SocketField
      <4> QED
        BY <2>1, <4>1, <4>2, <4>3 DEF Ends, Over
    <3>3. PICK t : t = Tip(d.toClient, v)
      OBVIOUS
    <3>4. t # None => f.version = t + 1
      BY <1>1, <1>2, <3>1, <3>3 DEF Upstream, Front
    <3>5. Steps(d2.toClient) /\ Front(d2.toClient, v) /\ NoEnd(d2.toClient) /\ Tip(d2.toClient, v) = f.version
      BY <1>1, <2>1, <2>3, <3>2, <3>3, <3>4, PushData
    <3>6. /\ Steps(u2.toClient) /\ Front(u2.toClient, f.version)
          /\ NoEnd(u2.toClient) <=> NoEnd(u.toClient)
          /\ Tip(u2.toClient, f.version) = Tip(u.toClient, t)
      <4>1. Reached(f, t) = f.version
        BY <1>1 DEF Reached
      <4> QED
        BY <1>1, <1>2, <3>1, <3>3, <4>1, Pop DEF Upstream
    <3>7. Upstream(u2, f.version, n, p)
      BY <3>1, <3>3, <3>6 DEF Upstream
    <3> QED
      BY <3>5, <3>7
  <2> QED
    BY <2>2, <2>3
<1>5. Wired(d2, u2, v)
  <2>1. u.server # "none" /\ u # NoSocket
    BY DEF Good, Wired, NoSocket
  <2>2. d.toClient # <<>> => d2.toClient # <<>> /\ d2.toClient[1] = d.toClient[1]
    BY <1>1, AppendMore
  <2>3. ~NoEnd(d.toClient) => ~NoEnd(d2.toClient)
    BY <1>1, AppendMore
  <2> QED
    BY <2>1, <2>2, <2>3 DEF Good, Wired, Over
<1>6. Real(d2, u2, v, n)
  BY <1>1, <1>3, AppendMore DEF Good, Real
<1> QED
  BY <1>4, <1>5, <1>6 DEF Good

\* The hub closes the browser's socket, or has it closed, and the bridge's with it.
LEMMA HubEnds ==
    ASSUME NEW d \in Sockets, NEW d2 \in Sockets, NEW u \in Sockets, NEW u2 \in Sockets,
           NEW v, NEW n \in Nat, NEW p,
           Good(d, u, v, n, p), d.server # "none",
           d2.client = d.client, d2.server \in {"open", "closing", "closed"},
           d2.toClient = d.toClient \/ d2.toClient = Append(d.toClient, Close),
           Over(d) \/ ~NoEnd(d.toClient) \/ d2.toClient = Append(d.toClient, Close),
           u2.server = u.server, u2.toClient = u.toClient \/ u2.toClient = <<>>,
           u2.client = "closed" => u2.toClient = <<>>
    PROVE  Good(d2, u2, v, n, p)
<1>1. d.toClient \in Seq(Frames) /\ Close \in Frames /\ IsEnd(Close) /\ ~IsData(Close)
  BY SocketField, FrameType, Kinds
<1>2. ~NoEnd(d.toClient) => ~NoEnd(d2.toClient)
  BY <1>1, AppendMore
<1>3. ~Over(d) => Steps(d2.toClient) /\ Front(d2.toClient, v) /\ ~NoEnd(d2.toClient)
  BY <1>1, <1>2, PushDead DEF Good, Chain
<1>4. Chain(d2, u2, v, n, p)
  BY <1>3 DEF Chain, Over
<1>5. Wired(d2, u2, v)
  <2>1. d.toClient # <<>> => d2.toClient # <<>> /\ d2.toClient[1] = d.toClient[1]
    BY <1>1, AppendMore
  <2>2. NoData(d.toClient) => NoData(d2.toClient)
    BY <1>1, AppendMore
  <2> QED
    BY <1>3, <2>1, <2>2 DEF Good, Wired, Over
<1>6. Real(d2, u2, v, n)
  BY <1>1, AppendMore, Empty DEF Good, Real
<1> QED
  BY <1>4, <1>5, <1>6 DEF Good

\* The browser takes a frame that is not the end.
LEMMA Receives ==
    ASSUME NEW d \in Sockets, NEW d2 \in Sockets, NEW u \in Sockets, NEW v, NEW v2, NEW n \in Nat, NEW p,
           Good(d, u, v, n, p), d.toClient # <<>>, d.client \in {"connecting", "open", "closing"}, ~IsEnd(d.toClient[1]),
           d2.server = d.server, d2.toServer = d.toServer, d2.toClient = Tail(d.toClient),
           d2.client = IF d.client = "connecting" /\ ~IsData(d.toClient[1]) THEN "open" ELSE d.client,
           IsData(d.toClient[1]) /\ d.client = "open" => v2 = d.toClient[1].version,
           ~IsData(d.toClient[1]) \/ d.client # "open" => v2 = v
    PROVE  /\ Good(d2, u, v2, n, p)
           /\ IsData(d.toClient[1]) /\ d.client = "open" => v2 <= n /\ (v # None => v2 = v + 1)
<1> DEFINE f == d.toClient[1]
<1>1. d.toClient \in Seq(Frames) /\ f \in Frames /\ d2.toClient = Tail(d.toClient) /\ ~IsEnd(f) /\ f = d.toClient[1]
  BY SocketField, TailFacts
<1> HIDE DEF f
<1>2. d.client \in {"open", "connecting", "closing"} /\ d.server # "none"
  BY SocketField DEF Ends, Good, Wired
<1>3. d.client = "connecting" => ~IsData(f)
  BY <1>1 DEF Good, Wired
<1>4. Over(d2) <=> Over(d)
  BY <1>2 DEF Over
<1>5. ~Over(d) => v2 = Reached(f, v)
  BY <1>1, <1>2, <1>3 DEF Over, Reached
<1>6. ~Over(d) => /\ Steps(d2.toClient) /\ Front(d2.toClient, v2)
                  /\ NoEnd(d2.toClient) <=> NoEnd(d.toClient)
                  /\ Tip(d2.toClient, v2) = Tip(d.toClient, v)
  BY <1>1, <1>5, Pop DEF Good, Chain
<1>7. Chain(d2, u, v2, n, p)
  BY <1>4, <1>6 DEF Good, Chain
<1>8. /\ NoData(d.toClient) => NoData(d2.toClient) /\ ~IsData(f)
      /\ UpTo(d2.toClient, n) /\ (IsData(f) => f.version <= n)
  BY <1>1, TailMore DEF Good, Real
<1>9. Wired(d2, u, v2)
  <2>1. d2.client # "connecting"
    BY <1>1, <1>2, <1>3
  <2> QED
    BY <1>1, <1>2, <1>4, <1>6, <1>8, <2>1 DEF Good, Wired
<1>10. Real(d2, u, v2, n)
  BY <1>1, <1>8 DEF Good, Real
<1>11. IsData(f) /\ d.client = "open" => v2 <= n /\ (v # None => v2 = v + 1)
  BY <1>1, <1>8 DEF Good, Chain, Front, Over
<1> QED
  BY <1>1, <1>7, <1>9, <1>10, <1>11 DEF Good

\* The browser's end is over, or the link to it broke.
LEMMA DownEnds ==
    ASSUME NEW d \in Sockets, NEW d2 \in Sockets, NEW u \in Sockets, NEW v, NEW n \in Nat, NEW p,
           Good(d, u, v, n, p), d.server # "none", d2.server = d.server,
           d2.toClient = <<>> \/ d2.toClient = <<Reset>> \/ d2.toClient = d.toClient,
           Over(d2) \/ (d2.client = d.client /\ d2.toClient = <<Reset>>)
    PROVE  Good(d2, u, v, n, p)
<1>1. d.toClient \in Seq(Frames) /\ Reset \in Frames /\ IsEnd(Reset) /\ ~IsData(Reset)
  BY SocketField, FrameType, Kinds
<1>2. /\ Steps(<<Reset>>) /\ Front(<<Reset>>, v) /\ ~NoEnd(<<Reset>>) /\ NoData(<<Reset>>) /\ UpTo(<<Reset>>, n)
      /\ <<Reset>> # <<>> /\ <<Reset>>[1] = Reset
  BY <1>1, Singles
<1>3. Chain(d2, u, v, n, p)
  BY <1>2 DEF Chain
<1>4. Wired(d2, u, v)
  <2>1. NoData(d.toClient) => NoData(d2.toClient)
    BY <1>2, Empty
  <2>2. ~Over(d2) => d2.toClient # <<>> /\ d2.toClient[1] = Reset /\ ~NoEnd(d2.toClient)
    BY <1>2
  <2>3. d2.client = "connecting" => ~Over(d2)
    BY DEF Over
  <2> QED
    BY <1>1, <2>1, <2>2, <2>3 DEF Good, Wired
<1>5. Real(d2, u, v, n)
  BY <1>2, Empty DEF Good, Real
<1> QED
  BY <1>3, <1>4, <1>5 DEF Good

-----------------------------------------------------------------------------
(* Every step preserves the invariant.                                     *)

LEMMA InitInv == Init => Inv
<1> SUFFICES ASSUME Init PROVE Inv
  OBVIOUS
<1>1. NoSocket \in Sockets
  BY Empty DEF NoSocket, Sockets, Ends
<1>2. TypeOK
  BY <1>1, TurnStreamAssumption DEF Init, TypeOK
<1>3. Good(NoSocket, NoSocket, None, 0, "none")
  <2>1. PICK s : s = NoSocket
    OBVIOUS
  <2>2. s.client = "none" /\ s.server = "none" /\ s.toClient = <<>> /\ s.toServer = <<>>
    BY <2>1 DEF NoSocket
  <2>3. Upstream(s, None, 0, "none")
    BY <2>2, Empty DEF Upstream
  <2>4. Chain(s, s, None, 0, "none") /\ Real(s, s, None, 0)
    BY <2>2, <2>3, Empty DEF Chain, Real
  <2>5. Wired(s, s, None)
    BY <2>1, <2>2, Empty DEF Wired
  <2> QED
    BY <2>1, <2>4, <2>5 DEF Good
<1>4. ASSUME NEW k \in Clients PROVE Good(down[k], up[k], seen[k], version, pending[k]) /\ Served(k)
  <2>1. down[k] = NoSocket /\ up[k] = NoSocket /\ seen[k] = None /\ version = 0 /\ pending[k] = "none" /\ subscribers = {}
    BY DEF Init
  <2>2. up[k].server # "open"
    BY <2>1 DEF NoSocket
  <2> QED
    BY <1>3, <2>1, <2>2 DEF Served
<1> QED
  BY <1>2, <1>4 DEF Inv

\* A step of one stream.
LEMMA OneStream ==
    ASSUME Inv, NEW c \in Clients, NEW d2 \in Sockets, NEW u2 \in Sockets, NEW v2 \in 0..MaxEvents \cup {None},
           NEW p2 \in {"none", "hello", "state"}, NEW s2 \in 0..MaxEvents,
           down' = [down EXCEPT ![c] = d2], up' = [up EXCEPT ![c] = u2], seen' = [seen EXCEPT ![c] = v2],
           pending' = [pending EXCEPT ![c] = p2], snapshot' = [snapshot EXCEPT ![c] = s2],
           subscribers' \in {subscribers, subscribers \cup {c}, subscribers \ {c}},
           UNCHANGED <<version, known, server, http>>, breaks' \in 0..MaxBreaks,
           Good(d2, u2, v2, version, p2),
           u2.server = "open" <=> c \in subscribers',
           c \in subscribers' => server = "up",
           p2 # "none" => c \in subscribers',
           p2 = "state" => s2 = version
    PROVE  Inv'
<1>1. TypeOK'
  BY DEF Inv, TypeOK
<1>2. /\ down'[c] = d2 /\ up'[c] = u2 /\ seen'[c] = v2 /\ pending'[c] = p2 /\ snapshot'[c] = s2
      /\ \A k \in Clients \ {c} : /\ down'[k] = down[k] /\ up'[k] = up[k] /\ seen'[k] = seen[k]
                                  /\ pending'[k] = pending[k] /\ snapshot'[k] = snapshot[k]
                                  /\ k \in subscribers' <=> k \in subscribers
  BY DEF Inv, TypeOK
<1>3. ASSUME NEW k \in Clients PROVE (Good(down[k], up[k], seen[k], version, pending[k]) /\ Served(k))'
  <2>1. CASE k = c
    BY <1>2, <2>1 DEF Served
  <2>2. CASE k # c
    <3>1. Good(down[k], up[k], seen[k], version, pending[k]) /\ Served(k)
      BY DEF Inv
    <3> QED
      BY <1>2, <2>2, <3>1 DEF Served
  <2> QED
    BY <2>1, <2>2
<1> QED
  BY <1>1, <1>3 DEF Inv

LEMMA StreamFacts ==
    ASSUME Inv, NEW k \in Clients
    PROVE  /\ down[k] \in Sockets /\ up[k] \in Sockets /\ seen[k] \in 0..MaxEvents \cup {None}
           /\ pending[k] \in {"none", "hello", "state"} /\ snapshot[k] \in 0..MaxEvents
           /\ version \in 0..MaxEvents /\ version \in Nat
           /\ Good(down[k], up[k], seen[k], version, pending[k]) /\ Served(k)
           /\ down = [down EXCEPT ![k] = down[k]] /\ up = [up EXCEPT ![k] = up[k]]
           /\ seen = [seen EXCEPT ![k] = seen[k]] /\ pending = [pending EXCEPT ![k] = pending[k]]
           /\ snapshot = [snapshot EXCEPT ![k] = snapshot[k]]
           /\ breaks \in 0..MaxBreaks
BY DEF Inv, TypeOK

LEMMA AcceptInv == ASSUME Inv, NEW c \in Clients, Accept(c) PROVE Inv'
<1>1. PICK d, u, v, p, s : d = down[c] /\ u = up[c] /\ v = seen[c] /\ p = pending[c] /\ s = snapshot[c]
  OBVIOUS
<1>2. /\ d \in Sockets /\ u \in Sockets /\ v \in 0..MaxEvents \cup {None} /\ s \in 0..MaxEvents /\ version \in 0..MaxEvents
      /\ Good(d, u, v, version, p) /\ p = "none" /\ breaks \in 0..MaxBreaks
      /\ u.client # "none" /\ u.server = "none" /\ u # NoSocket
      /\ u.toClient = <<>> /\ u.toClient \in Seq(Frames)
  BY <1>1, StreamFacts, SocketField DEF Accept, MicrotasksFirst, Good, Wired, NoSocket
<1>3. /\ down' = [down EXCEPT ![c] = d] /\ seen' = [seen EXCEPT ![c] = v] /\ snapshot' = [snapshot EXCEPT ![c] = s]
      /\ UNCHANGED <<version, known, server, http>> /\ breaks' = breaks
  BY <1>1, StreamFacts DEF Accept
<1>4. CASE /\ server = "up"
           /\ up' = [up EXCEPT ![c] = ToClient([up[c] EXCEPT !.server = "open"], Frame("open", 0))]
           /\ subscribers' = subscribers \cup {c}
           /\ pending' = [pending EXCEPT ![c] = IF known THEN "hello" ELSE "none"]
  <2>1. PICK f \in Frames : f = Frame("open", 0) /\ ~IsEnd(f) /\ ~IsData(f)
    BY FrameType, TurnStreamAssumption
  <2>2. PICK a : a = [u EXCEPT !.server = "open"]
    OBVIOUS
  <2>3. a \in Sockets /\ a.client = u.client /\ a.server = "open" /\ a.toClient = <<>>
    BY <1>2, <2>2, SocketField DEF Ends
  <2>4. PICK u2 : u2 = ToClient(a, f)
    OBVIOUS
  <2>5. /\ u2 \in Sockets /\ u2.client = u.client /\ u2.server = "open"
        /\ u2.toClient = IF u.client = "closed" THEN <<>> ELSE Append(<<>>, f)
    BY <2>3, <2>4, ToClientFacts
  <2>6. Append(<<>>, f) = <<f>>
    BY <2>1
  <2>7. PICK p2 : p2 = IF known THEN "hello" ELSE "none"
    OBVIOUS
  <2>8. ASSUME NEW t, u.server = "none" => t = None PROVE Upstream(u2, t, version, p2)
    <3>1. t = None
      BY <1>2, <2>8
    <3>2. Steps(u2.toClient) /\ Front(u2.toClient, None) /\ Tip(u2.toClient, None) = None
      BY <2>1, <2>5, <2>6, Singles, Empty
    <3> QED
      BY <3>1, <3>2 DEF Upstream
  <2>9. UpTo(u2.toClient, version)
    BY <2>1, <2>5, <2>6, Singles, Empty
  <2>10. u2.client = "closed" => u2.toClient = <<>>
    BY <2>5
  <2>11. version <= version
    BY <1>2
  <2>12. Good(d, u2, v, version, p2)
    BY <1>2, <2>5, <2>8, <2>9, <2>10, <2>11, UpOnly
  <2>13. up' = [up EXCEPT ![c] = u2] /\ pending' = [pending EXCEPT ![c] = p2] /\ subscribers' = subscribers \cup {c}
    BY <1>1, <1>4, <2>1, <2>2, <2>4, <2>7
  <2> QED
    BY <1>2, <1>3, <1>4, <2>5, <2>7, <2>12, <2>13, OneStream
<1>5. CASE /\ server # "up"
           /\ up' = [up EXCEPT ![c] = ToClient([up[c] EXCEPT !.server = "closed", !.toServer = <<>>], Reset)]
           /\ UNCHANGED <<subscribers, pending>>
  <2>1. PICK a : a = [u EXCEPT !.server = "closed", !.toServer = <<>>]
    OBVIOUS
  <2>2. a \in Sockets /\ a.client = u.client /\ a.server = "closed" /\ a.toClient = u.toClient
    BY <1>2, <2>1, ClosedFacts
  <2>3. PICK f \in Frames : f = Reset /\ IsEnd(f) /\ ~IsData(f)
    BY FrameType, Kinds
  <2>4. PICK u2 : u2 = ToClient(a, f)
    OBVIOUS
  <2>5. /\ u2 \in Sockets /\ u2.client = u.client /\ u2.server = "closed"
        /\ u2.toClient = IF u.client = "closed" THEN u.toClient ELSE Append(u.toClient, f)
    BY <2>2, <2>4, ToClientFacts
  <2>6. \A t : Upstream(u, t, version, p) => Upstream(u2, t, version, p)
    BY <1>2, <2>3, <2>5, UpEnds
  <2>7. UpTo(u2.toClient, version)
    <3>1. UpTo(u.toClient, version) /\ version \in Nat
      BY <1>2, StreamFacts DEF Good, Real
    <3>2. UpTo(Append(u.toClient, f), version)
      BY <1>2, <2>3, <3>1, AppendMore
    <3> QED
      BY <2>5, <3>1, <3>2
  <2>8. u2.client = "closed" => u2.toClient = <<>>
    BY <1>2, <2>5
  <2>9. version <= version
    BY <1>2
  <2>10. Good(d, u2, v, version, p)
    BY <1>2, <2>5, <2>6, <2>7, <2>8, <2>9, UpOnly
  <2>11. up' = [up EXCEPT ![c] = u2] /\ pending' = [pending EXCEPT ![c] = p] /\ subscribers' = subscribers
    BY <1>1, <1>5, <2>1, <2>3, <2>4, StreamFacts
  <2>12. c \notin subscribers'
    BY <1>1, <1>2, <2>11, StreamFacts DEF Served
  <2> QED
    BY <1>2, <1>3, <2>5, <2>10, <2>11, <2>12, OneStream
<1> QED
  BY <1>4, <1>5 DEF Accept

LEMMA HelloSentInv == ASSUME Inv, NEW c \in Clients, HelloSent(c) PROVE Inv'
<1>1. PICK d, u, v, n : d = down[c] /\ u = up[c] /\ v = seen[c] /\ n = version
  OBVIOUS
<1>2. /\ d \in Sockets /\ u \in Sockets /\ v \in 0..MaxEvents \cup {None} /\ n \in 0..MaxEvents
      /\ Good(d, u, v, n, "hello") /\ breaks \in 0..MaxBreaks /\ Served(c)
  BY <1>1, StreamFacts DEF HelloSent
<1>3. Good(d, u, v, n, "state")
  BY <1>2 DEF Good, Chain, Upstream
<1>4. /\ down' = [down EXCEPT ![c] = d] /\ up' = [up EXCEPT ![c] = u] /\ seen' = [seen EXCEPT ![c] = v]
      /\ pending' = [pending EXCEPT ![c] = "state"] /\ snapshot' = [snapshot EXCEPT ![c] = n]
      /\ UNCHANGED <<version, known, server, http>> /\ breaks' = breaks /\ subscribers' = subscribers
  BY <1>1, StreamFacts DEF HelloSent
<1>5. (u.server = "open" <=> c \in subscribers') /\ (c \in subscribers' => server = "up") /\ c \in subscribers'
  BY <1>1, <1>2, <1>4 DEF Served, HelloSent
<1> QED
  BY <1>1, <1>2, <1>3, <1>4, <1>5, OneStream

LEMMA StateSentInv == ASSUME Inv, NEW c \in Clients, StateSent(c) PROVE Inv'
<1>1. PICK d, u, v, n : d = down[c] /\ u = up[c] /\ v = seen[c] /\ n = version
  OBVIOUS
<1>2. /\ d \in Sockets /\ u \in Sockets /\ v \in 0..MaxEvents \cup {None} /\ n \in 0..MaxEvents
      /\ Good(d, u, v, n, "state") /\ breaks \in 0..MaxBreaks /\ Served(c)
      /\ pending[c] = "state" /\ u.toClient \in Seq(Frames)
  BY <1>1, StreamFacts, SocketField DEF StateSent
<1>3. u.server = "open" /\ snapshot[c] = n /\ c \in subscribers /\ server = "up" /\ u # NoSocket
  BY <1>1, <1>2 DEF Served, NoSocket
<1>4. PICK f \in Frames : f = Frame("state", n) /\ IsData(f) /\ f.version = n
  BY <1>2, FrameType
<1>5. PICK u2 : u2 = ToClient(u, f)
  OBVIOUS
<1>6. /\ u2 \in Sockets /\ u2.client = u.client /\ u2.server = "open"
      /\ u2.toClient = IF u.client = "closed" THEN u.toClient ELSE Append(u.toClient, f)
  BY <1>2, <1>3, <1>5, ToClientFacts
<1>7. ASSUME NEW t, Upstream(u, t, n, "state") PROVE Upstream(u2, t, n, "none")
  <2>1. CASE u.client = "closed"
    BY <1>6, <1>7, <2>1 DEF Upstream
  <2>2. CASE u.client # "closed"
    BY <1>2, <1>3, <1>4, <1>6, <1>7, <2>2, UpSends
  <2> QED
    BY <2>1, <2>2
<1>8. UpTo(u2.toClient, n)
  BY <1>2, <1>4, <1>6, AppendMore DEF Good, Real
<1>9. u2.client = "closed" => u2.toClient = <<>>
  BY <1>2, <1>6 DEF Good, Wired
<1>10. n <= n
  BY <1>2
<1>11. Good(d, u2, v, n, "none")
  BY <1>2, <1>3, <1>6, <1>7, <1>8, <1>9, <1>10, UpOnly
<1>12. /\ down' = [down EXCEPT ![c] = d] /\ up' = [up EXCEPT ![c] = u2] /\ seen' = [seen EXCEPT ![c] = v]
       /\ pending' = [pending EXCEPT ![c] = "none"] /\ snapshot' = [snapshot EXCEPT ![c] = 0]
       /\ UNCHANGED <<version, known, server, http>> /\ breaks' = breaks /\ subscribers' = subscribers
  BY <1>1, <1>3, <1>4, <1>5, StreamFacts DEF StateSent
<1>13. 0 \in 0..MaxEvents
  BY TurnStreamAssumption
<1> QED
  BY <1>1, <1>2, <1>3, <1>6, <1>11, <1>12, <1>13, OneStream

LEMMA SubscriberClosesInv == ASSUME Inv, NEW c \in Clients, SubscriberCloses(c) PROVE Inv'
<1>1. PICK d, u, v, n, p, s : d = down[c] /\ u = up[c] /\ v = seen[c] /\ n = version /\ p = pending[c] /\ s = snapshot[c]
  OBVIOUS
<1>2. /\ d \in Sockets /\ u \in Sockets /\ v \in 0..MaxEvents \cup {None} /\ n \in 0..MaxEvents /\ s \in 0..MaxEvents
      /\ Good(d, u, v, n, p) /\ breaks \in 0..MaxBreaks /\ p = "none"
      /\ u.toClient \in Seq(Frames) /\ u # NoSocket /\ u.server # "none"
  BY <1>1, StreamFacts, SocketField DEF SubscriberCloses, MicrotasksFirst, ServerHears, NoSocket
<1>3. PICK f \in Frames : f = Close /\ IsEnd(f) /\ ~IsData(f)
  BY FrameType, Kinds
<1>4. PICK u2 : u2 = ServerClosed(u)
  OBVIOUS
<1>5. /\ u2 \in Sockets /\ u2.client = u.client /\ u2.server = "closed"
      /\ u2.toClient = u.toClient \/ (u.client # "closed" /\ u2.toClient = Append(u.toClient, f))
  BY <1>2, <1>3, <1>4, ServerClosedFacts
<1>6. \A t : Upstream(u, t, n, p) => Upstream(u2, t, n, p)
  BY <1>2, <1>3, <1>5, UpEnds
<1>7. UpTo(u2.toClient, n)
  <2>1. UpTo(u.toClient, n) /\ n \in Nat
    BY <1>1, <1>2, StreamFacts DEF Good, Real
  <2>2. UpTo(Append(u.toClient, f), n)
    BY <1>2, <1>3, <2>1, AppendMore
  <2> QED
    BY <1>5, <2>1, <2>2
<1>8. u2.client = "closed" => u2.toClient = <<>>
  BY <1>2, <1>5 DEF Good, Wired
<1>9. n <= n
  BY <1>2
<1>10. Good(d, u2, v, n, p)
  BY <1>2, <1>5, <1>6, <1>7, <1>8, <1>9, UpOnly
<1>11. /\ down' = [down EXCEPT ![c] = d] /\ up' = [up EXCEPT ![c] = u2] /\ seen' = [seen EXCEPT ![c] = v]
       /\ pending' = [pending EXCEPT ![c] = p] /\ snapshot' = [snapshot EXCEPT ![c] = s]
       /\ UNCHANGED <<version, known, server, http>> /\ breaks' = breaks /\ subscribers' = subscribers \ {c}
  BY <1>1, <1>4, StreamFacts DEF SubscriberCloses, Unsubscribe
<1> QED
  BY <1>1, <1>2, <1>5, <1>10, <1>11, OneStream

\* Every stream changes at the bridge's side.
LEMMA AllUp ==
    ASSUME Inv, TypeOK', UNCHANGED <<down, seen, pending>>, \A k \in Clients : pending[k] = "none",
           ASSUME NEW k \in Clients PROVE Good(down[k], up'[k], seen[k], version', "none"),
           \A k \in Clients : (up'[k].server = "open" <=> k \in subscribers') /\ (k \in subscribers' => server' = "up")
    PROVE  Inv'
<1>1. ASSUME NEW k \in Clients PROVE (Good(down[k], up[k], seen[k], version, pending[k]) /\ Served(k))'
  <2>1. down'[k] = down[k] /\ seen'[k] = seen[k] /\ pending'[k] = "none"
    OBVIOUS
  <2>2. Good(down[k], up'[k], seen[k], version', "none")
    OBVIOUS
  <2> QED
    BY <2>1, <2>2 DEF Served
<1> QED
  BY <1>1 DEF Inv

LEMMA TurnEventInv == ASSUME Inv, TurnEvent PROVE Inv'
<1>1. /\ version' = version + 1 /\ version' \in 0..MaxEvents /\ version \in 0..MaxEvents
      /\ \A k \in Clients : pending[k] = "none"
      /\ UNCHANGED <<down, seen, pending, snapshot, subscribers, server, http, breaks>> /\ known' = TRUE
  BY TurnStreamAssumption DEF TurnEvent, MicrotasksFirst, bridgeVars, Inv, TypeOK
<1>2. PICK f \in Frames : f = EventFrame(version') /\ IsData(f) /\ f.version = version'
  BY <1>1, FrameType DEF EventFrame
<1>3. ASSUME NEW k \in Clients
      PROVE  /\ up'[k] \in Sockets /\ up'[k].server = up[k].server
             /\ Good(down[k], up'[k], seen[k], version', "none")
  <2>1. PICK d, u, v, n, u2, m : d = down[k] /\ u = up[k] /\ v = seen[k] /\ n = version /\ u2 = up'[k] /\ m = version'
    OBVIOUS
  <2>2. /\ d \in Sockets /\ u \in Sockets /\ v \in 0..MaxEvents \cup {None} /\ n \in 0..MaxEvents
        /\ m \in 0..MaxEvents /\ m = n + 1 /\ m \in Nat /\ n \in Nat
        /\ Good(d, u, v, n, "none") /\ u.toClient \in Seq(Frames)
    BY <1>1, <2>1, StreamFacts, SocketField
  <2>3. u.server = "open" <=> (server = "up" /\ k \in subscribers /\ u.server = "open")
    BY <2>1, StreamFacts DEF Served
  <2>4. u2 = IF u.server = "open" THEN ToClient(u, f) ELSE u
    BY <1>2, <2>1, <2>3 DEF TurnEvent
  <2>5. CASE u.server = "open"
    <3>1. /\ u2 \in Sockets /\ u2.client = u.client /\ u2.server = "open"
          /\ u2.toClient = IF u.client = "closed" THEN u.toClient ELSE Append(u.toClient, f)
      BY <2>2, <2>4, <2>5, ToClientFacts
    <3>2. ASSUME NEW t, Upstream(u, t, n, "none") PROVE Upstream(u2, t, m, "none")
      <4>1. CASE u.client = "closed"
        BY <3>1, <3>2, <4>1 DEF Upstream
      <4>2. CASE u.client # "closed"
        BY <1>2, <2>1, <2>2, <2>5, <3>1, <3>2, <4>2, UpSends
      <4> QED
        BY <4>1, <4>2
    <3>3. UpTo(u.toClient, m)
      <4>1. \A i \in 1..Len(u.toClient) : u.toClient[i].version \in Nat
        BY <2>2, EmptyFacts, Kinds
      <4> QED
        BY <2>2, <4>1 DEF Good, Real, UpTo
    <3>4. UpTo(Append(u.toClient, f), m)
      BY <1>2, <2>1, <2>2, <3>3, AppendMore
    <3>5. UpTo(u2.toClient, m)
      BY <3>1, <3>3, <3>4
    <3>6. (u2.client = "closed" => u2.toClient = <<>>) /\ u # NoSocket
      BY <2>2, <2>5, <3>1 DEF Good, Wired, NoSocket
    <3>7. n <= m
      BY <2>2
    <3>8. Good(d, u2, v, m, "none")
      BY <2>2, <3>1, <3>2, <3>5, <3>6, <3>7, UpOnly
    <3> QED
      BY <2>1, <2>5, <3>1, <3>8
  <2>6. CASE u.server # "open"
    <3>1. u2 = u
      BY <2>4, <2>6
    <3>2. \A t : Upstream(u, t, n, "none") => Upstream(u2, t, m, "none")
      BY <2>6, <3>1 DEF Upstream
    <3>3. UpTo(u.toClient, m)
      <4>1. \A i \in 1..Len(u.toClient) : u.toClient[i].version \in Nat
        BY <2>2, EmptyFacts, Kinds
      <4> QED
        BY <2>2, <4>1 DEF Good, Real, UpTo
    <3>4. (u2.client = "closed" => u2.toClient = <<>>) /\ (u2.server = "none" => u.server = "none" /\ u2.toClient = <<>>)
      BY <2>2, <3>1 DEF Good, Wired
    <3>5. n <= m
      BY <2>2
    <3>6. Good(d, u2, v, m, "none")
      BY <2>2, <3>1, <3>2, <3>3, <3>4, <3>5, UpOnly
    <3> QED
      BY <2>1, <2>2, <3>1, <3>6
  <2> QED
    BY <2>5, <2>6
<1>4. up' \in [Clients -> Sockets]
  <2>1. up' = [k \in Clients |-> up'[k]]
    BY DEF TurnEvent
  <2> QED
    BY <1>3, <2>1
<1>5. TypeOK'
  BY <1>1, <1>4 DEF Inv, TypeOK
<1>6. \A k \in Clients : (up'[k].server = "open" <=> k \in subscribers') /\ (k \in subscribers' => server' = "up")
  BY <1>1, <1>3, StreamFacts DEF Served
<1> QED
  BY <1>1, <1>3, <1>5, <1>6, AllUp

LEMMA StopInv == ASSUME Inv, Stop PROVE Inv'
<1>1. /\ version \in 0..MaxEvents /\ subscribers' = {} /\ server' = "stopping"
      /\ \A k \in Clients : pending[k] = "none"
      /\ UNCHANGED <<version, known, down, seen, pending, snapshot, http, breaks>>
  BY DEF Stop, MicrotasksFirst, Inv, TypeOK
<1>2. PICK f \in Frames : f = Close /\ IsEnd(f) /\ ~IsData(f)
  BY FrameType, Kinds
<1>3. ASSUME NEW k \in Clients
      PROVE  /\ up'[k] \in Sockets /\ up'[k].server # "open"
             /\ Good(down[k], up'[k], seen[k], version, "none")
  <2>1. PICK d, u, v, n, u2 : d = down[k] /\ u = up[k] /\ v = seen[k] /\ n = version /\ u2 = up'[k]
    OBVIOUS
  <2>2. /\ d \in Sockets /\ u \in Sockets /\ v \in 0..MaxEvents \cup {None} /\ n \in 0..MaxEvents
        /\ n \in Nat /\ n <= n /\ Good(d, u, v, n, "none") /\ u.toClient \in Seq(Frames)
    BY <1>1, <2>1, StreamFacts, SocketField
  <2>3. u2 = IF u.server = "open" THEN ServerCloses(u) ELSE u
    BY <2>1, StreamFacts DEF Served, Stop, ClosesClient
  <2>4. CASE u.server = "open"
    <3>1. /\ u2 \in Sockets /\ u2.client = u.client /\ u2.server = "closing"
          /\ u2.toClient = IF u.client # "closed" THEN Append(u.toClient, f) ELSE u.toClient
      BY <1>2, <2>2, <2>3, <2>4, ServerClosesFacts
    <3>2. \A t : Upstream(u, t, n, "none") => Upstream(u2, t, n, "none")
      BY <1>2, <2>2, <3>1, UpEnds
    <3>3. UpTo(u.toClient, n)
      BY <2>2 DEF Good, Real
    <3>4. UpTo(Append(u.toClient, f), n)
      BY <1>2, <2>2, <3>3, AppendMore
    <3>5. UpTo(u2.toClient, n)
      BY <3>1, <3>3, <3>4
    <3>6. (u2.client = "closed" => u2.toClient = <<>>) /\ u # NoSocket
      BY <2>2, <2>4, <3>1 DEF Good, Wired, NoSocket
    <3>7. Good(d, u2, v, n, "none")
      BY <2>2, <3>1, <3>2, <3>5, <3>6, UpOnly
    <3> QED
      BY <2>1, <3>1, <3>7
  <2>5. CASE u.server # "open"
    BY <2>1, <2>2, <2>3, <2>5
  <2> QED
    BY <2>4, <2>5
<1>4. up' \in [Clients -> Sockets]
  <2>1. up' = [k \in Clients |-> up'[k]]
    BY DEF Stop
  <2> QED
    BY <1>3, <2>1
<1>5. TypeOK'
  BY <1>1, <1>4 DEF Inv, TypeOK
<1>6. \A k \in Clients : (up'[k].server = "open" <=> k \in subscribers') /\ (k \in subscribers' => server' = "up")
  BY <1>1, <1>3
<1> QED
  BY <1>1, <1>3, <1>5, <1>6, AllUp

\* The streams do not change: requests, and the end of stop.
LEMMA OtherInv ==
    ASSUME Inv, Stopped \/ (\E r \in Requests : ForwardRequest(r) \/ HttpSteps(r)) \/ UNCHANGED vars
    PROVE  Inv'
<1>1. /\ UNCHANGED <<version, known, subscribers, pending, snapshot, up, down, seen>>
      /\ server' = server \/ (server = "stopping" /\ server' = "stopped")
  BY DEF Stopped, ForwardRequest, HttpSteps, HandleRequest, RelayAnswer, UpstreamError, bridgeVars, vars
<1>2. TypeOK'
  <2>1. http' \in [Requests -> {"none", "asked", "working", "done", "failed"}]
    BY DEF Stopped, ForwardRequest, HttpSteps, HandleRequest, RelayAnswer, UpstreamError, vars, Inv, TypeOK
  <2>2. breaks' \in 0..MaxBreaks
    BY TurnStreamAssumption
       DEF Stopped, ForwardRequest, HttpSteps, HandleRequest, RelayAnswer, UpstreamError, vars, Inv, TypeOK
  <2> QED
    BY <1>1, <2>1, <2>2 DEF Inv, TypeOK
<1>3. ASSUME NEW k \in Clients PROVE (Good(down[k], up[k], seen[k], version, pending[k]) /\ Served(k))'
  <2>1. Good(down[k], up[k], seen[k], version, pending[k]) /\ Served(k)
    BY DEF Inv
  <2> QED
    BY <1>1, <2>1 DEF Served
<1> QED
  BY <1>2, <1>3 DEF Inv

LEMMA ConnectInv == ASSUME Inv, NEW c \in Clients, Connect(c) PROVE Inv'
<1>1. PICK d, u, v, n, p, s : d = down[c] /\ u = up[c] /\ v = seen[c] /\ n = version /\ p = pending[c] /\ s = snapshot[c]
  OBVIOUS
<1>2. /\ d \in Sockets /\ u \in Sockets /\ v \in 0..MaxEvents \cup {None} /\ n \in 0..MaxEvents /\ s \in 0..MaxEvents
      /\ p \in {"none", "hello", "state"} /\ n \in Nat
      /\ Good(d, u, v, n, p) /\ breaks \in 0..MaxBreaks /\ d = NoSocket
  BY <1>1, StreamFacts DEF Connect
<1>3. u = NoSocket /\ v = None
  BY <1>2 DEF Good, Wired, NoSocket
<1>4. u.server = "none" /\ c \notin subscribers /\ p = "none"
  <2>1. u.server = "none"
    BY <1>3 DEF NoSocket
  <2> QED
    BY <1>1, <2>1, StreamFacts DEF Served
<1>5. /\ seen' = [seen EXCEPT ![c] = v] /\ pending' = [pending EXCEPT ![c] = p] /\ snapshot' = [snapshot EXCEPT ![c] = s]
      /\ UNCHANGED <<version, known, server, http, subscribers>> /\ breaks' = breaks
  BY <1>1, StreamFacts DEF Connect, bridgeVars
<1>6. CASE /\ down' = [down EXCEPT ![c] = [NoSocket EXCEPT !.client = "connecting", !.server = "open",
                                                           !.toClient = <<Frame("open", 0)>>]]
           /\ up' = [up EXCEPT ![c] = [NoSocket EXCEPT !.client = "connecting"]]
  <2>1. PICK d2 : d2 = [client |-> "connecting", server |-> "open",
                        toClient |-> <<Frame("open", 0)>>, toServer |-> <<>>]
    OBVIOUS
  <2>2. PICK u2 : u2 = [client |-> "connecting", server |-> "none", toClient |-> <<>>, toServer |-> <<>>]
    OBVIOUS
  <2>3. d2 = [NoSocket EXCEPT !.client = "connecting", !.server = "open", !.toClient = <<Frame("open", 0)>>]
    <3>1. PICK q : q = <<Frame("open", 0)>>
      OBVIOUS
    <3>2. d2 = [client |-> "connecting", server |-> "open", toClient |-> q, toServer |-> <<>>]
      BY <2>1, <3>1
    <3>3. PICK a : a = [client |-> "connecting", server |-> "none", toClient |-> <<>>, toServer |-> <<>>]
      OBVIOUS
    <3>4. PICK b : b = [client |-> "connecting", server |-> "open", toClient |-> <<>>, toServer |-> <<>>]
      OBVIOUS
    <3>5. a = [NoSocket EXCEPT !.client = "connecting"]
      BY <3>3 DEF NoSocket
    <3>6. b = [a EXCEPT !.server = "open"]
      BY <3>3, <3>4
    <3>7. d2 = [b EXCEPT !.toClient = q]
      BY <3>2, <3>4
    <3> QED
      BY <3>1, <3>5, <3>6, <3>7, Zenon
  <2>4. u2 = [NoSocket EXCEPT !.client = "connecting"]
    BY <2>2 DEF NoSocket
  <2>5. Frame("open", 0) \in Frames
    BY FrameType, TurnStreamAssumption
  <2>6. <<Frame("open", 0)>> \in Seq(Frames) /\ <<>> \in Seq(Frames)
    BY <2>5, Singles, Empty
  <2>7. /\ d2.client = "connecting" /\ d2.server = "open" /\ d2.toClient = <<Frame("open", 0)>> /\ d2.toServer = <<>>
        /\ u2.client = "connecting" /\ u2.server = "none" /\ u2.toClient = <<>>
    BY <2>1, <2>2
  <2>8. d2 \in Sockets /\ u2 \in Sockets
    BY <2>1, <2>2, <2>6 DEF Sockets, Ends
  <2>9. Good(d2, u2, v, n, p)
    BY <1>2, <2>7, <2>8, Connects
  <2>10. down' = [down EXCEPT ![c] = d2] /\ up' = [up EXCEPT ![c] = u2]
    BY <1>6, <2>3, <2>4
  <2> QED
    BY <1>1, <1>2, <1>4, <1>5, <2>7, <2>8, <2>9, <2>10, OneStream
<1>7. CASE down' = [down EXCEPT ![c] = [NoSocket EXCEPT !.client = "closed"]] /\ UNCHANGED up
  <2>1. PICK d2 : d2 = [client |-> "closed", server |-> "none", toClient |-> <<>>, toServer |-> <<>>]
    OBVIOUS
  <2>2. d2 = [NoSocket EXCEPT !.client = "closed"]
    BY <2>1 DEF NoSocket
  <2>3. d2.client = "closed" /\ d2.server = "none" /\ d2.toClient = <<>> /\ d2.toServer = <<>>
    BY <2>1
  <2>4. d2 \in Sockets
    BY <2>1, Empty DEF Sockets, Ends
  <2>5. Chain(d2, u, v, n, p)
    BY <2>3 DEF Chain, Over
  <2>6. Wired(d2, u, v)
    BY <1>2, <1>3, <2>3, Empty DEF Good, Wired, Over
  <2>7. Real(d2, u, v, n)
    BY <1>2, <2>3, Empty DEF Good, Real
  <2>8. Good(d2, u, v, n, p)
    BY <2>5, <2>6, <2>7 DEF Good
  <2>9. down' = [down EXCEPT ![c] = d2] /\ up' = [up EXCEPT ![c] = u]
    BY <1>1, <1>7, <2>2, StreamFacts
  <2>10. (u.server = "open" <=> c \in subscribers') /\ c \notin subscribers' /\ subscribers' = subscribers
    BY <1>4, <1>5
  <2>11. Good(d2, u, v, version, p) /\ breaks' \in 0..MaxBreaks
    BY <1>1, <1>2, <1>5, <2>8
  <2> QED
    BY <1>2, <1>4, <1>5, <2>4, <2>9, <2>10, <2>11, OneStream
<1> QED
  BY <1>6, <1>7 DEF Connect

\* A step of the hub or of the browser that leaves the bridge's ends as they are.
LEMMA ProxyStep ==
    ASSUME Inv, NEW c \in Clients, NEW d2 \in Sockets, NEW u2 \in Sockets, NEW v2 \in 0..MaxEvents \cup {None},
           down' = [down EXCEPT ![c] = d2], up' = [up EXCEPT ![c] = u2], seen' = [seen EXCEPT ![c] = v2],
           UNCHANGED <<version, known, bridgeVars, http>>, breaks' \in 0..MaxBreaks,
           u2.server = up[c].server, Good(d2, u2, v2, version, pending[c])
    PROVE  Inv'
<1>1. PICK p, s : p = pending[c] /\ s = snapshot[c]
  OBVIOUS
<1>2. /\ p \in {"none", "hello", "state"} /\ s \in 0..MaxEvents /\ Served(c)
      /\ pending' = [pending EXCEPT ![c] = p] /\ snapshot' = [snapshot EXCEPT ![c] = s]
      /\ UNCHANGED <<version, known, server, http, subscribers>>
  BY <1>1, StreamFacts DEF bridgeVars
<1>3. /\ u2.server = "open" <=> c \in subscribers'
      /\ c \in subscribers' => server = "up"
      /\ p # "none" => c \in subscribers'
      /\ p = "state" => s = version
  BY <1>1, <1>2 DEF Served
<1>4. Good(d2, u2, v2, version, p)
  BY <1>1
<1> QED
  BY <1>2, <1>3, <1>4, OneStream

LEMMA FromBridgeInv == ASSUME Inv, NEW c \in Clients, FromBridge(c) PROVE Inv'
<1>1. PICK d, u, v, n, p : d = down[c] /\ u = up[c] /\ v = seen[c] /\ n = version /\ p = pending[c]
  OBVIOUS
<1>2. PICK f : f = Head(u.toClient)
  OBVIOUS
<1>3. /\ d \in Sockets /\ u \in Sockets /\ v \in 0..MaxEvents \cup {None} /\ n \in 0..MaxEvents /\ n \in Nat
      /\ Good(d, u, v, n, p) /\ breaks' \in 0..MaxBreaks
      /\ u.client \in {"connecting", "open", "closing"} /\ u.toClient # <<>>
      /\ u.toClient \in Seq(Frames) /\ u # NoSocket
      /\ seen' = [seen EXCEPT ![c] = v] /\ UNCHANGED <<version, known, bridgeVars, http>>
  BY <1>1, StreamFacts, SocketField DEF FromBridge, ClientHears, NoSocket
<1>4. f \in Frames /\ f = u.toClient[1]
  BY <1>2, <1>3, TailFacts
<1>5. d.server # "none" /\ u.server # "none"
  BY <1>3 DEF Good, Wired
<1>6. CASE /\ f.kind = "open"
           /\ up' = [up EXCEPT ![c] = ClientOpens(@)]
           /\ UNCHANGED down
  <2>4. PICK u2 : u2 = ClientOpens(u)
    OBVIOUS
  <2>5. /\ u2 \in Sockets /\ u2.server = u.server /\ u2.toClient = Tail(u.toClient)
        /\ u2.client = IF u.client = "connecting" THEN "open" ELSE u.client
    BY <1>3, <2>4, ClientOpensFacts
  <2>6. \A t : Upstream(u, t, n, p) => Upstream(u2, t, n, p)
    BY <1>3, <1>4, <1>6, <2>5, UpOpens
  <2>7. UpTo(u2.toClient, n)
    <3>1. UpTo(u.toClient, n)
      BY <1>3 DEF Good, Real
    <3> QED
      BY <1>3, <2>5, <3>1, TailMore
  <2>8. u2.client # "closed"
    BY <1>3, <2>5
  <2>9. n <= n
    BY <1>3
  <2>10. Good(d, u2, v, n, p)
    BY <1>3, <1>5, <2>5, <2>6, <2>7, <2>8, <2>9, UpOnly
  <2>11. up' = [up EXCEPT ![c] = u2] /\ down' = [down EXCEPT ![c] = d]
    BY <1>1, <1>6, <2>4, StreamFacts
  <2> QED
    BY <1>1, <1>3, <2>5, <2>10, <2>11, ProxyStep
<1>7. CASE /\ IsData(f)
           /\ up' = [up EXCEPT ![c] = ClientTakes(@)]
           /\ down' = [down EXCEPT ![c] = Forwards(@, f)]
  <2>1. PICK u2 : u2 = ClientTakes(u)
    OBVIOUS
  <2>2. u2 \in Sockets /\ u2.client = u.client /\ u2.server = u.server /\ u2.toClient = Tail(u.toClient)
    BY <1>3, <2>1, ClientTakesFacts
  <2>3. PICK d2 : d2 = Forwards(d, f)
    OBVIOUS
  <2>4. /\ d2 \in Sockets /\ d2.client = d.client /\ d2.server = d.server /\ d2.toServer = d.toServer
        /\ d2.toClient = IF d.server = "open" /\ d.client # "closed" THEN Append(d.toClient, f) ELSE d.toClient
    <3>1. CASE d.server = "open"
      <4>1. d2 = ToClient(d, f)
        BY <2>3, <3>1 DEF Forwards
      <4> QED
        BY <1>3, <1>4, <3>1, <4>1, ToClientFacts
    <3>2. CASE d.server # "open"
      BY <1>3, <2>3, <3>2 DEF Forwards
    <3> QED
      BY <3>1, <3>2
  <2>5. Good(d2, u2, v, n, p)
    BY <1>3, <1>4, <1>7, <2>2, <2>4, Forwarded
  <2>6. up' = [up EXCEPT ![c] = u2] /\ down' = [down EXCEPT ![c] = d2]
    BY <1>1, <1>7, <2>1, <2>3
  <2> QED
    BY <1>1, <1>3, <2>2, <2>4, <2>5, <2>6, ProxyStep
<1>8. CASE /\ IsEnd(f)
           /\ up' = [up EXCEPT ![c] = ClientClosed(@)]
           /\ down' = [down EXCEPT ![c] = ClosesDown(@)]
  <2>1. PICK u2 : u2 = ClientClosed(u)
    OBVIOUS
  <2>2. u2 \in Sockets /\ u2.client = "closed" /\ u2.server = u.server /\ u2.toClient = <<>>
    BY <1>3, <2>1, ClientClosedFacts
  <2>3. PICK d2 : d2 = ServerCloses(d)
    OBVIOUS
  <2>4. /\ d2 \in Sockets /\ d2.client = d.client
        /\ d2.server = IF d.server = "open" THEN "closing" ELSE d.server
        /\ d2.toClient = IF d.server = "open" /\ d.client # "closed" THEN Append(d.toClient, Close) ELSE d.toClient
    BY <1>3, <2>3, ServerClosesFacts
  <2>5. d.server \in {"open", "closing", "closed"}
    <3>1. d.server \in Ends /\ d.server # "connecting"
      BY <1>3, SocketField DEF Good, Wired
    <3> QED
      BY <1>5, <3>1 DEF Ends
  <2>6. Over(d) \/ ~NoEnd(d.toClient) \/ d2.toClient = Append(d.toClient, Close)
    <3>1. CASE d.server = "open"
      BY <2>4, <3>1 DEF Over
    <3>2. CASE d.server # "open"
      BY <1>3, <2>5, <3>2 DEF Good, Wired
    <3> QED
      BY <3>1, <3>2
  <2>7. d2.server \in {"open", "closing", "closed"}
    BY <2>4, <2>5
  <2>8. d2.toClient = d.toClient \/ d2.toClient = Append(d.toClient, Close)
    BY <2>4
  <2>9. Good(d2, u2, v, n, p)
    BY <1>3, <1>5, <2>2, <2>4, <2>6, <2>7, <2>8, HubEnds
  <2>10. up' = [up EXCEPT ![c] = u2] /\ down' = [down EXCEPT ![c] = d2]
    BY <1>1, <1>8, <2>1, <2>3 DEF ClosesDown
  <2> QED
    BY <1>1, <1>3, <2>2, <2>4, <2>9, <2>10, ProxyStep
<1>9. f = Head(up[c].toClient)
  BY <1>1, <1>2
<1> QED
  BY <1>6, <1>7, <1>8, <1>9, Zenon DEF FromBridge

LEMMA FromBrowserInv == ASSUME Inv, NEW c \in Clients, FromBrowser(c) PROVE Inv'
<1>1. PICK d, u, v, n, p : d = down[c] /\ u = up[c] /\ v = seen[c] /\ n = version /\ p = pending[c]
  OBVIOUS
<1>2. /\ d \in Sockets /\ u \in Sockets /\ v \in 0..MaxEvents \cup {None} /\ n \in 0..MaxEvents /\ n \in Nat
      /\ Good(d, u, v, n, p) /\ breaks' \in 0..MaxBreaks
      /\ d.server \in {"open", "closing"} /\ d.toServer # <<>>
      /\ seen' = [seen EXCEPT ![c] = v] /\ UNCHANGED <<version, known, bridgeVars, http>>
  BY <1>1, StreamFacts DEF FromBrowser, ServerHears
<1>3. PICK d2 : d2 = ServerClosed(d)
  OBVIOUS
<1>4. /\ d2 \in Sockets /\ d2.client = d.client /\ d2.server = "closed"
      /\ d2.toClient = d.toClient \/ d2.toClient = Append(d.toClient, Close)
  BY <1>2, <1>3, ServerClosedFacts
<1>5. PICK u2 : u2 = ClientCloses(u)
  OBVIOUS
<1>6. /\ u2 \in Sockets /\ u2.server = u.server
      /\ u2.client = CASE u.client = "open" -> "closing" [] u.client = "connecting" -> "closed" [] OTHER -> u.client
      /\ u2.toClient = IF u.client = "connecting" THEN <<>> ELSE u.toClient
  BY <1>2, <1>5, ClientClosesFacts
<1>7. u2.client = "closed" => u2.toClient = <<>>
  <2>1. u.client = "closed" => u.toClient = <<>>
    BY <1>2 DEF Good, Wired
  <2> QED
    BY <1>6, <2>1
<1>8. Over(d) \/ ~NoEnd(d.toClient)
  BY <1>2 DEF Good, Wired
<1>9. Good(d2, u2, v, n, p)
  BY <1>2, <1>4, <1>6, <1>7, <1>8, HubEnds
<1>10. up' = [up EXCEPT ![c] = u2] /\ down' = [down EXCEPT ![c] = d2]
  BY <1>1, <1>3, <1>5 DEF FromBrowser, ClosesUp
<1> QED
  BY <1>1, <1>2, <1>4, <1>6, <1>9, <1>10, ProxyStep

LEMMA BrowserReceivesInv ==
    ASSUME Inv, NEW c \in Clients, BrowserReceives(c)
    PROVE  /\ Inv'
           /\ \/ seen' = seen /\ Over(down'[c]) = Over(down[c])
              \/ seen' = seen /\ ~Over(down[c]) /\ Over(down'[c])
              \/ /\ \E m \in 0..version : (seen[c] # None => m = seen[c] + 1) /\ seen' = [seen EXCEPT ![c] = m]
                 /\ ~Over(down[c]) /\ ~Over(down'[c])
<1>1. PICK d, u, v, n, p : d = down[c] /\ u = up[c] /\ v = seen[c] /\ n = version /\ p = pending[c]
  OBVIOUS
<1>2. PICK f : f = Head(d.toClient)
  OBVIOUS
<1>3. /\ d \in Sockets /\ u \in Sockets /\ v \in 0..MaxEvents \cup {None} /\ n \in 0..MaxEvents /\ n \in Nat
      /\ Good(d, u, v, n, p) /\ breaks' \in 0..MaxBreaks
      /\ d.client \in {"connecting", "open", "closing"} /\ d.toClient # <<>> /\ d.toClient \in Seq(Frames)
      /\ up' = [up EXCEPT ![c] = u] /\ UNCHANGED <<version, known, bridgeVars, http>>
  BY <1>1, StreamFacts, SocketField DEF BrowserReceives, ClientHears
<1>4. f \in Frames /\ f = d.toClient[1]
  BY <1>2, <1>3, TailFacts
<1>5. d.server # "none"
  BY <1>3 DEF Good, Wired
<1>6. down \in [Clients -> Sockets] /\ seen = [seen EXCEPT ![c] = v]
  BY <1>1, StreamFacts DEF Inv, TypeOK
<1>7. CASE f.kind = "open" /\ down' = [down EXCEPT ![c] = ClientOpens(@)] /\ UNCHANGED seen
  <2>1. PICK d2 : d2 = ClientOpens(d)
    OBVIOUS
  <2>2. /\ d2 \in Sockets /\ d2.server = d.server /\ d2.toServer = d.toServer /\ d2.toClient = Tail(d.toClient)
        /\ d2.client = IF d.client = "connecting" THEN "open" ELSE d.client
    BY <1>3, <2>1, ClientOpensFacts
  <2>3. ~IsEnd(d.toClient[1]) /\ ~IsData(d.toClient[1])
    BY <1>4, <1>7, Kinds
  <2>4. Good(d2, u, v, n, p)
    BY <1>3, <2>2, <2>3, Receives
  <2>5. down' = [down EXCEPT ![c] = d2] /\ seen' = [seen EXCEPT ![c] = v]
    BY <1>1, <1>6, <1>7, <2>1
  <2>6. Inv'
    BY <1>1, <1>3, <2>2, <2>4, <2>5, ProxyStep
  <2>7. Over(down'[c]) = Over(down[c])
    BY <1>1, <1>3, <1>6, <2>2, <2>5 DEF Over
  <2> QED
    BY <1>7, <2>6, <2>7
<1>8. CASE /\ IsData(f)
           /\ down' = [down EXCEPT ![c] = ClientTakes(@)]
           /\ seen' = IF down[c].client = "open" THEN [seen EXCEPT ![c] = f.version] ELSE seen
  <2>1. PICK d2 : d2 = ClientTakes(d)
    OBVIOUS
  <2>2. /\ d2 \in Sockets /\ d2.server = d.server /\ d2.toServer = d.toServer
        /\ d2.toClient = Tail(d.toClient) /\ d2.client = d.client
    BY <1>3, <2>1, ClientTakesFacts
  <2>3. ~IsEnd(d.toClient[1]) /\ IsData(d.toClient[1])
    BY <1>4, <1>8, Kinds
  <2>4. PICK v2 : v2 = IF d.client = "open" THEN f.version ELSE v
    OBVIOUS
  <2>5. v2 \in 0..MaxEvents \cup {None}
    <3>1. f.version \in 0..MaxEvents
      BY <1>4, Kinds
    <3> QED
      BY <1>3, <2>4, <3>1
  <2>6. /\ Good(d2, u, v2, n, p)
        /\ d.client = "open" => v2 <= n /\ (v # None => v2 = v + 1)
    <3>1. /\ IsData(d.toClient[1]) /\ d.client = "open" => v2 = d.toClient[1].version
          /\ ~IsData(d.toClient[1]) \/ d.client # "open" => v2 = v
      BY <1>4, <2>3, <2>4
    <3>2. d2.client = IF d.client = "connecting" /\ ~IsData(d.toClient[1]) THEN "open" ELSE d.client
      BY <2>2, <2>3
    <3>3. /\ Good(d2, u, v2, n, p)
          /\ IsData(d.toClient[1]) /\ d.client = "open" => v2 <= n /\ (v # None => v2 = v + 1)
      BY <1>3, <2>2, <2>3, <3>1, <3>2, Receives
    <3> QED
      BY <2>3, <3>3
  <2>7. down' = [down EXCEPT ![c] = d2] /\ seen' = [seen EXCEPT ![c] = v2]
    BY <1>1, <1>6, <1>8, <2>1, <2>4
  <2>8. Inv'
    BY <1>1, <1>3, <2>2, <2>5, <2>6, <2>7, ProxyStep
  <2>9. CASE d.client = "open"
    <3>1. v2 \in 0..version /\ (seen[c] # None => v2 = seen[c] + 1)
      <4>1. v2 \in 0..MaxEvents
        BY <1>4, <2>4, <2>9, Kinds
      <4> QED
        BY <1>1, <1>3, <2>6, <2>9, <4>1
    <3>2. ~Over(down[c]) /\ ~Over(down'[c])
      BY <1>1, <1>6, <2>2, <2>7, <2>9 DEF Over
    <3> QED
      BY <2>7, <2>8, <3>1, <3>2
  <2>10. CASE d.client # "open"
    <3>1. seen' = seen
      BY <1>1, <1>8, <2>10
    <3>2. Over(down'[c]) = Over(down[c])
      BY <1>1, <1>6, <2>2, <2>7 DEF Over
    <3> QED
      BY <2>8, <3>1, <3>2
  <2> QED
    BY <2>9, <2>10
<1>9. CASE IsEnd(f) /\ down' = [down EXCEPT ![c] = ClientClosed(@)] /\ UNCHANGED seen
  <2>1. PICK d2 : d2 = ClientClosed(d)
    OBVIOUS
  <2>2. d2 \in Sockets /\ d2.server = d.server /\ d2.client = "closed" /\ d2.toClient = <<>>
    BY <1>3, <2>1, ClientClosedFacts
  <2>3. Good(d2, u, v, n, p)
    BY <1>3, <1>5, <2>2, DownEnds DEF Over
  <2>4. down' = [down EXCEPT ![c] = d2] /\ seen' = [seen EXCEPT ![c] = v]
    BY <1>1, <1>6, <1>9, <2>1
  <2>5. Inv'
    BY <1>1, <1>3, <2>2, <2>3, <2>4, ProxyStep
  <2>6. Over(down'[c])
    BY <1>6, <2>2, <2>4 DEF Over
  <2>7. Over(down[c]) = TRUE \/ ~Over(down[c])
    BY DEF Over
  <2> QED
    BY <1>9, <2>5, <2>6, <2>7 DEF Over
<1>10. f = Head(down[c].toClient)
  BY <1>1, <1>2
<1> QED
  BY <1>7, <1>8, <1>9, <1>10, Zenon DEF BrowserReceives

LEMMA BrowserClosesInv ==
    ASSUME Inv, NEW c \in Clients, BrowserCloses(c)
    PROVE  Inv' /\ ~Over(down[c]) /\ Over(down'[c])
<1>1. PICK d, u, v, n, p : d = down[c] /\ u = up[c] /\ v = seen[c] /\ n = version /\ p = pending[c]
  OBVIOUS
<1>2. /\ d \in Sockets /\ u \in Sockets /\ v \in 0..MaxEvents \cup {None} /\ n \in 0..MaxEvents /\ n \in Nat
      /\ Good(d, u, v, n, p) /\ breaks' \in 0..MaxBreaks
      /\ d.client \in {"connecting", "open"}
      /\ up' = [up EXCEPT ![c] = u] /\ seen' = [seen EXCEPT ![c] = v] /\ UNCHANGED <<version, known, bridgeVars, http>>
  BY <1>1, StreamFacts DEF BrowserCloses
<1>3. PICK d2 : d2 = ClientCloses(d)
  OBVIOUS
<1>4. /\ d2 \in Sockets /\ d2.server = d.server
      /\ d2.client = CASE d.client = "open" -> "closing" [] d.client = "connecting" -> "closed" [] OTHER -> d.client
      /\ d2.toClient = IF d.client = "connecting" THEN <<>> ELSE d.toClient
  BY <1>2, <1>3, ClientClosesFacts
<1>5. d.server # "none"
  BY <1>2 DEF Good, Wired
<1>6. Over(d2) /\ ~Over(d)
  BY <1>2, <1>4 DEF Over
<1>7. Good(d2, u, v, n, p)
  BY <1>2, <1>4, <1>5, <1>6, DownEnds
<1>8. down' = [down EXCEPT ![c] = d2] /\ down \in [Clients -> Sockets]
  BY <1>1, <1>3 DEF BrowserCloses, Inv, TypeOK
<1>9. Inv'
  BY <1>1, <1>2, <1>4, <1>7, <1>8, ProxyStep
<1>10. down'[c] = d2
  BY <1>8
<1> QED
  BY <1>1, <1>6, <1>9, <1>10

LEMMA BreakInv ==
    ASSUME Inv, NEW c \in Clients, Break(c)
    PROVE  Inv' /\ Over(down'[c]) = Over(down[c])
<1>1. PICK d, u, v, n, p : d = down[c] /\ u = up[c] /\ v = seen[c] /\ n = version /\ p = pending[c]
  OBVIOUS
<1>2. /\ d \in Sockets /\ u \in Sockets /\ v \in 0..MaxEvents \cup {None} /\ n \in 0..MaxEvents /\ n \in Nat
      /\ Good(d, u, v, n, p)
      /\ seen' = [seen EXCEPT ![c] = v] /\ UNCHANGED <<version, known, bridgeVars, http>>
  BY <1>1, StreamFacts DEF Break
<1>3. breaks' \in 0..MaxBreaks
  BY TurnStreamAssumption, StreamFacts DEF Break
<1>4. PICK f \in Frames : f = Reset /\ IsEnd(f) /\ ~IsData(f)
  BY FrameType, Kinds
<1>5. CASE Linked(up[c]) /\ up' = [up EXCEPT ![c] = Broken(@)] /\ UNCHANGED down
  <2>1. PICK u2 : u2 = Broken(u)
    OBVIOUS
  <2>2. /\ u2 \in Sockets /\ u2.client = u.client /\ u2.server = u.server
        /\ u2.toClient = IF u.client = "closed" THEN <<>> ELSE <<f>>
    BY <1>2, <1>4, <2>1, BrokenFacts
  <2>3. u.server # "none" /\ u # NoSocket
    BY <1>1, <1>5 DEF Linked, NoSocket
  <2>4. ASSUME NEW t, Upstream(u, t, n, p) PROVE Upstream(u2, t, n, p)
    <3>1. CASE u.client = "closed"
      BY <2>2, <3>1, Empty DEF Upstream
    <3>2. CASE u.client # "closed"
      BY <1>4, <2>2, <3>2, Singles DEF Upstream
    <3> QED
      BY <3>1, <3>2
  <2>5. UpTo(u2.toClient, n)
    BY <1>4, <2>2, Singles, Empty
  <2>6. (u2.client = "closed" => u2.toClient = <<>>) /\ n <= n
    BY <1>2, <2>2
  <2>7. Good(d, u2, v, n, p)
    BY <1>2, <2>2, <2>3, <2>4, <2>5, <2>6, UpOnly
  <2>8. up' = [up EXCEPT ![c] = u2] /\ down' = [down EXCEPT ![c] = d] /\ down' = down
    BY <1>1, <1>5, <2>1, StreamFacts
  <2>9. Inv'
    BY <1>1, <1>2, <1>3, <2>2, <2>7, <2>8, ProxyStep
  <2> QED
    BY <2>8, <2>9
<1>6. CASE Linked(down[c]) /\ down' = [down EXCEPT ![c] = Broken(@)] /\ UNCHANGED up
  <2>1. PICK d2 : d2 = Broken(d)
    OBVIOUS
  <2>2. /\ d2 \in Sockets /\ d2.client = d.client /\ d2.server = d.server
        /\ d2.toClient = IF d.client = "closed" THEN <<>> ELSE <<Reset>>
    BY <1>2, <2>1, BrokenFacts
  <2>3. d.server # "none"
    BY <1>1, <1>6 DEF Linked
  <2>4. Over(d2) \/ (d2.client = d.client /\ d2.toClient = <<Reset>>)
    BY <2>2 DEF Over
  <2>5. Good(d2, u, v, n, p)
    BY <1>2, <2>2, <2>3, <2>4, DownEnds
  <2>6. up' = [up EXCEPT ![c] = u] /\ down' = [down EXCEPT ![c] = d2] /\ down \in [Clients -> Sockets]
    BY <1>1, <1>6, <2>1, StreamFacts DEF Inv, TypeOK
  <2>7. Inv'
    BY <1>1, <1>2, <1>3, <2>2, <2>5, <2>6, ProxyStep
  <2>8. down'[c] = d2
    BY <2>6
  <2> QED
    BY <1>1, <2>2, <2>7, <2>8 DEF Over
<1> QED
  BY <1>5, <1>6 DEF Break

LEMMA StepInv == Inv /\ [Next]_vars => Inv'
<1> SUFFICES ASSUME Inv, [Next]_vars PROVE Inv'
  OBVIOUS
<1>1. ASSUME NEW k \in Clients, BridgeSteps(k) PROVE Inv'
  BY <1>1, AcceptInv, HelloSentInv, StateSentInv, SubscriberClosesInv DEF BridgeSteps
<1>2. ASSUME NEW k \in Clients, HubSteps(k) PROVE Inv'
  BY <1>2, FromBridgeInv, FromBrowserInv DEF HubSteps
<1>3. ASSUME NEW k \in Clients, Connect(k) \/ BrowserReceives(k) \/ BrowserCloses(k) \/ Break(k) PROVE Inv'
  BY <1>3, ConnectInv, BrowserReceivesInv, BrowserClosesInv, BreakInv
<1> QED
  BY <1>1, <1>2, <1>3, TurnEventInv, StopInv, OtherInv DEF Next

\* The strengthening of the two theorems below: the frames between the bridge and a
\* reader are one chain, and the state of each end says what the others can be.
THEOREM Inductive == Spec => []Inv
BY InitInv, StepInv, PTL DEF Spec

\* Every variable keeps to its type, the frames in flight included.
THEOREM TypeCorrect == Spec => []TypeOK
<1>1. Inv => TypeOK
  BY DEF Inv
<1> QED
  BY <1>1, Inductive, PTL

\* Events are sent to the clients whose socket is open at the bridge, and to no other.
THEOREM Subscribers == Spec => []SubscribersAreOpen
<1>1. Inv => SubscribersAreOpen
  <2> SUFFICES ASSUME Inv PROVE subscribers = {k \in Clients : up[k].server = "open"}
    BY DEF SubscribersAreOpen
  <2>1. \A k \in Clients : up[k].server = "open" <=> k \in subscribers
    BY DEF Inv, Served
  <2>2. subscribers \subseteq Clients
    BY DEF Inv, TypeOK
  <2> QED
    BY <2>1, <2>2
<1> QED
  BY <1>1, Inductive, PTL

-----------------------------------------------------------------------------
(* The stream implements TurnFeed.                                         *)

LEMMA EndedSame ==
    ASSUME \A k \in Clients : Over(down'[k]) = Over(down[k])
    PROVE  Ended' = Ended
BY DEF Ended, Over

LEMMA EndedMore ==
    ASSUME NEW c \in Clients, ~Over(down[c]), Over(down'[c]), \A k \in Clients \ {c} : down'[k] = down[k]
    PROVE  c \notin Ended /\ Ended' = Ended \cup {c}
BY DEF Ended, Over

LEMMA OnlyOne ==
    ASSUME NEW c \in Clients, NEW x, down \in [Clients -> Sockets], down' = [down EXCEPT ![c] = x]
    PROVE  \A k \in Clients \ {c} : down'[k] = down[k]
OBVIOUS

LEMMA StepFeeds == Inv /\ [Next]_vars => [Stream!FeedNext]_Stream!feedVars
<1> SUFFICES ASSUME Inv, [Next]_vars
             PROVE  Stream!FeedNext \/ UNCHANGED <<version, seen, Ended>>
  BY DEF Stream!feedVars
<1>1. down \in [Clients -> Sockets]
  BY DEF Inv, TypeOK
<1>2. CASE TurnEvent
  <2>1. version' = version + 1 /\ seen' = seen /\ down' = down
    BY <1>2 DEF TurnEvent
  <2>2. Ended' = Ended
    BY <2>1, EndedSame
  <2> QED
    BY <2>1, <2>2 DEF Stream!FeedNext, Stream!Happens
<1>3. CASE UNCHANGED <<version, seen, down>>
  BY <1>3, EndedSame
<1>4. CASE Stop \/ Stopped \/ (\E r \in Requests : ForwardRequest(r) \/ HttpSteps(r)) \/ UNCHANGED vars
  BY <1>3, <1>4 DEF Stop, Stopped, ForwardRequest, HttpSteps, HandleRequest, RelayAnswer, UpstreamError, bridgeVars, vars
<1>5. ASSUME NEW c \in Clients, BridgeSteps(c) PROVE UNCHANGED <<version, seen, down>>
  BY <1>5 DEF BridgeSteps, Accept, HelloSent, StateSent, SubscriberCloses
<1>6. ASSUME NEW c \in Clients, HubSteps(c) PROVE UNCHANGED <<version, seen, Ended>>
  <2>1. version' = version /\ seen' = seen
    BY <1>6 DEF HubSteps, FromBridge, FromBrowser
  <2>2. PICK d : d = down[c] /\ d \in Sockets
    BY <1>1
  <2>3. PICK x : down' = [down EXCEPT ![c] = x] /\ x.client = d.client
    <3>1. CASE FromBrowser(c)
      <4>1. ServerClosed(d).client = d.client
        BY <2>2, ServerClosedFacts
      <4> QED
        BY <2>2, <3>1, <4>1 DEF FromBrowser
    <3>2. CASE FromBridge(c)
      <4>1. PICK f : f = Head(up[c].toClient)
        OBVIOUS
      <4>2. CASE down' = down
        BY <2>2, <1>1, <4>2
      <4>3. CASE IsData(f) /\ down' = [down EXCEPT ![c] = Forwards(@, f)]
        <5>1. f \in Frames
          <6>1. up[c] \in Sockets /\ up[c].toClient # <<>>
            BY <3>2, StreamFacts DEF FromBridge, ClientHears
          <6> QED
            BY <4>1, <6>1, SocketField, TailFacts
        <5>2. Forwards(d, f).client = d.client
          BY <2>2, <5>1, ToClientFacts DEF Forwards
        <5> QED
          BY <2>2, <4>3, <5>2
      <4>4. CASE down' = [down EXCEPT ![c] = ClosesDown(@)]
        <5>1. ClosesDown(d).client = d.client
          BY <2>2, ServerClosesFacts DEF ClosesDown
        <5> QED
          BY <2>2, <4>4, <5>1
      <4> QED
        BY <3>2, <4>1, <4>2, <4>3, <4>4, Zenon DEF FromBridge
    <3> QED
      BY <1>6, <3>1, <3>2 DEF HubSteps
  <2>4. down'[c].client = down[c].client /\ \A k \in Clients \ {c} : down'[k] = down[k]
    BY <1>1, <2>2, <2>3
  <2>5. \A k \in Clients : Over(down'[k]) = Over(down[k])
    BY <2>4 DEF Over
  <2> QED
    BY <2>1, <2>5, EndedSame
<1>7. ASSUME NEW c \in Clients, Connect(c) PROVE Stream!FeedNext \/ UNCHANGED <<version, seen, Ended>>
  <2>1. version' = version /\ seen' = seen /\ down[c] = NoSocket
    BY <1>7 DEF Connect
  <2>2. PICK x : down' = [down EXCEPT ![c] = x]
    BY <1>7 DEF Connect
  <2>3. \A k \in Clients \ {c} : down'[k] = down[k]
    BY <1>1, <2>2, OnlyOne
  <2>4. ~Over(down[c])
    BY <2>1 DEF Over, NoSocket
  <2>5. CASE Over(down'[c])
    <3>1. c \notin Ended /\ Ended' = Ended \cup {c}
      BY <2>3, <2>4, <2>5, EndedMore
    <3> QED
      BY <2>1, <3>1 DEF Stream!FeedNext, Stream!Ends
  <2>6. CASE ~Over(down'[c])
    <3>1. \A k \in Clients : Over(down'[k]) = Over(down[k])
      BY <2>3, <2>4, <2>6 DEF Over
    <3> QED
      BY <2>1, <3>1, EndedSame
  <2> QED
    BY <2>5, <2>6
<1>8. ASSUME NEW c \in Clients, BrowserReceives(c) PROVE Stream!FeedNext \/ UNCHANGED <<version, seen, Ended>>
  <2>1. version' = version
    BY <1>8 DEF BrowserReceives
  <2>2. PICK x : down' = [down EXCEPT ![c] = x]
    BY <1>8, Zenon DEF BrowserReceives
  <2>3. \A k \in Clients \ {c} : down'[k] = down[k]
    BY <1>1, <2>2, OnlyOne
  <2>4. CASE seen' = seen /\ Over(down'[c]) = Over(down[c])
    <3>1. \A k \in Clients : Over(down'[k]) = Over(down[k])
      BY <2>3, <2>4 DEF Over
    <3> QED
      BY <2>1, <2>4, <3>1, EndedSame
  <2>5. CASE seen' = seen /\ ~Over(down[c]) /\ Over(down'[c])
    <3>1. c \notin Ended /\ Ended' = Ended \cup {c}
      BY <2>3, <2>5, EndedMore
    <3> QED
      BY <2>1, <2>5, <3>1 DEF Stream!FeedNext, Stream!Ends
  <2>6. ASSUME NEW m \in 0..version, seen[c] # None => m = seen[c] + 1, seen' = [seen EXCEPT ![c] = m],
               ~Over(down[c]), ~Over(down'[c])
        PROVE  Stream!FeedNext
    <3>1. \A k \in Clients : Over(down'[k]) = Over(down[k])
      BY <2>3, <2>6 DEF Over
    <3>2. Ended' = Ended /\ c \notin Ended
      BY <2>6, <3>1, EndedSame DEF Ended, Over
    <3>3. CASE seen[c] = None
      BY <2>1, <2>6, <3>2, <3>3 DEF Stream!FeedNext, Stream!Starts
    <3>4. CASE seen[c] # None
      <4>1. seen[c] \in Nat /\ version \in Nat
        BY <3>4, StreamFacts
      <4>2. m = seen[c] + 1 /\ seen[c] < version
        BY <2>6, <3>4, <4>1
      <4>3. seen' = [seen EXCEPT ![c] = @ + 1]
        BY <2>6, <4>2
      <4> QED
        BY <2>1, <3>2, <3>4, <4>2, <4>3 DEF Stream!FeedNext, Stream!Advances
    <3> QED
      BY <3>3, <3>4
  <2> QED
    BY <1>8, <2>4, <2>5, <2>6, BrowserReceivesInv
<1>9. ASSUME NEW c \in Clients, BrowserCloses(c) PROVE Stream!FeedNext
  <2>1. version' = version /\ seen' = seen /\ down' = [down EXCEPT ![c] = ClientCloses(@)]
    BY <1>9 DEF BrowserCloses
  <2>2. \A k \in Clients \ {c} : down'[k] = down[k]
    BY <1>1, <2>1, OnlyOne
  <2>3. c \notin Ended /\ Ended' = Ended \cup {c}
    BY <1>9, <2>2, BrowserClosesInv, EndedMore
  <2> QED
    BY <2>1, <2>3 DEF Stream!FeedNext, Stream!Ends
<1>10. ASSUME NEW c \in Clients, Break(c) PROVE UNCHANGED <<version, seen, Ended>>
  <2>1. version' = version /\ seen' = seen
    BY <1>10 DEF Break
  <2>2. \A k \in Clients \ {c} : down'[k] = down[k]
    BY <1>1, <1>10, OnlyOne DEF Break
  <2>3. \A k \in Clients : Over(down'[k]) = Over(down[k])
    BY <1>10, <2>2, BreakInv DEF Over
  <2> QED
    BY <2>1, <2>3, EndedSame
<1> QED
  BY <1>2, <1>3, <1>4, <1>5, <1>6, <1>7, <1>8, <1>9, <1>10 DEF Next

\* What a reader is shown of a turn has no gap, no repetition and no invention, through
\* bridge, hub and browser, for any number of events, readers and broken links.
THEOREM Implements == Spec => ImplementsFeed
<1>1. Init => Stream!FeedInit
  BY DEF Init, Stream!FeedInit, Ended, NoSocket
<1> QED
  BY <1>1, InitInv, StepInv, StepFeeds, PTL DEF Spec, ImplementsFeed, Stream!Feed

-----------------------------------------------------------------------------
(* The page at the end of a stream, PwaThreadView. First, what its helpers *)
(* find in a detail, and what an event makes of one.                       *)

LEMMA Least ==
    ASSUME NEW S \in SUBSET Nat, S # {}
    PROVE  \E x \in S : \A y \in S : x =< y
<1> DEFINE Less == {p \in Nat \X Nat : p[1] < p[2]}
<1>1. IsWellFoundedOn(Less, Nat)
  BY NatLessThanWellFounded DEF OpToRel
<1>2. PICK x \in S : \A y \in S : ~(<<y, x>> \in Less)
  <2> HIDE DEF Less
  <2> QED BY <1>1, WFMin
<1>3. \A y \in S : ~(y < x)
  BY <1>2
<1> QED
  BY <1>3

LEMMA Greatest ==
    ASSUME NEW S \in SUBSET Turn, S # {}
    PROVE  Max(S) \in S /\ \A y \in S : y =< Max(S)
<1> DEFINE Below == {MaxTurns - y : y \in S}
<1>0. MaxTurns \in Nat
  BY PwaThreadViewAssumption
<1>1. Below \in SUBSET Nat /\ Below # {}
  <2>1. \A y \in S : MaxTurns - y \in Nat
    BY <1>0 DEF Turn
  <2>2. PICK y \in S : TRUE
    OBVIOUS
  <2>3. MaxTurns - y \in Below
    OBVIOUS
  <2> QED BY <2>1, <2>3
<1>2. PICK z \in Below : \A y \in Below : z =< y
  <2> HIDE DEF Below
  <2> QED BY <1>1, Least
<1>3. PICK x \in S : z = MaxTurns - x
  BY <1>2
<1>4. \A y \in S : x >= y
  <2> SUFFICES ASSUME NEW y \in S PROVE x >= y
    OBVIOUS
  <2>1. MaxTurns - y \in Below
    OBVIOUS
  <2>2. MaxTurns - x =< MaxTurns - y
    BY <1>2, <1>3, <2>1
  <2> QED
    BY <2>2, <1>0 DEF Turn
<1> QED
  <2>1. \A w \in S : (\A y \in S : w >= y) => w = x
    BY <1>0, <1>3, <1>4 DEF Turn
  <2>2. Max(S) = x
    BY <1>3, <1>4, <2>1, Zenon DEF Max
  <2> QED
    BY <1>0, <1>4, <2>2 DEF Turn

LEMMA Numbers ==
    /\ MaxTurns \in Nat /\ MaxFaults \in Nat
    /\ NoTurn \notin Turn /\ NoThread \notin Thread
BY PwaThreadViewAssumption DEF Turn, NoTurn

LEMMA FewTurns == ASSUME NEW S \in SUBSET Turn PROVE Cardinality(S) \in 0..MaxTurns
<1>1. IsFiniteSet(Turn) /\ Cardinality(Turn) =< MaxTurns
  BY FS_Interval, Numbers DEF Turn
<1>2. IsFiniteSet(S) /\ Cardinality(S) =< Cardinality(Turn)
  BY <1>1, FS_Subset
<1>3. Cardinality(S) \in Nat /\ Cardinality(Turn) \in Nat
  BY <1>1, <1>2, FS_CardinalityType
<1> QED
  BY <1>1, <1>2, <1>3, Numbers

LEMMA VersionType == ASSUME NEW turns, NEW t PROVE Version(turns, t) \in 0..(2 * MaxTurns)
<1>1. Cardinality({u \in Turn : threadOf[u] = t /\ turns[u] # "absent"}) \in 0..MaxTurns
  BY FewTurns
<1>2. Cardinality({u \in Turn : threadOf[u] = t /\ turns[u] = "ended"}) \in 0..MaxTurns
  BY FewTurns
<1> QED
  BY <1>1, <1>2, Numbers DEF Version

Maybe == Turn \cup {NoTurn}

Details == [thread : Thread \cup {NoThread}, turns : Turns, active : Maybe,
            busy : BOOLEAN, version : 0..(2 * MaxTurns)]

\* The pointer of a detail is to a turn it shows as running.
Sound(d) ==
    /\ d.active # NoTurn => d.turns[d.active] = "running"
    /\ d.busy => d.active # NoTurn

LEMMA NothingType == Nothing \in Turns /\ \A u \in Turn : Nothing[u] = "absent"
BY DEF Nothing, Turns

LEMMA NoDetailType == NoDetail \in Details /\ Sound(NoDetail)
BY NothingType, Numbers DEF NoDetail, Details, Sound, Maybe

LEMMA DetailType ==
    ASSUME NEW t \in Thread, NEW turns \in Turns
    PROVE  /\ Detail(t, turns) \in Details /\ Sound(Detail(t, turns))
           /\ Detail(t, turns).turns = turns /\ Detail(t, turns).thread = t
           /\ Detail(t, turns) # NoDetail
           /\ FromPointer(Detail(t, turns)) <=> Running(turns) # {}
           /\ Detail(t, turns).busy => Running(turns) # {}
<1> DEFINE r == Running(turns)
<1>1. r \in SUBSET Turn
  BY DEF Running
<1>2. r # {} => Max(r) \in r
  BY <1>1, Greatest
<1>3. \A u \in r : turns[u] = "running"
  BY DEF Running
<1>4. Version(turns, t) \in 0..(2 * MaxTurns)
  BY VersionType
<1> HIDE DEF r
<1> DEFINE d == [thread |-> t, turns |-> turns, version |-> Version(turns, t),
                 active |-> IF r = {} THEN NoTurn ELSE Max(r), busy |-> r # {}]
<1>5. Detail(t, turns) = d
  BY DEF Detail, r
<1>6. Detail(t, turns) \in Details
  BY <1>1, <1>2, <1>4, <1>5 DEF Details, Maybe
<1>7. Sound(Detail(t, turns))
  <2>1. Sound(d)
    BY <1>1, <1>2, <1>3, Numbers DEF Sound
  <2> QED BY <1>5, <2>1
<1>8. FromPointer(Detail(t, turns)) <=> r # {}
  <2>1. FromPointer(d) <=> r # {}
    BY <1>1, <1>2, <1>3, Numbers DEF FromPointer
  <2> QED BY <1>5, <2>1
<1>9. Detail(t, turns) # NoDetail
  <2>1. d.thread # NoDetail.thread
    BY Numbers DEF NoDetail
  <2> QED BY <1>5, <2>1
<1>10. d.turns = turns /\ d.thread = t /\ d.busy = (r # {})
  OBVIOUS
<1> HIDE DEF d
<1> QED
  BY <1>5, <1>6, <1>7, <1>8, <1>9, <1>10 DEF r

\* What findActiveTurn finds is a running turn of the detail or what was observed.
LEMMA Found ==
    ASSUME NEW d \in Details, Sound(d), NEW sel, NEW obs,
           FindActiveTurn(d, sel, obs) # NoTurn
    PROVE  LET u == FindActiveTurn(d, sel, obs) IN
           \/ u \in Turn /\ d.turns[u] = "running"
           \/ ThreadOf(d) # NoThread /\ u = obs[ThreadOf(d)] /\ d.turns[u] # "ended"
                /\ Running(d.turns) = {}
<1> DEFINE r == Running(d.turns)
           hint == IF ThreadOf(d) = NoThread THEN NoTurn ELSE obs[ThreadOf(d)]
<1>1. r \in SUBSET Turn /\ \A u \in r : d.turns[u] = "running"
  BY DEF Running
<1>2. r # {} => Max(r) \in r
  BY <1>1, Greatest
<1>3. d.active \in Maybe
  BY DEF Details
<1>4. CASE FromPointer(d)
  <2>1. d.active # NoTurn /\ d.turns[d.active] = "running"
    BY <1>4 DEF FromPointer, Sound
  <2> QED
    BY <1>3, <1>4, <2>1 DEF FindActiveTurn, Maybe
<1>5. CASE ~FromPointer(d) /\ r # {}
  <2>1. FindActiveTurn(d, sel, obs) \in r
    BY <1>2, <1>5 DEF FindActiveTurn
  <2> QED
    BY <1>1, <2>1
<1>6. CASE ~FromPointer(d) /\ r = {}
  <2>1. ~d.busy
    BY <1>6 DEF FromPointer, Sound
  <2>2. FindActiveTurn(d, sel, obs) = hint /\ hint # NoTurn /\ d.turns[hint] # "ended"
    BY <1>6, <2>1 DEF FindActiveTurn
  <2> QED
    BY <1>6, <2>2
<1> QED
  BY <1>4, <1>5, <1>6

LEMMA FindType ==
    ASSUME NEW d \in Details, Sound(d), NEW sel, NEW obs \in [Thread -> Maybe],
           ThreadOf(d) \in Thread \cup {NoThread}
    PROVE  FindActiveTurn(d, sel, obs) \in Maybe
BY Found DEF Maybe

LEMMA Summarized ==
    ASSUME NEW d, NEW t, NEW list, SummaryActiveTurn(d, t, list) # NoTurn
    PROVE  LET u == SummaryActiveTurn(d, t, list) IN
           u \in Turn /\ list[u] = "running" /\ threadOf[u] = t
<1> DEFINE r == {u \in Running(list) : threadOf[u] = t}
<1>1. r \in SUBSET Turn /\ \A u \in r : list[u] = "running" /\ threadOf[u] = t
  BY DEF Running
<1>2. r # {} => Max(r) \in r
  BY <1>1, Greatest
<1>3. SummaryActiveTurn(d, t, list) \in {NoTurn, Max(r)}
  /\ (SummaryActiveTurn(d, t, list) # NoTurn => r # {})
  BY DEF SummaryActiveTurn
<1> QED
  BY <1>1, <1>2, <1>3

\* What updateThinkingState does: an observation only goes when its turn is over.
LEMMA Thinks ==
    ASSUME NEW d \in Details, Sound(d), ThreadOf(d) \in Thread \cup {NoThread},
           NEW sel \in Maybe, NEW obs \in [Thread -> Maybe], NEW list,
           UpdateThinkingState(d, sel, obs, list)
    PROVE  /\ thinking' \in BOOLEAN /\ selectedTurnId' \in Maybe
           /\ observed' \in [Thread -> Maybe]
           /\ \A t \in Thread :
                 \/ observed'[t] = obs[t]
                 \/ observed'[t] = NoTurn /\ d.thread = t /\ obs[t] # NoTurn
                      /\ d.turns[obs[t]] = "ended"
<1>1. FindActiveTurn(d, sel, obs) \in Maybe
  BY FindType
<1>2. SummaryActiveTurn(d, selectedThreadId, list) \in Maybe
  BY Summarized DEF Maybe
<1>3. ThinkingTurn(d, sel, obs, list) \in Maybe
  BY <1>1, <1>2 DEF ThinkingTurn
<1>4. /\ thinking' = (ThinkingTurn(d, sel, obs, list) # NoTurn)
      /\ selectedTurnId' = IF ThinkingTurn(d, sel, obs, list) # NoTurn
           THEN ThinkingTurn(d, sel, obs, list) ELSE sel
      /\ observed' = Pruned(d, sel, obs)
  BY Zenon DEF UpdateThinkingState
<1>5. \/ observed' = obs
      \/ /\ observed' = [obs EXCEPT ![d.thread] = NoTurn]
         /\ obs[d.thread] # NoTurn /\ d.turns[obs[d.thread]] = "ended"
  BY <1>4, Zenon DEF Pruned
<1>6. observed' \in [Thread -> Maybe]
  BY <1>5 DEF Maybe
<1> QED
  BY <1>3, <1>4, <1>5, <1>6

Alter(d, a, b, u, s) == [d EXCEPT !.active = a, !.busy = b, !.turns[u] = s]

LEMMA Altered ==
    ASSUME NEW d \in Details, NEW a \in Maybe, NEW b \in BOOLEAN,
           NEW u \in Turn, NEW s \in {"absent", "running", "ended"},
           NEW e, e = Alter(d, a, b, u, s)
    PROVE  /\ e \in Details /\ e.thread = d.thread /\ e.active = a /\ e.busy = b
           /\ e.turns[u] = s /\ \A v \in Turn \ {u} : e.turns[v] = d.turns[v]
<1> DEFINE T == [d.turns EXCEPT ![u] = s]
<1>1. T \in Turns /\ T[u] = s /\ \A v \in Turn \ {u} : T[v] = d.turns[v]
  BY DEF Details, Turns
<1>2. e = [[[d EXCEPT !.active = a] EXCEPT !.busy = b] EXCEPT !.turns = T]
  BY DEF Details, Alter
<1> HIDE DEF T
<1>3. [d EXCEPT !.active = a, !.busy = b, !.turns = T] \in Details
  BY <1>1 DEF Details
<1> QED
  BY <1>1, <1>2, <1>3 DEF Details

Overs == {"turn/completed", "hub/state ended"}

\* What an event does to the detail shown.
LEMMA Applied ==
    ASSUME NEW d \in Details, Sound(d), NEW u \in Turn, NEW m
    PROVE  LET e == AppliedTo(d, u, m) IN
           /\ e \in Details /\ Sound(e) /\ e.thread = d.thread
           /\ \A v \in Turn \ {u} : e.turns[v] = d.turns[v]
           /\ e.turns[u] = "ended" => d.turns[u] = "ended" \/ m \in Overs
           /\ e.turns[u] # "absent" => d.turns[u] # "absent" \/ m = "turn/started"
           /\ d = NoDetail => e = NoDetail
<1> DEFINE Fits(e) ==
           /\ e \in Details /\ Sound(e) /\ e.thread = d.thread
           /\ \A v \in Turn \ {u} : e.turns[v] = d.turns[v]
<1>1. d.turns \in Turns /\ d.active \in Maybe /\ d.busy \in BOOLEAN
  BY DEF Details
<1>2. u # NoTurn /\ u \in Maybe
  BY Numbers DEF Maybe
<1>3. CASE d = NoDetail
  BY <1>3 DEF AppliedTo
<1>4. CASE d # NoDetail /\ m = "turn/started"
  <2> DEFINE e == TurnStartedIn(d, u)
             b == IF d.active # u THEN TRUE ELSE d.busy
  <2>1. e = Alter(d, u, b, u, "running")
    BY DEF TurnStartedIn, Alter
  <2>2. /\ e \in Details /\ e.thread = d.thread /\ e.active = u
        /\ e.turns[u] = "running" /\ \A v \in Turn \ {u} : e.turns[v] = d.turns[v]
    <3>1. b \in BOOLEAN
      BY <1>1
    <3> HIDE DEF e, b
    <3> QED
      BY <1>2, <2>1, <3>1, Altered
  <2>3. Sound(e)
    BY <1>2, <2>2 DEF Sound
  <2>4. AppliedTo(d, u, m) = e
    BY <1>4 DEF AppliedTo
  <2> QED
    BY <1>4, <2>2, <2>3, <2>4
<1>5. CASE d # NoDetail /\ m = "turn/completed"
  <2> DEFINE e == TurnCompletedIn(d, u)
             a == IF d.active = u THEN NoTurn ELSE d.active
             b == d.busy /\ d.active # u
             s == IF d.turns[u] # "absent" THEN "ended" ELSE "absent"
  <2>1. e = Alter(d, a, b, u, s)
    BY DEF TurnCompletedIn, Alter
  <2>2. a \in Maybe /\ b \in BOOLEAN /\ s \in {"absent", "running", "ended"}
    BY <1>1 DEF Maybe
  <2>3. /\ e \in Details /\ e.thread = d.thread
        /\ e.active = a /\ e.busy = b
        /\ e.turns[u] = s /\ \A v \in Turn \ {u} : e.turns[v] = d.turns[v]
    <3> HIDE DEF e, a, b, s
    <3> QED BY <2>1, <2>2, Altered
  <2>4. Sound(e)
    BY <1>1, <2>3 DEF Sound, Maybe
  <2>5. AppliedTo(d, u, m) = e
    BY <1>5 DEF AppliedTo
  <2> QED
    BY <1>5, <2>2, <2>3, <2>4, <2>5 DEF Overs
<1>6. ASSUME NEW s \in {"running", "ended"}, d.turns[u] # "absent"
      PROVE  /\ Fits(HubStateIn(d, u, s)) /\ HubStateIn(d, u, s).turns[u] = s
  <2> DEFINE e == HubStateIn(d, u, s)
             a == IF s = "running" THEN u ELSE IF d.active = u THEN NoTurn ELSE d.active
             b == s = "running"
  <2>1. e = Alter(d, a, b, u, s)
    BY <1>6 DEF HubStateIn, Alter
  <2>2. a \in Maybe /\ b \in BOOLEAN
    BY <1>1, <1>2 DEF Maybe
  <2>3. /\ e \in Details /\ e.thread = d.thread /\ e.active = a /\ e.busy = b
        /\ e.turns[u] = s /\ \A v \in Turn \ {u} : e.turns[v] = d.turns[v]
    <3> HIDE DEF e, a, b
    <3> QED BY <2>1, <2>2, Altered
  <2>4. Sound(e)
    BY <1>1, <1>2, <2>3 DEF Sound, Maybe
  <2> QED
    BY <2>3, <2>4
<1>7. CASE d # NoDetail /\ m \in {"hub/state running", "hub/state ended"}
  <2> DEFINE s == IF m = "hub/state running" THEN "running" ELSE "ended"
  <2>1. AppliedTo(d, u, m) = HubStateIn(d, u, s)
    BY <1>7 DEF AppliedTo
  <2>2. CASE d.turns[u] = "absent"
    BY <2>1, <2>2 DEF HubStateIn
  <2>3. CASE d.turns[u] # "absent"
    BY <1>6, <1>7, <2>1, <2>3 DEF Overs
  <2> QED
    BY <2>2, <2>3
<1>8. CASE d # NoDetail /\ m \notin {"turn/started", "turn/completed",
                                     "hub/state running", "hub/state ended"}
  BY <1>8 DEF AppliedTo
<1> QED
  BY <1>3, <1>4, <1>5, <1>7, <1>8

-----------------------------------------------------------------------------
(* Types: the variables the actions change together.                       *)

StreamRecords == [turn : Maybe, stage : {"none", "connecting", "open"}, queue : Seq(Event)]

ReadRecords == [stage : {"none", "sent", "answered"}, thread : Thread \cup {NoThread}, turns : Turns]

SendRecords == [stage : {"none", "sent", "answered"}, thread : Thread \cup {NoThread}, turn : Maybe]

LoadRecords == [stage : {"none", "sent"}, preferred : Thread \cup {NoThread}]

USE DEF StreamRecords, ReadRecords, SendRecords, LoadRecords

Typed ==
    /\ ViewTypeOK
    /\ Sound(threadDetail)
    /\ detailRequest.stage # "none" => detailRequest.thread \in Thread
    /\ sending.stage = "answered" => sending.turn \in Turn

SelectionTypes ==
    /\ selectedThreadId \in Thread \cup {NoThread}
    /\ selectedTurnId \in Maybe
    /\ threadDetail \in Details
    /\ threadDetail = NoDetail <=> threadDetail.thread = NoThread
    /\ Sound(threadDetail)
    /\ summaries \in Turns
    /\ observed \in [Thread -> Maybe]
    /\ thinking \in BOOLEAN

StreamTypes ==
    /\ ws \in StreamRecords
    /\ ws.turn = NoTurn <=> ws = NoStream
    /\ reconnectTimer \in Maybe
    /\ suppressed \in BOOLEAN
    /\ closing \in SUBSET Turn

RequestTypes ==
    /\ refreshQueued \in BOOLEAN
    /\ detailRequest \in ReadRecords
    /\ detailRequest.stage # "none" => detailRequest.thread \in Thread
    /\ threadsRequest \in LoadRecords
    /\ sending \in SendRecords
    /\ sending.stage = "answered" => sending.turn \in Turn
    /\ steering \in Maybe

ServerTypes ==
    /\ srv \in [Turn -> {"absent", "starting", "running", "ended"}]
    /\ threadOf \in [Turn -> Thread \cup {NoThread}]
    /\ faults \in 0..MaxFaults

LEMMA TypesApart == Typed <=> SelectionTypes /\ StreamTypes /\ RequestTypes /\ ServerTypes
BY DEF Typed, ViewTypeOK, SelectionTypes, StreamTypes, RequestTypes, ServerTypes, Details, Maybe

LEMMA TypesApartNext ==
    Typed' <=> SelectionTypes' /\ StreamTypes' /\ RequestTypes' /\ ServerTypes'
BY DEF Typed, ViewTypeOK, SelectionTypes, StreamTypes, RequestTypes, ServerTypes, Details, Maybe

LEMMA InitTyped == ViewInit => Typed
<1> SUFFICES ASSUME ViewInit PROVE Typed
  OBVIOUS
<1>1. SelectionTypes
  BY NoDetailType, NothingType, Numbers DEF ViewInit, SelectionTypes, Maybe, NoDetail
<1>2. StreamTypes
  <2>1. /\ NoStream \in StreamRecords
        /\ NoStream.turn = NoTurn
    BY DEF NoStream, Maybe
  <2> QED
    BY <2>1 DEF ViewInit, StreamTypes, Maybe
<1>3. RequestTypes
  <2>1. /\ NoRead \in ReadRecords
        /\ NoRead.stage = "none"
    BY NothingType DEF NoRead
  <2>2. /\ NoSend \in SendRecords
        /\ NoSend.stage = "none"
    BY DEF NoSend, Maybe
  <2>3. NoLoad \in LoadRecords
    BY DEF NoLoad
  <2> QED
    BY <2>1, <2>2, <2>3 DEF ViewInit, RequestTypes, Maybe
<1>4. ServerTypes
  BY Numbers DEF ViewInit, ServerTypes
<1> QED
  BY <1>1, <1>2, <1>3, <1>4, TypesApart

LEMMA SelectionStill == SelectionTypes /\ UNCHANGED selectionVars => SelectionTypes'
BY DEF SelectionTypes, selectionVars, Sound

LEMMA StreamStill == StreamTypes /\ UNCHANGED streamVars => StreamTypes'
BY DEF StreamTypes, streamVars

LEMMA RequestStill == RequestTypes /\ UNCHANGED <<detailVars, requestVars>> => RequestTypes'
BY DEF RequestTypes, detailVars, requestVars

LEMMA ServerStill == ServerTypes /\ UNCHANGED <<serverVars, faults>> => ServerTypes'
BY DEF ServerTypes, serverVars

\* The stream.
LEMMA StreamOpens ==
    ASSUME StreamTypes, NEW u \in Turn, OpenTurnStream(u)
    PROVE  StreamTypes'
<1>1. DroppedStream \in SUBSET Turn
  BY DEF DroppedStream, StreamTypes, Maybe
<1>2. ws' \in StreamRecords
  BY DEF OpenTurnStream, Maybe
<1>3. ws'.turn # NoTurn /\ ws' # NoStream
  BY Numbers DEF OpenTurnStream, NoStream
<1> QED
  BY <1>1, <1>2, <1>3, Numbers DEF OpenTurnStream, StreamTypes, Maybe

LEMMA StreamCloses ==
    ASSUME StreamTypes, CloseTurnStream
    PROVE  StreamTypes'
<1>1. DroppedStream \in SUBSET Turn
  BY DEF DroppedStream, StreamTypes, Maybe
<1>2. NoStream \in StreamRecords /\ NoStream.turn = NoTurn
  BY DEF NoStream, Maybe
<1> QED
  BY <1>1, <1>2 DEF CloseTurnStream, ClosedStream, StreamTypes, Maybe

LEMMA StreamLost ==
    ASSUME StreamTypes, NEW u \in Turn, ws' = NoStream, StreamClosed(u),
        closing' \subseteq closing,
           suppressed' = suppressed
    PROVE  StreamTypes'
<1>1. reconnectTimer' \in Maybe
  BY DEF StreamClosed, ScheduleReconnect, StreamTypes, Maybe
<1>2. NoStream \in StreamRecords /\ NoStream.turn = NoTurn
  BY DEF NoStream, Maybe
<1> QED
  BY <1>1, <1>2 DEF StreamTypes

\* Requests.
LEMMA ReadType ==
    ASSUME NEW t \in Thread
    PROVE  /\ [stage |-> "sent", thread |-> t, turns |-> Nothing]
                 \in ReadRecords
           /\ NoRead \in ReadRecords
           /\ NoRead.stage = "none"
BY NothingType DEF NoRead

LEMMA Refreshes ==
    ASSUME RequestTypes, NEW t \in Thread, RefreshThreadDetail(t), UNCHANGED requestVars
    PROVE  RequestTypes'
<1>1. /\ detailRequest' \in ReadRecords
      /\ detailRequest'.stage # "none" => detailRequest'.thread \in Thread
      /\ refreshQueued' \in BOOLEAN
  <2>1. CASE detailRequest # NoRead
    BY <2>1 DEF RefreshThreadDetail, RequestTypes
  <2>2. CASE detailRequest = NoRead
    BY <2>2, ReadType DEF RefreshThreadDetail
  <2> QED
    BY <2>1, <2>2
<1> QED
  BY <1>1 DEF RequestTypes, requestVars

LEMMA ReadEnds ==
    ASSUME RequestTypes, RefreshEnds, UNCHANGED requestVars,
        selectedThreadId \in Thread \cup {NoThread}
    PROVE  RequestTypes'
<1>1. NoRead \in ReadRecords
      /\ NoRead.stage = "none"
  BY NothingType DEF NoRead
<1>2. selectedThreadId # NoThread =>
        [stage |-> "sent", thread |-> selectedThreadId, turns |-> Nothing]
           \in ReadRecords
  BY ReadType
<1> QED
  BY <1>1, <1>2 DEF RefreshEnds, RequestTypes, requestVars

LEMMA SeenType ==
    ASSUME ServerTypes
    PROVE  /\ Seen \in Turns /\ \A t : TurnsOf(t) \in Turns
           /\ \A u \in Turn : Seen[u] = "running" <=> srv[u] \in {"starting", "running"}
           /\ \A u \in Turn : Seen[u] = "ended" <=> srv[u] = "ended"
           /\ \A u \in Turn : Seen[u] = "absent" <=> srv[u] = "absent"
BY DEF ServerTypes, Seen, TurnsOf, Turns

\* The thread a detail or, without one, the selection is of.
LEMMA ThreadOfType == SelectionTypes => ThreadOf(threadDetail) \in Thread \cup {NoThread}
BY DEF SelectionTypes, ThreadOf, Details

\* findActiveTurn may only take an observation away.
LEMMA PrunedType ==
    ASSUME NEW d, NEW sel, NEW obs \in [Thread -> Maybe]
    PROVE  /\ Pruned(d, sel, obs) \in [Thread -> Maybe]
           /\ \A t \in Thread :
                 \/ Pruned(d, sel, obs)[t] = obs[t]
                 \/ Pruned(d, sel, obs)[t] = NoTurn /\ d.thread = t /\ obs[t] # NoTurn
                      /\ d.turns[obs[t]] = "ended"
<1>1. \/ Pruned(d, sel, obs) = obs
      \/ /\ Pruned(d, sel, obs) = [obs EXCEPT ![d.thread] = NoTurn]
         /\ obs[d.thread] # NoTurn /\ d.turns[obs[d.thread]] = "ended"
  BY Zenon DEF Pruned
<1> QED
  BY <1>1 DEF Maybe

LEMMA ObservedStillIs ==
    ASSUME NEW u
    PROVE  ObservedStill(u) = observed \/ ObservedStill(u) = Pruned(threadDetail, u, observed)
BY DEF ObservedStill

LEMMA SelectionPruned ==
    ASSUME SelectionTypes, NEW sel,
           observed' = observed \/ observed' = Pruned(threadDetail, sel, observed),
           UNCHANGED <<selectedThreadId, selectedTurnId, threadDetail, summaries, thinking>>
    PROVE  SelectionTypes'
<1>1. observed' \in [Thread -> Maybe]
  BY PrunedType DEF SelectionTypes
<1> QED
  BY <1>1 DEF SelectionTypes, Sound

LEMMA ThinkingTypes ==
    ASSUME SelectionTypes, NEW sel \in Maybe, NEW list,
           UpdateThinkingState(threadDetail, sel, observed, list),
           UNCHANGED <<selectedThreadId, threadDetail>>, summaries' \in Turns
    PROVE  SelectionTypes'
<1>1. thinking' \in BOOLEAN /\ selectedTurnId' \in Maybe /\ observed' \in [Thread -> Maybe]
  BY ThreadOfType, Thinks DEF SelectionTypes
<1> QED
  BY <1>1 DEF SelectionTypes, Sound

LEMMA OpenThreadTypes ==
    ASSUME Typed, NEW t \in Thread, OpenThread(t)
    PROVE  Typed'
<1> USE TypesApart
<1>1. PICK list : UpdateThinkingState(NoDetail, NoTurn, observed, list)
  BY DEF OpenThread
<1>2. ThreadOf(NoDetail) \in Thread \cup {NoThread}
  BY DEF ThreadOf, SelectionTypes
<1>3. thinking' \in BOOLEAN /\ selectedTurnId' \in Maybe /\ observed' \in [Thread -> Maybe]
  BY <1>1, <1>2, Thinks, NoDetailType DEF SelectionTypes, Maybe
<1>4. SelectionTypes'
  BY <1>3, NoDetailType DEF OpenThread, SelectionTypes, Sound, NoDetail
<1>5. StreamTypes'
  BY StreamCloses DEF OpenThread
<1>6. RequestTypes'
  BY Refreshes DEF OpenThread
<1>7. ServerTypes'
  BY ServerStill DEF OpenThread
<1> QED
  BY <1>4, <1>5, <1>6, <1>7, TypesApartNext

LEMMA DetailReturnsTypes ==
    ASSUME Typed, DetailReturns
    PROVE  Typed'
<1> USE TypesApart
<1> DEFINE t == detailRequest.thread
           d == Detail(t, detailRequest.turns)
           obs == Reconciled(d)
           shown == FindActiveTurn(d, selectedTurnId, obs)
           sel == IF shown # NoTurn THEN shown ELSE selectedTurnId
           found == FindActiveTurn(d, sel, obs)
           active == IF found # NoTurn THEN found ELSE SummaryActiveTurn(d, t, summaries)
<1>1. t \in Thread /\ detailRequest.turns \in Turns
  BY DEF DetailReturns, RequestTypes
<1>2. d \in Details /\ Sound(d) /\ d.thread = t /\ d # NoDetail
  BY <1>1, DetailType
<1>3. obs \in [Thread -> Maybe]
  <2> HIDE DEF d
  <2> QED
    BY <1>1, <1>2 DEF Reconciled, Remember, Forget, SelectionTypes, Details, Maybe
<1>4. ThreadOf(d) = t
  <2> HIDE DEF d, t
  <2> QED BY <1>2 DEF ThreadOf
<1>5. shown \in Maybe /\ found \in Maybe
  <2> HIDE DEF d, t, obs
  <2> QED BY <1>1, <1>2, <1>3, <1>4, FindType
<1>6. active \in Maybe
  <2>1. SummaryActiveTurn(d, t, summaries) \in Maybe
    <3> HIDE DEF d, t
    <3> QED BY Summarized DEF Maybe
  <2> QED
    BY <1>5, <2>1
<1>7. StillSelected(t) =>
      /\ threadDetail' = d
      /\ thinking' = (shown # NoTurn)
      /\ observed' = Pruned(d, selectedTurnId, obs)
      /\ selectedTurnId' = active
      /\ IF active = NoTurn THEN CloseTurnStream
         ELSE IF active # sel THEN OpenTurnStream(active)
         ELSE UNCHANGED streamVars
  BY Zenon DEF DetailReturns
<1>8. ~StillSelected(t) =>
        UNCHANGED <<threadDetail, thinking, observed, selectedTurnId, streamVars>>
  BY Zenon DEF DetailReturns
<1>9. UNCHANGED <<selectedThreadId, summaries, requestVars, serverVars, faults>> /\ RefreshEnds
  BY Zenon DEF DetailReturns
<1>10. Pruned(d, selectedTurnId, obs) \in [Thread -> Maybe]
  <2> HIDE DEF d, obs
  <2> QED BY <1>3 DEF Pruned, Maybe
<1> HIDE DEF d, obs, shown, sel, found, active, t
<1>11. SelectionTypes'
  <2>1. CASE StillSelected(t)
    BY <1>1, <1>2, <1>6, <1>7, <1>9, <1>10, <2>1, Numbers DEF SelectionTypes, Sound
  <2>2. CASE ~StillSelected(t)
    BY <1>8, <1>9, <2>2 DEF SelectionTypes, Sound
  <2> QED
    BY <2>1, <2>2
<1>12. StreamTypes'
  BY <1>6, <1>7, <1>8, StreamCloses, StreamOpens, StreamStill DEF Maybe
<1>13. RequestTypes'
  BY <1>9, ReadEnds DEF SelectionTypes
<1>14. ServerTypes'
  BY <1>9, ServerStill
<1> QED
  BY <1>11, <1>12, <1>13, <1>14, TypesApartNext

LEMMA HandleTurnEventTypes ==
    ASSUME Typed, HandleTurnEvent
    PROVE  Typed'
<1> USE TypesApart
<1> DEFINE u == ws.turn
           m == Head(ws.queue)
           d == AppliedTo(threadDetail, u, m)
           obs == IF d = NoDetail THEN Tracked(u, m)
                  ELSE CASE m = "turn/started" -> Remember(Tracked(u, m), d.thread, u)
                         [] m = "turn/completed" -> Forget(Tracked(u, m), d.thread, u)
                         [] OTHER -> Tracked(u, m)
           sel == IF d = NoDetail THEN selectedTurnId
                  ELSE CASE m = "turn/started" /\ selectedTurnId = NoTurn -> u
                         [] m = "turn/completed" /\ selectedTurnId = u -> NoTurn
                         [] OTHER -> selectedTurnId
<1>1. ws.queue # <<>> /\ ws' = [ws EXCEPT !.queue = Tail(@)] /\ threadDetail' = d
  BY Zenon DEF HandleTurnEvent
<1>2. UNCHANGED <<selectedThreadId, summaries, reconnectTimer, suppressed, closing, detailVars,
                  requestVars, serverVars, faults>>
  BY Zenon DEF HandleTurnEvent
<1>3. \/ UpdateThinkingState(d, sel, obs, summaries)
      \/ thinking' = thinking /\ selectedTurnId' = sel /\ observed' = obs
  BY Zenon DEF HandleTurnEvent
<1>4. u \in Turn /\ ws.queue \in Seq(Event)
  BY <1>1 DEF StreamTypes, Maybe, NoStream
<1>5. d \in Details /\ Sound(d) /\ d.thread = threadDetail.thread
  /\ (threadDetail = NoDetail => d = NoDetail)
  BY <1>4, Applied DEF SelectionTypes
<1>6. sel \in Maybe
  <2> HIDE DEF d, m
  <2> QED BY <1>4 DEF SelectionTypes, Maybe
<1>7. Tracked(u, m) \in [Thread -> Maybe]
  <2> HIDE DEF u, m
  <2> QED BY <1>4 DEF Tracked, Remember, Forget, SelectionTypes, Maybe
<1>8. obs \in [Thread -> Maybe]
  <2> DEFINE o == Tracked(u, m)
  <2>1. o \in [Thread -> Maybe]
    BY <1>7
  <2>2. obs \in {o, Remember(o, d.thread, u), Forget(o, d.thread, u)}
    <3> HIDE DEF d, u, m
    <3> QED OBVIOUS
  <2> HIDE DEF obs, o, d, u
  <2> QED
    BY <1>4, <2>1, <2>2 DEF Remember, Forget, Maybe
<1> HIDE DEF d, obs, sel
<1>9. ThreadOf(d) \in Thread \cup {NoThread}
  BY <1>5 DEF ThreadOf, SelectionTypes, Details
<1>10. thinking' \in BOOLEAN /\ selectedTurnId' \in Maybe /\ observed' \in [Thread -> Maybe]
  BY <1>3, <1>5, <1>6, <1>8, <1>9, Thinks DEF SelectionTypes
<1>11. SelectionTypes'
  <2>1. d = NoDetail <=> d.thread = NoThread
    BY <1>5 DEF SelectionTypes, NoDetail
  <2> QED
    BY <1>1, <1>2, <1>5, <1>10, <2>1 DEF SelectionTypes, Sound
<1>12. StreamTypes'
  <2>1. Tail(ws.queue) \in Seq(Event)
    BY <1>1, <1>4
  <2> QED
    BY <1>1, <1>2, <1>4, <2>1, Numbers DEF StreamTypes, NoStream
<1>13. RequestTypes' /\ ServerTypes'
  BY <1>2, RequestStill, ServerStill
<1> QED
  BY <1>11, <1>12, <1>13, TypesApartNext

\* The answer of loadThreads selects a thread of the list.
LEMMA ReselectsOne ==
    ASSUME Typed, ThreadsReturn
    PROVE  \E t \in Thread : Reselect(t)
<1>1. PICK t : /\ t \in IF threadsRequest.preferred # NoThread THEN {threadsRequest.preferred}
                        ELSE IF {x \in Thread : \E u \in Running(summaries') : threadOf[u] = x} # {}
                        THEN {x \in Thread : \E u \in Running(summaries') : threadOf[u] = x}
                        ELSE Thread
               /\ Reselect(t)
  BY DEF ThreadsReturn
<1>2. threadsRequest.preferred \in Thread \cup {NoThread}
  BY DEF Typed, ViewTypeOK
<1> QED
  BY <1>1, <1>2

LEMMA TypesStep == Typed /\ [ViewNext]_viewVars => Typed'
<1> SUFFICES ASSUME Typed, [ViewNext]_viewVars PROVE Typed'
  OBVIOUS
<1> USE TypesApart, TypesApartNext
<1>1. ASSUME NEW t \in Thread, OpenThread(t) PROVE Typed'
  BY <1>1, OpenThreadTypes
<1>2. ASSUME NEW t \in Thread, ObservationExpires(t) PROVE Typed'
  <2>1. SelectionTypes'
    BY <1>2 DEF ObservationExpires, SelectionTypes, Maybe, Sound
  <2> QED
    BY <1>2, <2>1, StreamStill, RequestStill, ServerStill DEF ObservationExpires
<1>3. CASE Poll
  <2>1. RequestTypes'
    BY <1>3, Refreshes DEF Poll, SelectionTypes
  <2> QED
    BY <1>3, <2>1, SelectionStill, StreamStill, ServerStill DEF Poll
<1>4. CASE DetailAnswered
  <2>1. RequestTypes'
    BY <1>4, SeenType DEF DetailAnswered, RequestTypes, requestVars
  <2> QED
    BY <1>4, <2>1, SelectionStill, StreamStill, ServerStill DEF DetailAnswered
<1>5. CASE DetailReturns
  BY <1>5, DetailReturnsTypes
<1>6. CASE DetailFails
  <2>1. SelectionTypes'
    <3>1. CASE StillSelected(detailRequest.thread)
      <4>1. PICK list : UpdateThinkingState(threadDetail, selectedTurnId, observed, list)
        BY <1>6, <3>1 DEF DetailFails
      <4> QED
        BY <1>6, <4>1, ThinkingTypes DEF DetailFails, SelectionTypes
    <3>2. CASE ~StillSelected(detailRequest.thread)
      BY <1>6, <3>2, SelectionStill DEF DetailFails, selectionVars
    <3> QED
      BY <3>1, <3>2
  <2>2. RequestTypes'
    BY <1>6, ReadEnds DEF DetailFails, RefreshEndsBadly, SelectionTypes
  <2>3. ServerTypes'
    BY <1>6, Numbers DEF DetailFails, ServerTypes, serverVars
  <2> QED
    BY <1>6, <2>1, <2>2, <2>3, StreamStill DEF DetailFails
<1>7. CASE ListReturns
  <2>1. PICK list :
           summaries' \in Turns /\ UpdateThinkingState(threadDetail, selectedTurnId, observed,
               list)
    BY <1>7 DEF ListReturns, Listed
  <2>2. SelectionTypes'
    BY <1>7, <2>1, ThinkingTypes DEF ListReturns, SelectionTypes
  <2> QED
    BY <1>7, <2>2, StreamStill, RequestStill, ServerStill DEF ListReturns
<1>8. CASE SendMessage
  <2>1. RequestTypes'
    BY <1>8 DEF SendMessage, RequestTypes, SelectionTypes, detailVars, Maybe
  <2> QED
    BY <1>8, <2>1, SelectionStill, StreamStill, ServerStill DEF SendMessage
<1>9. CASE SendReturns
  <2>1. sending.turn \in Turn
    BY <1>9 DEF SendReturns, RequestTypes
  <2>2. SelectionTypes'
    BY <1>9, <2>1 DEF SendReturns, SelectionTypes, RememberedOnSend, Remember, Maybe, Sound
  <2>3. StreamTypes'
    BY <1>9, <2>1, StreamOpens DEF SendReturns
  <2>4. RequestTypes'
    <3>1. /\ NoSend \in SendRecords
          /\ NoSend.stage = "none"
      BY DEF NoSend, Maybe
    <3> QED
      BY <1>9, <3>1 DEF SendReturns, RequestTypes, detailVars
  <2> QED
    BY <1>9, <2>2, <2>3, <2>4, ServerStill DEF SendReturns
<1>10. CASE SendSteer
  <2>1. PICK list :
           LET found == FindActiveTurn(threadDetail, NoTurn, observed)
               u == IF selectedTurnId # NoTurn THEN selectedTurnId
                    ELSE IF found # NoTurn THEN found
                    ELSE SummaryActiveTurn(threadDetail, selectedThreadId, list)
           IN  steering' = u
    BY <1>10, Zenon DEF SendSteer
  <2>2. FindActiveTurn(threadDetail, NoTurn, observed) \in Maybe
    BY FindType, ThreadOfType DEF SelectionTypes
  <2>3. SummaryActiveTurn(threadDetail, selectedThreadId, list) \in Maybe
    BY Summarized DEF Maybe
  <2>4. steering' \in Maybe
    BY <2>1, <2>2, <2>3 DEF SelectionTypes
  <2>5. RequestTypes'
    BY <1>10, <2>4 DEF SendSteer, RequestTypes, detailVars
  <2>6. SelectionTypes'
    BY <1>10, SelectionPruned DEF SendSteer
  <2> QED
    BY <1>10, <2>5, <2>6, StreamStill, ServerStill DEF SendSteer
<1>11. CASE SteerReturns
  <2>1. SelectionTypes'
    BY <1>11 DEF SteerReturns, SelectionTypes, RequestTypes, Sound
  <2>2. RequestTypes'
    BY <1>11 DEF SteerReturns, RequestTypes, detailVars, Maybe
  <2> QED
    BY <1>11, <2>1, <2>2, StreamStill, ServerStill DEF SteerReturns
<1>12. CASE CallFails
  <2>1. RequestTypes'
    <3>1. /\ NoSend \in SendRecords
          /\ NoSend.stage = "none" /\ NoTurn \in Maybe
      BY DEF NoSend, Maybe
    <3> QED
      BY <1>12, <3>1 DEF CallFails, RequestTypes, detailVars
  <2> QED
    BY <1>12, <2>1, SelectionStill, StreamStill, ServerStill DEF CallFails
<1>13. CASE SocketOpens
  <2>1. StreamTypes'
    <3> DEFINE m == IF srv[ws.turn] = "ended" THEN "hub/state ended" ELSE "hub/state running"
    <3>1. ws' = [ws EXCEPT !.stage = "open", !.queue = <<m>>]
      BY <1>13 DEF SocketOpens
    <3>2. <<m>> \in Seq(Event)
      BY DEF Event
    <3>3. ws # NoStream
      BY <1>13 DEF SocketOpens, NoStream
    <3> HIDE DEF m
    <3>4. ws' \in StreamRecords /\ ws'.turn = ws.turn
      BY <3>1, <3>2 DEF StreamTypes
    <3> QED
      BY <1>13, <3>3, <3>4 DEF SocketOpens, StreamTypes, Maybe, NoStream
  <2> QED
    BY <1>13, <2>1, SelectionStill, RequestStill, ServerStill DEF SocketOpens
<1>14. CASE HandleTurnEvent
  BY <1>14, HandleTurnEventTypes
<1>15. CASE ReconnectFires
  <2>1. StreamTypes'
    <3>1. reconnectTimer \in Turn
      BY <1>15 DEF ReconnectFires, StreamTypes, Maybe
    <3>2. CASE OpenTurnStream(reconnectTimer)
      BY <3>1, <3>2, StreamOpens
    <3>3. CASE reconnectTimer' = NoTurn /\ UNCHANGED <<ws, suppressed, closing>>
      BY <3>3 DEF StreamTypes, Maybe
    <3> QED
      BY <1>15, <3>2, <3>3 DEF ReconnectFires
  <2>2. SelectionTypes'
    BY <1>15, ObservedStillIs, SelectionPruned DEF ReconnectFires
  <2> QED
    BY <1>15, <2>1, <2>2, RequestStill, ServerStill DEF ReconnectFires
<1>16. CASE SuppressionEnds
  <2>1. StreamTypes'
    BY <1>16 DEF SuppressionEnds, StreamTypes
  <2> QED
    BY <1>16, <2>1, SelectionStill, RequestStill, ServerStill DEF SuppressionEnds
<1>17. ASSUME NEW u \in Turn, OldSocketCloses(u) PROVE Typed'
  <2>1. StreamTypes'
    <3>1. CASE ws # NoStream
      BY <1>17, <3>1 DEF OldSocketCloses, StreamTypes
    <3>2. CASE ws = NoStream
      BY <1>17, <3>2, StreamLost DEF OldSocketCloses
    <3> QED
      BY <3>1, <3>2
  <2>2. SelectionTypes'
    <3>1. observed' = observed \/ observed' = ObservedStill(u)
      BY <1>17 DEF OldSocketCloses, StreamClosed
    <3> QED
      BY <1>17, <3>1, ObservedStillIs, SelectionPruned DEF OldSocketCloses
  <2> QED
    BY <1>17, <2>1, <2>2, RequestStill, ServerStill DEF OldSocketCloses
<1>18. CASE SocketDrops
  <2>1. ws.turn \in Turn
    BY <1>18 DEF SocketDrops, StreamTypes, Maybe
  <2>2. StreamTypes'
    BY <1>18, <2>1, StreamLost DEF SocketDrops
  <2>3. ServerTypes'
    BY <1>18, Numbers DEF SocketDrops, ServerTypes, serverVars
  <2>4. SelectionTypes'
    <3>1. observed' = observed \/ observed' = ObservedStill(ws.turn)
      BY <1>18 DEF SocketDrops, StreamClosed
    <3> QED
      BY <1>18, <3>1, ObservedStillIs, SelectionPruned DEF SocketDrops
  <2> QED
    BY <1>18, <2>2, <2>3, <2>4, RequestStill DEF SocketDrops
<1>19. ASSUME NEW u \in Turn, NEW t \in Thread, BridgeStarts(u, t) PROVE Typed'
  <2>1. RequestTypes'
    BY <1>19 DEF BridgeStarts, RequestTypes, detailVars, Maybe
  <2>2. ServerTypes'
    BY <1>19 DEF BridgeStarts, Begin, ServerTypes
  <2> QED
    BY <1>19, <2>1, <2>2, SelectionStill, StreamStill DEF BridgeStarts
<1>20. ASSUME NEW u \in Turn, BridgeReports(u) PROVE Typed'
  <2>1. PICK m \in Event : Broadcast(u, m)
    BY <1>20 DEF BridgeReports, Event
  <2>2. StreamTypes'
    <3>1. CASE ws.turn = u /\ ws.stage = "open"
      <4>1. ws' = [ws EXCEPT !.queue = Append(@, m)] /\ Append(ws.queue, m) \in Seq(Event)
        BY <2>1, <3>1 DEF Broadcast, StreamTypes
      <4>2. ws' \in StreamRecords /\ ws'.turn = u
        BY <3>1, <4>1 DEF StreamTypes
      <4> QED
        BY <1>20, <4>2, Numbers DEF BridgeReports, StreamTypes, NoStream
    <3>2. CASE ~(ws.turn = u /\ ws.stage = "open")
      BY <1>20, <2>1, <3>2 DEF BridgeReports, Broadcast, StreamTypes
    <3> QED
      BY <3>1, <3>2
  <2>3. ServerTypes'
    BY <1>20 DEF BridgeReports, ServerTypes
  <2> QED
    BY <1>20, <2>2, <2>3, SelectionStill, RequestStill DEF BridgeReports
<1>21. CASE UNCHANGED viewVars
  BY <1>21, SelectionStill, StreamStill, RequestStill, ServerStill DEF viewVars
<1>22. CASE LoadThreads
  <2>1. RequestTypes'
    BY <1>22 DEF LoadThreads, RequestTypes, SelectionTypes, detailVars
  <2> QED
    BY <1>22, <2>1, SelectionStill, StreamStill, ServerStill DEF LoadThreads
<1>23. CASE ThreadsReturn
  <2>1. PICK t \in Thread : Reselect(t)
    BY <1>23, ReselectsOne
  <2>2. summaries' \in Turns /\ threadsRequest' = NoLoad
    BY <1>23 DEF ThreadsReturn, Listed
  <2>3. UNCHANGED <<selectedTurnId, threadDetail, observed, thinking, streamVars, sending,
                    steering, serverVars, faults>>
    BY <1>23 DEF ThreadsReturn
  <2>4. RequestTypes'
    <3>1. NoLoad \in LoadRecords
      BY DEF NoLoad
    <3>2. /\ detailRequest' \in ReadRecords
          /\ detailRequest'.stage # "none" => detailRequest'.thread \in Thread
          /\ refreshQueued' \in BOOLEAN
      <4>1. CASE UNCHANGED detailVars
        BY <4>1 DEF detailVars, RequestTypes
      <4>2. CASE RefreshThreadDetail(t) /\ detailRequest # NoRead
        BY <4>2 DEF RefreshThreadDetail, RequestTypes
      <4>3. CASE RefreshThreadDetail(t) /\ detailRequest = NoRead
        BY <4>3, ReadType DEF RefreshThreadDetail
      <4> QED
        BY <2>1, <4>1, <4>2, <4>3 DEF Reselect
    <3> QED
      BY <2>2, <2>3, <3>1, <3>2 DEF RequestTypes
  <2>5. SelectionTypes'
    BY <2>1, <2>2, <2>3 DEF Reselect, SelectionTypes, Sound
  <2> QED
    BY <2>3, <2>4, <2>5, StreamStill, ServerStill
<1>24. CASE ThreadsFail
  <2>1. RequestTypes'
    <3>1. NoLoad \in LoadRecords
      BY DEF NoLoad
    <3> QED
      BY <1>24, <3>1 DEF ThreadsFail, RequestTypes, detailVars
  <2>2. SelectionTypes'
    BY <1>24, NothingType DEF ThreadsFail, SelectionTypes, Sound
  <2> QED
    BY <1>24, <2>1, <2>2, StreamStill, ServerStill DEF ThreadsFail
<1> QED
  BY <1>1, <1>2, <1>3, <1>4, <1>5, <1>6, <1>7, <1>8, <1>9, <1>10, <1>11, <1>12, <1>13, <1>14, <1>15,
     <1>16, <1>17, <1>18, <1>19, <1>20, <1>21, <1>22, <1>23, <1>24
  DEF ViewNext, SocketSteps

-----------------------------------------------------------------------------
\* Which actions touch what.
LEMMA Touches ==
    [ViewNext]_viewVars =>
        /\ \/ UNCHANGED <<srv, threadOf>>
           \/ \E u \in Turn, t \in Thread : BridgeStarts(u, t)
           \/ \E u \in Turn : BridgeReports(u)
        /\ \/ UNCHANGED threadDetail
           \/ \E t \in Thread : OpenThread(t)
           \/ DetailReturns
           \/ HandleTurnEvent
        /\ \/ UNCHANGED detailRequest
           \/ \E t \in Thread : OpenThread(t)
           \/ Poll
           \/ DetailAnswered
           \/ DetailReturns
           \/ DetailFails
           \/ ThreadsReturn
        /\ \/ UNCHANGED refreshQueued
           \/ \E t \in Thread : OpenThread(t)
           \/ Poll
           \/ DetailReturns
           \/ DetailFails
           \/ ThreadsReturn
        /\ \/ UNCHANGED summaries
           \/ ListReturns
           \/ ThreadsReturn
           \/ ThreadsFail
        /\ \/ UNCHANGED thinking
           \/ \E t \in Thread : OpenThread(t)
           \/ DetailReturns
           \/ DetailFails
           \/ ListReturns
           \/ SendReturns
           \/ HandleTurnEvent
        /\ \/ UNCHANGED observed
           \/ SendSteer
           \/ ReconnectFires
           \/ SocketDrops
           \/ \E u \in Turn : OldSocketCloses(u)
           \/ \E t \in Thread : OpenThread(t)
           \/ \E t \in Thread : ObservationExpires(t)
           \/ DetailReturns
           \/ DetailFails
           \/ ListReturns
           \/ SendReturns
           \/ HandleTurnEvent
        /\ \/ UNCHANGED ws
           \/ \E t \in Thread : OpenThread(t)
           \/ DetailReturns
           \/ SendReturns
           \/ SocketOpens
           \/ HandleTurnEvent
           \/ ReconnectFires
           \/ SocketDrops
           \/ \E u \in Turn : BridgeReports(u)
        /\ \/ UNCHANGED <<closing, reconnectTimer>>
           \/ \E t \in Thread : OpenThread(t)
           \/ DetailReturns
           \/ SendReturns
           \/ SocketOpens
           \/ ReconnectFires
           \/ \E u \in Turn : OldSocketCloses(u)
           \/ SocketDrops
        /\ \/ UNCHANGED sending
           \/ SendMessage
           \/ SendReturns
           \/ CallFails
           \/ \E u \in Turn, t \in Thread : BridgeStarts(u, t)
        /\ \/ UNCHANGED selectedThreadId
           \/ \E t \in Thread : OpenThread(t)
           \/ ThreadsReturn
<1> USE DEF selectionVars, streamVars, detailVars, requestVars, serverVars
<1>1. ASSUME NEW t \in Thread, OpenThread(t)
      PROVE  UNCHANGED <<summaries, requestVars, serverVars, faults>>
  BY <1>1 DEF OpenThread
<1>2. ASSUME NEW t \in Thread, ObservationExpires(t)
      PROVE  UNCHANGED <<selectedThreadId, selectedTurnId, threadDetail, summaries, thinking,
          streamVars, detailVars, requestVars, serverVars, faults>>
  BY <1>2 DEF ObservationExpires
<1>3. ASSUME Poll PROVE UNCHANGED <<selectionVars, streamVars, requestVars, serverVars, faults>>
  BY <1>3 DEF Poll
<1>4. ASSUME DetailAnswered
      PROVE  UNCHANGED <<selectionVars, streamVars, refreshQueued, requestVars, serverVars,
          faults>>
  BY <1>4 DEF DetailAnswered
<1>5. ASSUME DetailReturns
      PROVE  UNCHANGED <<selectedThreadId, summaries, requestVars, serverVars, faults>>
  BY <1>5 DEF DetailReturns
<1>6. ASSUME DetailFails
      PROVE  UNCHANGED <<selectedThreadId, threadDetail, summaries, streamVars, requestVars,
          serverVars>>
  BY <1>6 DEF DetailFails
<1>7. ASSUME ListReturns
      PROVE  UNCHANGED <<selectedThreadId, threadDetail, streamVars, detailVars, requestVars,
          serverVars, faults>>
  BY <1>7 DEF ListReturns
<1>8. ASSUME SendMessage
      PROVE  UNCHANGED <<selectionVars, streamVars, detailVars, threadsRequest, steering,
          serverVars, faults>>
  BY <1>8 DEF SendMessage
<1>9. ASSUME SendReturns
      PROVE  UNCHANGED <<selectedThreadId, threadDetail, summaries, detailVars, steering,
          serverVars, faults>>
  BY <1>9 DEF SendReturns
<1>10. ASSUME SendSteer
      PROVE  UNCHANGED <<selectedThreadId, selectedTurnId, threadDetail, summaries, thinking,
          streamVars, detailVars, sending, serverVars, faults>>
  BY <1>10 DEF SendSteer
<1>11. ASSUME SteerReturns
      PROVE  UNCHANGED <<selectedThreadId, threadDetail, summaries, observed, thinking,
          streamVars, detailVars, sending, serverVars, faults>>
  BY <1>11 DEF SteerReturns
<1>12. ASSUME CallFails
      PROVE  UNCHANGED <<selectionVars, streamVars, detailVars, serverVars, faults>>
  BY <1>12 DEF CallFails
<1>13. ASSUME SocketOpens
      PROVE  UNCHANGED <<selectionVars, suppressed, closing, detailVars, requestVars,
          serverVars, faults>>
  BY <1>13 DEF SocketOpens
<1>14. ASSUME HandleTurnEvent
      PROVE  UNCHANGED <<selectedThreadId, summaries, reconnectTimer, suppressed, closing,
          detailVars, requestVars, serverVars, faults>>
  BY <1>14 DEF HandleTurnEvent
<1>15. ASSUME ReconnectFires
      PROVE  UNCHANGED <<selectedThreadId, selectedTurnId, threadDetail, summaries, thinking,
          detailVars, requestVars, serverVars, faults>>
  BY <1>15 DEF ReconnectFires
<1>16. ASSUME SuppressionEnds
      PROVE  UNCHANGED <<selectionVars, ws, reconnectTimer, closing, detailVars, requestVars,
          serverVars, faults>>
  BY <1>16 DEF SuppressionEnds
<1>17. ASSUME NEW u \in Turn, OldSocketCloses(u)
      PROVE  UNCHANGED <<selectedThreadId, selectedTurnId, threadDetail, summaries, thinking,
          ws, suppressed, detailVars, requestVars, serverVars, faults>>
  BY <1>17 DEF OldSocketCloses
<1>18. ASSUME SocketDrops
      PROVE  UNCHANGED <<selectedThreadId, selectedTurnId, threadDetail, summaries, thinking,
          suppressed, closing, detailVars, requestVars, serverVars>>
  BY <1>18 DEF SocketDrops
<1>19. ASSUME NEW u \in Turn, NEW t \in Thread, BridgeStarts(u, t)
      PROVE  UNCHANGED <<selectionVars, streamVars, detailVars, steering, faults>>
  BY <1>19 DEF BridgeStarts
<1>20. ASSUME NEW u \in Turn, BridgeReports(u)
      PROVE  UNCHANGED <<selectionVars, reconnectTimer, suppressed, closing, detailVars,
          requestVars, threadOf, faults>>
  BY <1>20 DEF BridgeReports
<1>21. ASSUME UNCHANGED viewVars
      PROVE  UNCHANGED <<selectionVars, streamVars, detailVars, requestVars, serverVars>>
  BY <1>21 DEF viewVars
<1>22. ASSUME LoadThreads
      PROVE  UNCHANGED <<selectionVars, streamVars, detailVars, sending, steering, serverVars,
          faults>>
  BY <1>22 DEF LoadThreads
<1>23. ASSUME ThreadsReturn
      PROVE  UNCHANGED <<selectedTurnId, threadDetail, observed, thinking, streamVars, sending,
          steering, serverVars, faults>>
  BY <1>23 DEF ThreadsReturn
<1>24. ASSUME ThreadsFail
      PROVE  UNCHANGED <<selectedThreadId, selectedTurnId, threadDetail, observed, thinking,
          streamVars, detailVars, sending, steering, serverVars, faults>>
  BY <1>24 DEF ThreadsFail
<1> QED
  BY <1>1, <1>2, <1>3, <1>4, <1>5, <1>6, <1>7, <1>8, <1>9, <1>10, <1>11, <1>12, <1>13, <1>14,
      <1>15, <1>16, <1>17, <1>18, <1>19, <1>20, <1>21, <1>22, <1>23, <1>24
  DEF ViewNext, SocketSteps

-----------------------------------------------------------------------------
(* The invariant.                                                          *)

\* The stream of turn u is open, closing, or about to be opened again.
Opened(u) == ws.turn = u \/ u \in closing \/ reconnectTimer = u
Alive(u)  == srv[u] \in {"starting", "running"}
Begun(u)  == srv[u] \in {"running", "ended"}

\* The page has heard of no turn that is not there.
HeardOf ==
    /\ \A u \in Turn : Opened(u) => srv[u] # "absent"
    /\ \A t \in Thread : observed[t] # NoTurn => srv[observed[t]] # "absent"
    /\ \A u \in Turn : summaries[u] # "absent" => srv[u] # "absent"
    /\ \A u \in Turn : threadDetail.turns[u] # "absent" => srv[u] # "absent"
    /\ \A u \in Turn : detailRequest.turns[u] # "absent" => srv[u] # "absent"

\* A thread has one live turn at most (the bridge refuses to start another).
OneAlive == \A u, v \in Turn : Alive(u) /\ Alive(v) /\ threadOf[u] = threadOf[v] => u = v

\* An answer is about the thread that was asked about.
Answers ==
    /\ sending.stage = "answered" =>
          srv[sending.turn] # "absent" /\ threadOf[sending.turn] = sending.thread
    /\ detailRequest.stage = "answered" => \A u \in Turn : detailRequest.turns[u] # "absent" =>
          /\ threadOf[u] = detailRequest.thread
          /\ detailRequest.turns[u] = "ended" => srv[u] = "ended"

\* What the page is told of a turn has happened.
Told(u, m) == (m \in Overs => srv[u] = "ended") /\ (m = "turn/started" => Begun(u))
Happened ==
    /\ \A u \in Turn : threadDetail.turns[u] = "ended" => srv[u] = "ended"
    /\ \A i \in DOMAIN ws.queue : Told(ws.turn, ws.queue[i])

\* An event may put a turn into the detail of another thread, and have it observed there.
Strangers ==
    /\ \A t \in Thread : observed[t] # NoTurn /\ threadOf[observed[t]] # t => Begun(observed[t])
    /\ \A u \in Turn : threadDetail.turns[u] # "absent"
         /\ threadOf[u] # threadDetail.thread => Begun(u)

\* A read was answered before the turn began, which lives.
Lagging(u) ==
    /\ detailRequest.stage = "answered" /\ detailRequest.turns[u] = "absent"
    /\ threadOf[u] = detailRequest.thread /\ Alive(u)

\* Then the turn is remembered from when its stream was opened, and nothing that is
\* on its way will make the page forget it.
Remembered(u) ==
    LET t == threadOf[u] IN
    /\ observed[t] = u
    /\ threadDetail.thread = t => thinking
    /\ sending # NoSend => IF sending.thread = t
         THEN sending.stage # "answered" ELSE threadDetail.thread # t
    /\ ws.turn \notin {NoTurn, u} /\ threadOf[ws.turn] = t =>
         \A i \in DOMAIN ws.queue : ws.queue[i] \in Overs
    /\ ws.turn # NoTurn /\ threadOf[ws.turn] # t /\ threadDetail.thread = t =>
          srv[ws.turn] # "starting" /\ \A i \in DOMAIN ws.queue : ws.queue[i] # "turn/started"

NotForgotten == \A u \in Turn : Lagging(u) /\ Opened(u) => Remembered(u)

Facts == HeardOf /\ OneAlive /\ Answers /\ Happened /\ Strangers

LagInv == Typed /\ Facts /\ NotForgotten

-----------------------------------------------------------------------------
(* What a step changes.                                                    *)

Forward ==
    /\ \A u \in Turn : srv[u] # "absent" => srv'[u] # "absent" /\ threadOf'[u] = threadOf[u]
    /\ \A u \in Turn : Begun(u) => Begun(u)'
    /\ \A u \in Turn : srv[u] = "ended" => srv'[u] = "ended"
    /\ \A u \in Turn : Alive(u)' => Alive(u) \/ srv[u] = "absent"

LEMMA GoesForward == Typed /\ [ViewNext]_viewVars => Forward
<1> SUFFICES ASSUME Typed, [ViewNext]_viewVars PROVE Forward
  OBVIOUS
<1>1. srv \in [Turn -> {"absent", "starting", "running", "ended"}]
  /\ threadOf \in [Turn -> Thread \cup {NoThread}]
  BY DEF Typed, ViewTypeOK
<1>2. CASE UNCHANGED <<srv, threadOf>>
  BY <1>1, <1>2 DEF Forward, Begun, Alive
<1>3. ASSUME NEW u \in Turn, NEW t \in Thread, BridgeStarts(u, t) PROVE Forward
  BY <1>1, <1>3 DEF Forward, Begun, Alive, BridgeStarts, Begin
<1>4. ASSUME NEW u \in Turn, BridgeReports(u) PROVE Forward
  BY <1>1, <1>4 DEF Forward, Begun, Alive, BridgeReports
<1> QED
  BY <1>2, <1>3, <1>4, Touches

LEMMA OneAliveStep == Typed /\ OneAlive /\ [ViewNext]_viewVars => OneAlive'
<1> SUFFICES ASSUME Typed, OneAlive, [ViewNext]_viewVars PROVE OneAlive'
  OBVIOUS
<1>1. srv \in [Turn -> {"absent", "starting", "running", "ended"}]
  /\ threadOf \in [Turn -> Thread \cup {NoThread}]
  BY DEF Typed, ViewTypeOK
<1>2. CASE UNCHANGED <<srv, threadOf>>
  BY <1>2 DEF OneAlive, Alive
<1>3. ASSUME NEW u \in Turn, NEW t \in Thread, BridgeStarts(u, t) PROVE OneAlive'
  <2>1. \A v \in Turn : Alive(v) => threadOf[v] # t
    BY <1>1, <1>3 DEF BridgeStarts, Begin, Busy, Seen, Alive
  <2> QED
    BY <1>1, <1>3, <2>1 DEF OneAlive, Alive, BridgeStarts, Begin
<1>4. ASSUME NEW u \in Turn, BridgeReports(u) PROVE OneAlive'
  <2>1. \A v \in Turn : Alive(v)' => Alive(v)
    BY <1>1, <1>4 DEF BridgeReports, Alive
  <2>2. threadOf' = threadOf
    BY <1>4 DEF BridgeReports, serverVars
  <2> QED
    BY <2>1, <2>2 DEF OneAlive
<1> QED
  BY <1>2, <1>3, <1>4, Touches

LEMMA SendingChanges ==
    ASSUME [ViewNext]_viewVars
    PROVE  \/ sending' = sending
           \/ sending' = NoSend
           \/ /\ SendMessage
              /\ sending' = [stage |-> "sent", thread |-> selectedThreadId, turn |-> NoTurn]
           \/ \E u \in Turn, t \in Thread :
                 /\ BridgeStarts(u, t) /\ sending.stage = "sent" /\ sending.thread = t
                 /\ sending' = [sending EXCEPT !.stage = "answered", !.turn = u]
<1>1. SendMessage => sending' = [stage |-> "sent", thread |-> selectedThreadId, turn |-> NoTurn]
  BY DEF SendMessage
<1>2. SendReturns => sending' = NoSend
  BY DEF SendReturns
<1>3. CallFails => sending' \in {sending, NoSend}
  BY DEF CallFails
<1>4. \A u \in Turn, t \in Thread : BridgeStarts(u, t) =>
         \/ sending' = sending
         \/ /\ sending.stage = "sent" /\ sending.thread = t
            /\ sending' = [sending EXCEPT !.stage = "answered", !.turn = u]
  BY DEF BridgeStarts
<1> QED
  BY <1>1, <1>2, <1>3, <1>4, Touches, Zenon

LEMMA ReadChanges ==
    ASSUME [ViewNext]_viewVars
    PROVE  \/ detailRequest' = detailRequest /\ ~DetailReturns /\ ~DetailFails
           \/ detailRequest'.stage # "answered" /\ detailRequest'.turns = Nothing
           \/ DetailAnswered
<1>1. NoRead.stage # "answered" /\ NoRead.turns = Nothing
  BY DEF NoRead
<1>2. \A t : RefreshThreadDetail(t) =>
         \/ detailRequest' = detailRequest
         \/ detailRequest' = [stage |-> "sent", thread |-> t, turns |-> Nothing]
  BY DEF RefreshThreadDetail
<1>3. RefreshEnds =>
         \/ detailRequest' = NoRead
         \/ detailRequest' = [stage |-> "sent", thread |-> selectedThreadId, turns |-> Nothing]
  BY DEF RefreshEnds
<1>4. \A t : [stage |-> "sent", thread |-> t, turns |-> Nothing].stage # "answered"
             /\ [stage |-> "sent", thread |-> t, turns |-> Nothing].turns = Nothing
  OBVIOUS
<1>5. /\ \A t \in Thread : OpenThread(t) => RefreshThreadDetail(t)
      /\ Poll => RefreshThreadDetail(selectedThreadId)
      /\ ThreadsReturn => \E t : RefreshThreadDetail(t)
      /\ DetailReturns \/ DetailFails => RefreshEnds
  <2>1. \A t \in Thread : OpenThread(t) => RefreshThreadDetail(t)
    BY DEF OpenThread
  <2>2. Poll => RefreshThreadDetail(selectedThreadId)
    BY DEF Poll
  <2>3. DetailReturns => RefreshEnds
    BY DEF DetailReturns
  <2>4. DetailFails => RefreshEnds
    BY DEF DetailFails, RefreshEndsBadly
  <2>5. ThreadsReturn => \E t : RefreshThreadDetail(t)
    BY DEF ThreadsReturn, Reselect
  <2> QED
    BY <2>1, <2>2, <2>3, <2>4, <2>5
<1>6. CASE DetailReturns \/ DetailFails
  BY <1>1, <1>3, <1>4, <1>5, <1>6
<1>7. CASE ~DetailReturns /\ ~DetailFails
  BY <1>1, <1>2, <1>3, <1>4, <1>5, <1>7, Touches
<1> QED
  BY <1>6, <1>7

\* What is found in a detail that was just read does not depend on the selected turn.
LEMMA FoundInRead ==
    ASSUME NEW t \in Thread, NEW turns \in Turns, NEW obs
    PROVE  LET d == Detail(t, turns) IN
           \A sel : FindActiveTurn(d, sel, obs) =
               IF Running(turns) # {} THEN d.active
               ELSE IF obs[t] # NoTurn /\ turns[obs[t]] # "ended" THEN obs[t] ELSE NoTurn
<1> DEFINE d == Detail(t, turns)
<1>1. /\ d # NoDetail /\ d.thread = t /\ d.turns = turns
      /\ FromPointer(d) <=> Running(turns) # {}
      /\ d.busy => Running(turns) # {}
  BY DetailType
<1> HIDE DEF d
<1>2. ThreadOf(d) = t /\ t # NoThread
  BY <1>1, Numbers DEF ThreadOf
<1> QED
  BY <1>1, <1>2 DEF FindActiveTurn, d

ReadDetail == Detail(detailRequest.thread, detailRequest.turns)

\* The rest of a read that is still wanted.
LEMMA ReadShows ==
    ASSUME Typed, DetailReturns, StillSelected(detailRequest.thread)
    PROVE  LET t == detailRequest.thread
               d == ReadDetail
               obs == Reconciled(d)
           IN  /\ threadDetail' = d
               /\ observed' \in [Thread -> Maybe]
               /\ \A s \in Thread :
                     \/ observed'[s] \in {observed[s], NoTurn}
                     \/ s = t /\ detailRequest.turns[observed'[s]] = "running"
               /\ \E active \in Maybe :
                     /\ active # NoTurn =>
                           \/ detailRequest.turns[active] = "running"
                           \/ active = observed[t]
                           \/ summaries[active] = "running"
                     /\ \/ CloseTurnStream
                        \/ active # NoTurn /\ OpenTurnStream(active)
                        \/ UNCHANGED streamVars
               /\ Running(detailRequest.turns) # {}
                     \/ (obs[t] # NoTurn /\ detailRequest.turns[obs[t]] # "ended")
                  => UNCHANGED streamVars
<1> DEFINE t == detailRequest.thread
           turns == detailRequest.turns
           d == Detail(t, turns)
           obs == Reconciled(d)
           shown == FindActiveTurn(d, selectedTurnId, obs)
           sel == IF shown # NoTurn THEN shown ELSE selectedTurnId
           found == FindActiveTurn(d, sel, obs)
           active == IF found # NoTurn THEN found ELSE SummaryActiveTurn(d, t, summaries)
<1>1. t \in Thread /\ turns \in Turns /\ observed \in [Thread -> Maybe]
  BY DEF DetailReturns, Typed, ViewTypeOK, Maybe
<1>2. d \in Details /\ Sound(d) /\ d.thread = t /\ d # NoDetail /\ d.turns = turns
  BY <1>1, DetailType
<1>3. /\ threadDetail' = d
      /\ observed' = Pruned(d, selectedTurnId, obs)
      /\ IF active = NoTurn THEN CloseTurnStream
         ELSE IF active # sel THEN OpenTurnStream(active)
         ELSE UNCHANGED streamVars
  BY Zenon DEF DetailReturns
<1>4. ReadDetail = d
  BY DEF ReadDetail
<1>5. /\ shown = IF Running(turns) # {} THEN d.active
                 ELSE IF obs[t] # NoTurn /\ turns[obs[t]] # "ended" THEN obs[t] ELSE NoTurn
      /\ found = shown
  <2> HIDE DEF obs, t, turns
  <2>1. \A s : FindActiveTurn(d, s, obs) =
             IF Running(turns) # {} THEN d.active
             ELSE IF obs[t] # NoTurn /\ turns[obs[t]] # "ended" THEN obs[t] ELSE NoTurn
    BY <1>1, FoundInRead
  <2> HIDE DEF d
  <2> QED BY <2>1
<1>6. Running(turns) # {} => d.active \in Turn /\ turns[d.active] = "running"
  <2>1. FromPointer(d) <=> Running(turns) # {}
    BY <1>1, DetailType
  <2> HIDE DEF d, t, turns
  <2> QED BY <1>2, <2>1 DEF FromPointer, Sound, Details, Maybe
<1>7. SummaryActiveTurn(d, t, summaries) # NoTurn =>
         /\ SummaryActiveTurn(d, t, summaries) \in Turn
         /\ summaries[SummaryActiveTurn(d, t, summaries)] = "running"
  <2> HIDE DEF d, t
  <2> QED BY Summarized
<1> HIDE DEF d, t, turns, shown, found, sel
<1>8. /\ obs \in [Thread -> Maybe]
      /\ \A s \in Thread :
            \/ obs[s] \in {observed[s], NoTurn}
            \/ s = t /\ obs[s] = d.active /\ d.active # NoTurn
  <2>1. obs \in {observed, [observed EXCEPT ![t] = d.active], [observed EXCEPT ![t] = NoTurn]}
        /\ (obs = [observed EXCEPT ![t] = d.active] =>
             d.active # NoTurn \/ obs = observed \/ obs = [observed EXCEPT ![t] = NoTurn])
    BY <1>2 DEF Reconciled, Remember, Forget
  <2>2. d.active \in Maybe /\ NoTurn \in Maybe
    BY <1>2 DEF Details, Maybe
  <2> HIDE DEF obs
  <2> QED
    BY <1>1, <2>1, <2>2
<1>9. d.active # NoTurn => turns[d.active] = "running"
  BY <1>2 DEF Sound
<1>10. active # NoTurn => turns[active] = "running" \/ active = observed[t]
  \/ summaries[active] = "running"
  BY <1>1, <1>5, <1>6, <1>7, <1>8, <1>9
<1>11. active \in Maybe
  BY <1>1, <1>5, <1>6, <1>7, <1>8 DEF Maybe
<1>12. Running(turns) # {} \/ (obs[t] # NoTurn /\ turns[obs[t]] # "ended") =>
  active = sel /\ active # NoTurn
  BY <1>5, <1>6, Numbers DEF sel
<1> HIDE DEF active, obs
<1>13. observed' = obs \/ observed' = [obs EXCEPT ![t] = NoTurn]
  BY <1>2, <1>3 DEF Pruned
<1>14. /\ observed' \in [Thread -> Maybe]
       /\ \A s \in Thread :
             observed'[s] \in {observed[s], NoTurn} \/ (s = t /\ turns[observed'[s]] = "running")
  BY <1>8, <1>9, <1>13 DEF Maybe
<1>15. \/ CloseTurnStream
       \/ active # NoTurn /\ OpenTurnStream(active)
       \/ UNCHANGED streamVars
  BY <1>3
<1>16. Running(turns) # {} \/ (obs[t] # NoTurn /\ turns[obs[t]] # "ended") => UNCHANGED streamVars
  BY <1>3, <1>12
<1> QED
  BY <1>3, <1>4, <1>10, <1>11, <1>14, <1>15, <1>16 DEF t, turns, obs

LEMMA OpenedChanges ==
    ASSUME Typed, [ViewNext]_viewVars, NEW v \in Turn, Opened(v)'
    PROVE  \/ Opened(v)
           \/ SendReturns /\ v = sending.turn
           \/ DetailReturns /\ (\/ detailRequest.turns[v] = "running"
                                \/ \E t \in Thread : observed[t] = v
                                \/ summaries[v] = "running")
<1>1. v # NoTurn /\ NoStream.turn = NoTurn
  BY Numbers DEF NoStream
<1>2. \A x \in DroppedStream : x = ws.turn
  BY DEF DroppedStream
<1>3. ASSUME CloseTurnStream PROVE Opened(v)
  BY <1>1, <1>2, <1>3 DEF CloseTurnStream, ClosedStream, Opened
<1>4. ASSUME NEW u, OpenTurnStream(u) PROVE Opened(v) \/ v = u
  BY <1>1, <1>2, <1>4 DEF OpenTurnStream, Opened
<1>5. \A u : StreamClosed(u) => reconnectTimer' \in {reconnectTimer, u, NoTurn}
  BY DEF StreamClosed, ScheduleReconnect
<1>6. CASE UNCHANGED <<ws, closing, reconnectTimer>>
  BY <1>6 DEF Opened
<1>7. ASSUME NEW t \in Thread, OpenThread(t) PROVE Opened(v)
  BY <1>3, <1>7 DEF OpenThread
<1>8. ASSUME SendReturns PROVE Opened(v) \/ v = sending.turn
  BY <1>4, <1>8 DEF SendReturns
<1>9. ASSUME SocketOpens PROVE Opened(v)
  <2>1. ws'.turn = ws.turn /\ closing' = closing /\ reconnectTimer' = NoTurn
    BY <1>9 DEF SocketOpens, Typed, ViewTypeOK
  <2> QED BY <1>1, <2>1 DEF Opened
<1>10. ASSUME ReconnectFires PROVE Opened(v)
  <2>1. CASE OpenTurnStream(reconnectTimer)
    BY <1>4, <2>1 DEF Opened
  <2>2. CASE reconnectTimer' = NoTurn /\ UNCHANGED <<ws, suppressed, closing>>
    BY <1>1, <2>2 DEF Opened
  <2> QED
    BY <1>10, <2>1, <2>2 DEF ReconnectFires
<1>11. ASSUME SocketDrops PROVE Opened(v)
  <2>1. ws' = NoStream /\ closing' = closing /\ StreamClosed(ws.turn)
    BY <1>11 DEF SocketDrops
  <2> QED BY <1>1, <1>5, <2>1 DEF Opened
<1>12. ASSUME NEW u \in Turn, OldSocketCloses(u) PROVE Opened(v)
  <2>1. ws' = ws /\ closing' = closing \ {u} /\ u \in closing
    /\ (reconnectTimer' = reconnectTimer \/ StreamClosed(u))
    BY <1>12 DEF OldSocketCloses
  <2> QED BY <1>1, <1>5, <2>1 DEF Opened
<1>13. ASSUME HandleTurnEvent PROVE Opened(v)
  <2>1. ws'.turn = ws.turn
    <3>1. ws' = [ws EXCEPT !.queue = Tail(@)]
      BY <1>13, Zenon DEF HandleTurnEvent
    <3> QED BY <3>1 DEF Typed, ViewTypeOK
  <2>2. UNCHANGED <<closing, reconnectTimer>>
    BY <1>13, Zenon DEF HandleTurnEvent
  <2> QED BY <2>1, <2>2 DEF Opened
<1>14. ASSUME NEW u \in Turn, BridgeReports(u) PROVE Opened(v)
  <2>1. ws'.turn = ws.turn /\ UNCHANGED <<closing, reconnectTimer>>
    BY <1>14 DEF BridgeReports, Broadcast, Typed, ViewTypeOK
  <2> QED BY <2>1 DEF Opened
<1>15. ASSUME DetailReturns
       PROVE  \/ Opened(v)
              \/ detailRequest.turns[v] = "running"
              \/ \E t \in Thread : observed[t] = v
              \/ summaries[v] = "running"
  <2>1. CASE ~StillSelected(detailRequest.thread)
    <3>1. UNCHANGED streamVars
      BY <1>15, <2>1, Zenon DEF DetailReturns
    <3> QED BY <3>1 DEF streamVars, Opened
  <2>2. CASE StillSelected(detailRequest.thread)
    <3>1. PICK active \in Maybe :
              /\ active # NoTurn =>
                    \/ detailRequest.turns[active] = "running"
                    \/ active = observed[detailRequest.thread]
                    \/ summaries[active] = "running"
              /\ \/ CloseTurnStream
                 \/ active # NoTurn /\ OpenTurnStream(active)
                 \/ UNCHANGED streamVars
      BY <1>15, <2>2, ReadShows
    <3>2. detailRequest.thread \in Thread
      BY <1>15 DEF DetailReturns, Typed
    <3> QED
      BY <1>3, <1>4, <3>1, <3>2 DEF streamVars, Opened
  <2> QED
    BY <2>1, <2>2
<1> QED
  BY <1>6, <1>7, <1>8, <1>9, <1>10, <1>11, <1>12, <1>13, <1>14, <1>15, Touches

LEMMA EventObserves ==
    ASSUME Typed, HandleTurnEvent, NEW t \in Thread
    PROVE  LET u == ws.turn
               m == Head(ws.queue)
           IN  \/ observed'[t] = observed[t]
               \/ observed'[t] = NoTurn /\ observed[t] = u /\ m \in Overs
               \/ /\ observed'[t] = NoTurn /\ observed[t] # NoTurn
                  /\ threadDetail'.thread = t /\ threadDetail'.turns[observed[t]] = "ended"
               \/ /\ \/ observed'[t] = u
                     \/ observed'[t] = NoTurn /\ threadDetail'.turns[u] = "ended"
                  /\ \/ t = threadOf[u] /\ m \notin Overs
                     \/ t = threadDetail.thread /\ m = "turn/started"
<1> DEFINE u == ws.turn
           m == Head(ws.queue)
           d == AppliedTo(threadDetail, u, m)
           o == Tracked(u, m)
           obs == IF d = NoDetail THEN o
                  ELSE CASE m = "turn/started" -> Remember(o, d.thread, u)
                         [] m = "turn/completed" -> Forget(o, d.thread, u)
                         [] OTHER -> o
           sel == IF d = NoDetail THEN selectedTurnId
                  ELSE CASE m = "turn/started" /\ selectedTurnId = NoTurn -> u
                         [] m = "turn/completed" /\ selectedTurnId = u -> NoTurn
                         [] OTHER -> selectedTurnId
<1>1. ws.queue # <<>> /\ threadDetail' = d
  BY Zenon DEF HandleTurnEvent
<1>2. UpdateThinkingState(d, sel, obs, summaries) \/ observed' = obs
  BY Zenon DEF HandleTurnEvent
<1>3. u \in Turn /\ observed \in [Thread -> Maybe] /\ selectedTurnId \in Maybe
  /\ threadDetail \in Details
  BY <1>1 DEF Typed, ViewTypeOK, Maybe, NoStream, Details
<1>4. d \in Details /\ Sound(d) /\ d.thread = threadDetail.thread
  BY <1>3, Applied DEF Typed
<1>5. sel \in Maybe
  <2> HIDE DEF d, m
  <2> QED BY <1>3 DEF Maybe
<1>6. /\ o \in [Thread -> Maybe]
      /\ \/ o[t] = observed[t]
         \/ o[t] = NoTurn /\ observed[t] = u /\ m \in Overs
         \/ o[t] = u /\ t = threadOf[u] /\ m \notin Overs
  <2> HIDE DEF u, m
  <2> QED BY <1>3 DEF Tracked, Remember, Forget, Maybe, Overs
<1>7. \/ obs = o
      \/ m = "turn/started" /\ obs = [o EXCEPT ![d.thread] = u]
      \/ m = "turn/completed" /\ o[d.thread] = u /\ obs = [o EXCEPT ![d.thread] = NoTurn]
  <2> HIDE DEF d, u, m, o
  <2> QED BY DEF Remember, Forget
<1>8. ThreadOf(d) \in Thread \cup {NoThread}
  BY <1>4 DEF ThreadOf, Typed, ViewTypeOK, Details
<1> HIDE DEF d, obs, sel, o, m
<1>9. /\ obs \in [Thread -> Maybe]
      /\ \/ obs[t] = observed[t]
         \/ obs[t] = NoTurn /\ observed[t] = u /\ m \in Overs
         \/ /\ obs[t] = u
            /\ (t = threadOf[u] /\ m \notin Overs) \/ (t = d.thread /\ m = "turn/started")
  <2>1. CASE obs = o
    <3> HIDE DEF u
    <3> QED BY <1>6, <2>1, Zenon
  <2>2. CASE m = "turn/started" /\ obs = [o EXCEPT ![d.thread] = u]
    BY <1>3, <1>6, <2>2 DEF Maybe
  <2>3. CASE m = "turn/completed" /\ o[d.thread] = u /\ obs = [o EXCEPT ![d.thread] = NoTurn]
    <3>1. m \in Overs
      BY <2>3 DEF Overs
    <3> QED
      BY <1>3, <1>6, <2>3, <3>1 DEF Maybe
  <2> QED
    BY <1>7, <2>1, <2>2, <2>3
<1>10. \/ observed'[t] = obs[t]
       \/ observed'[t] = NoTurn /\ d.thread = t /\ obs[t] # NoTurn /\ d.turns[obs[t]] = "ended"
  <2>1. CASE UpdateThinkingState(d, sel, obs, summaries)
    BY <1>4, <1>5, <1>8, <1>9, <2>1, Thinks
  <2>2. CASE observed' = obs
    BY <2>2
  <2> QED
    BY <1>2, <2>1, <2>2
<1> QED
  BY <1>1, <1>4, <1>9, <1>10 DEF m

LEMMA ObservedChanges ==
    ASSUME Typed, [ViewNext]_viewVars, NEW t \in Thread
    PROVE  \/ observed'[t] = observed[t]
           \/ /\ observed'[t] = NoTurn /\ observed[t] # NoTurn
              /\ \/ DetailReturns
                 \/ ObservationExpires(t)
                 \/ threadDetail.thread = t /\ threadDetail.turns[observed[t]] = "ended"
           \/ SendReturns /\ t = sending.thread /\ observed'[t] = sending.turn
           \/ DetailReturns /\ t = detailRequest.thread
                /\ detailRequest.turns[observed'[t]] = "running"
           \/ HandleTurnEvent
<1>1. /\ threadDetail \in Details /\ Sound(threadDetail) /\ observed \in [Thread -> Maybe]
      /\ selectedTurnId \in Maybe /\ NoTurn \in Maybe
      /\ ThreadOf(threadDetail) \in Thread \cup {NoThread}
      /\ selectedThreadId \in Thread \cup {NoThread}
  BY DEF Typed, ViewTypeOK, Details, Maybe, ThreadOf
<1>2. ASSUME NEW list, UpdateThinkingState(threadDetail, selectedTurnId, observed, list)
      PROVE  \/ observed'[t] = observed[t]
             \/ /\ observed'[t] = NoTurn /\ observed[t] # NoTurn
                /\ threadDetail.thread = t /\ threadDetail.turns[observed[t]] = "ended"
  BY <1>1, <1>2, Thinks
<1>3. CASE UNCHANGED observed
  BY <1>3
<1>10. ASSUME SendSteer \/ ReconnectFires \/ SocketDrops \/ (\E u \in Turn : OldSocketCloses(u))
       PROVE  \/ observed'[t] = observed[t]
              \/ /\ observed'[t] = NoTurn /\ observed[t] # NoTurn
                 /\ threadDetail.thread = t /\ threadDetail.turns[observed[t]] = "ended"
  <2>1. \/ observed' = observed
        \/ \E sel : observed' = Pruned(threadDetail, sel, observed)
    <3>1. SendSteer => observed' = observed \/ observed' = Pruned(threadDetail, NoTurn, observed)
      BY DEF SendSteer
    <3>2. ReconnectFires => observed' = ObservedStill(reconnectTimer)
      BY DEF ReconnectFires
    <3>3. SocketDrops => observed' = observed \/ observed' = ObservedStill(ws.turn)
      BY DEF SocketDrops, StreamClosed
    <3>4. \A u \in Turn : OldSocketCloses(u) => observed' = observed \/ observed' = ObservedStill(u)
      BY DEF OldSocketCloses, StreamClosed
    <3> QED
      BY <1>10, <3>1, <3>2, <3>3, <3>4, ObservedStillIs, Zenon
  <2> QED
    BY <1>1, <2>1, PrunedType
<1>4. ASSUME NEW s \in Thread, OpenThread(s) PROVE observed'[t] = observed[t]
  <2>1. PICK list : UpdateThinkingState(NoDetail, NoTurn, observed, list)
    BY <1>4 DEF OpenThread
  <2>2. ThreadOf(NoDetail) = selectedThreadId /\ NoDetail.thread # t
    BY Numbers DEF ThreadOf, NoDetail
  <2> QED
    BY <1>1, <2>1, <2>2, Thinks, NoDetailType
<1>5. ASSUME NEW s \in Thread, ObservationExpires(s)
      PROVE  \/ observed'[t] = observed[t]
             \/ s = t /\ observed'[t] = NoTurn /\ observed[t] # NoTurn
  BY <1>1, <1>5 DEF ObservationExpires
<1>6. ASSUME DetailReturns
      PROVE  \/ observed'[t] = observed[t]
             \/ observed'[t] = NoTurn /\ observed[t] # NoTurn
             \/ t = detailRequest.thread /\ detailRequest.turns[observed'[t]] = "running"
  <2>1. CASE ~StillSelected(detailRequest.thread)
    BY <1>6, <2>1, Zenon DEF DetailReturns
  <2>2. CASE StillSelected(detailRequest.thread)
    BY <1>6, <2>2, ReadShows
  <2> QED
    BY <2>1, <2>2
<1>7. ASSUME DetailFails
      PROVE  \/ observed'[t] = observed[t]
             \/ /\ observed'[t] = NoTurn /\ observed[t] # NoTurn
                /\ threadDetail.thread = t /\ threadDetail.turns[observed[t]] = "ended"
  BY <1>2, <1>7 DEF DetailFails
<1>8. ASSUME ListReturns
      PROVE  \/ observed'[t] = observed[t]
             \/ /\ observed'[t] = NoTurn /\ observed[t] # NoTurn
                /\ threadDetail.thread = t /\ threadDetail.turns[observed[t]] = "ended"
  BY <1>2, <1>8 DEF ListReturns
<1>9. ASSUME SendReturns
      PROVE  observed'[t] = observed[t] \/ (t = sending.thread /\ observed'[t] = sending.turn)
  BY <1>1, <1>9 DEF SendReturns, RememberedOnSend, Remember
<1> QED
  BY <1>3, <1>4, <1>5, <1>6, <1>7, <1>8, <1>9, <1>10, Touches

LEMMA DetailChanges ==
    ASSUME Typed, [ViewNext]_viewVars
    PROVE  \/ threadDetail' = threadDetail
           \/ threadDetail' = NoDetail
           \/ /\ DetailReturns /\ detailRequest.stage = "answered"
              /\ threadDetail'.turns = detailRequest.turns
              /\ threadDetail'.thread = detailRequest.thread
           \/ HandleTurnEvent /\ threadDetail' = AppliedTo(threadDetail, ws.turn, Head(ws.queue))
<1>1. ASSUME NEW t \in Thread, OpenThread(t) PROVE threadDetail' = NoDetail
  BY <1>1 DEF OpenThread
<1>2. ASSUME DetailReturns
      PROVE  /\ detailRequest.stage = "answered"
             /\ \/ threadDetail' = threadDetail
                \/ threadDetail'.turns = detailRequest.turns
                     /\ threadDetail'.thread = detailRequest.thread
  <2>1. detailRequest.stage = "answered" /\ detailRequest.thread \in Thread
    /\ detailRequest.turns \in Turns
    BY <1>2 DEF DetailReturns, Typed, ViewTypeOK
  <2>2. threadDetail' \in {threadDetail, Detail(detailRequest.thread, detailRequest.turns)}
    BY <1>2, Zenon DEF DetailReturns
  <2> QED
    BY <2>1, <2>2, DetailType
<1>3. HandleTurnEvent => threadDetail' = AppliedTo(threadDetail, ws.turn, Head(ws.queue))
  BY Zenon DEF HandleTurnEvent
<1> QED
  BY <1>1, <1>2, <1>3, Touches

\* An event is put into the queue when it happens, or when the socket opens.
Comes(m) ==
    /\ ws.turn \in Turn /\ ws'.turn = ws.turn
    /\ \/ m = "hub/state running" /\ srv[ws.turn] # "ended"
       \/ m = "hub/state ended" /\ srv[ws.turn] = "ended"
       \/ m = "turn/started" /\ srv[ws.turn] = "starting" /\ srv'[ws.turn] = "running"
       \/ m = "turn/completed" /\ srv[ws.turn] = "running" /\ srv'[ws.turn] = "ended"

LEMMA QueueChanges ==
    ASSUME Typed, [ViewNext]_viewVars, NEW i \in DOMAIN ws'.queue
    PROVE  \/ ws'.turn = ws.turn /\ \E j \in DOMAIN ws.queue : ws'.queue[i] = ws.queue[j]
           \/ Comes(ws'.queue[i])
<1>1. /\ ws \in StreamRecords
      /\ ws.turn = NoTurn <=> ws = NoStream
      /\ srv \in [Turn -> {"absent", "starting", "running", "ended"}]
  BY DEF Typed, ViewTypeOK, Maybe
<1>2. ASSUME ws'.queue = <<>> PROVE FALSE
  BY <1>2
<1>3. NoStream.queue = <<>> /\ NoStream.stage = "none"
  BY DEF NoStream
<1>4. \A u : OpenTurnStream(u) => ws'.queue = <<>>
  BY DEF OpenTurnStream
<1>5. CloseTurnStream => ws'.queue = <<>>
  BY <1>3 DEF CloseTurnStream, ClosedStream
<1>6. CASE UNCHANGED ws
  BY <1>6
<1>7. ASSUME NEW t \in Thread, OpenThread(t) PROVE FALSE
  BY <1>2, <1>5, <1>7 DEF OpenThread
<1>8. ASSUME DetailReturns PROVE UNCHANGED ws
  <2>1. CloseTurnStream \/ (\E u : OpenTurnStream(u)) \/ UNCHANGED streamVars
    BY <1>8, Zenon DEF DetailReturns
  <2> QED
    BY <1>2, <1>4, <1>5, <2>1 DEF streamVars
<1>9. ASSUME SendReturns PROVE FALSE
  BY <1>2, <1>4, <1>9 DEF SendReturns
<1>10. ASSUME SocketOpens PROVE Comes(ws'.queue[i])
  <2> DEFINE m == IF srv[ws.turn] = "ended" THEN "hub/state ended" ELSE "hub/state running"
  <2>1. ws' = [ws EXCEPT !.stage = "open", !.queue = <<m>>]
    BY <1>10 DEF SocketOpens
  <2>2. ws.turn \in Turn
    BY <1>1, <1>3, <1>10 DEF SocketOpens, Maybe
  <2>3. ws'.turn = ws.turn /\ ws'.queue = <<m>>
    BY <1>1, <2>1
  <2>4. ws'.queue[i] = m
    <3> HIDE DEF m
    <3>1. i \in DOMAIN <<m>> /\ ws'.queue[i] = <<m>>[i]
      BY <2>3
    <3> QED
      BY <3>1
  <2> QED
    BY <2>2, <2>3, <2>4 DEF Comes
<1>11. ASSUME HandleTurnEvent
       PROVE  ws'.turn = ws.turn /\ \E j \in DOMAIN ws.queue : ws'.queue[i] = ws.queue[j]
  <2>1. ws.queue # <<>> /\ ws' = [ws EXCEPT !.queue = Tail(@)]
    BY <1>11, Zenon DEF HandleTurnEvent
  <2>2. ws'.turn = ws.turn /\ ws'.queue = Tail(ws.queue) /\ ws.queue \in Seq(Event)
    BY <1>1, <2>1
  <2>3. i + 1 \in DOMAIN ws.queue /\ Tail(ws.queue)[i] = ws.queue[i + 1]
    BY <2>1, <2>2
  <2> QED
    BY <2>2, <2>3
<1>12. ASSUME ReconnectFires PROVE UNCHANGED ws
  BY <1>2, <1>4, <1>12 DEF ReconnectFires
<1>13. ASSUME SocketDrops PROVE FALSE
  BY <1>2, <1>3, <1>13 DEF SocketDrops
<1>14. ASSUME NEW u \in Turn, BridgeReports(u)
       PROVE  \/ ws'.turn = ws.turn /\ \E j \in DOMAIN ws.queue : ws'.queue[i] = ws.queue[j]
              \/ Comes(ws'.queue[i])
  <2>1. PICK m \in Event :
           /\ Broadcast(u, m)
           /\ \/ m = "turn/started" /\ srv[u] = "starting" /\ srv'[u] = "running"
              \/ m = "turn/completed" /\ srv[u] = "running" /\ srv'[u] = "ended"
    BY <1>1, <1>14 DEF BridgeReports, Event
  <2>2. CASE ws.turn = u /\ ws.stage = "open"
    <3>1. ws'.turn = u /\ ws'.queue = Append(ws.queue, m) /\ ws.queue \in Seq(Event)
      BY <1>1, <2>1, <2>2 DEF Broadcast
    <3>2. (i \in DOMAIN ws.queue /\ ws'.queue[i] = ws.queue[i]) \/ ws'.queue[i] = m
      BY <3>1
    <3> QED
      BY <2>1, <2>2, <3>1, <3>2 DEF Comes
  <2>3. CASE ~(ws.turn = u /\ ws.stage = "open")
    BY <2>1, <2>3 DEF Broadcast
  <2> QED
    BY <2>2, <2>3
<1> QED
  BY <1>6, <1>7, <1>8, <1>9, <1>10, <1>11, <1>12, <1>13, <1>14, Touches

LEMMA StreamTurnChanges ==
    ASSUME Typed, [ViewNext]_viewVars
    PROVE  \/ ws'.turn \in {ws.turn, NoTurn}
           \/ SendReturns /\ ws'.turn = sending.turn
           \/ DetailReturns
           \/ /\ ReconnectFires /\ ws'.turn = reconnectTimer /\ reconnectTimer \in Turn
              /\ \E list : ShouldMaintainStream(reconnectTimer, list)
<1>1. /\ ws \in StreamRecords
      /\ reconnectTimer \in Maybe /\ NoStream.turn = NoTurn
  BY DEF Typed, ViewTypeOK, Maybe, NoStream
<1>2. \A u : OpenTurnStream(u) => ws'.turn = u
  BY DEF OpenTurnStream
<1>3. \A t \in Thread : OpenThread(t) => ws'.turn = NoTurn
  BY <1>1 DEF OpenThread, CloseTurnStream, ClosedStream
<1>4. SocketOpens => ws'.turn = ws.turn
  BY <1>1 DEF SocketOpens
<1>5. HandleTurnEvent => ws'.turn = ws.turn
  <2>1. HandleTurnEvent => ws' = [ws EXCEPT !.queue = Tail(@)]
    BY Zenon DEF HandleTurnEvent
  <2> QED
    BY <1>1, <2>1
<1>6. SocketDrops => ws'.turn = NoTurn
  BY <1>1 DEF SocketDrops
<1>7. \A u \in Turn : BridgeReports(u) => ws'.turn = ws.turn
  BY <1>1 DEF BridgeReports, Broadcast
<1>8. SendReturns => ws'.turn = sending.turn
  BY <1>2 DEF SendReturns
<1>9. ReconnectFires =>
         \/ ws' = ws
         \/ /\ ws'.turn = reconnectTimer /\ reconnectTimer \in Turn
            /\ \E list : ShouldMaintainStream(reconnectTimer, list)
  BY <1>1, <1>2 DEF ReconnectFires, Maybe
<1> QED
  BY <1>3, <1>4, <1>5, <1>6, <1>7, <1>8, <1>9, Touches

-----------------------------------------------------------------------------
(* The parts.                                                              *)

LEMMA TypesNow ==
    ASSUME Typed
    PROVE  /\ srv \in [Turn -> {"absent", "starting", "running", "ended"}]
           /\ threadOf \in [Turn -> Thread \cup {NoThread}]
           /\ observed \in [Thread -> Maybe]
           /\ threadDetail \in Details /\ Sound(threadDetail)
           /\ ws.turn \in Maybe /\ ws.queue \in Seq(Event)
           /\ ws.queue # <<>> => ws.turn \in Turn
           /\ sending.stage = "answered" => sending.turn \in Turn
           /\ detailRequest.stage = "answered" => detailRequest.thread \in Thread
           /\ detailRequest.turns \in Turns
BY DEF Typed, ViewTypeOK, Maybe, Details, NoStream

\* The event at the head of the queue is one of those that were told.
LEMMA HeadTold ==
    ASSUME Typed, Happened, HandleTurnEvent
    PROVE  /\ ws.turn \in Turn /\ ws.queue # <<>>
           /\ 1 \in DOMAIN ws.queue /\ Head(ws.queue) = ws.queue[1]
           /\ Told(ws.turn, Head(ws.queue))
<1>1. ws.queue # <<>>
  BY Zenon DEF HandleTurnEvent
<1>2. ws.turn \in Turn /\ ws.queue \in Seq(Event)
  BY <1>1, TypesNow
<1>3. 1 \in DOMAIN ws.queue /\ Head(ws.queue) = ws.queue[1]
  BY <1>1, <1>2
<1> QED
  BY <1>1, <1>2, <1>3 DEF Happened

LEMMA EventKeepsThread ==
    ASSUME Typed, HandleTurnEvent
    PROVE  threadDetail'.thread = threadDetail.thread
           /\ (threadDetail = NoDetail => threadDetail' = NoDetail)
<1>1. ws.queue # <<>> /\ threadDetail' = AppliedTo(threadDetail, ws.turn, Head(ws.queue))
  BY Zenon DEF HandleTurnEvent
<1>2. ws.turn \in Turn
  BY <1>1, TypesNow
<1> QED
  BY <1>1, <1>2, Applied, TypesNow

LEMMA HeardOfStep == Typed /\ Facts /\ [ViewNext]_viewVars => HeardOf'
<1> SUFFICES ASSUME Typed, Facts, [ViewNext]_viewVars PROVE HeardOf'
  OBVIOUS
<1> USE DEF Facts
<1>1. \A u \in Turn : srv[u] # "absent" => srv'[u] # "absent"
  BY GoesForward DEF Forward
<1>2. NoTurn \notin Turn /\ \A u \in Turn : Nothing[u] = "absent"
  BY Numbers, NothingType
<1>3. SendReturns => sending.turn \in Turn /\ srv[sending.turn] # "absent"
  <2>1. SendReturns => sending.stage = "answered"
    BY DEF SendReturns
  <2> QED
    BY <2>1, TypesNow DEF Answers
<1>4. ASSUME NEW u \in Turn, Opened(u)' PROVE srv'[u] # "absent"
  BY <1>1, <1>2, <1>3, <1>4, OpenedChanges DEF HeardOf
<1>5. ASSUME NEW t \in Thread, observed'[t] # NoTurn PROVE srv'[observed'[t]] # "absent"
  <2>1. CASE observed'[t] = observed[t]
    BY <1>1, <1>5, <2>1, TypesNow DEF HeardOf, Maybe
  <2>2. CASE SendReturns /\ observed'[t] = sending.turn
    BY <1>1, <1>3, <2>2
  <2>3. CASE DetailReturns /\ detailRequest.turns[observed'[t]] = "running"
    <3>1. observed'[t] \in Turn
      BY <1>5, TypesStep, TypesNow DEF Typed, ViewTypeOK
    <3> QED
      BY <1>1, <2>3, <3>1 DEF HeardOf
  <2>4. CASE HandleTurnEvent
    <3>1. srv[ws.turn] # "absent" /\ ws.turn \in Turn
      BY <2>4, HeadTold DEF HeardOf, Opened
    <3>2. observed'[t] \in {observed[t], NoTurn, ws.turn}
      BY <2>4, EventObserves
    <3> QED
      BY <1>1, <1>5, <2>1, <3>1, <3>2
  <2> QED
    BY <1>5, <2>1, <2>2, <2>3, <2>4, ObservedChanges
<1>6. ASSUME NEW u \in Turn, summaries'[u] # "absent" PROVE srv'[u] # "absent"
  <2>1. CASE UNCHANGED summaries
    BY <1>1, <1>6, <2>1 DEF HeardOf
  <2>2. CASE ListReturns \/ ThreadsReturn
    <3>1. PICK s \in Listed : summaries' = s
      BY <2>2, Zenon DEF ListReturns, ThreadsReturn
    <3>2. s[u] = Seen[u] \/ s[u] = "absent" \/ Seen[u] = "ended"
      BY <3>1 DEF Listed
    <3>3. Seen[u] # "absent"
      BY <1>6, <3>1, <3>2
    <3> QED
      BY <1>1, <3>3 DEF Seen
  <2>3. CASE ThreadsFail
    BY <1>2, <1>6, <2>3 DEF ThreadsFail
  <2> QED
    BY <2>1, <2>2, <2>3, Touches
<1>7. ASSUME NEW u \in Turn, threadDetail'.turns[u] # "absent" PROVE srv'[u] # "absent"
  <2>1. CASE threadDetail' = threadDetail
    BY <1>1, <1>7, <2>1 DEF HeardOf
  <2>2. CASE threadDetail' = NoDetail
    BY <1>2, <1>7, <2>2 DEF NoDetail
  <2>3. CASE threadDetail'.turns = detailRequest.turns
    BY <1>1, <1>7, <2>3 DEF HeardOf
  <2>4. CASE HandleTurnEvent /\ threadDetail' = AppliedTo(threadDetail, ws.turn, Head(ws.queue))
    <3>1. srv[ws.turn] # "absent" /\ ws.turn \in Turn
      BY <2>4, HeadTold DEF HeardOf, Opened
    <3>2. u # ws.turn => threadDetail'.turns[u] = threadDetail.turns[u]
      BY <2>4, <3>1, Applied, TypesNow
    <3> QED
      BY <1>1, <1>7, <3>1, <3>2 DEF HeardOf
  <2> QED
    BY <2>1, <2>2, <2>3, <2>4, DetailChanges
<1>8. ASSUME NEW u \in Turn, detailRequest'.turns[u] # "absent" PROVE srv'[u] # "absent"
  <2>1. CASE detailRequest' = detailRequest
    BY <1>1, <1>8, <2>1 DEF HeardOf
  <2>2. CASE detailRequest'.turns = Nothing
    BY <1>2, <1>8, <2>2
  <2>3. CASE DetailAnswered
    <3>1. detailRequest'.turns = TurnsOf(detailRequest.thread)
      BY <2>3 DEF DetailAnswered, Typed, ViewTypeOK
    <3>2. Seen[u] # "absent"
      BY <1>8, <3>1 DEF TurnsOf
    <3> QED
      BY <1>1, <3>2 DEF Seen
  <2> QED
    BY <2>1, <2>2, <2>3, ReadChanges
<1> QED
  BY <1>4, <1>5, <1>6, <1>7, <1>8 DEF HeardOf

LEMMA AnswersStep == Typed /\ Facts /\ [ViewNext]_viewVars => Answers'
<1> SUFFICES ASSUME Typed, Facts, [ViewNext]_viewVars PROVE Answers'
  OBVIOUS
<1> USE DEF Facts
<1>1. Forward
  BY GoesForward
<1>2. ASSUME sending'.stage = "answered"
      PROVE  srv'[sending'.turn] # "absent" /\ threadOf'[sending'.turn] = sending'.thread
  <2>1. CASE sending' = sending
    BY <1>1, <1>2, <2>1, TypesNow DEF Answers, Forward
  <2>2. ASSUME NEW u \in Turn, NEW t \in Thread, BridgeStarts(u, t), sending.thread = t,
               sending' = [sending EXCEPT !.stage = "answered", !.turn = u]
        PROVE  srv'[sending'.turn] # "absent" /\ threadOf'[sending'.turn] = sending'.thread
    <3>1. sending'.turn = u /\ sending'.thread = t
      BY <2>2 DEF Typed, ViewTypeOK
    <3> QED
      BY <2>2, <3>1, TypesNow DEF BridgeStarts, Begin
  <2>3. sending' # NoSend /\ \A t : sending' # [stage |-> "sent", thread |-> t, turn |-> NoTurn]
    BY <1>2 DEF NoSend
  <2> QED
    BY <2>1, <2>2, <2>3, SendingChanges, Zenon
<1>3. ASSUME detailRequest'.stage = "answered", NEW u \in Turn, detailRequest'.turns[u] # "absent"
      PROVE  /\ threadOf'[u] = detailRequest'.thread
             /\ detailRequest'.turns[u] = "ended" => srv'[u] = "ended"
  <2>1. CASE detailRequest' = detailRequest
    BY <1>1, <1>3, <2>1 DEF Answers, HeardOf, Forward
  <2>2. CASE DetailAnswered
    <3>1. detailRequest'.turns = TurnsOf(detailRequest.thread)
      /\ detailRequest'.thread = detailRequest.thread
      BY <2>2 DEF DetailAnswered, Typed, ViewTypeOK
    <3>2. threadOf[u] = detailRequest.thread /\ detailRequest'.turns[u] = Seen[u]
      BY <1>3, <3>1 DEF TurnsOf
    <3>3. Seen[u] = "ended" => srv[u] = "ended"
      BY DEF Seen
    <3>4. srv[u] # "absent"
      BY <1>3, <3>2 DEF Seen
    <3> QED
      BY <1>1, <3>1, <3>2, <3>3, <3>4 DEF Forward
  <2> QED
    BY <1>3, <2>1, <2>2, ReadChanges
<1> QED
  BY <1>2, <1>3 DEF Answers

LEMMA HappenedStep == Typed /\ Facts /\ [ViewNext]_viewVars => Happened'
<1> SUFFICES ASSUME Typed, Facts, [ViewNext]_viewVars PROVE Happened'
  OBVIOUS
<1> USE DEF Facts
<1>1. Forward
  BY GoesForward
<1>2. ASSUME NEW u \in Turn, threadDetail'.turns[u] = "ended" PROVE srv'[u] = "ended"
  <2>1. CASE threadDetail' = threadDetail
    BY <1>1, <1>2, <2>1 DEF Happened, Forward
  <2>2. CASE threadDetail' = NoDetail
    BY <1>2, <2>2, NothingType DEF NoDetail
  <2>3. CASE detailRequest.stage = "answered" /\ threadDetail'.turns = detailRequest.turns
    BY <1>1, <1>2, <2>3 DEF Answers, Forward
  <2>4. CASE HandleTurnEvent /\ threadDetail' = AppliedTo(threadDetail, ws.turn, Head(ws.queue))
    <3>1. ws.turn \in Turn /\ Told(ws.turn, Head(ws.queue))
      BY <2>4, HeadTold
    <3>2. threadDetail.turns[u] = "ended" \/ (u = ws.turn /\ Head(ws.queue) \in Overs)
      BY <1>2, <2>4, <3>1, Applied, TypesNow
    <3> QED
      BY <1>1, <3>1, <3>2 DEF Happened, Told, Forward
  <2> QED
    BY <2>1, <2>2, <2>3, <2>4, DetailChanges
<1>3. ASSUME NEW i \in DOMAIN ws'.queue 
      PROVE  /\ ws'.queue[i] \in Overs => srv'[ws'.turn] = "ended"
             /\ ws'.queue[i] = "turn/started" => srv'[ws'.turn] \in {"running", "ended"}
  <2>1. ws'.turn \in Turn
    <3>1. Typed'
      BY TypesStep
    <3>2. ws'.queue \in Seq(Event) /\ (ws'.queue # <<>> => ws'.turn \in Turn)
      BY <3>1, TypesNow DEF Typed, ViewTypeOK, NoStream
    <3> QED
      BY <1>3, <3>2
  <2>2. CASE ws'.turn = ws.turn /\ \E j \in DOMAIN ws.queue : ws'.queue[i] = ws.queue[j]
    <3>1. PICK j \in DOMAIN ws.queue : ws'.queue[i] = ws.queue[j]
      BY <2>2
    <3>2. Told(ws.turn, ws.queue[j])
      BY DEF Happened
    <3> QED
      BY <1>1, <2>1, <2>2, <3>1, <3>2 DEF Told, Forward, Begun
  <2>3. CASE Comes(ws'.queue[i])
    BY <1>1, <2>3 DEF Comes, Told, Overs, Begun, Forward
  <2> QED
    BY <2>2, <2>3, QueueChanges
<1> QED
  BY <1>2, <1>3 DEF Happened, Told, Begun

LEMMA StrangersStep == Typed /\ Facts /\ [ViewNext]_viewVars => Strangers'
<1> SUFFICES ASSUME Typed, Facts, [ViewNext]_viewVars PROVE Strangers'
  OBVIOUS
<1> USE DEF Facts
<1>1. Forward
  BY GoesForward
<1>2. \A u \in Turn : srv[u] # "absent" => threadOf'[u] = threadOf[u]
  BY <1>1 DEF Forward
<1>3. ASSUME NEW t \in Thread, observed'[t] # NoTurn, threadOf'[observed'[t]] # t
      PROVE  srv'[observed'[t]] \in {"running", "ended"}
  <2>1. CASE observed'[t] = observed[t]
    <3>1. observed[t] \in Turn /\ srv[observed[t]] # "absent"
      BY <1>3, <2>1, TypesNow DEF HeardOf, Maybe
    <3>2. Begun(observed[t])
      BY <1>2, <1>3, <2>1, <3>1 DEF Strangers
    <3> QED
      BY <1>1, <2>1, <3>1, <3>2 DEF Forward, Begun
  <2>2. CASE SendReturns /\ t = sending.thread /\ observed'[t] = sending.turn
    <3>1. sending.stage = "answered"
      BY <2>2 DEF SendReturns
    <3> QED
      BY <1>2, <1>3, <2>2, <3>1, TypesNow DEF Answers
  <2>3. CASE DetailReturns /\ t = detailRequest.thread
    /\ detailRequest.turns[observed'[t]] = "running"
    <3>1. observed'[t] \in Turn
      BY <1>3, TypesStep DEF Typed, ViewTypeOK
    <3>2. detailRequest.stage = "answered"
      BY <2>3 DEF DetailReturns
    <3> QED
      BY <1>2, <1>3, <2>3, <3>1, <3>2 DEF Answers, HeardOf
  <2>4. CASE HandleTurnEvent
    <3>1. ws.turn \in Turn /\ Told(ws.turn, Head(ws.queue)) /\ srv[ws.turn] # "absent"
      BY <2>4, HeadTold DEF HeardOf, Opened
    <3>2. CASE observed'[t] = ws.turn /\ observed'[t] # observed[t]
      <4>1. threadOf[ws.turn] # t
        BY <1>2, <1>3, <3>1, <3>2
      <4>2. Head(ws.queue) = "turn/started"
        BY <1>3, <2>4, <3>2, <4>1, EventObserves
      <4> QED
        BY <1>1, <3>1, <3>2, <4>2 DEF Told, Forward, Begun
    <3>3. observed'[t] \in {observed[t], ws.turn}
      BY <1>3, <2>4, EventObserves
    <3> QED
      BY <2>1, <3>2, <3>3
  <2> QED
    BY <1>3, <2>1, <2>2, <2>3, <2>4, ObservedChanges
<1>4. ASSUME NEW u \in Turn, threadDetail'.turns[u] # "absent",
             threadOf'[u] # threadDetail'.thread
      PROVE  srv'[u] \in {"running", "ended"}
  <2>1. CASE threadDetail' = threadDetail
    BY <1>1, <1>2, <1>4, <2>1 DEF Strangers, HeardOf, Forward, Begun
  <2>2. CASE threadDetail' = NoDetail
    BY <1>4, <2>2, NothingType DEF NoDetail
  <2>3. CASE /\ detailRequest.stage = "answered"
             /\ threadDetail'.turns = detailRequest.turns
             /\ threadDetail'.thread = detailRequest.thread
    BY <1>2, <1>4, <2>3 DEF Answers, HeardOf
  <2>4. CASE HandleTurnEvent /\ threadDetail' = AppliedTo(threadDetail, ws.turn, Head(ws.queue))
    <3>1. ws.turn \in Turn /\ Told(ws.turn, Head(ws.queue))
      BY <2>4, HeadTold
    <3>2. /\ threadDetail'.thread = threadDetail.thread
          /\ threadDetail.turns[u] # "absent" \/ (u = ws.turn /\ Head(ws.queue) = "turn/started")
      BY <1>4, <2>4, <3>1, Applied, TypesNow
    <3>3. CASE threadDetail.turns[u] # "absent"
      BY <1>1, <1>2, <1>4, <3>2, <3>3 DEF Strangers, HeardOf, Forward, Begun
    <3>4. CASE u = ws.turn /\ Head(ws.queue) = "turn/started"
      BY <1>1, <3>1, <3>4 DEF Told, Forward, Begun
    <3> QED
      BY <3>2, <3>3, <3>4
  <2> QED
    BY <2>1, <2>2, <2>3, <2>4, DetailChanges
<1> QED
  BY <1>3, <1>4 DEF Strangers, Begun

\* While a live turn is remembered, findActiveTurn finds one.
LEMMA FoundSeen ==
    ASSUME NEW d \in Details, Sound(d), NEW sel, NEW obs, d.thread \in Thread,
           obs[d.thread] \in Turn, d.turns[obs[d.thread]] # "ended"
    PROVE  FindActiveTurn(d, sel, obs) # NoTurn
<1> DEFINE r == Running(d.turns)
<1>1. r \in SUBSET Turn /\ (r # {} => Max(r) \in r)
  BY Greatest DEF Running
<1>2. ThreadOf(d) = d.thread /\ ThreadOf(d) # NoThread
  BY Numbers DEF ThreadOf, NoDetail
<1>3. obs[d.thread] # NoTurn /\ \A v \in Turn : v # NoTurn
  BY Numbers
<1>4. CASE FromPointer(d)
  BY <1>4 DEF FindActiveTurn, FromPointer
<1>5. CASE ~FromPointer(d) /\ r # {}
  BY <1>1, <1>3, <1>5 DEF FindActiveTurn
<1>6. CASE ~FromPointer(d) /\ r = {}
  BY <1>2, <1>3, <1>6 DEF FindActiveTurn
<1> QED
  BY <1>4, <1>5, <1>6

LEMMA EventThinks ==
    ASSUME Typed, Typed', HandleTurnEvent, thinking, NEW t \in Thread, threadDetail'.thread = t,
           observed'[t] \in Turn, threadDetail'.turns[observed'[t]] # "ended"
    PROVE  thinking'
<1>1. CASE thinking' = thinking
  BY <1>1
<1>2. ASSUME NEW sel, NEW obs, UpdateThinkingState(threadDetail', sel, obs, summaries)
      PROVE  thinking'
  <2>1. obs[t] = observed'[t]
    <3>1. observed' = Pruned(threadDetail', sel, obs)
      BY <1>2 DEF UpdateThinkingState
    <3>2. observed' = obs \/ observed' = [obs EXCEPT ![t] = NoTurn]
      BY <3>1, Zenon DEF Pruned
    <3>3. observed' \in [Thread -> Maybe] /\ observed'[t] # NoTurn
      BY Numbers DEF Typed, ViewTypeOK, Maybe
    <3> QED
      BY <3>2, <3>3
  <2>2. threadDetail' \in Details /\ Sound(threadDetail')
    BY DEF Typed, ViewTypeOK, Details, Maybe, Sound
  <2>3. FindActiveTurn(threadDetail', sel, obs) # NoTurn
    BY <2>1, <2>2, FoundSeen
  <2>4. thinking' = (ThinkingTurn(threadDetail', sel, obs, summaries) # NoTurn)
    BY <1>2 DEF UpdateThinkingState
  <2> QED
    BY <2>3, <2>4 DEF ThinkingTurn
<1>3. \/ thinking' = thinking
      \/ \E sel, obs : UpdateThinkingState(threadDetail', sel, obs, summaries)
  BY Zenon DEF HandleTurnEvent
<1> QED
  BY <1>1, <1>2, <1>3

LEMMA NotForgottenStep == LagInv /\ [ViewNext]_viewVars => NotForgotten'
<1> SUFFICES ASSUME LagInv, [ViewNext]_viewVars,
                    NEW u \in Turn, Lagging(u)', Opened(u)'
             PROVE  Remembered(u)'
  BY DEF NotForgotten
<1> DEFINE t == threadOf[u]
<1> USE DEF LagInv, Facts
<1>1. Forward /\ Typed'
  BY GoesForward, TypesStep
<1>2. u # NoTurn
  BY Numbers
<1>3. detailRequest' = detailRequest /\ ~DetailReturns /\ ~DetailFails
  <2>1. ~DetailAnswered
    <3> SUFFICES ASSUME DetailAnswered PROVE FALSE
      OBVIOUS
    <3>1. /\ detailRequest'.turns = TurnsOf(detailRequest.thread)
          /\ detailRequest'.thread = detailRequest.thread
          /\ UNCHANGED <<srv, threadOf>>
      BY DEF DetailAnswered, Typed, ViewTypeOK, serverVars
    <3>2. Alive(u) /\ threadOf[u] = detailRequest.thread /\ detailRequest'.turns[u] = "absent"
      BY <3>1 DEF Lagging, Alive
    <3> QED
      BY <3>1, <3>2 DEF TurnsOf, Seen, Alive
  <2> QED
    BY <2>1, ReadChanges DEF Lagging
<1>4. ASSUME SendReturns
      PROVE  /\ sending.stage = "answered" /\ sending.turn \in Turn
             /\ srv[sending.turn] # "absent" /\ threadOf[sending.turn] = sending.thread
             /\ sending # NoSend
  <2>1. sending.stage = "answered"
    BY <1>4 DEF SendReturns
  <2> QED
    BY <2>1, TypesNow DEF Answers, NoSend
<1>5. Opened(u) \/ (SendReturns /\ u = sending.turn)
  BY <1>3, OpenedChanges
<1>6. srv[u] # "absent"
  BY <1>4, <1>5 DEF HeardOf
<1>7. Alive(u) /\ threadOf'[u] = t /\ Lagging(u)
  <2>1. Alive(u) /\ threadOf'[u] = t
    BY <1>1, <1>6 DEF Forward, Lagging
  <2> QED
    BY <1>3, <2>1 DEF Lagging
<1>8. /\ t \in Thread /\ t # NoThread
      /\ detailRequest.stage = "answered" /\ detailRequest.thread = t
           /\ detailRequest.turns[u] = "absent"
  BY <1>7, TypesNow, Numbers DEF Lagging
<1>9. CASE SendReturns /\ u = sending.turn
  <2>1. observed'[t] = u
    BY <1>4, <1>8, <1>9, TypesNow DEF SendReturns, RememberedOnSend, Remember
  <2>2. sending' = NoSend /\ ws'.turn = u /\ thinking'
    BY <1>9 DEF SendReturns, OpenTurnStream
  <2> QED
    BY <1>7, <2>1, <2>2 DEF Remembered
<1>10. CASE Opened(u)
  <2>1. Remembered(u)
    BY <1>7, <1>10 DEF NotForgotten
  <2>2. observed[t] = u
    BY <2>1 DEF Remembered
  <2>3. /\ ws.turn \in Maybe
        /\ ws.turn # NoTurn => srv[ws.turn] # "absent" /\ threadOf'[ws.turn] = threadOf[ws.turn]
    BY <1>1, TypesNow DEF HeardOf, Opened, Forward, Maybe
  <2>4. threadDetail'.thread = t => threadDetail.thread = t /\ threadDetail # NoDetail
    <3>1. NoDetail.thread = NoThread
      BY DEF NoDetail
    <3>2. HandleTurnEvent /\ threadDetail' = AppliedTo(threadDetail, ws.turn, Head(ws.queue))
             => threadDetail'.thread = threadDetail.thread
      BY HeadTold, Applied, TypesNow
    <3> QED
      BY <1>3, <1>8, <3>1, <3>2, DetailChanges
  <2>5. SendMessage => threadDetail.thread # t
    BY <2>1 DEF Remembered, SendMessage
  <2>6. observed'[t] = u
    <3>1. ASSUME ObservationExpires(t) PROVE FALSE
      <4>1. detailRequest.turns = TurnsOf(t)
        BY <1>8, <3>1 DEF ObservationExpires
      <4> QED
        BY <1>7, <1>8, <4>1 DEF TurnsOf, Seen, Alive
    <3>2. threadDetail.turns[u] # "ended" /\ threadDetail'.turns[u] # "ended"
      <4>1. Happened'
        BY HappenedStep
      <4> QED
        BY <1>7, <4>1 DEF Happened, Alive, Lagging
    <3>3. ASSUME SendReturns PROVE sending.thread # t
      BY <1>4, <2>1, <3>3 DEF Remembered
    <3>4. CASE HandleTurnEvent
      <4>1. /\ ws.turn \in Turn /\ Told(ws.turn, Head(ws.queue))
            /\ \E i \in DOMAIN ws.queue : ws.queue[i] = Head(ws.queue)
        BY <3>4, HeadTold
      <4>2. ws.turn = u => Head(ws.queue) \notin Overs
        BY <1>7, <4>1 DEF Told, Alive
      <4>3. ASSUME (t = threadOf[ws.turn] /\ Head(ws.queue) \notin Overs)
                      \/ (t = threadDetail.thread /\ Head(ws.queue) = "turn/started")
            PROVE  ws.turn = u
        <5>1. Head(ws.queue) \notin Overs
          BY <4>3 DEF Overs
        <5>2. ws.turn # u => threadOf[ws.turn] # t
          BY <2>1, <4>1, <5>1, Numbers DEF Remembered
        <5>3. ws.turn # u => ~(t = threadDetail.thread /\ Head(ws.queue) = "turn/started")
          BY <2>1, <4>1, <5>2, Numbers DEF Remembered
        <5> QED
          BY <4>3, <5>2, <5>3
      <4> QED
        BY <1>8, <2>2, <3>2, <3>4, <4>2, <4>3, EventObserves
    <3> QED
      BY <1>3, <1>8, <2>2, <3>1, <3>2, <3>3, <3>4, ObservedChanges
  <2>7. sending' # NoSend =>
           IF sending'.thread = t THEN sending'.stage # "answered" ELSE threadDetail'.thread # t
    <3>1. CASE sending' \in {sending, NoSend}
      BY <2>1, <2>4, <3>1 DEF Remembered
    <3>2. CASE SendMessage /\ sending' = [stage |-> "sent", thread |-> selectedThreadId, turn |-> NoTurn]
      BY <2>4, <2>5, <3>2
    <3>3. ASSUME NEW v \in Turn, NEW s \in Thread, BridgeStarts(v, s),
                 sending.stage = "sent", sending.thread = s,
                 sending' = [sending EXCEPT !.stage = "answered", !.turn = v]
          PROVE  sending'.thread # t /\ threadDetail'.thread # t
      <4>1. s # t
        BY <1>7, <3>3 DEF BridgeStarts, Begin, Busy, Seen, Alive
      <4>2. sending # NoSend /\ sending'.thread = s
        BY <3>3 DEF NoSend, Typed, ViewTypeOK
      <4> QED
        BY <2>1, <2>4, <3>3, <4>1, <4>2 DEF Remembered
    <3> QED
      BY <3>1, <3>2, <3>3, SendingChanges
  <2>8. ASSUME ws'.turn \notin {NoTurn, u}, threadOf'[ws'.turn] = t, NEW i \in DOMAIN ws'.queue
        PROVE  ws'.queue[i] \in Overs
    <3>1. CASE ws'.turn = ws.turn /\ \E j \in DOMAIN ws.queue : ws'.queue[i] = ws.queue[j]
      BY <2>1, <2>3, <2>8, <3>1 DEF Remembered
    <3>2. CASE Comes(ws'.queue[i])
      <4>1. ws.turn \in Turn /\ ws.turn # u /\ threadOf[ws.turn] = t
        BY <2>3, <2>8, <3>2 DEF Comes
      <4>2. ~Alive(ws.turn)
        BY <1>7, <4>1 DEF OneAlive
      <4>3. srv[ws.turn] = "ended"
        BY <2>3, <4>1, <4>2, TypesNow, Numbers DEF Alive
      <4> QED
        BY <3>2, <4>3 DEF Comes, Overs
    <3> QED
      BY <3>1, <3>2, QueueChanges
  <2>9. ASSUME ws'.turn # NoTurn, threadOf'[ws'.turn] # t, threadDetail'.thread = t
        PROVE  /\ srv'[ws'.turn] # "starting"
               /\ \A i \in DOMAIN ws'.queue : ws'.queue[i] # "turn/started"
    <3>1. CASE ws'.turn = ws.turn
      <4>1. /\ ws.turn \in Turn /\ srv[ws.turn] # "starting"
            /\ \A j \in DOMAIN ws.queue : ws.queue[j] # "turn/started"
        BY <2>1, <2>3, <2>4, <2>9, <3>1 DEF Remembered, Maybe
      <4>2. Begun(ws.turn)
        BY <2>3, <2>9, <3>1, <4>1, TypesNow DEF Begun
      <4>3. srv'[ws.turn] # "starting"
        BY <1>1, <4>1, <4>2 DEF Forward, Begun
      <4>4. \A i \in DOMAIN ws'.queue : ws'.queue[i] # "turn/started"
        BY <4>1, QueueChanges DEF Comes
      <4> QED
        BY <3>1, <4>3, <4>4
    <3>2. CASE ws'.turn # ws.turn
      <4>1. \A i \in DOMAIN ws'.queue : FALSE
        BY <3>2, QueueChanges DEF Comes
      <4>2. ~SendReturns
        BY <1>4, <2>1, <2>4, <2>9 DEF Remembered
      <4>3. PICK list :
               /\ reconnectTimer \in Turn /\ ws'.turn = reconnectTimer
               /\ ShouldMaintainStream(reconnectTimer, list)
        BY <1>3, <2>9, <3>2, <4>2, StreamTurnChanges
      <4> DEFINE r == reconnectTimer
      <4>4. srv[r] # "absent" /\ threadOf[r] # t
        BY <1>1, <2>9, <4>3 DEF HeardOf, Opened, Forward
      <4>5. threadDetail.thread = t /\ ThreadOf(threadDetail) = t
        BY <2>4, <2>9 DEF ThreadOf
      <4>6. FindActiveTurn(threadDetail, r, observed) # NoTurn
        BY <1>7, <1>8, <2>2, <4>5, FoundSeen, TypesNow DEF Happened, Alive
      <4>7. observed[ThreadOf(threadDetail)] # r /\ ObservedStill(r)[ThreadOf(threadDetail)] # r
        <5>1. r # NoTurn /\ r # u
          BY <4>3, <4>4, Numbers
        <5> QED
          BY <1>8, <2>2, <4>5, <5>1, ObservedStillIs, PrunedType, TypesNow
      <4>8. FindActiveTurn(threadDetail, r, observed) = r
        BY <4>3, <4>6, <4>7 DEF ShouldMaintainStream
      <4>9. threadDetail.turns[r] = "running"
        BY <4>3, <4>7, <4>8, Found, Numbers, TypesNow
      <4>10. Begun(r)
        BY <4>3, <4>4, <4>5, <4>9 DEF Strangers
      <4> QED
        BY <1>1, <4>1, <4>3, <4>10 DEF Forward, Begun
    <3> QED
      BY <3>1, <3>2
  <2>10. ASSUME threadDetail'.thread = t PROVE thinking'
    <3>1. thinking
      BY <2>1, <2>4, <2>10 DEF Remembered
    <3>2. ASSUME ListReturns PROVE thinking'
      <4>1. PICK list : UpdateThinkingState(threadDetail, selectedTurnId, observed, list)
        BY <3>2 DEF ListReturns
      <4>2. FindActiveTurn(threadDetail, selectedTurnId, observed) # NoTurn
        BY <1>7, <1>8, <2>2, <2>4, <2>10, FoundSeen, TypesNow DEF Happened, Alive
      <4> QED
        BY <4>1, <4>2 DEF UpdateThinkingState, ThinkingTurn
    <3>3. ASSUME HandleTurnEvent PROVE thinking'
      <4>1. threadDetail'.turns[u] # "ended"
        BY <1>7, HappenedStep DEF Happened, Alive, Lagging
      <4>2. observed'[t] = u /\ observed'[t] \in Turn
        BY <2>6
      <4>3. threadDetail'.turns[observed'[t]] # "ended"
        BY <4>1, <4>2
      <4> QED
        BY <1>1, <1>8, <2>10, <3>1, <3>3, <4>2, <4>3, EventThinks
    <3>4. SendReturns => thinking'
      BY DEF SendReturns
    <3>5. \A s \in Thread : ~OpenThread(s)
      BY <1>8, <2>10 DEF OpenThread, NoDetail
    <3> QED
      BY <1>3, <3>1, <3>2, <3>3, <3>4, <3>5, Touches
  <2> QED
    BY <1>7, <2>6, <2>7, <2>8, <2>9, <2>10 DEF Remembered
<1> QED
  BY <1>5, <1>9, <1>10

-----------------------------------------------------------------------------
(* The theorems.                                                           *)

LEMMA LagInit == ViewInit => LagInv
<1> SUFFICES ASSUME ViewInit PROVE LagInv
  OBVIOUS
<1>1. Typed
  BY InitTyped
<1>2. /\ \A u \in Turn : srv[u] = "absent" /\ summaries[u] = "absent" /\ ~Opened(u)
      /\ \A t \in Thread : observed[t] = NoTurn
      /\ threadDetail = NoDetail /\ NoDetail.turns = Nothing /\ NoDetail.thread = NoThread
      /\ detailRequest.stage = "none" /\ detailRequest.turns = Nothing
      /\ sending.stage = "none" /\ ws.queue = <<>>
  BY Numbers, NothingType DEF ViewInit, Opened, NoStream, NoDetail, NoRead, NoSend
<1>4. Facts
  BY <1>2, NothingType DEF Facts, HeardOf, OneAlive, Answers, Happened, Strangers, Alive
<1>5. NotForgotten
  BY <1>2 DEF NotForgotten
<1> QED
  BY <1>1, <1>4, <1>5 DEF LagInv

\* A detail is there only once a thread is selected.
SomeSelected == threadDetail # NoDetail => selectedThreadId # NoThread

LEMMA SelectedStep == Typed /\ SomeSelected /\ [ViewNext]_viewVars => SomeSelected'
<1> SUFFICES ASSUME Typed, SomeSelected, [ViewNext]_viewVars PROVE SomeSelected'
  OBVIOUS
<1>1. NoThread \notin Thread
  BY Numbers
<1>2. ASSUME NEW t \in Thread, OpenThread(t) PROVE SomeSelected'
  BY <1>1, <1>2 DEF OpenThread, SomeSelected
<1>3. CASE ThreadsReturn
  BY <1>1, <1>3, ReselectsOne DEF Reselect, SomeSelected
<1>4. CASE DetailReturns /\ UNCHANGED selectedThreadId
  <2>1. StillSelected(detailRequest.thread) \/ threadDetail' = threadDetail
    BY <1>4, Zenon DEF DetailReturns
  <2>2. detailRequest.thread # NoThread
    BY <1>1, <1>4 DEF DetailReturns, Typed
  <2> QED
    BY <1>4, <2>1, <2>2 DEF StillSelected, SomeSelected
<1>5. CASE HandleTurnEvent /\ UNCHANGED selectedThreadId
  BY <1>5, EventKeepsThread DEF SomeSelected
<1>6. CASE UNCHANGED <<threadDetail, selectedThreadId>>
  BY <1>6 DEF SomeSelected
<1> QED
  BY <1>2, <1>3, <1>4, <1>5, <1>6, Touches

LEMMA Rereads ==
    ASSUME NEW t, RefreshThreadDetail(t), t # NoThread
    PROVE  detailRequest' # NoRead /\ (detailRequest'.thread = t \/ refreshQueued')
BY DEF RefreshThreadDetail, NoRead

\* The detail of another thread that nothing is about to replace.
Stuck == ForeignDetail /\ ~BeingRead

LEMMA StuckStep ==
    ASSUME Typed, SomeSelected, [ViewNext]_viewVars, Stuck', ~DetailFails
    PROVE  Stuck
<1> SUFFICES ASSUME ~Stuck PROVE FALSE
  OBVIOUS
<1> USE DEF Stuck, ForeignDetail, BeingRead
<1>1. NoThread \notin Thread
  BY Numbers
<1>2. ~UNCHANGED <<threadDetail, selectedThreadId, detailRequest, refreshQueued>>
  OBVIOUS
<1>3. ASSUME NEW t \in Thread, OpenThread(t) PROVE FALSE
  BY <1>3 DEF OpenThread
<1>4. ~Poll
  BY Rereads DEF Poll, selectionVars
<1>5. ~ThreadsReturn
  BY <1>1, ReselectsOne, Rereads DEF Reselect
<1>6. ~DetailAnswered
  <2> SUFFICES ASSUME DetailAnswered PROVE FALSE
    OBVIOUS
  <2>1. UNCHANGED <<threadDetail, selectedThreadId, refreshQueued>>
    BY DEF DetailAnswered, selectionVars
  <2>2. detailRequest'.thread = detailRequest.thread /\ detailRequest'.stage = "answered"
    BY DEF DetailAnswered, Typed, ViewTypeOK
  <2> QED
    BY <2>1, <2>2 DEF NoRead
<1>7. ~DetailReturns
  <2> SUFFICES ASSUME DetailReturns PROVE FALSE
    OBVIOUS
  <2>1. /\ detailRequest.thread \in Thread /\ detailRequest.turns \in Turns
        /\ UNCHANGED selectedThreadId
    BY DEF DetailReturns, Typed, ViewTypeOK
  <2>2. CASE StillSelected(detailRequest.thread)
    <3>1. threadDetail' = Detail(detailRequest.thread, detailRequest.turns)
      BY <2>2, Zenon DEF DetailReturns
    <3> QED
      BY <2>1, <2>2, <3>1, DetailType DEF StillSelected
  <2>3. CASE ~StillSelected(detailRequest.thread)
    <3>1. threadDetail' = threadDetail /\ RefreshEnds
      BY <2>3, Zenon DEF DetailReturns
    <3>2. refreshQueued /\ selectedThreadId # NoThread
      BY <2>1, <2>3, <3>1 DEF StillSelected, SomeSelected
    <3> QED
      BY <2>1, <3>1, <3>2 DEF RefreshEnds, NoRead
  <2> QED
    BY <2>2, <2>3
<1>8. ~HandleTurnEvent
  <2> SUFFICES ASSUME HandleTurnEvent PROVE FALSE
    OBVIOUS
  <2>1. UNCHANGED <<selectedThreadId, detailRequest, refreshQueued>>
    BY Zenon DEF HandleTurnEvent, detailVars
  <2> QED
    BY <2>1, EventKeepsThread
<1> QED
  BY <1>2, <1>3, <1>4, <1>5, <1>6, <1>7, <1>8, Touches

\* No step puts the detail of another thread than the selected one in place.
LEMMA NoneForeign ==
    ASSUME Typed, [ViewNext]_viewVars, ForeignDetail'
    PROVE  threadDetail'.thread = threadDetail.thread
<1> USE DEF ForeignDetail
<1>1. ASSUME DetailReturns PROVE threadDetail' = threadDetail
  <2>1. /\ detailRequest.thread \in Thread /\ detailRequest.turns \in Turns
        /\ UNCHANGED selectedThreadId
    BY <1>1 DEF DetailReturns, Typed, ViewTypeOK
  <2>2. CASE StillSelected(detailRequest.thread)
    <3>1. threadDetail' = Detail(detailRequest.thread, detailRequest.turns)
      BY <1>1, <2>2, Zenon DEF DetailReturns
    <3> QED
      BY <2>1, <2>2, <3>1, DetailType DEF StillSelected
  <2>3. CASE ~StillSelected(detailRequest.thread)
    BY <1>1, <2>3, Zenon DEF DetailReturns
  <2> QED
    BY <2>2, <2>3
<1> QED
  BY <1>1, DetailChanges, EventKeepsThread

LEMMA SelectedHolds == ViewSpec => [](Typed /\ SomeSelected)
<1>1. ViewInit => Typed /\ SomeSelected
  BY InitTyped DEF ViewInit, SomeSelected
<1>2. Typed /\ SomeSelected /\ [ViewNext]_viewVars => (Typed /\ SomeSelected)'
  BY TypesStep, SelectedStep
<1> QED
  BY <1>1, <1>2, PTL DEF ViewSpec

LEMMA LagStep == LagInv /\ [ViewNext]_viewVars => LagInv'
BY TypesStep, HeardOfStep, OneAliveStep, AnswersStep, HappenedStep, StrangersStep,
   NotForgottenStep
DEF LagInv, Facts

LEMMA ReadSpares ==
    ASSUME LagInv, DetailReturns, ws # NoStream, ws.turn = selectedTurnId,
           Seen[ws.turn] = "running", threadOf[ws.turn] = selectedThreadId
    PROVE  ws' = ws
<1> DEFINE u == ws.turn
           t == detailRequest.thread
           turns == detailRequest.turns
<1> USE DEF LagInv, Facts
<1>1. CASE ~StillSelected(t)
  <2>1. UNCHANGED streamVars
    BY <1>1, Zenon DEF DetailReturns
  <2> QED
    BY <2>1 DEF streamVars
<1>2. CASE StillSelected(t)
  <2>1. /\ u \in Turn /\ Alive(u) /\ Opened(u) /\ threadOf[u] = t
        /\ t \in Thread /\ turns \in Turns /\ detailRequest.stage = "answered"
    BY <1>2 DEF StillSelected, DetailReturns, Typed, ViewTypeOK, Seen, Alive, Opened
  <2>2. turns[u] # "ended"
    BY <2>1 DEF Answers, Alive
  <2>3. Running(turns) # {} => UNCHANGED streamVars
    BY <1>2, ReadShows
  <2>4. CASE Running(turns) # {}
    BY <2>3, <2>4 DEF streamVars
  <2>5. CASE Running(turns) = {}
    <3> DEFINE d == ReadDetail
    <3>1. turns[u] = "absent"
      BY <2>1, <2>2, <2>5 DEF Running, Turns
    <3>2. observed[t] = u
      BY <2>1, <3>1 DEF NotForgotten, Lagging, Remembered
    <3>3. ~d.busy /\ d.thread = t /\ d.turns = turns
      BY <2>1, <2>5, DetailType DEF ReadDetail
    <3>4. Reconciled(d) = observed
      <4> HIDE DEF d
      <4> QED BY <3>1, <3>2, <3>3 DEF Reconciled
    <3>5. Reconciled(d)[t] # NoTurn /\ turns[Reconciled(d)[t]] # "ended"
      BY <2>1, <2>2, <3>2, <3>4, Numbers
    <3>6. UNCHANGED streamVars
      BY <1>2, <3>5, ReadShows
    <3> QED
      BY <3>6 DEF streamVars
  <2> QED
    BY <2>4, <2>5
<1> QED
  BY <1>1, <1>2

LEMMA LagHolds == ViewSpec => []LagInv
BY LagInit, LagStep, PTL DEF ViewSpec

\* The types of the page's variables: what it selects, shows, observes and asks for
\* (app.js state, streamTurn, refreshThreadDetail).
THEOREM ViewTypeCorrect == ViewSpec => []ViewTypeOK
<1>1. LagInv => ViewTypeOK
  BY DEF LagInv, Typed
<1> QED
  BY <1>1, LagHolds, PTL

\* No answer puts the detail of another thread in place, and one that is left there
\* stays unread after nothing but a failed read, for any number of threads, turns and
\* loads (loadThreads, openThread, refreshThreadDetail).
THEOREM ForeignDetailRead == ViewSpec => ForeignDetailIsRead
<1>1. Typed /\ SomeSelected /\ [ViewNext]_viewVars =>
        [/\ ForeignDetail' => threadDetail'.thread = threadDetail.thread
         /\ (ForeignDetail /\ ~BeingRead)' => DetailFails \/ (ForeignDetail /\ ~BeingRead)]_viewVars
  BY NoneForeign, StuckStep DEF Stuck
<1> QED
  BY <1>1, SelectedHolds, PTL DEF ViewSpec, ForeignDetailIsRead

\* A read that was answered before a turn began leaves the stream of that turn alone
\* (refreshThreadDetail, sendMessage).
THEOREM LaggingReadSpares == ViewSpec => StreamSurvivesLaggingRead
<1>1. LagInv /\ [ViewNext]_viewVars =>
        [DetailReturns /\ ws # NoStream /\ ws.turn = selectedTurnId
           /\ Seen[ws.turn] = "running" /\ threadOf[ws.turn] = selectedThreadId
         => ws' = ws]_viewVars
  BY ReadSpares
<1> QED
  BY <1>1, LagHolds, PTL DEF ViewSpec, StreamSurvivesLaggingRead

=============================================================================
