------------------------- MODULE RealtimeSocketProofs -------------------------
(***************************************************************************)
(* Any number of connections, goroutines, requests and frames on the       *)
(* wire: answers go to their own requests, nothing is on its way twice,    *)
(* and an answer finds its request in ret_queue.                           *)
(***************************************************************************)
EXTENDS RealtimeSocket, SequenceTheorems, TLAPS

\* What a goroutine deals with it holds, and a goroutine in Request has a request.
Slots ==
  /\ \A e \in End : incoming[e] # Nil <=> reader[e] \in {"handle", "answer", "return"}
  /\ \A e \in End : outgoing[e] # Nil <=> writer[e] = "write"
  /\ \A g \in Requester :
       req[g] # Nil => req[g].by = g /\ req[g].order <= order[EndOf[g]]
  /\ \A g \in Requester : stage[g] # "idle" => req[g] # Nil

Typed == TypeOK /\ Slots

-----------------------------------------------------------------------------
(***************************************************************************)
(* Types.                                                                  *)
(***************************************************************************)
LEMMA Peers ==
  /\ \A e \in End : Peer(e) \in End /\ Peer(e) # e /\ Peer(Peer(e)) = e
  /\ \A c \in Connection : <<c, "client">> \in End /\ <<c, "server">> \in End
PROOF
  BY DEF Peer, End

LEMMA NilIsNoMessage ==
  Nil \notin Message /\ Nil \notin FrameSet
PROOF
  <1>1. MaxRequests \in Nat /\ Message \subseteq [by : Requester, order : Nat]
    BY SocketAssumption DEF Message
  <1>2. FrameSet \subseteq [kind : {"request", "ack"}, request : [by : Requester, order : Nat]]
    BY <1>1 DEF FrameSet
  <1> QED
    BY <1>1, <1>2, SocketAssumption

LEMMA AppendFrame ==
  ASSUME NEW s \in Seq(FrameSet), NEW f \in FrameSet
  PROVE  /\ Append(s, f) \in Seq(FrameSet)
         /\ Len(s) \in Nat /\ Len(Append(s, f)) = Len(s) + 1
         /\ \A i \in 1 .. Len(s) : Append(s, f)[i] = s[i]
         /\ Append(s, f)[Len(s) + 1] = f
PROOF
  BY AppendProperties, LenProperties

LEMMA TailFrames ==
  ASSUME NEW s \in Seq(FrameSet), s # <<>>
  PROVE  /\ Tail(s) \in Seq(FrameSet) /\ Head(s) \in FrameSet /\ Head(s) = s[1]
         /\ Len(s) \in Nat \ {0} /\ Len(Tail(s)) = Len(s) - 1
         /\ \A i \in 1 .. Len(s) - 1 : Tail(s)[i] = s[i + 1]
PROOF
  BY HeadTailProperties, LenProperties, EmptySeq

LEMMA PrefixOfFrames ==
  ASSUME NEW s \in Seq(FrameSet), NEW n \in Nat, n <= Len(s)
  PROVE  /\ SubSeq(s, 1, n) \in Seq(FrameSet) /\ Len(SubSeq(s, 1, n)) = n
         /\ \A i \in 1 .. n : SubSeq(s, 1, n)[i] = s[i]
PROOF
  <1>1. Len(s) \in Nat /\ \A i \in 1 .. n : s[i] \in FrameSet
    BY LenProperties, ElementOfSeq
  <1> QED
    BY <1>1, SubSeqProperties

LEMMA TypedInit ==
  ASSUME Init
  PROVE  Typed
PROOF
  <1>1. MaxRequests \in Nat /\ WireCapacity \in Nat
    BY SocketAssumption
  <1>2. <<>> \in Seq(FrameSet) /\ Len(<<>>) = 0
    BY EmptySeq
  <1>3. wire \in [End -> Seq(FrameSet)] /\ \A e \in End : Len(wire[e]) <= WireCapacity
    BY <1>1, <1>2 DEF Init
  <1>4. TypeOK
    <2>1. order \in [End -> 0 .. MaxRequests]
      BY <1>1 DEF Init
    <2>2. retQueue \in [End -> SUBSET Message]
      BY DEF Init
    <2>3. open \in [End -> BOOLEAN] /\ cut \subseteq Connection
      BY DEF Init
    <2>4. /\ stage \in [Requester -> {"idle", "offer", "await"}]
          /\ req \in [Requester -> Message \cup {Nil}]
          /\ got \in [Requester -> Message \cup {Nil}]
      BY DEF Init
    <2>5. /\ reader \in [End -> {"read", "handle", "answer", "return", "stop", "ended"}]
          /\ incoming \in [End -> Message \cup {Nil}]
          /\ writer \in [End -> {"select", "write", "close", "ended"}]
          /\ outgoing \in [End -> FrameSet \cup {Nil}]
      BY DEF Init
    <2> QED
      BY <1>3, <2>1, <2>2, <2>3, <2>4, <2>5 DEF TypeOK
  <1>5. Slots
    BY DEF Init, Slots
  <1> QED
    BY <1>4, <1>5 DEF Typed

LEMMA CallTyped ==
  ASSUME Typed, NEW g \in Requester, Request(g) \/ CallStep(g)
  PROVE  Typed'
PROOF
  <1> USE DEF Typed, TypeOK, Slots
  <1>0. MaxRequests \in Nat /\ EndOf \in [Requester -> End]
    BY SocketAssumption
  <1>1. CASE Request(g)
    <2> DEFINE e == EndOf[g]
               r == RequestOf(g, order[e] + 1)
    <2>1. e \in End /\ Peer(e) \in End /\ order[e] \in Nat /\ order[Peer(e)] \in Nat
      BY <1>0, Peers
    <2>2. r \in Message /\ r.by = g /\ r.order = order[e] + 1 /\ order[e] + 1 \in 0 .. MaxRequests
      BY <1>0, <1>1, <2>1 DEF Request, RequestOf, Message
    <2>3. TypeOK'
      BY <1>1, <2>1, <2>2 DEF Request, readVars, writeVars
    <2>4. \A h \in Requester : req[h] # Nil => req[h].order \in Nat /\ order[EndOf[h]] \in Nat
      BY <1>0 DEF Message
    <2>5. Slots'
      BY <1>0, <1>1, <2>1, <2>2, <2>4, NilIsNoMessage DEF Request, readVars, writeVars
    <2> QED
      BY <2>3, <2>5
  <1>2. CASE NotOffered(g) \/ Unanswered(g)
    BY <1>0, <1>2 DEF NotOffered, Unanswered, Returns, readVars, writeVars
  <1>3. CASE TakeRequest(g)
    <2> DEFINE e == EndOf[g]
               f == Frame("request", req[g])
    <2>1. e \in End /\ req[g] \in Message
      BY <1>0, <1>3 DEF TakeRequest
    <2>2. f \in FrameSet
      BY <2>1 DEF Frame, FrameSet
    <2>3. TypeOK'
      BY <1>3, <2>1, <2>2 DEF TakeRequest, readVars
    <2>4. Slots'
      BY <1>3, <2>1, <2>2, NilIsNoMessage DEF TakeRequest, readVars
    <2> QED
      BY <2>3, <2>4
  <1> QED
    BY <1>1, <1>2, <1>3 DEF CallStep

LEMMA WriterTyped ==
  ASSUME Typed, NEW e \in End, WriterStep(e) \/ CloseNotify(e)
  PROVE  Typed'
PROOF
  <1> USE DEF Typed, TypeOK, Slots
  <1>0. WireCapacity \in Nat /\ Peer(e) \in End
    BY SocketAssumption, Peers
  <1>1. CASE TakeAnswer(e)
    <2> DEFINE f == Frame("ack", incoming[e])
    <2>1. incoming[e] \in Message
      BY <1>1 DEF TakeAnswer
    <2>2. f \in FrameSet
      BY <2>1 DEF Frame, FrameSet
    <2>3. TypeOK'
      BY <1>1, <2>2 DEF TakeAnswer, callVars
    <2>4. Slots'
      BY <1>1, <2>2, NilIsNoMessage DEF TakeAnswer, callVars
    <2> QED
      BY <2>3, <2>4
  <1>2. CASE Write(e)
    <2>1. outgoing[e] \in FrameSet
      BY <1>2 DEF Write
    <2>2. wire[Peer(e)] \in Seq(FrameSet)
      BY <1>0
    <2>3. /\ Append(wire[Peer(e)], outgoing[e]) \in Seq(FrameSet)
          /\ Len(wire[Peer(e)]) \in Nat
          /\ Len(Append(wire[Peer(e)], outgoing[e])) = Len(wire[Peer(e)]) + 1
      BY <2>1, <2>2, AppendFrame
    <2>4. wire' \in [End -> Seq(FrameSet)] /\ \A x \in End : Len(wire'[x]) <= WireCapacity
      <3>1. CASE e[1] \in cut \/ ~open[Peer(e)]
        BY <1>2, <3>1 DEF Write
      <3>2. CASE ~(e[1] \in cut \/ ~open[Peer(e)])
        <4> DEFINE s == Append(wire[Peer(e)], outgoing[e])
        <4>1. Len(s) <= WireCapacity /\ s \in Seq(FrameSet)
          BY <1>0, <1>2, <2>3, <3>2 DEF Write
        <4>2. wire' = [wire EXCEPT ![Peer(e)] = s]
          BY <1>2, <3>2 DEF Write
        <4> HIDE DEF s
        <4> QED
          BY <1>0, <4>1, <4>2
      <3> QED
        BY <3>1, <3>2
    <2>5. TypeOK'
      BY <1>2, <2>4 DEF Write, callVars, readVars
    <2>6. Slots'
      BY <1>2 DEF Write, callVars, readVars
    <2> QED
      BY <2>5, <2>6
  <1>3. CASE WriteError(e)
    BY <1>3 DEF WriteError, callVars, readVars
  <1>4. CASE IdleClose(e)
    BY <1>4 DEF IdleClose, NothingToWrite, callVars, readVars
  <1>5. CASE CloseNotify(e)
    BY <1>5 DEF CloseNotify, callVars, readVars
  <1> QED
    BY <1>1, <1>2, <1>3, <1>4, <1>5 DEF WriterStep, WriterMoves

LEMMA ReaderTyped ==
  ASSUME Typed, NEW e \in End, ReaderStep(e)
  PROVE  Typed'
PROOF
  <1> USE DEF Typed, TypeOK, Slots
  <1>1. ASSUME NEW kind, Arrives(e, kind)
        PROVE  /\ Head(wire[e]).request \in Message
               /\ wire' \in [End -> Seq(FrameSet)]
               /\ \A x \in End : Len(wire'[x]) <= WireCapacity
    <2>1. wire[e] \in Seq(FrameSet) /\ wire[e] # <<>> /\ WireCapacity \in Nat
      BY <1>1, SocketAssumption DEF Arrives
    <2>2. /\ Tail(wire[e]) \in Seq(FrameSet) /\ Head(wire[e]) \in FrameSet
          /\ Len(wire[e]) \in Nat /\ Len(Tail(wire[e])) = Len(wire[e]) - 1
      BY <2>1, TailFrames
    <2>3. Head(wire[e]).request \in Message
      BY <2>2 DEF FrameSet
    <2> DEFINE t == Tail(wire[e])
    <2>4. t \in Seq(FrameSet) /\ Len(t) <= WireCapacity
      BY <2>1, <2>2
    <2>5. wire' = [wire EXCEPT ![e] = t]
      BY <1>1 DEF Arrives
    <2> HIDE DEF t
    <2> QED
      BY <2>3, <2>4, <2>5
  <1>2. CASE ReadRequest(e)
    BY <1>1, <1>2, NilIsNoMessage DEF ReadRequest, Arrives, callVars, writeVars
  <1>3. CASE ReadAnswer(e)
    BY <1>1, <1>3, NilIsNoMessage DEF ReadAnswer, Arrives, callVars, writeVars
  <1>4. CASE DropAnswer(e) \/ NotHandled(e)
    <2>1. /\ reader' = [reader EXCEPT ![e] = "read"]
          /\ incoming' = [incoming EXCEPT ![e] = Nil]
          /\ UNCHANGED <<callVars, retQueue, writeVars, wire, open, cut>>
      BY <1>4 DEF DropAnswer, NotHandled
    <2> QED
      BY <2>1 DEF callVars, writeVars
  <1>5. CASE ReturnAnswer(e)
    BY <1>5 DEF ReturnAnswer, Returns, Forget, writeVars
  <1>6. CASE DropReturn(e)
    BY <1>6 DEF DropReturn, Forget, callVars, writeVars
  <1>7. CASE ReadError(e)
    <2>1. <<>> \in Seq(FrameSet) /\ Len(<<>>) = 0 /\ WireCapacity \in Nat
      BY EmptySeq, SocketAssumption
    <2>2. wire' \in [End -> Seq(FrameSet)] /\ \A x \in End : Len(wire'[x]) <= WireCapacity
      BY <1>7, <2>1 DEF ReadError
    <2> QED
      BY <1>7, <2>2 DEF ReadError, callVars, writeVars
  <1>8. CASE TellWriter(e)
    BY <1>8 DEF TellWriter, callVars
  <1>9. CASE Handled(e)
    BY <1>9 DEF Handled, callVars, writeVars
  <1> QED
    BY <1>2, <1>3, <1>4, <1>5, <1>6, <1>7, <1>8, <1>9 DEF ReaderStep, ReaderMoves

LEMMA CutWires ==
  ASSUME Typed, NEW c \in Connection, Cut(c)
  PROVE  \E n \in [End -> Nat] :
           /\ \A e \in End : n[e] <= Len(wire[e])
           /\ wire' = [e \in End |-> SubSeq(wire[e], 1, n[e])]
PROOF
  <1>1. PICK m \in [{"client", "server"} -> 0 .. WireCapacity] :
          /\ \A e \in {c} \X {"client", "server"} : m[e[2]] <= Len(wire[e])
          /\ wire' = [e \in End |-> IF e[1] = c THEN SubSeq(wire[e], 1, m[e[2]]) ELSE wire[e]]
    BY DEF Cut
  <1> DEFINE n == [e \in End |-> IF e[1] = c THEN m[e[2]] ELSE Len(wire[e])]
  <1>2. \A e \in End : /\ wire[e] \in Seq(FrameSet) /\ Len(wire[e]) \in Nat
                       /\ SubSeq(wire[e], 1, Len(wire[e])) = wire[e]
    <2> SUFFICES ASSUME NEW e \in End
                 PROVE  /\ wire[e] \in Seq(FrameSet) /\ Len(wire[e]) \in Nat
                        /\ SubSeq(wire[e], 1, Len(wire[e])) = wire[e]
      OBVIOUS
    <2>1. wire[e] \in Seq(FrameSet)
      BY DEF Typed, TypeOK
    <2>2. Len(wire[e]) \in Nat
      BY <2>1, LenProperties
    <2>3. /\ SubSeq(wire[e], 1, Len(wire[e])) \in Seq(FrameSet)
          /\ Len(SubSeq(wire[e], 1, Len(wire[e]))) = Len(wire[e])
          /\ \A i \in 1 .. Len(wire[e]) : SubSeq(wire[e], 1, Len(wire[e]))[i] = wire[e][i]
      BY <2>1, <2>2, PrefixOfFrames
    <2> QED
      BY <2>1, <2>2, <2>3, SeqEqual
  <1>3. n \in [End -> Nat]
    BY <1>2, SocketAssumption DEF End
  <1>4. \A e \in End :
          /\ n[e] <= Len(wire[e])
          /\ SubSeq(wire[e], 1, n[e])
               = IF e[1] = c THEN SubSeq(wire[e], 1, m[e[2]]) ELSE wire[e]
    BY <1>1, <1>2 DEF End
  <1> HIDE DEF n
  <1>5. wire' = [e \in End |-> SubSeq(wire[e], 1, n[e])]
    BY <1>1, <1>4
  <1> QED
    BY <1>3, <1>4, <1>5

LEMMA CutTyped ==
  ASSUME Typed, NEW c \in Connection, Cut(c)
  PROVE  Typed'
PROOF
  <1>1. PICK n \in [End -> Nat] :
          /\ \A e \in End : n[e] <= Len(wire[e])
          /\ wire' = [e \in End |-> SubSeq(wire[e], 1, n[e])]
    BY CutWires
  <1>2. \A e \in End : /\ wire[e] \in Seq(FrameSet) /\ n[e] \in Nat /\ Len(wire[e]) \in Nat
                       /\ n[e] <= WireCapacity /\ WireCapacity \in Nat
    <2> SUFFICES ASSUME NEW e \in End
                 PROVE  /\ wire[e] \in Seq(FrameSet) /\ n[e] \in Nat /\ Len(wire[e]) \in Nat
                        /\ n[e] <= WireCapacity /\ WireCapacity \in Nat
      OBVIOUS
    <2>1. /\ wire[e] \in Seq(FrameSet) /\ Len(wire[e]) <= WireCapacity
          /\ n[e] <= Len(wire[e]) /\ n[e] \in Nat /\ WireCapacity \in Nat
      BY <1>1, SocketAssumption DEF Typed, TypeOK
    <2>2. Len(wire[e]) \in Nat
      BY <2>1, LenProperties
    <2> QED
      BY <2>1, <2>2
  <1>3. wire' \in [End -> Seq(FrameSet)] /\ \A e \in End : Len(wire'[e]) <= WireCapacity
    BY <1>1, <1>2, PrefixOfFrames
  <1>4. cut' \subseteq Connection
    BY DEF Cut, Typed, TypeOK
  <1> QED
    BY <1>3, <1>4 DEF Cut, Typed, TypeOK, Slots, callVars, readVars, writeVars

LEMMA ClosedTyped ==
  ASSUME Typed, NEW c \in Connection, CLoseSocket(c)
  PROVE  Typed'
PROOF
  BY DEF CLoseSocket, Typed, TypeOK, Slots, callVars, readVars, writeVars

LEMMA StutterTyped ==
  ASSUME Typed, UNCHANGED vars
  PROVE  Typed'
PROOF
  BY DEF Typed, TypeOK, Slots, vars, callVars, readVars, writeVars

LEMMA StepTyped ==
  ASSUME Typed, [Next]_vars
  PROVE  Typed'
PROOF
  BY CallTyped, WriterTyped, ReaderTyped, CutTyped, ClosedTyped, StutterTyped DEF Next

\* The variables of a connection keep their types and no wire holds more than its
\* capacity, for any number of goroutines and requests.
THEOREM AlwaysTypeOK == Spec => []TypeOK
PROOF
  <1>1. Init => Typed
    BY TypedInit
  <1>2. Typed /\ [Next]_vars => Typed'
    BY StepTyped
  <1>3. Typed => TypeOK
    BY DEF Typed
  <1> QED
    BY <1>1, <1>2, <1>3, PTL DEF Spec

-----------------------------------------------------------------------------
(***************************************************************************)
(* What is on its way.                                                     *)
(***************************************************************************)

\* A request on its way has been made, and its goroutine does not still offer it.
Fresh ==
  \A x \in Site : Held(x) # Nil =>
    /\ Held(x).order <= order[EndOf[Held(x).by]]
    /\ stage[Held(x).by] = "offer" => req[Held(x).by] # Held(x)

\* A request on its way is in ret_queue of the end that made it.
Known == \A x \in Site : Held(x) # Nil => Held(x) \in retQueue[EndOf[Held(x).by]]

\* Requests travel away from the end that made them, answers towards it, and both stay
\* on their connection.
Directed ==
  \A e \in End :
    /\ outgoing[e] # Nil =>
         EndOf[outgoing[e].request.by] = IF outgoing[e].kind = "request" THEN e ELSE Peer(e)
    /\ incoming[e] # Nil =>
         EndOf[incoming[e].by] = IF reader[e] = "return" THEN e ELSE Peer(e)
    /\ \A i \in 1 .. Len(wire[e]) :
         EndOf[wire[e][i].request.by] = IF wire[e][i].kind = "ack" THEN e ELSE Peer(e)

Carried == AtMostOnce /\ Fresh /\ Known /\ Directed
Inv == Typed /\ Carried /\ OwnAnswer

LEMMA Sites ==
  /\ \A e \in End : <<"outgoing", e, 0>> \in Site /\ <<"incoming", e, 0>> \in Site
  /\ \A e \in End, i \in 1 .. WireCapacity : <<"wire", e, i>> \in Site
  /\ \A x \in Site : \E e \in End :
       \/ x = <<"outgoing", e, 0>> \/ x = <<"incoming", e, 0>>
       \/ \E i \in 1 .. WireCapacity : x = <<"wire", e, i>>
PROOF
  BY DEF Site

LEMMA HeldType ==
  ASSUME Typed, NEW x \in Site
  PROVE  Held(x) \in Message \cup {Nil}
PROOF
  <1>1. PICK e \in End :
          \/ x = <<"outgoing", e, 0>> \/ x = <<"incoming", e, 0>>
          \/ \E i \in 1 .. WireCapacity : x = <<"wire", e, i>>
    BY Sites
  <1>2. CASE x = <<"outgoing", e, 0>>
    <2>1. outgoing[e] \in FrameSet \cup {Nil}
      BY DEF Typed, TypeOK
    <2> QED
      BY <1>2, <2>1 DEF Held, FrameSet
  <1>3. CASE x = <<"incoming", e, 0>>
    BY <1>3 DEF Held, Typed, TypeOK
  <1>4. CASE \E i \in 1 .. WireCapacity : x = <<"wire", e, i>>
    <2>1. PICK i \in 1 .. WireCapacity : x = <<"wire", e, i>>
      BY <1>4
    <2>2. wire[e] \in Seq(FrameSet) /\ Len(wire[e]) \in Nat /\ i \in Nat \ {0}
      BY SocketAssumption, LenProperties DEF Typed, TypeOK
    <2>3. i <= Len(wire[e]) => wire[e][i] \in FrameSet
      BY <2>2, ElementOfSeq
    <2> QED
      BY <2>1, <2>3 DEF Held, FrameSet
  <1> QED
    BY <1>1, <1>2, <1>3, <1>4

\* Each message is where it was, or gone.
Shrinks == \A x \in Site : Held(x)' \in {Nil, Held(x)}

LEMMA ShrinksOnce ==
  ASSUME AtMostOnce, Shrinks
  PROVE  AtMostOnce'
PROOF
  BY DEF AtMostOnce, Shrinks

\* f tells from where each message has come, and no two have come from one place.
LEMMA MovesOnce ==
  ASSUME AtMostOnce, NEW f,
         \A x \in Site : Held(x)' # Nil => f[x] \in Site /\ Held(f[x]) = Held(x)',
         \A x, y \in Site : Held(x)' # Nil /\ Held(y)' # Nil /\ f[x] = f[y] => x = y
  PROVE  AtMostOnce'
PROOF
  BY DEF AtMostOnce

Comes == \A x \in Site : Held(x)' # Nil => \E y \in Site : Held(y) = Held(x)'

LEMMA ComesFresh ==
  ASSUME Fresh, Comes, UNCHANGED <<order, req>>, \A g \in Requester : stage'[g] = "offer" => stage[g] = "offer",
         Typed
  PROVE  Fresh'
PROOF
  <1> SUFFICES ASSUME NEW x \in Site, Held(x)' # Nil
               PROVE  /\ Held(x)'.order <= order[EndOf[Held(x)'.by]]
                      /\ stage'[Held(x)'.by] = "offer" => req[Held(x)'.by] # Held(x)'
    BY DEF Fresh
  <1>1. PICK y \in Site : Held(y) = Held(x)'
    BY DEF Comes
  <1>2. Held(y) \in Message
    BY <1>1, HeldType
  <1>3. Held(y).by \in Requester
    BY <1>2 DEF Message
  <1> QED
    BY <1>1, <1>3 DEF Fresh

LEMMA ComesKnown ==
  ASSUME Known, Comes, Typed, \A e \in End : retQueue[e] \subseteq retQueue'[e]
  PROVE  Known'
PROOF
  <1> SUFFICES ASSUME NEW x \in Site, Held(x)' # Nil
               PROVE  Held(x)' \in retQueue'[EndOf[Held(x)'.by]]
    BY DEF Known
  <1>1. PICK y \in Site : Held(y) = Held(x)'
    BY DEF Comes
  <1>2. Held(y).by \in Requester
    BY <1>1, HeldType DEF Message
  <1>3. EndOf[Held(y).by] \in End
    BY <1>2, SocketAssumption
  <1> QED
    BY <1>1, <1>3 DEF Known

-----------------------------------------------------------------------------
(***************************************************************************)
(* The steps.                                                              *)
(***************************************************************************)
LEMMA SameShrinks ==
  ASSUME UNCHANGED <<outgoing, incoming, wire>>
  PROVE  Shrinks
PROOF
  BY DEF Shrinks, Held

LEMMA ShrinksComes ==
  ASSUME Shrinks
  PROVE  Comes
PROOF
  BY DEF Shrinks, Comes

LEMMA RequestCarried ==
  ASSUME Typed, Carried, NEW g \in Requester, Request(g)
  PROVE  Carried'
PROOF
  <1>1. UNCHANGED <<outgoing, incoming, wire>>
    BY DEF Request, readVars, writeVars
  <1>2. AtMostOnce'
    BY <1>1, SameShrinks, ShrinksOnce DEF Carried
  <1>3. Known'
    BY <1>1, SameShrinks, ShrinksComes, ComesKnown DEF Carried, Request
  <1>4. Directed'
    BY <1>1 DEF Carried, Directed, Request, readVars
  <1>5. Fresh'
    <2> SUFFICES ASSUME NEW x \in Site, Held(x)' # Nil
                 PROVE  /\ Held(x)'.order <= order'[EndOf[Held(x)'.by]]
                        /\ stage'[Held(x)'.by] = "offer" => req'[Held(x)'.by] # Held(x)'
      BY DEF Fresh
    <2>1. Held(x)' = Held(x)
      BY <1>1 DEF Held
    <2>2. Held(x) \in Message
      BY <2>1, HeldType
    <2>3. /\ Held(x).by \in Requester /\ Held(x).order \in Nat
          /\ EndOf[Held(x).by] \in End /\ EndOf[g] \in End
      BY <2>2, SocketAssumption DEF Message
    <2>4. order \in [End -> Nat]
      BY DEF Typed, TypeOK
    <2>5. /\ Held(x).order <= order[EndOf[Held(x).by]]
          /\ stage[Held(x).by] = "offer" => req[Held(x).by] # Held(x)
      BY <2>1 DEF Carried, Fresh
    <2>6. order' = [order EXCEPT ![EndOf[g]] = @ + 1]
      BY DEF Request
    <2>7. Held(x).order <= order'[EndOf[Held(x).by]]
      BY <2>3, <2>4, <2>5, <2>6
    <2>8. CASE Held(x).by = g
      <3>1. req'[g].order = order[EndOf[g]] + 1
        BY DEF Request, RequestOf, Typed, TypeOK
      <3>2. Held(x).order # req'[g].order
        BY <2>3, <2>4, <2>5, <2>8, <3>1
      <3> QED
        BY <2>1, <2>7, <2>8, <3>2
    <2>9. CASE Held(x).by # g
      <3>1. /\ stage'[Held(x).by] = stage[Held(x).by]
            /\ req'[Held(x).by] = req[Held(x).by]
        BY <2>3, <2>9 DEF Request, Typed, TypeOK
      <3> QED
        BY <2>1, <2>5, <2>7, <3>1
    <2> QED
      BY <2>8, <2>9
  <1> QED
    BY <1>2, <1>3, <1>4, <1>5 DEF Carried

LEMMA TakeRequestCarried ==
  ASSUME Typed, Carried, NEW g \in Requester, TakeRequest(g)
  PROVE  Carried'
PROOF
  <1> DEFINE e == EndOf[g]
             new == <<"outgoing", e, 0>>
  <1>1. /\ e \in End /\ new \in Site
        /\ req[g] \in Message /\ req[g].by = g /\ req[g].order <= order[e]
        /\ stage[g] = "offer"
    <2>1. e \in End
      BY SocketAssumption
    <2>2. new \in Site
      BY <2>1, Sites
    <2>3. stage[g] = "offer" /\ req[g] # Nil
      BY DEF TakeRequest, Typed, Slots
    <2> QED
      BY <2>1, <2>2, <2>3 DEF Typed, TypeOK, Slots
  <1>2. Held(new)' = req[g]
    <2>1. outgoing'[e] = Frame("request", req[g])
      BY <1>1 DEF TakeRequest, Typed, TypeOK
    <2>2. Frame("request", req[g]) \in FrameSet /\ Frame("request", req[g]).request = req[g]
      BY <1>1 DEF Frame, FrameSet
    <2>3. outgoing'[e] # Nil
      BY <2>1, <2>2, NilIsNoMessage
    <2> QED
      BY <2>1, <2>2, <2>3 DEF Held
  <1>3. \A x \in Site : x # new => Held(x)' = Held(x)
    <2> SUFFICES ASSUME NEW x \in Site, x # new
                 PROVE  Held(x)' = Held(x)
      OBVIOUS
    <2>1. incoming' = incoming /\ wire' = wire
      BY DEF TakeRequest, readVars
    <2>2. x[1] = "outgoing" => x[2] \in End /\ x[2] # e
      BY Sites
    <2>3. x[1] = "outgoing" => outgoing'[x[2]] = outgoing[x[2]]
      BY <1>1, <2>2 DEF TakeRequest, Typed, TypeOK
    <2> QED
      BY <2>1, <2>3 DEF Held
  <1>4. \A x \in Site : Held(x) # req[g]
    BY <1>1, NilIsNoMessage DEF Carried, Fresh
  <1>5. AtMostOnce'
    BY <1>2, <1>3, <1>4 DEF Carried, AtMostOnce
  <1>6. \A x \in Site : Held(x)' # Nil => Held(x)' = req[g] \/ (x # new /\ Held(x)' = Held(x))
    BY <1>2, <1>3
  <1>7. Fresh'
    <2> SUFFICES ASSUME NEW x \in Site, Held(x)' # Nil
                 PROVE  /\ Held(x)'.order <= order'[EndOf[Held(x)'.by]]
                        /\ stage'[Held(x)'.by] = "offer" => req'[Held(x)'.by] # Held(x)'
      BY DEF Fresh
    <2>1. UNCHANGED <<order, req>> /\ stage' = [stage EXCEPT ![g] = "await"]
      BY DEF TakeRequest
    <2>2. CASE Held(x)' = req[g]
      BY <1>1, <2>1, <2>2 DEF Typed, TypeOK
    <2>3. CASE Held(x)' = Held(x)
      <3>1. Held(x).by \in Requester
        BY <2>3, HeldType DEF Message
      <3> QED
        BY <2>1, <2>3, <3>1 DEF Carried, Fresh, Typed, TypeOK
    <2> QED
      BY <1>6, <2>2, <2>3
  <1>8. Known'
    <2> SUFFICES ASSUME NEW x \in Site, Held(x)' # Nil
                 PROVE  Held(x)' \in retQueue'[EndOf[Held(x)'.by]]
      BY DEF Known
    <2>1. retQueue' = [retQueue EXCEPT ![e] = @ \cup {req[g]}]
      BY DEF TakeRequest
    <2>2. CASE Held(x)' = req[g]
      BY <1>1, <2>1, <2>2 DEF Typed, TypeOK
    <2>3. CASE Held(x)' = Held(x)
      <3>1. Held(x).by \in Requester
        BY <2>3, HeldType DEF Message
      <3>2. EndOf[Held(x).by] \in End
        BY <3>1, SocketAssumption
      <3> QED
        BY <1>1, <2>1, <2>3, <3>2 DEF Carried, Known, Typed, TypeOK
    <2> QED
      BY <1>6, <2>2, <2>3
  <1>9. Directed'
    <2>1. UNCHANGED <<reader, incoming, wire>>
      BY DEF TakeRequest, readVars
    <2>2. outgoing' = [outgoing EXCEPT ![e] = Frame("request", req[g])]
      BY DEF TakeRequest
    <2>3. /\ Frame("request", req[g]).kind = "request"
          /\ EndOf[Frame("request", req[g]).request.by] = e
      BY <1>1 DEF Frame
    <2>4. \A d \in End : outgoing'[d] # Nil =>
            EndOf[outgoing'[d].request.by] = IF outgoing'[d].kind = "request" THEN d ELSE Peer(d)
      BY <1>1, <2>2, <2>3 DEF Carried, Directed, Typed, TypeOK
    <2> QED
      BY <2>1, <2>4 DEF Carried, Directed
  <1> QED
    BY <1>5, <1>7, <1>8, <1>9 DEF Carried

\* The steps on which messages stay where they are or vanish, and ret_queue with them.
LEMMA ShrinkCarried ==
  ASSUME Typed, Carried, Shrinks, Directed', UNCHANGED <<order, req, retQueue>>,
         \A g \in Requester : stage'[g] = "offer" => stage[g] = "offer"
  PROVE  Carried'
PROOF
  BY ShrinksOnce, ShrinksComes, ComesFresh, ComesKnown DEF Carried

LEMMA GiveUpCarried ==
  ASSUME Typed, Carried, NEW g \in Requester, NotOffered(g) \/ Unanswered(g)
  PROVE  Carried'
PROOF
  <1>1. UNCHANGED <<outgoing, incoming, wire, order, req, retQueue, reader>>
    BY DEF NotOffered, Unanswered, Returns, readVars, writeVars
  <1>2. Directed'
    BY <1>1 DEF Carried, Directed
  <1>3. \A h \in Requester : stage'[h] = "offer" => stage[h] = "offer"
    BY DEF NotOffered, Unanswered, Returns, Typed, TypeOK
  <1> QED
    BY <1>1, <1>2, <1>3, SameShrinks, ShrinkCarried

\* The steps of the writer goroutine that put nothing on its way.
LEMMA CloseCarried ==
  ASSUME Typed, Carried, NEW e \in End, WriteError(e) \/ IdleClose(e) \/ CloseNotify(e)
  PROVE  Carried'
PROOF
  <1>1. UNCHANGED <<incoming, wire, order, stage, req, retQueue, reader>>
    BY DEF WriteError, IdleClose, CloseNotify, readVars, callVars
  <1>2. outgoing' = outgoing \/ outgoing' = [outgoing EXCEPT ![e] = Nil]
    BY DEF WriteError, IdleClose, CloseNotify
  <1>3. \A d \in End : outgoing'[d] \in {Nil, outgoing[d]}
    BY <1>2 DEF Typed, TypeOK
  <1>4. Shrinks
    <2> SUFFICES ASSUME NEW x \in Site
                 PROVE  Held(x)' \in {Nil, Held(x)}
      BY DEF Shrinks
    <2>1. x[2] \in End
      BY Sites
    <2> QED
      BY <1>1, <1>3, <2>1 DEF Held
  <1>5. Directed'
    BY <1>1, <1>3 DEF Carried, Directed
  <1> QED
    BY <1>1, <1>4, <1>5, ShrinkCarried

LEMMA TakeAnswerCarried ==
  ASSUME Typed, Carried, NEW e \in End, TakeAnswer(e)
  PROVE  Carried'
PROOF
  <1> DEFINE out == <<"outgoing", e, 0>>
             in == <<"incoming", e, 0>>
             f == [x \in Site |-> IF x = out THEN in ELSE x]
             ack == Frame("ack", incoming[e])
  <1>1. out \in Site /\ in \in Site /\ out # in
    BY Sites
  <1>2. /\ UNCHANGED <<order, stage, req, retQueue, wire>>
        /\ outgoing' = [outgoing EXCEPT ![e] = ack]
        /\ incoming' = [incoming EXCEPT ![e] = Nil]
        /\ reader' = [reader EXCEPT ![e] = "read"]
    BY DEF TakeAnswer, callVars
  <1>3. /\ outgoing \in [End -> FrameSet \cup {Nil}]
        /\ incoming \in [End -> Message \cup {Nil}]
        /\ incoming[e] \in Message /\ reader[e] = "answer"
        /\ DOMAIN reader = End
    BY DEF TakeAnswer, Typed, TypeOK, Slots
  <1>4. ack # Nil /\ ack.request = incoming[e] /\ ack.kind = "ack"
    <2>1. ack \in FrameSet
      BY <1>3 DEF Frame, FrameSet
    <2> QED
      BY <2>1, NilIsNoMessage DEF Frame
  <1>5. Held(out)' = Held(in) /\ Held(in)' = Nil
    BY <1>2, <1>3, <1>4 DEF Held
  <1>6. \A x \in Site : x # out /\ x # in => Held(x)' = Held(x)
    <2> SUFFICES ASSUME NEW x \in Site, x # out, x # in
                 PROVE  Held(x)' = Held(x)
      OBVIOUS
    <2>1. x[2] \in End /\ (x[1] \in {"outgoing", "incoming"} => x[2] # e)
      BY Sites
    <2> QED
      BY <1>2, <1>3, <2>1 DEF Held
  <1>7. \A x \in Site : Held(x)' # Nil => f[x] \in Site /\ Held(f[x]) = Held(x)'
    BY <1>1, <1>5, <1>6
  <1>8. \A x, y \in Site : Held(x)' # Nil /\ Held(y)' # Nil /\ f[x] = f[y] => x = y
    BY <1>1, <1>5
  <1> HIDE DEF f
  <1>9. AtMostOnce'
    BY <1>7, <1>8, MovesOnce DEF Carried
  <1>10. Comes
    BY <1>7 DEF Comes
  <1>11. Fresh' /\ Known'
    BY <1>2, <1>10, ComesFresh, ComesKnown DEF Carried
  <1>12. Directed'
    <2>1. EndOf[incoming[e].by] = Peer(e)
      BY <1>3, NilIsNoMessage DEF Carried, Directed
    <2>2. \A d \in End : outgoing'[d] # Nil =>
            EndOf[outgoing'[d].request.by] = IF outgoing'[d].kind = "request" THEN d ELSE Peer(d)
      BY <1>2, <1>3, <1>4, <2>1 DEF Carried, Directed
    <2>3. \A d \in End : incoming'[d] # Nil =>
            EndOf[incoming'[d].by] = IF reader'[d] = "return" THEN d ELSE Peer(d)
      BY <1>2, <1>3 DEF Carried, Directed
    <2> QED
      BY <1>2, <2>2, <2>3 DEF Carried, Directed
  <1> QED
    BY <1>9, <1>11, <1>12 DEF Carried

LEMMA WriteCarried ==
  ASSUME Typed, Carried, NEW e \in End, Write(e)
  PROVE  Carried'
PROOF
  <1> DEFINE p == Peer(e)
  <1>0. PICK n : n = Len(wire[p])
    OBVIOUS
  <1> DEFINE out == <<"outgoing", e, 0>>
             end == <<"wire", p, n + 1>>
             f == [x \in Site |-> IF x = end THEN out ELSE x]
  <1>1. /\ UNCHANGED <<order, stage, req, retQueue, incoming, reader>>
        /\ outgoing' = [outgoing EXCEPT ![e] = Nil]
    BY DEF Write, callVars, readVars
  <1>2. /\ outgoing \in [End -> FrameSet \cup {Nil}] /\ outgoing[e] \in FrameSet
        /\ wire \in [End -> Seq(FrameSet)] /\ p \in End /\ p # e
        /\ Peer(p) = e
    BY Peers DEF Write, Typed, TypeOK, Slots
  <1>3. /\ \A d \in End : outgoing'[d] # Nil => outgoing'[d] = outgoing[d] /\ d # e
        /\ outgoing'[e] = Nil
    BY <1>1, <1>2
  <1>4. out \in Site /\ Held(out)' = Nil /\ Held(out) = outgoing[e].request
    BY <1>2, <1>3, Sites, NilIsNoMessage DEF Held
  <1>5. CASE wire' = wire
    <2>1. Shrinks
      <3> SUFFICES ASSUME NEW x \in Site
                   PROVE  Held(x)' \in {Nil, Held(x)}
        BY DEF Shrinks
      <3>1. x[2] \in End
        BY Sites
      <3> QED
        BY <1>1, <1>3, <1>5, <3>1 DEF Held
    <2>2. Directed'
      BY <1>1, <1>3, <1>5 DEF Carried, Directed
    <2> QED
      BY <1>1, <2>1, <2>2, ShrinkCarried
  <1>6. CASE wire' # wire
    <2> DEFINE s == Append(wire[p], outgoing[e])
    <2>1. Len(wire[p]) < WireCapacity /\ wire' = [wire EXCEPT ![p] = s]
      BY <1>6 DEF Write
    <2>2. /\ n \in Nat /\ Len(s) = n + 1
          /\ \A i \in 1 .. n : s[i] = wire[p][i]
          /\ s[n + 1] = outgoing[e]
      BY <1>0, <1>2, AppendFrame
    <2> HIDE DEF s
    <2>3. wire'[p] = s /\ \A d \in End : d # p => wire'[d] = wire[d]
      BY <1>2, <2>1
    <2>4. end \in Site /\ end # out
      <3>1. n + 1 \in 1 .. WireCapacity
        BY <1>0, <2>1, <2>2, SocketAssumption
      <3> QED
        BY <1>2, <3>1, Sites
    <2>5. Held(end)' = Held(out)
      BY <1>4, <2>2, <2>3 DEF Held
    <2>6. \A x \in Site : x # end /\ Held(x)' # Nil => x # out /\ Held(x)' = Held(x)
      <3> SUFFICES ASSUME NEW x \in Site, x # end, Held(x)' # Nil
                   PROVE  Held(x)' = Held(x)
        BY <1>4
      <3>1. PICK d \in End :
              \/ x = <<"outgoing", d, 0>> \/ x = <<"incoming", d, 0>>
              \/ \E i \in 1 .. WireCapacity : x = <<"wire", d, i>>
        BY Sites
      <3>2. CASE x = <<"outgoing", d, 0>> \/ x = <<"incoming", d, 0>>
        BY <1>1, <1>3, <3>2 DEF Held
      <3>3. CASE \E i \in 1 .. WireCapacity : x = <<"wire", d, i>>
        <4>1. PICK i \in 1 .. WireCapacity : x = <<"wire", d, i>>
          BY <3>3
        <4>2. i \in Nat \ {0} /\ i <= Len(wire'[d])
          BY <4>1, SocketAssumption DEF Held
        <4>3. CASE d = p
          <5>1. i <= n
            BY <2>2, <2>3, <4>1, <4>2, <4>3
          <5>2. wire'[p][i] = wire[p][i]
            BY <2>2, <2>3, <4>2, <5>1
          <5> QED
            BY <1>0, <4>1, <4>2, <4>3, <5>1, <5>2 DEF Held
        <4>4. CASE d # p
          BY <2>3, <4>1, <4>4 DEF Held
        <4> QED
          BY <4>3, <4>4
      <3> QED
        BY <3>1, <3>2, <3>3
    <2>7. \A x \in Site : Held(x)' # Nil => f[x] \in Site /\ Held(f[x]) = Held(x)'
      <3> SUFFICES ASSUME NEW x \in Site, Held(x)' # Nil
                   PROVE  f[x] \in Site /\ Held(f[x]) = Held(x)'
        OBVIOUS
      <3>1. CASE x = end
        BY <1>4, <2>5, <3>1
      <3>2. CASE x # end
        BY <2>6, <3>2
      <3> QED
        BY <3>1, <3>2
    <2>8. \A x, y \in Site : Held(x)' # Nil /\ Held(y)' # Nil /\ f[x] = f[y] => x = y
      BY <2>6
    <2> HIDE DEF f
    <2>9. AtMostOnce'
      BY <2>7, <2>8, MovesOnce DEF Carried
    <2>10. Comes
      BY <2>7 DEF Comes
    <2>11. Fresh' /\ Known'
      BY <1>1, <2>10, ComesFresh, ComesKnown DEF Carried
    <2>12. Directed'
      <3>1. EndOf[outgoing[e].request.by] = IF outgoing[e].kind = "ack" THEN p ELSE Peer(p)
        <4>1. outgoing[e].kind \in {"request", "ack"}
          BY <1>2 DEF FrameSet
        <4>2. EndOf[outgoing[e].request.by] = IF outgoing[e].kind = "request" THEN e ELSE p
          BY <1>2, NilIsNoMessage DEF Carried, Directed
        <4> QED
          BY <1>2, <4>1, <4>2
      <3>2. ASSUME NEW d \in End, NEW i \in 1 .. Len(wire'[d])
            PROVE  EndOf[wire'[d][i].request.by] = IF wire'[d][i].kind = "ack" THEN d ELSE Peer(d)
        <4>1. CASE d # p
          BY <2>3, <3>2, <4>1 DEF Carried, Directed
        <4>2. CASE d = p /\ i = n + 1
          BY <2>2, <2>3, <3>1, <4>2
        <4>3. CASE d = p /\ i # n + 1
          <5>1. i \in 1 .. n
            BY <2>2, <2>3, <4>3
          <5>2. wire'[d][i] = wire[d][i]
            BY <2>2, <2>3, <4>3, <5>1
          <5> QED
            BY <1>0, <4>3, <5>1, <5>2 DEF Carried, Directed
        <4> QED
          BY <4>1, <4>2, <4>3
      <3> QED
        BY <1>1, <1>3, <3>2 DEF Carried, Directed
    <2> QED
      BY <2>9, <2>11, <2>12 DEF Carried
  <1> QED
    BY <1>5, <1>6

LEMMA ReadCarried ==
  ASSUME Typed, Carried, NEW e \in End, ReadRequest(e) \/ ReadAnswer(e)
  PROVE  Carried'
PROOF
  <1>0. PICK n : n = Len(wire[e])
    OBVIOUS
  <1> DEFINE in == <<"incoming", e, 0>>
             first == <<"wire", e, 1>>
             f == [x \in Site |-> IF x = in THEN first
                                  ELSE IF x[1] = "wire" /\ x[2] = e THEN <<"wire", e, x[3] + 1>>
                                  ELSE x]
             t == Tail(wire[e])
             h == wire[e][1]
  <1>1. /\ wire[e] \in Seq(FrameSet) /\ wire[e] # <<>> /\ n <= WireCapacity
        /\ WireCapacity \in Nat /\ reader[e] = "read"
    BY <1>0, SocketAssumption DEF ReadRequest, ReadAnswer, Arrives, Typed, TypeOK
  <1>2. /\ n \in Nat \ {0} /\ h \in FrameSet /\ Head(wire[e]) = h
        /\ Len(t) = n - 1 /\ \A i \in 1 .. n - 1 : t[i] = wire[e][i + 1]
    BY <1>0, <1>1, TailFrames
  <1>3. h.request \in Message /\ h.request # Nil
    BY <1>2, NilIsNoMessage DEF FrameSet
  <1>4. /\ UNCHANGED <<order, stage, req, retQueue, outgoing>>
        /\ incoming' = [incoming EXCEPT ![e] = h.request]
        /\ reader' = [reader EXCEPT ![e] = IF h.kind = "ack" THEN "return" ELSE "handle"]
        /\ wire' = [wire EXCEPT ![e] = t]
    BY <1>2 DEF ReadRequest, ReadAnswer, Arrives, callVars, writeVars
  <1> HIDE DEF t, h
  <1>5. /\ incoming'[e] = h.request /\ wire'[e] = t
        /\ \A d \in End : d # e => /\ incoming'[d] = incoming[d] /\ wire'[d] = wire[d]
                                   /\ reader'[d] = reader[d]
        /\ reader'[e] = IF h.kind = "ack" THEN "return" ELSE "handle"
    BY <1>4 DEF Typed, TypeOK
  <1>6. /\ in \in Site /\ first \in Site
        /\ \A i \in 1 .. n - 1 : <<"wire", e, i + 1>> \in Site
    <2>1. 1 \in 1 .. WireCapacity /\ \A i \in 1 .. n - 1 : i + 1 \in 1 .. WireCapacity
      BY <1>1, <1>2
    <2> QED
      BY <2>1, Sites
  <1>7. Held(in)' = Held(first)
    BY <1>0, <1>2, <1>5 DEF Held, h
  <1>8. ASSUME NEW i \in 1 .. WireCapacity, Held(<<"wire", e, i>>)' # Nil
        PROVE  i \in 1 .. n - 1 /\ Held(<<"wire", e, i>>)' = Held(<<"wire", e, i + 1>>)
    <2>1. i \in Nat \ {0} /\ i <= Len(wire'[e])
      BY <1>1, <1>8 DEF Held
    <2>2. i \in 1 .. n - 1 /\ i + 1 <= Len(wire[e])
      BY <1>0, <1>2, <1>5, <2>1
    <2>3. Held(<<"wire", e, i>>)' = wire'[e][i].request
      BY <2>1 DEF Held
    <2>4. Held(<<"wire", e, i + 1>>) = wire[e][i + 1].request
      BY <2>2 DEF Held
    <2>5. wire'[e][i] = wire[e][i + 1]
      BY <1>2, <1>5, <2>2
    <2> QED
      BY <2>2, <2>3, <2>4, <2>5
  <1>9. ASSUME NEW x \in Site, x # in, ~(x[1] = "wire" /\ x[2] = e)
        PROVE  Held(x)' = Held(x)
    <2>1. /\ x[2] \in End /\ (x[1] = "incoming" => x[2] # e)
          /\ x[1] \notin {"outgoing", "incoming"} => x[2] # e
      BY <1>9, Sites
    <2> QED
      BY <1>4, <1>5, <1>9, <2>1 DEF Held
  <1>10. ASSUME NEW x \in Site, x[1] = "wire", x[2] = e
         PROVE  \E i \in 1 .. WireCapacity : x = <<"wire", e, i>>
    BY <1>10, Sites
  <1>11. ASSUME NEW x \in Site, Held(x)' # Nil
         PROVE  f[x] \in Site /\ Held(f[x]) = Held(x)'
    <2>1. CASE x = in
      BY <1>6, <1>7, <2>1
    <2>2. CASE x[1] = "wire" /\ x[2] = e
      <3>1. PICK i \in 1 .. WireCapacity : x = <<"wire", e, i>>
        BY <1>10, <2>2
      <3>2. i \in 1 .. n - 1 /\ Held(x)' = Held(<<"wire", e, i + 1>>)
        BY <1>8, <1>11, <3>1
      <3>3. f[x] = <<"wire", e, i + 1>>
        BY <3>1
      <3> QED
        BY <1>6, <3>2, <3>3
    <2>3. CASE x # in /\ ~(x[1] = "wire" /\ x[2] = e)
      <3>1. f[x] = x
        BY <2>3
      <3> QED
        BY <1>9, <2>3, <3>1
    <2> QED
      BY <2>1, <2>2, <2>3
  <1>12. ASSUME NEW x \in Site, NEW y \in Site, f[x] = f[y]
         PROVE  x = y
    <2>1. \A z \in Site :
            \/ z = in /\ f[z] = first
            \/ \E i \in 1 .. WireCapacity : z = <<"wire", e, i>> /\ f[z] = <<"wire", e, i + 1>>
            \/ z # in /\ ~(z[1] = "wire" /\ z[2] = e) /\ f[z] = z
      BY <1>10
    <2>2. \A i, j \in 1 .. WireCapacity : i + 1 = j + 1 => i = j
      BY <1>1
    <2>3. \A i \in 1 .. WireCapacity : i + 1 # 1
      BY <1>1
    <2> HIDE DEF f
    <2>4. ASSUME NEW z \in Site, z # in, ~(z[1] = "wire" /\ z[2] = e)
          PROVE  z # first /\ \A i \in 1 .. WireCapacity : z # <<"wire", e, i + 1>>
      BY <2>4
    <2>5. CASE x = in /\ f[x] = first
      BY <1>12, <2>1, <2>3, <2>4, <2>5
    <2>6. CASE \E i \in 1 .. WireCapacity : x = <<"wire", e, i>> /\ f[x] = <<"wire", e, i + 1>>
      BY <1>12, <2>1, <2>2, <2>3, <2>4, <2>6
    <2>7. CASE x # in /\ ~(x[1] = "wire" /\ x[2] = e) /\ f[x] = x
      BY <1>12, <2>1, <2>4, <2>7
    <2> QED
      BY <2>1, <2>5, <2>6, <2>7
  <1> HIDE DEF f
  <1>13. AtMostOnce'
    BY <1>11, <1>12, MovesOnce DEF Carried
  <1>14. Comes
    BY <1>11 DEF Comes
  <1>15. Fresh' /\ Known'
    BY <1>4, <1>14, ComesFresh, ComesKnown DEF Carried
  <1>16. Directed'
    <2>1. EndOf[h.request.by] = IF h.kind = "ack" THEN e ELSE Peer(e)
      BY <1>0, <1>2 DEF Carried, Directed, h
    <2>2. \A d \in End : incoming'[d] # Nil =>
            EndOf[incoming'[d].by] = IF reader'[d] = "return" THEN d ELSE Peer(d)
      BY <1>5, <2>1 DEF Carried, Directed
    <2>3. ASSUME NEW d \in End, NEW i \in 1 .. Len(wire'[d])
          PROVE  EndOf[wire'[d][i].request.by] = IF wire'[d][i].kind = "ack" THEN d ELSE Peer(d)
      <3>1. CASE d # e
        BY <1>5, <2>3, <3>1 DEF Carried, Directed
      <3>2. CASE d = e
        <4>1. i \in 1 .. n - 1 /\ i + 1 \in 1 .. Len(wire[e])
          BY <1>0, <1>2, <1>5, <2>3, <3>2
        <4>2. wire'[e][i] = wire[e][i + 1]
          BY <1>2, <1>5, <4>1
        <4> QED
          BY <3>2, <4>1, <4>2 DEF Carried, Directed
      <3> QED
        BY <3>1, <3>2
    <2> QED
      BY <1>4, <2>2, <2>3 DEF Carried, Directed
  <1> QED
    BY <1>13, <1>15, <1>16 DEF Carried

\* The steps of the reader goroutine that lose what it holds, or what is to be read.
LEMMA StopCarried ==
  ASSUME Typed, Carried, NEW e \in End,
         Handled(e) \/ NotHandled(e) \/ DropAnswer(e) \/ ReadError(e) \/ TellWriter(e)
  PROVE  Carried'
PROOF
  <1>1. UNCHANGED <<outgoing, order, stage, req, retQueue>>
    BY DEF Handled, NotHandled, DropAnswer, ReadError, TellWriter, callVars, writeVars
  <1>2. \A d \in End : wire'[d] = wire[d] \/ (wire'[d] = <<>> /\ Len(wire'[d]) = 0)
    <2>1. wire' = wire \/ wire' = [wire EXCEPT ![e] = <<>>]
      BY DEF Handled, NotHandled, DropAnswer, ReadError, TellWriter
    <2> QED
      BY <2>1, EmptySeq DEF Typed, TypeOK
  <1>3. \A d \in End : \/ incoming'[d] = Nil
                       \/ /\ incoming'[d] = incoming[d]
                          /\ reader'[d] = "return" <=> reader[d] = "return"
    BY DEF Handled, NotHandled, DropAnswer, ReadError, TellWriter, Typed, TypeOK, Slots
  <1>4. Shrinks
    <2> SUFFICES ASSUME NEW x \in Site
                 PROVE  Held(x)' \in {Nil, Held(x)}
      BY DEF Shrinks
    <2>1. /\ x[2] \in End
          /\ x[1] \notin {"outgoing", "incoming"} => x[3] \in 1 .. WireCapacity
      BY Sites
    <2>2. x[1] \notin {"outgoing", "incoming"} => ~(x[3] <= 0)
      BY <2>1, SocketAssumption
    <2> QED
      BY <1>1, <1>2, <1>3, <2>1, <2>2 DEF Held
  <1>5. Directed'
    <2>1. ASSUME NEW d \in End, NEW i \in 1 .. Len(wire'[d])
          PROVE  EndOf[wire'[d][i].request.by] = IF wire'[d][i].kind = "ack" THEN d ELSE Peer(d)
      <3>1. wire'[d] = wire[d]
        BY <1>2, <2>1
      <3> QED
        BY <2>1, <3>1 DEF Carried, Directed
    <2> QED
      BY <1>1, <1>3, <2>1 DEF Carried, Directed
  <1> QED
    BY <1>1, <1>4, <1>5, ShrinkCarried

\* The request whose answer has come is taken out of ret_queue; it is on its way
\* nowhere else.
LEMMA ReturnCarried ==
  ASSUME Typed, Carried, NEW e \in End, ReturnAnswer(e) \/ DropReturn(e)
  PROVE  Carried'
PROOF
  <1> DEFINE in == <<"incoming", e, 0>>
  <1>1. /\ UNCHANGED <<order, req, outgoing, wire>>
        /\ incoming' = [incoming EXCEPT ![e] = Nil]
        /\ reader' = [reader EXCEPT ![e] = "read"]
        /\ retQueue' = [retQueue EXCEPT ![e] = @ \ {incoming[e]}]
    BY DEF ReturnAnswer, DropReturn, Forget, Returns, callVars, writeVars
  <1>2. \A g \in Requester : stage'[g] = "offer" => stage[g] = "offer"
    BY DEF ReturnAnswer, DropReturn, Returns, callVars, Typed, TypeOK
  <1>3. /\ incoming'[e] = Nil
        /\ \A d \in End : d # e => incoming'[d] = incoming[d] /\ reader'[d] = reader[d]
    BY <1>1 DEF Typed, TypeOK
  <1>4. Shrinks
    <2> SUFFICES ASSUME NEW x \in Site
                 PROVE  Held(x)' \in {Nil, Held(x)}
      BY DEF Shrinks
    <2>1. x[2] \in End
      BY Sites
    <2> QED
      BY <1>1, <1>3, <2>1 DEF Held
  <1>5. AtMostOnce' /\ Fresh'
    BY <1>1, <1>2, <1>4, ShrinksOnce, ShrinksComes, ComesFresh DEF Carried
  <1>6. Known'
    <2> SUFFICES ASSUME NEW x \in Site, Held(x)' # Nil
                 PROVE  Held(x)' \in retQueue'[EndOf[Held(x)'.by]]
      BY DEF Known
    <2>1. Held(x)' = Held(x) /\ Held(x) # Nil
      BY <1>4 DEF Shrinks
    <2>2. EndOf[Held(x).by] \in End
      BY <2>1, HeldType, SocketAssumption DEF Message
    <2>3. x # in
      BY <1>3 DEF Held
    <2>4. Held(in) = incoming[e] /\ in \in Site
      BY Sites DEF Held
    <2>5. Held(x) # incoming[e]
      BY <2>1, <2>3, <2>4 DEF Carried, AtMostOnce
    <2>6. Held(x) \in retQueue[EndOf[Held(x).by]]
      BY <2>1 DEF Carried, Known
    <2> QED
      BY <1>1, <2>1, <2>2, <2>5, <2>6 DEF Typed, TypeOK
  <1>7. Directed'
    BY <1>1, <1>3 DEF Carried, Directed
  <1> QED
    BY <1>5, <1>6, <1>7 DEF Carried

LEMMA CutCarried ==
  ASSUME Typed, Carried, NEW c \in Connection, Cut(c)
  PROVE  Carried'
PROOF
  <1>1. UNCHANGED <<outgoing, incoming, reader, order, stage, req, retQueue>>
    BY DEF Cut, callVars, readVars, writeVars
  <1>2. PICK n \in [End -> Nat] :
          /\ \A e \in End : n[e] <= Len(wire[e])
          /\ wire' = [e \in End |-> SubSeq(wire[e], 1, n[e])]
    BY CutWires
  <1>3. \A e \in End : wire[e] \in Seq(FrameSet) /\ n[e] \in Nat /\ Len(wire[e]) \in Nat
    BY <1>2, LenProperties DEF Typed, TypeOK
  <1>4. \A e \in End : /\ Len(wire'[e]) = n[e] /\ n[e] <= Len(wire[e])
                       /\ \A i \in 1 .. n[e] : wire'[e][i] = wire[e][i]
    BY <1>2, <1>3, PrefixOfFrames
  <1>5. Shrinks
    <2> SUFFICES ASSUME NEW x \in Site
                 PROVE  Held(x)' \in {Nil, Held(x)}
      BY DEF Shrinks
    <2>1. PICK e \in End :
            \/ x = <<"outgoing", e, 0>> \/ x = <<"incoming", e, 0>>
            \/ \E i \in 1 .. WireCapacity : x = <<"wire", e, i>>
      BY Sites
    <2>2. CASE x = <<"outgoing", e, 0>> \/ x = <<"incoming", e, 0>>
      BY <1>1, <2>2 DEF Held
    <2>3. CASE \E i \in 1 .. WireCapacity : x = <<"wire", e, i>>
      <3>1. PICK i \in 1 .. WireCapacity : x = <<"wire", e, i>>
        BY <2>3
      <3>2. CASE i <= n[e]
        <4>1. i \in 1 .. n[e] /\ i <= Len(wire[e]) /\ i <= Len(wire'[e])
          BY <1>3, <1>4, <3>2, SocketAssumption
        <4>2. wire'[e][i] = wire[e][i]
          BY <1>4, <4>1
        <4> QED
          BY <3>1, <4>1, <4>2 DEF Held
      <3>3. CASE ~(i <= n[e])
        BY <1>4, <3>1, <3>3 DEF Held
      <3> QED
        BY <3>2, <3>3
    <2> QED
      BY <2>1, <2>2, <2>3
  <1>6. Directed'
    <2>1. ASSUME NEW d \in End, NEW i \in 1 .. Len(wire'[d])
          PROVE  EndOf[wire'[d][i].request.by] = IF wire'[d][i].kind = "ack" THEN d ELSE Peer(d)
      <3>1. i \in 1 .. n[d] /\ i \in 1 .. Len(wire[d])
        BY <1>3, <1>4, <2>1
      <3>2. wire'[d][i] = wire[d][i]
        BY <1>4, <3>1
      <3> QED
        BY <3>1, <3>2 DEF Carried, Directed
    <2> QED
      BY <1>1, <2>1 DEF Carried, Directed
  <1> QED
    BY <1>1, <1>5, <1>6, ShrinkCarried

LEMMA ClosedCarried ==
  ASSUME Typed, Carried, NEW c \in Connection, CLoseSocket(c)
  PROVE  Carried'
PROOF
  <1>1. UNCHANGED <<outgoing, incoming, wire, order, req, retQueue, reader, stage>>
    BY DEF CLoseSocket, callVars, readVars, writeVars
  <1>2. Directed'
    BY <1>1 DEF Carried, Directed
  <1> QED
    BY <1>1, <1>2, SameShrinks, ShrinkCarried

LEMMA StutterCarried ==
  ASSUME Typed, Carried, UNCHANGED vars
  PROVE  Carried'
PROOF
  <1>1. UNCHANGED <<outgoing, incoming, wire, order, req, retQueue, reader, stage>>
    BY DEF vars, callVars, readVars, writeVars
  <1>2. Directed'
    BY <1>1 DEF Carried, Directed
  <1> QED
    BY <1>1, <1>2, SameShrinks, ShrinkCarried

LEMMA StepCarried ==
  ASSUME Typed, Carried, [Next]_vars
  PROVE  Carried'
PROOF
  <1>1. ASSUME NEW g \in Requester, Request(g) \/ CallStep(g)
        PROVE  Carried'
    BY <1>1, RequestCarried, GiveUpCarried, TakeRequestCarried DEF CallStep
  <1>2. ASSUME NEW e \in End, WriterStep(e) \/ CloseNotify(e)
        PROVE  Carried'
    BY <1>2, TakeAnswerCarried, WriteCarried, CloseCarried DEF WriterStep, WriterMoves
  <1>3. ASSUME NEW e \in End, ReaderStep(e)
        PROVE  Carried'
    BY <1>3, ReadCarried, StopCarried, ReturnCarried DEF ReaderStep, ReaderMoves
  <1> QED
    BY <1>1, <1>2, <1>3, CutCarried, ClosedCarried, StutterCarried DEF Next

LEMMA InitCarried ==
  ASSUME Init
  PROVE  Carried
PROOF
  <1>1. \A e \in End : Len(wire[e]) = 0 /\ outgoing[e] = Nil /\ incoming[e] = Nil
    BY EmptySeq DEF Init
  <1>2. \A x \in Site : Held(x) = Nil
    <2> SUFFICES ASSUME NEW x \in Site
                 PROVE  Held(x) = Nil
      OBVIOUS
    <2>1. /\ x[2] \in End
          /\ x[1] \notin {"outgoing", "incoming"} => x[3] \in 1 .. WireCapacity
      BY Sites
    <2>2. x[1] \notin {"outgoing", "incoming"} => ~(x[3] <= 0)
      BY <2>1, SocketAssumption
    <2> QED
      BY <1>1, <2>1, <2>2 DEF Held
  <1>3. Directed
    BY <1>1 DEF Directed
  <1> QED
    BY <1>2, <1>3 DEF Carried, AtMostOnce, Fresh, Known

-----------------------------------------------------------------------------
(***************************************************************************)
(* What Request returns.                                                   *)
(***************************************************************************)
LEMMA StepOwnAnswer ==
  ASSUME Typed, OwnAnswer, [Next]_vars
  PROVE  OwnAnswer'
PROOF
  <1> USE DEF Typed, TypeOK, OwnAnswer
  <1>1. ASSUME NEW g \in Requester, Request(g)
        PROVE  OwnAnswer'
    BY <1>1 DEF Request
  <1>2. ASSUME NEW g \in Requester, CallStep(g)
        PROVE  OwnAnswer'
    BY <1>2 DEF CallStep, NotOffered, Unanswered, TakeRequest, Returns
  <1>3. ASSUME NEW e \in End, WriterStep(e) \/ CloseNotify(e)
        PROVE  OwnAnswer'
    BY <1>3 DEF WriterStep, WriterMoves, TakeAnswer, Write, WriteError, IdleClose,
                CloseNotify, callVars
  <1>4. ASSUME NEW e \in End, ReturnAnswer(e)
        PROVE  OwnAnswer'
    BY <1>4 DEF ReturnAnswer, Awaits, Returns
  <1>5. ASSUME NEW e \in End, ReaderStep(e), ~ReturnAnswer(e)
        PROVE  OwnAnswer'
    BY <1>5 DEF ReaderStep, ReaderMoves, ReadRequest, Handled, NotHandled, DropAnswer,
                ReadAnswer, DropReturn, TellWriter, ReadError, callVars
  <1>6. ASSUME (\E c \in Connection : Cut(c) \/ CLoseSocket(c)) \/ UNCHANGED vars
        PROVE  OwnAnswer'
    BY <1>6 DEF Cut, CLoseSocket, vars, callVars
  <1> QED
    BY <1>1, <1>2, <1>3, <1>4, <1>5, <1>6 DEF Next

LEMMA StepInv ==
  ASSUME Inv, [Next]_vars
  PROVE  Inv'
PROOF
  BY StepTyped, StepCarried, StepOwnAnswer DEF Inv

\* The inductive invariant: what is on its way is fresh, known and goes the right way.
THEOREM AlwaysInv == Spec => []Inv
PROOF
  <1>1. Init => Inv
    BY TypedInit, InitCarried DEF Inv, Init, OwnAnswer
  <1>2. Inv /\ [Next]_vars => Inv'
    BY StepInv
  <1> QED
    BY <1>1, <1>2, PTL DEF Spec

\* A request, or its answer, is on its way in one place at most, in the goroutines of
\* both ends and on the wires: nothing is delivered twice, whatever times out.
THEOREM AlwaysAtMostOnce == Spec => []AtMostOnce
PROOF
  <1>1. Inv => AtMostOnce
    BY DEF Inv, Carried
  <1> QED
    BY <1>1, AlwaysInv, PTL

\* Request returns the answer of its own request or an error, never a late answer of
\* an earlier one.
THEOREM AlwaysOwnAnswer == Spec => []OwnAnswer
PROOF
  <1>1. Inv => OwnAnswer
    BY DEF Inv
  <1> QED
    BY <1>1, AlwaysInv, PTL

LEMMA InvAnswerFindsRequest ==
  ASSUME Inv
  PROVE  AnswerFindsRequest
PROOF
  <1> SUFFICES ASSUME NEW e \in End, NEW i \in DOMAIN wire[e], wire[e][i].kind = "ack"
               PROVE  wire[e][i].request \in retQueue[e]
    BY DEF AnswerFindsRequest
  <1>1. /\ wire[e] \in Seq(FrameSet) /\ Len(wire[e]) <= WireCapacity
        /\ Len(wire[e]) \in Nat /\ WireCapacity \in Nat
    BY SocketAssumption, LenProperties DEF Inv, Typed, TypeOK
  <1>2. i \in 1 .. Len(wire[e])
    BY <1>1, LenProperties
  <1>3. i \in 1 .. WireCapacity /\ i <= Len(wire[e]) /\ wire[e][i] \in FrameSet
    BY <1>1, <1>2, ElementOfSeq
  <1>4. wire[e][i].request # Nil
    BY <1>3, NilIsNoMessage DEF FrameSet
  <1>5. <<"wire", e, i>> \in Site /\ Held(<<"wire", e, i>>) = wire[e][i].request
    BY <1>3, Sites DEF Held
  <1>6. wire[e][i].request \in retQueue[EndOf[wire[e][i].request.by]]
    BY <1>4, <1>5 DEF Inv, Carried, Known
  <1>7. EndOf[wire[e][i].request.by] = e
    BY <1>2 DEF Inv, Carried, Directed
  <1> QED
    BY <1>6, <1>7

\* Every answer on the wire is that of a request in ret_queue of the end it goes to.
THEOREM AlwaysAnswerFindsRequest == Spec => []AnswerFindsRequest
PROOF
  BY InvAnswerFindsRequest, AlwaysInv, PTL
===============================================================================
