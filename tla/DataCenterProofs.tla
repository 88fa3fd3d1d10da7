-------------------------- MODULE DataCenterProofs --------------------------
(***************************************************************************)
(* The running program, for any number of HTTP goroutines and listeners:   *)
(* what is proved of the control unit holds with the callers it really     *)
(* has, each call has a result channel of its own, and the handler of the  *)
(* connection answers each request once, in order and by its own outcome.  *)
(***************************************************************************)
EXTENDS DataCenter, VisitorsControlProofs, FiniteSetTheorems

-----------------------------------------------------------------------------
(***************************************************************************)
(* The calls that the HTTP goroutines and the handler start.               *)
(***************************************************************************)
\* No request that the control goroutine has, or that waits for it, has the
\* result channel of the next call of c.
Fresh(c, call) ==
  /\ call \in Nat \ {0}
  /\ \A r \in ToSet(readChan) \cup {serving} : r.caller = c => r.call # call
  /\ c \in HttpCaller => call = calls[c] + 1

Makes(c, call, op, first, name, path, data, timeout) ==
  /\ op \in Method /\ name \in Visitor /\ path \in PathOf
  /\ data \in Data \cup {Nil} /\ timeout \in Int
  /\ first \in {"sendWrite", "sendRead", "sendRegister", "load", "find"}
  /\ first = "sendWrite" => data \in Data
  /\ Fresh(c, call)
  /\ Begin(c, call, op, first, name, path, data, timeout)

MakesCall(c) ==
  \E call, op, first, name, path, data, timeout :
    Makes(c, call, op, first, name, path, data, timeout)

\* The control unit does nothing, but the answer of a call may be forgotten.
Rests ==
  UNCHANGED <<value, alive, kernelVars, bufferVars, readChan, clock, pc, req, calls, ptr>>

LEMMA MakesTyped ==
  ASSUME Typed, NEW c \in Caller, MakesCall(c)
  PROVE  Typed' /\ UNCHANGED <<value, alive, kernelVars, bufferVars, readChan, clock, ptr>>
PROOF
  <1>1. PICK call, op, first, name, path, data, timeout :
          Makes(c, call, op, first, name, path, data, timeout)
    BY DEF MakesCall
  <1> DEFINE r == [caller |-> c, call |-> call, op |-> op, visitor |-> name,
                   path |-> path, data |-> data, timeout |-> timeout]
  <1>2. r \in Request /\ r.visitor \in Visitor /\ r.path \in PathOf /\ r.data = data
    BY <1>1 DEF Makes, Fresh, Request
  <1>3. /\ req' = [req EXCEPT ![c] = r] /\ calls' = [calls EXCEPT ![c] = call]
        /\ pc' = [pc EXCEPT ![c] = first]
        /\ UNCHANGED <<value, alive, kernelVars, bufferVars, readChan, clock, ptr>>
    BY <1>1 DEF Makes, Begin
  <1> HIDE DEF r
  <1>4. call \in Nat /\ first \in {"sendWrite", "sendRead", "sendRegister", "load", "find"}
        /\ (first = "sendWrite" => data \in Data)
    BY <1>1 DEF Makes, Fresh
  <1>5. TypeOK'
    BY <1>2, <1>3, <1>4 DEF Typed, TypeOK, kernelVars, bufferVars
  <1>6. Requests'
    BY <1>2, <1>3, <1>4 DEF Typed, TypeOK, Requests, kernelVars
  <1>7. Sequences'
    BY <1>3 DEF Typed, Sequences, bufferVars
  <1> QED
    BY <1>3, <1>5, <1>6, <1>7 DEF Typed

LEMMA RestsTyped == Typed /\ Rests => Typed'
PROOF
  BY DEF Rests, kernelVars, bufferVars, Typed, TypeOK, Requests, Sequences

\* Fewer requests than numbers: FreshCall has one to choose.
LEMMA FreshCallExists ==
  ASSUME Typed, NEW c
  PROVE  /\ FreshCall(c) \in Nat \ {0}
         /\ \A r \in ToSet(readChan) \cup {serving} : r.caller = c => r.call # FreshCall(c)
PROOF
  <1> DEFINE N == Len(readChan)
             held == [i \in 0 .. N |-> IF i = 0 THEN serving.call ELSE readChan[i].call]
             taken == {held[i] : i \in 0 .. N}
             free == 1 .. ReadCapacity + 2
  <1>1. N \in Nat /\ N <= ReadCapacity /\ ReadCapacity \in Nat
    BY ControlAssumption, LenProperties DEF Typed, TypeOK
  <1>2. ToSet(readChan) = {readChan[i] : i \in 1 .. N}
    BY LenProperties DEF ToSet, Typed, TypeOK
  <1>3. \A r \in ToSet(readChan) \cup {serving} : r.call \in taken
    <2>1. serving.call \in taken
      <3>1. 0 \in 0 .. N /\ held[0] = serving.call
        BY <1>1
      <3> QED
        BY <3>1
    <2>2. ASSUME NEW i \in 1 .. N PROVE readChan[i].call \in taken
      <3>1. i \in 0 .. N /\ held[i] = readChan[i].call
        BY <1>1
      <3> QED
        BY <3>1
    <2> QED
      BY <1>2, <2>1, <2>2
  <1> HIDE DEF held
  <1>4. IsFiniteSet(taken) /\ Cardinality(taken) <= N + 1
    <2>1. IsFiniteSet(0 .. N) /\ Cardinality(0 .. N) = N + 1
      BY <1>1, FS_Interval
    <2>2. held \in [0 .. N -> taken]
      BY DEF held
    <2>3. \A y \in taken : \E x \in 0 .. N : held[x] = y
      OBVIOUS
    <2>4. held \in Surjection(0 .. N, taken)
      BY <2>2, <2>3 DEF Surjection
    <2> QED
      BY <2>1, <2>4, FS_Surjection
  <1>5. IsFiniteSet(free) /\ Cardinality(free) = ReadCapacity + 2
    BY <1>1, FS_Interval
  <1> HIDE DEF taken, free
  <1>6. \E n \in free : n \notin taken
    <2>1. SUFFICES ASSUME free \subseteq taken PROVE FALSE
      OBVIOUS
    <2>2. Cardinality(free) <= Cardinality(taken)
      BY <1>4, <2>1, FS_Subset
    <2>3. Cardinality(taken) \in Nat
      BY <1>4, FS_CardinalityType
    <2> QED
      BY <1>1, <1>4, <1>5, <2>2, <2>3
  <1>7. \E n \in 1 .. ReadCapacity + 2 :
          \A r \in ToSet(readChan) \cup {serving} : r.caller = c => r.call # n
    BY <1>3, <1>6 DEF free
  <1>8. /\ FreshCall(c) \in 1 .. ReadCapacity + 2
        /\ \A r \in ToSet(readChan) \cup {serving} : r.caller = c => r.call # FreshCall(c)
    BY <1>7 DEF FreshCall
  <1> QED
    BY <1>1, <1>8

LEMMA CallsMakes ==
  ASSUME Typed, NEW c \in Caller \ HttpCaller, NEW op \in Method, NEW first,
         first \in {"sendWrite", "sendRead", "sendRegister", "load"},
         NEW path \in PathOf, NEW data \in Data \cup {Nil}, first = "sendWrite" => data \in Data,
         NEW timeout \in Int, Calls(c, op, first, path, data, timeout)
  PROVE  MakesCall(c)
PROOF
  <1>1. Client \in Visitor
    BY ServerAssumption
  <1>2. Fresh(c, FreshCall(c))
    BY FreshCallExists DEF Fresh
  <1>3. Makes(c, FreshCall(c), op, first, Client, path, data, timeout)
    BY <1>1, <1>2 DEF Calls, Makes
  <1> QED
    BY <1>3 DEF MakesCall

-----------------------------------------------------------------------------
(***************************************************************************)
(* The types of the handler and of the goroutines it has started.          *)
(***************************************************************************)
Typable(r) ==
  /\ r \in [no : Nat, cmd : Command \cup {"none"}, path : PathOf \cup {<<>>},
            data : Data \cup {Nil}, timeout : Timeout \cup {0},
            stage : {"none", "call", "register", "listening"}, payload : {r.payload}]
  /\ r # NoMessage =>
       /\ r.stage # "none" /\ r.cmd \in Command
       /\ r.path \in PathOf /\ r.data \in Data /\ r.timeout \in Timeout

ServerTyped ==
  /\ asked \in Nat
  /\ Typable(inbox) /\ inbox.stage \in {"none", "call"}
  /\ Typable(handling)
  /\ polling \in [Poll -> {"none", "start", "read", "sent", "ended"}]
  /\ DOMAIN listens = Poll
  /\ \A p \in Poll : polling[p] \in {"start", "read", "sent"} =>
                       listens[p] \in [path : PathOf, timeout : Timeout]
  /\ IsSequence(wire) /\ \A i \in 1 .. Len(wire) : wire[i].no \in Nat
  /\ DOMAIN answer = Caller

LEMMA EmptySequence == IsSequence(<<>>) /\ 1 .. Len(<<>>) = {}
PROOF
  <1>1. <<>> \in Seq({}) /\ Len(<<>>) = 0
    BY EmptySeq
  <1>2. IsSequence(<<>>)
    BY <1>1, SequenceOf
  <1>3. 1 .. Len(<<>>) = {}
    BY <1>1
  <1> QED
    BY <1>2, <1>3

LEMMA ServerTypedInit == CenterInit => ServerTyped
PROOF
  <1> SUFFICES ASSUME CenterInit PROVE ServerTyped
    OBVIOUS
  <1>1. Typable(NoMessage) /\ NoMessage.stage = "none"
    BY DEF Typable, NoMessage
  <1> QED
    BY <1>1, EmptySequence DEF CenterInit, Init, ServerInit, ServerTyped

LEMMA NoMessageIs == Typable(NoMessage) /\ NoMessage.stage = "none" /\ NoMessage.no = 0
PROOF
  BY DEF Typable, NoMessage

\* Frames put on the wire and taken from it.
LEMMA WireTyped ==
  ASSUME ServerTyped
  PROVE  /\ \A frame : frame.no \in Nat =>
              /\ IsSequence(Append(wire, frame))
              /\ \A i \in 1 .. Len(Append(wire, frame)) : Append(wire, frame)[i].no \in Nat
         /\ wire # <<>> => /\ IsSequence(Tail(wire))
                           /\ \A i \in 1 .. Len(Tail(wire)) : Tail(wire)[i].no \in Nat
PROOF
  <1>1. IsSequence(wire) /\ \A i \in 1 .. Len(wire) : wire[i].no \in Nat
    BY DEF ServerTyped
  <1>2. ASSUME NEW frame, frame.no \in Nat
        PROVE  /\ IsSequence(Append(wire, frame))
               /\ \A i \in 1 .. Len(Append(wire, frame)) : Append(wire, frame)[i].no \in Nat
    <2>1. /\ IsSequence(Append(wire, frame))
          /\ Len(wire) \in Nat /\ Len(Append(wire, frame)) = Len(wire) + 1
          /\ \A i \in 1 .. Len(wire) : Append(wire, frame)[i] = wire[i]
          /\ Append(wire, frame)[Len(wire) + 1] = frame
      BY <1>1, SequenceAppend
    <2> QED
      BY <1>1, <1>2, <2>1
  <1>3. ASSUME wire # <<>>
        PROVE  /\ IsSequence(Tail(wire))
               /\ \A i \in 1 .. Len(Tail(wire)) : Tail(wire)[i].no \in Nat
    <2>1. /\ IsSequence(Tail(wire))
          /\ Len(wire) \in Nat \ {0} /\ Len(Tail(wire)) = Len(wire) - 1
          /\ \A i \in 1 .. Len(wire) - 1 : Tail(wire)[i] = wire[i + 1]
      BY <1>1, <1>3, SequenceTail
    <2> QED
      BY <1>1, <2>1
  <1> QED
    BY <1>2, <1>3

\* A call of the server, seen from the answers.
LEMMA AnswersDomain ==
  ASSUME ServerTyped
  PROVE  /\ \A c, op, first, path, data, timeout :
              Calls(c, op, first, path, data, timeout) => DOMAIN answer' = Caller
         /\ \A c : Forgets(c) => DOMAIN answer' = Caller
         /\ \A c, outcome, update : Return(c, outcome, update) => DOMAIN answer' = Caller
PROOF
  BY DEF ServerTyped, Calls, Forgets, Return

LEMMA HandlerTyped ==
  ASSUME ServerTyped, ReaderStep
  PROVE  ServerTyped'
PROOF
  <1>1. CASE HandleRequest
    <2>1. DOMAIN answer' = Caller
      BY <1>1, AnswersDomain DEF HandleRequest
    <2> QED
      BY <1>1, <2>1, NoMessageIs DEF HandleRequest, ServerTyped
  <1>2. CASE RegisterAfterRead
    <2>1. DOMAIN answer' = Caller
      BY <1>2, AnswersDomain DEF RegisterAfterRead
    <2>2. handling # NoMessage /\ Typable(handling)
      BY <1>2 DEF RegisterAfterRead, Returned, ServerTyped
    <2>3. Typable(handling)'
      <3>1. handling' = [handling EXCEPT !.stage = "register", !.payload = Result]
        BY <1>2 DEF RegisterAfterRead
      <3> QED
        BY <2>2, <3>1 DEF Typable, NoMessage
    <2> QED
      BY <1>2, <2>1, <2>3 DEF RegisterAfterRead, ServerTyped
  <1>3. CASE StartPoll
    <2>1. handling # NoMessage /\ Typable(handling)
      BY <1>3 DEF StartPoll, Returned, ServerTyped
    <2>2. Typable(handling)'
      <3>1. handling' = [handling EXCEPT !.stage = "listening"]
        BY <1>3 DEF StartPoll
      <3> QED
        BY <2>1, <3>1 DEF Typable, NoMessage
    <2>3. [path |-> handling.path, timeout |-> handling.timeout] \in [path : PathOf, timeout : Timeout]
      BY <2>1 DEF Typable
    <2>4. /\ polling' \in [Poll -> {"none", "start", "read", "sent", "ended"}]
          /\ DOMAIN listens' = Poll
          /\ \A p \in Poll : polling'[p] \in {"start", "read", "sent"} =>
                               listens'[p] \in [path : PathOf, timeout : Timeout]
      BY <1>3, <2>3 DEF StartPoll, ServerTyped
    <2>5. UNCHANGED <<connection, asked, inbox, wire, view, answer>>
      BY <1>3 DEF StartPoll, vars, callerVars
    <2> QED
      BY <2>2, <2>4, <2>5 DEF ServerTyped
  <1>4. CASE SendReply
    <2>1. DOMAIN answer' = Caller
      BY <1>4, AnswersDomain DEF SendReply
    <2>2. PICK payload : wire' = Append(wire, AnswerTo(handling, payload))
      BY <1>4 DEF SendReply
    <2>3. AnswerTo(handling, payload).no \in Nat
      BY DEF AnswerTo, ServerTyped, Typable
    <2>4. IsSequence(wire') /\ \A i \in 1 .. Len(wire') : wire'[i].no \in Nat
      BY <2>2, <2>3, WireTyped
    <2> QED
      BY <1>4, <2>1, <2>4, NoMessageIs DEF SendReply, ServerTyped
  <1>5. CASE DropReply
    <2>1. DOMAIN answer' = Caller
      BY <1>5, AnswersDomain DEF DropReply
    <2> QED
      BY <1>5, <2>1, NoMessageIs DEF DropReply, ServerTyped
  <1> QED
    BY <1>1, <1>2, <1>3, <1>4, <1>5 DEF ReaderStep

LEMMA PollTyped ==
  ASSUME ServerTyped, NEW p \in Poll, PollStep(p)
  PROVE  ServerTyped'
PROOF
  <1>1. DOMAIN answer' = Caller
    BY AnswersDomain DEF PollStep, PollStarts, PollSkips, PollSends, PollCannotSend, PollEndsTurn,
                         EndsTurn, NextTurn
  <1>2. /\ UNCHANGED <<connection, asked, inbox, handling, listens, view>>
        /\ polling[p] \in {"start", "read", "sent"}
        /\ \E at \in {"read", "sent", "ended"} : polling' = [polling EXCEPT ![p] = at]
    BY DEF PollStep, PollStarts, PollSkips, PollSends, PollCannotSend, PollEndsTurn,
           EndsTurn, NextTurn, PollUnchanged, HasResult
  <1>3. wire' = wire \/ wire' = Append(wire, changeNotify(p, Payload(p)))
    BY DEF PollStep, PollStarts, PollSkips, PollSends, PollCannotSend, PollEndsTurn
  <1>4. changeNotify(p, Payload(p)).no \in Nat
    BY DEF changeNotify
  <1>5. IsSequence(wire') /\ \A i \in 1 .. Len(wire') : wire'[i].no \in Nat
    BY <1>3, <1>4, WireTyped DEF ServerTyped
  <1>6. /\ polling' \in [Poll -> {"none", "start", "read", "sent", "ended"}]
        /\ \A q \in Poll : polling'[q] \in {"start", "read", "sent"} =>
                             polling[q] \in {"start", "read", "sent"}
    BY <1>2 DEF ServerTyped
  <1> QED
    BY <1>1, <1>2, <1>5, <1>6 DEF ServerTyped

LEMMA ClientTyped ==
  ASSUME ServerTyped, ClientAsks \/ ClientReads \/ Disconnect \/ closeNotify
  PROVE  ServerTyped'
PROOF
  <1>1. answer' = answer /\ UNCHANGED <<handling, polling, listens>>
    BY DEF ClientAsks, ClientReads, ClientHears, ClientIgnores, Disconnect, closeNotify, vars,
           callerVars
  <1>2. CASE ClientAsks
    <2>1. PICK cmd \in Command, path \in PathOf, data \in Data, timeout \in Timeout :
            inbox' = [no |-> asked + 1, cmd |-> cmd, path |-> path, data |-> data,
                      timeout |-> timeout, stage |-> "call", payload |-> Nil]
      BY <1>2 DEF ClientAsks
    <2>2. asked \in Nat /\ asked' = asked + 1 /\ wire' = wire
      BY <1>2 DEF ClientAsks, ServerTyped
    <2>3. Typable(inbox)' /\ inbox'.stage = "call"
      BY <2>1, <2>2 DEF Typable
    <2> QED
      BY <1>1, <2>2, <2>3 DEF ServerTyped
  <1>3. CASE ClientReads
    <2>1. wire # <<>> /\ wire' = Tail(wire) /\ UNCHANGED <<asked, inbox>>
      BY <1>3 DEF ClientReads, ClientHears, ClientIgnores
    <2> QED
      BY <1>1, <2>1, WireTyped DEF ServerTyped
  <1>4. CASE Disconnect \/ closeNotify
    BY <1>1, <1>4, EmptySequence, NoMessageIs DEF Disconnect, closeNotify, ServerTyped
  <1> QED
    BY <1>2, <1>3, <1>4

LEMMA ServerTypedStep ==
  ASSUME ServerTyped, ServerStep
  PROVE  ServerTyped'
PROOF
  BY HandlerTyped, PollTyped, ClientTyped DEF ServerStep

-----------------------------------------------------------------------------
(***************************************************************************)
(* Whose a request is.  OwnChannel is not inductive: a number is free      *)
(* again only because the caller that had it has gone back to idle, and a  *)
(* queued request can be the present one of its caller only while that     *)
(* waits for the answer.                                                   *)
(***************************************************************************)
Awaiting == {"awaitWrite", "awaitRead", "awaitRegister"}

\* Request q, held by the control goroutine, is a call that its caller has left
\* behind, or the very call for whose answer it waits.
Held(q, at, of, n) ==
  /\ q.caller \in Caller /\ q.call \in Nat \ {0}
  /\ q.caller \in HttpCaller => q.call <= n[q.caller]
  /\ at[q.caller] # "idle" /\ q.call = n[q.caller] => q = of[q.caller] /\ at[q.caller] \in Awaiting

Numbered(c) == req[c].caller = c /\ req[c].call = calls[c] /\ calls[c] \in Nat \ {0}

Channels ==
  /\ \A c \in Caller : pc[c] # "idle" => Numbered(c)
  /\ IF kpc = "select" THEN serving = NoRequest ELSE Held(serving, pc, req, calls)
  /\ \A i \in 1 .. Len(readChan) : Held(readChan[i], pc, req, calls)
  /\ \A i, j \in 1 .. Len(readChan) : SameChannel(readChan[i], readChan[j]) => i = j
  /\ \A i \in 1 .. Len(readChan) : ~SameChannel(readChan[i], serving)

\* What a step does to a caller d: its call goes on, ends with an answer to that
\* call, or another begins.
Stays(d) == pc'[d] = pc[d] /\ req'[d] = req[d] /\ calls'[d] = calls[d]

Leaves(d) == pc[d] # "idle" /\ pc'[d] = "idle" /\ calls'[d] = calls[d]

Advances(d) ==
  /\ pc[d] \notin Awaiting \cup {"idle"} /\ pc'[d] # "idle"
  /\ req'[d] = req[d] /\ calls'[d] = calls[d]

Begins(d) ==
  /\ pc[d] = "idle" /\ pc'[d] \notin Awaiting \cup {"idle"}
  /\ req'[d].caller = d /\ req'[d].call = calls'[d]
  /\ Fresh(d, calls'[d])

Moves(d) == Stays(d) \/ Leaves(d) \/ Advances(d) \/ Begins(d)

\* The call of d goes on as it was, or has returned with an answer to itself.
Proceeds(d) ==
  \/ Stays(d) /\ answer'[d] = answer[d]
  \/ Leaves(d) /\ answer'[d].op = req[d].op
  \/ Advances(d) /\ answer'[d] = answer[d]

LEMMA NumberedMoves ==
  ASSUME Channels, \A d \in Caller : Moves(d)
  PROVE  \A c \in Caller : pc'[c] # "idle" => Numbered(c)'
PROOF
  BY DEF Channels, Moves, Stays, Leaves, Advances, Begins, Fresh, Numbered

LEMMA HeldMoves ==
  ASSUME Channels, Typed, \A d \in Caller : Moves(d), NEW q \in ToSet(readChan) \cup {serving},
         Held(q, pc, req, calls)
  PROVE  Held(q, pc', req', calls')
PROOF
  <1> DEFINE d == q.caller
  <1>1. d \in Caller /\ q.call \in Nat \ {0}
    BY DEF Held
  <1>2. CASE Stays(d)
    BY <1>2 DEF Stays, Held
  <1>3. CASE Leaves(d)
    BY <1>3 DEF Leaves, Held
  <1>4. CASE Advances(d)
    BY <1>4 DEF Advances, Held
  <1>5. CASE Begins(d)
    <2>1. q.call # calls'[d] /\ calls[d] \in Nat
      BY <1>1, <1>5 DEF Begins, Fresh, Typed, TypeOK
    <2>2. d \in HttpCaller => q.call <= calls'[d]
      BY <1>1, <1>5, <2>1 DEF Begins, Fresh, Held
    <2> QED
      BY <1>1, <2>1, <2>2 DEF Held
  <1> QED
    BY <1>1, <1>2, <1>3, <1>4, <1>5 DEF Moves

LEMMA QueuedIn ==
  ASSUME Typed
  PROVE  Len(readChan) \in Nat /\ DOMAIN readChan = 1 .. Len(readChan)
         /\ \A i \in 1 .. Len(readChan) : readChan[i] \in ToSet(readChan) \cup {serving}
PROOF
  BY LenProperties DEF Typed, TypeOK, ToSet

\* The control goroutine keeps its request and the channel of reads.
LEMMA ChannelsKeep ==
  ASSUME Channels, Typed, \A d \in Caller : Moves(d), UNCHANGED <<readChan, serving>>,
         kpc' = "select" <=> kpc = "select"
  PROVE  Channels'
PROOF
  <1>1. \A i \in 1 .. Len(readChan) : Held(readChan[i], pc', req', calls')
    BY HeldMoves, QueuedIn DEF Channels
  <1>2. kpc # "select" => Held(serving, pc', req', calls')
    BY HeldMoves DEF Channels
  <1> QED
    BY <1>1, <1>2, NumberedMoves DEF Channels

\* It has served its request.
LEMMA ChannelsEnd ==
  ASSUME Channels, Typed, \A d \in Caller : Moves(d), readChan' = readChan, EndRequest
  PROVE  Channels'
PROOF
  <1>1. \A i \in 1 .. Len(readChan) : Held(readChan[i], pc', req', calls')
    BY HeldMoves, QueuedIn DEF Channels
  <1>2. \A i \in 1 .. Len(readChan) : ~SameChannel(readChan[i], NoRequest)
    BY DEF Channels, Held, SameChannel, NoRequest
  <1> QED
    BY <1>1, <1>2, NumberedMoves DEF Channels, EndRequest

\* A caller hands its request over.
HandsOver(c) ==
  /\ pc[c] \notin Awaiting \cup {"idle"} /\ pc'[c] \in Awaiting
  /\ req' = req /\ calls' = calls
  /\ \A d \in Caller \ {c} : pc'[d] = pc[d]

LEMMA HandedOver ==
  ASSUME Channels, Typed, NEW c \in Caller, HandsOver(c)
  PROVE  /\ \A d \in Caller : Moves(d)
         /\ Held(req[c], pc', req', calls')
         /\ \A q : Held(q, pc, req, calls) => ~SameChannel(q, req[c])
PROOF
  <1>1. Numbered(c)
    BY DEF Channels, HandsOver
  <1>2. \A d \in Caller : Moves(d)
    BY DEF HandsOver, Moves, Stays, Advances, Awaiting
  <1>3. Held(req[c], pc', req', calls')
    BY <1>1 DEF HandsOver, Held, Numbered, Awaiting
  <1>4. ASSUME NEW q, Held(q, pc, req, calls), SameChannel(q, req[c]) PROVE FALSE
    BY <1>1, <1>4 DEF HandsOver, Held, Numbered, SameChannel
  <1> QED
    BY <1>2, <1>3, <1>4

LEMMA ChannelsAccept ==
  ASSUME Channels, Typed, NEW c \in Caller, AcceptWrite(c) \/ AcceptRegister(c)
  PROVE  Channels'
PROOF
  <1>1. HandsOver(c)
    BY DEF AcceptWrite, AcceptRegister, Goto, HandsOver, Awaiting, Typed, TypeOK
  <1>2. serving' = req[c] /\ kpc' # "select" /\ readChan' = readChan
    BY DEF AcceptWrite, AcceptRegister, KernelUnchanged
  <1>3. \A i \in 1 .. Len(readChan) : Held(readChan[i], pc', req', calls')
    BY <1>1, HandedOver, HeldMoves, QueuedIn DEF Channels
  <1>4. \A i \in 1 .. Len(readChan) : ~SameChannel(readChan[i], req[c])
    BY <1>1, HandedOver DEF Channels
  <1> QED
    BY <1>1, <1>2, <1>3, <1>4, HandedOver, NumberedMoves DEF Channels

LEMMA ChannelsSend ==
  ASSUME Channels, Typed, NEW c \in Caller, SendRead(c)
  PROVE  Channels'
PROOF
  <1>1. HandsOver(c)
    BY DEF SendRead, Goto, HandsOver, Awaiting, Typed, TypeOK
  <1>2. UNCHANGED <<serving, kpc>> /\ readChan' = Append(readChan, req[c])
    BY DEF SendRead, kernelVars
  <1> DEFINE n == Len(readChan)
  <1>3. /\ n \in Nat /\ Len(readChan') = n + 1
        /\ \A i \in 1 .. n : readChan'[i] = readChan[i]
        /\ readChan'[n + 1] = req[c]
    <2>1. readChan \in Seq(Request) /\ req[c] \in Request
      BY DEF Typed, TypeOK
    <2> QED
      BY <1>2, <2>1, AppendProperties, LenProperties
  <1>4. \A i \in 1 .. n : Held(readChan[i], pc', req', calls') /\ ~SameChannel(readChan[i], req[c])
    BY <1>1, HandedOver, HeldMoves, QueuedIn DEF Channels
  <1>5. /\ kpc # "select" => Held(serving, pc', req', calls') /\ ~SameChannel(serving, req[c])
        /\ kpc = "select" => ~SameChannel(req[c], serving)
    <2>1. kpc # "select" => Held(serving, pc', req', calls') /\ ~SameChannel(serving, req[c])
      BY <1>1, HandedOver, HeldMoves DEF Channels
    <2>2. req[c].call # 0
      BY <1>1 DEF Channels, HandsOver, Numbered
    <2>3. kpc = "select" => serving.call = 0
      BY DEF Channels, NoRequest
    <2> QED
      BY <2>1, <2>2, <2>3 DEF SameChannel
  <1>6. \A i \in 1 .. n + 1 : Held(readChan'[i], pc', req', calls')
    BY <1>1, <1>3, <1>4, HandedOver
  <1>7. ASSUME NEW i \in 1 .. n + 1, NEW j \in 1 .. n + 1, SameChannel(readChan'[i], readChan'[j])
        PROVE  i = j
    <2>1. CASE i \in 1 .. n /\ j \in 1 .. n
      BY <1>3, <1>7, <2>1 DEF Channels
    <2>2. CASE i = n + 1 /\ j \in 1 .. n
      BY <1>3, <1>4, <1>7, <2>2 DEF SameChannel
    <2>3. CASE i \in 1 .. n /\ j = n + 1
      BY <1>3, <1>4, <1>7, <2>3 DEF SameChannel
    <2> QED
      BY <1>3, <2>1, <2>2, <2>3
  <1>8. \A i \in 1 .. n + 1 : ~SameChannel(readChan'[i], serving)
    BY <1>3, <1>5 DEF Channels, SameChannel
  <1>9. \A d \in Caller : pc'[d] # "idle" => Numbered(d)'
    BY <1>1, HandedOver, NumberedMoves
  <1> HIDE DEF n
  <1> QED
    BY <1>2, <1>3, <1>5, <1>6, <1>7, <1>8, <1>9 DEF Channels

LEMMA ChannelsReceive ==
  ASSUME Channels, Typed, AcceptRead
  PROVE  Channels'
PROOF
  <1>1. \A d \in Caller : Moves(d)
    BY DEF AcceptRead, callerVars, Moves, Stays
  <1>2. /\ serving' = Head(readChan) /\ readChan' = Tail(readChan) /\ kpc' # "select"
        /\ readChan # <<>> /\ UNCHANGED <<pc, req, calls>>
    BY DEF AcceptRead, callerVars
  <1> DEFINE n == Len(readChan)
  <1>3. /\ n \in Nat \ {0} /\ Len(readChan') = n - 1 /\ serving' = readChan[1]
        /\ \A i \in 1 .. n - 1 : readChan'[i] = readChan[i + 1]
    <2>1. readChan \in Seq(Request) /\ n \in Nat \ {0}
      BY <1>2, EmptySeq, LenProperties DEF Typed, TypeOK
    <2> QED
      BY <1>2, <2>1, HeadTailProperties
  <1> HIDE DEF n
  <1>4. \A i \in 1 .. n - 1 : i + 1 \in 1 .. n /\ 1 \in 1 .. n /\ i + 1 # 1
    BY <1>3
  <1>5. Held(serving', pc', req', calls')
    <2>1. 1 \in 1 .. n
      BY <1>3
    <2> QED
      BY <1>2, <1>3, <2>1 DEF Channels, n
  <1>6. \A i \in 1 .. n - 1 : Held(readChan'[i], pc', req', calls')
    BY <1>2, <1>3, <1>4 DEF Channels, n
  <1>7. ASSUME NEW i \in 1 .. n - 1, NEW j \in 1 .. n - 1, SameChannel(readChan'[i], readChan'[j])
        PROVE  i = j
    <2>1. i + 1 = j + 1
      BY <1>3, <1>4, <1>7 DEF Channels, n
    <2> QED
      BY <1>3, <2>1
  <1>8. \A i \in 1 .. n - 1 : ~SameChannel(readChan'[i], serving')
    BY <1>3, <1>4 DEF Channels, n
  <1> QED
    BY <1>1, <1>2, <1>3, <1>5, <1>6, <1>7, <1>8, NumberedMoves DEF Channels

-----------------------------------------------------------------------------
(***************************************************************************)
(* What the work of the control unit does to the callers.                  *)
(***************************************************************************)
Answering == Typed /\ DOMAIN answer = Caller

LEMMA ReturnProceeds ==
  ASSUME Answering, NEW c \in Caller, pc[c] # "idle", NEW outcome, NEW update,
         Return(c, outcome, update)
  PROVE  \A d \in Caller : Proceeds(d)
PROOF
  BY DEF Answering, Return, Answer, Proceeds, Leaves, Stays, Typed, TypeOK

LEMMA FinishProceeds ==
  ASSUME Answering, NEW c \in Caller, pc[c] # "idle", NEW result, FinishRead(c, result)
  PROVE  \A d \in Caller : Proceeds(d)
PROOF
  BY ReturnProceeds DEF FinishRead

LEMMA GotoProceeds ==
  ASSUME Answering, NEW c \in Caller, pc[c] \notin Awaiting \cup {"idle"}, NEW label,
         label # "idle", Goto(c, label)
  PROVE  \A d \in Caller : Proceeds(d)
PROOF
  BY DEF Answering, Goto, Proceeds, Advances, Stays, Typed, TypeOK

LEMMA CallersRest ==
  ASSUME UNCHANGED callerVars
  PROVE  \A d \in Caller : Proceeds(d)
PROOF
  BY DEF callerVars, Proceeds, Stays

LEMMA CallerProceeds ==
  ASSUME Answering, NEW c \in Caller, CallerOnly(c) \/ TakeOne(c)
  PROVE  \A d \in Caller : Proceeds(d)
PROOF
  <1>1. CASE WriteNotSent(c) \/ WriteUnanswered(c)
    BY <1>1, ReturnProceeds DEF WriteNotSent, WriteUnanswered
  <1>2. CASE RegisterNotSent(c) \/ RegisterUnanswered(c)
    BY <1>2, ReturnProceeds DEF RegisterNotSent, RegisterUnanswered
  <1>3. CASE ReadNotSent(c) \/ ReadUnanswered(c)
    BY <1>3, FinishProceeds DEF ReadNotSent, ReadUnanswered
  <1>4. CASE GetNothing(c) \/ FindNothing(c)
    BY <1>4, ReturnProceeds DEF GetNothing, FindNothing
  <1>5. CASE TakeOne(c)
    BY <1>5, ReturnProceeds DEF TakeOne
  <1>6. CASE ReadOneTimeout(c) \/ FindSome(c)
    BY <1>6, GotoProceeds DEF ReadOneTimeout, FindSome, Awaiting
  <1>7. CASE Load(c)
    <2>1. PICK label \in {"store", "get"} : Goto(c, label)
      BY <1>7 DEF Load
    <2> QED
      BY <1>7, <2>1, GotoProceeds DEF Load, Awaiting
  <1>8. CASE Get(c)
    BY <1>8 DEF Get, Answering, Proceeds, Advances, Stays, Awaiting, Typed, TypeOK
  <1>9. CASE RaceFatal(c)
    BY <1>9, CallersRest DEF RaceFatal
  <1> QED
    BY <1>1, <1>2, <1>3, <1>4, <1>5, <1>6, <1>7, <1>8, <1>9 DEF CallerOnly

LEMMA ServingProceeds ==
  ASSUME Answering, Serving
  PROVE  \A d \in Caller : Proceeds(d)
PROOF
  <1>1. ASSUME NEW c \in Caller, AcceptWrite(c) \/ AcceptRegister(c) \/ SendRead(c)
        PROVE  \A d \in Caller : Proceeds(d)
    BY <1>1, GotoProceeds DEF AcceptWrite, AcceptRegister, SendRead, Awaiting
  <1>2. ASSUME NEW c \in Caller, AnswerWrite(c) \/ AnswerRegister(c)
        PROVE  \A d \in Caller : Proceeds(d)
    BY <1>2, ReturnProceeds DEF AnswerWrite, AnswerRegister, Awaits
  <1>3. ASSUME NEW c \in Caller, AnswerRead(c) PROVE \A d \in Caller : Proceeds(d)
    BY <1>3, FinishProceeds DEF AnswerRead, AwaitsRead, Awaits
  <1>4. CASE \/ WriteAnswerDropped \/ AcceptRead \/ ReadAnswerDropped
             \/ Lookup \/ KernelLoad \/ KernelGet \/ RegisterAnswerDropped
    BY <1>4, CallersRest DEF WriteAnswerDropped, AcceptRead, ReadAnswerDropped, Lookup, KernelLoad,
                             KernelGet, RegisterAnswerDropped
  <1> QED
    BY <1>1, <1>2, <1>3, <1>4 DEF Serving

LEMMA WorkProceeds ==
  ASSUME Answering, Work
  PROVE  /\ \A d \in Caller : Proceeds(d) /\ Moves(d)
         /\ DOMAIN answer' = Caller
PROOF
  <1>1. ASSUME NEW c \in Caller, CallerOnly(c) \/ TakeOne(c)
        PROVE  \A d \in Caller : Proceeds(d)
    BY <1>1, CallerProceeds
  <1>2. ASSUME Serving PROVE \A d \in Caller : Proceeds(d)
    BY <1>2, ServingProceeds
  <1>3. ASSUME ExecuteWrite \/ Notifying \/ Insert \/ InsertLate PROVE \A d \in Caller : Proceeds(d)
    BY <1>3, CallersRest DEF ExecuteWrite, Notifying, Affect, SkipNil, InsertBlocks, GiveUp,
                             DropListener, NotifyDone, Insert, InsertLate, NotifyUnchanged
  <1>4. ASSUME KernelStore PROVE \A d \in Caller : Proceeds(d)
    BY <1>4, CallersRest DEF KernelStore
  <1>5. ASSUME NEW c \in Caller, Store(c) PROVE \A d \in Caller : Proceeds(d)
    BY <1>5, GotoProceeds DEF Store, Awaiting
  <1>6. \A d \in Caller : Proceeds(d)
    BY <1>1, <1>2, <1>3, <1>4, <1>5 DEF Work, Storing
  <1>7. \A d \in Caller : Proceeds(d) => Moves(d)
    BY DEF Proceeds, Moves
  <1>8. DOMAIN answer' = DOMAIN answer
    <2>1. ASSUME NEW c \in Caller, CallerOnly(c) \/ TakeOne(c) PROVE DOMAIN answer' = DOMAIN answer
      BY <2>1 DEF WriteNotSent, WriteUnanswered, ReadNotSent, ReadUnanswered, RegisterNotSent,
           RegisterUnanswered, Load, GetNothing, Get, ReadOneTimeout, FindNothing, FindSome,
           RaceFatal, CallerOnly, TakeOne, FinishRead, Return, Goto, callerVars
    <2>2. CASE Serving
      BY <2>2 DEF AcceptWrite, AnswerWrite, WriteAnswerDropped, AcceptRead, AnswerRead,
           ReadAnswerDropped, SendRead, AcceptRegister, Lookup, KernelLoad, KernelGet,
           AnswerRegister, RegisterAnswerDropped, Serving, FinishRead, Return, Goto, callerVars
    <2>3. CASE ExecuteWrite \/ Notifying \/ Insert \/ InsertLate
      BY <2>3 DEF ExecuteWrite, Notifying, Affect, SkipNil, InsertBlocks, GiveUp,
                  DropListener, NotifyDone, Insert, InsertLate, NotifyUnchanged, callerVars
    <2>4. CASE Storing
      BY <2>4, StoringEffect DEF Answering
    <2> QED
      BY <2>1, <2>2, <2>3, <2>4 DEF Work
  <1> QED
    BY <1>6, <1>7, <1>8 DEF Answering

LEMMA ChannelsWork ==
  ASSUME Channels, Answering, Work
  PROVE  Channels'
PROOF
  <1> USE WorkProceeds DEF Answering
  <1>1. ASSUME NEW c \in Caller, CallerOnly(c) PROVE Channels'
    BY <1>1, CallerTyped, ChannelsKeep DEF kernelVars
  <1>2. ASSUME NEW c \in Caller, TakeOne(c) PROVE Channels'
    BY <1>2, ChannelsKeep DEF TakeOne, kernelVars
  <1>3. ASSUME NEW c \in Caller, AcceptWrite(c) \/ AcceptRegister(c) PROVE Channels'
    BY <1>3, ChannelsAccept
  <1>4. ASSUME NEW c \in Caller, SendRead(c) PROVE Channels'
    BY <1>4, ChannelsSend
  <1>5. CASE AcceptRead
    BY <1>5, ChannelsReceive
  <1>6. CASE WriteAnswerDropped \/ Lookup \/ KernelLoad \/ KernelGet \/ KernelStore
    BY <1>6, ChannelsKeep DEF WriteAnswerDropped, Lookup, KernelLoad, KernelGet, KernelStore,
                              KernelUnchanged
  <1>7. ASSUME NEW c \in Caller, AnswerWrite(c) PROVE Channels'
    BY <1>7, ChannelsKeep DEF AnswerWrite
  <1>8. ASSUME NEW c \in Caller, AnswerRead(c) \/ AnswerRegister(c) PROVE Channels'
    BY <1>8, ChannelsEnd DEF AnswerRead, AnswerRegister, KernelUnchanged
  <1>9. CASE ReadAnswerDropped \/ RegisterAnswerDropped \/ NotifyDone
    BY <1>9, ChannelsEnd DEF ReadAnswerDropped, RegisterAnswerDropped, NotifyDone, KernelUnchanged,
                             NotifyUnchanged
  <1>10. CASE \/ ExecuteWrite \/ Affect \/ SkipNil \/ InsertBlocks \/ GiveUp \/ DropListener
              \/ Insert \/ InsertLate
    BY <1>10, ChannelsKeep DEF ExecuteWrite, Affect, SkipNil, InsertBlocks, GiveUp, DropListener,
                               Insert, InsertLate, NotifyUnchanged
  <1>11. ASSUME NEW c \in Caller, Store(c) PROVE Channels'
    BY <1>11, ChannelsKeep DEF Store, kernelVars
  <1> QED
    BY <1>1, <1>2, <1>3, <1>4, <1>5, <1>6, <1>7, <1>8, <1>9, <1>10, <1>11
       DEF Work, Serving, Notifying, Storing

LEMMA ChannelsMakes ==
  ASSUME Channels, Typed, NEW c \in Caller, MakesCall(c)
  PROVE  Channels' /\ (\A d \in Caller \ {c} : Stays(d)) /\ Begins(c)
PROOF
  <1>1. PICK call, op, first, name, path, data, timeout :
          Makes(c, call, op, first, name, path, data, timeout)
    BY DEF MakesCall
  <1>2. /\ pc[c] = "idle" /\ pc' = [pc EXCEPT ![c] = first]
        /\ calls' = [calls EXCEPT ![c] = call]
        /\ req' = [req EXCEPT ![c] = [caller |-> c, call |-> call, op |-> op, visitor |-> name,
                                     path |-> path, data |-> data, timeout |-> timeout]]
        /\ first \in {"sendWrite", "sendRead", "sendRegister", "load", "find"}
        /\ Fresh(c, call)
    BY <1>1 DEF Makes, Begin
  <1>3. (\A d \in Caller \ {c} : Stays(d)) /\ Begins(c)
    BY <1>2 DEF Stays, Begins, Awaiting, Typed, TypeOK
  <1>4. \A d \in Caller : Moves(d)
    BY <1>3 DEF Moves
  <1>5. UNCHANGED <<readChan, serving, kpc>>
    BY MakesTyped DEF kernelVars
  <1> QED
    BY <1>3, <1>4, <1>5, ChannelsKeep

LEMMA ChannelsRests == Channels /\ Typed /\ Rests => Channels'
PROOF
  <1> SUFFICES ASSUME Channels, Typed, Rests PROVE Channels'
    OBVIOUS
  <1>1. \A d \in Caller : Moves(d)
    BY DEF Rests, Moves, Stays
  <1>2. UNCHANGED <<readChan, serving, kpc>>
    BY DEF Rests, kernelVars
  <1> QED
    BY <1>1, <1>2, ChannelsKeep

-----------------------------------------------------------------------------
(***************************************************************************)
(* Every step of the program is work of the control unit, a call of an     *)
(* HTTP goroutine, or a step of the connection that calls or does not.     *)
(***************************************************************************)
CenterTyped == Typed /\ ServerTyped /\ Channels

LEMMA HttpMakes ==
  ASSUME CenterTyped, NEW c \in HttpCaller, visitorRead(c) \/ visitorWrite(c)
  PROVE  MakesCall(c) /\ UNCHANGED answer
PROOF
  <1>1. c \in Caller /\ Typed /\ Channels
    BY RestfulAssumption DEF CenterTyped
  <1>2. \A parameter \in VisitorParameter : VisitorName(parameter) \in Visitor
    BY RestfulAssumption, Zenon DEF VisitorName
  <1>3. \A road \in Road : InputFromString(road) \in PathOf
    BY DEF PathOf
  <1>4. \A wait \in WaitParameter : wait # <<>> => WaitTime(wait) \in Int
    <2>1. SUFFICES ASSUME NEW wait \in WaitParameter, wait # <<>>, wait # <<Nil>>
                   PROVE  wait[1] \in Int
      BY DEF WaitTime
    <2>2. wait \in Seq(Int \cup {Nil}) /\ Len(wait) = 1
      <3>1. wait \in Seq(Int \cup {Nil}) /\ Len(wait) <= 1
        BY RestfulAssumption
      <3>2. Len(wait) \in Nat /\ Len(wait) # 0
        BY <2>1, <3>1, EmptySeq, LenProperties
      <3>3. \A n \in Nat : n # 0 /\ n <= 1 => n = 1
        OBVIOUS
      <3> QED
        BY <3>1, <3>2, <3>3, Zenon
    <2>3. wait[1] \in Int \cup {Nil}
      BY <2>2, ElementOfSeq
    <2>4. wait[1] # Nil
      <3>1. ASSUME wait[1] = Nil PROVE wait = <<Nil>>
        <4>1. <<Nil>> \in Seq(Int \cup {Nil}) /\ Len(<<Nil>>) = 1 /\ <<Nil>>[1] = Nil
          OBVIOUS
        <4>2. \A i \in 1 .. Len(wait) : wait[i] = <<Nil>>[i]
          BY <2>2, <3>1, <4>1
        <4> QED
          BY <2>2, <4>1, <4>2, SeqEqual
      <3> QED
        BY <2>1, <3>1
    <2> QED
      BY <2>3, <2>4
  <1>5. Fresh(c, calls[c] + 1)
    <2>1. calls[c] \in Nat
      BY <1>1 DEF Typed, TypeOK
    <2>2. \A r \in ToSet(readChan) \cup {serving} : r.caller = c => r.call # calls[c] + 1
      <3>1. \A i \in 1 .. Len(readChan) : readChan[i].caller = c =>
              readChan[i].call \in Nat /\ readChan[i].call <= calls[c]
        BY <1>1 DEF Channels, Held
      <3>2. serving.caller = c => serving.call \in Nat /\ serving.call <= calls[c]
        BY <1>1, <2>1 DEF Channels, Held, NoRequest
      <3>3. ToSet(readChan) = {readChan[i] : i \in 1 .. Len(readChan)}
        BY <1>1, QueuedIn DEF ToSet
      <3> QED
        BY <2>1, <3>1, <3>2, <3>3
    <2> QED
      BY <2>1, <2>2 DEF Fresh
  <1>6. ASSUME NEW op \in {"Read", "ReadWithTime", "Write"}, NEW first,
               first \in {"sendRead", "find", "sendWrite"},
               NEW parameter \in VisitorParameter, NEW road \in Road,
               NEW data \in Data \cup {Nil}, first = "sendWrite" => data \in Data,
               NEW timeout \in Int,
               HttpCall(c, op, first, parameter, road, data, timeout)
        PROVE  MakesCall(c) /\ UNCHANGED answer
    <2>1. Makes(c, calls[c] + 1, op, first, VisitorName(parameter), InputFromString(road),
                data, timeout)
      BY <1>2, <1>3, <1>5, <1>6 DEF HttpCall, Makes, Method
    <2> QED
      BY <1>6, <2>1 DEF MakesCall, HttpCall
  <1>7. CASE visitorRead(c)
    <2>1. PICK parameter \in VisitorParameter, road \in Road, wait \in WaitParameter :
            IF wait = <<>>
            THEN HttpCall(c, "Read", "sendRead", parameter, road, Nil, -1)
            ELSE HttpCall(c, "ReadWithTime", "find", parameter, road, Nil, WaitTime(wait))
      BY <1>7 DEF visitorRead
    <2>2. CASE wait = <<>>
      BY <1>6, <2>1, <2>2
    <2>3. CASE wait # <<>>
      BY <1>4, <1>6, <2>1, <2>3
    <2> QED
      BY <2>2, <2>3
  <1>8. CASE visitorWrite(c)
    BY <1>6, <1>8 DEF visitorWrite
  <1> QED
    BY <1>7, <1>8

LEMMA ServerMakes ==
  ASSUME CenterTyped, ServerStep
  PROVE  Rests \/ \E c \in Poll \cup {SocketReader} : MakesCall(c)
PROOF
  <1>1. Typed /\ ServerTyped
    BY DEF CenterTyped
  <1>2. Poll \cup {SocketReader} \subseteq Caller \ HttpCaller
    BY ServerAssumption, CenterAssumption
  <1>3. \A c : Forgets(c) => Rests
    BY DEF Forgets, Rests
  <1>4. UNCHANGED vars => Rests
    BY DEF vars, callerVars, Rests
  <1>5. CASE HandleRequest
    <2>1. inbox # NoMessage /\ inbox.path \in PathOf /\ inbox.data \in Data
      BY <1>1, <1>5 DEF HandleRequest, ServerTyped, Typable
    <2>2. CASE inbox.cmd = CmdWrite
      <3>1. Calls(SocketReader, "Write", "sendWrite", inbox.path, inbox.data, 0)
        BY <1>5, <2>2 DEF HandleRequest
      <3> QED
        BY <1>1, <1>2, <2>1, <3>1, CallsMakes DEF Method
    <2>3. CASE inbox.cmd # CmdWrite
      <3>1. Calls(SocketReader, "Read", "sendRead", inbox.path, Nil, -1)
        BY <1>5, <2>3 DEF HandleRequest
      <3> QED
        BY <1>1, <1>2, <2>1, <3>1, CallsMakes DEF Method
    <2> QED
      BY <2>2, <2>3
  <1>6. CASE RegisterAfterRead
    <2>1. handling.path \in PathOf /\ handling.timeout \in Int
      BY <1>1, <1>6, ControlAssumption DEF RegisterAfterRead, Returned, ServerTyped, Typable
    <2>2. Calls(SocketReader, "Register", "sendRegister", handling.path, Nil, handling.timeout)
      BY <1>6 DEF RegisterAfterRead
    <2> QED
      BY <1>1, <1>2, <2>1, <2>2, CallsMakes DEF Method
  <1>7. CASE StartPoll
    BY <1>4, <1>7 DEF StartPoll
  <1>8. CASE SendReply \/ DropReply
    BY <1>3, <1>8 DEF SendReply, DropReply
  <1>9. CASE ClientAsks \/ ClientReads \/ Disconnect \/ closeNotify
    BY <1>4, <1>9 DEF ClientAsks, ClientReads, ClientHears, ClientIgnores, Disconnect, closeNotify
  <1>10. ASSUME NEW p \in Poll, PollStep(p) PROVE Rests \/ MakesCall(p)
    <2>1. listens[p].path \in PathOf /\ listens[p].timeout \in Int
      BY <1>1, <1>10, ControlAssumption DEF ServerTyped, PollStep, PollStarts, PollSkips, PollSends,
           PollCannotSend, PollEndsTurn, HasResult
    <2>2. NextTurn(p) => MakesCall(p)
      BY <1>1, <1>2, <2>1, CallsMakes DEF NextTurn, Method
    <2>3. NextTurn(p) \/ Forgets(p)
      BY <1>10 DEF PollStep, PollStarts, PollSkips, PollSends, PollCannotSend, PollEndsTurn, EndsTurn
    <2> QED
      BY <1>3, <2>2, <2>3
  <1> QED
    BY <1>5, <1>6, <1>7, <1>8, <1>9, <1>10 DEF ServerStep, ReaderStep

LEMMA CenterKinds ==
  ASSUME CenterTyped, [CenterNext]_centerVars
  PROVE  \/ Work /\ UNCHANGED serverVars
         \/ (\E c \in HttpCaller : MakesCall(c)) /\ UNCHANGED <<answer, serverVars>>
         \/ ServerStep /\ (Rests \/ \E c \in Poll \cup {SocketReader} : MakesCall(c))
         \/ UNCHANGED centerVars
PROOF
  <1>1. CASE ControlStep /\ UNCHANGED serverVars
    BY <1>1, WorkKinds DEF ControlStep
  <1>2. CASE HttpRequest /\ UNCHANGED serverVars
    BY <1>2, HttpMakes DEF HttpRequest
  <1>3. CASE ServerStep
    BY <1>3, ServerMakes
  <1> QED
    BY <1>1, <1>2, <1>3 DEF CenterNext

\* The same, seen by the control unit alone.
LEMMA ControlKinds ==
  ASSUME CenterTyped, [CenterNext]_centerVars
  PROVE  Work \/ (\E c \in Caller : MakesCall(c)) \/ Rests
PROOF
  <1>1. UNCHANGED centerVars => Rests
    BY DEF centerVars, vars, callerVars, Rests
  <1>2. HttpCaller \cup Poll \cup {SocketReader} \subseteq Caller
    BY RestfulAssumption, ServerAssumption
  <1> QED
    BY <1>1, <1>2, CenterKinds

LEMMA CenterTypedInit == CenterInit => CenterTyped
PROOF
  <1> SUFFICES ASSUME CenterInit PROVE CenterTyped
    OBVIOUS
  <1>1. Typed /\ ServerTyped
    BY TypedInit, ServerTypedInit DEF CenterInit
  <1>2. Channels
    BY EmptySequence DEF CenterInit, Init, Channels
  <1> QED
    BY <1>1, <1>2 DEF CenterTyped

LEMMA CenterTypedStep == CenterTyped /\ [CenterNext]_centerVars => CenterTyped'
PROOF
  <1> SUFFICES ASSUME CenterTyped, [CenterNext]_centerVars PROVE CenterTyped'
    OBVIOUS
  <1>1. Typed /\ ServerTyped /\ Channels /\ Answering
    BY DEF CenterTyped, Answering, ServerTyped
  <1>2. Typed' /\ Channels'
    <2>1. CASE Work
      BY <1>1, <2>1, TypedWork, ChannelsWork
    <2>2. ASSUME NEW c \in Caller, MakesCall(c) PROVE Typed' /\ Channels'
      BY <1>1, <2>2, MakesTyped, ChannelsMakes
    <2>3. CASE Rests
      BY <1>1, <2>3, RestsTyped, ChannelsRests
    <2> QED
      BY <2>1, <2>2, <2>3, ControlKinds
  <1>3. ServerTyped'
    <2>1. CASE Work /\ UNCHANGED serverVars
      BY <1>1, <2>1, WorkProceeds DEF ServerTyped, serverVars
    <2>2. CASE UNCHANGED <<answer, serverVars>>
      BY <1>1, <2>2 DEF ServerTyped, serverVars
    <2>3. CASE ServerStep
      BY <1>1, <2>3, ServerTypedStep
    <2>4. UNCHANGED centerVars => UNCHANGED <<answer, serverVars>>
      BY DEF centerVars, vars, callerVars
    <2> QED
      BY <2>1, <2>2, <2>3, <2>4, CenterKinds
  <1> QED
    BY <1>2, <1>3 DEF CenterTyped

-----------------------------------------------------------------------------
(***************************************************************************)
(* The control unit with the callers it really has.                        *)
(***************************************************************************)
\* In the running program too the control unit keeps its types: HTTP goroutines, the
\* handler of a connection and its readPolls start no call that could break them.
THEOREM CenterTypeOK == CenterSpec => []TypeOK
PROOF
  <1>1. CenterTyped => TypeOK
    BY DEF CenterTyped, Typed
  <1> QED
    BY <1>1, CenterTypedInit, CenterTypedStep, PTL DEF CenterSpec

LEMMA CenterSound == CenterTyped /\ Sound /\ [CenterNext]_centerVars => Sound'
PROOF
  <1> SUFFICES ASSUME CenterTyped, Sound, [CenterNext]_centerVars PROVE Sound'
    OBVIOUS
  <1>1. Typed
    BY DEF CenterTyped
  <1>2. ASSUME NEW c \in Caller, MakesCall(c) PROVE Sound'
    BY <1>1, <1>2, MakesTyped, SoundFrame DEF kernelVars
  <1>3. CASE Rests
    BY <1>3, SoundFrame DEF Rests, kernelVars
  <1> QED
    BY <1>1, <1>2, <1>3, SoundWork, ControlKinds

\* Time stamps only grow along every buffer from which a readPoll or an HTTP request
\* takes updates (affectedReadReturn, insertUpdate).
THEOREM CenterStampsInOrder == CenterSpec => []StampsInOrder
PROOF
  <1> DEFINE Inv == CenterTyped /\ Sound
  <1>1. CenterInit => Inv
    BY CenterTypedInit, SoundInit DEF CenterInit
  <1>2. Inv /\ [CenterNext]_centerVars => Inv'
    BY CenterTypedStep, CenterSound
  <1>3. Inv => StampsInOrder
    BY OrderedStamps DEF Sound, CenterTyped
  <1> QED
    BY <1>1, <1>2, <1>3, PTL DEF CenterSpec

\* No lost update in the running program: a listener whose readPoll or HTTP request has
\* taken all its updates has seen what its path reads, when no path has leading zeros.
THEOREM CenterDrainedIsCurrent == CanonicalPaths => (CenterSpec => []DrainedIsCurrent)
PROOF
  <1> SUFFICES ASSUME CanonicalPaths PROVE CenterSpec => []DrainedIsCurrent
    OBVIOUS
  <1> DEFINE Inv == CenterTyped /\ Sound /\ DrainedIsCurrent
  <1>1. CenterInit => Inv
    <2>1. CenterInit => DrainedIsCurrent
      BY DEF CenterInit, Init, DrainedIsCurrent
    <2> QED
      BY <2>1, CenterTypedInit, SoundInit DEF CenterInit
  <1>2. Inv /\ [CenterNext]_centerVars => Inv'
    <2> SUFFICES ASSUME CenterTyped, Sound, DrainedIsCurrent, [CenterNext]_centerVars
                 PROVE  DrainedIsCurrent'
      BY CenterTypedStep, CenterSound
    <2>1. Typed
      BY DEF CenterTyped
    <2>2. ASSUME NEW c \in Caller, MakesCall(c) PROVE DrainedIsCurrent'
      BY <2>1, <2>2, MakesTyped, DrainedRest
    <2>3. CASE Rests
      BY <2>3, DrainedRest DEF Rests
    <2> QED
      BY <2>1, <2>2, <2>3, DrainedWork, ControlKinds
  <1>3. Inv => DrainedIsCurrent
    OBVIOUS
  <1> QED
    BY <1>1, <1>2, <1>3, PTL DEF CenterSpec

\* The listener of a client's readPoll or of an HTTP long poll leaves the registry only
\* when its buffer has been found full, as long as no two goroutines are between Load and
\* Store of applyFor for one key: a call that is started, answered or forgotten takes no
\* listener away (applyFor, Remove).
THEOREM CenterListenerKept == CenterSpec /\ []StoresAlone => ListenerKept
PROOF
  <1> DEFINE Inv == CenterTyped /\ Sound /\ Kept
  <1>1. CenterInit => Inv
    BY CenterTypedInit, SoundInit, KeptInit DEF CenterInit
  <1>2. Inv /\ StoresAlone /\ [CenterNext]_centerVars => Kept' /\ KeptAction
    <2> SUFFICES ASSUME Inv, StoresAlone, [CenterNext]_centerVars PROVE Kept' /\ KeptAction
      OBVIOUS
    <2>1. Typed
      BY DEF CenterTyped
    <2>2. ASSUME NEW c \in Caller, MakesCall(c) PROVE Kept' /\ KeptAction
      <3>1. UNCHANGED <<kernelVars, registry>>
        BY <2>1, <2>2, MakesTyped DEF bufferVars
      <3>2. \A d \in Caller : pc'[d] = "store" => pc[d] = "store" /\ req'[d] = req[d]
        BY <2>1, <2>2 DEF MakesCall, Makes, Begin, Typed, TypeOK
      <3> QED
        BY <3>1, <3>2, KeptRest DEF Kept, KeptAction
    <2>3. CASE Rests
      <3>1. UNCHANGED <<kernelVars, registry, pc, req>>
        BY <2>3 DEF Rests, bufferVars
      <3> QED
        BY <3>1, KeptRest DEF Kept, KeptAction
    <2> QED
      BY <2>1, <2>2, <2>3, KeptWork, ControlKinds
  <1>3. Inv /\ StoresAlone /\ [CenterNext]_centerVars => Inv'
    BY <1>2, CenterTypedStep, CenterSound
  <1>4. Inv /\ StoresAlone /\ [CenterNext]_centerVars =>
          [\A k \in Key :
             registry[k] # Nil /\ registry'[k] # registry[k]
               => kpc = "drop" /\ blocked = <<k, registry[k]>>]_vars
    BY <1>2 DEF KeptAction
  <1> QED
    BY <1>1, <1>3, <1>4, PTL DEF CenterSpec, ListenerKept

\* Each call has a result channel of its own (WriteQuickly, ReadQuickly, RegisterNotify:
\* make(chan ..)), which the model numbers and uses again: a late answer never reaches
\* another call, nor does a call get the answer to another's request.
THEOREM CenterOwnChannel == CenterSpec => []OwnChannel
PROOF
  <1>1. CenterTyped => OwnChannel
    <2> SUFFICES ASSUME CenterTyped PROVE OwnChannel
      OBVIOUS
    <2>1. Typed /\ Channels
      BY DEF CenterTyped
    <2>2. DOMAIN readChan = 1 .. Len(readChan)
      BY <2>1, QueuedIn
    <2>3. ASSUME NEW c \in Caller, NEW r \in ToSet(readChan) \cup {serving}, pc[c] # "idle",
                 SameChannel(r, req[c])
          PROVE  r = req[c]
      <3>1. r.caller = c /\ r.call = calls[c] /\ r.call # 0
        BY <2>1, <2>3 DEF Channels, Numbered, SameChannel
      <3>2. Held(r, pc, req, calls)
        <4>1. CASE r = serving
          BY <2>1, <3>1, <4>1 DEF Channels, NoRequest
        <4>2. CASE r \in ToSet(readChan)
          BY <2>1, <2>2, <4>2 DEF Channels, ToSet
        <4> QED
          BY <4>1, <4>2
      <3> QED
        BY <2>3, <3>1, <3>2 DEF Held
    <2> QED
      BY <2>1, <2>2, <2>3 DEF OwnChannel, Channels
  <1> QED
    BY <1>1, CenterTypedInit, CenterTypedStep, PTL DEF CenterSpec

-----------------------------------------------------------------------------
(***************************************************************************)
(* Answers in order.                                                       *)
(***************************************************************************)
\* The handler neither reads nor makes a request, and puts at most a frame on the wire
\* that is no answer.
LEMMA OrderFrame ==
  ASSUME ServerTyped, AnswersInOrder, UNCHANGED <<asked, inbox>>,
         handling' = handling \/ (handling'.no = handling.no /\ handling # NoMessage),
         \/ wire' = wire
         \/ \E frame : frame.no = 0 /\ wire' = Append(wire, frame)
  PROVE  AnswersInOrder'
PROOF
  <1> DEFINE n == Len(wire)
  <1>1. /\ n \in Nat /\ IsSequence(wire) /\ asked \in Nat
        /\ DOMAIN wire = 1 .. n /\ \A i \in 1 .. n : wire[i].no \in Nat
    BY LenProperties DEF ServerTyped, IsSequence
  <1>2. PICK m \in {n, n + 1} :
          /\ DOMAIN wire' = 1 .. m
          /\ \A i \in 1 .. n : wire'[i] = wire[i]
          /\ \A i \in 1 .. m : i \notin 1 .. n => wire'[i].no = 0
    <2>1. CASE wire' = wire
      BY <1>1, <2>1
    <2>2. CASE \E frame : frame.no = 0 /\ wire' = Append(wire, frame)
      <3>1. PICK frame : frame.no = 0 /\ wire' = Append(wire, frame)
        BY <2>2
      <3> DEFINE w == Append(wire, frame)
      <3>6. IsSequence(wire)
        BY <1>1
      <3>2. /\ IsSequence(w) /\ Len(w) = n + 1
            /\ \A i \in 1 .. n : w[i] = wire[i]
            /\ w[n + 1] = frame
        BY <3>6, SequenceAppend DEF n
      <3> HIDE DEF w, n
      <3>3. DOMAIN w = 1 .. n + 1
        BY <3>2, LenProperties DEF IsSequence
      <3>4. \A i \in 1 .. n + 1 : i \notin 1 .. n => i = n + 1
        BY <1>1
      <3>5. wire' = w
        BY <3>1 DEF w
      <3> QED
        BY <3>1, <3>2, <3>3, <3>4, <3>5
    <2> QED
      BY <2>1, <2>2
  <1> HIDE DEF n
  <1>3. \A i, j \in 1 .. m : i < j /\ wire'[j].no # 0 => wire'[i].no < wire'[j].no
    <2> SUFFICES ASSUME NEW i \in 1 .. m, NEW j \in 1 .. m, i < j, wire'[j].no # 0
                 PROVE  wire'[i].no < wire'[j].no
      OBVIOUS
    <2>1. j \in 1 .. n
      BY <1>2
    <2>2. i \in 1 .. n
      BY <1>1, <2>1
    <2> QED
      BY <1>1, <1>2, <2>1, <2>2 DEF AnswersInOrder
  <1>4. ASSUME NEW k \in Nat, \A i \in 1 .. n : wire[i].no < k, k > 0
        PROVE  \A i \in 1 .. m : wire'[i].no < k
    BY <1>2, <1>4
  <1>5. \A i \in 1 .. m : wire'[i].no <= asked
    BY <1>1, <1>2 DEF AnswersInOrder
  <1>6. \A r \in {handling, inbox} \ {NoMessage} : r.no \in 1 .. asked /\ \A i \in 1 .. m : wire'[i].no < r.no
    <2> TAKE r \in {handling, inbox} \ {NoMessage}
    <2>1. r.no \in 1 .. asked /\ \A i \in 1 .. n : wire[i].no < r.no
      BY <1>1 DEF AnswersInOrder
    <2>2. r.no \in Nat /\ r.no > 0
      BY <1>1, <2>1
    <2> QED
      BY <1>4, <2>1, <2>2
  <1>7. /\ \A r \in {handling', inbox} \ {NoMessage} : r.no \in 1 .. asked /\ \A i \in 1 .. m : wire'[i].no < r.no
        /\ handling' # NoMessage /\ inbox # NoMessage => handling'.no < inbox.no
    BY <1>6 DEF AnswersInOrder
  <1> QED
    BY <1>2, <1>3, <1>5, <1>7 DEF AnswersInOrder

LEMMA OrderHandler ==
  ASSUME ServerTyped, AnswersInOrder, ReaderStep
  PROVE  AnswersInOrder'
PROOF
  <1>1. CASE HandleRequest
    <2>1. /\ handling' = inbox /\ inbox' = NoMessage /\ inbox # NoMessage
          /\ UNCHANGED <<wire, asked>>
      BY <1>1 DEF HandleRequest
    <2> QED
      BY <2>1 DEF AnswersInOrder
  <1>2. CASE RegisterAfterRead \/ StartPoll
    <2>1. handling # NoMessage /\ Typable(handling)
      BY <1>2 DEF RegisterAfterRead, StartPoll, Returned, ServerTyped
    <2>2. handling'.no = handling.no
      BY <1>2, <2>1 DEF RegisterAfterRead, StartPoll, Typable
    <2>3. UNCHANGED <<asked, inbox, wire>>
      BY <1>2 DEF RegisterAfterRead, StartPoll
    <2> QED
      BY <2>1, <2>2, <2>3, OrderFrame
  <1>3. CASE SendReply
    <2>1. PICK payload : wire' = Append(wire, AnswerTo(handling, payload))
      BY <1>3 DEF SendReply
    <2>2. handling # NoMessage /\ handling' = NoMessage /\ UNCHANGED <<asked, inbox>>
      BY <1>3 DEF SendReply
    <2> DEFINE frame == AnswerTo(handling, payload)
               n == Len(wire)
    <2>3. frame.no = handling.no
      BY DEF AnswerTo
    <2> HIDE DEF frame
    <2>4. /\ n \in Nat /\ IsSequence(wire) /\ asked \in Nat
          /\ DOMAIN wire = 1 .. n /\ \A i \in 1 .. n : wire[i].no \in Nat
      BY LenProperties DEF ServerTyped, IsSequence
    <2>5. /\ DOMAIN wire' = 1 .. n + 1
          /\ \A i \in 1 .. n : wire'[i] = wire[i]
          /\ wire'[n + 1] = frame
      <3>1. /\ IsSequence(wire') /\ Len(wire') = n + 1
            /\ \A i \in 1 .. n : wire'[i] = wire[i]
            /\ wire'[n + 1] = frame
        BY <2>1, <2>4, SequenceAppend DEF frame
      <3> QED
        BY <3>1, LenProperties DEF IsSequence
    <2> HIDE DEF n
    <2>6. handling.no \in 1 .. asked /\ \A i \in 1 .. n : wire[i].no < handling.no
      BY <2>2, <2>4 DEF AnswersInOrder
    <2>7. \A i \in 1 .. n + 1 : i \notin 1 .. n => i = n + 1
      BY <2>4
    <2>8. \A i, j \in 1 .. n + 1 : i < j /\ wire'[j].no # 0 => wire'[i].no < wire'[j].no
      <3> SUFFICES ASSUME NEW i \in 1 .. n + 1, NEW j \in 1 .. n + 1, i < j, wire'[j].no # 0
                   PROVE  wire'[i].no < wire'[j].no
        OBVIOUS
      <3>1. i \in 1 .. n
        BY <2>4
      <3>2. CASE j \in 1 .. n
        BY <2>4, <2>5, <3>1, <3>2 DEF AnswersInOrder
      <3>3. CASE j = n + 1
        BY <2>3, <2>5, <2>6, <3>1, <3>3
      <3> QED
        BY <2>7, <3>2, <3>3
    <2>9. \A i \in 1 .. n + 1 : wire'[i].no <= handling.no
      BY <2>3, <2>4, <2>5, <2>6, <2>7
    <2>10. \A i \in 1 .. n + 1 : wire'[i].no \in Nat
      BY <2>3, <2>4, <2>5, <2>6, <2>7
    <2>11. \A i \in 1 .. n + 1 : wire'[i].no <= asked
      BY <2>4, <2>6, <2>9, <2>10
    <2>12. inbox # NoMessage => inbox.no \in 1 .. asked /\ \A i \in 1 .. n + 1 : wire'[i].no < inbox.no
      <3> SUFFICES ASSUME inbox # NoMessage
                   PROVE  inbox.no \in 1 .. asked /\ \A i \in 1 .. n + 1 : wire'[i].no < inbox.no
        OBVIOUS
      <3>1. handling.no < inbox.no /\ inbox.no \in 1 .. asked
        BY <2>2 DEF AnswersInOrder
      <3> QED
        BY <2>4, <2>6, <2>9, <2>10, <3>1
    <2> QED
      BY <2>2, <2>5, <2>8, <2>11, <2>12 DEF AnswersInOrder
  <1>4. CASE DropReply
    BY <1>4 DEF DropReply, AnswersInOrder
  <1> QED
    BY <1>1, <1>2, <1>3, <1>4 DEF ReaderStep

LEMMA OrderPoll ==
  ASSUME ServerTyped, AnswersInOrder, NEW p \in Poll, PollStep(p)
  PROVE  AnswersInOrder'
PROOF
  <1>1. UNCHANGED <<asked, inbox, handling>>
    BY DEF PollStep, PollStarts, PollSkips, PollSends, PollCannotSend, PollEndsTurn, PollUnchanged
  <1>2. wire' = wire \/ wire' = Append(wire, changeNotify(p, Payload(p)))
    BY DEF PollStep, PollStarts, PollSkips, PollSends, PollCannotSend, PollEndsTurn
  <1>3. changeNotify(p, Payload(p)).no = 0
    BY DEF changeNotify
  <1> QED
    BY <1>1, <1>2, <1>3, OrderFrame

LEMMA OrderClient ==
  ASSUME ServerTyped, AnswersInOrder, ClientAsks \/ ClientReads \/ Disconnect \/ closeNotify
  PROVE  AnswersInOrder'
PROOF
  <1> DEFINE n == Len(wire)
  <1>1. /\ n \in Nat /\ IsSequence(wire) /\ asked \in Nat
        /\ DOMAIN wire = 1 .. n /\ \A i \in 1 .. n : wire[i].no \in Nat
    BY LenProperties DEF ServerTyped, IsSequence
  <1>2. handling' = handling
    BY DEF ClientAsks, ClientReads, ClientHears, ClientIgnores, Disconnect, closeNotify
  <1>3. CASE ClientAsks
    <2>1. inbox = NoMessage /\ inbox'.no = asked + 1 /\ asked' = asked + 1 /\ wire' = wire
      BY <1>3 DEF ClientAsks
    <2>2. \A i \in 1 .. n : wire[i].no <= asked
      BY <1>1 DEF AnswersInOrder
    <2>3. \A i \in 1 .. n : wire[i].no <= asked + 1 /\ wire[i].no < asked + 1
      BY <1>1, <2>2
    <2>4. asked + 1 \in 1 .. asked + 1
      BY <1>1
    <2>5. handling # NoMessage => /\ handling.no \in 1 .. asked + 1 /\ handling.no < asked + 1
                                  /\ \A i \in 1 .. n : wire[i].no < handling.no
      <3>1. handling # NoMessage => /\ handling.no \in 1 .. asked
                                    /\ \A i \in 1 .. n : wire[i].no < handling.no
        BY <1>1 DEF AnswersInOrder
      <3> QED
        BY <1>1, <3>1
    <2>6. \A i, j \in 1 .. n : i < j /\ wire[j].no # 0 => wire[i].no < wire[j].no
      BY <1>1 DEF AnswersInOrder
    <2> HIDE DEF n
    <2> QED
      BY <1>1, <1>2, <2>1, <2>3, <2>4, <2>5, <2>6 DEF AnswersInOrder
  <1>4. CASE ClientReads
    <2>1. wire # <<>> /\ wire' = Tail(wire) /\ UNCHANGED <<asked, inbox>>
      BY <1>4 DEF ClientReads, ClientHears, ClientIgnores
    <2>2. /\ IsSequence(wire') /\ Len(wire') = n - 1 /\ n \in Nat \ {0}
          /\ \A i \in 1 .. n - 1 : wire'[i] = wire[i + 1]
      BY <1>1, <2>1, SequenceTail
    <2>3. DOMAIN wire' = 1 .. n - 1
      BY <2>2, LenProperties DEF IsSequence
    <2> HIDE DEF n
    <2>4. \A i \in 1 .. n - 1 : i + 1 \in 1 .. n
      BY <2>2
    <2>5. \A i, j \in 1 .. n - 1 : i < j => i + 1 < j + 1
      OBVIOUS
    <2> QED
      BY <1>1, <1>2, <2>1, <2>2, <2>3, <2>4, <2>5 DEF AnswersInOrder
  <1>5. CASE Disconnect
    <2>1. wire' = <<>> /\ inbox' = NoMessage /\ asked' = asked
      BY <1>5 DEF Disconnect
    <2>2. DOMAIN <<>> = {}
      OBVIOUS
    <2> QED
      BY <1>2, <2>1, <2>2 DEF AnswersInOrder
  <1>6. CASE closeNotify
    BY <1>6 DEF closeNotify, AnswersInOrder
  <1> QED
    BY <1>3, <1>4, <1>5, <1>6

\* Each request of a client gets at most one answer, and answers come in the order of
\* the requests, with notifications between them (readSocket runs socketOutputHandle for
\* one request at a time).
THEOREM CenterAnswersInOrder == CenterSpec => []AnswersInOrder
PROOF
  <1> DEFINE Inv == CenterTyped /\ AnswersInOrder
  <1>1. CenterInit => Inv
    <2>1. CenterInit => AnswersInOrder
      <3>1. DOMAIN <<>> = {}
        OBVIOUS
      <3> QED
        BY <3>1 DEF CenterInit, ServerInit, AnswersInOrder
    <2> QED
      BY <2>1, CenterTypedInit
  <1>2. Inv /\ [CenterNext]_centerVars => Inv'
    <2> SUFFICES ASSUME CenterTyped, AnswersInOrder, [CenterNext]_centerVars
                 PROVE  AnswersInOrder'
      BY CenterTypedStep
    <2>1. ServerTyped
      BY DEF CenterTyped
    <2>2. CASE ServerStep
      BY <2>1, <2>2, OrderHandler, OrderPoll, OrderClient DEF ServerStep
    <2>3. CASE UNCHANGED serverVars
      BY <2>3 DEF serverVars, AnswersInOrder
    <2>4. UNCHANGED centerVars => UNCHANGED serverVars
      BY DEF centerVars
    <2> QED
      BY <2>2, <2>3, <2>4, CenterKinds
  <1>3. Inv => AnswersInOrder
    OBVIOUS
  <1> QED
    BY <1>1, <1>2, <1>3, PTL DEF CenterSpec

-----------------------------------------------------------------------------
(***************************************************************************)
(* The outcome of a call goes to the request that made it.                 *)
(***************************************************************************)
\* A goroutine that serves a call serves it after every step of its own call.
LEMMA ProceedsServes ==
  ASSUME NEW c, Proceeds(c), NEW op, NEW path
  PROVE  /\ Serves(c, op, path) => IF pc'[c] = "idle" THEN answer'[c].op = op
                                   ELSE req'[c].op = op /\ req'[c].path = path
                                        /\ req'[c].visitor = Client
         /\ pc[c] = "idle" => pc'[c] = "idle"
PROOF
  BY DEF Proceeds, Serves, Stays, Leaves, Advances

\* What the handler and the readPolls make of a step of the other goroutines.
LEMMA OutcomeFrame ==
  ASSUME CenterTyped, OwnOutcome, UNCHANGED serverVars,
         \A c \in Poll \cup {SocketReader} : Proceeds(c)
  PROVE  OwnOutcome'
PROOF
  <1>1. UNCHANGED <<handling, polling, listens>>
    BY DEF serverVars
  <1>2. IF handling = NoMessage THEN pc'[SocketReader] = "idle"
        ELSE handling.stage \in {"call", "register"} =>
               IF pc'[SocketReader] = "idle" THEN answer'[SocketReader].op = Asking
               ELSE req'[SocketReader].op = Asking /\ req'[SocketReader].path = handling.path
                    /\ req'[SocketReader].visitor = Client
    BY ProceedsServes DEF OwnOutcome
  <1>3. ASSUME NEW p \in Poll
        PROVE  IF polling[p] = "read"
               THEN IF pc'[p] = "idle" THEN answer'[p].op = "ReadBuffer"
                    ELSE req'[p].op = "ReadBuffer" /\ req'[p].path = listens[p].path
                         /\ req'[p].visitor = Client
               ELSE pc'[p] = "idle"
    BY ProceedsServes DEF OwnOutcome
  <1>4. Asking' = Asking
    BY <1>1 DEF Asking
  <1> QED
    BY <1>1, <1>2, <1>3, <1>4 DEF OwnOutcome, Serves

\* A call of c, and what the other goroutines of the server see of it.
LEMMA CallsServes ==
  ASSUME CenterTyped, NEW c \in Caller, NEW op, NEW first, first # "idle", NEW path, NEW data,
         NEW timeout, Calls(c, op, first, path, data, timeout)
  PROVE  /\ pc[c] = "idle" /\ pc'[c] # "idle"
         /\ req'[c].op = op /\ req'[c].path = path /\ req'[c].visitor = Client
         /\ \A d \in Caller \ {c} : pc'[d] = pc[d] /\ req'[d] = req[d] /\ answer'[d] = answer[d]
PROOF
  BY DEF CenterTyped, ServerTyped, Typed, TypeOK, Calls, Begin

LEMMA ForgetsServes ==
  ASSUME CenterTyped, NEW c \in Caller, Forgets(c)
  PROVE  /\ UNCHANGED <<pc, req>>
         /\ \A d \in Caller \ {c} : answer'[d] = answer[d]
PROOF
  BY DEF CenterTyped, ServerTyped, Forgets

HandlerOutcome ==
  IF handling = NoMessage THEN pc[SocketReader] = "idle"
  ELSE handling.stage \in {"call", "register"} => Serves(SocketReader, Asking, handling.path)

PollOutcome(p) ==
  IF polling[p] = "read" THEN Serves(p, "ReadBuffer", listens[p].path) ELSE pc[p] = "idle"

LEMMA OutcomeParts == OwnOutcome <=> HandlerOutcome /\ \A p \in Poll : PollOutcome(p)
PROOF
  BY DEF OwnOutcome, HandlerOutcome, PollOutcome

\* A goroutine whose own state and call stay keeps its outcome.
LEMMA PollFrame ==
  ASSUME NEW p \in Poll, PollOutcome(p), polling'[p] = polling[p], listens'[p] = listens[p],
         pc'[p] = pc[p], req'[p] = req[p], answer'[p] = answer[p]
  PROVE  PollOutcome(p)'
PROOF
  BY DEF PollOutcome, Serves

LEMMA HandlerFrame ==
  ASSUME HandlerOutcome, handling' = handling, pc'[SocketReader] = pc[SocketReader],
         req'[SocketReader] = req[SocketReader], answer'[SocketReader] = answer[SocketReader]
  PROVE  HandlerOutcome'
PROOF
  BY DEF HandlerOutcome, Serves, Asking

LEMMA OutcomeHandler ==
  ASSUME CenterTyped, OwnOutcome, ReaderStep
  PROVE  OwnOutcome'
PROOF
  <1>1. SocketReader \in Caller /\ Poll \subseteq Caller \ {SocketReader}
    BY ServerAssumption
  <1>2. HandlerOutcome /\ \A p \in Poll : PollOutcome(p)
    BY OutcomeParts
  <1>3. Typable(handling) /\ Typable(inbox) /\ (inbox # NoMessage => inbox.stage = "call")
    BY DEF CenterTyped, ServerTyped, Typable
  <1>4. CASE HandleRequest
    <2>1. handling' = inbox /\ inbox # NoMessage /\ UNCHANGED <<polling, listens>>
      BY <1>4 DEF HandleRequest
    <2>2. Asking' = (IF inbox.cmd = CmdWrite THEN "Write" ELSE "Read")
      BY <1>3, <2>1 DEF Asking
    <2>3. PICK op, first, data, timeout :
            /\ op = (IF inbox.cmd = CmdWrite THEN "Write" ELSE "Read") /\ first # "idle"
            /\ Calls(SocketReader, op, first, inbox.path, data, timeout)
      <3>1. CASE inbox.cmd = CmdWrite
        <4>1. Calls(SocketReader, "Write", "sendWrite", inbox.path, inbox.data, 0)
          BY <1>4, <3>1 DEF HandleRequest
        <4> QED
          BY <3>1, <4>1
      <3>2. CASE inbox.cmd # CmdWrite
        <4>1. Calls(SocketReader, "Read", "sendRead", inbox.path, Nil, -1)
          BY <1>4, <3>2 DEF HandleRequest
        <4> QED
          BY <3>2, <4>1
      <3> QED
        BY <3>1, <3>2
    <2>4. HandlerOutcome'
      BY <1>1, <2>1, <2>2, <2>3, CallsServes DEF HandlerOutcome, Serves
    <2>5. \A p \in Poll : PollOutcome(p)'
      BY <1>1, <1>2, <2>1, <2>3, CallsServes, PollFrame
    <2> QED
      BY <2>4, <2>5 DEF OwnOutcome, HandlerOutcome, PollOutcome
  <1>5. CASE RegisterAfterRead
    <2>1. handling # NoMessage /\ UNCHANGED <<polling, listens>>
      BY <1>5 DEF RegisterAfterRead, Returned
    <2>2. handling'.stage = "register" /\ handling'.path = handling.path
      BY <1>3, <1>5 DEF RegisterAfterRead, Typable
    <2>3. Calls(SocketReader, "Register", "sendRegister", handling.path, Nil, handling.timeout)
      BY <1>5 DEF RegisterAfterRead
    <2>4. Asking' = "Register" /\ handling' # NoMessage
      BY <2>2, NoMessageIs DEF Asking
    <2>5. HandlerOutcome'
      BY <1>1, <2>2, <2>3, <2>4, CallsServes DEF HandlerOutcome, Serves
    <2>6. \A p \in Poll : PollOutcome(p)'
      BY <1>1, <1>2, <2>1, <2>3, CallsServes, PollFrame
    <2> QED
      BY <2>5, <2>6 DEF OwnOutcome, HandlerOutcome, PollOutcome
  <1>6. CASE StartPoll
    <2>1. UNCHANGED <<pc, req, answer>> /\ handling # NoMessage
      BY <1>6 DEF StartPoll, Returned, vars, callerVars
    <2>2. handling'.stage = "listening"
      BY <1>3, <1>6, <2>1 DEF StartPoll, Typable
    <2>3. PICK p \in Poll :
            /\ polling[p] = "none" /\ polling' = [polling EXCEPT ![p] = "start"]
            /\ \A q \in Poll \ {p} : listens'[q] = listens[q]
      BY <1>6 DEF StartPoll, CenterTyped, ServerTyped
    <2>4. \A q \in Poll \ {p} : polling'[q] = polling[q]
      BY <2>3 DEF CenterTyped, ServerTyped
    <2>5. polling'[p] = "start"
      BY <2>3 DEF CenterTyped, ServerTyped
    <2>6. PollOutcome(p)'
      BY <1>2, <2>1, <2>3, <2>5 DEF PollOutcome
    <2>7. \A q \in Poll \ {p} : PollOutcome(q)'
      BY <1>2, <2>1, <2>3, <2>4, PollFrame
    <2>8. HandlerOutcome'
      BY <2>2, NoMessageIs DEF HandlerOutcome
    <2> QED
      BY <2>6, <2>7, <2>8 DEF OwnOutcome, HandlerOutcome, PollOutcome
  <1>7. CASE SendReply \/ DropReply
    <2>1. /\ Forgets(SocketReader) /\ handling' = NoMessage /\ UNCHANGED <<polling, listens>>
          /\ pc[SocketReader] = "idle"
      BY <1>7 DEF SendReply, DropReply, Replies, Returned
    <2>2. HandlerOutcome'
      BY <1>1, <2>1, ForgetsServes DEF HandlerOutcome
    <2>3. \A p \in Poll : PollOutcome(p)'
      BY <1>1, <1>2, <2>1, ForgetsServes, PollFrame
    <2> QED
      BY <2>2, <2>3 DEF OwnOutcome, HandlerOutcome, PollOutcome
  <1> QED
    BY <1>4, <1>5, <1>6, <1>7 DEF ReaderStep

LEMMA OutcomePoll ==
  ASSUME CenterTyped, OwnOutcome, NEW p \in Poll, PollStep(p)
  PROVE  OwnOutcome'
PROOF
  <1>1. SocketReader \in Caller \ {p} /\ p \in Caller /\ Poll \ {p} \subseteq Caller \ {p}
    BY ServerAssumption
  <1>2. HandlerOutcome /\ \A q \in Poll : PollOutcome(q)
    BY OutcomeParts
  <1>3. UNCHANGED <<handling, listens>> /\ \A q \in Poll \ {p} : polling'[q] = polling[q]
    BY DEF PollStep, PollStarts, PollSkips, PollSends, PollCannotSend, PollEndsTurn, PollUnchanged,
           EndsTurn, NextTurn, CenterTyped, ServerTyped
  <1>4. CASE NextTurn(p)
    <2>1. polling'[p] = "read" /\ Calls(p, "ReadBuffer", "load", listens[p].path, Nil, listens[p].timeout)
      BY <1>4 DEF NextTurn, CenterTyped, ServerTyped
    <2>2. PollOutcome(p)'
      BY <1>1, <1>3, <2>1, CallsServes DEF PollOutcome, Serves
    <2>3. \A q \in Poll \ {p} : PollOutcome(q)'
      BY <1>1, <1>2, <1>3, <2>1, CallsServes, PollFrame
    <2>4. HandlerOutcome'
      BY <1>1, <1>2, <1>3, <2>1, CallsServes, HandlerFrame
    <2> QED
      BY <2>2, <2>3, <2>4 DEF OwnOutcome, HandlerOutcome, PollOutcome
  <1>5. CASE Forgets(p) /\ polling'[p] \in {"sent", "ended"} /\ pc[p] = "idle"
    <2>1. PollOutcome(p)'
      BY <1>1, <1>5, ForgetsServes DEF PollOutcome
    <2>2. \A q \in Poll \ {p} : PollOutcome(q)'
      BY <1>1, <1>2, <1>3, <1>5, ForgetsServes, PollFrame
    <2>3. HandlerOutcome'
      BY <1>1, <1>2, <1>3, <1>5, ForgetsServes, HandlerFrame
    <2> QED
      BY <2>1, <2>2, <2>3 DEF OwnOutcome, HandlerOutcome, PollOutcome
  <1>6. NextTurn(p) \/ (Forgets(p) /\ polling'[p] \in {"sent", "ended"} /\ pc[p] = "idle")
    <2>1. CASE PollStarts(p) \/ PollSkips(p)
      BY <2>1 DEF PollStarts, PollSkips
    <2>2. CASE PollSends(p) \/ PollCannotSend(p)
      BY <2>2 DEF PollSends, PollCannotSend, EndsTurn, HasResult, CenterTyped, ServerTyped
    <2>3. CASE PollEndsTurn(p)
      <3>1. pc[p] = "idle"
        BY <1>2, <2>3 DEF PollEndsTurn, PollOutcome
      <3> QED
        BY <2>3, <3>1 DEF PollEndsTurn, EndsTurn, CenterTyped, ServerTyped
    <2> QED
      BY <2>1, <2>2, <2>3 DEF PollStep
  <1> QED
    BY <1>4, <1>5, <1>6

\* The handler registers, starts a readPoll and answers by the outcome of the call that
\* this request has made, and a readPoll sends what its own ReadBuffer has returned,
\* though their earlier calls may still be served (socketOutputHandle, readPoll).
THEOREM CenterOwnOutcome == CenterSpec => []OwnOutcome
PROOF
  <1> DEFINE Inv == CenterTyped /\ OwnOutcome
  <1>1. CenterInit => Inv
    <2>1. CenterInit => OwnOutcome
      BY ServerAssumption DEF CenterInit, Init, ServerInit, OwnOutcome
    <2> QED
      BY <2>1, CenterTypedInit
  <1>2. Inv /\ [CenterNext]_centerVars => Inv'
    <2> SUFFICES ASSUME CenterTyped, OwnOutcome, [CenterNext]_centerVars
                 PROVE  OwnOutcome'
      BY CenterTypedStep
    <2>1. CASE ServerStep
      <3>1. CASE ClientAsks \/ ClientReads \/ Disconnect \/ closeNotify
        BY <3>1 DEF ClientAsks, ClientReads, ClientHears, ClientIgnores, Disconnect, closeNotify,
                    vars, callerVars, OwnOutcome, Serves, Asking
      <3> QED
        BY <2>1, <3>1, OutcomeHandler, OutcomePoll DEF ServerStep
    <2>2. CASE Work /\ UNCHANGED serverVars
      <3>1. Answering
        BY DEF CenterTyped, ServerTyped, Answering
      <3>2. \A c \in Poll \cup {SocketReader} : Proceeds(c)
        BY <2>2, <3>1, WorkProceeds, ServerAssumption
      <3> QED
        BY <2>2, <3>2, OutcomeFrame
    <2>3. ASSUME NEW c \in HttpCaller, MakesCall(c), UNCHANGED <<answer, serverVars>>
          PROVE  OwnOutcome'
      <3>1. c \in Caller /\ Poll \cup {SocketReader} \subseteq Caller \ {c}
        BY RestfulAssumption, ServerAssumption, CenterAssumption
      <3>2. \A d \in Caller \ {c} : Stays(d)
        BY <2>3, <3>1, ChannelsMakes DEF CenterTyped
      <3>3. \A d \in Poll \cup {SocketReader} : Proceeds(d)
        BY <2>3, <3>1, <3>2 DEF Proceeds
      <3> QED
        BY <2>3, <3>3, OutcomeFrame
    <2>4. CASE UNCHANGED centerVars
      BY <2>4 DEF centerVars, vars, callerVars, serverVars, OwnOutcome, Serves, Asking
    <2> QED
      BY <2>1, <2>2, <2>3, <2>4, CenterKinds
  <1>3. Inv => OwnOutcome
    OBVIOUS
  <1> QED
    BY <1>1, <1>2, <1>3, PTL DEF CenterSpec
=============================================================================
