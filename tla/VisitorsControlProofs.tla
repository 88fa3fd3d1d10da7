----------------------- MODULE VisitorsControlProofs -----------------------
(***************************************************************************)
(* The control unit, for any number of callers, visitors and paths and any *)
(* capacity of the channels: its type invariant, no lost update, time      *)
(* stamps in order, and when a listener stays registered.                  *)
(***************************************************************************)
EXTENDS VisitorsControl, JsonObjectProofs

\* The sequence s, whatever its elements are.
Elements(s) == {s[i] : i \in DOMAIN s}
IsSequence(s) == s \in Seq(Elements(s))

LEMMA SequenceOf ==
  ASSUME NEW S, NEW s \in Seq(S)
  PROVE  IsSequence(s)
PROOF
  <1>1. Len(s) \in Nat /\ DOMAIN s = 1 .. Len(s) /\ s = [i \in 1 .. Len(s) |-> s[i]]
    BY LenProperties
  <1>2. \A i \in 1 .. Len(s) : s[i] \in Elements(s)
    BY <1>1 DEF Elements
  <1>3. [i \in 1 .. Len(s) |-> s[i]] \in Seq(Elements(s))
    BY <1>1, <1>2, IsASeq
  <1> QED
    BY <1>1, <1>3 DEF IsSequence

LEMMA SequenceAppend ==
  ASSUME NEW s, IsSequence(s), NEW e
  PROVE  /\ IsSequence(Append(s, e)) /\ Append(s, e) # <<>>
         /\ Len(s) \in Nat /\ Len(Append(s, e)) = Len(s) + 1
         /\ \A i \in 1 .. Len(s) : Append(s, e)[i] = s[i]
         /\ Append(s, e)[Len(s) + 1] = e
         /\ Last(Append(s, e)) = e
PROOF
  <1> DEFINE S == Elements(s) \cup {e}
  <1>1. s \in Seq(S)
    <2>1. Seq(Elements(s)) \subseteq Seq(S)
      BY SeqMonotonic
    <2> QED
      BY <2>1 DEF IsSequence
  <1>2. Append(s, e) \in Seq(S) /\ e \in S
    BY <1>1
  <1>3. /\ Len(s) \in Nat /\ Len(Append(s, e)) = Len(s) + 1
        /\ \A i \in 1 .. Len(s) : Append(s, e)[i] = s[i]
        /\ Append(s, e)[Len(s) + 1] = e
    BY <1>1, <1>2, AppendProperties, LenProperties
  <1>4. Append(s, e) # <<>>
    BY <1>2, <1>3, EmptySeq
  <1>5. IsSequence(Append(s, e))
    BY <1>2, SequenceOf
  <1> QED
    BY <1>3, <1>4, <1>5 DEF Last

LEMMA SequenceTail ==
  ASSUME NEW s, IsSequence(s), s # <<>>
  PROVE  /\ IsSequence(Tail(s))
         /\ Len(s) \in Nat \ {0} /\ Len(Tail(s)) = Len(s) - 1
         /\ \A i \in 1 .. Len(s) - 1 : Tail(s)[i] = s[i + 1]
         /\ Head(s) = s[1]
         /\ Tail(s) = <<>> => Last(s) = Head(s)
         /\ Tail(s) # <<>> => Last(Tail(s)) = Last(s)
PROOF
  <1> DEFINE S == Elements(s)
  <1>1. s \in Seq(S) /\ Len(s) \in Nat \ {0}
    BY EmptySeq DEF IsSequence
  <1>2. /\ Tail(s) \in Seq(S) /\ Len(Tail(s)) = Len(s) - 1 /\ Head(s) = s[1]
        /\ \A i \in 1 .. Len(s) - 1 : Tail(s)[i] = s[i + 1]
    BY <1>1, HeadTailProperties
  <1>3. Tail(s) = <<>> => Len(s) = 1
    <2>1. Tail(s) = <<>> => Len(Tail(s)) = 0
      BY EmptySeq
    <2> HIDE DEF S
    <2> QED
      BY <1>1, <1>2, <2>1
  <1>4. Tail(s) # <<>> => Len(Tail(s)) \in 1 .. Len(s) - 1
    BY <1>1, <1>2, EmptySeq
  <1>5. IsSequence(Tail(s))
    BY <1>2, SequenceOf
  <1> QED
    BY <1>1, <1>2, <1>3, <1>4, <1>5 DEF Last

-----------------------------------------------------------------------------
(***************************************************************************)
(* The type invariant.  It needs the requests that are under way to be     *)
(* proper ones and the buffers to be sequences.                            *)
(***************************************************************************)
Requests ==
  /\ \A c \in Caller : pc[c] # "idle" => req[c].visitor \in Visitor /\ req[c].path \in PathOf
  /\ \A c \in Caller : pc[c] = "sendWrite" => req[c].data \in Data
  /\ kpc = "writing" => serving.path \in PathOf /\ serving.data \in Data
  /\ kpc \in {"insert", "drop"} => blocked \in Key \X Buffer

Sequences == \A b \in Buffer : IsSequence(queue[b])

Typed == TypeOK /\ Requests /\ Sequences

LEMMA TypedInit == Init => Typed
PROOF
  <1> SUFFICES ASSUME Init PROVE Typed
    OBVIOUS
  <1>1. TypeOK
    <2>1. NoRequest \in Request
      BY DEF Request, NoRequest
    <2>2. <<>> \in Seq(Request) /\ Len(<<>>) = 0
      BY EmptySeq
    <2>3. BufferCapacity \in Nat /\ ReadCapacity \in Nat /\ IsDocument(Template)
      BY ControlAssumption
    <2> QED
      BY <2>1, <2>2, <2>3 DEF Init, TypeOK
  <1>2. Requests /\ Sequences
    <2>1. IsSequence(<<>>)
      <3>1. <<>> \in Seq({})
        OBVIOUS
      <3> QED
        BY <3>1, SequenceOf
    <2> QED
      BY <2>1 DEF Init, Requests, Sequences
  <1> QED
    BY <1>1, <1>2 DEF Typed

\* Starting a call.
LEMMA StartTyped ==
  ASSUME Typed, NEW c \in Caller, NEW op \in Method, NEW road \in Road,
         NEW data \in Data \cup {Nil}, NEW timeout \in Int, NEW first,
         first \in {"sendWrite", "sendRead", "sendRegister", "load", "find"},
         first = "sendWrite" => data \in Data,
         Start(c, op, first, road, data, timeout)
  PROVE  Typed'
PROOF
  <1>1. PICK name \in Visitor :
          req' = [req EXCEPT ![c] =
                 [caller |-> c, call |-> calls[c] + 1, op |-> op, visitor |-> name,
                  path |-> InputFromString(road), data |-> data, timeout |-> timeout]]
    BY ControlAssumption DEF Start, Begin, Begin
  <1> DEFINE r == [caller |-> c, call |-> calls[c] + 1, op |-> op, visitor |-> name,
                   path |-> InputFromString(road), data |-> data, timeout |-> timeout]
  <1>2. r \in Request /\ r.visitor \in Visitor /\ r.path \in PathOf /\ r.data = data
    BY DEF Request, PathOf, Typed, TypeOK
  <1> HIDE DEF r
  <1>3. req' \in [Caller -> Request] /\ req'[c] = r /\ \A d \in Caller \ {c} : req'[d] = req[d]
    BY <1>1, <1>2 DEF Typed, TypeOK, r
  <1>4. TypeOK'
    BY <1>3 DEF Start, Begin, Typed, TypeOK, kernelVars, bufferVars
  <1>5. Requests'
    BY <1>2, <1>3 DEF Start, Begin, Typed, TypeOK, Requests, kernelVars
  <1>6. Sequences'
    BY DEF Start, Begin, Typed, Sequences, bufferVars
  <1> QED
    BY <1>4, <1>5, <1>6 DEF Typed

\* A caller goes on, goes back to idle or enters a wait: the control goroutine,
\* the document and the buffers stay.
CallerOnly(c) ==
  \/ WriteNotSent(c) \/ WriteUnanswered(c) \/ ReadNotSent(c) \/ ReadUnanswered(c)
  \/ RegisterNotSent(c) \/ RegisterUnanswered(c)
  \/ Load(c) \/ GetNothing(c) \/ Get(c) \/ ReadOneTimeout(c) \/ FindNothing(c)
  \/ FindSome(c) \/ RaceFatal(c)

LEMMA CallerTyped ==
  ASSUME Typed, NEW c \in Caller, CallerOnly(c)
  PROVE  Typed' /\ UNCHANGED <<value, kernelVars, bufferVars, readChan, clock>>
PROOF
  <1>1. UNCHANGED <<value, kernelVars, bufferVars, readChan, clock>>
    BY DEF WriteNotSent, WriteUnanswered, ReadNotSent, ReadUnanswered, RegisterNotSent,
           RegisterUnanswered, Load, GetNothing, Get, ReadOneTimeout, FindNothing, FindSome,
           RaceFatal, CallerOnly
  <1>2. NoRequest \in Request
    BY DEF Request, NoRequest
  <1>3. /\ alive' \in BOOLEAN
        /\ pc' \in [Caller -> {"idle", "sendWrite", "awaitWrite", "sendRead", "awaitRead",
                        "sendRegister", "awaitRegister", "find", "load", "store", "get",
                        "readOne"}]
        /\ req' \in [Caller -> Request] /\ calls' = calls
        /\ ptr' \in [Caller -> Buffer \cup {Nil}]
        /\ \A d \in Caller : pc'[d] # "idle" => pc[d] # "idle" /\ req'[d] = req[d]
        /\ \A d \in Caller : pc'[d] = "sendWrite" => pc[d] = "sendWrite"
    <2> USE DEF Typed, TypeOK
    <2>1. CASE Load(c) \/ ReadOneTimeout(c) \/ FindSome(c)
      BY <2>1 DEF Load, ReadOneTimeout, FindSome, Goto
    <2>2. CASE Get(c)
      <3>1. KeyOf(req[c]) \in Key
        BY <2>2 DEF Get, Requests, KeyOf, Key
      <3>2. registry[KeyOf(req[c])] \in Buffer \cup {Nil}
        BY <3>1
      <3> QED
        BY <2>2, <3>2 DEF Get
    <2>3. CASE \/ WriteNotSent(c) \/ WriteUnanswered(c) \/ RegisterNotSent(c)
               \/ RegisterUnanswered(c) \/ GetNothing(c) \/ FindNothing(c)
      BY <1>2, <2>3, ZenonT(30) DEF WriteNotSent, WriteUnanswered, RegisterNotSent, RegisterUnanswered,
                                 GetNothing, FindNothing, Return
    <2>4. CASE ReadNotSent(c) \/ ReadUnanswered(c)
      BY <1>2, <2>4 DEF ReadNotSent, ReadUnanswered, FinishRead, Return
    <2>5. CASE RaceFatal(c)
      BY <2>5 DEF RaceFatal, callerVars
    <2> QED
      BY <2>1, <2>2, <2>3, <2>4, <2>5 DEF CallerOnly
  <1>4. TypeOK'
    BY <1>1, <1>3 DEF Typed, TypeOK, kernelVars, bufferVars
  <1>5. Requests'
    BY <1>1, <1>3 DEF Typed, Requests, kernelVars
  <1>6. Sequences'
    BY <1>1 DEF Typed, Sequences, bufferVars
  <1> QED
    BY <1>1, <1>4, <1>5, <1>6 DEF Typed

\* The control goroutine accepts a request, looks its path up or answers it: the
\* document, the notifications and the buffers stay.
Serving ==
  \/ WriteAnswerDropped \/ AcceptRead \/ ReadAnswerDropped
  \/ Lookup \/ KernelLoad \/ KernelGet \/ RegisterAnswerDropped
  \/ \E c \in Caller : \/ AcceptWrite(c) \/ AnswerWrite(c) \/ AnswerRead(c) \/ SendRead(c)
                       \/ AcceptRegister(c) \/ AnswerRegister(c)

Quiet == UNCHANGED <<value, todo, blocked, bufferVars, clock>>

LEMMA ServingTyped ==
  ASSUME Typed, Serving
  PROVE  Typed' /\ Quiet
PROOF
  <1>1. Quiet
    BY DEF AcceptWrite, AnswerWrite, WriteAnswerDropped, AcceptRead, AnswerRead,
           ReadAnswerDropped, SendRead, AcceptRegister, Lookup, KernelLoad, KernelGet,
           AnswerRegister, RegisterAnswerDropped, KernelUnchanged, Quiet, kernelVars,
           Serving
  <1>2. NoRequest \in Request
    BY DEF Request, NoRequest
  <1>3. /\ alive' = alive
        /\ kpc' \in {"select", "writing", "replyWrite", "affected", "notify", "insert", "drop",
                      "replyRead", "lookup", "load", "store", "get", "replyRegister"}
        /\ serving' \in Request
        /\ readChan' \in Seq(Request) /\ Len(readChan') <= ReadCapacity
        /\ pc' \in [Caller -> {"idle", "sendWrite", "awaitWrite", "sendRead", "awaitRead",
                        "sendRegister", "awaitRegister", "find", "load", "store", "get",
                        "readOne"}]
        /\ req' \in [Caller -> Request] /\ calls' = calls
        /\ ptr' \in [Caller -> Buffer \cup {Nil}]
        /\ \A d \in Caller : pc'[d] # "idle" => pc[d] # "idle" /\ req'[d] = req[d]
        /\ \A d \in Caller : pc'[d] = "sendWrite" => pc[d] = "sendWrite"
        /\ kpc' = "writing" => serving'.path \in PathOf /\ serving'.data \in Data
        /\ kpc' \in {"insert", "drop"} => kpc' = kpc
    <2> USE DEF Typed, TypeOK
    <2>1. CASE \E c \in Caller : AcceptWrite(c)
      BY <2>1 DEF AcceptWrite, Goto, Requests
    <2>2. CASE \E c \in Caller : AcceptRegister(c)
      BY <2>2 DEF AcceptRegister, Goto
    <2>3. CASE AcceptRead
      <3>1. Head(readChan) \in Request /\ Tail(readChan) \in Seq(Request)
            /\ Len(Tail(readChan)) <= ReadCapacity
        <4>1. /\ Head(readChan) \in Request /\ Tail(readChan) \in Seq(Request)
              /\ Len(Tail(readChan)) = Len(readChan) - 1
          BY <2>3, HeadTailProperties DEF AcceptRead
        <4>2. Len(readChan) \in Nat /\ ReadCapacity \in Nat
          BY ControlAssumption, LenProperties
        <4> QED
          BY <4>1, <4>2
      <3> QED
        BY <2>3, <3>1 DEF AcceptRead, callerVars
    <2>4. CASE \E c \in Caller : SendRead(c)
      <3>2. PICK c \in Caller : SendRead(c)
        BY <2>4
      <3>1. Append(readChan, req[c]) \in Seq(Request) /\ Len(Append(readChan, req[c])) <= ReadCapacity
        <4>1. req[c] \in Request
          OBVIOUS
        <4>2. /\ Append(readChan, req[c]) \in Seq(Request)
              /\ Len(Append(readChan, req[c])) = Len(readChan) + 1
          BY <4>1, AppendProperties
        <4>3. Len(readChan) \in Nat /\ ReadCapacity \in Nat /\ Len(readChan) < ReadCapacity
          BY <3>2, ControlAssumption, LenProperties DEF SendRead
        <4> QED
          BY <4>2, <4>3
      <3> QED
        BY <3>1, <3>2 DEF SendRead, Goto, kernelVars, Requests
    <2>5. CASE \E c \in Caller : AnswerWrite(c)
      BY <1>2, <2>5 DEF AnswerWrite, Return
    <2>6. CASE \E c \in Caller : AnswerRead(c)
      BY <1>2, <2>6, ZenonT(30) DEF AnswerRead, FinishRead, Return, EndRequest
    <2>7. CASE \E c \in Caller : AnswerRegister(c)
      BY <1>2, <2>7 DEF AnswerRegister, Return, EndRequest, KernelUnchanged
    <2>8. CASE WriteAnswerDropped
      BY <2>8 DEF WriteAnswerDropped, callerVars
    <2>9. CASE ReadAnswerDropped \/ RegisterAnswerDropped
      BY <1>2, <2>9 DEF ReadAnswerDropped, RegisterAnswerDropped, EndRequest, callerVars,
                        KernelUnchanged
    <2>10. CASE Lookup \/ KernelLoad \/ KernelGet
      BY <2>10 DEF Lookup, KernelLoad, KernelGet, callerVars, KernelUnchanged
    <2> QED
      BY <2>1, <2>2, <2>3, <2>4, <2>5, <2>6, <2>7, <2>8, <2>9, <2>10 DEF Serving
  <1>4. TypeOK'
    BY <1>1, <1>3 DEF Typed, TypeOK, Quiet, bufferVars
  <1>5. Requests'
    BY <1>1, <1>3 DEF Typed, Requests, Quiet
  <1>6. Sequences'
    BY <1>1 DEF Typed, Sequences, Quiet, bufferVars
  <1> QED
    BY <1>1, <1>4, <1>5, <1>6 DEF Typed

\* The write itself.
LEMMA WriteTyped ==
  ASSUME Typed, ExecuteWrite
  PROVE  Typed'
PROOF
  <1>1. IsDocument(value')
    <2>1. IsDocument(value) /\ IsDocument(serving.data)
      BY ControlAssumption DEF ExecuteWrite, Typed, TypeOK, Requests
    <2> QED
      BY <2>1, WriteWellFormed DEF ExecuteWrite
  <1>2. TypeOK'
    BY <1>1 DEF ExecuteWrite, Typed, TypeOK, bufferVars, callerVars
  <1>3. Requests' /\ Sequences'
    BY DEF ExecuteWrite, Typed, Requests, Sequences, bufferVars, callerVars
  <1> QED
    BY <1>2, <1>3 DEF Typed

\* Choosing the listeners and going through them, without changing a buffer.
Notifying == Affect \/ SkipNil \/ InsertBlocks \/ GiveUp \/ DropListener \/ NotifyDone

LEMMA NotifyTyped ==
  ASSUME Typed, Notifying
  PROVE  Typed'
PROOF
  <1>1. NoRequest \in Request
    BY DEF Request, NoRequest
  <1>2. /\ kpc' \in {"select", "notify", "insert", "drop"} /\ serving' \in Request
        /\ todo' \subseteq Key \X Buffer
        /\ blocked' \in (Key \X Buffer) \cup {Nil}
        /\ registry' \in [Key -> Buffer \cup {Nil}]
        /\ clock' \in Nat
        /\ UNCHANGED <<value, alive, readChan, callerVars, queue, allocated, seen>>
    <2> USE DEF Typed, TypeOK
    <2>1. CASE Affect
      BY <2>1 DEF Affect, bufferVars
    <2>2. CASE SkipNil \/ GiveUp
      BY <2>2 DEF SkipNil, GiveUp, NotifyUnchanged
    <2>3. CASE InsertBlocks
      BY <2>3 DEF InsertBlocks, NotifyUnchanged
    <2>4. CASE DropListener
      BY <2>4 DEF DropListener, RemoveListener, NotifyUnchanged
    <2>5. CASE NotifyDone
      BY <1>1, <2>5 DEF NotifyDone, EndRequest, NotifyUnchanged
    <2> QED
      BY <2>1, <2>2, <2>3, <2>4, <2>5 DEF Notifying
  <1>3. TypeOK'
    BY <1>2 DEF Typed, TypeOK, callerVars
  <1>4. kpc' \in {"insert", "drop"} => blocked' \in Key \X Buffer
    BY DEF Affect, SkipNil, InsertBlocks, GiveUp, DropListener, NotifyDone, EndRequest,
           Notifying, Typed, TypeOK, Requests
  <1>5. Requests' /\ Sequences'
    BY <1>2, <1>4 DEF Typed, Requests, Sequences, callerVars
  <1> QED
    BY <1>3, <1>5 DEF Typed

\* An update is appended to a buffer that is not full.
LEMMA InsertUpdateEffect ==
  ASSUME Typed, NEW k \in Key, NEW b \in Buffer, InsertUpdate(k, b)
  PROVE  /\ DOMAIN queue' = Buffer
         /\ queue'[b] = Append(queue[b], Update(serving.visitor, Read(value, k[2]), clock))
         /\ \A x \in Buffer \ {b} : queue'[x] = queue[x]
         /\ \A x \in Buffer : Len(queue'[x]) <= BufferCapacity /\ IsSequence(queue'[x])
PROOF
  <1> DEFINE u == Update(serving.visitor, Read(value, k[2]), clock)
  <1>1. /\ DOMAIN queue' = Buffer /\ queue'[b] = Append(queue[b], u)
        /\ \A x \in Buffer \ {b} : queue'[x] = queue[x]
    BY DEF InsertUpdate, Typed, TypeOK
  <1> HIDE DEF u
  <1>2. /\ IsSequence(queue[b]) /\ Len(queue[b]) < BufferCapacity
        /\ \A x \in Buffer : Len(queue[x]) <= BufferCapacity /\ IsSequence(queue[x])
    BY DEF InsertUpdate, Typed, TypeOK, Sequences
  <1>3. IsSequence(Append(queue[b], u)) /\ Len(Append(queue[b], u)) <= BufferCapacity
    <2>1. /\ IsSequence(Append(queue[b], u))
          /\ Len(queue[b]) \in Nat /\ Len(Append(queue[b], u)) = Len(queue[b]) + 1
      BY <1>2, SequenceAppend
    <2>2. BufferCapacity \in Nat
      BY ControlAssumption
    <2> QED
      BY <1>2, <2>1, <2>2
  <1> QED
    BY <1>1, <1>2, <1>3 DEF u

LEMMA InsertTyped ==
  ASSUME Typed, Insert \/ InsertLate
  PROVE  Typed'
PROOF
  <1>1. \E pair \in Key \X Buffer : InsertUpdate(pair[1], pair[2])
    <2>1. CASE Insert
      BY <2>1 DEF Insert, Typed, TypeOK
    <2>2. CASE InsertLate
      BY <2>2 DEF InsertLate, Typed, TypeOK, Requests
    <2> QED
      BY <2>1, <2>2
  <1>2. /\ DOMAIN queue' = Buffer
        /\ \A x \in Buffer : Len(queue'[x]) <= BufferCapacity /\ IsSequence(queue'[x])
    BY <1>1, InsertUpdateEffect
  <1>3. /\ kpc' = "notify" /\ todo' \subseteq todo /\ blocked' \in {blocked, Nil}
        /\ UNCHANGED <<value, alive, serving, reply, registry, allocated, readChan, clock, callerVars>>
    BY DEF Insert, InsertLate, NotifyUnchanged
  <1>4. TypeOK'
    BY <1>2, <1>3 DEF Typed, TypeOK, callerVars
  <1>5. Requests' /\ Sequences'
    BY <1>2, <1>3 DEF Typed, Requests, Sequences, callerVars
  <1> QED
    BY <1>4, <1>5 DEF Typed

\* A new buffer in the registry, for a caller or for the control goroutine.
Storing == KernelStore \/ \E c \in Caller : Store(c)

LEMMA StoringEffect ==
  ASSUME Typed, Storing
  PROVE  /\ \E k : StoreNew(k)
         /\ UNCHANGED <<value, alive, serving, reply, todo, blocked, readChan, clock>>
         /\ UNCHANGED <<req, calls, ptr, answer>>
         /\ \/ kpc' = kpc /\ \E c \in Caller : pc' = [pc EXCEPT ![c] = "get"] /\ pc[c] # "idle"
            \/ kpc = "store" /\ kpc' = "get" /\ pc' = pc
PROOF
  <1>1. CASE KernelStore
    BY <1>1 DEF KernelStore, KernelUnchanged, callerVars
  <1>2. CASE \E c \in Caller : Store(c)
    BY <1>2 DEF Store, Goto, kernelVars
  <1> QED
    BY <1>1, <1>2 DEF Storing

LEMMA StoreTyped ==
  ASSUME Typed, Storing
  PROVE  Typed'
PROOF
  <1>1. /\ UNCHANGED <<value, alive, serving, reply, todo, blocked, readChan, clock>>
        /\ UNCHANGED <<req, calls, ptr, answer>>
        /\ \/ kpc' = kpc /\ \E c \in Caller : pc' = [pc EXCEPT ![c] = "get"] /\ pc[c] # "idle"
           \/ kpc' = "get" /\ pc' = pc
    BY StoringEffect
  <1>2. PICK k : StoreNew(k)
    BY StoringEffect
  <1>3. registry' \in [Key -> Buffer \cup {Nil}] /\ allocated' \subseteq Buffer /\ queue' = queue
    <2>1. registry \in [Key -> Buffer \cup {Nil}] /\ allocated \subseteq Buffer
      BY DEF Typed, TypeOK
    <2>2. PICK b \in Buffer \ allocated : /\ registry' = [registry EXCEPT ![k] = b]
                                         /\ allocated' = allocated \cup {b}
                                         /\ queue' = queue
      BY <1>2 DEF StoreNew
    <2>3. registry' \in [Key -> Buffer \cup {Nil}]
      BY <2>1, <2>2
    <2> QED
      BY <2>1, <2>2, <2>3
  <1>4. TypeOK'
    BY <1>1, <1>3 DEF Typed, TypeOK
  <1>5. Requests' /\ Sequences'
    BY <1>1, <1>3 DEF Typed, TypeOK, Requests, Sequences
  <1> QED
    BY <1>4, <1>5 DEF Typed

\* A reader takes the oldest update.
LEMMA TakeEffect ==
  ASSUME Typed, NEW c \in Caller, TakeOne(c)
  PROVE  /\ DOMAIN queue' = Buffer
         /\ \A b \in Buffer \ {ptr[c]} : queue'[b] = queue[b]
         /\ ptr[c] \in Buffer => queue[ptr[c]] # <<>> /\ queue'[ptr[c]] = Tail(queue[ptr[c]])
         /\ \A b \in Buffer : Len(queue'[b]) <= BufferCapacity /\ IsSequence(queue'[b])
PROOF
  <1>1. /\ DOMAIN queue' = Buffer
        /\ \A b \in Buffer \ {ptr[c]} : queue'[b] = queue[b]
        /\ ptr[c] \in Buffer => queue[ptr[c]] # <<>> /\ queue'[ptr[c]] = Tail(queue[ptr[c]])
    BY DEF TakeOne, Typed, TypeOK
  <1>2. \A b \in Buffer : Len(queue[b]) <= BufferCapacity /\ IsSequence(queue[b])
    BY DEF Typed, TypeOK, Sequences
  <1>3. ASSUME ptr[c] \in Buffer
        PROVE  IsSequence(Tail(queue[ptr[c]])) /\ Len(Tail(queue[ptr[c]])) <= BufferCapacity
    <2>1. /\ IsSequence(Tail(queue[ptr[c]]))
          /\ Len(queue[ptr[c]]) \in Nat /\ Len(Tail(queue[ptr[c]])) = Len(queue[ptr[c]]) - 1
      BY <1>1, <1>2, <1>3, SequenceTail
    <2>2. BufferCapacity \in Nat /\ Len(queue[ptr[c]]) <= BufferCapacity
      BY <1>2, <1>3, ControlAssumption
    <2> QED
      BY <2>1, <2>2
  <1> QED
    BY <1>1, <1>2, <1>3

LEMMA TakeTyped ==
  ASSUME Typed, NEW c \in Caller, TakeOne(c)
  PROVE  Typed'
PROOF
  <1>1. NoRequest \in Request
    BY DEF Request, NoRequest
  <1>2. /\ DOMAIN queue' = Buffer
        /\ \A b \in Buffer : Len(queue'[b]) <= BufferCapacity /\ IsSequence(queue'[b])
    BY TakeEffect
  <1>3. /\ UNCHANGED <<value, alive, kernelVars, registry, allocated, readChan, clock, calls>>
        /\ pc' = [pc EXCEPT ![c] = "idle"] /\ req' = [req EXCEPT ![c] = NoRequest]
        /\ ptr' = [ptr EXCEPT ![c] = Nil]
    BY DEF TakeOne, Return
  <1>4. TypeOK'
    BY <1>1, <1>2, <1>3 DEF Typed, TypeOK, kernelVars
  <1>5. Requests' /\ Sequences'
    BY <1>2, <1>3 DEF Typed, TypeOK, Requests, Sequences, kernelVars
  <1> QED
    BY <1>4, <1>5 DEF Typed

-----------------------------------------------------------------------------
\* The control goroutine and the calls that have been started go on by steps of
\* these kinds; every other step of the system starts a call.
Work ==
  \/ \E c \in Caller : CallerOnly(c) \/ TakeOne(c)
  \/ Serving \/ ExecuteWrite \/ Notifying \/ Insert \/ InsertLate \/ Storing

LEMMA WorkKinds == KernelStep \/ (\E c \in Caller : CallerStep(c) \/ RaceFatal(c)) => Work
PROOF
  BY DEF KernelStep, CallerStep, Work, CallerOnly, Serving, Notifying, Storing

LEMMA NextKinds == Next => Work \/ \E c \in Caller : Call(c)
PROOF
  BY WorkKinds DEF Next

LEMMA CallTyped ==
  ASSUME Typed, NEW c \in Caller, Call(c)
  PROVE  Typed' /\ UNCHANGED <<value, kernelVars, bufferVars, readChan, clock>>
PROOF
  <1>1. \A timeout \in Timeout : timeout \in Int
    BY ControlAssumption
  <1> DEFINE Starts(op, first, road, data, timeout) ==
               /\ op \in Method
               /\ first \in {"sendWrite", "sendRead", "sendRegister", "load", "find"}
               /\ first = "sendWrite" => data \in Data
               /\ data \in Data \cup {Nil}
               /\ timeout \in Int
               /\ Start(c, op, first, road, data, timeout)
  <1>2. \E op, first, data, timeout : \E road \in Road : Starts(op, first, road, data, timeout)
    <2> USE DEF Method
    <2>1. CASE WriteQuickly(c)
      <3>1. PICK road \in Road, data \in Data : Start(c, "Write", "sendWrite", road, data, 0)
        BY <2>1 DEF WriteQuickly
      <3>2. Starts("Write", "sendWrite", road, data, 0)
        BY <3>1
      <3> QED
        BY <3>2
    <2>2. CASE ReadQuickly(c)
      <3>1. PICK road \in Road : Start(c, "Read", "sendRead", road, Nil, -1)
        BY <2>2 DEF ReadQuickly
      <3>2. Starts("Read", "sendRead", road, Nil, -1)
        BY <3>1
      <3> QED
        BY <3>2
    <2>3. CASE RegisterNotify(c)
      <3>1. PICK road \in Road : Start(c, "Register", "sendRegister", road, Nil, 1)
        BY <2>3 DEF RegisterNotify
      <3>2. Starts("Register", "sendRegister", road, Nil, 1)
        BY <3>1
      <3> QED
        BY <3>2
    <2>4. CASE ReadBuffer(c)
      <3>1. PICK road \in Road, timeout \in Timeout :
              Start(c, "ReadBuffer", "load", road, Nil, timeout)
        BY <2>4 DEF ReadBuffer
      <3>2. Starts("ReadBuffer", "load", road, Nil, timeout)
        BY <1>1, <3>1
      <3> QED
        BY <3>2
    <2>5. CASE ReadWithTime(c)
      <3>1. PICK road \in Road, timeout \in Timeout :
              Start(c, "ReadWithTime", "find", road, Nil, timeout)
        BY <2>5 DEF ReadWithTime
      <3>2. Starts("ReadWithTime", "find", road, Nil, timeout)
        BY <1>1, <3>1
      <3> QED
        BY <3>2
    <2> QED
      BY <2>1, <2>2, <2>3, <2>4, <2>5 DEF Call
  <1>3. PICK op, first, data, timeout : \E road \in Road : Starts(op, first, road, data, timeout)
    BY <1>2
  <1>4. UNCHANGED <<value, kernelVars, bufferVars, readChan, clock>>
    BY <1>3 DEF Start, Begin, Begin
  <1>5. Typed'
    BY <1>3, StartTyped
  <1> QED
    BY <1>4, <1>5

LEMMA TypedWork ==
  ASSUME Typed, Work
  PROVE  Typed'
PROOF
  <1>1. ASSUME NEW c \in Caller, CallerOnly(c) PROVE Typed'
    BY <1>1, CallerTyped
  <1>2. ASSUME NEW c \in Caller, TakeOne(c) PROVE Typed'
    BY <1>2, TakeTyped
  <1>3. CASE Serving
    BY <1>3, ServingTyped
  <1>4. CASE ExecuteWrite
    BY <1>4, WriteTyped
  <1>5. CASE Notifying
    BY <1>5, NotifyTyped
  <1>6. CASE Insert \/ InsertLate
    BY <1>6, InsertTyped
  <1>7. CASE Storing
    BY <1>7, StoreTyped
  <1> QED
    BY <1>1, <1>2, <1>3, <1>4, <1>5, <1>6, <1>7 DEF Work

LEMMA TypedStep ==
  ASSUME Typed, [Next]_vars
  PROVE  Typed'
PROOF
  <1>1. ASSUME NEW c \in Caller, Call(c) PROVE Typed'
    BY <1>1, CallTyped
  <1>2. CASE UNCHANGED vars
    BY <1>2 DEF vars, kernelVars, bufferVars, callerVars, Typed, TypeOK, Requests, Sequences
  <1> QED
    BY <1>1, <1>2, TypedWork, NextKinds

\* The state of the control unit is always of its type (VisitorsControl and the
\* methods on it): the document a tree, no buffer and no channel over its
\* capacity, whatever the callers do and whenever their timeouts fire.
THEOREM AlwaysTypeOK == Spec => []TypeOK
PROOF
  <1>1. Init => Typed
    BY TypedInit
  <1>2. Typed /\ [Next]_vars => Typed'
    BY TypedStep
  <1>3. Typed => TypeOK
    BY DEF Typed
  <1> QED
    BY <1>1, <1>2, <1>3, PTL DEF Spec

-----------------------------------------------------------------------------
(***************************************************************************)
(* Who owns a buffer, and the order of the stamps in it.  TypeOK and       *)
(* StampsInOrder alone are not inductive: an update goes to a buffer that  *)
(* may have left the registry since Affect chose it, and it comes last in  *)
(* it only because nothing with this stamp has been put there before.      *)
(***************************************************************************)
Sending == kpc \in {"insert", "drop"}

\* A buffer belongs to one key, in the registry and in the list of the control
\* goroutine alike, and is listed once.
Owned ==
  /\ kpc \notin {"notify", "insert", "drop"} => todo = {}
  /\ \A k \in Key : registry[k] # Nil => registry[k] \in allocated
  /\ \A k, l \in Key : registry[k] # Nil /\ registry[k] = registry[l] => k = l
  /\ \A pair \in todo : pair[2] \in allocated /\ \A k \in Key : registry[k] = pair[2] => k = pair[1]
  /\ \A pair, other \in todo : pair[2] = other[2] => pair = other
  /\ Sending => /\ blocked[2] \in allocated
                /\ \A k \in Key : registry[k] = blocked[2] => k = blocked[1]
                /\ \A pair \in todo : pair[2] # blocked[2]
  /\ \A b \in Buffer \ allocated : queue[b] = <<>>

\* From first on, the stamps along the updates q grow, none after moment t.
Chain(first, q, t) ==
  /\ first \in Nat /\ first <= t
  /\ \A i \in 1 .. Len(q) : q[i].stamp \in Nat /\ first < q[i].stamp /\ q[i].stamp <= t
  /\ \A i, j \in 1 .. Len(q) : i < j => q[i].stamp < q[j].stamp

OrderedUntil(b, t) == Chain(seen[b].stamp, queue[b], t)

Ordered ==
  /\ DOMAIN seen = Buffer
  /\ \A b \in Buffer : OrderedUntil(b, clock)
  /\ \A pair \in todo : OrderedUntil(pair[2], clock - 1)
  /\ Sending => OrderedUntil(blocked[2], clock - 1)

LEMMA OrderedStamps ==
  ASSUME Typed, Ordered
  PROVE  StampsInOrder
PROOF
  <1> SUFFICES ASSUME NEW b \in Buffer
               PROVE  LET stamps == <<seen[b].stamp>> \o [i \in DOMAIN queue[b] |-> queue[b][i].stamp]
                      IN  /\ \A i, j \in DOMAIN stamps : i < j => stamps[i] < stamps[j]
                          /\ \A i \in DOMAIN stamps : stamps[i] <= clock
    BY DEF StampsInOrder
  <1> DEFINE n      == Len(queue[b])
             later  == [i \in DOMAIN queue[b] |-> queue[b][i].stamp]
             first  == <<seen[b].stamp>>
             stamps == first \o later
  <1>1. n \in Nat /\ DOMAIN queue[b] = 1 .. n
    BY LenProperties DEF Typed, Sequences, IsSequence
  <1>2. /\ seen[b].stamp \in Nat /\ seen[b].stamp <= clock
        /\ \A i \in 1 .. n : /\ queue[b][i].stamp \in Nat
                             /\ seen[b].stamp < queue[b][i].stamp
                             /\ queue[b][i].stamp <= clock
        /\ \A i, j \in 1 .. n : i < j => queue[b][i].stamp < queue[b][j].stamp
    BY DEF Ordered, OrderedUntil, Chain
  <1> HIDE DEF n
  <1>3. later \in Seq(Nat) /\ Len(later) = n /\ \A i \in 1 .. n : later[i] = queue[b][i].stamp
    <2>1. later = [i \in 1 .. n |-> queue[b][i].stamp]
      BY <1>1
    <2>2. [i \in 1 .. n |-> queue[b][i].stamp] \in Seq(Nat)
      BY <1>1, <1>2, IsASeq
    <2>3. Len(later) = n
      BY <1>1, <2>1, <2>2, LenProperties
    <2> QED
      BY <2>1, <2>2, <2>3
  <1> HIDE DEF later
  <1>4. first \in Seq(Nat) /\ Len(first) = 1 /\ first[1] = seen[b].stamp
    BY <1>2
  <1> HIDE DEF first
  <1>5. /\ stamps \in Seq(Nat) /\ Len(stamps) = 1 + n
        /\ \A i \in 1 .. 1 + n : stamps[i] = IF i <= 1 THEN first[i] ELSE later[i - 1]
    <2>1. /\ first \o later \in Seq(Nat) /\ Len(first \o later) = Len(first) + Len(later)
          /\ \A i \in 1 .. Len(first) + Len(later) :
               (first \o later)[i] = IF i <= Len(first) THEN first[i] ELSE later[i - Len(first)]
      BY <1>3, <1>4, ConcatProperties
    <2> QED
      BY <1>3, <1>4, <2>1
  <1>6. DOMAIN stamps = 1 .. 1 + n
    BY <1>5, LenProperties
  <1> HIDE DEF stamps
  <1>7. stamps[1] = seen[b].stamp /\ \A i \in 2 .. 1 + n : stamps[i] = queue[b][i - 1].stamp
    <2>1. stamps[1] = seen[b].stamp
      BY <1>1, <1>4, <1>5
    <2>2. ASSUME NEW i \in 2 .. 1 + n PROVE stamps[i] = queue[b][i - 1].stamp
      <3>1. i \in 1 .. 1 + n /\ ~(i <= 1) /\ i - 1 \in 1 .. n
        BY <1>1
      <3> QED
        BY <1>3, <1>5, <3>1
    <2> QED
      BY <2>1, <2>2
  <1>8. ASSUME NEW i \in 1 .. 1 + n, NEW j \in 1 .. 1 + n, i < j PROVE stamps[i] < stamps[j]
    <2>1. j \in 2 .. 1 + n /\ j - 1 \in 1 .. n
      BY <1>1, <1>8
    <2>2. CASE i = 1
      BY <1>2, <1>7, <2>1, <2>2
    <2>3. CASE i # 1
      <3>1. i \in 2 .. 1 + n /\ i - 1 \in 1 .. n /\ i - 1 < j - 1
        BY <1>1, <1>8, <2>3
      <3> QED
        BY <1>2, <1>7, <2>1, <3>1
    <2> QED
      BY <2>2, <2>3
  <1>9. ASSUME NEW i \in 1 .. 1 + n PROVE stamps[i] <= clock
    <2>1. CASE i = 1
      BY <1>2, <1>7, <2>1
    <2>2. CASE i # 1
      <3>1. i \in 2 .. 1 + n /\ i - 1 \in 1 .. n
        BY <1>1, <2>2
      <3> QED
        BY <1>2, <1>7, <3>1
    <2> QED
      BY <2>1, <2>2
  <1> QED
    BY <1>6, <1>8, <1>9 DEF stamps, first, later

LEMMA ChainAppend ==
  ASSUME NEW first, NEW q, IsSequence(q), NEW t \in Nat, Chain(first, q, t - 1),
         NEW u, u.stamp = t
  PROVE  Chain(first, Append(q, u), t)
PROOF
  <1> DEFINE r == Append(q, u)
  <1>1. /\ Len(q) \in Nat /\ Len(r) = Len(q) + 1
        /\ \A i \in 1 .. Len(q) : r[i] = q[i]
        /\ r[Len(q) + 1] = u
    BY SequenceAppend
  <1> HIDE DEF r
  <1>2. /\ first \in Nat /\ first < t
        /\ \A i \in 1 .. Len(q) : q[i].stamp \in Nat /\ first < q[i].stamp /\ q[i].stamp < t
        /\ \A i, j \in 1 .. Len(q) : i < j => q[i].stamp < q[j].stamp
    BY DEF Chain
  <1>3. \A i \in 1 .. Len(r) : i \in 1 .. Len(q) \/ i = Len(q) + 1
    BY <1>1
  <1>4. ASSUME NEW i \in 1 .. Len(r) PROVE r[i].stamp \in Nat /\ first < r[i].stamp /\ r[i].stamp <= t
    BY <1>1, <1>2, <1>3
  <1>5. ASSUME NEW i \in 1 .. Len(r), NEW j \in 1 .. Len(r), i < j PROVE r[i].stamp < r[j].stamp
    <2>1. i \in 1 .. Len(q)
      BY <1>1, <1>5
    <2> QED
      BY <1>1, <1>2, <1>3, <1>5, <2>1
  <1>6. Chain(first, r, t)
    BY <1>2, <1>4, <1>5 DEF Chain
  <1> QED
    BY <1>6 DEF r

LEMMA ChainTail ==
  ASSUME NEW first, NEW q, IsSequence(q), q # <<>>, NEW t \in Nat, Chain(first, q, t)
  PROVE  Chain(Head(q).stamp, Tail(q), t)
PROOF
  <1> DEFINE r == Tail(q)
             h == Head(q)
  <1>1. /\ Len(q) \in Nat \ {0} /\ Len(r) = Len(q) - 1
        /\ \A i \in 1 .. Len(q) - 1 : r[i] = q[i + 1]
        /\ h = q[1]
    BY SequenceTail
  <1> HIDE DEF r, h
  <1>2. /\ \A i \in 1 .. Len(q) : q[i].stamp \in Nat /\ q[i].stamp <= t
        /\ \A i, j \in 1 .. Len(q) : i < j => q[i].stamp < q[j].stamp
    BY DEF Chain
  <1>3. 1 \in 1 .. Len(q) /\ \A i \in 1 .. Len(r) : i + 1 \in 1 .. Len(q) /\ 1 < i + 1 /\ r[i] = q[i + 1]
    BY <1>1
  <1>4. ASSUME NEW i \in 1 .. Len(r)
        PROVE  r[i].stamp \in Nat /\ h.stamp < r[i].stamp /\ r[i].stamp <= t
    BY <1>1, <1>2, <1>3
  <1>5. ASSUME NEW i \in 1 .. Len(r), NEW j \in 1 .. Len(r), i < j PROVE r[i].stamp < r[j].stamp
    <2>1. i + 1 \in 1 .. Len(q) /\ j + 1 \in 1 .. Len(q) /\ i + 1 < j + 1
      BY <1>3, <1>5
    <2> QED
      BY <1>2, <1>3, <2>1
  <1>6. h.stamp \in Nat /\ h.stamp <= t
    BY <1>1, <1>2, <1>3
  <1>7. Chain(h.stamp, r, t)
    BY <1>4, <1>5, <1>6 DEF Chain
  <1> QED
    BY <1>7 DEF r, h

LEMMA ChainLater ==
  ASSUME NEW first, NEW q, NEW t \in Nat, Chain(first, q, t)
  PROVE  Chain(first, q, t + 1)
PROOF
  BY DEF Chain

-----------------------------------------------------------------------------
Sound == Owned /\ Ordered

LEMMA SoundInit == Init => Sound
PROOF
  <1> SUFFICES ASSUME Init PROVE Sound
    OBVIOUS
  <1>1. Len(<<>>) = 0
    BY EmptySeq
  <1>2. Owned
    BY ControlAssumption DEF Init, Owned, Sending
  <1>3. Chain(0, <<>>, 0)
    BY <1>1 DEF Chain
  <1>4. Ordered
    BY <1>3 DEF Init, Ordered, OrderedUntil, Sending, NoUpdate, Update
  <1> QED
    BY <1>2, <1>4 DEF Sound

\* Where the control goroutine may be before and after it serves a request.
LEMMA ServingLabels ==
  ASSUME Typed, Serving
  PROVE  /\ kpc' = kpc \/ ({kpc, kpc'} \cap {"notify", "insert", "drop"} = {})
         /\ kpc \in {"replyWrite", "affected"}
              => kpc' \in {"replyWrite", "affected"} /\ serving' = serving
PROOF
  <1>1. CASE \E c \in Caller : AcceptWrite(c) \/ AcceptRegister(c)
    BY <1>1 DEF AcceptWrite, AcceptRegister
  <1>2. CASE \E c \in Caller : AnswerWrite(c) \/ AnswerRead(c) \/ AnswerRegister(c)
    BY <1>2 DEF AnswerWrite, AnswerRead, AnswerRegister, EndRequest
  <1>3. CASE \E c \in Caller : SendRead(c)
    BY <1>3 DEF SendRead, kernelVars
  <1>4. CASE WriteAnswerDropped \/ ReadAnswerDropped \/ RegisterAnswerDropped
    BY <1>4 DEF WriteAnswerDropped, ReadAnswerDropped, RegisterAnswerDropped, EndRequest
  <1>5. CASE AcceptRead \/ Lookup \/ KernelLoad \/ KernelGet
    BY <1>5 DEF AcceptRead, Lookup, KernelLoad, KernelGet
  <1> QED
    BY <1>1, <1>2, <1>3, <1>4, <1>5 DEF Serving

\* Steps that leave the notifications and the buffers alone.
LEMMA SoundFrame ==
  ASSUME Sound, UNCHANGED <<todo, blocked, bufferVars, clock>>,
         kpc' = kpc \/ ({kpc, kpc'} \cap {"notify", "insert", "drop"} = {})
  PROVE  Sound'
PROOF
  <1>1. Owned'
    BY DEF Sound, Owned, Sending, bufferVars
  <1>2. Ordered'
    BY DEF Sound, Ordered, OrderedUntil, Sending, bufferVars
  <1> QED
    BY <1>1, <1>2 DEF Sound

LEMMA SoundNotify ==
  ASSUME Typed, Sound, Notifying
  PROVE  Sound'
PROOF
  <1>1. CASE Affect
    <2>1. /\ \A pair \in todo' : /\ pair = <<pair[1], registry[pair[1]]>>
                                /\ pair[1] \in Key /\ registry[pair[1]] # Nil
          /\ kpc' = "notify" /\ clock' = clock + 1 /\ UNCHANGED <<blocked, bufferVars>>
      BY <1>1 DEF Affect
    <2>2. Owned'
      BY <2>1 DEF Sound, Owned, Sending, bufferVars
    <2>3. clock \in Nat /\ clock' - 1 = clock
      BY <2>1 DEF Typed, TypeOK
    <2>4. ASSUME NEW b \in Buffer PROVE OrderedUntil(b, clock + 1) /\ OrderedUntil(b, clock)
      BY <2>3, ChainLater DEF Sound, Ordered, OrderedUntil
    <2>5. \A pair \in todo' : pair[2] \in Buffer
      BY <2>1 DEF Typed, TypeOK
    <2>6. Ordered'
      BY <2>1, <2>3, <2>4, <2>5 DEF Sound, Ordered, OrderedUntil, Sending, bufferVars
    <2> QED
      BY <2>2, <2>6 DEF Sound
  <1>2. CASE SkipNil \/ InsertBlocks \/ GiveUp \/ NotifyDone
    <2>1. /\ UNCHANGED <<registry, queue, allocated, seen, clock>>
          /\ todo' \subseteq todo
          /\ kpc \in {"notify", "insert", "drop"}
          /\ kpc' \notin {"notify", "insert", "drop"} => todo' = {}
          /\ Sending' => \/ Sending /\ blocked' = blocked
                         \/ blocked' \in todo /\ todo' = todo \ {blocked'}
      BY <1>2 DEF SkipNil, InsertBlocks, GiveUp, NotifyDone, NotifyUnchanged, EndRequest, Sending
    <2>2. Owned'
      BY <2>1 DEF Sound, Owned
    <2>3. Ordered'
      BY <2>1 DEF Sound, Ordered, OrderedUntil
    <2> QED
      BY <2>2, <2>3 DEF Sound
  <1>3. CASE DropListener
    <2>1. /\ UNCHANGED <<todo, queue, allocated, seen, clock>> /\ kpc = "drop" /\ kpc' = "notify"
          /\ \A k \in Key : registry'[k] \in {registry[k], Nil}
      BY <1>3 DEF DropListener, RemoveListener, NotifyUnchanged, Typed, TypeOK
    <2>2. \A pair \in todo : pair[2] # Nil
      BY ControlAssumption DEF Typed, TypeOK
    <2>3. Owned'
      BY <2>1, <2>2 DEF Sound, Owned, Sending
    <2>4. Ordered'
      BY <2>1 DEF Sound, Ordered, OrderedUntil, Sending
    <2> QED
      BY <2>3, <2>4 DEF Sound
  <1> QED
    BY <1>1, <1>2, <1>3 DEF Notifying

\* The buffer an update goes to: its key's alone, with nothing of this stamp in it.
LEMMA InsertTarget ==
  ASSUME Typed, Sound, Insert \/ InsertLate
  PROVE  \E k \in Key, b \in Buffer :
           /\ InsertUpdate(k, b)
           /\ b \in allocated /\ OrderedUntil(b, clock - 1)
           /\ \A l \in Key : registry[l] = b => l = k
           /\ todo' \subseteq todo /\ \A pair \in todo' : pair[2] # b
           /\ \A pair \in todo : pair \in todo' \/ pair = <<k, b>>
           /\ kpc \in {"notify", "insert"} /\ (Sending => blocked = <<k, b>>)
           /\ kpc' = "notify"
           /\ UNCHANGED <<value, registry, allocated, seen, clock>>
PROOF
  <1>1. CASE Insert
    <2>1. PICK pair \in todo :
            InsertUpdate(pair[1], pair[2]) /\ todo' = todo \ {pair}
      BY <1>1 DEF Insert
    <2>2. pair[1] \in Key /\ pair[2] \in Buffer /\ pair = <<pair[1], pair[2]>>
      BY DEF Typed, TypeOK
    <2>3. /\ kpc = "notify" /\ kpc' = "notify" /\ ~Sending
          /\ UNCHANGED <<value, registry, allocated, seen, clock>>
      BY <1>1 DEF Insert, NotifyUnchanged, Sending
    <2>4. /\ pair[2] \in allocated /\ OrderedUntil(pair[2], clock - 1)
          /\ \A l \in Key : registry[l] = pair[2] => l = pair[1]
          /\ \A other \in todo' : other[2] # pair[2]
      BY <2>1 DEF Sound, Owned, Ordered
    <2> QED
      BY <2>1, <2>2, <2>3, <2>4
  <1>2. CASE InsertLate
    <2>1. /\ kpc = "insert" /\ kpc' = "notify" /\ Sending /\ todo' = todo
          /\ InsertUpdate(blocked[1], blocked[2])
          /\ UNCHANGED <<value, registry, allocated, seen, clock>>
      BY <1>2 DEF InsertLate, NotifyUnchanged, Sending
    <2>2. blocked[1] \in Key /\ blocked[2] \in Buffer /\ blocked = <<blocked[1], blocked[2]>>
      BY <2>1 DEF Typed, Requests
    <2>3. /\ blocked[2] \in allocated /\ OrderedUntil(blocked[2], clock - 1)
          /\ \A l \in Key : registry[l] = blocked[2] => l = blocked[1]
          /\ \A pair \in todo : pair[2] # blocked[2]
      BY <2>1 DEF Sound, Owned, Ordered
    <2> QED
      BY <2>1, <2>2, <2>3
  <1> QED
    BY <1>1, <1>2

LEMMA SoundInsert ==
  ASSUME Typed, Sound, Insert \/ InsertLate
  PROVE  Sound'
PROOF
  <1>1. PICK k \in Key, b \in Buffer :
           /\ InsertUpdate(k, b)
           /\ b \in allocated /\ OrderedUntil(b, clock - 1)
           /\ \A l \in Key : registry[l] = b => l = k
           /\ todo' \subseteq todo /\ \A pair \in todo' : pair[2] # b
           /\ kpc' = "notify"
           /\ UNCHANGED <<value, registry, allocated, seen, clock>>
    BY InsertTarget
  <1> DEFINE u == Update(serving.visitor, Read(value, k[2]), clock)
  <1>2. /\ queue'[b] = Append(queue[b], u)
        /\ \A x \in Buffer \ {b} : queue'[x] = queue[x]
    BY <1>1, InsertUpdateEffect
  <1>3. u.stamp = clock /\ clock \in Nat /\ IsSequence(queue[b])
    BY DEF Update, Typed, TypeOK, Sequences
  <1> HIDE DEF u
  <1>4. Chain(seen[b].stamp, Append(queue[b], u), clock)
    BY <1>1, <1>3, ChainAppend DEF OrderedUntil
  <1>5. Owned'
    BY <1>1, <1>2 DEF Sound, Owned, Sending
  <1>6. \A pair \in todo : pair[2] \in Buffer
    BY DEF Typed, TypeOK
  <1>7. Ordered'
    BY <1>1, <1>2, <1>4, <1>6 DEF Sound, Ordered, OrderedUntil, Sending
  <1> QED
    BY <1>5, <1>7 DEF Sound

LEMMA SoundTake ==
  ASSUME Typed, Sound, NEW c \in Caller, TakeOne(c)
  PROVE  Sound'
PROOF
  <1> DEFINE p == ptr[c]
  <1>1. /\ \A b \in Buffer \ {p} : queue'[b] = queue[b]
        /\ p \in Buffer => queue[p] # <<>> /\ queue'[p] = Tail(queue[p])
    BY TakeEffect
  <1>2. /\ UNCHANGED <<value, kpc, serving, todo, blocked, registry, allocated, clock>>
        /\ DOMAIN seen' = Buffer
        /\ \A b \in Buffer \ {p} : seen'[b] = seen[b]
        /\ p \in Buffer => seen'[p] = Head(queue[p])
    BY DEF TakeOne, kernelVars, Sound, Ordered
  <1>3. clock \in Nat /\ \A b \in Buffer : IsSequence(queue[b])
    BY DEF Typed, TypeOK, Sequences
  <1>4. /\ \A pair \in todo : pair[2] \in Buffer
        /\ Sending => blocked[2] \in Buffer
    BY DEF Typed, TypeOK, Requests, Sending
  <1> HIDE DEF p
  <1>5. ASSUME NEW b \in Buffer, NEW t \in Nat, OrderedUntil(b, t) PROVE OrderedUntil(b, t)'
    <2>1. CASE b = p
      BY <1>1, <1>2, <1>3, <1>5, <2>1, ChainTail DEF OrderedUntil
    <2>2. CASE b # p
      BY <1>1, <1>2, <1>5, <2>2 DEF OrderedUntil
    <2> QED
      BY <2>1, <2>2
  <1>6. ASSUME NEW b \in Buffer, OrderedUntil(b, clock - 1) PROVE clock - 1 \in Nat
    BY <1>3, <1>6 DEF OrderedUntil, Chain
  <1>7. Owned'
    BY <1>1, <1>2 DEF Sound, Owned, Sending
  <1>8. Ordered'
    <2>1. \A b \in Buffer : OrderedUntil(b, clock)'
      BY <1>2, <1>3, <1>5 DEF Sound, Ordered
    <2>2. \A pair \in todo : OrderedUntil(pair[2], clock - 1)'
      BY <1>2, <1>4, <1>5, <1>6 DEF Sound, Ordered
    <2>3. Sending => OrderedUntil(blocked[2], clock - 1)'
      BY <1>2, <1>4, <1>5, <1>6 DEF Sound, Ordered
    <2> QED
      BY <1>2, <2>1, <2>2, <2>3 DEF Ordered, Sending
  <1> QED
    BY <1>7, <1>8 DEF Sound

LEMMA SoundStore ==
  ASSUME Typed, Sound, Storing
  PROVE  Sound'
PROOF
  <1>1. PICK k : StoreNew(k)
    BY StoringEffect
  <1>2. PICK b \in Buffer \ allocated :
          /\ registry' = [registry EXCEPT ![k] = b]
          /\ allocated' = allocated \cup {b}
          /\ seen' = [seen EXCEPT ![b] = Update(Nil, Read(value, k[2]), clock)]
          /\ queue' = queue
    BY <1>1 DEF StoreNew
  <1>3. /\ UNCHANGED <<todo, blocked, clock>>
        /\ kpc' = kpc \/ ({kpc, kpc'} \cap {"notify", "insert", "drop"} = {})
    BY StoringEffect
  <1>4. /\ DOMAIN seen' = Buffer /\ seen'[b].stamp = clock
        /\ \A x \in Buffer \ {b} : seen'[x] = seen[x]
    BY <1>2 DEF Sound, Ordered, Update
  <1>5. \A l \in Key : registry'[l] = registry[l] \/ (l = k /\ registry'[l] = b)
    BY <1>2 DEF Typed, TypeOK
  <1>6. queue[b] = <<>> /\ Len(<<>>) = 0 /\ clock \in Nat
    BY <1>2, EmptySeq DEF Sound, Owned, Typed, TypeOK
  <1>7. Chain(clock, queue[b], clock)
    BY <1>6 DEF Chain
  <1>8. /\ \A pair \in todo : pair[2] \in Buffer \ {b}
        /\ Sending => blocked[2] \in Buffer \ {b}
    BY <1>2 DEF Sound, Owned, Typed, TypeOK, Requests, Sending
  <1>9. Owned'
    <2>1. \A l \in Key : registry'[l] # Nil => registry'[l] \in allocated'
      BY <1>2, <1>5 DEF Sound, Owned
    <2>2. \A l, m \in Key : registry'[l] # Nil /\ registry'[l] = registry'[m] => l = m
      BY <1>2, <1>5 DEF Sound, Owned
    <2>3. \A pair \in todo : /\ pair[2] \in allocated'
                            /\ \A l \in Key : registry'[l] = pair[2] => l = pair[1]
      BY <1>2, <1>5, <1>8 DEF Sound, Owned
    <2>4. Sending => /\ blocked[2] \in allocated'
                     /\ \A l \in Key : registry'[l] = blocked[2] => l = blocked[1]
                     /\ \A pair \in todo : pair[2] # blocked[2]
      BY <1>2, <1>5, <1>8 DEF Sound, Owned
    <2>5. \A x \in Buffer \ allocated' : queue'[x] = <<>>
      BY <1>2 DEF Sound, Owned
    <2>6. \A pair, other \in todo : pair[2] = other[2] => pair = other
      BY DEF Sound, Owned
    <2>7. kpc' \notin {"notify", "insert", "drop"} => todo' = {}
      BY <1>3 DEF Sound, Owned
    <2> QED
      BY <1>3, <2>1, <2>2, <2>3, <2>4, <2>5, <2>6, <2>7 DEF Owned, Sending
  <1>10. Ordered'
    BY <1>2, <1>3, <1>4, <1>7, <1>8 DEF Sound, Ordered, OrderedUntil, Sending
  <1> QED
    BY <1>9, <1>10 DEF Sound

LEMMA SoundWrite ==
  ASSUME Sound, ExecuteWrite
  PROVE  Sound'
PROOF
  BY SoundFrame DEF ExecuteWrite

LEMMA SoundWork ==
  ASSUME Typed, Sound, Work
  PROVE  Sound'
PROOF
  <1>1. ASSUME NEW c \in Caller, CallerOnly(c) PROVE Sound'
    BY <1>1, CallerTyped, SoundFrame DEF kernelVars
  <1>2. ASSUME NEW c \in Caller, TakeOne(c) PROVE Sound'
    BY <1>2, SoundTake
  <1>3. CASE Serving
    BY <1>3, ServingTyped, ServingLabels, SoundFrame DEF Quiet
  <1>4. CASE ExecuteWrite
    BY <1>4, SoundWrite
  <1>5. CASE Notifying
    BY <1>5, SoundNotify
  <1>6. CASE Insert \/ InsertLate
    BY <1>6, SoundInsert
  <1>7. CASE Storing
    BY <1>7, SoundStore
  <1> QED
    BY <1>1, <1>2, <1>3, <1>4, <1>5, <1>6, <1>7 DEF Work

LEMMA SoundStep ==
  ASSUME Typed, Sound, [Next]_vars
  PROVE  Sound'
PROOF
  <1>1. ASSUME NEW c \in Caller, Call(c) PROVE Sound'
    BY <1>1, CallTyped, SoundFrame DEF kernelVars
  <1>2. CASE UNCHANGED vars
    BY <1>2, SoundFrame DEF vars, kernelVars
  <1> QED
    BY <1>1, <1>2, SoundWork, NextKinds

\* Time stamps only grow along every buffer, whatever listeners come and go and
\* whenever readers take updates (affectedReadReturn, insertUpdate).
THEOREM AlwaysStampsInOrder == Spec => []StampsInOrder
PROOF
  <1> DEFINE Inv == Typed /\ Sound
  <1>1. Init => Inv
    BY TypedInit, SoundInit
  <1>2. Inv /\ [Next]_vars => Inv'
    BY TypedStep, SoundStep
  <1>3. Inv => StampsInOrder
    BY OrderedStamps DEF Sound
  <1> QED
    BY <1>1, <1>2, <1>3, PTL DEF Spec

-----------------------------------------------------------------------------
(***************************************************************************)
(* No lost update, when no path has leading zeros.                         *)
(***************************************************************************)
CanonicalPaths == \A path \in PathOf : CanonicalPath(path)

\* Steps that change no buffer and no document, and settle only listeners that
\* read as nothing.
LEMMA DrainedFrame ==
  ASSUME DrainedIsCurrent, UNCHANGED <<value, registry, queue, seen>>,
         \A k \in Key : registry[k] # Nil /\ Pending(k, registry[k])
           => Pending(k, registry[k])' \/ Read(value, k[2]) = Nil
  PROVE  DrainedIsCurrent'
PROOF
  BY DEF DrainedIsCurrent, Newest

LEMMA DrainedServing ==
  ASSUME Typed, DrainedIsCurrent, Serving
  PROVE  DrainedIsCurrent'
PROOF
  <1>1. /\ UNCHANGED <<value, registry, queue, seen, todo, blocked>>
        /\ kpc' = kpc \/ ({kpc, kpc'} \cap {"notify", "insert", "drop"} = {})
        /\ kpc \in {"replyWrite", "affected"}
              => kpc' \in {"replyWrite", "affected"} /\ serving' = serving
    BY ServingTyped, ServingLabels DEF Quiet, bufferVars
  <1>2. ASSUME NEW k \in Key, Pending(k, registry[k]) PROVE Pending(k, registry[k])'
    BY <1>1, <1>2 DEF Pending, Concerned
  <1> QED
    BY <1>1, <1>2, DrainedFrame

LEMMA DrainedWrite ==
  ASSUME CanonicalPaths, Typed, DrainedIsCurrent, ExecuteWrite
  PROVE  DrainedIsCurrent'
PROOF
  <1>1. /\ value' = Write(value, serving.path, serving.data)
        /\ kpc = "writing" /\ kpc' = "replyWrite"
        /\ UNCHANGED <<serving, todo, blocked, registry, queue, seen>>
    BY DEF ExecuteWrite, bufferVars
  <1>2. \A path \in PathOf : path \in Seq(Segment) /\ CanonicalPath(path)
    BY ControlAssumption DEF PathOf, CanonicalPaths
  <1>3. IsDocument(value) /\ IsDocument(serving.data) /\ serving.path \in PathOf
    BY <1>1, ControlAssumption DEF Typed, TypeOK, Requests
  <1>4. ASSUME NEW k \in Key, ~Concerned(serving.path, k)
        PROVE  Read(value', k[2]) = Read(value, k[2])
    <2>1. k[2] \in PathOf /\ ~WhetherContain(serving.path, k[2])
      BY <1>4 DEF Key, Concerned
    <2> QED
      BY <1>1, <1>2, <1>3, <2>1, ReadElsewhere
  <1>5. ASSUME NEW k \in Key, ~Pending(k, registry[k])'
        PROVE  ~Concerned(serving.path, k) /\ ~Pending(k, registry[k])
    BY <1>1, <1>5 DEF Pending, Concerned
  <1> QED
    BY <1>1, <1>4, <1>5 DEF DrainedIsCurrent, Newest

LEMMA DrainedNotify ==
  ASSUME Typed, Sound, DrainedIsCurrent, Notifying
  PROVE  DrainedIsCurrent'
PROOF
  <1>1. CASE Affect
    <2>1. UNCHANGED <<value, registry, queue, seen>>
      BY <1>1 DEF Affect, bufferVars
    <2>2. ASSUME NEW k \in Key, registry[k] # Nil, Pending(k, registry[k])
          PROVE  Pending(k, registry[k])'
      <3>1. Concerned(serving.path, k)
        BY <1>1, <2>2 DEF Affect, Pending, Sound, Owned
      <3>2. <<k, registry[k]>> \in todo'
        BY <1>1, <2>2, <3>1 DEF Affect
      <3> QED
        BY <2>1, <3>2 DEF Pending
    <2> QED
      BY <2>1, <2>2, DrainedFrame
  <1>2. CASE SkipNil
    <2>1. PICK pair \in todo : Read(value, pair[1][2]) = Nil /\ todo' = todo \ {pair}
      BY <1>2 DEF SkipNil
    <2>2. kpc = "notify" /\ kpc' = kpc /\ UNCHANGED <<value, registry, queue, seen>>
      BY <1>2 DEF SkipNil, NotifyUnchanged
    <2>3. ASSUME NEW k \in Key, Pending(k, registry[k])
          PROVE  Pending(k, registry[k])' \/ Read(value, k[2]) = Nil
      BY <2>1, <2>2, <2>3 DEF Pending
    <2> QED
      BY <2>2, <2>3, DrainedFrame
  <1>3. CASE InsertBlocks
    <2>1. PICK pair \in todo : todo' = todo \ {pair} /\ blocked' = pair
      BY <1>3 DEF InsertBlocks
    <2>2. kpc = "notify" /\ kpc' = "insert" /\ UNCHANGED <<value, registry, queue, seen>>
      BY <1>3 DEF InsertBlocks, NotifyUnchanged
    <2>3. ASSUME NEW k \in Key, Pending(k, registry[k]) PROVE Pending(k, registry[k])'
      BY <2>1, <2>2, <2>3 DEF Pending
    <2> QED
      BY <2>2, <2>3, DrainedFrame
  <1>4. CASE GiveUp
    <2>1. /\ kpc = "insert" /\ kpc' = "drop"
          /\ UNCHANGED <<value, registry, queue, seen, todo, blocked>>
      BY <1>4 DEF GiveUp, NotifyUnchanged
    <2>2. ASSUME NEW k \in Key, Pending(k, registry[k]) PROVE Pending(k, registry[k])'
      BY <2>1, <2>2 DEF Pending
    <2> QED
      BY <2>1, <2>2, DrainedFrame
  <1>5. CASE NotifyDone
    <2>1. kpc = "notify" /\ todo = {} /\ UNCHANGED <<value, registry, queue, seen>>
      BY <1>5 DEF NotifyDone, NotifyUnchanged
    <2>2. ASSUME NEW k \in Key PROVE ~Pending(k, registry[k])
      BY <2>1 DEF Pending
    <2> QED
      BY <2>1, <2>2, DrainedFrame
  <1>6. CASE DropListener
    <2>1. /\ kpc = "drop" /\ kpc' = "notify"
          /\ UNCHANGED <<value, queue, seen, todo>>
          /\ registry' = [registry EXCEPT ![blocked[1]] = Nil]
      BY <1>6 DEF DropListener, RemoveListener, NotifyUnchanged
    <2>2. ASSUME NEW k \in Key, registry'[k] # Nil
          PROVE  /\ registry'[k] = registry[k]
                 /\ Pending(k, registry[k]) => Pending(k, registry[k])'
      <3>1. k # blocked[1] /\ registry'[k] = registry[k]
        BY <2>1, <2>2 DEF Typed, TypeOK
      <3>2. blocked # <<k, registry[k]>>
        BY <3>1
      <3> QED
        BY <2>1, <3>1, <3>2 DEF Pending
    <2> QED
      BY <2>1, <2>2 DEF DrainedIsCurrent, Newest
  <1> QED
    BY <1>1, <1>2, <1>3, <1>4, <1>5, <1>6 DEF Notifying

LEMMA DrainedInsert ==
  ASSUME Typed, Sound, DrainedIsCurrent, Insert \/ InsertLate
  PROVE  DrainedIsCurrent'
PROOF
  <1>1. PICK k \in Key, b \in Buffer :
           /\ InsertUpdate(k, b)
           /\ \A l \in Key : registry[l] = b => l = k
           /\ \A pair \in todo : pair \in todo' \/ pair = <<k, b>>
           /\ kpc \in {"notify", "insert"} /\ (Sending => blocked = <<k, b>>)
           /\ kpc' = "notify"
           /\ UNCHANGED <<value, registry, allocated, seen, clock>>
    BY InsertTarget
  <1> DEFINE u == Update(serving.visitor, Read(value, k[2]), clock)
  <1>2. /\ queue'[b] = Append(queue[b], u)
        /\ \A x \in Buffer \ {b} : queue'[x] = queue[x]
    BY <1>1, InsertUpdateEffect
  <1>3. u.result = Read(value, k[2]) /\ IsSequence(queue[b])
    BY DEF Update, Typed, Sequences
  <1> HIDE DEF u
  <1>4. queue'[b] # <<>> /\ Last(queue'[b]) = u
    BY <1>2, <1>3, SequenceAppend
  <1>5. SUFFICES ASSUME NEW l \in Key, registry[l] # Nil, Read(value, l[2]) # Nil,
                        ~Pending(l, registry[l])'
                 PROVE  Newest(registry[l])' = Read(value, l[2])
    BY <1>1 DEF DrainedIsCurrent
  <1>6. CASE registry[l] = b
    <2>1. l = k
      BY <1>1, <1>6
    <2> QED
      BY <1>1, <1>3, <1>4, <1>6, <2>1 DEF Newest
  <1>7. CASE registry[l] # b
    <2>1. <<l, registry[l]>> # <<k, b>> /\ registry[l] \in Buffer
      BY <1>5, <1>7 DEF Typed, TypeOK
    <2>2. ~Pending(l, registry[l])
      BY <1>1, <1>5, <2>1 DEF Pending, Sending
    <2>3. Newest(registry[l]) = Read(value, l[2])
      BY <1>5, <2>2 DEF DrainedIsCurrent
    <2> QED
      BY <1>1, <1>2, <1>7, <2>1, <2>3 DEF Newest
  <1> QED
    BY <1>6, <1>7

LEMMA DrainedTake ==
  ASSUME Typed, Sound, DrainedIsCurrent, NEW c \in Caller, TakeOne(c)
  PROVE  DrainedIsCurrent'
PROOF
  <1> DEFINE p == ptr[c]
  <1>1. /\ \A b \in Buffer \ {p} : queue'[b] = queue[b]
        /\ p \in Buffer => queue[p] # <<>> /\ queue'[p] = Tail(queue[p])
    BY TakeEffect
  <1>2. /\ UNCHANGED <<value, kpc, serving, todo, blocked, registry>>
        /\ \A b \in Buffer \ {p} : seen'[b] = seen[b]
        /\ p \in Buffer => seen'[p] = Head(queue[p])
    BY DEF TakeOne, kernelVars, Sound, Ordered
  <1> HIDE DEF p
  <1>3. ASSUME NEW b \in Buffer PROVE Newest(b)' = Newest(b)
    <2>1. CASE b = p
      <3>1. /\ Tail(queue[b]) = <<>> => Last(queue[b]) = Head(queue[b])
            /\ Tail(queue[b]) # <<>> => Last(Tail(queue[b])) = Last(queue[b])
        BY <1>1, <2>1, SequenceTail DEF Typed, Sequences
      <3> QED
        BY <1>1, <1>2, <2>1, <3>1 DEF Newest
    <2>2. CASE b # p
      BY <1>1, <1>2, <2>2 DEF Newest
    <2> QED
      BY <2>1, <2>2
  <1>4. ASSUME NEW k \in Key PROVE Pending(k, registry[k])' <=> Pending(k, registry[k])
    BY <1>2 DEF Pending, Concerned
  <1>5. \A k \in Key : registry[k] # Nil => registry[k] \in Buffer
    BY DEF Typed, TypeOK
  <1> QED
    BY <1>2, <1>3, <1>4, <1>5 DEF DrainedIsCurrent

LEMMA DrainedStore ==
  ASSUME Typed, Sound, DrainedIsCurrent, Storing
  PROVE  DrainedIsCurrent'
PROOF
  <1>1. PICK k : StoreNew(k)
    BY StoringEffect
  <1>2. PICK b \in Buffer \ allocated :
          /\ registry' = [registry EXCEPT ![k] = b]
          /\ seen' = [seen EXCEPT ![b] = Update(Nil, Read(value, k[2]), clock)]
          /\ queue' = queue
    BY <1>1 DEF StoreNew
  <1>3. /\ UNCHANGED <<value, serving, todo, blocked>>
        /\ kpc' = kpc \/ (kpc = "store" /\ kpc' = "get")
    BY StoringEffect
  <1>4. seen'[b].result = Read(value, k[2]) /\ queue[b] = <<>>
    BY <1>2 DEF Sound, Owned, Ordered, Update
  <1>5. SUFFICES ASSUME NEW l \in Key, registry'[l] # Nil, Read(value, l[2]) # Nil,
                        ~Pending(l, registry[l])'
                 PROVE  Newest(registry[l])' = Read(value, l[2])
    BY <1>3 DEF DrainedIsCurrent
  <1>6. CASE l = k
    <2>1. registry'[l] = b
      BY <1>2, <1>6 DEF Typed, TypeOK
    <2> QED
      BY <1>2, <1>4, <1>6, <2>1 DEF Newest
  <1>7. CASE l # k
    <2>1. registry'[l] = registry[l]
      BY <1>2, <1>7 DEF Typed, TypeOK
    <2>2. registry[l] # b
      BY <1>2, <1>5, <2>1 DEF Sound, Owned
    <2>3. seen'[registry[l]] = seen[registry[l]]
      BY <1>2, <2>2 DEF Sound, Ordered
    <2>4. ~Pending(l, registry[l])
      BY <1>3, <1>5, <2>1 DEF Pending, Concerned
    <2> QED
      BY <1>2, <1>5, <2>1, <2>3, <2>4 DEF DrainedIsCurrent, Newest
  <1> QED
    BY <1>6, <1>7

LEMMA DrainedRest ==
  ASSUME DrainedIsCurrent, UNCHANGED <<value, kernelVars, bufferVars>>
  PROVE  DrainedIsCurrent'
PROOF
  <1>1. ASSUME NEW k \in Key, Pending(k, registry[k]) PROVE Pending(k, registry[k])'
    BY <1>1 DEF kernelVars, bufferVars, Pending, Concerned
  <1> QED
    BY <1>1, DrainedFrame DEF bufferVars

LEMMA DrainedWork ==
  ASSUME CanonicalPaths, Typed, Sound, DrainedIsCurrent, Work
  PROVE  DrainedIsCurrent'
PROOF
  <1>1. ASSUME NEW c \in Caller, CallerOnly(c) PROVE DrainedIsCurrent'
    BY <1>1, CallerTyped, DrainedRest
  <1>2. ASSUME NEW c \in Caller, TakeOne(c) PROVE DrainedIsCurrent'
    BY <1>2, DrainedTake
  <1>3. CASE Serving
    BY <1>3, DrainedServing
  <1>4. CASE ExecuteWrite
    BY <1>4, DrainedWrite
  <1>5. CASE Notifying
    BY <1>5, DrainedNotify
  <1>6. CASE Insert \/ InsertLate
    BY <1>6, DrainedInsert
  <1>7. CASE Storing
    BY <1>7, DrainedStore
  <1> QED
    BY <1>1, <1>2, <1>3, <1>4, <1>5, <1>6, <1>7 DEF Work

LEMMA DrainedStep ==
  ASSUME CanonicalPaths, Typed, Sound, DrainedIsCurrent, [Next]_vars
  PROVE  DrainedIsCurrent'
PROOF
  <1>1. ASSUME NEW c \in Caller, Call(c) PROVE DrainedIsCurrent'
    BY <1>1, CallTyped, DrainedRest
  <1>2. CASE UNCHANGED vars
    BY <1>2, DrainedRest DEF vars
  <1> QED
    BY <1>1, <1>2, DrainedWork, NextKinds

\* No lost update (Control, affectedReadReturn, applyFor): whatever is written and
\* whenever listeners come, a listener that empties its buffer ends with what its
\* path reads.  Array numbers must be spelled without leading zeros: Affect
\* compares texts, and a listener on b/00 does not hear of a write to b/0.
THEOREM AlwaysDrainedIsCurrent == CanonicalPaths => (Spec => []DrainedIsCurrent)
PROOF
  <1> SUFFICES ASSUME CanonicalPaths PROVE Spec => []DrainedIsCurrent
    OBVIOUS
  <1> DEFINE Inv == Typed /\ Sound /\ DrainedIsCurrent
  <1>1. Init => Inv
    <2>1. Init => DrainedIsCurrent
      BY DEF Init, DrainedIsCurrent
    <2> QED
      BY <2>1, TypedInit, SoundInit
  <1>2. Inv /\ [Next]_vars => Inv'
    BY TypedStep, SoundStep, DrainedStep
  <1> QED
    BY <1>1, <1>2, PTL DEF Spec

-----------------------------------------------------------------------------
(***************************************************************************)
(* Listeners.  A buffer leaves the registry in two ways: the control       *)
(* goroutine drops the listener, or a Store replaces it.  The second takes *)
(* two goroutines that are between Load and Store of applyFor for one key. *)
(***************************************************************************)
\* No two goroutines are about to Store a buffer for one key.
StoresAlone ==
  /\ \A c, d \in Caller :
       pc[c] = "store" /\ pc[d] = "store" /\ KeyOf(req[c]) = KeyOf(req[d]) => c = d
  /\ \A c \in Caller : pc[c] = "store" /\ kpc = "store" => KeyOf(req[c]) # KeyOf(serving)

\* What the control goroutine notifies is still registered, and what a goroutine
\* is about to register is not; the control goroutine registers a known path.
Kept ==
  /\ \A pair \in todo : registry[pair[1]] = pair[2]
  /\ Sending => registry[blocked[1]] = blocked[2]
  /\ \A c \in Caller : pc[c] = "store" => registry[KeyOf(req[c])] = Nil
  /\ kpc = "store" => registry[KeyOf(serving)] = Nil
  /\ kpc \in {"lookup", "load", "store"} => KeyOf(serving) \in Key

LEMMA KeptInit == Init => Kept
PROOF
  BY DEF Init, Kept, Sending

\* A step of the callers that brings none of them to Store but through its Load.
LEMMA KeptRest ==
  ASSUME Kept, UNCHANGED <<kernelVars, registry>>,
         \A c \in Caller : pc'[c] = "store" => registry[KeyOf(req'[c])] = Nil
  PROVE  Kept'
PROOF
  BY DEF Kept, KeyOf, Key, kernelVars, Sending

LEMMA RequestKeys ==
  ASSUME Typed
  PROVE  \A c \in Caller : pc[c] # "idle" => KeyOf(req[c]) \in Key
PROOF
  BY DEF Typed, Requests, KeyOf, Key

LEMMA LeavesAlone ==
  ASSUME Typed, NEW c \in Caller
  PROVE  /\ \A outcome, update : Return(c, outcome, update) =>
              /\ pc'[c] = "idle"
              /\ \A d \in Caller \ {c} : pc'[d] = pc[d] /\ req'[d] = req[d]
         /\ \A label : Goto(c, label) =>
              /\ pc'[c] = label /\ req' = req
              /\ \A d \in Caller \ {c} : pc'[d] = pc[d]
PROOF
  BY DEF Return, Goto, Typed, TypeOK

\* A caller is about to Store because its Load found nothing.
LEMMA CallerStores ==
  ASSUME Typed, Kept, NEW c \in Caller, NEW d \in Caller, CallerOnly(d) \/ TakeOne(d),
         pc'[c] = "store"
  PROVE  registry[KeyOf(req'[c])] = Nil
PROOF
  <1>1. CASE Load(d)
    <2>1. /\ pc'[d] = (IF registry[KeyOf(req[d])] = Nil THEN "store" ELSE "get") /\ req' = req
          /\ \A e \in Caller \ {d} : pc'[e] = pc[e]
      BY <1>1, LeavesAlone DEF Load
    <2> QED
      BY <2>1 DEF Kept
  <1>2. CASE RaceFatal(d)
    BY <1>2 DEF RaceFatal, callerVars, Kept
  <1>3. CASE ReadOneTimeout(d) \/ FindSome(d) \/ Get(d)
    <2>1. pc'[d] # "store" /\ req' = req /\ \A e \in Caller \ {d} : pc'[e] = pc[e]
      BY <1>3 DEF ReadOneTimeout, FindSome, Get, Goto, Typed, TypeOK
    <2> QED
      BY <2>1 DEF Kept
  <1>4. CASE \/ WriteNotSent(d) \/ WriteUnanswered(d) \/ RegisterNotSent(d)
             \/ RegisterUnanswered(d) \/ GetNothing(d) \/ FindNothing(d) \/ TakeOne(d)
             \/ ReadNotSent(d) \/ ReadUnanswered(d)
    <2>1. \E outcome, update : Return(d, outcome, update)
      BY <1>4 DEF WriteNotSent, WriteUnanswered, RegisterNotSent, RegisterUnanswered,
                  GetNothing, FindNothing, TakeOne, ReadNotSent, ReadUnanswered, FinishRead
    <2>2. pc'[d] = "idle" /\ \A e \in Caller \ {d} : pc'[e] = pc[e] /\ req'[e] = req[e]
      BY <2>1, LeavesAlone
    <2> QED
      BY <2>2 DEF Kept
  <1> QED
    BY <1>1, <1>2, <1>3, <1>4 DEF CallerOnly

\* While a request is handed over, served or answered no caller comes to Store.
LEMMA ServingStores ==
  ASSUME Typed, Serving, NEW c \in Caller, pc'[c] = "store"
  PROVE  pc[c] = "store" /\ req'[c] = req[c]
PROOF
  <1>1. CASE UNCHANGED callerVars
    BY <1>1 DEF callerVars
  <1>2. ASSUME NEW d \in Caller, AcceptWrite(d) \/ SendRead(d) \/ AcceptRegister(d)
        PROVE  pc[c] = "store" /\ req'[c] = req[c]
    BY <1>2 DEF AcceptWrite, SendRead, AcceptRegister, Goto, Typed, TypeOK
  <1>3. ASSUME NEW d \in Caller, AnswerWrite(d) \/ AnswerRead(d) \/ AnswerRegister(d)
        PROVE  pc[c] = "store" /\ req'[c] = req[c]
    <2>1. \E outcome, update : Return(d, outcome, update)
      BY <1>3 DEF AnswerWrite, AnswerRead, AnswerRegister, FinishRead
    <2> QED
      BY <2>1, LeavesAlone
  <1> QED
    BY <1>1, <1>2, <1>3 DEF Serving, WriteAnswerDropped, AcceptRead, ReadAnswerDropped, Lookup,
                            KernelLoad, KernelGet, RegisterAnswerDropped

LEMMA KeptStore ==
  ASSUME Typed, Kept, StoresAlone, Storing
  PROVE  Kept' /\ \A k \in Key : registry[k] # Nil => registry'[k] = registry[k]
PROOF
  <1> DEFINE key == IF KernelStore THEN KeyOf(serving) ELSE KeyOf(req[CHOOSE c \in Caller : Store(c)])
  <1>1. /\ StoreNew(key) /\ registry[key] = Nil /\ key \in Key /\ kpc' \in {kpc, "get"}
        /\ UNCHANGED <<serving, todo, blocked, req>>
        /\ \A c \in Caller : pc'[c] = "store" => pc[c] = "store" /\ KeyOf(req[c]) # key
        /\ kpc' = "store" => kpc = "store" /\ KeyOf(serving) # key
        /\ Sending' => Sending
    <2>1. CASE KernelStore
      <3>1. /\ kpc = "store" /\ kpc' = "get" /\ StoreNew(KeyOf(serving)) /\ key = KeyOf(serving)
            /\ UNCHANGED <<serving, todo, blocked, req, pc>>
        BY <2>1 DEF KernelStore, KernelUnchanged, callerVars
      <3> HIDE DEF key
      <3> QED
        BY <3>1 DEF Kept, StoresAlone, Sending
    <2>2. CASE ~KernelStore
      <3>1. PICK c \in Caller : Store(c) /\ key = KeyOf(req[c])
        BY <2>2 DEF Storing
      <3> HIDE DEF key
      <3>2. /\ pc[c] = "store" /\ StoreNew(key) /\ kpc' = kpc
            /\ UNCHANGED <<serving, todo, blocked, req>>
            /\ pc' = [pc EXCEPT ![c] = "get"]
        BY <3>1 DEF Store, Goto, kernelVars
      <3>3. \A d \in Caller : pc'[d] = "store" => d # c /\ pc[d] = "store"
        BY <3>2 DEF Typed, TypeOK
      <3>4. registry[key] = Nil /\ key \in Key
        BY <3>1, <3>2, RequestKeys DEF Kept
      <3> QED
        BY <3>1, <3>2, <3>3, <3>4 DEF StoresAlone, Sending
    <2> QED
      BY <2>1, <2>2
  <1> HIDE DEF key
  <1>2. PICK b \in Buffer : registry' = [registry EXCEPT ![key] = b]
    BY <1>1 DEF StoreNew
  <1>3. \A k \in Key : k # key => registry'[k] = registry[k]
    BY <1>2 DEF Typed, TypeOK
  <1>4. \A k \in Key : registry[k] # Nil => registry'[k] = registry[k]
    BY <1>1, <1>3
  <1>5. \A pair \in todo' : registry'[pair[1]] = pair[2]
    <2> SUFFICES ASSUME NEW pair \in todo PROVE registry'[pair[1]] = pair[2]
      BY <1>1
    <2>1. pair[1] \in Key /\ pair[2] # Nil
      BY ControlAssumption DEF Typed, TypeOK
    <2> QED
      BY <1>4, <2>1 DEF Kept
  <1>6. Sending' => registry'[blocked'[1]] = blocked'[2]
    <2> SUFFICES ASSUME Sending PROVE registry'[blocked[1]] = blocked[2]
      BY <1>1
    <2>1. blocked[1] \in Key /\ blocked[2] # Nil
      BY ControlAssumption DEF Typed, Requests, Sending
    <2> QED
      BY <1>4, <2>1 DEF Kept
  <1>7. \A c \in Caller : pc'[c] = "store" => registry'[KeyOf(req'[c])] = Nil
    <2> SUFFICES ASSUME NEW c \in Caller, pc'[c] = "store" PROVE registry'[KeyOf(req[c])] = Nil
      BY <1>1
    <2> QED
      BY <1>1, <1>3, RequestKeys DEF Kept
  <1>8. /\ kpc' = "store" => registry'[KeyOf(serving')] = Nil
        /\ kpc' \in {"lookup", "load", "store"} => KeyOf(serving') \in Key
    BY <1>1, <1>3 DEF Kept
  <1> QED
    BY <1>4, <1>5, <1>6, <1>7, <1>8 DEF Kept, KeyOf, Key

LEMMA KeptServing ==
  ASSUME Typed, Kept, Serving
  PROVE  Kept' /\ registry' = registry
PROOF
  <1>1. UNCHANGED <<todo, blocked, registry>>
    BY ServingTyped DEF Quiet, bufferVars
  <1>2. Sending' => Sending
    BY DEF Serving, WriteAnswerDropped, AcceptRead, ReadAnswerDropped, Lookup, KernelLoad,
           KernelGet, RegisterAnswerDropped, AcceptWrite, AnswerWrite, AnswerRead, SendRead,
           AcceptRegister, AnswerRegister, EndRequest, Sending, kernelVars
  <1>3. \A c \in Caller : pc'[c] = "store" => registry'[KeyOf(req'[c])] = Nil
    BY <1>1, ServingStores DEF Kept
  <1>4. kpc' = "store" => registry'[KeyOf(serving')] = Nil
    BY <1>1 DEF Serving, WriteAnswerDropped, AcceptRead, ReadAnswerDropped, Lookup, KernelLoad,
           KernelGet, RegisterAnswerDropped, AcceptWrite, AnswerWrite, AnswerRead, SendRead,
           AcceptRegister, AnswerRegister, EndRequest, kernelVars, Kept
  <1>5. kpc' \in {"lookup", "load", "store"} => KeyOf(serving') \in Key
    BY RequestKeys DEF Serving, WriteAnswerDropped, AcceptRead, ReadAnswerDropped, Lookup,
           KernelLoad, KernelGet, RegisterAnswerDropped, AcceptWrite, AnswerWrite, AnswerRead,
           SendRead, AcceptRegister, AnswerRegister, EndRequest, kernelVars, Kept
  <1> QED
    BY <1>1, <1>2, <1>3, <1>4, <1>5 DEF Kept, KeyOf, Key

\* Writing, notifying and dropping: the callers stay where they are.
LEMMA KeptNotify ==
  ASSUME Typed, Sound, Kept, Notifying \/ ExecuteWrite \/ Insert \/ InsertLate
  PROVE  /\ Kept'
         /\ \A k \in Key : registry[k] # Nil /\ registry'[k] # registry[k]
              => kpc = "drop" /\ blocked = <<k, registry[k]>>
PROOF
  <1>1. UNCHANGED callerVars
    BY DEF Notifying, Affect, SkipNil, InsertBlocks, GiveUp, DropListener, NotifyDone,
           ExecuteWrite, Insert, InsertLate, NotifyUnchanged
  <1>2. kpc' \notin {"lookup", "load", "store"}
    BY DEF Notifying, Affect, SkipNil, InsertBlocks, GiveUp, DropListener, NotifyDone,
           ExecuteWrite, Insert, InsertLate, EndRequest
  <1>3. CASE DropListener
    <2>1. /\ kpc = "drop" /\ kpc' = "notify" /\ todo' = todo
          /\ registry' = [registry EXCEPT ![blocked[1]] = Nil]
      BY <1>3 DEF DropListener, RemoveListener
    <2>2. blocked \in Key \X Buffer /\ registry[blocked[1]] = blocked[2]
      BY <2>1 DEF Typed, Requests, Kept, Sending
    <2>3. \A k \in Key : k # blocked[1] => registry'[k] = registry[k]
      BY <2>1 DEF Typed, TypeOK
    <2>4. \A k \in Key : registry[k] = Nil => registry'[k] = Nil
      BY <2>1 DEF Typed, TypeOK
    <2>5. \A pair \in todo' : registry'[pair[1]] = pair[2]
      <3> SUFFICES ASSUME NEW pair \in todo PROVE registry'[pair[1]] = pair[2]
        BY <2>1
      <3>1. pair[2] # blocked[2] /\ pair[1] \in Key /\ registry[pair[1]] = pair[2]
        BY <2>1 DEF Sound, Owned, Sending, Kept, Typed, TypeOK
      <3> QED
        BY <2>2, <2>3, <3>1
    <2>6. \A c \in Caller : pc'[c] = "store" => registry'[KeyOf(req'[c])] = Nil
      <3> SUFFICES ASSUME NEW c \in Caller, pc[c] = "store" PROVE registry'[KeyOf(req[c])] = Nil
        BY <1>1 DEF callerVars
      <3>1. KeyOf(req[c]) \in Key
        BY DEF Typed, Requests, KeyOf, Key
      <3> QED
        BY <2>4, <3>1 DEF Kept
    <2>7. \A k \in Key : registry'[k] # registry[k] => blocked = <<k, registry[k]>>
      BY <2>2, <2>3
    <2>8. ~Sending'
      BY <2>1 DEF Sending
    <2> QED
      BY <1>2, <2>1, <2>5, <2>6, <2>7, <2>8 DEF Kept, KeyOf, Key
  <1>4. CASE ~DropListener
    <2>1. registry' = registry
      BY <1>4 DEF Notifying, Affect, SkipNil, InsertBlocks, GiveUp, NotifyDone,
                  ExecuteWrite, Insert, InsertLate, bufferVars
    <2>2. /\ \A pair \in todo' : registry[pair[1]] = pair[2]
          /\ Sending' => registry[blocked'[1]] = blocked'[2]
      <3>1. CASE Affect
        BY <3>1 DEF Affect, Sending
      <3>2. CASE InsertBlocks
        BY <3>2 DEF InsertBlocks, Kept
      <3>3. CASE GiveUp
        BY <3>3 DEF GiveUp, Kept, Sending
      <3>4. CASE SkipNil \/ NotifyDone \/ ExecuteWrite \/ Insert \/ InsertLate
        <4>1. todo' \subseteq todo /\ ~Sending'
          BY <3>4 DEF SkipNil, NotifyDone, EndRequest, ExecuteWrite, Insert, InsertLate, Sending
        <4> QED
          BY <4>1 DEF Kept
      <3> QED
        BY <1>4, <3>1, <3>2, <3>3, <3>4 DEF Notifying
    <2>3. \A c \in Caller : pc'[c] = "store" => registry'[KeyOf(req'[c])] = Nil
      BY <1>1, <2>1 DEF callerVars, Kept
    <2> QED
      BY <1>2, <2>1, <2>2, <2>3 DEF Kept, KeyOf, Key
  <1> QED
    BY <1>3, <1>4

KeptAction ==
  \A k \in Key : registry[k] # Nil /\ registry'[k] # registry[k]
                   => kpc = "drop" /\ blocked = <<k, registry[k]>>

LEMMA KeptWork ==
  ASSUME Typed, Sound, Kept, StoresAlone, Work
  PROVE  Kept' /\ KeptAction
PROOF
  <1>1. ASSUME NEW d \in Caller, CallerOnly(d) \/ TakeOne(d) PROVE Kept' /\ KeptAction
    <2>1. UNCHANGED <<kernelVars, registry>>
      <3>1. TakeOne(d) => UNCHANGED <<kernelVars, registry>>
        BY DEF TakeOne
      <3> QED
        BY <1>1, <3>1, CallerTyped DEF bufferVars
    <2> QED
      BY <1>1, <2>1, CallerStores, KeptRest DEF KeptAction
  <1>2. CASE Serving
    BY <1>2, KeptServing DEF KeptAction
  <1>3. CASE Notifying \/ ExecuteWrite \/ Insert \/ InsertLate
    BY <1>3, KeptNotify DEF KeptAction
  <1>4. CASE Storing
    BY <1>4, KeptStore DEF KeptAction
  <1> QED
    BY <1>1, <1>2, <1>3, <1>4 DEF Work

LEMMA KeptStep ==
  ASSUME Typed, Sound, Kept, StoresAlone, [Next]_vars
  PROVE  Kept' /\ KeptAction
PROOF
  <1>1. ASSUME NEW d \in Caller, Call(d) PROVE Kept' /\ KeptAction
    <2>1. UNCHANGED <<kernelVars, registry>>
      BY <1>1, CallTyped DEF bufferVars
    <2>2. \A c \in Caller : pc'[c] = "store" => pc[c] = "store" /\ req'[c] = req[c]
      BY <1>1 DEF Call, WriteQuickly, ReadQuickly, RegisterNotify, ReadBuffer, ReadWithTime,
                  Start, Begin, Typed, TypeOK
    <2> QED
      BY <2>1, <2>2, KeptRest DEF Kept, KeptAction
  <1>2. CASE UNCHANGED vars
    <2>1. UNCHANGED <<kernelVars, registry, pc, req>>
      BY <1>2 DEF vars, bufferVars, callerVars
    <2> QED
      BY <2>1, KeptRest DEF Kept, KeptAction
  <1> QED
    BY <1>1, <1>2, KeptWork, NextKinds

\* As long as no two goroutines are between Load and Store of applyFor for one
\* key, a registered listener leaves the registry only because the control
\* goroutine has found its buffer full (applyFor, Remove).
THEOREM KeptUnlessStoredTwice == Spec /\ []StoresAlone => ListenerKept
PROOF
  <1> DEFINE Inv == Typed /\ Sound /\ Kept
  <1>1. Init => Inv
    BY TypedInit, SoundInit, KeptInit
  <1>2. Inv /\ StoresAlone /\ [Next]_vars => Inv'
    BY TypedStep, SoundStep, KeptStep
  <1>3. Inv /\ StoresAlone /\ [Next]_vars =>
          [\A k \in Key :
             registry[k] # Nil /\ registry'[k] # registry[k]
               => kpc = "drop" /\ blocked = <<k, registry[k]>>]_vars
    BY KeptStep DEF KeptAction
  <1> QED
    BY <1>1, <1>2, <1>3, PTL DEF Spec, ListenerKept
=============================================================================
