--------------------------- MODULE VisitorsControl ---------------------------
(***************************************************************************)
(* The core of the data center (component/visitorsControl.go, visitor.go,  *)
(* affectboundary.go): the control goroutine that owns the document and    *)
(* serves one request at a time, and the goroutines of the HTTP and socket *)
(* servers that call WriteQuickly, ReadQuickly, RegisterNotify, ReadBuffer *)
(* and ReadWithTime.                                                       *)
(*                                                                         *)
(* Requests reach the control goroutine through two unbuffered channels    *)
(* (write, register) and a buffered one (read); each request carries its   *)
(* own unbuffered result channel.  Every send and receive of the callers   *)
(* and of the control goroutine has a timeout.  A timeout fires only while *)
(* its operation cannot proceed: Go hands a value over as soon as both     *)
(* sides wait.  A listener is a buffered channel in the shared registry    *)
(* waitWithTimeout, keyed by visitor name and path; the registry is a      *)
(* sync.Map and both sides change it without a lock, in applyFor.          *)
(*                                                                         *)
(* Time is the counter clock: it advances with the time stamp taken after  *)
(* each write, and a stamp is the value of clock when it is taken.         *)
(***************************************************************************)
EXTENDS JsonObject, Integers, FiniteSets

CONSTANTS Caller,         \* goroutines that call the control unit
          Visitor,        \* visitor names
          Operation,      \* Operation[c]: the methods goroutine c calls
          NameOf,         \* NameOf[c]: the visitor names goroutine c uses
          Road,           \* request paths
          Data,           \* documents written
          Timeout,        \* timeouts passed to ReadBuffer, in seconds
          Template,       \* the document at start
          ReadCapacity,   \* capacity of the channel read: 100 in the code
          BufferCapacity, \* capacity of a listener's buffer: 500 in the code
          Buffer,         \* buffers that can be allocated
          MaxCalls        \* bound: MaxCalls[c], the calls goroutine c makes

Method == {"Write", "Read", "Register", "ReadBuffer", "ReadWithTime"}

ASSUME ControlAssumption ==
  /\ Operation \in [Caller -> SUBSET Method]
  /\ NameOf \in [Caller -> SUBSET Visitor]
  /\ Road \subseteq Seq(Segment \cup {""})
  /\ \A road \in Road : InputFromString(road) \in Seq(Segment)
  /\ \A data \in Data : IsDocument(data)
  /\ IsDocument(Template)
  /\ Timeout \subseteq Int
  /\ ReadCapacity \in Nat \ {0}
  /\ BufferCapacity \in Nat \ {0}
  /\ MaxCalls \in [Caller -> Nat]
  /\ Nil \notin Buffer \cup Visitor

VARIABLES
  value,     \* the document
  alive,     \* FALSE once a panic or a fatal error has ended the process
  kpc,       \* where the control goroutine is
  serving,   \* the request it is serving
  reply,     \* what it returns: outcome of a write, result of a read or register
  todo,      \* affected listeners still to be notified: pairs <<key, buffer>>
  blocked,   \* the pair whose full buffer it is waiting on
  registry,  \* waitWithTimeout: key -> buffer, Nil when absent
  queue,     \* buffer -> updates not yet read
  allocated, \* buffers made so far
  readChan,  \* the channel read
  clock,     \* number of write stamps taken
  pc,        \* pc[c]: where caller c is
  req,       \* req[c]: the request of the current or latest call of c
  calls,     \* calls[c]: number of calls c has started
  ptr,       \* ptr[c]: the buffer c has got from applyFor
  answer,    \* answer[c]: what the latest finished call of c returned
  seen       \* history: seen[b], the latest update taken from buffer b; before
             \* the first, what its path read when b was registered

kernelVars == <<kpc, serving, reply, todo, blocked>>
bufferVars == <<registry, queue, allocated, seen>>
callerVars == <<pc, req, calls, ptr, answer>>
vars == <<value, alive, kernelVars, bufferVars, readChan, clock, callerVars>>

-----------------------------------------------------------------------------
PathOf == {InputFromString(road) : road \in Road}

\* VisitorRwait.String(): the visitor name and the printed path.
Key == Visitor \X PathOf
KeyOf(r) == <<r.visitor, r.path>>

Update(writer, result, stamp) == [writer |-> writer, result |-> result, stamp |-> stamp]

\* DefaultReadBufferResult
NoUpdate == Update(Nil, Nil, 0)

Answer(op, outcome, update) == [op |-> op, outcome |-> outcome, update |-> update]

NoRequest == [caller |-> Nil, call |-> 0, op |-> "none", visitor |-> Nil,
              path |-> <<>>, data |-> Nil, timeout |-> 0]

Init ==
  /\ value = Template
  /\ alive = TRUE
  /\ kpc = "select"
  /\ serving = NoRequest
  /\ reply = Nil
  /\ todo = {}
  /\ blocked = Nil
  /\ registry = [k \in Key |-> Nil]
  /\ queue = [b \in Buffer |-> <<>>]
  /\ allocated = {}
  /\ readChan = <<>>
  /\ clock = 0
  /\ pc = [c \in Caller |-> "idle"]
  /\ req = [c \in Caller |-> NoRequest]
  /\ calls = [c \in Caller |-> 0]
  /\ ptr = [c \in Caller |-> Nil]
  /\ answer = [c \in Caller |-> Answer("none", "none", NoUpdate)]
  /\ seen = [b \in Buffer |-> NoUpdate]

-----------------------------------------------------------------------------
(***************************************************************************)
(* Starting and finishing a call.                                          *)
(***************************************************************************)
Begin(c, call, op, first, name, path, data, timeout) ==
  /\ pc[c] = "idle"
  /\ req' = [req EXCEPT ![c] = [caller |-> c, call |-> call, op |-> op, visitor |-> name,
                               path |-> path, data |-> data, timeout |-> timeout]]
  /\ calls' = [calls EXCEPT ![c] = call]
  /\ pc' = [pc EXCEPT ![c] = first]
  /\ UNCHANGED <<value, alive, kernelVars, bufferVars, readChan, clock, ptr>>

Start(c, op, first, road, data, timeout) ==
  /\ op \in Operation[c]
  /\ calls[c] < MaxCalls[c]
  /\ \E name \in NameOf[c] :
       Begin(c, calls[c] + 1, op, first, name, InputFromString(road), data, timeout)
  /\ UNCHANGED answer

\* The variables of the call go out of scope, and with them its result channel.
Return(c, outcome, update) ==
  /\ pc' = [pc EXCEPT ![c] = "idle"]
  /\ answer' = [answer EXCEPT ![c] = Answer(req[c].op, outcome, update)]
  /\ req' = [req EXCEPT ![c] = NoRequest]
  /\ ptr' = [ptr EXCEPT ![c] = Nil]
  /\ UNCHANGED calls

Goto(c, label) ==
  /\ pc' = [pc EXCEPT ![c] = label]
  /\ UNCHANGED <<req, calls, ptr, answer>>

\* The control goroutine has served its request and goes back to its select.
EndRequest ==
  /\ kpc' = "select"
  /\ serving' = NoRequest
  /\ reply' = Nil

\* c waits for the answer to request r, on the result channel of r.
Awaits(c, label, r) == pc[c] = label /\ c = r.caller /\ req[c].call = r.call

WriteQuickly(c) ==
  \E road \in Road, data \in Data : Start(c, "Write", "sendWrite", road, data, 0)

ReadQuickly(c) ==
  \E road \in Road : Start(c, "Read", "sendRead", road, Nil, -1)

RegisterNotify(c) ==
  \E road \in Road : Start(c, "Register", "sendRegister", road, Nil, 1)

ReadBuffer(c) ==
  \E road \in Road, timeout \in Timeout :
    Start(c, "ReadBuffer", "load", road, Nil, timeout)

ReadWithTime(c) ==
  \E road \in Road, timeout \in Timeout :
    Start(c, "ReadWithTime", "find", road, Nil, timeout)

-----------------------------------------------------------------------------
(***************************************************************************)
(* WriteQuickly and the write branch of Control.                           *)
(***************************************************************************)
AcceptWrite(c) ==
  /\ kpc = "select"
  /\ pc[c] = "sendWrite"
  /\ kpc' = "writing"
  /\ serving' = req[c]
  /\ Goto(c, "awaitWrite")
  /\ UNCHANGED <<value, alive, reply, todo, blocked, bufferVars, readChan, clock>>

\* No receiver within 1000 ms.
WriteNotSent(c) ==
  /\ pc[c] = "sendWrite"
  /\ kpc # "select"
  /\ Return(c, "notSent", NoUpdate)
  /\ UNCHANGED <<value, alive, kernelVars, bufferVars, readChan, clock>>

\* No result within 100 ms of the request.
WriteUnanswered(c) ==
  /\ pc[c] = "awaitWrite"
  /\ ~(kpc = "replyWrite" /\ Awaits(c, "awaitWrite", serving))
  /\ Return(c, "noAnswer", NoUpdate)
  /\ UNCHANGED <<value, alive, kernelVars, bufferVars, readChan, clock>>

\* control.Write(a) is evaluated before the select that sends its result.
ExecuteWrite ==
  /\ kpc = "writing"
  /\ LET outcome == WriteOutcome(value, serving.path, serving.data)
     IN  /\ value' = Write(value, serving.path, serving.data)
         /\ alive' = (outcome # "panic")
         /\ reply' = outcome
  /\ kpc' = "replyWrite"
  /\ UNCHANGED <<serving, todo, blocked, bufferVars, readChan, clock, callerVars>>

AnswerWrite(c) ==
  /\ kpc = "replyWrite"
  /\ Awaits(c, "awaitWrite", serving)
  /\ Return(c, reply, NoUpdate)
  /\ kpc' = "affected"
  /\ reply' = Nil
  /\ UNCHANGED <<value, alive, serving, todo, blocked, bufferVars, readChan, clock>>

\* Mutant: the result is sent without a timeout.
WaitsForWriter == FALSE

\* Nobody receives the result within kernelMaxSendChannelTime.
WriteAnswerDropped ==
  /\ kpc = "replyWrite"
  /\ \A c \in Caller : ~Awaits(c, "awaitWrite", serving)
  /\ kpc' = "affected"
  /\ reply' = Nil
  /\ UNCHANGED <<value, alive, serving, todo, blocked, bufferVars, readChan, clock,
                 callerVars>>

\* Mutant: only listeners at the written path or above it are notified.
ConcernedAbove(path, k) == IsPrefix(k[2], path)

Concerned(path, k) == WhetherContain(path, k[2])

Affect ==
  /\ kpc = "affected"
  /\ clock' = clock + 1
  /\ todo' = {<<k, registry[k]>> :
                k \in {k \in Key : registry[k] # Nil /\ Concerned(serving.path, k)}}
  /\ kpc' = "notify"
  /\ UNCHANGED <<value, alive, serving, reply, blocked, bufferVars, readChan, callerVars>>

-----------------------------------------------------------------------------
(***************************************************************************)
(* affectedReadReturn: one update for every affected listener, in the      *)
(* order the map gives them.                                               *)
(***************************************************************************)
\* Mutant: every affected listener is sent what the written path reads.
SameForAll(k, b) ==
  /\ Len(queue[b]) < BufferCapacity
  /\ queue' = [queue EXCEPT ![b] =
                 Append(@, Update(serving.visitor, Read(value, serving.path), clock))]

\* Mutant: the time stamp is taken before the write, not after it.
StampBefore(k, b) ==
  /\ Len(queue[b]) < BufferCapacity
  /\ queue' = [queue EXCEPT ![b] =
                 Append(@, Update(serving.visitor, Read(value, k[2]), clock - 1))]

\* Mutant: the buffer has no limit.
Unbounded(k, b) ==
  queue' = [queue EXCEPT ![b] = Append(@, Update(serving.visitor, Read(value, k[2]), clock))]

\* The update of listener k carries what the path of k reads.
InsertUpdate(k, b) ==
  /\ Len(queue[b]) < BufferCapacity
  /\ queue' = [queue EXCEPT ![b] = Append(@, Update(serving.visitor, Read(value, k[2]), clock))]

NotifyUnchanged ==
  UNCHANGED <<value, alive, readChan, clock, callerVars, allocated, seen>>

\* The path of the listener reads as the empty result, which is not sent.
SkipNil ==
  /\ kpc = "notify"
  /\ \E pair \in todo :
       /\ Read(value, pair[1][2]) = Nil
       /\ todo' = todo \ {pair}
  /\ UNCHANGED <<serving, reply, kpc, blocked, registry, queue>>
  /\ NotifyUnchanged

Insert ==
  /\ kpc = "notify"
  /\ \E pair \in todo :
       /\ Read(value, pair[1][2]) # Nil
       /\ InsertUpdate(pair[1], pair[2])
       /\ todo' = todo \ {pair}
  /\ UNCHANGED <<serving, reply, kpc, blocked, registry>>
  /\ NotifyUnchanged

InsertBlocks ==
  /\ kpc = "notify"
  /\ \E pair \in todo :
       /\ Read(value, pair[1][2]) # Nil
       /\ Len(queue[pair[2]]) >= BufferCapacity
       /\ todo' = todo \ {pair}
       /\ blocked' = pair
  /\ kpc' = "insert"
  /\ UNCHANGED <<serving, reply, registry, queue>>
  /\ NotifyUnchanged

\* A reader makes room within 10 ms.
InsertLate ==
  /\ kpc = "insert"
  /\ InsertUpdate(blocked[1], blocked[2])
  /\ blocked' = Nil
  /\ kpc' = "notify"
  /\ UNCHANGED <<serving, reply, todo, registry>>
  /\ NotifyUnchanged

GiveUp ==
  /\ kpc = "insert"
  /\ Len(queue[blocked[2]]) >= BufferCapacity
  /\ kpc' = "drop"
  /\ UNCHANGED <<serving, reply, todo, blocked, registry, queue>>
  /\ NotifyUnchanged

\* Mutant: the visitor loses all its listeners, not the one with the full buffer.
RemoveVisitor(k) ==
  registry' = [x \in Key |-> IF x[1] = k[1] THEN Nil ELSE registry[x]]

RemoveListener(k) == registry' = [registry EXCEPT ![k] = Nil]

DropListener ==
  /\ kpc = "drop"
  /\ RemoveListener(blocked[1])
  /\ blocked' = Nil
  /\ kpc' = "notify"
  /\ UNCHANGED <<serving, reply, todo, queue>>
  /\ NotifyUnchanged

NotifyDone ==
  /\ kpc = "notify"
  /\ todo = {}
  /\ EndRequest
  /\ UNCHANGED <<todo, blocked, registry, queue>>
  /\ NotifyUnchanged

-----------------------------------------------------------------------------
(***************************************************************************)
(* ReadQuickly and the read branch of Control.  ReadBuffer falls back on   *)
(* ReadQuickly; its answer is then a snapshot stamped with the time at     *)
(* which ReadQuickly returned.                                             *)
(***************************************************************************)
FinishRead(c, result) ==
  IF req[c].op = "Read" THEN Return(c, "read", Update(Nil, result, 0))
  ELSE Return(c, "snapshot", Update(Nil, result, clock))

SendRead(c) ==
  /\ pc[c] = "sendRead"
  /\ Len(readChan) < ReadCapacity
  /\ readChan' = Append(readChan, req[c])
  /\ Goto(c, "awaitRead")
  /\ UNCHANGED <<value, alive, kernelVars, bufferVars, clock>>

\* The channel stays full for 1000 ms.
ReadNotSent(c) ==
  /\ pc[c] = "sendRead"
  /\ Len(readChan) >= ReadCapacity
  /\ FinishRead(c, Nil)
  /\ UNCHANGED <<value, alive, kernelVars, bufferVars, readChan, clock>>

AcceptRead ==
  /\ kpc = "select"
  /\ readChan # <<>>
  /\ serving' = Head(readChan)
  /\ readChan' = Tail(readChan)
  /\ reply' = Read(value, Head(readChan).path)
  /\ kpc' = "replyRead"
  /\ UNCHANGED <<value, alive, todo, blocked, bufferVars, clock, callerVars>>

\* Mutant: the results of all reads come back on one channel.
AnyReader(c, r) == pc[c] = "awaitRead"

AwaitsRead(c, r) == Awaits(c, "awaitRead", r)

AnswerRead(c) ==
  /\ kpc = "replyRead"
  /\ AwaitsRead(c, serving)
  /\ FinishRead(c, reply)
  /\ EndRequest
  /\ UNCHANGED <<value, alive, todo, blocked, bufferVars, readChan, clock>>

\* Nobody receives the result within kernelMaxSendChannelTime.
ReadAnswerDropped ==
  /\ kpc = "replyRead"
  /\ \A c \in Caller : ~Awaits(c, "awaitRead", serving)
  /\ EndRequest
  /\ UNCHANGED <<value, alive, todo, blocked, bufferVars, readChan, clock,
                 callerVars>>

\* No result within 100 ms of the request, which stays in the channel.
ReadUnanswered(c) ==
  /\ pc[c] = "awaitRead"
  /\ ~(kpc = "replyRead" /\ Awaits(c, "awaitRead", serving))
  /\ FinishRead(c, Nil)
  /\ UNCHANGED <<value, alive, kernelVars, bufferVars, readChan, clock>>

-----------------------------------------------------------------------------
(***************************************************************************)
(* applyFor, run by the control goroutine and by the callers of ReadBuffer *)
(* alike: Load, Store a new buffer when there was none, Load again.        *)
(***************************************************************************)
\* seen starts with what the path reads at the moment of registration.
StoreNew(k) ==
  \E b \in Buffer \ allocated :
    /\ registry' = [registry EXCEPT ![k] = b]
    /\ allocated' = allocated \cup {b}
    /\ seen' = [seen EXCEPT ![b] = Update(Nil, Read(value, k[2]), clock)]
    /\ UNCHANGED queue

Load(c) ==
  /\ pc[c] = "load"
  /\ Goto(c, IF registry[KeyOf(req[c])] = Nil THEN "store" ELSE "get")
  /\ UNCHANGED <<value, alive, kernelVars, bufferVars, readChan, clock>>

Store(c) ==
  /\ pc[c] = "store"
  /\ StoreNew(KeyOf(req[c]))
  /\ Goto(c, "get")
  /\ UNCHANGED <<value, alive, kernelVars, readChan, clock>>

\* The listener has been removed between the two loads.
GetNothing(c) ==
  /\ pc[c] = "get"
  /\ registry[KeyOf(req[c])] = Nil
  /\ Return(c, "noBuffer", NoUpdate)
  /\ UNCHANGED <<value, alive, kernelVars, bufferVars, readChan, clock>>

Get(c) ==
  /\ pc[c] = "get"
  /\ registry[KeyOf(req[c])] # Nil
  /\ pc' = [pc EXCEPT ![c] = "readOne"]
  /\ ptr' = [ptr EXCEPT ![c] = registry[KeyOf(req[c])]]
  /\ UNCHANGED <<req, calls, answer>>
  /\ UNCHANGED <<value, alive, kernelVars, bufferVars, readChan, clock>>

-----------------------------------------------------------------------------
(***************************************************************************)
(* ReadBuffer, and ReadWithTime, which looks the path up in the document   *)
(* first: on the caller's goroutine, with no lock.                         *)
(***************************************************************************)
TakeOne(c) ==
  /\ pc[c] = "readOne"
  /\ queue[ptr[c]] # <<>>
  /\ queue' = [queue EXCEPT ![ptr[c]] = Tail(@)]
  /\ seen' = [seen EXCEPT ![ptr[c]] = Head(queue[ptr[c]])]
  /\ Return(c, "update", Head(queue[ptr[c]]))
  /\ UNCHANGED <<value, alive, kernelVars, registry, allocated, readChan, clock>>

\* Mutant: a read with no timeout waits for the next update.
WaitsForUpdate(c) == FALSE

\* Nothing within timeout seconds.  A timeout that is not positive is over at once.
ReadOneTimeout(c) ==
  /\ pc[c] = "readOne"
  /\ queue[ptr[c]] = <<>> \/ req[c].timeout <= 0
  /\ Goto(c, "sendRead")
  /\ UNCHANGED <<value, alive, kernelVars, bufferVars, readChan, clock>>

FindNothing(c) ==
  /\ pc[c] = "find"
  /\ Find(value, req[c].path) = Nil
  /\ Return(c, "noResource", NoUpdate)
  /\ UNCHANGED <<value, alive, kernelVars, bufferVars, readChan, clock>>

FindSome(c) ==
  /\ pc[c] = "find"
  /\ Find(value, req[c].path) # Nil
  /\ Goto(c, "load")
  /\ UNCHANGED <<value, alive, kernelVars, bufferVars, readChan, clock>>

\* The Find of the caller looks a segment up in the container at place x.
LooksInto(path, x) ==
  \E i \in 1 .. Len(path) : Walks(value, path, i - 1) /\ Place(SubSeq(path, 1, i - 1)) = x

\* The control goroutine assigns to a map or slice that the caller's Find is
\* reading: the runtime may stop the process (concurrent map read and write).
RaceFatal(c) ==
  /\ pc[c] = "find"
  /\ kpc = "writing"
  /\ WriteOutcome(value, serving.path, serving.data) = "ok"
  /\ serving.path # <<>>
  /\ LooksInto(req[c].path, Find(value, Father(serving.path)))
  /\ alive' = FALSE
  /\ UNCHANGED <<value, kernelVars, bufferVars, readChan, clock, callerVars>>

-----------------------------------------------------------------------------
(***************************************************************************)
(* RegisterNotify and the register branch of Control.                      *)
(***************************************************************************)
AcceptRegister(c) ==
  /\ kpc = "select"
  /\ pc[c] = "sendRegister"
  /\ kpc' = "lookup"
  /\ serving' = req[c]
  /\ Goto(c, "awaitRegister")
  /\ UNCHANGED <<value, alive, reply, todo, blocked, bufferVars, readChan, clock>>

RegisterNotSent(c) ==
  /\ pc[c] = "sendRegister"
  /\ kpc # "select"
  /\ Return(c, "notSent", NoUpdate)
  /\ UNCHANGED <<value, alive, kernelVars, bufferVars, readChan, clock>>

RegisterUnanswered(c) ==
  /\ pc[c] = "awaitRegister"
  /\ ~(kpc = "replyRegister" /\ Awaits(c, "awaitRegister", serving))
  /\ Return(c, "noAnswer", NoUpdate)
  /\ UNCHANGED <<value, alive, kernelVars, bufferVars, readChan, clock>>

KernelUnchanged == UNCHANGED <<value, alive, todo, blocked, readChan, clock>>

Lookup ==
  /\ kpc = "lookup"
  /\ IF Find(value, serving.path) = Nil
     THEN kpc' = "replyRegister" /\ reply' = "noResource"
     ELSE kpc' = "load" /\ UNCHANGED reply
  /\ UNCHANGED <<serving, bufferVars, callerVars>>
  /\ KernelUnchanged

KernelLoad ==
  /\ kpc = "load"
  /\ kpc' = IF registry[KeyOf(serving)] = Nil THEN "store" ELSE "get"
  /\ UNCHANGED <<serving, reply, bufferVars, callerVars>>
  /\ KernelUnchanged

KernelStore ==
  /\ kpc = "store"
  /\ StoreNew(KeyOf(serving))
  /\ kpc' = "get"
  /\ UNCHANGED <<serving, reply, callerVars>>
  /\ KernelUnchanged

KernelGet ==
  /\ kpc = "get"
  /\ reply' = IF registry[KeyOf(serving)] = Nil THEN "noBuffer" ELSE "ok"
  /\ kpc' = "replyRegister"
  /\ UNCHANGED <<serving, bufferVars, callerVars>>
  /\ KernelUnchanged

AnswerRegister(c) ==
  /\ kpc = "replyRegister"
  /\ Awaits(c, "awaitRegister", serving)
  /\ Return(c, reply, NoUpdate)
  /\ EndRequest
  /\ UNCHANGED bufferVars
  /\ KernelUnchanged

\* Nobody receives the result within kernelMaxSendChannelTime.
RegisterAnswerDropped ==
  /\ kpc = "replyRegister"
  /\ \A c \in Caller : ~Awaits(c, "awaitRegister", serving)
  /\ EndRequest
  /\ UNCHANGED <<bufferVars, callerVars>>
  /\ KernelUnchanged

-----------------------------------------------------------------------------
Call(c) ==
  WriteQuickly(c) \/ ReadQuickly(c) \/ RegisterNotify(c) \/ ReadBuffer(c) \/ ReadWithTime(c)

\* The steps of a call that has been started.
CallerStep(c) ==
  \/ AcceptWrite(c) \/ WriteNotSent(c) \/ AnswerWrite(c) \/ WriteUnanswered(c)
  \/ SendRead(c) \/ ReadNotSent(c) \/ AnswerRead(c) \/ ReadUnanswered(c)
  \/ AcceptRegister(c) \/ RegisterNotSent(c) \/ AnswerRegister(c) \/ RegisterUnanswered(c)
  \/ Load(c) \/ Store(c) \/ Get(c) \/ GetNothing(c)
  \/ TakeOne(c) \/ ReadOneTimeout(c)
  \/ FindNothing(c) \/ FindSome(c)

\* The steps of the control goroutine that no caller takes part in.
KernelStep ==
  \/ ExecuteWrite \/ WriteAnswerDropped
  \/ Affect \/ SkipNil \/ Insert \/ InsertBlocks \/ InsertLate \/ GiveUp \/ DropListener
  \/ NotifyDone
  \/ AcceptRead \/ ReadAnswerDropped
  \/ Lookup \/ KernelLoad \/ KernelStore \/ KernelGet \/ RegisterAnswerDropped

Next ==
  /\ alive
  /\ \/ KernelStep
     \/ \E c \in Caller : Call(c) \/ CallerStep(c) \/ RaceFatal(c)

Spec == Init /\ [][Next]_vars

\* The Go scheduler runs every goroutine that can go on, and a timer ends every
\* wait: the control goroutine and each started call make progress.  Callers
\* need not call, and nothing makes a race fatal.
Fairness ==
  /\ WF_vars(alive /\ (KernelStep \/ \E c \in Caller : AnswerWrite(c) \/ AnswerRead(c)
                                                       \/ AnswerRegister(c)))
  /\ \A c \in Caller : WF_vars(alive /\ CallerStep(c))

FairSpec == Spec /\ Fairness

-----------------------------------------------------------------------------
Request ==
  [caller : Caller \cup {Nil}, call : Nat, op : Method \cup {"none"},
   visitor : Visitor \cup {Nil}, path : PathOf \cup {<<>>}, data : Data \cup {Nil},
   timeout : Int]

\* The states of the variables (VisitorsControl, longPollReadControl and the
\* local variables of their methods).
TypeOK ==
  /\ IsDocument(value)
  /\ alive \in BOOLEAN
  /\ kpc \in {"select", "writing", "replyWrite", "affected", "notify", "insert", "drop",
              "replyRead", "lookup", "load", "store", "get", "replyRegister"}
  /\ serving \in Request
  /\ todo \subseteq Key \X Buffer
  /\ blocked \in (Key \X Buffer) \cup {Nil}
  /\ registry \in [Key -> Buffer \cup {Nil}]
  /\ DOMAIN queue = Buffer
  /\ \A b \in Buffer : Len(queue[b]) <= BufferCapacity
  /\ allocated \subseteq Buffer
  /\ readChan \in Seq(Request)
  /\ Len(readChan) <= ReadCapacity
  /\ clock \in Nat
  /\ pc \in [Caller -> {"idle", "sendWrite", "awaitWrite", "sendRead", "awaitRead",
                        "sendRegister", "awaitRegister", "find", "load", "store", "get",
                        "readOne"}]
  /\ req \in [Caller -> Request]
  /\ calls \in [Caller -> Nat]
  /\ ptr \in [Caller -> Buffer \cup {Nil}]

Newest(b) == IF queue[b] = <<>> THEN seen[b].result ELSE Last(queue[b]).result

\* Listener k with buffer b is still to hear of the latest write.
Pending(k, b) ==
  \/ kpc \in {"replyWrite", "affected"} /\ Concerned(serving.path, k)
  \/ <<k, b>> \in todo
  \/ kpc \in {"insert", "drop"} /\ blocked = <<k, b>>

\* No lost update: a listener that empties its buffer ends with what its path
\* reads now, unless the path reads as nothing or the control goroutine is on
\* its way to notify it (Control, affectedReadReturn, applyFor).
DrainedIsCurrent ==
  \A k \in Key :
    registry[k] # Nil /\ Read(value, k[2]) # Nil /\ ~Pending(k, registry[k])
      => Newest(registry[k]) = Read(value, k[2])

\* Along a buffer, from the update read last on, time stamps only grow: no
\* update is inserted twice, late or out of turn (affectedReadReturn).
StampsInOrder ==
  \A b \in Buffer :
    LET stamps == <<seen[b].stamp>> \o [i \in DOMAIN queue[b] |-> queue[b][i].stamp]
    IN  /\ \A i, j \in DOMAIN stamps : i < j => stamps[i] < stamps[j]
        /\ \A i \in DOMAIN stamps : stamps[i] <= clock

\* A registered buffer leaves the registry only when the control goroutine has found
\* that very buffer full: no second Store takes its place, nor is it removed for another
\* listener of its visitor (applyFor, Remove; README "全局唯一标识").  A reader may yet lose
\* by it: one that drains the buffer, and waits on it again, before Remove runs is left
\* with a buffer that nobody fills until its own timer fires.
ListenerKept ==
  [][\A k \in Key :
       registry[k] # Nil /\ registry'[k] # registry[k]
         => kpc = "drop" /\ blocked = <<k, registry[k]>>]_vars

\* README 31: when a producer changes anything within a path, the data is pushed
\* to every consumer that listens to it.  So a consumer that waits, while the
\* control goroutine has nothing left to do, has seen what its path reads now.
\* Two goroutines of one visitor on one path break it: applyFor may store two
\* buffers under one key, and the first is never filled again.
WaiterIsCurrent ==
  kpc = "select" =>
    \A c \in Caller :
      pc[c] = "readOne" /\ queue[ptr[c]] = <<>> /\ Read(value, req[c].path) # Nil
        => seen[ptr[c]].result = Read(value, req[c].path)

\* WriteQuickly and ReadQuickly act on the document as DataBus says: in order,
\* at one moment of the call, a write at most once.
BusStatus(c) ==
  CASE pc[c] \in {"sendWrite", "sendRead"} -> "called"
    [] pc[c] \in {"awaitWrite", "awaitRead"} ->
         IF kpc \in {"replyWrite", "replyRead"} /\ Awaits(c, pc[c], serving)
         THEN "done" ELSE "called"
    [] OTHER -> "idle"

BusAnswer(c) ==
  IF answer[c].op = "Write" THEN <<"write", answer[c].outcome>>
  ELSE IF answer[c].outcome \in {"read", "snapshot"} THEN <<"read", answer[c].update.result>>
  ELSE <<"none", Nil>>

BusOp(r) == [kind |-> IF r.op = "Write" THEN "write" ELSE "read", path |-> r.path, data |-> r.data]

Bus == INSTANCE DataBus WITH
  Path   <- PathOf,
  status <- [c \in Caller |-> BusStatus(c)],
  op     <- [c \in Caller |-> IF BusStatus(c) = "idle" THEN [kind |-> "none", path |-> <<>>,
                                                            data |-> Nil]
                              ELSE BusOp(req[c])],
  result <- [c \in Caller |-> IF BusStatus(c) = "done" THEN reply ELSE Nil],
  answer <- [c \in Caller |-> BusAnswer(c)],
  late   <- IF kpc = "writing" /\ \A c \in Caller : ~Awaits(c, "awaitWrite", serving)
            THEN {BusOp(serving)} ELSE {}

BusImplemented == Bus!Spec

\* The control goroutine always comes back for the next request: no caller that
\* has gone away and no full buffer holds it up (the time.After of its sends).
KernelReturns == []<>(kpc = "select" \/ ~alive)

\* Every call returns, whatever the control goroutine and the other callers do.
CallsReturn == \A c \in Caller : pc[c] # "idle" ~> (pc[c] = "idle" \/ ~alive)
=============================================================================
