------------------------------ MODULE CallProofs ------------------------------
(***************************************************************************)
(* Requests and their callers in the control unit: which request the       *)
(* control goroutine holds, whose it is and whether its caller still waits *)
(* for it.  From this follow that a listener stays registered until its    *)
(* buffer is full when no two goroutines share a visitor name, and that    *)
(* VisitorsControl implements DataBus.                                     *)
(***************************************************************************)
EXTENDS VisitorsControlProofs

Reads == {"Read", "ReadBuffer", "ReadWithTime"}
Awaiting == {"awaitWrite", "awaitRead", "awaitRegister"}

\* A call of method op can be at this label of its caller.
FitsCaller(op, label) ==
  /\ label = "idle" <=> op = "none"
  /\ label \in {"sendWrite", "awaitWrite"} <=> op = "Write"
  /\ label \in {"sendRead", "awaitRead"} => op \in Reads
  /\ label \in {"sendRegister", "awaitRegister"} <=> op = "Register"
  /\ label \in {"find", "load", "store", "get", "readOne"} => op \in {"ReadBuffer", "ReadWithTime"}

\* The control goroutine can serve a request for method op at this label of its own.
FitsKernel(op, label) ==
  /\ label \in {"writing", "replyWrite", "affected", "notify", "insert", "drop"} <=> op = "Write"
  /\ label = "replyRead" => op \in Reads
  /\ label \in {"lookup", "load", "store", "get", "replyRegister"} <=> op = "Register"

\* A request as its caller makes it.
Proper(q) ==
  /\ q \in Request
  /\ q.caller \in Caller /\ q.op \in Operation[q.caller] /\ q.visitor \in NameOf[q.caller]
  /\ q.path \in PathOf
  /\ IF q.op = "Write" THEN q.data \in Data ELSE q.data = Nil

\* A request that has been handed over: a call that its caller has left behind,
\* or the very call for whose answer it waits.
Handed(q, at, of, n) ==
  /\ Proper(q)
  /\ q.call <= n[q.caller]
  /\ at[q.caller] # "idle" /\ q.call = n[q.caller]
       => q = of[q.caller] /\ at[q.caller] \in Awaiting

CallsSound ==
  /\ \A c \in Caller :
       /\ FitsCaller(req[c].op, pc[c])
       /\ pc[c] # "idle" => Proper(req[c]) /\ req[c].caller = c /\ req[c].call = calls[c]
  /\ FitsKernel(serving.op, kpc)
  /\ kpc # "select" => Handed(serving, pc, req, calls)
  /\ \A i \in 1 .. Len(readChan) : readChan[i].op \in Reads /\ Handed(readChan[i], pc, req, calls)
  /\ \A c \in Caller : pc[c] = "awaitWrite" => kpc \in {"writing", "replyWrite"} /\ serving = req[c]
  /\ kpc = "replyRegister" => reply \in {"ok", "noBuffer", "noResource"}

LEMMA CallsInit == Init => CallsSound
PROOF
  <1> SUFFICES ASSUME Init PROVE CallsSound
    OBVIOUS
  <1>1. Len(readChan) = 0
    BY EmptySeq DEF Init
  <1>2. \A c \in Caller : pc[c] = "idle" /\ req[c].op = "none"
    BY DEF Init, NoRequest
  <1>3. kpc = "select" /\ serving.op = "none"
    BY DEF Init, NoRequest
  <1>4. FitsCaller("none", "idle") /\ FitsKernel("none", "select")
    BY DEF FitsCaller, FitsKernel
  <1>5. \A c \in Caller : pc[c] # "awaitWrite"
    BY <1>2
  <1>6. 1 .. Len(readChan) = {}
    BY <1>1
  <1> QED
    BY <1>2, <1>3, <1>4, <1>5, <1>6 DEF CallsSound

-----------------------------------------------------------------------------
(***************************************************************************)
(* What a step does to the call of a caller d.                             *)
(***************************************************************************)
Stays(d) == pc'[d] = pc[d] /\ req'[d] = req[d] /\ calls'[d] = calls[d]

Leaves(d) == pc'[d] = "idle" /\ req'[d] = NoRequest /\ calls'[d] = calls[d]

Starts(d) ==
  /\ pc[d] = "idle" /\ pc'[d] \notin Awaiting \cup {"idle"}
  /\ calls'[d] = calls[d] + 1
  /\ Proper(req'[d]) /\ req'[d].caller = d /\ req'[d].call = calls'[d]
  /\ FitsCaller(req'[d].op, pc'[d])

Advances(d) ==
  /\ pc[d] \notin Awaiting \cup {"idle"} /\ pc'[d] # "idle"
  /\ req'[d] = req[d] /\ calls'[d] = calls[d]
  /\ FitsCaller(req[d].op, pc'[d])

Moves(d) == Stays(d) \/ Leaves(d) \/ Starts(d) \/ Advances(d)

LEMMA CallersSound ==
  ASSUME CallsSound, \A d \in Caller : Moves(d)
  PROVE  \A c \in Caller :
           /\ FitsCaller(req'[c].op, pc'[c])
           /\ pc'[c] # "idle" => Proper(req'[c]) /\ req'[c].caller = c /\ req'[c].call = calls'[c]
PROOF
  <1> SUFFICES ASSUME NEW c \in Caller
               PROVE  /\ FitsCaller(req'[c].op, pc'[c])
                      /\ pc'[c] # "idle" => Proper(req'[c]) /\ req'[c].caller = c
                                            /\ req'[c].call = calls'[c]
    OBVIOUS
  <1>1. /\ FitsCaller(req[c].op, pc[c])
        /\ pc[c] # "idle" => Proper(req[c]) /\ req[c].caller = c /\ req[c].call = calls[c]
    BY DEF CallsSound
  <1>2. CASE Stays(c)
    BY <1>1, <1>2 DEF Stays
  <1>3. CASE Leaves(c)
    BY <1>3 DEF Leaves, NoRequest, FitsCaller
  <1>4. CASE Starts(c)
    BY <1>4 DEF Starts
  <1>5. CASE Advances(c)
    BY <1>1, <1>5 DEF Advances
  <1> QED
    BY <1>2, <1>3, <1>4, <1>5 DEF Moves

LEMMA HandedKept ==
  ASSUME Typed, \A d \in Caller : Moves(d), NEW q, Handed(q, pc, req, calls)
  PROVE  Handed(q, pc', req', calls')
PROOF
  <1> DEFINE d == q.caller
  <1>1. d \in Caller /\ q.call \in Nat /\ calls[d] \in Nat /\ q.call <= calls[d] /\ Proper(q)
    BY DEF Handed, Proper, Request, Typed, TypeOK
  <1>2. pc[d] # "idle" /\ q.call = calls[d] => q = req[d] /\ pc[d] \in Awaiting
    BY DEF Handed
  <1>3. CASE Stays(d) \/ Advances(d)
    BY <1>1, <1>2, <1>3 DEF Stays, Advances, Handed
  <1>4. CASE Leaves(d)
    BY <1>1, <1>4 DEF Leaves, Handed
  <1>5. CASE Starts(d)
    BY <1>1, <1>5 DEF Starts, Handed
  <1> QED
    BY <1>1, <1>3, <1>4, <1>5 DEF Moves

LEMMA ReturnMoves ==
  ASSUME Typed, NEW c \in Caller, NEW outcome, NEW update, Return(c, outcome, update)
  PROVE  (\A d \in Caller : Moves(d)) /\ pc'[c] = "idle" /\ \A d \in Caller \ {c} : Stays(d)
PROOF
  BY DEF Return, Moves, Leaves, Stays, Typed, TypeOK

LEMMA FinishMoves ==
  ASSUME Typed, NEW c \in Caller, NEW result, FinishRead(c, result)
  PROVE  (\A d \in Caller : Moves(d)) /\ pc'[c] = "idle" /\ \A d \in Caller \ {c} : Stays(d)
PROOF
  BY ReturnMoves DEF FinishRead

LEMMA GotoMoves ==
  ASSUME Typed, NEW c \in Caller, NEW label, Goto(c, label),
         pc[c] \notin Awaiting \cup {"idle"}, label # "idle", FitsCaller(req[c].op, label)
  PROVE  /\ \A d \in Caller : Moves(d)
         /\ pc'[c] = label /\ req'[c] = req[c] /\ calls'[c] = calls[c]
         /\ \A d \in Caller \ {c} : Stays(d)
PROOF
  BY DEF Goto, Moves, Advances, Stays, Typed, TypeOK

LEMMA StartMoves ==
  ASSUME Typed, CallsSound, NEW c \in Caller, NEW op, NEW first, NEW road \in Road, NEW data,
         NEW timeout \in Int, Start(c, op, first, road, data, timeout),
         FitsCaller(op, first), first \notin Awaiting \cup {"idle"}, op \in Method,
         IF op = "Write" THEN data \in Data ELSE data = Nil
  PROVE  (\A d \in Caller : Moves(d)) /\ first = pc'[c] /\ \A d \in Caller \ {c} : Stays(d)
PROOF
  <1>1. PICK name \in NameOf[c] :
          Begin(c, calls[c] + 1, op, first, name, InputFromString(road), data, timeout)
    BY DEF Start
  <1> DEFINE q == [caller |-> c, call |-> calls[c] + 1, op |-> op, visitor |-> name,
                   path |-> InputFromString(road), data |-> data, timeout |-> timeout]
  <1>2. /\ pc[c] = "idle" /\ req' = [req EXCEPT ![c] = q]
        /\ calls' = [calls EXCEPT ![c] = calls[c] + 1] /\ pc' = [pc EXCEPT ![c] = first]
    BY <1>1 DEF Begin
  <1>3. op \in Operation[c] /\ name \in Visitor /\ calls[c] + 1 \in Nat
    <2>1. op \in Operation[c] /\ calls[c] \in Nat
      BY DEF Start, Typed, TypeOK
    <2>2. name \in Visitor
      BY ControlAssumption
    <2> QED
      BY <2>1, <2>2
  <1>4. Proper(q) /\ q.caller = c /\ q.call = calls[c] + 1 /\ q.op = op
    BY <1>3 DEF Proper, Request, PathOf
  <1> HIDE DEF q
  <1> QED
    BY <1>2, <1>4 DEF Moves, Starts, Stays, Typed, TypeOK

LEMMA CallMoves ==
  ASSUME Typed, CallsSound, NEW c \in Caller, Call(c)
  PROVE  (\A d \in Caller : Moves(d)) /\ pc'[c] \notin Awaiting
         /\ \A d \in Caller \ {c} : Stays(d)
PROOF
  <1>1. \A timeout \in Timeout : timeout \in Int
    BY ControlAssumption
  <1>2. CASE WriteQuickly(c)
    <2>1. PICK road \in Road, data \in Data : Start(c, "Write", "sendWrite", road, data, 0)
      BY <1>2 DEF WriteQuickly
    <2>2. FitsCaller("Write", "sendWrite") /\ "sendWrite" \notin Awaiting \cup {"idle"} /\ "Write" \in Method
      BY DEF FitsCaller, Awaiting, Reads, Method
    <2> QED
      BY <2>1, <2>2, StartMoves DEF Awaiting
  <1>3. CASE ReadQuickly(c)
    <2>1. PICK road \in Road : Start(c, "Read", "sendRead", road, Nil, -1)
      BY <1>3 DEF ReadQuickly
    <2>2. FitsCaller("Read", "sendRead") /\ "sendRead" \notin Awaiting \cup {"idle"} /\ "Read" \in Method
      BY DEF FitsCaller, Awaiting, Reads, Method
    <2> QED
      BY <2>1, <2>2, StartMoves DEF Awaiting
  <1>4. CASE RegisterNotify(c)
    <2>1. PICK road \in Road : Start(c, "Register", "sendRegister", road, Nil, 1)
      BY <1>4 DEF RegisterNotify
    <2>2. FitsCaller("Register", "sendRegister") /\ "sendRegister" \notin Awaiting \cup {"idle"} /\ "Register" \in Method
      BY DEF FitsCaller, Awaiting, Reads, Method
    <2> QED
      BY <2>1, <2>2, StartMoves DEF Awaiting
  <1>5. CASE ReadBuffer(c)
    <2>1. PICK road \in Road, timeout \in Timeout : Start(c, "ReadBuffer", "load", road, Nil, timeout)
      BY <1>5 DEF ReadBuffer
    <2>2. FitsCaller("ReadBuffer", "load") /\ "load" \notin Awaiting \cup {"idle"} /\ "ReadBuffer" \in Method
      BY DEF FitsCaller, Awaiting, Reads, Method
    <2> QED
      BY <1>1, <2>1, <2>2, StartMoves DEF Awaiting
  <1>6. CASE ReadWithTime(c)
    <2>1. PICK road \in Road, timeout \in Timeout : Start(c, "ReadWithTime", "find", road, Nil, timeout)
      BY <1>6 DEF ReadWithTime
    <2>2. FitsCaller("ReadWithTime", "find") /\ "find" \notin Awaiting \cup {"idle"} /\ "ReadWithTime" \in Method
      BY DEF FitsCaller, Awaiting, Reads, Method
    <2> QED
      BY <1>1, <2>1, <2>2, StartMoves DEF Awaiting
  <1> QED
    BY <1>2, <1>3, <1>4, <1>5, <1>6 DEF Call

LEMMA CallerOnlyMoves ==
  ASSUME Typed, CallsSound, NEW c \in Caller, CallerOnly(c) \/ TakeOne(c)
  PROVE  (\A d \in Caller : Moves(d)) /\ (pc'[c] \in Awaiting => RaceFatal(c))
         /\ \A d \in Caller \ {c} : Stays(d)
PROOF
  <1>1. FitsCaller(req[c].op, pc[c])
    BY DEF CallsSound
  <1>2. CASE Load(c) \/ ReadOneTimeout(c) \/ FindSome(c)
    <2> DEFINE label == IF Load(c) THEN IF registry[KeyOf(req[c])] = Nil THEN "store" ELSE "get"
                        ELSE IF ReadOneTimeout(c) THEN "sendRead" ELSE "load"
    <2>1. Goto(c, label) /\ pc[c] \in {"load", "readOne", "find"}
      BY <1>2 DEF Load, ReadOneTimeout, FindSome
    <2>2. label \in {"store", "get", "sendRead", "load"}
      OBVIOUS
    <2> HIDE DEF label
    <2>3. FitsCaller(req[c].op, label) /\ label \notin Awaiting \cup {"idle"}
      BY <1>1, <2>1, <2>2 DEF FitsCaller, Awaiting, Reads
    <2>4. pc[c] \notin Awaiting \cup {"idle"}
      BY <2>1 DEF Awaiting
    <2> QED
      BY <2>1, <2>3, <2>4, GotoMoves
  <1>3. CASE Get(c)
    <2>1. /\ pc[c] = "get" /\ pc' = [pc EXCEPT ![c] = "readOne"] /\ UNCHANGED <<req, calls>>
      BY <1>3 DEF Get
    <2> QED
      BY <1>1, <2>1 DEF Moves, Advances, Stays, Typed, TypeOK, FitsCaller, Awaiting
  <1>4. CASE \/ WriteNotSent(c) \/ WriteUnanswered(c) \/ RegisterNotSent(c)
             \/ RegisterUnanswered(c) \/ GetNothing(c) \/ FindNothing(c) \/ TakeOne(c)
    <2>1. \E outcome, update : Return(c, outcome, update)
      BY <1>4 DEF WriteNotSent, WriteUnanswered, RegisterNotSent, RegisterUnanswered,
                  GetNothing, FindNothing, TakeOne
    <2> QED
      BY <2>1, ReturnMoves DEF Awaiting
  <1>5. CASE ReadNotSent(c) \/ ReadUnanswered(c)
    <2>1. FinishRead(c, Nil)
      BY <1>5 DEF ReadNotSent, ReadUnanswered
    <2> QED
      BY <2>1, FinishMoves DEF Awaiting
  <1>6. CASE RaceFatal(c)
    BY <1>6 DEF RaceFatal, callerVars, Moves, Stays
  <1> QED
    BY <1>2, <1>3, <1>4, <1>5, <1>6 DEF CallerOnly

-----------------------------------------------------------------------------
(***************************************************************************)
(* CallsSound is inductive.                                                *)
(***************************************************************************)
\* The control goroutine keeps its request or lets it go.
LEMMA CallsFrame ==
  ASSUME Typed, CallsSound, \A d \in Caller : Moves(d), readChan' = readChan,
         FitsKernel(serving'.op, kpc'),
         kpc' = "select" \/ (kpc # "select" /\ serving' = serving),
         \A d \in Caller : pc'[d] = "awaitWrite" =>
           /\ pc[d] = "awaitWrite" /\ Stays(d)
           /\ kpc' \in {"writing", "replyWrite"} /\ serving' = serving,
         kpc' = "replyRegister" => reply' \in {"ok", "noBuffer", "noResource"}
  PROVE  CallsSound'
PROOF
  <1>1. \A c \in Caller :
           /\ FitsCaller(req'[c].op, pc'[c])
           /\ pc'[c] # "idle" => Proper(req'[c]) /\ req'[c].caller = c /\ req'[c].call = calls'[c]
    BY CallersSound
  <1>2. kpc' # "select" => Handed(serving', pc', req', calls')
    BY HandedKept DEF CallsSound
  <1>3. \A i \in 1 .. Len(readChan') :
          readChan'[i].op \in Reads /\ Handed(readChan'[i], pc', req', calls')
    BY HandedKept DEF CallsSound
  <1>4. \A c \in Caller : pc'[c] = "awaitWrite" => kpc' \in {"writing", "replyWrite"} /\ serving' = req'[c]
    BY DEF CallsSound, Stays
  <1> QED
    BY <1>1, <1>2, <1>3, <1>4 DEF CallsSound

LEMMA CallsCaller ==
  ASSUME Typed, CallsSound, NEW c \in Caller, Call(c) \/ CallerOnly(c) \/ TakeOne(c)
  PROVE  CallsSound'
PROOF
  <1>1. /\ \A d \in Caller : Moves(d)
        /\ pc'[c] \in Awaiting => RaceFatal(c)
        /\ \A d \in Caller \ {c} : Stays(d)
    BY CallMoves, CallerOnlyMoves
  <1>2. UNCHANGED <<kernelVars, readChan>>
    <2>1. TakeOne(c) => UNCHANGED <<kernelVars, readChan>>
      BY DEF TakeOne
    <2> QED
      BY <2>1, CallTyped, CallerTyped
  <1>3. RaceFatal(c) => Stays(c)
    BY DEF RaceFatal, callerVars, Stays
  <1>4. ASSUME NEW d \in Caller, pc'[d] = "awaitWrite" PROVE pc[d] = "awaitWrite" /\ Stays(d)
    <2>1. Stays(d)
      BY <1>1, <1>3, <1>4 DEF Awaiting
    <2> QED
      BY <1>4, <2>1 DEF Stays
  <1>5. /\ FitsKernel(serving'.op, kpc')
        /\ kpc' = "replyRegister" => reply' \in {"ok", "noBuffer", "noResource"}
        /\ \A d \in Caller : pc[d] = "awaitWrite" => kpc \in {"writing", "replyWrite"}
        /\ kpc' = kpc /\ serving' = serving /\ readChan' = readChan
    BY <1>2 DEF CallsSound, kernelVars
  <1> QED
    BY <1>1, <1>4, <1>5, CallsFrame

LEMMA CallersStay == UNCHANGED callerVars => \A d \in Caller : Moves(d) /\ Stays(d)
PROOF
  BY DEF callerVars, Moves, Stays

\* The control goroutine goes on alone, with the request it has.
LEMMA CallsKernel ==
  ASSUME Typed, CallsSound,
         ExecuteWrite \/ Notifying \/ Insert \/ InsertLate \/ Storing
         \/ Lookup \/ KernelLoad \/ KernelGet
         \/ WriteAnswerDropped \/ ReadAnswerDropped \/ RegisterAnswerDropped
  PROVE  CallsSound'
PROOF
  <1>1. CASE \E c \in Caller : Store(c)
    <2>1. PICK c \in Caller : Store(c)
      BY <1>1
    <2>2. Goto(c, "get") /\ pc[c] = "store" /\ UNCHANGED <<kernelVars, readChan>>
      BY <2>1 DEF Store
    <2>3. FitsCaller(req[c].op, "get") /\ "get" # "idle" /\ pc[c] \notin Awaiting \cup {"idle"}
      BY <2>2 DEF CallsSound, FitsCaller, Awaiting
    <2>4. (\A d \in Caller : Moves(d)) /\ pc'[c] = "get" /\ \A d \in Caller \ {c} : Stays(d)
      BY <2>2, <2>3, GotoMoves
    <2>5. ASSUME NEW d \in Caller, pc'[d] = "awaitWrite" PROVE pc[d] = "awaitWrite" /\ Stays(d)
      BY <2>4, <2>5 DEF Stays
    <2>6. /\ FitsKernel(serving'.op, kpc')
          /\ kpc' = "replyRegister" => reply' \in {"ok", "noBuffer", "noResource"}
          /\ \A d \in Caller : pc[d] = "awaitWrite" => kpc \in {"writing", "replyWrite"}
          /\ kpc' = kpc /\ serving' = serving /\ readChan' = readChan
      BY <2>2 DEF CallsSound, kernelVars
    <2> QED
      BY <2>4, <2>5, <2>6, CallsFrame
  <1>2. CASE ~\E c \in Caller : Store(c)
    <2>1. UNCHANGED <<callerVars, readChan>>
      BY <1>2 DEF ExecuteWrite, Notifying, Affect, SkipNil, InsertBlocks, GiveUp, DropListener,
           NotifyDone, Insert, InsertLate, Storing, KernelStore, Lookup, KernelLoad, KernelGet,
           WriteAnswerDropped, ReadAnswerDropped, RegisterAnswerDropped, NotifyUnchanged,
           KernelUnchanged
    <2>2. \A d \in Caller : Moves(d) /\ Stays(d)
      BY <2>1, CallersStay
    <2>3. kpc' = "select" \/ (kpc # "select" /\ serving' = serving)
      BY <1>2 DEF ExecuteWrite, Notifying, Affect, SkipNil, InsertBlocks, GiveUp, DropListener,
           NotifyDone, Insert, InsertLate, Storing, KernelStore, Lookup, KernelLoad, KernelGet,
           WriteAnswerDropped, ReadAnswerDropped, RegisterAnswerDropped, EndRequest
    <2>4. FitsKernel(serving'.op, kpc')
      <3>1. FitsKernel(serving.op, kpc)
        BY DEF CallsSound
      <3>2. \/ kpc' = "select" /\ serving' = NoRequest
            \/ /\ serving' = serving
               /\ \/ {kpc, kpc'} \subseteq
                       {"writing", "replyWrite", "affected", "notify", "insert", "drop"}
                  \/ {kpc, kpc'} \subseteq {"lookup", "load", "store", "get", "replyRegister"}
        BY <1>2 DEF ExecuteWrite, Notifying, Affect, SkipNil, InsertBlocks, GiveUp, DropListener,
             NotifyDone, Insert, InsertLate, Storing, KernelStore, Lookup, KernelLoad, KernelGet,
             WriteAnswerDropped, ReadAnswerDropped, RegisterAnswerDropped, EndRequest
      <3> QED
        BY <3>1, <3>2 DEF FitsKernel, NoRequest
    <2>5. ASSUME NEW d \in Caller, pc'[d] = "awaitWrite"
          PROVE  /\ pc[d] = "awaitWrite" /\ Stays(d)
                 /\ kpc' \in {"writing", "replyWrite"} /\ serving' = serving
      <3>1. pc[d] = "awaitWrite" /\ kpc \in {"writing", "replyWrite"} /\ serving = req[d]
        BY <2>2, <2>5 DEF Stays, CallsSound
      <3>2. Awaits(d, "awaitWrite", serving)
        BY <3>1 DEF Awaits, CallsSound
      <3>3. kpc' = "replyWrite" /\ serving' = serving
        BY <1>2, <3>1, <3>2
           DEF ExecuteWrite, Notifying, Affect, SkipNil, InsertBlocks, GiveUp, DropListener,
               NotifyDone, Insert, InsertLate, Storing, KernelStore, Lookup, KernelLoad, KernelGet,
               WriteAnswerDropped, ReadAnswerDropped, RegisterAnswerDropped
      <3> QED
        BY <2>2, <3>1, <3>3
    <2>6. kpc' = "replyRegister" => reply' \in {"ok", "noBuffer", "noResource"}
      BY <1>2 DEF ExecuteWrite, Notifying, Affect, SkipNil, InsertBlocks, GiveUp, DropListener,
           NotifyDone, Insert, InsertLate, Storing, KernelStore, Lookup, KernelLoad, KernelGet,
           WriteAnswerDropped, ReadAnswerDropped, RegisterAnswerDropped, EndRequest
    <2> QED
      BY <2>1, <2>2, <2>3, <2>4, <2>5, <2>6, CallsFrame
  <1> QED
    BY <1>1, <1>2

\* The request of a caller that goes on to wait for the answer is handed over.
LEMMA HandOver ==
  ASSUME Typed, CallsSound, NEW c \in Caller, pc[c] # "idle", pc[c] \notin Awaiting,
         NEW label \in Awaiting, FitsCaller(req[c].op, label), Goto(c, label)
  PROVE  /\ \A d \in Caller : Moves(d)
         /\ pc'[c] = label /\ req'[c] = req[c]
         /\ \A d \in Caller \ {c} : Stays(d)
         /\ Handed(req[c], pc', req', calls')
PROOF
  <1>1. label # "idle" /\ pc[c] \notin Awaiting \cup {"idle"}
    BY DEF Awaiting
  <1>2. /\ \A d \in Caller : Moves(d)
        /\ pc'[c] = label /\ req'[c] = req[c] /\ calls'[c] = calls[c]
        /\ \A d \in Caller \ {c} : Stays(d)
    BY <1>1, GotoMoves
  <1>3. Proper(req[c]) /\ req[c].caller = c /\ req[c].call = calls[c] /\ calls[c] \in Nat
    BY DEF CallsSound, Typed, TypeOK
  <1> QED
    BY <1>2, <1>3 DEF Handed

\* The requests in the channel read stay handed over.
LEMMA ChannelKept ==
  ASSUME Typed, CallsSound, \A d \in Caller : Moves(d)
  PROVE  \A i \in 1 .. Len(readChan) :
           readChan[i].op \in Reads /\ Handed(readChan[i], pc', req', calls')
PROOF
  BY HandedKept DEF CallsSound

LEMMA CallsAccept ==
  ASSUME Typed, CallsSound, NEW c \in Caller, AcceptWrite(c) \/ AcceptRegister(c)
  PROVE  CallsSound'
PROOF
  <1> DEFINE label == IF AcceptWrite(c) THEN "awaitWrite" ELSE "awaitRegister"
  <1>1. /\ kpc = "select" /\ pc[c] \in {"sendWrite", "sendRegister"}
        /\ pc[c] = "sendWrite" => label = "awaitWrite" /\ kpc' = "writing"
        /\ pc[c] = "sendRegister" => label = "awaitRegister" /\ kpc' = "lookup"
        /\ serving' = req[c] /\ Goto(c, label) /\ readChan' = readChan
    BY DEF AcceptWrite, AcceptRegister
  <1>2. label \in Awaiting
    BY DEF Awaiting
  <1> HIDE DEF label
  <1>3. FitsCaller(req[c].op, pc[c])
    BY DEF CallsSound
  <1>4. FitsCaller(req[c].op, label) /\ FitsKernel(req[c].op, kpc')
    BY <1>1, <1>3 DEF FitsCaller, FitsKernel
  <1>5. pc[c] # "idle" /\ pc[c] \notin Awaiting
    BY <1>1 DEF Awaiting
  <1>6. /\ \A d \in Caller : Moves(d)
        /\ pc'[c] = label /\ req'[c] = req[c]
        /\ \A d \in Caller \ {c} : Stays(d)
        /\ Handed(req[c], pc', req', calls')
    BY <1>1, <1>2, <1>4, <1>5, HandOver
  <1>7. \A d \in Caller :
          /\ FitsCaller(req'[d].op, pc'[d])
          /\ pc'[d] # "idle" => Proper(req'[d]) /\ req'[d].caller = d /\ req'[d].call = calls'[d]
    BY <1>6, CallersSound
  <1>8. \A d \in Caller : pc[d] # "awaitWrite"
    BY <1>1 DEF CallsSound
  <1>9. ASSUME NEW d \in Caller, pc'[d] = "awaitWrite"
        PROVE  kpc' \in {"writing", "replyWrite"} /\ serving' = req'[d]
    <2>1. d = c
      BY <1>6, <1>8, <1>9 DEF Stays
    <2> QED
      BY <1>1, <1>6, <1>9, <2>1
  <1>10. \A i \in 1 .. Len(readChan') :
           readChan'[i].op \in Reads /\ Handed(readChan'[i], pc', req', calls')
    BY <1>1, <1>6, ChannelKept
  <1>11. kpc' # "replyRegister"
    BY <1>1
  <1> QED
    BY <1>1, <1>4, <1>6, <1>7, <1>9, <1>10, <1>11 DEF CallsSound

LEMMA CallsSend ==
  ASSUME Typed, CallsSound, NEW c \in Caller, SendRead(c)
  PROVE  CallsSound'
PROOF
  <1>1. /\ pc[c] = "sendRead" /\ readChan' = Append(readChan, req[c]) /\ Goto(c, "awaitRead")
        /\ UNCHANGED kernelVars
    BY DEF SendRead
  <1>2. FitsCaller(req[c].op, pc[c])
    BY DEF CallsSound
  <1>3. FitsCaller(req[c].op, "awaitRead") /\ req[c].op \in Reads
    BY <1>1, <1>2 DEF FitsCaller
  <1>4. pc[c] # "idle" /\ pc[c] \notin Awaiting /\ "awaitRead" \in Awaiting
    BY <1>1 DEF Awaiting
  <1>5. /\ \A d \in Caller : Moves(d)
        /\ pc'[c] = "awaitRead" /\ req'[c] = req[c]
        /\ \A d \in Caller \ {c} : Stays(d)
        /\ Handed(req[c], pc', req', calls')
    BY <1>1, <1>3, <1>4, HandOver
  <1>6. \A d \in Caller :
          /\ FitsCaller(req'[d].op, pc'[d])
          /\ pc'[d] # "idle" => Proper(req'[d]) /\ req'[d].caller = d /\ req'[d].call = calls'[d]
    BY <1>5, CallersSound
  <1>7. kpc' # "select" => Handed(serving', pc', req', calls')
    BY <1>1, <1>5, HandedKept DEF CallsSound, kernelVars
  <1>8. \A i \in 1 .. Len(readChan') :
          readChan'[i].op \in Reads /\ Handed(readChan'[i], pc', req', calls')
    <2>1. req[c] \in Request /\ readChan \in Seq(Request)
      BY DEF Typed, TypeOK
    <2>2. /\ Len(readChan) \in Nat /\ Len(readChan') = Len(readChan) + 1
          /\ \A i \in 1 .. Len(readChan) : readChan'[i] = readChan[i]
          /\ readChan'[Len(readChan) + 1] = req[c]
      BY <1>1, <2>1, AppendProperties, LenProperties
    <2>3. \A i \in 1 .. Len(readChan) :
            readChan[i].op \in Reads /\ Handed(readChan[i], pc', req', calls')
      BY <1>5, ChannelKept
    <2>4. ASSUME NEW i \in 1 .. Len(readChan') PROVE i \in 1 .. Len(readChan) \/ i = Len(readChan) + 1
      BY <2>2
    <2> QED
      BY <1>3, <1>5, <2>2, <2>3, <2>4
  <1>9. ASSUME NEW d \in Caller, pc'[d] = "awaitWrite"
        PROVE  kpc' \in {"writing", "replyWrite"} /\ serving' = req'[d]
    BY <1>1, <1>5, <1>9 DEF Stays, CallsSound, kernelVars
  <1>10. FitsKernel(serving'.op, kpc') /\ (kpc' = "replyRegister" => reply' \in {"ok", "noBuffer", "noResource"})
    BY <1>1 DEF CallsSound, kernelVars
  <1> QED
    BY <1>6, <1>7, <1>8, <1>9, <1>10 DEF CallsSound

LEMMA CallsReceive ==
  ASSUME Typed, CallsSound, AcceptRead
  PROVE  CallsSound'
PROOF
  <1>1. /\ kpc = "select" /\ kpc' = "replyRead" /\ readChan # <<>>
        /\ serving' = Head(readChan) /\ readChan' = Tail(readChan) /\ UNCHANGED callerVars
    BY DEF AcceptRead
  <1>2. \A d \in Caller : Moves(d) /\ Stays(d)
    BY <1>1, CallersStay
  <1>3. \A d \in Caller :
          /\ FitsCaller(req'[d].op, pc'[d])
          /\ pc'[d] # "idle" => Proper(req'[d]) /\ req'[d].caller = d /\ req'[d].call = calls'[d]
    BY <1>2, CallersSound
  <1>4. \A i \in 1 .. Len(readChan) :
          readChan[i].op \in Reads /\ Handed(readChan[i], pc', req', calls')
    BY <1>2, ChannelKept
  <1>5. /\ Len(readChan) \in Nat \ {0} /\ Len(readChan') = Len(readChan) - 1
        /\ \A i \in 1 .. Len(readChan) - 1 : readChan'[i] = readChan[i + 1]
        /\ serving' = readChan[1]
    <2>1. readChan \in Seq(Request) /\ readChan # <<>>
      BY <1>1 DEF Typed, TypeOK
    <2>2. Len(readChan) \in Nat \ {0}
      BY <2>1, EmptySeq, LenProperties
    <2> QED
      BY <1>1, <2>1, <2>2, HeadTailProperties
  <1>6. \A i \in 1 .. Len(readChan') :
          readChan'[i].op \in Reads /\ Handed(readChan'[i], pc', req', calls')
    <2> SUFFICES ASSUME NEW i \in 1 .. Len(readChan')
                 PROVE  readChan'[i].op \in Reads /\ Handed(readChan'[i], pc', req', calls')
      OBVIOUS
    <2>1. i \in 1 .. Len(readChan) - 1 /\ i + 1 \in 1 .. Len(readChan)
      BY <1>5
    <2> QED
      BY <1>4, <1>5, <2>1
  <1>7. serving'.op \in Reads /\ Handed(serving', pc', req', calls')
    <2>1. 1 \in 1 .. Len(readChan)
      BY <1>5
    <2> QED
      BY <1>4, <1>5, <2>1
  <1>8. FitsKernel(serving'.op, kpc')
    BY <1>1, <1>7 DEF FitsKernel, Reads
  <1>9. \A d \in Caller : pc'[d] # "awaitWrite"
    BY <1>1, <1>2 DEF CallsSound, Stays
  <1> QED
    BY <1>1, <1>3, <1>6, <1>7, <1>8, <1>9 DEF CallsSound

LEMMA CallsAnswer ==
  ASSUME Typed, CallsSound, NEW c \in Caller,
         AnswerWrite(c) \/ AnswerRead(c) \/ AnswerRegister(c)
  PROVE  CallsSound'
PROOF
  <1>1. /\ \A d \in Caller : Moves(d)
        /\ pc'[c] = "idle" /\ \A d \in Caller \ {c} : Stays(d)
    <2>1. CASE AnswerWrite(c) \/ AnswerRegister(c)
      BY <2>1, ReturnMoves DEF AnswerWrite, AnswerRegister
    <2>2. CASE AnswerRead(c)
      BY <2>2, FinishMoves DEF AnswerRead
    <2> QED
      BY <2>1, <2>2
  <1>2. FitsKernel(serving.op, kpc)
    BY DEF CallsSound
  <1>3. \/ kpc = "replyWrite" /\ kpc' = "affected" /\ serving' = serving /\ c = serving.caller
        \/ kpc \in {"replyRead", "replyRegister"} /\ kpc' = "select" /\ serving' = NoRequest
    BY DEF AnswerWrite, AnswerRead, AnswerRegister, EndRequest, Awaits, AwaitsRead
  <1>4. readChan' = readChan
    BY DEF AnswerWrite, AnswerRead, AnswerRegister, KernelUnchanged
  <1>5. FitsKernel(serving'.op, kpc')
    BY <1>2, <1>3 DEF FitsKernel, NoRequest
  <1>6. ASSUME NEW d \in Caller PROVE pc'[d] # "awaitWrite"
    <2> SUFFICES ASSUME pc'[d] = "awaitWrite" PROVE FALSE
      OBVIOUS
    <2>1. d # c /\ pc[d] = "awaitWrite"
      BY <1>1 DEF Stays
    <2>2. serving.caller = d /\ kpc = "replyWrite"
      BY <1>3, <2>1 DEF CallsSound
    <2> QED
      BY <1>3, <2>1, <2>2
  <1> QED
    BY <1>1, <1>3, <1>4, <1>5, <1>6, CallsFrame

LEMMA CallsStep ==
  ASSUME Typed, CallsSound, [Next]_vars
  PROVE  CallsSound'
PROOF
  <1>1. ASSUME NEW c \in Caller, Call(c) \/ CallerOnly(c) \/ TakeOne(c) PROVE CallsSound'
    BY <1>1, CallsCaller
  <1>2. CASE Serving
    <2>1. ASSUME NEW c \in Caller,
                 \/ AcceptWrite(c) \/ AnswerWrite(c) \/ AnswerRead(c) \/ SendRead(c)
                 \/ AcceptRegister(c) \/ AnswerRegister(c)
          PROVE  CallsSound'
      BY <2>1, CallsAccept, CallsSend, CallsAnswer
    <2> QED
      BY <1>2, <2>1, CallsReceive, CallsKernel DEF Serving
  <1>3. CASE ExecuteWrite \/ Notifying \/ Insert \/ InsertLate \/ Storing
    BY <1>3, CallsKernel
  <1>4. CASE UNCHANGED vars
    <2>1. \A d \in Caller : Moves(d) /\ Stays(d)
      BY <1>4, CallersStay DEF vars
    <2>2. /\ FitsKernel(serving'.op, kpc')
          /\ kpc' = "replyRegister" => reply' \in {"ok", "noBuffer", "noResource"}
          /\ \A d \in Caller : pc[d] = "awaitWrite" => kpc \in {"writing", "replyWrite"}
          /\ kpc' = kpc /\ serving' = serving /\ readChan' = readChan /\ pc' = pc
      BY <1>4 DEF CallsSound, vars, kernelVars, callerVars
    <2> QED
      BY <2>1, <2>2, CallsFrame
  <1> QED
    BY <1>1, <1>2, <1>3, <1>4, NextKinds DEF Work

-----------------------------------------------------------------------------
(***************************************************************************)
(* Listeners of callers that share no name (ListenerKept).                 *)
(***************************************************************************)
\* The methods in which the caller itself runs applyFor; RegisterNotify has the
\* control goroutine run it, and a caller that has given up waiting may overtake it.
Applies(c) == Operation[c] \cap {"ReadBuffer", "ReadWithTime"} # {}

\* No visitor name is used by two callers that run applyFor, nor by one that runs
\* it and one that registers.
Unshared ==
  \A c, d \in Caller :
    Applies(d) /\ (("Register" \in Operation[c]) \/ (c # d /\ Applies(c)))
      => NameOf[c] \cap NameOf[d] = {}

LEMMA UnsharedStoresAlone ==
  ASSUME Unshared, Typed, CallsSound
  PROVE  StoresAlone
PROOF
  <1>1. ASSUME NEW c \in Caller, pc[c] = "store"
        PROVE  /\ Applies(c) /\ req[c].visitor \in NameOf[c]
    <2>1. FitsCaller(req[c].op, pc[c]) /\ Proper(req[c]) /\ req[c].caller = c
      BY <1>1 DEF CallsSound
    <2>2. req[c].op \in {"ReadBuffer", "ReadWithTime"} /\ req[c].op \in Operation[c]
      BY <1>1, <2>1 DEF FitsCaller, Proper
    <2> QED
      BY <2>1, <2>2 DEF Applies, Proper
  <1>2. kpc = "store" => /\ serving.caller \in Caller /\ "Register" \in Operation[serving.caller]
                         /\ serving.visitor \in NameOf[serving.caller]
    BY DEF CallsSound, FitsKernel, Handed, Proper
  <1>3. ASSUME NEW c \in Caller, NEW d \in Caller, pc[c] = "store", pc[d] = "store",
               KeyOf(req[c]) = KeyOf(req[d])
        PROVE  c = d
    <2>1. req[c].visitor = req[d].visitor
      BY <1>3 DEF KeyOf
    <2> QED
      BY <1>1, <1>3, <2>1 DEF Unshared
  <1>4. ASSUME NEW c \in Caller, pc[c] = "store", kpc = "store", KeyOf(req[c]) = KeyOf(serving)
        PROVE  FALSE
    <2>1. req[c].visitor = serving.visitor
      BY <1>4 DEF KeyOf
    <2> QED
      BY <1>1, <1>2, <1>4, <2>1 DEF Unshared
  <1> QED
    BY <1>3, <1>4 DEF StoresAlone

\* If no two goroutines share a visitor name for applyFor, nothing else is needed.
THEOREM KeptWhenUnshared == Unshared => (Spec => ListenerKept)
PROOF
  <1> SUFFICES ASSUME Unshared PROVE Spec => ListenerKept
    OBVIOUS
  <1>1. Typed /\ CallsSound => StoresAlone
    BY UnsharedStoresAlone
  <1>2. Init => Typed /\ CallsSound
    BY TypedInit, CallsInit
  <1>3. Typed /\ CallsSound /\ [Next]_vars => Typed' /\ CallsSound'
    BY TypedStep, CallsStep
  <1>4. Spec => []StoresAlone
    BY <1>1, <1>2, <1>3, PTL DEF Spec
  <1> QED
    BY <1>4, KeptUnlessStoredTwice, PTL

-----------------------------------------------------------------------------
(***************************************************************************)
(* The refinement.  DataBus and the control unit have the same document    *)
(* operations.                                                             *)
(***************************************************************************)
LEMMA SameParts ==
  ASSUME NEW doc, NEW path
  PROVE  /\ Bus!Find(doc, path) = Find(doc, path)
         /\ Bus!Father(path) = Father(path) /\ Bus!LastNode(path) = LastNode(path)
         /\ \A s : Bus!IsNumber(s) = IsNumber(s) /\ Bus!Canonical(s) = Canonical(s)
         /\ \A x, s : Bus!Enters(doc, x, s) = Enters(doc, x, s)
PROOF
  <1>1. Bus!Find(doc, path) = Find(doc, path)
    BY DEF Bus!Find, Find, Bus!Walks, Walks, Bus!Enters, Enters, Bus!IsNumber,
           IsNumber, Bus!Canonical, Canonical, Bus!Place, Place, Bus!Stops, Stops,
           Bus!StopsAtLeaf, StopsAtLeaf, Bus!IsContainer, IsContainer, Bus!ContainerType,
           ContainerType, Bus!NotNull, NotNull
  <1>2. Bus!Father(path) = Father(path) /\ Bus!LastNode(path) = LastNode(path)
    BY DEF Bus!Father, Father, Bus!LastNode, LastNode, Bus!Last, Last, Bus!Front, Front
  <1>3. \A s : Bus!IsNumber(s) = IsNumber(s) /\ Bus!Canonical(s) = Canonical(s)
    BY DEF Bus!IsNumber, IsNumber, Bus!Canonical, Canonical
  <1>4. \A x, s : Bus!Enters(doc, x, s) = Enters(doc, x, s)
    BY DEF Bus!Enters, Enters, Bus!IsNumber, IsNumber, Bus!Canonical, Canonical
  <1> QED
    BY <1>1, <1>2, <1>3, <1>4

LEMMA SameRead == \A doc, path : Bus!Read(doc, path) = Read(doc, path)
PROOF
  <1>1. \A doc, path : Bus!Find(doc, path) = Find(doc, path)
    BY SameParts
  <1>2. \A doc, p : Bus!SubDocument(doc, p) = SubDocument(doc, p)
    BY DEF Bus!SubDocument, SubDocument, Bus!Suffix, Suffix, Bus!IsPrefix, IsPrefix
  <1> QED
    BY <1>1, <1>2 DEF Bus!Read, Read

LEMMA SameOutcome ==
  ASSUME NEW doc, NEW path, NEW data
  PROVE  /\ Bus!Target(doc, path) = Target(doc, path)
         /\ Bus!WriteOutcome(doc, path, data) = WriteOutcome(doc, path, data)
PROOF
  <1>1. Bus!Target(doc, path) = Target(doc, path)
    BY SameParts DEF Bus!Target, Target
  <1>2. Bus!MemberOutcome(doc, path, data) = MemberOutcome(doc, path, data)
    BY <1>1 DEF Bus!MemberOutcome, MemberOutcome
  <1>3. Bus!Find(doc, Bus!Father(path)) = Find(doc, Father(path))
    BY SameParts
  <1>4. Bus!WriteOutcome(doc, path, data) = WriteOutcome(doc, path, data)
    BY <1>2, <1>3, SameParts DEF Bus!WriteOutcome, WriteOutcome
  <1> QED
    BY <1>1, <1>4

LEMMA SameWrite ==
  ASSUME NEW doc, NEW path, NEW data
  PROVE  Bus!Write(doc, path, data) = Write(doc, path, data)
PROOF
  <1>1. \A x, p : Bus!Suffix(x, p) = Suffix(x, p) /\ Bus!IsPrefix(x, p) = IsPrefix(x, p)
    BY DEF Bus!Suffix, Suffix, Bus!IsPrefix, IsPrefix
  <1>2. \A p : Bus!Graft(doc, p, data) = Graft(doc, p, data)
    BY DEF Bus!Graft, Graft, Bus!Suffix, Suffix, Bus!IsPrefix, IsPrefix
  <1> QED
    BY <1>2, SameOutcome DEF Bus!Write, Write

-----------------------------------------------------------------------------
(***************************************************************************)
(* The state of DataBus, caller by caller.                                 *)
(***************************************************************************)
Done(c) ==
  /\ pc[c] \in {"awaitWrite", "awaitRead"}
  /\ kpc \in {"replyWrite", "replyRead"}
  /\ serving.caller = c /\ req[c].call = serving.call

NoBusOp == [kind |-> "none", path |-> <<>>, data |-> Nil]

BusOpOf(c) == IF BusStatus(c) = "idle" THEN NoBusOp ELSE BusOp(req[c])

BusResult(c) == IF BusStatus(c) = "done" THEN reply ELSE Nil

BusLate == IF kpc = "writing" /\ \A c \in Caller : ~Awaits(c, "awaitWrite", serving)
           THEN {BusOp(serving)} ELSE {}

LEMMA StatusIs ==
  ASSUME NEW c
  PROVE  /\ BusStatus(c) = IF Done(c) THEN "done"
                           ELSE IF pc[c] \in {"sendWrite", "sendRead", "awaitWrite", "awaitRead"}
                           THEN "called" ELSE "idle"
         /\ BusStatus(c)' = IF Done(c)' THEN "done"
                            ELSE IF pc'[c] \in {"sendWrite", "sendRead", "awaitWrite", "awaitRead"}
                            THEN "called" ELSE "idle"
PROOF
  BY DEF BusStatus, Done, Awaits

\* DataBus sees nothing of a step at caller d.
Same(d) ==
  /\ BusStatus(d)' = BusStatus(d)
  /\ BusOpOf(d)' = BusOpOf(d)
  /\ BusResult(d)' = BusResult(d)
  /\ BusAnswer(d)' = BusAnswer(d)

LEMMA SameAt ==
  ASSUME NEW d \in Caller, BusStatus(d)' = BusStatus(d), answer'[d] = answer[d],
         BusStatus(d) = "idle" \/ req'[d] = req[d],
         BusStatus(d) # "done" \/ reply' = reply
  PROVE  Same(d)
PROOF
  BY DEF Same, BusOpOf, BusOp, BusResult, BusAnswer

LEMMA SameCaller ==
  ASSUME NEW d \in Caller, Stays(d), answer'[d] = answer[d], Done(d)' <=> Done(d),
         Done(d) => reply' = reply
  PROVE  Same(d)
PROOF
  <1>1. BusStatus(d)' = BusStatus(d)
    BY StatusIs DEF Stays
  <1>2. BusStatus(d) = "done" => Done(d)
    BY StatusIs
  <1> QED
    BY <1>1, <1>2, SameAt DEF Stays

StatusBar == [c \in Caller |-> BusStatus(c)]
OpBar == [c \in Caller |-> BusOpOf(c)]
ResultBar == [c \in Caller |-> BusResult(c)]
AnswerBar == [c \in Caller |-> BusAnswer(c)]

LEMMA BusStutters ==
  ASSUME UNCHANGED <<value, alive>>, BusLate' = BusLate, \A d \in Caller : Same(d)
  PROVE  UNCHANGED Bus!busVars
PROOF
  <1>1. StatusBar' = StatusBar /\ OpBar' = OpBar /\ ResultBar' = ResultBar /\ AnswerBar' = AnswerBar
    BY DEF StatusBar, OpBar, ResultBar, AnswerBar, Same
  <1> QED
    BY <1>1 DEF Bus!busVars, StatusBar, OpBar, ResultBar, AnswerBar, BusOpOf, BusResult, BusLate,
                NoBusOp

\* One caller changes, the others do not.
LEMMA OneChanges ==
  ASSUME NEW c \in Caller, \A d \in Caller \ {c} : Same(d)
  PROVE  /\ StatusBar' = [StatusBar EXCEPT ![c] = BusStatus(c)']
         /\ OpBar' = [OpBar EXCEPT ![c] = BusOpOf(c)']
         /\ ResultBar' = [ResultBar EXCEPT ![c] = BusResult(c)']
         /\ AnswerBar' = [AnswerBar EXCEPT ![c] = BusAnswer(c)']
PROOF
  BY DEF StatusBar, OpBar, ResultBar, AnswerBar, Same

LEMMA Invokes ==
  ASSUME alive, UNCHANGED <<value, alive>>, BusLate' = BusLate,
         NEW c \in Caller, \A d \in Caller \ {c} : Same(d),
         BusStatus(c) = "idle", BusStatus(c)' = "called", answer'[c] = answer[c], Proper(req'[c])
  PROVE  Bus!Next
PROOF
  <1>1. /\ StatusBar' = [StatusBar EXCEPT ![c] = BusStatus(c)']
        /\ OpBar' = [OpBar EXCEPT ![c] = BusOpOf(c)']
        /\ ResultBar' = [ResultBar EXCEPT ![c] = BusResult(c)']
        /\ AnswerBar' = [AnswerBar EXCEPT ![c] = BusAnswer(c)']
    BY OneChanges
  <1>2. BusOpOf(c)' = BusOp(req'[c]) /\ BusResult(c)' = Nil /\ BusResult(c) = Nil
        /\ BusAnswer(c)' = BusAnswer(c)
    BY DEF BusOpOf, BusOp, BusResult, BusAnswer
  <1>3. ResultBar' = ResultBar /\ AnswerBar' = AnswerBar /\ StatusBar[c] = "idle"
        /\ StatusBar' = [StatusBar EXCEPT ![c] = "called"]
    BY <1>1, <1>2 DEF ResultBar, AnswerBar, StatusBar
  <1>4. \E path \in PathOf :
          \/ OpBar' = [OpBar EXCEPT ![c] = [kind |-> "read", path |-> path, data |-> Nil]]
          \/ \E data \in Data :
               OpBar' = [OpBar EXCEPT ![c] = [kind |-> "write", path |-> path, data |-> data]]
    BY <1>1, <1>2 DEF BusOp, Proper
  <1>5. Bus!Invoke(c)
    BY <1>3, <1>4 DEF Bus!Invoke, StatusBar, OpBar, ResultBar, AnswerBar, BusOpOf, BusResult,
                      BusLate, NoBusOp
  <1> QED
    BY <1>5 DEF Bus!Next

\* A call that has not acted or has been answered ends.
LEMMA Finishes ==
  ASSUME UNCHANGED <<value, alive>>,
         NEW c \in Caller, \A d \in Caller \ {c} : Same(d), BusStatus(c)' = "idle",
         NEW a, BusAnswer(c)' = a
  PROVE  Bus!Finish(c, a)
PROOF
  <1>1. /\ StatusBar' = [StatusBar EXCEPT ![c] = BusStatus(c)']
        /\ OpBar' = [OpBar EXCEPT ![c] = BusOpOf(c)']
        /\ ResultBar' = [ResultBar EXCEPT ![c] = BusResult(c)']
        /\ AnswerBar' = [AnswerBar EXCEPT ![c] = BusAnswer(c)']
    BY OneChanges
  <1>2. BusOpOf(c)' = NoBusOp /\ BusResult(c)' = Nil
    BY DEF BusOpOf, BusResult, NoBusOp
  <1> QED
    BY <1>1, <1>2 DEF Bus!Finish, StatusBar, OpBar, ResultBar, AnswerBar, BusOpOf, BusResult,
                      NoBusOp, Bus!NoOp

LEMMA Responds ==
  ASSUME alive, UNCHANGED <<value, alive>>, BusLate' = BusLate,
         NEW c \in Caller, \A d \in Caller \ {c} : Same(d),
         BusStatus(c) = "done", BusStatus(c)' = "idle",
         BusAnswer(c)' = <<BusOpOf(c).kind, reply>>
  PROVE  Bus!Next
PROOF
  <1>1. BusResult(c) = reply /\ StatusBar[c] = "done" /\ OpBar[c] = BusOpOf(c)
        /\ ResultBar[c] = reply
    BY DEF BusResult, StatusBar, OpBar, ResultBar
  <1>2. Bus!Finish(c, <<OpBar[c].kind, ResultBar[c]>>)
    BY <1>1, Finishes
  <1>3. Bus!Respond(c)
    BY <1>1, <1>2 DEF Bus!Respond, StatusBar, OpBar, ResultBar, BusOpOf, BusResult, BusLate, NoBusOp
  <1> QED
    BY <1>3 DEF Bus!Next

LEMMA NotSents ==
  ASSUME alive, UNCHANGED <<value, alive>>, BusLate' = BusLate,
         NEW c \in Caller, \A d \in Caller \ {c} : Same(d),
         BusStatus(c) = "called", BusStatus(c)' = "idle",
         BusAnswer(c)' = <<BusOpOf(c).kind, IF BusOpOf(c).kind = "write" THEN "notSent" ELSE Nil>>
  PROVE  Bus!Next
PROOF
  <1>1. StatusBar[c] = "called" /\ OpBar[c] = BusOpOf(c)
    BY DEF StatusBar, OpBar
  <1>2. Bus!Finish(c, <<OpBar[c].kind, IF OpBar[c].kind = "write" THEN "notSent" ELSE Nil>>)
    BY <1>1, Finishes
  <1>3. Bus!NotSent(c)
    BY <1>1, <1>2 DEF Bus!NotSent, StatusBar, OpBar, BusOpOf, BusLate, NoBusOp
  <1> QED
    BY <1>3 DEF Bus!Next

LEMMA NoAnswers ==
  ASSUME alive, UNCHANGED <<value, alive>>,
         NEW c \in Caller, BusLate = {}, BusLate' = {BusOpOf(c)}, \A d \in Caller \ {c} : Same(d),
         BusStatus(c) = "called", BusStatus(c)' = "idle", BusOpOf(c).kind = "write",
         BusAnswer(c)' = <<"write", "noAnswer">>
  PROVE  Bus!Next
PROOF
  <1>1. StatusBar[c] = "called" /\ OpBar[c] = BusOpOf(c)
    BY DEF StatusBar, OpBar
  <1>2. Bus!Finish(c, <<"write", "noAnswer">>)
    BY Finishes
  <1>3. BusLate' = BusLate \cup {OpBar[c]}
    BY <1>1
  <1>4. Bus!NoAnswer(c)
    BY <1>1, <1>2, <1>3 DEF Bus!NoAnswer, StatusBar, OpBar, BusOpOf, BusLate, NoBusOp
  <1> QED
    BY <1>4 DEF Bus!Next

LEMMA Forgets ==
  ASSUME alive, UNCHANGED <<value, alive>>, BusLate' = BusLate,
         NEW c \in Caller, \A d \in Caller \ {c} : Same(d),
         BusStatus(c) = "idle", BusStatus(c)' = "idle", BusAnswer(c)' = <<"none", Nil>>
  PROVE  Bus!Next
PROOF
  <1>1. /\ StatusBar' = [StatusBar EXCEPT ![c] = BusStatus(c)']
        /\ OpBar' = [OpBar EXCEPT ![c] = BusOpOf(c)']
        /\ ResultBar' = [ResultBar EXCEPT ![c] = BusResult(c)']
        /\ AnswerBar' = [AnswerBar EXCEPT ![c] = BusAnswer(c)']
    BY OneChanges
  <1>2. BusOpOf(c)' = BusOpOf(c) /\ BusResult(c)' = BusResult(c)
    BY DEF BusOpOf, BusResult, NoBusOp
  <1>3. StatusBar' = StatusBar /\ OpBar' = OpBar /\ ResultBar' = ResultBar /\ StatusBar[c] = "idle"
    BY <1>1, <1>2 DEF StatusBar, OpBar, ResultBar
  <1>4. Bus!Forget(c)
    BY <1>1, <1>3 DEF Bus!Forget, StatusBar, OpBar, ResultBar, AnswerBar, BusOpOf, BusResult,
                      BusLate, NoBusOp
  <1> QED
    BY <1>4 DEF Bus!Next

LEMMA Acts ==
  ASSUME alive, BusLate' = BusLate,
         NEW c \in Caller, \A d \in Caller \ {c} : Same(d),
         BusStatus(c) = "called", BusStatus(c)' = "done",
         req'[c] = req[c], answer'[c] = answer[c],
         \/ /\ req[c].op = "Write"
            /\ value' = Write(value, req[c].path, req[c].data)
            /\ reply' = WriteOutcome(value, req[c].path, req[c].data)
            /\ alive' = (reply' # "panic")
         \/ /\ req[c].op # "Write"
            /\ reply' = Read(value, req[c].path)
            /\ UNCHANGED <<value, alive>>
  PROVE  Bus!Next
PROOF
  <1>1. /\ StatusBar' = [StatusBar EXCEPT ![c] = "done"]
        /\ OpBar' = [OpBar EXCEPT ![c] = BusOpOf(c)']
        /\ ResultBar' = [ResultBar EXCEPT ![c] = reply']
        /\ AnswerBar' = [AnswerBar EXCEPT ![c] = BusAnswer(c)']
    BY OneChanges DEF BusResult
  <1>2. BusOpOf(c)' = BusOp(req[c]) /\ BusOpOf(c) = BusOp(req[c]) /\ BusAnswer(c)' = BusAnswer(c)
    BY DEF BusOpOf, BusOp, BusAnswer
  <1>3. /\ OpBar' = OpBar /\ AnswerBar' = AnswerBar
        /\ StatusBar[c] = "called" /\ OpBar[c] = BusOp(req[c])
    BY <1>1, <1>2 DEF StatusBar, OpBar, AnswerBar
  <1>4. \/ /\ OpBar[c].kind = "write"
           /\ Bus!ActWrite(OpBar[c])
           /\ ResultBar' = [ResultBar EXCEPT ![c] =
                              Bus!WriteOutcome(value, OpBar[c].path, OpBar[c].data)]
        \/ /\ OpBar[c].kind = "read"
           /\ ResultBar' = [ResultBar EXCEPT ![c] = Bus!Read(value, OpBar[c].path)]
           /\ UNCHANGED <<value, alive>>
    <2>1. CASE req[c].op = "Write"
      <3>1. OpBar[c].kind = "write" /\ OpBar[c].path = req[c].path /\ OpBar[c].data = req[c].data
        BY <1>3, <2>1 DEF BusOp
      <3>2. Bus!ActWrite(OpBar[c])
        BY <2>1, <3>1, SameOutcome, SameWrite DEF Bus!ActWrite
      <3>3. reply' = Bus!WriteOutcome(value, OpBar[c].path, OpBar[c].data)
        BY <2>1, <3>1, SameOutcome
      <3>4. ResultBar' = [ResultBar EXCEPT ![c] =
                            Bus!WriteOutcome(value, OpBar[c].path, OpBar[c].data)]
        BY <1>1, <3>3
      <3> QED
        BY <3>1, <3>2, <3>4
    <2>2. CASE req[c].op # "Write"
      <3>1. OpBar[c].kind = "read" /\ OpBar[c].path = req[c].path
        BY <1>3, <2>2 DEF BusOp
      <3> QED
        BY <1>1, <2>2, <3>1, SameRead
    <2> QED
      BY <2>1, <2>2
  <1>5. Bus!Act(c)
    BY <1>1, <1>3, <1>4 DEF Bus!Act, StatusBar, OpBar, ResultBar, AnswerBar, BusOpOf, BusResult,
                            BusLate, NoBusOp
  <1> QED
    BY <1>5 DEF Bus!Next

LEMMA ActsLate ==
  ASSUME alive, \A d \in Caller : Same(d),
         kpc = "writing", \A c \in Caller : ~Awaits(c, "awaitWrite", serving), kpc' # "writing",
         value' = Write(value, serving.path, serving.data), serving.op = "Write",
         alive' = (WriteOutcome(value, serving.path, serving.data) # "panic")
  PROVE  Bus!Next
PROOF
  <1> DEFINE o == BusOp(serving)
  <1>1. o \in BusLate /\ BusLate' = BusLate \ {o}
    BY DEF BusLate
  <1>2. StatusBar' = StatusBar /\ OpBar' = OpBar /\ ResultBar' = ResultBar /\ AnswerBar' = AnswerBar
    BY DEF StatusBar, OpBar, ResultBar, AnswerBar, Same
  <1>3. o.path = serving.path /\ o.data = serving.data
    BY DEF BusOp
  <1>4. Bus!ActWrite(o)
    BY <1>3, SameOutcome, SameWrite DEF Bus!ActWrite
  <1> HIDE DEF o
  <1>5. Bus!ActLate(o)
    BY <1>1, <1>2, <1>4 DEF Bus!ActLate, StatusBar, OpBar, ResultBar, AnswerBar, BusOpOf,
                            BusResult, BusLate, NoBusOp
  <1> QED
    BY <1>1, <1>5 DEF Bus!Next, BusLate

LEMMA Dies ==
  ASSUME alive, value' = value, alive' = FALSE, BusLate' = BusLate, \A d \in Caller : Same(d)
  PROVE  Bus!Next
PROOF
  <1>1. StatusBar' = StatusBar /\ OpBar' = OpBar /\ ResultBar' = ResultBar /\ AnswerBar' = AnswerBar
    BY DEF StatusBar, OpBar, ResultBar, AnswerBar, Same
  <1>2. Bus!Die
    BY <1>1 DEF Bus!Die, StatusBar, OpBar, ResultBar, AnswerBar, BusOpOf, BusResult, BusLate,
                NoBusOp
  <1> QED
    BY <1>2 DEF Bus!Next

-----------------------------------------------------------------------------
(***************************************************************************)
(* Every step of the control unit is a step of DataBus or leaves its state *)
(* alone.                                                                  *)
(***************************************************************************)
Refines == Bus!Next \/ UNCHANGED Bus!busVars

Answers == DOMAIN answer = Caller

\* The request a waiting caller has handed over is the one that is served.
LEMMA ServedRequest ==
  ASSUME Typed, CallsSound, NEW c \in Caller, pc[c] # "idle", kpc # "select",
         serving.caller = c, serving.call = req[c].call
  PROVE  /\ serving = req[c] /\ pc[c] \in Awaiting
         /\ kpc \in {"writing", "replyWrite"} => pc[c] = "awaitWrite" /\ serving.op = "Write"
         /\ kpc = "replyRead" => pc[c] = "awaitRead" /\ serving.op \in Reads
PROOF
  <1>1. serving = req[c] /\ pc[c] \in Awaiting
    BY DEF CallsSound, Handed
  <1>2. FitsCaller(req[c].op, pc[c]) /\ FitsKernel(serving.op, kpc)
    BY DEF CallsSound
  <1> QED
    BY <1>1, <1>2 DEF FitsCaller, FitsKernel, Awaiting, Reads

LEMMA DoneAwaits ==
  ASSUME Typed, CallsSound, NEW c \in Caller
  PROVE  Done(c) => \/ kpc = "replyWrite" /\ Awaits(c, "awaitWrite", serving)
                    \/ kpc = "replyRead" /\ Awaits(c, "awaitRead", serving)
PROOF
  BY ServedRequest DEF Done, Awaits

\* A step of caller c alone.
LEMMA CallerFrame ==
  ASSUME NEW c \in Caller, UNCHANGED kernelVars, \A d \in Caller \ {c} : Stays(d),
         \A d \in Caller \ {c} : answer'[d] = answer[d]
  PROVE  /\ \A d \in Caller \ {c} : Same(d)
         /\ pc[c] # "awaitWrite" /\ pc'[c] # "awaitWrite" => BusLate' = BusLate
PROOF
  <1>1. ASSUME NEW d \in Caller \ {c} PROVE Same(d)
    <2>1. (Done(d)' <=> Done(d)) /\ reply' = reply
      BY DEF Done, kernelVars, Stays
    <2> QED
      BY <2>1, SameCaller
  <1>2. ASSUME pc[c] # "awaitWrite", pc'[c] # "awaitWrite" PROVE BusLate' = BusLate
    <2>1. \A d \in Caller : Awaits(d, "awaitWrite", serving)' <=> Awaits(d, "awaitWrite", serving)
      BY <1>2 DEF Awaits, kernelVars, Stays
    <2> QED
      BY <2>1 DEF BusLate, kernelVars, BusOp
  <1> QED
    BY <1>1, <1>2

\* Caller c starts or goes on with a call; DataBus does not see it, or an Invoke.
LEMMA RefineGoes ==
  ASSUME Typed, CallsSound, alive, NEW c \in Caller,
         UNCHANGED <<kernelVars, value, alive, answer>>, \A d \in Caller \ {c} : Stays(d),
         pc[c] \notin {"sendWrite", "awaitWrite", "sendRead", "awaitRead"},
         \/ pc'[c] \notin {"sendWrite", "awaitWrite", "sendRead", "awaitRead"}
         \/ pc'[c] \in {"sendWrite", "sendRead"} /\ Proper(req'[c])
  PROVE  Refines
PROOF
  <1>1. (\A d \in Caller \ {c} : Same(d)) /\ BusLate' = BusLate
    BY CallerFrame
  <1>2. ~Done(c) /\ BusStatus(c) = "idle"
    BY StatusIs DEF Done
  <1>3. CASE pc'[c] \notin {"sendWrite", "awaitWrite", "sendRead", "awaitRead"}
    <2>1. BusStatus(c)' = "idle"
      BY <1>3, StatusIs DEF Done
    <2>2. Same(c)
      BY <1>2, <2>1, SameAt
    <2> QED
      BY <1>1, <2>2, BusStutters DEF Refines
  <1>4. CASE pc'[c] \in {"sendWrite", "sendRead"} /\ Proper(req'[c])
    <2>1. BusStatus(c)' = "called"
      BY <1>4, StatusIs DEF Done
    <2> QED
      BY <1>1, <1>2, <1>4, <2>1, Invokes DEF Refines
  <1> QED
    BY <1>3, <1>4

LEMMA RefineCall ==
  ASSUME Typed, CallsSound, alive, NEW c \in Caller, Call(c)
  PROVE  Refines
PROOF
  <1>1. UNCHANGED <<kernelVars, value, alive, answer>> /\ pc[c] = "idle"
    BY DEF Call, WriteQuickly, ReadQuickly, RegisterNotify, ReadBuffer, ReadWithTime, Start, Begin
  <1>2. (\A d \in Caller : Moves(d)) /\ pc'[c] \notin Awaiting /\ \A d \in Caller \ {c} : Stays(d)
    BY CallMoves
  <1>3. pc'[c] # "idle" => Proper(req'[c])
    BY <1>2, CallersSound
  <1> QED
    BY <1>1, <1>2, <1>3, RefineGoes DEF Awaiting

LEMMA RefineGoto ==
  ASSUME Typed, CallsSound, alive, NEW c \in Caller,
         Load(c) \/ Store(c) \/ Get(c) \/ FindSome(c) \/ ReadOneTimeout(c)
  PROVE  Refines
PROOF
  <1>1. /\ UNCHANGED <<kernelVars, value, alive, answer, req>>
        /\ pc[c] \in {"load", "store", "get", "find", "readOne"}
        /\ pc'[c] \in {"store", "get", "readOne", "load", "sendRead"}
        /\ \A d \in Caller \ {c} : pc'[d] = pc[d] /\ calls'[d] = calls[d]
    <2> USE DEF Typed, TypeOK, Goto
    <2>1. CASE Load(c)
      BY <2>1 DEF Load
    <2>2. CASE Store(c)
      BY <2>2 DEF Store
    <2>3. CASE Get(c)
      BY <2>3 DEF Get
    <2>4. CASE FindSome(c)
      BY <2>4 DEF FindSome
    <2>5. CASE ReadOneTimeout(c)
      BY <2>5 DEF ReadOneTimeout
    <2> QED
      BY <2>1, <2>2, <2>3, <2>4, <2>5
  <1>2. Proper(req'[c])
    BY <1>1 DEF CallsSound
  <1>3. \A d \in Caller \ {c} : Stays(d)
    BY <1>1 DEF Stays
  <1> QED
    BY <1>1, <1>2, <1>3, RefineGoes

\* What Return leaves in the state DataBus sees.
LEMMA ReturnEffect ==
  ASSUME Typed, CallsSound, Answers, NEW c \in Caller, NEW outcome, NEW update,
         Return(c, outcome, update)
  PROVE  /\ pc'[c] = "idle" /\ BusStatus(c)' = "idle"
         /\ \A d \in Caller \ {c} : Stays(d) /\ answer'[d] = answer[d]
         /\ BusAnswer(c)' =
              IF req[c].op = "Write" THEN <<"write", outcome>>
              ELSE IF outcome \in {"read", "snapshot"} THEN <<"read", update.result>>
              ELSE <<"none", Nil>>
PROOF
  <1>1. pc'[c] = "idle" /\ \A d \in Caller \ {c} : Stays(d)
    BY ReturnMoves
  <1>2. answer'[c] = Answer(req[c].op, outcome, update) /\ \A d \in Caller \ {c} : answer'[d] = answer[d]
    BY DEF Return, Answers
  <1>3. BusStatus(c)' = "idle"
    BY <1>1, StatusIs DEF Done
  <1>4. answer'[c].op = req[c].op /\ answer'[c].outcome = outcome /\ answer'[c].update = update
    BY <1>2 DEF Answer
  <1> QED
    BY <1>1, <1>2, <1>3, <1>4 DEF BusAnswer

LEMMA FinishEffect ==
  ASSUME Typed, CallsSound, Answers, NEW c \in Caller, NEW result, FinishRead(c, result),
         req[c].op \in Reads
  PROVE  /\ pc'[c] = "idle" /\ BusStatus(c)' = "idle"
         /\ \A d \in Caller \ {c} : Stays(d) /\ answer'[d] = answer[d]
         /\ BusAnswer(c)' = <<"read", result>>
PROOF
  <1>1. PICK outcome, update : /\ Return(c, outcome, update)
                              /\ outcome \in {"read", "snapshot"} /\ update.result = result
    BY DEF FinishRead, Update
  <1>2. req[c].op # "Write"
    BY DEF Reads
  <1> QED
    BY <1>1, <1>2, ReturnEffect

\* A caller that has not been served gives up.
LEMMA RefineGivesUp ==
  ASSUME Typed, CallsSound, Answers, alive, NEW c \in Caller,
         WriteNotSent(c) \/ WriteUnanswered(c) \/ ReadNotSent(c) \/ ReadUnanswered(c)
  PROVE  Refines
PROOF
  <1>1. UNCHANGED <<kernelVars, value, alive>>
    BY DEF WriteNotSent, WriteUnanswered, ReadNotSent, ReadUnanswered
  <1>2. pc[c] # "idle" /\ FitsCaller(req[c].op, pc[c]) /\ req[c].caller = c
    BY DEF CallsSound, WriteNotSent, WriteUnanswered, ReadNotSent, ReadUnanswered
  <1>3. CASE WriteNotSent(c)
    <2>1. req[c].op = "Write" /\ pc[c] = "sendWrite" /\ Return(c, "notSent", NoUpdate)
      BY <1>2, <1>3 DEF WriteNotSent, FitsCaller
    <2>2. BusStatus(c) = "called" /\ BusOpOf(c).kind = "write"
      BY <2>1, StatusIs DEF Done, BusOpOf, BusOp
    <2>3. /\ pc'[c] = "idle" /\ BusStatus(c)' = "idle" /\ BusAnswer(c)' = <<"write", "notSent">>
          /\ \A d \in Caller \ {c} : Stays(d) /\ answer'[d] = answer[d]
      BY <2>1, ReturnEffect
    <2>4. (\A d \in Caller \ {c} : Same(d)) /\ BusLate' = BusLate
      BY <1>1, <2>1, <2>3, CallerFrame
    <2> QED
      BY <1>1, <2>2, <2>3, <2>4, NotSents DEF Refines
  <1>4. CASE WriteUnanswered(c)
    <2>1. req[c].op = "Write" /\ pc[c] = "awaitWrite" /\ Return(c, "noAnswer", NoUpdate)
      BY <1>2, <1>4 DEF WriteUnanswered, FitsCaller
    <2>2. kpc \in {"writing", "replyWrite"} /\ serving = req[c]
      BY <2>1 DEF CallsSound
    <2>3. kpc = "writing" /\ Awaits(c, "awaitWrite", serving)
      BY <1>2, <1>4, <2>1, <2>2 DEF WriteUnanswered, Awaits
    <2>4. BusStatus(c) = "called" /\ BusOpOf(c) = BusOp(serving) /\ BusOpOf(c).kind = "write"
      BY <2>1, <2>2, <2>3, StatusIs DEF Done, BusOpOf, BusOp
    <2>5. /\ pc'[c] = "idle" /\ BusStatus(c)' = "idle" /\ BusAnswer(c)' = <<"write", "noAnswer">>
          /\ \A d \in Caller \ {c} : Stays(d) /\ answer'[d] = answer[d]
      BY <2>1, ReturnEffect
    <2>6. \A d \in Caller \ {c} : Same(d)
      BY <1>1, <2>5, CallerFrame
    <2>7. BusLate = {}
      BY <2>3 DEF BusLate
    <2>8. BusLate' = {BusOpOf(c)}
      <3>1. kpc' = "writing" /\ serving' = serving
        BY <1>1, <2>3 DEF kernelVars
      <3>2. \A d \in Caller : ~Awaits(d, "awaitWrite", serving)'
        BY <1>2, <2>2, <2>5, <3>1 DEF Awaits
      <3> QED
        BY <2>4, <3>1, <3>2 DEF BusLate, BusOp
    <2> QED
      BY <1>1, <2>4, <2>5, <2>6, <2>7, <2>8, NoAnswers DEF Refines
  <1>5. CASE ReadNotSent(c) \/ ReadUnanswered(c)
    <2>1. pc[c] \in {"sendRead", "awaitRead"} /\ FinishRead(c, Nil)
      BY <1>5 DEF ReadNotSent, ReadUnanswered
    <2>2. req[c].op \in Reads /\ req[c].op # "Write"
      BY <1>2, <2>1 DEF FitsCaller, Reads
    <2>3. ~Done(c)
      <3>1. Done(c) => kpc = "replyRead" /\ Awaits(c, "awaitRead", serving)
        BY <2>1, DoneAwaits DEF Awaits
      <3>2. ReadUnanswered(c) => ~(kpc = "replyRead" /\ Awaits(c, "awaitRead", serving))
        BY DEF ReadUnanswered
      <3>3. ReadNotSent(c) => pc[c] = "sendRead"
        BY DEF ReadNotSent
      <3> QED
        BY <1>5, <3>1, <3>2, <3>3 DEF Done
    <2>4. BusStatus(c) = "called" /\ BusOpOf(c).kind = "read"
      BY <2>1, <2>2, <2>3, StatusIs DEF BusOpOf, BusOp
    <2>5. /\ pc'[c] = "idle" /\ BusStatus(c)' = "idle" /\ BusAnswer(c)' = <<"read", Nil>>
          /\ \A d \in Caller \ {c} : Stays(d) /\ answer'[d] = answer[d]
      BY <2>1, <2>2, FinishEffect
    <2>6. (\A d \in Caller \ {c} : Same(d)) /\ BusLate' = BusLate
      BY <1>1, <2>1, <2>5, CallerFrame
    <2> QED
      BY <1>1, <2>4, <2>5, <2>6, NotSents DEF Refines
  <1> QED
    BY <1>3, <1>4, <1>5

\* A call that is neither a write nor a read ends.
LEMMA RefineOther ==
  ASSUME Typed, CallsSound, Answers, alive, NEW c \in Caller,
         \/ RegisterNotSent(c) \/ RegisterUnanswered(c) \/ GetNothing(c) \/ FindNothing(c)
         \/ TakeOne(c)
  PROVE  Refines
PROOF
  <1>1. /\ UNCHANGED <<kernelVars, value, alive>>
        /\ pc[c] \in {"sendRegister", "awaitRegister", "get", "find", "readOne"}
    BY DEF RegisterNotSent, RegisterUnanswered, GetNothing, FindNothing, TakeOne
  <1>2. req[c].op # "Write"
    BY <1>1 DEF CallsSound, FitsCaller
  <1>3. PICK outcome, update :
          /\ Return(c, outcome, update)
          /\ outcome \in {"notSent", "noAnswer", "noBuffer", "noResource", "update"}
    BY DEF RegisterNotSent, RegisterUnanswered, GetNothing, FindNothing, TakeOne
  <1>4. /\ pc'[c] = "idle" /\ BusStatus(c)' = "idle" /\ BusAnswer(c)' = <<"none", Nil>>
        /\ \A d \in Caller \ {c} : Stays(d) /\ answer'[d] = answer[d]
    BY <1>2, <1>3, ReturnEffect
  <1>5. (\A d \in Caller \ {c} : Same(d)) /\ BusLate' = BusLate
    BY <1>1, <1>4, CallerFrame
  <1>6. BusStatus(c) = "idle"
    BY <1>1, StatusIs DEF Done
  <1> QED
    BY <1>1, <1>4, <1>5, <1>6, Forgets DEF Refines

LEMMA RefineFatal ==
  ASSUME alive, NEW c \in Caller, RaceFatal(c)
  PROVE  Refines
PROOF
  <1>1. UNCHANGED <<value, kernelVars, callerVars>> /\ alive' = FALSE
    BY DEF RaceFatal
  <1>2. \A d \in Caller : Same(d)
    <2> SUFFICES ASSUME NEW d \in Caller PROVE Same(d)
      OBVIOUS
    <2>1. Stays(d) /\ answer'[d] = answer[d] /\ (Done(d)' <=> Done(d)) /\ reply' = reply
      BY <1>1 DEF Stays, Done, kernelVars, callerVars
    <2> QED
      BY <2>1, SameCaller
  <1>3. BusLate' = BusLate
    BY <1>1 DEF BusLate, BusOp, Awaits, kernelVars, callerVars
  <1> QED
    BY <1>1, <1>2, <1>3, Dies DEF Refines

\* A step of the control goroutine alone that neither writes nor reads.
LEMMA KernelFrame ==
  ASSUME Typed, CallsSound, UNCHANGED <<value, alive, callerVars>>,
         kpc # "writing", kpc' # "writing",
         \A d \in Caller : ~Done(d), \A d \in Caller : ~Done(d)'
  PROVE  Refines
PROOF
  <1>1. \A d \in Caller : Same(d)
    <2> SUFFICES ASSUME NEW d \in Caller PROVE Same(d)
      OBVIOUS
    <2>1. Stays(d) /\ answer'[d] = answer[d]
      BY DEF Stays, callerVars
    <2> QED
      BY <2>1, SameCaller
  <1>2. BusLate' = BusLate
    BY DEF BusLate
  <1> QED
    BY <1>1, <1>2, BusStutters DEF Refines

LEMMA RefineKernel ==
  ASSUME Typed, CallsSound, alive,
         \/ Notifying \/ Insert \/ InsertLate \/ Lookup \/ KernelLoad \/ KernelStore \/ KernelGet
         \/ WriteAnswerDropped \/ ReadAnswerDropped \/ RegisterAnswerDropped
  PROVE  Refines
PROOF
  <1>1. /\ UNCHANGED <<value, alive, callerVars>>
        /\ kpc # "writing" /\ kpc' \notin {"writing", "replyWrite", "replyRead"}
        /\ kpc = "replyWrite" => \A d \in Caller : ~Awaits(d, "awaitWrite", serving)
        /\ kpc = "replyRead" => \A d \in Caller : ~Awaits(d, "awaitRead", serving)
    BY DEF Notifying, Affect, SkipNil, InsertBlocks, GiveUp, DropListener, NotifyDone, Insert,
           InsertLate, Lookup, KernelLoad, KernelStore, KernelGet, WriteAnswerDropped,
           ReadAnswerDropped, RegisterAnswerDropped, NotifyUnchanged, KernelUnchanged, EndRequest
  <1>2. \A d \in Caller : ~Done(d)
    BY <1>1, DoneAwaits
  <1>3. \A d \in Caller : ~Done(d)'
    BY <1>1 DEF Done
  <1> QED
    BY <1>1, <1>2, <1>3, KernelFrame

\* The write takes effect: for the caller that waits for it, or late.
LEMMA RefineWrite ==
  ASSUME Typed, CallsSound, alive, ExecuteWrite
  PROVE  Refines
PROOF
  <1>1. /\ kpc = "writing" /\ kpc' = "replyWrite" /\ UNCHANGED <<serving, callerVars>>
        /\ value' = Write(value, serving.path, serving.data)
        /\ reply' = WriteOutcome(value, serving.path, serving.data)
        /\ alive' = (WriteOutcome(value, serving.path, serving.data) # "panic")
    BY DEF ExecuteWrite
  <1>2. \A d \in Caller : ~Done(d)
    BY <1>1 DEF Done
  <1>3. serving.op = "Write"
    BY <1>1 DEF CallsSound, FitsKernel
  <1>4. \A d \in Caller : Done(d)' <=> Awaits(d, "awaitWrite", serving)
    <2> SUFFICES ASSUME NEW d \in Caller PROVE Done(d)' <=> Awaits(d, "awaitWrite", serving)
      OBVIOUS
    <2>1. Done(d)' <=> pc[d] \in {"awaitWrite", "awaitRead"} /\ serving.caller = d
                        /\ req[d].call = serving.call
      BY <1>1 DEF Done, callerVars
    <2>2. pc[d] = "awaitRead" /\ serving.caller = d /\ req[d].call = serving.call => FALSE
      BY <1>1, ServedRequest
    <2> QED
      BY <2>1, <2>2 DEF Awaits
  <1>5. \A d \in Caller : Stays(d) /\ answer'[d] = answer[d]
    BY <1>1 DEF Stays, callerVars
  <1>6. \A d \in Caller : ~Awaits(d, "awaitWrite", serving) => Same(d)
    BY <1>2, <1>4, <1>5, SameCaller
  <1>7. CASE \A d \in Caller : ~Awaits(d, "awaitWrite", serving)
    BY <1>1, <1>3, <1>6, <1>7, ActsLate DEF Refines
  <1>8. CASE \E d \in Caller : Awaits(d, "awaitWrite", serving)
    <2>1. PICK c \in Caller : Awaits(c, "awaitWrite", serving)
      BY <1>8
    <2>2. c = serving.caller /\ pc[c] = "awaitWrite" /\ serving.call = req[c].call
      BY <2>1 DEF Awaits
    <2>3. serving = req[c]
      BY <1>1, <2>2, ServedRequest
    <2>4. \A d \in Caller \ {c} : Same(d)
      BY <1>6, <2>2 DEF Awaits
    <2>5. BusStatus(c) = "called" /\ BusStatus(c)' = "done"
      BY <1>2, <1>4, <2>1, <2>2, StatusIs
    <2>6. BusLate' = BusLate
      BY <1>1, <2>1 DEF BusLate
    <2> QED
      BY <1>1, <1>3, <1>5, <2>3, <2>4, <2>5, <2>6, Acts DEF Refines, Stays
  <1> QED
    BY <1>7, <1>8

LEMMA RefineRead ==
  ASSUME Typed, CallsSound, alive, AcceptRead
  PROVE  Refines
PROOF
  <1> DEFINE q == Head(readChan)
  <1>1. /\ kpc = "select" /\ kpc' = "replyRead" /\ serving' = q
        /\ reply' = Read(value, q.path) /\ UNCHANGED <<value, alive, callerVars>>
    BY DEF AcceptRead
  <1>2. CallsSound'
    BY CallsReceive
  <1>3. q.op \in Reads /\ Handed(q, pc, req, calls)
    <2>1. readChan \in Seq(Request) /\ readChan # <<>>
      BY DEF AcceptRead, Typed, TypeOK
    <2>2. Len(readChan) \in Nat \ {0} /\ q = readChan[1]
      BY <2>1, EmptySeq, LenProperties, HeadTailProperties
    <2>3. 1 \in 1 .. Len(readChan)
      BY <2>2
    <2> HIDE DEF q
    <2> QED
      BY <2>2, <2>3 DEF CallsSound
  <1> HIDE DEF q
  <1>4. \A d \in Caller : ~Done(d) /\ Stays(d) /\ answer'[d] = answer[d]
    BY <1>1 DEF Done, Stays, callerVars
  <1>5. \A d \in Caller : Done(d)' => d = q.caller /\ pc[d] = "awaitRead" /\ q = req[d]
    <2> SUFFICES ASSUME NEW d \in Caller, Done(d)'
                 PROVE  d = q.caller /\ pc[d] = "awaitRead" /\ q = req[d]
      OBVIOUS
    <2>1. pc[d] \in {"awaitWrite", "awaitRead"} /\ q.caller = d /\ req[d].call = q.call
      BY <1>1 DEF Done, callerVars
    <2>2. q = req[d]
      BY <1>3, <2>1 DEF Handed, CallsSound
    <2>3. FitsCaller(req[d].op, pc[d])
      BY DEF CallsSound
    <2> QED
      BY <1>3, <2>1, <2>2, <2>3 DEF FitsCaller, Reads
  <1>6. BusLate' = BusLate
    BY <1>1 DEF BusLate
  <1>7. \A d \in Caller : ~Done(d)' => Same(d)
    BY <1>4, SameCaller
  <1>8. CASE \A d \in Caller : ~Done(d)'
    BY <1>1, <1>6, <1>7, <1>8, BusStutters DEF Refines
  <1>9. CASE \E d \in Caller : Done(d)'
    <2>1. PICK c \in Caller : Done(c)'
      BY <1>9
    <2>2. c = q.caller /\ pc[c] = "awaitRead" /\ q = req[c]
      BY <1>5, <2>1
    <2>3. \A d \in Caller \ {c} : Same(d)
      BY <1>5, <1>7, <2>2
    <2>4. BusStatus(c) = "called" /\ BusStatus(c)' = "done"
      BY <1>4, <2>1, <2>2, StatusIs
    <2>5. req[c].op # "Write" /\ reply' = Read(value, req[c].path)
      BY <1>1, <1>3, <2>2 DEF Reads
    <2> QED
      BY <1>1, <1>4, <1>6, <2>3, <2>4, <2>5, Acts DEF Refines, Stays
  <1> QED
    BY <1>8, <1>9

\* A request is handed over: its caller goes on waiting.
LEMMA RefineHandOver ==
  ASSUME Typed, CallsSound, alive, NEW c \in Caller,
         AcceptWrite(c) \/ AcceptRegister(c) \/ SendRead(c)
  PROVE  Refines
PROOF
  <1>1. /\ UNCHANGED <<value, alive, reply, req, answer, calls>>
        /\ \/ /\ pc[c] = "sendWrite" /\ pc'[c] = "awaitWrite" /\ kpc = "select"
              /\ kpc' = "writing" /\ serving' = req[c]
           \/ /\ pc[c] = "sendRegister" /\ pc'[c] = "awaitRegister" /\ kpc = "select"
              /\ kpc' = "lookup"
           \/ /\ pc[c] = "sendRead" /\ pc'[c] = "awaitRead" /\ kpc' = kpc /\ serving' = serving
        /\ \A d \in Caller \ {c} : pc'[d] = pc[d]
    <2> USE DEF Typed, TypeOK, Goto
    <2>1. CASE AcceptWrite(c)
      BY <2>1 DEF AcceptWrite
    <2>2. CASE AcceptRegister(c)
      BY <2>2 DEF AcceptRegister
    <2>3. CASE SendRead(c)
      BY <2>3 DEF SendRead, kernelVars
    <2> QED
      BY <2>1, <2>2, <2>3
  <1>2. \A d \in Caller \ {c} : Stays(d) /\ answer'[d] = answer[d]
    BY <1>1 DEF Stays
  <1>3. \A d \in Caller \ {c} : Done(d)' <=> Done(d)
    BY <1>1 DEF Done
  <1>4. \A d \in Caller \ {c} : Same(d)
    BY <1>1, <1>2, <1>3, SameCaller
  <1>5. ~Done(c) /\ ~Done(c)'
    <2>1. ~Done(c)
      BY <1>1 DEF Done
    <2>2. pc[c] = "sendRead" /\ kpc # "select" => ~(serving.caller = c /\ serving.call = req[c].call)
      BY ServedRequest DEF Awaiting
    <2> QED
      BY <1>1, <2>1, <2>2 DEF Done
  <1>6. BusStatus(c)' = BusStatus(c)
    BY <1>1, <1>5, StatusIs
  <1>7. BusStatus(c) # "done"
    BY <1>5, StatusIs
  <1>8. Same(c)
    BY <1>1, <1>6, <1>7, SameAt
  <1>9. BusLate' = BusLate
    <2>1. CASE pc[c] = "sendWrite"
      <3>1. kpc = "select" /\ kpc' = "writing" /\ pc'[c] = "awaitWrite" /\ serving' = req[c]
        BY <1>1, <2>1
      <3>2. req[c].caller = c
        BY <2>1 DEF CallsSound
      <3>3. Awaits(c, "awaitWrite", serving)'
        BY <1>1, <3>1, <3>2 DEF Awaits
      <3> QED
        BY <3>1, <3>3 DEF BusLate
    <2>2. CASE pc[c] = "sendRegister"
      BY <1>1, <2>2 DEF BusLate
    <2>3. CASE pc[c] = "sendRead"
      <3>1. kpc' = kpc /\ serving' = serving /\ pc'[c] = "awaitRead"
        BY <1>1, <2>3
      <3>2. \A d \in Caller : Awaits(d, "awaitWrite", serving)' <=> Awaits(d, "awaitWrite", serving)
        BY <1>1, <2>3, <3>1 DEF Awaits
      <3> QED
        BY <3>1, <3>2 DEF BusLate, BusOp
    <2> QED
      BY <1>1, <2>1, <2>2, <2>3
  <1> QED
    BY <1>1, <1>4, <1>8, <1>9, BusStutters DEF Refines

\* A caller gets its answer.
LEMMA RefineAnswer ==
  ASSUME Typed, CallsSound, Answers, alive, NEW c \in Caller,
         AnswerWrite(c) \/ AnswerRead(c) \/ AnswerRegister(c)
  PROVE  Refines
PROOF
  <1>1. /\ UNCHANGED <<value, alive>> /\ kpc' \notin {"writing", "replyWrite", "replyRead"}
        /\ serving.caller = c /\ serving.call = req[c].call
        /\ kpc \in {"replyWrite", "replyRead", "replyRegister"}
        /\ kpc = "replyWrite" => pc[c] = "awaitWrite" /\ Return(c, reply, NoUpdate)
        /\ kpc = "replyRead" => pc[c] = "awaitRead" /\ FinishRead(c, reply)
        /\ kpc = "replyRegister" => pc[c] = "awaitRegister" /\ Return(c, reply, NoUpdate)
    BY DEF AnswerWrite, AnswerRead, AnswerRegister, AwaitsRead, Awaits, EndRequest, KernelUnchanged
  <1>2. FitsCaller(req[c].op, pc[c])
    BY DEF CallsSound
  <1>3. BusLate' = BusLate
    BY <1>1 DEF BusLate
  <1>4. /\ kpc = "replyWrite" => BusStatus(c) = "done" /\ req[c].op = "Write"
        /\ kpc = "replyRead" => BusStatus(c) = "done" /\ req[c].op \in Reads /\ req[c].op # "Write"
        /\ kpc = "replyRegister" => BusStatus(c) = "idle" /\ req[c].op # "Write"
    BY <1>1, <1>2, StatusIs DEF Done, FitsCaller, Reads
  <1>5. /\ BusStatus(c)' = "idle" /\ \A d \in Caller \ {c} : Stays(d) /\ answer'[d] = answer[d]
        /\ kpc = "replyWrite" => BusAnswer(c)' = <<"write", reply>>
        /\ kpc = "replyRead" => BusAnswer(c)' = <<"read", reply>>
        /\ kpc = "replyRegister" => BusAnswer(c)' = <<"none", Nil>>
    <2>1. CASE kpc = "replyWrite"
      BY <1>1, <1>4, <2>1, ReturnEffect
    <2>2. CASE kpc = "replyRead"
      BY <1>1, <1>4, <2>2, FinishEffect
    <2>3. CASE kpc = "replyRegister"
      <3>1. reply \notin {"read", "snapshot"}
        BY <2>3 DEF CallsSound
      <3> QED
        BY <1>1, <1>4, <2>3, <3>1, ReturnEffect
    <2> QED
      BY <1>1, <2>1, <2>2, <2>3
  <1>6. \A d \in Caller \ {c} : Same(d)
    <2>1. \A d \in Caller \ {c} : ~Done(d) /\ ~Done(d)'
      BY <1>1 DEF Done
    <2> QED
      BY <1>5, <2>1, SameCaller
  <1>7. CASE kpc \in {"replyWrite", "replyRead"}
    <2>1. BusAnswer(c)' = <<BusOpOf(c).kind, reply>>
      BY <1>4, <1>5, <1>7 DEF BusOpOf, BusOp
    <2> QED
      BY <1>1, <1>3, <1>4, <1>5, <1>6, <1>7, <2>1, Responds DEF Refines
  <1>8. CASE kpc = "replyRegister"
    BY <1>1, <1>3, <1>4, <1>5, <1>6, <1>8, Forgets DEF Refines
  <1> QED
    BY <1>1, <1>7, <1>8

LEMMA AnswersStep ==
  ASSUME Typed, Answers, [Next]_vars
  PROVE  Answers'
PROOF
  <1>1. ASSUME NEW c \in Caller, NEW outcome, NEW update, Return(c, outcome, update)
        PROVE  Answers'
    BY <1>1 DEF Return, Answers
  <1>2. ASSUME NEW c \in Caller, NEW result, FinishRead(c, result) PROVE Answers'
    BY <1>1, <1>2 DEF FinishRead
  <1>3. ASSUME answer' = answer PROVE Answers'
    BY <1>3 DEF Answers
  <1>4. ASSUME NEW c \in Caller, Call(c) PROVE Answers'
    BY <1>3, <1>4 DEF Call, WriteQuickly, ReadQuickly, RegisterNotify, ReadBuffer, ReadWithTime,
                      Start
  <1>5. ASSUME NEW c \in Caller, CallerOnly(c) \/ TakeOne(c) PROVE Answers'
    BY <1>1, <1>2, <1>3, <1>5
       DEF CallerOnly, WriteNotSent, WriteUnanswered, RegisterNotSent, RegisterUnanswered,
           GetNothing, FindNothing, TakeOne, ReadNotSent, ReadUnanswered, Load, ReadOneTimeout,
           FindSome, Get, Goto, RaceFatal, callerVars
  <1>6. CASE Serving
    <2>1. ASSUME NEW c \in Caller, AnswerWrite(c) \/ AnswerRead(c) \/ AnswerRegister(c)
          PROVE  Answers'
      BY <1>1, <1>2, <2>1 DEF AnswerWrite, AnswerRead, AnswerRegister
    <2>2. ASSUME NEW c \in Caller, AcceptWrite(c) \/ SendRead(c) \/ AcceptRegister(c)
          PROVE  Answers'
      BY <1>3, <2>2 DEF AcceptWrite, SendRead, AcceptRegister, Goto
    <2> QED
      BY <1>3, <1>6, <2>1, <2>2 DEF Serving, WriteAnswerDropped, AcceptRead, ReadAnswerDropped,
         Lookup, KernelLoad, KernelGet, RegisterAnswerDropped, callerVars
  <1>7. CASE ExecuteWrite \/ Notifying \/ Insert \/ InsertLate
    BY <1>3, <1>7 DEF ExecuteWrite, Notifying, Affect, SkipNil, InsertBlocks, GiveUp,
       DropListener, NotifyDone, Insert, InsertLate, NotifyUnchanged, callerVars
  <1>8. CASE Storing
    BY <1>3, <1>8, StoringEffect
  <1>9. CASE UNCHANGED vars
    BY <1>3, <1>9 DEF vars, callerVars
  <1> QED
    BY <1>4, <1>5, <1>6, <1>7, <1>8, <1>9, NextKinds DEF Work

LEMMA RefineStep ==
  ASSUME Typed, CallsSound, Answers, [Next]_vars
  PROVE  Refines
PROOF
  <1>1. CASE Next
    <2>1. alive
      BY <1>1 DEF Next
    <2>2. CASE KernelStep
      BY <2>1, <2>2, RefineKernel, RefineWrite, RefineRead DEF KernelStep, Notifying
    <2>3. ASSUME NEW c \in Caller, Call(c) PROVE Refines
      BY <2>1, <2>3, RefineCall
    <2>4. ASSUME NEW c \in Caller, CallerStep(c) PROVE Refines
      BY <2>1, <2>4, RefineGoto, RefineGivesUp, RefineOther, RefineHandOver, RefineAnswer
         DEF CallerStep
    <2>5. ASSUME NEW c \in Caller, RaceFatal(c) PROVE Refines
      BY <2>1, <2>5, RefineFatal
    <2> QED
      BY <1>1, <2>2, <2>3, <2>4, <2>5 DEF Next
  <1>2. CASE UNCHANGED vars
    <2>1. \A d \in Caller : Stays(d) /\ answer'[d] = answer[d] /\ (Done(d)' <=> Done(d)) /\ reply' = reply
      BY <1>2 DEF vars, callerVars, kernelVars, Stays, Done
    <2>2. BusLate' = BusLate /\ UNCHANGED <<value, alive>>
      BY <1>2 DEF vars, callerVars, kernelVars, BusLate, Awaits, BusOp
    <2>3. \A d \in Caller : Same(d)
      BY <2>1, SameCaller
    <2> QED
      BY <2>2, <2>3, BusStutters DEF Refines
  <1> QED
    BY <1>1, <1>2

LEMMA RefineInit == Init => Bus!Init
PROOF
  <1> SUFFICES ASSUME Init PROVE Bus!Init
    OBVIOUS
  <1>1. \A c \in Caller : /\ BusStatus(c) = "idle" /\ BusOpOf(c) = NoBusOp /\ BusResult(c) = Nil
                          /\ BusAnswer(c) = <<"none", Nil>>
    BY StatusIs DEF Init, Done, BusOpOf, BusResult, BusAnswer, Answer
  <1>2. BusLate = {} /\ value = Template /\ alive = TRUE
    BY DEF Init, BusLate
  <1>3. /\ StatusBar = [c \in Caller |-> "idle"] /\ OpBar = [c \in Caller |-> NoBusOp]
        /\ ResultBar = [c \in Caller |-> Nil] /\ AnswerBar = [c \in Caller |-> <<"none", Nil>>]
    BY <1>1 DEF StatusBar, OpBar, ResultBar, AnswerBar
  <1> QED
    BY <1>2, <1>3 DEF Bus!Init, Bus!NoOp, StatusBar, OpBar, ResultBar, AnswerBar, BusOpOf,
                      BusResult, BusLate, NoBusOp

\* WriteQuickly and ReadQuickly act on the document one after the other, each at
\* one moment between its call and its return, a write at most once, also when
\* their callers have given up (Control, write, read): for any number of callers
\* and requests the control unit implements DataBus.
THEOREM ImplementsBus == Spec => BusImplemented
PROOF
  <1> DEFINE Inv == Typed /\ CallsSound /\ Answers
  <1>1. Init => Inv
    <2>1. Init => Answers
      BY DEF Init, Answers
    <2> QED
      BY <2>1, TypedInit, CallsInit
  <1>2. Inv /\ [Next]_vars => Inv'
    BY TypedStep, CallsStep, AnswersStep
  <1>3. Inv /\ [Next]_vars => [Bus!Next]_Bus!busVars
    BY RefineStep DEF Refines
  <1> QED
    BY <1>1, <1>2, <1>3, RefineInit, PTL DEF Spec, BusImplemented, Bus!Spec
=============================================================================
