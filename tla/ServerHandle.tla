----------------------------- MODULE ServerHandle -----------------------------
(***************************************************************************)
(* The server's handler of one client connection                           *)
(* (socketApi/serverHandle.go).  The reader goroutine of the connection    *)
(* runs socketOutputHandle, one request of the client at a time, and is a  *)
(* caller of the control unit.  A registration starts a goroutine,         *)
(* readPoll, that takes updates from the listener's buffer for ever and    *)
(* sends each to the client as a request of the server.                    *)
(*                                                                         *)
(* Answers and notifications go to the client along one stream, wire, in   *)
(* the order in which the writer goroutine takes them: the answer of a     *)
(* registration races with the first notification.  What socket.go does    *)
(* with a request (RealtimeSocket) is here the choice of the poll between  *)
(* sent, not sent and not answered in time.  The client is modelled by     *)
(* what it has been told of each path: view.                               *)
(***************************************************************************)
EXTENDS VisitorsControl

CONSTANTS SocketReader,    \* the goroutine that reads from the client's connection
          Poll,            \* goroutines that can run readPoll
          Client,          \* the visitor name of the client
          Command,         \* the commands the client sends
          WireCapacity,    \* bound: frames on their way to the client
          MaxRequests      \* bound: requests the client makes

CmdUnblockRead == "UnblockRead"
CmdWrite == "Write"
CmdRegisterNotify == "RegisterNotify"

ASSUME ServerAssumption ==
  /\ SocketReader \in Caller \ Poll
  /\ Poll \subseteq Caller
  /\ Client \in Visitor
  /\ Command \subseteq {CmdUnblockRead, CmdWrite, CmdRegisterNotify}
  /\ WireCapacity \in Nat \ {0}
  /\ MaxRequests \in Nat

VARIABLES
  connection,  \* "open", "lost" once it is down, "closed" once closeNotify has set
               \* the exit flag of its handler
  asked,       \* requests the client has made
  inbox,       \* the client's request not yet read from the connection, or NoMessage
  handling,    \* the request socketOutputHandle is running, or NoMessage
  polling,     \* polling[p]: where readPoll p is
  listens,     \* listens[p]: what readPoll p was started with
  wire,        \* answers and notifications on their way to the client
  view         \* view[path]: the latest payload the client has got for path

serverVars == <<connection, asked, inbox, handling, polling, listens, wire, view>>

-----------------------------------------------------------------------------
NoMessage == [no |-> 0, cmd |-> "none", path |-> <<>>, data |-> Nil, timeout |-> 0,
              stage |-> "none", payload |-> Nil]

ServerInit ==
  /\ connection = "open"
  /\ asked = 0
  /\ inbox = NoMessage
  /\ handling = NoMessage
  /\ polling = [p \in Poll |-> "none"]
  /\ listens = [p \in Poll |-> Nil]
  /\ wire = <<>>
  /\ view = [path \in PathOf |-> Nil]

\* Frames to the client.
AnswerTo(r, payload) == [no |-> r.no, path |-> r.path, payload |-> payload]
changeNotify(p, payload) == [no |-> 0, path |-> listens[p].path, payload |-> payload]

\* Mutant: a goroutine makes one result channel for all its calls.
OneChannel(c) == 1

\* A number whose result channel no request still queued with the control unit has.
FreshCall(c) ==
  CHOOSE n \in 1 .. ReadCapacity + 2 :
    \A r \in ToSet(readChan) \cup {serving} : r.caller = c => r.call # n

NoAnswer == Answer("none", "none", NoUpdate)

\* A call of goroutine c of this server; its earlier answer goes out of scope.
Calls(c, op, first, path, data, timeout) ==
  /\ Begin(c, FreshCall(c), op, first, Client, path, data, timeout)
  /\ answer' = [answer EXCEPT ![c] = NoAnswer]

Forgets(c) ==
  /\ answer' = [answer EXCEPT ![c] = NoAnswer]
  /\ UNCHANGED <<value, alive, kernelVars, bufferVars, readChan, clock, pc, req, calls, ptr>>

-----------------------------------------------------------------------------
(***************************************************************************)
(* The client, and its connections.                                        *)
(***************************************************************************)
Registrations ==
  Cardinality({p \in Poll : polling[p] # "none"})
    + Cardinality({r \in {inbox, handling} : r.cmd = CmdRegisterNotify})

\* The client's earlier request has been answered, or has been given up after
\* 500 ms.  Bound: it registers no more often than there are goroutines in Poll.
ClientAsks ==
  /\ connection = "open"
  /\ inbox = NoMessage
  /\ asked < MaxRequests
  /\ \E cmd \in Command, path \in PathOf, data \in Data, timeout \in Timeout :
       /\ cmd = CmdRegisterNotify => Registrations < Cardinality(Poll)
       /\ inbox' = [no |-> asked + 1, cmd |-> cmd, path |-> path, data |-> data,
                    timeout |-> timeout, stage |-> "call", payload |-> Nil]
  /\ asked' = asked + 1
  /\ UNCHANGED <<connection, handling, polling, listens, wire, view>>
  /\ UNCHANGED vars

\* The client takes a notification, or an answer it still waits for.
ClientHears ==
  /\ wire # <<>>
  /\ Head(wire).no \in {0, asked}
  /\ Head(wire).payload # Nil
  /\ view' = [view EXCEPT ![Head(wire).path] = Head(wire).payload]
  /\ wire' = Tail(wire)
  /\ UNCHANGED <<connection, asked, inbox, handling, polling, listens>>
  /\ UNCHANGED vars

\* An answer of failure, or one that comes after the client has given it up.
ClientIgnores ==
  /\ wire # <<>>
  /\ Head(wire).no # 0
  /\ wire' = Tail(wire)
  /\ UNCHANGED <<connection, asked, inbox, handling, polling, listens, view>>
  /\ UNCHANGED vars

Disconnect ==
  /\ connection = "open"
  /\ connection' = "lost"
  /\ wire' = <<>>
  /\ inbox' = NoMessage
  /\ UNCHANGED <<asked, handling, polling, listens, view>>
  /\ UNCHANGED vars

closeNotify ==
  /\ connection = "lost"
  /\ connection' = "closed"
  /\ UNCHANGED <<asked, inbox, handling, polling, listens, wire, view>>
  /\ UNCHANGED vars

-----------------------------------------------------------------------------
(***************************************************************************)
(* socketOutputHandle.                                                     *)
(***************************************************************************)
HandleRequest ==
  /\ handling = NoMessage
  /\ inbox # NoMessage
  /\ handling' = inbox
  /\ inbox' = NoMessage
  /\ IF inbox.cmd = CmdWrite
     THEN Calls(SocketReader, "Write", "sendWrite", inbox.path, inbox.data, 0)
     ELSE Calls(SocketReader, "Read", "sendRead", inbox.path, Nil, -1)
  /\ UNCHANGED <<connection, asked, polling, listens, wire, view>>

\* The handler is at stage, and its call has returned.
Returned(stage) == handling # NoMessage /\ handling.stage = stage /\ pc[SocketReader] = "idle"

Registering == handling.cmd = CmdRegisterNotify

Result == answer[SocketReader].update.result

\* Mutant: the outcome of the read is taken for that of the registration.
RegisterUnasked ==
  /\ Returned("call")
  /\ Registering
  /\ Result # Nil
  /\ handling' = [handling EXCEPT !.stage = "register", !.payload = Result]
  /\ UNCHANGED <<connection, asked, inbox, polling, listens, wire, view>>
  /\ UNCHANGED vars

\* The value of the answer is the one read before the registration.
RegisterAfterRead ==
  /\ Returned("call")
  /\ Registering
  /\ Result # Nil
  /\ handling' = [handling EXCEPT !.stage = "register", !.payload = Result]
  /\ Calls(SocketReader, "Register", "sendRegister", handling.path, Nil, handling.timeout)
  /\ UNCHANGED <<connection, asked, inbox, polling, listens, wire, view>>

\* go readPoll, and Wait until it runs: its first notification may overtake the answer.
StartPoll ==
  /\ Returned("register")
  /\ answer[SocketReader].outcome = "ok"
  /\ \E p \in Poll :
       /\ polling[p] = "none"
       /\ polling' = [polling EXCEPT ![p] = "start"]
       /\ listens' = [listens EXCEPT ![p] = [path |-> handling.path, timeout |-> handling.timeout]]
  /\ handling' = [handling EXCEPT !.stage = "listening"]
  /\ UNCHANGED <<connection, asked, inbox, wire, view>>
  /\ UNCHANGED vars

\* socketOutputHandle returns payload, Nil with a status of failure or of a write.
Replies(payload) ==
  \/ Returned("call") /\ (~Registering \/ Result = Nil) /\ payload = Result
  \/ Returned("register") /\ answer[SocketReader].outcome # "ok" /\ payload = Nil
  \/ Returned("listening") /\ payload = handling.payload

SendReply ==
  /\ connection = "open"
  /\ Len(wire) < WireCapacity
  /\ handling # NoMessage
  /\ \E payload \in {Nil, Result, handling.payload} :
       Replies(payload) /\ wire' = Append(wire, AnswerTo(handling, payload))
  /\ handling' = NoMessage
  /\ UNCHANGED <<connection, asked, inbox, polling, listens, view>>
  /\ Forgets(SocketReader)

\* Mutant: the answer is handed to the writer goroutine without a timeout.
KeepsReply == FALSE

\* The writer goroutine does not take the answer within 500 ms.
DropReply ==
  /\ connection # "open" \/ Len(wire) >= WireCapacity
  /\ handling # NoMessage
  /\ \E payload \in {Nil, Result, handling.payload} : Replies(payload)
  /\ handling' = NoMessage
  /\ UNCHANGED <<connection, asked, inbox, polling, listens, wire, view>>
  /\ Forgets(SocketReader)

-----------------------------------------------------------------------------
(***************************************************************************)
(* readPoll.                                                               *)
(***************************************************************************)
PollUnchanged == UNCHANGED <<connection, asked, inbox, handling, listens, view>>

\* The loop from its top: ReadBuffer.
NextTurn(p) ==
  /\ polling' = [polling EXCEPT ![p] = "read"]
  /\ Calls(p, "ReadBuffer", "load", listens[p].path, Nil, listens[p].timeout)

PollStarts(p) ==
  /\ polling[p] = "start"
  /\ NextTurn(p)
  /\ UNCHANGED wire
  /\ PollUnchanged

HasResult(p) == polling[p] = "read" /\ pc[p] = "idle"

\* Mutant: what ReadBuffer returns at a timeout is not sent.
PayloadOfUpdate(p) ==
  IF answer[p].outcome = "update" THEN answer[p].update.result ELSE Nil

Payload(p) == answer[p].update.result

\* An empty result goes back to the top, past the check of the exit flag.
PollSkips(p) ==
  /\ HasResult(p)
  /\ Payload(p) = Nil
  /\ NextTurn(p)
  /\ UNCHANGED wire
  /\ PollUnchanged

CanSend(p) == connection = "open" /\ Len(wire) < WireCapacity

PollSends(p) ==
  /\ HasResult(p)
  /\ Payload(p) # Nil
  /\ CanSend(p)
  /\ wire' = Append(wire, changeNotify(p, Payload(p)))
  /\ polling' = [polling EXCEPT ![p] = "sent"]
  /\ PollUnchanged
  /\ Forgets(p)

\* The exit flag, looked at after each Request.
EndsTurn(p) ==
  IF connection = "closed"
  THEN polling' = [polling EXCEPT ![p] = "ended"] /\ Forgets(p)
  ELSE NextTurn(p)

\* Request gives up after 500 ms: the notification is logged and lost.
PollCannotSend(p) ==
  /\ HasResult(p)
  /\ Payload(p) # Nil
  /\ ~CanSend(p)
  /\ EndsTurn(p)
  /\ UNCHANGED wire
  /\ PollUnchanged

\* Request returns, with the client's answer or without.
PollEndsTurn(p) ==
  /\ polling[p] = "sent"
  /\ EndsTurn(p)
  /\ UNCHANGED wire
  /\ PollUnchanged

-----------------------------------------------------------------------------
ReaderStep == HandleRequest \/ RegisterAfterRead \/ StartPoll \/ SendReply \/ DropReply

PollStep(p) ==
  PollStarts(p) \/ PollSkips(p) \/ PollSends(p) \/ PollCannotSend(p) \/ PollEndsTurn(p)

ClientReads == ClientHears \/ ClientIgnores

ServerStep ==
  \/ ReaderStep
  \/ \E p \in Poll : PollStep(p)
  \/ ClientAsks \/ ClientReads \/ Disconnect \/ closeNotify

-----------------------------------------------------------------------------
\* Each request of the client is answered at most once, and in the order in which the
\* client has made them: the numbers only grow from the wire to the request that is
\* handled, to the one not yet read, to the latest one made.
AnswersInOrder ==
  /\ \A i, j \in DOMAIN wire : i < j /\ wire[j].no # 0 => wire[i].no < wire[j].no
  /\ \A i \in DOMAIN wire : wire[i].no <= asked
  /\ \A r \in {handling, inbox} \ {NoMessage} :
       r.no \in 1 .. asked /\ \A i \in DOMAIN wire : wire[i].no < r.no
  /\ handling # NoMessage /\ inbox # NoMessage => handling.no < inbox.no

\* The method of the control unit that the handler is at.
Asking ==
  IF handling.stage = "register" THEN "Register"
  ELSE IF handling.cmd = CmdWrite THEN "Write" ELSE "Read"

\* Goroutine c, which the client has made call op for path, calls or has called just that.
Serves(c, op, path) ==
  IF pc[c] = "idle" THEN answer[c].op = op
  ELSE req[c].op = op /\ req[c].path = path /\ req[c].visitor = Client

\* A goroutine of the server has one call under way at a time, in the client's name, and
\* what it finds when it has returned is the outcome of the call it has come to: the
\* handler registers and answers by the result of this request, not of an earlier one.
OwnOutcome ==
  /\ IF handling = NoMessage THEN pc[SocketReader] = "idle"
     ELSE handling.stage \in {"call", "register"} => Serves(SocketReader, Asking, handling.path)
  /\ \A p \in Poll : IF polling[p] = "read" THEN Serves(p, "ReadBuffer", listens[p].path)
                     ELSE pc[p] = "idle"
===============================================================================
