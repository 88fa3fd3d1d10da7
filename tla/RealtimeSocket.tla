---------------------------- MODULE RealtimeSocket ----------------------------
(***************************************************************************)
(* Connections between clients and the server (socketApi/socket.go), whose *)
(* two ends run the same code: a reader goroutine, a writer goroutine      *)
(* (SocketPoll itself) and the goroutines that call Request.               *)
(*                                                                         *)
(* Frames carry a number, the order of the request among those of its end. *)
(* Every hand-over between goroutines is an unbuffered channel with a      *)
(* timeout of 500 ms; a timeout fires only while the other side is not     *)
(* there.  A handler may run for as long as it likes.  TCP delivers a      *)
(* prefix of what was sent, in order; it ends when an end closes, or       *)
(* without notice when the network is cut, after which reads and writes    *)
(* may fail, and may not.  Payloads and frames that break the format are   *)
(* left out.                                                               *)
(***************************************************************************)
EXTENDS Integers, Sequences

CONSTANTS Connection,
          Requester,     \* goroutines that call Request
          EndOf,         \* EndOf[g]: the end whose socket goroutine g calls
          MaxRequests,   \* bound: requests made on a connection, by both ends
          WireCapacity,  \* bound: frames the connection holds in one direction
          Nil

End == Connection \X {"client", "server"}
Peer(e) == <<e[1], IF e[2] = "server" THEN "client" ELSE "server">>

ASSUME SocketAssumption ==
  /\ EndOf \in [Requester -> End]
  /\ MaxRequests \in Nat
  /\ WireCapacity \in Nat \ {0}
  /\ Nil \notin [by : Requester, order : Nat]
  /\ Nil \notin [kind : {"request", "ack"}, request : [by : Requester, order : Nat]]

VARIABLES
  order,    \* order[e]: the number of the latest request of end e
  stage,    \* stage[g]: where Request of goroutine g is
  req,      \* req[g]: the latest request of goroutine g
  got,      \* got[g]: what it has returned: the request answered, Nil for an error
  retQueue, \* retQueue[e]: ret_queue, the requests whose answer is expected
  reader,   \* reader[e]: where the reader goroutine is
  incoming, \* incoming[e]: the frame the reader goroutine is dealing with
  writer,   \* writer[e]: where the writer goroutine is
  outgoing, \* outgoing[e]: the frame the writer goroutine is writing
  wire,     \* wire[e]: frames on their way to end e
  open,     \* open[e]: end e has not closed the connection
  cut       \* the connections whose network has gone

callVars == <<order, stage, req, got>>
readVars == <<reader, incoming>>
writeVars == <<writer, outgoing>>
vars == <<callVars, retQueue, readVars, writeVars, wire, open, cut>>

-----------------------------------------------------------------------------
\* Mutant: a request takes the number before its own.
RequestBefore(g, no) == [by |-> g, order |-> no - 1]

RequestOf(g, no) == [by |-> g, order |-> no]
Frame(kind, r) == [kind |-> kind, request |-> r]

Init ==
  /\ order = [e \in End |-> 0]
  /\ stage = [g \in Requester |-> "idle"]
  /\ req = [g \in Requester |-> Nil]
  /\ got = [g \in Requester |-> Nil]
  /\ retQueue = [e \in End |-> {}]
  /\ reader = [e \in End |-> "read"]
  /\ incoming = [e \in End |-> Nil]
  /\ writer = [e \in End |-> "select"]
  /\ outgoing = [e \in End |-> Nil]
  /\ wire = [e \in End |-> <<>>]
  /\ open = [e \in End |-> TRUE]
  /\ cut = {}

-----------------------------------------------------------------------------
(***************************************************************************)
(* Request.                                                                *)
(***************************************************************************)
Request(g) ==
  LET e == EndOf[g]
      r == RequestOf(g, order[e] + 1)
  IN  /\ stage[g] = "idle"
      /\ order[e] + order[Peer(e)] < MaxRequests
      /\ order' = [order EXCEPT ![e] = @ + 1]
      /\ req' = [req EXCEPT ![g] = r]
      /\ stage' = [stage EXCEPT ![g] = "offer"]
      /\ got' = [got EXCEPT ![g] = Nil]
      /\ UNCHANGED <<retQueue, readVars, writeVars, wire, open, cut>>

Returns(g, data) ==
  /\ stage' = [stage EXCEPT ![g] = "idle"]
  /\ got' = [got EXCEPT ![g] = data]
  /\ UNCHANGED <<order, req>>

\* Mutant: Request waits for the writer goroutine for as long as it takes.
OffersOn(g) == FALSE

\* The writer goroutine does not take the request within 500 ms.
NotOffered(g) ==
  /\ stage[g] = "offer"
  /\ writer[EndOf[g]] # "select"
  /\ Returns(g, Nil)
  /\ UNCHANGED <<retQueue, readVars, writeVars, wire, open, cut>>

\* Mutant: one result channel for all requests of a goroutine.
AwaitsAny(g, r) == stage[g] = "await" /\ req[g].by = r.by

\* Goroutine g waits on the result channel of request r.
Awaits(g, r) == stage[g] = "await" /\ req[g] = r

\* Mutant: a request that is not answered is sent again.
SendsAgain(g) ==
  /\ stage[g] = "await"
  /\ stage' = [stage EXCEPT ![g] = "offer"]
  /\ UNCHANGED <<order, req, got, retQueue, readVars, writeVars, wire, open, cut>>

\* The answer does not come within 500 ms.
Unanswered(g) ==
  /\ stage[g] = "await"
  /\ ~(reader[EndOf[g]] = "return" /\ Awaits(g, incoming[EndOf[g]]))
  /\ Returns(g, Nil)
  /\ UNCHANGED <<retQueue, readVars, writeVars, wire, open, cut>>

-----------------------------------------------------------------------------
(***************************************************************************)
(* The writer goroutine.                                                   *)
(***************************************************************************)
\* Mutant: the request is not stored before it is written.
TakeUnstored(g) ==
  LET e == EndOf[g]
  IN  /\ stage[g] = "offer"
      /\ writer[e] = "select"
      /\ stage' = [stage EXCEPT ![g] = "await"]
      /\ writer' = [writer EXCEPT ![e] = "write"]
      /\ outgoing' = [outgoing EXCEPT ![e] = Frame("request", req[g])]
      /\ UNCHANGED <<order, req, got, retQueue, readVars, wire, open, cut>>

\* The request is stored before it is written.
TakeRequest(g) ==
  LET e == EndOf[g]
  IN  /\ stage[g] = "offer"
      /\ writer[e] = "select"
      /\ stage' = [stage EXCEPT ![g] = "await"]
      /\ writer' = [writer EXCEPT ![e] = "write"]
      /\ outgoing' = [outgoing EXCEPT ![e] = Frame("request", req[g])]
      /\ retQueue' = [retQueue EXCEPT ![e] = @ \cup {req[g]}]
      /\ UNCHANGED <<order, req, got, readVars, wire, open, cut>>

TakeAnswer(e) ==
  /\ reader[e] = "answer"
  /\ writer[e] = "select"
  /\ writer' = [writer EXCEPT ![e] = "write"]
  /\ outgoing' = [outgoing EXCEPT ![e] = Frame("ack", incoming[e])]
  /\ reader' = [reader EXCEPT ![e] = "read"]
  /\ incoming' = [incoming EXCEPT ![e] = Nil]
  /\ UNCHANGED <<callVars, retQueue, wire, open, cut>>

\* Nothing arrives any more once the network is cut or the peer has closed.
Write(e) ==
  /\ writer[e] = "write"
  /\ open[e]
  /\ IF e[1] \in cut \/ ~open[Peer(e)] THEN UNCHANGED wire
     ELSE /\ Len(wire[Peer(e)]) < WireCapacity
          /\ wire' = [wire EXCEPT ![Peer(e)] = Append(@, outgoing[e])]
  /\ writer' = [writer EXCEPT ![e] = "select"]
  /\ outgoing' = [outgoing EXCEPT ![e] = Nil]
  /\ UNCHANGED <<callVars, retQueue, readVars, open, cut>>

\* TCP tells end e that the connection is closed; when it is cut nobody need tell.
Noticed(e) == ~open[e] \/ (~open[Peer(e)] /\ e[1] \notin cut)
Broken(e) == Noticed(e) \/ e[1] \in cut

WriteError(e) ==
  /\ writer[e] = "write"
  /\ Broken(e)
  /\ open' = [open EXCEPT ![e] = FALSE]
  /\ writer' = [writer EXCEPT ![e] = "close"]
  /\ outgoing' = [outgoing EXCEPT ![e] = Nil]
  /\ UNCHANGED <<callVars, retQueue, readVars, wire, cut>>

NothingToWrite(e) ==
  /\ writer[e] = "select"
  /\ reader[e] \notin {"answer", "stop"}
  /\ \A g \in Requester : EndOf[g] = e => stage[g] # "offer"

\* Mutant: an end on which nothing happens stays as it is.
IdleStays(e) == FALSE

\* Two seconds without anything to write, and the latest heartbeat too old.  While
\* it is not, the timer changes nothing; its age is left open.  A handler may be
\* running.
IdleClose(e) ==
  /\ NothingToWrite(e)
  /\ open' = [open EXCEPT ![e] = FALSE]
  /\ writer' = [writer EXCEPT ![e] = "close"]
  /\ UNCHANGED <<callVars, retQueue, readVars, outgoing, wire, cut>>

\* The deferred call of close_notify, after which the goroutine ends.
CloseNotify(e) ==
  /\ writer[e] = "close"
  /\ writer' = [writer EXCEPT ![e] = "ended"]
  /\ UNCHANGED <<callVars, retQueue, readVars, outgoing, wire, open, cut>>

-----------------------------------------------------------------------------
(***************************************************************************)
(* The reader goroutine.                                                   *)
(***************************************************************************)
Arrives(e, kind) ==
  /\ reader[e] = "read"
  /\ open[e]
  /\ wire[e] # <<>>
  /\ Head(wire[e]).kind = kind
  /\ wire' = [wire EXCEPT ![e] = Tail(@)]

\* The reader goroutine itself runs the handler, which a heartbeat does not have.
ReadRequest(e) ==
  /\ Arrives(e, "request")
  /\ incoming' = [incoming EXCEPT ![e] = Head(wire[e]).request]
  /\ reader' = [reader EXCEPT ![e] = "handle"]
  /\ UNCHANGED <<callVars, retQueue, writeVars, open, cut>>

Handled(e) ==
  /\ reader[e] = "handle"
  /\ reader' = [reader EXCEPT ![e] = "answer"]
  /\ UNCHANGED <<callVars, retQueue, incoming, writeVars, wire, open, cut>>

\* A client may have no handler, and then does not answer.
NotHandled(e) ==
  /\ reader[e] = "handle"
  /\ e[2] = "client"
  /\ reader' = [reader EXCEPT ![e] = "read"]
  /\ incoming' = [incoming EXCEPT ![e] = Nil]
  /\ UNCHANGED <<callVars, retQueue, writeVars, wire, open, cut>>

\* The writer goroutine does not take the answer within 500 ms.
DropAnswer(e) ==
  /\ reader[e] = "answer"
  /\ writer[e] # "select"
  /\ reader' = [reader EXCEPT ![e] = "read"]
  /\ incoming' = [incoming EXCEPT ![e] = Nil]
  /\ UNCHANGED <<callVars, retQueue, writeVars, wire, open, cut>>

\* The answer of a request of this end.  (One of no request is logged and skipped:
\* AnswerFindsRequest says that there is none.)
ReadAnswer(e) ==
  /\ Arrives(e, "ack")
  /\ Head(wire[e]).request \in retQueue[e]
  /\ incoming' = [incoming EXCEPT ![e] = Head(wire[e]).request]
  /\ reader' = [reader EXCEPT ![e] = "return"]
  /\ UNCHANGED <<callVars, retQueue, writeVars, open, cut>>

Forget(e) ==
  /\ retQueue' = [retQueue EXCEPT ![e] = @ \ {incoming[e]}]
  /\ reader' = [reader EXCEPT ![e] = "read"]
  /\ incoming' = [incoming EXCEPT ![e] = Nil]
  /\ UNCHANGED <<writeVars, wire, open, cut>>

ReturnAnswer(e) ==
  /\ reader[e] = "return"
  /\ \E g \in Requester :
       EndOf[g] = e /\ Awaits(g, incoming[e]) /\ Returns(g, incoming[e])
  /\ Forget(e)

\* Request has given up: nobody comes to the result channel within 500 ms.
DropReturn(e) ==
  /\ reader[e] = "return"
  /\ \A g \in Requester : ~Awaits(g, incoming[e])
  /\ Forget(e)
  /\ UNCHANGED callVars

\* The connection fails or is closed: it is closed and the goroutine stops.
ReadError(e) ==
  /\ reader[e] = "read"
  /\ Broken(e)
  /\ open' = [open EXCEPT ![e] = FALSE]
  /\ reader' = [reader EXCEPT ![e] = "stop"]
  /\ wire' = [wire EXCEPT ![e] = <<>>]
  /\ UNCHANGED <<callVars, retQueue, incoming, writeVars, cut>>

\* Mutant: the writer goroutine is not told.
TellNobody(e) ==
  /\ reader[e] = "stop"
  /\ reader' = [reader EXCEPT ![e] = "ended"]
  /\ UNCHANGED <<callVars, retQueue, incoming, writeVars, wire, open, cut>>

\* read_err_exit, for at most 500 ms.
TellWriter(e) ==
  /\ reader[e] = "stop"
  /\ reader' = [reader EXCEPT ![e] = "ended"]
  /\ writer' = [writer EXCEPT ![e] = IF @ = "select" THEN "close" ELSE @]
  /\ UNCHANGED <<callVars, retQueue, incoming, outgoing, wire, open, cut>>

-----------------------------------------------------------------------------
\* The network goes: what has not arrived is lost.
Cut(c) ==
  /\ c \notin cut
  /\ cut' = cut \cup {c}
  /\ \E n \in [{"client", "server"} -> 0 .. WireCapacity] :
       /\ \A e \in {c} \X {"client", "server"} : n[e[2]] <= Len(wire[e])
       /\ wire' = [e \in End |-> IF e[1] = c THEN SubSeq(wire[e], 1, n[e[2]]) ELSE wire[e]]
  /\ UNCHANGED <<callVars, retQueue, readVars, writeVars, open>>

\* The client's application closes the connection under the socket.
CLoseSocket(c) ==
  /\ open[<<c, "client">>]
  /\ open' = [open EXCEPT ![<<c, "client">>] = FALSE]
  /\ UNCHANGED <<callVars, retQueue, readVars, writeVars, wire, cut>>

CallStep(g) == NotOffered(g) \/ Unanswered(g) \/ TakeRequest(g)

WriterMoves(e) == TakeAnswer(e) \/ Write(e) \/ WriteError(e)

WriterStep(e) == WriterMoves(e) \/ IdleClose(e)

ReaderMoves(e) ==
  \/ ReadRequest(e) \/ Handled(e) \/ NotHandled(e) \/ DropAnswer(e)
  \/ ReadAnswer(e) \/ ReturnAnswer(e) \/ DropReturn(e)
  \/ TellWriter(e)

ReaderStep(e) == ReaderMoves(e) \/ ReadError(e)

Next ==
  \/ \E g \in Requester : Request(g) \/ CallStep(g)
  \/ \E e \in End : WriterStep(e) \/ ReaderStep(e) \/ CloseNotify(e)
  \/ \E c \in Connection : Cut(c) \/ CLoseSocket(c)

Spec == Init /\ [][Next]_vars

\* The goroutines go on, the timers of 500 ms fire and TCP says that an end has
\* closed; nothing makes a request come, the network fail, or a read of a cut one
\* fail.  Nor need an end ever be idle: every request puts its timer of 2 s off, and
\* those that MaxRequests leaves out would.
Fairness ==
  /\ \A g \in Requester : WF_vars(CallStep(g))
  /\ \A e \in End : WF_vars(WriterMoves(e) \/ CloseNotify(e))
  /\ \A e \in End : WF_vars(ReaderMoves(e) \/ (ReadError(e) /\ Noticed(e)))

FairSpec == Spec /\ Fairness

-----------------------------------------------------------------------------
Message == [by : Requester, order : 1 .. MaxRequests]
FrameSet == [kind : {"request", "ack"}, request : Message]

\* The types of the variables; a connection holds no more than its capacity.
TypeOK ==
  /\ order \in [End -> 0 .. MaxRequests]
  /\ stage \in [Requester -> {"idle", "offer", "await"}]
  /\ req \in [Requester -> Message \cup {Nil}]
  /\ got \in [Requester -> Message \cup {Nil}]
  /\ retQueue \in [End -> SUBSET Message]
  /\ reader \in [End -> {"read", "handle", "answer", "return", "stop", "ended"}]
  /\ incoming \in [End -> Message \cup {Nil}]
  /\ writer \in [End -> {"select", "write", "close", "ended"}]
  /\ outgoing \in [End -> FrameSet \cup {Nil}]
  /\ wire \in [End -> Seq(FrameSet)] /\ \A e \in End : Len(wire[e]) <= WireCapacity
  /\ open \in [End -> BOOLEAN]
  /\ cut \subseteq Connection

\* What Request returns is the answer of this very request: the answer of one that
\* was given up comes late, and is not taken for that of the goroutine's next one.
OwnAnswer == \A g \in Requester : got[g] # Nil => got[g] = req[g]

\* The places in which a message is on its way, and the request that each holds.
Site == ({"outgoing", "incoming"} \X End \X {0}) \cup ({"wire"} \X End \X (1 .. WireCapacity))

Held(x) ==
  IF x[1] = "outgoing" THEN IF outgoing[x[2]] = Nil THEN Nil ELSE outgoing[x[2]].request
  ELSE IF x[1] = "incoming" THEN incoming[x[2]]
  ELSE IF x[3] <= Len(wire[x[2]]) THEN wire[x[2]][x[3]].request ELSE Nil

\* A request, or its answer, is on its way in one place at most: what is lost is
\* never sent again, so a write is carried out and an update is told at most once.
AtMostOnce == \A x, y \in Site : Held(x) # Nil /\ Held(x) = Held(y) => x = y

\* An answer finds its request in ret_queue, however fast the peer and however late
\* the answer: the writer goroutine stores the request before the peer can see it,
\* and the reader goroutine alone takes it out.
AnswerFindsRequest ==
  \A e \in End : \A i \in DOMAIN wire[e] :
    wire[e][i].kind = "ack" => wire[e][i].request \in retQueue[e]

\* Every Request returns, whatever becomes of the connection and of the peer.
RequestsReturn == \A g \in Requester : stage[g] # "idle" ~> stage[g] = "idle"

Ended(e) == reader[e] = "ended" /\ writer[e] = "ended"

\* An end that has closed ends both its goroutines, and so does its peer unless the
\* network is cut before it hears of it, whatever the two were doing: the handler,
\* a blocked write, a hand-over to each other that times out.
ConnectionEnds ==
  \A e \in End :
    /\ ~open[e] ~> Ended(e)
    /\ ~open[Peer(e)] ~> (Ended(e) \/ e[1] \in cut)

Silent(e) == \A g \in Requester : EndOf[g] = e => stage[g] = "idle"

\* Nobody tells an end that its network is cut: the idle timer alone ends it, if no
\* goroutine makes requests on it any more.  (A client's heartbeats never cease: it
\* goes on until TCP gives up, and CloseNotify is not called before.)
SilentCutEnds ==
  \A e \in End :
    WF_vars(IdleClose(e)) /\ <>[](e[1] \in cut /\ Silent(e)) => <>Ended(e)
===============================================================================
