----------------------------- MODULE ClientHandle -----------------------------
(***************************************************************************)
(* The client library (socketApi/clientHandle.go) over its connections:    *)
(* StartConnect starts a socket and a heartbeat goroutine, the             *)
(* application's goroutines make requests, and CloseNotify, which the      *)
(* socket's writer goroutine runs as its last act, waits for the heartbeat *)
(* goroutine, clears the socket and starts the goroutine that reconnects.  *)
(*                                                                         *)
(* The client dials without regard to what is left of the connection       *)
(* before: its reader goroutine, which may be in a handler, the server's   *)
(* end and the Requests that wait on it go on beside the new connection.   *)
(*                                                                         *)
(* A call made through socketBaseApi once it is nil ends the process: the  *)
(* application's goroutines look at it and then use it, and the heartbeat  *)
(* goroutine uses it unseen.                                               *)
(***************************************************************************)
EXTENDS RealtimeSocket, FiniteSets

CONSTANTS App,             \* the application's goroutines
          Heart,           \* heartbeat goroutines, one for each connection
          AutoReconnect,   \* autoReconnect
          MaxConnections,  \* bound: connections the client makes
          MaxCalls,        \* bound: requests made on all of them
          Served           \* bound: connections whose server's end does anything

\* A goroutine of the client may call the socket of any connection: <<g, c>> stands
\* for goroutine g in Request on connection c.
ClientCall == (App \cup Heart) \X Connection

ASSUME ClientAssumption ==
  /\ MaxConnections \in Nat \ {0} /\ MaxCalls \in Nat /\ Served \subseteq Connection
  /\ Connection = 1 .. MaxConnections
  /\ ClientCall \subseteq Requester
  /\ \A x \in ClientCall : EndOf[x] = <<x[2], "client">>
  /\ App \cap Heart = {}
  /\ AutoReconnect \in BOOLEAN
  /\ Nil \notin Connection

VARIABLES
  socketBaseApi,  \* the connection whose socket the client uses, or Nil
  exiting,        \* the exit flag of the heartbeat goroutines
  counted,        \* the WaitGroup: heartbeat goroutines not yet done
  beat,           \* beat[h]: where heartbeat goroutine h is
  looked,         \* goroutines of the application that have found a socket
  starting,       \* calls of StartConnect between StartProcess and Add
  dialing,        \* the goroutine that reconnects is running
  connects,       \* connections made: the latest is number connects
  crashed         \* a call on a nil socketBaseApi has ended the process

clientVars ==
  <<socketBaseApi, exiting, counted, beat, looked, starting, dialing, connects, crashed>>
allVars == <<vars, clientVars>>

ClientInit ==
  /\ Init
  /\ socketBaseApi = 1
  /\ exiting = FALSE
  /\ counted = 0
  /\ beat = [h \in Heart |-> "none"]
  /\ looked = {}
  /\ starting = 1
  /\ dialing = FALSE
  /\ connects = 1
  /\ crashed = FALSE

\* Goroutine g is in no Request.
Free(g) == \A c \in Connection : stage[<<g, c>>] = "idle"

Calls == {x \in End \X (1 .. MaxRequests) : x[2] <= order[x[1]]}
MayCall == Cardinality(Calls) < MaxCalls

\* Goroutine g calls Request of the socket that the client uses now.
CallsSocket(g) == socketBaseApi # Nil /\ MayCall /\ Request(<<g, socketBaseApi>>)

-----------------------------------------------------------------------------
Started(count) ==
  /\ starting > 0
  /\ starting' = starting - 1
  /\ counted' = count
  /\ \E h \in Heart : beat[h] = "none" /\ beat' = [beat EXCEPT ![h] = "sleep"]
  /\ UNCHANGED <<vars, socketBaseApi, exiting, looked, dialing, connects, crashed>>

\* Mutant: the heartbeat goroutine is not counted.
StartUncounted == Started(counted)

\* The end of StartConnect.  The socket has been running since StartProcess.
StartHeartbeat == Started(counted + 1)

Crash ==
  /\ socketBaseApi = Nil
  /\ crashed' = TRUE
  /\ UNCHANGED <<vars, socketBaseApi, exiting, counted, beat, looked, starting, dialing, connects>>

Heartbeat(h) ==
  /\ beat[h] = "sleep"
  /\ CallsSocket(h)
  /\ beat' = [beat EXCEPT ![h] = "ask"]
  /\ UNCHANGED <<socketBaseApi, exiting, counted, looked, starting, dialing, connects, crashed>>

HeartbeatCrash(h) == beat[h] = "sleep" /\ Crash

HeartbeatEnds(h) ==
  /\ beat' = [beat EXCEPT ![h] = "ended"]
  /\ counted' = counted - 1
  /\ UNCHANGED <<vars, socketBaseApi, exiting, looked, starting, dialing, connects, crashed>>

HeartbeatAgain(h) ==
  /\ beat' = [beat EXCEPT ![h] = "sleep"]
  /\ UNCHANGED <<vars, socketBaseApi, exiting, counted, looked, starting, dialing, connects, crashed>>

\* The flag is looked at after each Request.
CheckExit(h) ==
  /\ beat[h] = "ask"
  /\ Free(h)
  /\ IF exiting THEN HeartbeatEnds(h) ELSE HeartbeatAgain(h)

\* Bound: a heartbeat past MaxCalls or MaxRequests is left out.  The flag is up, so its
\* writer goroutine has gone: it would end with an error.
HeartbeatLeftOut(h) ==
  /\ beat[h] = "sleep"
  /\ socketBaseApi # Nil
  /\ exiting
  /\ \/ ~MayCall
     \/ order[<<connects, "client">>] + order[<<connects, "server">>] >= MaxRequests
  /\ HeartbeatEnds(h)

\* UnblockRead, WriteData and RegisterNotify look at the socket, then use it.
CheckSocket(g) ==
  /\ Free(g)
  /\ g \notin looked
  /\ socketBaseApi # Nil
  /\ looked' = looked \cup {g}
  /\ UNCHANGED <<vars, socketBaseApi, exiting, counted, beat, starting, dialing, connects, crashed>>

UseSocket(g) ==
  /\ g \in looked
  /\ CallsSocket(g)
  /\ looked' = looked \ {g}
  /\ UNCHANGED <<socketBaseApi, exiting, counted, beat, starting, dialing, connects, crashed>>

UseCrash(g) == g \in looked /\ Crash

-----------------------------------------------------------------------------
(***************************************************************************)
(* CloseNotify and the reconnection.                                       *)
(***************************************************************************)
\* Its first half, up to the Wait.
SetExit ==
  /\ writer[<<connects, "client">>] = "close"
  /\ ~exiting
  /\ exiting' = TRUE
  /\ UNCHANGED <<vars, socketBaseApi, counted, beat, looked, starting, dialing, connects, crashed>>

\* Wait has returned: no heartbeat goroutine is counted.
ClearSocket ==
  /\ exiting
  /\ counted = 0
  /\ CloseNotify(<<connects, "client">>)
  /\ socketBaseApi' = Nil
  /\ exiting' = FALSE
  /\ dialing' = AutoReconnect
  /\ UNCHANGED <<counted, beat, looked, starting, connects, crashed>>

\* A new connection, whose two ends have done nothing yet.  A dial that fails is tried
\* again after 10 s.
Reconnect ==
  /\ dialing
  /\ connects < MaxConnections
  /\ connects' = connects + 1
  /\ socketBaseApi' = connects + 1
  /\ starting' = starting + 1
  /\ dialing' = FALSE
  /\ UNCHANGED <<vars, exiting, counted, beat, looked, crashed>>

-----------------------------------------------------------------------------
HeartStep(h) ==
  Heartbeat(h) \/ HeartbeatLeftOut(h) \/ CheckExit(h) \/ HeartbeatCrash(h)

AppStep(g) == UseSocket(g) \/ UseCrash(g)

EndStep(e) ==
  \/ WriterStep(e) \/ ReaderStep(e)
  \/ \E g \in Requester : EndOf[g] = e /\ CallStep(g)

\* What goes on beyond the client's end of connection c.
ServerStep(c) ==
  \/ EndStep(<<c, "server">>) \/ CloseNotify(<<c, "server">>)
  \/ \E g \in Requester : EndOf[g] = <<c, "server">> /\ MayCall /\ Request(g)
  \/ Cut(c)

\* A connection lives from the dial on, also when the client has turned to the next.
ConnectionStep(c) == EndStep(<<c, "client">>) \/ (c \in Served /\ ServerStep(c))

ClientNext ==
  /\ ~crashed
  /\ \/ \E c \in 1 .. connects : ConnectionStep(c) /\ UNCHANGED clientVars
     \/ \E h \in Heart : HeartStep(h)
     \/ \E g \in App : CheckSocket(g) \/ AppStep(g)
     \/ CLoseSocket(connects) /\ UNCHANGED clientVars
     \/ StartHeartbeat \/ SetExit \/ ClearSocket \/ Reconnect

ClientSpec == ClientInit /\ [][ClientNext]_allVars

Runs(A) == ~crashed /\ A /\ UNCHANGED clientVars

\* The fairness of the ends, and that of the goroutines of the client: the heartbeat,
\* an application's goroutine between its look and its call, the one in StartConnect
\* and the one that dials, whose server answers in the end.
ClientFairness ==
  /\ \A g \in App \cup Heart : WF_allVars(Runs(\E c \in Connection : CallStep(<<g, c>>)))
  /\ \A g \in Requester \ ClientCall : WF_allVars(Runs(CallStep(g)))
  /\ \A e \in Connection \X {"client"} \cup Served \X {"server"} :
       /\ WF_allVars(Runs(ReaderMoves(e) \/ (ReadError(e) /\ Noticed(e))))
       /\ WF_allVars(Runs(WriterMoves(e) \/ (CloseNotify(e) /\ e[2] = "server")))
  /\ WF_allVars(~crashed /\ (SetExit \/ ClearSocket))
  /\ \A g \in App : WF_allVars(~crashed /\ AppStep(g))
  /\ \A h \in Heart : WF_allVars(~crashed /\ HeartStep(h))
  /\ WF_allVars(~crashed /\ StartHeartbeat)
  /\ WF_allVars(~crashed /\ Reconnect)

ClientFairSpec == ClientSpec /\ ClientFairness

-----------------------------------------------------------------------------
\* clientHandle.go:195, the Wait: when the socket is cleared no heartbeat goroutine
\* that StartConnect has started runs, to use the nil socket.  (One that it has yet
\* to start escapes the Wait: the socket runs before Add.)
WaitedForHeartbeats ==
  [][socketBaseApi # Nil /\ socketBaseApi' = Nil
     => \A h \in Heart : beat[h] \in {"none", "ended"}]_allVars

\* A client that reconnects has a new socket some time after its end of the connection
\* has closed, or the server's has and the network is not cut before that is heard:
\* the reader, the writer, the heartbeat goroutine and CloseNotify, which wait for one
\* another, come to their ends.  (Of a silent cut the client hears nothing: its
\* heartbeats go on and put its idle timer off.)
Reconnects ==
  AutoReconnect =>
    \A n \in 1 .. MaxConnections - 1 :
      /\ connects = n /\ ~open[<<n, "client">>] ~> (connects > n \/ crashed)
      /\ connects = n /\ ~open[<<n, "server">>] ~> (connects > n \/ crashed \/ n \in cut)
===============================================================================
